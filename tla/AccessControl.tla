---------------------------- MODULE AccessControl ----------------------------
(***************************************************************************)
(* Roles, permissions and menus: RoleService, PermissionService and        *)
(* MenuService behind the guards of their controllers, and the cache of    *)
(* permissions in redis that InjectPermissionsGuard fills.                 *)
(*                                                                         *)
(* Permissions and menus are the items a role holds; both tables work the  *)
(* same way but for a few differences, named where they matter.  `save' of *)
(* an entity writes every relation it was loaded with: rows of a join      *)
(* table, and the role of users, are added and removed until they agree    *)
(* with the entity; a row that is gone by then is inserted again.  Titles  *)
(* and descriptions are left out: a conflict of titles is an Error.        *)
(***************************************************************************)
EXTENDS Naturals, FiniteSets

CONSTANTS
  Request,            \* HTTP requests
  User, Role,         \* rows of users and ids of roles
  RoleName,           \* role names
  Permission, Menu,   \* ids of permissions and of menus
  Key,                \* slugs of permissions and paths of menus
  Needed,             \* @Permissions: the slug a request to RoleController needs
  FirstRoles,         \* the roles, with what they hold, to start from
  FirstKeys,          \* the permissions and menus to start from
  FirstUsers,         \* the users registered so far, and their roles
  Task,               \* what the requests may ask
  SuperAdmin, Merchant,
  NoRow, NoRole, NoKey, NoName, NoToken, NoTask, NoEntry

Item == Permission \cup Menu

RoleRow == [name: RoleName, predefined: BOOLEAN, items: SUBSET Item]

CreateRole == [kind: {"createRole"}, name: RoleName, predefined: BOOLEAN]
ViewRole   == [kind: {"viewRole"}, role: Role]
RenameRole == [kind: {"renameRole"}, role: Role, name: RoleName \cup {NoName}]
DeleteRole == [kind: {"deleteRole"}, role: Role]
Assign     == UNION {[kind: {"assign"}, role: Role, table: {t}, items: SUBSET t] : t \in {Permission, Menu}}
RoleTask   == CreateRole \cup ViewRole \cup RenameRole \cup DeleteRole \cup Assign
CreateItem == [kind: {"createItem"}, table: {Permission, Menu}, key: Key]
UpdateItem == [kind: {"updateItem"}, item: Item, key: Key]
RemoveItem == [kind: {"removeItem"}, item: Item]
ItemTask   == CreateItem \cup UpdateItem \cup RemoveItem

ASSUME TaskAssumption == Task \subseteq RoleTask \cup ItemTask
ASSUME SeedAssumption == /\ FirstRoles \in [Role -> RoleRow \cup {NoRow}]
                         /\ FirstKeys \in [Item -> Key \cup {NoKey}]
                         /\ Needed \in [RoleTask -> Key]
\* The seeds satisfy the foreign keys and the unique columns.
ASSUME IntegrityAssumption ==
  /\ FirstUsers \in [User -> Role \cup {NoRole, NoRow}]
  /\ \A u \in User : FirstUsers[u] \in Role => FirstRoles[FirstUsers[u]] # NoRow
  /\ \A rl \in Role : FirstRoles[rl] # NoRow =>
       /\ \A i \in FirstRoles[rl].items : FirstKeys[i] # NoKey
       /\ \A other \in Role \ {rl} :
            FirstRoles[other] # NoRow => FirstRoles[other].name # FirstRoles[rl].name
  /\ \A table \in {Permission, Menu} : \A i, j \in table :
       i # j /\ FirstKeys[i] # NoKey => FirstKeys[i] # FirstKeys[j]
ASSUME NoneAssumption == /\ NoRow \notin RoleRow \cup Role \cup Item
                         /\ NoRole \notin Role /\ NoKey \notin Key /\ NoTask \notin Task
                         /\ Permission \cap Menu = {}
ASSUME NameAssumption == SuperAdmin \in RoleName /\ Merchant \in RoleName /\ NoName \notin RoleName

VARIABLES
  roles,    \* roles, with role_permissions and role_menus
  key,      \* permissions.slug and menus.path, or NoKey
  roleOf,   \* users.roleId, NoRole, or NoRow before the user registers
  used,     \* ids the sequences have handed out
  cache,    \* redis, permission-cache:<user>: slugs, or NoEntry
  token,    \* the access token of each request: what login put into it
  task,     \* what a request asks
  held,     \* what the handler has loaded
  stage     \* where each request is

accessTables == <<roles, key, roleOf, used, cache>>
accessVars   == <<roles, key, roleOf, used, cache, token, task, held, stage>>

Guarding == {"inject", "loadGrants", "fillCache"}
Serving  == {"checkName", "insertRole", "findRole", "loadRole", "findRows", "saveRole", "removeRole",
             "checkItem", "insertItem", "loadItem", "writeItem", "removeItem"}
Working  == Guarding \cup Serving
Ended    == {"refused", "rejected", "returned", "lost"}

Token == [user: User, role: Role \cup {NoRole}, name: RoleName \cup {NoName}]
ASSUME TokenAssumption == NoToken \notin Token

Existing == {i \in Item : key[i] # NoKey}

\* Mutant: every permission there is.
SlugsOfAll(row) == {key[p] : p \in Permission} \ {NoKey}

SlugsOf(row) == {key[p] : p \in row.items \cap Permission}

-----------------------------------------------------------------------------
\* An entry that redis still has from before lists what the user's role held.
AccessInit ==
  /\ roles  = FirstRoles
  /\ key    = FirstKeys
  /\ roleOf = FirstUsers
  /\ used   = {r \in Role : FirstRoles[r] # NoRow} \cup {i \in Item : FirstKeys[i] # NoKey}
  /\ \E warm \in SUBSET {u \in User : FirstUsers[u] \in Role} :
       cache = [u \in User |-> IF u \in warm THEN SlugsOf(roles[FirstUsers[u]]) ELSE NoEntry]
  /\ token  = [r \in Request |-> NoToken]
  /\ task   = [r \in Request |-> NoTask]
  /\ held   = [r \in Request |-> NoRow]
  /\ stage  = [r \in Request |-> "idle"]

\* The handler of request r resumes and runs to its next await.
GoOn(r, s) == stage' = [stage EXCEPT ![r] = s]

\* The request ends in an HTTP error.
Throw(r) == GoOn(r, "rejected") /\ UNCHANGED <<accessTables, token, task, held>>

\* The entity e is loaded, or made from it; the tables are only read.
Hold(r, e, s) ==
  /\ held' = [held EXCEPT ![r] = e]
  /\ GoOn(r, s)
  /\ UNCHANGED <<accessTables, token, task>>

\* CompanyService.create saves a user with the role named MERCHANT, if any.
Register(u) ==
  LET found == {rl \in Role : roles[rl] # NoRow /\ roles[rl].name = Merchant} IN
  /\ roleOf[u] = NoRow
  /\ \E rl \in IF found = {} THEN {NoRole} ELSE found : roleOf' = [roleOf EXCEPT ![u] = rl]
  /\ UNCHANGED <<roles, key, used, cache, token, task, held, stage>>

\* AuthService.login puts the role the user has now into the access token.
LogIn(r, u) ==
  /\ stage[r] = "idle" /\ roleOf[u] # NoRow
  /\ token' = [token EXCEPT ![r] =
       [user |-> u, role |-> roleOf[u],
        name |-> IF roleOf[u] = NoRole THEN NoName ELSE roles[roleOf[u]].name]]
  /\ GoOn(r, "loggedIn")
  /\ UNCHANGED <<accessTables, task, held>>

\* Where a handler starts once the guards have let the request pass.
FirstStage(t) ==
  CASE t.kind = "createRole" -> "checkName"
    [] t.kind = "viewRole" -> "findRole"
    [] t.kind \in {"renameRole", "deleteRole", "assign"} -> "loadRole"
    [] t.kind = "createItem" -> "checkItem"
    [] t.kind \in {"updateItem", "removeItem"} -> "loadItem"

\* A request arrives.  JwtAuthGuard takes the token; RoleController also has
\* RolesGuard, which compares the role name in the token.
Ask(r, t) ==
  /\ stage[r] = "loggedIn"
  /\ task' = [task EXCEPT ![r] = t]
  /\ GoOn(r, IF t \in ItemTask THEN FirstStage(t)
             ELSE IF token[r].name = SuperAdmin THEN "inject" ELSE "refused")
  /\ UNCHANGED <<accessTables, token, held>>

-----------------------------------------------------------------------------
(* The guards of RoleController. *)

\* permissionCache.getPermissions; on a hit PermissionsGuard decides at once.
Inject(r) ==
  LET hit == cache[token[r].user] IN
  /\ stage[r] = "inject"
  /\ GoOn(r, IF hit = NoEntry THEN "loadGrants"
             ELSE IF Needed[task[r]] \in hit THEN FirstStage(task[r]) ELSE "refused")
  /\ UNCHANGED <<accessTables, token, task, held>>

\* On a miss roleRepository.findOne; a role that is gone is a TypeError.
LoadGrants(r) ==
  LET row == roles[token[r].role] IN
  /\ stage[r] = "loadGrants"
  /\ \/ row # NoRow /\ Hold(r, [slugs |-> SlugsOf(row)], "fillCache")
     \/ row = NoRow /\ Throw(r)

\* setPermissions.  What was loaded is an inner `permissions' that shadows the
\* outer one: user.permissions stays null and PermissionsGuard refuses.
FillCache(r) ==
  /\ stage[r] = "fillCache"
  /\ cache' = [cache EXCEPT ![token[r].user] = held[r].slugs]
  /\ GoOn(r, "refused")
  /\ UNCHANGED <<roles, key, roleOf, used, token, task, held>>

\* redis drops an entry an hour after it was set; nothing else drops it.
Expire(u) ==
  /\ cache[u] # NoEntry
  /\ cache' = [cache EXCEPT ![u] = NoEntry]
  /\ UNCHANGED <<roles, key, roleOf, used, token, task, held, stage>>

-----------------------------------------------------------------------------
(* RoleService. *)

NameTaken(rl, n) == \E other \in Role \ {rl} : roles[other] # NoRow /\ roles[other].name = n

\* createRole: findOne by name, or 409
CheckName(r) ==
  LET row == [name |-> task[r].name, predefined |-> task[r].predefined, items |-> {}] IN
  /\ stage[r] = "checkName"
  /\ \/ ~NameTaken(NoRole, row.name) /\ Hold(r, [row |-> row], "insertRole")
     \/ NameTaken(NoRole, row.name) /\ Throw(r)

\* createRole: the row is inserted; roleName is a unique column.
InsertRole(r) ==
  /\ stage[r] = "insertRole"
  /\ \/ /\ ~NameTaken(NoRole, held[r].row.name)
        /\ \E rl \in Role \ used : /\ roles' = [roles EXCEPT ![rl] = held[r].row]
                                   /\ used' = used \cup {rl}
        /\ GoOn(r, "returned")
        /\ UNCHANGED <<key, roleOf, cache, token, task, held>>
     \/ NameTaken(NoRole, held[r].row.name) /\ Throw(r)

\* Mutant: a missing name is written.
NewNameAsGiven(row, n) == n

\* data.roleName || role.roleName
NewName(row, n) == IF n = NoName THEN row.name ELSE n

UsersOf(rl) == {u \in User : roleOf[u] = rl}

\* getRoleById for GET role/:id: the row, or null, is answered.
FindRole(r) ==
  /\ stage[r] = "findRole"
  /\ GoOn(r, "returned")
  /\ UNCHANGED <<accessTables, token, task, held>>

\* findOne with its relations, or 404; a predefined or assigned role is not
\* deleted; a new name goes into the entity at once.
LoadRole(r) ==
  LET t == task[r]  row == roles[t.role] IN
  /\ stage[r] = "loadRole"
  /\ \/ row = NoRow /\ Throw(r)
     \/ row # NoRow /\ t.kind = "assign" /\ Hold(r, [row |-> row], "findRows")
     \/ /\ row # NoRow /\ t.kind = "renameRole"
        /\ Hold(r, [row |-> [row EXCEPT !.name = NewName(row, t.name)],
                    users |-> UsersOf(t.role)], "saveRole")
     \/ /\ row # NoRow /\ t.kind = "deleteRole"
        /\ IF row.predefined \/ UsersOf(t.role) # {} THEN Throw(r)
           ELSE Hold(r, [row |-> row], "removeRole")

\* Mutant: an empty list of ids finds every row.
FindRowsAll(r) ==
  LET t == task[r]  found == IF t.items = {} THEN t.table ELSE t.items IN
  /\ stage[r] = "findRows"
  /\ Hold(r, [row |-> [held[r].row EXCEPT !.items =
                         (@ \ t.table) \cup (found \cap Existing)]], "saveRole")

\* assign: the list that is asked for, as far as its rows exist, replaces one.
FindRows(r) ==
  LET t == task[r] IN
  /\ stage[r] = "findRows"
  /\ Hold(r, [row |-> [held[r].row EXCEPT !.items =
                         (@ \ t.table) \cup (t.items \cap Existing)]], "saveRole")

\* Mutant: join tables without foreign keys.
SavableRoleUnlinked(rl, row) == ~NameTaken(rl, row.name)

\* Foreign keys of the join tables, and the unique column roleName.
SavableRole(rl, row) == row.items \subseteq Existing /\ ~NameTaken(rl, row.name)

\* `users' of a loaded role, written back: the others lose the role.
RolesWith(rl, users) ==
  [u \in User |-> IF u \in users THEN rl ELSE IF roleOf[u] = rl THEN NoRole ELSE roleOf[u]]

\* updateRole and assign: roleRepository.save
SaveRole(r) ==
  LET rl == task[r].role  e == held[r] IN
  /\ stage[r] = "saveRole"
  /\ \/ /\ SavableRole(rl, e.row)
        /\ roles' = [roles EXCEPT ![rl] = e.row]
        /\ roleOf' = IF task[r].kind = "renameRole" THEN RolesWith(rl, e.users) ELSE roleOf
        /\ GoOn(r, "returned")
        /\ UNCHANGED <<key, used, cache, token, task, held>>
     \/ ~SavableRole(rl, e.row) /\ Throw(r)

\* Mutant: users.roleId without a foreign key.
RemoveRoleUnlinked(r) ==
  /\ stage[r] = "removeRole"
  /\ roles' = [roles EXCEPT ![task[r].role] = NoRow]
  /\ GoOn(r, "returned")
  /\ UNCHANGED <<key, roleOf, used, cache, token, task, held>>

\* deleteRole: the row goes with its join rows, unless a user refers to it.
RemoveRole(r) ==
  LET rl == task[r].role IN
  /\ stage[r] = "removeRole"
  /\ \/ /\ UsersOf(rl) = {}
        /\ roles' = [roles EXCEPT ![rl] = NoRow]
        /\ GoOn(r, "returned")
        /\ UNCHANGED <<key, roleOf, used, cache, token, task, held>>
     \/ UsersOf(rl) # {} /\ Throw(r)

-----------------------------------------------------------------------------
(* PermissionService and MenuService. *)

TableOf(i) == IF i \in Permission THEN Permission ELSE Menu

KeyTaken(table, i, k) == \E other \in table \ {i} : key[other] = k

\* create looks for the slug of a permission; of a menu only for its title.
CheckItem(r) ==
  LET t == task[r]  known == t.table = Permission /\ KeyTaken(t.table, NoRow, t.key) IN
  /\ stage[r] = "checkItem"
  /\ \/ ~known /\ Hold(r, NoRow, "insertItem")
     \/ known /\ Throw(r)

\* create: the row is inserted; slug and path are unique columns.
InsertItem(r) ==
  LET t == task[r] IN
  /\ stage[r] = "insertItem"
  /\ \/ /\ ~KeyTaken(t.table, NoRow, t.key)
        /\ \E i \in t.table \ used : key' = [key EXCEPT ![i] = t.key] /\ used' = used \cup {i}
        /\ GoOn(r, "returned")
        /\ UNCHANGED <<roles, roleOf, cache, token, task, held>>
     \/ KeyTaken(t.table, NoRow, t.key) /\ Throw(r)

\* The roles that hold item i.
Holders(i) == {rl \in Role : roles[rl] # NoRow /\ i \in roles[rl].items}

\* findOne with its roles, or 404; an assigned item is not deleted.
LoadItem(r) ==
  LET t == task[r] IN
  /\ stage[r] = "loadItem"
  /\ \/ t.item \notin Existing /\ Throw(r)
     \/ /\ t.item \in Existing /\ t.kind = "updateItem"
        /\ Hold(r, [holders |-> Holders(t.item)], "writeItem")
     \/ /\ t.item \in Existing /\ t.kind = "removeItem"
        /\ IF Holders(t.item) # {} THEN Throw(r) ELSE Hold(r, NoRow, "removeItem")

\* Item i, held by just the roles in S.
HeldBy(i, S) ==
  [rl \in Role |-> IF roles[rl] = NoRow THEN NoRow
                   ELSE [roles[rl] EXCEPT !.items = (@ \ {i}) \cup {x \in {i} : rl \in S}]]

\* permissionRepo.update changes the slug, and only of a row that is there.
UpdatePermission(r) ==
  LET t == task[r] IN
  /\ t.item \in Permission
  /\ \/ /\ t.item \in Existing /\ ~KeyTaken(Permission, t.item, t.key)
        /\ key' = [key EXCEPT ![t.item] = t.key]
        /\ GoOn(r, "returned")
        /\ UNCHANGED <<roles, roleOf, used, cache, token, task, held>>
     \/ (t.item \notin Existing \/ KeyTaken(Permission, t.item, t.key)) /\ Throw(r)

\* menuRepository.save writes the menu back with the roles it was loaded with.
SaveMenu(r) ==
  LET t == task[r]  S == held[r].holders
      savable == ~KeyTaken(Menu, t.item, t.key) /\ \A rl \in S : roles[rl] # NoRow IN
  /\ t.item \in Menu
  /\ \/ /\ savable
        /\ key' = [key EXCEPT ![t.item] = t.key]
        /\ roles' = HeldBy(t.item, S)
        /\ GoOn(r, "returned")
        /\ UNCHANGED <<roleOf, used, cache, token, task, held>>
     \/ ~savable /\ Throw(r)

WriteItem(r) == stage[r] = "writeItem" /\ (UpdatePermission(r) \/ SaveMenu(r))

\* remove: the row goes with its join rows.
RemoveTheItem(r) ==
  LET i == task[r].item IN
  /\ stage[r] = "removeItem"
  /\ key' = [key EXCEPT ![i] = NoKey]
  /\ roles' = HeldBy(i, {})
  /\ GoOn(r, "returned")
  /\ UNCHANGED <<roleOf, used, cache, token, task, held>>

-----------------------------------------------------------------------------
\* A query fails, a title is taken or missing, an id is no number.
Error(r) == stage[r] \in Working /\ Throw(r)

\* The process stops; the tables and redis stay.
Stop ==
  /\ stage' = [r \in Request |-> IF stage[r] \in Working THEN "lost" ELSE stage[r]]
  /\ UNCHANGED <<accessTables, token, task, held>>

Serve(r) ==
  \/ Inject(r) \/ LoadGrants(r) \/ FillCache(r)
  \/ CheckName(r) \/ InsertRole(r) \/ FindRole(r) \/ LoadRole(r) \/ FindRows(r) \/ SaveRole(r) \/ RemoveRole(r)
  \/ CheckItem(r) \/ InsertItem(r) \/ LoadItem(r) \/ WriteItem(r) \/ RemoveTheItem(r)

AccessNext ==
  \/ \E r \in Request : \/ \E u \in User : LogIn(r, u)
                        \/ \E t \in Task : Ask(r, t)
                        \/ Serve(r) \/ Error(r)
  \/ \E u \in User : Register(u) \/ Expire(u)
  \/ Stop

AccessSpec == AccessInit /\ [][AccessNext]_accessVars

-----------------------------------------------------------------------------
(* Properties. *)

AccessTypeOK ==
  /\ roles \in [Role -> RoleRow \cup {NoRow}]
  /\ key \in [Item -> Key \cup {NoKey}]
  /\ roleOf \in [User -> Role \cup {NoRole, NoRow}]
  /\ used \subseteq Role \cup Item
  /\ cache \in [User -> (SUBSET Key) \cup {NoEntry}]
  /\ token \in [Request -> Token \cup {NoToken}]
  /\ task \in [Request -> Task \cup {NoTask}]
  /\ DOMAIN held = Request
  /\ stage \in [Request -> {"idle", "loggedIn"} \cup Working \cup Ended]

\* Roles and items refer to rows that exist and their names are unique, though
\* handlers write back lists of rows that others may have removed meanwhile.
ReferencesHold ==
  /\ \A rl \in Role : roles[rl] # NoRow =>
       roles[rl].items \subseteq Existing /\ ~NameTaken(rl, roles[rl].name)
  /\ \A u \in User : roleOf[u] \in Role => roles[roleOf[u]] # NoRow
  /\ \A i \in Existing : ~KeyTaken(TableOf(i), i, key[i])

\* Role rl came with item i, or a request for it passed the guards.
WasGiven(rl, i) ==
  \/ FirstRoles[rl] # NoRow /\ i \in FirstRoles[rl].items
  \/ \E r \in Request : /\ task[r] # NoTask /\ task[r].kind = "assign"
                        /\ task[r].role = rl /\ i \in task[r].items
                        /\ stage[r] \notin {"refused"} \cup Guarding

\* A role holds nothing it was not given: what it holds came with the seeds or
\* was asked for by a request that passed the guards, however old the lists
\* are that renames, assignments and updates of menus write back.
GrantsWereAsked ==
  \A rl \in Role : roles[rl] # NoRow => \A i \in roles[rl].items : WasGiven(rl, i)

\* A predefined role, and a role some user has, is never removed: a user who
\* registers after deleteRole looked for users keeps an existing role.
NeededRolesStay ==
  [][\A rl \in Role :
       (roles[rl] # NoRow /\ (roles[rl].predefined \/ UsersOf(rl) # {}))
         => roles'[rl] # NoRow]_accessVars

\* Item i had slug or path k from the start, or a request asked for it.
HadKey(i, k) ==
  \/ FirstKeys[i] = k
  \/ \E r \in Request :
       /\ task[r] # NoTask /\ task[r].kind \in {"createItem", "updateItem"} /\ task[r].key = k
       /\ IF task[r].kind = "updateItem" THEN task[r].item = i ELSE i \in task[r].table

\* Role rl is one user u has started with or has logged in with.
WasRoleOf(u, rl) ==
  \/ FirstUsers[u] = rl
  \/ \E q \in Request : token[q] # NoToken /\ token[q].user = u /\ token[q].role = rl

\* The slug s once came with a role of user u.
WasGranted(u, s) ==
  \E rl \in Role, p \in Permission : WasRoleOf(u, rl) /\ WasGiven(rl, p) /\ HadKey(p, s)

\* Nobody passes PermissionsGuard with a slug that no role of theirs was ever
\* given.  The guard decides from a list that may be an hour old, that another
\* request of the user has stored, loaded with another token and maybe before the
\* role or the permission was changed: what it admits may have been revoked, but
\* it was granted once.
AdmittedByGrant ==
  \A r \in Request :
    (task[r] \in RoleTask /\ stage[r] \in Serving \cup {"returned"}) =>
      WasGranted(token[r].user, Needed[task[r]])
=============================================================================
