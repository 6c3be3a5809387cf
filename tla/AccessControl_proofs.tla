------------------------ MODULE AccessControl_proofs ------------------------
(***************************************************************************)
(* Theorems about AccessControl, for every set of requests, roles, users,  *)
(* permissions and menus, every seed and all tasks.                        *)
(***************************************************************************)
EXTENDS AccessControl, TLAPS

RoleKind == {"createRole", "viewRole", "renameRole", "deleteRole", "assign"}

Holding == {"findRows", "saveRole", "removeRole"}

\* What a request at each stage asks.
TaskOK(r) ==
  /\ stage[r] \in {"idle", "loggedIn"} => task[r] = NoTask
  /\ stage[r] \in Working => task[r] \in Task
  /\ stage[r] \in Guarding => task[r] \in RoleTask /\ token[r] \in Token /\ token[r].role \in Role
  /\ stage[r] \in {"checkName", "insertRole"} => task[r].kind = "createRole"
  /\ stage[r] = "loadRole" => task[r].kind \in {"renameRole", "deleteRole", "assign"}
  /\ stage[r] = "findRows" => task[r].kind = "assign"
  /\ stage[r] = "saveRole" => task[r].kind \in {"renameRole", "assign"}
  /\ stage[r] = "removeRole" => task[r].kind = "deleteRole"
  /\ stage[r] \in {"checkItem", "insertItem"} => task[r].kind = "createItem"
  /\ stage[r] = "loadItem" => task[r].kind \in {"updateItem", "removeItem"}
  /\ stage[r] = "writeItem" => task[r].kind = "updateItem"
  /\ stage[r] = "removeItem" => task[r].kind = "removeItem"
  /\ stage[r] = "loggedIn" => token[r] \in Token /\ (token[r].name # NoName => token[r].role \in Role)

\* What the handler of r holds, however stale, gives no role what it was not
\* given, and refers to a role that has an id.
HeldOK(r) ==
  /\ stage[r] = "fillCache" => held[r].slugs \in SUBSET Key
  /\ stage[r] = "insertRole" => held[r].row \in RoleRow /\ held[r].row.items = {}
  /\ stage[r] \in Holding =>
       /\ held[r].row \in RoleRow /\ task[r].role \in used
       /\ \A i \in held[r].row.items : WasGiven(task[r].role, i)
  /\ stage[r] = "saveRole" /\ task[r].kind = "renameRole" => held[r].users \subseteq User
  /\ stage[r] = "removeRole" => ~held[r].row.predefined
  /\ stage[r] = "writeItem" => /\ held[r].holders \subseteq Role
                               /\ \A rl \in held[r].holders : WasGiven(rl, task[r].item)

HandlersAgree == \A r \in Request : TaskOK(r) /\ HeldOK(r)

\* Whether a role is predefined never changes: all copies of its row agree.
PredefinedAgrees ==
  /\ \A rl \in Role : roles[rl] # NoRow => rl \in used
  /\ \A r \in Request : stage[r] \in Holding =>
       /\ roles[task[r].role] # NoRow => roles[task[r].role].predefined = held[r].row.predefined
       /\ \A q \in Request : stage[q] \in Holding /\ task[q].role = task[r].role =>
            held[q].row.predefined = held[r].row.predefined

IInv == AccessTypeOK /\ ReferencesHold /\ GrantsWereAsked /\ HandlersAgree /\ PredefinedAgrees

-----------------------------------------------------------------------------
\* The fields of a task.
LEMMA TaskFields ==
  ASSUME NEW t \in Task
  PROVE  /\ t \in RoleTask \/ t \in ItemTask
         /\ t \in RoleTask <=> t \notin ItemTask
         /\ t \in RoleTask => t.kind \in RoleKind
         /\ t.kind \in RoleKind \cup {"createItem", "updateItem", "removeItem"}
         /\ t \in ItemTask => t.kind \in {"createItem", "updateItem", "removeItem"}
         /\ t.kind = "createRole" => t.name \in RoleName /\ t.predefined \in BOOLEAN
         /\ t.kind = "renameRole" => t.role \in Role /\ t.name \in RoleName \cup {NoName}
         /\ t.kind = "deleteRole" => t.role \in Role
         /\ t.kind = "assign" => /\ t.role \in Role /\ t.table \in {Permission, Menu}
                                 /\ t.items \subseteq t.table
         /\ t.kind = "createItem" => t.table \in {Permission, Menu} /\ t.key \in Key
         /\ t.kind = "updateItem" => t.item \in Item /\ t.key \in Key
         /\ t.kind = "removeItem" => t.item \in Item
<1>1. t \in RoleTask \cup ItemTask
  BY TaskAssumption
<1>2. CASE t \in CreateRole
  BY <1>2 DEF CreateRole, RoleTask, ItemTask, CreateItem, UpdateItem, RemoveItem, RoleKind
<1>9. CASE t \in ViewRole
  BY <1>9 DEF ViewRole, RoleTask, ItemTask, CreateItem, UpdateItem, RemoveItem, RoleKind
<1>3. CASE t \in RenameRole
  BY <1>3 DEF RenameRole, RoleTask, ItemTask, CreateItem, UpdateItem, RemoveItem, RoleKind
<1>4. CASE t \in DeleteRole
  BY <1>4 DEF DeleteRole, RoleTask, ItemTask, CreateItem, UpdateItem, RemoveItem, RoleKind
<1>5. CASE t \in Assign
  <2>1. PICK table \in {Permission, Menu} :
          t \in [kind: {"assign"}, role: Role, table: {table}, items: SUBSET table]
    BY <1>5 DEF Assign
  <2> QED BY <1>5, <2>1 DEF RoleTask, ItemTask, CreateItem, UpdateItem, RemoveItem, RoleKind
<1>6. CASE t \in CreateItem
  <2>1. t \notin Assign
    BY <1>6 DEF CreateItem, Assign
  <2> QED BY <1>6, <2>1 DEF CreateItem, RoleTask, CreateRole, ViewRole, RenameRole, DeleteRole, ItemTask
<1>7. CASE t \in UpdateItem
  <2>1. t \notin Assign
    BY <1>7 DEF UpdateItem, Assign
  <2> QED BY <1>7, <2>1 DEF UpdateItem, RoleTask, CreateRole, ViewRole, RenameRole, DeleteRole, ItemTask
<1>8. CASE t \in RemoveItem
  <2>1. t \notin Assign
    BY <1>8 DEF RemoveItem, Assign
  <2> QED BY <1>8, <2>1 DEF RemoveItem, RoleTask, CreateRole, ViewRole, RenameRole, DeleteRole, ItemTask
<1> QED BY <1>1, <1>2, <1>3, <1>4, <1>5, <1>6, <1>7, <1>8, <1>9 DEF RoleTask, ItemTask

\* The first await of a handler.
LEMMA FirstStages ==
  ASSUME NEW t \in Task
  PROVE  /\ FirstStage(t) \in {"checkName", "findRole", "loadRole", "checkItem", "loadItem"}
         /\ FirstStage(t) = "findRole" => t.kind = "viewRole"
         /\ FirstStage(t) = "checkName" => t.kind = "createRole"
         /\ FirstStage(t) = "loadRole" => t.kind \in {"renameRole", "deleteRole", "assign"}
         /\ FirstStage(t) = "checkItem" => t.kind = "createItem"
         /\ FirstStage(t) = "loadItem" => t.kind \in {"updateItem", "removeItem"}
  BY TaskFields DEF FirstStage, RoleKind

\* The tables to start from.
LEMMA AccessInitOK == AccessInit => IInv
<1> SUFFICES ASSUME AccessInit PROVE IInv
  OBVIOUS
<1> USE DEF AccessInit
<1>1. AccessTypeOK
  <2>1. ASSUME NEW u \in User, FirstUsers[u] \in Role PROVE SlugsOf(roles[FirstUsers[u]]) \in SUBSET Key
    <3>1. FirstRoles[FirstUsers[u]] \in RoleRow /\ \A i \in FirstRoles[FirstUsers[u]].items : FirstKeys[i] # NoKey
      BY <2>1, SeedAssumption, IntegrityAssumption
    <3> QED BY <3>1, SeedAssumption DEF SlugsOf, Item
  <2>2. cache \in [User -> (SUBSET Key) \cup {NoEntry}]
    BY <2>1
  <2> QED BY <2>2, SeedAssumption, IntegrityAssumption DEF AccessTypeOK, Item
<1>2. ReferencesHold
  <2>1. \A rl \in Role : roles[rl] # NoRow =>
          roles[rl].items \subseteq Existing /\ ~NameTaken(rl, roles[rl].name)
    BY SeedAssumption, IntegrityAssumption DEF RoleRow, Existing, NameTaken
  <2>2. \A i \in Existing : ~KeyTaken(TableOf(i), i, key[i])
    BY IntegrityAssumption DEF Existing, KeyTaken, TableOf, Item
  <2> QED BY <2>1, <2>2, IntegrityAssumption DEF ReferencesHold
<1>3. GrantsWereAsked
  BY DEF GrantsWereAsked, WasGiven
<1>4. HandlersAgree
  BY DEF HandlersAgree, TaskOK, HeldOK, Holding, Guarding, Working, Serving
<1>5. PredefinedAgrees
  BY DEF PredefinedAgrees, Holding
<1> QED BY <1>1, <1>2, <1>3, <1>4, <1>5 DEF IInv

\* Rows of roles are records.
LEMMA RoleRows ==
  ASSUME AccessTypeOK, NEW rl \in Role, roles[rl] # NoRow
  PROVE  /\ roles[rl] \in RoleRow /\ roles[rl].name \in RoleName
         /\ roles[rl].items \subseteq Item /\ roles[rl].predefined \in BOOLEAN
  BY DEF AccessTypeOK, RoleRow

\* The rows HeldBy writes.
LEMMA HeldByRows ==
  ASSUME AccessTypeOK, NEW i \in Item, NEW S
  PROVE  /\ HeldBy(i, S) \in [Role -> RoleRow \cup {NoRow}]
         /\ \A rl \in Role :
              LET new == HeldBy(i, S)[rl] IN
              /\ new = NoRow <=> roles[rl] = NoRow
              /\ new # NoRow => /\ new.name = roles[rl].name /\ new.predefined = roles[rl].predefined
                                /\ new.items = (roles[rl].items \ {i}) \cup {x \in {i} : rl \in S}
<1> DEFINE new(rl) == IF roles[rl] = NoRow THEN NoRow
                      ELSE [roles[rl] EXCEPT !.items = (@ \ {i}) \cup {x \in {i} : rl \in S}]
<1>1. ASSUME NEW rl \in Role, roles[rl] # NoRow
      PROVE  /\ new(rl) \in RoleRow /\ new(rl).name = roles[rl].name
             /\ new(rl).predefined = roles[rl].predefined
             /\ new(rl).items = (roles[rl].items \ {i}) \cup {x \in {i} : rl \in S}
  BY <1>1, RoleRows DEF RoleRow
<1>2. HeldBy(i, S) = [rl \in Role |-> new(rl)]
  BY DEF HeldBy
<1>3. NoRow \notin RoleRow
  BY NoneAssumption
<1> HIDE DEF new
<1>4. \A rl \in Role : roles[rl] = NoRow => new(rl) = NoRow
  BY DEF new
<1> QED BY <1>1, <1>2, <1>3, <1>4

-----------------------------------------------------------------------------
\* Queries that only read, and guards, change no table.
Reads(r) == LoadGrants(r) \/ CheckName(r) \/ LoadRole(r) \/ FindRows(r) \/ CheckItem(r) \/ LoadItem(r)

\* They throw, or hand their handler what they found.
LEMMA ReadSteps ==
  ASSUME NEW r \in Request, Reads(r)
  PROVE  Throw(r) \/ \E e : \E s \in Working : Hold(r, e, s)
<1>1. ASSUME LoadRole(r) PROVE Throw(r) \/ \E e : \E s \in Working : Hold(r, e, s)
  BY <1>1 DEF LoadRole, Working, Serving
<1>2. ASSUME LoadItem(r) PROVE Throw(r) \/ \E e : \E s \in Working : Hold(r, e, s)
  BY <1>2 DEF LoadItem, Working, Serving
<1>3. ASSUME FindRows(r) PROVE \E e : \E s \in Working : Hold(r, e, s)
  BY <1>3 DEF FindRows, Working, Serving
<1>4. ASSUME LoadGrants(r) \/ CheckName(r) \/ CheckItem(r)
      PROVE  Throw(r) \/ \E e : \E s \in Working : Hold(r, e, s)
  BY <1>4 DEF LoadGrants, CheckName, CheckItem, Working, Serving, Guarding
<1> QED BY <1>1, <1>2, <1>3, <1>4 DEF Reads

\* The other steps, by what they may write.
LEMMA Writers ==
  ASSUME IInv, [AccessNext]_accessVars
  PROVE  \/ UNCHANGED <<roles, key, roleOf, used>>
         \/ \E u \in User : Register(u)
         \/ \E r \in Request :
              /\ ~Throw(r)
              /\ \/ InsertRole(r) \/ SaveRole(r) \/ RemoveRole(r)
                 \/ InsertItem(r) \/ WriteItem(r) \/ RemoveTheItem(r)
<1> DEFINE Quiet == UNCHANGED <<roles, key, roleOf, used>>
<1>1. ASSUME NEW r \in Request, Throw(r) PROVE Quiet
  BY <1>1 DEF Throw, accessTables
<1>2. ASSUME NEW r \in Request, Reads(r) PROVE Quiet
  BY <1>1, <1>2, ReadSteps DEF Hold, accessTables
<1>3. ASSUME NEW r \in Request, NEW u \in User, LogIn(r, u) PROVE Quiet
  BY <1>3 DEF LogIn, accessTables
<1>4. ASSUME NEW r \in Request, NEW t \in Task, Ask(r, t) PROVE Quiet
  BY <1>4 DEF Ask, accessTables
<1>5. ASSUME NEW r \in Request, Inject(r) \/ FillCache(r) \/ FindRole(r) \/ Error(r) PROVE Quiet
  BY <1>5, <1>1 DEF Inject, FillCache, FindRole, Error, accessTables
<1>6. ASSUME NEW u \in User, Expire(u) PROVE Quiet
  BY <1>6 DEF Expire
<1>7. CASE Stop \/ UNCHANGED accessVars
  BY <1>7 DEF Stop, accessVars, accessTables
<1> HIDE DEF Quiet
<1>8. CASE \E r \in Request : Serve(r)
  <2>1. PICK r \in Request : Serve(r)
    BY <1>8
  <2> QED BY <2>1, <1>1, <1>2, <1>5 DEF Serve, Reads, Quiet
<1> QED BY <1>1, <1>3, <1>4, <1>5, <1>6, <1>7, <1>8 DEF AccessNext, Quiet

-----------------------------------------------------------------------------
\* The types are preserved by each action.
LEMMA TypeStep == ASSUME IInv, [AccessNext]_accessVars PROVE AccessTypeOK'
<1> USE DEF IInv, AccessTypeOK, GoOn
<1>a. ASSUME NEW r \in Request, Throw(r) PROVE AccessTypeOK'
  BY <1>a DEF Throw, accessTables, Ended
<1>b. ASSUME NEW r \in Request, NEW e, NEW s \in Working, Hold(r, e, s) PROVE AccessTypeOK'
  BY <1>b DEF Hold, accessTables
<1>1. ASSUME NEW r \in Request, Reads(r) PROVE AccessTypeOK'
  BY <1>1, <1>a, <1>b, ReadSteps
<1>2. ASSUME NEW r \in Request, NEW u \in User, LogIn(r, u) PROVE AccessTypeOK'
  <2>1. roleOf[u] # NoRole => roleOf[u] \in Role /\ roles[roleOf[u]] # NoRow
    BY <1>2 DEF LogIn, ReferencesHold
  <2>2. [user |-> u, role |-> roleOf[u],
         name |-> IF roleOf[u] = NoRole THEN NoName ELSE roles[roleOf[u]].name] \in Token
    BY <2>1, RoleRows DEF Token
  <2> QED BY <1>2, <2>2 DEF LogIn, accessTables
<1>3. ASSUME NEW r \in Request, NEW t \in Task, Ask(r, t) PROVE AccessTypeOK'
  BY <1>3, FirstStages DEF Ask, accessTables, Working, Guarding, Serving, Ended
<1>4. ASSUME NEW r \in Request, Inject(r) PROVE AccessTypeOK'
  <2>1. task[r] \in Task
    BY <1>4 DEF Inject, HandlersAgree, TaskOK, Working, Guarding
  <2> QED BY <1>4, <2>1, FirstStages DEF Inject, accessTables, Working, Guarding, Serving, Ended
<1>5. ASSUME NEW r \in Request, FillCache(r) PROVE AccessTypeOK'
  <2>1. held[r].slugs \in SUBSET Key
    BY <1>5 DEF FillCache, HandlersAgree, HeldOK
  <2> QED BY <1>5, <2>1 DEF FillCache, Ended
<1>6. ASSUME NEW u \in User, Register(u) PROVE AccessTypeOK'
  BY <1>6 DEF Register
<1>7. ASSUME NEW u \in User, Expire(u) PROVE AccessTypeOK'
  BY <1>7 DEF Expire
<1>8. ASSUME NEW r \in Request, InsertRole(r), ~Throw(r) PROVE AccessTypeOK'
  <2>1. held[r].row \in RoleRow
    BY <1>8 DEF InsertRole, HandlersAgree, HeldOK
  <2> QED BY <1>8, <2>1 DEF InsertRole, Ended
<1>9. ASSUME NEW r \in Request, SaveRole(r), ~Throw(r) PROVE AccessTypeOK'
  <2>1. /\ held[r].row \in RoleRow /\ task[r].role \in Role
        /\ task[r].kind = "renameRole" => held[r].users \subseteq User
    BY <1>9, TaskFields DEF SaveRole, HandlersAgree, HeldOK, TaskOK, Holding, Working, Serving
  <2>2. RolesWith(task[r].role, held[r].users) \in [User -> Role \cup {NoRole, NoRow}]
    BY <2>1 DEF RolesWith
  <2> QED BY <1>9, <2>1, <2>2 DEF SaveRole, Ended
<1>10. ASSUME NEW r \in Request, RemoveRole(r), ~Throw(r) PROVE AccessTypeOK'
  BY <1>10 DEF RemoveRole, Ended
<1>11. ASSUME NEW r \in Request, InsertItem(r), ~Throw(r) PROVE AccessTypeOK'
  <2>1. task[r].table \in {Permission, Menu} /\ task[r].key \in Key
    BY <1>11, TaskFields DEF InsertItem, HandlersAgree, TaskOK, Working, Serving
  <2>2. PICK i \in Item : /\ key' = [key EXCEPT ![i] = task[r].key]
                          /\ used' = used \cup {i}
    BY <1>11, <2>1 DEF InsertItem, Item
  <2> QED BY <1>11, <2>1, <2>2 DEF InsertItem, Ended
<1>12. ASSUME NEW r \in Request, WriteItem(r), ~Throw(r) PROVE AccessTypeOK'
  <2>1. task[r].item \in Item /\ task[r].key \in Key
    BY <1>12, TaskFields DEF WriteItem, HandlersAgree, TaskOK, Working, Serving
  <2>2. CASE UpdatePermission(r)
    BY <1>12, <2>1, <2>2 DEF UpdatePermission, Ended
  <2>3. CASE SaveMenu(r)
    BY <1>12, <2>1, <2>3, HeldByRows DEF SaveMenu, Ended
  <2> QED BY <1>12, <2>2, <2>3 DEF WriteItem
<1>13. ASSUME NEW r \in Request, RemoveTheItem(r) PROVE AccessTypeOK'
  <2>1. task[r].item \in Item
    BY <1>13, TaskFields DEF RemoveTheItem, HandlersAgree, TaskOK, Working, Serving
  <2> QED BY <1>13, <2>1, HeldByRows DEF RemoveTheItem, Ended
<1>14. CASE Stop \/ UNCHANGED accessVars
  BY <1>14 DEF Stop, accessVars, accessTables, Ended
<1>15. ASSUME NEW r \in Request, FindRole(r) PROVE AccessTypeOK'
  BY <1>15 DEF FindRole, accessTables, Ended
<1> QED BY <1>a, <1>1, <1>2, <1>3, <1>4, <1>5, <1>6, <1>7, <1>8, <1>9, <1>10, <1>11, <1>12, <1>13, <1>14, <1>15
        DEF AccessNext, Serve, Reads, Error

-----------------------------------------------------------------------------
\* What was asked for past the guards stays so.
Past(q) == task[q] # NoTask /\ stage[q] \notin {"refused"} \cup Guarding
Stays   == \A q \in Request : Past(q) => Past(q)' /\ task'[q] = task[q]

\* What was given stays given.
LEMMA GivenStays ==
  ASSUME IInv, [AccessNext]_accessVars, NEW rl, NEW i, WasGiven(rl, i) PROVE WasGiven(rl, i)'
<1> USE DEF Past, Stays
<1>0. \A q \in Request : Past(q) => stage[q] \in Serving \cup {"returned", "rejected", "lost"}
  BY DEF IInv, HandlersAgree, TaskOK, AccessTypeOK, Working, Ended
<1>a. ASSUME NEW r \in Request, task' = task, NEW s, GoOn(r, s), stage[r] \in Serving => s \notin {"refused"} \cup Guarding,
             stage[r] \in Serving \cup Guarding
      PROVE  Stays
  BY <1>0, <1>a DEF GoOn, IInv, AccessTypeOK
<1>b. ASSUME NEW r \in Request, stage[r] \in Serving \cup Guarding, Throw(r)
      PROVE  Stays
  BY <1>a, <1>b DEF Throw, Guarding
<1>1. ASSUME NEW r \in Request, NEW u \in User, LogIn(r, u) PROVE Stays
  BY <1>1, <1>0 DEF LogIn, GoOn, IInv, AccessTypeOK, Serving
<1>2. ASSUME NEW r \in Request, NEW t \in Task, Ask(r, t) PROVE Stays
  BY <1>2, <1>0 DEF Ask, GoOn, IInv, AccessTypeOK, Serving
<1>3. ASSUME NEW r \in Request, Inject(r) \/ FillCache(r) \/ LoadGrants(r)
      PROVE  Stays
  <2>1. \E s : task' = task /\ GoOn(r, s)
    BY <1>3 DEF Inject, FillCache, LoadGrants, Throw, Hold
  <2>2. stage[r] \in Guarding /\ stage[r] \notin Serving
    BY <1>3 DEF Inject, FillCache, LoadGrants, Guarding, Serving
  <2> QED BY <2>1, <2>2, <1>a
<1>4. ASSUME NEW r \in Request,
             \/ CheckName(r) \/ InsertRole(r) \/ FindRole(r) \/ LoadRole(r) \/ FindRows(r) \/ SaveRole(r) \/ RemoveRole(r)
             \/ CheckItem(r) \/ InsertItem(r) \/ LoadItem(r) \/ WriteItem(r) \/ RemoveTheItem(r)
      PROVE  Stays
  <2>1. stage[r] \in Serving
    BY <1>4 DEF CheckName, InsertRole, FindRole, LoadRole, FindRows, SaveRole, RemoveRole,
                CheckItem, InsertItem, LoadItem, WriteItem, RemoveTheItem, Serving
  <2>2. CASE Throw(r)
    BY <2>1, <2>2, <1>b
  <2>3. CASE ~Throw(r)
    <3>1. \E s \in Serving \cup {"returned"} : task' = task /\ GoOn(r, s)
      BY <1>4, <2>3
         DEF CheckName, InsertRole, FindRole, LoadRole, FindRows, SaveRole, RemoveRole, CheckItem, InsertItem,
             LoadItem, WriteItem, UpdatePermission, SaveMenu, RemoveTheItem, Hold, Serving
    <3>2. \A s \in Serving \cup {"returned"} : s \notin {"refused"} \cup Guarding
      BY DEF Serving, Guarding
    <3> QED BY <3>1, <3>2, <2>1, <1>a
  <2> QED BY <2>2, <2>3
<1>5. ASSUME NEW r \in Request, Error(r) PROVE Stays
  BY <1>5, <1>b DEF Error, Working
<1>6. ASSUME NEW u \in User, Register(u) \/ Expire(u) PROVE Stays
  BY <1>6 DEF Register, Expire
<1>7. ASSUME Stop PROVE Stays
  BY <1>7 DEF Stop, IInv, AccessTypeOK, Guarding
<1>8. ASSUME UNCHANGED accessVars PROVE Stays
  BY <1>8 DEF accessVars
<1> HIDE DEF Past, Stays
<1>9. Stays
  <2>1. ASSUME NEW r \in Request, Serve(r) PROVE Stays
    BY <2>1, <1>3, <1>4 DEF Serve
  <2> QED BY <2>1, <1>1, <1>2, <1>5, <1>6, <1>7, <1>8 DEF AccessNext
<1> QED BY <1>9 DEF WasGiven, Stays, Past
-----------------------------------------------------------------------------
\* The parts of ReferencesHold.
RolesRefer == \A rl \in Role : roles[rl] # NoRow =>
                roles[rl].items \subseteq Existing /\ ~NameTaken(rl, roles[rl].name)
UsersRefer == \A u \in User : roleOf[u] \in Role => roles[roleOf[u]] # NoRow
KeysUnique == \A i \in Existing : ~KeyTaken(TableOf(i), i, key[i])

\* A key that is free in its table may be written.
LEMMA KeyWritten ==
  ASSUME IInv, NEW i \in Item, NEW k \in Key, ~KeyTaken(TableOf(i), i, k), key' = [key EXCEPT ![i] = k]
  PROVE  /\ Existing' = Existing \cup {i}
         /\ KeysUnique'
<1> USE DEF IInv, AccessTypeOK, ReferencesHold
<1>1. Existing' = Existing \cup {i}
  BY NoneAssumption DEF Existing
<1>2. \A x, y \in Item : TableOf(x) = TableOf(y) <=> (x \in Permission <=> y \in Permission)
  <2>1. CASE Permission = Menu
    BY <2>1, NoneAssumption DEF Item
  <2>2. CASE Permission # Menu
    BY <2>2 DEF TableOf
  <2> QED BY <2>1, <2>2
<1>3. \A x, y \in Item : y \in TableOf(x) <=> (x \in Permission <=> y \in Permission)
  BY NoneAssumption DEF TableOf, Item
<1>4. ASSUME NEW j \in Existing', NEW other \in TableOf(j) \ {j}, key'[other] = key'[j] PROVE FALSE
  <2>1. other \in Item /\ j \in Item
    BY DEF TableOf, Item, Existing
  <2>2. CASE j = i
    BY <1>4, <2>1, <2>2 DEF KeyTaken
  <2>3. CASE other = i
    BY <1>4, <1>3, <2>1, <2>3 DEF KeyTaken
  <2>4. CASE j # i /\ other # i
    BY <1>1, <1>4, <2>1, <2>4 DEF KeyTaken, Existing
  <2> QED BY <2>2, <2>3, <2>4
<1> QED BY <1>1, <1>4 DEF KeysUnique, KeyTaken

\* Foreign keys and unique columns hold, whatever is written back.
LEMMA ReferencesStep == ASSUME IInv, [AccessNext]_accessVars PROVE ReferencesHold'
<1> USE DEF IInv
<1>1. CASE UNCHANGED <<roles, key, roleOf, used>>
  BY <1>1 DEF ReferencesHold, Existing, NameTaken, KeyTaken
<1>2. ASSUME NEW u \in User, Register(u) PROVE ReferencesHold'
  BY <1>2, NoneAssumption DEF Register, ReferencesHold, Existing, NameTaken, KeyTaken, AccessTypeOK
<1>3. ASSUME NEW r \in Request, InsertRole(r), ~Throw(r) PROVE ReferencesHold'
  <2>1. PICK rl \in Role : /\ roles' = [roles EXCEPT ![rl] = held[r].row]
                           /\ ~NameTaken(NoRole, held[r].row.name)
                           /\ UNCHANGED <<key, roleOf>>
    BY <1>3 DEF InsertRole
  <2>2. held[r].row \in RoleRow /\ held[r].row.items = {}
    BY <1>3 DEF InsertRole, HandlersAgree, HeldOK
  <2>3. RolesRefer'
    BY <2>1, <2>2, NoneAssumption DEF AccessTypeOK, RolesRefer, ReferencesHold, NameTaken, Existing
  <2>4. UsersRefer'
    BY <2>1, <2>2, NoneAssumption DEF AccessTypeOK, UsersRefer, ReferencesHold
  <2> QED BY <2>1, <2>3, <2>4 DEF ReferencesHold, RolesRefer, UsersRefer, Existing, KeyTaken
<1>4. ASSUME NEW r \in Request, SaveRole(r), ~Throw(r) PROVE ReferencesHold'
  <2> DEFINE rl == task[r].role
             row == held[r].row
  <2>1. /\ rl \in Role /\ row \in RoleRow /\ row \in RoleRow \cup {NoRow} /\ row # NoRow
        /\ task[r].kind = "renameRole" => held[r].users \subseteq User
    BY <1>4, TaskFields, NoneAssumption
       DEF SaveRole, HandlersAgree, HeldOK, TaskOK, Holding, Working, Serving
  <2>2. /\ roles' = [roles EXCEPT ![rl] = row] /\ key' = key
        /\ row.items \subseteq Existing /\ ~NameTaken(rl, row.name)
        /\ roleOf' = roleOf \/ roleOf' = RolesWith(rl, held[r].users)
    BY <1>4 DEF SaveRole, SavableRole
  <2> HIDE DEF rl, row
  <2>3. RolesRefer'
    BY <2>1, <2>2 DEF AccessTypeOK, RolesRefer, ReferencesHold, NameTaken, Existing
  <2>4. \A u \in User : roleOf'[u] \in {rl, NoRole, roleOf[u]}
    BY <2>2 DEF RolesWith
  <2>5. UsersRefer'
    BY <2>1, <2>2, <2>4, NoneAssumption DEF AccessTypeOK, UsersRefer, ReferencesHold
  <2> QED BY <2>2, <2>3, <2>5 DEF ReferencesHold, RolesRefer, UsersRefer, Existing, KeyTaken
<1>5. ASSUME NEW r \in Request, RemoveRole(r), ~Throw(r) PROVE ReferencesHold'
  BY <1>5 DEF RemoveRole, UsersOf, ReferencesHold, AccessTypeOK, Existing, NameTaken, KeyTaken
<1>6. ASSUME NEW r \in Request, InsertItem(r), ~Throw(r) PROVE ReferencesHold'
  <2> DEFINE t == task[r]
  <2>1. t.table \in {Permission, Menu} /\ t.key \in Key
    BY <1>6, TaskFields DEF InsertItem, HandlersAgree, TaskOK, Working, Serving
  <2>2. PICK i \in t.table : /\ key' = [key EXCEPT ![i] = t.key]
                             /\ ~KeyTaken(t.table, NoRow, t.key)
                             /\ UNCHANGED <<roles, roleOf>>
    BY <1>6 DEF InsertItem
  <2>3. i \in Item /\ TableOf(i) = t.table /\ NoRow \notin t.table
    BY <2>1, NoneAssumption DEF Item, TableOf
  <2>4. ~KeyTaken(TableOf(i), i, t.key)
    BY <2>2, <2>3 DEF KeyTaken
  <2> HIDE DEF t
  <2> QED BY <2>1, <2>2, <2>3, <2>4, KeyWritten DEF ReferencesHold, KeysUnique, NameTaken
<1>7. ASSUME NEW r \in Request, WriteItem(r), ~Throw(r) PROVE ReferencesHold'
  <2> DEFINE t == task[r]
  <2>1. t.item \in Item /\ t.key \in Key
    BY <1>7, TaskFields DEF WriteItem, HandlersAgree, TaskOK, Working, Serving
  <2>2. CASE UpdatePermission(r)
    <3>1. /\ key' = [key EXCEPT ![t.item] = t.key] /\ UNCHANGED <<roles, roleOf>>
          /\ TableOf(t.item) = Permission /\ ~KeyTaken(Permission, t.item, t.key)
      BY <1>7, <2>2 DEF UpdatePermission, TableOf
    <3> HIDE DEF t
    <3> QED BY <2>1, <3>1, KeyWritten DEF ReferencesHold, KeysUnique, NameTaken
  <2>3. CASE SaveMenu(r)
    <3>1. /\ key' = [key EXCEPT ![t.item] = t.key] /\ roleOf' = roleOf
          /\ roles' = HeldBy(t.item, held[r].holders)
          /\ TableOf(t.item) = Menu /\ ~KeyTaken(Menu, t.item, t.key)
      BY <1>7, <2>3, NoneAssumption DEF SaveMenu, TableOf
    <3> HIDE DEF t
    <3>2. /\ Existing' = Existing \cup {t.item}
          /\ KeysUnique'
      BY <2>1, <3>1, KeyWritten
    <3>3. \A x \in Role : /\ roles'[x] = NoRow <=> roles[x] = NoRow
                          /\ roles'[x] # NoRow => /\ roles'[x].name = roles[x].name
                                                  /\ roles'[x].items \subseteq roles[x].items \cup {t.item}
      BY <2>1, <3>1, HeldByRows
    <3> QED BY <3>1, <3>2, <3>3 DEF ReferencesHold, KeysUnique, NameTaken
  <2> QED BY <1>7, <2>2, <2>3 DEF WriteItem
<1>8. ASSUME NEW r \in Request, RemoveTheItem(r) PROVE ReferencesHold'
  <2> DEFINE i == task[r].item
  <2>1. i \in Item
    BY <1>8, TaskFields DEF RemoveTheItem, HandlersAgree, TaskOK, Working, Serving
  <2>2. key' = [key EXCEPT ![i] = NoKey] /\ roles' = HeldBy(i, {}) /\ roleOf' = roleOf
    BY <1>8 DEF RemoveTheItem
  <2> HIDE DEF i
  <2>3. \A x \in Role : /\ roles'[x] = NoRow <=> roles[x] = NoRow
                        /\ roles'[x] # NoRow => /\ roles'[x].name = roles[x].name
                                                /\ roles'[x].items = roles[x].items \ {i}
    BY <2>1, <2>2, HeldByRows
  <2>4. Existing' = Existing \ {i}
    BY <2>1, <2>2 DEF Existing, AccessTypeOK
  <2>5. KeysUnique'
    BY <2>1, <2>2, <2>4 DEF KeysUnique, ReferencesHold, KeyTaken, Existing, AccessTypeOK, TableOf, Item
  <2> QED BY <2>2, <2>3, <2>4, <2>5 DEF ReferencesHold, KeysUnique, NameTaken
<1> QED BY <1>1, <1>2, <1>3, <1>4, <1>5, <1>6, <1>7, <1>8, Writers
\* No row that is written holds what its role was not given.
LEMMA GrantsStep == ASSUME IInv, [AccessNext]_accessVars PROVE GrantsWereAsked'
<1> DEFINE RowsGiven == \A rl \in Role : roles'[rl] # NoRow => \A i \in roles'[rl].items : WasGiven(rl, i)
<1> USE DEF IInv
<1>1. CASE UNCHANGED <<roles, key, roleOf, used>>
  <2>1. RowsGiven
    BY <1>1 DEF GrantsWereAsked
  <2> QED BY <2>1, GivenStays DEF GrantsWereAsked
<1>2. ASSUME NEW u \in User, Register(u) PROVE RowsGiven
  BY <1>2 DEF Register, GrantsWereAsked
<1>3. ASSUME NEW r \in Request, InsertRole(r), ~Throw(r) PROVE RowsGiven
  <2>1. held[r].row.items = {}
    BY <1>3 DEF InsertRole, HandlersAgree, HeldOK
  <2> QED BY <1>3, <2>1 DEF InsertRole, GrantsWereAsked, AccessTypeOK
<1>4. ASSUME NEW r \in Request, SaveRole(r), ~Throw(r) PROVE RowsGiven
  <2>1. \A i \in held[r].row.items : WasGiven(task[r].role, i)
    BY <1>4 DEF SaveRole, HandlersAgree, HeldOK, Holding
  <2> QED BY <1>4, <2>1 DEF SaveRole, GrantsWereAsked, AccessTypeOK
<1>5. ASSUME NEW r \in Request, RemoveRole(r), ~Throw(r) PROVE RowsGiven
  BY <1>5 DEF RemoveRole, GrantsWereAsked, AccessTypeOK
<1>6. ASSUME NEW r \in Request, InsertItem(r), ~Throw(r) PROVE RowsGiven
  BY <1>6 DEF InsertItem, GrantsWereAsked
<1>7. ASSUME NEW r \in Request, WriteItem(r), ~Throw(r) PROVE RowsGiven
  <2>1. CASE UpdatePermission(r)
    BY <1>7, <2>1 DEF UpdatePermission, GrantsWereAsked
  <2>2. CASE SaveMenu(r)
    <3>1. /\ roles' = HeldBy(task[r].item, held[r].holders)
          /\ \A rl \in held[r].holders : WasGiven(rl, task[r].item)
      BY <1>7, <2>2 DEF WriteItem, SaveMenu, HandlersAgree, HeldOK
    <3>2. task[r].item \in Item
      BY <1>7, TaskFields DEF WriteItem, HandlersAgree, TaskOK, Working, Serving
    <3> QED BY <3>1, <3>2, HeldByRows DEF GrantsWereAsked
  <2> QED BY <1>7, <2>1, <2>2 DEF WriteItem
<1>8. ASSUME NEW r \in Request, RemoveTheItem(r) PROVE RowsGiven
  <2>1. task[r].item \in Item /\ roles' = HeldBy(task[r].item, {})
    BY <1>8, TaskFields DEF RemoveTheItem, HandlersAgree, TaskOK, Working, Serving
  <2> QED BY <2>1, HeldByRows DEF GrantsWereAsked
<1>9. CASE RowsGiven
  BY <1>9, GivenStays DEF GrantsWereAsked
<1> HIDE DEF RowsGiven
<1> QED BY <1>1, <1>2, <1>3, <1>4, <1>5, <1>6, <1>7, <1>8, <1>9, Writers

\* Ids are not taken back.
LEMMA UsedGrows == ASSUME IInv, [AccessNext]_accessVars PROVE used \subseteq used'
  BY Writers DEF Register, InsertRole, SaveRole, RemoveRole, InsertItem, WriteItem, UpdatePermission,
                 SaveMenu, RemoveTheItem, Throw, accessTables

\* The rows that a step leaves or writes: those of before, a new one, or a copy
\* of its role.
LEMMA RowSources ==
  ASSUME IInv, [AccessNext]_accessVars, NEW rl \in Role, roles'[rl] # NoRow
  PROVE  /\ rl \in used'
         /\ \/ roles[rl] # NoRow /\ roles'[rl].predefined = roles[rl].predefined
            \/ rl \notin used
            \/ \E r \in Request : /\ stage[r] \in Holding /\ task[r].role = rl
                                  /\ roles'[rl].predefined = held[r].row.predefined
<1> USE DEF IInv, PredefinedAgrees
<1>0. used \subseteq used'
  BY UsedGrows
<1>1. CASE roles' = roles
  BY <1>0, <1>1
<1>2. ASSUME NEW u \in User, Register(u) PROVE roles' = roles
  BY <1>2 DEF Register
<1>3. ASSUME NEW r \in Request, InsertRole(r), ~Throw(r)
      PROVE  roles'[rl] = roles[rl] \/ (rl \notin used /\ rl \in used')
  BY <1>3 DEF InsertRole, AccessTypeOK
<1>4. ASSUME NEW r \in Request, SaveRole(r), ~Throw(r)
      PROVE  \/ roles'[rl] = roles[rl]
             \/ /\ stage[r] \in Holding /\ task[r].role = rl /\ rl \in used
                /\ roles'[rl].predefined = held[r].row.predefined
  BY <1>4 DEF SaveRole, AccessTypeOK, Holding, HandlersAgree, HeldOK
<1>5. ASSUME NEW r \in Request, RemoveRole(r), ~Throw(r) PROVE roles'[rl] = roles[rl]
  BY <1>5 DEF RemoveRole, AccessTypeOK
<1>6. ASSUME NEW r \in Request, InsertItem(r), ~Throw(r) PROVE roles' = roles
  BY <1>6 DEF InsertItem
<1>7. ASSUME NEW r \in Request, WriteItem(r), ~Throw(r)
      PROVE  roles[rl] # NoRow /\ roles'[rl].predefined = roles[rl].predefined
  <2>1. task[r].item \in Item
    BY <1>7, TaskFields DEF WriteItem, HandlersAgree, TaskOK, Working, Serving
  <2> QED BY <1>7, <2>1, HeldByRows DEF WriteItem, UpdatePermission, SaveMenu
<1>8. ASSUME NEW r \in Request, RemoveTheItem(r)
      PROVE  roles[rl] # NoRow /\ roles'[rl].predefined = roles[rl].predefined
  <2>1. task[r].item \in Item
    BY <1>8, TaskFields DEF RemoveTheItem, HandlersAgree, TaskOK, Working, Serving
  <2> QED BY <1>8, <2>1, HeldByRows DEF RemoveTheItem
<1> QED BY <1>0, <1>1, <1>2, <1>3, <1>4, <1>5, <1>6, <1>7, <1>8, Writers
-----------------------------------------------------------------------------
\* The row r is to write back has the `predefined' of the row it read.
Copied(r) ==
  stage'[r] \in Holding =>
    /\ task'[r] = task[r]
    /\ \/ stage[r] \in Holding /\ held'[r].row.predefined = held[r].row.predefined
       \/ /\ roles[task[r].role] # NoRow
          /\ held'[r].row.predefined = roles[task[r].role].predefined

Agrees(r) == TaskOK(r)' /\ HeldOK(r)' /\ Copied(r)

\* A handler that does not move keeps what it relies on.
LEMMA HandlerStays ==
  ASSUME IInv, [AccessNext]_accessVars, NEW q \in Request,
         token'[q] = token[q], task'[q] = task[q], held'[q] = held[q], stage'[q] = stage[q]
  PROVE  Agrees(q)
<1>1. TaskOK(q) /\ HeldOK(q)
  BY DEF IInv, HandlersAgree
<1>2. \A rl, i : WasGiven(rl, i) => WasGiven(rl, i)'
  BY GivenStays
<1>3. used \subseteq used'
  BY UsedGrows
<1>4. TaskOK(q)'
  BY <1>1 DEF TaskOK
<1>5. \A rl, i : rl = task[q].role /\ WasGiven(rl, i) => WasGiven(task[q].role, i)'
  BY <1>2
<1>6. \A rl, i : i = task[q].item /\ WasGiven(rl, i) => WasGiven(rl, task[q].item)'
  BY <1>2
<1>7. HeldOK(q)'
  BY <1>1, <1>3, <1>5, <1>6 DEF HeldOK
<1> QED BY <1>4, <1>7 DEF Agrees, Copied

\* It is enough to look at the handler that moves.
LEMMA OneMoves ==
  ASSUME IInv, [AccessNext]_accessVars, NEW r \in Request,
         \A q \in Request \ {r} : /\ token'[q] = token[q] /\ task'[q] = task[q]
                                  /\ held'[q] = held[q] /\ stage'[q] = stage[q],
         Agrees(r)
  PROVE  \A q \in Request : Agrees(q)
  BY HandlerStays

\* A handler that has ended, or waits for its queries to be asked for, relies
\* on nothing.
LEMMA Ends ==
  ASSUME NEW r \in Request, stage'[r] \in Ended PROVE Agrees(r)
  BY DEF Ended, Agrees, TaskOK, HeldOK, Copied, Holding, Working, Guarding, Serving

\* Each handler's next await finds what the one before has established.
LEMMA HandlersStep == ASSUME IInv, [AccessNext]_accessVars PROVE \A q \in Request : Agrees(q)
<1> USE DEF IInv, AccessTypeOK
<1>0. \A r \in Request : TaskOK(r) /\ HeldOK(r)
  BY DEF HandlersAgree
<1>a. ASSUME NEW r \in Request, NEW s \in Ended, GoOn(r, s), UNCHANGED <<token, task, held>>
      PROVE  \A q \in Request : Agrees(q)
  BY <1>a, Ends, OneMoves DEF GoOn
<1>b. ASSUME NEW r \in Request, Throw(r) PROVE \A q \in Request : Agrees(q)
  BY <1>a, <1>b DEF Throw, Ended
<1>c. ASSUME NEW r \in Request, NEW e, NEW s, Hold(r, e, s), s \in Working
      PROVE  /\ stage'[r] = s /\ held'[r] = e /\ UNCHANGED <<token, task, used>>
             /\ \A q \in Request \ {r} : /\ token'[q] = token[q] /\ task'[q] = task[q]
                                         /\ held'[q] = held[q] /\ stage'[q] = stage[q]
  BY <1>c DEF Hold, GoOn, accessTables
<1>d. \A rl, i : WasGiven(rl, i) => WasGiven(rl, i)'
  BY GivenStays
<1>1. ASSUME NEW r \in Request, NEW u \in User, LogIn(r, u) PROVE \A q \in Request : Agrees(q)
  <2>1. roleOf[u] # NoRole => roleOf[u] \in Role /\ roles[roleOf[u]] # NoRow
    BY <1>1 DEF LogIn, ReferencesHold
  <2> DEFINE t == [user |-> u, role |-> roleOf[u],
                   name |-> IF roleOf[u] = NoRole THEN NoName ELSE roles[roleOf[u]].name]
  <2>2. t \in Token /\ (t.name # NoName => t.role \in Role)
    BY <2>1, RoleRows DEF Token
  <2>3. /\ stage'[r] = "loggedIn" /\ token'[r] = t /\ task' = task /\ held' = held
        /\ stage[r] = "idle"
        /\ \A q \in Request \ {r} : token'[q] = token[q] /\ stage'[q] = stage[q]
    BY <1>1 DEF LogIn, GoOn
  <2> HIDE DEF t
  <2>4. Agrees(r)
    BY <1>0, <2>2, <2>3 DEF Agrees, TaskOK, HeldOK, Copied, Holding, Working, Guarding, Serving
  <2> QED BY <2>3, <2>4, OneMoves
<1>2. ASSUME NEW r \in Request, NEW t \in Task, Ask(r, t) PROVE \A q \in Request : Agrees(q)
  <2>1. /\ stage'[r] = IF t \in ItemTask THEN FirstStage(t)
                       ELSE IF token[r].name = SuperAdmin THEN "inject" ELSE "refused"
        /\ task'[r] = t /\ token' = token /\ held' = held /\ stage[r] = "loggedIn"
        /\ \A q \in Request \ {r} : task'[q] = task[q] /\ stage'[q] = stage[q]
    BY <1>2 DEF Ask, GoOn
  <2>2. CASE t \in ItemTask
    <3>1. stage'[r] \in {"checkItem", "loadItem"} /\ stage'[r] = FirstStage(t)
      BY <2>1, <2>2, TaskFields, FirstStages DEF RoleKind
    <3>2. Agrees(r)
      BY <2>1, <3>1, FirstStages DEF Agrees, TaskOK, HeldOK, Copied, Holding, Working, Guarding, Serving
    <3> QED BY <2>1, <3>2, OneMoves
  <2>3. CASE t \notin ItemTask /\ token[r].name = SuperAdmin
    <3>1. token[r] \in Token /\ token[r].role \in Role /\ t \in RoleTask
      BY <1>0, <2>1, <2>3, TaskFields, NameAssumption DEF TaskOK
    <3>2. Agrees(r)
      BY <2>1, <2>3, <3>1 DEF Agrees, TaskOK, HeldOK, Copied, Holding, Working, Guarding, Serving
    <3> QED BY <2>1, <3>2, OneMoves
  <2>4. CASE t \notin ItemTask /\ token[r].name # SuperAdmin
    BY <2>1, <2>4, Ends, OneMoves DEF Ended
  <2> QED BY <2>2, <2>3, <2>4
<1>3. ASSUME NEW r \in Request, Inject(r) PROVE \A q \in Request : Agrees(q)
  <2>1. /\ stage'[r] \in {"loadGrants", FirstStage(task[r]), "refused"} /\ stage[r] = "inject"
        /\ UNCHANGED <<token, task, held>>
        /\ \A q \in Request \ {r} : stage'[q] = stage[q]
    BY <1>3 DEF Inject, GoOn
  <2>2. /\ task[r] \in Task /\ task[r] \in RoleTask /\ token[r] \in Token /\ token[r].role \in Role
    BY <1>0, <2>1 DEF TaskOK, Working, Guarding
  <2>3. CASE stage'[r] = "loadGrants"
    <3>1. Agrees(r)
      BY <2>1, <2>2, <2>3 DEF Agrees, TaskOK, HeldOK, Copied, Holding, Working, Guarding, Serving
    <3> QED BY <2>1, <3>1, OneMoves
  <2>4. CASE stage'[r] = FirstStage(task[r])
    <3>1. Agrees(r)
      BY <2>1, <2>2, <2>4, FirstStages DEF Agrees, TaskOK, HeldOK, Copied, Holding, Working, Guarding, Serving
    <3> QED BY <2>1, <3>1, OneMoves
  <2>5. CASE stage'[r] = "refused"
    BY <2>1, <2>5, Ends, OneMoves DEF Ended
  <2> QED BY <2>1, <2>3, <2>4, <2>5
<1>4. ASSUME NEW r \in Request, LoadGrants(r), ~Throw(r) PROVE \A q \in Request : Agrees(q)
  <2> DEFINE row == roles[token[r].role]
  <2>1. /\ stage[r] = "loadGrants" /\ row # NoRow /\ Hold(r, [slugs |-> SlugsOf(row)], "fillCache")
        /\ task[r] \in Task /\ task[r] \in RoleTask /\ token[r] \in Token /\ token[r].role \in Role
    BY <1>0, <1>4 DEF LoadGrants, TaskOK, Working, Guarding
  <2>2. row.items \subseteq Existing
    BY <2>1 DEF ReferencesHold
  <2>3. SlugsOf(row) \in SUBSET Key
    BY <2>2 DEF SlugsOf, Existing
  <2> HIDE DEF row
  <2>4. Agrees(r)
    BY <2>1, <2>3, <1>c DEF Agrees, TaskOK, HeldOK, Copied, Holding, Working, Guarding, Serving
  <2> QED BY <2>1, <2>4, <1>c, OneMoves DEF Working, Guarding
<1>5. ASSUME NEW r \in Request, CheckName(r), ~Throw(r) PROVE \A q \in Request : Agrees(q)
  <2> DEFINE row == [name |-> task[r].name, predefined |-> task[r].predefined, items |-> {}]
  <2>1. /\ stage[r] = "checkName" /\ Hold(r, [row |-> row], "insertRole")
        /\ task[r] \in Task /\ task[r].kind = "createRole"
    BY <1>0, <1>5 DEF CheckName, TaskOK, Working, Serving
  <2>2. row \in RoleRow /\ row.items = {}
    BY <2>1, TaskFields DEF RoleRow
  <2> HIDE DEF row
  <2>3. held'[r].row = row /\ stage'[r] = "insertRole" /\ task' = task
    BY <2>1, <1>c DEF Working, Serving
  <2>4. Agrees(r)
    BY <2>1, <2>2, <2>3 DEF Agrees, TaskOK, HeldOK, Copied, Holding, Working, Guarding, Serving
  <2> QED BY <2>1, <2>4, <1>c, OneMoves DEF Working, Serving
<1>6. ASSUME NEW r \in Request, LoadRole(r), ~Throw(r) PROVE \A q \in Request : Agrees(q)
  <2> DEFINE t == task[r]  row == roles[t.role]
  <2>1. /\ stage[r] = "loadRole" /\ row # NoRow /\ t \in Task /\ t.role \in Role
        /\ t.kind \in {"renameRole", "deleteRole", "assign"}
    BY <1>0, <1>6, TaskFields DEF LoadRole, TaskOK, Working, Serving
  <2>2. /\ row \in RoleRow /\ t.role \in used /\ \A i \in row.items : WasGiven(t.role, i)
    BY <2>1, RoleRows DEF GrantsWereAsked, PredefinedAgrees
  <2>3. task' = task /\ t.role \in used' /\ \A i \in row.items : WasGiven(t.role, i)'
    <3>1. \E e : \E s \in Working : Hold(r, e, s)
      BY <1>6, ReadSteps DEF Reads
    <3>2. task' = task
      BY <3>1, <1>c
    <3>3. \A rl, i : rl = t.role /\ WasGiven(rl, i) => WasGiven(t.role, i)'
      BY <3>2, <1>d
    <3> QED BY <2>2, <3>2, <3>3, UsedGrows
  <2>4. CASE t.kind = "assign"
    <3>1. Hold(r, [row |-> row], "findRows")
      BY <1>6, <2>1, <2>4 DEF LoadRole
    <3>2. held'[r].row = row /\ stage'[r] = "findRows" /\ task' = task
      BY <3>1, <1>c DEF Working, Serving
    <3>3. Agrees(r)
      BY <2>1, <2>2, <2>3, <2>4, <3>2
         DEF Agrees, TaskOK, HeldOK, Copied, Holding, Working, Guarding, Serving
    <3> QED BY <3>1, <3>3, <1>c, OneMoves DEF Working, Serving
  <2>5. CASE t.kind = "renameRole"
    <3> DEFINE new == [row EXCEPT !.name = NewName(row, t.name)]
    <3>1. Hold(r, [row |-> new, users |-> UsersOf(t.role)], "saveRole")
      BY <1>6, <2>1, <2>5 DEF LoadRole
    <3>2. t.name \in RoleName \cup {NoName}
      BY <2>1, <2>5, TaskFields
    <3>3. new \in RoleRow /\ new.items = row.items /\ new.predefined = row.predefined
      BY <2>2, <3>2 DEF NewName, RoleRow
    <3> HIDE DEF new
    <3>4. /\ held'[r].row = new /\ held'[r].users = UsersOf(t.role)
          /\ stage'[r] = "saveRole" /\ task' = task
      BY <3>1, <1>c DEF Working, Serving
    <3>5. UsersOf(t.role) \subseteq User
      BY DEF UsersOf
    <3>6. Agrees(r)
      BY <2>1, <2>3, <2>5, <3>3, <3>4, <3>5
         DEF Agrees, TaskOK, HeldOK, Copied, Holding, Working, Guarding, Serving
    <3> QED BY <3>1, <3>6, <1>c, OneMoves DEF Working, Serving
  <2>6. CASE t.kind = "deleteRole"
    <3>1. ~row.predefined /\ Hold(r, [row |-> row], "removeRole")
      BY <1>6, <2>1, <2>6 DEF LoadRole
    <3>2. held'[r].row = row /\ stage'[r] = "removeRole" /\ task' = task
      BY <3>1, <1>c DEF Working, Serving
    <3>3. Agrees(r)
      BY <2>1, <2>2, <2>3, <2>6, <3>1, <3>2
         DEF Agrees, TaskOK, HeldOK, Copied, Holding, Working, Guarding, Serving
    <3> QED BY <3>1, <3>3, <1>c, OneMoves DEF Working, Serving
  <2> QED BY <2>1, <2>4, <2>5, <2>6
<1>7. ASSUME NEW r \in Request, FindRows(r) PROVE \A q \in Request : Agrees(q)
  <2> DEFINE t == task[r]  row == held[r].row
             new == [row EXCEPT !.items = (@ \ t.table) \cup (t.items \cap Existing)]
  <2>1. /\ stage[r] = "findRows" /\ t \in Task /\ t.kind = "assign" /\ row \in RoleRow
        /\ t.role \in used /\ \A i \in row.items : WasGiven(t.role, i)
        /\ t.items \subseteq Item
    BY <1>0, <1>7, TaskFields DEF FindRows, TaskOK, HeldOK, Holding, Working, Serving, Item
  <2>2. \A i \in t.items : WasGiven(t.role, i)
    BY <2>1, NoneAssumption DEF WasGiven, Guarding
  <2>3. /\ new \in RoleRow /\ new.predefined = row.predefined
        /\ new.items \subseteq row.items \cup t.items
    BY <2>1 DEF RoleRow
  <2> HIDE DEF new
  <2>4. t.role \in used' /\ \A i \in new.items : WasGiven(t.role, i)'
    <3>1. task' = task
      BY <1>7 DEF FindRows, Hold
    <3>2. \A rl, i : rl = t.role /\ WasGiven(rl, i) => WasGiven(t.role, i)'
      BY <3>1, <1>d
    <3> QED BY <2>1, <2>2, <2>3, <3>2, UsedGrows
  <2>5. Hold(r, [row |-> new], "saveRole")
    BY <1>7 DEF FindRows, new
  <2>6. held'[r].row = new /\ stage'[r] = "saveRole" /\ task' = task
    BY <2>5, <1>c DEF Working, Serving
  <2>7. Agrees(r)
    BY <2>1, <2>3, <2>4, <2>6 DEF Agrees, TaskOK, HeldOK, Copied, Holding, Working, Guarding, Serving
  <2> QED BY <2>5, <2>7, <1>c, OneMoves DEF Working, Serving
<1>8. ASSUME NEW r \in Request, CheckItem(r), ~Throw(r) PROVE \A q \in Request : Agrees(q)
  <2>1. /\ stage[r] = "checkItem" /\ Hold(r, NoRow, "insertItem")
        /\ task[r] \in Task /\ task[r].kind = "createItem"
    BY <1>0, <1>8 DEF CheckItem, TaskOK, Working, Serving
  <2>2. Agrees(r)
    BY <2>1, <1>c DEF Agrees, TaskOK, HeldOK, Copied, Holding, Working, Guarding, Serving
  <2> QED BY <2>1, <2>2, <1>c, OneMoves DEF Working, Serving
<1>9. ASSUME NEW r \in Request, LoadItem(r), ~Throw(r) PROVE \A q \in Request : Agrees(q)
  <2> DEFINE i == task[r].item
  <2>1. stage[r] = "loadItem" /\ task[r] \in Task /\ task[r].kind \in {"updateItem", "removeItem"}
    BY <1>0, <1>9 DEF LoadItem, TaskOK, Working, Serving
  <2>2. CASE task[r].kind = "updateItem"
    <3>1. Hold(r, [holders |-> Holders(i)], "writeItem")
      BY <1>9, <2>1, <2>2 DEF LoadItem
    <3>2. held'[r].holders = Holders(i) /\ stage'[r] = "writeItem" /\ task' = task
      BY <3>1, <1>c DEF Working, Serving
    <3>3. Holders(i) \subseteq Role /\ \A rl \in Holders(i) : WasGiven(rl, i)
      BY DEF Holders, GrantsWereAsked
    <3>4. \A rl, j : j = i /\ WasGiven(rl, j) => WasGiven(rl, i)'
      BY <3>2, <1>d
    <3>5. \A rl \in held'[r].holders : rl \in Role /\ WasGiven(rl, i)'
      BY <3>2, <3>3, <3>4
    <3>6. Agrees(r)
      BY <2>1, <2>2, <3>2, <3>5 DEF Agrees, TaskOK, HeldOK, Copied, Holding, Working, Guarding, Serving
    <3> QED BY <3>1, <3>6, <1>c, OneMoves DEF Working, Serving
  <2>3. CASE task[r].kind = "removeItem"
    <3>1. Hold(r, NoRow, "removeItem")
      BY <1>9, <2>1, <2>3 DEF LoadItem
    <3>2. Agrees(r)
      BY <2>1, <2>3, <3>1, <1>c DEF Agrees, TaskOK, HeldOK, Copied, Holding, Working, Guarding, Serving
    <3> QED BY <3>1, <3>2, <1>c, OneMoves DEF Working, Serving
  <2> QED BY <2>1, <2>2, <2>3
<1>10. ASSUME NEW r \in Request, ~Throw(r),
              \/ FillCache(r) \/ FindRole(r) \/ InsertRole(r) \/ SaveRole(r) \/ RemoveRole(r)
              \/ InsertItem(r) \/ WriteItem(r) \/ RemoveTheItem(r)
       PROVE  \A q \in Request : Agrees(q)
  <2>1. \E s \in Ended : GoOn(r, s) /\ UNCHANGED <<token, task, held>>
    BY <1>10 DEF FillCache, FindRole, InsertRole, SaveRole, RemoveRole, InsertItem, WriteItem, UpdatePermission,
                 SaveMenu, RemoveTheItem, Ended
  <2> QED BY <2>1, <1>a
<1>11. ASSUME NEW u \in User, Register(u) \/ Expire(u) PROVE \A q \in Request : Agrees(q)
  BY <1>11, HandlerStays DEF Register, Expire
<1>12. ASSUME Stop PROVE \A q \in Request : Agrees(q)
  <2>1. \A q \in Request : stage'[q] = stage[q] \/ stage'[q] \in Ended
    BY <1>12 DEF Stop, Ended
  <2>2. UNCHANGED <<token, task, held>>
    BY <1>12 DEF Stop
  <2> QED BY <2>1, <2>2, Ends, HandlerStays
<1>13. ASSUME UNCHANGED accessVars PROVE \A q \in Request : Agrees(q)
  BY <1>13, HandlerStays DEF accessVars
<1>14. ASSUME NEW r \in Request, Serve(r) PROVE \A q \in Request : Agrees(q)
  BY <1>14, <1>b, <1>3, <1>4, <1>5, <1>6, <1>7, <1>8, <1>9, <1>10 DEF Serve
<1> QED BY <1>b, <1>1, <1>2, <1>11, <1>12, <1>13, <1>14 DEF AccessNext, Error

\* All copies of a role's row still agree on whether it is predefined.
LEMMA PredefinedStep == ASSUME IInv, [AccessNext]_accessVars PROVE PredefinedAgrees'
<1> USE DEF IInv, PredefinedAgrees
<1>1. \A q \in Request : Copied(q)
  BY HandlersStep DEF Agrees
<1>2. \A q \in Request : stage[q] \in Holding => task[q].role \in used
  BY DEF HandlersAgree, HeldOK
<1>3. ASSUME NEW r \in Request, NEW q \in Request, stage'[r] \in Holding, stage'[q] \in Holding,
             task'[q].role = task'[r].role
      PROVE  held'[q].row.predefined = held'[r].row.predefined
  BY <1>1, <1>3 DEF Copied
<1>4. ASSUME NEW r \in Request, stage'[r] \in Holding, roles'[task'[r].role] # NoRow
      PROVE  roles'[task'[r].role].predefined = held'[r].row.predefined
  <2> DEFINE rl == task[r].role
  <2>1. /\ task'[r] = task[r]
        /\ \/ stage[r] \in Holding /\ held'[r].row.predefined = held[r].row.predefined
           \/ roles[rl] # NoRow /\ held'[r].row.predefined = roles[rl].predefined
    BY <1>1, <1>4 DEF Copied
  <2>2. rl \in Role
    BY <1>4, <2>1, HandlersStep, TaskFields DEF Agrees, TaskOK, Holding, Working, Serving
  <2>3. rl \in used
    BY <1>2, <2>1, <2>2
  <2> QED BY <1>4, <2>1, <2>2, <2>3, RowSources
<1>5. \A rl \in Role : roles'[rl] # NoRow => rl \in used'
  BY RowSources
<1> QED BY <1>3, <1>4, <1>5

\* A role that is predefined or in use stays.
LEMMA NeededStep ==
  ASSUME IInv, [AccessNext]_accessVars, NEW rl \in Role, roles[rl] # NoRow,
         roles[rl].predefined \/ UsersOf(rl) # {}
  PROVE  roles'[rl] # NoRow
<1> USE DEF IInv, AccessTypeOK
<1>1. CASE roles' = roles
  BY <1>1
<1>2. ASSUME NEW u \in User, Register(u) PROVE roles' = roles
  BY <1>2 DEF Register
<1>3. ASSUME NEW r \in Request, InsertRole(r) \/ SaveRole(r), ~Throw(r) PROVE roles'[rl] # NoRow
  <2>1. held[r].row \in RoleRow /\ roles'[rl] \in {roles[rl], held[r].row}
    BY <1>3 DEF InsertRole, SaveRole, HandlersAgree, HeldOK, Holding
  <2> QED BY <2>1, NoneAssumption
<1>4. ASSUME NEW r \in Request, RemoveRole(r), ~Throw(r) PROVE roles'[rl] # NoRow
  <2>1. /\ stage[r] = "removeRole" /\ UsersOf(task[r].role) = {}
        /\ roles' = [roles EXCEPT ![task[r].role] = NoRow]
    BY <1>4 DEF RemoveRole
  <2>2. ~held[r].row.predefined
    BY <2>1 DEF HandlersAgree, HeldOK
  <2> QED BY <2>1, <2>2 DEF PredefinedAgrees, Holding
<1>5. ASSUME NEW r \in Request, InsertItem(r), ~Throw(r) PROVE roles' = roles
  BY <1>5 DEF InsertItem
<1>6. ASSUME NEW r \in Request, WriteItem(r) \/ RemoveTheItem(r), ~Throw(r) PROVE roles'[rl] # NoRow
  <2>1. task[r].item \in Item
    BY <1>6, TaskFields DEF WriteItem, RemoveTheItem, HandlersAgree, TaskOK, Working, Serving
  <2> QED BY <1>6, <2>1, HeldByRows DEF WriteItem, UpdatePermission, SaveMenu, RemoveTheItem
<1> QED BY <1>1, <1>2, <1>3, <1>4, <1>5, <1>6, Writers

-----------------------------------------------------------------------------
\* The invariant is inductive.
LEMMA Invariance == AccessSpec => []IInv
<1>1. ASSUME IInv, [AccessNext]_accessVars PROVE IInv'
  <2>1. HandlersAgree'
    BY <1>1, HandlersStep DEF HandlersAgree, Agrees
  <2> QED BY <1>1, <2>1, TypeStep, ReferencesStep, GrantsStep, PredefinedStep DEF IInv
<1> QED BY AccessInitOK, <1>1, PTL DEF AccessSpec

\* Type correctness of the tables, the cache and the handlers.
THEOREM AccessTypeCorrect == AccessSpec => []AccessTypeOK
  BY Invariance, PTL DEF IInv

\* No save of a stale role or menu refers to a row that is gone, nor repeats a
\* role name, a slug or a path.
THEOREM References_Hold == AccessSpec => []ReferencesHold
  BY Invariance, PTL DEF IInv

\* No role holds an item it did not come with and nobody asked for past the guards
\* of RoleController.
THEOREM Grants_WereAsked == AccessSpec => []GrantsWereAsked
  BY Invariance, PTL DEF IInv

\* deleteRole and the saves never take away a role that is predefined or in use.
THEOREM NeededRoles_Stay == AccessSpec => NeededRolesStay
<1> DEFINE Stay == \A rl \in Role :
                     (roles[rl] # NoRow /\ (roles[rl].predefined \/ UsersOf(rl) # {})) => roles'[rl] # NoRow
<1>1. IInv /\ [AccessNext]_accessVars => Stay
  BY NeededStep
<1>2. AccessSpec => [][Stay]_accessVars
  BY <1>1, Invariance, PTL DEF AccessSpec
<1> QED BY <1>2 DEF NeededRolesStay

-----------------------------------------------------------------------------
(* What PermissionsGuard decides by was granted once. *)

\* Slugs come from requests, and the lists in redis, and those on their way to
\* it, from slugs of a role of their user.
GrantInv ==
  /\ \A r \in Request : /\ stage[r] = "idle" => token[r] = NoToken
                        /\ stage[r] = "returned" => task[r] # NoTask
  /\ \A i \in Existing : HadKey(i, key[i])
  /\ \A u \in User : cache[u] # NoEntry => \A s \in cache[u] : WasGranted(u, s)
  /\ \A r \in Request : stage[r] = "fillCache" =>
       \A s \in held[r].slugs : WasGranted(token[r].user, s)
  /\ AdmittedByGrant

\* A request keeps its token and its task, and moves as its handler does.
Moves(q) ==
  /\ token[q] # NoToken => token'[q] = token[q]
  /\ task[q] # NoTask => task'[q] = task[q]
  /\ stage'[q] = "idle" => stage[q] = "idle" /\ token'[q] = token[q]
  /\ stage'[q] = "fillCache" =>
       \/ stage[q] = "fillCache" /\ held'[q] = held[q] /\ token'[q] = token[q]
       \/ LoadGrants(q) /\ ~Throw(q) /\ token'[q] = token[q]
  /\ stage'[q] \in Serving \cup {"returned"} =>
       \/ stage[q] \in Serving \cup {"returned"} /\ task'[q] = task[q] /\ token'[q] = token[q]
       \/ /\ Inject(q) /\ task'[q] = task[q] /\ token'[q] = token[q]
          /\ cache[token[q].user] # NoEntry /\ Needed[task[q]] \in cache[token[q].user]
       \/ stage[q] = "loggedIn" /\ task'[q] \in ItemTask \cap Task

\* Every step moves every request so.
LEMMA MovesStep ==
  ASSUME IInv, GrantInv, [AccessNext]_accessVars, NEW q \in Request PROVE Moves(q)
<1> USE DEF Moves, IInv, AccessTypeOK, GoOn
<1>0. \A r \in Request : TaskOK(r) /\ (stage[r] = "idle" => token[r] = NoToken)
  BY DEF HandlersAgree, GrantInv
<1>a. ASSUME NEW r \in Request, Throw(r) PROVE Moves(q)
  BY <1>a DEF Throw, Guarding, Serving
<1>b. ASSUME NEW r \in Request, stage[r] \in Serving, NEW s \in Serving \cup {"returned"}, GoOn(r, s),
             UNCHANGED <<token, task>>, \A p \in Request \ {r} : held'[p] = held[p]
      PROVE  Moves(q)
  BY <1>b DEF Serving, Guarding
<1>1. ASSUME NEW r \in Request, NEW u \in User, LogIn(r, u) PROVE Moves(q)
  BY <1>0, <1>1 DEF LogIn, Serving
<1>2. ASSUME NEW r \in Request, NEW t \in Task, Ask(r, t) PROVE Moves(q)
  <2>1. FirstStage(t) \notin {"idle", "fillCache"}
    BY FirstStages
  <2> QED BY <1>0, <1>2, <2>1 DEF Ask, TaskOK, Serving
<1>3. ASSUME NEW r \in Request, Inject(r) PROVE Moves(q)
  <2>1. FirstStage(task[r]) \notin {"idle", "fillCache"}
    BY <1>0, <1>3, FirstStages DEF Inject, TaskOK, Working, Guarding
  <2> QED BY <1>3, <2>1 DEF Inject, Serving
<1>4. ASSUME NEW r \in Request, LoadGrants(r), ~Throw(r) PROVE Moves(q)
  BY <1>4 DEF LoadGrants, Hold, Serving
<1>5. ASSUME NEW r \in Request, FillCache(r) PROVE Moves(q)
  BY <1>5 DEF FillCache, Serving
<1>6. ASSUME NEW r \in Request, ~Throw(r),
             \/ CheckName(r) \/ InsertRole(r) \/ FindRole(r) \/ LoadRole(r) \/ FindRows(r) \/ SaveRole(r)
             \/ RemoveRole(r) \/ CheckItem(r) \/ InsertItem(r) \/ LoadItem(r) \/ WriteItem(r)
             \/ RemoveTheItem(r)
      PROVE  Moves(q)
  <2>1. stage[r] \in Serving
    BY <1>6 DEF CheckName, InsertRole, FindRole, LoadRole, FindRows, SaveRole, RemoveRole,
                CheckItem, InsertItem, LoadItem, WriteItem, RemoveTheItem, Serving
  <2>2. /\ \E s \in Serving \cup {"returned"} : GoOn(r, s)
        /\ UNCHANGED <<token, task>> /\ \A p \in Request \ {r} : held'[p] = held[p]
    BY <1>6
       DEF CheckName, InsertRole, FindRole, LoadRole, FindRows, SaveRole, RemoveRole, CheckItem, InsertItem,
           LoadItem, WriteItem, UpdatePermission, SaveMenu, RemoveTheItem, Hold, Serving
  <2> QED BY <2>1, <2>2, <1>b
<1>7. ASSUME NEW u \in User, Register(u) \/ Expire(u) PROVE Moves(q)
  BY <1>7 DEF Register, Expire
<1>8. CASE Stop \/ UNCHANGED accessVars
  BY <1>8 DEF Stop, accessVars, Serving
<1> HIDE DEF Moves, IInv, AccessTypeOK, GoOn
<1>9. ASSUME NEW r \in Request, Serve(r) PROVE Moves(q)
  BY <1>9, <1>a, <1>3, <1>4, <1>5, <1>6 DEF Serve
<1> QED BY <1>a, <1>1, <1>2, <1>7, <1>8, <1>9 DEF AccessNext, Error

\* What was granted once, and what an item was called, stays so.
LEMMA GrantedStays ==
  ASSUME IInv, GrantInv, [AccessNext]_accessVars
  PROVE  /\ \A i, k : HadKey(i, k) => HadKey(i, k)'
         /\ \A u, s : WasGranted(u, s) => WasGranted(u, s)'
<1>1. \A q \in Request : Moves(q)
  BY MovesStep
<1>2. ASSUME NEW i, NEW k, HadKey(i, k) PROVE HadKey(i, k)'
  BY <1>1, <1>2 DEF HadKey, Moves
<1>3. ASSUME NEW u, NEW s, WasGranted(u, s) PROVE WasGranted(u, s)'
  <2>1. PICK rl \in Role, p \in Permission : WasRoleOf(u, rl) /\ WasGiven(rl, p) /\ HadKey(p, s)
    BY <1>3 DEF WasGranted
  <2>2. WasRoleOf(u, rl)'
    BY <1>1, <2>1 DEF WasRoleOf, Moves
  <2>3. WasGiven(rl, p)' /\ HadKey(p, s)'
    BY <2>1, <1>2, GivenStays
  <2> QED BY <2>2, <2>3 DEF WasGranted
<1> QED BY <1>2, <1>3

\* A slug or path is one the item had, or one a request asks for.
LEMMA KeyStep ==
  ASSUME IInv, GrantInv, [AccessNext]_accessVars, NEW i \in Item, key'[i] # NoKey
  PROVE  HadKey(i, key[i])'
<1> USE DEF IInv, AccessTypeOK, Existing
<1>1. \A k : k = key'[i] /\ HadKey(i, k)' => HadKey(i, key[i])'
  OBVIOUS
<1>2. CASE key'[i] = key[i]
  <2>1. HadKey(i, key[i])
    BY <1>2 DEF GrantInv
  <2>2. \A k : k = key[i] /\ HadKey(i, k) => HadKey(i, k)'
    BY GrantedStays
  <2> QED BY <1>1, <1>2, <2>1, <2>2
<1>3. ASSUME NEW u \in User, Register(u) PROVE key' = key
  BY <1>3 DEF Register
<1>4. ASSUME NEW r \in Request, InsertRole(r) \/ SaveRole(r) \/ RemoveRole(r), ~Throw(r) PROVE key' = key
  BY <1>4 DEF InsertRole, SaveRole, RemoveRole
<1>5. ASSUME NEW r \in Request, InsertItem(r) \/ WriteItem(r) \/ RemoveTheItem(r), ~Throw(r), key'[i] # key[i]
      PROVE  HadKey(i, key[i])'
  <2>1. /\ task[r] \in Task /\ task' = task
        /\ task[r].kind \in {"createItem", "updateItem", "removeItem"}
        /\ InsertItem(r) => task[r].kind = "createItem"
        /\ WriteItem(r) => task[r].kind = "updateItem"
    BY <1>5 DEF InsertItem, WriteItem, RemoveTheItem, UpdatePermission, SaveMenu, HandlersAgree, TaskOK,
                Working, Serving
  <2>2. \/ InsertItem(r) /\ i \in task[r].table /\ key'[i] = task[r].key
        \/ WriteItem(r) /\ i = task[r].item /\ key'[i] = task[r].key
    BY <1>5 DEF InsertItem, WriteItem, RemoveTheItem, UpdatePermission, SaveMenu
  <2>3. task[r] # NoTask
    BY <2>1, NoneAssumption
  <2> QED BY <2>1, <2>2, <2>3 DEF HadKey
<1> QED BY <1>2, <1>3, <1>4, <1>5, Writers

\* Lists reach redis from handlers.
LEMMA CacheStep ==
  ASSUME IInv, GrantInv, [AccessNext]_accessVars, NEW u \in User
  PROVE  \/ cache'[u] \in {cache[u], NoEntry}
         \/ \E r \in Request : /\ stage[r] = "fillCache" /\ token[r].user = u
                               /\ cache'[u] = held[r].slugs
<1> USE DEF IInv, AccessTypeOK
<1>1. ASSUME NEW r \in Request, Throw(r) PROVE cache' = cache
  BY <1>1 DEF Throw, accessTables
<1>2. ASSUME NEW r \in Request, Reads(r) PROVE cache' = cache
  BY <1>1, <1>2, ReadSteps DEF Hold, accessTables
<1>3. ASSUME NEW r \in Request, NEW v \in User, LogIn(r, v) PROVE cache' = cache
  BY <1>3 DEF LogIn, accessTables
<1>4. ASSUME NEW r \in Request, NEW t \in Task, Ask(r, t) PROVE cache' = cache
  BY <1>4 DEF Ask, accessTables
<1>5. ASSUME NEW r \in Request, ~Throw(r),
             \/ Inject(r) \/ InsertRole(r) \/ FindRole(r) \/ SaveRole(r) \/ RemoveRole(r)
             \/ InsertItem(r) \/ WriteItem(r) \/ RemoveTheItem(r)
      PROVE  cache' = cache
  BY <1>5 DEF Inject, InsertRole, FindRole, SaveRole, RemoveRole, InsertItem, WriteItem, UpdatePermission,
              SaveMenu, RemoveTheItem, accessTables
<1>6. ASSUME NEW r \in Request, FillCache(r)
      PROVE  cache'[u] = cache[u] \/ (stage[r] = "fillCache" /\ token[r].user = u /\ cache'[u] = held[r].slugs)
  BY <1>6 DEF FillCache
<1>7. ASSUME NEW v \in User, Register(v) \/ Expire(v) PROVE cache'[u] \in {cache[u], NoEntry}
  BY <1>7 DEF Register, Expire
<1>8. CASE Stop \/ UNCHANGED accessVars
  BY <1>8 DEF Stop, accessVars, accessTables
<1> HIDE DEF IInv, AccessTypeOK
<1>9. CASE \E r \in Request : Serve(r)
  BY <1>9, <1>1, <1>2, <1>5, <1>6 DEF Serve, Reads
<1> QED BY <1>1, <1>3, <1>4, <1>7, <1>8, <1>9 DEF AccessNext, Error

\* The list LoadGrants finds was granted to its user.
LEMMA LoadedGrants ==
  ASSUME IInv, GrantInv, NEW r \in Request, LoadGrants(r), ~Throw(r)
  PROVE  /\ \A s \in held'[r].slugs : WasGranted(token[r].user, s)
<1> USE DEF IInv
<1> DEFINE rl == token[r].role
<1>1. /\ roles[rl] # NoRow /\ held'[r].slugs = SlugsOf(roles[rl]) /\ token[r] \in Token /\ rl \in Role
  BY DEF LoadGrants, Hold, HandlersAgree, TaskOK, Working, Guarding, AccessTypeOK
<1>2. ASSUME NEW s \in held'[r].slugs PROVE WasGranted(token[r].user, s)
  <2>1. PICK p \in roles[rl].items \cap Permission : s = key[p]
    BY <1>1, <1>2 DEF SlugsOf
  <2>2. WasGiven(rl, p) /\ p \in Existing
    BY <1>1, <2>1 DEF GrantsWereAsked, ReferencesHold
  <2>3. HadKey(p, s)
    BY <2>1, <2>2 DEF GrantInv
  <2>4. WasRoleOf(token[r].user, rl)
    BY <1>1, TokenAssumption DEF WasRoleOf
  <2> QED BY <1>1, <2>1, <2>2, <2>3, <2>4 DEF WasGranted
<1> QED BY <1>2

\* GrantInv holds of the seeds and is kept by every step.
LEMMA GrantInvariance == AccessSpec => []GrantInv
<1>1. AccessInit => GrantInv
  <2> SUFFICES ASSUME AccessInit PROVE GrantInv
    OBVIOUS
  <2> USE DEF AccessInit
  <2>1. ASSUME NEW u \in User, cache[u] # NoEntry, NEW s \in cache[u] PROVE WasGranted(u, s)
    <3>1. FirstUsers[u] \in Role /\ cache[u] = SlugsOf(roles[FirstUsers[u]])
      BY <2>1
    <3>2. PICK p \in FirstRoles[FirstUsers[u]].items \cap Permission : s = FirstKeys[p]
      BY <2>1, <3>1 DEF SlugsOf
    <3>3. FirstRoles[FirstUsers[u]] # NoRow
      BY <3>1, IntegrityAssumption
    <3> QED BY <3>1, <3>2, <3>3 DEF WasGranted, WasRoleOf, WasGiven, HadKey
  <2>2. \A i \in Existing : HadKey(i, key[i])
    BY DEF HadKey
  <2> QED BY <2>1, <2>2 DEF GrantInv, AdmittedByGrant, Serving
<1>2. ASSUME IInv, GrantInv, [AccessNext]_accessVars PROVE GrantInv'
  <2>0. \A q \in Request : Moves(q) /\ TaskOK(q) /\ TaskOK(q)'
    BY <1>2, MovesStep, HandlersStep DEF IInv, HandlersAgree, Agrees
  <2>1. \A r \in Request : /\ stage'[r] = "idle" => token'[r] = NoToken
                           /\ stage'[r] = "returned" => task'[r] # NoTask
    <3>1. ASSUME NEW r \in Request, stage'[r] = "idle" PROVE token'[r] = NoToken
      BY <1>2, <2>0, <3>1 DEF GrantInv, Moves
    <3>2. ASSUME NEW r \in Request, stage'[r] = "returned" PROVE task'[r] # NoTask
      <4>1. /\ stage[r] = "returned" => task[r] # NoTask
            /\ stage[r] \in Serving \cup {"inject"} => task[r] \in Task
        BY <1>2, <2>0 DEF GrantInv, TaskOK, Working, Guarding
      <4>2. \/ stage[r] \in Serving \cup {"returned", "inject"} /\ task'[r] = task[r]
            \/ task'[r] \in Task
        BY <2>0, <3>2 DEF Moves, Inject
      <4> QED BY <4>1, <4>2, NoneAssumption
    <3> QED BY <3>1, <3>2
  <2>2. (\A i \in Existing : HadKey(i, key[i]))'
    BY <1>2, KeyStep DEF Existing
  <2>3. ASSUME NEW u \in User, cache'[u] # NoEntry, NEW s \in cache'[u] PROVE WasGranted(u, s)'
    <3>1. WasGranted(u, s)
      BY <1>2, <2>3, CacheStep DEF GrantInv
    <3> QED BY <1>2, <3>1, GrantedStays
  <2>4. ASSUME NEW r \in Request, stage'[r] = "fillCache", NEW s \in held'[r].slugs
        PROVE  WasGranted(token[r].user, s)'
    <3>1. token'[r] = token[r] /\ WasGranted(token[r].user, s)
      BY <1>2, <2>0, <2>4, LoadedGrants DEF GrantInv, Moves
    <3>2. \A u, z : u = token[r].user /\ WasGranted(u, z) => WasGranted(token[r].user, z)'
      BY <1>2, <3>1, GrantedStays
    <3> QED BY <3>1, <3>2
  <2>5. ASSUME NEW r \in Request, task'[r] \in RoleTask, stage'[r] \in Serving \cup {"returned"}
        PROVE  WasGranted(token[r].user, Needed[task[r]])'
    <3>1. ~(task'[r] \in ItemTask \cap Task)
      BY <2>5, TaskFields
    <3>2. /\ task'[r] = task[r] /\ token'[r] = token[r]
          /\ \/ stage[r] \in Serving \cup {"returned"}
             \/ /\ Inject(r) /\ cache[token[r].user] # NoEntry
                /\ Needed[task[r]] \in cache[token[r].user]
      BY <2>0, <2>5, <3>1 DEF Moves
    <3>3. Inject(r) => token[r].user \in User
      BY <2>0 DEF Inject, TaskOK, Guarding, Token
    <3>4. WasGranted(token[r].user, Needed[task[r]])
      BY <1>2, <2>5, <3>2, <3>3 DEF GrantInv, AdmittedByGrant
    <3>5. \A u, z : u = token[r].user /\ z = Needed[task[r]] /\ WasGranted(u, z) =>
                     WasGranted(token[r].user, Needed[task[r]])'
      BY <1>2, <3>2, GrantedStays
    <3> QED BY <3>4, <3>5
  <2> QED BY <2>1, <2>2, <2>3, <2>4, <2>5 DEF GrantInv, AdmittedByGrant
<1> QED BY <1>1, <1>2, Invariance, PTL DEF AccessSpec

\* For any number of requests and users, PermissionsGuard lets nobody pass on a
\* slug that no role of theirs was ever given, however old the cached list is.
THEOREM Admitted_ByGrant == AccessSpec => []AdmittedByGrant
  BY GrantInvariance, PTL DEF GrantInv
=============================================================================
