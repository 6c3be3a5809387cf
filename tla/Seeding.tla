------------------------------- MODULE Seeding -------------------------------
(***************************************************************************)
(* The seed script: seed.ts runs its steps one after the other, each in    *)
(* database transactions of its own, if there is no role yet.  A run can   *)
(* fail or be interrupted between any two queries and be started again,    *)
(* with or without the reset of reset-and-seed.ts.  One run at a time.     *)
(***************************************************************************)
EXTENDS Naturals

CONSTANTS
  Menu, Permission,     \* seedMenus.ts and permissions.list.ts
  MerchantPermission,   \* the slugs a merchant is allowed
  MerchantMenu,         \* the menus whose menuKey is in the merchant's list
  MaxRuns               \* bound

VARIABLES
  roles, menus, permissions, \* the tables, by their unique columns
  granted,  \* role_permissions: for each role its permissions
  listed,   \* role_menus: for each role its menus
  admin,    \* the role of the super admin, or "none" without the user
  step,     \* the step of the run that is to come next
  mapped,   \* the role that mapPermissionsToRolesAndMenus is at
  runs

grantTables == <<granted, listed>>
tables      == <<roles, menus, permissions, grantTables, admin>>
seedVars    == <<tables, step, mapped, runs>>

Role == {"SUPER_ADMIN", "MERCHANT"}

\* What a role is mapped to: the super admin to all rows, the merchant to its own.
DesiredPermissions(role) == IF role = "SUPER_ADMIN" THEN permissions ELSE permissions \cap MerchantPermission
DesiredMenus(role)       == IF role = "SUPER_ADMIN" THEN menus ELSE menus \cap MerchantMenu

SeedInit ==
  /\ roles = {} /\ menus = {} /\ permissions = {} /\ admin = "none"
  /\ granted = [r \in Role |-> {}] /\ listed = [r \in Role |-> {}]
  /\ step = "ended" /\ mapped = "SUPER_ADMIN" /\ runs = 0

\* npm run seed: it counts the roles.
StartSeed ==
  /\ step \in {"ended", "skipped", "completed", "failed"} /\ runs < MaxRuns
  /\ runs' = runs + 1
  /\ step' = IF roles = {} THEN "roles" ELSE "skipped"
  /\ mapped' = "SUPER_ADMIN"
  /\ UNCHANGED tables

\* npm run seed:reset: the tables are truncated with what refers to them, and
\* one that can not be is left as it is.
StartReset ==
  /\ step \in {"ended", "skipped", "completed", "failed"} /\ runs < MaxRuns
  /\ runs' = runs + 1
  /\ \E emptied \in SUBSET {"roles", "permissions", "menus"} :
       /\ roles' = IF "roles" \in emptied THEN {} ELSE roles
       /\ permissions' = IF "permissions" \in emptied THEN {} ELSE permissions
       /\ menus' = IF "menus" \in emptied THEN {} ELSE menus
       /\ granted' = IF emptied \cap {"roles", "permissions"} = {} THEN granted ELSE [r \in Role |-> {}]
       /\ listed' = IF emptied \cap {"roles", "menus"} = {} THEN listed ELSE [r \in Role |-> {}]
       /\ admin' = IF "roles" \in emptied THEN "none" ELSE admin
       /\ step' = IF roles' = {} THEN "roles" ELSE "skipped"
  /\ mapped' = "SUPER_ADMIN"

\* One save of both roles, in a transaction.
SeedRoles ==
  /\ step = "roles"
  /\ roles' = IF roles = {} THEN Role ELSE roles
  /\ step' = "menus"
  /\ UNCHANGED <<menus, permissions, grantTables, admin, mapped, runs>>

SeedMenus ==
  /\ step = "menus"
  /\ menus' = IF menus = {} THEN Menu ELSE menus
  /\ step' = "permissions"
  /\ UNCHANGED <<roles, permissions, grantTables, admin, mapped, runs>>

\* The upsert by slug.
SeedAllPermissions ==
  /\ step = "permissions"
  /\ permissions' = permissions \cup Permission
  /\ step' = "addPermissions"
  /\ UNCHANGED <<roles, menus, grantTables, admin, mapped, runs>>

\* syncRolePermissions and syncRoleMenus, for the super admin and then for the
\* merchant, add what is missing before they remove what is not desired.
SyncRolePermissions ==
  /\ \/ /\ step = "addPermissions" /\ step' = "removePermissions"
        /\ granted' = [granted EXCEPT ![mapped] = @ \cup DesiredPermissions(mapped)]
     \/ /\ step = "removePermissions" /\ step' = "addMenus"
        /\ granted' = [granted EXCEPT ![mapped] = @ \cap DesiredPermissions(mapped)]
  /\ UNCHANGED <<roles, menus, permissions, listed, admin, mapped, runs>>

SyncRoleMenus ==
  /\ \/ /\ step = "addMenus" /\ step' = "removeMenus"
        /\ listed' = [listed EXCEPT ![mapped] = @ \cup DesiredMenus(mapped)]
        /\ UNCHANGED mapped
     \/ /\ step = "removeMenus"
        /\ listed' = [listed EXCEPT ![mapped] = @ \cap DesiredMenus(mapped)]
        /\ step' = IF mapped = "SUPER_ADMIN" THEN "addPermissions" ELSE "adminRole"
        /\ mapped' = "MERCHANT"
  /\ UNCHANGED <<roles, menus, permissions, granted, admin, runs>>

\* seedSuperAdminUser: the role, should it be missing, and then the user.
SeedSuperAdminRole ==
  /\ step = "adminRole"
  /\ roles' = roles \cup {"SUPER_ADMIN"}
  /\ step' = "adminUser"
  /\ UNCHANGED <<menus, permissions, grantTables, admin, mapped, runs>>

SeedSuperAdminUser ==
  /\ step = "adminUser"
  /\ admin' = "SUPER_ADMIN"
  /\ step' = "completed"
  /\ UNCHANGED <<roles, menus, permissions, grantTables, mapped, runs>>

\* A query fails, which is caught and logged, or the script is stopped.
Interrupt ==
  /\ step \notin {"ended", "skipped", "completed", "failed"}
  /\ step' = "failed"
  /\ UNCHANGED <<tables, mapped, runs>>

SeedNext ==
  \/ StartSeed \/ StartReset \/ SeedRoles \/ SeedMenus \/ SeedAllPermissions
  \/ SyncRolePermissions \/ SyncRoleMenus
  \/ SeedSuperAdminRole \/ SeedSuperAdminUser \/ Interrupt

SeedSpec == SeedInit /\ [][SeedNext]_seedVars

-----------------------------------------------------------------------------
(* Properties. *)

Seeded == /\ Role \subseteq roles /\ Menu \subseteq menus /\ Permission \subseteq permissions
          /\ \A r \in Role : granted[r] = DesiredPermissions(r) /\ listed[r] = DesiredMenus(r)
          /\ admin = "SUPER_ADMIN"

\* The seed is idempotent: a run that ends without a failure, be it that it ran
\* through or that it found nothing to do, leaves everything seeded.
SeedIsIdempotent == step \in {"completed", "skipped"} => Seeded
==============================================================================
