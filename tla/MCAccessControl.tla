--------------------------- MODULE MCAccessControl ---------------------------
(***************************************************************************)
(* An instance of AccessControl: the super admin's role, a MERCHANT role   *)
(* that an administrator has made, and a merchant who registers; one       *)
(* permission and one menu in use, a permission not assigned, and one id   *)
(* free in each table.                                                     *)
(***************************************************************************)
EXTENDS AccessControl, TLC

CONSTANTS r1, r2, r3, root, ann, adm, mrc, new, super, merchant, rm, p1, p2, p3, m1, m2, k1, k2, k3

MCRoles == (adm :> [name |-> super, predefined |-> TRUE, items |-> {p1, m1}] @@
            mrc :> [name |-> merchant, predefined |-> FALSE, items |-> {m1}] @@ new :> NoRow)
MCKeys  == (p1 :> k1 @@ p2 :> k2 @@ p3 :> NoKey @@ m1 :> k1 @@ m2 :> NoKey)
MCUsers == (root :> adm @@ ann :> NoRow)
MCNeeded == [t \in RoleTask |-> IF t.kind = "viewRole" THEN k2 ELSE k1]

AssignTo(rl, t, S) == [kind |-> "assign", role |-> rl, table |-> t, items |-> S]

\* Requests are interchangeable.
Requests == Permutations(Request)

\* Operations that meet in one role, permission, menu or name.
MCTask == {
  [kind |-> "createRole", name |-> rm, predefined |-> FALSE],
  [kind |-> "viewRole", role |-> adm],
  [kind |-> "renameRole", role |-> mrc, name |-> rm],
  [kind |-> "renameRole", role |-> mrc, name |-> NoName],
  [kind |-> "deleteRole", role |-> mrc],
  [kind |-> "deleteRole", role |-> adm],
  AssignTo(mrc, Permission, {p1, p2}), AssignTo(adm, Permission, {}), AssignTo(adm, Permission, {p2}),
  AssignTo(mrc, Menu, {}), AssignTo(adm, Menu, {m1, m2}),
  [kind |-> "createItem", table |-> Permission, key |-> k3],
  [kind |-> "createItem", table |-> Menu, key |-> k2],
  [kind |-> "updateItem", item |-> p1, key |-> k3],
  [kind |-> "updateItem", item |-> m1, key |-> k2],
  [kind |-> "removeItem", item |-> p1],
  [kind |-> "removeItem", item |-> p2],
  [kind |-> "removeItem", item |-> m1]}
=============================================================================
