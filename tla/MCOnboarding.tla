---------------------------- MODULE MCOnboarding ----------------------------
(***************************************************************************)
(* An instance of Onboarding: a merchant who registered earlier, and       *)
(* registrations that share a name or an email.                            *)
(***************************************************************************)
EXTENDS Onboarding, TLC

CONSTANTS r1, r2, r3, o1, e1, e2, e3, n1, n2

Registers(e, n, admin) == [email |-> e, name |-> n, password |-> 1, admin |-> admin]

MCEarlier       == (o1 :> Registers(e1, n1, FALSE))
MCRegistrations == {Registers(e2, n2, FALSE), Registers(e3, n2, TRUE)}
MCChanges       == {[email |-> e1, name |-> n2]}
=============================================================================
