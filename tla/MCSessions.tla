----------------------------- MODULE MCSessions -----------------------------
(***************************************************************************)
(* An instance of Sessions: a merchant and a user without a company; every *)
(* token lives for one second, and the clock passes its expiry.            *)
(***************************************************************************)
EXTENDS Sessions, TLC

CONSTANTS r1, r2, r3, r4, ann, root, own

MCCompanyOf == (ann :> own @@ root :> NoCompany)

\* A token like those of ann, which ann may never have been given.
MCInvented == {[user |-> ann, company |-> own, iat |-> 0]}

\* Requests are interchangeable.
Requests == Permutations(Request)
=============================================================================
