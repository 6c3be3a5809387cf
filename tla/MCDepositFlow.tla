--------------------------- MODULE MCDepositFlow ---------------------------
(***************************************************************************)
(* Instances of DepositFlow: users of two companies, of which one is the   *)
(* default company of the callback handler.                                *)
(***************************************************************************)
EXTENDS DepositFlow, TLC

CONSTANTS c1, c2, r1, r2, ann, eve, a1, a2, own, other, eur, t1, t2

MCCompanyOf  == (ann :> own @@ eve :> other)
MCCurrencyOf == (a1 :> eur @@ a2 :> eur)

Received(a, n, ts) ==
  [address |-> a, currency |-> eur, amount |-> n, txids |-> ts, confirmed |-> TRUE]

MCBodies == {Received(a1, 1, {t1})}

\* Deliveries are interchangeable, and so are requests.
Interchangeable == Permutations(Callback) \cup Permutations(Request)
=============================================================================
