------------------------- MODULE MCDepositCallback -------------------------
(***************************************************************************)
(* Instances of DepositCallback for TLC.                                   *)
(***************************************************************************)
EXTENDS DepositCallback, TLC

CONSTANTS c1, c2, c3, a1, a2, own, other, eur, t1, t2, t3

Received(a, n, ts, st) ==
  [address |-> a, currency |-> eur, amount |-> n, txids |-> ts, confirmed |-> st]

\* One deposit announced while pending and again when confirmed, a second one
\* to another address, and one that shares a transaction with both.
MCBodies == {Received(a1, 2, {t1}, FALSE), Received(a1, 2, {t1}, TRUE),
             Received(a2, 1, {t2}, TRUE),  Received(a2, 3, {t1, t2}, TRUE)}

\* The same deposit, delivered any number of times.
MCRepeated == {Received(a1, 2, {t1}, TRUE)}

\* Deliveries are interchangeable; bodies and addresses are not.
Deliveries == Permutations(Callback)
=============================================================================
