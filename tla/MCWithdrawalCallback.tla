------------------------ MODULE MCWithdrawalCallback ------------------------
(***************************************************************************)
(* Instances of WithdrawalCallback for TLC.                                *)
(***************************************************************************)
EXTENDS WithdrawalCallback, TLC

CONSTANTS c1, c2, c3, q1, q2, p1, p2, own, other, eur, usd, t1, t2, b1, b2, b3

Paid(q, p, ts, fee, st) ==
  [request |-> q, payout |-> p, currency |-> eur, amount |-> 2, txids |-> ts,
   fees |-> fee, status |-> st]

\* One withdrawal from processing to confirmed; another whose transactions are
\* stored or not with what the deposits' table holds, one with a fee; one
\* without a request id; and statuses nobody knows.
MCBodies == {Paid(q1, p1, {}, FALSE, "processing"), Paid(q1, p1, {}, FALSE, "confirmed"),
             Paid(q2, p2, {t1, t2}, FALSE, "confirmed"), Paid(q2, p2, {t1}, TRUE, "failed"),
             Paid(NoRequest, p2, {t2}, FALSE, "failed"), Paid(q1, p1, {}, FALSE, "other")}

Balance(k, cur, n) == [company |-> k, currency |-> cur, amount |-> n]

\* Balances of two companies in one currency and of one in another; or none.
MCBalances == {(b1 :> Balance(own, eur, 3) @@ b2 :> Balance(other, eur, 1) @@
                b3 :> Balance(own, usd, 1)), [r \in Row |-> NoRow]}

\* Deliveries are interchangeable; bodies, keys and rows are not.
Deliveries == Permutations(Callback)
=============================================================================
