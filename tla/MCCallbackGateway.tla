------------------------- MODULE MCCallbackGateway -------------------------
(***************************************************************************)
(* An instance of CallbackGateway: deposits to two companies in one        *)
(* currency, and withdrawals in it.                                        *)
(***************************************************************************)
EXTENDS CallbackGateway, TLC

CONSTANTS d1, d2, w1, a1, a2, own, other, eur, t1, t2, q1, p1

Received(a, n, ts) ==
  [address |-> a, currency |-> eur, amount |-> n, txids |-> ts, confirmed |-> TRUE]
Paid(ts, n, st) ==
  [request |-> q1, payout |-> p1, currency |-> eur, amount |-> n, txids |-> ts,
   fees |-> FALSE, status |-> st]

\* The second withdrawal is saved only if the deposit with its txid is on record.
MCDeposits    == {Received(a1, 2, {t1}), Received(a2, 1, {t2})}
MCWithdrawals == {Paid({}, 1, "confirmed"), Paid({t1}, 3, "confirmed")}
=============================================================================
