-------------------------- MODULE MCDepositAddress --------------------------
(***************************************************************************)
(* An instance of DepositAddress: users of two companies, of which one is  *)
(* the default company of the deposit callbacks, and one without.          *)
(***************************************************************************)
EXTENDS DepositAddress, TLC

CONSTANTS r1, r2, ann, eve, joe, a1, a2, a3, own, other, btc, eth

MCCompanyOf ==
  (ann :> own @@ eve :> other @@ joe :> NoCompany)

\* Two addresses of one currency are enough for a race; a third is of another.
MCCurrencyOf == (a1 :> btc @@ a2 :> btc @@ a3 :> eth)
=============================================================================
