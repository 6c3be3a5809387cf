------------------------ MODULE TransactionRegistry ------------------------
(***************************************************************************)
(* What the deposit tables promise about blockchain transactions, whatever *)
(* the number of callbacks, their order and their failures: the table      *)
(* deposit_transactions is a write-once registry.  A transaction is        *)
(* attributed to one company at most, all the transactions of one deposit  *)
(* are attributed together, and an attribution is never revised.           *)
(*                                                                         *)
(* DepositCallback implements this specification.                          *)
(***************************************************************************)
CONSTANTS Txid,        \* transaction ids of the blockchain
          Company,     \* companies a deposit can belong to
          NoCompany    \* "not registered"

VARIABLE registry      \* registry[t]: the company transaction t is booked on

\* Nothing is registered when the tables are empty.
RInit == registry = [t \in Txid |-> NoCompany]

\* One deposit books its transactions T on company k, all or none.
Register(T, k) ==
  /\ \A t \in T : registry[t] = NoCompany
  /\ registry' = [t \in Txid |-> IF t \in T THEN k ELSE registry[t]]

RNext == \E T \in SUBSET Txid, k \in Company : Register(T, k)

RSpec == RInit /\ [][RNext]_registry
=============================================================================
