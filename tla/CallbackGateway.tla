--------------------------- MODULE CallbackGateway ---------------------------
(***************************************************************************)
(* The whole webhook: TransactionCallbackService.handleAlphapoCallback     *)
(* sends a body to the deposit or to the withdrawal handler by its type.   *)
(* Both work on the table balances, and the withdrawal handler reads       *)
(* deposit_transactions.  Bodies of the exchange types, placeholders that  *)
(* answer 501, and of unknown types change nothing: they are stutters.     *)
(*                                                                         *)
(* The deposit handlers are those of DepositCallback, under their names;   *)
(* what belongs to the withdrawal handlers has a W!, or a small w, before. *)
(***************************************************************************)
EXTENDS DepositCallback

CONSTANTS WithdrawalDelivery, WithdrawalBody, RequestId, Payout,
          CompanyRequired, NoRequest, NoKey

VARIABLES withdrawals, wLogs, wRequest, wEntity, wLoaded, wPc

\* The withdrawal handler finds the txids of the saved deposits on record, and
\* the balance rows that deposits have inserted.
W == INSTANCE WithdrawalCallback WITH
  Callback <- WithdrawalDelivery, Body <- WithdrawalBody, Row <- Callback,
  InitialBalances <- {[c \in Callback |-> NoRow]},
  depositTxids <- {t \in Txid : Recorded(t)},
  logs <- wLogs, request <- wRequest, entity <- wEntity, loaded <- wLoaded, pc <- wPc

ASSUME GatewayAssumption == WithdrawalBody \subseteq W!BodyType /\ NoBody \notin WithdrawalBody

depositVars    == <<addresses, logs, deposits, request, owner, loaded, pc>>
withdrawalVars == <<withdrawals, wLogs, wRequest, wEntity, wLoaded, wPc>>
gatewayVars    == <<balances, depositVars, withdrawalVars>>

GatewayInit == Init /\ W!TablesEmpty /\ W!HandlersIdle

\* type 'deposit'
DepositStep ==
  /\ \E c \in Callback : (\E b \in Body : Receive(c, b)) \/ Refuse(c) \/ Step(c) \/ Fail(c)
  /\ UNCHANGED withdrawalVars

\* type 'withdrawal'
WithdrawalStep ==
  /\ UNCHANGED depositVars
  /\ \E w \in WithdrawalDelivery :
       (\E b \in WithdrawalBody : W!Receive(w, b)) \/ W!Refuse(w) \/ W!Step(w) \/ W!Fail(w)

\* One process runs both handlers.
StopBoth ==
  /\ pc' = [c \in Callback |-> IF pc[c] \in InFlight THEN "lost" ELSE pc[c]]
  /\ wPc' = [w \in WithdrawalDelivery |-> IF wPc[w] \in W!InFlight THEN "lost" ELSE wPc[w]]
  /\ UNCHANGED <<balances, addresses, logs, deposits, request, owner, loaded,
                 withdrawals, wLogs, wRequest, wEntity, wLoaded>>

GatewayNext == DepositStep \/ WithdrawalStep \/ StopBoth

\* An awaited query settles sooner or later and its handler is resumed; nobody
\* promises that the provider calls, nor that anything fails.
GatewaySpec ==
  /\ GatewayInit /\ [][GatewayNext]_gatewayVars
  /\ \A c \in Callback : WF_gatewayVars(Step(c) /\ UNCHANGED withdrawalVars)
  /\ \A w \in WithdrawalDelivery : WF_gatewayVars(UNCHANGED depositVars /\ W!Step(w))

-----------------------------------------------------------------------------
(* Properties. *)

\* A balance is never more than the sum of the deposits credited to its row,
\* although both handlers write back rows they read before the other's write.
BalanceWithinCredits ==
  \A r \in BalanceRows : balances[r].amount <= AmountOf(balances[r].credits)

\* A withdrawal that writes back a balance read earlier moves no credit to
\* another company, credits no deposit that is not on record, and gives no
\* company more than its logged confirmed deposits announced.
CreditsStaySound == OneCompanyPerCallback /\ CreditFollowsDeposit /\ NoUnbackedCredit

\* Every callback of either type that is taken is answered, or lost in a crash.
EveryCallbackEnds == EveryDeliveryEnds /\ W!EveryDeliveryEnds

\* A confirmed deposit ends up on record and credited, and a confirmed
\* withdrawal that is saved is debited, however often the handlers of the other
\* type change the balances, unless a query fails or the process stops.
ConfirmedIsSettled == ConfirmedIsBooked /\ W!SavedIsDebited
=============================================================================
