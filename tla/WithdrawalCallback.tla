------------------------- MODULE WithdrawalCallback -------------------------
(***************************************************************************)
(* The withdrawal half of the AlphaPo webhook:                             *)
(*   TransactionCallbackService.handleWithdrawalCallback / decreaseBalance.*)
(*                                                                         *)
(* As in DepositCallback each awaited query is one action, and an          *)
(* exception ends the handler with answer 200.  A `where' that compares    *)
(* with undefined or null compares nothing: it matches every row.          *)
(*                                                                         *)
(* withdrawal_transactions and withdrawal_fees require a companyId, which  *)
(* the handler gives to no child it creates: a save that cascades to a new *)
(* transaction or fee is rolled back, so these tables stay empty and the   *)
(* model has no variable for them.                                         *)
(***************************************************************************)
EXTENDS Integers, FiniteSets

CONSTANTS
  Callback,         \* deliveries: HTTP requests of the provider
  RequestId,        \* request ids of withdrawals
  Payout,           \* the provider's own ids, body.id
  Company, Currency, Txid,
  Body,             \* the JSON bodies the provider sends
  Row,              \* ids of balance rows
  InitialBalances,  \* tables of balances to start from
  CompanyRequired,  \* the schema of callback_logs: companyId is NOT NULL
  NoRequest, NoCompany, NoKey, NoBody, NoRow

\* What withdrawals.request_id holds: a request id, or `cb-<id>' for a payout.
Key == RequestId \cup Payout

\* status "other" stands for every string the handler does not know.
BodyType == [request: RequestId \cup {NoRequest}, payout: Payout, currency: Currency,
             amount: Nat, txids: SUBSET Txid, fees: BOOLEAN,
             status: {"processing", "confirmed", "failed", "other"}]

ASSUME BodyAssumption == Body \subseteq BodyType
ASSUME NoneAssumption == /\ NoRequest \notin RequestId /\ NoCompany \notin Company
                         /\ NoKey \notin Key /\ NoBody \notin Body
ASSUME SchemaAssumption == CompanyRequired \in BOOLEAN

WithdrawalRow == [company: Company \cup {NoCompany},
                  status: {"processing", "confirmed", "failed"}]
BalanceRow    == [company: Company, currency: Currency, amount: Nat]
LogRow        == [status: {"received", "processed"}, source: Key \cup {NoKey}]

ASSUME RowAssumption == /\ NoRow \notin WithdrawalRow \cup LogRow
                        /\ InitialBalances \subseteq [Row -> BalanceRow \cup {NoRow}]

VARIABLES
  depositTxids,  \* deposit_transactions: the txids on record
  balances,      \* balances: [company, currency, amount, ...] or NoRow
  withdrawals,   \* withdrawals by request_id
  logs,          \* callback_logs: the row a delivery saved
  request,       \* the body of each delivery
  entity,        \* the Withdrawal entity in the handler's memory
  loaded,        \* the Balance entity in the handler's memory
  pc             \* where the handler of each delivery is

tables   == <<depositTxids, balances, withdrawals, logs>>
handlers == <<request, entity, loaded, pc>>
vars     == <<depositTxids, balances, withdrawals, logs, request, entity, loaded, pc>>

InFlight == {"saveLog", "findWithdrawal", "findTx", "saveWithdrawal", "updateLog",
             "findBalance", "saveBalance"}
Answered == {"done", "failed", "refused"}

-----------------------------------------------------------------------------
(* The handler. *)

HandlersIdle ==
  /\ request = [c \in Callback |-> NoBody]
  /\ entity  = [c \in Callback |-> NoRow]
  /\ loaded  = [c \in Callback |-> NoRow]
  /\ pc      = [c \in Callback |-> "idle"]

TablesEmpty ==
  /\ withdrawals = [k \in Key |-> NoRow]
  /\ logs        = [c \in Callback |-> NoRow]

Init ==
  /\ depositTxids \in SUBSET Txid
  /\ balances \in InitialBalances
  /\ TablesEmpty
  /\ HandlersIdle

Goto(c, to) == pc' = [pc EXCEPT ![c] = to]

\* A query of the handler throws: the controller logs the error, answers 200.
Reject(c) == Goto(c, "failed") /\ UNCHANGED <<tables, request, entity, loaded>>

Receive(c, b) ==
  /\ pc[c] = "idle"
  /\ Goto(c, "saveLog")
  /\ request' = [request EXCEPT ![c] = b]
  /\ UNCHANGED <<tables, entity, loaded>>

\* The HMAC does not match: 401.
Refuse(c) ==
  /\ pc[c] = "idle"
  /\ Goto(c, "refused")
  /\ UNCHANGED <<tables, request, entity, loaded>>

\* callbackRepo.save of a row without companyId
SaveLog(c) ==
  /\ pc[c] = "saveLog"
  /\ \/ /\ ~CompanyRequired
        /\ Goto(c, "findWithdrawal")
        /\ logs' = [logs EXCEPT ![c] = [status |-> "received", source |-> NoKey]]
        /\ UNCHANGED <<depositTxids, balances, withdrawals, request, entity, loaded>>
     \/ CompanyRequired /\ Reject(c)

\* Mutant: the withdrawal is looked up without its request id.
MatchingAny(b) == {k \in Key : withdrawals[k] # NoRow}

\* The rows `where: { requestId: body.request_id }' matches.
Matching(b) ==
  {k \in Key : withdrawals[k] # NoRow /\ b.request \in {k, NoRequest}}

\* A new entity, under the request id or, without one, under `cb-<id>'.
Created(b) ==
  [key |-> IF b.request = NoRequest THEN b.payout ELSE b.request, new |-> TRUE,
   company |-> NoCompany, status |-> "processing", attached |-> FALSE]

Entities(b) ==
  IF Matching(b) = {} THEN {Created(b)}
  ELSE {[key |-> k, new |-> FALSE, company |-> withdrawals[k].company,
         status |-> withdrawals[k].status, attached |-> FALSE] : k \in Matching(b)}

\* statusMap[body.status] ?? withdrawal.status
Mapped(b, status) == IF b.status = "other" THEN status ELSE b.status

\* withdrawalRepo.findOne or create, and the new status of the entity.
FindWithdrawal(c) ==
  /\ pc[c] = "findWithdrawal"
  /\ \E e \in Entities(request[c]) :
       entity' = [entity EXCEPT ![c] = [e EXCEPT !.status = Mapped(request[c], @)]]
  /\ Goto(c, IF request[c].txids = {} THEN "saveWithdrawal" ELSE "findTx")
  /\ UNCHANGED <<tables, request, loaded>>

\* Mutant: a callback whose transactions are known is marked as processed.
FindTxSkipsSave(c) ==
  /\ pc[c] = "findTx"
  /\ entity' = [entity EXCEPT ![c].attached = request[c].txids \cap depositTxids = {}]
  /\ Goto(c, IF request[c].txids \cap depositTxids = {} THEN "saveWithdrawal" ELSE "updateLog")
  /\ UNCHANGED <<tables, request, loaded>>

\* txRepo.find, the repository of the deposits' transactions: the transactions
\* of the callback are attached unless one of them is a deposit's.
FindTx(c) ==
  /\ pc[c] = "findTx"
  /\ entity' = [entity EXCEPT ![c].attached = request[c].txids \cap depositTxids = {}]
  /\ Goto(c, "saveWithdrawal")
  /\ UNCHANGED <<tables, request, loaded>>

\* The children lack their companyId, and request_id is unique.
Savable(c) ==
  LET e == entity[c] IN
  /\ ~e.attached /\ ~request[c].fees
  /\ e.new => withdrawals[e.key] = NoRow

\* withdrawalRepo.save with its cascaded transactions and fees
SaveWithdrawal(c) ==
  LET e == entity[c] IN
  /\ pc[c] = "saveWithdrawal"
  /\ \/ /\ Savable(c)
        /\ withdrawals' = [withdrawals EXCEPT ![e.key] =
                             [company |-> e.company, status |-> e.status]]
        /\ Goto(c, "updateLog")
        /\ UNCHANGED <<depositTxids, balances, logs, request, entity, loaded>>
     \/ ~Savable(c) /\ Reject(c)

\* Mutant: the status test dropped.
UpdateLogAnyStatus(c) ==
  /\ pc[c] = "updateLog"
  /\ logs' = [logs EXCEPT ![c] = [status |-> "processed", source |-> entity[c].key]]
  /\ Goto(c, "findBalance")
  /\ UNCHANGED <<depositTxids, balances, withdrawals, request, entity, loaded>>

\* callbackRepo.update, then the status test: only a confirmed one is debited.
UpdateLog(c) ==
  /\ pc[c] = "updateLog"
  /\ logs' = [logs EXCEPT ![c] = [status |-> "processed", source |-> entity[c].key]]
  /\ Goto(c, IF request[c].status = "confirmed" THEN "findBalance" ELSE "done")
  /\ UNCHANGED <<depositTxids, balances, withdrawals, request, entity, loaded>>

\* The rows `where: { companyId, currency }' matches.
RowsFor(k, cur) == {r \in Row : /\ balances[r] # NoRow
                                /\ balances[r].currency = cur
                                /\ k \in {balances[r].company, NoCompany}}

\* decreaseBalance: balanceRepo.findOne; without a row it warns and returns.
FindBalance(c) ==
  LET rows == RowsFor(entity[c].company, request[c].currency) IN
  /\ pc[c] = "findBalance"
  /\ \/ /\ \E r \in rows : loaded' = [loaded EXCEPT ![c] = [id |-> r, row |-> balances[r]]]
        /\ Goto(c, "saveBalance")
     \/ rows = {} /\ Goto(c, "done") /\ UNCHANGED loaded
  /\ UNCHANGED <<tables, request, entity>>

\* Mutants: without Math.max; with the sign of increaseBalance.
DebitedBelowZero(n, m) == n - m
DebitedWrongSign(n, m) == n + m

\* Math.max(0, balance - amount)
Debited(n, m) == IF m <= n THEN n - m ELSE 0

\* decreaseBalance: balanceRepo.save
SaveBalance(c) ==
  LET e == loaded[c] IN
  /\ pc[c] = "saveBalance"
  /\ balances' = [balances EXCEPT ![e.id] =
                    [e.row EXCEPT !.amount = Debited(@, request[c].amount)]]
  /\ Goto(c, "done")
  /\ UNCHANGED <<depositTxids, withdrawals, logs, request, entity, loaded>>

\* A query throws for a reason of its own: connection, bad value, no field.
Fail(c) == pc[c] \in InFlight /\ Reject(c)

\* The process stops: the handlers in flight are gone, the tables stay.
Crash ==
  /\ pc' = [c \in Callback |-> IF pc[c] \in InFlight THEN "lost" ELSE pc[c]]
  /\ UNCHANGED <<tables, request, entity, loaded>>

Step(c) == \/ SaveLog(c) \/ FindWithdrawal(c) \/ FindTx(c) \/ SaveWithdrawal(c)
           \/ UpdateLog(c) \/ FindBalance(c) \/ SaveBalance(c)

\* What happens when nothing goes wrong.
CalmNext == \E c \in Callback : (\E b \in Body : Receive(c, b)) \/ Step(c)

Next == CalmNext \/ Crash \/ \E c \in Callback : Refuse(c) \/ Fail(c)

Spec == Init /\ [][Next]_vars

CalmSpec == Init /\ [][CalmNext]_vars

-----------------------------------------------------------------------------
(* Properties. *)

Saved == {k \in Key : withdrawals[k] # NoRow}

TypeOK ==
  /\ depositTxids \in SUBSET Txid
  /\ \A r \in Row : balances[r] = NoRow \/ balances[r].amount \in Nat
  /\ \A k \in Saved : withdrawals[k] \in WithdrawalRow
  /\ \A c \in Callback :
       /\ logs[c] \in LogRow \cup {NoRow}
       /\ request[c] \in Body \cup {NoBody}
       /\ entity[c] = NoRow \/ entity[c].key \in Key
       /\ loaded[c] = NoRow \/ loaded[c].id \in Row
       /\ pc[c] \in {"idle", "lost"} \cup InFlight \cup Answered

\* A log row marked processed names a withdrawal that is on record under the
\* key its body asked for, and that body brought no child that could not be
\* stored: no fees, and no transactions but a set with a deposit's among them.
ProcessedIsSaved ==
  \A c \in Callback :
    (logs[c] # NoRow /\ logs[c].status = "processed") =>
      /\ withdrawals[logs[c].source] # NoRow
      /\ request[c].request \in {logs[c].source, NoRequest}
      /\ ~request[c].fees
      /\ request[c].txids # {} => request[c].txids \cap depositTxids # {}

\* The status of a withdrawal on record was reported for it: however stale the
\* entity a handler writes back, the status is that of a callback in the log
\* whose request id matches the withdrawal, or the one it was created with.
StatusWasReported ==
  \A k \in Saved :
    withdrawals[k].status # "processing" =>
      \E c \in Callback : /\ logs[c] # NoRow
                          /\ request[c].request \in {k, NoRequest}
                          /\ request[c].status = withdrawals[k].status

\* A balance is touched only by a confirmed callback, after its withdrawal and
\* its log are on record, and only a balance of the currency of the body.
DebitIsOnRecord ==
  [][\A r \in Row : balances'[r] # balances[r] =>
       \E c \in Callback :
         /\ pc[c] = "saveBalance" /\ pc'[c] = "done"
         /\ request[c].status = "confirmed"
         /\ logs[c].status = "processed"
         /\ withdrawals[logs[c].source] # NoRow
         /\ balances[r].currency = request[c].currency
         /\ balances'[r].company = balances[r].company]_vars

\* Every delivery that is taken is answered, or lost in a crash.
EveryDeliveryEnds ==
  \A c \in Callback : pc[c] \in InFlight ~> pc[c] \notin InFlight

\* A confirmed withdrawal that is saved leads to a debit, unless there is no
\* balance to debit, a query fails or the process stops.
SavedIsDebited ==
  \A c \in Callback :
    (pc[c] = "updateLog" /\ request[c].status = "confirmed") ~>
      \/ pc[c] \in {"failed", "lost"}
      \/ /\ pc[c] = "done"
         /\ \/ loaded[c] # NoRow
            \/ RowsFor(entity[c].company, request[c].currency) = {}

-----------------------------------------------------------------------------
(* What comments and types of the repository say, and the code does not keep. *)

\* callback-log.entity.ts, line 30: an event is "deposit | withdrawal | ...":
\* a withdrawal callback that was answered is in the log.
AnsweredIsLogged ==
  \A c \in Callback : pc[c] \in {"done", "failed"} => logs[c] # NoRow
=============================================================================
