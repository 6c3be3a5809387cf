-------------------------- MODULE DepositCallback --------------------------
(***************************************************************************)
(* The deposit half of the AlphaPo webhook:                                *)
(*   TransactionCallbackController.handleAlphapoCallback, and              *)
(*   TransactionCallbackService.handleDepositCallback / increaseBalance.   *)
(*                                                                         *)
(* Every delivery of a callback runs the handler once.  The handler awaits *)
(* one query after the other, and other handlers run between its awaits,   *)
(* so each query is one action.  `save' writes an entity as the handler    *)
(* holds it in memory; a save with cascades is one database transaction;   *)
(* a violated unique index, a numeric overflow or a lost connection throws *)
(* out of the handler, and the controller swallows the exception and       *)
(* still answers 200.                                                      *)
(***************************************************************************)
EXTENDS Integers, FiniteSets, Functions

CONSTANTS
  Callback,        \* deliveries: HTTP requests of the provider
  Address,         \* blockchain addresses
  Company,         \* companies
  Currency,        \* currency codes
  Txid,            \* blockchain transaction ids
  Body,            \* the JSON bodies the provider sends
  DefaultCompany,  \* the literal companyId 1 of the handler
  MaxBalance,      \* largest value of balances.balance, decimal(18,8)
  NoCompany, NoBody, NoRow

\* A body: the receiving address, the currency and amount received, the
\* transactions, and whether body.status is 'confirmed'.
BodyType == [address: Address, currency: Currency, amount: Nat,
             txids: SUBSET Txid, confirmed: BOOLEAN]

ASSUME BodyAssumption    == Body \subseteq BodyType
ASSUME CompanyAssumption == DefaultCompany \in Company /\ NoCompany \notin Company
ASSUME MaxAssumption     == MaxBalance \in Nat

\* A row of table balances, and the entity a handler loads it into (`id' names
\* the row).  `credits' is a history of the deliveries summed up in the row.
BalanceRow == [company: Company, currency: Currency, amount: 0..MaxBalance,
               credits: SUBSET Callback]
Entity     == [id: Callback, row: BalanceRow]

ASSUME NoneAssumption == NoBody \notin Body /\ NoRow \notin BalanceRow \cup Entity

VARIABLES
  addresses,  \* crypto_addresses: the company of each address, or NoCompany
  logs,       \* callback_logs: company of the row a delivery saved
  deposits,   \* deposits: company of the row a delivery saved; its cascaded
              \* deposit_transactions are the delivery's txids
  balances,   \* balances: rows, each named by the delivery that inserted it
  request,    \* the body of each delivery
  owner,      \* address.companyId in the handler's memory
  loaded,     \* the Balance entity in the handler's memory
  pc          \* where the handler of each delivery is

tables   == <<addresses, logs, deposits, balances>>
handlers == <<request, owner, loaded, pc>>
vars     == <<addresses, logs, deposits, balances, request, owner, loaded, pc>>

InFlight == {"findAddress", "saveAddress", "saveLog", "findTx", "saveDeposit",
             "findBalance", "saveBalance"}
Answered == {"ignored", "done", "failed", "refused"}
Stage    == {"idle", "lost"} \cup InFlight \cup Answered

-----------------------------------------------------------------------------
(* The handler. *)

Init ==
  /\ addresses \in [Address -> Company \cup {NoCompany}]   \* issued earlier
  /\ logs      = [c \in Callback |-> NoCompany]
  /\ deposits  = [c \in Callback |-> NoCompany]
  /\ balances  = [c \in Callback |-> NoRow]
  /\ request   = [c \in Callback |-> NoBody]
  /\ owner     = [c \in Callback |-> NoCompany]
  /\ loaded    = [c \in Callback |-> NoRow]
  /\ pc        = [c \in Callback |-> "idle"]

\* The handler of delivery c resumes and runs to its next await.
Goto(c, to) == pc' = [pc EXCEPT ![c] = to]

\* A query of the handler throws: the controller logs the error, answers 200.
Reject(c) == Goto(c, "failed") /\ UNCHANGED <<tables, request, owner, loaded>>

\* The HMAC matches: the service takes the body.  A provider that repeats a
\* callback sends an equal body in another delivery.
Receive(c, b) ==
  /\ pc[c] = "idle"
  /\ Goto(c, "findAddress")
  /\ request' = [request EXCEPT ![c] = b]
  /\ UNCHANGED <<tables, owner, loaded>>

\* The HMAC does not match: 401, and the service is not called.
Refuse(c) ==
  /\ pc[c] = "idle"
  /\ Goto(c, "refused")
  /\ UNCHANGED <<tables, request, owner, loaded>>

\* addressRepo.findOne
FindAddress(c) ==
  LET found == addresses[request[c].address] IN
  /\ pc[c] = "findAddress"
  /\ Goto(c, IF found = NoCompany THEN "saveAddress" ELSE "saveLog")
  /\ owner' = [owner EXCEPT ![c] = found]
  /\ UNCHANGED <<tables, request, loaded>>

\* Mutant: an upsert, which gives a known address to the default company.
SaveAddressUpsert(c) ==
  /\ pc[c] = "saveAddress"
  /\ Goto(c, "saveLog")
  /\ addresses' = [addresses EXCEPT ![request[c].address] = DefaultCompany]
  /\ owner' = [owner EXCEPT ![c] = DefaultCompany]
  /\ UNCHANGED <<logs, deposits, balances, request, loaded>>

\* addressRepo.save of an unknown address; address is a unique column, so the
\* insert throws when another handler came first.
SaveAddress(c) ==
  LET a == request[c].address IN
  /\ pc[c] = "saveAddress"
  /\ \/ /\ addresses[a] = NoCompany
        /\ Goto(c, "saveLog")
        /\ addresses' = [addresses EXCEPT ![a] = DefaultCompany]
        /\ owner' = [owner EXCEPT ![c] = DefaultCompany]
        /\ UNCHANGED <<logs, deposits, balances, request, loaded>>
     \/ addresses[a] # NoCompany /\ Reject(c)

\* Mutant: without the status test.
SaveLogAnyStatus(c) ==
  /\ pc[c] = "saveLog"
  /\ Goto(c, "findTx")
  /\ logs' = [logs EXCEPT ![c] = owner[c]]
  /\ UNCHANGED <<addresses, deposits, balances, request, owner, loaded>>

\* callbackRepo.save, then the status test: only a confirmed deposit goes on.
SaveLog(c) ==
  /\ pc[c] = "saveLog"
  /\ Goto(c, IF request[c].confirmed THEN "findTx" ELSE "ignored")
  /\ logs' = [logs EXCEPT ![c] = owner[c]]
  /\ UNCHANGED <<addresses, deposits, balances, request, owner, loaded>>

\* The rows of deposit_transactions hold transaction t.
Recorded(t) == \E k \in Callback : deposits[k] # NoCompany /\ t \in request[k].txids

\* Mutant: the credit is not made to wait for the deposit.
FindTxCreditAlways(c) ==
  /\ pc[c] = "findTx"
  /\ Goto(c, "findBalance")
  /\ UNCHANGED <<tables, request, owner, loaded>>

\* txRepo.find: one known txid is enough to leave the deposit out.
FindTx(c) ==
  /\ pc[c] = "findTx"
  /\ Goto(c, IF \E t \in request[c].txids : Recorded(t)
             THEN "findBalance" ELSE "saveDeposit")
  /\ UNCHANGED <<tables, request, owner, loaded>>

\* Mutants: txid is not unique; the insert waits instead of failing; the
\* handler returns when the deposit is saved.
SaveDepositNotUnique(c) ==
  /\ pc[c] = "saveDeposit"
  /\ Goto(c, "findBalance")
  /\ deposits' = [deposits EXCEPT ![c] = owner[c]]
  /\ UNCHANGED <<addresses, logs, balances, request, owner, loaded>>
SaveDepositWaits(c) ==
  pc[c] = "saveDeposit" /\ (\A t \in request[c].txids : ~Recorded(t)) /\ SaveDepositNotUnique(c)
SaveDepositReturns(c) ==
  /\ pc[c] = "saveDeposit"
  /\ \/ /\ \A t \in request[c].txids : ~Recorded(t)
        /\ Goto(c, "done")
        /\ deposits' = [deposits EXCEPT ![c] = owner[c]]
        /\ UNCHANGED <<addresses, logs, balances, request, owner, loaded>>
     \/ (\E t \in request[c].txids : Recorded(t)) /\ Reject(c)

\* depositRepo.save with its cascaded transactions and fees; txid is a unique
\* column, so the insert is rolled back when one is recorded meanwhile.
SaveDeposit(c) ==
  /\ pc[c] = "saveDeposit"
  /\ \/ /\ \A t \in request[c].txids : ~Recorded(t)
        /\ Goto(c, "findBalance")
        /\ deposits' = [deposits EXCEPT ![c] = owner[c]]
        /\ UNCHANGED <<addresses, logs, balances, request, owner, loaded>>
     \/ (\E t \in request[c].txids : Recorded(t)) /\ Reject(c)

\* Mutant: the look-up forgets the company.
RowsOfAnyone(k, cur) == {r \in Callback : balances[r] # NoRow /\ balances[r].currency = cur}

\* Rows of company k in currency cur: nothing makes them unique.
RowsOf(k, cur) ==
  {r \in Callback : /\ balances[r] # NoRow
                    /\ balances[r].company = k
                    /\ balances[r].currency = cur}

\* The entity increaseBalance works on: any row found, else a new one.
Candidates(c) ==
  LET k == owner[c]  cur == request[c].currency  rows == RowsOf(k, cur) IN
  IF rows = {}
  THEN {[id |-> c, row |-> [company |-> k, currency |-> cur, amount |-> 0, credits |-> {}]]}
  ELSE {[id |-> r, row |-> balances[r]] : r \in rows}

\* increaseBalance: balanceRepo.findOne, or balanceRepo.create
FindBalance(c) ==
  /\ pc[c] = "findBalance"
  /\ Goto(c, "saveBalance")
  /\ \E e \in Candidates(c) : loaded' = [loaded EXCEPT ![c] = e]
  /\ UNCHANGED <<tables, request, owner>>

\* Mutant: a column without a limit.
SaveBalanceUnlimited(c) ==
  /\ pc[c] = "saveBalance"
  /\ Goto(c, "done")
  /\ balances' = [balances EXCEPT ![loaded[c].id] =
       [loaded[c].row EXCEPT !.amount = @ + request[c].amount, !.credits = @ \cup {c}]]
  /\ UNCHANGED <<addresses, logs, deposits, request, owner, loaded>>

\* increaseBalance: balanceRepo.save writes the sum of what was read and the
\* amount received; the column overflows beyond MaxBalance.
SaveBalance(c) ==
  LET e == loaded[c]  sum == e.row.amount + request[c].amount IN
  /\ pc[c] = "saveBalance"
  /\ \/ /\ sum <= MaxBalance
        /\ Goto(c, "done")
        /\ balances' = [balances EXCEPT ![e.id] =
                          [e.row EXCEPT !.amount = sum, !.credits = @ \cup {c}]]
        /\ UNCHANGED <<addresses, logs, deposits, request, owner, loaded>>
     \/ sum > MaxBalance /\ Reject(c)

\* A query throws for a reason of its own: connection, bad value, no field.
Fail(c) == pc[c] \in InFlight /\ Reject(c)

\* The process stops: the handlers in flight are gone, the tables stay.
Crash ==
  /\ \E c \in Callback : pc[c] \in InFlight
  /\ pc' = [c \in Callback |-> IF pc[c] \in InFlight THEN "lost" ELSE pc[c]]
  /\ UNCHANGED <<tables, request, owner, loaded>>

Step(c) == \/ FindAddress(c) \/ SaveAddress(c) \/ SaveLog(c) \/ FindTx(c)
           \/ SaveDeposit(c) \/ FindBalance(c) \/ SaveBalance(c)

\* Every delivery has been answered or lost: nothing is left to do.
Quiet == \A c \in Callback : pc[c] \in Answered \cup {"lost"}

Finished == Quiet /\ UNCHANGED vars

Next ==
  \/ \E c \in Callback : \/ \E b \in Body : Receive(c, b)
                         \/ Refuse(c) \/ Step(c) \/ Fail(c)
  \/ Crash
  \/ Finished

Spec == Init /\ [][Next]_vars

-----------------------------------------------------------------------------
(* Properties. *)

LogRows     == {c \in Callback : logs[c] # NoCompany}
DepositRows == {c \in Callback : deposits[c] # NoCompany}
BalanceRows == {r \in Callback : balances[r] # NoRow}

\* What the deliveries in S say was received, and what the rows in R hold.
AmountOf(S)  == SumFunction([c \in S |-> request[c].amount])
BalanceOf(R) == SumFunction([r \in R |-> balances[r].amount])

\* The deliveries in S that concern company k, by column `company', and cur.
Of(S, company, k, cur) ==
  {c \in S : company[c] = k /\ request[c].currency = cur}

\* Every variable holds a value of its kind; a balance fits its column.
TypeOK ==
  /\ addresses \in [Address -> Company \cup {NoCompany}]
  /\ logs \in [Callback -> Company \cup {NoCompany}]
  /\ deposits \in [Callback -> Company \cup {NoCompany}]
  /\ balances \in [Callback -> BalanceRow \cup {NoRow}]
  /\ request \in [Callback -> Body \cup {NoBody}]
  /\ owner \in [Callback -> Company \cup {NoCompany}]
  /\ loaded \in [Callback -> Entity \cup {NoRow}]
  /\ pc \in [Callback -> Stage]

\* However the handlers interleave between looking for the txids and saving
\* the deposit, a blockchain transaction belongs to one deposit row at most.
OneDepositPerTransaction ==
  \A c1, c2 \in DepositRows :
    c1 # c2 => request[c1].txids \cap request[c2].txids = {}

\* Everything one callback leaves behind names the same company, the one its
\* address belongs to: the log row, the deposit row and the balance credited,
\* although they are written in separate queries from a copy of the address.
OneCompanyPerCallback ==
  /\ \A c \in LogRows : logs[c] = addresses[request[c].address]
  /\ \A c \in DepositRows : deposits[c] = logs[c]
  /\ \A r \in BalanceRows : \A c \in balances[r].credits :
       /\ balances[r].company = logs[c]
       /\ balances[r].currency = request[c].currency

\* No balance is credited before its deposit is on record: the callback wrote
\* the deposit row, or found one of its transactions in another.
CreditFollowsDeposit ==
  \A r \in BalanceRows : \A c \in balances[r].credits :
    c \in DepositRows \/ \E t \in request[c].txids : Recorded(t)

\* A company's balances in a currency never exceed what the logged confirmed
\* callbacks for its addresses announced, whatever stale rows are written back.
NoUnbackedCredit ==
  \A k \in Company, cur \in Currency :
    BalanceOf(RowsOf(k, cur)) <=
      AmountOf(Of({c \in LogRows : request[c].confirmed}, logs, k, cur))

\* Every delivery that is taken is answered, or lost in a crash: no handler
\* waits for ever, on a database or on another handler.
EveryDeliveryEnds ==
  \A c \in Callback : pc[c] \in InFlight ~> pc[c] \in Answered \cup {"lost"}

\* A confirmed callback that is taken has, when it ends, its transactions on
\* record and its credit in a balance, whatever other handlers have written in
\* between, unless a query of the handler fails or the process stops.
ConfirmedIsBooked ==
  \A c \in Callback :
    (pc[c] = "findAddress" /\ request[c].confirmed) ~>
      \/ pc[c] \in {"failed", "lost"}
      \/ /\ pc[c] = "done"
         /\ c \in DepositRows \/ \E t \in request[c].txids : Recorded(t)
         /\ \E r \in BalanceRows : c \in balances[r].credits

-----------------------------------------------------------------------------
(* The inductive invariant: how far a handler is, and what it remembers. *)

\* Stages in which a handler holds the address row, has logged, and has seen
\* to it that the deposit is on record.
AfterDeposit == {"findBalance", "saveBalance", "done"}
AfterLog     == {"findTx", "saveDeposit"} \cup AfterDeposit
AfterAddress == {"saveLog", "ignored"} \cup AfterLog

Untaken == {"idle", "refused"}

\* A transaction of delivery c, or its whole deposit, is on record.
Backed(c) == c \in DepositRows \/ \E t \in request[c].txids : Recorded(t)

\* A balance row credits only logged, backed deliveries of its own company.
SoundRow(row) ==
  \A c \in row.credits : /\ logs[c] = row.company
                         /\ request[c] # NoBody
                         /\ request[c].currency = row.currency
                         /\ Backed(c)

HandlerOK(c) ==
  /\ request[c] = NoBody <=> pc[c] \in Untaken
  /\ pc[c] \in AfterAddress =>
       /\ owner[c] # NoCompany
       /\ owner[c] = addresses[request[c].address]
  /\ pc[c] \in AfterLog \cup {"ignored"} => logs[c] = owner[c]
  /\ pc[c] \in AfterDeposit => Backed(c)
  /\ pc[c] \in {"findTx", "saveDeposit"} => deposits[c] = NoCompany
  /\ pc[c] = "saveBalance" =>
       /\ loaded[c] # NoRow
       /\ loaded[c].row.company = owner[c]
       /\ loaded[c].row.currency = request[c].currency

RowsOK(c) ==
  /\ logs[c] # NoCompany =>
       /\ request[c] # NoBody
       /\ logs[c] = addresses[request[c].address]
  /\ deposits[c] # NoCompany => deposits[c] = logs[c]
  /\ pc[c] \in Untaken \cup {"findAddress", "saveAddress", "saveLog"} =>
       logs[c] = NoCompany /\ deposits[c] = NoCompany
  /\ balances[c] # NoRow => SoundRow(balances[c])
  /\ loaded[c] # NoRow => SoundRow(loaded[c].row)

\* What each handler remembers across its awaits, the address's company and
\* the balance it read, is consistent with what the tables hold by now.
MemoryAgreesWithTables ==
  /\ \A c \in Callback : HandlerOK(c) /\ RowsOK(c)
  /\ OneDepositPerTransaction

-----------------------------------------------------------------------------
(* deposit_transactions, seen as the registry it implements. *)

RecordedBy(t) == CHOOSE c \in DepositRows : t \in request[c].txids

Registry == INSTANCE TransactionRegistry WITH
  registry <- [t \in Txid |-> IF Recorded(t) THEN deposits[RecordedBy(t)] ELSE NoCompany]

\* Attributions of transactions are written once, all of a deposit together,
\* and never revised by a later, repeated or concurrent callback.
ImplementsRegistry == Registry!RSpec

-----------------------------------------------------------------------------
(* What the comments of the handler say, and the code does not keep. *)

\* "Update balance for confirmed deposit" (transaction-callback.service.ts,
\* line 170): what a company holds was brought by its deposits.
CreditedByDeposits ==
  \A k \in Company, cur \in Currency :
    BalanceOf(RowsOf(k, cur)) <= AmountOf(Of(DepositRows, deposits, k, cur))
=============================================================================
