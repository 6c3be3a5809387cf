---------------------- MODULE WithdrawalCallback_proofs ----------------------
(***************************************************************************)
(* Theorems about WithdrawalCallback, for every set of deliveries, bodies, *)
(* companies, currencies, transactions and balances to start from, and for *)
(* both schemas of callback_logs.                                          *)
(***************************************************************************)
EXTENDS WithdrawalCallback, TLAPS

EntityRow == [key: Key, new: BOOLEAN, company: Company \cup {NoCompany},
              status: {"processing", "confirmed", "failed"}, attached: BOOLEAN]
LoadedRow == [id: Row, row: BalanceRow]

\* TypeOK, with the functions and the entities in memory typed in full.
Typed ==
  /\ depositTxids \in SUBSET Txid
  /\ balances \in [Row -> BalanceRow \cup {NoRow}]
  /\ withdrawals \in [Key -> WithdrawalRow \cup {NoRow}]
  /\ logs \in [Callback -> LogRow \cup {NoRow}]
  /\ request \in [Callback -> Body \cup {NoBody}]
  /\ entity \in [Callback -> EntityRow \cup {NoRow}]
  /\ loaded \in [Callback -> LoadedRow \cup {NoRow}]
  /\ pc \in [Callback -> {"idle", "lost"} \cup InFlight \cup Answered]

\* The body of delivery c has no child that could not be stored.
Storable(c) ==
  ~request[c].fees /\ (request[c].txids # {} => request[c].txids \cap depositTxids # {})

\* The withdrawal with key k is on record for delivery c.
SavedFor(c, k) ==
  /\ k \in Key /\ withdrawals[k] \in WithdrawalRow
  /\ request[c].request \in {k, NoRequest}
  /\ Storable(c)

\* A callback in the log that matches key k reported status st, or none had to.
Reported(k, st) ==
  st # "processing" =>
    \E c \in Callback : /\ logs[c] # NoRow
                        /\ request[c].request \in {k, NoRequest}
                        /\ request[c].status = st

\* The stale balance in memory is of the same account as the row it was read from.
LoadedOK(c) ==
  LET e == loaded[c] IN
  /\ e \in LoadedRow
  /\ e.row.currency = request[c].currency
  /\ balances[e.id] \in BalanceRow
  /\ balances[e.id].currency = e.row.currency
  /\ balances[e.id].company = e.row.company

\* What the handler of delivery c relies on at each of its awaits.
HandlerOK(c) ==
  /\ pc[c] \in {"idle", "saveLog"} => logs[c] = NoRow
  /\ pc[c] = "findWithdrawal" => logs[c] \in LogRow /\ logs[c].status = "received"
  /\ pc[c] \in InFlight => request[c] \in Body
  /\ pc[c] \in {"findTx", "saveWithdrawal", "updateLog", "findBalance", "saveBalance"} =>
       entity[c] \in EntityRow /\ request[c].request \in {entity[c].key, NoRequest}
  /\ pc[c] = "findTx" => request[c].txids # {}
  /\ pc[c] \in {"findTx", "saveWithdrawal"} => Reported(entity[c].key, entity[c].status)
  /\ pc[c] = "saveWithdrawal" /\ ~entity[c].attached /\ ~request[c].fees => Storable(c)
  /\ pc[c] \in {"updateLog", "findBalance", "saveBalance"} => SavedFor(c, entity[c].key)
  /\ pc[c] \in {"findBalance", "saveBalance"} =>
       /\ request[c].status = "confirmed"
       /\ logs[c] = [status |-> "processed", source |-> entity[c].key]
  /\ pc[c] = "saveBalance" => LoadedOK(c)
  /\ logs[c] # NoRow /\ logs[c].status = "processed" => SavedFor(c, logs[c].source)

HandlersAgree == \A c \in Callback : HandlerOK(c)

IInv == Typed /\ StatusWasReported /\ HandlersAgree

\* Withdrawals stay on record, deposits too; logged bodies stay logged; balances
\* keep their account.
Kept ==
  /\ depositTxids' = depositTxids
  /\ \A k \in Key : withdrawals[k] \in WithdrawalRow => withdrawals'[k] \in WithdrawalRow
  /\ \A c \in Callback : logs[c] # NoRow => logs'[c] # NoRow /\ request'[c] = request[c]
  /\ \A r \in Row : balances[r] \in BalanceRow =>
       /\ balances'[r] \in BalanceRow
       /\ balances'[r].company = balances[r].company
       /\ balances'[r].currency = balances[r].currency

\* The handler of delivery c stays as it is.
Untouched(c) == /\ logs'[c] = logs[c] /\ request'[c] = request[c] /\ entity'[c] = entity[c]
                /\ loaded'[c] = loaded[c] /\ pc'[c] = pc[c]

-----------------------------------------------------------------------------
\* A handler at work has a typed body.
LEMMA BodyFields ==
  ASSUME NEW c \in Callback, request[c] \in Body
  PROVE  /\ request[c].request \in RequestId \cup {NoRequest}
         /\ request[c].payout \in Payout /\ request[c].txids \in SUBSET Txid
         /\ request[c].fees \in BOOLEAN /\ request[c].amount \in Nat
         /\ request[c].status \in {"processing", "confirmed", "failed", "other"}
  BY BodyAssumption DEF BodyType

\* The entity found or created is typed and has the key of the request, if any.
LEMMA EntitiesTyped ==
  ASSUME Typed, NEW c \in Callback, request[c] \in Body, NEW e \in Entities(request[c])
  PROVE  /\ [e EXCEPT !.status = Mapped(request[c], @)] \in EntityRow
         /\ request[c].request \in {e.key, NoRequest}
<1> DEFINE b == request[c]
<1>0. b.status \in {"processing", "confirmed", "failed", "other"}
  BY BodyFields
<1>1. CASE Matching(b) = {}
  <2>1. e = Created(b)
    BY <1>1 DEF Entities
  <2>2. e \in EntityRow
    BY <2>1, BodyFields DEF Created, EntityRow, Key
  <2> QED BY <1>0, <2>1, <2>2 DEF Created, Mapped, EntityRow
<1>2. CASE Matching(b) # {}
  <2>1. PICK k \in Matching(b) :
          e = [key |-> k, new |-> FALSE, company |-> withdrawals[k].company,
               status |-> withdrawals[k].status, attached |-> FALSE]
    BY <1>2 DEF Entities
  <2>2. k \in Key /\ withdrawals[k] \in WithdrawalRow /\ b.request \in {k, NoRequest}
    BY <2>1 DEF Matching, Typed
  <2>3. e \in EntityRow
    BY <2>1, <2>2 DEF EntityRow, WithdrawalRow
  <2> QED BY <1>0, <2>1, <2>2, <2>3 DEF Mapped, EntityRow
<1> QED BY <1>1, <1>2

\* A debit stays at or above zero.
LEMMA DebitedNat == ASSUME NEW n \in Nat, NEW m \in Nat PROVE Debited(n, m) \in Nat
  BY DEF Debited

\* The row SaveWithdrawal writes is typed.
LEMMA SavedRow ==
  ASSUME IInv, NEW c \in Callback, pc[c] = "saveWithdrawal"
  PROVE  LET e == entity[c] IN
         /\ e \in EntityRow /\ request[c] \in Body
         /\ [company |-> e.company, status |-> e.status] \in WithdrawalRow
  BY DEF IInv, HandlersAgree, HandlerOK, InFlight, EntityRow, WithdrawalRow

-----------------------------------------------------------------------------
\* The tables are empty, but for balances and the deposits' transactions.
LEMMA InitOK == Init => IInv
  BY RowAssumption
  DEF Init, TablesEmpty, HandlersIdle, IInv, Typed, HandlersAgree, HandlerOK, InFlight,
      StatusWasReported, Saved

\* The types are preserved by each action.
LEMMA TypeStep == ASSUME IInv, [Next]_vars PROVE Typed'
<1> USE DEF IInv, Typed, Goto, InFlight, Answered, tables
<1>1. ASSUME NEW c \in Callback, NEW b \in Body, Receive(c, b) PROVE Typed'
  BY <1>1 DEF Receive
<1>2. ASSUME NEW c \in Callback, SaveLog(c) PROVE Typed'
  BY <1>2 DEF SaveLog, Reject, LogRow
<1>3. ASSUME NEW c \in Callback, FindWithdrawal(c) PROVE Typed'
  <2>1. request[c] \in Body
    BY <1>3 DEF FindWithdrawal, HandlersAgree, HandlerOK
  <2> QED BY <1>3, <2>1, EntitiesTyped DEF FindWithdrawal
<1>4. ASSUME NEW c \in Callback, FindTx(c) PROVE Typed'
  <2>1. entity[c] \in EntityRow
    BY <1>4 DEF FindTx, HandlersAgree, HandlerOK
  <2>2. [entity[c] EXCEPT !.attached = request[c].txids \cap depositTxids = {}] \in EntityRow
    BY <2>1 DEF EntityRow
  <2> QED BY <1>4, <2>1, <2>2 DEF FindTx
<1>5. ASSUME NEW c \in Callback, SaveWithdrawal(c) PROVE Typed'
  BY <1>5, SavedRow DEF SaveWithdrawal, Reject, EntityRow
<1>6. ASSUME NEW c \in Callback, UpdateLog(c) PROVE Typed'
  <2>1. entity[c].key \in Key
    BY <1>6 DEF UpdateLog, HandlersAgree, HandlerOK, EntityRow
  <2> QED BY <1>6, <2>1 DEF UpdateLog, LogRow
<1>7. ASSUME NEW c \in Callback, FindBalance(c) PROVE Typed'
  BY <1>7 DEF FindBalance, RowsFor, LoadedRow
<1>8. ASSUME NEW c \in Callback, SaveBalance(c) PROVE Typed'
  <2>1. loaded[c].id \in Row /\ loaded[c].row \in BalanceRow /\ request[c].amount \in Nat
    BY <1>8, BodyFields DEF SaveBalance, HandlersAgree, HandlerOK, LoadedOK, LoadedRow
  <2>2. [loaded[c].row EXCEPT !.amount = Debited(@, request[c].amount)] \in BalanceRow
    BY <2>1, DebitedNat DEF BalanceRow
  <2> QED BY <1>8, <2>1, <2>2 DEF SaveBalance
<1>9. ASSUME NEW c \in Callback, Refuse(c) \/ Fail(c) PROVE Typed'
  BY <1>9 DEF Refuse, Fail, Reject
<1>10. CASE Crash
  BY <1>10 DEF Crash
<1>11. CASE UNCHANGED vars
  BY <1>11 DEF vars
<1> QED BY <1>1, <1>2, <1>3, <1>4, <1>5, <1>6, <1>7, <1>8, <1>9, <1>10, <1>11
        DEF Next, CalmNext, Step

\* Only SaveWithdrawal and SaveBalance write the two tables.
LEMMA Writers ==
  ASSUME [Next]_vars,
         \A c \in Callback : ~SaveWithdrawal(c) /\ ~SaveBalance(c)
  PROVE  UNCHANGED <<withdrawals, balances>>
  BY DEF Next, CalmNext, Step, Receive, SaveLog, FindWithdrawal, FindTx, UpdateLog, FindBalance,
         Refuse, Fail, Reject, Crash, vars, tables

\* No withdrawal and no log is taken off the record, no balance changes its
\* account, and a withdrawal takes no status that was not reported for it.
LEMMA TablesStep ==
  ASSUME IInv, [Next]_vars PROVE Kept /\ StatusWasReported'
<1>s. ASSUME Kept, withdrawals' = withdrawals PROVE StatusWasReported'
  BY <1>s DEF Kept, IInv, StatusWasReported, Saved
<1>1. ASSUME NEW c \in Callback, SaveWithdrawal(c) PROVE Kept /\ StatusWasReported'
  <2> DEFINE e == entity[c]
             w == [company |-> e.company, status |-> e.status]
  <2>0. e \in EntityRow /\ w \in WithdrawalRow /\ e.key \in Key
    BY <1>1, SavedRow DEF SaveWithdrawal, EntityRow
  <2>1. CASE Savable(c)
    <3>1. /\ withdrawals' = [withdrawals EXCEPT ![e.key] = w]
          /\ UNCHANGED <<depositTxids, balances, logs, request>>
      BY <1>1, <2>1 DEF SaveWithdrawal
    <3>2. withdrawals \in [Key -> WithdrawalRow \cup {NoRow}]
      BY DEF IInv, Typed
    <3>3. withdrawals'[e.key] = w /\ \A k \in Key \ {e.key} : withdrawals'[k] = withdrawals[k]
      BY <2>0, <3>1, <3>2
    <3>4. Kept
      BY <2>0, <3>1, <3>3 DEF Kept
    <3>5. Reported(e.key, w.status)
      BY <1>1 DEF SaveWithdrawal, IInv, HandlersAgree, HandlerOK
    <3>6. ASSUME NEW k \in Key, withdrawals'[k] # NoRow
          PROVE  withdrawals'[k].status # "processing" =>
                   \E q \in Callback : /\ logs'[q] # NoRow
                                       /\ request'[q].request \in {k, NoRequest}
                                       /\ request'[q].status = withdrawals'[k].status
      <4>1. CASE k = e.key
        BY <4>1, <3>3, <3>4, <3>5 DEF Kept, Reported
      <4>2. CASE k # e.key
        BY <4>2, <3>3, <3>6, <3>4 DEF Kept, IInv, StatusWasReported, Saved, Reported
      <4> QED BY <4>1, <4>2
    <3>7. StatusWasReported'
      BY <3>6 DEF StatusWasReported, Saved, Reported
    <3> QED BY <3>4, <3>7
  <2>2. CASE ~Savable(c)
    <3>1. UNCHANGED <<tables, request>>
      BY <1>1, <2>2 DEF SaveWithdrawal, Reject
    <3>2. Kept
      BY <3>1 DEF tables, Kept
    <3> QED BY <3>1, <3>2, <1>s DEF tables
  <2> QED BY <2>1, <2>2
<1>2. ASSUME NEW c \in Callback, SaveBalance(c) PROVE Kept /\ StatusWasReported'
  <2>1. LoadedOK(c) /\ request[c].amount \in Nat
    BY <1>2, BodyFields DEF SaveBalance, IInv, HandlersAgree, HandlerOK, InFlight
  <2> DEFINE n == [loaded[c].row EXCEPT !.amount = Debited(@, request[c].amount)]
  <2>2. n \in BalanceRow /\ n.company = loaded[c].row.company /\ n.currency = loaded[c].row.currency
    BY <2>1, DebitedNat DEF LoadedOK, LoadedRow, BalanceRow
  <2>3. /\ balances' = [balances EXCEPT ![loaded[c].id] = n]
        /\ UNCHANGED <<depositTxids, withdrawals, logs, request>>
    BY <1>2 DEF SaveBalance
  <2>4. Kept
    BY <2>1, <2>2, <2>3 DEF Kept, LoadedOK, LoadedRow, IInv, Typed
  <2> QED BY <2>3, <2>4, <1>s
<1>3. ASSUME UNCHANGED <<withdrawals, balances>> PROVE Kept /\ StatusWasReported'
  <2>1. UNCHANGED <<depositTxids, logs, request>> => Kept
    BY <1>3 DEF Kept
  <2>2. ASSUME NEW c \in Callback, NEW b \in Body, Receive(c, b) PROVE Kept
    <3>1. logs[c] = NoRow
      BY <2>2 DEF Receive, IInv, HandlersAgree, HandlerOK
    <3> QED BY <2>2, <3>1 DEF Receive, tables, Kept, IInv, Typed
  <2>3. ASSUME NEW c \in Callback, SaveLog(c) \/ UpdateLog(c) PROVE Kept
    <3>1. /\ UNCHANGED <<depositTxids, request>>
          /\ \A q \in Callback \ {c} : logs'[q] = logs[q]
      BY <2>3 DEF SaveLog, UpdateLog, Reject, tables, IInv, Typed
    <3>2. entity[c].key \in Key \/ SaveLog(c)
      BY <2>3 DEF UpdateLog, IInv, HandlersAgree, HandlerOK, EntityRow
    <3>3. logs'[c] = logs[c] \/ logs'[c] \in LogRow
      BY <2>3, <3>2 DEF SaveLog, UpdateLog, Reject, tables, IInv, Typed, LogRow
    <3>4. \A q \in Callback : logs[q] # NoRow => logs'[q] # NoRow
      BY <3>1, <3>3, RowAssumption
    <3> QED BY <1>3, <3>1, <3>4 DEF Kept
  <2>4. Kept
    BY <1>3, <2>1, <2>2, <2>3
    DEF Next, CalmNext, Step, FindWithdrawal, FindTx, SaveWithdrawal, FindBalance, SaveBalance,
        Refuse, Fail, Reject, Crash, vars, tables
  <2> QED BY <1>3, <2>4, <1>s
<1> QED BY <1>1, <1>2, <1>3, Writers

\* A handler that does not move keeps what it relies on.
LEMMA HandlerStays ==
  ASSUME IInv, Kept, NEW c \in Callback, Untouched(c) PROVE HandlerOK(c)'
<1>1. HandlerOK(c)
  BY DEF IInv, HandlersAgree
<1>2. ASSUME NEW k, SavedFor(c, k) PROVE SavedFor(c, k)'
  BY <1>2 DEF SavedFor, Storable, Untouched, Kept
<1>5. Storable(c)' <=> Storable(c)
  BY DEF Storable, Untouched, Kept
<1>6. Reported(entity[c].key, entity[c].status) => Reported(entity[c].key, entity[c].status)'
  BY DEF Untouched, Reported, Kept
<1>3. LoadedOK(c) => LoadedOK(c)'
  BY DEF LoadedOK, LoadedRow, Untouched, Kept
<1> QED BY <1>1, <1>2, <1>3, <1>5, <1>6 DEF HandlerOK, Untouched

\* Each handler's next await finds what the one before has established.
LEMMA HandlersStep == ASSUME IInv, [Next]_vars PROVE HandlersAgree'
<1>0. Kept /\ HandlersAgree /\ Typed
  BY TablesStep DEF IInv
<1>a. ASSUME NEW c \in Callback, \A q \in Callback \ {c} : Untouched(q), HandlerOK(c)'
      PROVE  HandlersAgree'
  BY <1>a, <1>0, HandlerStays DEF HandlersAgree
<1>b. ASSUME NEW c \in Callback, UNCHANGED <<tables, request, entity, loaded>>,
             \/ Goto(c, "failed") /\ pc[c] # "idle"
             \/ Goto(c, "refused")
      PROVE  HandlersAgree'
  <2>1. HandlerOK(c)' /\ \A q \in Callback \ {c} : Untouched(q)
    BY <1>b, <1>0 DEF Goto, tables, HandlersAgree, HandlerOK, SavedFor, Storable, Untouched, Typed, InFlight
  <2> QED BY <2>1, <1>a
<1> USE DEF Goto, tables, InFlight
<1>1. ASSUME NEW c \in Callback, NEW b \in Body, Receive(c, b) PROVE HandlersAgree'
  <2>1. HandlerOK(c)' /\ \A q \in Callback \ {c} : Untouched(q)
    BY <1>1, <1>0 DEF Receive, HandlersAgree, HandlerOK, Untouched, Typed
  <2> QED BY <2>1, <1>a
<1>2. ASSUME NEW c \in Callback, SaveLog(c) PROVE HandlersAgree'
  <2>1. CASE CompanyRequired
    BY <1>2, <2>1, <1>b DEF SaveLog, Reject
  <2>2. CASE ~CompanyRequired
    <3>1. HandlerOK(c)' /\ \A q \in Callback \ {c} : Untouched(q)
      BY <1>2, <2>2, <1>0 DEF SaveLog, HandlersAgree, HandlerOK, Untouched, Typed, LogRow
    <3> QED BY <3>1, <1>a
  <2> QED BY <2>1, <2>2
<1>3. ASSUME NEW c \in Callback, FindWithdrawal(c) PROVE HandlersAgree'
  <2>1. request[c] \in Body /\ logs[c] \in LogRow /\ logs[c].status = "received"
    BY <1>3, <1>0 DEF FindWithdrawal, HandlersAgree, HandlerOK
  <2>2. PICK e \in Entities(request[c]) :
          entity' = [entity EXCEPT ![c] = [e EXCEPT !.status = Mapped(request[c], @)]]
    BY <1>3 DEF FindWithdrawal
  <2> DEFINE f == [e EXCEPT !.status = Mapped(request[c], @)]
  <2>3. f \in EntityRow /\ request[c].request \in {f.key, NoRequest}
    <3>1. f.key = e.key
      BY <2>1, <1>0, EntitiesTyped DEF EntityRow
    <3> QED BY <1>0, <2>1, <3>1, EntitiesTyped
  <2>4. Reported(f.key, f.status) /\ ~f.attached
    <3>1. CASE Matching(request[c]) = {}
      BY <2>1, <3>1, <2>3, RowAssumption DEF Entities, Created, Mapped, Reported
    <3>2. ASSUME NEW k \in Matching(request[c]),
                 e = [key |-> k, new |-> FALSE, company |-> withdrawals[k].company,
                      status |-> withdrawals[k].status, attached |-> FALSE]
          PROVE  Reported(f.key, f.status) /\ ~f.attached
      <4>1. Reported(k, withdrawals[k].status)
        BY <3>2 DEF IInv, StatusWasReported, Saved, Matching, Reported
      <4>2. f.key = k /\ f.status = Mapped(request[c], withdrawals[k].status) /\ ~f.attached
        BY <3>2
      <4>3. Reported(k, request[c].status)
        BY <2>1, <2>3, <4>2, RowAssumption DEF Reported
      <4> QED BY <4>1, <4>2, <4>3 DEF Mapped
    <3> QED BY <3>1, <3>2 DEF Entities
  <2>5. entity'[c] = f /\ UNCHANGED <<tables, request>>
    BY <1>3, <2>2, <1>0 DEF FindWithdrawal, Typed
  <2> HIDE DEF f
  <2>6. Reported(entity[c].key, entity[c].status)'
    BY <2>4, <2>5 DEF Reported
  <2>7. HandlerOK(c)'
    BY <1>3, <1>0, <2>1, <2>3, <2>4, <2>5, <2>6 DEF FindWithdrawal, HandlerOK, Storable, Typed
  <2>8. \A q \in Callback \ {c} : Untouched(q)
    BY <1>3, <1>0 DEF FindWithdrawal, Untouched, Typed
  <2> QED BY <2>7, <2>8, <1>a
<1>4. ASSUME NEW c \in Callback, FindTx(c) PROVE HandlersAgree'
  <2>1. HandlerOK(c)
    BY <1>0 DEF HandlersAgree
  <2>2. /\ entity'[c] \in EntityRow /\ entity'[c].key = entity[c].key
        /\ entity'[c].status = entity[c].status
        /\ entity'[c].attached = (request[c].txids \cap depositTxids = {})
    BY <1>4, <1>0, <2>1 DEF FindTx, HandlerOK, EntityRow, Typed
  <2>3. Reported(entity[c].key, entity[c].status)'
    BY <1>4, <2>1, <2>2 DEF FindTx, HandlerOK, Reported
  <2>4. HandlerOK(c)'
    BY <1>4, <1>0, <2>1, <2>2, <2>3 DEF FindTx, HandlerOK, SavedFor, Storable, Typed
  <2>5. \A q \in Callback \ {c} : Untouched(q)
    BY <1>4, <1>0 DEF FindTx, Untouched, Typed
  <2> QED BY <2>4, <2>5, <1>a
<1>5. ASSUME NEW c \in Callback, SaveWithdrawal(c) PROVE HandlersAgree'
  <2>1. CASE ~Savable(c)
    BY <1>5, <2>1, <1>b DEF SaveWithdrawal, Reject
  <2>2. CASE Savable(c)
    <3> DEFINE e == entity[c]
    <3>1. HandlerOK(c) /\ e.key \in Key /\ [company |-> e.company, status |-> e.status] \in WithdrawalRow
      BY <1>5, <1>0, SavedRow DEF SaveWithdrawal, EntityRow, HandlersAgree
    <3>2. withdrawals'[e.key] \in WithdrawalRow
      BY <1>5, <2>2, <3>1, <1>0 DEF SaveWithdrawal, Typed
    <3>3. SavedFor(c, e.key)'
      BY <1>5, <2>2, <3>1, <3>2 DEF SaveWithdrawal, Savable, HandlerOK, SavedFor, Storable
    <3>4. logs[c] # NoRow /\ logs[c].status = "processed" => SavedFor(c, logs[c].source)'
      BY <1>5, <2>2, <3>1, <1>0 DEF SaveWithdrawal, HandlerOK, SavedFor, Storable, Kept
    <3>5. HandlerOK(c)'
      BY <1>5, <2>2, <1>0, <3>1, <3>3, <3>4 DEF SaveWithdrawal, HandlerOK, Typed
    <3>6. \A q \in Callback \ {c} : Untouched(q)
      BY <1>5, <2>2, <1>0 DEF SaveWithdrawal, Untouched, Typed
    <3> QED BY <3>5, <3>6, <1>a
  <2> QED BY <2>1, <2>2
<1>6. ASSUME NEW c \in Callback, UpdateLog(c) PROVE HandlersAgree'
  <2>1. HandlerOK(c)
    BY <1>0 DEF HandlersAgree
  <2>2. HandlerOK(c)'
    BY <1>6, <1>0, <2>1 DEF UpdateLog, HandlerOK, SavedFor, Storable, Typed
  <2>3. \A q \in Callback \ {c} : Untouched(q)
    BY <1>6, <1>0 DEF UpdateLog, Untouched, Typed
  <2> QED BY <2>2, <2>3, <1>a
<1>7. ASSUME NEW c \in Callback, FindBalance(c) PROVE HandlersAgree'
  <2>1. HandlerOK(c)
    BY <1>0 DEF HandlersAgree
  <2>2. pc'[c] = "saveBalance" => LoadedOK(c)'
    BY <1>7, <1>0 DEF FindBalance, RowsFor, LoadedOK, LoadedRow, Typed
  <2>3. HandlerOK(c)'
    BY <1>7, <1>0, <2>1, <2>2 DEF FindBalance, HandlerOK, SavedFor, Storable, Typed
  <2>4. \A q \in Callback \ {c} : Untouched(q)
    BY <1>7, <1>0 DEF FindBalance, Untouched, Typed
  <2> QED BY <2>3, <2>4, <1>a
<1>8. ASSUME NEW c \in Callback, SaveBalance(c) PROVE HandlersAgree'
  <2>1. HandlerOK(c)
    BY <1>0 DEF HandlersAgree
  <2>2. HandlerOK(c)'
    BY <1>8, <1>0, <2>1 DEF SaveBalance, HandlerOK, SavedFor, Storable, Typed
  <2>3. \A q \in Callback \ {c} : Untouched(q)
    BY <1>8, <1>0 DEF SaveBalance, Untouched, Typed
  <2> QED BY <2>2, <2>3, <1>a
<1>9. ASSUME NEW c \in Callback, Refuse(c) \/ Fail(c) PROVE HandlersAgree'
  BY <1>9, <1>b DEF Refuse, Fail, Reject
<1>10. CASE Crash
  <2> SUFFICES ASSUME NEW c \in Callback PROVE HandlerOK(c)'
    BY DEF HandlersAgree
  <2>1. CASE pc[c] \in InFlight
    BY <1>10, <2>1, <1>0 DEF Crash, HandlersAgree, HandlerOK, SavedFor, Storable
  <2>2. CASE pc[c] \notin InFlight
    BY <1>10, <2>2, <1>0, HandlerStays DEF Crash, Untouched
  <2> QED BY <2>1, <2>2
<1>11. CASE UNCHANGED vars
  BY <1>11, <1>0, HandlerStays DEF vars, Untouched, HandlersAgree
<1> QED BY <1>1, <1>2, <1>3, <1>4, <1>5, <1>6, <1>7, <1>8, <1>9, <1>10, <1>11
        DEF Next, CalmNext, Step

\* IInv is inductive.
LEMMA Invariance == Spec => []IInv
<1>1. IInv /\ [Next]_vars => IInv'
  BY TypeStep, TablesStep, HandlersStep DEF IInv
<1> QED BY InitOK, <1>1, PTL DEF Spec

-----------------------------------------------------------------------------
\* Type correctness; in particular, no debit takes a balance below zero.
THEOREM TypeCorrect == Spec => []TypeOK
<1>1. Typed => TypeOK
  BY DEF Typed, TypeOK, Saved, BalanceRow, LogRow, EntityRow, LoadedRow
<1> QED BY <1>1, Invariance, PTL DEF IInv

\* However stale the entities written back, a withdrawal on record has a status
\* that a logged callback reported for it, or the one it was created with.
THEOREM Status_WasReported == Spec => []StatusWasReported
  BY Invariance, PTL DEF IInv

\* A log marked processed names a withdrawal on record under its request id, for
\* ever after, and only bodies without children to store come that far.
THEOREM Processed_IsSaved == Spec => []ProcessedIsSaved
<1>1. IInv => ProcessedIsSaved
  BY RowAssumption DEF IInv, HandlersAgree, HandlerOK, SavedFor, Storable, ProcessedIsSaved
<1> QED BY <1>1, Invariance, PTL

\* Only a confirmed callback on record debits, and only its currency.
THEOREM Debit_IsOnRecord == Spec => DebitIsOnRecord
<1> DEFINE OnRecord ==
      \A r \in Row : balances'[r] # balances[r] =>
        \E c \in Callback :
          /\ pc[c] = "saveBalance" /\ pc'[c] = "done"
          /\ request[c].status = "confirmed"
          /\ logs[c].status = "processed"
          /\ withdrawals[logs[c].source] # NoRow
          /\ balances[r].currency = request[c].currency
          /\ balances'[r].company = balances[r].company
<1>1. ASSUME IInv, [Next]_vars PROVE OnRecord
  <2> SUFFICES ASSUME NEW r \in Row, balances'[r] # balances[r]
               PROVE  \E c \in Callback :
                        /\ pc[c] = "saveBalance" /\ pc'[c] = "done"
                        /\ request[c].status = "confirmed"
                        /\ logs[c].status = "processed"
                        /\ withdrawals[logs[c].source] # NoRow
                        /\ balances[r].currency = request[c].currency
                        /\ balances'[r].company = balances[r].company
    OBVIOUS
  <2>1. PICK c \in Callback : SaveBalance(c)
    BY <1>1, Writers DEF SaveWithdrawal, Reject, tables
  <2>2. HandlerOK(c) /\ pc[c] = "saveBalance" /\ pc'[c] = "done"
    BY <1>1, <2>1 DEF SaveBalance, Goto, IInv, HandlersAgree, Typed
  <2>3. r = loaded[c].id
    BY <1>1, <2>1 DEF SaveBalance, IInv, Typed
  <2>4. balances'[r].company = balances[r].company
    BY <1>1, <2>2, <2>3, TablesStep DEF HandlerOK, LoadedOK, Kept
  <2> QED BY <2>2, <2>3, <2>4, RowAssumption DEF HandlerOK, LoadedOK, SavedFor
<1>2. IInv /\ [Next]_vars => [OnRecord]_vars
  BY <1>1
<1> QED BY <1>2, Invariance, PTL DEF Spec, DebitIsOnRecord
==============================================================================
