----------------------- MODULE DepositCallback_proofs -----------------------
(***************************************************************************)
(* What holds of DepositCallback for every set of deliveries, addresses,   *)
(* companies, currencies, transactions and bodies.                         *)
(***************************************************************************)
EXTENDS DepositCallback, FiniteSetTheorems, TLAPS

IInv == TypeOK /\ MemoryAgreesWithTables

\* A body has its fields, and NoBody is none.
LEMMA BodyFields ==
  ASSUME NEW b \in Body
  PROVE  /\ b.address \in Address /\ b.currency \in Currency /\ b.amount \in Nat
         /\ b.txids \in SUBSET Txid /\ b.confirmed \in BOOLEAN /\ b # NoBody
  BY BodyAssumption, NoneAssumption DEF BodyType

\* A balance row has its fields, and NoRow is none.
LEMMA RowFields ==
  ASSUME NEW row \in BalanceRow
  PROVE  /\ row.company \in Company /\ row.currency \in Currency
         /\ row.amount \in Nat /\ row.amount \in 0..MaxBalance
         /\ row.credits \in SUBSET Callback /\ row # NoRow
  BY NoneAssumption, MaxAssumption DEF BalanceRow

\* The empty tables are typed.
LEMMA TypeInit == Init => TypeOK
  BY DEF Init, TypeOK, Stage

-----------------------------------------------------------------------------
\* The entity increaseBalance works on is typed, is found or new, and has the
\* company and currency it was looked up with.
LEMMA CandidateType ==
  ASSUME TypeOK, NEW c \in Callback, owner[c] # NoCompany, request[c] # NoBody,
         NEW e \in Candidates(c)
  PROVE  /\ e \in Entity
         /\ e.row.company = owner[c]
         /\ e.row.currency = request[c].currency
         /\ e.row.credits = {} \/ balances[e.id] = e.row
  <1>1. owner[c] \in Company /\ request[c].currency \in Currency
    BY BodyFields DEF TypeOK
  <1>2. CASE RowsOf(owner[c], request[c].currency) = {}
    BY <1>1, <1>2, MaxAssumption DEF Candidates, BalanceRow, Entity
  <1>3. CASE RowsOf(owner[c], request[c].currency) # {}
    <2>1. PICK r \in RowsOf(owner[c], request[c].currency) :
             e = [id |-> r, row |-> balances[r]]
      BY <1>3 DEF Candidates
    <2>2. r \in Callback /\ balances[r] \in BalanceRow
      BY <2>1 DEF RowsOf, TypeOK
    <2>3. QED BY <2>1, <2>2 DEF RowsOf, Entity
  <1>4. QED BY <1>2, <1>3

\* Every step keeps the types, and with them the width of a balance.
LEMMA TypeStep == IInv /\ [Next]_vars => TypeOK'
  <1> SUFFICES ASSUME IInv, [Next]_vars PROVE TypeOK'
    OBVIOUS
  <1> USE DEF IInv, Stage, InFlight, Answered
  <1>1. ASSUME NEW c \in Callback, NEW b \in Body, Receive(c, b) PROVE TypeOK'
    BY <1>1 DEF Receive, Goto, TypeOK, tables
  <1>2. ASSUME NEW c \in Callback, Refuse(c) PROVE TypeOK'
    BY <1>2 DEF Refuse, Goto, TypeOK, tables
  <1>3. ASSUME NEW c \in Callback, FindAddress(c) PROVE TypeOK'
    <2>1. request[c] \in Body
      BY <1>3 DEF FindAddress, TypeOK, MemoryAgreesWithTables, HandlerOK, Untaken
    <2>2. QED BY <1>3, <2>1, BodyFields DEF FindAddress, Goto, TypeOK, tables
  <1>4. ASSUME NEW c \in Callback, SaveAddress(c) PROVE TypeOK'
    BY <1>4, CompanyAssumption DEF SaveAddress, Goto, Reject, TypeOK, tables
  <1>5. ASSUME NEW c \in Callback, SaveLog(c) PROVE TypeOK'
    BY <1>5 DEF SaveLog, Goto, TypeOK
  <1>6. ASSUME NEW c \in Callback, FindTx(c) PROVE TypeOK'
    BY <1>6 DEF FindTx, Goto, TypeOK, tables
  <1>7. ASSUME NEW c \in Callback, SaveDeposit(c) PROVE TypeOK'
    BY <1>7 DEF SaveDeposit, Goto, Reject, TypeOK, tables
  <1>8. ASSUME NEW c \in Callback, FindBalance(c) PROVE TypeOK'
    <2>1. owner[c] # NoCompany /\ request[c] # NoBody
      BY <1>8 DEF FindBalance, MemoryAgreesWithTables, HandlerOK, Untaken,
                  AfterAddress, AfterLog, AfterDeposit
    <2>2. PICK e \in Candidates(c) : loaded' = [loaded EXCEPT ![c] = e]
      BY <1>8 DEF FindBalance
    <2>3. e \in Entity
      BY <2>1, CandidateType
    <2>4. QED BY <1>8, <2>2, <2>3 DEF FindBalance, Goto, TypeOK, tables
  <1>9. ASSUME NEW c \in Callback, SaveBalance(c) PROVE TypeOK'
    <2>1. loaded[c] \in Entity /\ request[c] \in Body
      BY <1>9 DEF SaveBalance, TypeOK, MemoryAgreesWithTables, HandlerOK, Untaken
    <2> DEFINE row == loaded[c].row
               new == [row EXCEPT !.amount = row.amount + request[c].amount,
                                  !.credits = @ \cup {c}]
    <2>2. row.amount + request[c].amount <= MaxBalance => new \in BalanceRow
      <3>1. row \in BalanceRow /\ request[c].amount \in Nat /\ c \in Callback
        BY <2>1, BodyFields DEF Entity
      <3>2. row.amount + request[c].amount \in Nat
        BY <3>1, RowFields
      <3>3. row.amount + request[c].amount <= MaxBalance
              => row.amount + request[c].amount \in 0..MaxBalance
        BY <3>2, MaxAssumption
      <3>4. row.credits \cup {c} \in SUBSET Callback
        BY <3>1, RowFields
      <3>5. QED BY <3>1, <3>3, <3>4 DEF BalanceRow
    <2>3. CASE row.amount + request[c].amount <= MaxBalance
               /\ balances' = [balances EXCEPT ![loaded[c].id] = new]
               /\ Goto(c, "done")
               /\ UNCHANGED <<addresses, logs, deposits, request, owner, loaded>>
      BY <2>1, <2>2, <2>3 DEF Goto, TypeOK, Entity
    <2>4. CASE Reject(c)
      BY <2>4 DEF Reject, Goto, TypeOK, tables
    <2>5. QED BY <1>9, <2>3, <2>4 DEF SaveBalance
  <1>10. ASSUME NEW c \in Callback, Fail(c) PROVE TypeOK'
    BY <1>10 DEF Fail, Reject, Goto, TypeOK, tables
  <1>11. CASE Crash
    BY <1>11 DEF Crash, TypeOK, tables
  <1>12. CASE UNCHANGED vars
    BY <1>12 DEF TypeOK, vars
  <1>13. QED
    BY <1>1, <1>2, <1>3, <1>4, <1>5, <1>6, <1>7, <1>8, <1>9, <1>10, <1>11, <1>12
    DEF Next, Step, Finished

-----------------------------------------------------------------------------
(* What is written stays written. *)

\* Bodies, log rows, deposit rows and address owners are never changed.
Grows ==
  /\ \A k \in Callback : request[k] # NoBody => request'[k] = request[k]
  /\ \A k \in Callback : logs[k] # NoCompany => logs'[k] = logs[k]
  /\ \A k \in Callback : deposits[k] # NoCompany => deposits'[k] = deposits[k]
  /\ \A a \in Address : addresses[a] # NoCompany => addresses'[a] = addresses[a]

\* No handler takes back what a table holds.
LEMMA GrowsStep == IInv /\ [Next]_vars => Grows
  <1> SUFFICES ASSUME IInv, [Next]_vars PROVE Grows
    OBVIOUS
  <1> USE DEF IInv, Grows
  <1>1. ASSUME NEW c \in Callback, NEW b \in Body, Receive(c, b) PROVE Grows
    BY <1>1 DEF Receive, TypeOK, tables, MemoryAgreesWithTables, HandlerOK, Untaken
  <1>2. ASSUME NEW c \in Callback, SaveAddress(c) PROVE Grows
    BY <1>2 DEF SaveAddress, Reject, TypeOK, tables
  <1>3. ASSUME NEW c \in Callback, SaveLog(c) PROVE Grows
    BY <1>3 DEF SaveLog, TypeOK, tables, MemoryAgreesWithTables, RowsOK
  <1>4. ASSUME NEW c \in Callback, SaveDeposit(c) PROVE Grows
    BY <1>4 DEF SaveDeposit, Reject, TypeOK, tables, MemoryAgreesWithTables, HandlerOK
  <1>5. ASSUME NEW c \in Callback, SaveBalance(c) PROVE Grows
    BY <1>5 DEF SaveBalance, Reject, tables
  <1>6. ASSUME NEW c \in Callback,
               Refuse(c) \/ FindAddress(c) \/ FindTx(c) \/ FindBalance(c) \/ Fail(c)
        PROVE  Grows
    BY <1>6 DEF Refuse, FindAddress, FindTx, FindBalance, Fail, Reject, tables
  <1>7. CASE Crash \/ UNCHANGED vars
    BY <1>7 DEF Crash, tables, vars
  <1>8. QED
    BY <1>1, <1>2, <1>3, <1>4, <1>5, <1>6, <1>7 DEF Next, Step, Finished

\* A row of a delivery that has a log or a deposit has a body.
LEMMA RowsHaveBodies ==
  ASSUME IInv, NEW k \in Callback, logs[k] # NoCompany \/ deposits[k] # NoCompany
  PROVE  request[k] # NoBody /\ logs[k] # NoCompany
  BY DEF IInv, MemoryAgreesWithTables, RowsOK

\* A deposit that is on record stays on record.
LEMMA BackedStays ==
  ASSUME IInv, Grows, NEW c \in Callback, request[c] # NoBody, Backed(c)
  PROVE  Backed(c)'
  <1>1. CASE deposits[c] # NoCompany
    BY <1>1 DEF Grows, Backed, DepositRows
  <1>2. ASSUME NEW t \in request[c].txids, Recorded(t) PROVE Backed(c)'
    <2>1. PICK k \in Callback : deposits[k] # NoCompany /\ t \in request[k].txids
      BY <1>2 DEF Recorded
    <2>2. deposits'[k] # NoCompany /\ request'[k] = request[k] /\ request'[c] = request[c]
      BY <2>1, RowsHaveBodies DEF Grows
    <2>3. QED BY <2>1, <2>2, <1>2 DEF Backed, Recorded
  <1>3. QED BY <1>1, <1>2 DEF Backed, DepositRows

\* A row whose credits are backed stays so, in the table or in a handler.
LEMMA SoundRowStays ==
  ASSUME IInv, Grows, NEW row \in BalanceRow, SoundRow(row)
  PROVE  SoundRow(row)'
  <1> SUFFICES ASSUME NEW c \in row.credits
               PROVE  /\ logs'[c] = row.company
                      /\ request'[c] # NoBody
                      /\ request'[c].currency = row.currency
                      /\ Backed(c)'
    BY DEF SoundRow
  <1>1. c \in Callback /\ row.company # NoCompany
    BY RowFields, CompanyAssumption
  <1>2. /\ logs[c] = row.company /\ request[c] # NoBody
        /\ request[c].currency = row.currency /\ Backed(c)
    BY DEF SoundRow
  <1>3. QED BY <1>1, <1>2, BackedStays DEF Grows

-----------------------------------------------------------------------------
(* The handlers' memory agrees with the tables. *)

\* No handler holds anything at the start.
LEMMA MemoryInit == Init => MemoryAgreesWithTables
  BY DEF Init, MemoryAgreesWithTables, HandlerOK, RowsOK, Untaken, AfterAddress,
         AfterLog, AfterDeposit, OneDepositPerTransaction, DepositRows

\* A step that leaves all tables and the entities in memory alone.
LEMMA RowsOKStays ==
  ASSUME IInv, Grows, TypeOK', NEW c \in Callback,
         logs' = logs, deposits' = deposits, balances' = balances, loaded' = loaded,
         pc'[c] \in Untaken \cup {"findAddress", "saveAddress", "saveLog"} =>
           pc[c] \in Untaken \cup {"findAddress", "saveAddress", "saveLog"}
  PROVE  RowsOK(c)'
  <1>1. RowsOK(c)
    BY DEF IInv, MemoryAgreesWithTables
  <1>2. logs[c] # NoCompany =>
          /\ request'[c] # NoBody
          /\ logs[c] = addresses'[request'[c].address]
    <2> SUFFICES ASSUME logs[c] # NoCompany
                 PROVE  request'[c] # NoBody /\ logs[c] = addresses'[request'[c].address]
      OBVIOUS
    <2>1. request[c] # NoBody /\ logs[c] = addresses[request[c].address]
      BY <1>1 DEF RowsOK
    <2>2. request[c].address \in Address
      BY <2>1, BodyFields DEF IInv, TypeOK
    <2>3. QED BY <2>1, <2>2 DEF Grows
  <1>3. (balances[c] # NoRow => SoundRow(balances[c]))'
    <2>1. balances[c] # NoRow => balances[c] \in BalanceRow
      BY DEF IInv, TypeOK
    <2>2. balances[c] # NoRow => SoundRow(balances[c])
      BY <1>1 DEF RowsOK
    <2>3. QED BY <2>1, <2>2, SoundRowStays DEF SoundRow
  <1>4. (loaded[c] # NoRow => SoundRow(loaded[c].row))'
    <2>1. loaded[c] # NoRow => loaded[c].row \in BalanceRow
      BY DEF IInv, TypeOK, Entity
    <2>2. loaded[c] # NoRow => SoundRow(loaded[c].row)
      BY <1>1 DEF RowsOK
    <2>3. QED BY <2>1, <2>2, SoundRowStays DEF SoundRow
  <1>5. QED BY <1>1, <1>2, <1>3, <1>4 DEF RowsOK, Untaken

\* A step of another handler.
LEMMA HandlerOKStays ==
  ASSUME IInv, Grows, NEW c \in Callback,
         pc'[c] = pc[c], request'[c] = request[c], owner'[c] = owner[c],
         loaded'[c] = loaded[c], deposits'[c] = deposits[c]
  PROVE  HandlerOK(c)'
  <1>1. HandlerOK(c)
    BY DEF IInv, MemoryAgreesWithTables
  <1>2. pc[c] \in AfterAddress =>
          owner[c] # NoCompany /\ owner[c] = addresses'[request[c].address]
    <2> SUFFICES ASSUME pc[c] \in AfterAddress
                 PROVE  owner[c] # NoCompany /\ owner[c] = addresses'[request[c].address]
      OBVIOUS
    <2>1. request[c] # NoBody
      BY <1>1 DEF HandlerOK, Untaken, AfterAddress, AfterLog, AfterDeposit
    <2>2. request[c].address \in Address
      BY <2>1, BodyFields DEF IInv, TypeOK
    <2>3. QED BY <1>1, <2>2 DEF HandlerOK, Grows
  <1>3. pc[c] \in AfterLog \cup {"ignored"} => logs'[c] = owner[c]
    BY <1>1 DEF HandlerOK, Grows, AfterAddress
  <1>4. pc[c] \in AfterDeposit => Backed(c)'
    BY <1>1, BackedStays DEF HandlerOK, Untaken, AfterDeposit
  <1>5. QED BY <1>1, <1>2, <1>3, <1>4 DEF HandlerOK

\* A handler that fails or is lost.
LEMMA HandlerEnds ==
  ASSUME IInv, NEW c \in Callback, pc[c] \in InFlight, pc'[c] \in {"failed", "lost"},
         request'[c] = request[c]
  PROVE  HandlerOK(c)'
  BY DEF IInv, MemoryAgreesWithTables, HandlerOK, Untaken, InFlight, AfterAddress,
         AfterLog, AfterDeposit

\* Steps that write no deposit leave each transaction with one.
LEMMA UniqueStays ==
  ASSUME IInv, Grows, deposits' = deposits
  PROVE  OneDepositPerTransaction'
  <1>1. \A k \in DepositRows : request'[k] = request[k]
    BY RowsHaveBodies DEF DepositRows, Grows
  <1>2. DepositRows' = DepositRows
    BY DEF DepositRows
  <1>3. QED
    BY <1>1, <1>2 DEF IInv, MemoryAgreesWithTables, OneDepositPerTransaction

\* A handler whose query throws, and all others, stay in order.
LEMMA RejectStep ==
  ASSUME IInv, Grows, TypeOK', NEW c \in Callback, pc[c] \in InFlight, Reject(c)
  PROVE  MemoryAgreesWithTables'
  <1> USE DEF Reject, Goto, tables
  <1>1. ASSUME NEW d \in Callback PROVE HandlerOK(d)'
    BY <1>1, HandlerEnds, HandlerOKStays DEF IInv, TypeOK
  <1>2. ASSUME NEW d \in Callback PROVE RowsOK(d)'
    <2>1. pc'[d] \in Untaken \cup {"findAddress", "saveAddress", "saveLog"} =>
            pc[d] \in Untaken \cup {"findAddress", "saveAddress", "saveLog"}
      BY DEF IInv, TypeOK, Untaken
    <2>2. QED BY <2>1, RowsOKStays
  <1>3. QED BY <1>1, <1>2, UniqueStays DEF MemoryAgreesWithTables

\* What handlers remember agrees with the tables after every step.
LEMMA MemoryStep == IInv /\ [Next]_vars => MemoryAgreesWithTables'
  <1> SUFFICES ASSUME IInv, [Next]_vars PROVE MemoryAgreesWithTables'
    OBVIOUS
  <1>t. Grows /\ TypeOK /\ TypeOK'
    BY GrowsStep, TypeStep DEF IInv
  <1>m. \A d \in Callback : HandlerOK(d) /\ RowsOK(d)
    BY DEF IInv, MemoryAgreesWithTables
  <1>1. ASSUME NEW c \in Callback, NEW b \in Body, Receive(c, b)
        PROVE  MemoryAgreesWithTables'
    <2>1. ASSUME NEW d \in Callback PROVE HandlerOK(d)'
      <3>1. CASE d = c
        BY <1>1, <1>t, <3>1, BodyFields DEF Receive, Goto, TypeOK, tables, HandlerOK,
           Untaken, AfterAddress, AfterLog, AfterDeposit
      <3>2. CASE d # c
        BY <1>1, <1>t, <3>2, HandlerOKStays DEF Receive, Goto, TypeOK, tables
      <3>3. QED BY <3>1, <3>2
    <2>2. ASSUME NEW d \in Callback PROVE RowsOK(d)'
      <3>1. pc'[d] \in Untaken \cup {"findAddress", "saveAddress", "saveLog"} =>
              pc[d] \in Untaken \cup {"findAddress", "saveAddress", "saveLog"}
        BY <1>1, <1>t DEF Receive, Goto, TypeOK, Untaken
      <3>2. QED BY <1>1, <1>t, <3>1, RowsOKStays DEF Receive, tables
    <2>3. QED BY <1>1, <1>t, <2>1, <2>2, UniqueStays
          DEF Receive, tables, MemoryAgreesWithTables
  <1>2. ASSUME NEW c \in Callback, Refuse(c) PROVE MemoryAgreesWithTables'
    <2>1. ASSUME NEW d \in Callback PROVE HandlerOK(d)'
      BY <1>2, <1>t, <1>m, HandlerOKStays DEF Refuse, Goto, TypeOK, tables, HandlerOK,
         Untaken, AfterAddress, AfterLog, AfterDeposit
    <2>2. ASSUME NEW d \in Callback PROVE RowsOK(d)'
      <3>1. pc'[d] \in Untaken \cup {"findAddress", "saveAddress", "saveLog"} =>
              pc[d] \in Untaken \cup {"findAddress", "saveAddress", "saveLog"}
        BY <1>2, <1>t DEF Refuse, Goto, TypeOK, Untaken
      <3>2. QED BY <1>2, <1>t, <3>1, RowsOKStays DEF Refuse, tables
    <2>3. QED BY <1>2, <1>t, <2>1, <2>2, UniqueStays
          DEF Refuse, tables, MemoryAgreesWithTables
  <1>3. ASSUME NEW c \in Callback, FindAddress(c) PROVE MemoryAgreesWithTables'
    <2>1. ASSUME NEW d \in Callback PROVE HandlerOK(d)'
      <3>1. CASE d = c
        BY <1>3, <1>t, <1>m, <3>1 DEF FindAddress, Goto, TypeOK, tables, HandlerOK,
           Untaken, AfterAddress, AfterLog, AfterDeposit
      <3>2. CASE d # c
        BY <1>3, <1>t, <3>2, HandlerOKStays DEF FindAddress, Goto, TypeOK, tables
      <3>3. QED BY <3>1, <3>2
    <2>2. ASSUME NEW d \in Callback PROVE RowsOK(d)'
      <3>1. pc'[d] \in Untaken \cup {"findAddress", "saveAddress", "saveLog"} =>
              pc[d] \in Untaken \cup {"findAddress", "saveAddress", "saveLog"}
        BY <1>3, <1>t DEF FindAddress, Goto, TypeOK, Untaken
      <3>2. QED BY <1>3, <1>t, <3>1, RowsOKStays DEF FindAddress, tables
    <2>3. QED BY <1>3, <1>t, <2>1, <2>2, UniqueStays
          DEF FindAddress, tables, MemoryAgreesWithTables
  <1>4. ASSUME NEW c \in Callback, SaveAddress(c) PROVE MemoryAgreesWithTables'
    <2>1. CASE Reject(c)
      BY <1>4, <1>t, <2>1, RejectStep DEF SaveAddress, InFlight
    <2>2. CASE /\ Goto(c, "saveLog")
               /\ addresses[request[c].address] = NoCompany
               /\ addresses' = [addresses EXCEPT ![request[c].address] = DefaultCompany]
               /\ owner' = [owner EXCEPT ![c] = DefaultCompany]
               /\ UNCHANGED <<logs, deposits, balances, request, loaded>>
      <3>0. request[c] # NoBody /\ pc[c] = "saveAddress" /\ request[c].address \in Address
        BY <1>4, <1>t, <1>m, BodyFields DEF SaveAddress, HandlerOK, Untaken, TypeOK
      <3>1. ASSUME NEW d \in Callback PROVE HandlerOK(d)'
        <4>1. CASE d = c
          BY <2>2, <3>0, <1>t, <4>1, CompanyAssumption DEF Goto, TypeOK, HandlerOK,
             Untaken, AfterAddress, AfterLog, AfterDeposit
        <4>2. CASE d # c
          BY <2>2, <1>t, <4>2, HandlerOKStays DEF Goto, TypeOK
        <4>3. QED BY <4>1, <4>2
      <3>2. ASSUME NEW d \in Callback PROVE RowsOK(d)'
        <4>1. pc'[d] \in Untaken \cup {"findAddress", "saveAddress", "saveLog"} =>
                pc[d] \in Untaken \cup {"findAddress", "saveAddress", "saveLog"}
          BY <2>2, <3>0, <1>t DEF Goto, TypeOK, Untaken
        <4>2. QED BY <2>2, <1>t, <4>1, RowsOKStays
      <3>3. QED BY <2>2, <1>t, <3>1, <3>2, UniqueStays DEF MemoryAgreesWithTables
    <2>3. QED BY <1>4, <2>1, <2>2 DEF SaveAddress
  <1>5. ASSUME NEW c \in Callback, SaveLog(c) PROVE MemoryAgreesWithTables'
    <2>0. /\ request[c] # NoBody /\ pc[c] = "saveLog" /\ owner[c] # NoCompany
          /\ owner[c] = addresses[request[c].address]
          /\ logs[c] = NoCompany /\ deposits[c] = NoCompany
      BY <1>5, <1>m DEF SaveLog, HandlerOK, RowsOK, Untaken, AfterAddress
    <2>1. ASSUME NEW d \in Callback PROVE HandlerOK(d)'
      <3>1. CASE d = c
        BY <1>5, <1>t, <2>0, <3>1 DEF SaveLog, Goto, TypeOK, HandlerOK,
           Untaken, AfterAddress, AfterLog, AfterDeposit
      <3>2. CASE d # c
        BY <1>5, <1>t, <3>2, HandlerOKStays DEF SaveLog, Goto, TypeOK
      <3>3. QED BY <3>1, <3>2
    <2>2. ASSUME NEW d \in Callback PROVE RowsOK(d)'
      <3>1. (balances[d] # NoRow => SoundRow(balances[d]))'
        BY <1>5, <1>t, <1>m, SoundRowStays DEF SaveLog, SoundRow, RowsOK, TypeOK, Entity
      <3>2. (loaded[d] # NoRow => SoundRow(loaded[d].row))'
        BY <1>5, <1>t, <1>m, SoundRowStays DEF SaveLog, SoundRow, RowsOK, TypeOK, Entity
      <3>3. CASE d = c
        BY <1>5, <1>t, <2>0, <3>1, <3>2, <3>3 DEF SaveLog, Goto, TypeOK, RowsOK, Untaken
      <3>4. CASE d # c
        BY <1>5, <1>t, <1>m, <3>1, <3>2, <3>4 DEF SaveLog, Goto, TypeOK, RowsOK, Untaken
      <3>5. QED BY <3>3, <3>4
    <2>3. QED BY <1>5, <1>t, <2>1, <2>2, UniqueStays DEF SaveLog, MemoryAgreesWithTables
  <1>6. ASSUME NEW c \in Callback, FindTx(c) PROVE MemoryAgreesWithTables'
    <2>1. ASSUME NEW d \in Callback PROVE HandlerOK(d)'
      <3>1. CASE d = c
        <4>1. pc'[c] = "findBalance" => Backed(c)'
          BY <1>6, <1>t DEF FindTx, Goto, TypeOK, tables, Backed, Recorded
        <4>2. QED
          BY <1>6, <1>t, <1>m, <3>1, <4>1 DEF FindTx, Goto, TypeOK, tables, HandlerOK,
             Untaken, AfterAddress, AfterLog, AfterDeposit
      <3>2. CASE d # c
        BY <1>6, <1>t, <3>2, HandlerOKStays DEF FindTx, Goto, TypeOK, tables
      <3>3. QED BY <3>1, <3>2
    <2>2. ASSUME NEW d \in Callback PROVE RowsOK(d)'
      <3>1. pc'[d] \in Untaken \cup {"findAddress", "saveAddress", "saveLog"} =>
              pc[d] \in Untaken \cup {"findAddress", "saveAddress", "saveLog"}
        BY <1>6, <1>t DEF FindTx, Goto, TypeOK, Untaken
      <3>2. QED BY <1>6, <1>t, <3>1, RowsOKStays DEF FindTx, tables
    <2>3. QED BY <1>6, <1>t, <2>1, <2>2, UniqueStays
          DEF FindTx, tables, MemoryAgreesWithTables
  <1>7. ASSUME NEW c \in Callback, SaveDeposit(c) PROVE MemoryAgreesWithTables'
    <2>1. CASE Reject(c)
      BY <1>7, <1>t, <2>1, RejectStep DEF SaveDeposit, InFlight
    <2>2. CASE /\ \A t \in request[c].txids : ~Recorded(t)
               /\ Goto(c, "findBalance")
               /\ deposits' = [deposits EXCEPT ![c] = owner[c]]
               /\ UNCHANGED <<addresses, logs, balances, request, owner, loaded>>
      <3>0. /\ request[c] # NoBody /\ pc[c] = "saveDeposit" /\ deposits[c] = NoCompany
            /\ owner[c] # NoCompany /\ logs[c] = owner[c]
        BY <1>7, <1>m DEF SaveDeposit, HandlerOK, Untaken, AfterAddress, AfterLog
      <3>1. ASSUME NEW d \in Callback PROVE HandlerOK(d)'
        <4>1. CASE d = c
          <5>1. Backed(c)'
            BY <2>2, <1>t, <3>0 DEF Backed, DepositRows, TypeOK
          <5>2. QED BY <2>2, <1>t, <1>m, <3>0, <4>1, <5>1 DEF Goto, TypeOK, HandlerOK,
                Untaken, AfterAddress, AfterLog, AfterDeposit
        <4>2. CASE d # c
          BY <2>2, <1>t, <4>2, HandlerOKStays DEF Goto, TypeOK
        <4>3. QED BY <4>1, <4>2
      <3>2. ASSUME NEW d \in Callback PROVE RowsOK(d)'
        <4>1. (balances[d] # NoRow => SoundRow(balances[d]))'
          BY <2>2, <1>t, <1>m, SoundRowStays DEF SoundRow, RowsOK, TypeOK, Entity
        <4>2. (loaded[d] # NoRow => SoundRow(loaded[d].row))'
          BY <2>2, <1>t, <1>m, SoundRowStays DEF SoundRow, RowsOK, TypeOK, Entity
        <4>3. QED
          BY <2>2, <1>t, <1>m, <3>0, <4>1, <4>2 DEF Goto, TypeOK, RowsOK, Untaken
      <3>3. OneDepositPerTransaction'
        <4>1. DepositRows' = DepositRows \cup {c}
          BY <2>2, <1>t, <3>0 DEF DepositRows, TypeOK
        <4>2. \A k \in DepositRows : request[k].txids \cap request[c].txids = {}
          BY <2>2 DEF DepositRows, Recorded
        <4>3. QED
          BY <2>2, <4>1, <4>2 DEF IInv, MemoryAgreesWithTables, OneDepositPerTransaction
      <3>4. QED BY <3>1, <3>2, <3>3 DEF MemoryAgreesWithTables
    <2>3. QED BY <1>7, <2>1, <2>2 DEF SaveDeposit
  <1>8. ASSUME NEW c \in Callback, FindBalance(c) PROVE MemoryAgreesWithTables'
    <2>0. request[c] # NoBody /\ pc[c] = "findBalance" /\ owner[c] # NoCompany
      BY <1>8, <1>m DEF FindBalance, HandlerOK, Untaken, AfterAddress, AfterLog, AfterDeposit
    <2>1. PICK e \in Candidates(c) : loaded' = [loaded EXCEPT ![c] = e]
      BY <1>8 DEF FindBalance
    <2>2. /\ e \in Entity
          /\ e.row.company = owner[c] /\ e.row.currency = request[c].currency
          /\ e.row.credits = {} \/ balances[e.id] = e.row
      BY <1>t, <2>0, CandidateType
    <2>3. SoundRow(e.row)
      <3>1. CASE e.row.credits = {}
        BY <3>1 DEF SoundRow
      <3>2. CASE balances[e.id] = e.row
        BY <1>m, <2>2, <3>2, RowFields DEF RowsOK, Entity
      <3>3. QED BY <2>2, <3>1, <3>2
    <2>4. ASSUME NEW d \in Callback PROVE HandlerOK(d)'
      <3>1. CASE d = c
        <4>1. loaded'[c] = e
          BY <1>t, <2>1 DEF TypeOK
        <4>2. loaded'[c] # NoRow
          BY <1>8, <1>t, <2>2, <4>1, NoneAssumption DEF TypeOK
        <4>3. Backed(c)'
          BY <1>8, <1>t, <1>m, <2>0, BackedStays DEF HandlerOK, AfterDeposit
        <4>4. QED
          BY <1>8, <1>t, <1>m, <2>0, <2>2, <3>1, <4>1, <4>2, <4>3
          DEF FindBalance, Goto, TypeOK, tables, HandlerOK,
              Untaken, AfterAddress, AfterLog, AfterDeposit
      <3>2. CASE d # c
        BY <1>8, <1>t, <2>1, <3>2, HandlerOKStays DEF FindBalance, Goto, TypeOK, tables
      <3>3. QED BY <3>1, <3>2
    <2>5. ASSUME NEW d \in Callback PROVE RowsOK(d)'
      <3>1. (balances[d] # NoRow => SoundRow(balances[d]))'
        BY <1>8, <1>t, <1>m, SoundRowStays DEF FindBalance, tables, SoundRow, RowsOK, TypeOK
      <3>2. (loaded[d] # NoRow => SoundRow(loaded[d].row))'
        <4>1. SoundRow(e.row)'
          BY <1>t, <2>2, <2>3, SoundRowStays DEF Entity
        <4>2. CASE d = c
          BY <1>t, <2>1, <4>1, <4>2 DEF SoundRow, TypeOK
        <4>3. CASE d # c
          BY <1>t, <1>m, <2>1, <4>3, SoundRowStays DEF SoundRow, RowsOK, TypeOK, Entity
        <4>4. QED BY <4>2, <4>3
      <3>3. QED
        BY <1>8, <1>t, <1>m, <2>0, <3>1, <3>2
        DEF FindBalance, Goto, tables, TypeOK, RowsOK, Untaken
    <2>6. QED BY <1>8, <1>t, <2>4, <2>5, UniqueStays
          DEF FindBalance, tables, MemoryAgreesWithTables
  <1>9. ASSUME NEW c \in Callback, SaveBalance(c) PROVE MemoryAgreesWithTables'
    <2> DEFINE row == loaded[c].row
               new == [row EXCEPT !.amount = row.amount + request[c].amount,
                                  !.credits = @ \cup {c}]
    <2>0. /\ request[c] # NoBody /\ pc[c] = "saveBalance" /\ logs[c] = owner[c]
          /\ loaded[c] # NoRow /\ row.company = owner[c]
          /\ row.currency = request[c].currency /\ Backed(c)
      BY <1>9, <1>m DEF SaveBalance, HandlerOK, Untaken, AfterLog, AfterDeposit
    <2>1. CASE Reject(c)
      BY <1>9, <1>t, <2>1, RejectStep DEF SaveBalance, InFlight
    <2>2. CASE /\ Goto(c, "done")
               /\ balances' = [balances EXCEPT ![loaded[c].id] = new]
               /\ UNCHANGED <<addresses, logs, deposits, request, owner, loaded>>
      <3>1. ASSUME NEW d \in Callback PROVE HandlerOK(d)'
        <4>1. CASE d = c
          <5>1. Backed(c)'
            BY <1>t, <2>0, BackedStays
          <5>2. QED BY <2>2, <1>t, <1>m, <2>0, <4>1, <5>1 DEF Goto, TypeOK, HandlerOK,
                Untaken, AfterAddress, AfterLog, AfterDeposit
        <4>2. CASE d # c
          BY <2>2, <1>t, <4>2, HandlerOKStays DEF Goto, TypeOK
        <4>3. QED BY <4>1, <4>2
      <3>2. ASSUME NEW d \in Callback PROVE RowsOK(d)'
        <4>0. loaded[c].id \in Callback /\ row \in BalanceRow
          BY <1>t, <2>0 DEF TypeOK, Entity
        <4>1. SoundRow(new)'
          <5>1. SoundRow(row)'
            BY <1>t, <1>m, <2>0, <2>2, <4>0, SoundRowStays DEF RowsOK, SoundRow
          <5>2. /\ new.company = row.company /\ new.currency = row.currency
                /\ new.credits = row.credits \cup {c}
            BY <4>0 DEF BalanceRow
          <5>3. Backed(c)'
            BY <1>t, <2>0, BackedStays
          <5>4. QED BY <2>0, <2>2, <5>1, <5>2, <5>3 DEF SoundRow
        <4>2. (balances[d] # NoRow => SoundRow(balances[d]))'
          <5>1. CASE d = loaded[c].id
            BY <1>t, <2>2, <4>0, <4>1, <5>1 DEF SoundRow, TypeOK
          <5>2. CASE d # loaded[c].id
            BY <1>t, <1>m, <2>2, <5>2, SoundRowStays DEF SoundRow, RowsOK, TypeOK, Entity
          <5>3. QED BY <5>1, <5>2
        <4>3. (loaded[d] # NoRow => SoundRow(loaded[d].row))'
          BY <1>t, <1>m, <2>2, SoundRowStays DEF SoundRow, RowsOK, TypeOK, Entity
        <4>4. QED
          BY <1>t, <1>m, <2>0, <2>2, <4>2, <4>3 DEF Goto, TypeOK, RowsOK, Untaken
      <3>3. QED BY <2>2, <1>t, <3>1, <3>2, UniqueStays DEF MemoryAgreesWithTables
    <2>3. QED BY <1>9, <2>1, <2>2 DEF SaveBalance
  <1>10. ASSUME NEW c \in Callback, Fail(c) PROVE MemoryAgreesWithTables'
    BY <1>10, <1>t, RejectStep DEF Fail
  <1>11. CASE Crash
    <2>1. ASSUME NEW d \in Callback PROVE HandlerOK(d)'
      BY <1>11, <1>t, HandlerEnds, HandlerOKStays DEF Crash, tables, TypeOK
    <2>2. ASSUME NEW d \in Callback PROVE RowsOK(d)'
      <3>1. pc'[d] \in Untaken \cup {"findAddress", "saveAddress", "saveLog"} =>
              pc[d] \in Untaken \cup {"findAddress", "saveAddress", "saveLog"}
        BY <1>11 DEF Crash, Untaken
      <3>2. QED BY <1>11, <1>t, <3>1, RowsOKStays DEF Crash, tables
    <2>3. QED BY <1>11, <1>t, <2>1, <2>2, UniqueStays
          DEF Crash, tables, MemoryAgreesWithTables
  <1>12. CASE UNCHANGED vars
    <2>1. ASSUME NEW d \in Callback PROVE HandlerOK(d)' /\ RowsOK(d)'
      BY <1>12, <1>t, HandlerOKStays, RowsOKStays DEF vars
    <2>2. QED BY <1>12, <1>t, <2>1, UniqueStays DEF vars, MemoryAgreesWithTables
  <1>13. QED
    BY <1>1, <1>2, <1>3, <1>4, <1>5, <1>6, <1>7, <1>8, <1>9, <1>10, <1>11, <1>12
    DEF Next, Step, Finished

-----------------------------------------------------------------------------
(* The invariants of the specification. *)

\* The tables are typed, no balance overflows its column, and what the
\* handlers remember agrees with the tables, in every reachable state.
THEOREM Invariance == Spec => []IInv
  <1>1. Init => IInv
    BY TypeInit, MemoryInit DEF IInv
  <1>2. IInv /\ [Next]_vars => IInv'
    BY TypeStep, MemoryStep DEF IInv
  <1>3. QED BY <1>1, <1>2, PTL DEF Spec

\* Type correctness of the tables and the handlers.
THEOREM TypeCorrect == Spec => []TypeOK
  BY Invariance, PTL DEF IInv

\* A handler's copy of the address and of the balance stays sound between its
\* awaits, whatever the other handlers do.
THEOREM MemoryAgrees == Spec => []MemoryAgreesWithTables
  BY Invariance, PTL DEF IInv

\* handleDepositCallback never books a blockchain transaction twice.
THEOREM TransactionBookedOnce == Spec => []OneDepositPerTransaction
  <1>1. IInv => OneDepositPerTransaction
    BY DEF IInv, MemoryAgreesWithTables
  <1>2. QED BY <1>1, Invariance, PTL

\* What the handlers hold in memory, and write, is one company per callback, and
\* a credit after its deposit.
LEMMA MemoryGivesOneCompany == ASSUME IInv PROVE OneCompanyPerCallback
  <1>1. \A c \in LogRows : logs[c] = addresses[request[c].address]
    BY DEF IInv, MemoryAgreesWithTables, RowsOK, LogRows
  <1>2. \A c \in DepositRows : deposits[c] = logs[c]
    BY DEF IInv, MemoryAgreesWithTables, RowsOK, DepositRows
  <1>3. ASSUME NEW r \in BalanceRows, NEW c \in balances[r].credits
        PROVE  balances[r].company = logs[c] /\ balances[r].currency = request[c].currency
    BY <1>3 DEF IInv, MemoryAgreesWithTables, RowsOK, BalanceRows, SoundRow
  <1>4. QED BY <1>1, <1>2, <1>3 DEF OneCompanyPerCallback

\* Sound rows credit only what has a deposit.
LEMMA MemoryGivesCredit == ASSUME IInv PROVE CreditFollowsDeposit
  BY DEF IInv, MemoryAgreesWithTables, RowsOK, BalanceRows, SoundRow, Backed,
         CreditFollowsDeposit

\* The log, the deposit and the credit of a callback name one company.
THEOREM OneCompany == Spec => []OneCompanyPerCallback
  BY MemoryGivesOneCompany, Invariance, PTL

\* increaseBalance credits only what is on record as a deposit.
THEOREM CreditAfterDeposit == Spec => []CreditFollowsDeposit
  BY MemoryGivesCredit, Invariance, PTL

-----------------------------------------------------------------------------
(* The deposit tables implement the registry of transactions. *)

Booked(t) == IF Recorded(t) THEN deposits[RecordedBy(t)] ELSE NoCompany

\* The deposit a transaction is recorded by is unique.
LEMMA RecordedByUnique ==
  ASSUME IInv, NEW c \in DepositRows, NEW t \in request[c].txids
  PROVE  RecordedBy(t) = c
  <1>1. RecordedBy(t) \in DepositRows /\ t \in request[RecordedBy(t)].txids
    BY DEF RecordedBy
  <1>2. QED
    BY <1>1 DEF IInv, MemoryAgreesWithTables, OneDepositPerTransaction

\* What the registry holds for a transaction is the company of its deposit.
LEMMA BookedValue ==
  ASSUME IInv, NEW t \in Txid
  PROVE  /\ \A c \in DepositRows : t \in request[c].txids => Booked(t) = deposits[c]
         /\ ~Recorded(t) <=> Booked(t) = NoCompany
  <1>1. ASSUME NEW c \in DepositRows, t \in request[c].txids
        PROVE  Booked(t) = deposits[c] /\ Recorded(t)
    BY <1>1, RecordedByUnique DEF Booked, Recorded, DepositRows
  <1>2. Recorded(t) => \E c \in DepositRows : t \in request[c].txids
    BY DEF Recorded, DepositRows
  <1>3. QED BY <1>1, <1>2 DEF Booked, DepositRows

\* A step that leaves the deposits alone books nothing.
LEMMA BookedStays ==
  ASSUME IInv, IInv', Grows, deposits' = deposits, NEW t \in Txid
  PROVE  Booked(t)' = Booked(t)
  <1>1. DepositRows' = DepositRows
    BY DEF DepositRows
  <1>2. \A c \in DepositRows : request'[c] = request[c]
    BY RowsHaveBodies DEF DepositRows, Grows
  <1>3. Recorded(t)' <=> Recorded(t)
    BY <1>1, <1>2 DEF Recorded, DepositRows
  <1>4. CASE Recorded(t)
    <2>1. PICK c \in DepositRows : t \in request[c].txids
      BY <1>4 DEF Recorded, DepositRows
    <2>2. RecordedBy(t) = c
      BY <2>1, RecordedByUnique
    <2>3. RecordedBy(t)' = c
      <3>1. \E d \in DepositRows' : t \in request'[d].txids
        BY <1>1, <1>2, <2>1
      <3>2. RecordedBy(t)' \in DepositRows /\ t \in request'[RecordedBy(t)'].txids
        BY <1>1, <3>1 DEF RecordedBy
      <3>3. QED
        BY <1>2, <2>1, <3>2 DEF IInv, MemoryAgreesWithTables, OneDepositPerTransaction
    <2>4. QED BY <1>3, <1>4, <2>2, <2>3 DEF Booked
  <1>5. CASE ~Recorded(t)
    BY <1>3, <1>5 DEF Booked
  <1>6. QED BY <1>4, <1>5

Books == [t \in Txid |-> Booked(t)]

\* Without deposits the registry is empty.
LEMMA RegistryInit == Init => Registry!RInit
  <1> SUFFICES ASSUME Init PROVE Books = [t \in Txid |-> NoCompany]
    BY DEF Registry!RInit, Books, Booked
  <1>1. \A t \in Txid : ~Recorded(t)
    BY DEF Init, Recorded
  <1>2. QED BY <1>1 DEF Books, Booked

\* Saving a deposit registers its transactions; every other step is a stutter.
LEMMA RegistryStep ==
  IInv /\ IInv' /\ [Next]_vars => (\E T \in SUBSET Txid, k \in Company :
                                     Registry!Register(T, k)) \/ Books' = Books
  <1> SUFFICES ASSUME IInv, IInv', [Next]_vars
               PROVE  (\E T \in SUBSET Txid, k \in Company : Registry!Register(T, k))
                      \/ Books' = Books
    OBVIOUS
  <1>g. Grows
    BY GrowsStep
  <1>1. CASE deposits' = deposits
    <2>1. \A t \in Txid : Booked(t)' = Booked(t)
      BY <1>1, <1>g, BookedStays
    <2>2. QED BY <2>1 DEF Books
  <1>2. ASSUME NEW c \in Callback, SaveDeposit(c), deposits' # deposits
        PROVE  \E T \in SUBSET Txid, k \in Company : Registry!Register(T, k)
    <2>1. /\ \A t \in request[c].txids : ~Recorded(t)
          /\ deposits' = [deposits EXCEPT ![c] = owner[c]]
          /\ request' = request
      BY <1>2 DEF SaveDeposit, Reject, tables
    <2>2. /\ request[c] \in Body /\ deposits[c] = NoCompany
          /\ owner[c] \in Company /\ request[c].txids \in SUBSET Txid
      <3>1. pc[c] = "saveDeposit" /\ HandlerOK(c) /\ TypeOK
        BY <1>2 DEF SaveDeposit, IInv, MemoryAgreesWithTables
      <3>2. QED BY <3>1, BodyFields DEF HandlerOK, TypeOK, Untaken, AfterAddress, AfterLog
    <2>3. DepositRows' = DepositRows \cup {c} /\ deposits'[c] = owner[c]
      BY <2>1, <2>2, CompanyAssumption DEF DepositRows, IInv, TypeOK
    <2>4. \A t \in request[c].txids : Booked(t) = NoCompany
      BY <2>1 DEF Booked
    <2>5. ASSUME NEW t \in Txid
          PROVE  Booked(t)' = IF t \in request[c].txids THEN owner[c] ELSE Booked(t)
      <3>1. (\A d \in DepositRows : t \in request[d].txids => Booked(t) = deposits[d])'
        <4>1. ASSUME NEW d \in DepositRows', t \in request'[d].txids
              PROVE  Booked(t)' = deposits'[d]
          <5>1. RecordedBy(t)' \in DepositRows' /\ t \in request'[RecordedBy(t)'].txids
            BY <4>1 DEF RecordedBy
          <5>2. RecordedBy(t)' = d
            BY <4>1, <5>1 DEF IInv, MemoryAgreesWithTables, OneDepositPerTransaction
          <5>3. Recorded(t)'
            BY <4>1 DEF Recorded, DepositRows
          <5>4. QED BY <5>2, <5>3 DEF Booked
        <4>2. QED BY <4>1
      <3>2. CASE t \in request[c].txids
        BY <2>1, <2>3, <3>1, <3>2
      <3>3. CASE t \notin request[c].txids /\ Recorded(t)
        <4>1. PICK d \in DepositRows : t \in request[d].txids
          BY <3>3 DEF Recorded, DepositRows
        <4>2. Booked(t) = deposits[d]
          BY <4>1, BookedValue
        <4>3. Booked(t)' = deposits'[d] /\ d # c
          BY <2>1, <2>3, <3>1, <3>3, <4>1
        <4>4. QED BY <2>1, <3>3, <4>2, <4>3 DEF IInv, TypeOK
      <3>4. CASE t \notin request[c].txids /\ ~Recorded(t)
        <4>1. ~Recorded(t)'
          BY <2>1, <2>3, <3>4 DEF Recorded, DepositRows
        <4>2. QED BY <3>4, <4>1 DEF Booked
      <3>5. QED BY <3>2, <3>3, <3>4
    <2>6. Books' = [t \in Txid |-> IF t \in request[c].txids THEN owner[c] ELSE Books[t]]
      BY <2>5 DEF Books
    <2>7. Registry!Register(request[c].txids, owner[c])
      BY <2>2, <2>4, <2>6 DEF Registry!Register, Books, Booked
    <2>8. QED BY <2>2, <2>7
  <1>3. deposits' = deposits \/ \E c \in Callback : SaveDeposit(c)
    BY DEF Next, Step, Finished, Receive, Refuse, FindAddress, SaveAddress, SaveLog,
           FindTx, FindBalance, SaveBalance, Fail, Reject, Crash, tables, vars
  <1>4. QED BY <1>1, <1>2, <1>3

\* The deposit tables are a write-once registry of transactions: none is ever
\* booked twice or moved to another company.
THEOREM Refinement == Spec => ImplementsRegistry
  <1>1. IInv /\ IInv' /\ [Next]_vars => [Registry!RNext]_Books
    BY RegistryStep DEF Registry!RNext
  <1>2. QED
    BY <1>1, RegistryInit, Invariance, PTL
    DEF Spec, ImplementsRegistry, Registry!RSpec, Books, Booked

-----------------------------------------------------------------------------
(* Sums over finite sets.  Induction is by a least counterexample: a set     *)
(* of numbers, or of finite sets, that is not empty has a minimal element.   *)

\* Every set of natural numbers that is not empty has a least element.
LEMMA LeastNumber ==
  ASSUME NEW N \in SUBSET Nat, N # {}
  PROVE  \E n \in N : \A m \in N : n <= m
  <1> DEFINE I == {0..n : n \in N}
  <1>1. I \subseteq FiniteSubsetsOf(Nat) /\ I # {}
    <2>1. ASSUME NEW n \in N PROVE 0..n \in SUBSET Nat /\ IsFiniteSet(0..n)
      BY FS_Interval
    <2>2. QED BY <2>1 DEF FiniteSubsetsOf
  <1>2. PICK i \in I : \A j \in I : <<j, i>> \notin StrictSubsetOrdering(Nat)
    BY <1>1, WFMin, FS_StrictSubsetOrderingWellFounded
  <1>3. PICK n \in N : i = 0..n
    BY DEF I
  <1>4. ASSUME NEW m \in N, m < n PROVE FALSE
    <2>1. 0..m \in I /\ 0..m \subseteq 0..n /\ n \in 0..n /\ n \notin 0..m
      BY <1>4
    <2>2. 0..m \in SUBSET Nat /\ 0..n \in SUBSET Nat /\ 0..m # 0..n
      BY <2>1
    <2>3. QED BY <1>2, <1>3, <2>1, <2>2 DEF StrictSubsetOrdering
  <1>5. QED BY <1>4

\* A collection of subsets of a finite set has a minimal member.
LEMMA MinimalSubset ==
  ASSUME NEW S, IsFiniteSet(S), NEW B \in SUBSET (SUBSET S), B # {}
  PROVE  \E T \in B : IsFiniteSet(T) /\ \A U \in B : U \subseteq T => U = T
  <1>1. B \subseteq FiniteSubsetsOf(S)
    BY FS_FiniteSubsetsOfFinite
  <1>2. PICK T \in B : \A U \in B : <<U, T>> \notin StrictSubsetOrdering(S)
    BY <1>1, WFMin, FS_StrictSubsetOrderingWellFounded
  <1>3. QED BY <1>2, FS_Subset DEF StrictSubsetOrdering

\* The function g on D adds up the values of f, as the fold does.
Picked(s)      == CHOOSE x \in s : TRUE
Added(f, g, s) == IF s = {} THEN 0 ELSE f[Picked(s)] + g[s \ {Picked(s)}]
Adds(f, g, D)  == g = [s \in D |-> Added(f, g, s)]

Level(S, n) == {s \in SUBSET S : Cardinality(s) <= n}

\* There is such a function, for the sets of at most n elements, so for all.
LEMMA AddsExists ==
  ASSUME NEW f, NEW S, IsFiniteSet(S)
  PROVE  \E g : Adds(f, g, SUBSET S)
  <1> DEFINE N == {n \in Nat : ~ \E g : Adds(f, g, Level(S, n))}
  <1>0. ASSUME NEW s \in SUBSET S PROVE IsFiniteSet(s) /\ Cardinality(s) \in Nat
    BY FS_Subset, FS_CardinalityType
  <1>1. ASSUME N # {} PROVE FALSE
    <2>1. PICK n \in N : \A m \in N : n <= m
      BY <1>1, LeastNumber
    <2>2. CASE n = 0
      <3>1. Level(S, 0) = {{}}
        BY <1>0, FS_EmptySet DEF Level
      <3>2. Adds(f, [s \in {{}} |-> 0], Level(S, 0))
        BY <3>1 DEF Adds, Added
      <3>3. QED BY <2>1, <2>2, <3>2
    <2>3. CASE n # 0
      <3>1. n - 1 \in Nat /\ n - 1 \notin N
        BY <2>1, <2>3
      <3>2. PICK g : Adds(f, g, Level(S, n - 1))
        BY <3>1
      <3> DEFINE h == [s \in Level(S, n) |-> Added(f, g, s)]
      <3>3. ASSUME NEW s \in Level(S, n) PROVE Added(f, g, s) = Added(f, h, s)
        <4>1. CASE s = {}
          BY <4>1 DEF Added
        <4>2. CASE s # {}
          <5> DEFINE r == s \ {Picked(s)}
          <5>1. Picked(s) \in s
            BY <4>2 DEF Picked
          <5>2. r \in SUBSET S /\ Cardinality(r) = Cardinality(s) - 1
            BY <1>0, <5>1, FS_RemoveElement DEF Level
          <5>3. r \in Level(S, n) /\ r \in Level(S, n - 1)
            BY <1>0, <2>1, <5>2 DEF Level
          <5>4. g[r] = Added(f, g, r) /\ h[r] = Added(f, g, r)
            BY <3>2, <5>3 DEF Adds
          <5> HIDE DEF h, r
          <5>5. QED BY <4>2, <5>4 DEF Added, r
        <4>3. QED BY <4>1, <4>2
      <3>4. h = [s \in Level(S, n) |-> Added(f, g, s)]
        OBVIOUS
      <3> HIDE DEF h
      <3>5. Adds(f, h, Level(S, n))
        BY <3>3, <3>4 DEF Adds
      <3>6. QED BY <2>1, <3>5
    <2>4. QED BY <2>2, <2>3
  <1>2. Level(S, Cardinality(S)) = SUBSET S
    BY <1>0, FS_Subset DEF Level
  <1>3. Cardinality(S) \in Nat
    BY FS_CardinalityType
  <1>4. \E g : Adds(f, g, Level(S, Cardinality(S)))
    BY <1>1, <1>3
  <1>5. QED BY <1>2, <1>4

\* Two functions that add up f agree where both are defined.
LEMMA AddsUnique ==
  ASSUME NEW f, NEW S, NEW T, IsFiniteSet(S), T \subseteq S, NEW g, NEW h,
         Adds(f, g, SUBSET S), Adds(f, h, SUBSET T)
  PROVE  g[T] = h[T]
  <1> DEFINE B == {s \in SUBSET T : g[s] # h[s]}
  <1>1. ASSUME B # {} PROVE FALSE
    <2>1. PICK s \in B : \A u \in B : u \subseteq s => u = s
      <3>1. B \in SUBSET (SUBSET T) /\ IsFiniteSet(T)
        BY FS_Subset
      <3> HIDE DEF B
      <3>2. QED BY <1>1, <3>1, MinimalSubset
    <2>2. g[s] = Added(f, g, s) /\ h[s] = Added(f, h, s)
      BY <2>1 DEF Adds
    <2>3. s # {} => Picked(s) \in s
      BY DEF Picked
    <2>4. QED BY <2>1, <2>2, <2>3 DEF Added
  <1>2. QED BY <1>1

\* What the library's sum is: the value of a function that adds up.
LEMMA SumAdds ==
  ASSUME NEW f, NEW S, IsFiniteSet(S)
  PROVE  \E g : /\ Adds(f, g, SUBSET S)
                /\ \A T \in SUBSET S : SumFunctionOnSet(f, T) = g[T]
  <1> DEFINE it(T) == CHOOSE iter : iter = [s \in SUBSET T |->
                        IF s = {} THEN 0
                        ELSE f[CHOOSE x \in s : TRUE] + iter[s \ {CHOOSE x \in s : TRUE}]]
  <1>1. ASSUME NEW T \in SUBSET S
        PROVE  Adds(f, it(T), SUBSET T) /\ SumFunctionOnSet(f, T) = it(T)[T]
    <2>1. \E g : Adds(f, g, SUBSET T)
      BY FS_Subset, AddsExists
    <2>2. SumFunctionOnSet(f, T) = it(T)[T]
      BY DEF SumFunctionOnSet, FoldFunctionOnSet, MapThenFoldSet
    <2>3. QED BY <2>1, <2>2 DEF Adds, Added, Picked
  <1> HIDE DEF it
  <1>2. Adds(f, it(S), SUBSET S)
    BY <1>1
  <1>3. ASSUME NEW T \in SUBSET S PROVE it(S)[T] = it(T)[T]
    <2>1. Adds(f, it(T), SUBSET T) /\ T \subseteq S
      BY <1>1
    <2>2. QED BY <1>2, <2>1, AddsUnique
  <1>4. QED BY <1>1, <1>2, <1>3

\* The empty sum.
LEMMA SumEmpty ==
  ASSUME NEW f
  PROVE  SumFunctionOnSet(f, {}) = 0
  <1>1. PICK g : Adds(f, g, SUBSET {}) /\ SumFunctionOnSet(f, {}) = g[{}]
    BY SumAdds, FS_EmptySet
  <1>2. QED BY <1>1 DEF Adds, Added

\* Any element may be added last.
LEMMA SumRemove ==
  ASSUME NEW f, NEW S, IsFiniteSet(S), \A x \in S : f[x] \in Int, NEW x \in S
  PROVE  SumFunctionOnSet(f, S) = f[x] + SumFunctionOnSet(f, S \ {x})
  <1>0. PICK g : /\ Adds(f, g, SUBSET S)
                 /\ \A T \in SUBSET S : SumFunctionOnSet(f, T) = g[T]
    BY SumAdds
  <1>a. \A T \in SUBSET S : g[T] = Added(f, g, T)
    BY <1>0 DEF Adds
  <1>i. \A T \in SUBSET S : g[T] \in Int
    <2> DEFINE B == {T \in SUBSET S : g[T] \notin Int}
    <2>1. ASSUME B # {} PROVE FALSE
      <3>1. PICK T \in B : \A U \in B : U \subseteq T => U = T
        <4>1. B \in SUBSET (SUBSET S)
          OBVIOUS
        <4> HIDE DEF B
        <4>2. QED BY <2>1, <4>1, MinimalSubset
      <3>2. T # {} => Picked(T) \in T
        BY DEF Picked
      <3>3. g[T] = Added(f, g, T) /\ g[T] \notin Int /\ T \subseteq S
        BY <3>1, <1>a
      <3>4. T # {} => T \ {Picked(T)} \notin B
        BY <3>1, <3>2
      <3>5. T # {} => g[T \ {Picked(T)}] \in Int
        BY <3>3, <3>4
      <3>6. QED BY <3>2, <3>3, <3>5 DEF Added
    <2>2. QED BY <2>1
  <1> DEFINE B == {T \in SUBSET S : \E y \in T : g[T] # f[y] + g[T \ {y}]}
  <1>1. ASSUME B # {} PROVE FALSE
    <2>1. PICK T \in B : \A U \in B : U \subseteq T => U = T
      <3>1. B \in SUBSET (SUBSET S)
        OBVIOUS
      <3> HIDE DEF B
      <3>2. QED BY <1>1, <3>1, MinimalSubset
    <2>2. PICK y \in T : g[T] # f[y] + g[T \ {y}]
      BY <2>1
    <2> DEFINE p == Picked(T)
    <2>3. p \in T /\ g[T] = f[p] + g[T \ {p}]
      BY <1>a, <2>1, <2>2 DEF Added, Picked
    <2>4. p # y
      BY <2>2, <2>3
    <2> HIDE DEF p
    <2>5. T \ {p} \notin B /\ T \ {y} \notin B
      BY <2>1, <2>2, <2>3
    <2>6. g[T \ {p}] = f[y] + g[(T \ {p}) \ {y}] /\ g[T \ {y}] = f[p] + g[(T \ {y}) \ {p}]
      BY <2>1, <2>2, <2>3, <2>4, <2>5
    <2>7. (T \ {p}) \ {y} = (T \ {y}) \ {p}
      OBVIOUS
    <2>8. f[p] \in Int /\ f[y] \in Int /\ g[(T \ {y}) \ {p}] \in Int
      BY <1>i, <2>1, <2>2, <2>3
    <2> DEFINE rest == g[(T \ {y}) \ {p}]
    <2>9. g[T] = f[p] + (f[y] + rest) /\ f[y] + g[T \ {y}] = f[y] + (f[p] + rest)
      BY <2>3, <2>6, <2>7
    <2> HIDE DEF rest
    <2>10. f[p] + (f[y] + rest) = f[y] + (f[p] + rest)
      BY <2>8 DEF rest
    <2>11. QED BY <2>2, <2>9, <2>10
  <1>2. g[S] = f[x] + g[S \ {x}]
    BY <1>1
  <1>3. QED BY <1>0, <1>2

\* Sums of integers are integers, of naturals naturals.
LEMMA SumType ==
  ASSUME NEW f, NEW S, IsFiniteSet(S), \A x \in S : f[x] \in Nat
  PROVE  SumFunctionOnSet(f, S) \in Nat
  <1> DEFINE B == {T \in SUBSET S : SumFunctionOnSet(f, T) \notin Nat}
  <1>1. ASSUME B # {} PROVE FALSE
    <2>1. PICK T \in B : IsFiniteSet(T) /\ \A U \in B : U \subseteq T => U = T
      <3>1. B \in SUBSET (SUBSET S)
        OBVIOUS
      <3> HIDE DEF B
      <3>2. QED BY <1>1, <3>1, MinimalSubset
    <2>2. PICK x \in T : TRUE
      <3>1. SumFunctionOnSet(f, {}) = 0
        BY SumEmpty
      <3>2. QED BY <2>1, <3>1
    <2>3. SumFunctionOnSet(f, T) = f[x] + SumFunctionOnSet(f, T \ {x})
      BY <2>1, <2>2, SumRemove
    <2>4. SumFunctionOnSet(f, T \ {x}) \in Nat
      BY <2>1, <2>2
    <2>5. QED BY <2>1, <2>2, <2>3, <2>4
  <1>2. QED BY <1>1

\* A sum grows with each of its terms.
LEMMA SumLess ==
  ASSUME NEW f, NEW g, NEW S, IsFiniteSet(S),
         \A x \in S : f[x] \in Nat /\ g[x] \in Nat /\ f[x] <= g[x]
  PROVE  SumFunctionOnSet(f, S) <= SumFunctionOnSet(g, S)
  <1> DEFINE B == {T \in SUBSET S : ~(SumFunctionOnSet(f, T) <= SumFunctionOnSet(g, T))}
  <1>1. ASSUME B # {} PROVE FALSE
    <2>1. PICK T \in B : IsFiniteSet(T) /\ \A U \in B : U \subseteq T => U = T
      <3>1. B \in SUBSET (SUBSET S)
        OBVIOUS
      <3> HIDE DEF B
      <3>2. QED BY <1>1, <3>1, MinimalSubset
    <2>2. PICK x \in T : TRUE
      <3> SUFFICES ASSUME T = {} PROVE FALSE
        OBVIOUS
      <3>1. SumFunctionOnSet(f, T) = 0 /\ SumFunctionOnSet(g, T) = 0
        BY SumEmpty
      <3>2. SumFunctionOnSet(f, T) <= SumFunctionOnSet(g, T)
        BY <3>1
      <3>3. QED BY <2>1, <3>2
    <2>3. /\ SumFunctionOnSet(f, T) = f[x] + SumFunctionOnSet(f, T \ {x})
          /\ SumFunctionOnSet(g, T) = g[x] + SumFunctionOnSet(g, T \ {x})
      BY <2>1, <2>2, SumRemove
    <2>4. SumFunctionOnSet(f, T \ {x}) <= SumFunctionOnSet(g, T \ {x})
      BY <2>1, <2>2
    <2>5. /\ SumFunctionOnSet(f, T \ {x}) \in Nat /\ SumFunctionOnSet(g, T \ {x}) \in Nat
          /\ f[x] \in Nat /\ g[x] \in Nat /\ f[x] <= g[x]
      BY <2>1, <2>2, FS_RemoveElement, SumType
    <2>6. QED BY <2>1, <2>2, <2>3, <2>4, <2>5
  <1>2. QED BY <1>1

\* Functions that agree on a set have the same sum over it.
LEMMA SumEqual ==
  ASSUME NEW f, NEW g, NEW S, IsFiniteSet(S), \A x \in S : f[x] = g[x] /\ f[x] \in Nat
  PROVE  SumFunctionOnSet(f, S) = SumFunctionOnSet(g, S)
  <1>1. /\ SumFunctionOnSet(f, S) <= SumFunctionOnSet(g, S)
        /\ SumFunctionOnSet(g, S) <= SumFunctionOnSet(f, S)
    BY SumLess
  <1>2. SumFunctionOnSet(f, S) \in Nat /\ SumFunctionOnSet(g, S) \in Nat
    BY SumType
  <1>3. QED BY <1>1, <1>2

\* The sum over two sets without a common element.
LEMMA SumUnion ==
  ASSUME NEW f, NEW S, NEW T, IsFiniteSet(S), IsFiniteSet(T), S \cap T = {},
         \A x \in S \cup T : f[x] \in Nat
  PROVE  SumFunctionOnSet(f, S \cup T) = SumFunctionOnSet(f, S) + SumFunctionOnSet(f, T)
  <1> DEFINE B == {U \in SUBSET T : SumFunctionOnSet(f, S \cup U) #
                                      SumFunctionOnSet(f, S) + SumFunctionOnSet(f, U)}
  <1>1. ASSUME B # {} PROVE FALSE
    <2>1. PICK U \in B : IsFiniteSet(U) /\ \A V \in B : V \subseteq U => V = U
      <3>1. B \in SUBSET (SUBSET T)
        OBVIOUS
      <3> HIDE DEF B
      <3>2. QED BY <1>1, <3>1, MinimalSubset
    <2>2. U # {}
      <3> SUFFICES ASSUME U = {} PROVE FALSE
        OBVIOUS
      <3>1. SumFunctionOnSet(f, U) = 0 /\ SumFunctionOnSet(f, S) \in Nat
        BY SumEmpty, SumType
      <3>2. S \cup U = S
        OBVIOUS
      <3>3. SumFunctionOnSet(f, S \cup U) = SumFunctionOnSet(f, S) + SumFunctionOnSet(f, U)
        BY <3>1, <3>2
      <3>4. QED BY <2>1, <3>3
    <2>3. PICK x \in U : TRUE
      BY <2>2
    <2>4. SumFunctionOnSet(f, U) = f[x] + SumFunctionOnSet(f, U \ {x})
      BY <2>1, <2>3, SumRemove
    <2>5. IsFiniteSet(S \cup U) /\ (S \cup U) \ {x} = S \cup (U \ {x})
      BY <2>1, <2>3, FS_Union
    <2>6. SumFunctionOnSet(f, S \cup U) = f[x] + SumFunctionOnSet(f, S \cup (U \ {x}))
      BY <2>1, <2>3, <2>5, SumRemove
    <2>7. SumFunctionOnSet(f, S \cup (U \ {x})) =
            SumFunctionOnSet(f, S) + SumFunctionOnSet(f, U \ {x})
      BY <2>1, <2>3
    <2>8. SumFunctionOnSet(f, S) \in Nat /\ SumFunctionOnSet(f, U \ {x}) \in Nat
          /\ f[x] \in Nat
      BY <2>1, <2>3, FS_RemoveElement, SumType
    <2>9. QED BY <2>1, <2>4, <2>6, <2>7, <2>8
  <1>2. QED BY <1>1

\* A larger set has no smaller sum.
LEMMA SumMonotone ==
  ASSUME NEW f, NEW S, NEW T, IsFiniteSet(T), S \subseteq T, \A x \in T : f[x] \in Nat
  PROVE  SumFunctionOnSet(f, S) <= SumFunctionOnSet(f, T)
  <1>1. IsFiniteSet(S) /\ IsFiniteSet(T \ S) /\ S \cup (T \ S) = T
    BY FS_Subset
  <1>2. SumFunctionOnSet(f, T) = SumFunctionOnSet(f, S) + SumFunctionOnSet(f, T \ S)
    BY <1>1, SumUnion
  <1>3. SumFunctionOnSet(f, S) \in Nat /\ SumFunctionOnSet(f, T \ S) \in Nat
    BY <1>1, SumType
  <1>4. QED BY <1>2, <1>3

\* Adding up sums over sets without common elements.
LEMMA SumOfSums ==
  ASSUME NEW f, NEW U, IsFiniteSet(U), \A x \in U : f[x] \in Nat,
         NEW R, IsFiniteSet(R), NEW b, NEW C,
         \A r \in R : C[r] \subseteq U /\ b[r] = SumFunctionOnSet(f, C[r]),
         \A r, q \in R : r # q => C[r] \cap C[q] = {}
  PROVE  SumFunctionOnSet(b, R) = SumFunctionOnSet(f, UNION {C[r] : r \in R})
  <1> DEFINE All(Q) == UNION {C[r] : r \in Q}
             B == {Q \in SUBSET R : SumFunctionOnSet(b, Q) # SumFunctionOnSet(f, All(Q))}
  <1>0. \A r \in R : b[r] \in Nat
    <2>1. ASSUME NEW r \in R PROVE SumFunctionOnSet(f, C[r]) \in Nat
      BY FS_Subset, SumType
    <2>2. QED BY <2>1
  <1>1. ASSUME B # {} PROVE FALSE
    <2>1. PICK Q \in B : IsFiniteSet(Q) /\ \A P \in B : P \subseteq Q => P = Q
      <3>1. B \in SUBSET (SUBSET R)
        OBVIOUS
      <3> HIDE DEF B
      <3>2. QED BY <1>1, <3>1, MinimalSubset
    <2>2. Q # {}
      <3> SUFFICES ASSUME Q = {} PROVE FALSE
        OBVIOUS
      <3>1. All(Q) = {}
        OBVIOUS
      <3>2. SumFunctionOnSet(b, Q) = 0 /\ SumFunctionOnSet(f, All(Q)) = 0
        BY <3>1, SumEmpty
      <3>3. QED BY <2>1, <3>2
    <2>3. PICK r \in Q : TRUE
      BY <2>2
    <2>4. SumFunctionOnSet(b, Q) = b[r] + SumFunctionOnSet(b, Q \ {r})
      BY <1>0, <2>1, <2>3, SumRemove
    <2>5. SumFunctionOnSet(b, Q \ {r}) = SumFunctionOnSet(f, All(Q \ {r}))
      BY <2>1, <2>3
    <2>6. /\ All(Q) = C[r] \cup All(Q \ {r}) /\ C[r] \cap All(Q \ {r}) = {}
          /\ C[r] \subseteq U /\ All(Q \ {r}) \subseteq U
      BY <2>1, <2>3
    <2> HIDE DEF All, B
    <2>7. SumFunctionOnSet(f, All(Q)) =
            SumFunctionOnSet(f, C[r]) + SumFunctionOnSet(f, All(Q \ {r}))
      <3>1. IsFiniteSet(C[r]) /\ IsFiniteSet(All(Q \ {r}))
        BY <2>6, FS_Subset
      <3>2. \A x \in C[r] \cup All(Q \ {r}) : f[x] \in Nat
        BY <2>6
      <3> DEFINE D == C[r]
                 A == All(Q \ {r})
      <3>3. D \cap A = {} /\ IsFiniteSet(D) /\ IsFiniteSet(A) /\ \A x \in D \cup A : f[x] \in Nat
        BY <2>6, <3>1, <3>2
      <3> HIDE DEF D, A
      <3>4. SumFunctionOnSet(f, D \cup A) = SumFunctionOnSet(f, D) + SumFunctionOnSet(f, A)
        BY <3>3, SumUnion
      <3>5. QED BY <2>6, <3>4 DEF D, A
    <2>8. QED BY <2>1, <2>3, <2>4, <2>5, <2>7 DEF B
  <1>2. QED BY <1>1

-----------------------------------------------------------------------------
(* The ledger: what the rows of table balances and their copies in memory    *)
(* hold is covered by the deliveries credited to them.                       *)

\* Deliveries that have reached the server.
Taken == {c \in Callback : pc[c] # "idle"}

\* A row named r, in the table or in memory, holds no more than its credits,
\* which are complete, and were all made to the row of that name.
CopyOK(r, row) ==
  /\ r \in Taken
  /\ row.amount <= AmountOf(row.credits)
  /\ \A c \in row.credits : pc[c] = "done" /\ loaded[c] # NoRow /\ loaded[c].id = r

LedgerOK(c) ==
  /\ pc[c] \in {"findTx", "saveDeposit"} \cup AfterDeposit => request[c].confirmed
  /\ balances[c] # NoRow => CopyOK(c, balances[c])
  /\ loaded[c] # NoRow => CopyOK(loaded[c].id, loaded[c].row)

Ledger == IsFiniteSet(Taken) /\ \A c \in Callback : LedgerOK(c)

\* Deliveries are taken for good, and a complete one is left alone.
Later == /\ Taken \subseteq Taken'
         /\ \A c \in Callback : pc[c] = "done" =>
              pc'[c] = "done" /\ request'[c] = request[c] /\ loaded'[c] = loaded[c]

\* What a set of deliveries received is a natural number, 0 for none, and grows
\* by what a further delivery received.
LEMMA AmountOfSet ==
  ASSUME TypeOK, NEW S \in SUBSET Callback, IsFiniteSet(S),
         \A c \in S : request[c] # NoBody
  PROVE  /\ AmountOf(S) \in Nat
         /\ AmountOf({}) = 0
         /\ \A c \in Callback \ S : request[c] # NoBody =>
              AmountOf(S \cup {c}) = AmountOf(S) + request[c].amount
  <1> DEFINE f(T) == [d \in T |-> request[d].amount]
  <1>1. \A T : AmountOf(T) = SumFunctionOnSet(f(T), T)
    BY DEF AmountOf, SumFunction
  <1>2. \A c \in Callback : request[c] # NoBody => request[c].amount \in Nat
    BY BodyFields DEF TypeOK
  <1>3. SumFunctionOnSet(f(S), S) \in Nat
    BY <1>2, SumType
  <1>4. SumFunctionOnSet(f({}), {}) = 0
    BY SumEmpty
  <1>5. ASSUME NEW c \in Callback \ S, request[c] # NoBody
        PROVE  AmountOf(S \cup {c}) = AmountOf(S) + request[c].amount
    <2> DEFINE T == S \cup {c}
               g == f(T)
    <2>1. IsFiniteSet(T) /\ \A d \in T : g[d] = request[d].amount /\ g[d] \in Nat
      BY <1>2, <1>5, FS_AddElement
    <2>2. T \ {c} = S /\ c \in T
      BY <1>5
    <2>3. \A d \in S : g[d] = f(S)[d] /\ g[d] \in Nat
      BY <2>1
    <2> HIDE DEF g, T
    <2>4. SumFunctionOnSet(g, T) = g[c] + SumFunctionOnSet(g, T \ {c})
      BY <2>1, <2>2, SumRemove
    <2> DEFINE h == f(S)
    <2>5. \A d \in S : g[d] = h[d] /\ g[d] \in Nat
      BY <2>3
    <2> HIDE DEF h
    <2>6. SumFunctionOnSet(g, S) = SumFunctionOnSet(h, S)
      BY <2>5, SumEqual
    <2>7. AmountOf(T) = g[c] + SumFunctionOnSet(h, S)
      BY <1>1, <2>2, <2>4, <2>6 DEF g
    <2>8. AmountOf(S) = SumFunctionOnSet(h, S) /\ SumFunctionOnSet(h, S) \in Nat
      BY <1>1, <1>3 DEF h
    <2>9. QED BY <2>1, <2>2, <2>7, <2>8 DEF T
  <1>6. QED BY <1>1, <1>3, <1>4, <1>5

\* A complete delivery has a body, and complete deliveries are finitely many.
LEMMA DoneHaveBodies ==
  ASSUME IInv, IsFiniteSet(Taken), NEW S \in SUBSET Callback, \A c \in S : pc[c] = "done"
  PROVE  IsFiniteSet(S) /\ \A c \in S : request[c] # NoBody /\ request[c] \in Body
  <1>1. S \subseteq Taken
    BY DEF Taken
  <1>2. \A c \in S : request[c] # NoBody
    BY DEF IInv, MemoryAgreesWithTables, HandlerOK, Untaken
  <1>3. QED BY <1>1, <1>2, FS_Subset DEF IInv, TypeOK

\* An empty ledger is sound.
LEMMA LedgerInit == Init => Ledger
  <1> SUFFICES ASSUME Init PROVE Ledger
    OBVIOUS
  <1>1. Taken = {}
    BY DEF Init, Taken
  <1>2. QED BY <1>1, FS_EmptySet DEF Init, Ledger, LedgerOK, AfterDeposit

\* A handler that has a body keeps it, and goes on only.
LEMMA LaterStep == IInv /\ [Next]_vars => Later
  <1> SUFFICES ASSUME IInv, [Next]_vars PROVE Later
    OBVIOUS
  <1> USE DEF IInv, TypeOK, Later, Taken, Goto
  <1>1. ASSUME NEW c \in Callback, NEW b \in Body, Receive(c, b) PROVE Later
    BY <1>1 DEF Receive
  <1>2. ASSUME NEW c \in Callback, Refuse(c) PROVE Later
    BY <1>2 DEF Refuse
  <1>3. ASSUME NEW c \in Callback, Step(c) PROVE Later
    BY <1>3 DEF Step, FindAddress, SaveAddress, SaveLog, FindTx, SaveDeposit, FindBalance,
                SaveBalance, Reject
  <1>4. ASSUME NEW c \in Callback, Fail(c) PROVE Later
    BY <1>4 DEF Fail, Reject, InFlight
  <1>5. CASE Crash
    BY <1>5 DEF Crash, InFlight
  <1>6. CASE UNCHANGED vars
    BY <1>6 DEF vars
  <1>7. QED BY <1>1, <1>2, <1>3, <1>4, <1>5, <1>6 DEF Next, Finished

\* Only finitely many deliveries have arrived at any time.
LEMMA TakenStep == ASSUME TypeOK, [Next]_vars, IsFiniteSet(Taken) PROVE IsFiniteSet(Taken')
  <1>1. \E c : Taken' \subseteq Taken \cup {c}
    <2> USE DEF TypeOK, Taken, Goto
    <2>1. ASSUME NEW c \in Callback,
                 Step(c) \/ Fail(c) \/ Refuse(c) \/ \E b \in Body : Receive(c, b)
          PROVE  Taken' \subseteq Taken \cup {c}
      BY <2>1 DEF Receive, Refuse, Fail, Step, FindAddress, SaveAddress, SaveLog, FindTx,
                  SaveDeposit, FindBalance, SaveBalance, Reject
    <2>2. CASE Crash \/ UNCHANGED vars
      BY <2>2 DEF Crash, vars, InFlight
    <2>3. QED BY <2>1, <2>2 DEF Next, Finished
  <1>2. QED BY <1>1, FS_AddElement, FS_Subset

\* A copy that was covered stays so.
LEMMA CopyStays ==
  ASSUME TypeOK, Later, NEW r, NEW row \in BalanceRow, CopyOK(r, row)
  PROVE  CopyOK(r, row)'
  <1>1. \A c \in row.credits : c \in Callback /\ pc[c] = "done"
    BY RowFields DEF CopyOK
  <1>2. \A c \in row.credits : request'[c] = request[c] /\ loaded'[c] = loaded[c] /\ pc'[c] = "done"
    BY <1>1 DEF Later
  <1>3. AmountOf(row.credits)' = AmountOf(row.credits)
    <2>1. [c \in row.credits |-> request[c].amount]' = [c \in row.credits |-> request[c].amount]
      BY <1>2
    <2>2. QED BY <2>1 DEF AmountOf, SumFunction
  <1>4. QED BY <1>2, <1>3 DEF CopyOK, Later

\* A step that touches neither the balances nor the copies in memory.
LEMMA LedgerStays ==
  ASSUME TypeOK, Later, Ledger, IsFiniteSet(Taken'), balances' = balances, loaded' = loaded,
         \A c \in Callback : pc'[c] \in {"findTx", "saveDeposit"} \cup AfterDeposit =>
           request'[c].confirmed
  PROVE  Ledger'
  <1> SUFFICES ASSUME NEW c \in Callback PROVE LedgerOK(c)'
    BY DEF Ledger
  <1>1. LedgerOK(c) /\ (balances[c] # NoRow => balances[c] \in BalanceRow)
                    /\ (loaded[c] # NoRow => loaded[c].row \in BalanceRow)
    BY DEF Ledger, TypeOK, Entity
  <1>2. (balances[c] # NoRow => CopyOK(c, balances[c]))'
    BY <1>1, CopyStays DEF LedgerOK, CopyOK
  <1>3. (loaded[c] # NoRow => CopyOK(loaded[c].id, loaded[c].row))'
    BY <1>1, CopyStays DEF LedgerOK, CopyOK
  <1>4. QED BY <1>2, <1>3 DEF LedgerOK

\* Every step keeps the ledger: SaveBalance is the one that writes it.
LEMMA LedgerStep == IInv /\ IInv' /\ Ledger /\ [Next]_vars => Ledger'
  <1> SUFFICES ASSUME IInv, IInv', Ledger, [Next]_vars PROVE Ledger'
    OBVIOUS
  <1>t. TypeOK /\ Later /\ IsFiniteSet(Taken) /\ IsFiniteSet(Taken')
    BY LaterStep, TakenStep DEF IInv, Ledger
  <1>c. \A c \in Callback : pc[c] \in {"findTx", "saveDeposit"} \cup AfterDeposit =>
           request[c].confirmed
    BY DEF Ledger, LedgerOK
  <1>m. \A c \in Callback : HandlerOK(c)
    BY DEF IInv, MemoryAgreesWithTables
  <1>1. ASSUME NEW c \in Callback, NEW b \in Body, Receive(c, b) PROVE Ledger'
    BY <1>1, <1>t, <1>c, LedgerStays DEF Receive, Goto, tables, TypeOK, AfterDeposit
  <1>2. ASSUME NEW c \in Callback,
               \/ Refuse(c) \/ FindAddress(c) \/ SaveAddress(c) \/ SaveLog(c)
               \/ FindTx(c) \/ SaveDeposit(c) \/ Fail(c)
        PROVE  Ledger'
    <2>1. /\ balances' = balances /\ loaded' = loaded /\ request' = request
          /\ \A d \in Callback : pc'[d] \in {"findTx", "saveDeposit"} \cup AfterDeposit =>
               request[d].confirmed
      BY <1>2, <1>t, <1>c DEF Refuse, FindAddress, SaveAddress, SaveLog, FindTx, SaveDeposit,
         Fail, Reject, Goto, tables, TypeOK, AfterDeposit
    <2>2. QED BY <2>1, <1>t, LedgerStays
  <1>3. ASSUME NEW c \in Callback, FindBalance(c) PROVE Ledger'
    <2>0. /\ pc[c] = "findBalance" /\ request[c] # NoBody /\ owner[c] # NoCompany
          /\ request' = request /\ balances' = balances /\ pc' = [pc EXCEPT ![c] = "saveBalance"]
      BY <1>3, <1>m DEF FindBalance, HandlerOK, Untaken, AfterAddress, AfterLog, AfterDeposit,
         Goto, tables
    <2>1. PICK e \in Candidates(c) : loaded' = [loaded EXCEPT ![c] = e]
      BY <1>3 DEF FindBalance
    <2>2. e \in Entity
      BY <1>t, <2>0, CandidateType
    <2>3. CopyOK(e.id, e.row)
      <3>1. CASE RowsOf(owner[c], request[c].currency) = {}
        <4>1. e.id = c /\ e.row.amount = 0 /\ e.row.credits = {}
          BY <3>1 DEF Candidates
        <4>2. AmountOf({}) = 0
          BY <1>t, AmountOfSet, FS_EmptySet
        <4>3. QED BY <2>0, <4>1, <4>2 DEF CopyOK, Taken
      <3>2. CASE RowsOf(owner[c], request[c].currency) # {}
        <4>1. PICK r \in RowsOf(owner[c], request[c].currency) :
                 e = [id |-> r, row |-> balances[r]]
          BY <3>2 DEF Candidates
        <4>2. QED BY <4>1 DEF RowsOf, Ledger, LedgerOK
      <3>3. QED BY <3>1, <3>2
    <2>4. CopyOK(e.id, e.row)'
      BY <1>t, <2>2, <2>3, CopyStays DEF Entity
    <2>5. ASSUME NEW d \in Callback PROVE LedgerOK(d)'
      <3>1. LedgerOK(d) /\ (balances[d] # NoRow => balances[d] \in BalanceRow)
                        /\ (loaded[d] # NoRow => loaded[d].row \in BalanceRow)
        BY <1>t DEF Ledger, TypeOK, Entity
      <3>2. (balances[d] # NoRow => CopyOK(d, balances[d]))'
        BY <2>0, <3>1, <1>t, CopyStays DEF LedgerOK, CopyOK
      <3>3. (loaded[d] # NoRow => CopyOK(loaded[d].id, loaded[d].row))'
        <4>1. CASE d = c
          BY <1>t, <2>1, <2>4, <4>1 DEF TypeOK, CopyOK
        <4>2. CASE d # c
          BY <1>t, <2>1, <3>1, <4>2, CopyStays DEF TypeOK, LedgerOK, CopyOK
        <4>3. QED BY <4>1, <4>2
      <3>4. QED BY <2>0, <3>2, <3>3, <1>t, <1>c DEF LedgerOK, TypeOK, AfterDeposit
    <2>6. QED BY <1>t, <2>5 DEF Ledger
  <1>4. ASSUME NEW c \in Callback, SaveBalance(c) PROVE Ledger'
    <2> DEFINE row == loaded[c].row
               r   == loaded[c].id
               new == [row EXCEPT !.amount = row.amount + request[c].amount,
                                  !.credits = @ \cup {c}]
    <2>0. /\ pc[c] = "saveBalance" /\ request[c] # NoBody /\ loaded[c] # NoRow
          /\ row \in BalanceRow /\ r \in Callback /\ CopyOK(r, row) /\ request[c].confirmed
      BY <1>4, <1>m, <1>t DEF SaveBalance, HandlerOK, Untaken, TypeOK, Entity, Ledger,
         LedgerOK, AfterDeposit
    <2>1. CASE Reject(c)
      BY <2>0, <2>1, <1>t, <1>c, LedgerStays DEF Reject, Goto, tables, TypeOK, AfterDeposit
    <2>2. CASE /\ Goto(c, "done")
               /\ balances' = [balances EXCEPT ![r] = new]
               /\ UNCHANGED <<addresses, logs, deposits, request, owner, loaded>>
      <3>1. /\ new.amount = row.amount + request[c].amount
            /\ new.credits = row.credits \cup {c}
        BY <2>0 DEF BalanceRow
      <3>2. CopyOK(r, new)'
        <4>1. c \notin row.credits /\ \A d \in row.credits : pc[d] = "done"
          BY <2>0 DEF CopyOK
        <4>2. IsFiniteSet(row.credits) /\ \A d \in row.credits : request[d] # NoBody
          BY <1>t, <2>0, <4>1, RowFields, DoneHaveBodies
        <4>3. /\ AmountOf(row.credits) \in Nat
              /\ AmountOf(row.credits \cup {c}) = AmountOf(row.credits) + request[c].amount
          BY <1>t, <2>0, <4>1, <4>2, RowFields, AmountOfSet
        <4>4. row.amount \in Nat /\ request[c].amount \in Nat /\ row.amount <= AmountOf(row.credits)
          BY <1>t, <2>0, RowFields, BodyFields DEF CopyOK, TypeOK
        <4>5. new.amount <= AmountOf(new.credits)
          BY <3>1, <4>3, <4>4
        <4>6. AmountOf(new.credits)' = AmountOf(new.credits) /\ new' = new
          BY <2>2 DEF AmountOf
        <4>7. \A d \in new.credits : pc'[d] = "done" /\ loaded[d] # NoRow /\ loaded[d].id = r
          BY <2>0, <2>2, <3>1, <1>t, RowFields DEF CopyOK, Goto, TypeOK
        <4>8. r \in Taken'
          BY <1>t, <2>0 DEF CopyOK, Later
        <4>9. QED BY <2>2, <4>5, <4>6, <4>7, <4>8 DEF CopyOK
      <3>3. ASSUME NEW d \in Callback PROVE LedgerOK(d)'
        <4>1. LedgerOK(d) /\ (balances[d] # NoRow => balances[d] \in BalanceRow)
                          /\ (loaded[d] # NoRow => loaded[d].row \in BalanceRow)
          BY <1>t DEF Ledger, TypeOK, Entity
        <4>2. (balances[d] # NoRow => CopyOK(d, balances[d]))'
          <5>1. CASE d = r
            BY <1>t, <2>0, <2>2, <3>2, <5>1 DEF TypeOK, CopyOK
          <5>2. CASE d # r
            BY <1>t, <2>0, <2>2, <4>1, <5>2, CopyStays DEF TypeOK, LedgerOK, CopyOK
          <5>3. QED BY <5>1, <5>2
        <4>3. (loaded[d] # NoRow => CopyOK(loaded[d].id, loaded[d].row))'
          BY <1>t, <2>2, <4>1, CopyStays DEF LedgerOK, CopyOK
        <4>4. QED
          BY <2>0, <2>2, <4>2, <4>3, <1>t, <1>c DEF LedgerOK, TypeOK, AfterDeposit, Goto
      <3>4. QED BY <1>t, <3>3 DEF Ledger
    <2>3. QED BY <1>4, <2>1, <2>2 DEF SaveBalance
  <1>5. CASE Crash
    BY <1>5, <1>t, <1>c, LedgerStays DEF Crash, tables, AfterDeposit
  <1>6. CASE UNCHANGED vars
    BY <1>6, <1>t, <1>c, LedgerStays DEF vars
  <1>7. QED
    BY <1>1, <1>2, <1>3, <1>4, <1>5, <1>6 DEF Next, Step, Finished

\* In every reachable state the rows of table balances, and the copies handlers
\* will write back, are covered by completed deliveries.
LEMMA LedgerInvariance == Spec => []Ledger
  <1>1. IInv /\ IInv' /\ Ledger /\ [Next]_vars => Ledger'
    BY LedgerStep
  <1>2. QED BY <1>1, LedgerInit, Invariance, PTL DEF Spec

\* What the ledger says of one company is what NoUnbackedCredit asks of it.
LEMMA LedgerBacks == ASSUME IInv, Ledger PROVE NoUnbackedCredit
  <1> SUFFICES ASSUME NEW k \in Company, NEW cur \in Currency
               PROVE  BalanceOf(RowsOf(k, cur)) <=
                        AmountOf(Of({c \in LogRows : request[c].confirmed}, logs, k, cur))
    BY DEF NoUnbackedCredit
  <1> DEFINE R == RowsOf(k, cur)
             U == Of({c \in LogRows : request[c].confirmed}, logs, k, cur)
             f == [c \in U |-> request[c].amount]
             b == [r \in R |-> balances[r].amount]
             C == [r \in R |-> balances[r].credits]
             e == [r \in R |-> SumFunctionOnSet(f, C[r])]
  <1>1. ASSUME NEW r \in R
        PROVE  /\ r \in Callback /\ balances[r] \in BalanceRow /\ CopyOK(r, balances[r])
               /\ balances[r].company = k /\ balances[r].currency = cur
               /\ SoundRow(balances[r])
    BY DEF RowsOf, IInv, TypeOK, MemoryAgreesWithTables, RowsOK, Ledger, LedgerOK
  <1>2. IsFiniteSet(R) /\ IsFiniteSet(U)
    <2>1. R \subseteq Taken
      BY <1>1 DEF CopyOK
    <2>2. U \subseteq Taken
      BY DEF Of, LogRows, Taken, IInv, MemoryAgreesWithTables, RowsOK, Untaken
    <2>3. QED BY <2>1, <2>2, FS_Subset DEF Ledger
  <1>3. ASSUME NEW r \in R PROVE C[r] \subseteq U
    <2> SUFFICES ASSUME NEW c \in balances[r].credits PROVE c \in U
      OBVIOUS
    <2>1. /\ c \in Callback /\ pc[c] = "done" /\ logs[c] = k
          /\ request[c].currency = cur
      BY <1>1, RowFields DEF CopyOK, SoundRow
    <2>2. request[c].confirmed
      BY <2>1 DEF Ledger, LedgerOK, AfterDeposit
    <2>3. QED BY <2>1, <2>2, CompanyAssumption DEF Of, LogRows
  <1>4. \A r, q \in R : r # q => C[r] \cap C[q] = {}
    BY <1>1 DEF CopyOK
  <1>5. \A c \in U : f[c] \in Nat /\ f[c] = request[c].amount
    BY BodyFields DEF Of, LogRows, IInv, TypeOK, MemoryAgreesWithTables, RowsOK
  <1>6. ASSUME NEW r \in R PROVE b[r] \in Nat /\ e[r] \in Nat /\ b[r] <= e[r]
    <2>1. AmountOf(C[r]) = e[r]
      <3> DEFINE g == [c \in C[r] |-> request[c].amount]
      <3>1. \A c \in C[r] : g[c] = f[c] /\ g[c] \in Nat
        BY <1>3, <1>5
      <3>2. IsFiniteSet(C[r])
        BY <1>2, <1>3, FS_Subset
      <3> DEFINE D == C[r]
      <3>3. AmountOf(D) = SumFunctionOnSet(g, D) /\ e[r] = SumFunctionOnSet(f, D)
        BY DEF AmountOf, SumFunction
      <3>4. \A c \in D : g[c] = f[c] /\ g[c] \in Nat
        BY <3>1
      <3>5. IsFiniteSet(D)
        BY <3>2
      <3> HIDE DEF D, g, f
      <3>6. SumFunctionOnSet(g, D) = SumFunctionOnSet(f, D)
        BY <3>4, <3>5, SumEqual
      <3>7. QED BY <3>3, <3>6 DEF D
    <2>2. e[r] \in Nat
      <3>1. IsFiniteSet(C[r]) /\ \A c \in C[r] : f[c] \in Nat
        BY <1>2, <1>3, <1>5, FS_Subset
      <3> HIDE DEF f, C
      <3>2. QED BY <3>1, SumType
    <2>3. b[r] = balances[r].amount /\ b[r] \in Nat /\ b[r] <= AmountOf(C[r])
      BY <1>1, RowFields DEF CopyOK
    <2>4. QED BY <2>1, <2>2, <2>3
  <1>7. BalanceOf(R) = SumFunctionOnSet(b, R) /\ AmountOf(U) = SumFunctionOnSet(f, U)
    BY DEF BalanceOf, AmountOf, SumFunction
  <1>8. \A r \in R : e[r] = SumFunctionOnSet(f, C[r])
    OBVIOUS
  <1> HIDE DEF R, U, f, b, C, e
  <1>9. SumFunctionOnSet(b, R) <= SumFunctionOnSet(e, R)
    BY <1>2, <1>6, SumLess
  <1>10. SumFunctionOnSet(e, R) = SumFunctionOnSet(f, UNION {C[r] : r \in R})
    <2>1. \A r \in R : C[r] \subseteq U /\ e[r] = SumFunctionOnSet(f, C[r])
      BY <1>3, <1>8
    <2>2. \A c \in U : f[c] \in Nat
      BY <1>5
    <2>3. QED BY <1>2, <1>4, <2>1, <2>2, SumOfSums
  <1>11. UNION {C[r] : r \in R} \subseteq U
    BY <1>3
  <1>12. SumFunctionOnSet(f, UNION {C[r] : r \in R}) <= SumFunctionOnSet(f, U)
    BY <1>2, <1>5, <1>11, SumMonotone
  <1>13. /\ SumFunctionOnSet(b, R) \in Nat /\ SumFunctionOnSet(e, R) \in Nat
         /\ SumFunctionOnSet(f, U) \in Nat
    BY <1>2, <1>5, <1>6, SumType
  <1>14. QED BY <1>7, <1>9, <1>10, <1>12, <1>13 DEF R, U

\* increaseBalance never puts more into a company's balances than its logged and
\* confirmed deliveries brought, however many handlers write back stale rows.
THEOREM CreditIsBacked == Spec => []NoUnbackedCredit
  BY LedgerBacks, LedgerInvariance, Invariance, PTL
=============================================================================
