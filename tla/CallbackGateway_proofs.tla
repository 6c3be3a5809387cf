----------------------- MODULE CallbackGateway_proofs -----------------------
(***************************************************************************)
(* What the deposit handlers establish survives the withdrawal handlers    *)
(* that write the same balance rows, for every set of deliveries of both   *)
(* types.  The invariants and lemmas of DepositCallback_proofs are used as *)
(* they are: a step of a deposit handler is a step of DepositCallback.     *)
(***************************************************************************)
EXTENDS CallbackGateway, DepositCallback_proofs

\* The balance a withdrawal handler will write back is a row that was in the
\* table: it credits only sound deliveries of its own, and covers its amount.
WithdrawalMemoryOK(w) ==
  /\ wPc[w] \notin {"idle", "refused"} => wRequest[w] \in WithdrawalBody
  /\ wPc[w] = "saveBalance" => wLoaded[w] # NoRow
  /\ wLoaded[w] # NoRow => /\ SoundRow(wLoaded[w].row)
                           /\ CopyOK(wLoaded[w].id, wLoaded[w].row)

WithdrawalMemory ==
  /\ wRequest \in [WithdrawalDelivery -> WithdrawalBody \cup {NoBody}]
  /\ wLoaded \in [WithdrawalDelivery -> Entity \cup {NoRow}]
  /\ DOMAIN wPc = WithdrawalDelivery
  /\ \A w \in WithdrawalDelivery : WithdrawalMemoryOK(w)

GatewayInv == IInv /\ Ledger /\ WithdrawalMemory

-----------------------------------------------------------------------------
\* Both halves begin with nothing.
LEMMA GatewayInitOK == GatewayInit => GatewayInv
  <1> SUFFICES ASSUME GatewayInit PROVE GatewayInv
    OBVIOUS
  <1>1. IInv /\ Ledger
    BY TypeInit, MemoryInit, LedgerInit DEF GatewayInit, IInv
  <1>2. WithdrawalMemory
    BY DEF GatewayInit, W!HandlersIdle, WithdrawalMemory, WithdrawalMemoryOK
  <1>3. QED BY <1>1, <1>2 DEF GatewayInv

\* What the deposit half does is a step of DepositCallback, or nothing.
LEMMA DepositHalf ==
  ASSUME TypeOK, DepositStep \/ StopBoth \/ UNCHANGED gatewayVars \/ (WithdrawalStep /\ balances' = balances)
  PROVE  [Next]_vars
  <1>1. CASE DepositStep
    BY <1>1 DEF DepositStep, Next
  <1>2. CASE StopBoth
    <2>1. CASE \E c \in Callback : pc[c] \in InFlight
      BY <1>2, <2>1 DEF StopBoth, Crash, Next, tables
    <2>2. CASE \A c \in Callback : pc[c] \notin InFlight
      BY <1>2, <2>2 DEF StopBoth, TypeOK, vars
    <2>3. QED BY <2>1, <2>2
  <1>3. CASE UNCHANGED gatewayVars \/ (WithdrawalStep /\ balances' = balances)
    BY <1>3 DEF gatewayVars, depositVars, WithdrawalStep, vars
  <1>4. QED BY <1>1, <1>2, <1>3

\* A withdrawal handler that writes back a balance lowers the amount it read and
\* leaves all else; nothing the deposits rely on changes.
LEMMA DebitStep ==
  ASSUME GatewayInv, NEW w \in WithdrawalDelivery, W!SaveBalance(w), UNCHANGED depositVars
  PROVE  /\ IInv' /\ Ledger'
         /\ \A r \in Callback : balances'[r] # NoRow =>
              balances'[r] = balances[r] \/ balances'[r].credits = wLoaded[w].row.credits
  <1> DEFINE id  == wLoaded[w].id
             row == wLoaded[w].row
             amt == wRequest[w].amount
             new == [row EXCEPT !.amount = W!Debited(row.amount, amt)]
  <1>t. TypeOK /\ Ledger /\ \A c \in Callback : HandlerOK(c) /\ RowsOK(c)
    BY DEF GatewayInv, IInv, MemoryAgreesWithTables
  <1>u. UNCHANGED <<addresses, logs, deposits, request, owner, loaded, pc>>
    BY DEF depositVars
  <1>1. /\ id \in Callback /\ row \in BalanceRow /\ SoundRow(row) /\ CopyOK(id, row)
        /\ wRequest[w] \in WithdrawalBody
    BY DEF GatewayInv, WithdrawalMemory, WithdrawalMemoryOK, W!SaveBalance, Entity
  <1>2. amt \in Nat /\ row.amount \in 0..MaxBalance
    BY <1>1, GatewayAssumption, RowFields DEF W!BodyType
  <1>3. W!Debited(row.amount, amt) \in 0..MaxBalance /\ W!Debited(row.amount, amt) <= row.amount
    BY <1>2, MaxAssumption DEF W!Debited
  <1>4. /\ new \in BalanceRow /\ new.amount <= row.amount /\ new.credits = row.credits
        /\ new.company = row.company /\ new.currency = row.currency
    BY <1>1, <1>3 DEF BalanceRow
  <1>5. balances' = [balances EXCEPT ![id] = new]
    BY DEF W!SaveBalance
  <1>6. SoundRow(new) /\ CopyOK(id, new)
    <2>1. SoundRow(new)
      BY <1>1, <1>4 DEF SoundRow
    <2>2. AmountOf(new.credits) = AmountOf(row.credits)
      BY <1>4
    <2>3. AmountOf(row.credits) \in Nat
      <3>1. row.credits \in SUBSET Callback /\ \A c \in row.credits : pc[c] = "done"
        BY <1>1, RowFields DEF CopyOK
      <3>2. IsFiniteSet(row.credits) /\ \A c \in row.credits : request[c] # NoBody
        BY <1>t, <3>1, DoneHaveBodies DEF GatewayInv, Ledger
      <3>3. QED BY <1>t, <3>1, <3>2, AmountOfSet
    <2>4. new.amount <= AmountOf(new.credits)
      <3>1. new.amount \in Nat /\ row.amount \in Nat
        BY <1>1, <1>4, RowFields
      <3>2. QED BY <1>1, <1>4, <2>2, <2>3, <3>1 DEF CopyOK
    <2>5. CopyOK(id, new)
      BY <1>1, <1>4, <2>4 DEF CopyOK
    <2>6. QED BY <2>1, <2>5
  <1> HIDE DEF new, id
  <1>7. TypeOK'
    BY <1>t, <1>u, <1>1, <1>4, <1>5 DEF TypeOK
  <1>8. \A r \in Callback : balances'[r] = IF r = id THEN new ELSE balances[r]
    BY <1>t, <1>5 DEF TypeOK
  <1>9. \A c \in Callback : Backed(c)' <=> Backed(c)
    BY <1>u DEF Backed, DepositRows, Recorded
  <1>10. ASSUME NEW c \in Callback PROVE HandlerOK(c)' /\ RowsOK(c)'
    <2>1. HandlerOK(c) /\ RowsOK(c)
      BY <1>t
    <2>2. HandlerOK(c)'
      BY <1>u, <1>9, <2>1 DEF HandlerOK
    <2>3. (balances[c] # NoRow => SoundRow(balances[c]))'
      <3>1. balances'[c] # NoRow =>
              /\ balances'[c].credits \subseteq Callback
              /\ SoundRow(balances'[c])
        BY <1>t, <1>1, <1>4, <1>6, <1>8, <2>1, RowFields DEF RowsOK, TypeOK
      <3>2. QED BY <1>u, <1>9, <3>1 DEF SoundRow
    <2>4. (loaded[c] # NoRow => SoundRow(loaded[c].row))'
      <3>1. loaded[c] # NoRow => loaded[c].row.credits \subseteq Callback /\ SoundRow(loaded[c].row)
        BY <1>t, <2>1, RowFields DEF RowsOK, TypeOK, Entity
      <3>2. QED BY <1>u, <1>9, <3>1 DEF SoundRow
    <2>5. QED BY <1>u, <2>1, <2>2, <2>3, <2>4 DEF RowsOK
  <1>11. OneDepositPerTransaction'
    BY <1>u DEF GatewayInv, IInv, MemoryAgreesWithTables, OneDepositPerTransaction, DepositRows
  <1>12. Taken' = Taken /\ \A S : AmountOf(S)' = AmountOf(S)
    BY <1>u DEF Taken, AmountOf
  <1>13. ASSUME NEW c \in Callback PROVE LedgerOK(c)'
    <2>1. LedgerOK(c)
      BY <1>t DEF Ledger
    <2>2. balances'[c] # NoRow => CopyOK(c, balances'[c])
      BY <1>6, <1>8, <2>1 DEF LedgerOK
    <2>3. (balances[c] # NoRow => CopyOK(c, balances[c]))'
      BY <1>u, <1>12, <2>2 DEF CopyOK, AmountOf
    <2>4. (loaded[c] # NoRow => CopyOK(loaded[c].id, loaded[c].row))'
      BY <1>u, <1>12, <2>1 DEF LedgerOK, CopyOK, AmountOf
    <2>5. QED BY <1>u, <2>1, <2>3, <2>4 DEF LedgerOK
  <1>14. QED
    BY <1>t, <1>4, <1>7, <1>8, <1>10, <1>11, <1>12, <1>13
    DEF IInv, MemoryAgreesWithTables, Ledger

\* Each step keeps the deposits' invariants, and what they write stays written.
LEMMA DepositsKept ==
  ASSUME GatewayInv, [GatewayNext]_gatewayVars
  PROVE  IInv' /\ Ledger' /\ Grows /\ Later
  <1>1. IInv /\ TypeOK /\ Ledger
    BY DEF GatewayInv, IInv
  <1>2. CASE [Next]_vars
    <2>1. IInv'
      BY <1>1, <1>2, TypeStep, MemoryStep DEF IInv
    <2>2. QED BY <1>1, <1>2, <2>1, LedgerStep, GrowsStep, LaterStep
  <1>3. ASSUME NEW w \in WithdrawalDelivery, W!SaveBalance(w), UNCHANGED depositVars
        PROVE  IInv' /\ Ledger' /\ Grows /\ Later
    <2>1. IInv' /\ Ledger'
      BY <1>3, DebitStep
    <2>2. QED BY <1>3, <2>1 DEF depositVars, Grows, Later, Taken
  <1>4. CASE WithdrawalStep
    <2>1. PICK w \in WithdrawalDelivery :
             (\E b \in WithdrawalBody : W!Receive(w, b)) \/ W!Refuse(w) \/ W!Step(w) \/ W!Fail(w)
      BY <1>4 DEF WithdrawalStep
    <2>2. balances' = balances \/ W!SaveBalance(w)
      BY <2>1 DEF W!Receive, W!Refuse, W!Step, W!Fail, W!Reject, W!SaveLog, W!FindWithdrawal,
                  W!FindTx, W!SaveWithdrawal, W!UpdateLog, W!FindBalance, W!tables
    <2>3. UNCHANGED depositVars
      BY <1>4 DEF WithdrawalStep
    <2>4. QED BY <1>1, <1>2, <1>3, <1>4, <2>2, <2>3, DepositHalf
  <1>5. QED BY <1>1, <1>2, <1>4, DepositHalf DEF GatewayNext

\* What a withdrawal handler holds in memory stays sound.
LEMMA WithdrawalMemoryStays ==
  ASSUME GatewayInv, Grows, Later, NEW w \in WithdrawalDelivery,
         wLoaded[w] # NoRow,
         NEW row, wLoaded[w].row = row, NEW id, wLoaded[w].id = id
  PROVE  SoundRow(row)' /\ CopyOK(id, row)'
  <1>1. SoundRow(row) /\ CopyOK(id, row) /\ IInv /\ TypeOK
    BY DEF GatewayInv, IInv, WithdrawalMemory, WithdrawalMemoryOK
  <1>2. row \in BalanceRow
    BY DEF GatewayInv, WithdrawalMemory, Entity
  <1>3. QED BY <1>1, <1>2, SoundRowStays, CopyStays

\* A step that loads no balance.
LEMMA WithdrawalMemoryKept ==
  ASSUME GatewayInv, Grows, Later, wLoaded' = wLoaded,
         wRequest' \in [WithdrawalDelivery -> WithdrawalBody \cup {NoBody}],
         DOMAIN wPc' = WithdrawalDelivery,
         \A w \in WithdrawalDelivery :
           /\ wPc'[w] \notin {"idle", "refused"} => wRequest'[w] \in WithdrawalBody
           /\ wPc'[w] = "saveBalance" => wLoaded[w] # NoRow
  PROVE  WithdrawalMemory'
  <1>1. ASSUME NEW w \in WithdrawalDelivery, wLoaded'[w] # NoRow
        PROVE  (SoundRow(wLoaded[w].row) /\ CopyOK(wLoaded[w].id, wLoaded[w].row))'
    <2>1. ASSUME NEW row, wLoaded[w].row = row, NEW id, wLoaded[w].id = id
          PROVE  SoundRow(row)' /\ CopyOK(id, row)'
      BY <1>1, <2>1, WithdrawalMemoryStays
    <2>2. QED BY <2>1 DEF SoundRow, CopyOK
  <1>2. wLoaded' \in [WithdrawalDelivery -> Entity \cup {NoRow}]
    BY DEF GatewayInv, WithdrawalMemory
  <1>3. \A w \in WithdrawalDelivery : WithdrawalMemoryOK(w)'
    BY <1>1 DEF WithdrawalMemoryOK
  <1>4. QED BY <1>2, <1>3 DEF WithdrawalMemory

\* The balance a withdrawal handler reads is sound when it reads it.
LEMMA WithdrawalMemoryLoads ==
  ASSUME GatewayInv, IInv', Ledger', NEW w \in WithdrawalDelivery, W!FindBalance(w),
         UNCHANGED depositVars, Grows, Later
  PROVE  WithdrawalMemory'
  <1> DEFINE rows == W!RowsFor(wEntity[w].company, wRequest[w].currency)
  <1>t. /\ TypeOK /\ WithdrawalMemory /\ wPc[w] = "findBalance"
        /\ balances' = balances /\ wRequest' = wRequest /\ DOMAIN wPc = WithdrawalDelivery
        /\ \A v \in WithdrawalDelivery : wPc[v] \notin {"idle", "refused"} =>
             wRequest[v] \in WithdrawalBody
        /\ \A v \in WithdrawalDelivery : wPc[v] = "saveBalance" => wLoaded[v] # NoRow
        /\ wRequest \in [WithdrawalDelivery -> WithdrawalBody \cup {NoBody}]
        /\ wLoaded \in [WithdrawalDelivery -> Entity \cup {NoRow}]
    BY DEF GatewayInv, IInv, WithdrawalMemory, WithdrawalMemoryOK, W!FindBalance, W!tables
  <1>1. CASE wLoaded' = wLoaded /\ wPc' = [wPc EXCEPT ![w] = "done"]
    BY <1>1, <1>t, WithdrawalMemoryKept
  <1>2. CASE \E r \in rows : /\ wLoaded' = [wLoaded EXCEPT ![w] = [id |-> r, row |-> balances[r]]]
                             /\ wPc' = [wPc EXCEPT ![w] = "saveBalance"]
    <2>1. PICK r \in Callback :
             /\ balances[r] # NoRow
             /\ wLoaded' = [wLoaded EXCEPT ![w] = [id |-> r, row |-> balances[r]]]
             /\ wPc' = [wPc EXCEPT ![w] = "saveBalance"]
      BY <1>2 DEF W!RowsFor
    <2>2. balances[r] \in BalanceRow /\ [id |-> r, row |-> balances[r]] \in Entity
      BY <1>t, <2>1 DEF TypeOK, Entity
    <2>3. (SoundRow(balances[r]) /\ CopyOK(r, balances[r]))'
      BY <1>t, <2>1 DEF IInv, MemoryAgreesWithTables, RowsOK, Ledger, LedgerOK
    <2>4. ASSUME NEW v \in WithdrawalDelivery PROVE WithdrawalMemoryOK(v)'
      <3>1. wPc'[v] \notin {"idle", "refused"} => wRequest'[v] \in WithdrawalBody
        BY <1>t, <2>1
      <3>2. CASE v = w
        <4>1. /\ wLoaded'[v] = [id |-> r, row |-> balances'[r]] /\ wLoaded'[v] # NoRow
              /\ wLoaded'[v].row = balances'[r] /\ wLoaded'[v].id = r
          BY <1>t, <2>1, <2>2, <3>2, NoneAssumption
        <4>2. (SoundRow(wLoaded[v].row) /\ CopyOK(wLoaded[v].id, wLoaded[v].row))'
          BY <2>3, <4>1 DEF SoundRow, CopyOK
        <4>3. QED BY <3>1, <4>1, <4>2 DEF WithdrawalMemoryOK
      <3>3. CASE v # w
        <4>1. wLoaded'[v] = wLoaded[v] /\ wPc'[v] = wPc[v]
          BY <1>t, <2>1, <3>3
        <4>2. ASSUME wLoaded[v] # NoRow, NEW row, wLoaded[v].row = row, NEW id, wLoaded[v].id = id
              PROVE  SoundRow(row)' /\ CopyOK(id, row)'
          BY <4>2, WithdrawalMemoryStays
        <4>3. (wLoaded[v] # NoRow => SoundRow(wLoaded[v].row) /\ CopyOK(wLoaded[v].id, wLoaded[v].row))'
          BY <4>1, <4>2 DEF SoundRow, CopyOK
        <4>4. QED BY <1>t, <3>1, <4>1, <4>3 DEF WithdrawalMemoryOK
      <3>4. QED BY <3>2, <3>3
    <2>5. QED BY <1>t, <2>1, <2>2, <2>4 DEF WithdrawalMemory
  <1>3. QED BY <1>1, <1>2 DEF W!FindBalance, W!Goto

\* What withdrawal handlers hold of the balances stays sound.
LEMMA WithdrawalMemoryStep ==
  ASSUME GatewayInv, [GatewayNext]_gatewayVars
  PROVE  WithdrawalMemory'
  <1>t. /\ IInv' /\ Ledger' /\ Grows /\ Later
        /\ DOMAIN wPc = WithdrawalDelivery
        /\ wRequest \in [WithdrawalDelivery -> WithdrawalBody \cup {NoBody}]
        /\ \A w \in WithdrawalDelivery : wPc[w] \notin {"idle", "refused"} =>
             wRequest[w] \in WithdrawalBody
        /\ \A w \in WithdrawalDelivery : wPc[w] = "saveBalance" => wLoaded[w] # NoRow
    BY DepositsKept DEF GatewayInv, WithdrawalMemory, WithdrawalMemoryOK
  <1>1. CASE DepositStep \/ UNCHANGED gatewayVars
    BY <1>1, <1>t, WithdrawalMemoryKept DEF DepositStep, gatewayVars, withdrawalVars
  <1>2. CASE StopBoth
    BY <1>2, <1>t, WithdrawalMemoryKept DEF StopBoth, W!InFlight
  <1>3. ASSUME NEW w \in WithdrawalDelivery, NEW b \in WithdrawalBody, W!Receive(w, b)
        PROVE  WithdrawalMemory'
    BY <1>3, <1>t, WithdrawalMemoryKept DEF W!Receive, W!Goto
  <1>4. ASSUME NEW w \in WithdrawalDelivery, W!Refuse(w) PROVE WithdrawalMemory'
    BY <1>4, <1>t, WithdrawalMemoryKept DEF W!Refuse, W!Goto
  <1>5. ASSUME NEW w \in WithdrawalDelivery,
               \/ W!SaveLog(w) \/ W!FindWithdrawal(w) \/ W!FindTx(w) \/ W!SaveWithdrawal(w)
               \/ W!UpdateLog(w) \/ W!SaveBalance(w) \/ W!Fail(w)
        PROVE  WithdrawalMemory'
    <2>1. /\ wLoaded' = wLoaded /\ wRequest' = wRequest /\ wPc[w] \notin {"idle", "refused"}
          /\ \E to : wPc' = [wPc EXCEPT ![w] = to] /\ to # "saveBalance"
      BY <1>5 DEF W!SaveLog, W!FindWithdrawal, W!FindTx, W!SaveWithdrawal, W!UpdateLog,
         W!SaveBalance, W!Fail, W!Reject, W!Goto, W!InFlight
    <2>2. QED BY <1>t, <2>1, WithdrawalMemoryKept
  <1>6. ASSUME NEW w \in WithdrawalDelivery, W!FindBalance(w), UNCHANGED depositVars
        PROVE  WithdrawalMemory'
    BY <1>6, <1>t, WithdrawalMemoryLoads
  <1>7. QED
    BY <1>1, <1>2, <1>3, <1>4, <1>5, <1>6 DEF GatewayNext, WithdrawalStep, W!Step

-----------------------------------------------------------------------------
\* In every reachable state of the webhook the invariants of the deposit
\* handlers hold, and what withdrawal handlers will write back is sound.
THEOREM GatewayInvariance == GatewaySpec => []GatewayInv
  <1>1. GatewayInv /\ [GatewayNext]_gatewayVars => GatewayInv'
    BY DepositsKept, WithdrawalMemoryStep DEF GatewayInv
  <1>2. QED BY <1>1, GatewayInitOK, PTL DEF GatewaySpec

\* decreaseBalance and increaseBalance, writing back rows each read earlier,
\* never leave more in a balance than was credited to it.
THEOREM BalanceIsCovered == GatewaySpec => []BalanceWithinCredits
  <1>1. GatewayInv => BalanceWithinCredits
    BY DEF GatewayInv, Ledger, LedgerOK, CopyOK, BalanceWithinCredits, BalanceRows
  <1>2. QED BY <1>1, GatewayInvariance, PTL

\* Beside withdrawals too, each credit stays with its company, has its deposit
\* on record, and is covered by what the company's callbacks announced.
THEOREM CreditsSound == GatewaySpec => []CreditsStaySound
  <1>1. GatewayInv => CreditsStaySound
    BY MemoryGivesOneCompany, MemoryGivesCredit, LedgerBacks DEF GatewayInv, CreditsStaySound
  <1>2. QED BY <1>1, GatewayInvariance, PTL

\* The withdrawal handlers look into deposit_transactions and never write it:
\* the webhook as a whole still implements the registry of transactions.
THEOREM GatewayRefinement == GatewaySpec => ImplementsRegistry
  <1>1. GatewayInit => Registry!RInit
    BY RegistryInit DEF GatewayInit
  <1>2. GatewayInv /\ GatewayInv' /\ [GatewayNext]_gatewayVars => [Registry!RNext]_Books
    <2> SUFFICES ASSUME GatewayInv, GatewayInv', [GatewayNext]_gatewayVars
                 PROVE  [Registry!RNext]_Books
      OBVIOUS
    <2>1. CASE deposits' = deposits
      <3>1. IInv /\ IInv' /\ Grows
        BY DepositsKept DEF GatewayInv
      <3>2. \A t \in Txid : Booked(t)' = Booked(t)
        BY <2>1, <3>1, BookedStays
      <3>3. QED BY <3>2 DEF Books
    <2>2. CASE deposits' # deposits
      <3>1. [Next]_vars
        BY <2>2, DepositHalf DEF GatewayInv, IInv, GatewayNext, WithdrawalStep, depositVars
      <3>2. QED BY <3>1, RegistryStep DEF GatewayInv, Registry!RNext
    <2>3. QED BY <2>1, <2>2
  <1>3. QED
    BY <1>1, <1>2, GatewayInvariance, PTL
    DEF GatewaySpec, ImplementsRegistry, Registry!RSpec, Books, Booked
=============================================================================
