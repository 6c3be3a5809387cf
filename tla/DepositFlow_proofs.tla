------------------------- MODULE DepositFlow_proofs -------------------------
(***************************************************************************)
(* Theorems about DepositAddress, and about DepositFlow, which composes it *)
(* with the deposit callbacks, for every set of requests, deliveries,      *)
(* users, companies, currencies and addresses.                             *)
(***************************************************************************)
EXTENDS DepositFlow, TLAPS

-----------------------------------------------------------------------------
(* DepositAddress: address requests on their own. *)

Creating(r) == task[r] \in Create /\ CompanyOf[task[r].user] # NoCompany

\* What the handler of request r relies on at each of its awaits: what it asks,
\* that a taken address was issued to its user, that an answered one is on
\* record, and that a row it will write back is there.
HandlerOK(r) ==
  /\ stage[r] = "lookup" => task[r] \in Create
  /\ stage[r] \in {"findExisting", "take"} => Creating(r)
  /\ stage[r] = "saveNew" =>
       /\ Creating(r) /\ held[r] \in Address
       /\ issued[held[r]] = task[r].user
       /\ CurrencyOf[held[r]] = task[r].currency
  /\ stage[r] \in {"findRow", "saveStatus"} => task[r] \in Status
  /\ stage[r] = "saveStatus" =>
       held[r] \in Address /\ held[r] = task[r].address /\ addresses[held[r]] # NoCompany
  /\ stage[r] = "returned" /\ task[r].kind = "create" =>
       /\ Creating(r) /\ held[r] \in Address
       /\ addresses[held[r]] = CompanyOf[task[r].user]
       /\ CurrencyOf[held[r]] = task[r].currency

HandlersAgree == \A r \in Request : HandlerOK(r)

AddressInv == AddressTypeOK /\ HandlersAgree

\* Rows and the provider's books are only added to.
BooksKept ==
  /\ \A a \in Address : addresses[a] # NoCompany => addresses'[a] = addresses[a]
  /\ \A a \in Address : issued[a] # NoUser => issued'[a] = issued[a]

\* The handler of r stays as it is.
Untouched(r) == task'[r] = task[r] /\ held'[r] = held[r] /\ stage'[r] = stage[r]

-----------------------------------------------------------------------------
\* At first nothing is issued, on record or asked.
LEMMA AddressInitOK == AddressInit => AddressInv
  BY DEF AddressInit, AddressInv, AddressTypeOK, HandlersAgree, HandlerOK, NoTask

\* The types are preserved by each action.
LEMMA AddressTypeStep ==
  ASSUME AddressInv, [AddressNext]_addressVars PROVE AddressTypeOK'
<1> USE NoneAssumption, UserAssumption
    DEF AddressInv, AddressTypeOK, GoOn, addressTables, Working, Ended
<1>1. ASSUME NEW r \in Request, NEW t \in Create \cup Status, Ask(r, t) PROVE AddressTypeOK'
  BY <1>1 DEF Ask
<1>2. ASSUME NEW r \in Request, Lookup(r) PROVE AddressTypeOK'
  BY <1>2 DEF Lookup, Throw
<1>3. ASSUME NEW r \in Request, FindExisting(r) PROVE AddressTypeOK'
  BY <1>3 DEF FindExisting, RowsFor
<1>4. ASSUME NEW r \in Request, Take(r) PROVE AddressTypeOK'
  <2>1. task[r].user \in User
    BY <1>4 DEF Take, HandlersAgree, HandlerOK, Creating, Create
  <2> QED BY <1>4, <2>1 DEF Take, Issuable, Throw
<1>5. ASSUME NEW r \in Request, SaveNew(r) PROVE AddressTypeOK'
  <2>1. CompanyOf[task[r].user] \in Company
    BY <1>5 DEF SaveNew, HandlersAgree, HandlerOK, Creating, Create
  <2> QED BY <1>5, <2>1 DEF SaveNew, Throw
<1>6. ASSUME NEW r \in Request, FindRow(r) PROVE AddressTypeOK'
  <2>1. task[r].address \in Address
    BY <1>6 DEF FindRow, HandlersAgree, HandlerOK, Status
  <2> QED BY <1>6, <2>1 DEF FindRow, Throw
<1>7. ASSUME NEW r \in Request, SaveStatus(r) PROVE AddressTypeOK'
  <2>1. task[r].active \in BOOLEAN
    BY <1>7 DEF SaveStatus, HandlersAgree, HandlerOK, Status
  <2> QED BY <1>7, <2>1 DEF SaveStatus
<1>8. ASSUME NEW r \in Request, Error(r) PROVE AddressTypeOK'
  BY <1>8 DEF Error, Throw
<1>9. ASSUME NEW u \in User, NEW cur \in Currency, TakeDirectly(u, cur) PROVE AddressTypeOK'
  BY <1>9 DEF TakeDirectly, Issuable, addressHandlers
<1>10. ASSUME NEW a \in Address, InsertByCallback(a) PROVE AddressTypeOK'
  BY <1>10, DefaultAssumption DEF InsertByCallback, addressHandlers
<1>11. CASE Stop
  BY <1>11 DEF Stop
<1>12. CASE UNCHANGED addressVars
  BY <1>12 DEF addressVars
<1> QED BY <1>1, <1>2, <1>3, <1>4, <1>5, <1>6, <1>7, <1>8, <1>9, <1>10, <1>11, <1>12
        DEF AddressNext, Serve, Query

\* No row is moved or removed and no address changes hands.
LEMMA BooksStep == ASSUME AddressInv, [AddressNext]_addressVars PROVE BooksKept
<1> USE NoneAssumption DEF AddressInv, AddressTypeOK, BooksKept
<1>1. ASSUME NEW r \in Request, Take(r) PROVE BooksKept
  <2>1. task[r].user \in User
    BY <1>1 DEF Take, HandlersAgree, HandlerOK, Creating, Create
  <2> QED BY <1>1, <2>1 DEF Take, Issuable, Throw, addressTables
<1>2. ASSUME NEW r \in Request, SaveNew(r) PROVE BooksKept
  BY <1>2 DEF SaveNew, Throw, addressTables
<1>3. ASSUME NEW u \in User, NEW cur \in Currency, TakeDirectly(u, cur) PROVE BooksKept
  BY <1>3 DEF TakeDirectly, Issuable
<1>4. ASSUME NEW a \in Address, InsertByCallback(a) PROVE BooksKept
  BY <1>4 DEF InsertByCallback
<1>5. CASE \/ Stop
           \/ \E r \in Request : \/ \E t \in Create \cup Status : Ask(r, t)
                                 \/ Lookup(r) \/ FindExisting(r) \/ FindRow(r)
                                 \/ SaveStatus(r) \/ Error(r)
           \/ UNCHANGED addressVars
  BY <1>5 DEF Stop, Ask, Lookup, FindExisting, FindRow, SaveStatus, Error, Throw,
              addressTables, addressVars
<1> QED BY <1>1, <1>2, <1>3, <1>4, <1>5 DEF AddressNext, Serve, Query

\* A handler that does not move keeps what it relies on.
LEMMA HandlerStays ==
  ASSUME AddressInv, BooksKept, NEW r \in Request, Untouched(r) PROVE HandlerOK(r)'
<1>1. HandlerOK(r)
  BY DEF AddressInv, HandlersAgree
<1>2. ASSUME Creating(r) PROVE /\ Creating(r)' /\ task[r].user \in User
                               /\ CompanyOf[task[r].user] \in Company
  BY <1>2, UserAssumption DEF Creating, Create, Untouched
<1> QED BY <1>1, <1>2, NoneAssumption DEF HandlerOK, BooksKept, Untouched

\* Each handler's next await finds what the one before has established.
LEMMA HandlersStep ==
  ASSUME AddressInv, [AddressNext]_addressVars PROVE HandlersAgree'
<1>0. BooksKept
  BY BooksStep
<1>a. ASSUME NEW r \in Request, \A q \in Request \ {r} : Untouched(q), HandlerOK(r)'
      PROVE  HandlersAgree'
  BY <1>a, <1>0, HandlerStays DEF HandlersAgree
<1>b. ASSUME NEW r \in Request, Throw(r) PROVE HandlersAgree'
  <2>1. HandlerOK(r)' /\ \A q \in Request \ {r} : Untouched(q)
    BY <1>b DEF Throw, GoOn, AddressInv, AddressTypeOK, HandlerOK, Untouched, addressTables
  <2> QED BY <2>1, <1>a
<1> USE NoneAssumption, UserAssumption DEF AddressInv, AddressTypeOK, GoOn, addressTables
<1>1. ASSUME NEW r \in Request, NEW t \in Create \cup Status, Ask(r, t) PROVE HandlersAgree'
  <2>1. HandlerOK(r)'
    BY <1>1 DEF Ask, HandlerOK, Create, Status
  <2>2. \A q \in Request \ {r} : Untouched(q)
    BY <1>1 DEF Ask, Untouched
  <2> QED BY <2>1, <2>2, <1>a
<1>2. ASSUME NEW r \in Request, Lookup(r) PROVE HandlersAgree'
  <2>1. CASE ~Throw(r)
    <3>1. HandlerOK(r)'
      BY <1>2, <2>1 DEF Lookup, HandlersAgree, HandlerOK, Creating
    <3>2. \A q \in Request \ {r} : Untouched(q)
      BY <1>2, <2>1 DEF Lookup, Untouched
    <3> QED BY <3>1, <3>2, <1>a
  <2> QED BY <2>1, <1>b
<1>3. ASSUME NEW r \in Request, FindExisting(r) PROVE HandlersAgree'
  <2>1. Creating(r)
    BY <1>3 DEF FindExisting, HandlersAgree, HandlerOK
  <2>2. HandlerOK(r)'
    BY <1>3, <2>1 DEF FindExisting, RowsFor, HandlerOK, Creating
  <2>3. \A q \in Request \ {r} : Untouched(q)
    BY <1>3 DEF FindExisting, Untouched
  <2> QED BY <2>2, <2>3, <1>a
<1>4. ASSUME NEW r \in Request, Take(r) PROVE HandlersAgree'
  <2>1. CASE ~Throw(r)
    <3>1. Creating(r)
      BY <1>4 DEF Take, HandlersAgree, HandlerOK
    <3>2. HandlerOK(r)'
      BY <1>4, <2>1, <3>1 DEF Take, Issuable, HandlerOK, Creating
    <3>3. \A q \in Request \ {r} : Untouched(q)
      BY <1>4, <2>1 DEF Take, Untouched
    <3> QED BY <3>2, <3>3, <1>a
  <2> QED BY <2>1, <1>b
<1>5. ASSUME NEW r \in Request, SaveNew(r) PROVE HandlersAgree'
  <2>1. CASE ~Throw(r)
    <3>1. HandlerOK(r)
      BY DEF HandlersAgree
    <3>2. HandlerOK(r)'
      BY <1>5, <2>1, <3>1 DEF SaveNew, HandlerOK, Creating
    <3>3. \A q \in Request \ {r} : Untouched(q)
      BY <1>5, <2>1 DEF SaveNew, Untouched
    <3> QED BY <3>2, <3>3, <1>a
  <2> QED BY <2>1, <1>b
<1>6. ASSUME NEW r \in Request, FindRow(r) PROVE HandlersAgree'
  <2>1. CASE ~Throw(r)
    <3>1. task[r] \in Status
      BY <1>6 DEF FindRow, HandlersAgree, HandlerOK
    <3>2. HandlerOK(r)'
      BY <1>6, <2>1, <3>1 DEF FindRow, HandlerOK, Status
    <3>3. \A q \in Request \ {r} : Untouched(q)
      BY <1>6, <2>1 DEF FindRow, Untouched
    <3> QED BY <3>2, <3>3, <1>a
  <2> QED BY <2>1, <1>b
<1>7. ASSUME NEW r \in Request, SaveStatus(r) PROVE HandlersAgree'
  <2>1. task[r] \in Status
    BY <1>7 DEF SaveStatus, HandlersAgree, HandlerOK
  <2>2. HandlerOK(r)'
    BY <1>7, <2>1 DEF SaveStatus, HandlerOK, Status
  <2>3. \A q \in Request \ {r} : Untouched(q)
    BY <1>7 DEF SaveStatus, Untouched
  <2> QED BY <2>2, <2>3, <1>a
<1>8. ASSUME NEW r \in Request, Error(r) PROVE HandlersAgree'
  BY <1>8, <1>b DEF Error
<1>9. CASE \/ \E u \in User, cur \in Currency : TakeDirectly(u, cur)
           \/ \E a \in Address : InsertByCallback(a)
           \/ UNCHANGED addressVars
  BY <1>9, <1>0, HandlerStays
     DEF TakeDirectly, InsertByCallback, addressHandlers, addressVars, Untouched, HandlersAgree
<1>10. CASE Stop
  <2> SUFFICES ASSUME NEW r \in Request PROVE HandlerOK(r)'
    BY DEF HandlersAgree
  <2>1. CASE stage[r] \in Working
    BY <1>10, <2>1 DEF Stop, HandlerOK
  <2>2. CASE stage[r] \notin Working
    BY <1>10, <2>2, <1>0, HandlerStays DEF Stop, Untouched
  <2> QED BY <2>1, <2>2
<1> QED BY <1>1, <1>2, <1>3, <1>4, <1>5, <1>6, <1>7, <1>8, <1>9, <1>10
        DEF AddressNext, Serve, Query

\* AddressInv is inductive, with or without fairness.
LEMMA AddressSafety == AddressInit /\ [][AddressNext]_addressVars => []AddressInv
<1>1. AddressInv /\ [AddressNext]_addressVars => AddressInv'
  BY AddressTypeStep, HandlersStep DEF AddressInv
<1> QED BY AddressInitOK, <1>1, PTL

\* AddressInv holds of the requests on their own.
LEMMA AddressInvariance == AddressSpec => []AddressInv
  BY AddressSafety, PTL DEF AddressSpec

-----------------------------------------------------------------------------
\* Type correctness, for every number of requests.
THEOREM AddressTypeCorrect == AddressSpec => []AddressTypeOK
  BY AddressInvariance, PTL DEF AddressInv

\* Whoever createAddressForUser answers is told an address that is, and stays, on
\* record for the caller's company and currency.
THEOREM ToldAddress_IsOwned == AddressSpec => []ToldAddressIsOwned
<1>1. AddressInv => ToldAddressIsOwned
  BY DEF AddressInv, HandlersAgree, HandlerOK, ToldAddressIsOwned
<1> QED BY <1>1, AddressInvariance, PTL

\* updateAddressStatus and the inserts never move a row, and a status changes only
\* as a request has asked.
THEOREM Rows_AreStable == AddressSpec => RowsAreStable
<1> DEFINE Stable ==
      \A a \in Address :
        /\ addresses[a] # NoCompany => addresses'[a] = addresses[a]
        /\ active'[a] # active[a] =>
             /\ addresses[a] # NoCompany
             /\ \E r \in Request : /\ task[r] = [kind |-> "status", address |-> a,
                                                 active |-> active'[a]]
                                   /\ stage[r] = "saveStatus" /\ stage'[r] = "returned"
<1>1. ASSUME AddressInv, [AddressNext]_addressVars PROVE Stable
  <2>1. \A a \in Address : addresses[a] # NoCompany => addresses'[a] = addresses[a]
    BY <1>1, BooksStep DEF BooksKept
  <2>2. ASSUME NEW a \in Address, active'[a] # active[a]
        PROVE  \E r \in Request : SaveStatus(r)
    BY <1>1, <2>2 DEF AddressNext, Serve, Query, Ask, Lookup, FindExisting, Take, SaveNew, FindRow,
                      Error, Throw, TakeDirectly, InsertByCallback, addressHandlers, Stop, addressTables, addressVars
  <2>3. ASSUME NEW a \in Address, active'[a] # active[a], NEW r \in Request, SaveStatus(r)
        PROVE  /\ addresses[a] # NoCompany
               /\ task[r] = [kind |-> "status", address |-> a, active |-> active'[a]]
               /\ stage[r] = "saveStatus" /\ stage'[r] = "returned"
    <3>1. /\ task[r] \in Status /\ held[r] = task[r].address
          /\ addresses[held[r]] # NoCompany /\ stage[r] = "saveStatus"
      BY <1>1, <2>3 DEF SaveStatus, AddressInv, HandlersAgree, HandlerOK
    <3>2. a = held[r] /\ active'[a] = task[r].active /\ stage'[r] = "returned"
      BY <1>1, <2>3 DEF SaveStatus, GoOn, AddressInv, AddressTypeOK
    <3> QED BY <3>1, <3>2 DEF Status
  <2> QED BY <2>1, <2>2, <2>3
<1>2. AddressInv /\ [AddressNext]_addressVars => [Stable]_addressVars
  BY <1>1
<1> QED BY <1>2, AddressInvariance, PTL DEF AddressSpec, RowsAreStable

-----------------------------------------------------------------------------
(* DepositFlow: address requests and callbacks over one table. *)

Stored == {"saveLog", "findTx", "saveDeposit", "findBalance", "saveBalance"}

\* The variables the theorems are about.
FlowTypeOK ==
  /\ addresses \in [Address -> Company \cup {NoCompany}]
  /\ DOMAIN issued = Address
  /\ DOMAIN task = Request /\ DOMAIN held = Request /\ DOMAIN stage = Request
  /\ request \in [Callback -> Body \cup {NoBody}]
  /\ owner \in [Callback -> Company \cup {NoCompany}]
  /\ logs \in [Callback -> Company \cup {NoCompany}]
  /\ deposits \in [Callback -> Company \cup {NoCompany}]
  /\ DOMAIN pc = Callback

\* An address that is told is on record for the company that asked.
RequestOK(r) ==
  /\ stage[r] \in {"lookup", "findExisting", "take", "saveNew"} => task[r] \in Create
  /\ stage[r] \in {"findExisting", "take", "saveNew"} => CompanyOf[task[r].user] \in Company
  /\ stage[r] = "saveNew" => held[r] \in Address
  /\ stage[r] \in {"findRow", "saveStatus"} => task[r] \in Status
  /\ stage[r] = "returned" /\ task[r].kind = "create" =>
       /\ task[r] \in Create /\ CompanyOf[task[r].user] \in Company
       /\ held[r] \in Address /\ addresses[held[r]] = CompanyOf[task[r].user]

\* The copy of the company in a callback handler, and what it has written, agree
\* with the row of its address.
CallbackOK(c) ==
  /\ pc[c] = "idle" => logs[c] = NoCompany /\ deposits[c] = NoCompany /\ request[c] = NoBody
  /\ pc[c] \in D!InFlight => request[c] \in Body /\ issued[request[c].address] # NoUser
  /\ pc[c] \in Stored =>
       owner[c] \in Company /\ addresses[request[c].address] = owner[c]
  /\ logs[c] # NoCompany =>
       request[c] \in Body /\ logs[c] = addresses[request[c].address]
  /\ deposits[c] # NoCompany =>
       request[c] \in Body /\ deposits[c] = addresses[request[c].address]

FlowInv ==
  /\ FlowTypeOK
  /\ \A r \in Request : RequestOK(r)
  /\ \A c \in Callback : CallbackOK(c)

-----------------------------------------------------------------------------
\* The fields of bodies and tasks.
LEMMA Fields ==
  /\ \A b \in Body : b.address \in Address
  /\ \A t \in Create : t.kind = "create" /\ t.user \in User
  /\ \A t \in Status : t.kind = "status" /\ t.address \in Address
  BY FlowAssumption DEF D!BodyType, Create, Status

\* Nothing is asked, issued or booked.
LEMMA FlowInitOK == FlowInit => FlowInv
  BY FlowAssumption, UserAssumption, NoneAssumption
  DEF FlowInit, AddressInit, NoTask, D!Init, FlowInv, FlowTypeOK, RequestOK, CallbackOK, Stored, D!InFlight

\* Handlers that do not move keep what they rely on.
LEMMA RequestStays ==
  ASSUME FlowInv, BooksKept, NEW r \in Request, task'[r] = task[r], held'[r] = held[r], stage'[r] = stage[r]
  PROVE  RequestOK(r)'
  BY NoneAssumption DEF FlowInv, RequestOK, BooksKept

\* A callback that does not move keeps agreeing with the address table.
LEMMA CallbackStays ==
  ASSUME FlowInv, BooksKept, NEW c \in Callback, request'[c] = request[c], owner'[c] = owner[c],
         logs'[c] = logs[c], deposits'[c] = deposits[c], pc'[c] = pc[c] \/ pc'[c] \in {"failed", "refused", "lost"}
  PROVE  CallbackOK(c)'
<1>1. /\ request[c] \in Body => request[c].address \in Address
      /\ CallbackOK(c) /\ logs[c] \in Company \cup {NoCompany} /\ deposits[c] \in Company \cup {NoCompany}
  BY Fields DEF FlowInv, FlowTypeOK
<1>2. pc'[c] \in {"failed", "refused", "lost"} => pc'[c] \notin D!InFlight \cup Stored \cup {"idle"}
  BY DEF D!InFlight, Stored
<1>3. pc[c] \in Stored => pc[c] \in D!InFlight
  BY DEF D!InFlight, Stored
<1> QED BY <1>1, <1>2, <1>3, NoneAssumption DEF CallbackOK, BooksKept

\* A step of an address request.
LEMMA AddressStepOK ==
  ASSUME FlowInv, AddressStep PROVE FlowInv' /\ BooksKept
<1> USE DEF FlowInv, FlowTypeOK, GoOn
<1> DEFINE Frame(r) == \A q \in Request \ {r} :
                         task'[q] = task[q] /\ held'[q] = held[q] /\ stage'[q] = stage[q]
<1>0. UNCHANGED <<logs, deposits, request, owner, pc>>
  BY DEF AddressStep, callbackOnly
<1>a. ASSUME FlowTypeOK', BooksKept, NEW r \in Request, Frame(r), RequestOK(r)' PROVE FlowInv' /\ BooksKept
  BY <1>0, <1>a, RequestStays, CallbackStays
<1>1. ASSUME NEW r \in Request, NEW t \in Create \cup Status, Ask(r, t) PROVE FlowInv' /\ BooksKept
  <2>1. FlowTypeOK' /\ BooksKept /\ Frame(r)
    BY <1>0, <1>1 DEF Ask, addressTables, BooksKept
  <2>2. RequestOK(r)'
    BY <1>1, Fields DEF Ask, RequestOK
  <2> QED BY <2>1, <2>2, <1>a
<1>b. ASSUME NEW r \in Request, Throw(r) PROVE FlowInv' /\ BooksKept
  <2>1. FlowTypeOK' /\ BooksKept /\ Frame(r)
    BY <1>0, <1>b DEF Throw, addressTables, BooksKept
  <2>2. RequestOK(r)'
    BY <1>b DEF Throw, RequestOK
  <2> QED BY <2>1, <2>2, <1>a
<1>2. ASSUME NEW r \in Request, Lookup(r), ~Throw(r) PROVE FlowInv' /\ BooksKept
  <2>1. FlowTypeOK' /\ BooksKept /\ Frame(r)
    BY <1>0, <1>2 DEF Lookup, addressTables, BooksKept
  <2>2. RequestOK(r)'
    BY <1>2, Fields, UserAssumption, NoneAssumption DEF Lookup, RequestOK
  <2> QED BY <2>1, <2>2, <1>a
<1>3. ASSUME NEW r \in Request, FindExisting(r) PROVE FlowInv' /\ BooksKept
  <2>1. FlowTypeOK' /\ BooksKept /\ Frame(r)
    BY <1>0, <1>3 DEF FindExisting, addressTables, BooksKept
  <2>2. RequestOK(r)'
    BY <1>3 DEF FindExisting, RowsFor, addressTables, RequestOK
  <2> QED BY <2>1, <2>2, <1>a
<1>4. ASSUME NEW r \in Request, Take(r), ~Throw(r) PROVE FlowInv' /\ BooksKept
  <2>1. FlowTypeOK' /\ BooksKept /\ Frame(r)
    <3>1. task[r].user \in User
      BY <1>4, Fields DEF Take, RequestOK
    <3> QED BY <1>0, <1>4, <3>1, NoneAssumption DEF Take, Issuable, BooksKept
  <2>2. RequestOK(r)'
    BY <1>4 DEF Take, Issuable, RequestOK
  <2> QED BY <2>1, <2>2, <1>a
<1>5. ASSUME NEW r \in Request, SaveNew(r), ~Throw(r) PROVE FlowInv' /\ BooksKept
  <2>1. /\ task[r] \in Create /\ CompanyOf[task[r].user] \in Company /\ held[r] \in Address
        /\ task[r].kind = "create"
    BY <1>5, Fields DEF SaveNew, RequestOK
  <2>2. FlowTypeOK' /\ BooksKept /\ Frame(r)
    BY <1>0, <1>5, <2>1 DEF SaveNew, BooksKept
  <2>3. RequestOK(r)'
    BY <1>5, <2>1 DEF SaveNew, RequestOK
  <2> QED BY <2>2, <2>3, <1>a
<1>6. ASSUME NEW r \in Request, FindRow(r) \/ SaveStatus(r), ~Throw(r) PROVE FlowInv' /\ BooksKept
  <2>1. FlowTypeOK' /\ BooksKept /\ Frame(r)
    BY <1>0, <1>6 DEF FindRow, SaveStatus, addressTables, BooksKept
  <2>2. RequestOK(r)'
    BY <1>6, Fields DEF FindRow, SaveStatus, RequestOK
  <2> QED BY <2>1, <2>2, <1>a
<1>7. ASSUME NEW u \in User, NEW cur \in Currency, TakeDirectly(u, cur) PROVE FlowInv' /\ BooksKept
  <2>1. FlowTypeOK' /\ BooksKept /\ UNCHANGED <<task, held, stage>>
    BY <1>0, <1>7, NoneAssumption DEF TakeDirectly, Issuable, addressHandlers, BooksKept
  <2> QED BY <1>0, <2>1, RequestStays, CallbackStays
<1>8. ASSUME NEW r \in Request, Serve(r) \/ Error(r) PROVE FlowInv' /\ BooksKept
  BY <1>8, <1>b, <1>2, <1>3, <1>4, <1>5, <1>6 DEF Serve, Query, Error
<1> QED BY <1>1, <1>7, <1>8 DEF AddressStep

\* A step of a callback handler; its log is written as the row of the address says.
LEMMA CallbackStepOK ==
  ASSUME FlowInv, CallbackStep PROVE FlowInv' /\ BooksKept
<1> USE DEF FlowInv, FlowTypeOK, D!Goto
<1> DEFINE Frame(c) == \A k \in Callback \ {c} :
                         /\ request'[k] = request[k] /\ owner'[k] = owner[k] /\ logs'[k] = logs[k]
                         /\ deposits'[k] = deposits[k] /\ pc'[k] = pc[k]
<1>0. UNCHANGED <<issued, task, held, stage>>
  BY DEF CallbackStep, addressOnly
<1>a. ASSUME FlowTypeOK', BooksKept, NEW c \in Callback, Frame(c), CallbackOK(c)' PROVE FlowInv' /\ BooksKept
  BY <1>0, <1>a, RequestStays, CallbackStays
<1>b. ASSUME NEW c \in Callback, pc[c] \in D!InFlight
      PROVE  /\ CallbackOK(c) /\ request[c] \in Body /\ request[c].address \in Address
             /\ addresses[request[c].address] \in Company \cup {NoCompany}
  BY <1>b, Fields DEF CallbackOK
<1>1. ASSUME NEW c \in Callback, NEW b \in Body, Notify(c, b) PROVE FlowInv' /\ BooksKept
  <2>1. FlowTypeOK' /\ BooksKept /\ Frame(c)
    BY <1>0, <1>1 DEF Notify, D!Receive, D!tables, BooksKept
  <2>2. CallbackOK(c)'
    BY <1>0, <1>1 DEF Notify, D!Receive, D!tables, CallbackOK, Stored, D!InFlight
  <2> QED BY <2>1, <2>2, <1>a
<1>2. ASSUME NEW c \in Callback, D!Reject(c) \/ D!Refuse(c) PROVE FlowInv' /\ BooksKept
  <2>1. FlowTypeOK' /\ BooksKept /\ Frame(c)
    BY <1>0, <1>2 DEF D!Reject, D!Refuse, D!tables, BooksKept
  <2>2. CallbackOK(c)'
    BY <1>2, <2>1, CallbackStays DEF D!Reject, D!Refuse, D!tables
  <2> QED BY <2>1, <2>2, <1>a
<1>3. ASSUME NEW c \in Callback, D!FindAddress(c) PROVE FlowInv' /\ BooksKept
  <2>1. pc[c] \in D!InFlight
    BY <1>3 DEF D!FindAddress, D!InFlight
  <2>2. FlowTypeOK' /\ BooksKept /\ Frame(c)
    BY <1>0, <1>3, <2>1, <1>b DEF D!FindAddress, D!tables, BooksKept
  <2>3. CallbackOK(c)'
    BY <1>0, <1>3, <2>1, <1>b, NoneAssumption DEF D!FindAddress, D!tables, CallbackOK, Stored, D!InFlight
  <2> QED BY <2>2, <2>3, <1>a
<1>4. ASSUME NEW c \in Callback, D!SaveAddress(c), ~D!Reject(c) PROVE FlowInv' /\ BooksKept
  <2>1. pc[c] \in D!InFlight
    BY <1>4 DEF D!SaveAddress, D!InFlight
  <2>2. FlowTypeOK' /\ BooksKept /\ Frame(c)
    BY <1>0, <1>4, <2>1, <1>b, DefaultAssumption DEF D!SaveAddress, BooksKept
  <2>3. CallbackOK(c)'
    BY <1>0, <1>4, <2>1, <1>b, DefaultAssumption, NoneAssumption DEF D!SaveAddress, CallbackOK, Stored, D!InFlight
  <2> QED BY <2>2, <2>3, <1>a
<1>5. ASSUME NEW c \in Callback, D!SaveLog(c) \/ (D!SaveDeposit(c) /\ ~D!Reject(c)) PROVE FlowInv' /\ BooksKept
  <2>1. pc[c] \in D!InFlight /\ pc[c] \in Stored
    BY <1>5 DEF D!SaveLog, D!SaveDeposit, D!InFlight, Stored
  <2>2. FlowTypeOK' /\ BooksKept /\ Frame(c)
    BY <1>0, <1>5 DEF D!SaveLog, D!SaveDeposit, BooksKept
  <2>3. CallbackOK(c)'
    BY <1>0, <1>5, <2>1, <1>b DEF D!SaveLog, D!SaveDeposit, CallbackOK, Stored, D!InFlight
  <2> QED BY <2>2, <2>3, <1>a
<1>6. ASSUME NEW c \in Callback, ~D!Reject(c), D!FindTx(c) \/ D!FindBalance(c) \/ D!SaveBalance(c)
      PROVE  FlowInv' /\ BooksKept
  <2>1. pc[c] \in D!InFlight /\ pc[c] \in Stored
    BY <1>6 DEF D!FindTx, D!FindBalance, D!SaveBalance, D!InFlight, Stored
  <2>2. /\ UNCHANGED <<addresses, logs, deposits, request, owner>>
        /\ \E s \in {"saveDeposit", "findBalance", "saveBalance", "done"} : D!Goto(c, s)
    BY <1>6 DEF D!FindTx, D!FindBalance, D!SaveBalance, D!tables
  <2>3. FlowTypeOK' /\ BooksKept /\ Frame(c)
    BY <1>0, <2>2 DEF BooksKept
  <2>4. CallbackOK(c)'
    BY <1>0, <2>1, <2>2, <1>b DEF CallbackOK, Stored, D!InFlight
  <2> QED BY <2>3, <2>4, <1>a
<1>7. ASSUME NEW c \in Callback, D!Step(c) \/ D!Fail(c) PROVE FlowInv' /\ BooksKept
  BY <1>7, <1>2, <1>3, <1>4, <1>5, <1>6 DEF D!Step, D!Fail
<1> QED BY <1>1, <1>2, <1>7 DEF CallbackStep

\* Both halves, and a stop of the process.
LEMMA FlowStepOK == ASSUME FlowInv, [FlowNext]_flowVars PROVE FlowInv' /\ BooksKept
<1>1. ASSUME StopAll PROVE FlowInv' /\ BooksKept
  <2>1. FlowTypeOK' /\ BooksKept
    BY <1>1 DEF StopAll, FlowInv, FlowTypeOK, BooksKept
  <2>2. \A c \in Callback : CallbackOK(c)'
    BY <1>1, <2>1, CallbackStays DEF StopAll, FlowInv, FlowTypeOK
  <2>3. ASSUME NEW r \in Request PROVE RequestOK(r)'
    <3>1. CASE stage'[r] = "lost"
      BY <3>1 DEF RequestOK
    <3>2. CASE stage'[r] = stage[r]
      BY <1>1, <2>1, <3>2, RequestStays DEF StopAll
    <3> QED BY <1>1, <3>1, <3>2 DEF StopAll, FlowInv, FlowTypeOK
  <2> QED BY <2>1, <2>2, <2>3 DEF FlowInv
<1>2. ASSUME UNCHANGED flowVars PROVE FlowInv' /\ BooksKept
  <2>1. FlowTypeOK' /\ BooksKept
    BY <1>2 DEF flowVars, addressOnly, callbackOnly, FlowInv, FlowTypeOK, BooksKept
  <2> QED BY <1>2, <2>1, RequestStays, CallbackStays DEF flowVars, addressOnly, callbackOnly, FlowInv
<1> QED BY <1>1, <1>2, AddressStepOK, CallbackStepOK DEF FlowNext

\* The body of a delivery with a log row is the one it came with.
LEMMA BodyStays ==
  ASSUME FlowInv, [FlowNext]_flowVars, NEW c \in Callback, logs'[c] # NoCompany
  PROVE  request'[c] = request[c]
<1> USE DEF D!tables
<1>1. ASSUME NEW k \in Callback, NEW b \in Body, Notify(k, b) PROVE request'[c] = request[c]
  <2>1. k # c
    BY <1>1 DEF Notify, D!Receive, FlowInv, CallbackOK
  <2> QED BY <1>1, <2>1 DEF Notify, D!Receive, FlowInv, FlowTypeOK
<1>2. ASSUME NEW k \in Callback, D!Refuse(k) \/ D!Step(k) \/ D!Fail(k) PROVE request' = request
  BY <1>2 DEF D!Refuse, D!Step, D!FindAddress, D!SaveAddress, D!SaveLog, D!FindTx, D!SaveDeposit,
              D!FindBalance, D!SaveBalance, D!Fail, D!Reject
<1>3. AddressStep \/ StopAll \/ UNCHANGED flowVars => request' = request
  BY DEF AddressStep, StopAll, flowVars, callbackOnly
<1> QED BY <1>1, <1>2, <1>3 DEF FlowNext, CallbackStep

\* The invariant is inductive.
LEMMA FlowInvariance == FlowSpec => []FlowInv
<1>1. FlowInv /\ [FlowNext]_flowVars => FlowInv'
  BY FlowStepOK
<1> QED BY FlowInitOK, <1>1, PTL DEF FlowSpec

\* What the callbacks do to the variables of DepositAddress is nothing, or the one
\* insert DepositAddress has for them: the address was issued before it is reported.
LEMMA FlowStepImplements ==
  ASSUME FlowInv, [FlowNext]_flowVars PROVE [AddressNext]_addressVars
<1>1. ASSUME NEW c \in Callback, D!SaveAddress(c), ~D!Reject(c), UNCHANGED addressOnly
      PROVE  InsertByCallback(request[c].address) /\ request[c].address \in Address
  <2>1. pc[c] \in D!InFlight
    BY <1>1 DEF D!SaveAddress, D!InFlight
  <2>2. request[c].address \in Address /\ issued[request[c].address] # NoUser
    BY <2>1, Fields DEF FlowInv, CallbackOK
  <2> QED BY <1>1, <2>2 DEF D!SaveAddress, InsertByCallback, addressOnly, addressHandlers
<1>2. ASSUME NEW c \in Callback, UNCHANGED addressOnly,
             \/ D!SaveAddress(c) /\ D!Reject(c)
             \/ \E b \in Body : Notify(c, b)
             \/ D!Refuse(c) \/ D!Fail(c) \/ D!FindAddress(c) \/ D!SaveLog(c) \/ D!FindTx(c)
             \/ D!SaveDeposit(c) \/ D!FindBalance(c) \/ D!SaveBalance(c)
      PROVE  UNCHANGED addressVars
  BY <1>2 DEF Notify, D!Receive, D!Refuse, D!Fail, D!Reject, D!FindAddress, D!SaveLog, D!FindTx,
              D!SaveDeposit, D!FindBalance, D!SaveBalance, D!tables, addressVars, addressOnly
<1>3. CallbackStep => [AddressNext]_addressVars
  BY <1>1, <1>2 DEF CallbackStep, D!Step, AddressNext
<1>4. AddressStep => AddressNext
  BY DEF AddressStep, AddressNext
<1>5. StopAll => AddressNext
  BY DEF StopAll, AddressNext, Stop, addressTables
<1>6. UNCHANGED flowVars => UNCHANGED addressVars
  BY DEF flowVars, addressOnly, addressVars
<1> QED BY <1>3, <1>4, <1>5, <1>6 DEF FlowNext

\* The composition of both handlers implements DepositAddress, the insert of its
\* environment included: what is proved of DepositAddress holds of the flow.
THEOREM FlowImplementsAddress == FlowSpec => AddressInit /\ [][AddressNext]_addressVars
<1>1. FlowSpec => [][AddressNext]_addressVars
  BY FlowStepImplements, FlowInvariance, PTL DEF FlowSpec
<1>2. FlowInit => AddressInit
  BY DEF FlowInit
<1> QED BY <1>1, <1>2, PTL DEF FlowSpec

\* A body that has come in stays with its delivery.
LEMMA RequestsStay ==
  ASSUME FlowInv, [FlowNext]_flowVars, NEW c \in Callback, request[c] # NoBody
  PROVE  request'[c] = request[c]
<1> USE DEF D!tables
<1>1. ASSUME NEW k \in Callback, NEW b \in Body, Notify(k, b) PROVE request'[c] = request[c]
  <2>1. k # c
    BY <1>1 DEF Notify, D!Receive, FlowInv, CallbackOK
  <2> QED BY <1>1, <2>1 DEF Notify, D!Receive, FlowInv, FlowTypeOK
<1>2. ASSUME NEW k \in Callback, D!Refuse(k) \/ D!Step(k) \/ D!Fail(k) PROVE request' = request
  BY <1>2 DEF D!Refuse, D!Step, D!FindAddress, D!SaveAddress, D!SaveLog, D!FindTx, D!SaveDeposit,
              D!FindBalance, D!SaveBalance, D!Fail, D!Reject
<1>3. AddressStep \/ StopAll \/ UNCHANGED flowVars => request' = request
  BY DEF AddressStep, StopAll, flowVars, callbackOnly
<1> QED BY <1>1, <1>2, <1>3 DEF FlowNext, CallbackStep

\* A new row is the provider's user's, or the default company's after a callback.
LEMMA RowsStep ==
  ASSUME FlowInv, AddressInv, RowAgreesWithProvider, [FlowNext]_flowVars
  PROVE  RowAgreesWithProvider'
<1> DEFINE Reported(a) == \E c \in Callback : request[c] # NoBody /\ request[c].address = a
           ReportedNext(a) == \E c \in Callback : request'[c] # NoBody /\ request'[c].address = a
<1>0. /\ BooksKept
      /\ \A a \in Address : Reported(a) => ReportedNext(a)
  BY FlowStepOK, RequestsStay
<1> HIDE DEF Reported, ReportedNext
<1> SUFFICES ASSUME NEW a \in Address, addresses'[a] # NoCompany
             PROVE  /\ issued'[a] # NoUser
                    /\ \/ addresses'[a] = CompanyOf[issued'[a]]
                       \/ addresses'[a] = DefaultCompany /\ ReportedNext(a)
  BY DEF RowAgreesWithProvider, ReportedNext
<1>1. CASE addresses[a] # NoCompany
  BY <1>0, <1>1 DEF RowAgreesWithProvider, BooksKept, Reported
<1>2. CASE addresses[a] = NoCompany
  <2>1. ASSUME NEW r \in Request, SaveNew(r), ~Throw(r)
        PROVE  issued'[a] # NoUser /\ addresses'[a] = CompanyOf[issued'[a]]
    <3>1. /\ held[r] \in Address /\ issued[held[r]] = task[r].user /\ task[r].user \in User
      BY <2>1 DEF SaveNew, AddressInv, HandlersAgree, HandlerOK, Creating, Create
    <3>2. a = held[r]
      BY <1>2, <2>1, <3>1 DEF SaveNew, AddressInv, AddressTypeOK
    <3> QED BY <2>1, <3>1, <3>2, NoneAssumption DEF SaveNew, AddressInv, AddressTypeOK
  <2>2. ASSUME NEW c \in Callback, D!SaveAddress(c), ~D!Reject(c), UNCHANGED addressOnly
        PROVE  issued'[a] # NoUser /\ addresses'[a] = DefaultCompany /\ ReportedNext(a)
    <3>1. pc[c] \in D!InFlight
      BY <2>2 DEF D!SaveAddress, D!InFlight
    <3>2. /\ request[c] \in Body /\ request[c].address \in Address
          /\ issued[request[c].address] # NoUser /\ request[c] # NoBody
      BY <3>1, Fields, FlowAssumption DEF FlowInv, CallbackOK
    <3>3. a = request[c].address /\ addresses'[a] = DefaultCompany /\ request' = request
      BY <1>2, <2>2, <3>2 DEF D!SaveAddress, AddressInv, AddressTypeOK
    <3> QED BY <2>2, <3>2, <3>3 DEF ReportedNext, addressOnly
  <2>3. CASE addresses' = addresses
    BY <1>2, <2>3
  <2>4. \/ addresses' = addresses
        \/ \E r \in Request : SaveNew(r) /\ ~Throw(r)
        \/ \E c \in Callback : D!SaveAddress(c) /\ ~D!Reject(c) /\ UNCHANGED addressOnly
    <3>1. AddressStep => addresses' = addresses \/ \E r \in Request : SaveNew(r) /\ ~Throw(r)
      BY DEF AddressStep, Ask, Serve, Query, Lookup, FindExisting, Take, FindRow, SaveStatus, Error,
             Throw, TakeDirectly, addressTables
    <3>2. CallbackStep =>
            \/ addresses' = addresses
            \/ \E c \in Callback : D!SaveAddress(c) /\ ~D!Reject(c) /\ UNCHANGED addressOnly
      BY DEF CallbackStep, Notify, D!Receive, D!Refuse, D!Step, D!Fail, D!Reject, D!FindAddress,
             D!SaveLog, D!FindTx, D!SaveDeposit, D!FindBalance, D!SaveBalance, D!tables
    <3> QED BY <3>1, <3>2 DEF FlowNext, StopAll, flowVars
  <2> QED BY <2>1, <2>2, <2>3, <2>4
<1> QED BY <1>1, <1>2

\* A row disagrees with the provider only where a callback was there first, and
\* then it names the default company.
THEOREM Row_AgreesWithProvider == FlowSpec => []RowAgreesWithProvider
<1>1. FlowInit => RowAgreesWithProvider
  BY DEF FlowInit, AddressInit, RowAgreesWithProvider
<1>2. FlowSpec => []AddressInv
  BY FlowImplementsAddress, AddressSafety, PTL
<1> QED BY <1>1, <1>2, RowsStep, FlowInvariance, PTL DEF FlowSpec

\* Whoever createAddressForUser tells an address has all deposits to it booked on
\* its company, whichever of the two handlers saved the row.
THEOREM Told_ThenBooked == FlowSpec => []ToldThenBooked
<1>1. FlowInv => ToldThenBooked
  BY Fields DEF FlowInv, RequestOK, CallbackOK, ToldThenBooked
<1> QED BY <1>1, FlowInvariance, PTL

\* The first row of an address decides for good, and for every log.
THEOREM FirstRow_Decides == FlowSpec => FirstRowDecides
<1> DEFINE Decides ==
      \A a \in Address :
        addresses[a] # NoCompany =>
          /\ addresses'[a] = addresses[a]
          /\ \A c \in Callback :
               (logs'[c] # NoCompany /\ request[c] # NoBody /\ request[c].address = a) =>
                 logs'[c] = addresses[a]
<1>1. ASSUME FlowInv, [FlowNext]_flowVars PROVE Decides
  <2>1. FlowInv' /\ BooksKept
    BY <1>1, FlowStepOK
  <2>2. \A c \in Callback : logs'[c] # NoCompany =>
          request'[c] = request[c] /\ logs'[c] = addresses'[request'[c].address]
    BY <1>1, <2>1, BodyStays DEF FlowInv, CallbackOK
  <2> QED BY <2>1, <2>2 DEF BooksKept
<1>2. FlowSpec => [][Decides]_flowVars
  BY <1>1, FlowInvariance, PTL DEF FlowSpec
<1> QED BY <1>2 DEF FirstRowDecides
=============================================================================
