--------------------------- MODULE DepositAddress ---------------------------
(***************************************************************************)
(* Deposit addresses: DepositService.createAddressForUser and              *)
(* updateAddressStatus, AlphapoService.createDepositAddress, and the       *)
(* endpoint POST /create-address of AlphapoController, which hands the     *)
(* request to the provider without a row of its own.                       *)
(*                                                                         *)
(* The provider is external: it issues an address of the currency asked    *)
(* for, one it never gave out or, to the same foreign id, the same again.  *)
(* The other writer of crypto_addresses, a deposit callback that meets an  *)
(* address without a row, is one step here; DepositFlow has its handler.   *)
(***************************************************************************)
EXTENDS Naturals, FiniteSets

CONSTANTS
  Request,          \* HTTP requests that create an address or set its status
  User,             \* users; foreign_id is `user-<id>'
  Address, Company, Currency,
  CompanyOf,        \* users.company of each user, or NoCompany
  CurrencyOf,       \* the currency an address of the provider is for
  DefaultCompany,   \* company 1, which a deposit callback gives to a new row
  NoCompany, NoUser, NoAddress

ASSUME UserAssumption    == CompanyOf \in [User -> Company \cup {NoCompany}]
ASSUME AddressAssumption == CurrencyOf \in [Address -> Currency]
ASSUME DefaultAssumption == DefaultCompany \in Company
ASSUME NoneAssumption    == NoCompany \notin Company /\ NoUser \notin User /\ NoAddress \notin Address

VARIABLES
  addresses,  \* crypto_addresses: the company of each address, or NoCompany
  active,     \* crypto_addresses.isActive
  issued,     \* external: the user the provider issued an address to
  task,       \* what a request asks: a user and a currency, or an address and a status
  held,       \* the address in the handler's memory, or NoAddress
  stage       \* where the handler of each request is

addressTables   == <<addresses, active, issued>>
addressHandlers == <<task, held, stage>>
addressVars     == <<addresses, active, issued, task, held, stage>>

NoTask == [kind |-> "none"]
Create == [kind: {"create"}, user: User, currency: Currency]
Status == [kind: {"status"}, address: Address, active: BOOLEAN]

Working == {"lookup", "findExisting", "take", "saveNew", "findRow", "saveStatus"}
Ended   == {"returned", "rejected"}

-----------------------------------------------------------------------------
AddressInit ==
  /\ addresses = [a \in Address |-> NoCompany]
  /\ active    = [a \in Address |-> TRUE]
  /\ issued    = [a \in Address |-> NoUser]
  /\ task      = [r \in Request |-> NoTask]
  /\ held      = [r \in Request |-> NoAddress]
  /\ stage     = [r \in Request |-> "idle"]

\* The handler of request r resumes and runs to its next await.
GoOn(r, s) == stage' = [stage EXCEPT ![r] = s]

\* A request arrives: createAddressForUser, or updateAddressStatus.
Ask(r, t) ==
  /\ stage[r] = "idle"
  /\ GoOn(r, IF t.kind = "create" THEN "lookup" ELSE "findRow")
  /\ task' = [task EXCEPT ![r] = t]
  /\ UNCHANGED <<addressTables, held>>

\* A query or the provider throws: the request ends in an HTTP error.
Throw(r) == GoOn(r, "rejected") /\ UNCHANGED <<addressTables, task, held>>

\* Step 1: user, company and currency are found; Error(r) when one is not.
Lookup(r) ==
  /\ stage[r] = "lookup"
  /\ \/ /\ CompanyOf[task[r].user] # NoCompany
        /\ GoOn(r, "findExisting")
        /\ UNCHANGED <<addressTables, task, held>>
     \/ CompanyOf[task[r].user] = NoCompany /\ Throw(r)

\* Mutant: the look-up forgets the company.
RowsForCurrency(k, cur) == {a \in Address : addresses[a] # NoCompany /\ CurrencyOf[a] = cur}

\* The rows of company k in currency cur.
RowsFor(k, cur) == {a \in Address : addresses[a] = k /\ CurrencyOf[a] = cur}

\* Step 2: any row of the company in the currency is the answer.
FindExisting(r) ==
  LET rows == RowsFor(CompanyOf[task[r].user], task[r].currency) IN
  /\ stage[r] = "findExisting"
  /\ \/ /\ rows # {}
        /\ \E a \in rows : held' = [held EXCEPT ![r] = a]
        /\ GoOn(r, "returned")
     \/ /\ rows = {}
        /\ GoOn(r, "take")
        /\ UNCHANGED held
  /\ UNCHANGED <<addressTables, task>>

\* What the provider may answer user u in currency cur.
Issuable(u, cur) == {a \in Address : CurrencyOf[a] = cur /\ issued[a] \in {u, NoUser}}

\* Step 3: the provider issues an address to `user-<id>', if it has one.
Take(r) ==
  LET free == Issuable(task[r].user, task[r].currency) IN
  /\ stage[r] = "take"
  /\ \/ /\ \E a \in free : /\ issued' = [issued EXCEPT ![a] = task[r].user]
                            /\ held' = [held EXCEPT ![r] = a]
        /\ GoOn(r, "saveNew")
        /\ UNCHANGED <<addresses, active, task>>
     \/ free = {} /\ Throw(r)

\* Mutants: a company the caller names; an insert that waits instead
\* of failing; an answer although nothing is saved.
SaveNewForAnyone(r) ==
  /\ stage[r] = "saveNew"
  /\ addresses[held[r]] = NoCompany
  /\ \E k \in Company : addresses' = [addresses EXCEPT ![held[r]] = k]
  /\ GoOn(r, "returned")
  /\ UNCHANGED <<active, issued, task, held>>
SaveNewWaits(r) ==
  /\ stage[r] = "saveNew"
  /\ addresses[held[r]] = NoCompany
  /\ addresses' = [addresses EXCEPT ![held[r]] = CompanyOf[task[r].user]]
  /\ GoOn(r, "returned")
  /\ UNCHANGED <<active, issued, task, held>>

SaveNewAnswersAnyway(r) ==
  /\ stage[r] = "saveNew"
  /\ addresses' = IF addresses[held[r]] = NoCompany
                  THEN [addresses EXCEPT ![held[r]] = CompanyOf[task[r].user]]
                  ELSE addresses
  /\ GoOn(r, "returned")
  /\ UNCHANGED <<active, issued, task, held>>

\* Step 4: the row is inserted; address is a unique column.
SaveNew(r) ==
  /\ stage[r] = "saveNew"
  /\ \/ /\ addresses[held[r]] = NoCompany
        /\ addresses' = [addresses EXCEPT ![held[r]] = CompanyOf[task[r].user]]
        /\ GoOn(r, "returned")
        /\ UNCHANGED <<active, issued, task, held>>
     \/ addresses[held[r]] # NoCompany /\ Throw(r)

\* Mutant: the status is set whether there is a row or not.
FindRowUnchecked(r) ==
  /\ stage[r] = "findRow"
  /\ held' = [held EXCEPT ![r] = task[r].address]
  /\ GoOn(r, "saveStatus")
  /\ UNCHANGED <<addressTables, task>>

\* updateAddressStatus: cryptoAddressRepo.findOne, or 404
FindRow(r) ==
  /\ stage[r] = "findRow"
  /\ \/ /\ addresses[task[r].address] # NoCompany
        /\ held' = [held EXCEPT ![r] = task[r].address]
        /\ GoOn(r, "saveStatus")
        /\ UNCHANGED <<addressTables, task>>
     \/ addresses[task[r].address] = NoCompany /\ Throw(r)

\* Mutant: a missing status is written as null.
SaveStatusNull(r) ==
  /\ stage[r] = "saveStatus"
  /\ active' = [active EXCEPT ![held[r]] = NoAddress]
  /\ GoOn(r, "returned")
  /\ UNCHANGED <<addresses, issued, task, held>>

\* updateAddressStatus: the row is written back with the new status.
SaveStatus(r) ==
  /\ stage[r] = "saveStatus"
  /\ active' = [active EXCEPT ![held[r]] = task[r].active]
  /\ GoOn(r, "returned")
  /\ UNCHANGED <<addresses, issued, task, held>>

\* A query fails, a company or currency is missing, the provider refuses.
Error(r) == stage[r] \in Working /\ Throw(r)

\* POST /create-address: the provider issues an address; no row is written.
TakeDirectly(u, cur) ==
  /\ \E a \in Issuable(u, cur) : issued' = [issued EXCEPT ![a] = u]
  /\ UNCHANGED <<addresses, active, addressHandlers>>

\* The process stops; what is written and what is issued stays.
Stop ==
  /\ stage' = [r \in Request |-> IF stage[r] \in Working THEN "lost" ELSE stage[r]]
  /\ UNCHANGED <<addressTables, task, held>>

\* Another handler: handleDepositCallback, told of a deposit to an issued address
\* it finds no row of, inserts one.
InsertByCallback(a) ==
  /\ issued[a] # NoUser /\ addresses[a] = NoCompany
  /\ addresses' = [addresses EXCEPT ![a] = DefaultCompany]
  /\ UNCHANGED <<active, issued, addressHandlers>>

\* The steps that wait for the database only, and all the steps.
Query(r) == Lookup(r) \/ FindExisting(r) \/ SaveNew(r) \/ FindRow(r) \/ SaveStatus(r)
Serve(r) == Query(r) \/ Take(r)

AddressNext ==
  \/ \E r \in Request : \/ \E t \in Create \cup Status : Ask(r, t)
                        \/ Serve(r) \/ Error(r)
  \/ \E u \in User, cur \in Currency : TakeDirectly(u, cur)
  \/ \E a \in Address : InsertByCallback(a)
  \/ Stop

\* Awaited queries settle and resume their handler.  A call of the provider is
\* posted without a timeout: nobody promises that it does.
AddressSpec == /\ AddressInit /\ [][AddressNext]_addressVars
               /\ \A r \in Request : WF_addressVars(Query(r))

-----------------------------------------------------------------------------
(* Properties. *)

AddressTypeOK ==
  /\ addresses \in [Address -> Company \cup {NoCompany}]
  /\ active \in [Address -> BOOLEAN]
  /\ issued \in [Address -> User \cup {NoUser}]
  /\ task \in [Request -> Create \cup Status \cup {NoTask}]
  /\ held \in [Request -> Address \cup {NoAddress}]
  /\ stage \in [Request -> {"idle", "lost"} \cup Working \cup Ended]

\* A merchant is only ever told an address that is on record for the caller's
\* company and currency, so that callbacks for it will find its company, even
\* when another request saves a row between the look-up and the insert.
ToldAddressIsOwned ==
  \A r \in Request :
    (stage[r] = "returned" /\ task[r].kind = "create") =>
      /\ addresses[held[r]] = CompanyOf[task[r].user]
      /\ CurrencyOf[held[r]] = task[r].currency

\* A row is never moved to another company nor removed, and its status changes
\* only when a request asks for just that status, although updateAddressStatus
\* writes back a row it read earlier.
RowsAreStable ==
  [][\A a \in Address :
       /\ addresses[a] # NoCompany => addresses'[a] = addresses[a]
       /\ active'[a] # active[a] =>
            /\ addresses[a] # NoCompany
            /\ \E r \in Request : /\ task[r] = [kind |-> "status", address |-> a,
                                                active |-> active'[a]]
                                  /\ stage[r] = "saveStatus" /\ stage'[r] = "returned"
    ]_addressVars

\* A request is held up by nothing but the provider: unless the process stops, it
\* is answered or comes to wait for the answer of the provider, whatever other
\* requests wait for theirs, and once it has an answer it ends.
OnlyProviderHoldsUp ==
  \A r \in Request : stage[r] \in Working \ {"take"} ~> stage[r] \notin Working \ {"take"}
=============================================================================
