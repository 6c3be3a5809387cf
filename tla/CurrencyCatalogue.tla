-------------------------- MODULE CurrencyCatalogue --------------------------
(***************************************************************************)
(* CurrencyService: the table currencies is synchronised with what the     *)
(* provider offers, by CurrencyScheduler and by a list that finds nothing, *)
(* while staff hide and show currencies and a client reads the list page   *)
(* by page.                                                                *)
(*                                                                         *)
(* Of the columns the synchronisation writes, deposit_fee_percent stands   *)
(* for all.  createdAt is the rank of a row in the order of the inserts.   *)
(***************************************************************************)
EXTENDS GenericQuery

CONSTANTS
  Currency, Fee,
  Request,     \* requests for PATCH /currencies/:id/status
  Listing,     \* what a client that reads the list asks for, but the page
  NotOffered, NoRow,
  MaxChange,   \* bound: how often the provider changes its offer
  MaxTrouble   \* bound: failures and crashes

ASSUME CatalogueAssumption ==
  /\ IsFiniteSet(Currency)
  /\ NotOffered \notin Fee /\ MaxChange \in Nat /\ MaxTrouble \in Nat
  /\ \A o \in Listing : /\ DOMAIN o \subseteq {"limit", "filters", "search"}
                        /\ "limit" \in DOMAIN o => o.limit \in Int

VARIABLES
  offer,    \* external: the fee the provider asks for each currency
  rows,     \* currencies, by their unique column
  job,      \* the synchronisations, with what they have still to upsert
  walk,     \* the client: the page it is at and what it has seen
  request,  \* the requests of staff, with the entity they hold
  changes, trouble \* how much has happened, for the bounds

catalogueVars == <<offer, rows, job, walk, request, changes, trouble>>

Process == {"cron", "list"}

CurrencyRow == [currency: Currency, fee: Fee, visible: BOOLEAN, createdAt: Nat]
Column == {"fee", "visible"}

ASSUME NoRowAssumption == NoRow \notin CurrencyRow

NoJob == [running |-> FALSE, todo |-> {}]

\* The table as a set of rows.
Table(rs) == {rs[c] : c \in {d \in Currency : rs[d] # NoRow}}

\* getAllCurrencies
ListConfig == [searchable |-> {"currency"}, enforced |-> [visible |-> TRUE]]

AtPage(o, n) == [k \in DOMAIN o \cup {"page"} |-> IF k = "page" THEN n ELSE o[k]]

\* The currencies that a walk through the pages is to show.
Shown(rs, o) == {row.currency : row \in Matches(Table(rs), ListConfig, o)}

CatalogueInit ==
  /\ offer \in [Currency -> Fee \cup {NotOffered}]
  /\ rows = [c \in Currency |-> NoRow]
  /\ job = [p \in Process |-> NoJob]
  /\ walk = [at |-> "idle"]
  /\ request = [q \in Request |-> [at |-> "idle"]]
  /\ changes = 0 /\ trouble = 0

\* The table changes.  A walk remembers whether anything it is to show has left
\* the list meanwhile.
WriteRows(rs) ==
  /\ rows' = rs
  /\ walk' = IF walk.at \in {"query", "sync", "requery"}
             THEN [walk EXCEPT !.steady = @ /\ Shown(rows, walk.options) \subseteq Shown(rs, walk.options)]
             ELSE walk

\* External: the provider changes a fee, or what it offers.
Change(c, f) ==
  /\ changes < MaxChange /\ offer[c] # f
  /\ offer' = [offer EXCEPT ![c] = f]
  /\ changes' = changes + 1
  /\ UNCHANGED <<rows, job, walk, request, trouble>>

-----------------------------------------------------------------------------
(* syncFromAlphaPo: process "cron" of CurrencyScheduler, "list" of a list *)

\* The request for the provider's list is answered.
Fetch(p) ==
  /\ ~job[p].running
  /\ p = "list" => walk.at = "sync"
  /\ job' = [job EXCEPT ![p] =
       [running |-> TRUE, todo |-> {[currency |-> c, fee |-> offer[c]] :
                                    c \in {d \in Currency : offer[d] # NotOffered}}]]
  /\ UNCHANGED <<offer, rows, walk, request, changes, trouble>>

\* The rank of a row inserted now.
Latest == Cardinality(Table(rows)) + 1

\* Mutant: the commented-out column of the upsert is written.
UpsertedVisible(o) ==
  IF rows[o.currency] = NoRow
  THEN [currency |-> o.currency, fee |-> o.fee, visible |-> TRUE, createdAt |-> Latest]
  ELSE [rows[o.currency] EXCEPT !.fee = o.fee, !.visible = TRUE]

\* Mutant: a row that exists is left alone.
UpsertedOnce(o) ==
  IF rows[o.currency] = NoRow
  THEN [currency |-> o.currency, fee |-> o.fee, visible |-> TRUE, createdAt |-> Latest]
  ELSE rows[o.currency]

\* ON CONFLICT (currency): `visible' is left alone, and true in a new row.
Upserted(o) ==
  IF rows[o.currency] = NoRow
  THEN [currency |-> o.currency, fee |-> o.fee, visible |-> TRUE, createdAt |-> Latest]
  ELSE [rows[o.currency] EXCEPT !.fee = o.fee]

Upsert(p) ==
  /\ \E o \in job[p].todo :
       /\ WriteRows([rows EXCEPT ![o.currency] = Upserted(o)])
       /\ job' = [job EXCEPT ![p].todo = @ \ {o}]
  /\ UNCHANGED <<offer, request, changes, trouble>>

\* The loop is over; a list queries again.
Synced(p) ==
  /\ job[p].running /\ job[p].todo = {}
  /\ job' = [job EXCEPT ![p] = NoJob]
  /\ walk' = IF p = "list" THEN [walk EXCEPT !.at = "requery"] ELSE walk
  /\ UNCHANGED <<offer, rows, request, changes, trouble>>

\* The provider or a query fails: the job ends, or the list with an error.
Abort(p) ==
  /\ trouble < MaxTrouble
  /\ IF p = "cron" THEN job[p].running ELSE walk.at \in {"query", "sync", "requery"}
  /\ job' = [job EXCEPT ![p] = NoJob]
  /\ walk' = IF p = "list" THEN [at |-> "failed"] ELSE walk
  /\ trouble' = trouble + 1
  /\ UNCHANGED <<offer, rows, request, changes>>

-----------------------------------------------------------------------------
(* GET /currencies, one page after the other *)

StartWalk(o) ==
  /\ walk.at = "idle"
  /\ walk' = [at |-> "query", options |-> o, page |-> 1, seen |-> {},
              due |-> Shown(rows, o), steady |-> TRUE]
  /\ UNCHANGED <<offer, rows, job, request, changes, trouble>>

\* The first query of getAllCurrencies: nothing found starts a synchronisation.
\* The second, after it, is answered in any case.
List ==
  LET o == AtPage(walk.options, walk.page) IN
  /\ walk.at \in {"query", "requery"}
  /\ \/ Fails(o) /\ walk' = [at |-> "failed"]
     \/ /\ ~Fails(o)
        /\ \E items \in Items(Table(rows), ListConfig, o) :
             \/ /\ items # {}
                /\ walk' = [walk EXCEPT !.at = "query", !.page = @ + 1,
                                        !.seen = @ \cup {row.currency : row \in items}]
             \/ /\ items = {}
                /\ walk' = [walk EXCEPT !.at = IF @ = "query" THEN "sync" ELSE "done"]
  /\ UNCHANGED <<offer, rows, job, request, changes, trouble>>

-----------------------------------------------------------------------------
(* PATCH /currencies/:id/status *)

\* findOne: the entity, with the new value
FindCurrency(q, c, v) ==
  /\ request[q].at = "idle" /\ rows[c] # NoRow
  /\ request' = [request EXCEPT ![q] =
       [at |-> "found", currency |-> c, visible |-> v, entity |-> [rows[c] EXCEPT !.visible = v]]]
  /\ UNCHANGED <<offer, rows, job, walk, changes, trouble>>

\* The request is answered, and lets go of its entity.
Ended(r, at) == [at |-> at, currency |-> r.currency, visible |-> r.visible]

\* save: the row is read once more, and the columns in which the entity differs
\* are to be written.
LoadForSave(q) ==
  /\ request[q].at = "found"
  /\ request' = [request EXCEPT ![q] =
       [at |-> "loaded", currency |-> request[q].currency, visible |-> request[q].visible,
        entity |-> request[q].entity,
        columns |-> {k \in Column : request[q].entity[k] # rows[request[q].currency][k]}]]
  /\ UNCHANGED <<offer, rows, job, walk, changes, trouble>>

\* save: the UPDATE
SaveStatus(q) ==
  LET r == request[q] IN
  /\ r.at = "loaded"
  /\ WriteRows([rows EXCEPT ![r.currency] =
       [k \in DOMAIN @ |-> IF k \in r.columns THEN r.entity[k] ELSE @[k]]])
  /\ request' = [request EXCEPT ![q] = Ended(r, "answered")]
  /\ UNCHANGED <<offer, job, changes, trouble>>

\* One of its queries fails: 500.
FailStatus(q) ==
  /\ request[q].at \in {"found", "loaded"} /\ trouble < MaxTrouble
  /\ request' = [request EXCEPT ![q] = Ended(request[q], "failed")]
  /\ trouble' = trouble + 1
  /\ UNCHANGED <<offer, rows, job, walk, changes>>

\* The process stops and starts again.
Stop ==
  /\ trouble < MaxTrouble
  /\ job' = [p \in Process |-> NoJob]
  /\ walk' = IF walk.at \in {"query", "sync", "requery"} THEN [at |-> "failed"] ELSE walk
  /\ request' = [q \in Request |-> IF request[q].at \in {"found", "loaded"}
                                   THEN Ended(request[q], "failed") ELSE request[q]]
  /\ trouble' = trouble + 1
  /\ UNCHANGED <<offer, rows, changes>>

CatalogueNext ==
  \/ \E c \in Currency, f \in Fee \cup {NotOffered} : Change(c, f)
  \/ \E p \in Process : Fetch(p) \/ Upsert(p) \/ Synced(p) \/ Abort(p)
  \/ \E o \in Listing : StartWalk(o)
  \/ List
  \/ \E q \in Request : \/ \E c \in Currency, v \in BOOLEAN : FindCurrency(q, c, v)
                        \/ LoadForSave(q) \/ SaveStatus(q) \/ FailStatus(q)
  \/ Stop

\* The job is started every six hours, and its queries are answered; that the
\* provider answers, which is called without a timeout, is assumed of it.
CatalogueSpec ==
  /\ CatalogueInit /\ [][CatalogueNext]_catalogueVars
  /\ WF_catalogueVars(Fetch("cron") \/ Upsert("cron") \/ Synced("cron"))

-----------------------------------------------------------------------------
(* Properties. *)

\* What staff decide about a currency stands, whatever synchronisations write in
\* between: a row nobody has asked to hide is visible, and when all requests for
\* a currency ask for the same and one was answered, its row is as they asked.
VisibilityAsAsked ==
  \A c \in Currency : rows[c] # NoRow =>
    LET asked == {q \in Request : request[q].at # "idle" /\ request[q].currency = c}
    IN \A v \in BOOLEAN :
         /\ \A q \in asked : request[q].visible = v
         /\ v \/ \E q \in asked : request[q].at = "answered"
         => rows[c].visible = v

\* Fees the database has missed, or that a status request or an overtaken
\* synchronisation has put back, are not wrong for good: once the provider rests
\* and failures end, every offered currency has its row and its fee.
CatalogueCatchesUp ==
  <>[](\A c \in Currency : offer[c] # NotOffered => rows[c] # NoRow /\ rows[c].fee = offer[c])

\* A client that reads page after page until one is empty has seen every
\* currency that was on the list when it began, although a synchronisation may
\* insert rows, which come first, between two pages -- unless something was
\* taken off the list meanwhile.
WalkMissesNothing == walk.at = "done" /\ walk.steady => walk.due \subseteq walk.seen
=============================================================================
