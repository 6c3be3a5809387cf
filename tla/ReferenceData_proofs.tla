------------------------ MODULE ReferenceData_proofs ------------------------
(***************************************************************************)
(* Theorems about the tables that others refer to, how they are filled and *)
(* how they are read: CurrencyCatalogue, GenericQuery and Seeding, for     *)
(* every set of currencies, fees, requests, menus and permissions, and any *)
(* number of changes, runs, failures and crashes.                          *)
(***************************************************************************)
EXTENDS CurrencyCatalogue, Seeding, FiniteSetTheorems, TLAPS

-----------------------------------------------------------------------------
(* CurrencyCatalogue *)

Asking == [at: {"found"}, currency: Currency, visible: BOOLEAN, entity: CurrencyRow]
Saving == [at: {"loaded"}, currency: Currency, visible: BOOLEAN, entity: CurrencyRow,
           columns: SUBSET Column]
Over   == [at: {"answered", "failed"}, currency: Currency, visible: BOOLEAN]
Asked  == Asking \cup Saving \cup Over

RowsOK ==
  /\ offer \in [Currency -> Fee \cup {NotOffered}]
  /\ rows \in [Currency -> CurrencyRow \cup {NoRow}]
  /\ job \in [Process -> [running: BOOLEAN, todo: SUBSET [currency: Currency, fee: Fee]]]
  /\ request \in [Request -> Asked \cup {[at |-> "idle"]}]

\* A request holds an entity with the value it asks for, of a row that exists.
RequestsOK ==
  \A q \in Request : request[q] \in Asked =>
    /\ rows[request[q].currency] # NoRow
    /\ request[q].at \in {"found", "loaded"} => request[q].entity.visible = request[q].visible

\* The row of c is as asked: also when a request has merely found that it need
\* not write the column.
Settled(q) == \/ request[q].at = "answered"
              \/ request[q].at = "loaded" /\ "visible" \notin request[q].columns

AllAsk(c, v) == \A q \in Request : request[q] \in Asked /\ request[q].currency = c =>
                                     request[q].visible = v

RowAsAsked(c, v) ==
  (/\ rows[c] # NoRow
   /\ AllAsk(c, v)
   /\ v \/ \E q \in Request : request[q] \in Asked /\ request[q].currency = c /\ Settled(q))
  => rows[c].visible = v

CatalogueIInv == /\ RowsOK /\ RequestsOK
                 /\ \A c \in Currency, v \in BOOLEAN : RowAsAsked(c, v)

\* A synchronisation writes rows, and leaves `visible' of a row that exists.
LEMMA UpsertedRow ==
  ASSUME RowsOK, NEW o \in [currency: Currency, fee: Fee]
  PROVE  /\ Upserted(o) \in CurrencyRow
         /\ rows[o.currency] = NoRow => Upserted(o).visible = TRUE
         /\ rows[o.currency] # NoRow => Upserted(o).visible = rows[o.currency].visible
  <1>1. IsFiniteSet(Table(rows))
    <2> DEFINE S == {d \in Currency : rows[d] # NoRow}
               f == [d \in S |-> rows[d]]
    <2>1. IsFiniteSet(S)
      BY CatalogueAssumption, FS_Subset
    <2>2. f \in Surjection(S, Table(rows))
      BY DEF Table, Surjection
    <2>3. QED BY <2>1, <2>2, FS_Surjection
  <1>2. Latest \in Nat
    BY <1>1, FS_CardinalityType DEF Latest
  <1>3. o.currency \in Currency /\ o.fee \in Fee
    OBVIOUS
  <1>4. CASE rows[o.currency] = NoRow
    BY <1>2, <1>3, <1>4 DEF Upserted, CurrencyRow
  <1>5. CASE rows[o.currency] # NoRow
    BY <1>3, <1>5 DEF Upserted, CurrencyRow, RowsOK
  <1>6. QED BY <1>4, <1>5

\* The row a request saves: its columns come from the entity or stay.
SavedRow(q) == [k \in DOMAIN rows[request[q].currency] |->
                  IF k \in request[q].columns THEN request[q].entity[k]
                                              ELSE rows[request[q].currency][k]]

\* The row that a status request writes is a row of its currency.
LEMMA SavedRowOK ==
  ASSUME RowsOK, RequestsOK, NEW q \in Request, request[q].at = "loaded"
  PROVE  /\ request[q] \in Saving
         /\ SavedRow(q) \in CurrencyRow
         /\ SavedRow(q).currency = rows[request[q].currency].currency
         /\ SavedRow(q).createdAt = rows[request[q].currency].createdAt
         /\ "visible" \in request[q].columns => SavedRow(q).visible = request[q].visible
         /\ "visible" \notin request[q].columns =>
              SavedRow(q).visible = rows[request[q].currency].visible
  <1>1. request[q] \in Saving
    BY DEF RowsOK, Asked, Asking, Saving, Over
  <1>2. rows[request[q].currency] \in CurrencyRow
    BY <1>1 DEF RowsOK, RequestsOK, Asked, Saving
  <1>3. request[q].entity \in CurrencyRow /\ request[q].columns \subseteq Column
    BY <1>1 DEF Saving
  <1>4. request[q].entity.visible = request[q].visible
    BY <1>1 DEF RequestsOK, Asked, Saving
  <1> DEFINE r == rows[request[q].currency]
             e == request[q].entity
             cols == request[q].columns
  <1>5. SavedRow(q) = [k \in DOMAIN r |-> IF k \in cols THEN e[k] ELSE r[k]]
    BY DEF SavedRow
  <1> HIDE DEF r, e, cols
  <1>6. SavedRow(q) = [currency |-> r.currency, fee |-> IF "fee" \in cols THEN e.fee ELSE r.fee,
                       visible |-> IF "visible" \in cols THEN e.visible ELSE r.visible,
                       createdAt |-> r.createdAt]
    BY <1>2, <1>3, <1>5 DEF CurrencyRow, Column, r, cols
  <1>7. QED BY <1>1, <1>2, <1>3, <1>4, <1>6 DEF CurrencyRow, r, e, cols

\* The empty catalogue.
LEMMA CatalogueInitOK == CatalogueInit => CatalogueIInv
  <1> SUFFICES ASSUME CatalogueInit PROVE CatalogueIInv
    OBVIOUS
  <1>1. RowsOK
    BY DEF CatalogueInit, RowsOK, NoJob
  <1>2. RequestsOK
    BY DEF CatalogueInit, RequestsOK, Asked, Asking, Saving, Over
  <1>3. ASSUME NEW c \in Currency, NEW v \in BOOLEAN PROVE RowAsAsked(c, v)
    BY DEF CatalogueInit, RowAsAsked
  <1>4. QED BY <1>1, <1>2, <1>3 DEF CatalogueIInv

\* Steps that write no row and let no request go further than to its end.
LEMMA QuietStep ==
  ASSUME CatalogueIInv, RowsOK', UNCHANGED rows,
         \A q \in Request : \/ request'[q] = request[q]
                            \/ /\ request[q] \in Asking \cup Saving
                               /\ request'[q] = Ended(request[q], "failed")
  PROVE  CatalogueIInv'
  <1> USE DEF CatalogueIInv
  <1>1. ASSUME NEW q \in Request PROVE
          /\ request[q] \in Asked <=> request'[q] \in Asked
          /\ request[q] \in Asked => /\ request'[q].currency = request[q].currency
                                     /\ request'[q].visible = request[q].visible
          /\ Settled(q)' => Settled(q)
          /\ request'[q].at \in {"found", "loaded"} => request'[q] = request[q]
    <2>1. CASE request'[q] = request[q]
      BY <2>1 DEF Settled
    <2>2. CASE request[q] \in Asking \cup Saving /\ request'[q] = Ended(request[q], "failed")
      <3>1. request[q].currency \in Currency /\ request[q].visible \in BOOLEAN
        BY <2>2 DEF Asking, Saving
      <3>2. request'[q] = [at |-> "failed", currency |-> request[q].currency,
                           visible |-> request[q].visible]
        BY <2>2 DEF Ended
      <3>3. request'[q] \in Over /\ ~Settled(q)'
        BY <3>1, <3>2 DEF Over, Settled
      <3>4. QED BY <2>2, <3>2, <3>3 DEF Asked
    <2>3. QED BY <2>1, <2>2
  <1>2. RequestsOK'
    BY <1>1 DEF RequestsOK
  <1>3. ASSUME NEW c \in Currency, NEW v \in BOOLEAN PROVE RowAsAsked(c, v)'
    <2>1. AllAsk(c, v)' => AllAsk(c, v)
      BY <1>1 DEF AllAsk
    <2>2. QED BY <1>1, <2>1 DEF RowAsAsked
  <1>4. QED BY <1>2, <1>3

\* A synchronisation writes a row.
LEMMA UpsertStep ==
  ASSUME CatalogueIInv, NEW p \in Process, Upsert(p)
  PROVE  CatalogueIInv'
  <1> USE DEF CatalogueIInv
  <1>1. PICK o \in job[p].todo : /\ WriteRows([rows EXCEPT ![o.currency] = Upserted(o)])
                                /\ job' = [job EXCEPT ![p].todo = @ \ {o}]
    BY DEF Upsert
  <1>2. o \in [currency: Currency, fee: Fee] /\ UNCHANGED <<offer, request>>
    BY DEF RowsOK, Upsert
  <1>3. rows' = [rows EXCEPT ![o.currency] = Upserted(o)]
    BY <1>1 DEF WriteRows
  <1>4. RowsOK'
    <2>1. rows' \in [Currency -> CurrencyRow \cup {NoRow}]
      BY <1>2, <1>3, UpsertedRow DEF RowsOK
    <2>2. job' \in [Process -> [running: BOOLEAN, todo: SUBSET [currency: Currency, fee: Fee]]]
      BY <1>1 DEF RowsOK
    <2>3. QED BY <1>2, <2>1, <2>2 DEF RowsOK
  <1>5. \A c \in Currency : /\ rows[c] # NoRow => rows'[c] # NoRow /\ rows'[c].visible = rows[c].visible
                            /\ rows[c] = NoRow /\ rows'[c] # NoRow => rows'[c].visible = TRUE
    BY <1>2, <1>3, UpsertedRow, NoRowAssumption DEF RowsOK
  <1>6. RequestsOK'
    BY <1>2, <1>5 DEF RequestsOK, Asked, Asking, Saving, Over
  <1>7. ASSUME NEW c \in Currency, NEW v \in BOOLEAN PROVE RowAsAsked(c, v)'
    <2>1. AllAsk(c, v)' = AllAsk(c, v) /\ \A q \in Request : Settled(q)' = Settled(q)
      BY <1>2 DEF AllAsk, Settled
    <2>2. CASE rows[c] # NoRow
      BY <1>2, <1>5, <2>1, <2>2 DEF RowAsAsked
    <2>3. CASE rows[c] = NoRow
      BY <1>2, <1>5, <2>1, <2>3 DEF RowAsAsked, RequestsOK
    <2>4. QED BY <2>2, <2>3
  <1>8. QED BY <1>4, <1>6, <1>7

\* A request finds a row: one more asks for c.
LEMMA FindCurrencyStep ==
  ASSUME CatalogueIInv, NEW q \in Request, NEW c \in Currency, NEW v \in BOOLEAN, FindCurrency(q, c, v)
  PROVE  CatalogueIInv'
  <1> USE DEF CatalogueIInv
  <1>1. rows[c] \in CurrencyRow /\ request[q] \notin Asked
    BY DEF FindCurrency, RowsOK, Asked, Asking, Saving, Over
  <1> DEFINE new == [at |-> "found", currency |-> c, visible |-> v,
                     entity |-> [rows[c] EXCEPT !.visible = v]]
  <1>2. [rows[c] EXCEPT !.visible = v] \in CurrencyRow /\ [rows[c] EXCEPT !.visible = v].visible = v
    BY <1>1 DEF CurrencyRow
  <1>3. request' = [request EXCEPT ![q] = new] /\ new \in Asking /\ UNCHANGED <<rows, offer, job>>
    BY <1>2 DEF FindCurrency, Asking
  <1>4. RowsOK'
    BY <1>3 DEF RowsOK, Asked
  <1>5. request'[q] = new /\ \A r \in Request : r # q => request'[r] = request[r]
    BY <1>3 DEF RowsOK
  <1>6. RequestsOK'
    BY <1>2, <1>3, <1>5 DEF RequestsOK, FindCurrency
  <1>7. ASSUME NEW d \in Currency, NEW w \in BOOLEAN PROVE RowAsAsked(d, w)'
    <2>1. AllAsk(d, w)' => AllAsk(d, w)
      BY <1>1, <1>5 DEF AllAsk
    <2>2. ~Settled(q)' /\ \A r \in Request : r # q => Settled(r)' = Settled(r)
      BY <1>5 DEF Settled
    <2>3. QED BY <1>3, <1>5, <2>1, <2>2 DEF RowAsAsked
  <1>8. QED BY <1>4, <1>6, <1>7

\* A request compares its entity with the row.
LEMMA LoadForSaveStep ==
  ASSUME CatalogueIInv, NEW q \in Request, LoadForSave(q)
  PROVE  CatalogueIInv'
  <1> USE DEF CatalogueIInv
  <1>1. request[q] \in Asking
    BY DEF LoadForSave, RowsOK, Asked, Asking, Saving, Over
  <1> DEFINE r == request[q]
             cols == {k \in Column : r.entity[k] # rows[r.currency][k]}
             new == [at |-> "loaded", currency |-> r.currency, visible |-> r.visible,
                     entity |-> r.entity, columns |-> cols]
  <1>2. request' = [request EXCEPT ![q] = new] /\ UNCHANGED <<rows, offer, job>>
    BY DEF LoadForSave
  <1>3. new \in Saving
    BY <1>1 DEF Asking, Saving
  <1>4. RowsOK'
    BY <1>2, <1>3 DEF RowsOK, Asked
  <1>5. request'[q] = new /\ \A s \in Request : s # q => request'[s] = request[s]
    BY <1>2 DEF RowsOK
  <1>6. r \in Asked /\ new \in Asked
    BY <1>1, <1>3 DEF Asked
  <1>7. "visible" \notin cols => rows[r.currency].visible = r.visible
    BY <1>1, <1>6 DEF Column, RequestsOK, Asking
  <1>8. r.entity.visible = r.visible /\ rows[r.currency] # NoRow
    BY <1>1, <1>6 DEF RequestsOK, Asking
  <1>9. new.currency = r.currency /\ new.visible = r.visible /\ new.entity = r.entity
        /\ new.columns = cols /\ new.at = "loaded"
    OBVIOUS
  <1> HIDE DEF new, cols
  <1>10. RequestsOK'
    BY <1>2, <1>5, <1>6, <1>8, <1>9 DEF RequestsOK
  <1>11. ASSUME NEW d \in Currency, NEW w \in BOOLEAN PROVE RowAsAsked(d, w)'
    <2>1. AllAsk(d, w)' = AllAsk(d, w)
      BY <1>5, <1>6, <1>9 DEF AllAsk
    <2>2. \A s \in Request : s # q => Settled(s)' = Settled(s)
      BY <1>5 DEF Settled
    <2>3. Settled(q)' => "visible" \notin cols
      BY <1>5, <1>9 DEF Settled
    <2>4. CASE r.currency = d /\ Settled(q)' /\ AllAsk(d, w)
      <3>1. rows[d].visible = w
        BY <1>6, <1>7, <2>3, <2>4 DEF AllAsk
      <3>2. QED BY <1>2, <3>1 DEF RowAsAsked
    <2>5. CASE ~(r.currency = d /\ Settled(q)' /\ AllAsk(d, w))
      BY <1>2, <1>5, <1>6, <1>9, <2>1, <2>2, <2>5 DEF RowAsAsked
    <2>6. QED BY <2>4, <2>5
  <1>12. QED BY <1>4, <1>10, <1>11

\* A request writes the columns in which it found a difference.
LEMMA SaveStatusStep ==
  ASSUME CatalogueIInv, NEW q \in Request, SaveStatus(q)
  PROVE  CatalogueIInv'
  <1> USE DEF CatalogueIInv
  <1> DEFINE r == request[q]
             new == Ended(r, "answered")
  <1>1. r.at = "loaded" /\ UNCHANGED <<offer, job>> /\ request' = [request EXCEPT ![q] = new]
    BY DEF SaveStatus
  <1>2. rows' = [rows EXCEPT ![r.currency] = SavedRow(q)]
    BY DEF SaveStatus, WriteRows, SavedRow
  <1>3. /\ r \in Saving /\ SavedRow(q) \in CurrencyRow
        /\ "visible" \in r.columns => SavedRow(q).visible = r.visible
        /\ "visible" \notin r.columns => SavedRow(q).visible = rows[r.currency].visible
    BY <1>1, SavedRowOK
  <1>4. r \in Asked /\ rows[r.currency] # NoRow /\ r.currency \in Currency
    BY <1>3 DEF RequestsOK, Asked, Saving
  <1>5. new \in Over /\ new.currency = r.currency /\ new.visible = r.visible /\ new.at = "answered"
    BY <1>3 DEF Ended, Over, Saving
  <1>6. request'[q] = new /\ \A s \in Request : s # q => request'[s] = request[s]
    BY <1>1 DEF RowsOK
  <1>7. rows'[r.currency] = SavedRow(q) /\ \A c \in Currency : c # r.currency => rows'[c] = rows[c]
    BY <1>2, <1>4 DEF RowsOK
  <1>8. RowsOK'
    BY <1>1, <1>2, <1>3, <1>4, <1>5 DEF RowsOK, Asked
  <1> HIDE DEF new
  <1>9. RequestsOK'
    <2>1. \A c \in Currency : rows[c] # NoRow => rows'[c] # NoRow
      BY <1>3, <1>7, NoRowAssumption
    <2>2. \A s \in Request : request[s] \in Asked => request[s].currency \in Currency
      BY DEF Asked, Asking, Saving, Over
    <2>3. QED BY <1>4, <1>5, <1>6, <2>1, <2>2 DEF RequestsOK
  <1>10. ASSUME NEW c \in Currency, NEW v \in BOOLEAN PROVE RowAsAsked(c, v)'
    <2>1. AllAsk(c, v)' = AllAsk(c, v)
      BY <1>4, <1>5, <1>6 DEF AllAsk, Asked
    <2>2. \A s \in Request : s # q => Settled(s)' = Settled(s)
      BY <1>6 DEF Settled
    <2>3. CASE c # r.currency
      BY <1>4, <1>5, <1>6, <1>7, <2>1, <2>2, <2>3 DEF RowAsAsked
    <2>4. CASE c = r.currency /\ AllAsk(c, v)
      <3>1. r.visible = v
        BY <1>4, <2>4 DEF AllAsk
      <3>2. CASE "visible" \in r.columns
        BY <1>3, <1>7, <2>4, <3>1, <3>2 DEF RowAsAsked
      <3>3. CASE "visible" \notin r.columns
        <4>1. rows[c].visible = v
          BY <1>1, <1>4, <2>4, <3>3 DEF RowAsAsked, Settled
        <4>2. QED BY <1>3, <1>7, <2>4, <3>3, <4>1 DEF RowAsAsked
      <3>4. QED BY <3>2, <3>3
    <2>5. QED BY <2>1, <2>3, <2>4 DEF RowAsAsked
  <1>11. QED BY <1>8, <1>9, <1>10

\* The invariant of the rows and of the requests, one step per action.
LEMMA CatalogueStep == CatalogueIInv /\ [CatalogueNext]_catalogueVars => CatalogueIInv'
  <1> SUFFICES ASSUME CatalogueIInv, [CatalogueNext]_catalogueVars PROVE CatalogueIInv'
    OBVIOUS
  <1>0. RowsOK
    BY DEF CatalogueIInv
  <1>1. ASSUME NEW c \in Currency, NEW f \in Fee \cup {NotOffered}, Change(c, f) PROVE CatalogueIInv'
    BY <1>0, <1>1, QuietStep DEF Change, RowsOK
  <1>2. ASSUME NEW p \in Process, Fetch(p) PROVE CatalogueIInv'
    <2>1. RowsOK'
      BY <1>0, <1>2 DEF Fetch, RowsOK
    <2>2. QED BY <1>2, <2>1, QuietStep DEF Fetch
  <1>3. ASSUME NEW p \in Process, Upsert(p) PROVE CatalogueIInv'
    BY <1>3, UpsertStep
  <1>4. ASSUME NEW p \in Process, Synced(p) PROVE CatalogueIInv'
    BY <1>0, <1>4, QuietStep DEF Synced, RowsOK, NoJob
  <1>5. ASSUME NEW p \in Process, Abort(p) PROVE CatalogueIInv'
    BY <1>0, <1>5, QuietStep DEF Abort, RowsOK, NoJob
  <1>6. ASSUME NEW o \in Listing, StartWalk(o) PROVE CatalogueIInv'
    BY <1>0, <1>6, QuietStep DEF StartWalk, RowsOK
  <1>7. ASSUME List PROVE CatalogueIInv'
    BY <1>0, <1>7, QuietStep DEF List, RowsOK
  <1>8. ASSUME NEW q \in Request, NEW c \in Currency, NEW v \in BOOLEAN, FindCurrency(q, c, v)
        PROVE CatalogueIInv'
    BY <1>8, FindCurrencyStep
  <1>9. ASSUME NEW q \in Request, LoadForSave(q) PROVE CatalogueIInv'
    BY <1>9, LoadForSaveStep
  <1>10. ASSUME NEW q \in Request, SaveStatus(q) PROVE CatalogueIInv'
    BY <1>10, SaveStatusStep
  <1>11. ASSUME NEW q \in Request, FailStatus(q) PROVE CatalogueIInv'
    <2>1. request[q] \in Asking \cup Saving
      BY <1>0, <1>11 DEF FailStatus, RowsOK, Asked, Over
    <2>2. Ended(request[q], "failed") \in Over
      BY <2>1 DEF Ended, Asking, Saving, Over
    <2>3. RowsOK'
      BY <1>0, <1>11, <2>2 DEF FailStatus, RowsOK, Asked
    <2>4. QED BY <1>0, <1>11, <2>1, <2>3, QuietStep DEF FailStatus, RowsOK
  <1>12. ASSUME Stop PROVE CatalogueIInv'
    <2>1. ASSUME NEW q \in Request, request[q].at \in {"found", "loaded"}
          PROVE  request[q] \in Asking \cup Saving /\ Ended(request[q], "failed") \in Over
      <3>1. request[q] \in Asking \cup Saving
        BY <1>0, <2>1 DEF RowsOK, Asked, Over
      <3>2. QED BY <3>1 DEF Ended, Asking, Saving, Over
    <2>2. RowsOK'
      BY <1>0, <1>12, <2>1 DEF Stop, RowsOK, Asked, NoJob
    <2>3. QED BY <1>0, <1>12, <2>1, <2>2, QuietStep DEF Stop, RowsOK
  <1>13. CASE UNCHANGED catalogueVars
    BY <1>0, <1>13, QuietStep DEF catalogueVars, RowsOK
  <1>14. QED
    BY <1>1, <1>2, <1>3, <1>4, <1>5, <1>6, <1>7, <1>8, <1>9, <1>10, <1>11, <1>12, <1>13 DEF CatalogueNext

\* What staff decide about a currency stands against any number of synchronisations,
\* requests, failures and crashes in between.
THEOREM Visibility_Stands == CatalogueSpec => []VisibilityAsAsked
  <1>1. CatalogueIInv => VisibilityAsAsked
    <2>1. SUFFICES ASSUME CatalogueIInv, NEW c \in Currency, rows[c] # NoRow, NEW v \in BOOLEAN,
                          NEW asked, asked = {q \in Request : request[q].at # "idle" /\ request[q].currency = c},
                          \A q \in asked : request[q].visible = v,
                          v \/ \E q \in asked : request[q].at = "answered"
                   PROVE  rows[c].visible = v
      BY DEF VisibilityAsAsked
    <2>2. \A q \in Request : request[q] \in Asked <=> request[q].at # "idle"
      BY <2>1 DEF CatalogueIInv, RowsOK, Asked, Asking, Saving, Over
    <2>3. AllAsk(c, v)
      BY <2>1, <2>2 DEF AllAsk
    <2>4. v \/ \E q \in Request : request[q] \in Asked /\ request[q].currency = c /\ Settled(q)
      BY <2>1, <2>2 DEF Settled
    <2>5. QED BY <2>1, <2>3, <2>4 DEF CatalogueIInv, RowAsAsked
  <1>2. QED BY CatalogueInitOK, CatalogueStep, <1>1, PTL DEF CatalogueSpec

-----------------------------------------------------------------------------
(* GenericQuery: what it answers, for every table, configuration and options. *)

\* A list shows rows that match.
LEMMA ItemsMatch ==
  ASSUME NEW table, NEW cfg, NEW o, NEW items \in Items(table, cfg, o), NEW row \in items
  PROVE  row \in table /\ Admits(row, Enforced(cfg), cfg, o) /\ Admits(row, SafeFilters(cfg, o), cfg, o)
  BY DEF Items, Matches

\* The lists of deposits, addresses, balances and companies set filters.companyId
\* of a merchant's request to its own company, over whatever the request had
\* there: only rows of that company are shown, whichever other filters, search,
\* order or page are asked for.
THEOREM OwnRowsOnly ==
  ASSUME NEW table, NEW cfg, NEW o, NEW own,
         own # Null, "filters" \in DOMAIN o,
         "companyId" \in DOMAIN o.filters, o.filters.companyId = own,
         "allowed" \in DOMAIN cfg => "companyId" \in cfg.allowed,
         NEW items \in Items(table, cfg, o), NEW row \in items
  PROVE  row.companyId = own
  <1>1. Given(o, "filters", NoFilter) = o.filters
    BY DEF Given
  <1>2. "companyId" \in DOMAIN SafeFilters(cfg, o) /\ SafeFilters(cfg, o)["companyId"] = own
    BY <1>1 DEF SafeFilters
  <1>3. Parameter(cfg, o, "companyId") = own
    BY <1>2 DEF Parameter
  <1>4. QED BY <1>2, <1>3, ItemsMatch DEF Admits

\* Of an enforced filter nothing better holds than this: a row that is shown has
\* the enforced value, or else the caller's filters name the same column, the
\* configuration does not exclude it, and the row has the caller's value.  Both
\* conditions share one parameter and the caller's value replaces the enforced
\* one, although GenericQueryConfig says that enforced filters always apply; the
\* lists of currencies and of companies, which have one, exclude no column.
THEOREM EnforcedOrReplaced ==
  ASSUME NEW table, NEW cfg, NEW o, NEW k \in DOMAIN Enforced(cfg), Enforced(cfg)[k] # Null,
         NEW items \in Items(table, cfg, o), NEW row \in items
  PROVE  \/ row[k] = Enforced(cfg)[k]
         \/ /\ k \in DOMAIN Given(o, "filters", NoFilter)
            /\ "allowed" \in DOMAIN cfg => k \in cfg.allowed
            /\ row[k] = Given(o, "filters", NoFilter)[k] /\ row[k] # Null
  <1> DEFINE safe == SafeFilters(cfg, o)
  <1>1. row[k] = Parameter(cfg, o, k)
    BY ItemsMatch DEF Admits
  <1>2. CASE k \in DOMAIN safe /\ safe[k] # Null
    <2>1. row[k] = safe[k]
      BY <1>1, <1>2 DEF Parameter
    <2>2. /\ k \in DOMAIN Given(o, "filters", NoFilter)
          /\ "allowed" \in DOMAIN cfg => k \in cfg.allowed
          /\ safe[k] = Given(o, "filters", NoFilter)[k]
      BY <1>2 DEF SafeFilters
    <2>3. QED BY <1>2, <2>1, <2>2
  <1>3. CASE ~(k \in DOMAIN safe /\ safe[k] # Null)
    BY <1>1, <1>3 DEF Parameter
  <1>4. QED BY <1>2, <1>3

\* The pages of a list are disjoint: a place belongs to one page.
LEMMA PagesAreDisjoint ==
  ASSUME NEW o, NEW p, NEW place \in Nat, Limit(o) \in Nat, Limit(p) = Limit(o),
         Page(o) \in Nat \ {0}, Page(p) \in Nat \ {0},
         OnPage(place, o), OnPage(place, p)
  PROVE  Page(o) = Page(p)
  <1> DEFINE n == Limit(o)
             a == Page(o)
             b == Page(p)
  <1>1. /\ (a - 1) * n <= place /\ place < (a - 1) * n + n
        /\ (b - 1) * n <= place /\ place < (b - 1) * n + n
    BY DEF OnPage, Skipped
  <1>2. n \in Nat /\ a \in Nat /\ b \in Nat
    OBVIOUS
  <1> HIDE DEF n, a, b
  <1>3. ASSUME NEW i \in Nat, NEW j \in Nat, i < j PROVE (i - 1) * n + n <= (j - 1) * n
    <2>1. PICK d \in Nat : j = i + 1 + d
      <3>1. j - i - 1 \in Nat
        BY <1>3
      <3>2. j = i + 1 + (j - i - 1)
        OBVIOUS
      <3>3. QED BY <3>1, <3>2
    <2>2. (j - 1) * n = (i - 1) * n + n + d * n
      BY <1>2, <2>1
    <2>3. d * n \in Nat
      BY <1>2
    <2>4. (i - 1) * n \in Int
      BY <1>2
    <2>5. QED BY <1>2, <2>2, <2>3, <2>4
  <1>4. (a - 1) * n \in Int /\ (b - 1) * n \in Int
    BY <1>2
  <1>5. ~(a < b) /\ ~(b < a)
    BY <1>1, <1>2, <1>3, <1>4
  <1>6. a = b
    BY <1>2, <1>5
  <1>7. QED BY <1>6 DEF a, b

\* And every place belongs to a page.
LEMMA PagesCover ==
  ASSUME NEW n \in Nat \ {0}, NEW place \in Nat
  PROVE  \E a \in Nat \ {0} : (a - 1) * n <= place /\ place < (a - 1) * n + n
  <1>1. place \div n \in Nat /\ place = n * (place \div n) + (place % n) /\ place % n \in 0..n - 1
    OBVIOUS
  <1>2. WITNESS place \div n + 1 \in Nat \ {0}
  <1>3. (place \div n + 1 - 1) * n = n * (place \div n)
    BY <1>1
  <1>4. QED BY <1>1, <1>3

\* The page changes neither the rows that match nor their order.
LEMMA AnyPage ==
  ASSUME NEW table, NEW cfg, NEW o, NEW n \in Nat \ {0}
  PROVE  /\ Matches(table, cfg, AtPage(o, n)) = Matches(table, cfg, o)
         /\ Order(cfg, AtPage(o, n)) = Order(cfg, o)
         /\ Limit(AtPage(o, n)) = Limit(o) /\ Page(AtPage(o, n)) = n
         /\ Unlimited(cfg, AtPage(o, n)) <=> Unlimited(cfg, o)
  <1> DEFINE p == AtPage(o, n)
  <1>1. /\ DOMAIN p = DOMAIN o \cup {"page"} /\ p["page"] = n
        /\ \A k \in DOMAIN o : k # "page" => p[k] = o[k]
    BY DEF AtPage
  <1> HIDE DEF p
  <1>2. /\ \A d : /\ Given(p, "limit", d) = Given(o, "limit", d)
                  /\ Given(p, "filters", d) = Given(o, "filters", d)
                  /\ Given(p, "orderDir", d) = Given(o, "orderDir", d)
                  /\ Given(p, "page", d) = n
        /\ \A k \in {"orderBy", "from", "until", "search"} :
              /\ k \in DOMAIN p <=> k \in DOMAIN o
              /\ k \in DOMAIN o => p[k] = o[k]
    BY <1>1 DEF Given
  <1>3. Matches(table, cfg, p) = Matches(table, cfg, o)
    <2>1. SafeFilters(cfg, p) = SafeFilters(cfg, o)
      BY <1>2 DEF SafeFilters
    <2>2. \A k : Parameter(cfg, p, k) = Parameter(cfg, o, k)
      BY <2>1 DEF Parameter
    <2>3. \A row, filters : Admits(row, filters, cfg, p) = Admits(row, filters, cfg, o)
      BY <2>2 DEF Admits
    <2>4. \A row : InRange(row, p) = InRange(row, o) /\ IsFound(row, cfg, p) = IsFound(row, cfg, o)
      BY <1>2 DEF InRange, IsFound
    <2>5. QED BY <2>1, <2>3, <2>4 DEF Matches
  <1>4. Order(cfg, p) = Order(cfg, o)
    BY <1>2 DEF Order
  <1>5. Limit(p) = Limit(o) /\ Page(p) = n
    BY <1>2 DEF Limit, Page
  <1>6. QED BY <1>3, <1>4, <1>5 DEF Unlimited, p

\* Walking the pages of a list shows every row that matches, on just one page, as
\* long as the table does not change and the database keeps to one ranking of
\* the rows that are equal in the column of the order.
THEOREM EachRowOnOnePage ==
  ASSUME NEW table, IsFiniteSet(table), NEW cfg, NEW o, Limit(o) \in Nat \ {0}, ~Unlimited(cfg, o),
         NEW f \in Rankings(Matches(table, cfg, o), Order(cfg, o))
  PROVE  \E page \in [Nat \ {0} -> SUBSET table] :
           /\ \A n \in Nat \ {0} : page[n] \in Items(table, cfg, AtPage(o, n))
           /\ \A row \in Matches(table, cfg, o) :
                \E n \in Nat \ {0} : /\ row \in page[n]
                                    /\ \A m \in Nat \ {0} : row \in page[m] => m = n
  <1> DEFINE found == Matches(table, cfg, o)
             page  == [n \in Nat \ {0} |-> {row \in found : OnPage(f[row], AtPage(o, n))}]
  <1>1. page \in [Nat \ {0} -> SUBSET table]
    BY DEF Matches
  <1>2. ASSUME NEW n \in Nat \ {0} PROVE page[n] \in Items(table, cfg, AtPage(o, n))
    <2>1. page[n] = {row \in found : Unlimited(cfg, AtPage(o, n)) \/ OnPage(f[row], AtPage(o, n))}
      BY <1>2, AnyPage
    <2>2. f \in Rankings(Matches(table, cfg, AtPage(o, n)), Order(cfg, AtPage(o, n)))
      BY <1>2, AnyPage
    <2> HIDE DEF page
    <2>3. QED BY <1>2, <2>1, <2>2, AnyPage DEF Items
  <1>3. ASSUME NEW row \in found
        PROVE  \E n \in Nat \ {0} : /\ row \in page[n]
                                   /\ \A m \in Nat \ {0} : row \in page[m] => m = n
    <2>1. f[row] \in Nat
      <3>1. Cardinality(found) \in Nat
        BY FS_Subset, FS_CardinalityType DEF Matches
      <3>2. f[row] \in 0..Cardinality(found) - 1
        BY <1>3 DEF Rankings
      <3>3. QED BY <3>1, <3>2
    <2>2. PICK n \in Nat \ {0} : (n - 1) * Limit(o) <= f[row] /\ f[row] < (n - 1) * Limit(o) + Limit(o)
      BY <2>1, PagesCover
    <2>3. OnPage(f[row], AtPage(o, n))
      BY <2>2, AnyPage DEF OnPage, Skipped
    <2>4. ASSUME NEW m \in Nat \ {0}, row \in page[m] PROVE m = n
      <3>1. OnPage(f[row], AtPage(o, m))
        BY <2>4
      <3>2. /\ Limit(AtPage(o, m)) \in Nat /\ Limit(AtPage(o, n)) = Limit(AtPage(o, m))
            /\ Page(AtPage(o, m)) = m /\ Page(AtPage(o, n)) = n
        BY AnyPage
      <3>3. QED BY <2>1, <2>3, <3>1, <3>2, PagesAreDisjoint
    <2>5. QED BY <1>3, <2>3, <2>4
  <1> HIDE DEF page
  <1>4. QED BY <1>1, <1>2, <1>3

-----------------------------------------------------------------------------
(* A walk through the pages.  The invariant: what a client has still to see  *)
(* stands in the ranking behind all the pages it has read.                   *)

Inserted(rs) == {d \in Currency : rs[d] # NoRow}

\* The rows that a list of all of them shows before the row of c.
AheadOf(rs, o, c) == {d \in Shown(rs, o) : rs[d].createdAt > rs[c].createdAt}

\* A row is that of its currency, and no two were inserted at the same time.
RanksOK ==
  /\ \A c \in Inserted(rows) : /\ rows[c].currency = c
                               /\ rows[c].createdAt <= Cardinality(Inserted(rows))
  /\ \A c, d \in Inserted(rows) : rows[c].createdAt = rows[d].createdAt => c = d

Walking == [at: {"query", "sync", "requery", "done"}, options: Listing, page: Nat \ {0},
            seen: SUBSET Currency, due: SUBSET Currency, steady: BOOLEAN]

\* The row of c is still on the list, behind the pages before the one to be read.
StillAhead(c) ==
  /\ c \in Shown(rows, walk.options)
  /\ Cardinality(AheadOf(rows, walk.options, c)) >= Skipped(AtPage(walk.options, walk.page))

WalkOK ==
  /\ walk \in Walking \cup {[at |-> "idle"], [at |-> "failed"]}
  /\ job["list"].running => walk.at = "sync"
  /\ (walk \in Walking /\ walk.steady) =>
       /\ walk.at # "done" => \A c \in walk.due : c \in Shown(rows, walk.options)
       /\ \A c \in walk.due \ walk.seen : walk.at # "done" /\ StillAhead(c)

WalkInv == CatalogueIInv /\ RanksOK /\ WalkOK

\* The table holds one row for each inserted currency.
LEMMA TableSize ==
  ASSUME RowsOK, RanksOK
  PROVE  /\ IsFiniteSet(Table(rows)) /\ IsFiniteSet(Inserted(rows))
         /\ Cardinality(Table(rows)) = Cardinality(Inserted(rows))
         /\ Cardinality(Inserted(rows)) \in Nat
  <1> DEFINE S == Inserted(rows)
             T == Table(rows)
             f == [d \in S |-> rows[d]]
  <1>1. IsFiniteSet(S)
    BY CatalogueAssumption, FS_Subset DEF Inserted
  <1>2. f \in Bijection(S, T)
    BY DEF RanksOK, Inserted, Table, Bijection, Injection, IsInjective, Surjection
  <1> HIDE DEF f, S, T
  <1>3. IsFiniteSet(T) /\ Cardinality(T) = Cardinality(S)
    BY <1>1, <1>2, FS_Bijection DEF ExistsBijection
  <1>4. QED BY <1>1, <1>3, FS_CardinalityType DEF S, T

\* What is shown is the row of an inserted currency.
LEMMA ShownRow ==
  ASSUME RowsOK, RanksOK, NEW o
  PROVE  /\ Shown(rows, o) = {c \in Inserted(rows) : rows[c] \in Matches(Table(rows), ListConfig, o)}
         /\ \A row \in Matches(Table(rows), ListConfig, o) :
              row.currency \in Shown(rows, o) /\ rows[row.currency] = row
         /\ IsFiniteSet(Shown(rows, o))
  <1>1. ASSUME NEW row \in Matches(Table(rows), ListConfig, o)
        PROVE  row.currency \in Inserted(rows) /\ rows[row.currency] = row
    <2>1. PICK d \in Inserted(rows) : row = rows[d]
      BY DEF Matches, Table, Inserted
    <2>2. QED BY <2>1 DEF RanksOK
  <1>2. Shown(rows, o) = {c \in Inserted(rows) : rows[c] \in Matches(Table(rows), ListConfig, o)}
    <2>1. ASSUME NEW c \in Shown(rows, o)
          PROVE  c \in Inserted(rows) /\ rows[c] \in Matches(Table(rows), ListConfig, o)
      BY <1>1 DEF Shown
    <2>2. ASSUME NEW c \in Inserted(rows), rows[c] \in Matches(Table(rows), ListConfig, o)
          PROVE  c \in Shown(rows, o)
      BY <2>2 DEF Shown, RanksOK
    <2>3. QED BY <2>1, <2>2
  <1>3. IsFiniteSet(Shown(rows, o))
    BY <1>2, CatalogueAssumption, FS_Subset DEF Inserted
  <1>4. QED BY <1>1, <1>2, <1>3

\* The page is not looked at by the filters, and a client of the catalogue asks
\* for no order: the newest come first.
LEMMA PageOptions ==
  ASSUME NEW o \in Listing, NEW n \in Nat \ {0}
  PROVE  /\ \A T : Matches(T, ListConfig, AtPage(o, n)) = Matches(T, ListConfig, o)
         /\ Order(ListConfig, AtPage(o, n)) = [column |-> "createdAt", direction |-> "DESC"]
         /\ Limit(AtPage(o, n)) = Limit(o) /\ Limit(o) \in Int
         /\ Skipped(AtPage(o, n)) = (n - 1) * Limit(o)
         /\ Unlimited(ListConfig, AtPage(o, n)) <=> Limit(o) = 0
  <1> DEFINE p == AtPage(o, n)
  <1>1. /\ DOMAIN p = DOMAIN o \cup {"page"} /\ p["page"] = n
        /\ \A k \in DOMAIN o : k # "page" => p[k] = o[k]
        /\ DOMAIN o \subseteq {"limit", "filters", "search"}
        /\ "limit" \in DOMAIN o => o["limit"] \in Int
    BY CatalogueAssumption DEF AtPage
  <1>2. \A k : k \in DOMAIN p /\ k # "page" <=> k \in DOMAIN o
    BY <1>1
  <1> HIDE DEF p
  <1>3. \A d : /\ Given(p, "limit", d) = Given(o, "limit", d)
               /\ Given(p, "filters", d) = Given(o, "filters", d)
               /\ Given(p, "page", d) = n
    BY <1>1, <1>2 DEF Given
  <1>4. /\ "orderBy" \notin DOMAIN p /\ "from" \notin DOMAIN p /\ "until" \notin DOMAIN p
        /\ "orderBy" \notin DOMAIN o /\ "from" \notin DOMAIN o /\ "until" \notin DOMAIN o
        /\ "search" \in DOMAIN p <=> "search" \in DOMAIN o
        /\ "search" \in DOMAIN o => p["search"] = o["search"]
    BY <1>1, <1>2
  <1>5. \A T : Matches(T, ListConfig, p) = Matches(T, ListConfig, o)
    <2>1. SafeFilters(ListConfig, p) = SafeFilters(ListConfig, o)
      BY <1>3 DEF SafeFilters
    <2>2. \A k : Parameter(ListConfig, p, k) = Parameter(ListConfig, o, k)
      BY <2>1 DEF Parameter
    <2>3. \A row, filters : Admits(row, filters, ListConfig, p) = Admits(row, filters, ListConfig, o)
      BY <2>2 DEF Admits
    <2>4. \A row : InRange(row, p) = InRange(row, o) /\ IsFound(row, ListConfig, p) = IsFound(row, ListConfig, o)
      BY <1>4 DEF InRange, IsFound
    <2>5. QED BY <2>1, <2>3, <2>4 DEF Matches
  <1>6. Order(ListConfig, p) = [column |-> "createdAt", direction |-> "DESC"]
    BY <1>4 DEF Order, Given, ListConfig
  <1>7. Limit(p) = Limit(o) /\ Limit(o) \in Int
    BY <1>1, <1>3, LimitAssumption DEF Limit, Given
  <1>8. Page(p) = n
    BY <1>3 DEF Page
  <1>9. Unlimited(ListConfig, p) <=> Limit(o) = 0
    BY <1>7 DEF Unlimited, Given, ListConfig
  <1>10. QED BY <1>5, <1>6, <1>7, <1>8, <1>9 DEF Skipped, p

\* The place of a row is the number of rows that were inserted after it, and no
\* place is left free.
LEMMA PlaceIsAhead ==
  ASSUME RowsOK, RanksOK, NEW o,
         NEW found, found = Matches(Table(rows), ListConfig, o),
         NEW f \in Rankings(found, [column |-> "createdAt", direction |-> "DESC"]),
         NEW c \in Shown(rows, o)
  PROVE  /\ rows[c] \in found
         /\ f[rows[c]] \in Nat
         /\ f[rows[c]] = Cardinality(AheadOf(rows, o, c))
         /\ \A k \in Nat : k <= f[rows[c]] => \E row \in found : f[row] = k
  <1> DEFINE n == Cardinality(found)
             A == AheadOf(rows, o, c)
             m == f[rows[c]]
             g == [d \in A |-> f[rows[d]]]
  <1>1. IsFiniteSet(found) /\ n \in Nat
    <2>1. found \subseteq Table(rows)
      BY DEF Matches
    <2>2. QED BY <2>1, TableSize, FS_Subset, FS_CardinalityType
  <1>2. /\ f \in [found -> 0..n - 1]
        /\ \A r, s \in found : f[r] = f[s] => r = s
        /\ \A r, s \in found : r.createdAt > s.createdAt => f[r] < f[s]
    BY DEF Rankings, Precedes
  <1>3. \A k \in 0..n - 1 : \E row \in found : f[row] = k
    <2> DEFINE P == 0..n - 1
    <2>1. f \in Injection(found, P)
      BY <1>2 DEF Injection, IsInjective
    <2>2. IsFiniteSet(P) /\ Cardinality(P) = n
      BY <1>1, FS_Interval
    <2> HIDE DEF P
    <2>3. f \in Surjection(found, P)
      BY <2>1, <2>2, FS_Injection
    <2>4. QED BY <2>3 DEF Surjection, P
  <1>4. /\ \A d \in Shown(rows, o) : d \in Inserted(rows) /\ rows[d] \in found
        /\ \A row \in found : row.currency \in Shown(rows, o) /\ rows[row.currency] = row
        /\ \A d \in Inserted(rows) : rows[d].createdAt \in Nat /\ rows[d].currency = d
        /\ IsFiniteSet(Shown(rows, o))
    <2>1. \A d \in Inserted(rows) : rows[d].createdAt \in Nat /\ rows[d].currency = d
      BY DEF RowsOK, Inserted, CurrencyRow, RanksOK
    <2>2. QED BY <2>1, ShownRow
  <1>5. rows[c] \in found /\ m \in 0..n - 1
    BY <1>2, <1>4
  <1>6. IsFiniteSet(A)
    BY <1>4, FS_Subset DEF AheadOf
  <1>7. \A d \in A : d \in Shown(rows, o) /\ rows[d].createdAt > rows[c].createdAt
    BY DEF AheadOf
  <1>8. ASSUME NEW k \in 0..m - 1 PROVE \E d \in A : f[rows[d]] = k
    <2>1. k \in 0..n - 1 /\ k < m
      BY <1>1, <1>5
    <2>2. PICK row \in found : f[row] = k
      BY <1>3, <2>1
    <2>3. PICK d \in Shown(rows, o) : row = rows[d]
      BY <1>4
    <2>4. d # c
      BY <2>1, <2>2, <2>3
    <2>5. rows[d].createdAt # rows[c].createdAt
      BY <1>4, <2>4 DEF RanksOK
    <2>6. ~(rows[c].createdAt > rows[d].createdAt)
      <3>1. rows[c].createdAt > rows[d].createdAt => m < k
        BY <1>2, <1>5, <2>2, <2>3
      <3>2. QED BY <1>1, <1>5, <2>1, <3>1
    <2>7. rows[d].createdAt > rows[c].createdAt
      BY <1>4, <2>5, <2>6
    <2>8. QED BY <2>2, <2>3, <2>7 DEF AheadOf
  <1>9. \A d \in A : f[rows[d]] \in 0..m - 1
    BY <1>1, <1>2, <1>4, <1>5, <1>7
  <1>10. \A d, e \in A : f[rows[d]] = f[rows[e]] => d = e
    BY <1>2, <1>4, <1>7
  <1> DEFINE Q == 0..m - 1
  <1>11. g \in Bijection(A, Q)
    <2> HIDE DEF A, m
    <2>1. QED BY <1>8, <1>9, <1>10 DEF Bijection, Injection, IsInjective, Surjection
  <1>12. IsFiniteSet(Q) /\ Cardinality(Q) = m
    <2>1. m \in Int /\ m >= 0
      BY <1>1, <1>5
    <2> HIDE DEF m
    <2>2. IsFiniteSet(Q) /\ Cardinality(Q) = IF 0 > m - 1 THEN 0 ELSE m - 1 - 0 + 1
      BY <2>1, FS_Interval
    <2>3. QED BY <2>1, <2>2
  <1> HIDE DEF A, Q, g, m
  <1>13. Cardinality(Q) = Cardinality(A)
    BY <1>6, <1>11, FS_Bijection DEF ExistsBijection
  <1>14. m \in Nat /\ m = Cardinality(A) /\ \A k \in Nat : k <= m => k \in 0..n - 1
    BY <1>1, <1>5, <1>12, <1>13
  <1>15. QED BY <1>3, <1>5, <1>14 DEF m, A

\* A row that stands behind the pages before this one is on this page, or behind
\* it; and while there is one, the page is not empty.
LEMMA PageStep ==
  ASSUME RowsOK, RanksOK, NEW o \in Listing, NEW n \in Nat \ {0},
         ~Fails(AtPage(o, n)),
         NEW items \in Items(Table(rows), ListConfig, AtPage(o, n)),
         NEW c \in Shown(rows, o), rows[c] \notin items,
         Cardinality(AheadOf(rows, o, c)) >= Skipped(AtPage(o, n))
  PROVE  /\ items # {}
         /\ Cardinality(AheadOf(rows, o, c)) >= Skipped(AtPage(o, n + 1))
  <1> DEFINE p == AtPage(o, n)
             q == AtPage(o, n + 1)
             found == Matches(Table(rows), ListConfig, o)
             by == [column |-> "createdAt", direction |-> "DESC"]
             L == Limit(o)
  <1>1. /\ Matches(Table(rows), ListConfig, p) = found /\ Order(ListConfig, p) = by
        /\ Limit(p) = L /\ L \in Int /\ Skipped(p) = (n - 1) * L
        /\ Skipped(q) = (n + 1 - 1) * L
        /\ Unlimited(ListConfig, p) <=> L = 0
    BY PageOptions
  <1>2. L >= 0 /\ Skipped(p) \in Nat /\ Skipped(q) = Skipped(p) + L
    <2>1. L >= 0
      BY <1>1 DEF Fails
    <2> HIDE DEF L, q, p
    <2>2. (n - 1) * L \in Nat /\ (n + 1 - 1) * L = (n - 1) * L + L
      BY <1>1, <2>1
    <2>3. QED BY <1>1, <2>1, <2>2
  <1>3. PICK f \in Rankings(found, by) :
           items = {row \in found : Unlimited(ListConfig, p) \/ OnPage(f[row], p)}
    BY <1>1 DEF Items
  <1> HIDE DEF found, by
  <1>4. /\ rows[c] \in found /\ f[rows[c]] \in Nat
        /\ f[rows[c]] = Cardinality(AheadOf(rows, o, c))
        /\ \A k \in Nat : k <= f[rows[c]] => \E row \in found : f[row] = k
    BY <1>3, PlaceIsAhead DEF found, by
  <1>5. L # 0 /\ ~OnPage(f[rows[c]], p)
    BY <1>1, <1>3, <1>4
  <1> HIDE DEF p, q, L
  <1>6. f[rows[c]] >= Skipped(p) /\ f[rows[c]] >= Skipped(p) + L
    BY <1>1, <1>2, <1>4, <1>5 DEF OnPage, p
  <1>7. PICK row \in found : f[row] = Skipped(p)
    BY <1>2, <1>4, <1>6
  <1>8. row \in items
    <2>1. Skipped(p) < Skipped(p) + L
      BY <1>1, <1>2, <1>5
    <2>2. OnPage(f[row], p)
      BY <1>1, <1>2, <1>7, <2>1 DEF OnPage
    <2>3. QED BY <1>3, <2>2
  <1>9. QED BY <1>2, <1>4, <1>6, <1>8 DEF q

\* Every write of a row keeps its currency and its rank, or inserts it as the
\* latest.
Written(c, row) ==
  /\ WriteRows([rows EXCEPT ![c] = row])
  /\ row \in CurrencyRow /\ row.currency = c
  /\ row.createdAt = IF rows[c] = NoRow THEN Latest ELSE rows[c].createdAt

\* A synchronisation writes rows in that way,
LEMMA UpsertWrites ==
  ASSUME CatalogueIInv, RanksOK, NEW p \in Process, Upsert(p)
  PROVE  \E c \in Currency : \E row \in CurrencyRow : Written(c, row)
  <1>1. PICK o \in job[p].todo : WriteRows([rows EXCEPT ![o.currency] = Upserted(o)])
    BY DEF Upsert
  <1>2. o \in [currency: Currency, fee: Fee] /\ RowsOK
    BY DEF CatalogueIInv, RowsOK
  <1>3. Upserted(o) \in CurrencyRow /\ o.currency \in Currency
    BY <1>2, UpsertedRow
  <1>4. rows[o.currency] # NoRow => rows[o.currency] \in CurrencyRow /\ rows[o.currency].currency = o.currency
    BY <1>2, <1>3 DEF RowsOK, RanksOK, Inserted
  <1>5. /\ Upserted(o).currency = o.currency
        /\ Upserted(o).createdAt =
             IF rows[o.currency] = NoRow THEN Latest ELSE rows[o.currency].createdAt
    BY <1>4 DEF Upserted, CurrencyRow
  <1>6. QED BY <1>1, <1>3, <1>5 DEF Written

\* and so does a status request.
LEMMA SaveStatusWrites ==
  ASSUME CatalogueIInv, RanksOK, NEW q \in Request, SaveStatus(q)
  PROVE  \E c \in Currency : \E row \in CurrencyRow : Written(c, row)
  <1>1. WriteRows([rows EXCEPT ![request[q].currency] = SavedRow(q)]) /\ request[q].at = "loaded"
    <2>1. [rows EXCEPT ![request[q].currency] = SavedRow(q)] =
            [rows EXCEPT ![request[q].currency] =
               [k \in DOMAIN @ |-> IF k \in request[q].columns THEN request[q].entity[k] ELSE @[k]]]
      BY DEF SavedRow
    <2>2. QED BY <2>1 DEF SaveStatus
  <1>2. /\ request[q] \in Saving /\ SavedRow(q) \in CurrencyRow
        /\ SavedRow(q).currency = rows[request[q].currency].currency
        /\ SavedRow(q).createdAt = rows[request[q].currency].createdAt
    BY <1>1, SavedRowOK DEF CatalogueIInv
  <1>3. request[q].currency \in Inserted(rows) /\ request[q].currency \in Currency
    BY <1>2 DEF CatalogueIInv, RequestsOK, Asked, Saving, Inserted
  <1>4. rows[request[q].currency] # NoRow
        /\ rows[request[q].currency].currency = request[q].currency
    BY <1>3 DEF RanksOK, Inserted
  <1>5. Written(request[q].currency, SavedRow(q))
    BY <1>1, <1>2, <1>4 DEF Written
  <1>6. QED BY <1>2, <1>3, <1>5

\* After a write, no row is gone or has moved, and ranks are still unique.
LEMMA WrittenRanks ==
  ASSUME RowsOK, RanksOK, NEW c \in Currency, NEW row \in CurrencyRow, Written(c, row)
  PROVE  /\ RanksOK'
         /\ \A d \in Inserted(rows) : d \in Inserted(rows') /\ rows'[d].createdAt = rows[d].createdAt
  <1> DEFINE S == Inserted(rows)
             T == Inserted(rows')
  <1>1. rows' = [rows EXCEPT ![c] = row] /\ row # NoRow
    BY NoRowAssumption DEF Written, WriteRows
  <1>2. T = S \cup {c}
    BY <1>1 DEF RowsOK, Inserted
  <1>3. /\ IsFiniteSet(S) /\ Cardinality(S) \in Nat /\ Latest = Cardinality(S) + 1
        /\ Cardinality(T) = IF c \in S THEN Cardinality(S) ELSE Cardinality(S) + 1
    <2>1. IsFiniteSet(S) /\ Cardinality(S) \in Nat /\ Latest = Cardinality(S) + 1
      BY TableSize DEF Latest
    <2> HIDE DEF S
    <2>2. Cardinality(S \cup {c}) = IF c \in S THEN Cardinality(S) ELSE Cardinality(S) + 1
      BY <2>1, FS_AddElement
    <2>3. QED BY <1>2, <2>1, <2>2
  <1>4. /\ rows'[c] = row
        /\ \A d \in Currency : d # c => rows'[d] = rows[d]
    BY <1>1 DEF RowsOK
  <1>5. /\ c \in S <=> rows[c] # NoRow
        /\ \A d \in S : /\ d \in Currency /\ rows[d].createdAt \in Nat
                        /\ rows[d].currency = d /\ rows[d].createdAt <= Cardinality(S)
    BY DEF RowsOK, RanksOK, Inserted, CurrencyRow
  <1>6. /\ row.currency = c
        /\ row.createdAt = IF c \in S THEN rows[c].createdAt ELSE Cardinality(S) + 1
    BY <1>3, <1>5 DEF Written
  <1>7. \A d, e \in S : rows[d].createdAt = rows[e].createdAt => d = e
    BY DEF RanksOK
  <1> HIDE DEF S, T
  <1>8. \A d \in T : rows'[d].currency = d /\ rows'[d].createdAt <= Cardinality(T)
    BY <1>2, <1>3, <1>4, <1>5, <1>6
  <1>9. \A d \in S : d \in T /\ rows'[d].createdAt = rows[d].createdAt
    BY <1>2, <1>4, <1>5, <1>6
  <1>10. \A d, e \in T : rows'[d].createdAt = rows'[e].createdAt => d = e
    BY <1>2, <1>3, <1>4, <1>5, <1>6, <1>7
  <1>11. RanksOK'
    BY <1>8, <1>10 DEF RanksOK, T
  <1>12. QED BY <1>9, <1>11 DEF S, T

\* A walk that stays steady loses no ground by a write: rows come in ahead.
LEMMA WalkWrites ==
  ASSUME RowsOK, RanksOK, RowsOK', WalkOK, NEW c \in Currency, NEW row \in CurrencyRow, Written(c, row),
         job'["list"].running = job["list"].running
  PROVE  WalkOK'
  <1>1. /\ RanksOK'
        /\ \A d \in Inserted(rows) : d \in Inserted(rows') /\ rows'[d].createdAt = rows[d].createdAt
    BY WrittenRanks
  <1>2. CASE walk.at \notin {"query", "sync", "requery"}
    <2>1. walk' = walk
      BY <1>2 DEF Written, WriteRows
    <2>2. QED BY <1>2, <2>1 DEF WalkOK, Walking
  <1>3. CASE walk.at \in {"query", "sync", "requery"}
    <2>1. walk \in Walking
      BY <1>3 DEF WalkOK
    <2> DEFINE o == walk.options
               kept == Shown(rows, o) \subseteq Shown(rows', o)
    <2>2. walk' = [walk EXCEPT !.steady = walk.steady /\ kept]
      BY <1>3 DEF Written, WriteRows
    <2>3. /\ walk' \in Walking /\ walk'.at = walk.at /\ walk'.options = o /\ walk'.page = walk.page
          /\ walk'.seen = walk.seen /\ walk'.due = walk.due
          /\ walk'.steady = (walk.steady /\ kept)
      <3>1. (walk.steady /\ kept) \in BOOLEAN
        OBVIOUS
      <3> HIDE DEF kept
      <3>2. QED BY <2>1, <2>2, <3>1 DEF Walking
    <2>4. ASSUME kept, NEW d \in Shown(rows, o)
          PROVE  /\ d \in Shown(rows', o)
                 /\ Cardinality(AheadOf(rows', o, d)) \in Nat /\ Cardinality(AheadOf(rows, o, d)) \in Nat
                 /\ Cardinality(AheadOf(rows', o, d)) >= Cardinality(AheadOf(rows, o, d))
      <3>1. /\ \A e \in Shown(rows, o) : e \in Inserted(rows) /\ e \in Shown(rows', o)
            /\ IsFiniteSet(Shown(rows', o))
        <4>1. Shown(rows, o) \subseteq Inserted(rows)
          BY ShownRow
        <4>2. IsFiniteSet(Shown(rows', o))
          BY <1>1, CatalogueAssumption, FS_Subset DEF Shown, Matches, Table, RowsOK, CurrencyRow
        <4>3. QED BY <2>4, <4>1, <4>2
      <3>2. AheadOf(rows, o, d) \subseteq AheadOf(rows', o, d)
        BY <1>1, <3>1 DEF AheadOf
      <3>3. IsFiniteSet(AheadOf(rows', o, d))
        BY <3>1, FS_Subset DEF AheadOf
      <3>4. QED BY <2>4, <3>1, <3>2, <3>3, FS_Subset, FS_CardinalityType
    <2>5. ASSUME walk'.steady, NEW d \in walk.due
          PROVE  d \in Shown(rows', o)
      BY <1>3, <2>1, <2>3, <2>4, <2>5 DEF WalkOK
    <2>6. ASSUME walk'.steady, NEW d \in walk.due \ walk.seen
          PROVE  /\ d \in Shown(rows', o)
                 /\ Cardinality(AheadOf(rows', o, d)) >= Skipped(AtPage(o, walk.page))
      <3>1. d \in Shown(rows, o) /\ Cardinality(AheadOf(rows, o, d)) >= Skipped(AtPage(o, walk.page))
        BY <2>1, <2>3, <2>6 DEF WalkOK, StillAhead
      <3>2. Skipped(AtPage(o, walk.page)) \in Int
        <4>1. o \in Listing /\ walk.page \in Nat \ {0}
          BY <2>1 DEF Walking
        <4>2. Skipped(AtPage(o, walk.page)) = (walk.page - 1) * Limit(o) /\ Limit(o) \in Int
          BY <4>1, PageOptions
        <4>3. (walk.page - 1) * Limit(o) \in Int
          BY <4>1, <4>2
        <4>4. QED BY <4>2, <4>3
      <3>3. kept
        BY <2>3, <2>6
      <3>4. QED BY <2>4, <3>1, <3>2, <3>3
    <2>7. ASSUME walk'.steady, NEW d \in walk.due \ walk.seen PROVE StillAhead(d)'
      BY <2>3, <2>6, <2>7 DEF StillAhead
    <2> HIDE DEF o, kept
    <2>8. QED BY <1>3, <2>3, <2>5, <2>7 DEF WalkOK, o
  <1>4. QED BY <1>2, <1>3

\* Steps that leave the rows alone, and end a walk or move it on without reading.
LEMMA WalkQuiet ==
  ASSUME WalkInv, rows' = rows,
         \/ walk' = walk /\ (job'["list"].running => job["list"].running)
         \/ walk' = [at |-> "failed"] /\ ~job'["list"].running
  PROVE  RanksOK' /\ WalkOK'
  <1>1. RanksOK'
    BY DEF WalkInv, RanksOK
  <1>2. CASE walk' = walk /\ (job'["list"].running => job["list"].running)
    <2>1. WalkOK
      BY DEF WalkInv
    <2>2. QED BY <1>1, <1>2, <2>1 DEF WalkOK, StillAhead
  <1>3. CASE walk' = [at |-> "failed"] /\ ~job'["list"].running
    <2>1. walk'.at = "failed"
      BY <1>3
    <2>2. walk' \notin Walking
      BY <2>1 DEF Walking
    <2>3. QED BY <1>1, <1>3, <2>2 DEF WalkOK, StillAhead
  <1>4. QED BY <1>1, <1>2, <1>3

\* A client that begins has everything it is to see before it.
LEMMA WalkStarts ==
  ASSUME WalkInv, NEW o \in Listing, StartWalk(o)
  PROVE  RanksOK' /\ WalkOK'
  <1>1. RowsOK /\ RanksOK /\ RanksOK' /\ rows' = rows /\ job' = job
    BY DEF WalkInv, CatalogueIInv, RanksOK, StartWalk
  <1> DEFINE new == [at |-> "query", options |-> o, page |-> 1, seen |-> {},
                     due |-> Shown(rows, o), steady |-> TRUE]
  <1>2. Shown(rows, o) \in SUBSET Currency
    BY <1>1, ShownRow DEF Inserted
  <1>3. walk' = new /\ new \in Walking
    BY <1>2 DEF StartWalk, Walking
  <1>4. ~job["list"].running
    BY DEF WalkInv, WalkOK, StartWalk
  <1>5. ASSUME NEW c \in Shown(rows, o) PROVE StillAhead(c)'
    <2>1. IsFiniteSet(AheadOf(rows, o, c))
      BY <1>1, ShownRow, FS_Subset DEF AheadOf
    <2>2. Cardinality(AheadOf(rows, o, c)) \in Nat
      BY <2>1, FS_CardinalityType
    <2>3. Skipped(AtPage(o, 1)) = 0
      <3>1. Skipped(AtPage(o, 1)) = (1 - 1) * Limit(o) /\ Limit(o) \in Int
        BY PageOptions
      <3>2. QED BY <3>1
    <2>4. walk'.options = o /\ walk'.page = 1
      BY <1>3
    <2>5. QED BY <1>1, <2>2, <2>3, <2>4 DEF StillAhead
  <1>6. /\ walk'.at = "query" /\ walk'.options = o /\ walk'.due = Shown(rows, o) /\ walk'.seen = {}
    BY <1>3
  <1> HIDE DEF new
  <1>7. QED BY <1>1, <1>3, <1>4, <1>5, <1>6 DEF WalkOK

\* A page is read: what it does not show is behind it, and when it is empty
\* nothing is.
LEMMA WalkReads ==
  ASSUME WalkInv, List
  PROVE  RanksOK' /\ WalkOK'
  <1> DEFINE o == walk.options
             n == walk.page
             p == AtPage(o, n)
  <1>1. /\ RowsOK /\ RanksOK /\ RanksOK' /\ rows' = rows /\ job' = job
        /\ walk.at \in {"query", "requery"} /\ walk \in Walking /\ ~job["list"].running
    <2>1. RowsOK /\ RanksOK /\ WalkOK
      BY DEF WalkInv, CatalogueIInv
    <2>2. rows' = rows /\ job' = job /\ walk.at \in {"query", "requery"}
      BY DEF List
    <2>3. walk # [at |-> "idle"] /\ walk # [at |-> "failed"]
      BY <2>2
    <2>4. QED BY <2>1, <2>2, <2>3 DEF WalkOK, RanksOK
  <1>2. CASE walk' = [at |-> "failed"]
    BY <1>1, <1>2, WalkQuiet
  <1>3. CASE /\ ~Fails(p)
             /\ \E items \in Items(Table(rows), ListConfig, p) :
                  \/ /\ items # {}
                     /\ walk' = [walk EXCEPT !.at = "query", !.page = @ + 1,
                                             !.seen = @ \cup {row.currency : row \in items}]
                  \/ /\ items = {}
                     /\ walk' = [walk EXCEPT !.at = IF @ = "query" THEN "sync" ELSE "done"]
    <2>1. PICK items \in Items(Table(rows), ListConfig, p) :
             \/ /\ items # {}
                /\ walk' = [walk EXCEPT !.at = "query", !.page = @ + 1,
                                        !.seen = @ \cup {row.currency : row \in items}]
             \/ /\ items = {}
                /\ walk' = [walk EXCEPT !.at = IF @ = "query" THEN "sync" ELSE "done"]
      BY <1>3
    <2>2. o \in Listing /\ n \in Nat \ {0}
      BY <1>1 DEF Walking
    <2>3. ASSUME walk.steady, NEW c \in walk.due PROVE c \in Shown(rows, o)
      BY <1>1, <2>3 DEF WalkInv, WalkOK
    <2>4. ASSUME walk.steady, NEW c \in walk.due \ walk.seen, rows[c] \notin items
          PROVE  /\ items # {}
                 /\ Cardinality(AheadOf(rows, o, c)) >= Skipped(AtPage(o, n + 1))
      <3>1. c \in Shown(rows, o) /\ Cardinality(AheadOf(rows, o, c)) >= Skipped(p)
        BY <1>1, <2>4 DEF WalkInv, WalkOK, StillAhead
      <3>2. QED BY <1>1, <1>3, <2>2, <2>4, <3>1, PageStep
    <2>5. \A c \in walk.due : rows[c] \in items => c \in {row.currency : row \in items}
      <3> SUFFICES ASSUME NEW c \in walk.due, rows[c] \in items
                   PROVE  rows[c].currency = c
        OBVIOUS
      <3>1. PICK d \in Inserted(rows) : rows[c] = rows[d]
        BY <1>1 DEF Items, Matches, Table, Inserted
      <3>2. c \in Inserted(rows)
        BY <1>1, <3>1 DEF Walking, Inserted
      <3>3. QED BY <1>1, <3>2 DEF RanksOK
    <2>6. CASE /\ items # {}
               /\ walk' = [walk EXCEPT !.at = "query", !.page = @ + 1,
                                       !.seen = @ \cup {row.currency : row \in items}]
      <3> DEFINE new == {row.currency : row \in items}
      <3>1. new \subseteq Currency
        <4>1. items \subseteq Table(rows)
          BY DEF Items, Matches
        <4>2. ASSUME NEW row \in Table(rows) PROVE row.currency \in Currency
          <5>1. PICK d \in Inserted(rows) : row = rows[d]
            BY DEF Table, Inserted
          <5>2. row.currency = d
            BY <1>1, <5>1 DEF RanksOK
          <5>3. QED BY <5>2 DEF Inserted
        <4>3. QED BY <4>1, <4>2
      <3>d. /\ DOMAIN walk = {"at", "options", "page", "seen", "due", "steady"}
            /\ walk.seen \subseteq Currency
        BY <1>1 DEF Walking
      <3>e. walk' = [walk EXCEPT !.at = "query", !.page = n + 1, !.seen = walk.seen \cup new]
        BY <2>6
      <3> HIDE DEF new
      <3>2. /\ walk' \in Walking /\ walk'.at = "query" /\ walk'.options = o /\ walk'.page = n + 1
            /\ walk'.seen = walk.seen \cup new /\ walk'.due = walk.due /\ walk'.steady = walk.steady
        <4>1. walk.at \in {"query", "requery"} /\ walk.due \subseteq Currency /\ walk.steady \in BOOLEAN
          BY <1>1 DEF Walking
        <4>2. walk' = [at |-> "query", options |-> o, page |-> n + 1, seen |-> walk.seen \cup new,
                       due |-> walk.due, steady |-> walk.steady]
          BY <1>1, <3>e DEF Walking
        <4>3. n + 1 \in Nat \ {0} /\ walk.seen \cup new \subseteq Currency
          BY <2>2, <3>d, <3>1
        <4> HIDE DEF o, n
        <4>4. QED BY <2>2, <4>1, <4>2, <4>3 DEF Walking
      <3>3. ASSUME walk.steady, NEW c \in walk.due \ (walk.seen \cup new) PROVE StillAhead(c)'
        <4>1. c \in Shown(rows, o) /\ Cardinality(AheadOf(rows, o, c)) >= Skipped(AtPage(o, n + 1))
          BY <2>3, <2>4, <2>5, <3>3 DEF new
        <4>2. QED BY <1>1, <3>2, <4>1 DEF StillAhead
      <3> HIDE DEF o, n, p
      <3>4. QED BY <1>1, <2>3, <3>2, <3>3 DEF WalkOK, o
    <2>7. CASE /\ items = {}
               /\ walk' = [walk EXCEPT !.at = IF @ = "query" THEN "sync" ELSE "done"]
      <3>1. walk.steady => walk.due \subseteq walk.seen
        BY <2>4, <2>7
      <3>2. /\ walk' \in Walking /\ walk'.options = o /\ walk'.page = n
            /\ walk'.seen = walk.seen /\ walk'.due = walk.due /\ walk'.steady = walk.steady
        BY <1>1, <2>7 DEF Walking
      <3> HIDE DEF o, n, p
      <3>3. QED BY <1>1, <2>3, <3>1, <3>2 DEF WalkOK, o
    <2>8. QED BY <2>1, <2>6, <2>7
  <1>4. QED BY <1>2, <1>3 DEF List

\* The invariant of the walk, one step per action.
LEMMA WalkStep == WalkInv /\ [CatalogueNext]_catalogueVars => WalkInv'
  <1> SUFFICES ASSUME WalkInv, [CatalogueNext]_catalogueVars PROVE RanksOK' /\ WalkOK'
    BY CatalogueStep DEF WalkInv
  <1>0. CatalogueIInv /\ CatalogueIInv' /\ RowsOK /\ RowsOK' /\ RanksOK /\ WalkOK
    BY CatalogueStep DEF WalkInv, CatalogueIInv
  <1>j. job \in [Process -> [running: BOOLEAN, todo: SUBSET [currency: Currency, fee: Fee]]]
    BY <1>0 DEF RowsOK
  <1>w. ASSUME NEW c \in Currency, NEW row \in CurrencyRow, Written(c, row),
               job'["list"].running = job["list"].running
        PROVE  RanksOK' /\ WalkOK'
    BY <1>0, <1>w, WrittenRanks, WalkWrites
  <1>1. ASSUME NEW c \in Currency, NEW f \in Fee \cup {NotOffered}, Change(c, f)
        PROVE  RanksOK' /\ WalkOK'
    BY <1>1, WalkQuiet DEF Change
  <1>2. ASSUME NEW p \in Process, Fetch(p) PROVE RanksOK' /\ WalkOK'
    <2>1. CASE p = "cron"
      <3>1. job'["list"] = job["list"]
        BY <1>2, <1>j, <2>1 DEF Fetch, Process
      <3>2. QED BY <1>2, <3>1, WalkQuiet DEF Fetch
    <2>2. CASE p = "list"
      <3>1. RanksOK'
        BY <1>0, <1>2 DEF Fetch, RanksOK
      <3>2. QED BY <1>0, <1>2, <2>2, <3>1 DEF Fetch, WalkOK, StillAhead
    <2>3. QED BY <2>1, <2>2 DEF Process
  <1>3. ASSUME NEW p \in Process, Upsert(p) PROVE RanksOK' /\ WalkOK'
    <2>1. job'["list"].running = job["list"].running
      BY <1>3, <1>j DEF Upsert, Process
    <2>2. QED BY <1>0, <1>3, <1>w, <2>1, UpsertWrites
  <1>4. ASSUME NEW p \in Process, Synced(p) PROVE RanksOK' /\ WalkOK'
    <2>1. CASE p = "cron"
      <3>1. job'["list"] = job["list"]
        BY <1>4, <1>j, <2>1 DEF Synced, Process
      <3>2. QED BY <1>4, <2>1, <3>1, WalkQuiet DEF Synced
    <2>2. CASE p = "list"
      <3>1. RanksOK' /\ rows' = rows
        BY <1>0, <1>4 DEF Synced, RanksOK
      <3>2. walk.at = "sync" /\ walk \in Walking
        BY <1>0, <1>4, <2>2 DEF Synced, WalkOK
      <3>3. walk' = [walk EXCEPT !.at = "requery"] /\ ~job'["list"].running
        BY <1>4, <1>j, <2>2 DEF Synced, Process, NoJob
      <3>4. /\ walk' \in Walking /\ walk'.at = "requery" /\ walk'.options = walk.options
            /\ walk'.page = walk.page /\ walk'.seen = walk.seen /\ walk'.due = walk.due
            /\ walk'.steady = walk.steady
        BY <3>2, <3>3 DEF Walking
      <3>5. QED BY <1>0, <3>1, <3>2, <3>3, <3>4 DEF WalkOK, StillAhead
    <2>3. QED BY <2>1, <2>2 DEF Process
  <1>5. ASSUME NEW p \in Process, Abort(p) PROVE RanksOK' /\ WalkOK'
    BY <1>5, <1>j, WalkQuiet DEF Abort, Process, NoJob
  <1>6. ASSUME NEW o \in Listing, StartWalk(o) PROVE RanksOK' /\ WalkOK'
    BY <1>6, WalkStarts
  <1>7. ASSUME List PROVE RanksOK' /\ WalkOK'
    BY <1>7, WalkReads
  <1>8. ASSUME NEW q \in Request,
               \/ \E c \in Currency, v \in BOOLEAN : FindCurrency(q, c, v)
               \/ LoadForSave(q) \/ FailStatus(q)
        PROVE  RanksOK' /\ WalkOK'
    BY <1>8, WalkQuiet DEF FindCurrency, LoadForSave, FailStatus
  <1>9. ASSUME NEW q \in Request, SaveStatus(q) PROVE RanksOK' /\ WalkOK'
    <2>1. job' = job
      BY <1>9 DEF SaveStatus
    <2>2. QED BY <1>0, <1>9, <1>w, <2>1, SaveStatusWrites
  <1>10. ASSUME Stop PROVE RanksOK' /\ WalkOK'
    <2>1. rows' = rows /\ ~job'["list"].running
      BY <1>10 DEF Stop, Process, NoJob
    <2>2. CASE walk.at \in {"query", "sync", "requery"}
      BY <1>10, <2>1, <2>2, WalkQuiet DEF Stop
    <2>3. CASE walk.at \notin {"query", "sync", "requery"}
      BY <1>10, <2>1, <2>3, WalkQuiet DEF Stop
    <2>4. QED BY <2>2, <2>3
  <1>11. CASE UNCHANGED catalogueVars
    BY <1>11, WalkQuiet DEF catalogueVars
  <1>12. QED
    BY <1>1, <1>2, <1>3, <1>4, <1>5, <1>6, <1>7, <1>8, <1>9, <1>10, <1>11 DEF CatalogueNext

\* getAllCurrencies, read page after page by a client that pages by any number
\* of rows, misses no currency that stays on the list, whatever synchronisations
\* insert and staff show between two pages.
THEOREM Walk_MissesNothing == CatalogueSpec => []WalkMissesNothing
  <1>1. CatalogueInit => WalkInv
    <2> SUFFICES ASSUME CatalogueInit PROVE WalkInv
      OBVIOUS
    <2>1. Inserted(rows) = {} /\ walk = [at |-> "idle"] /\ ~job["list"].running
      BY DEF CatalogueInit, Inserted, NoJob, Process
    <2>2. QED BY <2>1, CatalogueInitOK DEF WalkInv, RanksOK, WalkOK, Walking
  <1>2. WalkInv => WalkMissesNothing
    <2> SUFFICES ASSUME WalkInv, walk.at = "done", walk.steady PROVE walk.due \subseteq walk.seen
      BY DEF WalkMissesNothing
    <2>1. walk \in Walking
      BY DEF WalkInv, WalkOK
    <2>2. QED BY <2>1 DEF WalkInv, WalkOK
  <1>3. QED BY <1>1, <1>2, WalkStep, PTL DEF CatalogueSpec

-----------------------------------------------------------------------------
(* Seeding *)

Resting == {"ended", "skipped", "completed", "failed"}
Mapping == {"addPermissions", "removePermissions", "addMenus", "removeMenus"}
Final   == {"adminRole", "adminUser", "completed"}

\* The tables that are filled as a whole hold all of it or nothing.
SeedTypeOK ==
  /\ roles \subseteq Role
  /\ menus \in {{}, Menu}
  /\ permissions \in {{}, Permission}
  /\ granted \in [Role -> SUBSET Permission]
  /\ listed \in [Role -> SUBSET Menu]
  /\ mapped \in Role
  /\ step \in {"roles", "menus", "permissions"} \cup Mapping \cup Final \cup Resting

Mapped(r) == granted[r] = DesiredPermissions(r) /\ listed[r] = DesiredMenus(r)

\* What the run has done by the step that is to come next.
Progress ==
  /\ step = "roles" => roles = {}
  /\ step \in {"menus", "permissions"} \cup Mapping \cup Final => roles = Role
  /\ step \in {"permissions"} \cup Mapping \cup Final => menus = Menu
  /\ step \in Mapping \cup Final => permissions = Permission
  /\ step \in {"roles", "menus", "permissions"} => mapped = "SUPER_ADMIN"
  /\ step \in Final \/ (step \in Mapping /\ mapped = "MERCHANT") => Mapped("SUPER_ADMIN")
  /\ step \in Final => Mapped("MERCHANT")
  /\ step = "removePermissions" => DesiredPermissions(mapped) \subseteq granted[mapped]
  /\ step \in {"addMenus", "removeMenus"} => granted[mapped] = DesiredPermissions(mapped)
  /\ step = "removeMenus" => DesiredMenus(mapped) \subseteq listed[mapped]
  /\ step = "completed" => admin = "SUPER_ADMIN"

SeedIInv == SeedTypeOK /\ Progress

\* A run that ends with "completed" leaves all roles, menus and permissions, each
\* role with what it is mapped to, and the super admin: the half of
\* SeedIsIdempotent that holds.
CompletedIsSeeded == step = "completed" => Seeded

\* The tables are empty at first.
LEMMA SeedInitOK == SeedInit => SeedIInv
  BY DEF SeedInit, SeedIInv, SeedTypeOK, Progress, Role, Mapping, Final, Resting, Mapped

\* Every step of a run finds what the steps before it have left.
LEMMA SeedStep == SeedIInv /\ [SeedNext]_seedVars => SeedIInv'
  <1> SUFFICES ASSUME SeedIInv, [SeedNext]_seedVars PROVE SeedIInv'
    OBVIOUS
  <1> USE DEF SeedIInv, SeedTypeOK, Role, Mapping, Final, Resting
  <1>1. CASE StartSeed
    BY <1>1 DEF StartSeed, tables, grantTables, Progress
  <1>2. CASE StartReset
    BY <1>2 DEF StartReset, Progress
  <1>3. CASE SeedRoles
    BY <1>3 DEF SeedRoles, grantTables, Progress
  <1>4. CASE SeedMenus
    BY <1>4 DEF SeedMenus, grantTables, Progress
  <1>5. CASE SeedAllPermissions
    BY <1>5 DEF SeedAllPermissions, grantTables, Progress
  <1>6. CASE SyncRolePermissions
    <2>1. SeedTypeOK'
      BY <1>6 DEF SyncRolePermissions, DesiredPermissions
    <2>2. Progress'
      BY <1>6 DEF SyncRolePermissions, Progress, Mapped, DesiredPermissions, DesiredMenus
    <2>3. QED BY <2>1, <2>2
  <1>7. CASE SyncRoleMenus
    <2>1. SeedTypeOK'
      BY <1>7 DEF SyncRoleMenus, DesiredMenus
    <2>2. Progress'
      BY <1>7 DEF SyncRoleMenus, Progress, Mapped, DesiredPermissions, DesiredMenus
    <2>3. QED BY <2>1, <2>2
  <1>8. CASE SeedSuperAdminRole
    BY <1>8 DEF SeedSuperAdminRole, grantTables, Progress, Mapped, DesiredPermissions, DesiredMenus
  <1>9. CASE SeedSuperAdminUser
    BY <1>9 DEF SeedSuperAdminUser, grantTables, Progress, Mapped, DesiredPermissions, DesiredMenus
  <1>10. CASE Interrupt
    BY <1>10 DEF Interrupt, tables, grantTables, Progress
  <1>11. CASE UNCHANGED seedVars
    BY <1>11 DEF seedVars, tables, grantTables, Progress, Mapped, DesiredPermissions, DesiredMenus
  <1>12. QED
    BY <1>1, <1>2, <1>3, <1>4, <1>5, <1>6, <1>7, <1>8, <1>9, <1>10, <1>11 DEF SeedNext

\* seed.ts says "Database seeding completed successfully!" only of a database that has
\* everything, also after interrupted runs and partial resets.
THEOREM Completed_IsSeeded == SeedSpec => []CompletedIsSeeded
  <1>1. SeedIInv => CompletedIsSeeded
    BY DEF SeedIInv, SeedTypeOK, Progress, CompletedIsSeeded, Seeded, Mapped, Role, Final
  <1>2. QED BY SeedInitOK, SeedStep, <1>1, PTL DEF SeedSpec
=============================================================================
