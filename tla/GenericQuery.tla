---------------------------- MODULE GenericQuery ----------------------------
(***************************************************************************)
(* GenericQueryService.query: the rows a list endpoint shows.  A table is  *)
(* a set of rows, a row a record of columns.  A configuration and options  *)
(* are records with the fields that are given:                             *)
(*   cfg: enforced, allowed, searchable, order, joins, flat                *)
(*   o:   page, limit, filters, search, orderBy, orderDir, from, until     *)
(* Left out: the columns that excludedFields hides, the conversion of      *)
(* numeric strings in filters, and the total, which a second query counts. *)
(***************************************************************************)
EXTENDS Integers, FiniteSets

CONSTANTS
  DefaultLimit, MaxLimit, \* 20 and 100
  Null,                   \* SQL's NULL
  Contains                \* pairs <<value, term>> for which value ILIKE '%term%'

ASSUME LimitAssumption == DefaultLimit \in Nat \ {0} /\ MaxLimit \in Nat \ {0}

\* rec.field ?? default
Given(rec, field, default) == IF field \in DOMAIN rec THEN rec[field] ELSE default

NoFilter == [k \in {} |-> Null]

Page(o)  == Given(o, "page", 1)
Limit(o) == LET n == Given(o, "limit", DefaultLimit) IN IF n < MaxLimit THEN n ELSE MaxLimit

\* Mutant: a page starts where the next one should.
SkippedPage(o) == Page(o) * Limit(o)

\* qb.skip
Skipped(o) == (Page(o) - 1) * Limit(o)

\* The caller's filters; a list of allowed columns restricts them if there is one.
SafeFilters(cfg, o) ==
  LET asked == Given(o, "filters", NoFilter)
  IN [k \in {c \in DOMAIN asked : "allowed" \in DOMAIN cfg => c \in cfg.allowed} |-> asked[k]]

Enforced(cfg) == Given(cfg, "enforced", NoFilter)

\* The parameter f_<k>: both kinds of filter bind it, the caller's last; a
\* filter for null binds none.
Parameter(cfg, o, k) ==
  LET safe == SafeFilters(cfg, o)
  IN IF k \in DOMAIN safe /\ safe[k] # Null THEN safe[k] ELSE Enforced(cfg)[k]

\* applyFlatFilters: one condition for each filter.
Admits(row, filters, cfg, o) ==
  \A k \in DOMAIN filters : row[k] = IF filters[k] = Null THEN Null ELSE Parameter(cfg, o, k)

InRange(row, o) ==
  /\ "from" \in DOMAIN o => row.createdAt >= o.from
  /\ "until" \in DOMAIN o => row.createdAt <= o.until

\* The search looks at all searchable columns and JSON paths.
IsFound(row, cfg, o) ==
  LET columns == Given(cfg, "searchable", {})
  IN "search" \in DOMAIN o /\ columns # {} => \E k \in columns : <<row[k], o.search>> \in Contains

\* The rows of the WHERE clause.
Matches(table, cfg, o) ==
  {row \in table : /\ Admits(row, Enforced(cfg), cfg, o)
                   /\ Admits(row, SafeFilters(cfg, o), cfg, o)
                   /\ InRange(row, o)
                   /\ IsFound(row, cfg, o)}

\* The column and direction of ORDER BY.
Order(cfg, o) ==
  IF "orderBy" \in DOMAIN o
  THEN [column |-> o.orderBy, direction |-> Given(o, "orderDir", "DESC")]
  ELSE Given(cfg, "order", [column |-> "createdAt", direction |-> "DESC"])

Precedes(r, s, by) == IF by.direction = "DESC" THEN r[by.column] > s[by.column]
                                               ELSE r[by.column] < s[by.column]

\* The places, from 0 on, that the rows can have in the result: the database is
\* free to place rows that are equal in the column.
Rankings(S, by) ==
  {f \in [S -> 0..Cardinality(S) - 1] :
     \A r, s \in S : /\ f[r] = f[s] => r = s
                     /\ Precedes(r, s, by) => f[r] < f[s]}

\* getRawMany takes no account of skip and take when a relation is joined, and
\* take(0) sets no limit.
Unlimited(cfg, o) == \/ Given(cfg, "flat", FALSE) /\ Given(cfg, "joins", {}) # {}
                     \/ Limit(o) = 0

OnPage(place, o) == Skipped(o) <= place /\ place < Skipped(o) + Limit(o)

\* A negative OFFSET or LIMIT is an error of the database: "Query failed".
Fails(o) == Limit(o) < 0 \/ Skipped(o) < 0

\* The sets of items the query can answer.
Items(table, cfg, o) ==
  LET found == Matches(table, cfg, o)
  IN {{row \in found : Unlimited(cfg, o) \/ OnPage(f[row], o)} : f \in Rankings(found, Order(cfg, o))}
=============================================================================
