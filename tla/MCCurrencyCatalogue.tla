------------------------- MODULE MCCurrencyCatalogue -------------------------
(***************************************************************************)
(* An instance of CurrencyCatalogue: pages of one row, of the list that is *)
(* shown by default and of the one filtered by `visible', and a limit that *)
(* the database refuses.                                                   *)
(***************************************************************************)
EXTENDS CurrencyCatalogue

MCListing == {[limit |-> 1], [limit |-> 1, filters |-> [visible |-> FALSE]],
              [limit |-> -1]}
MCContains == {}
=============================================================================
