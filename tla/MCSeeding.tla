----------------------------- MODULE MCSeeding -----------------------------
(***************************************************************************)
(* An instance of Seeding: two menus and two permissions, one of each for  *)
(* merchants, and two runs of the script.                                  *)
(***************************************************************************)
EXTENDS Seeding
=============================================================================
