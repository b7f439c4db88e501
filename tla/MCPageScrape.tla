------------------------------ MODULE MCPageScrape ------------------------------
(***************************************************************************)
(* PageScrape in the world of MCPages.                                     *)
(***************************************************************************)
EXTENDS PageScrape, MCPages
=============================================================================
