---------------------------- MODULE MCSharedPreview ----------------------------
(***************************************************************************)
(* SharedPreview for what the scrapers make of the pages of MCPages.       *)
(***************************************************************************)
EXTENDS SharedPreview, MCPages

MCScrapings == UNION {Scraped(page) : page \in AllPages}

Interchangeable == Permutations(Hits)
=============================================================================
