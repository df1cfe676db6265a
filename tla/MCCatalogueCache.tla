--------------------------- MODULE MCCatalogueCache ---------------------------
(***************************************************************************)
(* Small instances of CatalogueCache for TLC.                              *)
(***************************************************************************)
EXTENDS CatalogueCache, TLC

\* Languages, readers and writers are each treated alike.
Symmetry ==
    Permutations(Languages) \cup Permutations(Readers) \cup Permutations(Writers)
=============================================================================
