--------------------------- MODULE MCInventoryCache ---------------------------
(***************************************************************************)
(* Small instances of InventoryCache for TLC.                              *)
(***************************************************************************)
EXTENDS InventoryCache, TLC

\* Books are treated alike, and so are readers and writers.
Symmetry == Permutations(Books) \cup Permutations(Readers) \cup Permutations(Writers)
=============================================================================
