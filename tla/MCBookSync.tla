------------------------------ MODULE MCBookSync ------------------------------
(***************************************************************************)
(* Small instances of BookSync for TLC.                                    *)
(***************************************************************************)
EXTENDS BookSync, TLC

\* Books, ISBNs and Celery processes are each treated alike.
Symmetry == Permutations(Books) \cup Permutations(Isbns) \cup Permutations(Workers)
=============================================================================
