------------------------------- MODULE MCCart -------------------------------
(***************************************************************************)
(* A small instance of Cart for TLC.                                       *)
(***************************************************************************)
EXTENDS Cart, TLC

\* The specification treats requests alike, and books.
CartSymmetry == Permutations(Requests) \cup Permutations(Books)
=============================================================================
