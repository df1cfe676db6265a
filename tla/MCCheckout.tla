----------------------------- MODULE MCCheckout -----------------------------
(***************************************************************************)
(* Small instances of Checkout for TLC.                                    *)
(***************************************************************************)
EXTENDS Checkout, TLC

\* Every cart holds one unit of every book.
OneOfEach == [o \in Orders |-> [b \in Books |-> 1]]
CheckoutSymmetry == Permutations(Threads) \cup Permutations(Orders)
=============================================================================
