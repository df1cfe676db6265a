-------------------------- MODULE MCWarehouseLocks --------------------------
(***************************************************************************)
(* Small instances of WarehouseLocks for TLC.                              *)
(***************************************************************************)
EXTENDS WarehouseLocks, TLC

CONSTANTS o1, o2, k1

One(b) == [c \in Books |-> IF c = b THEN 1 ELSE 0]
Both == [c \in Books |-> 1]
Receipts == {Request("receive", o1, One(b), NoKey, "none") : b \in Books}

\* Confirmations and the task settle a reservation of two books, created twice.
\* A cancellation takes the same steps as they do.
DeadlockRequests == Receipts \cup
    {Request(op, o1, Both, NoKey, "none") : op \in {"create", "confirm"}}

\* One key for two orders that share no book, and so no lock; without it the
\* second order competes for the first one's book, whose stock is being counted
\* and written off.
KeyRequests ==
    {Request("receive", o1, One(2), NoKey, "none"),
     Request("adjust", o1, One(1), NoKey, "none"),
     Request("write_off", o1, One(1), NoKey, "none"),
     Request("create", o1, One(1), k1, "none"), Request("create", o2, One(2), k1, "none"),
     Request("create", o2, Both, NoKey, "none"),
     Request("cancel", o1, Both, NoKey, "none"),
     Request("return", o1, One(1), k1, "damaged"),
     Request("return", o2, One(2), k1, "damaged")} \cup
    {Request("confirm", o, Both, NoKey, "none") : o \in {o1, o2}}

ClientSymmetry == Permutations(Clients)
=============================================================================
