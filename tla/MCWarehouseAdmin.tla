--------------------------- MODULE MCWarehouseAdmin ---------------------------
(***************************************************************************)
(* A small instance of WarehouseAdmin for TLC.                             *)
(***************************************************************************)
EXTENDS WarehouseAdmin, TLC
=============================================================================
