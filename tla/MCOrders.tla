------------------------------ MODULE MCOrders ------------------------------
(***************************************************************************)
(* Orders for TLC: one order type with a single byte of field flags, and   *)
(* the two that draw from the bitmap cache, with two and three bytes.      *)
(***************************************************************************)
EXTENDS Orders

MCUsed == [rect |-> {2}, memblt |-> {1, 8}, triblt |-> {1, 15}]
=============================================================================
