----------------------------- MODULE MCKeyboard -----------------------------
(***************************************************************************)
(* One letter besides Shift and Caps Lock, and a capital letter to scan,   *)
(* for TLC.                                                                *)
(***************************************************************************)
EXTENDS Keyboard

MCScans == {<<[key |-> l, shift |-> TRUE]>> : l \in Letters}
=============================================================================
