------------------------------- MODULE MCBitmap -------------------------------
(***************************************************************************)
(* Small bitmaps, one of them a single line, and one whose runs need every *)
(* form of a count and several masks, for TLC.                             *)
(***************************************************************************)
EXTENDS Bitmap

MCDims == {<<3, 1>>, <<2, 3>>, <<3, 2>>, <<9, 4>>}
MCMasks == {<<77, 3>>, <<166>>}
MCPatterns == {<<0, 1, 1>>, <<1>>}
=============================================================================
