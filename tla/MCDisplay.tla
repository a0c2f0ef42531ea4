------------------------------ MODULE MCDisplay ------------------------------
(***************************************************************************)
(* A desktop of 4 by 3 pixels in windows smaller than it in one or both    *)
(* directions and one larger than it, for TLC.                             *)
(***************************************************************************)
EXTENDS Display

MCSizes == {<<2, 2>>, <<3, 2>>, <<5, 4>>}
MCRects == {Rect(0, 0, 2, 2), Rect(1, 1, 3, 2)}
MCBounds == {Full, Rect(1, 0, 2, 2)}
MCLines == {<< <<0, 0>>, <<3, 2>> >>, << <<3, 1>>, <<0, 0>> >>, << <<1, 2>>, <<0, 0>> >>}
MCGlyphs == {{<<0, 0>>, <<1, 1>>}}
MCBitmaps == {[cx |-> 4, cy |-> 2, data |-> [p \in (0 .. 3) \X (0 .. 1) |->
                                               IF p \in {<<0, 0>>, <<3, 0>>, <<2, 1>>} THEN 1 ELSE 0]]}
=============================================================================
