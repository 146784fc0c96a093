------------------------------ MODULE MCBackend ------------------------------
(* A screen of three pixels in a row, so that uniting two changes covers a  *)
(* pixel neither changed, and a pointer two pixels wide that hangs over the *)
(* right edge at the last position.                                         *)
EXTENDS Backend, FiniteSetsExt

CONSTANTS dark, light   \* the scene's colours

MCScreen    == 0 .. 2
MCPlane     == 0 .. 3
MCColors    == {dark, light}
MCPositions == {0, 2}

MCCursorRect(c) == {c, c + 1}

\* The bounding interval; an empty rectangle adds nothing.
Hull == [r \in SUBSET MCPlane |-> IF r = {} THEN {} ELSE Min(r) .. Max(r)]
MCUnite(r, s) == Hull[r \cup s]
=============================================================================
