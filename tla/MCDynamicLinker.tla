---------------------------- MODULE MCDynamicLinker ----------------------------
(* Three libraries in chains, diamonds and cycles; the program may also need *)
(* the first under another name (libm.so.6 for libinstant.so), or one that   *)
(* is not there. One library's name is too long to be kept, and one library  *)
(* is linked for fixed addresses.                                            *)
EXTENDS DynamicLinker

CONSTANTS main, instant, ui, gl, libm, missing, symbol

MCFiles   == {instant, ui, gl}
MCNames   == MCFiles \cup {libm, missing}
MCLong    == {gl}
MCFixed   == {ui}
MCSymbols == {symbol}
Nobody    == {}

MCResolve(n) == IF n = libm THEN instant ELSE n

\* Larger than, as large as and smaller than the stride.
MCSize(f) == CASE f = instant -> 5 [] f = gl -> 4 [] f = ui -> 1

UpTo(S, n) == UNION {[1 .. k -> S] : k \in 0 .. n}

\* Two entries in the program's list and in one library's.
MCNeeds(o) == CASE o = main    -> UpTo(MCNames, 2)
                [] o = instant -> UpTo(MCFiles, 1)
                [] o = ui      -> UpTo({instant, gl}, 2)
                [] o = gl      -> UpTo({instant, ui}, 1)
=============================================================================
