----------------------------- MODULE MCTerminal -----------------------------
(* Grids of up to two rows and columns, from windows smaller and larger     *)
(* than they may be. With ints of three bits the digit 1 repeated makes the *)
(* parameters 1, 3 and -1.                                                  *)
EXTENDS Terminal

MCDigit == [d \in {"1"} |-> 1]
MCSizes == {<<0, 2>>, <<2, 0>>, <<3, 3>>}
=============================================================================
