---------------------------- MODULE Presentation ----------------------------
(***************************************************************************)
(* What a compositor backend promises its event loop, whatever hardware it *)
(* presents on: the screen only ever shows complete pictures, each of them *)
(* the scene with the pointer over it as it was at the end of some pass,   *)
(* and a picture handed to the display reaches the screen unchanged.       *)
(*                                                                         *)
(* A backend either queues whole pictures for the display's next vertical  *)
(* blank or, once it has fallen back (and always for the software          *)
(* backend), draws every change straight onto the screen.                  *)
(***************************************************************************)
CONSTANTS
    Pictures,   \* what the scene and the pointer together can look like
    NoPicture,  \* nothing is queued
    Stale       \* the screen holds something the compositor did not compose

VARIABLES
    current,    \* the picture the compositor wants shown
    queued,     \* the picture the display takes at the next vertical blank
    shown,      \* what is on screen
    direct      \* changes are drawn straight onto the screen

vars == <<current, queued, shown, direct>>

Init ==
    /\ current \in Pictures
    /\ queued = NoPicture
    /\ shown = Stale
    /\ direct \in BOOLEAN

\* The scene or the pointer changes; the screen keeps what it has.
Change ==
    /\ ~direct
    /\ current' \in Pictures
    /\ UNCHANGED <<queued, shown, direct>>

\* The end of a pass: the current picture, whole, is queued.
Queue ==
    /\ ~direct
    /\ queued = NoPicture
    /\ queued' = current
    /\ UNCHANGED <<current, shown, direct>>

\* The vertical blank: exactly the queued picture comes up.
Land ==
    /\ queued # NoPicture
    /\ shown' = queued
    /\ queued' = NoPicture
    /\ UNCHANGED <<current, direct>>

\* The display refused: the firmware's framebuffer is back on screen.
FallBack ==
    /\ ~direct
    /\ direct' = TRUE
    /\ shown' = Stale
    /\ queued' = NoPicture
    /\ UNCHANGED current

\* The framebuffer gets the whole current picture.
Repaint ==
    /\ direct
    /\ shown' = current
    /\ UNCHANGED <<current, queued, direct>>

\* A change drawn straight onto the screen leaves the changed picture there.
DirectChange ==
    /\ direct
    /\ current' \in Pictures
    /\ shown' = current'
    /\ UNCHANGED <<queued, direct>>

Next == Change \/ Queue \/ Land \/ FallBack \/ Repaint \/ DirectChange

Spec == Init /\ [][Next]_vars
=============================================================================
