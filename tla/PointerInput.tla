----------------------------- MODULE PointerInput -----------------------------
(***************************************************************************)
(* Pointer events in the compositor (graphics-compositor/src/input.cpp,    *)
(* scene.cpp): route_pointer_to_window() hands an event to the program     *)
(* whose content is under the pointer, or that holds the pointer since a   *)
(* press, and then handle_pointer_event() does the compositor's own part   *)
(* of the same event: moving, resizing, the title bar's buttons, the       *)
(* taskbar.                                                                *)
(*                                                                         *)
(* A place on the screen is the part of the topmost window there, or the   *)
(* taskbar, or the bare desktop. The resize grip lies inside the content   *)
(* (its rectangle ends where the content ends). Both functions see the     *)
(* windows as the last pass listed them, which may be out of date.         *)
(***************************************************************************)
EXTENDS Integers

CONSTANTS
    Panes,          \* windows
    NoWindow,
    Pinned,         \* windows of pinned apps have no tile of their own
    MaxChanges      \* bound: changes the programs make to their windows

ASSUME PointerInputAssumption ==
    /\ NoWindow \notin Panes
    /\ Pinned \subseteq Panes
    /\ MaxChanges \in Nat

VARIABLES
    state,          \* the kernel's windows: "open", "minimized" or "closed"
    focused,        \* the focused window, or NoWindow
    windows,        \* windowSnapshot: the states as last listed
    active,         \* and the focused window then
    buttons,        \* pointerButtons
    grabWindowId,   \* PointerRoute
    drag,           \* DragState: what is dragged, and how
    gWindowHover,   \* the window control under the pointer
    gTaskbarHover,  \* the window whose tile is under the pointer
    changes

pointerVars == <<state, focused, windows, active, buttons, grabWindowId, drag, gWindowHover, gTaskbarHover,
          changes>>

Left    == "left"
Buttons == {Left, "right"}
Controls == {"close", "maximize", "minimize"}
Parts   == {"content", "grip", "title", "frame"} \cup Controls
Places  == [window : Panes, part : Parts]
              \cup [window : {NoWindow}, part : {"desktop", "bar"}]
              \cup [window : Panes, part : {"tile"}]
NoDrag  == [window |-> NoWindow, how |-> "none"]
NoHover == [window |-> NoWindow, part |-> "none"]

OnTaskbar(at) == at.part \in {"bar", "tile"}
InContent(at) == at.part \in {"content", "grip"}
Listed(w)     == w \in Panes /\ windows[w] # "closed"

\* Where the pointer can be, as the snapshot has it.
Possible(at) ==
    IF at.part \in Parts THEN windows[at.window] = "open"
    ELSE at.part = "tile" => Listed(at.window) \/ at.window \in Pinned

-----------------------------------------------------------------------------
PointerInit ==
    /\ state = [w \in Panes |-> "open"]
    /\ focused = NoWindow
    /\ windows = state
    /\ active = NoWindow
    /\ buttons = {}
    /\ grabWindowId = NoWindow
    /\ drag = NoDrag
    /\ gWindowHover = NoHover
    /\ gTaskbarHover = NoWindow
    /\ changes = 0

\* The window route_pointer_to_window() picks for an event at `at'.
Target(at) ==
    IF Listed(grabWindowId) THEN grabWindowId
    ELSE IF InContent(at) THEN at.window
    ELSE NoWindow

\* route_pointer_to_window(): nothing during a drag; else a button event
\* decides whether the target (which is told of the event) holds the pointer.
route_pointer_to_window(at, now) ==
    LET target == Target(at)
        isButton == now # buttons
    IN  grabWindowId' = CASE drag # NoDrag -> grabWindowId
                          [] drag = NoDrag /\ isButton -> IF now = {} THEN NoWindow ELSE target
                          [] drag = NoDrag /\ ~isButton ->
                                IF grabWindowId = target THEN target ELSE NoWindow

\* update_control_hover(): the tile or the window control under the pointer.
update_control_hover(at) ==
    /\ gTaskbarHover' = IF drag = NoDrag /\ at.part = "tile" THEN at.window ELSE NoWindow
    /\ gWindowHover' = IF drag = NoDrag /\ at.part \in Controls
                       THEN [window |-> at.window, part |-> at.part] ELSE NoHover

\* compositor_focus_window() (external): also brings a minimized window back.
Focus(w) ==
    IF state[w] = "closed" THEN UNCHANGED <<state, focused>>
    ELSE state' = [state EXCEPT ![w] = "open"] /\ focused' = w

\* compositor_control_window() (external).
Control(w, to) ==
    /\ state' = IF state[w] = "closed" THEN state ELSE [state EXCEPT ![w] = to]
    /\ focused' = IF focused = w THEN NoWindow ELSE focused

\* A window's own buttons: the press has given it the focus first.
FocusAndControl(w, to) ==
    IF state[w] = "closed" THEN UNCHANGED <<state, focused>>
    ELSE state' = [state EXCEPT ![w] = to] /\ focused' = NoWindow

\* taskbar_click(): an active window is minimized, another focused; a pinned
\* app without a window is launched.
taskbar_click(w) ==
    IF ~Listed(w) THEN UNCHANGED <<state, focused>>
    ELSE IF active = w /\ windows[w] = "open" THEN Control(w, "minimized")
    ELSE Focus(w)

\* A press of the left button, by what is under the pointer.
LeftPress(at) ==
    \/ /\ at.part = "tile"
       /\ taskbar_click(at.window)
       /\ drag' = NoDrag
    \/ /\ at.part = "bar"
       /\ drag' = NoDrag
       /\ UNCHANGED <<state, focused>>
    \/ /\ at.part = "close"      \* the program may refuse
       /\ FocusAndControl(at.window, "closed") \/ Focus(at.window)
       /\ drag' = NoDrag
    \/ /\ at.part = "minimize"
       /\ FocusAndControl(at.window, "minimized")
       /\ drag' = NoDrag
    \/ /\ at.part = "maximize"
       /\ Focus(at.window)
       /\ drag' = NoDrag
    \/ /\ at.part \in {"grip", "title"}
       /\ Focus(at.window)
       /\ drag' = [window |-> at.window, how |-> IF at.part = "grip" THEN "resize" ELSE "move"]
    \/ /\ at.part \in {"content", "frame"}
       /\ Focus(at.window)
       /\ UNCHANGED drag
    \/ /\ at.part = "desktop"
       /\ UNCHANGED <<state, focused, drag>>

\* Mutant: the drag ends when the last button is released.
HandleAnyButton(at, now) ==
    /\ update_control_hover(at)
    /\ buttons' = now
    /\ IF Left \in now \ buttons THEN LeftPress(at)
       ELSE /\ drag' = IF buttons # {} /\ now = {} THEN NoDrag ELSE drag
            /\ UNCHANGED <<state, focused>>

\* Mutant: any button starts a drag.
HandleAnyPress(at, now) ==
    /\ update_control_hover(at)
    /\ buttons' = now
    /\ IF now \ buttons # {} THEN LeftPress(at)
       ELSE /\ drag' = IF Left \in buttons \ now THEN NoDrag ELSE drag
            /\ UNCHANGED <<state, focused>>

\* handle_pointer_event(). (Moving and resizing change no state kept here.)
handle_pointer_event(at, now) ==
    /\ update_control_hover(at)
    /\ buttons' = now
    /\ IF Left \in now \ buttons THEN LeftPress(at)
       ELSE /\ drag' = IF Left \in buttons \ now THEN NoDrag ELSE drag
            /\ UNCHANGED <<state, focused>>

\* handlePointerEventMessage(): first the programs, then the compositor.
PointerEvent(at, now) ==
    /\ Possible(at)
    /\ route_pointer_to_window(at, now)
    /\ handle_pointer_event(at, now)
    /\ UNCHANGED <<windows, active, changes>>

\* The end of a pass: updateWindowSnapshot().
SnapshotWindows ==
    /\ windows' = state
    /\ active' = focused
    /\ UNCHANGED <<state, focused, buttons, grabWindowId, drag, gWindowHover, gTaskbarHover, changes>>

\* A program closes or reopens its window (external).
ProgramChanges(w) ==
    /\ changes < MaxChanges
    /\ changes' = changes + 1
    /\ state' = [state EXCEPT ![w] = IF @ = "closed" THEN "open" ELSE "closed"]
    /\ focused' = IF focused = w THEN NoWindow ELSE focused
    /\ UNCHANGED <<windows, active, buttons, grabWindowId, drag, gWindowHover, gTaskbarHover>>

PointerNext ==
    \/ \E at \in Places, now \in SUBSET Buttons : PointerEvent(at, now)
    \/ SnapshotWindows
    \/ \E w \in Panes : ProgramChanges(w)

PointerSpec == PointerInit /\ [][PointerNext]_pointerVars

-----------------------------------------------------------------------------
\* Every variable has the values the code's declarations allow.
PointerTypeOK ==
    /\ state \in [Panes -> {"open", "minimized", "closed"}]
    /\ focused \in Panes \cup {NoWindow}
    /\ windows \in [Panes -> {"open", "minimized", "closed"}]
    /\ active \in Panes \cup {NoWindow}
    /\ buttons \in SUBSET Buttons
    /\ grabWindowId \in Panes \cup {NoWindow}
    /\ \/ drag = NoDrag
       \/ drag \in [window : Panes, how : {"move", "resize"}]
    /\ \/ gWindowHover = NoHover
       \/ gWindowHover \in [window : Panes, part : Controls]
    /\ gTaskbarHover \in Panes \cup {NoWindow}
    /\ changes \in 0 .. MaxChanges

\* A drag lasts only while the left button is down, whatever is pressed,
\* closed or lost on the way.
DragWhileLeftDown == PointerTypeOK /\ (drag # NoDrag => Left \in buttons)

\* A drag stays with the window it began on until it ends.
DragKeepsWindow == [][drag # NoDrag /\ drag' # NoDrag => drag' = drag]_pointerVars

\* common.hpp:103: "a press inside a window's content holds the pointer for that
\* window until every button is up".
GrabEndsWithButtons == buttons = {} => grabWindowId = NoWindow
=============================================================================
