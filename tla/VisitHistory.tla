----------------------------- MODULE VisitHistory -----------------------------
(***************************************************************************)
(* What Back and Forward promise: the places visited are a list with a     *)
(* position in it. Going somewhere new cuts the list after the position;   *)
(* Back and Forward only move the position. The list holds the current     *)
(* place and Limit more, and forgets its oldest.                           *)
(***************************************************************************)
EXTENDS Naturals, Sequences

CONSTANTS Places, Limit

VARIABLES visited, at

Init ==
    /\ \E p \in Places : visited = <<p>>
    /\ at = 1

Visit ==
    \E p \in Places \ {visited[at]} :
        LET list == Append(SubSeq(visited, 1, at), p)
        IN  /\ visited' = IF Len(list) > Limit + 1 THEN Tail(list) ELSE list
            /\ at' = Len(visited')

Back ==
    /\ at > 1
    /\ at' = at - 1
    /\ UNCHANGED visited

Forward ==
    /\ at < Len(visited)
    /\ at' = at + 1
    /\ UNCHANGED visited

Next == Visit \/ Back \/ Forward

Spec == Init /\ [][Next]_<<visited, at>>
=============================================================================
