------------------------------ MODULE MCPrograms ------------------------------
(* A ring of a few bytes and an anchor of two, so that the ring overflows    *)
(* between rounds with its anchor gone, and just kept. For the file browser  *)
(* "/" with bin and home; bin has a folder icons and a file; room for two    *)
(* places behind Back and two entries of a folder.                           *)
EXTENDS Programs, TLC

\* The third byte is the first one again, and alone an anchor while it is the
\* only byte written.
Repeating(n) == IF n = 3 THEN 1 ELSE n

MCFolders  == {"/", "bin", "home", "icons"}
MCNodes    == MCFolders \cup {"ls", "cat"}
MCParent   == [n \in MCNodes \ {"/"} |-> IF n \in {"bin", "home"} THEN "/" ELSE "bin"]
MCOrder    == "/" :> 0 @@ "bin" :> 1 @@ "home" :> 2 @@ "icons" :> 3 @@ "cat" :> 4 @@ "ls" :> 5
MCSearches == {MCNodes, {"ls", "icons"}, {}}
=============================================================================
