----------------------------- MODULE FileBrowser -----------------------------
(***************************************************************************)
(* The file browser's window (file-browser/src/main.cpp): where it is, the *)
(* stacks behind Back and Forward, the folder as it was read, the rows the *)
(* search leaves and the selected one. Other programs change the disk.     *)
(*                                                                         *)
(* A path is a node of a tree. A search text is the set of nodes whose     *)
(* names contain it; the empty one is all of them. The list, the search    *)
(* box and the buttons are the toolkit's (external); starting a program    *)
(* and the status line change nothing here.                                *)
(***************************************************************************)
EXTENDS Integers, FiniteSets, Sequences, SequencesExt

CONSTANTS
    Nodes,          \* files and folders that may exist
    Folders,
    Root,
    Home,           \* "/bin", where the browser starts
    Parent,         \* Parent[n], of every node but the root
    Order,          \* entry_before: folders first, then by name
    Searches,       \* search texts
    kHistory,
    kMaxEntries

ASSUME BrowserAssumption ==
    /\ Root \in Folders /\ Home \in Folders
    /\ Folders \subseteq Nodes /\ IsFiniteSet(Nodes)
    /\ Parent \in [Nodes \ {Root} -> Folders]
    /\ Order \in [Nodes -> Nat]
    /\ Searches \subseteq SUBSET Nodes
    /\ Nodes \in Searches
    /\ kHistory \in Nat \ {0}
    /\ kMaxEntries \in Nat \ {0}

VARIABLES
    disk,           \* the nodes that exist
    currentPath,
    backStack,
    forwardStack,
    entries,        \* gEntries
    search,
    visible,        \* visible_: the rows
    selected,       \* the list's selected row, 0 for none
    enabled         \* which of the buttons back_, forward_, up_ are

history == <<currentPath, backStack, forwardStack>>
listing == <<entries, visible, selected>>
vars == <<disk, history, listing, search, enabled>>

NoName == "none"

Row(rows, n) == CHOOSE r \in DOMAIN rows : rows[r] = n
In(n, seq) == \E i \in DOMAIN seq : seq[i] = n

InOrder(list) == \A i, j \in DOMAIN list : i < j => Order[list[i]] <= Order[list[j]]

\* What sort_entries() makes of the entries: names that differ only in case
\* come in the order they were read.
Sorted(S) == {list \in [1 .. Cardinality(S) -> S] : InOrder(list) /\ \A n \in S : In(n, list)}

\* The entries whose names contain the text, in their order.
Matching(list, text) ==
    LET rows[i \in 0 .. Len(list)] ==
            IF i = 0 THEN <<>>
            ELSE IF list[i] \in text THEN Append(rows[i - 1], list[i]) ELSE rows[i - 1]
    IN  rows[Len(list)]

selected_name == IF selected = 0 THEN NoName ELSE visible[selected]

-----------------------------------------------------------------------------
(* What a button or a key ends in.                                         *)

\* apply_filter(select): the rows that match; selects `keep` when it is one of
\* them, else the first.
apply_filter(list, text, keep) ==
    LET rows == Matching(list, text)
    IN  /\ visible' = rows
        /\ selected' = IF In(keep, rows) THEN Row(rows, keep)
                       ELSE IF rows = <<>> THEN 0 ELSE 1

\* What readdir() gives: the folder's entries, as many as fit, or nothing when
\* it cannot be read.
Read(path, found) ==
    LET there == {n \in disk \ {Root} : Parent[n] = path}
    IN  \/ found = {}
        \/ /\ path \in disk
           /\ found \subseteq there
           /\ Cardinality(found) = IF Cardinality(there) > kMaxEntries THEN kMaxEntries
                                                                  ELSE Cardinality(there)

EnabledAt(path, back, forward) ==
    [back |-> back # <<>>, forward |-> forward # <<>>, up |-> path # Root]

\* load_directory(select), at the path and stacks the caller set; `text` is the
\* search.
load_directory(path, back, forward, text, select) ==
    /\ \E found \in SUBSET (Nodes \ {Root}) :
          /\ Read(path, found)
          /\ entries' \in Sorted(found)
          /\ apply_filter(entries', text, select)
    /\ enabled' = EnabledAt(path, back, forward)

\* push(): a full stack drops its oldest.
push(stack, path) == Append(IF Len(stack) = kHistory THEN Tail(stack) ELSE stack, path)

-----------------------------------------------------------------------------
\* on_create(): the start folder is read once.
Init ==
    /\ disk = Nodes
    /\ currentPath = Home
    /\ backStack = <<>>
    /\ forwardStack = <<>>
    /\ search = Nodes
    /\ \E found \in SUBSET (Nodes \ {Root}) : Read(Home, found) /\ entries \in Sorted(found)
    /\ visible = Matching(entries, search)
    /\ selected = IF visible = <<>> THEN 0 ELSE 1
    /\ enabled = EnabledAt(Home, <<>>, <<>>)

\* Mutant: Forward still leads to where it did.
NavigateKeepsForward(path, select) ==
    /\ path # currentPath
    /\ currentPath' = path
    /\ backStack' = push(backStack, currentPath)
    /\ search' = Nodes
    /\ load_directory(path, backStack', forwardStack, Nodes, select)
    /\ UNCHANGED forwardStack

\* navigate(): the same folder is left alone.
navigate(path, select) ==
    /\ path # currentPath
    /\ currentPath' = path
    /\ backStack' = push(backStack, currentPath)
    /\ forwardStack' = <<>>
    /\ search' = Nodes
    /\ load_directory(path, backStack', forwardStack', Nodes, select)

\* open_entry() on a folder's row, which may be gone by now.
OpenEntry ==
    /\ selected # 0
    /\ selected_name \in Folders
    /\ navigate(selected_name, NoName)
    /\ UNCHANGED disk

Ancestors[n \in Nodes] == IF n = Root THEN {} ELSE {Parent[n]} \cup Ancestors[Parent[n]]

\* open_place(), a folder that was in the root at the start, or one of the
\* breadcrumb's segments.
OpenPlace ==
    /\ \E path \in Folders :
          /\ path \in {Root} \cup Ancestors[currentPath] \cup {f \in Folders \ {Root} : Parent[f] = Root}
          /\ navigate(path, NoName)
    /\ UNCHANGED disk

\* open_parent(), selecting the folder it came from.
open_parent ==
    /\ currentPath # Root
    /\ navigate(Parent[currentPath], currentPath)
    /\ UNCHANGED disk

\* Mutant: the place stays on the stack.
BackKeeps ==
    /\ backStack # <<>>
    /\ currentPath' = Last(backStack)
    /\ forwardStack' = push(forwardStack, currentPath)
    /\ search' = Nodes
    /\ load_directory(currentPath', backStack, forwardStack', Nodes, NoName)
    /\ UNCHANGED <<disk, backStack>>

go_back ==
    /\ backStack # <<>>
    /\ currentPath' = Last(backStack)
    /\ backStack' = Front(backStack)
    /\ forwardStack' = push(forwardStack, currentPath)
    /\ search' = Nodes
    /\ load_directory(currentPath', backStack', forwardStack', Nodes, NoName)
    /\ UNCHANGED disk

go_forward ==
    /\ forwardStack # <<>>
    /\ currentPath' = Last(forwardStack)
    /\ forwardStack' = Front(forwardStack)
    /\ backStack' = push(backStack, currentPath)
    /\ search' = Nodes
    /\ load_directory(currentPath', backStack', forwardStack', Nodes, NoName)
    /\ UNCHANGED disk

\* Mutant: F5 goes to the first row.
ReloadSelectsFirst ==
    /\ load_directory(currentPath, backStack, forwardStack, search, NoName)
    /\ UNCHANGED <<disk, history, search>>

\* F5.
Reload ==
    /\ load_directory(currentPath, backStack, forwardStack, search, selected_name)
    /\ UNCHANGED <<disk, history, search>>

\* Mutant: the rows are filtered with the text as it was.
SearchLate ==
    /\ search' \in Searches
    /\ apply_filter(entries, search, selected_name)
    /\ UNCHANGED <<disk, history, entries, enabled>>

\* The search text changes (typed, or Escape empties it).
Search ==
    /\ search' \in Searches
    /\ apply_filter(entries, search', selected_name)
    /\ UNCHANGED <<disk, history, entries, enabled>>

\* The list: another row is selected (external).
Select ==
    /\ selected' \in DOMAIN visible
    /\ UNCHANGED <<disk, history, search, entries, visible, enabled>>

\* Another program makes or removes a node (external); nobody tells the window.
DiskChanges ==
    /\ \E n \in Nodes \ {Root} :
          \/ /\ n \notin disk /\ Parent[n] \in disk
             /\ disk' = disk \cup {n}
          \/ /\ n \in disk /\ \A m \in disk \ {Root} : Parent[m] # n
             /\ disk' = disk \ {n}
    /\ UNCHANGED <<history, listing, search, enabled>>

Next ==
    \/ OpenEntry
    \/ OpenPlace
    \/ open_parent
    \/ go_back
    \/ go_forward
    \/ Reload
    \/ Search
    \/ Select
    \/ DiskChanges

Spec == Init /\ [][Next]_vars

-----------------------------------------------------------------------------
\* Every variable has the values the code's declarations allow; the stacks fit.
TypeOK ==
    /\ disk \in SUBSET Nodes
    /\ currentPath \in Folders
    /\ backStack \in Seq(Folders) /\ Len(backStack) <= kHistory
    /\ forwardStack \in Seq(Folders) /\ Len(forwardStack) <= kHistory
    /\ entries \in Seq(Nodes) /\ Len(entries) <= kMaxEntries
    /\ search \in Searches
    /\ visible \in Seq(Nodes)
    /\ selected \in 0 .. Len(visible)
    /\ enabled \in [back : BOOLEAN, forward : BOOLEAN, up : BOOLEAN]

\* Back and Forward together never fill a stack, so that neither drops a place:
\* only going somewhere new forgets one.
HistoryFits == Len(backStack) + Len(forwardStack) <= kHistory

\* A button is enabled exactly when pressing it does something.
ButtonsMatch == enabled = EnabledAt(currentPath, backStack, forwardStack)

\* The rows are the entries last read that match the search as it is now, folders
\* first, and a row is selected whenever there is one: row numbers never outlive
\* the rows.
RowsMatch ==
    /\ visible = Matching(entries, search)
    /\ \A n \in Nodes : In(n, visible) <=> In(n, entries) /\ n \in search
    /\ InOrder(visible)
    /\ selected = 0 <=> visible = <<>>

\* What the window offers is what it can do: its buttons and its rows are those of
\* the place, the history and the search of the moment, after every handler.
WindowMatches == TypeOK /\ ButtonsMatch /\ RowsMatch

\* Rereading the folder or changing the search keeps the selection on the same
\* file wherever its row is then, if it still has one.
SelectionKept ==
    [][/\ UNCHANGED history
       /\ selected # 0 /\ <<entries, search>>' # <<entries, search>>
       /\ In(selected_name, visible')
       => selected' # 0 /\ visible'[selected'] = visible[selected]]_vars

History == INSTANCE VisitHistory WITH
    Places <- Folders,
    Limit <- kHistory,
    visited <- backStack \o <<currentPath>> \o Reverse(forwardStack),
    at <- Len(backStack) + 1

\* main.cpp, "remembering where we were for Back": the two stacks are a list of
\* places with a position in it.
KeepsHistory == History!Spec
=============================================================================
