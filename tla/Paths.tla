-------------------------------- MODULE Paths --------------------------------
(***************************************************************************)
(* The *at calls of the sysdeps                                            *)
(* (outside/mlibc-sysdeps/instantos/sysdeps.cpp). The kernel knows only    *)
(* paths: at_resolve() asks it for the path of the directory fd, puts the  *)
(* name behind that and makes the call with the result, while others move  *)
(* directories and create and remove files.                                *)
(*                                                                         *)
(* A place is a directory's path, named by its length; a name is named by  *)
(* its length too, and is a prefix of the longer ones, which is what       *)
(* remains of one that is cut.                                             *)
(***************************************************************************)
EXTENDS Integers, Sequences

CONSTANTS
    Dirs,
    Places,     \* paths a directory can have
    Names,
    Room        \* sizeof(buf) - 1 of the callers

ASSUME PathsAssumption ==
    /\ Places \subseteq Nat /\ Names \subseteq Nat \ {0} /\ Room \in Nat
    /\ \A place \in Places : place + 1 < Room

VARIABLES
    where,      \* the place of each directory
    files,      \* the files there are: <<directory, name>>
    pathCall    \* the call under way, or the last one

pathVars == <<where, files, pathCall>>

\* The directory itself.
NoName  == 0
NoCall  == [pc |-> "done", kind |-> "none", want |-> <<>>, paths |-> <<>>,
            moved |-> FALSE, cut |-> FALSE, acted |-> {}]

PathsInit ==
    /\ where \in [Dirs -> Places]
    /\ \A d, e \in Dirs : d # e => where[d] # where[e]
    /\ files = {}
    /\ pathCall = NoCall

-----------------------------------------------------------------------------
(* Others *)

\* A directory is renamed to a free path.
DirMoves(d, place) ==
    /\ \A e \in Dirs : where[e] # place
    /\ where' = [where EXCEPT ![d] = place]
    /\ pathCall' = [pathCall EXCEPT !.moved = @ \/ pathCall.pc # "done"]
    /\ UNCHANGED files

OthersCreate(d, n) ==
    /\ <<d, n>> \notin files
    /\ files' = files \cup {<<d, n>>}
    /\ UNCHANGED <<where, pathCall>>

OthersRemove(d, n) ==
    /\ <<d, n>> \in files
    /\ files' = files \ {<<d, n>>}
    /\ UNCHANGED <<where, pathCall>>

-----------------------------------------------------------------------------
(* The calls: what they want, and of what kind they are *)

Begin(kind, want) ==
    /\ pathCall.pc = "done"
    /\ pathCall' = [NoCall EXCEPT !.pc = "resolve", !.kind = kind, !.want = want]
    /\ UNCHANGED <<where, files>>

Openat(d, n)     == \E kind \in {"use", "create"} : Begin(kind, << <<d, n>> >>)
Mkdirat(d, n)    == Begin("create", << <<d, n>> >>)
Mknodat(d, n)    == Begin("create", << <<d, n>> >>)
Mkfifoat(d, n)   == Begin("create", << <<d, n>> >>)
Symlinkat(d, n)  == Begin("create", << <<d, n>> >>)
Unlinkat(d, n)   == Begin("remove", << <<d, n>> >>)
Fchmodat(d, n)   == Begin("use", << <<d, n>> >>)
Fchownat(d, n)   == Begin("use", << <<d, n>> >>)
Readlinkat(d, n) == Begin("use", << <<d, n>> >>)
Faccessat(d, n)  == Begin("use", << <<d, n>> >>)
Fstatat(d, n)    == Begin("use", << <<d, n>> >>)

Utimensat(d, n)  == Begin("utime", << <<d, n>> >>)

Renameat(d, n, e, m) == Begin("rename", << <<d, n>>, <<e, m>> >>)
Linkat(d, n, e, m)   == Begin("link", << <<d, n>>, <<e, m>> >>)

\* The directory's path is the new working directory.
Fchdir(d) == Begin("chdir", << <<d, NoName>> >>)

-----------------------------------------------------------------------------
\* The path the kernel has for a directory now.
FdPath(d) == where[d]

\* Mutant: the name is left relative to the working directory, whatever that is.
CwdRelative(d, n) == <<FdPath(CHOOSE e \in Dirs : TRUE), n>>

\* at_resolve(): the directory's path, a slash and as much of the name as there
\* is room for; nobody is told when that is not all of it.
at_resolve(d, n) ==
    <<FdPath(d), IF FdPath(d) + 1 + n > Room THEN Room - FdPath(d) - 1 ELSE n>>

Resolved == Len(pathCall.paths)

\* One path after the other, then the call.
ResolveNext ==
    LET want == pathCall.want[Resolved + 1]
    IN  /\ pathCall.pc = "resolve"
        /\ \E path \in {at_resolve(want[1], want[2])} :
              pathCall' = [pathCall EXCEPT
                  !.paths = Append(@, path),
                  !.cut = @ \/ path[2] # want[2],
                  !.moved = @ /\ Resolved > 0,
                  !.pc = IF Resolved + 1 < Len(pathCall.want) THEN "resolve"
                         ELSE IF pathCall.kind = "utime" THEN "stat" ELSE "act"]
        /\ UNCHANGED <<where, files>>

Ends(on) == pathCall' = [pathCall EXCEPT !.pc = "done", !.kind = "none", !.paths = <<>>, !.acted = on]
Fails    == Ends({})

\* FD_PATH fails, and the call with it.
ResolveFails ==
    /\ pathCall.pc = "resolve"
    /\ Fails
    /\ UNCHANGED <<where, files>>

\* What the kernel finds at a path: nothing, or a file of the directory that
\* is there now.
Found(path) == {<<d, path[2]>> : d \in {d \in Dirs : where[d] = path[1]}}

\* UTIME_OMIT: the file's times are read, to be set again; if they cannot be
\* read the present is taken for them.
StatForOmit ==
    /\ pathCall.pc = "stat"
    /\ pathCall' = [pathCall EXCEPT !.pc = "act", !.acted = Found(pathCall.paths[1]) \cap files]
    /\ UNCHANGED <<where, files>>

\* The call itself, with the paths.
Act ==
    LET one == Found(pathCall.paths[1])
        two == Found(pathCall.paths[Resolved])
    IN  /\ pathCall.pc = "act"
        /\ \/ /\ pathCall.kind \in {"use", "utime"}
              /\ IF one \cap files # {} THEN Ends(one \cup pathCall.acted) ELSE Fails
              /\ UNCHANGED files
           \/ /\ pathCall.kind = "create"
              /\ IF one \cap files = {} THEN Ends(one) ELSE Fails
              /\ files' = files \cup one
           \/ /\ pathCall.kind = "remove"
              /\ Ends(one \cap files)
              /\ files' = files \ one
           \/ /\ pathCall.kind \in {"rename", "link"}
              /\ IF /\ one # {} /\ one \subseteq files /\ two # {}
                    /\ pathCall.kind = "link" => two \cap files = {}
                 THEN /\ Ends(one \cup two)
                      /\ files' = (IF pathCall.kind = "rename" THEN files \ one ELSE files) \cup two
                 ELSE Fails /\ UNCHANGED files
           \/ /\ pathCall.kind = "chdir"
              /\ Ends(one)
              /\ UNCHANGED files
        /\ UNCHANGED where

-----------------------------------------------------------------------------
PathsNext ==
    \/ ResolveNext \/ ResolveFails \/ StatForOmit \/ Act
    \/ \E d \in Dirs :
          \/ Fchdir(d)
          \/ \E place \in Places : DirMoves(d, place)
          \/ \E n \in Names :
                \/ OthersCreate(d, n) \/ OthersRemove(d, n)
                \/ Openat(d, n) \/ Mkdirat(d, n) \/ Mknodat(d, n) \/ Mkfifoat(d, n) \/ Symlinkat(d, n)
                \/ Unlinkat(d, n) \/ Fchmodat(d, n) \/ Fchownat(d, n) \/ Readlinkat(d, n)
                \/ Faccessat(d, n) \/ Fstatat(d, n) \/ Utimensat(d, n)
                \/ \E e \in Dirs, m \in Names : Renameat(d, n, e, m) \/ Linkat(d, n, e, m)

PathsSpec == PathsInit /\ [][PathsNext]_pathVars

-----------------------------------------------------------------------------
\* sysdeps.cpp:213: the directory's path "is prefixed": a call with a directory
\* fd that succeeds has acted on that directory's file of that name and on no other,
\* wherever the directory was moved before the call, unless it or another was
\* moved during the call or the path was cut.
AtFindsItsFile ==
    pathCall.pc = "done" /\ ~pathCall.moved /\ ~pathCall.cut =>
        pathCall.acted \in {{}, {pathCall.want[i] : i \in 1 .. Len(pathCall.want)}}
=============================================================================
