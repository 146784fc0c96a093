------------------------------- MODULE Programs -------------------------------
(***************************************************************************)
(* The programs on and behind the desktop that have no part in each        *)
(* other: log-saver, login with its one-shot script, the services and the  *)
(* file browser. They share no memory, and no file that one writes and     *)
(* another depends on, so a behaviour is one of a single one of them.      *)
(***************************************************************************)
EXTENDS LogSaver, Login, ServiceDaemon, FileBrowser

VARIABLE program    \* the program this behaviour is about

programsVars == <<program, logVars, loginVars, serviceVars, vars>>

ProgramsInit ==
    /\ program \in {"logsaver", "login", "service", "browser"}
    /\ LogInit /\ LoginInit /\ ServiceInit /\ Init
    \* A program this behaviour is not about is in one of its initial states.
    /\ program # "service" => kind = "input"
    /\ program # "browser" =>
          entries \in Sorted(CHOOSE found \in SUBSET (Nodes \ {Root}) : Read(Home, found))

ProgramsNext ==
    \/ program = "logsaver" /\ LogNext     /\ UNCHANGED <<program, loginVars, serviceVars, vars>>
    \/ program = "login"    /\ LoginNext   /\ UNCHANGED <<program, logVars, serviceVars, vars>>
    \/ program = "service"  /\ ServiceNext /\ UNCHANGED <<program, logVars, loginVars, vars>>
    \/ program = "browser"  /\ Next        /\ UNCHANGED <<program, logVars, loginVars, serviceVars>>

\* Each program's own fairness, in the behaviours about it.
ProgramsSpec ==
    /\ ProgramsInit /\ [][ProgramsNext]_programsVars
    /\ program = "logsaver" => WF_logVars(Program)
    /\ program = "service" => ServiceFairness
=============================================================================
