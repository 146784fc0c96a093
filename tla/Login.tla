-------------------------------- MODULE Login --------------------------------
(***************************************************************************)
(* Session start (login/src/main.cpp), the one-shot script /autorun.sh and *)
(* reboot (reboot/src/main.cpp). Scripts are numbered as they are written  *)
(* to /autorun.sh; a file is the set of what it holds, empty when there is *)
(* no file. The machine may go down at any step and keeps its disk.        *)
(***************************************************************************)
EXTENDS Integers

CONSTANTS
    MaxTries,       \* how often a service is looked for: 500, 100
    MaxScripts,     \* bound: scripts written
    MaxStarts       \* bound: starts of the machine

ASSUME LoginAssumption == MaxTries \in Nat /\ MaxScripts \in Nat /\ MaxStarts \in Nat

VARIABLES
    starts,         \* starts of the machine
    scripts,        \* [sh, old]: the script each file holds
    up,             \* services that are registered
    login,          \* [pc, tries]
    bash,           \* the bash login started: not started yet, to open the script, open
    reboot,         \* the reboot program
    ran,            \* script -> how often bash began it
    moved           \* script -> the start it was renamed in, 0 if not yet

loginVars == <<starts, scripts, up, login, bash, reboot, ran, moved>>

Scripts == 1 .. MaxScripts
Written == scripts.sh \cup scripts.old \cup {s \in Scripts : moved[s] # 0}
Fresh   == [pc |-> "input", tries |-> 0]

LoginInit ==
    /\ starts = 1
    /\ scripts = [sh |-> {}, old |-> {}]
    /\ up = {}
    /\ login = Fresh
    /\ bash = "none"
    /\ reboot = "none"
    /\ ran = [s \in Scripts |-> 0]
    /\ moved = [s \in Scripts |-> 0]

-----------------------------------------------------------------------------
(* The machine and its users *)

\* Somebody writes the next script: from the other system or from this one.
ScriptWritten ==
    /\ Written # Scripts
    /\ \E s \in Scripts \ Written :
          /\ \A t \in Scripts \ Written : s <= t
          /\ scripts' = [scripts EXCEPT !.sh = {s}]
    /\ UNCHANGED <<starts, up, login, bash, reboot, ran, moved>>

ServiceRegisters(name) ==
    /\ name \notin up
    /\ up' = up \cup {name}
    /\ UNCHANGED <<starts, scripts, login, bash, reboot, ran, moved>>

GoesDown ==
    /\ starts < MaxStarts
    /\ starts' = starts + 1
    /\ up' = {}
    /\ login' = Fresh
    /\ bash' = "none"
    /\ reboot' = "none"
    /\ UNCHANGED <<scripts, ran, moved>>

\* reboot or poweroff, by the script or by a user: it waits for log-saver
\* before it asks the kernel, which may refuse.
RebootStarts ==
    /\ reboot = "none"
    /\ reboot' = "sleep"
    /\ UNCHANGED <<starts, scripts, up, login, bash, ran, moved>>

RebootAsks ==
    /\ reboot = "sleep"
    /\ \/ GoesDown
       \/ reboot' = "refused" /\ UNCHANGED <<starts, scripts, up, login, bash, ran, moved>>

-----------------------------------------------------------------------------
(* login *)

LoginGoes(pc) ==
    /\ login' = [pc |-> pc, tries |-> 0]
    /\ UNCHANGED <<starts, reboot, ran>>

\* One try to connect; after the last the caller goes on to `otherwise`.
Try(name, found, otherwise) ==
    /\ IF name \in up THEN LoginGoes(found)
       ELSE IF login.tries + 1 < MaxTries
       THEN /\ login' = [login EXCEPT !.tries = @ + 1]
            /\ UNCHANGED <<starts, reboot, ran>>
       ELSE LoginGoes(otherwise)
    /\ UNCHANGED <<up, scripts, bash, moved>>

connectInputManager ==
    /\ login.pc = "input"
    /\ Try("input", "login", "failed")

\* The kernel is asked until it lets root in.
LogIn ==
    /\ login.pc = "login"
    /\ \E pc \in {"login", "compositor"} : LoginGoes(pc)
    /\ UNCHANGED <<scripts, up, bash, moved>>

\* ensureGraphicsCompositor(): found at once, or started (or not) ...
StartCompositor ==
    /\ login.pc = "compositor"
    /\ IF "compositor" \in up THEN LoginGoes("stat")
       ELSE \E pc \in {"await", "done"} : LoginGoes(pc)
    /\ UNCHANGED <<scripts, up, bash, moved>>

\* ... and waited for; without it there is no autorun.
waitForService ==
    /\ login.pc = "await"
    /\ Try("compositor", "stat", "done")

\* runAutorun(): is there a script?
StatScript ==
    /\ login.pc = "stat"
    /\ LoginGoes(IF scripts.sh = {} THEN "done" ELSE "unlink")
    /\ UNCHANGED <<scripts, up, bash, moved>>

\* What unlink() returns is not looked at.
UnlinkOld ==
    /\ login.pc = "unlink"
    /\ scripts' \in {scripts, [scripts EXCEPT !.old = {}]}
    /\ LoginGoes("rename")
    /\ UNCHANGED <<up, bash, moved>>

RenameDone ==
    /\ scripts' = [sh |-> {}, old |-> scripts.sh]
    /\ moved' = [s \in Scripts |-> IF s \in scripts.sh THEN starts ELSE moved[s]]
    /\ LoginGoes("sleep")

\* Mutant: the script is run although it could not be renamed.
RunsAnyway ==
    /\ login.pc = "rename"
    /\ \/ RenameDone
       \/ LoginGoes("sleep") /\ UNCHANGED <<scripts, moved>>
    /\ UNCHANGED <<up, bash>>

\* Renamed so that it runs on this boot only; if it cannot be, it does not run.
RenameScript ==
    /\ login.pc = "rename"
    /\ \/ RenameDone
       \/ LoginGoes("done") /\ UNCHANGED <<scripts, moved>>
    /\ UNCHANGED <<up, bash>>

\* After three seconds bash is started on /autorun.old, or cannot be.
SpawnBash ==
    /\ login.pc = "sleep"
    /\ LoginGoes("done")
    /\ bash' \in {"none", "opening"}
    /\ UNCHANGED <<up, scripts, moved>>

\* bash opens the file it was given (external).
BashRuns ==
    /\ bash = "opening"
    /\ bash' = "open"
    /\ ran' = [s \in Scripts |-> IF s \in scripts.old THEN ran[s] + 1 ELSE ran[s]]
    /\ UNCHANGED <<starts, scripts, up, login, reboot, moved>>

-----------------------------------------------------------------------------
LoginNext ==
    \/ ScriptWritten \/ GoesDown \/ RebootStarts \/ RebootAsks
    \/ \E name \in {"input", "compositor"} : ServiceRegisters(name)
    \/ connectInputManager \/ LogIn \/ StartCompositor \/ waitForService
    \/ StatScript \/ UnlinkOld \/ RenameScript \/ SpawnBash \/ BashRuns

LoginSpec == LoginInit /\ [][LoginNext]_loginVars

-----------------------------------------------------------------------------
\* login/src/main.cpp:62: "so it runs on this boot only": a script is begun at
\* most once, whatever step the machine goes down at and whatever else is
\* written to /autorun.sh meanwhile, and one that is still to be begun was
\* renamed in this very start.
AutorunOnce ==
    /\ \A s \in Scripts : ran[s] <= 1 /\ (s \in scripts.sh => ran[s] = 0)
    /\ bash = "opening" => \A s \in scripts.old : moved[s] = starts /\ ran[s] = 0
=============================================================================
