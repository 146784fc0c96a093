-------------------------------- MODULE Clock --------------------------------
(***************************************************************************)
(* The clocks of the sysdeps                                               *)
(* (outside/mlibc-sysdeps/instantos/sysdeps.cpp): ClockGet, ClockSet,      *)
(* Times and Sleep. A kernel without GetUnixTimeNs has its uptime in       *)
(* milliseconds and the Unix time in whole seconds only, and ClockGet puts *)
(* the two together from two system calls. A time is a number of           *)
(* milliseconds, and a second has PerSecond of them.                       *)
(***************************************************************************)
EXTENDS Integers

CONSTANTS PerSecond, MaxUptime, MaxSets

VARIABLES
    uptime,     \* the kernel's millisecond counter
    base,       \* the Unix time at boot, in milliseconds
    kernel,     \* its finest counter: "ns" and Unix time too, "ms", or only seconds ("s")
    get,        \* the ClockGet under way: [pc, clock, ms]
    shown,      \* the last time of each clock
    before,     \* and the one before it; none (-1) if the clock was set since
    sleeper,    \* when the sleeping program is to go on; -1 if none sleeps
    sets        \* how often the clock was set

clockVars == <<uptime, base, kernel, get, shown, before, sleeper, sets>>

Clocks  == {"realtime", "monotonic"}
Unread  == -1
NoGet   == [pc |-> "idle", clock |-> "none", ms |-> Unread]

ClockInit ==
    /\ uptime = 0 /\ base = PerSecond
    /\ kernel \in {"ns", "ms", "s"}
    /\ get = NoGet
    /\ shown = [c \in Clocks |-> Unread]
    /\ before = [c \in Clocks |-> Unread]
    /\ sleeper = Unread /\ sets = 0

UnixTime == base + uptime

Tick ==
    /\ uptime < MaxUptime
    /\ uptime' = uptime + 1
    /\ UNCHANGED <<base, kernel, get, shown, before, sleeper, sets>>

\* ClockGet returns a time.
Shows(c, time) ==
    /\ before' = [before EXCEPT ![c] = shown[c]]
    /\ shown' = [shown EXCEPT ![c] = time]
    /\ get' = NoGet

\* The monotonic clock is one reading, of the fine or the coarse counter.
GetMonotonic ==
    /\ get = NoGet /\ kernel # "s"
    /\ Shows("monotonic", uptime)
    /\ UNCHANGED <<uptime, base, kernel, sleeper, sets>>

GetUnixNs ==
    /\ get = NoGet /\ kernel = "ns"
    /\ Shows("realtime", UnixTime)
    /\ UNCHANGED <<uptime, base, kernel, sleeper, sets>>

\* Without it the milliseconds are read first (a failure counts as none) ...
ReadUptime ==
    /\ get = NoGet /\ kernel # "ns"
    /\ get' = [pc |-> "seconds", clock |-> "realtime",
                ms |-> IF kernel = "ms" THEN uptime % PerSecond ELSE 0]
    /\ UNCHANGED <<uptime, base, kernel, shown, before, sleeper, sets>>

\* ... and the seconds after them, or the call fails.
ReadSeconds ==
    /\ get.pc = "seconds"
    /\ \/ Shows("realtime", (UnixTime \div PerSecond) * PerSecond + get.ms)
       \/ get' = NoGet /\ UNCHANGED <<shown, before>>
    /\ UNCHANGED <<uptime, base, kernel, sleeper, sets>>

\* ClockSet: a later or an earlier time. It is not compared across.
ClockSet(time) ==
    /\ get = NoGet /\ sets < MaxSets
    /\ base' = time - uptime
    /\ shown' = [shown EXCEPT !["realtime"] = Unread]
    /\ before' = [before EXCEPT !["realtime"] = Unread]
    /\ sets' = sets + 1
    /\ UNCHANGED <<uptime, kernel, get, sleeper>>

\* Times: no processor time, the millisecond counter for the elapsed one.
Times ==
    /\ get = NoGet /\ kernel # "s"
    /\ Shows("monotonic", uptime)
    /\ UNCHANGED <<uptime, base, kernel, sleeper, sets>>

\* Sleep: the kernel runs the program again when the time has passed.
Sleep(ms) ==
    /\ sleeper = Unread
    /\ sleeper' = uptime + ms
    /\ UNCHANGED <<uptime, base, kernel, get, shown, before, sets>>

Wakes ==
    /\ sleeper # Unread /\ uptime >= sleeper
    /\ sleeper' = Unread
    /\ UNCHANGED <<uptime, base, kernel, get, shown, before, sets>>

ClockNext ==
    \/ Tick \/ GetMonotonic \/ GetUnixNs \/ ReadUptime \/ ReadSeconds \/ Times \/ Wakes
    \/ \E ms \in 0 .. 1 : Sleep(ms)
    \/ \E time \in {PerSecond, 2 * PerSecond + uptime} : ClockSet(time)

ClockSpec == ClockInit /\ [][ClockNext]_clockVars

-----------------------------------------------------------------------------
\* sysdeps.cpp:981: "this keeps the clock from ever jumping backwards": two
\* readings of a clock that was not set between them do not go back.
ClockNeverBack == \A c \in Clocks : before[c] <= shown[c]
=============================================================================
