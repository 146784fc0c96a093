--------------------------- MODULE NetworkManager ---------------------------
(***************************************************************************)
(* The network manager's watcher (network-manager/src/main.cpp) keeps      *)
(* /etc/resolv.conf and /etc/hosts in step with the kernel's interface     *)
(* configuration, which netcfg (net-tools/src/netcfg.c) and the kernel's   *)
(* DHCP client change. Every system call is a step, and readers may come   *)
(* between any two. ("/etc is always a RAM file system", backend.cpp:327:  *)
(* nothing outlives the machine going down.)                               *)
(*                                                                         *)
(* A file's text is a function of the configuration it was written from,   *)
(* so a file is that configuration's generation and whether all of the     *)
(* text is there.                                                          *)
(***************************************************************************)
EXTENDS Integers

CONSTANTS
    Admins,         \* netcfg processes that are followed
    MaxChanges      \* bound: configurations

ASSUME NetworkAssumption == MaxChanges \in Nat \ {0}

VARIABLES
    net,        \* the kernel: [generation, flags, client] and the leases it got
    watcher,    \* watch_config: [pc, generation, clock, failed], and whether
                \* "<name>.new" holds all of the text (whole)
    files,      \* file name -> [of, whole]
    cut,        \* some write() wrote less than it was given
    admin       \* each netcfg: [pc, cmd, generation, leases]

networkVars == <<net, watcher, files, cut, admin>>

Files    == {"resolv", "hosts"}
Flags    == {"up", "dhcp"}
Commands == {"dhcp", "renew", "static", "down"}
Generations == 0 .. MaxChanges
Content  == [of : Generations, whole : BOOLEAN]
OldFile  == [of |-> 0, whole |-> TRUE]

\* The watcher is at a step of writing one of the files.
WritePcs == {"open", "write", "rename"} \X Files
Starting == [pc |-> <<"start">>, generation |-> 0, clock |-> "not yet", failed |-> FALSE,
             whole |-> FALSE]
NotRun   == [pc |-> "off", cmd |-> "none", generation |-> 0, leases |-> 0]
Failed   == [NotRun EXCEPT !.pc = "failed"]

-----------------------------------------------------------------------------
\* Before the interface has an address. Generation 0 is nobody's: it is what a
\* caller of NetGetConfig that has seen none passes.
FirstConfig == [generation |-> 1, flags |-> {}, client |-> TRUE, leases |-> 0]

NetworkInit ==
    /\ net = FirstConfig
    /\ watcher = Starting
    /\ files = [f \in Files |-> OldFile]
    /\ cut = FALSE
    /\ admin = [a \in Admins |-> NotRun]

-----------------------------------------------------------------------------
(* The kernel *)

\* A new configuration: a generation more.
Configure(flags, client, leases) ==
    /\ net.generation < MaxChanges
    /\ net' = [generation |-> net.generation + 1, flags |-> flags,
               client |-> client, leases |-> leases]

\* The DHCP client gets a lease, or one more.
LeaseArrives ==
    /\ net.client
    /\ Configure(Flags, TRUE, net.leases + 1)
    /\ UNCHANGED <<watcher, files, cut, admin>>

\* The lease runs out.
LeaseEnds ==
    /\ net.flags = Flags
    /\ Configure({}, TRUE, net.leases)
    /\ UNCHANGED <<watcher, files, cut, admin>>

-----------------------------------------------------------------------------
(* The watcher *)

Watcher(next) ==
    /\ watcher' = next
    /\ UNCHANGED <<net, admin>>

At(pc)      == watcher.pc = pc
GoTo(pc)    == [watcher EXCEPT !.pc = pc]
Fails(pc)   == [watcher EXCEPT !.pc = pc, !.failed = TRUE]
Text(whole) == [of |-> watcher.generation, whole |-> whole]
AfterFile(f) == IF f = "resolv" THEN <<"open", "hosts">> ELSE <<"sync">>

\* main() starts the thread; when that fails it goes on without one.
StartWatcher ==
    /\ At(<<"start">>)
    /\ \/ Watcher(GoTo(<<"get">>))
       \/ Watcher(GoTo(<<"none">>))
    /\ UNCHANGED <<files, cut>>

\* NetGetConfig waits for a generation other than the one it is given.
GetConfig ==
    /\ At(<<"get">>)
    /\ net.generation # watcher.generation
    /\ Watcher([watcher EXCEPT !.pc = <<"open", "resolv">>, !.generation = net.generation,
                               !.failed = FALSE,
                               !.clock = IF @ = "not yet" /\ "up" \in net.flags THEN "due" ELSE @])
    /\ UNCHANGED <<files, cut>>

\* It fails, and the watcher sleeps a second.
GetConfigFails ==
    /\ At(<<"get">>)
    /\ Watcher(GoTo(<<"sleep">>))
    /\ UNCHANGED <<files, cut>>

WatcherSleeps ==
    /\ At(<<"sleep">>)
    /\ Watcher(GoTo(<<"get">>))
    /\ UNCHANGED <<files, cut>>

\* Mutant: the file itself is opened, and so emptied, in place of "<name>.new".
OpenInPlace(f) ==
    /\ At(<<"open", f>>)
    /\ files' = [files EXCEPT ![f] = Text(FALSE)]
    /\ Watcher(GoTo(<<"write", f>>))
    /\ UNCHANGED cut

\* write_file(): "<name>.new" is created or emptied; when that fails the file
\* stays as it is.
OpenTemp(f) ==
    /\ At(<<"open", f>>)
    /\ \/ Watcher(GoTo(<<"write", f>>))
       \/ Watcher(Fails(AfterFile(f)))
    /\ UNCHANGED <<files, cut>>

\* What write() returns is not looked at: it may have written only a part.
WriteTemp(f) ==
    /\ At(<<"write", f>>)
    /\ \E whole \in BOOLEAN :
          /\ cut' = (cut \/ ~whole)
          /\ Watcher([GoTo(<<"rename", f>>) EXCEPT !.whole = whole, !.failed = @ \/ ~whole])
    /\ UNCHANGED files

\* Mutant: the file is not put in its place.
RenameForgotten(f) ==
    /\ At(<<"rename", f>>)
    /\ Watcher(GoTo(AfterFile(f)))
    /\ UNCHANGED <<files, cut>>

\* A failed rename() is only reported.
RenameTemp(f) ==
    /\ At(<<"rename", f>>)
    /\ \/ /\ files' = [files EXCEPT ![f] = Text(watcher.whole)]
          /\ Watcher([GoTo(AfterFile(f)) EXCEPT !.whole = FALSE])
       \/ /\ Watcher([Fails(AfterFile(f)) EXCEPT !.whole = FALSE])
          /\ UNCHANGED files
    /\ UNCHANGED cut

\* The first time the interface is up, a thread runs /bin/sntp -s: once, also
\* when the thread could not be created or sntp did not get an answer.
SyncClock ==
    /\ At(<<"sync">>)
    /\ Watcher([GoTo(<<"get">>) EXCEPT !.clock = IF @ = "due" THEN "synced" ELSE @])
    /\ UNCHANGED <<files, cut>>

WatcherStep ==
    \/ StartWatcher \/ GetConfig \/ WatcherSleeps \/ SyncClock
    \/ \E f \in Files : OpenTemp(f) \/ WriteTemp(f) \/ RenameTemp(f)

-----------------------------------------------------------------------------
(* netcfg *)

Admin(a, next) ==
    /\ admin' = [admin EXCEPT ![a] = next]
    /\ UNCHANGED <<watcher, files, cut>>

\* The configuration before; renew without a lease ends here, and so does a
\* NetGetConfig that fails.
NetcfgStarts(a, cmd) ==
    /\ admin[a].pc = "off"
    /\ \/ /\ cmd = "renew" => "dhcp" \in net.flags
          /\ Admin(a, [pc |-> "set", cmd |-> cmd, generation |-> net.generation, leases |-> net.leases])
       \/ Admin(a, Failed)
    /\ UNCHANGED net

\* What NetSetConfig does to the configuration: dhcp drops the address, renew
\* only asks the DHCP client.
SetEffect(cmd) ==
    \/ cmd = "dhcp"   /\ Configure({}, TRUE, net.leases)
    \/ cmd = "static" /\ Configure({"up"}, FALSE, net.leases)
    \/ cmd = "down"   /\ Configure({}, FALSE, net.leases)
    \/ cmd = "renew"  /\ UNCHANGED net

\* set_config(): refused without root; only dhcp and renew wait for the answer.
NetcfgSets(a) ==
    /\ admin[a].pc = "set"
    /\ \/ /\ SetEffect(admin[a].cmd)
          /\ Admin(a, [admin[a] EXCEPT
                !.pc = IF admin[a].cmd \in {"dhcp", "renew"} THEN "wait" ELSE "ok",
                !.leases = IF admin[a].cmd = "dhcp" THEN net.leases ELSE @])
       \/ /\ Admin(a, Failed)
          /\ UNCHANGED net

\* Any number of netcfgs besides Admins: what each does to the configuration.
OthersSet(cmd) ==
    /\ cmd # "renew"
    /\ SetEffect(cmd)
    /\ UNCHANGED <<watcher, files, cut, admin>>

\* Mutant: the generation is not compared.
WaitsForFlagsOnly(a) ==
    /\ admin[a].pc = "wait"
    /\ Admin(a, [admin[a] EXCEPT !.pc = IF net.flags = Flags THEN "ok" ELSE "wait"])
    /\ UNCHANGED net

\* wait_for(): a new configuration that has the flags ends the wait, another
\* one is only remembered.
wait_for(a) ==
    /\ admin[a].pc = "wait"
    /\ net.generation # admin[a].generation
    /\ Admin(a, [admin[a] EXCEPT !.generation = net.generation,
                                 !.pc = IF net.flags = Flags THEN "ok" ELSE "wait"])
    /\ UNCHANGED net

\* Its time is up, or NetGetConfig fails.
NetcfgGivesUp(a) ==
    /\ admin[a].pc = "wait"
    /\ Admin(a, Failed)
    /\ UNCHANGED net

-----------------------------------------------------------------------------
NetworkNext ==
    \/ LeaseArrives \/ LeaseEnds \/ \E cmd \in Commands : OthersSet(cmd)
    \/ WatcherStep \/ GetConfigFails
    \/ \E a \in Admins :
          \/ \E cmd \in Commands : NetcfgStarts(a, cmd)
          \/ NetcfgSets(a) \/ wait_for(a) \/ NetcfgGivesUp(a)

\* The watcher's thread runs, and NetGetConfig is not refused for ever.
NetworkFairness == WF_networkVars(WatcherStep) /\ SF_networkVars(GetConfig)

NetworkSpec == NetworkInit /\ [][NetworkNext]_networkVars /\ NetworkFairness

-----------------------------------------------------------------------------
\* Every variable has the values the code's declarations allow.
NetworkTypeOK ==
    /\ net \in [generation : Generations, flags : SUBSET Flags, client : BOOLEAN,
                leases : Generations]
    /\ watcher \in [pc : WritePcs \cup {<<s>> : s \in {"start", "none", "get", "sleep", "sync"}},
                    generation : Generations, clock : {"not yet", "due", "synced"}, failed : BOOLEAN,
                    whole : BOOLEAN]
    /\ files \in [Files -> Content]
    /\ cut \in BOOLEAN
    /\ admin \in [Admins -> [pc : {"off", "set", "wait", "ok", "failed"}, cmd : Commands \cup {"none"},
                             generation : Generations, leases : Generations]]

\* main.cpp:42: "readers see the old file or the new one, never half of it":
\* whatever step of the watcher a reader comes at, half a file is only ever in
\* place after a write() that the watcher did not see fall short.
ReadersSeeWhole == NetworkTypeOK /\ \A f \in Files : files[f].whole \/ cut

\* Both files were written from configuration g.
Written(g) == \A f \in Files : files[f] = [of |-> g, whole |-> TRUE]

\* main.cpp:69: "/etc/resolv.conf and /etc/hosts follow the interface": a
\* configuration that lasts is written, also when it came while the one before
\* was being written, unless a call of that very round failed (it is not tried
\* again) or there is no watcher thread.
EventuallyWritten ==
    \/ []<><<net' # net>>_networkVars
    \/ []<>(\/ At(<<"none">>)
            \/ /\ watcher.generation = net.generation
               /\ watcher.failed \/ Written(net.generation))

\* netcfg.c:8: dhcp and renew "wait ... until the kernel reports the new
\* configuration": when one ends well a lease has come after it began (dhcp:
\* after it dropped the address), whatever other netcfgs and the lease's own
\* end did meanwhile.
NetcfgSawLease ==
    \A a \in Admins : admin[a].pc = "ok" /\ admin[a].cmd \in {"dhcp", "renew"} =>
        net.leases > admin[a].leases
=============================================================================
