------------------------------ MODULE NetSystem ------------------------------
(***************************************************************************)
(* The network programs of the system: the network manager's watcher and   *)
(* netcfg, which share the kernel's configuration, and sntp, ping and      *)
(* nslookup, which share nothing with them or with each other. A behaviour *)
(* is therefore one of a single one of them.                               *)
(***************************************************************************)
EXTENDS NetworkManager, Sntp, Ping, Lookup

VARIABLE tool   \* the program this behaviour is about

netVars == <<tool, networkVars, sntpVars, pingVars, lookupVars>>

NetInit ==
    /\ tool \in {"network", "sntp", "ping", "lookup"}
    /\ NetworkInit /\ SntpInit /\ PingInit /\ LookupInit
    \* A program this behaviour is not about is in one of its initial states.
    /\ tool # "sntp" => skew = CHOOSE s \in Skews : TRUE
    /\ tool # "ping" => count = CHOOSE c \in Counts : TRUE
    /\ tool # "lookup" => lookup.pc = "exit" /\ lookup.types = <<"A">> /\ lookup.style = "host"

NetNext ==
    \/ tool = "network" /\ NetworkNext /\ UNCHANGED <<tool, sntpVars, pingVars, lookupVars>>
    \/ tool = "sntp"    /\ SntpNext    /\ UNCHANGED <<tool, networkVars, pingVars, lookupVars>>
    \/ tool = "ping"    /\ PingNext    /\ UNCHANGED <<tool, networkVars, sntpVars, lookupVars>>
    \/ tool = "lookup"  /\ LookupNext  /\ UNCHANGED <<tool, networkVars, sntpVars, pingVars>>

\* The fairness of the network manager, in the behaviours about it.
NetSpec == NetInit /\ [][NetNext]_netVars /\ (tool = "network" => NetworkFairness)

-----------------------------------------------------------------------------
\* The network manager's own liveness (EventuallyWritten, main.cpp:69), in the
\* behaviours about it: a configuration that lasts reaches both files.
FilesFollowInterface == tool = "network" => EventuallyWritten
=============================================================================
