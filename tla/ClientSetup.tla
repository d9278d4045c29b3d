---------------------------- MODULE ClientSetup ----------------------------
(***************************************************************************)
(* What the client does before its event loop: the arguments are checked   *)
(* (client_configs.c), the addresses of the device collected (network.c),  *)
(* the flow sizes loaded (Cdf), and the connections created one by one     *)
(* (epoll.c, network.c).  Any of it may end the program or lose a flow.    *)
(***************************************************************************)
EXTENDS Cdf

CONSTANTS Configs,    \* arguments: [flows, concurrent, threads, server]
          Interfaces, \* what getifaddrs may return: sequences of [name, inet]
          MaxIps,     \* MAX_IPS, the addresses src_ips has room for
          MaxThreads, \* MAX_THREADS
          Held        \* descriptors in use before the first connection

ASSUME SetupAssumption ==
    /\ \A c \in Configs : /\ c.flows \in Nat /\ c.concurrent \in Nat
                          /\ c.threads \in Nat /\ c.server \in BOOLEAN
    /\ \A s \in Interfaces : s \in Seq([name : {"dev", "alias", "other"}, inet : BOOLEAN])
    /\ MaxIps \in Nat \ {0} /\ MaxThreads \in Nat /\ Held \in Nat \ {0}

VARIABLES phase,   \* where main and epoll_client are
          conf,    \* flow_conf, and whether a server was given
          ifaddrs, \* what getifaddrs returned
          ifa,     \* how many of them get_src_ips has looked at
          ips,     \* src_ips: the positions of the addresses it took
          fds,     \* descriptors open in the process
          socks,   \* descriptors of established flows, registered in efd
          tried,   \* i, the connections attempted
          left     \* left_flows

argVars == <<conf, ifaddrs>>
ipVars == <<ifa, ips>>
connVars == <<fds, socks, tried, left>>
setupVars == <<cdfVars, phase, argVars, ipVars, connVars>>

Phases == {"args", "ips", "cdf", "create", "run", "done", "exited"}

SetupTypeOK ==
    /\ CdfTypeOK
    /\ phase \in Phases
    /\ conf \in Configs /\ ifaddrs \in Interfaces
    /\ ifa \in Nat /\ ips \in Seq(Nat)
    /\ fds \subseteq Nat /\ socks \subseteq fds
    /\ tried \in 0 .. conf.flows /\ left \in 0 .. conf.flows

InitSetup ==
    /\ InitCdf
    /\ phase = "args"
    /\ conf \in Configs /\ ifaddrs \in Interfaces
    /\ ifa = 0 /\ ips = <<>>
    /\ fds = 0 .. Held - 1 /\ socks = {} /\ tried = 0 /\ left = 0

Enter(next) == phase' = next

-----------------------------------------------------------------------------
\* read_args: a server must be named, and the threads must do for the
\* concurrent flows.
ArgsOK == conf.server /\ conf.threads >= conf.concurrent

ReadArgs ==
    /\ phase = "args"
    /\ Enter(IF ArgsOK THEN "ips" ELSE "exited")
    /\ UNCHANGED <<cdfVars, argVars, ipVars, connVars>>

\* An IPv4 address of the device or of one of its aliases.
Takes(a) == a.inet /\ a.name \in {"dev", "alias"}

\* The loop ends one address late: MAX_IPS addresses do not stop it.
IpsEnd == ifa = Len(ifaddrs) \/ Len(ips) > MaxIps

NextIp ==
    /\ phase = "ips" /\ ~IpsEnd
    /\ ifa' = ifa + 1
    /\ ips' = IF Takes(ifaddrs[ifa + 1]) THEN Append(ips, ifa + 1) ELSE ips
    /\ UNCHANGED <<cdfVars, phase, argVars, connVars>>

HaveIps ==
    /\ phase = "ips" /\ IpsEnd
    /\ Enter(IF ips = <<>> THEN "exited" ELSE "cdf")
    /\ UNCHANGED <<cdfVars, argVars, ipVars, connVars>>

LoadLine ==
    /\ phase = "cdf"
    /\ ReadLine
    /\ UNCHANGED <<phase, argVars, ipVars, connVars>>

\* The end of the file, or a line that ends the program; then main asserts
\* that there is a thread and a slot for every thread.
LoadEnd ==
    /\ phase = "cdf" /\ (Loaded \/ RejectsLine)
    /\ Enter(IF Loaded /\ conf.threads \in 1 .. MaxThreads - 1 THEN "create" ELSE "exited")
    /\ UNCHANGED <<cdfVars, argVars, ipVars, connVars>>

-----------------------------------------------------------------------------
(* create_N_epoll_events.  get_conn sets the source port to 0, so that n   *)
(* is the number of flows asked for.                                       *)

LowestFree == Min((0 .. Cardinality(fds)) \ fds)

Attempt ==
    /\ phase = "create" /\ tried < conf.flows
    /\ tried' = tried + 1
    /\ UNCHANGED <<cdfVars, phase, argVars, ipVars>>

\* The connection is established or in progress, and registered in efd.
Create ==
    /\ Attempt
    /\ fds' = fds \cup {LowestFree} /\ socks' = socks \cup {LowestFree}
    /\ left' = left + 1

\* bind fails, and the socket stays open.
CreateLeaks ==
    /\ Attempt
    /\ fds' = fds \cup {LowestFree}
    /\ UNCHANGED <<socks, left>>

\* socket fails, or connect fails and the socket is closed.
CreateFails ==
    /\ Attempt
    /\ UNCHANGED <<fds, socks, left>>

Created ==
    /\ phase = "create" /\ tried = conf.flows
    /\ Enter("run")
    /\ UNCHANGED <<cdfVars, argVars, ipVars, connVars>>

SetupStep ==
    \/ ReadArgs \/ NextIp \/ HaveIps \/ LoadLine \/ LoadEnd
    \/ Create \/ CreateLeaks \/ CreateFails \/ Created
=============================================================================
