----------------------------- MODULE PiasModule -----------------------------
(***************************************************************************)
(* The life of the PIAS kernel module (PIAS/main.c): it allocates the flow *)
(* table and registers the parameters, the two hooks and the probe, which  *)
(* from then on start operations on the table on any CPU; it takes them    *)
(* down in the opposite order, clears the table and frees it.              *)
(*                                                                         *)
(* The kernel is external: registering fails or succeeds, and              *)
(* unregistering returns when no call of what was registered is running    *)
(* (nf_unregister_hook and unregister_jprobe wait for a grace period).     *)
(* After a failed load the kernel drops the module's code; what is still   *)
(* registered then is undefined and makes no step in the model.            *)
(***************************************************************************)
EXTENDS PiasTable

CONSTANTS Memory,     \* the outcomes of vmalloc
          QuietAdmin  \* does the operator clear the table of a live module only?

ASSUME ModuleAssumption == Memory \subseteq BOOLEAN /\ QuietAdmin \in BOOLEAN

VARIABLES stage,  \* of the module
          up,     \* what is registered
          lists,  \* is ft.flow_lists allocated?
          via     \* through what the operation of every CPU was entered

moduleVars == <<stage, up, lists, via>>
allVars == <<vars, moduleVars>>

EntryPoints == {"out", "in", "probe"}

ModuleTypeOK ==
    /\ TypeOK
    /\ stage \in {"absent", "loading", "live", "failed", "unloading", "freeing"}
    /\ up \subseteq EntryPoints \cup {"sysctl"}
    /\ lists \in BOOLEAN
    /\ via \in [Cpus -> EntryPoints \cup {"none", "admin", "exit"}]

ModuleInit ==
    /\ Init
    /\ stage = "absent" /\ up = {} /\ lists = FALSE
    /\ via = [c \in Cpus |-> "none"]

-----------------------------------------------------------------------------
(* pias_module_init.                                                       *)

\* PIAS_Init_Table, whose result is ignored.
InitTable ==
    /\ stage = "absent"
    /\ \E ok \in Memory :
        /\ lists' = ok
        /\ list' = IF ok THEN [b \in Lists |-> <<>>] ELSE list
        /\ len' = IF ok THEN [b \in Lists |-> 0] ELSE len
        /\ size' = IF ok THEN 0 ELSE size
    /\ stage' = "loading"
    /\ UNCHANGED <<flow, old, cpuVars, up, via>>

\* Each is registered when those before it are; the last one completes the load.
Register(k, before) ==
    /\ stage = "loading" /\ up = before
    /\ up' = up \cup {k}
    /\ stage' = IF k = "probe" THEN "live" ELSE "loading"
    /\ UNCHANGED <<vars, lists, via>>

ParamsInit == Register("sysctl", {})
HookOutInit == Register("out", {"sysctl"})
HookInInit == Register("in", {"sysctl", "out"})
JProbeInit == Register("probe", {"sysctl", "out", "in"})

\* One of them fails: init returns -1, and nothing is taken back.
InitFails ==
    /\ stage = "loading"
    /\ stage' = "failed"
    /\ UNCHANGED <<vars, up, lists, via>>

-----------------------------------------------------------------------------
(* pias_module_exit.                                                       *)

Unload ==
    /\ stage = "live"
    /\ QuietAdmin => \A c \in Cpus : via[c] # "admin"
    /\ stage' = "unloading"
    /\ UNCHANGED <<vars, up, lists, via>>

UnregisterAtOnce(k, rest) ==  \* faulty variant: running calls are not waited for
    /\ stage = "unloading" /\ up = rest \cup {k}
    /\ up' = rest
    /\ UNCHANGED <<vars, stage, lists, via>>

Unregister(k, rest) ==
    /\ stage = "unloading" /\ up = rest \cup {k}
    /\ \A c \in Cpus : via[c] # k
    /\ up' = rest
    /\ UNCHANGED <<vars, stage, lists, via>>

JProbeExit == Unregister("probe", {"sysctl", "out", "in"})
HookOutExit == Unregister("out", {"sysctl", "in"})
HookInExit == Unregister("in", {"sysctl"})
ParamsExit == Unregister("sysctl", {})

ExitTableKeepsEntries(c) ==  \* faulty variant: freed without PIAS_Clear_Table
    /\ stage = "unloading" /\ up = {} /\ pc[c] = "idle"
    /\ stage' = "freeing"
    /\ UNCHANGED <<vars, via, up, lists>>

\* PIAS_Exit_Table clears the table, on the CPU where the module is removed ...
ExitTable(c) ==
    /\ stage = "unloading" /\ up = {} /\ pc[c] = "idle"
    /\ op' = [op EXCEPT ![c] = "clear"] /\ Go(c, "clear")
    /\ via' = [via EXCEPT ![c] = "exit"]
    /\ stage' = "freeing"
    /\ old' = [old EXCEPT ![c] = Known]
    /\ UNCHANGED <<list, len, size, flow, arg, ptr, bkt, up, lists>>

\* ... and then frees the lists.
Free ==
    /\ stage = "freeing" /\ \A c \in Cpus : via[c] # "exit"
    /\ lists' = FALSE /\ stage' = "absent"
    /\ UNCHANGED <<vars, up, via>>

-----------------------------------------------------------------------------
(* The operations on the table.                                            *)

Enter(c, k) == via' = [via EXCEPT ![c] = k]

\* The outgoing hook inserts, deletes or uses an entry; the incoming one and
\* the probe only use one.
Call(c) ==
    /\ stage # "failed"
    /\ \E k \in EntryPoints \cap up, f \in Flows, o \in {"insert", "delete", "use"} :
        /\ k = "out" \/ o = "use"
        /\ Start(c, o, f) /\ Enter(c, k)
    /\ UNCHANGED <<stage, up, lists>>

\* pias_set_operation: the parameter file exists as long as the module does.
AdminClear(c) ==
    /\ stage # "failed"
    /\ QuietAdmin => stage = "live"
    /\ StartClear(c) /\ Enter(c, "admin")
    /\ UNCHANGED <<stage, up, lists>>

Continue(c) ==
    /\ stage # "failed"
    /\ Work(c)
    /\ via' = [via EXCEPT ![c] = IF pc'[c] = "idle" THEN "none" ELSE @]
    /\ UNCHANGED <<stage, up, lists>>

ModuleNext ==
    \/ InitTable \/ ParamsInit \/ HookOutInit \/ HookInInit \/ JProbeInit \/ InitFails
    \/ Unload \/ JProbeExit \/ HookOutExit \/ HookInExit \/ ParamsExit \/ Free
    \/ \E c \in Cpus : Call(c) \/ AdminClear(c) \/ Continue(c) \/ ExitTable(c)

ModuleSpec == ModuleInit /\ [][ModuleNext]_allVars

-----------------------------------------------------------------------------
(* Properties.                                                             *)

\* No CPU is in the table while its lists are not allocated: the hooks come
\* after the table and are gone, with all their calls, before it is.
TableLive == At("idle") # Cpus => lists

\* A module that has been removed leaves nothing behind: no registration, no
\* lists, no entry, although the traffic goes on until the hooks are gone.
NothingLeft ==
    stage = "absent" =>
        /\ up = {} /\ ~lists /\ At("idle") = Cpus
        /\ Linked = {} /\ size = 0 /\ \A n \in Nodes : flow[n] = NoFlow

\* A load that fails leaves nothing registered either.
FailureClean == stage = "failed" => up = {} /\ ~lists
=============================================================================
