# A specification of the Panda flow generator and of its PIAS kernel module

This directory holds TLA+ models of the two programs of this repository, the
TLC configurations that check them on small instances, and proofs, checked by
TLAPS, of what holds for every instance. Line numbers refer to
`src/flow_generator/src/` (client, server, common) and `src/PIAS/`.

## 1. The system

**Flow generator.** A client opens `-n` TCP connections to a server, sends on at
most `-c` of them at a time a request that names a flow size, receives a
response of that size and records the flow completion time (FCT). Client and
server have the same shape: one epoll thread and `-t` workers, coupled by an
array of slots (`events_poll`).

**PIAS.** A Linux module that keeps an entry for every TCP connection, counts
the bytes it has sent, and marks outgoing packets with the priority of that
count. It lives in a hook for outgoing packets, a hook for incoming ones, a
probe on `tcp_sendmsg`, and operations of the administrator.

The programs do not call each other: PIAS sees the generator's connections as
packets.

| Component | State it keeps | Operations | What is hard about it | What makes it correct |
|---|---|---|---|---|
| Hand-off (`common/thread_poll.c`) | per slot: flag, event | `event_push`, `event_pop`, the worker's store of `THREAD_IDLE` | flags read and written without the mutex, `if` instead of `while` around the waits, signal after unlock | an event is taken, once, and not overwritten; nobody sleeps for ever |
| Client (`client/client.c`, `common/epoll.c`, `common/network.c`) | `active_flows`, `left_flows`, sockets, interest | `epoll_client`, `request_thread`, `del_flow` | two threads on the counters, edge-triggered events, refused, reset and short connections | limit of `-c` flows, one request each, a report that accounts for all |
| Client set-up (`client/client_configs.c`, `common/network.c`, `common/epoll.c`) | arguments, source addresses, open descriptors | `read_args`, `get_src_ips`, `create_N_epoll_events`, `create_connection` | any of it fails, some failures keep a descriptor | every socket that is waited for exists, and every array is large enough for it |
| Distribution (`client/cdf.c`) | a table of sizes that doubles | `load_cdf`, `gen_random_cdf` | growth while loading, borders of the interpolation | sizes are drawn as the file says |
| Flow table and report (`client/statistics.c`) | row per descriptor, error counters, result per group | set request and response time, delete, count error, print | shared by all threads without a lock, indexed by descriptor, percentile of any count | every flow in one line of the report, with its own time |
| Transfer (`common/payload.c`, `common.c`, `network.c`) | counters of the read and write loops | (de)serialise, `write_request`, `read_request`, `write_responce`, `read_responce` | short reads and writes, full buffers, end of stream | the size that was asked for is the size that is received |
| Server (`server/server.c`) | `flows_size[fd]`, epoll registrations, fd table | accept, read request, push, write, close | descriptors are reused while both threads hold copies of them | the right response to the right client, nobody else's connection closed |
| PIAS arithmetic (`PIAS/network.c`) | none | compare sequence numbers, gap, priority | the 32-bit wrap | a total order near the current number |
| PIAS flow state (`PIAS/netfilter.c`, `jprobe.c`) | `last_seq`, `last_ack`, `bytes_sent`, timeouts | outgoing and incoming hook, `tcp_sendmsg` | retransmission, reordering, wrap, unlocked read of the count | `bytes_sent` counts each payload byte once |
| PIAS flow table (`PIAS/flow.c`) | 256 lists with a lock each, total size | search, insert, delete, clear | searches without the lock, entries freed at once | searches step only to live entries, one entry per flow, a size that only clears make wrong |
| PIAS life cycle (`PIAS/main.c`, `params.c`) | what is registered, whether the table is allocated | load, unload, clear | registrations that fail, unloading under traffic | no call in a table that is not there |
| Memcached side load (`shell()` in `client.c`) | `memaslap` | start a script | shares a flag and a counter with the client | it starts when most flows are done |
| Server's listening socket, printing, `get_optimal_threshold.py` | - | start-up and offline work | - | not modelled (section 6) |

`PROJECT.json` lists under "hazards" every place where this code is hard to
test, each at its line, and the property that watches it.

## 2. Modules

| Module | Models | Built on |
|---|---|---|
| `ThreadPoll` | the hand-off | - |
| `ThreadPollProofs` | proofs about it | `ThreadPoll` |
| `FlowGenerator` | what the client promises, abstractly | - |
| `FlowGeneratorProofs` | proofs about it | `FlowGenerator` |
| `Client`, `MCClient` | the client's threads, sockets, flow rows and the side load | instances `P` of `ThreadPoll`, `G` of `FlowGenerator` |
| `ClientProofs` | proofs about it, and that it implements `FlowGenerator` | extends `Client`, instance `PP` of `ThreadPollProofs` |
| `Cdf` | the table of sizes and the draw | - |
| `ClientSetup` | the client before its loop | extends `Cdf` |
| `FlowTable`, `MCFlowTable` | rows, growth and the report | extends `ClientSetup` |
| `FlowTableProofs` | proofs about `Cdf`, `ClientSetup` and `FlowTable` | extends `FlowTable` |
| `Transfer`, `TransferProofs` | one request and its response, byte by byte, and proofs about it | - |
| `Server`, `MCServer` | the server's threads and the kernel's fd table | instance `P` of `ThreadPoll` |
| `System` | server and client together | extends `Server`, instance `G` of `FlowGenerator` |
| `ServerProofs` | proofs about `Server` and `System` | extends `System`, instances `PP` of `ThreadPollProofs`, `GP` of `FlowGeneratorProofs` |
| `PiasNetwork` | PIAS arithmetic | - |
| `PiasFlow`, `MCPiasFlow` | hooks and probe for one connection | extends `PiasNetwork` |
| `PiasFlowProofs` | proofs about the arithmetic and the hooks | extends `PiasFlow` |
| `FlowSet` | what the flow table promises: a set of flows, on which an operation has its effect at one moment | - |
| `PiasTable` | the flow table on several CPUs | instances `FlowSet` |
| `PiasModule`, `MCPiasModule` | loading and unloading the module | extends `PiasTable` |
| `PiasTableProofs` | proofs about the table, alone and in the module | extends `PiasModule` |

How they meet. `Client` and `Server` drive the same `ThreadPoll`. `Client` knows the
response of a connection only as complete, cut short or missing, and `Server` a
request as a whole: `Transfer` is what these stand for. `Client` starts with its
sockets and never looks into a row; `ClientSetup` and `FlowTable` are the
beginning and the end, without the threads. `System` puts `Server` under the
clients that `FlowGenerator` describes, which `Client` implements
(`ImplementsGenerator`): composing `Server` with `Client` itself would add nothing but
the states of the client's own threads. PIAS is composed of one flow seen closely
(`PiasFlow`) and many flows seen from afar (`PiasModule`).

An operator commented "faulty variant" is no part of a specification. It is a
plausible bug in the definition that follows it, and exists to show that a
property would notice.

### How state and actions correspond to the code

`ThreadPoll`. `flag[i]`, `event[i]` are `polls[i].flag` and `.event`. The pusher
is the epoll thread (`ppc`: scan, store, signal), every slot has one worker
(`wpc`: pop, asleep, woken, serving). `get_valid_thread` reads one flag per step
(`ScanHit`, `ScanMiss`, `ScanFail`); a region under the slot's mutex is one step
(`Store`, `PopTake`, `PopWait`, `PopWoken`), and `pthread_cond_signal`, which the
code calls after the unlock, is another (`Signal`). A slot in `LateSignal` is one
where the pusher can be preempted in between; a thread in `Spurious` may return
from `pthread_cond_wait` without a signal. `taken` is a history variable.

`Client`. `epc` is the line of `epoll_client`; `batch` the events of one
`epoll_wait` not handled yet, in any order; `Admit`, `IncLoad`, `AddFlow`,
`PushStep` are lines 65-77 in their order. A worker goes through `task`: read,
then one of connection error (113-116), size error (117-119), or stamp and close
(121-124); then lines 125-129. `interest` and `ready` are the edge-triggered
epoll instance: a socket is reported once for each change and again when it is
modified. `memaslap` is set by the loop and seen by the thread `shell()` some time
later (`Shell`). The server and the network are seen through the socket: `inbox` says
what reading gives. With `Race` every update of a shared counter is a load and a
store; without, no update falls between them.

`ClientSetup`, `FlowTable`. `phase` is where `main` and `epoll_client` are. Configurations,
interface lists and size files come from small sets and are chosen at the start.
`Create`, `CreateLeaks` and `CreateFails` are the ways through `create_connection`.
`rows` is `flows_time`, indexed by descriptor; `Request` is `add_flow_time_entry` with the
size drawn by `GenRandomCdf`, `Answer` and `Fail` are the workers' calls, in any order.
`drawn`, `began` and `answered` are histories the report is compared with.
Probabilities are integers up to `MaxCdf`, a second has `SToUs` microseconds, an int
ends at `IntMax`.

`Transfer`. `arrived` and `pipe` are the two directions of one connection; every `read`
and `write` takes any number of bytes that the socket allows. A byte has `Base` values,
and a request four bytes, as in the code.

`Server`. `owner` is the process's descriptor table, in which `accept` takes the
lowest free number and any `close` frees one. A flow's size is represented by
the connection that asked for it, so that `misled` can tell a response to
somebody else's request. `PromptClose` restricts the schedules to those where
nothing happens between a worker's write and its close; `Faults` says how
clients misbehave.

`System`. `StageOf` reads a flow's stage off its end of the connection. A step of a client
is a step of `Server`'s environment that `FlowGenerator` allows (`ClientMoves`).

`PiasFlow`. The variables of the entry have the names of `flow.h`. The connection
is an environment of `nxt`, `una` and up to `Window` outstanding bytes; the hook
runs as one step up to the unlock (`Packet`) and one step after it (`Mark`). In
between come the hook for incoming packets, the probe and a clear, but no other
outgoing packet of the flow and no reset by the peer: the connection ends at a socket of this host,
whose lock keeps them apart. Packets that the host only forwards have no such
lock; they are not modelled. Times appear only as the outcomes of the two
comparisons with `PIAS_RTO_MIN` and `PIAS_IDLE_TIME`. Connections of the 4-tuple follow each
other; `inherited` remembers that the entry has been left behind by an earlier one,
whose peer had reset it, and the properties about a connection's own numbers (`Own`)
are silent about that entry until it is deleted.

`PiasTable`. A search is one step per list entry, without a lock; a region under
a list's lock is one step; freed entries can be allocated again. Everything overlaps: searches,
additions, deletions, uses and clears of any CPUs in any lists. The one exception is that two
insertions of the same flow do not (`SynsInTurn`): they come from two SYNs of one socket, or two
SYN-ACKs of one listener, which are sent under its lock; forwarded SYNs are not, and are left out. An entry can
be freed while a CPU stands at it or holds it (`Stale`), because nothing in the code prevents that. What the CPU
reads or writes there next is undefined, so in the model it stays where it is while the others go on. The
model is thus every run up to the first use of freed memory: what is checked and
proved holds until then; that it comes shows `UpdatesExisting`, which is violated (section 3).

`FlowSet` is what is left for a caller: the flows with an entry, and whether an operation is
called, holds an entry, has had its effect or is over (`Seen`). An insertion refused and a use
have no effect; `list_add_tail` and `list_del` are the moments of the other effects. A search
without result is over when it passes the end of its list, and its flow must have been absent at a
moment of the call; an entry must be there when it is used. A clear takes flows away list by list
and must return with none left of those it has found at its call (`old`), while others
may insert behind it.

`PiasModule`. One action per registration and per step of `pias_module_exit`. A call enters
through what is registered (`via`), and unregistering waits for the calls that are
running, as the kernel's functions do. After a failed load nothing happens in the
model: the kernel drops code that is still registered.

## 3. What is checked

`pool`, the client's, server's and system's runs, `flows` and `transfer` use
`CHECK_DEADLOCK FALSE`, because these programs may stop: the process exits, or there is
nothing left to do. So does `module`, where a
CPU that holds a freed entry makes no step and a failed load is the end. `pias_flow` checks
for deadlock: a connection can always go on.

| Run | Result | Bounds |
|---|---|---|
| `pool` | Under late signals an event may be taken twice, never more; wake-ups are not lost; a push never waits; with prompt signals nothing is overwritten; what is pushed is delivered | 3 workers (one late, one late and spurious, one undisturbed), 4 slots, 2 events |
| `client_safe` | One request per socket, exact counters and the limit, a report that is complete and accounts for every flow, whatever the network does; the client refines `FlowGenerator` and uses `ThreadPoll` as specified | 3 sockets, `-c` 2, `-t` 2, symmetry |
| `client_live` | The report comes unless a connection is refused or reset, or a push finds no idle thread; the side load starts late | 3 sockets, `-c` 1, `-t` 2, refused connections and short responses |
| `flows` | Every descriptor has a row and a size, every address a place; sizes are drawn as `conf/cdf` says although the table grows; the report counts every answered flow once and the others as errors (`ReportCounts`), with right averages and percentiles (`ReportRight`) | 3 flows, 4 configurations, 3 files, 2 interface lists, clock up to 3, table of 2 lines that doubles |
| `transfer` | The size survives the bytes and the loops; an answer is the whole response; both sides come to an end | 4 sizes (0, less than, more than the buffers), bytes of 4 values, buffers of 4 and 6 |
| `server` | Right response to the right client, no foreign connection closed, every waiting client served, connections of departed clients closed | 2 connections, 2 descriptors, 2 workers |
| `system` | The client's limit bounds the responses being written; the run ends with every flow answered, unless the server has exited | 3 connections, 2 workers, `-c` 1 |
| `pias_flow` | `last_seq`, `last_ack`, `bytes_sent` mean what `flow.h` says, through retransmissions, reordering, wrap and reused 4-tuples; the comparison is right about all numbers in flight; only a flow with outstanding data times out; the unlocked read for the mark never lowers a priority | sequence space 7, window 2, three priorities, peers that reset |
| `module` | The table through loads and unloads, with everything overlapping: one entry per flow, searches that step only to live entries, a size that only a clear can make wrong, and to its callers a set of flows (`ImplementsFlowSet`): a search finds no entry only if at some moment of its call there was none, and a clear leaves nothing it has found. No call runs in a table that is not allocated, and nothing is left after an unload under traffic | 3 CPUs, 3 flows in 2 lists, 2 entries, symmetry |

The facts about the arithmetic of `PiasNetwork` by itself are constant-level; no
run checks them, they are proved (section 4). So are the type invariants of `Server`,
`FlowTable` and `ThreadPoll`, which no run repeats (that of `ThreadPoll` is part of `Client`'s).

Why the bounds are enough. Three sockets with a limit of two give an active, a
deferred and a finished flow at once; two workers let one release its slot while
the other works and the epoll thread scans. In `pool` every kind of worker
occurs once and competes for the pusher. In `flows` three rows fill one group and
leave another empty, the table of sizes grows once or not at all, and every
descriptor that a failed `bind` keeps moves the later ones up by one. In `transfer` the
largest response is several writes and several buffers long, and the smallest is
empty. In `server` one reused descriptor is
enough for stale copies, and the two threads are all its kinds of thread. `system` has
more connections than workers and than the limit. In
`pias_flow` the window fits several times into the sequence space, so that
every field wraps and laps; the tolerance `Mod - Near - 1` exceeds the window as
it does in the code (67295 bytes). In `client_live` there are more sockets than slots, so that
workers delayed between client.c:126 and 129 can fill them all. In `flows` numbers are drawn below the first line, on and
between lines, and beyond the last. In `module` two flows share a list and one does
not, so that a search meets entries of its own and of another flow, and is overtaken in its
list by two others at once, each of them an addition, a deletion or a clear; two entries fill that list, are too few
for all flows, and let an entry be freed while the next is added. Larger instances that take
minutes give the same results: `system` with 3 workers and `-c` 2 (700 000 states), `pias_flow` with
sequence space 9, window 3 and two priorities (7.5 million), `module` with 3 entries but without `ImplementsFlowSet` (4 million).

Restrictions that the passing runs state: signals are prompt in `Client` and
`Server` (`LateSignal = {}`; `pool` has the late ones), updates of shared counters
do not overlap (`Race = FALSE`), a worker's close is prompt (`PromptClose`),
two insertions of one flow do not overlap (`SynsInTurn`), the table is allocated, and cleared only
while the module is live (`Memory = {TRUE}`, `QuietAdmin`), a request arrives in one piece
(no "split" in `Faults`). Each is a constant, so that the next section can lift it.

**Fairness.** The epoll thread and every worker are threads of an ordinary
scheduler: weak fairness of each thread as a whole, of no single action of it.
In the client also of connection set-up and of the server's answer, which TCP
and a working server give; refusals, resets and short answers are never owed,
and clients owe the server nothing. In `transfer` the two loops and TCP's delivery are
fair, faults are not owed; in `system` also the client's moves: `client_live` justifies these up to a connection
that fails and up to the client's own exit, so `RunEnds` is about runs in which neither happens. `PushCall` has none.

### Where the code does not do what it says

Three runs expect a violation, each of a sentence of the repository:

- `client_threads`: with `-t` equal to `-c`, which client_configs.c:96 accepts, the
  client can exit with "The flow concurrency outnumbers the threads".
- `server_double_close`: the worker's close (server.c:77) can hit a connection
  accepted after the epoll thread closed the same number (server.c:42).
- `pias_timeouts`: `last_timeout_seq` is assigned before it is compared
  (netfilter.c:112-114), so timeouts are never consecutive and aging is dead.

The same models show more when a constant of a passing run is changed, or a property added:

| Change | Violated | Because |
|---|---|---|
| `client_safe`: `Race = TRUE` | `CountersExact`, `ReportAccounts` | `active_flows += 1` (client.c:74) without the lock loses an update, and more than `-c` flows transmit; so do the error counters (statistics.c:58) |
| `client_safe`: `LateSignal = {1}` | `CountersExact`, `ReportAccounts` | a late signal makes a worker serve a flow twice (thread_poll.c:36, 43) and `left_flows` is decremented twice |
| `client_safe`: add `AssertionHolds` | `AssertionHolds` | `HandleErr` deletes the row of a flow being received (client.c:63, statistics.c:113) |
| `client_live`: `Reports` without the failed sockets | it | a refused connection is deleted but not counted out (client.c:61-64), and the loop never ends |
| `client_live`: `Reports` without the exit | it | both workers are delayed between client.c:126 and 129, and the third push finds no idle thread (thread_poll.c:24) although `-c` is 1 and `-t` 2 |
| `flows`: more than `MaxIps` addresses in `MCInterfaces` | `InBounds` | the loop ends after address 17 of 16 (network.c:67) |
| `flows`: `Held = 8`, or `Backup = 1` | `InBounds` | descriptors beyond the table are read before it is extended (statistics.c:125) |
| `flows`: `Draws = 0 .. 4` | `SizesFollowFile` | for a first line of probability 0, 0 gives half of its value, which is below it (cdf.c:119) |
| `flows`: `MaxTime = 5` | `ReportCounts`, `ReportRight` | the duration is an int; after 35 minutes it wraps (statistics.c:105) |
| `transfer`: add "split" to `Faults` | `SizeKept` | `read_request` reads once (network.c:172) and decodes bytes nobody wrote |
| `server`: `Faults = {"abandon"}` | `RightResponse` | a worker holds a descriptor the epoll thread closes (server.c:40-42, 70) |
| `server`: `NumFds = 1` | `ServedAndReleased` | `EMFILE` ends the accept loop of an edge-triggered listener (epoll.c:100-102) |
| `system`: `PromptClose = FALSE` | `LoadBounded` | the double close of `server_double_close`, although every client behaves |
| `system`: add `ExitMessageTrue` | `ExitMessageTrue` | the scan misses threads that have just become idle: the server exits although `-c` is not above `-t` (thread_poll.c:8-26) |
| `pias_flow`: `Extras = {"oneByte"}` | `BytesExact` | a pure acknowledgement and the next one-byte segment have the same number (netfilter.c:92-93) |
| `pias_flow`: `Extras = {"highIsn"}` | `LastAckTracked` | `last_ack` starts at 0 (netfilter.c:200) |
| `module`: add `UpdatesExisting` | `UpdatesExisting` | between the search of a hook and its update another CPU frees the entry (flow.c:301-302), and the hook locks and writes freed memory (netfilter.c:96-99) |
| `module`: add `SizeShown` | `SizeShown` | a clear sets the size to 0 after releasing the lists (flow.c:376); what overlaps it leaves "there are %d flows in total" (flow.c:63) wrong for ever |
| `module`: `SynsInTurn = FALSE` | `OneEntryPerFlow`, `ImplementsFlowSet` | search and addition are not under one lock (flow.c:234-254): two SYNs of one flow insert two entries |
| `module`: `Memory = {TRUE, FALSE}` | `TableLive` | the result of `PIAS_Init_Table` is ignored (main.c:77) |
| `module`: `QuietAdmin = FALSE` | `TableLive`, `NothingLeft` | `param_table_operation` can be written before the table is allocated and after it is freed (main.c:19) |
| `module`: add `FailureClean` | `FailureClean` | a failed load leaves its hooks registered (main.c:79-85) |

A percentile of fewer than 100 flows is their maximum; `ReportRight` allows that. The
file `stats/` has, of the two numbers README.md:18 names, the 99th percentile and an
average, not a 50th percentile.

The top-level README.md also says that Panda's counters fall with small packets.
This kernel module has no such rule: `bytes_sent` only grows until it is reset.

## 4. What is proved

| Theorem | States |
|---|---|
| `ThreadPollProofs!TypeCorrect` | `[]TypeOK` |
| `PushNeverWaits` | `[]StoreFindsIdle` |
| `WakeupsArrive` | `[]NoLostWakeup` |
| `NoPhantom` | `[]NoPhantomEvent` |
| `NothingOverwritten` | `[]IdleMeansDelivered` |
| `AtMostTwice` | `[]BoundedTakes` |
| `FlowGeneratorProofs!ConcurrencyLimited`, `ReportsComplete` | `[]AtMostConcurrent`, `[]ReportedAllEnded` of `FlowGenerator!Spec` |
| `ClientProofs!ClientTypes`, `OneRequest` | `[]TypeOK`, `[]RequestOnce` |
| `PoolDriven` | `UsesPool`: every step is a step of `ThreadPoll` or leaves the slots alone |
| `CountersRight`, `ReportComplete` | `[]CountersExact`, `[]ReportAccounts` |
| `GeneratorImplemented` | `ImplementsGenerator`: `Client!Spec` refines `FlowGenerator!Spec` |
| `OtherLoadWaits` | the side load is asked for only when more than a fifth of the flows are over (the safety half of `OtherLoadLate`) |
| `FlowTableProofs!TableTypes` | `[]TypeOK` |
| `ArraysSuffice` | `[]InBounds` |
| `SizesRight` | `[]SizesFollowFile` |
| `CountsReported`, `ReportsRight` | `[]ReportCounts`, `[]ReportRight` |
| `TransferProofs!PayloadRoundTrip` | a size survives its four bytes |
| `SizesAgree`, `AnswersWhole` | `[]SizeKept`, `[]AnswerIsWhole` |
| `ServerProofs!ServerTypes` | `[]TypeOK` |
| `RightResponses`, `OwnCloses` | `[]RightResponse`, `[]ClosesOwnOnly` |
| `LoadsBounded` | `[]LoadBounded` of `System!SysSpec` |
| `PiasFlowProofs!SeqOrderTotal`, `NearbySeqsOrdered`, `GapOneShort`, `PriorityMonotone` | `ExactlyOneLarger`, `NearbyOrdered`, `GapNearlyDistance`, `PriorityFalls` |
| `FlowTypes` | `[]TypeOK` |
| `OrderedInFlight`, `GapsInFlight` | `[]FlightOrdered`, `[]FlightGaps` |
| `LastSeqRight`, `LastAckRight` | `[]LastSeqTracked`, `[]LastAckTracked` |
| `BytesCounted`, `TimeoutsReal` | `[]BytesExact`, `[]TimeoutMeansOutstanding` |
| `MarkRaisesOnly` | `MarkNeverLower` |
| `PiasTableProofs!SearchesStepOnLive`, `SizeFollows` | `StepsOnLive`, `SizeKept` of `PiasTable!Spec`, whatever overlaps |
| `FlowsListedOnce` | `[]OneEntryPerFlow` |
| `TableIsSet`, `SetTypes` | `ImplementsFlowSet`: `PiasTable!Spec` refines `FlowSet!Spec`; what the table maps to has the types of `FlowSet` |
| `CallsFindTable` | `[]TableLive` |
| `ModuleTypes` | `[]ModuleTypeOK` |
| `ModuleRunsTable`, `ModuleTableSound` | `ModuleSpec` implies `PiasTable!Spec`, and with it the four properties of the table |
| `UnloadLeavesNothing` | `[]NothingLeft` |

### From which assumptions

They hold for every value of the constants that satisfies the named assumptions of the
modules: `PollAssumption` (0 < threads_num < MAX_THREADS, as `main` asserts, and an empty
event that is not pushed), `ClientAssumption` (also `-c` at most `-t`, as
client_configs.c:96 demands, finitely many sockets, and counters that hold their number),
`ServerAssumption`, `CdfAssumption`, `SetupAssumption`, `TransferAssumption` (a byte has at least two
values, sizes are ints), `NetworkAssumption` (`Near` inside the sequence space, natural thresholds),
`FlowAssumption` (the window is smaller than `Near` and than the tolerance before a wrap,
67295 bytes in the code), `TableAssumption` and `ModuleAssumption`. What a theorem assumes
beyond these is in its statement, and is a restriction of the passing runs, of which section 3 shows
what happens without it:

- `NothingOverwritten`: prompt signals and no spurious wake-ups.
- `FlowGeneratorProofs`: `Limits`, finitely many flows and a natural limit.
- `CountersRight`, `ReportComplete`, `GeneratorImplemented`, `OtherLoadWaits`: `Prompt`, that is
  prompt signals and no overlapping updates of a counter. `ClientTypes`, `OneRequest` and
  `PoolDriven` need neither.
- `ArraysSuffice`: `Roomy`, that is no more descriptors open at the start than spare rows,
  entries of `flows_size` for these and the flows, and no more addresses than `MAX_IPS`. The client
  makes sure of none of the three.
- `SizesRight`: `Increasing`, that is lines that grow in both columns, as in `conf/cdf`, and a number
  drawn above 0. Two lines with one probability would already refute `SizesFollowFile`.
- `CountsReported`, `ReportsRight`: no more descriptors open at the start than spare rows, and `Measured`, that is
  thresholds that do not fall, as in statistics.c:36-38, and a clock that fits an int of microseconds.
- `SizesAgree`, `AnswersWhole`: the request arrives in one piece.
- `RightResponses`, `OwnCloses`: `Orderly`, that is prompt signals, prompt closes, and no client
  that leaves while it waits. `LoadsBounded` in addition: no client resets, finitely many
  connections. `ServerTypes` needs none of these.
- `LastSeqRight`, `LastAckRight`, `BytesCounted`, `TimeoutsReal`, `MarkRaisesOnly`: `Regular`, that is segments longer than one
  byte, and initial sequence numbers below `Near`.
- `MarkRaisesOnly` also says nothing of forwarded packets, which `PiasFlow` does not have.
- `FlowsListedOnce`, `TableIsSet`, `ModuleTableSound`: `SynsInTurn`. `SearchesStepOnLive`, `SizeFollows` and
  `SetTypes` do not need it.
- `SizeFollows`, `ModuleTableSound`, `ModuleTypes`: finitely many entries, and the first two
  finitely many CPUs, because they count.
- `CallsFindTable`, `ModuleRunsTable`, `ModuleTableSound`, `UnloadLeavesNothing`, `ModuleTypes`: vmalloc succeeds, and
  the table is cleared only while the module is live.

### Along which arguments

**ThreadPoll.** `StoreFindsIdle` and `NoLostWakeup` are not
inductive. `HandOffInv` adds to them the types, that exactly the threads have a
valid flag (`FlagOK`), and that a scan chooses a thread's slot (`ChosenOK`); it
holds for late signals and spurious wake-ups alike. The other invariants build
on it: `EventInv` follows a real event from the pusher into the slot and to the
worker; `PromptInv` says, for prompt signals, where a worker is by the flag of its
slot, and that an idle slot's event has been taken; `TakesInv` bounds the sum of
the takings made and those still owed (`Owed`: one for a signal to come, one for a
worker that is woken, one for a busy slot found on the way into `event_pop`), which
is what makes "at most twice" inductive. Each invariant has one step per action, and
the theorems follow by PTL.

**FlowGenerator.** The limit needs that adding one active flow raises the
cardinality by at most one; the report that nothing changes after it.

**Client.** `RequestOnce` needs that a writable event, registered or in the batch, belongs to a flow
without a request, and that such a flow has no row (`AdmitInv`); that holds for every schedule. For
the counters, `ThreadPoll`'s invariants are carried over by an instance of its proofs
(`PoolInv`). `PlaceInv` then says that an admitted flow is at one place, with the epoll thread, in the push
or in one slot; `SocketInv` that a flow that is counted out has no live socket. `TallyInv` states
both counters as cardinalities and counts the admission in progress within the limit, which is
what the check of `active_flows` before the update needs; `AdmittedCount` relates slots to flows.
The report rests on `ReadInv` (who has read a response to its end) and `LedgerInv` (a failed
flow has no row, and a row without a time belongs to a flow that is not read or is about to
be stamped). With these, a step of the client maps to one of `FlowGenerator`, or to none:
an admission to a start, the store of `left_flows` to an end, the last report to the report.
`OtherLoadWaits` adds that the loop's test stays true once it was (`LateInv`), as `left_flows` only falls, and
that what is not left is over (`OverCount`).

**FlowTable.** `TypeOK` is not inductive: that a drawn size is a number depends on the lines read.
`CdfInv` says that the table of lines holds a prefix of the file, however often it doubled (`GrownRight`, `ReadLineKeeps`);
`DrawCases` finds the two lines a number falls between, and `InterpolateRight` that the
interpolation stays between their values and reaches the upper one only at its end
(`PartOfWay`). `DrawTyped` and `DrawFollows` follow. `FdInv` says that until the event loop runs the open descriptors are
an initial interval, since nothing is closed, so that the lowest free one is the next
(`NextDescriptor`) and no descriptor exceeds those held and tried; and that `left_flows` is
the number of flows still to be requested or answered, so that it is never taken below 0. `RowInv` has the rows as
a function on an initial interval that only grows, with each row empty or for its
descriptor. `IpsFit` maps the addresses taken one to one to those of the device (`IpsInv`).
`ReportCounts` speaks of the end alone. `HistoryInv` says at every moment that a requested flow is active, answered
or an error, that an active one has the moment of its request in its row, and that for every set of sizes and durations
the rows of flows that are over are as many as the answers (one set for the counters of the groups, one for each duration
in a group). An answer adds one to both sides, because the borrow between
seconds and microseconds gives the duration (`DurationRight`); a failure leaves both, because the row it empties was
the flow's own. `GroupRight` finds the group of a size by the first threshold above it.
From there `ReportsRight` needs what the sums and the sorting compute. The library defines a sum by recursion over
subsets, and its induction theorems take a predicate, which the provers cannot instantiate; `SubsetsByInduction` says the same of a
set of sets, from the well-foundedness of the subset order. With it the recursion is defined for every finite
set (`SumsAgree`, `SumIs`), the sum can take away any element (`SumTakes`), sums depend only on how often each value
occurs (`SumsOfSameValues`: the total of a group), and the sizes of the classes of a set sum to its size
(`SumOfClasses`: the groups together). For the percentile, a finite set of numbers has a sorted listing, by the rank of
each element (`SortedListing`), and at place k of any such listing there are at least k values no larger (`SortedPlace`).

**Transfer.** `PayloadRoundTrip` takes the number apart at each byte (`QuotientTwice`: shifting
twice is shifting by both) and needs that the first byte is below `Base`, which is where the
size must be an int. `ExchangeInv` says that the request is nowhere or whole
(`RequestWhole`), that what is asked for equals what is written, in the buffers and read (`BytesKept`),
and that a server that closes undisturbed has written it all (`ClosedWhole`); the last is what
makes the client's reading of an end of stream right.

**Server.** Descriptors are reused while both threads hold copies of them. `ServeInv` follows a request
from its descriptor through the event of an `epoll_wait`, the push and a slot to the close: an open connection
has one descriptor (`FdInv`), the two ends of a connection agree (`ConnInv`), an event still to be handled is not
stale (`BatchInv`), a descriptor whose request was read is with one thread (`PlaceInv`), and the
connection an event was made for is the one that waits until it has its response (`CarryInv`).
The steps of clients and of `epoll_wait` leave most of it alone, and a worker's step disturbs no other worker's
event (`WorkerFrame`).

**System.** A step of `System` is one of `Server` (`SysIsServer`) and one of `FlowGenerator`
(`SysGenerates`). The workers that write hold events of different waiting connections, whose
flows are active; that map is one to one, so that the limit on active flows bounds them.

**PiasNetwork.** The operators are split by which argument is larger and by the
wrap; `%` is eliminated first (`AheadCases`, `DistanceCases`). `PriorityMonotone`
compares the least thresholds that two counts stay within.

**PiasFlow.** `FlightOrdered` and `FlightGaps` are not inductive, as they say nothing
of how far `nxt` may run ahead. The inductive invariant `FlowInv` is `TypeOK` and
`Distance(nxt, una) <= Window`; sending adds to the distance and an acknowledgement
takes from it (`DistanceGrows`, `DistanceShrinks`). Numbers in flight are then within
the tolerance, and `FlightCases` reduces both properties to the arithmetic. `EntryInv` adds the three
properties about the entry, what is known while a connection is opened (`SynInv`) and that a
count found under the lock is not exceeded before the mark (`PendInv`); the order of any two numbers in a
stretch slightly longer than the window (`StretchOrdered`) decides each branch of the hooks.

**PiasTable.** The difficulty is that the others change the list under a search. `TableInv` says what a CPU
still knows then, and assumes no restriction at all. An entry is in one place of one list, which is that of its flow
(`Listed`). The entry that a CPU holds has either been freed, or it is in the list of the CPU's flow, and a
search stands there behind entries of other flows only (`Placed`, `Stands`): additions go to the end, and a removal
takes nothing but the one entry out of the order. An entry about to be added is in nobody
else's hands (`Fresh`). This gives `StepsOnLive`: the link of a live entry leads to a live entry of the same list.
`Drift` is disturbed by no addition, no removal and no count of them; each changes two of its terms.

`SetInv` is what `SynsInTurn` adds: a flow that is about to be inserted, its search over, is not in the table, since
only an insertion of that flow could have put it there. `FlowsListedOnce` follows. For the refinement a flow is known
exactly if its own list has an entry of it (`KnownInList`), so that what a CPU knows of that list decides the step of the set.
A search that steps off the end at that moment proves that its flow is absent, and that is where it is over for the set
(`SearchSeen`); the addition adds one flow, and the removal takes one away because no flow has two entries (`ChangeSeen`);
and a clear, of which `Behind` says that whatever is left of its findings lies in lists it has yet to come to, has none of
it left at its end (`ClearSeen`).

**PiasModule.** `LifeInv` says that an operation runs only under what let it in (`Entered`) and that
this is there only while there is a table (`Guarded`); `CallsFindTable` is a consequence. `Emptied` says that the last Clear
leaves empty lists and a size of 0, and that they stay so until the next load, as nothing can enter. Hence a load, which
starts from empty lists, changes nothing of the table, and every step of the module is a step of
`PiasTable` or leaves it alone (`ModuleInv`, `ModuleRunsTable`): all theorems about the table carry over. `NothingLeft` needs
in addition that memory in use is in a list or about to be added (`NoLeak`).

### Only model-checked

- Liveness: `Delivery`, `Reports`, `ServedAndReleased`, `Ends`, `RunEnds`, and that the side load
  starts at all in `OtherLoadLate`. The provers here do not reason about fairness and `ENABLED`.
- The violations of section 3, which are counterexamples.

## 5. Plan

Done: all modules of section 2, and a theorem for every invariant and for every action property
and refinement that a passing run checks. What is left:

- what survives in the server with late signals, for which its invariants would have to follow an event that is taken twice;
- forwarded packets in `PiasFlow` and, with `SynsInTurn = FALSE`, what is left of the table's promise when one flow has
  two entries (`SearchesStepOnLive` and `SizeFollows` hold then).

What follows the first use of a freed entry is undefined, and no model of this code can say more.

## 6. Not modelled

- `scripts/get_optimal_threshold.py`: an offline search over files; neither program calls it.
- `create_and_bind`, `set_socket`, affinities, `-d`, `-p`: start-up I/O of the server that either
  ends the program or leaves nothing behind but the listener.
- `memcached.sh`: not in the repository; only when it is started is modelled.
- `avg_cdf`, `free_cdf` and the serialisers of 8, 16 and 64 bits: never called.
- Lines of `conf/cdf` that `sscanf` cannot read, and the printing functions.
- Packets that a host with PIAS only forwards: no socket's lock orders them.
- PIAS together with the generator: they share no state.
