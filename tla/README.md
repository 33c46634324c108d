# eCapture: a TLA+ model of its eBPF programs and its user-space core

eCapture loads eBPF programs that capture plaintext, TLS keys and packets, reads
what they submit, and writes it out as text, keylog or pcapng, or sends it to
WebSocket clients. The modules here model the parts that run concurrently or must
get an order right: the eBPF programs, by the map they keep their state in; the
life of a capture session across reloads; the reordering of perf events; the event
processor with its workers; the key log and the pcapng output; the eCaptureQ
server. The definitions are translated from the C and Go source; `PROJECT.json`
("map") names the lines of each.

## The system

| Part | State | Operations | Talks to |
|---|---|---|---|
| `cli/cmd/root.go` runProbe | the probe, one context, the signal channel, `reRloadConfig` | create, initialise, start, wait for a signal or a configuration, stop, close, `goto reload` | probe, HTTP server |
| `cli/http` | `confChan` | one handler per probe type, all `decodeConf` | runProbe (channel of 10, never waits) |
| `internal/probe/base` BaseProbe | readers, closers, dispatcher, wait group of reader loops | Initialize, StartPerfEventReader, StartRingbufReader, the loops, Close | eBPF maps, dispatcher |
| `internal/probe/base/perf_reorder.go` | the buffer of held events | push, flushPressure, flushByLag, flushAll | the ordered reader loop |
| `internal/events` Dispatcher | handlers, closed | Register, Dispatch (read lock), Close (write lock) | handlers |
| handlers (`text`, `pcap`, `keylog`) | writer, `seenKeys` | Handle, Close | writers |
| `internal/output/writers` PcapWriter | two channels, `tcPackets`, `firstDSBWritten`, `packetCount` | WritePacket, WriteKeyLog, Serve, drainOnShutdown, Close | NgWriter, FileWriter (64KB buffer) |
| `pkg/event_processor` | `incoming`, `outComing`, `destroyConn`, `workerQueue`, `isClosed`; per worker: queue, payload, ticker, `used` | Write, WriteDestroyConn, Close, Serve, drain, Run, drainAndClose, Display | probes, logger |
| `pkg/ecaptureq` | hub, clients, start-up log buffer | register, broadcast, pumps, heartbeat | WebSocket clients |
| `pkg/util/roratelog` | file, size, ticker | Write, rotate, Close | file system |
| `internal/probe/*` (openssl, gotls, gnutls, nspr, bash, zsh, mysql, postgres) | configuration, maps, decoders | Initialize, Start, Close, Decode | BaseProbe |
| `kern/` | argument, connection and context maps | uprobes, kprobes, TC classifiers | perf and ring buffers |

What is hard in it, and what correctness means for each part:

* **Event processor.** Serve() and one goroutine per UUID share a map under a
  mutex, an atomic `used` flag and channels. A worker ends by itself while Serve()
  may be about to hand it an event. Right means: no panic of the flag, no event lost
  or displayed twice except by the drops the code decides on, one live worker per
  UUID, a socket worker lives as long as its socket, and Close() returns when
  everything was displayed.
* **pcapng output.** Packets and keys come through two channels, and a reader of the
  file needs a key before the packets it decrypts. Right means: packets in order and
  once, keys once, a key before the packets during the grace period and at shutdown,
  nothing left in a buffer after Close(), no send on a closed channel.
* **Capture session.** Reader loops dispatch in deferred functions after their
  reader was closed. Right means: the dispatcher is closed after the last of them, a
  new session starts when nothing of the old one is left, a stop ends.
* **Reorder buffer.** Right means: if disorder stays within the lag, output is in the
  order of the timestamps; nothing is lost under pressure; equal timestamps keep
  their order of arrival.

* **eBPF programs.** A program at the entry of a call leaves something in a map, one
  at its return finds it again by a thread or process id. Threads nest calls, end
  inside them, change their uid or cgroup; maps fill up; an element is deleted and
  read afterwards, or shared by all connections of a server; and a program runs only if
  the probe in Go attaches it, which nothing checks. Right means: an event describes the call,
  connection, command, query or secret it is reported for.
* **Key log.** Secrets are captured before they exist and after they were replaced,
  their length is taken from a number in the event, and a write can fail half way.
  Right means: one line per secret, with the right value and length, and none missing
  once a capture followed the handshake.
* **eCaptureQ.** A hub, three goroutines per client and a buffer without a lock. Right
  means: a client gets the broadcasts without a gap or is cut off, the hub never
  waits for a client nor panics, a client that ended is forgotten.

The full list of what is hard to test is "hazards" in `PROJECT.json`.

## Modules

| Module | Models | Uses |
|---|---|---|
| `EventProcessor` | `processor.go`, `iworker.go` | |
| `PcapWriter` | `pcap_writer.go`, `pcap_handler.go`, `keylog_handler.go`, `pcap_keylog_writer.go`, the Close() of `dispatcher.go` | |
| `ProbeLifecycle` | `runProbe`, `decodeConf`, `base_probe.go`, `dispatcher.go`, Start and Close of the openssl probe | |
| `PerfReorder` | `perf_reorder.go` | |
| `EcaptureQ` | `hub.go`, `client.go`, `server.go` of `pkg/ecaptureq` | |
| `CallLog` | abstract: what a reader of the plaintext may rely on | |
| `CallTrace` | the entry and return programs of `openssl.h`, `gnutls.h`, `nspr_kern.c` | implements `CallLog` |
| `ConnTrack` | `connect()`, `accept()` and the end of sockets in `openssl.h` | |
| `TcCapture` | `tc.h`: packets and their processes, with the filters of `ecapture.h` | |
| `ShellTrace` | `bash_kern.c` and handleEvent() of `bash_probe.go` | |
| `SqlTrace` | `mysqld_kern.c` | |
| `GoTls` | the plaintext programs of `gotls_kern.c` | |
| `SecretCapture` | `openssl_masterkey*.h`, `boringssl_masterkey.h`, the master secrets of `gotls_kern.c`, and the Handle() of `keylog_handler.go` | |
| `Programs` | the families of programs (all but `TcCapture`) and the reorder buffer together | EXTENDS `CallTrace` and `GoTls`, INSTANCEs the others |
| `CallLogProofs`, `CallTraceProofs`, `GoTlsProofs`, `ProbeLifecycleProofs`, `EventProcessorProofs`, `PcapWriterProofs`, `EcaptureQProofs`, `ProgramsProofs` | theorems | the module of that name |
| `MC*` | constants of the TLC runs | the module of that name |

**EventProcessor.** One variable per field or channel, and a program counter for
Serve() (`serve`, and `dsp` inside dispatch()), for each worker (`wpc`) and for each
call from outside. A step is one critical section, channel operation or atomic
access: `drainAndClose()` reads the queue (`DrainStep`) and the `used` flag
(`StillUsed`, `CloseWorker`) in separate steps, `Write()` reads `isClosed`
(`WriteCheck`) and sends (`WriteSend`) in separate steps, a new worker's goroutine
runs (`DispatchNew`) before the map lists it (`AddWorker`). A worker is named by the
event that created it, payload bytes by the event they came from. What a parser
makes of a payload is left out; a payload is displayed as it is.

**PcapWriter.** `WritePacket` and `WriteKeyLog` are the handlers under the
dispatcher's read lock; `Tick`, `TakePacket`, `TakeKeyLog`, `CtxDone` and the three
drain actions are Serve(); `HandlerClose`, `KeylogClosed` and `PcapClosed` are
Dispatcher.Close() over its handler map, in either order. `ng`, `fileBuf` and `disk`
are the three places a block passes through. `Save` abstracts the two bufio layers,
which are library code: all or nothing of the buffer spills, a write may fail after
any block, and then every later one fails.

**ProbeLifecycle.** `main` is the program counter of runProbe() through Initialize,
Start, the select and Close(); `loop` that of each reader goroutine; `ring` what
waits in a map's buffer, `hand` the record a loop decodes, `held` its reorder
buffer. Which held events the buffer gives out is left open here, so whatever is
shown holds for any reordering policy; `PerfReorder` says what the real one does.
`late` collects what is dispatched to a closed dispatcher or handler. A
configuration is "same" or "other": of this probe's type or not.

**PerfReorder.** A function of the arrival order: `Push` is push() with the flush it
chooses, `FlushAll` the deferred flush. `Arrange` puts elements in the order of a key,
stably, by counting the place of each; `StableSort` (the key is the timestamp) and
`AppendAt` (no key: the loop that appends to `flush` and `keep`) are cases of it, so
that neither needs recursion and both can be reasoned about. Timestamps are far below 2^63, so the code's conversions to int64 are
harmless and are not modelled.

**EcaptureQ.** WriteLog() reads the length of the buffer, which has no lock, and
appends in a second step. The hub takes a registration or a message only in its
select, so a message that finds it elsewhere is dropped (`broadcastMessage`), and
it sends to its clients one at a time (`HubSend`). A client's handler copies the
start-up lines, then its pumps run. A panic of a pump or of the hub ends the process;
one of the handler is recovered by net/http. Not modelled: a slice header that is
torn, or an array that append() has replaced, while another goroutine reads it.

**CallTrace.** Calls are numbered; a number stands for the arguments. A thread has a
set of open calls, the innermost of which returns; the two maps of a library hold at
most `MapCap` entries. `passes` is the verdict of passes_filter(), which a thread can
turn by setuid() or by a move to another cgroup (`Move`); a thread can leave all its
calls without a return (`Unwind`). `CallLog` says what this amounts to: a report is
made at the return of a call, at most once, of that call, and is not longer than the
limit.

**ConnTrack.** The elements of `tcp_fd_infos` are explicit, because
lookup_and_delete_fd_info() returns a pointer to an element it has deleted: the loads
that follow (`LoadSock`, `kretprobe_connect`) are steps of their own, and another
thread may get the element between them. A call can also end without its return
program (`ReturnUnseen`).

**TcCapture.** A flow is the tuple of a socket, `Reverse` its answers. The classifiers
look a packet up in `network_map`, an LRU map that only the kprobes on `tcp_sendmsg()`
and `udp_sendmsg()` fill (`trace_sendmsg`, as part of `Send`). `Attached` is what
setupManagerPcapNG() and the probe of Go attach of `tc.h`: the two classifiers, and not
the kprobes, whose names are in no Go file. So the map stays empty, and a packet without
an entry is not filtered. The uid filter behaves like the pid filter and is left out.
Flows are to peers on another host.

**ShellTrace.** The perf buffers of the CPUs are one sequence in which events carry
their CPU: the reader takes the oldest event of any CPU. On the path of a wanted
status the element is deleted before it is sent (`retval_wanted`, `retval_send`). The
lines that are due for a command are a history variable, `upset` records what went
wrong on the way (an event lost, overtaken, an element reused). On kernels before
5.2 the program does not look at the wanted status; lines are not empty.

**SqlTrace.** One entry per process, whatever the number of connections; an update
puts the new value into another element, so that a program that holds the old one
keeps it. That mysql57_query() reads the length through a pointer into its own stack
with the helper for user memory is data and is left out.

**GoTls.** An event is its tuple; how far the walk from the tls.Conn comes is a
choice. The programs run to completion on their CPU. The payload is its length, the
events are offsets and lengths.

**SecretCapture.** A connection has a phase, and what it holds for a label depends on
it (`Held`): nothing, the key of a session that is only offered, its own secret, or
one of a later key update. The hooks copy that, the handler writes what it has not
seen. `length` and `HasTranscript` are the cipher switch of handleTLS13(): a line of
TLS 1.3 is cut to 32 or 48 bytes for the three suites it knows and is 64 bytes
otherwise, and without a known suite the secrets of the handshake are not derived. The
switch reads what DecodeFromBytes() took for the suite (`CipherId`), which for BoringSSL
is hash_len and no suite. Of BoringSSL only the return of SSL_do_handshake() is a hook:
its probe_ssl_master_key(), which reads the secrets of the handshake too, is attached
nowhere and not modelled. HKDF, the early secret and the table of do_handshake() pointers, which works
like the maps of `CallTrace`, are left out.

**Programs.** Families that are loaded together share no map, so the steps of one are
no steps of another, and a property of a family holds of the whole if it holds of
the family alone. `Programs` therefore chooses a family at the start and runs it; the
others stay in one initial state.

Operators commented "A bug" or "Mutant" are plausible bugs, one for each property;
they are not used by any specification.

## Runs

| Run | Configuration | Result |
|---|---|---|
| `workers` | three events, two UUIDs (one with a socket), two callers of Close(), all channels of capacity 1, truncate size 2 | 2.0M states: `NoPanic` `ExactlyOnePlace` `OneWorkerPerUUID` `SockWorkerPersists` `FlushedWhenDone` hold |
| `workers_live` | two events, one per kind of worker, two sockets to destroy | 150k states: `CloseReturns` `DestroyCallReturns` `PayloadDisplayed` hold |
| `worker_returns_undrained` | two events of one worker | `ReturnsDrained` is violated |
| `pcap` | three packets, two keys, channels of 2 and 1, failing writes | 295k states: order, DSB, deduplication, close and liveness properties hold |
| `pcap_keys_left` | | `AllDataWritten` is violated |
| `probe` | two readers (one ordered), three records, one reload, one interrupt | `NoneLostAtClose` `SessionsDisjoint` `DeliveredOnce` `CloseCompletes` `FirstSessionDelivers` hold |
| `probe_reload` | | `RunningProbeReads` is violated |
| `programs` | see Bounds | 1.5M states: twelve invariants and the refinement `ImplementsCallLog` hold |
| `pcap_pid` | two processes, one of them the target, two connections | `PidLimitsCapture` is violated |
| `ecaptureq` | two clients, one of which may break and beats, two lines, one event | 0.9M states: `NoGap` `HubSafe` `HubReturns` `EndedForgotten` hold |
| `ecaptureq_heartbeat` | the same | `HeartbeatKeepsAlive` is violated |
| `ecaptureq_logs` | the same with room for two lines | `LogsSentAsTheyOccur` is violated |

What the properties of `programs` say, family by family:

* `OwnArguments`: the event of a return shows the arguments of the call that
  returned, if the thread crossed the border of the filter at most once.
  (A thread that leaves the target cgroup and comes back can be reported with the
  arguments of an older call: the filter is asked before the entry is deleted.)
* `ConnectionIsTheCalls`: descriptor and socket of a connection event are those of
  the call that returned, unless the deleted element was reused before it was read.
* `LineShownOnce`, `WholeCommands`: a line is in one command at most; a command is
  shown with all its lines if no ring lost or overtook an event.
* `AloneIsOwn`: a query that had the server to itself is reported with its own text
  and status.
* `OwnTuple`, `SegmentsTile`: the addresses are of the event's own connection or
  cleared; the segments of a payload cover it exactly.
* `LoggedOnce`, `LoggedIsRight`, `NothingMissing`: a secret has one line (one more for
  each flush that failed). The line has the connection's secret if and only if that was
  in its place when the event was taken (`Replaced`), and the length of that secret if
  the handler is given it (TLS 1.2, Go, OpenSSL with a suite it knows: `LengthKnown`),
  else 64 bytes. Once an event taken after the handshake was handled, the lines of
  OpenSSL and BoringSSL are those of the secrets the connection has, those of the
  handshake for OpenSSL and a known suite only. So the property says where the key log
  is wrong as well as where it is right; see the next section.
* `NothingLost`, `DispatchedInOrder`: the reorder buffer.

**Bounds.** Capacities of 1 and 2 reach a full channel with as few events as
possible; three events give a worker that is replaced and one that stays; the
configuration channel of 1 is full after one post; `MaxTickerCount` 0 lets a worker
idle after two ticks. In `programs`, two threads with three calls nested two deep
and maps of one entry give nesting, a full map and a stale entry; two crossings of
the filter let a thread leave and come back; one element of `tcp_fd_infos` for two threads gives reuse; two shells, two CPUs and rings of one give
loss and overtaking; chunks of 4 and 3 segments with lengths around their multiples
give every edge of the masks; one TLS connection, because the lines of two share
nothing, with two failures, the three known suites and one the handler does not know; seven timestamps (0, 1, 2, 2, 3, 3, 5) contain equal
pairs, neighbours and a gap larger than the lag. In `ecaptureq`, `LogBuffLen` 0 and
`SendCap` 2 keep the relation of the code (a new client's channel has room for all
start-up lines) with as few messages as possible. `MaxReloads`, `MaxSignals`,
`MaxCalls`, `MaxDepth`, `MaxMoves`, `MaxLines`, `MaxPackets`, `MaxFailures`,
`Beating` and `Faulty` only bound what the outside does. Deadlock is not checked: the
programs end, or nobody need call them.

**Fairness.** Every goroutine that can run does (weak fairness of Serve(), each
worker, runProbe() and each reader loop); callers need not call, nobody need send a
signal. `PcapWriter` also assumes that select does not for ever prefer another ready
case to the ticker, which Go's random choice justifies, and that time passes the grace
deadline. `ProbeLifecycle` assumes strong fairness of reading a record: Read() does
not for ever return errors while a record waits. `EcaptureQ` assumes only that the
hub goes on with a broadcast and meets a readPump() that has failed; a write to a peer
may last for ever. The eBPF programs have no liveness property: any event may be
lost.

## What the runs show

The parts do what they promise, except where a comment or a document promises more.
The six violations:

1. A worker can return with an event in its queue: between its look at the queue and
   its look at `used`, Serve() may send the event and give the worker back.
2. A capture with keys and no packet is not flushed if the PcapHandler is closed
   before the KeylogHandler: the "nothing captured" error ends PcapHandler.Close()
   before it closes the file.
3. After a reload the probe runs on a context that is already cancelled; its reader
   loops end at once.
4. In pcap mode `--pid` limits nothing, nor do the uid and cgroup filters: the programs
   that record whose a connection is are not attached, and a packet of nobody passes.
   (With "sendmsg" among `Attached` TLC finds no violation in the 4940 states of the
   run: the filter itself is right.)
5. A heartbeat of eCaptureQ can be sent into a channel the hub has closed, which
   panics the process; into a full one it waits for itself.
6. Until the start-up buffer is full, log lines do not reach clients that are
   connected already.

What the models also reach, without a run of its own:

* A worker can have returned before it is listed; dispatch() then takes and writes
  to a dead worker. It needs Serve() to be delayed for the worker's idle time.
* Write() can add an event after drain() has found `incoming` empty, since it reads
  `isClosed` before it sends (`processor.go:101-102` says it cannot).
* A packet that meets a full channel is dropped, although `pcap_writer.go:153` says
  it is written directly.
* `ecapture bash --errnumber N` hides the commands with status N and shows the others, as
  status 128: the program (`bash_kern.c:81-86`) and handleEvent() (`bash_probe.go:194`)
  disagree on what N selects (`retval_other`, `handleEvent`); the help text at
  `cli/cmd/bash.go:38` says the opposite.
* A TLS 1.3 line of BoringSSL always has 64 bytes, the secret of 32 or 48 and what
  follows it in memory: hash_len (`boringssl_masterkey.h:43`, `560`) is decoded as the
  cipher suite (`event_masterkey.go:87`), which the handler then does not know
  (`keylog_handler.go:231`). A suite it really does not know does the same to OpenSSL,
  and costs it the secrets of the handshake. `keylog_handler.go:61-62` says that the
  lines are in "NSS Key Log Format" and "compatible with Wireshark".
* If a server refuses the TLS 1.2 session it is offered, and an event was taken before
  its answer, the key log keeps the master secret of the old session: the right one is
  skipped as a duplicate (`keylog_handler.go:150-155`). After a key update the secrets
  of the update are logged if none was before.
* mysqld: the return programs do not look at the command, so the return of another
  command reports the last query again.
* eCaptureQ: an event is dropped when the hub is not in its select; the buffer takes
  129 lines; the handlers wait for a context nobody cancels.

## Proofs

Proved with TLAPS, for any values of the constants that satisfy the assumptions
named in the theorems.

* `ProbeLifecycleProofs`: `Invariance` (`Spec => []Inv`), and from it
  `TypeCorrectness`, `NothingLate` (NoneLostAtClose), `NoOverlap`
  (SessionsDisjoint), `AtMostOnce` (DeliveredOnce). That nothing is
  dispatched late needs that the sinks are open as long as a loop is alive
  (`SinksOpen`), which needs that no loop is alive once Close() has passed its Wait()
  (`Quiet`), across "goto reload" too; that nothing is held when a session begins
  needs that a loop flushes before it ends (`LoopState`); that a delivered record is in
  no buffer needs that every record is in one place (`OnePlace`), with no record twice
  in a ring (lemmas `AppendDistinct`, `TailDistinct`); and the session number stays in
  its range because each reload was posted (`ReloadsPosted`). There is one lemma per
  part of `Inv`, with a step for each action that touches it.
* `CallTraceProofs`: `TypeCorrectness`, `Invariance`, `EventsShowTheirCalls`
  (OwnArguments) and `Refinement` (`Spec => ImplementsCallLog`). OwnArguments is
  inductive only together with what is stored for a thread (`StoredIsInnermost`: the
  entry of a thread that passes the filter is of its innermost call of that function, or
  it is in none) and with the numbering of calls (`CallsNumbered`). The refinement maps
  an entry to the begin of a call, a return to its return with or without a report, an
  unwinding to calls that are abandoned, and everything else to a stutter.
* `CallLogProofs`: `AtMostOneReport`, what the abstract specification itself promises.
* `GoTlsProofs`: `TupleIsOwn` and `PayloadIsTiled`. The first rests on
  `BeginsCleared` (get_gotls_event() leaves nothing of the buffer) and `WalkIsOwn`
  (the address family is set last); the second on three lemmas about segments
  (`SegIs`, `SegsDisjoint`, `SegsCover`) and two about multiples of a chunk.

* `EventProcessorProofs`: `TypeCorrect`, `WorkersNeverPanic` (NoPanic),
  `WorkersAreUnique` (OneWorkerPerUUID), `SockWorkersPersist` (SockWorkerPersists),
  `ServeReturnsFlushed` (FlushedWhenDone) and `EventsAreInOnePlace` (ExactlyOnePlace),
  from `ConstantsAssumption`. That the compare-and-swaps cannot fail needs that the
  worker dispatch() holds is in use from Get() to Put() (`InUse`); that two workers of a
  UUID do not both run needs that one that runs is the one `workerQueue` lists, or the
  one dispatch() is about to list (`Listed`); why a Sock worker ends is why its channel
  was closed (`ClosedForReason`). ExactlyOnePlace counts places; `Placed` says the same
  without a count: no queue holds an event twice, no two places share one, and a worker
  that does not run holds nothing (`Quiet`).
* `PcapWriterProofs`: `TypeCorrect`, `NeverSendsOnClosed` (NoSendOnClosed),
  `SecretsComeFirst` (DSBFirst), `ShutdownDrainsFirst` (the action property
  ShutdownDSBFirst: where a shutdown adds packets to the output, every key is before
  them), `PacketsKeepTheirOrder` (PacketsInOrder), `SeenKeysAreWrittenOnce`
  (SeenKeyOnce) and `CaptureReachesDisk` (CaptureOnDisk), from `ConstantsAssumption`,
  whether writes may fail or not. `Closing` orders the shutdown: the dispatcher refuses
  events, the context is cancelled, Serve() empties the channels and its buffers, the
  channels are closed. `Flow` splits the accepted packets at `SavedCount`: those before it
  are in the output in order (or lost to a failed write), those after it are what
  Serve() holds, followed by the channel. `Secrets` does the same for keys, which the
  handler may forget only after Dispatch() has stopped. `Ahead` is DSBFirst with what
  `firstDSBWritten` is good for: after it the output is not empty, or the file is broken
  and gets nothing more. All of them see a save through one lemma, `SaveWrites`: the new
  output is a prefix of the old one, the DSB and the held packets, all of it unless a
  write fails. ShutdownDSBFirst follows from it with `FinalSave` (the packets of the last
  save are its end) and `DrainingSteps` (no other step of the shutdown adds a packet).
* `EcaptureQProofs`: `TypeCorrect`, `HubNeverPanics` (HubSafe) and `ClientsMissNothing`
  (NoGap), from `SizesAssumption` (a client's channel has room for the start-up lines;
  lines, events and heartbeats are different messages). The channels of the hub's
  clients are open (`HubInv`). NoGap needs the whole way of a message: a line is in one
  slot of the unlocked buffer, or was broadcast, not both (`Buffer`, `Broadcast`); a
  client has nothing of the buffer that is still to be copied to it (`Fresh`); what
  waits in its channel goes on where what it received ends (`GoesOn`); and a client the
  hub knows has everything since it registered but what is being sent (`UpToDate`).
* `ProgramsProofs`: a step of `Programs` is a step of one family and leaves the others
  alone, so each has an invariant of its own. `ConnectionsAreTheCalls` (ConnectionIsTheCalls) assumes that `NoElem` is no
  element (`ConnConstantsOK`) and needs that two threads share no element;
  `AloneQueriesAreOwn` (AloneIsOwn) likewise with `SqlConstantsOK`, and
  `LinesAreShownOnce` (LineShownOnce) and `CommandsAreWhole` (WholeCommands) with
  `ShellConstantsOK`. A line is in a ring, collected, or in a command shown, in one of
  them only (`LinesApart`), which needs that an element that is being sent is nobody's
  and holds a report, unless it was reused (`ShellElements`). WholeCommands is about a
  ring that lost nothing and is read in order: between two reports of a shell that
  follow one another (`Span`) are the lines the second one has, but for those that are
  already collected, which it starts with (`Whole`). Lines are numbered as they are read
  and so are increasing in the ring and in a report (`RingOrder`, `DueOrder`): the first
  line of a shell in the ring is then the next one of its report (`NextLine`), without
  an induction over the lines.
  `SecretsAreLoggedOnce` (LoggedOnce), `LoggedSecretsAreRight` (LoggedIsRight) and
  `NoSecretIsMissing` (NothingMissing) assume nothing:
  a captured event has only secrets a line may have, with the suite from which their
  length follows (`EventOK`, `HeldOK`); so what is pending makes a good line and is one
  the connection requires (`PendingIsGood`); a line that is not marked as seen was written
  by a flush that failed (`LineOK`); and a late event has all that is required
  (`AllThere`).
  `ReorderLosesNothing` (NothingLost), `ReorderOrders` (DispatchedInOrder) and
  `BufferBounded` (fewer than `MaxPending` events are held) assume `ReorderConstantsOK`:
  timestamps and the lag are natural numbers, the limit is not 0. That `Arrange` sorts
  needs no induction: an index that comes before another one has the smaller place
  (`PlaceOrder`: its predecessors are a proper subset), so places are distinct, and as
  many as there are indices, so every one is taken (`PlaceTaken`). Each of the three
  flushes is then a stable rearrangement of the buffer whose first part, what goes out,
  is not newer than the rest (`Sorted`, `PressureFlush`, `LagFlush`), and push() is an
  arrival (`ArrivalKeeps`) followed by such a flush (`FlushKeeps`). The inductive
  invariant `ReorderInv` is about the dispatched and the held events as one sequence:
  it holds the arrivals, equal timestamps in the order of arrival; and as long as the
  disorder is within the lag and nothing overflowed, what was dispatched is sorted, not
  newer than what is held and, while the loop runs, `LagNs` older than some arrival
  (`Ripe`). The last part is what makes a later arrival fall behind it, and why order is
  promised for disorder within the lag and not beyond.

TLC evaluates these assumptions for the constants of the runs: they are ASSUMEs of
the modules, or of `MCPrograms` for the families that are instantiated there.

Only model-checked is all liveness (`CloseReturns`, `DestroyCallReturns`, `PayloadDisplayed`,
`CloseCompletes`, `PacketSaved`, `FirstSessionDelivers`, `HubReturns`,
`EndedForgotten`), which TLAPS cannot prove here. Every invariant and action property of
a passing run is a theorem.

The `TypeOK` of the modules without a theorem about it is not an invariant of a run.

## Not modelled

* Of `kern/`: the walk through library structures by offsets (`*_kern.c` of the library
  versions are tables of offsets), `ssl_st_fd` (a second source for the descriptor), the
  stateless programs of zsh and postgres, the master keys of GnuTLS, whose events no
  Go code reads, and probe_ssl_master_key() of BoringSSL, which no Go code attaches.
  (`tcp_sendmsg()` and `udp_sendmsg()` are not attached either; `TcCapture` has them, to
  say what is missing.) `vmlinux_614.h`, `bpf_helper_defs.h`, `bpf_tracing.h` and
  `bpf_core_read.h` are generated or vendored declarations without behaviour; they are
  more than 97% of the lines of C in the repository, so the share of all C lines that
  the map covers says little. Of the programs themselves nearly all is mapped.
* Formatting, encoders, parsers and key derivation (data, no behaviour over time);
  TCP and logger writers (pure I/O); the rotation of log files; version detection, ELF
  and kernel queries; the upgrade check; generated protobuf code; examples and
  packaging.
* The other probes share the life cycle of `ProbeLifecycle`; the GnuTLS probe in Go is
  a declared stub.

## Plan

1. Done: all modules above, the refinement of `CallLog`, the proofs listed.
2. Done: the theorems about `EventProcessor`, `PcapWriter`, `EcaptureQ` and, of
   `Programs`, `ConnTrack`, `ShellTrace`, `SqlTrace`, `SecretCapture` and
   `PerfReorder`.
3. Open: `RotateLog`, rotation by size and time against Close().
