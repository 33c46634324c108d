--------------------------- MODULE ProbeLifecycle ---------------------------
(***************************************************************************)
(* A capture session: runProbe() (cli/cmd/root.go) creates a probe, runs   *)
(* it until a signal or a new configuration arrives, closes it, and, for a *)
(* configuration, starts over; BaseProbe (internal/probe/base) runs one    *)
(* reader goroutine per perf or ring buffer map; every event goes through  *)
(* the Dispatcher (internal/events) to its handlers; and the HTTP server   *)
(* (cli/http) feeds new configurations into a channel.                     *)
(*                                                                         *)
(* Records stand for what the eBPF programs submit.  A reader of Ordered   *)
(* runs perfEventLoopOrdered, which holds events back; which ones it lets  *)
(* go is left open here (module PerfReorder says).  Dispatch() runs under  *)
(* the dispatcher's read lock and is one step.                             *)
(***************************************************************************)
EXTENDS Integers, Sequences, FiniteSets

CONSTANTS
    Readers,     \* the event maps of the probe
    Ordered,     \* those whose loop is perfEventLoopOrdered
    Records,     \* what the kernel may submit, each once
    ReaderOf,    \* the map a record is submitted to: [Records -> Readers]
    RingCap,     \* records a map's buffer holds
    ConfCap,     \* capacity of reRloadConfig (10)
    MaxReloads,  \* bound: configurations posted in a behaviour
    MaxSignals,  \* bound: interrupts sent in a behaviour
    NoRecord

ASSUME ConstantsAssumption ==
    /\ Ordered \subseteq Readers
    /\ ReaderOf \in [Records -> Readers]
    /\ RingCap \in Nat \ {0} /\ ConfCap \in Nat \ {0}
    /\ MaxReloads \in Nat /\ MaxSignals \in Nat
    /\ NoRecord \notin Records

VARIABLES
    main,        \* program counter of runProbe()
    ctxDone,     \* the context made by runProbe() is cancelled
    isReload,
    config,      \* probeConfig: is it a configuration of this probe's type?
    confChan,    \* reRloadConfig
    posted,      \* configurations posted so far
    stopper,     \* signal.Notify channels: "none", "empty" or "full"
    gen,         \* the session: how often "goto reload" was taken
    signals,     \* interrupts sent so far
    attached,    \* the eBPF programs run
    ring,        \* records waiting in each map's buffer
    rdOpen,      \* the map's reader is open
    toStart,     \* readers Start() has yet to start
    loop,        \* program counter of each reader goroutine
    hand,        \* the record it is handling
    held,        \* records its reorder buffer holds
    text,        \* the text handler's writer: "none", "open" or "closed"
    dispatcher,  \* "none", "open" or "closed"
    delivered,   \* records the handlers have written
    skipped,     \* lost samples and records that do not decode
    late         \* records dispatched too late: a closed dispatcher or handler

mainVars == <<main, isReload, config, gen>>
envVars == <<confChan, posted, stopper, signals>>
kernVars == <<attached, ring>>
loopVars == <<rdOpen, loop, hand, held>>
sinkVars == <<text, dispatcher, delivered, skipped, late>>
vars == <<mainVars, ctxDone, envVars, kernVars, toStart, loopVars, sinkVars>>

Init ==
    /\ main = "init" /\ ctxDone = FALSE /\ isReload = FALSE /\ config = "same"
    /\ confChan = <<>> /\ posted = 0 /\ signals = 0 /\ gen = 0
    /\ stopper = [g \in 0 .. MaxReloads |-> "none"]
    /\ attached = FALSE /\ ring = [r \in Readers |-> <<>>]
    /\ rdOpen = [r \in Readers |-> FALSE] /\ toStart = {}
    /\ loop = [r \in Readers |-> "off"]
    /\ hand = [r \in Readers |-> NoRecord]
    /\ held = [r \in Readers |-> {}]
    /\ text = "none" /\ dispatcher = "none"
    /\ delivered = {} /\ skipped = {} /\ late = {}

Ended == {"exited", "fatal", "killed"}

-----------------------------------------------------------------------------
(* The outside: HTTP clients, the terminal, the kernel.                    *)

\* decodeConf(): a valid configuration, of whichever type its path says, is
\* sent without waiting; when the channel is full the client gets a 503.
PostConfig(c) ==
    /\ main \notin Ended
    /\ posted < MaxReloads /\ posted' = posted + 1
    /\ confChan' = IF Len(confChan) < ConfCap THEN Append(confChan, c) ELSE confChan
    /\ UNCHANGED <<mainVars, ctxDone, stopper, signals, kernVars, toStart, loopVars, sinkVars>>

\* An interrupt goes to every channel registered so far, unless it is full;
\* with none registered the process dies.
Interrupt ==
    /\ main \notin Ended
    /\ signals < MaxSignals /\ signals' = signals + 1
    /\ IF \A g \in DOMAIN stopper : stopper[g] = "none"
       THEN main' = "killed" /\ UNCHANGED stopper
       ELSE /\ stopper' = [g \in DOMAIN stopper |->
                              IF stopper[g] = "empty" THEN "full" ELSE stopper[g]]
            /\ UNCHANGED main
    /\ UNCHANGED <<isReload, config, gen, ctxDone, confChan, posted, kernVars, toStart,
                   loopVars, sinkVars>>

InRing(x) == \E i \in DOMAIN ring[ReaderOf[x]] : ring[ReaderOf[x]][i] = x
InLoop(x) == hand[ReaderOf[x]] = x \/ x \in held[ReaderOf[x]]
Submitted == {x \in Records : InRing(x) \/ InLoop(x)} \cup delivered \cup skipped \cup late

\* The eBPF program submits a record; a full buffer loses it.
Submit(x) ==
    LET r == ReaderOf[x] IN
    /\ main \notin Ended /\ attached
    /\ x \notin Submitted
    /\ IF Len(ring[r]) < RingCap
       THEN ring' = [ring EXCEPT ![r] = Append(@, x)] /\ UNCHANGED skipped
       ELSE skipped' = skipped \cup {x} /\ UNCHANGED ring
    /\ UNCHANGED <<mainVars, ctxDone, envVars, attached, toStart, loopVars, text,
                   dispatcher, delivered, late>>

-----------------------------------------------------------------------------
(* runProbe().                                                             *)

\* Initialize(): a new dispatcher with a text handler, which is also put on
\* p.closers; then the probe's type assertion on the configuration.
Initialize ==
    /\ main = "init"
    /\ text' = "open" /\ dispatcher' = "open"
    /\ main' = IF config = "same" THEN "attach" ELSE "fatal"
    /\ UNCHANGED <<isReload, config, gen, ctxDone, envVars, kernVars, toStart, loopVars,
                   delivered, skipped, late>>

\* Start(): loads and attaches the eBPF programs, which may fail.  The maps are
\* new: what was left in those of the previous session is gone (and such a
\* record may stand for a new one) ...
Attach ==
    /\ main = "attach"
    /\ \/ main' = "start" /\ attached' = TRUE /\ toStart' = Readers
       \/ main' = "fatal" /\ UNCHANGED <<attached, toStart>>
    /\ ring' = [r \in Readers |-> <<>>]
    /\ UNCHANGED <<isReload, config, gen, ctxDone, envVars, loopVars, sinkVars>>

\* ... then opens a reader for each map and starts its goroutine.
StartReader(r) ==
    /\ main = "start" /\ r \in toStart
    /\ toStart' = toStart \ {r}
    /\ rdOpen' = [rdOpen EXCEPT ![r] = TRUE]
    /\ loop' = [loop EXCEPT ![r] = "check"]
    /\ UNCHANGED <<mainVars, ctxDone, envVars, kernVars, hand, held, sinkVars>>

\* A map that is missing or a reader that cannot be made: Start() fails.
StartFails ==
    /\ main = "start" /\ toStart # {}
    /\ main' = "fatal"
    /\ UNCHANGED <<isReload, config, gen, ctxDone, envVars, kernVars, toStart, loopVars, sinkVars>>

\* runProbe() registers for signals once the probe is started.
Started ==
    /\ main = "start" /\ toStart = {}
    /\ main' = "running" /\ isReload' = FALSE
    /\ stopper' = [stopper EXCEPT ![gen] = "empty"]
    /\ UNCHANGED <<config, gen, ctxDone, confChan, posted, signals, kernVars, toStart,
                   loopVars, sinkVars>>

\* The select: a signal, or a configuration; then cancelFun() and Stop().
StopSignal ==
    /\ main = "running" /\ stopper[gen] = "full"
    /\ stopper' = [stopper EXCEPT ![gen] = "empty"]
    /\ isReload' = FALSE /\ main' = "detach" /\ ctxDone' = TRUE
    /\ UNCHANGED <<config, gen, confChan, posted, signals, kernVars, toStart, loopVars, sinkVars>>

Reload ==
    /\ main = "running" /\ confChan # <<>>
    /\ config' = Head(confChan) /\ confChan' = Tail(confChan)
    /\ isReload' = TRUE /\ main' = "detach" /\ ctxDone' = TRUE
    /\ UNCHANGED <<gen, posted, stopper, signals, kernVars, toStart, loopVars, sinkVars>>

\* Probe.Close(): stops the eBPF manager; BaseProbe.Close() follows.
Detach ==
    /\ main = "detach"
    /\ attached' = FALSE /\ main' = "closeReaders"
    /\ UNCHANGED <<isReload, config, gen, ctxDone, envVars, ring, toStart, loopVars, sinkVars>>

CloseReader(r) ==
    /\ main = "closeReaders" /\ rdOpen[r]
    /\ rdOpen' = [rdOpen EXCEPT ![r] = FALSE]
    /\ UNCHANGED <<mainVars, ctxDone, envVars, kernVars, toStart, loop, hand, held, sinkVars>>

\* Mutant: Close() does not close the readers.
ReadersLeftOpen ==
    /\ main = "closeReaders"
    /\ main' = "waitLoops"
    /\ UNCHANGED <<isReload, config, gen, ctxDone, envVars, kernVars, toStart, loopVars, sinkVars>>

ReadersClosed ==
    /\ main = "closeReaders" /\ \A r \in Readers : ~rdOpen[r]
    /\ main' = "waitLoops"
    /\ UNCHANGED <<isReload, config, gen, ctxDone, envVars, kernVars, toStart, loopVars, sinkVars>>

\* Mutant: the goroutines are not tracked by readerLoopsW.
LoopsUntracked == TRUE

\* readerLoopsW.Wait().
LoopsFinished == \A r \in Readers : loop[r] \in {"off", "done"}

\* Then p.closers, which holds the text handler ...
CloseClosers ==
    /\ main = "waitLoops" /\ LoopsFinished
    /\ text' = "closed"
    /\ main' = "closeDispatcher"
    /\ UNCHANGED <<isReload, config, gen, ctxDone, envVars, kernVars, toStart, loopVars,
                   dispatcher, delivered, skipped, late>>

\* ... then Dispatcher.Close(), which closes every registered handler (the text
\* handler for the second time); then
\* "goto reload" with the same context, or the end.
CloseDispatcher ==
    /\ main = "closeDispatcher"
    /\ dispatcher' = "closed"
    /\ main' = IF isReload THEN "init" ELSE "exited"
    /\ gen' = IF isReload THEN gen + 1 ELSE gen
    /\ isReload' = FALSE
    /\ UNCHANGED <<config, ctxDone, envVars, kernVars, toStart, loopVars, text, delivered,
                   skipped, late>>

Main ==
    \/ Initialize \/ Attach \/ StartFails \/ Started \/ StopSignal \/ Reload \/ Detach
    \/ ReadersClosed \/ CloseClosers \/ CloseDispatcher
    \/ \E r \in Readers : StartReader(r) \/ CloseReader(r)

-----------------------------------------------------------------------------
(* Reader goroutines: perfEventLoop, perfEventLoopOrdered, ringbufEventLoop. *)

\* The select at the top of the loop.
LoopCheck(r) ==
    /\ main \notin Ended /\ loop[r] = "check"
    /\ loop' = [loop EXCEPT ![r] = IF ctxDone THEN "flush" ELSE "read"]
    /\ UNCHANGED <<mainVars, ctxDone, envVars, kernVars, toStart, rdOpen, hand, held, sinkVars>>

\* rd.Read() returns a record.
ReadRecord(r) ==
    /\ main \notin Ended /\ loop[r] = "read" /\ rdOpen[r] /\ ring[r] # <<>>
    /\ hand' = [hand EXCEPT ![r] = Head(ring[r])]
    /\ ring' = [ring EXCEPT ![r] = Tail(@)]
    /\ loop' = [loop EXCEPT ![r] = "decode"]
    /\ UNCHANGED <<mainVars, ctxDone, envVars, attached, toStart, rdOpen, held, sinkVars>>

\* rd.Read() fails with something else than ErrClosed: try again.
ReadError(r) ==
    /\ main \notin Ended /\ loop[r] = "read" /\ rdOpen[r]
    /\ loop' = [loop EXCEPT ![r] = "check"]
    /\ UNCHANGED <<mainVars, ctxDone, envVars, kernVars, toStart, rdOpen, hand, held, sinkVars>>

\* The reader is closed: the loop ends.
ReadClosed(r) ==
    /\ main \notin Ended /\ loop[r] = "read" /\ ~rdOpen[r]
    /\ loop' = [loop EXCEPT ![r] = "flush"]
    /\ UNCHANGED <<mainVars, ctxDone, envVars, kernVars, toStart, rdOpen, hand, held, sinkVars>>

\* Mutant: a decode error ends the loop.
DecodeFailsEnds(r) ==
    /\ main \notin Ended /\ loop[r] = "decode"
    /\ skipped' = skipped \cup {hand[r]}
    /\ hand' = [hand EXCEPT ![r] = NoRecord]
    /\ loop' = [loop EXCEPT ![r] = "flush"]
    /\ UNCHANGED <<mainVars, ctxDone, envVars, kernVars, toStart, rdOpen, held, text,
                   dispatcher, delivered, late>>

\* Lost samples, decoder.Decode() fails, or Dispatch() finds the event invalid: it
\* is skipped.
DecodeFails(r) ==
    /\ main \notin Ended /\ loop[r] = "decode"
    /\ skipped' = skipped \cup {hand[r]}
    /\ hand' = [hand EXCEPT ![r] = NoRecord]
    /\ loop' = [loop EXCEPT ![r] = "check"]
    /\ UNCHANGED <<mainVars, ctxDone, envVars, kernVars, toStart, rdOpen, held, text,
                   dispatcher, delivered, late>>

\* Dispatcher.Dispatch() of the records xs.
Dispatch(xs) ==
    IF dispatcher = "open" /\ text = "open"
    THEN delivered' = delivered \cup xs /\ UNCHANGED late
    ELSE late' = late \cup xs /\ UNCHANGED delivered

\* Mutant: the ordered loop pushes the event and dispatches it as well.
HandleEventTwice(r) ==
    /\ main \notin Ended /\ loop[r] = "decode"
    /\ held' = [held EXCEPT ![r] = IF r \in Ordered THEN @ \cup {hand[r]} ELSE @]
    /\ Dispatch({hand[r]})
    /\ hand' = [hand EXCEPT ![r] = NoRecord]
    /\ loop' = [loop EXCEPT ![r] = "check"]
    /\ UNCHANGED <<mainVars, ctxDone, envVars, kernVars, toStart, rdOpen, text, dispatcher,
                   skipped>>

\* The event goes to the dispatcher, or (ordered loop) into the reorder
\* buffer, which gives out some of what it holds.
HandleEvent(r) ==
    /\ main \notin Ended /\ loop[r] = "decode"
    /\ \E out \in SUBSET (held[r] \cup {hand[r]}) :
          /\ r \notin Ordered => out = {hand[r]}
          /\ held' = [held EXCEPT ![r] = (@ \cup {hand[r]}) \ out]
          /\ Dispatch(out)
    /\ hand' = [hand EXCEPT ![r] = NoRecord]
    /\ loop' = [loop EXCEPT ![r] = "check"]
    /\ UNCHANGED <<mainVars, ctxDone, envVars, kernVars, toStart, rdOpen, text, dispatcher,
                   skipped>>

\* The deferred flushAll() of the ordered loop; then the goroutine ends.
LoopExit(r) ==
    /\ main \notin Ended /\ loop[r] = "flush"
    /\ Dispatch(held[r])
    /\ held' = [held EXCEPT ![r] = {}]
    /\ loop' = [loop EXCEPT ![r] = "done"]
    /\ UNCHANGED <<mainVars, ctxDone, envVars, kernVars, toStart, rdOpen, hand, text,
                   dispatcher, skipped>>

\* What the goroutine does when it is not blocked in rd.Read().
Unblocked(r) ==
    \/ LoopCheck(r) \/ ReadRecord(r) \/ ReadClosed(r)
    \/ DecodeFails(r) \/ HandleEvent(r) \/ LoopExit(r)

Loop(r) == Unblocked(r) \/ ReadError(r)

-----------------------------------------------------------------------------
Next ==
    \/ \E c \in {"same", "other"} : PostConfig(c)
    \/ Interrupt
    \/ \E x \in Records : Submit(x)
    \/ Main
    \/ \E r \in Readers : Loop(r)

\* runProbe() and the reader goroutines run; Read() on an empty buffer need not
\* return, but a record that waits in an open reader is read in the end, whatever
\* errors Read() returns in between.
Fairness ==
    /\ WF_vars(Main)
    /\ \A r \in Readers : WF_vars(Unblocked(r)) /\ SF_vars(ReadRecord(r))

Spec == Init /\ [][Next]_vars /\ Fairness

-----------------------------------------------------------------------------
(* Properties.                                                             *)

\* Every variable stays in its type.
TypeOK ==
    /\ main \in {"init", "attach", "start", "running", "detach", "closeReaders",
                 "waitLoops", "closeDispatcher"} \cup Ended
    /\ ctxDone \in BOOLEAN /\ isReload \in BOOLEAN /\ attached \in BOOLEAN
    /\ config \in {"same", "other"}
    /\ confChan \in Seq({"same", "other"}) /\ Len(confChan) <= ConfCap
    /\ posted \in 0 .. MaxReloads /\ signals \in 0 .. MaxSignals
    /\ gen \in 0 .. MaxReloads
    /\ stopper \in [0 .. MaxReloads -> {"none", "empty", "full"}]
    /\ ring \in [Readers -> Seq(Records)]
    /\ rdOpen \in [Readers -> BOOLEAN] /\ toStart \subseteq Readers
    /\ loop \in [Readers -> {"off", "check", "read", "decode", "flush", "done"}]
    /\ hand \in [Readers -> Records \cup {NoRecord}]
    /\ held \in [Readers -> SUBSET Records]
    /\ text \in {"none", "open", "closed"} /\ dispatcher \in {"none", "open", "closed"}
    /\ delivered \subseteq Records /\ skipped \subseteq Records /\ late \subseteq Records

\* "Wait before closing dispatcher": no event a loop has read, or holds back
\* for reordering, meets a closed dispatcher or handler, at the end or across
\* a reload.
NoneLostAtClose == late = {}

\* The sessions of a process do not overlap: while a new probe is set up, no
\* goroutine of the previous one is alive and none of its readers is open.
SessionsDisjoint ==
    main \in {"init", "attach"} =>
        \A r \in Readers :
            loop[r] \in {"off", "done"} /\ ~rdOpen[r] /\ held[r] = {}

\* No record is handled twice: what was delivered is in no buffer any more,
\* and was not skipped.
DeliveredOnce ==
    \A x \in delivered : ~InRing(x) /\ ~InLoop(x) /\ x \notin skipped

\* Close() does not wait for ever for its reader loops: a session that is being
\* stopped ends, whatever the loops hold and whether or not Read() was waiting.
CloseCompletes == main = "detach" ~> main \in {"init"} \cup Ended

\* In the first session every record in a buffer is delivered, held back or
\* skipped, unless the session is stopped.
FirstSessionDelivers ==
    \A x \in Records :
        InRing(x) /\ gen = 0 ~>
            \/ x \in delivered \cup skipped \cup held[ReaderOf[x]]
            \/ main \notin {"start", "running"}

-----------------------------------------------------------------------------
(* The inductive invariant behind TypeOK, NoneLostAtClose, SessionsDisjoint *)
(* and DeliveredOnce (proved in ProbeLifecycleProofs).                     *)

Finished(r) == loop[r] \in {"off", "done"}

\* Every reload taken, under way or waiting was posted.
ReloadsPosted == gen + Len(confChan) + (IF isReload THEN 1 ELSE 0) <= posted

\* The dispatcher and its text handler are open until the loops were waited for.
SinksOpen ==
    main \in {"attach", "start", "running", "detach", "closeReaders", "waitLoops"} =>
        dispatcher = "open" /\ text = "open"

\* A probe is closed, and the next one set up, without readers and loops.
Quiet ==
    /\ main \in {"waitLoops", "closeDispatcher", "init", "attach"} =>
           \A r \in Readers : ~rdOpen[r]
    /\ main \in {"closeDispatcher", "init", "attach"} => \A r \in Readers : Finished(r)

\* A loop that has ended holds nothing back; one that decodes has a record.
LoopState ==
    \A r \in Readers :
        /\ Finished(r) => held[r] = {}
        /\ loop[r] = "decode" => hand[r] \in Records

\* A record is in one place: one slot of its map's buffer, its loop's hand,
\* its loop's reorder buffer, delivered or skipped.
OnePlace ==
    /\ \A r \in Readers : \A i \in DOMAIN ring[r] :
           /\ ReaderOf[ring[r][i]] = r
           /\ ring[r][i] \notin held[r] \cup delivered \cup skipped
           /\ ring[r][i] # hand[r]
           /\ \A j \in DOMAIN ring[r] : ring[r][i] = ring[r][j] => i = j
    /\ \A r \in Readers : hand[r] # NoRecord =>
           ReaderOf[hand[r]] = r /\ hand[r] \notin held[r] \cup delivered \cup skipped
    /\ \A r \in Readers : \A x \in held[r] :
           ReaderOf[x] = r /\ x \notin delivered \cup skipped
    /\ delivered \cap skipped = {}

\* Holds in every state, and is preserved by every step.
Inv ==
    /\ TypeOK /\ NoneLostAtClose
    /\ ReloadsPosted /\ SinksOpen /\ Quiet /\ LoopState /\ OnePlace

-----------------------------------------------------------------------------
(* What the documentation and comments say, and the code does not do.      *)

\* docs/remote-config-update-api.md:127: "eCapture has begun applying the new
\* config (by restarting the module internally)": a probe that runs, runs its
\* reader goroutines.
RunningProbeReads == main = "running" => \A r \in Readers : loop[r] # "done"
=============================================================================
