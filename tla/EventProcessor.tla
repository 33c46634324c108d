--------------------------- MODULE EventProcessor ---------------------------
(***************************************************************************)
(* pkg/event_processor: the goroutines that turn captured events into      *)
(* output chunks.                                                          *)
(*                                                                         *)
(*   callers     Write(e), WriteDestroyConn(s), Close()                    *)
(*   Serve()     one goroutine: dispatches events to workers, prints       *)
(*               their output, and drains everything when closed           *)
(*   workers     one goroutine per event UUID, which accumulates the       *)
(*               payloads and displays them when it has been idle for      *)
(*               MaxTickerCount ticks, or when its socket is destroyed     *)
(*                                                                         *)
(* Every critical section of the processor's mutex, every channel          *)
(* operation and every atomic access is one step, so that the steps of the *)
(* goroutines interleave as they may in the program.  A worker is named by *)
(* the event whose dispatch created it.  Payload bytes are the events they *)
(* came from: an event e contributes Size[e] copies of e.                  *)
(***************************************************************************)
EXTENDS Integers, Sequences, FiniteSets, SequencesExt

CONSTANTS
    Events,          \* the events callers may hand in, each at most once
    UUIDs,           \* their worker keys
    UuidOf,          \* GetUUID(): [Events -> UUIDs]
    SockOf,          \* uuidParse(): [UUIDs -> Nat]; 0 is LifeCycleStateDefault
    Size,            \* len(Payload()): [Events -> Nat]
    Callers,         \* goroutines that may call Close()
    TruncateSize,    \* truncateSize, 0 for no limit
    IncomingCap,     \* MaxIncomingChanLen for incoming
    OutCap,          \* MaxIncomingChanLen for outComing
    DestroyCap,      \* MaxIncomingChanLen for destroyConn
    ChanCap,         \* MaxChanLen of a worker's incoming
    ErrCap,          \* capacity of errChan
    MaxTickerCount,  \* idle ticks after which a worker displays its payload
    NoEvent          \* no event, no worker

ASSUME ConstantsAssumption ==
    /\ UuidOf \in [Events -> UUIDs]
    /\ SockOf \in [UUIDs -> Nat]
    /\ Size \in [Events -> Nat]
    /\ {TruncateSize, MaxTickerCount, ErrCap} \subseteq Nat
    /\ {IncomingCap, OutCap, DestroyCap, ChanCap} \subseteq Nat \ {0}
    /\ NoEvent \notin Events

VARIABLES
    isClosed,     \* EventProcessor.isClosed (closeChan is closed with it)
    incoming,     \* EventProcessor.incoming
    outComing,    \* EventProcessor.outComing: chunks of payload bytes
    destroyConn,  \* EventProcessor.destroyConn
    errChan,      \* number of errors waiting in errChan
    workerQueue,  \* EventProcessor.workerQueue: UUID -> worker or NoEvent
    serve,        \* program counter of Serve() and drain()
    dsp,          \* program counter of dispatch(), "none" outside it
    cur,          \* the event dispatch() is handling
    curW,         \* the worker it got for that event
    logger,       \* the chunks written to the logger
    wpc,          \* program counter of each worker's goroutine
    wIncoming,    \* eventWorker.incoming
    payload,      \* eventWorker.payload
    used,         \* eventWorker.used
    tickerCount,  \* eventWorker.tickerCount
    ticker,       \* eventWorker.ticker is running
    wClosed,      \* eventWorker.closeChan is closed
    writer,       \* program counter of the call Write(e)
    destroyer,    \* program counter of the call WriteDestroyConn(s)
    closer,       \* program counter of each caller's Close()
    dropped,      \* events the code discarded, with the reason
    panicked      \* Get() or Put() panicked

epVars == <<isClosed, incoming, outComing, destroyConn, errChan, workerQueue>>
serveVars == <<serve, dsp, cur, curW, logger>>
workerVars == <<wpc, wIncoming, payload, used, tickerCount, ticker, wClosed>>
callVars == <<writer, destroyer, closer>>
vars == <<epVars, serveVars, workerVars, callVars, dropped, panicked>>

Socks == {SockOf[u] : u \in UUIDs} \ {0}
Sock(w) == SockOf[UuidOf[w]] # 0
DropReasons == {"closed", "full", "workerFull", "truncated", "outFull"}
EventsOf(s) == ToSet(s)

Init ==
    /\ isClosed = FALSE
    /\ incoming = <<>> /\ outComing = <<>> /\ destroyConn = <<>>
    /\ errChan = 0
    /\ workerQueue = [u \in UUIDs |-> NoEvent]
    /\ serve = "select" /\ dsp = "none" /\ cur = NoEvent /\ curW = NoEvent
    /\ logger = <<>>
    /\ wpc = [w \in Events |-> "none"]
    /\ wIncoming = [w \in Events |-> <<>>]
    /\ payload = [w \in Events |-> <<>>]
    /\ used = [w \in Events |-> FALSE]
    /\ tickerCount = [w \in Events |-> 0]
    /\ ticker = [w \in Events |-> FALSE]
    /\ wClosed = [w \in Events |-> FALSE]
    /\ writer = [e \in Events |-> "idle"]
    /\ destroyer = [s \in Socks |-> "idle"]
    /\ closer = [c \in Callers |-> "idle"]
    /\ dropped = {}
    /\ panicked = FALSE

-----------------------------------------------------------------------------
(* Callers.                                                                *)

\* Write() reads isClosed without the mutex, then sends without blocking.
WriteCheck(e) ==
    /\ writer[e] = "idle"
    /\ writer' = [writer EXCEPT ![e] = IF isClosed THEN "done" ELSE "checked"]
    /\ dropped' = IF isClosed THEN dropped \cup {<<e, "closed">>} ELSE dropped
    /\ UNCHANGED <<epVars, serveVars, workerVars, destroyer, closer, panicked>>

WriteSend(e) ==
    /\ writer[e] = "checked"
    /\ writer' = [writer EXCEPT ![e] = "done"]
    /\ IF Len(incoming) < IncomingCap
       THEN incoming' = Append(incoming, e) /\ UNCHANGED dropped
       ELSE dropped' = dropped \cup {<<e, "full">>} /\ UNCHANGED incoming
    /\ UNCHANGED <<isClosed, outComing, destroyConn, errChan, workerQueue,
                   serveVars, workerVars, destroyer, closer, panicked>>

\* WriteDestroyConn() reads isClosed the same way, then sends and may block.
DestroyCheck(s) ==
    /\ destroyer[s] = "idle"
    /\ destroyer' = [destroyer EXCEPT ![s] = IF isClosed THEN "refused" ELSE "checked"]
    /\ UNCHANGED <<epVars, serveVars, workerVars, writer, closer, dropped, panicked>>

DestroySend(s) ==
    /\ destroyer[s] = "checked"
    /\ Len(destroyConn) < DestroyCap
    /\ destroyConn' = Append(destroyConn, s)
    /\ destroyer' = [destroyer EXCEPT ![s] = "done"]
    /\ UNCHANGED <<isClosed, incoming, outComing, errChan, workerQueue,
                   serveVars, workerVars, writer, closer, dropped, panicked>>

\* Close(): the first caller sets isClosed, closes closeChan and waits for
\* serveDone; a later one returns at once.
CloseCall(c) ==
    /\ closer[c] = "idle"
    /\ closer' = [closer EXCEPT ![c] = IF isClosed THEN "done" ELSE "waiting"]
    /\ isClosed' = TRUE
    /\ UNCHANGED <<incoming, outComing, destroyConn, errChan, workerQueue,
                   serveVars, workerVars, writer, destroyer, dropped, panicked>>

CloseReturn(c) ==
    /\ closer[c] = "waiting"
    /\ serve = "done"
    /\ closer' = [closer EXCEPT ![c] = "done"]
    /\ UNCHANGED <<epVars, serveVars, workerVars, writer, destroyer, dropped, panicked>>

-----------------------------------------------------------------------------
(* dispatch(), run by Serve() and by drain().                              *)

\* eventWorker.Get(): the compare-and-swap of a worker already in use panics.
Get(w) ==
    /\ used' = [used EXCEPT ![w] = TRUE]
    /\ panicked' = (panicked \/ used[w])

\* Mutant: the worker is not given back.
PutForgotten(w) == UNCHANGED <<used, panicked>>

\* eventWorker.Put(): and so does the one of a worker not in use.
Put(w) ==
    /\ used' = [used EXCEPT ![w] = FALSE]
    /\ panicked' = (panicked \/ ~used[w])

\* getWorkerByUUID() finds the worker and takes it ...
DispatchFound(e) ==
    LET w == workerQueue[UuidOf[e]] IN
    /\ w # NoEvent
    /\ curW' = w
    /\ dsp' = "write"
    /\ Get(w)
    /\ UNCHANGED <<wpc, tickerCount, ticker>>

\* ... or there is none, and NewEventWorker() starts a goroutine for a new
\* one before the map knows it.
DispatchNew(e) ==
    /\ workerQueue[UuidOf[e]] = NoEvent
    /\ curW' = e
    /\ dsp' = "add"
    /\ wpc' = [wpc EXCEPT ![e] = "run"]
    /\ ticker' = [ticker EXCEPT ![e] = TRUE]
    /\ tickerCount' = [tickerCount EXCEPT ![e] = 0]
    /\ UNCHANGED <<used, panicked>>

Dispatch ==
    /\ serve \in {"select", "drain"} /\ dsp = "none"
    /\ incoming # <<>>
    /\ cur' = Head(incoming)
    /\ incoming' = Tail(incoming)
    /\ DispatchFound(Head(incoming)) \/ DispatchNew(Head(incoming))
    /\ UNCHANGED <<isClosed, outComing, destroyConn, errChan, workerQueue, serve,
                   logger, wIncoming, payload, wClosed, callVars, dropped>>

\* Mutant: the new worker is not put into workerQueue.
AddWorkerUnlisted ==
    /\ dsp = "add"
    /\ Get(curW)
    /\ dsp' = "write"
    /\ UNCHANGED <<epVars, serve, cur, curW, logger, wpc, wIncoming, payload,
                   tickerCount, ticker, wClosed, callVars, dropped>>

\* addWorkerByUUID().
AddWorker ==
    /\ dsp = "add"
    /\ workerQueue' = [workerQueue EXCEPT ![UuidOf[curW]] = curW]
    /\ Get(curW)
    /\ dsp' = "write"
    /\ UNCHANGED <<isClosed, incoming, outComing, destroyConn, errChan, serve, cur,
                   curW, logger, wpc, wIncoming, payload, tickerCount, ticker,
                   wClosed, callVars, dropped>>

\* eWorker.Write(e): never blocks; an error goes to errChan if there is room.
WorkerWrite ==
    /\ dsp = "write"
    /\ dsp' = "put"
    /\ IF Len(wIncoming[curW]) < ChanCap
       THEN /\ wIncoming' = [wIncoming EXCEPT ![curW] = Append(@, cur)]
            /\ UNCHANGED <<dropped, errChan>>
       ELSE /\ dropped' = dropped \cup {<<cur, "workerFull">>}
            /\ errChan' = IF errChan < ErrCap THEN errChan + 1 ELSE errChan
            /\ UNCHANGED wIncoming
    /\ UNCHANGED <<isClosed, incoming, outComing, destroyConn, workerQueue, serve,
                   cur, curW, logger, wpc, payload, used, tickerCount, ticker,
                   wClosed, callVars, panicked>>

PutWorker ==
    /\ dsp = "put"
    /\ Put(curW)
    /\ dsp' = "none" /\ cur' = NoEvent /\ curW' = NoEvent
    /\ UNCHANGED <<epVars, serve, logger, wpc, wIncoming, payload, tickerCount,
                   ticker, wClosed, callVars, dropped>>

-----------------------------------------------------------------------------
(* The rest of Serve() and drain().                                        *)

\* CloseEventWorker(): only a Sock worker has a closeChan.
Closing(ws) == [w \in Events |-> wClosed[w] \/ (w \in ws /\ Sock(w))]

\* Mutant: waits for a worker of the socket before it takes the request.
DestroyWorkersWaits ==
    /\ serve = "select" /\ dsp = "none"
    /\ destroyConn # <<>>
    /\ destroyConn' = Tail(destroyConn)
    /\ \E w \in Events : /\ workerQueue[UuidOf[w]] = w
                         /\ SockOf[UuidOf[w]] = Head(destroyConn)
                         /\ wClosed' = Closing({w})
    /\ UNCHANGED <<isClosed, incoming, outComing, errChan, workerQueue, serveVars,
                   wpc, wIncoming, payload, used, tickerCount, ticker, callVars,
                   dropped, panicked>>

\* destroyWorkers(): closes one worker of the socket, the first the map
\* iteration meets.
DestroyWorkers ==
    /\ serve = "select" /\ dsp = "none"
    /\ destroyConn # <<>>
    /\ destroyConn' = Tail(destroyConn)
    /\ LET of == {w \in Events : /\ workerQueue[UuidOf[w]] = w
                                 /\ SockOf[UuidOf[w]] = Head(destroyConn)}
       IN  IF of = {} THEN UNCHANGED wClosed
           ELSE \E w \in of : wClosed' = Closing({w})
    /\ UNCHANGED <<isClosed, incoming, outComing, errChan, workerQueue, serveVars,
                   wpc, wIncoming, payload, used, tickerCount, ticker, callVars,
                   dropped, panicked>>

\* s := <-ep.outComing; logger.Write(s), in Serve() and in drain().
Output ==
    /\ serve \in {"select", "wait", "flush"} /\ dsp = "none"
    /\ outComing # <<>>
    /\ logger' = Append(logger, Head(outComing))
    /\ outComing' = Tail(outComing)
    /\ UNCHANGED <<isClosed, incoming, destroyConn, errChan, workerQueue, serve, dsp,
                   cur, curW, workerVars, callVars, dropped, panicked>>

ServeClosed ==
    /\ serve = "select" /\ dsp = "none"
    /\ isClosed
    /\ serve' = "drain"
    /\ UNCHANGED <<epVars, dsp, cur, curW, logger, workerVars, callVars, dropped, panicked>>

\* drain() found incoming empty and goes on to signalWorkers.
DrainedIncoming ==
    /\ serve = "drain" /\ dsp = "none"
    /\ incoming = <<>>
    /\ serve' = "signal"
    /\ UNCHANGED <<epVars, dsp, cur, curW, logger, workerVars, callVars, dropped, panicked>>

\* Mutant: no worker is told to close.
SignalNobody ==
    /\ serve = "signal"
    /\ serve' = "wait"
    /\ UNCHANGED <<epVars, dsp, cur, curW, logger, workerVars, callVars, dropped, panicked>>

SignalWorkers ==
    /\ serve = "signal"
    /\ wClosed' = Closing({w \in Events : workerQueue[UuidOf[w]] = w})
    /\ serve' = "wait"
    /\ UNCHANGED <<epVars, dsp, cur, curW, logger, wpc, wIncoming, payload, used,
                   tickerCount, ticker, callVars, dropped, panicked>>

\* Mutant: workers are not counted in wg, so Wait() returns at once.
WorkersNotAwaited ==
    /\ serve = "wait"
    /\ serve' = "flush"
    /\ UNCHANGED <<epVars, dsp, cur, curW, logger, workerVars, callVars, dropped, panicked>>

\* wg.Wait() returned: no worker goroutine is left.
WorkersDone ==
    /\ serve = "wait"
    /\ \A w \in Events : wpc[w] \in {"none", "done"}
    /\ serve' = "flush"
    /\ UNCHANGED <<epVars, dsp, cur, curW, logger, workerVars, callVars, dropped, panicked>>

ServeDone ==
    /\ serve = "flush"
    /\ outComing = <<>>
    /\ serve' = "done"
    /\ UNCHANGED <<epVars, dsp, cur, curW, logger, workerVars, callVars, dropped, panicked>>

Serve ==
    \/ Dispatch \/ AddWorker \/ WorkerWrite \/ PutWorker
    \/ DestroyWorkers \/ Output
    \/ ServeClosed \/ DrainedIncoming \/ SignalWorkers \/ WorkersDone \/ ServeDone

-----------------------------------------------------------------------------
(* A worker's goroutine.  wpc: "run" is the select of Run(); "del" is      *)
(* before delWorkerByUUID(); "drain" and "used" are the loop of the last   *)
(* drainAndClose(), "idleDrain" and "idleUsed" of the one an idle Sock     *)
(* worker runs and returns from; "done" is after Run() has returned.       *)

Bytes(e) == [i \in 1 .. Size[e] |-> e]

\* The limit test of writeEvent().
PayloadFull(w) == TruncateSize > 0 /\ Len(payload[w]) >= TruncateSize

\* writeEvent(): an event that meets a full payload is dropped and the
\* payload cut to the limit; otherwise the whole event is appended.
WriteEvent(w, e) ==
    IF PayloadFull(w)
    THEN /\ payload' = [payload EXCEPT ![w] = SubSeq(@, 1, TruncateSize)]
         /\ dropped' = dropped \cup {<<e, "truncated">>}
    ELSE /\ payload' = [payload EXCEPT ![w] = @ \o Bytes(e)]
         /\ UNCHANGED dropped

\* Mutant: an idle Sock worker ends like a Default one.
TickEndsAll(w) ==
    /\ wpc[w] = "run" /\ ticker[w]
    /\ IF tickerCount[w] > MaxTickerCount
       THEN wpc' = [wpc EXCEPT ![w] = "del"] /\ UNCHANGED tickerCount
       ELSE tickerCount' = [tickerCount EXCEPT ![w] = @ + 1] /\ UNCHANGED wpc
    /\ UNCHANGED <<epVars, serveVars, wIncoming, payload, used, ticker, wClosed,
                   callVars, dropped, panicked>>

\* case <-ew.ticker.C.
Tick(w) ==
    /\ wpc[w] = "run" /\ ticker[w]
    /\ IF tickerCount[w] > MaxTickerCount
       THEN /\ wpc' = [wpc EXCEPT ![w] = IF Sock(w) THEN "idleDrain" ELSE "del"]
            /\ UNCHANGED tickerCount
       ELSE /\ tickerCount' = [tickerCount EXCEPT ![w] = @ + 1]
            /\ UNCHANGED wpc
    /\ UNCHANGED <<epVars, serveVars, wIncoming, payload, used, ticker, wClosed,
                   callVars, dropped, panicked>>

\* Mutant: a stopped ticker stays stopped.
ReceiveUnticked(w) ==
    /\ wpc[w] = "run"
    /\ wIncoming[w] # <<>>
    /\ wIncoming' = [wIncoming EXCEPT ![w] = Tail(@)]
    /\ WriteEvent(w, Head(wIncoming[w]))
    /\ tickerCount' = [tickerCount EXCEPT ![w] = 0]
    /\ UNCHANGED <<epVars, serveVars, wpc, used, ticker, wClosed, callVars, panicked>>

\* case e := <-ew.incoming; a stopped ticker is started again.
Receive(w) ==
    /\ wpc[w] = "run"
    /\ wIncoming[w] # <<>>
    /\ wIncoming' = [wIncoming EXCEPT ![w] = Tail(@)]
    /\ WriteEvent(w, Head(wIncoming[w]))
    /\ tickerCount' = [tickerCount EXCEPT ![w] = 0]
    /\ ticker' = [ticker EXCEPT ![w] = TRUE]
    /\ UNCHANGED <<epVars, serveVars, wpc, used, wClosed, callVars, panicked>>

\* case <-ew.closeChan.
CloseSignal(w) ==
    /\ wpc[w] = "run" /\ wClosed[w]
    /\ wpc' = [wpc EXCEPT ![w] = "del"]
    /\ UNCHANGED <<epVars, serveVars, wIncoming, payload, used, tickerCount, ticker,
                   wClosed, callVars, dropped, panicked>>

\* delWorkerByUUID(): removes whatever worker the UUID has.
DelWorker(w) ==
    /\ wpc[w] = "del"
    /\ workerQueue' = [workerQueue EXCEPT ![UuidOf[w]] = NoEvent]
    /\ wpc' = [wpc EXCEPT ![w] = "drain"]
    /\ UNCHANGED <<isClosed, incoming, outComing, destroyConn, errChan, serveVars,
                   wIncoming, payload, used, tickerCount, ticker, wClosed, callVars,
                   dropped, panicked>>

\* drainAndClose(): takes an event, or finds none and goes to ask IfUsed().
DrainStep(w) ==
    /\ wpc[w] \in {"drain", "idleDrain"}
    /\ IF wIncoming[w] # <<>>
       THEN /\ wIncoming' = [wIncoming EXCEPT ![w] = Tail(@)]
            /\ WriteEvent(w, Head(wIncoming[w]))
            /\ UNCHANGED wpc
       ELSE /\ wpc' = [wpc EXCEPT ![w] = IF @ = "drain" THEN "used" ELSE "idleUsed"]
            /\ UNCHANGED <<wIncoming, payload, dropped>>
    /\ UNCHANGED <<epVars, serveVars, used, tickerCount, ticker, wClosed, callVars, panicked>>

\* IfUsed() is true: sleep and look again.
StillUsed(w) ==
    /\ wpc[w] \in {"used", "idleUsed"} /\ used[w]
    /\ wpc' = [wpc EXCEPT ![w] = IF @ = "used" THEN "drain" ELSE "idleDrain"]
    /\ UNCHANGED <<epVars, serveVars, wIncoming, payload, used, tickerCount, ticker,
                   wClosed, callVars, dropped, panicked>>

\* Mutant: the payload is not reset.
DisplayKeeps(w) ==
    /\ UNCHANGED <<payload, dropped>>
    /\ IF payload[w] # <<>> /\ Len(outComing) < OutCap
       THEN outComing' = Append(outComing, payload[w])
       ELSE UNCHANGED outComing

\* Display() and writeToChan(): a chunk that meets a full outComing is lost.
Display(w) ==
    /\ payload' = [payload EXCEPT ![w] = <<>>]
    /\ IF payload[w] # <<>> /\ Len(outComing) < OutCap
       THEN outComing' = Append(outComing, payload[w]) /\ UNCHANGED dropped
       ELSE /\ dropped' = dropped \cup {<<e, "outFull">> : e \in EventsOf(payload[w])}
            /\ UNCHANGED outComing

\* Close(), the end of drainAndClose(): stops the ticker and displays.  Run()
\* then returns, or (idle Sock worker) goes back to its select.
CloseWorker(w) ==
    /\ wpc[w] \in {"used", "idleUsed"} /\ ~used[w]
    /\ ticker' = [ticker EXCEPT ![w] = FALSE]
    /\ Display(w)
    /\ tickerCount' = [tickerCount EXCEPT ![w] = 0]
    /\ wpc' = [wpc EXCEPT ![w] = IF @ = "used" THEN "done" ELSE "run"]
    /\ UNCHANGED <<isClosed, incoming, destroyConn, errChan, workerQueue, serveVars,
                   wIncoming, used, wClosed, callVars, panicked>>

Worker(w) ==
    \/ Tick(w) \/ Receive(w) \/ CloseSignal(w) \/ DelWorker(w)
    \/ DrainStep(w) \/ StillUsed(w) \/ CloseWorker(w)

-----------------------------------------------------------------------------
Next ==
    \/ \E e \in Events : WriteCheck(e) \/ WriteSend(e)
    \/ \E s \in Socks : DestroyCheck(s) \/ DestroySend(s)
    \/ \E c \in Callers : CloseCall(c) \/ CloseReturn(c)
    \/ Serve
    \/ \E w \in Events : Worker(w)

\* Go runs every goroutine that can run; which ready case a select takes is
\* left open.  Callers need not call, but a call that has begun goes on.
Fairness ==
    /\ WF_vars(Serve)
    /\ \A w \in Events : WF_vars(Worker(w))
    /\ \A s \in Socks : WF_vars(DestroySend(s))
    /\ \A c \in Callers : WF_vars(CloseReturn(c))

Spec == Init /\ [][Next]_vars /\ Fairness

-----------------------------------------------------------------------------
(* Properties.                                                             *)

\* Every variable stays in its type, and no channel exceeds its capacity.
TypeOK ==
    /\ isClosed \in BOOLEAN /\ panicked \in BOOLEAN
    /\ incoming \in Seq(Events) /\ Len(incoming) <= IncomingCap
    /\ outComing \in Seq(Seq(Events)) /\ Len(outComing) <= OutCap
    /\ destroyConn \in Seq(Socks) /\ Len(destroyConn) <= DestroyCap
    /\ errChan \in 0 .. ErrCap
    /\ workerQueue \in [UUIDs -> Events \cup {NoEvent}]
    /\ serve \in {"select", "drain", "signal", "wait", "flush", "done"}
    /\ dsp \in {"none", "add", "write", "put"}
    /\ cur \in Events \cup {NoEvent} /\ curW \in Events \cup {NoEvent}
    /\ logger \in Seq(Seq(Events))
    /\ wpc \in [Events -> {"none", "run", "del", "drain", "used",
                           "idleDrain", "idleUsed", "done"}]
    /\ wIncoming \in [Events -> Seq(Events)]
    /\ \A w \in Events : Len(wIncoming[w]) <= ChanCap
    /\ payload \in [Events -> Seq(Events)]
    /\ used \in [Events -> BOOLEAN]
    /\ tickerCount \in [Events -> 0 .. MaxTickerCount + 1]
    /\ ticker \in [Events -> BOOLEAN] /\ wClosed \in [Events -> BOOLEAN]
    /\ writer \in [Events -> {"idle", "checked", "done"}]
    /\ destroyer \in [Socks -> {"idle", "checked", "refused", "done"}]
    /\ closer \in [Callers -> {"idle", "waiting", "done"}]
    /\ dropped \subseteq Events \X DropReasons

\* Get() and Put() bracket every use of a worker: the compare-and-swaps of
\* iworker.go never panic, whatever the interleaving of Serve() and the worker.
NoPanic == ~panicked

\* The places an event that Write() took may be in.
InDispatch(e) == cur = e /\ dsp \in {"add", "write"}
InWorkerQueue(e) == {w \in Events : e \in EventsOf(wIncoming[w])}
InPayload(e) == {w \in Events : e \in EventsOf(payload[w])}
InOutput(e) == {i \in DOMAIN outComing : e \in EventsOf(outComing[i])}
InLog(e) == {i \in DOMAIN logger : e \in EventsOf(logger[i])}
WasDropped(e) == \E r \in DropReasons : <<e, r>> \in dropped
Places(e) ==
    Cardinality(InWorkerQueue(e)) + Cardinality(InPayload(e))
    + Cardinality(InOutput(e)) + Cardinality(InLog(e))
    + (IF InDispatch(e) THEN 1 ELSE 0)
    + (IF e \in EventsOf(incoming) THEN 1 ELSE 0)
    + (IF WasDropped(e) THEN 1 ELSE 0)

\* No event is duplicated, and none disappears without one of the drops the
\* code decides on: an event handed to Write() is in exactly one queue, worker
\* payload or output chunk at any time, across idle displays and restarts.
ExactlyOnePlace ==
    \A e \in Events : writer[e] = "done" /\ Size[e] > 0 => Places(e) = 1

\* At most one worker of a UUID is in its event loop: the worker that replaces
\* one is started only after that one has taken itself out of workerQueue.
OneWorkerPerUUID ==
    \A v, w \in Events :
        /\ v # w /\ UuidOf[v] = UuidOf[w]
        /\ wpc[v] \in {"run", "idleDrain", "idleUsed"}
        => wpc[w] \in {"none", "drain", "used", "done"}

\* "The worker runs continuously until the associated socket is [destroyed]":
\* a Sock worker leaves its loop only after a destroy of its socket was taken
\* from destroyConn, or once drain() has signalled the workers.
SockWorkerPersists ==
    \A w \in Events :
        Sock(w) /\ wpc[w] \in {"del", "drain", "used", "done"} =>
            \/ destroyer[SockOf[UuidOf[w]]] = "done"
            \/ serve \in {"wait", "flush", "done"}

\* When Serve() has returned nothing is left in outComing and no worker
\* goroutine survives it.
FlushedWhenDone ==
    serve = "done" =>
        /\ outComing = <<>>
        /\ \A w \in Events : wpc[w] \in {"none", "done"} /\ payload[w] = <<>>

\* Close() returns: Default workers leave after their idle ticks, Sock workers
\* by the signal, and drain() ends.
CloseReturns == \A c \in Callers : closer[c] = "waiting" ~> closer[c] = "done"

\* What a worker has accumulated is displayed in the end, even by a Sock worker
\* whose ticker was stopped by an earlier idle display.
PayloadDisplayed ==
    \A w, e \in Events : e \in EventsOf(payload[w]) ~> e \notin EventsOf(payload[w])

\* A call of WriteDestroyConn() returns unless Serve() has ended.
DestroyCallReturns ==
    \A s \in Socks : destroyer[s] = "checked" ~> destroyer[s] = "done" \/ serve # "select"

-----------------------------------------------------------------------------
(* What comments of the code say, and the code does not do.                *)

\* iworker.go:309-324, on drainAndClose(): "we can ensure that no other routine
\* will touch it and send events through the ew.incoming.  So, we return": a
\* worker returns from its last drainAndClose() with nothing in its queue.
ReturnsDrained ==
    [][\A w \in Events : wpc[w] # "done" /\ wpc'[w] = "done" => wIncoming[w] = <<>>]_vars
=============================================================================
