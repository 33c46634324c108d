------------------------ MODULE EventProcessorProofs ------------------------
(***************************************************************************)
(* The invariants of EventProcessor, for every set of events, UUIDs and    *)
(* sockets and every capacity.  The inductive invariant Inv, at the end,   *)
(* is a conjunction of parts.  Each is kept by every step, given the types *)
(* and itself:                                                             *)
(*   InUse            a worker that dispatch() holds is in use;            *)
(*   Listed           a worker that runs is the one in workerQueue;        *)
(*   ClosedForReason  a closed closeChan has a destroyed socket, or        *)
(*                    drain(), behind it;                                  *)
(*   Quiet            a worker that does not run holds nothing;            *)
(*   Placed           every event is in one place, from the channel it is  *)
(*                    written to until it is logged or dropped.            *)
(***************************************************************************)
EXTENDS EventProcessor, FiniteSetTheorems, TLAPS

-----------------------------------------------------------------------------
(* Types.  The conjuncts of TypeOK in groups, of which each step disturbs  *)
(* few.                                                                    *)

\* Booleans.
FlagTypes ==
    /\ isClosed \in BOOLEAN /\ panicked \in BOOLEAN
    /\ used \in [Events -> BOOLEAN]
    /\ ticker \in [Events -> BOOLEAN] /\ wClosed \in [Events -> BOOLEAN]

\* Channels and the log, with their capacities.
ChannelTypes ==
    /\ incoming \in Seq(Events) /\ Len(incoming) <= IncomingCap
    /\ outComing \in Seq(Seq(Events)) /\ Len(outComing) <= OutCap
    /\ destroyConn \in Seq(Socks) /\ Len(destroyConn) <= DestroyCap
    /\ errChan \in 0 .. ErrCap
    /\ logger \in Seq(Seq(Events))

\* The state of Serve() and of the dispatch() it is in.
ServeTypes ==
    /\ workerQueue \in [UUIDs -> Events \cup {NoEvent}]
    /\ serve \in {"select", "drain", "signal", "wait", "flush", "done"}
    /\ dsp \in {"none", "add", "write", "put"}
    /\ cur \in Events \cup {NoEvent} /\ curW \in Events \cup {NoEvent}

\* The workers.
WorkerTypes ==
    /\ wpc \in [Events -> {"none", "run", "del", "drain", "used",
                           "idleDrain", "idleUsed", "done"}]
    /\ wIncoming \in [Events -> Seq(Events)]
    /\ \A w \in Events : Len(wIncoming[w]) <= ChanCap
    /\ payload \in [Events -> Seq(Events)]
    /\ tickerCount \in [Events -> 0 .. MaxTickerCount + 1]

\* The callers, and what was dropped.
CallTypes ==
    /\ writer \in [Events -> {"idle", "checked", "done"}]
    /\ destroyer \in [Socks -> {"idle", "checked", "refused", "done"}]
    /\ closer \in [Callers -> {"idle", "waiting", "done"}]
    /\ dropped \subseteq Events \X DropReasons

\* dispatch() has an event and a worker from the moment it looked one up.
DispatchSet == dsp # "none" => cur \in Events /\ curW \in Events

\* All of them.
Types == FlagTypes /\ ChannelTypes /\ ServeTypes /\ WorkerTypes /\ CallTypes /\ DispatchSet

\* The groups together are TypeOK.
LEMMA TypesSuffice == Types => TypeOK
PROOF
  BY DEF Types, TypeOK, FlagTypes, ChannelTypes, ServeTypes, WorkerTypes, CallTypes

\* The capacities and limits are natural numbers.
LEMMA Limits ==
    /\ TruncateSize \in Nat /\ MaxTickerCount \in Nat /\ ErrCap \in Nat
    /\ IncomingCap \in Nat \ {0} /\ OutCap \in Nat \ {0}
    /\ DestroyCap \in Nat \ {0} /\ ChanCap \in Nat \ {0}
    /\ UuidOf \in [Events -> UUIDs] /\ SockOf \in [UUIDs -> Nat]
    /\ Size \in [Events -> Nat] /\ NoEvent \notin Events
PROOF
  BY ConstantsAssumption

\* The initial state has the types.
LEMMA TypesInit == Init => Types
PROOF
<1> SUFFICES ASSUME Init PROVE Types
  OBVIOUS
<1>1. FlagTypes
  <2>1. isClosed \in BOOLEAN /\ panicked \in BOOLEAN
    BY Zenon DEF Init
  <2>2. /\ used \in [Events -> BOOLEAN]
        /\ ticker \in [Events -> BOOLEAN] /\ wClosed \in [Events -> BOOLEAN]
    BY DEF Init
  <2> QED
    BY <2>1, <2>2 DEF FlagTypes
<1>2. ChannelTypes
  BY Limits DEF Init, ChannelTypes
<1>3. ServeTypes /\ DispatchSet
  BY DEF Init, ServeTypes, DispatchSet
<1>4. WorkerTypes
  BY Limits DEF Init, WorkerTypes
<1>5. CallTypes
  BY DEF Init, CallTypes
<1> QED
  BY <1>1, <1>2, <1>3, <1>4, <1>5 DEF Types

\* Every step keeps the flags Boolean.
LEMMA FlagStep == FlagTypes /\ [Next]_vars => FlagTypes'
PROOF
<1> SUFFICES ASSUME FlagTypes, [Next]_vars PROVE FlagTypes'
  OBVIOUS
<1> USE DEF FlagTypes, epVars, serveVars, workerVars, callVars
<1>1. ASSUME NEW e \in Events, WriteCheck(e) \/ WriteSend(e) PROVE FlagTypes'
  BY <1>1 DEF WriteCheck, WriteSend
<1>2. ASSUME NEW s \in Socks, DestroyCheck(s) \/ DestroySend(s) PROVE FlagTypes'
  BY <1>2 DEF DestroyCheck, DestroySend
<1>3. ASSUME NEW c \in Callers, CloseCall(c) PROVE FlagTypes'
  BY <1>3 DEF CloseCall
<1>4. ASSUME NEW c \in Callers, CloseReturn(c) PROVE FlagTypes'
  BY <1>4 DEF CloseReturn
<1>5. CASE Dispatch
  BY <1>5 DEF Dispatch, DispatchFound, DispatchNew, Get
<1>6. CASE AddWorker
  BY <1>6 DEF AddWorker, Get
<1>7. CASE WorkerWrite
  BY <1>7 DEF WorkerWrite
<1>8. CASE PutWorker
  BY <1>8 DEF PutWorker, Put
<1>9. CASE DestroyWorkers
  BY <1>9 DEF DestroyWorkers, Closing
<1>10. CASE SignalWorkers
  BY <1>10 DEF SignalWorkers, Closing
<1>11. CASE Output \/ ServeClosed \/ DrainedIncoming \/ WorkersDone \/ ServeDone
  BY <1>11 DEF Output, ServeClosed, DrainedIncoming, WorkersDone, ServeDone
<1>12. ASSUME NEW w \in Events, Tick(w) \/ CloseSignal(w) \/ DelWorker(w) \/ StillUsed(w)
       PROVE  FlagTypes'
  BY <1>12 DEF Tick, CloseSignal, DelWorker, StillUsed
<1>13. ASSUME NEW w \in Events, Receive(w) PROVE FlagTypes'
  BY <1>13 DEF Receive
<1>14. ASSUME NEW w \in Events, DrainStep(w) PROVE FlagTypes'
  BY <1>14 DEF DrainStep
<1>15. ASSUME NEW w \in Events, CloseWorker(w) PROVE FlagTypes'
  BY <1>15 DEF CloseWorker
<1>16. CASE UNCHANGED vars
  BY <1>16 DEF vars
<1> QED
  BY <1>1, <1>2, <1>3, <1>4, <1>5, <1>6, <1>7, <1>8, <1>9, <1>10, <1>11, <1>12,
     <1>13, <1>14, <1>15, <1>16 DEF Next, Serve, Worker

\* writeEvent() keeps the payload a sequence of events, and the drops typed.
LEMMA WriteEventType ==
    ASSUME WorkerTypes, CallTypes, NEW w \in Events, NEW e \in Events, WriteEvent(w, e)
    PROVE  /\ payload' \in [Events -> Seq(Events)]
           /\ dropped' \subseteq Events \X DropReasons
PROOF
<1>1. payload \in [Events -> Seq(Events)]
  BY DEF WorkerTypes
<1>2. dropped \subseteq Events \X DropReasons
  BY DEF CallTypes
<1>3. CASE PayloadFull(w)
  <2>1. SubSeq(payload[w], 1, TruncateSize) \in Seq(Events)
    <3>1. payload[w] \in Seq(Events)
      BY <1>1
    <3>2. TruncateSize \in Nat /\ TruncateSize <= Len(payload[w])
      BY <1>3, <3>1, Limits DEF PayloadFull
    <3> QED
      BY <3>1, <3>2
  <2>2. <<e, "truncated">> \in Events \X DropReasons
    BY DEF DropReasons
  <2> QED
    BY <1>1, <1>2, <1>3, <2>1, <2>2 DEF WriteEvent
<1>4. CASE ~PayloadFull(w)
  <2>1. Bytes(e) \in Seq(Events)
    BY Limits DEF Bytes
  <2>2. payload[w] \o Bytes(e) \in Seq(Events)
    BY <1>1, <2>1
  <2> QED
    BY <1>1, <1>2, <1>4, <2>2 DEF WriteEvent
<1> QED
  BY <1>3, <1>4

\* The head of a queue is an event and the tail is no longer than the queue.
LEMMA HeadTail ==
    ASSUME NEW S, NEW s \in Seq(S), s # <<>>
    PROVE  Head(s) \in S /\ Tail(s) \in Seq(S) /\ Len(Tail(s)) <= Len(s)
           /\ Len(s) \in Nat /\ Len(Tail(s)) \in Nat
PROOF
  OBVIOUS

\* Every step keeps the types.
LEMMA TypesStep == Types /\ [Next]_vars => Types'
PROOF
<1> SUFFICES ASSUME Types, [Next]_vars PROVE Types'
  OBVIOUS
<1> DEFINE T == ChannelTypes /\ ServeTypes /\ WorkerTypes /\ CallTypes /\ DispatchSet
<1> SUFFICES T'
  BY FlagStep DEF Types
<1>a. T
  BY DEF Types
<1> USE DEF epVars, serveVars, workerVars, callVars
<1>1. ASSUME NEW e \in Events, WriteCheck(e) PROVE T'
  <2>1. CallTypes'
    BY <1>a, <1>1 DEF WriteCheck, CallTypes, DropReasons
  <2> QED
    BY <1>a, <1>1, <2>1 DEF WriteCheck, ChannelTypes, ServeTypes, WorkerTypes, DispatchSet
<1>2. ASSUME NEW e \in Events, WriteSend(e) PROVE T'
  <2>1. CallTypes'
    BY <1>a, <1>2 DEF WriteSend, CallTypes, DropReasons
  <2>2. ChannelTypes'
    <3>1. CASE Len(incoming) < IncomingCap
      <4>1. Append(incoming, e) \in Seq(Events) /\ Len(Append(incoming, e)) <= IncomingCap
        BY <1>a, <3>1, Limits DEF ChannelTypes
      <4> QED
        BY <1>a, <1>2, <3>1, <4>1 DEF WriteSend, ChannelTypes
    <3>2. CASE ~(Len(incoming) < IncomingCap)
      BY <1>a, <1>2, <3>2 DEF WriteSend, ChannelTypes
    <3> QED
      BY <3>1, <3>2
  <2> QED
    BY <1>a, <1>2, <2>1, <2>2 DEF WriteSend, ServeTypes, WorkerTypes, DispatchSet
<1>3. ASSUME NEW s \in Socks, DestroyCheck(s) PROVE T'
  BY <1>a, <1>3 DEF DestroyCheck, ChannelTypes, ServeTypes, WorkerTypes, CallTypes, DispatchSet
<1>4. ASSUME NEW s \in Socks, DestroySend(s) PROVE T'
  <2>1. CallTypes'
    BY <1>a, <1>4 DEF DestroySend, CallTypes
  <2>2. ChannelTypes'
    <3>1. destroyConn' \in Seq(Socks) /\ Len(destroyConn') <= DestroyCap
      <4>1. destroyConn \in Seq(Socks) /\ Len(destroyConn) < DestroyCap
        BY <1>a, <1>4 DEF DestroySend, ChannelTypes
      <4>2. Append(destroyConn, s) \in Seq(Socks) /\ Len(Append(destroyConn, s)) <= DestroyCap
        BY <4>1, Limits
      <4> QED
        BY <1>4, <4>2 DEF DestroySend
    <3> QED
      BY <1>a, <1>4, <3>1 DEF DestroySend, ChannelTypes
  <2> QED
    BY <1>a, <1>4, <2>1, <2>2 DEF DestroySend, ServeTypes, WorkerTypes, DispatchSet
<1>5. ASSUME NEW c \in Callers, CloseCall(c) \/ CloseReturn(c) PROVE T'
  <2>1. CallTypes'
    BY <1>a, <1>5 DEF CloseCall, CloseReturn, CallTypes
  <2> QED
    BY <1>a, <1>5, <2>1 DEF CloseCall, CloseReturn, ChannelTypes, ServeTypes, WorkerTypes,
                            DispatchSet
<1>6. CASE Dispatch
  <2>1. Head(incoming) \in Events /\ Tail(incoming) \in Seq(Events)
        /\ Len(Tail(incoming)) <= IncomingCap
    BY <1>a, <1>6, HeadTail, Limits DEF Dispatch, ChannelTypes
  <2>2. ChannelTypes' /\ CallTypes'
    BY <1>a, <1>6, <2>1 DEF Dispatch, ChannelTypes, CallTypes
  <2>3. CASE DispatchFound(Head(incoming))
    <3>1. workerQueue[UuidOf[Head(incoming)]] \in Events
      BY <1>a, <2>1, <2>3, Limits DEF DispatchFound, ServeTypes
    <3> QED
      BY <1>a, <1>6, <2>1, <2>2, <2>3, <3>1
         DEF Dispatch, DispatchFound, ServeTypes, WorkerTypes, DispatchSet
  <2>4. CASE DispatchNew(Head(incoming))
    <3>1. ServeTypes' /\ DispatchSet'
      BY <1>a, <1>6, <2>1, <2>4 DEF Dispatch, DispatchNew, ServeTypes, DispatchSet
    <3>2. WorkerTypes'
      <4>1. wpc' \in [Events -> {"none", "run", "del", "drain", "used",
                                 "idleDrain", "idleUsed", "done"}]
        BY <1>a, <2>1, <2>4 DEF DispatchNew, WorkerTypes
      <4>2. tickerCount' \in [Events -> 0 .. MaxTickerCount + 1]
        BY <1>a, <2>1, <2>4, Limits DEF DispatchNew, WorkerTypes
      <4>3. wIncoming' = wIncoming /\ payload' = payload
        BY <1>6, <2>4 DEF Dispatch, DispatchNew
      <4> QED
        BY <1>a, <4>1, <4>2, <4>3 DEF WorkerTypes
    <3> QED
      BY <2>2, <3>1, <3>2
  <2> QED
    BY <1>6, <2>3, <2>4 DEF Dispatch
<1>7. CASE AddWorker
  BY <1>a, <1>7 DEF AddWorker, ChannelTypes, ServeTypes, WorkerTypes, CallTypes, DispatchSet
<1>8. CASE WorkerWrite
  <2>1. cur \in Events /\ curW \in Events
    BY <1>a, <1>8 DEF WorkerWrite, DispatchSet
  <2>2. ServeTypes' /\ DispatchSet'
    BY <1>a, <1>8 DEF WorkerWrite, ServeTypes, DispatchSet
  <2>3. WorkerTypes'
    <3>1. CASE Len(wIncoming[curW]) < ChanCap
      <4>1. Append(wIncoming[curW], cur) \in Seq(Events)
            /\ Len(Append(wIncoming[curW], cur)) <= ChanCap
        BY <1>a, <2>1, <3>1, Limits DEF WorkerTypes
      <4> QED
        BY <1>a, <1>8, <2>1, <3>1, <4>1 DEF WorkerWrite, WorkerTypes
    <3>2. CASE ~(Len(wIncoming[curW]) < ChanCap)
      BY <1>a, <1>8, <3>2 DEF WorkerWrite, WorkerTypes
    <3> QED
      BY <3>1, <3>2
  <2>4. CallTypes'
    BY <1>a, <1>8, <2>1 DEF WorkerWrite, CallTypes, DropReasons
  <2>5. ChannelTypes'
    BY <1>a, <1>8, Limits DEF WorkerWrite, ChannelTypes
  <2> QED
    BY <2>2, <2>3, <2>4, <2>5
<1>9. CASE PutWorker
  BY <1>a, <1>9 DEF PutWorker, ChannelTypes, ServeTypes, WorkerTypes, CallTypes, DispatchSet
<1>10. CASE DestroyWorkers
  <2>1. Tail(destroyConn) \in Seq(Socks) /\ Len(Tail(destroyConn)) <= DestroyCap
    BY <1>a, <1>10, Limits DEF DestroyWorkers, ChannelTypes
  <2> QED
    BY <1>a, <1>10, <2>1
       DEF DestroyWorkers, ChannelTypes, ServeTypes, WorkerTypes, CallTypes, DispatchSet
<1>11. CASE Output
  <2>1. /\ Head(outComing) \in Seq(Events) /\ Tail(outComing) \in Seq(Seq(Events))
        /\ Len(Tail(outComing)) <= OutCap
    BY <1>a, <1>11, HeadTail, Limits DEF Output, ChannelTypes
  <2>2. Append(logger, Head(outComing)) \in Seq(Seq(Events))
    BY <1>a, <2>1 DEF ChannelTypes
  <2>3. ChannelTypes'
    BY <1>a, <1>11, <2>1, <2>2 DEF Output, ChannelTypes
  <2> QED
    BY <1>a, <1>11, <2>3 DEF Output, ServeTypes, WorkerTypes, CallTypes, DispatchSet
<1>12. CASE ServeClosed \/ DrainedIncoming \/ SignalWorkers \/ WorkersDone \/ ServeDone
  BY <1>a, <1>12 DEF ServeClosed, DrainedIncoming, SignalWorkers, WorkersDone, ServeDone,
        ChannelTypes, ServeTypes, WorkerTypes, CallTypes, DispatchSet
<1>13. ASSUME NEW w \in Events, Tick(w) PROVE T'
  <2>1. tickerCount' \in [Events -> 0 .. MaxTickerCount + 1]
    <3>1. tickerCount \in [Events -> 0 .. MaxTickerCount + 1]
      BY <1>a DEF WorkerTypes
    <3>2. tickerCount[w] <= MaxTickerCount => tickerCount[w] + 1 \in 0 .. MaxTickerCount + 1
      BY <3>1, Limits
    <3>3. \/ tickerCount' = tickerCount
          \/ /\ tickerCount[w] <= MaxTickerCount
             /\ tickerCount' = [tickerCount EXCEPT ![w] = @ + 1]
      BY <1>13, <3>1, Limits DEF Tick
    <3> QED
      BY <3>1, <3>2, <3>3
  <2>2. WorkerTypes'
    BY <1>a, <1>13, <2>1 DEF Tick, WorkerTypes
  <2> QED
    BY <1>a, <1>13, <2>2 DEF Tick, ChannelTypes, ServeTypes, CallTypes, DispatchSet
<1>14. ASSUME NEW w \in Events, CloseSignal(w) \/ DelWorker(w) \/ StillUsed(w) PROVE T'
  <2>1. WorkerTypes'
    BY <1>a, <1>14 DEF CloseSignal, DelWorker, StillUsed, WorkerTypes
  <2>2. ServeTypes' /\ DispatchSet'
    BY <1>a, <1>14 DEF CloseSignal, DelWorker, StillUsed, ServeTypes, DispatchSet
  <2> QED
    BY <1>a, <1>14, <2>1, <2>2 DEF CloseSignal, DelWorker, StillUsed, ChannelTypes, CallTypes
<1>15. ASSUME NEW w \in Events, wIncoming[w] # <<>>,
              wIncoming' = [wIncoming EXCEPT ![w] = Tail(@)],
              WriteEvent(w, Head(wIncoming[w])), Receive(w) \/ DrainStep(w)
       PROVE  T'
  <2>1. wIncoming[w] \in Seq(Events) /\ Len(wIncoming[w]) <= ChanCap
    BY <1>a DEF WorkerTypes
  <2>2. Head(wIncoming[w]) \in Events /\ Tail(wIncoming[w]) \in Seq(Events)
        /\ Len(Tail(wIncoming[w])) <= ChanCap
    BY <1>15, <2>1, HeadTail, Limits
  <2>3. payload' \in [Events -> Seq(Events)] /\ dropped' \subseteq Events \X DropReasons
    BY <1>a, <1>15, <2>2, WriteEventType
  <2>4. wIncoming' \in [Events -> Seq(Events)] /\ \A v \in Events : Len(wIncoming'[v]) <= ChanCap
    BY <1>a, <1>15, <2>2 DEF WorkerTypes
  <2>5. tickerCount' \in [Events -> 0 .. MaxTickerCount + 1] /\ wpc' = wpc
    <3>1. 0 \in 0 .. MaxTickerCount + 1
      BY Limits
    <3>2. tickerCount' = [tickerCount EXCEPT ![w] = 0] \/ tickerCount' = tickerCount
      BY <1>15 DEF Receive, DrainStep
    <3> QED
      BY <1>a, <1>15, <3>1, <3>2 DEF Receive, DrainStep, WorkerTypes
  <2> QED
    BY <1>a, <1>15, <2>3, <2>4, <2>5
       DEF Receive, DrainStep, ChannelTypes, ServeTypes, WorkerTypes, CallTypes, DispatchSet
<1>16. ASSUME NEW w \in Events, DrainStep(w), wIncoming[w] = <<>> PROVE T'
  <2>1. WorkerTypes'
    BY <1>a, <1>16 DEF DrainStep, WorkerTypes
  <2> QED
    BY <1>a, <1>16, <2>1 DEF DrainStep, ChannelTypes, ServeTypes, CallTypes, DispatchSet
<1>17. ASSUME NEW w \in Events, CloseWorker(w) PROVE T'
  <2>1. payload[w] \in Seq(Events) /\ EventsOf(payload[w]) \subseteq Events
    BY <1>a DEF EventsOf, ToSet, WorkerTypes
  <2>2. dropped' \subseteq Events \X DropReasons
    <3>1. {<<e, "outFull">> : e \in EventsOf(payload[w])} \subseteq Events \X DropReasons
      BY <2>1 DEF DropReasons
    <3> QED
      BY <1>a, <1>17, <3>1 DEF CloseWorker, Display, CallTypes
  <2>3. outComing' \in Seq(Seq(Events)) /\ Len(outComing') <= OutCap
    <3>1. CASE Len(outComing) < OutCap
      <4>1. Append(outComing, payload[w]) \in Seq(Seq(Events))
            /\ Len(Append(outComing, payload[w])) <= OutCap
        BY <1>a, <2>1, <3>1, Limits DEF ChannelTypes
      <4> QED
        BY <1>a, <1>17, <4>1 DEF CloseWorker, Display, ChannelTypes
    <3>2. CASE ~(Len(outComing) < OutCap)
      BY <1>a, <1>17, <3>2 DEF CloseWorker, Display, ChannelTypes
    <3> QED
      BY <3>1, <3>2
  <2>4. payload' \in [Events -> Seq(Events)]
    <3>1. <<>> \in Seq(Events)
      OBVIOUS
    <3> QED
      BY <1>a, <1>17, <3>1 DEF CloseWorker, Display, WorkerTypes
  <2>5. WorkerTypes'
    <3>1. 0 \in 0 .. MaxTickerCount + 1
      BY Limits
    <3>2. tickerCount' \in [Events -> 0 .. MaxTickerCount + 1]
      BY <1>a, <1>17, <3>1 DEF CloseWorker, WorkerTypes
    <3> QED
      BY <1>a, <1>17, <2>4, <3>2 DEF CloseWorker, WorkerTypes
  <2> QED
    BY <1>a, <1>17, <2>2, <2>3, <2>5
       DEF CloseWorker, ChannelTypes, ServeTypes, CallTypes, DispatchSet
<1>18. CASE UNCHANGED vars
  BY <1>a, <1>18 DEF vars, ChannelTypes, ServeTypes, WorkerTypes, CallTypes, DispatchSet
<1>19. ASSUME NEW w \in Events, Receive(w) PROVE T'
  BY <1>15, <1>19 DEF Receive
<1>20. ASSUME NEW w \in Events, DrainStep(w) PROVE T'
  BY <1>15, <1>16, <1>20 DEF DrainStep
<1> QED
  BY <1>1, <1>2, <1>3, <1>4, <1>5, <1>6, <1>7, <1>8, <1>9, <1>10, <1>11, <1>12,
     <1>13, <1>14, <1>17, <1>18, <1>19, <1>20 DEF Next, Serve, Worker

-----------------------------------------------------------------------------
(* Get() and Put().                                                        *)

\* A worker is in use exactly while dispatch() is between Get() and Put().
InUse == \A w \in Events : used[w] <=> dsp \in {"write", "put"} /\ curW = w

\* Get() meets a worker that is not in use and Put() one that is.
LEMMA InUseStep ==
    ASSUME Types, InUse, NoPanic, [Next]_vars
    PROVE  InUse' /\ NoPanic'
PROOF
<1> USE DEF InUse, NoPanic, epVars, serveVars, workerVars, callVars
<1>a. used \in [Events -> BOOLEAN]
  BY DEF Types, FlagTypes
<1>1. ASSUME NEW e \in Events, WriteCheck(e) \/ WriteSend(e) PROVE InUse' /\ NoPanic'
  BY <1>1 DEF WriteCheck, WriteSend
<1>2. ASSUME NEW s \in Socks, DestroyCheck(s) \/ DestroySend(s) PROVE InUse' /\ NoPanic'
  BY <1>2 DEF DestroyCheck, DestroySend
<1>3. ASSUME NEW c \in Callers, CloseCall(c) \/ CloseReturn(c) PROVE InUse' /\ NoPanic'
  BY <1>3 DEF CloseCall, CloseReturn
<1>4. CASE Dispatch
  <2>1. Head(incoming) \in Events
    BY <1>4, HeadTail DEF Dispatch, Types, ChannelTypes
  <2>2. CASE DispatchFound(Head(incoming))
    <3>1. workerQueue[UuidOf[Head(incoming)]] \in Events
      BY <2>1, <2>2, Limits DEF DispatchFound, Types, ServeTypes
    <3> QED
      BY <1>a, <1>4, <2>2, <3>1 DEF Dispatch, DispatchFound, Get
  <2>3. CASE DispatchNew(Head(incoming))
    BY <1>4, <2>3 DEF Dispatch, DispatchNew
  <2> QED
    BY <1>4, <2>2, <2>3 DEF Dispatch
<1>5. CASE AddWorker
  <2>1. curW \in Events
    BY <1>5 DEF AddWorker, Types, DispatchSet
  <2> QED
    BY <1>a, <1>5, <2>1 DEF AddWorker, Get
<1>6. CASE WorkerWrite
  BY <1>6 DEF WorkerWrite
<1>7. CASE PutWorker
  <2>1. curW \in Events
    BY <1>7 DEF PutWorker, Types, DispatchSet
  <2> QED
    BY <1>a, <1>7, <2>1 DEF PutWorker, Put
<1>8. CASE DestroyWorkers \/ Output \/ ServeClosed \/ DrainedIncoming \/ SignalWorkers
           \/ WorkersDone \/ ServeDone
  BY <1>8 DEF DestroyWorkers, Output, ServeClosed, DrainedIncoming, SignalWorkers,
              WorkersDone, ServeDone
<1>9. ASSUME NEW w \in Events, Worker(w) PROVE InUse' /\ NoPanic'
  BY <1>9 DEF Worker, Tick, Receive, CloseSignal, DelWorker, DrainStep, StillUsed, CloseWorker
<1>10. CASE UNCHANGED vars
  BY <1>10 DEF vars
<1> QED
  BY <1>1, <1>2, <1>3, <1>4, <1>5, <1>6, <1>7, <1>8, <1>9, <1>10 DEF Next, Serve

-----------------------------------------------------------------------------
(* One worker per UUID.                                                    *)

\* Where a worker has not yet called delWorkerByUUID().
Live == {"run", "idleDrain", "idleUsed", "del"}

\* A worker that has not yet taken itself out of workerQueue is there, unless
\* dispatch() has started it and not yet put it there; while dispatch() has a
\* worker to add, its UUID has none.
Listed ==
    /\ \A w \in Events :
          wpc[w] \in Live => workerQueue[UuidOf[w]] = w \/ (dsp = "add" /\ curW = w)
    /\ dsp = "add" => workerQueue[UuidOf[curW]] = NoEvent

\* Workers of the same UUID do not share its place in workerQueue.
LEMMA ListedSuffices == Types /\ Listed => OneWorkerPerUUID
PROOF
<1> SUFFICES ASSUME Types, Listed, NEW v \in Events, NEW w \in Events,
                    v # w, UuidOf[v] = UuidOf[w], wpc[v] \in {"run", "idleDrain", "idleUsed"},
                    wpc[w] \in Live
             PROVE  FALSE
  BY DEF OneWorkerPerUUID, Types, WorkerTypes, Live
<1>1. wpc[v] \in Live
  BY DEF Live
<1> QED
  BY <1>1, Limits DEF Listed

\* Every step keeps Listed.
LEMMA ListedStep ==
    ASSUME Types, Listed, [Next]_vars
    PROVE  Listed'
PROOF
<1> USE DEF Listed, Live, epVars, serveVars, workerVars, callVars
<1>a. /\ wpc \in [Events -> {"none", "run", "del", "drain", "used",
                             "idleDrain", "idleUsed", "done"}]
      /\ workerQueue \in [UUIDs -> Events \cup {NoEvent}]
      /\ UuidOf \in [Events -> UUIDs] /\ NoEvent \notin Events
  BY Limits DEF Types, WorkerTypes, ServeTypes
<1>1. ASSUME NEW e \in Events, WriteCheck(e) \/ WriteSend(e) PROVE Listed'
  BY <1>1 DEF WriteCheck, WriteSend
<1>2. ASSUME NEW s \in Socks, DestroyCheck(s) \/ DestroySend(s) PROVE Listed'
  BY <1>2 DEF DestroyCheck, DestroySend
<1>3. ASSUME NEW c \in Callers, CloseCall(c) \/ CloseReturn(c) PROVE Listed'
  BY <1>3 DEF CloseCall, CloseReturn
<1>4. CASE Dispatch
  <2>1. Head(incoming) \in Events
    BY <1>4, HeadTail DEF Dispatch, Types, ChannelTypes
  <2>2. CASE DispatchFound(Head(incoming))
    BY <1>4, <2>2 DEF Dispatch, DispatchFound
  <2>3. CASE DispatchNew(Head(incoming))
    BY <1>a, <1>4, <2>1, <2>3 DEF Dispatch, DispatchNew
  <2> QED
    BY <1>4, <2>2, <2>3 DEF Dispatch
<1>5. CASE AddWorker
  <2>1. curW \in Events
    BY <1>5 DEF AddWorker, Types, DispatchSet
  <2>2. ASSUME NEW w \in Events, wpc[w] \in Live PROVE workerQueue'[UuidOf[w]] = w
    BY <1>a, <1>5, <2>1, <2>2 DEF AddWorker
  <2> QED
    BY <1>5, <2>2 DEF AddWorker
<1>6. CASE WorkerWrite \/ PutWorker
  BY <1>6 DEF WorkerWrite, PutWorker
<1>7. CASE DestroyWorkers \/ Output \/ ServeClosed \/ DrainedIncoming \/ SignalWorkers
           \/ WorkersDone \/ ServeDone
  BY <1>7 DEF DestroyWorkers, Output, ServeClosed, DrainedIncoming, SignalWorkers,
              WorkersDone, ServeDone
<1>8. ASSUME NEW w \in Events, DelWorker(w) PROVE Listed'
  <2>1. ASSUME NEW v \in Events, wpc'[v] \in Live
        PROVE  workerQueue'[UuidOf[v]] = v \/ (dsp' = "add" /\ curW' = v)
    <3>1. v # w /\ wpc[v] \in Live /\ wpc[w] \in Live
      BY <1>a, <1>8, <2>1 DEF DelWorker
    <3>2. CASE UuidOf[v] # UuidOf[w]
      BY <1>a, <1>8, <3>1, <3>2 DEF DelWorker
    <3>3. CASE UuidOf[v] = UuidOf[w]
      BY <1>a, <1>8, <3>1, <3>3 DEF DelWorker
    <3> QED
      BY <3>2, <3>3
  <2>2. dsp' = "add" => workerQueue'[UuidOf[curW']] = NoEvent
    BY <1>a, <1>8 DEF DelWorker, Types, DispatchSet
  <2> QED
    BY <2>1, <2>2
<1>9. ASSUME NEW w \in Events, Tick(w) \/ Receive(w) \/ CloseSignal(w) \/ DrainStep(w)
                                 \/ StillUsed(w) \/ CloseWorker(w)
      PROVE  Listed'
  <2>1. \A v \in Events : wpc'[v] \in Live => wpc[v] \in Live
    BY <1>a, <1>9 DEF Tick, Receive, CloseSignal, DrainStep, StillUsed, CloseWorker
  <2>2. UNCHANGED <<workerQueue, dsp, curW>>
    BY <1>9 DEF Tick, Receive, CloseSignal, DrainStep, StillUsed, CloseWorker
  <2> QED
    BY <2>1, <2>2
<1>10. CASE UNCHANGED vars
  BY <1>10 DEF vars
<1> QED
  BY <1>1, <1>2, <1>3, <1>4, <1>5, <1>6, <1>7, <1>8, <1>9, <1>10 DEF Next, Serve, Worker

-----------------------------------------------------------------------------
(* Sock workers stay until their socket is destroyed.                      *)

\* Where drain() has told the Sock workers to close.
Signalled == {"wait", "flush", "done"}

\* What is in destroyConn was sent by a WriteDestroyConn() that has returned,
\* and only that, or drain(), closes a worker's closeChan.
ClosedForReason ==
    /\ \A i \in DOMAIN destroyConn : destroyer[destroyConn[i]] = "done"
    /\ \A w \in Events : wClosed[w] =>
          Sock(w) /\ (destroyer[SockOf[UuidOf[w]]] = "done" \/ serve \in Signalled)

\* Every step keeps the reasons.
LEMMA ClosedStep ==
    ASSUME Types, ClosedForReason, SockWorkerPersists, [Next]_vars
    PROVE  ClosedForReason' /\ SockWorkerPersists'
PROOF
<1> DEFINE Goal == ClosedForReason' /\ SockWorkerPersists'
<1> USE DEF Signalled, epVars, serveVars, workerVars, callVars
<1>a. /\ wpc \in [Events -> {"none", "run", "del", "drain", "used",
                             "idleDrain", "idleUsed", "done"}]
      /\ destroyConn \in Seq(Socks)
      /\ destroyer \in [Socks -> {"idle", "checked", "refused", "done"}]
      /\ wClosed \in [Events -> BOOLEAN]
  BY DEF Types, WorkerTypes, CallTypes, ChannelTypes, FlagTypes
<1>b. \A w \in Events : Sock(w) => SockOf[UuidOf[w]] \in Socks
  BY Limits DEF Sock, Socks
<1>1. ASSUME NEW e \in Events, WriteCheck(e) \/ WriteSend(e) PROVE Goal
  BY <1>1 DEF WriteCheck, WriteSend, ClosedForReason, SockWorkerPersists
<1>2. ASSUME NEW s \in Socks, DestroyCheck(s) PROVE Goal
  <2>1. \A t \in Socks : destroyer[t] = "done" => destroyer'[t] = "done"
    BY <1>a, <1>2 DEF DestroyCheck
  <2>2. \A i \in DOMAIN destroyConn : destroyConn[i] \in Socks
    BY <1>a
  <2> QED
    BY <1>b, <1>2, <2>1, <2>2 DEF DestroyCheck, ClosedForReason, SockWorkerPersists
<1>3. ASSUME NEW s \in Socks, DestroySend(s) PROVE Goal
  <2>1. (\A t \in Socks : destroyer[t] = "done" => destroyer'[t] = "done")
        /\ destroyer'[s] = "done"
    BY <1>a, <1>3 DEF DestroySend
  <2>2. ASSUME NEW i \in DOMAIN destroyConn' PROVE destroyer'[destroyConn'[i]] = "done"
    <3>1. \/ i \in DOMAIN destroyConn /\ destroyConn'[i] = destroyConn[i]
          \/ destroyConn'[i] = s
      BY <1>a, <1>3 DEF DestroySend
    <3>2. \A k \in DOMAIN destroyConn : destroyConn[k] \in Socks
      BY <1>a
    <3> QED
      BY <2>1, <3>1, <3>2 DEF ClosedForReason
  <2>3. UNCHANGED <<wClosed, serve, wpc>>
    BY <1>3 DEF DestroySend
  <2>4. \A w \in Events : wClosed'[w] =>
          Sock(w) /\ (destroyer'[SockOf[UuidOf[w]]] = "done" \/ serve' \in Signalled)
    BY <1>b, <2>1, <2>3 DEF ClosedForReason
  <2>5. SockWorkerPersists'
    BY <1>b, <2>1, <2>3 DEF SockWorkerPersists
  <2> QED
    BY <2>2, <2>4, <2>5 DEF ClosedForReason
<1>4. ASSUME NEW c \in Callers, CloseCall(c) \/ CloseReturn(c) PROVE Goal
  BY <1>4 DEF CloseCall, CloseReturn, ClosedForReason, SockWorkerPersists
<1>5. CASE Dispatch
  <2>1. UNCHANGED <<destroyConn, destroyer, wClosed, serve>>
    BY <1>5 DEF Dispatch
  <2>2. ASSUME NEW w \in Events, wpc'[w] \in {"del", "drain", "used", "done"}
        PROVE  wpc[w] \in {"del", "drain", "used", "done"}
    BY <1>a, <1>5, <2>2 DEF Dispatch, DispatchFound, DispatchNew
  <2> QED
    BY <2>1, <2>2 DEF ClosedForReason, SockWorkerPersists
<1>6. CASE AddWorker \/ WorkerWrite \/ PutWorker \/ Output
  BY <1>6 DEF AddWorker, WorkerWrite, PutWorker, Output, ClosedForReason, SockWorkerPersists
<1>7. CASE DestroyWorkers
  <2>1. Len(destroyConn) \in Nat \ {0} /\ Head(destroyConn) = destroyConn[1]
        /\ 1 \in DOMAIN destroyConn
        /\ \A i \in DOMAIN Tail(destroyConn) :
              i + 1 \in DOMAIN destroyConn /\ Tail(destroyConn)[i] = destroyConn[i + 1]
    BY <1>a, <1>7 DEF DestroyWorkers
  <2>2. \A i \in DOMAIN destroyConn' : destroyer'[destroyConn'[i]] = "done"
    BY <1>7, <2>1 DEF DestroyWorkers, ClosedForReason
  <2>3. ASSUME NEW w \in Events, wClosed'[w]
        PROVE  wClosed[w] \/ (Sock(w) /\ SockOf[UuidOf[w]] = Head(destroyConn))
    BY <1>7, <2>3 DEF DestroyWorkers, Closing
  <2>4. destroyer[Head(destroyConn)] = "done"
    BY <2>1 DEF ClosedForReason
  <2>5. UNCHANGED <<destroyer, serve, wpc>>
    BY <1>7 DEF DestroyWorkers
  <2> QED
    BY <2>2, <2>3, <2>4, <2>5 DEF ClosedForReason, SockWorkerPersists
<1>8. CASE ServeClosed \/ DrainedIncoming \/ WorkersDone \/ ServeDone
  BY <1>8 DEF ServeClosed, DrainedIncoming, WorkersDone, ServeDone, ClosedForReason,
              SockWorkerPersists
<1>9. CASE SignalWorkers
  BY <1>9 DEF SignalWorkers, Closing, ClosedForReason, SockWorkerPersists
<1>10. ASSUME NEW w \in Events, Worker(w) PROVE Goal
  <2>1. UNCHANGED <<destroyConn, destroyer, wClosed, serve>>
    BY <1>10 DEF Worker, Tick, Receive, CloseSignal, DelWorker, DrainStep, StillUsed, CloseWorker
  <2>2. ASSUME NEW v \in Events, Sock(v), wpc'[v] \in {"del", "drain", "used", "done"}
        PROVE  wpc[v] \in {"del", "drain", "used", "done"} \/ wClosed[v]
    <3>1. CASE Tick(w)
      BY <1>a, <2>2, <3>1 DEF Tick
    <3>2. CASE Receive(w)
      BY <1>a, <2>2, <3>2 DEF Receive
    <3>3. CASE CloseSignal(w)
      BY <1>a, <2>2, <3>3 DEF CloseSignal
    <3>4. CASE DelWorker(w) \/ DrainStep(w) \/ StillUsed(w) \/ CloseWorker(w)
      BY <1>a, <2>2, <3>4 DEF DelWorker, DrainStep, StillUsed, CloseWorker
    <3> QED
      BY <1>10, <3>1, <3>2, <3>3, <3>4 DEF Worker
  <2> QED
    BY <2>1, <2>2 DEF ClosedForReason, SockWorkerPersists
<1>11. CASE UNCHANGED vars
  BY <1>11 DEF vars, ClosedForReason, SockWorkerPersists
<1> QED
  BY <1>1, <1>2, <1>3, <1>4, <1>5, <1>6, <1>7, <1>8, <1>9, <1>10, <1>11 DEF Next, Serve

-----------------------------------------------------------------------------
(* Nothing is left when Serve() has returned.                              *)

\* A worker that does not run has no payload; none runs after wg.Wait(), and
\* so none fills outComing again.
Quiet ==
    /\ \A w \in Events : wpc[w] \in {"none", "done"} => payload[w] = <<>>
    /\ serve \in {"flush", "done"} => \A w \in Events : wpc[w] \in {"none", "done"}
    /\ serve = "done" => outComing = <<>>

\* Serve() returns after wg.Wait() and the flush.
LEMMA QuietSuffices == Quiet => FlushedWhenDone
PROOF
  BY DEF Quiet, FlushedWhenDone

\* Every step keeps Quiet.
LEMMA QuietStep ==
    ASSUME Types, Quiet, [Next]_vars
    PROVE  Quiet'
PROOF
<1> USE DEF Quiet, epVars, serveVars, workerVars, callVars
<1>a. /\ wpc \in [Events -> {"none", "run", "del", "drain", "used",
                             "idleDrain", "idleUsed", "done"}]
      /\ payload \in [Events -> Seq(Events)]
  BY DEF Types, WorkerTypes
<1>1. ASSUME NEW e \in Events, WriteCheck(e) \/ WriteSend(e) PROVE Quiet'
  BY <1>1 DEF WriteCheck, WriteSend
<1>2. ASSUME NEW s \in Socks, DestroyCheck(s) \/ DestroySend(s) PROVE Quiet'
  BY <1>2 DEF DestroyCheck, DestroySend
<1>3. ASSUME NEW c \in Callers, CloseCall(c) \/ CloseReturn(c) PROVE Quiet'
  BY <1>3 DEF CloseCall, CloseReturn
<1>4. CASE Dispatch
  <2>1. \A w \in Events : wpc'[w] \in {"none", "done"} => wpc[w] \in {"none", "done"}
    BY <1>a, <1>4 DEF Dispatch, DispatchFound, DispatchNew
  <2>2. UNCHANGED <<payload, serve, outComing>> /\ serve \in {"select", "drain"}
    BY <1>4 DEF Dispatch
  <2> QED
    BY <2>1, <2>2
<1>5. CASE AddWorker \/ WorkerWrite \/ PutWorker \/ DestroyWorkers
  BY <1>5 DEF AddWorker, WorkerWrite, PutWorker, DestroyWorkers
<1>6. CASE Output
  BY <1>6 DEF Output
<1>7. CASE ServeClosed \/ DrainedIncoming \/ SignalWorkers \/ WorkersDone \/ ServeDone
  BY <1>7 DEF ServeClosed, DrainedIncoming, SignalWorkers, WorkersDone, ServeDone
<1>8. ASSUME NEW w \in Events, Worker(w) PROVE Quiet'
  <2>1. wpc[w] \notin {"none", "done"} /\ UNCHANGED serve
    BY <1>8 DEF Worker, Tick, Receive, CloseSignal, DelWorker, DrainStep, StillUsed, CloseWorker
  <2>2. serve \notin {"flush", "done"}
    BY <2>1
  <2>3. \A v \in Events : v # w => wpc'[v] = wpc[v] /\ payload'[v] = payload[v]
    BY <1>a, <1>8 DEF Worker, Tick, Receive, CloseSignal, DelWorker, DrainStep, StillUsed,
                      CloseWorker, WriteEvent, Display
  <2>4. wpc'[w] \in {"none", "done"} => payload'[w] = <<>>
    BY <1>a, <1>8, <2>1 DEF Worker, Tick, Receive, CloseSignal, DelWorker, DrainStep, StillUsed,
                      CloseWorker, Display
  <2> QED
    BY <2>1, <2>2, <2>3, <2>4
<1>9. CASE UNCHANGED vars
  BY <1>9 DEF vars
<1> QED
  BY <1>1, <1>2, <1>3, <1>4, <1>5, <1>6, <1>7, <1>8, <1>9 DEF Next, Serve

-----------------------------------------------------------------------------
(* Every event is in exactly one place.                                    *)

\* No element stands twice in s.
Distinct(s) == \A i, j \in DOMAIN s : s[i] = s[j] => i = j

\* The elements of a sequence to which one is appended.
LEMMA AppendElements ==
    ASSUME NEW S, NEW s \in Seq(S), NEW a \in S
    PROVE  /\ ToSet(Append(s, a)) = ToSet(s) \cup {a}
           /\ Distinct(s) /\ a \notin ToSet(s) => Distinct(Append(s, a))
PROOF
<1>1. /\ Len(s) \in Nat /\ DOMAIN s = 1 .. Len(s)
      /\ DOMAIN Append(s, a) = 1 .. Len(s) + 1
      /\ \A i \in 1 .. Len(s) : Append(s, a)[i] = s[i]
      /\ Append(s, a)[Len(s) + 1] = a
  OBVIOUS
<1>2. \A i \in 1 .. Len(s) + 1 : i \in 1 .. Len(s) \/ i = Len(s) + 1
  BY <1>1
<1>3. \A i \in 1 .. Len(s) : i \in 1 .. Len(s) + 1
  BY <1>1
<1>4. Len(s) + 1 \in 1 .. Len(s) + 1
  BY <1>1
<1>5. ToSet(Append(s, a)) = ToSet(s) \cup {a}
  BY <1>1, <1>2, <1>3, <1>4 DEF ToSet
<1>6. ASSUME Distinct(s), a \notin ToSet(s) PROVE Distinct(Append(s, a))
  BY <1>1, <1>2, <1>6 DEF Distinct, ToSet
<1> QED
  BY <1>5, <1>6

\* The tail of a sequence without duplicates has the elements except the head.
LEMMA TailElements ==
    ASSUME NEW S, NEW s \in Seq(S), s # <<>>, Distinct(s)
    PROVE  /\ ToSet(Tail(s)) = ToSet(s) \ {Head(s)} /\ Head(s) \in ToSet(s)
           /\ Distinct(Tail(s))
PROOF
<1>1. /\ Len(s) \in Nat \ {0} /\ DOMAIN s = 1 .. Len(s)
      /\ DOMAIN Tail(s) = 1 .. Len(s) - 1
      /\ \A i \in DOMAIN Tail(s) : Tail(s)[i] = s[i + 1] /\ i + 1 \in DOMAIN s /\ i + 1 # 1
      /\ Head(s) = s[1] /\ 1 \in DOMAIN s
  OBVIOUS
<1>2. \A i \in DOMAIN s : i = 1 \/ (i - 1 \in DOMAIN Tail(s) /\ s[i] = Tail(s)[i - 1])
  BY <1>1
<1>3. \A i, j \in DOMAIN Tail(s) : i + 1 = j + 1 => i = j
  BY <1>1
<1>4. Head(s) \in ToSet(s)
  BY <1>1 DEF ToSet
<1>5. ToSet(Tail(s)) = ToSet(s) \ {Head(s)}
  <2>1. ASSUME NEW a \in ToSet(Tail(s)) PROVE a \in ToSet(s) \ {Head(s)}
    BY <1>1, <2>1 DEF ToSet, Distinct
  <2>2. ASSUME NEW a \in ToSet(s), a # Head(s) PROVE a \in ToSet(Tail(s))
    <3>1. PICK i \in DOMAIN s : s[i] = a
      BY <2>2 DEF ToSet
    <3>2. i # 1
      BY <1>1, <2>2, <3>1
    <3>3. i - 1 \in DOMAIN Tail(s) /\ Tail(s)[i - 1] = a
      BY <1>2, <3>1, <3>2
    <3> QED
      BY <3>3 DEF ToSet
  <2> QED
    BY <2>1, <2>2
<1>6. Distinct(Tail(s))
  BY <1>1, <1>3 DEF Distinct
<1> QED
  BY <1>4, <1>5, <1>6

\* What was displayed, in order: the chunks logged and those still to be.
Chunks == logger \o outComing

\* The event e is in the place x of kind k.
At(e, k, x) ==
    \/ k = "queue" /\ x = NoEvent /\ e \in EventsOf(incoming)
    \/ k = "dispatch" /\ x = NoEvent /\ InDispatch(e)
    \/ k = "worker" /\ x \in Events /\ e \in EventsOf(wIncoming[x])
    \/ k = "payload" /\ x \in Events /\ e \in EventsOf(payload[x])
    \/ k = "chunk" /\ x \in DOMAIN Chunks /\ e \in EventsOf(Chunks[x])
    \/ k = "dropped" /\ x = NoEvent /\ WasDropped(e)

\* An event has at most one place; none before Write() returns and one from
\* then on, unless it is empty.
OnePlace ==
    /\ \A e \in Events : \A k, x, l, y : At(e, k, x) /\ At(e, l, y) => k = l /\ x = y
    /\ \A e \in Events : writer[e] # "done" => \A k, x : ~At(e, k, x)
    /\ \A e \in Events : writer[e] = "done" /\ Size[e] > 0 => \E k, x : At(e, k, x)

\* The queues have no duplicates.
QueuesDistinct ==
    /\ Distinct(incoming)
    /\ \A w \in Events : Distinct(wIncoming[w])

\* What is in a payload is also in the part of it that a truncation keeps.
TruncationKeeps ==
    TruncateSize > 0 => \A w \in Events : \A i \in DOMAIN payload[w] :
        \E j \in DOMAIN payload[w] : j <= TruncateSize /\ payload[w][j] = payload[w][i]

\* A step moves the event e to the place y of kind l.
Moved(e, l, y) ==
    \A a \in Events : \A k, x :
        At(a, k, x)' <=> IF a = e THEN k = l /\ x = y ELSE At(a, k, x)

\* A step moves what is in the payload of worker w there.
PayloadMoved(w, l, y) ==
    \A a \in Events : \A k, x :
        At(a, k, x)' <=> IF At(a, "payload", w) THEN k = l /\ x = y ELSE At(a, k, x)

\* A step forgets the event e.
Forgotten(e) == \A a \in Events : \A k, x : At(a, k, x)' <=> a # e /\ At(a, k, x)

\* A step that moves one event to one place keeps OnePlace.
LEMMA MovesOne ==
    ASSUME OnePlace, NEW e \in Events, NEW l, NEW y, Moved(e, l, y), writer'[e] = "done",
           \A a \in Events : a # e => writer'[a] = writer[a]
    PROVE  OnePlace'
PROOF
<1>1. \A a \in Events : \A k, x, m, z : At(a, k, x)' /\ At(a, m, z)' => k = m /\ x = z
  BY DEF OnePlace, Moved
<1>2. \A a \in Events : writer'[a] # "done" => \A k, x : ~At(a, k, x)'
  BY DEF OnePlace, Moved
<1>3. \A a \in Events : writer'[a] = "done" /\ Size[a] > 0 => \E k, x : At(a, k, x)'
  BY DEF OnePlace, Moved
<1> QED
  BY <1>1, <1>2, <1>3, Zenon DEF OnePlace

\* A step that forgets an empty event.
LEMMA Forgets ==
    ASSUME OnePlace, NEW e \in Events, Forgotten(e), Size[e] = 0, writer[e] = "done",
           writer' = writer
    PROVE  OnePlace'
PROOF
<1>1. \A a \in Events : \A k, x, m, z : At(a, k, x)' /\ At(a, m, z)' => k = m /\ x = z
  BY DEF OnePlace, Forgotten
<1>2. \A a \in Events : writer'[a] # "done" => \A k, x : ~At(a, k, x)'
  BY DEF OnePlace, Forgotten
<1>3. \A a \in Events : writer'[a] = "done" /\ Size[a] > 0 => \E k, x : At(a, k, x)'
  BY DEF OnePlace, Forgotten
<1> QED
  BY <1>1, <1>2, <1>3, Zenon DEF OnePlace

\* A step that moves what is in one worker's payload to one place.
LEMMA MovesPayload ==
    ASSUME OnePlace, NEW w \in Events, NEW l, NEW y, PayloadMoved(w, l, y), writer' = writer
    PROVE  OnePlace'
PROOF
<1>1. \A a \in Events : \A k, x, m, z : At(a, k, x)' /\ At(a, m, z)' => k = m /\ x = z
  BY DEF OnePlace, PayloadMoved
<1>2. \A a \in Events : writer'[a] # "done" => \A k, x : ~At(a, k, x)'
  BY DEF OnePlace, PayloadMoved
<1>3. \A a \in Events : writer'[a] = "done" /\ Size[a] > 0 => \E k, x : At(a, k, x)'
  BY DEF OnePlace, PayloadMoved
<1> QED
  BY <1>1, <1>2, <1>3, Zenon DEF OnePlace

\* What is invariant of the places of the events.
Placed == OnePlace /\ QueuesDistinct /\ TruncationKeeps

\* The variables that make up the places.
placeVars == <<incoming, cur, dsp, wIncoming, payload, logger, outComing, dropped>>

\* A step that touches none of the places moves nothing.
LEMMA Stays ==
    ASSUME Placed, UNCHANGED placeVars,
           \A e \in Events : writer'[e] = "done" <=> writer[e] = "done"
    PROVE  Placed'
PROOF
<1>1. \A e \in Events : \A k, x : At(e, k, x)' <=> At(e, k, x)
  BY DEF placeVars, At, EventsOf, InDispatch, WasDropped, Chunks
<1>2. OnePlace'
  <2>1. \A a \in Events : \A k, x, m, z : At(a, k, x)' /\ At(a, m, z)' => k = m /\ x = z
    BY <1>1 DEF Placed, OnePlace
  <2>2. \A a \in Events : writer'[a] # "done" => \A k, x : ~At(a, k, x)'
    BY <1>1 DEF Placed, OnePlace
  <2>3. \A a \in Events : writer'[a] = "done" /\ Size[a] > 0 => \E k, x : At(a, k, x)'
    BY <1>1 DEF Placed, OnePlace
  <2> QED
    BY <2>1, <2>2, <2>3, Zenon DEF OnePlace
<1> QED
  BY <1>2 DEF Placed, QueuesDistinct, TruncationKeeps, placeVars

\* After the drop of e, what was dropped is e and what was dropped before.
LEMMA DropOne ==
    ASSUME NEW e, NEW r \in DropReasons, dropped' = dropped \cup {<<e, r>>}
    PROVE  \A a : WasDropped(a)' <=> WasDropped(a) \/ a = e
PROOF
  BY DEF WasDropped

\* Write() drops the event, or puts it into incoming.
LEMMA PlacedWrite ==
    ASSUME Types, Placed, NEW e \in Events, WriteCheck(e) \/ WriteSend(e)
    PROVE  Placed'
PROOF
<1> USE DEF epVars, serveVars, workerVars, callVars
<1>a. writer \in [Events -> {"idle", "checked", "done"}]
  BY DEF Types, CallTypes
<1>b. writer[e] # "done"
  BY DEF WriteCheck, WriteSend
<1>c. \A k, x : ~At(e, k, x)
  BY <1>b DEF Placed, OnePlace
<1>d. \A a \in Events : a # e => writer'[a] = writer[a]
  BY <1>a DEF WriteCheck, WriteSend
<1>e. UNCHANGED <<cur, dsp, wIncoming, payload, logger, outComing>>
  BY DEF WriteCheck, WriteSend
<1>1. ASSUME NEW r \in DropReasons, dropped' = dropped \cup {<<e, r>>}, UNCHANGED incoming,
             writer'[e] = "done"
      PROVE  Placed'
  <2>1. \A a : WasDropped(a)' <=> WasDropped(a) \/ a = e
    BY <1>1, DropOne
  <2>2. Chunks' = Chunks
    BY <1>e DEF Chunks
  <2>3. Moved(e, "dropped", NoEvent)
    BY <1>c, <1>e, <1>1, <2>1, <2>2 DEF Moved, At, EventsOf, InDispatch
  <2>4. OnePlace'
    BY <1>d, <1>1, <2>3, MovesOne DEF Placed
  <2> QED
    BY <1>e, <1>1, <2>4 DEF Placed, QueuesDistinct, TruncationKeeps
<1>2. ASSUME UNCHANGED <<incoming, dropped>>, writer'[e] # "done"
      PROVE  Placed'
  BY <1>b, <1>d, <1>e, <1>2, Stays DEF placeVars
<1>3. ASSUME incoming' = Append(incoming, e), UNCHANGED dropped, writer'[e] = "done"
      PROVE  Placed'
  <2>1. e \notin ToSet(incoming)
    BY <1>c DEF At, EventsOf
  <2>2. ToSet(incoming') = ToSet(incoming) \cup {e} /\ Distinct(incoming')
    BY <1>3, <2>1, AppendElements DEF Types, ChannelTypes, Placed, QueuesDistinct
  <2>3. Chunks' = Chunks /\ \A a : WasDropped(a)' <=> WasDropped(a)
    BY <1>e, <1>3 DEF Chunks, WasDropped
  <2>4. Moved(e, "queue", NoEvent)
    BY <1>c, <1>e, <2>2, <2>3 DEF Moved, At, EventsOf, InDispatch
  <2>5. OnePlace'
    BY <1>d, <1>3, <2>4, MovesOne DEF Placed
  <2> QED
    BY <1>e, <2>2, <2>5 DEF Placed, QueuesDistinct, TruncationKeeps
<1>4. CASE WriteCheck(e)
  <2>1. CASE isClosed
    <3>1. "closed" \in DropReasons
      BY DEF DropReasons
    <3> QED
      BY <1>a, <1>4, <2>1, <3>1, <1>1 DEF WriteCheck
  <2>2. CASE ~isClosed
    BY <1>a, <1>4, <2>2, <1>2 DEF WriteCheck
  <2> QED
    BY <2>1, <2>2
<1>5. CASE WriteSend(e)
  <2>1. CASE Len(incoming) < IncomingCap
    BY <1>a, <1>5, <2>1, <1>3 DEF WriteSend
  <2>2. CASE ~(Len(incoming) < IncomingCap)
    <3>1. "full" \in DropReasons
      BY DEF DropReasons
    <3> QED
      BY <1>a, <1>5, <2>2, <3>1, <1>1 DEF WriteSend
  <2> QED
    BY <2>1, <2>2
<1> QED
  BY <1>4, <1>5

\* dispatch() takes the event from incoming.
LEMMA PlacedDispatch ==
    ASSUME Types, Placed, Dispatch
    PROVE  Placed'
PROOF
<1>0. PICK h : h = Head(incoming)
  OBVIOUS
<1>1. /\ ToSet(incoming') = ToSet(incoming) \ {h} /\ h \in ToSet(incoming)
      /\ Distinct(incoming') /\ h \in Events
  BY <1>0, TailElements, HeadTail DEF Dispatch, Types, ChannelTypes, Placed, QueuesDistinct
<1>2. /\ cur' = h /\ dsp = "none" /\ dsp' \in {"add", "write"}
      /\ UNCHANGED <<wIncoming, payload, logger, outComing, dropped, writer>>
  BY <1>0 DEF Dispatch, DispatchFound, DispatchNew, callVars
<1>4. At(h, "queue", NoEvent)
  BY <1>1 DEF At, EventsOf
<1>5. \A k, x : At(h, k, x) => k = "queue" /\ x = NoEvent
  BY <1>1, <1>4 DEF Placed, OnePlace
<1>6. Moved(h, "dispatch", NoEvent)
  <2>1. /\ \A x \in Events : h \notin ToSet(wIncoming[x]) /\ h \notin ToSet(payload[x])
        /\ \A x \in DOMAIN Chunks : h \notin ToSet(Chunks[x])
        /\ ~WasDropped(h)
    BY <1>5 DEF At, EventsOf
  <2>2. Chunks' = Chunks /\ \A a : WasDropped(a)' <=> WasDropped(a)
    BY <1>2 DEF Chunks, WasDropped
  <2> QED
    BY <1>1, <1>2, <2>1, <2>2 DEF Moved, At, EventsOf, InDispatch
<1>7. writer[h] = "done"
  BY <1>1, <1>4 DEF Placed, OnePlace
<1>8. OnePlace'
  BY <1>1, <1>2, <1>6, <1>7, MovesOne DEF Placed
<1> QED
  BY <1>1, <1>2, <1>8 DEF Placed, QueuesDistinct, TruncationKeeps

\* eWorker.Write() puts it into the worker's queue, or drops it.
LEMMA PlacedWorkerWrite ==
    ASSUME Types, Placed, WorkerWrite
    PROVE  Placed'
PROOF
<1>0. PICK e, v : e = cur /\ v = curW
  OBVIOUS
<1>1. /\ e \in Events /\ v \in Events /\ curW = v /\ dsp = "write" /\ dsp' = "put" /\ cur = e /\ cur' = e
      /\ wIncoming \in [Events -> Seq(Events)] /\ wIncoming[v] \in Seq(Events)
      /\ UNCHANGED <<incoming, payload, logger, outComing, writer>>
  BY <1>0 DEF WorkerWrite, Types, DispatchSet, WorkerTypes, callVars
<1>2. At(e, "dispatch", NoEvent)
  BY <1>1 DEF At, InDispatch
<1>3. \A k, x : At(e, k, x) => k = "dispatch" /\ x = NoEvent
  BY <1>1, <1>2 DEF Placed, OnePlace
<1>4. /\ e \notin ToSet(incoming)
      /\ \A x \in Events : e \notin ToSet(wIncoming[x]) /\ e \notin ToSet(payload[x])
      /\ \A x \in DOMAIN Chunks : e \notin ToSet(Chunks[x])
      /\ ~WasDropped(e)
  BY <1>3 DEF At, EventsOf
<1>5. writer[e] = "done"
  BY <1>1, <1>2 DEF Placed, OnePlace
<1>6. e \in Events /\ writer' = writer /\ OnePlace
  BY <1>1 DEF Placed
<1>7. CASE Len(wIncoming[v]) < ChanCap
  <2>1. wIncoming' = [wIncoming EXCEPT ![v] = Append(wIncoming[v], e)]
        /\ UNCHANGED dropped
    BY <1>1, <1>7 DEF WorkerWrite
  <2>2. /\ ToSet(wIncoming'[v]) = ToSet(wIncoming[v]) \cup {e}
        /\ Distinct(wIncoming'[v])
    BY <1>1, <1>4, <2>1, AppendElements DEF Placed, QueuesDistinct
  <2>3. \A u \in Events : u # v => wIncoming'[u] = wIncoming[u]
    BY <1>1, <2>1
  <2>4. Chunks' = Chunks /\ \A a : WasDropped(a)' <=> WasDropped(a)
    BY <1>1, <2>1 DEF Chunks, WasDropped
  <2>5. Moved(e, "worker", v)
    BY <1>1, <1>4, <2>2, <2>3, <2>4 DEF Moved, At, EventsOf, InDispatch
  <2>6. OnePlace'
    BY <1>5, <1>6, <2>5, MovesOne
  <2> QED
    BY <1>1, <2>2, <2>3, <2>6 DEF Placed, QueuesDistinct, TruncationKeeps
<1>8. CASE ~(Len(wIncoming[v]) < ChanCap)
  <2>1. dropped' = dropped \cup {<<e, "workerFull">>} /\ UNCHANGED wIncoming
        /\ "workerFull" \in DropReasons
    BY <1>1, <1>8 DEF WorkerWrite, DropReasons
  <2>2. \A a : WasDropped(a)' <=> WasDropped(a) \/ a = e
    BY <2>1, DropOne
  <2>3. Chunks' = Chunks
    BY <1>1 DEF Chunks
  <2>4. Moved(e, "dropped", NoEvent)
    BY <1>1, <1>4, <2>1, <2>2, <2>3 DEF Moved, At, EventsOf, InDispatch
  <2>5. OnePlace'
    BY <1>5, <1>6, <2>4, MovesOne
  <2> QED
    BY <1>1, <2>1, <2>5 DEF Placed, QueuesDistinct, TruncationKeeps
<1> QED
  BY <1>7, <1>8

\* Serve() logs a chunk: the sequence of all chunks is the same.
LEMMA PlacedOutput ==
    ASSUME Types, Placed, Output
    PROVE  Placed'
PROOF
<1>1. outComing \in Seq(Seq(Events)) /\ logger \in Seq(Seq(Events)) /\ outComing # <<>>
      /\ logger' = Append(logger, Head(outComing)) /\ outComing' = Tail(outComing)
  BY DEF Types, ChannelTypes, Output
<1>2. Chunks' = Chunks
  BY <1>1, SMTT(30) DEF Chunks
<1>3. UNCHANGED <<incoming, cur, dsp, wIncoming, payload, dropped, writer>>
  BY DEF Output, workerVars, callVars
<1>4. \A e \in Events : \A k, x : At(e, k, x)' <=> At(e, k, x)
  BY <1>2, <1>3 DEF At, EventsOf, InDispatch, WasDropped
<1>5. OnePlace'
  <2>1. \A a \in Events : \A k, x, m, z : At(a, k, x)' /\ At(a, m, z)' => k = m /\ x = z
    BY <1>4 DEF Placed, OnePlace
  <2>2. \A a \in Events : writer'[a] # "done" => \A k, x : ~At(a, k, x)'
    BY <1>3, <1>4 DEF Placed, OnePlace
  <2>3. \A a \in Events : writer'[a] = "done" /\ Size[a] > 0 => \E k, x : At(a, k, x)'
    BY <1>3, <1>4 DEF Placed, OnePlace
  <2> QED
    BY <2>1, <2>2, <2>3, Zenon DEF OnePlace
<1> QED
  BY <1>3, <1>5 DEF Placed, QueuesDistinct, TruncationKeeps

\* A payload to which the bytes of an event are appended.
LEMMA AppendBytes ==
    ASSUME NEW s \in Seq(Events), NEW e \in Events
    PROVE  /\ s \o Bytes(e) \in Seq(Events) /\ Len(s \o Bytes(e)) = Len(s) + Size[e]
           /\ \A i \in 1 .. Len(s) : (s \o Bytes(e))[i] = s[i]
           /\ \A i \in Len(s) + 1 .. Len(s) + Size[e] : (s \o Bytes(e))[i] = e
           /\ ToSet(s \o Bytes(e)) = IF Size[e] > 0 THEN ToSet(s) \cup {e} ELSE ToSet(s)
PROOF
<1>1. Size[e] \in Nat /\ Bytes(e) \in Seq(Events) /\ Len(Bytes(e)) = Size[e]
      /\ \A i \in 1 .. Size[e] : Bytes(e)[i] = e
  <2>1. Size[e] \in Nat
    BY Limits
  <2>2. [i \in 1 .. Size[e] |-> e] \in Seq(Events)
    BY <2>1
  <2>3. Len([i \in 1 .. Size[e] |-> e]) = Size[e]
    BY <2>1
  <2> QED
    BY <2>1, <2>2, <2>3 DEF Bytes
<1>2. Len(s) \in Nat /\ DOMAIN s = 1 .. Len(s)
  OBVIOUS
<1> DEFINE t == s \o Bytes(e)
<1>3. t \in Seq(Events) /\ Len(t) = Len(s) + Size[e] /\ DOMAIN t = 1 .. Len(s) + Size[e]
  BY <1>1
<1>4. \A i \in 1 .. Len(s) : t[i] = s[i]
  BY <1>1
<1>5. \A i \in Len(s) + 1 .. Len(s) + Size[e] : t[i] = e
  <2>1. \A i \in Len(s) + 1 .. Len(s) + Size[e] :
           i - Len(s) \in 1 .. Size[e] /\ t[i] = Bytes(e)[i - Len(s)]
    BY <1>1
  <2> QED
    BY <1>1, <2>1
<1>6. \A i \in 1 .. Len(s) + Size[e] :
         i \in 1 .. Len(s) \/ (i \in Len(s) + 1 .. Len(s) + Size[e] /\ Size[e] > 0)
  BY <1>1, <1>2
<1>7. \A i \in 1 .. Len(s) : i \in 1 .. Len(s) + Size[e]
  BY <1>1, <1>2
<1>8. Size[e] > 0 => Len(s) + 1 \in 1 .. Len(s) + Size[e]
                     /\ Len(s) + 1 \in Len(s) + 1 .. Len(s) + Size[e]
  BY <1>1, <1>2
<1> HIDE DEF t
<1>9. ToSet(t) = IF Size[e] > 0 THEN ToSet(s) \cup {e} ELSE ToSet(s)
  BY <1>2, <1>3, <1>4, <1>5, <1>6, <1>7, <1>8 DEF ToSet
<1> QED
  BY <1>3, <1>4, <1>5, <1>9 DEF t

\* A payload cut to its limit.
LEMMA CutPayload ==
    ASSUME NEW s \in Seq(Events), NEW n \in Nat, n <= Len(s),
           \A i \in DOMAIN s : \E j \in DOMAIN s : j <= n /\ s[j] = s[i]
    PROVE  /\ DOMAIN SubSeq(s, 1, n) = 1 .. n
           /\ ToSet(SubSeq(s, 1, n)) = ToSet(s)
PROOF
<1>1. /\ DOMAIN SubSeq(s, 1, n) = 1 .. n /\ DOMAIN s = 1 .. Len(s) /\ Len(s) \in Nat
      /\ \A i \in 1 .. n : SubSeq(s, 1, n)[i] = s[i] /\ i \in DOMAIN s
  OBVIOUS
<1>2. \A j \in DOMAIN s : j <= n => j \in 1 .. n
  BY <1>1
<1> QED
  BY <1>1, <1>2 DEF ToSet

\* A worker takes an event from its queue into its payload, or drops it.
LEMMA PlacedConsume ==
    ASSUME Types, Placed, NEW w \in Events, wIncoming[w] # <<>>,
           wIncoming' = [wIncoming EXCEPT ![w] = Tail(@)],
           WriteEvent(w, Head(wIncoming[w])),
           UNCHANGED <<incoming, cur, dsp, logger, outComing, writer>>
    PROVE  Placed'
PROOF
<1>0. PICK h : h = Head(wIncoming[w])
  OBVIOUS
<1>1. /\ wIncoming \in [Events -> Seq(Events)] /\ payload \in [Events -> Seq(Events)]
      /\ payload[w] \in Seq(Events)
  BY DEF Types, WorkerTypes
<1>2. /\ ToSet(wIncoming'[w]) = ToSet(wIncoming[w]) \ {h} /\ h \in ToSet(wIncoming[w])
      /\ Distinct(wIncoming'[w]) /\ h \in Events
  BY <1>0, <1>1, TailElements, HeadTail DEF Placed, QueuesDistinct
<1>3. \A v \in Events : v # w => wIncoming'[v] = wIncoming[v]
  BY <1>1
<1>4. At(h, "worker", w)
  BY <1>2 DEF At, EventsOf
<1>5. \A k, x : At(h, k, x) => k = "worker" /\ x = w
  BY <1>2, <1>4 DEF Placed, OnePlace
<1>6. /\ h \notin ToSet(incoming)
      /\ \A x \in Events : h \notin ToSet(payload[x])
      /\ \A x \in Events : x # w => h \notin ToSet(wIncoming[x])
      /\ \A x \in DOMAIN Chunks : h \notin ToSet(Chunks[x])
      /\ ~InDispatch(h) /\ ~WasDropped(h)
  <2>1. ~At(h, "queue", NoEvent) /\ ~At(h, "dispatch", NoEvent) /\ ~At(h, "dropped", NoEvent)
    BY <1>5
  <2>2. \A x : ~At(h, "payload", x) /\ ~At(h, "chunk", x) /\ (x # w => ~At(h, "worker", x))
    BY <1>5
  <2>3. h \notin ToSet(incoming) /\ ~InDispatch(h) /\ ~WasDropped(h)
    BY <2>1 DEF At, EventsOf
  <2> QED
    BY <2>2, <2>3 DEF At, EventsOf
<1>7. /\ h \in Events /\ OnePlace /\ writer[h] = "done"
      /\ writer' = writer /\ writer'[h] = "done"
      /\ \A a \in Events : a # h => writer'[a] = writer[a]
  BY <1>2, <1>4 DEF Placed, OnePlace
<1>8. Chunks' = Chunks
  BY DEF Chunks
<1>9. QueuesDistinct'
  BY <1>2, <1>3 DEF Placed, QueuesDistinct
<1>10. CASE PayloadFull(w)
  <2>1. /\ payload' = [payload EXCEPT ![w] = SubSeq(payload[w], 1, TruncateSize)]
        /\ dropped' = dropped \cup {<<h, "truncated">>}
        /\ TruncateSize > 0 /\ TruncateSize <= Len(payload[w])
        /\ TruncateSize \in Nat /\ "truncated" \in DropReasons
    BY <1>0, <1>1, <1>10, Limits DEF WriteEvent, PayloadFull, DropReasons
  <2>2. \A i \in DOMAIN payload[w] : \E j \in DOMAIN payload[w] :
           j <= TruncateSize /\ payload[w][j] = payload[w][i]
    BY <2>1 DEF Placed, TruncationKeeps
  <2>3. ToSet(SubSeq(payload[w], 1, TruncateSize)) = ToSet(payload[w])
        /\ DOMAIN SubSeq(payload[w], 1, TruncateSize) = 1 .. TruncateSize
    BY <1>1, <2>1, <2>2, CutPayload
  <2>4. /\ payload'[w] = SubSeq(payload[w], 1, TruncateSize)
        /\ \A v \in Events : v # w => payload'[v] = payload[v]
    BY <1>1, <2>1
  <2>5. \A v \in Events : ToSet(payload'[v]) = ToSet(payload[v])
    BY <2>3, <2>4
  <2>6. \A a : WasDropped(a)' <=> WasDropped(a) \/ a = h
    BY <2>1, DropOne
  <2>7. Moved(h, "dropped", NoEvent)
    BY <1>2, <1>3, <1>6, <1>8, <2>5, <2>6 DEF Moved, At, EventsOf, InDispatch
  <2>8. OnePlace'
    BY <1>7, <2>7, MovesOne
  <2>9. TruncationKeeps'
    <3>1. \A i \in 1 .. TruncateSize : i <= TruncateSize
      BY <2>1
    <3>2. \A i \in DOMAIN payload'[w] : i \in DOMAIN payload'[w] /\ i <= TruncateSize
      BY <2>3, <2>4, <3>1
    <3>3. \A v \in Events : \A i \in DOMAIN payload'[v] :
             \E j \in DOMAIN payload'[v] : j <= TruncateSize /\ payload'[v][j] = payload'[v][i]
      <4> SUFFICES ASSUME NEW v \in Events, NEW i \in DOMAIN payload'[v]
                   PROVE  \E j \in DOMAIN payload'[v] :
                             j <= TruncateSize /\ payload'[v][j] = payload'[v][i]
        OBVIOUS
      <4>1. CASE v = w
        BY <3>2, <4>1
      <4>2. CASE v # w
        BY <2>1, <2>4, <4>2 DEF Placed, TruncationKeeps
      <4> QED
        BY <4>1, <4>2
    <3> QED
      BY <3>3 DEF TruncationKeeps
  <2> QED
    BY <1>9, <2>8, <2>9 DEF Placed
<1>11. CASE ~PayloadFull(w)
  <2>1. payload' = [payload EXCEPT ![w] = payload[w] \o Bytes(h)] /\ UNCHANGED dropped
    BY <1>0, <1>11 DEF WriteEvent
  <2>2. /\ payload'[w] = payload[w] \o Bytes(h)
        /\ \A v \in Events : v # w => payload'[v] = payload[v]
    BY <1>1, <2>1
  <2>3. /\ payload'[w] \in Seq(Events) /\ Len(payload'[w]) = Len(payload[w]) + Size[h]
        /\ \A i \in 1 .. Len(payload[w]) : payload'[w][i] = payload[w][i]
        /\ \A i \in Len(payload[w]) + 1 .. Len(payload[w]) + Size[h] : payload'[w][i] = h
        /\ ToSet(payload'[w]) = IF Size[h] > 0 THEN ToSet(payload[w]) \cup {h}
                                               ELSE ToSet(payload[w])
    <3> HIDE DEF Bytes
    <3>1. PICK s \in Seq(Events) : s = payload[w]
      BY <1>1
    <3>2. /\ s \o Bytes(h) \in Seq(Events) /\ Len(s \o Bytes(h)) = Len(s) + Size[h]
          /\ \A i \in 1 .. Len(s) : (s \o Bytes(h))[i] = s[i]
          /\ \A i \in Len(s) + 1 .. Len(s) + Size[h] : (s \o Bytes(h))[i] = h
          /\ ToSet(s \o Bytes(h)) = IF Size[h] > 0 THEN ToSet(s) \cup {h} ELSE ToSet(s)
      BY <1>2, AppendBytes
    <3> QED
      BY <2>2, <3>1, <3>2
  <2>4. /\ \A a : WasDropped(a)' <=> WasDropped(a)
        /\ \A v \in Events : v # w => payload'[v] = payload[v]
    BY <2>1, <2>2 DEF WasDropped
  <2>5. OnePlace'
    <3>1. CASE Size[h] > 0
      <4>1. Moved(h, "payload", w)
        <5>1. ToSet(payload'[w]) = ToSet(payload[w]) \cup {h}
          BY <2>3, <3>1
        <5> QED
          BY <1>2, <1>3, <1>6, <1>8, <2>4, <5>1 DEF Moved, At, EventsOf, InDispatch
      <4> QED
        BY <1>7, <4>1, MovesOne
    <3>2. CASE Size[h] = 0
      <4>1. ToSet(payload'[w]) = ToSet(payload[w])
        BY <2>3, <3>2
      <4>2. Forgotten(h)
        BY <1>2, <1>3, <1>6, <1>8, <2>4, <4>1 DEF Forgotten, At, EventsOf, InDispatch
      <4> QED
        BY <1>7, <3>2, <4>2, Forgets
    <3> QED
      BY <1>2, <3>1, <3>2, Limits
  <2>6. TruncationKeeps'
    <3> SUFFICES ASSUME TruncateSize > 0, NEW v \in Events, NEW i \in DOMAIN payload'[v]
                 PROVE  \E j \in DOMAIN payload'[v] :
                           j <= TruncateSize /\ payload'[v][j] = payload'[v][i]
      BY Zenon DEF TruncationKeeps
    <3>0. CASE v # w
      BY <2>2, <3>0 DEF Placed, TruncationKeeps
    <3>1. /\ Len(payload[w]) \in Nat /\ Len(payload[w]) < TruncateSize /\ TruncateSize \in Nat
          /\ Size[h] \in Nat /\ DOMAIN payload'[w] = 1 .. Len(payload[w]) + Size[h]
      <4>1. Len(payload[w]) \in Nat /\ TruncateSize \in Nat /\ Size[h] \in Nat
        BY <1>1, <1>2, Limits
      <4> QED
        BY <1>11, <2>3, <4>1 DEF PayloadFull
    <3>2. CASE v = w /\ i <= Len(payload[w])
      <4>1. i \in DOMAIN payload'[v] /\ i <= TruncateSize
        BY <3>1, <3>2
      <4> QED
        BY <4>1
    <3>3. CASE v = w /\ i > Len(payload[w])
      <4>1. /\ Len(payload[w]) + 1 \in DOMAIN payload'[w] /\ Len(payload[w]) + 1 <= TruncateSize
            /\ Len(payload[w]) + 1 \in Len(payload[w]) + 1 .. Len(payload[w]) + Size[h]
            /\ i \in Len(payload[w]) + 1 .. Len(payload[w]) + Size[h]
        BY <3>1, <3>3
      <4>2. payload'[w][Len(payload[w]) + 1] = payload'[w][i]
        BY <2>3, <4>1
      <4> QED
        BY <3>3, <4>1, <4>2
    <3> QED
      BY <3>0, <3>1, <3>2, <3>3
  <2> QED
    BY <1>9, <2>5, <2>6 DEF Placed
<1> QED
  BY <1>10, <1>11

\* A worker displays its payload, or loses it to a full outComing.
LEMMA PlacedClose ==
    ASSUME Types, Placed, NEW w \in Events, CloseWorker(w)
    PROVE  Placed'
PROOF
<1>1. /\ payload \in [Events -> Seq(Events)] /\ payload[w] \in Seq(Events)
      /\ outComing \in Seq(Seq(Events)) /\ logger \in Seq(Seq(Events))
  BY DEF Types, WorkerTypes, ChannelTypes
<1>2. /\ payload' = [payload EXCEPT ![w] = <<>>] /\ writer' = writer
      /\ UNCHANGED <<incoming, cur, dsp, wIncoming, logger>>
  BY DEF CloseWorker, Display, serveVars, callVars
<1>3. /\ payload'[w] = <<>> /\ \A v \in Events : v # w => payload'[v] = payload[v]
      /\ ToSet(payload'[w]) = {}
  BY <1>1, <1>2 DEF ToSet
<1>4. TruncationKeeps' /\ QueuesDistinct'
  BY <1>2, <1>3 DEF Placed, TruncationKeeps, QueuesDistinct
<1>5. \A a : At(a, "payload", w) <=> a \in ToSet(payload[w])
  BY DEF At, EventsOf
<1>6. \A a \in Events : a \in ToSet(payload[w]) =>
         /\ a \notin ToSet(incoming) /\ ~InDispatch(a) /\ ~WasDropped(a)
         /\ \A v \in Events : a \notin ToSet(wIncoming[v])
         /\ \A v \in Events : v # w => a \notin ToSet(payload[v])
         /\ \A i \in DOMAIN Chunks : a \notin ToSet(Chunks[i])
  <2> SUFFICES ASSUME NEW a \in Events, a \in ToSet(payload[w])
               PROVE  /\ a \notin ToSet(incoming) /\ ~InDispatch(a) /\ ~WasDropped(a)
                      /\ \A v \in Events : a \notin ToSet(wIncoming[v])
                      /\ \A v \in Events : v # w => a \notin ToSet(payload[v])
                      /\ \A i \in DOMAIN Chunks : a \notin ToSet(Chunks[i])
    OBVIOUS
  <2>1. \A k, x : At(a, k, x) => k = "payload" /\ x = w
    BY <1>5 DEF Placed, OnePlace
  <2> QED
    BY <2>1 DEF At, EventsOf
<1>9. OnePlace
  BY DEF Placed
<1>7. CASE payload[w] # <<>> /\ Len(outComing) < OutCap
  <2>1. outComing' = Append(outComing, payload[w]) /\ UNCHANGED dropped
    BY <1>7 DEF CloseWorker, Display
  <2>2. PICK y : y = Len(Chunks) + 1
    OBVIOUS
  <2>3. /\ Chunks' = Append(Chunks, payload[w]) /\ Chunks \in Seq(Seq(Events))
    BY <1>1, <1>2, <2>1 DEF Chunks
  <2>4. /\ DOMAIN Chunks' = DOMAIN Chunks \cup {y} /\ y \notin DOMAIN Chunks
        /\ Chunks'[y] = payload[w]
        /\ \A i \in DOMAIN Chunks : Chunks'[i] = Chunks[i]
    BY <1>1, <2>2, <2>3
  <2>5. \A a : WasDropped(a)' <=> WasDropped(a)
    BY <2>1 DEF WasDropped
  <2>6. PayloadMoved(w, "chunk", y)
    <3>1. \A a \in Events : \A k, x : At(a, k, x)' <=>
             IF a \in ToSet(payload[w]) THEN k = "chunk" /\ x = y ELSE At(a, k, x)
      BY <1>2, <1>3, <1>6, <2>4, <2>5 DEF At, EventsOf, InDispatch
    <3> QED
      BY <1>5, <3>1 DEF PayloadMoved
  <2>7. OnePlace'
    BY <1>2, <1>9, <2>6, MovesPayload
  <2> QED
    BY <1>4, <2>7 DEF Placed
<1>8. CASE ~(payload[w] # <<>> /\ Len(outComing) < OutCap)
  <2>1. dropped' = dropped \cup {<<e, "outFull">> : e \in ToSet(payload[w])}
        /\ UNCHANGED outComing /\ "outFull" \in DropReasons
    BY <1>8 DEF CloseWorker, Display, EventsOf, DropReasons
  <2>2. Chunks' = Chunks
    BY <1>2, <2>1 DEF Chunks
  <2>3. \A a : WasDropped(a)' <=> WasDropped(a) \/ a \in ToSet(payload[w])
    BY <2>1 DEF WasDropped
  <2>4. PayloadMoved(w, "dropped", NoEvent)
    <3>1. \A a \in Events : \A k, x : At(a, k, x)' <=>
             IF a \in ToSet(payload[w]) THEN k = "dropped" /\ x = NoEvent ELSE At(a, k, x)
      BY <1>2, <1>3, <1>6, <2>2, <2>3 DEF At, EventsOf, InDispatch
    <3> QED
      BY <1>5, <3>1 DEF PayloadMoved
  <2>5. OnePlace'
    BY <1>2, <1>9, <2>4, MovesPayload
  <2> QED
    BY <1>4, <2>5 DEF Placed
<1> QED
  BY <1>7, <1>8

\* No place has an event at the start.
LEMMA PlacedInit == Init => Placed
PROOF
<1> SUFFICES ASSUME Init PROVE Placed
  OBVIOUS
<1>1. /\ Chunks = <<>> /\ ToSet(<<>>) = {} /\ incoming = <<>> /\ dsp = "none" /\ dropped = {}
      /\ \A w \in Events : wIncoming[w] = <<>> /\ payload[w] = <<>>
      /\ \A e \in Events : writer[e] = "idle"
  BY DEF Init, Chunks, ToSet
<1>2. \A e \in Events : \A k, x : ~At(e, k, x)
  BY <1>1 DEF At, EventsOf, InDispatch, WasDropped
<1>3. OnePlace
  BY <1>1, <1>2 DEF OnePlace
<1> QED
  BY <1>1, <1>3 DEF Placed, QueuesDistinct, Distinct, TruncationKeeps

\* Every step keeps each event in one place.
LEMMA PlacedStep ==
    ASSUME Types, Placed, [Next]_vars
    PROVE  Placed'
PROOF
<1> USE DEF epVars, serveVars, workerVars, callVars, placeVars
<1>1. ASSUME NEW e \in Events, WriteCheck(e) \/ WriteSend(e) PROVE Placed'
  BY <1>1, PlacedWrite
<1>2. ASSUME NEW s \in Socks, DestroyCheck(s) \/ DestroySend(s) PROVE Placed'
  <2>1. UNCHANGED placeVars /\ writer' = writer
    BY <1>2 DEF DestroyCheck, DestroySend
  <2> QED
    BY <2>1, Stays
<1>3. ASSUME NEW c \in Callers, CloseCall(c) \/ CloseReturn(c) PROVE Placed'
  <2>1. UNCHANGED placeVars /\ writer' = writer
    BY <1>3 DEF CloseCall, CloseReturn
  <2> QED
    BY <2>1, Stays
<1>4. CASE Dispatch
  BY <1>4, PlacedDispatch
<1>5. CASE AddWorker \/ PutWorker
  <2>1. UNCHANGED <<incoming, wIncoming, payload, logger, outComing, dropped, writer>>
    BY <1>5 DEF AddWorker, PutWorker
  <2>2. \A e \in Events : InDispatch(e)' <=> InDispatch(e)
    BY <1>5, Limits DEF AddWorker, PutWorker, InDispatch
  <2>3. \A e \in Events : \A k, x : At(e, k, x)' <=> At(e, k, x)
    <3>1. Chunks' = Chunks /\ \A e : WasDropped(e)' <=> WasDropped(e)
      BY <2>1 DEF Chunks, WasDropped
    <3> QED
      BY <2>1, <2>2, <3>1 DEF At, EventsOf
  <2>4. OnePlace'
    <3>1. \A a \in Events : \A k, x, m, z : At(a, k, x)' /\ At(a, m, z)' => k = m /\ x = z
      BY <2>3 DEF Placed, OnePlace
    <3>2. \A a \in Events : writer'[a] # "done" => \A k, x : ~At(a, k, x)'
      BY <2>1, <2>3 DEF Placed, OnePlace
    <3>3. \A a \in Events : writer'[a] = "done" /\ Size[a] > 0 => \E k, x : At(a, k, x)'
      BY <2>1, <2>3 DEF Placed, OnePlace
    <3> QED
      BY <3>1, <3>2, <3>3, Zenon DEF OnePlace
  <2> QED
    BY <2>1, <2>4 DEF Placed, QueuesDistinct, TruncationKeeps
<1>6. CASE WorkerWrite
  BY <1>6, PlacedWorkerWrite
<1>7. CASE Output
  BY <1>7, PlacedOutput
<1>8. CASE DestroyWorkers \/ ServeClosed \/ DrainedIncoming \/ SignalWorkers
           \/ WorkersDone \/ ServeDone
  <2>1. UNCHANGED placeVars /\ writer' = writer
    BY <1>8 DEF DestroyWorkers, ServeClosed, DrainedIncoming, SignalWorkers, WorkersDone,
                ServeDone
  <2> QED
    BY <2>1, Stays
<1>9. ASSUME NEW w \in Events, Tick(w) \/ CloseSignal(w) \/ DelWorker(w) \/ StillUsed(w)
      PROVE  Placed'
  <2>1. UNCHANGED placeVars /\ writer' = writer
    BY <1>9 DEF Tick, CloseSignal, DelWorker, StillUsed
  <2> QED
    BY <2>1, Stays
<1>10. ASSUME NEW w \in Events, Receive(w) PROVE Placed'
  <2>1. /\ wIncoming[w] # <<>> /\ wIncoming' = [wIncoming EXCEPT ![w] = Tail(@)]
        /\ WriteEvent(w, Head(wIncoming[w]))
        /\ UNCHANGED <<incoming, cur, dsp, logger, outComing, writer>>
    BY <1>10 DEF Receive
  <2> QED
    BY <2>1, PlacedConsume
<1>11. ASSUME NEW w \in Events, DrainStep(w) PROVE Placed'
  <2>1. CASE wIncoming[w] # <<>>
    <3>1. /\ wIncoming' = [wIncoming EXCEPT ![w] = Tail(@)]
          /\ WriteEvent(w, Head(wIncoming[w]))
          /\ UNCHANGED <<incoming, cur, dsp, logger, outComing, writer>>
      BY <1>11, <2>1 DEF DrainStep
    <3> QED
      BY <2>1, <3>1, PlacedConsume
  <2>2. CASE wIncoming[w] = <<>>
    <3>1. UNCHANGED placeVars /\ writer' = writer
      BY <1>11, <2>2 DEF DrainStep
    <3> QED
      BY <3>1, Stays
  <2> QED
    BY <2>1, <2>2
<1>12. ASSUME NEW w \in Events, CloseWorker(w) PROVE Placed'
  BY <1>12, PlacedClose
<1>13. CASE UNCHANGED vars
  <2>1. UNCHANGED placeVars /\ writer' = writer
    BY <1>13 DEF vars
  <2> QED
    BY <2>1, Stays
<1> QED
  BY <1>1, <1>2, <1>3, <1>4, <1>5, <1>6, <1>7, <1>8, <1>9, <1>10, <1>11, <1>12, <1>13
     DEF Next, Serve, Worker

\* Having one place means that the number of places is one.
LEMMA PlacedSuffices == Types /\ Placed => ExactlyOnePlace
PROOF
<1> SUFFICES ASSUME Types, Placed, NEW e \in Events, writer[e] = "done", Size[e] > 0
             PROVE  Places(e) = 1
  BY DEF ExactlyOnePlace
<1>1. PICK k, x : At(e, k, x)
  BY DEF Placed, OnePlace
<1>2. \A l, y : At(e, l, y) => l = k /\ y = x
  BY <1>1 DEF Placed, OnePlace
<1>3. /\ outComing \in Seq(Seq(Events)) /\ logger \in Seq(Seq(Events))
      /\ Len(logger) \in Nat /\ Len(outComing) \in Nat
      /\ DOMAIN logger = 1 .. Len(logger) /\ DOMAIN outComing = 1 .. Len(outComing)
      /\ DOMAIN Chunks = 1 .. Len(logger) + Len(outComing)
      /\ \A i \in 1 .. Len(logger) : Chunks[i] = logger[i]
      /\ \A i \in 1 .. Len(outComing) : Chunks[Len(logger) + i] = outComing[i]
  BY DEF Types, ChannelTypes, Chunks
<1>4. /\ \A i \in InLog(e) : At(e, "chunk", i) /\ i <= Len(logger) /\ i \in Nat
      /\ \A i \in InOutput(e) : At(e, "chunk", Len(logger) + i) /\ i \in Nat \ {0}
  <2>1. \A i \in 1 .. Len(logger) : i \in DOMAIN Chunks /\ i <= Len(logger) /\ i \in Nat
    BY <1>3
  <2>2. \A i \in 1 .. Len(outComing) : Len(logger) + i \in DOMAIN Chunks /\ i \in Nat \ {0}
    BY <1>3
  <2> QED
    BY <1>3, <2>1, <2>2 DEF At, EventsOf, InLog, InOutput
<1>5. /\ \A w \in InWorkerQueue(e) : At(e, "worker", w)
      /\ \A w \in InPayload(e) : At(e, "payload", w)
      /\ InDispatch(e) => At(e, "dispatch", NoEvent)
      /\ e \in EventsOf(incoming) => At(e, "queue", NoEvent)
      /\ WasDropped(e) => At(e, "dropped", NoEvent)
  BY DEF At, EventsOf, InWorkerQueue, InPayload
<1>6. Cardinality({}) = 0 /\ \A i : Cardinality({i}) = 1
  BY FS_EmptySet, FS_Singleton
<1>7. k # "worker" => Cardinality(InWorkerQueue(e)) = 0
  <2>1. k # "worker" => InWorkerQueue(e) = {}
    BY <1>2, <1>5
  <2> QED
    BY <1>6, <2>1
<1>8. k # "payload" => Cardinality(InPayload(e)) = 0
  <2>1. k # "payload" => InPayload(e) = {}
    BY <1>2, <1>5
  <2> QED
    BY <1>6, <2>1
<1>9. k # "chunk" => Cardinality(InOutput(e)) = 0 /\ Cardinality(InLog(e)) = 0
  <2>1. k # "chunk" => InOutput(e) = {} /\ InLog(e) = {}
    BY <1>2, <1>4
  <2> QED
    BY <1>6, <2>1
<1>10. /\ k # "dispatch" => ~InDispatch(e)
       /\ k # "queue" => e \notin EventsOf(incoming)
       /\ k # "dropped" => ~WasDropped(e)
  BY <1>2, <1>5
<1>11. k = "worker" => Cardinality(InWorkerQueue(e)) = 1
  <2>1. k = "worker" => InWorkerQueue(e) = {x}
    BY <1>1, <1>2, <1>5 DEF At, InWorkerQueue
  <2> QED
    BY <1>6, <2>1
<1>12. k = "payload" => Cardinality(InPayload(e)) = 1
  <2>1. k = "payload" => InPayload(e) = {x}
    BY <1>1, <1>2, <1>5 DEF At, InPayload
  <2> QED
    BY <1>6, <2>1
<1>13. k = "chunk" => \/ Cardinality(InOutput(e)) = 0 /\ Cardinality(InLog(e)) = 1
                      \/ Cardinality(InOutput(e)) = 1 /\ Cardinality(InLog(e)) = 0
  <2> SUFFICES ASSUME k = "chunk"
               PROVE  \/ Cardinality(InOutput(e)) = 0 /\ Cardinality(InLog(e)) = 1
                      \/ Cardinality(InOutput(e)) = 1 /\ Cardinality(InLog(e)) = 0
    OBVIOUS
  <2>1. x \in DOMAIN Chunks /\ e \in EventsOf(Chunks[x])
    BY <1>1 DEF At
  <2>2. CASE x \in 1 .. Len(logger)
    <3>1. x \in InLog(e)
      BY <1>3, <2>1, <2>2 DEF InLog
    <3>2. InLog(e) = {x}
      BY <1>2, <1>4, <3>1
    <3>3. InOutput(e) = {}
      <4>1. \A i \in InOutput(e) : Len(logger) + i = x /\ i \in Nat \ {0}
        BY <1>2, <1>4
      <4> QED
        BY <1>3, <2>2, <4>1
    <3> QED
      BY <1>6, <3>2, <3>3
  <2>3. CASE x \notin 1 .. Len(logger)
    <3>1. /\ x - Len(logger) \in 1 .. Len(outComing)
          /\ x = Len(logger) + (x - Len(logger))
      BY <1>3, <2>1, <2>3
    <3>2. x - Len(logger) \in InOutput(e)
      BY <1>3, <2>1, <3>1 DEF InOutput
    <3>3. InOutput(e) = {x - Len(logger)}
      <4>1. \A i \in InOutput(e) : Len(logger) + i = x /\ i \in Nat \ {0}
        BY <1>2, <1>4
      <4>2. \A i \in InOutput(e) : i = x - Len(logger)
        BY <1>3, <4>1
      <4> QED
        BY <3>2, <4>2
    <3>4. InLog(e) = {}
      <4>1. \A i \in InLog(e) : i = x /\ i \in 1 .. Len(logger)
        BY <1>2, <1>3, <1>4 DEF InLog
      <4> QED
        BY <2>3, <4>1
    <3> QED
      BY <1>6, <3>3, <3>4
  <2> QED
    BY <2>2, <2>3
<1>14. /\ k = "dispatch" => InDispatch(e)
       /\ k = "queue" => e \in EventsOf(incoming)
       /\ k = "dropped" => WasDropped(e)
       /\ k \in {"queue", "dispatch", "worker", "payload", "chunk", "dropped"}
  BY <1>1 DEF At
<1>15. CASE k = "worker"
  BY <1>15, <1>8, <1>9, <1>10, <1>11 DEF Places
<1>16. CASE k = "payload"
  BY <1>16, <1>7, <1>9, <1>10, <1>12 DEF Places
<1>17. CASE k = "chunk"
  BY <1>17, <1>7, <1>8, <1>10, <1>13 DEF Places
<1>18. CASE k \in {"queue", "dispatch", "dropped"}
  BY <1>18, <1>7, <1>8, <1>9, <1>10, <1>14 DEF Places
<1> QED
  BY <1>14, <1>15, <1>16, <1>17, <1>18

-----------------------------------------------------------------------------
(* The theorems.                                                           *)

\* The inductive invariant.
Inv ==
    /\ Types /\ InUse /\ NoPanic /\ Listed
    /\ ClosedForReason /\ SockWorkerPersists /\ Quiet /\ Placed

\* It holds in every reachable state.
LEMMA Invariance == Spec => []Inv
PROOF
<1>1. Init => Inv
  <2> SUFFICES ASSUME Init PROVE Inv
    OBVIOUS
  <2>1. Types /\ Placed
    BY TypesInit, PlacedInit
  <2>2. InUse /\ NoPanic
    BY DEF Init, InUse, NoPanic
  <2>3. Listed /\ Quiet
    BY DEF Init, Listed, Live, Quiet
  <2>4. ClosedForReason /\ SockWorkerPersists
    BY DEF Init, ClosedForReason, SockWorkerPersists
  <2> QED
    BY <2>1, <2>2, <2>3, <2>4 DEF Inv
<1>2. Inv /\ [Next]_vars => Inv'
  BY TypesStep, InUseStep, ListedStep, ClosedStep, QuietStep, PlacedStep DEF Inv
<1> QED
  BY <1>1, <1>2, PTL DEF Spec

\* Every variable keeps its type and no channel exceeds its capacity.
THEOREM TypeCorrect == Spec => []TypeOK
PROOF
<1>1. Inv => TypeOK
  BY TypesSuffice DEF Inv
<1> QED
  BY <1>1, Invariance, PTL

\* Get() and Put() never panic.
THEOREM WorkersNeverPanic == Spec => []NoPanic
PROOF
<1>1. Inv => NoPanic
  BY DEF Inv
<1> QED
  BY <1>1, Invariance, PTL

\* At most one worker of a UUID is in its event loop.
THEOREM WorkersAreUnique == Spec => []OneWorkerPerUUID
PROOF
<1>1. Inv => OneWorkerPerUUID
  BY ListedSuffices DEF Inv
<1> QED
  BY <1>1, Invariance, PTL

\* A Sock worker leaves its loop only when its socket was destroyed, or when
\* drain() has told it to.
THEOREM SockWorkersPersist == Spec => []SockWorkerPersists
PROOF
<1>1. Inv => SockWorkerPersists
  BY DEF Inv
<1> QED
  BY <1>1, Invariance, PTL

\* Serve() returns with no worker running and nothing left to print.
THEOREM ServeReturnsFlushed == Spec => []FlushedWhenDone
PROOF
<1>1. Inv => FlushedWhenDone
  BY QuietSuffices DEF Inv
<1> QED
  BY <1>1, Invariance, PTL

\* No event is duplicated, and none is lost but by a drop the code decides on.
THEOREM EventsAreInOnePlace == Spec => []ExactlyOnePlace
PROOF
<1>1. Inv => ExactlyOnePlace
  BY PlacedSuffices DEF Inv
<1> QED
  BY <1>1, Invariance, PTL
=============================================================================
