------------------------ MODULE ProbeLifecycleProofs ------------------------
(***************************************************************************)
(* Proofs about ProbeLifecycle, for any number of readers, records and     *)
(* reloads and any capacities: TypeOK, NoneLostAtClose, SessionsDisjoint   *)
(* and DeliveredOnce hold in every state.  They follow from Inv; there is  *)
(* one lemma for each of its parts, which names the parts it depends on.   *)
(* Within a lemma the actions that touch what the part is about have a     *)
(* step each, and the others leave it UNCHANGED.                           *)
(***************************************************************************)
EXTENDS ProbeLifecycle, TLAPS

\* No element stands twice in the sequence s.
Distinct(s) == \A i, j \in DOMAIN s : s[i] = s[j] => i = j

\* Appending a new element keeps a sequence free of duplicates.
LEMMA AppendDistinct ==
    ASSUME NEW S, NEW s \in Seq(S), NEW e \in S, Distinct(s), \A i \in DOMAIN s : s[i] # e
    PROVE  /\ Distinct(Append(s, e))
           /\ \A i \in DOMAIN Append(s, e) :
                 Append(s, e)[i] = e \/ \E k \in DOMAIN s : Append(s, e)[i] = s[k]
<1>1. /\ Len(s) \in Nat /\ DOMAIN s = 1 .. Len(s)
      /\ DOMAIN Append(s, e) = 1 .. Len(s) + 1
      /\ \A i \in 1 .. Len(s) : Append(s, e)[i] = s[i]
      /\ Append(s, e)[Len(s) + 1] = e
  OBVIOUS
<1>2. \A i \in 1 .. Len(s) + 1 : i \in 1 .. Len(s) \/ i = Len(s) + 1
  BY <1>1
<1> QED
  BY <1>1, <1>2 DEF Distinct

\* The tail of a sequence free of duplicates is one, without the head.
LEMMA TailDistinct ==
    ASSUME NEW S, NEW s \in Seq(S), s # <<>>, Distinct(s)
    PROVE  /\ Distinct(Tail(s)) /\ 1 \in DOMAIN s /\ Head(s) = s[1]
           /\ \A i \in DOMAIN Tail(s) :
                 Tail(s)[i] # Head(s) /\ \E k \in DOMAIN s : Tail(s)[i] = s[k]
<1>1. /\ Len(s) \in Nat \ {0} /\ DOMAIN s = 1 .. Len(s)
      /\ DOMAIN Tail(s) = 1 .. Len(s) - 1
      /\ \A i \in DOMAIN Tail(s) : Tail(s)[i] = s[i + 1] /\ i + 1 \in DOMAIN s
      /\ Head(s) = s[1] /\ 1 \in DOMAIN s
  OBVIOUS
<1>2. \A i \in DOMAIN Tail(s) : i \in Nat \ {0}
  BY <1>1
<1> QED
  BY <1>1, <1>2 DEF Distinct

\* Every step keeps the types.
LEMMA TypeStep ==
    TypeOK /\ ReloadsPosted /\ LoopState /\ [Next]_vars => TypeOK'
<1> SUFFICES ASSUME TypeOK, ReloadsPosted, LoopState, [Next]_vars PROVE TypeOK'
  OBVIOUS
<1> USE ConstantsAssumption DEF TypeOK, LoopState, Ended, mainVars, envVars,
        kernVars, loopVars, sinkVars
<1>1. ASSUME NEW c \in {"same", "other"}, PostConfig(c) PROVE TypeOK'
  <2>1. Append(confChan, c) \in Seq({"same", "other"})
        /\ Len(Append(confChan, c)) = Len(confChan) + 1
    BY <1>1
  <2> QED
    BY <1>1, <2>1 DEF PostConfig
<1>2. CASE Interrupt
  BY <1>2 DEF Interrupt
<1>3. ASSUME NEW x \in Records, Submit(x) PROVE TypeOK'
  <2> DEFINE q == ReaderOf[x]
  <2>1. q \in Readers /\ ring[q] \in Seq(Records)
    BY <1>3
  <2>2. Append(ring[q], x) \in Seq(Records)
    BY <1>3, <2>1
  <2>3. ring' \in [Readers -> Seq(Records)]
    BY <1>3, <2>1, <2>2 DEF Submit
  <2>4. skipped' \subseteq Records
    BY <1>3 DEF Submit
  <2> QED
    BY <1>3, <2>3, <2>4 DEF Submit
<1>4. CASE Initialize
  BY <1>4 DEF Initialize
<1>5. CASE Attach
  <2>1. <<>> \in Seq(Records)
    OBVIOUS
  <2>2. ring' \in [Readers -> Seq(Records)]
    BY <1>5, <2>1 DEF Attach
  <2>3. main' \in {"start", "fatal"} /\ toStart' \subseteq Readers /\ attached' \in BOOLEAN
    BY <1>5 DEF Attach
  <2> QED
    BY <1>5, <2>2, <2>3 DEF Attach
<1>6. ASSUME NEW r \in Readers, StartReader(r) PROVE TypeOK'
  BY <1>6 DEF StartReader
<1>7. CASE StartFails
  BY <1>7 DEF StartFails
<1>8. CASE Started
  BY <1>8 DEF Started
<1>9. CASE StopSignal
  BY <1>9 DEF StopSignal
<1>10. CASE Reload
  BY <1>10 DEF Reload
<1>11. CASE Detach
  BY <1>11 DEF Detach
<1>12. ASSUME NEW r \in Readers, CloseReader(r) PROVE TypeOK'
  BY <1>12 DEF CloseReader
<1>13. CASE ReadersClosed
  BY <1>13 DEF ReadersClosed
<1>14. CASE CloseClosers
  BY <1>14 DEF CloseClosers, LoopsFinished
<1>15. CASE CloseDispatcher
  <2>1. Len(confChan) \in Nat
    OBVIOUS
  <2>2. isReload => gen + 1 \in 0 .. MaxReloads
    BY <2>1 DEF ReloadsPosted
  <2>3. gen' \in 0 .. MaxReloads
    BY <1>15, <2>2 DEF CloseDispatcher
  <2>4. main' \in {"init", "exited"}
    BY <1>15 DEF CloseDispatcher
  <2> QED
    BY <1>15, <2>3, <2>4 DEF CloseDispatcher
<1>16. ASSUME NEW r \in Readers, LoopCheck(r) PROVE TypeOK'
  BY <1>16 DEF LoopCheck
<1>17. ASSUME NEW r \in Readers, ReadRecord(r) PROVE TypeOK'
  BY <1>17 DEF ReadRecord
<1>18. ASSUME NEW r \in Readers, ReadError(r) PROVE TypeOK'
  BY <1>18 DEF ReadError
<1>19. ASSUME NEW r \in Readers, ReadClosed(r) PROVE TypeOK'
  BY <1>19 DEF ReadClosed
<1>20. ASSUME NEW r \in Readers, DecodeFails(r) PROVE TypeOK'
  BY <1>20 DEF DecodeFails
<1>21. ASSUME NEW r \in Readers, HandleEvent(r) PROVE TypeOK'
  BY <1>21 DEF HandleEvent, Dispatch
<1>22. ASSUME NEW r \in Readers, LoopExit(r) PROVE TypeOK'
  BY <1>22 DEF LoopExit, Dispatch
<1>23. CASE UNCHANGED vars
  BY <1>23 DEF vars
<1> QED
  BY <1>1, <1>2, <1>3, <1>4, <1>5, <1>6, <1>7, <1>8, <1>9, <1>10, <1>11,
        <1>12, <1>13, <1>14, <1>15, <1>16, <1>17, <1>18, <1>19, <1>20, <1>21,
        <1>22, <1>23
  DEF Next, Main, Loop, Unblocked, vars, mainVars, envVars, kernVars, loopVars, sinkVars

\* Only what was posted is taken from confChan, and only that starts a session.
LEMMA ReloadStep ==
    TypeOK /\ ReloadsPosted /\ [Next]_vars => ReloadsPosted'
<1> SUFFICES ASSUME TypeOK, ReloadsPosted, [Next]_vars PROVE ReloadsPosted'
  OBVIOUS
<1> USE ConstantsAssumption DEF TypeOK, ReloadsPosted, mainVars, envVars,
        kernVars, loopVars, sinkVars
<1>1. ASSUME NEW c \in {"same", "other"}, PostConfig(c) PROVE ReloadsPosted'
  <2>1. Len(Append(confChan, c)) = Len(confChan) + 1 /\ Len(confChan) \in Nat
    BY <1>1
  <2>2. Len(confChan') \in Nat /\ Len(confChan') <= Len(confChan) + 1
    BY <1>1, <2>1 DEF PostConfig
  <2>3. posted' = posted + 1 /\ UNCHANGED <<gen, isReload>>
    BY <1>1 DEF PostConfig
  <2> QED
    BY <2>1, <2>2, <2>3
<1>2. CASE Started
  BY <1>2 DEF Started
<1>3. CASE StopSignal
  BY <1>3 DEF StopSignal
<1>4. CASE Reload
  BY <1>4 DEF Reload
<1>5. CASE CloseDispatcher
  BY <1>5 DEF CloseDispatcher, Ended
<1>6. CASE UNCHANGED <<gen, confChan, isReload, posted>>
  BY <1>6
<1> QED
  BY <1>1, <1>2, <1>3, <1>4, <1>5, <1>6
  DEF Next, Main, Loop, Unblocked, Interrupt, Submit, Initialize, Attach, StartReader,
        StartFails, Detach, CloseReader, ReadersClosed, CloseClosers,
        LoopCheck, ReadRecord, ReadError, ReadClosed, DecodeFails,
        HandleEvent, LoopExit, Dispatch, Ended, LoopsFinished, vars, mainVars,
        envVars, kernVars, loopVars, sinkVars

\* The sinks are opened before a session begins, and closed when its loops are over.
LEMMA SinksStep ==
    SinksOpen /\ [Next]_vars => SinksOpen'
<1> SUFFICES ASSUME SinksOpen, [Next]_vars PROVE SinksOpen'
  OBVIOUS
<1> USE ConstantsAssumption DEF SinksOpen, Ended, mainVars, envVars, kernVars,
        loopVars, sinkVars
<1>1. CASE Interrupt
  BY <1>1 DEF Interrupt
<1>2. CASE Initialize
  BY <1>2 DEF Initialize
<1>3. CASE Attach
  BY <1>3 DEF Attach
<1>4. CASE StartFails
  BY <1>4 DEF StartFails
<1>5. CASE Started
  BY <1>5 DEF Started
<1>6. CASE StopSignal
  BY <1>6 DEF StopSignal
<1>7. CASE Reload
  BY <1>7 DEF Reload
<1>8. CASE Detach
  BY <1>8 DEF Detach
<1>9. CASE ReadersClosed
  BY <1>9 DEF ReadersClosed
<1>10. CASE CloseClosers
  BY <1>10 DEF CloseClosers, LoopsFinished
<1>11. CASE CloseDispatcher
  BY <1>11 DEF CloseDispatcher
<1>12. CASE UNCHANGED <<main, text, dispatcher>>
  BY <1>12
<1> QED
  BY <1>1, <1>2, <1>3, <1>4, <1>5, <1>6, <1>7, <1>8, <1>9, <1>10, <1>11, <1>12
  DEF Next, Main, Loop, Unblocked, PostConfig, Submit, StartReader, CloseReader,
        LoopCheck, ReadRecord, ReadError, ReadClosed, DecodeFails,
        HandleEvent, LoopExit, Dispatch, vars, mainVars, envVars, kernVars,
        loopVars, sinkVars

\* Readers and loops are over before the sinks are closed, and none starts before Start().
LEMMA QuietStep ==
    TypeOK /\ Quiet /\ [Next]_vars => Quiet'
<1> SUFFICES ASSUME TypeOK, Quiet, [Next]_vars PROVE Quiet'
  OBVIOUS
<1> USE ConstantsAssumption DEF TypeOK, Quiet, Finished, Ended, mainVars,
        envVars, kernVars, loopVars, sinkVars
<1>1. CASE Interrupt
  BY <1>1 DEF Interrupt
<1>2. CASE Initialize
  BY <1>2 DEF Initialize
<1>3. CASE Attach
  BY <1>3 DEF Attach
<1>4. ASSUME NEW r \in Readers, StartReader(r) PROVE Quiet'
  BY <1>4 DEF StartReader
<1>5. CASE StartFails
  BY <1>5 DEF StartFails
<1>6. CASE Started
  BY <1>6 DEF Started
<1>7. CASE StopSignal
  BY <1>7 DEF StopSignal
<1>8. CASE Reload
  BY <1>8 DEF Reload
<1>9. CASE Detach
  BY <1>9 DEF Detach
<1>10. ASSUME NEW r \in Readers, CloseReader(r) PROVE Quiet'
  BY <1>10 DEF CloseReader
<1>11. CASE ReadersClosed
  BY <1>11 DEF ReadersClosed
<1>12. CASE CloseClosers
  BY <1>12 DEF CloseClosers, LoopsFinished
<1>13. CASE CloseDispatcher
  BY <1>13 DEF CloseDispatcher
<1>14. ASSUME NEW r \in Readers, LoopCheck(r) PROVE Quiet'
  BY <1>14 DEF LoopCheck
<1>15. ASSUME NEW r \in Readers, ReadRecord(r) PROVE Quiet'
  BY <1>15 DEF ReadRecord
<1>16. ASSUME NEW r \in Readers, ReadError(r) PROVE Quiet'
  BY <1>16 DEF ReadError
<1>17. ASSUME NEW r \in Readers, ReadClosed(r) PROVE Quiet'
  BY <1>17 DEF ReadClosed
<1>18. ASSUME NEW r \in Readers, DecodeFails(r) PROVE Quiet'
  BY <1>18 DEF DecodeFails
<1>19. ASSUME NEW r \in Readers, HandleEvent(r) PROVE Quiet'
  BY <1>19 DEF HandleEvent, Dispatch
<1>20. ASSUME NEW r \in Readers, LoopExit(r) PROVE Quiet'
  BY <1>20 DEF LoopExit, Dispatch
<1>21. CASE UNCHANGED <<main, rdOpen, loop>>
  BY <1>21
<1> QED
  BY <1>1, <1>2, <1>3, <1>4, <1>5, <1>6, <1>7, <1>8, <1>9, <1>10, <1>11,
        <1>12, <1>13, <1>14, <1>15, <1>16, <1>17, <1>18, <1>19, <1>20, <1>21
  DEF Next, Main, Loop, Unblocked, PostConfig, Submit, vars, mainVars, envVars, kernVars,
        loopVars, sinkVars

\* A loop flushes its reorder buffer before it ends.
LEMMA LoopStep ==
    TypeOK /\ LoopState /\ [Next]_vars => LoopState'
<1> SUFFICES ASSUME TypeOK, LoopState, [Next]_vars PROVE LoopState'
  OBVIOUS
<1> USE ConstantsAssumption DEF TypeOK, LoopState, Finished, mainVars,
        envVars, kernVars, loopVars, sinkVars
<1>1. ASSUME NEW r \in Readers, StartReader(r) PROVE LoopState'
  BY <1>1 DEF StartReader
<1>2. ASSUME NEW r \in Readers, LoopCheck(r) PROVE LoopState'
  BY <1>2 DEF LoopCheck
<1>3. ASSUME NEW r \in Readers, ReadRecord(r) PROVE LoopState'
  BY <1>3 DEF ReadRecord
<1>4. ASSUME NEW r \in Readers, ReadError(r) PROVE LoopState'
  BY <1>4 DEF ReadError
<1>5. ASSUME NEW r \in Readers, ReadClosed(r) PROVE LoopState'
  BY <1>5 DEF ReadClosed
<1>6. ASSUME NEW r \in Readers, DecodeFails(r) PROVE LoopState'
  BY <1>6 DEF DecodeFails
<1>7. ASSUME NEW r \in Readers, HandleEvent(r) PROVE LoopState'
  BY <1>7 DEF HandleEvent, Dispatch
<1>8. ASSUME NEW r \in Readers, LoopExit(r) PROVE LoopState'
  BY <1>8 DEF LoopExit, Dispatch
<1>9. CASE UNCHANGED <<loop, hand, held>>
  BY <1>9
<1> QED
  BY <1>1, <1>2, <1>3, <1>4, <1>5, <1>6, <1>7, <1>8, <1>9
  DEF Next, Main, Loop, Unblocked, PostConfig, Interrupt, Submit, Initialize, Attach,
        StartFails, Started, StopSignal, Reload, Detach, CloseReader,
        ReadersClosed, CloseClosers, CloseDispatcher, Ended, LoopsFinished,
        vars, mainVars, envVars, kernVars, loopVars, sinkVars

\* A loop that dispatches is not over, so the sinks are still open.
LEMMA LateStep ==
    TypeOK /\ NoneLostAtClose /\ SinksOpen /\ Quiet /\ [Next]_vars => NoneLostAtClose'
<1> SUFFICES ASSUME TypeOK, NoneLostAtClose, SinksOpen, Quiet, [Next]_vars
             PROVE  NoneLostAtClose'
  OBVIOUS
<1> USE ConstantsAssumption DEF TypeOK, NoneLostAtClose, SinksOpen, Quiet,
        Finished, Ended, mainVars, envVars, kernVars, loopVars, sinkVars
<1>1. ASSUME NEW r \in Readers, HandleEvent(r) PROVE NoneLostAtClose'
  BY <1>1 DEF HandleEvent, Dispatch
<1>2. ASSUME NEW r \in Readers, LoopExit(r) PROVE NoneLostAtClose'
  BY <1>2 DEF LoopExit, Dispatch
<1>3. CASE UNCHANGED <<late>>
  BY <1>3
<1> QED
  BY <1>1, <1>2, <1>3
  DEF Next, Main, Loop, Unblocked, PostConfig, Interrupt, Submit, Initialize, Attach,
        StartReader, StartFails, Started, StopSignal, Reload, Detach,
        CloseReader, ReadersClosed, CloseClosers, CloseDispatcher, LoopCheck,
        ReadRecord, ReadError, ReadClosed, DecodeFails, LoopsFinished, vars,
        mainVars, envVars, kernVars, loopVars, sinkVars

\* Every step that moves a record takes it out of the place where it was.
LEMMA PlaceStep ==
    TypeOK /\ LoopState /\ OnePlace /\ [Next]_vars => OnePlace'
<1> SUFFICES ASSUME TypeOK, LoopState, OnePlace, [Next]_vars PROVE OnePlace'
  OBVIOUS
<1> USE ConstantsAssumption DEF TypeOK, OnePlace, LoopState, mainVars,
        envVars, kernVars, loopVars, sinkVars
<1>1. ASSUME NEW x \in Records, Submit(x) PROVE OnePlace'
  <2> DEFINE q == ReaderOf[x]
  <2>1. q \in Readers /\ ring[q] \in Seq(Records)
    BY <1>1
  <2>2. x \notin held[q] \cup delivered \cup skipped /\ hand[q] # x
        /\ \A i \in DOMAIN ring[q] : ring[q][i] # x
    BY <1>1, <2>1 DEF Submit, Submitted, InRing, InLoop
  <2>3. \A r \in Readers : hand[r] # x /\ x \notin held[r]
    BY <1>1, <2>1, <2>2
  <2>4. CASE Len(ring[q]) < RingCap
    <3> DEFINE longer == Append(ring[q], x)
    <3>1. /\ ring' = [ring EXCEPT ![q] = longer]
          /\ UNCHANGED <<hand, held, delivered, skipped>>
      BY <1>1, <2>4 DEF Submit
    <3>2. Distinct(ring[q])
      BY <2>1 DEF Distinct
    <3>3. /\ Distinct(longer)
          /\ \A i \in DOMAIN longer :
                longer[i] = x \/ \E k \in DOMAIN ring[q] : longer[i] = ring[q][k]
      BY <1>1, <2>1, <2>2, <3>2, AppendDistinct
    <3> HIDE DEF longer
    <3>4. ring'[q] = longer /\ \A r \in Readers : r # q => ring'[r] = ring[r]
      BY <2>1, <3>1
    <3>5. ASSUME NEW r \in Readers, NEW i \in DOMAIN ring'[r]
          PROVE  /\ ReaderOf[ring'[r][i]] = r
                 /\ ring'[r][i] \notin held[r] \cup delivered \cup skipped
                 /\ ring'[r][i] # hand[r]
                 /\ \A j \in DOMAIN ring'[r] : ring'[r][i] = ring'[r][j] => i = j
      <4>1. CASE r # q
        BY <3>4, <4>1
      <4>2. CASE r = q
        <5>1. ring'[r][i] = x \/ \E k \in DOMAIN ring[q] : ring'[r][i] = ring[q][k]
          BY <3>3, <3>4, <4>2
        <5>2. \A j \in DOMAIN ring'[r] : ring'[r][i] = ring'[r][j] => i = j
          BY <3>3, <3>4, <4>2 DEF Distinct
        <5> QED
          BY <2>1, <2>2, <4>2, <5>1, <5>2
      <4> QED
        BY <4>1, <4>2
    <3> QED
      BY <3>1, <3>5
  <2>5. CASE ~(Len(ring[q]) < RingCap)
    <3>1. skipped' = skipped \cup {x} /\ UNCHANGED <<ring, hand, held, delivered>>
      BY <1>1, <2>5 DEF Submit
    <3>2. \A r \in Readers : \A i \in DOMAIN ring[r] : ring[r][i] # x
      BY <2>2
    <3> QED
      BY <2>2, <2>3, <3>1, <3>2
  <2> QED
    BY <2>4, <2>5
<1>2. CASE Attach
  BY <1>2 DEF Attach, Ended
<1>3. ASSUME NEW r \in Readers, ReadRecord(r) PROVE OnePlace'
  <2> DEFINE t == Tail(ring[r])
  <2>1. ring[r] \in Seq(Records) /\ ring[r] # <<>>
    BY <1>3 DEF ReadRecord
  <2>2. Distinct(ring[r])
    BY <2>1 DEF Distinct
  <2> HIDE DEF t
  <2>7. /\ Distinct(t) /\ 1 \in DOMAIN ring[r] /\ Head(ring[r]) = ring[r][1]
        /\ \A i \in DOMAIN t : t[i] # Head(ring[r]) /\ \E k \in DOMAIN ring[r] : t[i] = ring[r][k]
    BY <2>1, <2>2, TailDistinct DEF t
  <2>3. /\ ring' = [ring EXCEPT ![r] = t] /\ hand' = [hand EXCEPT ![r] = Head(ring[r])]
        /\ UNCHANGED <<held, delivered, skipped>>
    BY <1>3 DEF ReadRecord, t
  <2>4. /\ ring'[r] = t /\ \A q \in Readers : q # r => ring'[q] = ring[q]
        /\ hand'[r] = ring[r][1] /\ \A q \in Readers : q # r => hand'[q] = hand[q]
    BY <1>3, <2>3, <2>7
  <2>5. ASSUME NEW q \in Readers, NEW i \in DOMAIN ring'[q]
        PROVE  /\ ReaderOf[ring'[q][i]] = q
               /\ ring'[q][i] \notin held[q] \cup delivered \cup skipped
               /\ ring'[q][i] # hand'[q]
               /\ \A j \in DOMAIN ring'[q] : ring'[q][i] = ring'[q][j] => i = j
    <3>1. CASE q # r
      BY <2>4, <3>1
    <3>2. CASE q = r
      BY <2>4, <2>7, <3>2 DEF Distinct
    <3> QED
      BY <3>1, <3>2
  <2>6. ASSUME NEW q \in Readers, hand'[q] # NoRecord
        PROVE  ReaderOf[hand'[q]] = q /\ hand'[q] \notin held[q] \cup delivered \cup skipped
    <3>1. CASE q # r
      BY <2>4, <2>6, <3>1
    <3>2. CASE q = r
      BY <2>4, <2>7, <3>2
    <3> QED
      BY <3>1, <3>2
  <2> QED
    BY <2>3, <2>5, <2>6
<1>4. ASSUME NEW r \in Readers, DecodeFails(r) PROVE OnePlace'
  BY <1>4 DEF DecodeFails
<1>5. ASSUME NEW r \in Readers, HandleEvent(r) PROVE OnePlace'
  BY <1>5 DEF HandleEvent, Dispatch
<1>6. ASSUME NEW r \in Readers, LoopExit(r) PROVE OnePlace'
  BY <1>6 DEF LoopExit, Dispatch
<1>7. CASE UNCHANGED <<ring, hand, held, delivered, skipped>>
  BY <1>7
<1> QED
  BY <1>1, <1>2, <1>3, <1>4, <1>5, <1>6, <1>7
  DEF Next, Main, Loop, Unblocked, PostConfig, Interrupt, Initialize, StartReader,
        StartFails, Started, StopSignal, Reload, Detach, CloseReader,
        ReadersClosed, CloseClosers, CloseDispatcher, LoopCheck, ReadError,
        ReadClosed, Ended, LoopsFinished, vars, mainVars, envVars, kernVars,
        loopVars, sinkVars

-----------------------------------------------------------------------------
\* The initial state satisfies Inv.
LEMMA InitInv == Init => Inv
<1> SUFFICES ASSUME Init PROVE Inv
  OBVIOUS
<1>1. <<>> \in Seq(Records) /\ <<>> \in Seq({"same", "other"})
      /\ Len(<<>>) = 0 /\ DOMAIN <<>> = {}
  OBVIOUS
<1>2. TypeOK
  <2>1. confChan \in Seq({"same", "other"}) /\ Len(confChan) <= ConfCap
    BY <1>1, ConstantsAssumption DEF Init
  <2>2. ring \in [Readers -> Seq(Records)]
    BY <1>1 DEF Init
  <2>3. /\ posted \in 0 .. MaxReloads /\ gen \in 0 .. MaxReloads
        /\ signals \in 0 .. MaxSignals
    BY ConstantsAssumption DEF Init
  <2>4. held \in [Readers -> SUBSET Records]
    BY DEF Init
  <2> QED
    BY <2>1, <2>2, <2>3, <2>4 DEF Init, TypeOK
<1>3. ReloadsPosted
  BY <1>1 DEF Init, ReloadsPosted
<1>4. OnePlace
  BY <1>1 DEF Init, OnePlace
<1> QED
  BY <1>2, <1>3, <1>4
  DEF Init, Inv, NoneLostAtClose, SinksOpen, Quiet, LoopState, Finished

\* Inv is inductive, and so holds in every state of every behaviour of runProbe(),
\* the reader goroutines, the HTTP server and the kernel.
THEOREM Invariance == Spec => []Inv
<1>1. Inv /\ [Next]_vars => Inv'
  BY TypeStep, ReloadStep, SinksStep, QuietStep, LoopStep, LateStep, PlaceStep DEF Inv
<1> QED
  BY InitInv, <1>1, PTL DEF Spec

\* Type correctness, for every number of readers and reloads: confChan never
\* exceeds its capacity, and every session has its own stopper.
THEOREM TypeCorrectness == Spec => []TypeOK
<1>1. Inv => TypeOK
  BY DEF Inv
<1> QED
  BY Invariance, <1>1, PTL

\* BaseProbe.Close(): no event read or held back by any reader loop meets a
\* closed dispatcher or a closed handler.
THEOREM NothingLate == Spec => []NoneLostAtClose
<1>1. Inv => NoneLostAtClose
  BY DEF Inv
<1> QED
  BY Invariance, <1>1, PTL

\* "goto reload": a session is set up only when no loop of the previous one is
\* alive, none of its readers open, and nothing is held back.
THEOREM NoOverlap == Spec => []SessionsDisjoint
<1>1. Inv => SessionsDisjoint
  BY DEF Inv, Quiet, LoopState, Finished, SessionsDisjoint
<1> QED
  BY Invariance, <1>1, PTL

\* A record handed to the handlers is in no buffer, in no loop's hand and was not
\* skipped: it cannot be delivered again.
THEOREM AtMostOnce == Spec => []DeliveredOnce
<1>1. Inv => DeliveredOnce
  <2> SUFFICES ASSUME Inv, NEW x \in delivered
               PROVE  ~InRing(x) /\ ~InLoop(x) /\ x \notin skipped
    BY DEF DeliveredOnce
  <2>1. x \in Records /\ ReaderOf[x] \in Readers /\ x # NoRecord
    BY ConstantsAssumption DEF Inv, TypeOK
  <2> QED
    BY <2>1 DEF Inv, OnePlace, InRing, InLoop
<1> QED
  BY Invariance, <1>1, PTL
=============================================================================
