---------------------------- MODULE PerfReorder ----------------------------
(***************************************************************************)
(* perfLagReorder (internal/probe/base/perf_reorder.go): the buffer with   *)
(* which perfEventLoopOrdered puts events back into the order of their     *)
(* kernel timestamps.  An event is held until one that is lagNs newer has  *)
(* been read, until maxPending events are held, or until the loop ends.    *)
(* Timestamps are nanoseconds since boot, far below 2^63, so the code's    *)
(* conversions to int64 do not change them.                                *)
(***************************************************************************)
EXTENDS Integers, Sequences, FiniteSets, SequencesExt

CONSTANTS
    Events,      \* the events read from the perf buffer, each once
    Mono,        \* PerfMonoNs(): [Events -> Nat]
    LagNs,       \* lagNs
    MaxPending   \* maxPending (1024)

\* What the code makes sure of.
ReorderConstantsOK ==
    /\ Mono \in [Events -> Nat]
    /\ LagNs \in Nat /\ MaxPending \in Nat \ {0}

VARIABLES
    buf,         \* perfLagReorder.buf
    dispatched,  \* the events handed to Dispatch(), in order
    arrived,     \* the events pushed, in order
    pressed,     \* flushPressure() has run
    running      \* the loop has not ended

vars == <<buf, dispatched, arrived, pressed, running>>

Init ==
    /\ buf = <<>> /\ dispatched = <<>> /\ arrived = <<>>
    /\ pressed = FALSE /\ running = TRUE

\* The elements of s at the indices I in the order of their keys, and where the
\* keys are equal in the order of s: the place of an index is the number of
\* indices that do not come after it.
Arrange(s, I, key) ==
    LET place(i) == Cardinality({j \in I : \/ key[j] < key[i]
                                           \/ key[j] = key[i] /\ j <= i})
    IN  [k \in 1..Cardinality(I) |-> s[CHOOSE i \in I : place(i) = k]]

\* sort.SliceStable by timestamp.
StableSort(s) == Arrange(s, DOMAIN s, [i \in DOMAIN s |-> Mono[s[i]]])

\* The loop that appends the elements at the indices I, one after the other.
AppendAt(s, I) == Arrange(s, I, [i \in I |-> 0])

MaxMono(s) == CHOOSE m \in {Mono[s[i]] : i \in DOMAIN s} : \A i \in DOMAIN s : Mono[s[i]] <= m
MinMono(s) == CHOOSE m \in {Mono[s[i]] : i \in DOMAIN s} : \A i \in DOMAIN s : Mono[s[i]] >= m

\* flushPressure(): the older half goes out, at least one event.
PressureCount(b) == IF Len(b) \div 2 = 0 THEN 1 ELSE Len(b) \div 2
\* Mutant: off by one in what is kept.
FlushPressureSkips(b) ==
    [out |-> SubSeq(StableSort(b), 1, PressureCount(b)),
     keep |-> SubSeq(StableSort(b), PressureCount(b) + 2, Len(b))]

FlushPressure(b) ==
    LET sorted == StableSort(b)
        n == PressureCount(b)
    IN  [out |-> SubSeq(sorted, 1, n), keep |-> SubSeq(sorted, n + 1, Len(b))]

\* Mutant: the lag is ignored.
OldEnoughAnyAge(b, e) == Mono[e] <= MaxMono(b)

\* flushByLag(): events at least lagNs older than the newest one go out.
OldEnough(b, e) == Mono[e] <= MaxMono(b) - LagNs
FlushByLag(b) ==
    IF Len(b) <= 1 \/ MaxMono(b) - MinMono(b) < LagNs
    THEN [out |-> <<>>, keep |-> b]
    ELSE LET old == {i \in DOMAIN b : OldEnough(b, b[i])}
         IN  [out |-> StableSort(AppendAt(b, old)), keep |-> AppendAt(b, DOMAIN b \ old)]

\* The buffer has reached its limit.
Full(b) == Len(b) >= MaxPending

\* push(), and the dispatch of what it returns.
Push(e) ==
    LET b == Append(buf, e)
        flush == IF Full(b) THEN FlushPressure(b) ELSE FlushByLag(b)
    IN  /\ running
        /\ e \notin ToSet(arrived)
        /\ arrived' = Append(arrived, e)
        /\ buf' = flush.keep
        /\ dispatched' = dispatched \o flush.out
        /\ pressed' = (pressed \/ Full(b))
        /\ UNCHANGED running

\* The deferred flushAll(), when the loop ends.
FlushAll ==
    /\ running
    /\ running' = FALSE
    /\ dispatched' = dispatched \o StableSort(buf)
    /\ buf' = <<>>
    /\ UNCHANGED <<arrived, pressed>>

Next == FlushAll \/ \E e \in Events : Push(e)

Spec == Init /\ [][Next]_vars

-----------------------------------------------------------------------------
(* Properties.                                                             *)

\* Every variable stays in its type, and the buffer below maxPending.
TypeOK ==
    /\ buf \in Seq(Events) /\ Len(buf) < MaxPending
    /\ dispatched \in Seq(Events) /\ arrived \in Seq(Events)
    /\ pressed \in BOOLEAN /\ running \in BOOLEAN

\* No event is lost or dispatched twice, by whichever flush it leaves.
NothingLost ==
    /\ ToSet(arrived) = ToSet(dispatched) \cup ToSet(buf)
    /\ Len(arrived) = Len(dispatched) + Len(buf)

\* The disorder of the arrivals is within the lag: no event is more than lagNs
\* older than one that arrived before it.
DisorderWithinLag ==
    \A i, j \in DOMAIN arrived : i < j => Mono[arrived[j]] >= Mono[arrived[i]] - LagNs

\* The promise of the reordering: if the disorder is within the lag and the
\* buffer never overflowed, events are dispatched in the order of their
\* timestamps, the rest at the end of the loop included; and under any disorder
\* and any pressure, those with equal timestamps in the order of their arrival.
DispatchedInOrder ==
    \A i, j \in DOMAIN dispatched : i < j =>
        /\ DisorderWithinLag /\ ~pressed => Mono[dispatched[i]] <= Mono[dispatched[j]]
        /\ Mono[dispatched[i]] = Mono[dispatched[j]] =>
             \E a, b \in DOMAIN arrived :
                a < b /\ arrived[a] = dispatched[i] /\ arrived[b] = dispatched[j]
=============================================================================
