------------------------------ MODULE CallLog ------------------------------
(***************************************************************************)
(* What the plaintext programs of kern/ promise of the calls they trace:   *)
(* a call is reported when it returns and at no other moment, at most      *)
(* once, and the report describes that call and no other one.  A report    *)
(* may be missing: the process is not a target, the map of the arguments   *)
(* is full, the perf buffer overruns or the call failed.                   *)
(***************************************************************************)
EXTENDS Integers

CONSTANT MaxData        \* MAX_DATA_SIZE_OPENSSL

VARIABLES
    begun,              \* the calls begun so far are 1 .. begun
    active,             \* the calls that have not returned yet
    log                 \* the reports

vars == <<begun, active, log>>

\* A report: the call that returned, the call whose arguments it shows and
\* the bytes it copied.
Report(c, len) == [call |-> c, args |-> c, len |-> len]

Init ==
    /\ begun = 0
    /\ active = {}
    /\ log = {}

\* A traced function is entered.
Begin ==
    /\ begun' = begun + 1
    /\ active' = active \cup {begun + 1}
    /\ UNCHANGED log

\* Call c returns, with a report or without one.
Return(c) ==
    /\ c \in active
    /\ active' = active \ {c}
    /\ \/ UNCHANGED log
       \/ \E len \in 0 .. MaxData : log' = log \cup {Report(c, len)}
    /\ UNCHANGED begun

\* Calls that never return: their thread ends.
Abandon(S) ==
    /\ S \subseteq active
    /\ active' = active \ S
    /\ UNCHANGED <<begun, log>>

Next ==
    \/ Begin
    \/ \E c \in active : Return(c)
    \/ \E S \in SUBSET active : Abandon(S)

Spec == Init /\ [][Next]_vars

-----------------------------------------------------------------------------
\* A call is reported at most once, and only after it has returned.
ReportedOnce ==
    /\ \A r \in log : r.call \in 1 .. begun /\ r.call \notin active
    /\ \A r, s \in log : r.call = s.call => r = s
=============================================================================
