----------------------------- MODULE ShellTrace -----------------------------
(***************************************************************************)
(* The commands of bash (kern/bash_kern.c and internal/probe/bash).  The   *)
(* return of readline() stores an event in events_t under the pid and sends*)
(* it; the first return of execute_command() after it sends it again, with *)
(* the status.  handleEvent() puts the lines of a command together.        *)
(*                                                                         *)
(* A line is a number, in the order in which lines are read.  A shell moves*)
(* between CPUs, each CPU has its own ring, and the reader may take an     *)
(* event of one ring before an earlier one of another.                     *)
(***************************************************************************)
EXTENDS Integers, Sequences, FiniteSets, SequencesExt

CONSTANTS
    Shells,         \* pids of shells that pass the filter
    Cpus,
    Elems,          \* the elements of events_t (max_entries)
    NoElem,
    Statuses,       \* what execute_command() returns
    ErrNo,          \* config.ErrNo, target_errno
    RingCap,        \* events a ring holds
    MaxLines        \* bound: lines read

\* NoElem is none of the elements.
ShellConstantsOK == NoElem \notin Elems

BASH_ERRNO_DEFAULT == 128

VARIABLES
    nlines,         \* lines read so far
    slot,           \* slot[s]: the element of events_t that is s's
    events_t,       \* what is in the elements, of the free ones as well
    sending,        \* sending[s]: the element a return program has deleted and
                    \* is about to send
    rings,          \* the events in the rings, in the order they were sent; each
                    \* has the CPU whose ring it is in
    lineMap,        \* lineMap[s]: the lines collected by handleEvent()
    shown,          \* the commands shown
    due,            \* due[s]: the lines read since s last reported a command
    upset           \* what went wrong: "lost", "overtaken", "reused"

shellVars == <<nlines, slot, events_t, sending, rings, lineMap, shown, due, upset>>

Blank == [type |-> "none", pid |-> NoElem, line |-> 0, retval |-> 0]
Idle == [of |-> NoElem]

-----------------------------------------------------------------------------
\* bpf_perf_event_output(): a full ring loses the event.  The event is stamped
\* with the lines that are due.
Send(c, e, lines, mishaps) ==
    IF Cardinality({i \in DOMAIN rings : rings[i].cpu = c}) < RingCap
    THEN /\ rings' = Append(rings, [cpu |-> c, data |-> e, due |-> lines])
         /\ upset' = upset \cup mishaps
    ELSE /\ upset' = upset \cup mishaps \cup {"lost"}
         /\ UNCHANGED rings

\* readline() returns a line.
uretprobe_bash_readline(s, c) ==
    LET event == [type |-> "readline", pid |-> s, line |-> nlines + 1, retval |-> 0]
        free == {e \in Elems : \A u \in Shells : slot[u] # e}
        target == IF slot[s] # NoElem THEN {slot[s]} ELSE free
    IN  /\ sending[s] = Idle
        /\ nlines < MaxLines
        /\ nlines' = nlines + 1
        /\ due' = [due EXCEPT ![s] = Append(@, nlines + 1)]
        /\ \/ /\ target = {}
              /\ Send(c, event, <<>>, {})
              /\ UNCHANGED <<slot, events_t>>
           \/ \E e \in target :
                /\ slot' = [slot EXCEPT ![s] = e]
                /\ events_t' = [events_t EXCEPT ![e] = event]
                /\ Send(c, event, <<>>, {"reused" : u \in {v \in Shells : sending[v].of = e}})
        /\ UNCHANGED <<sending, lineMap, shown>>

\* execute_command() returns: the event of the line, if there is one, gets the
\* status.  Here with a status that is not the wanted one (which is not looked at
\* on a kernel before 5.2): 128 is sent in its place, and the entry deleted
\* afterwards.
retval_other(s, c, status) ==
    /\ sending[s] = Idle
    /\ ErrNo # BASH_ERRNO_DEFAULT /\ ErrNo # status
    /\ slot[s] # NoElem
    /\ events_t' = [events_t EXCEPT ![slot[s]].type = "retval",
                                  ![slot[s]].retval = BASH_ERRNO_DEFAULT]
    /\ Send(c, events_t'[slot[s]], due[s], {})
    /\ slot' = [slot EXCEPT ![s] = NoElem]
    /\ due' = [due EXCEPT ![s] = <<>>]
    /\ UNCHANGED <<nlines, sending, lineMap, shown>>

\* Otherwise the entry is deleted first and sent afterwards.
retval_wanted(s, status) ==
    /\ sending[s] = Idle
    /\ ErrNo \in {BASH_ERRNO_DEFAULT, status}
    /\ slot[s] # NoElem
    /\ events_t' = [events_t EXCEPT ![slot[s]].type = "retval", ![slot[s]].retval = status]
    /\ slot' = [slot EXCEPT ![s] = NoElem]
    /\ sending' = [sending EXCEPT ![s] = [of |-> slot[s], due |-> due[s]]]
    /\ due' = [due EXCEPT ![s] = <<>>]
    /\ UNCHANGED <<nlines, rings, lineMap, shown, upset>>

retval_send(s, c) ==
    /\ sending[s] # Idle
    /\ Send(c, events_t[sending[s].of], sending[s].due, {})
    /\ sending' = [sending EXCEPT ![s] = Idle]
    /\ UNCHANGED <<nlines, slot, events_t, lineMap, shown, due>>

\* exec_builtin() or exit_builtin() is entered; the entry of events_t stays.
send_bash_exit_event(s, c) ==
    /\ sending[s] = Idle
    /\ due[s] # <<>>
    /\ Send(c, [type |-> "exit", pid |-> s, line |-> 0, retval |-> 0], due[s], {})
    /\ due' = [due EXCEPT ![s] = <<>>]
    /\ UNCHANGED <<nlines, slot, events_t, sending, lineMap, shown>>

-----------------------------------------------------------------------------
\* A bug: the lines of a command that was shown are kept.
handleEventKeeps(i) ==
    LET r == rings[i]
        s == r.data.pid
        show == [pid |-> s, lines |-> lineMap[s], due |-> r.due,
                 type |-> r.data.type, retval |-> r.data.retval]
        silent == \/ lineMap[s] = <<>>
                  \/ r.data.type = "retval" /\ r.data.retval = ErrNo
    IN  /\ \A j \in 1 .. i - 1 : rings[j].cpu # r.cpu
        /\ rings' = RemoveAt(rings, i)
        /\ upset' = IF i = 1 THEN upset ELSE upset \cup {"overtaken"}
        /\ IF r.data.type = "readline"
           THEN /\ lineMap' = [lineMap EXCEPT ![s] = Append(@, r.data.line)]
                /\ UNCHANGED shown
           ELSE /\ UNCHANGED lineMap
                /\ shown' = IF silent THEN shown ELSE shown \cup {show}
        /\ UNCHANGED <<nlines, slot, events_t, sending, due>>

\* A bug: a line takes the place of the lines before it.
handleEventReplaces(i) ==
    LET r == rings[i]
        s == r.data.pid
        show == [pid |-> s, lines |-> lineMap[s], due |-> r.due,
                 type |-> r.data.type, retval |-> r.data.retval]
        silent == \/ lineMap[s] = <<>>
                  \/ r.data.type = "retval" /\ r.data.retval = ErrNo
    IN  /\ \A j \in 1 .. i - 1 : rings[j].cpu # r.cpu
        /\ rings' = RemoveAt(rings, i)
        /\ upset' = IF i = 1 THEN upset ELSE upset \cup {"overtaken"}
        /\ IF r.data.type = "readline"
           THEN /\ lineMap' = [lineMap EXCEPT ![s] = <<r.data.line>>]
                /\ UNCHANGED shown
           ELSE /\ lineMap' = [lineMap EXCEPT ![s] = <<>>]
                /\ shown' = IF silent THEN shown ELSE shown \cup {show}
        /\ UNCHANGED <<nlines, slot, events_t, sending, due>>

\* handleEvent() on the oldest event of some ring, the i-th of all.
handleEvent(i) ==
    LET r == rings[i]
        s == r.data.pid
        show == [pid |-> s, lines |-> lineMap[s], due |-> r.due,
                 type |-> r.data.type, retval |-> r.data.retval]
        silent == \/ lineMap[s] = <<>>
                  \/ r.data.type = "retval" /\ r.data.retval = ErrNo
    IN  /\ \A j \in 1 .. i - 1 : rings[j].cpu # r.cpu
        /\ rings' = RemoveAt(rings, i)
        /\ upset' = IF i = 1 THEN upset ELSE upset \cup {"overtaken"}
        /\ IF r.data.type = "readline"
           THEN /\ lineMap' = [lineMap EXCEPT ![s] = Append(@, r.data.line)]
                /\ UNCHANGED shown
           ELSE /\ lineMap' = [lineMap EXCEPT ![s] = <<>>]
                /\ shown' = IF silent THEN shown ELSE shown \cup {show}
        /\ UNCHANGED <<nlines, slot, events_t, sending, due>>

Init ==
    /\ nlines = 0
    /\ slot = [s \in Shells |-> NoElem]
    /\ events_t = [e \in Elems |-> Blank]
    /\ sending = [s \in Shells |-> Idle]
    /\ rings = <<>>
    /\ lineMap = [s \in Shells |-> <<>>]
    /\ shown = {}
    /\ due = [s \in Shells |-> <<>>]
    /\ upset = {}

Next ==
    \/ \E s \in Shells, c \in Cpus :
         \/ uretprobe_bash_readline(s, c)
         \/ \E status \in Statuses : retval_other(s, c, status)
         \/ retval_send(s, c)
         \/ send_bash_exit_event(s, c)
    \/ \E s \in Shells, status \in Statuses : retval_wanted(s, status)
    \/ \E i \in DOMAIN rings : handleEvent(i)

Spec == Init /\ [][Next]_shellVars

-----------------------------------------------------------------------------
\* The state is one the declarations allow.
TypeOK ==
    /\ nlines \in 0 .. MaxLines
    /\ slot \in [Shells -> Elems \cup {NoElem}]
    /\ Len(rings) <= RingCap * Cardinality(Cpus)
    /\ \A s \in Shells : Range(lineMap[s]) \cup Range(due[s]) \subseteq 1 .. nlines
    /\ upset \subseteq {"lost", "overtaken", "reused"}

\* A line is shown in one command at most, in whatever order the reader takes the
\* rings and whatever a ring has lost.
\* (The exception is the element that is sent after its deletion,
\* bash_kern.c:96-97: another shell may have stored its line there.)
LineShownOnce ==
    "reused" \notin upset =>
        \A a, b \in shown : a # b => Range(a.lines) \cap Range(b.lines) = {}

\* When no ring lost an event or was read ahead of another one, a command is
\* shown with all the lines its shell read since it last reported one, also
\* after an exec or an exit that failed.
WholeCommands ==
    upset = {} => \A a \in shown : a.lines = a.due
=============================================================================
