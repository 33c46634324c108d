----------------------------- MODULE CallTrace -----------------------------
(***************************************************************************)
(* The uprobe and uretprobe programs that capture plaintext (kern/openssl.h*)
(* kern/gnutls.h, kern/nspr_kern.c).  The program at the entry of a call   *)
(* keeps its arguments in a hash map under pid_tgid, the one at the return *)
(* takes them from there, copies the data and deletes the entry.           *)
(*                                                                         *)
(* Calls are numbered in the order in which they are entered; a number     *)
(* stands for the arguments of the call (buffer, fd, version, BIO).  A     *)
(* thread can be in several calls: TLS carried in TLS runs SSL_read inside *)
(* SSL_read.  The verdict of passes_filter() is the one of the moment: the *)
(* uid and the cgroup of a thread may change while it is in a call.        *)
(***************************************************************************)
EXTENDS Integers, FiniteSets

CONSTANTS
    Threads,
    Rets,           \* what a traced call can return
    MapCap,         \* max_entries of a map of arguments
    MaxData,        \* MAX_DATA_SIZE_OPENSSL
    MaxCalls,       \* bound: calls of a behaviour
    MaxDepth,       \* bound: calls a thread is in
    MaxMoves        \* bound: how often a thread changes uid or cgroup

\* What the programs take for granted of their constants.
ConstantsOK ==
    /\ Rets \subseteq Int
    /\ MaxData \in Nat \ {0}

VARIABLES
    object,         \* the object that is loaded
    open,           \* open[t]: the calls thread t is in
    args_map,       \* args_map[f][t]: the call stored for t, 0 is none
    passes,         \* passes[t]: what passes_filter() answers for t
    moves,          \* moves[t]: how often that answer has changed
    ncalls,         \* the number of calls entered
    emitted         \* the events of the perf buffer

vars == <<object, open, args_map, passes, moves, ncalls, emitted>>

Objects == {"openssl", "gnutls", "nspr"}
\* active_ssl_write_args_map and active_ssl_read_args_map
Maps == {"write", "read"}
NoCall == 0

Call == [id : Nat, map : Maps]
Event == [call : Nat, args : Nat, len : Nat, moves : Nat]

-----------------------------------------------------------------------------
\* The innermost call of thread t.
Innermost(t, c) == c \in open[t] /\ \A d \in open[t] : d.id <= c.id

\* bpf_map_update_elem() on a hash map: an entry that exists is replaced, a
\* new one needs room.
Update(f, t, id) ==
    IF /\ args_map[f][t] = NoCall
       /\ Cardinality({u \in Threads : args_map[f][u] # NoCall}) >= MapCap
    THEN args_map
    ELSE [args_map EXCEPT ![f][t] = id]

\* A bug: the length is not limited.
data_lenUnlimited(ret) == ret

\* The length of the copy: len & (MaxData - 1) below the limit, which is a
\* power of two, the limit otherwise.
data_len(ret) == IF ret < MaxData THEN ret % MaxData ELSE MaxData

\* The events of the return of call c of thread t with the arguments args: a
\* failed call has none, and the perf buffer may be full.
process_SSL_data(t, c, args, ret) ==
    \/ UNCHANGED emitted
    \/ /\ ret >= 0
       /\ emitted' = emitted \cup
            {[call |-> c.id, args |-> args, len |-> data_len(ret), moves |-> moves[t]]}

\* The entry of a function that is traced.
probe_entry_SSL(t, f) ==
    /\ ncalls < MaxCalls
    /\ Cardinality(open[t]) < MaxDepth
    /\ ncalls' = ncalls + 1
    /\ open' = [open EXCEPT ![t] = @ \cup {[id |-> ncalls + 1, map |-> f]}]
    /\ args_map' = IF passes[t] THEN Update(f, t, ncalls + 1) ELSE args_map
    /\ UNCHANGED <<object, passes, moves, emitted>>

\* A bug: the return leaves the entry.
probe_ret_SSLKeeps(t, f) ==
    \E c \in open[t], ret \in Rets :
        /\ Innermost(t, c)
        /\ c.map = f
        /\ open' = [open EXCEPT ![t] = @ \ {c}]
        /\ IF passes[t] /\ args_map[f][t] # NoCall
           THEN process_SSL_data(t, c, args_map[f][t], ret)
           ELSE UNCHANGED emitted
        /\ UNCHANGED <<object, args_map, passes, moves, ncalls>>

\* Its return: the filter comes before the deletion.
probe_ret_SSL(t, f) ==
    \E c \in open[t], ret \in Rets :
        /\ Innermost(t, c)
        /\ c.map = f
        /\ open' = [open EXCEPT ![t] = @ \ {c}]
        /\ IF passes[t]
           THEN /\ IF args_map[f][t] # NoCall
                   THEN process_SSL_data(t, c, args_map[f][t], ret)
                   ELSE UNCHANGED emitted
                /\ args_map' = [args_map EXCEPT ![f][t] = NoCall]
           ELSE UNCHANGED <<args_map, emitted>>
        /\ UNCHANGED <<object, passes, moves, ncalls>>

-----------------------------------------------------------------------------
\* The programs of the three objects.
SSL_write(t) ==
    /\ object = "openssl"
    /\ probe_entry_SSL(t, "write") \/ probe_ret_SSL(t, "write")

SSL_read(t) ==
    /\ object = "openssl"
    /\ probe_entry_SSL(t, "read") \/ probe_ret_SSL(t, "read")

gnutls_record_send(t) ==
    /\ object = "gnutls"
    /\ probe_entry_SSL(t, "write") \/ probe_ret_SSL(t, "write")

gnutls_record_recv(t) ==
    /\ object = "gnutls"
    /\ probe_entry_SSL(t, "read") \/ probe_ret_SSL(t, "read")

PR_Write(t) ==
    /\ object = "nspr"
    /\ probe_entry_SSL(t, "write") \/ probe_ret_SSL(t, "write")

PR_Read(t) ==
    /\ object = "nspr"
    /\ probe_entry_SSL(t, "read") \/ probe_ret_SSL(t, "read")

\* The thread ends inside its calls, or leaves all of them by a longjmp: no
\* program runs.  A later thread may get the same id.
Unwind(t) ==
    /\ open[t] # {}
    /\ open' = [open EXCEPT ![t] = {}]
    /\ UNCHANGED <<object, args_map, passes, moves, ncalls, emitted>>

\* setuid(), or a move to another cgroup, turns the verdict of the filter.
Move(t) ==
    /\ moves[t] < MaxMoves
    /\ moves' = [moves EXCEPT ![t] = @ + 1]
    /\ passes' = [passes EXCEPT ![t] = ~@]
    /\ UNCHANGED <<object, open, args_map, ncalls, emitted>>

Init ==
    /\ object \in Objects
    /\ open = [t \in Threads |-> {}]
    /\ args_map = [f \in Maps |-> [t \in Threads |-> NoCall]]
    /\ passes \in [Threads -> BOOLEAN]
    /\ moves = [t \in Threads |-> 0]
    /\ ncalls = 0
    /\ emitted = {}

Next ==
    \E t \in Threads :
        \/ SSL_write(t) \/ SSL_read(t)
        \/ gnutls_record_send(t) \/ gnutls_record_recv(t)
        \/ PR_Write(t) \/ PR_Read(t)
        \/ Unwind(t) \/ Move(t)

Spec == Init /\ [][Next]_vars

-----------------------------------------------------------------------------
\* The state is one the declarations allow.
TypeOK ==
    /\ object \in Objects
    /\ open \in [Threads -> SUBSET Call]
    /\ args_map \in [Maps -> [Threads -> Nat]]
    /\ passes \in [Threads -> BOOLEAN]
    /\ moves \in [Threads -> Nat]
    /\ ncalls \in Nat
    /\ emitted \subseteq Event

\* The event of a return shows the arguments of the call that returned, however
\* calls are nested, threads end and maps fill up, as long as the thread
\* has crossed the border of the filter at most once.  (Having crossed it
\* twice, a return can find the entry of an earlier call: the program at
\* the earlier return left it, openssl.h:305.)
OwnArguments == \A e \in emitted : e.moves <= 1 => e.args = e.call

\* What is stored for a thread that passes the filter is of its innermost
\* call of that function, or the thread is in none; a thread that never
\* passed it has nothing stored.
StoredIsInnermost ==
    \A t \in Threads, f \in Maps :
        args_map[f][t] # NoCall =>
            /\ moves[t] = 0 => passes[t]
            /\ passes[t] /\ moves[t] <= 1 =>
                 \/ \A c \in open[t] : c.map # f
                 \/ \E c \in open[t] :
                      /\ c.map = f
                      /\ c.id = args_map[f][t]
                      /\ \A d \in open[t] : d.map = f => d.id <= c.id

\* Every call has its own number, and only calls that were entered are open.
CallsNumbered ==
    /\ \A t \in Threads : \A c \in open[t] : c.id \in 1 .. ncalls
    /\ \A t, u \in Threads : \A c \in open[t], d \in open[u] :
         c.id = d.id => t = u /\ c = d

\* The programs implement CallLog, whose reports are the events of threads
\* that crossed the border of the filter at most once.
Reported ==
    {[call |-> e.call, args |-> e.args, len |-> e.len] :
        e \in {x \in emitted : x.moves <= 1}}

Abstract == INSTANCE CallLog WITH
    begun <- ncalls,
    active <- {c.id : c \in UNION {open[t] : t \in Threads}},
    log <- Reported

ImplementsCallLog == Abstract!Spec
=============================================================================
