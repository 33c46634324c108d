------------------------------ MODULE SqlTrace ------------------------------
(***************************************************************************)
(* The queries of mysqld (kern/mysqld_kern.c).  The entry of               *)
(* dispatch_command() stores a query in sql_hash, its return sends what is *)
(* stored there with the status.  The key is the process, which all the    *)
(* connections of the server share, and an entry is never deleted.         *)
(*                                                                         *)
(* bpf_map_update_elem() puts the new value into a spare element and makes *)
(* it the entry; a program that has looked up the old one goes on with it. *)
(***************************************************************************)
EXTENDS Integers

CONSTANTS
    Conns,          \* connections, a thread each
    Slots,          \* the element of the entry and the spare ones
    NoSlot,
    SqlRets,        \* what dispatch_command() returns
    MaxPackets      \* bound: packets of a behaviour

\* NoSlot is none of the elements.
SqlConstantsOK == NoSlot \notin Slots

VARIABLES
    version,        \* 56 or 57: the pair of programs in use
    packet,         \* packet[c]: the packet connection c executes
    npackets,
    entry,          \* the element that is the entry of the process
    sql_hash,       \* what is in the elements
    data,           \* data[c]: the return program of c, between its store and its
                    \* send
    alone,          \* alone[c]: nobody else has executed anything since c began
    sent            \* the event of the last step

sqlVars == <<version, packet, npackets, entry, sql_hash, data, alone, sent>>

COM_QUERY == "query"
Commands == {COM_QUERY, "other"}
DISPATCH_COMMAND_V57_FAILED == -2
NotCaptured == -1
NoPacket == [id |-> 0, command |-> "none"]
Idle == [of |-> NoSlot]
NoEvent == [query |-> 0]

-----------------------------------------------------------------------------
\* A bug: an entry that exists is left as it is (BPF_NOEXIST).
queryKeeps(c, command) ==
    /\ packet[c] = NoPacket
    /\ npackets < MaxPackets
    /\ npackets' = npackets + 1
    /\ packet' = [packet EXCEPT ![c] = [id |-> npackets + 1, command |-> command]]
    /\ alone' = [d \in Conns |-> d = c /\ \A e \in Conns : packet[e] = NoPacket]
    /\ IF command = COM_QUERY /\ entry = NoSlot
       THEN \E e \in Slots :
              /\ entry' = e
              /\ sql_hash' = [sql_hash EXCEPT ![e] =
                   [query |-> npackets + 1,
                    retval |-> IF version = 56 THEN NotCaptured ELSE 0]]
       ELSE UNCHANGED <<entry, sql_hash>>
    /\ sent' = NoEvent
    /\ UNCHANGED <<version, data>>

\* mysql56_query() and mysql57_query(): a packet arrives on connection c.
query(c, command) ==
    /\ packet[c] = NoPacket
    /\ npackets < MaxPackets
    /\ npackets' = npackets + 1
    /\ packet' = [packet EXCEPT ![c] = [id |-> npackets + 1, command |-> command]]
    /\ alone' = [d \in Conns |-> d = c /\ \A e \in Conns : packet[e] = NoPacket]
    /\ IF command = COM_QUERY
       THEN \E e \in Slots \ {entry} :
              /\ entry' = e
              /\ sql_hash' = [sql_hash EXCEPT ![e] =
                   [query |-> npackets + 1,
                    retval |-> IF version = 56 THEN NotCaptured ELSE 0]]
       ELSE UNCHANGED <<entry, sql_hash>>
    /\ sent' = NoEvent
    /\ UNCHANGED <<version, data>>

\* The status that is stored: the one returned, or the failure of 5.7 and 8.0.
command_return(ret) ==
    IF version = 57 /\ ret = 1 THEN DISPATCH_COMMAND_V57_FAILED ELSE ret

\* mysql56_query_return() and mysql57_query_return(), up to the store of the
\* status; without an entry they end.
query_return(c, ret) ==
    /\ packet[c] # NoPacket /\ data[c] = Idle
    /\ IF entry = NoSlot
       THEN /\ packet' = [packet EXCEPT ![c] = NoPacket]
            /\ UNCHANGED <<sql_hash, data>>
       ELSE /\ sql_hash' = [sql_hash EXCEPT ![entry].retval = command_return(ret)]
            /\ data' = [data EXCEPT ![c] = [of |-> entry, ret |-> command_return(ret)]]
            /\ UNCHANGED packet
    /\ sent' = NoEvent
    /\ UNCHANGED <<version, npackets, entry, alone>>

\* The rest of them: the element is sent.
query_output(c) ==
    /\ data[c] # Idle
    /\ sent' = [query |-> sql_hash[data[c].of].query, retval |-> sql_hash[data[c].of].retval,
                packet |-> packet[c], ret |-> data[c].ret, alone |-> alone[c]]
    /\ data' = [data EXCEPT ![c] = Idle]
    /\ packet' = [packet EXCEPT ![c] = NoPacket]
    /\ UNCHANGED <<version, npackets, entry, sql_hash, alone>>

Init ==
    /\ version \in {56, 57}
    /\ packet = [c \in Conns |-> NoPacket]
    /\ npackets = 0
    /\ entry = NoSlot
    /\ sql_hash = [e \in Slots |-> [query |-> 0, retval |-> 0]]
    /\ data = [c \in Conns |-> Idle]
    /\ alone = [c \in Conns |-> FALSE]
    /\ sent = NoEvent

Next ==
    \E c \in Conns :
        \/ \E command \in Commands : query(c, command)
        \/ \E ret \in SqlRets : query_return(c, ret)
        \/ query_output(c)

Spec == Init /\ [][Next]_sqlVars

-----------------------------------------------------------------------------
\* The state is one the declarations allow.
TypeOK ==
    /\ packet \in [Conns -> [id : 0 .. MaxPackets, command : Commands \cup {"none"}]]
    /\ entry \in Slots \cup {NoSlot}
    /\ sql_hash \in [Slots -> [query : 0 .. MaxPackets, retval : SqlRets \cup {NotCaptured, DISPATCH_COMMAND_V57_FAILED}]]
    /\ alone \in [Conns -> BOOLEAN]

\* A query that had the server to itself is reported with its own text and its own
\* status, whatever other connections did before it.  (Two connections at a
\* time share the one entry of the process.)
AloneIsOwn ==
    (sent # NoEvent /\ sent.alone /\ sent.packet.command = COM_QUERY) =>
        sent.query = sent.packet.id /\ sent.retval = sent.ret
=============================================================================
