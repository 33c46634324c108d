------------------------------- MODULE GoTls -------------------------------
(***************************************************************************)
(* The plaintext of Go programs (kern/gotls_kern.c).  A program takes the  *)
(* one event buffer of its CPU, walks from the tls.Conn to the addresses of*)
(* the connection, and sends the payload in segments.  Every read of user  *)
(* memory can fail.                                                        *)
(*                                                                         *)
(* A connection is a positive number that stands for its descriptor and its*)
(* addresses; 0 is a field that is cleared.                                *)
(***************************************************************************)
EXTENDS Integers

CONSTANTS
    GoCpus,
    GoConns,        \* connections
    Chunk,          \* MAX_DATA_SIZE_OPENSSL, a power of two
    Segments,       \* GOTLS_MAX_SEGMENTS
    GoLens          \* lengths of a payload

GoConstantsOK ==
    /\ GoConns \subseteq Nat \ {0}
    /\ Chunk \in Nat \ {0}
    /\ Segments \in Nat \ {0}
    /\ GoLens \subseteq Int

VARIABLES
    gte_context,    \* gte_context[cpu]: the event buffer of a CPU
    payload         \* the payload of the last program, and its events

goVars == <<gte_context, payload>>

Cleared == [fd |-> 0, src |-> 0, dst |-> 0, ports |-> 0, ip_version |-> 0]
NoPayload == [len |-> 0, conn |-> 0, segs |-> {}, unread |-> {}, event |-> Cleared]

\* How far the walk comes before a read fails, or an address has an odd length:
\* no netFD, no usable addresses, the source read, both read, all read.
Walks == {"no_netfd", "no_addrs", "src", "dst", "all"}

-----------------------------------------------------------------------------
\* A bug: nothing is cleared.
get_gotls_eventDirty(cpu) == gte_context[cpu]

\* get_gotls_event(): the tuple is cleared, the payload is not.
get_gotls_event(cpu) ==
    [gte_context[cpu] EXCEPT !.fd = 0, !.src = 0, !.dst = 0, !.ports = 0, !.ip_version = 0]

\* extract_addr_from_netfd_ptr(): the version is set last.
extract_addr_from_netfd_ptr(event, conn, walk) ==
    CASE walk = "no_addrs" -> event
      [] walk = "src" -> [event EXCEPT !.src = conn]
      [] walk = "dst" -> [event EXCEPT !.src = conn, !.dst = conn]
      [] walk = "all" ->
           [event EXCEPT !.src = conn, !.dst = conn, !.ports = conn, !.ip_version = 1]

\* fill_fd_and_addr_from_tls_conn()
fill_fd_and_addr_from_tls_conn(event, conn, fd, walk) ==
    IF walk = "no_netfd" THEN event
    ELSE extract_addr_from_netfd_ptr([event EXCEPT !.fd = fd], conn, walk)

\* A bug: a segment of exactly a chunk is masked as well.
SegLenMasked(total, i) ==
    LET remain == total - i * Chunk
    IN  CASE remain <= 0 -> 0
          [] 0 < remain /\ remain <= Chunk -> remain % Chunk
          [] remain > Chunk -> Chunk

\* GOTLS_EMIT_SEG: the length of segment i, 0 if there is none.
SegLen(total, i) ==
    LET remain == total - i * Chunk
    IN  CASE remain <= 0 -> 0
          [] 0 < remain /\ remain < Chunk -> remain % Chunk
          [] remain >= Chunk -> Chunk

\* The bytes gotls_emit_payload() sends of a payload.
Total(len) == IF len > Chunk * Segments THEN Chunk * Segments ELSE len

\* gotls_emit_payload(): the segments of a payload; there are none if it is empty
\* or has a negative length.
Segs(len) ==
    {[off |-> i * Chunk, len |-> SegLen(Total(len), i)] :
        i \in {j \in 0 .. Segments - 1 : SegLen(Total(len), j) > 0}}

-----------------------------------------------------------------------------
\* What both programs do with len bytes of connection conn: a read of user memory
\* that fails loses its segment and no other one.
Emit(cpu, conn, len) ==
    \E walk \in Walks, fd \in {0, conn} :
        LET event == fill_fd_and_addr_from_tls_conn(get_gotls_event(cpu), conn, fd, walk)
        IN  /\ gte_context' = [gte_context EXCEPT ![cpu] = event]
            /\ \E unread \in {{}} \cup {{s} : s \in Segs(len)} :
                 payload' = [len |-> len, conn |-> conn, segs |-> Segs(len) \ unread,
                             unread |-> unread, event |-> event]

\* An application record is written; the programs let go a record of another type
\* and one without bytes.
gotls_write(cpu) ==
    \E conn \in GoConns, len \in GoLens : len # 0 /\ Emit(cpu, conn, len)

\* Conn.Read() has returned len.
gotls_read(cpu) ==
    \E conn \in GoConns, len \in GoLens : len > 0 /\ Emit(cpu, conn, len)

GoInit ==
    /\ gte_context = [cpu \in GoCpus |-> Cleared]
    /\ payload = NoPayload

GoNext ==
    \E cpu \in GoCpus :
        \/ gotls_write(cpu)
        \/ gotls_read(cpu)

GoSpec == GoInit /\ [][GoNext]_goVars

-----------------------------------------------------------------------------
\* A field of an event is cleared or of a connection.
GoTypeOK ==
    LET Field == GoConns \cup {0}
        Event == [fd : Field, src : Field, dst : Field, ports : Field, ip_version : {0, 1}]
    IN  /\ gte_context \in [GoCpus -> Event]
        /\ payload.event \in Event /\ payload.conn \in Field

\* An event that shows an address family shows the complete tuple of its own
\* connection; one that does not shows nothing of another connection, whatever
\* the buffer of the CPU held before.
OwnTuple ==
    LET e == payload.event
    IN  /\ {e.fd, e.src, e.dst, e.ports} \subseteq {0, payload.conn}
        /\ e.ip_version # 0 => {e.src, e.dst, e.ports} = {payload.conn}

\* The segments, sent and unread, cover every byte of the payload up to the limit
\* exactly once and none beyond it: at lengths that are a multiple of a chunk,
\* at the limit of segments and next to both.
SegmentsTile ==
    payload.len > 0 =>
        LET all == payload.segs \cup payload.unread
            covers(s, b) == s.off <= b /\ b < s.off + s.len
        IN  /\ \A s \in all : 0 < s.len /\ s.len <= Chunk /\ s.off + s.len <= Total(payload.len)
            /\ \A b \in 0 .. Total(payload.len) - 1 :
                 /\ \E s \in all : covers(s, b)
                 /\ \A s, r \in all : covers(s, b) /\ covers(r, b) => s = r
=============================================================================
