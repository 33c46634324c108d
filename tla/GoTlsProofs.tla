---------------------------- MODULE GoTlsProofs ----------------------------
(***************************************************************************)
(* Proofs about GoTls: the tuple of an event is of its own connection, and *)
(* the segments of a payload tile it, for every size of a chunk, number of *)
(* segments and length of a payload.                                       *)
(***************************************************************************)
EXTENDS GoTls, TLAPS

-----------------------------------------------------------------------------
\* The first chunk boundary beyond byte b, found by division.
LEMMA ChunkOf ==
  ASSUME NEW c \in Nat \ {0}, NEW b \in Nat
  PROVE  \E i \in Nat : i * c <= b /\ b < (i + 1) * c
  <1>1. /\ b \div c \in Nat
        /\ b % c \in 0 .. c - 1
        /\ b = c * (b \div c) + (b % c)
    BY Z3
  <1>2. (b \div c) * c <= b /\ b < ((b \div c) + 1) * c
    BY <1>1, Z3
  <1> QED BY <1>1, <1>2

\* Products of chunks grow with the number of chunks.
LEMMA ChunkGrows ==
  ASSUME NEW c \in Nat \ {0}, NEW i \in Nat, NEW j \in Nat, i < j
  PROVE  (i + 1) * c <= j * c /\ i * c \in Nat /\ j * c \in Nat /\ (i + 1) * c = i * c + c
  <1>1. PICK d \in Nat : j = i + 1 + d
    <2>1. j - i - 1 \in Nat /\ j = i + 1 + (j - i - 1)
      OBVIOUS
    <2> QED BY <2>1
  <1>2. d * c \in Nat /\ i * c \in Nat /\ (i + 1) * c = i * c + c
    BY Z3
  <1>3. j * c = (i + 1) * c + d * c
    BY <1>1, Z3
  <1> QED BY <1>2, <1>3

\* A segment has the rest of the payload, at most a chunk of it.
LEMMA SegLenIs ==
  ASSUME GoConstantsOK, NEW total \in Int, NEW i \in Nat
  PROVE  LET remain == total - i * Chunk
         IN  SegLen(total, i) =
               IF remain <= 0 THEN 0 ELSE IF remain < Chunk THEN remain ELSE Chunk
  <1> DEFINE remain == total - i * Chunk
  <1>1. remain \in Int /\ Chunk \in Nat \ {0}
    BY DEF GoConstantsOK
  <1>2. SegLen(total, i) =
          CASE remain <= 0 -> 0
            [] 0 < remain /\ remain < Chunk -> remain % Chunk
            [] remain >= Chunk -> Chunk
    BY Zenon DEF SegLen
  <1> HIDE DEF remain
  <1>3. SegLen(total, i) =
          IF remain <= 0 THEN 0 ELSE IF remain < Chunk THEN remain ELSE Chunk
    <2>1. 0 < remain /\ remain < Chunk => remain % Chunk = remain
      BY <1>1, Z3
    <2> QED BY <1>1, <1>2, <2>1
  <1> QED BY <1>3 DEF remain

\* What is sent of a payload is part of it, and fits in the segments.
LEMMA TotalIs ==
  ASSUME GoConstantsOK, NEW len \in Int, len > 0
  PROVE  /\ Chunk \in Nat \ {0} /\ Segments \in Nat \ {0}
         /\ Total(len) \in Nat \ {0} /\ Total(len) <= Segments * Chunk
  <1>1. Chunk \in Nat \ {0} /\ Segments \in Nat \ {0}
    BY DEF GoConstantsOK
  <1>2. PICK s \in Nat : Segments = s + 1
    <2>1. Segments - 1 \in Nat /\ Segments = (Segments - 1) + 1
      BY <1>1
    <2> QED BY <2>1
  <1>3. /\ Chunk * Segments = s * Chunk + Chunk /\ Segments * Chunk = s * Chunk + Chunk
        /\ s * Chunk \in Nat
    BY <1>1, <1>2, Z3
  <1>4. Chunk * Segments \in Nat \ {0} /\ Segments * Chunk = Chunk * Segments
    BY <1>1, <1>3
  <1> QED BY <1>1, <1>4 DEF Total

\* A member of Segs has an index, begins at its chunk and ends within the payload.
LEMMA SegIs ==
  ASSUME GoConstantsOK, NEW len \in Int, len > 0, NEW s \in Segs(len)
  PROVE  \E i \in 0 .. Segments - 1 :
           /\ i * Chunk \in Nat
           /\ s = [off |-> i * Chunk, len |-> SegLen(Total(len), i)]
           /\ s.off = i * Chunk
           /\ s.len \in 1 .. Chunk
           /\ s.off + s.len <= Total(len)
  <1>1. PICK i \in 0 .. Segments - 1 :
          /\ SegLen(Total(len), i) > 0
          /\ s = [off |-> i * Chunk, len |-> SegLen(Total(len), i)]
    BY DEF Segs
  <1>2. /\ Chunk \in Nat \ {0} /\ Total(len) \in Nat /\ i \in Nat
        /\ s.off = i * Chunk /\ s.len = SegLen(Total(len), i)
    BY <1>1, TotalIs
  <1>3. i * Chunk \in Nat
    BY <1>2, Z3
  <1>4. SegLen(Total(len), i) =
          IF Total(len) - i * Chunk <= 0 THEN 0
          ELSE IF Total(len) - i * Chunk < Chunk THEN Total(len) - i * Chunk ELSE Chunk
    BY <1>2, SegLenIs
  <1> DEFINE off == i * Chunk
             n == SegLen(Total(len), i)
  <1> HIDE DEF off, n
  <1>5. n \in 1 .. Chunk /\ off + n <= Total(len)
    <2>1. /\ n = IF Total(len) - off <= 0 THEN 0
                 ELSE IF Total(len) - off < Chunk THEN Total(len) - off ELSE Chunk
          /\ off \in Nat /\ n > 0
      BY <1>1, <1>3, <1>4 DEF off, n
    <2> QED BY <1>2, <2>1
  <1> QED BY <1>1, <1>2, <1>3, <1>5 DEF off, n

\* Two segments that share a byte are the same one.
LEMMA SegsDisjoint ==
  ASSUME GoConstantsOK, NEW len \in Int, len > 0,
         NEW s \in Segs(len), NEW r \in Segs(len), NEW b \in Nat,
         s.off <= b, b < s.off + s.len, r.off <= b, b < r.off + r.len
  PROVE  s = r
  <1>0. Chunk \in Nat \ {0} /\ Segments \in Nat \ {0}
    BY TotalIs
  <1>1. PICK i \in 0 .. Segments - 1 :
          /\ i * Chunk \in Nat
          /\ s = [off |-> i * Chunk, len |-> SegLen(Total(len), i)]
          /\ s.off = i * Chunk /\ s.len \in 1 .. Chunk
    BY SegIs
  <1>2. PICK j \in 0 .. Segments - 1 :
          /\ j * Chunk \in Nat
          /\ r = [off |-> j * Chunk, len |-> SegLen(Total(len), j)]
          /\ r.off = j * Chunk /\ r.len \in 1 .. Chunk
    BY SegIs
  <1>3. i \in Nat /\ j \in Nat
    BY <1>0
  <1>4. CASE i < j
    <2>1. i * Chunk + Chunk <= j * Chunk
      BY <1>0, <1>3, <1>4, ChunkGrows
    <2> DEFINE ci == i * Chunk
               cj == j * Chunk
    <2>2. ci \in Nat /\ cj \in Nat /\ ci + Chunk <= cj /\ cj <= b /\ b < ci + s.len
      BY <1>1, <1>2, <2>1
    <2> HIDE DEF ci, cj
    <2> QED BY <1>0, <1>1, <2>2
  <1>5. CASE j < i
    <2>1. j * Chunk + Chunk <= i * Chunk
      BY <1>0, <1>3, <1>5, ChunkGrows
    <2> DEFINE ci == i * Chunk
               cj == j * Chunk
    <2>2. ci \in Nat /\ cj \in Nat /\ cj + Chunk <= ci /\ ci <= b /\ b < cj + r.len
      BY <1>1, <1>2, <2>1
    <2> HIDE DEF ci, cj
    <2> QED BY <1>0, <1>2, <2>2
  <1>6. CASE i = j
    BY <1>1, <1>2, <1>6
  <1> QED BY <1>3, <1>4, <1>5, <1>6

\* Every byte that is sent is in a segment.
LEMMA SegsCover ==
  ASSUME GoConstantsOK, NEW len \in Int, len > 0, NEW b \in 0 .. Total(len) - 1
  PROVE  \E s \in Segs(len) : s.off <= b /\ b < s.off + s.len
  <1>0. /\ Chunk \in Nat \ {0} /\ Segments \in Nat \ {0}
        /\ Total(len) \in Nat \ {0} /\ Total(len) <= Segments * Chunk
    BY TotalIs
  <1>1. b \in Nat /\ b < Total(len)
    BY <1>0
  <1>2. PICK i \in Nat : i * Chunk <= b /\ b < (i + 1) * Chunk
    BY <1>0, <1>1, ChunkOf
  <1>3. i * Chunk \in Nat /\ (i + 1) * Chunk = i * Chunk + Chunk
    BY <1>0, Z3
  <1>4. i < Segments
    <2>1. SUFFICES ASSUME Segments <= i PROVE FALSE
      BY <1>0
    <2>2. Segments * Chunk <= i * Chunk
      <3>1. CASE Segments = i
        BY <1>3, <3>1
      <3>2. CASE Segments < i
        <4>1. /\ Segments * Chunk \in Nat /\ (Segments + 1) * Chunk <= i * Chunk
              /\ (Segments + 1) * Chunk = Segments * Chunk + Chunk
          BY <1>0, <3>2, ChunkGrows
        <4> DEFINE x == Segments * Chunk
                   y == i * Chunk
        <4>2. x \in Nat /\ y \in Nat /\ x + Chunk <= y
          BY <1>3, <4>1
        <4> HIDE DEF x, y
        <4>3. x <= y
          BY <1>0, <4>2
        <4> QED BY <4>3 DEF x, y
      <3> QED BY <1>0, <2>1, <3>1, <3>2
    <2> DEFINE x == Segments * Chunk
               y == i * Chunk
    <2>3. x \in Int /\ y \in Nat /\ x <= y /\ y <= b /\ Total(len) <= x
      BY <1>0, <1>2, <1>3, <2>2
    <2> HIDE DEF x, y
    <2> QED BY <1>0, <1>1, <2>3
  <1> DEFINE off == i * Chunk
             n == SegLen(Total(len), i)
             s == [off |-> off, len |-> n]
  <1>5. n = IF Total(len) - off <= 0 THEN 0
            ELSE IF Total(len) - off < Chunk THEN Total(len) - off ELSE Chunk
    BY <1>0, SegLenIs
  <1>6. off \in Nat /\ off <= b /\ b < off + Chunk
    BY <1>2, <1>3
  <1>7. n > 0 /\ off <= b /\ b < off + n
    <2> HIDE DEF off, n
    <2> QED BY <1>0, <1>1, <1>5, <1>6
  <1>8. s \in Segs(len)
    <2>1. i \in 0 .. Segments - 1
      BY <1>0, <1>4
    <2> QED BY <1>7, <2>1 DEF Segs
  <1> HIDE DEF off, n
  <1> QED BY <1>7, <1>8

-----------------------------------------------------------------------------
\* The events of a payload are its segments, those that could not be read included.
SegmentsKnown ==
    /\ payload.len \in Int
    /\ payload.len > 0 => payload.segs \cup payload.unread = Segs(payload.len)

\* The inductive invariant.
GoInv == GoTypeOK /\ OwnTuple /\ SegmentsKnown

\* Whatever the CPU's buffer held before, a program begins with a cleared tuple.
LEMMA BeginsCleared ==
  ASSUME GoTypeOK, NEW cpu \in GoCpus
  PROVE  get_gotls_event(cpu) = Cleared
  <1> DEFINE Field == GoConns \cup {0}
             Fields == [fd : Field, src : Field, dst : Field, ports : Field, ip_version : {0, 1}]
             e == gte_context[cpu]
  <1>1. e \in Fields
    BY DEF GoTypeOK
  <1>2. get_gotls_event(cpu) =
          [e EXCEPT !.fd = 0, !.src = 0, !.dst = 0, !.ports = 0, !.ip_version = 0]
    BY DEF get_gotls_event
  <1> HIDE DEF e
  <1>3. [e EXCEPT !.fd = 0, !.src = 0, !.dst = 0, !.ports = 0, !.ip_version = 0] = Cleared
    <2> DEFINE r == [e EXCEPT !.fd = 0, !.src = 0, !.dst = 0, !.ports = 0, !.ip_version = 0]
    <2>1. r.fd = 0 /\ r.src = 0 /\ r.dst = 0 /\ r.ports = 0 /\ r.ip_version = 0
      BY <1>1
    <2>2. r \in Fields
      BY <1>1
    <2> HIDE DEF r
    <2>3. r = [fd |-> r.fd, src |-> r.src, dst |-> r.dst, ports |-> r.ports,
               ip_version |-> r.ip_version]
      BY <2>2
    <2> QED BY <2>1, <2>3 DEF Cleared, r
  <1> QED BY <1>2, <1>3

\* However far the walk comes, it leaves fields of this connection or cleared
\* ones, and the address family only with the complete tuple.
LEMMA WalkIsOwn ==
  ASSUME NEW conn \in GoConns, NEW fd \in {0, conn}, NEW walk \in Walks,
         NEW event, event = fill_fd_and_addr_from_tls_conn(Cleared, conn, fd, walk)
  PROVE  /\ event \in [fd : {0, conn}, src : {0, conn}, dst : {0, conn},
                        ports : {0, conn}, ip_version : {0, 1}]
         /\ event.ip_version # 0 => event.src = conn /\ event.dst = conn /\ event.ports = conn
  <1>1. CASE walk = "no_netfd"
    BY <1>1 DEF fill_fd_and_addr_from_tls_conn, Cleared
  <1>2. CASE walk = "no_addrs"
    BY <1>2 DEF fill_fd_and_addr_from_tls_conn, extract_addr_from_netfd_ptr, Cleared
  <1>3. CASE walk = "src"
    BY <1>3 DEF fill_fd_and_addr_from_tls_conn, extract_addr_from_netfd_ptr, Cleared
  <1>4. CASE walk = "dst"
    BY <1>4 DEF fill_fd_and_addr_from_tls_conn, extract_addr_from_netfd_ptr, Cleared
  <1>5. CASE walk = "all"
    BY <1>5 DEF fill_fd_and_addr_from_tls_conn, extract_addr_from_netfd_ptr, Cleared
  <1> QED BY <1>1, <1>2, <1>3, <1>4, <1>5 DEF Walks

\* Both programs, with any length, preserve the invariant.
LEMMA EmitStep ==
  ASSUME GoConstantsOK, GoInv, NEW cpu \in GoCpus, NEW conn \in GoConns,
         NEW len \in GoLens, Emit(cpu, conn, len)
  PROVE  GoInv'
  <1>1. PICK walk \in Walks, fd \in {0, conn} :
          LET event == fill_fd_and_addr_from_tls_conn(get_gotls_event(cpu), conn, fd, walk)
          IN  /\ gte_context' = [gte_context EXCEPT ![cpu] = event]
              /\ \E unread \in {{}} \cup {{s} : s \in Segs(len)} :
                   payload' = [len |-> len, conn |-> conn, segs |-> Segs(len) \ unread,
                               unread |-> unread, event |-> event]
    BY DEF Emit
  <1> DEFINE event == fill_fd_and_addr_from_tls_conn(Cleared, conn, fd, walk)
  <1>2. get_gotls_event(cpu) = Cleared
    BY BeginsCleared DEF GoInv
  <1>3. gte_context' = [gte_context EXCEPT ![cpu] = event]
    BY <1>1, <1>2
  <1>4. PICK unread \in {{}} \cup {{s} : s \in Segs(len)} :
          payload' = [len |-> len, conn |-> conn, segs |-> Segs(len) \ unread,
                      unread |-> unread, event |-> event]
    BY <1>1, <1>2
  <1>5. /\ event \in [fd : {0, conn}, src : {0, conn}, dst : {0, conn},
                       ports : {0, conn}, ip_version : {0, 1}]
        /\ event.ip_version # 0 => event.src = conn /\ event.dst = conn /\ event.ports = conn
    BY WalkIsOwn
  <1> HIDE DEF event
  <1>6. GoTypeOK'
    BY <1>3, <1>4, <1>5 DEF GoInv, GoTypeOK
  <1>7. OwnTuple'
    BY <1>4, <1>5 DEF OwnTuple
  <1>8. SegmentsKnown'
    <2>1. unread \subseteq Segs(len)
      OBVIOUS
    <2>2. payload'.len = len /\ payload'.segs \cup payload'.unread = Segs(len)
      BY <1>4, <2>1
    <2> QED BY <2>2 DEF SegmentsKnown, GoConstantsOK, Segs, SegLen, Total
  <1> QED BY <1>6, <1>7, <1>8 DEF GoInv

\* The invariant holds in every state, for every size of a chunk, number of
\* segments, set of connections and CPUs.
THEOREM GoInvariance ==
  ASSUME GoConstantsOK
  PROVE  GoSpec => []GoInv
  <1>1. GoInit => GoInv
    BY DEF GoInit, GoInv, GoTypeOK, OwnTuple, SegmentsKnown, Cleared, NoPayload
  <1>2. GoInv /\ [GoNext]_goVars => GoInv'
    <2> SUFFICES ASSUME GoInv, [GoNext]_goVars PROVE GoInv'
      OBVIOUS
    <2>1. ASSUME NEW cpu \in GoCpus, gotls_write(cpu)
          PROVE  GoInv'
      BY <2>1, EmitStep DEF gotls_write
    <2>2. ASSUME NEW cpu \in GoCpus, gotls_read(cpu)
          PROVE  GoInv'
      BY <2>2, EmitStep DEF gotls_read
    <2>3. CASE UNCHANGED goVars
      <3>1. gte_context' = gte_context /\ payload' = payload
        BY <2>3 DEF goVars
      <3>2. GoTypeOK'
        BY <3>1 DEF GoInv, GoTypeOK
      <3>3. OwnTuple'
        BY <3>1 DEF GoInv, OwnTuple
      <3>4. SegmentsKnown'
        BY <3>1 DEF GoInv, SegmentsKnown
      <3> QED BY <3>2, <3>3, <3>4 DEF GoInv
    <2> QED BY <2>1, <2>2, <2>3 DEF GoNext
  <1> QED BY <1>1, <1>2, PTL DEF GoSpec

\* No event of a Go program shows an address of another connection, and one with
\* an address family has the complete tuple of its own: get_gotls_event() clears
\* the buffer, and extract_addr_from_netfd_ptr() sets the family last.
THEOREM TupleIsOwn ==
  ASSUME GoConstantsOK
  PROVE  GoSpec => []OwnTuple
  <1>1. GoInv => OwnTuple
    BY DEF GoInv
  <1> QED BY <1>1, GoInvariance, PTL

\* The segments GOTLS_EMIT_SEG sends, and those it could not read, cover every
\* byte of a payload up to the limit exactly once and none beyond it.
THEOREM PayloadIsTiled ==
  ASSUME GoConstantsOK
  PROVE  GoSpec => []SegmentsTile
  <1>1. GoInv => SegmentsTile
    <2> SUFFICES ASSUME SegmentsKnown, payload.len > 0 PROVE SegmentsTile
      BY DEF GoInv, SegmentsTile
    <2> DEFINE len == payload.len
               all == payload.segs \cup payload.unread
    <2>1. len \in Int /\ all = Segs(len)
      BY DEF SegmentsKnown
    <2> HIDE DEF len, all
    <2>2. len > 0
      BY DEF len
    <2>3. \A s \in Segs(len) : 0 < s.len /\ s.len <= Chunk /\ s.off + s.len <= Total(len)
      <3> TAKE s \in Segs(len)
      <3>1. s.len \in 1 .. Chunk /\ s.off + s.len <= Total(len)
        BY <2>1, <2>2, SegIs
      <3> QED BY <3>1 DEF GoConstantsOK
    <2>4. \A b \in 0 .. Total(len) - 1 : \E s \in Segs(len) : s.off <= b /\ b < s.off + s.len
      BY <2>1, <2>2, SegsCover
    <2>5. \A b \in 0 .. Total(len) - 1 : \A s, r \in Segs(len) :
            s.off <= b /\ b < s.off + s.len /\ r.off <= b /\ b < r.off + r.len => s = r
      <3> TAKE b \in 0 .. Total(len) - 1
      <3>1. b \in Nat
        BY <2>1, <2>2, TotalIs
      <3> QED BY <2>1, <2>2, <3>1, SegsDisjoint
    <2> QED BY <2>1, <2>3, <2>4, <2>5 DEF SegmentsTile, len, all
  <1> QED BY <1>1, GoInvariance, PTL
=============================================================================
