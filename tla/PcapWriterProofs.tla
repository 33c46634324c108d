-------------------------- MODULE PcapWriterProofs --------------------------
(***************************************************************************)
(* The safety of the pcapng writer, for any packets, keys and capacities,  *)
(* with writes that may fail.  Closing says how far Serve() and Close()    *)
(* have come and what is empty then, Flow where the accepted packets are,  *)
(* Secrets where the seen keys are, Ahead that a DSB is ahead of the       *)
(* packets.  A save acts on all of them through what it makes of Output,   *)
(* the lemma SaveWrites.                                                   *)
(***************************************************************************)
EXTENDS PcapWriter, SequenceTheorems, TLAPS

-----------------------------------------------------------------------------
(* The inductive invariant.                                                *)

\* What an element of the output is.
Blocks == Packets \cup Keys

\* The flags.
FlagTypes ==
    /\ chansClosed \in BOOLEAN /\ firstDSBWritten \in BOOLEAN /\ graceOver \in BOOLEAN
    /\ ctxDone \in BOOLEAN /\ isClosed \in BOOLEAN /\ fileOpen \in BOOLEAN
    /\ broken \in BOOLEAN /\ panicked \in BOOLEAN

\* The channels.
ChanTypes ==
    /\ packetChan \in Seq(Packets) /\ Len(packetChan) <= PacketCap
    /\ keylogChan \in Seq(Keys) /\ Len(keylogChan) <= KeylogCap
    /\ accepted \in Seq(Packets) /\ refused \subseteq Packets
    /\ seenKeys \subseteq Keys

\* The buffers.
BufTypes ==
    /\ tcPackets \in Seq(Packets)
    /\ ng \in Seq(Blocks) /\ fileBuf \in Seq(Blocks) /\ disk \in Seq(Blocks)
    /\ packetCount \in Nat

\* The program counters.
PcTypes ==
    /\ serve \in {"select", "drainPackets", "drainKeylogs", "save", "done"}
    /\ dispatcher \in {"open", "next", "pcap", "keylog", "closed"}
    /\ toClose \subseteq {"pcap", "keylog"}

\* The types but for the flags.
Types == ChanTypes /\ BufTypes /\ PcTypes

\* How far the shutdown has come, and what is empty then.  Serve() stops after
\* Close() has begun, when no handler runs any more; it returns with the channels
\* and its own buffers empty; the channels are closed after that.
Closing ==
    /\ ~panicked
    /\ chansClosed => isClosed
    /\ isClosed => serve = "done"
    /\ ctxDone => dispatcher # "open"
    /\ serve # "select" => ctxDone
    /\ serve \in {"drainKeylogs", "save", "done"} => packetChan = <<>>
    /\ serve \in {"save", "done"} => keylogChan = <<>>
    /\ serve = "done" => tcPackets = <<>>
    /\ serve \in {"select", "drainPackets", "done"} => ng = <<>>
    /\ "pcap" \notin toClose /\ dispatcher # "pcap" =>
          isClosed /\ (~broken /\ packetCount > 0 => fileBuf = <<>>)
    /\ dispatcher = "closed" => toClose = {}

\* The accepted packets that have been saved, or lost in a save that failed: those
\* that Serve() does not hold and that are not in the channel.
SavedCount == Len(accepted) - Len(packetChan) - Len(tcPackets)

\* Where the accepted packets are: first those that were saved, in order, then
\* those of Serve(), then those of the channel.
Flow ==
    /\ \A x, y \in DOMAIN accepted : accepted[x] = accepted[y] => x = y
    /\ SavedCount >= 0
    /\ \A i \in 1 .. Len(tcPackets) : tcPackets[i] = accepted[SavedCount + i]
    /\ \A i \in 1 .. Len(packetChan) :
          packetChan[i] = accepted[SavedCount + Len(tcPackets) + i]
    /\ \A i, j \in 1 .. Len(Output) : Output[i] \in Packets /\ Output[j] \in Packets =>
          \E x, y \in 1 .. SavedCount :
              accepted[x] = Output[i] /\ accepted[y] = Output[j] /\ (i < j => x < y)
    /\ ~broken => \A x \in 1 .. SavedCount : \E i \in 1 .. Len(Output) : Output[i] = accepted[x]

\* Where the keys are that KeylogHandler has sent.
Secrets ==
    /\ \A i \in 1 .. Len(Output) :
          Output[i] \in Keys => Output[i] \in seenKeys \/ dispatcher # "open"
    /\ \A i \in 1 .. Len(keylogChan) : keylogChan[i] \in seenKeys \/ dispatcher # "open"
    /\ \A i, j \in 1 .. Len(Output) : i # j /\ Output[i] \in Keys => Output[i] # Output[j]
    /\ \A i, j \in 1 .. Len(keylogChan) : i # j => keylogChan[i] # keylogChan[j]
    /\ \A i \in 1 .. Len(Output), j \in 1 .. Len(keylogChan) : Output[i] # keylogChan[j]
    /\ ~broken => \A k \in seenKeys :
          \/ \E i \in 1 .. Len(Output) : Output[i] = k
          \/ \E i \in 1 .. Len(keylogChan) : keylogChan[i] = k

\* Something precedes the packets that are saved after the first DSB.
Ahead ==
    /\ firstDSBWritten => Len(Output) > 0 \/ broken
    /\ Len(Output) > 0 /\ Output[1] \in Packets => graceOver \/ serve = "done"

\* The inductive invariant.
Inv == Types /\ FlagTypes /\ Closing /\ Flow /\ Secrets /\ Ahead

-----------------------------------------------------------------------------
(* The output.                                                             *)

\* What the sequence s of blocks and the held packets make of the output in a save.
\* A failing write ends it early, and after that nothing is added.
Written(s) ==
    \E n \in 0 .. Len(s) + Len(tcPackets) :
        /\ Output' \in Seq(Blocks) /\ Len(Output') = n
        /\ \A i \in 1 .. n : Output'[i] = IF i <= Len(s) THEN s[i] ELSE tcPackets[i - Len(s)]
        /\ ~broken' => ~broken /\ n = Len(s) + Len(tcPackets)
        /\ broken => n <= Len(Output)

\* Concatenation is associative.
LEMMA Assoc == \A s, t, u \in Seq(Blocks) : (s \o t) \o u = s \o (t \o u)
  BY ConcatAssociative

\* What a concatenation is.
LEMMA Concat ==
  ASSUME NEW s \in Seq(Blocks), NEW t \in Seq(Blocks)
  PROVE  /\ s \o t \in Seq(Blocks) /\ Len(s \o t) = Len(s) + Len(t)
         /\ \A i \in 1 .. Len(s) + Len(t) :
               (s \o t)[i] = IF i <= Len(s) THEN s[i] ELSE t[i - Len(s)]
  BY ConcatProperties

\* The output is a sequence of blocks.
LEMMA OutputType == ASSUME BufTypes PROVE Output \in Seq(Blocks) /\ Len(Output) \in Nat
  <1>1. disk \o fileBuf \in Seq(Blocks)
    BY Concat DEF BufTypes
  <1>2. Output \in Seq(Blocks)
    BY <1>1, Concat DEF BufTypes, Output
  <1> QED BY <1>2, LenProperties

\* A save of what is in NgWriter, followed by pre, and of the held packets.
LEMMA SaveWrites ==
  ASSUME BufTypes, NEW new \in Seq(Blocks), NEW s,
         s = (disk \o fileBuf) \o new, Len(s) >= Len(Output), Save(new \o tcPackets, tcPackets)
  PROVE  Written(s) /\ tcPackets' = <<>> /\ ng' = <<>>
  <1> DEFINE d == disk \o fileBuf
             blocks == new \o tcPackets
  <1>1. tcPackets' = <<>> /\ ng' = <<>>
    BY DEF Save
  <1>2. PICK n \in 0 .. Len(blocks), spill \in BOOLEAN :
           /\ broken => n = 0 /\ ~spill
           /\ broken' = (broken \/ n < Len(blocks))
           /\ fileBuf' = IF spill THEN <<>> ELSE fileBuf \o SubSeq(blocks, 1, n)
           /\ disk' = IF spill THEN disk \o fileBuf \o SubSeq(blocks, 1, n) ELSE disk
    BY DEF Save
  <1>3. tcPackets \in Seq(Blocks)
    BY SeqMonotonic DEF BufTypes, Blocks
  <1>4. d \in Seq(Blocks) /\ blocks \in Seq(Blocks)
        /\ Len(blocks) = Len(new) + Len(tcPackets)
        /\ \A i \in 1 .. Len(new) + Len(tcPackets) :
              blocks[i] = IF i <= Len(new) THEN new[i] ELSE tcPackets[i - Len(new)]
    BY <1>3, Concat DEF BufTypes
  <1>5. /\ Len(d) \in Nat /\ Len(new) \in Nat /\ Len(tcPackets) \in Nat /\ Len(ng) \in Nat
    BY <1>3, <1>4, LenProperties DEF BufTypes
  <1>6. s \in Seq(Blocks) /\ Len(s) = Len(d) + Len(new)
        /\ \A i \in 1 .. Len(d) + Len(new) : s[i] = IF i <= Len(d) THEN d[i] ELSE new[i - Len(d)]
    BY <1>4, Concat
  <1>7. Len(Output) = Len(d) + Len(ng)
    BY <1>4, Concat DEF BufTypes, Output
  <1> DEFINE w == SubSeq(blocks, 1, n)
  <1>8. w \in Seq(Blocks) /\ Len(w) = n /\ \A i \in 1 .. n : w[i] = blocks[i]
    <2>1. \A i \in 1 .. n : blocks[i] \in Blocks
      BY <1>4, <1>5, ElementOfSeq
    <2>2. w \in Seq(Blocks) /\ Len(w) = (IF 1 <= n THEN n - 1 + 1 ELSE 0)
          /\ \A i \in 1 .. n - 1 + 1 : w[i] = blocks[1 + i - 1]
      BY <2>1, <1>5, SubSeqProperties
    <2> QED BY <2>2
  <1> HIDE DEF d, blocks, w
  <1>9. Output' = d \o w
    <2>1. CASE spill
      <3>1. disk' = d \o w /\ fileBuf' = <<>>
        BY <1>2, <2>1 DEF d, w
      <3>2. d \o w \in Seq(Blocks)
        BY <1>4, <1>8, Concat
      <3>3. (d \o w) \o <<>> = d \o w
        BY <3>2, ConcatEmptySeq
      <3> QED BY <1>1, <3>1, <3>3 DEF Output
    <2>2. CASE ~spill
      <3>1. disk' = disk /\ fileBuf' = fileBuf \o w
        BY <1>2, <2>2 DEF w
      <3>2. disk \o (fileBuf \o w) = d \o w
        <4>1. disk \in Seq(Blocks) /\ fileBuf \in Seq(Blocks) /\ w \in Seq(Blocks)
          BY <1>8 DEF BufTypes
        <4>2. (disk \o fileBuf) \o w = disk \o (fileBuf \o w)
          BY <4>1, Assoc
        <4> QED BY <4>2 DEF d
      <3>3. d \o w \in Seq(Blocks)
        BY <1>4, <1>8, Concat
      <3>4. (d \o w) \o <<>> = d \o w
        BY <3>3, ConcatEmptySeq
      <3> QED BY <1>1, <3>1, <3>2, <3>4 DEF Output
    <2> QED BY <2>1, <2>2
  <1>10. Output' \in Seq(Blocks) /\ Len(Output') = Len(d) + n
         /\ \A i \in 1 .. Len(d) + n : Output'[i] = IF i <= Len(d) THEN d[i] ELSE w[i - Len(d)]
    <2>1. /\ d \o w \in Seq(Blocks) /\ Len(d \o w) = Len(d) + Len(w)
          /\ \A i \in 1 .. Len(d) + Len(w) :
                (d \o w)[i] = IF i <= Len(d) THEN d[i] ELSE w[i - Len(d)]
      BY <1>4, <1>8, Concat
    <2> QED BY <1>8, <1>9, <2>1
  <1>a. n \in Nat /\ n <= Len(new) + Len(tcPackets)
    BY <1>4, <1>5
  <1>b. Len(s) = Len(d) + Len(new)
    BY <1>6
  <1>11. ASSUME NEW i \in 1 .. Len(d) + n
         PROVE  Output'[i] = IF i <= Len(s) THEN s[i] ELSE tcPackets[i - Len(s)]
    <2>1. CASE i <= Len(d)
      <3>1. i \in 1 .. Len(d) + Len(new) /\ i <= Len(s)
        BY <1>5, <1>6, <1>a, <2>1
      <3>2. Output'[i] = d[i]
        BY <1>10, <2>1
      <3>3. s[i] = d[i]
        BY <1>6, <2>1, <3>1
      <3> QED BY <3>1, <3>2, <3>3
    <2>2. CASE i > Len(d) /\ i <= Len(s)
      <3>1. i - Len(d) \in 1 .. n /\ i - Len(d) \in 1 .. Len(new) + Len(tcPackets)
            /\ i - Len(d) <= Len(new) /\ i \in 1 .. Len(d) + Len(new)
            /\ ~(i <= Len(d)) /\ i <= Len(s)
        BY <1>5, <1>a, <1>b, <2>2
      <3>2. Output'[i] = w[i - Len(d)] /\ w[i - Len(d)] = blocks[i - Len(d)]
        BY <1>8, <1>10, <3>1
      <3>3. blocks[i - Len(d)] = new[i - Len(d)]
        BY <1>4, <3>1
      <3>4. s[i] = new[i - Len(d)]
        BY <1>6, <3>1
      <3>5. Output'[i] = s[i]
        BY <3>2, <3>3, <3>4
      <3> QED BY <3>1, <3>5
    <2>3. CASE i > Len(s)
      <3>1. /\ i - Len(d) \in 1 .. n /\ i - Len(d) \in 1 .. Len(new) + Len(tcPackets)
            /\ ~(i - Len(d) <= Len(new)) /\ ~(i <= Len(d)) /\ ~(i <= Len(s))
            /\ i - Len(d) - Len(new) = i - Len(s)
        BY <1>5, <1>6, <1>a, <2>3
      <3>2. Output'[i] = w[i - Len(d)] /\ w[i - Len(d)] = blocks[i - Len(d)]
        BY <1>8, <1>10, <3>1
      <3>3. blocks[i - Len(d)] = tcPackets[i - Len(d) - Len(new)]
        BY <1>4, <3>1
      <3>4. Output'[i] = tcPackets[i - Len(s)]
        BY <3>1, <3>2, <3>3
      <3> QED BY <3>1, <3>4
    <2>4. i <= Len(d) \/ (i > Len(d) /\ i <= Len(s)) \/ i > Len(s)
      <3>1. Len(s) \in Nat /\ Len(d) \in Nat /\ i \in Nat
        BY <1>5, <1>6, <1>a
      <3> QED BY <3>1
    <2> QED BY <2>1, <2>2, <2>3, <2>4, Zenon
  <1>12. ~broken' => ~broken /\ Len(d) + n = Len(s) + Len(tcPackets)
    <2>1. ~broken' => ~broken /\ ~(n < Len(blocks))
      BY <1>2
    <2>2. ~(n < Len(blocks)) => Len(d) + n = Len(s) + Len(tcPackets)
      <3>1. Len(blocks) = Len(new) + Len(tcPackets)
        BY <1>4
      <3> DEFINE ld == Len(d)
                 ln == Len(new)
                 lt == Len(tcPackets)
                 ls == Len(s)
                 lb == Len(blocks)
      <3>2. /\ ld \in Nat /\ ln \in Nat /\ lt \in Nat /\ n \in Nat /\ n <= ln + lt
            /\ lb = ln + lt /\ ls = ld + ln
        BY <1>5, <1>a, <1>b, <3>1
      <3> HIDE DEF ld, ln, lt, ls, lb
      <3>3. ~(n < lb) => ld + n = ls + lt
        BY <3>2
      <3> QED BY <3>3 DEF ld, ln, lt, ls, lb
    <2> QED BY <2>1, <2>2
  <1>13. broken => Len(d) + n <= Len(Output)
    BY <1>2, <1>5, <1>7
  <1>14. Len(d) + n \in 0 .. Len(s) + Len(tcPackets)
    BY <1>5, <1>6, <1>a
  <1> QED BY <1>1, <1>10, <1>11, <1>12, <1>13, <1>14 DEF Written

\* Appending to the end of a concatenation.
LEMMA AppendToConcat ==
  ASSUME NEW s \in Seq(Blocks), NEW t \in Seq(Blocks), NEW k \in Blocks
  PROVE  s \o Append(t, k) = Append(s \o t, k)
  <1>1. s \o t \in Seq(Blocks) /\ <<k>> \in Seq(Blocks)
    BY Concat
  <1>2. Append(t, k) = t \o <<k>> /\ Append(s \o t, k) = (s \o t) \o <<k>>
    BY <1>1, AppendIsConcat
  <1>3. (s \o t) \o <<k>> = s \o (t \o <<k>>)
    BY <1>1, Assoc
  <1> QED BY <1>2, <1>3

\* What the steps that save make of the output.
LEMMA TickWrites ==
  ASSUME BufTypes, Save(ng \o tcPackets, tcPackets)
  PROVE  Written(Output) /\ tcPackets' = <<>> /\ ng' = <<>>
  <1>1. Output = (disk \o fileBuf) \o ng /\ ng \in Seq(Blocks)
    BY DEF Output, BufTypes
  <1>2. Len(Output) >= Len(Output)
    BY OutputType
  <1>3. PICK new \in Seq(Blocks) : new = ng
    BY <1>1
  <1>4. PICK s : s = Output
    OBVIOUS
  <1>5. s = (disk \o fileBuf) \o new /\ Len(s) >= Len(Output) /\ Save(new \o tcPackets, tcPackets)
    BY <1>1, <1>2, <1>3, <1>4
  <1>6. Written(s) /\ tcPackets' = <<>> /\ ng' = <<>>
    BY <1>5, SaveWrites
  <1> QED BY <1>4, <1>6

\* TakeKeyLog writes the DSB first.
LEMMA KeyWrites ==
  ASSUME ChanTypes, BufTypes, TakeKeyLog
  PROVE  Written(Append(Output, Head(keylogChan))) /\ tcPackets' = <<>> /\ ng' = <<>>
  <1>1. PICK k \in Keys : k = Head(keylogChan)
    BY DEF ChanTypes, TakeKeyLog
  <1>2. k \in Blocks /\ ng \in Seq(Blocks) /\ disk \o fileBuf \in Seq(Blocks)
    BY <1>1, Concat DEF BufTypes, Blocks
  <1>3. Append(Output, k) = (disk \o fileBuf) \o Append(ng, k)
    BY <1>2, AppendToConcat DEF Output
  <1>4. Len(Append(Output, k)) >= Len(Output)
    BY <1>2, OutputType
  <1>5. PICK new \in Seq(Blocks) : new = Append(ng, k)
    <2>1. Append(ng, k) \in Seq(Blocks)
      BY <1>2, AppendProperties
    <2> QED BY <2>1, Zenon
  <1>6. PICK s : s = Append(Output, k)
    OBVIOUS
  <1>7. Save(new \o tcPackets, tcPackets)
    BY <1>1, <1>5 DEF TakeKeyLog
  <1>8. Written(s) /\ tcPackets' = <<>> /\ ng' = <<>>
    BY <1>3, <1>4, <1>5, <1>6, <1>7, SaveWrites
  <1> QED BY <1>1, <1>6, <1>8

\* Draining a key appends it to the output.
LEMMA DrainWrites ==
  ASSUME ChanTypes, BufTypes, DrainKeylogs, keylogChan # <<>>
  PROVE  Output' = Append(Output, Head(keylogChan))
  <1>1. PICK k \in Keys : k = Head(keylogChan)
    BY DEF ChanTypes
  <1>2. k \in Blocks /\ ng \in Seq(Blocks) /\ disk \o fileBuf \in Seq(Blocks)
    BY <1>1, Concat DEF BufTypes, Blocks
  <1>3. (disk \o fileBuf) \o Append(ng, k) = Append((disk \o fileBuf) \o ng, k)
    BY <1>2, AppendToConcat
  <1>4. disk' = disk /\ fileBuf' = fileBuf /\ ng' = Append(ng, k)
    BY <1>1 DEF DrainKeylogs
  <1> QED BY <1>1, <1>3, <1>4 DEF Output

\* Closing the file moves the buffer to the disk.
LEMMA CloseWrites == ASSUME BufTypes, PcapClosed PROVE Output' = Output
  <1>1. CASE UNCHANGED <<fileBuf, disk>>
    BY <1>1 DEF PcapClosed, Output
  <1>2. CASE fileBuf' = <<>> /\ disk' = disk \o fileBuf
    <2>1. disk \o fileBuf \in Seq(Blocks)
      BY Concat DEF BufTypes
    <2>2. (disk \o fileBuf) \o <<>> = disk \o fileBuf
      BY <2>1, ConcatEmptySeq
    <2> QED BY <1>2, <2>2 DEF PcapClosed, Output
  <1> QED BY <1>1, <1>2 DEF PcapClosed

\* The steps that leave the output alone.
OtherSteps ==
    \/ \E p \in Packets : WritePacket(p)
    \/ \E k \in Keys : WriteKeyLog(k)
    \/ GraceDeadline \/ TakePacket \/ CtxDone \/ DrainPackets
    \/ DrainKeylogs /\ keylogChan = <<>>
    \/ DispatcherClose \/ KeylogClosed \/ DispatcherClosed
    \/ \E h \in toClose : HandlerClose(h)

\* They leave the file, its buffer and the count of packets alone too.
LEMMA OthersWrite ==
  ASSUME OtherSteps
  PROVE  UNCHANGED <<Output, broken, fileBuf, disk, packetCount>>
  <1>1. UNCHANGED <<ng, fileBuf, disk, broken, packetCount>>
    BY DEF OtherSteps, WritePacket, WriteKeyLog, GraceDeadline, TakePacket, CtxDone, DrainPackets,
           DrainKeylogs, DispatcherClose, KeylogClosed, DispatcherClosed, HandlerClose, outVars,
           serveVars
  <1> QED BY <1>1 DEF Output

\* The steps, by what they do to the output.
LEMMA Steps ==
  ASSUME Next
  PROVE  OtherSteps \/ Tick \/ TakeKeyLog \/ (DrainKeylogs /\ keylogChan # <<>>) \/ DrainSave
         \/ PcapClosed
  BY DEF Next, Serve, Close, OtherSteps

-----------------------------------------------------------------------------
(* Types.                                                                  *)

\* The flags and the other groups together are TypeOK.
LEMMA TypesSuffice == Types /\ FlagTypes => TypeOK
  BY DEF Types, FlagTypes, ChanTypes, BufTypes, PcTypes, TypeOK, Blocks

\* Every step keeps the flags.
LEMMA FlagsStep == ASSUME FlagTypes, [Next]_vars PROVE FlagTypes'
  <1>1. CASE Tick \/ TakeKeyLog \/ DrainSave
    <2>1. broken' \in BOOLEAN /\ UNCHANGED <<chansClosed, graceOver, ctxDone, isClosed, fileOpen,
                                              panicked>>
      BY <1>1 DEF Tick, TakeKeyLog, DrainSave, Save, chanVars, closeVars
    <2>2. firstDSBWritten' \in {firstDSBWritten, TRUE}
      BY <1>1 DEF Tick, TakeKeyLog, DrainSave
    <2> QED BY <2>1, <2>2 DEF FlagTypes
  <1>2. CASE OtherSteps
    <2>1. UNCHANGED <<broken, fileOpen, firstDSBWritten>> /\ graceOver' \in {graceOver, TRUE}
      BY <1>2 DEF OtherSteps, WritePacket, WriteKeyLog, GraceDeadline, TakePacket, CtxDone,
             DrainPackets, DrainKeylogs, DispatcherClose, KeylogClosed, DispatcherClosed,
             HandlerClose, outVars, serveVars
    <2>2. chansClosed' \in {chansClosed, TRUE} /\ panicked' \in {panicked, TRUE}
      BY <1>2 DEF OtherSteps, WritePacket, WriteKeyLog, GraceDeadline, TakePacket, CtxDone,
             DrainPackets, DrainKeylogs, DispatcherClose, KeylogClosed, DispatcherClosed,
             HandlerClose, chanVars
    <2>3. ctxDone' \in {ctxDone, TRUE} /\ isClosed' \in {isClosed, TRUE}
      BY <1>2 DEF OtherSteps, WritePacket, WriteKeyLog, GraceDeadline, TakePacket, CtxDone,
             DrainPackets, DrainKeylogs, DispatcherClose, KeylogClosed, DispatcherClosed,
             HandlerClose, closeVars
    <2> QED BY <2>1, <2>2, <2>3 DEF FlagTypes
  <1>3. CASE DrainKeylogs
    BY <1>3 DEF DrainKeylogs, FlagTypes, closeVars
  <1>4. CASE PcapClosed
    <2>1. fileOpen' \in {fileOpen, FALSE}
      BY <1>4 DEF PcapClosed
    <2>2. chansClosed' = TRUE /\ isClosed' = TRUE
          /\ UNCHANGED <<firstDSBWritten, graceOver, ctxDone, broken, panicked>>
      BY <1>4 DEF PcapClosed, serveVars
    <2> QED BY <2>1, <2>2 DEF FlagTypes
  <1>5. CASE UNCHANGED vars
    BY <1>5 DEF vars, chanVars, serveVars, outVars, closeVars, FlagTypes
  <1> QED BY <1>1, <1>2, <1>3, <1>4, <1>5, Steps

\* Every step keeps the types of the channels.
LEMMA ChanTypesStep == ASSUME Types, [Next]_vars PROVE ChanTypes'
  <1> USE ConstantsAssumption DEF Types, ChanTypes
  <1>1. ASSUME NEW p \in Packets, WritePacket(p) PROVE ChanTypes'
    <2>1. CASE chansClosed
      BY <1>1, <2>1 DEF WritePacket
    <2>2. CASE ~chansClosed /\ Len(packetChan) < PacketCap
      <3>1. Append(packetChan, p) \in Seq(Packets) /\ Len(Append(packetChan, p)) <= PacketCap
        BY <2>2
      <3>2. Append(accepted, p) \in Seq(Packets)
        OBVIOUS
      <3> QED BY <1>1, <2>2, <3>1, <3>2 DEF WritePacket
    <2>3. CASE ~chansClosed /\ ~(Len(packetChan) < PacketCap)
      BY <1>1, <2>3 DEF WritePacket
    <2> QED BY <2>1, <2>2, <2>3
  <1>2. ASSUME NEW k \in Keys, WriteKeyLog(k) PROVE ChanTypes'
    <2>1. CASE chansClosed
      BY <1>2, <2>1 DEF WriteKeyLog, histVars
    <2>2. CASE ~chansClosed
      <3>1. Append(keylogChan, k) \in Seq(Keys) /\ Len(Append(keylogChan, k)) <= KeylogCap
        BY <1>2, <2>2 DEF WriteKeyLog
      <3> QED BY <1>2, <2>2, <3>1 DEF WriteKeyLog, histVars
    <2> QED BY <2>1, <2>2
  <1>3. ASSUME packetChan # <<>>
        PROVE  Tail(packetChan) \in Seq(Packets) /\ Len(Tail(packetChan)) <= PacketCap
    BY <1>3
  <1>4. ASSUME keylogChan # <<>>
        PROVE  Tail(keylogChan) \in Seq(Keys) /\ Len(Tail(keylogChan)) <= KeylogCap
    BY <1>4
  <1>5. CASE TakePacket \/ DrainPackets
    BY <1>3, <1>5 DEF TakePacket, DrainPackets, histVars
  <1>6. CASE TakeKeyLog \/ DrainKeylogs
    BY <1>4, <1>6 DEF TakeKeyLog, DrainKeylogs, histVars
  <1>7. ASSUME NEW h, HandlerClose(h) PROVE ChanTypes'
    BY <1>7 DEF HandlerClose, chanVars, histVars
  <1>8. CASE UNCHANGED <<packetChan, keylogChan, accepted, refused, seenKeys>>
    BY <1>8
  <1>9. CASE GraceDeadline \/ Tick \/ CtxDone \/ DrainSave \/ DispatcherClose \/ KeylogClosed
             \/ PcapClosed \/ DispatcherClosed \/ UNCHANGED vars
    BY <1>8, <1>9 DEF GraceDeadline, Tick, CtxDone, DrainSave, DispatcherClose, KeylogClosed,
                      PcapClosed, DispatcherClosed, vars, chanVars, histVars
  <1> QED BY <1>1, <1>2, <1>5, <1>6, <1>7, <1>9 DEF Next, Serve, Close

\* Every step keeps the types of the buffers.
LEMMA BufTypesStep == ASSUME Types, [Next]_vars PROVE BufTypes'
  <1> USE DEF Types, BufTypes
  <1>1. ASSUME NEW blocks \in Seq(Blocks), NEW ps \in Seq(Packets), Save(blocks, ps)
        PROVE  BufTypes'
    <2>1. PICK n \in 0 .. Len(blocks), spill \in BOOLEAN :
             /\ fileBuf' = IF spill THEN <<>> ELSE fileBuf \o SubSeq(blocks, 1, n)
             /\ disk' = IF spill THEN disk \o fileBuf \o SubSeq(blocks, 1, n) ELSE disk
             /\ packetCount' = IF broken' THEN packetCount ELSE packetCount + Len(ps)
      BY <1>1 DEF Save
    <2>2. PICK w \in Seq(Blocks) : w = SubSeq(blocks, 1, n)
      <3>1. \A i \in 1 .. n : blocks[i] \in Blocks
        BY <2>1
      <3>2. SubSeq(blocks, 1, n) \in Seq(Blocks)
        BY <3>1, SubSeqProperties
      <3> QED BY <3>2
    <2>3. fileBuf \o w \in Seq(Blocks) /\ disk \o fileBuf \in Seq(Blocks)
          /\ (disk \o fileBuf) \o w \in Seq(Blocks)
      BY Concat
    <2>4. packetCount' \in Nat
      BY <2>1
    <2>5. fileBuf' \in Seq(Blocks) /\ disk' \in Seq(Blocks)
      BY <2>1, <2>2, <2>3
    <2>6. tcPackets' = <<>> /\ ng' = <<>>
      BY <1>1 DEF Save
    <2> QED BY <2>4, <2>5, <2>6
  <1>2. tcPackets \in Seq(Blocks)
    BY SeqMonotonic DEF Blocks
  <1>3. CASE Tick \/ DrainSave
    <2>1. ng \o tcPackets \in Seq(Blocks)
      BY <1>2, Concat
    <2> QED BY <1>1, <1>3, <2>1 DEF Tick, DrainSave
  <1>4. keylogChan # <<>> => Append(ng, Head(keylogChan)) \in Seq(Blocks)
    BY DEF ChanTypes, Blocks
  <1>5. CASE TakeKeyLog
    <2>1. Append(ng, Head(keylogChan)) \o tcPackets \in Seq(Blocks)
      BY <1>2, <1>4, <1>5, Concat DEF TakeKeyLog
    <2> QED BY <1>1, <1>5, <2>1 DEF TakeKeyLog
  <1>6. CASE DrainKeylogs
    BY <1>4, <1>6 DEF DrainKeylogs
  <1>7. CASE TakePacket \/ DrainPackets
    <2>1. packetChan # <<>> => Append(tcPackets, Head(packetChan)) \in Seq(Packets)
      BY DEF ChanTypes
    <2> QED BY <1>7, <2>1 DEF TakePacket, DrainPackets, outVars
  <1>8. CASE PcapClosed
    <2>1. disk \o fileBuf \in Seq(Blocks)
      BY Concat
    <2>2. <<>> \in Seq(Blocks)
      OBVIOUS
    <2>3. fileBuf' \in {fileBuf, <<>>} /\ disk' \in {disk, disk \o fileBuf}
      BY <1>8 DEF PcapClosed
    <2>4. UNCHANGED <<tcPackets, packetCount, ng>>
      BY <1>8 DEF PcapClosed, serveVars
    <2> QED BY <2>1, <2>2, <2>3, <2>4
  <1>9. CASE UNCHANGED <<tcPackets, packetCount, ng, fileBuf, disk>>
    BY <1>9
  <1>10. CASE (OtherSteps /\ ~(TakePacket \/ DrainPackets \/ DrainKeylogs)) \/ UNCHANGED vars
    BY <1>9, <1>10 DEF OtherSteps, WritePacket, WriteKeyLog, GraceDeadline, CtxDone,
           DispatcherClose, KeylogClosed, DispatcherClosed, HandlerClose, vars, outVars, serveVars
  <1> QED BY <1>3, <1>5, <1>6, <1>7, <1>8, <1>10, Steps

\* Every step keeps the types of the program counters.
LEMMA PcTypesStep == ASSUME Types, [Next]_vars PROVE PcTypes'
  <1> USE DEF Types, PcTypes
  <1>1. CASE Tick \/ TakeKeyLog \/ DrainSave \/ DrainKeylogs \/ PcapClosed
    BY <1>1 DEF Tick, TakeKeyLog, DrainSave, DrainKeylogs, PcapClosed, closeVars, serveVars
  <1>2. CASE OtherSteps
    BY <1>2 DEF OtherSteps, WritePacket, WriteKeyLog, GraceDeadline, TakePacket, CtxDone,
           DrainPackets, DrainKeylogs, DispatcherClose, KeylogClosed, DispatcherClosed,
           HandlerClose, closeVars, serveVars
  <1>3. CASE UNCHANGED vars
    BY <1>3 DEF vars, serveVars, closeVars
  <1> QED BY <1>1, <1>2, <1>3, Steps

-----------------------------------------------------------------------------
(* The shutdown.                                                           *)

\* Every step keeps Closing.
LEMMA ClosingStep == ASSUME Types, FlagTypes, Closing, [Next]_vars PROVE Closing'
  <1> USE DEF Closing
  <1>1. ASSUME NEW p \in Packets, WritePacket(p) PROVE Closing'
    <2>1. dispatcher = "open" /\ serve = "select" /\ ~chansClosed
      BY <1>1 DEF WritePacket, DispatchOpen, Types, PcTypes
    <2>2. UNCHANGED <<serve, dispatcher, ctxDone, isClosed, toClose, chansClosed, keylogChan,
                      tcPackets, ng, fileBuf, broken, packetCount, panicked>>
      BY <1>1, <2>1 DEF WritePacket, serveVars, outVars, closeVars
    <2> QED BY <2>1, <2>2
  <1>2. ASSUME NEW k \in Keys, WriteKeyLog(k) PROVE Closing'
    <2>1. dispatcher = "open" /\ serve = "select" /\ ~chansClosed
      BY <1>2 DEF WriteKeyLog, DispatchOpen, Types, PcTypes
    <2>2. UNCHANGED <<serve, dispatcher, ctxDone, isClosed, toClose, chansClosed, packetChan,
                      tcPackets, ng, fileBuf, broken, packetCount, panicked>>
      BY <1>2, <2>1 DEF WriteKeyLog, serveVars, outVars, closeVars
    <2> QED BY <2>1, <2>2
  <1>3. CASE GraceDeadline
    BY <1>3 DEF GraceDeadline, chanVars, outVars, closeVars
  <1>4. CASE Tick \/ TakeKeyLog
    <2>1. serve = "select" /\ tcPackets' = <<>> /\ ng' = <<>>
      BY <1>4 DEF Tick, TakeKeyLog, Save
    <2>2. UNCHANGED <<serve, dispatcher, ctxDone, isClosed, toClose, chansClosed, packetChan,
                      panicked>>
      BY <1>4 DEF Tick, TakeKeyLog, chanVars, closeVars
    <2> QED BY <2>1, <2>2
  <1>5. CASE TakePacket \/ CtxDone
    BY <1>5 DEF TakePacket, CtxDone, chanVars, outVars, closeVars
  <1>6. CASE DrainPackets
    BY <1>6 DEF DrainPackets, outVars, closeVars
  <1>7. CASE DrainKeylogs
    BY <1>7 DEF DrainKeylogs, closeVars
  <1>8. CASE DrainSave
    <2>1. serve = "save" /\ serve' = "done" /\ tcPackets' = <<>> /\ ng' = <<>>
      BY <1>8 DEF DrainSave, Save
    <2>2. UNCHANGED <<dispatcher, ctxDone, isClosed, toClose, chansClosed, packetChan,
                      keylogChan, panicked>>
      BY <1>8 DEF DrainSave, chanVars, closeVars
    <2> QED BY <2>1, <2>2
  <1>9. CASE DispatcherClose \/ DispatcherClosed
    BY <1>9 DEF DispatcherClose, DispatcherClosed, chanVars, serveVars, outVars
  <1>10. ASSUME NEW h \in toClose, HandlerClose(h) PROVE Closing'
    <2>1. h \in {"pcap", "keylog"}
      BY DEF Types, PcTypes
    <2> QED BY <1>10, <2>1 DEF HandlerClose, chanVars, serveVars, outVars
  <1>11. CASE KeylogClosed
    <2>1. serve = "done" /\ dispatcher = "keylog" /\ dispatcher' = "next" /\ isClosed' /\ chansClosed'
      BY <1>11 DEF KeylogClosed
    <2>2. UNCHANGED <<serve, ctxDone, toClose, packetChan, keylogChan, tcPackets, ng, fileBuf,
                      broken, packetCount, panicked>>
      BY <1>11 DEF KeylogClosed, serveVars, outVars
    <2> QED BY <2>1, <2>2
  <1>12. CASE PcapClosed
    <2>1. serve = "done" /\ dispatcher' = "next" /\ isClosed' /\ chansClosed'
      BY <1>12 DEF PcapClosed
    <2>2. UNCHANGED <<serve, ctxDone, toClose, packetChan, keylogChan, tcPackets, ng,
                      broken, packetCount, panicked>>
      BY <1>12 DEF PcapClosed, serveVars
    <2>3. ~broken /\ packetCount > 0 => fileBuf' = <<>>
      <3>1. packetCount > 0 => ~NothingCaptured
        BY DEF NothingCaptured, Types, BufTypes
      <3> QED BY <1>12, <3>1 DEF PcapClosed
    <2>4. ctxDone
      BY <2>1
    <2> QED BY <2>1, <2>2, <2>3, <2>4
  <1>13. CASE UNCHANGED vars
    BY <1>13 DEF vars, chanVars, serveVars, outVars, closeVars
  <1> QED BY <1>1, <1>2, <1>3, <1>4, <1>5, <1>6, <1>7, <1>8, <1>9, <1>10, <1>11, <1>12, <1>13
             DEF Next, Serve, Close

-----------------------------------------------------------------------------
(* The packets.                                                            *)

\* Lengths are natural numbers.
LEMMA Lengths ==
  ASSUME ChanTypes, BufTypes
  PROVE  /\ Len(accepted) \in Nat /\ DOMAIN accepted = 1 .. Len(accepted)
         /\ Len(packetChan) \in Nat /\ Len(tcPackets) \in Nat /\ Len(keylogChan) \in Nat
         /\ Len(Output) \in Nat /\ SavedCount \in Int
  <1>1. Len(Output) \in Nat
    BY OutputType
  <1> QED BY <1>1 DEF ChanTypes, BufTypes, SavedCount

\* Flow does not depend on anything else.
LEMMA FlowSame ==
  ASSUME Flow, Output' = Output, UNCHANGED <<accepted, packetChan, tcPackets, broken>>
  PROVE  Flow'
  <1>1. SavedCount' = SavedCount
    BY DEF SavedCount
  <1> QED BY <1>1 DEF Flow

\* WritePacket(): the packet is the last one accepted and the last in the channel.
LEMMA FlowWrite ==
  ASSUME Types, Flow, NEW p \in Packets, WritePacket(p)
  PROVE  Flow'
  <1>1. CASE UNCHANGED <<accepted, packetChan>>
    <2>1. UNCHANGED <<tcPackets, broken, Output>>
      BY DEF WritePacket, serveVars, outVars, Output
    <2> QED BY <1>1, <2>1, FlowSame
  <1>2. CASE packetChan' = Append(packetChan, p) /\ accepted' = Append(accepted, p)
    <2> DEFINE n == Len(accepted)
               c == Len(packetChan)
               t == Len(tcPackets)
               b == SavedCount
    <2>0. UNCHANGED <<tcPackets, broken, Output>>
      BY DEF WritePacket, serveVars, outVars, Output
    <2>1. /\ n \in Nat /\ c \in Nat /\ t \in Nat /\ b \in Nat /\ b + t + c = n
          /\ DOMAIN accepted = 1 .. n /\ Len(Output) \in Nat
      BY Lengths DEF Types, Flow, SavedCount
    <2>2. /\ Len(accepted') = n + 1 /\ DOMAIN accepted' = 1 .. n + 1
          /\ \A x \in 1 .. n : accepted'[x] = accepted[x]
          /\ accepted'[n + 1] = p
      BY <1>2 DEF Types, ChanTypes
    <2>3. /\ Len(packetChan') = c + 1
          /\ \A x \in 1 .. c : packetChan'[x] = packetChan[x]
          /\ packetChan'[c + 1] = p
      BY <1>2 DEF Types, ChanTypes
    <2>4. \A x \in 1 .. n : accepted[x] # p
      BY <2>1 DEF WritePacket, ToSet
    <2>5. SavedCount' = b
      BY <2>0, <2>1, <2>2, <2>3 DEF SavedCount
    <2> HIDE DEF n, c, t, b
    <2>6. \A x, y \in DOMAIN accepted' : accepted'[x] = accepted'[y] => x = y
      BY <2>1, <2>2, <2>4 DEF Flow
    <2>7. \A i \in 1 .. t : tcPackets[i] = accepted'[b + i]
      <3>1. \A i \in 1 .. t : b + i \in 1 .. n
        BY <2>1
      <3> QED BY <2>2, <3>1 DEF Flow, b, t
    <2>8. \A i \in 1 .. c + 1 : packetChan'[i] = accepted'[b + t + i]
      <3>1. \A i \in 1 .. c : b + t + i \in 1 .. n
        BY <2>1
      <3>2. \A i \in 1 .. c : packetChan[i] = accepted[b + t + i]
        BY DEF Flow, b, t, c
      <3>3. b + t + (c + 1) = n + 1
        BY <2>1
      <3>4. \A i \in 1 .. c + 1 : i \in 1 .. c \/ i = c + 1
        BY <2>1
      <3> QED BY <2>2, <2>3, <3>1, <3>2, <3>3, <3>4
    <2>9. \A x \in 1 .. b : x \in 1 .. n /\ accepted'[x] = accepted[x]
      BY <2>1, <2>2
    <2>10. \A i, j \in 1 .. Len(Output) : Output[i] \in Packets /\ Output[j] \in Packets =>
              \E x, y \in 1 .. b :
                  accepted'[x] = Output[i] /\ accepted'[y] = Output[j] /\ (i < j => x < y)
      <3>1. \A i, j \in 1 .. Len(Output) : Output[i] \in Packets /\ Output[j] \in Packets =>
               \E x, y \in 1 .. b :
                   accepted[x] = Output[i] /\ accepted[y] = Output[j] /\ (i < j => x < y)
        BY DEF Flow, b
      <3> QED BY <2>9, <3>1
    <2>11. ~broken => \A x \in 1 .. b : \E i \in 1 .. Len(Output) : Output[i] = accepted'[x]
      BY <2>9 DEF Flow, b
    <2>12. Len(packetChan') = c + 1 /\ Len(tcPackets') = t /\ b >= 0
      BY <2>0, <2>1, <2>3 DEF t
    <2> QED BY <2>0, <2>5, <2>6, <2>7, <2>8, <2>10, <2>11, <2>12 DEF Flow
  <1> QED BY <1>1, <1>2 DEF WritePacket

\* Serve() takes the first packet of the channel.
LEMMA FlowTake ==
  ASSUME Types, Flow, packetChan # <<>>, UNCHANGED <<accepted, broken, Output>>,
         tcPackets' = Append(tcPackets, Head(packetChan)), packetChan' = Tail(packetChan)
  PROVE  Flow'
  <1> DEFINE n == Len(accepted)
             c == Len(packetChan)
             t == Len(tcPackets)
             b == SavedCount
  <1>1. /\ n \in Nat /\ c \in Nat /\ t \in Nat /\ b \in Nat /\ b + t + c = n /\ c >= 1
        /\ DOMAIN accepted = 1 .. n /\ Len(Output) \in Nat
    <2>1. c >= 1
      BY DEF Types, ChanTypes
    <2> QED BY <2>1, Lengths DEF Types, Flow, SavedCount
  <1>2. /\ Len(tcPackets') = t + 1
        /\ \A x \in 1 .. t : tcPackets'[x] = tcPackets[x]
        /\ tcPackets'[t + 1] = packetChan[1]
    BY <1>1 DEF Types, ChanTypes, BufTypes
  <1>3. /\ Len(packetChan') = c - 1
        /\ \A x \in 1 .. c - 1 : packetChan'[x] = packetChan[x + 1]
    BY DEF Types, ChanTypes
  <1>4. SavedCount' = b
    BY <1>1, <1>2, <1>3 DEF SavedCount
  <1> HIDE DEF n, c, t, b
  <1>5. \A i \in 1 .. c : packetChan[i] = accepted[b + t + i]
    BY DEF Flow, b, t, c
  <1>6. \A i \in 1 .. t + 1 : tcPackets'[i] = accepted[b + i]
    <2>1. tcPackets'[t + 1] = accepted[b + (t + 1)]
      BY <1>1, <1>2, <1>5
    <2>2. \A i \in 1 .. t + 1 : i \in 1 .. t \/ i = t + 1
      BY <1>1
    <2> QED BY <1>2, <2>1, <2>2 DEF Flow, b, t
  <1>7. \A i \in 1 .. c - 1 : packetChan'[i] = accepted[b + (t + 1) + i]
    <2>1. \A i \in 1 .. c - 1 : i + 1 \in 1 .. c /\ b + t + (i + 1) = b + (t + 1) + i
      BY <1>1
    <2> QED BY <1>3, <1>5, <2>1
  <1>8. \A i, j \in 1 .. Len(Output) : Output[i] \in Packets /\ Output[j] \in Packets =>
           \E x, y \in 1 .. b :
               accepted[x] = Output[i] /\ accepted[y] = Output[j] /\ (i < j => x < y)
    BY DEF Flow, b
  <1>9. ~broken => \A x \in 1 .. b : \E i \in 1 .. Len(Output) : Output[i] = accepted[x]
    BY DEF Flow, b
  <1>10. \A x, y \in DOMAIN accepted : accepted[x] = accepted[y] => x = y
    BY DEF Flow
  <1>11. b >= 0 /\ accepted' = accepted /\ broken' = broken /\ Output' = Output
    BY <1>1
  <1>12. Len(tcPackets') = t + 1 /\ Len(packetChan') = c - 1
    BY <1>2, <1>3
  <1> QED BY <1>4, <1>6, <1>7, <1>8, <1>9, <1>10, <1>11, <1>12, SMTT(30) DEF Flow

\* The sequence s is the output, followed by keys only.
Prolongs(s) ==
    /\ Len(s) \in Nat /\ Len(s) >= Len(Output)
    /\ \A i \in 1 .. Len(Output) : s[i] = Output[i]
    /\ \A i \in Len(Output) + 1 .. Len(s) : s[i] \in Keys

\* A save: the packets held are now in the output, or lost after the write that
\* failed.
LEMMA FlowSave ==
  ASSUME Types, Flow, NEW s, Prolongs(s), Written(s), tcPackets' = <<>>,
         UNCHANGED <<accepted, packetChan>>
  PROVE  Flow'
  <1> DEFINE c == Len(packetChan)
             t == Len(tcPackets)
             b == SavedCount
             o == Len(Output)
             l == Len(s)
  <1>1. /\ c \in Nat /\ t \in Nat /\ b \in Nat /\ b + t + c = Len(accepted)
        /\ DOMAIN accepted = 1 .. b + t + c /\ o \in Nat /\ l \in Nat /\ l >= o
    BY Lengths DEF Types, Flow, SavedCount, Prolongs
  <1>2. PICK n \in 0 .. l + t :
           /\ Len(Output') = n
           /\ \A i \in 1 .. n : Output'[i] = IF i <= l THEN s[i] ELSE tcPackets[i - l]
           /\ ~broken' => ~broken /\ n = l + t
    BY DEF Written
  <1>3. SavedCount' = b + t /\ Len(tcPackets') = 0
    BY <1>1 DEF SavedCount
  <1> HIDE DEF c, t, b, o, l
  <1>4. \A i \in 1 .. t : tcPackets[i] = accepted[b + i]
    BY DEF Flow, t, b
  <1>5. /\ \A i \in 1 .. o : s[i] = Output[i]
        /\ \A i \in 1 .. l : s[i] \in Packets => i \in 1 .. o
    <2>1. \A i \in o + 1 .. l : s[i] \notin Packets
      BY ConstantsAssumption DEF Prolongs, o, l
    <2>2. \A i \in 1 .. l : i \in 1 .. o \/ i \in o + 1 .. l
      BY <1>1
    <2> QED BY <2>1, <2>2 DEF Prolongs, o
  <1>6. \A i \in 1 .. n : Output'[i] \in Packets =>
           \/ i \in 1 .. o /\ Output'[i] = Output[i]
           \/ i > l /\ i - l \in 1 .. t /\ Output'[i] = accepted[b + (i - l)]
    <2> SUFFICES ASSUME NEW i \in 1 .. n, Output'[i] \in Packets
                 PROVE  \/ i \in 1 .. o /\ Output'[i] = Output[i]
                        \/ i > l /\ i - l \in 1 .. t /\ Output'[i] = accepted[b + (i - l)]
      OBVIOUS
    <2>1. CASE i <= l
      <3>1. i \in 1 .. l /\ Output'[i] = s[i]
        BY <1>1, <1>2, <2>1
      <3> QED BY <1>5, <3>1
    <2>2. CASE ~(i <= l)
      <3>1. i > l /\ i - l \in 1 .. t /\ Output'[i] = tcPackets[i - l]
        BY <1>1, <1>2, <2>2
      <3> QED BY <1>4, <3>1
    <2> QED BY <2>1, <2>2
  <1>7. \A i, j \in 1 .. o : Output[i] \in Packets /\ Output[j] \in Packets =>
           \E x, y \in 1 .. b :
               accepted[x] = Output[i] /\ accepted[y] = Output[j] /\ (i < j => x < y)
    BY DEF Flow, b, o
  <1>8. ASSUME NEW i \in 1 .. n, NEW j \in 1 .. n, Output'[i] \in Packets, Output'[j] \in Packets
        PROVE  \E x, y \in 1 .. b + t :
                  accepted[x] = Output'[i] /\ accepted[y] = Output'[j] /\ (i < j => x < y)
    <2>0. \A x \in 1 .. b : x \in 1 .. b + t
      BY <1>1
    <2>1. CASE i \in 1 .. o /\ Output'[i] = Output[i] /\ j \in 1 .. o /\ Output'[j] = Output[j]
      <3>1. \E x, y \in 1 .. b :
               accepted[x] = Output[i] /\ accepted[y] = Output[j] /\ (i < j => x < y)
        BY <1>7, <1>8, <2>1
      <3> QED BY <2>0, <2>1, <3>1
    <2>2. CASE /\ i \in 1 .. o /\ Output'[i] = Output[i]
               /\ j > l /\ j - l \in 1 .. t /\ Output'[j] = accepted[b + (j - l)]
      <3>1. PICK x \in 1 .. b : accepted[x] = Output[i]
        BY <1>7, <1>8, <2>2
      <3>2. b + (j - l) \in 1 .. b + t /\ x < b + (j - l)
        BY <1>1, <2>2, <3>1
      <3> QED BY <2>0, <2>2, <3>1, <3>2
    <2>3. CASE /\ j \in 1 .. o /\ Output'[j] = Output[j]
               /\ i > l /\ i - l \in 1 .. t /\ Output'[i] = accepted[b + (i - l)]
      <3>1. PICK y \in 1 .. b : accepted[y] = Output[j]
        BY <1>7, <1>8, <2>3
      <3>2. b + (i - l) \in 1 .. b + t
        BY <1>1, <2>3
      <3>3. ~(i < j)
        BY <1>1, <2>3
      <3> QED BY <2>0, <2>3, <3>1, <3>2, <3>3
    <2>4. CASE /\ i > l /\ i - l \in 1 .. t /\ Output'[i] = accepted[b + (i - l)]
               /\ j > l /\ j - l \in 1 .. t /\ Output'[j] = accepted[b + (j - l)]
      <3>1. b + (i - l) \in 1 .. b + t /\ b + (j - l) \in 1 .. b + t
            /\ (i < j => b + (i - l) < b + (j - l))
        BY <1>1, <2>4
      <3> QED BY <2>4, <3>1
    <2> QED BY <1>6, <1>8, <2>1, <2>2, <2>3, <2>4
  <1>9. ASSUME ~broken', NEW x \in 1 .. b + t
        PROVE  \E i \in 1 .. n : Output'[i] = accepted[x]
    <2>1. ~broken /\ n = l + t
      BY <1>2, <1>9
    <2>2. CASE x \in 1 .. b
      <3>1. PICK i \in 1 .. o : Output[i] = accepted[x]
        BY <2>1, <2>2 DEF Flow, b, o
      <3>2. i \in 1 .. n /\ i <= l
        BY <1>1, <2>1, <3>1
      <3>3. Output'[i] = s[i]
        BY <1>2, <3>2
      <3> QED BY <1>5, <3>1, <3>2, <3>3
    <2>3. CASE x \notin 1 .. b
      <3>1. /\ l + (x - b) \in 1 .. n /\ ~(l + (x - b) <= l) /\ x - b \in 1 .. t
            /\ (l + (x - b)) - l = x - b /\ b + (x - b) = x
        BY <1>1, <1>9, <2>1, <2>3
      <3>2. Output'[l + (x - b)] = tcPackets[x - b]
        BY <1>2, <3>1
      <3> QED BY <1>4, <3>1, <3>2
    <2> QED BY <2>2, <2>3
  <1>10. \A i \in 1 .. c : packetChan[i] = accepted[b + t + 0 + i]
    <2>1. \A i \in 1 .. c : packetChan[i] = accepted[b + t + i]
      BY DEF Flow, b, t, c
    <2> QED BY <1>1, <2>1
  <1>11. \A x, y \in DOMAIN accepted : accepted[x] = accepted[y] => x = y
    BY DEF Flow
  <1>12. b + t >= 0 /\ accepted' = accepted /\ packetChan' = packetChan /\ Len(packetChan') = c
    BY <1>1 DEF c
  <1> QED BY <1>2, <1>3, <1>8, <1>9, <1>10, <1>11, <1>12 DEF Flow

\* The key k becomes the last block of the output.
Adds(k) == Output' = Append(Output, k)

\* Draining a key.
LEMMA FlowDrain ==
  ASSUME Types, Flow, NEW k \in Keys, Adds(k),
         UNCHANGED <<accepted, packetChan, tcPackets, broken>>
  PROVE  Flow'
  <1>1. /\ Len(Output) \in Nat /\ Len(Output') = Len(Output) + 1
        /\ \A i \in 1 .. Len(Output) : Output'[i] = Output[i]
        /\ Output'[Len(Output) + 1] = k
    <2>1. Output \in Seq(Blocks) /\ k \in Blocks
      BY OutputType DEF Types, Blocks
    <2> QED BY <2>1, AppendProperties, LenProperties DEF Adds
  <1>2. k \notin Packets
    BY ConstantsAssumption
  <1>3. SavedCount' = SavedCount
    BY DEF SavedCount
  <1>4. \A i \in 1 .. Len(Output') : Output'[i] \in Packets =>
           i \in 1 .. Len(Output) /\ Output'[i] = Output[i]
    BY <1>1, <1>2
  <1>5. \A i \in 1 .. Len(Output) : i \in 1 .. Len(Output') /\ Output'[i] = Output[i]
    BY <1>1
  <1>6. accepted' = accepted /\ packetChan' = packetChan /\ tcPackets' = tcPackets
        /\ broken' = broken
    OBVIOUS
  <1>7. \A i, j \in 1 .. Len(Output') : Output'[i] \in Packets /\ Output'[j] \in Packets =>
           \E x, y \in 1 .. SavedCount :
               accepted[x] = Output'[i] /\ accepted[y] = Output'[j] /\ (i < j => x < y)
    <2>1. \A i, j \in 1 .. Len(Output) : Output[i] \in Packets /\ Output[j] \in Packets =>
             \E x, y \in 1 .. SavedCount :
                 accepted[x] = Output[i] /\ accepted[y] = Output[j] /\ (i < j => x < y)
      BY DEF Flow
    <2> SUFFICES ASSUME NEW i \in 1 .. Len(Output'), NEW j \in 1 .. Len(Output'),
                        Output'[i] \in Packets, Output'[j] \in Packets
                 PROVE  \E x, y \in 1 .. SavedCount :
                            accepted[x] = Output'[i] /\ accepted[y] = Output'[j] /\ (i < j => x < y)
      OBVIOUS
    <2>2. /\ i \in 1 .. Len(Output) /\ Output'[i] = Output[i]
          /\ j \in 1 .. Len(Output) /\ Output'[j] = Output[j]
      BY <1>4
    <2>3. \E x, y \in 1 .. SavedCount :
             accepted[x] = Output[i] /\ accepted[y] = Output[j] /\ (i < j => x < y)
      BY <2>1, <2>2
    <2> QED BY <2>2, <2>3
  <1>8. ~broken => \A x \in 1 .. SavedCount : \E i \in 1 .. Len(Output') : Output'[i] = accepted[x]
    <2>1. ~broken => \A x \in 1 .. SavedCount : \E i \in 1 .. Len(Output) : Output[i] = accepted[x]
      BY DEF Flow
    <2> QED BY <1>5, <2>1
  <1> QED BY <1>3, <1>6, <1>7, <1>8 DEF Flow

\* What is saved prolongs the output.
LEMMA SavedProlongs ==
  ASSUME Types, NEW k \in Keys
  PROVE  Prolongs(Output) /\ Prolongs(Append(Output, k))
  <1>1. Output \in Seq(Blocks) /\ k \in Blocks /\ Len(Output) \in Nat
    BY OutputType DEF Types, Blocks
  <1>2. Prolongs(Output)
    BY <1>1 DEF Prolongs
  <1>3. /\ Len(Append(Output, k)) = Len(Output) + 1
        /\ \A i \in 1 .. Len(Output) : Append(Output, k)[i] = Output[i]
        /\ Append(Output, k)[Len(Output) + 1] = k
    BY <1>1, AppendProperties
  <1>4. \A i \in Len(Output) + 1 .. Len(Output) + 1 : i = Len(Output) + 1
    BY <1>1
  <1>5. Prolongs(Append(Output, k))
    BY <1>1, <1>3, <1>4 DEF Prolongs
  <1> QED BY <1>2, <1>5

\* Every step keeps Flow.
LEMMA FlowStep == ASSUME Types, Flow, [Next]_vars PROVE Flow'
  <1>1. ASSUME NEW p \in Packets, WritePacket(p) PROVE Flow'
    BY <1>1, FlowWrite
  <1>2. CASE TakePacket \/ (DrainPackets /\ packetChan # <<>>)
    <2>1. UNCHANGED <<accepted, broken, Output>> /\ packetChan # <<>>
          /\ tcPackets' = Append(tcPackets, Head(packetChan)) /\ packetChan' = Tail(packetChan)
      BY <1>2 DEF TakePacket, DrainPackets, Output, outVars, histVars
    <2> QED BY <2>1, FlowTake
  <1>3. CASE Tick \/ DrainSave
    <2>1. Save(ng \o tcPackets, tcPackets) /\ UNCHANGED <<accepted, packetChan>>
      BY <1>3 DEF Tick, DrainSave, chanVars, histVars
    <2>2. Written(Output) /\ tcPackets' = <<>>
      BY <2>1, TickWrites DEF Types
    <2>3. Prolongs(Output)
      BY OutputType DEF Types, Prolongs
    <2>4. PICK s : s = Output
      OBVIOUS
    <2>5. Prolongs(s) /\ Written(s)
      BY <2>2, <2>3, <2>4
    <2> QED BY <2>1, <2>2, <2>5, FlowSave
  <1>4. CASE TakeKeyLog
    <2>1. PICK k \in Keys : k = Head(keylogChan)
      BY <1>4 DEF TakeKeyLog, Types, ChanTypes
    <2>2. PICK s : s = Append(Output, k)
      OBVIOUS
    <2>3. Written(s) /\ tcPackets' = <<>> /\ Prolongs(s)
      BY <1>4, <2>1, <2>2, KeyWrites, SavedProlongs DEF Types
    <2>4. UNCHANGED <<accepted, packetChan>>
      BY <1>4 DEF TakeKeyLog, histVars
    <2> QED BY <2>3, <2>4, FlowSave
  <1>5. CASE DrainKeylogs /\ keylogChan # <<>>
    <2>1. PICK k \in Keys : k = Head(keylogChan)
      BY <1>5 DEF Types, ChanTypes
    <2>2. Adds(k)
      BY <1>5, <2>1, DrainWrites DEF Types, Adds
    <2>3. UNCHANGED <<accepted, packetChan, tcPackets, broken>>
      BY <1>5 DEF DrainKeylogs, histVars
    <2> QED BY <2>2, <2>3, FlowDrain
  <1>6. CASE PcapClosed
    <2>1. Output' = Output /\ UNCHANGED <<accepted, packetChan, tcPackets, broken>>
      BY <1>6, CloseWrites DEF PcapClosed, serveVars, histVars, Types
    <2> QED BY <2>1, FlowSame
  <1>7. ASSUME \/ \E k \in Keys : WriteKeyLog(k)
               \/ GraceDeadline \/ CtxDone \/ (DrainPackets /\ packetChan = <<>>)
               \/ (DrainKeylogs /\ keylogChan = <<>>)
               \/ DispatcherClose \/ KeylogClosed \/ DispatcherClosed
               \/ \E h \in toClose : HandlerClose(h)
               \/ UNCHANGED vars
        PROVE  Flow'
    <2>1. UNCHANGED <<accepted, packetChan, tcPackets, broken, disk, fileBuf, ng>>
      BY <1>7 DEF WriteKeyLog, GraceDeadline, CtxDone, DrainPackets, DrainKeylogs,
             DispatcherClose, KeylogClosed, DispatcherClosed, HandlerClose, vars, chanVars,
             serveVars, outVars, histVars
    <2>2. Output' = Output
      BY <2>1 DEF Output
    <2> QED BY <2>1, <2>2, FlowSame
  <1> QED BY <1>1, <1>2, <1>3, <1>4, <1>5, <1>6, <1>7, Steps DEF OtherSteps


-----------------------------------------------------------------------------
(* The keys.                                                               *)

\* What a step that makes s of the output does to its keys: those of s stay, and
\* unless a write fails they all do.
KeysWritten(s) ==
    /\ Len(Output') \in Nat
    /\ \A i \in 1 .. Len(Output') : Output'[i] \in Keys =>
          i \in 1 .. Len(s) /\ Output'[i] = s[i]
    /\ ~broken' => ~broken /\ \A i \in 1 .. Len(s) :
          i \in 1 .. Len(Output') /\ Output'[i] = s[i]

\* A save does that: what it adds to s are packets.
LEMMA SaveKeys ==
  ASSUME Types, NEW s, Len(s) \in Nat, Written(s)
  PROVE  KeysWritten(s)
  <1> DEFINE l == Len(s)
             t == Len(tcPackets)
  <1>1. l \in Nat /\ t \in Nat /\ \A i \in 1 .. t : tcPackets[i] \notin Keys
    <2>1. tcPackets \in Seq(Packets)
      BY DEF Types, BufTypes
    <2> QED BY <2>1, ConstantsAssumption
  <1>2. PICK n \in 0 .. l + t :
           /\ Len(Output') = n
           /\ \A i \in 1 .. n : Output'[i] = IF i <= l THEN s[i] ELSE tcPackets[i - l]
           /\ ~broken' => ~broken /\ n = l + t
    BY DEF Written
  <1> HIDE DEF l, t
  <1>3. ASSUME NEW i \in 1 .. n, Output'[i] \in Keys
        PROVE  i \in 1 .. l /\ Output'[i] = s[i]
    <2>1. CASE i <= l
      BY <1>1, <1>2, <2>1
    <2>2. CASE ~(i <= l)
      <3>1. i - l \in 1 .. t
        BY <1>1, <1>2, <2>2
      <3>2. Output'[i] = tcPackets[i - l]
        BY <1>2, <2>2
      <3> QED BY <1>1, <1>3, <3>1, <3>2
    <2> QED BY <2>1, <2>2
  <1>4. ASSUME ~broken', NEW i \in 1 .. l
        PROVE  i \in 1 .. n /\ Output'[i] = s[i]
    <2>1. n = l + t
      BY <1>2, <1>4
    <2>2. i \in 1 .. n /\ i <= l
      BY <1>1, <2>1
    <2> QED BY <1>2, <2>2
  <1>5. ~broken' => ~broken
    BY <1>2
  <1>6. n \in Nat /\ Len(Output') = n
    BY <1>1, <1>2
  <1> QED BY <1>3, <1>4, <1>5, <1>6 DEF KeysWritten, l

\* Steps that neither send nor take a key.  Handlers that run no more need not
\* remember what they have seen.
LEMMA SecretsStay ==
  ASSUME Types, Secrets, KeysWritten(Output), keylogChan' = keylogChan, seenKeys' \subseteq seenKeys,
         dispatcher' = "open" => dispatcher = "open" /\ seenKeys' = seenKeys
  PROVE  Secrets'
  <1> DEFINE o == Len(Output)
             m == Len(Output')
             c == Len(keylogChan)
  <1>1. /\ \A i \in 1 .. m : Output'[i] \in Keys => i \in 1 .. o /\ Output'[i] = Output[i]
        /\ ~broken' => ~broken /\ \A i \in 1 .. o : i \in 1 .. m /\ Output'[i] = Output[i]
    BY DEF KeysWritten
  <1>2. \A i \in 1 .. c : keylogChan[i] \in Keys
    BY DEF Types, ChanTypes
  <1>3. Len(keylogChan') = c
    OBVIOUS
  <1>s. /\ \A i \in 1 .. o : Output[i] \in Keys => Output[i] \in seenKeys \/ dispatcher # "open"
        /\ \A i \in 1 .. c : keylogChan[i] \in seenKeys \/ dispatcher # "open"
        /\ \A i, j \in 1 .. o : i # j /\ Output[i] \in Keys => Output[i] # Output[j]
        /\ \A i, j \in 1 .. c : i # j => keylogChan[i] # keylogChan[j]
        /\ \A i \in 1 .. o, j \in 1 .. c : Output[i] # keylogChan[j]
        /\ ~broken => \A k \in seenKeys : \/ \E i \in 1 .. o : Output[i] = k
                                          \/ \E i \in 1 .. c : keylogChan[i] = k
    BY DEF Secrets
  <1> HIDE DEF o, m, c
  <1>4. \A i \in 1 .. m : Output'[i] \in Keys => Output'[i] \in seenKeys' \/ dispatcher' # "open"
    BY <1>1, <1>s
  <1>5. \A i \in 1 .. c : keylogChan'[i] \in seenKeys' \/ dispatcher' # "open"
    BY <1>s
  <1>6. \A i, j \in 1 .. m : i # j /\ Output'[i] \in Keys => Output'[i] # Output'[j]
    BY <1>1, <1>s
  <1>7. \A i, j \in 1 .. c : i # j => keylogChan'[i] # keylogChan'[j]
    BY <1>s
  <1>8. \A i \in 1 .. m, j \in 1 .. c : Output'[i] # keylogChan'[j]
    BY <1>1, <1>2, <1>s
  <1>9. ~broken' => \A k \in seenKeys' : \/ \E i \in 1 .. m : Output'[i] = k
                                         \/ \E i \in 1 .. c : keylogChan'[i] = k
    BY <1>1, <1>s
  <1> QED BY <1>3, <1>4, <1>5, <1>6, <1>7, <1>8, <1>9 DEF Secrets, m

\* The first key of the channel, k, leaves it, and s is the output followed by it.
Moves(k, s) ==
    /\ keylogChan # <<>> /\ k = Head(keylogChan) /\ keylogChan' = Tail(keylogChan)
    /\ s = Append(Output, k)

\* The first key of the channel moves to the end of the output.
LEMMA SecretsMove ==
  ASSUME Types, Secrets, NEW k \in Keys, NEW s, Moves(k, s), KeysWritten(s),
         UNCHANGED <<seenKeys, dispatcher>>
  PROVE  Secrets'
  <1> DEFINE o == Len(Output)
             m == Len(Output')
             c == Len(keylogChan)
  <1>0. Output \in Seq(Blocks) /\ k \in Blocks /\ o \in Nat
    BY OutputType DEF Types, Blocks
  <1>1. /\ c \in Nat /\ c >= 1 /\ k = keylogChan[1]
        /\ \A i \in 1 .. c : keylogChan[i] \in Keys
        /\ Len(keylogChan') = c - 1
        /\ \A i \in 1 .. c - 1 : keylogChan'[i] = keylogChan[i + 1]
    BY DEF Types, ChanTypes, Moves
  <1>2. /\ Len(s) = o + 1 /\ s[o + 1] = k
        /\ \A i \in 1 .. o : s[i] = Output[i]
    BY <1>0, AppendProperties DEF Moves
  <1>3. /\ \A i \in 1 .. m : Output'[i] \in Keys => i \in 1 .. o + 1 /\ Output'[i] = s[i]
        /\ ~broken' => ~broken /\ \A i \in 1 .. o + 1 : i \in 1 .. m /\ Output'[i] = s[i]
    BY <1>2 DEF KeysWritten
  <1>s. /\ \A i \in 1 .. o : Output[i] \in Keys => Output[i] \in seenKeys \/ dispatcher # "open"
        /\ \A i \in 1 .. c : keylogChan[i] \in seenKeys \/ dispatcher # "open"
        /\ \A i, j \in 1 .. o : i # j /\ Output[i] \in Keys => Output[i] # Output[j]
        /\ \A i, j \in 1 .. c : i # j => keylogChan[i] # keylogChan[j]
        /\ \A i \in 1 .. o, j \in 1 .. c : Output[i] # keylogChan[j]
        /\ ~broken => \A x \in seenKeys : \/ \E i \in 1 .. o : Output[i] = x
                                          \/ \E i \in 1 .. c : keylogChan[i] = x
    BY DEF Secrets
  <1>u. seenKeys' = seenKeys /\ dispatcher' = dispatcher
    OBVIOUS
  <1> HIDE DEF o, m, c
  <1>4. /\ \A i \in 1 .. o + 1 : i \in 1 .. o \/ i = o + 1
        /\ \A i \in 1 .. o : i \in 1 .. o + 1 /\ i # o + 1
        /\ o + 1 \in 1 .. o + 1
    BY <1>0
  <1>5. /\ \A i \in 1 .. c - 1 : i + 1 \in 1 .. c /\ i + 1 # 1
        /\ \A i, j \in 1 .. c - 1 : i # j => i + 1 # j + 1
        /\ \A i \in 1 .. c : i = 1 \/ \E j \in 1 .. c - 1 : i = j + 1
        /\ 1 \in 1 .. c
    <2>1. \A i \in 1 .. c : i = 1 \/ (i - 1 \in 1 .. c - 1 /\ i = (i - 1) + 1)
      BY <1>1
    <2> QED BY <1>1, <2>1
  <1>6. \A i \in 1 .. m : Output'[i] \in Keys =>
           \/ i \in 1 .. o /\ Output'[i] = Output[i]
           \/ i = o + 1 /\ Output'[i] = keylogChan[1]
    BY <1>1, <1>2, <1>3, <1>4
  <1>7. \A i \in 1 .. m : Output'[i] \in Keys => Output'[i] \in seenKeys' \/ dispatcher' # "open"
    BY <1>5, <1>6, <1>s, <1>u
  <1>8. \A i \in 1 .. c - 1 : keylogChan'[i] \in seenKeys' \/ dispatcher' # "open"
    BY <1>1, <1>5, <1>s, <1>u
  <1>9. \A i, j \in 1 .. m : i # j /\ Output'[i] \in Keys => Output'[i] # Output'[j]
    BY <1>5, <1>6, <1>s
  <1>10. \A i, j \in 1 .. c - 1 : i # j => keylogChan'[i] # keylogChan'[j]
    BY <1>1, <1>5, <1>s
  <1>11. \A i \in 1 .. m, j \in 1 .. c - 1 : Output'[i] # keylogChan'[j]
    <2> SUFFICES ASSUME NEW i \in 1 .. m, NEW j \in 1 .. c - 1, Output'[i] = keylogChan'[j]
                 PROVE  FALSE
      OBVIOUS
    <2>1. j + 1 \in 1 .. c /\ 1 \in 1 .. c /\ j + 1 # 1 /\ Output'[i] = keylogChan[j + 1]
      BY <1>1, <1>5
    <2>2. Output'[i] \in Keys
      BY <1>1, <2>1
    <2> QED BY <1>6, <1>s, <2>1, <2>2
  <1>12. ASSUME ~broken', NEW x \in seenKeys
         PROVE  \/ \E i \in 1 .. m : Output'[i] = x
                \/ \E i \in 1 .. c - 1 : keylogChan'[i] = x
    <2>1. ~broken /\ \A i \in 1 .. o + 1 : i \in 1 .. m /\ Output'[i] = s[i]
      BY <1>3, <1>12
    <2>2. CASE \E i \in 1 .. o : Output[i] = x
      BY <1>2, <1>4, <2>1, <2>2
    <2>3. CASE x = keylogChan[1]
      BY <1>1, <1>2, <1>4, <2>1, <2>3
    <2>4. CASE \E i \in 1 .. c - 1 : keylogChan[i + 1] = x
      BY <1>1, <2>4
    <2> QED BY <1>5, <1>s, <2>1, <2>2, <2>3, <2>4
  <1> QED BY <1>1, <1>7, <1>8, <1>9, <1>10, <1>11, <1>12, <1>u DEF Secrets, m

\* WriteKeyLog(): a key not seen before is neither in the channel nor in the output.
LEMMA SecretsSend ==
  ASSUME Types, Secrets, NEW k \in Keys, WriteKeyLog(k), ~chansClosed
  PROVE  Secrets'
  <1> DEFINE o == Len(Output)
             c == Len(keylogChan)
  <1>0. dispatcher = "open" /\ k \notin seenKeys /\ dispatcher' = "open" /\ broken' = broken
        /\ Output' = Output /\ seenKeys' = seenKeys \cup {k}
    BY DEF WriteKeyLog, DispatchOpen, outVars, closeVars, Output
  <1>1. /\ c \in Nat /\ Len(keylogChan') = c + 1 /\ keylogChan'[c + 1] = k
        /\ \A i \in 1 .. c : keylogChan'[i] = keylogChan[i]
    <2>1. keylogChan' = Append(keylogChan, k)
      BY DEF WriteKeyLog
    <2>2. keylogChan \in Seq(Keys)
      BY DEF Types, ChanTypes
    <2> QED BY <2>1, <2>2, AppendProperties
  <1>s. /\ \A i \in 1 .. o : Output[i] \in Keys => Output[i] \in seenKeys
        /\ \A i \in 1 .. c : keylogChan[i] \in seenKeys
        /\ \A i, j \in 1 .. o : i # j /\ Output[i] \in Keys => Output[i] # Output[j]
        /\ \A i, j \in 1 .. c : i # j => keylogChan[i] # keylogChan[j]
        /\ \A i \in 1 .. o, j \in 1 .. c : Output[i] # keylogChan[j]
        /\ ~broken => \A x \in seenKeys : \/ \E i \in 1 .. o : Output[i] = x
                                          \/ \E i \in 1 .. c : keylogChan[i] = x
    BY <1>0 DEF Secrets
  <1> HIDE DEF c
  <1>2. /\ \A i \in 1 .. c + 1 : i \in 1 .. c \/ i = c + 1
        /\ \A i \in 1 .. c : i \in 1 .. c + 1 /\ i # c + 1
        /\ c + 1 \in 1 .. c + 1
    BY <1>1
  <1>3. \A i \in 1 .. o : Output[i] \in Keys => Output[i] \in seenKeys \cup {k}
    BY <1>s
  <1>4. \A i \in 1 .. c + 1 : keylogChan'[i] \in seenKeys \cup {k}
    BY <1>1, <1>2, <1>s
  <1>5. \A i, j \in 1 .. c + 1 : i # j => keylogChan'[i] # keylogChan'[j]
    BY <1>0, <1>1, <1>2, <1>s
  <1>6. \A i \in 1 .. o, j \in 1 .. c + 1 : Output[i] # keylogChan'[j]
    <2>1. \A i \in 1 .. o : Output[i] # k
      BY <1>0, <1>s
    <2> QED BY <2>1, <1>1, <1>2, <1>s
  <1>7. ~broken => \A x \in seenKeys \cup {k} : \/ \E i \in 1 .. o : Output[i] = x
                                                \/ \E i \in 1 .. c + 1 : keylogChan'[i] = x
    BY <1>1, <1>2, <1>s
  <1> QED BY <1>0, <1>1, <1>3, <1>4, <1>5, <1>6, <1>7, <1>s DEF Secrets

\* Every step keeps Secrets.
LEMMA SecretsStep == ASSUME Types, Closing, Secrets, [Next]_vars PROVE Secrets'
  <1>0. Output \in Seq(Blocks) /\ Len(Output) \in Nat
    BY OutputType DEF Types
  <1>1. CASE Tick \/ DrainSave
    <2>1. Save(ng \o tcPackets, tcPackets) /\ UNCHANGED <<keylogChan, seenKeys, dispatcher>>
      BY <1>1 DEF Tick, DrainSave, chanVars, closeVars
    <2>2. Written(Output)
      BY <2>1, TickWrites DEF Types
    <2>3. PICK s : s = Output
      OBVIOUS
    <2>4. KeysWritten(Output)
      BY <1>0, <2>2, <2>3, SaveKeys
    <2> QED BY <2>1, <2>4, SecretsStay
  <1>2. CASE TakeKeyLog
    <2>1. PICK k \in Keys : k = Head(keylogChan)
      BY <1>2 DEF TakeKeyLog, Types, ChanTypes
    <2>2. PICK s : s = Append(Output, k)
      OBVIOUS
    <2>3. Written(s)
      BY <1>2, <2>1, <2>2, KeyWrites DEF Types
    <2>4. Len(s) \in Nat
      <3>1. k \in Blocks
        BY DEF Blocks
      <3> QED BY <1>0, <2>2, <3>1, AppendProperties
    <2>5. KeysWritten(s)
      BY <2>3, <2>4, SaveKeys
    <2>6. Moves(k, s) /\ UNCHANGED <<seenKeys, dispatcher>>
      BY <1>2, <2>1, <2>2 DEF TakeKeyLog, Moves, closeVars
    <2> QED BY <2>5, <2>6, SecretsMove
  <1>3. CASE DrainKeylogs /\ keylogChan # <<>>
    <2>1. PICK k \in Keys : k = Head(keylogChan)
      BY <1>3 DEF Types, ChanTypes
    <2>2. PICK s : s = Append(Output, k)
      OBVIOUS
    <2>3. Output' = s /\ broken' = broken
      BY <1>3, <2>1, <2>2, DrainWrites DEF Types, DrainKeylogs
    <2>4. Len(s) \in Nat
      <3>1. k \in Blocks
        BY DEF Blocks
      <3> QED BY <1>0, <2>2, <3>1, AppendProperties
    <2>5. KeysWritten(s)
      <3> HIDE <2>2
      <3> QED BY <2>3, <2>4 DEF KeysWritten
    <2>6. Moves(k, s) /\ UNCHANGED <<seenKeys, dispatcher>>
      BY <1>3, <2>1, <2>2 DEF DrainKeylogs, Moves, closeVars
    <2> QED BY <2>5, <2>6, SecretsMove
  <1>4. ASSUME NEW k \in Keys, WriteKeyLog(k) PROVE Secrets'
    <2>1. ~chansClosed
      BY <1>4 DEF WriteKeyLog, DispatchOpen, Closing
    <2> QED BY <1>4, <2>1, SecretsSend
  <1>5. ASSUME Output' = Output, broken' = broken, keylogChan' = keylogChan,
               seenKeys' \subseteq seenKeys,
               dispatcher' = "open" => dispatcher = "open" /\ seenKeys' = seenKeys
        PROVE  Secrets'
    <2>1. KeysWritten(Output)
      BY <1>0, <1>5 DEF KeysWritten
    <2> QED BY <1>5, <2>1, SecretsStay
  <1>6. CASE PcapClosed
    <2>1. Output' = Output
      BY <1>6, CloseWrites DEF Types
    <2>2. UNCHANGED <<broken, keylogChan, seenKeys>> /\ dispatcher' # "open"
      BY <1>6 DEF PcapClosed
    <2> QED BY <1>5, <2>1, <2>2
  <1>7. ASSUME \/ \E p \in Packets : WritePacket(p)
               \/ GraceDeadline \/ TakePacket \/ CtxDone \/ DrainPackets
               \/ DrainKeylogs /\ keylogChan = <<>>
               \/ DispatcherClose \/ KeylogClosed \/ DispatcherClosed
               \/ \E h \in toClose : HandlerClose(h)
               \/ UNCHANGED vars
        PROVE  Secrets'
    <2>1. UNCHANGED <<ng, fileBuf, disk, broken, keylogChan>>
      BY <1>7 DEF WritePacket, GraceDeadline, TakePacket, CtxDone, DrainPackets, DrainKeylogs,
             DispatcherClose, KeylogClosed, DispatcherClosed, HandlerClose, vars, chanVars, outVars
    <2>2. \/ UNCHANGED seenKeys /\ (UNCHANGED dispatcher \/ dispatcher' # "open")
          \/ seenKeys' \in {{}, seenKeys} /\ dispatcher' \in toClose
      BY <1>7 DEF WritePacket, GraceDeadline, TakePacket, CtxDone, DrainPackets, DrainKeylogs,
             DispatcherClose, KeylogClosed, DispatcherClosed, HandlerClose, vars, closeVars
    <2>3. "open" \notin toClose
      BY DEF Types, PcTypes
    <2>4. Output' = Output
      BY <2>1 DEF Output
    <2> QED BY <1>5, <2>1, <2>2, <2>3, <2>4
  <1> QED BY <1>1, <1>2, <1>3, <1>4, <1>6, <1>7, Steps DEF OtherSteps

-----------------------------------------------------------------------------
(* The first DSB.                                                          *)

\* A save keeps Ahead: what it puts in front of everything is the first block of s
\* or, when there is none, a packet for which the grace period is over.
LEMMA AheadSave ==
  ASSUME Types, Ahead, NEW s, Prolongs(s), Written(s),
         firstDSBWritten' => firstDSBWritten \/ Len(s) > 0,
         \/ serve' = "done"
         \/ UNCHANGED <<serve, graceOver>> /\ (Len(s) > 0 \/ firstDSBWritten \/ graceOver)
  PROVE  Ahead'
  <1> DEFINE o == Len(Output)
             l == Len(s)
             t == Len(tcPackets)
  <1>1. o \in Nat /\ l \in Nat /\ l >= o /\ t \in Nat
    BY Lengths DEF Types, Prolongs
  <1>2. PICK n \in 0 .. l + t :
           /\ Len(Output') = n
           /\ \A i \in 1 .. n : Output'[i] = IF i <= l THEN s[i] ELSE tcPackets[i - l]
           /\ ~broken' => ~broken /\ n = l + t
           /\ broken => n <= o
    BY DEF Written
  <1>3. /\ o > 0 => s[1] = Output[1]
        /\ l > 0 /\ ~(o > 0) => s[1] \notin Packets
    <2>1. o > 0 => 1 \in 1 .. o
      BY <1>1
    <2>2. l > 0 /\ ~(o > 0) => 1 \in o + 1 .. l
      BY <1>1
    <2> QED BY <2>1, <2>2, ConstantsAssumption DEF Prolongs
  <1>4. /\ firstDSBWritten => o > 0 \/ broken
        /\ o > 0 /\ Output[1] \in Packets => graceOver \/ serve = "done"
    BY DEF Ahead
  <1> HIDE DEF o, l, t
  <1>5. firstDSBWritten' => n > 0 \/ broken'
    BY <1>1, <1>2, <1>4 DEF l
  <1>6. ASSUME n > 0, Output'[1] \in Packets PROVE graceOver' \/ serve' = "done"
    <2>1. n > 0 /\ l > 0 => Output'[1] = s[1]
      BY <1>1, <1>2
    <2>2. CASE o > 0
      BY <1>1, <1>3, <1>4, <1>6, <2>1, <2>2
    <2>3. CASE ~(o > 0)
      <3>1. ~(l > 0) /\ ~broken
        BY <1>1, <1>2, <1>3, <1>6, <2>1, <2>3
      <3> QED BY <1>4, <2>3, <3>1 DEF l
    <2> QED BY <2>2, <2>3
  <1> QED BY <1>2, <1>5, <1>6 DEF Ahead

\* Every step keeps Ahead.
LEMMA AheadStep == ASSUME Types, Ahead, [Next]_vars PROVE Ahead'
  <1>0. Output \in Seq(Blocks) /\ Len(Output) \in Nat
    BY OutputType DEF Types
  <1>1. CASE Tick \/ DrainSave
    <2>1. Save(ng \o tcPackets, tcPackets)
      BY <1>1 DEF Tick, DrainSave
    <2>2. Written(Output)
      BY <2>1, TickWrites DEF Types
    <2>3. Prolongs(Output)
      BY <1>0 DEF Prolongs
    <2>4. UNCHANGED firstDSBWritten
          /\ (serve' = "done" \/ (UNCHANGED <<serve, graceOver>> /\ (firstDSBWritten \/ graceOver)))
      BY <1>1 DEF Tick, DrainSave
    <2>5. PICK s : s = Output
      OBVIOUS
    <2>6. Prolongs(s) /\ Written(s)
      BY <2>2, <2>3, <2>5
    <2> QED BY <2>4, <2>6, AheadSave
  <1>2. CASE TakeKeyLog
    <2>1. PICK k \in Keys : k = Head(keylogChan)
      BY <1>2 DEF TakeKeyLog, Types, ChanTypes
    <2>2. PICK s : s = Append(Output, k)
      OBVIOUS
    <2>3. Written(s) /\ Prolongs(s)
      BY <1>2, <2>1, <2>2, KeyWrites, SavedProlongs DEF Types
    <2>4. Len(s) > 0
      <3>1. k \in Blocks
        BY DEF Blocks
      <3> QED BY <1>0, <2>2, <3>1, AppendProperties
    <2>5. UNCHANGED <<serve, graceOver>>
      BY <1>2 DEF TakeKeyLog
    <2> QED BY <2>3, <2>4, <2>5, AheadSave
  <1>3. CASE DrainKeylogs /\ keylogChan # <<>>
    <2>1. PICK k \in Keys : k = Head(keylogChan)
      BY <1>3 DEF Types, ChanTypes
    <2>2. k \in Blocks /\ k \notin Packets
      BY ConstantsAssumption DEF Blocks
    <2>3. Output' = Append(Output, k)
      BY <1>3, <2>1, DrainWrites DEF Types
    <2>4. /\ Len(Output') = Len(Output) + 1
          /\ \A i \in 1 .. Len(Output) : Output'[i] = Output[i]
          /\ Output'[Len(Output) + 1] = k
      BY <1>0, <2>2, <2>3, AppendProperties
    <2>5. UNCHANGED <<graceOver, firstDSBWritten, broken>> /\ (serve = "done" => serve' = "done")
      BY <1>3 DEF DrainKeylogs
    <2>6. Len(Output') > 0
      BY <1>0, <2>4
    <2>7. CASE Len(Output) = 0
      BY <2>2, <2>4, <2>6, <2>7 DEF Ahead
    <2>8. CASE Len(Output) > 0
      <3>1. Output'[1] = Output[1]
        BY <1>0, <2>4, <2>8
      <3> QED BY <2>5, <2>6, <2>8, <3>1 DEF Ahead
    <2> QED BY <1>0, <2>7, <2>8
  <1>4. ASSUME Output' = Output, UNCHANGED <<broken, firstDSBWritten>>,
               graceOver' = graceOver \/ graceOver' = TRUE, serve = "done" => serve' = "done"
        PROVE  Ahead'
    BY <1>4 DEF Ahead
  <1>5. CASE PcapClosed
    <2>1. Output' = Output /\ UNCHANGED <<broken, firstDSBWritten, graceOver, serve>>
      BY <1>5, CloseWrites DEF PcapClosed, serveVars, Types
    <2> QED BY <1>4, <2>1
  <1>6. CASE OtherSteps \/ UNCHANGED vars
    <2>1. UNCHANGED <<ng, fileBuf, disk, broken, firstDSBWritten>>
      BY <1>6 DEF OtherSteps, WritePacket, WriteKeyLog, GraceDeadline, TakePacket, CtxDone,
             DrainPackets, DrainKeylogs, DispatcherClose, KeylogClosed, DispatcherClosed,
             HandlerClose, outVars, serveVars, vars
    <2>2. (graceOver' = graceOver \/ graceOver' = TRUE) /\ (serve = "done" => serve' = "done")
      BY <1>6 DEF OtherSteps, WritePacket, WriteKeyLog, GraceDeadline, TakePacket, CtxDone,
             DrainPackets, DrainKeylogs, DispatcherClose, KeylogClosed, DispatcherClosed,
             HandlerClose, serveVars, vars
    <2>3. Output' = Output
      BY <2>1 DEF Output
    <2> QED BY <1>4, <2>1, <2>2, <2>3
  <1> QED BY <1>1, <1>2, <1>3, <1>5, <1>6, Steps

-----------------------------------------------------------------------------
(* The invariant holds, and what follows from it.                          *)

\* Initially nothing has been sent, taken or written.
LEMMA InitInv == Init => Inv
  <1> SUFFICES ASSUME Init PROVE Inv
    OBVIOUS
  <1>1. Output = <<>>
    BY DEF Init, Output
  <1>2. Types
    BY ConstantsAssumption DEF Init, Types, ChanTypes, BufTypes, PcTypes
  <1>3. FlagTypes
    BY Zenon DEF Init, FlagTypes
  <1>4. Closing
    BY DEF Init, Closing
  <1>5. Flow
    <2>1. accepted = <<>> /\ packetChan = <<>> /\ tcPackets = <<>>
      BY DEF Init
    <2>2. Len(<<>>) = 0 /\ DOMAIN <<>> = 1 .. 0
      OBVIOUS
    <2>3. SavedCount = 0
      <3>1. Len(accepted) = 0 /\ Len(packetChan) = 0 /\ Len(tcPackets) = 0
        BY <2>1, <2>2
      <3> HIDE <2>1
      <3> QED BY <3>1 DEF SavedCount
    <2> QED BY <1>1, <2>1, <2>2, <2>3 DEF Flow
  <1>6. Secrets
    BY <1>1 DEF Init, Secrets
  <1>7. Ahead
    BY <1>1 DEF Init, Ahead
  <1> QED BY <1>2, <1>3, <1>4, <1>5, <1>6, <1>7 DEF Inv

\* Inv holds in every state of every behaviour.
LEMMA Invariance == Spec => []Inv
  <1>1. Inv /\ [Next]_vars => Inv'
    <2> SUFFICES ASSUME Inv, [Next]_vars PROVE Inv'
      OBVIOUS
    <2>1. Types /\ FlagTypes /\ Closing /\ Flow /\ Secrets /\ Ahead
      BY DEF Inv
    <2>2. ChanTypes' /\ BufTypes' /\ PcTypes'
      BY <2>1, ChanTypesStep, BufTypesStep, PcTypesStep
    <2>3. FlagTypes' /\ Closing' /\ Flow' /\ Secrets' /\ Ahead'
      BY <2>1, FlagsStep, ClosingStep, FlowStep, SecretsStep, AheadStep
    <2> QED BY <2>2, <2>3 DEF Inv, Types
  <1> QED BY <1>1, InitInv, PTL DEF Spec

\* The types of the writer's state, and the capacities of the two channels.
THEOREM TypeCorrect == Spec => []TypeOK
  <1>1. Inv => TypeOK
    BY TypesSuffice DEF Inv
  <1> QED BY <1>1, Invariance, PTL

\* pcap_writer.go: no handler sends on packetChan or keylogChan after Close() has
\* closed them: Dispatch() has stopped by the time a handler is closed.
THEOREM NeverSendsOnClosed == Spec => []NoSendOnClosed
  <1>1. Inv => NoSendOnClosed
    BY DEF Inv, Closing, NoSendOnClosed
  <1> QED BY <1>1, Invariance, PTL

\* Serve(): unless the grace period is over or the writer shuts down, no packet
\* stands before the first DSB, even when writes fail.
THEOREM SecretsComeFirst == Spec => []DSBFirst
  <1>1. Inv => DSBFirst
    <2> SUFFICES ASSUME Inv, Output # <<>>, Head(Output) \in Packets
                 PROVE  graceOver \/ serve = "done"
      BY DEF DSBFirst
    <2>1. Output \in Seq(Blocks) /\ Len(Output) \in Nat
      BY OutputType DEF Inv, Types
    <2>2. Len(Output) > 0 /\ Head(Output) = Output[1]
      BY <2>1
    <2> QED BY <2>2 DEF Inv, Ahead
  <1> QED BY <1>1, Invariance, PTL

\* A packet the step saves, in the i-th place of the output, has no key behind it.
NewPacketsLast ==
    \A i \in DOMAIN Output' : Output'[i] \in Packets \ ToSet(Output) =>
        /\ keylogChan' = <<>>
        /\ \A j \in DOMAIN Output' : j > i => Output'[j] \notin Keys

\* The final save: the packets follow all that is written already.
LEMMA FinalSave == ASSUME Types, Closing, DrainSave PROVE NewPacketsLast
  <1> DEFINE o == Len(Output)
             t == Len(tcPackets)
  <1>1. o \in Nat /\ t \in Nat /\ Output \in Seq(Blocks)
    BY Lengths, OutputType DEF Types
  <1>2. Written(Output)
    BY TickWrites DEF DrainSave, Types
  <1>3. PICK n \in 0 .. o + t :
           /\ Output' \in Seq(Blocks) /\ Len(Output') = n
           /\ \A i \in 1 .. n : Output'[i] = IF i <= o THEN Output[i] ELSE tcPackets[i - o]
    BY <1>2 DEF Written
  <1>4. DOMAIN Output = 1 .. o /\ DOMAIN Output' = 1 .. n
    BY <1>1, <1>3
  <1>5. \A m \in 1 .. t : tcPackets[m] \in Packets
    BY DEF Types, BufTypes
  <1>6. keylogChan' = <<>>
    BY DEF DrainSave, Closing, chanVars
  <1>7. ASSUME NEW i \in 1 .. n, Output'[i] \notin ToSet(Output)
        PROVE  i > o
    <2>1. CASE i <= o
      <3>1. i \in 1 .. o /\ Output'[i] = Output[i]
        BY <1>1, <1>3, <2>1
      <3>2. Output[i] \in ToSet(Output)
        BY <1>4, <3>1 DEF ToSet
      <3> QED BY <1>7, <3>1, <3>2
    <2> QED BY <1>1, <2>1
  <1>8. ASSUME NEW i \in 1 .. n, NEW j \in 1 .. n, i > o, j > i
        PROVE  Output'[j] \notin Keys
    <2> HIDE DEF o, t
    <2>1. ~(j <= o) /\ j - o \in 1 .. t
      BY <1>1, <1>3, <1>8
    <2>2. Output'[j] = tcPackets[j - o]
      BY <1>3, <2>1
    <2> QED BY <1>5, <2>1, <2>2, ConstantsAssumption
  <1> SUFFICES ASSUME NEW i \in 1 .. n, Output'[i] \in Packets \ ToSet(Output)
               PROVE  \A j \in 1 .. n : j > i => Output'[j] \notin Keys
    BY <1>4, <1>6 DEF NewPacketsLast
  <1> QED BY <1>7, <1>8

\* No other step of the shutdown saves a packet.
LEMMA DrainingSteps ==
  ASSUME Types, serve # "select", [Next]_vars, ~DrainSave PROVE NewPacketsLast
  <1>0. Output \in Seq(Blocks) /\ Len(Output) \in Nat
    BY OutputType DEF Types
  <1>1. CASE Output' = Output
    <2>1. \A i \in DOMAIN Output : Output[i] \in ToSet(Output)
      BY DEF ToSet
    <2> QED BY <1>1, <2>1 DEF NewPacketsLast
  <1>2. CASE DrainKeylogs /\ keylogChan # <<>>
    <2>1. PICK k \in Keys : k = Head(keylogChan)
      BY <1>2 DEF Types, ChanTypes
    <2>2. k \in Blocks /\ k \notin Packets
      BY ConstantsAssumption DEF Blocks
    <2>3. Output' = Append(Output, k)
      BY <1>2, <2>1, DrainWrites DEF Types
    <2>4. /\ DOMAIN Output' = 1 .. Len(Output) + 1 /\ DOMAIN Output = 1 .. Len(Output)
          /\ \A i \in 1 .. Len(Output) : Output'[i] = Output[i]
          /\ Output'[Len(Output) + 1] = k
      BY <1>0, <2>2, <2>3, AppendProperties
    <2>5. ASSUME NEW i \in DOMAIN Output', Output'[i] \in Packets
          PROVE  Output'[i] \in ToSet(Output)
      <3>1. i \in 1 .. Len(Output)
        BY <1>0, <2>2, <2>4, <2>5
      <3> QED BY <2>4, <3>1 DEF ToSet
    <2> QED BY <2>5 DEF NewPacketsLast
  <1>3. ~Tick /\ ~TakeKeyLog
    BY DEF Tick, TakeKeyLog
  <1>4. PcapClosed \/ OtherSteps \/ UNCHANGED vars => Output' = Output
    <2>1. UNCHANGED vars => Output' = Output
      BY DEF vars, outVars, Output
    <2> QED BY <2>1, CloseWrites, OthersWrite DEF Types
  <1> QED BY <1>1, <1>2, <1>3, <1>4, Steps

\* drainOnShutdown(): when the shutdown saves packets it has drained the keys, and
\* the DSBs stand before those packets in the output, also if the save fails.
THEOREM ShutdownDrainsFirst == Spec => ShutdownDSBFirst
  <1>1. Inv /\ [Next]_vars => (serve # "select" => NewPacketsLast)
    BY FinalSave, DrainingSteps DEF Inv
  <1>2. Inv /\ [Next]_vars =>
          [serve # "select" =>
             \A i \in DOMAIN Output' : Output'[i] \in Packets \ ToSet(Output) =>
                 /\ keylogChan' = <<>>
                 /\ \A j \in DOMAIN Output' : j > i => Output'[j] \notin Keys]_vars
    BY <1>1 DEF NewPacketsLast
  <1> QED BY <1>2, Invariance, PTL DEF Spec, ShutdownDSBFirst

\* What Serve() has written, what it holds and what is in the channel, one after the
\* other: after the output come the accepted packets that have not been saved.
LEMMA Pipeline ==
  ASSUME Types, Flow, NEW all, all = Output \o tcPackets \o packetChan
  PROVE  /\ DOMAIN all = 1 .. Len(Output) + (Len(accepted) - SavedCount)
         /\ \A i \in 1 .. Len(Output) : all[i] = Output[i]
         /\ \A i \in 1 .. Len(accepted) - SavedCount :
               all[Len(Output) + i] = accepted[SavedCount + i]
  <1> DEFINE c == Len(packetChan)
             t == Len(tcPackets)
             b == SavedCount
             o == Len(Output)
             u == Output \o tcPackets
  <1>1. /\ c \in Nat /\ t \in Nat /\ b \in Nat /\ Len(accepted) = b + t + c /\ o \in Nat
    BY Lengths DEF Types, Flow, SavedCount
  <1>2. Output \in Seq(Blocks) /\ tcPackets \in Seq(Blocks) /\ packetChan \in Seq(Blocks)
    BY OutputType, SeqMonotonic DEF Types, BufTypes, ChanTypes, Blocks
  <1>3. /\ u \in Seq(Blocks) /\ Len(u) = o + t
        /\ \A i \in 1 .. o + t : u[i] = IF i <= o THEN Output[i] ELSE tcPackets[i - o]
    BY <1>2, Concat
  <1> HIDE DEF u
  <1>4. /\ u \o packetChan \in Seq(Blocks) /\ Len(u \o packetChan) = Len(u) + c
        /\ \A i \in 1 .. Len(u) + c :
              (u \o packetChan)[i] = IF i <= Len(u) THEN u[i] ELSE packetChan[i - Len(u)]
    BY <1>2, <1>3, Concat
  <1>5. /\ all \in Seq(Blocks) /\ Len(all) = o + t + c
        /\ \A i \in 1 .. o + t + c : all[i] = IF i <= o + t THEN u[i] ELSE packetChan[i - (o + t)]
    BY <1>3, <1>4 DEF u
  <1>6. DOMAIN all = 1 .. o + t + c
    BY <1>5, LenProperties
  <1>7. \A i \in 1 .. t : tcPackets[i] = accepted[b + i]
    BY DEF Flow
  <1>8. \A i \in 1 .. c : packetChan[i] = accepted[b + t + i]
    BY DEF Flow
  <1> HIDE DEF c, t, b, o
  <1>9. \A i \in 1 .. o : all[i] = Output[i]
    <2>1. \A i \in 1 .. o : i \in 1 .. o + t /\ i \in 1 .. o + t + c /\ i <= o + t /\ i <= o
      BY <1>1
    <2> QED BY <1>3, <1>5, <2>1
  <1>10. ASSUME NEW i \in 1 .. t + c PROVE all[o + i] = accepted[b + i]
    <2>1. CASE i <= t
      <3>1. /\ i \in 1 .. t /\ o + i \in 1 .. o + t /\ o + i \in 1 .. o + t + c
            /\ o + i <= o + t /\ ~(o + i <= o) /\ (o + i) - o = i
        BY <1>1, <2>1
      <3> QED BY <1>3, <1>5, <1>7, <3>1
    <2>2. CASE ~(i <= t)
      <3>1. /\ i - t \in 1 .. c /\ o + i \in 1 .. o + t + c /\ ~(o + i <= o + t)
            /\ (o + i) - (o + t) = i - t /\ b + t + (i - t) = b + i
        BY <1>1, <2>2
      <3>2. all[o + i] = packetChan[i - t]
        BY <1>5, <3>1
      <3> QED BY <1>8, <3>1, <3>2
    <2> QED BY <2>1, <2>2
  <1>11. Len(accepted) - b = t + c /\ o + (t + c) = o + t + c
    BY <1>1
  <1> QED BY <1>6, <1>9, <1>10, <1>11 DEF b, o

\* WritePacket(), Serve() and the saves: the packets reach the file in the order in
\* which they were accepted and none twice, even when writes fail; when none has
\* failed, none is missing.
THEOREM PacketsKeepTheirOrder == Spec => []PacketsInOrder
  <1>1. ASSUME Inv PROVE PacketsInOrder
    <2> DEFINE b == SavedCount
               o == Len(Output)
               r == Len(accepted) - SavedCount
    <2>0. Types /\ Flow
      BY <1>1 DEF Inv
    <2>1. PICK all : all = Output \o tcPackets \o packetChan
      OBVIOUS
    <2>2. /\ DOMAIN all = 1 .. o + r
          /\ \A i \in 1 .. o : all[i] = Output[i]
          /\ \A i \in 1 .. r : all[o + i] = accepted[b + i]
      BY <2>0, <2>1, Pipeline
    <2>3. o \in Nat /\ b \in Nat /\ r \in Nat /\ DOMAIN accepted = 1 .. b + r
      <3>1. /\ Len(packetChan) \in Nat /\ Len(tcPackets) \in Nat /\ Len(accepted) \in Nat
            /\ SavedCount \in Int /\ SavedCount >= 0 /\ o \in Nat
            /\ DOMAIN accepted = 1 .. Len(accepted)
        BY <2>0, Lengths DEF Types, Flow
      <3>2. r >= 0
        BY <3>1 DEF SavedCount
      <3> QED BY <3>1, <3>2
    <2>4. /\ \A i, j \in 1 .. o : Output[i] \in Packets /\ Output[j] \in Packets =>
                \E x, y \in 1 .. b :
                    accepted[x] = Output[i] /\ accepted[y] = Output[j] /\ (i < j => x < y)
          /\ ~broken => \A x \in 1 .. b : \E i \in 1 .. o : Output[i] = accepted[x]
      BY <2>0 DEF Flow
    <2> HIDE <2>1 DEF o, b, r
    <2>5. \A i \in 1 .. o + r : \/ i \in 1 .. o /\ all[i] = Output[i]
                                \/ i > o /\ b + (i - o) \in 1 .. b + r /\ all[i] = accepted[b + (i - o)]
      <3>1. \A i \in 1 .. o + r : i \in 1 .. o \/ (i > o /\ i - o \in 1 .. r /\ o + (i - o) = i
                                                  /\ b + (i - o) \in 1 .. b + r)
        BY <2>3
      <3> QED BY <2>2, <3>1
    <2>6. \A x \in 1 .. b : x \in 1 .. b + r
      BY <2>3
    <2>7. ASSUME NEW i \in 1 .. o + r, NEW j \in 1 .. o + r, all[i] \in Packets, all[j] \in Packets
          PROVE  \E x, y \in 1 .. b + r :
                    accepted[x] = all[i] /\ accepted[y] = all[j] /\ (i < j => x < y)
      <3>1. CASE i \in 1 .. o /\ all[i] = Output[i] /\ j \in 1 .. o /\ all[j] = Output[j]
        <4>1. \E x, y \in 1 .. b :
                 accepted[x] = Output[i] /\ accepted[y] = Output[j] /\ (i < j => x < y)
          BY <2>4, <2>7, <3>1
        <4> QED BY <2>6, <3>1, <4>1
      <3>2. CASE /\ i \in 1 .. o /\ all[i] = Output[i]
                 /\ j > o /\ b + (j - o) \in 1 .. b + r /\ all[j] = accepted[b + (j - o)]
        <4>1. PICK x \in 1 .. b : accepted[x] = Output[i]
          BY <2>4, <2>7, <3>2
        <4>2. x < b + (j - o)
          BY <2>3, <3>2
        <4> QED BY <2>6, <3>2, <4>1, <4>2
      <3>3. CASE /\ j \in 1 .. o /\ all[j] = Output[j]
                 /\ i > o /\ b + (i - o) \in 1 .. b + r /\ all[i] = accepted[b + (i - o)]
        <4>1. PICK y \in 1 .. b : accepted[y] = Output[j]
          BY <2>4, <2>7, <3>3
        <4>2. ~(i < j)
          BY <2>3, <3>3
        <4> QED BY <2>6, <3>3, <4>1, <4>2
      <3>4. CASE /\ i > o /\ b + (i - o) \in 1 .. b + r /\ all[i] = accepted[b + (i - o)]
                 /\ j > o /\ b + (j - o) \in 1 .. b + r /\ all[j] = accepted[b + (j - o)]
        <4>1. i < j => b + (i - o) < b + (j - o)
          BY <2>3
        <4> QED BY <3>4, <4>1
      <3> QED BY <2>5, <3>1, <3>2, <3>3, <3>4
    <2>8. ASSUME ~broken, NEW x \in 1 .. b + r PROVE \E i \in 1 .. o + r : all[i] = accepted[x]
      <3>1. CASE x \in 1 .. b
        <4>1. PICK i \in 1 .. o : Output[i] = accepted[x]
          BY <2>4, <2>8, <3>1
        <4>2. i \in 1 .. o + r
          BY <2>3
        <4> QED BY <2>2, <4>1, <4>2
      <3>2. CASE x \notin 1 .. b
        <4>1. x - b \in 1 .. r /\ b + (x - b) = x /\ o + (x - b) \in 1 .. o + r
          BY <2>3, <3>2
        <4> QED BY <2>2, <4>1
      <3> QED BY <3>1, <3>2
    <2>9. ~broken => ToSet(accepted) \subseteq ToSet(all)
      BY <2>2, <2>3, <2>8 DEF ToSet
    <2>10. \A i, j \in DOMAIN all : all[i] \in Packets /\ all[j] \in Packets =>
              \E x, y \in DOMAIN accepted :
                 accepted[x] = all[i] /\ accepted[y] = all[j] /\ (i < j => x < y)
      <3>1. ASSUME NEW i \in DOMAIN all, NEW j \in DOMAIN all,
                   all[i] \in Packets, all[j] \in Packets
            PROVE  \E x, y \in 1 .. b + r :
                      accepted[x] = all[i] /\ accepted[y] = all[j] /\ (i < j => x < y)
        BY <2>2, <2>7, <3>1
      <3>2. \A x \in 1 .. b + r : x \in DOMAIN accepted
        BY <2>3
      <3> QED BY <3>1, <3>2
    <2> QED BY <2>1, <2>9, <2>10 DEF PacketsInOrder
  <1> QED BY <1>1, Invariance, PTL

\* WriteKeyLog() and Serve(): a key marked as seen is on its way to the file or in
\* it unless a write failed, and no key is written in two DSBs.
THEOREM SeenKeysAreWrittenOnce == Spec => []SeenKeyOnce
  <1>1. ASSUME Inv PROVE SeenKeyOnce
    <2> DEFINE o == Len(Output)
               c == Len(keylogChan)
    <2>0. Types /\ Secrets
      BY <1>1 DEF Inv
    <2>1. PICK all : all = Output \o keylogChan
      OBVIOUS
    <2>2. /\ Output \in Seq(Blocks) /\ o \in Nat /\ keylogChan \in Seq(Blocks) /\ c \in Nat
          /\ \A i \in 1 .. c : keylogChan[i] \in Keys
      BY <2>0, OutputType, SeqMonotonic DEF Types, ChanTypes, Blocks
    <2>3. /\ all \in Seq(Blocks) /\ Len(all) = o + c
          /\ \A i \in 1 .. o + c : all[i] = IF i <= o THEN Output[i] ELSE keylogChan[i - o]
      BY <2>1, <2>2, Concat
    <2>4. DOMAIN all = 1 .. o + c
      BY <2>3, LenProperties
    <2>s. /\ \A i, j \in 1 .. o : i # j /\ Output[i] \in Keys => Output[i] # Output[j]
          /\ \A i, j \in 1 .. c : i # j => keylogChan[i] # keylogChan[j]
          /\ \A i \in 1 .. o, j \in 1 .. c : Output[i] # keylogChan[j]
          /\ ~broken => \A k \in seenKeys : \/ \E i \in 1 .. o : Output[i] = k
                                            \/ \E i \in 1 .. c : keylogChan[i] = k
      BY <2>0 DEF Secrets
    <2> HIDE <2>1 DEF o, c
    <2>5. \A i \in 1 .. o + c : \/ i \in 1 .. o /\ all[i] = Output[i]
                                \/ i > o /\ i - o \in 1 .. c /\ all[i] = keylogChan[i - o]
      BY <2>2, <2>3
    <2>6. \A i, j \in 1 .. o + c : i # j => i - o # j - o
      BY <2>2
    <2>7. ASSUME NEW i \in 1 .. o + c, NEW j \in 1 .. o + c, i # j, all[i] \in Keys
          PROVE  all[i] # all[j]
      BY <2>5, <2>6, <2>7, <2>s
    <2>8. ASSUME ~broken, NEW k \in seenKeys PROVE \E i \in 1 .. o + c : all[i] = k
      <3>1. CASE \E i \in 1 .. o : Output[i] = k
        <4>1. \A i \in 1 .. o : i \in 1 .. o + c /\ i <= o
          BY <2>2
        <4> QED BY <2>3, <3>1, <4>1
      <3>2. CASE \E i \in 1 .. c : keylogChan[i] = k
        <4>1. PICK i \in 1 .. c : keylogChan[i] = k
          BY <3>2
        <4>2. o + i \in 1 .. o + c /\ ~(o + i <= o) /\ (o + i) - o = i
          BY <2>2
        <4> QED BY <2>3, <4>1, <4>2
      <3> QED BY <2>8, <2>s, <3>1, <3>2
    <2>9. ~broken => seenKeys \subseteq ToSet(all)
      BY <2>4, <2>8 DEF ToSet
    <2> QED BY <2>1, <2>4, <2>7, <2>9 DEF SeenKeyOnce
  <1> QED BY <1>1, Invariance, PTL

\* Dispatcher.Close(): when it has returned, a capture with packets is in the file in
\* full, unless a write failed.
THEOREM CaptureReachesDisk == Spec => []CaptureOnDisk
  <1>1. ASSUME Inv PROVE CaptureOnDisk
    <2> SUFFICES ASSUME dispatcher = "closed", ~broken, packetCount > 0
                 PROVE  /\ ToSet(accepted) \subseteq ToSet(disk)
                        /\ packetChan \o keylogChan \o tcPackets \o ng \o fileBuf = <<>>
      BY DEF CaptureOnDisk
    <2>1. isClosed /\ serve = "done" /\ fileBuf = <<>>
      BY <1>1 DEF Inv, Closing
    <2>2. packetChan = <<>> /\ keylogChan = <<>> /\ tcPackets = <<>> /\ ng = <<>>
      BY <1>1, <2>1 DEF Inv, Closing
    <2>3. <<>> \o <<>> = <<>>
      OBVIOUS
    <2>4. packetChan \o keylogChan \o tcPackets \o ng \o fileBuf = <<>>
      BY <2>1, <2>2, <2>3
    <2>5. Output = disk /\ disk \in Seq(Blocks)
      <3>1. disk \in Seq(Blocks)
        BY <1>1 DEF Inv, Types, BufTypes
      <3>2. disk \o <<>> = disk
        BY <3>1, ConcatEmptySeq
      <3> QED BY <2>1, <2>2, <3>1, <3>2 DEF Output
    <2>6. SavedCount = Len(accepted) /\ DOMAIN accepted = 1 .. Len(accepted)
      <3>1. Len(<<>>) = 0
        OBVIOUS
      <3>2. Len(accepted) \in Nat /\ DOMAIN accepted = 1 .. Len(accepted)
        BY <1>1, Lengths DEF Inv, Types
      <3> QED BY <2>2, <3>1, <3>2 DEF SavedCount
    <2>7. \A x \in 1 .. Len(accepted) : \E i \in 1 .. Len(Output) : Output[i] = accepted[x]
      BY <1>1, <2>6 DEF Inv, Flow
    <2>8. DOMAIN disk = 1 .. Len(disk)
      BY <2>5, LenProperties
    <2>9. ToSet(accepted) \subseteq ToSet(disk)
      BY <2>5, <2>6, <2>7, <2>8 DEF ToSet
    <2> QED BY <2>4, <2>9
  <1> QED BY <1>1, Invariance, PTL

=============================================================================
