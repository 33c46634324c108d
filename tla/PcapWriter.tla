----------------------------- MODULE PcapWriter -----------------------------
(***************************************************************************)
(* The pcapng output path of a probe (internal/output/writers/pcap_writer, *)
(* probe/base/handlers/pcap_handler and keylog_handler, as openssl_probe   *)
(* and gotls_probe wire them):                                             *)
(*                                                                         *)
(*   reader loops --Dispatch--> PcapHandler ----WritePacket--> packetChan  *)
(*                        \---> KeylogHandler --WriteKeyLog--> keylogChan  *)
(*   Serve() (one goroutine) --> NgWriter --> FileWriter (64KB) --> disk   *)
(*   Dispatcher.Close() closes both handlers, in the order of a map        *)
(*                                                                         *)
(* Packets and keys are atomic; a DSB (Decryption Secrets Block) carries   *)
(* one key.  Dispatcher.Dispatch holds a read lock and Dispatcher.Close    *)
(* the write lock, so handlers run only before Close has begun.            *)
(***************************************************************************)
EXTENDS Integers, Sequences, FiniteSets, SequencesExt

CONSTANTS
    Packets,     \* packets, each captured at most once
    Keys,        \* client randoms; events may carry the same one repeatedly
    PacketCap,   \* capacity of packetChan (1024)
    KeylogCap,   \* capacity of keylogChan (256)
    MayFail      \* whether writing to the file may fail

ASSUME ConstantsAssumption ==
    /\ Packets \cap Keys = {}
    /\ PacketCap \in Nat \ {0} /\ KeylogCap \in Nat \ {0}
    /\ MayFail \in BOOLEAN

VARIABLES
    packetChan, keylogChan,  \* the two channels
    chansClosed,             \* close(packetChan), close(keylogChan)
    tcPackets,               \* packets Serve() has taken and not yet saved
    firstDSBWritten,
    graceOver,               \* dsbGraceDeadline has passed
    packetCount,
    serve,                   \* program counter of Serve()
    ctxDone,                 \* pw.ctx is cancelled
    isClosed,                \* pw.isClosed
    ng,                      \* blocks in the NgWriter's buffer
    fileBuf,                 \* blocks in the FileWriter's buffer
    disk,                    \* blocks in the file
    fileOpen,                \* the FileWriter is not closed
    seenKeys,                \* KeylogHandler.seenKeys
    dispatcher,              \* program counter of Dispatcher.Close()
    toClose,                 \* handlers it has yet to close
    accepted,                \* packets WritePacket() took, in order
    refused,                 \* packets it refused
    broken,                  \* a write to the file has failed
    panicked                 \* a send on a closed channel

chanVars == <<packetChan, keylogChan, chansClosed>>
serveVars == <<tcPackets, firstDSBWritten, graceOver, packetCount, serve>>
outVars == <<ng, fileBuf, disk, fileOpen>>
closeVars == <<ctxDone, isClosed, dispatcher, toClose>>
histVars == <<accepted, refused>>
vars == <<chanVars, serveVars, outVars, closeVars, seenKeys, histVars, broken, panicked>>

Init ==
    /\ packetChan = <<>> /\ keylogChan = <<>> /\ chansClosed = FALSE
    /\ tcPackets = <<>> /\ firstDSBWritten = FALSE /\ graceOver = FALSE
    /\ packetCount = 0 /\ serve = "select"
    /\ ctxDone = FALSE /\ isClosed = FALSE
    /\ ng = <<>> /\ fileBuf = <<>> /\ disk = <<>> /\ fileOpen = TRUE
    /\ seenKeys = {}
    /\ dispatcher = "open" /\ toClose = {"pcap", "keylog"}
    /\ accepted = <<>> /\ refused = {} /\ broken = FALSE /\ panicked = FALSE

-----------------------------------------------------------------------------
(* Handlers, called by Dispatch() under the read lock.                     *)

\* Mutant: Dispatch() does not look at closed.
DispatchAlways == TRUE

\* Dispatch() refuses events once the dispatcher is closed.
DispatchOpen == dispatcher = "open"

\* PcapHandler.Handle() and WritePacket(): does not wait for room.
WritePacket(p) ==
    /\ DispatchOpen
    /\ p \notin ToSet(accepted) \cup refused
    /\ IF chansClosed THEN panicked' = TRUE /\ UNCHANGED <<packetChan, accepted, refused>>
       ELSE /\ UNCHANGED panicked
            /\ IF Len(packetChan) < PacketCap
               THEN /\ packetChan' = Append(packetChan, p)
                    /\ accepted' = Append(accepted, p)
                    /\ UNCHANGED refused
               ELSE refused' = refused \cup {p} /\ UNCHANGED <<packetChan, accepted>>
    /\ UNCHANGED <<keylogChan, chansClosed, serveVars, outVars, closeVars, seenKeys, broken>>

\* Mutant: the key is marked as seen before it is known to be sent.
WriteKeyLogMarksFirst(k) ==
    /\ DispatchOpen
    /\ k \notin seenKeys
    /\ seenKeys' = seenKeys \cup {k}
    /\ keylogChan' = IF Len(keylogChan) < KeylogCap THEN Append(keylogChan, k)
                                                   ELSE keylogChan
    /\ UNCHANGED <<packetChan, chansClosed, serveVars, outVars, closeVars, histVars,
                   broken, panicked>>

\* KeylogHandler.Handle() and PcapKeylogWriter.Write(): a key not seen before
\* is sent, and is marked as seen only when the channel took it.
WriteKeyLog(k) ==
    /\ DispatchOpen
    /\ k \notin seenKeys
    /\ IF chansClosed THEN panicked' = TRUE /\ UNCHANGED <<keylogChan, seenKeys>>
       ELSE /\ Len(keylogChan) < KeylogCap
            /\ keylogChan' = Append(keylogChan, k)
            /\ seenKeys' = seenKeys \cup {k}
            /\ UNCHANGED panicked
    /\ UNCHANGED <<packetChan, chansClosed, serveVars, outVars, closeVars, histVars, broken>>

-----------------------------------------------------------------------------
(* The two buffers below Serve(), which are library code.                  *)

\* Mutant: tcPackets is not reset after a save.
SaveKeeps(blocks, ps) ==
    /\ fileBuf' = fileBuf \o blocks
    /\ ng' = <<>>
    /\ packetCount' = packetCount + Len(ps)
    /\ Len(disk \o fileBuf') <= 3 * (PacketCap + KeylogCap)
    /\ UNCHANGED <<tcPackets, disk, broken>>

\* Write the blocks, of which the packets ps are the end, and flush NgWriter
\* into FileWriter, whose buffer passes its content on only when it is full: so
\* all or nothing of it spills to the disk now.  A write may fail after some of
\* the blocks, and then every later one fails (bufio keeps the error).  Whatever
\* happens the callers of savePcapng() forget the packets; they count them only
\* on success.
Save(blocks, ps) ==
    /\ tcPackets' = <<>> /\ ng' = <<>>
    /\ \E n \in 0 .. Len(blocks), spill \in BOOLEAN :
          /\ n < Len(blocks) => MayFail
          /\ broken => n = 0 /\ ~spill
          /\ broken' = (broken \/ n < Len(blocks))
          /\ fileBuf' = IF spill THEN <<>> ELSE fileBuf \o SubSeq(blocks, 1, n)
          /\ disk' = IF spill THEN disk \o fileBuf \o SubSeq(blocks, 1, n) ELSE disk
          /\ packetCount' = IF broken' THEN packetCount ELSE packetCount + Len(ps)

-----------------------------------------------------------------------------
(* Serve().                                                                *)

\* Mutant: the ticker saves without waiting for the first DSB.
TickEarly ==
    /\ serve = "select"
    /\ tcPackets # <<>>
    /\ Save(ng \o tcPackets, tcPackets)
    /\ UNCHANGED <<chanVars, firstDSBWritten, graceOver, serve, fileOpen, closeVars,
                   seenKeys, histVars, panicked>>

\* Mutant: the grace deadline is ignored.
TickWaits ==
    /\ serve = "select"
    /\ tcPackets # <<>>
    /\ firstDSBWritten
    /\ Save(ng \o tcPackets, tcPackets)
    /\ UNCHANGED <<chanVars, firstDSBWritten, graceOver, serve, fileOpen, closeVars,
                   seenKeys, histVars, panicked>>

\* case <-ti.C: saves unless the first DSB may still come in time.
Tick ==
    /\ serve = "select"
    /\ tcPackets # <<>>
    /\ firstDSBWritten \/ graceOver
    /\ Save(ng \o tcPackets, tcPackets)
    /\ UNCHANGED <<chanVars, firstDSBWritten, graceOver, serve, fileOpen, closeVars,
                   seenKeys, histVars, panicked>>

\* The grace deadline passes.
GraceDeadline ==
    /\ ~graceOver
    /\ graceOver' = TRUE
    /\ UNCHANGED <<chanVars, tcPackets, firstDSBWritten, packetCount, serve, outVars,
                   closeVars, seenKeys, histVars, broken, panicked>>

\* case packet := <-pw.packetChan.
TakePacket ==
    /\ serve = "select" /\ packetChan # <<>>
    /\ tcPackets' = Append(tcPackets, Head(packetChan))
    /\ packetChan' = Tail(packetChan)
    /\ UNCHANGED <<keylogChan, chansClosed, firstDSBWritten, graceOver, packetCount, serve,
                   outVars, closeVars, seenKeys, histVars, broken, panicked>>

\* case keylogLine := <-pw.keylogChan: the DSB, then the waiting packets.
TakeKeyLog ==
    /\ serve = "select" /\ keylogChan # <<>>
    /\ keylogChan' = Tail(keylogChan)
    /\ firstDSBWritten' = TRUE
    /\ Save(Append(ng, Head(keylogChan)) \o tcPackets, tcPackets)
    /\ UNCHANGED <<packetChan, chansClosed, graceOver, serve, fileOpen, closeVars,
                   seenKeys, histVars, panicked>>

\* case <-pw.ctx.Done().
CtxDone ==
    /\ serve = "select" /\ ctxDone
    /\ serve' = "drainPackets"
    /\ UNCHANGED <<chanVars, tcPackets, firstDSBWritten, graceOver, packetCount, outVars,
                   closeVars, seenKeys, histVars, broken, panicked>>

\* drainOnShutdown(): packets into the buffer ...
DrainPackets ==
    /\ serve = "drainPackets"
    /\ IF packetChan # <<>>
       THEN /\ tcPackets' = Append(tcPackets, Head(packetChan))
            /\ packetChan' = Tail(packetChan)
            /\ UNCHANGED serve
       ELSE serve' = "drainKeylogs" /\ UNCHANGED <<tcPackets, packetChan>>
    /\ UNCHANGED <<keylogChan, chansClosed, firstDSBWritten, graceOver, packetCount,
                   outVars, closeVars, seenKeys, histVars, broken, panicked>>

\* Mutant: the receive has no default case.
DrainKeylogsBlocks ==
    /\ serve = "drainKeylogs" /\ keylogChan # <<>>
    /\ ng' = Append(ng, Head(keylogChan))
    /\ keylogChan' = Tail(keylogChan)
    /\ UNCHANGED <<packetChan, chansClosed, serveVars, fileBuf, disk, fileOpen, closeVars,
                   seenKeys, histVars, broken, panicked>>

\* ... then the DSBs into the file (firstDSBWritten is left alone) ...
DrainKeylogs ==
    /\ serve = "drainKeylogs"
    /\ IF keylogChan # <<>>
       THEN /\ ng' = Append(ng, Head(keylogChan))
            /\ keylogChan' = Tail(keylogChan)
            /\ UNCHANGED serve
       ELSE serve' = "save" /\ UNCHANGED <<ng, keylogChan>>
    /\ UNCHANGED <<packetChan, chansClosed, tcPackets, firstDSBWritten, graceOver,
                   packetCount, fileBuf, disk, fileOpen, closeVars, seenKeys, histVars,
                   broken, panicked>>

\* Mutant: the packets are written before the DSBs.
DrainSavePacketsFirst ==
    /\ serve = "save"
    /\ Save(tcPackets \o ng, tcPackets)
    /\ serve' = "done"
    /\ UNCHANGED <<chanVars, firstDSBWritten, graceOver, fileOpen, closeVars, seenKeys,
                   histVars, panicked>>

\* ... then the packets, and the final flush.
DrainSave ==
    /\ serve = "save"
    /\ Save(ng \o tcPackets, tcPackets)
    /\ serve' = "done"
    /\ UNCHANGED <<chanVars, firstDSBWritten, graceOver, fileOpen, closeVars, seenKeys,
                   histVars, panicked>>

Serve == \/ Tick \/ TakePacket \/ TakeKeyLog \/ CtxDone
         \/ DrainPackets \/ DrainKeylogs \/ DrainSave

-----------------------------------------------------------------------------
(* Dispatcher.Close() and the Close() of the handlers.                     *)

\* Takes the write lock and sets closed.
DispatcherClose ==
    /\ dispatcher = "open"
    /\ dispatcher' = "next"
    /\ UNCHANGED <<chanVars, serveVars, outVars, ctxDone, isClosed, toClose, seenKeys,
                   histVars, broken, panicked>>

\* The handler h is next.  PcapWriter.Close() cancels pw.ctx and waits for
\* serveDone, unless it has been called before.
HandlerClose(h) ==
    /\ dispatcher = "next" /\ h \in toClose
    /\ toClose' = toClose \ {h}
    /\ seenKeys' = IF h = "keylog" THEN {} ELSE seenKeys
    /\ ctxDone' = TRUE
    /\ dispatcher' = h
    /\ UNCHANGED <<chanVars, serveVars, outVars, isClosed, histVars, broken, panicked>>

\* PcapWriter.Close() on behalf of the KeylogHandler; the file stays open.
KeylogClosed ==
    /\ dispatcher = "keylog" /\ (isClosed \/ serve = "done")
    /\ chansClosed' = TRUE /\ isClosed' = TRUE
    /\ dispatcher' = "next"
    /\ UNCHANGED <<packetChan, keylogChan, serveVars, outVars, ctxDone, toClose, seenKeys,
                   histVars, broken, panicked>>

\* PcapHandler.Close(): when pcapWriter.Close() returns an error (nothing
\* captured) it returns before it closes, and so flushes, the FileWriter.
NothingCaptured == ~isClosed /\ packetCount = 0

\* Mutant: the FileWriter is never closed.
PcapClosedUnflushed ==
    /\ dispatcher = "pcap" /\ (isClosed \/ serve = "done")
    /\ chansClosed' = TRUE /\ isClosed' = TRUE
    /\ dispatcher' = "next"
    /\ UNCHANGED <<packetChan, keylogChan, serveVars, outVars, ctxDone, toClose, seenKeys,
                   histVars, broken, panicked>>

PcapClosed ==
    /\ dispatcher = "pcap" /\ (isClosed \/ serve = "done")
    /\ chansClosed' = TRUE /\ isClosed' = TRUE
    /\ dispatcher' = "next"
    /\ IF NothingCaptured \/ broken
       THEN UNCHANGED <<fileBuf, disk, fileOpen>>
       ELSE fileBuf' = <<>> /\ disk' = disk \o fileBuf /\ fileOpen' = FALSE
    /\ UNCHANGED <<packetChan, keylogChan, serveVars, ng, ctxDone, toClose, seenKeys,
                   histVars, broken, panicked>>

DispatcherClosed ==
    /\ dispatcher = "next" /\ toClose = {}
    /\ dispatcher' = "closed"
    /\ UNCHANGED <<chanVars, serveVars, outVars, ctxDone, isClosed, toClose, seenKeys,
                   histVars, broken, panicked>>

Close ==
    \/ DispatcherClose \/ KeylogClosed \/ PcapClosed \/ DispatcherClosed
    \/ \E h \in toClose : HandlerClose(h)

-----------------------------------------------------------------------------
Next ==
    \/ \E p \in Packets : WritePacket(p)
    \/ \E k \in Keys : WriteKeyLog(k)
    \/ GraceDeadline
    \/ Serve
    \/ Close

\* The goroutines run, the deadline passes, and select does not for ever
\* prefer another ready case to the ticker.  Capturing need not happen and
\* the program need not be closed, but a Close() that has begun goes on.
Fairness ==
    /\ WF_vars(Serve) /\ WF_vars(Tick) /\ WF_vars(GraceDeadline)
    /\ WF_vars(dispatcher # "open" /\ Close)

Spec == Init /\ [][Next]_vars /\ Fairness

-----------------------------------------------------------------------------
(* Properties.                                                             *)

\* Every variable stays in its type, and no channel exceeds its capacity.
TypeOK ==
    /\ packetChan \in Seq(Packets) /\ Len(packetChan) <= PacketCap
    /\ keylogChan \in Seq(Keys) /\ Len(keylogChan) <= KeylogCap
    /\ tcPackets \in Seq(Packets)
    /\ chansClosed \in BOOLEAN /\ firstDSBWritten \in BOOLEAN /\ graceOver \in BOOLEAN
    /\ ctxDone \in BOOLEAN /\ isClosed \in BOOLEAN /\ fileOpen \in BOOLEAN
    /\ broken \in BOOLEAN /\ panicked \in BOOLEAN
    /\ packetCount \in Nat
    /\ serve \in {"select", "drainPackets", "drainKeylogs", "save", "done"}
    /\ ng \in Seq(Packets \cup Keys)
    /\ fileBuf \in Seq(Packets \cup Keys)
    /\ disk \in Seq(Packets \cup Keys)
    /\ seenKeys \subseteq Keys
    /\ dispatcher \in {"open", "next", "pcap", "keylog", "closed"}
    /\ toClose \subseteq {"pcap", "keylog"}
    /\ accepted \in Seq(Packets) /\ refused \subseteq Packets

\* The whole output, in the order in which it will be in the file.
Output == disk \o fileBuf \o ng

\* Packets reach the file in the order in which they were accepted and none twice,
\* even when writes fail: what is in the file, what Serve() holds and what is in the
\* channel, one after the other, are in that order.  As long as no write fails none
\* that was accepted is missing there.
PacketsInOrder ==
    LET all == Output \o tcPackets \o packetChan
    IN  /\ \A i, j \in DOMAIN all : all[i] \in Packets /\ all[j] \in Packets =>
             \E a, b \in DOMAIN accepted :
                 accepted[a] = all[i] /\ accepted[b] = all[j] /\ (i < j => a < b)
        /\ ~broken => ToSet(accepted) \subseteq ToSet(all)

\* Wireshark "needs the DSB before encrypted packets": a packet stands before
\* the first DSB only if the grace period was over or the writer was shut down.
DSBFirst ==
    Output # <<>> /\ Head(Output) \in Packets => graceOver \/ serve = "done"

\* drainOnShutdown(): "DSBs are written before packets": when the shutdown saves a
\* packet, no key is left in the channel, and none stands after it in the output,
\* also if the save fails half way.
ShutdownDSBFirst ==
    [][serve # "select" =>
        \A i \in DOMAIN Output' : Output'[i] \in Packets \ ToSet(Output) =>
            /\ keylogChan' = <<>>
            /\ \A j \in DOMAIN Output' : j > i => Output'[j] \notin Keys]_vars

\* A key that KeylogHandler marked as seen, and so will not send again, is on
\* its way to the file or in it, unless writing failed; and no key is written
\* in two DSBs.
SeenKeyOnce ==
    LET all == Output \o keylogChan
    IN  /\ ~broken => seenKeys \subseteq ToSet(all)
        /\ \A i, j \in DOMAIN all : i # j /\ all[i] \in Keys => all[i] # all[j]

\* Closing the channels never meets a handler that sends.
NoSendOnClosed == ~panicked

\* After the handlers are closed, a capture with packets is on the disk in
\* full: nothing is left in a channel or in one of the three buffers.
CaptureOnDisk ==
    dispatcher = "closed" /\ ~broken /\ packetCount > 0 =>
        /\ ToSet(accepted) \subseteq ToSet(disk)
        /\ packetChan \o keylogChan \o tcPackets \o ng \o fileBuf = <<>>

\* Dispatcher.Close() ends: Serve() drains and both handlers return.
CloseCompletes == dispatcher = "next" ~> dispatcher = "closed"

\* A packet that WritePacket() accepted does not wait in memory for ever: it
\* is saved by a tick, with a DSB or at the shutdown, or saving it failed.
PacketSaved ==
    \A p \in Packets : p \in ToSet(accepted) ~> p \in ToSet(Output) \/ broken

-----------------------------------------------------------------------------
(* What comments of the code say, and the code does not do.                *)

\* pcap_writer.go:352-353: Close() "should be called when the program exits to
\* ensure all data is written".
AllDataWritten == dispatcher = "closed" => ng = <<>> /\ fileBuf = <<>>
=============================================================================
