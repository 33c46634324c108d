----------------------------- MODULE EcaptureQ -----------------------------
(***************************************************************************)
(* The eCaptureQ WebSocket server (pkg/ecaptureq): WriteLog() and          *)
(* WriteEvent() are called by the goroutines of eCapture, the hub passes   *)
(* their messages on to the clients, and every client has a handler, a     *)
(* writePump() and a readPump().                                           *)
(*                                                                         *)
(* The buffer of start-up lines is a slice that several goroutines append  *)
(* to and copy from without a lock: its length is read in one step and     *)
(* stored in another one.  A message is a model value; one call writes it. *)
(***************************************************************************)
EXTENDS Integers, Sequences, FiniteSets, SequencesExt

CONSTANTS
    Clients,        \* connections, each made once
    Lines,          \* the arguments of WriteLog()
    Events,         \* the arguments of WriteEvent()
    LogBuffLen,     \* 128 in the code
    SendCap,        \* the capacity of Client.send, 256 in the code
    Beating,        \* the clients whose heartbeat timer ticks, once
    Faulty,         \* the clients whose connection may break
    NoLine, Beat

VARIABLES
    slots, len,     \* Server.logbuff: its array and its length
    call,           \* the calls of WriteLog() and WriteEvent()
    loaded,         \* the length WriteLog() appends at
    hub,            \* where Hub.run() is: the message it sends, the clients left
    clients,        \* Hub.clients
    handed,         \* the messages the hub has taken, in order
    handler, copy,  \* handleWebSocket(), and where its sendLogBuff() is
    send, closed,   \* Client.send
    writer, reader, \* writePump() and readPump()
    conn,           \* the connection: gone when the peer left, closed by this side
    ticked,         \* the clients whose timer has ticked
    received,       \* the lines and events a client has received
    joined,         \* Len(handed) when a client was registered
    panicked        \* the goroutine whose panic ended the process

logVars == <<slots, len, call, loaded>>
hubVars == <<hub, clients, handed, joined>>
clientVars == <<handler, copy, send, closed, writer, reader, conn, ticked, received>>
vars == <<logVars, hubVars, clientVars, panicked>>

Messages == Lines \cup Events

\* The constants are bounds, a new client's channel has room for all start-up
\* lines, and lines, events and heartbeats are different messages.
ASSUME SizesAssumption ==
    /\ LogBuffLen \in Nat /\ SendCap \in Nat /\ Beating \subseteq Clients /\ Faulty \subseteq Clients
    /\ SendCap > LogBuffLen + 1
    /\ Lines \cap Events = {} /\ Beat \notin Messages /\ NoLine \notin Lines

\* The state is one the declarations allow.
TypeOK ==
    /\ slots \in [1 .. LogBuffLen + 1 -> Lines \cup {NoLine}]
    /\ len \in 0 .. LogBuffLen + 1
    /\ call \in [Messages -> {"new", "append", "broadcast", "done"}]
    /\ loaded \in [Lines -> 0 .. LogBuffLen]
    /\ hub \in [pc : {"ready", "parked", "sending"}, msg : Messages \cup {NoLine},
                todo : SUBSET Clients]
    /\ clients \subseteq Clients
    /\ handed \in Seq(Messages)
    /\ handler \in [Clients -> {"none", "range", "copy", "done", "dead"}]
    /\ copy \in [Clients -> [next : 1 .. LogBuffLen + 2, until : 0 .. LogBuffLen + 1]]
    /\ send \in [Clients -> Seq(Messages \cup {Beat})]
    /\ \A c \in Clients : Len(send[c]) <= SendCap
    /\ closed \in [Clients -> BOOLEAN]
    /\ writer \in [Clients -> {"none", "beat", "select", "ended"}]
    /\ reader \in [Clients -> {"none", "receive", "ended"}]
    /\ conn \in [Clients -> {"none", "open", "gone", "closed"}]
    /\ ticked \subseteq Beating
    /\ received \in [Clients -> Seq(Messages)]
    /\ joined \in [Clients -> Nat]
    /\ panicked \in {"none", "hub", "heartbeat"}

Ready == [pc |-> "ready", msg |-> NoLine, todo |-> {}]

Init ==
    /\ slots = [i \in 1 .. LogBuffLen + 1 |-> NoLine] /\ len = 0
    /\ call = [m \in Messages |-> "new"] /\ loaded = [l \in Lines |-> 0]
    /\ hub = Ready /\ clients = {} /\ handed = <<>>
    /\ handler = [c \in Clients |-> "none"]
    /\ copy = [c \in Clients |-> [next |-> 1, until |-> 0]]
    /\ send = [c \in Clients |-> <<>>] /\ closed = [c \in Clients |-> FALSE]
    /\ writer = [c \in Clients |-> "none"] /\ reader = [c \in Clients |-> "none"]
    /\ conn = [c \in Clients |-> "none"]
    /\ ticked = {} /\ received = [c \in Clients |-> <<>>]
    /\ joined = [c \in Clients |-> 0]
    /\ panicked = "none"

-----------------------------------------------------------------------------
\* WriteLog() up to the test of the buffer's length.
WriteLog(l) ==
    /\ call[l] = "new"
    /\ IF len <= LogBuffLen
         THEN call' = [call EXCEPT ![l] = "append"] /\ loaded' = [loaded EXCEPT ![l] = len]
         ELSE call' = [call EXCEPT ![l] = "broadcast"] /\ UNCHANGED loaded
    /\ UNCHANGED <<slots, len, hubVars, clientVars, panicked>>

\* The line is appended at the length that was read, and the call returns.
appendLog(l) ==
    /\ call[l] = "append"
    /\ slots' = [slots EXCEPT ![loaded[l] + 1] = l]
    /\ len' = loaded[l] + 1
    /\ call' = [call EXCEPT ![l] = "done"]
    /\ UNCHANGED <<loaded, hubVars, clientVars, panicked>>

\* broadcastMessage(): the hub takes the message if it waits in its select;
\* otherwise the message is dropped.
broadcastMessage(m) ==
    /\ call' = [call EXCEPT ![m] = "done"]
    /\ IF hub.pc = "parked"
         THEN /\ handed' = Append(handed, m)
              /\ hub' = IF clients = {} THEN Ready
                        ELSE [pc |-> "sending", msg |-> m, todo |-> clients]
         ELSE UNCHANGED <<handed, hub>>
    /\ UNCHANGED <<slots, len, loaded, clients, joined, clientVars, panicked>>

\* The end of a WriteLog() that found the buffer full.
broadcastLog(l) == call[l] = "broadcast" /\ broadcastMessage(l)

\* WriteEvent()
WriteEvent(e) == call[e] = "new" /\ broadcastMessage(e)

-----------------------------------------------------------------------------
\* Hub.run() waits in its select.
HubParks ==
    /\ hub.pc = "ready"
    /\ hub' = [hub EXCEPT !.pc = "parked"]
    /\ UNCHANGED <<logVars, clients, handed, joined, clientVars, panicked>>

\* A connection is made, and the hub takes what handleWebSocket() registers.
HubRegister(c) ==
    /\ hub.pc # "sending" /\ handler[c] = "none"
    /\ clients' = clients \cup {c}
    /\ joined' = [joined EXCEPT ![c] = Len(handed)]
    /\ handler' = [handler EXCEPT ![c] = "range"]
    /\ conn' = [conn EXCEPT ![c] = "open"]
    /\ hub' = Ready
    /\ UNCHANGED <<logVars, handed, copy, send, closed, writer, reader, ticked, received,
                   panicked>>

\* Receive() of readPump() has failed, the hub takes what it unregisters, and
\* readPump() closes the connection.
HubUnregister(c) ==
    /\ hub.pc # "sending" /\ reader[c] = "receive" /\ conn[c] # "open"
    /\ clients' = clients \ {c}
    /\ closed' = [closed EXCEPT ![c] = closed[c] \/ c \in clients]
    /\ panicked' = IF c \in clients /\ closed[c] THEN "hub" ELSE panicked
    /\ reader' = [reader EXCEPT ![c] = "ended"]
    /\ conn' = [conn EXCEPT ![c] = "closed"]
    /\ hub' = Ready
    /\ UNCHANGED <<logVars, handed, joined, handler, copy, send, writer, ticked, received>>

\* A bug: a client that has been cut off stays in Hub.clients.
HubSendKeeps(c) ==
    /\ hub.pc = "sending" /\ c \in hub.todo
    /\ hub' = IF hub.todo = {c} THEN Ready ELSE [hub EXCEPT !.todo = @ \ {c}]
    /\ IF closed[c] THEN panicked' = "hub" /\ UNCHANGED <<send, closed>>
       ELSE /\ IF Len(send[c]) < SendCap
                 THEN send' = [send EXCEPT ![c] = Append(@, hub.msg)] /\ UNCHANGED closed
                 ELSE closed' = [closed EXCEPT ![c] = TRUE] /\ UNCHANGED send
            /\ UNCHANGED panicked
    /\ UNCHANGED <<logVars, clients, handed, joined, handler, copy, writer, reader, conn, ticked,
                   received>>

\* A bug: a client whose channel is full misses the message and stays.
HubSendSkips(c) ==
    /\ hub.pc = "sending" /\ c \in hub.todo
    /\ hub' = IF hub.todo = {c} THEN Ready ELSE [hub EXCEPT !.todo = @ \ {c}]
    /\ IF Len(send[c]) < SendCap THEN send' = [send EXCEPT ![c] = Append(@, hub.msg)]
       ELSE UNCHANGED send
    /\ UNCHANGED <<logVars, clients, handed, joined, handler, copy, closed, writer, reader, conn,
                   ticked, received, panicked>>

\* A bug: the hub waits for a client whose channel is full.
HubSendWaits(c) ==
    /\ hub.pc = "sending" /\ c \in hub.todo /\ Len(send[c]) < SendCap
    /\ hub' = IF hub.todo = {c} THEN Ready ELSE [hub EXCEPT !.todo = @ \ {c}]
    /\ send' = [send EXCEPT ![c] = Append(@, hub.msg)]
    /\ UNCHANGED <<logVars, clients, handed, joined, handler, copy, closed, writer, reader, conn,
                   ticked, received, panicked>>

\* One iteration of the case of h.broadcast: a client whose channel is full is
\* cut off.
HubSend(c) ==
    /\ hub.pc = "sending" /\ c \in hub.todo
    /\ hub' = IF hub.todo = {c} THEN Ready ELSE [hub EXCEPT !.todo = @ \ {c}]
    /\ IF closed[c] THEN panicked' = "hub" /\ UNCHANGED <<send, closed, clients>>
       ELSE /\ IF Len(send[c]) < SendCap
                 THEN send' = [send EXCEPT ![c] = Append(@, hub.msg)]
                      /\ UNCHANGED <<closed, clients>>
                 ELSE closed' = [closed EXCEPT ![c] = TRUE] /\ clients' = clients \ {c}
                      /\ UNCHANGED send
            /\ UNCHANGED panicked
    /\ UNCHANGED <<logVars, handed, joined, handler, copy, writer, reader, conn, ticked, received>>

-----------------------------------------------------------------------------
\* The loop of sendLogBuff() begins: its bound is the length at this time.
sendLogBuff(c) ==
    /\ handler[c] = "range"
    /\ handler' = [handler EXCEPT ![c] = "copy"]
    /\ copy' = [copy EXCEPT ![c] = [next |-> 1, until |-> len]]
    /\ UNCHANGED <<logVars, hubVars, send, closed, writer, reader, conn, ticked, received,
                   panicked>>

\* An iteration of it.  The send panics when the hub has cut the client off; the
\* HTTP server recovers from that and closes the connection.
sendLogBuffLine(c) ==
    /\ handler[c] = "copy" /\ copy[c].next <= copy[c].until
    /\ \/ /\ closed[c]
          /\ handler' = [handler EXCEPT ![c] = "dead"]
          /\ conn' = [conn EXCEPT ![c] = "closed"]
          /\ UNCHANGED <<copy, send>>
       \/ /\ ~closed[c] /\ Len(send[c]) < SendCap
          /\ send' = [send EXCEPT ![c] = Append(@, slots[copy[c].next])]
          /\ copy' = [copy EXCEPT ![c].next = @ + 1]
          /\ UNCHANGED <<handler, conn>>
    /\ UNCHANGED <<logVars, hubVars, closed, writer, reader, ticked, received, panicked>>

\* The rest of handleWebSocket(): the pumps are started.  The handler itself
\* waits for a context that nobody cancels.
startPumps(c) ==
    /\ handler[c] = "copy" /\ copy[c].next > copy[c].until
    /\ handler' = [handler EXCEPT ![c] = "done"]
    /\ writer' = [writer EXCEPT ![c] = "beat"]
    /\ reader' = [reader EXCEPT ![c] = "receive"]
    /\ UNCHANGED <<logVars, hubVars, copy, send, closed, conn, ticked, received, panicked>>

\* Heartbeat(): a send to the channel that only this goroutine empties.
Heartbeat(c) ==
    /\ writer[c] = "beat"
    /\ \/ /\ closed[c]
          /\ panicked' = "heartbeat"
          /\ UNCHANGED <<send, writer>>
       \/ /\ ~closed[c] /\ Len(send[c]) < SendCap
          /\ send' = [send EXCEPT ![c] = Append(@, Beat)]
          /\ writer' = [writer EXCEPT ![c] = "select"]
          /\ UNCHANGED panicked
    /\ UNCHANGED <<logVars, hubVars, handler, copy, closed, reader, conn, ticked, received>>

\* The case of c.hbTimer.C
Tick(c) ==
    /\ writer[c] = "select" /\ c \in Beating \ ticked
    /\ writer' = [writer EXCEPT ![c] = "beat"]
    /\ ticked' = ticked \cup {c}
    /\ UNCHANGED <<logVars, hubVars, handler, copy, send, closed, reader, conn, received,
                   panicked>>

\* The case of c.send with a message that is sent, to nobody if the peer left.
writeMessage(c) ==
    /\ writer[c] = "select" /\ send[c] # <<>> /\ conn[c] # "closed"
    /\ send' = [send EXCEPT ![c] = Tail(@)]
    /\ received' = IF conn[c] = "open" /\ Head(send[c]) # Beat
                   THEN [received EXCEPT ![c] = Append(@, Head(send[c]))] ELSE received
    /\ UNCHANGED <<logVars, hubVars, handler, copy, closed, writer, reader, conn, ticked,
                   panicked>>

\* A bug: writePump() leaves the connection open.
writePumpEndsOnly(c) ==
    /\ writer[c] = "select"
    /\ \/ send[c] = <<>> /\ closed[c] /\ UNCHANGED send
       \/ send[c] # <<>> /\ (c \in Faulty \/ conn[c] # "open")
          /\ send' = [send EXCEPT ![c] = Tail(@)]
    /\ writer' = [writer EXCEPT ![c] = "ended"]
    /\ UNCHANGED <<logVars, hubVars, handler, copy, closed, reader, conn, ticked, received, panicked>>

\* writePump() returns: its channel is closed and empty, or a Send() failed.
writePumpEnds(c) ==
    /\ writer[c] = "select"
    /\ \/ send[c] = <<>> /\ closed[c] /\ UNCHANGED send
       \/ send[c] # <<>> /\ (c \in Faulty \/ conn[c] # "open")
          /\ send' = [send EXCEPT ![c] = Tail(@)]
    /\ writer' = [writer EXCEPT ![c] = "ended"]
    /\ conn' = [conn EXCEPT ![c] = "closed"]
    /\ UNCHANGED <<logVars, hubVars, handler, copy, closed, reader, ticked, received, panicked>>

\* The peer leaves.
Leave(c) ==
    /\ conn[c] = "open" /\ c \in Faulty
    /\ conn' = [conn EXCEPT ![c] = "gone"]
    /\ UNCHANGED <<logVars, hubVars, handler, copy, send, closed, writer, reader, ticked,
                   received, panicked>>

Next ==
    /\ panicked = "none"
    /\ \/ \E l \in Lines : WriteLog(l) \/ appendLog(l) \/ broadcastLog(l)
       \/ \E e \in Events : WriteEvent(e)
       \/ HubParks
       \/ \E c \in Clients :
             \/ HubRegister(c) \/ HubUnregister(c) \/ HubSend(c)
             \/ sendLogBuff(c) \/ sendLogBuffLine(c) \/ startPumps(c)
             \/ Heartbeat(c) \/ Tick(c) \/ writeMessage(c) \/ writePumpEnds(c)
             \/ Leave(c)

\* The hub goes on with a broadcast, and meets a readPump() whose Receive() has
\* failed.  Nothing is assumed of the peers: a Send() may last for ever.
Fairness ==
    \A c \in Clients :
        /\ WF_vars(panicked = "none" /\ HubSend(c))
        /\ WF_vars(panicked = "none" /\ HubUnregister(c))

Spec == Init /\ [][Next]_vars /\ Fairness

-----------------------------------------------------------------------------
\* A client receives the broadcasts from its registration on without a gap: one
\* that is too slow for a message gets no later one either.  And it receives no
\* line or event twice, whatever WriteLog() appends to the buffer while it is
\* copied.
NoGap ==
    \A c \in Clients :
        /\ \A i, j \in DOMAIN received[c] : received[c][i] = received[c][j] => i = j
        /\ \A i \in DOMAIN received[c], j \in DOMAIN handed : received[c][i] = handed[j] =>
             /\ j > joined[c]
             /\ \A k \in joined[c] + 1 .. j - 1 :
                  \E h \in 1 .. i - 1 : received[c][h] = handed[k]

\* The hub sends to and closes open channels only: the channels of its clients are
\* open, although clients are cut off, leave, and may do both.
HubSafe == panicked # "hub"

\* A broadcast ends, also with clients that read nothing and clients that wait for
\* the hub.
HubReturns == hub.pc = "sending" ~> hub.pc # "sending" \/ panicked # "none"

\* When writePump() has ended, for whatever reason, its client leaves the hub.
EndedForgotten ==
    \A c \in Clients : writer[c] = "ended" ~> c \notin clients \/ panicked # "none"

\* The documentation: "Heartbeat keeps connection alive".  The heartbeat of one
\* client does not end the process and with it every connection.
HeartbeatKeepsAlive == panicked # "heartbeat"

\* The documentation: "Process logs are sent as they occur".  A client that is
\* connected has been sent what WriteLog() keeps, the lines written since it
\* connected included.
LogsSentAsTheyOccur ==
    \A c \in clients : handler[c] = "done" /\ writer[c] # "ended" =>
        \A i \in 1 .. len : slots[i] \in ToSet(received[c] \o send[c])
=============================================================================
