-------------------------- MODULE EcaptureQProofs --------------------------
(***************************************************************************)
(* The safety of the eCaptureQ hub and what its clients receive, for any   *)
(* clients, messages and capacities.  The inductive invariant relates what *)
(* a client has received, what waits in its channel, what the hub has      *)
(* broadcast and what the unlocked buffer of start-up lines holds.         *)
(***************************************************************************)
EXTENDS EcaptureQ, TLAPS

\* The message m is in the sequence s.
Has(s, m) == \E i \in DOMAIN s : s[i] = m

\* Client c has received the message m, or will if its connection lasts.
Passed(c, m) == Has(received[c], m) \/ (conn[c] = "open" /\ Has(send[c], m))

\* The channels of the hub's clients are open, and a broadcast goes on to some of
\* them; a client that has not connected has nothing.
HubInv ==
    /\ \A c \in clients : ~closed[c]
    /\ hub.todo \subseteq clients
    /\ \A c \in Clients : handler[c] = "none" =>
          /\ ~closed[c] /\ c \notin clients /\ conn[c] = "none"
          /\ send[c] = <<>> /\ received[c] = <<>>
          /\ reader[c] = "none" /\ writer[c] = "none"
    /\ panicked # "hub"

\* The buffer has lines up to every length that was read of it.  A line is in one
\* place of it, its call has returned, and it was not broadcast.
Buffer ==
    /\ \A i \in 1 .. LogBuffLen + 1 : slots[i] # NoLine =>
          call[slots[i]] = "done" /\ ~Has(handed, slots[i])
    /\ \A i, j \in 1 .. LogBuffLen + 1 : slots[i] = slots[j] /\ slots[i] # NoLine => i = j
    /\ \A i \in 1 .. len : slots[i] # NoLine
    /\ \A l \in Lines : call[l] = "append" => \A i \in 1 .. loaded[l] : slots[i] # NoLine
    /\ \A c \in Clients : \A i \in 1 .. copy[c].until : slots[i] # NoLine

\* A message is broadcast once, by a call that then returns.
Broadcast ==
    /\ \A i \in DOMAIN handed : call[handed[i]] = "done"
    /\ \A i, j \in DOMAIN handed : handed[i] = handed[j] => i = j

\* What a client has or will have received came from a call that has returned; of
\* the buffer it has nothing that is still to be copied.
Fresh(c) ==
    /\ \A m \in Messages : Passed(c, m) => call[m] = "done"
    /\ \A i \in 1 .. LogBuffLen + 1 : \A l \in Lines : slots[i] = l /\ Passed(c, l) =>
          handler[c] \in {"copy", "done", "dead"} /\ i < copy[c].next

\* What client c has received is as NoGap says.
InOrder(c) ==
    /\ \A i, j \in DOMAIN received[c] : received[c][i] = received[c][j] => i = j
    /\ \A i \in DOMAIN received[c], j \in DOMAIN handed : received[c][i] = handed[j] =>
         /\ j > joined[c]
         /\ \A k \in joined[c] + 1 .. j - 1 : \E h \in 1 .. i - 1 : received[c][h] = handed[k]

\* What waits in its channel goes on where that ends.
GoesOn(c) ==
    conn[c] = "open" =>
        /\ \A i, j \in DOMAIN send[c] : send[c][i] = send[c][j] /\ send[c][i] # Beat => i = j
        /\ \A i \in DOMAIN send[c] : ~Has(received[c], send[c][i])
        /\ \A i \in DOMAIN send[c], j \in DOMAIN handed : send[c][i] = handed[j] =>
             /\ j > joined[c]
             /\ \A k \in joined[c] + 1 .. j - 1 :
                  Has(received[c], handed[k]) \/ \E h \in 1 .. i - 1 : send[c][h] = handed[k]

\* A client of the hub with a connection has all broadcasts since its registration
\* but the one the hub is about to send it.
UpToDate(c) ==
    /\ joined[c] <= Len(handed)
    /\ c \in clients /\ conn[c] = "open" =>
          \A k \in joined[c] + 1 .. Len(handed) : \A m \in Messages :
              handed[k] = m => Passed(c, m) \/ (k = Len(handed) /\ c \in hub.todo)
    /\ c \in hub.todo =>
          /\ hub.pc = "sending" /\ joined[c] < Len(handed)
          /\ hub.msg = handed[Len(handed)]
          /\ \A m \in Messages : hub.msg = m => ~Passed(c, m)

\* What is known of a client.
Client(c) == Fresh(c) /\ InOrder(c) /\ GoesOn(c) /\ UpToDate(c)

\* The inductive invariant.
Inv == TypeOK /\ HubInv /\ Buffer /\ Broadcast /\ \A c \in Clients : Client(c)

-----------------------------------------------------------------------------
(* Types.  The conjuncts of TypeOK in groups, of which each step disturbs  *)
(* few.                                                                    *)

\* The calls and the buffer.
LogTypes ==
    /\ slots \in [1 .. LogBuffLen + 1 -> Lines \cup {NoLine}]
    /\ len \in 0 .. LogBuffLen + 1
    /\ call \in [Messages -> {"new", "append", "broadcast", "done"}]
    /\ loaded \in [Lines -> 0 .. LogBuffLen]

\* The hub.
HubTypes ==
    /\ hub \in [pc : {"ready", "parked", "sending"}, msg : Messages \cup {NoLine},
                todo : SUBSET Clients]
    /\ clients \subseteq Clients
    /\ handed \in Seq(Messages)
    /\ joined \in [Clients -> Nat]
    /\ panicked \in {"none", "hub", "heartbeat"}

\* The goroutines of the clients.
PumpTypes ==
    /\ handler \in [Clients -> {"none", "range", "copy", "done", "dead"}]
    /\ copy \in [Clients -> [next : 1 .. LogBuffLen + 2, until : 0 .. LogBuffLen + 1]]
    /\ writer \in [Clients -> {"none", "beat", "select", "ended"}]
    /\ reader \in [Clients -> {"none", "receive", "ended"}]
    /\ conn \in [Clients -> {"none", "open", "gone", "closed"}]
    /\ ticked \subseteq Beating

\* The channels.
ChannelTypes ==
    /\ send \in [Clients -> Seq(Messages \cup {Beat})]
    /\ \A c \in Clients : Len(send[c]) <= SendCap
    /\ received \in [Clients -> Seq(Messages)]

\* The types but for the flags.
Types == LogTypes /\ HubTypes /\ PumpTypes /\ ChannelTypes

\* The flags.
FlagTypes == closed \in [Clients -> BOOLEAN]

\* The groups together are TypeOK.
LEMMA TypesSuffice == Types /\ FlagTypes <=> TypeOK
  BY DEF Types, FlagTypes, TypeOK, LogTypes, HubTypes, PumpTypes, ChannelTypes

\* The types of the first state.
LEMMA TypesInit == ASSUME Init PROVE Types /\ FlagTypes
  <1>1. LogTypes
    <2>1. 0 \in 0 .. LogBuffLen + 1 /\ 0 \in 0 .. LogBuffLen
      BY SizesAssumption
    <2> QED BY <2>1 DEF Init, LogTypes
  <1>2. HubTypes
    BY DEF Init, HubTypes, Ready
  <1>3. PumpTypes
    <2>1. 0 \in 0 .. LogBuffLen + 1 /\ 1 \in 1 .. LogBuffLen + 2
      BY SizesAssumption
    <2> QED BY <2>1 DEF Init, PumpTypes
  <1>4. ChannelTypes
    BY SizesAssumption DEF Init, ChannelTypes
  <1>5. FlagTypes
    BY Zenon DEF Init, FlagTypes
  <1> QED BY <1>1, <1>2, <1>3, <1>4, <1>5 DEF Types

\* Every step keeps the flags.
LEMMA FlagsStep == ASSUME FlagTypes, [Next]_vars PROVE FlagTypes'
  <1> USE DEF FlagTypes
  <1>1. ASSUME NEW c \in Clients, HubUnregister(c) PROVE FlagTypes'
    <2>1. (closed[c] \/ c \in clients) \in BOOLEAN
      OBVIOUS
    <2> QED BY <1>1, <2>1 DEF HubUnregister
  <1>2. ASSUME NEW c \in Clients, HubSend(c) PROVE FlagTypes'
    BY <1>2 DEF HubSend
  <1>3. ASSUME UNCHANGED closed PROVE FlagTypes'
    BY <1>3
  <1>4. ASSUME NEW c \in Clients,
               \/ HubRegister(c) \/ sendLogBuff(c) \/ sendLogBuffLine(c) \/ startPumps(c)
               \/ Heartbeat(c) \/ Tick(c) \/ writeMessage(c) \/ writePumpEnds(c) \/ Leave(c)
        PROVE  UNCHANGED closed
    BY <1>4 DEF HubRegister, sendLogBuff, sendLogBuffLine, startPumps, Heartbeat, Tick,
                writeMessage, writePumpEnds, Leave
  <1>5. ASSUME NEW m, WriteLog(m) \/ appendLog(m) \/ broadcastMessage(m) PROVE UNCHANGED closed
    BY <1>5 DEF WriteLog, appendLog, broadcastMessage, clientVars
  <1>6. HubParks \/ UNCHANGED vars => UNCHANGED closed
    BY DEF HubParks, vars, clientVars
  <1> QED BY <1>1, <1>2, <1>3, <1>4, <1>5, <1>6 DEF Next, broadcastLog, WriteEvent

\* Every step keeps the types of the calls and the buffer.
LEMMA LogTypesStep == ASSUME Types, [Next]_vars PROVE LogTypes'
  <1> USE SizesAssumption DEF Types, LogTypes, Messages
  <1>1. ASSUME NEW l \in Lines, WriteLog(l) PROVE LogTypes'
    <2>1. CASE len <= LogBuffLen
      <3>1. len \in 0 .. LogBuffLen
        BY <2>1
      <3> QED BY <1>1, <2>1, <3>1 DEF WriteLog
    <2>2. CASE ~(len <= LogBuffLen)
      BY <1>1, <2>2 DEF WriteLog
    <2> QED BY <2>1, <2>2
  <1>2. ASSUME NEW l \in Lines, appendLog(l) PROVE LogTypes'
    <2>1. loaded[l] + 1 \in 1 .. LogBuffLen + 1 /\ loaded[l] + 1 \in 0 .. LogBuffLen + 1
      OBVIOUS
    <2> QED BY <1>2, <2>1 DEF appendLog
  <1>3. ASSUME NEW m \in Messages, broadcastMessage(m) PROVE LogTypes'
    BY <1>3 DEF broadcastMessage
  <1>4. ASSUME UNCHANGED logVars PROVE LogTypes'
    BY <1>4 DEF logVars
  <1>5. ASSUME NEW c \in Clients,
               \/ HubRegister(c) \/ HubUnregister(c) \/ HubSend(c)
               \/ sendLogBuff(c) \/ sendLogBuffLine(c) \/ startPumps(c)
               \/ Heartbeat(c) \/ Tick(c) \/ writeMessage(c) \/ writePumpEnds(c) \/ Leave(c)
        PROVE  UNCHANGED logVars
    BY <1>5 DEF HubRegister, HubUnregister, HubSend, sendLogBuff, sendLogBuffLine, startPumps,
                Heartbeat, Tick, writeMessage, writePumpEnds, Leave
  <1>6. HubParks \/ UNCHANGED vars => UNCHANGED logVars
    BY DEF HubParks, vars
  <1> QED BY <1>1, <1>2, <1>3, <1>4, <1>5, <1>6 DEF Next, broadcastLog, WriteEvent

\* Every step keeps the types of the hub.
LEMMA HubTypesStep == ASSUME Types, [Next]_vars PROVE HubTypes'
  <1> USE DEF Types, HubTypes
  <1>1. ASSUME NEW m \in Messages, broadcastMessage(m) PROVE HubTypes'
    <2>1. Append(handed, m) \in Seq(Messages)
      OBVIOUS
    <2>2. [pc |-> "sending", msg |-> m, todo |-> clients]
            \in [pc : {"ready", "parked", "sending"}, msg : Messages \cup {NoLine},
                 todo : SUBSET Clients]
      OBVIOUS
    <2>3. Ready \in [pc : {"ready", "parked", "sending"}, msg : Messages \cup {NoLine},
                     todo : SUBSET Clients]
      BY DEF Ready
    <2>4. CASE hub.pc = "parked"
      BY <1>1, <2>1, <2>2, <2>3, <2>4 DEF broadcastMessage
    <2>5. CASE hub.pc # "parked"
      BY <1>1, <2>5 DEF broadcastMessage
    <2> QED BY <2>4, <2>5
  <1>2. ASSUME HubParks PROVE HubTypes'
    BY <1>2 DEF HubParks
  <1>3. ASSUME NEW c \in Clients, HubRegister(c) PROVE HubTypes'
    <2>1. Len(handed) \in Nat
      OBVIOUS
    <2> QED BY <1>3, <2>1 DEF HubRegister, Ready
  <1>4. ASSUME NEW c \in Clients, HubUnregister(c) PROVE HubTypes'
    BY <1>4 DEF HubUnregister, Ready
  <1>5. ASSUME NEW c \in Clients, HubSend(c) PROVE HubTypes'
    <2>1. hub' \in [pc : {"ready", "parked", "sending"}, msg : Messages \cup {NoLine},
                    todo : SUBSET Clients]
      BY <1>5 DEF HubSend, Ready
    <2>2. clients' \subseteq Clients /\ panicked' \in {"none", "hub", "heartbeat"}
      BY <1>5 DEF HubSend
    <2> QED BY <1>5, <2>1, <2>2 DEF HubSend
  <1>6. ASSUME UNCHANGED hubVars, panicked' \in {panicked, "heartbeat"} PROVE HubTypes'
    BY <1>6 DEF hubVars
  <1>7. ASSUME NEW c \in Clients,
               \/ sendLogBuff(c) \/ sendLogBuffLine(c) \/ startPumps(c)
               \/ Heartbeat(c) \/ Tick(c) \/ writeMessage(c) \/ writePumpEnds(c) \/ Leave(c)
        PROVE  UNCHANGED hubVars /\ panicked' \in {panicked, "heartbeat"}
    BY <1>7 DEF sendLogBuff, sendLogBuffLine, startPumps, Heartbeat, Tick, writeMessage,
                writePumpEnds, Leave
  <1>8. ASSUME NEW l, WriteLog(l) \/ appendLog(l) PROVE UNCHANGED hubVars /\ panicked' = panicked
    BY <1>8 DEF WriteLog, appendLog
  <1>9. UNCHANGED vars => UNCHANGED hubVars /\ panicked' = panicked
    BY DEF vars
  <1> QED BY <1>1, <1>2, <1>3, <1>4, <1>5, <1>6, <1>7, <1>8, <1>9
             DEF Next, broadcastLog, WriteEvent, Messages

\* Every step keeps the types of the clients' goroutines.
LEMMA PumpTypesStep == ASSUME Types, [Next]_vars PROVE PumpTypes'
  <1> USE SizesAssumption DEF Types, PumpTypes
  <1>1. ASSUME NEW c \in Clients, HubRegister(c) \/ HubUnregister(c) \/ HubSend(c) PROVE PumpTypes'
    BY <1>1 DEF HubRegister, HubUnregister, HubSend
  <1>2. ASSUME NEW c \in Clients, sendLogBuff(c) PROVE PumpTypes'
    <2>1. 1 \in 1 .. LogBuffLen + 2 /\ len \in 0 .. LogBuffLen + 1
      BY DEF LogTypes
    <2> QED BY <1>2, <2>1 DEF sendLogBuff
  <1>3. ASSUME NEW c \in Clients, sendLogBuffLine(c) PROVE PumpTypes'
    <2>1. copy[c].next + 1 \in 1 .. LogBuffLen + 2
      BY <1>3 DEF sendLogBuffLine
    <2>2. copy' \in [Clients -> [next : 1 .. LogBuffLen + 2, until : 0 .. LogBuffLen + 1]]
      <3>1. [copy[c] EXCEPT !.next = @ + 1]
              \in [next : 1 .. LogBuffLen + 2, until : 0 .. LogBuffLen + 1]
        BY <2>1
      <3>2. copy' = copy \/ copy' = [copy EXCEPT ![c] = [copy[c] EXCEPT !.next = @ + 1]]
        BY <1>3 DEF sendLogBuffLine
      <3> QED BY <3>1, <3>2
    <2> QED BY <1>3, <2>2 DEF sendLogBuffLine
  <1>4. ASSUME NEW c \in Clients, startPumps(c) \/ Heartbeat(c) \/ Tick(c) PROVE PumpTypes'
    BY <1>4 DEF startPumps, Heartbeat, Tick
  <1>5. ASSUME NEW c \in Clients, writeMessage(c) \/ writePumpEnds(c) \/ Leave(c) PROVE PumpTypes'
    BY <1>5 DEF writeMessage, writePumpEnds, Leave
  <1>6. ASSUME UNCHANGED clientVars PROVE PumpTypes'
    BY <1>6 DEF clientVars
  <1>7. ASSUME NEW m, WriteLog(m) \/ appendLog(m) \/ broadcastMessage(m) PROVE UNCHANGED clientVars
    BY <1>7 DEF WriteLog, appendLog, broadcastMessage
  <1>8. HubParks \/ UNCHANGED vars => UNCHANGED clientVars
    BY DEF HubParks, vars
  <1> QED BY <1>1, <1>2, <1>3, <1>4, <1>5, <1>6, <1>7, <1>8 DEF Next, broadcastLog, WriteEvent

\* Every step keeps the types and capacities of the channels.
LEMMA ChannelTypesStep ==
  ASSUME Types, Buffer, HubInv, \A c \in Clients : UpToDate(c), [Next]_vars
  PROVE  ChannelTypes'
  <1> USE DEF Types, ChannelTypes
  <1>1. ASSUME NEW c \in Clients, NEW m \in Messages \cup {Beat}, Len(send[c]) < SendCap,
               send' = [send EXCEPT ![c] = Append(@, m)], received' = received
        PROVE  ChannelTypes'
    <2>1. /\ Append(send[c], m) \in Seq(Messages \cup {Beat})
          /\ Len(Append(send[c], m)) <= SendCap
      BY <1>1, SizesAssumption
    <2> QED BY <1>1, <2>1
  <1>2. ASSUME NEW c \in Clients, HubSend(c) PROVE ChannelTypes'
    <2>1. hub.msg \in Messages
      BY <1>2 DEF HubSend, UpToDate, HubTypes
    <2> QED BY <1>1, <1>2, <2>1 DEF HubSend
  <1>3. ASSUME NEW c \in Clients, sendLogBuffLine(c) PROVE ChannelTypes'
    <2>1. copy[c].next <= copy[c].until => slots[copy[c].next] \in Lines
      BY SizesAssumption DEF Buffer, PumpTypes, LogTypes
    <2> QED BY <1>1, <1>3, <2>1 DEF sendLogBuffLine, Messages
  <1>4. ASSUME NEW c \in Clients, Heartbeat(c) PROVE ChannelTypes'
    BY <1>1, <1>4 DEF Heartbeat
  <1>5. ASSUME NEW c \in Clients, send[c] # <<>>
        PROVE  /\ Tail(send[c]) \in Seq(Messages \cup {Beat}) /\ Len(Tail(send[c])) <= SendCap
               /\ Head(send[c]) \in Messages \cup {Beat}
    BY <1>5, SizesAssumption
  <1>6. ASSUME NEW c \in Clients, writeMessage(c) PROVE ChannelTypes'
    <2>1. /\ send' \in [Clients -> Seq(Messages \cup {Beat})]
          /\ \A d \in Clients : Len(send'[d]) <= SendCap
      BY <1>5, <1>6 DEF writeMessage
    <2>2. received' \in [Clients -> Seq(Messages)]
      <3>1. Head(send[c]) # Beat => Append(received[c], Head(send[c])) \in Seq(Messages)
        BY <1>5, <1>6 DEF writeMessage
      <3> QED BY <1>6, <3>1 DEF writeMessage
    <2> QED BY <2>1, <2>2
  <1>7. ASSUME NEW c \in Clients, writePumpEnds(c) PROVE ChannelTypes'
    <2>1. CASE send' = send
      BY <1>7, <2>1 DEF writePumpEnds
    <2>2. CASE send[c] # <<>> /\ send' = [send EXCEPT ![c] = Tail(@)]
      BY <1>5, <1>7, <2>2 DEF writePumpEnds
    <2> QED BY <1>7, <2>1, <2>2 DEF writePumpEnds
  <1>8. ASSUME UNCHANGED <<send, received>> PROVE ChannelTypes'
    BY <1>8
  <1>9. ASSUME NEW c \in Clients,
               \/ HubRegister(c) \/ HubUnregister(c) \/ sendLogBuff(c) \/ startPumps(c)
               \/ Tick(c) \/ Leave(c)
        PROVE  UNCHANGED <<send, received>>
    BY <1>9 DEF HubRegister, HubUnregister, sendLogBuff, startPumps, Tick, Leave
  <1>10. ASSUME NEW m, WriteLog(m) \/ appendLog(m) \/ broadcastMessage(m)
         PROVE  UNCHANGED <<send, received>>
    BY <1>10 DEF WriteLog, appendLog, broadcastMessage, clientVars
  <1>11. HubParks \/ UNCHANGED vars => UNCHANGED <<send, received>>
    BY DEF HubParks, vars, clientVars
  <1> QED BY <1>2, <1>3, <1>4, <1>6, <1>7, <1>8, <1>9, <1>10, <1>11
             DEF Next, broadcastLog, WriteEvent

-----------------------------------------------------------------------------
(* The hub, the buffer and the broadcasts.                                 *)

\* A step leaves the clients other than c alone.
OthersSame(c) ==
    \A d \in Clients : d # c =>
        /\ handler'[d] = handler[d] /\ copy'[d] = copy[d] /\ conn'[d] = conn[d]
        /\ send'[d] = send[d] /\ received'[d] = received[d] /\ joined'[d] = joined[d]
        /\ reader'[d] = reader[d] /\ writer'[d] = writer[d]
        /\ closed'[d] = closed[d]

\* The steps of a client, and of the hub with it, do.
LEMMA OthersAreSame ==
  ASSUME Types, FlagTypes, NEW c \in Clients,
         \/ HubRegister(c) \/ HubUnregister(c) \/ HubSend(c)
         \/ sendLogBuff(c) \/ sendLogBuffLine(c) \/ startPumps(c)
         \/ Heartbeat(c) \/ Tick(c) \/ writeMessage(c) \/ writePumpEnds(c) \/ Leave(c)
  PROVE  OthersSame(c)
  <1> SUFFICES ASSUME NEW d \in Clients, d # c
               PROVE  /\ handler'[d] = handler[d] /\ copy'[d] = copy[d] /\ conn'[d] = conn[d]
                      /\ send'[d] = send[d] /\ received'[d] = received[d] /\ joined'[d] = joined[d]
                      /\ reader'[d] = reader[d] /\ writer'[d] = writer[d]
                      /\ closed'[d] = closed[d]
    BY DEF OthersSame
  <1> USE DEF Types, HubTypes, PumpTypes, ChannelTypes
  <1>1. handler'[d] = handler[d] /\ copy'[d] = copy[d] /\ conn'[d] = conn[d]
    BY DEF HubRegister, HubUnregister, HubSend, sendLogBuff, sendLogBuffLine, startPumps,
           Heartbeat, Tick, writeMessage, writePumpEnds, Leave
  <1>2. send'[d] = send[d] /\ received'[d] = received[d] /\ joined'[d] = joined[d]
    BY DEF HubRegister, HubUnregister, HubSend, sendLogBuff, sendLogBuffLine, startPumps,
           Heartbeat, Tick, writeMessage, writePumpEnds, Leave, hubVars
  <1>3. reader'[d] = reader[d] /\ writer'[d] = writer[d]
    BY DEF HubRegister, HubUnregister, HubSend, sendLogBuff, sendLogBuffLine, startPumps,
           Heartbeat, Tick, writeMessage, writePumpEnds, Leave
  <1>4. closed'[d] = closed[d]
    <2>1. CASE UNCHANGED closed
      BY <2>1
    <2>2. CASE HubUnregister(c)
      BY <2>2 DEF HubUnregister, FlagTypes
    <2>3. CASE HubSend(c)
      BY <2>3 DEF HubSend, FlagTypes
    <2>4. CASE HubRegister(c) \/ sendLogBuff(c) \/ sendLogBuffLine(c) \/ startPumps(c)
      BY <2>4, <2>1 DEF HubRegister, sendLogBuff, sendLogBuffLine, startPumps
    <2>5. CASE Heartbeat(c) \/ Tick(c) \/ writeMessage(c) \/ writePumpEnds(c) \/ Leave(c)
      BY <2>5, <2>1 DEF Heartbeat, Tick, writeMessage, writePumpEnds, Leave
    <2> QED BY <2>2, <2>3, <2>4, <2>5
  <1> QED BY <1>1, <1>2, <1>3, <1>4

\* Every step keeps HubInv.  The hub takes a client it cuts off out of its
\* clients, so the channel is closed once, whatever readPump() asks for later.
LEMMA HubStep == ASSUME Types, FlagTypes, HubInv, [Next]_vars PROVE HubInv'
  <1> USE DEF HubInv
  <1>1. ASSUME NEW m, broadcastMessage(m) PROVE HubInv'
    BY <1>1 DEF broadcastMessage, clientVars, Ready
  <1>a. ASSUME NEW c \in Clients, OthersSame(c), handler[c] # "none" \/ c \in clients',
               c \in clients' => ~closed'[c], clients' \subseteq clients \cup {c},
               hub'.todo \subseteq clients', clients \subseteq Clients,
               handler'[c] # "none", panicked' # "hub"
        PROVE  HubInv'
    BY <1>a DEF OthersSame
  <1>b. clients \subseteq Clients /\ hub.todo \subseteq Clients
    BY DEF Types, HubTypes
  <1>2. ASSUME NEW c \in Clients, HubRegister(c) PROVE HubInv'
    <2>1. handler'[c] = "range"
      BY <1>2 DEF HubRegister, Types, PumpTypes
    <2>2. ~closed'[c] /\ panicked' # "hub"
      BY <1>2 DEF HubRegister
    <2>3. clients' = clients \cup {c} /\ hub'.todo = {}
      BY <1>2 DEF HubRegister, Ready
    <2> QED BY <1>2, <1>a, <1>b, <2>1, <2>2, <2>3, OthersAreSame
  <1>3. ASSUME NEW c \in Clients, HubUnregister(c) PROVE HubInv'
    <2>1. handler[c] # "none" /\ handler' = handler
      BY <1>3 DEF HubUnregister
    <2>3. panicked' # "hub"
      BY <1>3 DEF HubUnregister
    <2>4. hub'.todo = {} /\ clients' = clients \ {c}
      BY <1>3 DEF HubUnregister, Ready
    <2> QED BY <1>3, <1>a, <1>b, <2>1, <2>3, <2>4, OthersAreSame
  <1>4. ASSUME NEW c \in Clients, HubSend(c) PROVE HubInv'
    <2>1. ~closed[c] /\ c \in clients /\ handler[c] # "none" /\ handler' = handler
      BY <1>4 DEF HubSend
    <2>2. hub'.todo = hub.todo \ {c} /\ panicked' = panicked
      BY <1>4, <2>1 DEF HubSend, Ready, Types, HubTypes
    <2>3. (clients' = clients /\ closed' = closed) \/ clients' = clients \ {c}
      BY <1>4, <2>1 DEF HubSend
    <2> QED BY <1>4, <1>a, <1>b, <2>1, <2>2, <2>3, OthersAreSame
  <1>5. ASSUME NEW c \in Clients,
               \/ sendLogBuff(c) \/ sendLogBuffLine(c) \/ startPumps(c)
               \/ Heartbeat(c) \/ Tick(c) \/ writeMessage(c) \/ writePumpEnds(c) \/ Leave(c)
        PROVE  HubInv'
    <2>1. handler[c] # "none"
      BY <1>5 DEF sendLogBuff, sendLogBuffLine, startPumps, Heartbeat, Tick, writeMessage,
                  writePumpEnds, Leave
    <2>2. handler'[c] # "none"
      BY <1>5, <2>1 DEF sendLogBuff, sendLogBuffLine, startPumps, Heartbeat, Tick, writeMessage,
                        writePumpEnds, Leave, Types, PumpTypes
    <2>3. UNCHANGED <<clients, hub, closed>> /\ panicked' # "hub"
      BY <1>5 DEF sendLogBuff, sendLogBuffLine, startPumps, Heartbeat, Tick, writeMessage,
                  writePumpEnds, Leave, hubVars
    <2> QED BY <1>5, <1>a, <1>b, <2>1, <2>2, <2>3, OthersAreSame
  <1>8. ASSUME NEW l, WriteLog(l) \/ appendLog(l) PROVE HubInv'
    BY <1>8 DEF WriteLog, appendLog, hubVars, clientVars
  <1>9. HubParks => HubInv'
    BY DEF HubParks, clientVars, Types, HubTypes
  <1>10. UNCHANGED vars => HubInv'
    BY DEF vars, hubVars, clientVars
  <1> QED BY <1>1, <1>2, <1>3, <1>4, <1>5, <1>8, <1>9, <1>10
             DEF Next, broadcastLog, WriteEvent

\* What is in a sequence to which m is appended.
LEMMA HasAppend ==
  ASSUME NEW S, NEW s \in Seq(S), NEW m \in S, NEW x
  PROVE  Has(Append(s, m), x) <=> Has(s, x) \/ x = m
  <1>1. /\ DOMAIN s = 1 .. Len(s) /\ Len(s) \in Nat
        /\ DOMAIN Append(s, m) = 1 .. Len(s) + 1
        /\ \A i \in 1 .. Len(s) : Append(s, m)[i] = s[i]
        /\ Append(s, m)[Len(s) + 1] = m
    OBVIOUS
  <1> QED BY <1>1 DEF Has

\* Every step keeps what is known of the buffer and of the broadcasts.
LEMMA BufferStep ==
  ASSUME Types, Buffer, Broadcast, [Next]_vars
  PROVE  Buffer' /\ Broadcast'
  <1> USE SizesAssumption
  <1>a. ASSUME UNCHANGED <<slots, len, call, loaded, handed>>,
               \A c \in Clients : copy'[c].until = copy[c].until \/ copy'[c].until = len
        PROVE  Buffer' /\ Broadcast'
    BY <1>a DEF Buffer, Broadcast, Has
  <1>1. ASSUME NEW l \in Lines, WriteLog(l) PROVE Buffer' /\ Broadcast'
    <2>1. /\ UNCHANGED <<slots, len, handed, copy>> /\ call[l] = "new"
          /\ \A m \in Messages : m # l => call'[m] = call[m]
          /\ \A m \in Lines : m # l => loaded'[m] = loaded[m]
          /\ call'[l] = "append" => loaded'[l] = len
      BY <1>1 DEF WriteLog, hubVars, clientVars, Types, LogTypes, Messages
    <2>2. \A i \in 1 .. LogBuffLen + 1 : slots[i] # NoLine => slots[i] \in Lines
      BY DEF Types, LogTypes
    <2>3. \A i \in DOMAIN handed : handed[i] \in Messages
      BY DEF Types, HubTypes
    <2> QED BY <2>1, <2>2, <2>3 DEF Buffer, Broadcast, Messages, Has
  <1>2. ASSUME NEW l \in Lines, appendLog(l) PROVE Buffer' /\ Broadcast'
    <2> DEFINE n == loaded[l] + 1
    <2>1. /\ UNCHANGED <<loaded, handed, copy>> /\ call[l] = "append"
          /\ call' = [call EXCEPT ![l] = "done"]
          /\ len' = n
          /\ slots' = [slots EXCEPT ![n] = l]
      BY <1>2 DEF appendLog, hubVars, clientVars
    <2>2. n \in 1 .. LogBuffLen + 1
      BY DEF Types, LogTypes
    <2>3. slots'[n] = l /\ \A i \in 1 .. LogBuffLen + 1 : i # n => slots'[i] = slots[i]
      BY <2>1, <2>2 DEF Types, LogTypes
    <2>4. call'[l] = "done" /\ \A m \in Messages : m # l => call'[m] = call[m]
      BY <2>1 DEF Types, LogTypes, Messages
    <2>5. \A i \in 1 .. LogBuffLen + 1 : slots[i] # NoLine => slots[i] \in Lines /\ slots[i] # l
      BY <2>1 DEF Types, LogTypes, Buffer
    <2>6. \A i \in DOMAIN handed : handed[i] \in Messages /\ handed[i] # l
      BY <2>1 DEF Types, HubTypes, Broadcast
    <2>7. Broadcast'
      BY <2>1, <2>4, <2>6 DEF Broadcast
    <2>8. \A i \in 1 .. LogBuffLen + 1 : slots'[i] # NoLine =>
             call'[slots'[i]] = "done" /\ ~Has(handed, slots'[i])
      BY <2>3, <2>4, <2>5, <2>6 DEF Buffer, Has, Messages
    <2>9. \A i, j \in 1 .. LogBuffLen + 1 : slots'[i] = slots'[j] /\ slots'[i] # NoLine => i = j
      BY <2>3, <2>5 DEF Buffer
    <2>10. l # NoLine
      OBVIOUS
    <2>11. \A i \in 1 .. n : slots'[i] # NoLine
      <3>1. \A i \in 1 .. n : i # n => i \in 1 .. loaded[l]
        BY DEF Types, LogTypes
      <3>2. \A i \in 1 .. n : i \in 1 .. LogBuffLen + 1
        BY <2>2
      <3> QED BY <2>1, <2>3, <2>10, <3>1, <3>2 DEF Buffer
    <2>12. \A i \in 1 .. LogBuffLen + 1 : slots[i] # NoLine => slots'[i] # NoLine
      BY <2>3, <2>10
    <2>13. \A k \in Lines : call'[k] = "append" => \A i \in 1 .. loaded[k] : slots'[i] # NoLine
      <3> SUFFICES ASSUME NEW k \in Lines, call'[k] = "append", NEW i \in 1 .. loaded[k]
                   PROVE  slots'[i] # NoLine
        OBVIOUS
      <3>1. call[k] = "append"
        BY <2>4 DEF Messages
      <3>2. i \in 1 .. LogBuffLen + 1
        BY DEF Types, LogTypes
      <3> QED BY <2>12, <3>1, <3>2 DEF Buffer
    <2>14. \A c \in Clients : \A i \in 1 .. copy[c].until : slots'[i] # NoLine
      <3> SUFFICES ASSUME NEW c \in Clients, NEW i \in 1 .. copy[c].until
                   PROVE  slots'[i] # NoLine
        OBVIOUS
      <3>1. i \in 1 .. LogBuffLen + 1
        BY DEF Types, PumpTypes
      <3> QED BY <2>12, <3>1 DEF Buffer
    <2> QED BY <2>1, <2>7, <2>8, <2>9, <2>11, <2>13, <2>14 DEF Buffer
  <1>3. ASSUME NEW m \in Messages, broadcastMessage(m), call[m] \in {"new", "broadcast"}
        PROVE  Buffer' /\ Broadcast'
    <2>1. /\ UNCHANGED <<slots, len, loaded, copy>>
          /\ call'[m] = "done" /\ \A k \in Messages : k # m => call'[k] = call[k]
          /\ handed' = handed \/ handed' = Append(handed, m)
      BY <1>3 DEF broadcastMessage, clientVars, Types, LogTypes
    <2>2. \A i \in 1 .. LogBuffLen + 1 : slots[i] # NoLine => slots[i] \in Messages /\ slots[i] # m
      BY <1>3 DEF Types, LogTypes, Buffer, Messages
    <2>3. \A i \in DOMAIN handed : handed[i] \in Messages /\ handed[i] # m
      BY <1>3 DEF Types, HubTypes, Broadcast
    <2>4. Buffer'
      <3>1. \A x : x # m /\ ~Has(handed, x) => ~Has(handed', x)
        <4>1. handed \in Seq(Messages)
          BY DEF Types, HubTypes
        <4>2. \A x : Has(Append(handed, m), x) => Has(handed, x) \/ x = m
          BY <4>1, HasAppend
        <4> QED BY <2>1, <4>2
      <3>2. \A i \in 1 .. LogBuffLen + 1 : slots[i] # NoLine =>
               call'[slots[i]] = "done" /\ ~Has(handed', slots[i])
        BY <2>1, <2>2, <3>1 DEF Buffer
      <3>3. \A l \in Lines : call'[l] = "append" => \A i \in 1 .. loaded[l] : slots[i] # NoLine
        BY <2>1 DEF Buffer, Messages
      <3> QED BY <2>1, <3>2, <3>3 DEF Buffer
    <2>5. Broadcast'
      <3>1. CASE handed' = handed
        BY <2>1, <2>3, <3>1 DEF Broadcast
      <3>2. CASE handed' = Append(handed, m)
        <4>1. /\ DOMAIN handed' = 1 .. Len(handed) + 1 /\ Len(handed) \in Nat
              /\ DOMAIN handed = 1 .. Len(handed)
              /\ handed'[Len(handed) + 1] = m
              /\ \A i \in 1 .. Len(handed) : handed'[i] = handed[i]
          BY <3>2 DEF Types, HubTypes
        <4> QED BY <2>1, <2>3, <4>1 DEF Broadcast
      <3> QED BY <2>1, <3>1, <3>2
    <2> QED BY <2>4, <2>5
  <1>4. ASSUME NEW c \in Clients, sendLogBuff(c) PROVE Buffer' /\ Broadcast'
    <2>1. /\ \A d \in Clients : copy'[d].until = copy[d].until \/ copy'[d].until = len
          /\ UNCHANGED <<slots, len, call, loaded, handed>>
      BY <1>4 DEF sendLogBuff, logVars, hubVars, Types, PumpTypes
    <2> QED BY <1>a, <2>1
  <1>5. ASSUME NEW c \in Clients, sendLogBuffLine(c) PROVE Buffer' /\ Broadcast'
    <2>1. copy' = copy \/ copy' = [copy EXCEPT ![c] = [copy[c] EXCEPT !.next = @ + 1]]
      BY <1>5 DEF sendLogBuffLine
    <2>2. \A d \in Clients : copy'[d].until = copy[d].until
      BY <2>1 DEF Types, PumpTypes
    <2>3. UNCHANGED <<slots, len, call, loaded, handed>>
      BY <1>5 DEF sendLogBuffLine, logVars, hubVars
    <2> QED BY <1>a, <2>2, <2>3
  <1>6. ASSUME NEW c \in Clients,
               \/ HubRegister(c) \/ HubUnregister(c) \/ HubSend(c) \/ startPumps(c)
               \/ Heartbeat(c) \/ Tick(c) \/ writeMessage(c) \/ writePumpEnds(c) \/ Leave(c)
        PROVE  UNCHANGED <<slots, len, call, loaded, handed, copy>>
    BY <1>6 DEF HubRegister, HubUnregister, HubSend, startPumps, Heartbeat, Tick, writeMessage,
                writePumpEnds, Leave, logVars, hubVars
  <1>7. HubParks \/ UNCHANGED vars => UNCHANGED <<slots, len, call, loaded, handed, copy>>
    BY DEF HubParks, vars, logVars, hubVars, clientVars
  <1>8. UNCHANGED <<slots, len, call, loaded, handed, copy>> => Buffer' /\ Broadcast'
    BY <1>a
  <1> QED BY <1>1, <1>2, <1>3, <1>4, <1>5, <1>6, <1>7, <1>8
             DEF Next, broadcastLog, WriteEvent, Messages

-----------------------------------------------------------------------------
(* What a client receives.                                                 *)

\* A step passes client c nothing new.
NoMore(c) == \A m \in Messages : Passed(c, m)' => Passed(c, m)

\* A step takes nothing from client c.
NoLess(c) == \A m \in Messages : Passed(c, m) => Passed(c, m)'

\* A step passes client c the message x, if its connection is open.
Grows(c, x) ==
    \A m \in Messages : Passed(c, m)' <=> Passed(c, m) \/ (conn[c] = "open" /\ m = x)

\* A step that leaves a client and the broadcasts alone.
LEMMA Same ==
  ASSUME NEW c \in Clients, InOrder(c), GoesOn(c),
         send'[c] = send[c], received'[c] = received[c], conn'[c] = conn[c],
         joined'[c] = joined[c], handed' = handed
  PROVE  InOrder(c)' /\ GoesOn(c)' /\ NoMore(c) /\ NoLess(c)
  <1>1. InOrder(c)'
    BY DEF InOrder
  <1>2. GoesOn(c)'
    BY DEF GoesOn, Has
  <1>3. NoMore(c) /\ NoLess(c)
    BY DEF NoMore, NoLess, Passed, Has
  <1> QED BY <1>1, <1>2, <1>3

\* A step after which the connection is not open.
LEMMA Cut ==
  ASSUME NEW c \in Clients, InOrder(c),
         received'[c] = received[c], conn'[c] # "open", joined'[c] = joined[c], handed' = handed
  PROVE  InOrder(c)' /\ GoesOn(c)' /\ NoMore(c)
  <1>1. InOrder(c)'
    BY DEF InOrder
  <1>2. GoesOn(c)'
    BY DEF GoesOn
  <1>3. NoMore(c)
    BY DEF NoMore, Passed, Has
  <1> QED BY <1>1, <1>2, <1>3

\* A step that sends m to the channel.  If m is a broadcast, the client has those
\* before it.
LEMMA Push ==
  ASSUME Types, NEW c \in Clients, NEW m \in Messages \cup {Beat}, InOrder(c), GoesOn(c),
         conn[c] = "open" /\ m # Beat => ~Passed(c, m),
         conn[c] = "open" => \A j \in DOMAIN handed : handed[j] = m =>
             j > joined[c] /\ \A k \in joined[c] + 1 .. j - 1 : Passed(c, handed[k]),
         send' = [send EXCEPT ![c] = Append(@, m)], UNCHANGED <<received, conn, joined, handed>>
  PROVE  InOrder(c)' /\ GoesOn(c)' /\ Grows(c, m)
  <1> DEFINE n == Len(send[c])
  <1>1. /\ n \in Nat /\ DOMAIN send[c] = 1 .. n /\ DOMAIN send'[c] = 1 .. n + 1
        /\ \A i \in 1 .. n : send'[c][i] = send[c][i]
        /\ send'[c][n + 1] = m
    BY DEF Types, ChannelTypes
  <1> HIDE DEF n
  <1>2. InOrder(c)'
    BY DEF InOrder
  <1>3. Grows(c, m)
    <2>1. \A x : Has(send'[c], x) <=> Has(send[c], x) \/ x = m
      BY <1>1 DEF Has
    <2>2. \A x : Has(received'[c], x) <=> Has(received[c], x)
      BY DEF Has
    <2>3. \A x : Passed(c, x)' <=> Has(received'[c], x) \/ (conn'[c] = "open" /\ Has(send'[c], x))
      BY DEF Passed, Has
    <2> QED BY <2>1, <2>2, <2>3 DEF Grows, Passed
  <1>4. GoesOn(c)'
    <2> SUFFICES ASSUME conn[c] = "open" PROVE GoesOn(c)'
      BY DEF GoesOn
    <2>1. \A i, j \in DOMAIN send'[c] : send'[c][i] = send'[c][j] /\ send'[c][i] # Beat => i = j
      <3>1. m # Beat => \A i \in 1 .. n : send[c][i] # m
        BY <1>1 DEF Passed, Has
      <3> QED BY <1>1, <3>1 DEF GoesOn
    <2>2. \A i \in DOMAIN send'[c] : ~Has(received[c], send'[c][i])
      <3>1. ~Has(received[c], m)
        <4>1. CASE m = Beat
          BY <4>1, SizesAssumption DEF Has, Types, ChannelTypes
        <4> QED BY <4>1 DEF Passed
      <3> QED BY <1>1, <3>1 DEF GoesOn
    <2>3. ASSUME NEW i \in DOMAIN send'[c], NEW j \in DOMAIN handed, send'[c][i] = handed[j]
          PROVE  /\ j > joined[c]
                 /\ \A k \in joined[c] + 1 .. j - 1 :
                      Has(received[c], handed[k]) \/ \E h \in 1 .. i - 1 : send'[c][h] = handed[k]
      <3>1. CASE i \in 1 .. n
        <4>1. /\ j > joined[c]
              /\ \A k \in joined[c] + 1 .. j - 1 :
                   Has(received[c], handed[k]) \/ \E h \in 1 .. i - 1 : send[c][h] = handed[k]
          BY <1>1, <2>3, <3>1 DEF GoesOn
        <4>2. \A h \in 1 .. i - 1 : send'[c][h] = send[c][h]
          BY <1>1, <3>1
        <4> QED BY <4>1, <4>2
      <3>2. CASE i = n + 1
        <4>1. j > joined[c] /\ \A k \in joined[c] + 1 .. j - 1 : Passed(c, handed[k])
          BY <1>1, <2>3, <3>2
        <4>2. \A h \in 1 .. n : h \in 1 .. i - 1 /\ send'[c][h] = send[c][h]
          BY <1>1, <3>2
        <4> QED BY <1>1, <4>1, <4>2 DEF Passed, Has
      <3> QED BY <1>1, <3>1, <3>2
    <2>4. UNCHANGED <<received, conn, joined, handed>>
      OBVIOUS
    <2> QED BY <2>1, <2>2, <2>3, <2>4 DEF GoesOn, Has
  <1> QED BY <1>2, <1>3, <1>4

\* A step in which writePump() passes the first message of the channel on.
LEMMA Pop ==
  ASSUME Types, NEW c \in Clients, InOrder(c), GoesOn(c), writeMessage(c), conn[c] = "open"
  PROVE  InOrder(c)' /\ GoesOn(c)' /\ NoMore(c) /\ NoLess(c)
  <1> DEFINE n == Len(send[c])
             r == Len(received[c])
             m == send[c][1]
  <1>1. /\ n \in Nat /\ n >= 1 /\ DOMAIN send[c] = 1 .. n
        /\ Head(send[c]) = m /\ m \in Messages \cup {Beat}
        /\ send' = [send EXCEPT ![c] = Tail(@)]
    BY DEF writeMessage, Types, ChannelTypes
  <1>2. /\ DOMAIN send'[c] = 1 .. n - 1
        /\ \A i \in 1 .. n - 1 : send'[c][i] = send[c][i + 1]
    <2>1. send[c] \in Seq(Messages \cup {Beat}) /\ send[c] # <<>> /\ send'[c] = Tail(send[c])
      BY <1>1 DEF writeMessage, Types, ChannelTypes
    <2> QED BY <2>1
  <1>3. r \in Nat /\ DOMAIN received[c] = 1 .. r
    BY DEF Types, ChannelTypes
  <1>4. UNCHANGED <<conn, joined, handed>>
    BY DEF writeMessage, hubVars
  <1>5. m = Beat => received' = received
    BY <1>1 DEF writeMessage
  <1>6. m # Beat => /\ DOMAIN received'[c] = 1 .. r + 1
                    /\ \A i \in 1 .. r : received'[c][i] = received[c][i]
                    /\ received'[c][r + 1] = m
    <2>1. ASSUME m # Beat PROVE received[c] \in Seq(Messages) /\ received'[c] = Append(received[c], m)
      BY <1>1, <2>1 DEF writeMessage, Types, ChannelTypes
    <2>2. m # Beat => m \in Messages
      BY <1>1
    <2> QED BY <2>1, <2>2
  <1>7. \A j \in DOMAIN handed : handed[j] # Beat
    BY SizesAssumption DEF Types, HubTypes
  <1> HIDE DEF n, r, m
  <1>8. \A i \in 1 .. n : i = 1 \/ i - 1 \in 1 .. n - 1
    BY <1>1
  <1>9. \A x : Has(send[c], x) <=> Has(send'[c], x) \/ x = m
    <2>1. ASSUME NEW x, Has(send[c], x) PROVE Has(send'[c], x) \/ x = m
      <3>1. PICK i \in 1 .. n : send[c][i] = x
        BY <1>1, <2>1 DEF Has
      <3>2. CASE i = 1
        BY <3>1, <3>2 DEF m
      <3>3. CASE i # 1
        <4>1. i - 1 \in 1 .. n - 1 /\ (i - 1) + 1 = i
          BY <1>1, <3>3
        <4> QED BY <1>2, <3>1, <4>1 DEF Has
      <3> QED BY <3>2, <3>3
    <2>2. ASSUME NEW x, Has(send'[c], x) \/ x = m PROVE Has(send[c], x)
      <3>1. CASE x = m
        <4>1. 1 \in 1 .. n
          BY <1>1
        <4> QED BY <1>1, <3>1, <4>1 DEF Has, m
      <3>2. CASE Has(send'[c], x)
        <4>1. PICK i \in 1 .. n - 1 : send'[c][i] = x
          BY <1>2, <3>2 DEF Has
        <4>2. i + 1 \in 1 .. n
          BY <1>1
        <4> QED BY <1>1, <1>2, <4>1, <4>2 DEF Has
      <3> QED BY <2>2, <3>1, <3>2
    <2> QED BY <2>1, <2>2
  <1>10. \A x : x # Beat => (Has(received'[c], x) <=> Has(received[c], x) \/ x = m)
    <2>1. CASE m = Beat
      BY <1>5, <2>1
    <2>2. CASE m # Beat
      <3>1. \A i \in 1 .. r : i \in 1 .. r + 1
        BY <1>3
      <3>2. \A i \in 1 .. r + 1 : i = r + 1 \/ i \in 1 .. r
        BY <1>3
      <3>3. r + 1 \in 1 .. r + 1
        BY <1>3
      <3> QED BY <1>3, <1>6, <2>2, <3>1, <3>2, <3>3 DEF Has
    <2> QED BY <2>1, <2>2
  <1>11. NoMore(c) /\ NoLess(c)
    <2>1. \A x : Passed(c, x)' <=> Has(received'[c], x) \/ (conn'[c] = "open" /\ Has(send'[c], x))
      BY DEF Passed, Has
    <2>2. \A x \in Messages : x # Beat
      BY SizesAssumption
    <2> QED BY <1>4, <1>9, <1>10, <2>1, <2>2 DEF NoMore, NoLess, Passed
  <1>12. InOrder(c)'
    <2>1. CASE m = Beat
      BY <1>4, <1>5, <2>1 DEF InOrder
    <2>2. CASE m # Beat
      <3>1. ~Has(received[c], m)
        BY <1>1 DEF GoesOn, m
      <3>2. \A i, j \in DOMAIN received'[c] : received'[c][i] = received'[c][j] => i = j
        BY <1>3, <1>6, <2>2, <3>1 DEF InOrder, Has
      <3>3. ASSUME NEW i \in DOMAIN received'[c], NEW j \in DOMAIN handed,
                   received'[c][i] = handed[j]
            PROVE  /\ j > joined[c]
                   /\ \A k \in joined[c] + 1 .. j - 1 :
                        \E h \in 1 .. i - 1 : received'[c][h] = handed[k]
        <4>1. CASE i \in 1 .. r
          <5>1. /\ j > joined[c]
                /\ \A k \in joined[c] + 1 .. j - 1 :
                     \E h \in 1 .. i - 1 : received[c][h] = handed[k]
            BY <1>3, <1>6, <2>2, <3>3, <4>1 DEF InOrder
          <5>2. \A h \in 1 .. i - 1 : received'[c][h] = received[c][h]
            <6>1. \A h \in 1 .. i - 1 : h \in 1 .. r
              BY <1>3, <4>1
            <6> QED BY <1>6, <2>2, <6>1
          <5> QED BY <5>1, <5>2
        <4>2. CASE i = r + 1
          <5>1. send[c][1] = handed[j] /\ 1 \in DOMAIN send[c]
            BY <1>1, <1>6, <2>2, <3>3, <4>2 DEF m
          <5>2. /\ j > joined[c]
                /\ \A k \in joined[c] + 1 .. j - 1 : Has(received[c], handed[k])
            BY <5>1 DEF GoesOn
          <5>3. \A h \in 1 .. r : h \in 1 .. i - 1 /\ received'[c][h] = received[c][h]
            BY <1>3, <1>6, <2>2, <4>2
          <5> QED BY <1>3, <5>2, <5>3 DEF Has
        <4> QED BY <1>3, <1>6, <2>2, <4>1, <4>2
      <3> QED BY <1>4, <3>2, <3>3 DEF InOrder
    <2> QED BY <2>1, <2>2
  <1>13. GoesOn(c)'
    <2>1. \A i, j \in DOMAIN send'[c] : send'[c][i] = send'[c][j] /\ send'[c][i] # Beat => i = j
      <3> SUFFICES ASSUME NEW i \in 1 .. n - 1, NEW j \in 1 .. n - 1,
                          send'[c][i] = send'[c][j], send'[c][i] # Beat
                   PROVE  i = j
        BY <1>2
      <3>1. i + 1 \in 1 .. n /\ j + 1 \in 1 .. n
        BY <1>1
      <3>2. i + 1 = j + 1
        BY <1>1, <1>2, <3>1 DEF GoesOn
      <3> QED BY <3>2
    <2>2. \A i \in DOMAIN send'[c] : ~Has(received'[c], send'[c][i])
      <3> SUFFICES ASSUME NEW i \in 1 .. n - 1 PROVE ~Has(received'[c], send'[c][i])
        BY <1>2
      <3>1. i + 1 \in 1 .. n /\ i + 1 # 1 /\ 1 \in 1 .. n
        BY <1>1
      <3>2. send'[c][i] # Beat => send[c][i + 1] # m
        BY <1>1, <1>2, <3>1 DEF GoesOn, m
      <3>3. ~Has(received[c], send[c][i + 1])
        BY <1>1, <3>1 DEF GoesOn
      <3>4. ~Has(received'[c], Beat)
        <4>1. ~Has(received[c], Beat)
          BY SizesAssumption DEF Has, Types, ChannelTypes
        <4>2. CASE m = Beat
          BY <1>5, <4>1, <4>2
        <4>3. CASE m # Beat
          BY <1>3, <1>6, <4>1, <4>3 DEF Has
        <4> QED BY <4>2, <4>3
      <3> QED BY <1>2, <1>10, <3>2, <3>3, <3>4
    <2>3. ASSUME NEW i \in DOMAIN send'[c], NEW j \in DOMAIN handed, send'[c][i] = handed[j]
          PROVE  /\ j > joined[c]
                 /\ \A k \in joined[c] + 1 .. j - 1 :
                      Has(received'[c], handed[k]) \/ \E h \in 1 .. i - 1 : send'[c][h] = handed[k]
      <3>1. i \in 1 .. n - 1 /\ i + 1 \in 1 .. n /\ send[c][i + 1] = handed[j]
        BY <1>1, <1>2, <2>3
      <3>2. /\ j > joined[c]
            /\ \A k \in joined[c] + 1 .. j - 1 :
                 Has(received[c], handed[k]) \/ \E h \in 1 .. i : send[c][h] = handed[k]
        <4>1. (i + 1) - 1 = i
          BY <3>1
        <4> QED BY <1>1, <3>1, <4>1 DEF GoesOn
      <3>3. ASSUME NEW k \in joined[c] + 1 .. j - 1
            PROVE  Has(received'[c], handed[k]) \/ \E h \in 1 .. i - 1 : send'[c][h] = handed[k]
        <4>1. k \in DOMAIN handed /\ handed[k] # Beat
          BY <1>7, <2>3, <3>3 DEF Types, HubTypes
        <4>2. CASE Has(received[c], handed[k])
          BY <1>10, <4>1, <4>2
        <4>3. ASSUME NEW h \in 1 .. i, send[c][h] = handed[k]
              PROVE  Has(received'[c], handed[k]) \/ \E g \in 1 .. i - 1 : send'[c][g] = handed[k]
          <5>1. CASE h = 1
            BY <1>10, <4>1, <4>3, <5>1 DEF m
          <5>2. CASE h # 1
            <6>1. h - 1 \in 1 .. i - 1 /\ h - 1 \in 1 .. n - 1 /\ (h - 1) + 1 = h
              BY <1>1, <3>1, <5>2
            <6> QED BY <1>2, <4>3, <6>1
          <5> QED BY <5>1, <5>2
        <4> QED BY <3>2, <4>2, <4>3
      <3> QED BY <3>2, <3>3
    <2> QED BY <1>4, <2>1, <2>2, <2>3 DEF GoesOn, Has
  <1> QED BY <1>11, <1>12, <1>13

\* A step in which the hub takes the message m.
Takes(m) == handed' = Append(handed, m) /\ UNCHANGED <<send, received, conn, joined>>

\* Client c has not received m.
LEMMA Hand ==
  ASSUME Types, NEW c \in Clients, NEW m \in Messages, InOrder(c), GoesOn(c), ~Passed(c, m),
         Takes(m)
  PROVE  InOrder(c)' /\ GoesOn(c)' /\ NoMore(c) /\ NoLess(c)
  <1>a. send' = send /\ received' = received /\ conn' = conn /\ joined' = joined
    BY DEF Takes
  <1>1. /\ Len(handed) \in Nat /\ DOMAIN handed = 1 .. Len(handed)
        /\ DOMAIN handed' = 1 .. Len(handed) + 1
        /\ \A j \in 1 .. Len(handed) : handed'[j] = handed[j]
        /\ handed'[Len(handed) + 1] = m
    BY DEF Types, HubTypes, Takes
  <1>2. /\ \A i \in DOMAIN received[c] : received[c][i] # m
        /\ conn[c] = "open" => \A i \in DOMAIN send[c] : send[c][i] # m
    BY DEF Passed, Has
  <1>3. \A j \in DOMAIN handed : \A k \in joined[c] + 1 .. j - 1 : handed'[k] = handed[k]
    BY <1>1 DEF Types, HubTypes
  <1>4. NoMore(c) /\ NoLess(c)
    BY <1>a DEF NoMore, NoLess, Passed, Has
  <1>5. InOrder(c)'
    <2>1. ASSUME NEW i \in DOMAIN received[c], NEW j \in DOMAIN handed', received[c][i] = handed'[j]
          PROVE  /\ j > joined[c]
                 /\ \A k \in joined[c] + 1 .. j - 1 :
                      \E h \in 1 .. i - 1 : received[c][h] = handed'[k]
      <3>1. j \in DOMAIN handed /\ received[c][i] = handed[j]
        BY <1>1, <1>2, <2>1
      <3>2. /\ j > joined[c]
            /\ \A k \in joined[c] + 1 .. j - 1 :
                 \E h \in 1 .. i - 1 : received[c][h] = handed[k]
        BY <3>1 DEF InOrder
      <3> QED BY <1>3, <3>1, <3>2
    <2>2. \A i, j \in DOMAIN received[c] : received[c][i] = received[c][j] => i = j
      BY DEF InOrder
    <2> QED BY <1>a, <2>1, <2>2 DEF InOrder
  <1>6. GoesOn(c)'
    <2>1. ASSUME conn[c] = "open",
                 NEW i \in DOMAIN send[c], NEW j \in DOMAIN handed', send[c][i] = handed'[j]
          PROVE  /\ j > joined[c]
                 /\ \A k \in joined[c] + 1 .. j - 1 :
                      Has(received[c], handed'[k]) \/ \E h \in 1 .. i - 1 : send[c][h] = handed'[k]
      <3>1. j \in DOMAIN handed /\ send[c][i] = handed[j]
        BY <1>1, <1>2, <2>1
      <3>2. /\ j > joined[c]
            /\ \A k \in joined[c] + 1 .. j - 1 :
                 Has(received[c], handed[k]) \/ \E h \in 1 .. i - 1 : send[c][h] = handed[k]
        BY <2>1, <3>1 DEF GoesOn
      <3> QED BY <1>3, <3>1, <3>2
    <2>2. conn[c] = "open" =>
             /\ \A i, j \in DOMAIN send[c] : send[c][i] = send[c][j] /\ send[c][i] # Beat => i = j
             /\ \A i \in DOMAIN send[c] : ~Has(received[c], send[c][i])
      BY DEF GoesOn
    <2> QED BY <1>a, <2>1, <2>2 DEF GoesOn, Has
  <1> QED BY <1>4, <1>5, <1>6

\* A step that passes a client nothing keeps Fresh.
LEMMA FreshKept ==
  ASSUME Types, NEW c \in Clients, Fresh(c), NoMore(c), slots' = slots,
         \A m \in Messages : call[m] = "done" => call'[m] = "done",
         handler[c] \in {"copy", "done", "dead"} =>
             handler'[c] \in {"copy", "done", "dead"} /\ copy'[c].next = copy[c].next
  PROVE  Fresh(c)'
  BY DEF Fresh, NoMore, Messages

\* A step goes on with the broadcast to client c, or there is none.
HubKeeps(c) ==
    /\ c \in clients' => c \in clients
    /\ c \in hub'.todo => c \in hub.todo /\ hub'.pc = hub.pc /\ hub'.msg = hub.msg
    /\ c \in hub.todo /\ c \in clients' => c \in hub'.todo

\* Such a step keeps UpToDate if it changes nothing of what the client gets.
LEMMA UpToDateKept ==
  ASSUME Types, NEW c \in Clients, UpToDate(c), NoMore(c), conn'[c] = "open" => NoLess(c),
         conn'[c] = "open" => conn[c] = "open",
         handed' = handed, joined'[c] = joined[c], HubKeeps(c)
  PROVE  UpToDate(c)'
  <1>1. joined'[c] <= Len(handed')
    BY DEF UpToDate
  <1>2. c \in clients' /\ conn'[c] = "open" =>
          \A k \in joined[c] + 1 .. Len(handed) : \A m \in Messages :
              handed[k] = m => Passed(c, m)' \/ (k = Len(handed) /\ c \in hub'.todo)
    BY DEF UpToDate, HubKeeps, NoLess
  <1>3. c \in hub'.todo =>
          /\ hub'.pc = "sending" /\ joined[c] < Len(handed)
          /\ hub'.msg = handed[Len(handed)]
          /\ \A m \in Messages : hub'.msg = m => ~Passed(c, m)'
    BY DEF UpToDate, HubKeeps, NoMore
  <1> QED BY <1>1, <1>2, <1>3 DEF UpToDate

\* A step that is not about client c keeps what is known of it.
LEMMA NotAbout ==
  ASSUME Types, NEW c \in Clients, Client(c), slots' = slots, handed' = handed,
         \A m \in Messages : call[m] = "done" => call'[m] = "done",
         handler'[c] = handler[c], copy'[c] = copy[c], conn'[c] = conn[c],
         send'[c] = send[c], received'[c] = received[c], joined'[c] = joined[c],
         HubKeeps(c)
  PROVE  Client(c)'
  <1>1. InOrder(c)' /\ GoesOn(c)' /\ NoMore(c) /\ NoLess(c)
    BY Same DEF Client
  <1>2. Fresh(c)'
    BY <1>1, FreshKept DEF Client
  <1>3. UpToDate(c)'
    BY <1>1, UpToDateKept DEF Client
  <1> QED BY <1>1, <1>2, <1>3 DEF Client

\* What the hub does with the other clients of a broadcast.
LEMMA HubKeepsOthers ==
  ASSUME Types, HubInv, NEW c \in Clients, NEW d \in Clients, Client(c),
         \/ (HubRegister(d) \/ HubUnregister(d) \/ HubSend(d)) /\ c # d
         \/ HubUnregister(d) \/ HubParks \/ UNCHANGED hubVars
  PROVE  HubKeeps(c)
  <1>1. hub.pc # "sending" => c \notin hub.todo
    BY DEF Client, UpToDate
  <1>2. CASE HubRegister(d) /\ c # d
    BY <1>1, <1>2 DEF HubRegister, Ready, HubKeeps
  <1>3. CASE HubUnregister(d)
    BY <1>1, <1>3 DEF HubUnregister, Ready, HubKeeps
  <1>4. CASE HubSend(d) /\ c # d
    <2>1. CASE hub.todo = {d}
      BY <1>4, <2>1 DEF HubSend, Ready, HubKeeps
    <2>2. CASE hub.todo # {d}
      <3>1. hub'.todo = hub.todo \ {d} /\ hub'.pc = hub.pc /\ hub'.msg = hub.msg
        BY <1>4, <2>2 DEF HubSend, Types, HubTypes
      <3>2. clients' \subseteq clients
        BY <1>4 DEF HubSend
      <3> QED BY <1>4, <3>1, <3>2 DEF HubKeeps
    <2> QED BY <2>1, <2>2
  <1>5. CASE HubParks
    BY <1>1, <1>5 DEF HubParks, HubKeeps, Types, HubTypes
  <1>6. CASE UNCHANGED hubVars
    BY <1>6 DEF hubVars, HubKeeps
  <1> QED BY <1>2, <1>3, <1>4, <1>5, <1>6

\* A client is not disturbed by the steps of another one.
LEMMA AnotherClient ==
  ASSUME Types, FlagTypes, HubInv, NEW c \in Clients, NEW d \in Clients, c # d, Client(c),
         \/ HubRegister(d) \/ HubUnregister(d) \/ HubSend(d)
         \/ sendLogBuff(d) \/ sendLogBuffLine(d) \/ startPumps(d)
         \/ Heartbeat(d) \/ Tick(d) \/ writeMessage(d) \/ writePumpEnds(d) \/ Leave(d)
  PROVE  Client(c)'
  <1>1. OthersSame(d)
    BY OthersAreSame
  <1>2. UNCHANGED <<slots, call, handed>>
    BY DEF HubRegister, HubUnregister, HubSend, sendLogBuff, sendLogBuffLine, startPumps,
           Heartbeat, Tick, writeMessage, writePumpEnds, Leave, logVars, hubVars
  <1>3. HubKeeps(c)
    <2>1. CASE HubRegister(d) \/ HubUnregister(d) \/ HubSend(d)
      BY <2>1, HubKeepsOthers
    <2>2. CASE UNCHANGED hubVars
      BY <2>2, HubKeepsOthers
    <2>3. CASE \/ sendLogBuff(d) \/ sendLogBuffLine(d) \/ startPumps(d)
               \/ Heartbeat(d) \/ Tick(d) \/ writeMessage(d) \/ writePumpEnds(d) \/ Leave(d)
      BY <2>2, <2>3 DEF sendLogBuff, sendLogBuffLine, startPumps, Heartbeat, Tick,
                        writeMessage, writePumpEnds, Leave
    <2> QED BY <2>1, <2>3
  <1> QED BY <1>1, <1>2, <1>3, NotAbout DEF OthersSame

\* The calls of WriteLog() and WriteEvent().
LEMMA CallsKeep ==
  ASSUME Types, HubInv, Broadcast, NEW c \in Clients, Client(c),
         \/ \E l \in Lines : WriteLog(l) \/ appendLog(l) \/ broadcastLog(l)
         \/ \E e \in Events : WriteEvent(e)
  PROVE  Client(c)'
  <1>1. ASSUME NEW l \in Lines, WriteLog(l) PROVE Client(c)'
    <2>1. UNCHANGED <<slots, hubVars, clientVars>>
      BY <1>1 DEF WriteLog
    <2>2. \A m \in Messages : call[m] = "done" => call'[m] = "done"
      BY <1>1 DEF WriteLog, Types, LogTypes, Messages
    <2>3. HubKeeps(c)
      BY <2>1, HubKeepsOthers
    <2> QED BY <2>1, <2>2, <2>3, NotAbout DEF hubVars, clientVars
  <1>2. ASSUME NEW l \in Lines, appendLog(l) PROVE Client(c)'
    <2>1. UNCHANGED <<handed, joined, hub, clients, handler, copy, conn, send, received>>
      BY <1>2 DEF appendLog, hubVars, clientVars
    <2>2. InOrder(c)' /\ GoesOn(c)' /\ NoMore(c) /\ NoLess(c)
      BY <2>1, Same DEF Client
    <2>3. HubKeeps(c)
      BY <2>1 DEF HubKeeps
    <2>4. UpToDate(c)'
      BY <2>1, <2>2, <2>3, UpToDateKept DEF Client
    <2>5. ~Passed(c, l)
      BY <1>2 DEF appendLog, Client, Fresh, Messages
    <2>6. \A i \in 1 .. LogBuffLen + 1 : slots'[i] = slots[i] \/ slots'[i] = l
      BY <1>2 DEF appendLog, Types, LogTypes
    <2>7. \A m \in Messages : call[m] = "done" => call'[m] = "done"
      BY <1>2 DEF appendLog, Types, LogTypes, Messages
    <2>8. Fresh(c)'
      BY <2>1, <2>2, <2>5, <2>6, <2>7 DEF Fresh, Client, NoMore, Messages
    <2> QED BY <2>2, <2>4, <2>8 DEF Client
  <1>3. ASSUME NEW m \in Messages, broadcastMessage(m), call[m] \in {"new", "broadcast"}
        PROVE  Client(c)'
    <2>1. UNCHANGED <<slots, clients, joined, handler, copy, conn, send, received>>
      BY <1>3 DEF broadcastMessage, clientVars
    <2>2. \A k \in Messages : call[k] = "done" => call'[k] = "done"
      BY <1>3 DEF broadcastMessage, Types, LogTypes
    <2>3. ~Passed(c, m)
      BY <1>3 DEF Client, Fresh
    <2>4. CASE hub.pc # "parked"
      <3>1. UNCHANGED <<handed, hub>>
        BY <1>3, <2>4 DEF broadcastMessage
      <3>2. HubKeeps(c)
        BY <2>1, <3>1 DEF HubKeeps
      <3> QED BY <2>1, <2>2, <3>1, <3>2, NotAbout
    <2>5. CASE hub.pc = "parked"
      <3>1. Takes(m)
        BY <1>3, <2>1, <2>5 DEF broadcastMessage, Takes
      <3>2. InOrder(c)' /\ GoesOn(c)' /\ NoMore(c) /\ NoLess(c)
        BY <2>3, <3>1, Hand DEF Client
      <3>3. Fresh(c)'
        BY <2>1, <2>2, <3>2, FreshKept DEF Client
      <3>4. /\ Len(handed) \in Nat /\ Len(handed') = Len(handed) + 1
            /\ \A k \in 1 .. Len(handed) : handed'[k] = handed[k]
            /\ handed'[Len(handed) + 1] = m
        BY <3>1 DEF Takes, Types, HubTypes
      <3>5. /\ c \in clients => c \in hub'.todo
            /\ c \in hub'.todo => hub'.pc = "sending" /\ hub'.msg = m
        BY <1>3, <2>5 DEF broadcastMessage, Ready
      <3>6. joined'[c] = joined[c] /\ joined[c] \in Nat /\ joined[c] <= Len(handed)
        BY <2>1 DEF Client, UpToDate, Types, HubTypes
      <3>7. c \notin hub.todo
        BY <2>5 DEF Client, UpToDate
      <3>8. ASSUME c \in clients, conn[c] = "open",
                   NEW k \in joined[c] + 1 .. Len(handed) + 1, NEW x \in Messages, handed'[k] = x
            PROVE  Passed(c, x)' \/ (k = Len(handed) + 1 /\ c \in hub'.todo)
        <4>1. CASE k = Len(handed) + 1
          BY <3>5, <3>8, <4>1
        <4>2. CASE k # Len(handed) + 1
          <5>1. k \in joined[c] + 1 .. Len(handed) /\ k \in 1 .. Len(handed)
            BY <3>4, <3>6, <4>2
          <5>2. Passed(c, x)
            BY <3>4, <3>7, <3>8, <5>1 DEF Client, UpToDate
          <5> QED BY <3>2, <5>2 DEF NoLess
        <4> QED BY <4>1, <4>2
      <3>9. \A x \in Messages : x = m => ~Passed(c, x)'
        BY <2>3, <3>2 DEF NoMore
      <3>10. UpToDate(c)'
        BY <2>1, <3>4, <3>5, <3>6, <3>8, <3>9 DEF UpToDate
      <3> QED BY <3>2, <3>3, <3>10 DEF Client
    <2> QED BY <2>4, <2>5
  <1> QED BY <1>1, <1>2, <1>3 DEF broadcastLog, WriteEvent, Messages

\* A client is registered with nothing received.
LEMMA RegisterKeeps ==
  ASSUME Types, HubInv, NEW c \in Clients, Client(c), HubRegister(c)
  PROVE  Client(c)'
  <1>1. send'[c] = <<>> /\ received'[c] = <<>>
    BY DEF HubRegister, HubInv
  <1>2. joined'[c] = Len(handed) /\ handed' = handed /\ hub'.todo = {} /\ Len(handed) \in Nat
    BY DEF HubRegister, Ready, Types, HubTypes
  <1>3. \A m \in Messages : ~Passed(c, m)'
    BY <1>1 DEF Passed, Has
  <1>4. InOrder(c)' /\ GoesOn(c)'
    BY <1>1 DEF InOrder, GoesOn
  <1>5. Fresh(c)'
    BY <1>3 DEF Fresh, Messages
  <1>6. UpToDate(c)'
    BY <1>2 DEF UpToDate
  <1> QED BY <1>4, <1>5, <1>6 DEF Client

\* A step that closes a client's connection, or that finds it closed.
LEMMA ClosingKeeps ==
  ASSUME Types, NEW c \in Clients, Client(c), UNCHANGED <<slots, call, handed, joined>>,
         conn'[c] # "open", received'[c] = received[c], copy' = copy, HubKeeps(c),
         handler[c] \in {"copy", "done", "dead"} => handler'[c] \in {"copy", "done", "dead"}
  PROVE  Client(c)'
  <1>1. InOrder(c)' /\ GoesOn(c)' /\ NoMore(c)
    BY Cut DEF Client
  <1>2. Fresh(c)'
    BY <1>1, FreshKept DEF Client
  <1>3. UpToDate(c)'
    BY <1>1, UpToDateKept DEF Client
  <1> QED BY <1>1, <1>2, <1>3 DEF Client

\* The hub sends its message to the client, which then has all broadcasts, or cuts
\* the client off.
LEMMA SendKeeps ==
  ASSUME Types, HubInv, Buffer, Broadcast, NEW c \in Clients, Client(c), HubSend(c)
  PROVE  Client(c)'
  <1>1. ~closed[c] /\ c \in hub.todo
    BY DEF HubSend, HubInv
  <1>2. UNCHANGED <<slots, call, handed, joined, handler, copy, conn, received>>
    BY DEF HubSend, logVars
  <1>3. c \notin hub'.todo
    BY DEF HubSend, Ready, Types, HubTypes
  <1>4. CASE send' = send /\ c \notin clients'
    <2>1. InOrder(c)' /\ GoesOn(c)' /\ NoMore(c) /\ NoLess(c)
      BY <1>2, <1>4, Same DEF Client
    <2>2. Fresh(c)'
      BY <1>2, <2>1, FreshKept DEF Client
    <2>3. HubKeeps(c)
      BY <1>3, <1>4 DEF HubKeeps
    <2>4. UpToDate(c)'
      BY <1>2, <2>1, <2>3, UpToDateKept DEF Client
    <2> QED BY <2>1, <2>2, <2>4 DEF Client
  <1>5. CASE send' = [send EXCEPT ![c] = Append(@, hub.msg)]
    <2> DEFINE n == Len(handed)
    <2>1. PICK m \in Messages : m = hub.msg
      BY <1>1 DEF Client, UpToDate, Types, HubTypes
    <2>2. /\ n \in Nat /\ DOMAIN handed = 1 .. n /\ joined[c] \in Nat /\ joined[c] < n
          /\ handed[n] = m /\ ~Passed(c, m)
          /\ \A k \in 1 .. n : handed[k] \in Messages
      BY <1>1, <2>1 DEF Client, UpToDate, Types, HubTypes
    <2>a. conn[c] = "open" => \A k \in joined[c] + 1 .. n : \A x \in Messages :
             handed[k] = x => Passed(c, x) \/ k = n
      BY <1>1 DEF Client, UpToDate, HubInv
    <2> HIDE DEF n
    <2>b. \A k \in joined[c] + 1 .. n : k \in 1 .. n
      BY <2>2
    <2>3. \A k \in joined[c] + 1 .. n : conn[c] = "open" /\ k # n => Passed(c, handed[k])
      BY <2>2, <2>a, <2>b
    <2>4. \A j \in DOMAIN handed : handed[j] = m => j = n
      BY <2>2 DEF Broadcast
    <2>5. conn[c] = "open" => \A j \in DOMAIN handed : handed[j] = m =>
             j > joined[c] /\ \A k \in joined[c] + 1 .. j - 1 : Passed(c, handed[k])
      <3>1. \A k \in joined[c] + 1 .. n - 1 : k \in joined[c] + 1 .. n /\ k # n
        BY <2>2
      <3> QED BY <2>2, <2>3, <2>4, <3>1
    <2>6. InOrder(c)' /\ GoesOn(c)' /\ Grows(c, m)
      BY <1>2, <1>5, <2>1, <2>2, <2>5, Push DEF Client
    <2>7. Fresh(c)'
      <3>1. call[m] = "done"
        BY <2>2 DEF Broadcast
      <3>2. \A i \in 1 .. LogBuffLen + 1 : \A l \in Lines : slots[i] = l => l # m
        BY <2>2, SizesAssumption DEF Buffer, Has
      <3> QED BY <1>2, <2>6, <3>1, <3>2 DEF Fresh, Client, Grows, Messages
    <2>8. UpToDate(c)'
      <3>1. ASSUME conn[c] = "open", NEW k \in joined[c] + 1 .. n, NEW x \in Messages, handed[k] = x
            PROVE  Passed(c, x)'
        BY <2>2, <2>3, <2>6, <3>1 DEF Grows
      <3>2. joined'[c] <= Len(handed')
        BY <1>2, <2>2 DEF n
      <3>3. conn'[c] = "open" =>
               \A k \in joined'[c] + 1 .. Len(handed') : \A x \in Messages :
                   handed'[k] = x => Passed(c, x)'
        BY <1>2, <3>1 DEF n
      <3> QED BY <1>3, <3>2, <3>3 DEF UpToDate
    <2> QED BY <2>6, <2>7, <2>8 DEF Client
  <1> QED BY <1>1, <1>4, <1>5 DEF HubSend, Types, HubTypes

\* The handler of a client copies the buffer to its channel.
LEMMA CopyKeeps ==
  ASSUME Types, HubInv, Buffer, NEW c \in Clients, Client(c), sendLogBuffLine(c)
  PROVE  Client(c)'
  <1>1. UNCHANGED <<slots, call, handed, joined, hub, clients, received>>
    BY DEF sendLogBuffLine, logVars, hubVars
  <1>2. HubKeeps(c)
    BY <1>1 DEF HubKeeps
  <1>3. CASE closed[c] /\ conn' = [conn EXCEPT ![c] = "closed"] /\ copy' = copy
             /\ handler' = [handler EXCEPT ![c] = "dead"]
    <2>1. conn'[c] = "closed" /\ handler'[c] = "dead"
      BY <1>3 DEF Types, PumpTypes
    <2> QED BY <1>1, <1>2, <1>3, <2>1, ClosingKeeps
  <1>4. CASE /\ send' = [send EXCEPT ![c] = Append(@, slots[copy[c].next])]
             /\ copy' = [copy EXCEPT ![c].next = @ + 1] /\ UNCHANGED <<handler, conn>>
    <2> DEFINE n == copy[c].next
    <2>1. n \in 1 .. LogBuffLen + 1 /\ n \in 1 .. copy[c].until
      BY SizesAssumption DEF sendLogBuffLine, Types, PumpTypes
    <2>2. PICK l \in Lines : l = slots[n]
      BY <2>1, SizesAssumption DEF Buffer, Types, LogTypes
    <2>3. call[l] = "done" /\ ~Has(handed, l)
      BY <2>1, <2>2, SizesAssumption DEF Buffer
    <2>4. ~Passed(c, l)
      BY <2>1, <2>2 DEF Client, Fresh
    <2>5. copy'[c].next = n + 1 /\ n \in Nat /\ handler'[c] = "copy"
      <3>1. copy' = [copy EXCEPT ![c] = [copy[c] EXCEPT !.next = n + 1]]
        BY <1>4
      <3>2. copy'[c].next = n + 1
        BY <3>1 DEF Types, PumpTypes
      <3> QED BY <1>4, <2>1, <3>2 DEF sendLogBuffLine
    <2>6. InOrder(c)' /\ GoesOn(c)' /\ Grows(c, l)
      <3>1. send' = [send EXCEPT ![c] = Append(@, l)] /\ conn' = conn
        BY <1>4, <2>2
      <3>2. \A j \in DOMAIN handed : handed[j] # l
        BY <2>3 DEF Has
      <3> QED BY <1>1, <2>4, <3>1, <3>2, Push DEF Client, Messages
    <2>7. Fresh(c)'
      <3>1. \A m \in Messages : Passed(c, m)' => call[m] = "done"
        BY <2>3, <2>6 DEF Client, Fresh, Grows
      <3>2. ASSUME NEW i \in 1 .. LogBuffLen + 1, NEW k \in Lines, slots[i] = k, Passed(c, k)'
            PROVE  i < n + 1
        <4>1. CASE k = l
          BY <2>1, <2>2, <2>5, <3>2, <4>1, SizesAssumption DEF Buffer
        <4>2. CASE k # l
          <5>1. Passed(c, k)
            BY <2>6, <3>2, <4>2 DEF Grows, Messages
          <5>2. i < n
            BY <3>2, <5>1 DEF Client, Fresh
          <5> QED BY <2>5, <5>2
        <4> QED BY <4>1, <4>2
      <3> QED BY <1>1, <2>5, <3>1, <3>2 DEF Fresh
    <2>8. UpToDate(c)'
      <3>1. NoLess(c)
        BY <2>6 DEF Grows, NoLess
      <3>2. c \in hub.todo => \A m \in Messages : hub.msg = m => ~Passed(c, m)'
        <4>1. c \in hub.todo => hub.msg # l
          BY <2>3 DEF Client, UpToDate, Has, Types, HubTypes
        <4> QED BY <2>6, <4>1 DEF Client, UpToDate, Grows
      <3> QED BY <1>1, <1>4, <3>1, <3>2 DEF Client, UpToDate, NoLess
    <2> QED BY <2>6, <2>7, <2>8 DEF Client
  <1> QED BY <1>3, <1>4 DEF sendLogBuffLine

\* The other steps of a client and its pumps.
LEMMA PumpsKeep ==
  ASSUME Types, HubInv, NEW c \in Clients, Client(c),
         \/ HubUnregister(c) \/ sendLogBuff(c) \/ startPumps(c)
         \/ Heartbeat(c) \/ Tick(c) \/ writeMessage(c) \/ writePumpEnds(c) \/ Leave(c)
  PROVE  Client(c)'
  <1>1. UNCHANGED <<slots, call, handed, joined>>
    BY DEF HubUnregister, sendLogBuff, startPumps, Heartbeat, Tick, writeMessage, writePumpEnds,
           Leave, logVars, hubVars
  <1>2. HubKeeps(c)
    <2>1. HubUnregister(c) \/ UNCHANGED hubVars
      BY DEF sendLogBuff, startPumps, Heartbeat, Tick, writeMessage, writePumpEnds, Leave
    <2> QED BY <2>1, HubKeepsOthers
  <1>3. ASSUME conn' = [conn EXCEPT ![c] = "closed"] \/ conn' = [conn EXCEPT ![c] = "gone"],
               UNCHANGED <<received, copy, handler>>
        PROVE  Client(c)'
    <2>1. conn'[c] # "open"
      BY <1>3 DEF Types, PumpTypes
    <2> QED BY <1>1, <1>2, <1>3, <2>1, ClosingKeeps
  <1>4. CASE HubUnregister(c) \/ writePumpEnds(c) \/ Leave(c)
    BY <1>3, <1>4 DEF HubUnregister, writePumpEnds, Leave
  <1>5. CASE sendLogBuff(c)
    <2>1. UNCHANGED <<send, received, conn>> /\ handler[c] = "range"
      BY <1>5 DEF sendLogBuff
    <2>2. InOrder(c)' /\ GoesOn(c)' /\ NoMore(c) /\ NoLess(c)
      BY <1>1, <2>1, Same DEF Client
    <2>3. Fresh(c)'
      BY <1>1, <2>1, <2>2, FreshKept DEF Client
    <2>4. UpToDate(c)'
      BY <1>1, <1>2, <2>1, <2>2, UpToDateKept DEF Client
    <2> QED BY <2>2, <2>3, <2>4 DEF Client
  <1>6. CASE startPumps(c)
    <2>1. UNCHANGED <<send, received, conn, copy>>
      BY <1>6 DEF startPumps
    <2>2. handler'[c] = "done"
      BY <1>6 DEF startPumps, Types, PumpTypes
    <2>3. InOrder(c)' /\ GoesOn(c)' /\ NoMore(c) /\ NoLess(c)
      BY <1>1, <2>1, Same DEF Client
    <2>4. Fresh(c)'
      BY <1>1, <2>1, <2>2, <2>3, FreshKept DEF Client
    <2>5. UpToDate(c)'
      BY <1>1, <1>2, <2>1, <2>3, UpToDateKept DEF Client
    <2> QED BY <2>3, <2>4, <2>5 DEF Client
  <1>7. CASE Tick(c) \/ (Heartbeat(c) /\ send' = send)
    <2>1. UNCHANGED <<send, received, conn, copy, handler>>
      BY <1>7 DEF Tick, Heartbeat
    <2> QED BY <1>1, <1>2, <2>1, NotAbout
  <1>8. CASE Heartbeat(c) /\ send' = [send EXCEPT ![c] = Append(@, Beat)]
    <2>1. UNCHANGED <<received, conn, copy, handler>>
      BY <1>8 DEF Heartbeat
    <2>2. \A j \in DOMAIN handed : handed[j] # Beat
      BY SizesAssumption DEF Types, HubTypes
    <2>3. InOrder(c)' /\ GoesOn(c)' /\ Grows(c, Beat)
      BY <1>1, <1>8, <2>1, <2>2, Push DEF Client
    <2>4. NoMore(c) /\ NoLess(c)
      BY <2>3, SizesAssumption DEF Grows, NoMore, NoLess
    <2>5. Fresh(c)'
      BY <1>1, <2>1, <2>4, FreshKept DEF Client
    <2>6. UpToDate(c)'
      BY <1>1, <1>2, <2>1, <2>4, UpToDateKept DEF Client
    <2> QED BY <2>3, <2>5, <2>6 DEF Client
  <1>9. CASE writeMessage(c) /\ conn[c] = "open"
    <2>1. UNCHANGED <<conn, copy, handler>>
      BY <1>9 DEF writeMessage
    <2>2. InOrder(c)' /\ GoesOn(c)' /\ NoMore(c) /\ NoLess(c)
      BY <1>9, Pop DEF Client
    <2>3. Fresh(c)'
      BY <1>1, <2>1, <2>2, FreshKept DEF Client
    <2>4. UpToDate(c)'
      BY <1>1, <1>2, <2>1, <2>2, UpToDateKept DEF Client
    <2> QED BY <2>2, <2>3, <2>4 DEF Client
  <1>10. CASE writeMessage(c) /\ conn[c] # "open"
    <2>1. UNCHANGED <<conn, copy, handler, received>>
      BY <1>10 DEF writeMessage
    <2> QED BY <1>1, <1>2, <1>10, <2>1, ClosingKeeps
  <1> QED BY <1>4, <1>5, <1>6, <1>7, <1>8, <1>9, <1>10 DEF Heartbeat

-----------------------------------------------------------------------------
(* The theorems.                                                           *)

\* Every step keeps the invariant.
LEMMA InvStep == ASSUME Inv, [Next]_vars PROVE Inv'
  <1>1. Types /\ FlagTypes /\ HubInv /\ Buffer /\ Broadcast /\ \A c \in Clients : Client(c)
    BY TypesSuffice DEF Inv
  <1>2. LogTypes' /\ HubTypes' /\ PumpTypes' /\ FlagTypes'
    BY <1>1, LogTypesStep, HubTypesStep, PumpTypesStep, FlagsStep
  <1>3. ChannelTypes'
    BY <1>1, ChannelTypesStep DEF Client
  <1>4. HubInv' /\ Buffer' /\ Broadcast'
    BY <1>1, HubStep, BufferStep
  <1>5. ASSUME NEW c \in Clients PROVE Client(c)'
    <2>1. CASE \/ \E l \in Lines : WriteLog(l) \/ appendLog(l) \/ broadcastLog(l)
               \/ \E e \in Events : WriteEvent(e)
      BY <1>1, <2>1, CallsKeep
    <2>2. CASE HubParks
      <3>1. UNCHANGED <<logVars, handed, joined, clientVars>>
        BY <2>2 DEF HubParks
      <3>2. HubKeeps(c)
        BY <1>1, <2>2, HubKeepsOthers
      <3> QED BY <1>1, <3>1, <3>2, NotAbout DEF logVars, clientVars
    <2>3. ASSUME NEW d \in Clients, d # c,
                 \/ HubRegister(d) \/ HubUnregister(d) \/ HubSend(d)
                 \/ sendLogBuff(d) \/ sendLogBuffLine(d) \/ startPumps(d)
                 \/ Heartbeat(d) \/ Tick(d) \/ writeMessage(d) \/ writePumpEnds(d) \/ Leave(d)
          PROVE  Client(c)'
      BY <1>1, <2>3, AnotherClient
    <2>4. CASE \/ HubRegister(c) \/ HubUnregister(c) \/ HubSend(c)
               \/ sendLogBuff(c) \/ sendLogBuffLine(c) \/ startPumps(c)
               \/ Heartbeat(c) \/ Tick(c) \/ writeMessage(c) \/ writePumpEnds(c) \/ Leave(c)
      BY <1>1, <2>4, RegisterKeeps, SendKeeps, CopyKeeps, PumpsKeep
    <2>5. CASE UNCHANGED vars
      <3>1. UNCHANGED <<logVars, hubVars, clientVars>>
        BY <2>5 DEF vars
      <3>2. HubKeeps(c)
        BY <1>1, <3>1, HubKeepsOthers
      <3> QED BY <1>1, <3>1, <3>2, NotAbout DEF logVars, hubVars, clientVars
    <2> QED BY <2>1, <2>2, <2>3, <2>4, <2>5 DEF Next
  <1>6. (Types /\ FlagTypes)'
    BY <1>2, <1>3 DEF Types
  <1>7. TypeOK'
    BY <1>6 DEF Types, FlagTypes, TypeOK, LogTypes, HubTypes, PumpTypes, ChannelTypes
  <1> QED BY <1>4, <1>5, <1>7 DEF Inv

\* The invariant holds in every reachable state.
LEMMA Invariance == Spec => []Inv
  <1>1. Init => Inv
    <2> SUFFICES ASSUME Init PROVE Inv
      OBVIOUS
    <2>1. TypeOK
      BY TypesInit, TypesSuffice
    <2>2. HubInv
      BY DEF Init, HubInv, Ready
    <2>3. Buffer /\ Broadcast
      BY DEF Init, Buffer, Broadcast
    <2>4. ASSUME NEW c \in Clients PROVE Client(c)
      <3>1. \A m : ~Passed(c, m)
        BY DEF Init, Passed, Has
      <3>2. InOrder(c) /\ GoesOn(c)
        BY DEF Init, InOrder, GoesOn
      <3>3. Fresh(c)
        BY <3>1 DEF Fresh
      <3>4. UpToDate(c)
        BY DEF Init, UpToDate, Ready
      <3> QED BY <3>2, <3>3, <3>4 DEF Client
    <2> QED BY <2>1, <2>2, <2>3, <2>4 DEF Inv
  <1>2. Inv /\ [Next]_vars => Inv'
    BY InvStep
  <1> QED BY <1>1, <1>2, PTL DEF Spec

\* Every variable keeps its type; no index of the buffer, which is read and
\* written without a lock, leaves it, and no channel exceeds its capacity.
THEOREM TypeCorrect == Spec => []TypeOK
  <1>1. Inv => TypeOK
    BY DEF Inv
  <1> QED BY <1>1, Invariance, PTL

\* The hub never sends to nor closes a channel that it has closed.
THEOREM HubNeverPanics == Spec => []HubSafe
  <1>1. Inv => HubSafe
    BY DEF Inv, HubInv, HubSafe
  <1> QED BY <1>1, Invariance, PTL

\* A client receives the broadcasts since its registration without a gap, and
\* nothing twice.
THEOREM ClientsMissNothing == Spec => []NoGap
  <1>1. Inv => NoGap
    BY DEF Inv, Client, InOrder, NoGap
  <1> QED BY <1>1, Invariance, PTL

=============================================================================
