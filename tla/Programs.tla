------------------------------ MODULE Programs ------------------------------
(***************************************************************************)
(* The eBPF programs of eCapture, by the map they work on, and the buffer  *)
(* that puts their events in order: one family is chosen at the start and  *)
(* runs with the programs it traces.  Families that are loaded together    *)
(* share no map, so that what one does is no step of another one: to check *)
(* every family by itself is to check all of them.                         *)
(*                                                                         *)
(* The plaintext programs of CallTrace and GoTls come by EXTENDS, with the *)
(* properties that are proved about them, the other ones by INSTANCE.      *)
(***************************************************************************)
EXTENDS CallTrace, GoTls, Sequences

CONSTANTS
    Fds, Socks, Elems, NoElem, NoSock,
    Shells, Cpus, Statuses, ErrNo, RingCap, MaxLines,
    Conns, Slots, NoSlot, SqlRets, MaxPackets,
    TlsConns, Suites, MaxFailures,
    Events, Mono, LagNs, MaxPending

VARIABLES
    family,         \* the programs that run
    syscall, elem, tcp_fd_infos, fd_info, conn,
    nlines, slot, events_t, sending, rings, lineMap, shown, due, upset,
    version, packet, npackets, entry, sql_hash, data, alone, sent,
    lib, tls, captured, keylog, seenKeys, complete, failures, flushFailures,
    buf, dispatched, arrived, pressed, running

Connections == INSTANCE ConnTrack
Shell == INSTANCE ShellTrace
Sql == INSTANCE SqlTrace
Secrets == INSTANCE SecretCapture
Reorder == INSTANCE PerfReorder

Families == {"calls", "connections", "shell", "sql", "go", "secrets", "reorder"}

callsVars == vars
connVars == <<syscall, elem, tcp_fd_infos, fd_info, conn>>
shellVars == <<nlines, slot, events_t, sending, rings, lineMap, shown, due, upset>>
sqlVars == <<version, packet, npackets, entry, sql_hash, data, alone, sent>>
secretVars == <<lib, tls, captured, keylog, seenKeys, complete, failures, flushFailures>>
reorderVars == <<buf, dispatched, arrived, pressed, running>>

programsVars == <<family, callsVars, connVars, shellVars, sqlVars, goVars, secretVars,
                  reorderVars>>

\* The families that are not chosen stay in one of their initial states.
ProgramsInit ==
    /\ family \in Families
    /\ Init /\ Connections!Init /\ Shell!Init
    /\ Sql!Init /\ GoInit /\ Secrets!Init /\ Reorder!Init
    /\ family # "calls" => object = "openssl" /\ \A t \in Threads : passes[t]
    /\ family # "sql" => version = 56
    /\ family # "secrets" =>
         /\ lib = "openssl"
         /\ \A k \in TlsConns :
              tls[k].version = 13 /\ tls[k].suite = Secrets!TlsAes128GcmSha256

ProgramsNext ==
    \/ /\ family = "calls" /\ Next
       /\ UNCHANGED <<family, connVars, shellVars, sqlVars,
                      goVars, secretVars, reorderVars>>
    \/ /\ family = "connections" /\ Connections!Next
       /\ UNCHANGED <<family, callsVars, shellVars, sqlVars,
                      goVars, secretVars, reorderVars>>
    \/ /\ family = "shell" /\ Shell!Next
       /\ UNCHANGED <<family, callsVars, connVars, sqlVars,
                      goVars, secretVars, reorderVars>>
    \/ /\ family = "sql" /\ Sql!Next
       /\ UNCHANGED <<family, callsVars, connVars, shellVars,
                      goVars, secretVars, reorderVars>>
    \/ /\ family = "go" /\ GoNext
       /\ UNCHANGED <<family, callsVars, connVars, shellVars,
                      sqlVars, secretVars, reorderVars>>
    \/ /\ family = "secrets" /\ Secrets!Next
       /\ UNCHANGED <<family, callsVars, connVars, shellVars,
                      sqlVars, goVars, reorderVars>>
    \/ /\ family = "reorder" /\ Reorder!Next
       /\ UNCHANGED <<family, callsVars, connVars, shellVars,
                      sqlVars, goVars, secretVars>>

ProgramsSpec == ProgramsInit /\ [][ProgramsNext]_programsVars

-----------------------------------------------------------------------------
\* The properties of the families that come by INSTANCE, each stated and explained
\* in its module.

\* The event of connect() and accept() describes the call that returned
\* (ConnTrack).
ConnectionIsTheCalls == family = "connections" => Connections!ConnectionIsTheCalls

\* A line typed into bash is in one of the commands shown at most (ShellTrace).
LineShownOnce == family = "shell" => Shell!LineShownOnce

\* A command of bash is shown whole (ShellTrace).
WholeCommands == family = "shell" => Shell!WholeCommands

\* A query that had mysqld to itself is reported with its text and its status
\* (SqlTrace).
AloneIsOwn == family = "sql" => Sql!AloneIsOwn

\* A secret has one line in the key log (SecretCapture).
LoggedOnce == family = "secrets" => Secrets!LoggedOnce

\* A line of the key log has the secret of its connection and no more, where the
\* handler can tell (SecretCapture).
LoggedIsRight == family = "secrets" => Secrets!LoggedIsRight

\* After a capture that follows the handshake no secret the handler can write is
\* missing from the key log (SecretCapture).
NothingMissing == family = "secrets" => Secrets!NothingMissing

\* No event is lost or dispatched twice by the reorder buffer (PerfReorder).
NothingLost == family = "reorder" => Reorder!NothingLost

\* With the disorder within the lag, events are dispatched in the order of their
\* timestamps, and always those with equal ones in that of their arrival
\* (PerfReorder).
DispatchedInOrder == family = "reorder" => Reorder!DispatchedInOrder
=============================================================================
