-------------------------- MODULE MCEventProcessor --------------------------
(* Small instances of EventProcessor for TLC.                              *)
EXTENDS EventProcessor

CONSTANTS e1, e2, e3, plain, sock, idle

\* e1 and e2 meet in one worker, e3 has a worker of its own.
MCUuidOf == [e \in Events |-> IF e = e3 THEN plain ELSE sock]

\* Every event is of one Default worker.
MCUuidOfPlain == [e \in Events |-> plain]

\* The workers of "sock" and "idle" have the life cycle of a socket.
MCSockOf == [u \in UUIDs |-> CASE u = plain -> 0 [] u = sock -> 7 [] u = idle -> 8]

MCSize == [e \in Events |-> IF e = e2 THEN 2 ELSE 1]
=============================================================================
