----------------------------- MODULE ConnTrack -----------------------------
(***************************************************************************)
(* The connection events of the openssl object (kern/openssl.h).  The entry*)
(* of connect() and of accept() stores the descriptor in tcp_fd_infos under*)
(* pid_tgid, a hook inside adds the socket, the return program takes the   *)
(* entry and reports the connection.                                       *)
(*                                                                         *)
(* The return program deletes the entry first and reads it afterwards: its *)
(* element may by then belong to another thread.  Elements of the map are  *)
(* the members of Elems; a thread has one of them or none.                 *)
(***************************************************************************)
EXTENDS Integers, FiniteSets

CONSTANTS
    Threads,
    Fds,            \* descriptors
    Socks,          \* sockets
    Elems,          \* the elements of tcp_fd_infos (max_entries)
    NoElem, NoSock

\* NoElem is none of the elements.
ConnConstantsOK == NoElem \notin Elems

VARIABLES
    syscall,        \* syscall[t]: the call thread t is in
    elem,           \* elem[t]: the element of tcp_fd_infos that is t's
    tcp_fd_infos,   \* what is in the elements, of the free ones as well
    fd_info,        \* fd_info[t]: the return program of t
    conn            \* the event of the last step

connVars == <<syscall, elem, tcp_fd_infos, fd_info, conn>>

NoCall == [kind |-> "none", fd |-> 0, sock |-> NoSock]
Calls == [kind : {"none", "connect", "accept"}, fd : Fds \cup {0}, sock : Socks \cup {NoSock}]
Info == [fd : Fds \cup {0}, sock : Socks \cup {NoSock}]
\* A return program that does not run; at is where it is, sock the pointer it
\* has loaded, reused whether another thread got its element.
Idle == [at |-> "idle", of |-> NoElem, sock |-> NoSock, reused |-> FALSE]
NoEvent == [kind |-> "none"]

-----------------------------------------------------------------------------
\* A bug: an entry of this thread is left as it is (BPF_NOEXIST).
probe_connectKeeps(t, kind, fd) ==
    LET new == [fd |-> fd, sock |-> NoSock]
        free == {e \in Elems : \A u \in Threads : elem[u] # e}
        Put(e) ==
            /\ elem' = [elem EXCEPT ![t] = e]
            /\ tcp_fd_infos' = [tcp_fd_infos EXCEPT ![e] = new]
            /\ fd_info' = [u \in Threads |->
                 IF fd_info[u].of = e THEN [fd_info[u] EXCEPT !.reused = TRUE]
                 ELSE fd_info[u]]
    IN  /\ syscall[t] = NoCall
        /\ syscall' = [syscall EXCEPT ![t] = [kind |-> kind, fd |-> fd, sock |-> NoSock]]
        /\ conn' = NoEvent
        /\ \/ elem[t] = NoElem /\ \E e \in free : Put(e)
           \/ /\ elem[t] # NoElem \/ free = {}
              /\ UNCHANGED <<elem, tcp_fd_infos, fd_info>>

\* probe_connect(), the program at the entry of connect() and of accept4(): a
\* new entry, or the old one of this thread replaced; a full map takes none.
probe_connect(t, kind, fd) ==
    LET new == [fd |-> fd, sock |-> NoSock]
        free == {e \in Elems : \A u \in Threads : elem[u] # e}
        Put(e) ==
            /\ elem' = [elem EXCEPT ![t] = e]
            /\ tcp_fd_infos' = [tcp_fd_infos EXCEPT ![e] = new]
            /\ fd_info' = [u \in Threads |->
                 IF fd_info[u].of = e THEN [fd_info[u] EXCEPT !.reused = TRUE]
                 ELSE fd_info[u]]
    IN  /\ syscall[t] = NoCall
        /\ syscall' = [syscall EXCEPT ![t] = [kind |-> kind, fd |-> fd, sock |-> NoSock]]
        /\ conn' = NoEvent
        /\ IF elem[t] # NoElem THEN Put(elem[t])
           ELSE \/ \E e \in free : Put(e)
                \/ /\ free = {}
                   /\ UNCHANGED <<elem, tcp_fd_infos, fd_info>>

\* probe_inet_stream_connect() and probe_inet_accept(): the kernel is about to
\* use socket s.  A call on a socket that is not IP does not come here.
StoreSock(t, s) ==
    /\ tcp_fd_infos' =
         IF elem[t] = NoElem THEN tcp_fd_infos
         ELSE [tcp_fd_infos EXCEPT ![elem[t]].sock = s]
    /\ conn' = NoEvent
    /\ UNCHANGED <<elem, fd_info>>

probe_inet_stream_connect(t, s) ==
    /\ syscall[t].kind = "connect" /\ syscall[t].sock = NoSock /\ fd_info[t] = Idle
    /\ syscall' = [syscall EXCEPT ![t].sock = s]
    /\ StoreSock(t, s)

probe_inet_accept(t, s) ==
    /\ syscall[t].kind = "accept" /\ syscall[t].sock = NoSock /\ fd_info[t] = Idle
    /\ syscall' = [syscall EXCEPT ![t].sock = s]
    /\ StoreSock(t, s)

\* The kernel connects a socket of its own (kernel_connect()) while the thread
\* is in neither call.
kernel_connect(t, s) ==
    /\ syscall[t] = NoCall
    /\ StoreSock(t, s)
    /\ UNCHANGED syscall

-----------------------------------------------------------------------------
\* The call returns and no return program does anything: accept4() failed, the
\* kernel had no free return probe, or the thread was killed in the call.
ReturnUnseen(t) ==
    /\ syscall[t] # NoCall /\ fd_info[t] = Idle
    /\ syscall' = [syscall EXCEPT ![t] = NoCall]
    /\ conn' = NoEvent
    /\ UNCHANGED <<elem, tcp_fd_infos, fd_info>>

\* lookup_and_delete_fd_info(): the pointer is kept, the entry deleted.
lookup_and_delete_fd_info(t) ==
    /\ syscall[t] # NoCall /\ fd_info[t] = Idle
    /\ IF elem[t] = NoElem
       THEN /\ syscall' = [syscall EXCEPT ![t] = NoCall]
            /\ UNCHANGED <<elem, fd_info>>
       ELSE /\ elem' = [elem EXCEPT ![t] = NoElem]
            /\ fd_info' = [fd_info EXCEPT ![t] = [Idle EXCEPT !.at = "deleted", !.of = elem[t]]]
            /\ UNCHANGED syscall
    /\ conn' = NoEvent
    /\ UNCHANGED tcp_fd_infos

\* retprobe_connect() and retprobe_accept4() read the socket through the
\* pointer; without one they end.
LoadSock(t) ==
    LET sock == tcp_fd_infos[fd_info[t].of].sock
    IN  /\ fd_info[t].at = "deleted"
        /\ IF sock = NoSock
           THEN /\ fd_info' = [fd_info EXCEPT ![t] = Idle]
                /\ syscall' = [syscall EXCEPT ![t] = NoCall]
           ELSE /\ fd_info' = [fd_info EXCEPT ![t].at = "loaded", ![t].sock = sock]
                /\ UNCHANGED syscall
        /\ conn' = NoEvent
        /\ UNCHANGED <<elem, tcp_fd_infos>>

\* kretprobe_connect(): no event for a thread that is not a target, another
\* address family, a socket without ports or addresses yet.  The descriptor is
\* the stored one for connect() and the returned one for accept4().
kretprobe_connect(t) ==
    /\ fd_info[t].at = "loaded"
    /\ \/ conn' = NoEvent
       \/ conn' = [kind |-> syscall[t].kind, call |-> syscall[t],
                   sock |-> fd_info[t].sock, reused |-> fd_info[t].reused,
                   fd |-> IF syscall[t].kind = "connect"
                          THEN tcp_fd_infos[fd_info[t].of].fd ELSE syscall[t].fd]
    /\ fd_info' = [fd_info EXCEPT ![t] = Idle]
    /\ syscall' = [syscall EXCEPT ![t] = NoCall]
    /\ UNCHANGED <<elem, tcp_fd_infos>>

\* The end of a socket is reported for every process.
probe_tcp_v4_destroy_sock(s) ==
    /\ conn' = [kind |-> "destroy", sock |-> s]
    /\ UNCHANGED <<syscall, elem, tcp_fd_infos, fd_info>>

Init ==
    /\ syscall = [t \in Threads |-> NoCall]
    /\ elem = [t \in Threads |-> NoElem]
    /\ tcp_fd_infos = [e \in Elems |-> [fd |-> 0, sock |-> NoSock]]
    /\ fd_info = [t \in Threads |-> Idle]
    /\ conn = NoEvent

Next ==
    \/ \E t \in Threads :
         \/ \E kind \in {"connect", "accept"}, fd \in Fds : probe_connect(t, kind, fd)
         \/ \E s \in Socks :
              \/ probe_inet_stream_connect(t, s)
              \/ probe_inet_accept(t, s)
              \/ kernel_connect(t, s)
         \/ ReturnUnseen(t)
         \/ lookup_and_delete_fd_info(t)
         \/ LoadSock(t)
         \/ kretprobe_connect(t)
    \/ \E s \in Socks : probe_tcp_v4_destroy_sock(s)

Spec == Init /\ [][Next]_connVars

-----------------------------------------------------------------------------
\* The state is one the declarations allow, and no element belongs to two threads.
TypeOK ==
    /\ \A t, u \in Threads : elem[t] # NoElem /\ elem[t] = elem[u] => t = u
    /\ syscall \in [Threads -> Calls]
    /\ elem \in [Threads -> Elems \cup {NoElem}]
    /\ tcp_fd_infos \in [Elems -> Info]
    /\ fd_info \in [Threads -> [at : {"idle", "deleted", "loaded"}, of : Elems \cup {NoElem},
                                sock : Socks \cup {NoSock}, reused : BOOLEAN]]

\* The event of a connection has the descriptor and the socket of the call that
\* returns, whatever an earlier call that failed, was killed or returned unseen
\* has left for the thread.  The exception is the read after the deletion
\* (openssl.h:365, 460, 463): another thread got the element before it.
ConnectionIsTheCalls ==
    (conn.kind \in {"connect", "accept"} /\ ~conn.reused) =>
        /\ conn.sock = conn.call.sock
        /\ conn.kind = "connect" => conn.fd = conn.call.fd
=============================================================================
