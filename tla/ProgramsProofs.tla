--------------------------- MODULE ProgramsProofs ---------------------------
(***************************************************************************)
(* What Programs promises of its connections, commands, queries, secrets   *)
(* and the order of its events, for every value of the constants.          *)
(* Programs interleaves parts that share no variable, so each part has an  *)
(* invariant of its own that its own steps keep and the others leave alone.*)
(***************************************************************************)
EXTENDS Programs, SequenceTheorems, FiniteSetTheorems, FunctionTheorems, TLAPS

-----------------------------------------------------------------------------
(***************************************************************************)
(* ConnTrack.  A thread is in no call, in a call whose entry is stored, or *)
(* in its return program, which has deleted the entry and still reads it.  *)
(***************************************************************************)

\* A step of Programs is one of ConnTrack or leaves it alone.
LEMMA ConnSteps == [ProgramsNext]_programsVars => [Connections!Next]_connVars
  BY DEF ProgramsNext, programsVars, connVars

\* The element e has what thread t stored during its call.
Stored(t, e) ==
    /\ tcp_fd_infos[e].fd = syscall[t].fd
    /\ tcp_fd_infos[e].sock = syscall[t].sock

\* What is known of a thread.  As long as the return program's element has not been
\* reused it is nobody's, so nobody writes to it.
ThreadOK(t) ==
    /\ syscall[t].kind = "none" => syscall[t] = Connections!NoCall
    /\ fd_info[t].at = "idle" =>
         /\ fd_info[t] = Connections!Idle
         /\ syscall[t].kind # "none" /\ elem[t] # NoElem => Stored(t, elem[t])
    /\ fd_info[t].at # "idle" =>
         /\ syscall[t].kind # "none"
         /\ fd_info[t].of \in Elems
    /\ fd_info[t].at # "idle" /\ ~fd_info[t].reused =>
         /\ \A u \in Threads : elem[u] # fd_info[t].of
         /\ tcp_fd_infos[fd_info[t].of].fd = syscall[t].fd
         /\ fd_info[t].at = "deleted" => Stored(t, fd_info[t].of)
         /\ fd_info[t].at = "loaded" => fd_info[t].sock = syscall[t].sock

\* The inductive invariant of ConnTrack.
ConnInv ==
    /\ Connections!TypeOK
    /\ \A t \in Threads : ThreadOK(t)
    /\ Connections!ConnectionIsTheCalls

\* A thread is not disturbed by a step of another one that touches element x, which
\* is not the thread's: its return program may have it, but is then told so.
LEMMA Undisturbed ==
  ASSUME Connections!ConnConstantsOK, ConnInv, NEW t \in Threads, NEW x \in Elems \cup {NoElem},
         syscall'[t] = syscall[t], elem'[t] = elem[t],
         elem[t] # NoElem => elem[t] # x,
         \A e \in Elems : e # x => tcp_fd_infos'[e] = tcp_fd_infos[e],
         \A u \in Threads : elem'[u] \in {elem[u], x, NoElem},
         fd_info'[t] = IF fd_info[t].of = x THEN [fd_info[t] EXCEPT !.reused = TRUE]
                       ELSE fd_info[t],
         x # NoElem
  PROVE  ThreadOK(t)'
  <1>1. CASE fd_info[t].at = "idle"
    <2>1. fd_info[t].of = NoElem
      BY <1>1 DEF ConnInv, ThreadOK, Connections!Idle
    <2>2. fd_info'[t] = fd_info[t]
      BY <2>1
    <2>3. elem[t] \in Elems \cup {NoElem}
      BY DEF ConnInv, Connections!TypeOK
    <2> QED BY <1>1, <2>2, <2>3 DEF ConnInv, ThreadOK, Stored
  <1>2. CASE fd_info[t].at # "idle" /\ fd_info[t].of = x
    <2>1. fd_info'[t].reused /\ fd_info'[t].at = fd_info[t].at /\ fd_info'[t].of = fd_info[t].of
      BY <1>2 DEF ConnInv, Connections!TypeOK
    <2> QED BY <1>2, <2>1 DEF ConnInv, ThreadOK
  <1>3. CASE fd_info[t].at # "idle" /\ fd_info[t].of # x
    <2>1. fd_info'[t] = fd_info[t] /\ fd_info[t].of \in Elems
      BY <1>3 DEF ConnInv, ThreadOK
    <2>2. tcp_fd_infos'[fd_info[t].of] = tcp_fd_infos[fd_info[t].of]
      BY <1>3, <2>1
    <2>3. (\A u \in Threads : elem[u] # fd_info[t].of) =>
              \A u \in Threads : elem'[u] # fd_info[t].of
      BY <1>3, <2>1 DEF Connections!ConnConstantsOK
    <2> QED BY <1>3, <2>1, <2>2, <2>3 DEF ConnInv, ThreadOK, Stored
  <1> QED BY <1>1, <1>2, <1>3

\* Nor is it by a step of another thread that writes no element and takes none.
LEMMA Untouched ==
  ASSUME Connections!ConnConstantsOK, ConnInv, NEW t \in Threads,
         syscall'[t] = syscall[t], elem'[t] = elem[t], fd_info'[t] = fd_info[t],
         tcp_fd_infos' = tcp_fd_infos,
         \A u \in Threads : elem'[u] \in {elem[u], NoElem}
  PROVE  ThreadOK(t)'
  <1>1. fd_info[t].at # "idle" => fd_info[t].of # NoElem
    BY DEF ConnInv, ThreadOK, Connections!ConnConstantsOK
  <1>2. (\A u \in Threads : elem[u] # fd_info[t].of) /\ fd_info[t].at # "idle" =>
            \A u \in Threads : elem'[u] # fd_info[t].of
    BY <1>1
  <1> QED BY <1>1, <1>2 DEF ConnInv, ThreadOK, Stored

\* The entry of a call: the thread's own element or a free one.
LEMMA ConnEntry ==
  ASSUME Connections!ConnConstantsOK, ConnInv, NEW t \in Threads,
         NEW kind \in {"connect", "accept"}, NEW fd \in Fds,
         Connections!probe_connect(t, kind, fd)
  PROVE  ConnInv'
  <1> DEFINE new == [fd |-> fd, sock |-> NoSock]
             call == [kind |-> kind, fd |-> fd, sock |-> NoSock]
             Put(e) ==
               /\ elem' = [elem EXCEPT ![t] = e]
               /\ tcp_fd_infos' = [tcp_fd_infos EXCEPT ![e] = new]
               /\ fd_info' = [u \in Threads |->
                    IF fd_info[u].of = e THEN [fd_info[u] EXCEPT !.reused = TRUE]
                    ELSE fd_info[u]]
             free == {e \in Elems : \A u \in Threads : elem[u] # e}
  <1>1. /\ syscall[t] = Connections!NoCall
        /\ syscall' = [syscall EXCEPT ![t] = call]
        /\ conn' = Connections!NoEvent
    BY DEF Connections!probe_connect
  <1>2. \/ \E e \in Elems : (e = elem[t] \/ e \in free) /\ Put(e)
        \/ elem[t] = NoElem /\ UNCHANGED <<elem, tcp_fd_infos, fd_info>>
    BY DEF Connections!probe_connect, ConnInv, Connections!TypeOK
  <1>3. syscall[t].kind = "none" /\ fd_info[t] = Connections!Idle /\ fd_info[t].at = "idle"
        /\ fd_info[t].of = NoElem
    <2>1. syscall[t].kind = "none"
      BY <1>1 DEF Connections!NoCall
    <2>2. fd_info[t] = Connections!Idle
      BY <2>1 DEF ConnInv, ThreadOK
    <2> QED BY <2>1, <2>2 DEF Connections!Idle
  <1>4. syscall' \in [Threads -> Connections!Calls]
        /\ syscall'[t] = call
        /\ \A u \in Threads : u # t => syscall'[u] = syscall[u]
    BY <1>1 DEF ConnInv, Connections!TypeOK, Connections!Calls
  <1>5. Connections!ConnectionIsTheCalls'
    BY <1>1 DEF Connections!ConnectionIsTheCalls, Connections!NoEvent
  <1>6. ASSUME NEW e \in Elems, e = elem[t] \/ e \in free, Put(e)
        PROVE  ConnInv'
    <2>1. /\ elem'[t] = e /\ tcp_fd_infos'[e] = new
          /\ \A u \in Threads : u # t => elem'[u] = elem[u] /\ elem[u] # e
          /\ \A d \in Elems : d # e => tcp_fd_infos'[d] = tcp_fd_infos[d]
      BY <1>6 DEF ConnInv, Connections!TypeOK, Connections!ConnConstantsOK
    <2>2. fd_info'[t] = fd_info[t]
      BY <1>3, <1>6 DEF Connections!ConnConstantsOK
    <2>3. ThreadOK(t)'
      BY <1>3, <1>4, <2>1, <2>2 DEF ThreadOK, Stored
    <2>4. ASSUME NEW u \in Threads, u # t PROVE ThreadOK(u)'
      <3>1. fd_info'[u] = IF fd_info[u].of = e THEN [fd_info[u] EXCEPT !.reused = TRUE]
                          ELSE fd_info[u]
        BY <1>6
      <3>2. \A v \in Threads : elem'[v] \in {elem[v], e, NoElem}
        BY <2>1
      <3> QED BY <1>4, <2>1, <2>4, <3>1, <3>2, Undisturbed DEF Connections!ConnConstantsOK
    <2>5. Connections!TypeOK'
      <3>1. new \in Connections!Info
        BY DEF Connections!Info
      <3>2. elem' \in [Threads -> Elems \cup {NoElem}] /\ tcp_fd_infos' \in [Elems -> Connections!Info]
        BY <1>6, <3>1 DEF ConnInv, Connections!TypeOK
      <3>3. fd_info' \in [Threads -> [at : {"idle", "deleted", "loaded"}, of : Elems \cup {NoElem},
                                      sock : Socks \cup {NoSock}, reused : BOOLEAN]]
        <4>1. ASSUME NEW u \in Threads
              PROVE  fd_info[u] \in [at : {"idle", "deleted", "loaded"}, of : Elems \cup {NoElem},
                                     sock : Socks \cup {NoSock}, reused : BOOLEAN]
          BY DEF ConnInv, Connections!TypeOK
        <4>2. ASSUME NEW u \in Threads
              PROVE  [fd_info[u] EXCEPT !.reused = TRUE] \in
                        [at : {"idle", "deleted", "loaded"}, of : Elems \cup {NoElem},
                         sock : Socks \cup {NoSock}, reused : BOOLEAN]
          BY <4>1
        <4>3. fd_info' = [u \in Threads |-> IF fd_info[u].of = e
                                            THEN [fd_info[u] EXCEPT !.reused = TRUE]
                                            ELSE fd_info[u]]
          BY <1>6
        <4> QED BY <4>1, <4>2, <4>3
      <3>4. \A v, u \in Threads : elem'[v] # NoElem /\ elem'[v] = elem'[u] => v = u
        BY <2>1 DEF ConnInv, Connections!TypeOK
      <3> QED BY <1>4, <3>2, <3>3, <3>4 DEF Connections!TypeOK
    <2> QED BY <1>5, <2>3, <2>4, <2>5 DEF ConnInv
  <1>7. CASE elem[t] = NoElem /\ UNCHANGED <<elem, tcp_fd_infos, fd_info>>
    <2>1. ThreadOK(t)'
      BY <1>3, <1>4, <1>7 DEF ThreadOK
    <2>2. \A u \in Threads : u # t => ThreadOK(u)'
      BY <1>4, <1>7, Untouched
    <2>3. Connections!TypeOK'
      BY <1>4, <1>7 DEF ConnInv, Connections!TypeOK
    <2> QED BY <1>5, <2>1, <2>2, <2>3 DEF ConnInv
  <1> QED BY <1>2, <1>6, <1>7

\* The hooks inside the kernel: the socket goes into the thread's element.
LEMMA ConnSock ==
  ASSUME Connections!ConnConstantsOK, ConnInv, NEW t \in Threads, NEW s \in Socks,
         Connections!StoreSock(t, s), fd_info[t] = Connections!Idle,
         \/ syscall' = [syscall EXCEPT ![t].sock = s] /\ syscall[t].kind # "none"
         \/ UNCHANGED syscall /\ syscall[t] = Connections!NoCall
  PROVE  ConnInv'
  <1>1. /\ elem' = elem /\ fd_info' = fd_info /\ conn' = Connections!NoEvent
        /\ tcp_fd_infos' = IF elem[t] = NoElem THEN tcp_fd_infos
                           ELSE [tcp_fd_infos EXCEPT ![elem[t]].sock = s]
    BY DEF Connections!StoreSock
  <1>2. /\ syscall' \in [Threads -> Connections!Calls]
        /\ \A u \in Threads : u # t => syscall'[u] = syscall[u]
        /\ syscall'[t].kind = syscall[t].kind /\ syscall'[t].fd = syscall[t].fd
        /\ syscall[t].kind # "none" => syscall'[t].sock = s
        /\ syscall[t].kind = "none" => syscall'[t] = Connections!NoCall
    BY DEF ConnInv, Connections!TypeOK, Connections!Calls, Connections!NoCall
  <1>3. Connections!ConnectionIsTheCalls'
    BY <1>1 DEF Connections!ConnectionIsTheCalls, Connections!NoEvent
  <1>4. elem[t] \in Elems \cup {NoElem} /\ elem' \in [Threads -> Elems \cup {NoElem}]
    BY <1>1 DEF ConnInv, Connections!TypeOK
  <1>5. /\ tcp_fd_infos' \in [Elems -> Connections!Info]
        /\ elem[t] # NoElem => /\ tcp_fd_infos'[elem[t]].fd = tcp_fd_infos[elem[t]].fd
                               /\ tcp_fd_infos'[elem[t]].sock = s
        /\ \A d \in Elems : d # elem[t] => tcp_fd_infos'[d] = tcp_fd_infos[d]
    BY <1>1, <1>4 DEF ConnInv, Connections!TypeOK, Connections!Info
  <1>6. Connections!TypeOK'
    BY <1>1, <1>2, <1>5 DEF ConnInv, Connections!TypeOK
  <1>7. ThreadOK(t)'
    BY <1>1, <1>2, <1>5 DEF ConnInv, ThreadOK, Stored, Connections!Idle
  <1>8. ASSUME NEW u \in Threads, u # t PROVE ThreadOK(u)'
    <2>1. CASE elem[t] = NoElem
      BY <1>1, <1>2, <1>8, <2>1, Untouched
    <2>2. CASE elem[t] # NoElem
      <3>1. elem[u] # NoElem => elem[u] # elem[t]
        BY <1>8 DEF ConnInv, Connections!TypeOK
      <3>2. CASE fd_info[u].of = elem[t]
        BY <1>1, <1>2, <1>4, <1>5, <1>8, <2>2, <3>1, <3>2 DEF ConnInv, ThreadOK, Stored, Connections!Idle, Connections!TypeOK
      <3>3. CASE fd_info[u].of # elem[t]
        BY <1>1, <1>2, <1>4, <1>5, <1>8, <2>2, <3>1, <3>3, Undisturbed
      <3> QED BY <3>2, <3>3
    <2> QED BY <2>1, <2>2
  <1> QED BY <1>3, <1>6, <1>7, <1>8 DEF ConnInv

\* The return program deletes the entry and keeps the element.
LEMMA ConnDelete ==
  ASSUME Connections!ConnConstantsOK, ConnInv, NEW t \in Threads,
         Connections!lookup_and_delete_fd_info(t)
  PROVE  ConnInv'
  <1>1. /\ syscall[t] # Connections!NoCall /\ fd_info[t] = Connections!Idle
        /\ conn' = Connections!NoEvent /\ tcp_fd_infos' = tcp_fd_infos
        /\ IF elem[t] = NoElem
           THEN /\ syscall' = [syscall EXCEPT ![t] = Connections!NoCall]
                /\ UNCHANGED <<elem, fd_info>>
           ELSE /\ elem' = [elem EXCEPT ![t] = NoElem]
                /\ fd_info' = [fd_info EXCEPT ![t] =
                     [Connections!Idle EXCEPT !.at = "deleted", !.of = elem[t]]]
                /\ UNCHANGED syscall
    BY DEF Connections!lookup_and_delete_fd_info
  <1>2. Connections!ConnectionIsTheCalls'
    BY <1>1 DEF Connections!ConnectionIsTheCalls, Connections!NoEvent
  <1>3. CASE elem[t] = NoElem
    <2>1. Connections!TypeOK'
      BY <1>1, <1>3 DEF ConnInv, Connections!TypeOK, Connections!NoCall, Connections!Calls
    <2>2. ThreadOK(t)'
      BY <1>1, <1>3 DEF ConnInv, ThreadOK, Connections!TypeOK, Connections!NoCall, Connections!Idle
    <2>3. \A u \in Threads : u # t => ThreadOK(u)'
      <3>1. \A u \in Threads : u # t => syscall'[u] = syscall[u]
        BY <1>1, <1>3 DEF ConnInv, Connections!TypeOK
      <3> QED BY <1>1, <1>3, <3>1, Untouched
    <2> QED BY <1>2, <2>1, <2>2, <2>3 DEF ConnInv
  <1>4. CASE elem[t] # NoElem
    <2>a. fd_info' = [fd_info EXCEPT ![t] = [at |-> "deleted", of |-> elem[t],
                                                sock |-> NoSock, reused |-> FALSE]]
      BY <1>1, <1>4 DEF Connections!Idle
    <2>1. /\ elem[t] \in Elems
          /\ fd_info'[t].at = "deleted" /\ fd_info'[t].of = elem[t] /\ ~fd_info'[t].reused
          /\ \A u \in Threads : u # t => fd_info'[u] = fd_info[u]
      BY <1>4, <2>a DEF ConnInv, Connections!TypeOK
    <2>2. /\ elem' \in [Threads -> Elems \cup {NoElem}] /\ elem'[t] = NoElem
          /\ \A u \in Threads : u # t => elem'[u] = elem[u]
      BY <1>1, <1>4 DEF ConnInv, Connections!TypeOK
    <2>3. Connections!TypeOK'
      <3>1. fd_info' \in [Threads -> [at : {"idle", "deleted", "loaded"}, of : Elems \cup {NoElem},
                                      sock : Socks \cup {NoSock}, reused : BOOLEAN]]
        BY <2>1, <2>a DEF ConnInv, Connections!TypeOK
      <3> QED BY <1>1, <1>4, <2>2, <3>1 DEF ConnInv, Connections!TypeOK
    <2>4. ThreadOK(t)'
      <3>1. syscall[t].kind # "none" /\ Stored(t, elem[t])
        BY <1>1, <1>4 DEF ConnInv, ThreadOK, Connections!Idle
      <3>2. \A u \in Threads : elem'[u] # elem[t]
        BY <1>4, <2>1, <2>2 DEF ConnInv, Connections!TypeOK
      <3> QED BY <1>1, <1>4, <2>1, <3>1, <3>2 DEF ThreadOK, Stored
    <2>5. \A u \in Threads : u # t => ThreadOK(u)'
      BY <1>1, <1>4, <2>1, <2>2, Untouched
    <2> QED BY <1>2, <2>3, <2>4, <2>5 DEF ConnInv
  <1> QED BY <1>3, <1>4

\* The return program of t ends, or the call returns without one.
LEMMA ConnEnd ==
  ASSUME Connections!ConnConstantsOK, ConnInv, NEW t \in Threads,
         syscall' = [syscall EXCEPT ![t] = Connections!NoCall],
         fd_info' = [fd_info EXCEPT ![t] = Connections!Idle],
         UNCHANGED <<elem, tcp_fd_infos>>,
         Connections!ConnectionIsTheCalls'
  PROVE  ConnInv'
  <1>1. Connections!TypeOK'
    BY DEF ConnInv, Connections!TypeOK, Connections!NoCall, Connections!Calls, Connections!Idle
  <1>2. ThreadOK(t)'
    BY DEF ConnInv, ThreadOK, Connections!TypeOK, Connections!NoCall, Connections!Idle
  <1>3. \A u \in Threads : u # t => ThreadOK(u)'
    BY Untouched DEF ConnInv, Connections!TypeOK
  <1> QED BY <1>1, <1>2, <1>3 DEF ConnInv

\* The return program reads the socket of the element it has deleted.
LEMMA ConnLoad ==
  ASSUME Connections!ConnConstantsOK, ConnInv, NEW t \in Threads, Connections!LoadSock(t)
  PROVE  ConnInv'
  <1> DEFINE sock == tcp_fd_infos[fd_info[t].of].sock
  <1>1. Connections!ConnectionIsTheCalls'
    BY DEF Connections!LoadSock, Connections!ConnectionIsTheCalls, Connections!NoEvent
  <1>2. CASE sock = NoSock
    BY <1>1, <1>2, ConnEnd DEF Connections!LoadSock
  <1>3. CASE sock # NoSock
    <2>1. /\ fd_info[t].at = "deleted"
          /\ fd_info' = [fd_info EXCEPT ![t].at = "loaded", ![t].sock = sock]
          /\ UNCHANGED <<syscall, elem, tcp_fd_infos>>
      BY <1>3 DEF Connections!LoadSock
    <2>2. fd_info[t].of \in Elems
      BY <2>1 DEF ConnInv, ThreadOK
    <2>3. sock \in Socks \cup {NoSock}
      BY <2>2 DEF ConnInv, Connections!TypeOK, Connections!Info
    <2>4. /\ fd_info'[t].at = "loaded" /\ fd_info'[t].sock = sock
          /\ fd_info'[t].of = fd_info[t].of /\ fd_info'[t].reused = fd_info[t].reused
          /\ \A u \in Threads : u # t => fd_info'[u] = fd_info[u]
      BY <2>1 DEF ConnInv, Connections!TypeOK
    <2>5. Connections!TypeOK'
      <3>1. fd_info[t] \in [at : {"idle", "deleted", "loaded"}, of : Elems \cup {NoElem},
                            sock : Socks \cup {NoSock}, reused : BOOLEAN]
        BY DEF ConnInv, Connections!TypeOK
      <3> HIDE DEF sock
      <3>a. [fd_info[t] EXCEPT !.at = "loaded", !.sock = sock] \in
               [at : {"idle", "deleted", "loaded"}, of : Elems \cup {NoElem},
                sock : Socks \cup {NoSock}, reused : BOOLEAN]
        BY <2>3, <3>1
      <3>b. fd_info' = [fd_info EXCEPT ![t] = [fd_info[t] EXCEPT !.at = "loaded", !.sock = sock]]
        BY <2>1 DEF ConnInv, Connections!TypeOK
      <3>2. fd_info' \in [Threads -> [at : {"idle", "deleted", "loaded"}, of : Elems \cup {NoElem},
                                      sock : Socks \cup {NoSock}, reused : BOOLEAN]]
        BY <3>a, <3>b DEF ConnInv, Connections!TypeOK
      <3> QED BY <2>1, <3>2 DEF ConnInv, Connections!TypeOK
    <2>6. ThreadOK(t)'
      <3>1. ThreadOK(t)
        BY DEF ConnInv
      <3> QED BY <2>1, <2>2, <2>4, <3>1 DEF ThreadOK, Stored
    <2>7. \A u \in Threads : u # t => ThreadOK(u)'
      BY <2>1, <2>4, Untouched
    <2> QED BY <1>1, <2>5, <2>6, <2>7 DEF ConnInv
  <1> QED BY <1>2, <1>3

\* The return program reads the descriptor and sends the event.
LEMMA ConnReport ==
  ASSUME Connections!ConnConstantsOK, ConnInv, NEW t \in Threads, Connections!kretprobe_connect(t)
  PROVE  ConnInv'
  <1>1. Connections!ConnectionIsTheCalls'
    <2>1. CASE conn' = Connections!NoEvent
      BY <2>1 DEF Connections!ConnectionIsTheCalls, Connections!NoEvent
    <2>2. CASE conn' = [kind |-> syscall[t].kind, call |-> syscall[t],
                        sock |-> fd_info[t].sock, reused |-> fd_info[t].reused,
                        fd |-> IF syscall[t].kind = "connect"
                               THEN tcp_fd_infos[fd_info[t].of].fd ELSE syscall[t].fd]
      <3>1. fd_info[t].at = "loaded"
        BY DEF Connections!kretprobe_connect
      <3>2. ~fd_info[t].reused => /\ fd_info[t].sock = syscall[t].sock
                                  /\ tcp_fd_infos[fd_info[t].of].fd = syscall[t].fd
        BY <3>1 DEF ConnInv, ThreadOK
      <3> QED BY <2>2, <3>2 DEF Connections!ConnectionIsTheCalls
    <2> QED BY <2>1, <2>2 DEF Connections!kretprobe_connect
  <1> QED BY <1>1, ConnEnd DEF Connections!kretprobe_connect

\* Every step of ConnTrack keeps its invariant.
LEMMA ConnStep ==
  ASSUME Connections!ConnConstantsOK, ConnInv, [Connections!Next]_connVars
  PROVE  ConnInv'
  <1>1. ASSUME NEW t \in Threads, NEW s \in Socks, Connections!probe_inet_stream_connect(t, s)
        PROVE  ConnInv'
    BY <1>1, ConnSock DEF Connections!probe_inet_stream_connect
  <1>2. ASSUME NEW t \in Threads, NEW s \in Socks, Connections!probe_inet_accept(t, s)
        PROVE  ConnInv'
    BY <1>2, ConnSock DEF Connections!probe_inet_accept
  <1>3. ASSUME NEW t \in Threads, NEW s \in Socks, Connections!kernel_connect(t, s)
        PROVE  ConnInv'
    <2>1. fd_info[t] = Connections!Idle
      BY <1>3 DEF Connections!kernel_connect, ConnInv, ThreadOK, Connections!NoCall
    <2> QED BY <1>3, <2>1, ConnSock DEF Connections!kernel_connect
  <1>4. ASSUME NEW t \in Threads, Connections!ReturnUnseen(t)
        PROVE  ConnInv'
    <2>1. Connections!ConnectionIsTheCalls'
      BY <1>4 DEF Connections!ReturnUnseen, Connections!ConnectionIsTheCalls, Connections!NoEvent
    <2>2. fd_info' = [fd_info EXCEPT ![t] = Connections!Idle]
      BY <1>4 DEF Connections!ReturnUnseen, ConnInv, Connections!TypeOK
    <2> QED BY <1>4, <2>1, <2>2, ConnEnd DEF Connections!ReturnUnseen
  <1>5. ASSUME NEW s \in Socks, Connections!probe_tcp_v4_destroy_sock(s)
        PROVE  ConnInv'
    <2>1. Connections!ConnectionIsTheCalls'
      BY <1>5 DEF Connections!probe_tcp_v4_destroy_sock, Connections!ConnectionIsTheCalls
    <2> QED BY <1>5, <2>1 DEF Connections!probe_tcp_v4_destroy_sock, ConnInv, Connections!TypeOK,
                              ThreadOK, Stored
  <1>6. CASE UNCHANGED connVars
    BY <1>6 DEF connVars, ConnInv, Connections!TypeOK, ThreadOK, Stored,
                Connections!ConnectionIsTheCalls
  <1> QED BY <1>1, <1>2, <1>3, <1>4, <1>5, <1>6, ConnEntry, ConnDelete, ConnLoad, ConnReport
          DEF Connections!Next

\* No thread is in a call.
LEMMA ConnInit == ASSUME Connections!Init PROVE ConnInv
  BY DEF Connections!Init, ConnInv, Connections!TypeOK, ThreadOK, Connections!NoCall,
         Connections!Idle, Connections!Calls, Connections!Info, Connections!NoEvent,
         Connections!ConnectionIsTheCalls

\* The event of connect() or accept() has the socket and the descriptor of the call
\* that returned, unless another thread got the element that the return program
\* reads after it has deleted it; for any number of threads and elements.
THEOREM ConnectionsAreTheCalls ==
  ASSUME Connections!ConnConstantsOK
  PROVE  ProgramsSpec => []ConnectionIsTheCalls
  <1>1. ProgramsInit => ConnInv
    BY ConnInit DEF ProgramsInit
  <1>2. ConnInv /\ [ProgramsNext]_programsVars => ConnInv'
    BY ConnSteps, ConnStep
  <1>3. ConnInv => ConnectionIsTheCalls
    BY DEF ConnInv, ConnectionIsTheCalls
  <1> QED BY <1>1, <1>2, <1>3, PTL DEF ProgramsSpec

-----------------------------------------------------------------------------
(***************************************************************************)
(* ShellTrace.                                                             *)
(***************************************************************************)

\* A step of Programs is one of ShellTrace or leaves it alone.
LEMMA ShellSteps == [ProgramsNext]_programsVars => [Shell!Next]_shellVars
  BY DEF ProgramsNext, programsVars, shellVars

\* What is in the elements of events_t, and what the rings hold.
ShellEvents(types, pids) ==
    [type : types, pid : pids, line : Nat, retval : Statuses \cup {0, Shell!BASH_ERRNO_DEFAULT}]
ElemEvents == ShellEvents({"none", "readline", "retval"}, Shells \cup {NoElem})
SentEvents == ShellEvents({"readline", "retval", "exit"}, Shells)
RingEvents ==
    [cpu : Cpus, data : SentEvents, due : Seq(Nat)]

\* The types of the variables of ShellTrace.
ShellType ==
    /\ nlines \in Nat
    /\ slot \in [Shells -> Elems \cup {NoElem}]
    /\ events_t \in [Elems -> ElemEvents]
    /\ sending \in [Shells -> {Shell!Idle} \cup [of : Elems, due : Seq(Nat)]]
    /\ rings \in Seq(RingEvents)
    /\ lineMap \in [Shells -> Seq(Nat)]
    /\ due \in [Shells -> Seq(Nat)]
    /\ upset \subseteq {"lost", "overtaken", "reused"}
    /\ \A a \in shown : a.lines \in Seq(Nat)

\* An element that is a shell's has an event of that shell, and so has one that is
\* being sent, which is nobody's, unless it was reused.
ShellElements ==
    /\ \A s, u \in Shells : slot[s] = slot[u] /\ slot[s] # NoElem => s = u
    /\ \A s \in Shells : slot[s] # NoElem =>
          events_t[slot[s]].pid = s /\ events_t[slot[s]].type # "none"
    /\ \A s \in Shells : sending[s] # Shell!Idle =>
          events_t[sending[s].of].pid \in Shells /\ events_t[sending[s].of].type # "none"
    /\ "reused" \notin upset => \A s \in Shells : sending[s] # Shell!Idle =>
          /\ events_t[sending[s].of].type = "retval" /\ events_t[sending[s].of].pid = s
          /\ \A u \in Shells : slot[u] # sending[s].of

\* The line n is in a ring, collected for the shell s, or shown in the command a.
ReadAt(i) == rings[i].data.type = "readline"
InRing(n) == \E i \in 1 .. Len(rings) : ReadAt(i) /\ rings[i].data.line = n
InMap(s, n) == \E x \in DOMAIN lineMap[s] : lineMap[s][x] = n
InShown(a, n) == \E x \in DOMAIN a.lines : a.lines[x] = n

\* A line is in one of these places.
LinesApart ==
    /\ \A i, j \in 1 .. Len(rings) :
          ReadAt(i) /\ ReadAt(j) /\ rings[i].data.line = rings[j].data.line => i = j
    /\ \A n \in Nat : InRing(n) => n <= nlines
    /\ \A n \in Nat, s \in Shells : InMap(s, n) => n <= nlines /\ ~InRing(n)
    /\ \A n \in Nat, s, u \in Shells : InMap(s, n) /\ InMap(u, n) => u = s
    /\ \A n \in Nat, a \in shown : InShown(a, n) => n <= nlines /\ ~InRing(n)
    /\ \A n \in Nat, a \in shown, s \in Shells : InShown(a, n) => ~InMap(s, n)
    /\ \A n \in Nat, a, b \in shown : InShown(a, n) /\ InShown(b, n) => b = a

\* The inductive invariant of ShellTrace.
ShellInv ==
    /\ ShellType
    /\ ShellElements
    /\ "reused" \notin upset => LinesApart

\* The initial state.
LEMMA ShellInit == ASSUME Shell!Init PROVE ShellInv
  <1>1. ShellType
    BY DEF Shell!Init, ShellType, Shell!Blank, Shell!Idle, ShellEvents, ElemEvents
  <1>2. ShellElements
    BY DEF Shell!Init, ShellElements
  <1>3. LinesApart
    BY DEF Shell!Init, LinesApart, InRing, InMap
  <1> QED BY <1>1, <1>2, <1>3 DEF ShellInv

\* What a send does: the event is the last one of the rings, or it is lost.
LEMMA SendEffect ==
  ASSUME ShellType, NEW c \in Cpus, NEW e, NEW lines \in Seq(Nat), NEW mishaps,
         e \in SentEvents,
         mishaps \subseteq {"reused"}, Shell!Send(c, e, lines, mishaps)
  PROVE  /\ rings' \in Seq(RingEvents)
         /\ upset' \subseteq {"lost", "overtaken", "reused"}
         /\ upset \subseteq upset' /\ mishaps \subseteq upset'
         /\ \/ rings' = rings /\ "lost" \in upset'
            \/ rings' = Append(rings, [cpu |-> c, data |-> e, due |-> lines])
  <1> DEFINE r == [cpu |-> c, data |-> e, due |-> lines]
  <1>1. r \in RingEvents
    BY DEF RingEvents
  <1>2. rings \in Seq(RingEvents)
    BY DEF ShellType
  <1>3. Append(rings, r) \in Seq(RingEvents)
    BY <1>1, <1>2, AppendProperties
  <1>4. upset \subseteq {"lost", "overtaken", "reused"}
    BY DEF ShellType
  <1>5. \/ rings' = Append(rings, r) /\ upset' = upset \cup mishaps
        \/ rings' = rings /\ upset' = upset \cup mishaps \cup {"lost"}
    BY DEF Shell!Send
  <1> HIDE DEF r
  <1>6. rings' \in Seq(RingEvents)
    BY <1>2, <1>3, <1>5
  <1>7. upset' \subseteq {"lost", "overtaken", "reused"} /\ upset \subseteq upset'
        /\ mishaps \subseteq upset'
    BY <1>4, <1>5
  <1>8. (rings' = rings /\ "lost" \in upset') \/ rings' = Append(rings, r)
    BY <1>5
  <1> QED BY <1>6, <1>7, <1>8 DEF r

\* What RemoveAt() leaves.
LEMMA RemoveEffect ==
  ASSUME ShellType, NEW i \in 1 .. Len(rings)
  PROVE  LET r == Shell!RemoveAt(rings, i)
         IN  /\ r \in Seq(RingEvents) /\ Len(r) = Len(rings) - 1
             /\ \A k \in 1 .. Len(rings) - 1 : r[k] = IF k < i THEN rings[k] ELSE rings[k + 1]
  <1> DEFINE n == Len(rings)
             a == SubSeq(rings, 1, i - 1)
             b == SubSeq(rings, i + 1, n)
  <1>1. rings \in Seq(RingEvents) /\ n \in Nat /\ \A k \in 1 .. n : rings[k] \in RingEvents
    BY LenProperties, ElementOfSeq DEF ShellType
  <1>2. /\ a \in Seq(RingEvents) /\ Len(a) = i - 1
        /\ \A k \in 1 .. i - 1 : a[k] = rings[k]
    <2>1. /\ a \in Seq(RingEvents) /\ Len(a) = (IF 1 <= i - 1 THEN i - 1 - 1 + 1 ELSE 0)
          /\ \A k \in 1 .. i - 1 - 1 + 1 : a[k] = rings[1 + k - 1]
      <3>1. \A k \in 1 .. i - 1 : rings[k] \in RingEvents
        BY <1>1
      <3> QED BY <1>1, <3>1, SubSeqProperties
    <2> QED BY <1>1, <2>1
  <1>3. /\ b \in Seq(RingEvents) /\ Len(b) = n - i
        /\ \A k \in 1 .. n - i : b[k] = rings[i + k]
    <2>1. /\ b \in Seq(RingEvents) /\ Len(b) = (IF i + 1 <= n THEN n - (i + 1) + 1 ELSE 0)
          /\ \A k \in 1 .. n - (i + 1) + 1 : b[k] = rings[i + 1 + k - 1]
      <3>1. \A k \in i + 1 .. n : rings[k] \in RingEvents
        BY <1>1
      <3> QED BY <1>1, <3>1, SubSeqProperties
    <2> QED BY <1>1, <2>1
  <1>4. Shell!RemoveAt(rings, i) = a \o b
    BY DEF Shell!RemoveAt
  <1> HIDE DEF a, b
  <1>5. /\ a \o b \in Seq(RingEvents) /\ Len(a \o b) = Len(a) + Len(b)
        /\ \A k \in 1 .. Len(a) + Len(b) : (a \o b)[k] = IF k <= Len(a) THEN a[k] ELSE b[k - Len(a)]
    BY <1>2, <1>3, ConcatProperties
  <1> HIDE DEF n
  <1>6. i \in 1 .. n
    BY DEF n
  <1>7. Len(a \o b) = n - 1
    BY <1>1, <1>2, <1>3, <1>5, <1>6
  <1>8. ASSUME NEW k \in 1 .. n - 1 PROVE (a \o b)[k] = IF k < i THEN rings[k] ELSE rings[k + 1]
    <2>1. CASE k < i
      <3>1. k \in 1 .. Len(a) + Len(b) /\ k <= Len(a) /\ k \in 1 .. i - 1
        BY <1>1, <1>2, <1>3, <1>6, <2>1
      <3> QED BY <1>2, <1>5, <2>1, <3>1
    <2>2. CASE ~(k < i)
      <3>1. k \in 1 .. Len(a) + Len(b) /\ ~(k <= Len(a)) /\ k - Len(a) \in 1 .. n - i
            /\ i + (k - Len(a)) = k + 1
        BY <1>1, <1>2, <1>3, <1>6, <2>2
      <3>2. (a \o b)[k] = b[k - Len(a)]
        BY <1>5, <3>1
      <3> QED BY <1>3, <2>2, <3>1, <3>2
    <2> QED BY <2>1, <2>2
  <1> QED BY <1>4, <1>5, <1>7, <1>8 DEF n

-----------------------------------------------------------------------------
\* r is the last event of the rings, or it is lost.
Sends(r) == rings' = rings \/ rings' = Append(rings, r)

\* The lines stay apart when an event is sent: that of readline() has a new line.
LEMMA ApartSend ==
  ASSUME ShellType, LinesApart, NEW r \in RingEvents, Sends(r), UNCHANGED <<lineMap, shown>>,
         nlines' \in {nlines, nlines + 1},
         r.data.type = "readline" => r.data.line = nlines + 1 /\ nlines' = nlines + 1
  PROVE  LinesApart'
  <1> DEFINE n == Len(rings)
             m == Len(rings')
  <1>1. rings \in Seq(RingEvents) /\ n \in Nat /\ nlines \in Nat
    BY LenProperties DEF ShellType
  <1>2. \A i \in 1 .. m : \/ i \in 1 .. n /\ rings'[i] = rings[i]
                          \/ i = n + 1 /\ rings'[i] = r
    <2>1. CASE rings' = rings
      BY <2>1
    <2>2. CASE rings' = Append(rings, r)
      <3>1. /\ m = n + 1 /\ rings'[n + 1] = r
            /\ \A i \in 1 .. n : rings'[i] = rings[i]
        BY <1>1, <2>2, AppendProperties
      <3>2. \A i \in 1 .. n + 1 : i \in 1 .. n \/ i = n + 1
        BY <1>1
      <3> QED BY <3>1, <3>2
    <2> QED BY <2>1, <2>2 DEF Sends
  <1>3. \A i \in 1 .. n : rings[i].data.line \in Nat
    <2> SUFFICES ASSUME NEW i \in 1 .. n PROVE rings[i].data.line \in Nat
      OBVIOUS
    <2>1. rings[i] \in RingEvents
      BY <1>1, ElementOfSeq
    <2>2. rings[i].data \in SentEvents
      BY <2>1 DEF RingEvents
    <2> QED BY <2>2 DEF SentEvents, ShellEvents
  <1>s. /\ \A i, j \in 1 .. n :
              ReadAt(i) /\ ReadAt(j) /\ rings[i].data.line = rings[j].data.line => i = j
        /\ \A k \in Nat : InRing(k) => k <= nlines
        /\ \A k \in Nat, s \in Shells : InMap(s, k) => k <= nlines /\ ~InRing(k)
        /\ \A k \in Nat, a \in shown : InShown(a, k) => k <= nlines /\ ~InRing(k)
    BY DEF LinesApart
  <1>4. \A i \in 1 .. n : ReadAt(i) => rings[i].data.line <= nlines
    BY <1>3, <1>s DEF InRing
  <1> HIDE DEF n, m
  <1>5. \A i \in 1 .. m : ReadAt(i)' =>
           \/ i \in 1 .. n /\ rings'[i] = rings[i] /\ ReadAt(i)
           \/ /\ i = n + 1 /\ rings'[i] = r
              /\ rings'[i].data.line = nlines + 1 /\ nlines' = nlines + 1
    BY <1>2 DEF ReadAt
  <1>6. \A k \in Nat : InRing(k)' => InRing(k) \/ (k = nlines + 1 /\ nlines' = nlines + 1)
    BY <1>5 DEF InRing, n, m
  <1>7. \A k \in Nat, s \in Shells : InMap(s, k)' <=> InMap(s, k)
    BY DEF InMap
  <1>8. \A i, j \in 1 .. m :
           ReadAt(i)' /\ ReadAt(j)' /\ rings'[i].data.line = rings'[j].data.line => i = j
    <2> SUFFICES ASSUME NEW i \in 1 .. m, NEW j \in 1 .. m, ReadAt(i)', ReadAt(j)',
                        rings'[i].data.line = rings'[j].data.line
                 PROVE  i = j
      OBVIOUS
    <2>1. \A k \in 1 .. n : ReadAt(k) => rings[k].data.line # nlines + 1
      BY <1>1, <1>3, <1>4
    <2> QED BY <1>5, <1>s, <2>1
  <1>9. nlines' \in Nat /\ nlines <= nlines' /\ nlines + 1 > nlines
    BY <1>1
  <1>10. \A k \in Nat : InRing(k)' => k <= nlines'
    BY <1>1, <1>6, <1>9, <1>s
  <1>11. \A k \in Nat, s \in Shells : InMap(s, k)' => k <= nlines' /\ ~InRing(k)'
    BY <1>1, <1>6, <1>7, <1>9, <1>s
  <1>12. \A k \in Nat, a \in shown : InShown(a, k) => k <= nlines' /\ ~InRing(k)'
    BY <1>1, <1>6, <1>9, <1>s
  <1>13. /\ \A k \in Nat, s, u \in Shells : InMap(s, k)' /\ InMap(u, k)' => u = s
         /\ \A k \in Nat, a \in shown, s \in Shells : InShown(a, k) => ~InMap(s, k)'
         /\ \A k \in Nat, a, b \in shown : InShown(a, k) /\ InShown(b, k) => b = a
    BY <1>7 DEF LinesApart
  <1>14. \A a, k : InShown(a, k)' <=> InShown(a, k)
    BY DEF InShown
  <1>15. shown' = shown
    OBVIOUS
  <1> QED BY <1>8, <1>10, <1>11, <1>12, <1>13, <1>14, <1>15 DEF LinesApart, m

\* Without the i-th event a ring has one line less.
LEMMA RingRemoved ==
  ASSUME ShellType, LinesApart, NEW i \in 1 .. Len(rings), rings' = Shell!RemoveAt(rings, i)
  PROVE  /\ \A k, j \in 1 .. Len(rings') :
               ReadAt(k)' /\ ReadAt(j)' /\ rings'[k].data.line = rings'[j].data.line => k = j
         /\ \A x \in Nat : InRing(x)' => InRing(x) /\ (ReadAt(i) => x # rings[i].data.line)
  <1> DEFINE n == Len(rings)
             old(k) == IF k < i THEN k ELSE k + 1
  <1>1. n \in Nat /\ i \in 1 .. n
    BY LenProperties DEF ShellType
  <1>2. /\ Len(rings') = n - 1
        /\ \A k \in 1 .. n - 1 : rings'[k] = IF k < i THEN rings[k] ELSE rings[k + 1]
    BY RemoveEffect
  <1>s. \A k, j \in 1 .. n :
           ReadAt(k) /\ ReadAt(j) /\ rings[k].data.line = rings[j].data.line => k = j
    BY DEF LinesApart
  <1> HIDE DEF n
  <1>3. /\ \A k \in 1 .. n - 1 : old(k) \in 1 .. n /\ old(k) # i
        /\ \A k, j \in 1 .. n - 1 : old(k) = old(j) => k = j
    BY <1>1
  <1>4. \A k \in 1 .. n - 1 : rings'[k] = rings[old(k)]
    BY <1>2
  <1> HIDE DEF old
  <1>5. \A k \in 1 .. n - 1 : ReadAt(k)' <=> ReadAt(old(k))
    BY <1>4 DEF ReadAt
  <1>6. \A k, j \in 1 .. n - 1 :
           ReadAt(k)' /\ ReadAt(j)' /\ rings'[k].data.line = rings'[j].data.line => k = j
    BY <1>3, <1>4, <1>5, <1>s
  <1>7. ASSUME NEW x \in Nat, InRing(x)'
        PROVE  InRing(x) /\ (ReadAt(i) => x # rings[i].data.line)
    <2>1. PICK k \in 1 .. n - 1 : ReadAt(k)' /\ rings'[k].data.line = x
      BY <1>2, <1>7 DEF InRing
    <2>2. old(k) \in 1 .. n /\ old(k) # i /\ ReadAt(old(k)) /\ rings[old(k)].data.line = x
      BY <1>3, <1>4, <1>5, <2>1
    <2>3. InRing(x)
      BY <2>2 DEF InRing, n
    <2> QED BY <1>1, <1>s, <2>2, <2>3
  <1> QED BY <1>2, <1>6, <1>7

\* The line l is collected for the shell s.
Collects(s, l) == lineMap' = [lineMap EXCEPT ![s] = Append(@, l)]

\* The lines stay apart when one moves from a ring to the lines collected.
LEMMA ApartCollect ==
  ASSUME ShellType, LinesApart, NEW i \in 1 .. Len(rings), NEW s \in Shells, NEW l \in Nat,
         ReadAt(i), l = rings[i].data.line, rings' = Shell!RemoveAt(rings, i), Collects(s, l),
         UNCHANGED <<nlines, shown>>
  PROVE  LinesApart'
  <1>1. /\ \A k, j \in 1 .. Len(rings') :
               ReadAt(k)' /\ ReadAt(j)' /\ rings'[k].data.line = rings'[j].data.line => k = j
        /\ \A x \in Nat : InRing(x)' => InRing(x) /\ x # l
    BY RingRemoved
  <1>2. InRing(l)
    BY DEF InRing
  <1>3. \A u \in Shells, x \in Nat : InMap(u, x)' => InMap(u, x) \/ (u = s /\ x = l)
    <2> SUFFICES ASSUME NEW u \in Shells, NEW x \in Nat, InMap(u, x)'
                 PROVE  InMap(u, x) \/ (u = s /\ x = l)
      OBVIOUS
    <2>1. PICK y \in DOMAIN lineMap'[u] : lineMap'[u][y] = x
      BY DEF InMap
    <2>2. lineMap \in [Shells -> Seq(Nat)]
      BY DEF ShellType
    <2>3. CASE u # s
      <3>1. lineMap'[u] = lineMap[u]
        BY <2>2, <2>3 DEF Collects
      <3> QED BY <2>1, <3>1 DEF InMap
    <2>4. CASE u = s
      <3>1. lineMap'[u] = Append(lineMap[u], l) /\ lineMap[u] \in Seq(Nat)
        BY <2>2, <2>4 DEF Collects
      <3>2. PICK q \in Seq(Nat) : q = lineMap[u]
        BY <3>1
      <3>3. /\ DOMAIN Append(q, l) = 1 .. Len(q) + 1 /\ DOMAIN q = 1 .. Len(q) /\ Len(q) \in Nat
            /\ Append(q, l)[Len(q) + 1] = l
            /\ \A z \in 1 .. Len(q) : Append(q, l)[z] = q[z]
        BY AppendProperties, LenProperties
      <3>4. y \in 1 .. Len(q) \/ y = Len(q) + 1
        BY <2>1, <3>1, <3>2, <3>3
      <3>5. CASE y \in 1 .. Len(q)
        BY <2>1, <3>1, <3>2, <3>3, <3>5 DEF InMap
      <3>6. CASE y = Len(q) + 1
        BY <2>1, <2>4, <3>1, <3>2, <3>3, <3>6
      <3> QED BY <3>4, <3>5, <3>6
    <2> QED BY <2>3, <2>4
  <1>4. nlines' = nlines /\ shown' = shown
    OBVIOUS
  <1>5. \A a, k : InShown(a, k)' <=> InShown(a, k)
    BY DEF InShown
  <1>s. /\ \A n \in Nat : InRing(n) => n <= nlines
        /\ \A n \in Nat, u \in Shells : InMap(u, n) => n <= nlines /\ ~InRing(n)
        /\ \A n \in Nat, t, u \in Shells : InMap(t, n) /\ InMap(u, n) => u = t
        /\ \A n \in Nat, a \in shown : InShown(a, n) => n <= nlines /\ ~InRing(n)
        /\ \A n \in Nat, a \in shown, u \in Shells : InShown(a, n) => ~InMap(u, n)
        /\ \A n \in Nat, a, b \in shown : InShown(a, n) /\ InShown(b, n) => b = a
    BY DEF LinesApart
  <1>6. \A n \in Nat : InRing(n)' => n <= nlines
    BY <1>1, <1>s
  <1>7. \A n \in Nat, u \in Shells : InMap(u, n)' => n <= nlines /\ ~InRing(n)'
    BY <1>1, <1>2, <1>3, <1>s
  <1>8. \A n \in Nat, t, u \in Shells : InMap(t, n)' /\ InMap(u, n)' => u = t
    BY <1>2, <1>3, <1>s
  <1>9. \A n \in Nat, a \in shown : InShown(a, n) => n <= nlines /\ ~InRing(n)'
    BY <1>1, <1>s
  <1>10. \A n \in Nat, a \in shown, u \in Shells : InShown(a, n) => ~InMap(u, n)'
    BY <1>2, <1>3, <1>s
  <1> QED BY <1>1, <1>4, <1>5, <1>6, <1>7, <1>8, <1>9, <1>10, <1>s DEF LinesApart

\* The lines of the shell s are shown in the command a, or not shown at all.
Shows(s, a) ==
    /\ lineMap' = [lineMap EXCEPT ![s] = <<>>]
    /\ shown' = shown \/ shown' = shown \cup {a}

\* The lines stay apart when those collected are shown.
LEMMA ApartShow ==
  ASSUME ShellType, LinesApart, NEW i \in 1 .. Len(rings), NEW s \in Shells, NEW a,
         a.lines = lineMap[s], rings' = Shell!RemoveAt(rings, i), Shows(s, a), nlines' = nlines
  PROVE  LinesApart'
  <1>1. /\ \A k, j \in 1 .. Len(rings') :
               ReadAt(k)' /\ ReadAt(j)' /\ rings'[k].data.line = rings'[j].data.line => k = j
        /\ \A x \in Nat : InRing(x)' => InRing(x)
    BY RingRemoved
  <1>2. \A x \in Nat : InShown(a, x) => InMap(s, x)
    BY DEF InShown, InMap
  <1>3. \A u \in Shells, x \in Nat : InMap(u, x)' => InMap(u, x) /\ u # s
    <2>1. \A u \in Shells : lineMap'[u] = IF u = s THEN <<>> ELSE lineMap[u]
      BY DEF ShellType, Shows
    <2> QED BY <2>1 DEF InMap
  <1>4. \A b \in shown' : b \in shown \/ b = a
    BY DEF Shows
  <1>5. \A b, k : InShown(b, k)' <=> InShown(b, k)
    BY DEF InShown
  <1>s. /\ \A n \in Nat : InRing(n) => n <= nlines
        /\ \A n \in Nat, u \in Shells : InMap(u, n) => n <= nlines /\ ~InRing(n)
        /\ \A n \in Nat, t, u \in Shells : InMap(t, n) /\ InMap(u, n) => u = t
        /\ \A n \in Nat, b \in shown : InShown(b, n) => n <= nlines /\ ~InRing(n)
        /\ \A n \in Nat, b \in shown, u \in Shells : InShown(b, n) => ~InMap(u, n)
        /\ \A n \in Nat, b, c \in shown : InShown(b, n) /\ InShown(c, n) => c = b
    BY DEF LinesApart
  <1>6. \A n \in Nat : InRing(n)' => n <= nlines
    BY <1>1, <1>s
  <1>7. \A n \in Nat, u \in Shells : InMap(u, n)' => n <= nlines /\ ~InRing(n)'
    BY <1>1, <1>3, <1>s
  <1>8. \A n \in Nat, t, u \in Shells : InMap(t, n)' /\ InMap(u, n)' => u = t
    BY <1>3, <1>s
  <1>9. \A n \in Nat, b \in shown' : InShown(b, n) => n <= nlines /\ ~InRing(n)'
    BY <1>1, <1>2, <1>4, <1>s
  <1>10. \A n \in Nat, b \in shown', u \in Shells : InShown(b, n) => ~InMap(u, n)'
    BY <1>2, <1>3, <1>4, <1>s
  <1>11. \A n \in Nat, b, c \in shown' : InShown(b, n) /\ InShown(c, n) => c = b
    BY <1>2, <1>4, <1>s
  <1>12. nlines' = nlines
    OBVIOUS
  <1> QED BY <1>1, <1>5, <1>6, <1>7, <1>8, <1>9, <1>10, <1>11, <1>12 DEF LinesApart

-----------------------------------------------------------------------------
\* Nothing but a mishap happens to the elements.
LEMMA ElementsStay ==
  ASSUME ShellElements, UNCHANGED <<slot, events_t, sending>>, upset \subseteq upset'
  PROVE  ShellElements'
  BY DEF ShellElements

\* What execute_command() stores in the element of the shell s.
Stores(s, v) ==
    events_t' = [events_t EXCEPT ![slot[s]].type = "retval", ![slot[s]].retval = v]

\* It is an event of s, and the other elements stay.
LEMMA RetvalStored ==
  ASSUME ShellType, ShellElements, NEW s \in Shells, slot[s] # NoElem,
         NEW v \in Statuses \cup {0, Shell!BASH_ERRNO_DEFAULT}, Stores(s, v)
  PROVE  /\ slot[s] \in Elems
         /\ events_t' \in [Elems -> ElemEvents]
         /\ events_t'[slot[s]] \in SentEvents
         /\ events_t'[slot[s]].pid = s /\ events_t'[slot[s]].type = "retval"
         /\ \A e \in Elems : e # slot[s] => events_t'[e] = events_t[e]
  <1> DEFINE new == [events_t[slot[s]] EXCEPT !.type = "retval", !.retval = v]
  <1>1. slot[s] \in Elems /\ events_t \in [Elems -> ElemEvents]
    BY DEF ShellType
  <1>2. events_t[slot[s]] \in ElemEvents /\ events_t[slot[s]].pid = s
    BY <1>1 DEF ShellElements
  <1>3. events_t' = [events_t EXCEPT ![slot[s]] = new]
    BY <1>1 DEF Stores
  <1>4. new \in ElemEvents /\ new \in SentEvents /\ new.pid = s /\ new.type = "retval"
    BY <1>2 DEF ElemEvents, SentEvents, ShellEvents
  <1> HIDE DEF new
  <1> QED BY <1>1, <1>3, <1>4

\* readline() returns: the shell takes an element that is its own or nobody's, and
\* an element that is being sent is one it reuses.
LEMMA ShellReadline ==
  ASSUME Shell!ShellConstantsOK, ShellInv, NEW s \in Shells, NEW c \in Cpus,
         Shell!uretprobe_bash_readline(s, c)
  PROVE  ShellInv'
  <1> DEFINE event == [type |-> "readline", pid |-> s, line |-> nlines + 1, retval |-> 0]
             free == {e \in Elems : \A u \in Shells : slot[u] # e}
             target == IF slot[s] # NoElem THEN {slot[s]} ELSE free
             r == [cpu |-> c, data |-> event, due |-> <<>>]
  <1>1. ShellType /\ ShellElements /\ ("reused" \notin upset => LinesApart)
    BY DEF ShellInv
  <1>2. /\ nlines' = nlines + 1
        /\ due' = [due EXCEPT ![s] = Append(@, nlines + 1)]
        /\ UNCHANGED <<sending, lineMap, shown>>
    BY DEF Shell!uretprobe_bash_readline
  <1>3. nlines + 1 \in Nat /\ due[s] \in Seq(Nat)
    BY <1>1 DEF ShellType
  <1>4. event \in SentEvents /\ event \in ElemEvents
    BY <1>3 DEF SentEvents, ElemEvents, ShellEvents
  <1>5. <<>> \in Seq(Nat)
    OBVIOUS
  <1>6. r \in RingEvents /\ r.data = event /\ event.type = "readline"
        /\ event.line = nlines + 1 /\ event.pid = s
    BY <1>4, <1>5 DEF RingEvents
  <1>7. Append(due[s], nlines + 1) \in Seq(Nat)
    BY <1>3, AppendProperties
  <1>8. due' \in [Shells -> Seq(Nat)]
    BY <1>1, <1>2, <1>7 DEF ShellType
  <1>9. \/ target = {} /\ Shell!Send(c, event, <<>>, {}) /\ UNCHANGED <<slot, events_t>>
        \/ \E e \in target :
              /\ slot' = [slot EXCEPT ![s] = e]
              /\ events_t' = [events_t EXCEPT ![e] = event]
              /\ Shell!Send(c, event, <<>>, {"reused" : u \in {v \in Shells : sending[v].of = e}})
    BY DEF Shell!uretprobe_bash_readline
  <1> HIDE DEF event
  <1>a. ASSUME NEW mishaps, mishaps \subseteq {"reused"}, Shell!Send(c, event, <<>>, mishaps),
               slot' \in [Shells -> Elems \cup {NoElem}], events_t' \in [Elems -> ElemEvents]
        PROVE  /\ ShellType' /\ upset \subseteq upset' /\ mishaps \subseteq upset'
               /\ "reused" \notin upset' => LinesApart'
    <2>1. /\ rings' \in Seq(RingEvents)
          /\ upset' \subseteq {"lost", "overtaken", "reused"}
          /\ upset \subseteq upset' /\ mishaps \subseteq upset'
          /\ \/ rings' = rings /\ "lost" \in upset'
             \/ rings' = Append(rings, r)
      BY <1>1, <1>4, <1>5, <1>a, SendEffect
    <2>2. ShellType'
      BY <1>1, <1>2, <1>3, <1>8, <1>a, <2>1 DEF ShellType
    <2>3. Sends(r)
      BY <2>1 DEF Sends
    <2> HIDE DEF r
    <2>4. ASSUME "reused" \notin upset' PROVE LinesApart'
      <3>1. LinesApart
        BY <1>1, <2>1, <2>4
      <3> QED BY <1>1, <1>2, <1>6, <2>3, <3>1, ApartSend
    <2> QED BY <2>1, <2>2, <2>4
  <1> HIDE DEF r
  <1>10. CASE target = {} /\ Shell!Send(c, event, <<>>, {}) /\ UNCHANGED <<slot, events_t>>
    <2>1. slot' \in [Shells -> Elems \cup {NoElem}] /\ events_t' \in [Elems -> ElemEvents]
      BY <1>1, <1>10 DEF ShellType
    <2>2. /\ ShellType' /\ upset \subseteq upset'
          /\ "reused" \notin upset' => LinesApart'
      BY <1>10, <1>a, <2>1
    <2>3. ShellElements'
      BY <1>1, <1>2, <1>10, <2>2, ElementsStay
    <2> QED BY <2>2, <2>3 DEF ShellInv
  <1>11. ASSUME NEW e \in target, slot' = [slot EXCEPT ![s] = e],
                events_t' = [events_t EXCEPT ![e] = event],
                Shell!Send(c, event, <<>>, {"reused" : u \in {v \in Shells : sending[v].of = e}})
         PROVE  ShellInv'
    <2>1. e \in Elems /\ \A u \in Shells : u # s => slot[u] # e
      <3>1. CASE slot[s] # NoElem
        BY <1>1, <1>11, <3>1 DEF ShellType, ShellElements
      <3>2. CASE slot[s] = NoElem
        BY <1>11, <3>2
      <3> QED BY <3>1, <3>2
    <2>2. /\ slot' \in [Shells -> Elems \cup {NoElem}] /\ slot'[s] = e
          /\ \A u \in Shells : u # s => slot'[u] = slot[u]
      BY <1>1, <1>11, <2>1 DEF ShellType
    <2>3. /\ events_t' \in [Elems -> ElemEvents] /\ events_t'[e] = event
          /\ \A d \in Elems : d # e => events_t'[d] = events_t[d]
      BY <1>1, <1>4, <1>11, <2>1 DEF ShellType
    <2> DEFINE mishaps == {"reused" : u \in {v \in Shells : sending[v].of = e}}
    <2>4. mishaps \subseteq {"reused"} /\ ("reused" \notin mishaps =>
              \A v \in Shells : sending[v].of # e)
      OBVIOUS
    <2> HIDE DEF mishaps
    <2>5. /\ ShellType' /\ upset \subseteq upset' /\ mishaps \subseteq upset'
          /\ "reused" \notin upset' => LinesApart'
      <3>1. Shell!Send(c, event, <<>>, mishaps)
        BY <1>11 DEF mishaps
      <3> QED BY <1>a, <2>2, <2>3, <2>4, <3>1
    <2>6. \A u \in Shells : sending[u] # Shell!Idle => sending[u].of \in Elems
      BY <1>1 DEF ShellType
    <2>7. \A u \in Shells : slot[u] # NoElem => slot[u] \in Elems
      BY <1>1 DEF ShellType
    <2>8. ShellElements'
      <3>1. ASSUME NEW t \in Shells, NEW u \in Shells, slot'[t] = slot'[u], slot'[t] # NoElem
            PROVE  t = u
        BY <1>1, <2>1, <2>2, <3>1 DEF ShellElements
      <3>2. ASSUME NEW u \in Shells, slot'[u] # NoElem
            PROVE  events_t'[slot'[u]].pid = u /\ events_t'[slot'[u]].type # "none"
        <4>1. CASE u = s
          BY <1>6, <2>2, <2>3, <4>1
        <4>2. CASE u # s
          BY <1>1, <2>1, <2>2, <2>3, <2>7, <3>2, <4>2 DEF ShellElements
        <4> QED BY <4>1, <4>2
      <3>3. ASSUME NEW u \in Shells, sending[u] # Shell!Idle
            PROVE  /\ events_t'[sending[u].of].pid \in Shells
                   /\ events_t'[sending[u].of].type # "none"
        <4>1. CASE sending[u].of = e
          BY <1>6, <2>3, <4>1
        <4>2. CASE sending[u].of # e
          BY <1>1, <2>3, <2>6, <3>3, <4>2 DEF ShellElements
        <4> QED BY <4>1, <4>2
      <3>4. ASSUME "reused" \notin upset', NEW u \in Shells, sending[u] # Shell!Idle
            PROVE  /\ events_t'[sending[u].of].type = "retval"
                   /\ events_t'[sending[u].of].pid = u
                   /\ \A t \in Shells : slot'[t] # sending[u].of
        <4>1. sending[u].of # e /\ sending[u].of \in Elems
          BY <2>4, <2>5, <2>6, <3>4
        <4>2. "reused" \notin upset
          BY <2>5, <3>4
        <4>3. /\ events_t[sending[u].of].type = "retval"
              /\ events_t[sending[u].of].pid = u
              /\ \A t \in Shells : slot[t] # sending[u].of
          BY <1>1, <3>4, <4>2 DEF ShellElements
        <4> QED BY <2>2, <2>3, <4>1, <4>3
      <3> QED BY <1>2, <3>1, <3>2, <3>3, <3>4 DEF ShellElements
    <2> QED BY <2>5, <2>8 DEF ShellInv
  <1> QED BY <1>9, <1>10, <1>11

\* The event of a report is sent, which has no line to collect.
LEMMA ShellReport ==
  ASSUME ShellInv, NEW s \in Shells, NEW c \in Cpus, NEW e \in SentEvents, NEW lines \in Seq(Nat),
         "reused" \notin upset => e.type # "readline", Shell!Send(c, e, lines, {}),
         UNCHANGED <<nlines, lineMap, shown>>,
         slot' \in [Shells -> Elems \cup {NoElem}], events_t' \in [Elems -> ElemEvents],
         sending' \in [Shells -> {Shell!Idle} \cup [of : Elems, due : Seq(Nat)]],
         due' \in [Shells -> Seq(Nat)]
  PROVE  /\ ShellType' /\ upset \subseteq upset'
         /\ "reused" \notin upset' => LinesApart'
  <1> DEFINE r == [cpu |-> c, data |-> e, due |-> lines]
  <1>1. ShellType /\ ("reused" \notin upset => LinesApart)
    BY DEF ShellInv
  <1>2. /\ rings' \in Seq(RingEvents)
        /\ upset' \subseteq {"lost", "overtaken", "reused"}
        /\ upset \subseteq upset'
        /\ \/ rings' = rings /\ "lost" \in upset'
           \/ rings' = Append(rings, r)
    <2>1. {} \subseteq {"reused"}
      OBVIOUS
    <2> QED BY <1>1, <2>1, SendEffect
  <1>3. ShellType'
    BY <1>1, <1>2 DEF ShellType
  <1>4. r \in RingEvents /\ r.data = e
    BY DEF RingEvents
  <1>5. Sends(r)
    BY <1>2 DEF Sends
  <1> HIDE DEF r
  <1>6. ASSUME "reused" \notin upset' PROVE LinesApart'
    <2>1. LinesApart /\ "reused" \notin upset
      BY <1>1, <1>2, <1>6
    <2> QED BY <1>1, <1>4, <1>5, <2>1, ApartSend
  <1> QED BY <1>2, <1>3, <1>6

\* execute_command() returns with a status that is not the wanted one: the element
\* is sent while it is the shell's.
LEMMA ShellRetvalOther ==
  ASSUME Shell!ShellConstantsOK, ShellInv, NEW s \in Shells, NEW c \in Cpus, NEW status,
         Shell!retval_other(s, c, status)
  PROVE  ShellInv'
  <1> DEFINE e == slot[s]
  <1>1. ShellType /\ ShellElements
    BY DEF ShellInv
  <1>2. /\ e # NoElem /\ Stores(s, Shell!BASH_ERRNO_DEFAULT)
        /\ Shell!Send(c, events_t'[e], due[s], {})
        /\ slot' = [slot EXCEPT ![s] = NoElem]
        /\ due' = [due EXCEPT ![s] = <<>>]
        /\ UNCHANGED <<nlines, sending, lineMap, shown>>
    BY DEF Shell!retval_other, Stores
  <1>3. /\ e \in Elems /\ events_t' \in [Elems -> ElemEvents]
        /\ events_t'[e] \in SentEvents
        /\ events_t'[e].pid = s /\ events_t'[e].type = "retval"
        /\ \A d \in Elems : d # e => events_t'[d] = events_t[d]
    BY <1>1, <1>2, RetvalStored
  <1>4. /\ slot' \in [Shells -> Elems \cup {NoElem}] /\ slot'[s] = NoElem
        /\ \A u \in Shells : u # s => slot'[u] = slot[u] /\ slot[u] # e
    BY <1>1, <1>2 DEF ShellType, ShellElements
  <1>5. due[s] \in Seq(Nat) /\ due' \in [Shells -> Seq(Nat)]
    BY <1>1, <1>2 DEF ShellType
  <1>6. sending' \in [Shells -> {Shell!Idle} \cup [of : Elems, due : Seq(Nat)]]
    BY <1>1, <1>2 DEF ShellType
  <1>7. \A u \in Shells : slot[u] # NoElem => slot[u] \in Elems
    BY <1>1 DEF ShellType
  <1>8. \A u \in Shells : sending[u] # Shell!Idle => sending[u].of \in Elems
    BY <1>1 DEF ShellType
  <1> HIDE DEF e
  <1>9. /\ ShellType' /\ upset \subseteq upset'
        /\ "reused" \notin upset' => LinesApart'
    <2>1. PICK d \in SentEvents : d = events_t'[e]
      BY <1>3
    <2>2. d.type # "readline" /\ Shell!Send(c, d, due[s], {})
      BY <1>2, <1>3, <2>1
    <2> QED BY <1>2, <1>3, <1>4, <1>5, <1>6, <2>2, ShellReport
  <1>10. ShellElements'
    <2>1. ASSUME NEW t \in Shells, NEW u \in Shells, slot'[t] = slot'[u], slot'[t] # NoElem
          PROVE  t = u
      BY <1>1, <1>4, <2>1 DEF ShellElements
    <2>2. ASSUME NEW u \in Shells, slot'[u] # NoElem
          PROVE  events_t'[slot'[u]].pid = u /\ events_t'[slot'[u]].type # "none"
      BY <1>1, <1>3, <1>4, <1>7, <2>2 DEF ShellElements
    <2>3. ASSUME NEW u \in Shells, sending[u] # Shell!Idle
          PROVE  /\ events_t'[sending[u].of].pid \in Shells
                 /\ events_t'[sending[u].of].type # "none"
      <3>1. CASE sending[u].of = e
        BY <1>3, <3>1
      <3>2. CASE sending[u].of # e
        BY <1>1, <1>3, <1>8, <2>3, <3>2 DEF ShellElements
      <3> QED BY <3>1, <3>2
    <2>4. ASSUME "reused" \notin upset', NEW u \in Shells, sending[u] # Shell!Idle
          PROVE  /\ events_t'[sending[u].of].type = "retval"
                 /\ events_t'[sending[u].of].pid = u
                 /\ \A t \in Shells : slot'[t] # sending[u].of
      <3>1. /\ events_t[sending[u].of].type = "retval"
            /\ events_t[sending[u].of].pid = u
            /\ \A t \in Shells : slot[t] # sending[u].of
        BY <1>1, <1>9, <2>4 DEF ShellElements
      <3>2. sending[u].of # e /\ sending[u].of \in Elems
        BY <1>8, <2>4, <3>1 DEF e
      <3> QED BY <1>3, <1>4, <3>1, <3>2 DEF Shell!ShellConstantsOK
    <2> QED BY <1>2, <2>1, <2>2, <2>3, <2>4 DEF ShellElements
  <1> QED BY <1>9, <1>10 DEF ShellInv

\* execute_command() returns with the wanted status: the element is nobody's, and
\* still to be sent.
LEMMA ShellRetvalWanted ==
  ASSUME Shell!ShellConstantsOK, ShellInv, NEW s \in Shells, NEW status \in Statuses,
         Shell!retval_wanted(s, status)
  PROVE  ShellInv'
  <1> DEFINE e == slot[s]
  <1>1. ShellType /\ ShellElements /\ ("reused" \notin upset => LinesApart)
    BY DEF ShellInv
  <1>2. /\ e # NoElem /\ Stores(s, status)
        /\ slot' = [slot EXCEPT ![s] = NoElem]
        /\ sending' = [sending EXCEPT ![s] = [of |-> e, due |-> due[s]]]
        /\ due' = [due EXCEPT ![s] = <<>>]
        /\ UNCHANGED <<nlines, rings, lineMap, shown, upset>>
    BY DEF Shell!retval_wanted, Stores
  <1>3. /\ e \in Elems /\ events_t' \in [Elems -> ElemEvents]
        /\ events_t'[e].pid = s /\ events_t'[e].type = "retval"
        /\ \A d \in Elems : d # e => events_t'[d] = events_t[d]
    BY <1>1, <1>2, RetvalStored
  <1>4. /\ slot' \in [Shells -> Elems \cup {NoElem}] /\ slot'[s] = NoElem
        /\ \A u \in Shells : u # s => slot'[u] = slot[u] /\ slot[u] # e
    BY <1>1, <1>2 DEF ShellType, ShellElements
  <1>5. due[s] \in Seq(Nat) /\ due' \in [Shells -> Seq(Nat)]
    BY <1>1, <1>2 DEF ShellType
  <1>6. /\ sending' \in [Shells -> {Shell!Idle} \cup [of : Elems, due : Seq(Nat)]]
        /\ sending'[s].of = e
        /\ \A u \in Shells : u # s => sending'[u] = sending[u]
    <2>1. [of |-> e, due |-> due[s]] \in [of : Elems, due : Seq(Nat)]
      BY <1>3, <1>5
    <2> QED BY <1>1, <1>2, <2>1 DEF ShellType
  <1>7. \A u \in Shells : slot[u] # NoElem => slot[u] \in Elems
    BY <1>1 DEF ShellType
  <1>8. \A u \in Shells : sending[u] # Shell!Idle => sending[u].of \in Elems
    BY <1>1 DEF ShellType
  <1>9. ShellType'
    BY <1>1, <1>2, <1>3, <1>4, <1>5, <1>6 DEF ShellType
  <1> HIDE DEF e
  <1>10. ShellElements'
    <2>1. ASSUME NEW t \in Shells, NEW u \in Shells, slot'[t] = slot'[u], slot'[t] # NoElem
          PROVE  t = u
      BY <1>1, <1>4, <2>1 DEF ShellElements
    <2>2. ASSUME NEW u \in Shells, slot'[u] # NoElem
          PROVE  events_t'[slot'[u]].pid = u /\ events_t'[slot'[u]].type # "none"
      BY <1>1, <1>3, <1>4, <1>7, <2>2 DEF ShellElements
    <2>3. ASSUME NEW u \in Shells, sending'[u] # Shell!Idle
          PROVE  /\ events_t'[sending'[u].of].pid \in Shells
                 /\ events_t'[sending'[u].of].type # "none"
      <3>1. CASE sending'[u].of = e
        BY <1>3, <3>1
      <3>2. CASE sending'[u].of # e
        <4>1. u # s /\ sending'[u] = sending[u]
          BY <1>6, <3>2
        <4>2. sending[u].of \in Elems /\ sending[u] # Shell!Idle /\ sending[u].of # e
          BY <1>8, <2>3, <3>2, <4>1
        <4> QED BY <1>1, <1>3, <4>1, <4>2 DEF ShellElements
      <3> QED BY <3>1, <3>2
    <2>4. ASSUME "reused" \notin upset, NEW u \in Shells, sending'[u] # Shell!Idle
          PROVE  /\ events_t'[sending'[u].of].type = "retval"
                 /\ events_t'[sending'[u].of].pid = u
                 /\ \A t \in Shells : slot'[t] # sending'[u].of
      <3>1. CASE u = s
        BY <1>3, <1>4, <1>6, <3>1 DEF Shell!ShellConstantsOK
      <3>2. CASE u # s
        <4>1. sending'[u] = sending[u] /\ sending[u] # Shell!Idle
          BY <1>6, <2>4, <3>2
        <4>2. /\ events_t[sending[u].of].type = "retval"
              /\ events_t[sending[u].of].pid = u
              /\ \A t \in Shells : slot[t] # sending[u].of
          BY <1>1, <2>4, <4>1 DEF ShellElements
        <4>3. sending[u].of # e /\ sending[u].of \in Elems
          BY <1>8, <4>1, <4>2 DEF e
        <4> QED BY <1>3, <1>4, <4>1, <4>2, <4>3 DEF Shell!ShellConstantsOK
      <3> QED BY <3>1, <3>2
    <2>5. upset' = upset
      BY <1>2
    <2> QED BY <2>1, <2>2, <2>3, <2>4, <2>5 DEF ShellElements
  <1>11. "reused" \notin upset => LinesApart'
    BY <1>1, <1>2 DEF LinesApart, ReadAt, InRing, InMap, InShown
  <1> QED BY <1>2, <1>9, <1>10, <1>11 DEF ShellInv

\* The element that was deleted is sent: unless it was reused it has no line.
LEMMA ShellRetvalSend ==
  ASSUME ShellInv, NEW s \in Shells, NEW c \in Cpus, Shell!retval_send(s, c)
  PROVE  ShellInv'
  <1> DEFINE e == sending[s].of
  <1>1. ShellType /\ ShellElements
    BY DEF ShellInv
  <1>2. /\ sending[s] # Shell!Idle
        /\ Shell!Send(c, events_t[e], sending[s].due, {})
        /\ sending' = [sending EXCEPT ![s] = Shell!Idle]
        /\ UNCHANGED <<nlines, slot, events_t, lineMap, shown, due>>
    BY DEF Shell!retval_send
  <1>3. e \in Elems /\ sending[s].due \in Seq(Nat)
    BY <1>1, <1>2 DEF ShellType
  <1>4. /\ events_t[e] \in ElemEvents /\ events_t[e].pid \in Shells
        /\ events_t[e].type # "none"
        /\ "reused" \notin upset => events_t[e].type = "retval"
    BY <1>1, <1>2, <1>3 DEF ShellType, ShellElements
  <1>5. events_t[e] \in SentEvents
    BY <1>4 DEF ElemEvents, SentEvents, ShellEvents
  <1>6. /\ sending' \in [Shells -> {Shell!Idle} \cup [of : Elems, due : Seq(Nat)]]
        /\ \A u \in Shells : sending'[u] # Shell!Idle => sending'[u] = sending[u]
    BY <1>1, <1>2 DEF ShellType
  <1>7. /\ slot' \in [Shells -> Elems \cup {NoElem}] /\ events_t' \in [Elems -> ElemEvents]
        /\ due' \in [Shells -> Seq(Nat)]
    BY <1>1, <1>2 DEF ShellType
  <1> HIDE DEF e
  <1>8. /\ ShellType' /\ upset \subseteq upset'
        /\ "reused" \notin upset' => LinesApart'
    <2>1. PICK d \in SentEvents : d = events_t[e]
      BY <1>5
    <2>2. PICK lines \in Seq(Nat) : lines = sending[s].due
      BY <1>3
    <2>3. ("reused" \notin upset => d.type # "readline") /\ Shell!Send(c, d, lines, {})
      BY <1>2, <1>4, <2>1, <2>2
    <2> QED BY <1>2, <1>6, <1>7, <2>3, ShellReport
  <1>9. ShellElements'
    BY <1>1, <1>2, <1>6, <1>8 DEF ShellElements
  <1> QED BY <1>8, <1>9 DEF ShellInv

\* exec_builtin() or exit_builtin() reports what is due.
LEMMA ShellExit ==
  ASSUME ShellInv, NEW s \in Shells, NEW c \in Cpus, Shell!send_bash_exit_event(s, c)
  PROVE  ShellInv'
  <1> DEFINE e == [type |-> "exit", pid |-> s, line |-> 0, retval |-> 0]
  <1>1. ShellType /\ ShellElements
    BY DEF ShellInv
  <1>2. /\ Shell!Send(c, e, due[s], {})
        /\ due' = [due EXCEPT ![s] = <<>>]
        /\ UNCHANGED <<nlines, slot, events_t, sending, lineMap, shown>>
    BY DEF Shell!send_bash_exit_event
  <1>3. e \in SentEvents /\ e.type # "readline"
    BY DEF SentEvents, ShellEvents
  <1>4. due[s] \in Seq(Nat) /\ due' \in [Shells -> Seq(Nat)]
    BY <1>1, <1>2 DEF ShellType
  <1>5. /\ slot' \in [Shells -> Elems \cup {NoElem}] /\ events_t' \in [Elems -> ElemEvents]
        /\ sending' \in [Shells -> {Shell!Idle} \cup [of : Elems, due : Seq(Nat)]]
    BY <1>1, <1>2 DEF ShellType
  <1> HIDE DEF e
  <1>6. /\ ShellType' /\ upset \subseteq upset'
        /\ "reused" \notin upset' => LinesApart'
    BY <1>2, <1>3, <1>4, <1>5, ShellReport
  <1>7. ShellElements'
    BY <1>1, <1>2, <1>6, ElementsStay
  <1> QED BY <1>6, <1>7 DEF ShellInv

\* handleEvent() collects the line of the event, or shows the lines collected.
LEMMA ShellHandle ==
  ASSUME ShellInv, NEW i \in DOMAIN rings, Shell!handleEvent(i)
  PROVE  ShellInv'
  <1> DEFINE s == rings[i].data.pid
             l == rings[i].data.line
             a == [pid |-> s, lines |-> lineMap[s], due |-> rings[i].due,
                   type |-> rings[i].data.type, retval |-> rings[i].data.retval]
  <1>1. ShellType /\ ShellElements /\ ("reused" \notin upset => LinesApart)
    BY DEF ShellInv
  <1>2. i \in 1 .. Len(rings)
    BY <1>1, LenProperties DEF ShellType
  <1>3. s \in Shells /\ l \in Nat
    <2>1. rings[i] \in RingEvents
      BY <1>1, <1>2, ElementOfSeq DEF ShellType
    <2>2. rings[i].data \in SentEvents
      BY <2>1 DEF RingEvents
    <2> QED BY <2>2 DEF SentEvents, ShellEvents
  <1>4. /\ rings' = Shell!RemoveAt(rings, i)
        /\ upset' = upset \/ upset' = upset \cup {"overtaken"}
        /\ UNCHANGED <<nlines, slot, events_t, sending, due>>
        /\ \/ ReadAt(i) /\ Collects(s, l) /\ shown' = shown
           \/ Shows(s, a)
    BY DEF Shell!handleEvent, ReadAt, Collects, Shows
  <1>5. rings' \in Seq(RingEvents)
    BY <1>1, <1>2, <1>4, RemoveEffect
  <1>6. /\ upset' \subseteq {"lost", "overtaken", "reused"} /\ upset \subseteq upset'
    BY <1>1, <1>4 DEF ShellType
  <1>7. lineMap \in [Shells -> Seq(Nat)] /\ lineMap[s] \in Seq(Nat)
    BY <1>1, <1>3 DEF ShellType
  <1>8. a.lines = lineMap[s]
    OBVIOUS
  <1> HIDE DEF s, l, a
  <1>9. lineMap' \in [Shells -> Seq(Nat)] /\ \A b \in shown' : b.lines \in Seq(Nat)
    <2>1. CASE Collects(s, l) /\ shown' = shown
      <3>1. Append(lineMap[s], l) \in Seq(Nat)
        BY <1>3, <1>7, AppendProperties
      <3>2. lineMap' \in [Shells -> Seq(Nat)]
        BY <1>7, <2>1, <3>1 DEF Collects
      <3> QED BY <1>1, <2>1, <3>2 DEF ShellType
    <2>2. CASE Shows(s, a)
      <3>0. <<>> \in Seq(Nat)
        OBVIOUS
      <3>1. lineMap' \in [Shells -> Seq(Nat)]
        BY <1>7, <2>2, <3>0 DEF Shows
      <3>2. \A b \in shown' : b \in shown \/ b = a
        BY <2>2 DEF Shows
      <3> QED BY <1>1, <1>7, <1>8, <3>1, <3>2 DEF ShellType
    <2> QED BY <1>4, <2>1, <2>2
  <1>10. ShellType'
    BY <1>1, <1>4, <1>5, <1>6, <1>9 DEF ShellType
  <1>11. ShellElements'
    BY <1>1, <1>4, <1>6, ElementsStay
  <1>12. ASSUME "reused" \notin upset' PROVE LinesApart'
    <2>1. LinesApart
      BY <1>1, <1>6, <1>12
    <2>2. CASE ReadAt(i) /\ Collects(s, l) /\ shown' = shown
      <3>1. l = rings[i].data.line
        BY DEF l
      <3> QED BY <1>1, <1>2, <1>3, <1>4, <2>1, <2>2, <3>1, ApartCollect
    <2>3. CASE Shows(s, a)
      BY <1>1, <1>2, <1>3, <1>4, <1>8, <2>1, <2>3, ApartShow
    <2> QED BY <1>4, <2>2, <2>3
  <1> QED BY <1>10, <1>11, <1>12 DEF ShellInv

\* Every step of ShellTrace keeps its invariant.
LEMMA ShellStep ==
  ASSUME Shell!ShellConstantsOK, ShellInv, [Shell!Next]_shellVars
  PROVE  ShellInv'
  <1>1. CASE UNCHANGED shellVars
    <2>1. ShellType'
      BY <1>1 DEF shellVars, ShellInv, ShellType
    <2>2. ShellElements'
      BY <1>1 DEF shellVars, ShellInv, ShellElements
    <2>3. LinesApart => LinesApart'
      BY <1>1 DEF shellVars, LinesApart, ReadAt, InRing, InMap, InShown
    <2> QED BY <1>1, <2>1, <2>2, <2>3 DEF shellVars, ShellInv
  <1> QED BY <1>1, ShellReadline, ShellRetvalOther, ShellRetvalWanted, ShellRetvalSend, ShellExit,
             ShellHandle DEF Shell!Next

\* A line is shown in one command at most, for any number of shells, CPUs, elements
\* and lines, whatever the rings lose and in whatever order they are read, unless an
\* element was reused before it was sent.
THEOREM LinesAreShownOnce ==
  ASSUME Shell!ShellConstantsOK
  PROVE  ProgramsSpec => []LineShownOnce
  <1>1. ProgramsInit => ShellInv
    BY ShellInit DEF ProgramsInit
  <1>2. ShellInv /\ [ProgramsNext]_programsVars => ShellInv'
    BY ShellSteps, ShellStep
  <1>3. ShellInv => LineShownOnce
    <2> SUFFICES ASSUME ShellInv, "reused" \notin upset, NEW a \in shown, NEW b \in shown, a # b,
                        NEW n \in Shell!Range(a.lines) \cap Shell!Range(b.lines)
                 PROVE  FALSE
      BY DEF LineShownOnce, Shell!LineShownOnce
    <2>1. a.lines \in Seq(Nat) /\ n \in Nat
      BY ElementOfSeq DEF ShellInv, ShellType, Shell!Range
    <2>2. InShown(a, n) /\ InShown(b, n)
      BY DEF InShown, Shell!Range
    <2> QED BY <2>1, <2>2 DEF ShellInv, LinesApart
  <1> QED BY <1>1, <1>2, <1>3, PTL DEF ProgramsSpec

-----------------------------------------------------------------------------
\* WholeCommands.  What is in the ring at i is a line or a report of s.
Line(i) == rings[i].data.line
Reads(i, s) == ReadAt(i) /\ rings[i].data.pid = s
Reports(i, s) == ~ReadAt(i) /\ rings[i].data.pid = s

\* The lines the next report of s has to have, and those the report at p has, where
\* the place behind the ring is that of the next report.
Owed(s) == IF sending[s] = Shell!Idle THEN due[s] ELSE sending[s].due
ReportAt(p, s) == IF p <= Len(rings) THEN rings[p].due ELSE Owed(s)

\* The lines that were collected when the report at q has been handled, where 0 is
\* the place of the last one that was.
Collected(q, s) == IF q = 0 THEN lineMap[s] ELSE <<>>

\* q and p are the places of two reports of s that follow one another.
Span(q, p, s) ==
    /\ q < p
    /\ q = 0 \/ Reports(q, s)
    /\ p = Len(rings) + 1 \/ Reports(p, s)
    /\ \A i \in q + 1 .. p - 1 : ~Reports(i, s)

\* The line n of s is between q and p.
Between(q, p, s, n) == \E i \in q + 1 .. p - 1 : Reads(i, s) /\ Line(i) = n

\* n is in d behind the first b; d starts with c; d is increasing.
Rest(d, b, n) == \E k \in b + 1 .. Len(d) : d[k] = n
Starts(c, d) == Len(c) <= Len(d) /\ \A x \in 1 .. Len(c) : c[x] = d[x]
Increasing(d) == \A k, l \in 1 .. Len(d) : k < l => d[k] < d[l]

\* The lines reported at p are those collected at q and those between.
Whole(q, p, s) ==
    /\ Starts(Collected(q, s), ReportAt(p, s))
    /\ \A n \in Nat :
          Rest(ReportAt(p, s), Len(Collected(q, s)), n) <=> Between(q, p, s, n)

\* The lines in the ring are numbered in its order, up to nlines.
RingOrder ==
    /\ \A i, j \in 1 .. Len(rings) : ReadAt(i) /\ ReadAt(j) /\ i < j => Line(i) < Line(j)
    /\ \A i \in 1 .. Len(rings) : ReadAt(i) => Line(i) <= nlines

\* And so are those due.
DueOrder ==
    /\ \A s \in Shells : sending[s] # Shell!Idle => due[s] = <<>>
    /\ \A s \in Shells : \A k \in 1 .. Len(Owed(s)) : Owed(s)[k] <= nlines
    /\ \A s \in Shells, p \in 1 .. Len(rings) + 1 : Increasing(ReportAt(p, s))

\* Every report has the lines since the one before it.
WholeSpans ==
    \A s \in Shells, q \in 0 .. Len(rings), p \in 1 .. Len(rings) + 1 :
        Span(q, p, s) => Whole(q, p, s)

\* What holds as long as nothing went wrong.
WholeLines ==
    /\ RingOrder /\ DueOrder /\ WholeSpans
    /\ \A a \in shown : a.lines = a.due

\* The smallest of the remaining lines is the next one.
LEMMA NextLine ==
  ASSUME NEW c \in Seq(Nat), NEW d \in Seq(Nat), NEW l \in Nat, Starts(c, d), Increasing(d),
         Rest(d, Len(c), l), \A n \in Nat : Rest(d, Len(c), n) => l <= n
  PROVE  /\ Starts(Append(c, l), d)
         /\ \A n \in Nat : Rest(d, Len(Append(c, l)), n) <=> Rest(d, Len(c), n) /\ n # l
  <1> DEFINE b == Len(c)
             m == Len(d)
             e == Append(c, l)
  <1>1. b \in Nat /\ m \in Nat /\ b <= m /\ \A k \in 1 .. m : d[k] \in Nat
    BY LenProperties, ElementOfSeq DEF Starts
  <1>2. Len(e) = b + 1 /\ e[b + 1] = l /\ \A x \in 1 .. b : e[x] = c[x]
    BY AppendProperties, LenProperties
  <1>3. \A x \in 1 .. b : c[x] = d[x]
    BY DEF Starts
  <1> HIDE DEF b, m, e
  <1>4. PICK k \in b + 1 .. m : d[k] = l
    BY DEF Rest, b, m
  <1>5. \A j \in b + 1 .. m : l <= d[j]
    <2> SUFFICES ASSUME NEW j \in b + 1 .. m PROVE l <= d[j]
      OBVIOUS
    <2>1. j \in 1 .. m
      BY <1>1
    <2>2. d[j] \in Nat /\ Rest(d, b, d[j])
      BY <1>1, <2>1 DEF Rest, m
    <2> QED BY <2>2 DEF b
  <1>6. k = b + 1
    <2> SUFFICES ASSUME k # b + 1 PROVE FALSE
      OBVIOUS
    <2>1. b + 1 \in 1 .. m /\ k \in 1 .. m /\ b + 1 < k /\ b + 1 \in b + 1 .. m
      BY <1>1
    <2>2. d[b + 1] < d[k]
      BY <2>1 DEF Increasing, m
    <2>3. d[b + 1] \in Nat /\ l <= d[b + 1]
      BY <1>1, <1>5, <2>1
    <2> QED BY <1>4, <2>2, <2>3
  <1>7. Starts(e, d)
    <2>1. b + 1 <= m
      BY <1>1, <1>6
    <2>2. \A x \in 1 .. b + 1 : x \in 1 .. b \/ x = b + 1
      BY <1>1
    <2>3. \A x \in 1 .. b + 1 : e[x] = d[x]
      BY <1>2, <1>3, <1>4, <1>6, <2>2
    <2> QED BY <1>2, <2>1, <2>3 DEF Starts, m
  <1>8. \A j \in b + 1 + 1 .. m : j \in b + 1 .. m /\ d[j] # l
    <2> SUFFICES ASSUME NEW j \in b + 1 + 1 .. m PROVE j \in b + 1 .. m /\ d[j] # l
      OBVIOUS
    <2>1. j \in b + 1 .. m /\ j \in 1 .. m /\ k \in 1 .. m /\ k < j
      BY <1>1, <1>6
    <2>2. d[k] < d[j] /\ d[k] \in Nat /\ d[j] \in Nat
      BY <1>1, <2>1 DEF Increasing, m
    <2> QED BY <1>4, <2>1, <2>2
  <1>9. \A j \in b + 1 .. m : j = k \/ j \in b + 1 + 1 .. m
    BY <1>1, <1>6
  <1>10. ASSUME NEW n \in Nat PROVE Rest(d, b + 1, n) <=> Rest(d, b, n) /\ n # l
    BY <1>4, <1>8, <1>9 DEF Rest, m
  <1> QED BY <1>2, <1>7, <1>10 DEF b, e

\* One more line is due.
LEMMA OneMoreLine ==
  ASSUME NEW c \in Seq(Nat), NEW d \in Seq(Nat), NEW l \in Nat, Starts(c, d)
  PROVE  /\ Starts(c, Append(d, l))
         /\ \A n \in Nat : Rest(Append(d, l), Len(c), n) <=> Rest(d, Len(c), n) \/ n = l
  <1> DEFINE b == Len(c)
             m == Len(d)
             e == Append(d, l)
  <1>1. b \in Nat /\ m \in Nat /\ b <= m
    BY LenProperties DEF Starts
  <1>2. Len(e) = m + 1 /\ e[m + 1] = l /\ \A x \in 1 .. m : e[x] = d[x]
    BY AppendProperties, LenProperties
  <1>3. \A x \in 1 .. b : c[x] = d[x]
    BY DEF Starts
  <1> HIDE DEF b, m, e
  <1>4. Starts(c, e)
    <2>1. b <= m + 1 /\ \A x \in 1 .. b : x \in 1 .. m
      BY <1>1
    <2> QED BY <1>2, <1>3, <2>1 DEF Starts, b
  <1>5. /\ \A j \in b + 1 .. m + 1 : j \in b + 1 .. m \/ j = m + 1
        /\ \A j \in b + 1 .. m : j \in b + 1 .. m + 1 /\ j \in 1 .. m
        /\ m + 1 \in b + 1 .. m + 1
    BY <1>1
  <1>6. ASSUME NEW n \in Nat PROVE Rest(e, b, n) <=> Rest(d, b, n) \/ n = l
    BY <1>2, <1>5 DEF Rest, m
  <1> QED BY <1>4, <1>6 DEF b, e

\* It is the greatest.
LEMMA StillIncreasing ==
  ASSUME NEW d \in Seq(Nat), NEW l \in Nat, Increasing(d), \A k \in 1 .. Len(d) : d[k] <= l
  PROVE  /\ Increasing(Append(d, l + 1))
         /\ \A k \in 1 .. Len(Append(d, l + 1)) : Append(d, l + 1)[k] <= l + 1
  <1> DEFINE m == Len(d)
             e == Append(d, l + 1)
  <1>1. m \in Nat /\ \A k \in 1 .. m : d[k] \in Nat
    BY LenProperties, ElementOfSeq
  <1>2. Len(e) = m + 1 /\ e[m + 1] = l + 1 /\ \A x \in 1 .. m : e[x] = d[x]
    BY AppendProperties, LenProperties
  <1> HIDE DEF m, e
  <1>3. \A k \in 1 .. m : e[k] \in Nat /\ e[k] <= l
    BY <1>1, <1>2 DEF m
  <1>4. \A k \in 1 .. m + 1 : k \in 1 .. m \/ k = m + 1
    BY <1>1
  <1>5. \A k \in 1 .. m + 1 : e[k] <= l + 1
    BY <1>2, <1>3, <1>4
  <1>6. ASSUME NEW k \in 1 .. m + 1, NEW j \in 1 .. m + 1, k < j PROVE e[k] < e[j]
    <2>1. k \in 1 .. m
      BY <1>1, <1>6
    <2>2. CASE j \in 1 .. m
      <3>1. d[k] < d[j]
        BY <1>6, <2>1, <2>2 DEF Increasing, m
      <3> QED BY <1>2, <2>1, <2>2, <3>1
    <2>3. CASE j = m + 1
      BY <1>2, <1>3, <2>1, <2>3
    <2> QED BY <1>4, <2>2, <2>3
  <1> QED BY <1>2, <1>5, <1>6 DEF Increasing, e

\* Nothing remains: all of d is c.
LEMMA AllCollected ==
  ASSUME NEW c \in Seq(Nat), NEW d \in Seq(Nat), Starts(c, d),
         \A n \in Nat : ~Rest(d, Len(c), n)
  PROVE  c = d
  <1> DEFINE b == Len(c)
             m == Len(d)
  <1>1. /\ b \in Nat /\ m \in Nat /\ b <= m /\ \A k \in 1 .. m : d[k] \in Nat
        /\ \A x \in 1 .. b : c[x] = d[x]
    BY LenProperties, ElementOfSeq DEF Starts
  <1>2. ASSUME b < m PROVE FALSE
    <2> HIDE DEF b, m
    <2>1. b + 1 \in b + 1 .. m /\ b + 1 \in 1 .. m
      BY <1>1, <1>2
    <2>2. d[b + 1] \in Nat /\ Rest(d, b, d[b + 1])
      BY <1>1, <2>1 DEF Rest, m
    <2> QED BY <2>2 DEF b
  <1>3. b = m
    <2> HIDE DEF b, m
    <2> QED BY <1>1, <1>2
  <1> QED BY <1>1, <1>3, SeqEqual

\* Whole in the next state, from what is reported and collected in it.
LEMMA WholeNext ==
  ASSUME NEW q, NEW p, NEW s, NEW c, NEW d, c = Collected(q, s)', d = ReportAt(p, s)',
         Starts(c, d), \A n \in Nat : Rest(d, Len(c), n) <=> Between(q, p, s, n)'
  PROVE  Whole(q, p, s)'
  BY DEF Whole

\* Reports and collections are lists of lines.
LEMMA ListTypes ==
  ASSUME ShellType, NEW s \in Shells
  PROVE  /\ Owed(s) \in Seq(Nat) /\ Len(rings) \in Nat
         /\ \A p \in 1 .. Len(rings) + 1 : ReportAt(p, s) \in Seq(Nat)
         /\ \A q : Collected(q, s) \in Seq(Nat)
  <1>1. Owed(s) \in Seq(Nat)
    BY DEF ShellType, Owed
  <1>2. Len(rings) \in Nat
    BY LenProperties DEF ShellType
  <1>3. ASSUME NEW p \in 1 .. Len(rings) + 1 PROVE ReportAt(p, s) \in Seq(Nat)
    <2>1. CASE p <= Len(rings)
      <3>1. p \in 1 .. Len(rings)
        BY <1>2, <2>1
      <3>2. rings[p] \in RingEvents
        BY <3>1, ElementOfSeq DEF ShellType
      <3> QED BY <2>1, <3>2 DEF RingEvents, ReportAt
    <2>2. CASE ~(p <= Len(rings))
      BY <1>1, <2>2 DEF ReportAt
    <2> QED BY <2>1, <2>2
  <1>4. \A q : Collected(q, s) \in Seq(Nat)
    <2>1. lineMap[s] \in Seq(Nat) /\ <<>> \in Seq(Nat)
      BY DEF ShellType
    <2> QED BY <2>1 DEF Collected
  <1> QED BY <1>1, <1>2, <1>3, <1>4

\* The event r comes behind the others, and the reader does nothing.
Appends(r) == rings' = Append(rings, r) /\ UNCHANGED <<lineMap, shown>>

\* What was in the ring of m events is there, and reported as before; r is behind it.
RingGrew(m, r) ==
    /\ Len(rings') = m + 1
    /\ \A i \in 1 .. m : rings'[i] = rings[i]
    /\ rings'[m + 1] = r
    /\ \A i \in 1 .. m : \A u :
          /\ ReadAt(i)' <=> ReadAt(i)
          /\ Line(i)' = Line(i)
          /\ Reads(i, u)' <=> Reads(i, u)
          /\ Reports(i, u)' <=> Reports(i, u)
          /\ ReportAt(i, u)' = ReportAt(i, u)
    /\ \A u : ReportAt(m + 1, u)' = r.due
    /\ \A u : ReportAt(m + 1, u) = Owed(u)
    /\ \A u : ReportAt(m + 1 + 1, u)' = Owed(u)'
    /\ \A q, u : Collected(q, u)' = Collected(q, u)

\* An append is such a step.
LEMMA RingAppended ==
  ASSUME ShellType, NEW m \in Nat, m = Len(rings), NEW r, r \in RingEvents, Appends(r)
  PROVE  RingGrew(m, r)
  <1>1. rings \in Seq(RingEvents)
    BY DEF ShellType
  <1>2. Len(rings') = m + 1 /\ rings'[m + 1] = r /\ \A i \in 1 .. m : rings'[i] = rings[i]
    BY <1>1, AppendProperties DEF Appends
  <1>3. lineMap' = lineMap
    BY DEF Appends
  <1>4. ASSUME NEW i \in 1 .. m, NEW u
        PROVE  /\ ReadAt(i)' <=> ReadAt(i)
               /\ Line(i)' = Line(i)
               /\ Reads(i, u)' <=> Reads(i, u)
               /\ Reports(i, u)' <=> Reports(i, u)
    BY <1>2 DEF ReadAt, Line, Reads, Reports
  <1>5. ASSUME NEW i \in 1 .. m, NEW u PROVE ReportAt(i, u)' = ReportAt(i, u)
    <2>1. i <= m /\ i <= m + 1
      BY <1>1
    <2> QED BY <1>2, <2>1 DEF ReportAt
  <1>6. m + 1 <= m + 1 /\ ~(m + 1 <= m) /\ ~(m + 1 + 1 <= m + 1)
    BY <1>1
  <1>7. ASSUME NEW u
        PROVE  /\ ReportAt(m + 1, u)' = r.due /\ ReportAt(m + 1, u) = Owed(u)
               /\ ReportAt(m + 1 + 1, u)' = Owed(u)'
    BY <1>2, <1>6 DEF ReportAt
  <1>8. \A q, u : Collected(q, u)' = Collected(q, u)
    BY <1>3 DEF Collected
  <1> QED BY <1>2, <1>4, <1>5, <1>7, <1>8 DEF RingGrew

\* A span that ended within the ring is the same, one that did not may now end with
\* r or go on behind it.
LEMMA SpansAppended ==
  ASSUME ShellType, NEW m \in Nat, m = Len(rings), NEW r, r \in RingEvents, Appends(r),
         NEW u \in Shells,
         NEW q \in 0 .. m + 1, NEW p \in 1 .. m + 1 + 1, Span(q, p, u)'
  PROVE  \/ /\ p \in 1 .. m /\ q \in 0 .. m /\ Span(q, p, u)
            /\ \A n : Between(q, p, u, n)' <=> Between(q, p, u, n)
         \/ /\ p = m + 1 /\ q \in 0 .. m /\ Span(q, p, u)
            /\ Reports(m + 1, u)'
            /\ \A n : Between(q, p, u, n)' <=> Between(q, p, u, n)
         \/ /\ p = m + 1 + 1 /\ q = m + 1 /\ Reports(m + 1, u)'
            /\ \A n : ~Between(q, p, u, n)'
         \/ /\ p = m + 1 + 1 /\ q \in 0 .. m /\ Span(q, m + 1, u)
            /\ ~Reports(m + 1, u)'
            /\ \A n : Between(q, p, u, n)' <=>
                  \/ Between(q, m + 1, u, n)
                  \/ Reads(m + 1, u)' /\ r.data.line = n
  <1>1. m \in Nat
    OBVIOUS
  <1>2. /\ Len(rings') = m + 1 /\ rings'[m + 1] = r
        /\ \A i \in 1 .. m : /\ Line(i)' = Line(i)
                             /\ Reads(i, u)' <=> Reads(i, u)
                             /\ Reports(i, u)' <=> Reports(i, u)
    BY RingAppended DEF RingGrew
  <1>3. /\ q < p /\ (q = 0 \/ Reports(q, u)') /\ (p = m + 1 + 1 \/ Reports(p, u)')
        /\ \A i \in q + 1 .. p - 1 : ~Reports(i, u)'
    BY <1>2 DEF Span
  <1>4. q \in 0 .. m + 1 /\ p \in 1 .. m + 1 + 1
    OBVIOUS
  <1>5. ASSUME NEW z \in 1 .. m + 1, q < z
        PROVE  /\ \A i \in q + 1 .. z - 1 : i \in 1 .. m
               /\ \A n : Between(q, z, u, n)' <=> Between(q, z, u, n)
    <2>1. \A i \in q + 1 .. z - 1 : i \in 1 .. m
      BY <1>1, <1>4
    <2> QED BY <1>2, <2>1 DEF Between
  <1>6. CASE p \in 1 .. m
    <2>1. q \in 0 .. m /\ p \in 1 .. m + 1 /\ (q = 0 \/ q \in 1 .. m) /\ p # m + 1 + 1
      BY <1>1, <1>3, <1>4, <1>6
    <2>2. Span(q, p, u)
      BY <1>2, <1>3, <1>5, <1>6, <2>1 DEF Span
    <2> QED BY <1>3, <1>5, <1>6, <2>1, <2>2
  <1>7. CASE p = m + 1
    <2>1. q \in 0 .. m /\ p \in 1 .. m + 1 /\ (q = 0 \/ q \in 1 .. m) /\ p # m + 1 + 1
      BY <1>1, <1>3, <1>4, <1>7
    <2>2. Span(q, p, u)
      BY <1>2, <1>3, <1>5, <1>7, <2>1 DEF Span
    <2>3. Reports(m + 1, u)'
      BY <1>3, <1>7, <2>1
    <2> QED BY <1>3, <1>5, <1>7, <2>1, <2>2, <2>3
  <1>8. CASE p = m + 1 + 1 /\ q = m + 1
    <2>1. \A i \in q + 1 .. p - 1 : FALSE
      BY <1>1, <1>8
    <2>2. \A n : ~Between(q, p, u, n)'
      BY <2>1 DEF Between
    <2>3. Reports(m + 1, u)'
      BY <1>1, <1>3, <1>8
    <2> QED BY <1>8, <2>2, <2>3
  <1>9. CASE p = m + 1 + 1 /\ q # m + 1
    <2>1. q \in 0 .. m /\ m + 1 \in 1 .. m + 1 /\ (q = 0 \/ q \in 1 .. m) /\ q < m + 1
      BY <1>1, <1>4, <1>9
    <2>2. /\ \A i \in q + 1 .. p - 1 : i \in q + 1 .. (m + 1) - 1 \/ i = m + 1
          /\ \A i \in q + 1 .. (m + 1) - 1 : i \in q + 1 .. p - 1
          /\ m + 1 \in q + 1 .. p - 1
      BY <1>1, <1>9, <2>1
    <2>3. Span(q, m + 1, u)
      BY <1>2, <1>3, <1>5, <2>1, <2>2 DEF Span
    <2>4. ~Reports(m + 1, u)'
      BY <1>3, <2>2
    <2>5. Line(m + 1)' = r.data.line
      BY <1>2 DEF Line
    <2>6. ASSUME NEW n
          PROVE  Between(q, p, u, n)' <=>
                    Between(q, m + 1, u, n)' \/ (Reads(m + 1, u)' /\ r.data.line = n)
      BY <2>2, <2>5 DEF Between
    <2>7. \A n : Between(q, m + 1, u, n)' <=> Between(q, m + 1, u, n)
      BY <1>5, <2>1
    <2> QED BY <1>9, <2>1, <2>3, <2>4, <2>6, <2>7
  <1>10. p \in 1 .. m \/ p = m + 1 \/ p = m + 1 + 1
    BY <1>1, <1>4
  <1> QED BY <1>6, <1>7, <1>8, <1>9, <1>10

\* A line is read: it is owed from now on.
LEMMA WholeRead ==
  ASSUME ShellType, WholeLines, NEW r, r \in RingEvents, Appends(r), NEW s \in Shells,
         NEW l \in Nat, l = nlines, nlines' = l + 1,
         r.data.type = "readline", r.data.pid = s, r.data.line = l + 1, r.due = <<>>,
         Owed(s)' = Append(Owed(s), l + 1), \A u \in Shells : u # s => Owed(u)' = Owed(u),
         \A u \in Shells : sending'[u] # Shell!Idle => due'[u] = <<>>
  PROVE  WholeLines'
  <1>1. PICK m \in Nat : m = Len(rings)
    BY ListTypes
  <1>a. RingGrew(m, r)
    BY <1>1, RingAppended
  <1>2. /\ Len(rings') = m + 1 /\ rings'[m + 1] = r
        /\ \A i \in 1 .. m : (ReadAt(i)' <=> ReadAt(i)) /\ Line(i)' = Line(i)
        /\ \A i \in 1 .. m : \A u : ReportAt(i, u)' = ReportAt(i, u)
        /\ \A u : ReportAt(m + 1, u)' = r.due
        /\ \A u : ReportAt(m + 1, u) = Owed(u)
        /\ \A u : ReportAt(m + 1 + 1, u)' = Owed(u)'
        /\ \A q, u : Collected(q, u)' = Collected(q, u)
    BY <1>a DEF RingGrew
  <1>3. ReadAt(m + 1)' /\ Line(m + 1)' = l + 1 /\ \A u : Reads(m + 1, u)' <=> u = s
    BY <1>2 DEF ReadAt, Line, Reads
  <1>4. \A u : ~Reports(m + 1, u)'
    BY <1>3 DEF Reports
  <1>5. \A i \in 1 .. m + 1 : i \in 1 .. m \/ i = m + 1
    OBVIOUS
  <1>6. \A i \in 1 .. m : Line(i) \in Nat
    <2> SUFFICES ASSUME NEW i \in 1 .. m PROVE Line(i) \in Nat
      OBVIOUS
    <2>1. rings[i] \in RingEvents
      BY <1>1, ElementOfSeq DEF ShellType
    <2>2. rings[i].data \in SentEvents
      BY <2>1 DEF RingEvents
    <2> QED BY <2>2 DEF SentEvents, ShellEvents, Line
  <1>7. RingOrder'
    <2>1. /\ \A i, j \in 1 .. m : ReadAt(i) /\ ReadAt(j) /\ i < j => Line(i) < Line(j)
          /\ \A i \in 1 .. m : ReadAt(i) => Line(i) <= l
      BY <1>1 DEF WholeLines, RingOrder
    <2>2. ASSUME NEW i \in 1 .. m + 1, NEW j \in 1 .. m + 1, ReadAt(i)', ReadAt(j)', i < j
          PROVE  Line(i)' < Line(j)'
      <3>1. i \in 1 .. m
        BY <2>2
      <3>2. CASE j \in 1 .. m
        BY <1>2, <2>1, <2>2, <3>1, <3>2
      <3>3. CASE j = m + 1
        <4>1. Line(i)' = Line(i) /\ Line(i) \in Nat /\ Line(i) <= l /\ Line(j)' = l + 1
          BY <1>2, <1>3, <1>6, <2>1, <2>2, <3>1, <3>3
        <4> QED BY <4>1
      <3> QED BY <1>5, <3>2, <3>3
    <2>3. ASSUME NEW i \in 1 .. m + 1, ReadAt(i)' PROVE Line(i)' <= l + 1
      <3>1. CASE i \in 1 .. m
        <4>1. Line(i)' = Line(i) /\ Line(i) \in Nat /\ Line(i) <= l
          BY <1>2, <1>6, <2>1, <2>3, <3>1
        <4> QED BY <4>1
      <3>2. CASE i = m + 1
        BY <1>3, <3>2
      <3> QED BY <1>5, <3>1, <3>2
    <2> QED BY <1>2, <2>2, <2>3 DEF RingOrder
  <1>8. ASSUME NEW u \in Shells
        PROVE  /\ Owed(u) \in Seq(Nat) /\ Increasing(Owed(u))
               /\ \A k \in 1 .. Len(Owed(u)) : Owed(u)[k] <= l
    <2>1. m + 1 \in 1 .. m + 1
      OBVIOUS
    <2>2. Increasing(ReportAt(m + 1, u))
      BY <1>1, <2>1 DEF WholeLines, DueOrder
    <2>3. \A k \in 1 .. Len(Owed(u)) : Owed(u)[k] <= l
      BY DEF WholeLines, DueOrder
    <2> QED BY <1>2, <2>2, <2>3, ListTypes
  <1>9. ASSUME NEW u \in Shells, NEW d, d = Owed(u)'
        PROVE  Increasing(d) /\ \A k \in 1 .. Len(d) : d[k] <= l + 1
    <2>1. CASE u = s
      <3>1. PICK o \in Seq(Nat) : o = Owed(s)
        BY <1>8
      <3>2. Increasing(o) /\ \A k \in 1 .. Len(o) : o[k] <= l
        BY <1>8, <3>1
      <3>3. d = Append(o, l + 1)
        BY <1>9, <2>1, <3>1
      <3> QED BY <3>2, <3>3, StillIncreasing
    <2>2. CASE u # s
      <3>1. d \in Seq(Nat) /\ Increasing(d) /\ \A k \in 1 .. Len(d) : d[k] <= l
        BY <1>8, <1>9, <2>2
      <3>2. \A k \in 1 .. Len(d) : d[k] \in Nat
        BY <3>1, ElementOfSeq
      <3> QED BY <3>1, <3>2
    <2> QED BY <2>1, <2>2
  <1>10. DueOrder'
    <2>1. ASSUME NEW u \in Shells, NEW k \in 1 .. Len(Owed(u)') PROVE Owed(u)'[k] <= l + 1
      BY <1>9
    <2>2. ASSUME NEW u \in Shells, NEW p \in 1 .. m + 1 + 1, NEW d, d = ReportAt(p, u)'
          PROVE  Increasing(d)
      <3>1. CASE p \in 1 .. m
        <4>1. p \in 1 .. m + 1 /\ d = ReportAt(p, u)
          BY <1>2, <2>2, <3>1
        <4> QED BY <1>1, <4>1 DEF WholeLines, DueOrder
      <3>2. CASE p = m + 1
        <4>1. d = <<>>
          BY <1>2, <2>2, <3>2
        <4> QED BY <4>1 DEF Increasing
      <3>3. CASE p = m + 1 + 1
        BY <1>2, <1>9, <2>2, <3>3
      <3>4. p \in 1 .. m \/ p = m + 1 \/ p = m + 1 + 1
        OBVIOUS
      <3> QED BY <3>1, <3>2, <3>3, <3>4
    <2>3. \A u \in Shells, p \in 1 .. m + 1 + 1 : Increasing(ReportAt(p, u)')
      BY <2>2
    <2> QED BY <1>2, <2>1, <2>3 DEF DueOrder
  <1>11. ASSUME NEW u \in Shells, NEW q \in 0 .. m + 1, NEW p \in 1 .. m + 1 + 1, Span(q, p, u)'
         PROVE  Whole(q, p, u)'
    <2>1. \/ /\ p \in 1 .. m /\ q \in 0 .. m /\ Span(q, p, u)
             /\ \A n : Between(q, p, u, n)' <=> Between(q, p, u, n)
          \/ /\ p = m + 1 + 1 /\ q \in 0 .. m /\ Span(q, m + 1, u)
             /\ \A n : Between(q, p, u, n)' <=>
                   Between(q, m + 1, u, n) \/ (Reads(m + 1, u)' /\ r.data.line = n)
      BY <1>1, <1>4, <1>11, SpansAppended
    <2>2. PICK c \in Seq(Nat) : c = Collected(q, u)
      BY ListTypes
    <2>3. c = Collected(q, u)'
      BY <1>2, <2>2
    <2>4. CASE /\ p \in 1 .. m /\ q \in 0 .. m /\ Span(q, p, u)
               /\ \A n : Between(q, p, u, n)' <=> Between(q, p, u, n)
      <3>0. p \in 1 .. m + 1
        BY <2>4
      <3>1. PICK d \in Seq(Nat) : d = ReportAt(p, u)
        BY <1>1, <3>0, ListTypes
      <3>2. Whole(q, p, u)
        BY <1>1, <2>4, <3>0 DEF WholeLines, WholeSpans
      <3>3. d = ReportAt(p, u)'
        BY <1>2, <2>4, <3>1
      <3>4. Starts(c, d) /\ \A n \in Nat : Rest(d, Len(c), n) <=> Between(q, p, u, n)'
        BY <2>2, <2>4, <3>1, <3>2 DEF Whole
      <3> QED BY <2>3, <3>3, <3>4, WholeNext
    <2>5. CASE /\ p = m + 1 + 1 /\ q \in 0 .. m /\ Span(q, m + 1, u)
               /\ \A n : Between(q, p, u, n)' <=>
                     Between(q, m + 1, u, n) \/ (Reads(m + 1, u)' /\ r.data.line = n)
      <3>0. m + 1 \in 1 .. m + 1
        OBVIOUS
      <3>1. Whole(q, m + 1, u)
        BY <1>1, <2>5, <3>0 DEF WholeLines, WholeSpans
      <3>2. PICK d \in Seq(Nat) : d = Owed(u)
        BY <1>8
      <3>3. Starts(c, d) /\ \A n \in Nat : Rest(d, Len(c), n) <=> Between(q, m + 1, u, n)
        BY <1>2, <2>2, <3>1, <3>2 DEF Whole
      <3>4. CASE u # s
        <4>1. d = ReportAt(p, u)'
          BY <1>2, <2>5, <3>2, <3>4
        <4>2. \A n \in Nat : Rest(d, Len(c), n) <=> Between(q, p, u, n)'
          BY <1>3, <2>5, <3>3, <3>4
        <4> QED BY <2>3, <3>3, <4>1, <4>2, WholeNext
      <3>5. CASE u = s
        <4>1. PICK e : e = Append(d, l + 1)
          OBVIOUS
        <4>2. e = ReportAt(p, u)'
          BY <1>2, <2>5, <3>2, <3>5, <4>1
        <4>3. /\ Starts(c, e)
              /\ \A n \in Nat : Rest(e, Len(c), n) <=> Rest(d, Len(c), n) \/ n = l + 1
          BY <3>3, <4>1, OneMoreLine
        <4>4. \A n \in Nat : Rest(e, Len(c), n) <=> Between(q, p, u, n)'
          BY <1>3, <2>5, <3>3, <3>5, <4>3
        <4> QED BY <2>3, <4>2, <4>3, <4>4, WholeNext
      <3> QED BY <3>4, <3>5
    <2> QED BY <2>1, <2>4, <2>5
  <1>12. WholeSpans'
    BY <1>2, <1>11 DEF WholeSpans
  <1>13. \A a \in shown' : a.lines = a.due
    BY DEF WholeLines, Appends
  <1> QED BY <1>7, <1>10, <1>12, <1>13 DEF WholeLines

\* A report is sent: nothing is owed any more.
LEMMA WholeReport ==
  ASSUME ShellType, WholeLines, NEW r, r \in RingEvents, Appends(r), NEW s \in Shells,
         nlines' = nlines,
         r.data.type # "readline", r.data.pid = s, r.due = Owed(s),
         Owed(s)' = <<>>, \A u \in Shells : u # s => Owed(u)' = Owed(u),
         \A u \in Shells : sending'[u] # Shell!Idle => due'[u] = <<>>
  PROVE  WholeLines'
  <1>1. PICK m \in Nat : m = Len(rings)
    BY ListTypes
  <1>a. RingGrew(m, r)
    BY <1>1, RingAppended
  <1>2. /\ Len(rings') = m + 1 /\ rings'[m + 1] = r
        /\ \A i \in 1 .. m : (ReadAt(i)' <=> ReadAt(i)) /\ Line(i)' = Line(i)
        /\ \A i \in 1 .. m : \A u : ReportAt(i, u)' = ReportAt(i, u)
        /\ \A u : ReportAt(m + 1, u)' = r.due
        /\ \A u : ReportAt(m + 1, u) = Owed(u)
        /\ \A u : ReportAt(m + 1 + 1, u)' = Owed(u)'
        /\ \A q, u : Collected(q, u)' = Collected(q, u)
    BY <1>a DEF RingGrew
  <1>3. ~ReadAt(m + 1)' /\ \A u : ~Reads(m + 1, u)' /\ (Reports(m + 1, u)' <=> u = s)
    BY <1>2 DEF ReadAt, Reads, Reports
  <1>4. \A i \in 1 .. m + 1 : i \in 1 .. m \/ i = m + 1
    OBVIOUS
  <1>5. RingOrder'
    <2>1. \A i \in 1 .. m + 1 : ReadAt(i)' => i \in 1 .. m
      BY <1>3, <1>4
    <2>2. /\ \A i, j \in 1 .. m : ReadAt(i) /\ ReadAt(j) /\ i < j => Line(i) < Line(j)
          /\ \A i \in 1 .. m : ReadAt(i) => Line(i) <= nlines
      BY <1>1 DEF WholeLines, RingOrder
    <2>3. ASSUME NEW i \in 1 .. m + 1, NEW j \in 1 .. m + 1, ReadAt(i)', ReadAt(j)', i < j
          PROVE  Line(i)' < Line(j)'
      BY <1>2, <2>1, <2>2, <2>3
    <2>4. ASSUME NEW i \in 1 .. m + 1, ReadAt(i)' PROVE Line(i)' <= nlines'
      BY <1>2, <2>1, <2>2, <2>4
    <2> QED BY <1>2, <2>3, <2>4 DEF RingOrder
  <1>6. \A u \in Shells, p \in 1 .. m + 1 : Increasing(ReportAt(p, u))
    BY <1>1 DEF WholeLines, DueOrder
  <1>7. \A u \in Shells : \A k \in 1 .. Len(Owed(u)) : Owed(u)[k] <= nlines
    BY DEF WholeLines, DueOrder
  <1>8. m + 1 \in 1 .. m + 1
    OBVIOUS
  <1>9. \A u \in Shells : Increasing(Owed(u))
    BY <1>2, <1>6, <1>8
  <1>10. DueOrder'
    <2>1. ASSUME NEW u \in Shells, NEW k \in 1 .. Len(Owed(u)') PROVE Owed(u)'[k] <= nlines'
      <3>1. CASE u = s
        <4>1. Len(<<>>) = 0 /\ \A x \in 1 .. 0 : FALSE
          OBVIOUS
        <4> QED BY <2>1, <3>1, <4>1
      <3>2. CASE u # s
        BY <1>7, <2>1, <3>2
      <3> QED BY <3>1, <3>2
    <2>2. ASSUME NEW u \in Shells, NEW p \in 1 .. m + 1 + 1, NEW d, d = ReportAt(p, u)'
          PROVE  Increasing(d)
      <3>1. CASE p \in 1 .. m
        <4>1. p \in 1 .. m + 1 /\ d = ReportAt(p, u)
          BY <1>2, <2>2, <3>1
        <4> QED BY <1>6, <4>1
      <3>2. CASE p = m + 1
        BY <1>2, <1>9, <2>2, <3>2
      <3>3. CASE p = m + 1 + 1 /\ u = s
        <4>1. d = <<>>
          BY <1>2, <2>2, <3>3
        <4> QED BY <4>1 DEF Increasing
      <3>4. CASE p = m + 1 + 1 /\ u # s
        BY <1>2, <1>9, <2>2, <3>4
      <3>5. p \in 1 .. m \/ p = m + 1 \/ p = m + 1 + 1
        OBVIOUS
      <3> QED BY <3>1, <3>2, <3>3, <3>4, <3>5
    <2>3. \A u \in Shells, p \in 1 .. m + 1 + 1 : Increasing(ReportAt(p, u)')
      BY <2>2
    <2> QED BY <1>2, <2>1, <2>3 DEF DueOrder
  <1>11. ASSUME NEW u \in Shells, NEW q \in 0 .. m + 1, NEW p \in 1 .. m + 1 + 1, Span(q, p, u)'
         PROVE  Whole(q, p, u)'
    <2>1. \/ /\ p \in 1 .. m + 1 /\ q \in 0 .. m /\ Span(q, p, u)
             /\ p = m + 1 => u = s
             /\ \A n : Between(q, p, u, n)' <=> Between(q, p, u, n)
          \/ /\ p = m + 1 + 1 /\ q = m + 1 /\ u = s /\ \A n : ~Between(q, p, u, n)'
          \/ /\ p = m + 1 + 1 /\ q \in 0 .. m /\ Span(q, m + 1, u) /\ u # s
             /\ \A n : Between(q, p, u, n)' <=> Between(q, m + 1, u, n)
      <3>1. m + 1 # m + 1 + 1 /\ \A x \in 1 .. m : x \in 1 .. m + 1 /\ x # m + 1
        OBVIOUS
      <3> QED BY <1>1, <1>3, <1>8, <1>11, <3>1, SpansAppended
    <2>2. PICK c \in Seq(Nat) : c = Collected(q, u)
      BY ListTypes
    <2>3. c = Collected(q, u)'
      BY <1>2, <2>2
    <2>4. CASE /\ p \in 1 .. m + 1 /\ q \in 0 .. m /\ Span(q, p, u)
               /\ p = m + 1 => u = s
               /\ \A n : Between(q, p, u, n)' <=> Between(q, p, u, n)
      <3>1. PICK d \in Seq(Nat) : d = ReportAt(p, u)
        BY <1>1, <2>4, ListTypes
      <3>2. Whole(q, p, u)
        BY <1>1, <2>4 DEF WholeLines, WholeSpans
      <3>3. d = ReportAt(p, u)'
        BY <1>2, <1>4, <2>4, <3>1
      <3>4. Starts(c, d) /\ \A n \in Nat : Rest(d, Len(c), n) <=> Between(q, p, u, n)'
        BY <2>2, <2>4, <3>1, <3>2 DEF Whole
      <3> QED BY <2>3, <3>3, <3>4, WholeNext
    <2>5. CASE p = m + 1 + 1 /\ q = m + 1 /\ u = s /\ \A n : ~Between(q, p, u, n)'
      <3>1. PICK d : d = <<>>
        OBVIOUS
      <3>2. d = ReportAt(p, u)'
        BY <1>2, <2>5, <3>1
      <3>3. c = <<>>
        BY <2>2, <2>5 DEF Collected
      <3>4. Starts(c, d) /\ \A n \in Nat : ~Rest(d, Len(c), n)
        BY <3>1, <3>3 DEF Starts, Rest
      <3> QED BY <2>3, <2>5, <3>2, <3>4, WholeNext
    <2>6. CASE /\ p = m + 1 + 1 /\ q \in 0 .. m /\ Span(q, m + 1, u) /\ u # s
               /\ \A n : Between(q, p, u, n)' <=> Between(q, m + 1, u, n)
      <3>1. Whole(q, m + 1, u)
        BY <1>1, <1>8, <2>6 DEF WholeLines, WholeSpans
      <3>2. PICK d : d = Owed(u)
        OBVIOUS
      <3>3. d = ReportAt(p, u)'
        BY <1>2, <2>6, <3>2
      <3>4. Starts(c, d) /\ \A n \in Nat : Rest(d, Len(c), n) <=> Between(q, p, u, n)'
        BY <1>2, <2>2, <2>6, <3>1, <3>2 DEF Whole
      <3> QED BY <2>3, <3>3, <3>4, WholeNext
    <2> QED BY <2>1, <2>4, <2>5, <2>6
  <1>12. WholeSpans'
    BY <1>2, <1>11 DEF WholeSpans
  <1>13. \A a \in shown' : a.lines = a.due
    BY DEF WholeLines, Appends
  <1> QED BY <1>5, <1>10, <1>12, <1>13 DEF WholeLines

\* The reader takes the first event, and the shells do nothing.
Takes == rings' = Shell!RemoveAt(rings, 1) /\ UNCHANGED <<nlines, sending, due>>

\* What is left of the ring, and what is reported there.
LEMMA RingTaken ==
  ASSUME ShellType, NEW m \in Nat, m + 1 = Len(rings), Takes
  PROVE  /\ Len(rings') = m
         /\ \A i \in 1 .. m : \A u : /\ ReadAt(i)' <=> ReadAt(i + 1)
                                     /\ Line(i)' = Line(i + 1)
                                     /\ Reads(i, u)' <=> Reads(i + 1, u)
                                     /\ Reports(i, u)' <=> Reports(i + 1, u)
         /\ \A u : Owed(u)' = Owed(u)
         /\ \A p \in 1 .. m + 1 : \A u : ReportAt(p, u)' = ReportAt(p + 1, u)
  <1>1. 1 \in 1 .. Len(rings) /\ Len(rings) - 1 = m
    BY LenProperties
  <1>2. PICK r : r = Shell!RemoveAt(rings, 1)
    OBVIOUS
  <1>3. /\ Len(r) = Len(rings) - 1
        /\ \A k \in 1 .. Len(rings) - 1 : r[k] = IF k < 1 THEN rings[k] ELSE rings[k + 1]
    BY <1>1, <1>2, RemoveEffect
  <1>4. Len(rings') = m /\ \A k \in 1 .. m : rings'[k] = rings[k + 1]
    <2>1. rings' = r
      BY <1>2 DEF Takes
    <2>2. \A k \in 1 .. m : ~(k < 1)
      OBVIOUS
    <2> QED BY <1>1, <1>3, <2>1, <2>2
  <1>5. ASSUME NEW i \in 1 .. m, NEW u
        PROVE  /\ ReadAt(i)' <=> ReadAt(i + 1)
               /\ Line(i)' = Line(i + 1)
               /\ Reads(i, u)' <=> Reads(i + 1, u)
               /\ Reports(i, u)' <=> Reports(i + 1, u)
    BY <1>4 DEF ReadAt, Line, Reads, Reports
  <1>6. \A u : Owed(u)' = Owed(u)
    BY DEF Owed, Takes
  <1>7. ASSUME NEW p \in 1 .. m + 1, NEW u PROVE ReportAt(p, u)' = ReportAt(p + 1, u)
    <2>1. CASE p \in 1 .. m
      <3>1. p <= m /\ p + 1 <= m + 1
        BY <2>1
      <3> QED BY <1>4, <2>1, <3>1 DEF ReportAt
    <2>2. CASE p = m + 1
      <3>1. ~(p <= m) /\ ~(p + 1 <= m + 1)
        BY <2>2
      <3> QED BY <1>4, <1>6, <3>1 DEF ReportAt
    <2>3. p \in 1 .. m \/ p = m + 1
      OBVIOUS
    <2> QED BY <2>1, <2>2, <2>3
  <1> QED BY <1>4, <1>5, <1>6, <1>7

\* The order of the lines is what it was.
LEMMA OrderTaken ==
  ASSUME ShellType, NEW m \in Nat, m + 1 = Len(rings), Takes, RingOrder, DueOrder
  PROVE  RingOrder' /\ DueOrder'
  <1>1. /\ Len(rings') = m
        /\ \A i \in 1 .. m : (ReadAt(i)' <=> ReadAt(i + 1)) /\ Line(i)' = Line(i + 1)
        /\ \A u : Owed(u)' = Owed(u)
        /\ \A p \in 1 .. m + 1 : \A u : ReportAt(p, u)' = ReportAt(p + 1, u)
    BY RingTaken
  <1>2. UNCHANGED <<nlines, sending, due>>
    BY DEF Takes
  <1>3. \A i \in 1 .. m : i + 1 \in 1 .. m + 1
    OBVIOUS
  <1>4. RingOrder'
    <2>1. ASSUME NEW i \in 1 .. m, NEW j \in 1 .. m, ReadAt(i)', ReadAt(j)', i < j
          PROVE  Line(i)' < Line(j)'
      <3>1. i + 1 < j + 1
        BY <2>1
      <3> QED BY <1>1, <1>3, <2>1, <3>1 DEF RingOrder
    <2>2. ASSUME NEW i \in 1 .. m, ReadAt(i)' PROVE Line(i)' <= nlines
      BY <1>1, <1>3, <2>2 DEF RingOrder
    <2> QED BY <1>1, <1>2, <2>1, <2>2 DEF RingOrder
  <1>5. DueOrder'
    <2>1. ASSUME NEW u \in Shells, NEW p \in 1 .. m + 1 PROVE Increasing(ReportAt(p, u)')
      <3>1. p + 1 \in 1 .. Len(rings) + 1
        OBVIOUS
      <3>2. Increasing(ReportAt(p + 1, u))
        BY <3>1 DEF DueOrder
      <3> QED BY <1>1, <3>2
    <2>2. ASSUME NEW u \in Shells, NEW k \in 1 .. Len(Owed(u)') PROVE Owed(u)'[k] <= nlines
      BY <1>1, <2>2 DEF DueOrder
    <2>3. \A u \in Shells : sending'[u] # Shell!Idle => due'[u] = <<>>
      BY <1>2 DEF DueOrder
    <2> QED BY <1>1, <1>2, <2>1, <2>2, <2>3 DEF DueOrder
  <1> QED BY <1>4, <1>5

\* A span of what is left was one with the first event, or one behind it.
LEMMA SpansTaken ==
  ASSUME ShellType, NEW m \in Nat, m + 1 = Len(rings), Takes, NEW u \in Shells,
         NEW q \in 0 .. m, NEW p \in 1 .. m + 1, Span(q, p, u)'
  PROVE  \/ /\ q = 0 /\ ~Reports(1, u) /\ Span(0, p + 1, u)
            /\ \A n : Between(0, p + 1, u, n) <=>
                  Between(q, p, u, n)' \/ (Reads(1, u) /\ Line(1) = n)
         \/ /\ q # 0 \/ Reports(1, u)
            /\ Span(q + 1, p + 1, u)
            /\ \A n : Between(q + 1, p + 1, u, n) <=> Between(q, p, u, n)'
  <1>1. /\ Len(rings') = m
        /\ \A i \in 1 .. m : /\ Line(i)' = Line(i + 1)
                             /\ Reads(i, u)' <=> Reads(i + 1, u)
                             /\ Reports(i, u)' <=> Reports(i + 1, u)
    BY RingTaken
  <1>2. /\ q < p /\ (q = 0 \/ Reports(q, u)') /\ (p = m + 1 \/ Reports(p, u)')
        /\ \A i \in q + 1 .. p - 1 : ~Reports(i, u)'
    BY <1>1 DEF Span
  <1>3. /\ \A i \in q + 1 .. p - 1 : i \in 1 .. m /\ i + 1 \in q + 1 + 1 .. (p + 1) - 1
        /\ \A i \in q + 1 + 1 .. (p + 1) - 1 : i - 1 \in q + 1 .. p - 1 /\ (i - 1) + 1 = i
    OBVIOUS
  <1>4. p + 1 = m + 1 + 1 \/ Reports(p + 1, u)
    <2>1. p = m + 1 \/ p \in 1 .. m
      OBVIOUS
    <2> QED BY <1>1, <1>2, <2>1
  <1>5. ASSUME NEW i \in q + 1 + 1 .. (p + 1) - 1 PROVE ~Reports(i, u)
    <2>1. i - 1 \in q + 1 .. p - 1 /\ i - 1 \in 1 .. m /\ (i - 1) + 1 = i
      BY <1>3
    <2> QED BY <1>1, <1>2, <2>1
  <1>6. \A n : Between(q + 1, p + 1, u, n) <=> Between(q, p, u, n)'
    <2>1. ASSUME NEW n, Between(q + 1, p + 1, u, n) PROVE Between(q, p, u, n)'
      <3>1. PICK i \in q + 1 + 1 .. (p + 1) - 1 : Reads(i, u) /\ Line(i) = n
        BY <2>1 DEF Between
      <3>2. i - 1 \in q + 1 .. p - 1 /\ i - 1 \in 1 .. m /\ Reads(i - 1, u)' /\ Line(i - 1)' = n
        BY <1>1, <1>3, <3>1
      <3> QED BY <3>2 DEF Between
    <2>2. ASSUME NEW n, Between(q, p, u, n)' PROVE Between(q + 1, p + 1, u, n)
      <3>1. PICK i \in q + 1 .. p - 1 : Reads(i, u)' /\ Line(i)' = n
        BY <2>2 DEF Between
      <3>2. i + 1 \in q + 1 + 1 .. (p + 1) - 1 /\ Reads(i + 1, u) /\ Line(i + 1) = n
        BY <1>1, <1>3, <3>1
      <3> QED BY <3>2 DEF Between
    <2> QED BY <2>1, <2>2
  <1>7. CASE q = 0 /\ ~Reports(1, u)
    <2>1. /\ \A i \in 0 + 1 .. (p + 1) - 1 : i = 1 \/ i \in q + 1 + 1 .. (p + 1) - 1
          /\ \A i \in q + 1 + 1 .. (p + 1) - 1 : i \in 0 + 1 .. (p + 1) - 1
          /\ 1 \in 0 + 1 .. (p + 1) - 1 /\ 0 < p + 1
      BY <1>7
    <2>2. Span(0, p + 1, u)
      BY <1>4, <1>5, <1>7, <2>1 DEF Span
    <2>3. \A n : Between(0, p + 1, u, n) <=>
             Between(q + 1, p + 1, u, n) \/ (Reads(1, u) /\ Line(1) = n)
      BY <2>1 DEF Between
    <2> QED BY <1>6, <1>7, <2>2, <2>3
  <1>8. CASE q # 0 \/ Reports(1, u)
    <2>1. q + 1 < p + 1
      BY <1>2
    <2>2. Reports(q + 1, u)
      <3>1. CASE q = 0
        <4>1. q + 1 = 1
          BY <3>1
        <4> QED BY <1>8, <3>1, <4>1
      <3>2. CASE q # 0
        <4>1. q \in 1 .. m
          BY <3>2
        <4> QED BY <1>1, <1>2, <3>2, <4>1
      <3> QED BY <3>1, <3>2
    <2>3. Span(q + 1, p + 1, u)
      BY <1>4, <1>5, <2>1, <2>2 DEF Span
    <2> QED BY <1>6, <1>8, <2>3
  <1> QED BY <1>7, <1>8

\* A line of s is collected: it is the next of those that its report has.
LEMMA WholeCollect ==
  ASSUME ShellType, WholeLines, NEW m \in Nat, m + 1 = Len(rings), Takes, NEW s \in Shells,
         NEW l \in Nat, Reads(1, s), l = Line(1), Collects(s, l), shown' = shown
  PROVE  WholeLines'
  <1>1. /\ Len(rings') = m
        /\ \A i \in 1 .. m : \A u : /\ Line(i)' = Line(i + 1)
                                    /\ Reads(i, u)' <=> Reads(i + 1, u)
        /\ \A p \in 1 .. m + 1 : \A u : ReportAt(p, u)' = ReportAt(p + 1, u)
    BY RingTaken
  <1>2. RingOrder' /\ DueOrder'
    BY OrderTaken DEF WholeLines
  <1>3. /\ ReadAt(1) /\ \A u : ~Reports(1, u)
        /\ \A u : Reads(1, u) <=> u = s
    BY DEF Reads, Reports
  <1>4. lineMap \in [Shells -> Seq(Nat)]
    BY DEF ShellType
  <1>5. \A q, u : q # 0 => Collected(q, u)' = <<>> /\ Collected(q, u) = <<>>
    BY DEF Collected
  <1>6. \A u \in Shells : u # s => Collected(0, u)' = Collected(0, u)
    BY <1>4 DEF Collected, Collects
  <1>7. Collected(0, s)' = Append(Collected(0, s), l)
    BY <1>4 DEF Collected, Collects
  <1>8. /\ \A i, j \in 1 .. m + 1 : ReadAt(i) /\ ReadAt(j) /\ i < j => Line(i) < Line(j)
        /\ \A v \in Shells, x \in 0 .. m + 1, y \in 1 .. m + 1 + 1 : Span(x, y, v) => Whole(x, y, v)
        /\ \A v \in Shells, y \in 1 .. m + 1 + 1 : Increasing(ReportAt(y, v))
    BY DEF WholeLines, RingOrder, DueOrder, WholeSpans
  <1>9. \A i \in 1 .. m + 1 : ReadAt(i) => i = 1 \/ l < Line(i)
    <2> SUFFICES ASSUME NEW i \in 1 .. m + 1, ReadAt(i), i # 1 PROVE l < Line(i)
      OBVIOUS
    <2>1. 1 \in 1 .. m + 1 /\ 1 < i
      OBVIOUS
    <2> QED BY <1>3, <1>8, <2>1
  <1>10. ASSUME NEW u \in Shells, NEW q \in 0 .. m, NEW p \in 1 .. m + 1, Span(q, p, u)'
         PROVE  Whole(q, p, u)'
    <2>1. p + 1 \in 1 .. m + 1 + 1 /\ q + 1 \in 0 .. m + 1 /\ 0 \in 0 .. m + 1 /\ q + 1 # 0
      OBVIOUS
    <2>2. PICK d \in Seq(Nat) : d = ReportAt(p + 1, u)
      BY <2>1, ListTypes
    <2>3. d = ReportAt(p, u)' /\ Increasing(d)
      BY <1>1, <1>8, <2>1, <2>2
    <2>4. \/ /\ q = 0 /\ Span(0, p + 1, u)
             /\ \A n : Between(0, p + 1, u, n) <=>
                   Between(q, p, u, n)' \/ (Reads(1, u) /\ Line(1) = n)
          \/ /\ q # 0 /\ Span(q + 1, p + 1, u)
             /\ \A n : Between(q + 1, p + 1, u, n) <=> Between(q, p, u, n)'
      BY <1>3, <1>10, SpansTaken
    <2>5. CASE /\ q # 0 /\ Span(q + 1, p + 1, u)
               /\ \A n : Between(q + 1, p + 1, u, n) <=> Between(q, p, u, n)'
      <3>1. Whole(q + 1, p + 1, u)
        BY <1>8, <2>1, <2>5
      <3>2. PICK c : c = Collected(q + 1, u)
        OBVIOUS
      <3>3. c = Collected(q, u)'
        BY <1>5, <2>1, <2>5, <3>2
      <3>4. Starts(c, d) /\ \A n \in Nat : Rest(d, Len(c), n) <=> Between(q, p, u, n)'
        BY <2>2, <2>5, <3>1, <3>2 DEF Whole
      <3> QED BY <2>3, <3>3, <3>4, WholeNext
    <2>6. CASE /\ q = 0 /\ Span(0, p + 1, u)
               /\ \A n : Between(0, p + 1, u, n) <=>
                     Between(q, p, u, n)' \/ (Reads(1, u) /\ Line(1) = n)
      <3>1. Whole(0, p + 1, u)
        BY <1>8, <2>1, <2>6
      <3>2. PICK c \in Seq(Nat) : c = Collected(0, u)
        BY ListTypes
      <3>3. Starts(c, d) /\ \A n \in Nat : Rest(d, Len(c), n) <=> Between(0, p + 1, u, n)
        BY <2>2, <3>1, <3>2 DEF Whole
      <3>4. CASE u # s
        <4>1. c = Collected(q, u)'
          BY <1>6, <2>6, <3>2, <3>4
        <4>2. \A n \in Nat : Rest(d, Len(c), n) <=> Between(q, p, u, n)'
          BY <1>3, <2>6, <3>3, <3>4
        <4> QED BY <2>3, <3>3, <4>1, <4>2, WholeNext
      <3>5. CASE u = s
        <4>1. PICK e : e = Append(c, l)
          OBVIOUS
        <4>2. e = Collected(q, u)'
          BY <1>7, <2>6, <3>2, <3>5, <4>1
        <4>3. Rest(d, Len(c), l)
          BY <1>3, <2>6, <3>3, <3>5
        <4>4. ASSUME NEW n \in Nat, Between(q, p, u, n)' PROVE l < n
          <5>1. PICK i \in q + 1 .. p - 1 : Reads(i, u)' /\ Line(i)' = n
            BY <4>4 DEF Between
          <5>2. i \in 1 .. m /\ i + 1 \in 1 .. m + 1 /\ i + 1 # 1
            BY <2>6
          <5>3. Reads(i + 1, u) /\ Line(i + 1) = n
            BY <1>1, <5>1, <5>2
          <5> QED BY <1>9, <5>2, <5>3 DEF Reads
        <4>5. \A n \in Nat : l < n => l <= n /\ n # l
          OBVIOUS
        <4>6. l <= l
          OBVIOUS
        <4>7. \A n \in Nat : Rest(d, Len(c), n) => l <= n
          BY <2>6, <3>3, <4>4, <4>5, <4>6
        <4>8. /\ Starts(e, d)
              /\ \A n \in Nat : Rest(d, Len(e), n) <=> Rest(d, Len(c), n) /\ n # l
          BY <2>3, <3>3, <4>1, <4>3, <4>7, NextLine
        <4>9. \A n \in Nat : Rest(d, Len(e), n) <=> Between(q, p, u, n)'
          BY <1>3, <2>6, <3>3, <3>5, <4>4, <4>5, <4>8
        <4> QED BY <2>3, <4>2, <4>8, <4>9, WholeNext
      <3> QED BY <3>4, <3>5
    <2> QED BY <2>4, <2>5, <2>6
  <1>11. WholeSpans'
    BY <1>1, <1>10 DEF WholeSpans
  <1> QED BY <1>2, <1>11 DEF WholeLines

\* A report of s is handled: the lines collected are those it has.
LEMMA WholeShow ==
  ASSUME ShellType, WholeLines, NEW m \in Nat, m + 1 = Len(rings), Takes, NEW s \in Shells, NEW a,
         Reports(1, s), Shows(s, a), a.lines = lineMap[s], a.due = rings[1].due
  PROVE  WholeLines'
  <1>1. /\ Len(rings') = m
        /\ \A p \in 1 .. m + 1 : \A u : ReportAt(p, u)' = ReportAt(p + 1, u)
    BY RingTaken
  <1>2. RingOrder' /\ DueOrder'
    BY OrderTaken DEF WholeLines
  <1>3. (\A u : ~Reads(1, u)) /\ (\A u : Reports(1, u) <=> u = s)
    BY DEF Reads, Reports
  <1>4. lineMap \in [Shells -> Seq(Nat)]
    BY DEF ShellType
  <1>5. \A q, u : q # 0 => Collected(q, u)' = <<>> /\ Collected(q, u) = <<>>
    BY DEF Collected
  <1>6. \A u \in Shells : u # s => Collected(0, u)' = Collected(0, u)
    BY <1>4 DEF Collected, Shows
  <1>7. Collected(0, s)' = <<>>
    BY <1>4 DEF Collected, Shows
  <1>8. \A v \in Shells, x \in 0 .. m + 1, y \in 1 .. m + 1 + 1 : Span(x, y, v) => Whole(x, y, v)
    BY DEF WholeLines, WholeSpans
  <1>9. a.lines = a.due
    <2>1. /\ 0 \in 0 .. m + 1 /\ 1 \in 1 .. m + 1 + 1 /\ 1 <= m + 1 /\ 0 < 1
          /\ \A i \in 0 + 1 .. 1 - 1 : FALSE
      OBVIOUS
    <2>2. Span(0, 1, s)
      BY <2>1 DEF Span
    <2>3. Whole(0, 1, s)
      BY <1>8, <2>1, <2>2
    <2>4. PICK c \in Seq(Nat) : c = Collected(0, s)
      BY ListTypes
    <2>5. PICK d \in Seq(Nat) : d = ReportAt(1, s)
      BY <2>1, ListTypes
    <2>6. \A n : ~Between(0, 1, s, n)
      BY <2>1 DEF Between
    <2>7. Starts(c, d) /\ \A n \in Nat : ~Rest(d, Len(c), n)
      BY <2>3, <2>4, <2>5, <2>6 DEF Whole
    <2>8. c = d
      BY <2>7, AllCollected
    <2>9. c = lineMap[s] /\ d = rings[1].due
      BY <2>1, <2>4, <2>5 DEF Collected, ReportAt
    <2> QED BY <2>8, <2>9
  <1>10. ASSUME NEW u \in Shells, NEW q \in 0 .. m, NEW p \in 1 .. m + 1, Span(q, p, u)'
         PROVE  Whole(q, p, u)'
    <2>1. p + 1 \in 1 .. m + 1 + 1 /\ q + 1 \in 0 .. m + 1 /\ 0 \in 0 .. m + 1 /\ q + 1 # 0
      OBVIOUS
    <2>2. PICK d : d = ReportAt(p + 1, u)
      OBVIOUS
    <2>3. d = ReportAt(p, u)'
      BY <1>1, <2>2
    <2>4. \/ /\ q = 0 /\ u # s /\ Span(0, p + 1, u)
             /\ \A n : Between(0, p + 1, u, n) <=> Between(q, p, u, n)'
          \/ /\ q # 0 \/ u = s
             /\ Span(q + 1, p + 1, u)
             /\ \A n : Between(q + 1, p + 1, u, n) <=> Between(q, p, u, n)'
      BY <1>3, <1>10, SpansTaken
    <2>5. CASE /\ q = 0 /\ u # s /\ Span(0, p + 1, u)
               /\ \A n : Between(0, p + 1, u, n) <=> Between(q, p, u, n)'
      <3>1. Whole(0, p + 1, u)
        BY <1>8, <2>1, <2>5
      <3>2. PICK c : c = Collected(0, u)
        OBVIOUS
      <3>3. c = Collected(q, u)'
        BY <1>6, <2>5, <3>2
      <3>4. Starts(c, d) /\ \A n \in Nat : Rest(d, Len(c), n) <=> Between(q, p, u, n)'
        BY <2>2, <2>5, <3>1, <3>2 DEF Whole
      <3> QED BY <2>3, <3>3, <3>4, WholeNext
    <2>6. CASE /\ q # 0 \/ u = s
               /\ Span(q + 1, p + 1, u)
               /\ \A n : Between(q + 1, p + 1, u, n) <=> Between(q, p, u, n)'
      <3>1. Whole(q + 1, p + 1, u)
        BY <1>8, <2>1, <2>6
      <3>2. PICK c : c = Collected(q + 1, u)
        OBVIOUS
      <3>3. c = Collected(q, u)'
        <4>1. CASE q # 0
          BY <1>5, <2>1, <3>2, <4>1
        <4>2. CASE q = 0 /\ u = s
          BY <1>5, <1>7, <2>1, <3>2, <4>2
        <4> QED BY <2>6, <4>1, <4>2
      <3>4. Starts(c, d) /\ \A n \in Nat : Rest(d, Len(c), n) <=> Between(q, p, u, n)'
        BY <2>2, <2>6, <3>1, <3>2 DEF Whole
      <3> QED BY <2>3, <3>3, <3>4, WholeNext
    <2> QED BY <2>4, <2>5, <2>6
  <1>11. WholeSpans'
    BY <1>1, <1>10 DEF WholeSpans
  <1>12. \A b \in shown' : b.lines = b.due
    BY <1>9 DEF WholeLines, Shows
  <1> QED BY <1>2, <1>11, <1>12 DEF WholeLines

-----------------------------------------------------------------------------
\* What ShellInv lacks for WholeCommands.
ShellWhole == upset = {} => WholeLines

\* Nothing is in the rings, collected or due.
LEMMA WholeInit == ASSUME Shell!Init PROVE ShellWhole
  <1>1. /\ Len(rings) = 0 /\ rings = <<>> /\ nlines = 0 /\ shown = {}
        /\ \A s \in Shells : lineMap[s] = <<>> /\ due[s] = <<>> /\ sending[s] = Shell!Idle
    BY DEF Shell!Init
  <1>2. \A s \in Shells : Owed(s) = <<>> /\ Collected(0, s) = <<>> /\ ReportAt(1, s) = <<>>
    BY <1>1 DEF Owed, Collected, ReportAt
  <1>3. /\ \A p \in 1 .. Len(rings) + 1 : p = 1
        /\ \A q \in 0 .. Len(rings) : q = 0
    BY <1>1
  <1>4. RingOrder
    BY <1>1 DEF RingOrder
  <1>5. DueOrder
    BY <1>1, <1>2, <1>3 DEF DueOrder, Increasing
  <1>6. \A s \in Shells : Whole(0, 1, s)
    BY <1>2 DEF Whole, Starts, Rest, Between
  <1>7. WholeSpans
    BY <1>3, <1>6 DEF WholeSpans
  <1> QED BY <1>1, <1>4, <1>5, <1>7 DEF ShellWhole, WholeLines

\* A send after which nothing went wrong: the event is in its ring.
LEMMA CalmSend ==
  ASSUME NEW c, NEW e, NEW lines, NEW mishaps, Shell!Send(c, e, lines, mishaps), upset' = {},
         UNCHANGED <<lineMap, shown>>
  PROVE  upset = {} /\ Appends([cpu |-> c, data |-> e, due |-> lines])
  BY DEF Shell!Send, Appends

\* Neither the rings nor what is owed changes.
LEMMA WholeStays ==
  ASSUME WholeLines, UNCHANGED <<rings, lineMap, shown, nlines>>,
         \A u \in Shells : Owed(u)' = Owed(u),
         \A u \in Shells : sending'[u] # Shell!Idle => due'[u] = <<>>
  PROVE  WholeLines'
  <1>1. /\ \A i : (ReadAt(i)' <=> ReadAt(i)) /\ Line(i)' = Line(i)
        /\ \A i, u : (Reads(i, u)' <=> Reads(i, u)) /\ (Reports(i, u)' <=> Reports(i, u))
        /\ \A p : \A u \in Shells : ReportAt(p, u)' = ReportAt(p, u)
        /\ \A q, u : Collected(q, u)' = Collected(q, u)
        /\ Len(rings') = Len(rings)
    BY DEF ReadAt, Line, Reads, Reports, ReportAt, Collected
  <1>2. RingOrder'
    BY <1>1 DEF WholeLines, RingOrder
  <1>3. DueOrder'
    BY <1>1 DEF WholeLines, DueOrder
  <1>4. ASSUME NEW u \in Shells, NEW q \in 0 .. Len(rings),
               NEW p \in 1 .. Len(rings) + 1, Span(q, p, u)'
        PROVE  Whole(q, p, u)'
    <2>1. Span(q, p, u) /\ \A n : Between(q, p, u, n)' <=> Between(q, p, u, n)
      BY <1>1, <1>4 DEF Span, Between
    <2>2. Whole(q, p, u)
      BY <2>1 DEF WholeLines, WholeSpans
    <2>3. PICK c, d : c = Collected(q, u) /\ d = ReportAt(p, u)
      OBVIOUS
    <2>4. c = Collected(q, u)' /\ d = ReportAt(p, u)'
      BY <1>1, <2>3
    <2>5. Starts(c, d) /\ \A n \in Nat : Rest(d, Len(c), n) <=> Between(q, p, u, n)'
      BY <2>1, <2>2, <2>3 DEF Whole
    <2> QED BY <2>4, <2>5, WholeNext
  <1>5. WholeSpans'
    BY <1>1, <1>4 DEF WholeSpans
  <1>6. \A a \in shown' : a.lines = a.due
    BY DEF WholeLines
  <1> QED BY <1>2, <1>3, <1>5, <1>6 DEF WholeLines

\* readline() returns.
LEMMA WholeReadline ==
  ASSUME ShellInv, ShellWhole, NEW s \in Shells, NEW c \in Cpus,
         Shell!uretprobe_bash_readline(s, c), upset' = {}
  PROVE  WholeLines'
  <1>1. PICK l \in Nat : l = nlines
    BY DEF ShellInv, ShellType
  <1> DEFINE event == [type |-> "readline", pid |-> s, line |-> l + 1, retval |-> 0]
             r == [cpu |-> c, data |-> event, due |-> <<>>]
  <1>2. /\ sending[s] = Shell!Idle /\ nlines' = l + 1
        /\ due' = [due EXCEPT ![s] = Append(@, l + 1)]
        /\ UNCHANGED <<sending, lineMap, shown>>
        /\ \E mishaps : Shell!Send(c, event, <<>>, mishaps)
    BY <1>1 DEF Shell!uretprobe_bash_readline
  <1>3. event \in SentEvents
    BY DEF SentEvents, ShellEvents
  <1>4. <<>> \in Seq(Nat)
    OBVIOUS
  <1>5. /\ r \in RingEvents /\ r.due = <<>>
        /\ r.data.type = "readline" /\ r.data.pid = s /\ r.data.line = l + 1
    BY <1>3, <1>4 DEF RingEvents
  <1> HIDE DEF event
  <1>6. upset = {} /\ Appends(r)
    BY <1>2, CalmSend
  <1> HIDE DEF r
  <1>7. WholeLines /\ ShellType
    BY <1>6 DEF ShellWhole, ShellInv
  <1>8. due \in [Shells -> Seq(Nat)]
    BY <1>7 DEF ShellType
  <1>9. Owed(s)' = Append(Owed(s), l + 1) /\ \A u \in Shells : u # s => Owed(u)' = Owed(u)
    BY <1>2, <1>8 DEF Owed
  <1>10. \A u \in Shells : sending'[u] # Shell!Idle => due'[u] = <<>>
    BY <1>2, <1>7, <1>8 DEF WholeLines, DueOrder
  <1> QED BY <1>1, <1>2, <1>5, <1>6, <1>7, <1>9, <1>10, WholeRead

\* A report of s is sent, with the lines that were owed.
LEMMA WholeSent ==
  ASSUME ShellInv, ShellWhole, NEW s \in Shells, NEW c \in Cpus, NEW e, e \in SentEvents,
         e.type # "readline", e.pid = s, NEW lines \in Seq(Nat), lines = Owed(s),
         Shell!Send(c, e, lines, {}), upset' = {}, UNCHANGED <<nlines, lineMap, shown>>,
         Owed(s)' = <<>>, \A u \in Shells : u # s => Owed(u)' = Owed(u),
         \A u \in Shells : sending'[u] # Shell!Idle => due'[u] = <<>>
  PROVE  WholeLines'
  <1> DEFINE r == [cpu |-> c, data |-> e, due |-> lines]
  <1>1. r \in RingEvents /\ r.data = e /\ r.due = lines
    BY DEF RingEvents
  <1>2. upset = {} /\ Appends(r)
    BY CalmSend
  <1> HIDE DEF r
  <1>3. WholeLines /\ ShellType
    BY <1>2 DEF ShellWhole, ShellInv
  <1> QED BY <1>1, <1>2, <1>3, WholeReport

\* execute_command() returns, with a status that is not the wanted one.
LEMMA WholeRetvalOther ==
  ASSUME ShellInv, ShellWhole, NEW s \in Shells, NEW c \in Cpus, NEW status,
         Shell!retval_other(s, c, status), upset' = {}
  PROVE  WholeLines'
  <1>1. ShellType /\ ShellElements
    BY DEF ShellInv
  <1>2. /\ sending[s] = Shell!Idle /\ slot[s] # NoElem /\ Stores(s, Shell!BASH_ERRNO_DEFAULT)
        /\ Shell!Send(c, events_t'[slot[s]], due[s], {})
        /\ due' = [due EXCEPT ![s] = <<>>]
        /\ UNCHANGED <<nlines, sending, lineMap, shown>>
    BY DEF Shell!retval_other, Stores
  <1>3. /\ events_t'[slot[s]] \in SentEvents
        /\ events_t'[slot[s]].pid = s /\ events_t'[slot[s]].type = "retval"
    BY <1>1, <1>2, RetvalStored
  <1>4. PICK e \in SentEvents : e = events_t'[slot[s]]
    BY <1>3
  <1>5. PICK lines \in Seq(Nat) : lines = due[s]
    BY <1>1 DEF ShellType
  <1>6. due \in [Shells -> Seq(Nat)]
    BY <1>1 DEF ShellType
  <1>7. /\ lines = Owed(s) /\ Owed(s)' = <<>>
        /\ \A u \in Shells : u # s => Owed(u)' = Owed(u)
    BY <1>2, <1>5, <1>6 DEF Owed
  <1>8. Shell!Send(c, e, lines, {}) /\ e.type # "readline" /\ e.pid = s
    BY <1>2, <1>3, <1>4, <1>5
  <1>9. upset = {}
    BY <1>2, <1>8, CalmSend
  <1>10. \A u \in Shells : sending'[u] # Shell!Idle => due'[u] = <<>>
    BY <1>2, <1>6, <1>9 DEF ShellWhole, WholeLines, DueOrder
  <1> QED BY <1>2, <1>7, <1>8, <1>10, WholeSent

\* execute_command() returns, with the wanted status: what is owed moves to the report.
LEMMA WholeRetvalWanted ==
  ASSUME ShellInv, ShellWhole, NEW s \in Shells, NEW status,
         Shell!retval_wanted(s, status), upset' = {}
  PROVE  WholeLines'
  <1>1. ShellType
    BY DEF ShellInv
  <1>2. /\ sending[s] = Shell!Idle /\ slot[s] # NoElem
        /\ sending' = [sending EXCEPT ![s] = [of |-> slot[s], due |-> due[s]]]
        /\ due' = [due EXCEPT ![s] = <<>>]
        /\ UNCHANGED <<nlines, rings, lineMap, shown, upset>>
    BY DEF Shell!retval_wanted
  <1>3. /\ sending'[s] = [of |-> slot[s], due |-> due[s]] /\ due'[s] = <<>>
        /\ \A u \in Shells : u # s => sending'[u] = sending[u] /\ due'[u] = due[u]
    BY <1>1, <1>2 DEF ShellType
  <1>4. sending'[s] # Shell!Idle /\ sending'[s].due = due[s]
    BY <1>2, <1>3 DEF Shell!Idle
  <1>5. WholeLines
    BY <1>2 DEF ShellWhole
  <1>6. ASSUME NEW u \in Shells PROVE Owed(u)' = Owed(u)
    BY <1>2, <1>3, <1>4 DEF Owed
  <1>7. \A u \in Shells : sending'[u] # Shell!Idle => due'[u] = <<>>
    BY <1>3, <1>5 DEF WholeLines, DueOrder
  <1> QED BY <1>2, <1>5, <1>6, <1>7, WholeStays

\* The report is sent.
LEMMA WholeRetvalSend ==
  ASSUME ShellInv, ShellWhole, NEW s \in Shells, NEW c \in Cpus,
         Shell!retval_send(s, c), upset' = {}
  PROVE  WholeLines'
  <1>1. ShellType /\ ShellElements
    BY DEF ShellInv
  <1>2. /\ sending[s] # Shell!Idle
        /\ Shell!Send(c, events_t[sending[s].of], sending[s].due, {})
        /\ sending' = [sending EXCEPT ![s] = Shell!Idle]
        /\ UNCHANGED <<nlines, lineMap, shown, due>>
    BY DEF Shell!retval_send
  <1>3. upset = {}
    BY <1>2, CalmSend
  <1>4. sending[s].of \in Elems /\ sending[s].due \in Seq(Nat)
    BY <1>1, <1>2 DEF ShellType
  <1>5. /\ events_t[sending[s].of] \in ElemEvents
        /\ events_t[sending[s].of].pid = s /\ events_t[sending[s].of].type = "retval"
    BY <1>1, <1>2, <1>3, <1>4 DEF ShellType, ShellElements
  <1>6. PICK e : e = events_t[sending[s].of]
    OBVIOUS
  <1>7. e \in SentEvents /\ e.type # "readline" /\ e.pid = s
    BY <1>5, <1>6 DEF ElemEvents, SentEvents, ShellEvents
  <1>8. PICK lines \in Seq(Nat) : lines = sending[s].due
    BY <1>4
  <1>9. /\ sending'[s] = Shell!Idle
        /\ \A u \in Shells : u # s => sending'[u] = sending[u]
    BY <1>1, <1>2 DEF ShellType
  <1>10. \A u \in Shells : sending[u] # Shell!Idle => due[u] = <<>>
    BY <1>3 DEF ShellWhole, WholeLines, DueOrder
  <1>11. /\ lines = Owed(s) /\ Owed(s)' = <<>>
         /\ \A u \in Shells : u # s => Owed(u)' = Owed(u)
    BY <1>2, <1>8, <1>9, <1>10 DEF Owed
  <1>12. \A u \in Shells : sending'[u] # Shell!Idle => due'[u] = <<>>
    BY <1>2, <1>9, <1>10
  <1>13. Shell!Send(c, e, lines, {})
    BY <1>2, <1>6, <1>8
  <1> QED BY <1>2, <1>7, <1>11, <1>12, <1>13, WholeSent

\* exec_builtin() or exit_builtin() reports what is due.
LEMMA WholeExit ==
  ASSUME ShellInv, ShellWhole, NEW s \in Shells, NEW c \in Cpus,
         Shell!send_bash_exit_event(s, c), upset' = {}
  PROVE  WholeLines'
  <1> DEFINE e == [type |-> "exit", pid |-> s, line |-> 0, retval |-> 0]
  <1>1. ShellType
    BY DEF ShellInv
  <1>2. /\ sending[s] = Shell!Idle
        /\ Shell!Send(c, e, due[s], {})
        /\ due' = [due EXCEPT ![s] = <<>>]
        /\ UNCHANGED <<nlines, sending, lineMap, shown>>
    BY DEF Shell!send_bash_exit_event
  <1>3. e \in SentEvents /\ e.type # "readline" /\ e.pid = s
    BY DEF SentEvents, ShellEvents
  <1> HIDE DEF e
  <1>4. upset = {}
    BY <1>2, CalmSend
  <1>5. due \in [Shells -> Seq(Nat)]
    BY <1>1 DEF ShellType
  <1>6. PICK lines \in Seq(Nat) : lines = due[s]
    BY <1>5
  <1>7. /\ lines = Owed(s) /\ Owed(s)' = <<>>
        /\ \A u \in Shells : u # s => Owed(u)' = Owed(u)
    BY <1>2, <1>5, <1>6 DEF Owed
  <1>8. \A u \in Shells : sending'[u] # Shell!Idle => due'[u] = <<>>
    BY <1>2, <1>4, <1>5 DEF ShellWhole, WholeLines, DueOrder
  <1>9. Shell!Send(c, e, lines, {})
    BY <1>2, <1>6
  <1> QED BY <1>2, <1>3, <1>7, <1>8, <1>9, WholeSent

\* handleEvent() takes the first event, since nothing was overtaken.
LEMMA WholeHandle ==
  ASSUME ShellInv, ShellWhole, NEW i \in DOMAIN rings, Shell!handleEvent(i), upset' = {}
  PROVE  WholeLines'
  <1>1. ShellType
    BY DEF ShellInv
  <1>2. i = 1 /\ upset = {}
    BY DEF Shell!handleEvent
  <1>3. 1 \in 1 .. Len(rings) /\ Len(rings) \in Nat
    BY <1>1, <1>2, LenProperties DEF ShellType
  <1>4. PICK m \in Nat : m + 1 = Len(rings)
    <2>1. Len(rings) - 1 \in Nat /\ (Len(rings) - 1) + 1 = Len(rings)
      BY <1>3
    <2> QED BY <2>1
  <1>5. WholeLines
    BY <1>2 DEF ShellWhole
  <1>6. Takes
    BY <1>2 DEF Shell!handleEvent, Takes
  <1> DEFINE s == rings[1].data.pid
             l == rings[1].data.line
             a == [pid |-> s, lines |-> lineMap[s], due |-> rings[1].due,
                   type |-> rings[1].data.type, retval |-> rings[1].data.retval]
  <1>7. s \in Shells /\ l \in Nat
    <2>1. rings[1] \in RingEvents
      BY <1>1, <1>3, ElementOfSeq DEF ShellType
    <2>2. rings[1].data \in SentEvents
      BY <2>1 DEF RingEvents
    <2> QED BY <2>2 DEF SentEvents, ShellEvents
  <1>8. \/ Reads(1, s) /\ Collects(s, l) /\ shown' = shown
        \/ Reports(1, s) /\ Shows(s, a)
    BY <1>2 DEF Shell!handleEvent, Reads, Reports, ReadAt, Collects, Shows
  <1>9. a.lines = lineMap[s] /\ a.due = rings[1].due /\ l = Line(1)
    BY DEF Line
  <1> HIDE DEF a
  <1>10. PICK t \in Shells, k \in Nat : t = s /\ k = l
    BY <1>7
  <1> HIDE DEF s, l
  <1>11. CASE Reads(1, s) /\ Collects(s, l) /\ shown' = shown
    <2>1. Reads(1, t) /\ Collects(t, k) /\ k = Line(1)
      BY <1>9, <1>10, <1>11 DEF Collects
    <2> QED BY <1>1, <1>4, <1>5, <1>6, <1>11, <2>1, WholeCollect
  <1>12. CASE Reports(1, s) /\ Shows(s, a)
    <2>1. PICK b : b = a
      OBVIOUS
    <2>2. Reports(1, t) /\ Shows(t, b) /\ b.lines = lineMap[t] /\ b.due = rings[1].due
      BY <1>9, <1>10, <1>12, <2>1 DEF Shows
    <2> QED BY <1>1, <1>4, <1>5, <1>6, <2>2, WholeShow
  <1> QED BY <1>8, <1>11, <1>12

\* Every step keeps it, or something goes wrong.
LEMMA WholeStep ==
  ASSUME ShellInv, ShellWhole, [Shell!Next]_shellVars
  PROVE  ShellWhole'
  <1> SUFFICES ASSUME upset' = {} PROVE WholeLines'
    BY DEF ShellWhole
  <1>1. CASE UNCHANGED shellVars
    <2>1. /\ UNCHANGED <<rings, lineMap, shown, nlines, sending, due, upset>>
          /\ \A u \in Shells : Owed(u)' = Owed(u)
      BY <1>1 DEF shellVars, Owed
    <2>2. WholeLines
      BY <2>1 DEF ShellWhole
    <2>3. \A u \in Shells : sending'[u] # Shell!Idle => due'[u] = <<>>
      BY <2>1, <2>2 DEF WholeLines, DueOrder
    <2> QED BY <2>1, <2>2, <2>3, WholeStays
  <1> QED BY <1>1, WholeReadline, WholeRetvalOther, WholeRetvalWanted, WholeRetvalSend, WholeExit,
             WholeHandle DEF Shell!Next

\* A command is shown with all the lines its shell read since it last reported one,
\* for any number of shells, CPUs and lines, unless an event was lost, overtaken, or
\* overwritten before it was sent.
THEOREM CommandsAreWhole ==
  ASSUME Shell!ShellConstantsOK
  PROVE  ProgramsSpec => []WholeCommands
  <1>1. ProgramsInit => ShellInv /\ ShellWhole
    BY ShellInit, WholeInit DEF ProgramsInit
  <1>2. ShellInv /\ ShellWhole /\ [ProgramsNext]_programsVars => ShellInv' /\ ShellWhole'
    BY ShellSteps, ShellStep, WholeStep
  <1>3. ShellWhole => WholeCommands
    BY DEF ShellWhole, WholeLines, WholeCommands, Shell!WholeCommands
  <1> QED BY <1>1, <1>2, <1>3, PTL DEF ProgramsSpec

-----------------------------------------------------------------------------
(***************************************************************************)
(* SqlTrace.  A query that has the server to itself is the only one that   *)
(* writes to the entry, which all connections share.                       *)
(***************************************************************************)

\* A step of Programs is one of SqlTrace or leaves it alone.
LEMMA SqlSteps == [ProgramsNext]_programsVars => [Sql!Next]_sqlVars
  BY DEF ProgramsNext, programsVars, sqlVars

\* The types of the variables of SqlTrace.
SqlType ==
    /\ packet \in [Conns -> [id : Nat, command : Sql!Commands \cup {"none"}]]
    /\ npackets \in Nat
    /\ entry \in Slots \cup {NoSlot}
    /\ sql_hash \in [Slots -> [query : Nat, retval : SqlRets \cup {-2, -1, 0}]]
    /\ data \in [Conns -> [of : {NoSlot}] \cup [of : Slots, ret : SqlRets \cup {-2, -1, 0}]]
    /\ alone \in [Conns -> BOOLEAN]

\* A connection without a packet runs no program; one that is alone is the only one
\* with a packet, and what is stored is its query, with its status once its return
\* program has written that.
ConnectionOK(c) ==
    /\ packet[c] = Sql!NoPacket => data[c] = Sql!Idle
    /\ alone[c] /\ packet[c] # Sql!NoPacket =>
         \A d \in Conns : d # c => packet[d] = Sql!NoPacket
    /\ alone[c] /\ packet[c].command = "query" =>
         /\ entry \in Slots
         /\ sql_hash[entry].query = packet[c].id
         /\ data[c] # Sql!Idle =>
              data[c].of = entry /\ sql_hash[entry].retval = data[c].ret

\* The inductive invariant of SqlTrace.
SqlInv ==
    /\ SqlType
    /\ \A c \in Conns : ConnectionOK(c)
    /\ Sql!AloneIsOwn

\* No packet has arrived.
LEMMA SqlInit == ASSUME Sql!Init PROVE SqlInv
  <1>1. SqlType
    BY DEF Sql!Init, SqlType, Sql!NoPacket, Sql!Idle
  <1>2. \A c \in Conns : ConnectionOK(c)
    BY DEF Sql!Init, ConnectionOK
  <1>3. Sql!AloneIsOwn
    BY DEF Sql!Init, Sql!AloneIsOwn
  <1> QED BY <1>1, <1>2, <1>3 DEF SqlInv

\* A packet arrives: nobody else is alone from now on.
LEMMA SqlQuery ==
  ASSUME Sql!SqlConstantsOK, SqlInv, NEW c \in Conns, NEW command \in Sql!Commands,
         Sql!query(c, command)
  PROVE  SqlInv'
  <1> DEFINE p == [id |-> npackets + 1, command |-> command]
             v == [query |-> npackets + 1,
                   retval |-> IF version = 56 THEN Sql!NotCaptured ELSE 0]
  <1>1. /\ packet[c] = Sql!NoPacket
        /\ npackets' = npackets + 1
        /\ packet' = [packet EXCEPT ![c] = p]
        /\ alone' = [d \in Conns |-> d = c /\ \A e \in Conns : packet[e] = Sql!NoPacket]
        /\ data' = data /\ sent' = Sql!NoEvent
    BY DEF Sql!query
  <1>2. \/ /\ command = "query"
           /\ \E e \in Slots : entry' = e /\ sql_hash' = [sql_hash EXCEPT ![e] = v]
        \/ command # "query" /\ UNCHANGED <<entry, sql_hash>>
    BY DEF Sql!query, Sql!COM_QUERY
  <1>3. /\ npackets + 1 \in Nat
        /\ v \in [query : Nat, retval : SqlRets \cup {-2, -1, 0}]
        /\ p \in [id : Nat, command : Sql!Commands \cup {"none"}]
    BY DEF SqlInv, SqlType, Sql!NotCaptured
  <1>4. SqlType'
    <2>1. packet' \in [Conns -> [id : Nat, command : Sql!Commands \cup {"none"}]]
      BY <1>1, <1>3 DEF SqlInv, SqlType
    <2>2. entry' \in Slots \cup {NoSlot}
          /\ sql_hash' \in [Slots -> [query : Nat, retval : SqlRets \cup {-2, -1, 0}]]
      BY <1>2, <1>3 DEF SqlInv, SqlType
    <2>3. alone' \in [Conns -> BOOLEAN]
      BY <1>1
    <2> QED BY <1>1, <1>3, <2>1, <2>2, <2>3 DEF SqlInv, SqlType
  <1>5. ASSUME NEW d \in Conns PROVE ConnectionOK(d)'
    <2>1. CASE d # c
      <3>1. packet'[d] = packet[d] /\ ~alone'[d]
        BY <1>1, <2>1 DEF SqlInv, SqlType
      <3> QED BY <1>1, <3>1 DEF SqlInv, ConnectionOK
    <2>2. CASE d = c
      <3>1. packet'[c] = p /\ data'[c] = Sql!Idle
        BY <1>1 DEF SqlInv, SqlType, ConnectionOK
      <3>2. p # Sql!NoPacket
        BY DEF Sql!NoPacket, Sql!Commands, Sql!COM_QUERY
      <3>3. alone'[c] => \A e \in Conns : e # c => packet'[e] = Sql!NoPacket
        BY <1>1 DEF SqlInv, SqlType
      <3>4. command = "query" => entry' \in Slots /\ sql_hash'[entry'].query = npackets + 1
        BY <1>2, <1>3 DEF SqlInv, SqlType
      <3> QED BY <2>2, <3>1, <3>2, <3>3, <3>4 DEF ConnectionOK
    <2> QED BY <2>1, <2>2
  <1>6. Sql!AloneIsOwn'
    BY <1>1 DEF Sql!AloneIsOwn
  <1> QED BY <1>4, <1>5, <1>6 DEF SqlInv

\* The status is stored, by the connection itself or when nobody is alone.
LEMMA SqlReturn ==
  ASSUME Sql!SqlConstantsOK, SqlInv, NEW c \in Conns, NEW ret \in SqlRets,
         Sql!query_return(c, ret)
  PROVE  SqlInv'
  <1> DEFINE r == Sql!command_return(ret)
  <1>1. /\ packet[c] # Sql!NoPacket /\ data[c] = Sql!Idle
        /\ sent' = Sql!NoEvent /\ UNCHANGED <<npackets, entry, alone>>
        /\ IF entry = NoSlot
           THEN packet' = [packet EXCEPT ![c] = Sql!NoPacket] /\ UNCHANGED <<sql_hash, data>>
           ELSE /\ sql_hash' = [sql_hash EXCEPT ![entry].retval = r]
                /\ data' = [data EXCEPT ![c] = [of |-> entry, ret |-> r]]
                /\ UNCHANGED packet
    BY DEF Sql!query_return
  <1>2. Sql!AloneIsOwn'
    BY <1>1 DEF Sql!AloneIsOwn
  <1>3. r \in SqlRets \cup {-2, -1, 0}
    BY DEF Sql!command_return, Sql!DISPATCH_COMMAND_V57_FAILED
  <1>4. CASE entry = NoSlot
    <2>1. SqlType'
      BY <1>1, <1>4 DEF SqlInv, SqlType, Sql!NoPacket
    <2>2. packet'[c] = Sql!NoPacket /\ \A d \in Conns : d # c => packet'[d] = packet[d]
      BY <1>1, <1>4 DEF SqlInv, SqlType
    <2>3. ~(alone[c] /\ packet[c].command = "query")
      BY <1>4 DEF SqlInv, ConnectionOK, Sql!SqlConstantsOK
    <2>4. ASSUME NEW d \in Conns PROVE ConnectionOK(d)'
      <3>1. CASE d = c
        BY <1>1, <1>4, <2>2, <3>1 DEF ConnectionOK, Sql!NoPacket
      <3>2. CASE d # c
        BY <1>1, <1>4, <2>2, <3>2 DEF SqlInv, ConnectionOK
      <3> QED BY <3>1, <3>2
    <2> QED BY <1>2, <2>1, <2>4 DEF SqlInv
  <1>5. CASE entry # NoSlot
    <2>1. entry \in Slots
      BY <1>5 DEF SqlInv, SqlType
    <2>2. SqlType'
      <3>1. sql_hash' \in [Slots -> [query : Nat, retval : SqlRets \cup {-2, -1, 0}]]
        BY <1>1, <1>3, <1>5, <2>1 DEF SqlInv, SqlType
      <3>2. [of |-> entry, ret |-> r] \in [of : Slots, ret : SqlRets \cup {-2, -1, 0}]
        BY <1>3, <2>1
      <3>3. data' \in [Conns -> [of : {NoSlot}] \cup
                                [of : Slots, ret : SqlRets \cup {-2, -1, 0}]]
        BY <1>1, <1>5, <3>2 DEF SqlInv, SqlType
      <3> QED BY <1>1, <1>5, <3>1, <3>3 DEF SqlInv, SqlType
    <2>3. /\ sql_hash'[entry].query = sql_hash[entry].query
          /\ sql_hash'[entry].retval = r
          /\ data'[c].of = entry /\ data'[c].ret = r
          /\ \A d \in Conns : d # c => data'[d] = data[d]
      BY <1>1, <1>5, <2>1 DEF SqlInv, SqlType
    <2>4. ASSUME NEW d \in Conns PROVE ConnectionOK(d)'
      <3>1. CASE d = c
        BY <1>1, <1>5, <2>1, <2>3, <3>1 DEF SqlInv, ConnectionOK
      <3>2. CASE d # c
        <4>1. ~alone[d] \/ packet[d] = Sql!NoPacket
          BY <1>1, <3>2 DEF SqlInv, ConnectionOK
        <4> QED BY <1>1, <1>5, <2>3, <3>2, <4>1 DEF SqlInv, ConnectionOK, Sql!NoPacket
      <3> QED BY <3>1, <3>2
    <2> QED BY <1>2, <2>2, <2>4 DEF SqlInv
  <1> QED BY <1>4, <1>5

\* The return program sends what the entry holds.
LEMMA SqlOutput ==
  ASSUME Sql!SqlConstantsOK, SqlInv, NEW c \in Conns, Sql!query_output(c)
  PROVE  SqlInv'
  <1>1. /\ data[c] # Sql!Idle
        /\ sent' = [query |-> sql_hash[data[c].of].query, retval |-> sql_hash[data[c].of].retval,
                    packet |-> packet[c], ret |-> data[c].ret, alone |-> alone[c]]
        /\ data' = [data EXCEPT ![c] = Sql!Idle]
        /\ packet' = [packet EXCEPT ![c] = Sql!NoPacket]
        /\ UNCHANGED <<npackets, entry, sql_hash, alone>>
    BY DEF Sql!query_output
  <1>2. SqlType'
    BY <1>1 DEF SqlInv, SqlType, Sql!NoPacket, Sql!Idle
  <1>3. /\ packet'[c] = Sql!NoPacket /\ data'[c] = Sql!Idle
        /\ \A d \in Conns : d # c => packet'[d] = packet[d] /\ data'[d] = data[d]
    BY <1>1 DEF SqlInv, SqlType
  <1>4. ASSUME NEW d \in Conns PROVE ConnectionOK(d)'
    <2>1. CASE d = c
      BY <1>1, <1>3, <2>1 DEF ConnectionOK, Sql!NoPacket
    <2>2. CASE d # c
      BY <1>1, <1>3, <2>2 DEF SqlInv, ConnectionOK
    <2> QED BY <2>1, <2>2
  <1>5. Sql!AloneIsOwn'
    <2> SUFFICES ASSUME alone[c], packet[c].command = "query"
                 PROVE  /\ sql_hash[data[c].of].query = packet[c].id
                        /\ sql_hash[data[c].of].retval = data[c].ret
      BY <1>1 DEF Sql!AloneIsOwn, Sql!COM_QUERY
    <2> QED BY <1>1 DEF SqlInv, ConnectionOK
  <1> QED BY <1>2, <1>4, <1>5 DEF SqlInv

\* Every step of SqlTrace keeps its invariant.
LEMMA SqlStep ==
  ASSUME Sql!SqlConstantsOK, SqlInv, [Sql!Next]_sqlVars
  PROVE  SqlInv'
  <1>1. CASE UNCHANGED sqlVars
    BY <1>1 DEF sqlVars, SqlInv, SqlType, ConnectionOK, Sql!AloneIsOwn
  <1> QED BY <1>1, SqlQuery, SqlReturn, SqlOutput DEF Sql!Next

\* A query that had mysqld to itself is reported with its own text and status,
\* for any number of connections, although they share one entry.
THEOREM AloneQueriesAreOwn ==
  ASSUME Sql!SqlConstantsOK
  PROVE  ProgramsSpec => []AloneIsOwn
  <1>1. ProgramsInit => SqlInv
    BY SqlInit DEF ProgramsInit
  <1>2. SqlInv /\ [ProgramsNext]_programsVars => SqlInv'
    BY SqlSteps, SqlStep
  <1>3. SqlInv => AloneIsOwn
    BY DEF SqlInv, AloneIsOwn
  <1> QED BY <1>1, <1>2, <1>3, PTL DEF ProgramsSpec

-----------------------------------------------------------------------------
(***************************************************************************)
(* SecretCapture.                                                          *)
(***************************************************************************)

\* A step of Programs is one of SecretCapture or leaves it alone.
LEMMA SecretSteps == [ProgramsNext]_programsVars => [Secrets!Next]_secretVars
  BY DEF ProgramsNext, programsVars, secretVars

\* What a line of the key log can hold.
Values == {"own", "old", "next"}
Lines == [secret : Values, bytes : {32, 48, 64}, taken : 0 .. 4]

\* A line that may be in the key log: what LoggedIsRight says of one.
Good(k, l, phase, v) == v = Secrets!Right(k, l) <=> ~Secrets!Replaced(k, l, phase)
LineLen(k, l) == IF Secrets!LengthKnown(k) THEN Secrets!RightLen(k, l) ELSE 64
GoodLine(k, l, line) ==
    /\ Good(k, l, line.taken, line.secret)
    /\ line.bytes = LineLen(k, l)

\* The labels a complete connection has.
Required(k) ==
    IF tls[k].version = 12 THEN Secrets!Label12
    ELSE Secrets!TrafficLabels \cup
           (IF Secrets!LengthKnown(k) THEN Secrets!HandshakeLabels ELSE {})

\* The types of the variables of SecretCapture.
SecretType ==
    /\ lib \in {"openssl", "boringssl", "gotls"}
    /\ tls \in [TlsConns -> [version : {12, 13}, suite : Suites, phase : 0 .. 4,
                             session : {"fresh", "resumed", "refused"}]]
    /\ keylog \in [TlsConns -> [Secrets!Labels -> Seq(Lines)]]
    /\ complete \subseteq TlsConns
    /\ failures \in Nat /\ flushFailures \in Nat

\* A secret l of an event may be logged, is one of the version of the connection,
\* and comes, if it is one of TLS 1.3 and of OpenSSL, with the suite.
HeldOK(e, l) ==
    /\ e.secrets[l] \in Values /\ Good(e.conn, l, e.taken, e.secrets[l])
    /\ l \in Secrets!Label12 <=> tls[e.conn].version = 12
    /\ lib = "openssl" /\ l \notin Secrets!Label12 => e.cipher_id = tls[e.conn].suite

\* An event has secrets that may be logged or none, and all that are required if it
\* was taken after the handshake.
EventOK(e) ==
    /\ e.conn \in TlsConns /\ e.taken \in 0 .. 4
    /\ DOMAIN e.secrets \subseteq Secrets!Labels
    /\ \A l \in DOMAIN e.secrets : e.secrets[l] # "zero" => HeldOK(e, l)
    /\ lib = "boringssl" => e.cipher_id \in {32, 48}
    /\ e.taken >= Secrets!Done /\ lib # "gotls" =>
         \A l \in Required(e.conn) : l \in DOMAIN e.secrets /\ e.secrets[l] # "zero"

\* A label has no line beyond those of failed flushes until it is seen, and then
\* one more.
LineOK(k, l) ==
    /\ Len(keylog[k][l]) <= 1 + flushFailures
    /\ <<k, l>> \notin seenKeys => Len(keylog[k][l]) <= flushFailures
    /\ <<k, l>> \in seenKeys => keylog[k][l] # <<>>
    /\ \A i \in DOMAIN keylog[k][l] : GoodLine(k, l, keylog[k][l][i])
    /\ lib # "gotls" /\ keylog[k][l] # <<>> => l \in Required(k)

\* A complete connection has the lines it should have.
AllThere ==
    lib # "gotls" => \A k \in complete : \A l \in Required(k) : keylog[k][l] # <<>>

\* The inductive invariant of SecretCapture.
SecretInv ==
    /\ SecretType
    /\ \A e \in captured : EventOK(e)
    /\ \A k \in TlsConns, l \in Secrets!Labels : LineOK(k, l)
    /\ AllThere

\* No secret was captured and the key log is empty.
LEMMA SecretInit == ASSUME Secrets!Init PROVE SecretInv
  <1>1. SecretType
    <2>1. keylog \in [TlsConns -> [Secrets!Labels -> Seq(Lines)]]
      BY DEF Secrets!Init
    <2> QED BY <2>1 DEF Secrets!Init, SecretType, Secrets!New
  <1>2. \A k \in TlsConns, l \in Secrets!Labels : LineOK(k, l)
    BY DEF Secrets!Init, LineOK
  <1> QED BY <1>1, <1>2 DEF Secrets!Init, SecretInv, AllThere

\* What a connection holds may be logged, and after the handshake it holds all.
LEMMA HeldIsGood ==
  ASSUME SecretType, NEW k \in TlsConns, NEW l \in Secrets!Labels
  PROVE  /\ Secrets!Held(k, l) # "zero" =>
              /\ Secrets!Held(k, l) \in Values
              /\ Good(k, l, tls[k].phase, Secrets!Held(k, l))
              /\ l \in Secrets!Label12 <=> tls[k].version = 12
              /\ l \notin Secrets!Label12 => tls[k].phase >= Secrets!Keyed
         /\ tls[k].phase >= Secrets!Done /\ l \in Required(k) => Secrets!Held(k, l) # "zero"
  <1>1. /\ tls[k].version \in {12, 13} /\ tls[k].phase \in 0 .. 4
        /\ tls[k].session \in {"fresh", "resumed", "refused"}
    BY DEF SecretType
  <1>2. CASE l \in Secrets!Label12
    <2>1. l \notin Secrets!HandshakeLabels /\ l \notin Secrets!TrafficLabels
      BY <1>2 DEF Secrets!Label12, Secrets!HandshakeLabels, Secrets!TrafficLabels
    <2> QED BY <1>1, <1>2, <2>1 DEF Secrets!Held, Secrets!Right, Good, Values, Required,
            Secrets!Replaced, Secrets!Keyed, Secrets!Hello, Secrets!Done, Secrets!Updated
  <1>3. CASE l \in Secrets!HandshakeLabels
    <2>1. l \notin Secrets!Label12 /\ l \notin Secrets!TrafficLabels
      BY <1>3 DEF Secrets!Label12, Secrets!HandshakeLabels, Secrets!TrafficLabels
    <2> QED BY <1>1, <1>3, <2>1 DEF Secrets!Held, Secrets!Right, Good, Values, Required,
            Secrets!Replaced, Secrets!Keyed, Secrets!Done, Secrets!Updated
  <1>4. CASE l \in Secrets!TrafficLabels
    <2>1. l \notin Secrets!Label12 /\ l \notin Secrets!HandshakeLabels
      BY <1>4 DEF Secrets!Label12, Secrets!HandshakeLabels, Secrets!TrafficLabels
    <2> QED BY <1>1, <1>4, <2>1 DEF Secrets!Held, Secrets!Right, Good, Values, Required,
            Secrets!Replaced, Secrets!Keyed, Secrets!Done, Secrets!Updated
  <1> QED BY <1>2, <1>3, <1>4 DEF Secrets!Labels

\* The traced program goes on: what is captured and logged stays good.
LEMMA SecretProgress ==
  ASSUME SecretInv, NEW k \in TlsConns, Secrets!Step(k)
  PROVE  SecretInv'
  <1>1. /\ tls' = [tls EXCEPT ![k].phase = @ + 1]
        /\ tls[k].phase < IF tls[k].version = 13 THEN 4 ELSE 3
        /\ UNCHANGED <<lib, captured, keylog, seenKeys, complete, failures, flushFailures>>
    BY DEF Secrets!Step, Secrets!Updated, Secrets!Done
  <1>2. SecretType'
    <2>1. tls[k].phase + 1 \in 0 .. 4 /\ tls[k].version \in {12, 13}
          /\ tls[k].session \in {"fresh", "resumed", "refused"} /\ tls[k].suite \in Suites
      BY <1>1 DEF SecretInv, SecretType
    <2> DEFINE r == [tls[k] EXCEPT !.phase = @ + 1]
               C == [version : {12, 13}, suite : Suites, phase : 0 .. 4,
                     session : {"fresh", "resumed", "refused"}]
    <2>2. tls \in [TlsConns -> C] /\ tls[k] \in C
      BY DEF SecretInv, SecretType
    <2>3. r \in C
      BY <2>1, <2>2
    <2>4. tls' = [tls EXCEPT ![k] = r]
      BY <1>1
    <2> HIDE DEF r, C
    <2>5. tls' \in [TlsConns -> C]
      BY <2>2, <2>3, <2>4
    <2> QED BY <1>1, <2>5 DEF SecretInv, SecretType, C
  <1>3. \A j \in TlsConns : /\ tls'[j].version = tls[j].version
                            /\ tls'[j].suite = tls[j].suite
                            /\ tls'[j].session = tls[j].session
    BY <1>1 DEF SecretInv, SecretType
  <1>4. \A j \in TlsConns : \A l, p, v : Good(j, l, p, v)' <=> Good(j, l, p, v)
    BY <1>3 DEF Good, Secrets!Right, Secrets!Replaced
  <1>5. \A j \in TlsConns : /\ Secrets!LengthKnown(j)' <=> Secrets!LengthKnown(j)
                            /\ \A l : LineLen(j, l)' = LineLen(j, l)
    BY <1>1, <1>3 DEF LineLen, Secrets!LengthKnown, Secrets!RightLen, Secrets!HashLen
  <1>6. \A j \in TlsConns : Required(j)' = Required(j)
    BY <1>1, <1>3, <1>5 DEF Required
  <1>7. \A e \in captured : EventOK(e)'
    BY <1>1, <1>3, <1>4, <1>6 DEF SecretInv, EventOK, HeldOK
  <1>8. ASSUME NEW j \in TlsConns, NEW l \in Secrets!Labels PROVE LineOK(j, l)'
    <2>1. LineOK(j, l)
      BY DEF SecretInv
    <2>2. \A i \in DOMAIN keylog[j][l] : GoodLine(j, l, keylog[j][l][i])'
      BY <1>1, <1>4, <1>5, <2>1 DEF LineOK, GoodLine
    <2> QED BY <1>1, <1>6, <2>1, <2>2 DEF LineOK
  <1>9. AllThere'
    BY <1>1, <1>6 DEF SecretInv, SecretType, AllThere
  <1> QED BY <1>1, <1>2, <1>7, <1>8, <1>9 DEF SecretInv

\* Good, GoodLine and Required speak of the library and the connections only.
LEMMA SameConnections ==
  ASSUME UNCHANGED <<lib, tls>>
  PROVE  /\ \A k, l, p, v : Good(k, l, p, v)' <=> Good(k, l, p, v)
         /\ \A k, l, line : GoodLine(k, l, line)' <=> GoodLine(k, l, line)
         /\ \A k : Required(k)' = Required(k)
         /\ \A e : EventOK(e)' <=> EventOK(e)
  <1>1. \A k, l, p, v : Good(k, l, p, v)' <=> Good(k, l, p, v)
    BY DEF Good, Secrets!Replaced, Secrets!Right
  <1>2. \A k : /\ Secrets!LengthKnown(k)' <=> Secrets!LengthKnown(k)
              /\ \A l : LineLen(k, l)' = LineLen(k, l)
    BY DEF LineLen, Secrets!LengthKnown, Secrets!RightLen, Secrets!HashLen
  <1>3. \A k, l, line : GoodLine(k, l, line)' <=> GoodLine(k, l, line)
    BY <1>1, <1>2 DEF GoodLine
  <1>4. \A k : Required(k)' = Required(k)
    BY <1>2 DEF Required
  <1>5. \A e, l : HeldOK(e, l)' <=> HeldOK(e, l)
    BY <1>1 DEF HeldOK
  <1>6. \A e : EventOK(e)' <=> EventOK(e)
    BY <1>4, <1>5 DEF EventOK
  <1> QED BY <1>1, <1>3, <1>4, <1>6

\* A hook: the event it sends is as good as what the connection holds.
LEMMA SecretHook ==
  ASSUME SecretInv, NEW k \in TlsConns, NEW labels \in SUBSET Secrets!Labels,
         Secrets!Output(k, labels),
         tls[k].phase >= Secrets!Done /\ lib # "gotls" => Required(k) \subseteq labels
  PROVE  SecretInv'
  <1> DEFINE e == [conn |-> k, taken |-> tls[k].phase,
                   cipher_id |-> Secrets!CipherId(k),
                   secrets |-> [l \in labels |-> Secrets!Held(k, l)]]
  <1>1. /\ captured' \subseteq captured \cup {e}
        /\ UNCHANGED <<lib, tls, keylog, seenKeys, complete, failures, flushFailures>>
    BY DEF Secrets!Output
  <1>2. EventOK(e)
    <2>1. \A l \in labels : e.secrets[l] = Secrets!Held(k, l)
      OBVIOUS
    <2>2. /\ lib = "boringssl" => e.cipher_id \in {32, 48}
          /\ lib = "openssl" /\ tls[k].phase >= Secrets!Keyed => e.cipher_id = tls[k].suite
      BY DEF Secrets!CipherId, Secrets!HashLen
    <2>3. e.conn = k /\ DOMAIN e.secrets = labels /\ e.taken = tls[k].phase
          /\ e.taken \in 0 .. 4
      BY DEF SecretInv, SecretType
    <2> HIDE DEF e
    <2>4. ASSUME NEW l \in labels, e.secrets[l] # "zero" PROVE HeldOK(e, l)
      BY <2>1, <2>2, <2>3, <2>4, HeldIsGood DEF HeldOK, SecretInv
    <2>5. ASSUME e.taken >= Secrets!Done, lib # "gotls", NEW l \in Required(k)
          PROVE  l \in labels /\ e.secrets[l] # "zero"
      BY <2>1, <2>3, <2>5, HeldIsGood DEF SecretInv
    <2> QED BY <2>2, <2>3, <2>4, <2>5 DEF EventOK
  <1>3. \A d \in captured' : EventOK(d)'
    BY <1>1, <1>2, SameConnections DEF SecretInv
  <1>4. ASSUME NEW j \in TlsConns, NEW l \in Secrets!Labels PROVE LineOK(j, l)'
    <2>1. LineOK(j, l)
      BY DEF SecretInv
    <2> QED BY <1>1, <2>1, SameConnections DEF LineOK
  <1>5. SecretType' /\ AllThere'
    BY <1>1, SameConnections DEF SecretInv, SecretType, AllThere
  <1> QED BY <1>3, <1>4, <1>5 DEF SecretInv

\* What handleTLS12(), handleTLS13() and handleGoTLS() write of an event.
LEMMA PendingIsGood ==
  ASSUME SecretInv, NEW e \in captured, NEW l \in Secrets!Pending(e)
  PROVE  /\ l \in Secrets!Labels /\ <<e.conn, l>> \notin seenKeys
         /\ Secrets!Line(e, l) \in Lines /\ GoodLine(e.conn, l, Secrets!Line(e, l))
         /\ lib # "gotls" => l \in Required(e.conn)
  <1>1. /\ EventOK(e) /\ e.conn \in TlsConns /\ l \in Secrets!Labels /\ HeldOK(e, l)
        /\ <<e.conn, l>> \notin seenKeys
        /\ l \in Secrets!HandshakeLabels => Secrets!HasTranscript(e)
    BY DEF SecretInv, EventOK, Secrets!Pending
  <1>2. /\ tls[e.conn].version \in {12, 13}
        /\ lib \in {"openssl", "boringssl", "gotls"}
    BY <1>1 DEF SecretInv, SecretType
  <1> DEFINE r == Secrets!Line(e, l)
  <1>3. /\ r.secret = e.secrets[l] /\ r.taken = e.taken
        /\ r.bytes = IF l \in Secrets!Label12 THEN 48
                     ELSE IF lib = "gotls" THEN Secrets!HashLen(e.conn)
                     ELSE Secrets!length(e)
        /\ r = [secret |-> r.secret, bytes |-> r.bytes, taken |-> r.taken]
    BY DEF Secrets!Line, Secrets!MasterSecretMaxLen
  <1> HIDE DEF r
  <1>4. r.bytes \in {32, 48, 64}
    BY <1>3 DEF Secrets!HashLen, Secrets!length, Secrets!EvpMaxMdSize
  <1>5. r \in Lines
    BY <1>1, <1>3, <1>4 DEF EventOK, HeldOK, Lines
  <1>6. r.bytes = LineLen(e.conn, l)
    <2>1. CASE l \in Secrets!Label12
      <3>1. Secrets!LengthKnown(e.conn)
        BY <1>1, <2>1 DEF HeldOK, Secrets!LengthKnown
      <3> QED BY <1>3, <2>1, <3>1 DEF LineLen, Secrets!RightLen, Secrets!MasterSecretMaxLen
    <2>2. CASE l \notin Secrets!Label12 /\ lib = "gotls"
      BY <1>3, <2>2 DEF LineLen, Secrets!LengthKnown, Secrets!RightLen
    <2>3. CASE l \notin Secrets!Label12 /\ lib = "openssl"
      <3>1. e.cipher_id = tls[e.conn].suite /\ tls[e.conn].version # 12
        BY <1>1, <2>3 DEF HeldOK
      <3>2. tls[e.conn].suite \in Secrets!KnownSuites =>
              Secrets!length(e) = Secrets!HashLen(e.conn)
        <4>1. CASE tls[e.conn].suite = Secrets!TlsAes256GcmSha384
          BY <3>1, <4>1 DEF Secrets!length, Secrets!HashLen, Secrets!TlsAes128GcmSha256,
               Secrets!TlsAes256GcmSha384, Secrets!TlsChacha20Poly1305Sha256
        <4>2. CASE tls[e.conn].suite \in {Secrets!TlsAes128GcmSha256,
                                         Secrets!TlsChacha20Poly1305Sha256}
          BY <3>1, <4>2 DEF Secrets!length, Secrets!HashLen, Secrets!TlsAes128GcmSha256,
               Secrets!TlsAes256GcmSha384, Secrets!TlsChacha20Poly1305Sha256
        <4> QED BY <4>1, <4>2 DEF Secrets!KnownSuites
      <3>3. tls[e.conn].suite \notin Secrets!KnownSuites => Secrets!length(e) = 64
        BY <3>1 DEF Secrets!KnownSuites, Secrets!length, Secrets!EvpMaxMdSize
      <3>4. Secrets!LengthKnown(e.conn) <=> tls[e.conn].suite \in Secrets!KnownSuites
        BY <2>3, <3>1 DEF Secrets!LengthKnown
      <3> QED BY <1>3, <2>3, <3>2, <3>3, <3>4 DEF LineLen, Secrets!RightLen
    <2>4. CASE l \notin Secrets!Label12 /\ lib = "boringssl"
      <3>1. ~Secrets!LengthKnown(e.conn)
        BY <1>1, <2>4 DEF HeldOK, Secrets!LengthKnown
      <3>2. Secrets!length(e) = 64
        BY <1>1, <2>4 DEF EventOK, Secrets!length, Secrets!EvpMaxMdSize,
             Secrets!TlsAes128GcmSha256, Secrets!TlsAes256GcmSha384,
             Secrets!TlsChacha20Poly1305Sha256
      <3> QED BY <1>3, <2>4, <3>1, <3>2 DEF LineLen
    <2> QED BY <1>2, <2>1, <2>2, <2>3, <2>4
  <1>7. ASSUME lib # "gotls" PROVE l \in Required(e.conn)
    <2>1. CASE l \in Secrets!Label12
      BY <1>1, <2>1 DEF HeldOK, Required
    <2>2. CASE l \in Secrets!TrafficLabels /\ l \notin Secrets!Label12
      BY <1>1, <2>2 DEF HeldOK, Required
    <2>3. CASE l \in Secrets!HandshakeLabels /\ l \notin Secrets!Label12
      <3>1. e.cipher_id \in Secrets!KnownSuites
        BY <1>1, <1>7, <2>3 DEF Secrets!HasTranscript
      <3>2. lib # "boringssl"
        BY <1>1, <3>1 DEF EventOK, Secrets!KnownSuites, Secrets!TlsAes128GcmSha256,
             Secrets!TlsAes256GcmSha384, Secrets!TlsChacha20Poly1305Sha256
      <3>3. Secrets!LengthKnown(e.conn) /\ tls[e.conn].version # 12
        BY <1>1, <1>2, <1>7, <2>3, <3>1, <3>2 DEF HeldOK, Secrets!LengthKnown
      <3> QED BY <2>3, <3>3 DEF Required
    <2> QED BY <1>1, <2>1, <2>2, <2>3 DEF Secrets!Labels
  <1>8. GoodLine(e.conn, l, r)
    BY <1>1, <1>3, <1>6 DEF HeldOK, GoodLine
  <1> QED BY <1>1, <1>5, <1>7, <1>8 DEF r

\* A line added to the key log.
LEMMA LineAdded ==
  ASSUME NEW s \in Seq(Lines), NEW r \in Lines
  PROVE  Len(Append(s, r)) = Len(s) + 1 /\ Append(s, r) # <<>> /\ Len(s) \in Nat
  OBVIOUS

\* The handler writes some of the pending labels, and either marks those or fails to
\* flush.
LEMMA SecretWrite ==
  ASSUME SecretInv, NEW e \in captured, NEW labels \in SUBSET Secrets!Pending(e),
         Secrets!Write(e, labels), UNCHANGED <<lib, tls>>, captured' = captured \ {e},
         failures' \in Nat, complete' \subseteq TlsConns,
         \/ Secrets!MarkSeen(e, labels) /\ UNCHANGED flushFailures
         \/ UNCHANGED seenKeys /\ flushFailures' = flushFailures + 1
  PROVE  /\ SecretType'
         /\ \A d \in captured' : EventOK(d)'
         /\ \A k \in TlsConns, l \in Secrets!Labels :
              /\ LineOK(k, l)'
              /\ keylog[k][l] # <<>> => keylog'[k][l] # <<>>
         /\ \A l \in labels : keylog'[e.conn][l] # <<>>
  <1>1. /\ e.conn \in TlsConns
        /\ \A l \in labels :
             /\ l \in Secrets!Labels /\ <<e.conn, l>> \notin seenKeys
             /\ Secrets!Line(e, l) \in Lines /\ GoodLine(e.conn, l, Secrets!Line(e, l))
             /\ lib # "gotls" => l \in Required(e.conn)
    BY PendingIsGood DEF SecretInv, EventOK
  <1>2. keylog' = [keylog EXCEPT ![e.conn] =
          [l \in Secrets!Labels |-> IF l \in labels
                                    THEN Append(keylog[e.conn][l], Secrets!Line(e, l))
                                    ELSE keylog[e.conn][l]]]
    BY DEF Secrets!Write
  <1>3. \A k \in TlsConns, l \in Secrets!Labels :
          /\ keylog[k][l] \in Seq(Lines)
          /\ keylog'[k][l] = IF k = e.conn /\ l \in labels
                             THEN Append(keylog[k][l], Secrets!Line(e, l)) ELSE keylog[k][l]
    BY <1>1, <1>2 DEF SecretInv, SecretType
  <1>4. \A l \in Secrets!Labels :
          (IF l \in labels THEN Append(keylog[e.conn][l], Secrets!Line(e, l))
           ELSE keylog[e.conn][l]) \in Seq(Lines)
    <2> SUFFICES ASSUME NEW l \in Secrets!Labels
                 PROVE  (IF l \in labels THEN Append(keylog[e.conn][l], Secrets!Line(e, l))
                         ELSE keylog[e.conn][l]) \in Seq(Lines)
      OBVIOUS
    <2>1. keylog[e.conn][l] \in Seq(Lines)
      BY <1>1, <1>3
    <2>2. l \in labels => Secrets!Line(e, l) \in Lines
      BY <1>1
    <2> QED BY <2>1, <2>2
  <1>5. keylog' \in [TlsConns -> [Secrets!Labels -> Seq(Lines)]]
    BY <1>1, <1>2, <1>4 DEF SecretInv, SecretType
  <1>6. SecretType'
    BY <1>5 DEF SecretInv, SecretType
  <1>7. \A d \in captured' : EventOK(d)'
    BY SameConnections DEF SecretInv
  <1>8. flushFailures \in Nat /\ flushFailures' \in Nat
    BY DEF SecretInv, SecretType
  <1>9. ASSUME NEW k \in TlsConns, NEW l \in Secrets!Labels
        PROVE  LineOK(k, l)' /\ (keylog[k][l] # <<>> => keylog'[k][l] # <<>>)
    <2>0. /\ \A v : GoodLine(k, l, v)' <=> GoodLine(k, l, v)
          /\ Required(k)' = Required(k)
      BY SameConnections
    <2>1. CASE k = e.conn /\ l \in labels
      <3>1. keylog'[k][l] = Append(keylog[k][l], Secrets!Line(e, l)) /\ keylog[k][l] \in Seq(Lines)
            /\ <<k, l>> \notin seenKeys /\ Secrets!Line(e, l) \in Lines
            /\ GoodLine(k, l, Secrets!Line(e, l)) /\ (lib # "gotls" => l \in Required(k))
        BY <1>1, <1>3, <2>1
      <3>2. Len(keylog'[k][l]) = Len(keylog[k][l]) + 1 /\ keylog'[k][l] # <<>>
            /\ Len(keylog[k][l]) \in Nat
        BY <3>1, LineAdded
      <3>3. Len(keylog[k][l]) <= flushFailures
        BY <3>1 DEF SecretInv, LineOK
      <3>4. \A i \in DOMAIN keylog'[k][l] : GoodLine(k, l, keylog'[k][l][i])
        BY <3>1 DEF SecretInv, LineOK
      <3>5. \/ flushFailures' = flushFailures + 1
            \/ <<k, l>> \in seenKeys' /\ flushFailures' = flushFailures
        BY <2>1 DEF Secrets!MarkSeen
      <3>6. /\ Len(keylog'[k][l]) <= 1 + flushFailures'
            /\ <<k, l>> \notin seenKeys' => Len(keylog'[k][l]) <= flushFailures'
        <4> DEFINE n == Len(keylog[k][l])
                   m == Len(keylog'[k][l])
        <4>1. m = n + 1 /\ n \in Nat /\ n <= flushFailures
          BY <3>2, <3>3
        <4> HIDE DEF n, m
        <4>2. CASE flushFailures' = flushFailures + 1
          <5>1. m <= flushFailures' /\ m <= 1 + flushFailures'
            BY <1>8, <4>1, <4>2
          <5> QED BY <5>1 DEF m
        <4>3. CASE <<k, l>> \in seenKeys' /\ flushFailures' = flushFailures
          <5>1. m <= 1 + flushFailures'
            BY <1>8, <4>1, <4>3
          <5> QED BY <4>3, <5>1 DEF m
        <4> QED BY <3>5, <4>2, <4>3
      <3>7. (\A i \in DOMAIN keylog[k][l] : GoodLine(k, l, keylog[k][l][i]))'
        BY <2>0, <3>4
      <3>8. lib' # "gotls" => l \in Required(k)'
        BY <2>0, <3>1
      <3> QED BY <3>2, <3>6, <3>7, <3>8 DEF LineOK
    <2>2. CASE ~(k = e.conn /\ l \in labels)
      <3>1. keylog'[k][l] = keylog[k][l] /\ keylog[k][l] \in Seq(Lines)
        BY <1>3, <2>2
      <3>2. <<k, l>> \in seenKeys' <=> <<k, l>> \in seenKeys
        BY <2>2 DEF Secrets!MarkSeen
      <3>3. flushFailures <= flushFailures'
        BY <1>8
      <3>4. Len(keylog[k][l]) \in Nat
        BY <3>1
      <3> QED BY <1>8, <2>0, <3>1, <3>2, <3>3, <3>4 DEF SecretInv, LineOK
    <2> QED BY <2>1, <2>2
  <1>10. ASSUME NEW l \in labels PROVE keylog'[e.conn][l] # <<>>
    <2>1. /\ keylog[e.conn][l] \in Seq(Lines) /\ Secrets!Line(e, l) \in Lines
          /\ keylog'[e.conn][l] = Append(keylog[e.conn][l], Secrets!Line(e, l))
      BY <1>1, <1>3
    <2> QED BY <2>1
  <1> QED BY <1>6, <1>7, <1>9, <1>10

\* What was complete stays so.
LEMMA StillComplete ==
  ASSUME SecretInv, UNCHANGED <<lib, tls, complete>>,
         \A k \in TlsConns, l \in Secrets!Labels : keylog[k][l] # <<>> => keylog'[k][l] # <<>>
  PROVE  AllThere'
  <1>1. \A k : Required(k)' = Required(k) /\ Required(k) \subseteq Secrets!Labels
    BY SameConnections DEF Required, Secrets!Labels
  <1> QED BY <1>1 DEF SecretInv, SecretType, AllThere

\* The handler writes the lines of an event and flushes them.
LEMMA SecretHandle ==
  ASSUME SecretInv, NEW e \in captured, Secrets!Handle(e)
  PROVE  SecretInv'
  <1>1. complete' \subseteq TlsConns
    BY DEF Secrets!Handle, SecretInv, SecretType, EventOK
  <1>2. /\ SecretType'
        /\ \A d \in captured' : EventOK(d)'
        /\ \A k \in TlsConns, l \in Secrets!Labels :
              /\ LineOK(k, l)'
              /\ keylog[k][l] # <<>> => keylog'[k][l] # <<>>
        /\ \A l \in Secrets!Pending(e) : keylog'[e.conn][l] # <<>>
    BY <1>1, SecretWrite DEF Secrets!Handle, SecretInv, SecretType
  <1>3. AllThere'
    <2> SUFFICES ASSUME lib # "gotls", NEW k \in complete', NEW l \in Required(k)
                 PROVE  keylog'[k][l] # <<>>
      BY SameConnections DEF AllThere, Secrets!Handle
    <2>1. k \in TlsConns /\ l \in Secrets!Labels
      BY <1>1 DEF Required, Secrets!Labels
    <2>2. CASE k \in complete
      <3>1. keylog[k][l] # <<>>
        BY <2>2 DEF SecretInv, AllThere
      <3> QED BY <1>2, <2>1, <3>1
    <2>3. CASE k \notin complete
      <3>1. k = e.conn /\ e.taken >= Secrets!Done
        BY <2>3 DEF Secrets!Handle
      <3>2. l \in DOMAIN e.secrets /\ e.secrets[l] # "zero"
        BY <3>1 DEF SecretInv, EventOK
      <3>3. CASE <<k, l>> \in seenKeys
        BY <1>2, <2>1, <3>3 DEF SecretInv, LineOK
      <3>4. CASE <<k, l>> \notin seenKeys
        <4>1. l \in Secrets!HandshakeLabels => Secrets!HasTranscript(e)
          <5>1. HeldOK(e, l)
            BY <3>1, <3>2 DEF SecretInv, EventOK
          <5>2. l \in Secrets!HandshakeLabels => l \notin Secrets!Label12 \cup Secrets!TrafficLabels
            BY DEF Secrets!Label12, Secrets!HandshakeLabels, Secrets!TrafficLabels
          <5>3. l \in Secrets!HandshakeLabels =>
                  Secrets!LengthKnown(k) /\ tls[k].version # 12
            BY <5>2 DEF Required
          <5> QED BY <3>1, <5>1, <5>2, <5>3 DEF HeldOK, Secrets!LengthKnown, Secrets!HasTranscript
        <4>2. l \in Secrets!Pending(e)
          BY <3>1, <3>2, <3>4, <4>1 DEF Secrets!Pending
        <4> QED BY <1>2, <3>1, <4>2
      <3> QED BY <3>3, <3>4
    <2> QED BY <2>2, <2>3
  <1> QED BY <1>2, <1>3 DEF SecretInv

\* The handler fails half way, at a write or at the flush.
LEMMA SecretHandleFails ==
  ASSUME SecretInv, NEW e \in captured,
         Secrets!HandleWriteFails(e) \/ Secrets!HandleFlushFails(e)
  PROVE  SecretInv'
  <1>1. CASE Secrets!HandleWriteFails(e)
    <2>1. PICK written \in SUBSET Secrets!Pending(e) :
            Secrets!Write(e, written) /\ Secrets!MarkSeen(e, written)
      BY <1>1 DEF Secrets!HandleWriteFails
    <2>2. failures' \in Nat /\ complete' \subseteq TlsConns
      BY <1>1 DEF Secrets!HandleWriteFails, SecretInv, SecretType
    <2>3. /\ SecretType'
          /\ \A d \in captured' : EventOK(d)'
          /\ \A k \in TlsConns, l \in Secrets!Labels :
                /\ LineOK(k, l)'
                /\ keylog[k][l] # <<>> => keylog'[k][l] # <<>>
      BY <1>1, <2>1, <2>2, SecretWrite DEF Secrets!HandleWriteFails
    <2> QED BY <1>1, <2>3, StillComplete DEF Secrets!HandleWriteFails, SecretInv
  <1>2. CASE Secrets!HandleFlushFails(e)
    <2>2. failures' \in Nat /\ complete' \subseteq TlsConns
      BY <1>2 DEF Secrets!HandleFlushFails, SecretInv, SecretType
    <2>3. /\ SecretType'
          /\ \A d \in captured' : EventOK(d)'
          /\ \A k \in TlsConns, l \in Secrets!Labels :
                /\ LineOK(k, l)'
                /\ keylog[k][l] # <<>> => keylog'[k][l] # <<>>
      BY <1>2, <2>2, SecretWrite DEF Secrets!HandleFlushFails
    <2> QED BY <1>2, <2>3, StillComplete DEF Secrets!HandleFlushFails, SecretInv
  <1> QED BY <1>1, <1>2

\* Every step of SecretCapture keeps its invariant.
LEMMA SecretStep ==
  ASSUME SecretInv, [Secrets!Next]_secretVars
  PROVE  SecretInv'
  <1>1. ASSUME NEW k \in TlsConns, Secrets!probe_ssl_master_key(k)
        PROVE  SecretInv'
    BY <1>1, SecretHook DEF Secrets!probe_ssl_master_key, Required, Secrets!Labels
  <1>3. ASSUME NEW k \in TlsConns, Secrets!uretprobe_bssl_do_handshake(k)
        PROVE  SecretInv'
    <2>1. Required(k) \subseteq Secrets!Label12 \cup Secrets!TrafficLabels
      BY <1>3 DEF Secrets!uretprobe_bssl_do_handshake, Required, Secrets!LengthKnown
    <2> QED BY <1>3, <2>1, SecretHook DEF Secrets!uretprobe_bssl_do_handshake, Secrets!Labels
  <1>4. ASSUME NEW k \in TlsConns, NEW l \in Secrets!Labels, Secrets!gotls_mastersecret(k, l)
        PROVE  SecretInv'
    BY <1>4, SecretHook DEF Secrets!gotls_mastersecret
  <1>5. CASE UNCHANGED secretVars
    <2>1. UNCHANGED <<lib, tls, captured, keylog, seenKeys, complete, failures, flushFailures>>
      BY <1>5 DEF secretVars
    <2>2. /\ SecretType' /\ AllThere' /\ (\A e \in captured' : EventOK(e)')
      BY <2>1, SameConnections DEF SecretInv, SecretType, AllThere
    <2>3. ASSUME NEW k \in TlsConns, NEW l \in Secrets!Labels PROVE LineOK(k, l)'
      <3>1. LineOK(k, l)
        BY DEF SecretInv
      <3> QED BY <2>1, <3>1, SameConnections DEF LineOK
    <2> QED BY <2>2, <2>3 DEF SecretInv
  <1> QED BY <1>1, <1>3, <1>4, <1>5, SecretProgress, SecretHandle, SecretHandleFails
          DEF Secrets!Next

\* The invariant of SecretCapture holds in every reachable state.
LEMMA SecretInvariance == ProgramsSpec => []SecretInv
  <1>1. ProgramsInit => SecretInv
    BY SecretInit DEF ProgramsInit
  <1>2. SecretInv /\ [ProgramsNext]_programsVars => SecretInv'
    BY SecretSteps, SecretStep
  <1> QED BY <1>1, <1>2, PTL DEF ProgramsSpec

\* A secret has one line in the key log, and one more for each flush that failed,
\* for any number of connections and failures and any order of the events.
THEOREM SecretsAreLoggedOnce == ProgramsSpec => []LoggedOnce
  <1>1. SecretInv => LoggedOnce
    BY DEF SecretInv, LineOK, LoggedOnce, Secrets!LoggedOnce
  <1> QED BY <1>1, SecretInvariance, PTL

\* A line of the key log has the secret of its connection if and only if that was in
\* its place when the event was taken, and it has the length of that secret where the
\* handler is given it and 64 bytes elsewhere, for every suite and order of the events.
THEOREM LoggedSecretsAreRight == ProgramsSpec => []LoggedIsRight
  <1>1. SecretInv => LoggedIsRight
    <2> SUFFICES ASSUME SecretInv, NEW k \in TlsConns, NEW l \in Secrets!Labels,
                        NEW i \in DOMAIN keylog[k][l]
                 PROVE  GoodLine(k, l, keylog[k][l][i])
      BY DEF GoodLine, Good, LineLen, LoggedIsRight, Secrets!LoggedIsRight, Secrets!EvpMaxMdSize
    <2> QED BY DEF SecretInv, LineOK
  <1> QED BY <1>1, SecretInvariance, PTL

\* Once an event taken after the handshake is handled, no secret the handler can
\* write is missing from the key log, whatever was handled or failed before it; of
\* a suite it does not know, and of BoringSSL, those of the handshake are.
THEOREM NoSecretIsMissing == ProgramsSpec => []NothingMissing
  <1>1. SecretInv => NothingMissing
    <2> SUFFICES ASSUME SecretInv, lib # "gotls", NEW k \in complete, NEW l \in Secrets!Labels
                 PROVE  keylog[k][l] # <<>> <=> l \in Required(k)
      BY DEF NothingMissing, Secrets!NothingMissing, Required
    <2>1. k \in TlsConns
      BY DEF SecretInv, SecretType
    <2>2. keylog[k][l] # <<>> => l \in Required(k)
      BY <2>1 DEF SecretInv, LineOK
    <2> QED BY <2>2 DEF SecretInv, AllThere
  <1> QED BY <1>1, SecretInvariance, PTL

-----------------------------------------------------------------------------
(***************************************************************************)
(* PerfReorder.  Arrange() counts places, so what it returns follows from  *)
(* cardinalities: places are distinct, hence all taken.  Every flush is    *)
(* then a rearrangement of the buffer, and push() an arrival followed by a *)
(* flush.                                                                  *)
(***************************************************************************)

\* A step of Programs is one of PerfReorder or leaves it alone.
LEMMA ReorderSteps == [ProgramsNext]_programsVars => [Reorder!Next]_reorderVars
  BY DEF ProgramsNext, programsVars, reorderVars

\* Index i comes before index j: its key is smaller, or as large and i is smaller.
Comes(key, i, j) == key[i] < key[j] \/ (key[i] = key[j] /\ i < j)

\* The indices that do not come after i, and their number.
Upto(I, key, i) == {j \in I : key[j] < key[i] \/ (key[j] = key[i] /\ j <= i)}
Places(I, key) == [i \in I |-> Cardinality(Upto(I, key, i))]

\* p lists the indices I by their keys, each of them.
Lists(p, I, key) ==
    /\ p \in [1..Cardinality(I) -> I]
    /\ \A i \in I : \E k \in 1..Cardinality(I) : p[k] = i
    /\ \A k, l \in 1..Cardinality(I) : k < l => Comes(key, p[k], p[l])

\* The elements of s at the indices that p lists.
Listed(p, I, s) == [k \in 1..Cardinality(I) |-> s[p[k]]]

\* The places of the indices of a finite set are between 1 and their number, and
\* an index that comes before another one has the smaller place.
LEMMA PlaceOrder ==
  ASSUME NEW n \in Nat, NEW I \in SUBSET (1..n), NEW key \in [I -> Nat]
  PROVE  /\ IsFiniteSet(I) /\ Cardinality(I) \in Nat
         /\ Places(I, key) \in [I -> 1..Cardinality(I)]
         /\ \A i, j \in I : Comes(key, i, j) => Places(I, key)[i] < Places(I, key)[j]
  <1>1. IsFiniteSet(I)
    <2>1. IsFiniteSet(1..n)
      BY FS_Interval
    <2> QED BY <2>1, FS_Subset
  <1>2. Cardinality(I) \in Nat
    BY <1>1, FS_CardinalityType
  <1>3. \A i \in I : /\ Upto(I, key, i) \in SUBSET I
                     /\ IsFiniteSet(Upto(I, key, i))
                     /\ Cardinality(Upto(I, key, i)) \in Nat
                     /\ Cardinality(Upto(I, key, i)) <= Cardinality(I)
    <2> TAKE i \in I
    <2>1. Upto(I, key, i) \in SUBSET I
      BY DEF Upto
    <2>2. IsFiniteSet(Upto(I, key, i)) /\ Cardinality(Upto(I, key, i)) <= Cardinality(I)
      BY <1>1, <2>1, FS_Subset
    <2> QED BY <2>1, <2>2, FS_CardinalityType
  <1>4. \A i \in I : Cardinality(Upto(I, key, i)) # 0
    <2> TAKE i \in I
    <2>1. i \in Upto(I, key, i)
      BY DEF Upto
    <2> QED BY <2>1, <1>3, FS_EmptySet
  <1>5. Places(I, key) \in [I -> 1..Cardinality(I)]
    <2>1. \A i \in I : Cardinality(Upto(I, key, i)) \in 1..Cardinality(I)
      BY <1>2, <1>3, <1>4
    <2> QED BY <2>1 DEF Places
  <1>6. ASSUME NEW i \in I, NEW j \in I, Comes(key, i, j)
        PROVE  Places(I, key)[i] < Places(I, key)[j]
    <2>0. i \in Nat /\ j \in Nat /\ key[i] \in Nat /\ key[j] \in Nat
      OBVIOUS
    <2>1. Upto(I, key, i) \in SUBSET Upto(I, key, j)
      <3> SUFFICES ASSUME NEW k \in I, key[k] < key[i] \/ (key[k] = key[i] /\ k <= i)
                   PROVE  key[k] < key[j] \/ (key[k] = key[j] /\ k <= j)
        BY DEF Upto
      <3>1. k \in Nat /\ key[k] \in Nat
        OBVIOUS
      <3> QED BY <1>6, <2>0, <3>1 DEF Comes
    <2>2. j \in Upto(I, key, j) /\ j \notin Upto(I, key, i)
      BY <1>6, <2>0 DEF Comes, Upto
    <2>3. Cardinality(Upto(I, key, i)) # Cardinality(Upto(I, key, j))
          /\ Cardinality(Upto(I, key, i)) <= Cardinality(Upto(I, key, j))
      BY <1>3, <2>1, <2>2, FS_Subset
    <2> QED BY <2>3, <1>3 DEF Places
  <1> QED BY <1>1, <1>2, <1>5, <1>6

\* What a place function without gaps gives: every place is taken, by one index.
LEMMA PlaceTaken ==
  ASSUME NEW n \in Nat, NEW I \in SUBSET (1..n), NEW key \in [I -> Nat]
  PROVE  /\ \A k \in 1..Cardinality(I) : \E i \in I : Places(I, key)[i] = k
         /\ \A i, j \in I : Places(I, key)[i] = Places(I, key)[j] => i = j
  <1> DEFINE m == Cardinality(I)
             f == Places(I, key)
  <1>1. /\ IsFiniteSet(I) /\ m \in Nat /\ f \in [I -> 1..m]
        /\ \A i, j \in I : Comes(key, i, j) => f[i] < f[j]
    BY PlaceOrder
  <1>2. \A i, j \in I : f[i] = f[j] => i = j
    <2> SUFFICES ASSUME NEW i \in I, NEW j \in I, f[i] = f[j], i # j PROVE FALSE
      OBVIOUS
    <2>0. i \in Nat /\ j \in Nat /\ key[i] \in Nat /\ key[j] \in Nat
      OBVIOUS
    <2>1. Comes(key, i, j) \/ Comes(key, j, i)
      BY <2>0 DEF Comes
    <2>2. f[i] \in Nat /\ f[j] \in Nat
      BY <1>1
    <2> HIDE DEF f
    <2> QED BY <1>1, <2>1, <2>2
  <1>3. f \in Injection(I, 1..m)
    BY <1>1, <1>2, Fun_IsInj
  <1>4. IsFiniteSet(1..m) /\ Cardinality(1..m) = m
    <2> HIDE DEF m
    <2> QED BY <1>1, FS_Interval
  <1>5. f \in Surjection(I, 1..m)
    BY <1>3, <1>4, FS_Injection
  <1> HIDE DEF f, m
  <1>6. \A k \in 1..m : \E i \in I : f[i] = k
    BY <1>5, Fun_SurjectionProperties
  <1> QED BY <1>2, <1>6 DEF f, m

\* The cardinality that PerfReorder counts with.
LEMMA SameCount == \A S : Reorder!Cardinality(S) = Cardinality(S)
  BY DEF Reorder!Cardinality, Cardinality

\* Arrange() lists the indices by their keys.
LEMMA Arrangement ==
  ASSUME NEW n \in Nat, NEW I \in SUBSET (1..n), NEW key \in [I -> Nat], NEW s
  PROVE  \E p : Lists(p, I, key) /\ Reorder!Arrange(s, I, key) = Listed(p, I, s)
  <1> DEFINE m == Cardinality(I)
             f == Places(I, key)
             p == [k \in 1..m |-> CHOOSE i \in I : Reorder!Cardinality(Upto(I, key, i)) = k]
  <1>0. \A i \in I : i \in Nat /\ key[i] \in Nat
    OBVIOUS
  <1>1. /\ m \in Nat /\ f \in [I -> 1..m]
        /\ \A i, j \in I : Comes(key, i, j) => f[i] < f[j]
    BY PlaceOrder
  <1>2. /\ \A k \in 1..m : \E i \in I : f[i] = k
        /\ \A i, j \in I : f[i] = f[j] => i = j
    BY PlaceTaken
  <1>3. Reorder!Arrange(s, I, key) = [k \in 1..m |-> s[p[k]]]
    <2>1. Reorder!Arrange(s, I, key)
            = [k \in 1..Reorder!Cardinality(I) |->
                 s[CHOOSE i \in I : Reorder!Cardinality(Upto(I, key, i)) = k]]
      BY DEF Reorder!Arrange, Upto
    <2>2. Reorder!Cardinality(I) = m
      BY SameCount
    <2> QED BY <2>1, <2>2
  <1>4. \A i \in I : Reorder!Cardinality(Upto(I, key, i)) = f[i]
    BY SameCount DEF Places
  <1> HIDE DEF f, m
  <1>5. \A k \in 1..m : p[k] \in I /\ f[p[k]] = k
    <2> TAKE k \in 1..m
    <2>1. \E i \in I : Reorder!Cardinality(Upto(I, key, i)) = k
      BY <1>2, <1>4
    <2>2. p[k] \in I /\ Reorder!Cardinality(Upto(I, key, p[k])) = k
      BY <2>1
    <2> QED BY <2>2, <1>4
  <1>6. p \in [1..m -> I]
    BY <1>5
  <1> HIDE DEF p
  <1>7. \A i \in I : \E k \in 1..m : p[k] = i
    <2> TAKE i \in I
    <2>1. f[i] \in 1..m
      BY <1>1
    <2> QED BY <2>1, <1>2, <1>5
  <1>8. ASSUME NEW k \in 1..m, NEW l \in 1..m, k < l
        PROVE  Comes(key, p[k], p[l])
    <2>1. p[k] \in I /\ p[l] \in I /\ f[p[k]] = k /\ f[p[l]] = l
      BY <1>5
    <2>2. /\ p[k] \in Nat /\ p[l] \in Nat
          /\ key[p[k]] \in Nat /\ key[p[l]] \in Nat
      BY <1>0, <2>1
    <2>3. p[k] # p[l] /\ ~(l < k)
      BY <1>1, <1>8, <2>1
    <2>4. ~Comes(key, p[l], p[k])
      BY <1>1, <2>1, <2>3
    <2> QED BY <2>2, <2>3, <2>4 DEF Comes
  <1>9. Lists(p, I, key)
    BY <1>6, <1>7, <1>8 DEF Lists, m
  <1> QED BY <1>3, <1>9 DEF Listed, m

\* c holds the elements of b, each from the index that p gives, those with equal
\* timestamps in the order of b.
Rearranges(p, b, c) ==
    /\ c \in Seq(Events) /\ Len(c) = Len(b)
    /\ p \in [1..Len(b) -> 1..Len(b)]
    /\ \A i \in 1..Len(b) : \E k \in 1..Len(b) : p[k] = i
    /\ \A k \in 1..Len(b) : c[k] = b[p[k]]
    /\ \A k, l \in 1..Len(b) : (k < l /\ Mono[c[k]] = Mono[c[l]]) => p[k] < p[l]

\* The first n elements of c are not newer than what follows them.
OldestFirst(c, n) == \A k, l \in 1..Len(c) : (k < l /\ k <= n) => Mono[c[k]] <= Mono[c[l]]

\* c holds the elements of b at the indices I, in the order of b: p gives the indices.
Selects(p, b, I, c) ==
    /\ c \in Seq(Events) /\ Len(c) = Cardinality(I)
    /\ p \in [1..Len(c) -> I]
    /\ \A i \in I : \E k \in 1..Len(c) : p[k] = i
    /\ \A k, l \in 1..Len(c) : k < l => p[k] < p[l]
    /\ \A k \in 1..Len(c) : c[k] = b[p[k]]

\* StableSort() sorts, and is stable.
LEMMA Sorted ==
  ASSUME Reorder!ReorderConstantsOK, NEW b \in Seq(Events)
  PROVE  \E p : /\ Rearranges(p, b, Reorder!StableSort(b))
                /\ OldestFirst(Reorder!StableSort(b), Len(b))
  <1> DEFINE c == Reorder!StableSort(b)
             n == Len(b)
             I == DOMAIN b
             key == [i \in I |-> Mono[b[i]]]
  <1>1. n \in Nat /\ I = 1..n /\ \A i \in 1..n : b[i] \in Events
    BY LenProperties, ElementOfSeq
  <1>2. \A i \in 1..n : Mono[b[i]] \in Nat
    BY <1>1 DEF Reorder!ReorderConstantsOK
  <1>3. key \in [I -> Nat] /\ \A i \in 1..n : key[i] = Mono[b[i]]
    BY <1>1, <1>2
  <1>4. Cardinality(I) = n
    <2> HIDE DEF n, I
    <2>1. Cardinality(1..n) = n
      BY <1>1, FS_Interval
    <2> QED BY <1>1, <2>1
  <1>5. c = Reorder!Arrange(b, I, key)
    BY DEF Reorder!StableSort
  <1>6. I \in SUBSET (1..n)
    BY <1>1
  <1> HIDE DEF c, n, I, key
  <1>7. PICK p : Lists(p, I, key) /\ Reorder!Arrange(b, I, key) = Listed(p, I, b)
    BY <1>1, <1>3, <1>6, Arrangement
  <1>8. /\ p \in [1..n -> 1..n]
        /\ \A i \in 1..n : \E k \in 1..n : p[k] = i
        /\ \A k, l \in 1..n : k < l => Comes(key, p[k], p[l])
    BY <1>1, <1>4, <1>7 DEF Lists
  <1>9. c = [k \in 1..n |-> b[p[k]]]
    BY <1>4, <1>5, <1>7 DEF Listed
  <1>10. c \in Seq(Events) /\ Len(c) = n
    <2>1. \A k \in 1..n : b[p[k]] \in Events
      BY <1>1, <1>8
    <2> QED BY <1>1, <1>9, <2>1
  <1>11. \A k \in 1..n : c[k] = b[p[k]] /\ p[k] \in 1..n /\ Mono[c[k]] \in Nat
                         /\ key[p[k]] = Mono[c[k]]
    BY <1>2, <1>3, <1>8, <1>9
  <1>12. ASSUME NEW k \in 1..n, NEW l \in 1..n, k < l
         PROVE  /\ Mono[c[k]] <= Mono[c[l]]
                /\ Mono[c[k]] = Mono[c[l]] => p[k] < p[l]
    <2>1. Comes(key, p[k], p[l])
      BY <1>8, <1>12
    <2>2. /\ key[p[k]] = Mono[c[k]] /\ key[p[l]] = Mono[c[l]]
          /\ Mono[c[k]] \in Nat /\ Mono[c[l]] \in Nat
      BY <1>11
    <2>3. Mono[c[k]] < Mono[c[l]] \/ (Mono[c[k]] = Mono[c[l]] /\ p[k] < p[l])
      BY <2>1, <2>2 DEF Comes
    <2> QED BY <2>2, <2>3
  <1>13. Rearranges(p, b, c)
    BY <1>8, <1>10, <1>11, <1>12 DEF Rearranges, n
  <1>14. OldestFirst(c, n)
    BY <1>10, <1>12 DEF OldestFirst
  <1> QED BY <1>13, <1>14 DEF c, n

\* AppendAt() selects.
LEMMA Selected ==
  ASSUME NEW b \in Seq(Events), NEW I \in SUBSET (1..Len(b))
  PROVE  \E p : Selects(p, b, I, Reorder!AppendAt(b, I))
  <1> DEFINE c == Reorder!AppendAt(b, I)
             n == Len(b)
             m == Cardinality(I)
             key == [i \in I |-> 0]
  <1>1. n \in Nat /\ I \in SUBSET (1..n) /\ \A i \in I : i \in Nat /\ b[i] \in Events
    BY LenProperties, ElementOfSeq
  <1>2. key \in [I -> Nat] /\ \A i \in I : key[i] = 0
    OBVIOUS
  <1>3. c = Reorder!Arrange(b, I, key)
    BY DEF Reorder!AppendAt
  <1>4. m \in Nat
    BY <1>1, <1>2, PlaceOrder
  <1> HIDE DEF c, n, key
  <1>5. PICK p : Lists(p, I, key) /\ Reorder!Arrange(b, I, key) = Listed(p, I, b)
    BY <1>1, <1>2, Arrangement
  <1> HIDE DEF m
  <1>6. /\ p \in [1..m -> I]
        /\ \A i \in I : \E k \in 1..m : p[k] = i
        /\ \A k, l \in 1..m : k < l => Comes(key, p[k], p[l])
    BY <1>5 DEF Lists, m
  <1>7. c = [k \in 1..m |-> b[p[k]]]
    BY <1>3, <1>5 DEF Listed, m
  <1>8. c \in Seq(Events) /\ Len(c) = m
    <2>1. \A k \in 1..m : b[p[k]] \in Events
      BY <1>1, <1>6
    <2> QED BY <1>4, <1>7, <2>1
  <1>9. \A k, l \in 1..m : k < l => p[k] < p[l]
    BY <1>2, <1>6 DEF Comes
  <1>10. \A k \in 1..m : c[k] = b[p[k]]
    BY <1>7
  <1>11. Selects(p, b, I, c)
    BY <1>6, <1>8, <1>9, <1>10 DEF Selects, m
  <1> QED BY <1>11 DEF c

\* A flush splits b into what goes out and what is kept: nothing is lost, the
\* older events go first, and those with equal timestamps in the order of b.
Flushed(b, out, keep) ==
    /\ out \in Seq(Events) /\ keep \in Seq(Events)
    /\ \E p : Rearranges(p, b, out \o keep)
    /\ OldestFirst(out \o keep, Len(out))

\* The newest timestamp of a buffer is one of an event in it.
LEMMA NewestHeld ==
  ASSUME Reorder!ReorderConstantsOK, NEW b \in Seq(Events), Len(b) # 0
  PROVE  \E i \in 1..Len(b) : Reorder!MaxMono(b) = Mono[b[i]]
  <1> DEFINE c == Reorder!StableSort(b)
             n == Len(b)
  <1>1. PICK p : Rearranges(p, b, c) /\ OldestFirst(c, n)
    BY Sorted
  <1> HIDE DEF c
  <1>2. n \in Nat /\ n \in 1..n /\ DOMAIN b = 1..n /\ \A i \in 1..n : b[i] \in Events
    BY LenProperties, ElementOfSeq
  <1>3. \A i \in 1..n : Mono[b[i]] \in Nat
    BY <1>2 DEF Reorder!ReorderConstantsOK
  <1> HIDE DEF n
  <1>4. /\ p \in [1..n -> 1..n] /\ Len(c) = n
        /\ \A i \in 1..n : \E k \in 1..n : p[k] = i
        /\ \A k \in 1..n : c[k] = b[p[k]]
    BY <1>1 DEF Rearranges, n
  <1>5. p[n] \in 1..n
    BY <1>2, <1>4
  <1>6. ASSUME NEW i \in 1..n PROVE Mono[b[i]] <= Mono[b[p[n]]]
    <2>1. PICK k \in 1..n : p[k] = i
      BY <1>4
    <2>2. CASE k = n
      BY <1>3, <2>1, <2>2
    <2>3. CASE k # n
      <3>1. k < n /\ k <= n
        BY <1>2, <2>3
      <3>2. Mono[c[k]] <= Mono[c[n]]
        BY <1>1, <1>2, <1>4, <3>1 DEF OldestFirst
      <3> QED BY <1>2, <1>4, <2>1, <3>2
    <2> QED BY <2>2, <2>3
  <1>7. \E m \in {Mono[b[i]] : i \in DOMAIN b} : \A i \in DOMAIN b : Mono[b[i]] <= m
    BY <1>2, <1>5, <1>6
  <1>8. Reorder!MaxMono(b) \in {Mono[b[i]] : i \in DOMAIN b}
    BY <1>7 DEF Reorder!MaxMono
  <1> QED BY <1>2, <1>8 DEF n

\* flushPressure() splits the sorted buffer, and keeps less than all of it.
LEMMA PressureFlush ==
  ASSUME Reorder!ReorderConstantsOK, NEW b \in Seq(Events), Len(b) # 0
  PROVE  /\ Flushed(b, Reorder!FlushPressure(b).out, Reorder!FlushPressure(b).keep)
         /\ Len(Reorder!FlushPressure(b).keep) < Len(b)
  <1> DEFINE c == Reorder!StableSort(b)
             L == Len(b)
             n == Reorder!PressureCount(b)
             out == SubSeq(c, 1, n)
             keep == SubSeq(c, n + 1, L)
  <1>1. Reorder!FlushPressure(b).out = out /\ Reorder!FlushPressure(b).keep = keep
    BY DEF Reorder!FlushPressure
  <1>2. L \in Nat \ {0}
    BY LenProperties
  <1>3. n \in 1..L
    <2> HIDE DEF L
    <2>1. n = IF L \div 2 = 0 THEN 1 ELSE L \div 2
      BY DEF Reorder!PressureCount, L
    <2> HIDE DEF n
    <2> QED BY <1>2, <2>1
  <1>4. PICK p : Rearranges(p, b, c) /\ OldestFirst(c, L)
    BY Sorted
  <1> HIDE DEF c, n, L
  <1>5. c \in Seq(Events) /\ Len(c) = L /\ \A i \in 1..L : c[i] \in Events
    <2>1. c \in Seq(Events) /\ Len(c) = L
      BY <1>4 DEF Rearranges, L
    <2> QED BY <2>1, ElementOfSeq
  <1>6. out \in Seq(Events) /\ Len(out) = n
    <2>1. \A i \in 1..n : c[i] \in Events
      BY <1>2, <1>3, <1>5
    <2> QED BY <1>3, <2>1, SubSeqProperties
  <1>7. keep \in Seq(Events) /\ Len(keep) = L - n
    <2>1. \A i \in (n + 1)..L : c[i] \in Events
      BY <1>2, <1>3, <1>5
    <2>2. n + 1 \in Int /\ L \in Int
      BY <1>2, <1>3
    <2>3. keep \in Seq(Events) /\ Len(keep) = IF n + 1 <= L THEN L - (n + 1) + 1 ELSE 0
      BY <2>1, <2>2, SubSeqProperties
    <2> HIDE DEF keep
    <2> QED BY <1>2, <1>3, <2>3
  <1>8. out \o keep = c
    <2>1. 1 \in 1..(Len(c) + 1) /\ n \in (1 - 1)..Len(c) /\ L \in n..Len(c)
      BY <1>2, <1>3, <1>5
    <2>2. out \o keep = SubSeq(c, 1, L)
      BY <1>5, <2>1, ConcatAdjacentSubSeq
    <2> QED BY <1>5, <2>2, SubSeqFull
  <1> HIDE DEF out, keep
  <1>9. OldestFirst(c, n)
    BY <1>2, <1>3, <1>4, <1>5 DEF OldestFirst
  <1>10. Flushed(b, out, keep)
    BY <1>4, <1>6, <1>7, <1>8, <1>9 DEF Flushed
  <1>11. Len(keep) < L
    BY <1>2, <1>3, <1>7
  <1> QED BY <1>1, <1>10, <1>11 DEF L

\* What flushByLag() lets go and keeps, once it has sorted what goes: p gives the
\* indices of the one, q those of the other.
LEMMA SplitRearranges ==
  ASSUME Reorder!ReorderConstantsOK, NEW b \in Seq(Events), NEW cut \in Int,
         NEW I, I = {i \in 1..Len(b) : Mono[b[i]] <= cut},
         NEW old \in Seq(Events), NEW p, Selects(p, b, I, old),
         NEW keep \in Seq(Events), NEW q, Selects(q, b, (1..Len(b)) \ I, keep),
         NEW out, NEW r, Rearranges(r, old, out), OldestFirst(out, Len(old))
  PROVE  Flushed(b, out, keep)
  <1> DEFINE n == Len(b)
             m == Len(old)
             J == (1..n) \ I
             c == out \o keep
             t == [k \in 1..n |-> IF k <= m THEN p[r[k]] ELSE q[k - m]]
  <1>1. /\ n \in Nat /\ m \in Nat /\ Len(keep) \in Nat
        /\ \A i \in 1..n : b[i] \in Events
    BY LenProperties, ElementOfSeq
  <1>2. m + Len(keep) = n
    <2>1. IsFiniteSet(1..n) /\ Cardinality(1..n) = n
      <3> HIDE DEF n
      <3> QED BY <1>1, FS_Interval
    <2>2. (1..n) \cap I = I
      OBVIOUS
    <2>3. Cardinality(J) = n - Cardinality(I)
      <3> DEFINE D == 1..n
      <3>1. Cardinality(D \ I) = Cardinality(D) - Cardinality(D \cap I)
        <4>1. IsFiniteSet(D)
          BY <2>1
        <4> HIDE DEF D
        <4> QED BY <4>1, FS_Difference
      <3> QED BY <2>1, <2>2, <3>1
    <2>4. Len(keep) = Cardinality(J) /\ m = Cardinality(I)
      BY DEF Selects
    <2> HIDE DEF n, m, J
    <2> QED BY <1>1, <2>3, <2>4
  <1>3. /\ p \in [1..m -> I]
        /\ \A i \in I : \E k \in 1..m : p[k] = i
        /\ \A k, l \in 1..m : k < l => p[k] < p[l]
        /\ \A k \in 1..m : old[k] = b[p[k]]
    BY DEF Selects
  <1>4. /\ q \in [1..(n - m) -> J]
        /\ \A i \in J : \E k \in 1..(n - m) : q[k] = i
        /\ \A k, l \in 1..(n - m) : k < l => q[k] < q[l]
        /\ \A k \in 1..(n - m) : keep[k] = b[q[k]]
    <2>1. Len(keep) = n - m
      <3> HIDE DEF n, m
      <3> QED BY <1>1, <1>2
    <2> QED BY <2>1 DEF Selects
  <1>5. /\ out \in Seq(Events) /\ Len(out) = m
        /\ r \in [1..m -> 1..m]
        /\ \A i \in 1..m : \E k \in 1..m : r[k] = i
        /\ \A k \in 1..m : out[k] = old[r[k]]
        /\ \A k, l \in 1..m : (k < l /\ Mono[out[k]] = Mono[out[l]]) => r[k] < r[l]
        /\ \A k, l \in 1..m : k < l => Mono[out[k]] <= Mono[out[l]]
    <2>1. /\ out \in Seq(Events) /\ Len(out) = m
          /\ r \in [1..m -> 1..m]
          /\ \A i \in 1..m : \E k \in 1..m : r[k] = i
          /\ \A k \in 1..m : out[k] = old[r[k]]
          /\ \A k, l \in 1..m : (k < l /\ Mono[out[k]] = Mono[out[l]]) => r[k] < r[l]
      BY DEF Rearranges
    <2>2. \A k, l \in 1..m : k < l => Mono[out[k]] <= Mono[out[l]]
      <3> HIDE DEF m
      <3>1. \A k, l \in 1..m : (k < l /\ k <= m) => Mono[out[k]] <= Mono[out[l]]
        BY <2>1 DEF OldestFirst, m
      <3> QED BY <1>1, <3>1
    <2> QED BY <2>1, <2>2
  <1>6. /\ \A i \in I : i \in 1..n /\ Mono[b[i]] \in Nat /\ Mono[b[i]] <= cut
        /\ \A i \in J : i \in 1..n /\ Mono[b[i]] \in Nat /\ ~(Mono[b[i]] <= cut)
    BY <1>1 DEF Reorder!ReorderConstantsOK
  <1>7. /\ c \in Seq(Events) /\ Len(c) = n
        /\ \A k \in 1..n : c[k] = IF k <= m THEN out[k] ELSE keep[k - m]
    <2>1. /\ c \in Seq(Events) /\ Len(c) = Len(out) + Len(keep)
          /\ \A k \in 1..(Len(out) + Len(keep)) :
                c[k] = IF k <= Len(out) THEN out[k] ELSE keep[k - Len(out)]
      <3>1. out \in Seq(Events)
        BY <1>5
      <3> QED BY <3>1, ConcatProperties
    <2>2. Len(out) + Len(keep) = n /\ Len(out) = m
      BY <1>2, <1>5
    <2> HIDE DEF n, m, c
    <2> QED BY <2>1, <2>2
  <1> HIDE DEF n, m, J, c
  <1>8. \A k \in 1..n : /\ k <= m => k \in 1..m
                        /\ ~(k <= m) => k - m \in 1..(n - m)
    BY <1>1
  <1>9. \A k \in 1..m : r[k] \in 1..m /\ p[r[k]] \in I
    BY <1>3, <1>5
  <1>10. \A k \in 1..(n - m) : q[k] \in J
    BY <1>4
  <1>11. \A k \in 1..n : /\ k <= m => t[k] = p[r[k]] /\ t[k] \in I
                         /\ ~(k <= m) => t[k] = q[k - m] /\ t[k] \in J
    BY <1>8, <1>9, <1>10
  <1>12. t \in [1..n -> 1..n]
    BY <1>6, <1>11
  <1> HIDE DEF t
  <1>13. \A k \in 1..n : c[k] = b[t[k]]
    <2> TAKE k \in 1..n
    <2>1. CASE k <= m
      <3>1. c[k] = out[k] /\ out[k] = old[r[k]] /\ old[r[k]] = b[p[r[k]]]
        BY <1>3, <1>5, <1>7, <1>8, <1>9, <2>1
      <3> QED BY <1>11, <2>1, <3>1
    <2>2. CASE ~(k <= m)
      <3>1. c[k] = keep[k - m] /\ keep[k - m] = b[q[k - m]]
        BY <1>4, <1>7, <1>8, <2>2
      <3> QED BY <1>11, <2>2, <3>1
    <2> QED BY <2>1, <2>2
  <1>14. ASSUME NEW i \in 1..n PROVE \E k \in 1..n : t[k] = i
    <2>1. CASE i \in I
      <3>1. PICK j \in 1..m : p[j] = i
        BY <1>3, <2>1
      <3>2. PICK k \in 1..m : r[k] = j
        BY <1>5
      <3>3. k \in 1..n /\ k <= m
        BY <1>1, <1>2
      <3> QED BY <1>11, <3>1, <3>2, <3>3
    <2>2. CASE i \notin I
      <3>1. PICK j \in 1..(n - m) : q[j] = i
        BY <1>4, <2>2 DEF J
      <3>2. j + m \in 1..n /\ ~(j + m <= m) /\ (j + m) - m = j
        BY <1>1, <1>2
      <3> QED BY <1>11, <3>1, <3>2
    <2> QED BY <2>1, <2>2
  <1>15. ASSUME NEW k \in 1..n, NEW l \in 1..n, k < l
         PROVE  /\ Mono[c[k]] = Mono[c[l]] => t[k] < t[l]
                /\ k <= m => Mono[c[k]] <= Mono[c[l]]
    <2>1. CASE k <= m /\ l <= m
      <3>1. k \in 1..m /\ l \in 1..m /\ c[k] = out[k] /\ c[l] = out[l]
        BY <1>7, <1>8, <2>1
      <3>2. t[k] = p[r[k]] /\ t[l] = p[r[l]] /\ r[k] \in 1..m /\ r[l] \in 1..m
        BY <1>9, <1>11, <2>1, <3>1
      <3>3. Mono[out[k]] = Mono[out[l]] => r[k] < r[l]
        BY <1>5, <1>15, <3>1
      <3>4. Mono[out[k]] <= Mono[out[l]]
        BY <1>5, <1>15, <3>1
      <3> QED BY <1>3, <3>1, <3>2, <3>3, <3>4
    <2>2. CASE k <= m /\ ~(l <= m)
      <3>1. t[k] \in I /\ t[l] \in J
        BY <1>11, <2>2
      <3>2. /\ Mono[b[t[k]]] \in Nat /\ Mono[b[t[k]]] <= cut
            /\ Mono[b[t[l]]] \in Nat /\ ~(Mono[b[t[l]]] <= cut)
        BY <1>6, <3>1
      <3>3. c[k] = b[t[k]] /\ c[l] = b[t[l]]
        BY <1>13
      <3>4. Mono[b[t[k]]] < Mono[b[t[l]]]
        BY <3>2
      <3> QED BY <3>2, <3>3, <3>4
    <2>3. CASE ~(k <= m)
      <3>1. ~(l <= m) /\ k - m < l - m
        BY <1>1, <1>15, <2>3
      <3>2. k - m \in 1..(n - m) /\ l - m \in 1..(n - m)
        BY <1>8, <2>3, <3>1
      <3>3. t[k] = q[k - m] /\ t[l] = q[l - m]
        BY <1>11, <2>3, <3>1
      <3>4. q[k - m] < q[l - m]
        BY <1>4, <3>1, <3>2
      <3> QED BY <2>3, <3>3, <3>4
    <2> QED BY <2>1, <2>2, <2>3
  <1>16. Rearranges(t, b, c)
    BY <1>7, <1>12, <1>13, <1>14, <1>15 DEF Rearranges, n
  <1>17. OldestFirst(c, m)
    BY <1>7, <1>15 DEF OldestFirst
  <1> QED BY <1>5, <1>16, <1>17 DEF Flushed, c

\* To let nothing go is a flush.
LEMMA NothingFlushed ==
  ASSUME Reorder!ReorderConstantsOK, NEW b \in Seq(Events)
  PROVE  Flushed(b, <<>>, b)
  <1> DEFINE p == [k \in 1..Len(b) |-> k]
  <1>1. <<>> \o b = b
    BY ConcatEmptySeq
  <1>2. Len(b) \in Nat /\ <<>> \in Seq(Events) /\ Len(<<>>) = 0
    BY LenProperties
  <1>3. Rearranges(p, b, b)
    BY <1>2 DEF Rearranges
  <1>4. OldestFirst(b, 0)
    BY <1>2 DEF OldestFirst
  <1> QED BY <1>1, <1>2, <1>3, <1>4 DEF Flushed

\* flushByLag() splits the buffer, and what goes out is lagNs older than an event of it.
LEMMA LagFlush ==
  ASSUME Reorder!ReorderConstantsOK, NEW b \in Seq(Events), NEW out, NEW keep,
         out = Reorder!FlushByLag(b).out, keep = Reorder!FlushByLag(b).keep
  PROVE  /\ Flushed(b, out, keep)
         /\ \A k \in 1..Len(out) : \E i \in 1..Len(b) : Mono[out[k]] <= Mono[b[i]] - LagNs
  <1> DEFINE few == Len(b) <= 1 \/ Reorder!MaxMono(b) - Reorder!MinMono(b) < LagNs
             n == Len(b)
             cut == Reorder!MaxMono(b) - LagNs
             I == {i \in 1..n : Mono[b[i]] <= cut}
  <1>1. n \in Nat /\ DOMAIN b = 1..n /\ \A i \in 1..n : b[i] \in Events
    BY LenProperties, ElementOfSeq
  <1>2. CASE few
    <2>1. out = <<>> /\ keep = b
      BY <1>2 DEF Reorder!FlushByLag
    <2>2. Flushed(b, <<>>, b)
      BY NothingFlushed
    <2> QED BY <2>1, <2>2
  <1>3. CASE ~few
    <2> DEFINE old == Reorder!AppendAt(b, I)
    <2>1. n # 0
      BY <1>1, <1>3
    <2>2. PICK newest \in 1..n : Reorder!MaxMono(b) = Mono[b[newest]]
      BY <2>1, NewestHeld
    <2>3. cut \in Int /\ cut = Mono[b[newest]] - LagNs
      BY <1>1, <2>2 DEF Reorder!ReorderConstantsOK
    <2>4. {i \in DOMAIN b : Reorder!OldEnough(b, b[i])} = I
      BY <1>1 DEF Reorder!OldEnough
    <2>5. out = Reorder!StableSort(old) /\ keep = Reorder!AppendAt(b, (1..n) \ I)
      <3>1. LET ind == {i \in DOMAIN b : Reorder!OldEnough(b, b[i])}
            IN  /\ out = Reorder!StableSort(Reorder!AppendAt(b, ind))
                /\ keep = Reorder!AppendAt(b, DOMAIN b \ ind)
        BY <1>3 DEF Reorder!FlushByLag
      <3> QED BY <1>1, <2>4, <3>1
    <2> HIDE DEF cut
    <2>6. I \in SUBSET (1..n) /\ (1..n) \ I \in SUBSET (1..n)
      OBVIOUS
    <2> HIDE DEF I
    <2>7. PICK p : Selects(p, b, I, old)
      BY <2>6, Selected
    <2>8. PICK q : Selects(q, b, (1..n) \ I, keep)
      BY <2>5, <2>6, Selected
    <2>9. old \in Seq(Events) /\ keep \in Seq(Events)
      BY <2>7, <2>8 DEF Selects
    <2> HIDE DEF old
    <2>10. PICK r : Rearranges(r, old, out) /\ OldestFirst(out, Len(old))
      BY <2>5, <2>9, Sorted
    <2>11. Flushed(b, out, keep)
      <3>1. I = {i \in 1..n : Mono[b[i]] <= cut}
        BY DEF I
      <3> QED BY <2>3, <2>7, <2>8, <2>9, <2>10, <3>1, SplitRearranges
    <2>12. ASSUME NEW k \in 1..Len(out) PROVE Mono[out[k]] <= Mono[b[newest]] - LagNs
      <3>1. Len(out) = Len(old) /\ out[k] = old[r[k]] /\ r[k] \in 1..Len(old)
        BY <2>10 DEF Rearranges
      <3>2. p[r[k]] \in I /\ old[r[k]] = b[p[r[k]]]
        BY <2>7, <3>1 DEF Selects
      <3>3. Mono[b[p[r[k]]]] <= cut
        BY <3>2 DEF I
      <3> QED BY <2>3, <3>1, <3>2, <3>3
    <2> QED BY <2>11, <2>12
  <1> QED BY <1>2, <1>3

\* x stands before y in the arrivals arr.
Before(arr, x, y) == \E i, j \in 1..Len(arr) : i < j /\ arr[i] = x /\ arr[j] = y

\* w holds the arrivals arr, all of them and nothing else.
Holds(w, arr) ==
    /\ Len(w) = Len(arr)
    /\ \A k \in 1..Len(w) : \E i \in 1..Len(arr) : arr[i] = w[k]
    /\ \A i \in 1..Len(arr) : \E k \in 1..Len(w) : arr[i] = w[k]

\* Events of w with equal timestamps stand in the order of their arrival.
Stable(w, arr) ==
    \A k, l \in 1..Len(w) : (k < l /\ Mono[w[k]] = Mono[w[l]]) => Before(arr, w[k], w[l])

\* Every event of d is lagNs older than one that has arrived.
Ripe(d, arr) == \A k \in 1..Len(d) : \E i \in 1..Len(arr) : Mono[d[k]] <= Mono[arr[i]] - LagNs

\* What is put before a rearranged sequence stays where it is.
LEMMA RearrangedTail ==
  ASSUME NEW d \in Seq(Events), NEW b \in Seq(Events), NEW c, NEW p, Rearranges(p, b, c)
  PROVE  \E u : /\ Rearranges(u, d \o b, d \o c)
                /\ \A k \in 1..Len(d) : u[k] = k
                /\ \A k \in 1..(Len(d) + Len(b)) : k > Len(d) => u[k] > Len(d)
  <1> DEFINE D == Len(d)
             B == Len(b)
             w == d \o b
             x == d \o c
             u == [k \in 1..(D + B) |-> IF k <= D THEN k ELSE D + p[k - D]]
  <1>1. D \in Nat /\ B \in Nat
    BY LenProperties
  <1>2. /\ c \in Seq(Events) /\ Len(c) = B
        /\ p \in [1..B -> 1..B]
        /\ \A i \in 1..B : \E k \in 1..B : p[k] = i
        /\ \A k \in 1..B : c[k] = b[p[k]]
        /\ \A k, l \in 1..B : (k < l /\ Mono[c[k]] = Mono[c[l]]) => p[k] < p[l]
    BY DEF Rearranges
  <1>3. /\ w \in Seq(Events) /\ Len(w) = D + B
        /\ \A k \in 1..(D + B) : w[k] = IF k <= D THEN d[k] ELSE b[k - D]
    BY ConcatProperties
  <1>4. /\ x \in Seq(Events) /\ Len(x) = D + B
        /\ \A k \in 1..(D + B) : x[k] = IF k <= D THEN d[k] ELSE c[k - D]
    <2>1. /\ x \in Seq(Events) /\ Len(x) = D + Len(c)
          /\ \A k \in 1..(D + Len(c)) : x[k] = IF k <= D THEN d[k] ELSE c[k - D]
      <3>1. c \in Seq(Events)
        BY <1>2
      <3> QED BY <3>1, ConcatProperties
    <2> HIDE DEF D, B, x
    <2> QED BY <1>2, <2>1
  <1> HIDE DEF D, B, w, x
  <1>5. \A k \in 1..(D + B) : ~(k <= D) => (k - D \in 1..B /\ p[k - D] \in 1..B)
    <2>1. \A k \in 1..(D + B) : ~(k <= D) => k - D \in 1..B
      BY <1>1
    <2> QED BY <1>2, <2>1
  <1>6. \A k \in 1..(D + B) : /\ k <= D => u[k] = k
                              /\ ~(k <= D) => u[k] = D + p[k - D]
    OBVIOUS
  <1>7. \A k \in 1..(D + B) : ~(k <= D) => u[k] \in 1..(D + B) /\ u[k] > D
    BY <1>1, <1>5, <1>6
  <1>8. u \in [1..(D + B) -> 1..(D + B)]
    BY <1>1, <1>6, <1>7
  <1> HIDE DEF u
  <1>9. ASSUME NEW k \in 1..(D + B) PROVE x[k] = w[u[k]]
    <2>1. CASE k <= D
      BY <1>3, <1>4, <1>6, <2>1
    <2>2. CASE ~(k <= D)
      <3>1. u[k] \in 1..(D + B) /\ ~(u[k] <= D) /\ u[k] - D = p[k - D]
        BY <1>1, <1>5, <1>6, <1>7, <2>2
      <3>2. w[u[k]] = b[p[k - D]]
        BY <1>3, <3>1
      <3>3. x[k] = c[k - D] /\ c[k - D] = b[p[k - D]]
        BY <1>2, <1>4, <1>5, <2>2
      <3> QED BY <3>2, <3>3
    <2> QED BY <2>1, <2>2
  <1>10. ASSUME NEW i \in 1..(D + B) PROVE \E k \in 1..(D + B) : u[k] = i
    <2>1. CASE i <= D
      BY <1>6, <2>1
    <2>2. CASE ~(i <= D)
      <3>1. i - D \in 1..B
        BY <1>1, <2>2
      <3>2. PICK k \in 1..B : p[k] = i - D
        BY <1>2, <3>1
      <3>3. k + D \in 1..(D + B) /\ ~(k + D <= D) /\ (k + D) - D = k /\ D + (i - D) = i
        BY <1>1
      <3> QED BY <1>6, <3>2, <3>3
    <2> QED BY <2>1, <2>2
  <1>11. ASSUME NEW k \in 1..(D + B), NEW l \in 1..(D + B), k < l, Mono[x[k]] = Mono[x[l]]
         PROVE  u[k] < u[l]
    <2>1. CASE l <= D
      BY <1>1, <1>6, <1>11, <2>1
    <2>2. CASE k <= D /\ ~(l <= D)
      BY <1>1, <1>6, <1>7, <2>2
    <2>3. CASE ~(k <= D)
      <3>1. ~(l <= D) /\ k - D < l - D
        BY <1>1, <1>11, <2>3
      <3>2. x[k] = c[k - D] /\ x[l] = c[l - D]
        BY <1>4, <2>3, <3>1
      <3>3. k - D \in 1..B /\ l - D \in 1..B /\ p[k - D] \in Int /\ p[l - D] \in Int
        BY <1>5, <2>3, <3>1
      <3>4. p[k - D] < p[l - D]
        BY <1>2, <1>11, <3>1, <3>2, <3>3
      <3>5. u[k] = D + p[k - D] /\ u[l] = D + p[l - D]
        BY <1>6, <2>3, <3>1
      <3> QED BY <1>1, <3>3, <3>4, <3>5
    <2> QED BY <2>1, <2>2, <2>3
  <1>12. Rearranges(u, w, x)
    BY <1>3, <1>4, <1>8, <1>9, <1>10, <1>11 DEF Rearranges
  <1>13. \A k \in 1..D : u[k] = k
    BY <1>1, <1>6
  <1>14. \A k \in 1..(D + B) : k > D => u[k] > D
    BY <1>1, <1>7
  <1> QED BY <1>12, <1>13, <1>14 DEF D, B, w, x

\* The events dispatched, those that go out and those that are kept are one sequence.
LEMMA FlushConcat ==
  ASSUME NEW d \in Seq(Events), NEW out \in Seq(Events), NEW keep \in Seq(Events)
  PROVE  (d \o out) \o keep = d \o (out \o keep)
  BY ConcatAssociative

\* A flush keeps what is held, its stability and, if the older events went first,
\* that as well.
LEMMA FlushKeeps ==
  ASSUME Reorder!ReorderConstantsOK,
         NEW arr \in Seq(Events), NEW d \in Seq(Events), NEW b \in Seq(Events),
         NEW out, NEW keep, Flushed(b, out, keep),
         Holds(d \o b, arr), Stable(d \o b, arr)
  PROVE  /\ Holds((d \o out) \o keep, arr) /\ Stable((d \o out) \o keep, arr)
         /\ OldestFirst(d \o b, Len(d)) => OldestFirst((d \o out) \o keep, Len(d \o out))
         /\ Len(d \o out) = Len(d) + Len(out)
         /\ Len(out) + Len(keep) = Len(b)
  <1> DEFINE D == Len(d)
             N == Len(d) + Len(b)
             w == d \o b
             c == out \o keep
             x == d \o c
  <1>1. PICK p : Rearranges(p, b, c)
    BY DEF Flushed
  <1>2. /\ out \in Seq(Events) /\ keep \in Seq(Events) /\ OldestFirst(c, Len(out))
        /\ c \in Seq(Events) /\ Len(c) = Len(b)
    BY <1>1 DEF Flushed, Rearranges
  <1>3. /\ (d \o out) \o keep = x
        /\ Len(d \o out) = Len(d) + Len(out)
        /\ Len(c) = Len(out) + Len(keep)
    <2>1. (d \o out) \o keep = x
      <3>1. out \in Seq(Events) /\ keep \in Seq(Events)
        BY <1>2
      <3>2. (d \o out) \o keep = d \o (out \o keep)
        <4> HIDE DEF w, c, x, N, D
        <4> QED BY <3>1, FlushConcat
      <3> QED BY <3>2
    <2> QED BY <1>2, <2>1, ConcatProperties
  <1>4. D \in Nat /\ Len(b) \in Nat /\ Len(out) \in Nat /\ N \in Nat
    BY <1>2, LenProperties
  <1>5. Len(w) = N /\ w \in Seq(Events)
    BY ConcatProperties
  <1>6. /\ Len(x) = N
        /\ \A k \in 1..N : x[k] = IF k <= D THEN d[k] ELSE c[k - D]
    <2>1. /\ Len(x) = D + Len(c)
          /\ \A k \in 1..(D + Len(c)) : x[k] = IF k <= D THEN d[k] ELSE c[k - D]
      BY <1>2, ConcatProperties
    <2> QED BY <1>2, <2>1
  <1>7. PICK u : /\ Rearranges(u, w, x)
                 /\ \A k \in 1..D : u[k] = k
                 /\ \A k \in 1..N : k > D => u[k] > D
    BY <1>1, RearrangedTail
  <1> HIDE DEF c, x, w, D, N
  <1>8. /\ u \in [1..N -> 1..N]
        /\ \A i \in 1..N : \E k \in 1..N : u[k] = i
        /\ \A k \in 1..N : x[k] = w[u[k]]
        /\ \A k, l \in 1..N : (k < l /\ Mono[x[k]] = Mono[x[l]]) => u[k] < u[l]
    BY <1>5, <1>7 DEF Rearranges
  <1>9. Holds(w, arr) /\ Stable(w, arr)
    BY DEF w
  <1>10. Holds(x, arr)
    <2>1. ASSUME NEW k \in 1..N PROVE \E i \in 1..Len(arr) : arr[i] = x[k]
      <3>1. u[k] \in 1..N /\ x[k] = w[u[k]]
        BY <1>8
      <3>2. \E i \in 1..Len(arr) : arr[i] = w[u[k]]
        <4>1. \A j \in 1..N : \E i \in 1..Len(arr) : arr[i] = w[j]
          BY <1>5, <1>9 DEF Holds
        <4> QED BY <3>1, <4>1
      <3> QED BY <3>1, <3>2
    <2>2. ASSUME NEW i \in 1..Len(arr) PROVE \E k \in 1..N : arr[i] = x[k]
      <3>1. PICK j \in 1..N : arr[i] = w[j]
        BY <1>5, <1>9 DEF Holds
      <3>2. PICK k \in 1..N : u[k] = j
        BY <1>8
      <3> QED BY <1>8, <3>1, <3>2
    <2>3. N = Len(arr)
      BY <1>5, <1>9 DEF Holds
    <2> QED BY <1>6, <2>1, <2>2, <2>3 DEF Holds
  <1>11. Stable(x, arr)
    <2> SUFFICES ASSUME NEW k \in 1..N, NEW l \in 1..N, k < l, Mono[x[k]] = Mono[x[l]]
                 PROVE  Before(arr, x[k], x[l])
      BY <1>6 DEF Stable
    <2>1. u[k] < u[l] /\ u[k] \in 1..N /\ u[l] \in 1..N /\ x[k] = w[u[k]] /\ x[l] = w[u[l]]
      BY <1>8
    <2> QED BY <1>5, <1>9, <2>1 DEF Stable
  <1>12. ASSUME OldestFirst(w, D), NEW k \in 1..N, NEW l \in 1..N, k < l, k <= D + Len(out)
         PROVE  Mono[x[k]] <= Mono[x[l]]
    <2>1. CASE k <= D
      <3>1. u[k] = k /\ u[l] \in 1..N
        BY <1>4, <1>7, <1>8, <2>1
      <3>2. k < u[l]
        <4>1. CASE l <= D
          BY <1>4, <1>7, <1>12, <4>1
        <4>2. CASE l > D
          BY <1>4, <1>7, <2>1, <3>1, <4>2
        <4> QED BY <1>4, <4>1, <4>2
      <3>3. Mono[w[k]] <= Mono[w[u[l]]]
        BY <1>5, <1>12, <2>1, <3>1, <3>2 DEF OldestFirst
      <3> QED BY <1>8, <3>1, <3>3
    <2>2. CASE ~(k <= D)
      <3>1. ~(l <= D) /\ k - D < l - D /\ k - D <= Len(out)
        BY <1>4, <1>12, <2>2
      <3>2. k - D \in 1..Len(b) /\ l - D \in 1..Len(b)
        BY <1>4, <2>2, <3>1 DEF N, D
      <3>3. x[k] = c[k - D] /\ x[l] = c[l - D]
        BY <1>6, <2>2, <3>1
      <3> QED BY <1>2, <3>1, <3>2, <3>3 DEF OldestFirst
    <2> QED BY <2>1, <2>2
  <1>13. OldestFirst(w, D) => OldestFirst(x, D + Len(out))
    <2> SUFFICES ASSUME OldestFirst(w, D) PROVE OldestFirst(x, D + Len(out))
      OBVIOUS
    <2> QED BY <1>6, <1>12 DEF OldestFirst
  <1>14. Len(out) + Len(keep) = Len(b)
    BY <1>2, <1>3
  <1> QED BY <1>3, <1>10, <1>11, <1>13, <1>14 DEF w, D

\* The disorder of arr is within the lag.
Within(arr) == \A i, j \in 1..Len(arr) : i < j => Mono[arr[j]] >= Mono[arr[i]] - LagNs

\* A sequence, and the one with e behind it.
LEMMA Longer ==
  ASSUME NEW arr \in Seq(Events), NEW e \in Events
  PROVE  /\ Len(arr) \in Nat /\ Append(arr, e) \in Seq(Events)
         /\ Len(Append(arr, e)) = Len(arr) + 1
         /\ \A i \in 1..Len(arr) : i \in 1..(Len(arr) + 1) /\ Append(arr, e)[i] = arr[i]
         /\ Len(arr) + 1 \in 1..(Len(arr) + 1) /\ Append(arr, e)[Len(arr) + 1] = e
         /\ \A i \in 1..(Len(arr) + 1) : i \in 1..Len(arr) \/ i = Len(arr) + 1
  <1>1. Len(arr) \in Nat
    BY LenProperties
  <1>2. /\ Append(arr, e) \in Seq(Events) /\ Len(Append(arr, e)) = Len(arr) + 1
        /\ \A i \in 1..Len(arr) : Append(arr, e)[i] = arr[i]
        /\ Append(arr, e)[Len(arr) + 1] = e
    BY AppendProperties
  <1> DEFINE n == Len(arr)
             a == Append(arr, e)
  <1> HIDE DEF n, a
  <1>3. /\ n + 1 \in 1..(n + 1)
        /\ \A i \in 1..n : i \in 1..(n + 1)
        /\ \A i \in 1..(n + 1) : i \in 1..n \/ i = n + 1
    BY <1>1 DEF n
  <1> QED BY <1>1, <1>2, <1>3 DEF n

\* An event arrives: it is held, behind all others, and if it is not later than the
\* lag allows it is not older than what was dispatched.
LEMMA ArrivalKeeps ==
  ASSUME Reorder!ReorderConstantsOK,
         NEW arr \in Seq(Events), NEW d \in Seq(Events), NEW b \in Seq(Events),
         NEW e \in Events, Holds(d \o b, arr), Stable(d \o b, arr)
  PROVE  /\ Holds(d \o Append(b, e), Append(arr, e))
         /\ Stable(d \o Append(b, e), Append(arr, e))
         /\ Within(Append(arr, e)) => Within(arr)
         /\ Ripe(d, arr) => Ripe(d, Append(arr, e))
         /\ (Within(Append(arr, e)) /\ OldestFirst(d \o b, Len(d)) /\ Ripe(d, arr)) =>
                OldestFirst(d \o Append(b, e), Len(d))
  <1> DEFINE w == d \o b
             x == d \o Append(b, e)
             z == Append(arr, e)
             N == Len(arr)
             D == Len(d)
  <1>1. w \in Seq(Events) /\ Len(w) = D + Len(b) /\ D \in Nat /\ Len(b) \in Nat
    BY ConcatProperties, LenProperties
  <1>2. x = Append(w, e)
    <2>1. /\ <<e>> \in Seq(Events) /\ Append(b, e) = b \o <<e>>
          /\ Append(w, e) = w \o <<e>>
      BY <1>1, AppendIsConcat
    <2>2. (d \o b) \o <<e>> = d \o (b \o <<e>>)
      BY <2>1, FlushConcat
    <2> QED BY <2>1, <2>2
  <1>3. Holds(w, arr) /\ Stable(w, arr)
    OBVIOUS
  <1>4. \A k \in 1..D : d[k] = w[k] /\ d[k] \in Events
    BY ConcatProperties, LenProperties, ElementOfSeq
  <1> HIDE DEF w
  <1>5. /\ Len(w) = N
        /\ \A k \in 1..N : \E i \in 1..N : arr[i] = w[k]
        /\ \A i \in 1..N : \E k \in 1..N : arr[i] = w[k]
    BY <1>3 DEF Holds
  <1>6. /\ N \in Nat /\ Len(x) = N + 1
        /\ \A i \in 1..N : i \in 1..(N + 1) /\ x[i] = w[i]
        /\ x[N + 1] = e
    BY <1>1, <1>2, <1>5, Longer
  <1>7. /\ Len(z) = N + 1
        /\ \A i \in 1..N : z[i] = arr[i]
        /\ z[N + 1] = e
        /\ \A i \in 1..(N + 1) : i \in 1..N \/ i = N + 1
        /\ N + 1 \in 1..(N + 1)
    BY Longer
  <1>8. \A i \in 1..N : arr[i] \in Events /\ Mono[arr[i]] \in Nat
    BY ElementOfSeq DEF Reorder!ReorderConstantsOK
  <1>9. Mono[e] \in Nat /\ LagNs \in Nat
    BY DEF Reorder!ReorderConstantsOK
  <1> HIDE DEF x, z, N, D
  <1>10. Holds(x, z)
    <2>1. ASSUME NEW k \in 1..(N + 1) PROVE \E i \in 1..(N + 1) : z[i] = x[k]
      <3>1. CASE k \in 1..N
        <4>1. PICK i \in 1..N : arr[i] = w[k]
          BY <1>5, <3>1
        <4> QED BY <1>6, <1>7, <3>1, <4>1
      <3>2. CASE k = N + 1
        BY <1>6, <1>7, <3>2
      <3> QED BY <1>7, <3>1, <3>2
    <2>2. ASSUME NEW i \in 1..(N + 1) PROVE \E k \in 1..(N + 1) : z[i] = x[k]
      <3>1. CASE i \in 1..N
        <4>1. PICK k \in 1..N : arr[i] = w[k]
          BY <1>5, <3>1
        <4> QED BY <1>6, <1>7, <3>1, <4>1
      <3>2. CASE i = N + 1
        BY <1>6, <1>7, <3>2
      <3> QED BY <1>7, <3>1, <3>2
    <2> QED BY <1>6, <1>7, <2>1, <2>2 DEF Holds
  <1>11. Stable(x, z)
    <2> SUFFICES ASSUME NEW k \in 1..(N + 1), NEW l \in 1..(N + 1), k < l,
                        Mono[x[k]] = Mono[x[l]]
                 PROVE  \E i, j \in 1..(N + 1) : i < j /\ z[i] = x[k] /\ z[j] = x[l]
      BY <1>6, <1>7 DEF Stable, Before
    <2>1. k \in 1..N
      BY <1>6
    <2>2. CASE l \in 1..N
      <3>1. x[k] = w[k] /\ x[l] = w[l]
        BY <1>6, <2>1, <2>2
      <3>2. Before(arr, w[k], w[l])
        BY <1>3, <1>5, <2>1, <2>2, <3>1 DEF Stable
      <3>3. PICK i \in 1..N, j \in 1..N : i < j /\ arr[i] = w[k] /\ arr[j] = w[l]
        BY <3>2 DEF Before, N
      <3>4. /\ i \in 1..(N + 1) /\ j \in 1..(N + 1) /\ i < j
            /\ z[i] = x[k] /\ z[j] = x[l]
        BY <1>6, <1>7, <3>1, <3>3
      <3> QED BY <3>4
    <2>3. CASE l = N + 1
      <3>1. PICK i \in 1..N : arr[i] = w[k]
        BY <1>5, <2>1
      <3>2. /\ i \in 1..(N + 1) /\ N + 1 \in 1..(N + 1) /\ i < N + 1
            /\ z[i] = x[k] /\ z[N + 1] = x[l]
        BY <1>6, <1>7, <2>1, <2>3, <3>1
      <3> QED BY <3>2
    <2> QED BY <1>7, <2>2, <2>3
  <1>12. Within(z) => Within(arr)
    <2> SUFFICES ASSUME Within(z), NEW i \in 1..N, NEW j \in 1..N, i < j
                 PROVE  Mono[arr[j]] >= Mono[arr[i]] - LagNs
      BY DEF Within, N
    <2>1. i \in 1..(N + 1) /\ j \in 1..(N + 1) /\ z[i] = arr[i] /\ z[j] = arr[j]
      BY <1>6, <1>7
    <2> QED BY <1>7, <2>1 DEF Within
  <1>13. Ripe(d, arr) => Ripe(d, z)
    <2> SUFFICES ASSUME Ripe(d, arr), NEW k \in 1..D
                 PROVE  \E i \in 1..(N + 1) : Mono[d[k]] <= Mono[z[i]] - LagNs
      BY <1>7 DEF Ripe, D
    <2>1. PICK i \in 1..N : Mono[d[k]] <= Mono[arr[i]] - LagNs
      BY DEF Ripe, D, N
    <2>2. i \in 1..(N + 1) /\ z[i] = arr[i]
      BY <1>6, <1>7
    <2> QED BY <2>1, <2>2
  <1>14. ASSUME Within(z), OldestFirst(w, D), Ripe(d, arr),
                NEW k \in 1..(N + 1), NEW l \in 1..(N + 1), k < l, k <= D
         PROVE  Mono[x[k]] <= Mono[x[l]]
    <2>1. k \in 1..N /\ k \in 1..D
      BY <1>1, <1>6, <1>14
    <2>2. CASE l \in 1..N
      <3>1. x[k] = w[k] /\ x[l] = w[l]
        BY <1>6, <2>1, <2>2
      <3> QED BY <1>5, <1>14, <2>1, <2>2, <3>1 DEF OldestFirst
    <2>3. CASE l = N + 1
      <3>1. PICK i \in 1..N : Mono[d[k]] <= Mono[arr[i]] - LagNs
        BY <1>14, <2>1 DEF Ripe, D, N
      <3>2. /\ i \in 1..(N + 1) /\ N + 1 \in 1..(N + 1) /\ i < N + 1
            /\ z[i] = arr[i] /\ z[N + 1] = e
        BY <1>6, <1>7
      <3>3. Mono[e] >= Mono[arr[i]] - LagNs
        BY <1>7, <1>14, <3>2 DEF Within
      <3>4. x[k] = d[k] /\ d[k] \in Events /\ x[l] = e
        BY <1>4, <1>6, <2>1, <2>3
      <3>5. Mono[d[k]] \in Nat /\ Mono[arr[i]] \in Nat
        <4>1. Mono[d[k]] \in Nat
          BY <3>4 DEF Reorder!ReorderConstantsOK
        <4> QED BY <1>8, <4>1
      <3>6. Mono[d[k]] <= Mono[e]
        <4> DEFINE old == Mono[d[k]]
                   last == Mono[arr[i]]
                   now == Mono[e]
        <4>1. /\ old \in Nat /\ last \in Nat /\ now \in Nat /\ LagNs \in Nat
              /\ old <= last - LagNs /\ now >= last - LagNs
          BY <1>9, <3>1, <3>3, <3>5
        <4> HIDE DEF old, last, now
        <4>2. old <= now
          BY <4>1
        <4> QED BY <4>2 DEF old, now
      <3> QED BY <3>4, <3>6
    <2> QED BY <1>7, <2>2, <2>3
  <1>15. (Within(z) /\ OldestFirst(w, D) /\ Ripe(d, arr)) => OldestFirst(x, D)
    <2> SUFFICES ASSUME Within(z), OldestFirst(w, D), Ripe(d, arr) PROVE OldestFirst(x, D)
      OBVIOUS
    <2> QED BY <1>6, <1>14 DEF OldestFirst
  <1> QED BY <1>10, <1>11, <1>12, <1>13, <1>15 DEF x, z, w, D

\* What a flush adds is lagNs older than an arrival, if it is lagNs older than an
\* event that was held.
LEMMA RipeFlush ==
  ASSUME NEW arr \in Seq(Events), NEW d \in Seq(Events), NEW b \in Seq(Events),
         NEW out \in Seq(Events), Holds(d \o b, arr), Ripe(d, arr),
         \A k \in 1..Len(out) : \E i \in 1..Len(b) : Mono[out[k]] <= Mono[b[i]] - LagNs
  PROVE  Ripe(d \o out, arr)
  <1> DEFINE D == Len(d)
             O == Len(out)
             B == Len(b)
             w == d \o b
             x == d \o out
  <1>1. D \in Nat /\ O \in Nat /\ B \in Nat
    BY LenProperties
  <1>2. Len(x) = D + O /\ \A k \in 1..(D + O) : x[k] = IF k <= D THEN d[k] ELSE out[k - D]
    BY ConcatProperties
  <1>3. Len(w) = D + B /\ \A k \in 1..(D + B) : w[k] = IF k <= D THEN d[k] ELSE b[k - D]
    BY ConcatProperties
  <1>4. Holds(w, arr)
    OBVIOUS
  <1> HIDE DEF x, w, O, D
  <1> SUFFICES ASSUME NEW k \in 1..(D + O)
               PROVE  \E i \in 1..Len(arr) : Mono[x[k]] <= Mono[arr[i]] - LagNs
    BY <1>2 DEF Ripe, x
  <1>5. CASE k <= D
    <2>1. k \in 1..D /\ x[k] = d[k]
      BY <1>1, <1>2, <1>5
    <2> QED BY <2>1 DEF Ripe, D
  <1>6. CASE ~(k <= D)
    <2>1. k - D \in 1..O /\ x[k] = out[k - D]
      BY <1>1, <1>2, <1>6
    <2>2. PICK i \in 1..B : Mono[out[k - D]] <= Mono[b[i]] - LagNs
      BY <2>1 DEF O
    <2> HIDE DEF B
    <2>3. D + i \in 1..(D + B) /\ ~(D + i <= D) /\ (D + i) - D = i
      BY <1>1
    <2>4. w[D + i] = b[i]
      BY <1>3, <2>3
    <2>5. PICK j \in 1..Len(arr) : arr[j] = w[D + i]
      BY <1>3, <1>4, <2>3 DEF Holds
    <2> QED BY <2>1, <2>2, <2>4, <2>5
  <1> QED BY <1>5, <1>6

\* The inductive invariant of PerfReorder: what was dispatched and what is held are
\* the arrivals, equal timestamps in the order of arrival; and while the disorder is
\* within the lag and the buffer has not overflowed, what was dispatched is in order,
\* not newer than what is held and, until the loop ends, lagNs older than an arrival.
ReorderInv ==
    /\ Reorder!TypeOK
    /\ Holds(dispatched \o buf, arrived)
    /\ Stable(dispatched \o buf, arrived)
    /\ (Within(arrived) /\ ~pressed) =>
           /\ OldestFirst(dispatched \o buf, Len(dispatched))
           /\ running => Ripe(dispatched, arrived)

\* Nothing has arrived.
LEMMA ReorderInit == ASSUME Reorder!ReorderConstantsOK, Reorder!Init PROVE ReorderInv
  <1>1. /\ buf = <<>> /\ dispatched = <<>> /\ arrived = <<>>
        /\ pressed = FALSE /\ running = TRUE
    BY DEF Reorder!Init
  <1>2. <<>> \in Seq(Events) /\ Len(<<>>) = 0 /\ <<>> \o <<>> = <<>>
    BY ConcatEmptySeq
  <1>3. 0 < MaxPending
    BY DEF Reorder!ReorderConstantsOK
  <1>4. Reorder!TypeOK
    BY <1>1, <1>2, <1>3 DEF Reorder!TypeOK
  <1>5. /\ Holds(<<>>, <<>>) /\ Stable(<<>>, <<>>)
        /\ OldestFirst(<<>>, 0) /\ Ripe(<<>>, <<>>)
    BY <1>2 DEF Holds, Stable, OldestFirst, Ripe
  <1> QED BY <1>1, <1>2, <1>4, <1>5 DEF ReorderInv

\* push(): the event arrives, and the flush that the length of the buffer calls for.
LEMMA ReorderPush ==
  ASSUME Reorder!ReorderConstantsOK, ReorderInv, NEW e \in Events, Reorder!Push(e)
  PROVE  ReorderInv'
  <1> DEFINE b == Append(buf, e)
             arr == Append(arrived, e)
             w == dispatched \o b
             flush == IF Reorder!Full(b) THEN Reorder!FlushPressure(b) ELSE Reorder!FlushByLag(b)
  <1>1. PICK out, keep : out = flush.out /\ keep = flush.keep
    OBVIOUS
  <1>2. /\ arrived' = arr /\ buf' = keep /\ dispatched' = dispatched \o out
        /\ running' = running
    BY <1>1 DEF Reorder!Push
  <1>3. pressed' = (pressed \/ Reorder!Full(b))
    BY DEF Reorder!Push
  <1>4. /\ buf \in Seq(Events) /\ dispatched \in Seq(Events) /\ arrived \in Seq(Events)
        /\ Len(buf) \in Nat /\ Len(buf) < MaxPending /\ MaxPending \in Nat
    <2>1. /\ buf \in Seq(Events) /\ dispatched \in Seq(Events) /\ arrived \in Seq(Events)
          /\ Len(buf) < MaxPending
      BY DEF ReorderInv, Reorder!TypeOK
    <2> QED BY <2>1, LenProperties DEF Reorder!ReorderConstantsOK
  <1>5. pressed \in BOOLEAN /\ running \in BOOLEAN
    BY DEF ReorderInv, Reorder!TypeOK
  <1>6. b \in Seq(Events) /\ arr \in Seq(Events) /\ Len(b) = Len(buf) + 1
    BY <1>4, AppendProperties
  <1>7. /\ Holds(w, arr) /\ Stable(w, arr)
        /\ Within(arr) => Within(arrived)
        /\ Ripe(dispatched, arrived) => Ripe(dispatched, arr)
        /\ (Within(arr) /\ OldestFirst(dispatched \o buf, Len(dispatched))
              /\ Ripe(dispatched, arrived)) => OldestFirst(w, Len(dispatched))
    BY <1>4, ArrivalKeeps DEF ReorderInv
  <1> HIDE DEF b, arr, flush
  <1>8. Flushed(b, out, keep) /\ (Reorder!Full(b) => Len(keep) < Len(b))
    <2>1. Len(b) # 0
      BY <1>4, <1>6
    <2>2. CASE Reorder!Full(b)
      BY <1>1, <1>6, <2>1, <2>2, PressureFlush DEF flush
    <2>3. CASE ~Reorder!Full(b)
      BY <1>1, <1>6, <2>3, LagFlush DEF flush
    <2> QED BY <2>2, <2>3
  <1>9. /\ out \in Seq(Events) /\ keep \in Seq(Events)
        /\ dispatched \o out \in Seq(Events)
        /\ Len(out) \in Nat /\ Len(keep) \in Nat
    <2>1. out \in Seq(Events) /\ keep \in Seq(Events)
      BY <1>8 DEF Flushed
    <2> QED BY <1>4, <2>1, ConcatProperties, LenProperties
  <1>10. /\ Holds((dispatched \o out) \o keep, arr) /\ Stable((dispatched \o out) \o keep, arr)
         /\ OldestFirst(w, Len(dispatched)) =>
                OldestFirst((dispatched \o out) \o keep, Len(dispatched \o out))
         /\ Len(out) + Len(keep) = Len(b)
    <2>1. Holds(dispatched \o b, arr) /\ Stable(dispatched \o b, arr)
      BY <1>7
    <2>2. Flushed(b, out, keep)
      BY <1>8
    <2>3. dispatched \in Seq(Events) /\ b \in Seq(Events) /\ arr \in Seq(Events)
      BY <1>4, <1>6
    <2> QED BY <2>1, <2>2, <2>3, FlushKeeps
  <1>11. Len(keep) < MaxPending
    <2>1. CASE Reorder!Full(b)
      BY <1>4, <1>6, <1>8, <1>9, <2>1
    <2>2. CASE ~Reorder!Full(b)
      <3>1. ~(Len(b) >= MaxPending)
        BY <2>2 DEF Reorder!Full
      <3> QED BY <1>4, <1>6, <1>9, <1>10, <3>1
    <2> QED BY <2>1, <2>2
  <1>12. Reorder!TypeOK'
    <2>1. pressed' \in BOOLEAN /\ running' \in BOOLEAN
      BY <1>2, <1>3, <1>5
    <2> QED BY <1>2, <1>6, <1>9, <1>11, <2>1 DEF Reorder!TypeOK
  <1>13. ASSUME Within(arr), ~pressed'
         PROVE  /\ OldestFirst((dispatched \o out) \o keep, Len(dispatched \o out))
                /\ running => Ripe(dispatched \o out, arr)
    <2>1. ~pressed /\ ~Reorder!Full(b)
      BY <1>3, <1>13
    <2>2. running
      BY DEF Reorder!Push
    <2>3. OldestFirst(dispatched \o buf, Len(dispatched)) /\ Ripe(dispatched, arrived)
      BY <1>7, <1>13, <2>1, <2>2 DEF ReorderInv
    <2>4. OldestFirst((dispatched \o out) \o keep, Len(dispatched \o out))
      BY <1>7, <1>10, <1>13, <2>3
    <2>5. \A k \in 1..Len(out) : \E i \in 1..Len(b) : Mono[out[k]] <= Mono[b[i]] - LagNs
      BY <1>1, <1>6, <2>1, LagFlush DEF flush
    <2>6. Ripe(dispatched \o out, arr)
      BY <1>4, <1>6, <1>7, <1>9, <2>3, <2>5, RipeFlush
    <2> QED BY <2>4, <2>6
  <1> QED BY <1>2, <1>10, <1>12, <1>13 DEF ReorderInv

\* flushAll(): the sorted buffer goes out.
LEMMA ReorderFlushAll ==
  ASSUME Reorder!ReorderConstantsOK, ReorderInv, Reorder!FlushAll
  PROVE  ReorderInv'
  <1> DEFINE out == Reorder!StableSort(buf)
  <1>1. /\ arrived' = arrived /\ buf' = <<>> /\ dispatched' = dispatched \o out
        /\ running' = FALSE /\ pressed' = pressed
    BY DEF Reorder!FlushAll
  <1>2. /\ buf \in Seq(Events) /\ dispatched \in Seq(Events) /\ arrived \in Seq(Events)
        /\ pressed \in BOOLEAN
    BY DEF ReorderInv, Reorder!TypeOK
  <1>3. PICK p : Rearranges(p, buf, out) /\ OldestFirst(out, Len(buf))
    BY <1>2, Sorted
  <1>4. out \in Seq(Events) /\ Len(out) = Len(buf)
    BY <1>3 DEF Rearranges
  <1> HIDE DEF out
  <1>5. /\ <<>> \in Seq(Events) /\ Len(<<>>) = 0 /\ 0 < MaxPending
        /\ out \o <<>> = out /\ dispatched \o out \in Seq(Events)
    BY <1>2, <1>4, ConcatEmptySeq, ConcatProperties DEF Reorder!ReorderConstantsOK
  <1>6. Flushed(buf, out, <<>>)
    BY <1>3, <1>4, <1>5 DEF Flushed
  <1>7. Holds(dispatched \o buf, arrived) /\ Stable(dispatched \o buf, arrived)
    BY DEF ReorderInv
  <1> DEFINE x == (dispatched \o out) \o <<>>
  <1>8. /\ Holds(x, arrived) /\ Stable(x, arrived)
        /\ OldestFirst(dispatched \o buf, Len(dispatched)) =>
               OldestFirst(x, Len(dispatched \o out))
    BY <1>2, <1>6, <1>7, FlushKeeps
  <1>9. Reorder!TypeOK'
    BY <1>1, <1>2, <1>5 DEF Reorder!TypeOK
  <1>10. (Within(arrived) /\ ~pressed) => OldestFirst(x, Len(dispatched \o out))
    BY <1>8 DEF ReorderInv
  <1> QED BY <1>1, <1>8, <1>9, <1>10 DEF ReorderInv

\* Every step of PerfReorder keeps the invariant.
LEMMA ReorderNext ==
  ASSUME Reorder!ReorderConstantsOK, ReorderInv, [Reorder!Next]_reorderVars
  PROVE  ReorderInv'
  <1>1. CASE Reorder!FlushAll
    BY <1>1, ReorderFlushAll
  <1>2. ASSUME NEW e \in Events, Reorder!Push(e) PROVE ReorderInv'
    BY <1>2, ReorderPush
  <1>3. CASE UNCHANGED reorderVars
    BY <1>3 DEF ReorderInv, reorderVars, Reorder!TypeOK
  <1> QED BY <1>1, <1>2, <1>3 DEF Reorder!Next

\* The invariant holds in every reachable state.
LEMMA ReorderInvariant == ASSUME Reorder!ReorderConstantsOK PROVE ProgramsSpec => []ReorderInv
  <1>1. ProgramsInit => ReorderInv
    BY ReorderInit DEF ProgramsInit
  <1>2. ReorderInv /\ [ProgramsNext]_programsVars => ReorderInv'
    BY ReorderNext, ReorderSteps
  <1> QED BY <1>1, <1>2, PTL DEF ProgramsSpec

\* An arrival is dispatched or held, and nothing else is.
LEMMA HeldOrDispatched == ReorderInv => NothingLost
  <1> SUFFICES ASSUME ReorderInv PROVE Reorder!NothingLost
    BY DEF NothingLost
  <1> DEFINE w == dispatched \o buf
             D == Len(dispatched)
             B == Len(buf)
  <1>1. buf \in Seq(Events) /\ dispatched \in Seq(Events) /\ arrived \in Seq(Events)
    BY DEF ReorderInv, Reorder!TypeOK
  <1>2. /\ DOMAIN dispatched = 1..D /\ DOMAIN buf = 1..B /\ DOMAIN arrived = 1..Len(arrived)
        /\ D \in Nat /\ B \in Nat
    BY <1>1, LenProperties
  <1>3. Len(w) = D + B /\ \A k \in 1..(D + B) : w[k] = IF k <= D THEN dispatched[k] ELSE buf[k - D]
    BY <1>1, ConcatProperties
  <1>4. Holds(w, arrived)
    BY DEF ReorderInv
  <1> HIDE DEF w, D, B
  <1>5. /\ Len(arrived) = D + B
        /\ \A k \in 1..(D + B) : \E i \in 1..Len(arrived) : arrived[i] = w[k]
        /\ \A i \in 1..Len(arrived) : \E k \in 1..(D + B) : arrived[i] = w[k]
    BY <1>3, <1>4 DEF Holds
  <1>6. ASSUME NEW i \in 1..Len(arrived)
        PROVE  (\E k \in 1..D : arrived[i] = dispatched[k]) \/ (\E k \in 1..B : arrived[i] = buf[k])
    <2>1. PICK k \in 1..(D + B) : arrived[i] = w[k]
      BY <1>5
    <2>2. CASE k <= D
      <3>1. k \in 1..D /\ w[k] = dispatched[k]
        BY <1>2, <1>3, <2>2
      <3> QED BY <2>1, <3>1
    <2>3. CASE ~(k <= D)
      <3>1. k - D \in 1..B /\ w[k] = buf[k - D]
        BY <1>2, <1>3, <2>3
      <3> QED BY <2>1, <3>1
    <2> QED BY <2>2, <2>3
  <1>7. ASSUME NEW k \in 1..D PROVE \E i \in 1..Len(arrived) : arrived[i] = dispatched[k]
    <2>1. k \in 1..(D + B) /\ w[k] = dispatched[k]
      BY <1>2, <1>3
    <2> QED BY <1>5, <2>1
  <1>8. ASSUME NEW k \in 1..B PROVE \E i \in 1..Len(arrived) : arrived[i] = buf[k]
    <2>1. D + k \in 1..(D + B) /\ ~(D + k <= D) /\ (D + k) - D = k
      BY <1>2
    <2>2. w[D + k] = buf[k]
      BY <1>3, <2>1
    <2> QED BY <1>5, <2>1, <2>2
  <1>9. Reorder!ToSet(arrived) = Reorder!ToSet(dispatched) \cup Reorder!ToSet(buf)
    <2>1. \A y : y \in Reorder!ToSet(arrived) <=> \E i \in 1..Len(arrived) : y = arrived[i]
      BY <1>2 DEF Reorder!ToSet
    <2>2. \A y : y \in Reorder!ToSet(dispatched) <=> \E k \in 1..D : y = dispatched[k]
      BY <1>2 DEF Reorder!ToSet
    <2>3. \A y : y \in Reorder!ToSet(buf) <=> \E k \in 1..B : y = buf[k]
      BY <1>2 DEF Reorder!ToSet
    <2>4. \A y : y \in Reorder!ToSet(arrived) <=>
                     (y \in Reorder!ToSet(dispatched) \/ y \in Reorder!ToSet(buf))
      BY <1>6, <1>7, <1>8, <2>1, <2>2, <2>3
    <2> QED BY <2>4
  <1> QED BY <1>5, <1>9 DEF Reorder!NothingLost, D, B

\* What was dispatched is in the promised order.
LEMMA InOrder == ReorderInv => DispatchedInOrder
  <1> SUFFICES ASSUME ReorderInv PROVE Reorder!DispatchedInOrder
    BY DEF DispatchedInOrder
  <1> DEFINE w == dispatched \o buf
             D == Len(dispatched)
             B == Len(buf)
  <1>1. buf \in Seq(Events) /\ dispatched \in Seq(Events) /\ arrived \in Seq(Events)
    BY DEF ReorderInv, Reorder!TypeOK
  <1>2. DOMAIN dispatched = 1..D /\ DOMAIN arrived = 1..Len(arrived) /\ D \in Nat /\ B \in Nat
    BY <1>1, LenProperties
  <1>3. Len(w) = D + B /\ \A k \in 1..(D + B) : w[k] = IF k <= D THEN dispatched[k] ELSE buf[k - D]
    BY <1>1, ConcatProperties
  <1>4. Stable(w, arrived) /\ ((Within(arrived) /\ ~pressed) => OldestFirst(w, D))
    BY DEF ReorderInv
  <1>5. Reorder!DisorderWithinLag <=> Within(arrived)
    BY <1>2 DEF Reorder!DisorderWithinLag, Within
  <1> HIDE DEF w, D, B
  <1>6. ASSUME NEW i \in 1..D, NEW j \in 1..D, i < j
        PROVE  /\ Reorder!DisorderWithinLag /\ ~pressed =>
                    Mono[dispatched[i]] <= Mono[dispatched[j]]
               /\ Mono[dispatched[i]] = Mono[dispatched[j]] =>
                    \E a, b \in DOMAIN arrived :
                        a < b /\ arrived[a] = dispatched[i] /\ arrived[b] = dispatched[j]
    <2>1. /\ i \in 1..(D + B) /\ j \in 1..(D + B) /\ i <= D
          /\ w[i] = dispatched[i] /\ w[j] = dispatched[j]
      <3>1. i \in 1..(D + B) /\ j \in 1..(D + B) /\ i <= D /\ j <= D
        BY <1>2
      <3> QED BY <1>3, <3>1
    <2>2. (Within(arrived) /\ ~pressed) => Mono[dispatched[i]] <= Mono[dispatched[j]]
      BY <1>3, <1>4, <1>6, <2>1 DEF OldestFirst
    <2>3. Mono[dispatched[i]] = Mono[dispatched[j]] =>
              Before(arrived, dispatched[i], dispatched[j])
      BY <1>3, <1>4, <1>6, <2>1 DEF Stable
    <2> QED BY <1>2, <1>5, <2>2, <2>3 DEF Before
  <1> QED BY <1>2, <1>6 DEF Reorder!DispatchedInOrder

\* perfLagReorder holds less than maxPending events after every push(), whatever the
\* timestamps: flushPressure() always makes room.
THEOREM BufferBounded == ASSUME Reorder!ReorderConstantsOK PROVE ProgramsSpec => []Reorder!TypeOK
  <1>1. ReorderInv => Reorder!TypeOK
    BY DEF ReorderInv
  <1> QED BY <1>1, ReorderInvariant, PTL

\* No flush of perfLagReorder loses an event or lets one out twice, whatever the lag,
\* the limit and the timestamps.
THEOREM ReorderLosesNothing ==
  ASSUME Reorder!ReorderConstantsOK PROVE ProgramsSpec => []NothingLost
  BY HeldOrDispatched, ReorderInvariant, PTL

\* The promise of perfLagReorder: events go to Dispatch() in the order of their
\* timestamps if their disorder is within the lag and the buffer does not overflow, and
\* those with equal timestamps always in the order of their arrival.
THEOREM ReorderOrders ==
  ASSUME Reorder!ReorderConstantsOK PROVE ProgramsSpec => []DispatchedInOrder
  BY InOrder, ReorderInvariant, PTL
=============================================================================
