-------------------------- MODULE CallTraceProofs --------------------------
(***************************************************************************)
(* Proofs about CallTrace: its invariants, and that it implements CallLog. *)
(***************************************************************************)
EXTENDS CallTrace, TLAPS

\* A thread does one of four things, whichever object is loaded.
Step(t) ==
    \/ \E f \in Maps : probe_entry_SSL(t, f)
    \/ \E f \in Maps : probe_ret_SSL(t, f)
    \/ Unwind(t)
    \/ Move(t)

\* The actions of the three objects are entries and returns.
LEMMA NextIsStep == Next => \E t \in Threads : Step(t)
  BY DEF Next, Step, SSL_write, SSL_read, gnutls_record_send, gnutls_record_recv,
         PR_Write, PR_Read, Maps

\* A copy is never longer than the buffer of the event, and never negative.
LEMMA DataLen ==
  ASSUME ConstantsOK, NEW ret \in Rets, ret >= 0
  PROVE  data_len(ret) \in 0 .. MaxData
  BY DEF ConstantsOK, data_len

\* One operation on the map of the arguments changes the entry of one thread.
LEMMA UpdateEffect ==
  ASSUME TypeOK, NEW f \in Maps, NEW t \in Threads, NEW id \in Nat
  PROVE  /\ Update(f, t, id) \in [Maps -> [Threads -> Nat]]
         /\ \A g \in Maps, u \in Threads :
              (g # f \/ u # t) => Update(f, t, id)[g][u] = args_map[g][u]
         /\ Update(f, t, id)[f][t] \in {id, NoCall}
  BY DEF TypeOK, Update, NoCall

\* What an entry and a return leave behind, apart from the map.
LEMMA TypeStep ==
  ASSUME ConstantsOK, TypeOK, NEW t \in Threads, Step(t)
  PROVE  TypeOK'
  <1>1. ASSUME NEW f \in Maps, probe_entry_SSL(t, f)
        PROVE  TypeOK'
    <2>1. args_map' \in [Maps -> [Threads -> Nat]]
      <3>1. ncalls + 1 \in Nat
        BY DEF TypeOK
      <3> QED BY <1>1, <3>1, UpdateEffect DEF probe_entry_SSL, TypeOK
    <2>2. open' \in [Threads -> SUBSET Call]
      BY <1>1 DEF probe_entry_SSL, TypeOK, Call
    <2> QED BY <1>1, <2>1, <2>2 DEF probe_entry_SSL, TypeOK
  <1>2. ASSUME NEW f \in Maps, probe_ret_SSL(t, f)
        PROVE  TypeOK'
    <2>1. PICK c \in open[t], ret \in Rets :
            /\ open' = [open EXCEPT ![t] = @ \ {c}]
            /\ IF passes[t]
               THEN /\ IF args_map[f][t] # NoCall
                       THEN process_SSL_data(t, c, args_map[f][t], ret)
                       ELSE UNCHANGED emitted
                    /\ args_map' = [args_map EXCEPT ![f][t] = NoCall]
               ELSE UNCHANGED <<args_map, emitted>>
            /\ UNCHANGED <<object, passes, moves, ncalls>>
      BY <1>2 DEF probe_ret_SSL
    <2>2. emitted' \subseteq Event
      <3>1. CASE UNCHANGED emitted
        BY <3>1 DEF TypeOK
      <3>2. CASE /\ ret >= 0
                 /\ emitted' = emitted \cup
                      {[call |-> c.id, args |-> args_map[f][t],
                        len |-> data_len(ret), moves |-> moves[t]]}
        <4>1. data_len(ret) \in Nat
          BY <3>2, DataLen DEF ConstantsOK
        <4>2. c.id \in Nat
          BY DEF TypeOK, Call
        <4>3. args_map[f][t] \in Nat /\ moves[t] \in Nat
          BY DEF TypeOK
        <4> QED BY <3>2, <4>1, <4>2, <4>3 DEF TypeOK, Event
      <3> QED BY <2>1, <3>1, <3>2 DEF process_SSL_data
    <2>3. args_map' \in [Maps -> [Threads -> Nat]]
      <3>1. CASE args_map' = [args_map EXCEPT ![f][t] = NoCall]
        BY <3>1 DEF TypeOK, NoCall
      <3>2. CASE UNCHANGED args_map
        BY <3>2 DEF TypeOK
      <3> QED BY <2>1, <3>1, <3>2
    <2>4. open' \in [Threads -> SUBSET Call]
      BY <2>1 DEF TypeOK
    <2> QED BY <2>1, <2>2, <2>3, <2>4 DEF TypeOK
  <1>3. ASSUME Unwind(t)
        PROVE  TypeOK'
    BY <1>3 DEF Unwind, TypeOK
  <1>4. ASSUME Move(t)
        PROVE  TypeOK'
    BY <1>4 DEF Move, TypeOK
  <1> QED BY <1>1, <1>2, <1>3, <1>4 DEF Step

\* The variables always have their types.
THEOREM TypeCorrectness ==
  ASSUME ConstantsOK
  PROVE  Spec => []TypeOK
  <1>1. Init => TypeOK
    BY DEF Init, TypeOK, NoCall, Maps, Call, Event
  <1>2. TypeOK /\ [Next]_vars => TypeOK'
    <2> SUFFICES ASSUME TypeOK, [Next]_vars PROVE TypeOK'
      OBVIOUS
    <2>1. CASE Next
      BY <2>1, NextIsStep, TypeStep
    <2>2. CASE UNCHANGED vars
      BY <2>2 DEF vars, TypeOK
    <2> QED BY <2>1, <2>2
  <1> QED BY <1>1, <1>2, PTL DEF Spec

-----------------------------------------------------------------------------
\* The inductive invariant: the events show the arguments of their calls
\* because what is stored is always of the innermost call, which the numbers
\* of the calls tell.
Inv == TypeOK /\ CallsNumbered /\ StoredIsInnermost /\ OwnArguments

\* Entering a call: its number is new, and what is stored for it is its own.
LEMMA EntryInv ==
  ASSUME Inv, TypeOK', NEW t \in Threads, NEW f \in Maps, probe_entry_SSL(t, f)
  PROVE  Inv'
  <1> DEFINE new == [id |-> ncalls + 1, map |-> f]
  <1>1. /\ \A u \in Threads : u # t => open'[u] = open[u]
        /\ open'[t] = open[t] \cup {new}
        /\ ncalls' = ncalls + 1 /\ ncalls \in Nat
        /\ UNCHANGED <<passes, moves, emitted>>
    BY DEF probe_entry_SSL, Inv, TypeOK
  <1>2. \A u \in Threads : \A c \in open[u] : c.id \in 1 .. ncalls
    BY DEF Inv, CallsNumbered
  <1>3. CallsNumbered'
    <2>1. \A u \in Threads : \A c \in open'[u] : c.id \in 1 .. ncalls'
      BY <1>1, <1>2
    <2>2. ASSUME NEW u \in Threads, NEW v \in Threads,
                 NEW c \in open'[u], NEW d \in open'[v], c.id = d.id
          PROVE  u = v /\ c = d
      <3>1. CASE c = new /\ u = t
        BY <1>1, <1>2, <2>2, <3>1
      <3>2. CASE d = new /\ v = t
        BY <1>1, <1>2, <2>2, <3>2
      <3>3. CASE c \in open[u] /\ d \in open[v]
        BY <2>2, <3>3 DEF Inv, CallsNumbered
      <3> QED BY <1>1, <3>1, <3>2, <3>3
    <2> QED BY <2>1, <2>2 DEF CallsNumbered
  <1>4. /\ \A g \in Maps, u \in Threads :
             (g # f \/ u # t) => args_map'[g][u] = args_map[g][u]
        /\ passes[t] => args_map'[f][t] \in {ncalls + 1, NoCall}
        /\ ~passes[t] => args_map' = args_map
    <2>1. ncalls + 1 \in Nat
      BY <1>1
    <2>2. CASE passes[t] /\ args_map' = Update(f, t, ncalls + 1)
      <3>1. /\ \A g \in Maps, u \in Threads :
                 (g # f \/ u # t) => Update(f, t, ncalls + 1)[g][u] = args_map[g][u]
            /\ Update(f, t, ncalls + 1)[f][t] \in {ncalls + 1, NoCall}
        BY <2>1, UpdateEffect DEF Inv
      <3> QED BY <2>2, <3>1
    <2>3. CASE ~passes[t] /\ args_map' = args_map
      BY <2>3
    <2> QED BY <2>2, <2>3 DEF probe_entry_SSL
  <1>5. StoredIsInnermost'
    <2> SUFFICES ASSUME NEW u \in Threads, NEW g \in Maps, args_map'[g][u] # NoCall
                 PROVE  /\ moves[u] = 0 => passes[u]
                        /\ passes[u] /\ moves[u] <= 1 =>
                             \/ \A c \in open'[u] : c.map # g
                             \/ \E c \in open'[u] :
                                  /\ c.map = g
                                  /\ c.id = args_map'[g][u]
                                  /\ \A d \in open'[u] : d.map = g => d.id <= c.id
      BY <1>1 DEF StoredIsInnermost
    <2>1. CASE g # f \/ u # t
      <3>1. args_map[g][u] # NoCall /\ args_map'[g][u] = args_map[g][u]
        BY <1>4, <2>1
      <3>2. \A c : c \in open'[u] /\ c.map = g <=> c \in open[u] /\ c.map = g
        BY <1>1, <2>1
      <3> QED BY <3>1, <3>2 DEF Inv, StoredIsInnermost
    <2>2. CASE g = f /\ u = t /\ passes[t]
      <3>1. args_map'[f][t] = ncalls + 1
        BY <1>4, <2>2
      <3>2. \A d \in open'[t] : d.id <= ncalls + 1
        BY <1>1, <1>2
      <3>3. new \in open'[t] /\ new.map = f /\ new.id = ncalls + 1
        BY <1>1
      <3> QED BY <2>2, <3>1, <3>2, <3>3
    <2>3. CASE g = f /\ u = t /\ ~passes[t]
      BY <1>4, <2>3 DEF Inv, StoredIsInnermost
    <2> QED BY <2>1, <2>2, <2>3
  <1>6. OwnArguments'
    BY <1>1 DEF Inv, OwnArguments
  <1> QED BY <1>3, <1>5, <1>6 DEF Inv

\* The stored call, found by the return of the innermost one, is that call.
LEMMA FoundIsOwn ==
  ASSUME Inv, NEW t \in Threads, NEW c \in open[t], Innermost(t, c),
         passes[t], moves[t] <= 1, args_map[c.map][t] # NoCall
  PROVE  args_map[c.map][t] = c.id
  <1>1. c.map \in Maps /\ c.id \in Nat
    BY DEF Inv, TypeOK, Call
  <1>2. PICK d \in open[t] : /\ d.map = c.map
                             /\ d.id = args_map[c.map][t]
                             /\ \A e \in open[t] : e.map = c.map => e.id <= d.id
    BY <1>1 DEF Inv, StoredIsInnermost
  <1>3. c.id <= d.id /\ d.id <= c.id /\ d.id \in Nat
    BY <1>2 DEF Innermost, Inv, TypeOK, Call
  <1> QED BY <1>1, <1>2, <1>3

\* Leaving a call.
LEMMA ReturnInv ==
  ASSUME Inv, TypeOK', NEW t \in Threads, NEW f \in Maps, probe_ret_SSL(t, f)
  PROVE  Inv'
  <1>1. PICK c \in open[t], ret \in Rets :
          /\ Innermost(t, c)
          /\ c.map = f
          /\ open' = [open EXCEPT ![t] = @ \ {c}]
          /\ IF passes[t]
             THEN /\ IF args_map[f][t] # NoCall
                     THEN process_SSL_data(t, c, args_map[f][t], ret)
                     ELSE UNCHANGED emitted
                  /\ args_map' = [args_map EXCEPT ![f][t] = NoCall]
             ELSE UNCHANGED <<args_map, emitted>>
          /\ UNCHANGED <<object, passes, moves, ncalls>>
    BY DEF probe_ret_SSL
  <1>2. /\ \A u \in Threads : u # t => open'[u] = open[u]
        /\ open'[t] = open[t] \ {c}
    BY <1>1 DEF Inv, TypeOK
  <1>3. CallsNumbered'
    BY <1>1, <1>2 DEF Inv, CallsNumbered
  <1>4. /\ \A g \in Maps, u \in Threads :
             (g # f \/ u # t) => args_map'[g][u] = args_map[g][u]
        /\ passes[t] => args_map'[f][t] = NoCall
        /\ ~passes[t] => args_map' = args_map
    <2>1. CASE passes[t] /\ args_map' = [args_map EXCEPT ![f][t] = NoCall]
      BY <2>1 DEF Inv, TypeOK
    <2>2. CASE ~passes[t] /\ args_map' = args_map
      BY <2>2
    <2> QED BY <1>1, <2>1, <2>2
  <1>5. StoredIsInnermost'
    <2> SUFFICES ASSUME NEW u \in Threads, NEW g \in Maps, args_map'[g][u] # NoCall
                 PROVE  /\ moves[u] = 0 => passes[u]
                        /\ passes[u] /\ moves[u] <= 1 =>
                             \/ \A d \in open'[u] : d.map # g
                             \/ \E d \in open'[u] :
                                  /\ d.map = g
                                  /\ d.id = args_map'[g][u]
                                  /\ \A e \in open'[u] : e.map = g => e.id <= d.id
      BY <1>1 DEF StoredIsInnermost
    <2>1. CASE g # f \/ u # t
      <3>1. args_map[g][u] # NoCall /\ args_map'[g][u] = args_map[g][u]
        BY <1>4, <2>1
      <3>2. \A d : d \in open'[u] /\ d.map = g <=> d \in open[u] /\ d.map = g
        BY <1>1, <1>2, <2>1
      <3> QED BY <3>1, <3>2 DEF Inv, StoredIsInnermost
    <2>2. CASE g = f /\ u = t /\ passes[t]
      BY <1>4, <2>2
    <2>3. CASE g = f /\ u = t /\ ~passes[t]
      BY <1>4, <2>3 DEF Inv, StoredIsInnermost
    <2> QED BY <2>1, <2>2, <2>3
  <1>6. OwnArguments'
    <2>1. CASE UNCHANGED emitted
      BY <2>1 DEF Inv, OwnArguments
    <2>2. CASE /\ passes[t] /\ args_map[f][t] # NoCall
               /\ emitted' = emitted \cup
                    {[call |-> c.id, args |-> args_map[f][t],
                      len |-> data_len(ret), moves |-> moves[t]]}
      <3>1. moves[t] <= 1 => args_map[f][t] = c.id
        BY <1>1, <2>2, FoundIsOwn
      <3> QED BY <2>2, <3>1 DEF Inv, OwnArguments
    <2> QED BY <1>1, <2>1, <2>2 DEF process_SSL_data
  <1> QED BY <1>3, <1>5, <1>6 DEF Inv

\* Calls that end without a return, and a filter that turns its verdict: the
\* first time it does, nothing is stored for a thread that did not pass.
LEMMA OtherInv ==
  ASSUME Inv, TypeOK', NEW t \in Threads, Unwind(t) \/ Move(t)
  PROVE  Inv'
  <1>1. CASE Unwind(t)
    <2>1. /\ \A u \in Threads : u # t => open'[u] = open[u]
          /\ open'[t] = {}
          /\ UNCHANGED <<args_map, passes, moves, ncalls, emitted>>
      BY <1>1 DEF Unwind, Inv, TypeOK
    <2>2. CallsNumbered'
      BY <2>1 DEF Inv, CallsNumbered
    <2>3. StoredIsInnermost'
      BY <2>1 DEF Inv, StoredIsInnermost
    <2> QED BY <2>1, <2>2, <2>3 DEF Inv, OwnArguments
  <1>2. CASE Move(t)
    <2>1. /\ \A u \in Threads : u # t => moves'[u] = moves[u] /\ passes'[u] = passes[u]
          /\ moves'[t] = moves[t] + 1 /\ moves[t] \in Nat
          /\ passes'[t] = ~passes[t]
          /\ UNCHANGED <<args_map, open, ncalls, emitted>>
      BY <1>2 DEF Move, Inv, TypeOK
    <2>2. CallsNumbered' /\ OwnArguments'
      BY <2>1 DEF Inv, CallsNumbered, OwnArguments
    <2>3. StoredIsInnermost'
      <3> SUFFICES ASSUME NEW u \in Threads, NEW g \in Maps, args_map[g][u] # NoCall
                   PROVE  /\ moves'[u] = 0 => passes'[u]
                          /\ passes'[u] /\ moves'[u] <= 1 =>
                               \/ \A d \in open[u] : d.map # g
                               \/ \E d \in open[u] :
                                    /\ d.map = g
                                    /\ d.id = args_map[g][u]
                                    /\ \A e \in open[u] : e.map = g => e.id <= d.id
        BY <2>1 DEF StoredIsInnermost
      <3>1. CASE u # t
        BY <2>1, <3>1 DEF Inv, StoredIsInnermost
      <3>2. CASE u = t
        <4>1. moves'[t] # 0
          BY <2>1
        <4>2. moves[t] = 0 => passes[t]
          BY <3>2 DEF Inv, StoredIsInnermost
        <4>3. ASSUME passes'[t], moves'[t] <= 1 PROVE FALSE
          <5>1. moves[t] = 0
            BY <2>1, <4>3
          <5> QED BY <2>1, <4>2, <4>3, <5>1
        <4> QED BY <3>2, <4>1, <4>3
      <3> QED BY <3>1, <3>2
    <2> QED BY <2>2, <2>3 DEF Inv
  <1> QED BY <1>1, <1>2

\* The invariant holds of every reachable state.
THEOREM Invariance ==
  ASSUME ConstantsOK
  PROVE  Spec => []Inv
  <1>1. Init => Inv
    BY DEF Init, Inv, TypeOK, CallsNumbered, StoredIsInnermost, OwnArguments, NoCall,
           Maps, Call, Event
  <1>2. Inv /\ [Next]_vars => Inv'
    <2> SUFFICES ASSUME Inv, [Next]_vars PROVE Inv'
      OBVIOUS
    <2>1. CASE Next
      <3>1. PICK t \in Threads : Step(t)
        BY <2>1, NextIsStep
      <3>2. TypeOK'
        BY <3>1, TypeStep DEF Inv
      <3> QED BY <3>1, <3>2, EntryInv, ReturnInv, OtherInv DEF Step
    <2>2. CASE UNCHANGED vars
      BY <2>2 DEF vars, Inv, TypeOK, CallsNumbered, StoredIsInnermost, OwnArguments, Innermost
    <2> QED BY <2>1, <2>2
  <1> QED BY <1>1, <1>2, PTL DEF Spec

\* No event of a thread that crossed the border of the filter at most once
\* shows the buffer, the fd or the version of another call: the return
\* program pairs every call with its own entry.
THEOREM EventsShowTheirCalls ==
  ASSUME ConstantsOK
  PROVE  Spec => []OwnArguments
  <1>1. Inv => OwnArguments
    BY DEF Inv
  <1> QED BY <1>1, Invariance, PTL

-----------------------------------------------------------------------------
\* The refinement.  Active is what CallLog sees of the open calls.
Active == {c.id : c \in UNION {open[t] : t \in Threads}}

\* Entering a call begins one.
LEMMA EntryBegins ==
  ASSUME Inv, NEW t \in Threads, NEW f \in Maps, probe_entry_SSL(t, f)
  PROVE  Abstract!Begin
  <1> DEFINE new == [id |-> ncalls + 1, map |-> f]
  <1>1. /\ \A u \in Threads : u # t => open'[u] = open[u]
        /\ open'[t] = open[t] \cup {new}
        /\ ncalls' = ncalls + 1
        /\ emitted' = emitted
    BY DEF probe_entry_SSL, Inv, TypeOK
  <1>2. UNION {open'[u] : u \in Threads} = (UNION {open[u] : u \in Threads}) \cup {new}
    BY <1>1
  <1>3. Active' = Active \cup {ncalls + 1}
    <2> DEFINE before == UNION {open[u] : u \in Threads}
               after == UNION {open'[u] : u \in Threads}
    <2>1. after = before \cup {new} /\ new.id = ncalls + 1
      BY <1>2
    <2>2. Active = {c.id : c \in before} /\ Active' = {c.id : c \in after}
      BY DEF Active
    <2> HIDE DEF before, after, new
    <2> QED BY <2>1, <2>2
  <1>4. Reported' = Reported
    BY <1>1 DEF Reported
  <1> QED BY <1>1, <1>3, <1>4 DEF Abstract!Begin, Active

\* Leaving a call ends it, and a new event is a report of that very call.
LEMMA ReturnReturns ==
  ASSUME ConstantsOK, Inv, Inv', NEW t \in Threads, NEW f \in Maps, probe_ret_SSL(t, f)
  PROVE  \E x \in Active : Abstract!Return(x)
  <1>1. PICK c \in open[t], ret \in Rets :
          /\ open' = [open EXCEPT ![t] = @ \ {c}]
          /\ IF passes[t]
             THEN /\ IF args_map[f][t] # NoCall
                     THEN process_SSL_data(t, c, args_map[f][t], ret)
                     ELSE UNCHANGED emitted
                  /\ args_map' = [args_map EXCEPT ![f][t] = NoCall]
             ELSE UNCHANGED <<args_map, emitted>>
          /\ UNCHANGED <<object, passes, moves, ncalls>>
    BY DEF probe_ret_SSL
  <1>2. /\ \A u \in Threads : u # t => open'[u] = open[u]
        /\ open'[t] = open[t] \ {c}
    BY <1>1 DEF Inv, TypeOK
  <1>3. c.id \in Active
    BY DEF Active
  <1>4. Active' = Active \ {c.id}
    <2>1. \A u \in Threads : \A d \in open[u] : d.id = c.id => u = t /\ d = c
      BY DEF Inv, CallsNumbered
    <2>2. \A x : x \in UNION {open'[u] : u \in Threads} <=>
                 x \in UNION {open[u] : u \in Threads} /\ x # c
      BY <1>2, <2>1
    <2>3. \A d \in UNION {open[u] : u \in Threads} : d.id = c.id => d = c
      BY <2>1
    <2> QED BY <2>2, <2>3 DEF Active
  <1>5. \/ Reported' = Reported
        \/ \E len \in 0 .. MaxData :
             Reported' = Reported \cup {[call |-> c.id, args |-> c.id, len |-> len]}
    <2>1. CASE UNCHANGED emitted
      BY <2>1 DEF Reported
    <2>2. CASE /\ ret >= 0
               /\ emitted' = emitted \cup
                    {[call |-> c.id, args |-> args_map[f][t],
                      len |-> data_len(ret), moves |-> moves[t]]}
      <3> DEFINE new == [call |-> c.id, args |-> args_map[f][t],
                         len |-> data_len(ret), moves |-> moves[t]]
      <3>1. data_len(ret) \in 0 .. MaxData
        BY <2>2, DataLen
      <3>2. CASE moves[t] <= 1
        <4>1. new.args = new.call
          <5>1. new \in emitted' /\ new.moves <= 1
            BY <2>2, <3>2
          <5> QED BY <5>1 DEF Inv, OwnArguments
        <4>2. {x \in emitted' : x.moves <= 1} = {x \in emitted : x.moves <= 1} \cup {new}
          BY <2>2, <3>2
        <4>3. Reported' = Reported \cup
                {[call |-> new.call, args |-> new.args, len |-> new.len]}
          BY <4>2 DEF Reported
        <4>4. Reported' = Reported \cup
                {[call |-> c.id, args |-> c.id, len |-> data_len(ret)]}
          BY <4>1, <4>3
        <4> QED BY <3>1, <4>4
      <3>3. CASE ~(moves[t] <= 1)
        <4>1. {x \in emitted' : x.moves <= 1} = {x \in emitted : x.moves <= 1}
          BY <2>2, <3>3
        <4> QED BY <4>1 DEF Reported
      <3> QED BY <3>2, <3>3
    <2> QED BY <1>1, <2>1, <2>2 DEF process_SSL_data
  <1>6. Abstract!Return(c.id)
    BY <1>1, <1>3, <1>4, <1>5 DEF Abstract!Return, Abstract!Report, Active
  <1> QED BY <1>3, <1>6

\* A thread that ends abandons its calls.
LEMMA UnwindAbandons ==
  ASSUME Inv, NEW t \in Threads, Unwind(t)
  PROVE  \E S \in SUBSET Active : Abstract!Abandon(S)
  <1> DEFINE S == {c.id : c \in open[t]}
  <1>1. /\ \A u \in Threads : u # t => open'[u] = open[u]
        /\ open'[t] = {}
        /\ UNCHANGED <<ncalls, emitted>>
    BY DEF Unwind, Inv, TypeOK
  <1>2. S \in SUBSET Active
    BY DEF Active
  <1>3. Active' = Active \ S
    <2>1. \A u \in Threads : \A d \in open[u] : \A c \in open[t] : d.id = c.id => u = t
      BY DEF Inv, CallsNumbered
    <2>2. \A d : d \in UNION {open'[u] : u \in Threads} <=>
                 d \in UNION {open[u] : u \in Threads} /\ d \notin open[t]
      <3> SUFFICES ASSUME NEW d
                   PROVE  d \in UNION {open'[u] : u \in Threads} <=>
                          d \in UNION {open[u] : u \in Threads} /\ d \notin open[t]
        OBVIOUS
      <3>1. ASSUME NEW u \in Threads, d \in open'[u]
            PROVE  d \in open[u] /\ d \notin open[t]
        BY <1>1, <2>1, <3>1
      <3>2. ASSUME NEW u \in Threads, d \in open[u], d \notin open[t]
            PROVE  d \in open'[u]
        BY <1>1, <3>2
      <3> QED BY <3>1, <3>2
    <2>3. \A d \in UNION {open[u] : u \in Threads} :
            d.id \in S => d \in open[t]
      BY <2>1
    <2> QED BY <2>2, <2>3 DEF Active
  <1>4. Reported' = Reported
    BY <1>1 DEF Reported
  <1>5. Abstract!Abandon(S)
    BY <1>1, <1>2, <1>3, <1>4 DEF Abstract!Abandon, Active
  <1> HIDE DEF S
  <1> QED BY <1>2, <1>5 DEF Abstract!Abandon

\* The three objects implement CallLog: a call is reported at its return or
\* never, at most once, and with its own arguments.
THEOREM Refinement ==
  ASSUME ConstantsOK
  PROVE  Spec => ImplementsCallLog
  <1>1. Init => Abstract!Init
    BY DEF Init, Abstract!Init, Reported
  <1>2. Inv /\ Inv' /\ [Next]_vars => [Abstract!Next]_(Abstract!vars)
    <2> SUFFICES ASSUME Inv, Inv', [Next]_vars
                 PROVE  Abstract!Next \/ UNCHANGED Abstract!vars
      OBVIOUS
    <2>1. CASE Next
      <3>1. PICK t \in Threads : Step(t)
        BY <2>1, NextIsStep
      <3>2. ASSUME NEW f \in Maps, probe_entry_SSL(t, f)
            PROVE  Abstract!Next
        BY <3>2, EntryBegins DEF Abstract!Next
      <3>3. ASSUME NEW f \in Maps, probe_ret_SSL(t, f)
            PROVE  Abstract!Next
        BY <3>3, ReturnReturns DEF Abstract!Next, Active
      <3>4. ASSUME Unwind(t)
            PROVE  Abstract!Next
        BY <3>4, UnwindAbandons DEF Abstract!Next, Active
      <3>5. ASSUME Move(t)
            PROVE  UNCHANGED Abstract!vars
        BY <3>5 DEF Move, Abstract!vars, Reported
      <3> QED BY <3>1, <3>2, <3>3, <3>4, <3>5 DEF Step
    <2>2. CASE UNCHANGED vars
      BY <2>2 DEF vars, Abstract!vars, Reported
    <2> QED BY <2>1, <2>2
  <1> QED BY <1>1, <1>2, Invariance, PTL DEF Spec, ImplementsCallLog, Abstract!Spec
=============================================================================
