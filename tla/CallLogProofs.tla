--------------------------- MODULE CallLogProofs ---------------------------
(***************************************************************************)
(* What CallLog entails, and so every specification that implements it.    *)
(***************************************************************************)
EXTENDS CallLog, TLAPS

\* The calls that are open have begun.
Inv ==
    /\ begun \in Nat
    /\ active \subseteq 1 .. begun
    /\ ReportedOnce

\* No call is reported twice, and none before it has returned: by
\* refinement this holds of every traced call of the plaintext programs.
THEOREM AtMostOneReport == Spec => []ReportedOnce
  <1>1. Init => Inv
    BY DEF Init, Inv, ReportedOnce
  <1>2. Inv /\ [Next]_vars => Inv'
    <2> SUFFICES ASSUME Inv, [Next]_vars PROVE Inv'
      OBVIOUS
    <2>1. CASE Begin
      BY <2>1 DEF Begin, Inv, ReportedOnce
    <2>2. ASSUME NEW c \in active, Return(c)
          PROVE  Inv'
      <3>1. CASE UNCHANGED log
        BY <2>2, <3>1 DEF Return, Inv, ReportedOnce
      <3>2. ASSUME NEW len \in 0 .. MaxData, log' = log \cup {Report(c, len)}
            PROVE  Inv'
        <4>1. /\ Report(c, len).call = c
              /\ \A r \in log : r.call # c
          BY DEF Report, Inv, ReportedOnce
        <4>2. active' = active \ {c} /\ begun' = begun
          BY <2>2 DEF Return
        <4> QED BY <3>2, <4>1, <4>2 DEF Inv, ReportedOnce
      <3> QED BY <2>2, <3>1, <3>2 DEF Return
    <2>3. ASSUME NEW S \in SUBSET active, Abandon(S)
          PROVE  Inv'
      BY <2>3 DEF Abandon, Inv, ReportedOnce
    <2>4. CASE UNCHANGED vars
      BY <2>4 DEF vars, Inv, ReportedOnce
    <2> QED BY <2>1, <2>2, <2>3, <2>4 DEF Next
  <1>3. Inv => ReportedOnce
    BY DEF Inv
  <1> QED BY <1>1, <1>2, <1>3, PTL DEF Spec
=============================================================================
