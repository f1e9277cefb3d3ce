--------------------------- MODULE DeadlocksProofs ---------------------------
(***************************************************************************)
(* Requests that wait for each other wait in a circle, if they are finitely *)
(* many: the fact about graphs that the progress of every component that   *)
(* locks rows rests on.                                                    *)
(***************************************************************************)
EXTENDS Deadlocks, FiniteSetTheorems, TLAPS

\* A member of S waits for another one.
Depend(waits, S) == \A p \in S : \E q \in S : <<p, q>> \in waits

\* Of finitely many requests, each of which waits for one of them, some wait
\* in a circle.
THEOREM CircleExists ==
  ASSUME NEW waits, NEW S, IsFiniteSet(S), S # {}, Depend(waits, S)
  PROVE  \E p \in S : InCircle(waits, p)
<1> DEFINE Dependent == {T \in SUBSET S : T # {} /\ Depend(waits, T)}
<1>1. PICK T \in Dependent : \A U \in Dependent : ~(U \subseteq T /\ U # T)
  <2>1. IsWellFoundedOn(StrictSubsetOrdering(S), SUBSET S)
    BY FS_StrictSubsetOrderingWellFounded, FS_FiniteSubsetsOfFinite
  <2>2. S \in Dependent
    OBVIOUS
  <2>3. Dependent \subseteq SUBSET S /\ Dependent # {}
    BY <2>2
  <2>4. PICK T \in Dependent : \A U \in Dependent : ~(<<U, T>> \in StrictSubsetOrdering(S))
    <3> HIDE DEF Dependent
    <3> QED
      BY <2>1, <2>3, WFMin
  <2>5. ASSUME NEW U \in Dependent, U \subseteq T, U # T
        PROVE  FALSE
    BY <2>4, <2>5 DEF StrictSubsetOrdering
  <2> QED
    BY <2>4, <2>5
<1>2. PICK p \in T : TRUE
  OBVIOUS
<1>3. SUFFICES ASSUME NEW C \in SUBSET {w[2] : w \in waits},
                      WaitedFor(waits, C \cup {p}) \subseteq C
               PROVE  p \in C
  BY <1>2 DEF InCircle
<1>4. ASSUME NEW x \in T, NEW y \in T, x \in C \cup {p}, <<x, y>> \in waits
      PROVE  y \in T \cap C
  BY <1>3, <1>4 DEF WaitedFor
<1>5. T \cap C \in Dependent
  <2>1. T \cap C # {}
    BY <1>2, <1>4 DEF Depend
  <2>2. Depend(waits, T \cap C)
    BY <1>4 DEF Depend
  <2> QED
    BY <2>1, <2>2
<1> QED
  BY <1>1, <1>2, <1>5
=============================================================================
