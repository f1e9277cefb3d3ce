-------------------------- MODULE ExecutionProofs --------------------------
(***************************************************************************)
(* Proofs about Execution, for every tree of selected fields, every number *)
(* of elements and every schema: its inductive invariant, that no guarded  *)
(* resolver runs for a former admin, that it implements Response, that     *)
(* somebody can always go on, and that mutations run one by one.           *)
(***************************************************************************)
EXTENDS Execution, FiniteSetTheorems, TLAPS

-----------------------------------------------------------------------------
(***************************************************************************)
(* The tree of positions.                                                  *)
(***************************************************************************)
LEMMA Kinds ==
  /\ Part \subseteq Position /\ Operation \subseteq Position
  /\ ListField \subseteq Field /\ ObjectField \subseteq Field
  /\ NilField \subseteq Field /\ ResolverField \subseteq Field
  /\ GuardedField \subseteq Field /\ ArgumentField \subseteq Field
  /\ Field \subseteq Part /\ Element \subseteq Part
  /\ Mandatory \subseteq Part /\ Element \subseteq Mandatory
  /\ ListField \cap ObjectField = {} /\ Field \cap Element = {}
  /\ Operation \cap Part = {}
  /\ \A p \in Position : p \in Operation \/ p \in Part
  /\ \A c \in Part : c \in Field \/ c \in Element
  BY TreeAssumption
  DEF Position, Part, ListField, ObjectField, NilField, ResolverField, DelayedField,
      GuardedField, ArgumentField, Mandatory

LEMMA Parts ==
  ASSUME NEW p \in Position
  PROVE  /\ PartsOf[p] \subseteq Part
         /\ \A c \in Part : c \in PartsOf[p] <=> ParentOf[c] = p
         /\ \A c \in PartsOf[p] : c \in Under[p] /\ p # c /\ p \in Above[c]
  BY TreeAssumption, Kinds DEF PartsOf, Above

LEMMA Ancestors ==
  ASSUME NEW p \in Position
  PROVE  /\ Above[p] \subseteq Position
         /\ \A q \in Position : q \in Above[p] <=> p \in Under[q] /\ q # p
         /\ p \notin Above[p] /\ p \in Under[p]
         /\ p \in Operation => Above[p] = {}
         /\ \A q \in Above[p] : \E c \in PartsOf[q] : p = c \/ c \in Above[p]
  <1>1. /\ Above[p] \subseteq Position
        /\ \A q \in Position : q \in Above[p] <=> p \in Under[q] /\ q # p
        /\ p \notin Above[p] /\ p \in Under[p]
    BY TreeAssumption DEF Above
  <1>2. p \in Operation => Above[p] = {}
    BY <1>1, TreeAssumption
  <1>3. ASSUME NEW q \in Above[p]
        PROVE  \E c \in PartsOf[q] : p = c \/ c \in Above[p]
    <2>1. q \in Position /\ p \in Under[q] /\ q # p
      BY <1>1
    <2>2. PICK c \in PartsOf[q] : p \in Under[c]
      BY <2>1, TreeAssumption
    <2>3. c \in Position
      BY <2>1, Parts, Kinds
    <2>4. QED
      BY <1>1, <2>2, <2>3
  <1>4. QED
    BY <1>1, <1>2, <1>3

LEMMA Lineage ==
  ASSUME NEW c \in Part
  PROVE  /\ ParentOf[c] \in Position /\ c \in PartsOf[ParentOf[c]]
         /\ c \in Position
         /\ \A q \in Position : q \in Above[c] <=> q = ParentOf[c] \/ q \in Above[ParentOf[c]]
  <1>1. c \in Position /\ ParentOf[c] \in Position /\ c \in PartsOf[ParentOf[c]]
    BY TreeAssumption, Kinds DEF PartsOf
  <1>2. ASSUME NEW q \in Position
        PROVE  q \in Above[c] <=> q = ParentOf[c] \/ q \in Above[ParentOf[c]]
    <2>1. q \in Above[c] <=> c \in Under[q] /\ q # c
      BY <1>1, Ancestors
    <2>2. q \in Above[ParentOf[c]] <=> ParentOf[c] \in Under[q] /\ q # ParentOf[c]
      BY <1>1, Ancestors
    <2>3. c \in Under[q] <=> c = q \/ ParentOf[c] \in Under[q]
      BY TreeAssumption
    <2>4. ParentOf[c] \in Under[ParentOf[c]] /\ ParentOf[c] \notin Under[c]
      BY <1>1, TreeAssumption
    <2>5. QED
      BY <2>1, <2>2, <2>3, <2>4
  <1>3. QED
    BY <1>1, <1>2

LEMMA Inside ==
  ASSUME NEW p \in Position, NEW q \in Above[p]
  PROVE  Under[p] \subseteq Under[q]
  BY Ancestors, TreeAssumption

\* Fields are parts of objects, elements of lists, and nothing of a leaf.
LEMMA Composition ==
  /\ \A f \in Field : ParentOf[f] \notin ListField
  /\ \A e \in Element : ParentOf[e] \in ListField
  /\ \A p \in Position :
        /\ p \in ListField => PartsOf[p] \subseteq Element
        /\ p \notin ListField => PartsOf[p] \subseteq Field
        /\ p \in Field \ (ListField \cup ObjectField) => PartsOf[p] = {}
  <1>1. \A f \in Field : ParentOf[f] \notin ListField
    BY SchemaAssumption, Kinds
  <1>2. \A e \in Element : ParentOf[e] \in ListField
    BY SchemaAssumption
  <1>3. ASSUME NEW p \in Position
        PROVE  /\ p \in ListField => PartsOf[p] \subseteq Element
               /\ p \notin ListField => PartsOf[p] \subseteq Field
               /\ p \in Field \ (ListField \cup ObjectField) => PartsOf[p] = {}
    BY <1>1, <1>2, Parts, Kinds, SchemaAssumption
  <1>4. QED
    BY <1>1, <1>2, <1>3

-----------------------------------------------------------------------------
(***************************************************************************)
(* What every step does: one position p goes to the stage s.               *)
(***************************************************************************)
Progress(p, s) ==
  /\ UNCHANGED operation
  /\ s \in Stage \ {"waiting"} /\ ~Done(p)
  /\ state' = [state EXCEPT ![p] = s]
  /\ state[p] = "waiting" => p \in Part /\ Turn(p)
  /\ state[p] = "completing" =>
        /\ s \in {"data", "null"}
        /\ \A c \in PartsOf[p] : p \notin ListField \/ c \in present[p] => Done(c)

\* What it does to the counters.
Counts(p, s) ==
  invalids' = IF s = "null" /\ p \in Mandatory \cap Field
              THEN [invalids EXCEPT ![ParentOf[p]] = @ + 1]
              ELSE invalids

\* A null that must not be is an error, or one of a part is the reason.
Reports(p, s) ==
  /\ \/ errors' = errors
     \/ s = "null" /\ p \in Part /\ errors' = errors \cup {p}
  /\ s = "null" /\ p \in Mandatory \cup Operation =>
        p \in errors' \/ \E c \in PartsOf[p] \cap Mandatory : state[c] = "null"

\* Data is that of a leaf, or of an object or a list that is complete.
Justifies(p, s) ==
  /\ s = "data" /\ state[p] # "completing" => PartsOf[p] = {}
  /\ s = "data" => \A c \in PartsOf[p] \cap Mandatory :
        p \notin ListField \/ c \in present[p] => state[c] # "null"

Returns(p, s) ==
  \/ UNCHANGED present
  \/ /\ p \in ListField /\ state[p] = "resolving" /\ s = "completing"
     /\ \E elements \in SUBSET PartsOf[p] : present' = [present EXCEPT ![p] = elements]

Step(p, s) ==
  Progress(p, s) /\ Counts(p, s) /\ Reports(p, s) /\ Justifies(p, s) /\ Returns(p, s)

LEMMA FailStep ==
  ASSUME TypeOK, NEW f \in Field, Fail(f), UNCHANGED <<operation, present>>,
         state[f] \in {"auth", "resolving"} \/ Turn(f)
  PROVE  Step(f, "null")
  <1>1. f \in Part /\ f \in Position /\ f \notin Operation
    BY Kinds
  <1>2. Progress(f, "null")
    BY <1>1 DEF Fail, Finish, Progress, Turn, Done, Stage
  <1>3. Counts(f, "null") /\ Returns(f, "null") /\ Justifies(f, "null")
    BY DEF Fail, Finish, Counts, Returns, Justifies
  <1>4. Reports(f, "null")
    BY <1>1 DEF Fail, Reports
  <1>5. QED
    BY <1>2, <1>3, <1>4 DEF Step

LEMMA EveryStep ==
  ASSUME IInv, Next
  PROVE  \E p \in Position, s \in Stage : Step(p, s)
  <1> USE DEF IInv
  <1>1. ASSUME NEW p \in Part, Begin(p)
        PROVE  \E q \in Position, s \in Stage : Step(q, s)
    <2> DEFINE s == IF p \in Element THEN "completing"
                    ELSE IF p \in GuardedField THEN "auth" ELSE "resolving"
    <2>1. p \in Position /\ s \in Stage /\ s \notin {"waiting", "data", "null"}
      BY Kinds DEF Stage
    <2>2. Progress(p, s)
      BY <1>1, <2>1 DEF Begin, Turn, Progress, Done, Stage
    <2>3. Counts(p, s) /\ Reports(p, s) /\ Justifies(p, s) /\ Returns(p, s)
      BY <1>1, <2>1 DEF Begin, Counts, Reports, Justifies, Returns
    <2>4. QED
      BY <2>1, <2>2, <2>3 DEF Step
  <1>2. ASSUME NEW f \in Field, BadArguments(f)
        PROVE  \E q \in Position, s \in Stage : Step(q, s)
    BY <1>2, FailStep, Kinds DEF BadArguments, Stage
  <1>3. ASSUME NEW f \in Field, Authorize(f)
        PROVE  \E q \in Position, s \in Stage : Step(q, s)
    <2>1. f \in Position /\ f \in Part
      BY Kinds
    <2>2. CASE Fail(f)
      BY <1>3, <2>1, <2>2, FailStep DEF Authorize, Stage
    <2>3. CASE state' = [state EXCEPT ![f] = "resolving"] /\ UNCHANGED <<invalids, errors>>
      <3>1. Progress(f, "resolving")
        BY <1>3, <2>1, <2>3 DEF Authorize, Progress, Done, Stage
      <3>2. Counts(f, "resolving") /\ Reports(f, "resolving") /\ Justifies(f, "resolving")
                /\ Returns(f, "resolving")
        BY <1>3, <2>3 DEF Authorize, Counts, Reports, Justifies, Returns
      <3>3. QED
        BY <2>1, <3>1, <3>2 DEF Step, Stage
    <2>4. QED
      BY <1>3, <2>2, <2>3 DEF Authorize
  <1>4. ASSUME NEW f \in Field, ReturnNil(f)
        PROVE  \E q \in Position, s \in Stage : Step(q, s)
    <2>1. f \in Position /\ f \in Part /\ f \notin Operation
      BY Kinds
    <2>2. CASE Fail(f)
      BY <1>4, <2>1, <2>2, FailStep DEF ReturnNil, Stage
    <2>3. CASE f \notin Mandatory /\ Finish(f, "null") /\ UNCHANGED errors
      <3>1. Progress(f, "null")
        BY <1>4, <2>1, <2>3 DEF ReturnNil, Finish, Progress, Done, Stage
      <3>2. Counts(f, "null") /\ Reports(f, "null") /\ Justifies(f, "null") /\ Returns(f, "null")
        BY <1>4, <2>1, <2>3 DEF ReturnNil, Finish, Counts, Reports, Justifies, Returns
      <3>3. QED
        BY <2>1, <3>1, <3>2 DEF Step, Stage
    <2>4. QED
      BY <1>4, <2>2, <2>3 DEF ReturnNil
  <1>5. ASSUME NEW f \in Field, ReturnError(f) \/ Panic(f)
        PROVE  \E q \in Position, s \in Stage : Step(q, s)
    BY <1>5, FailStep, Kinds DEF ReturnError, Panic, Stage
  <1>6. ASSUME NEW f \in Field, ReturnValue(f)
        PROVE  \E q \in Position, s \in Stage : Step(q, s)
    <2>1. f \in Position /\ f \in Part /\ f \notin Operation
      BY Kinds
    <2>2. CASE f \in ListField \cup ObjectField
      <3>1. Progress(f, "completing")
        BY <1>6, <2>1, <2>2 DEF ReturnValue, Progress, Done, Stage
      <3>2. Counts(f, "completing") /\ Reports(f, "completing") /\ Justifies(f, "completing")
        BY <1>6, <2>2 DEF ReturnValue, Counts, Reports, Justifies
      <3>3. Returns(f, "completing")
        BY <1>6, <2>2 DEF ReturnValue, Returns
      <3>4. QED
        BY <2>1, <3>1, <3>2, <3>3 DEF Step, Stage
    <2>3. CASE f \notin ListField \cup ObjectField
      <3>1. Progress(f, "data")
        BY <1>6, <2>1, <2>3 DEF ReturnValue, Finish, Progress, Done, Stage
      <3>2. PartsOf[f] = {}
        BY <2>1, <2>3, Composition
      <3>3. Counts(f, "data") /\ Reports(f, "data") /\ Justifies(f, "data") /\ Returns(f, "data")
        BY <1>6, <2>3, <3>2 DEF ReturnValue, Finish, Counts, Reports, Justifies, Returns
      <3>4. QED
        BY <2>1, <3>1, <3>3 DEF Step, Stage
    <2>4. QED
      BY <2>2, <2>3
  <1>7. ASSUME NEW p \in Position, CompleteObject(p)
        PROVE  \E q \in Position, s \in Stage : Step(q, s)
    <2> DEFINE s == IF invalids[p] > 0 THEN "null" ELSE "data"
    <2>1. s \in Stage /\ s \in {"data", "null"}
      BY DEF Stage
    <2>2. Progress(p, s)
      BY <1>7, <2>1 DEF CompleteObject, Finish, Progress, Done, Stage
    <2>3. Counts(p, s) /\ Returns(p, s)
      BY <1>7 DEF CompleteObject, Finish, Counts, Returns
    <2>4. invalids[p] > 0 <=> \E c \in PartsOf[p] \cap Mandatory : state[c] = "null"
      BY <1>7 DEF Counted, CompleteObject
    <2>5. s = "null" <=> invalids[p] > 0
      OBVIOUS
    <2>6. Reports(p, s)
      BY <1>7, <2>4, <2>5 DEF CompleteObject, Reports
    <2>7. s = "data" <=> ~(invalids[p] > 0)
      OBVIOUS
    <2>8. Justifies(p, s)
      BY <1>7, <2>4, <2>7 DEF CompleteObject, Justifies
    <2>9. QED
      BY <2>1, <2>2, <2>3, <2>6, <2>8 DEF Step
  <1>8. ASSUME NEW p \in Position, CompleteList(p)
        PROVE  \E q \in Position, s \in Stage : Step(q, s)
    <2> DEFINE s == IF \E e \in present[p] : state[e] = "null" THEN "null" ELSE "data"
    <2>1. s \in Stage /\ s \in {"data", "null"}
      BY DEF Stage
    <2>2. Progress(p, s)
      BY <1>8, <2>1 DEF CompleteList, Finish, Progress, Done, Stage
    <2>3. Counts(p, s) /\ Returns(p, s)
      BY <1>8 DEF CompleteList, Finish, Counts, Returns
    <2>4. present[p] \subseteq PartsOf[p] \cap Mandatory
      BY <1>8, Composition, Kinds DEF CompleteList, ListNesting
    <2>5. Reports(p, s)
      BY <1>8, <2>4 DEF CompleteList, Reports
    <2>6. Justifies(p, s)
      BY <1>8 DEF CompleteList, Justifies
    <2>7. QED
      BY <2>1, <2>2, <2>3, <2>5, <2>6 DEF Step
  <1>9. QED
    BY <1>1, <1>2, <1>3, <1>4, <1>5, <1>6, <1>7, <1>8 DEF Next

-----------------------------------------------------------------------------
(***************************************************************************)
(* A step keeps the invariant.                                             *)
(***************************************************************************)

\* Whatever is above the position that moves waits for it.
LEMMA AncestorsWait ==
  ASSUME TypeOK, Nesting, NEW p \in Position, NEW s \in Stage, Progress(p, s)
  PROVE  /\ \A q \in Above[p] : state[q] = "completing"
         /\ state[p] = "waiting" => p \in Under[operation]
  <1>1. CASE state[p] = "waiting"
    <2>1. p \in Part /\ state[ParentOf[p]] = "completing" /\ ParentOf[p] \in Position
      BY <1>1, Lineage DEF Progress, Turn
    <2>2. \A q \in Above[ParentOf[p]] : state[q] = "completing"
      BY <2>1 DEF Nesting, Done
    <2>3. ParentOf[p] \in Under[operation] /\ operation \in Position
      BY <2>1, Kinds DEF Nesting, TypeOK
    <2>4. p \in Under[operation]
      BY <2>1, <2>3, TreeAssumption
    <2>5. QED
      BY <2>1, <2>2, <2>4, Lineage, Ancestors
  <1>2. CASE state[p] # "waiting"
    BY <1>2 DEF Nesting, Progress
  <1>3. QED
    BY <1>1, <1>2

\* What has begun below it is done when it is.
LEMMA DescendantsDone ==
  ASSUME TypeOK, Nesting, ListNesting,
         NEW p \in Position, NEW s \in Stage, Progress(p, s),
         NEW q \in Position, p \in Above[q], state[q] # "waiting"
  PROVE  s \in {"data", "null"} /\ Done(q)
  <1>1. state[p] = "completing"
    BY DEF Nesting, Progress
  <1>2. PICK c \in PartsOf[p] : q = c \/ c \in Above[q]
    BY Ancestors
  <1>3. c \in Part /\ c \in Position /\ ParentOf[c] = p
    BY Parts, Kinds
  <1>4. state[c] # "waiting"
    BY <1>2, <1>3 DEF Nesting, Done
  <1>5. p \in ListField => c \in present[p]
    BY <1>2, <1>4 DEF ListNesting
  <1>6. Done(c)
    BY <1>1, <1>2, <1>5 DEF Progress
  <1>7. Done(q)
    BY <1>2, <1>6 DEF Nesting, Done
  <1>8. QED
    BY <1>1, <1>7 DEF Progress

LEMMA NestingKept ==
  ASSUME TypeOK, Nesting, ListNesting,
         NEW p \in Position, NEW s \in Stage, Progress(p, s)
  PROVE  Nesting'
  <1>1. operation' = operation /\ state' = [state EXCEPT ![p] = s]
            /\ s # "waiting" /\ ~Done(p) /\ state \in [Position -> Stage]
    BY DEF Progress, TypeOK
  <1>2. SUFFICES ASSUME NEW q \in Position, state'[q] # "waiting"
                 PROVE  /\ q \in Under[operation]
                        /\ \A r \in Above[q] :
                              \/ state'[r] = "completing"
                              \/ state'[q] \in {"data", "null"} /\ state'[r] \in {"data", "null"}
    BY <1>1 DEF Nesting, Done
  <1>3. CASE q = p
    <2>1. p \in Under[operation]
      BY AncestorsWait DEF Nesting
    <2>2. \A r \in Above[p] : r # p /\ r \in Position /\ state[r] = "completing"
      BY AncestorsWait, Ancestors
    <2>3. QED
      BY <1>1, <1>3, <2>1, <2>2
  <1>4. CASE q # p
    <2>1. state[q] # "waiting" /\ state'[q] = state[q]
      BY <1>1, <1>2, <1>4
    <2>2. q \in Under[operation]
      BY <2>1 DEF Nesting
    <2>3. ASSUME NEW r \in Above[q]
          PROVE  \/ state'[r] = "completing"
                 \/ state'[q] \in {"data", "null"} /\ state'[r] \in {"data", "null"}
      <3>1. CASE r = p
        <4>1. s \in {"data", "null"} /\ Done(q)
          BY <2>1, <2>3, <3>1, DescendantsDone
        <4>2. QED
          BY <1>1, <2>1, <3>1, <4>1 DEF Done
      <3>2. CASE r # p
        BY <1>1, <2>1, <3>2, Ancestors DEF Nesting, Done
      <3>3. QED
        BY <3>1, <3>2
    <2>4. QED
      BY <2>2, <2>3
  <1>5. QED
    BY <1>3, <1>4

LEMMA ListNestingKept ==
  ASSUME TypeOK, Nesting, ListNesting,
         NEW p \in Position, NEW s \in Stage, Step(p, s)
  PROVE  ListNesting'
  <1>1. state' = [state EXCEPT ![p] = s] /\ s # "waiting" /\ ~Done(p)
            /\ state \in [Position -> Stage] /\ present \in [ListField -> SUBSET Part]
    BY DEF Step, Progress, TypeOK
  <1>2. SUFFICES ASSUME NEW f \in ListField
                 PROVE  /\ present'[f] \subseteq PartsOf[f]
                        /\ state'[f] \in {"waiting", "auth", "resolving"} => present'[f] = {}
                        /\ \A e \in PartsOf[f] : state'[e] # "waiting" => e \in present'[f]
                        /\ state'[f] \in {"data", "null"} =>
                              \A e \in present'[f] : state'[e] \in {"data", "null"}
    BY DEF ListNesting, Done
  <1>3. /\ f \in Position
        /\ present[f] \subseteq PartsOf[f]
        /\ \A e \in PartsOf[f] : e \in Position /\ e # f /\ f \in Above[e]
    BY Kinds, Parts DEF ListNesting
  <1>4. CASE present' = present
    <2>1. state'[f] \in {"waiting", "auth", "resolving"} => present[f] = {}
      <3>1. CASE f = p
        <4>1. s \in {"waiting", "auth", "resolving"} => state[p] # "completing"
          BY DEF Step, Progress
        <4>2. QED
          BY <1>1, <1>3, <3>1, <4>1 DEF ListNesting, Done, Stage
      <3>2. CASE f # p
        BY <1>1, <1>3, <3>2 DEF ListNesting
      <3>3. QED
        BY <3>1, <3>2
    <2>2. ASSUME NEW e \in PartsOf[f], state'[e] # "waiting"
          PROVE  e \in present[f]
      <3>1. CASE e = p /\ state[p] = "waiting"
        <4>1. p \in Part /\ ParentOf[p] = f
          BY <1>3, <2>2, <3>1, Parts
        <4>2. p \in Element
          BY <4>1, Composition, Kinds
        <4>3. QED
          BY <3>1, <4>1, <4>2 DEF Step, Progress, Turn
      <3>2. CASE e # p \/ state[p] # "waiting"
        <4>1. state[e] # "waiting"
          BY <1>1, <1>3, <2>2, <3>2
        <4>2. QED
          BY <4>1 DEF ListNesting
      <3>3. QED
        BY <3>1, <3>2
    <2>3. ASSUME state'[f] \in {"data", "null"}, NEW e \in present[f]
          PROVE  state'[e] \in {"data", "null"}
      <3>1. state'[e] = IF e = p THEN s ELSE state[e]
        BY <1>1, <1>3
      <3>2. CASE f = p
        <4>1. state[p] = "completing"
          BY <1>1, <1>3, <2>3, <3>2 DEF ListNesting, Done, Stage
        <4>2. QED
          BY <1>3, <2>3, <3>1, <3>2, <4>1 DEF Step, Progress, Done
      <3>3. CASE f # p
        <4>1. Done(f)
          BY <1>1, <1>3, <2>3, <3>3 DEF Done
        <4>2. Done(e)
          BY <4>1, <2>3 DEF ListNesting
        <4>3. QED
          BY <1>1, <3>1, <4>2 DEF Done
      <3>4. QED
        BY <3>2, <3>3
    <2>4. QED
      BY <1>3, <1>4, <2>1, <2>2, <2>3
  <1>5. ASSUME NEW elements \in SUBSET PartsOf[p],
               p \in ListField, state[p] = "resolving", s = "completing",
               present' = [present EXCEPT ![p] = elements]
        PROVE  /\ present'[f] \subseteq PartsOf[f]
               /\ state'[f] \in {"waiting", "auth", "resolving"} => present'[f] = {}
               /\ \A e \in PartsOf[f] : state'[e] # "waiting" => e \in present'[f]
               /\ state'[f] \in {"data", "null"} =>
                     \A e \in present'[f] : state'[e] \in {"data", "null"}
    <2>1. CASE f = p
      <3>1. present'[p] = elements /\ state'[p] = "completing"
        BY <1>1, <1>5
      <3>2. \A e \in PartsOf[p] : state[e] = "waiting" /\ state'[e] = "waiting"
        BY <1>1, <1>3, <1>5, <2>1 DEF Nesting, Done
      <3>3. QED
        BY <2>1, <3>1, <3>2
    <2>2. CASE f # p
      <3>1. present'[f] = present[f] /\ state'[f] = state[f]
        BY <1>1, <1>3, <1>5, <2>2
      <3>2. ASSUME NEW e \in PartsOf[f], state'[e] # "waiting"
            PROVE  e \in present[f]
        <4>1. state[e] # "waiting"
          BY <1>1, <1>3, <1>5, <3>2
        <4>2. QED
          BY <4>1 DEF ListNesting
      <3>3. ASSUME state[f] \in {"data", "null"}, NEW e \in present[f]
            PROVE  state'[e] \in {"data", "null"}
        BY <1>1, <1>3, <3>3 DEF ListNesting, Done
      <3>4. QED
        BY <1>3, <3>1, <3>2, <3>3 DEF ListNesting
    <2>3. QED
      BY <2>1, <2>2
  <1>6. QED
    BY <1>4, <1>5 DEF Step, Returns

LEMMA OrderedKept ==
  ASSUME TypeOK, Ordered, NEW p \in Position, NEW s \in Stage, Progress(p, s)
  PROVE  Ordered'
  <1>1. state' = [state EXCEPT ![p] = s] /\ ~Done(p) /\ state \in [Position -> Stage]
    BY DEF Progress, TypeOK
  <1>2. SUFFICES ASSUME NEW f \in Field, state'[f] # "waiting", NEW g \in Earlier[f]
                 PROVE  state'[g] \in {"data", "null"}
    BY DEF Ordered, Done, Earlier
  <1>3. f \in Position /\ g \in Position
    BY Kinds DEF Earlier
  <1>4. Done(g)
    <2>1. CASE state[f] = "waiting"
      BY <1>1, <1>2, <1>3, <2>1 DEF Progress, Turn
    <2>2. CASE state[f] # "waiting"
      BY <2>2 DEF Ordered
    <2>3. QED
      BY <2>1, <2>2
  <1>5. QED
    BY <1>1, <1>3, <1>4 DEF Done

LEMMA CompleteKept ==
  ASSUME TypeOK, Nesting, ListNesting, Complete,
         NEW p \in Position, NEW s \in Stage, Step(p, s)
  PROVE  Complete'
  <1>1. state' = [state EXCEPT ![p] = s] /\ ~Done(p) /\ state \in [Position -> Stage]
            /\ Progress(p, s)
    BY DEF Step, Progress, TypeOK
  <1>2. SUFFICES ASSUME NEW q \in Position, state'[q] = "data"
                 PROVE  /\ q \notin ListField => \A c \in PartsOf[q] : state'[c] \in {"data", "null"}
                        /\ \A c \in PartsOf[q] \cap Mandatory : state'[c] # "null"
    BY DEF Complete, Done
  <1>3. \A c \in PartsOf[q] : c \in Position /\ c # q /\ q \in Above[c]
    BY Parts, Kinds
  <1>4. CASE q = p
    <2>1. s = "data" /\ \A c \in PartsOf[p] : state'[c] = state[c]
      BY <1>1, <1>2, <1>3, <1>4
    <2>2. CASE state[p] = "completing"
      <3>1. \A c \in PartsOf[p] : p \notin ListField => Done(c)
        BY <1>1, <2>2 DEF Progress
      <3>2. \A c \in PartsOf[p] \cap Mandatory : state[c] # "null"
        BY <2>1 DEF Step, Justifies, ListNesting
      <3>3. QED
        BY <1>4, <2>1, <3>1, <3>2 DEF Done
    <2>3. CASE state[p] # "completing"
      BY <1>4, <2>1, <2>3 DEF Step, Justifies
    <2>4. QED
      BY <2>2, <2>3
  <1>5. CASE q # p
    <2>1. state[q] = "data"
      BY <1>1, <1>2, <1>5
    <2>2. \A c \in PartsOf[q] : c # p
      BY <1>1, <1>3, <2>1, AncestorsWait
    <2>3. \A c \in PartsOf[q] : state'[c] = state[c]
      BY <1>1, <1>3, <2>2
    <2>4. QED
      BY <2>1, <2>3 DEF Complete, Done
  <1>6. QED
    BY <1>4, <1>5

LEMMA CountedKept ==
  ASSUME TypeOK, Counted, NEW p \in Position, NEW s \in Stage, Step(p, s)
  PROVE  Counted'
  <1>1. /\ state' = [state EXCEPT ![p] = s] /\ ~Done(p) /\ state \in [Position -> Stage]
        /\ invalids \in [Position -> Nat]
    BY DEF Step, Progress, TypeOK
  <1>2. SUFFICES ASSUME NEW q \in Position \ ListField
                 PROVE  invalids'[q] > 0 <=>
                            \E c \in PartsOf[q] \cap Mandatory : state'[c] = "null"
    BY DEF Counted
  <1>3. PartsOf[q] \subseteq Field /\ PartsOf[q] \subseteq Position
            /\ \A c \in Part : c \in PartsOf[q] <=> ParentOf[c] = q
    BY Parts, Kinds, Composition
  <1>4. invalids[q] > 0 <=> \E c \in PartsOf[q] \cap Mandatory : state[c] = "null"
    BY DEF Counted
  <1>5. CASE s = "null" /\ p \in Mandatory /\ p \in PartsOf[q]
    <2>1. invalids'[q] = invalids[q] + 1
      BY <1>1, <1>3, <1>5, Kinds DEF Step, Counts
    <2>2. invalids'[q] > 0
      BY <1>1, <2>1
    <2>3. state'[p] = "null"
      BY <1>1, <1>5
    <2>4. QED
      BY <1>5, <2>2, <2>3
  <1>6. CASE ~(s = "null" /\ p \in Mandatory /\ p \in PartsOf[q])
    <2>1. invalids'[q] = invalids[q]
      BY <1>1, <1>3, <1>6, Kinds, Lineage DEF Step, Counts
    <2>2. \A c \in PartsOf[q] \cap Mandatory : state'[c] = "null" <=> state[c] = "null"
      BY <1>1, <1>3, <1>6 DEF Done
    <2>3. QED
      BY <1>4, <2>1, <2>2
  <1>7. QED
    BY <1>5, <1>6

LEMMA ReportedKept ==
  ASSUME TypeOK, Nesting, ListNesting, Reported,
         NEW p \in Position, NEW s \in Stage, Step(p, s)
  PROVE  Reported'
  <1>1. state' = [state EXCEPT ![p] = s] /\ ~Done(p) /\ state \in [Position -> Stage]
            /\ Progress(p, s)
    BY DEF Step, Progress, TypeOK
  <1>2. errors \subseteq errors' /\ errors \subseteq Position
    BY Kinds DEF Step, Reports, TypeOK
  <1>3. \A q \in Above[p] : q # p /\ q \in Position /\ state[q] = "completing"
            /\ state'[q] = "completing"
    BY <1>1, AncestorsWait, Ancestors
  <1>4. ASSUME NEW e \in errors'
        PROVE  \E b \in Position : /\ e \in Under[b] /\ state'[b] = "null"
                                   /\ \A q \in Above[b] : state'[q] # "null"
    <2>1. CASE s = "null" /\ e \in Under[p]
      BY <1>1, <1>3, <2>1
    <2>2. CASE ~(s = "null" /\ e \in Under[p])
      <3>1. e \in errors
        BY <2>2, Ancestors DEF Step, Reports
      <3>2. PICK b \in Position : /\ e \in Under[b] /\ state[b] = "null"
                                  /\ \A q \in Above[b] : state[q] # "null"
        BY <3>1 DEF Reported
      <3>3. state'[b] = "null"
        BY <1>1, <3>2 DEF Done
      <3>4. s = "null" => p \notin Above[b]
        BY <2>2, <3>2, Inside
      <3>5. \A q \in Above[b] : state'[q] # "null"
        BY <1>1, <3>2, <3>4, Ancestors
      <3>6. QED
        BY <3>2, <3>3, <3>5
    <2>3. QED
      BY <2>1, <2>2
  <1>5. ASSUME NEW q \in Mandatory \cup Operation, state'[q] = "null"
        PROVE  \E e \in errors' : e \in Under[q]
    <2>1. q \in Position
      BY Kinds
    <2>2. CASE q = p
      <3>1. s = "null"
        BY <1>1, <1>5, <2>2
      <3>2. CASE p \in errors'
        BY <2>2, <3>2, Ancestors
      <3>3. CASE p \notin errors'
        <4>1. PICK c \in PartsOf[p] \cap Mandatory : state[c] = "null"
          BY <1>5, <2>2, <3>1, <3>3 DEF Step, Reports
        <4>2. PICK e \in errors : e \in Under[c]
          BY <4>1 DEF Reported
        <4>3. Under[c] \subseteq Under[p]
          BY <4>1, Parts, Kinds, Inside
        <4>4. QED
          BY <1>2, <2>2, <4>2, <4>3
      <3>4. QED
        BY <3>2, <3>3
    <2>3. CASE q # p
      BY <1>1, <1>2, <1>5, <2>1, <2>3 DEF Reported
    <2>4. QED
      BY <2>2, <2>3
  <1>6. QED
    BY <1>4, <1>5 DEF Reported

LEMMA TypeKept ==
  ASSUME TypeOK, NEW p \in Position, NEW s \in Stage, Step(p, s), administered' \subseteq Administrable
  PROVE  TypeOK'
  <1>1. operation' \in Operation /\ state' \in [Position -> Stage]
    BY DEF TypeOK, Step, Progress
  <1>2. present' \in [ListField -> SUBSET Part]
    BY Parts DEF TypeOK, Step, Returns
  <1>3. invalids' \in [Position -> Nat]
    <2>1. CASE s = "null" /\ p \in Mandatory \cap Field
      <3>1. ParentOf[p] \in Position
        BY <2>1, Lineage, Kinds
      <3>2. invalids' = [invalids EXCEPT ![ParentOf[p]] = @ + 1]
        BY <2>1 DEF Step, Counts
      <3>3. QED
        BY <3>1, <3>2 DEF TypeOK
    <2>2. CASE ~(s = "null" /\ p \in Mandatory \cap Field)
      BY <2>2 DEF TypeOK, Step, Counts
    <2>3. QED
      BY <2>1, <2>2
  <1>4. errors' \subseteq Part
    BY DEF TypeOK, Step, Reports
  <1>5. QED
    BY <1>1, <1>2, <1>3, <1>4 DEF TypeOK

LEMMA AdminKept == ASSUME TypeOK, Next PROVE administered' \subseteq Administrable
  BY DEF TypeOK, Next, Begin, BadArguments, Authorize, Handover, ReturnNil, ReturnError,
         Panic, ReturnValue, CompleteObject, CompleteList

LEMMA InvInit == Init => IInv
  <1> SUFFICES ASSUME Init PROVE IInv
    OBVIOUS
  <1>1. /\ operation \in Operation /\ operation \in Position
        /\ state \in [Position -> {"waiting", "completing"}]
        /\ \A p \in Position : state[p] = IF p = operation THEN "completing" ELSE "waiting"
    BY Kinds DEF Init
  <1>2. TypeOK
    <2>1. administered \subseteq Administrable
      BY DEF Init, Administrable
    <2>2. QED
      BY <1>1, <2>1 DEF Init, TypeOK, Stage
  <1>3. Nesting
    <2>1. Above[operation] = {} /\ operation \in Under[operation]
      BY <1>1, Ancestors
    <2>2. QED
      BY <1>1, <2>1 DEF Nesting
  <1>4. Ordered
    BY <1>1, Kinds DEF Ordered
  <1>5. ListNesting
    <2>1. ASSUME NEW f \in ListField
          PROVE  state[f] = "waiting" /\ \A e \in PartsOf[f] : state[e] = "waiting"
      BY <1>1, Kinds, Parts
    <2>2. QED
      BY <2>1 DEF ListNesting, Init, Done
  <1>6. Complete
    BY <1>1 DEF Complete
  <1>7. Counted
    <2>1. \A p \in Position : \A c \in PartsOf[p] : c \in Position
      BY Parts, Kinds
    <2>2. QED
      BY <1>1, <2>1 DEF Counted, Init
  <1>8. Reported
    BY <1>1, Kinds DEF Reported, Init
  <1>9. QED
    BY <1>2, <1>3, <1>4, <1>5, <1>6, <1>7, <1>8 DEF IInv

LEMMA InvNext == IInv /\ [Next]_vars => IInv'
  <1> SUFFICES ASSUME IInv, [Next]_vars PROVE IInv'
    OBVIOUS
  <1>1. CASE Next
    <2>1. PICK p \in Position, s \in Stage : Step(p, s)
      BY <1>1, EveryStep
    <2>2. Progress(p, s)
      BY <2>1 DEF Step
    <2>3. TypeOK'
      BY <1>1, <2>1, AdminKept, TypeKept DEF IInv
    <2>4. Nesting' /\ Ordered'
      BY <2>2, NestingKept, OrderedKept DEF IInv
    <2>5. ListNesting' /\ Complete'
      BY <2>1, ListNestingKept, CompleteKept DEF IInv
    <2>6. Counted' /\ Reported'
      BY <2>1, CountedKept, ReportedKept DEF IInv
    <2>7. QED
      BY <2>3, <2>4, <2>5, <2>6 DEF IInv
  <1>2. CASE UNCHANGED vars
    BY <1>2 DEF IInv, vars, TypeOK, Nesting, Ordered, ListNesting, Complete, Counted,
                Reported, Done, Earlier
  <1>3. QED
    BY <1>1, <1>2

\* The inductive invariant of the execution: whatever is at work is inside of
\* what waits for it, data is complete, and every failure is on record.
THEOREM Inductive == Spec => []IInv
  BY InvInit, InvNext, PTL DEF Spec

-----------------------------------------------------------------------------
(***************************************************************************)
(* A mutation runs one field after the other.                              *)
(***************************************************************************)

\* What is at work in an operation belongs to one of its fields.
LEMMA RootField ==
  ASSUME IInv, NEW f \in Field, state[f] # "waiting"
  PROVE  \E h \in Field : /\ ParentOf[h] = operation /\ state[h] # "waiting"
                          /\ h = f \/ h \in Above[f]
  <1>1. f \in Position /\ operation \in Position /\ f # operation /\ f \in Under[operation]
            /\ operation \in Operation
    BY Kinds DEF IInv, TypeOK, Nesting
  <1>2. operation \in Above[f]
    BY <1>1, Ancestors
  <1>3. PICK h \in PartsOf[operation] : h = f \/ h \in Above[f]
    BY <1>1, <1>2, Ancestors
  <1>4. h \in Field /\ ParentOf[h] = operation
    BY <1>1, <1>3, Parts, Composition, Kinds
  <1>5. state[h] # "waiting"
    BY <1>1, <1>3 DEF IInv, Nesting, Done
  <1>6. QED
    BY <1>3, <1>4, <1>5

\* No other resolver is at work when one returns that hands the showing over.
LEMMA HandsOverAlone ==
  ASSUME IInv, NEW g \in HandoverField, state[g] = "resolving",
         NEW f \in Field, state[f] = "resolving"
  PROVE  f = g
  <1>1. g \in Field /\ g \in Position /\ f \in Position /\ Coordinate[g][1] = "Mutation"
    BY Kinds DEF HandoverField
  <1>2. PICK h \in Field : /\ ParentOf[h] = operation /\ state[h] # "waiting"
                           /\ h = f \/ h \in Above[f]
    BY RootField
  <1>3. PICK k \in Field : /\ ParentOf[k] = operation /\ state[k] # "waiting"
                           /\ k = g \/ k \in Above[g]
    BY <1>1, RootField
  <1>4. ParentOf[g] \in Operation /\ operation \in Operation
    BY <1>1, SchemaAssumption DEF IInv, TypeOK
  <1>5. Above[g] = {ParentOf[g]} /\ k = g
    <2>1. Above[ParentOf[g]] = {} /\ ParentOf[g] \in Position
      BY <1>4, Kinds, Ancestors
    <2>2. Above[g] = {ParentOf[g]}
      BY <1>1, <2>1, Lineage, Ancestors, Kinds
    <2>3. QED
      BY <1>3, <1>4, <2>2, Kinds
  <1>6. CASE h = g
    BY <1>1, <1>2, <1>6 DEF IInv, Nesting, Done
  <1>7. CASE h # g
    <2>1. Coordinate[h][1] = "Mutation" /\ Index[h] # Index[g]
      BY <1>1, <1>2, <1>3, <1>5, <1>7, SchemaAssumption
    <2>2. Index[g] \in Nat /\ Index[h] \in Nat
      BY <1>1, SchemaAssumption
    <2>3. g \notin DelayedField /\ h \notin DelayedField
      BY <1>1, <2>1 DEF DelayedField, Delayed
    <2>4. CASE Index[h] < Index[g]
      <3>1. Done(h)
        BY <1>1, <1>2, <1>3, <1>5, <2>3, <2>4 DEF IInv, Ordered, Earlier
      <3>2. QED
        BY <1>1, <1>2, <3>1 DEF IInv, Nesting, Done
    <2>5. CASE Index[g] < Index[h]
      <3>1. Done(g)
        BY <1>1, <1>2, <1>3, <1>5, <2>3, <2>5 DEF IInv, Ordered, Earlier
      <3>2. QED
        BY <3>1 DEF Done
    <2>6. QED
      BY <2>1, <2>2, <2>4, <2>5
  <1>8. QED
    BY <1>6, <1>7

LEMMA NoticedNext == IInv /\ HandoverNoticed /\ [Next]_vars => HandoverNoticed'
  <1> SUFFICES ASSUME IInv, HandoverNoticed, [Next]_vars PROVE HandoverNoticed'
    OBVIOUS
  <1>1. CASE UNCHANGED vars
    BY <1>1 DEF vars, HandoverNoticed
  <1>2. CASE Next
    <2> SUFFICES ASSUME NEW f \in GuardedField, state'[f] = "resolving"
                 PROVE  ShowingOf[f] \in administered'
      BY DEF HandoverNoticed
    <2>1. f \in Field /\ f \in Position /\ state \in [Position -> Stage]
      BY Kinds DEF IInv, TypeOK
    <2>2. ASSUME NEW p \in Part, Begin(p)
          PROVE  ShowingOf[f] \in administered'
      <3>1. state[f] = "resolving" /\ administered' = administered
        BY <2>1, <2>2, Kinds DEF Begin
      <3>2. QED
        BY <3>1 DEF HandoverNoticed
    <2>3. ASSUME NEW g \in Field, BadArguments(g)
          PROVE  ShowingOf[f] \in administered'
      <3>1. state[f] = "resolving" /\ administered' = administered
        BY <2>1, <2>3, Kinds DEF BadArguments, Fail, Finish
      <3>2. QED
        BY <3>1 DEF HandoverNoticed
    <2>4. ASSUME NEW g \in Field, Authorize(g)
          PROVE  ShowingOf[f] \in administered'
      <3>1. administered' = administered
        BY <2>4 DEF Authorize
      <3>2. CASE f = g
        BY <2>1, <2>4, <3>1, <3>2 DEF Authorize, Fail, Finish
      <3>3. CASE f # g
        <4>1. state[f] = "resolving"
          BY <2>1, <2>4, <3>3, Kinds DEF Authorize, Fail, Finish
        <4>2. QED
          BY <3>1, <4>1 DEF HandoverNoticed
      <3>4. QED
        BY <3>2, <3>3
    <2>5. ASSUME NEW g \in Field,
                 ReturnNil(g) \/ ReturnError(g) \/ Panic(g) \/ ReturnValue(g)
          PROVE  ShowingOf[f] \in administered'
      <3>1. /\ state[g] = "resolving" /\ Handover(g)
            /\ \E s \in {"completing", "data", "null"} : state' = [state EXCEPT ![g] = s]
        BY <2>5 DEF ReturnNil, ReturnError, Panic, ReturnValue, Fail, Finish
      <3>2. f # g /\ state[f] = "resolving"
        BY <2>1, <3>1, Kinds
      <3>3. g \notin HandoverField
        BY <2>1, <3>1, <3>2, HandsOverAlone
      <3>4. QED
        BY <3>1, <3>2, <3>3 DEF Handover, HandoverNoticed
    <2>6. ASSUME NEW p \in Position, CompleteObject(p) \/ CompleteList(p)
          PROVE  ShowingOf[f] \in administered'
      <3>1. /\ administered' = administered
            /\ \E s \in {"data", "null"} : state' = [state EXCEPT ![p] = s]
        BY <2>6 DEF CompleteObject, CompleteList, Finish
      <3>2. state[f] = "resolving"
        BY <2>1, <3>1
      <3>3. QED
        BY <3>1, <3>2 DEF HandoverNoticed
    <2>7. QED
      BY <1>2, <2>2, <2>3, <2>4, <2>5, <2>6 DEF Next
  <1>3. QED
    BY <1>1, <1>2

\* After a handover or a deletion no guarded resolver of the same mutation
\* runs, those of the fields of what it returned included.
THEOREM FormerAdminRefused == Spec => []HandoverNoticed
  <1>1. Init => HandoverNoticed
    BY Kinds DEF Init, HandoverNoticed
  <1>2. QED
    BY <1>1, NoticedNext, Inductive, PTL DEF Spec

\* The types of the variables, part of the invariant.
THEOREM TypeCorrect == Spec => []TypeOK
  <1>1. IInv => TypeOK
    BY DEF IInv
  <1>2. QED
    BY <1>1, Inductive, PTL

-----------------------------------------------------------------------------
(***************************************************************************)
(* The answer is a response.                                               *)
(***************************************************************************)

\* Nothing is at work once the operation is done.
LEMMA AllDone ==
  ASSUME IInv, Done(operation), NEW q \in Position, state[q] # "waiting"
  PROVE  Done(q) /\ (q \in Operation => q = operation)
  <1>1. q \in Under[operation] /\ operation \in Position /\ operation \in Operation
    BY Kinds DEF IInv, TypeOK, Nesting
  <1>2. q \in Operation => q = operation
    BY <1>1, TreeAssumption
  <1>3. q = operation \/ operation \in Above[q]
    BY <1>1, Ancestors
  <1>4. Done(q)
    BY <1>1, <1>3 DEF IInv, Nesting, Done
  <1>5. QED
    BY <1>2, <1>4

LEMMA NothingAfter == IInv /\ Done(operation) => ~Next
  <1> SUFFICES ASSUME IInv, Done(operation), Next PROVE FALSE
    OBVIOUS
  <1>1. PICK p \in Position, s \in Stage : Progress(p, s)
    BY EveryStep DEF Step
  <1>2. CASE state[p] = "waiting"
    <2>1. ParentOf[p] \in Position /\ state[ParentOf[p]] = "completing"
      BY <1>1, <1>2, Lineage DEF Progress, Turn
    <2>2. QED
      BY <2>1, AllDone DEF Done
  <1>3. CASE state[p] # "waiting"
    BY <1>1, <1>3, AllDone DEF Progress
  <1>4. QED
    BY <1>2, <1>3

\* A part of an object or a list that is shown is visible.
LEMMA VisibleParts ==
  ASSUME NEW p \in Position, Visible(p), state[p] = "data", NEW c \in PartsOf[p], Done(c)
  PROVE  Visible(c)
  <1>1. c \in Part /\ ParentOf[c] = p
    BY Parts
  <1>2. \A q \in Above[c] : q = p \/ q \in Above[p]
    BY <1>1, Lineage, Ancestors
  <1>3. QED
    BY <1>2 DEF Visible

LEMMA AnswerValid == ASSUME IInv, Done(operation) PROVE R!Valid(answer)
  <1>1. /\ answer.data = {p \in Position : Visible(p) /\ state[p] = "data"}
        /\ answer.null = {p \in Position : Visible(p) /\ state[p] = "null"}
        /\ answer.errors = errors
    BY DEF answer
  <1>2. operation \in Position /\ operation \in Operation
    BY Kinds DEF IInv, TypeOK
  <1>3. R!Nested(answer)
    <2>1. operation \in answer.data \cup answer.null
      BY <1>1, <1>2, Ancestors DEF Visible, Done
    <2>2. answer.data \cap answer.null = {}
      BY <1>1
    <2>3. ASSUME NEW p \in answer.data \cup answer.null, p # operation
          PROVE  ParentOf[p] \in answer.data
      <3>1. p \in Position /\ Visible(p) /\ state[p] # "waiting"
        BY <1>1, <2>3 DEF Done, Visible
      <3>2. p \in Part
        BY <2>3, <3>1, AllDone, Kinds
      <3>3. ParentOf[p] \in Position /\ ParentOf[p] \in Above[p]
                /\ \A q \in Above[ParentOf[p]] : q \in Above[p]
        BY <3>2, Lineage, Ancestors
      <3>4. state[ParentOf[p]] = "data" /\ Visible(ParentOf[p])
        BY <3>1, <3>3 DEF Visible, Done
      <3>5. QED
        BY <1>1, <3>3, <3>4
    <2>4. QED
      BY <2>1, <2>2, <2>3 DEF R!Nested
  <1>4. R!Whole(answer)
    <2>1. ASSUME NEW p \in answer.data, NEW f \in PartsOf[p] \cap Field
          PROVE  f \in answer.data \cup answer.null
      <3>1. p \in Position /\ Visible(p) /\ state[p] = "data"
        BY <1>1
      <3>2. p \notin ListField /\ f \in Position
        BY <2>1, <3>1, Composition, Parts, Kinds
      <3>3. Done(f)
        BY <2>1, <3>1, <3>2 DEF IInv, Complete
      <3>4. Visible(f)
        BY <2>1, <3>1, <3>3, VisibleParts
      <3>5. QED
        BY <1>1, <3>2, <3>3, <3>4 DEF Done
    <2>2. \A p \in answer.data : [q \in Position |-> PartsOf[q] \cap Field][p] = PartsOf[p] \cap Field
      BY <1>1
    <2>3. QED
      BY <2>1, <2>2 DEF R!Whole
  <1>5. R!Wellformed(answer)
    <2>1. SUFFICES ASSUME NEW p \in Mandatory, p \in answer.null
                   PROVE  FALSE
      BY DEF R!Wellformed
    <2>2. p \in Part /\ p \in Position /\ Visible(p) /\ state[p] = "null"
      BY <1>1, <2>1, Kinds
    <2>3. ParentOf[p] \in Position /\ ParentOf[p] \in Above[p] /\ p \in PartsOf[ParentOf[p]]
      BY <2>2, Lineage
    <2>4. QED
      BY <2>1, <2>2, <2>3 DEF IInv, Complete, Visible
  <1>6. R!Honest(answer)
    <2>1. SUFFICES ASSUME NEW e \in errors
                   PROVE  \E p \in answer.null : e \in Under[p]
      BY <1>1 DEF R!Honest
    <2>2. PICK b \in Position : /\ e \in Under[b] /\ state[b] = "null"
                                /\ \A q \in Above[b] : state[q] # "null"
      BY DEF IInv, Reported
    <2>3. ASSUME NEW q \in Above[b]
          PROVE  state[q] = "data"
      <3>1. q \in Position /\ state[q] # "waiting"
        BY <2>2, Ancestors DEF IInv, Nesting, Done
      <3>2. Done(q)
        BY <3>1, AllDone
      <3>3. QED
        BY <2>2, <3>2 DEF Done
    <2>4. Visible(b)
      BY <2>2, <2>3 DEF Visible, Done
    <2>5. QED
      BY <1>1, <2>2, <2>4
  <1>7. R!Explained(answer)
    <2>1. operation \in answer.null => \E e \in errors : e \in Under[operation]
      BY <1>1, <1>2 DEF IInv, Reported
    <2>2. QED
      BY <1>1, <2>1 DEF R!Explained
  <1>8. QED
    BY <1>3, <1>4, <1>5, <1>6, <1>7 DEF R!Valid

LEMMA AnswerTyped == ASSUME TypeOK PROVE answer \in R!Answer
  <1>1. errors \subseteq Position
    BY Kinds DEF TypeOK
  <1>2. QED
    BY <1>1 DEF answer, R!Answer

LEMMA AnswerTypedValid ==
  (IInv /\ Done(operation) => R!Valid(answer) /\ answer \in R!Answer)'
  <1>1. IInv /\ Done(operation) => R!Valid(answer) /\ answer \in R!Answer
    BY AnswerValid, AnswerTyped DEF IInv
  <1>2. QED
    BY <1>1, PTL

LEMMA ResponseStep == IInv /\ IInv' /\ [Next]_vars => [R!Respond]_<<operation, answer>>
  <1> SUFFICES ASSUME IInv, IInv', [Next]_vars
               PROVE  [R!Respond]_<<operation, answer>>
    OBVIOUS
  <1>1. CASE UNCHANGED vars
    <2>1. answer' = answer
      BY <1>1 DEF vars, answer, Visible, Done
    <2>2. QED
      BY <1>1, <2>1 DEF vars
  <1>2. CASE Next
    <2>1. ~Done(operation)
      BY <1>2, NothingAfter
    <2>2. operation' = operation
      BY <1>2, EveryStep DEF Step, Progress
    <2>3. answer = R!Pending
      BY <2>1 DEF answer, R!Pending
    <2>4. CASE Done(operation)'
      <3>1. R!Valid(answer)' /\ (answer \in R!Answer)'
        BY <2>4, AnswerTypedValid
      <3>2. QED
        BY <2>2, <2>3, <3>1 DEF R!Respond, R!Valid, R!Nested, R!Whole, R!Wellformed, R!Honest,
            R!Explained, R!Answer
    <2>5. CASE ~Done(operation)'
      BY <2>1, <2>2, <2>5 DEF answer
    <2>6. QED
      BY <2>4, <2>5
  <1>3. QED
    BY <1>1, <1>2

\* Whatever the resolvers do and in whatever order, the response is one that
\* a GraphQL client may rely on, and there is one.
THEOREM ExecutionImplementsResponse == Spec => ImplementsResponse
  <1>1. Init => R!Init
    BY DEF Init, R!Init, answer, R!Pending, Done
  <1>2. QED
    BY <1>1, ResponseStep, Inductive, PTL DEF Spec, ImplementsResponse, R!Spec

-----------------------------------------------------------------------------
(***************************************************************************)
(* Nobody is stuck: of the positions that wait for others a lowest one     *)
(* waits for parts that have yet to begin, and the first of them may.      *)
(***************************************************************************)
\* One of finitely many sets has no other below it.
LEMMA Least ==
  ASSUME NEW Base, IsFiniteSet(Base), NEW T, T # {}, NEW F, \A t \in T : F[t] \in SUBSET Base
  PROVE  \E t \in T : \A u \in T : ~(F[u] \subseteq F[t] /\ F[u] # F[t])
  <1> DEFINE Image == {F[t] : t \in T}
  <1>1. IsWellFoundedOn(StrictSubsetOrdering(Base), SUBSET Base)
    BY FS_StrictSubsetOrderingWellFounded, FS_FiniteSubsetsOfFinite
  <1>2. Image \subseteq SUBSET Base /\ Image # {}
    OBVIOUS
  <1>3. PICK low \in Image : \A other \in Image : <<other, low>> \notin StrictSubsetOrdering(Base)
    <2> HIDE DEF Image
    <2> QED
      BY <1>1, <1>2, WFMin
  <1>4. PICK t \in T : low = F[t]
    OBVIOUS
  <1>5. ASSUME NEW u \in T, F[u] \subseteq F[t], F[u] # F[t]
        PROVE  FALSE
    <2>1. <<F[u], low>> \notin StrictSubsetOrdering(Base)
      BY <1>3
    <2> QED
      BY <1>4, <1>5, <2>1 DEF StrictSubsetOrdering
  <1> QED
    BY <1>5

\* The operation has begun, and only fields have resolvers.
Underway ==
  /\ state[operation] # "waiting"
  /\ \A p \in Operation \cup Element : state[p] \notin {"auth", "resolving"}

LEMMA UnderwayNext == IInv /\ Underway /\ [Next]_vars => Underway'
  <1> SUFFICES ASSUME IInv, Underway, [Next]_vars PROVE Underway'
    OBVIOUS
  <1>1. CASE UNCHANGED vars
    BY <1>1 DEF vars, Underway
  <1>2. ASSUME UNCHANGED operation,
               NEW p \in Position, NEW s, state' = [state EXCEPT ![p] = s], s # "waiting",
               p \in Field \/ s \notin {"auth", "resolving"}
        PROVE  Underway'
    BY <1>2, Kinds DEF Underway, IInv, TypeOK
  <1>3. ASSUME NEW p \in Part, Begin(p) PROVE Underway'
    <2> DEFINE s == IF p \in Element THEN "completing"
                    ELSE IF p \in GuardedField THEN "auth" ELSE "resolving"
    <2>1. /\ UNCHANGED operation /\ state' = [state EXCEPT ![p] = s]
          /\ p \in Position /\ s # "waiting"
          /\ p \in Field \/ s \notin {"auth", "resolving"}
      BY <1>3, Kinds DEF Begin
    <2> HIDE DEF s
    <2> QED
      BY <1>2, <2>1
  <1>4. ASSUME NEW f \in Field,
               \/ BadArguments(f) \/ Authorize(f)
               \/ ReturnNil(f) \/ ReturnError(f) \/ Panic(f) \/ ReturnValue(f)
        PROVE  Underway'
    <2>1. /\ UNCHANGED operation
          /\ \E s : s # "waiting" /\ state' = [state EXCEPT ![f] = s]
      BY <1>4 DEF BadArguments, Authorize, ReturnNil, ReturnError, Panic, ReturnValue, Fail, Finish
    <2> QED
      BY <1>2, <2>1, Kinds
  <1>5. ASSUME NEW p \in Position, CompleteObject(p) \/ CompleteList(p) PROVE Underway'
    BY <1>2, <1>5 DEF CompleteObject, CompleteList, Finish
  <1> QED
    BY <1>1, <1>3, <1>4, <1>5 DEF Next

\* Of two positions one of which is above the other, the other has less below.
LEMMA LessBelow ==
  ASSUME NEW p \in Position, NEW q \in Position, p \in Above[q]
  PROVE  Under[q] \subseteq Under[p] /\ Under[q] # Under[p]
  <1>1. Under[q] \subseteq Under[p]
    BY Inside
  <1>2. PICK c \in PartsOf[p] : q = c \/ c \in Above[q]
    BY Ancestors
  <1>3. c \in Part /\ c \in Position /\ ParentOf[c] = p
    BY <1>2, Parts, Kinds
  <1>4. Under[q] \subseteq Under[c] /\ p \notin Under[c]
    BY <1>2, <1>3, Inside, TreeAssumption
  <1> QED
    BY <1>1, <1>4, TreeAssumption

\* The first of the fields of an object that are not done.
LEMMA FirstLeft ==
  ASSUME NEW p \in Position \ ListField, NEW g \in PartsOf[p], ~Done(g)
  PROVE  \E f \in PartsOf[p] : ~Done(f) /\ \A h \in Earlier[f] : Done(h)
  <1> DEFINE Left == {f \in PartsOf[p] : ~Done(f)}
  <1>1. IsFiniteSet(Field)
    BY TreeAssumption, Kinds, FS_Subset
  <1>2. Left \subseteq Field /\ g \in Left /\ \A f \in Left : ParentOf[f] = p
    BY Composition, Parts
  <1> HIDE DEF Left
  <1>3. \A f \in Left : Earlier[f] \in SUBSET Field
    BY <1>2 DEF Earlier
  <1>4. PICK f \in Left : \A h \in Left : ~(Earlier[h] \subseteq Earlier[f] /\ Earlier[h] # Earlier[f])
    BY <1>1, <1>2, <1>3, Least
  <1>5. ASSUME NEW h \in Earlier[f], ~Done(h)
        PROVE  FALSE
    <2>1. /\ h \in Field /\ ParentOf[h] = p /\ h \notin DelayedField
          /\ f \in DelayedField \/ Index[h] < Index[f]
      BY <1>2 DEF Earlier
    <2>2. h \in Left
      BY <1>5, <2>1, Parts, Kinds DEF Left
    <2>3. ASSUME NEW k \in Earlier[h]
          PROVE  k \in Earlier[f]
      <3>1. k \in Field /\ ParentOf[k] = p /\ k \notin DelayedField /\ Index[k] < Index[h]
        BY <2>1 DEF Earlier
      <3>2. Index[k] \in Nat /\ Index[h] \in Nat /\ Index[f] \in Nat
        BY <1>2, <2>1, <3>1, SchemaAssumption
      <3> QED
        BY <1>2, <2>1, <3>1, <3>2 DEF Earlier
    <2>4. h \notin Earlier[h]
      BY <2>1, SchemaAssumption DEF Earlier
    <2> QED
      BY <1>4, <2>2, <2>3, <2>4
  <1> QED
    BY <1>4, <1>5 DEF Left

\* Until the operation is done a position can take a step, however deep the
\* selection is and whatever its resolvers return.
THEOREM NobodyIsStuck == Spec => []NobodyStuck
  <1>1. ASSUME IInv, Underway PROVE NobodyStuck
    <2> SUFFICES ASSUME ~Done(operation), \A p \in Position : ~CanGoOn(p)
                 PROVE  FALSE
      BY DEF NobodyStuck
    <2> DEFINE Waiting == {p \in Position : state[p] = "completing"}
    <2>1. Waiting # {}
      BY <1>1, Kinds DEF IInv, TypeOK, Underway, Stage, Done
    <2>2. IsFiniteSet(Position) /\ \A p \in Waiting : Under[p] \in SUBSET Position
      BY TreeAssumption
    <2>3. PICK p \in Waiting : \A q \in Waiting : ~(Under[q] \subseteq Under[p] /\ Under[q] # Under[p])
      <3> HIDE DEF Waiting
      <3> QED
        BY <2>1, <2>2, Least
    <2>4. ASSUME NEW c \in PartsOf[p] PROVE c \in Position /\ state[c] # "completing"
      BY <2>3, <2>4, Parts, Kinds, LessBelow
    <2>5. CASE p \in ListField
      <3>1. PICK c \in present[p] : ~Done(c)
        BY <2>5 DEF CanGoOn
      <3>2. c \in PartsOf[p] /\ c \in Element /\ ParentOf[c] = p
        BY <1>1, <2>5, <3>1, Composition, Parts DEF IInv, ListNesting
      <3>3. state[c] = "waiting"
        BY <1>1, <2>4, <3>1, <3>2 DEF IInv, TypeOK, Stage, Underway, Done
      <3> QED
        BY <3>1, <3>2, <3>3, <2>4, Kinds DEF CanGoOn, Turn
    <2>6. CASE p \notin ListField
      <3>1. PICK g \in PartsOf[p] : ~Done(g)
        BY <2>6 DEF CanGoOn
      <3>2. PICK f \in PartsOf[p] : ~Done(f) /\ \A h \in Earlier[f] : Done(h)
        BY <2>6, <3>1, FirstLeft
      <3>3. f \in Field /\ ParentOf[f] = p
        BY <2>6, Composition, Parts
      <3>4. state[f] = "waiting"
        BY <1>1, <2>4, <3>2, <3>3 DEF IInv, TypeOK, Stage, Done, CanGoOn
      <3> QED
        BY <2>4, <3>2, <3>3, <3>4, Kinds DEF CanGoOn, Turn
    <2> QED
      BY <2>5, <2>6
  <1>2. Init => Underway
    BY Kinds DEF Init, Underway
  <1> QED
    BY <1>1, <1>2, UnderwayNext, Inductive, PTL DEF Spec

-----------------------------------------------------------------------------
\* The mutations of one operation do not run beside each other.
InSeries ==
    \A f, g \in Field :
        /\ ParentOf[f] \in Operation /\ ParentOf[g] = ParentOf[f]
        /\ Coordinate[f][1] = "Mutation"
        /\ state[f] # "waiting" /\ ~Done(f)
        /\ state[g] # "waiting" /\ ~Done(g)
        => f = g

\* A mutation begins when those before it are done, with everything below
\* them (Nesting): a client may rely on their order.
THEOREM MutationsRunInSeries == Spec => []InSeries
  <1>1. ASSUME IInv PROVE InSeries
    <2> SUFFICES ASSUME NEW f \in Field, NEW g \in Field,
                        ParentOf[g] = ParentOf[f], Coordinate[f][1] = "Mutation",
                        state[f] # "waiting", ~Done(f), state[g] # "waiting", ~Done(g),
                        f # g
                 PROVE  FALSE
      BY DEF InSeries
    <2>1. /\ Coordinate[g][1] = "Mutation"
          /\ Index[f] \in Nat /\ Index[g] \in Nat /\ Index[f] # Index[g]
      BY SchemaAssumption
    <2>2. f \notin DelayedField /\ g \notin DelayedField
      BY <2>1 DEF DelayedField, Delayed
    <2>3. g \in Earlier[f] \/ f \in Earlier[g]
      BY <2>1, <2>2 DEF Earlier
    <2> QED
      BY <1>1, <2>3 DEF IInv, Ordered
  <1> QED
    BY <1>1, Inductive, PTL
=============================================================================
