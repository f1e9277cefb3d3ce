---------------------- MODULE PublicUserLoaderProofs ----------------------
(***************************************************************************)
(* Proofs about PublicUserLoader, for every number of resolvers, ids and   *)
(* batches and every limit: its inductive invariant, that the keys of a    *)
(* batch are frozen while they are fetched, and that it implements         *)
(* PublicUsers.                                                            *)
(***************************************************************************)
EXTENDS PublicUserLoader, TLAPS

-----------------------------------------------------------------------------
(***************************************************************************)
(* Rows of a batch.                                                        *)
(***************************************************************************)
LEMMA NewBatchTyped == NewBatch \in BatchRow
  BY DEF NewBatch, BatchRow

LEMMA UsersTyped == \A k \in Key : UserOf(k) \subseteq User
  BY DEF User

\* Joining a batch keeps its keys where they are and puts the key somewhere.
LEMMA Joined ==
  ASSUME NEW row \in BatchRow, NEW k \in Key
  PROVE  LET new == KeyIndex(row, k)
             pos == Position(new, k)
         IN  /\ new \in BatchRow
             /\ pos \in 1..Len(new.keys) /\ new.keys[pos] = k
             /\ Len(row.keys) <= Len(new.keys)
             /\ \A i \in 1..Len(row.keys) : new.keys[i] = row.keys[i]
             /\ new.done = row.done /\ new.failed = row.failed /\ new.data = row.data
<1> DEFINE new == KeyIndex(row, k)
<1>1. CASE Contains(row, k)
  <2>1. new = row
    BY <1>1 DEF KeyIndex
  <2>2. \E i \in 1..Len(row.keys) : row.keys[i] = k
    BY <1>1 DEF Contains
  <2>3. Position(row, k) \in 1..Len(row.keys) /\ row.keys[Position(row, k)] = k
    BY <2>2 DEF Position
  <2>4. Len(row.keys) \in Nat
    BY DEF BatchRow
  <2>5. QED
    BY <2>1, <2>3, <2>4
<1>2. CASE ~Contains(row, k)
  <2>1. /\ new.keys = Append(row.keys, k)
        /\ new.done = row.done /\ new.failed = row.failed /\ new.data = row.data
    BY <1>2 DEF KeyIndex, BatchRow
  <2>2. new \in BatchRow
    <3>1. Append(row.keys, k) \in Seq(Key) /\ row.ending + 1 \in Nat
      BY DEF BatchRow
    <3>2. (row.closing \/ Fills(row)) \in BOOLEAN
      BY DEF Fills
    <3>3. PICK a \in BOOLEAN, c \in BOOLEAN, e \in Nat :
            new = [row EXCEPT !.keys = Append(row.keys, k), !.asleep = a,
                              !.closing = c, !.ending = e]
      <4>1. (IF row.keys = <<>> THEN TRUE ELSE row.asleep) \in BOOLEAN
        BY DEF BatchRow
      <4>2. (IF Fills(row) /\ ~row.closing THEN row.ending + 1 ELSE row.ending) \in Nat
        BY <3>1 DEF BatchRow
      <4>3. QED
        BY <1>2, <3>2, <4>1, <4>2 DEF KeyIndex
    <3>4. QED
      BY <3>1, <3>3 DEF BatchRow
  <2>3. /\ Len(new.keys) = Len(row.keys) + 1
        /\ new.keys[Len(row.keys) + 1] = k
        /\ \A i \in 1..Len(row.keys) : new.keys[i] = row.keys[i]
    BY <2>1 DEF BatchRow
  <2>4. \E i \in 1..Len(new.keys) : new.keys[i] = k
    BY <2>3 DEF BatchRow
  <2>5. Position(new, k) \in 1..Len(new.keys) /\ new.keys[Position(new, k)] = k
    BY <2>4 DEF Position
  <2>6. QED
    BY <2>1, <2>2, <2>3, <2>5 DEF BatchRow
<1>3. QED
  BY <1>1, <1>2

\* The row a resolver joins: the current batch, or a new one.
JoinedRow(b) == IF current = NoBatch THEN NewBatch ELSE batches[b]

\* What LoadBatched does, with the batch and its row named.
LEMMA JoinsOne ==
  ASSUME TypeOK, NEW r \in Reader, NEW k \in Key, LoadBatched(r, k)
  PROVE  \E b \in Batch :
           /\ JoinedRow(b) \in BatchRow
           /\ IF current = NoBatch THEN Unreferenced(b) ELSE b = current
           /\ batches' = [batches EXCEPT ![b] = KeyIndex(JoinedRow(b), k)]
           /\ current' = BatchAfter(b, JoinedRow(b), k)
           /\ waiting' = [waiting EXCEPT ![r] =
                              [batch |-> b, pos |-> Position(KeyIndex(JoinedRow(b), k), k)]]
<1>1. \A b \in Batch : JoinedRow(b) \in BatchRow
  BY NewBatchTyped DEF TypeOK, JoinedRow
<1>2. QED
  BY <1>1 DEF LoadBatched, JoinedRow

\* What end does to the row of its batch.
LEMMA EndRow ==
  ASSUME TypeOK, NEW b \in Batch, End(b)
  PROVE  \/ batches' = [batches EXCEPT ![b] =
                [batches[b] EXCEPT !.ending = @ - 1, !.done = TRUE,
                                   !.data = Fetched(batches[b].keys)]]
         \/ batches' = [batches EXCEPT ![b] =
                [batches[b] EXCEPT !.ending = @ - 1, !.done = TRUE, !.failed = TRUE]]
  BY DEF End

-----------------------------------------------------------------------------
(***************************************************************************)
(* Types.                                                                  *)
(***************************************************************************)
LEMMA TypeInit == Init => TypeOK
  BY NewBatchTyped DEF Init, TypeOK

LEMMA TypeNext == TypeOK /\ Places /\ [Next]_vars => TypeOK'
<1> SUFFICES ASSUME TypeOK, Places, [Next]_vars PROVE TypeOK'
  OBVIOUS
<1>1. ASSUME NEW k \in Key, Change(k) PROVE TypeOK'
  <2>1. users' \in [Key -> User] /\ \A l \in Key : users'[l] \in UserOf(l)
    BY <1>1, UsersTyped DEF Change, TypeOK
  <2>2. \A r \in Reader : asked'[r] \in Asked \cup {NotAsked}
    <3> SUFFICES ASSUME NEW r \in Reader, asked[r] # NotAsked, asked[r].key = k
                 PROVE  asked'[r] \in Asked
      BY <1>1 DEF Change, TypeOK
    <3>1. asked[r] \in Asked /\ users'[k] \in User
      BY <2>1 DEF TypeOK
    <3>2. asked'[r] = [asked[r] EXCEPT !.seen = @ \cup {users'[k]}]
      BY <1>1 DEF Change
    <3>3. QED
      BY <3>1, <3>2 DEF Asked
  <2>3. asked' \in [Reader -> Asked \cup {NotAsked}]
    BY <1>1, <2>2 DEF Change
  <2>4. QED
    BY <1>1, <2>1, <2>3 DEF Change, TypeOK
<1>2. ASSUME NEW r \in Reader, NEW k \in Key, LoadCached(r, k) PROVE TypeOK'
  BY <1>2 DEF LoadCached, Tell, TypeOK
<1>3. ASSUME NEW r \in Reader, NEW k \in Key, LoadBatched(r, k) PROVE TypeOK'
  <2>1. PICK b \in Batch :
          /\ JoinedRow(b) \in BatchRow
          /\ IF current = NoBatch THEN Unreferenced(b) ELSE b = current
          /\ batches' = [batches EXCEPT ![b] = KeyIndex(JoinedRow(b), k)]
          /\ current' = BatchAfter(b, JoinedRow(b), k)
          /\ waiting' = [waiting EXCEPT ![r] =
                             [batch |-> b, pos |-> Position(KeyIndex(JoinedRow(b), k), k)]]
    BY <1>3, JoinsOne
  <2>2. /\ KeyIndex(JoinedRow(b), k) \in BatchRow
        /\ Position(KeyIndex(JoinedRow(b), k), k) \in 1..Len(KeyIndex(JoinedRow(b), k).keys)
    BY <2>1, Joined
  <2>3. Position(KeyIndex(JoinedRow(b), k), k) \in Nat \ {0}
    BY <2>2
  <2>4. batches' \in [Batch -> BatchRow]
    BY <2>1, <2>2 DEF TypeOK
  <2>5. waiting' \in [Reader -> Waiting \cup {NotAsked}]
    BY <2>1, <2>3 DEF TypeOK, Waiting
  <2>6. current' \in Batch \cup {NoBatch}
    BY <2>1 DEF BatchAfter
  <2>7. /\ asked' \in [Reader -> Asked \cup {NotAsked}]
        /\ UNCHANGED <<users, cache, told>>
    BY <1>3 DEF LoadBatched, TypeOK, Asked
  <2>8. QED
    BY <2>4, <2>5, <2>6, <2>7 DEF TypeOK
<1>4. ASSUME NEW b \in Batch, StartTimer(b) PROVE TypeOK'
  <2>1. batches[b] \in BatchRow /\ batches[b].ending + 1 \in Nat
    BY DEF TypeOK, BatchRow
  <2>2. /\ [batches[b] EXCEPT !.asleep = FALSE] \in BatchRow
        /\ [batches[b] EXCEPT !.asleep = FALSE, !.ending = @ + 1] \in BatchRow
    BY <2>1 DEF BatchRow
  <2>3. \/ batches' = [batches EXCEPT ![b] = [batches[b] EXCEPT !.asleep = FALSE]]
        \/ batches' = [batches EXCEPT ![b] = [batches[b] EXCEPT !.asleep = FALSE, !.ending = @ + 1]]
    BY <1>4 DEF StartTimer
  <2>4. batches' \in [Batch -> BatchRow]
    BY <2>2, <2>3 DEF TypeOK
  <2>5. QED
    BY <1>4, <2>4 DEF StartTimer, TypeOK, history
<1>5. ASSUME NEW b \in Batch, End(b) PROVE TypeOK'
  <2>1. batches[b] \in BatchRow /\ batches[b].ending - 1 \in Nat
    BY <1>5 DEF End, TypeOK, BatchRow
  <2>2. Fetched(batches[b].keys) \in Seq(User)
    BY <2>1 DEF Fetched, TypeOK, BatchRow
  <2>3. /\ [batches[b] EXCEPT !.ending = @ - 1, !.done = TRUE,
                             !.data = Fetched(batches[b].keys)] \in BatchRow
        /\ [batches[b] EXCEPT !.ending = @ - 1, !.done = TRUE, !.failed = TRUE] \in BatchRow
    BY <2>1, <2>2 DEF BatchRow
  <2>4. batches' \in [Batch -> BatchRow]
    BY <1>5, <2>3, EndRow DEF TypeOK
  <2>5. QED
    BY <1>5, <2>4 DEF End, TypeOK, history
<1>6. ASSUME NEW r \in Reader, Thunk(r) PROVE TypeOK'
  <2>1. /\ asked[r] \in Asked
        /\ waiting[r] \in Waiting /\ batches[waiting[r].batch] \in BatchRow
    BY <1>6 DEF Thunk, TypeOK, Places, Waiting
  <2>2. PICK u \in User :
          \/ UNCHANGED <<told, cache>>
          \/ Tell(asked[r].key, u) /\ cache' = [cache EXCEPT ![asked[r].key] = u]
    <3>1. ~batches[waiting[r].batch].failed =>
             batches[waiting[r].batch].data[waiting[r].pos] \in User
      <4>1. batches[waiting[r].batch].done /\ waiting[r] # NotAsked
        BY <1>6 DEF Thunk
      <4>2. /\ batches[waiting[r].batch].data \in Seq(User)
            /\ waiting[r].pos \in Nat \ {0}
        BY <2>1 DEF BatchRow, Waiting
      <4>3. ~batches[waiting[r].batch].failed =>
              waiting[r].pos <= Len(batches[waiting[r].batch].data)
        BY <4>1 DEF Places
      <4>4. QED
        BY <4>2, <4>3
    <3>2. users[asked[r].key] \in User
      BY <2>1 DEF TypeOK, Asked
    <3>3. QED
      BY <1>6, <2>1, <3>1, <3>2 DEF Thunk, Places
  <2>3. asked[r].key \in Key
    BY <2>1 DEF Asked
  <2>4. told' \in [Key -> SUBSET User] /\ cache' \in [Key -> User \cup {NotCached}]
    BY <2>2, <2>3 DEF Tell, TypeOK
  <2>5. QED
    BY <1>6, <2>4 DEF Thunk, TypeOK
<1>7. CASE UNCHANGED vars
  BY <1>7 DEF vars, TypeOK
<1>8. QED
  BY <1>1, <1>2, <1>3, <1>4, <1>5, <1>6, <1>7 DEF Next

-----------------------------------------------------------------------------
(***************************************************************************)
(* The inductive invariant.                                                *)
(***************************************************************************)
Distinct(row) ==
    \A i, j \in 1..Len(row.keys) : row.keys[i] = row.keys[j] => i = j

\* A row that may be joined.
Open(row) ==
    /\ ~row.closing /\ row.ending = 0 /\ ~row.done /\ ~row.failed
    /\ row.keys # <<>> => row.asleep
    /\ MaxBatch # 0 => Len(row.keys) < MaxBatch
    /\ Distinct(row)

\* After somebody joined it, a batch is either still open and the current
\* one, or it is full, is being ended, and is not the current one.
LEMMA JoinsOpen ==
  ASSUME NEW row \in BatchRow, Open(row), NEW k \in Key, NEW b \in Batch
  PROVE  LET new == KeyIndex(row, k) IN
         /\ new.asleep /\ new.keys # <<>> /\ ~new.done /\ ~new.failed
         /\ Distinct(new)
         /\ MaxBatch # 0 => Len(new.keys) <= MaxBatch
         /\ \/ /\ new.closing /\ new.ending = 1
               /\ BatchAfter(b, row, k) = NoBatch
            \/ /\ ~new.closing /\ new.ending = 0
               /\ MaxBatch # 0 => Len(new.keys) < MaxBatch
               /\ BatchAfter(b, row, k) = b
<1> DEFINE new == KeyIndex(row, k)
<1>1. CASE Contains(row, k)
  <2>1. new = row /\ BatchAfter(b, row, k) = b
    BY <1>1 DEF KeyIndex, BatchAfter
  <2>2. row.keys # <<>>
    BY <1>1 DEF Contains, BatchRow
  <2>3. Len(row.keys) \in Nat /\ MaxBatch \in Nat
    BY LoaderAssumption DEF BatchRow
  <2>4. QED
    BY <2>1, <2>2, <2>3 DEF Open
<1>2. CASE ~Contains(row, k)
  <2>1. /\ new.keys = Append(row.keys, k)
        /\ new.done = row.done /\ new.failed = row.failed
        /\ new.asleep = IF row.keys = <<>> THEN TRUE ELSE row.asleep
        /\ new.closing = (row.closing \/ Fills(row))
        /\ new.ending = IF Fills(row) /\ ~row.closing THEN row.ending + 1 ELSE row.ending
    BY <1>2 DEF KeyIndex, BatchRow
  <2>2. /\ Len(new.keys) = Len(row.keys) + 1 /\ Len(row.keys) \in Nat
        /\ new.keys[Len(row.keys) + 1] = k
        /\ \A i \in 1..Len(row.keys) : new.keys[i] = row.keys[i]
    BY <2>1 DEF BatchRow
  <2>3. Distinct(new)
    <3>1. \A i \in 1..Len(row.keys) : new.keys[i] # k
      BY <1>2, <2>2 DEF Contains
    <3>2. \A i, j \in 1..Len(row.keys) : row.keys[i] = row.keys[j] => i = j
      BY DEF Open, Distinct
    <3>3. \A i \in 1..Len(new.keys) : i \in 1..Len(row.keys) \/ i = Len(row.keys) + 1
      BY <2>2
    <3>4. QED
      BY <2>2, <3>1, <3>2, <3>3 DEF Distinct
  <2>4. new.keys # <<>>
    BY <2>2
  <2>5. new.asleep /\ ~new.done /\ ~new.failed
    BY <2>1 DEF Open
  <2>6. CASE Fills(row)
    <3>1. MaxBatch # 0 => Len(new.keys) <= MaxBatch
      BY <2>2, LoaderAssumption DEF Open
    <3>2. new.closing /\ new.ending = 1 /\ BatchAfter(b, row, k) = NoBatch
      <4>1. BatchAfter(b, row, k) = NoBatch
        BY <1>2, <2>6 DEF Open, BatchAfter
      <4>2. new.closing
        BY <2>1, <2>6
      <4>3. new.ending = row.ending + 1
        BY <2>1, <2>6 DEF Open
      <4>4. QED
        BY <4>1, <4>2, <4>3 DEF Open
    <3>3. QED
      BY <2>3, <2>4, <2>5, <3>1, <3>2
  <2>7. CASE ~Fills(row)
    <3>1. MaxBatch # 0 => Len(new.keys) < MaxBatch
      BY <2>2, <2>7, LoaderAssumption DEF Fills
    <3>2. ~new.closing /\ new.ending = 0 /\ BatchAfter(b, row, k) = b
      BY <2>1, <2>7 DEF Open, BatchAfter
    <3>3. QED
      BY <2>2, <2>3, <2>4, <2>5, <3>1, <3>2, LoaderAssumption
  <2>8. QED
    BY <2>6, <2>7
<1>3. QED
  BY <1>1, <1>2

LEMMA JoinedOpen ==
  ASSUME IInv, NEW b \in Batch, current # NoBatch => b = current
  PROVE  Open(JoinedRow(b))
<1>1. CASE current = NoBatch
  <2>1. JoinedRow(b) = NewBatch
    BY <1>1 DEF JoinedRow
  <2>2. QED
    BY <2>1, LoaderAssumption DEF NewBatch, Open, Distinct
<1>2. CASE current # NoBatch
  BY <1>2 DEF JoinedRow, IInv, CurrentOpen, Stages, WithinLimit, Open, Distinct
<1>3. QED
  BY <1>1, <1>2

LEMMA InitInv == Init => IInv
  BY TypeInit, LoaderAssumption DEF Init, IInv, EndedOnce, WithinLimit, NobodyForgotten,
     CurrentOpen, Stages, Places, CachedTold, NewBatch

LEMMA NextInv == IInv /\ [Next]_vars => IInv'
<1> SUFFICES ASSUME IInv, [Next]_vars PROVE IInv'
  OBVIOUS
<1> USE DEF IInv
<1>1. TypeOK'
  BY TypeNext
<1>2. ASSUME NEW k \in Key, Change(k) PROVE IInv'
  <2>1. Places'
    <3> SUFFICES ASSUME NEW r \in Reader
                 PROVE  /\ waiting[r] = NotAsked <=> asked'[r] = NotAsked
                        /\ waiting[r] # NotAsked =>
                              /\ asked'[r].key = asked[r].key
                              /\ asked[r].seen \subseteq asked'[r].seen
                              /\ users'[asked[r].key] \in asked'[r].seen
      BY <1>2 DEF Change, Places
    <3>1. CASE asked[r] # NotAsked /\ asked[r].key = k
      <4>1. asked[r] \in Asked
        BY <3>1 DEF TypeOK
      <4>2. asked'[r] = [asked[r] EXCEPT !.seen = @ \cup {users'[k]}]
        BY <1>2, <3>1 DEF Change
      <4>3. asked'[r] # NotAsked
        BY <1>1, <4>1, <4>2, LoaderAssumption DEF TypeOK, Asked
      <4>4. QED
        BY <3>1, <4>1, <4>2, <4>3 DEF Places, Asked
    <3>2. CASE ~(asked[r] # NotAsked /\ asked[r].key = k)
      <4>1. asked'[r] = asked[r]
        BY <1>2, <3>2 DEF Change
      <4>2. waiting[r] # NotAsked => users'[asked[r].key] = users[asked[r].key]
        BY <1>2, <3>2 DEF Change, Places, TypeOK, Asked
      <4>3. QED
        BY <4>1, <4>2 DEF Places
    <3>3. QED
      BY <3>1, <3>2
  <2>2. QED
    BY <1>1, <1>2, <2>1 DEF Change, EndedOnce, WithinLimit, NobodyForgotten, CurrentOpen,
       Stages, CachedTold
<1>3. ASSUME NEW r \in Reader, NEW k \in Key, LoadCached(r, k) PROVE IInv'
  BY <1>1, <1>3 DEF LoadCached, Tell, TypeOK, EndedOnce, WithinLimit, NobodyForgotten,
     CurrentOpen, Stages, Places, CachedTold
<1>4. ASSUME NEW r \in Reader, NEW k \in Key, LoadBatched(r, k) PROVE IInv'
  <2>1. PICK b \in Batch :
          /\ JoinedRow(b) \in BatchRow
          /\ IF current = NoBatch THEN Unreferenced(b) ELSE b = current
          /\ batches' = [batches EXCEPT ![b] = KeyIndex(JoinedRow(b), k)]
          /\ current' = BatchAfter(b, JoinedRow(b), k)
          /\ waiting' = [waiting EXCEPT ![r] =
                             [batch |-> b, pos |-> Position(KeyIndex(JoinedRow(b), k), k)]]
    BY <1>4, JoinsOne
  <2> DEFINE row == JoinedRow(b)
             new == KeyIndex(row, k)
             pos == Position(new, k)
  <2>2. Open(row)
    BY <2>1, JoinedOpen
  <2>3. /\ new.asleep /\ new.keys # <<>> /\ ~new.done /\ ~new.failed
        /\ Distinct(new)
        /\ MaxBatch # 0 => Len(new.keys) <= MaxBatch
        /\ \/ new.closing /\ new.ending = 1 /\ current' = NoBatch
           \/ /\ ~new.closing /\ new.ending = 0 /\ current' = b
              /\ MaxBatch # 0 => Len(new.keys) < MaxBatch
    <3> HIDE DEF row
    <3>1. QED
      BY <2>1, <2>2, JoinsOpen DEF row
  <2>4. /\ batches'[b] = new
        /\ \A c \in Batch \ {b} : batches'[c] = batches[c]
    BY <2>1 DEF TypeOK
  <2>5. \A c \in Batch \ {b} : c # current
    BY <2>1, LoaderAssumption
  <2>6. EndedOnce' /\ WithinLimit'
    <3> HIDE DEF new
    <3>1. QED
      BY <2>3, <2>4 DEF EndedOnce, WithinLimit, Distinct
  <2>7. CurrentOpen' /\ Stages'
    <3> HIDE DEF new
    <3>1. b # NoBatch
      BY LoaderAssumption
    <3>2. CurrentOpen'
      BY <2>3, <2>4, <3>1 DEF CurrentOpen
    <3>3. ASSUME NEW c \in Batch
          PROVE  /\ batches'[c].ending > 0 => c # current'
                 /\ batches'[c].asleep /\ ~batches'[c].closing => c = current'
                 /\ batches'[c].failed => batches'[c].done
      <4>1. CASE c = b
        BY <2>3, <2>4, <3>1, <4>1
      <4>2. CASE c # b
        BY <2>3, <2>4, <2>5, <3>1, <4>2, LoaderAssumption DEF Stages
      <4>3. QED
        BY <4>1, <4>2
    <3>4. QED
      BY <3>2, <3>3 DEF Stages
  <2>8. /\ waiting'[r] = [batch |-> b, pos |-> pos]
        /\ asked'[r] = [key |-> k, seen |-> {users[k]}]
        /\ \A q \in Reader \ {r} : waiting'[q] = waiting[q] /\ asked'[q] = asked[q]
        /\ UNCHANGED <<users, cache, told>>
    BY <1>4, <2>1 DEF TypeOK, LoadBatched
  <2>9. /\ pos \in 1..Len(new.keys) /\ new.keys[pos] = k
        /\ Len(row.keys) <= Len(new.keys)
        /\ \A i \in 1..Len(row.keys) : new.keys[i] = row.keys[i]
    <3> HIDE DEF row
    <3>1. QED
      BY <2>1, Joined DEF row
  <2>10. \A q \in Reader \ {r} :
           waiting[q] # NotAsked /\ waiting[q].batch = b => row = batches[b]
    BY <2>1 DEF Unreferenced, JoinedRow
  <2>11. NobodyForgotten'
    <3> HIDE DEF new
    <3> SUFFICES ASSUME NEW q \in Reader, waiting'[q] # NotAsked
                 PROVE  LET c == waiting'[q].batch IN
                        \/ batches'[c].done \/ batches'[c].ending > 0
                        \/ c = current' /\ batches'[c].asleep
      BY DEF NobodyForgotten
    <3>1. waiting'[q].batch \in Batch
      BY <1>1 DEF TypeOK, Waiting
    <3>2. CASE waiting'[q].batch = b
      BY <2>3, <2>4, <3>2
    <3>3. CASE waiting'[q].batch # b
      BY <2>4, <2>5, <2>8, <3>1, <3>3 DEF NobodyForgotten
    <3>4. QED
      BY <3>2, <3>3
  <2>12. Places'
    <3> HIDE DEF new, row, pos
    <3> SUFFICES ASSUME NEW q \in Reader
                 PROVE  /\ waiting'[q] = NotAsked <=> asked'[q] = NotAsked
                        /\ waiting'[q] # NotAsked =>
                             LET w == waiting'[q]
                                 c == batches'[w.batch]
                             IN  /\ w.pos <= Len(c.keys) /\ c.keys[w.pos] = asked'[q].key
                                 /\ users'[asked'[q].key] \in asked'[q].seen
                                 /\ c.done /\ ~c.failed =>
                                      w.pos <= Len(c.data) /\ c.data[w.pos] \in asked'[q].seen
      BY DEF Places
    <3>1. CASE q = r
      <4>1. pos \in Nat \ {0}
        BY <2>9
      <4>2. waiting'[r] # NotAsked /\ asked'[r] # NotAsked
        BY <2>8, <4>1, LoaderAssumption, UsersTyped DEF Waiting, Asked, TypeOK
      <4>3. QED
        BY <2>3, <2>4, <2>8, <2>9, <3>1, <4>1, <4>2
    <3>2. CASE q # r /\ waiting[q] # NotAsked /\ waiting[q].batch = b
      <4>1. row = batches[b] /\ waiting[q].pos \in Nat \ {0} /\ Len(row.keys) \in Nat
        BY <2>1, <2>10, <3>2 DEF TypeOK, Waiting, BatchRow
      <4>2. waiting[q].pos \in 1..Len(row.keys) /\ row.keys[waiting[q].pos] = asked[q].key
        BY <3>2, <4>1 DEF Places
      <4>3. waiting[q].pos <= Len(new.keys) /\ new.keys[waiting[q].pos] = asked[q].key
        <5>1. Len(new.keys) \in Nat
          BY <1>1, <2>4 DEF TypeOK, BatchRow
        <5>2. QED
          BY <2>9, <4>1, <4>2, <5>1
      <4>4. waiting'[q] = waiting[q] /\ asked'[q] = asked[q] /\ users' = users
        BY <2>8, <3>2
      <4>5. QED
        BY <2>3, <2>4, <3>2, <4>3, <4>4 DEF Places
    <3>3. CASE q # r /\ (waiting[q] = NotAsked \/ waiting[q].batch # b)
      <4>1. waiting[q] # NotAsked => waiting[q].batch \in Batch \ {b}
        BY <3>3 DEF TypeOK, Waiting
      <4>2. waiting'[q] = waiting[q] /\ asked'[q] = asked[q] /\ users' = users
        BY <2>8, <3>3
      <4>3. waiting[q] # NotAsked => batches'[waiting[q].batch] = batches[waiting[q].batch]
        BY <2>4, <4>1
      <4>4. QED
        BY <4>2, <4>3 DEF Places
    <3>4. QED
      BY <3>1, <3>2, <3>3
  <2>13. CachedTold'
    BY <2>8 DEF CachedTold
  <2>14. QED
    BY <1>1, <2>6, <2>7, <2>11, <2>12, <2>13
<1>5. ASSUME NEW b \in Batch, StartTimer(b) PROVE IInv'
  <2>1. /\ \A c \in Batch \ {b} : batches'[c] = batches[c]
        /\ batches'[b].keys = batches[b].keys /\ batches'[b].data = batches[b].data
        /\ batches'[b].done = batches[b].done /\ batches'[b].failed = batches[b].failed
        /\ batches'[b].closing = batches[b].closing /\ ~batches'[b].asleep
        /\ UNCHANGED <<users, cache, waiting, history>>
    BY <1>5 DEF StartTimer, TypeOK, BatchRow
  <2>2. CASE batches[b].closing
    <3>1. batches'[b].ending = batches[b].ending /\ current' = current /\ b # current
      BY <1>5, <2>2, LoaderAssumption DEF StartTimer, TypeOK, BatchRow, CurrentOpen
    <3>2. EndedOnce' /\ WithinLimit' /\ CurrentOpen' /\ Stages'
      BY <2>1, <3>1 DEF EndedOnce, WithinLimit, CurrentOpen, Stages, TypeOK
    <3>3. NobodyForgotten' /\ Places' /\ CachedTold'
      BY <2>1, <3>1 DEF NobodyForgotten, Places, CachedTold, TypeOK, Waiting, history
    <3>4. QED
      BY <1>1, <3>2, <3>3
  <2>3. CASE ~batches[b].closing
    <3>1. b = current /\ batches[b].ending = 0 /\ ~batches[b].done
      BY <1>5, <2>3, LoaderAssumption DEF StartTimer, CurrentOpen, Stages
    <3>2. batches'[b].ending = 1 /\ current' = NoBatch
      BY <1>5, <2>3, <3>1 DEF StartTimer, TypeOK, BatchRow
    <3>3. EndedOnce' /\ WithinLimit' /\ CurrentOpen' /\ Stages'
      BY <2>1, <3>1, <3>2, LoaderAssumption DEF EndedOnce, WithinLimit, CurrentOpen, Stages, TypeOK
    <3>4. NobodyForgotten' /\ Places' /\ CachedTold'
      BY <2>1, <3>1, <3>2 DEF NobodyForgotten, Places, CachedTold, TypeOK, Waiting, history
    <3>5. QED
      BY <1>1, <3>3, <3>4
  <2>4. QED
    BY <2>2, <2>3
<1>6. ASSUME NEW b \in Batch, End(b) PROVE IInv'
  <2>1. /\ \A c \in Batch \ {b} : batches'[c] = batches[c]
        /\ batches'[b].keys = batches[b].keys /\ batches'[b].asleep = batches[b].asleep
        /\ batches'[b].closing = batches[b].closing
        /\ batches'[b].ending = batches[b].ending - 1 /\ batches'[b].done
        /\ batches'[b].failed \/ batches'[b].data = Fetched(batches[b].keys)
        /\ UNCHANGED <<users, cache, current, waiting, history>>
    <3>1. UNCHANGED <<users, cache, current, waiting, history>>
      BY <1>6 DEF End
    <3>2. batches[b] \in BatchRow
      BY DEF TypeOK
    <3>3. batches'[b] \in
             {[batches[b] EXCEPT !.ending = @ - 1, !.done = TRUE,
                                 !.data = Fetched(batches[b].keys)],
              [batches[b] EXCEPT !.ending = @ - 1, !.done = TRUE, !.failed = TRUE]}
      BY <1>6, EndRow DEF TypeOK
    <3>4. \A c \in Batch \ {b} : batches'[c] = batches[c]
      BY <1>6, EndRow DEF TypeOK
    <3>5. QED
      BY <3>1, <3>2, <3>3, <3>4 DEF BatchRow
  <2>2. batches[b].ending = 1 /\ batches'[b].ending = 0 /\ b # current
    BY <1>6, <2>1 DEF End, EndedOnce, Stages, TypeOK, BatchRow
  <2>3. EndedOnce' /\ WithinLimit' /\ CurrentOpen' /\ Stages'
    BY <2>1, <2>2 DEF EndedOnce, WithinLimit, CurrentOpen, Stages, TypeOK
  <2>4. NobodyForgotten' /\ CachedTold'
    BY <2>1, <2>2 DEF NobodyForgotten, CachedTold, TypeOK, Waiting, history
  <2>5. Places'
    <3> SUFFICES ASSUME NEW r \in Reader, waiting[r] # NotAsked, waiting[r].batch = b,
                        ~batches'[b].failed
                 PROVE  /\ waiting[r].pos <= Len(batches'[b].data)
                        /\ batches'[b].data[waiting[r].pos] \in asked[r].seen
      BY <2>1 DEF Places, history, TypeOK, Waiting
    <3>1. /\ waiting[r].pos \in 1..Len(batches[b].keys)
          /\ batches[b].keys[waiting[r].pos] = asked[r].key
          /\ Len(batches[b].keys) \in Nat
      BY DEF Places, TypeOK, Waiting, BatchRow
    <3>2. /\ Len(batches'[b].data) = Len(batches[b].keys)
          /\ batches'[b].data[waiting[r].pos] = users[asked[r].key]
      <4>1. batches'[b].data = [i \in 1..Len(batches[b].keys) |-> users[batches[b].keys[i]]]
        BY <2>1 DEF Fetched
      <4>2. QED
        BY <3>1, <4>1
    <3>3. QED
      BY <3>1, <3>2 DEF Places
  <2>6. QED
    BY <1>1, <2>3, <2>4, <2>5
<1>7. ASSUME NEW r \in Reader, Thunk(r) PROVE IInv'
  <2>1. EndedOnce' /\ WithinLimit' /\ CurrentOpen' /\ Stages'
    BY <1>7 DEF Thunk, EndedOnce, WithinLimit, CurrentOpen, Stages
  <2>2. NobodyForgotten' /\ Places'
    BY <1>7 DEF Thunk, NobodyForgotten, Places, TypeOK
  <2>3. CachedTold'
    BY <1>7 DEF Thunk, Tell, CachedTold, TypeOK
  <2>4. QED
    BY <1>1, <2>1, <2>2, <2>3
<1>8. CASE UNCHANGED vars
  BY <1>1, <1>8 DEF vars, EndedOnce, WithinLimit, NobodyForgotten, CurrentOpen, Stages,
     Places, CachedTold
<1>9. QED
  BY <1>2, <1>3, <1>4, <1>5, <1>6, <1>7, <1>8 DEF Next

\* The inductive invariant holds: batches are ended once and within the limit
\* (publicuserloader_gen.go:182-225), and nobody waits for a batch that
\* nobody will end.
THEOREM Inductive == Spec => []IInv
<1>1. Init => IInv
  BY InitInv
<1>2. IInv /\ [Next]_vars => IInv'
  BY NextInv
<1>3. QED
  BY <1>1, <1>2, PTL DEF Spec

\* Every variable keeps its type.
THEOREM TypeCorrect == Spec => []TypeOK
<1>1. IInv => TypeOK
  BY DEF IInv
<1>2. QED
  BY <1>1, Inductive, PTL

\* The timer and the resolver that fills a batch never both end it.
THEOREM BatchEndedOnce == Spec => []EndedOnce
<1>1. IInv => EndedOnce
  BY DEF IInv
<1>2. QED
  BY <1>1, Inductive, PTL

\* A resolver that waits has a batch that is done, being ended or timed.
THEOREM WaitsForSomething == Spec => []NobodyForgotten
<1>1. IInv => NobodyForgotten
  BY DEF IInv
<1>2. QED
  BY <1>1, Inductive, PTL

\* No query asks for too many users, or for one twice.
THEOREM QueryWithinLimit == Spec => []WithinLimit
<1>1. IInv => WithinLimit
  BY DEF IInv
<1>2. QED
  BY <1>1, Inductive, PTL

\* fetch reads the keys of its batch without the mutex, and nobody writes
\* them meanwhile (publicuserloader_gen.go:222).
THEOREM KeysStayFrozen == Spec => KeysFrozen
<1> DEFINE Frozen == \A b \in Batch :
          batches[b].ending > 0 \/ (batches[b].done /\ ~Unreferenced(b))
          => batches'[b].keys = batches[b].keys
<1>1. IInv /\ [Next]_vars => [Frozen]_vars
  <2> SUFFICES ASSUME IInv, Next, NEW b \in Batch,
                      batches[b].ending > 0 \/ (batches[b].done /\ ~Unreferenced(b))
               PROVE  batches'[b].keys = batches[b].keys
    OBVIOUS
  <2> USE DEF IInv
  <2>1. CASE UNCHANGED batches
    BY <2>1
  <2>2. ASSUME NEW r \in Reader, NEW k \in Key, LoadBatched(r, k)
        PROVE  batches'[b].keys = batches[b].keys
    <3>1. PICK c \in Batch :
            /\ IF current = NoBatch THEN Unreferenced(c) ELSE c = current
            /\ batches' = [batches EXCEPT ![c] = KeyIndex(JoinedRow(c), k)]
      BY <2>2, JoinsOne
    <3>2. b # c
      <4>1. CASE current = NoBatch
        BY <3>1, <4>1 DEF Unreferenced
      <4>2. CASE current # NoBatch
        BY <3>1, <4>2 DEF CurrentOpen
      <4>3. QED
        BY <4>1, <4>2
    <3>3. QED
      BY <3>1, <3>2 DEF TypeOK
  <2>3. ASSUME NEW c \in Batch, StartTimer(c) PROVE batches'[b].keys = batches[b].keys
    <3>1. PICK a \in BatchRow : a.keys = batches[c].keys /\ batches' = [batches EXCEPT ![c] = a]
      <4>1. batches[c] \in BatchRow /\ batches[c].ending + 1 \in Nat
        BY DEF TypeOK, BatchRow
      <4>2. /\ [batches[c] EXCEPT !.asleep = FALSE] \in BatchRow
            /\ [batches[c] EXCEPT !.asleep = FALSE, !.ending = @ + 1] \in BatchRow
            /\ [batches[c] EXCEPT !.asleep = FALSE].keys = batches[c].keys
            /\ [batches[c] EXCEPT !.asleep = FALSE, !.ending = @ + 1].keys = batches[c].keys
        BY <4>1 DEF BatchRow
      <4>3. \/ batches' = [batches EXCEPT ![c] = [batches[c] EXCEPT !.asleep = FALSE]]
            \/ batches' = [batches EXCEPT ![c] =
                              [batches[c] EXCEPT !.asleep = FALSE, !.ending = @ + 1]]
        BY <2>3 DEF StartTimer
      <4>4. QED
        BY <4>2, <4>3
    <3>2. QED
      BY <3>1 DEF TypeOK
  <2>4. ASSUME NEW c \in Batch, End(c) PROVE batches'[b].keys = batches[b].keys
    <3>1. PICK a : a.keys = batches[c].keys /\ batches' = [batches EXCEPT ![c] = a]
      <4>1. batches[c] \in BatchRow
        BY DEF TypeOK
      <4>2. QED
        BY <2>4, <4>1, EndRow DEF BatchRow
    <3>2. QED
      BY <3>1 DEF TypeOK
  <2>5. QED
    BY <2>1, <2>2, <2>3, <2>4 DEF Next, Change, LoadCached, Thunk
<1>2. QED
  BY <1>1, Inductive, PTL DEF Spec, KeysFrozen

-----------------------------------------------------------------------------
(***************************************************************************)
(* The loader implements PublicUsers.                                      *)
(***************************************************************************)
LEMMA RefinesNext == IInv /\ [Next]_vars => [Users!Next]_(Users!vars)
<1> SUFFICES ASSUME IInv, [Next]_vars PROVE Users!Next \/ UNCHANGED Users!vars
  OBVIOUS
<1> USE DEF IInv
<1>1. ASSUME NEW k \in Key, Change(k) PROVE Users!Change(k)
  BY <1>1 DEF Change, Users!Change, UserOf, Users!UserOf
<1>2. ASSUME NEW r \in Reader, NEW k \in Key, LoadCached(r, k) PROVE Users!TellAgain(r, k)
  <2>1. asked[r] = NotAsked /\ cache[k] \in told[k]
    BY <1>2 DEF LoadCached, Places, CachedTold
  <2>2. Users!Tell(k, cache[k])
    BY <1>2 DEF LoadCached, Tell, Users!Tell
  <2>3. QED
    BY <1>2, <2>1, <2>2 DEF LoadCached, Users!TellAgain
<1>3. ASSUME NEW r \in Reader, NEW k \in Key, LoadBatched(r, k) PROVE Users!Ask(r, k)
  BY <1>3 DEF LoadBatched, Users!Ask, Places
<1>4. ASSUME NEW b \in Batch, StartTimer(b) \/ End(b) PROVE UNCHANGED Users!vars
  BY <1>4 DEF StartTimer, End, history, Users!vars
<1>5. ASSUME NEW r \in Reader, Thunk(r) PROVE Users!TellFresh(r) \/ Users!TellFailed(r)
  <2>1. asked[r] # NotAsked /\ asked' = [asked EXCEPT ![r] = NotAsked] /\ UNCHANGED users
    BY <1>5 DEF Thunk, Places
  <2>2. CASE batches[waiting[r].batch].failed
    BY <1>5, <2>1, <2>2 DEF Thunk, Users!TellFailed
  <2>3. CASE ~batches[waiting[r].batch].failed
    <3>1. /\ waiting[r].pos <= Len(batches[waiting[r].batch].data)
          /\ batches[waiting[r].batch].data[waiting[r].pos] \in asked[r].seen
      BY <1>5, <2>3 DEF Thunk, Places
    <3>2. Tell(asked[r].key, batches[waiting[r].batch].data[waiting[r].pos])
      BY <1>5, <2>3, <3>1 DEF Thunk
    <3>3. QED
      BY <2>1, <3>1, <3>2 DEF Tell, Users!Tell, Users!TellFresh
  <2>4. QED
    BY <2>2, <2>3
<1>6. CASE UNCHANGED vars
  BY <1>6 DEF vars, Users!vars
<1>7. QED
  BY <1>1, <1>2, <1>3, <1>4, <1>5, <1>6 DEF Next, Users!Next

\* What the loader tells resolvers cannot be told from reading the table
\* users, however requests are batched (ctx.go:40, publicuserloader_gen.go:74).
THEOREM LoaderImplementsPublicUsers == Spec => ImplementsPublicUsers
<1>1. Init => Users!Init
  BY DEF Init, Users!Init, User, UserOf, Users!UserOf
<1>2. IInv /\ [Next]_vars => [Users!Next]_(Users!vars)
  BY RefinesNext
<1>3. QED
  BY <1>1, <1>2, Inductive, PTL DEF Spec, ImplementsPublicUsers, Users!Spec
=============================================================================
