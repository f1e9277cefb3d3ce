-------------------------- MODULE PublicUserLoader --------------------------
(***************************************************************************)
(* The loader that batches and caches the users the resolvers of one       *)
(* response ask for (internal/graph/dataloader).                           *)
(*                                                                         *)
(* gqlgen runs field resolvers in goroutines; each calls Load(key).  The   *)
(* first key of a batch starts a timer; the batch is ended by the timer or *)
(* by the resolver that fills it, whichever comes first, and ending it     *)
(* fetches all of its keys in one query and closes the channel that the    *)
(* resolvers wait on.  The mutex makes LoadThunk, the end of the timer's   *)
(* sleep and the write to the cache atomic; fetch runs outside it.         *)
(***************************************************************************)
EXTENDS Naturals, Sequences

CONSTANTS
    Reader,     \* the goroutines that resolve fields of the response
    Key,        \* the ids they ask for
    Version,    \* the versions a user may have
    Batch,      \* the batches, allocated and garbage collected
    MaxBatch,   \* the number of keys that ends a batch; 0 is no limit
    NoBatch,    \* l.batch is nil
    Nobody,     \* the user of an id that is not in the table (nil)
    NotCached,  \* the id is not in the cache
    NotAsked    \* the resolver does not wait

VARIABLES
    users,      \* table users, changed by other requests
    cache,      \* l.cache
    current,    \* l.batch
    batches,    \* the batches that goroutines still refer to
    waiting,    \* the batch and position each resolver waits for
    asked,      \* history: the key, and what the table had since LoadThunk
    told        \* history: what resolvers have been told about each id

vars == <<users, cache, current, batches, waiting, asked, told>>
history == <<asked, told>>

UserOf(k) == [id : {k}, version : Version] \cup {Nobody}
User == UNION {UserOf(k) : k \in Key}

BatchRow == [keys : Seq(Key), closing : BOOLEAN, asleep : BOOLEAN, ending : Nat,
             done : BOOLEAN, data : Seq(User), failed : BOOLEAN]
Waiting == [batch : Batch, pos : Nat \ {0}]
Asked == [key : Key, seen : SUBSET User]

ASSUME LoaderAssumption ==
    /\ MaxBatch \in Nat
    /\ NoBatch \notin Batch
    /\ Nobody \notin [id : Key, version : Version]
    /\ NotCached \notin User
    /\ NotAsked \notin Waiting \cup Asked

NewBatch == [keys |-> <<>>, closing |-> FALSE, asleep |-> FALSE, ending |-> 0,
             done |-> FALSE, data |-> <<>>, failed |-> FALSE]

Init ==
    /\ users \in [Key -> User]
    /\ \A k \in Key : users[k] \in UserOf(k)
    /\ cache = [k \in Key |-> NotCached]
    /\ current = NoBatch
    /\ batches = [b \in Batch |-> NewBatch]
    /\ waiting = [r \in Reader |-> NotAsked]
    /\ asked = [r \in Reader |-> NotAsked]
    /\ told = [k \in Key |-> {}]

-----------------------------------------------------------------------------
\* Another request updates the user.
Change(k) ==
    /\ \E u \in UserOf(k) : users' = [users EXCEPT ![k] = u]
    /\ asked' = [r \in Reader |->
           IF asked[r] # NotAsked /\ asked[r].key = k
           THEN [asked[r] EXCEPT !.seen = @ \cup {users'[k]}]
           ELSE asked[r]]
    /\ UNCHANGED <<cache, current, batches, waiting, told>>

Tell(k, u) == told' = [told EXCEPT ![k] = @ \cup {u}]

\* LoadThunk finds the key in the cache.
LoadCached(r, k) ==
    /\ waiting[r] = NotAsked
    /\ cache[k] # NotCached
    /\ Tell(k, cache[k])
    /\ UNCHANGED <<users, cache, current, batches, waiting, asked>>

-----------------------------------------------------------------------------
(***************************************************************************)
(* LoadThunk puts the key into the current batch.  A new batch is one that *)
(* no goroutine refers to any more.                                        *)
(***************************************************************************)
Unreferenced(b) ==
    /\ b # current
    /\ ~batches[b].asleep
    /\ batches[b].ending = 0
    /\ \A r \in Reader : waiting[r] # NotAsked => waiting[r].batch # b

\* Mutant: every resolver appends its key.
ContainsNever(row, k) == FALSE

Contains(row, k) == \E i \in 1..Len(row.keys) : row.keys[i] = k

\* Mutant: the position before the key was appended.
PositionBefore(row, k) == (CHOOSE i \in 1..Len(row.keys) : row.keys[i] = k) - 1

Position(row, k) == CHOOSE i \in 1..Len(row.keys) : row.keys[i] = k

Fills(row) == MaxBatch # 0 /\ Len(row.keys) + 1 >= MaxBatch

\* Mutant: only the second key starts the timer.
KeyIndexLateTimer(row, k) ==
    IF Contains(row, k) THEN row
    ELSE [row EXCEPT !.keys = Append(@, k),
                     !.asleep = IF Len(row.keys) = 1 THEN TRUE ELSE @,
                     !.closing = @ \/ Fills(row),
                     !.ending = IF Fills(row) /\ ~row.closing THEN @ + 1 ELSE @]

KeyIndex(row, k) ==
    IF Contains(row, k) THEN row
    ELSE [row EXCEPT !.keys = Append(@, k),
                     !.asleep = IF row.keys = <<>> THEN TRUE ELSE @,
                     !.closing = @ \/ Fills(row),
                     !.ending = IF Fills(row) /\ ~row.closing THEN @ + 1 ELSE @]

\* l.batch after keyIndex: the resolver that fills a batch takes it away.
BatchAfter(b, row, k) ==
    IF ~Contains(row, k) /\ Fills(row) /\ ~row.closing THEN NoBatch ELSE b

LoadBatched(r, k) ==
    /\ waiting[r] = NotAsked
    /\ cache[k] = NotCached
    /\ \E b \in Batch :
         LET row == IF current = NoBatch THEN NewBatch ELSE batches[b] IN
         /\ IF current = NoBatch THEN Unreferenced(b) ELSE b = current
         /\ batches' = [batches EXCEPT ![b] = KeyIndex(row, k)]
         /\ current' = BatchAfter(b, row, k)
         /\ waiting' = [waiting EXCEPT ![r] =
                            [batch |-> b, pos |-> Position(KeyIndex(row, k), k)]]
    /\ asked' = [asked EXCEPT ![r] = [key |-> k, seen |-> {users[k]}]]
    /\ UNCHANGED <<users, cache, told>>

\* Mutant: the timer does not look whether the batch is closing.
StartTimerAlways(b) ==
    /\ batches[b].asleep
    /\ current' = NoBatch
    /\ batches' = [batches EXCEPT ![b].asleep = FALSE, ![b].ending = @ + 1]
    /\ UNCHANGED <<users, cache, waiting, history>>

\* Mutant: the batch whose timer fires stays the current one.
StartTimerKept(b) ==
    /\ batches[b].asleep
    /\ batches' = IF batches[b].closing
                  THEN [batches EXCEPT ![b].asleep = FALSE]
                  ELSE [batches EXCEPT ![b].asleep = FALSE, ![b].ending = @ + 1]
    /\ UNCHANGED <<users, cache, current, waiting, history>>

\* startTimer wakes up.
StartTimer(b) ==
    /\ batches[b].asleep
    /\ IF batches[b].closing
       THEN /\ batches' = [batches EXCEPT ![b].asleep = FALSE]
            /\ UNCHANGED current
       ELSE /\ batches' = [batches EXCEPT ![b].asleep = FALSE, ![b].ending = @ + 1]
            /\ current' = NoBatch
    /\ UNCHANGED <<users, cache, waiting, history>>

\* Mutant: the users in the order the table returns them.
FetchedInRowOrder(keys) ==
    SelectSeq([i \in 1..Len(keys) |-> users[keys[i]]], LAMBDA u : u # Nobody)

\* fetch looks each key up in the rows the query returned, in any order.
Fetched(keys) == [i \in 1..Len(keys) |-> users[keys[i]]]

\* end: fetch, then close the channel.
End(b) ==
    /\ batches[b].ending > 0
    /\ \/ batches' = [batches EXCEPT ![b].ending = @ - 1, ![b].done = TRUE,
                                     ![b].data = Fetched(batches[b].keys)]
       \/ batches' = [batches EXCEPT ![b].ending = @ - 1, ![b].done = TRUE,
                                     ![b].failed = TRUE]
    /\ UNCHANGED <<users, cache, current, waiting, history>>

\* The thunk wakes up, reads its position and fills the cache.
Thunk(r) ==
    /\ waiting[r] # NotAsked
    /\ LET row == batches[waiting[r].batch]
           pos == waiting[r].pos
           k == asked[r].key
           u == IF pos <= Len(row.data) THEN row.data[pos] ELSE Nobody
       IN  /\ row.done
           /\ IF row.failed
              THEN UNCHANGED <<told, cache>>
              ELSE Tell(k, u) /\ cache' = [cache EXCEPT ![k] = u]
    /\ waiting' = [waiting EXCEPT ![r] = NotAsked]
    /\ asked' = [asked EXCEPT ![r] = NotAsked]
    /\ UNCHANGED <<users, current, batches>>

-----------------------------------------------------------------------------
Next ==
    \/ \E k \in Key : Change(k)
    \/ \E r \in Reader, k \in Key : LoadCached(r, k) \/ LoadBatched(r, k)
    \/ \E b \in Batch : StartTimer(b) \/ End(b)
    \/ \E r \in Reader : Thunk(r)

\* Timers fire, queries return and goroutines that can run do run.
Fairness ==
    /\ \A b \in Batch : WF_vars(StartTimer(b)) /\ WF_vars(End(b))
    /\ \A r \in Reader : WF_vars(Thunk(r))

Spec == Init /\ [][Next]_vars
FairSpec == Spec /\ Fairness
-----------------------------------------------------------------------------
TypeOK ==
    /\ users \in [Key -> User] /\ \A k \in Key : users[k] \in UserOf(k)
    /\ cache \in [Key -> User \cup {NotCached}]
    /\ current \in Batch \cup {NoBatch}
    /\ batches \in [Batch -> BatchRow]
    /\ waiting \in [Reader -> Waiting \cup {NotAsked}]
    /\ asked \in [Reader -> Asked \cup {NotAsked}]
    /\ told \in [Key -> SUBSET User]

\* A batch is ended once: the timer and the resolver that fills the batch do
\* not both end it, which would close its channel twice and panic
\* (publicuserloader_gen.go:211).
EndedOnce ==
    \A b \in Batch : batches[b].ending <= 1 /\ (batches[b].ending = 1 => ~batches[b].done)

\* No query asks for more users than the limit, and it asks for each once.
WithinLimit ==
    \A b \in Batch :
        /\ MaxBatch # 0 => Len(batches[b].keys) <= MaxBatch
        /\ \A i, j \in 1..Len(batches[b].keys) :
              batches[b].keys[i] = batches[b].keys[j] => i = j

\* A resolver never waits for a batch that nobody will end.
NobodyForgotten ==
    \A r \in Reader : waiting[r] # NotAsked =>
        LET b == waiting[r].batch IN
        batches[b].done \/ batches[b].ending > 0 \/ (b = current /\ batches[b].asleep)

\* The inductive invariant.  The current batch is open, has a timer and has
\* room; a timer asleep over a batch that is not closing is that of the
\* current one, so that waking up takes no other batch away.
CurrentOpen ==
    current # NoBatch =>
        LET row == batches[current] IN
        /\ ~row.closing /\ row.asleep /\ row.ending = 0 /\ ~row.done
        /\ row.keys # <<>>
        /\ MaxBatch # 0 => Len(row.keys) < MaxBatch

Stages ==
    \A b \in Batch :
        /\ batches[b].ending > 0 => b # current
        /\ batches[b].asleep /\ ~batches[b].closing => b = current
        /\ batches[b].failed => batches[b].done

\* A resolver waits for the position of the id it asked for, and what is
\* there once the batch is done is what the table had since it asked.
Places ==
    \A r \in Reader :
        /\ waiting[r] = NotAsked <=> asked[r] = NotAsked
        /\ waiting[r] # NotAsked =>
             LET row == batches[waiting[r].batch]
                 pos == waiting[r].pos
             IN  /\ pos <= Len(row.keys) /\ row.keys[pos] = asked[r].key
                 /\ users[asked[r].key] \in asked[r].seen
                 /\ row.done /\ ~row.failed =>
                      pos <= Len(row.data) /\ row.data[pos] \in asked[r].seen

CachedTold == \A k \in Key : cache[k] # NotCached => cache[k] \in told[k]

IInv ==
    /\ TypeOK
    /\ EndedOnce
    /\ WithinLimit
    /\ NobodyForgotten
    /\ CurrentOpen
    /\ Stages
    /\ Places
    /\ CachedTold

\* end reads the keys without the mutex: nobody adds to them any more while
\* it does, nor afterwards while somebody waits for the batch.
KeysFrozen ==
    [][\A b \in Batch :
          batches[b].ending > 0 \/ (batches[b].done /\ ~Unreferenced(b))
          => batches'[b].keys = batches[b].keys]_vars

\* The batches and the cache cannot be told from reading the table.
Users == INSTANCE PublicUsers WITH users <- users, asked <- asked, told <- told
ImplementsPublicUsers == Users!Spec

\* Every resolver is told something.
EveryLoadAnswered ==
    \A r \in Reader : waiting[r] # NotAsked ~> waiting[r] = NotAsked
=============================================================================
