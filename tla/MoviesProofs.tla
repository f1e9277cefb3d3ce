---------------------------- MODULE MoviesProofs ----------------------------
(***************************************************************************)
(* Proofs about Movies: its inductive invariant, that the imports and the  *)
(* popularity job never undo each other, and that an import is all or      *)
(* nothing, for any movies and any number of imports at a time.            *)
(*                                                                         *)
(* An import touches a row the job has read only with what is there        *)
(* already, and the job touches a row only while no import has it locked.  *)
(***************************************************************************)
EXTENDS Movies, DeadlocksProofs

\* The movies of a map, in any order, are a sequence of them.
LEMMA OrdersType ==
    ASSUME NEW S \in SUBSET Movie, NEW order \in Orders(S)
    PROVE  /\ order \in Seq(Movie)
           /\ \A m \in S : \E i \in DOMAIN order : order[i] = m
           /\ \A i, j \in DOMAIN order : order[i] = order[j] => i = j
  <1>1. IsFiniteSet(S)
    BY MoviesAssumption, FS_Subset
  <1>2. Cardinality(S) \in Nat
    BY <1>1, FS_CardinalityType
  <1>3. /\ order \in [1..Cardinality(S) -> S]
        /\ \A m \in S : \E i \in DOMAIN order : order[i] = m
    BY DEF Orders
  <1>4. order \in [1..Cardinality(S) -> Movie]
    BY <1>3
  <1>5. order \in Surjection(1..Cardinality(S), S)
    BY <1>3 DEF Surjection
  <1>6. IsFiniteSet(1..Cardinality(S)) /\ Cardinality(1..Cardinality(S)) = Cardinality(S)
    BY <1>2, FS_Interval
  <1>7. order \in Injection(1..Cardinality(S), S)
    BY <1>5, <1>6, FS_SurjSameCardinalityImpliesInj
  <1>8. \A i, j \in DOMAIN order : order[i] = order[j] => i = j
    BY <1>3, <1>7 DEF Injection, IsInjective
  <1> QED
    BY <1>2, <1>3, <1>4, <1>8

\* The invariant but for its last part, which is taken up when the steps have
\* been gone through.
Base == TypeOK /\ RowsReleased /\ VersionsCurrent /\ ListCurrent /\ NothingSkipped

LEMMA Initially == Init => Base
  <1> SUFFICES ASSUME Init PROVE Base
    OBVIOUS
  <1>1. TypeOK
    <2>1. locked \in [Movie -> Fetch \cup {Nobody}]
      BY DEF Init
    <2>2. /\ written \in [Fetch -> [Movie -> Row \cup {"absent"}]]
          /\ todo \in [Fetch -> Seq(Movie)]
          /\ items \in [Fetch -> SUBSET Movie]
      BY DEF Init, NoRows
    <2> QED
      BY <2>1, <2>2 DEF Init, TypeOK, Row, Stage, JobStage
  <1>2. RowsReleased
    BY DEF Init, RowsReleased
  <1>3. VersionsCurrent
    BY MoviesAssumption DEF Init, VersionsCurrent, NoRows
  <1>4. ListCurrent
    BY DEF Init, ListCurrent
  <1>5. NothingSkipped
    BY DEF Init, NothingSkipped
  <1> QED
    BY <1>1, <1>2, <1>3, <1>4, <1>5 DEF Base

-----------------------------------------------------------------------------
\* The requests.

LEMMA ArriveStep ==
    ASSUME Base, NEW p \in Fetch, Arrive(p)
    PROVE  Base'
  <1> USE DEF Base, Arrive, Goto, round
  <1>1. TypeOK'
    BY DEF TypeOK, Stage
  <1>2. RowsReleased'
    BY DEF TypeOK, RowsReleased
  <1>3. VersionsCurrent'
    BY DEF TypeOK, VersionsCurrent, Upserted
  <1>4. ListCurrent'
    BY DEF ListCurrent, ReadAs
  <1>5. NothingSkipped'
    BY DEF TypeOK, NothingSkipped
  <1> QED
    BY <1>1, <1>2, <1>3, <1>4, <1>5

LEMMA CurrentMoviesStep ==
    ASSUME Base, NEW p \in Fetch, CurrentMovies(p)
    PROVE  Base'
  <1> USE DEF Base, Goto, round
  <1>1. tx[p] = "none"
    BY DEF CurrentMovies, TypeOK, VersionsCurrent
  <1>2. /\ pc[p] = "CurrentMovies"
        /\ UNCHANGED <<movies, locked, tx, written, round, stop>>
    BY DEF CurrentMovies
  <1>3. CASE Finish(p)
    <2> USE <1>1, <1>2, <1>3 DEF Finish
    <2>1. TypeOK'
      BY DEF TypeOK, Stage
    <2>2. RowsReleased'
      BY DEF TypeOK, RowsReleased
    <2>3. VersionsCurrent'
      BY DEF TypeOK, VersionsCurrent, Upserted
    <2>4. ListCurrent'
      BY DEF ListCurrent, ReadAs
    <2>5. NothingSkipped'
      BY DEF TypeOK, NothingSkipped
    <2> QED
      BY <2>1, <2>2, <2>3, <2>4, <2>5
  <1>4. CASE ~Finish(p)
    <2>1. PICK answer \in SUBSET Movie :
             /\ items' = [items EXCEPT ![p] = answer]
             /\ \E order \in Orders(answer) : todo' = [todo EXCEPT ![p] = order]
             /\ Goto(p, "TX")
      BY <1>4 DEF CurrentMovies
    <2>2. PICK order \in Orders(answer) : todo' = [todo EXCEPT ![p] = order]
      BY <2>1
    <2>3. /\ order \in Seq(Movie)
          /\ \A m \in answer : \E i \in DOMAIN order : order[i] = m
      BY OrdersType
    <2> USE <1>1, <1>2, <2>1, <2>2, <2>3
    <2>4. TypeOK'
      BY DEF TypeOK, Stage
    <2>5. RowsReleased'
      BY DEF TypeOK, RowsReleased
    <2>6. VersionsCurrent'
      BY DEF TypeOK, VersionsCurrent, Upserted
    <2>7. ListCurrent'
      BY DEF ListCurrent, ReadAs
    <2>8. NothingSkipped'
      <3> SUFFICES ASSUME NEW q \in Fetch, (pc[q] = "TX" \/ tx[q] = "open")',
                          NEW m \in items'[q]
                   PROVE  \/ written'[q][m] # "absent"
                          \/ \E i \in DOMAIN todo'[q] : todo'[q][i] = m
        BY DEF NothingSkipped
      <3>1. CASE q = p
        <4>1. items'[q] = answer /\ todo'[q] = order
          BY <3>1 DEF TypeOK
        <4> QED
          BY <4>1
      <3>2. CASE q # p
        <4>1. items'[q] = items[q] /\ todo'[q] = todo[q] /\ pc'[q] = pc[q]
          BY <3>2 DEF TypeOK
        <4> QED
          BY <4>1 DEF NothingSkipped
      <3> QED
        BY <3>1, <3>2
    <2> QED
      BY <2>4, <2>5, <2>6, <2>7, <2>8
  <1> QED
    BY <1>3, <1>4

LEMMA BeginTXStep ==
    ASSUME Base, NEW p \in Fetch, BeginTX(p)
    PROVE  Base'
  <1> USE DEF Base, round
  <1>1. pc[p] = "TX" /\ tx[p] = "none" /\ UNCHANGED <<movies, locked, written, round, stop>>
    BY DEF BeginTX, TypeOK, VersionsCurrent
  <1>2. CASE Finish(p) /\ UNCHANGED tx
    <2> USE <1>1, <1>2 DEF Finish, Goto
    <2>1. TypeOK'
      BY DEF TypeOK, Stage
    <2>2. RowsReleased'
      BY DEF TypeOK, RowsReleased
    <2>3. VersionsCurrent'
      BY DEF TypeOK, VersionsCurrent, Upserted
    <2>4. ListCurrent'
      BY DEF ListCurrent, ReadAs
    <2>5. NothingSkipped'
      BY DEF TypeOK, NothingSkipped
    <2> QED
      BY <2>1, <2>2, <2>3, <2>4, <2>5
  <1>3. CASE /\ tx' = [tx EXCEPT ![p] = "open"]
             /\ Goto(p, "UpsertMovie")
             /\ UNCHANGED <<todo, items>>
    <2> USE <1>1, <1>3 DEF Goto
    <2>1. TypeOK'
      BY DEF TypeOK, Stage
    <2>2. RowsReleased'
      BY DEF TypeOK, RowsReleased
    <2>3. VersionsCurrent'
      BY DEF TypeOK, VersionsCurrent, Upserted
    <2>4. ListCurrent'
      BY DEF ListCurrent, ReadAs
    <2>5. NothingSkipped'
      BY DEF TypeOK, NothingSkipped
    <2> QED
      BY <2>1, <2>2, <2>3, <2>4, <2>5
  <1> QED
    BY <1>2, <1>3 DEF BeginTX

LEMMA UpsertMovieStep ==
    ASSUME Base, NEW p \in Fetch, UpsertMovie(p)
    PROVE  Base'
  <1> DEFINE n == Head(todo[p])
  <1> USE DEF Base
  <1>1. /\ pc[p] = "UpsertMovie" /\ todo[p] # <<>> /\ tx[p] = "open"
        /\ locked[n] = Nobody
        /\ locked' = [locked EXCEPT ![n] = p]
        /\ written' = [written EXCEPT ![p][n] = Upserted(n)]
        /\ todo' = [todo EXCEPT ![p] = Tail(@)]
        /\ UNCHANGED <<movies, pc, tx, items, list, movie, job, stop>>
    BY DEF UpsertMovie, round
  <1>2. todo[p] \in Seq(Movie)
    BY DEF TypeOK
  <1>3. n \in Movie /\ Tail(todo[p]) \in Seq(Movie)
    BY <1>1, <1>2
  <1>4. \A i \in DOMAIN todo[p] :
           todo[p][i] = n \/ \E j \in DOMAIN Tail(todo[p]) : Tail(todo[p])[j] = todo[p][i]
    <2> SUFFICES ASSUME NEW i \in DOMAIN todo[p], i # 1
                 PROVE  \E j \in DOMAIN Tail(todo[p]) : Tail(todo[p])[j] = todo[p][i]
      BY <1>2
    <2>1. i - 1 \in DOMAIN Tail(todo[p]) /\ Tail(todo[p])[i - 1] = todo[p][i]
      BY <1>1, <1>2
    <2> QED
      BY <2>1
  <1>5. Upserted(n) \in Row
    BY <1>3 DEF Upserted, TypeOK, Row
  <1> HIDE DEF n
  <1>6. TypeOK'
    BY <1>1, <1>3, <1>5 DEF TypeOK
  <1>7. RowsReleased'
    BY <1>1, <1>3 DEF TypeOK, RowsReleased
  <1>8. VersionsCurrent'
    <2>1. Upserted(n) # "absent"
      BY <1>5 DEF Row
    <2>2. p # Nobody
      BY MoviesAssumption
    <2>3. \A m \in Movie : Upserted(m)' = Upserted(m)
      BY <1>1 DEF Upserted
    <2>4. \A q \in Fetch, m \in Movie :
             /\ written'[q][m] = IF q = p /\ m = n THEN Upserted(n) ELSE written[q][m]
             /\ locked'[m] = IF m = n THEN p ELSE locked[m]
      BY <1>1, <1>3 DEF TypeOK
    <2>5. \A q \in Fetch : written[q][n] = "absent"
      BY <1>1, <1>3, MoviesAssumption DEF VersionsCurrent
    <2> HIDE DEF Base
    <2>6. \A q \in Fetch, m \in Movie :
             /\ written[q][m] # "absent" <=> locked[m] = q
             /\ locked[m] = q => written[q][m] = Upserted(m)
      BY DEF Base, VersionsCurrent
    <2>7. \A q \in Fetch : tx[q] # "none" <=> pc[q] = "UpsertMovie"
      BY DEF Base, VersionsCurrent
    <2> QED
      BY <1>1, <1>3, <2>1, <2>2, <2>3, <2>4, <2>5, <2>6, <2>7 DEF VersionsCurrent
  <1>9. ListCurrent'
    BY <1>1 DEF ListCurrent, ReadAs
  <1>10. NothingSkipped'
    <2> SUFFICES ASSUME NEW q \in Fetch, pc[q] = "TX" \/ tx[q] = "open", NEW m \in items[q]
                 PROVE  \/ written'[q][m] # "absent"
                        \/ \E i \in DOMAIN todo'[q] : todo'[q][i] = m
      BY <1>1 DEF NothingSkipped
    <2>1. CASE q = p
      <3>1. CASE m = n
        BY <1>1, <1>3, <1>5, <2>1, <3>1 DEF TypeOK, Row
      <3>2. CASE m # n
        <4>1. written'[q][m] = written[q][m] /\ todo'[q] = Tail(todo[p])
          BY <1>1, <2>1, <3>2 DEF TypeOK
        <4> QED
          BY <1>4, <2>1, <3>2, <4>1 DEF NothingSkipped
      <3> QED
        BY <3>1, <3>2
    <2>2. CASE q # p
      <3>1. written'[q] = written[q] /\ todo'[q] = todo[q]
        BY <1>1, <2>2 DEF TypeOK
      <3> QED
        BY <3>1 DEF NothingSkipped
    <2> QED
      BY <2>1, <2>2
  <1> QED
    BY <1>6, <1>7, <1>8, <1>9, <1>10

LEMMA UpsertMovieFailsStep ==
    ASSUME Base, NEW p \in Fetch, UpsertMovieFails(p)
    PROVE  Base'
  <1> USE DEF Base, UpsertMovieFails, EndTX, round
  <1>1. Tail(todo[p]) \in Seq(Movie)
    BY DEF TypeOK
  <1>2. TypeOK'
    BY <1>1 DEF TypeOK, NoRows
  <1>3. RowsReleased'
    BY DEF TypeOK, RowsReleased
  <1>4. VersionsCurrent'
    BY MoviesAssumption DEF TypeOK, VersionsCurrent, NoRows, Upserted
  <1>5. ListCurrent'
    BY DEF ListCurrent, ReadAs
  <1>6. NothingSkipped'
    BY DEF TypeOK, NothingSkipped
  <1> QED
    BY <1>2, <1>3, <1>4, <1>5, <1>6

\* What a commit does to the table: rows that were absent are new.
LEMMA CommitPublishes ==
    ASSUME Base, NEW p \in Fetch, Commit(p)
    PROVE  \A m \in Movie :
               movies'[m] = movies[m] \/ (movies[m] = "absent" /\ movies'[m] = "new")
  <1> SUFFICES ASSUME NEW m \in Movie
               PROVE  movies'[m] = movies[m] \/ (movies[m] = "absent" /\ movies'[m] = "new")
    OBVIOUS
  <1>1. CASE movies' = movies
    BY <1>1
  <1>2. CASE movies' = [n \in Movie |->
                 IF written[p][n] # "absent" THEN written[p][n] ELSE movies[n]]
    <2>1. written[p][m] # "absent" => written[p][m] = Upserted(m)
      BY DEF Base, VersionsCurrent
    <2> QED
      BY <1>2, <2>1 DEF Upserted
  <1> QED
    BY <1>1, <1>2 DEF Commit

LEMMA CommitStep ==
    ASSUME Base, NEW p \in Fetch, Commit(p)
    PROVE  Base'
  <1> USE DEF Base
  <1>1. \A m \in Movie :
           movies'[m] = movies[m] \/ (movies[m] = "absent" /\ movies'[m] = "new")
    BY CommitPublishes
  <1>2. \A m \in Movie : written[p][m] = "absent" => movies'[m] = movies[m]
    BY DEF Commit
  <1>3. movies' \in [Movie -> Row \cup {"absent"}]
    <2>1. /\ movies \in [Movie -> Row \cup {"absent"}]
          /\ written[p] \in [Movie -> Row \cup {"absent"}]
      BY DEF TypeOK
    <2>2. CASE movies' = movies
      BY <2>1, <2>2
    <2>3. CASE movies' = [m \in Movie |->
                   IF written[p][m] # "absent" THEN written[p][m] ELSE movies[m]]
      <3> HIDE DEF Base
      <3> QED
        BY <2>1, <2>3
    <2> QED
      BY <2>2, <2>3 DEF Commit
  <1>4. /\ pc' = [pc EXCEPT ![p] = "idle"]
        /\ todo' = [todo EXCEPT ![p] = <<>>]
        /\ items' = [items EXCEPT ![p] = {}]
        /\ tx' = [tx EXCEPT ![p] = "none"]
        /\ locked' = [m \in Movie |-> IF locked[m] = p THEN Nobody ELSE locked[m]]
        /\ written' = [written EXCEPT ![p] = NoRows]
        /\ UNCHANGED <<job, list, movie, stop>>
    BY DEF Commit, Finish, EndTX, Goto, round
  <1>5. TypeOK'
    BY <1>3, <1>4 DEF TypeOK, NoRows, Stage
  <1>6. RowsReleased'
    BY <1>4 DEF TypeOK, RowsReleased
  <1>7. VersionsCurrent'
    <2> SUFFICES ASSUME NEW q \in Fetch
                 PROVE  /\ \A m \in Movie :
                              /\ written'[q][m] # "absent" <=> locked'[m] = q
                              /\ locked'[m] = q => written'[q][m] = Upserted(m)'
                        /\ tx'[q] # "none" <=> pc'[q] = "UpsertMovie"
      BY DEF VersionsCurrent
    <2>1. CASE q = p
      BY <1>4, <2>1, MoviesAssumption DEF TypeOK, NoRows
    <2>2. CASE q # p
      <3>1. /\ written'[q] = written[q] /\ tx'[q] = tx[q] /\ pc'[q] = pc[q]
            /\ \A m \in Movie : locked'[m] = q <=> locked[m] = q
        BY <1>4, <2>2, MoviesAssumption DEF TypeOK
      <3>2. \A m \in Movie : locked[m] = q => movies'[m] = movies[m]
        BY <1>2, <2>2 DEF VersionsCurrent
      <3> QED
        BY <3>1, <3>2 DEF VersionsCurrent, Upserted
    <2> QED
      BY <2>1, <2>2
  <1>8. ListCurrent'
    <2>1. \A row \in Listed : movies[row.id] = ReadAs(row) => movies'[row.id] = ReadAs(row)
      BY <1>1 DEF Listed, ReadAs
    <2> QED
      BY <1>4, <2>1 DEF ListCurrent, TypeOK, ReadAs
  <1>9. NothingSkipped'
    BY <1>4 DEF TypeOK, NothingSkipped
  <1> QED
    BY <1>5, <1>6, <1>7, <1>8, <1>9

-----------------------------------------------------------------------------
\* The job and time.

\* A step of the job that neither writes the table nor looks at it.
LEMMA ImportsUntouched ==
    ASSUME Base, UNCHANGED <<movies, locked, imports>>
    PROVE  RowsReleased' /\ VersionsCurrent' /\ NothingSkipped'
  <1> USE DEF Base, imports
  <1>1. RowsReleased'
    BY DEF RowsReleased
  <1>2. VersionsCurrent'
    BY DEF VersionsCurrent, Upserted
  <1>3. NothingSkipped'
    BY DEF NothingSkipped
  <1> QED
    BY <1>1, <1>2, <1>3

LEMMA OutdatedMoviesStep ==
    ASSUME Base, OutdatedMovies
    PROVE  Base'
  <1> USE DEF Base
  <1>1. /\ job = "waiting" /\ movie = Nobody
        /\ UNCHANGED <<movies, locked, imports, stop>>
    BY DEF OutdatedMovies, JobOnly, ListCurrent
  <1>2. CASE UNCHANGED round
    <2> USE <1>1, <1>2 DEF round
    <2>1. TypeOK'
      BY DEF TypeOK, imports
    <2>2. ListCurrent'
      BY DEF ListCurrent, ReadAs
    <2> QED
      BY <2>1, <2>2, ImportsUntouched
  <1>3. CASE /\ list' = {[id |-> m, tmdbID |-> movies[m] = "outdated"] :
                            m \in {n \in Movie : movies[n] \in Outdated}}
             /\ job' = "next"
             /\ UNCHANGED movie
    <2>1. ASSUME NEW row \in list'
          PROVE  row \in Listed /\ movies[row.id] = ReadAs(row)
      <3>1. PICK m \in Movie :
               /\ movies[m] \in Outdated
               /\ row = [id |-> m, tmdbID |-> movies[m] = "outdated"]
        BY <1>3, <2>1
      <3>2. row.id = m /\ row.tmdbID = (movies[m] = "outdated") /\ row \in Listed
        BY <3>1 DEF Listed
      <3>3. CASE movies[m] = "outdated"
        BY <3>2, <3>3 DEF ReadAs
      <3>4. CASE movies[m] = "new"
        BY <3>2, <3>4 DEF ReadAs
      <3> QED
        BY <3>1, <3>2, <3>3, <3>4 DEF Outdated
    <2>2. TypeOK'
      BY <1>1, <1>3, <2>1 DEF TypeOK, JobStage, imports
    <2>3. ListCurrent'
      BY <1>1, <1>3, <2>1 DEF ListCurrent, ReadAs
    <2> QED
      BY <1>1, <2>2, <2>3, ImportsUntouched
  <1> QED
    BY <1>2, <1>3 DEF OutdatedMovies

\* Two rows of a round are those of two movies.
LEMMA NextMovieStep ==
    ASSUME Base, NextMovie
    PROVE  Base'
  <1> USE DEF Base
  <1>1. job = "next" /\ movie = Nobody /\ UNCHANGED <<movies, locked, imports, stop>>
    BY DEF NextMovie, JobOnly, ListCurrent
  <1>2. CASE list = {} /\ job' = "waiting" /\ UNCHANGED <<list, movie>>
    <2>1. TypeOK'
      BY <1>1, <1>2 DEF TypeOK, JobStage, imports
    <2>2. ListCurrent'
      BY <1>1, <1>2 DEF ListCurrent, ReadAs
    <2> QED
      BY <1>1, <2>1, <2>2, ImportsUntouched
  <1>3. CASE list # {}
    <2>1. PICK row \in list : list' = list \ {row} /\ movie' = row /\ job' = "lookup"
      BY <1>3 DEF NextMovie
    <2>2. row \in Listed /\ row # Nobody /\ movies[row.id] = ReadAs(row)
      BY MoviesAssumption DEF TypeOK, ListCurrent
    <2>3. ASSUME NEW other \in list', other.id = row.id
          PROVE  FALSE
      <3>1. other \in Listed /\ ReadAs(other) = ReadAs(row) /\ other # row
        BY <2>1, <2>2, <2>3 DEF TypeOK, ListCurrent
      <3>2. other.tmdbID = row.tmdbID
        BY <2>2, <3>1 DEF ReadAs, Listed
      <3> QED
        BY <2>2, <2>3, <3>1, <3>2 DEF Listed
    <2>4. TypeOK'
      BY <1>1, <2>1, <2>2 DEF TypeOK, JobStage, imports
    <2>5. ListCurrent'
      BY <1>1, <2>1, <2>2, <2>3 DEF ListCurrent, ReadAs
    <2> QED
      BY <1>1, <2>4, <2>5, ImportsUntouched
  <1> QED
    BY <1>2, <1>3 DEF NextMovie

\* The steps that only move the job, or leave its movie.
LEMMA LookupStep ==
    ASSUME Base, Lookup \/ FetchExternalIDs \/ UpdateFails
    PROVE  Base'
  <1> USE DEF Base
  <1>1. /\ job \in {"lookup", "externalIDs", "update", "disable"} /\ movie # Nobody
        /\ UNCHANGED <<movies, locked, imports, stop>>
    BY DEF Lookup, FetchExternalIDs, UpdateFails, JobOnly, ListCurrent
  <1>2. \/ job' = "next" /\ movie' = Nobody /\ list' = list
        \/ job' = "panicked" /\ movie' = Nobody /\ list' = {}
        \/ job' = "update" /\ movie' = movie /\ list' = list
        \/ job' \in {"externalIDs", "disable"} /\ ~movie.tmdbID /\ movie' = movie /\ list' = list
    BY DEF Lookup, FetchExternalIDs, UpdateFails, Skip
  <1>3. TypeOK'
    BY <1>1, <1>2 DEF TypeOK, JobStage, imports
  <1>4. ListCurrent'
    BY <1>1, <1>2 DEF ListCurrent, ReadAs
  <1> QED
    BY <1>1, <1>3, <1>4, ImportsUntouched

\* The row the job writes is as it has read it, and no import has it.
LEMMA UpdateStep ==
    ASSUME Base,
           \/ Update("update", "fresh")
           \/ Update("disable", "disabled")
    PROVE  /\ Base'
           /\ movie \in Listed
           /\ \A m \in Movie : m # movie.id => movies'[m] = movies[m]
           /\ \/ movies[movie.id] \in Outdated /\ movies'[movie.id] = "fresh"
              \/ movies[movie.id] = "new" /\ movies'[movie.id] = "disabled"
  <1> PICK status \in {"fresh", "disabled"} :
        /\ job = IF status = "fresh" THEN "update" ELSE "disable"
        /\ Update(job, status)
    BY DEF Update
  <1> DEFINE n == movie.id
  <1>1. /\ locked[n] = Nobody
        /\ movies' = [movies EXCEPT ![n] = status]
        /\ job' = "next" /\ movie' = Nobody /\ list' = list
        /\ UNCHANGED <<locked, imports, stop>>
    BY DEF Update, Skip, JobOnly
  <1>2. movie # Nobody
    BY DEF Base, ListCurrent
  <1>3. movie \in Listed /\ n \in Movie /\ movie.tmdbID \in BOOLEAN
    BY <1>2 DEF Base, TypeOK, Listed
  <1>4. /\ movies[n] = ReadAs(movie)
        /\ \A row \in list : row.id # n
        /\ status = "disabled" => ~movie.tmdbID
    BY <1>2 DEF Base, ListCurrent
  <1> HIDE DEF n
  <1>5. \A m \in Movie : movies'[m] = IF m = n THEN status ELSE movies[m]
    BY <1>1, <1>3 DEF Base, TypeOK
  <1>6. /\ \A m \in Movie : m # n => movies'[m] = movies[m]
        /\ \/ movies[n] \in Outdated /\ movies'[n] = "fresh"
           \/ movies[n] = "new" /\ movies'[n] = "disabled"
    BY <1>3, <1>4, <1>5 DEF ReadAs, Outdated
  <1>7. TypeOK'
    BY <1>1, <1>3 DEF Base, TypeOK, Row, JobStage, imports
  <1>8. RowsReleased'
    BY <1>1 DEF Base, RowsReleased, imports
  <1>9. VersionsCurrent'
    <2>1. \A p \in Fetch, m \in Movie : locked[m] = p => Upserted(m)' = Upserted(m)
      BY <1>1, <1>5, MoviesAssumption DEF Upserted
    <2> QED
      BY <1>1, <2>1 DEF Base, VersionsCurrent, imports
  <1>10. ListCurrent'
    <2>1. \A row \in list : row.id \in Movie /\ row.id # n
      BY <1>4 DEF Base, TypeOK, Listed
    <2> QED
      BY <1>1, <1>5, <2>1 DEF Base, ListCurrent, ReadAs
  <1>11. NothingSkipped'
    BY <1>1 DEF Base, NothingSkipped, imports
  <1> QED
    BY <1>3, <1>6, <1>7, <1>8, <1>9, <1>10, <1>11 DEF Base, n

LEMMA StopStep ==
    ASSUME Base, Stop \/ Exit \/ Restart
    PROVE  Base'
  <1> USE DEF Base
  <1>1. UNCHANGED <<movies, locked, imports>>
    BY DEF Stop, Exit, Restart
  <1>2. stop' \in BOOLEAN
    BY DEF Stop, Exit, Restart, TypeOK
  <1>3. \/ UNCHANGED round
        \/ job' = "exited" /\ list' = {} /\ movie' = Nobody
        \/ job \in {"panicked", "exited"} /\ job' = "waiting" /\ list' = list /\ movie' = movie
    BY DEF Stop, Exit, Restart
  <1>4. TypeOK'
    BY <1>1, <1>2, <1>3 DEF TypeOK, JobStage, imports, round
  <1>5. ListCurrent'
    BY <1>1, <1>3 DEF ListCurrent, ReadAs, round
  <1> QED
    BY <1>1, <1>4, <1>5, ImportsUntouched

\* Time passes for the row and for the version an import has of it.
LEMMA AgeStep ==
    ASSUME Base, NEW n \in Movie, Age(n)
    PROVE  Base'
  <1>1. /\ movies[n] = "fresh"
        /\ movies' = [movies EXCEPT ![n] = "outdated"]
        /\ UNCHANGED <<locked, pc, tx, todo, items, list, movie, job, stop>>
    BY DEF Age, round
  <1>2. \A m \in Movie : movies'[m] = IF m = n THEN "outdated" ELSE movies[m]
    BY <1>1 DEF Base, TypeOK
  <1>3. \A p \in Fetch, m \in Movie :
           written'[p][m] =
               IF m = n /\ written[p][m] = "fresh" THEN "outdated" ELSE written[p][m]
    BY DEF Age, Base, TypeOK
  <1>4. TypeOK'
    <2>1. written' \in [Fetch -> [Movie -> Row \cup {"absent"}]]
      BY DEF Age, Base, TypeOK, Row
    <2>2. movies' \in [Movie -> Row \cup {"absent"}]
      BY <1>1 DEF Base, TypeOK, Row
    <2> QED
      BY <1>1, <2>1, <2>2 DEF Base, TypeOK
  <1>5. RowsReleased'
    BY <1>1 DEF Base, RowsReleased
  <1>6. VersionsCurrent'
    <2> SUFFICES ASSUME NEW p \in Fetch, NEW m \in Movie
                 PROVE  /\ written'[p][m] # "absent" <=> locked[m] = p
                        /\ locked[m] = p => written'[p][m] = Upserted(m)'
      BY <1>1 DEF Base, VersionsCurrent
    <2>1. /\ written[p][m] # "absent" <=> locked[m] = p
          /\ locked[m] = p => written[p][m] = Upserted(m)
      BY DEF Base, VersionsCurrent
    <2> QED
      BY <1>1, <1>2, <1>3, <2>1 DEF Upserted
  <1>7. ListCurrent'
    <2>1. \A row \in Listed : movies[row.id] = ReadAs(row) => movies'[row.id] = ReadAs(row)
      BY <1>1, <1>2 DEF Listed, ReadAs
    <2> QED
      BY <1>1, <2>1 DEF Base, ListCurrent, TypeOK, ReadAs
  <1>8. NothingSkipped'
    <2>1. \A p \in Fetch, m \in Movie : written[p][m] # "absent" => written'[p][m] # "absent"
      BY <1>3
    <2> QED
      BY <1>1, <2>1 DEF Base, NothingSkipped, TypeOK
  <1> QED
    BY <1>4, <1>5, <1>6, <1>7, <1>8 DEF Base

-----------------------------------------------------------------------------
\* One step of Next, or none.
LEMMA BaseStep == Base /\ [Next]_vars => Base'
  <1> SUFFICES ASSUME Base, [Next]_vars PROVE Base'
    OBVIOUS
  <1>1. ASSUME NEW p \in Fetch, Arrive(p) \/ Import(p) \/ UpsertMovieFails(p)
        PROVE  Base'
    <2>1. CASE Arrive(p)
      BY <2>1, ArriveStep
    <2>2. CASE CurrentMovies(p)
      BY <2>2, CurrentMoviesStep
    <2>3. CASE BeginTX(p)
      BY <2>3, BeginTXStep
    <2>4. CASE UpsertMovie(p)
      BY <2>4, UpsertMovieStep
    <2>5. CASE Commit(p)
      BY <2>5, CommitStep
    <2>6. CASE UpsertMovieFails(p)
      BY <2>6, UpsertMovieFailsStep
    <2> QED
      BY <1>1, <2>1, <2>2, <2>3, <2>4, <2>5, <2>6 DEF Import
  <1>2. CASE Popularity \/ UpdateFails
    <2>1. CASE OutdatedMovies
      BY <2>1, OutdatedMoviesStep
    <2>2. CASE NextMovie
      BY <2>2, NextMovieStep
    <2>3. CASE Lookup \/ FetchExternalIDs \/ UpdateFails
      BY <2>3, LookupStep
    <2>4. CASE UpdateMoviePopularity \/ DisableMoviePopularity
      BY <2>4, UpdateStep DEF UpdateMoviePopularity, DisableMoviePopularity
    <2> QED
      BY <1>2, <2>1, <2>2, <2>3, <2>4 DEF Popularity
  <1>3. CASE Stop \/ Exit \/ Restart
    BY <1>3, StopStep
  <1>4. ASSUME NEW m \in Movie, Age(m) PROVE Base'
    BY <1>4, AgeStep
  <1>5. CASE UNCHANGED vars
    <2>1. UNCHANGED <<movies, locked, imports, round, stop>>
      BY <1>5 DEF vars
    <2>2. TypeOK' /\ ListCurrent'
      BY <2>1 DEF Base, TypeOK, ListCurrent, ReadAs, imports, round
    <2> QED
      BY <2>1, <2>2, ImportsUntouched DEF Base
  <1> QED
    BY <1>1, <1>2, <1>3, <1>4, <1>5 DEF Next

-----------------------------------------------------------------------------
(***************************************************************************)
(* No movie comes twice: a transaction never has an upsert wait for itself.*)
(***************************************************************************)
LEMMA EachOnceStep ==
    ASSUME Base, EachOnce, [Next]_vars
    PROVE  EachOnce'
  <1> USE DEF EachOnce
  <1>1. ASSUME NEW p \in Fetch, UpsertMovie(p)
        PROVE  EachOnce'
    <2> DEFINE n == Head(todo[p])
    <2>1. /\ tx[p] = "open" /\ todo[p] # <<>>
          /\ written' = [written EXCEPT ![p][n] = Upserted(n)]
          /\ todo' = [todo EXCEPT ![p] = Tail(@)]
          /\ UNCHANGED <<pc, tx>>
      BY <1>1 DEF UpsertMovie
    <2>2. todo[p] \in Seq(Movie) /\ written \in [Fetch -> [Movie -> Row \cup {"absent"}]]
          /\ todo \in [Fetch -> Seq(Movie)]
      BY DEF Base, TypeOK
    <2> SUFFICES ASSUME NEW q \in Fetch, pc[q] = "TX" \/ tx[q] = "open",
                        NEW i \in DOMAIN todo'[q]
                 PROVE  /\ written'[q][todo'[q][i]] = "absent"
                        /\ \A j \in DOMAIN todo'[q] : todo'[q][i] = todo'[q][j] => i = j
      BY <2>1
    <2>3. CASE q = p
      <3>1. /\ todo'[q] = Tail(todo[p])
            /\ \A k \in DOMAIN Tail(todo[p]) :
                  k \in Nat /\ k + 1 \in DOMAIN todo[p] /\ Tail(todo[p])[k] = todo[p][k + 1]
        BY <2>1, <2>2, <2>3
      <3>2. 1 \in DOMAIN todo[p] /\ n = todo[p][1] /\ n \in Movie
        BY <2>1, <2>2
      <3>3. todo'[q][i] # n /\ todo'[q][i] \in Movie
        BY <2>1, <2>2, <2>3, <3>1, <3>2
      <3>4. written'[q][todo'[q][i]] = written[q][todo'[q][i]]
        BY <2>1, <2>2, <2>3, <3>2, <3>3
      <3> QED
        BY <2>1, <2>3, <3>1, <3>4
    <2>4. CASE q # p
      BY <2>1, <2>2, <2>4
    <2> QED
      BY <2>3, <2>4
  <1>2. ASSUME NEW p \in Fetch, CurrentMovies(p)
        PROVE  EachOnce'
    <2>1. CASE Finish(p)
      BY <1>2, <2>1 DEF CurrentMovies, Finish, Goto, Base, TypeOK, VersionsCurrent
    <2>2. CASE ~Finish(p)
      <3>1. PICK answer \in SUBSET Movie : \E order \in Orders(answer) :
               /\ todo' = [todo EXCEPT ![p] = order]
               /\ pc' = [pc EXCEPT ![p] = "TX"]
        BY <1>2, <2>2 DEF CurrentMovies, Goto
      <3>2. PICK order \in Orders(answer) :
               /\ todo' = [todo EXCEPT ![p] = order]
               /\ pc' = [pc EXCEPT ![p] = "TX"]
        BY <3>1
      <3>3. /\ order \in Seq(Movie)
            /\ \A i, j \in DOMAIN order : order[i] = order[j] => i = j
        BY OrdersType
      <3>4. \A m \in Movie : written[p][m] = "absent"
        <4>1. p # Nobody /\ pc[p] = "CurrentMovies"
          BY <1>2, MoviesAssumption DEF CurrentMovies
        <4>2. \A m \in Movie : locked[m] # p
          BY <4>1 DEF Base, RowsReleased
        <4> QED
          BY <4>2 DEF Base, VersionsCurrent
      <3>5. UNCHANGED <<written, tx>> /\ pc[p] = "CurrentMovies"
        BY <1>2 DEF CurrentMovies
      <3> QED
        BY <3>2, <3>3, <3>4, <3>5 DEF Base, TypeOK
    <2> QED
      BY <2>1, <2>2
  <1>3. ASSUME NEW p \in Fetch, BeginTX(p)
        PROVE  EachOnce'
    BY <1>3 DEF BeginTX, Finish, Goto, Base, TypeOK, VersionsCurrent
  <1>4. ASSUME NEW p \in Fetch, UpsertMovieFails(p) \/ Commit(p)
        PROVE  EachOnce'
    <2>1. /\ pc[p] = "UpsertMovie" /\ pc'[p] # "TX" /\ tx'[p] # "open"
          /\ \A q \in Fetch \ {p} : /\ pc'[q] = pc[q] /\ tx'[q] = tx[q]
                                    /\ todo'[q] = todo[q] /\ written'[q] = written[q]
      BY <1>4 DEF UpsertMovieFails, Commit, EndTX, Finish, Goto, Base, TypeOK
    <2> QED
      BY <2>1
  <1>5. ASSUME NEW p \in Fetch, Arrive(p)
        PROVE  EachOnce'
    BY <1>5 DEF Arrive, Goto, Base, TypeOK
  <1>6. ASSUME NEW m \in Movie, Age(m)
        PROVE  EachOnce'
    <2>1. \A q \in Fetch, n \in Movie : written[q][n] = "absent" => written'[q][n] = "absent"
      BY <1>6 DEF Age, Base, TypeOK
    <2>2. \A q \in Fetch : \A i \in DOMAIN todo[q] : todo[q][i] \in Movie
      BY DEF Base, TypeOK
    <2> QED
      BY <1>6, <2>1, <2>2 DEF Age
  <1>7. CASE UNCHANGED imports
    BY <1>7 DEF imports
  <1>8. \/ \E p \in Fetch : \/ Arrive(p) \/ CurrentMovies(p) \/ BeginTX(p) \/ UpsertMovie(p)
                           \/ Commit(p) \/ UpsertMovieFails(p)
        \/ \E m \in Movie : Age(m)
        \/ UNCHANGED imports
    BY DEF Next, Import, Popularity, OutdatedMovies, NextMovie, Lookup, UpdateMoviePopularity,
           DisableMoviePopularity, Update, JobOnly, FetchExternalIDs, UpdateFails, Stop, Exit,
           Restart, vars
  <1> QED
    BY <1>1, <1>2, <1>3, <1>4, <1>5, <1>6, <1>7, <1>8

LEMMA StepInv == IInv /\ [Next]_vars => IInv'
  BY BaseStep, EachOnceStep DEF IInv, Base

\* IInv is inductive: the rows, the locks, the versions and the lists agree
\* in every state, whatever fails.
THEOREM Inductive == Spec => []IInv
  <1>1. Init => IInv
    BY Initially DEF Init, IInv, Base, EachOnce
  <1> QED
    BY <1>1, StepInv, PTL DEF Spec

\* Every variable keeps its type.
THEOREM TypeCorrect == Spec => []TypeOK
  <1>1. IInv => TypeOK
    BY DEF IInv
  <1> QED
    BY <1>1, Inductive, PTL

\* No request that has been answered, and none that a query has aborted,
\* keeps a row from the others.
THEOREM RowsAlwaysReleased == Spec => []RowsReleased
  <1>1. IInv => RowsReleased
    BY DEF IInv
  <1> QED
    BY <1>1, Inductive, PTL

\* The imports and the job never undo what the other has written.
THEOREM NothingUndone == Spec => NoLostUpdate
  <1> DEFINE Grows ==
        \A m \in Movie : movies'[m] # movies[m] =>
            \/ movies[m] = "absent" /\ movies'[m] = "new"
            \/ movies[m] \in Outdated /\ movies'[m] = "fresh"
            \/ movies[m] = "new" /\ movies'[m] = "disabled"
            \/ movies[m] = "fresh" /\ movies'[m] = "outdated"
  <1>1. ASSUME IInv, [Next]_vars PROVE [Grows]_vars
    <2>1. ASSUME NEW p \in Fetch, Commit(p) PROVE Grows
      BY <1>1, <2>1, CommitPublishes DEF IInv, Base
    <2>2. CASE UpdateMoviePopularity \/ DisableMoviePopularity
      BY <1>1, <2>2, UpdateStep DEF IInv, Base, UpdateMoviePopularity, DisableMoviePopularity
    <2>3. ASSUME NEW m \in Movie, Age(m) PROVE Grows
      BY <1>1, <2>3 DEF Age, IInv, TypeOK
    <2>4. CASE UNCHANGED movies
      BY <2>4
    <2>5. \/ UNCHANGED movies
          \/ \E p \in Fetch : Commit(p)
          \/ UpdateMoviePopularity \/ DisableMoviePopularity
          \/ \E m \in Movie : Age(m)
      BY <1>1 DEF Next, Import, Arrive, CurrentMovies, BeginTX, UpsertMovie,
                  UpsertMovieFails, Popularity, OutdatedMovies, NextMovie, Lookup,
                  FetchExternalIDs, UpdateFails, Stop, Exit, Restart, vars
    <2> QED
      BY <2>1, <2>2, <2>3, <2>4, <2>5
  <1> QED
    BY <1>1, Inductive, PTL DEF Spec, NoLostUpdate

\* A request stores every movie it was answered, or none of them.
THEOREM ImportsTogether == Spec => ImportAllOrNothing
  <1> DEFINE Together ==
        \A p \in Fetch : pc[p] # "idle" /\ pc'[p] = "idle" =>
            (\A m \in items[p] : movies'[m] # "absent") \/ movies' = movies
  <1>1. ASSUME IInv, [Next]_vars PROVE [Together]_vars
    <2> SUFFICES ASSUME NEW p \in Fetch, pc[p] # "idle", pc'[p] = "idle",
                        movies' # movies, NEW m \in items[p]
                 PROVE  movies'[m] # "absent"
      OBVIOUS
    <2>1. PICK q \in Fetch : Commit(q) /\ q = p
      BY <1>1 DEF Next, Import, Arrive, CurrentMovies, BeginTX, UpsertMovie, Commit, Finish,
                  UpsertMovieFails, Popularity, OutdatedMovies, NextMovie, Lookup,
                  UpdateMoviePopularity, DisableMoviePopularity, Update, JobOnly, Age,
                  FetchExternalIDs, UpdateFails, Stop, Exit, Restart, vars, imports,
                  Goto, IInv, TypeOK
    <2>2. /\ tx[p] = "open" /\ todo[p] = <<>>
          /\ movies' = [n \in Movie |->
                 IF written[p][n] # "absent" THEN written[p][n] ELSE movies[n]]
      BY <2>1 DEF Commit
    <2>3. m \in Movie /\ written[p][m] # "absent"
      BY <1>1, <2>2 DEF IInv, TypeOK, NothingSkipped
    <2> QED
      BY <2>2, <2>3
  <1> QED
    BY <1>1, Inductive, PTL DEF Spec, ImportAllOrNothing

-----------------------------------------------------------------------------
(***************************************************************************)
(* Progress.  Whoever cannot go on waits for a transaction that is at an   *)
(* upsert as well; if none of them can go on, some of them wait in a       *)
(* circle, which Postgres breaks.                                          *)
(***************************************************************************)
LEMMA WaiterHasHolder ==
    ASSUME IInv, NEW p \in Fetch, pc[p] # "idle", ~CanGoOn(p)
    PROVE  \E q \in Fetch : <<p, q>> \in Waits /\ pc[q] # "idle"
  <1> DEFINE n == Head(todo[p])
  <1>1. /\ pc[p] = "UpsertMovie" /\ todo[p] # <<>> /\ tx[p] # "aborted"
        /\ locked[n] # Nobody
    BY DEF CanGoOn, MustFail, IInv, TypeOK, Stage
  <1>2. 1 \in DOMAIN todo[p] /\ n = todo[p][1] /\ n \in Movie
    BY <1>1 DEF IInv, TypeOK
  <1>3. tx[p] = "open"
    BY <1>1 DEF IInv, TypeOK, VersionsCurrent
  <1>4. locked[n] \in Fetch /\ pc[locked[n]] = "UpsertMovie"
    BY <1>1, <1>2 DEF IInv, TypeOK, RowsReleased
  <1>5. locked[n] # p
    BY <1>2, <1>3 DEF IInv, EachOnce, VersionsCurrent
  <1> HIDE DEF n
  <1>6. <<p, locked[n]>> \in Waits
    BY <1>1, <1>3, <1>4, <1>5 DEF Waits, WaitsFor, n
  <1> QED
    BY <1>4, <1>6

\* Whatever the orders in which the imports lock the rows, those that wait
\* wait for one that goes on.
THEOREM NobodyIsStuck == Spec => []NobodyStuck
  <1>1. ASSUME IInv PROVE NobodyStuck
    <2> SUFFICES ASSUME NEW S \in SUBSET Fetch, Alone(Waits, S),
                        NEW p \in S, pc[p] # "idle",
                        \A q \in S : ~CanGoOn(q)
                 PROVE  FALSE
      BY DEF NobodyStuck
    <2> DEFINE T == {q \in S : pc[q] # "idle"}
    <2>1. IsFiniteSet(T) /\ T # {}
      BY MoviesAssumption, FS_Subset
    <2>2. Depend(Waits, T)
      <3> SUFFICES ASSUME NEW q \in T PROVE \E r \in T : <<q, r>> \in Waits
        BY DEF Depend
      <3>1. PICK r \in Fetch : <<q, r>> \in Waits /\ pc[r] # "idle"
        BY <1>1, WaiterHasHolder
      <3>2. r \in S
        BY <3>1 DEF Alone, WaitedFor
      <3> QED
        BY <3>1, <3>2
    <2>3. PICK q \in T : InCircle(Waits, q)
      <3> HIDE DEF T
      <3> QED
        BY <2>1, <2>2, CircleExists
    <2>4. pc[q] = "UpsertMovie" /\ todo[q] # <<>>
      BY <1>1 DEF CanGoOn, IInv, TypeOK, Stage
    <2> QED
      BY <2>3, <2>4 DEF CanGoOn, MustFail
  <1> QED
    BY <1>1, Inductive, PTL
=============================================================================
