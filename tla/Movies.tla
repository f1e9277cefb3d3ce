------------------------------- MODULE Movies -------------------------------
(***************************************************************************)
(* The table of movies and the two programs that write it.                 *)
(*                                                                         *)
(* The server's FetchNewMoviesFromFilmstaden (movies.resolvers.go) upserts *)
(* all current movies in one transaction.  It takes them from a Go map, so *)
(* every request locks the rows in an order of its own.                    *)
(*                                                                         *)
(* The job cmd/popularity looks up each outdated movie at TMDB and writes  *)
(* its popularity, one query a movie, from a list it has read at the start *)
(* of the round.  It runs until it is told to stop, or until it panics: a  *)
(* failed request for the external ids may leave a nil pointer it reads.   *)
(***************************************************************************)
EXTENDS Naturals, Sequences, FiniteSets, Deadlocks

CONSTANTS
    Movie,          \* movies at Filmstaden, by filmstaden_id
    Fetch,          \* requests to FetchNewMoviesFromFilmstaden
    Nobody

VARIABLES
    movies,         \* table movies, as committed: how each is known at TMDB
    locked,         \* the transaction that has inserted or locked a row
    pc,             \* the step each request is at
    tx,             \* its transaction
    written,        \* the rows its transaction has written
    todo,           \* the movies it has yet to upsert
    items,          \* history: the movies Filmstaden answered
    job,            \* the step the job is at
    list,           \* OutdatedMovies: the rest of the round
    movie,          \* the movie it is at; was its tmdb_id valid?
    stop            \* its context is cancelled

imports == <<pc, tx, written, todo, items>>
round == <<job, list, movie>>
vars == <<movies, locked, imports, round, stop>>

\* A row of the table: never looked up; its popularity less than seven days
\* old, or older; or popularity = -1, never to be looked up again.
Row == {"new", "fresh", "outdated", "disabled"}
Outdated == {"new", "outdated"}
Listed == [id : Movie, tmdbID : BOOLEAN]
NoRows == [m \in Movie |-> "absent"]

ASSUME MoviesAssumption ==
    /\ IsFiniteSet(Movie) /\ IsFiniteSet(Fetch)
    /\ Nobody \notin Fetch \cup Listed

\* The orders in which a Go map may hand out its entries.
Orders(S) ==
    {order \in [1..Cardinality(S) -> S] : \A m \in S : \E i \in DOMAIN order : order[i] = m}

Stage == {"idle", "CurrentMovies", "TX", "UpsertMovie"}
JobStage == {"waiting", "next", "lookup", "externalIDs", "update", "disable",
             "panicked", "exited"}

Init ==
    /\ movies \in [Movie -> Row \cup {"absent"}]
    /\ locked = [m \in Movie |-> Nobody]
    /\ pc = [p \in Fetch |-> "idle"]
    /\ tx = [p \in Fetch |-> "none"]
    /\ written = [p \in Fetch |-> NoRows]
    /\ todo = [p \in Fetch |-> <<>>]
    /\ items = [p \in Fetch |-> {}]
    /\ job = "waiting"
    /\ list = {}
    /\ movie = Nobody
    /\ stop = FALSE

-----------------------------------------------------------------------------
(***************************************************************************)
(* FetchNewMoviesFromFilmstaden.                                           *)
(***************************************************************************)
Goto(p, stage) == pc' = [pc EXCEPT ![p] = stage]

\* The request is answered, ok or with an error.
Finish(p) ==
    /\ Goto(p, "idle")
    /\ todo' = [todo EXCEPT ![p] = <<>>]
    /\ items' = [items EXCEPT ![p] = {}]

\* Mutant: an early return that keeps the transaction.
EndTXKept(p, outcome) ==
    /\ tx' = [tx EXCEPT ![p] = outcome]
    /\ UNCHANGED locked
    /\ written' = [written EXCEPT ![p] = NoRows]

EndTX(p, outcome) ==
    /\ tx' = [tx EXCEPT ![p] = outcome]
    /\ locked' = [m \in Movie |-> IF locked[m] = p THEN Nobody ELSE locked[m]]
    /\ written' = [written EXCEPT ![p] = NoRows]

Arrive(p) ==
    /\ pc[p] = "idle"
    /\ Goto(p, "CurrentMovies")
    /\ UNCHANGED <<movies, locked, tx, written, todo, items, round, stop>>

\* The movies of the current shows merged with the upcoming ones, any of
\* which Filmstaden may fail to answer.  Without any answer the merged list
\* is nil and the resolver panics; gqlgen answers an error.
CurrentMovies(p) ==
    /\ pc[p] = "CurrentMovies"
    /\ \/ Finish(p)
       \/ \E answer \in SUBSET Movie :
             /\ items' = [items EXCEPT ![p] = answer]
             /\ \E order \in Orders(answer) : todo' = [todo EXCEPT ![p] = order]
             /\ Goto(p, "TX")
    /\ UNCHANGED <<movies, locked, tx, written, round, stop>>

BeginTX(p) ==
    /\ pc[p] = "TX"
    /\ \/ Finish(p) /\ UNCHANGED tx
       \/ /\ tx' = [tx EXCEPT ![p] = "open"]
          /\ Goto(p, "UpsertMovie")
          /\ UNCHANGED <<todo, items>>
    /\ UNCHANGED <<movies, locked, written, round, stop>>

\* Mutant: the upsert sets every column, those of the job to their defaults.
UpsertedWhole(m) == "new"

\* The row an upsert leaves: inserted with the defaults of the table, or,
\* after a conflict on filmstaden_id, as it was but for poster and dates.
Upserted(m) == IF movies[m] = "absent" THEN "new" ELSE movies[m]

\* INSERT ... ON CONFLICT DO UPDATE waits for a transaction that has
\* inserted or locked the row.
UpsertMovie(p) ==
    LET m == Head(todo[p]) IN
    /\ pc[p] = "UpsertMovie" /\ todo[p] # <<>>
    /\ tx[p] = "open"
    /\ locked[m] = Nobody
    /\ locked' = [locked EXCEPT ![m] = p]
    /\ written' = [written EXCEPT ![p][m] = Upserted(m)]
    /\ todo' = [todo EXCEPT ![p] = Tail(@)]
    /\ UNCHANGED <<movies, pc, tx, items, round, stop>>

\* Mutant: each upsert commits by itself.
UpsertMovieFailsAlone(p) ==
    /\ pc[p] = "UpsertMovie" /\ todo[p] # <<>>
    /\ todo' = [todo EXCEPT ![p] = Tail(@)]
    /\ UNCHANGED <<movies, locked, tx, written, pc, items, round, stop>>

\* A row the table refuses, a lost connection, a transaction that is aborted
\* already or that Postgres ends because it waits in a circle: Postgres
\* aborts the transaction, while the resolver logs and continues.
UpsertMovieFails(p) ==
    /\ pc[p] = "UpsertMovie" /\ todo[p] # <<>>
    /\ EndTX(p, "aborted")
    /\ todo' = [todo EXCEPT ![p] = Tail(@)]
    /\ UNCHANGED <<movies, pc, items, round, stop>>

\* What is committed, and then read back for the answer, which may fail; or
\* the commit fails, as it does after an upsert has failed.
Commit(p) ==
    /\ pc[p] = "UpsertMovie" /\ todo[p] = <<>>
    /\ \/ /\ tx[p] = "open"
          /\ movies' = [m \in Movie |->
                 IF written[p][m] # "absent" THEN written[p][m] ELSE movies[m]]
       \/ UNCHANGED movies
    /\ Finish(p)
    /\ EndTX(p, "none")
    /\ UNCHANGED <<round, stop>>

-----------------------------------------------------------------------------
(***************************************************************************)
(* The popularity job.  Its queries run by themselves.                     *)
(***************************************************************************)
JobOnly == UNCHANGED <<locked, imports, stop>>

\* Mutant: the query does not leave out popularity = -1.
OutdatedMoviesAgain ==
    /\ job = "waiting" /\ ~stop
    /\ \/ UNCHANGED round
       \/ /\ list' = {[id |-> m, tmdbID |-> movies[m] = "outdated"] :
                         m \in {n \in Movie : movies[n] \notin {"absent", "fresh"}}}
          /\ job' = "next"
          /\ UNCHANGED movie
    /\ UNCHANGED movies /\ JobOnly

\* The ticker fires: SELECT the movies whose popularity is neither recent
\* nor -1.  After a failure the job waits for the next tick.
OutdatedMovies ==
    /\ job = "waiting" /\ ~stop
    /\ \/ UNCHANGED round
       \/ /\ list' = {[id |-> m, tmdbID |-> movies[m] = "outdated"] :
                         m \in {n \in Movie : movies[n] \in Outdated}}
          /\ job' = "next"
          /\ UNCHANGED movie
    /\ UNCHANGED movies /\ JobOnly

\* Rows come in random order.
NextMovie ==
    /\ job = "next" /\ ~stop
    /\ IF list = {}
       THEN job' = "waiting" /\ UNCHANGED <<list, movie>>
       ELSE \E row \in list :
               /\ list' = list \ {row}
               /\ movie' = row
               /\ job' = "lookup"
    /\ UNCHANGED movies /\ JobOnly

\* On to the next movie of the round.
Skip ==
    /\ job' = "next"
    /\ movie' = Nobody
    /\ UNCHANGED list

\* MovieDetails by the id of the row; or a search, that finds a movie whose
\* external ids are still to be fetched, or none.
Lookup ==
    /\ job = "lookup"
    /\ \/ Skip
       \/ movie.tmdbID /\ job' = "update" /\ UNCHANGED <<list, movie>>
       \/ ~movie.tmdbID /\ job' \in {"externalIDs", "disable"} /\ UNCHANGED <<list, movie>>
    /\ UNCHANGED movies /\ JobOnly

\* A failed request, as one whose context is cancelled, is only logged: what
\* follows may read externalIDs.ImdbID of a nil pointer, or a zero value.
FetchExternalIDs ==
    /\ job = "externalIDs"
    /\ \/ job' = "update" /\ UNCHANGED <<list, movie>>
       \/ job' = "panicked" /\ list' = {} /\ movie' = Nobody
    /\ UNCHANGED movies /\ JobOnly

\* UPDATE movies ... WHERE id = $movie waits for a transaction that has the
\* row.
Update(step, status) ==
    /\ job = step /\ ~stop
    /\ locked[movie.id] = Nobody
    /\ movies' = [movies EXCEPT ![movie.id] = status]
    /\ Skip
    /\ JobOnly

UpdateMoviePopularity == Update("update", "fresh")
DisableMoviePopularity == Update("disable", "disabled")

\* An error is logged.
UpdateFails ==
    /\ job \in {"update", "disable"}
    /\ Skip
    /\ UNCHANGED movies /\ JobOnly

\* The context is cancelled: the loops look at it between two movies and
\* between two rounds.
Stop ==
    /\ stop' = TRUE
    /\ UNCHANGED <<movies, locked, imports, round>>

\* Mutant: only the loop over the movies looks at the context.
ExitRound ==
    /\ stop
    /\ job = "next"
    /\ job' = "waiting" /\ list' = {} /\ movie' = Nobody
    /\ UNCHANGED <<movies, locked, imports, stop>>

Exit ==
    /\ stop
    /\ job \in {"waiting", "next"}
    /\ job' = "exited" /\ list' = {} /\ movie' = Nobody
    /\ UNCHANGED <<movies, locked, imports, stop>>

\* Somebody starts the job again.
Restart ==
    /\ job \in {"panicked", "exited"}
    /\ job' = "waiting"
    /\ stop' = FALSE
    /\ UNCHANGED <<movies, locked, imports, list, movie>>

\* Seven days pass, for the row as for a new version of it.
Age(m) ==
    /\ movies[m] = "fresh"
    /\ movies' = [movies EXCEPT ![m] = "outdated"]
    /\ written' = [p \in Fetch |->
           IF written[p][m] = "fresh" THEN [written[p] EXCEPT ![m] = "outdated"] ELSE written[p]]
    /\ UNCHANGED <<locked, pc, tx, todo, items, round, stop>>

-----------------------------------------------------------------------------
Import(p) == CurrentMovies(p) \/ BeginTX(p) \/ UpsertMovie(p) \/ Commit(p)

Popularity ==
    \/ OutdatedMovies \/ NextMovie \/ Lookup \/ FetchExternalIDs
    \/ UpdateMoviePopularity \/ DisableMoviePopularity

Next ==
    \/ \E p \in Fetch : Arrive(p) \/ Import(p) \/ UpsertMovieFails(p)
    \/ Popularity \/ UpdateFails \/ Stop \/ Exit \/ Restart
    \/ \E m \in Movie : Age(m)

\* A transaction does not wait for what it has locked itself.
WaitsFor(p, q) ==
    /\ q # p
    /\ pc[p] = "UpsertMovie" /\ todo[p] # <<>> /\ tx[p] = "open"
    /\ locked[Head(todo[p])] = q

Waits == {w \in Fetch \X Fetch : WaitsFor(w[1], w[2])}

\* An upsert that cannot succeed fails.
MustFail(p) ==
    /\ pc[p] = "UpsertMovie" /\ todo[p] # <<>>
    /\ tx[p] = "aborted" \/ InCircle(Waits, p)

\* Requests and the job keep running, Postgres hands out row locks in turn,
\* and a query whose context is cancelled fails.
Fairness ==
    /\ \A p \in Fetch : SF_vars(Import(p)) /\ WF_vars(MustFail(p) /\ UpsertMovieFails(p))
    /\ SF_vars(Popularity) /\ WF_vars(stop /\ UpdateFails) /\ WF_vars(Exit)

Spec == Init /\ [][Next]_vars
FairSpec == Spec /\ Fairness
-----------------------------------------------------------------------------
(***************************************************************************)
(* Properties.                                                             *)
(***************************************************************************)
TypeOK ==
    /\ movies \in [Movie -> Row \cup {"absent"}]
    /\ locked \in [Movie -> Fetch \cup {Nobody}]
    /\ pc \in [Fetch -> Stage]
    /\ tx \in [Fetch -> {"none", "open", "aborted"}]
    /\ written \in [Fetch -> [Movie -> Row \cup {"absent"}]]
    /\ todo \in [Fetch -> Seq(Movie)]
    /\ items \in [Fetch -> SUBSET Movie]
    /\ job \in JobStage
    /\ list \subseteq Listed
    /\ movie \in Listed \cup {Nobody}
    /\ stop \in BOOLEAN

\* A request that has been answered holds no row, whatever failed before.
RowsReleased ==
    \A m \in Movie : locked[m] # Nobody =>
        tx[locked[m]] = "open" /\ pc[locked[m]] = "UpsertMovie"

\* The import and the job write the same rows and never undo each other: a
\* movie only appears, is looked up, grows old, or is disabled, and "future
\* queries for this movie" (updater.go:76) are disabled for good.
NoLostUpdate ==
    [][\A m \in Movie : movies'[m] # movies[m] =>
          \/ movies[m] = "absent" /\ movies'[m] = "new"
          \/ movies[m] \in Outdated /\ movies'[m] = "fresh"
          \/ movies[m] = "new" /\ movies'[m] = "disabled"
          \/ movies[m] = "fresh" /\ movies'[m] = "outdated"]_vars

\* "failed to insert movie" (movies.resolvers.go:76) continues with the next
\* movie: even so a request imports all its movies or none.
ImportAllOrNothing ==
    [][\A p \in Fetch : pc[p] # "idle" /\ pc'[p] = "idle" =>
          (\A m \in items[p] : movies'[m] # "absent") \/ movies' = movies]_vars

\* The next step of p: it need not wait, or Postgres makes it fail.
CanGoOn(p) ==
    \/ pc[p] \in {"CurrentMovies", "TX"}
    \/ /\ pc[p] = "UpsertMovie"
       /\ todo[p] # <<>> => locked[Head(todo[p])] = Nobody \/ MustFail(p)

\* Imports lock the rows in the orders of their maps, and yet whoever waits
\* waits for one that can go on: among requests that wait for nobody else,
\* one of them at work, there is always one that takes its next step.
NobodyStuck ==
    \A S \in SUBSET Fetch :
        Alone(Waits, S) /\ (\E p \in S : pc[p] # "idle") => \E p \in S : CanGoOn(p)

\* Every request is answered, although two of them lock the rows in
\* different orders.
EveryFetchAnswered == \A p \in Fetch : pc[p] # "idle" ~> pc[p] = "idle"

\* A job told to stop ends, even if it waits for a row an import has locked.
StopsWhenAsked == stop ~> job \in {"panicked", "exited"}

\* The rows an open transaction has written are those it has locked, and
\* each is as it is in the table or new: a commit undoes nothing.
VersionsCurrent ==
    /\ \A p \in Fetch, m \in Movie :
          /\ written[p][m] # "absent" <=> locked[m] = p
          /\ locked[m] = p => written[p][m] = Upserted(m)
    /\ \A p \in Fetch : tx[p] # "none" <=> pc[p] = "UpsertMovie"

\* The state a row had when the job read it.
ReadAs(row) == IF row.tmdbID THEN "outdated" ELSE "new"

\* What the job has read is still so until it has come to the row, and the
\* row it is at does not come again in this round.
ListCurrent ==
    /\ \A row \in list : movies[row.id] = ReadAs(row)
    /\ movie # Nobody =>
          movies[movie.id] = ReadAs(movie) /\ \A row \in list : row.id # movie.id
    /\ job \in {"lookup", "externalIDs", "update", "disable"} <=> movie # Nobody
    /\ job \in {"externalIDs", "disable"} => ~movie.tmdbID

\* A transaction that no query has aborted has written what Filmstaden
\* answered, or has yet to.
NothingSkipped ==
    \A p \in Fetch :
        pc[p] = "TX" \/ tx[p] = "open" =>
            \A m \in items[p] :
                written[p][m] # "absent" \/ \E i \in DOMAIN todo[p] : todo[p][i] = m

\* No movie comes twice in one transaction.
EachOnce ==
    \A p \in Fetch :
        pc[p] = "TX" \/ tx[p] = "open" =>
            \A i \in DOMAIN todo[p] :
                /\ written[p][todo[p][i]] = "absent"
                /\ \A j \in DOMAIN todo[p] : todo[p][i] = todo[p][j] => i = j

\* The inductive invariant: the imports and the job keep out of each other's
\* way, each by what it has locked or read.
IInv ==
    /\ TypeOK /\ RowsReleased /\ VersionsCurrent /\ ListCurrent
    /\ NothingSkipped /\ EachOnce
=============================================================================
