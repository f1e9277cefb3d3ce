# Verification of filmstund

Filmstund is the backend of a film club: members plan showings, attend them, buy
the tickets and settle what everybody owes. This directory holds TLA+ modules
translated from its source, TLC configurations that check them on small
instances, and TLAPS proofs for every value of the constants. `PROJECT.json`
maps each definition to the lines it models and lists runs, mutants, findings,
hazards and theorems.

Run `tlc -config X.cfg M` for a run (`runs` names module and cfg) and
`tlapm M.tla` for the proofs of a module.

## 1. The system

| Component | State | Operations | What is hard | What makes it correct |
|---|---|---|---|---|
| Showings and payments (`internal/graph/showing.resolvers.go`, `payment.resolvers.go`, `showing_admin_auth.go`) | tables `showings`, `attendees`, `cinema_screens` | attend, unattend, create, delete, mark as bought, update, promote, record a payment | each request is a goroutine; the admin check and some guards are queries of their own; two mutations are transactions; row locks in different orders | nobody is charged twice or after paying; a bought showing stays bought and keeps its admin; only whoever is admin by then changes it (the code checks earlier, see `showings_handed_over`); no attendee without a showing; every request is answered and holds no lock afterwards |
| User loader (`internal/graph/dataloader`) | cache, current batch, batches, timers | Load, timer, end of a batch, fetch, thunk | timer against the resolver that fills the batch; fetch outside the mutex | each resolver gets the user it asked for; a batch ends once; nobody is forgotten |
| Tickets (`ticket.resolvers.go`, `ticket.helpers.go`) | tables `tickets`, `cinema_screens`; row of the showing; connection pool | ProcessTicketUrls | one long transaction with HTTP calls in it; failed inserts that are only logged; panics | tickets of a request are stored together or not at all; nobody gets two; the transaction ends |
| Movies (`movies.resolvers.go`, `filmstaden/get_movies.go`, `cmd/popularity`) | table `movies` | import from Filmstaden; the popularity job's rounds | imports lock rows in map order; the job overwrites rows by id from an old list; stop and panic | neither undoes the other; an import is all or nothing; the job stops |
| Currency and payments (`internal/currency`, `swish`, the pages of `web/`) | amounts in table, form and list | String, UnmarshalGQL, Kronor, FormatURI; pages that send back what they read | texts that are not read as they were written; int32 | what is sent back unchanged is stored unchanged |
| GraphQL execution (generated `gql/runtime.go`, `@auth`) | the response that grows, a counter of nulls per object, the errors | field functions, resolvers, directives, recovery | resolvers beside each other; nulls that propagate; a mutation that ends the caller's right to the next | every null that must not be is an error and moves up; data is complete; guards see what earlier fields did |
| Users, gift certificates (`users.resolvers.go`) | `users`, `gift_certificate` | update user, add and delete certificates | composite foreign key from attendees; many inserts in one transaction that wait for each other's numbers | the certificates of a request are added together, to one account; one in use stays |
| Filmstaden client (`filmstaden/`) | query cache in Redis | decodedGet | concurrent misses; an answer cached before it is decoded | an answer that can be used, at most 12 hours old |
| Sessions (`internal/session`) and login (`internal/auth0`) | sessions in Redis, state cookie | start, lookup with renewal, invalidate; code flow | GET and EXPIRE are two commands; a key per process start | no session after logout; a login creates one user |
| Server (`internal/server`, `internal/setup`, `cmd/filmstund`) | listener, requests in progress, pools | serve, shut down | `Serve` returns while `Shutdown` runs | pools close after the last request |
| Database access (`internal/database`) | pgx pool | TX, commit, rollback | connections kept by forgotten transactions | see Tickets |
| Migrations, HTTP handlers, middleware, scalars, read-only resolvers, web client | none that matters here | | | |

Interactions: gqlgen calls resolvers, the fields of one response concurrently;
`@auth(requires: SHOWING_ADMIN)` runs `VerifyShowingAdmin` before a mutation of a
showing; resolvers share nothing but Postgres, Redis and the loader of their own
response; `ticket.helpers.go` and `movies.resolvers.go` call Filmstaden through
the cache inside their transactions; the popularity job is another process on
the same table. The web client keeps what it was answered and sends it back.

## 2. Modules

| Module | Models | Used by |
|---|---|---|
| `Deadlocks` | who waits for whom in Postgres: circles, and sets of requests that wait for nobody else | `Showings`, `Tickets`, `Movies`, `Accounts`, `DeadlocksProofs` |
| `ShowingBook` | abstract: what the mutations promise about the committed tables | `Showings` |
| `Showings` | the eight mutations, query by query, with row locks and transactions | `MCShowings`, `ShowingsProofs` |
| `PublicUsers` | abstract: a resolver asks and is told a user the table had since it asked, or what somebody was told before | `PublicUserLoader` |
| `PublicUserLoader` | the generated loader and the fetch of `ctx.go` | `MCPublicUserLoader`, `PublicUserLoaderProofs` |
| `Tickets` | ProcessTicketUrls with pool, locks, Filmstaden failures and panics | `MCTickets`, `TicketsProofs` |
| `Movies` | the import and the popularity job | `MCMovies`, `MoviesProofs` |
| `Currency`, `Payments` | the conversions of `sek.go`; the way of an amount to a page and back | `MCPayments`, `PaymentsProofs` |
| `Schema` | every object type and field of the schema as the generated code executes it: null, list, arguments, guard | `Execution` |
| `Response` | abstract: the answers a GraphQL client may be given | `Execution` |
| `Execution` | one operation: fields in turn, resolvers beside each other, guards, nulls, errors, panics | `MCExecution`, `ExecutionProofs` |
| `AccountBook` | abstract: sessions that begin once and end for good, certificates that are added together | `Accounts` |
| `Accounts` | login, logout, session lookup, gift certificates, restarts | `MCAccounts`, `AccountsProofs` |

### How Postgres is modelled

A query outside a transaction commits at once and is one action. A transaction
runs at READ COMMITTED: each query sees what is committed when it runs and what
its own transaction wrote. A row that an open transaction has written is locked,
and the lock carries the uncommitted version; a query that wants to write such a
row is disabled until the transaction ends, and then runs on what is committed
by then, which is how Postgres re-evaluates the WHERE clause. A query that locks
several rows takes them in one step. A query that fails aborts its transaction
whatever the code does next. Each module says whom a request waits for
(`WaitsFor`). A request that waits in a circle, over any number of others
(`InCircle`), may be made to fail, which is what the deadlock detection of
Postgres does to one of them; a request that waits outside a circle may not.
Negative amounts, foreign keys that fail and lost connections are
covered by actions that fail for no stated reason.

### Showings

`pc` names the query a request is about to send and `req` its arguments.
`AdminOnShowing` is the check of `showing_admin_auth.go`; after it a request
continues at the first query of its resolver. `AttendShowing` is two queries
(`AttendRead`, `AttendInsert`). `CreateShowing` looks up the title of the movie
(`LookupMovieTitle`) and is then a transaction: the cinema screen of the show the
client names, if Filmstaden answers (`CreateAddScreen`, which waits for another
transaction that inserts the same screen), `CreateInsert`, `CreateAttend`,
`Commit`. `MarkAsBought` is one too (`MarkRead`, `MarkGCAttendeesAsHavingPaid`,
`UpdateAmountOwedForSwishAttendees`, `MarkShowingAsBought`, `Commit`).
`UpdateShowing` adds its screen by a query that commits by itself
(`UpdateAddScreen`), also if its UPDATE then matches no row. `DeleteShowing`
locks the showing and then its attendees because the cascade is a query of its
own. `Op` says which mutations each request serves. The pool of connections is
left out here: no resolver of this module asks for a second connection while it
has one. It is part of `Tickets`. After its writes a mutation
reads the showing back, which may fail: the answer is then an error although the
change is committed (`ReadBack`). Of a payment option only "uses a certificate"
is kept, because no later query reads the column `attendee_type`.

### PublicUserLoader

One action per atomic section under the mutex: `LoadCached` and `LoadBatched`
are `LoadThunk` (with `KeyIndex`), `StartTimer` is the end of the timer's sleep,
`End` the fetch and the close of the channel, `Thunk` the wake-up and the write
to the cache. A batch no resolver waits for any more, and no goroutine has, is
garbage and may be allocated again. `asked` and `told` are history variables
that only the refinement reads.

### Tickets

One action per step of `ProcessTicketUrls`: admin check, begin (which needs a
connection), show, cinema screen, UPDATE of the showing (which locks it if the
caller is still the admin), snapshot of the attendees without a ticket, tickets
and barcode of each link, one insert after another, commit, and the query that
reads the showing back for the answer, which needs a connection again
(`ReadShowing`; a request without links goes there at once). `AddTicketFails` is
the insert that fails and is only logged. A panic (`FetchBarcode`,
`ticket.helpers.go:160`: the barcode that could not be fetched is dereferenced)
leaves the transaction open: the stage `panicked` keeps connection, screen, row
and ids. `Sent` says who sends which links. The deletion of the showing meanwhile
is covered by an insert that fails.

### Movies

A row is known by its state at TMDB: new, fresh, outdated or disabled. Dates and
posters are abstracted, as are the scores. `Orders` are the orders in which a Go
map may hand out the movies. The job's `list` is what it read at the start of a
round. Nothing in the repository restarts the job: `Restart` has no fairness.

### Payments

A text is taken apart into sign, kronor, the number its decimals are read as, and
how many they are. `ReadPrice`, `TypePrice`, `UpdateShowing` and `MarkAsBought`
are the forms of the admin; `AdminPaymentDetails` and
`UpdateAttendeePaymentInfo` the list in which a click sends back the amount that
is shown. Concurrency is left to `Showings`. Texts that cannot be parsed are
refused and change nothing.

### Execution

An operation is a tree of positions: fields, and elements of lists. The tree is
a constant and `Schema` says what each field is. An object runs its plain fields
in turn (`Turn`), then dispatches the resolvers it has delayed, which run beside
each other; the fields of a mutation run one after the other. A field goes
through its arguments (`Begin`, `BadArguments`), its guard (`Authorize`), its
resolver (`ReturnValue`, `ReturnNil`, `ReturnError`, `Panic`) and the completion
of what is below it (`CompleteObject`, `CompleteList`). `invalids` is the counter
of that name: a null the schema forbids makes the object null it is in. What a
resolver returns is nondeterministic except for which showings the caller
administers (`administered`): a guarded field names one (`ShowingOf`), and
`Handover` is the mutation that gives that one away. `Schema` is a table in
the order of the generated functions. Parsing, validation, the complexity limit,
fragments and the introspection types are left out, and so are nil elements of a
list and a change of admin by another request (that race is in `Showings`).

### Accounts

Each command to Redis and each query is an action. `Lookup` is `GetFromCache`
and `Extend`: the session may end in between, and EXPIRE does nothing to a key
that is gone. A command may be executed although its answer is lost. The key
that encrypts the state of a login is made when the process starts, so that a
login survives no `Restart`; the cookie itself is not modelled, and any state
Auth0 holds may come back. A user is known by the subject Auth0 gives it. An
INSERT waits for another transaction that has inserted its number, and fails if
that commits; of those that wait in a circle one is the victim. The foreign key
of an attendee's certificate sets both columns to null, `user_id` included,
which the table refuses: a certificate in use cannot be deleted. A certificate
added without a date expires in a year, and a deletion without one looks for a
certificate that expires today, as the code has it. `holder` is a history
variable: who has signed in with a session.

## 3. Runs

| Run | Asks | Bounds |
|---|---|---|
| `showings_pairs` | all safety properties of `Showings`, its inductive invariant, and that it implements `ShowingBook` | 2 users, 1 showing, 2 requests at a time, all 8 mutations, prices 0 and 1 |
| `showings_answered` | nobody is stuck; every request is answered; the inductive invariant with two showings and a screen | 3 requests with mutations of their own that lock the same rows and the same screen in different orders: one creates and deletes, one creates and marks as bought, one updates and leaves |
| `showings_join_bought` | **violated**: "cannot attend a showing that has already been bought" | attend against mark as bought |
| `showings_marked` | **violated**: "marked showing as bought" | two mark as bought |
| `showings_handed_over` | **violated**: "you must be a showing admin for this" | 2 users, create, promote, delete |
| `loader_answered` | refinement, liveness, inductive invariant; the limit of a batch, and keys that are read without the mutex | 2 resolvers, 2 ids, 2 ids to a batch |
| `tickets_assigned` | inductive invariant, who gets which ticket and what a failure stores, panics included | 2 requests of up to 2 links, 3 tickets, attendees that come and go |
| `tickets_answered` | nobody is stuck, and every wait ends: pool, screen, row, id; tickets of a former admin are stored together too | 3 requests, 2 connections, the admin changes in between |
| `movies` | both writers of the table: inductive invariant, nobody is stuck, action properties and liveness | 2 imports, 2 movies, the job stopped and started again |
| `payments_toggled` | **violated**: an amount sent back as it was written stays the same | six prices typed with 0 to 2 decimals |
| `execution` | inductive invariant, somebody can always go on, guards after a handover, refinement of `Response`, every operation is answered | two queries and a mutation of about ten positions each, with resolvers beside each other on two levels and lists of 0 to 2 elements |
| `accounts` | inductive invariant, nobody is stuck, refinement of `AccountBook`, every request is answered | 2 requests, 3 sessions, 2 users, 2 certificate numbers in 4 lists, 1 restart |

Requests arrive again after they have been answered, so that "2 requests" bounds
what is in progress and not the length of a behaviour; only in `accounts` is a
request made once, since what it asks for is part of the refinement, and
`execution` is about one operation. In the two runs called `..._answered` of
`Showings` and `Tickets` each request has mutations, or links, of its own, so that
the three of them meet in every order without a state space for each
permutation. In `tickets_answered` one request is always without a connection
when two have a transaction: it waits to be checked, to begin, or to read its
answer, while the other two may wait for each other's tickets. Why the bounds are
enough: no query touches two showings, so that one showing carries all conflicts
of `Showings` but those about a screen, which `showings_answered` has; the rows
of two users suffice for "the admin" and "somebody else", and for two locks in
opposite orders; every conflict the code has is between two transactions. In the
loader two resolvers race for one batch and fill it; a batch of one key, which
its first key fills, is covered by the theorem `QueryWithinLimit` only. In `execution` the three operations have every kind of field, an optional
field that stops a null, and a forbidden null that reaches the data itself; the
mutation names two showings, one of which it hands over. In `accounts` two users
have signed in and a third session is left for whoever does next; the lists name
two numbers in opposite orders, with and without a date. The
liveness runs were checked to reach circular waits. Symmetry is used in safety
runs only. A user's id is never reused, and neither is a showing's (`unused`).

`NobodyStuck` is the safety side of "every request is answered": of requests that
wait for nobody outside, one of which is at work, one can go on, because it need
not wait or because Postgres makes it fail. It holds without any fairness and
fails in the state in which a lock has been leaked or in which a wait is not part
of a circle that would be broken. `CanGoOn` says it of one request without
ENABLED, which the prover does not reach; in `Showings` and `Execution` it was
compared with ENABLED of the request's steps in TLC.

Deadlock is checked except where the system really stops: in `accounts` (all
requests made) and `execution` (the operation answered).

Mutants: each property of a passing run is violated when one mapped definition is
replaced by its mutant, a plausible bug that stands next to what it changes
(a dropped condition of an UPDATE, an early return that keeps its transaction, a
batch filled one key late).

### What the violated runs show

* `showings_join_bought`: `AttendShowing` reads `tickets_bought` and inserts in
  two queries; `MarkAsBought` commits in between and the user joins a bought
  showing and owes the price that was read.
* `showings_marked`: two `MarkAsBought` pass the check together. The UPDATE of
  the second matches no row, its row count is not looked at, and it answers ok
  after it has charged its own price.
* `showings_handed_over`: the directive looks up the admin in a query of its own.
  A user who hands the showing over with one request deletes it with another that
  was checked before: the DELETE has no admin condition, nor has the UPDATE of a
  payment, and a MarkAsBought whose caller is promoted away commits what the
  attendees owe all the same. The UPDATEs of the showing itself do ask for the
  admin.
* `payments_toggled`: 150 ören are written "1.5 kr", and "1.5" is read as 105.
  A price typed as "1.50" turns into 1.05 when the admin notes that somebody has
  paid. `TensReadAsOnes` proves it for every amount above zero with one decimal.

### What nobody has specified

The models show these, and no property forbids them: `UpdateShowing` and
`ProcessTicketUrls` change the price of a bought showing without recomputing what
attendees owe; after a promotion the former admin is still marked as having paid;
a spare ticket goes to the caller though somebody else is the admin by then;
tickets outlive the attendance of their owner; the later of two imports wins with
the older answer.

Two panics are in the models as states and in no property: the barcode of
`Tickets` (gqlgen recovers it, but nobody calls rollback, so that with enough of
them the pool is empty) and the external ids of the popularity job
(`updater.go:88`), which end its process. `NobodyStuck` of `Tickets` speaks of
requests that wait for nobody who has panicked, and `StopsWhenAsked` of `Movies`
counts a panic as an end.

## 4. Fairness

* `Showings`: strong fairness for each request's steps. Go runs every goroutine,
  and Postgres queues those that wait for a row lock, so that a request whose
  query is enabled again and again gets its turn; the victim of a deadlock is one
  of its steps. New requests are never forced to arrive. `showings_answered`
  leaves attending out, so that a showing has one attendee: a query that locks
  several rows does so in one step here, and would starve when two other requests
  always hold one of its rows, while Postgres locks row by row and keeps them.
* `PublicUserLoader`: weak fairness of timers, fetches and thunks.
* `Tickets`, `Movies`: as `Showings`; the pool hands out connections in turn; an
  insert that cannot succeed (its id exists, its transaction is aborted, it waits
  in a circle) fails. In `tickets_answered` barcodes do not fail
  (`BarcodeFails`), since a panic keeps a connection for good (see above).
* `Execution`: weak fairness of `Next`. Goroutines run, and a resolver returns, be
  it an error (its queries are those of the other modules).
* `Accounts`: weak fairness of each request's steps once it is made. An INSERT that
  waits may fail only as the victim of a deadlock. Expiry, restarts and uses of a
  certificate are never forced.
* The job: its rounds go on, and a query whose context is cancelled fails. A tick
  always comes again.

## 5. Proofs

All theorems hold for every value of the constants that satisfies the named
assumptions of the modules: the special values are not rows; prices are natural
numbers and include 0; the requests in progress, and the fields an operation
selects, are finitely many; the pool has a connection (`config.go:78` sets no
other limit).

`DeadlocksProofs`. `CircleExists`: among finitely many requests, each of which
waits for one of them, one waits in a circle. A smallest set in which everybody
waits for a member is all circle: whomever a member waits for, over any number of
others, is a smaller set otherwise. It is what the theorems `NobodyIsStuck` below
rest on, each of which adds which waits the code can produce:

* `ShowingsProofs`: whoever has a lock, be it of a screen, is at work (`IInv`), so
  that the ones who wait for each other are in a circle or wait for one who does
  not wait.
* `MoviesProofs`: the same, and no transaction waits for itself, since a movie
  comes once in it (`EachOnce`); an aborted one goes on failing to its commit.
* `TicketsProofs`: four kinds of waits, of which only inserts of tickets can form
  a circle. The screen, the row and the ids are locked in that order
  (`LocksOrdered`), and whoever waits for a connection has none. The theorem
  excludes requests that have panicked, since those keep what they have.
* `AccountsProofs`: transactions lock nothing but the numbers they insert.
* `ExecutionProofs`: no locks, but fields that wait for those before them, lists
  for their elements and objects for their fields; of what is waiting for
  something below it take the lowest, and of its parts the first that is left.

`ShowingsProofs`. `TypeCorrect` first, one lemma per kind of row. `IInv` then
adds what each request has locked given where it is: `NoOrphans` alone is not
inductive, since it needs that nobody else can write the rows of a showing whose
deletion is in progress (`ShowingLockInv`), that a showing under creation is
known to its creator only (`FreshIds`), and that a step that needs a lock is
reached only with it (`ControlInv`). `SafetyNext` has one case per action.
`NoAttendeeOrphaned` follows. `PurchaseInv` relates the uncommitted version of a
showing to the committed one: from it follows `BoughtStaysBought`.

For the refinement `BookInv` relates what a transaction is about to publish to
the committed rows: each uncommitted version is one change away from the version
that is committed, since it was read when the row was locked (`ShowingVersions`,
`AttendeeVersions`), and a creation commits its admin with the showing
(`AdminAttends`). Then each action is a change of the book or a stutter
(`ShowingsImplementBook`); `PaidIsNotCharged` and `DeletedByOne` follow from the
same invariant.

Three theorems are about the violated runs and say that the races TLC finds are the
only ones. `MarkedUnlessOvertaken`: a MarkAsBought does what it logs unless,
between its admin check and its commit, another request buys the showing, hands
it over or deletes it. `JoinedUnlessBoughtMeanwhile`: nobody joins a bought
showing unless a purchase commits between the two queries of AttendShowing.
`ChangedByAdminUnlessHandedOver`: whatever a mutation for admins changes, a
deletion and its cascade and a payment included, it changes for the admin of the
moment, unless the showing gets another admin while a mutation that has passed
the directive is at work on it. What does not happen is in all three a condition
on the steps (`[][...]_showings`), and the invariant is what a request may rely on
from one query to the next as long as it does not (`Marked`, `Joinable`,
`Vetted`).

`PublicUserLoaderProofs`. `IInv`: the current batch is open, has a timer asleep
and has room; a timer over a batch that is not closing is that of the current
one; whoever waits is at the position of its id, and what a finished batch holds
there is what the table had since it asked. Then `BatchEndedOnce`,
`WaitsForSomething`, `QueryWithinLimit`, `KeysStayFrozen`, and the refinement
`LoaderImplementsPublicUsers`: every step maps to a step of `PublicUsers` or
stutters.

`PaymentsProofs`. Which amounts are read back as they were written (`ReadBack`),
which are not (`TensReadAsOnes`), and which texts are read as what they say
(`AmountsReadAsTyped`: `Says` is the amount in ören as a person reads the text, by
which ".5" is fifty; it is stored exactly if it fits an int32 and the text has no
decimals, two of them, or one that is zero: everything else is accepted and
misread), the rounding of a Swish link, and, by the invariant
that the list shows what is owed (`PageIsCurrent`), that a click keeps every
amount that is read as it was written. The width of an integer is a parameter
(`Half`, 2^31 in the program), because TLC's own integers are no wider; the texts
an admin types are assumed to be texts.

`TicketsProofs`. `IInv`, which `tickets_assigned` checks: a ticket is in the table
or in one open transaction and in no other, a transaction no query has aborted
has left nothing out, and only whoever assigns tickets has inserted any. That the tickets of a request are stored together
(`TicketsTogether`) follows. That nobody but
the admin gets two (`NobodyGetsTwo`) rests on the lock of the showing: as long as
the admin stays the same (`"promote" \notin Change`, an assumption of the theorem
that the run `tickets_assigned` shares), one request at a time is past its UPDATE,
so that its snapshot is still true when it commits. `NobodyGetsTwoOf` needs it of
one showing only, and as a condition on the steps instead of on the constants: as
long as nobody is promoted on this showing, the others may change as they like.

`MoviesProofs`. `IInv` as TLC checks it: an import touches a row the job has read
only with what is there already, and the job touches a row only while no import
has locked it. `NothingUndone` and `ImportsTogether` follow.

`ExecutionProofs`. For every tree of fields (`TreeAssumption`) that the schema
knows (`SchemaAssumption`). `IInv`: whatever is above something at work is at work
(`Nesting`), a field begins after those before it (`Ordered`), lists hold what
their resolvers returned (`ListNesting`), data has no forbidden null
(`Complete`), the counter tells whether there is one (`Counted`), and errors and
nulls account for each other (`Reported`). The refinement of `Response` follows
(`ExecutionImplementsResponse`), and `FormerAdminRefused`: after a mutation that
hands a showing over no guarded resolver about that showing runs in the
operation, whatever it does with others.
`MutationsRunInSeries`: of the fields of a mutation one is at work at a time.

`AccountsProofs`. For any number of requests, sessions and restarts
(`AccountsAssumption`). `IInv`: sessions belong to users who are in the table, a
request acts for whoever signed in with its session, a logout leaves nothing
behind, no two transactions share a number, and only a request at its inserts has
a transaction. `AccountsImplementBook` maps each step to one of `AccountBook`.

Only model-checked: the liveness properties (`EveryRequestAnswered`,
`EveryFetchAnswered`, `StopsWhenAsked`, `EveryLoadAnswered`,
`EveryOperationAnswered`), since fairness and ENABLED are out of the prover's
reach; `NobodyIsStuck` is the part of them that is proved. The violated runs are
TLC's. Induction over data is out of the prover's reach as well, and no module
needs it: no RECURSIVE operator is used, and `CircleExists` and the descent
through the positions of `ExecutionProofs` use the minimality of a well-founded
order instead. That a conversion wraps by a multiple of 2^32 was not proved: the
provers find no quotient for a divisor that is a parameter.

The type invariants are proved in every module; where a run checks `IInv` they
are part of it.

## 6. Plan

Done: `Showings`, `ShowingBook`, `PublicUserLoader`, `PublicUsers`, `Tickets`,
`Movies`, `Currency`, `Payments`, `Schema`, `Response`, `Execution`, `Accounts`,
`AccountBook`, `Deadlocks`, the proofs of every safety property the passing runs
check, and what the violated runs leave true.

Worth proving next: that nobody in the loader waits for a batch without a step
of the loader that brings its answer closer, as `NobodyIsStuck` has it for the
others; for `Tickets`, that what a panic takes from the pool is all that it takes;
progress measures that bound how often a request can be overtaken.

Not modelled:

* The query cache of the Filmstaden client. Two requests that miss write the same
  answer; what it answers, stale or undecodable, is a failure or an answer that
  `Tickets` and `Movies` already allow at every call.
* The server's lifecycle. `ServeHTTP` waits for no request and main exits right
  after, so that to the requests in progress a shutdown is a restart, which
  `Accounts` has. Besides, `server.go:60` takes the nil of a `Shutdown` that has
  already succeeded for an error, so that the exit status of a clean stop depends
  on which goroutine is first.
* Migrations call a library once; the constraints they declare are part of the
  tables above.
* Configuration and setup are a straight line before the first request; handlers,
  middleware, mappers and scalars are stateless.
* Read-only resolvers (`location`, `filmstaden`, `commandments`): single queries.
  Their place in an operation is in `Schema`.
* Loader operations without a caller (`LoadAll`, `Prime`, `Clear`); the calendar
  feed id, a column no other code reads.
* The rest of the web client, and the internals of Postgres, Redis, Filmstaden,
  TMDB and Auth0, which appear by what they may answer.
