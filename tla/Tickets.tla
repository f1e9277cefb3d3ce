------------------------------ MODULE Tickets ------------------------------
(***************************************************************************)
(* ProcessTicketUrls (internal/graph/ticket.resolvers.go, ticket.helpers.  *)
(* go): the admin of a showing pastes the links of the tickets bought at   *)
(* Filmstaden, and one transaction fetches the tickets behind each link    *)
(* and hands them to the attendees.                                        *)
(*                                                                         *)
(* The transaction holds a connection of the pool from its first step to   *)
(* its end.  It inserts the cinema screen, which makes other requests for  *)
(* a new screen wait, and locks the row of the showing, which makes later  *)
(* requests of the same admin wait.  A query that fails aborts the whole   *)
(* transaction in Postgres, whatever the code does about it: the rows it   *)
(* wrote and the locks it held are gone, every later query fails, and its  *)
(* commit rolls back.  gqlgen recovers a resolver that panics and answers  *)
(* an error, but nobody ends its transaction.                              *)
(***************************************************************************)
EXTENDS Naturals, Sequences, FiniteSets, Deadlocks

CONSTANTS
    User, Showing, Request,
    Ticket,         \* the ids of tickets, unique at Filmstaden
    TicketsOf,      \* the tickets behind each link a client may send
    ScreenOf,       \* the cinema screen of the show of each link
    Sent,           \* the links a user may send, by the request that serves them
    Connections,    \* pool_max_conns
    Change,         \* what other requests change meanwhile
    BarcodeFails,   \* Filmstaden may fail to answer a barcode
    NoTicket, NoLock, NoScreen

VARIABLES
    admin,          \* showings.admin
    attending,      \* table attendees
    tickets,        \* table tickets, as committed: who has which
    screens,        \* table cinema_screens, as committed
    locked,         \* which transaction has locked the row of a showing
    pc,             \* the step each request is at
    req,            \* caller, showing, links left and tickets left of a link
    tx,             \* the transaction of a request
    inserted,       \* the tickets it has inserted
    newScreen,      \* the cinema screen it has inserted
    ticketless,     \* assignmentStatus: the attendees without a ticket
    fetched         \* history: the tickets Filmstaden answered

tables == <<admin, attending, tickets, screens>>
held == <<locked, tx, inserted, newScreen>>
vars == <<tables, held, pc, req, ticketless, fetched>>

Url == DOMAIN TicketsOf
Screen == {ScreenOf[url] : url \in Url}
Seat == Showing \X User
Nothing == [t \in Ticket |-> NoTicket]

Args == [user : User, showing : Showing, urls : Seq(Url), todo : Seq(Ticket)]

ASSUME TicketsAssumption ==
    /\ TicketsOf \in [Url -> Seq(Ticket)]
    /\ DOMAIN ScreenOf = Url
    /\ NoScreen \notin Screen
    /\ Sent \in [Request -> SUBSET (User \X Seq(Url))]
    /\ Connections \in Nat \ {0}
    /\ IsFiniteSet(Request)
    /\ Change \subseteq {"attend", "unattend", "promote"}
    /\ BarcodeFails \in BOOLEAN
    /\ NoTicket \notin Seat
    /\ NoLock \notin Request

Answered == {"idle", "ok", "error"}
Stage == {"AdminOnShowing", "TX", "Show", "AddCinemaScreen", "UpdateShowing",
          "AttendeesIncludingTickets", "Tickets", "Barcode", "AddTicket", "Commit",
          "Showing", "panicked"} \cup Answered

Init ==
    /\ admin \in [Showing -> User]
    /\ attending = {<<s, admin[s]>> : s \in Showing}
    /\ tickets = Nothing
    /\ screens = {}
    /\ locked = [s \in Showing |-> NoLock]
    /\ pc = [p \in Request |-> "idle"]
    /\ req \in [Request -> {[user |-> u, showing |-> s, urls |-> <<>>, todo |-> <<>>] :
                                u \in User, s \in Showing}]
    /\ tx = [p \in Request |-> "none"]
    /\ inserted = [p \in Request |-> Nothing]
    /\ newScreen = [p \in Request |-> NoScreen]
    /\ ticketless = [p \in Request |-> {}]
    /\ fetched = [p \in Request |-> {}]

-----------------------------------------------------------------------------
\* A query needs a connection that no transaction holds.
Connection == Cardinality({p \in Request : tx[p] # "none"}) < Connections

Goto(p, stage) == pc' = [pc EXCEPT ![p] = stage]

\* Mutant: an early return that keeps the transaction.
EndTXKept(p, outcome) ==
    /\ tx' = [tx EXCEPT ![p] = outcome]
    /\ locked' = locked
    /\ inserted' = [inserted EXCEPT ![p] = Nothing]
    /\ newScreen' = [newScreen EXCEPT ![p] = NoScreen]

\* The transaction of p ends, or Postgres aborts it: what it wrote and
\* locked is gone unless it has been published.
EndTX(p, outcome) ==
    /\ tx' = [tx EXCEPT ![p] = outcome]
    /\ locked' = [s \in Showing |-> IF locked[s] = p THEN NoLock ELSE locked[s]]
    /\ inserted' = [inserted EXCEPT ![p] = Nothing]
    /\ newScreen' = [newScreen EXCEPT ![p] = NoScreen]

\* Forget what the request was about.
Finish(p, answer) ==
    /\ Goto(p, answer)
    /\ req' = [req EXCEPT ![p].urls = <<>>, ![p].todo = <<>>]
    /\ ticketless' = [ticketless EXCEPT ![p] = {}]
    /\ fetched' = [fetched EXCEPT ![p] = {}]

\* A step that fails makes the resolver roll back and answer an error.  Of
\* the failures after the transaction began only those of Tickets, Barcode
\* and AddTicket do not.
Fail(p) ==
    /\ pc[p] \notin Answered \cup {"Tickets", "AddTicket", "panicked"}
    /\ EndTX(p, "none")
    /\ Finish(p, "error")
    /\ UNCHANGED tables

-----------------------------------------------------------------------------
(***************************************************************************)
(* Other requests, one query each; see Showings for their resolvers.       *)
(***************************************************************************)
Attend == \E k \in Seat :
    /\ "attend" \in Change
    /\ Connection
    /\ k \notin attending
    /\ attending' = attending \cup {k}
    /\ UNCHANGED <<admin, tickets, screens, held, pc, req, ticketless, fetched>>

Unattend == \E k \in attending :
    /\ "unattend" \in Change
    /\ Connection
    /\ attending' = attending \ {k}
    /\ UNCHANGED <<admin, tickets, screens, held, pc, req, ticketless, fetched>>

Promote == \E s \in Showing, u \in User :
    /\ "promote" \in Change
    /\ Connection
    /\ locked[s] = NoLock
    /\ admin' = [admin EXCEPT ![s] = u]
    /\ UNCHANGED <<attending, tickets, screens, held, pc, req, ticketless, fetched>>

-----------------------------------------------------------------------------
(***************************************************************************)
(* The resolver.                                                           *)
(***************************************************************************)
Arrive(p) ==
    /\ pc[p] \in Answered
    /\ \E c \in Sent[p], s \in Showing :
         req' = [req EXCEPT ![p] = [user |-> c[1], showing |-> s, urls |-> c[2], todo |-> <<>>]]
    /\ Goto(p, "AdminOnShowing")
    /\ UNCHANGED <<tables, held, ticketless, fetched>>

VerifyShowingAdmin(p) ==
    /\ pc[p] = "AdminOnShowing"
    /\ Connection
    /\ IF admin[req[p].showing] = req[p].user
       THEN Goto(p, "TX") /\ UNCHANGED <<req, ticketless, fetched>>
       ELSE Finish(p, "error")
    /\ UNCHANGED <<tables, held>>

\* Without links there is nothing to do; else wait for a connection.
BeginTX(p) ==
    /\ pc[p] = "TX"
    /\ IF req[p].urls = <<>>
       THEN Goto(p, "Showing") /\ UNCHANGED tx
       ELSE /\ Connection
            /\ tx' = [tx EXCEPT ![p] = "open"]
            /\ Goto(p, "Show")
    /\ UNCHANGED <<tables, locked, inserted, newScreen, req, ticketless, fetched>>

\* Filmstaden tells the show of the first link.
FetchShow(p) ==
    /\ pc[p] = "Show"
    /\ Goto(p, "AddCinemaScreen")
    /\ UNCHANGED <<tables, held, req, ticketless, fetched>>

\* INSERT ... ON CONFLICT DO NOTHING waits for a transaction that has
\* inserted the same id.
ScreenWaitsFor(p, q) ==
    LET screen == ScreenOf[Head(req[p].urls)] IN
    pc[p] = "AddCinemaScreen" /\ screen \notin screens /\ newScreen[q] = screen

AddCinemaScreen(p) ==
    LET screen == ScreenOf[Head(req[p].urls)] IN
    /\ pc[p] = "AddCinemaScreen"
    /\ \A q \in Request : ~ScreenWaitsFor(p, q)
    /\ newScreen' = IF screen \in screens THEN newScreen ELSE [newScreen EXCEPT ![p] = screen]
    /\ Goto(p, "UpdateShowing")
    /\ UNCHANGED <<tables, locked, tx, inserted, req, ticketless, fetched>>

\* Mutant: the showing is updated by a query outside the transaction.
UpdateShowingOutside(p) ==
    /\ pc[p] = "UpdateShowing"
    /\ admin[req[p].showing] = req[p].user => locked[req[p].showing] = NoLock
    /\ UNCHANGED locked
    /\ Goto(p, "AttendeesIncludingTickets")
    /\ UNCHANGED <<tables, tx, inserted, newScreen, req, ticketless, fetched>>

RowWaitsFor(p, q) ==
    /\ pc[p] = "UpdateShowing" /\ admin[req[p].showing] = req[p].user
    /\ locked[req[p].showing] = q

\* UPDATE showings ... WHERE id = $showing AND admin = $caller; when it
\* matches no row it locks none, and the resolver does not look.
UpdateShowing(p) ==
    /\ pc[p] = "UpdateShowing"
    /\ \A q \in Request : ~RowWaitsFor(p, q)
    /\ IF admin[req[p].showing] = req[p].user
       THEN locked' = [locked EXCEPT ![req[p].showing] = p]
       ELSE UNCHANGED locked
    /\ Goto(p, "AttendeesIncludingTickets")
    /\ UNCHANGED <<tables, tx, inserted, newScreen, req, ticketless, fetched>>

Ticketless(s) ==
    {u \in User : <<s, u>> \in attending /\ \A t \in Ticket : tickets[t] # <<s, u>>}

FetchTicketAssignments(p) ==
    /\ pc[p] = "AttendeesIncludingTickets"
    /\ ticketless' = [ticketless EXCEPT ![p] = Ticketless(req[p].showing)]
    /\ Goto(p, "Tickets")
    /\ UNCHANGED <<tables, held, req, fetched>>

\* The next link: its tickets, or none when Filmstaden fails to answer.
FetchTickets(p) ==
    /\ pc[p] = "Tickets"
    /\ IF req[p].urls = <<>>
       THEN Goto(p, "Commit") /\ UNCHANGED <<req, fetched>>
       ELSE LET url == Head(req[p].urls) IN
            \/ /\ req' = [req EXCEPT ![p].urls = Tail(@)]
               /\ UNCHANGED <<pc, fetched>>
            \/ /\ req' = [req EXCEPT ![p].urls = Tail(@), ![p].todo = TicketsOf[url]]
               /\ fetched' = [fetched EXCEPT
                                 ![p] = @ \cup {TicketsOf[url][i] : i \in DOMAIN TicketsOf[url]}]
               /\ Goto(p, IF TicketsOf[url] = <<>> THEN "Tickets" ELSE "Barcode")
    /\ UNCHANGED <<tables, held, ticketless>>

\* The barcode of the ticket.  Without one the code logs that it skips the
\* ticket, and goes on to *barcode, a nil dereference.
FetchBarcode(p) ==
    /\ pc[p] = "Barcode"
    /\ \/ Goto(p, "AddTicket")
       \/ BarcodeFails /\ Goto(p, "panicked")
    /\ UNCHANGED <<tables, held, req, ticketless, fetched>>

\* nextTicketless: any attendee without a ticket, or else the caller.
Assignees(p) == IF ticketless[p] = {} THEN {req[p].user} ELSE ticketless[p]

Exists(p, t) == tickets[t] # NoTicket \/ inserted[p][t] # NoTicket

\* An insert waits for a transaction that has inserted the same id.
InsertWaitsFor(p, q) ==
    /\ q # p
    /\ pc[p] = "AddTicket" /\ tx[p] = "open"
    /\ inserted[q][Head(req[p].todo)] # NoTicket

NextTicket(p) ==
    /\ req' = [req EXCEPT ![p].todo = Tail(@)]
    /\ Goto(p, IF Tail(req[p].todo) = <<>> THEN "Tickets" ELSE "Barcode")
    /\ UNCHANGED <<tables, fetched>>

Assigned(p, u) == ticketless' = [ticketless EXCEPT ![p] = @ \ {u}] /\ NextTicket(p)

\* Mutant: each insert has a savepoint, so that a failure is only skipped.
AddTicketFailsAlone(p) ==
    /\ pc[p] = "AddTicket"
    /\ UNCHANGED held
    /\ \E u \in Assignees(p) : Assigned(p, u)

\* An insert fails: the id exists, a column is too long, the connection is
\* lost, the transaction is aborted already, or Postgres ends it because it
\* and another one wait for each other's ids.  It is only logged.
AddTicketFails(p) ==
    /\ pc[p] = "AddTicket"
    /\ EndTX(p, "aborted")
    /\ \E u \in Assignees(p) : Assigned(p, u)

\* Mutant: ON CONFLICT DO UPDATE, which takes the ticket from whoever has it.
AddTicketUpserts(p) ==
    LET t == Head(req[p].todo) IN
    /\ pc[p] = "AddTicket"
    /\ tx[p] = "open"
    /\ \A q \in Request : ~InsertWaitsFor(p, q)
    /\ \E u \in Assignees(p) :
         /\ inserted' = [inserted EXCEPT ![p][t] = <<req[p].showing, u>>]
         /\ Assigned(p, u)
    /\ UNCHANGED <<locked, tx, newScreen>>

AddTicket(p) ==
    LET t == Head(req[p].todo) IN
    /\ pc[p] = "AddTicket"
    /\ tx[p] = "open"
    /\ ~Exists(p, t)
    /\ \A q \in Request : ~InsertWaitsFor(p, q)
    /\ \E u \in Assignees(p) :
         /\ inserted' = [inserted EXCEPT ![p][t] = <<req[p].showing, u>>]
         /\ Assigned(p, u)
    /\ UNCHANGED <<locked, tx, newScreen>>

\* The commit of an aborted transaction rolls it back and fails.
Commit(p) ==
    /\ pc[p] = "Commit"
    /\ tickets' = [t \in Ticket |->
           IF inserted[p][t] # NoTicket THEN inserted[p][t] ELSE tickets[t]]
    /\ screens' = screens \cup ({newScreen[p]} \ {NoScreen})
    /\ EndTX(p, "none")
    /\ IF tx[p] = "aborted"
       THEN Finish(p, "error")
       ELSE Goto(p, "Showing") /\ UNCHANGED <<req, ticketless, fetched>>
    /\ UNCHANGED <<admin, attending>>

\* The answer is the showing, read by a query of its own: the transaction has
\* given its connection back, so that this query may wait for another.
ReadShowing(p) ==
    /\ pc[p] = "Showing"
    /\ Connection
    /\ Finish(p, "ok")
    /\ UNCHANGED <<tables, held>>

-----------------------------------------------------------------------------
Step(p) ==
    \/ VerifyShowingAdmin(p) \/ BeginTX(p) \/ FetchShow(p) \/ AddCinemaScreen(p)
    \/ UpdateShowing(p) \/ FetchTicketAssignments(p) \/ FetchTickets(p) \/ FetchBarcode(p)
    \/ AddTicket(p) \/ Commit(p) \/ ReadShowing(p)

\* p waits for a connection.
PoolWaits(p) ==
    /\ pc[p] \in {"AdminOnShowing", "TX", "Showing"}
    /\ pc[p] = "TX" => req[p].urls # <<>>
    /\ ~Connection

\* Whom p waits for: everybody with a connection, or whoever has its row or id.
WaitsFor(p, q) ==
    \/ PoolWaits(p) /\ tx[q] # "none"
    \/ ScreenWaitsFor(p, q) \/ RowWaitsFor(p, q) \/ InsertWaitsFor(p, q)

Waits == {w \in Request \X Request : WaitsFor(w[1], w[2])}

\* An insert that cannot succeed fails: its id exists, its transaction is
\* aborted, or it waits in a circle.
MustFail(p) ==
    /\ pc[p] = "AddTicket"
    /\ tx[p] = "aborted" \/ Exists(p, Head(req[p].todo)) \/ InCircle(Waits, p)

Next ==
    \/ Attend \/ Unattend \/ Promote
    \/ \E p \in Request : Arrive(p) \/ Step(p) \/ AddTicketFails(p) \/ Fail(p)

\* Requests keep running, Filmstaden answers, and Postgres and the pool hand
\* locks and connections to those that wait in turn.
Fairness ==
    \A p \in Request : SF_vars(Step(p)) /\ WF_vars(MustFail(p) /\ AddTicketFails(p))

Spec == Init /\ [][Next]_vars
FairSpec == Spec /\ Fairness
-----------------------------------------------------------------------------
(***************************************************************************)
(* Properties.                                                             *)
(***************************************************************************)
TypeOK ==
    /\ admin \in [Showing -> User]
    /\ attending \subseteq Seat
    /\ tickets \in [Ticket -> Seat \cup {NoTicket}]
    /\ locked \in [Showing -> Request \cup {NoLock}]
    /\ pc \in [Request -> Stage]
    /\ req \in [Request -> Args]
    /\ tx \in [Request -> {"none", "open", "aborted"}]
    /\ inserted \in [Request -> [Ticket -> Seat \cup {NoTicket}]]
    /\ screens \subseteq Screen
    /\ newScreen \in [Request -> Screen \cup {NoScreen}]
    /\ ticketless \in [Request -> SUBSET User]
    /\ fetched \in [Request -> SUBSET Ticket]

\* Every path that answers, and every query that aborts the transaction,
\* gives back what the transaction holds: its connection, the row of the
\* showing, and the ids it has inserted.
TransactionsEnd ==
    /\ \A p \in Request : pc[p] \in Answered => tx[p] = "none"
    /\ \A s \in Showing : locked[s] # NoLock =>
          tx[locked[s]] = "open" /\ req[locked[s]].showing = s
    /\ \A p \in Request : tx[p] # "open" => inserted[p] = Nothing /\ newScreen[p] = NoScreen

\* Where a request has no transaction, and where it hands out tickets.
Outside == Answered \cup {"AdminOnShowing", "TX", "Showing"}
Assigning == {"Tickets", "Barcode", "AddTicket", "Commit", "panicked"}

\* A transaction is open from BeginTX to its end, and only an insert may
\* abort it; what is left to do is left where a step expects it.
ControlInv ==
    \A p \in Request :
        /\ pc[p] \in Outside => tx[p] = "none"
        /\ pc[p] \notin Outside => tx[p] # "none"
        /\ pc[p] \notin Outside \cup Assigning => tx[p] = "open" /\ inserted[p] = Nothing
        /\ pc[p] \in {"Show", "AddCinemaScreen"} => req[p].urls # <<>>
        /\ pc[p] \in {"Barcode", "AddTicket", "panicked"} <=> req[p].todo # <<>>
        /\ pc[p] \notin Assigning \cup {"Showing"} => fetched[p] = {}

\* An id is in the table or in one transaction.
IdsUnique ==
    \A p \in Request, t \in Ticket : inserted[p][t] # NoTicket =>
        /\ tickets[t] = NoTicket
        /\ \A q \in Request : q # p => inserted[q][t] = NoTicket
        /\ inserted[p][t][1] = req[p].showing

\* A transaction no query has aborted has inserted what it has fetched, but
\* for what it has yet to.
NothingSkipped ==
    \A p \in Request, t \in Ticket : tx[p] = "open" =>
        /\ t \in fetched[p] => inserted[p][t] # NoTicket
                               \/ \E i \in DOMAIN req[p].todo : req[p].todo[i] = t
        /\ inserted[p][t] # NoTicket => t \in fetched[p]
        /\ \A i \in DOMAIN req[p].todo : req[p].todo[i] \in fetched[p]

\* The inductive invariant: no ticket is in two hands, in the table and in
\* the open transactions taken together, and a transaction that may commit
\* leaves out none of the tickets it was told of.
IInv == TypeOK /\ TransactionsEnd /\ ControlInv /\ IdsUnique /\ NothingSkipped

\* The tickets of a request are stored together or not at all, although a
\* failed insert is only logged (ticket.helpers.go:172): a step that changes
\* the table adds all the tickets Filmstaden answered to one request, and a
\* request whose tickets are not stored is not answered ok.
AllOrNothing ==
    [][/\ tickets' # tickets =>
              \E p \in Request :
                  /\ fetched[p] = {t \in Ticket : tickets'[t] # tickets[t]}
                  /\ \A t \in fetched[p] : tickets[t] = NoTicket
                                           /\ tickets'[t][1] = req[p].showing
       /\ \A p \in Request : pc'[p] = "ok" =>
              \A t \in fetched[p] : tickets'[t] # NoTicket]_vars

\* While the admin stays the same nobody else is given a second ticket, by
\* one request or by several at once.
OneTicketEach ==
    \A t, u \in Ticket :
        t # u /\ tickets[t] # NoTicket /\ tickets[t] = tickets[u]
        => tickets[t][2] = admin[tickets[t][1]]

\* The next step of p: it need not wait, or Postgres makes it fail.
CanGoOn(p) ==
    /\ pc[p] \notin Answered \cup {"panicked"}
    /\ ~PoolWaits(p)
    /\ MustFail(p) \/ \A q \in Request : ~WaitsFor(p, q)

\* Requests wait for a connection, a screen, the row of a showing and each
\* other's tickets, and yet whoever waits waits for one that can go on: among
\* requests none of which has panicked, and that wait for nobody else, there
\* is one that takes its next step if any of them is at work.  In particular
\* only inserts of tickets wait in a circle, and no transaction waits for a
\* second connection.
NobodyStuck ==
    \A S \in SUBSET Request :
        /\ Alone(Waits, S)
        /\ \A p \in S : pc[p] # "panicked"
        /\ \E p \in S : pc[p] \notin Answered
        => \E p \in S : CanGoOn(p)

\* Every request is answered: each wait for a connection, for that of the
\* transaction as for that of the read-back, for a row or for an id ends.
EveryRequestAnswered ==
    \A p \in Request : pc[p] \notin Answered ~> pc[p] \in Answered
=============================================================================
