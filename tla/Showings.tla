------------------------------ MODULE Showings ------------------------------
(***************************************************************************)
(* The showings of a film club, the people attending them, and the         *)
(* GraphQL mutations that change both (internal/graph/showing.resolvers.go *)
(* and payment.resolvers.go over internal/database/dao).                   *)
(*                                                                         *)
(* Every request is served by a goroutine of its own; the only state they  *)
(* share is the database.  A request is a program counter that names the   *)
(* query it is about to send.  A query outside a transaction commits at    *)
(* once.  MarkAsBought and CreateShowing run several queries in one        *)
(* transaction at Postgres' default level, READ COMMITTED: each query sees *)
(* the rows committed when it runs and the rows its own transaction wrote, *)
(* and a row written by an open transaction is locked until that           *)
(* transaction ends, so that a query that wants to write it waits.  The    *)
(* lock of a row carries the row's uncommitted version.                    *)
(***************************************************************************)
EXTENDS Naturals, FiniteSets, Deadlocks

CONSTANTS
    User,       \* the users that have signed in
    Showing,    \* the ids uuid.New may hand out
    Request,    \* the requests the server serves at the same time
    Price,      \* the amounts, in öre, that a client may send
    Op,         \* the mutations clients send, by the request that serves them
    Screen,     \* the cinema screens Filmstaden names
    Absent,     \* the value of a row that is not in its table
    NoLock,     \* the value of the lock of a row nobody has written
    NoRequest   \* the arguments of a request that has been answered

VARIABLES
    showings,       \* table showings, as committed
    attendees,      \* table attendees, as committed, by its primary key
    screens,        \* table cinema_screens, as committed: the ids in it
    showingLock,    \* row locks of showings, with the uncommitted row
    attendeeLock,   \* row locks of attendees, with the uncommitted row
    screenLock,     \* the ids an open transaction has inserted
    unused,         \* the ids uuid.New has not handed out yet
    pc,             \* the query each request is about to send
    req             \* the arguments of each request

vars == <<showings, attendees, screens, showingLock, attendeeLock, screenLock, unused, pc, req>>
tables == <<showings, attendees, screens>>
locks == <<showingLock, attendeeLock, screenLock>>

(***************************************************************************)
(* Rows.  A showing keeps the columns that decide what may be done with it *)
(* and who is paid how much; the rest (movie, date, location, screen) is   *)
(* left out.  Of an attendee's payment option only what later queries look *)
(* at is kept: whether a gift certificate is used.                         *)
(***************************************************************************)
ShowingRow == [admin : User, payTo : User, price : Price, bought : BOOLEAN]
AttendeeRow == [paid : BOOLEAN, owed : Price, cert : BOOLEAN]
Lock(row) == [by : Request, row : row]
Seat == Showing \X User

AdminOnly == {"delete", "markAsBought", "update", "promote", "payment"}
Operation == AdminOnly \cup {"attend", "unattend", "create"}

\* The screen of an argument is that of the show at Filmstaden the client
\* names; Absent if it names none, or Filmstaden does not answer.
Arguments == [op : Operation, user : User, showing : Showing, price : Price,
              screen : Screen \cup {Absent}]

ASSUME ShowingsAssumption ==
    /\ Price \subseteq Nat
    /\ 0 \in Price
    /\ Op \in [Request -> SUBSET Operation]
    /\ IsFiniteSet(Request)
    /\ Absent \notin ShowingRow \cup AttendeeRow
    /\ Absent \notin Screen
    /\ NoLock \notin Lock(ShowingRow \cup {Absent}) \cup Lock(AttendeeRow) \cup Lock(Screen)
    /\ NoRequest \notin Arguments

Answered == {"idle", "ok", "error"}
Query == {"AdminOnShowing", "ShowingTicketsBought", "AddAttendee", "DeleteAttendee",
          "DeleteShowing", "CascadeAttendees", "MarkGCAttendeesAsHavingPaid",
          "UpdateAmountOwedForSwishAttendees", "MarkShowingAsBought", "Commit",
          "UpdateShowing", "PromoteNewUserToShowingAdmin", "UpdateAttendeePayment",
          "LookupMovieTitle", "AddCinemaScreen", "AddShowing"}

\* The first query of the resolver of each mutation; UpdateShowing sends
\* AddCinemaScreen only if there is a screen to add.
FirstQuery == [attend       |-> "ShowingTicketsBought",
               unattend     |-> "DeleteAttendee",
               create       |-> "LookupMovieTitle",
               delete       |-> "DeleteShowing",
               markAsBought |-> "ShowingTicketsBought",
               update       |-> "AddCinemaScreen",
               promote      |-> "PromoteNewUserToShowingAdmin",
               payment      |-> "UpdateAttendeePayment"]

Resolve(r) == IF r.op = "update" /\ r.screen = Absent THEN "UpdateShowing" ELSE FirstQuery[r.op]

Init ==
    /\ showings = [s \in Showing |-> Absent]
    /\ attendees = [k \in Seat |-> Absent]
    /\ screens = {}
    /\ showingLock = [s \in Showing |-> NoLock]
    /\ attendeeLock = [k \in Seat |-> NoLock]
    /\ screenLock = [c \in Screen |-> NoLock]
    /\ unused = Showing
    /\ pc = [p \in Request |-> "idle"]
    /\ req = [p \in Request |-> NoRequest]

-----------------------------------------------------------------------------
(***************************************************************************)
(* Control, row locks and transactions.                                    *)
(***************************************************************************)
At(p, op, query) == pc[p] = query /\ req[p].op = op

Goto(p, query) == pc' = [pc EXCEPT ![p] = query] /\ UNCHANGED req

Answer(p, answer) ==
    /\ pc' = [pc EXCEPT ![p] = answer]
    /\ req' = [req EXCEPT ![p] = NoRequest]

\* A mutation answers with the result of a query it runs after its writes
\* have committed; that query may fail too.
ReadBack(p) == \E answer \in {"ok", "error"} : Answer(p, answer)

Holds(p, lock) == lock # NoLock /\ lock.by = p
MayWrite(p, lock) == lock # NoLock => lock.by = p

\* The rows of the showing a request is about, as the request sees them.
OwnShowing(p) == showings[req[p].showing]
SeatOf(p, u) == <<req[p].showing, u>>
Seen(p, u) == IF Holds(p, attendeeLock[SeatOf(p, u)])
              THEN attendeeLock[SeatOf(p, u)].row
              ELSE attendees[SeatOf(p, u)]

\* WHERE id = $showing AND admin = $user, over the committed rows.
Administers(p) == OwnShowing(p) # Absent /\ OwnShowing(p).admin = req[p].user

\* UPDATE attendees within a transaction: lock the rows, write new versions.
WriteSeats(p, users, New(_)) ==
    attendeeLock' = [k \in Seat |->
        IF k[1] = req[p].showing /\ k[2] \in users
        THEN [by |-> p, row |-> New(Seen(p, k[2]))]
        ELSE attendeeLock[k]]

Unlock(p) ==
    /\ showingLock' = [s \in Showing |->
           IF Holds(p, showingLock[s]) THEN NoLock ELSE showingLock[s]]
    /\ attendeeLock' = [k \in Seat |->
           IF Holds(p, attendeeLock[k]) THEN NoLock ELSE attendeeLock[k]]
    /\ screenLock' = [c \in Screen |->
           IF Holds(p, screenLock[c]) THEN NoLock ELSE screenLock[c]]

Publish(p) ==
    /\ showings' = [s \in Showing |->
           IF Holds(p, showingLock[s]) THEN showingLock[s].row ELSE showings[s]]
    /\ attendees' = [k \in Seat |->
           IF Holds(p, attendeeLock[k]) THEN attendeeLock[k].row ELSE attendees[k]]
    /\ screens' = screens \cup {c \in Screen : Holds(p, screenLock[c])}

Commit(p) ==
    /\ pc[p] = "Commit"
    /\ Publish(p)
    /\ Unlock(p)
    /\ ReadBack(p)
    /\ UNCHANGED unused

\* A query fails (the statement, the connection, a cancelled request): the
\* resolver rolls its transaction back, if it has one, and answers an error.
Fail(p) ==
    /\ pc[p] \notin Answered
    /\ Unlock(p)
    /\ Answer(p, "error")
    /\ UNCHANGED <<tables, unused>>

-----------------------------------------------------------------------------
(***************************************************************************)
(* Requests arrive.  A client names a showing that has been handed out,    *)
(* which may be deleted by now; a new showing gets an id nobody has.       *)
(***************************************************************************)
Start(p, r) ==
    /\ pc' = [pc EXCEPT ![p] = IF r.op \in AdminOnly THEN "AdminOnShowing" ELSE Resolve(r)]
    /\ req' = [req EXCEPT ![p] = r]

Arrive(p) ==
    /\ pc[p] \in Answered
    /\ \E r \in [op : Op[p] \ {"create"}, user : User, showing : Showing \ unused,
                price : Price, screen : Screen \cup {Absent}] :
         /\ r.op # "markAsBought" => r.price = 0
         /\ r.op # "update" => r.screen = Absent
         /\ Start(p, r)
    /\ UNCHANGED <<tables, locks, unused>>

ArriveCreate(p) ==
    /\ pc[p] \in Answered
    /\ \E r \in [op : Op[p] \cap {"create"}, user : User, showing : unused,
                price : {0}, screen : Screen \cup {Absent}] :
         /\ Start(p, r)
         /\ unused' = unused \ {r.showing}
    /\ UNCHANGED <<tables, locks>>

\* @auth(requires: SHOWING_ADMIN): a query of its own, before the resolver.
VerifyShowingAdmin(p) ==
    /\ pc[p] = "AdminOnShowing"
    /\ IF Administers(p) THEN Goto(p, Resolve(req[p])) ELSE Answer(p, "error")
    /\ UNCHANGED <<tables, locks, unused>>

-----------------------------------------------------------------------------
(***************************************************************************)
(* AttendShowing: read the showing, then insert the attendee; two queries  *)
(* with no transaction around them.                                        *)
(***************************************************************************)
AttendRead(p) ==
    /\ At(p, "attend", "ShowingTicketsBought")
    /\ IF OwnShowing(p) = Absent \/ OwnShowing(p).bought
       THEN Answer(p, "error")
       ELSE /\ pc' = [pc EXCEPT ![p] = "AddAttendee"]
            /\ req' = [req EXCEPT ![p] = [@ EXCEPT !.price = OwnShowing(p).price]]
    /\ UNCHANGED <<tables, locks, unused>>

\* The row a payment option asks for: its type and whether it names a ticket.
NewAttendee(swish, cert, price) ==
    [paid |-> ~swish, owed |-> IF swish THEN price ELSE 0, cert |-> cert]

\* The foreign key check of an insert waits for a transaction that deletes
\* the showing, not for one that updates it.
BeingDeleted(s) == showingLock[s] # NoLock /\ showings[s] # Absent /\ showingLock[s].row = Absent

\* Mutant: attendees without the foreign key to showings.
AttendInsertAnyway(p) ==
    LET k == SeatOf(p, req[p].user) IN
    /\ At(p, "attend", "AddAttendee")
    /\ attendeeLock[k] = NoLock
    /\ IF attendees[k] # Absent
       THEN Answer(p, "error") /\ UNCHANGED attendees
       ELSE /\ \E swish, cert \in BOOLEAN :
                 attendees' = [attendees EXCEPT ![k] = NewAttendee(swish, cert, req[p].price)]
            /\ ReadBack(p)
    /\ UNCHANGED <<showings, screens, locks, unused>>

AttendInsert(p) ==
    LET k == SeatOf(p, req[p].user) IN
    /\ At(p, "attend", "AddAttendee")
    /\ ~BeingDeleted(req[p].showing)
    /\ attendeeLock[k] = NoLock
    /\ IF OwnShowing(p) = Absent \/ attendees[k] # Absent
       THEN Answer(p, "error") /\ UNCHANGED attendees
       ELSE /\ \E swish, cert \in BOOLEAN :
                 attendees' = [attendees EXCEPT ![k] = NewAttendee(swish, cert, req[p].price)]
            /\ ReadBack(p)
    /\ UNCHANGED <<showings, screens, locks, unused>>

UnattendShowing(p) ==
    LET k == SeatOf(p, req[p].user) IN
    /\ pc[p] = "DeleteAttendee"
    /\ attendeeLock[k] = NoLock
    /\ IF attendees[k] = Absent
       THEN Answer(p, "error") /\ UNCHANGED attendees
       ELSE attendees' = [attendees EXCEPT ![k] = Absent] /\ ReadBack(p)
    /\ UNCHANGED <<showings, screens, locks, unused>>

-----------------------------------------------------------------------------
(***************************************************************************)
(* CreateShowing: the movie's title, the screen, the showing and its admin *)
(* as first attendee, in one transaction.  The insert of a screen does     *)
(* nothing if its id is there (ON CONFLICT DO NOTHING); to know that it    *)
(* waits for an open transaction that has inserted the same id.            *)
(***************************************************************************)
LookupMovieTitle(p) ==
    /\ pc[p] = "LookupMovieTitle"
    /\ Goto(p, IF req[p].screen = Absent THEN "AddShowing" ELSE "AddCinemaScreen")
    /\ UNCHANGED <<tables, locks, unused>>

ScreenFree(p) == screenLock[req[p].screen] = NoLock

CreateAddScreen(p) ==
    /\ At(p, "create", "AddCinemaScreen")
    /\ ScreenFree(p)
    /\ screenLock' = IF req[p].screen \in screens THEN screenLock
                     ELSE [screenLock EXCEPT ![req[p].screen] = [by |-> p, row |-> req[p].screen]]
    /\ Goto(p, "AddShowing")
    /\ UNCHANGED <<tables, showingLock, attendeeLock, unused>>

\* Mutant: when AddShowing fails the resolver returns without a rollback.
CreateInsertReturns(p) ==
    /\ pc[p] = "AddShowing"
    /\ \/ /\ showingLock' = [showingLock EXCEPT ![req[p].showing] =
               [by |-> p, row |-> [admin |-> req[p].user, payTo |-> req[p].user,
                                   price |-> 0, bought |-> FALSE]]]
          /\ Goto(p, "AddAttendee")
       \/ Answer(p, "error") /\ UNCHANGED showingLock
    /\ UNCHANGED <<tables, attendeeLock, screenLock, unused>>

CreateInsert(p) ==
    /\ pc[p] = "AddShowing"
    /\ showingLock' = [showingLock EXCEPT ![req[p].showing] =
           [by |-> p, row |-> [admin |-> req[p].user, payTo |-> req[p].user,
                               price |-> 0, bought |-> FALSE]]]
    /\ Goto(p, "AddAttendee")
    /\ UNCHANGED <<tables, attendeeLock, screenLock, unused>>

\* Mutant: the admin is added with r.db's queries instead of tx's.
CreateAttendOutside(p) ==
    /\ At(p, "create", "AddAttendee")
    /\ attendees' = [attendees EXCEPT ![SeatOf(p, req[p].user)] =
           [paid |-> TRUE, owed |-> 0, cert |-> FALSE]]
    /\ Goto(p, "Commit")
    /\ UNCHANGED <<showings, screens, locks, unused>>

CreateAttend(p) ==
    /\ At(p, "create", "AddAttendee")
    /\ attendeeLock' = [attendeeLock EXCEPT ![SeatOf(p, req[p].user)] =
           [by |-> p, row |-> [paid |-> TRUE, owed |-> 0, cert |-> FALSE]]]
    /\ Goto(p, "Commit")
    /\ UNCHANGED <<tables, showingLock, screenLock, unused>>

-----------------------------------------------------------------------------
(***************************************************************************)
(* DeleteShowing: one statement, but Postgres locks the showing first and  *)
(* then deletes the attendees that refer to it, waiting for each.          *)
(***************************************************************************)
\* Mutant: the number of deleted rows is not looked at.
DeleteShowingAgain(p) ==
    /\ pc[p] = "DeleteShowing"
    /\ IF OwnShowing(p) = Absent
       THEN Answer(p, "ok") /\ UNCHANGED showingLock
       ELSE /\ showingLock[req[p].showing] = NoLock
            /\ showingLock' = [showingLock EXCEPT ![req[p].showing] = [by |-> p, row |-> Absent]]
            /\ Goto(p, "CascadeAttendees")
    /\ UNCHANGED <<tables, attendeeLock, screenLock, unused>>

DeleteShowing(p) ==
    /\ pc[p] = "DeleteShowing"
    /\ IF OwnShowing(p) = Absent
       THEN Answer(p, "error") /\ UNCHANGED showingLock
       ELSE /\ showingLock[req[p].showing] = NoLock
            /\ showingLock' = [showingLock EXCEPT ![req[p].showing] = [by |-> p, row |-> Absent]]
            /\ Goto(p, "CascadeAttendees")
    /\ UNCHANGED <<tables, attendeeLock, screenLock, unused>>

Attending(p) == {u \in User : attendees[SeatOf(p, u)] # Absent}

CascadeAttendees(p) ==
    /\ pc[p] = "CascadeAttendees"
    /\ \A u \in Attending(p) : attendeeLock[SeatOf(p, u)] = NoLock
    /\ showings' = [showings EXCEPT ![req[p].showing] = Absent]
    /\ attendees' = [k \in Seat |-> IF k[1] = req[p].showing THEN Absent ELSE attendees[k]]
    /\ Unlock(p)
    /\ ReadBack(p)
    /\ UNCHANGED <<screens, unused>>

-----------------------------------------------------------------------------
(***************************************************************************)
(* MarkAsBought: one transaction of four queries.  Each of the three       *)
(* updates repeats the condition that the caller is the admin, and writes  *)
(* no row when that no longer holds; the resolver does not look.           *)
(***************************************************************************)
MarkRead(p) ==
    /\ At(p, "markAsBought", "ShowingTicketsBought")
    /\ IF OwnShowing(p) = Absent \/ OwnShowing(p).bought
       THEN Answer(p, "error")
       ELSE Goto(p, "MarkGCAttendeesAsHavingPaid")
    /\ UNCHANGED <<tables, locks, unused>>

GCAttendees(p) ==
    {u \in User : /\ Administers(p)
                  /\ Seen(p, u) # Absent
                  /\ Seen(p, u).cert \/ u = req[p].user}

\* Mutant: the update does not ask for has_paid = false.
SwishAttendeesPaidOrNot(p) ==
    {u \in User : /\ Administers(p)
                  /\ Seen(p, u) # Absent
                  /\ ~Seen(p, u).cert}

SwishAttendees(p) ==
    {u \in User : /\ Administers(p)
                  /\ Seen(p, u) # Absent
                  /\ ~Seen(p, u).cert
                  /\ ~Seen(p, u).paid}

MarkGCAttendeesAsHavingPaid(p) ==
    /\ pc[p] = "MarkGCAttendeesAsHavingPaid"
    /\ \A u \in GCAttendees(p) : MayWrite(p, attendeeLock[SeatOf(p, u)])
    /\ LET Settle(row) == [row EXCEPT !.paid = TRUE, !.owed = 0]
       IN  WriteSeats(p, GCAttendees(p), Settle)
    /\ Goto(p, "UpdateAmountOwedForSwishAttendees")
    /\ UNCHANGED <<tables, showingLock, screenLock, unused>>

UpdateAmountOwedForSwishAttendees(p) ==
    /\ pc[p] = "UpdateAmountOwedForSwishAttendees"
    /\ \A u \in SwishAttendees(p) : MayWrite(p, attendeeLock[SeatOf(p, u)])
    /\ LET Owe(row) == [row EXCEPT !.owed = req[p].price]
       IN  WriteSeats(p, SwishAttendees(p), Owe)
    /\ Goto(p, "MarkShowingAsBought")
    /\ UNCHANGED <<tables, showingLock, screenLock, unused>>

\* Mutant: the update does not ask whether the caller is still the admin.
MarkShowingAsBoughtByAnyone(p) ==
    /\ pc[p] = "MarkShowingAsBought"
    /\ IF OwnShowing(p) # Absent /\ ~OwnShowing(p).bought
       THEN /\ showingLock[req[p].showing] = NoLock
            /\ showingLock' = [showingLock EXCEPT ![req[p].showing] =
                   [by |-> p, row |-> [OwnShowing(p) EXCEPT !.bought = TRUE, !.price = req[p].price]]]
       ELSE UNCHANGED showingLock
    /\ Goto(p, "Commit")
    /\ UNCHANGED <<tables, attendeeLock, screenLock, unused>>

\* Mutant: when the update fails the resolver returns without a rollback.
MarkShowingAsBoughtReturns(p) ==
    /\ pc[p] = "MarkShowingAsBought"
    /\ \/ /\ IF Administers(p) /\ ~OwnShowing(p).bought
             THEN /\ showingLock[req[p].showing] = NoLock
                  /\ showingLock' = [showingLock EXCEPT ![req[p].showing] =
                         [by |-> p, row |-> [OwnShowing(p) EXCEPT !.bought = TRUE, !.price = req[p].price]]]
             ELSE UNCHANGED showingLock
          /\ Goto(p, "Commit")
       \/ Answer(p, "error") /\ UNCHANGED showingLock
    /\ UNCHANGED <<tables, attendeeLock, screenLock, unused>>

MarkShowingAsBought(p) ==
    /\ pc[p] = "MarkShowingAsBought"
    /\ IF Administers(p) /\ ~OwnShowing(p).bought
       THEN /\ showingLock[req[p].showing] = NoLock
            /\ showingLock' = [showingLock EXCEPT ![req[p].showing] =
                   [by |-> p, row |-> [OwnShowing(p) EXCEPT !.bought = TRUE, !.price = req[p].price]]]
       ELSE UNCHANGED showingLock
    /\ Goto(p, "Commit")
    /\ UNCHANGED <<tables, attendeeLock, screenLock, unused>>

-----------------------------------------------------------------------------
(***************************************************************************)
(* The admin's single-query mutations.  Of these UpdateShowing and         *)
(* PromoteToAdmin repeat the admin condition in their WHERE clause,        *)
(* UpdateAttendeePaymentInfo does not.  UpdateShowing adds the screen of   *)
(* the show it is given first.                                             *)
(***************************************************************************)
\* The screen is added by a query of its own, committed before the update.
UpdateAddScreen(p) ==
    /\ At(p, "update", "AddCinemaScreen")
    /\ ScreenFree(p)
    /\ screens' = screens \cup {req[p].screen}
    /\ Goto(p, "UpdateShowing")
    /\ UNCHANGED <<showings, attendees, locks, unused>>

UpdateShowing(p) ==
    /\ pc[p] = "UpdateShowing"
    /\ IF Administers(p)
       THEN /\ showingLock[req[p].showing] = NoLock
            /\ \E c \in Price, u \in User :
                 showings' = [showings EXCEPT ![req[p].showing] =
                                  [@ EXCEPT !.price = c, !.payTo = u]]
       ELSE UNCHANGED showings
    /\ ReadBack(p)
    /\ UNCHANGED <<attendees, screens, locks, unused>>

\* Mutant: the update does not ask for tickets_bought = false.
PromoteToAdminLate(p) ==
    /\ pc[p] = "PromoteNewUserToShowingAdmin"
    /\ IF Administers(p)
       THEN /\ showingLock[req[p].showing] = NoLock
            /\ \E u \in User :
                 showings' = [showings EXCEPT ![req[p].showing] =
                                  [@ EXCEPT !.admin = u, !.payTo = u]]
       ELSE UNCHANGED showings
    /\ ReadBack(p)
    /\ UNCHANGED <<attendees, screens, locks, unused>>

PromoteToAdmin(p) ==
    /\ pc[p] = "PromoteNewUserToShowingAdmin"
    /\ IF Administers(p) /\ ~OwnShowing(p).bought
       THEN /\ showingLock[req[p].showing] = NoLock
            /\ \E u \in User :
                 showings' = [showings EXCEPT ![req[p].showing] =
                                  [@ EXCEPT !.admin = u, !.payTo = u]]
       ELSE UNCHANGED showings
    /\ ReadBack(p)
    /\ UNCHANGED <<attendees, screens, locks, unused>>

UpdateAttendeePayment(p) ==
    /\ pc[p] = "UpdateAttendeePayment"
    /\ \E u \in User :
         LET k == SeatOf(p, u) IN
         /\ attendeeLock[k] = NoLock
         /\ IF attendees[k] = Absent
            THEN Answer(p, "error") /\ UNCHANGED attendees
            ELSE /\ \E paid \in BOOLEAN, c \in Price :
                      attendees' = [attendees EXCEPT ![k] =
                                        [@ EXCEPT !.paid = paid, !.owed = c]]
                 /\ ReadBack(p)
    /\ UNCHANGED <<showings, screens, locks, unused>>

-----------------------------------------------------------------------------
(***************************************************************************)
(* Postgres ends the transaction of one of the requests that wait for each *)
(* other: a deletion that waits for an attendee and a MarkAsBought that    *)
(* waits for the showing, say.                                             *)
(***************************************************************************)
\* The next query of p writes the showing, or needs it to stay.
WantsShowing(p) ==
    \/ pc[p] = "DeleteShowing" /\ OwnShowing(p) # Absent
    \/ pc[p] = "UpdateShowing" /\ Administers(p)
    \/ /\ pc[p] \in {"MarkShowingAsBought", "PromoteNewUserToShowingAdmin"}
       /\ Administers(p) /\ ~OwnShowing(p).bought
    \/ At(p, "attend", "AddAttendee") /\ BeingDeleted(req[p].showing)

\* The attendees it writes; UpdateAttendeePayment writes one of them.
WantsAttendees(p) ==
    CASE pc[p] = "CascadeAttendees" -> Attending(p)
      [] pc[p] = "MarkGCAttendeesAsHavingPaid" -> GCAttendees(p)
      [] pc[p] = "UpdateAmountOwedForSwishAttendees" -> SwishAttendees(p)
      [] pc[p] = "DeleteAttendee" \/ At(p, "attend", "AddAttendee") -> {req[p].user}
      [] pc[p] = "UpdateAttendeePayment" -> User
      [] OTHER -> {}

WaitsFor(p, q) ==
    /\ q # p
    /\ \/ WantsShowing(p) /\ Holds(q, showingLock[req[p].showing])
       \/ \E u \in WantsAttendees(p) : Holds(q, attendeeLock[SeatOf(p, u)])
       \/ pc[p] = "AddCinemaScreen" /\ Holds(q, screenLock[req[p].screen])

Waiting(p) == \E q \in Request : WaitsFor(p, q)
Waits == {w \in Request \X Request : WaitsFor(w[1], w[2])}

DeadlockVictim(p) ==
    /\ Waiting(p) /\ InCircle(Waits, p)
    /\ Unlock(p)
    /\ Answer(p, "error")
    /\ UNCHANGED <<tables, unused>>

-----------------------------------------------------------------------------
Step(p) ==
    \/ VerifyShowingAdmin(p)
    \/ AttendRead(p) \/ AttendInsert(p) \/ UnattendShowing(p)
    \/ LookupMovieTitle(p) \/ CreateAddScreen(p) \/ CreateInsert(p) \/ CreateAttend(p)
    \/ DeleteShowing(p) \/ CascadeAttendees(p)
    \/ MarkRead(p) \/ MarkGCAttendeesAsHavingPaid(p)
    \/ UpdateAmountOwedForSwishAttendees(p) \/ MarkShowingAsBought(p)
    \/ UpdateAddScreen(p) \/ UpdateShowing(p) \/ PromoteToAdmin(p) \/ UpdateAttendeePayment(p)
    \/ Commit(p)
    \/ DeadlockVictim(p)

Next == \E p \in Request : Arrive(p) \/ ArriveCreate(p) \/ Step(p) \/ Fail(p)

\* A request that has arrived keeps running, and Postgres hands a row lock
\* to those that wait for it in turn.
Fairness == \A p \in Request : SF_vars(Step(p))

Spec == Init /\ [][Next]_vars
FairSpec == Spec /\ Fairness
-----------------------------------------------------------------------------
(***************************************************************************)
(* Properties.                                                             *)
(***************************************************************************)
\* Every variable has its type; a request at work has its arguments.
TableTypes ==
    /\ showings \in [Showing -> ShowingRow \cup {Absent}]
    /\ attendees \in [Seat -> AttendeeRow \cup {Absent}]
    /\ showingLock \in [Showing -> Lock(ShowingRow \cup {Absent}) \cup {NoLock}]
    /\ attendeeLock \in [Seat -> Lock(AttendeeRow) \cup {NoLock}]
    /\ screens \subseteq Screen
    /\ screenLock \in [Screen -> Lock(Screen) \cup {NoLock}]
    /\ unused \subseteq Showing

RequestTypes ==
    /\ pc \in [Request -> Query \cup Answered]
    /\ req \in [Request -> Arguments \cup {NoRequest}]
    /\ \A p \in Request : req[p] = NoRequest <=> pc[p] \in Answered

TypeOK == TableTypes /\ RequestTypes

\* No attendee is left behind by a showing that is deleted while people
\* attend it, or while MarkAsBought rewrites their rows: every committed
\* attendee belongs to a committed showing.
NoOrphans == \A k \in Seat : attendees[k] # Absent => showings[k[1]] # Absent

\* The inductive invariant: what a request has locked, given where it is.
\* An id under creation is known to its creator only; a locked showing is
\* that of the request, it is there unless the request creates it, and its
\* uncommitted version is absent only for a deletion; a locked attendee is
\* of that showing, and is there unless the request creates it; a locked
\* screen is new, and locked by a request that creates a showing on it.  In
\* particular a request that has been answered has nothing locked.
FreshIds ==
    \A p \in Request : pc[p] \notin Answered =>
        /\ req[p].showing \notin unused
        /\ req[p].op = "create" =>
             /\ showings[req[p].showing] = Absent
             /\ \A q \in Request \ {p} :
                  pc[q] \notin Answered /\ req[q].op = "create"
                  => req[q].showing # req[p].showing

UnusedIds == \A s \in unused : showings[s] = Absent

ControlInv ==
    \A p \in Request : pc[p] \notin Answered =>
        /\ pc[p] \in {"MarkGCAttendeesAsHavingPaid", "UpdateAmountOwedForSwishAttendees",
                      "MarkShowingAsBought"} => req[p].op = "markAsBought"
        /\ pc[p] \in {"DeleteShowing", "CascadeAttendees"} => req[p].op = "delete"
        /\ pc[p] = "Commit" => req[p].op \in {"markAsBought", "create"}
        /\ pc[p] = "AddAttendee" => req[p].op \in {"attend", "create"}
        /\ pc[p] \in {"LookupMovieTitle", "AddShowing"} => req[p].op = "create"
        /\ pc[p] = "AddCinemaScreen" => req[p].op \in {"create", "update"} /\ req[p].screen # Absent
        /\ pc[p] = "AdminOnShowing" => req[p].op \in AdminOnly
        /\ pc[p] = "CascadeAttendees" => Holds(p, showingLock[req[p].showing])
        /\ req[p].op = "create" /\ pc[p] \notin {"LookupMovieTitle", "AddCinemaScreen", "AddShowing"}
           => /\ pc[p] \in {"AddAttendee", "Commit"}
              /\ Holds(p, showingLock[req[p].showing])

ShowingLockInv ==
    \A s \in Showing : showingLock[s] # NoLock =>
        LET p == showingLock[s].by IN
        /\ pc[p] \in {"AddAttendee", "CascadeAttendees", "Commit"}
        /\ req[p].op \in {"create", "delete", "markAsBought"}
        /\ req[p].showing = s
        /\ showingLock[s].row = Absent <=> req[p].op = "delete"
        /\ showings[s] = Absent <=> req[p].op = "create"

AttendeeLockInv ==
    \A k \in Seat : attendeeLock[k] # NoLock =>
        LET p == attendeeLock[k].by IN
        /\ pc[p] \in {"UpdateAmountOwedForSwishAttendees", "MarkShowingAsBought", "Commit"}
        /\ req[p].showing = k[1]
        /\ attendees[k] = Absent <=> req[p].op = "create"

ScreenLockInv ==
    \A c \in Screen : screenLock[c] # NoLock =>
        LET p == screenLock[c].by IN
        /\ c \notin screens
        /\ pc[p] \in {"AddShowing", "AddAttendee", "Commit"}
        /\ req[p].op = "create" /\ req[p].screen = c

IInv ==
    /\ TypeOK
    /\ NoOrphans
    /\ FreshIds
    /\ UnusedIds
    /\ ControlInv
    /\ ShowingLockInv
    /\ AttendeeLockInv
    /\ ScreenLockInv

\* A MarkAsBought that has locked the showing will publish it as bought, with
\* the admin it has, who is the caller.
PurchaseInv ==
    \A s \in Showing :
        showingLock[s] # NoLock /\ req[showingLock[s].by].op = "markAsBought" =>
            /\ showingLock[s].row.bought
            /\ showingLock[s].row.admin = showings[s].admin
            /\ req[showingLock[s].by].user = showings[s].admin

\* While a showing exists it never becomes un-bought, and once it is bought
\* nobody else becomes its admin, whatever UpdateShowing, PromoteToAdmin and
\* MarkAsBought read before they wait for each other's row.
BoughtForGood ==
    [][\A s \in Showing :
          showings[s] # Absent /\ showings[s].bought /\ showings'[s] # Absent
          => showings'[s].bought /\ showings'[s].admin = showings[s].admin]_vars

\* MarkAsBought never charges somebody who has paid, even if the payment was
\* recorded after the transaction began.
PaidNotCharged ==
    [][\A p \in Request, u \in User :
          /\ pc[p] = "Commit" /\ req[p].op = "markAsBought" /\ pc'[p] = "ok"
          /\ Seen(p, u) # attendees[SeatOf(p, u)]
          /\ attendees[SeatOf(p, u)].paid
          => attendees'[SeatOf(p, u)].paid /\ attendees'[SeatOf(p, u)].owed = 0]_vars

\* A deletion that answers ok has itself removed the showing: of two that
\* race, one answers an error (showing.resolvers.go:205).
DeletedOnce ==
    [][\A p \in Request :
          req[p] # NoRequest /\ req[p].op = "delete" /\ pc'[p] = "ok"
          => OwnShowing(p) # Absent /\ showings'[req[p].showing] = Absent]_vars

\* What is committed is a sequence of the changes ShowingBook allows.
Book == INSTANCE ShowingBook WITH showings <- showings, attendees <- attendees
ImplementsBook == Book!Spec

\* The next step of p: it need not wait, whichever attendee it names, or
\* Postgres makes it fail.
CanGoOn(p) ==
    /\ pc[p] \notin Answered
    /\ Waiting(p) => InCircle(Waits, p)

\* A purchase locks the attendees before the showing and a deletion the
\* showing before the attendees, and yet whoever waits waits for one that can
\* go on: among requests that wait for nobody else there is one that takes its
\* next step, if any of them is at work.  In particular no row is left locked
\* by a request that has been answered.
NobodyStuck ==
    \A S \in SUBSET Request :
        /\ Alone(Waits, S)
        /\ \E p \in S : pc[p] \notin Answered
        => \E p \in S : CanGoOn(p)

\* Every request is answered: no two of them wait for each other for good.
EveryRequestAnswered ==
    \A p \in Request : pc[p] \notin Answered ~> pc[p] \in Answered

\* "cannot attend a showing that has already been bought"
\* (showing.resolvers.go:40): nobody becomes an attendee of a bought showing.
NobodyJoinsBought ==
    [][\A k \in Seat :
          attendees[k] = Absent /\ attendees'[k] # Absent /\ showings[k[1]] # Absent
          => ~showings[k[1]].bought]_vars

\* "marked showing as bought" (showing.resolvers.go:270): when MarkAsBought
\* has committed, the showing is bought at the price it was given.
MarkedIsBought ==
    [][\A p \in Request :
          req[p] # NoRequest /\ req[p].op = "markAsBought" /\ pc[p] = "Commit" /\ pc'[p] = "ok"
          => /\ showings'[req[p].showing] # Absent
             /\ showings'[req[p].showing].bought
             /\ showings'[req[p].showing].price = req[p].price]_vars

\* "you must be a showing admin for this" (showing_admin_auth.go:41): what a
\* mutation for admins changes of a showing and its attendees, a deletion and
\* a payment included, it changes for the user who administers the showing at
\* that moment.
OnlyAdminChanges ==
    [][\A p \in Request :
          /\ req[p] # NoRequest /\ req[p].op \in AdminOnly /\ pc'[p] # pc[p]
          /\ <<showings', attendees'>> # <<showings, attendees>>
          => Administers(p)]_vars
=============================================================================
