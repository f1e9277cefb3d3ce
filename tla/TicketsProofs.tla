--------------------------- MODULE TicketsProofs ---------------------------
(***************************************************************************)
(* Proofs about Tickets: every transaction ends, a request stores all its  *)
(* tickets or none, nobody but the admin gets two, and no request is stuck *)
(* behind others that are, for any users, showings, links and requests.    *)
(*                                                                         *)
(* That the tickets stay together needs to know that ids are unique among  *)
(* the table and the open transactions (IdsUnique), and that a transaction *)
(* no query has aborted has left nothing out (NothingSkipped).  That       *)
(* nobody gets two rests on the lock of the showing: while the admin stays *)
(* the same, one request at a time is past its UPDATE (AdminLocks), so     *)
(* that the snapshot it takes then is still true when it commits.  That    *)
(* nobody is stuck rests on the order in which a transaction takes its     *)
(* locks (LocksOrdered), and on CircleExists for the tickets.              *)
(***************************************************************************)
EXTENDS Tickets, DeadlocksProofs

\* Nobody but the admin of s has two tickets of s.
OneTicketEachOf(s) ==
    \A t, u \in Ticket :
        t # u /\ tickets[t] # NoTicket /\ tickets[t] = tickets[u] /\ tickets[t][1] = s
        => tickets[t][2] = admin[s]

\* The caller is the admin from the check on, and so from the UPDATE of the
\* showing on no other transaction can assign its tickets.
AdminLocks(s) ==
    \A p \in Request : req[p].showing = s =>
        /\ pc[p] \notin Answered \cup {"AdminOnShowing"} => req[p].user = admin[s]
        /\ pc[p] \in Assigning \cup {"AttendeesIncludingTickets"} /\ tx[p] = "open" =>
              locked[s] = p

\* Whoever the snapshot names has no ticket yet.
SnapshotCurrent(s) ==
    \A p \in Request : req[p].showing = s /\ pc[p] \in Assigning /\ tx[p] = "open" =>
        \A u \in ticketless[p], t \in Ticket :
            tickets[t] # <<s, u>> /\ inserted[p][t] # <<s, u>>

\* Nor does the transaction assign a second ticket, but to the admin.
OneInserted(s) ==
    \A p \in Request, t, u \in Ticket : req[p].showing = s /\ inserted[p][t] # NoTicket =>
        /\ t # u /\ inserted[p][u] = inserted[p][t] => inserted[p][t][2] = req[p].user
        /\ tickets[u] = inserted[p][t] => inserted[p][t][2] = req[p].user

\* What holds besides IInv while the admin of s stays the same.
Once(s) == OneTicketEachOf(s) /\ AdminLocks(s) /\ SnapshotCurrent(s) /\ OneInserted(s)
-----------------------------------------------------------------------------
\* The fields of a request.
LEMMA FieldsType ==
    ASSUME NEW r \in Args
    PROVE  /\ r.user \in User /\ r.showing \in Showing
           /\ r.urls \in Seq(Url) /\ r.todo \in Seq(Ticket)
  BY DEF Args

LEMMA ArgsType ==
    ASSUME NEW r \in Args, NEW urls \in Seq(Url), NEW todo \in Seq(Ticket)
    PROVE  /\ [r EXCEPT !.urls = urls, !.todo = todo] \in Args
           /\ [r EXCEPT !.todo = todo] \in Args
           /\ [r EXCEPT !.urls = urls] \in Args
  BY DEF Args

LEMMA LinkType ==
    ASSUME NEW url \in Url
    PROVE  TicketsOf[url] \in Seq(Ticket) /\ ScreenOf[url] \in Screen
  BY TicketsAssumption DEF Screen

LEMMA NothingType == Nothing \in [Ticket -> Seat \cup {NoTicket}]
  BY DEF Nothing

\* What a request and its transaction are left with when it is answered.
LEMMA FinishFrame ==
    ASSUME TypeOK, NEW p \in Request, NEW answer \in Stage, Finish(p, answer)
    PROVE  /\ pc' \in [Request -> Stage] /\ req' \in [Request -> Args]
           /\ ticketless' \in [Request -> SUBSET User]
           /\ fetched' \in [Request -> SUBSET Ticket]
           /\ pc'[p] = answer /\ req'[p].urls = <<>> /\ req'[p].todo = <<>>
           /\ req'[p].user = req[p].user /\ req'[p].showing = req[p].showing
           /\ ticketless'[p] = {} /\ fetched'[p] = {}
           /\ \A q \in Request : q # p =>
                 /\ pc'[q] = pc[q] /\ req'[q] = req[q]
                 /\ ticketless'[q] = ticketless[q] /\ fetched'[q] = fetched[q]
  <1>1. /\ pc' = [pc EXCEPT ![p] = answer]
        /\ req' = [req EXCEPT ![p].urls = <<>>, ![p].todo = <<>>]
        /\ ticketless' = [ticketless EXCEPT ![p] = {}]
        /\ fetched' = [fetched EXCEPT ![p] = {}]
    BY DEF Finish, Goto
  <1>2. /\ req'[p] = [req[p] EXCEPT !.urls = <<>>, !.todo = <<>>]
        /\ \A q \in Request : q # p => req'[q] = req[q]
        /\ DOMAIN req' = Request
    BY <1>1 DEF TypeOK
  <1>3. req[p] \in Args
    BY DEF TypeOK
  <1>4. /\ req'[p] \in Args /\ req'[p].urls = <<>> /\ req'[p].todo = <<>>
        /\ req'[p].user = req[p].user /\ req'[p].showing = req[p].showing
    <2>1. <<>> \in Seq(Url) /\ <<>> \in Seq(Ticket)
      OBVIOUS
    <2>2. \A r \in Args : [r EXCEPT !.urls = <<>>, !.todo = <<>>] \in Args
      BY <2>1, ArgsType
    <2>3. req'[p] \in Args
      BY <1>2, <1>3, <2>2
    <2> QED
      BY <1>2, <1>3, <2>2 DEF Args
  <1>5. req' \in [Request -> Args]
    BY <1>1, <1>2, <1>4 DEF TypeOK
  <1> QED
    BY <1>1, <1>2, <1>4, <1>5 DEF TypeOK

\* The transaction of p has ended, or is aborted; the others are as they were.
Released(p, outcome) ==
    /\ locked' \in [Showing -> Request \cup {NoLock}]
    /\ tx' \in [Request -> {"none", "open", "aborted"}]
    /\ inserted' \in [Request -> [Ticket -> Seat \cup {NoTicket}]]
    /\ newScreen' \in [Request -> Screen \cup {NoScreen}]
    /\ tx'[p] = outcome /\ inserted'[p] = Nothing /\ newScreen'[p] = NoScreen
    /\ \A s \in Showing : locked'[s] = IF locked[s] = p THEN NoLock ELSE locked[s]
    /\ \A q \in Request : q # p =>
          tx'[q] = tx[q] /\ inserted'[q] = inserted[q] /\ newScreen'[q] = newScreen[q]

LEMMA EndTXReleases ==
    ASSUME TypeOK, NEW p \in Request, NEW outcome \in {"none", "open", "aborted"},
           EndTX(p, outcome)
    PROVE  Released(p, outcome)
  BY NothingType DEF EndTX, TypeOK, Released

\* A transaction that has not begun has nothing to release.
LEMMA NoneReleases ==
    ASSUME IInv, NEW p \in Request, tx[p] = "none", UNCHANGED held
    PROVE  Released(p, "none")
  BY DEF IInv, TypeOK, TransactionsEnd, held, Released

LEMMA Initially == Init => IInv
  <1> SUFFICES ASSUME Init PROVE IInv
    OBVIOUS
  <1>1. ASSUME NEW p \in Request
        PROVE  req[p] \in Args /\ req[p].urls = <<>> /\ req[p].todo = <<>>
    <2>1. PICK u \in User, s \in Showing :
             req[p] = [user |-> u, showing |-> s, urls |-> <<>>, todo |-> <<>>]
      BY DEF Init
    <2> QED
      BY <2>1 DEF Args
  <1>2. req \in [Request -> Args]
    BY <1>1 DEF Init
  <1>3. TypeOK
    <2>1. /\ tickets \in [Ticket -> Seat \cup {NoTicket}]
          /\ inserted \in [Request -> [Ticket -> Seat \cup {NoTicket}]]
      BY NothingType DEF Init
    <2>2. attending \subseteq Seat /\ admin \in [Showing -> User]
      BY DEF Init, Seat
    <2>3. /\ locked \in [Showing -> Request \cup {NoLock}]
          /\ newScreen \in [Request -> Screen \cup {NoScreen}]
          /\ screens \subseteq Screen
      BY DEF Init
    <2> QED
      BY <1>2, <2>1, <2>2, <2>3 DEF Init, TypeOK, Stage, Answered
  <1>4. TransactionsEnd
    BY DEF Init, TransactionsEnd
  <1>5. ControlInv
    BY <1>1 DEF Init, ControlInv, Outside, Assigning, Answered
  <1>6. IdsUnique
    BY DEF Init, IdsUnique, Nothing
  <1>7. NothingSkipped
    BY DEF Init, NothingSkipped
  <1> QED
    BY <1>3, <1>4, <1>5, <1>6, <1>7 DEF IInv

-----------------------------------------------------------------------------
\* Other requests.
LEMMA EnvironmentStep ==
    ASSUME IInv, Attend \/ Unattend \/ Promote
    PROVE  IInv' /\ UNCHANGED <<tickets, held, pc, req, ticketless, fetched>>
  <1>1. UNCHANGED <<tickets, screens, held, pc, req, ticketless, fetched>>
    BY DEF Attend, Unattend, Promote
  <1>2. admin' \in [Showing -> User] /\ attending' \subseteq Seat
    BY DEF IInv, TypeOK, Attend, Unattend, Promote
  <1>3. TypeOK'
    BY <1>1, <1>2 DEF IInv, TypeOK, held
  <1>4. TransactionsEnd' /\ ControlInv'
    BY <1>1 DEF IInv, TransactionsEnd, ControlInv, held
  <1>5. IdsUnique' /\ NothingSkipped'
    BY <1>1 DEF IInv, IdsUnique, NothingSkipped, held
  <1> QED
    BY <1>1, <1>3, <1>4, <1>5 DEF IInv

-----------------------------------------------------------------------------
(***************************************************************************)
(* The steps of a request.                                                 *)
(***************************************************************************)

LEMMA ArriveStep ==
    ASSUME IInv, NEW p \in Request, Arrive(p)
    PROVE  IInv'
  <1>1. /\ pc[p] \in Answered
        /\ pc' = [pc EXCEPT ![p] = "AdminOnShowing"]
        /\ UNCHANGED <<tables, held, ticketless, fetched>>
    BY DEF Arrive, Goto
  <1>2. PICK c \in Sent[p], s \in Showing :
           req' = [req EXCEPT ![p] =
                      [user |-> c[1], showing |-> s, urls |-> c[2], todo |-> <<>>]]
    BY DEF Arrive
  <1>3. c[1] \in User /\ c[2] \in Seq(Url)
    BY TicketsAssumption
  <1> DEFINE new == [user |-> c[1], showing |-> s, urls |-> c[2], todo |-> <<>>]
  <1>4. /\ req' \in [Request -> Args]
        /\ req'[p].todo = <<>>
        /\ \A q \in Request : q # p => req'[q] = req[q]
    <2>1. new \in Args /\ new.todo = <<>>
      BY <1>3 DEF Args
    <2> HIDE DEF new
    <2>2. req' = [req EXCEPT ![p] = new]
      BY <1>2 DEF new
    <2> QED
      BY <2>1, <2>2 DEF IInv, TypeOK
  <1>5. tx[p] = "none" /\ inserted[p] = Nothing
    BY <1>1 DEF IInv, TransactionsEnd
  <1>6. TypeOK'
    BY <1>1, <1>4 DEF IInv, TypeOK, Stage, tables, held
  <1>7. TransactionsEnd'
    <2>1. ASSUME NEW s1 \in Showing, locked[s1] # NoLock
          PROVE  tx[locked[s1]] = "open" /\ req'[locked[s1]].showing = s1
      <3>1. locked[s1] \in Request /\ tx[locked[s1]] = "open" /\ req[locked[s1]].showing = s1
        BY <2>1 DEF IInv, TypeOK, TransactionsEnd
      <3> QED
        BY <1>4, <1>5, <3>1
    <2>2. \A q \in Request : pc'[q] \in Answered => pc[q] \in Answered
      BY <1>1 DEF IInv, TypeOK
    <2> QED
      BY <1>1, <2>1, <2>2 DEF IInv, TransactionsEnd, held
  <1>8. ControlInv'
    BY <1>1, <1>4, <1>5 DEF IInv, TypeOK, ControlInv, held, Answered, Outside, Assigning
  <1>9. IdsUnique'
    <2>1. \A q \in Request, t \in Ticket : inserted[q][t] # NoTicket => req'[q] = req[q]
      BY <1>4, <1>5 DEF Nothing
    <2> QED
      BY <1>1, <2>1 DEF IInv, IdsUnique, held, tables
  <1>10. NothingSkipped'
    BY <1>1, <1>4, <1>5 DEF IInv, NothingSkipped, held
  <1> QED
    BY <1>6, <1>7, <1>8, <1>9, <1>10 DEF IInv

\* A request that is answered, or has only its answer left to read.
Leaves(p) ==
    /\ pc' \in [Request -> Stage] /\ req' \in [Request -> Args]
    /\ ticketless' \in [Request -> SUBSET User]
    /\ fetched' \in [Request -> SUBSET Ticket]
    /\ pc'[p] \in {"Showing", "ok", "error"} /\ req'[p].todo = <<>>
    /\ req'[p].user = req[p].user /\ req'[p].showing = req[p].showing
    /\ pc'[p] # "Showing" => fetched'[p] = {}
    /\ \A q \in Request : q # p =>
          /\ pc'[q] = pc[q] /\ req'[q] = req[q]
          /\ ticketless'[q] = ticketless[q] /\ fetched'[q] = fetched[q]

LEMMA FinishLeaves ==
    ASSUME IInv, NEW p \in Request, NEW answer \in {"ok", "error"}, Finish(p, answer)
    PROVE  Leaves(p) /\ pc'[p] = answer
  BY FinishFrame DEF IInv, Leaves, Stage, Answered

LEMMA GotoShowingLeaves ==
    ASSUME IInv, NEW p \in Request, req[p].todo = <<>>, Goto(p, "Showing"),
           UNCHANGED <<req, ticketless, fetched>>
    PROVE  Leaves(p) /\ pc'[p] = "Showing"
  BY DEF IInv, TypeOK, Leaves, Goto, Stage

\* Whatever ends a request, its transaction ends with it.
LEMMA EndingStep ==
    ASSUME IInv, NEW p \in Request,
           Leaves(p), Released(p, "none"), UNCHANGED <<admin, attending>>,
           screens' \subseteq Screen, tickets' \in [Ticket -> Seat \cup {NoTicket}],
           \A t \in Ticket : inserted[p][t] = NoTicket => tickets'[t] = tickets[t]
    PROVE  IInv'
  <1>1. /\ pc' \in [Request -> Stage] /\ req' \in [Request -> Args]
        /\ ticketless' \in [Request -> SUBSET User]
        /\ fetched' \in [Request -> SUBSET Ticket]
        /\ pc'[p] \in {"Showing", "ok", "error"} /\ req'[p].todo = <<>>
        /\ req'[p].showing = req[p].showing
        /\ pc'[p] # "Showing" => fetched'[p] = {}
        /\ \A q \in Request : q # p =>
              pc'[q] = pc[q] /\ req'[q] = req[q] /\ fetched'[q] = fetched[q]
    BY DEF Leaves
  <1>2. TypeOK'
    BY <1>1 DEF IInv, TypeOK, Released
  <1>3. TransactionsEnd'
    <2>1. ASSUME NEW s \in Showing, locked'[s] # NoLock
          PROVE  tx'[locked'[s]] = "open" /\ req'[locked'[s]].showing = s
      <3>1. locked'[s] = locked[s] /\ locked[s] # p /\ locked[s] \in Request
        BY <2>1 DEF Released, IInv, TypeOK
      <3>2. tx[locked[s]] = "open" /\ req[locked[s]].showing = s
        BY <2>1, <3>1 DEF IInv, TransactionsEnd
      <3> QED
        BY <1>1, <3>1, <3>2 DEF Released
    <2>2. ASSUME NEW q \in Request
          PROVE  /\ pc'[q] \in Answered => tx'[q] = "none"
                 /\ tx'[q] # "open" => inserted'[q] = Nothing /\ newScreen'[q] = NoScreen
      <3>1. CASE q = p
        BY <1>1, <3>1 DEF Released
      <3>2. CASE q # p
        BY <1>1, <3>2 DEF Released, IInv, TransactionsEnd
      <3> QED
        BY <3>1, <3>2
    <2> QED
      BY <2>1, <2>2 DEF TransactionsEnd
  <1>4. ControlInv'
    <2> SUFFICES ASSUME NEW q \in Request
                 PROVE  /\ pc'[q] \in Outside => tx'[q] = "none"
                        /\ pc'[q] \notin Outside => tx'[q] # "none"
                        /\ pc'[q] \notin Outside \cup Assigning =>
                              tx'[q] = "open" /\ inserted'[q] = Nothing
                        /\ pc'[q] \in {"Show", "AddCinemaScreen"} => req'[q].urls # <<>>
                        /\ pc'[q] \in {"Barcode", "AddTicket", "panicked"}
                              <=> req'[q].todo # <<>>
                        /\ pc'[q] \notin Assigning \cup {"Showing"} => fetched'[q] = {}
      BY DEF ControlInv
    <2>1. CASE q = p
      BY <1>1, <2>1 DEF Released, Outside, Answered
    <2>2. CASE q # p
      BY <1>1, <2>2 DEF Released, IInv, ControlInv
    <2> QED
      BY <2>1, <2>2
  <1>5. \A t \in Ticket : inserted'[p][t] = NoTicket
    BY DEF Released, Nothing
  <1>6. IdsUnique'
    <2> SUFFICES ASSUME NEW q \in Request, NEW t \in Ticket, inserted'[q][t] # NoTicket
                 PROVE  /\ tickets'[t] = NoTicket
                        /\ \A r \in Request : r # q => inserted'[r][t] = NoTicket
                        /\ inserted'[q][t][1] = req'[q].showing
      BY DEF IdsUnique
    <2>1. q # p /\ inserted'[q] = inserted[q] /\ req'[q] = req[q]
      BY <1>1, <1>5 DEF Released
    <2>2. /\ tickets[t] = NoTicket /\ inserted[q][t][1] = req[q].showing
          /\ \A r \in Request : r # q => inserted[r][t] = NoTicket
      BY <2>1 DEF IInv, IdsUnique
    <2> QED
      BY <1>5, <2>1, <2>2 DEF Released
  <1>7. NothingSkipped'
    <2>1. \A q \in Request : tx'[q] = "open" =>
             /\ tx[q] = "open" /\ inserted'[q] = inserted[q]
             /\ req'[q] = req[q] /\ fetched'[q] = fetched[q]
      BY <1>1 DEF Released
    <2> QED
      BY <2>1 DEF IInv, NothingSkipped
  <1> QED
    BY <1>2, <1>3, <1>4, <1>6, <1>7 DEF IInv

LEMMA FailStep ==
    ASSUME IInv, NEW p \in Request, Fail(p)
    PROVE  IInv'
  <1>1. Released(p, "none")
    BY EndTXReleases DEF Fail, IInv
  <1> QED
    BY <1>1, FinishLeaves, EndingStep DEF Fail, tables, IInv, TypeOK

LEMMA CommitStep ==
    ASSUME IInv, NEW p \in Request, Commit(p)
    PROVE  IInv'
  <1>1. Leaves(p)
    <2>1. req[p].todo = <<>>
      BY DEF Commit, IInv, ControlInv
    <2> QED
      BY <2>1, FinishLeaves, GotoShowingLeaves DEF Commit
  <1>2. Released(p, "none")
    BY EndTXReleases DEF Commit, IInv
  <1>3. /\ tickets' \in [Ticket -> Seat \cup {NoTicket}]
        /\ \A t \in Ticket : inserted[p][t] = NoTicket => tickets'[t] = tickets[t]
    BY DEF Commit, IInv, TypeOK
  <1>4. screens' \subseteq Screen /\ UNCHANGED <<admin, attending>>
    BY DEF Commit, IInv, TypeOK
  <1> QED
    BY <1>1, <1>2, <1>3, <1>4, EndingStep

LEMMA ReadShowingStep ==
    ASSUME IInv, NEW p \in Request, ReadShowing(p)
    PROVE  IInv'
  <1>1. tx[p] = "none" /\ UNCHANGED held
    BY DEF ReadShowing, IInv, ControlInv, Outside
  <1>2. Released(p, "none")
    BY <1>1, NoneReleases
  <1> QED
    BY <1>2, FinishLeaves, EndingStep DEF ReadShowing, tables, IInv, TypeOK

\* A step that only takes p from one step before BeginTX to another, or begins its
\* transaction.
LEMMA VerifyShowingAdminStep ==
    ASSUME IInv, NEW p \in Request, VerifyShowingAdmin(p)
    PROVE  IInv'
  <1>1. tx[p] = "none" /\ pc[p] = "AdminOnShowing" /\ UNCHANGED <<tables, held>>
    BY DEF VerifyShowingAdmin, IInv, ControlInv, Outside
  <1>2. CASE Finish(p, "error")
    BY <1>1, <1>2, NoneReleases, FinishLeaves, EndingStep DEF tables, IInv, TypeOK
  <1>3. CASE Goto(p, "TX") /\ UNCHANGED <<req, ticketless, fetched>>
    <2>1. TypeOK'
      BY <1>1, <1>3 DEF IInv, TypeOK, Goto, Stage, tables, held
    <2>2. TransactionsEnd'
      BY <1>1, <1>3 DEF IInv, TypeOK, TransactionsEnd, Goto, held
    <2>3. ControlInv'
      BY <1>1, <1>3 DEF IInv, TypeOK, ControlInv, Goto, held, Outside, Assigning, Answered
    <2>4. IdsUnique' /\ NothingSkipped'
      BY <1>1, <1>3 DEF IInv, IdsUnique, NothingSkipped, held, tables
    <2> QED
      BY <2>1, <2>2, <2>3, <2>4 DEF IInv
  <1> QED
    BY <1>2, <1>3 DEF VerifyShowingAdmin

LEMMA BeginTXStep ==
    ASSUME IInv, NEW p \in Request, BeginTX(p)
    PROVE  IInv'
  <1>1. /\ tx[p] = "none" /\ pc[p] = "TX" /\ inserted[p] = Nothing /\ fetched[p] = {}
        /\ req[p].todo = <<>>
        /\ UNCHANGED <<tables, locked, inserted, newScreen>>
    BY DEF BeginTX, IInv, ControlInv, TransactionsEnd, Outside, Assigning, Answered
  <1>2. CASE Goto(p, "Showing") /\ UNCHANGED <<tx, req, ticketless, fetched>>
    <2>1. Released(p, "none") /\ Leaves(p)
      BY <1>1, <1>2, NoneReleases, GotoShowingLeaves DEF held
    <2> QED
      BY <1>1, <2>1, EndingStep DEF tables, IInv, TypeOK
  <1>3. CASE /\ req[p].urls # <<>>
             /\ tx' = [tx EXCEPT ![p] = "open"]
             /\ Goto(p, "Show")
             /\ UNCHANGED <<req, ticketless, fetched>>
    <2>1. TypeOK'
      BY <1>1, <1>3 DEF IInv, TypeOK, Goto, Stage, tables
    <2>2. TransactionsEnd'
      BY <1>1, <1>3 DEF IInv, TypeOK, TransactionsEnd, Goto, Answered
    <2>3. ControlInv'
      BY <1>1, <1>3 DEF IInv, TypeOK, ControlInv, Goto, Outside, Assigning, Answered
    <2>4. IdsUnique'
      BY <1>1, <1>3 DEF IInv, IdsUnique, tables
    <2>5. NothingSkipped'
      BY <1>1, <1>3 DEF IInv, TypeOK, NothingSkipped, Nothing
    <2> QED
      BY <2>1, <2>2, <2>3, <2>4, <2>5 DEF IInv
  <1> QED
    BY <1>2, <1>3 DEF BeginTX

\* From the show to the snapshot: the transaction is open and has inserted
\* no ticket yet.
LEMMA FetchShowStep ==
    ASSUME IInv, NEW p \in Request, FetchShow(p)
    PROVE  IInv'
  <1>1. /\ pc[p] = "Show" /\ pc' = [pc EXCEPT ![p] = "AddCinemaScreen"]
        /\ UNCHANGED <<tables, held, req, ticketless, fetched>>
    BY DEF FetchShow, Goto
  <1>2. TypeOK'
    BY <1>1 DEF IInv, TypeOK, Stage, tables, held
  <1>3. TransactionsEnd'
    BY <1>1 DEF IInv, TypeOK, TransactionsEnd, held, Answered
  <1>4. ControlInv'
    BY <1>1 DEF IInv, TypeOK, ControlInv, held, Outside, Assigning, Answered
  <1>5. IdsUnique' /\ NothingSkipped'
    BY <1>1 DEF IInv, IdsUnique, NothingSkipped, held, tables
  <1> QED
    BY <1>2, <1>3, <1>4, <1>5 DEF IInv

LEMMA AddCinemaScreenStep ==
    ASSUME IInv, NEW p \in Request, AddCinemaScreen(p)
    PROVE  IInv'
  <1> DEFINE screen == ScreenOf[Head(req[p].urls)]
  <1>1. /\ pc[p] = "AddCinemaScreen" /\ pc' = [pc EXCEPT ![p] = "UpdateShowing"]
        /\ newScreen' \in {newScreen, [newScreen EXCEPT ![p] = screen]}
        /\ UNCHANGED <<tables, locked, tx, inserted, req, ticketless, fetched>>
    BY DEF AddCinemaScreen, Goto
  <1>2. tx[p] = "open" /\ req[p].urls \in Seq(Url) /\ req[p].urls # <<>>
    BY <1>1, FieldsType DEF IInv, TypeOK, ControlInv, Outside, Assigning, Answered
  <1>3. screen \in Screen
    BY <1>2, LinkType
  <1> HIDE DEF screen
  <1>4. TypeOK'
    BY <1>1, <1>3 DEF IInv, TypeOK, Stage, tables
  <1>5. TransactionsEnd'
    BY <1>1, <1>2 DEF IInv, TypeOK, TransactionsEnd, Answered
  <1>6. ControlInv'
    BY <1>1 DEF IInv, TypeOK, ControlInv, Outside, Assigning, Answered
  <1>7. IdsUnique' /\ NothingSkipped'
    BY <1>1 DEF IInv, IdsUnique, NothingSkipped, tables
  <1> QED
    BY <1>4, <1>5, <1>6, <1>7 DEF IInv

LEMMA UpdateShowingStep ==
    ASSUME IInv, NEW p \in Request, UpdateShowing(p)
    PROVE  IInv'
  <1>1. /\ pc[p] = "UpdateShowing" /\ pc' = [pc EXCEPT ![p] = "AttendeesIncludingTickets"]
        /\ locked' \in {locked, [locked EXCEPT ![req[p].showing] = p]}
        /\ UNCHANGED <<tables, tx, inserted, newScreen, req, ticketless, fetched>>
    BY DEF UpdateShowing, Goto
  <1>2. tx[p] = "open" /\ req[p].showing \in Showing
    BY <1>1, FieldsType DEF IInv, TypeOK, ControlInv, Outside, Assigning, Answered
  <1>3. TypeOK'
    BY <1>1, <1>2 DEF IInv, TypeOK, Stage, tables
  <1>4. TransactionsEnd'
    <2>1. ASSUME NEW s \in Showing, locked'[s] # NoLock
          PROVE  tx[locked'[s]] = "open" /\ req[locked'[s]].showing = s
      BY <1>1, <1>2, <2>1 DEF IInv, TypeOK, TransactionsEnd
    <2> QED
      BY <1>1, <2>1 DEF IInv, TypeOK, TransactionsEnd, Answered
  <1>5. ControlInv'
    BY <1>1 DEF IInv, TypeOK, ControlInv, Outside, Assigning, Answered
  <1>6. IdsUnique' /\ NothingSkipped'
    BY <1>1 DEF IInv, IdsUnique, NothingSkipped, tables
  <1> QED
    BY <1>3, <1>4, <1>5, <1>6 DEF IInv

LEMMA FetchTicketAssignmentsStep ==
    ASSUME IInv, NEW p \in Request, FetchTicketAssignments(p)
    PROVE  IInv'
  <1>1. /\ pc[p] = "AttendeesIncludingTickets" /\ pc' = [pc EXCEPT ![p] = "Tickets"]
        /\ ticketless' = [ticketless EXCEPT ![p] = Ticketless(req[p].showing)]
        /\ UNCHANGED <<tables, held, req, fetched>>
    BY DEF FetchTicketAssignments, Goto
  <1>2. TypeOK'
    BY <1>1 DEF IInv, TypeOK, Ticketless, Stage, tables, held
  <1>3. TransactionsEnd'
    BY <1>1 DEF IInv, TypeOK, TransactionsEnd, held, Answered
  <1>4. ControlInv'
    BY <1>1 DEF IInv, TypeOK, ControlInv, held, Outside, Assigning, Answered
  <1>5. IdsUnique' /\ NothingSkipped'
    BY <1>1 DEF IInv, IdsUnique, NothingSkipped, held, tables
  <1> QED
    BY <1>2, <1>3, <1>4, <1>5 DEF IInv

\* What is fetched is put on the list of tickets to insert.
LEMMA FetchTicketsStep ==
    ASSUME IInv, NEW p \in Request, FetchTickets(p)
    PROVE  IInv'
  <1>1. /\ pc[p] = "Tickets" /\ req[p] \in Args /\ req[p].todo = <<>>
        /\ tx[p] # "none" /\ UNCHANGED <<tables, held, ticketless>>
    BY DEF FetchTickets, IInv, TypeOK, ControlInv, Outside, Answered
  <1>2. CASE Goto(p, "Commit") /\ UNCHANGED <<req, fetched>>
    <2>1. TypeOK'
      BY <1>1, <1>2 DEF IInv, TypeOK, Goto, Stage, tables, held
    <2>2. TransactionsEnd'
      BY <1>1, <1>2 DEF IInv, TypeOK, TransactionsEnd, Goto, held, Answered
    <2>3. ControlInv'
      BY <1>1, <1>2 DEF IInv, TypeOK, ControlInv, Goto, held, Outside, Assigning, Answered
    <2>4. IdsUnique' /\ NothingSkipped'
      BY <1>1, <1>2 DEF IInv, IdsUnique, NothingSkipped, held, tables
    <2> QED
      BY <2>1, <2>2, <2>3, <2>4 DEF IInv
  <1>3. CASE req[p].urls # <<>>
    <2> DEFINE todo == TicketsOf[Head(req[p].urls)]
    <2>1. /\ Tail(req[p].urls) \in Seq(Url) /\ todo \in Seq(Ticket)
          /\ req[p].user \in User /\ req[p].showing \in Showing
      <3>1. req[p].urls \in Seq(Url)
        BY <1>1, FieldsType
      <3>2. Head(req[p].urls) \in Url /\ Tail(req[p].urls) \in Seq(Url)
        BY <1>3, <3>1
      <3> QED
        BY <1>1, <3>2, FieldsType, LinkType
    <2> HIDE DEF todo
    <2>2. \E list \in {<<>>, todo} :
             /\ req'[p] \in Args
             /\ req'[p].todo = list /\ req'[p].showing = req[p].showing
             /\ \A q \in Request : q # p => req'[q] = req[q]
             /\ req' \in [Request -> Args]
             /\ fetched' = [fetched EXCEPT ![p] = @ \cup {list[i] : i \in DOMAIN list}]
             /\ pc' = [pc EXCEPT ![p] = IF list = <<>> THEN "Tickets" ELSE "Barcode"]
      <3>1. CASE /\ req' = [req EXCEPT ![p].urls = Tail(@)]
                 /\ UNCHANGED <<pc, fetched>>
        <4>1. /\ req'[p] = [req[p] EXCEPT !.urls = Tail(req[p].urls)]
              /\ \A q \in Request : q # p => req'[q] = req[q]
          BY <3>1 DEF IInv, TypeOK
        <4>2. req'[p] \in Args /\ req'[p].todo = <<>> /\ req'[p].showing = req[p].showing
          BY <1>1, <2>1, <4>1 DEF Args
        <4>3. req' \in [Request -> Args]
          BY <3>1, <4>1, <4>2 DEF IInv, TypeOK
        <4>4. /\ fetched' = [fetched EXCEPT ![p] = @ \cup {}]
              /\ pc' = [pc EXCEPT ![p] = "Tickets"]
          BY <1>1, <3>1 DEF IInv, TypeOK
        <4>5. {<<>>[i] : i \in DOMAIN <<>>} = {}
          OBVIOUS
        <4> WITNESS <<>> \in {<<>>, todo}
        <4> QED
          BY <4>1, <4>2, <4>3, <4>4, <4>5
      <3>2. CASE /\ req' = [req EXCEPT ![p].urls = Tail(@), ![p].todo = todo]
                 /\ fetched' = [fetched EXCEPT ![p] = @ \cup {todo[i] : i \in DOMAIN todo}]
                 /\ Goto(p, IF todo = <<>> THEN "Tickets" ELSE "Barcode")
        <4>1. /\ req'[p] = [req[p] EXCEPT !.urls = Tail(req[p].urls), !.todo = todo]
              /\ \A q \in Request : q # p => req'[q] = req[q]
          BY <3>2 DEF IInv, TypeOK
        <4>2. req'[p] \in Args /\ req'[p].todo = todo /\ req'[p].showing = req[p].showing
          BY <1>1, <2>1, <4>1 DEF Args
        <4>3. req' \in [Request -> Args]
          BY <3>2, <4>1, <4>2 DEF IInv, TypeOK
        <4> WITNESS todo \in {<<>>, todo}
        <4> QED
          BY <3>2, <4>1, <4>2, <4>3 DEF Goto
      <3> QED
        BY <1>3, <3>1, <3>2 DEF FetchTickets, todo
    <2>3. PICK list \in {<<>>, todo} :
             /\ req'[p].todo = list /\ req'[p].showing = req[p].showing
             /\ \A q \in Request : q # p => req'[q] = req[q]
             /\ req' \in [Request -> Args]
             /\ fetched' = [fetched EXCEPT ![p] = @ \cup {list[i] : i \in DOMAIN list}]
             /\ pc' = [pc EXCEPT ![p] = IF list = <<>> THEN "Tickets" ELSE "Barcode"]
      BY <2>2
    <2>4. list \in Seq(Ticket)
      <3>1. <<>> \in Seq(Ticket)
        OBVIOUS
      <3> QED
        BY <2>1, <3>1
    <2>5. {list[i] : i \in DOMAIN list} \subseteq Ticket
      BY <2>4
    <2>6. \A q \in Request : req'[q].showing = req[q].showing
      BY <2>3
    <2>7. TypeOK'
      BY <1>1, <2>3, <2>5 DEF IInv, TypeOK, Stage, tables, held
    <2>8. TransactionsEnd'
      <3>1. \A q \in Request : pc'[q] \in Answered => pc[q] \in Answered
        BY <2>3 DEF IInv, TypeOK, Answered
      <3>2. \A s \in Showing : locked[s] # NoLock => locked[s] \in Request
        BY DEF IInv, TypeOK
      <3> QED
        BY <1>1, <2>6, <3>1, <3>2 DEF IInv, TransactionsEnd, held
    <2>9. ControlInv'
      BY <1>1, <2>3 DEF IInv, TypeOK, ControlInv, held, Outside, Assigning, Answered
    <2>10. IdsUnique'
      BY <1>1, <2>6 DEF IInv, IdsUnique, held, tables
    <2>11. NothingSkipped'
      <3> SUFFICES ASSUME NEW q \in Request, NEW t \in Ticket, tx[q] = "open"
                   PROVE  /\ t \in fetched'[q] => \/ inserted[q][t] # NoTicket
                                                  \/ \E i \in DOMAIN req'[q].todo :
                                                        req'[q].todo[i] = t
                          /\ inserted[q][t] # NoTicket => t \in fetched'[q]
                          /\ \A i \in DOMAIN req'[q].todo : req'[q].todo[i] \in fetched'[q]
        BY <1>1 DEF NothingSkipped, held
      <3>1. CASE q = p
        <4>1. fetched'[p] = fetched[p] \cup {list[i] : i \in DOMAIN list}
          BY <2>3 DEF IInv, TypeOK
        <4>2. /\ t \in fetched[p] => inserted[p][t] # NoTicket
              /\ inserted[p][t] # NoTicket => t \in fetched[p]
          BY <1>1, <3>1 DEF IInv, NothingSkipped
        <4> QED
          BY <2>3, <3>1, <4>1, <4>2
      <3>2. CASE q # p
        BY <2>3, <3>2 DEF IInv, TypeOK, NothingSkipped
      <3> QED
        BY <3>1, <3>2
    <2> QED
      BY <2>7, <2>8, <2>9, <2>10, <2>11 DEF IInv
  <1> QED
    BY <1>2, <1>3 DEF FetchTickets

LEMMA FetchBarcodeStep ==
    ASSUME IInv, NEW p \in Request, FetchBarcode(p)
    PROVE  IInv'
  <1>1. /\ pc[p] = "Barcode" /\ tx[p] # "none" /\ req[p].todo # <<>>
        /\ UNCHANGED <<tables, held, req, ticketless, fetched>>
    BY DEF FetchBarcode, IInv, ControlInv, Outside, Answered
  <1>2. PICK stage \in {"AddTicket", "panicked"} : pc' = [pc EXCEPT ![p] = stage]
    BY DEF FetchBarcode, Goto
  <1>3. TypeOK'
    BY <1>1, <1>2 DEF IInv, TypeOK, Stage, tables, held
  <1>4. TransactionsEnd'
    BY <1>1, <1>2 DEF IInv, TypeOK, TransactionsEnd, held, Answered
  <1>5. ControlInv'
    BY <1>1, <1>2 DEF IInv, TypeOK, ControlInv, held, Outside, Assigning, Answered
  <1>6. IdsUnique' /\ NothingSkipped'
    BY <1>1 DEF IInv, IdsUnique, NothingSkipped, held, tables
  <1> QED
    BY <1>3, <1>4, <1>5, <1>6 DEF IInv

\* The list of a request that has come to an insert, and what is left of it.
LEMMA TodoType ==
    ASSUME IInv, NEW p \in Request, pc[p] = "AddTicket"
    PROVE  /\ tx[p] # "none" /\ req[p] \in Args
           /\ req[p].todo \in Seq(Ticket) /\ req[p].todo # <<>>
           /\ Head(req[p].todo) \in Ticket /\ Tail(req[p].todo) \in Seq(Ticket)
           /\ \A i \in DOMAIN req[p].todo :
                 \/ req[p].todo[i] = Head(req[p].todo)
                 \/ \E j \in DOMAIN Tail(req[p].todo) : Tail(req[p].todo)[j] = req[p].todo[i]
           /\ \A j \in DOMAIN Tail(req[p].todo) :
                 \E i \in DOMAIN req[p].todo : Tail(req[p].todo)[j] = req[p].todo[i]
  <1> DEFINE todo == req[p].todo
  <1>1. tx[p] # "none" /\ req[p] \in Args /\ todo # <<>>
    BY DEF IInv, TypeOK, ControlInv, Outside, Answered
  <1>2. todo \in Seq(Ticket)
    BY <1>1, FieldsType
  <1> HIDE DEF todo
  <1>3. Head(todo) \in Ticket /\ Tail(todo) \in Seq(Ticket)
    BY <1>1, <1>2
  <1>4. ASSUME NEW i \in DOMAIN todo, i # 1
        PROVE  i - 1 \in DOMAIN Tail(todo) /\ Tail(todo)[i - 1] = todo[i]
    BY <1>1, <1>2, <1>4
  <1>5. \A j \in DOMAIN Tail(todo) : j + 1 \in DOMAIN todo /\ Tail(todo)[j] = todo[j + 1]
    BY <1>1, <1>2
  <1>6. todo[1] = Head(todo)
    BY <1>1, <1>2
  <1> QED
    BY <1>1, <1>2, <1>3, <1>4, <1>5, <1>6 DEF todo

\* On to the next ticket, whether it has been inserted or not.
LEMMA NextTicketFrame ==
    ASSUME IInv, NEW p \in Request, pc[p] = "AddTicket", NextTicket(p)
    PROVE  /\ req' \in [Request -> Args] /\ pc' \in [Request -> Stage]
           /\ req'[p].todo = Tail(req[p].todo) /\ req'[p].user = req[p].user
           /\ \A q \in Request : req'[q].showing = req[q].showing
           /\ \A q \in Request : q # p => req'[q] = req[q] /\ pc'[q] = pc[q]
           /\ pc'[p] = IF req'[p].todo = <<>> THEN "Tickets" ELSE "Barcode"
           /\ UNCHANGED <<tables, fetched>>
  <1> DEFINE rest == Tail(req[p].todo)
  <1>1. req[p] \in Args /\ rest \in Seq(Ticket)
    BY TodoType
  <1> HIDE DEF rest
  <1>2. /\ req' = [req EXCEPT ![p].todo = rest]
        /\ pc' = [pc EXCEPT ![p] = IF rest = <<>> THEN "Tickets" ELSE "Barcode"]
        /\ UNCHANGED <<tables, fetched>>
    BY DEF NextTicket, Goto, IInv, TypeOK, rest
  <1>3. /\ req'[p] = [req[p] EXCEPT !.todo = rest]
        /\ \A q \in Request : q # p => req'[q] = req[q]
    BY <1>2 DEF IInv, TypeOK
  <1>4. /\ req'[p] \in Args /\ req'[p].todo = rest
        /\ req'[p].user = req[p].user /\ req'[p].showing = req[p].showing
    BY <1>1, <1>3 DEF Args
  <1>5. req' \in [Request -> Args]
    BY <1>2, <1>3, <1>4 DEF IInv, TypeOK
  <1> QED
    BY <1>2, <1>3, <1>4, <1>5 DEF IInv, TypeOK, Stage, rest

LEMMA AddTicketFailsStep ==
    ASSUME IInv, NEW p \in Request, AddTicketFails(p)
    PROVE  IInv'
  <1>1. /\ pc[p] = "AddTicket" /\ Released(p, "aborted") /\ NextTicket(p)
        /\ ticketless' \in [Request -> SUBSET User]
    BY EndTXReleases DEF AddTicketFails, Assigned, IInv, TypeOK
  <1>2. /\ req' \in [Request -> Args] /\ pc' \in [Request -> Stage]
        /\ \A q \in Request : req'[q].showing = req[q].showing
        /\ \A q \in Request : q # p => req'[q] = req[q] /\ pc'[q] = pc[q]
        /\ pc'[p] = IF req'[p].todo = <<>> THEN "Tickets" ELSE "Barcode"
        /\ UNCHANGED <<tables, fetched>>
    BY <1>1, NextTicketFrame
  <1>3. TypeOK'
    BY <1>1, <1>2 DEF IInv, TypeOK, Released, tables
  <1>4. TransactionsEnd'
    <2>1. ASSUME NEW s \in Showing, locked'[s] # NoLock
          PROVE  tx'[locked'[s]] = "open" /\ req'[locked'[s]].showing = s
      <3>1. locked'[s] = locked[s] /\ locked[s] # p /\ locked[s] \in Request
        BY <1>1, <2>1 DEF Released, IInv, TypeOK
      <3>2. tx[locked[s]] = "open" /\ req[locked[s]].showing = s
        BY <2>1, <3>1 DEF IInv, TransactionsEnd
      <3> QED
        BY <1>1, <1>2, <3>1, <3>2 DEF Released
    <2>2. ASSUME NEW q \in Request
          PROVE  /\ pc'[q] \in Answered => tx'[q] = "none"
                 /\ tx'[q] # "open" => inserted'[q] = Nothing /\ newScreen'[q] = NoScreen
      BY <1>1, <1>2 DEF Released, IInv, TransactionsEnd, Answered
    <2> QED
      BY <2>1, <2>2 DEF TransactionsEnd
  <1>5. ControlInv'
    <2> SUFFICES ASSUME NEW q \in Request
                 PROVE  /\ pc'[q] \in Outside => tx'[q] = "none"
                        /\ pc'[q] \notin Outside => tx'[q] # "none"
                        /\ pc'[q] \notin Outside \cup Assigning =>
                              tx'[q] = "open" /\ inserted'[q] = Nothing
                        /\ pc'[q] \in {"Show", "AddCinemaScreen"} => req'[q].urls # <<>>
                        /\ pc'[q] \in {"Barcode", "AddTicket", "panicked"}
                              <=> req'[q].todo # <<>>
                        /\ pc'[q] \notin Assigning \cup {"Showing"} => fetched'[q] = {}
      BY DEF ControlInv
    <2>1. CASE q = p
      BY <1>1, <1>2, <2>1 DEF Released, Outside, Answered, Assigning
    <2>2. CASE q # p
      BY <1>1, <1>2, <2>2 DEF Released, IInv, ControlInv
    <2> QED
      BY <2>1, <2>2
  <1>6. IdsUnique'
    <2>1. \A q \in Request, t \in Ticket : inserted'[q][t] # NoTicket =>
             q # p /\ inserted'[q][t] = inserted[q][t]
      BY <1>1 DEF Released, Nothing
    <2>2. \A q \in Request, t \in Ticket : inserted[q][t] = NoTicket => inserted'[q][t] = NoTicket
      BY <2>1
    <2> QED
      BY <1>2, <2>1, <2>2 DEF IInv, IdsUnique, tables
  <1>7. NothingSkipped'
    <2>1. \A q \in Request : tx'[q] = "open" =>
             /\ tx[q] = "open" /\ inserted'[q] = inserted[q]
             /\ req'[q] = req[q] /\ fetched'[q] = fetched[q]
      BY <1>1, <1>2 DEF Released
    <2> QED
      BY <2>1 DEF IInv, NothingSkipped
  <1> QED
    BY <1>3, <1>4, <1>5, <1>6, <1>7 DEF IInv

\* The seat a ticket is inserted for is that of an attendee or the caller.
LEMMA AddTicketFrame ==
    ASSUME IInv, NEW p \in Request, AddTicket(p)
    PROVE  \E u \in Assignees(p) :
               /\ u \in User
               /\ \A q \in Request, t \in Ticket :
                     inserted'[q][t] = IF q = p /\ t = Head(req[p].todo)
                                       THEN <<req[p].showing, u>> ELSE inserted[q][t]
               /\ inserted' \in [Request -> [Ticket -> Seat \cup {NoTicket}]]
               /\ ticketless' = [ticketless EXCEPT ![p] = @ \ {u}]
               /\ tickets[Head(req[p].todo)] = NoTicket
               /\ \A q \in Request : inserted[q][Head(req[p].todo)] = NoTicket
               /\ tx[p] = "open" /\ pc[p] = "AddTicket" /\ NextTicket(p)
               /\ UNCHANGED <<locked, tx, newScreen>>
  <1> DEFINE n == Head(req[p].todo)
  <1>1. PICK u \in Assignees(p) :
           /\ inserted' = [inserted EXCEPT ![p][n] = <<req[p].showing, u>>]
           /\ Assigned(p, u)
    BY DEF AddTicket
  <1>2. n \in Ticket /\ req[p] \in Args
    BY TodoType DEF AddTicket
  <1>3. req[p].user \in User /\ req[p].showing \in Showing
    BY <1>2, FieldsType
  <1>4. u \in User
    BY <1>3 DEF Assignees, IInv, TypeOK
  <1>5. /\ tickets[n] = NoTicket /\ inserted[p][n] = NoTicket
        /\ \A q \in Request : q # p => inserted[q][n] = NoTicket
    BY DEF AddTicket, Exists, InsertWaitsFor
  <1> HIDE DEF n
  <1>6. <<req[p].showing, u>> \in Seat
    BY <1>3, <1>4 DEF Seat
  <1>7. inserted' \in [Request -> [Ticket -> Seat \cup {NoTicket}]]
    BY <1>1, <1>2, <1>6 DEF IInv, TypeOK
  <1>8. \A q \in Request, t \in Ticket :
           inserted'[q][t] = IF q = p /\ t = n THEN <<req[p].showing, u>> ELSE inserted[q][t]
    BY <1>1, <1>2 DEF IInv, TypeOK
  <1> WITNESS u \in Assignees(p)
  <1> QED
    BY <1>1, <1>4, <1>5, <1>7, <1>8 DEF AddTicket, Assigned, n

LEMMA AddTicketStep ==
    ASSUME IInv, NEW p \in Request, AddTicket(p)
    PROVE  IInv'
  <1> DEFINE n == Head(req[p].todo)
  <1>1. PICK u \in User :
           /\ \A q \in Request, t \in Ticket :
                 inserted'[q][t] = IF q = p /\ t = n THEN <<req[p].showing, u>> ELSE inserted[q][t]
           /\ inserted' \in [Request -> [Ticket -> Seat \cup {NoTicket}]]
           /\ ticketless' = [ticketless EXCEPT ![p] = @ \ {u}]
           /\ tickets[n] = NoTicket /\ \A q \in Request : inserted[q][n] = NoTicket
           /\ tx[p] = "open" /\ pc[p] = "AddTicket" /\ NextTicket(p)
           /\ UNCHANGED <<locked, tx, newScreen>>
    BY AddTicketFrame
  <1>2. /\ req' \in [Request -> Args] /\ pc' \in [Request -> Stage]
        /\ req'[p].todo = Tail(req[p].todo)
        /\ \A q \in Request : req'[q].showing = req[q].showing
        /\ \A q \in Request : q # p => req'[q] = req[q] /\ pc'[q] = pc[q]
        /\ pc'[p] = IF req'[p].todo = <<>> THEN "Tickets" ELSE "Barcode"
        /\ UNCHANGED <<tables, fetched>>
    BY <1>1, NextTicketFrame
  <1>3. /\ n \in Ticket /\ req[p].todo # <<>>
        /\ n \in fetched[p]
        /\ \A i \in DOMAIN req[p].todo :
              \/ req[p].todo[i] = n
              \/ \E j \in DOMAIN Tail(req[p].todo) : Tail(req[p].todo)[j] = req[p].todo[i]
        /\ \A j \in DOMAIN Tail(req[p].todo) : Tail(req[p].todo)[j] \in fetched[p]
    <2>1. req[p].todo \in Seq(Ticket) /\ req[p].todo # <<>>
      BY <1>1, TodoType
    <2>2. 1 \in DOMAIN req[p].todo /\ n = req[p].todo[1] /\ n \in Ticket
      BY <2>1
    <2>3. \A i \in DOMAIN req[p].todo : req[p].todo[i] \in fetched[p]
      BY <1>1, <2>2 DEF IInv, NothingSkipped
    <2> HIDE DEF n
    <2>4. /\ \A i \in DOMAIN req[p].todo :
                \/ req[p].todo[i] = n
                \/ \E j \in DOMAIN Tail(req[p].todo) : Tail(req[p].todo)[j] = req[p].todo[i]
          /\ \A j \in DOMAIN Tail(req[p].todo) :
                \E i \in DOMAIN req[p].todo : Tail(req[p].todo)[j] = req[p].todo[i]
      BY <1>1, TodoType DEF n
    <2> QED
      BY <2>1, <2>2, <2>3, <2>4
  <1> HIDE DEF n
  <1>4. TypeOK'
    BY <1>1, <1>2 DEF IInv, TypeOK, tables
  <1>5. TransactionsEnd'
    <2>1. ASSUME NEW s \in Showing, locked[s] # NoLock
          PROVE  tx[locked[s]] = "open" /\ req'[locked[s]].showing = s
      <3>1. locked[s] \in Request /\ tx[locked[s]] = "open" /\ req[locked[s]].showing = s
        BY <2>1 DEF IInv, TypeOK, TransactionsEnd
      <3> QED
        BY <1>2, <3>1
    <2>2. ASSUME NEW q \in Request
          PROVE  /\ pc'[q] \in Answered => tx[q] = "none"
                 /\ tx[q] # "open" => inserted'[q] = Nothing /\ newScreen[q] = NoScreen
      <3>1. CASE q = p
        BY <1>1, <1>2, <3>1 DEF Answered
      <3>2. CASE q # p
        <4>1. \A t \in Ticket : inserted'[q][t] = inserted[q][t]
          BY <1>1, <3>2
        <4>2. inserted'[q] = inserted[q]
          BY <1>1, <4>1 DEF IInv, TypeOK
        <4> QED
          BY <1>2, <3>2, <4>2 DEF IInv, TransactionsEnd
      <3> QED
        BY <3>1, <3>2
    <2> QED
      BY <1>1, <2>1, <2>2 DEF TransactionsEnd
  <1>6. ControlInv'
    <2> SUFFICES ASSUME NEW q \in Request
                 PROVE  /\ pc'[q] \in Outside => tx'[q] = "none"
                        /\ pc'[q] \notin Outside => tx'[q] # "none"
                        /\ pc'[q] \notin Outside \cup Assigning =>
                              tx'[q] = "open" /\ inserted'[q] = Nothing
                        /\ pc'[q] \in {"Show", "AddCinemaScreen"} => req'[q].urls # <<>>
                        /\ pc'[q] \in {"Barcode", "AddTicket", "panicked"}
                              <=> req'[q].todo # <<>>
                        /\ pc'[q] \notin Assigning \cup {"Showing"} => fetched'[q] = {}
      BY DEF ControlInv
    <2>1. CASE q = p
      BY <1>1, <1>2, <2>1 DEF Outside, Answered, Assigning
    <2>2. CASE q # p
      <3>1. \A t \in Ticket : inserted'[q][t] = inserted[q][t]
        BY <1>1, <2>2
      <3>2. inserted'[q] = inserted[q]
        BY <1>1, <3>1 DEF IInv, TypeOK
      <3> QED
        BY <1>1, <1>2, <2>2, <3>2 DEF IInv, ControlInv
    <2> QED
      BY <2>1, <2>2
  <1>7. IdsUnique'
    <2> SUFFICES ASSUME NEW q \in Request, NEW t \in Ticket, inserted'[q][t] # NoTicket
                 PROVE  /\ tickets[t] = NoTicket
                        /\ \A r \in Request : r # q => inserted'[r][t] = NoTicket
                        /\ inserted'[q][t][1] = req[q].showing
      BY <1>2 DEF IdsUnique, tables
    <2>1. CASE q = p /\ t = n
      BY <1>1, <2>1
    <2>2. CASE ~(q = p /\ t = n)
      <3>1. inserted'[q][t] = inserted[q][t] /\ t # n
        BY <1>1, <2>2
      <3> QED
        BY <1>1, <3>1 DEF IInv, IdsUnique
    <2> QED
      BY <2>1, <2>2
  <1>8. NothingSkipped'
    <2> SUFFICES ASSUME NEW q \in Request, NEW t \in Ticket, tx[q] = "open"
                 PROVE  /\ t \in fetched[q] => \/ inserted'[q][t] # NoTicket
                                               \/ \E i \in DOMAIN req'[q].todo :
                                                     req'[q].todo[i] = t
                        /\ inserted'[q][t] # NoTicket => t \in fetched[q]
                        /\ \A i \in DOMAIN req'[q].todo : req'[q].todo[i] \in fetched[q]
      BY <1>1, <1>2 DEF NothingSkipped
    <2>1. /\ t \in fetched[q] => \/ inserted[q][t] # NoTicket
                                 \/ \E i \in DOMAIN req[q].todo : req[q].todo[i] = t
          /\ inserted[q][t] # NoTicket => t \in fetched[q]
          /\ \A i \in DOMAIN req[q].todo : req[q].todo[i] \in fetched[q]
      BY DEF IInv, NothingSkipped
    <2>2. CASE q = p
      <3>1. inserted'[q][n] # NoTicket
        <4>1. req[p].showing \in Showing
          BY <1>1, TodoType, FieldsType
        <4> QED
          BY <1>1, <1>3, <2>2, <4>1, TicketsAssumption DEF Seat
      <3>2. req'[q].todo = Tail(req[p].todo)
        BY <1>2, <2>2
      <3>3. inserted'[q][t] = IF t = n THEN <<req[p].showing, u>> ELSE inserted[q][t]
        BY <1>1, <2>2
      <3>4. ASSUME t \in fetched[q], inserted'[q][t] = NoTicket
            PROVE  \E i \in DOMAIN req'[q].todo : req'[q].todo[i] = t
        <4>1. t # n /\ inserted[q][t] = NoTicket
          BY <3>1, <3>3, <3>4
        <4>2. PICK i \in DOMAIN req[q].todo : req[q].todo[i] = t
          BY <2>1, <3>4, <4>1
        <4> QED
          BY <1>3, <2>2, <3>2, <4>1, <4>2
      <3>5. inserted'[q][t] # NoTicket => t \in fetched[q]
        BY <1>3, <2>1, <2>2, <3>3
      <3>6. \A i \in DOMAIN req'[q].todo : req'[q].todo[i] \in fetched[q]
        BY <1>3, <2>2, <3>2
      <3> QED
        BY <3>4, <3>5, <3>6
    <2>3. CASE q # p
      BY <1>1, <1>2, <2>1, <2>3
    <2> QED
      BY <2>2, <2>3
  <1> QED
    BY <1>4, <1>5, <1>6, <1>7, <1>8 DEF IInv

-----------------------------------------------------------------------------
LEMMA StepInv == IInv /\ [Next]_vars => IInv'
  <1> SUFFICES ASSUME IInv, [Next]_vars PROVE IInv'
    OBVIOUS
  <1>1. CASE Attend \/ Unattend \/ Promote
    BY <1>1, EnvironmentStep
  <1>2. ASSUME NEW p \in Request, Arrive(p) \/ Step(p) \/ AddTicketFails(p) \/ Fail(p)
        PROVE  IInv'
    <2>1. CASE Arrive(p)
      BY <2>1, ArriveStep
    <2>2. CASE AddTicketFails(p)
      BY <2>2, AddTicketFailsStep
    <2>3. CASE Fail(p)
      BY <2>3, FailStep
    <2>4. CASE VerifyShowingAdmin(p)
      BY <2>4, VerifyShowingAdminStep
    <2>5. CASE BeginTX(p)
      BY <2>5, BeginTXStep
    <2>6. CASE FetchShow(p)
      BY <2>6, FetchShowStep
    <2>7. CASE AddCinemaScreen(p)
      BY <2>7, AddCinemaScreenStep
    <2>8. CASE UpdateShowing(p)
      BY <2>8, UpdateShowingStep
    <2>9. CASE FetchTicketAssignments(p)
      BY <2>9, FetchTicketAssignmentsStep
    <2>10. CASE FetchTickets(p)
      BY <2>10, FetchTicketsStep
    <2>11. CASE FetchBarcode(p)
      BY <2>11, FetchBarcodeStep
    <2>12. CASE AddTicket(p)
      BY <2>12, AddTicketStep
    <2>13. CASE Commit(p)
      BY <2>13, CommitStep
    <2>14. CASE ReadShowing(p)
      BY <2>14, ReadShowingStep
    <2> QED
      BY <1>2, <2>1, <2>2, <2>3, <2>4, <2>5, <2>6, <2>7, <2>8, <2>9, <2>10, <2>11, <2>12,
         <2>13, <2>14 DEF Step
  <1>3. CASE UNCHANGED vars
    <2>1. UNCHANGED <<tables, held, pc, req, ticketless, fetched>>
      BY <1>3 DEF vars
    <2>2. TypeOK'
      BY <2>1 DEF IInv, TypeOK, held, tables
    <2>3. TransactionsEnd' /\ ControlInv'
      BY <2>1 DEF IInv, TransactionsEnd, ControlInv, held
    <2>4. IdsUnique' /\ NothingSkipped'
      BY <2>1 DEF IInv, IdsUnique, NothingSkipped, held, tables
    <2> QED
      BY <2>2, <2>3, <2>4 DEF IInv
  <1> QED
    BY <1>1, <1>2, <1>3 DEF Next

\* No ticket is ever in two hands, and no transaction that can still commit
\* has skipped one, for any links, requests and attendees.
THEOREM Inductive == Spec => []IInv
  BY Initially, StepInv, PTL DEF Spec

\* Whoever has been answered, and every transaction a query has aborted, has
\* given back the row of the showing and the ids; only a panic keeps them.
THEOREM TransactionsAlwaysEnd == Spec => []TransactionsEnd
  <1>1. IInv => TransactionsEnd
    BY DEF IInv
  <1> QED
    BY <1>1, Inductive, PTL

\* What the commit of a request that goes on to read its answer has stored.
Stored ==
    \A p \in Request : pc[p] = "Showing" => \A t \in fetched[p] : tickets[t] # NoTicket

\* A commit stores what the request has fetched, or nothing.
LEMMA CommitStores ==
    ASSUME IInv, NEW p \in Request, Commit(p)
    PROVE  /\ tickets' # tickets => tx[p] = "open"
           /\ tx[p] = "open" =>
                 \A t \in Ticket :
                     /\ t \in fetched[p] <=> tickets'[t] # tickets[t]
                     /\ t \in fetched[p] => /\ tickets[t] = NoTicket
                                            /\ tickets'[t] # NoTicket
                                            /\ tickets'[t][1] = req[p].showing
           /\ fetched[p] \subseteq Ticket
           /\ pc'[p] = IF tx[p] = "open" THEN "Showing" ELSE "error"
           /\ \A q \in Request : q # p => pc'[q] = pc[q] /\ fetched'[q] = fetched[q]
           /\ tx[p] = "open" => fetched' = fetched
           /\ \A t \in Ticket : tickets[t] # NoTicket => tickets'[t] # NoTicket
  <1>1. /\ pc[p] = "Commit" /\ req[p].todo = <<>> /\ tx[p] \in {"open", "aborted"}
    BY DEF Commit, IInv, TypeOK, ControlInv, Outside, Answered
  <1>2. \A t \in Ticket :
           tickets'[t] = IF inserted[p][t] # NoTicket THEN inserted[p][t] ELSE tickets[t]
    BY DEF Commit
  <1>3. tx[p] # "open" => tickets' = tickets
    <2>1. tx[p] # "open" => \A t \in Ticket : tickets'[t] = tickets[t]
      BY <1>2 DEF IInv, TransactionsEnd, Nothing
    <2> QED
      BY <2>1 DEF Commit, IInv, TypeOK
  <1>4. ASSUME tx[p] = "open", NEW t \in Ticket
        PROVE  t \in fetched[p] <=> inserted[p][t] # NoTicket
    BY <1>1, <1>4 DEF IInv, NothingSkipped
  <1>5. ASSUME NEW t \in Ticket, inserted[p][t] # NoTicket
        PROVE  tickets[t] = NoTicket /\ inserted[p][t][1] = req[p].showing
    BY <1>5 DEF IInv, IdsUnique
  <1>6. /\ pc'[p] = IF tx[p] = "open" THEN "Showing" ELSE "error"
        /\ \A q \in Request : q # p => pc'[q] = pc[q] /\ fetched'[q] = fetched[q]
        /\ tx[p] = "open" => fetched' = fetched
    BY <1>1 DEF Commit, Finish, Goto, IInv, TypeOK
  <1>7. fetched[p] \subseteq Ticket
    BY DEF IInv, TypeOK
  <1> QED
    BY <1>2, <1>3, <1>4, <1>5, <1>6, <1>7

\* No other step touches the table, and only the one that has nothing to do
\* goes to read the answer without a commit.
LEMMA OthersStoreNothing ==
    ASSUME IInv, [Next]_vars, \A p \in Request : ~Commit(p)
    PROVE  /\ UNCHANGED tickets
           /\ \A q \in Request : pc'[q] = "Showing" =>
                 fetched'[q] = {} \/ (pc[q] = "Showing" /\ fetched'[q] = fetched[q])
           /\ \A q \in Request : pc'[q] = "ok" => pc[q] \in {"ok", "Showing"}
  <1>1. UNCHANGED tickets
    BY DEF Next, Step, Attend, Unattend, Promote, Arrive, VerifyShowingAdmin,
         BeginTX, FetchShow, AddCinemaScreen, UpdateShowing, FetchTicketAssignments,
         FetchTickets, FetchBarcode, AddTicket, AddTicketFails, Assigned, NextTicket,
         ReadShowing, Fail, tables, vars
  <1>2. CASE UNCHANGED <<pc, fetched>>
    BY <1>1, <1>2
  <1>3. ASSUME NEW p \in Request, Arrive(p) \/ Step(p) \/ AddTicketFails(p) \/ Fail(p)
        PROVE  \A q \in Request :
                  /\ pc'[q] = "Showing" =>
                        fetched'[q] = {} \/ (pc[q] = "Showing" /\ fetched'[q] = fetched[q])
                  /\ pc'[q] = "ok" => pc[q] \in {"ok", "Showing"}
    <2>1. \A q \in Request : q # p => pc'[q] = pc[q] /\ fetched'[q] = fetched[q]
      BY <1>3 DEF Step, Arrive, VerifyShowingAdmin, BeginTX, FetchShow, AddCinemaScreen,
           UpdateShowing, FetchTicketAssignments, FetchTickets, FetchBarcode, AddTicket,
           AddTicketFails, Assigned, NextTicket, Commit, ReadShowing, Fail, Finish, Goto,
           IInv, TypeOK
    <2>2. pc'[p] = "Showing" => BeginTX(p)
      BY <1>3 DEF Step, Arrive, VerifyShowingAdmin, FetchShow, AddCinemaScreen,
           UpdateShowing, FetchTicketAssignments, FetchTickets, FetchBarcode, AddTicket,
           AddTicketFails, Assigned, NextTicket, ReadShowing, Fail, Finish, Goto,
           IInv, TypeOK
    <2>3. pc'[p] = "Showing" => fetched'[p] = {}
      BY <2>2 DEF BeginTX, IInv, ControlInv, Assigning
    <2>4. pc'[p] = "ok" => pc[p] = "Showing"
      BY <1>3 DEF Step, Arrive, VerifyShowingAdmin, BeginTX, FetchShow, AddCinemaScreen,
           UpdateShowing, FetchTicketAssignments, FetchTickets, FetchBarcode, AddTicket,
           AddTicketFails, Assigned, NextTicket, ReadShowing, Fail, Finish, Goto,
           IInv, TypeOK
    <2> QED
      BY <2>1, <2>3, <2>4
  <1> QED
    BY <1>1, <1>2, <1>3 DEF Next, Attend, Unattend, Promote, vars

LEMMA StoredNext == IInv /\ Stored /\ [Next]_vars => Stored'
  <1> SUFFICES ASSUME IInv, Stored, [Next]_vars,
                      NEW q \in Request, pc'[q] = "Showing", NEW t \in fetched'[q]
               PROVE  tickets'[t] # NoTicket
    BY DEF Stored
  <1>1. ASSUME NEW p \in Request, Commit(p) PROVE tickets'[t] # NoTicket
    <2>1. CASE q = p
      BY <1>1, <2>1, CommitStores
    <2>2. CASE q # p
      <3>1. t \in fetched[q] /\ pc[q] = "Showing" /\ t \in Ticket
        BY <1>1, <2>2, CommitStores DEF IInv, TypeOK
      <3> QED
        BY <1>1, <3>1, CommitStores DEF Stored
    <2> QED
      BY <2>1, <2>2
  <1>2. CASE \A p \in Request : ~Commit(p)
    BY <1>2, OthersStoreNothing DEF Stored
  <1> QED
    BY <1>1, <1>2

\* A request stores every ticket it has fetched, or none, and is not answered
\* ok without them.
THEOREM TicketsTogether == Spec => AllOrNothing
  <1> DEFINE Together ==
        /\ tickets' # tickets =>
              \E p \in Request :
                  /\ fetched[p] = {t \in Ticket : tickets'[t] # tickets[t]}
                  /\ \A t \in fetched[p] : tickets[t] = NoTicket
                                           /\ tickets'[t][1] = req[p].showing
        /\ \A p \in Request : pc'[p] = "ok" =>
              \A t \in fetched[p] : tickets'[t] # NoTicket
  <1>1. ASSUME IInv, Stored, [Next]_vars PROVE [Together]_vars
    <2>1. ASSUME NEW p \in Request, Commit(p) PROVE Together
      <3>1. tickets' # tickets =>
               /\ fetched[p] = {t \in Ticket : tickets'[t] # tickets[t]}
               /\ \A t \in fetched[p] : tickets[t] = NoTicket /\ tickets'[t][1] = req[p].showing
        BY <1>1, <2>1, CommitStores
      <3>2. ASSUME NEW q \in Request, pc'[q] = "ok" PROVE fetched[q] = {}
        <4>1. pc[q] = "ok"
          BY <1>1, <2>1, <3>2, CommitStores
        <4> QED
          BY <1>1, <4>1 DEF IInv, ControlInv, Assigning
      <3> QED
        BY <3>1, <3>2
    <2>2. ASSUME \A p \in Request : ~Commit(p) PROVE Together
      <3>1. ASSUME NEW q \in Request, pc'[q] = "ok", NEW t \in fetched[q]
            PROVE  tickets[t] # NoTicket
        <4>1. pc[q] \in {"ok", "Showing"}
          BY <1>1, <2>2, <3>1, OthersStoreNothing
        <4>2. pc[q] = "ok" => fetched[q] = {}
          BY <1>1 DEF IInv, ControlInv, Assigning
        <4> QED
          BY <1>1, <3>1, <4>1, <4>2 DEF Stored
      <3> QED
        BY <1>1, <2>2, <3>1, OthersStoreNothing
    <2> QED
      BY <2>1, <2>2
  <1>2. Init => Stored
    BY DEF Init, Stored
  <1> QED
    BY <1>1, <1>2, StoredNext, Inductive, PTL DEF Spec, AllOrNothing

-----------------------------------------------------------------------------
(***************************************************************************)
(* While the admin of a showing stays the same.                            *)
(***************************************************************************)
LEMMA InitiallyOnce ==
    ASSUME NEW s \in Showing, Init
    PROVE  Once(s)
  <1>1. OneTicketEachOf(s) /\ OneInserted(s)
    BY DEF Init, OneTicketEachOf, OneInserted, Nothing
  <1>2. AdminLocks(s) /\ SnapshotCurrent(s)
    BY DEF Init, AdminLocks, SnapshotCurrent, Answered, Assigning
  <1> QED
    BY <1>1, <1>2 DEF Once

\* Past its check a request stays about the same showing and user.
Unchecked == Answered \cup {"AdminOnShowing"}

\* A step that gives nobody a ticket.
LEMMA QuietStep ==
    ASSUME NEW s \in Showing, IInv, Once(s), IInv', admin'[s] = admin[s], UNCHANGED tickets,
           \A q \in Request, t \in Ticket : inserted'[q][t] \in {inserted[q][t], NoTicket},
           \A q \in Request : pc'[q] \notin Unchecked =>
               /\ req'[q].user = req[q].user /\ req'[q].showing = req[q].showing
               /\ pc[q] \notin Unchecked \/ req[q].user = admin[req[q].showing],
           \A q \in Request :
               /\ req[q].showing = s
               /\ pc'[q] \in Assigning \cup {"AttendeesIncludingTickets"} /\ tx'[q] = "open"
               => locked'[s] = q,
           \A q \in Request : pc'[q] \in Assigning /\ tx'[q] = "open" =>
               \/ pc[q] \in Assigning /\ tx[q] = "open" /\ ticketless'[q] = ticketless[q]
               \/ ticketless'[q] = Ticketless(req[q].showing) /\ inserted[q] = Nothing
    PROVE  Once(s)'
  <1> USE DEF Once
  <1>1. \A q \in Request : pc'[q] \in Assigning \cup {"AttendeesIncludingTickets"} =>
           pc'[q] \notin Unchecked
    BY DEF Assigning, Unchecked, Answered
  <1>2. \A q \in Request, t \in Ticket : inserted'[q][t] # NoTicket =>
           tx'[q] = "open" /\ pc'[q] \notin Unchecked
    BY DEF IInv, TransactionsEnd, ControlInv, Nothing, Outside, Unchecked
  <1>3. OneTicketEachOf(s)'
    BY DEF OneTicketEachOf
  <1>4. AdminLocks(s)'
    BY <1>1 DEF AdminLocks, Unchecked
  <1>5. SnapshotCurrent(s)'
    <2> SUFFICES ASSUME NEW q \in Request, req'[q].showing = s,
                        pc'[q] \in Assigning, tx'[q] = "open",
                        NEW u \in ticketless'[q], NEW t \in Ticket
                 PROVE  tickets[t] # <<s, u>> /\ inserted'[q][t] # <<s, u>>
      BY DEF SnapshotCurrent
    <2>1. req[q].showing = s
      BY <1>1
    <2>2. <<s, u>> # NoTicket
      <3>1. u \in User
        BY DEF IInv, TypeOK
      <3> QED
        BY <3>1, TicketsAssumption DEF Seat
    <2>3. CASE pc[q] \in Assigning /\ tx[q] = "open" /\ ticketless'[q] = ticketless[q]
      <3>1. tickets[t] # <<s, u>> /\ inserted[q][t] # <<s, u>>
        BY <2>1, <2>3 DEF SnapshotCurrent
      <3>2. inserted'[q][t] = inserted[q][t] \/ inserted'[q][t] = NoTicket
        OBVIOUS
      <3> QED
        BY <2>1, <2>2, <3>1, <3>2
    <2>4. CASE ticketless'[q] = Ticketless(req[q].showing) /\ inserted[q] = Nothing
      BY <2>1, <2>2, <2>4 DEF Ticketless, Nothing
    <2> QED
      BY <2>3, <2>4
  <1>6. OneInserted(s)'
    <2> SUFFICES ASSUME NEW p \in Request, NEW t \in Ticket, NEW u \in Ticket,
                        req'[p].showing = s, inserted'[p][t] # NoTicket
                 PROVE  /\ t # u /\ inserted'[p][u] = inserted'[p][t] =>
                              inserted'[p][t][2] = req'[p].user
                        /\ tickets[u] = inserted'[p][t] => inserted'[p][t][2] = req'[p].user
      BY DEF OneInserted
    <2>1. inserted'[p][t] = inserted[p][t] /\ req'[p].user = req[p].user /\ req[p].showing = s
      BY <1>2
    <2>2. inserted'[p][u] = inserted'[p][t] => inserted[p][u] = inserted[p][t]
      BY <2>1
    <2> QED
      BY <2>1, <2>2 DEF OneInserted
  <1> QED
    BY <1>3, <1>4, <1>5, <1>6

\* The steps before a ticket is inserted, and those that fail.
LEMMA BeforeStep ==
    ASSUME NEW s \in Showing, IInv, Once(s), IInv', NEW p \in Request,
           \/ Arrive(p) \/ VerifyShowingAdmin(p) \/ BeginTX(p) \/ FetchShow(p)
           \/ AddCinemaScreen(p) \/ FetchBarcode(p) \/ ReadShowing(p)
    PROVE  Once(s)'
  <1>1. /\ UNCHANGED <<admin, tickets, locked, inserted>>
        /\ \A q \in Request : q # p =>
              pc'[q] = pc[q] /\ req'[q] = req[q] /\ tx'[q] = tx[q] /\ ticketless'[q] = ticketless[q]
    BY DEF Arrive, VerifyShowingAdmin, BeginTX, FetchShow, AddCinemaScreen, FetchBarcode,
           ReadShowing, Goto, Finish, tables, held, IInv, TypeOK
  <1>2. CASE pc'[p] \notin Unchecked
    <2>1. /\ req' = req /\ ticketless' = ticketless
          /\ pc[p] \notin Unchecked \/ req[p].user = admin[req[p].showing]
          /\ pc'[p] \in Assigning \cup {"AttendeesIncludingTickets"} =>
                pc[p] \in Assigning /\ tx'[p] = tx[p]
      BY <1>2 DEF Arrive, VerifyShowingAdmin, BeginTX, FetchShow, AddCinemaScreen,
           FetchBarcode, ReadShowing, Goto, Finish, Unchecked, Answered, Assigning, held, IInv, TypeOK
    <2> QED
      BY <1>1, <2>1, QuietStep DEF Once, AdminLocks, Unchecked
  <1>3. CASE pc'[p] \in Unchecked
    <2>1. pc'[p] \notin Assigning \cup {"AttendeesIncludingTickets"}
      BY <1>3 DEF Unchecked, Answered, Assigning
    <2> QED
      BY <1>1, <1>3, <2>1, QuietStep DEF Once, AdminLocks, Unchecked
  <1> QED
    BY <1>2, <1>3

\* The UPDATE of the showing locks it: the caller is still its admin.
LEMMA SnapshotStep ==
    ASSUME NEW s \in Showing, IInv, Once(s), IInv', NEW p \in Request,
           UpdateShowing(p) \/ FetchTicketAssignments(p) \/ FetchTickets(p)
    PROVE  Once(s)'
  <1>1. /\ UNCHANGED <<admin, tickets, tx, inserted>>
        /\ pc[p] \notin Unchecked
        /\ pc[p] \in {"UpdateShowing", "AttendeesIncludingTickets", "Tickets"}
    BY DEF UpdateShowing, FetchTicketAssignments, FetchTickets, tables, held,
           Unchecked, Answered
  <1>2. req[p] \in Args /\ req[p].showing \in Showing
    BY FieldsType DEF IInv, TypeOK
  <1>3. \A q \in Request :
           req'[q].user = req[q].user /\ req'[q].showing = req[q].showing
    <2>1. CASE req' = req
      BY <2>1
    <2>2. CASE FetchTickets(p)
      <3>1. PICK urls, todo :
               \/ req' = req
               \/ req' = [req EXCEPT ![p].urls = urls]
               \/ req' = [req EXCEPT ![p].urls = urls, ![p].todo = todo]
        BY <2>2 DEF FetchTickets
      <3>2. \/ req'[p] = req[p]
            \/ req'[p] = [req[p] EXCEPT !.urls = urls]
            \/ req'[p] = [req[p] EXCEPT !.urls = urls, !.todo = todo]
        BY <3>1 DEF IInv, TypeOK
      <3>3. \A q \in Request : q # p => req'[q] = req[q]
        BY <3>1 DEF IInv, TypeOK
      <3>4. req'[p].user = req[p].user /\ req'[p].showing = req[p].showing
        BY <1>2, <3>2 DEF Args
      <3> QED
        BY <3>3, <3>4
    <2> QED
      BY <2>1, <2>2 DEF UpdateShowing, FetchTicketAssignments
  <1>4. \A q \in Request : q # p => pc'[q] = pc[q] /\ ticketless'[q] = ticketless[q]
    BY DEF UpdateShowing, FetchTicketAssignments, FetchTickets, Goto, IInv, TypeOK
  <1>5. \A q \in Request :
           /\ req[q].showing = s
           /\ pc'[q] \in Assigning \cup {"AttendeesIncludingTickets"} /\ tx'[q] = "open"
           => locked'[s] = q
    <2>1. CASE UpdateShowing(p)
      <3>1. req[p].showing = s => locked'[s] = p
        <4>1. req[p].showing = s => admin[s] = req[p].user
          BY <1>1 DEF Once, AdminLocks, Unchecked
        <4> QED
          BY <2>1, <4>1 DEF UpdateShowing, IInv, TypeOK
      <3>2. ASSUME NEW q \in Request, q # p, locked[s] = q
            PROVE  locked'[s] = q
        <4>1. req[p].showing = s => admin[s] # req[p].user
          BY <2>1, <3>2 DEF UpdateShowing, RowWaitsFor
        <4> QED
          BY <2>1, <3>2, <4>1 DEF UpdateShowing, IInv, TypeOK
      <3> QED
        BY <1>1, <1>4, <3>1, <3>2 DEF Once, AdminLocks
    <2>2. CASE UNCHANGED locked /\ pc[p] # "UpdateShowing"
      BY <1>1, <1>4, <2>2 DEF Once, AdminLocks, Assigning
    <2> QED
      BY <2>1, <2>2 DEF FetchTicketAssignments, FetchTickets, held
  <1>6. \A q \in Request : pc'[q] \in Assigning /\ tx'[q] = "open" =>
           \/ pc[q] \in Assigning /\ tx[q] = "open" /\ ticketless'[q] = ticketless[q]
           \/ ticketless'[q] = Ticketless(req[q].showing) /\ inserted[q] = Nothing
    <2>1. CASE UpdateShowing(p)
      BY <1>1, <1>4, <2>1 DEF UpdateShowing, Goto, Assigning, IInv, TypeOK
    <2>2. CASE FetchTicketAssignments(p)
      <3>1. ticketless'[p] = Ticketless(req[p].showing) /\ inserted[p] = Nothing
        BY <2>2 DEF FetchTicketAssignments, IInv, TypeOK, ControlInv, Outside, Assigning, Answered
      <3> QED
        BY <1>1, <1>4, <3>1
    <2>3. CASE FetchTickets(p)
      BY <1>1, <1>4, <2>3 DEF FetchTickets, Assigning
    <2> QED
      BY <2>1, <2>2, <2>3
  <1>7. \A q \in Request : pc'[q] \notin Unchecked => pc[q] \notin Unchecked
    BY <1>1, <1>4
  <1> QED
    BY <1>1, <1>3, <1>5, <1>6, <1>7, QuietStep

\* A transaction that ends or is aborted gives its lock and its ids back.
LEMMA FailOnceStep ==
    ASSUME NEW s \in Showing, IInv, Once(s), IInv', NEW p \in Request, Fail(p) \/ AddTicketFails(p)
    PROVE  Once(s)'
  <1>1. /\ UNCHANGED <<admin, tickets>>
        /\ \E outcome \in {"none", "aborted"} : Released(p, outcome)
    BY EndTXReleases DEF Fail, AddTicketFails, Assigned, NextTicket, tables, IInv
  <1>2. \A q \in Request : req'[q].user = req[q].user /\ req'[q].showing = req[q].showing
    <2>1. CASE Fail(p)
      BY <2>1, FinishFrame DEF Fail, IInv, Stage, Answered
    <2>2. CASE AddTicketFails(p)
      <3>1. /\ req'[p].user = req[p].user
            /\ \A q \in Request : req'[q].showing = req[q].showing
            /\ \A q \in Request : q # p => req'[q] = req[q]
        BY <2>2, NextTicketFrame DEF AddTicketFails, Assigned
      <3> QED
        BY <3>1
    <2> QED
      BY <2>1, <2>2
  <1>3. /\ \A q \in Request : q # p => pc'[q] = pc[q] /\ ticketless'[q] = ticketless[q]
        /\ pc'[p] \notin Unchecked => pc[p] \notin Unchecked
    BY DEF Fail, AddTicketFails, Assigned, NextTicket, Finish, Goto, Unchecked, Answered,
           IInv, TypeOK
  <1>4. /\ tx'[p] # "open"
        /\ \A q \in Request, t \in Ticket : inserted'[q][t] \in {inserted[q][t], NoTicket}
        /\ \A q \in Request : q # p =>
              tx'[q] = tx[q] /\ \A u \in Showing : locked[u] = q => locked'[u] = q
    BY <1>1 DEF Released, Nothing
  <1>5. \A q \in Request :
           /\ req[q].showing = s
           /\ pc'[q] \in Assigning \cup {"AttendeesIncludingTickets"} /\ tx'[q] = "open"
           => locked'[s] = q
    BY <1>3, <1>4 DEF Once, AdminLocks
  <1>6. \A q \in Request : pc'[q] \in Assigning /\ tx'[q] = "open" =>
           pc[q] \in Assigning /\ tx[q] = "open" /\ ticketless'[q] = ticketless[q]
    BY <1>3, <1>4
  <1>7. \A q \in Request : pc'[q] \notin Unchecked => pc[q] \notin Unchecked
    BY <1>3
  <1> QED
    BY <1>1, <1>2, <1>4, <1>5, <1>6, <1>7, QuietStep

\* The ticket goes to somebody the snapshot names, or to the admin.
LEMMA AddTicketOnceStep ==
    ASSUME NEW s \in Showing, IInv, Once(s), IInv', NEW p \in Request, AddTicket(p)
    PROVE  Once(s)'
  <1> DEFINE n == Head(req[p].todo)
             seat(u) == <<req[p].showing, u>>
             mine == req[p].showing = s
  <1>1. PICK u \in Assignees(p) :
           /\ \A q \in Request, t \in Ticket :
                 inserted'[q][t] = IF q = p /\ t = n THEN seat(u) ELSE inserted[q][t]
           /\ ticketless' = [ticketless EXCEPT ![p] = @ \ {u}]
           /\ tx[p] = "open" /\ pc[p] = "AddTicket" /\ NextTicket(p)
           /\ UNCHANGED <<locked, tx, newScreen>>
    BY AddTicketFrame
  <1>2. /\ \A q \in Request : req'[q].showing = req[q].showing
        /\ \A q \in Request : q # p => req'[q] = req[q] /\ pc'[q] = pc[q]
        /\ req'[p].user = req[p].user /\ pc'[p] \in {"Tickets", "Barcode"}
        /\ UNCHANGED <<tables, fetched>>
    BY <1>1, NextTicketFrame
  <1>3. n \in Ticket
    BY <1>1, TodoType
  <1>4. mine => u = req[p].user \/ (u \in ticketless[p] /\ \A t \in Ticket :
                               tickets[t] # seat(u) /\ inserted[p][t] # seat(u))
    BY <1>1 DEF Assignees, Once, SnapshotCurrent, Assigning
  <1> HIDE DEF n
  <1>5. OneTicketEachOf(s)'
    BY <1>2 DEF Once, OneTicketEachOf, tables
  <1>6. AdminLocks(s)'
    BY <1>1, <1>2 DEF Once, AdminLocks, tables, Assigning, Answered
  <1>7. SnapshotCurrent(s)'
    <2> SUFFICES ASSUME NEW q \in Request, req[q].showing = s, pc'[q] \in Assigning,
                        tx[q] = "open", NEW w \in ticketless'[q], NEW t \in Ticket
                 PROVE  tickets[t] # <<s, w>> /\ inserted'[q][t] # <<s, w>>
      BY <1>1, <1>2 DEF SnapshotCurrent, tables
    <2>1. pc[q] \in Assigning /\ w \in ticketless[q] /\ (q = p => w # u)
      BY <1>1, <1>2 DEF IInv, TypeOK, Assigning
    <2>2. tickets[t] # <<s, w>> /\ inserted[q][t] # <<s, w>>
      BY <2>1 DEF Once, SnapshotCurrent
    <2> QED
      BY <1>1, <2>1, <2>2
  <1>8. OneInserted(s)'
    <2> SUFFICES ASSUME NEW q \in Request, NEW t \in Ticket, NEW w \in Ticket,
                        req[q].showing = s, inserted'[q][t] # NoTicket
                 PROVE  /\ t # w /\ inserted'[q][w] = inserted'[q][t] =>
                              inserted'[q][t][2] = req[q].user
                        /\ tickets[w] = inserted'[q][t] => inserted'[q][t][2] = req[q].user
      BY <1>2 DEF OneInserted, tables
    <2>1. inserted[q][t] # NoTicket =>
             /\ t # w /\ inserted[q][w] = inserted[q][t] => inserted[q][t][2] = req[q].user
             /\ tickets[w] = inserted[q][t] => inserted[q][t][2] = req[q].user
      BY DEF Once, OneInserted
    <2>2. CASE q # p
      BY <1>1, <2>1, <2>2
    <2>3. CASE q = p /\ t = n
      <3>1. inserted'[q][t] = seat(u) /\ seat(u)[2] = u
        BY <1>1, <2>3
      <3>2. t # w => inserted'[q][w] = inserted[q][w]
        BY <1>1, <2>3
      <3> QED
        BY <1>4, <2>3, <3>1, <3>2
    <2>4. CASE q = p /\ t # n
      <3>1. inserted'[q][t] = inserted[q][t]
        BY <1>1, <2>4
      <3>2. CASE w = n
        <4>1. inserted'[q][w] = seat(u) /\ seat(u)[2] = u
          BY <1>1, <2>4, <3>2
        <4> QED
          BY <1>4, <2>1, <2>4, <3>1, <4>1
      <3>3. CASE w # n
        BY <1>1, <2>1, <2>4, <3>1, <3>3
      <3> QED
        BY <3>2, <3>3
    <2> QED
      BY <2>2, <2>3, <2>4
  <1> QED
    BY <1>5, <1>6, <1>7, <1>8 DEF Once

\* While the commit publishes them, nobody else assigns tickets of the showing.
LEMMA CommitOnceStep ==
    ASSUME NEW s \in Showing, IInv, Once(s), IInv', NEW p \in Request, Commit(p)
    PROVE  Once(s)'
  <1>1. Released(p, "none") /\ UNCHANGED admin
    BY EndTXReleases DEF Commit, IInv
  <1>2. /\ \A q \in Request : req'[q].user = req[q].user /\ req'[q].showing = req[q].showing
        /\ \A q \in Request : q # p => pc'[q] = pc[q] /\ ticketless'[q] = ticketless[q]
        /\ pc'[p] \in {"Showing", "error"} /\ pc[p] = "Commit"
    <2>1. req[p].todo = <<>> /\ pc[p] = "Commit"
      BY DEF Commit, IInv, ControlInv
    <2>2. Leaves(p) /\ pc'[p] \in {"Showing", "error"}
      BY <2>1, FinishLeaves, GotoShowingLeaves DEF Commit
    <2> QED
      BY <2>1, <2>2 DEF Leaves
  <1>3. \A t \in Ticket :
           tickets'[t] = IF inserted[p][t] # NoTicket THEN inserted[p][t] ELSE tickets[t]
    BY DEF Commit
  <1>4. \A t \in Ticket : inserted[p][t] # NoTicket =>
           inserted[p][t][1] = req[p].showing /\ tx[p] = "open"
    BY DEF IInv, IdsUnique, TransactionsEnd, Nothing
  <1>5. ASSUME req[p].showing = s, NEW t \in Ticket, inserted[p][t] # NoTicket
        PROVE  locked[s] = p /\ req[p].user = admin[s]
    BY <1>4, <1>5 DEF Commit, Once, AdminLocks, Assigning, Answered
  <1>6. OneTicketEachOf(s)'
    <2> SUFFICES ASSUME NEW t \in Ticket, NEW u \in Ticket, t # u,
                        tickets'[t] # NoTicket, tickets'[t] = tickets'[u], tickets'[t][1] = s
                 PROVE  tickets'[t][2] = admin[s]
      BY <1>1 DEF OneTicketEachOf
    <2>1. CASE inserted[p][t] # NoTicket
      <3>1. req[p].showing = s
        BY <1>3, <1>4, <2>1
      <3>2. inserted[p][t][2] = req[p].user
        BY <1>3, <2>1, <3>1 DEF Once, OneInserted
      <3> QED
        BY <1>3, <1>5, <2>1, <3>1, <3>2
    <2>2. CASE inserted[p][u] # NoTicket
      <3>1. req[p].showing = s
        BY <1>3, <1>4, <2>2
      <3>2. inserted[p][u][2] = req[p].user
        BY <1>3, <2>2, <3>1 DEF Once, OneInserted
      <3> QED
        BY <1>3, <1>5, <2>2, <3>1, <3>2
    <2>3. CASE inserted[p][t] = NoTicket /\ inserted[p][u] = NoTicket
      BY <1>3, <2>3 DEF Once, OneTicketEachOf
    <2> QED
      BY <2>1, <2>2, <2>3
  <1>7. AdminLocks(s)'
    <2> SUFFICES ASSUME NEW q \in Request, req[q].showing = s
                 PROVE  /\ pc'[q] \notin Answered \cup {"AdminOnShowing"} =>
                              req[q].user = admin[s]
                        /\ pc'[q] \in Assigning \cup {"AttendeesIncludingTickets"}
                           /\ tx'[q] = "open" => locked'[s] = q
      BY <1>1, <1>2 DEF AdminLocks
    <2> QED
      BY <1>1, <1>2 DEF Once, AdminLocks, Released, Assigning, Answered
  <1>8. \A q \in Request, t \in Ticket :
           q # p /\ req[q].showing = s /\ pc[q] \in Assigning /\ tx[q] = "open" =>
               tickets'[t] = tickets[t] \/ tickets'[t][1] # s
    BY <1>3, <1>4, <1>5 DEF Once, AdminLocks
  <1>9. ASSUME NEW q \in Request, req'[q].showing = s, pc'[q] \in Assigning, tx'[q] = "open",
               NEW u \in ticketless'[q], NEW t \in Ticket
        PROVE  tickets'[t] # <<s, u>> /\ inserted'[q][t] # <<s, u>>
    <2>1. q # p
      BY <1>1, <1>9 DEF Released
    <2>2. /\ pc[q] \in Assigning /\ tx[q] = "open" /\ u \in ticketless[q]
          /\ req[q].showing = s /\ inserted'[q] = inserted[q]
      BY <1>1, <1>2, <1>9, <2>1 DEF Released
    <2>3. tickets[t] # <<s, u>> /\ inserted[q][t] # <<s, u>>
      BY <2>2 DEF Once, SnapshotCurrent
    <2> QED
      BY <1>8, <2>1, <2>2, <2>3
  <1>10. OneInserted(s)'
    <2> SUFFICES ASSUME NEW q \in Request, q # p, NEW t \in Ticket, NEW u \in Ticket,
                        req[q].showing = s, inserted[q][t] # NoTicket
                 PROVE  /\ t # u /\ inserted[q][u] = inserted[q][t] =>
                              inserted[q][t][2] = req[q].user
                        /\ tickets'[u] = inserted[q][t] => inserted[q][t][2] = req[q].user
      BY <1>1, <1>2 DEF OneInserted, Released, Nothing
    <2>1. /\ t # u /\ inserted[q][u] = inserted[q][t] => inserted[q][t][2] = req[q].user
          /\ tickets[u] = inserted[q][t] => inserted[q][t][2] = req[q].user
      BY DEF Once, OneInserted
    <2>2. tx[q] = "open" /\ pc[q] \in Assigning /\ inserted[q][t][1] = s
      BY DEF IInv, TransactionsEnd, ControlInv, IdsUnique, Nothing, Outside
    <2> QED
      BY <1>8, <2>1, <2>2
  <1> QED
    BY <1>6, <1>7, <1>9, <1>10 DEF Once, SnapshotCurrent

LEMMA OnceNext ==
    ASSUME NEW s \in Showing, IInv, Once(s), IInv', [Next]_vars, admin'[s] = admin[s]
    PROVE  Once(s)'
  <1>1. CASE Attend \/ Unattend \/ Promote
    <2>1. UNCHANGED <<tickets, held, pc, req, ticketless>>
      BY <1>1 DEF Attend, Unattend, Promote
    <2>2. OneTicketEachOf(s)' /\ AdminLocks(s)' /\ SnapshotCurrent(s)' /\ OneInserted(s)'
      BY <2>1 DEF Once, OneTicketEachOf, AdminLocks, SnapshotCurrent, OneInserted, held
    <2> QED
      BY <2>2 DEF Once
  <1>2. ASSUME NEW p \in Request, Arrive(p) \/ Step(p) \/ AddTicketFails(p) \/ Fail(p)
        PROVE  Once(s)'
    <2>1. CASE \/ Arrive(p) \/ VerifyShowingAdmin(p) \/ BeginTX(p) \/ FetchShow(p)
               \/ AddCinemaScreen(p) \/ FetchBarcode(p) \/ ReadShowing(p)
      BY <2>1, BeforeStep
    <2>2. CASE UpdateShowing(p) \/ FetchTicketAssignments(p) \/ FetchTickets(p)
      BY <2>2, SnapshotStep
    <2>3. CASE AddTicket(p)
      BY <2>3, AddTicketOnceStep
    <2>4. CASE Commit(p)
      BY <2>4, CommitOnceStep
    <2>5. CASE Fail(p) \/ AddTicketFails(p)
      BY <2>5, FailOnceStep
    <2> QED
      BY <1>2, <2>1, <2>2, <2>3, <2>4, <2>5 DEF Step
  <1>3. CASE UNCHANGED vars
    <2>1. UNCHANGED <<admin, tickets, held, pc, req, ticketless>>
      BY <1>3 DEF vars, tables
    <2>2. OneTicketEachOf(s)' /\ AdminLocks(s)' /\ SnapshotCurrent(s)' /\ OneInserted(s)'
      BY <2>1 DEF Once, OneTicketEachOf, AdminLocks, SnapshotCurrent, OneInserted, held
    <2> QED
      BY <2>2 DEF Once
  <1> QED
    BY <1>1, <1>2, <1>3 DEF Next

\* As long as a showing does not change its admin, nobody but the admin is
\* given two tickets of it, by one request or by several at once, whatever
\* becomes of other showings meanwhile.
THEOREM NobodyGetsTwoOf ==
    ASSUME NEW s \in Showing
    PROVE  Spec /\ [][admin'[s] = admin[s]]_admin => []OneTicketEachOf(s)
  <1>1. Init => Once(s)
    BY InitiallyOnce
  <1>2. IInv /\ Once(s) /\ IInv' /\ [Next]_vars /\ [admin'[s] = admin[s]]_admin => Once(s)'
    BY OnceNext
  <1>3. Once(s) => OneTicketEachOf(s)
    BY DEF Once
  <1> QED
    BY <1>1, <1>2, <1>3, Inductive, PTL DEF Spec

\* Where no showing changes its admin, nobody but the admins gets two.
THEOREM NobodyGetsTwo ==
    ASSUME "promote" \notin Change
    PROVE  Spec => []OneTicketEach
  <1> DEFINE All == \A s \in Showing : Once(s)
  <1>1. Init => All
    BY InitiallyOnce
  <1>2. IInv /\ All /\ IInv' /\ [Next]_vars => All'
    <2>1. ASSUME [Next]_vars PROVE UNCHANGED admin
      <3>1. CASE UNCHANGED vars
        BY <3>1 DEF vars, tables
      <3> QED
        BY <2>1, <3>1 DEF Next, Step, Attend, Unattend, Promote, Arrive, VerifyShowingAdmin,
             BeginTX, FetchShow, AddCinemaScreen, UpdateShowing, FetchTicketAssignments,
             FetchTickets, FetchBarcode, AddTicket, AddTicketFails, Assigned, NextTicket,
             ReadShowing, Fail, Commit, tables
    <2> QED
      BY <2>1, OnceNext
  <1>3. IInv /\ All => OneTicketEach
    <2> SUFFICES ASSUME IInv, All, NEW t \in Ticket, NEW u \in Ticket, t # u,
                        tickets[t] # NoTicket, tickets[t] = tickets[u]
                 PROVE  tickets[t][2] = admin[tickets[t][1]]
      BY DEF OneTicketEach
    <2>1. tickets[t][1] \in Showing
      BY DEF IInv, TypeOK, Seat
    <2> QED
      BY <2>1 DEF Once, OneTicketEachOf
  <1> QED
    BY <1>1, <1>2, <1>3, Inductive, PTL DEF Spec

-----------------------------------------------------------------------------
(***************************************************************************)
(* Nobody is stuck: a transaction takes the id of its screen before the    *)
(* row of its showing, and that before the ids of its tickets, so that it  *)
(* waits only for one that is further on, but for tickets, where Postgres  *)
(* breaks circles.                                                         *)
(***************************************************************************)
BehindScreen == {"UpdateShowing", "AttendeesIncludingTickets"} \cup Assigning
BehindRow == {"AttendeesIncludingTickets"} \cup Assigning

LocksOrdered ==
    /\ \A p \in Request : newScreen[p] # NoScreen => pc[p] \in BehindScreen
    /\ \A s \in Showing : locked[s] # NoLock => pc[locked[s]] \in BehindRow

\* A step that leaves the locks alone, and does not go back.
LEMMA LocksKept ==
    ASSUME IInv, LocksOrdered, UNCHANGED <<locked, newScreen>>,
           \A q \in Request : pc[q] \in BehindScreen => pc'[q] \in BehindScreen,
           \A q \in Request : pc[q] \in BehindRow => pc'[q] \in BehindRow
    PROVE  LocksOrdered'
  BY DEF LocksOrdered, IInv, TypeOK

\* The transaction of p has ended, or is aborted.
LEMMA LocksReleased ==
    ASSUME IInv, LocksOrdered, NEW p \in Request, NEW outcome, Released(p, outcome),
           \A q \in Request : q # p => pc'[q] = pc[q]
    PROVE  LocksOrdered'
  <1>1. ASSUME NEW q \in Request, newScreen'[q] # NoScreen
        PROVE  pc'[q] \in BehindScreen
    BY <1>1 DEF LocksOrdered, Released
  <1>2. ASSUME NEW s \in Showing, locked'[s] # NoLock
        PROVE  pc'[locked'[s]] \in BehindRow
    <2>1. locked'[s] = locked[s] /\ locked[s] # p /\ locked[s] \in Request
      BY <1>2 DEF Released, IInv, TypeOK
    <2> QED
      BY <1>2, <2>1 DEF LocksOrdered
  <1> QED
    BY <1>1, <1>2 DEF LocksOrdered, BehindScreen, BehindRow, Assigning

LEMMA LocksNext == IInv /\ LocksOrdered /\ [Next]_vars => LocksOrdered'
  <1> SUFFICES ASSUME IInv, LocksOrdered, [Next]_vars PROVE LocksOrdered'
    OBVIOUS
  <1>1. CASE UNCHANGED vars \/ Attend \/ Unattend \/ Promote
    <2>1. UNCHANGED <<locked, newScreen, pc>>
      BY <1>1 DEF vars, held, Attend, Unattend, Promote
    <2> QED
      BY <2>1, LocksKept
  <1>2. ASSUME NEW p \in Request, Arrive(p) \/ Step(p) \/ AddTicketFails(p) \/ Fail(p)
        PROVE  LocksOrdered'
    <2>1. CASE Commit(p) \/ Fail(p)
      <3>1. EndTX(p, "none") /\ \E answer : Finish(p, answer) \/ Goto(p, answer)
        BY <2>1 DEF Commit, Fail
      <3>2. Released(p, "none") /\ \A q \in Request : q # p => pc'[q] = pc[q]
        BY <3>1, EndTXReleases DEF Finish, Goto, IInv, TypeOK
      <3> QED
        BY <3>2, LocksReleased
    <2>2. CASE AddTicketFails(p)
      <3>1. Released(p, "aborted") /\ \A q \in Request : q # p => pc'[q] = pc[q]
        BY <2>2, EndTXReleases DEF AddTicketFails, Assigned, NextTicket, Goto, IInv, TypeOK
      <3> QED
        BY <3>1, LocksReleased
    <2>3. CASE \/ Arrive(p) \/ VerifyShowingAdmin(p) \/ BeginTX(p) \/ FetchShow(p)
               \/ ReadShowing(p)
      <3>1. /\ pc[p] \notin BehindScreen \cup BehindRow
            /\ \A q \in Request : q # p => pc'[q] = pc[q]
        BY <2>3 DEF Arrive, VerifyShowingAdmin, BeginTX, FetchShow, ReadShowing, Finish, Goto,
                    IInv, TypeOK, BehindScreen, BehindRow, Assigning, Answered
      <3>2. UNCHANGED <<locked, newScreen>>
        BY <2>3 DEF Arrive, VerifyShowingAdmin, BeginTX, FetchShow, ReadShowing, held
      <3> QED
        BY <3>1, <3>2, LocksKept
    <2>4. CASE AddCinemaScreen(p)
      <3>1. /\ pc[p] = "AddCinemaScreen"
            /\ \A q \in Request : pc'[q] = IF q = p THEN "UpdateShowing" ELSE pc[q]
            /\ \A q \in Request : q # p => newScreen'[q] = newScreen[q]
            /\ UNCHANGED locked
        BY <2>4 DEF AddCinemaScreen, Goto, IInv, TypeOK
      <3>2. \A s \in Showing : locked[s] \in Request \cup {NoLock}
        BY DEF IInv, TypeOK
      <3> QED
        BY <3>1, <3>2 DEF LocksOrdered, BehindScreen, BehindRow, Assigning
    <2>5. CASE UpdateShowing(p)
      <3>1. /\ pc[p] = "UpdateShowing" /\ pc' = [pc EXCEPT ![p] = "AttendeesIncludingTickets"]
            /\ locked' \in {locked, [locked EXCEPT ![req[p].showing] = p]}
            /\ UNCHANGED newScreen
        BY <2>5 DEF UpdateShowing, Goto
      <3>2. \A q \in Request : pc'[q] = IF q = p THEN "AttendeesIncludingTickets" ELSE pc[q]
        BY <3>1 DEF IInv, TypeOK
      <3>3. \A s \in Showing : locked'[s] \in {locked[s], p}
        BY <3>1 DEF IInv, TypeOK
      <3>4. \A s \in Showing : locked[s] \in Request \cup {NoLock}
        BY DEF IInv, TypeOK
      <3> QED
        BY <3>1, <3>2, <3>3, <3>4 DEF LocksOrdered, BehindScreen, BehindRow
    <2>6. CASE FetchTicketAssignments(p) \/ FetchTickets(p) \/ FetchBarcode(p) \/ AddTicket(p)
      <3>1. /\ pc'[p] \in Assigning
            /\ \A q \in Request : q # p => pc'[q] = pc[q]
        BY <2>6 DEF FetchTicketAssignments, FetchTickets, FetchBarcode, AddTicket, Assigned,
                    NextTicket, Goto, IInv, TypeOK, Assigning
      <3>2. UNCHANGED <<locked, newScreen>>
        BY <2>6 DEF FetchTicketAssignments, FetchTickets, FetchBarcode, AddTicket, held
      <3> QED
        BY <3>1, <3>2, LocksKept DEF BehindScreen, BehindRow
    <2> QED
      BY <1>2, <2>1, <2>2, <2>3, <2>4, <2>5, <2>6 DEF Step
  <1> QED
    BY <1>1, <1>2 DEF Next

\* Somebody has each connection that is missing.
LEMMA PoolHasHolder ==
    ASSUME ~Connection
    PROVE  \E q \in Request : tx[q] # "none"
  <1> SUFFICES ASSUME {q \in Request : tx[q] # "none"} = {} PROVE FALSE
    OBVIOUS
  <1>1. Cardinality({q \in Request : tx[q] # "none"}) = 0
    BY FS_EmptySet
  <1> QED
    BY <1>1, TicketsAssumption DEF Connection

\* Who waits, waits for a transaction; and one that waits itself for one that
\* is further on.
LEMMA WaiterHasHolder ==
    ASSUME IInv, LocksOrdered, NEW p \in Request,
           pc[p] \notin Answered \cup {"panicked"}, ~CanGoOn(p)
    PROVE  \E q \in Request :
              /\ <<p, q>> \in Waits
              /\ pc[q] \notin Outside
              /\ pc[p] = "AddCinemaScreen" => pc[q] \in BehindScreen
              /\ pc[p] = "UpdateShowing" => pc[q] \in BehindRow
              /\ pc[p] = "AddTicket" => pc[q] \in Assigning
  <1>1. PICK q \in Request : WaitsFor(p, q)
    <2>1. CASE PoolWaits(p)
      BY <2>1, PoolHasHolder DEF PoolWaits, WaitsFor
    <2>2. CASE ~PoolWaits(p)
      BY <2>2 DEF CanGoOn
    <2> QED
      BY <2>1, <2>2
  <1>2. CASE PoolWaits(p) /\ tx[q] # "none"
    BY <1>1, <1>2 DEF PoolWaits, Waits, IInv, ControlInv
  <1>3. CASE ScreenWaitsFor(p, q)
    <2>1. pc[p] = "AddCinemaScreen" /\ req[p].urls # <<>> /\ req[p].urls \in Seq(Url)
      BY <1>3, FieldsType DEF ScreenWaitsFor, IInv, TypeOK, ControlInv
    <2>2. newScreen[q] # NoScreen
      BY <1>3, <2>1, LinkType, TicketsAssumption DEF ScreenWaitsFor
    <2>3. pc[q] \in BehindScreen
      BY <2>2 DEF LocksOrdered
    <2> QED
      BY <1>1, <2>1, <2>3 DEF Waits, BehindScreen, Assigning, Outside, Answered
  <1>4. CASE RowWaitsFor(p, q)
    <2>1. pc[p] = "UpdateShowing" /\ req[p].showing \in Showing /\ locked[req[p].showing] = q
      BY <1>4, FieldsType DEF RowWaitsFor, IInv, TypeOK
    <2>2. pc[q] \in BehindRow
      BY <2>1, TicketsAssumption DEF LocksOrdered
    <2> QED
      BY <1>1, <2>1, <2>2 DEF Waits, BehindRow, Assigning, Outside, Answered
  <1>5. CASE InsertWaitsFor(p, q)
    <2>1. pc[p] = "AddTicket" /\ inserted[q][Head(req[p].todo)] # NoTicket
      BY <1>5 DEF InsertWaitsFor
    <2>2. Head(req[p].todo) \in Ticket
      BY <2>1, TodoType
    <2>3. inserted[q] # Nothing
      BY <2>1, <2>2 DEF Nothing
    <2>4. pc[q] \in Assigning
      BY <2>3 DEF IInv, ControlInv, TransactionsEnd
    <2> QED
      BY <1>1, <2>1, <2>4 DEF Waits, Assigning, Outside, Answered
  <1> QED
    BY <1>1, <1>2, <1>3, <1>4, <1>5 DEF WaitsFor

\* Whoever waits for a connection, a screen, the row of a showing or a ticket
\* waits for one that goes on, unless one that has panicked keeps it.
THEOREM NobodyIsStuck == Spec => []NobodyStuck
  <1>1. ASSUME IInv, LocksOrdered PROVE NobodyStuck
    <2> SUFFICES ASSUME NEW S \in SUBSET Request, Alone(Waits, S),
                        \A q \in S : pc[q] # "panicked" /\ ~CanGoOn(q),
                        NEW p \in S, pc[p] \notin Answered
                 PROVE  FALSE
      BY DEF NobodyStuck
    <2>1. ASSUME NEW q \in S, pc[q] \notin Answered
          PROVE  \E r \in S :
                    /\ <<q, r>> \in Waits
                    /\ pc[r] \notin Outside
                    /\ pc[q] = "AddCinemaScreen" => pc[r] \in BehindScreen
                    /\ pc[q] = "UpdateShowing" => pc[r] \in BehindRow
                    /\ pc[q] = "AddTicket" => pc[r] \in Assigning
      <3>1. PICK r \in Request :
                    /\ <<q, r>> \in Waits
                    /\ pc[r] \notin Outside
                    /\ pc[q] = "AddCinemaScreen" => pc[r] \in BehindScreen
                    /\ pc[q] = "UpdateShowing" => pc[r] \in BehindRow
                    /\ pc[q] = "AddTicket" => pc[r] \in Assigning
        BY <1>1, <2>1, WaiterHasHolder
      <3>2. r \in S
        BY <3>1 DEF Alone, WaitedFor
      <3> QED
        BY <3>1, <3>2
    <2>2. ASSUME NEW q \in S, pc[q] \notin Answered
          PROVE  pc[q] \in {"AdminOnShowing", "TX", "Showing", "AddCinemaScreen",
                            "UpdateShowing", "AddTicket"}
      <3>1. pc[q] \in Stage \ (Answered \cup {"panicked"})
        BY <1>1, <2>2 DEF IInv, TypeOK
      <3>2. PICK r \in S : <<q, r>> \in Waits
        BY <2>1, <2>2
      <3>3. WaitsFor(q, r)
        BY <3>2 DEF Waits
      <3> QED
        BY <3>3 DEF WaitsFor, PoolWaits, ScreenWaitsFor, RowWaitsFor, InsertWaitsFor
    <2> DEFINE T == {q \in S : pc[q] = "AddTicket"}
    <2>3. ASSUME NEW q \in S, pc[q] \in BehindRow PROVE q \in T
      BY <2>2, <2>3 DEF BehindRow, Assigning, Answered
    <2>4. ASSUME NEW q \in S, pc[q] \in BehindScreen PROVE T # {}
      <3>1. CASE pc[q] = "UpdateShowing"
        BY <2>1, <2>3, <3>1 DEF Answered
      <3> QED
        BY <2>3, <2>4, <3>1 DEF BehindScreen, BehindRow
    <2>5. ASSUME NEW q \in S, pc[q] \notin Outside PROVE T # {}
      <3>1. pc[q] \notin Answered
        BY <2>5 DEF Outside
      <3>2. CASE pc[q] = "AddCinemaScreen"
        BY <2>1, <2>4, <3>1, <3>2
      <3>3. CASE pc[q] # "AddCinemaScreen"
        BY <2>2, <2>4, <2>5, <3>1, <3>3 DEF BehindScreen, Assigning, Outside
      <3> QED
        BY <3>2, <3>3
    <2>6. IsFiniteSet(T) /\ T # {}
      BY <2>1, <2>5, TicketsAssumption, FS_Subset
    <2>7. Depend(Waits, T)
      <3> SUFFICES ASSUME NEW q \in T PROVE \E r \in T : <<q, r>> \in Waits
        BY DEF Depend
      <3>1. PICK r \in S : <<q, r>> \in Waits /\ pc[r] \in Assigning
        BY <2>1 DEF Answered
      <3> QED
        BY <2>3, <3>1 DEF BehindRow
    <2>8. PICK q \in T : InCircle(Waits, q)
      <3> HIDE DEF T
      <3> QED
        BY <2>6, <2>7, CircleExists
    <2> QED
      BY <2>8 DEF CanGoOn, MustFail, PoolWaits, Answered
  <1>2. Init => LocksOrdered
    BY DEF Init, LocksOrdered
  <1> QED
    BY <1>1, <1>2, LocksNext, Inductive, PTL DEF Spec
=============================================================================
