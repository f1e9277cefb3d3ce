--------------------------- MODULE ShowingsProofs ---------------------------
(***************************************************************************)
(* What holds of Showings for any sets of users, showings and prices and   *)
(* any number of requests: its inductive invariant, that nobody is stuck,  *)
(* that a bought showing stays as it is, and that Showings implements      *)
(* ShowingBook.                                                            *)
(***************************************************************************)
EXTENDS Showings, DeadlocksProofs

-----------------------------------------------------------------------------
(***************************************************************************)
(* Types.  First the rows, then the ways a step moves a request, then the  *)
(* actions.                                                                *)
(***************************************************************************)

\* The rows the updates of showings write are rows.
LEMMA ShowingRows ==
  ASSUME NEW r \in ShowingRow, NEW c \in Price, NEW u \in User
  PROVE  /\ [r EXCEPT !.price = c, !.payTo = u] \in ShowingRow
         /\ [r EXCEPT !.admin = u, !.payTo = u] \in ShowingRow
         /\ [r EXCEPT !.bought = TRUE, !.price = c] \in ShowingRow
         /\ [admin |-> u, payTo |-> u, price |-> c, bought |-> FALSE] \in ShowingRow
         /\ r # Absent
  BY ShowingsAssumption DEF ShowingRow

\* The rows the updates of attendees write are rows.
LEMMA AttendeeRows ==
  ASSUME NEW r \in AttendeeRow, NEW c \in Price, NEW b \in BOOLEAN, NEW d \in BOOLEAN
  PROVE  /\ [r EXCEPT !.paid = b, !.owed = c] \in AttendeeRow
         /\ [r EXCEPT !.owed = c] \in AttendeeRow
         /\ [paid |-> b, owed |-> c, cert |-> d] \in AttendeeRow
         /\ r # Absent
  BY ShowingsAssumption DEF AttendeeRow

\* A request at work has arguments, and the rows it is about are rows.
LEMMA RequestRows ==
  ASSUME TypeOK, NEW p \in Request, pc[p] \notin Answered
  PROVE  /\ req[p] \in Arguments
         /\ req[p].op \in Operation
         /\ req[p].showing \in Showing
         /\ req[p].user \in User
         /\ req[p].price \in Price
         /\ req[p].screen \in Screen \cup {Absent}
         /\ OwnShowing(p) \in ShowingRow \cup {Absent}
         /\ \A u \in User : /\ SeatOf(p, u) \in Seat
                            /\ attendees[SeatOf(p, u)] \in AttendeeRow \cup {Absent}
                            /\ Seen(p, u) \in AttendeeRow \cup {Absent}
  BY DEF TypeOK, TableTypes, RequestTypes, Arguments, OwnShowing, SeatOf, Seat, Seen, Holds, Lock

LEMMA GotoTypes ==
  ASSUME RequestTypes, NEW p \in Request, pc[p] \notin Answered, NEW q \in Query, Goto(p, q)
  PROVE  RequestTypes'
  BY DEF RequestTypes, Goto, Query, Answered

LEMMA AnswerTypes ==
  ASSUME RequestTypes, NEW p \in Request, NEW a \in Answered, Answer(p, a)
  PROVE  RequestTypes'
  BY DEF RequestTypes, Answer, Answered

LEMMA ReadBackTypes ==
  ASSUME RequestTypes, NEW p \in Request, ReadBack(p)
  PROVE  RequestTypes'
  BY AnswerTypes DEF ReadBack, Answered

\* What a resolver sends first is a query.
LEMMA Resolving ==
  ASSUME NEW r \in Arguments
  PROVE  /\ Resolve(r) \in Query \ (Answered \cup {"Commit", "CascadeAttendees", "AddShowing"})
         /\ r.op \in Operation
         /\ r.op = "attend" => Resolve(r) = "ShowingTicketsBought"
         /\ r.op = "unattend" => Resolve(r) = "DeleteAttendee"
         /\ r.op = "create" => Resolve(r) = "LookupMovieTitle"
         /\ r.op = "delete" => Resolve(r) = "DeleteShowing"
         /\ r.op = "markAsBought" => Resolve(r) = "ShowingTicketsBought"
         /\ r.op = "update" => Resolve(r) = IF r.screen = Absent THEN "UpdateShowing" ELSE "AddCinemaScreen"
         /\ r.op = "promote" => Resolve(r) = "PromoteNewUserToShowingAdmin"
         /\ r.op = "payment" => Resolve(r) = "UpdateAttendeePayment"
  BY DEF Resolve, FirstQuery, Arguments, Operation, AdminOnly, Query, Answered

\* A request that arrives: nobody's id for a new showing, else one that has
\* been handed out.
LEMMA Arrivals ==
  ASSUME TypeOK, NEW p \in Request, Arrive(p) \/ ArriveCreate(p)
  PROVE  \E r \in Arguments :
           /\ Start(p, r)
           /\ pc[p] \in Answered
           /\ UNCHANGED <<showings, attendees, screens, showingLock, attendeeLock, screenLock>>
           /\ IF r.op = "create" THEN r.showing \in unused /\ unused' = unused \ {r.showing}
                                 ELSE r.showing \notin unused /\ unused' = unused
<1>1. CASE Arrive(p)
  <2>1. PICK r \in [op : Op[p] \ {"create"}, user : User, showing : Showing \ unused,
                    price : Price, screen : Screen \cup {Absent}] : Start(p, r)
    BY <1>1 DEF Arrive
  <2>2. Op[p] \subseteq Operation
    BY ShowingsAssumption
  <2>3. r \in Arguments /\ r.op # "create" /\ r.showing \notin unused
    BY <2>2 DEF Arguments
  <2>4. QED
    BY <1>1, <2>1, <2>3 DEF Arrive, tables, locks
<1>2. CASE ArriveCreate(p)
  <2>1. PICK r \in [op : Op[p] \cap {"create"}, user : User, showing : unused,
                    price : {0}, screen : Screen \cup {Absent}] :
          Start(p, r) /\ unused' = unused \ {r.showing}
    BY <1>2 DEF ArriveCreate
  <2>2. r \in Arguments /\ r.op = "create" /\ r.showing \in unused
    BY ShowingsAssumption DEF Arguments, TypeOK, TableTypes, Operation
  <2>3. QED
    BY <1>2, <2>1, <2>2 DEF ArriveCreate, tables, locks
<1>3. QED
  BY <1>1, <1>2

LEMMA StartTypes ==
  ASSUME RequestTypes, NEW p \in Request, NEW r \in Arguments, Start(p, r)
  PROVE  RequestTypes'
<1>1. (IF r.op \in AdminOnly THEN "AdminOnShowing" ELSE Resolve(r)) \in Query \ Answered
  BY Resolving DEF Query, Answered
<1>2. r # NoRequest
  BY ShowingsAssumption
<1>3. QED
  BY <1>1, <1>2 DEF RequestTypes, Start

LEMMA UnlockTypes ==
  ASSUME NEW p \in Request, TableTypes, Unlock(p)
  PROVE  /\ showingLock' \in [Showing -> Lock(ShowingRow \cup {Absent}) \cup {NoLock}]
         /\ attendeeLock' \in [Seat -> Lock(AttendeeRow) \cup {NoLock}]
         /\ screenLock' \in [Screen -> Lock(Screen) \cup {NoLock}]
  BY DEF Unlock, TableTypes

LEMMA PublishTypes ==
  ASSUME NEW p \in Request, TableTypes, Publish(p)
  PROVE  /\ showings' \in [Showing -> ShowingRow \cup {Absent}]
         /\ attendees' \in [Seat -> AttendeeRow \cup {Absent}]
         /\ screens' \subseteq Screen
  BY DEF Publish, TableTypes, Holds, Lock

LEMMA TypeInit == Init => TypeOK
  BY ShowingsAssumption
  DEF Init, TypeOK, TableTypes, RequestTypes, Answered

\* Each action keeps the types; only a request that names a screen adds one.
LEMMA TypeNext == TypeOK /\ ControlInv /\ [Next]_vars => TypeOK'
<1> SUFFICES ASSUME TypeOK, ControlInv, [Next]_vars PROVE TypeOK'
  OBVIOUS
<1> USE DEF TypeOK
<1>1. ASSUME NEW p \in Request, Arrive(p) \/ ArriveCreate(p) PROVE TypeOK'
  <2>1. PICK r \in Arguments :
           /\ Start(p, r)
           /\ UNCHANGED <<showings, attendees, screens, showingLock, attendeeLock, screenLock>>
           /\ unused' \subseteq unused
    BY <1>1, Arrivals
  <2>2. RequestTypes'
    BY <2>1, StartTypes
  <2>3. QED
    BY <2>1, <2>2 DEF TableTypes
<1>2. ASSUME NEW p \in Request, LookupMovieTitle(p) \/ CreateAddScreen(p) \/ UpdateAddScreen(p)
      PROVE  TypeOK'
  <2>1. pc[p] \notin Answered
    BY <1>2 DEF LookupMovieTitle, CreateAddScreen, UpdateAddScreen, At, Answered
  <2>2. RequestTypes'
    BY <1>2, <2>1, GotoTypes DEF LookupMovieTitle, CreateAddScreen, UpdateAddScreen, Query
  <2>3. CASE LookupMovieTitle(p)
    BY <2>2, <2>3 DEF LookupMovieTitle, tables, locks, TableTypes
  <2>4. CASE CreateAddScreen(p)
    <3>1. req[p].screen \in Screen => [by |-> p, row |-> req[p].screen] \in Lock(Screen)
      BY DEF Lock
    <3>2. req[p].screen \in Screen
      BY <2>1, <2>4, RequestRows DEF CreateAddScreen, At, ControlInv
    <3>3. screenLock' \in [Screen -> Lock(Screen) \cup {NoLock}]
      BY <2>4, <3>1, <3>2 DEF CreateAddScreen, TableTypes
    <3>4. QED
      BY <2>2, <2>4, <3>3 DEF CreateAddScreen, tables, TableTypes
  <2>5. CASE UpdateAddScreen(p)
    <3>1. screens' \subseteq Screen
      BY <2>1, <2>5, RequestRows DEF UpdateAddScreen, At, ControlInv, TableTypes
    <3>2. QED
      BY <2>2, <2>5, <3>1 DEF UpdateAddScreen, locks, TableTypes
  <2>6. QED
    BY <1>2, <2>3, <2>4, <2>5
<1>3. ASSUME NEW p \in Request, VerifyShowingAdmin(p) PROVE TypeOK'
  <2>1. pc[p] \notin Answered
    BY <1>3 DEF VerifyShowingAdmin, Answered
  <2>2. Resolve(req[p]) \in Query
    BY <2>1, RequestRows, Resolving
  <2>3. RequestTypes'
    BY <1>3, <2>1, <2>2, GotoTypes, AnswerTypes DEF VerifyShowingAdmin, Answered
  <2>4. QED
    BY <1>3, <2>3 DEF VerifyShowingAdmin, tables, locks, TableTypes
<1>4. ASSUME NEW p \in Request, AttendRead(p) PROVE TypeOK'
  <2>1. pc[p] \notin Answered
    BY <1>4 DEF AttendRead, At, Answered
  <2>2. CASE OwnShowing(p) = Absent \/ OwnShowing(p).bought
    BY <1>4, <2>2, AnswerTypes DEF AttendRead, tables, locks, TableTypes, Answered
  <2>3. CASE ~(OwnShowing(p) = Absent \/ OwnShowing(p).bought)
    <3>1. OwnShowing(p).price \in Price
      BY <2>1, <2>3, RequestRows DEF ShowingRow
    <3>2. [req[p] EXCEPT !.price = OwnShowing(p).price] \in Arguments
      BY <2>1, <3>1, RequestRows DEF Arguments
    <3>3. RequestTypes'
      BY <1>4, <2>3, <3>2, ShowingsAssumption DEF AttendRead, RequestTypes, Query, Answered
    <3>4. QED
      BY <1>4, <3>3 DEF AttendRead, tables, locks, TableTypes
  <2>4. QED
    BY <2>2, <2>3
<1>5. ASSUME NEW p \in Request, AttendInsert(p) PROVE TypeOK'
  <2>1. pc[p] \notin Answered
    BY <1>5 DEF AttendInsert, At, Answered
  <2>2. RequestTypes'
    BY <1>5, AnswerTypes, ReadBackTypes DEF AttendInsert, Answered
  <2>3. \A swish, cert \in BOOLEAN : NewAttendee(swish, cert, req[p].price) \in AttendeeRow
    BY <2>1, RequestRows, ShowingsAssumption DEF NewAttendee, AttendeeRow
  <2>4. attendees' \in [Seat -> AttendeeRow \cup {Absent}]
    BY <1>5, <2>3 DEF AttendInsert, TableTypes
  <2>5. QED
    BY <1>5, <2>2, <2>4 DEF AttendInsert, locks, TableTypes
<1>6. ASSUME NEW p \in Request, UnattendShowing(p) PROVE TypeOK'
  <2>1. RequestTypes'
    BY <1>6, AnswerTypes, ReadBackTypes DEF UnattendShowing, Answered
  <2>2. attendees' \in [Seat -> AttendeeRow \cup {Absent}]
    BY <1>6 DEF UnattendShowing, TableTypes
  <2>3. QED
    BY <1>6, <2>1, <2>2 DEF UnattendShowing, locks, TableTypes
<1>7. ASSUME NEW p \in Request, CreateInsert(p) PROVE TypeOK'
  <2>1. pc[p] \notin Answered
    BY <1>7 DEF CreateInsert, Answered
  <2>2. RequestTypes'
    BY <1>7, <2>1, GotoTypes DEF CreateInsert, Query
  <2>3. [by |-> p, row |-> [admin |-> req[p].user, payTo |-> req[p].user,
                            price |-> 0, bought |-> FALSE]] \in Lock(ShowingRow \cup {Absent})
    BY <2>1, RequestRows, ShowingsAssumption DEF Lock, ShowingRow
  <2>4. QED
    BY <1>7, <2>2, <2>3 DEF CreateInsert, tables, TableTypes
<1>8. ASSUME NEW p \in Request, CreateAttend(p) PROVE TypeOK'
  <2>1. pc[p] \notin Answered
    BY <1>8 DEF CreateAttend, At, Answered
  <2>2. RequestTypes'
    BY <1>8, <2>1, GotoTypes DEF CreateAttend, Query
  <2>3. [by |-> p, row |-> [paid |-> TRUE, owed |-> 0, cert |-> FALSE]] \in Lock(AttendeeRow)
    BY ShowingsAssumption DEF Lock, AttendeeRow
  <2>4. QED
    BY <1>8, <2>2, <2>3 DEF CreateAttend, tables, TableTypes
<1>9. ASSUME NEW p \in Request, DeleteShowing(p) PROVE TypeOK'
  <2>1. pc[p] \notin Answered
    BY <1>9 DEF DeleteShowing, Answered
  <2>2. RequestTypes'
    BY <1>9, <2>1, GotoTypes, AnswerTypes DEF DeleteShowing, Query, Answered
  <2>3. [by |-> p, row |-> Absent] \in Lock(ShowingRow \cup {Absent})
    BY DEF Lock
  <2>4. QED
    BY <1>9, <2>2, <2>3 DEF DeleteShowing, tables, TableTypes
<1>10. ASSUME NEW p \in Request, CascadeAttendees(p) PROVE TypeOK'
  <2>1. RequestTypes'
    BY <1>10, ReadBackTypes DEF CascadeAttendees
  <2>2. /\ showings' \in [Showing -> ShowingRow \cup {Absent}]
        /\ attendees' \in [Seat -> AttendeeRow \cup {Absent}]
    BY <1>10 DEF CascadeAttendees, TableTypes
  <2>3. QED
    BY <1>10, <2>1, <2>2, UnlockTypes DEF CascadeAttendees, TableTypes
<1>11. ASSUME NEW p \in Request, MarkRead(p) PROVE TypeOK'
  <2>1. pc[p] \notin Answered
    BY <1>11 DEF MarkRead, At, Answered
  <2>2. RequestTypes'
    BY <1>11, <2>1, GotoTypes, AnswerTypes DEF MarkRead, Query, Answered
  <2>3. QED
    BY <1>11, <2>2 DEF MarkRead, tables, locks, TableTypes
<1>12. ASSUME NEW p \in Request, MarkGCAttendeesAsHavingPaid(p) PROVE TypeOK'
  <2>1. pc[p] \notin Answered
    BY <1>12 DEF MarkGCAttendeesAsHavingPaid, Answered
  <2>2. RequestTypes'
    BY <1>12, <2>1, GotoTypes DEF MarkGCAttendeesAsHavingPaid, Query
  <2>3. \A u \in GCAttendees(p) :
          [by |-> p, row |-> [Seen(p, u) EXCEPT !.paid = TRUE, !.owed = 0]] \in Lock(AttendeeRow)
    BY <2>1, RequestRows, AttendeeRows, ShowingsAssumption DEF GCAttendees, Lock
  <2>4. attendeeLock' \in [Seat -> Lock(AttendeeRow) \cup {NoLock}]
    BY <1>12, <2>3 DEF MarkGCAttendeesAsHavingPaid, WriteSeats, TableTypes
  <2>5. QED
    BY <1>12, <2>2, <2>4 DEF MarkGCAttendeesAsHavingPaid, tables, TableTypes
<1>13. ASSUME NEW p \in Request, UpdateAmountOwedForSwishAttendees(p) PROVE TypeOK'
  <2>1. pc[p] \notin Answered
    BY <1>13 DEF UpdateAmountOwedForSwishAttendees, Answered
  <2>2. RequestTypes'
    BY <1>13, <2>1, GotoTypes DEF UpdateAmountOwedForSwishAttendees, Query
  <2>3. \A u \in SwishAttendees(p) :
          [by |-> p, row |-> [Seen(p, u) EXCEPT !.owed = req[p].price]] \in Lock(AttendeeRow)
    BY <2>1, RequestRows, AttendeeRows DEF SwishAttendees, Lock
  <2>4. attendeeLock' \in [Seat -> Lock(AttendeeRow) \cup {NoLock}]
    BY <1>13, <2>3 DEF UpdateAmountOwedForSwishAttendees, WriteSeats, TableTypes
  <2>5. QED
    BY <1>13, <2>2, <2>4 DEF UpdateAmountOwedForSwishAttendees, tables, TableTypes
<1>14. ASSUME NEW p \in Request, MarkShowingAsBought(p) PROVE TypeOK'
  <2>1. pc[p] \notin Answered
    BY <1>14 DEF MarkShowingAsBought, Answered
  <2>2. RequestTypes'
    BY <1>14, <2>1, GotoTypes DEF MarkShowingAsBought, Query
  <2>3. Administers(p) =>
          [by |-> p, row |-> [OwnShowing(p) EXCEPT !.bought = TRUE, !.price = req[p].price]]
              \in Lock(ShowingRow \cup {Absent})
    BY <2>1, RequestRows, ShowingRows DEF Administers, Lock
  <2>4. showingLock' \in [Showing -> Lock(ShowingRow \cup {Absent}) \cup {NoLock}]
    BY <1>14, <2>3 DEF MarkShowingAsBought, TableTypes
  <2>5. QED
    BY <1>14, <2>2, <2>4 DEF MarkShowingAsBought, tables, TableTypes
<1>15. ASSUME NEW p \in Request, UpdateShowing(p) PROVE TypeOK'
  <2>1. pc[p] \notin Answered
    BY <1>15 DEF UpdateShowing, Answered
  <2>2. RequestTypes'
    BY <1>15, ReadBackTypes DEF UpdateShowing
  <2>3. Administers(p) => \A c \in Price, u \in User :
          [showings[req[p].showing] EXCEPT !.price = c, !.payTo = u] \in ShowingRow
    BY <2>1, RequestRows, ShowingRows DEF Administers, OwnShowing
  <2>4. showings' \in [Showing -> ShowingRow \cup {Absent}]
    <3>1. CASE Administers(p)
      <4>1. PICK c \in Price, u \in User :
              showings' = [showings EXCEPT ![req[p].showing] =
                              [showings[req[p].showing] EXCEPT !.price = c, !.payTo = u]]
        BY <1>15, <3>1 DEF UpdateShowing
      <4>2. [showings[req[p].showing] EXCEPT !.price = c, !.payTo = u] \in ShowingRow
        BY <2>3, <3>1
      <4>3. QED
        BY <4>1, <4>2 DEF TableTypes
    <3>2. CASE ~Administers(p)
      BY <1>15, <3>2 DEF UpdateShowing, TableTypes
    <3>3. QED
      BY <3>1, <3>2
  <2>5. QED
    BY <1>15, <2>2, <2>4 DEF UpdateShowing, locks, TableTypes
<1>16. ASSUME NEW p \in Request, PromoteToAdmin(p) PROVE TypeOK'
  <2>1. pc[p] \notin Answered
    BY <1>16 DEF PromoteToAdmin, Answered
  <2>2. RequestTypes'
    BY <1>16, ReadBackTypes DEF PromoteToAdmin
  <2>3. Administers(p) => \A u \in User :
          [showings[req[p].showing] EXCEPT !.admin = u, !.payTo = u] \in ShowingRow
    BY <2>1, RequestRows, ShowingRows DEF Administers, OwnShowing
  <2>4. showings' \in [Showing -> ShowingRow \cup {Absent}]
    BY <1>16, <2>3 DEF PromoteToAdmin, TableTypes
  <2>5. QED
    BY <1>16, <2>2, <2>4 DEF PromoteToAdmin, locks, TableTypes
<1>17. ASSUME NEW p \in Request, UpdateAttendeePayment(p) PROVE TypeOK'
  <2>1. pc[p] \notin Answered
    BY <1>17 DEF UpdateAttendeePayment, Answered
  <2>2. PICK u \in User :
          \/ Answer(p, "error") /\ UNCHANGED attendees
          \/ /\ attendees[SeatOf(p, u)] # Absent
             /\ \E paid \in BOOLEAN, c \in Price :
                  attendees' = [attendees EXCEPT ![SeatOf(p, u)] =
                                    [@ EXCEPT !.paid = paid, !.owed = c]]
             /\ ReadBack(p)
    BY <1>17 DEF UpdateAttendeePayment
  <2>3. RequestTypes'
    BY <2>2, AnswerTypes, ReadBackTypes DEF Answered
  <2>4. attendees[SeatOf(p, u)] # Absent => \A paid \in BOOLEAN, c \in Price :
          [attendees[SeatOf(p, u)] EXCEPT !.paid = paid, !.owed = c] \in AttendeeRow
    BY <2>1, RequestRows, AttendeeRows
  <2>5. attendees' \in [Seat -> AttendeeRow \cup {Absent}]
    <3>1. ASSUME attendees[SeatOf(p, u)] # Absent, NEW paid \in BOOLEAN, NEW c \in Price,
                 attendees' = [attendees EXCEPT ![SeatOf(p, u)] =
                                   [attendees[SeatOf(p, u)] EXCEPT !.paid = paid, !.owed = c]]
          PROVE  attendees' \in [Seat -> AttendeeRow \cup {Absent}]
      BY <2>4, <3>1 DEF TableTypes
    <3>2. QED
      BY <2>2, <3>1 DEF TableTypes
  <2>6. QED
    BY <1>17, <2>3, <2>5 DEF UpdateAttendeePayment, locks, TableTypes
<1>18. ASSUME NEW p \in Request, Commit(p) PROVE TypeOK'
  <2>1. RequestTypes'
    BY <1>18, ReadBackTypes DEF Commit
  <2>2. QED
    BY <1>18, <2>1, PublishTypes, UnlockTypes DEF Commit, TableTypes
<1>19. ASSUME NEW p \in Request, Fail(p) \/ DeadlockVictim(p) PROVE TypeOK'
  <2>1. RequestTypes'
    BY <1>19, AnswerTypes DEF Fail, DeadlockVictim, Answered
  <2>2. QED
    BY <1>19, <2>1, UnlockTypes DEF Fail, DeadlockVictim, tables, TableTypes
<1>20. CASE UNCHANGED vars
  BY <1>20 DEF vars, TableTypes, RequestTypes
<1>21. QED
  BY <1>1, <1>2, <1>3, <1>4, <1>5, <1>6, <1>7, <1>8, <1>9, <1>10, <1>11, <1>12,
     <1>13, <1>14, <1>15, <1>16, <1>17, <1>18, <1>19, <1>20 DEF Next, Step

-----------------------------------------------------------------------------
(***************************************************************************)
(* Safety.  IInv is inductive: the types aside, its parts say which rows a *)
(* request can have locked at each query, that a showing under creation is *)
(* known to nobody else, and that nobody attends an absent showing.        *)
(***************************************************************************)
SafetyParts ==
    NoOrphans /\ FreshIds /\ UnusedIds /\ ControlInv /\ ShowingLockInv /\ AttendeeLockInv

\* Before its first write, and outside transactions, a request has no lock.
LEMMA NoLocksHeld ==
  ASSUME SafetyParts, NEW p \in Request,
         pc[p] \notin {"AddAttendee", "CascadeAttendees", "Commit",
                      "UpdateAmountOwedForSwishAttendees", "MarkShowingAsBought"}
  PROVE  /\ \A s \in Showing : ~Holds(p, showingLock[s])
         /\ \A k \in Seat : ~Holds(p, attendeeLock[k])
  BY DEF SafetyParts, ShowingLockInv, AttendeeLockInv, Holds

LEMMA NoLocksBy ==
  ASSUME SafetyParts, NEW p \in Request,
         pc[p] \in {"DeleteAttendee", "ShowingTicketsBought"}
  PROVE  /\ \A s \in Showing : showingLock[s] # NoLock => showingLock[s].by # p
         /\ \A k \in Seat : attendeeLock[k] # NoLock => attendeeLock[k].by # p
  BY NoLocksHeld DEF Holds

\* The locks of the other requests stay in order when only p moves and the
\* showings they lock stay present or absent.
LEMMA OthersKeepLocks ==
  ASSUME TypeOK, ShowingLockInv, NEW p \in Request,
         \A q \in Request \ {p} : pc'[q] = pc[q] /\ req'[q] = req[q],
         \A s \in Showing : showingLock'[s] # NoLock =>
             /\ showingLock'[s] = showingLock[s]
             /\ showingLock[s].by # p
             /\ showings'[s] = Absent <=> showings[s] = Absent
  PROVE  ShowingLockInv'
<1> SUFFICES ASSUME NEW s \in Showing, showingLock'[s] # NoLock
             PROVE  LET q == showingLock'[s].by IN
                    /\ pc'[q] \in {"AddAttendee", "CascadeAttendees", "Commit"}
                    /\ req'[q].op \in {"create", "delete", "markAsBought"}
                    /\ req'[q].showing = s
                    /\ showingLock'[s].row = Absent <=> req'[q].op = "delete"
                    /\ showings'[s] = Absent <=> req'[q].op = "create"
  BY DEF ShowingLockInv
<1>1. showingLock[s].by \in Request \ {p}
  BY DEF TypeOK, TableTypes, Lock
<1>2. QED
  BY <1>1 DEF ShowingLockInv

\* A request that holds no lock may be answered, whatever it wrote, as long
\* as it left every row present or absent as it was.
LEMMA QuietAnswer ==
  ASSUME TypeOK, SafetyParts, NEW p \in Request, ReadBack(p),
         pc[p] \in {"UpdateShowing", "PromoteNewUserToShowingAdmin", "UpdateAttendeePayment"},
         UNCHANGED <<showingLock, attendeeLock, unused>>,
         \A s \in Showing : showings'[s] = Absent <=> showings[s] = Absent,
         \A k \in Seat : attendees'[k] = Absent <=> attendees[k] = Absent
  PROVE  SafetyParts'
<1> USE DEF SafetyParts, ReadBack, Answer, TypeOK, RequestTypes, Answered
<1>1. NoOrphans'
  BY DEF NoOrphans, Seat
<1>2. FreshIds'
  BY DEF FreshIds, Arguments
<1>3. UnusedIds'
  BY DEF UnusedIds, TableTypes
<1>4. ControlInv'
  BY DEF ControlInv, Holds
<1>5. ShowingLockInv'
  BY DEF ShowingLockInv, TableTypes, Lock
<1>6. AttendeeLockInv'
  BY DEF AttendeeLockInv, TableTypes, Lock
<1>7. QED
  BY <1>1, <1>2, <1>3, <1>4, <1>5, <1>6

\* The two updates of attendees in MarkAsBought lock rows that are there and
\* that nobody else has locked.
LEMMA MarkerLocks ==
  ASSUME TypeOK, SafetyParts, NEW p \in Request, NEW users \in SUBSET User, NEW q \in Query,
         Goto(p, q),
         \A k \in Seat : IF k[1] = req[p].showing /\ k[2] \in users
                        THEN attendeeLock'[k].by = p
                        ELSE attendeeLock'[k] = attendeeLock[k],
         pc[p] \in {"MarkGCAttendeesAsHavingPaid", "UpdateAmountOwedForSwishAttendees"},
         q \in {"UpdateAmountOwedForSwishAttendees", "MarkShowingAsBought"},
         \A u \in users : Seen(p, u) # Absent /\ MayWrite(p, attendeeLock[SeatOf(p, u)]),
         UNCHANGED <<showings, attendees, showingLock, unused>>
  PROVE  SafetyParts'
<1> USE DEF SafetyParts, Goto, TypeOK, RequestTypes, Answered
<1>1. NoOrphans'
  BY DEF NoOrphans
<1>2. FreshIds'
  BY DEF FreshIds
<1>3. UnusedIds'
  BY DEF UnusedIds
<1>4. ControlInv'
  BY DEF ControlInv, Holds
<1>5. ShowingLockInv'
  BY DEF ShowingLockInv, TableTypes, Lock
<1>6. AttendeeLockInv'
  <2> SUFFICES ASSUME NEW k \in Seat, attendeeLock'[k] # NoLock
               PROVE  /\ pc'[attendeeLock'[k].by] \in {"UpdateAmountOwedForSwishAttendees",
                                                       "MarkShowingAsBought", "Commit"}
                      /\ req'[attendeeLock'[k].by].showing = k[1]
                      /\ attendees'[k] = Absent <=> req'[attendeeLock'[k].by].op = "create"
    BY DEF AttendeeLockInv
  <2>1. CASE k[1] = req[p].showing /\ k[2] \in users
    <3>1. k = SeatOf(p, k[2])
      BY <2>1 DEF Seat, SeatOf
    <3>2. attendeeLock'[k].by = p
      BY <2>1
    <3>3. req[p].op = "markAsBought"
      BY DEF ControlInv
    <3>4. attendees[k] # Absent
      BY <2>1, <3>1, <3>3 DEF AttendeeLockInv, Seen, Holds, MayWrite
    <3>5. QED
      BY <2>1, <3>2, <3>3, <3>4
  <2>2. CASE ~(k[1] = req[p].showing /\ k[2] \in users)
    <3>1. attendeeLock'[k] = attendeeLock[k]
      BY <2>2
    <3>2. QED
      BY <3>1 DEF AttendeeLockInv, TableTypes, Lock
  <2>3. QED
    BY <2>1, <2>2
<1>7. QED
  BY <1>1, <1>2, <1>3, <1>4, <1>5, <1>6

LEMMA SafetyInit == Init => SafetyParts
  BY ShowingsAssumption
  DEF Init, SafetyParts, NoOrphans, FreshIds, UnusedIds, ControlInv, ShowingLockInv,
      AttendeeLockInv, Seat, Answered

LEMMA MarkGCAttendeesSafe ==
  ASSUME TypeOK, SafetyParts, NEW p \in Request, MarkGCAttendeesAsHavingPaid(p)
  PROVE  SafetyParts'
<1>1. \A k \in Seat : IF k[1] = req[p].showing /\ k[2] \in GCAttendees(p)
                      THEN attendeeLock'[k].by = p
                      ELSE attendeeLock'[k] = attendeeLock[k]
  BY DEF MarkGCAttendeesAsHavingPaid, WriteSeats
<1>2. /\ GCAttendees(p) \in SUBSET User
      /\ \A u \in GCAttendees(p) :
           Seen(p, u) # Absent /\ MayWrite(p, attendeeLock[SeatOf(p, u)])
  BY DEF GCAttendees, MarkGCAttendeesAsHavingPaid
<1>3. /\ Goto(p, "UpdateAmountOwedForSwishAttendees")
      /\ pc[p] = "MarkGCAttendeesAsHavingPaid"
      /\ UNCHANGED <<showings, attendees, showingLock, unused>>
  BY DEF MarkGCAttendeesAsHavingPaid, tables
<1>4. QED
  BY <1>1, <1>2, <1>3, MarkerLocks DEF Query

LEMMA UpdateAmountOwedSafe ==
  ASSUME TypeOK, SafetyParts, NEW p \in Request, UpdateAmountOwedForSwishAttendees(p)
  PROVE  SafetyParts'
<1>1. \A k \in Seat : IF k[1] = req[p].showing /\ k[2] \in SwishAttendees(p)
                      THEN attendeeLock'[k].by = p
                      ELSE attendeeLock'[k] = attendeeLock[k]
  BY DEF UpdateAmountOwedForSwishAttendees, WriteSeats
<1>2. /\ SwishAttendees(p) \in SUBSET User
      /\ \A u \in SwishAttendees(p) :
           Seen(p, u) # Absent /\ MayWrite(p, attendeeLock[SeatOf(p, u)])
  BY DEF SwishAttendees, UpdateAmountOwedForSwishAttendees
<1>3. /\ Goto(p, "MarkShowingAsBought")
      /\ pc[p] = "UpdateAmountOwedForSwishAttendees"
      /\ UNCHANGED <<showings, attendees, showingLock, unused>>
  BY DEF UpdateAmountOwedForSwishAttendees, tables
<1>4. QED
  BY <1>1, <1>2, <1>3, MarkerLocks DEF Query

LEMMA UpdateShowingSafe ==
  ASSUME TypeOK, SafetyParts, NEW p \in Request, UpdateShowing(p)
  PROVE  SafetyParts'
<1>1. pc[p] \notin Answered
  BY DEF UpdateShowing, Answered
<1>2. \A s \in Showing : showings'[s] = Absent <=> showings[s] = Absent
  <2>1. CASE Administers(p)
    <3>1. PICK c \in Price, u \in User :
            showings' = [showings EXCEPT ![req[p].showing] =
                            [showings[req[p].showing] EXCEPT !.price = c, !.payTo = u]]
      BY <2>1 DEF UpdateShowing
    <3>2. showings[req[p].showing] \in ShowingRow
      BY <1>1, <2>1, RequestRows DEF Administers, OwnShowing
    <3>3. /\ showings[req[p].showing] # Absent
          /\ [showings[req[p].showing] EXCEPT !.price = c, !.payTo = u] # Absent
      BY <3>2, ShowingRows
    <3>4. QED
      BY <3>1, <3>3 DEF TypeOK, TableTypes
  <2>2. CASE ~Administers(p)
    BY <2>2 DEF UpdateShowing
  <2>3. QED
    BY <2>1, <2>2
<1>3. /\ pc[p] = "UpdateShowing"
      /\ ReadBack(p)
      /\ UNCHANGED <<attendees, showingLock, attendeeLock, unused>>
  BY DEF UpdateShowing, locks
<1>4. QED
  BY <1>2, <1>3, QuietAnswer

LEMMA PromoteToAdminSafe ==
  ASSUME TypeOK, SafetyParts, NEW p \in Request, PromoteToAdmin(p)
  PROVE  SafetyParts'
<1>1. pc[p] \notin Answered
  BY DEF PromoteToAdmin, Answered
<1>2. \A s \in Showing : showings'[s] = Absent <=> showings[s] = Absent
  <2>1. CASE Administers(p) /\ ~OwnShowing(p).bought
    <3>1. PICK u \in User :
            showings' = [showings EXCEPT ![req[p].showing] =
                            [showings[req[p].showing] EXCEPT !.admin = u, !.payTo = u]]
      BY <2>1 DEF PromoteToAdmin
    <3>2. showings[req[p].showing] \in ShowingRow
      BY <1>1, <2>1, RequestRows DEF Administers, OwnShowing
    <3>3. /\ showings[req[p].showing] # Absent
          /\ [showings[req[p].showing] EXCEPT !.admin = u, !.payTo = u] # Absent
      BY <3>2, ShowingRows, ShowingsAssumption
    <3>4. QED
      BY <3>1, <3>3 DEF TypeOK, TableTypes
  <2>2. CASE ~(Administers(p) /\ ~OwnShowing(p).bought)
    BY <2>2 DEF PromoteToAdmin
  <2>3. QED
    BY <2>1, <2>2
<1>3. /\ pc[p] = "PromoteNewUserToShowingAdmin"
      /\ ReadBack(p)
      /\ UNCHANGED <<attendees, showingLock, attendeeLock, unused>>
  BY DEF PromoteToAdmin, locks
<1>4. QED
  BY <1>2, <1>3, QuietAnswer

LEMMA UpdateAttendeePaymentSafe ==
  ASSUME TypeOK, SafetyParts, NEW p \in Request, UpdateAttendeePayment(p)
  PROVE  SafetyParts'
<1>1. pc[p] \notin Answered
  BY DEF UpdateAttendeePayment, Answered
<1>2. PICK u \in User :
        \/ Answer(p, "error") /\ UNCHANGED attendees
        \/ /\ attendees[SeatOf(p, u)] # Absent
           /\ \E paid \in BOOLEAN, c \in Price :
                attendees' = [attendees EXCEPT ![SeatOf(p, u)] =
                                  [@ EXCEPT !.paid = paid, !.owed = c]]
           /\ ReadBack(p)
  BY DEF UpdateAttendeePayment
<1>3. \A k \in Seat : attendees'[k] = Absent <=> attendees[k] = Absent
  <2>1. CASE UNCHANGED attendees
    BY <2>1
  <2>2. ASSUME attendees[SeatOf(p, u)] # Absent, NEW paid \in BOOLEAN, NEW c \in Price,
               attendees' = [attendees EXCEPT ![SeatOf(p, u)] =
                                 [attendees[SeatOf(p, u)] EXCEPT !.paid = paid, !.owed = c]]
        PROVE  \A k \in Seat : attendees'[k] = Absent <=> attendees[k] = Absent
    <3>1. attendees[SeatOf(p, u)] \in AttendeeRow
      BY <1>1, <2>2, RequestRows
    <3>2. [attendees[SeatOf(p, u)] EXCEPT !.paid = paid, !.owed = c] # Absent
      BY <3>1, AttendeeRows
    <3>3. QED
      BY <2>2, <3>2 DEF TypeOK, TableTypes
  <2>3. QED
    BY <1>2, <2>1, <2>2
<1>4. ReadBack(p)
  BY <1>2 DEF ReadBack
<1>5. /\ pc[p] = "UpdateAttendeePayment"
      /\ UNCHANGED <<showings, showingLock, attendeeLock, unused>>
  BY DEF UpdateAttendeePayment, locks
<1>6. QED
  BY <1>3, <1>4, <1>5, QuietAnswer

\* The rows CreateInsert and MarkShowingAsBought lock, and nothing else.
LEMMA CreateInsertLocks ==
  ASSUME TypeOK, NEW p \in Request, CreateInsert(p)
  PROVE  /\ showingLock'[req[p].showing] # NoLock
         /\ showingLock'[req[p].showing].by = p
         /\ showingLock'[req[p].showing].row # Absent
         /\ \A s \in Showing \ {req[p].showing} : showingLock'[s] = showingLock[s]
<1> DEFINE row == [admin |-> req[p].user, payTo |-> req[p].user, price |-> 0, bought |-> FALSE]
<1>1. pc[p] \notin Answered
  BY DEF CreateInsert, Answered
<1>2. row \in ShowingRow /\ req[p].showing \in Showing
  BY <1>1, RequestRows, ShowingsAssumption DEF ShowingRow
<1>3. row # Absent
  BY <1>2, ShowingsAssumption
<1>4. [by |-> p, row |-> row] \in Lock(ShowingRow \cup {Absent})
  BY <1>2 DEF Lock
<1>5. [by |-> p, row |-> row] # NoLock
  BY <1>4, ShowingsAssumption
<1>6. QED
  BY <1>2, <1>3, <1>5 DEF CreateInsert, TypeOK, TableTypes

LEMMA MarkShowingLocks ==
  ASSUME TypeOK, NEW p \in Request, MarkShowingAsBought(p),
         Administers(p), ~OwnShowing(p).bought
  PROVE  /\ req[p].showing \in Showing
         /\ showings[req[p].showing] # Absent
         /\ showingLock'[req[p].showing].by = p
         /\ showingLock'[req[p].showing].row # Absent
         /\ \A s \in Showing \ {req[p].showing} : showingLock'[s] = showingLock[s]
<1> DEFINE row == [OwnShowing(p) EXCEPT !.bought = TRUE, !.price = req[p].price]
<1>1. pc[p] \notin Answered
  BY DEF MarkShowingAsBought, Answered
<1>2. OwnShowing(p) \in ShowingRow /\ req[p].showing \in Showing /\ req[p].price \in Price
  BY <1>1, RequestRows DEF Administers
<1>3. row # Absent
  BY <1>1, <1>2, RequestRows, ShowingRows
<1>4. showingLock' = [showingLock EXCEPT ![req[p].showing] = [by |-> p, row |-> row]]
  BY DEF MarkShowingAsBought
<1>5. QED
  BY <1>2, <1>3, <1>4 DEF TypeOK, TableTypes, OwnShowing, Administers

\* An attendee is inserted where nobody has a lock.
LEMMA AttendInsertFrame ==
  ASSUME TypeOK, NEW p \in Request, AttendInsert(p)
  PROVE  /\ pc[p] = "AddAttendee" /\ req[p].op = "attend"
         /\ \E a \in Answered : Answer(p, a)
         /\ UNCHANGED <<showings, showingLock, attendeeLock>>
         /\ \A k \in Seat : attendeeLock[k] # NoLock => attendees'[k] = attendees[k]
<1> DEFINE own == SeatOf(p, req[p].user)
<1>1. /\ At(p, "attend", "AddAttendee")
      /\ attendeeLock[own] = NoLock
      /\ \/ attendees' = attendees
         \/ \E row : attendees' = [attendees EXCEPT ![own] = row]
      /\ Answer(p, "error") \/ ReadBack(p)
      /\ UNCHANGED <<showings, locks>>
  BY DEF AttendInsert
<1> HIDE DEF own
<1>2. \A k \in Seat : attendeeLock[k] # NoLock => attendees'[k] = attendees[k]
  BY <1>1 DEF TypeOK, TableTypes
<1>3. QED
  BY <1>1, <1>2 DEF At, ReadBack, Answered, locks

\* Whoever arrives has nothing locked yet.
LEMMA ArrivalSafe ==
  ASSUME TypeOK, SafetyParts, NEW p \in Request, Arrive(p) \/ ArriveCreate(p)
  PROVE  SafetyParts'
<1>1. PICK r \in Arguments :
           /\ Start(p, r)
           /\ pc[p] \in Answered
           /\ UNCHANGED <<showings, attendees, showingLock, attendeeLock>>
           /\ IF r.op = "create" THEN r.showing \in unused /\ unused' = unused \ {r.showing}
                                 ELSE r.showing \notin unused /\ unused' = unused
  BY Arrivals
<1>2. /\ req'[p] = r
      /\ pc'[p] \notin Answered \cup {"AddShowing", "AddAttendee", "CascadeAttendees", "Commit"}
      /\ pc'[p] \in {"MarkGCAttendeesAsHavingPaid", "UpdateAmountOwedForSwishAttendees",
                     "MarkShowingAsBought"} => FALSE
      /\ \A q \in Request \ {p} : pc'[q] = pc[q] /\ req'[q] = req[q]
  BY <1>1, Resolving DEF Start, TypeOK, RequestTypes, Answered, Operation, AdminOnly
<1>3. /\ pc'[p] = "LookupMovieTitle" => r.op = "create"
      /\ r.op = "create" => pc'[p] = "LookupMovieTitle"
      /\ pc'[p] = "DeleteShowing" => r.op = "delete"
      /\ pc'[p] = "AddCinemaScreen" => r.op = "update" /\ r.screen # Absent
      /\ pc'[p] = "AdminOnShowing" => r.op \in AdminOnly
  BY <1>1, Resolving DEF Start, TypeOK, RequestTypes, Operation, AdminOnly
<1>4. r.showing \in Showing /\ (r.op = "create" => showings[r.showing] = Absent)
  BY <1>1 DEF Arguments, SafetyParts, UnusedIds
<1>5. NoOrphans'
  BY <1>1 DEF SafetyParts, NoOrphans
<1>6. FreshIds'
  BY <1>1, <1>2, <1>4 DEF SafetyParts, FreshIds, UnusedIds, Answered
<1>7. UnusedIds'
  BY <1>1 DEF SafetyParts, UnusedIds
<1>8. ControlInv'
  BY <1>1, <1>2, <1>3 DEF SafetyParts, ControlInv, Holds, Answered
<1>9. ShowingLockInv'
  BY <1>1, <1>2 DEF SafetyParts, ShowingLockInv, Answered, TypeOK, TableTypes, Lock
<1>10. AttendeeLockInv'
  BY <1>1, <1>2 DEF SafetyParts, AttendeeLockInv, Answered, TypeOK, TableTypes, Lock
<1>11. QED
  BY <1>5, <1>6, <1>7, <1>8, <1>9, <1>10 DEF SafetyParts

\* The queries about the movie and the screen: they leave the showings and the
\* attendees alone, locks included.
Screening(p) == LookupMovieTitle(p) \/ CreateAddScreen(p) \/ UpdateAddScreen(p)

LEMMA ScreeningFrame ==
  ASSUME TypeOK, ControlInv, NEW p \in Request, Screening(p)
  PROVE  /\ pc[p] \in {"LookupMovieTitle", "AddCinemaScreen"}
         /\ UNCHANGED <<showings, attendees, showingLock, attendeeLock, unused>>
         /\ \/ req[p].op = "create" /\ Goto(p, "AddShowing")
            \/ req[p].op = "create" /\ req[p].screen # Absent /\ Goto(p, "AddCinemaScreen")
            \/ req[p].op = "update" /\ Goto(p, "UpdateShowing")
<1>1. CASE LookupMovieTitle(p)
  <2>1. req[p].op = "create"
    BY <1>1 DEF LookupMovieTitle, ControlInv, Answered
  <2>2. QED
    BY <1>1, <2>1 DEF LookupMovieTitle, tables, locks
<1>2. CASE CreateAddScreen(p)
  BY <1>2 DEF CreateAddScreen, At, tables
<1>3. CASE UpdateAddScreen(p)
  BY <1>3 DEF UpdateAddScreen, At, locks
<1>4. QED
  BY <1>1, <1>2, <1>3 DEF Screening

LEMMA ScreeningSafe ==
  ASSUME TypeOK, SafetyParts, NEW p \in Request, Screening(p)
  PROVE  SafetyParts'
<1>1. /\ pc[p] \in {"LookupMovieTitle", "AddCinemaScreen"}
      /\ UNCHANGED <<showings, attendees, showingLock, attendeeLock, unused, req>>
      /\ \E q \in {"AddShowing", "AddCinemaScreen", "UpdateShowing"} :
           /\ pc' = [pc EXCEPT ![p] = q]
           /\ q = "AddShowing" => req[p].op = "create"
           /\ q = "AddCinemaScreen" => req[p].op = "create" /\ req[p].screen # Absent
           /\ q = "UpdateShowing" => req[p].op = "update"
  BY ScreeningFrame DEF SafetyParts, Goto
<1>2. /\ pc'[p] \in {"AddShowing", "AddCinemaScreen", "UpdateShowing"}
      /\ pc'[p] = "AddShowing" => req[p].op = "create"
      /\ pc'[p] = "AddCinemaScreen" => req[p].op = "create" /\ req[p].screen # Absent
      /\ pc'[p] = "UpdateShowing" => req[p].op = "update"
      /\ \A q \in Request \ {p} : pc'[q] = pc[q]
  BY <1>1 DEF TypeOK, RequestTypes
<1>3. NoOrphans' /\ UnusedIds'
  BY <1>1 DEF SafetyParts, NoOrphans, UnusedIds
<1>4. FreshIds'
  BY <1>1, <1>2 DEF SafetyParts, FreshIds, Answered
<1>5. ControlInv'
  BY <1>1, <1>2 DEF SafetyParts, ControlInv, Holds, Answered
<1>6. ShowingLockInv'
  BY <1>1, <1>2 DEF SafetyParts, ShowingLockInv, TypeOK, TableTypes, Lock
<1>7. AttendeeLockInv'
  BY <1>1, <1>2 DEF SafetyParts, AttendeeLockInv, TypeOK, TableTypes, Lock
<1>8. QED
  BY <1>3, <1>4, <1>5, <1>6, <1>7 DEF SafetyParts

\* Each action keeps the parts of IInv.
LEMMA SafetyNext ==
  ASSUME TypeOK, SafetyParts, [Next]_vars
  PROVE  SafetyParts'
<1> USE ShowingsAssumption
<1> USE DEF SafetyParts, NoOrphans, FreshIds, UnusedIds, ControlInv, ShowingLockInv,
            AttendeeLockInv, TypeOK, TableTypes, RequestTypes, Answered, Arguments,
            Lock, Seat, tables, locks, Holds
<1>1. ASSUME NEW p \in Request, Arrive(p) \/ ArriveCreate(p) PROVE SafetyParts'
  BY <1>1, ArrivalSafe
<1>2. ASSUME NEW p \in Request, LookupMovieTitle(p) \/ CreateAddScreen(p) \/ UpdateAddScreen(p)
      PROVE  SafetyParts'
  BY <1>2, ScreeningSafe DEF Screening
<1>3. ASSUME NEW p \in Request, VerifyShowingAdmin(p) PROVE SafetyParts'
  <2>1. NoOrphans'
    BY <1>3 DEF VerifyShowingAdmin, Goto, Answer
  <2>2. FreshIds'
    BY <1>3 DEF VerifyShowingAdmin, Goto, Answer
  <2>3. UnusedIds'
    BY <1>3 DEF VerifyShowingAdmin, Goto, Answer
  <2>4. ControlInv'
    <3>1. pc[p] \notin Answered /\ req[p].op \in AdminOnly /\ UNCHANGED showingLock
      BY <1>3 DEF VerifyShowingAdmin
    <3>2. req[p] \in Arguments
      BY <3>1, RequestRows
    <3>3. CASE Goto(p, Resolve(req[p]))
      BY <3>1, <3>2, <3>3, Resolving DEF Goto, AdminOnly
    <3>4. CASE Answer(p, "error")
      BY <3>1, <3>4 DEF Answer
    <3>5. QED
      BY <1>3, <3>3, <3>4 DEF VerifyShowingAdmin
  <2>5. ShowingLockInv'
    BY <1>3 DEF VerifyShowingAdmin, Goto, Answer
  <2>6. AttendeeLockInv'
    BY <1>3 DEF VerifyShowingAdmin, Goto, Answer
  <2>7. QED
    BY <2>1, <2>2, <2>3, <2>4, <2>5, <2>6
<1>4. ASSUME NEW p \in Request, AttendRead(p) PROVE SafetyParts'
  <2>1. NoOrphans'
    BY <1>4 DEF AttendRead, At, Answer
  <2>2. FreshIds'
    <3>1. \A q \in Request : pc'[q] \notin Answered =>
            pc[q] \notin Answered /\ req'[q].op = req[q].op /\ req'[q].showing = req[q].showing
      <4>1. CASE Answer(p, "error")
        BY <4>1 DEF Answer
      <4>2. CASE req' = [req EXCEPT ![p] = [req[p] EXCEPT !.price = OwnShowing(p).price]]
        <5>1. pc[p] \notin Answered /\ req[p] \in Arguments
          BY <1>4, RequestRows DEF AttendRead, At
        <5>2. req'[p] = [req[p] EXCEPT !.price = OwnShowing(p).price]
          BY <4>2, <5>1
        <5>3. req'[p].op = req[p].op /\ req'[p].showing = req[p].showing
          BY <5>1, <5>2 DEF Arguments
        <5>4. \A q \in Request \ {p} : req'[q] = req[q] /\ pc'[q] = pc[q]
          BY <1>4, <4>2 DEF AttendRead, Answer
        <5>5. QED
          BY <5>1, <5>3, <5>4
      <4>3. QED
        BY <1>4, <4>1, <4>2 DEF AttendRead
    <3>2. QED
      BY <1>4, <3>1 DEF AttendRead
  <2>3. UnusedIds'
    BY <1>4 DEF AttendRead, At, Answer
  <2>4. ControlInv'
    BY <1>4 DEF AttendRead, At, Answer
  <2>5. ShowingLockInv'
    BY <1>4 DEF AttendRead, At, Answer
  <2>6. AttendeeLockInv'
    BY <1>4 DEF AttendRead, At, Answer
  <2>7. QED
    BY <2>1, <2>2, <2>3, <2>4, <2>5, <2>6
<1>5. ASSUME NEW p \in Request, AttendInsert(p) PROVE SafetyParts'
  <2>1. NoOrphans'
    BY <1>5 DEF AttendInsert, At, Answer, ReadBack, SeatOf, OwnShowing
  <2>2. FreshIds'
    <3>1. (\E a \in Answered : Answer(p, a)) /\ UNCHANGED <<showings, unused>>
      BY <1>5 DEF AttendInsert, ReadBack
    <3>2. QED
      BY <3>1 DEF Answer
  <2>3. UnusedIds'
    BY <1>5 DEF AttendInsert, At, Answer, ReadBack, SeatOf, OwnShowing
  <2>4. /\ pc[p] = "AddAttendee" /\ req[p].op = "attend"
        /\ \E a \in Answered : Answer(p, a)
        /\ UNCHANGED <<showings, showingLock, attendeeLock>>
        /\ \A k \in Seat : attendeeLock[k] # NoLock => attendees'[k] = attendees[k]
    BY <1>5, AttendInsertFrame
  <2>5. ControlInv'
    BY <2>4 DEF Answer
  <2>6. ShowingLockInv'
    BY <2>4 DEF Answer
  <2>7. AttendeeLockInv'
    BY <2>4 DEF Answer
  <2>8. QED
    BY <2>1, <2>2, <2>3, <2>5, <2>6, <2>7
<1>6. ASSUME NEW p \in Request, UnattendShowing(p) PROVE SafetyParts'
  <2>1. NoOrphans'
    BY <1>6 DEF UnattendShowing, Answer, ReadBack, SeatOf
  <2>2. FreshIds'
    <3>1. (\E a \in Answered : Answer(p, a)) /\ UNCHANGED <<showings, unused>>
      BY <1>6 DEF UnattendShowing, ReadBack
    <3>2. QED
      BY <3>1 DEF Answer
  <2>3. UnusedIds'
    BY <1>6 DEF UnattendShowing, Answer, ReadBack, SeatOf
  <2>4. ControlInv'
    <3>1. (\E a \in Answered : Answer(p, a)) /\ UNCHANGED showingLock
      BY <1>6 DEF UnattendShowing, ReadBack
    <3>2. QED
      BY <3>1 DEF Answer
  <2>5. ShowingLockInv'
    BY <1>6 DEF UnattendShowing, Answer, ReadBack, SeatOf
  <2>6. AttendeeLockInv'
    <3>1. (\E a \in Answered : Answer(p, a)) /\ UNCHANGED attendeeLock
      BY <1>6 DEF UnattendShowing, ReadBack
    <3>2. \A k \in Seat : attendeeLock[k] # NoLock => attendees'[k] = attendees[k]
      BY <1>6 DEF UnattendShowing
    <3>3. \A k \in Seat : attendeeLock[k] # NoLock => attendeeLock[k].by # p
      <4>1. pc[p] \in {"DeleteAttendee", "ShowingTicketsBought"}
        BY <1>6 DEF UnattendShowing
      <4>2. QED
        BY <4>1, NoLocksBy
    <3>4. QED
      BY <3>1, <3>2, <3>3 DEF Answer
  <2>7. QED
    BY <2>1, <2>2, <2>3, <2>4, <2>5, <2>6
<1>7. ASSUME NEW p \in Request, CreateInsert(p) PROVE SafetyParts'
  <2>1. NoOrphans'
    BY <1>7 DEF CreateInsert, Goto
  <2>2. FreshIds'
    BY <1>7 DEF CreateInsert, Goto
  <2>3. UnusedIds'
    BY <1>7 DEF CreateInsert, Goto
  <2>4. ControlInv'
    <3>1. \A s \in Showing \ {req[p].showing} : showingLock'[s] = showingLock[s]
      BY <1>7 DEF CreateInsert
    <3>2. \A q \in Request \ {p} :
            pc[q] = "CascadeAttendees" \/ (pc[q] \notin Answered /\ req[q].op = "create") =>
            req[q].showing \in Showing \ {req[p].showing}
      BY <1>7, RequestRows DEF CreateInsert
    <3>3. showingLock'[req[p].showing] # NoLock /\ showingLock'[req[p].showing].by = p
      BY <1>7, CreateInsertLocks
    <3>4. QED
      BY <1>7, <3>1, <3>2, <3>3 DEF CreateInsert, Goto
  <2>5. ShowingLockInv'
    <3>1. req[p].op = "create" /\ req[p].showing \in Showing /\ showings[req[p].showing] = Absent
      BY <1>7, RequestRows DEF CreateInsert
    <3>2. showingLock'[req[p].showing].row # Absent /\ showingLock'[req[p].showing].by = p
      BY <1>7, CreateInsertLocks
    <3>3. \A s \in Showing \ {req[p].showing} : showingLock'[s] = showingLock[s]
      BY <1>7 DEF CreateInsert
    <3>4. QED
      BY <1>7, <3>1, <3>2, <3>3 DEF CreateInsert, Goto
  <2>6. AttendeeLockInv'
    BY <1>7 DEF CreateInsert, Goto
  <2>7. QED
    BY <2>1, <2>2, <2>3, <2>4, <2>5, <2>6
<1>8. ASSUME NEW p \in Request, CreateAttend(p) PROVE SafetyParts'
  <2>1. NoOrphans'
    BY <1>8 DEF CreateAttend, At, Goto, SeatOf
  <2>2. FreshIds'
    BY <1>8 DEF CreateAttend, At, Goto, SeatOf
  <2>3. UnusedIds'
    BY <1>8 DEF CreateAttend, At, Goto, SeatOf
  <2>4. ControlInv'
    BY <1>8 DEF CreateAttend, At, Goto, SeatOf
  <2>5. ShowingLockInv'
    BY <1>8 DEF CreateAttend, At, Goto, SeatOf
  <2>6. AttendeeLockInv'
    BY <1>8 DEF CreateAttend, At, Goto, SeatOf
  <2>7. QED
    BY <2>1, <2>2, <2>3, <2>4, <2>5, <2>6
<1>9. ASSUME NEW p \in Request, DeleteShowing(p) PROVE SafetyParts'
  <2>1. NoOrphans'
    BY <1>9 DEF DeleteShowing, Goto, Answer, OwnShowing
  <2>2. FreshIds'
    BY <1>9 DEF DeleteShowing, Goto, Answer, OwnShowing
  <2>3. UnusedIds'
    BY <1>9 DEF DeleteShowing, Goto, Answer, OwnShowing
  <2>4. ControlInv'
    BY <1>9 DEF DeleteShowing, Goto, Answer, OwnShowing
  <2>5. ShowingLockInv'
    BY <1>9 DEF DeleteShowing, Goto, Answer, OwnShowing
  <2>6. AttendeeLockInv'
    BY <1>9 DEF DeleteShowing, Goto, Answer, OwnShowing
  <2>7. QED
    BY <2>1, <2>2, <2>3, <2>4, <2>5, <2>6
<1>10. ASSUME NEW p \in Request, CascadeAttendees(p) PROVE SafetyParts'
  <2>1. NoOrphans'
    BY <1>10 DEF CascadeAttendees, Unlock, Answer, ReadBack, Attending, SeatOf
  <2>2. FreshIds'
    BY <1>10 DEF CascadeAttendees, Unlock, Answer, ReadBack, Attending, SeatOf
  <2>3. UnusedIds'
    BY <1>10 DEF CascadeAttendees, Unlock, Answer, ReadBack, Attending, SeatOf
  <2>4. ControlInv'
    BY <1>10 DEF CascadeAttendees, Unlock, Answer, ReadBack, Attending, SeatOf
  <2>5. ShowingLockInv'
    <3>1. \A s \in Showing : showingLock'[s] # NoLock =>
            showingLock'[s] = showingLock[s] /\ showingLock[s].by # p
      BY <1>10 DEF CascadeAttendees, Unlock
    <3>2. Holds(p, showingLock[req[p].showing])
      BY <1>10 DEF CascadeAttendees
    <3>3. /\ \E a \in Answered : Answer(p, a)
          /\ \A s \in Showing \ {req[p].showing} : showings'[s] = showings[s]
      BY <1>10 DEF CascadeAttendees, ReadBack
    <3>4. \A q \in Request \ {p} : pc'[q] = pc[q] /\ req'[q] = req[q]
      BY <3>3 DEF Answer
    <3>5. \A s \in Showing : showingLock'[s] # NoLock => s # req[p].showing
      BY <3>1, <3>2 DEF Holds
    <3>6. QED
      BY <3>1, <3>3, <3>4, <3>5, OthersKeepLocks
  <2>6. AttendeeLockInv'
    BY <1>10 DEF CascadeAttendees, Unlock, Answer, ReadBack, Attending, SeatOf
  <2>7. QED
    BY <2>1, <2>2, <2>3, <2>4, <2>5, <2>6
<1>11. ASSUME NEW p \in Request, MarkRead(p) PROVE SafetyParts'
  <2>1. NoOrphans'
    BY <1>11 DEF MarkRead, At, Goto, Answer
  <2>2. FreshIds'
    <3>1. CASE Answer(p, "error") /\ UNCHANGED <<showings, unused>>
      BY <3>1 DEF Answer
    <3>2. CASE /\ pc[p] \notin Answered /\ Goto(p, "MarkGCAttendeesAsHavingPaid")
               /\ UNCHANGED <<showings, unused>>
      BY <3>2 DEF Goto
    <3>3. QED
      BY <1>11, <3>1, <3>2 DEF MarkRead, At
  <2>3. UnusedIds'
    BY <1>11 DEF MarkRead, At, Goto, Answer
  <2>4. ControlInv'
    BY <1>11 DEF MarkRead, At, Goto, Answer
  <2>5. ShowingLockInv'
    <3>1. \A s \in Showing : showingLock[s] # NoLock => showingLock[s].by # p
      <4>1. pc[p] \in {"DeleteAttendee", "ShowingTicketsBought"}
        BY <1>11 DEF MarkRead, At
      <4>2. QED
        BY <4>1, NoLocksBy
    <3>2. QED
      BY <1>11, <3>1, OthersKeepLocks DEF MarkRead, Goto, Answer
  <2>6. AttendeeLockInv'
    BY <1>11 DEF MarkRead, At, Goto, Answer
  <2>7. QED
    BY <2>1, <2>2, <2>3, <2>4, <2>5, <2>6
<1>12. ASSUME NEW p \in Request, MarkGCAttendeesAsHavingPaid(p) PROVE SafetyParts'
  BY <1>12, MarkGCAttendeesSafe
<1>13. ASSUME NEW p \in Request, UpdateAmountOwedForSwishAttendees(p) PROVE SafetyParts'
  BY <1>13, UpdateAmountOwedSafe
<1>14. ASSUME NEW p \in Request, MarkShowingAsBought(p) PROVE SafetyParts'
  <2>1. NoOrphans'
    BY <1>14 DEF MarkShowingAsBought, Administers, Goto, OwnShowing
  <2>2. FreshIds'
    BY <1>14 DEF MarkShowingAsBought, Administers, Goto, OwnShowing
  <2>3. UnusedIds'
    BY <1>14 DEF MarkShowingAsBought, Administers, Goto, OwnShowing
  <2>4. ControlInv'
    <3>1. req[p].op = "markAsBought" /\ req' = req /\ pc' = [pc EXCEPT ![p] = "Commit"]
      BY <1>14 DEF MarkShowingAsBought, Goto
    <3>2. \A q \in Request \ {p}, s \in Showing :
            Holds(q, showingLock[s]) => showingLock'[s] = showingLock[s]
      BY <1>14 DEF MarkShowingAsBought, Holds
    <3>3. \A q \in Request : pc[q] \notin Answered => req[q].showing \in Showing
      BY RequestRows
    <3>4. QED
      BY <3>1, <3>2, <3>3 DEF Holds
  <2>5. ShowingLockInv'
    <3>1. CASE Administers(p) /\ ~OwnShowing(p).bought
      <4>1. /\ req[p].op = "markAsBought"
            /\ req[p].showing \in Showing
            /\ showings[req[p].showing] # Absent
        BY <1>14, <3>1, RequestRows DEF MarkShowingAsBought, Administers, OwnShowing
      <4>2. showingLock'[req[p].showing].row # Absent /\ showingLock'[req[p].showing].by = p
        BY <1>14, <3>1, MarkShowingLocks
      <4>3. \A s \in Showing \ {req[p].showing} : showingLock'[s] = showingLock[s]
        BY <1>14, <3>1 DEF MarkShowingAsBought
      <4>4. QED
        BY <1>14, <4>1, <4>2, <4>3 DEF MarkShowingAsBought, Goto
    <3>2. CASE ~(Administers(p) /\ ~OwnShowing(p).bought)
      <4>1. \A s \in Showing : showingLock[s] # NoLock => showingLock[s].by # p
        BY <1>14 DEF MarkShowingAsBought
      <4>2. QED
        BY <1>14, <3>2, <4>1, OthersKeepLocks DEF MarkShowingAsBought, Goto
    <3>3. QED
      BY <3>1, <3>2
  <2>6. AttendeeLockInv'
    BY <1>14 DEF MarkShowingAsBought, Administers, Goto, OwnShowing
  <2>7. QED
    BY <2>1, <2>2, <2>3, <2>4, <2>5, <2>6
<1>15. ASSUME NEW p \in Request, UpdateShowing(p) PROVE SafetyParts'
  BY <1>15, UpdateShowingSafe
<1>16. ASSUME NEW p \in Request, PromoteToAdmin(p) PROVE SafetyParts'
  BY <1>16, PromoteToAdminSafe
<1>17. ASSUME NEW p \in Request, UpdateAttendeePayment(p) PROVE SafetyParts'
  BY <1>17, UpdateAttendeePaymentSafe
<1>18. ASSUME NEW p \in Request, Commit(p) PROVE SafetyParts'
  <2>1. NoOrphans'
    BY <1>18 DEF Commit, Publish, Unlock, ReadBack, Answer
  <2>2. FreshIds'
    BY <1>18 DEF Commit, Publish, Unlock, ReadBack, Answer
  <2>3. UnusedIds'
    BY <1>18 DEF Commit, Publish, Unlock, ReadBack, Answer
  <2>4. ControlInv'
    BY <1>18 DEF Commit, Publish, Unlock, ReadBack, Answer
  <2>5. ShowingLockInv'
    BY <1>18 DEF Commit, Publish, Unlock, ReadBack, Answer
  <2>6. AttendeeLockInv'
    BY <1>18 DEF Commit, Publish, Unlock, ReadBack, Answer
  <2>7. QED
    BY <2>1, <2>2, <2>3, <2>4, <2>5, <2>6
<1>19. ASSUME NEW p \in Request, Fail(p) PROVE SafetyParts'
  <2>1. NoOrphans'
    BY <1>19 DEF Fail, Unlock, Answer
  <2>2. FreshIds'
    BY <1>19 DEF Fail, Unlock, Answer
  <2>3. UnusedIds'
    BY <1>19 DEF Fail, Unlock, Answer
  <2>4. ControlInv'
    BY <1>19 DEF Fail, Unlock, Answer
  <2>5. ShowingLockInv'
    BY <1>19 DEF Fail, Unlock, Answer
  <2>6. AttendeeLockInv'
    BY <1>19 DEF Fail, Unlock, Answer
  <2>7. QED
    BY <2>1, <2>2, <2>3, <2>4, <2>5, <2>6
<1>20. ASSUME NEW p \in Request, DeadlockVictim(p) PROVE SafetyParts'
  <2>1. NoOrphans'
    BY <1>20 DEF DeadlockVictim, Unlock, Answer
  <2>2. FreshIds'
    BY <1>20 DEF DeadlockVictim, Unlock, Answer
  <2>3. UnusedIds'
    BY <1>20 DEF DeadlockVictim, Unlock, Answer
  <2>4. ControlInv'
    BY <1>20 DEF DeadlockVictim, Unlock, Answer
  <2>5. ShowingLockInv'
    BY <1>20 DEF DeadlockVictim, Unlock, Answer
  <2>6. AttendeeLockInv'
    BY <1>20 DEF DeadlockVictim, Unlock, Answer
  <2>7. QED
    BY <2>1, <2>2, <2>3, <2>4, <2>5, <2>6
<1>21. CASE UNCHANGED vars
  BY <1>21 DEF vars
<1>22. QED
  BY <1>1, <1>2, <1>3, <1>4, <1>5, <1>6, <1>7, <1>8, <1>9, <1>10, <1>11, <1>12, <1>13, <1>14, <1>15, <1>16, <1>17, <1>18, <1>19, <1>20, <1>21 DEF Next, Step

\* A screen is locked only by the creation that inserted it, until its end.
LEMMA ScreenLockNext ==
  ASSUME TypeOK, ControlInv, ScreenLockInv, [Next]_vars
  PROVE  ScreenLockInv'
<1> SUFFICES ASSUME NEW c \in Screen, screenLock'[c] # NoLock
             PROVE  LET q == screenLock'[c].by IN
                    /\ c \notin screens'
                    /\ pc'[q] \in {"AddShowing", "AddAttendee", "Commit"}
                    /\ req'[q].op = "create" /\ req'[q].screen = c
  BY DEF ScreenLockInv
<1> USE DEF TypeOK, TableTypes, RequestTypes
<1> DEFINE Others(p) == \A q \in Request \ {p} : pc'[q] = pc[q] /\ req'[q] = req[q]
<1>1. CASE UNCHANGED vars
  BY <1>1 DEF vars, ScreenLockInv
<1>2. \A b : screenLock[b] # NoLock /\ b \in Screen => screenLock[b].by \in Request
  BY DEF Lock
<1>3. ASSUME NEW p \in Request, Others(p), c \notin screens' \/ screens' = screens,
             screenLock'[c] = screenLock[c], screenLock[c].by # p
      PROVE  /\ c \notin screens'
             /\ pc'[screenLock'[c].by] \in {"AddShowing", "AddAttendee", "Commit"}
             /\ req'[screenLock'[c].by].op = "create" /\ req'[screenLock'[c].by].screen = c
  BY <1>2, <1>3 DEF ScreenLockInv
<1>4. ASSUME NEW p \in Request, CreateAddScreen(p)
      PROVE  /\ c \notin screens'
             /\ pc'[screenLock'[c].by] \in {"AddShowing", "AddAttendee", "Commit"}
             /\ req'[screenLock'[c].by].op = "create" /\ req'[screenLock'[c].by].screen = c
  <2>1. /\ pc[p] = "AddCinemaScreen" /\ req[p].op = "create" /\ ScreenFree(p)
        /\ UNCHANGED <<screens, req>> /\ pc' = [pc EXCEPT ![p] = "AddShowing"]
    BY <1>4 DEF CreateAddScreen, At, Goto, tables
  <2>2. CASE screenLock'[c] = screenLock[c]
    <3>1. screenLock[c].by # p
      BY <2>1, <2>2 DEF ScreenLockInv
    <3>2. QED
      BY <1>3, <2>1, <2>2, <3>1
  <2>3. CASE screenLock'[c] # screenLock[c]
    <3>1. c = req[p].screen /\ c \notin screens
      BY <1>4, <2>3 DEF CreateAddScreen
    <3>2. screenLock'[c] = [by |-> p, row |-> c]
      BY <1>4, <3>1 DEF CreateAddScreen
    <3>3. QED
      BY <2>1, <3>1, <3>2
  <2>4. QED
    BY <2>2, <2>3
<1>5. ASSUME NEW p \in Request, UpdateAddScreen(p)
      PROVE  /\ c \notin screens'
             /\ pc'[screenLock'[c].by] \in {"AddShowing", "AddAttendee", "Commit"}
             /\ req'[screenLock'[c].by].op = "create" /\ req'[screenLock'[c].by].screen = c
  <2>1. /\ pc[p] = "AddCinemaScreen" /\ ScreenFree(p)
        /\ screens' = screens \cup {req[p].screen}
        /\ UNCHANGED <<screenLock, req>> /\ pc' = [pc EXCEPT ![p] = "UpdateShowing"]
    BY <1>5 DEF UpdateAddScreen, At, Goto, locks
  <2>2. c # req[p].screen /\ c \notin screens
    BY <2>1 DEF ScreenFree, ScreenLockInv
  <2>3. screenLock[c].by # p
    BY <2>1 DEF ScreenLockInv
  <2>4. QED
    BY <1>3, <2>1, <2>2, <2>3
<1>6. ASSUME NEW p \in Request, CreateInsert(p) \/ CreateAttend(p)
      PROVE  /\ c \notin screens'
             /\ pc'[screenLock'[c].by] \in {"AddShowing", "AddAttendee", "Commit"}
             /\ req'[screenLock'[c].by].op = "create" /\ req'[screenLock'[c].by].screen = c
  <2>1. /\ UNCHANGED <<screens, screenLock, req>>
        /\ pc' = [pc EXCEPT ![p] = "AddAttendee"] \/ pc' = [pc EXCEPT ![p] = "Commit"]
    BY <1>6 DEF CreateInsert, CreateAttend, Goto, tables
  <2>2. QED
    BY <1>2, <2>1 DEF ScreenLockInv
<1>7. ASSUME NEW p \in Request, Unlock(p), \E a \in Answered : Answer(p, a),
             screens' = screens \/ Publish(p)
      PROVE  /\ c \notin screens'
             /\ pc'[screenLock'[c].by] \in {"AddShowing", "AddAttendee", "Commit"}
             /\ req'[screenLock'[c].by].op = "create" /\ req'[screenLock'[c].by].screen = c
  <2>1. screenLock'[c] = screenLock[c] /\ screenLock[c].by # p
    BY <1>7 DEF Unlock, Holds
  <2>2. c \notin screens'
    BY <1>7, <2>1 DEF Publish, Holds, ScreenLockInv
  <2>3. Others(p)
    BY <1>7 DEF Answer
  <2>4. QED
    BY <1>3, <2>1, <2>2, <2>3
<1>8. ASSUME NEW p \in Request, UNCHANGED <<screens, screenLock>>, Others(p),
             pc[p] \notin {"AddShowing", "AddAttendee", "Commit"} \/ req[p].op # "create"
      PROVE  /\ c \notin screens'
             /\ pc'[screenLock'[c].by] \in {"AddShowing", "AddAttendee", "Commit"}
             /\ req'[screenLock'[c].by].op = "create" /\ req'[screenLock'[c].by].screen = c
  BY <1>3, <1>8 DEF ScreenLockInv
<1>9. ASSUME NEW p \in Request,
             Arrive(p) \/ ArriveCreate(p) \/ LookupMovieTitle(p) \/ VerifyShowingAdmin(p)
      PROVE  /\ c \notin screens'
             /\ pc'[screenLock'[c].by] \in {"AddShowing", "AddAttendee", "Commit"}
             /\ req'[screenLock'[c].by].op = "create" /\ req'[screenLock'[c].by].screen = c
  <2>1. UNCHANGED <<screens, screenLock>> /\ Others(p)
    BY <1>9, Arrivals DEF Start, LookupMovieTitle, VerifyShowingAdmin, Goto, Answer, tables, locks
  <2>2. pc[p] \notin {"AddShowing", "AddAttendee", "Commit"}
    BY <1>9 DEF Arrive, ArriveCreate, LookupMovieTitle, VerifyShowingAdmin, Answered
  <2>3. QED
    BY <1>8, <2>1, <2>2
<1>10. ASSUME NEW p \in Request,
              AttendRead(p) \/ AttendInsert(p) \/ UnattendShowing(p) \/ UpdateAttendeePayment(p)
              \/ UpdateShowing(p) \/ PromoteToAdmin(p)
      PROVE  /\ c \notin screens'
             /\ pc'[screenLock'[c].by] \in {"AddShowing", "AddAttendee", "Commit"}
             /\ req'[screenLock'[c].by].op = "create" /\ req'[screenLock'[c].by].screen = c
  <2>1. UNCHANGED <<screens, screenLock>> /\ Others(p)
    BY <1>10 DEF AttendRead, AttendInsert, UnattendShowing, UpdateAttendeePayment, UpdateShowing,
                 PromoteToAdmin, Answer, ReadBack, tables, locks
  <2>2. pc[p] \notin {"AddShowing", "AddAttendee", "Commit"} \/ req[p].op # "create"
    BY <1>10 DEF AttendRead, AttendInsert, UnattendShowing, UpdateAttendeePayment, UpdateShowing,
                 PromoteToAdmin, At
  <2>3. QED
    BY <1>8, <2>1, <2>2
<1>11. ASSUME NEW p \in Request,
              DeleteShowing(p) \/ MarkRead(p) \/ MarkGCAttendeesAsHavingPaid(p)
              \/ UpdateAmountOwedForSwishAttendees(p) \/ MarkShowingAsBought(p)
      PROVE  /\ c \notin screens'
             /\ pc'[screenLock'[c].by] \in {"AddShowing", "AddAttendee", "Commit"}
             /\ req'[screenLock'[c].by].op = "create" /\ req'[screenLock'[c].by].screen = c
  <2>1. UNCHANGED <<screens, screenLock>> /\ Others(p)
    BY <1>11 DEF DeleteShowing, MarkRead, MarkGCAttendeesAsHavingPaid,
                 UpdateAmountOwedForSwishAttendees, MarkShowingAsBought, Goto, Answer, tables, locks
  <2>2. pc[p] \notin {"AddShowing", "AddAttendee", "Commit"}
    BY <1>11 DEF DeleteShowing, MarkRead, MarkGCAttendeesAsHavingPaid,
                 UpdateAmountOwedForSwishAttendees, MarkShowingAsBought, At
  <2>3. QED
    BY <1>8, <2>1, <2>2
<1>12. ASSUME NEW p \in Request,
              CascadeAttendees(p) \/ Commit(p) \/ Fail(p) \/ DeadlockVictim(p)
      PROVE  /\ c \notin screens'
             /\ pc'[screenLock'[c].by] \in {"AddShowing", "AddAttendee", "Commit"}
             /\ req'[screenLock'[c].by].op = "create" /\ req'[screenLock'[c].by].screen = c
  BY <1>7, <1>12 DEF CascadeAttendees, Commit, Fail, DeadlockVictim, ReadBack, Answered, tables
<1>13. QED
  BY <1>1, <1>4, <1>5, <1>6, <1>9, <1>10, <1>11, <1>12 DEF Next, Step

\* IInv holds in every reachable state.
THEOREM Inductive == Spec => []IInv
<1>1. Init => IInv
  BY TypeInit, SafetyInit DEF Init, ScreenLockInv, IInv, SafetyParts
<1>2. IInv /\ [Next]_vars => IInv'
  <2> SUFFICES ASSUME IInv, [Next]_vars PROVE IInv'
    OBVIOUS
  <2>1. TypeOK /\ SafetyParts /\ ControlInv /\ ScreenLockInv
    BY DEF IInv, SafetyParts
  <2>2. TypeOK'
    BY <2>1, TypeNext
  <2>3. SafetyParts'
    BY <2>1, SafetyNext
  <2>4. ScreenLockInv'
    BY <2>1, ScreenLockNext
  <2>5. QED
    BY <2>2, <2>3, <2>4 DEF IInv, SafetyParts
<1>3. QED
  BY <1>1, <1>2, PTL DEF Spec

\* Every variable of Showings keeps its type, for any constants.
THEOREM TypeCorrect == Spec => []TypeOK
<1>1. IInv => TypeOK
  BY DEF IInv
<1>2. QED
  BY <1>1, Inductive, PTL

\* No attendee outlives its showing.
THEOREM NoAttendeeOrphaned == Spec => []NoOrphans
<1>1. IInv => NoOrphans
  BY DEF IInv
<1>2. QED
  BY <1>1, Inductive, PTL

\* Whoever waits for a row waits for one that goes on: whoever has locked it
\* is at work (IInv), and Postgres breaks the circles.
THEOREM NobodyIsStuck == Spec => []NobodyStuck
<1>1. ASSUME IInv PROVE NobodyStuck
  <2> SUFFICES ASSUME NEW S \in SUBSET Request, Alone(Waits, S),
                      NEW p \in S, pc[p] \notin Answered,
                      \A q \in S : ~CanGoOn(q)
               PROVE  FALSE
    BY DEF NobodyStuck
  <2> DEFINE W == {q \in S : pc[q] \notin Answered}
  <2>1. Depend(Waits, W)
    <3> SUFFICES ASSUME NEW q \in W PROVE \E r \in W : <<q, r>> \in Waits
      BY DEF Depend
    <3>1. PICK r \in Request : WaitsFor(q, r)
      BY DEF CanGoOn, Waiting
    <3>2. <<q, r>> \in Waits /\ r \in S
      BY <3>1 DEF Waits, Alone, WaitedFor
    <3>3. req[q].showing \in Showing /\ WantsAttendees(q) \subseteq User
      <4>1. req[q] \in Arguments
        BY <1>1 DEF IInv, TypeOK, RequestTypes
      <4> QED
        BY <4>1 DEF Arguments, WantsAttendees, Attending, GCAttendees, SwishAttendees
    <3>4. pc[q] = "AddCinemaScreen" => req[q].screen \in Screen
      BY <1>1, RequestRows DEF IInv, ControlInv
    <3>5. pc[r] \notin Answered
      <4>1. ASSUME NEW s \in Showing, Holds(r, showingLock[s]) PROVE pc[r] \notin Answered
        BY <1>1, <4>1 DEF IInv, ShowingLockInv, Holds, Answered
      <4>2. ASSUME NEW k \in Seat, Holds(r, attendeeLock[k]) PROVE pc[r] \notin Answered
        BY <1>1, <4>2 DEF IInv, AttendeeLockInv, Holds, Answered
      <4>3. ASSUME NEW c \in Screen, Holds(r, screenLock[c]) PROVE pc[r] \notin Answered
        BY <1>1, <4>3 DEF IInv, ScreenLockInv, Holds, Answered
      <4>4. \A u \in WantsAttendees(q) : SeatOf(q, u) \in Seat
        BY <3>3 DEF SeatOf, Seat
      <4> QED
        BY <3>1, <3>3, <3>4, <4>1, <4>2, <4>3, <4>4 DEF WaitsFor
    <3> QED
      BY <3>2, <3>5
  <2>2. IsFiniteSet(W) /\ W # {}
    BY ShowingsAssumption, FS_Subset
  <2>3. PICK q \in W : InCircle(Waits, q)
    <3> HIDE DEF W
    <3> QED
      BY <2>1, <2>2, CircleExists
  <2> QED
    BY <2>3 DEF CanGoOn, Waiting
<1>2. QED
  BY <1>1, Inductive, PTL

-----------------------------------------------------------------------------
(***************************************************************************)
(* A bought showing.  PurchaseInv says what MarkAsBought is about to       *)
(* publish; the row it has locked cannot change under it.                  *)
(***************************************************************************)

\* A step that gives no lock to a MarkAsBought, and leaves alone the showings
\* such requests have locked, keeps PurchaseInv.
LEMMA PurchaseKept ==
  ASSUME TypeOK, PurchaseInv,
         \A s \in Showing : showingLock'[s] # NoLock =>
             \/ req'[showingLock'[s].by].op # "markAsBought"
             \/ /\ showingLock'[s] = showingLock[s]
                /\ req'[showingLock[s].by] = req[showingLock[s].by]
                /\ showings'[s] = showings[s]
  PROVE  PurchaseInv'
  BY DEF PurchaseInv

\* A step that changes the arguments of p only, while p has no lock.
LEMMA PurchaseKeptByMove ==
  ASSUME TypeOK, PurchaseInv, NEW p \in Request,
         \A q \in Request \ {p} : req'[q] = req[q],
         \A s \in Showing : showingLock'[s] # NoLock =>
             /\ showingLock'[s] = showingLock[s]
             /\ showingLock[s].by # p
             /\ showings'[s] = showings[s]
  PROVE  PurchaseInv'
<1>1. \A s \in Showing : showingLock[s] # NoLock => showingLock[s].by \in Request
  BY DEF TypeOK, TableTypes, Lock
<1>2. \A s \in Showing : showingLock'[s] # NoLock => req'[showingLock[s].by] = req[showingLock[s].by]
  BY <1>1
<1>3. QED
  BY <1>2, PurchaseKept

LEMMA PurchaseNext ==
  ASSUME IInv, PurchaseInv, [Next]_vars
  PROVE  PurchaseInv'
<1>1. TypeOK /\ SafetyParts
  BY DEF IInv, SafetyParts
<1> DEFINE Unlocked(p) == \A s \in Showing : ~Holds(p, showingLock[s])
           Frame(p) == \A q \in Request \ {p} : req'[q] = req[q]
<1>2. ASSUME NEW p \in Request, Unlocked(p), Frame(p), UNCHANGED <<showings, showingLock>>
      PROVE  PurchaseInv'
  BY <1>1, <1>2, PurchaseKeptByMove DEF Holds
<1>3. ASSUME NEW p \in Request, UNCHANGED <<showings, showingLock, req>>
      PROVE  PurchaseInv'
  BY <1>1, <1>3, PurchaseKept
<1>4. ASSUME NEW p \in Request, Frame(p), Unlock(p),
             \A s \in Showing : showings'[s] # showings[s] => Holds(p, showingLock[s])
      PROVE  PurchaseInv'
  BY <1>1, <1>4, PurchaseKeptByMove DEF Unlock, Holds
<1>5. ASSUME NEW p \in Request, Arrive(p) \/ ArriveCreate(p) PROVE PurchaseInv'
  <2>1. Frame(p) /\ UNCHANGED <<showings, showingLock>>
    BY <1>1, <1>5, Arrivals DEF Start, TypeOK, RequestTypes
  <2>2. Unlocked(p)
    BY <1>1, <1>5, NoLocksHeld DEF Arrive, ArriveCreate, Answered
  <2>3. QED
    BY <1>2, <2>1, <2>2
<1>6. ASSUME NEW p \in Request,
             VerifyShowingAdmin(p) \/ AttendRead(p) \/ UnattendShowing(p) \/ MarkRead(p)
      PROVE  PurchaseInv'
  <2>1. Frame(p) /\ UNCHANGED <<showings, showingLock>>
    BY <1>1, <1>6 DEF VerifyShowingAdmin, AttendRead, UnattendShowing, MarkRead, Goto, Answer,
                ReadBack, tables, locks, TypeOK, RequestTypes
  <2>2. Unlocked(p)
    BY <1>1, <1>6, NoLocksHeld DEF VerifyShowingAdmin, AttendRead, UnattendShowing, MarkRead, At
  <2>3. QED
    BY <1>2, <2>1, <2>2
<1>7. ASSUME NEW p \in Request, AttendInsert(p) PROVE PurchaseInv'
  <2>1. Frame(p) /\ UNCHANGED <<showings, showingLock>>
    BY <1>1, <1>7 DEF AttendInsert, Answer, ReadBack, locks, TypeOK, RequestTypes
  <2>2. Unlocked(p)
    BY <1>1, <1>7 DEF AttendInsert, At, SafetyParts, ShowingLockInv, Holds, BeingDeleted
  <2>3. QED
    BY <1>2, <2>1, <2>2
<1>8. ASSUME NEW p \in Request, CreateInsert(p) PROVE PurchaseInv'
  <2>1. req[p].op = "create" /\ UNCHANGED <<showings, req>>
    BY <1>1, <1>8 DEF CreateInsert, Goto, tables, SafetyParts, ControlInv, Answered
  <2>2. QED
    BY <1>1, <1>8, <2>1, CreateInsertLocks, PurchaseKept
<1>9. ASSUME NEW p \in Request,
             LookupMovieTitle(p) \/ CreateAddScreen(p) \/ UpdateAddScreen(p)
             \/ CreateAttend(p) \/ MarkGCAttendeesAsHavingPaid(p) \/ UpdateAmountOwedForSwishAttendees(p)
      PROVE  PurchaseInv'
  BY <1>3, <1>9 DEF LookupMovieTitle, CreateAddScreen, UpdateAddScreen, CreateAttend,
                    MarkGCAttendeesAsHavingPaid, UpdateAmountOwedForSwishAttendees, Goto, tables, locks
<1>10. ASSUME NEW p \in Request, DeleteShowing(p) PROVE PurchaseInv'
  <2>1. CASE OwnShowing(p) = Absent
    <3>1. Frame(p) /\ UNCHANGED <<showings, showingLock>>
      BY <1>1, <1>10, <2>1 DEF DeleteShowing, Answer, tables, TypeOK, RequestTypes
    <3>2. Unlocked(p)
      BY <1>1, <1>10, NoLocksHeld DEF DeleteShowing
    <3>3. QED
      BY <1>2, <3>1, <3>2
  <2>2. CASE OwnShowing(p) # Absent
    <3>1. req[p].op = "delete" /\ UNCHANGED <<showings, req>>
      BY <1>1, <1>10, <2>2 DEF DeleteShowing, Goto, tables, SafetyParts, ControlInv, Answered
    <3>2. \A s \in Showing : showingLock'[s] = showingLock[s] \/ showingLock'[s].by = p
      BY <1>1, <1>10, <2>2 DEF DeleteShowing, TypeOK, TableTypes
    <3>3. QED
      BY <1>1, <3>1, <3>2, PurchaseKept
  <2>3. QED
    BY <2>1, <2>2
<1>11. ASSUME NEW p \in Request, CascadeAttendees(p) PROVE PurchaseInv'
  <2>1. Frame(p) /\ Unlock(p)
    BY <1>11 DEF CascadeAttendees, Answer, ReadBack
  <2>2. Holds(p, showingLock[req[p].showing])
    BY <1>1, <1>11 DEF CascadeAttendees, SafetyParts, ControlInv, Answered
  <2>3. \A s \in Showing : showings'[s] # showings[s] => Holds(p, showingLock[s])
    BY <1>1, <1>11, <2>2 DEF CascadeAttendees, TypeOK, TableTypes
  <2>4. QED
    BY <1>4, <2>1, <2>3
<1>12. ASSUME NEW p \in Request, MarkShowingAsBought(p) PROVE PurchaseInv'
  <2>1. UNCHANGED <<showings, req>>
    BY <1>12 DEF MarkShowingAsBought, Goto, tables
  <2>2. CASE Administers(p) /\ ~OwnShowing(p).bought
    <3>1. pc[p] \notin Answered
      BY <1>12 DEF MarkShowingAsBought, Answered
    <3>2. OwnShowing(p) \in ShowingRow /\ req[p].showing \in Showing /\ req[p].user = OwnShowing(p).admin
      BY <1>1, <2>2, <3>1, RequestRows DEF Administers
    <3>3. showingLock' = [showingLock EXCEPT ![req[p].showing] =
              [by |-> p, row |-> [OwnShowing(p) EXCEPT !.bought = TRUE, !.price = req[p].price]]]
      BY <1>12, <2>2 DEF MarkShowingAsBought
    <3>4. LET row == [OwnShowing(p) EXCEPT !.bought = TRUE, !.price = req[p].price]
          IN  row.bought /\ row.admin = OwnShowing(p).admin
      BY <3>2 DEF ShowingRow
    <3>5. QED
      BY <1>1, <2>1, <3>2, <3>3, <3>4 DEF PurchaseInv, OwnShowing, TypeOK, TableTypes
  <2>3. CASE ~(Administers(p) /\ ~OwnShowing(p).bought)
    BY <1>3, <1>12, <2>1, <2>3 DEF MarkShowingAsBought
  <2>4. QED
    BY <2>2, <2>3
<1>13. ASSUME NEW p \in Request, UpdateShowing(p) \/ PromoteToAdmin(p) PROVE PurchaseInv'
  <2>1. Frame(p) /\ UNCHANGED showingLock
    BY <1>1, <1>13 DEF UpdateShowing, PromoteToAdmin, Answer, ReadBack, locks, TypeOK, RequestTypes
  <2>2. Unlocked(p)
    BY <1>1, <1>13, NoLocksHeld DEF UpdateShowing, PromoteToAdmin
  <2>3. \A s \in Showing : showingLock[s] # NoLock => showings'[s] = showings[s]
    BY <1>1, <1>13 DEF UpdateShowing, PromoteToAdmin, TypeOK, TableTypes
  <2>4. QED
    BY <1>1, <2>1, <2>2, <2>3, PurchaseKeptByMove DEF Holds
<1>14. ASSUME NEW p \in Request, UpdateAttendeePayment(p) PROVE PurchaseInv'
  <2>1. Frame(p) /\ UNCHANGED <<showings, showingLock>>
    BY <1>1, <1>14 DEF UpdateAttendeePayment, Answer, ReadBack, locks, TypeOK, RequestTypes
  <2>2. Unlocked(p)
    BY <1>1, <1>14, NoLocksHeld DEF UpdateAttendeePayment
  <2>3. QED
    BY <1>2, <2>1, <2>2
<1>15. ASSUME NEW p \in Request, Commit(p) \/ Fail(p) \/ DeadlockVictim(p) PROVE PurchaseInv'
  <2>1. Frame(p) /\ Unlock(p)
    BY <1>1, <1>15 DEF Commit, Fail, DeadlockVictim, Answer, ReadBack, TypeOK, RequestTypes
  <2>2. \A s \in Showing : showings'[s] # showings[s] => Holds(p, showingLock[s])
    BY <1>15 DEF Commit, Publish, Fail, DeadlockVictim, tables
  <2>3. QED
    BY <1>4, <2>1, <2>2
<1>16. CASE UNCHANGED vars
  BY <1>16 DEF vars, PurchaseInv
<1>17. QED
  BY <1>5, <1>6, <1>7, <1>8, <1>9, <1>10, <1>11, <1>12, <1>13, <1>14, <1>15, <1>16 DEF Next, Step

\* How a step changes a showing that is there and stays there: the admin
\* amends it, hands it over, or publishes a purchase.
LEMMA ShowingChanges ==
  ASSUME IInv, PurchaseInv, [Next]_vars, NEW s \in Showing,
         showings[s] # Absent, showings'[s] # Absent, showings'[s] # showings[s]
  PROVE  \E p \in Request :
           /\ pc'[p] # pc[p]
           /\ req[p].showing = s
           /\ req[p].user = showings[s].admin
           /\ showings[s].bought => showings'[s].bought /\ showings'[s].admin = showings[s].admin
<1>1. TypeOK /\ SafetyParts
  BY DEF IInv, SafetyParts
<1>2. PICK p \in Request : Arrive(p) \/ ArriveCreate(p) \/ Step(p) \/ Fail(p)
  BY DEF Next, vars
<1>3. UpdateShowing(p) \/ PromoteToAdmin(p) \/ Commit(p)
  <2>1. ~CascadeAttendees(p)
    BY <1>1 DEF CascadeAttendees, TypeOK, TableTypes
  <2>2. QED
    BY <1>2, <2>1 DEF Step, Arrive, ArriveCreate, Fail, DeadlockVictim, VerifyShowingAdmin,
         AttendRead, AttendInsert, UnattendShowing, LookupMovieTitle, CreateAddScreen,
         UpdateAddScreen, CreateInsert, CreateAttend, DeleteShowing, MarkRead, MarkGCAttendeesAsHavingPaid, UpdateAmountOwedForSwishAttendees,
         MarkShowingAsBought, UpdateAttendeePayment, tables
<1>4. showings[s] \in ShowingRow
  BY <1>1 DEF TypeOK, TableTypes
<1>5. pc'[p] # pc[p]
  BY <1>1, <1>3 DEF UpdateShowing, PromoteToAdmin, Commit, ReadBack, Answer, TypeOK, RequestTypes
<1>6. CASE UpdateShowing(p)
  <2>1. Administers(p)
    BY <1>6 DEF UpdateShowing
  <2>2. PICK c \in Price, u \in User :
          showings' = [showings EXCEPT ![req[p].showing] =
                          [showings[req[p].showing] EXCEPT !.price = c, !.payTo = u]]
    BY <1>6, <2>1 DEF UpdateShowing
  <2>3. req[p].showing = s
    BY <1>1, <2>2 DEF TypeOK, TableTypes
  <2>4. showings'[s] = [showings[s] EXCEPT !.price = c, !.payTo = u]
    BY <1>1, <2>2, <2>3 DEF TypeOK, TableTypes
  <2>5. showings'[s].bought = showings[s].bought /\ showings'[s].admin = showings[s].admin
    BY <1>4, <2>4 DEF ShowingRow
  <2>6. QED
    BY <1>5, <2>1, <2>3, <2>5 DEF Administers, OwnShowing
<1>7. CASE PromoteToAdmin(p)
  <2>1. Administers(p) /\ ~OwnShowing(p).bought
    BY <1>7 DEF PromoteToAdmin
  <2>2. req[p].showing = s
    BY <1>1, <1>7, <2>1 DEF PromoteToAdmin, TypeOK, TableTypes
  <2>3. QED
    BY <1>5, <2>1, <2>2 DEF Administers, OwnShowing
<1>8. CASE Commit(p)
  <2>1. Holds(p, showingLock[s]) /\ showings'[s] = showingLock[s].row
    BY <1>8 DEF Commit, Publish
  <2>2. req[p].showing = s /\ req[p].op # "create"
    BY <1>1, <2>1 DEF SafetyParts, ShowingLockInv, Holds
  <2>3. req[p].op = "markAsBought"
    BY <1>1, <1>8, <2>2 DEF Commit, SafetyParts, ControlInv, Answered
  <2>4. QED
    BY <1>5, <2>1, <2>2, <2>3 DEF PurchaseInv, Holds
<1>9. QED
  BY <1>3, <1>6, <1>7, <1>8

\* What MarkAsBought is about to publish is what the row still allows.
THEOREM PurchaseHolds == Spec => [](IInv /\ PurchaseInv)
<1>1. Init => PurchaseInv
  BY DEF Init, PurchaseInv
<1>2. IInv /\ PurchaseInv /\ [Next]_vars => PurchaseInv'
  BY PurchaseNext
<1>3. QED
  BY <1>1, <1>2, Inductive, PTL DEF Spec

\* A bought showing stays bought, and its admin stays its admin.
THEOREM BoughtStaysBought == Spec => BoughtForGood
<1>1. IInv /\ PurchaseInv /\ [Next]_vars =>
        [\A s \in Showing :
           showings[s] # Absent /\ showings[s].bought /\ showings'[s] # Absent
           => showings'[s].bought /\ showings'[s].admin = showings[s].admin]_vars
  BY ShowingChanges
<1>2. QED
  BY <1>1, PurchaseHolds, PTL DEF Spec, BoughtForGood

-----------------------------------------------------------------------------
(***************************************************************************)
(* What a transaction is about to publish.  The rows it has locked are     *)
(* those it read when it locked them, so that each uncommitted version is  *)
(* one change away from the committed one.                                 *)
(***************************************************************************)
Planned(u) == [admin |-> u, payTo |-> u, price |-> 0, bought |-> FALSE]
Purchased(row, c) == [row EXCEPT !.bought = TRUE, !.price = c]
FirstAttendee == [paid |-> TRUE, owed |-> 0, cert |-> FALSE]
Settled(row) == [row EXCEPT !.paid = TRUE, !.owed = 0]
Owing(row, c) == [row EXCEPT !.owed = c]

ShowingVersions ==
    \A s \in Showing : showingLock[s] # NoLock =>
        LET p == showingLock[s].by IN
        /\ req[p].op = "create" => showingLock[s].row = Planned(req[p].user)
        /\ req[p].op = "markAsBought" =>
             /\ ~showings[s].bought
             /\ showingLock[s].row = Purchased(showings[s], req[p].price)

AttendeeVersions ==
    \A k \in Seat : attendeeLock[k] # NoLock =>
        LET p == attendeeLock[k].by IN
        /\ req[p].op = "create" =>
             k[2] = req[p].user /\ attendeeLock[k].row = FirstAttendee
        /\ req[p].op # "create" =>
             \/ attendeeLock[k].row = Settled(attendees[k])
             \/ /\ ~attendees[k].paid /\ ~attendees[k].cert
                /\ attendeeLock[k].row = Owing(attendees[k], req[p].price)

\* CreateShowing commits its admin together with the showing.
AdminAttends ==
    \A p \in Request :
        pc[p] = "Commit" /\ req[p].op = "create" =>
            Holds(p, attendeeLock[SeatOf(p, req[p].user)])

\* A deletion has no other queries than these.
DeletionQueries ==
    \A p \in Request :
        pc[p] \notin Answered /\ req[p].op = "delete" =>
            pc[p] \in {"AdminOnShowing", "DeleteShowing", "CascadeAttendees"}

BookInv == ShowingVersions /\ AttendeeVersions /\ AdminAttends /\ DeletionQueries

LEMMA BookInit == Init => BookInv
  BY ShowingsAssumption
  DEF Init, BookInv, ShowingVersions, AttendeeVersions, AdminAttends, DeletionQueries, Answered

\* A step that leaves p without locks, and leaves alone what the others have
\* locked, keeps BookInv.
LEMMA BookKeptByRelease ==
  ASSUME TypeOK, BookInv, NEW p \in Request,
         \A q \in Request \ {p} : pc'[q] = pc[q] /\ req'[q] = req[q],
         \A s \in Showing : showingLock'[s] # NoLock =>
             /\ showingLock'[s] = showingLock[s]
             /\ showingLock[s].by # p
             /\ showings'[s] = showings[s],
         \A k \in Seat : attendeeLock'[k] # NoLock =>
             /\ attendeeLock'[k] = attendeeLock[k]
             /\ attendeeLock[k].by # p
             /\ attendees'[k] = attendees[k],
         \A k \in Seat : attendeeLock[k] # NoLock /\ attendeeLock[k].by # p =>
             attendeeLock'[k] = attendeeLock[k],
         pc'[p] # "Commit",
         pc'[p] \notin Answered /\ req'[p].op = "delete" =>
             pc'[p] \in {"AdminOnShowing", "DeleteShowing", "CascadeAttendees"}
  PROVE  BookInv'
<1>1. ShowingVersions'
  <2> SUFFICES ASSUME NEW s \in Showing, showingLock'[s] # NoLock
               PROVE  LET q == showingLock'[s].by IN
                      /\ req'[q].op = "create" => showingLock'[s].row = Planned(req'[q].user)
                      /\ req'[q].op = "markAsBought" =>
                           /\ ~showings'[s].bought
                           /\ showingLock'[s].row = Purchased(showings'[s], req'[q].price)
    BY DEF ShowingVersions, Planned, Purchased
  <2>1. showingLock[s].by \in Request \ {p}
    BY DEF TypeOK, TableTypes, Lock
  <2>2. /\ showingLock'[s] = showingLock[s]
        /\ req'[showingLock[s].by] = req[showingLock[s].by]
        /\ showings'[s] = showings[s]
    BY <2>1
  <2>3. QED
    BY <2>2 DEF BookInv, ShowingVersions
<1>2. AttendeeVersions'
  <2> SUFFICES ASSUME NEW k \in Seat, attendeeLock'[k] # NoLock
               PROVE  LET q == attendeeLock'[k].by IN
                      /\ req'[q].op = "create" =>
                           k[2] = req'[q].user /\ attendeeLock'[k].row = FirstAttendee
                      /\ req'[q].op # "create" =>
                           \/ attendeeLock'[k].row = Settled(attendees'[k])
                           \/ /\ ~attendees'[k].paid /\ ~attendees'[k].cert
                              /\ attendeeLock'[k].row = Owing(attendees'[k], req'[q].price)
    BY DEF AttendeeVersions, Settled, Owing, FirstAttendee
  <2>1. attendeeLock[k].by \in Request \ {p}
    BY DEF TypeOK, TableTypes, Lock
  <2>2. /\ attendeeLock'[k] = attendeeLock[k]
        /\ req'[attendeeLock[k].by] = req[attendeeLock[k].by]
        /\ attendees'[k] = attendees[k]
    BY <2>1
  <2>3. QED
    BY <2>2 DEF BookInv, AttendeeVersions
<1>3. AdminAttends'
  <2> SUFFICES ASSUME NEW q \in Request, pc'[q] = "Commit", req'[q].op = "create"
               PROVE  Holds(q, attendeeLock'[<<req'[q].showing, req'[q].user>>])
    BY DEF AdminAttends, SeatOf
  <2>1. q # p /\ pc[q] = "Commit" /\ req[q].op = "create" /\ req'[q] = req[q]
    OBVIOUS
  <2>2. Holds(q, attendeeLock[SeatOf(q, req[q].user)])
    BY <2>1 DEF BookInv, AdminAttends
  <2>3. SeatOf(q, req[q].user) \in Seat
    BY <2>1, RequestRows DEF Answered
  <2>4. QED
    BY <2>1, <2>2, <2>3 DEF Holds, SeatOf
<1>4. DeletionQueries'
  <2> SUFFICES ASSUME NEW q \in Request, pc'[q] \notin Answered, req'[q].op = "delete"
               PROVE  pc'[q] \in {"AdminOnShowing", "DeleteShowing", "CascadeAttendees"}
    BY DEF DeletionQueries, Answered
  <2>1. CASE q = p
    BY <2>1
  <2>2. CASE q # p
    BY <2>2 DEF BookInv, DeletionQueries
  <2>3. QED
    BY <2>1, <2>2
<1>5. QED
  BY <1>1, <1>2, <1>3, <1>4 DEF BookInv

\* The same for a step that changes no lock, of a request that has none.
LEMMA BookKeptByMove ==
  ASSUME IInv, BookInv, NEW p \in Request,
         \A q \in Request \ {p} : pc'[q] = pc[q] /\ req'[q] = req[q],
         \A s \in Showing : ~Holds(p, showingLock[s]),
         \A k \in Seat : ~Holds(p, attendeeLock[k]),
         UNCHANGED <<showingLock, attendeeLock>>,
         \A s \in Showing : showingLock[s] # NoLock => showings'[s] = showings[s],
         \A k \in Seat : attendeeLock[k] # NoLock => attendees'[k] = attendees[k],
         pc'[p] # "Commit",
         pc'[p] \notin Answered /\ req'[p].op = "delete" =>
             pc'[p] \in {"AdminOnShowing", "DeleteShowing", "CascadeAttendees"}
  PROVE  BookInv'
  BY BookKeptByRelease DEF IInv, Holds

\* The same for the end of a transaction.
LEMMA BookKeptByUnlock ==
  ASSUME IInv, BookInv, NEW p \in Request, Unlock(p),
         \A q \in Request \ {p} : pc'[q] = pc[q] /\ req'[q] = req[q],
         \A s \in Showing : showingLock[s] # NoLock /\ showingLock[s].by # p =>
             showings'[s] = showings[s],
         \A k \in Seat : attendeeLock[k] # NoLock /\ attendeeLock[k].by # p =>
             attendees'[k] = attendees[k],
         pc'[p] \in Answered
  PROVE  BookInv'
<1>1. /\ \A s \in Showing : showingLock'[s] =
             IF Holds(p, showingLock[s]) THEN NoLock ELSE showingLock[s]
      /\ \A k \in Seat : attendeeLock'[k] =
             IF Holds(p, attendeeLock[k]) THEN NoLock ELSE attendeeLock[k]
  BY DEF Unlock
<1>2. pc'[p] # "Commit"
  BY DEF Answered
<1>3. QED
  BY <1>1, <1>2, BookKeptByRelease DEF IInv, Holds

\* A query inside a transaction, which sends p on to its next query.
LEMMA BookKeptByQuery ==
  ASSUME IInv, BookInv, NEW p \in Request, NEW query \in Query, Goto(p, query),
         pc[p] \notin Answered, UNCHANGED tables,
         ShowingVersions', AttendeeVersions',
         \A k \in Seat : attendeeLock[k] # NoLock /\ attendeeLock[k].by # p =>
             attendeeLock'[k] = attendeeLock[k],
         query = "Commit" /\ req[p].op = "create" =>
             Holds(p, attendeeLock'[SeatOf(p, req[p].user)]),
         req[p].op = "delete" => query = "CascadeAttendees"
  PROVE  BookInv'
<1>1. TypeOK
  BY DEF IInv
<1>2. AdminAttends'
  <2> SUFFICES ASSUME NEW q \in Request, pc'[q] = "Commit", req'[q].op = "create"
               PROVE  Holds(q, attendeeLock'[<<req'[q].showing, req'[q].user>>])
    BY DEF AdminAttends, SeatOf
  <2>1. req' = req
    BY DEF Goto
  <2>2. CASE q = p
    <3>1. query = "Commit"
      BY <1>1, <2>2 DEF Goto, TypeOK, RequestTypes
    <3>2. QED
      BY <2>1, <2>2, <3>1 DEF SeatOf
  <2>3. CASE q # p
    <3>1. pc[q] = "Commit"
      BY <1>1, <2>3 DEF Goto, TypeOK, RequestTypes
    <3>2. Holds(q, attendeeLock[SeatOf(q, req[q].user)])
      BY <2>1, <3>1 DEF BookInv, AdminAttends
    <3>3. SeatOf(q, req[q].user) \in Seat
      BY <1>1, <3>1, RequestRows DEF Answered
    <3>4. QED
      BY <2>1, <2>3, <3>2, <3>3 DEF Holds, SeatOf
  <2>4. QED
    BY <2>2, <2>3
<1>3. DeletionQueries'
  BY <1>1 DEF BookInv, DeletionQueries, Goto, TypeOK, RequestTypes, Answered
<1>4. QED
  BY <1>2, <1>3 DEF BookInv

\* The queries of transactions, one lemma each.
LEMMA CreateInsertBook ==
  ASSUME IInv, BookInv, NEW p \in Request, CreateInsert(p)
  PROVE  BookInv'
<1>1. /\ TypeOK /\ pc[p] \notin Answered /\ req[p].op = "create"
      /\ Goto(p, "AddAttendee") /\ UNCHANGED tables /\ UNCHANGED <<showings, attendees, attendeeLock, req>>
  BY DEF IInv, CreateInsert, ControlInv, Answered, tables, Goto
<1>2. req[p].showing \in Showing
  BY <1>1, RequestRows
<1>3. /\ showingLock'[req[p].showing].by = p
      /\ showingLock'[req[p].showing].row = Planned(req[p].user)
      /\ \A s \in Showing \ {req[p].showing} : showingLock'[s] = showingLock[s]
  BY <1>1, <1>2 DEF CreateInsert, Planned, TypeOK, TableTypes
<1>4. ShowingVersions'
  <2> SUFFICES ASSUME NEW s \in Showing, showingLock'[s] # NoLock
               PROVE  LET q == showingLock'[s].by IN
                      /\ req[q].op = "create" => showingLock'[s].row = Planned(req[q].user)
                      /\ req[q].op = "markAsBought" =>
                           /\ ~showings[s].bought
                           /\ showingLock'[s].row = Purchased(showings[s], req[q].price)
    BY <1>1 DEF ShowingVersions, Planned, Purchased
  <2>1. CASE s = req[p].showing
    BY <1>1, <1>3, <2>1
  <2>2. CASE s # req[p].showing
    BY <1>3, <2>2 DEF BookInv, ShowingVersions
  <2>3. QED
    BY <2>1, <2>2
<1>5. AttendeeVersions'
  BY <1>1 DEF BookInv, AttendeeVersions, Settled, Owing, FirstAttendee
<1>6. QED
  BY <1>1, <1>4, <1>5, BookKeptByQuery DEF Query

LEMMA CreateAttendBook ==
  ASSUME IInv, BookInv, NEW p \in Request, CreateAttend(p)
  PROVE  BookInv'
<1>1. /\ TypeOK /\ pc[p] \notin Answered /\ req[p].op = "create"
      /\ Goto(p, "Commit") /\ UNCHANGED tables /\ UNCHANGED <<showings, attendees, showingLock, req>>
  BY DEF IInv, CreateAttend, At, Answered, tables, Goto
<1>2. req[p].showing \in Showing /\ req[p].user \in User
  BY <1>1, RequestRows
<1> DEFINE k0 == SeatOf(p, req[p].user)
           lock0 == [by |-> p, row |-> FirstAttendee]
<1>3. /\ k0 \in Seat /\ k0[2] = req[p].user
      /\ attendeeLock'[k0] = lock0
      /\ \A k \in Seat \ {k0} : attendeeLock'[k] = attendeeLock[k]
  BY <1>1, <1>2 DEF CreateAttend, FirstAttendee, SeatOf, Seat, TypeOK, TableTypes
<1>4. lock0 # NoLock
  <2>1. FirstAttendee \in AttendeeRow
    BY ShowingsAssumption DEF AttendeeRow, FirstAttendee
  <2>2. lock0 \in Lock(AttendeeRow)
    BY <2>1 DEF Lock
  <2>3. QED
    BY <2>2, ShowingsAssumption
<1>5. ShowingVersions'
  BY <1>1 DEF BookInv, ShowingVersions, Planned, Purchased
<1>6. AttendeeVersions'
  <2> SUFFICES ASSUME NEW k \in Seat, attendeeLock'[k] # NoLock
               PROVE  LET q == attendeeLock'[k].by IN
                      /\ req[q].op = "create" =>
                           k[2] = req[q].user /\ attendeeLock'[k].row = FirstAttendee
                      /\ req[q].op # "create" =>
                           \/ attendeeLock'[k].row = Settled(attendees[k])
                           \/ /\ ~attendees[k].paid /\ ~attendees[k].cert
                              /\ attendeeLock'[k].row = Owing(attendees[k], req[q].price)
    BY <1>1 DEF AttendeeVersions, Settled, Owing, FirstAttendee
  <2>1. CASE k = k0
    BY <1>1, <1>3, <2>1
  <2>2. CASE k # k0
    BY <1>3, <2>2 DEF BookInv, AttendeeVersions
  <2>3. QED
    BY <2>1, <2>2
<1>7. Holds(p, attendeeLock'[k0])
  BY <1>3, <1>4 DEF Holds
<1>8. \A k \in Seat : attendeeLock[k] # NoLock /\ attendeeLock[k].by # p =>
          attendeeLock'[k] = attendeeLock[k]
  <2>1. attendees[k0] = Absent
    BY <1>1, <1>3 DEF IInv, FreshIds, NoOrphans, SeatOf
  <2>2. attendeeLock[k0] # NoLock => attendeeLock[k0].by = p
    <3> SUFFICES ASSUME attendeeLock[k0] # NoLock PROVE attendeeLock[k0].by = p
      OBVIOUS
    <3> DEFINE q == attendeeLock[k0].by
    <3>1. q \in Request
      BY <1>1, <1>3 DEF TypeOK, TableTypes, Lock
    <3>2. req[q].showing = req[p].showing /\ pc[q] \notin Answered /\ req[q].op = "create"
      BY <1>3, <2>1 DEF IInv, AttendeeLockInv, SeatOf, Answered
    <3>3. QED
      BY <1>1, <3>1, <3>2 DEF IInv, FreshIds
  <2>3. QED
    BY <1>3, <2>2
<1>9. QED
  BY <1>1, <1>5, <1>6, <1>7, <1>8, BookKeptByQuery DEF Query

LEMMA DeleteShowingBook ==
  ASSUME IInv, BookInv, NEW p \in Request, DeleteShowing(p), OwnShowing(p) # Absent
  PROVE  BookInv'
<1>1. /\ TypeOK /\ pc[p] \notin Answered /\ req[p].op = "delete"
      /\ Goto(p, "CascadeAttendees") /\ UNCHANGED tables
      /\ UNCHANGED <<showings, attendees, attendeeLock, req>>
  BY DEF IInv, DeleteShowing, ControlInv, Answered, tables, Goto
<1>2. /\ req[p].showing \in Showing
      /\ showingLock'[req[p].showing].by = p
      /\ \A s \in Showing \ {req[p].showing} : showingLock'[s] = showingLock[s]
  <2>1. req[p].showing \in Showing
    BY <1>1, RequestRows
  <2>2. showingLock' = [showingLock EXCEPT ![req[p].showing] = [by |-> p, row |-> Absent]]
    BY DEF DeleteShowing
  <2>3. QED
    BY <1>1, <2>1, <2>2 DEF TypeOK, TableTypes
<1>3. ShowingVersions'
  <2> SUFFICES ASSUME NEW s \in Showing, showingLock'[s] # NoLock
               PROVE  LET q == showingLock'[s].by IN
                      /\ req[q].op = "create" => showingLock'[s].row = Planned(req[q].user)
                      /\ req[q].op = "markAsBought" =>
                           /\ ~showings[s].bought
                           /\ showingLock'[s].row = Purchased(showings[s], req[q].price)
    BY <1>1 DEF ShowingVersions, Planned, Purchased
  <2>1. CASE s = req[p].showing
    BY <1>1, <1>2, <2>1
  <2>2. CASE s # req[p].showing
    BY <1>2, <2>2 DEF BookInv, ShowingVersions
  <2>3. QED
    BY <2>1, <2>2
<1>4. AttendeeVersions'
  BY <1>1 DEF BookInv, AttendeeVersions, Settled, Owing, FirstAttendee
<1>5. QED
  BY <1>1, <1>3, <1>4, BookKeptByQuery DEF Query

LEMMA MarkShowingBook ==
  ASSUME IInv, BookInv, NEW p \in Request, MarkShowingAsBought(p)
  PROVE  BookInv'
<1>1. /\ TypeOK /\ pc[p] \notin Answered /\ req[p].op = "markAsBought"
      /\ Goto(p, "Commit") /\ UNCHANGED tables
      /\ UNCHANGED <<showings, attendees, attendeeLock, req>>
  BY DEF IInv, MarkShowingAsBought, ControlInv, Answered, tables, Goto
<1>2. ShowingVersions'
  <2>1. CASE Administers(p) /\ ~OwnShowing(p).bought
    <3>1. /\ req[p].showing \in Showing
          /\ showingLock' = [showingLock EXCEPT ![req[p].showing] =
                 [by |-> p, row |-> Purchased(showings[req[p].showing], req[p].price)]]
      BY <1>1, <2>1, RequestRows DEF MarkShowingAsBought, OwnShowing, Purchased
    <3>2. /\ showingLock'[req[p].showing].by = p
          /\ showingLock'[req[p].showing].row = Purchased(showings[req[p].showing], req[p].price)
          /\ \A s \in Showing \ {req[p].showing} : showingLock'[s] = showingLock[s]
      BY <1>1, <3>1 DEF TypeOK, TableTypes
    <3> SUFFICES ASSUME NEW s \in Showing, showingLock'[s] # NoLock
                 PROVE  LET q == showingLock'[s].by IN
                        /\ req[q].op = "create" => showingLock'[s].row = Planned(req[q].user)
                        /\ req[q].op = "markAsBought" =>
                             /\ ~showings[s].bought
                             /\ showingLock'[s].row = Purchased(showings[s], req[q].price)
      BY <1>1 DEF ShowingVersions, Planned, Purchased
    <3>3. CASE s = req[p].showing
      BY <1>1, <2>1, <3>2, <3>3 DEF OwnShowing
    <3>4. CASE s # req[p].showing
      BY <3>2, <3>4 DEF BookInv, ShowingVersions
    <3>5. QED
      BY <3>3, <3>4
  <2>2. CASE ~(Administers(p) /\ ~OwnShowing(p).bought)
    <3>1. UNCHANGED showingLock
      BY <2>2 DEF MarkShowingAsBought
    <3>2. QED
      BY <1>1, <3>1 DEF BookInv, ShowingVersions, Planned, Purchased
  <2>3. QED
    BY <2>1, <2>2
<1>3. AttendeeVersions'
  BY <1>1 DEF BookInv, AttendeeVersions, Settled, Owing, FirstAttendee
<1>4. QED
  BY <1>1, <1>2, <1>3, BookKeptByQuery DEF Query

LEMMA MarkGCAttendeesBook ==
  ASSUME IInv, BookInv, NEW p \in Request, MarkGCAttendeesAsHavingPaid(p)
  PROVE  BookInv'
<1>1. /\ TypeOK /\ SafetyParts /\ pc[p] \notin Answered /\ req[p].op = "markAsBought"
      /\ Goto(p, "UpdateAmountOwedForSwishAttendees") /\ UNCHANGED tables
      /\ UNCHANGED <<showings, attendees, showingLock, req>>
  BY DEF IInv, SafetyParts, MarkGCAttendeesAsHavingPaid, ControlInv, Answered, tables, Goto
<1>2. \A k \in Seat : attendeeLock'[k] =
          IF k[1] = req[p].showing /\ k[2] \in GCAttendees(p)
          THEN [by |-> p, row |-> Settled(Seen(p, k[2]))]
          ELSE attendeeLock[k]
  BY DEF MarkGCAttendeesAsHavingPaid, WriteSeats, Settled
<1>3. \A u \in User : Seen(p, u) = attendees[SeatOf(p, u)]
  <2>1. \A k \in Seat : ~Holds(p, attendeeLock[k])
    BY <1>1, NoLocksHeld DEF MarkGCAttendeesAsHavingPaid
  <2>2. QED
    BY <1>1, <2>1, RequestRows DEF Seen
<1>4. \A k \in Seat : k[1] = req[p].showing => k = SeatOf(p, k[2]) /\ k[2] \in User
  BY DEF Seat, SeatOf
<1>5. ShowingVersions'
  BY <1>1 DEF BookInv, ShowingVersions, Planned, Purchased
<1>6. AttendeeVersions'
  <2> SUFFICES ASSUME NEW k \in Seat, attendeeLock'[k] # NoLock
               PROVE  LET q == attendeeLock'[k].by IN
                      /\ req[q].op = "create" =>
                           k[2] = req[q].user /\ attendeeLock'[k].row = FirstAttendee
                      /\ req[q].op # "create" =>
                           \/ attendeeLock'[k].row = Settled(attendees[k])
                           \/ /\ ~attendees[k].paid /\ ~attendees[k].cert
                              /\ attendeeLock'[k].row = Owing(attendees[k], req[q].price)
    BY <1>1 DEF AttendeeVersions, Settled, Owing, FirstAttendee
  <2>1. CASE k[1] = req[p].showing /\ k[2] \in GCAttendees(p)
    <3>1. attendeeLock'[k] = [by |-> p, row |-> Settled(attendees[k])]
      BY <1>2, <1>3, <1>4, <2>1
    <3>2. QED
      BY <1>1, <3>1
  <2>2. CASE ~(k[1] = req[p].showing /\ k[2] \in GCAttendees(p))
    BY <1>2, <2>2 DEF BookInv, AttendeeVersions
  <2>3. QED
    BY <2>1, <2>2
<1>7. \A k \in Seat : attendeeLock[k] # NoLock /\ attendeeLock[k].by # p =>
          attendeeLock'[k] = attendeeLock[k]
  BY <1>2, <1>4 DEF MarkGCAttendeesAsHavingPaid, MayWrite
<1>8. QED
  BY <1>1, <1>5, <1>6, <1>7, BookKeptByQuery DEF Query

LEMMA UpdateAmountOwedBook ==
  ASSUME IInv, BookInv, NEW p \in Request, UpdateAmountOwedForSwishAttendees(p)
  PROVE  BookInv'
<1>1. /\ TypeOK /\ pc[p] \notin Answered /\ req[p].op = "markAsBought"
      /\ Goto(p, "MarkShowingAsBought") /\ UNCHANGED tables
      /\ UNCHANGED <<showings, attendees, showingLock, req>>
  BY DEF IInv, UpdateAmountOwedForSwishAttendees, ControlInv, Answered, tables, Goto
<1>2. \A k \in Seat : attendeeLock'[k] =
          IF k[1] = req[p].showing /\ k[2] \in SwishAttendees(p)
          THEN [by |-> p, row |-> Owing(Seen(p, k[2]), req[p].price)]
          ELSE attendeeLock[k]
  BY DEF UpdateAmountOwedForSwishAttendees, WriteSeats, Owing
<1>3. \A k \in Seat : k[1] = req[p].showing => k = SeatOf(p, k[2]) /\ k[2] \in User
  BY DEF Seat, SeatOf
\* Whoever is charged has neither paid nor been settled just before.
<1>4. ASSUME NEW u \in SwishAttendees(p)
      PROVE  LET row == attendees[SeatOf(p, u)] IN
             ~row.paid /\ ~row.cert /\ Owing(Seen(p, u), req[p].price) = Owing(row, req[p].price)
  <2> DEFINE k == SeatOf(p, u)
             row == attendees[k]
  <2>1. /\ u \in User /\ k \in Seat
        /\ Seen(p, u) \in AttendeeRow /\ row \in AttendeeRow \cup {Absent}
        /\ ~Seen(p, u).cert /\ ~Seen(p, u).paid
    BY <1>1, RequestRows DEF SwishAttendees
  <2>2. CASE ~Holds(p, attendeeLock[k])
    BY <2>1, <2>2 DEF Seen
  <2>3. CASE Holds(p, attendeeLock[k])
    <3>1. Seen(p, u) = attendeeLock[k].row
      BY <2>3 DEF Seen
    <3>2. row \in AttendeeRow
      BY <1>1, <2>1, <2>3 DEF IInv, AttendeeLockInv, Holds
    <3>3. attendeeLock[k].row # Settled(row)
      BY <2>1, <3>1, <3>2 DEF Settled, AttendeeRow
    <3>4. ~row.paid /\ ~row.cert /\ attendeeLock[k].row = Owing(row, req[p].price)
      BY <1>1, <2>1, <2>3, <3>3 DEF BookInv, AttendeeVersions, Holds
    <3>5. Owing(Owing(row, req[p].price), req[p].price) = Owing(row, req[p].price)
      BY <3>2 DEF Owing, AttendeeRow
    <3>6. QED
      BY <3>1, <3>4, <3>5
  <2>4. QED
    BY <2>2, <2>3
<1>5. ShowingVersions'
  BY <1>1 DEF BookInv, ShowingVersions, Planned, Purchased
<1>6. AttendeeVersions'
  <2> SUFFICES ASSUME NEW k \in Seat, attendeeLock'[k] # NoLock
               PROVE  LET q == attendeeLock'[k].by IN
                      /\ req[q].op = "create" =>
                           k[2] = req[q].user /\ attendeeLock'[k].row = FirstAttendee
                      /\ req[q].op # "create" =>
                           \/ attendeeLock'[k].row = Settled(attendees[k])
                           \/ /\ ~attendees[k].paid /\ ~attendees[k].cert
                              /\ attendeeLock'[k].row = Owing(attendees[k], req[q].price)
    BY <1>1 DEF AttendeeVersions, Settled, Owing, FirstAttendee
  <2>1. CASE k[1] = req[p].showing /\ k[2] \in SwishAttendees(p)
    <3>1. k = SeatOf(p, k[2])
      BY <1>3, <2>1
    <3>2. /\ ~attendees[k].paid /\ ~attendees[k].cert
          /\ attendeeLock'[k] = [by |-> p, row |-> Owing(attendees[k], req[p].price)]
      BY <1>2, <1>4, <2>1, <3>1
    <3>3. QED
      BY <1>1, <3>2
  <2>2. CASE ~(k[1] = req[p].showing /\ k[2] \in SwishAttendees(p))
    BY <1>2, <2>2 DEF BookInv, AttendeeVersions
  <2>3. QED
    BY <2>1, <2>2
<1>7. \A k \in Seat : attendeeLock[k] # NoLock /\ attendeeLock[k].by # p =>
          attendeeLock'[k] = attendeeLock[k]
  BY <1>2, <1>3 DEF UpdateAmountOwedForSwishAttendees, MayWrite
<1>8. QED
  BY <1>1, <1>5, <1>6, <1>7, BookKeptByQuery DEF Query

\* Each action keeps BookInv.
LEMMA BookNext ==
  ASSUME IInv, BookInv, [Next]_vars
  PROVE  BookInv'
<1>1. TypeOK /\ SafetyParts
  BY DEF IInv, SafetyParts
<1> DEFINE Unlocked(p) == /\ \A s \in Showing : ~Holds(p, showingLock[s])
                          /\ \A k \in Seat : ~Holds(p, attendeeLock[k])
           Frame(p) == \A q \in Request \ {p} : pc'[q] = pc[q] /\ req'[q] = req[q]
           Moved(p) == /\ pc'[p] # "Commit"
                       /\ pc'[p] \notin Answered /\ req'[p].op = "delete" =>
                            pc'[p] \in {"AdminOnShowing", "DeleteShowing", "CascadeAttendees"}
<1>2. ASSUME NEW p \in Request, NEW a \in Answered, Answer(p, a) PROVE Frame(p) /\ Moved(p)
  BY <1>1, <1>2 DEF Answer, TypeOK, RequestTypes, Answered
<1>3. ASSUME NEW p \in Request, ReadBack(p) PROVE Frame(p) /\ Moved(p) /\ pc'[p] \in Answered
  BY <1>1, <1>3, <1>2 DEF ReadBack, Answer, TypeOK, RequestTypes, Answered
<1>4. ASSUME NEW p \in Request, Arrive(p) \/ ArriveCreate(p) PROVE BookInv'
  <2>1. PICK r \in Arguments :
             Start(p, r) /\ UNCHANGED <<showings, attendees, showingLock, attendeeLock>>
    BY <1>1, <1>4, Arrivals
  <2>2. Unlocked(p)
    BY <1>1, <1>4, NoLocksHeld DEF Arrive, ArriveCreate, Answered
  <2>3. Frame(p) /\ Moved(p)
    <3>1. /\ pc'[p] = IF r.op \in AdminOnly THEN "AdminOnShowing" ELSE Resolve(r)
          /\ req'[p].op = r.op
          /\ Frame(p)
      BY <1>1, <2>1 DEF Start, TypeOK, RequestTypes
    <3>2. Resolve(r) # "Commit" /\ "delete" \in AdminOnly
      BY Resolving DEF AdminOnly
    <3>3. QED
      BY <3>1, <3>2
  <2>4. QED
    BY <2>1, <2>2, <2>3, BookKeptByMove
<1>5. ASSUME NEW p \in Request, VerifyShowingAdmin(p) PROVE BookInv'
  <2>1. UNCHANGED <<showings, attendees, showingLock, attendeeLock>>
    BY <1>5 DEF VerifyShowingAdmin, tables, locks
  <2>2. Unlocked(p)
    BY <1>1, <1>5, NoLocksHeld DEF VerifyShowingAdmin
  <2>3. Frame(p) /\ Moved(p)
    <3>1. CASE Administers(p)
      <4>1. Goto(p, Resolve(req[p])) /\ req[p] \in Arguments
        BY <1>1, <1>5, <3>1, RequestRows DEF VerifyShowingAdmin, Answered
      <4>2. /\ Resolve(req[p]) # "Commit"
            /\ req[p].op = "delete" => Resolve(req[p]) = "DeleteShowing"
        BY <4>1, Resolving
      <4>3. QED
        BY <1>1, <4>1, <4>2 DEF Goto, TypeOK, RequestTypes
    <3>2. CASE ~Administers(p)
      BY <1>2, <1>5, <3>2 DEF VerifyShowingAdmin, Answered
    <3>3. QED
      BY <3>1, <3>2
  <2>4. QED
    BY <2>1, <2>2, <2>3, BookKeptByMove
<1>6. ASSUME NEW p \in Request, AttendRead(p) \/ MarkRead(p) PROVE BookInv'
  <2>1. UNCHANGED <<showings, attendees, showingLock, attendeeLock>>
    BY <1>6 DEF AttendRead, MarkRead, tables, locks
  <2>2. Unlocked(p)
    BY <1>1, <1>6, NoLocksHeld DEF AttendRead, MarkRead, At
  <2>3. CASE Answer(p, "error")
    BY <1>2, <2>1, <2>2, <2>3, BookKeptByMove DEF Answered
  <2>4. CASE ~Answer(p, "error")
    <3>1. /\ req[p].op \in {"attend", "markAsBought"}
          /\ pc' = [pc EXCEPT ![p] = IF req[p].op = "attend" THEN "AddAttendee"
                                     ELSE "MarkGCAttendeesAsHavingPaid"]
          /\ \A q \in Request \ {p} : req'[q] = req[q]
          /\ req'[p].op = req[p].op
      <4>1. CASE AttendRead(p)
        <5>1. req' = [req EXCEPT ![p] = [req[p] EXCEPT !.price = OwnShowing(p).price]]
          BY <2>4, <4>1 DEF AttendRead
        <5>2. req[p] \in Arguments
          BY <1>1, <4>1, RequestRows DEF AttendRead, At, Answered
        <5>3. req'[p] = [req[p] EXCEPT !.price = OwnShowing(p).price]
          BY <1>1, <5>1 DEF TypeOK, RequestTypes
        <5>4. req'[p].op = req[p].op
          BY <5>2, <5>3 DEF Arguments
        <5>5. QED
          BY <1>1, <2>4, <4>1, <5>1, <5>4 DEF AttendRead, At, TypeOK, RequestTypes
      <4>2. CASE MarkRead(p)
        BY <2>4, <4>2 DEF MarkRead, At, Goto
      <4>3. QED
        BY <1>6, <4>1, <4>2
    <3>2. Frame(p) /\ Moved(p)
      BY <1>1, <3>1 DEF TypeOK, RequestTypes
    <3>3. QED
      BY <2>1, <2>2, <3>2, BookKeptByMove
  <2>5. QED
    BY <2>3, <2>4
<1>7. ASSUME NEW p \in Request, AttendInsert(p) PROVE BookInv'
  <2>1. /\ Frame(p) /\ Moved(p)
        /\ UNCHANGED <<showings, showingLock, attendeeLock>>
    BY <1>2, <1>3, <1>7 DEF AttendInsert, locks, Answered
  <2>2. Unlocked(p)
    BY <1>1, <1>7 DEF AttendInsert, At, SafetyParts, ShowingLockInv, AttendeeLockInv, Holds
  <2>3. \A k \in Seat : attendeeLock[k] # NoLock => attendees'[k] = attendees[k]
    BY <1>1, <1>7 DEF AttendInsert, TypeOK, TableTypes
  <2>4. QED
    BY <2>1, <2>2, <2>3, BookKeptByMove
<1>8. ASSUME NEW p \in Request, UnattendShowing(p) PROVE BookInv'
  <2>1. /\ Frame(p) /\ Moved(p)
        /\ UNCHANGED <<showings, showingLock, attendeeLock>>
    BY <1>2, <1>3, <1>8 DEF UnattendShowing, locks, Answered
  <2>2. Unlocked(p)
    BY <1>1, <1>8, NoLocksHeld DEF UnattendShowing
  <2>3. \A k \in Seat : attendeeLock[k] # NoLock => attendees'[k] = attendees[k]
    BY <1>1, <1>8 DEF UnattendShowing, TypeOK, TableTypes
  <2>4. QED
    BY <2>1, <2>2, <2>3, BookKeptByMove
<1>9. ASSUME NEW p \in Request, DeleteShowing(p) PROVE BookInv'
  <2>1. CASE OwnShowing(p) = Absent
    <3>1. /\ Frame(p) /\ Moved(p)
          /\ UNCHANGED <<showings, attendees, showingLock, attendeeLock>>
      BY <1>2, <1>9, <2>1 DEF DeleteShowing, tables, Answered
    <3>2. Unlocked(p)
      BY <1>1, <1>9, NoLocksHeld DEF DeleteShowing
    <3>3. QED
      BY <3>1, <3>2, BookKeptByMove
  <2>2. CASE OwnShowing(p) # Absent
    BY <1>9, <2>2, DeleteShowingBook
  <2>3. QED
    BY <2>1, <2>2
<1>10. ASSUME NEW p \in Request, CascadeAttendees(p) PROVE BookInv'
  <2>1. Frame(p) /\ pc'[p] \in Answered /\ Unlock(p)
    BY <1>3, <1>10 DEF CascadeAttendees
  <2>2. Holds(p, showingLock[req[p].showing]) /\ req[p].showing \in Showing
    BY <1>1, <1>10, RequestRows DEF CascadeAttendees, SafetyParts, ControlInv, Answered
  <2>3. \A s \in Showing : showingLock[s] # NoLock /\ showingLock[s].by # p =>
            showings'[s] = showings[s]
    BY <1>1, <1>10, <2>2 DEF CascadeAttendees, TypeOK, TableTypes, Holds
  <2>4. \A k \in Seat : attendeeLock[k] # NoLock => attendees'[k] = attendees[k]
    <3>1. \A k \in Seat : k[1] = req[p].showing => k = SeatOf(p, k[2]) /\ k[2] \in User
      BY DEF Seat, SeatOf
    <3>2. QED
      BY <1>10, <3>1 DEF CascadeAttendees, Attending
  <2>5. QED
    BY <2>1, <2>3, <2>4, BookKeptByUnlock
<1>11. ASSUME NEW p \in Request, UpdateShowing(p) \/ PromoteToAdmin(p) PROVE BookInv'
  <2>1. /\ Frame(p) /\ Moved(p)
        /\ UNCHANGED <<attendees, showingLock, attendeeLock>>
    BY <1>3, <1>11 DEF UpdateShowing, PromoteToAdmin, locks
  <2>2. Unlocked(p)
    BY <1>1, <1>11, NoLocksHeld DEF UpdateShowing, PromoteToAdmin
  <2>3. \A s \in Showing : showingLock[s] # NoLock => showings'[s] = showings[s]
    BY <1>1, <1>11 DEF UpdateShowing, PromoteToAdmin, TypeOK, TableTypes
  <2>4. QED
    BY <2>1, <2>2, <2>3, BookKeptByMove
<1>12. ASSUME NEW p \in Request, UpdateAttendeePayment(p) PROVE BookInv'
  <2>1. /\ Frame(p) /\ Moved(p)
        /\ UNCHANGED <<showings, showingLock, attendeeLock>>
    BY <1>2, <1>3, <1>12 DEF UpdateAttendeePayment, locks, Answered
  <2>2. Unlocked(p)
    BY <1>1, <1>12, NoLocksHeld DEF UpdateAttendeePayment
  <2>3. \A k \in Seat : attendeeLock[k] # NoLock => attendees'[k] = attendees[k]
    BY <1>1, <1>12 DEF UpdateAttendeePayment, TypeOK, TableTypes
  <2>4. QED
    BY <2>1, <2>2, <2>3, BookKeptByMove
<1>13. ASSUME NEW p \in Request, Commit(p) PROVE BookInv'
  <2>1. Frame(p) /\ pc'[p] \in Answered /\ Unlock(p)
    BY <1>3, <1>13 DEF Commit
  <2>2. /\ \A s \in Showing : showingLock[s] # NoLock /\ showingLock[s].by # p =>
              showings'[s] = showings[s]
        /\ \A k \in Seat : attendeeLock[k] # NoLock /\ attendeeLock[k].by # p =>
              attendees'[k] = attendees[k]
    BY <1>13 DEF Commit, Publish, Holds
  <2>3. QED
    BY <2>1, <2>2, BookKeptByUnlock
<1>14. ASSUME NEW p \in Request, Fail(p) \/ DeadlockVictim(p) PROVE BookInv'
  <2>1. /\ Frame(p) /\ pc'[p] \in Answered /\ Unlock(p)
        /\ UNCHANGED <<showings, attendees>>
    BY <1>1, <1>14 DEF Fail, DeadlockVictim, Answer, Answered, tables, TypeOK, RequestTypes
  <2>2. QED
    BY <2>1, BookKeptByUnlock
<1>15. ASSUME NEW p \in Request, Screening(p) PROVE BookInv'
  <2>1. /\ UNCHANGED <<showings, attendees, showingLock, attendeeLock>>
        /\ req[p].op # "delete"
        /\ \E query \in {"AddShowing", "AddCinemaScreen", "UpdateShowing"} : Goto(p, query)
    BY <1>1, <1>15, ScreeningFrame DEF SafetyParts
  <2>2. Unlocked(p)
    BY <1>1, <1>15, ScreeningFrame, NoLocksHeld DEF SafetyParts
  <2>3. Frame(p) /\ Moved(p)
    BY <1>1, <2>1 DEF Goto, TypeOK, RequestTypes
  <2>4. QED
    BY <2>1, <2>2, <2>3, BookKeptByMove
<1>16. CASE UNCHANGED vars
  BY <1>16 DEF vars, BookInv, ShowingVersions, AttendeeVersions, AdminAttends, DeletionQueries,
               Planned, Purchased, FirstAttendee, Settled, Owing, SeatOf
<1>17. QED
  BY <1>4, <1>5, <1>6, <1>7, <1>8, <1>9, <1>10, <1>11, <1>12, <1>13, <1>14, <1>15, <1>16,
     CreateInsertBook, CreateAttendBook, MarkGCAttendeesBook, UpdateAmountOwedBook,
     MarkShowingBook DEF Next, Step, Screening

LEMMA BookHolds == Spec => [](IInv /\ BookInv)
<1>1. IInv /\ BookInv /\ [Next]_vars => BookInv'
  BY BookNext
<1>2. QED
  BY <1>1, BookInit, Inductive, PTL DEF Spec

-----------------------------------------------------------------------------
(***************************************************************************)
(* The refinement: each action is a change of the book or a stutter.       *)
(***************************************************************************)
LEMMA CreateCommits ==
  ASSUME IInv, BookInv, NEW p \in Request, Commit(p), req[p].op = "create"
  PROVE  Book!Plan(req[p].showing, req[p].user)
<1> DEFINE s0 == req[p].showing
           u0 == req[p].user
<1>1. TypeOK /\ pc[p] \notin Answered
  BY DEF IInv, Commit, Answered
<1>2. s0 \in Showing /\ u0 \in User /\ <<s0, u0>> \in Seat
  BY <1>1, RequestRows DEF SeatOf
<1>3. showings[s0] = Absent
  BY <1>1 DEF IInv, FreshIds
<1>4. Holds(p, showingLock[s0])
  BY <1>1 DEF IInv, ControlInv, Commit
<1>5. Holds(p, attendeeLock[<<s0, u0>>])
  BY DEF BookInv, AdminAttends, Commit, SeatOf
<1>6. showings' = [showings EXCEPT ![s0] = Planned(u0)]
  <2>1. \A s \in Showing : Holds(p, showingLock[s]) => s = s0
    BY DEF IInv, ShowingLockInv, Holds
  <2>2. showingLock[s0].row = Planned(u0)
    BY <1>2, <1>4 DEF BookInv, ShowingVersions, Holds
  <2>3. QED
    BY <1>1, <1>2, <1>4, <2>1, <2>2 DEF Commit, Publish, TypeOK, TableTypes
<1>7. attendees' = [attendees EXCEPT ![<<s0, u0>>] = FirstAttendee]
  <2>1. \A k \in Seat : Holds(p, attendeeLock[k]) =>
          k = <<s0, u0>> /\ attendeeLock[k].row = FirstAttendee
    BY DEF IInv, AttendeeLockInv, BookInv, AttendeeVersions, Holds, Seat
  <2>2. QED
    BY <1>1, <1>2, <1>5, <2>1 DEF Commit, Publish, TypeOK, TableTypes
<1>8. QED
  BY <1>3, <1>6, <1>7 DEF Book!Plan, Planned, FirstAttendee

LEMMA PurchaseCommits ==
  ASSUME IInv, BookInv, NEW p \in Request, Commit(p), req[p].op = "markAsBought"
  PROVE  \/ Book!Purchase(req[p].showing, req[p].price)
         \/ Book!ChargeOnly(req[p].showing, req[p].price)
<1> DEFINE s0 == req[p].showing
           c0 == req[p].price
           Locked(u) == Holds(p, attendeeLock[<<s0, u>>])
           settled == {u \in User : Locked(u) /\ attendeeLock[<<s0, u>>].row = Settled(attendees[<<s0, u>>])}
           owing == {u \in User : Locked(u) /\ attendeeLock[<<s0, u>>].row # Settled(attendees[<<s0, u>>])}
<1>1. TypeOK /\ pc[p] \notin Answered
  BY DEF IInv, Commit, Answered
<1>2. s0 \in Showing /\ \A u \in User : <<s0, u>> \in Seat
  BY <1>1, RequestRows DEF SeatOf
<1>3. \A s \in Showing : Holds(p, showingLock[s]) => s = s0
  BY DEF IInv, ShowingLockInv, Holds
<1>4. \A u \in User : Locked(u) => attendees[<<s0, u>>] # Absent
  BY <1>2 DEF IInv, AttendeeLockInv, Holds
<1>5. \A u \in owing :
        /\ ~attendees[<<s0, u>>].paid /\ ~attendees[<<s0, u>>].cert
        /\ attendeeLock[<<s0, u>>].row = Owing(attendees[<<s0, u>>], c0)
  BY <1>2 DEF BookInv, AttendeeVersions, Holds
<1>6. Book!Charge(s0, c0)
  <2>1. settled \in SUBSET Book!Attending(s0)
    BY <1>4 DEF Book!Attending
  <2>2. owing \in SUBSET {u \in Book!Attending(s0) :
                            ~attendees[<<s0, u>>].paid /\ ~attendees[<<s0, u>>].cert}
    BY <1>4, <1>5 DEF Book!Attending
  <2>3. attendees' = [k \in Seat |->
             CASE k[1] = s0 /\ k[2] \in settled -> Settled(attendees[k])
               [] k[1] = s0 /\ k[2] \in owing \ settled -> Owing(attendees[k], c0)
               [] OTHER -> attendees[k]]
    <3>1. attendees' = [k \in Seat |->
             IF Holds(p, attendeeLock[k]) THEN attendeeLock[k].row ELSE attendees[k]]
      BY DEF Commit, Publish
    <3>2. ASSUME NEW k \in Seat
          PROVE  (IF Holds(p, attendeeLock[k]) THEN attendeeLock[k].row ELSE attendees[k]) =
                 CASE k[1] = s0 /\ k[2] \in settled -> Settled(attendees[k])
                   [] k[1] = s0 /\ k[2] \in owing \ settled -> Owing(attendees[k], c0)
                   [] OTHER -> attendees[k]
      <4>1. k[2] \in User
        BY DEF Seat
      <4>2. k[1] = s0 => k = <<s0, k[2]>>
        BY DEF Seat
      <4>3. Holds(p, attendeeLock[k]) => k[1] = s0
        BY DEF IInv, AttendeeLockInv, Holds
      <4>4. CASE k[1] = s0 /\ k[2] \in settled
        BY <4>2, <4>4
      <4>5. CASE k[1] = s0 /\ k[2] \in owing
        BY <1>5, <4>2, <4>5
      <4>6. CASE ~(k[1] = s0 /\ (k[2] \in settled \/ k[2] \in owing))
        BY <4>1, <4>2, <4>3, <4>6
      <4>7. QED
        BY <4>4, <4>5, <4>6
    <3>3. QED
      BY <3>1, <3>2
  <2>4. Book!Seat = Seat
    BY DEF Book!Seat, Seat
  <2>5. QED
    BY <2>1, <2>2, <2>3, <2>4 DEF Book!Charge, Settled, Owing
<1>7. CASE Holds(p, showingLock[s0])
  <2>1. /\ showings[s0] # Absent /\ ~showings[s0].bought
        /\ showingLock[s0].row = Purchased(showings[s0], c0)
    BY <1>2, <1>7 DEF IInv, ShowingLockInv, BookInv, ShowingVersions, Holds
  <2>2. showings' = [showings EXCEPT ![s0] = Purchased(showings[s0], c0)]
    BY <1>1, <1>2, <1>3, <1>7, <2>1 DEF Commit, Publish, TypeOK, TableTypes
  <2>3. showings' = [showings EXCEPT ![s0].bought = TRUE, ![s0].price = c0]
    <3>1. showings[s0] \in ShowingRow
      BY <1>1, <1>2, <2>1 DEF TypeOK, TableTypes
    <3>2. QED
      BY <1>1, <1>2, <2>2, <3>1 DEF Purchased, TypeOK, TableTypes
  <2>4. QED
    BY <1>6, <2>1, <2>3 DEF Book!Purchase
<1>8. CASE ~Holds(p, showingLock[s0])
  <2>1. showings' = showings
    BY <1>1, <1>3, <1>8 DEF Commit, Publish, TypeOK, TableTypes
  <2>2. QED
    BY <1>6, <2>1 DEF Book!ChargeOnly
<1>9. QED
  BY <1>7, <1>8

LEMMA RefinesBook ==
  ASSUME IInv, BookInv, [Next]_vars
  PROVE  [Book!Next]_(Book!book)
<1> USE DEF Book!book
<1>1. TypeOK
  BY DEF IInv
<1>2. ASSUME NEW p \in Request, AttendInsert(p), ~UNCHANGED attendees PROVE Book!Next
  <2>1. req[p].showing \in Showing /\ req[p].user \in User
    BY <1>1, <1>2, RequestRows DEF AttendInsert, At, Answered
  <2>2. req[p].price \in Price
    BY <1>1, <1>2, RequestRows DEF AttendInsert, At, Answered
  <2>3. Book!Join(req[p].showing, req[p].user)
    BY <1>2, <2>2 DEF AttendInsert, Book!Join, OwnShowing, SeatOf, NewAttendee
  <2>4. QED
    BY <2>1, <2>3 DEF Book!Next
<1>3. ASSUME NEW p \in Request, UnattendShowing(p), ~UNCHANGED attendees PROVE Book!Next
  <2>1. req[p].showing \in Showing /\ req[p].user \in User
    BY <1>1, <1>3, RequestRows DEF UnattendShowing, Answered
  <2>2. Book!Leave(req[p].showing, req[p].user)
    BY <1>3 DEF UnattendShowing, Book!Leave, SeatOf
  <2>3. QED
    BY <2>1, <2>2 DEF Book!Next
<1>4. ASSUME NEW p \in Request, UpdateShowing(p), ~UNCHANGED showings PROVE Book!Next
  <2>1. req[p].showing \in Showing
    BY <1>1, <1>4, RequestRows DEF UpdateShowing, Answered
  <2>2. Administers(p) /\ UNCHANGED attendees
    BY <1>4 DEF UpdateShowing
  <2>3. PICK c \in Price, u \in User :
          showings' = [showings EXCEPT ![req[p].showing] =
                          [showings[req[p].showing] EXCEPT !.price = c, !.payTo = u]]
    BY <1>4, <2>2 DEF UpdateShowing
  <2>4. Book!Amend(req[p].showing, c, u)
    BY <1>1, <2>1, <2>2, <2>3 DEF Book!Amend, Administers, OwnShowing, TypeOK, TableTypes
  <2>5. QED
    BY <2>1, <2>4 DEF Book!Next
<1>5. ASSUME NEW p \in Request, PromoteToAdmin(p), ~UNCHANGED showings PROVE Book!Next
  <2>1. req[p].showing \in Showing
    BY <1>1, <1>5, RequestRows DEF PromoteToAdmin, Answered
  <2>2. Administers(p) /\ ~OwnShowing(p).bought /\ UNCHANGED attendees
    BY <1>5 DEF PromoteToAdmin
  <2>3. PICK u \in User :
          showings' = [showings EXCEPT ![req[p].showing] =
                          [showings[req[p].showing] EXCEPT !.admin = u, !.payTo = u]]
    BY <1>5, <2>2 DEF PromoteToAdmin
  <2>4. Book!HandOver(req[p].showing, u)
    BY <1>1, <2>1, <2>2, <2>3 DEF Book!HandOver, Administers, OwnShowing, TypeOK, TableTypes
  <2>5. QED
    BY <2>1, <2>4 DEF Book!Next
<1>6. ASSUME NEW p \in Request, UpdateAttendeePayment(p), ~UNCHANGED attendees PROVE Book!Next
  <2>1. req[p].showing \in Showing
    BY <1>1, <1>6, RequestRows DEF UpdateAttendeePayment, Answered
  <2>2. PICK u \in User :
          /\ attendees[<<req[p].showing, u>>] # Absent
          /\ \E paid \in BOOLEAN, c \in Price :
               attendees' = [attendees EXCEPT ![<<req[p].showing, u>>] =
                                [@ EXCEPT !.paid = paid, !.owed = c]]
    BY <1>6 DEF UpdateAttendeePayment, SeatOf
  <2>3. PICK paid \in BOOLEAN, c \in Price :
          attendees' = [attendees EXCEPT ![<<req[p].showing, u>>] =
                           [attendees[<<req[p].showing, u>>] EXCEPT !.paid = paid, !.owed = c]]
    BY <2>2
  <2>4. <<req[p].showing, u>> \in Seat
    BY <2>1 DEF Seat
  <2>5. Book!SetPayment(req[p].showing, u, paid, c)
    <3>1. UNCHANGED showings
      BY <1>6 DEF UpdateAttendeePayment
    <3>2. attendees' = [attendees EXCEPT ![<<req[p].showing, u>>].paid = paid,
                                         ![<<req[p].showing, u>>].owed = c]
      BY <1>1, <2>3, <2>4 DEF TypeOK, TableTypes
    <3>3. QED
      BY <2>2, <3>1, <3>2 DEF Book!SetPayment
  <2>6. QED
    BY <2>1, <2>5 DEF Book!Next
<1>7. ASSUME NEW p \in Request, CascadeAttendees(p) PROVE Book!Next
  <2>1. req[p].showing \in Showing /\ pc[p] \notin Answered
    BY <1>1, <1>7, RequestRows DEF CascadeAttendees, Answered
  <2>2. showings[req[p].showing] # Absent
    BY <1>7, <2>1 DEF IInv, ControlInv, ShowingLockInv, CascadeAttendees, Holds
  <2>3. Book!Remove(req[p].showing)
    BY <1>7, <2>2 DEF CascadeAttendees, Book!Remove, Book!Seat, Seat
  <2>4. QED
    BY <2>1, <2>3 DEF Book!Next
<1>8. ASSUME NEW p \in Request, Commit(p) PROVE Book!Next
  <2>1. /\ req[p].showing \in Showing /\ req[p].user \in User /\ req[p].price \in Price
        /\ req[p].op \in {"markAsBought", "create"}
    BY <1>1, <1>8, RequestRows DEF Commit, IInv, ControlInv, Answered
  <2>2. QED
    BY <1>8, <2>1, CreateCommits, PurchaseCommits DEF Book!Next
<1>9. ASSUME NEW p \in Request,
             \/ Arrive(p) \/ ArriveCreate(p) \/ VerifyShowingAdmin(p) \/ AttendRead(p)
             \/ LookupMovieTitle(p) \/ CreateAddScreen(p) \/ UpdateAddScreen(p)
             \/ CreateInsert(p) \/ CreateAttend(p) \/ DeleteShowing(p) \/ MarkRead(p)
             \/ MarkGCAttendeesAsHavingPaid(p) \/ UpdateAmountOwedForSwishAttendees(p)
             \/ MarkShowingAsBought(p) \/ Fail(p) \/ DeadlockVictim(p)
      PROVE  UNCHANGED <<showings, attendees>>
  BY <1>9 DEF Arrive, ArriveCreate, VerifyShowingAdmin, AttendRead, LookupMovieTitle,
              CreateAddScreen, UpdateAddScreen, CreateInsert, CreateAttend,
              DeleteShowing, MarkRead, MarkGCAttendeesAsHavingPaid,
              UpdateAmountOwedForSwishAttendees, MarkShowingAsBought, Fail, DeadlockVictim, tables
<1>10. ASSUME NEW p \in Request,
              AttendInsert(p) \/ UnattendShowing(p) \/ UpdateAttendeePayment(p)
       PROVE  UNCHANGED showings
  BY <1>10 DEF AttendInsert, UnattendShowing, UpdateAttendeePayment
<1>11. ASSUME NEW p \in Request, UpdateShowing(p) \/ PromoteToAdmin(p) PROVE UNCHANGED attendees
  BY <1>11 DEF UpdateShowing, PromoteToAdmin
<1>12. CASE UNCHANGED vars
  BY <1>12 DEF vars
<1>13. QED
  BY <1>2, <1>3, <1>4, <1>5, <1>6, <1>7, <1>8, <1>9, <1>10, <1>11, <1>12 DEF Next, Step

\* What the mutations commit, query by query and under each other's locks, is
\* a sequence of the changes the book allows.
THEOREM ShowingsImplementBook == Spec => ImplementsBook
<1>1. Init => Book!Init
  BY DEF Init, Book!Init, Book!Seat, Seat
<1>2. IInv /\ BookInv /\ [Next]_vars => [Book!Next]_(Book!book)
  BY RefinesBook
<1>3. QED
  BY <1>1, <1>2, BookHolds, PTL DEF Spec, ImplementsBook, Book!Spec

-----------------------------------------------------------------------------
(***************************************************************************)
(* What the answer of a request says about its own writes.                 *)
(***************************************************************************)

\* Who is answered ok, and by which query.
LEMMA AnsweredOk ==
  ASSUME IInv, BookInv, Next, NEW p \in Request, pc[p] \notin Answered, pc'[p] = "ok"
  PROVE  /\ pc[p] = "Commit" => Commit(p)
         /\ req[p].op = "delete" => CascadeAttendees(p)
<1>1. TypeOK
  BY DEF IInv
<1>2. PICK q \in Request : Arrive(q) \/ ArriveCreate(q) \/ Step(q) \/ Fail(q)
  BY DEF Next
<1>3. q = p
  <2>1. CASE \E query : Goto(q, query)
    BY <1>1, <2>1 DEF Goto, TypeOK, RequestTypes, Answered
  <2>2. CASE \E answer : Answer(q, answer)
    BY <1>1, <2>2 DEF Answer, TypeOK, RequestTypes, Answered
  <2>3. CASE \E query : pc' = [pc EXCEPT ![q] = query]
    BY <1>1, <2>3 DEF TypeOK, RequestTypes, Answered
  <2>4. QED
    BY <1>2, <2>1, <2>2, <2>3
    DEF Step, Arrive, ArriveCreate, Start, Fail, DeadlockVictim, VerifyShowingAdmin,
        AttendRead, AttendInsert, UnattendShowing, LookupMovieTitle, CreateAddScreen,
        UpdateAddScreen, CreateInsert, CreateAttend, DeleteShowing,
        CascadeAttendees, MarkRead, MarkGCAttendeesAsHavingPaid,
        UpdateAmountOwedForSwishAttendees, MarkShowingAsBought, UpdateShowing, PromoteToAdmin,
        UpdateAttendeePayment, Commit, ReadBack
<1>4. /\ ~Arrive(p) /\ ~ArriveCreate(p)
      /\ ~Fail(p) /\ ~DeadlockVictim(p)
  BY <1>1 DEF Arrive, ArriveCreate, Fail, DeadlockVictim, Answer, TypeOK, RequestTypes
<1>5. pc[p] = "Commit" => Commit(p)
  BY <1>2, <1>3, <1>4
  DEF Step, VerifyShowingAdmin, AttendRead, AttendInsert, UnattendShowing, LookupMovieTitle,
      CreateAddScreen, UpdateAddScreen, CreateInsert,
      CreateAttend, DeleteShowing, CascadeAttendees, MarkRead, MarkGCAttendeesAsHavingPaid,
      UpdateAmountOwedForSwishAttendees, MarkShowingAsBought, UpdateShowing, PromoteToAdmin,
      UpdateAttendeePayment, At
<1>6. ASSUME req[p].op = "delete" PROVE CascadeAttendees(p)
  <2>1. pc[p] \in {"AdminOnShowing", "DeleteShowing", "CascadeAttendees"}
    BY <1>6 DEF BookInv, DeletionQueries
  <2>2. ~VerifyShowingAdmin(p)
    <3>1. Resolve(req[p]) = "DeleteShowing"
      BY <1>1, <1>6, RequestRows, Resolving
    <3>2. QED
      BY <1>1, <3>1 DEF VerifyShowingAdmin, Goto, Answer, TypeOK, RequestTypes
  <2>3. ~DeleteShowing(p)
    BY <1>1 DEF DeleteShowing, Goto, Answer, TypeOK, RequestTypes
  <2>4. QED
    BY <1>2, <1>3, <1>4, <2>1, <2>2, <2>3
    DEF Step, AttendRead, AttendInsert, UnattendShowing, LookupMovieTitle, CreateAddScreen,
        UpdateAddScreen, CreateInsert, CreateAttend, MarkRead, MarkGCAttendeesAsHavingPaid,
        UpdateAmountOwedForSwishAttendees, MarkShowingAsBought, UpdateShowing, PromoteToAdmin,
        UpdateAttendeePayment, Commit, At
<1>7. QED
  BY <1>5, <1>6

\* Of the deletions of one showing that race, the one that answers ok is the
\* one that removed it (showing.resolvers.go:205).
THEOREM DeletedByOne == Spec => DeletedOnce
<1>1. ASSUME IInv, BookInv, [Next]_vars
      PROVE  [\A p \in Request :
                req[p] # NoRequest /\ req[p].op = "delete" /\ pc'[p] = "ok"
                => OwnShowing(p) # Absent /\ showings'[req[p].showing] = Absent]_vars
  <2> SUFFICES ASSUME Next, NEW p \in Request,
                      req[p] # NoRequest, req[p].op = "delete", pc'[p] = "ok"
               PROVE  OwnShowing(p) # Absent /\ showings'[req[p].showing] = Absent
    BY <1>1 DEF vars
  <2>1. TypeOK /\ pc[p] \notin Answered
    BY <1>1 DEF IInv, TypeOK, RequestTypes
  <2>2. CascadeAttendees(p) /\ req[p].showing \in Showing
    BY <1>1, <2>1, AnsweredOk, RequestRows
  <2>3. showings[req[p].showing] # Absent
    BY <1>1, <2>1, <2>2 DEF IInv, ControlInv, ShowingLockInv, CascadeAttendees, Holds
  <2>4. showings'[req[p].showing] = Absent
    BY <2>1, <2>2 DEF CascadeAttendees, TypeOK, TableTypes
  <2>5. QED
    BY <2>3, <2>4 DEF OwnShowing
<1>2. QED
  BY <1>1, BookHolds, PTL DEF Spec, DeletedOnce

\* MarkAsBought charges nobody who has paid, also when the payment was recorded
\* while its transaction was in progress (payment.resolvers.go:50).
THEOREM PaidIsNotCharged == Spec => PaidNotCharged
<1>1. ASSUME IInv, BookInv, [Next]_vars
      PROVE  [\A p \in Request, u \in User :
                /\ pc[p] = "Commit" /\ req[p].op = "markAsBought" /\ pc'[p] = "ok"
                /\ Seen(p, u) # attendees[SeatOf(p, u)]
                /\ attendees[SeatOf(p, u)].paid
                => attendees'[SeatOf(p, u)].paid /\ attendees'[SeatOf(p, u)].owed = 0]_vars
  <2> SUFFICES ASSUME Next, NEW p \in Request, NEW u \in User,
                      pc[p] = "Commit", req[p].op = "markAsBought", pc'[p] = "ok",
                      Seen(p, u) # attendees[SeatOf(p, u)],
                      attendees[SeatOf(p, u)].paid
               PROVE  attendees'[SeatOf(p, u)].paid /\ attendees'[SeatOf(p, u)].owed = 0
    BY <1>1 DEF vars, SeatOf
  <2> DEFINE k == SeatOf(p, u)
  <2>1. TypeOK /\ pc[p] \notin Answered
    BY <1>1 DEF IInv, Answered
  <2>2. Commit(p) /\ k \in Seat
    BY <1>1, <2>1, AnsweredOk, RequestRows
  <2>3. Holds(p, attendeeLock[k])
    BY DEF Seen
  <2>4. attendees[k] \in AttendeeRow
    BY <1>1, <2>1, <2>2, <2>3 DEF IInv, AttendeeLockInv, Holds, TypeOK, TableTypes
  <2>5. attendeeLock[k].row = Settled(attendees[k])
    BY <1>1, <2>2, <2>3 DEF BookInv, AttendeeVersions, Holds
  <2>6. attendees'[k] = Settled(attendees[k])
    BY <2>2, <2>3, <2>5 DEF Commit, Publish
  <2>7. Settled(attendees[k]).paid /\ Settled(attendees[k]).owed = 0
    BY <2>4 DEF Settled, AttendeeRow
  <2>8. QED
    BY <2>6, <2>7 DEF SeatOf
<1>2. QED
  BY <1>1, BookHolds, PTL DEF Spec, PaidNotCharged

-----------------------------------------------------------------------------
(***************************************************************************)
(* The two races the runs find, and that there are no others: what the     *)
(* log and the error message say is true of every request that nobody      *)
(* overtakes between its queries.                                          *)
(***************************************************************************)
Bought(s) == showings[s] # Absent /\ showings[s].bought

\* p is between the check that it is the admin's and the end of its purchase.
Marking(p) == pc[p] \notin Answered \cup {"AdminOnShowing"} /\ req[p].op = "markAsBought"

\* Nobody else buys the showing of a purchase in progress, hands it over or
\* deletes it; its price may change.
Unovertaken ==
    \A p \in Request : Marking(p) /\ Marking(p)' =>
        LET s == req[p].showing IN
        showings[s] # Absent =>
            /\ showings'[s] # Absent
            /\ showings'[s].admin = showings[s].admin
            /\ showings'[s].bought = showings[s].bought

\* Then the last UPDATE of the purchase finds the row it is meant for.
Marked ==
    \A p \in Request : Marking(p) =>
        /\ Administers(p)
        /\ pc[p] # "ShowingTicketsBought" => ~OwnShowing(p).bought
        /\ pc[p] = "Commit" =>
             LET lock == showingLock[req[p].showing] IN
             /\ Holds(p, lock)
             /\ lock.row.bought
             /\ lock.row.price = req[p].price

\* A step of one request leaves the others where they are, with the showings
\* they have locked.
LEMMA OneMoves ==
  ASSUME IInv, NEW p \in Request, Arrive(p) \/ ArriveCreate(p) \/ Step(p) \/ Fail(p)
  PROVE  /\ \A q \in Request \ {p} : pc'[q] = pc[q] /\ req'[q] = req[q]
         /\ \A s \in Showing : showingLock[s] # NoLock /\ showingLock[s].by # p
                               => showingLock'[s] = showingLock[s]
<1>1. TypeOK /\ SafetyParts
  BY DEF IInv, SafetyParts
<1>2. \A q \in Request \ {p} : pc'[q] = pc[q] /\ req'[q] = req[q]
  <2>1. CASE \E query : Goto(p, query)
    BY <1>1, <2>1 DEF Goto, TypeOK, RequestTypes
  <2>2. CASE \E answer : Answer(p, answer)
    BY <1>1, <2>2 DEF Answer, TypeOK, RequestTypes
  <2>3. CASE \E r : Start(p, r)
    BY <1>1, <2>3 DEF Start, TypeOK, RequestTypes
  <2>4. CASE AttendRead(p)
    BY <1>1, <2>4 DEF AttendRead, Answer, TypeOK, RequestTypes
  <2>5. QED
    BY <2>1, <2>2, <2>3, <2>4
    DEF Step, Arrive, ArriveCreate, Fail, DeadlockVictim, VerifyShowingAdmin, AttendInsert,
        UnattendShowing, LookupMovieTitle, CreateAddScreen, UpdateAddScreen, CreateInsert, CreateAttend, DeleteShowing, CascadeAttendees, MarkRead,
        MarkGCAttendeesAsHavingPaid, UpdateAmountOwedForSwishAttendees, MarkShowingAsBought,
        UpdateShowing, PromoteToAdmin, UpdateAttendeePayment, Commit, ReadBack
<1>3. ASSUME NEW s \in Showing, showingLock[s] # NoLock, showingLock[s].by # p
      PROVE  showingLock'[s] = showingLock[s]
  <2>1. CASE UNCHANGED showingLock
    BY <2>1
  <2>2. CASE Unlock(p)
    BY <1>3, <2>2 DEF Unlock, Holds
  <2>3. CASE CreateInsert(p)
    <3>1. req[p].showing # s
      <4> SUFFICES ASSUME req[p].showing = s PROVE FALSE
        OBVIOUS
      <4> DEFINE q == showingLock[s].by
      <4>1. pc[p] \notin Answered /\ req[p].op = "create"
        BY <1>1, <2>3 DEF CreateInsert, SafetyParts, ControlInv, Answered
      <4>2. q \in Request \ {p}
        BY <1>1, <1>3 DEF TypeOK, TableTypes, Lock
      <4>3. showings[s] = Absent
        BY <1>1, <4>1 DEF SafetyParts, FreshIds
      <4>4. pc[q] \notin Answered /\ req[q].op = "create" /\ req[q].showing = s
        BY <1>1, <1>3, <4>3 DEF SafetyParts, ShowingLockInv, Answered
      <4>5. QED
        BY <1>1, <4>1, <4>2, <4>4 DEF SafetyParts, FreshIds
    <3>2. QED
      BY <1>1, <2>3, <3>1, CreateInsertLocks
  <2>4. CASE DeleteShowing(p) \/ MarkShowingAsBought(p)
    BY <1>1, <1>3, <2>4 DEF DeleteShowing, MarkShowingAsBought, TypeOK, TableTypes
  <2>5. QED
    BY <2>1, <2>2, <2>3, <2>4
    DEF Step, Arrive, ArriveCreate, Fail, DeadlockVictim, VerifyShowingAdmin, AttendRead,
        AttendInsert, UnattendShowing, LookupMovieTitle, CreateAddScreen, UpdateAddScreen,
        CreateAttend, CascadeAttendees, MarkRead,
        MarkGCAttendeesAsHavingPaid, UpdateAmountOwedForSwishAttendees, UpdateShowing,
        PromoteToAdmin, UpdateAttendeePayment, Commit, locks
<1>4. QED
  BY <1>2, <1>3

\* A purchase whose next query is past finds what it needs for the one after.
LEMMA MarkedMove ==
  ASSUME IInv, Marked, NEW p \in Request, Step(p), Marking(p)'
  PROVE  /\ UNCHANGED <<showings, req>>
         /\ Administers(p)
         /\ pc'[p] # "ShowingTicketsBought" => ~OwnShowing(p).bought
         /\ pc'[p] = "Commit" => MarkShowingAsBought(p)
<1>1. TypeOK /\ SafetyParts
  BY DEF IInv, SafetyParts
<1>2. ~\E answer \in Answered : Answer(p, answer)
  BY <1>1 DEF Answer, Marking, TypeOK, RequestTypes
<1>3. ~\E answer \in {"ok", "error"} : Answer(p, answer)
  BY <1>2 DEF Answered
<1>4. ~DeadlockVictim(p) /\ ~ReadBack(p)
  BY <1>3 DEF DeadlockVictim, ReadBack
<1>5. pc[p] \notin Answered
  BY <1>1, <1>4
  DEF Step, VerifyShowingAdmin, AttendRead, AttendInsert, UnattendShowing, LookupMovieTitle,
      CreateAddScreen, UpdateAddScreen, CreateInsert,
      CreateAttend, DeleteShowing, CascadeAttendees, MarkRead, MarkGCAttendeesAsHavingPaid,
      UpdateAmountOwedForSwishAttendees, MarkShowingAsBought, UpdateShowing, PromoteToAdmin,
      UpdateAttendeePayment, Commit, At, Answered
<1>6. CASE VerifyShowingAdmin(p)
  <2>1. Administers(p) /\ Goto(p, Resolve(req[p])) /\ UNCHANGED showings
    BY <1>3, <1>6 DEF VerifyShowingAdmin, tables
  <2>2. req' = req /\ req[p].op = "markAsBought" /\ req[p] \in Arguments
    BY <1>1, <1>5, <2>1, RequestRows DEF Goto, Marking
  <2>3. pc'[p] = "ShowingTicketsBought"
    BY <1>1, <2>1, <2>2, Resolving DEF Goto, TypeOK, RequestTypes
  <2>4. QED
    BY <2>1, <2>2, <2>3
<1>7. CASE MarkRead(p)
  <2>1. Marking(p) /\ ~OwnShowing(p).bought
    BY <1>3, <1>5, <1>7 DEF MarkRead, At, Marking
  <2>2. Goto(p, "MarkGCAttendeesAsHavingPaid") /\ UNCHANGED showings
    BY <1>3, <1>7 DEF MarkRead, tables
  <2>3. pc'[p] = "MarkGCAttendeesAsHavingPaid" /\ req' = req
    BY <1>1, <2>2 DEF Goto, TypeOK, RequestTypes
  <2>4. QED
    BY <2>1, <2>2, <2>3 DEF Marked
<1>8. CASE \/ MarkGCAttendeesAsHavingPaid(p) \/ UpdateAmountOwedForSwishAttendees(p)
           \/ MarkShowingAsBought(p)
  <2>1. /\ pc[p] \in {"MarkGCAttendeesAsHavingPaid", "UpdateAmountOwedForSwishAttendees",
                      "MarkShowingAsBought"}
        /\ UNCHANGED <<showings, req>>
    BY <1>8 DEF MarkGCAttendeesAsHavingPaid, UpdateAmountOwedForSwishAttendees,
                MarkShowingAsBought, Goto, tables
  <2>2. Marking(p)
    BY <1>1, <1>5, <2>1 DEF SafetyParts, ControlInv, Marking
  <2>3. pc'[p] = "Commit" => MarkShowingAsBought(p)
    BY <1>1, <1>8 DEF MarkGCAttendeesAsHavingPaid, UpdateAmountOwedForSwishAttendees, Goto,
                      TypeOK, RequestTypes
  <2>4. QED
    BY <2>1, <2>2, <2>3 DEF Marked
<1>9. CASE CreateInsert(p) \/ CreateAttend(p) \/ DeleteShowing(p)
  <2>1. req[p].op \in {"create", "delete"}
    BY <1>1, <1>5, <1>9 DEF CreateInsert, CreateAttend, DeleteShowing, At, SafetyParts, ControlInv
  <2>2. req' = req
    BY <1>3, <1>9 DEF CreateInsert, CreateAttend, DeleteShowing, Goto
  <2>3. QED
    BY <2>1, <2>2 DEF Marking
<1>10. CASE AttendRead(p)
  <2>1. req[p].op = "attend" /\ req' = [req EXCEPT ![p] = [@ EXCEPT !.price = OwnShowing(p).price]]
    BY <1>3, <1>10 DEF AttendRead, At
  <2>2. req'[p].op = "attend"
    BY <1>1, <1>5, <2>1, RequestRows DEF TypeOK, RequestTypes, Arguments
  <2>3. QED
    BY <2>2 DEF Marking
<1>11. CASE \/ AttendInsert(p) \/ UnattendShowing(p) \/ CascadeAttendees(p) \/ UpdateShowing(p)
            \/ PromoteToAdmin(p) \/ UpdateAttendeePayment(p) \/ Commit(p)
  BY <1>3, <1>4, <1>11
  DEF AttendInsert, UnattendShowing, CascadeAttendees, UpdateShowing, PromoteToAdmin,
      UpdateAttendeePayment, Commit
<1>12. CASE Screening(p)
  <2>1. req[p].op \in {"create", "update"} /\ req' = req
    BY <1>1, <1>12, ScreeningFrame DEF SafetyParts, Goto
  <2>2. QED
    BY <2>1 DEF Marking
<1>13. QED
  BY <1>4, <1>6, <1>7, <1>8, <1>9, <1>10, <1>11, <1>12 DEF Step, Screening

LEMMA MarkedNext ==
  ASSUME IInv, Marked, [Next]_vars, [Unovertaken]_showings
  PROVE  Marked'
<1>1. TypeOK /\ SafetyParts
  BY DEF IInv, SafetyParts
<1> DEFINE Found(r) ==
             /\ Administers(r)'
             /\ pc'[r] # "ShowingTicketsBought" => ~OwnShowing(r)'.bought
             /\ pc'[r] = "Commit" =>
                  /\ Holds(r, showingLock[req[r].showing])'
                  /\ showingLock'[req'[r].showing].row.bought
                  /\ showingLock'[req'[r].showing].row.price = req'[r].price
<1> SUFFICES ASSUME NEW r \in Request, Marking(r)' PROVE Found(r)
  BY DEF Marked
<1>2. ASSUME pc'[r] = pc[r], req'[r] = req[r],
             pc[r] = "Commit" /\ Holds(r, showingLock[req[r].showing]) =>
               showingLock'[req[r].showing] = showingLock[req[r].showing]
      PROVE  Found(r)
  <2>1. Marking(r)
    BY <1>2 DEF Marking
  <2>2. /\ Administers(r)
        /\ pc[r] # "ShowingTicketsBought" => ~OwnShowing(r).bought
        /\ pc[r] = "Commit" => /\ Holds(r, showingLock[req[r].showing])
                               /\ showingLock[req[r].showing].row.bought
                               /\ showingLock[req[r].showing].row.price = req[r].price
    BY <2>1 DEF Marked
  <2>3. /\ showings'[req[r].showing] # Absent
        /\ showings'[req[r].showing].admin = showings[req[r].showing].admin
        /\ showings'[req[r].showing].bought = showings[req[r].showing].bought
    BY <2>1, <2>2 DEF Unovertaken, Administers, OwnShowing
  <2>4. QED
    BY <1>2, <2>2, <2>3 DEF Administers, OwnShowing, Holds
<1>3. CASE UNCHANGED vars
  BY <1>2, <1>3 DEF vars
<1>4. ASSUME NEW p \in Request, p # r, Arrive(p) \/ ArriveCreate(p) \/ Step(p) \/ Fail(p)
      PROVE  Found(r)
  <2>1. pc'[r] = pc[r] /\ req'[r] = req[r]
    BY <1>4, OneMoves
  <2>2. req[r].showing \in Showing
    BY <1>1, <2>1, RequestRows DEF Marking
  <2>3. Holds(r, showingLock[req[r].showing]) =>
          showingLock'[req[r].showing] = showingLock[req[r].showing]
    BY <1>4, <2>2, OneMoves DEF Holds
  <2>4. QED
    BY <1>2, <2>1, <2>3
<1>5. CASE Step(r)
  <2>1. /\ UNCHANGED <<showings, req>>
        /\ Administers(r)
        /\ pc'[r] # "ShowingTicketsBought" => ~OwnShowing(r).bought
        /\ pc'[r] = "Commit" => MarkShowingAsBought(r)
    BY <1>5, MarkedMove
  <2>2. ASSUME pc'[r] = "Commit"
        PROVE  /\ Holds(r, showingLock[req[r].showing])'
               /\ showingLock'[req[r].showing].row.bought
               /\ showingLock'[req[r].showing].row.price = req[r].price
    <3> DEFINE row == [OwnShowing(r) EXCEPT !.bought = TRUE, !.price = req[r].price]
    <3>1. MarkShowingAsBought(r) /\ pc[r] \notin Answered /\ ~OwnShowing(r).bought
      BY <2>1, <2>2 DEF MarkShowingAsBought, Answered
    <3>2. OwnShowing(r) \in ShowingRow /\ req[r].showing \in Showing /\ req[r].price \in Price
      BY <1>1, <2>1, <3>1, RequestRows DEF Administers
    <3>3. showingLock' = [showingLock EXCEPT ![req[r].showing] = [by |-> r, row |-> row]]
      BY <2>1, <3>1 DEF MarkShowingAsBought
    <3>4. row \in ShowingRow /\ row.bought /\ row.price = req[r].price
      BY <3>2 DEF ShowingRow
    <3>5. [by |-> r, row |-> row] # NoLock
      BY <3>4, ShowingsAssumption DEF Lock
    <3>6. showingLock'[req[r].showing] = [by |-> r, row |-> row]
      BY <1>1, <3>2, <3>3 DEF TypeOK, TableTypes
    <3>7. req'[r] = req[r]
      BY <2>1
    <3>8. /\ showingLock'[req[r].showing].by = r
          /\ showingLock'[req[r].showing].row = row
      BY <3>6
    <3> HIDE DEF row
    <3>9. showingLock'[req[r].showing] # NoLock
      BY <3>5, <3>6
    <3> QED
      BY <3>4, <3>7, <3>8, <3>9 DEF Holds
  <2>3. QED
    BY <2>1, <2>2 DEF Administers, OwnShowing
<1>6. CASE Arrive(r) \/ ArriveCreate(r)
  <2>1. PICK a \in Arguments : Start(r, a)
    BY <1>1, <1>6, Arrivals
  <2>2. req'[r] = a /\ pc'[r] = IF a.op \in AdminOnly THEN "AdminOnShowing" ELSE Resolve(a)
    BY <1>1, <2>1 DEF Start, TypeOK, RequestTypes
  <2>3. QED
    BY <2>2 DEF Marking, AdminOnly
<1>7. CASE Fail(r)
  BY <1>1, <1>7 DEF Fail, Answer, Marking, TypeOK, RequestTypes, Answered
<1> HIDE DEF Found
<1>8. QED
  BY <1>3, <1>4, <1>5, <1>6, <1>7 DEF Next

\* A purchase that nobody overtakes does what it logs
\* (showing.resolvers.go:270): the showing is bought at the price given.  So
\* the race of the run showings_marked is the only one there is, with another
\* purchase, a promotion or a deletion on the other side.
THEOREM MarkedUnlessOvertaken == Spec /\ [][Unovertaken]_showings => MarkedIsBought
<1>1. Init => Marked
  BY DEF Init, Marked, Marking, Answered
<1>2. IInv /\ Marked /\ [Next]_vars /\ [Unovertaken]_showings => Marked'
  BY MarkedNext
<1>3. ASSUME IInv, BookInv, Marked, [Next]_vars
      PROVE  [\A p \in Request :
                req[p] # NoRequest /\ req[p].op = "markAsBought" /\ pc[p] = "Commit" /\ pc'[p] = "ok"
                => /\ showings'[req[p].showing] # Absent
                   /\ showings'[req[p].showing].bought
                   /\ showings'[req[p].showing].price = req[p].price]_vars
  <2> SUFFICES ASSUME Next, NEW p \in Request,
                      req[p].op = "markAsBought", pc[p] = "Commit", pc'[p] = "ok"
               PROVE  /\ showings'[req[p].showing] # Absent
                      /\ showings'[req[p].showing].bought
                      /\ showings'[req[p].showing].price = req[p].price
    BY <1>3 DEF vars
  <2>1. TypeOK /\ pc[p] \notin Answered
    BY <1>3 DEF IInv, Answered
  <2>2. Commit(p) /\ req[p].showing \in Showing
    BY <1>3, <2>1, AnsweredOk, RequestRows
  <2>3. /\ Holds(p, showingLock[req[p].showing])
        /\ showingLock[req[p].showing].row.bought
        /\ showingLock[req[p].showing].row.price = req[p].price
    BY <1>3, <2>1 DEF Marked, Marking
  <2>4. showingLock[req[p].showing].row # Absent
    BY <1>3, <2>2, <2>3 DEF IInv, ShowingLockInv, Holds
  <2>5. showings'[req[p].showing] = showingLock[req[p].showing].row
    BY <2>2, <2>3 DEF Commit, Publish
  <2>6. QED
    BY <2>3, <2>4, <2>5
<1>4. QED
  BY <1>1, <1>2, <1>3, BookHolds, PTL DEF Spec, MarkedIsBought

\* p has read that the showing can be attended and is about to insert.
Joining(p) == At(p, "attend", "AddAttendee")

\* No purchase commits between the two queries of an AttendShowing.
UnboughtMeanwhile ==
    \A p \in Request : Joining(p) /\ Joining(p)' =>
        (Bought(req[p].showing)' => Bought(req[p].showing))

\* Whoever is about to insert was told that the showing is not bought.
Joinable == \A p \in Request : Joining(p) => ~Bought(req[p].showing)

LEMMA JoinableNext ==
  ASSUME IInv, Joinable, [Next]_vars, [UnboughtMeanwhile]_showings
  PROVE  Joinable'
<1>1. TypeOK /\ SafetyParts
  BY DEF IInv, SafetyParts
<1> SUFFICES ASSUME NEW r \in Request, Joining(r)'
             PROVE  ~Bought(req[r].showing)'
  BY DEF Joinable
<1>2. ASSUME pc'[r] = pc[r], req'[r] = req[r]
      PROVE  ~Bought(req[r].showing)'
  <2>1. Joining(r) /\ ~Bought(req[r].showing)
    BY <1>2 DEF Joining, At, Joinable
  <2>2. CASE UNCHANGED showings
    BY <1>2, <2>1, <2>2 DEF Bought
  <2>3. CASE UnboughtMeanwhile
    BY <2>1, <2>3 DEF UnboughtMeanwhile
  <2>4. QED
    BY <2>2, <2>3
<1>3. CASE UNCHANGED vars
  BY <1>2, <1>3 DEF vars
<1>4. ASSUME NEW p \in Request, p # r, Arrive(p) \/ ArriveCreate(p) \/ Step(p) \/ Fail(p)
      PROVE  ~Bought(req[r].showing)'
  BY <1>2, <1>4, OneMoves
<1>5. pc'[r] = "AddAttendee" /\ req'[r].op = "attend"
  BY DEF Joining, At
<1>6. ASSUME NEW query, Goto(r, query), query # "AddAttendee" \/ req[r].op # "attend"
      PROVE  FALSE
  BY <1>1, <1>5, <1>6 DEF Goto, TypeOK, RequestTypes
<1>7. ASSUME NEW answer \in Answered, Answer(r, answer)
      PROVE  FALSE
  BY <1>1, <1>5, <1>7 DEF Answer, TypeOK, RequestTypes, Answered
<1>8. ~ReadBack(r) /\ ~Answer(r, "error")
  BY <1>7 DEF ReadBack, Answered
<1>9. CASE AttendRead(r)
  <2>1. /\ ~Bought(req[r].showing) /\ UNCHANGED showings
        /\ req' = [req EXCEPT ![r] = [@ EXCEPT !.price = OwnShowing(r).price]]
    BY <1>8, <1>9 DEF AttendRead, OwnShowing, Bought, tables
  <2>2. req[r] \in Arguments
    BY <1>1, <1>9, RequestRows DEF AttendRead, At, Answered
  <2>3. req'[r].showing = req[r].showing
    BY <1>1, <2>1, <2>2 DEF TypeOK, RequestTypes, Arguments
  <2>4. QED
    BY <2>1, <2>3 DEF Bought
<1>10. CASE VerifyShowingAdmin(r)
  <2>1. Resolve(req[r]) # "AddAttendee" \/ req[r].op # "attend"
    BY <1>1, <1>10 DEF VerifyShowingAdmin, SafetyParts, ControlInv, AdminOnly, Answered
  <2>2. QED
    BY <1>6, <1>8, <1>10, <2>1 DEF VerifyShowingAdmin
<1>11. CASE Arrive(r) \/ ArriveCreate(r)
  <2>1. PICK a \in Arguments : Start(r, a)
    BY <1>1, <1>11, Arrivals
  <2>2. req'[r] = a /\ pc'[r] = IF a.op \in AdminOnly THEN "AdminOnShowing" ELSE Resolve(a)
    BY <1>1, <2>1 DEF Start, TypeOK, RequestTypes
  <2>3. QED
    BY <1>5, <2>2, Resolving DEF AdminOnly
<1>12. CASE CreateInsert(r) \/ CreateAttend(r)
  <2>1. req[r].op = "create"
    BY <1>1, <1>12 DEF CreateInsert, CreateAttend, At, SafetyParts, ControlInv, Answered
  <2>2. QED
    BY <1>6, <1>12, <2>1 DEF CreateInsert, CreateAttend
<1>13. CASE \/ MarkRead(r) \/ MarkGCAttendeesAsHavingPaid(r) \/ UpdateAmountOwedForSwishAttendees(r)
            \/ MarkShowingAsBought(r) \/ DeleteShowing(r)
  BY <1>6, <1>8, <1>13 DEF MarkRead, MarkGCAttendeesAsHavingPaid,
     UpdateAmountOwedForSwishAttendees, MarkShowingAsBought, DeleteShowing
<1>14. CASE \/ AttendInsert(r) \/ UnattendShowing(r) \/ CascadeAttendees(r) \/ UpdateShowing(r)
            \/ PromoteToAdmin(r) \/ UpdateAttendeePayment(r) \/ Commit(r) \/ DeadlockVictim(r)
            \/ Fail(r)
  BY <1>8, <1>14
  DEF AttendInsert, UnattendShowing, CascadeAttendees, UpdateShowing, PromoteToAdmin,
      UpdateAttendeePayment, Commit, DeadlockVictim, Fail
<1>15. CASE Screening(r)
  BY <1>1, <1>6, <1>15, ScreeningFrame DEF SafetyParts
<1>16. QED
  BY <1>3, <1>4, <1>9, <1>10, <1>11, <1>12, <1>13, <1>14, <1>15 DEF Next, Step, Screening

\* An attendee comes by an AttendShowing, or together with a new showing.
LEMMA NewAttendees ==
  ASSUME IInv, Next, NEW k \in Seat, attendees[k] = Absent, attendees'[k] # Absent
  PROVE  \/ \E p \in Request : Joining(p) /\ req[p].showing = k[1]
         \/ showings[k[1]] = Absent
<1>1. TypeOK /\ SafetyParts
  BY DEF IInv, SafetyParts
<1>2. PICK p \in Request : Arrive(p) \/ ArriveCreate(p) \/ Step(p) \/ Fail(p)
  BY DEF Next
<1>3. CASE AttendInsert(p)
  <2> DEFINE own == SeatOf(p, req[p].user)
  <2>1. Joining(p)
    BY <1>3 DEF AttendInsert, Joining
  <2>2. attendees' = attendees \/ \E row : attendees' = [attendees EXCEPT ![own] = row]
    BY <1>3 DEF AttendInsert
  <2>3. k = own
    <3> HIDE DEF own
    <3> QED
      BY <1>1, <2>2 DEF TypeOK, TableTypes
  <2>4. QED
    BY <2>1, <2>3 DEF SeatOf
<1>4. CASE Commit(p)
  <2>1. attendeeLock[k] # NoLock /\ attendeeLock[k].by = p
    BY <1>4 DEF Commit, Publish, Holds
  <2>2. req[p].op = "create" /\ req[p].showing = k[1] /\ pc[p] \notin Answered
    BY <1>1, <1>4, <2>1 DEF Commit, SafetyParts, AttendeeLockInv, Answered
  <2>3. QED
    BY <1>1, <2>2 DEF SafetyParts, FreshIds
<1>5. CASE UpdateAttendeePayment(p)
  <2>1. PICK u \in User :
          \/ attendees' = attendees
          \/ /\ attendees[SeatOf(p, u)] # Absent
             /\ \E row : attendees' = [attendees EXCEPT ![SeatOf(p, u)] = row]
    BY <1>5 DEF UpdateAttendeePayment
  <2>2. QED
    BY <1>1, <2>1 DEF TypeOK, TableTypes
<1>6. CASE UnattendShowing(p) \/ CascadeAttendees(p)
  BY <1>1, <1>6 DEF UnattendShowing, CascadeAttendees, TypeOK, TableTypes
<1>7. QED
  BY <1>2, <1>3, <1>4, <1>5, <1>6
  DEF Step, Arrive, ArriveCreate, Fail, DeadlockVictim, VerifyShowingAdmin, AttendRead,
      LookupMovieTitle, CreateAddScreen, UpdateAddScreen, CreateInsert, CreateAttend,
      DeleteShowing, MarkRead, MarkGCAttendeesAsHavingPaid,
      UpdateAmountOwedForSwishAttendees, MarkShowingAsBought, UpdateShowing, PromoteToAdmin,
      tables

\* "cannot attend a showing that has already been bought"
\* (showing.resolvers.go:40) is true of whoever attends while no purchase
\* commits between the two queries: the race of the run showings_join_bought
\* is the only way into a bought showing.
THEOREM JoinedUnlessBoughtMeanwhile ==
  Spec /\ [][UnboughtMeanwhile]_showings => NobodyJoinsBought
<1>1. Init => Joinable
  BY DEF Init, Joinable, Joining, At
<1>2. IInv /\ Joinable /\ [Next]_vars /\ [UnboughtMeanwhile]_showings => Joinable'
  BY JoinableNext
<1>3. IInv /\ Joinable /\ [Next]_vars =>
        [\A k \in Seat :
           attendees[k] = Absent /\ attendees'[k] # Absent /\ showings[k[1]] # Absent
           => ~showings[k[1]].bought]_vars
  BY NewAttendees DEF Joinable, Bought
<1>4. QED
  BY <1>1, <1>2, <1>3, Inductive, PTL DEF Spec, NobodyJoinsBought

-----------------------------------------------------------------------------
(***************************************************************************)
(* The former admin.  What the directive has checked stays true for a      *)
(* mutation as long as nobody else is made the admin of its showing.       *)
(***************************************************************************)
\* p has passed the directive and its resolver is at work.
Checked(p) == pc[p] \notin Answered \cup {"AdminOnShowing"} /\ req[p].op \in AdminOnly

\* The showing of a mutation that has been checked keeps its admin while it
\* is there; it may be deleted.
NotHandedOver ==
    \A p \in Request : Checked(p) /\ Checked(p)' =>
        LET s == req[p].showing IN
        showings[s] # Absent /\ showings'[s] # Absent => showings'[s].admin = showings[s].admin

\* Then it is still that of its admin, or gone for good.
Vetted ==
    \A p \in Request : Checked(p) =>
        /\ Administers(p) \/ OwnShowing(p) = Absent
        /\ pc[p] # "DeleteAttendee"
        /\ \A q \in Request : pc[q] \notin Answered /\ req[q].op = "create"
                              => req[q].showing # req[p].showing

\* A showing appears only when the request that creates it commits.
LEMMA ShowingAppears ==
  ASSUME IInv, NEW p \in Request, Arrive(p) \/ ArriveCreate(p) \/ Step(p) \/ Fail(p),
         NEW s \in Showing, showings[s] = Absent, showings'[s] # Absent
  PROVE  pc[p] \notin Answered /\ req[p].op = "create" /\ req[p].showing = s
<1>1. TypeOK /\ SafetyParts
  BY DEF IInv, SafetyParts
<1>2. CASE Commit(p)
  BY <1>1, <1>2 DEF Commit, Publish, Holds, SafetyParts, ShowingLockInv, Answered
<1>3. CASE UpdateShowing(p) \/ PromoteToAdmin(p)
  BY <1>1, <1>3 DEF UpdateShowing, PromoteToAdmin, Administers, OwnShowing, TypeOK, TableTypes
<1>4. CASE CascadeAttendees(p)
  BY <1>1, <1>4 DEF CascadeAttendees, TypeOK, TableTypes
<1>5. QED
  BY <1>2, <1>3, <1>4
  DEF Step, Arrive, ArriveCreate, Fail, DeadlockVictim, VerifyShowingAdmin, AttendRead,
      AttendInsert, UnattendShowing, LookupMovieTitle, CreateAddScreen, UpdateAddScreen,
      CreateInsert, CreateAttend, DeleteShowing, MarkRead, MarkGCAttendeesAsHavingPaid,
      UpdateAmountOwedForSwishAttendees, MarkShowingAsBought, UpdateAttendeePayment, tables

\* How a request gets to where it is checked: by the directive, or from there.
LEMMA CheckedMove ==
  ASSUME IInv, NEW p \in Request, Arrive(p) \/ ArriveCreate(p) \/ Step(p) \/ Fail(p), Checked(p)'
  PROVE  /\ UNCHANGED <<showings, req>>
         /\ \/ Checked(p) /\ pc'[p] # "DeleteAttendee"
            \/ VerifyShowingAdmin(p) /\ Administers(p) /\ pc'[p] # "DeleteAttendee"
<1>1. TypeOK /\ SafetyParts
  BY DEF IInv, SafetyParts
<1>2. ~\E answer \in Answered : Answer(p, answer)
  BY <1>1 DEF Answer, Checked, TypeOK, RequestTypes
<1>3. ~Answer(p, "error") /\ ~ReadBack(p)
  BY <1>2 DEF ReadBack, Answered
<1>4. ~Arrive(p) /\ ~ArriveCreate(p)
  <2> SUFFICES ASSUME Arrive(p) \/ ArriveCreate(p) PROVE FALSE
    OBVIOUS
  <2>1. PICK a \in Arguments : Start(p, a)
    BY <1>1, Arrivals
  <2>2. req'[p] = a /\ pc'[p] = IF a.op \in AdminOnly THEN "AdminOnShowing" ELSE Resolve(a)
    BY <1>1, <2>1 DEF Start, TypeOK, RequestTypes
  <2>3. QED
    BY <2>2 DEF Checked
<1>5. CASE VerifyShowingAdmin(p)
  <2>1. Administers(p) /\ Goto(p, Resolve(req[p])) /\ UNCHANGED showings
    BY <1>3, <1>5 DEF VerifyShowingAdmin, tables
  <2>2. req[p] \in Arguments /\ req[p].op \in AdminOnly
    BY <1>1, <1>5, RequestRows DEF VerifyShowingAdmin, SafetyParts, ControlInv, Answered
  <2>3. Resolve(req[p]) # "DeleteAttendee"
    BY <2>2, Resolving DEF AdminOnly
  <2>4. QED
    BY <1>1, <1>5, <2>1, <2>3 DEF Goto, TypeOK, RequestTypes
<1>6. CASE AttendRead(p)
  <2>1. req' = [req EXCEPT ![p] = [@ EXCEPT !.price = OwnShowing(p).price]]
    BY <1>3, <1>6 DEF AttendRead
  <2>2. req[p] \in Arguments /\ req[p].op = "attend"
    BY <1>1, <1>6, RequestRows DEF AttendRead, At, Answered
  <2>3. req'[p].op = "attend"
    BY <1>1, <2>1, <2>2 DEF TypeOK, RequestTypes, Arguments
  <2>4. QED
    BY <2>3 DEF Checked, AdminOnly
<1>7. CASE \E query \in Query \ {"DeleteAttendee"} :
             Goto(p, query) /\ UNCHANGED showings
             /\ pc[p] \notin Answered \cup {"AdminOnShowing"}
  BY <1>1, <1>7 DEF Goto, Checked, TypeOK, RequestTypes
<1>8. QED
  BY <1>3, <1>4, <1>5, <1>6, <1>7
  DEF Step, Fail, DeadlockVictim, AttendInsert, UnattendShowing, LookupMovieTitle,
      CreateAddScreen, UpdateAddScreen, CreateInsert, CreateAttend, DeleteShowing,
      CascadeAttendees, MarkRead, MarkGCAttendeesAsHavingPaid,
      UpdateAmountOwedForSwishAttendees, MarkShowingAsBought, UpdateShowing, PromoteToAdmin,
      UpdateAttendeePayment, Commit, At, tables, Query, Answered

LEMMA VettedNext ==
  ASSUME IInv, Vetted, [Next]_vars, [NotHandedOver]_showings
  PROVE  Vetted'
<1>1. TypeOK /\ SafetyParts
  BY DEF IInv, SafetyParts
<1>2. CASE UNCHANGED vars
  BY <1>2 DEF vars, Vetted, Checked, Administers, OwnShowing
<1>3. ASSUME NEW p \in Request, Arrive(p) \/ ArriveCreate(p) \/ Step(p) \/ Fail(p),
             NEW r \in Request, Checked(r)'
      PROVE  /\ Administers(r)' \/ OwnShowing(r)' = Absent
             /\ pc'[r] # "DeleteAttendee"
             /\ \A q \in Request : pc'[q] \notin Answered /\ req'[q].op = "create"
                                   => req'[q].showing # req'[r].showing
  <2>1. \A q \in Request \ {p} : pc'[q] = pc[q] /\ req'[q] = req[q]
    BY <1>3, OneMoves
  <2>2. /\ req'[r] = req[r] /\ pc[r] \notin Answered
        /\ Administers(r) \/ OwnShowing(r) = Absent
        /\ pc'[r] # "DeleteAttendee"
        /\ \A q \in Request : pc[q] \notin Answered /\ req[q].op = "create"
                              => req[q].showing # req[r].showing
    <3>1. CASE Checked(r) /\ req'[r] = req[r] /\ pc'[r] # "DeleteAttendee"
      BY <3>1 DEF Vetted, Checked
    <3>2. CASE VerifyShowingAdmin(r) /\ Administers(r) /\ pc'[r] # "DeleteAttendee" /\ req' = req
      <4>1. pc[r] \notin Answered
        BY <3>2 DEF VerifyShowingAdmin, Answered
      <4>2. showings[req[r].showing] # Absent
        BY <3>2 DEF Administers, OwnShowing
      <4>3. QED
        BY <1>1, <3>2, <4>1, <4>2 DEF SafetyParts, FreshIds
    <3>3. CASE r # p
      BY <2>1, <3>3, <1>3 DEF Vetted, Checked
    <3>4. QED
      BY <1>3, <3>1, <3>2, <3>3, CheckedMove
  <2>3. req[r].showing \in Showing /\ req[r].showing \notin unused
    BY <1>1, <2>2, RequestRows DEF SafetyParts, FreshIds
  <2>4. \A q \in Request : pc'[q] \notin Answered /\ req'[q].op = "create"
                           => req'[q].showing # req'[r].showing
    <3>1. CASE Arrive(p) \/ ArriveCreate(p)
      <4>1. PICK a \in Arguments : /\ Start(p, a)
                                   /\ a.op = "create" => a.showing \in unused
        BY <1>1, <3>1, Arrivals
      <4>2. req'[p] = a
        BY <1>1, <4>1 DEF Start, TypeOK, RequestTypes
      <4>3. QED
        BY <2>1, <2>2, <2>3, <4>1, <4>2
    <3>2. CASE pc'[p] \in Answered
      BY <2>1, <2>2, <3>2
    <3>3. CASE pc[p] \notin Answered /\ req'[p].op = req[p].op /\ req'[p].showing = req[p].showing
      BY <2>1, <2>2, <3>3
    <3>4. QED
      <4>1. CASE \E answer \in Answered : Answer(p, answer)
        BY <1>1, <3>2, <4>1 DEF Answer, TypeOK, RequestTypes
      <4>2. CASE \E query : Goto(p, query) /\ pc[p] \notin Answered
        BY <3>3, <4>2 DEF Goto
      <4>3. CASE AttendRead(p) /\ ~Answer(p, "error")
        <5>1. pc[p] \notin Answered /\ req[p] \in Arguments
          BY <1>1, <4>3, RequestRows DEF AttendRead, At, Answered
        <5>2. req'[p] = [req[p] EXCEPT !.price = OwnShowing(p).price]
          BY <1>1, <4>3 DEF AttendRead, TypeOK, RequestTypes
        <5>3. QED
          BY <3>3, <5>1, <5>2 DEF Arguments
      <4>4. QED
        BY <1>3, <3>1, <4>1, <4>2, <4>3
        DEF Step, Fail, DeadlockVictim, VerifyShowingAdmin, AttendInsert, UnattendShowing,
            LookupMovieTitle, CreateAddScreen, UpdateAddScreen, CreateInsert, CreateAttend,
            DeleteShowing, CascadeAttendees, MarkRead, MarkGCAttendeesAsHavingPaid,
            UpdateAmountOwedForSwishAttendees, MarkShowingAsBought, UpdateShowing,
            PromoteToAdmin, UpdateAttendeePayment, Commit, ReadBack, At, Answered
  <2>5. Administers(r)' \/ OwnShowing(r)' = Absent
    <3>1. CASE UNCHANGED showings
      BY <2>2, <3>1 DEF Administers, OwnShowing
    <3>2. CASE OwnShowing(r) = Absent
      BY <1>3, <2>2, <2>3, <3>2, ShowingAppears DEF OwnShowing
    <3>3. CASE OwnShowing(r) # Absent /\ showings' # showings
      <4>1. Checked(r)
        BY <1>3, <2>1, <3>3, CheckedMove DEF Checked
      <4>2. NotHandedOver
        BY <3>3
      <4>3. QED
        BY <1>3, <2>2, <3>3, <4>1, <4>2 DEF NotHandedOver, Administers, OwnShowing
    <3>4. QED
      BY <3>1, <3>2, <3>3
  <2>6. QED
    BY <2>2, <2>4, <2>5
<1>4. QED
  BY <1>2, <1>3 DEF Next, Vetted

\* A mutation for admins that changes a showing or its attendees.
LEMMA AdminStep ==
  ASSUME IInv, Vetted, NEW p \in Request, Arrive(p) \/ ArriveCreate(p) \/ Step(p) \/ Fail(p),
         req[p] # NoRequest, req[p].op \in AdminOnly,
         <<showings', attendees'>> # <<showings, attendees>>
  PROVE  Administers(p)
<1>1. TypeOK /\ SafetyParts /\ pc[p] \notin Answered
  BY DEF IInv, SafetyParts, TypeOK, RequestTypes
<1>2. req[p].showing \in Showing
  BY <1>1, RequestRows
<1>3. \/ UpdateShowing(p) \/ PromoteToAdmin(p) \/ CascadeAttendees(p)
      \/ UpdateAttendeePayment(p) \/ Commit(p)
  <2>1. ~UnattendShowing(p)
    BY <1>1 DEF UnattendShowing, Vetted, Checked, Answered
  <2>2. QED
    BY <2>1
    DEF Step, Arrive, ArriveCreate, Fail, DeadlockVictim, VerifyShowingAdmin, AttendRead,
        AttendInsert, LookupMovieTitle, CreateAddScreen, UpdateAddScreen, CreateInsert,
        CreateAttend, DeleteShowing, MarkRead, MarkGCAttendeesAsHavingPaid, AdminOnly,
        UpdateAmountOwedForSwishAttendees, MarkShowingAsBought, At, tables
<1>4. CASE UpdateShowing(p) \/ PromoteToAdmin(p)
  BY <1>4 DEF UpdateShowing, PromoteToAdmin
<1>5. ~UpdateShowing(p) /\ ~PromoteToAdmin(p) => Administers(p) \/ OwnShowing(p) = Absent
  BY <1>1, <1>3 DEF Checked, Vetted, CascadeAttendees, UpdateAttendeePayment, Commit
<1>6. CASE CascadeAttendees(p)
  <2>1. OwnShowing(p) # Absent
    BY <1>1, <1>2, <1>6
    DEF CascadeAttendees, SafetyParts, ControlInv, ShowingLockInv, Holds, OwnShowing, AdminOnly
  <2>2. QED
    BY <1>4, <1>5, <2>1
<1>7. CASE UpdateAttendeePayment(p)
  <2>1. PICK u \in User : attendees[SeatOf(p, u)] # Absent
    BY <1>7 DEF UpdateAttendeePayment
  <2>2. OwnShowing(p) # Absent
    BY <1>1, <1>2, <2>1 DEF SafetyParts, NoOrphans, SeatOf, Seat, OwnShowing
  <2>3. QED
    BY <1>4, <1>5, <2>2
<1>8. CASE Commit(p)
  <2>1. req[p].op # "create"
    BY DEF AdminOnly
  <2>2. ASSUME OwnShowing(p) = Absent
        PROVE  FALSE
    <3>1. \A s \in Showing : ~Holds(p, showingLock[s])
      BY <1>1, <2>1, <2>2 DEF SafetyParts, ShowingLockInv, Holds, OwnShowing
    <3>2. \A k \in Seat : ~Holds(p, attendeeLock[k])
      BY <1>1, <2>1, <2>2 DEF SafetyParts, AttendeeLockInv, NoOrphans, Holds, OwnShowing
    <3>3. UNCHANGED <<showings, attendees>>
      BY <1>1, <1>8, <3>1, <3>2 DEF Commit, Publish, TypeOK, TableTypes
    <3>4. QED
      BY <3>3
  <2>3. QED
    BY <1>4, <1>5, <2>2
<1>9. QED
  BY <1>3, <1>4, <1>6, <1>7, <1>8

\* "you must be a showing admin for this" (showing_admin_auth.go:41) is true
\* of every change a mutation for admins makes, a deletion and a payment
\* included, unless the showing is handed over between the check and the
\* change: the race of the run showings_handed_over is the only one there is.
THEOREM ChangedByAdminUnlessHandedOver ==
  Spec /\ [][NotHandedOver]_showings => OnlyAdminChanges
<1>1. Init => Vetted
  BY DEF Init, Vetted, Checked, Answered
<1>2. IInv /\ Vetted /\ [Next]_vars /\ [NotHandedOver]_showings => Vetted'
  BY VettedNext
<1>3. ASSUME IInv, Vetted, [Next]_vars
      PROVE  [\A p \in Request :
                /\ req[p] # NoRequest /\ req[p].op \in AdminOnly /\ pc'[p] # pc[p]
                /\ <<showings', attendees'>> # <<showings, attendees>>
                => Administers(p)]_vars
  <2> SUFFICES ASSUME Next, NEW p \in Request,
                      req[p] # NoRequest, req[p].op \in AdminOnly, pc'[p] # pc[p],
                      <<showings', attendees'>> # <<showings, attendees>>
               PROVE  Administers(p)
    BY <1>3 DEF vars
  <2>1. PICK q \in Request : Arrive(q) \/ ArriveCreate(q) \/ Step(q) \/ Fail(q)
    BY DEF Next
  <2>2. q = p
    BY <1>3, <2>1, OneMoves
  <2>3. QED
    BY <1>3, <2>1, <2>2, AdminStep
<1>4. QED
  BY <1>1, <1>2, <1>3, Inductive, PTL DEF Spec, OnlyAdminChanges
=============================================================================
