------------------------------ MODULE Accounts ------------------------------
(***************************************************************************)
(* Signing in, the sessions in Redis, and the gift certificates a signed-  *)
(* in user adds and deletes (internal/auth0/handlers.go, internal/session/ *)
(* client.go, internal/middleware/session.go, users.resolvers.go).         *)
(*                                                                         *)
(* Every command to Redis and every query is a step of its own, and other  *)
(* requests run in between.  AddGiftCertificates is one transaction, and   *)
(* its INSERT waits for another transaction that has inserted the same     *)
(* number.  A command may be executed although its answer is lost: the     *)
(* step is taken and the next one fails.  The server may be restarted: its *)
(* requests are lost, Postgres rolls their transactions back, and Redis    *)
(* keeps the sessions.                                                     *)
(***************************************************************************)
EXTENDS Naturals, Sequences, FiniteSets, Deadlocks

CONSTANTS
    Session,        \* session ids; uuid.NewString never returns one twice
    User,           \* users, by the subject Auth0 knows them by
    Number,         \* numbers of gift certificates
    Date,           \* days on which they expire
    Today, NextYear,
    Request,
    List,           \* the lists of gift certificates a request may send
    SignedIn,       \* who has signed in with which session at the start
    MaxRestarts,    \* bound: restarts of the server
    NoUser, NoCert, NoCookie, NoDate

VARIABLES
    sessions,       \* Redis: the principal stored under a session id
    users,          \* table users
    certs,          \* table gift_certificate, as committed
    used,           \* the gift certificates that attendees use
    boot,           \* counts the starts of the server
    states,         \* the starts whose key has encrypted a state Auth0 holds
    asked,          \* what each request asks for
    pc,             \* the step it is at
    caller,         \* the principal, or the subject Auth0 has named
    tx,             \* the requests with an open transaction
    added,          \* the number of certificates it has inserted
    holder          \* history: who signed in with a session

redis == <<sessions, holder>>
tables == <<users, certs, used>>
server == <<boot, states>>
vars == <<redis, tables, server, asked, pc, caller, tx, added>>

Certificate == [number : Number, expires : Date \cup {NoDate}]
Row == [user : User, expires : Date]

ASSUME AccountsAssumption ==
    /\ Today \in Date /\ NextYear \in Date /\ NoDate \notin Date
    /\ NoUser \notin User /\ NoCookie \notin Session
    /\ NoCert \notin [user : User \cup {NoUser}, expires : Date \cup {NoDate}]
    /\ List \subseteq Seq(Certificate)
    /\ SignedIn \in [Session -> User \cup {NoUser}]
    /\ IsFiniteSet(Request)
    /\ MaxRestarts \in Nat

\* What a request may ask for.  AuthorizeSession refuses a gift certificate
\* without a cookie as it does one with the cookie of a session that is gone.
Cookie == Session \cup {NoCookie}
Question ==
    [op : {"login", "logout"}, cookie : Cookie, list : {<<>>}, state : {0}]
    \cup [op : {"callback"}, cookie : {NoCookie}, list : {<<>>}, state : 0..(MaxRestarts + 1)]
    \cup [op : {"addGiftCertificates"}, cookie : Session, list : List, state : {0}]
    \cup [op : {"deleteGiftCertificate"}, cookie : Session,
          list : {list \in List : Len(list) = 1}, state : {0}]

Answered == {"ok", "error", "lost"}
Stage == {"idle", "GET", "EXPIRE", "ExchangeCode", "CreateUpdateUser", "SET", "DEL",
          "TX", "AddGiftCertificate", "DeleteGiftCertificate", "answer"} \cup Answered

\* The first step of each handler.
Entry ==
    [login |-> "GET", callback |-> "ExchangeCode", logout |-> "DEL",
     addGiftCertificates |-> "GET", deleteGiftCertificate |-> "GET"]

\* The step that follows a successful Lookup.
Authorized ==
    [login |-> "answer", addGiftCertificates |-> "TX",
     deleteGiftCertificate |-> "DeleteGiftCertificate"]

\* The expiry that stands for none: a year from now for a new certificate,
\* but today for one to delete.
Expiry ==
    [addGiftCertificates |->
        [d \in Date \cup {NoDate} |-> IF d = NoDate THEN NextYear ELSE d],
     deleteGiftCertificate |->
        [d \in Date \cup {NoDate} |-> IF d = NoDate THEN Today ELSE d]]

\* The server has just started, again or for the first time: people have
\* signed in before, and some are on their way back from Auth0.
Init ==
    /\ holder = SignedIn
    /\ sessions = SignedIn
    /\ users = {SignedIn[s] : s \in Session} \ {NoUser}
    /\ certs = [n \in Number |-> NoCert]
    /\ used = {}
    /\ boot = 1
    /\ states = {0}
    /\ asked = [r \in Request |-> [op |-> "logout", cookie |-> NoCookie, list |-> <<>>, state |-> 0]]
    /\ pc = [r \in Request |-> "idle"]
    /\ caller = [r \in Request |-> NoUser]
    /\ tx = {}
    /\ added = [r \in Request |-> 0]
-----------------------------------------------------------------------------
Goto(r, stage) == pc' = [pc EXCEPT ![r] = stage]

\* Whoever holds the cookie of a session may send it, and whoever has been
\* to Auth0 returns with the state it took there.
Arrive(r) ==
    /\ pc[r] = "idle"
    /\ \E question \in Question :
         /\ question.cookie # NoCookie => holder[question.cookie] # NoUser
         /\ question.op = "callback" => question.state \in states
         /\ asked' = [asked EXCEPT ![r] = question]
         /\ Goto(r, Entry[question.op])
    /\ UNCHANGED <<redis, tables, server, caller, tx, added>>

(***************************************************************************)
(* Sessions.                                                               *)
(***************************************************************************)
\* Lookup: without a cookie or a session, or when Redis fails, a visitor to
\* /login is sent to Auth0, and everybody else refused.
Refuse(r) ==
    /\ pc[r] \in {"GET", "EXPIRE"}
    /\ IF asked[r].op = "login"
       THEN Goto(r, "ok") /\ states' = states \cup {boot}
       ELSE Goto(r, "error") /\ UNCHANGED states
    /\ UNCHANGED <<redis, tables, boot, asked, caller, tx, added>>

GetFromCache(r) ==
    /\ pc[r] = "GET"
    /\ asked[r].cookie # NoCookie
    /\ sessions[asked[r].cookie] # NoUser
    /\ caller' = [caller EXCEPT ![r] = sessions[asked[r].cookie]]
    /\ Goto(r, "EXPIRE")
    /\ UNCHANGED <<redis, tables, server, asked, tx, added>>

\* Mutant: the session is extended by storing it again.
ExtendBySet(r) ==
    /\ pc[r] = "EXPIRE"
    /\ sessions' = [sessions EXCEPT ![asked[r].cookie] = caller[r]]
    /\ Goto(r, Authorized[asked[r].op])
    /\ UNCHANGED <<holder, tables, server, asked, caller, tx, added>>

\* EXPIRE is no error for a session that has gone since, nor creates it.
Extend(r) ==
    /\ pc[r] = "EXPIRE"
    /\ Goto(r, Authorized[asked[r].op])
    /\ UNCHANGED <<redis, tables, server, asked, caller, tx, added>>

\* The state must be one this process has encrypted.  Auth0 may also turn
\* the code down; see Fail.
ExchangeCode(r) ==
    /\ pc[r] = "ExchangeCode"
    /\ asked[r].state = boot
    /\ \E u \in User : caller' = [caller EXCEPT ![r] = u]
    /\ Goto(r, "CreateUpdateUser")
    /\ UNCHANGED <<redis, tables, server, asked, tx, added>>

CreateUpdateUser(r) ==
    /\ pc[r] = "CreateUpdateUser"
    /\ users' = users \cup {caller[r]}
    /\ Goto(r, "SET")
    /\ UNCHANGED <<redis, certs, used, server, asked, caller, tx, added>>

Start(r) ==
    /\ pc[r] = "SET"
    /\ \E s \in Session :
         /\ holder[s] = NoUser
         /\ sessions' = [sessions EXCEPT ![s] = caller[r]]
         /\ holder' = [holder EXCEPT ![s] = caller[r]]
    /\ Goto(r, "answer")
    /\ UNCHANGED <<tables, server, asked, caller, tx, added>>

\* Without a cookie there is nothing to end.
Invalidate(r) ==
    LET s == asked[r].cookie IN
    /\ pc[r] = "DEL"
    /\ IF s = NoCookie THEN UNCHANGED sessions
                       ELSE sessions' = [sessions EXCEPT ![s] = NoUser]
    /\ Goto(r, "answer")
    /\ UNCHANGED <<holder, tables, server, asked, caller, tx, added>>

\* Redis forgets a session nobody has extended in time.
Expire(s) ==
    /\ sessions[s] # NoUser
    /\ sessions' = [sessions EXCEPT ![s] = NoUser]
    /\ UNCHANGED <<holder, tables, server, asked, pc, caller, tx, added>>
-----------------------------------------------------------------------------
(***************************************************************************)
(* Gift certificates.                                                      *)
(***************************************************************************)
\* The numbers an open transaction has inserted.
Inserted(r) ==
    IF r \in tx THEN {asked[r].list[i].number : i \in 1..added[r]} ELSE {}

More(r) == pc[r] = "AddGiftCertificate" /\ added[r] < Len(asked[r].list)
NextNumber(r) == asked[r].list[added[r] + 1].number

\* The unique index makes an INSERT wait for the transaction that has
\* inserted the number, whether it will commit or not.
WaitsFor(r, q) == q # r /\ More(r) /\ NextNumber(r) \in Inserted(q)
Waiting(r) == \E q \in Request : WaitsFor(r, q)
Waits == {w \in Request \X Request : WaitsFor(w[1], w[2])}

BeginTX(r) ==
    /\ pc[r] = "TX"
    /\ tx' = tx \cup {r}
    /\ Goto(r, "AddGiftCertificate")
    /\ UNCHANGED <<redis, tables, server, asked, caller, added>>

\* Mutant: the certificate is inserted outside the transaction.
AddGiftCertificateOutside(r) ==
    /\ More(r)
    /\ ~Waiting(r)
    /\ certs[NextNumber(r)] = NoCert
    /\ certs' = [certs EXCEPT ![NextNumber(r)] =
            [user |-> caller[r],
             expires |-> Expiry[asked[r].op][asked[r].list[added[r] + 1].expires]]]
    /\ added' = [added EXCEPT ![r] = @ + 1]
    /\ UNCHANGED <<redis, users, used, server, asked, pc, caller, tx>>

AddGiftCertificate(r) ==
    /\ More(r)
    /\ ~Waiting(r)
    /\ certs[NextNumber(r)] = NoCert
    /\ NextNumber(r) \notin Inserted(r)
    /\ added' = [added EXCEPT ![r] = @ + 1]
    /\ UNCHANGED <<redis, tables, server, asked, pc, caller, tx>>

\* The row of the certificate at place i of the list.
NewRow(r, i) ==
    [user |-> caller[r], expires |-> Expiry[asked[r].op][asked[r].list[i].expires]]

Published(r) ==
    [n \in Number |->
        IF n \in Inserted(r)
        THEN NewRow(r, CHOOSE i \in 1..added[r] : asked[r].list[i].number = n)
        ELSE certs[n]]

\* Mutant: the user is fetched for the answer before the commit, and an
\* error returned at once.
CommitAfterFetch(r) ==
    /\ pc[r] = "AddGiftCertificate"
    /\ added[r] = Len(asked[r].list)
    /\ \/ certs' = Published(r) /\ tx' = tx \ {r} /\ Goto(r, "answer")
       \/ Goto(r, "error") /\ UNCHANGED <<certs, tx>>
    /\ UNCHANGED <<redis, users, used, server, asked, caller, added>>

Commit(r) ==
    /\ pc[r] = "AddGiftCertificate"
    /\ added[r] = Len(asked[r].list)
    /\ certs' = Published(r)
    /\ tx' = tx \ {r}
    /\ Goto(r, "answer")
    /\ UNCHANGED <<redis, users, used, server, asked, caller, added>>

\* A certificate of the caller with this number and expiry, if there is one.
\* The foreign key of an attendee that uses it would set both its columns to
\* null, and user_id may not be null: the query fails, see Fail.
DeleteGiftCertificate(r) ==
    LET n == asked[r].list[1].number
        found == certs[n] = NewRow(r, 1)
    IN  /\ pc[r] = "DeleteGiftCertificate"
        /\ ~(found /\ n \in used)
        /\ certs' = IF found THEN [certs EXCEPT ![n] = NoCert] ELSE certs
        /\ Goto(r, "answer")
        /\ UNCHANGED <<redis, users, used, server, asked, caller, tx, added>>

\* AttendShowing with a gift certificate of one's own that nobody has used.
AddAttendee(n) ==
    /\ certs[n] # NoCert
    /\ n \notin used
    /\ used' = used \cup {n}
    /\ UNCHANGED <<redis, users, certs, server, asked, pc, caller, tx, added>>

DeleteAttendee(n) ==
    /\ n \in used
    /\ used' = used \ {n}
    /\ UNCHANGED <<redis, users, certs, server, asked, pc, caller, tx, added>>
-----------------------------------------------------------------------------
\* The answer is written, for a gift certificate with the user it fetches.
Answer(r) ==
    /\ pc[r] = "answer"
    /\ Goto(r, "ok")
    /\ UNCHANGED <<redis, tables, server, asked, caller, tx, added>>

\* Mutant: the transaction is not rolled back.
FailKeepsTX(r) ==
    /\ pc[r] \notin {"idle", "GET", "EXPIRE"} \cup Answered
    /\ Waiting(r) => InCircle(Waits, r)
    /\ Goto(r, "error")
    /\ UNCHANGED <<redis, tables, server, asked, caller, tx, added>>

\* A step other than those of Lookup fails, and the transaction is rolled
\* back.  A query that waits fails only when Postgres ends a deadlock.
Fail(r) ==
    /\ pc[r] \notin {"idle", "GET", "EXPIRE"} \cup Answered
    /\ Waiting(r) => InCircle(Waits, r)
    /\ Goto(r, "error")
    /\ tx' = tx \ {r}
    /\ UNCHANGED <<redis, tables, server, asked, caller, added>>

\* The process ends and starts with a new key.
Restart ==
    /\ boot <= MaxRestarts
    /\ boot' = boot + 1
    /\ pc' = [r \in Request |-> IF pc[r] \in {"idle"} \cup Answered THEN pc[r] ELSE "lost"]
    /\ tx' = {}
    /\ UNCHANGED <<redis, tables, states, asked, caller, added>>

Step(r) ==
    \/ Refuse(r) \/ GetFromCache(r) \/ Extend(r)
    \/ ExchangeCode(r) \/ CreateUpdateUser(r) \/ Start(r) \/ Invalidate(r)
    \/ BeginTX(r) \/ AddGiftCertificate(r) \/ Commit(r) \/ DeleteGiftCertificate(r)
    \/ Answer(r) \/ Fail(r)

Next ==
    \/ \E r \in Request : Arrive(r) \/ Step(r)
    \/ \E s \in Session : Expire(s)
    \/ \E n \in Number : AddAttendee(n) \/ DeleteAttendee(n)
    \/ Restart

Spec == Init /\ [][Next]_vars
FairSpec == Spec /\ \A r \in Request : WF_vars(Step(r))
-----------------------------------------------------------------------------
(***************************************************************************)
(* Properties.                                                             *)
(***************************************************************************)
TypeOK ==
    /\ sessions \in [Session -> User \cup {NoUser}]
    /\ holder \in [Session -> User \cup {NoUser}]
    /\ users \subseteq User
    /\ certs \in [Number -> Row \cup {NoCert}]
    /\ used \subseteq Number
    /\ boot \in 1..(MaxRestarts + 1)
    /\ states \subseteq 0..boot
    /\ asked \in [Request -> Question]
    /\ pc \in [Request -> Stage]
    /\ caller \in [Request -> User \cup {NoUser}]
    /\ tx \subseteq Request
    /\ added \in [Request -> Nat]

\* A session is of a person who signed in with it, and who is in the table
\* of users: fetchUser finds the user of every principal.
SessionsHaveUsers ==
    \A s \in Session :
        /\ sessions[s] \in {holder[s], NoUser}
        /\ holder[s] \in users \cup {NoUser}

\* A request acts for the person who signed in with its session.
CallersSignedIn ==
    \A r \in Request :
        /\ asked[r].cookie # NoCookie => holder[asked[r].cookie] # NoUser
        /\ pc[r] \in {"EXPIRE", "TX", "AddGiftCertificate", "DeleteGiftCertificate"} =>
               /\ asked[r].cookie # NoCookie
               /\ caller[r] = holder[asked[r].cookie]
        /\ pc[r] \in {"CreateUpdateUser", "SET"} => caller[r] \in User
        /\ pc[r] = "SET" => caller[r] \in users

\* Whoever logged out successfully has left nothing in Redis.
LoggedOut ==
    \A r \in Request :
        /\ pc[r] \in {"answer", "ok"}
        /\ asked[r].op = "logout"
        /\ asked[r].cookie # NoCookie
        => sessions[asked[r].cookie] = NoUser

CertificatesHaveUsers ==
    /\ \A n \in Number : certs[n] # NoCert => certs[n].user \in users
    /\ \A n \in used : certs[n] # NoCert

\* No two transactions, and no transaction and the table, have one number.
NumbersUnique ==
    /\ \A r \in Request : \A n \in Inserted(r) : certs[n] = NoCert
    /\ \A r, q \in Request : r # q => Inserted(r) \cap Inserted(q) = {}
    /\ \A r \in tx : \A i, j \in 1..added[r] :
           asked[r].list[i].number = asked[r].list[j].number => i = j

\* A transaction is open only while its request is at it.
TransactionsEnd ==
    /\ tx = {r \in Request : pc[r] = "AddGiftCertificate"}
    /\ \A r \in Request : added[r] <= Len(asked[r].list)
    /\ \A r \in Request : pc[r] \in {"idle", "GET", "EXPIRE", "TX"} => added[r] = 0

\* A request is at a step of the operation it asked for.
OpsMatch ==
    \A r \in Request :
        /\ pc[r] = "DeleteGiftCertificate" => asked[r].op = "deleteGiftCertificate"
        /\ pc[r] = "DEL" => asked[r].op = "logout"
        /\ pc[r] \in {"TX", "AddGiftCertificate"} => asked[r].op = "addGiftCertificates"
        /\ pc[r] \in {"GET", "EXPIRE"} => asked[r].op \in DOMAIN Authorized
        /\ pc[r] \in {"ExchangeCode", "CreateUpdateUser", "SET"} => asked[r].op = "callback"

\* The inductive invariant: sessions and gift certificates belong to users
\* who have signed in, a session that was logged out does not come back
\* whatever Lookup races with it, and transactions neither share a number
\* nor outlive their request.
IInv ==
    /\ TypeOK /\ SessionsHaveUsers /\ CallersSignedIn /\ LoggedOut
    /\ CertificatesHaveUsers /\ NumbersUnique /\ TransactionsEnd /\ OpsMatch

\* Requests of all kinds, their races and the restarts of the server are no
\* more than what AccountBook promises: a session begins once and ends for
\* good, the gift certificates of a request are added together and to the
\* account of its session, and those in use stay.
Book == INSTANCE AccountBook WITH
            live <- {s \in Session : sessions[s] # NoUser},
            undecided <- {r \in Request : /\ asked[r].op \in DOMAIN Expiry
                                          /\ pc[r] \notin {"idle", "answer"} \cup Answered}
ImplementsAccountBook == Book!Spec

\* The next step of r: it need not wait, or Postgres makes it fail.
CanGoOn(r) ==
    /\ pc[r] \notin {"idle"} \cup Answered
    /\ Waiting(r) => InCircle(Waits, r)

\* Transactions insert their numbers in the orders their clients send them,
\* and yet whoever waits waits for one that can go on: among requests that
\* wait for nobody else there is one that takes its next step, if any of
\* them is at work.  In particular whoever has been answered holds no number.
NobodyStuck ==
    \A S \in SUBSET Request :
        /\ Alone(Waits, S)
        /\ \E r \in S : pc[r] \notin {"idle"} \cup Answered
        => \E r \in S : CanGoOn(r)

\* Every request is answered, or lost with the server, although its INSERTs
\* wait for those of others.
EveryRequestAnswered ==
    \A r \in Request : pc[r] # "idle" ~> pc[r] \in Answered
=============================================================================
