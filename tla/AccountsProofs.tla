--------------------------- MODULE AccountsProofs ---------------------------
(***************************************************************************)
(* Proofs about Accounts: its inductive invariant, and that it implements  *)
(* AccountBook, and that no request is stuck behind others that are, for   *)
(* any users, sessions, gift certificates and requests and any number of   *)
(* restarts.                                                               *)
(*                                                                         *)
(* The sessions need little: only Start stores one, under an id nobody has *)
(* had, and the commands that race with it only delete.  The certificates  *)
(* need NumbersUnique: what open transactions have inserted differs, and   *)
(* is not in the table, so that a commit publishes its list as a whole.    *)
(***************************************************************************)
EXTENDS Accounts, DeadlocksProofs

\* What every question has, whatever is asked.
LEMMA QuestionType ==
    ASSUME NEW q \in Question
    PROVE  /\ q.op \in DOMAIN Entry
           /\ q.cookie \in Cookie
           /\ q.list \in Seq(Certificate)
           /\ q.state \in 0..(MaxRestarts + 1)
           /\ q.op \in DOMAIN Expiry => q.cookie \in Session
           /\ q.op = "deleteGiftCertificate" => Len(q.list) = 1
           /\ Entry[q.op] \in {"GET", "ExchangeCode", "DEL"}
           /\ Entry[q.op] = "GET" => q.op \in DOMAIN Authorized
           /\ Entry[q.op] = "ExchangeCode" => q.op = "callback"
           /\ Entry[q.op] = "DEL" => q.op = "logout"
  <1>1. <<>> \in Seq(Certificate)
    OBVIOUS
  <1>2. List \subseteq Seq(Certificate) /\ MaxRestarts \in Nat
    BY AccountsAssumption
  <1>3. CASE q \in [op : {"login", "logout"}, cookie : Cookie, list : {<<>>}, state : {0}]
    <2>1. q.op \in {"login", "logout"} /\ q.cookie \in Cookie /\ q.state = 0
      BY <1>3
    <2>2. q.list = <<>>
      BY <1>3
    <2> QED
      BY <1>1, <1>2, <2>1, <2>2 DEF Entry, Expiry, Authorized
  <1>4. CASE q \in [op : {"callback"}, cookie : {NoCookie}, list : {<<>>},
                    state : 0..(MaxRestarts + 1)]
    <2>1. /\ q.op = "callback" /\ q.cookie = NoCookie
          /\ q.state \in 0..(MaxRestarts + 1)
      BY <1>4
    <2>2. q.list = <<>>
      BY <1>4
    <2> QED
      BY <1>1, <1>2, <2>1, <2>2 DEF Entry, Expiry, Authorized, Cookie
  <1>5. CASE q \in [op : {"addGiftCertificates"}, cookie : Session, list : List, state : {0}]
    <2>1. q.op = "addGiftCertificates" /\ q.cookie \in Session /\ q.state = 0
      BY <1>5
    <2>2. q.list \in List
      BY <1>5
    <2>3. q.list \in Seq(Certificate)
      BY <1>2, <2>2
    <2> QED
      BY <1>2, <2>1, <2>2, <2>3 DEF Entry, Expiry, Authorized, Cookie
  <1>6. CASE q \in [op : {"deleteGiftCertificate"}, cookie : Session,
                    list : {list \in List : Len(list) = 1}, state : {0}]
    <2>1. q.op = "deleteGiftCertificate" /\ q.cookie \in Session /\ q.state = 0
      BY <1>6
    <2>2. q.list \in List /\ Len(q.list) = 1
      BY <1>6
    <2>3. q.list \in Seq(Certificate)
      BY <1>2, <2>2
    <2> QED
      BY <1>2, <2>1, <2>2, <2>3 DEF Entry, Expiry, Authorized, Cookie
  <1> QED
    BY <1>3, <1>4, <1>5, <1>6 DEF Question

\* The expiry that is stored is a date, given or not.
LEMMA ExpiryType ==
    ASSUME NEW op \in DOMAIN Expiry, NEW d \in Date \cup {NoDate}
    PROVE  Expiry[op][d] \in Date
  BY AccountsAssumption DEF Expiry

\* A row to insert or to delete is one of a user.
LEMMA NewRowType ==
    ASSUME TypeOK, NEW r \in Request, asked[r].op \in DOMAIN Expiry,
           caller[r] \in User, NEW i \in 1..Len(asked[r].list)
    PROVE  /\ NewRow(r, i) \in Row
           /\ NewRow(r, i).user = caller[r]
           /\ asked[r].list[i].number \in Number
  <1>1. asked[r].list \in Seq(Certificate)
    BY QuestionType DEF TypeOK
  <1>2. asked[r].list[i] \in Certificate
    BY <1>1
  <1>3. Expiry[asked[r].op][asked[r].list[i].expires] \in Date
    BY <1>2, ExpiryType DEF Certificate
  <1> QED
    BY <1>2, <1>3 DEF NewRow, Row, Certificate

\* What an open transaction has inserted is a part of its list.
LEMMA InsertedType ==
    ASSUME TypeOK, TransactionsEnd, NEW r \in Request, NEW n \in Inserted(r)
    PROVE  /\ r \in tx
           /\ \E i \in 1..added[r] : asked[r].list[i].number = n
           /\ \A i \in 1..added[r] : i \in 1..Len(asked[r].list)
           /\ n \in Number
  <1>1. asked[r].list \in Seq(Certificate) /\ added[r] \in Nat
    BY QuestionType DEF TypeOK
  <1>2. r \in tx /\ \E i \in 1..added[r] : asked[r].list[i].number = n
    BY DEF Inserted
  <1>3. Len(asked[r].list) \in Nat /\ added[r] <= Len(asked[r].list)
    BY <1>1 DEF TransactionsEnd
  <1>4. \A i \in 1..added[r] : i \in 1..Len(asked[r].list)
    BY <1>1, <1>3
  <1>5. \A i \in 1..Len(asked[r].list) : asked[r].list[i] \in Certificate
    BY <1>1
  <1> QED
    BY <1>2, <1>4, <1>5 DEF Certificate

\* A commit publishes rows of the caller under the numbers of the list, and
\* leaves the others alone.
LEMMA CommitPublishes ==
    ASSUME IInv, NEW r \in Request, Commit(r)
    PROVE  /\ r \in tx
           /\ caller[r] \in User
           /\ asked[r].op = "addGiftCertificates"
           /\ \A n \in Inserted(r) : Published(r)[n] \in Row /\ Published(r)[n].user = caller[r]
           /\ \A n \in Number \ Inserted(r) : Published(r)[n] = certs[n]
           /\ Published(r) \in [Number -> Row \cup {NoCert}]
  <1>1. /\ r \in tx
        /\ asked[r].op = "addGiftCertificates"
    BY DEF IInv, Commit, TransactionsEnd, OpsMatch
  <1>2. caller[r] \in User
    BY DEF IInv, Commit, CallersSignedIn, TypeOK
  <1>3. ASSUME NEW n \in Inserted(r)
        PROVE  /\ n \in Number
               /\ Published(r)[n] \in Row
               /\ Published(r)[n].user = caller[r]
    <2> DEFINE i == CHOOSE i \in 1..added[r] : asked[r].list[i].number = n
    <2>1. n \in Number /\ i \in 1..Len(asked[r].list)
      BY <1>3, InsertedType DEF IInv
    <2>2. Published(r)[n] = NewRow(r, i)
      BY <1>3, <2>1 DEF Published
    <2>3. asked[r].op \in DOMAIN Expiry
      BY <1>1 DEF Expiry
    <2> HIDE DEF i
    <2> QED
      BY <1>2, <2>1, <2>2, <2>3, NewRowType DEF IInv
  <1>4. \A n \in Number \ Inserted(r) : Published(r)[n] = certs[n]
    BY DEF Published
  <1>5. ASSUME NEW n \in Number PROVE Published(r)[n] \in Row \cup {NoCert}
    <2>1. CASE n \in Inserted(r)
      BY <1>3, <2>1
    <2>2. CASE n \notin Inserted(r)
      BY <1>4, <2>2 DEF IInv, TypeOK
    <2> QED
      BY <2>1, <2>2
  <1>6. Published(r) \in [Number -> Row \cup {NoCert}]
    <2>1. Published(r) = [n \in Number |-> Published(r)[n]]
      BY DEF Published
    <2> QED
      BY <1>5, <2>1
  <1> QED
    BY <1>1, <1>2, <1>3, <1>4, <1>6

\* Where Extend leads, and who gets there.
LEMMA AuthorizedType ==
    ASSUME NEW op \in DOMAIN Authorized
    PROVE  /\ Authorized[op] \in Stage
           /\ Authorized[op] \in {"answer", "TX", "DeleteGiftCertificate"}
           /\ Authorized[op] = "TX" => op = "addGiftCertificates"
           /\ Authorized[op] = "DeleteGiftCertificate" => op = "deleteGiftCertificate"
           /\ op # "logout"
  BY DEF Authorized, Stage

\* Type correctness is preserved.
LEMMA TypeStep == IInv /\ [Next]_vars => TypeOK'
  <1> SUFFICES ASSUME IInv, [Next]_vars PROVE TypeOK'
    OBVIOUS
  <1> USE DEF IInv, redis, tables, server, Goto
  <1>1. ASSUME NEW r \in Request, Arrive(r) PROVE TypeOK'
    <2>1. PICK q \in Question : asked' = [asked EXCEPT ![r] = q] /\ pc' = [pc EXCEPT ![r] = Entry[q.op]]
      BY <1>1 DEF Arrive
    <2>2. Entry[q.op] \in Stage
      BY QuestionType DEF Stage
    <2> QED
      BY <1>1, <2>1, <2>2 DEF Arrive, TypeOK
  <1>2. ASSUME NEW r \in Request,
               Refuse(r) \/ Answer(r) \/ Fail(r) \/ BeginTX(r)
        PROVE  TypeOK'
    <2>1. pc' \in [Request -> Stage]
      BY <1>2 DEF Refuse, Answer, Fail, BeginTX, TypeOK, Stage, Answered
    <2>2. boot \in 0..boot
      BY AccountsAssumption DEF TypeOK
    <2>3. states' \subseteq 0..boot'
      BY <1>2, <2>2 DEF Refuse, Answer, Fail, BeginTX, TypeOK
    <2> QED
      BY <1>2, <2>1, <2>3 DEF Refuse, Answer, Fail, BeginTX, TypeOK
  <1>3. ASSUME NEW r \in Request, Extend(r) PROVE TypeOK'
    <2>1. Authorized[asked[r].op] \in Stage
      BY <1>3, AuthorizedType DEF Extend, OpsMatch
    <2> QED
      BY <1>3, <2>1 DEF Extend, TypeOK
  <1>4. ASSUME NEW r \in Request,
               GetFromCache(r) \/ ExchangeCode(r) \/ CreateUpdateUser(r)
        PROVE  TypeOK'
    <2>1. pc' \in [Request -> Stage]
      BY <1>4 DEF GetFromCache, ExchangeCode, CreateUpdateUser, TypeOK, Stage
    <2>2. asked[r].cookie \in Cookie
      BY QuestionType DEF TypeOK
    <2>3. caller' \in [Request -> User \cup {NoUser}]
      BY <1>4, <2>2 DEF GetFromCache, ExchangeCode, CreateUpdateUser, TypeOK, Cookie
    <2>4. users' \subseteq User
      BY <1>4 DEF GetFromCache, ExchangeCode, CreateUpdateUser, TypeOK, CallersSignedIn
    <2> QED
      BY <1>4, <2>1, <2>3, <2>4
      DEF GetFromCache, ExchangeCode, CreateUpdateUser, TypeOK
  <1>5. ASSUME NEW r \in Request, Start(r) \/ Invalidate(r) PROVE TypeOK'
    <2>1. pc' \in [Request -> Stage]
      BY <1>5 DEF Start, Invalidate, TypeOK, Stage
    <2>2. sessions' \in [Session -> User \cup {NoUser}]
      BY <1>5 DEF Start, Invalidate, TypeOK
    <2>3. holder' \in [Session -> User \cup {NoUser}]
      BY <1>5 DEF Start, Invalidate, TypeOK
    <2> QED
      BY <1>5, <2>1, <2>2, <2>3 DEF Start, Invalidate, TypeOK
  <1>6. ASSUME NEW r \in Request, AddGiftCertificate(r) PROVE TypeOK'
    BY <1>6 DEF AddGiftCertificate, TypeOK
  <1>7. ASSUME NEW r \in Request, Commit(r) PROVE TypeOK'
    <2>1. Published(r) \in [Number -> Row \cup {NoCert}]
      BY <1>7, CommitPublishes
    <2>2. pc' \in [Request -> Stage]
      BY <1>7 DEF Commit, TypeOK, Stage
    <2> QED
      BY <1>7, <2>1, <2>2 DEF Commit, TypeOK
  <1>8. ASSUME NEW r \in Request, DeleteGiftCertificate(r) PROVE TypeOK'
    <2>1. pc' \in [Request -> Stage]
      BY <1>8 DEF DeleteGiftCertificate, TypeOK, Stage
    <2>2. certs' \in [Number -> Row \cup {NoCert}]
      BY <1>8 DEF DeleteGiftCertificate, TypeOK
    <2> QED
      BY <1>8, <2>1, <2>2 DEF DeleteGiftCertificate, TypeOK
  <1>9. ASSUME NEW s \in Session, Expire(s) PROVE TypeOK'
    BY <1>9 DEF Expire, TypeOK
  <1>10. ASSUME NEW n \in Number, AddAttendee(n) \/ DeleteAttendee(n) PROVE TypeOK'
    BY <1>10 DEF AddAttendee, DeleteAttendee, TypeOK
  <1>11. CASE Restart
    <2>1. pc' \in [Request -> Stage]
      BY <1>11 DEF Restart, TypeOK, Stage, Answered
    <2>2. boot' \in 1..(MaxRestarts + 1) /\ states' \subseteq 0..boot'
      BY <1>11, AccountsAssumption DEF Restart, TypeOK
    <2> QED
      BY <1>11, <2>1, <2>2 DEF Restart, TypeOK
  <1>12. CASE UNCHANGED vars
    BY <1>12 DEF vars, TypeOK
  <1> QED
    BY <1>1, <1>2, <1>3, <1>4, <1>5, <1>6, <1>7, <1>8, <1>9, <1>10, <1>11, <1>12
    DEF Next, Step

\* Only Start stores a session, for a user who is in the table.
LEMMA SessionsStep == IInv /\ [Next]_vars => SessionsHaveUsers'
  <1> SUFFICES ASSUME IInv, [Next]_vars PROVE SessionsHaveUsers'
    OBVIOUS
  <1> USE DEF IInv, SessionsHaveUsers, redis, tables, server
  <1>1. ASSUME NEW r \in Request, CreateUpdateUser(r) PROVE SessionsHaveUsers'
    BY <1>1 DEF CreateUpdateUser
  <1>2. ASSUME NEW r \in Request, Start(r) PROVE SessionsHaveUsers'
    <2>1. caller[r] \in users
      BY <1>2 DEF Start, CallersSignedIn
    <2>2. PICK s \in Session :
             /\ sessions' = [sessions EXCEPT ![s] = caller[r]]
             /\ holder' = [holder EXCEPT ![s] = caller[r]]
      BY <1>2 DEF Start
    <2>3. UNCHANGED users
      BY <1>2 DEF Start
    <2> QED
      BY <2>1, <2>2, <2>3 DEF TypeOK
  <1>3. ASSUME NEW r \in Request, Invalidate(r) PROVE SessionsHaveUsers'
    BY <1>3 DEF Invalidate, TypeOK
  <1>4. ASSUME NEW s \in Session, Expire(s) PROVE SessionsHaveUsers'
    BY <1>4 DEF Expire, TypeOK
  <1>5. CASE UNCHANGED <<sessions, holder, users>>
    BY <1>5
  <1> QED
    BY <1>1, <1>2, <1>3, <1>4, <1>5
    DEF Next, Step, Arrive, Refuse, GetFromCache, Extend, ExchangeCode, BeginTX,
        AddGiftCertificate, Commit, DeleteGiftCertificate, Answer, Fail, AddAttendee,
        DeleteAttendee, Restart, vars

\* The operations go with the steps.
LEMMA OpsStep == IInv /\ [Next]_vars => OpsMatch'
  <1> SUFFICES ASSUME IInv, [Next]_vars PROVE OpsMatch'
    OBVIOUS
  <1> USE DEF IInv, TypeOK, OpsMatch, redis, tables, server, Goto
  <1>1. ASSUME NEW r \in Request, Arrive(r) PROVE OpsMatch'
    <2>1. PICK q \in Question :
             asked' = [asked EXCEPT ![r] = q] /\ pc' = [pc EXCEPT ![r] = Entry[q.op]]
      BY <1>1 DEF Arrive
    <2>2. /\ Entry[q.op] \in {"GET", "ExchangeCode", "DEL"}
          /\ Entry[q.op] = "GET" => q.op \in DOMAIN Authorized
          /\ Entry[q.op] = "ExchangeCode" => q.op = "callback"
          /\ Entry[q.op] = "DEL" => q.op = "logout"
      BY QuestionType
    <2> QED
      BY <1>1, <2>1, <2>2 DEF Arrive
  <1>2. ASSUME NEW r \in Request, GetFromCache(r) PROVE OpsMatch'
    BY <1>2 DEF GetFromCache, OpsMatch
  <1>3. ASSUME NEW r \in Request, Extend(r) PROVE OpsMatch'
    BY <1>3, AuthorizedType DEF Extend
  <1>4. ASSUME NEW r \in Request, AddGiftCertificate(r) PROVE OpsMatch'
    BY <1>4 DEF AddGiftCertificate
  <1>5. ASSUME NEW r \in Request,
               \/ Refuse(r) \/ ExchangeCode(r) \/ CreateUpdateUser(r) \/ Start(r)
               \/ Invalidate(r) \/ BeginTX(r) \/ Commit(r) \/ DeleteGiftCertificate(r)
               \/ Answer(r) \/ Fail(r)
        PROVE  OpsMatch'
    BY <1>5 DEF Refuse, ExchangeCode, CreateUpdateUser, Start, Invalidate, BeginTX,
                Commit, DeleteGiftCertificate, Answer, Fail
  <1>6. CASE Restart
    <2>1. \A r \in Request : pc'[r] \in {pc[r], "lost"}
      BY <1>6 DEF Restart
    <2>2. UNCHANGED asked
      BY <1>6 DEF Restart
    <2> QED
      BY <2>1, <2>2
  <1>7. CASE UNCHANGED <<asked, pc>>
    BY <1>7
  <1> QED
    BY <1>1, <1>2, <1>3, <1>4, <1>5, <1>6, <1>7
    DEF Next, Step, Expire, AddAttendee, DeleteAttendee, vars

\* A request acts for whoever signed in with its session: a session's holder
\* never changes once there is one.
LEMMA CallersStep == IInv /\ [Next]_vars => CallersSignedIn'
  <1> SUFFICES ASSUME IInv, [Next]_vars PROVE CallersSignedIn'
    OBVIOUS
  <1> USE DEF IInv, TypeOK, CallersSignedIn, redis, tables, server, Goto
  <1>1. ASSUME NEW r \in Request, Arrive(r) PROVE CallersSignedIn'
    <2>1. PICK q \in Question :
             asked' = [asked EXCEPT ![r] = q] /\ pc' = [pc EXCEPT ![r] = Entry[q.op]]
      BY <1>1 DEF Arrive
    <2>2. Entry[q.op] \in {"GET", "ExchangeCode", "DEL"}
      BY QuestionType
    <2> QED
      BY <1>1, <2>1, <2>2 DEF Arrive
  <1>2. ASSUME NEW r \in Request, GetFromCache(r) PROVE CallersSignedIn'
    <2>1. asked[r].cookie \in Session
      BY <1>2, QuestionType DEF GetFromCache, Cookie
    <2>2. /\ caller' = [caller EXCEPT ![r] = holder[asked[r].cookie]]
          /\ holder[asked[r].cookie] # NoUser
      BY <1>2, <2>1 DEF GetFromCache, SessionsHaveUsers
    <2>3. pc' = [pc EXCEPT ![r] = "EXPIRE"] /\ UNCHANGED <<asked, holder, users>>
      BY <1>2 DEF GetFromCache
    <2>4. asked[r].cookie # NoCookie
      BY <1>2 DEF GetFromCache
    <2> QED
      BY <2>2, <2>3, <2>4
  <1>3. ASSUME NEW r \in Request, Extend(r) PROVE CallersSignedIn'
    <2>1. Authorized[asked[r].op] \in {"answer", "TX", "DeleteGiftCertificate"}
      BY <1>3, AuthorizedType DEF Extend, OpsMatch
    <2> QED
      BY <1>3, <2>1 DEF Extend
  <1>4. ASSUME NEW r \in Request, ExchangeCode(r) PROVE CallersSignedIn'
    BY <1>4 DEF ExchangeCode
  <1>5. ASSUME NEW r \in Request, CreateUpdateUser(r) PROVE CallersSignedIn'
    BY <1>5 DEF CreateUpdateUser
  <1>6. ASSUME NEW r \in Request, Start(r) PROVE CallersSignedIn'
    <2>1. PICK s \in Session :
             holder[s] = NoUser /\ holder' = [holder EXCEPT ![s] = caller[r]]
      BY <1>6 DEF Start
    <2>2. ASSUME NEW q \in Request, asked[q].cookie # NoCookie
          PROVE  holder'[asked[q].cookie] = holder[asked[q].cookie]
      <3>1. asked[q].cookie \in Session
        BY <2>2, QuestionType DEF Cookie
      <3> QED
        BY <2>1, <2>2, <3>1
    <2>3. pc' = [pc EXCEPT ![r] = "answer"] /\ UNCHANGED <<asked, caller, users>>
      BY <1>6 DEF Start
    <2> QED
      BY <2>2, <2>3
  <1>7. ASSUME NEW r \in Request,
               \/ Refuse(r) \/ Invalidate(r) \/ BeginTX(r) \/ AddGiftCertificate(r)
               \/ Commit(r) \/ DeleteGiftCertificate(r) \/ Answer(r) \/ Fail(r)
        PROVE  CallersSignedIn'
    <2>1. UNCHANGED <<asked, caller, holder, users>>
      BY <1>7 DEF Refuse, Invalidate, BeginTX, AddGiftCertificate, Commit,
                  DeleteGiftCertificate, Answer, Fail
    <2>2. /\ \A q \in Request \ {r} : pc'[q] = pc[q]
          /\ \/ pc'[r] \in {pc[r], "answer", "ok", "error"}
             \/ pc[r] = "TX" /\ pc'[r] = "AddGiftCertificate"
      BY <1>7 DEF Refuse, Invalidate, BeginTX, AddGiftCertificate, Commit,
                  DeleteGiftCertificate, Answer, Fail
    <2> QED
      BY <2>1, <2>2
  <1>8. CASE Restart
    <2>1. \A r \in Request : pc'[r] \in {pc[r], "lost"}
      BY <1>8 DEF Restart
    <2>2. UNCHANGED <<asked, caller, holder, users>>
      BY <1>8 DEF Restart
    <2> QED
      BY <2>1, <2>2
  <1>9. CASE UNCHANGED <<asked, pc, caller, holder, users>>
    BY <1>9
  <1> QED
    BY <1>1, <1>2, <1>3, <1>4, <1>5, <1>6, <1>7, <1>8, <1>9
    DEF Next, Step, Expire, AddAttendee, DeleteAttendee, vars

\* A session that was logged out does not come back: only Start stores one,
\* and under an id that nobody has had.
LEMMA LoggedOutStep == IInv /\ [Next]_vars => LoggedOut'
  <1> SUFFICES ASSUME IInv, [Next]_vars PROVE LoggedOut'
    OBVIOUS
  <1> USE DEF IInv, TypeOK, LoggedOut, redis, tables, server, Goto
  <1>1. ASSUME NEW r \in Request, Arrive(r) PROVE LoggedOut'
    <2>1. PICK q \in Question :
             asked' = [asked EXCEPT ![r] = q] /\ pc' = [pc EXCEPT ![r] = Entry[q.op]]
      BY <1>1 DEF Arrive
    <2>2. Entry[q.op] \in {"GET", "ExchangeCode", "DEL"}
      BY QuestionType
    <2> QED
      BY <1>1, <2>1, <2>2 DEF Arrive
  <1>2. ASSUME NEW r \in Request, Invalidate(r) PROVE LoggedOut'
    <2>1. \A q \in Request : asked[q].cookie \in Session \cup {NoCookie}
      BY QuestionType DEF Cookie
    <2> QED
      BY <1>2, <2>1 DEF Invalidate
  <1>3. ASSUME NEW r \in Request, Start(r) PROVE LoggedOut'
    <2>1. PICK s \in Session :
             holder[s] = NoUser /\ sessions' = [sessions EXCEPT ![s] = caller[r]]
      BY <1>3 DEF Start
    <2>2. \A q \in Request : asked[q].cookie # s
      BY <2>1, AccountsAssumption DEF CallersSignedIn
    <2>3. asked[r].op # "logout"
      BY <1>3 DEF Start, OpsMatch
    <2>4. pc' = [pc EXCEPT ![r] = "answer"] /\ UNCHANGED asked
      BY <1>3 DEF Start
    <2>5. \A q \in Request : sessions'[asked[q].cookie] = sessions[asked[q].cookie]
      BY <2>1, <2>2
    <2> QED
      BY <2>3, <2>4, <2>5
  <1>4. ASSUME NEW s \in Session, Expire(s) PROVE LoggedOut'
    <2>1. \A q \in Request : asked[q].cookie \in Session \cup {NoCookie}
      BY QuestionType DEF Cookie
    <2> QED
      BY <1>4, <2>1 DEF Expire
  <1>5. ASSUME NEW r \in Request, Extend(r) PROVE LoggedOut'
    <2>1. asked[r].op # "logout"
      BY <1>5, AuthorizedType DEF Extend, OpsMatch
    <2> QED
      BY <1>5, <2>1 DEF Extend
  <1>6. ASSUME NEW r \in Request,
               \/ GetFromCache(r) \/ Refuse(r) \/ ExchangeCode(r) \/ CreateUpdateUser(r)
               \/ BeginTX(r) \/ AddGiftCertificate(r) \/ Commit(r)
               \/ DeleteGiftCertificate(r) \/ Answer(r) \/ Fail(r)
        PROVE  LoggedOut'
    <2>1. UNCHANGED <<asked, sessions>>
      BY <1>6 DEF GetFromCache, Refuse, ExchangeCode, CreateUpdateUser, BeginTX,
                  AddGiftCertificate, Commit, DeleteGiftCertificate, Answer, Fail
    <2>2. /\ \A q \in Request \ {r} : pc'[q] = pc[q]
          /\ \/ pc'[r] \notin {"answer", "ok"}
             \/ pc[r] \in {"answer", "ok"}
             \/ asked[r].op # "logout"
      BY <1>6 DEF GetFromCache, Refuse, ExchangeCode, CreateUpdateUser, BeginTX,
                  AddGiftCertificate, More, Commit, DeleteGiftCertificate, Answer, Fail,
                  OpsMatch
    <2> QED
      BY <2>1, <2>2
  <1>7. CASE Restart
    <2>1. \A r \in Request : pc'[r] \in {pc[r], "lost"}
      BY <1>7 DEF Restart
    <2>2. UNCHANGED <<asked, sessions>>
      BY <1>7 DEF Restart
    <2> QED
      BY <2>1, <2>2
  <1>8. CASE UNCHANGED <<asked, pc, sessions>>
    BY <1>8
  <1> QED
    BY <1>1, <1>2, <1>3, <1>4, <1>5, <1>6, <1>7, <1>8
    DEF Next, Step, AddAttendee, DeleteAttendee, vars

\* Certificates are inserted for a user in the table, and used while there.
LEMMA CertificatesStep == IInv /\ [Next]_vars => CertificatesHaveUsers'
  <1> SUFFICES ASSUME IInv, [Next]_vars PROVE CertificatesHaveUsers'
    OBVIOUS
  <1> USE DEF IInv, CertificatesHaveUsers, redis, tables, server
  <1>1. ASSUME NEW r \in Request, CreateUpdateUser(r) PROVE CertificatesHaveUsers'
    BY <1>1 DEF CreateUpdateUser
  <1>2. ASSUME NEW r \in Request, Commit(r) PROVE CertificatesHaveUsers'
    <2>1. caller[r] \in users
      <3>1. caller[r] \in User /\ asked[r].op = "addGiftCertificates"
        BY <1>2, CommitPublishes
      <3>2. asked[r].cookie \in Session
        BY <3>1, QuestionType DEF TypeOK, Expiry
      <3>3. caller[r] = holder[asked[r].cookie]
        BY <1>2 DEF Commit, CallersSignedIn
      <3> QED
        BY <3>1, <3>2, <3>3, AccountsAssumption DEF SessionsHaveUsers
    <2>2. certs' = Published(r) /\ UNCHANGED <<users, used>>
      BY <1>2 DEF Commit
    <2>3. ASSUME NEW n \in Number, certs'[n] # NoCert PROVE certs'[n].user \in users
      <3>1. CASE n \in Inserted(r)
        BY <1>2, <2>1, <2>2, <3>1, CommitPublishes
      <3>2. CASE n \notin Inserted(r)
        BY <1>2, <2>2, <2>3, <3>2, CommitPublishes
      <3> QED
        BY <3>1, <3>2
    <2>4. ASSUME NEW n \in used PROVE certs'[n] # NoCert
      <3>1. n \in Number /\ certs[n] # NoCert
        BY DEF TypeOK
      <3>2. n \notin Inserted(r)
        BY <3>1 DEF NumbersUnique
      <3> QED
        BY <1>2, <2>2, <3>1, <3>2, CommitPublishes
    <2> QED
      BY <2>2, <2>3, <2>4
  <1>3. ASSUME NEW r \in Request, DeleteGiftCertificate(r) PROVE CertificatesHaveUsers'
    <2>1. \E n \in {asked[r].list[1].number} :
             \/ n \notin used /\ certs' = [certs EXCEPT ![n] = NoCert]
             \/ certs' = certs
      BY <1>3 DEF DeleteGiftCertificate
    <2>2. UNCHANGED <<users, used>>
      BY <1>3 DEF DeleteGiftCertificate
    <2> QED
      BY <2>1, <2>2 DEF TypeOK
  <1>4. ASSUME NEW n \in Number, AddAttendee(n) \/ DeleteAttendee(n)
        PROVE  CertificatesHaveUsers'
    BY <1>4 DEF AddAttendee, DeleteAttendee
  <1>5. CASE UNCHANGED <<users, certs, used>>
    BY <1>5
  <1> QED
    BY <1>1, <1>2, <1>3, <1>4, <1>5
    DEF Next, Step, Arrive, Refuse, GetFromCache, Extend, ExchangeCode, Start, Invalidate,
        BeginTX, AddGiftCertificate, Answer, Fail, Expire, Restart, vars

\* Transactions end with their request's step, and insert no more than its
\* list.
LEMMA TransactionsStep == IInv /\ [Next]_vars => TransactionsEnd'
  <1> SUFFICES ASSUME IInv, [Next]_vars PROVE TransactionsEnd'
    OBVIOUS
  <1> USE DEF IInv, TypeOK, TransactionsEnd, redis, tables, server, Goto
  <1>0. \A r \in Request : asked[r].list \in Seq(Certificate) /\ Len(asked[r].list) \in Nat
    BY QuestionType
  <1>1. ASSUME NEW r \in Request, Arrive(r) PROVE TransactionsEnd'
    <2>1. PICK q \in Question :
             asked' = [asked EXCEPT ![r] = q] /\ pc' = [pc EXCEPT ![r] = Entry[q.op]]
      BY <1>1 DEF Arrive
    <2>2. Entry[q.op] \in {"GET", "ExchangeCode", "DEL"} /\ Len(q.list) \in Nat
      BY QuestionType
    <2>3. pc[r] = "idle" /\ added[r] = 0 /\ UNCHANGED <<tx, added>>
      BY <1>1 DEF Arrive
    <2> QED
      BY <2>1, <2>2, <2>3
  <1>2. ASSUME NEW r \in Request, GetFromCache(r) PROVE TransactionsEnd'
    BY <1>2 DEF GetFromCache
  <1>3. ASSUME NEW r \in Request, Extend(r) PROVE TransactionsEnd'
    <2>1. Authorized[asked[r].op] \in {"answer", "TX", "DeleteGiftCertificate"}
      BY <1>3, AuthorizedType DEF Extend, OpsMatch
    <2>2. /\ pc[r] = "EXPIRE" /\ pc' = [pc EXCEPT ![r] = Authorized[asked[r].op]]
          /\ UNCHANGED <<asked, tx, added>>
      BY <1>3 DEF Extend
    <2> QED
      BY <2>1, <2>2
  <1>4. ASSUME NEW r \in Request, BeginTX(r) PROVE TransactionsEnd'
    BY <1>4 DEF BeginTX
  <1>5. ASSUME NEW r \in Request, AddGiftCertificate(r) PROVE TransactionsEnd'
    <2>1. /\ pc[r] = "AddGiftCertificate" /\ added[r] < Len(asked[r].list)
          /\ added' = [added EXCEPT ![r] = added[r] + 1]
          /\ UNCHANGED <<asked, pc, tx>>
      BY <1>5 DEF AddGiftCertificate, More
    <2>2. added'[r] <= Len(asked[r].list)
      BY <1>0, <2>1
    <2>3. \A q \in Request \ {r} : added'[q] = added[q]
      BY <2>1
    <2> QED
      BY <2>1, <2>2, <2>3
  <1>6. ASSUME NEW r \in Request, Commit(r) \/ Fail(r) PROVE TransactionsEnd'
    BY <1>6 DEF Commit, Fail
  <1>7. ASSUME NEW r \in Request,
               \/ Refuse(r) \/ ExchangeCode(r) \/ CreateUpdateUser(r) \/ Start(r)
               \/ Invalidate(r) \/ DeleteGiftCertificate(r) \/ Answer(r)
        PROVE  TransactionsEnd'
    BY <1>7 DEF Refuse, ExchangeCode, CreateUpdateUser, Start, Invalidate,
                DeleteGiftCertificate, Answer
  <1>8. CASE Restart
    <2>1. \A r \in Request :
             pc'[r] \in {pc[r], "lost"} /\ pc'[r] # "AddGiftCertificate"
      BY <1>8 DEF Restart, Answered
    <2>2. tx' = {} /\ UNCHANGED <<asked, added>>
      BY <1>8 DEF Restart
    <2> QED
      BY <2>1, <2>2
  <1>9. CASE UNCHANGED <<asked, pc, tx, added>>
    BY <1>9
  <1> QED
    BY <1>1, <1>2, <1>3, <1>4, <1>5, <1>6, <1>7, <1>8, <1>9
    DEF Next, Step, Expire, AddAttendee, DeleteAttendee, vars

\* A request whose transaction is not touched has inserted what it had.
LEMMA InsertedKept ==
    ASSUME NEW q \in Request, q \in tx' <=> q \in tx,
           q \in tx => asked'[q] = asked[q] /\ added'[q] = added[q]
    PROVE  Inserted(q)' = Inserted(q)
  BY DEF Inserted

\* No number is inserted twice: the INSERT waits for whoever has inserted
\* it and fails if it is in the table.
LEMMA NumbersStep == IInv /\ [Next]_vars => NumbersUnique'
  <1> SUFFICES ASSUME IInv, [Next]_vars PROVE NumbersUnique'
    OBVIOUS
  <1> USE DEF IInv, redis, tables, server
  <1>1. ASSUME tx' \subseteq tx,
               \A n \in Number : certs'[n] \in {certs[n], NoCert},
               \A q \in tx' : asked'[q] = asked[q] /\ added'[q] = added[q]
        PROVE  NumbersUnique'
    <2>1. \A q \in Request : Inserted(q)' \subseteq Inserted(q)
      BY <1>1 DEF Inserted
    <2>2. \A q \in Request : \A n \in Inserted(q)' : certs'[n] = NoCert
      BY <1>1, <2>1, InsertedType DEF NumbersUnique
    <2> QED
      BY <1>1, <2>1, <2>2 DEF NumbersUnique
  <1>2. ASSUME NEW r \in Request, BeginTX(r) PROVE NumbersUnique'
    <2>1. /\ tx' = tx \cup {r} /\ added'[r] = 0
          /\ UNCHANGED <<asked, added, certs>>
      BY <1>2 DEF BeginTX, TransactionsEnd, TypeOK
    <2>2. Inserted(r)' = {}
      BY <2>1 DEF Inserted
    <2>3. \A q \in Request \ {r} : Inserted(q)' = Inserted(q)
      BY <2>1, InsertedKept
    <2> QED
      BY <2>1, <2>2, <2>3 DEF NumbersUnique
  <1>3. ASSUME NEW r \in Request, AddGiftCertificate(r) PROVE NumbersUnique'
    <2> DEFINE n == NextNumber(r)
    <2>1. /\ pc[r] = "AddGiftCertificate" /\ r \in tx
          /\ added' = [added EXCEPT ![r] = added[r] + 1]
          /\ certs[n] = NoCert /\ n \notin Inserted(r)
          /\ UNCHANGED <<asked, tx, certs>>
      BY <1>3 DEF AddGiftCertificate, More, TransactionsEnd
    <2>2. \A q \in Request \ {r} : n \notin Inserted(q)
      BY <1>3 DEF AddGiftCertificate, Waiting, WaitsFor
    <2>3. added[r] \in Nat /\ added'[r] = added[r] + 1
      BY <2>1 DEF TypeOK
    <2>4. Inserted(r)' = Inserted(r) \cup {n}
      <3>1. 1..(added[r] + 1) = 1..added[r] \cup {added[r] + 1}
        BY <2>3
      <3> QED
        BY <2>1, <2>3, <3>1 DEF Inserted, NextNumber
    <2>5. \A q \in Request \ {r} : Inserted(q)' = Inserted(q) /\ added'[q] = added[q]
      BY <2>1, InsertedKept DEF TypeOK
    <2>6. \A i \in 1..added[r] : asked[r].list[i].number # n
      BY <2>1 DEF Inserted
    <2>7. \A i, j \in 1..(added[r] + 1) :
             asked[r].list[i].number = asked[r].list[j].number => i = j
      <3>1. \A i \in 1..(added[r] + 1) : i \in 1..added[r] \/ i = added[r] + 1
        BY <2>3
      <3> QED
        BY <2>1, <2>6, <3>1 DEF NumbersUnique, NextNumber
    <2>8. \A q, p \in Request : q # p => Inserted(q)' \cap Inserted(p)' = {}
      BY <2>2, <2>4, <2>5 DEF NumbersUnique
    <2>9. \A q \in Request : \A number \in Inserted(q)' : certs'[number] = NoCert
      BY <2>1, <2>4, <2>5 DEF NumbersUnique
    <2> QED
      BY <2>1, <2>3, <2>5, <2>7, <2>8, <2>9 DEF NumbersUnique
  <1>4. ASSUME NEW r \in Request, Commit(r) PROVE NumbersUnique'
    <2>1. tx' = tx \ {r} /\ certs' = Published(r) /\ UNCHANGED <<asked, added>>
      BY <1>4 DEF Commit
    <2>2. Inserted(r)' = {}
      BY <2>1 DEF Inserted
    <2>3. \A q \in Request \ {r} : Inserted(q)' = Inserted(q)
      BY <2>1, InsertedKept
    <2>4. ASSUME NEW q \in Request \ {r}, NEW n \in Inserted(q)
          PROVE  certs'[n] = NoCert
      <3>1. n \in Number /\ n \notin Inserted(r) /\ certs[n] = NoCert
        BY InsertedType DEF NumbersUnique
      <3> QED
        BY <1>4, <2>1, <3>1, CommitPublishes
    <2> QED
      BY <2>1, <2>2, <2>3, <2>4 DEF NumbersUnique
  <1>5. ASSUME NEW r \in Request, Arrive(r) PROVE NumbersUnique'
    <2>1. r \notin tx /\ UNCHANGED <<tx, certs, added>>
      BY <1>5 DEF Arrive, TransactionsEnd
    <2>2. \A q \in Request \ {r} : asked'[q] = asked[q]
      BY <1>5 DEF Arrive, TypeOK
    <2> QED
      BY <1>1, <2>1, <2>2 DEF TypeOK
  <1>6. ASSUME NEW r \in Request, DeleteGiftCertificate(r) PROVE NumbersUnique'
    <2>1. /\ \A n \in Number : certs'[n] \in {certs[n], NoCert}
          /\ UNCHANGED <<asked, added, tx>>
      BY <1>6 DEF DeleteGiftCertificate, TypeOK
    <2> QED
      BY <1>1, <2>1 DEF TypeOK
  <1>7. CASE tx' \subseteq tx /\ UNCHANGED <<certs, asked, added>>
    BY <1>1, <1>7 DEF TypeOK
  <1> QED
    BY <1>2, <1>3, <1>4, <1>5, <1>6, <1>7
    DEF Next, Step, Refuse, GetFromCache, Extend, ExchangeCode, CreateUpdateUser, Start,
        Invalidate, Answer, Fail, Expire, AddAttendee, DeleteAttendee, Restart, vars

-----------------------------------------------------------------------------
\* The invariant holds at the start.
LEMMA InitIInv == Init => IInv
  <1> SUFFICES ASSUME Init PROVE IInv
    OBVIOUS
  <1> USE DEF Init
  <1>1. TypeOK
    <2>1. [op |-> "logout", cookie |-> NoCookie, list |-> <<>>, state |-> 0] \in
              [op : {"login", "logout"}, cookie : Cookie, list : {<<>>}, state : {0}]
      BY DEF Cookie
    <2>2. asked \in [Request -> Question]
      BY <2>1 DEF Question
    <2>3. boot \in 1..(MaxRestarts + 1) /\ states \subseteq 0..boot
      BY AccountsAssumption
    <2> QED
      BY <2>2, <2>3, AccountsAssumption DEF TypeOK, Stage
  <1>2. SessionsHaveUsers
    BY AccountsAssumption DEF SessionsHaveUsers
  <1>3. CallersSignedIn /\ LoggedOut /\ OpsMatch
    BY DEF CallersSignedIn, LoggedOut, OpsMatch
  <1>4. CertificatesHaveUsers
    BY DEF CertificatesHaveUsers
  <1>5. NumbersUnique
    BY DEF NumbersUnique, Inserted
  <1>6. TransactionsEnd
    <2>1. Len(<<>>) = 0
      OBVIOUS
    <2> QED
      BY <2>1 DEF TransactionsEnd
  <1> QED
    BY <1>1, <1>2, <1>3, <1>4, <1>5, <1>6 DEF IInv

\* IInv is an invariant of the server: a session that was logged out stays
\* out, and transactions share no number.
THEOREM Inductive == Spec => []IInv
  <1>1. IInv /\ [Next]_vars => IInv'
    BY TypeStep, SessionsStep, CallersStep, LoggedOutStep, CertificatesStep, NumbersStep,
       TransactionsStep, OpsStep DEF IInv
  <1> QED
    BY InitIInv, <1>1, PTL DEF Spec

\* Type correctness: among others, what is stored of a gift certificate is a
\* user and a date.
THEOREM TypeCorrect == Spec => []TypeOK
  BY Inductive, PTL DEF IInv

-----------------------------------------------------------------------------
(***************************************************************************)
(* Refinement.                                                             *)
(***************************************************************************)
Live == {s \in Session : sessions[s] # NoUser}
Undecided ==
    {r \in Request : /\ asked[r].op \in DOMAIN Expiry
                     /\ pc[r] \notin {"idle", "answer"} \cup Answered}

\* Requests that get no further than their answer, or are no longer at work.
LEMMA DismissSteps ==
    ASSUME IInv, Undecided' \subseteq Undecided,
           UNCHANGED <<holder, sessions, certs, used, asked>>
    PROVE  [Book!Next]_(Book!book)
  <1>1. Undecided \ Undecided' \in SUBSET Request
    BY DEF Undecided
  <1>2. Undecided' = Undecided \ (Undecided \ Undecided')
    OBVIOUS
  <1>3. PICK R \in SUBSET Request : Undecided' = Undecided \ R
    BY <1>1, <1>2
  <1>4. Book!Dismiss(R)
    BY <1>3 DEF Book!Dismiss, Undecided
  <1> QED
    BY <1>4 DEF Book!Next

\* A commit adds the whole list to the account of the session.
LEMMA CommitAddsAll ==
    ASSUME IInv, NEW r \in Request, Commit(r)
    PROVE  Book!AddAll(r)
  <1> DEFINE list == asked[r].list
  <1>1. /\ pc[r] = "AddGiftCertificate" /\ r \in tx
        /\ added[r] = Len(list)
        /\ asked[r].op = "addGiftCertificates"
        /\ caller[r] = holder[asked[r].cookie]
    BY DEF IInv, Commit, TransactionsEnd, OpsMatch, CallersSignedIn
  <1>2. list \in Seq(Certificate) /\ DOMAIN list = 1..added[r]
    BY <1>1, QuestionType DEF IInv, TypeOK
  <1>3. Inserted(r) = {list[i].number : i \in DOMAIN list}
    BY <1>1, <1>2 DEF Inserted
  <1>4. \A i \in DOMAIN list : certs[list[i].number] = NoCert
    BY <1>3 DEF IInv, NumbersUnique
  <1>5. \A i, j \in DOMAIN list : list[i].number = list[j].number => i = j
    BY <1>1, <1>2 DEF IInv, NumbersUnique
  <1>6. \A i \in DOMAIN list : NewRow(r, i) = Book!Row(r, list[i])
    BY <1>1 DEF NewRow, Book!Row
  <1>7. certs' = [n \in Number |->
                     IF \E i \in DOMAIN list : list[i].number = n
                     THEN Book!Row(r, list[CHOOSE i \in DOMAIN list : list[i].number = n])
                     ELSE certs[n]]
    <2>1. certs' = Published(r)
      BY DEF Commit
    <2>2. ASSUME NEW n \in Number
          PROVE  Published(r)[n] =
                    IF \E i \in DOMAIN list : list[i].number = n
                    THEN Book!Row(r, list[CHOOSE i \in DOMAIN list : list[i].number = n])
                    ELSE certs[n]
      <3>1. CASE \E i \in DOMAIN list : list[i].number = n
        <4> DEFINE i == CHOOSE i \in DOMAIN list : list[i].number = n
        <4>1. i \in DOMAIN list
          BY <3>1
        <4>2. Published(r)[n] = NewRow(r, i)
          BY <1>2, <1>3, <3>1 DEF Published
        <4> HIDE DEF i
        <4>3. Published(r)[n] = Book!Row(r, list[i])
          BY <1>6, <4>1, <4>2
        <4> QED
          BY <3>1, <4>3 DEF i
      <3>2. CASE ~ \E i \in DOMAIN list : list[i].number = n
        BY <1>3, <3>2 DEF Published
      <3> QED
        BY <3>1, <3>2
    <2> QED
      BY <2>1, <2>2 DEF Published
  <1>8. Undecided' = Undecided \ {r} /\ r \in Undecided
    BY <1>1 DEF Commit, Goto, Undecided, IInv, TypeOK, Expiry, Answered
  <1>9. UNCHANGED <<holder, Live, used, asked>>
    BY DEF Commit, redis, Live
  <1> QED
    BY <1>1, <1>4, <1>5, <1>7, <1>8, <1>9 DEF Book!AddAll, Undecided, Live

\* Every step of the server is one of the book, or none.
LEMMA StepsImplement == IInv /\ [Next]_vars => [Book!Next]_(Book!book)
  <1> SUFFICES ASSUME IInv, [Next]_vars PROVE [Book!Next]_(Book!book)
    OBVIOUS
  <1> USE DEF redis, tables, server, Goto
  <1>1. ASSUME NEW r \in Request, Arrive(r) PROVE [Book!Next]_(Book!book)
    <2>1. PICK q \in Question :
             asked' = [asked EXCEPT ![r] = q] /\ pc' = [pc EXCEPT ![r] = Entry[q.op]]
      BY <1>1 DEF Arrive
    <2>2. Entry[q.op] \notin {"idle", "answer"} \cup Answered
      BY QuestionType DEF Answered
    <2>3. Undecided' = IF q.op \in DOMAIN Expiry THEN Undecided \cup {r} ELSE Undecided
      <3>1. \A p \in Request \ {r} : asked'[p] = asked[p] /\ pc'[p] = pc[p]
        BY <2>1 DEF IInv, TypeOK
      <3>2. asked'[r] = q /\ pc'[r] = Entry[q.op]
        BY <2>1 DEF IInv, TypeOK
      <3>3. r \notin Undecided
        BY <1>1 DEF Arrive, Undecided
      <3> QED
        BY <2>2, <3>1, <3>2, <3>3 DEF Undecided
    <2>4. UNCHANGED <<holder, Live, certs, used>>
      BY <1>1 DEF Arrive, Live
    <2>5. Book!Ask(r, q)
      BY <2>1, <2>3, <2>4 DEF Book!Ask, Undecided, Live
    <2> QED
      BY <2>5 DEF Book!Next
  <1>2. ASSUME NEW r \in Request, Start(r) PROVE [Book!Next]_(Book!book)
    <2>1. PICK s \in Session :
             /\ holder[s] = NoUser
             /\ sessions' = [sessions EXCEPT ![s] = caller[r]]
             /\ holder' = [holder EXCEPT ![s] = caller[r]]
      BY <1>2 DEF Start
    <2>2. caller[r] \in User
      BY <1>2 DEF Start, IInv, CallersSignedIn
    <2>3. Live' = Live \cup {s}
      BY <2>1, <2>2, AccountsAssumption DEF Live, IInv, TypeOK
    <2>4. asked[r].op \notin DOMAIN Expiry
      BY <1>2 DEF Start, IInv, OpsMatch, Expiry
    <2>5. UNCHANGED <<certs, used, asked, Undecided>>
      BY <1>2, <2>4 DEF Start, Undecided, IInv, TypeOK
    <2>6. PICK u \in User : u = caller[r]
      BY <2>2
    <2>7. Book!SignIn(s, u)
      BY <2>1, <2>3, <2>5, <2>6 DEF Book!SignIn, Live, Undecided
    <2> QED
      BY <2>7 DEF Book!Next
  <1>3. ASSUME NEW s \in Session, sessions' = [sessions EXCEPT ![s] = NoUser],
               UNCHANGED <<holder, certs, used, asked, Undecided>>
        PROVE  [Book!Next]_(Book!book)
    <2>1. Live' = Live \ {s}
      BY <1>3 DEF Live, IInv, TypeOK
    <2>2. Book!End(s)
      BY <1>3, <2>1 DEF Book!End, Live, Undecided
    <2> QED
      BY <2>2 DEF Book!Next
  <1>4. ASSUME NEW r \in Request, Invalidate(r) PROVE [Book!Next]_(Book!book)
    <2>1. asked[r].op \notin DOMAIN Expiry
      BY <1>4 DEF Invalidate, IInv, OpsMatch, Expiry
    <2>2. UNCHANGED <<holder, certs, used, asked, Undecided>>
      BY <1>4, <2>1 DEF Invalidate, Undecided, IInv, TypeOK
    <2>3. CASE asked[r].cookie = NoCookie
      BY <1>4, <2>2, <2>3, DismissSteps DEF Invalidate
    <2>4. CASE asked[r].cookie # NoCookie
      <3>1. asked[r].cookie \in Session
        BY <2>4, QuestionType DEF Cookie, IInv, TypeOK
      <3> QED
        BY <1>3, <1>4, <2>2, <2>4, <3>1 DEF Invalidate
    <2> QED
      BY <2>3, <2>4
  <1>5. ASSUME NEW s \in Session, Expire(s) PROVE [Book!Next]_(Book!book)
    BY <1>3, <1>5 DEF Expire, Undecided
  <1>6. ASSUME NEW r \in Request, Commit(r) PROVE [Book!Next]_(Book!book)
    BY <1>6, CommitAddsAll DEF Book!Next
  <1>7. ASSUME NEW r \in Request, DeleteGiftCertificate(r) PROVE [Book!Next]_(Book!book)
    <2> DEFINE c == asked[r].list[1]
    <2>1. /\ pc[r] = "DeleteGiftCertificate"
          /\ asked[r].op = "deleteGiftCertificate"
          /\ caller[r] = holder[asked[r].cookie]
          /\ c = Head(asked[r].list)
      BY <1>7 DEF DeleteGiftCertificate, IInv, OpsMatch, CallersSignedIn
    <2>2. Undecided' = Undecided \ {r} /\ r \in Undecided
      BY <1>7, <2>1 DEF DeleteGiftCertificate, Undecided, IInv, TypeOK, Expiry, Answered
    <2>3. UNCHANGED <<holder, sessions, used, asked>>
      BY <1>7 DEF DeleteGiftCertificate
    <2>4. CASE certs[c.number] # NewRow(r, 1)
      BY <1>7, <2>2, <2>3, <2>4, DismissSteps DEF DeleteGiftCertificate
    <2>5. CASE certs[c.number] = NewRow(r, 1)
      <3>1. c.number \notin used /\ certs' = [certs EXCEPT ![c.number] = NoCert]
        BY <1>7, <2>5 DEF DeleteGiftCertificate
      <3>2. NewRow(r, 1) = Book!Row(r, c)
        BY <2>1 DEF NewRow, Book!Row
      <3>3. Book!DeleteOne(r)
        BY <2>1, <2>2, <2>3, <2>5, <3>1, <3>2 DEF Book!DeleteOne, Undecided, Live
      <3> QED
        BY <3>3 DEF Book!Next
    <2> QED
      BY <2>4, <2>5
  <1>8. ASSUME NEW n \in Number, AddAttendee(n) PROVE [Book!Next]_(Book!book)
    <2>1. Book!Use(n)
      BY <1>8 DEF AddAttendee, Book!Use
    <2> QED
      BY <2>1 DEF Book!Next
  <1>9. ASSUME NEW n \in Number, DeleteAttendee(n) PROVE [Book!Next]_(Book!book)
    <2>1. Book!Release(n)
      BY <1>9 DEF DeleteAttendee, Book!Release
    <2> QED
      BY <2>1 DEF Book!Next
  <1>10. ASSUME NEW r \in Request,
                \/ Refuse(r) \/ GetFromCache(r) \/ Extend(r) \/ ExchangeCode(r)
                \/ CreateUpdateUser(r) \/ BeginTX(r) \/ AddGiftCertificate(r)
                \/ Answer(r) \/ Fail(r)
         PROVE  [Book!Next]_(Book!book)
    <2>1. pc[r] \notin {"idle", "answer"} \cup Answered \/ pc'[r] = "ok" \/ pc'[r] = "error"
      BY <1>10 DEF Refuse, GetFromCache, Extend, ExchangeCode, CreateUpdateUser, BeginTX,
                   AddGiftCertificate, More, Answer, Fail, Answered, IInv, TypeOK
    <2>2. \A q \in Request \ {r} : pc'[q] = pc[q]
      BY <1>10 DEF Refuse, GetFromCache, Extend, ExchangeCode, CreateUpdateUser, BeginTX,
                   AddGiftCertificate, Answer, Fail, IInv, TypeOK
    <2>3. UNCHANGED <<holder, sessions, certs, used, asked>>
      BY <1>10 DEF Refuse, GetFromCache, Extend, ExchangeCode, CreateUpdateUser, BeginTX,
                   AddGiftCertificate, Answer, Fail
    <2>4. Undecided' \subseteq Undecided
      BY <2>1, <2>2, <2>3 DEF Undecided, Answered
    <2> QED
      BY <2>3, <2>4, DismissSteps
  <1>11. CASE Restart
    <2>1. \A r \in Request : pc'[r] \in {pc[r], "lost"}
      BY <1>11 DEF Restart
    <2>2. UNCHANGED <<holder, sessions, certs, used, asked>>
      BY <1>11 DEF Restart
    <2>3. Undecided' \subseteq Undecided
      BY <2>1, <2>2 DEF Undecided, Answered
    <2> QED
      BY <2>2, <2>3, DismissSteps
  <1>12. CASE UNCHANGED vars
    BY <1>12, DismissSteps DEF vars, Undecided
  <1> QED
    BY <1>1, <1>2, <1>4, <1>5, <1>6, <1>7, <1>8, <1>9, <1>10, <1>11, <1>12 DEF Next, Step

\* The server implements AccountBook: sessions begin once and end for good,
\* and the gift certificates of a request are added together, to the account
\* of whoever signed in with its session, or not at all.
THEOREM AccountsImplementBook == Spec => ImplementsAccountBook
  <1>1. Init => Book!Init
    BY DEF Init, Book!Init, Expiry
  <1> QED
    BY <1>1, InitIInv, StepsImplement, Inductive, PTL DEF Spec, Book!Spec, ImplementsAccountBook

-----------------------------------------------------------------------------
\* Whatever the orders in which the transactions insert their numbers, those
\* that wait wait for one that goes on.
THEOREM NobodyIsStuck == Spec => []NobodyStuck
  <1>1. ASSUME IInv PROVE NobodyStuck
    <2> DEFINE AtWork(r) == pc[r] \notin {"idle"} \cup Answered
    <2> SUFFICES ASSUME NEW S \in SUBSET Request, Alone(Waits, S),
                        NEW r \in S, AtWork(r),
                        \A q \in S : ~CanGoOn(q)
                 PROVE  FALSE
      BY DEF NobodyStuck
    <2> DEFINE W == {q \in S : AtWork(q)}
    <2>1. \A q \in W : Waiting(q) /\ ~InCircle(Waits, q)
      BY DEF CanGoOn
    <2>2. Depend(Waits, W)
      <3> SUFFICES ASSUME NEW q \in W PROVE \E p \in W : <<q, p>> \in Waits
        BY DEF Depend
      <3>1. PICK p \in Request : WaitsFor(q, p)
        BY <2>1 DEF Waiting
      <3>2. <<q, p>> \in Waits /\ p \in S
        BY <3>1 DEF Waits, Alone, WaitedFor
      <3>3. pc[p] = "AddGiftCertificate"
        BY <1>1, <3>1 DEF WaitsFor, Inserted, IInv, TransactionsEnd
      <3> QED
        BY <3>2, <3>3 DEF Answered
    <2>3. IsFiniteSet(W) /\ W # {}
      BY AccountsAssumption, FS_Subset
    <2>4. PICK q \in W : InCircle(Waits, q)
      <3> HIDE DEF W
      <3> QED
        BY <2>2, <2>3, CircleExists
    <2> QED
      BY <2>1, <2>4
  <1> QED
    BY <1>1, Inductive, PTL
=============================================================================
