---------------------------- MODULE AccountBook ----------------------------
(***************************************************************************)
(* What the people who sign in may rely upon.  A session belongs to one    *)
(* person, begins once, and what has ended never comes back.  The gift     *)
(* certificates of a request go to the account of whoever signed in with   *)
(* its session, all of them or none, no certificate is on two accounts,    *)
(* and one that pays for a seat stays.  How the server's requests get      *)
(* there, through Redis and Postgres, is the concern of Accounts.          *)
(***************************************************************************)
EXTENDS Sequences

CONSTANTS
    Session, User, Number, Request,
    Question,       \* what a request may ask for
    Expiry,         \* the expiry of a certificate in a request, by operation
    NoUser, NoCert

VARIABLES
    holder,         \* who signed in with a session, if anybody has
    live,           \* the sessions that have not ended
    certs,          \* the gift certificates, one for each number
    used,           \* the numbers of those that pay for a seat
    asked,          \* what each request asks for
    undecided       \* the requests that may yet change gift certificates

book == <<holder, live, certs, used, asked, undecided>>

\* The row for the certificate c that request r is about.
Row(r, c) ==
    [user |-> holder[asked[r].cookie], expires |-> Expiry[asked[r].op][c.expires]]

Init == undecided = {}

SignIn(s, u) ==
    /\ holder[s] = NoUser
    /\ holder' = [holder EXCEPT ![s] = u]
    /\ live' = live \cup {s}
    /\ UNCHANGED <<certs, used, asked, undecided>>

\* A session expires, or somebody logs out.
End(s) ==
    /\ live' = live \ {s}
    /\ UNCHANGED <<holder, certs, used, asked, undecided>>

Ask(r, question) ==
    /\ asked' = [asked EXCEPT ![r] = question]
    /\ undecided' = IF question.op \in DOMAIN Expiry THEN undecided \cup {r} ELSE undecided
    /\ UNCHANGED <<holder, live, certs, used>>

\* Without effect: refused, failed, lost, or there is nothing to do.
Dismiss(R) ==
    /\ undecided' = undecided \ R
    /\ UNCHANGED <<holder, live, certs, used, asked>>

AddAll(r) ==
    LET list == asked[r].list IN
    /\ r \in undecided
    /\ asked[r].op = "addGiftCertificates"
    /\ \A i \in DOMAIN list : certs[list[i].number] = NoCert
    /\ \A i, j \in DOMAIN list : list[i].number = list[j].number => i = j
    /\ certs' = [n \in Number |->
                    IF \E i \in DOMAIN list : list[i].number = n
                    THEN Row(r, list[CHOOSE i \in DOMAIN list : list[i].number = n])
                    ELSE certs[n]]
    /\ undecided' = undecided \ {r}
    /\ UNCHANGED <<holder, live, used, asked>>

\* Only the owner's certificate with this expiry, and not if it is used.
DeleteOne(r) ==
    LET c == Head(asked[r].list) IN
    /\ r \in undecided
    /\ asked[r].op = "deleteGiftCertificate"
    /\ certs[c.number] = Row(r, c)
    /\ c.number \notin used
    /\ certs' = [certs EXCEPT ![c.number] = NoCert]
    /\ undecided' = undecided \ {r}
    /\ UNCHANGED <<holder, live, used, asked>>

Use(n) ==
    /\ certs[n] # NoCert
    /\ n \notin used
    /\ used' = used \cup {n}
    /\ UNCHANGED <<holder, live, certs, asked, undecided>>

Release(n) ==
    /\ used' = used \ {n}
    /\ UNCHANGED <<holder, live, certs, asked, undecided>>

Next ==
    \/ \E s \in Session, u \in User : SignIn(s, u)
    \/ \E s \in Session : End(s)
    \/ \E r \in Request, question \in Question : Ask(r, question)
    \/ \E R \in SUBSET Request : Dismiss(R)
    \/ \E r \in Request : AddAll(r) \/ DeleteOne(r)
    \/ \E n \in Number : Use(n) \/ Release(n)

Spec == Init /\ [][Next]_book
=============================================================================
