---------------------------- MODULE PublicUsers ----------------------------
(***************************************************************************)
(* What a resolver may expect when it asks for a user while a response is  *)
(* put together, whatever is batched and cached on the way: the user as    *)
(* the table users had it at some moment since the resolver asked, or as   *)
(* another resolver of the same response has been told before.             *)
(***************************************************************************)
CONSTANTS Reader, Key, Version, Nobody, NotAsked

VARIABLES
    users,      \* table users, by id
    asked,      \* what each resolver waits for, and what the table had since
    told        \* what resolvers have been told about each id

vars == <<users, asked, told>>

UserOf(k) == [id : {k}, version : Version] \cup {Nobody}

Init ==
    /\ users \in [Key -> UNION {UserOf(k) : k \in Key}]
    /\ \A k \in Key : users[k] \in UserOf(k)
    /\ asked = [r \in Reader |-> NotAsked]
    /\ told = [k \in Key |-> {}]

\* Somebody changes a user; resolvers that wait may be told either version.
Change(k) ==
    /\ \E u \in UserOf(k) : users' = [users EXCEPT ![k] = u]
    /\ asked' = [r \in Reader |->
           IF asked[r] # NotAsked /\ asked[r].key = k
           THEN [asked[r] EXCEPT !.seen = @ \cup {users'[k]}]
           ELSE asked[r]]
    /\ UNCHANGED told

Ask(r, k) ==
    /\ asked[r] = NotAsked
    /\ asked' = [asked EXCEPT ![r] = [key |-> k, seen |-> {users[k]}]]
    /\ UNCHANGED <<users, told>>

Tell(k, u) ==
    /\ told' = [told EXCEPT ![k] = @ \cup {u}]
    /\ UNCHANGED users

\* The resolver that asked is told what the table had since then.
TellFresh(r) ==
    /\ asked[r] # NotAsked
    /\ \E u \in asked[r].seen : Tell(asked[r].key, u)
    /\ asked' = [asked EXCEPT ![r] = NotAsked]

\* A resolver is told at once what another one was told.
TellAgain(r, k) ==
    /\ asked[r] = NotAsked
    /\ \E u \in told[k] : Tell(k, u)
    /\ UNCHANGED asked

TellFailed(r) ==
    /\ asked[r] # NotAsked
    /\ asked' = [asked EXCEPT ![r] = NotAsked]
    /\ UNCHANGED <<users, told>>

Next ==
    \/ \E k \in Key : Change(k)
    \/ \E r \in Reader : TellFresh(r) \/ TellFailed(r)
    \/ \E r \in Reader, k \in Key : Ask(r, k) \/ TellAgain(r, k)

Spec == Init /\ [][Next]_vars
=============================================================================
