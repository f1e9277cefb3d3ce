---------------------------- MODULE ShowingBook ----------------------------
(***************************************************************************)
(* What the mutations of internal/graph/showing.resolvers.go and           *)
(* payment.resolvers.go promise about the committed tables, without        *)
(* requests, queries, locks or transactions: the life of a showing and of  *)
(* the attendees it has, one atomic change after the other.                *)
(***************************************************************************)
EXTENDS Naturals

CONSTANTS User, Showing, Price, Absent

VARIABLES showings, attendees

book == <<showings, attendees>>

Seat == Showing \X User
Attending(s) == {u \in User : attendees[<<s, u>>] # Absent}

Init ==
    /\ showings = [s \in Showing |-> Absent]
    /\ attendees = [k \in Seat |-> Absent]

-----------------------------------------------------------------------------
\* A showing appears together with its admin, who owes nothing.
Plan(s, u) ==
    /\ showings[s] = Absent
    /\ showings' = [showings EXCEPT ![s] =
           [admin |-> u, payTo |-> u, price |-> 0, bought |-> FALSE]]
    /\ attendees' = [attendees EXCEPT ![<<s, u>>] =
           [paid |-> TRUE, owed |-> 0, cert |-> FALSE]]

\* Somebody joins a showing that is there, whether or not it is bought by now.
Join(s, u) ==
    /\ showings[s] # Absent
    /\ attendees[<<s, u>>] = Absent
    /\ \E swish, cert \in BOOLEAN, c \in Price :
         attendees' = [attendees EXCEPT ![<<s, u>>] =
             [paid |-> ~swish, owed |-> IF swish THEN c ELSE 0, cert |-> cert]]
    /\ UNCHANGED showings

Leave(s, u) ==
    /\ attendees[<<s, u>>] # Absent
    /\ attendees' = [attendees EXCEPT ![<<s, u>>] = Absent]
    /\ UNCHANGED showings

\* Some attendees are settled, some that have not paid owe the amount c.
Charge(s, c) ==
    \E settled \in SUBSET Attending(s),
       owing \in SUBSET {u \in Attending(s) : ~attendees[<<s, u>>].paid /\ ~attendees[<<s, u>>].cert} :
         attendees' = [k \in Seat |->
             CASE k[1] = s /\ k[2] \in settled -> [attendees[k] EXCEPT !.paid = TRUE, !.owed = 0]
               [] k[1] = s /\ k[2] \in owing \ settled -> [attendees[k] EXCEPT !.owed = c]
               [] OTHER -> attendees[k]]

\* The purchase: the price becomes known and is what is charged.
Purchase(s, c) ==
    /\ showings[s] # Absent
    /\ ~showings[s].bought
    /\ showings' = [showings EXCEPT ![s].bought = TRUE, ![s].price = c]
    /\ Charge(s, c)

\* A MarkAsBought whose last update finds the showing bought already, gone
\* from the caller's hands, or both, still charges.
ChargeOnly(s, c) == UNCHANGED showings /\ Charge(s, c)

Amend(s, c, u) ==
    /\ showings[s] # Absent
    /\ showings' = [showings EXCEPT ![s].price = c, ![s].payTo = u]
    /\ UNCHANGED attendees

\* Only a showing that is not bought gets a new admin.
HandOver(s, u) ==
    /\ showings[s] # Absent
    /\ ~showings[s].bought
    /\ showings' = [showings EXCEPT ![s].admin = u, ![s].payTo = u]
    /\ UNCHANGED attendees

SetPayment(s, u, paid, c) ==
    /\ attendees[<<s, u>>] # Absent
    /\ attendees' = [attendees EXCEPT ![<<s, u>>].paid = paid, ![<<s, u>>].owed = c]
    /\ UNCHANGED showings

\* A showing goes with everybody who attends it.
Remove(s) ==
    /\ showings[s] # Absent
    /\ showings' = [showings EXCEPT ![s] = Absent]
    /\ attendees' = [k \in Seat |-> IF k[1] = s THEN Absent ELSE attendees[k]]

Next ==
    \E s \in Showing :
        \/ \E c \in Price : ChargeOnly(s, c) \/ Purchase(s, c)
        \/ \E u \in User : Plan(s, u) \/ Join(s, u) \/ Leave(s, u) \/ HandOver(s, u)
        \/ \E c \in Price, u \in User : Amend(s, c, u)
        \/ \E c \in Price, u \in User, paid \in BOOLEAN : SetPayment(s, u, paid, c)
        \/ Remove(s)

Spec == Init /\ [][Next]_book
=============================================================================
