------------------------------ MODULE Payments ------------------------------
(***************************************************************************)
(* What one attendee of a showing owes, and the pages on which the admin   *)
(* reads amounts and sends them back.  The price is a text the admin types *)
(* or finds in the form; the list of attendees sends with every click on   *)
(* "has paid" the amount it has been answered before.                      *)
(*                                                                         *)
(* Showings models what several requests do to the same rows; this module  *)
(* what becomes of the number on its way.                                  *)
(***************************************************************************)
EXTENDS Currency

CONSTANTS
    Typed,          \* texts an admin may type as a price
    NoPage

VARIABLES
    price,          \* showings.price
    ticketsBought,  \* showings.tickets_bought
    amountOwed,     \* attendees.amount_owed
    hasPaid,        \* attendees.has_paid
    ticketPrice,    \* the price in the form of the admin
    page            \* the attendee in the admin's list

vars == <<price, ticketsBought, amountOwed, hasPaid, ticketPrice, page>>

Details == [amountOwed |-> String(amountOwed), hasPaid |-> hasPaid]

Init ==
    /\ price = 0
    /\ ticketsBought = FALSE
    /\ amountOwed = 0
    /\ hasPaid = FALSE
    /\ ticketPrice = String(0)
    /\ page = NoPage

\* The admin opens a form with the price of the showing,
ReadPrice ==
    /\ ticketPrice' = String(price)
    /\ UNCHANGED <<price, ticketsBought, amountOwed, hasPaid, page>>

\* and may change it.
TypePrice(text) ==
    /\ ticketPrice' = text
    /\ UNCHANGED <<price, ticketsBought, amountOwed, hasPaid, page>>

UpdateShowing ==
    /\ price' = UnmarshalGQL(ticketPrice)
    /\ UNCHANGED <<ticketsBought, amountOwed, hasPaid, ticketPrice, page>>

\* Who has paid already owes nothing new.
MarkAsBought ==
    /\ ~ticketsBought
    /\ ticketsBought' = TRUE
    /\ price' = UnmarshalGQL(ticketPrice)
    /\ amountOwed' = IF hasPaid THEN amountOwed ELSE UnmarshalGQL(ticketPrice)
    /\ UNCHANGED <<hasPaid, ticketPrice, page>>

\* The list of the attendees, which the admin sees once tickets are bought.
AdminPaymentDetails ==
    /\ ticketsBought
    /\ page' = Details
    /\ UNCHANGED <<price, ticketsBought, amountOwed, hasPaid, ticketPrice>>

\* A click on "has paid": the amount on the page is read and stored, and the
\* answer replaces the one on the page.
UpdateAttendeePaymentInfo ==
    /\ page # NoPage
    /\ hasPaid' = ~page.hasPaid
    /\ amountOwed' = UnmarshalGQL(page.amountOwed)
    /\ page' = Details'
    /\ UNCHANGED <<price, ticketsBought, ticketPrice>>

Next ==
    \/ ReadPrice
    \/ \E text \in Typed : TypePrice(text)
    \/ UpdateShowing
    \/ MarkAsBought
    \/ AdminPaymentDetails
    \/ UpdateAttendeePaymentInfo

Spec == Init /\ [][Next]_vars

\* AttendeePaymentDetails: the amount of the Swish link, if there is one, for
\* somebody who is to swish to a phone number and a short enough title.
SwishLink ==
    IF amountOwed > 0 /\ ~hasPaid /\ InKronor(amountOwed) \in SwishAmount
    THEN {InKronor(amountOwed)} ELSE {}
-----------------------------------------------------------------------------
TypeOK ==
    /\ price \in SEK
    /\ ticketsBought \in BOOLEAN
    /\ amountOwed \in SEK
    /\ hasPaid \in BOOLEAN
    /\ ticketPrice \in Text
    /\ page \in [amountOwed : Text, hasPaid : BOOLEAN] \cup {NoPage}

\* The list never shows the admin an amount the attendee does not owe.
PageIsCurrent == page # NoPage => ticketsBought /\ page = Details

\* A test has one krona and 50 ören written as "1.5 kr" (sek_test.go:23-25).
\* The page sends the amounts back as the server has written them: to note
\* that somebody has paid does not change what that was.
AmountKept == [][hasPaid' # hasPaid => amountOwed' = amountOwed]_vars

\* The same for amounts the text of which is read as it was written: whole
\* kronor, and others above zero that do not end in a whole ten of ören.
ReadAsWritten(sek) ==
    \/ String(sek).decimals = 0
    \/ String(sek).decimals = 2 /\ sek > 0

ExactAmountKept ==
    [][hasPaid' # hasPaid /\ ReadAsWritten(amountOwed) => amountOwed' = amountOwed]_vars
=============================================================================
