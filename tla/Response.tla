------------------------------ MODULE Response ------------------------------
(***************************************************************************)
(* What a GraphQL operation may be answered: data in the shape of the      *)
(* selection, with a null wherever something failed and an error that says *)
(* so.  How the server comes to the answer is the concern of Execution.    *)
(***************************************************************************)
EXTENDS Naturals

CONSTANTS
    Operation,      \* the operations: the query or the mutation as a whole
    Position,       \* the operations, their fields and the elements of lists
    ParentOf,       \* the position each field and element is part of
    Under,          \* a position and everything below it
    Selected,       \* the positions of an object's selected fields
    Mandatory       \* where the schema does not allow a null

VARIABLES
    operation,      \* the operation asked for
    answer          \* what it was answered

\* The positions of the answer that hold data and those that hold a null;
\* and the paths of its errors.
Answer == [data : SUBSET Position, null : SUBSET Position, errors : SUBSET Position]
Pending == [data |-> {}, null |-> {}, errors |-> {}]

\* A position is answered inside what it is part of, or not at all.
Nested(a) ==
    /\ operation \in a.data \cup a.null
    /\ a.data \cap a.null = {}
    /\ \A p \in a.data \cup a.null : p # operation => ParentOf[p] \in a.data

\* An object has all the fields that were selected.
Whole(a) == \A p \in a.data : Selected[p] \subseteq a.data \cup a.null

\* No null where the schema forbids one.
Wellformed(a) == a.null \cap Mandatory = {}

\* What failed is not shown: there is a null at or above it.
Honest(a) == \A e \in a.errors : \E p \in a.null : e \in Under[p]

\* No data at all is never unexplained.
Explained(a) == operation \in a.null => a.errors # {}

Valid(a) == Nested(a) /\ Whole(a) /\ Wellformed(a) /\ Honest(a) /\ Explained(a)
-----------------------------------------------------------------------------
Init == operation \in Operation /\ answer = Pending

Respond ==
    /\ answer = Pending
    /\ answer' \in Answer
    /\ Valid(answer')
    /\ UNCHANGED operation

Spec == Init /\ [][Respond]_<<operation, answer>>
=============================================================================
