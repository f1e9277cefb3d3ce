----------------------------- MODULE Execution -----------------------------
(***************************************************************************)
(* How the generated gql/runtime.go executes one operation, together with  *)
(* the directive @auth (showing_admin_auth.go) and the recover function    *)
(* (cinemaserver.go).                                                      *)
(*                                                                         *)
(* An operation is a tree of positions.  An object runs its plain fields   *)
(* one after the other and then dispatches the resolvers it has delayed,   *)
(* each in a goroutine of its own; a list completes its elements beside    *)
(* each other.  The fields of a mutation run one after the other.  Every   *)
(* null where the schema forbids one counts against the object it is in,   *)
(* which becomes null itself.                                              *)
(***************************************************************************)
EXTENDS Naturals, FiniteSets, Schema

CONSTANTS
    Operation,      \* the operations: the query or the mutation as a whole
    Field,          \* the positions of their selected fields
    Element,        \* the positions of the elements of lists of objects
    ParentOf,       \* the position each field and element is part of
    Under,          \* a position and everything below it
    Coordinate,     \* the object type of a field and its name there
    Index,          \* the place of a field in the selection it is in
    ShowingOf       \* the showing a guarded field names or is part of

VARIABLES
    operation,      \* the operation being executed
    state,          \* how far each position is, in the end "data" or "null"
    present,        \* the elements the resolver of a list has returned
    invalids,       \* the counter of forbidden nulls of each object
    errors,         \* the paths the errors of the response have
    administered    \* the showings the caller is the admin of

vars == <<operation, state, present, invalids, errors, administered>>

Position == Operation \cup Field \cup Element
Part == Field \cup Element
PartsOf == [p \in Position |-> {c \in Part : ParentOf[c] = p}]
Above == [p \in Position |-> {q \in Position : p \in Under[q] /\ q # p}]

\* What the schema says of a field.
RuleOf(f) == Object[Coordinate[f][1]][Coordinate[f][2]]

ListField == {f \in Field : RuleOf(f).as = "list" /\ RuleOf(f).of \in DOMAIN Object}
ObjectField == {f \in Field : RuleOf(f).as = "one" /\ RuleOf(f).of \in DOMAIN Object}
ArgumentField == {f \in Field : RuleOf(f).arguments = "taken"}
GuardedField == {f \in Field : RuleOf(f).auth = "SHOWING_ADMIN"}
Mandatory == Element \cup {f \in Field : RuleOf(f).null = "error"}

\* An object dispatches these fields when its other fields are done.
DelayedField ==
    {f \in Field : /\ Coordinate[f][1] \in DOMAIN Delayed
                   /\ Coordinate[f][2] \in Delayed[Coordinate[f][1]]}

\* These run code that may fail; the others read a field of a struct.
ResolverField == DelayedField \cup {f \in Field : Coordinate[f][1] = "Mutation"}

\* A nil pointer is what many optional fields hold and what a loader may
\* return; a zero time is marshalled as null as well.
NilField ==
    {f \in Field : /\ RuleOf(f).as = "one"
                   /\ \/ RuleOf(f).null = "allowed"
                      \/ RuleOf(f).of \in {"PublicUser", "Time"}}

\* After these the caller may not be the admin of the showing anymore.
HandoverField ==
    {f \in Field : Coordinate[f] \in {<<"Mutation", "promoteToAdmin">>,
                                      <<"Mutation", "deleteShowing">>}}

\* The positions are finite trees, and Under says which part is below which.
ASSUME TreeAssumption ==
    /\ IsFiniteSet(Position)
    /\ Operation \cap Part = {} /\ Field \cap Element = {}
    /\ ParentOf \in [Part -> Position]
    /\ Under \in [Position -> SUBSET Position]
    /\ \A p \in Position : p \in Under[p]
    /\ \A c \in Part, p \in Position :
          c \in Under[p] <=> c = p \/ ParentOf[c] \in Under[p]
    /\ \A o \in Operation, p \in Position : o \in Under[p] => o = p
    /\ \A p, q \in Position :
          q \in Under[p] => q = p \/ \E c \in PartsOf[p] : q \in Under[c]
    /\ \A p, q, r \in Position : q \in Under[p] /\ r \in Under[q] => r \in Under[p]
    /\ \A c \in Part : ParentOf[c] \notin Under[c]

\* The fields belong to objects of the schema, the elements to its lists.
ASSUME SchemaAssumption ==
    /\ \A f \in Field :
          /\ Coordinate[f][1] \in DOMAIN Object
          /\ Coordinate[f][2] \in DOMAIN Object[Coordinate[f][1]]
          /\ Index[f] \in Nat
    /\ \A e \in Element : ParentOf[e] \in ListField
    /\ \A f \in Field :
          ParentOf[f] \in Operation <=> Coordinate[f][1] \in {"Query", "Mutation"}
    /\ \A f \in Field :
          \/ ParentOf[f] \in Operation
          \/ /\ ParentOf[f] \in ObjectField
             /\ Coordinate[f][1] = RuleOf(ParentOf[f]).of
          \/ /\ ParentOf[f] \in Element
             /\ Coordinate[f][1] = RuleOf(ParentOf[ParentOf[f]]).of
    /\ \A f, g \in Field :
          ParentOf[f] = ParentOf[g] =>
              /\ Coordinate[f][1] = Coordinate[g][1]
              /\ Index[f] = Index[g] => f = g
    /\ GuardedField \subseteq DOMAIN ShowingOf

\* The showings the caller may be asked to administer.
Administrable == {ShowingOf[f] : f \in GuardedField}

Stage == {"waiting", "auth", "resolving", "completing", "data", "null"}
Done(p) == state[p] \in {"data", "null"}

Init ==
    /\ operation \in Operation
    /\ state = [p \in Position |-> IF p = operation THEN "completing" ELSE "waiting"]
    /\ present = [p \in ListField |-> {}]
    /\ invalids = [p \in Position |-> 0]
    /\ errors = {}
    /\ administered \in SUBSET {ShowingOf[f] : f \in GuardedField \cap Under[operation]}
-----------------------------------------------------------------------------
\* A position is done: it has data or it is null, and a field that must not
\* be null is counted by the object it is in.
Finish(p, result) ==
    /\ state' = [state EXCEPT ![p] = result]
    /\ invalids' = IF result = "null" /\ p \in Mandatory \cap Field
                   THEN [invalids EXCEPT ![ParentOf[p]] = @ + 1]
                   ELSE invalids

\* A field that failed is null, and the response says why.
Fail(f) == Finish(f, "null") /\ errors' = errors \cup {f}

\* Mutant: the fields of a mutation are dispatched like those of a query.
EarlierDispatched ==
    [f \in Field |->
        {g \in Field : /\ ParentOf[g] = ParentOf[f]
                       /\ f \in DelayedField /\ g \notin DelayedField}]

\* The fields an object is through with before it comes to another.
Earlier ==
    [f \in Field |->
        {g \in Field : /\ ParentOf[g] = ParentOf[f]
                       /\ g \notin DelayedField
                       /\ f \in DelayedField \/ Index[g] < Index[f]}]

\* The turn of a field of an object, or of an element of a list.
Turn(p) ==
    /\ state[p] = "waiting"
    /\ state[ParentOf[p]] = "completing"
    /\ p \in Field => \A g \in Earlier[p] : Done(g)
    /\ p \in Element => p \in present[ParentOf[p]]

Begin(p) ==
    /\ Turn(p)
    /\ state' = [state EXCEPT ![p] = IF p \in Element THEN "completing"
                                     ELSE IF p \in GuardedField THEN "auth"
                                     ELSE "resolving"]
    /\ UNCHANGED <<operation, present, invalids, errors, administered>>

\* The arguments of a field cannot be unmarshalled.
BadArguments(f) ==
    /\ Turn(f)
    /\ f \in ArgumentField
    /\ Fail(f)
    /\ UNCHANGED <<operation, present, administered>>

\* VerifyShowingAdmin: the resolver runs only for the admin of the showing the
\* field names.  A query that fails is a refusal as well.
Authorize(f) ==
    /\ state[f] = "auth"
    /\ \/ /\ ShowingOf[f] \in administered
          /\ state' = [state EXCEPT ![f] = "resolving"]
          /\ UNCHANGED <<invalids, errors>>
       \/ Fail(f)
    /\ UNCHANGED <<operation, present, administered>>

\* What the caller administers after the resolver of f: a handover takes
\* place, whatever is returned, or it does not; the caller may hand over to
\* herself.
Handover(f) ==
    IF f \in HandoverField
    THEN administered' \in {administered, administered \ {ShowingOf[f]}}
    ELSE UNCHANGED administered

\* The resolver returns nil, or the field of the struct is: "must not be null".
ReturnNil(f) ==
    /\ state[f] = "resolving"
    /\ f \in NilField
    /\ IF f \in Mandatory THEN Fail(f) ELSE Finish(f, "null") /\ UNCHANGED errors
    /\ Handover(f)
    /\ UNCHANGED <<operation, present>>

ReturnError(f) ==
    /\ state[f] = "resolving"
    /\ f \in ResolverField
    /\ Fail(f)
    /\ Handover(f)
    /\ UNCHANGED <<operation, present>>

\* Mutant: the recover function reports the panic and answers nothing.
PanicUnanswered(f) ==
    /\ state[f] = "resolving"
    /\ f \in ResolverField
    /\ state' = [state EXCEPT ![f] = "panicked"]
    /\ errors' = errors \cup {f}
    /\ Handover(f)
    /\ UNCHANGED <<operation, present, invalids>>

\* The resolver panics: the field function recovers and is null.
Panic(f) ==
    /\ state[f] = "resolving"
    /\ f \in ResolverField
    /\ Fail(f)
    /\ Handover(f)
    /\ UNCHANGED <<operation, present>>

ReturnValue(f) ==
    /\ state[f] = "resolving"
    /\ IF f \in ListField \cup ObjectField
       THEN /\ state' = [state EXCEPT ![f] = "completing"]
            /\ UNCHANGED invalids
       ELSE Finish(f, "data")
    /\ IF f \in ListField
       THEN \E elements \in SUBSET PartsOf[f] : present' = [present EXCEPT ![f] = elements]
       ELSE UNCHANGED present
    /\ Handover(f)
    /\ UNCHANGED <<operation, errors>>

\* Mutant: Dispatch does not wait for the goroutines it has started.
CompleteObjectEarly(p) ==
    /\ p \notin ListField
    /\ state[p] = "completing"
    /\ \A f \in PartsOf[p] : state[f] # "waiting"
    /\ Finish(p, IF invalids[p] > 0 THEN "null" ELSE "data")
    /\ UNCHANGED <<operation, present, errors, administered>>

\* Every field of an object has been marshalled: out.Dispatch is back.
CompleteObject(p) ==
    /\ p \notin ListField
    /\ state[p] = "completing"
    /\ \A f \in PartsOf[p] : Done(f)
    /\ Finish(p, IF invalids[p] > 0 THEN "null" ELSE "data")
    /\ UNCHANGED <<operation, present, errors, administered>>

\* Mutant: elements that are null are left in the list.
CompleteListAnyway(p) ==
    /\ p \in ListField
    /\ state[p] = "completing"
    /\ \A e \in present[p] : Done(e)
    /\ Finish(p, "data")
    /\ UNCHANGED <<operation, present, errors, administered>>

\* Every element of a list has been: wg.Wait is back.
CompleteList(p) ==
    /\ p \in ListField
    /\ state[p] = "completing"
    /\ \A e \in present[p] : Done(e)
    /\ Finish(p, IF \E e \in present[p] : state[e] = "null" THEN "null" ELSE "data")
    /\ UNCHANGED <<operation, present, errors, administered>>

Next ==
    \/ \E p \in Part : Begin(p)
    \/ \E f \in Field : \/ BadArguments(f) \/ Authorize(f)
                        \/ ReturnNil(f) \/ ReturnError(f) \/ Panic(f) \/ ReturnValue(f)
    \/ \E p \in Position : CompleteObject(p) \/ CompleteList(p)

Spec == Init /\ [][Next]_vars

\* Resolvers return, and the scheduler runs every goroutine that can go on.
FairSpec == Spec /\ WF_vars(Next)
-----------------------------------------------------------------------------
(***************************************************************************)
(* Properties.                                                             *)
(***************************************************************************)
TypeOK ==
    /\ operation \in Operation
    /\ state \in [Position -> Stage]
    /\ present \in [ListField -> SUBSET Part]
    /\ invalids \in [Position -> Nat]
    /\ errors \subseteq Part
    /\ administered \subseteq Administrable

\* A mutation that hands a showing over, or deletes it, passes no guard of a
\* later field about that showing anymore, whatever other showings it names:
\* no guarded resolver runs for a former admin.
HandoverNoticed ==
    \A f \in GuardedField : state[f] = "resolving" => ShowingOf[f] \in administered

\* The parts of what is being executed are all below the operation, and
\* whatever is above something at work is at work as well.
Nesting ==
    \A p \in Position : state[p] # "waiting" =>
        /\ p \in Under[operation]
        /\ \A q \in Above[p] :
              state[q] = "completing" \/ (Done(p) /\ Done(q))

\* A field that has begun is preceded by fields that are done.
Ordered == \A f \in Field : state[f] # "waiting" => \A g \in Earlier[f] : Done(g)

\* A list works on the elements its resolver has returned, and only those.
ListNesting ==
    \A f \in ListField :
        /\ present[f] \subseteq PartsOf[f]
        /\ state[f] \in {"waiting", "auth", "resolving"} => present[f] = {}
        /\ \A e \in PartsOf[f] : state[e] # "waiting" => e \in present[f]
        /\ Done(f) => \A e \in present[f] : Done(e)

\* Data is complete, and has no null where there must be none.
Complete ==
    \A p \in Position : state[p] = "data" =>
        /\ p \notin ListField => \A c \in PartsOf[p] : Done(c)
        /\ \A c \in PartsOf[p] \cap Mandatory : state[c] # "null"

\* The counter of an object tells whether one of its fields is a null that
\* must not be.
Counted ==
    \A p \in Position \ ListField :
        invalids[p] > 0 <=> \E c \in PartsOf[p] \cap Mandatory : state[c] = "null"

\* Every error has a null at or above its path, the topmost of which no
\* other null contains; every forbidden null has an error at or below it.
Reported ==
    /\ \A e \in errors : \E p \in Position :
          /\ e \in Under[p] /\ state[p] = "null"
          /\ \A q \in Above[p] : state[q] # "null"
    /\ \A p \in Mandatory \cup Operation :
          state[p] = "null" => \E e \in errors : e \in Under[p]

IInv ==
    /\ TypeOK
    /\ Nesting
    /\ Ordered
    /\ ListNesting
    /\ Complete
    /\ Counted
    /\ Reported

\* The answer as the client sees it: what is inside a null is not there.
Visible(p) == Done(p) /\ \A q \in Above[p] : state[q] = "data"

answer ==
    IF Done(operation)
    THEN [data |-> {p \in Position : Visible(p) /\ state[p] = "data"},
          null |-> {p \in Position : Visible(p) /\ state[p] = "null"},
          errors |-> errors]
    ELSE [data |-> {}, null |-> {}, errors |-> {}]

\* Whatever the resolvers do, in whatever order they come back, the response
\* is one a GraphQL client may rely on, and it is given once.
R == INSTANCE Response WITH
        answer <- answer,
        Selected <- [p \in Position |-> PartsOf[p] \cap Field]
ImplementsResponse == R!Spec

\* The next step of p: it is its turn, its directive or its resolver returns,
\* or whoever completes it has waited for all it waits for.
CanGoOn(p) ==
    \/ p \in Part /\ Turn(p)
    \/ p \in Field /\ state[p] \in {"auth", "resolving"}
    \/ /\ state[p] = "completing"
       /\ \A c \in IF p \in ListField THEN present[p] ELSE PartsOf[p] : Done(c)

\* The fields of an object wait for their turn, the delayed ones for the
\* others, Dispatch for the fields and the WaitGroup of a list for the
\* elements, and yet somebody can always go on until the operation is done,
\* whichever resolvers have failed or panicked.
NobodyStuck == Done(operation) \/ \E p \in Position : CanGoOn(p)

\* Every operation is answered, although its resolvers fail and panic.
EveryOperationAnswered == <>Done(operation)
=============================================================================
