---------------------------- MODULE MCExecution ----------------------------
(***************************************************************************)
(* An instance of Execution for TLC: two queries and a mutation of two     *)
(* showings.  Between them they have resolvers beside each other on two    *)
(* levels, lists with none, one or two elements, and a forbidden null that *)
(* reaches the data itself as well as one that stops at an optional field. *)
(***************************************************************************)
EXTENDS Execution, SequencesExt

\* The positions, with the path of each and what is there: an operation, an
\* element of a list, or a field of an object type.
Tree == <<
    \* query { showing { webID attendees { userID } adminPaymentDetails {
    \*           showingID attendees { user { nick } } } admin { nick } } }
    <<<<"showing">>, "operation">>,
    <<<<"showing", "showing">>, "Query">>,
    <<<<"showing", "showing", "webID">>, "Showing">>,
    <<<<"showing", "showing", "attendees">>, "Showing">>,
    <<<<"showing", "showing", "attendees", "0">>, "element">>,
    <<<<"showing", "showing", "attendees", "1">>, "element">>,
    <<<<"showing", "showing", "attendees", "0", "userID">>, "PublicAttendee">>,
    <<<<"showing", "showing", "attendees", "1", "userID">>, "PublicAttendee">>,
    <<<<"showing", "showing", "adminPaymentDetails">>, "Showing">>,
    <<<<"showing", "showing", "adminPaymentDetails", "attendees">>, "AdminPaymentDetails">>,
    <<<<"showing", "showing", "adminPaymentDetails", "attendees", "0">>, "element">>,
    <<<<"showing", "showing", "adminPaymentDetails", "attendees", "0", "user">>, "Attendee">>,
    <<<<"showing", "showing", "adminPaymentDetails", "attendees", "0", "user", "nick">>, "PublicUser">>,
    <<<<"showing", "showing", "admin">>, "Showing">>,
    <<<<"showing", "showing", "admin", "nick">>, "PublicUser">>,
    \* query { publicShowings { price movie { title } }
    \*         currentUser { lastLoginTime giftCertificates } }
    <<<<"lists">>, "operation">>,
    <<<<"lists", "publicShowings">>, "Query">>,
    <<<<"lists", "publicShowings", "0">>, "element">>,
    <<<<"lists", "publicShowings", "1">>, "element">>,
    <<<<"lists", "publicShowings", "0", "price">>, "Showing">>,
    <<<<"lists", "publicShowings", "0", "movie">>, "Showing">>,
    <<<<"lists", "publicShowings", "0", "movie", "title">>, "Movie">>,
    <<<<"lists", "publicShowings", "1", "movie">>, "Showing">>,
    <<<<"lists", "currentUser">>, "Query">>,
    <<<<"lists", "currentUser", "lastLoginTime">>, "User">>,
    <<<<"lists", "currentUser", "giftCertificates">>, "User">>,
    \* mutation { promoteToAdmin { webID adminPaymentDetails { showingID } }
    \*            updateShowing { adminPaymentDetails { showingID } }
    \*            markAsBought { webID }
    \*            disableCalendarFeed { calendarFeedID } }
    <<<<"handover">>, "operation">>,
    <<<<"handover", "promoteToAdmin">>, "Mutation">>,
    <<<<"handover", "promoteToAdmin", "webID">>, "Showing">>,
    <<<<"handover", "promoteToAdmin", "adminPaymentDetails">>, "Showing">>,
    <<<<"handover", "promoteToAdmin", "adminPaymentDetails", "showingID">>, "AdminPaymentDetails">>,
    <<<<"handover", "updateShowing">>, "Mutation">>,
    <<<<"handover", "updateShowing", "adminPaymentDetails">>, "Showing">>,
    <<<<"handover", "updateShowing", "adminPaymentDetails", "showingID">>, "AdminPaymentDetails">>,
    <<<<"handover", "markAsBought">>, "Mutation">>,
    <<<<"handover", "markAsBought", "webID">>, "Showing">>,
    <<<<"handover", "disableCalendarFeed">>, "Mutation">>,
    <<<<"handover", "disableCalendarFeed", "calendarFeedID">>, "User">> >>

Path(p) == Tree[p][1]
MCOperation == {p \in DOMAIN Tree : Tree[p][2] = "operation"}
MCElement == {p \in DOMAIN Tree : Tree[p][2] = "element"}
MCField == DOMAIN Tree \ (MCOperation \cup MCElement)
MCParentOf ==
    [p \in DOMAIN Tree \ MCOperation |->
        CHOOSE q \in DOMAIN Tree : Path(q) = Front(Path(p))]
MCUnder == [p \in DOMAIN Tree |-> {q \in DOMAIN Tree : IsPrefix(Path(p), Path(q))}]
MCCoordinate == [f \in MCField |-> <<Tree[f][2], Last(Path(f))>>]
MCIndex == [f \in MCField |-> f]
\* markAsBought is about another showing than the other fields.
MCShowingOf ==
    [f \in MCField |-> IF Path(f)[2] = "markAsBought" THEN "bought" ELSE "handedOver"]
=============================================================================
