------------------------------- MODULE Schema -------------------------------
(***************************************************************************)
(* The GraphQL schema as the generated gql/runtime.go executes it: for     *)
(* each field of each object, what its field function returns, whether     *)
(* null is an error there, whether it takes arguments and whether the      *)
(* directive @auth(requires: SHOWING_ADMIN) stands before its resolver.    *)
(* The tables follow the files api/graphql/*.graphqls.  The introspection  *)
(* types (__Schema, __Type, ...) are left out.                             *)
(***************************************************************************)
EXTENDS TLC

\* What a field function marshals: T!, T or [T!]!.
Must(type) == [of |-> type, as |-> "one", null |-> "error",
               arguments |-> "none", auth |-> "anyone"]
May(type) == [Must(type) EXCEPT !.null = "allowed"]
All(type) == [Must(type) EXCEPT !.as = "list"]
Taking(rule) == [rule EXCEPT !.arguments = "taken"]
Guarded(rule) == [rule EXCEPT !.auth = "SHOWING_ADMIN"]
-----------------------------------------------------------------------------
\* Cinemas and Filmstaden.
CinemaScreenFields ==
    [id |-> Must("ID"), name |-> Must("String")]

FilmstadenPlaces ==
    [FilmstadenCinema |-> [filmstadenID |-> Must("ID"), name |-> Must("String")],
     FilmstadenScreen |-> [filmstadenID |-> Must("ID"), name |-> Must("String")],
     FilmstadenCityAlias |-> [name |-> Must("String"), alias |-> Must("String")]]

FilmstadenGeometry ==
    [FilmstadenSeatCoordinates |-> [x |-> Must("Float"), y |-> Must("Float")],
     FilmstadenSeatDimensions |-> [width |-> Must("Float"), height |-> Must("Float")]]

FilmstadenSeatMapFields ==
    [row |-> Must("Int"), number |-> Must("Int"),
     seatType |-> Must("String"),
     coordinates |-> Must("FilmstadenSeatCoordinates"),
     dimensions |-> Must("FilmstadenSeatDimensions")]

FilmstadenShowingFields ==
    [id |-> Must("String"), cinema |-> Must("FilmstadenCinema"),
     screen |-> Must("FilmstadenScreen"), timeUtc |-> Must("Time"),
     tags |-> All("String")]

\* Movies.  The identifiers they are known by, what Filmstaden says of them,
\* and what only this system does.
MovieIDs ==
    [id |-> Must("UUID"), filmstadenID |-> Must("String"),
     imdbID |-> May("IMDbID"), tmdbID |-> May("TMDbID"),
     slug |-> Must("String")]

MovieFacts ==
    [title |-> Must("String"), releaseDate |-> Must("String"),
     productionYear |-> Must("Int"), runtime |-> Must("String"),
     poster |-> May("String"), genres |-> All("String")]

MovieUpkeep ==
    [popularity |-> Must("Float"), archived |-> Must("Boolean"),
     updateTime |-> Must("String"), createTime |-> Must("String")]

MovieFields == MovieIDs @@ MovieFacts @@ MovieUpkeep

\* Users, as others see them and as they see themselves.
PublicUserFields ==
    [id |-> Must("UUID"), name |-> Must("String"),
     firstName |-> Must("String"), lastName |-> Must("String"),
     nick |-> May("String"), phone |-> May("String"),
     avatarURL |-> May("String")]

GiftCertificateFields ==
    [number |-> Must("String"), expireTime |-> Must("LocalDate"),
     status |-> Must("GiftCertificate_Status")]

UserDetails ==
    [id |-> Must("UUID"),
     filmstadenMembershipID |-> May("FilmstadenMembershipID"),
     name |-> Must("String"), firstName |-> Must("String"),
     lastName |-> Must("String"), nick |-> May("String"),
     email |-> Must("String"), phone |-> May("String"),
     avatarURL |-> May("String")]

UserAccount ==
    [giftCertificates |-> All("GiftCertificate"),
     calendarFeedID |-> May("UUID"), calendarFeedUrl |-> May("String"),
     lastLoginTime |-> Must("Time"), signupTime |-> Must("Time"),
     updateTime |-> Must("Time")]

UserFields == UserDetails @@ UserAccount

\* Tickets.
Seats ==
    [Seat |-> [row |-> Must("Int"), number |-> Must("Int")],
     SeatRange |-> [row |-> Must("Int"), numbers |-> All("Int")]]

TicketRangeFields ==
    [rows |-> All("Int"), seatings |-> All("SeatRange"),
     totalCount |-> Must("Int")]

TicketIDs ==
    [id |-> Must("String"), showingID |-> Must("UUID"),
     assignedToUser |-> Must("UUID"), profileID |-> May("String"),
     barcode |-> Must("String"), customerType |-> Must("String"),
     customerTypeDefinition |-> Must("String")]

TicketPlace ==
    [cinema |-> Must("String"), cinemaCity |-> May("String"),
     screen |-> Must("String"), seat |-> Must("Seat")]

TicketText ==
    [date |-> Must("LocalDate"), time |-> Must("String"),
     movieName |-> Must("String"), movieRating |-> Must("String"),
     attributes |-> All("String")]

TicketFields == TicketIDs @@ TicketPlace @@ TicketText

\* Who attends, and what they owe.
PublicAttendeeFields ==
    [userID |-> Must("UUID"), showingID |-> Must("UUID"),
     userInfo |-> Must("PublicUser")]

AttendeeIDs ==
    [id |-> Must("Base64ID"), userID |-> Must("UUID"),
     user |-> Must("PublicUser"), showingID |-> Must("UUID")]

AttendeePayment ==
    [hasPaid |-> Must("Boolean"), amountOwed |-> Must("SEK"),
     type |-> Must("PaymentType"),
     giftCertificateUsed |-> May("GiftCertificate"),
     filmstadenMembershipID |-> May("String")]

AttendeeFields == AttendeeIDs @@ AttendeePayment

AttendeePaymentDetailsFields ==
    [hasPaid |-> Must("Boolean"), amountOwed |-> Must("SEK"),
     payTo |-> Must("PublicUser"), payer |-> Must("PublicUser"),
     swishLink |-> May("String")]

AdminPaymentDetailsFields ==
    [filmstadenBuyLink |-> May("String"), showingID |-> Must("UUID"),
     attendees |-> All("Attendee")]

\* Showings.
ShowingTime ==
    [id |-> Must("UUID"), webID |-> Must("Base64ID"),
     filmstadenShowingID |-> May("String"), slug |-> Must("String"),
     date |-> Must("LocalDate"), time |-> Must("LocalTime")]

ShowingPlace ==
    [movieID |-> Must("UUID"), movie |-> Must("Movie"),
     location |-> Must("String"), cinemaScreen |-> May("CinemaScreen"),
     price |-> May("SEK"), ticketsBought |-> Must("Boolean")]

ShowingPeople ==
    [admin |-> Must("PublicUser"), private |-> Must("Boolean"),
     payToUser |-> Must("PublicUser"), updateTime |-> Must("Time"),
     createTime |-> Must("Time"), attendees |-> All("PublicAttendee")]

ShowingPayment ==
    [filmstadenSeatMap |-> All("FilmstadenSeatMap"),
     adminPaymentDetails |-> Guarded(May("AdminPaymentDetails")),
     attendeePaymentDetails |-> May("AttendeePaymentDetails")]

ShowingTickets ==
    [myTickets |-> All("Ticket"), ticketRange |-> May("TicketRange")]

ShowingFields ==
    ShowingTime @@ ShowingPlace @@ ShowingPeople @@
    ShowingPayment @@ ShowingTickets

CommandmentsFields ==
    [number |-> Must("Int"), phrase |-> Must("String")]

\* The queries.
ShowingQueries ==
    [showing |-> Taking(May("Showing")),
     publicShowings |-> Taking(All("Showing")),
     showingForMovie |-> Taking(All("Showing"))]

CommandmentQueries ==
    [allCommandments |-> All("Commandments"),
     randomCommandment |-> Must("Commandments")]

PlaceQueries ==
    [filmstadenShowings |-> Taking(All("FilmstadenShowing")),
     previouslyUsedLocations |-> All("String"),
     filmstadenCities |-> All("FilmstadenCityAlias")]

MovieQueries ==
    [movie |-> Taking(May("Movie")), allMovies |-> All("Movie"),
     archivedMovies |-> All("Movie")]

UserQueries ==
    [currentUser |-> Must("User"), allUsers |-> All("PublicUser")]

QueryFields ==
    ShowingQueries @@ CommandmentQueries @@ PlaceQueries @@
    MovieQueries @@ UserQueries

\* The mutations.
AttendeeMutations ==
    [attendShowing |-> Taking(Must("Showing")),
     unattendShowing |-> Taking(Must("Showing")),
     createShowing |-> Taking(Must("Showing"))]

PurchaseMutations ==
    [deleteShowing |-> Guarded(Taking(All("Showing"))),
     markAsBought |-> Guarded(Taking(Must("Showing")))]

AdminMutations ==
    [updateShowing |-> Guarded(Taking(Must("Showing"))),
     promoteToAdmin |-> Guarded(Taking(Must("Showing")))]

MovieMutations ==
    [fetchNewMoviesFromFilmstaden |-> Taking(All("Movie"))]

PaymentMutations ==
    [updateAttendeePaymentInfo |-> Guarded(Taking(Must("Attendee")))]

TicketMutations ==
    [processTicketUrls |-> Guarded(Taking(Must("Showing")))]

UserMutations ==
    [updateUser |-> Taking(Must("User")),
     invalidateCalendarFeed |-> Must("User"),
     disableCalendarFeed |-> Must("User"),
     addGiftCertificates |-> Taking(Must("User")),
     deleteGiftCertificate |-> Taking(Must("User"))]

MutationFields ==
    AttendeeMutations @@ PurchaseMutations @@ AdminMutations @@
    MovieMutations @@ PaymentMutations @@ TicketMutations @@ UserMutations

-----------------------------------------------------------------------------
\* Every object type and its fields.
Object ==
    [AdminPaymentDetails |-> AdminPaymentDetailsFields,
     Attendee |-> AttendeeFields,
     AttendeePaymentDetails |-> AttendeePaymentDetailsFields,
     CinemaScreen |-> CinemaScreenFields,
     Commandments |-> CommandmentsFields,
     FilmstadenSeatMap |-> FilmstadenSeatMapFields,
     FilmstadenShowing |-> FilmstadenShowingFields,
     GiftCertificate |-> GiftCertificateFields,
     Movie |-> MovieFields,
     Mutation |-> MutationFields,
     PublicAttendee |-> PublicAttendeeFields,
     PublicUser |-> PublicUserFields,
     Query |-> QueryFields,
     Showing |-> ShowingFields,
     Ticket |-> TicketFields,
     TicketRange |-> TicketRangeFields,
     User |-> UserFields] @@
    FilmstadenPlaces @@ FilmstadenGeometry @@ Seats

(***************************************************************************)
(* The fields whose resolvers an object function delays: out.Dispatch runs *)
(* them beside each other once the others are done.  Each of them belongs  *)
(* to a method of a resolver type (IsResolver).                            *)
(***************************************************************************)
QueryDelayed == DOMAIN QueryFields
ShowingDelayed ==
    {"movie", "cinemaScreen", "admin", "payToUser", "attendees",
     "filmstadenSeatMap", "adminPaymentDetails", "attendeePaymentDetails",
     "myTickets", "ticketRange"}
AttendeeDelayed == {"user"}
AttendeePaymentDetailsDelayed == {"payTo", "payer"}
UserDelayed == {"giftCertificates"}

\* Resolvers run in an order of their own only for these objects.  Those of
\* a mutation are not delayed, and the other objects have no resolvers.
Delayed ==
    [Query |-> QueryDelayed, Showing |-> ShowingDelayed,
     Attendee |-> AttendeeDelayed, User |-> UserDelayed,
     AttendeePaymentDetails |-> AttendeePaymentDetailsDelayed]
=============================================================================
