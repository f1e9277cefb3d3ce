----------------------------- MODULE MCTickets -----------------------------
(***************************************************************************)
(* Instances of Tickets for TLC, with links to shows on one cinema screen. *)
(***************************************************************************)
EXTENDS Tickets, TLC

CONSTANTS a, b, t1, t2, t3, x, y, z, r1

\* One link with two tickets and one with another.
Links == (x :> <<t1, t2>>) @@ (y :> <<t3>>)
\* Two links with the same tickets and one with none.
SharedLinks == (x :> <<t1, t2>>) @@ (y :> <<t2, t1>>) @@ (z :> <<>>)
OneScreen == [url \in Url |-> r1]

\* Everybody sends two links at most.
UpToTwo == [p \in Request |-> User \X UNION {[1..n -> Url] : n \in 0..2}]

\* Two users send the same tickets in different order; a third request waits
\* with them for the screen, the row and the pool.
Mixes == {<<a, <<x>>>>, <<b, <<y>>>>, <<a, <<z>>>>}
OneEach == CHOOSE f \in [Request -> {{c} : c \in Mixes}] :
               \A c \in Mixes : \E p \in Request : f[p] = {c}

Symmetry == Permutations(User) \cup Permutations(Showing) \cup Permutations(Request)
=============================================================================
