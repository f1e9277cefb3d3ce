----------------------------- MODULE MCAccounts -----------------------------
(***************************************************************************)
(* An instance of Accounts for TLC: a and b have signed in, one session id *)
(* is left for whoever does next, and the lists of gift certificates name  *)
(* two numbers in either order, or one of them twice.                      *)
(***************************************************************************)
EXTENDS Accounts, TLC

CONSTANTS a, b, sessionA, sessionB, next, n1, n2

Sessions == (sessionA :> a) @@ (sessionB :> b) @@ (next :> NoUser)
Given(number) == [number |-> number, expires |-> Today]
Plain(number) == [number |-> number, expires |-> NoDate]
Lists == {<<Given(n1)>>, <<Plain(n1)>>, <<Plain(n1), Given(n2)>>, <<Given(n2), Plain(n1)>>,
          <<Plain(n2), Given(n2)>>}
=============================================================================
