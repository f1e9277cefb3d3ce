------------------------------ MODULE Deadlocks ------------------------------
(***************************************************************************)
(* Who waits for whom in Postgres, as a set of pairs <<p, q>>: p waits for *)
(* a lock of q.  Postgres looks for circles in it and aborts a transaction *)
(* that is in one; nothing else makes a query that waits fail.             *)
(***************************************************************************)

\* Whom the members of S wait for.
WaitedFor(waits, S) == {w[2] : w \in {v \in waits : v[1] \in S}}

\* p waits for itself, over any number of others: it is in every set that
\* has whomever p, and the members of the set, wait for.
InCircle(waits, p) ==
    \A S \in SUBSET {w[2] : w \in waits} :
        WaitedFor(waits, S \cup {p}) \subseteq S => p \in S

\* Nobody outside S can end the wait of a member of S.
Alone(waits, S) == WaitedFor(waits, S) \subseteq S
=============================================================================
