----------------------------- MODULE MCShowings -----------------------------
(***************************************************************************)
(* Small instances of Showings.  Users and requests are model values that  *)
(* nothing tells apart, except where each request has mutations of its own.*)
(***************************************************************************)
EXTENDS Showings, TLC

Symmetry == Permutations(User) \cup Permutations(Request)

All(ops) == [p \in Request |-> ops]

Everything == All(Operation)
JoinAndBuy == All({"create", "attend", "markAsBought"})
Buy == All({"create", "markAsBought"})
HandOverAndDelete == All({"create", "promote", "delete"})

\* One request deletes, one buys, and one updates and leaves.
Mixes == {{"create", "delete"}, {"create", "markAsBought"}, {"update", "unattend"}}
OneEach == CHOOSE f \in [Request -> Mixes] : \A ops \in Mixes : \E p \in Request : f[p] = ops
=============================================================================
