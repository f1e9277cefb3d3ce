----------------------------- MODULE MCPayments -----------------------------
(***************************************************************************)
(* An instance of Payments for TLC: prices that are typed with no, one and *)
(* two decimals.                                                           *)
(***************************************************************************)
EXTENDS Payments

Price(kronor, decimals, oren) ==
    [sign |-> "plus", kronor |-> kronor, decimals |-> decimals, oren |-> oren]

\* "2", "1.5", "1.05", "1.50", "1.57" and "0.40".
MCTyped ==
    {Price(2, 0, 0), Price(1, 1, 5), Price(1, 2, 5), Price(1, 2, 50), Price(1, 2, 57),
     Price(0, 2, 40)}
=============================================================================
