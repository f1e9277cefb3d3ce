------------------------------ MODULE Currency ------------------------------
(***************************************************************************)
(* Amounts of money (internal/currency/sek.go): an int32 of ören that the  *)
(* API writes and reads as a text such as "12.57 kr".  A text is taken     *)
(* apart into its sign, its kronor, the number its decimals are read as    *)
(* and how many they are; "1.5" and "1.05" have the same number and differ *)
(* in how many.                                                            *)
(***************************************************************************)
EXTENDS Integers

CONSTANT Half               \* an int32 holds -Half .. Half - 1: 2^31

Kronor == 100               \* 100 ören == 1 kr
SEK == (-Half)..(Half - 1)

Text == [sign : {"plus", "minus"}, kronor : Nat, decimals : {0, 1, 2}, oren : 0..99]

\* The conversion of an integer to an int32.
ToInt32(n) == ((n + Half) % (2 * Half)) - Half

Magnitude(n) == IF n < 0 THEN -n ELSE n

\* The shortest decimals that tell the amount: none for whole kronor, one
\* for whole tens of ören.
String(sek) ==
    LET kronor == Magnitude(sek) \div Kronor
        oren == Magnitude(sek) - kronor * Kronor
        tens == oren \div 10
    IN  [sign |-> IF sek < 0 THEN "minus" ELSE "plus",
         kronor |-> kronor,
         decimals |-> IF oren = 0 THEN 0 ELSE IF oren = tens * 10 THEN 1 ELSE 2,
         oren |-> IF oren = tens * 10 THEN tens ELSE oren]

\* Atoi of what precedes the dot, and Atoi of what follows it as ören.
UnmarshalGQL(text) ==
    ToInt32((IF text.sign = "minus" THEN -text.kronor ELSE text.kronor) * Kronor + text.oren)

\* The whole kronor of a payment, a half rounded away from zero.
InKronor(sek) ==
    LET nearest == (Magnitude(sek) + 50) \div Kronor IN
    IF sek < 0 THEN -nearest ELSE nearest

\* The amounts Swish accepts; FormatURI answers an error for the others.
SwishAmount == 1..150000
=============================================================================
