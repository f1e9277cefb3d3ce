--------------------------- MODULE PaymentsProofs ---------------------------
(***************************************************************************)
(* Theorems of Currency and Payments, for integers of any width and any    *)
(* price the admin may type.                                               *)
(***************************************************************************)
EXTENDS Payments, TLAPS

\* What fits is not changed by the conversion to an int32.
LEMMA ToInt32Fits ==
    ASSUME Half \in Nat \ {0}, NEW n \in SEK
    PROVE  ToInt32(n) = n
<1> DEFINE m == n + Half
<1>1. m \in 0..(2 * Half - 1)
  BY DEF SEK
<1>2. m % (2 * Half) = m
  BY <1>1
<1> QED
  BY <1>2 DEF ToInt32, SEK

\* Whatever text it converts, the result is an int32.
LEMMA ToInt32Type ==
    ASSUME Half \in Nat \ {0}, NEW n \in Int
    PROVE  ToInt32(n) \in SEK
<1>1. (n + Half) % (2 * Half) \in 0..(2 * Half - 1)
  OBVIOUS
<1> QED
  BY <1>1 DEF ToInt32, SEK

\* String writes the sign and the digits of an amount.
LEMMA StringDigits ==
    ASSUME Half \in Nat \ {0}, NEW sek \in SEK
    PROVE  /\ String(sek) \in Text
           /\ String(sek).decimals = 0 => String(sek).oren = 0
           /\ String(sek).decimals # 1 =>
                 Magnitude(sek) = String(sek).kronor * Kronor + String(sek).oren
           /\ String(sek).decimals = 1 =>
                 Magnitude(sek) = String(sek).kronor * Kronor + 10 * String(sek).oren
           /\ String(sek).sign = IF sek < 0 THEN "minus" ELSE "plus"
<1> DEFINE kronor == Magnitude(sek) \div Kronor
           oren == Magnitude(sek) - kronor * Kronor
           tens == oren \div 10
<1>1. Magnitude(sek) \in Nat
  BY DEF Magnitude, SEK
<1>2. kronor \in Nat /\ oren \in 0..99
  BY <1>1 DEF Kronor
<1> HIDE DEF kronor, oren
<1>3. tens \in 0..9 /\ oren - tens * 10 \in 0..9
  BY <1>2
<1> HIDE DEF tens
<1>4. Magnitude(sek) = kronor * Kronor + oren
  BY <1>1, <1>2 DEF oren, Kronor
<1>5. String(sek) =
        [sign |-> IF sek < 0 THEN "minus" ELSE "plus",
         kronor |-> kronor,
         decimals |-> IF oren = 0 THEN 0 ELSE IF oren = tens * 10 THEN 1 ELSE 2,
         oren |-> IF oren = tens * 10 THEN tens ELSE oren]
  BY DEF String, kronor, oren, tens
<1>7. String(sek) \in Text
  BY <1>2, <1>3, <1>5 DEF Text
<1>8. String(sek).decimals = 0 => String(sek).oren = 0
  BY <1>2, <1>3, <1>5
<1>9. String(sek).decimals # 1 => oren = String(sek).oren
  BY <1>2, <1>3, <1>5
<1>10. String(sek).decimals = 1 => oren = 10 * String(sek).oren
  BY <1>2, <1>3, <1>5
<1>11. String(sek).kronor = kronor
  BY <1>5
<1>12. String(sek).sign = IF sek < 0 THEN "minus" ELSE "plus"
  BY <1>5
<1> QED
  BY <1>4, <1>7, <1>8, <1>9, <1>10, <1>11, <1>12

\* The server reads as it was written every amount of whole kronor, and
\* every other above zero that does not end in a whole ten of ören.
THEOREM ReadBack ==
    ASSUME Half \in Nat \ {0}, NEW sek \in SEK, ReadAsWritten(sek)
    PROVE  UnmarshalGQL(String(sek)) = sek
<1> DEFINE text == String(sek)
<1>1. /\ text \in Text
      /\ text.decimals = 0 => text.oren = 0
      /\ Magnitude(sek) = text.kronor * Kronor + text.oren
      /\ text.sign = IF sek < 0 THEN "minus" ELSE "plus"
  BY StringDigits DEF ReadAsWritten
<1>2. text.oren = 0 \/ sek > 0
  BY <1>1 DEF ReadAsWritten
<1> HIDE DEF text
<1>3. (IF text.sign = "minus" THEN -text.kronor ELSE text.kronor) * Kronor + text.oren = sek
  BY <1>1, <1>2 DEF Magnitude, Text, Kronor, SEK
<1> QED
  BY <1>3, ToInt32Fits DEF UnmarshalGQL, text

\* And it reads less than it has written where the text ends in a whole ten
\* of ören: "1.5" as 105.
THEOREM TensReadAsOnes ==
    ASSUME Half \in Nat \ {0}, NEW sek \in SEK, sek > 0, String(sek).decimals = 1
    PROVE  UnmarshalGQL(String(sek)) < sek
<1> DEFINE text == String(sek)
<1>1. /\ text \in Text
      /\ sek = text.kronor * Kronor + 10 * text.oren
      /\ text.sign = "plus"
  BY StringDigits DEF Magnitude, SEK, Text
<1>2. text.oren # 0
  <2>1. text.oren = 0 => text.decimals # 1
    BY DEF text, String, Magnitude, SEK, Kronor
  <2> QED
    BY <2>1
<1> HIDE DEF text
<1>3. text.kronor * Kronor + text.oren \in SEK /\ text.kronor * Kronor + text.oren < sek
  BY <1>1, <1>2 DEF Text, Kronor, SEK
<1> QED
  BY <1>1, <1>3, ToInt32Fits DEF UnmarshalGQL, text

\* The amount a text tells its reader: one decimal is tens of ören, and the
\* sign is that of the whole.
Says(text) ==
    LET oren == text.kronor * Kronor + (IF text.decimals = 1 THEN 10 * text.oren ELSE text.oren) IN
    IF text.sign = "minus" THEN -oren ELSE oren

\* What has no decimals has no ören, and one decimal is one digit.
WellWritten(text) ==
    /\ text.decimals = 0 => text.oren = 0
    /\ text.decimals = 1 => text.oren <= 9

\* Texts whose decimals are two digits, and of amounts above zero, if they
\* are anything but zeros.
ReadDigitByDigit(text) == text.oren = 0 \/ (text.decimals = 2 /\ text.sign = "plus")

\* The kronor and the number behind the dot, before they are made an int32.
Unbounded(text) ==
    (IF text.sign = "minus" THEN -text.kronor ELSE text.kronor) * Kronor + text.oren

\* What is off by less than the integers there are is still off as an int32.
LEMMA ToInt32Distinct ==
    ASSUME Half \in Nat, Half >= 100, NEW n \in Int, NEW m \in SEK,
           n # m, n - m <= 199, m - n <= 199
    PROVE  ToInt32(n) # m
<1> DEFINE w == 2 * Half
<1>1. w \in Nat /\ w >= 200 /\ m + Half \in 0..(w - 1)
  BY DEF SEK
<1> HIDE DEF w
<1>2. ASSUME NEW k \in Int, 0 <= k, k < w
      PROVE  k % w = k /\ (k + w) % w = k /\ (k - w) % w = k
  BY <1>1, <1>2
<1>3. CASE n + Half >= 0 /\ n + Half < w
  BY <1>1, <1>2, <1>3 DEF ToInt32, SEK, w
<1>4. CASE n + Half >= w
  BY <1>1, <1>2, <1>4 DEF ToInt32, SEK, w
<1>5. CASE n + Half < 0
  BY <1>1, <1>2, <1>5 DEF ToInt32, SEK, w
<1> QED
  BY <1>1, <1>3, <1>4, <1>5

\* An amount a client sends (sek.go:47) is always accepted, and stored as what
\* it says exactly if that fits in an int32 of ören and its decimals are two
\* digits of an amount above zero, or zeros: "1.5" is stored as something
\* else, "-1.50" is, and so is an amount too large.
THEOREM AmountsReadAsTyped ==
    ASSUME Half \in Nat, Half >= 100, NEW text \in Text, WellWritten(text)
    PROVE  /\ UnmarshalGQL(text) \in SEK
           /\ UnmarshalGQL(text) = Says(text)
                 <=> Says(text) \in SEK /\ ReadDigitByDigit(text)
<1>1. Unbounded(text) \in Int /\ Says(text) \in Int
  BY DEF Unbounded, Says, Text, Kronor
<1>2. UnmarshalGQL(text) = ToInt32(Unbounded(text))
  BY DEF UnmarshalGQL, Unbounded
<1>3. UnmarshalGQL(text) \in SEK
  BY <1>1, <1>2, ToInt32Type
<1>4. ReadDigitByDigit(text) => Unbounded(text) = Says(text)
  BY DEF ReadDigitByDigit, WellWritten, Unbounded, Says, Text, Kronor
<1>5. ~ReadDigitByDigit(text) => /\ Unbounded(text) # Says(text)
                                /\ Unbounded(text) - Says(text) <= 199
                                /\ Says(text) - Unbounded(text) <= 199
  BY DEF ReadDigitByDigit, WellWritten, Unbounded, Says, Text, Kronor
<1>6. CASE ReadDigitByDigit(text)
  BY <1>1, <1>2, <1>3, <1>4, <1>6, ToInt32Fits
<1>7. CASE ~ReadDigitByDigit(text)
  BY <1>1, <1>2, <1>3, <1>5, <1>7, ToInt32Distinct
<1> QED
  BY <1>3, <1>6, <1>7

\* What a payer is asked to swish is what is owed, to the nearest krona.
THEOREM SwishRounds ==
    ASSUME Half \in Nat \ {0}, TypeOK, NEW kronor \in SwishLink
    PROVE  /\ kronor \in SwishAmount
           /\ Magnitude(kronor * Kronor - amountOwed) <= 50
<1>1. amountOwed \in Int /\ amountOwed > 0 /\ kronor = InKronor(amountOwed)
  BY DEF SwishLink, TypeOK, SEK
<1>2. kronor \in SwishAmount
  BY DEF SwishLink
<1>3. kronor = (amountOwed + 50) \div 100
  BY <1>1 DEF InKronor, Magnitude, Kronor
<1>4. kronor \in Int /\ 100 * kronor <= amountOwed + 50 /\ amountOwed + 50 < 100 * kronor + 100
  BY <1>1, <1>3
<1> QED
  BY <1>1, <1>2, <1>4 DEF Magnitude, Kronor
-----------------------------------------------------------------------------
IInv == TypeOK /\ PageIsCurrent

LEMMA UnmarshalGQLType ==
    ASSUME Half \in Nat \ {0}, NEW text \in Text
    PROVE  UnmarshalGQL(text) \in SEK
<1>1. (IF text.sign = "minus" THEN -text.kronor ELSE text.kronor) * Kronor + text.oren \in Int
  BY DEF Text, Kronor
<1> QED
  BY <1>1, ToInt32Type DEF UnmarshalGQL

LEMMA DetailsType ==
    ASSUME Half \in Nat \ {0}, amountOwed \in SEK, hasPaid \in BOOLEAN
    PROVE  Details \in [amountOwed : Text, hasPaid : BOOLEAN]
BY StringDigits DEF Details

LEMMA InitIInv == ASSUME Half \in Nat \ {0}, Init PROVE IInv
<1>1. 0 \in SEK
  BY DEF SEK
<1>2. String(0) \in Text
  BY <1>1, StringDigits
<1> QED
  BY <1>1, <1>2 DEF Init, IInv, TypeOK, PageIsCurrent

\* Only a click on the page changes what the page shows.
LEMMA NextIInv ==
    ASSUME Half \in Nat \ {0}, Typed \subseteq Text, NoPage \notin [amountOwed : Text, hasPaid : BOOLEAN],
           IInv, [Next]_vars
    PROVE  IInv'
<1> USE DEF IInv
<1>1. CASE ReadPrice
  BY <1>1, StringDigits DEF ReadPrice, TypeOK, PageIsCurrent, Details
<1>2. ASSUME NEW text \in Typed, TypePrice(text) PROVE IInv'
  BY <1>2 DEF TypePrice, TypeOK, PageIsCurrent, Details
<1>3. CASE UpdateShowing
  BY <1>3, UnmarshalGQLType DEF UpdateShowing, TypeOK, PageIsCurrent, Details
<1>4. CASE MarkAsBought
  BY <1>4, UnmarshalGQLType DEF MarkAsBought, TypeOK, PageIsCurrent
<1>5. CASE AdminPaymentDetails
  BY <1>5, DetailsType DEF AdminPaymentDetails, TypeOK, PageIsCurrent, Details
<1>6. CASE UpdateAttendeePaymentInfo
  <2>1. page \in [amountOwed : Text, hasPaid : BOOLEAN]
    BY <1>6 DEF UpdateAttendeePaymentInfo, TypeOK
  <2>2. amountOwed' \in SEK /\ hasPaid' \in BOOLEAN
    BY <1>6, <2>1, UnmarshalGQLType DEF UpdateAttendeePaymentInfo
  <2>3. Details' \in [amountOwed : Text, hasPaid : BOOLEAN]
    BY <2>2, StringDigits DEF Details
  <2>4. page' = Details' /\ ticketsBought'
    BY <1>6 DEF UpdateAttendeePaymentInfo, PageIsCurrent
  <2> QED
    BY <1>6, <2>2, <2>3, <2>4 DEF UpdateAttendeePaymentInfo, TypeOK, PageIsCurrent
<1>7. CASE UNCHANGED vars
  BY <1>7 DEF vars, TypeOK, PageIsCurrent, Details
<1> QED
  BY <1>1, <1>2, <1>3, <1>4, <1>5, <1>6, <1>7 DEF Next

\* Only a click changes who has paid, and it sends what the page shows.
LEMMA NextExactAmountKept ==
    ASSUME Half \in Nat \ {0}, IInv, [Next]_vars, hasPaid' # hasPaid, ReadAsWritten(amountOwed)
    PROVE  amountOwed' = amountOwed
<1>1. UpdateAttendeePaymentInfo
  BY DEF Next, vars, ReadPrice, TypePrice, UpdateShowing, MarkAsBought, AdminPaymentDetails
<1>2. amountOwed' = UnmarshalGQL(String(amountOwed))
  BY <1>1 DEF UpdateAttendeePaymentInfo, IInv, PageIsCurrent, Details
<1> QED
  BY <1>2, ReadBack DEF IInv, TypeOK

\* To note that somebody has paid does not change what that was, as long as
\* the amount is one the server reads as it has written it.
THEOREM ExactAmountsAreKept ==
    ASSUME Half \in Nat \ {0}, Typed \subseteq Text,
           NoPage \notin [amountOwed : Text, hasPaid : BOOLEAN]
    PROVE  Spec => ExactAmountKept
<1>1. Init => IInv
  BY InitIInv
<1>2. IInv /\ [Next]_vars => IInv'
  BY NextIInv
<1>3. IInv /\ [Next]_vars =>
        [hasPaid' # hasPaid /\ ReadAsWritten(amountOwed) => amountOwed' = amountOwed]_vars
  BY NextExactAmountKept
<1> QED
  BY <1>1, <1>2, <1>3, PTL DEF Spec, ExactAmountKept
=============================================================================
