--------------------------- MODULE AlgorithmProofs ---------------------------
(***************************************************************************)
(* What the computing parts promise, for every input: what the checksum of *)
(* a NIP detects and what it is asked for, what becomes of an encrypted    *)
(* invoice of any length, what a caller may conclude from any reply; and,  *)
(* from these, the invariants of MCAlgorithms.                             *)
(***************************************************************************)
EXTENDS MCAlgorithms, SequenceTheorems, TLAPS

(* Numbers of ten digits.                                                  *)
Number == [1 .. 10 -> Digit]

LEMMA SequencesAreNumbers ==
    ASSUME NEW d \in Seq(Digit), Len(d) = 10
    PROVE  d \in Number
  BY LenProperties DEF Number

LEMMA NumbersAreSequences == Number \subseteq Seq(Digit)
  <1>. SUFFICES ASSUME NEW d \in Number PROVE d \in Seq(Digit)
    OBVIOUS
  <1>1. 10 \in Nat /\ d \in [1 .. 10 -> Digit]
    BY DEF Number
  <1>. QED BY <1>1, SeqDef

LEMMA NotTheLast == \A i \in 1 .. 10 : i < 10 => i \in 1 .. 9
  OBVIOUS

LEMMA SwappedIsNumber ==
    ASSUME NEW d \in Number, NEW i \in 1 .. 9
    PROVE  Swapped(d, i) \in Number
  BY DEF Swapped, Number

LEMMA DigitsAreIntegers ==
    ASSUME NEW d \in Number
    PROVE  /\ d[1] \in Int /\ d[2] \in Int /\ d[3] \in Int /\ d[4] \in Int
           /\ d[5] \in Int /\ d[6] \in Int /\ d[7] \in Int /\ d[8] \in Int
           /\ d[9] \in Int /\ d[10] \in Int
  <1>1. \A i \in 1 .. 10 : d[i] \in Int
    BY DEF Number, Digit
  <1>. QED BY <1>1

LEMMA Division ==
    ASSUME NEW a \in Int
    PROVE  \E q \in Int : a = 11 * q + (a % 11)
  <1>1. a = 11 * (a \div 11) + (a % 11)
    OBVIOUS
  <1>. QED BY <1>1

LEMMA Congruent ==
    ASSUME NEW a \in Int, NEW b \in Int, a % 11 = b % 11
    PROVE  \E k \in Int : a - b = 11 * k
  <1>1. PICK p \in Int : a = 11 * p + (a % 11)
    BY Division
  <1>2. PICK q \in Int : b = 11 * q + (b % 11)
    BY Division
  <1>3. a - b = 11 * (p - q)
    BY <1>1, <1>2
  <1>. QED BY <1>3

LEMMA SumType == ASSUME NEW d \in Number PROVE WeightedSum(d) \in Int
  <1>. DEFINE term(i, w) == w * d[i]
  <1>1. /\ term(1, 6) \in Int /\ term(2, 5) \in Int /\ term(3, 7) \in Int
        /\ term(4, 2) \in Int /\ term(5, 3) \in Int /\ term(6, 4) \in Int
        /\ term(7, 5) \in Int /\ term(8, 6) \in Int /\ term(9, 7) \in Int
    BY DigitsAreIntegers
  <1>2. WeightedSum(d) = term(1, 6) + term(2, 5) + term(3, 7) + term(4, 2)
                         + term(5, 3) + term(6, 4) + term(7, 5) + term(8, 6)
                         + term(9, 7)
    BY DEF WeightedSum
  <1>. HIDE DEF term
  <1>. QED BY <1>1, <1>2

(* A factor below 11 times a difference of digits is no multiple of 11.    *)
LEMMA FactorsAreUnits ==
    ASSUME NEW w \in -7 .. 8, w # 0, NEW x \in Digit, NEW y \in Digit,
           NEW k \in Int, w * (x - y) = 11 * k
    PROVE  x = y
  <1>1. CASE w = -7  BY <1>1 DEF Digit
  <1>2. CASE w = -6  BY <1>2 DEF Digit
  <1>3. CASE w = -5  BY <1>3 DEF Digit
  <1>4. CASE w = -4  BY <1>4 DEF Digit
  <1>5. CASE w = -3  BY <1>5 DEF Digit
  <1>6. CASE w = -2  BY <1>6 DEF Digit
  <1>7. CASE w = -1  BY <1>7 DEF Digit
  <1>8. CASE w = 1  BY <1>8 DEF Digit
  <1>9. CASE w = 2  BY <1>9 DEF Digit
  <1>10. CASE w = 3  BY <1>10 DEF Digit
  <1>11. CASE w = 4  BY <1>11 DEF Digit
  <1>12. CASE w = 5  BY <1>12 DEF Digit
  <1>13. CASE w = 6  BY <1>13 DEF Digit
  <1>14. CASE w = 7  BY <1>14 DEF Digit
  <1>15. CASE w = 8  BY <1>15 DEF Digit
  <1>. QED BY <1>1, <1>2, <1>3, <1>4, <1>5, <1>6, <1>7, <1>8, <1>9,
              <1>10, <1>11, <1>12, <1>13, <1>14, <1>15

(* The sum of a number that differs in one digit.                          *)
LEMMA OneDigit ==
    ASSUME NEW d \in Number, NEW e \in Number, NEW i \in 1 .. 9,
           \A j \in (1 .. 9) \ {i} : e[j] = d[j]
    PROVE  \E w \in 1 .. 7 : WeightedSum(e) - WeightedSum(d) = w * (e[i] - d[i])
  <1>1. CASE i = 1
    <2>1. /\ e[2] = d[2] /\ e[3] = d[3] /\ e[4] = d[4] /\ e[5] = d[5]
          /\ e[6] = d[6] /\ e[7] = d[7] /\ e[8] = d[8] /\ e[9] = d[9]
      BY <1>1
    <2>2. WeightedSum(e) - WeightedSum(d) = 6 * (e[1] - d[1])
      BY <2>1, DigitsAreIntegers DEF WeightedSum
    <2>. QED BY <1>1, <2>2
  <1>2. CASE i = 2
    <2>1. /\ e[1] = d[1] /\ e[3] = d[3] /\ e[4] = d[4] /\ e[5] = d[5]
          /\ e[6] = d[6] /\ e[7] = d[7] /\ e[8] = d[8] /\ e[9] = d[9]
      BY <1>2
    <2>2. WeightedSum(e) - WeightedSum(d) = 5 * (e[2] - d[2])
      BY <2>1, DigitsAreIntegers DEF WeightedSum
    <2>. QED BY <1>2, <2>2
  <1>3. CASE i = 3
    <2>1. /\ e[1] = d[1] /\ e[2] = d[2] /\ e[4] = d[4] /\ e[5] = d[5]
          /\ e[6] = d[6] /\ e[7] = d[7] /\ e[8] = d[8] /\ e[9] = d[9]
      BY <1>3
    <2>2. WeightedSum(e) - WeightedSum(d) = 7 * (e[3] - d[3])
      BY <2>1, DigitsAreIntegers DEF WeightedSum
    <2>. QED BY <1>3, <2>2
  <1>4. CASE i = 4
    <2>1. /\ e[1] = d[1] /\ e[2] = d[2] /\ e[3] = d[3] /\ e[5] = d[5]
          /\ e[6] = d[6] /\ e[7] = d[7] /\ e[8] = d[8] /\ e[9] = d[9]
      BY <1>4
    <2>2. WeightedSum(e) - WeightedSum(d) = 2 * (e[4] - d[4])
      BY <2>1, DigitsAreIntegers DEF WeightedSum
    <2>. QED BY <1>4, <2>2
  <1>5. CASE i = 5
    <2>1. /\ e[1] = d[1] /\ e[2] = d[2] /\ e[3] = d[3] /\ e[4] = d[4]
          /\ e[6] = d[6] /\ e[7] = d[7] /\ e[8] = d[8] /\ e[9] = d[9]
      BY <1>5
    <2>2. WeightedSum(e) - WeightedSum(d) = 3 * (e[5] - d[5])
      BY <2>1, DigitsAreIntegers DEF WeightedSum
    <2>. QED BY <1>5, <2>2
  <1>6. CASE i = 6
    <2>1. /\ e[1] = d[1] /\ e[2] = d[2] /\ e[3] = d[3] /\ e[4] = d[4]
          /\ e[5] = d[5] /\ e[7] = d[7] /\ e[8] = d[8] /\ e[9] = d[9]
      BY <1>6
    <2>2. WeightedSum(e) - WeightedSum(d) = 4 * (e[6] - d[6])
      BY <2>1, DigitsAreIntegers DEF WeightedSum
    <2>. QED BY <1>6, <2>2
  <1>7. CASE i = 7
    <2>1. /\ e[1] = d[1] /\ e[2] = d[2] /\ e[3] = d[3] /\ e[4] = d[4]
          /\ e[5] = d[5] /\ e[6] = d[6] /\ e[8] = d[8] /\ e[9] = d[9]
      BY <1>7
    <2>2. WeightedSum(e) - WeightedSum(d) = 5 * (e[7] - d[7])
      BY <2>1, DigitsAreIntegers DEF WeightedSum
    <2>. QED BY <1>7, <2>2
  <1>8. CASE i = 8
    <2>1. /\ e[1] = d[1] /\ e[2] = d[2] /\ e[3] = d[3] /\ e[4] = d[4]
          /\ e[5] = d[5] /\ e[6] = d[6] /\ e[7] = d[7] /\ e[9] = d[9]
      BY <1>8
    <2>2. WeightedSum(e) - WeightedSum(d) = 6 * (e[8] - d[8])
      BY <2>1, DigitsAreIntegers DEF WeightedSum
    <2>. QED BY <1>8, <2>2
  <1>9. CASE i = 9
    <2>1. /\ e[1] = d[1] /\ e[2] = d[2] /\ e[3] = d[3] /\ e[4] = d[4]
          /\ e[5] = d[5] /\ e[6] = d[6] /\ e[7] = d[7] /\ e[8] = d[8]
      BY <1>9
    <2>2. WeightedSum(e) - WeightedSum(d) = 7 * (e[9] - d[9])
      BY <2>1, DigitsAreIntegers DEF WeightedSum
    <2>. QED BY <1>9, <2>2
  <1>. QED BY <1>1, <1>2, <1>3, <1>4, <1>5, <1>6, <1>7, <1>8, <1>9

(* The sum of a number with two neighbours swapped.                        *)
LEMMA TwoDigits ==
    ASSUME NEW d \in Number, NEW i \in 1 .. 8
    PROVE  \E w \in -7 .. 8 : /\ w # 0
                             /\ WeightedSum(Swapped(d, i)) - WeightedSum(d)
                                  = w * (d[i] - d[i + 1])
  <1>. DEFINE e == Swapped(d, i)
  <1>0. e \in Number /\ e[i] = d[i + 1] /\ e[i + 1] = d[i]
        /\ \A j \in (1 .. 9) \ {i, i + 1} : e[j] = d[j]
    BY DEF Swapped, Number
  <1>. HIDE DEF e
  <1>1. CASE i = 1
    <2>1. /\ e[3] = d[3] /\ e[4] = d[4] /\ e[5] = d[5] /\ e[6] = d[6]
          /\ e[7] = d[7] /\ e[8] = d[8] /\ e[9] = d[9]
          /\ e[1] = d[2] /\ e[2] = d[1]
      BY <1>0, <1>1
    <2>2. WeightedSum(e) - WeightedSum(d) = (-1) * (d[1] - d[2])
      BY <1>0, <2>1, DigitsAreIntegers DEF WeightedSum
    <2>. QED BY <1>1, <2>2 DEF e
  <1>2. CASE i = 2
    <2>1. /\ e[1] = d[1] /\ e[4] = d[4] /\ e[5] = d[5] /\ e[6] = d[6]
          /\ e[7] = d[7] /\ e[8] = d[8] /\ e[9] = d[9]
          /\ e[2] = d[3] /\ e[3] = d[2]
      BY <1>0, <1>2
    <2>2. WeightedSum(e) - WeightedSum(d) = 2 * (d[2] - d[3])
      BY <1>0, <2>1, DigitsAreIntegers DEF WeightedSum
    <2>. QED BY <1>2, <2>2 DEF e
  <1>3. CASE i = 3
    <2>1. /\ e[1] = d[1] /\ e[2] = d[2] /\ e[5] = d[5] /\ e[6] = d[6]
          /\ e[7] = d[7] /\ e[8] = d[8] /\ e[9] = d[9]
          /\ e[3] = d[4] /\ e[4] = d[3]
      BY <1>0, <1>3
    <2>2. WeightedSum(e) - WeightedSum(d) = (-5) * (d[3] - d[4])
      BY <1>0, <2>1, DigitsAreIntegers DEF WeightedSum
    <2>. QED BY <1>3, <2>2 DEF e
  <1>4. CASE i = 4
    <2>1. /\ e[1] = d[1] /\ e[2] = d[2] /\ e[3] = d[3] /\ e[6] = d[6]
          /\ e[7] = d[7] /\ e[8] = d[8] /\ e[9] = d[9]
          /\ e[4] = d[5] /\ e[5] = d[4]
      BY <1>0, <1>4
    <2>2. WeightedSum(e) - WeightedSum(d) = 1 * (d[4] - d[5])
      BY <1>0, <2>1, DigitsAreIntegers DEF WeightedSum
    <2>. QED BY <1>4, <2>2 DEF e
  <1>5. CASE i = 5
    <2>1. /\ e[1] = d[1] /\ e[2] = d[2] /\ e[3] = d[3] /\ e[4] = d[4]
          /\ e[7] = d[7] /\ e[8] = d[8] /\ e[9] = d[9]
          /\ e[5] = d[6] /\ e[6] = d[5]
      BY <1>0, <1>5
    <2>2. WeightedSum(e) - WeightedSum(d) = 1 * (d[5] - d[6])
      BY <1>0, <2>1, DigitsAreIntegers DEF WeightedSum
    <2>. QED BY <1>5, <2>2 DEF e
  <1>6. CASE i = 6
    <2>1. /\ e[1] = d[1] /\ e[2] = d[2] /\ e[3] = d[3] /\ e[4] = d[4]
          /\ e[5] = d[5] /\ e[8] = d[8] /\ e[9] = d[9]
          /\ e[6] = d[7] /\ e[7] = d[6]
      BY <1>0, <1>6
    <2>2. WeightedSum(e) - WeightedSum(d) = 1 * (d[6] - d[7])
      BY <1>0, <2>1, DigitsAreIntegers DEF WeightedSum
    <2>. QED BY <1>6, <2>2 DEF e
  <1>7. CASE i = 7
    <2>1. /\ e[1] = d[1] /\ e[2] = d[2] /\ e[3] = d[3] /\ e[4] = d[4]
          /\ e[5] = d[5] /\ e[6] = d[6] /\ e[9] = d[9]
          /\ e[7] = d[8] /\ e[8] = d[7]
      BY <1>0, <1>7
    <2>2. WeightedSum(e) - WeightedSum(d) = 1 * (d[7] - d[8])
      BY <1>0, <2>1, DigitsAreIntegers DEF WeightedSum
    <2>. QED BY <1>7, <2>2 DEF e
  <1>8. CASE i = 8
    <2>1. /\ e[1] = d[1] /\ e[2] = d[2] /\ e[3] = d[3] /\ e[4] = d[4]
          /\ e[5] = d[5] /\ e[6] = d[6] /\ e[7] = d[7]
          /\ e[8] = d[9] /\ e[9] = d[8]
      BY <1>0, <1>8
    <2>2. WeightedSum(e) - WeightedSum(d) = 1 * (d[8] - d[9])
      BY <1>0, <2>1, DigitsAreIntegers DEF WeightedSum
    <2>. QED BY <1>8, <2>2 DEF e
  <1>. QED BY <1>1, <1>2, <1>3, <1>4, <1>5, <1>6, <1>7, <1>8

(* A valid number with one digit mistyped is not valid.                    *)
LEMMA MistypedIsInvalid ==
    ASSUME NEW d \in Seq(Digit), IsValidNipChecksum(d),
           NEW i \in 1 .. 10, NEW x \in Digit, x # d[i]
    PROVE  ~IsValidNipChecksum(Mistyped(d, i, x))
  <1>. DEFINE e == Mistyped(d, i, x)
  <1>. SUFFICES ASSUME IsValidNipChecksum(e) PROVE FALSE
    OBVIOUS
  <1>1. d \in Number
    BY SequencesAreNumbers DEF IsValidNipChecksum
  <1>2. e \in Number /\ e[i] = x /\ \A j \in (1 .. 10) \ {i} : e[j] = d[j]
    BY <1>1 DEF Mistyped, Number
  <1>3. WeightedSum(d) % 11 = d[10] /\ WeightedSum(e) % 11 = e[10]
    BY DEF IsValidNipChecksum
  <1>. HIDE DEF e
  <1>4. WeightedSum(d) \in Int /\ WeightedSum(e) \in Int
    BY <1>1, <1>2, SumType
  <1>5. CASE i = 10
    <2>1. \A j \in 1 .. 9 : e[j] = d[j]
      BY <1>2, <1>5
    <2>2. WeightedSum(e) = WeightedSum(d)
      BY <2>1 DEF WeightedSum
    <2>. QED BY <1>2, <1>3, <1>5, <2>2
  <1>6. CASE i \in 1 .. 9
    <2>1. e[10] = d[10]
      BY <1>2, <1>6
    <2>2. PICK k \in Int : WeightedSum(e) - WeightedSum(d) = 11 * k
      BY <1>3, <1>4, <2>1, Congruent
    <2>3. \A j \in (1 .. 9) \ {i} : e[j] = d[j]
      BY <1>2
    <2>4. PICK w \in 1 .. 7 :
            WeightedSum(e) - WeightedSum(d) = w * (e[i] - d[i])
      BY <1>1, <1>2, <1>6, <2>3, OneDigit
    <2>5. d[i] \in Digit
      BY <1>1, <1>6 DEF Number
    <2>6. x = d[i]
      BY <1>2, <2>2, <2>4, <2>5, FactorsAreUnits
    <2>. QED BY <2>6
  <1>. QED BY <1>5, <1>6

(* A valid number with two different neighbours swapped is not valid.      *)
LEMMA SwappedIsInvalid ==
    ASSUME NEW d \in Seq(Digit), IsValidNipChecksum(d),
           NEW i \in 1 .. 9, d[i] # d[i + 1]
    PROVE  ~IsValidNipChecksum(Swapped(d, i))
  <1>. DEFINE e == Swapped(d, i)
  <1>. SUFFICES ASSUME IsValidNipChecksum(e) PROVE FALSE
    OBVIOUS
  <1>1. d \in Number
    BY SequencesAreNumbers DEF IsValidNipChecksum
  <1>2. /\ e \in Number /\ e[i] = d[i + 1] /\ e[i + 1] = d[i]
        /\ \A j \in (1 .. 10) \ {i, i + 1} : e[j] = d[j]
    BY <1>1 DEF Swapped, Number
  <1>3. WeightedSum(d) % 11 = d[10] /\ WeightedSum(e) % 11 = e[10]
    BY DEF IsValidNipChecksum
  <1>4. CASE i \in 1 .. 8
    <2>1. e[10] = d[10]
      BY <1>2, <1>4
    <2>2. WeightedSum(d) \in Int /\ WeightedSum(e) \in Int
      BY <1>1, <1>2, SumType
    <2>3. PICK k \in Int : WeightedSum(e) - WeightedSum(d) = 11 * k
      <3>. HIDE DEF e
      <3>. QED BY <1>3, <2>1, <2>2, Congruent
    <2>4. PICK w \in -7 .. 8 : /\ w # 0
            /\ WeightedSum(e) - WeightedSum(d) = w * (d[i] - d[i + 1])
      BY <1>1, <1>4, TwoDigits
    <2>5. d[i] \in Digit /\ d[i + 1] \in Digit
      BY <1>1, <1>4 DEF Number
    <2>. HIDE DEF e
    <2>. QED BY <2>3, <2>4, <2>5, FactorsAreUnits
  <1>5. CASE i = 9
    <2>. HIDE DEF e
    <2>1. e[9] = d[10] /\ e[10] = d[9] /\ \A j \in (1 .. 9) \ {9} : e[j] = d[j]
      BY <1>2, <1>5
    <2>2. PICK w \in 1 .. 7 :
            WeightedSum(e) - WeightedSum(d) = w * (d[10] - d[9])
      <3>1. 9 \in 1 .. 9
        OBVIOUS
      <3>. QED BY <1>1, <1>2, <2>1, <3>1, OneDigit
    <2>4. PICK p \in Int : WeightedSum(e) = 11 * p + d[9]
      BY <1>1, <1>2, <1>3, <2>1, SumType, Division
    <2>5. PICK q \in Int : WeightedSum(d) = 11 * q + d[10]
      BY <1>1, <1>3, SumType, Division
    <2>6. d[9] \in Digit /\ d[10] \in Digit
      BY <1>1 DEF Number
    <2>7. (w + 1) * (d[10] - d[9]) = 11 * (p - q)
      <3>. DEFINE sd == WeightedSum(d)
                  se == WeightedSum(e)
                  x == d[10]
                  z == d[9]
      <3>1. x \in Int /\ z \in Int
        BY <2>6 DEF Digit
      <3>2. sd \in Int /\ se \in Int
        BY <1>1, <1>2, SumType
      <3>3. /\ se - sd = w * (x - z)
            /\ se = 11 * p + z
            /\ sd = 11 * q + x
        BY <2>2, <2>4, <2>5
      <3>. HIDE DEF sd, se, x, z
      <3>4. se - sd = 11 * (p - q) - (x - z)
        BY <3>1, <3>3
      <3>. DEFINE y == x - z
      <3>5. y \in Int /\ w * y = 11 * (p - q) - y
        BY <3>1, <3>3, <3>4
      <3>. HIDE DEF y
      <3>6. (w + 1) * y = 11 * (p - q)
        BY <3>5
      <3>. QED BY <3>6 DEF y, x, z
    <2>8. w + 1 \in -7 .. 8 /\ w + 1 # 0
      OBVIOUS
    <2>9. p - q \in Int
      OBVIOUS
    <2>10. d[10] = d[9]
      BY <2>6, <2>7, <2>8, <2>9, FactorsAreUnits
    <2>. QED BY <1>5, <2>10
  <1>. QED BY <1>4, <1>5

(* A text that begins with no letters or with PL.                          *)
PolishText == [prefix : {"", "PL"}, letters : Nat, digits : Seq(Digit),
               given : BOOLEAN]

(* Whichever check it is put to, its digits must pass the checksum.        *)
LEMMA AcceptedIsValid ==
    ASSUME NEW text \in PolishText, NEW country \in {"", "PL"},
           ValidateTaxIdentifier(text, country, TRUE).ok
    PROVE  IsValidNipChecksum(text.digits)
  <1>1. ValidateNip(text, TRUE).ok => IsValidNipChecksum(text.digits)
    BY DEF ValidateNip, Rejected
  <1>2. ValidateNip(Rest(text), TRUE).ok => IsValidNipChecksum(text.digits)
    BY DEF ValidateNip, Rejected, Rest, PolishText
  <1>3. ValidatePolishVatEu(text).ok => ValidateNip(Rest(text), TRUE).ok
    BY DEF ValidatePolishVatEu, Rejected
  <1>4. ValidateEuVat(text).ok => ValidateNip(Rest(text), TRUE).ok
    BY DEF ValidateEuVat, HasVatFormat, EUCountry, PolishText, Rejected
  <1>5. \/ ValidateNip(text, TRUE).ok
        \/ ValidatePolishVatEu(text).ok
        \/ ValidateEuVat(text).ok
    <2>1. CASE IsEmpty(text)
      BY <2>1 DEF ValidateTaxIdentifier, Rejected
    <2>2. CASE ~IsEmpty(text) /\ country = "PL"
      BY <2>2 DEF ValidateTaxIdentifier
    <2>3. CASE ~IsEmpty(text) /\ country = ""
      BY <2>3 DEF ValidateTaxIdentifier, EUCountry
    <2>. QED BY <2>1, <2>2, <2>3
  <1>. QED BY <1>1, <1>2, <1>3, <1>4, <1>5

(* validate_tax_identifier: whatever number of whatever length is          *)
(* accepted, plain or with the prefix PL, a single mistyped digit or two   *)
(* neighbours swapped make it one that is not.                             *)
THEOREM TypingErrorsAreRejected ==
    ASSUME NEW text \in PolishText, NEW country \in {"", "PL"},
           NEW i \in 1 .. 10, NEW x \in Digit
    PROVE  TypingErrorIsRejected(text, country, i, x)
  <1>. DEFINE d == text.digits
             with(e) == [text EXCEPT !.digits = e]
             accepts(e) == ValidateTaxIdentifier(with(e), country, TRUE).ok
  <1>1. \A e \in Seq(Digit) : accepts(e) => IsValidNipChecksum(e)
    <2>. SUFFICES ASSUME NEW e \in Seq(Digit), accepts(e)
                  PROVE  IsValidNipChecksum(e)
      OBVIOUS
    <2>1. with(e) \in PolishText /\ with(e).digits = e
      BY DEF PolishText
    <2>. QED BY <2>1, AcceptedIsValid
  <1>2. d \in Seq(Digit)
    BY DEF PolishText
  <1>. SUFFICES ASSUME accepts(d)
                PROVE  /\ x # d[i] => ~accepts(Mistyped(d, i, x))
                       /\ i < 10 /\ d[i] # d[i + 1] => ~accepts(Swapped(d, i))
    BY DEF TypingErrorIsRejected
  <1>3. IsValidNipChecksum(d)
    BY <1>1, <1>2
  <1>4. d \in Number
    BY <1>2, <1>3, SequencesAreNumbers DEF IsValidNipChecksum
  <1>. HIDE DEF d
  <1>5. ASSUME x # d[i] PROVE ~accepts(Mistyped(d, i, x))
    <2>1. Mistyped(d, i, x) \in Seq(Digit)
      <3>1. Mistyped(d, i, x) \in Number
        BY <1>4 DEF Mistyped, Number
      <3>. QED BY <3>1, NumbersAreSequences
    <2>. QED BY <1>1, <1>2, <1>3, <1>5, <2>1, MistypedIsInvalid
  <1>6. i < 10 /\ d[i] # d[i + 1] => ~accepts(Swapped(d, i))
    <2>. HAVE i < 10 /\ d[i] # d[i + 1]
    <2>0. i \in 1 .. 9
      BY NotTheLast
    <2>1. Swapped(d, i) \in Seq(Digit)
      BY <1>4, <2>0, SwappedIsNumber, NumbersAreSequences
    <2>3. ~IsValidNipChecksum(Swapped(d, i))
      BY <1>2, <1>3, <2>0, SwappedIsInvalid
    <2>. QED BY <1>1, <2>1, <2>3
  <1>. QED BY <1>5, <1>6

-----------------------------------------------------------------------------
LEMMA PadLengthBounds ==
    ASSUME NEW n \in Nat
    PROVE  PadLength(n) \in 1 .. BlockSize /\ (n + PadLength(n)) % BlockSize = 0
  <1>1. n % 16 \in 0 .. 15
    OBVIOUS
  <1>2. n = 16 * (n \div 16) + (n % 16) /\ n \div 16 \in Int
    OBVIOUS
  <1>. DEFINE q == n \div 16
             r == n % 16
  <1>. HIDE DEF q, r
  <1>3. n + (16 - r) = 16 * (q + 1)
    BY <1>1, <1>2 DEF q, r
  <1>4. (16 * (q + 1)) % 16 = 0
    BY <1>2 DEF q
  <1>. QED BY <1>1, <1>3, <1>4 DEF PadLength, BlockSize, r

(* _encrypt_content and decrypt_content: contents of every length are      *)
(* padded to full blocks and come back unchanged, whatever bytes they end  *)
(* with, those that look like padding included.                            *)
THEOREM PaddingComesOff ==
    ASSUME NEW Byte, 1 .. BlockSize \subseteq Byte, NEW s \in Seq(Byte)
    PROVE  Unpad(Pad(s)) = Ok(s)
  <1>. DEFINE n == PadLength(Len(s))
             tail == [i \in 1 .. n |-> n]
             t == s \o tail
  <1>1. Len(s) \in Nat /\ n \in 1 .. BlockSize /\ (Len(s) + n) % BlockSize = 0
    BY LenProperties, PadLengthBounds
  <1>. HIDE DEF n
  <1>2. tail \in Seq(Byte) /\ Len(tail) = n
    BY <1>1 DEF BlockSize
  <1>3. Len(t) = Len(s) + n
    BY <1>1, <1>2, ConcatProperties
  <1>4. \A i \in 1 .. Len(s) : t[i] = s[i]
    BY <1>1, <1>2, ConcatProperties
  <1>5. \A i \in Len(s) + 1 .. Len(s) + n : t[i] = n
    <2>. SUFFICES ASSUME NEW i \in Len(s) + 1 .. Len(s) + n PROVE t[i] = n
      OBVIOUS
    <2>1. t[i] = tail[i - Len(s)]
      BY <1>1, <1>2, <1>3, ConcatProperties
    <2>. QED BY <1>1, <2>1 DEF BlockSize
  <1>6. t \in Seq(Byte)
    BY <1>2, ConcatProperties
  <1>. HIDE DEF t, tail
  <1>7. t[Len(t)] = n
    <2>1. n \in Nat /\ n >= 1
      BY <1>1 DEF BlockSize
    <2>2. Len(t) \in Len(s) + 1 .. Len(s) + n
      BY <1>1, <1>3, <2>1
    <2>. QED BY <1>5, <2>2
  <1>8. Len(t) - n = Len(s)
    BY <1>1, <1>3 DEF BlockSize
  <1>9. SubSeq(t, 1, Len(s)) = s
    <2>. DEFINE u == SubSeq(t, 1, Len(s))
    <2>0. \A i \in 1 .. Len(s) : t[i] \in Byte
      BY <1>4, ElementOfSeq
    <2>1. /\ u \in Seq(Byte)
          /\ Len(u) = IF 1 <= Len(s) THEN Len(s) - 1 + 1 ELSE 0
          /\ \A i \in 1 .. Len(s) - 1 + 1 : u[i] = t[1 + i - 1]
      BY <1>1, <2>0, SubSeqProperties
    <2>. HIDE DEF u
    <2>2. Len(u) = Len(s) /\ \A i \in 1 .. Len(s) : u[i] = t[i]
      BY <1>1, <2>1
    <2>3. u = s
      BY <1>4, <2>1, <2>2, SeqEqual
    <2>. QED BY <2>3 DEF u
  <1>10. Len(t) > 0 /\ Len(t) % BlockSize = 0
    BY <1>1, <1>3 DEF BlockSize
  <1>11. \A i \in Len(s) + 1 .. Len(t) : t[i] = n
    BY <1>3, <1>5
  <1>12. Unpad(t) = Ok(s)
    BY <1>1, <1>7, <1>8, <1>9, <1>10, <1>11 DEF Unpad
  <1>. QED BY <1>12 DEF Pad, t, tail, n

-----------------------------------------------------------------------------
(* A text of the validator.                                                *)
IsText(text) ==
    /\ text.digits \in Seq(Digit)
    /\ text = [prefix |-> text.prefix, letters |-> text.letters,
               digits |-> text.digits, given |-> text.given]

LEMMA PrefixIsNotEmpty == "" \notin EUCountry /\ "PL" \in EUCountry
  BY DEF EUCountry

(* looks_like_eu_vat is a check of its own: whatever text it says yes to,  *)
(* validate_eu_vat and the check by country let pass unchanged.            *)
THEOREM LookingIsBeing ==
    ASSUME NEW text, IsText(text)
    PROVE  LooksAreConfirmed(text)
  <1>. SUFFICES ASSUME LooksLikeEuVat(text)
                PROVE  /\ ValidateEuVat(text) = Whole(text)
                       /\ ValidateTaxIdentifier(text, text.prefix, TRUE) = Whole(text)
    BY DEF LooksAreConfirmed
  <1>1. HasVatFormat(text) /\ text.prefix \in EUCountry
    BY DEF LooksLikeEuVat, HasVatFormat
  <1>2. ASSUME text.prefix = "PL" PROVE ValidateNip(Rest(text), TRUE).ok
    <2>1. IsValidNipChecksum(text.digits)
      BY <1>2 DEF LooksLikeEuVat
    <2>2. Rest(text).digits = text.digits
      BY DEF Rest, IsText
    <2>3. text.digits # << >>
      BY <2>1, EmptySeq DEF IsValidNipChecksum
    <2>. QED BY <2>1, <2>2, <2>3 DEF ValidateNip, Accepted
  <1>3. ValidateEuVat(text) = Whole(text)
    BY <1>1, <1>2 DEF ValidateEuVat
  <1>4. ~IsEmpty(text)
    BY <1>1, PrefixIsNotEmpty DEF IsEmpty
  <1>5. CASE text.prefix = "PL"
    <2>1. ValidatePolishVatEu(text) = Whole(text)
      BY <1>2, <1>5 DEF ValidatePolishVatEu
    <2>. QED BY <1>3, <1>4, <1>5, <2>1 DEF ValidateTaxIdentifier
  <1>6. CASE text.prefix \in EUCountry \ {"PL"}
    BY <1>3, <1>4, <1>6 DEF ValidateTaxIdentifier
  <1>. QED BY <1>1, <1>3, <1>5, <1>6

(* With the country PL, every accepted identifier has passed the checksum. *)
LEMMA PolishIdentifierIsValid ==
    ASSUME NEW text, IsText(text), ValidateTaxIdentifier(text, "PL", TRUE).ok
    PROVE  IsValidNipChecksum(text.digits)
  <1>1. ~IsEmpty(text)
    BY DEF ValidateTaxIdentifier, Rejected
  <1>2. CASE text.prefix = "PL"
    <2>1. ValidateNip(Rest(text), TRUE).ok
      BY <1>1, <1>2 DEF ValidateTaxIdentifier, ValidatePolishVatEu, Rejected
    <2>. QED BY <2>1 DEF ValidateNip, Rest, IsText, Rejected
  <1>3. CASE text.prefix # "PL"
    BY <1>1, <1>3 DEF ValidateTaxIdentifier, ValidateNip, Rejected
  <1>. QED BY <1>2, <1>3

(* validate_contractor_data: of three fields that may each be missing,     *)
(* empty or wrong, the one that counts for a Polish contractor is a NIP.   *)
THEOREM PolishContractors ==
    ASSUME NEW contractor,
           IsText(contractor.tax_identifier), IsText(contractor.vat_eu),
           IsText(contractor.nip)
    PROVE  PolishContractorHasNip(contractor)
  <1>. SUFFICES ASSUME contractor.country = "PL",
                       ValidateContractor(contractor, TRUE, FALSE)
                PROVE  \E id \in {contractor.tax_identifier, contractor.vat_eu,
                                  contractor.nip} : IsValidNipChecksum(id.digits)
    BY DEF PolishContractorHasNip
  <1>1. PICK id \in {contractor.tax_identifier, contractor.vat_eu, contractor.nip} :
          ValidateTaxIdentifier(id, "PL", TRUE).ok
    <2>1. CASE contractor.tax_identifier.given
      BY <2>1 DEF ValidateContractor
    <2>2. CASE ~contractor.tax_identifier.given /\ contractor.vat_eu.given
      BY <2>2 DEF ValidateContractor
    <2>3. CASE ~contractor.tax_identifier.given /\ ~contractor.vat_eu.given
      BY <2>3 DEF ValidateContractor
    <2>. QED BY <2>1, <2>2, <2>3
  <1>. QED BY <1>1, PolishIdentifierIsValid

-----------------------------------------------------------------------------
(* A byte, wide enough for every length of padding.                        *)
Octet == 0 .. 255

LEMMA BytesUnpad == ASSUME NEW s \in Seq(Octet) PROVE Unpad(Pad(s)) = Ok(s)
  <1>1. 1 .. BlockSize \subseteq Octet
    BY DEF Octet, BlockSize
  <1>. QED BY <1>1, PaddingComesOff

LEMMA OpenedMaterial ==
    ASSUME NEW config, Opened(config).ok
    PROVE  \E pair : Opened(config).value =
                       [key     |-> [id |-> "k", length |-> KeySize],
                        iv      |-> [id |-> "v", length |-> BlockSize],
                        wrapped |-> [key |-> "k", pair |-> pair]]
  BY DEF Opened, CreateMaterial, Ok, Refused

LEMMA RestoredFields ==
    ASSUME NEW s
    PROVE  /\ Restore(s).ok <=> /\ {"key", "iv", "wrapped"} \subseteq DOMAIN s
                                /\ s.key.base64 /\ s.iv.base64
           /\ Restore(s).ok => /\ Restore(s).value.key = s.key.of
                               /\ Restore(s).value.iv = s.iv.of
  BY DEF Restore, Ok, Refused

(* What storage returned is what was exported, has another key or vector,  *)
(* or is refused, by the import or for its lengths by encrypt_invoice_xml. *)
LEMMA RestoredMaterial ==
    ASSUME NEW pair, NEW material,
           material = [key     |-> [id |-> "k", length |-> KeySize],
                       iv      |-> [id |-> "v", length |-> BlockSize],
                       wrapped |-> [key |-> "k", pair |-> pair]],
           NEW damage \in Damage
    PROVE  LET back == Restore(Damaged(Export(material), damage))
           IN /\ damage = "none" =>
                   back.ok /\ back.value.key = material.key /\ back.value.iv = material.iv
              /\ damage \in Unnoticed =>
                   /\ back.ok /\ ValidLengths(back.value.key, back.value.iv)
                   /\ back.value.key # material.key \/ back.value.iv # material.iv
              /\ damage \notin Unnoticed \cup {"none"} /\ back.ok =>
                   ~ValidLengths(back.value.key, back.value.iv)
  <1>. DEFINE stored == Export(material)
              kept == Damaged(stored, damage)
              back == Restore(kept)
              Right == /\ damage = "none" =>
                            back.ok /\ back.value.key = material.key
                                    /\ back.value.iv = material.iv
                       /\ damage \in Unnoticed =>
                            /\ back.ok /\ ValidLengths(back.value.key, back.value.iv)
                            /\ \/ back.value.key # material.key
                               \/ back.value.iv # material.iv
                       /\ damage \notin Unnoticed \cup {"none"} /\ back.ok =>
                            ~ValidLengths(back.value.key, back.value.iv)
  <1>. SUFFICES Right
    OBVIOUS
  <1>1. /\ stored = [f \in {"key", "iv", "wrapped"} |-> stored[f]]
        /\ DOMAIN stored = {"key", "iv", "wrapped"}
        /\ stored.key = [base64 |-> TRUE, of |-> material.key]
        /\ stored.iv = [base64 |-> TRUE, of |-> material.iv]
    BY DEF Export
  <1>1a. /\ material.key = [id |-> "k", length |-> KeySize]
         /\ material.iv = [id |-> "v", length |-> BlockSize]
    OBVIOUS
  <1>. HIDE DEF stored
  <1>2. /\ back.ok <=> /\ {"key", "iv", "wrapped"} \subseteq DOMAIN kept
                       /\ kept.key.base64 /\ kept.iv.base64
        /\ back.ok => back.value.key = kept.key.of /\ back.value.iv = kept.iv.of
    BY RestoredFields
  <1>. HIDE DEF kept
  <1>3. CASE damage = "none"
    <2>1. kept = stored
      BY <1>3 DEF kept, Damaged
    <2>. QED BY <1>1, <1>2, <1>3, <2>1 DEF Unnoticed
  <1>4. CASE damage = "key lost" \/ damage = "iv lost"
    <2>1. "key" \notin DOMAIN kept \/ "iv" \notin DOMAIN kept
      BY <1>4 DEF kept, Damaged
    <2>. QED BY <1>2, <1>4, <2>1 DEF Unnoticed
  <1>5. CASE damage = "key garbled" \/ damage = "iv garbled"
    <2>1. ~kept.key.base64 \/ ~kept.iv.base64
      BY <1>1, <1>5 DEF kept, Damaged
    <2>. QED BY <1>2, <1>5, <2>1 DEF Unnoticed
  <1>6. CASE damage = "key cut"
    <2>1. kept = [stored EXCEPT !.key.of.length = 24]
      BY <1>6 DEF kept, Damaged
    <2>2. /\ DOMAIN kept = {"key", "iv", "wrapped"} /\ kept.iv = stored.iv
          /\ kept.key = [stored.key EXCEPT !.of.length = 24]
      BY <1>1, <2>1
    <2>3. kept.key.base64 = TRUE /\ kept.key.of = [material.key EXCEPT !.length = 24]
      BY <1>1, <2>2
    <2>4. kept.key.of.length = 24
      BY <1>1a, <2>3
    <2>5. back.ok => ~ValidLengths(back.value.key, back.value.iv)
      BY <1>2, <2>4 DEF ValidLengths, KeySize
    <2>. QED BY <1>6, <2>5 DEF Unnoticed
  <1>7. CASE damage = "iv cut"
    <2>1. kept = [stored EXCEPT !.iv.of.length = 12]
      BY <1>7 DEF kept, Damaged
    <2>2. /\ DOMAIN kept = {"key", "iv", "wrapped"} /\ kept.key = stored.key
          /\ kept.iv = [stored.iv EXCEPT !.of.length = 12]
      BY <1>1, <2>1
    <2>3. kept.iv.base64 = TRUE /\ kept.iv.of = [material.iv EXCEPT !.length = 12]
      BY <1>1, <2>2
    <2>4. kept.iv.of.length = 12
      BY <1>1a, <2>3
    <2>5. back.ok => ~ValidLengths(back.value.key, back.value.iv)
      BY <1>2, <2>4 DEF ValidLengths, BlockSize
    <2>. QED BY <1>7, <2>5 DEF Unnoticed
  <1>8. CASE damage = "key altered"
    <2>1. kept = [stored EXCEPT !.key.of.id = "other"]
      BY <1>8 DEF kept, Damaged
    <2>2. /\ DOMAIN kept = {"key", "iv", "wrapped"} /\ kept.iv = stored.iv
          /\ kept.key = [stored.key EXCEPT !.of.id = "other"]
      BY <1>1, <2>1
    <2>3. kept.key.base64 = TRUE /\ kept.key.of = [material.key EXCEPT !.id = "other"]
      BY <1>1, <2>2
    <2>4. kept.key.of = [id |-> "other", length |-> KeySize]
      BY <1>1a, <2>3
    <2>5. /\ back.ok /\ back.value.iv = material.iv
          /\ back.value.key = [id |-> "other", length |-> KeySize]
      BY <1>1, <1>2, <2>2, <2>3, <2>4
    <2>6. /\ ValidLengths(back.value.key, back.value.iv)
          /\ back.value.key # material.key
      BY <1>1a, <2>5 DEF ValidLengths
    <2>. QED BY <1>8, <2>5, <2>6 DEF Unnoticed
  <1>9. CASE damage = "iv altered"
    <2>1. kept = [stored EXCEPT !.iv.of.id = "other"]
      BY <1>9 DEF kept, Damaged
    <2>2. /\ DOMAIN kept = {"key", "iv", "wrapped"} /\ kept.key = stored.key
          /\ kept.iv = [stored.iv EXCEPT !.of.id = "other"]
      BY <1>1, <2>1
    <2>3. kept.iv.base64 = TRUE /\ kept.iv.of = [material.iv EXCEPT !.id = "other"]
      BY <1>1, <2>2
    <2>4. kept.iv.of = [id |-> "other", length |-> BlockSize]
      BY <1>1a, <2>3
    <2>5. /\ back.ok /\ back.value.key = material.key
          /\ back.value.iv = [id |-> "other", length |-> BlockSize]
      BY <1>1, <1>2, <2>2, <2>3, <2>4
    <2>6. /\ ValidLengths(back.value.key, back.value.iv)
          /\ back.value.iv # material.iv
      BY <1>1a, <2>5 DEF ValidLengths
    <2>. QED BY <1>9, <2>5, <2>6 DEF Unnoticed
  <1>. HIDE DEF Right
  <1>. QED BY <1>3, <1>4, <1>5, <1>6, <1>7, <1>8, <1>9 DEF Damage, Unnoticed

(* create_material, export, restore, encrypt_invoice_xml and KSeF's        *)
(* decryption together, with any certificates and an invoice of any        *)
(* length: KSeF reads it as it was and was announced if storage kept the   *)
(* material; material of another form is refused before anything is sent;  *)
(* and with another key or vector of the right length, which the code      *)
(* cannot notice (encryption_service.py:116-123), KSeF reads nothing.      *)
THEOREM SentInvoiceComesBack ==
    ASSUME NEW config, Opened(config).ok, NEW damage \in Damage, NEW bytes \in Seq(Octet)
    PROVE  ExchangeIsRight(Opened(config).value, damage, bytes)
  <1>. DEFINE material == Opened(config).value
              back == Restore(Damaged(Export(material), damage))
              sent == IF back.ok THEN EncryptInvoice(bytes, back.value) ELSE Refused
              received == ReadByKsef(material, sent.value)
              cipher == [key |-> back.value.key, iv |-> back.value.iv, padded |-> Pad(bytes)]
  <1>1. PICK pair : material = [key     |-> [id |-> "k", length |-> KeySize],
                                iv      |-> [id |-> "v", length |-> BlockSize],
                                wrapped |-> [key |-> "k", pair |-> pair]]
    BY OpenedMaterial
  <1>2. /\ material.key = [id |-> material.wrapped.key, length |-> KeySize]
        /\ ValidLengths(material.key, material.iv)
    BY <1>1 DEF ValidLengths
  <1>. SUFFICES ExchangeIsRight(material, damage, bytes)
    OBVIOUS
  <1>. HIDE DEF material
  <1>3. /\ damage = "none" =>
             back.ok /\ back.value.key = material.key /\ back.value.iv = material.iv
        /\ damage \in Unnoticed =>
             /\ back.ok /\ ValidLengths(back.value.key, back.value.iv)
             /\ back.value.key # material.key \/ back.value.iv # material.iv
        /\ damage \notin Unnoticed \cup {"none"} /\ back.ok =>
             ~ValidLengths(back.value.key, back.value.iv)
    BY <1>1, RestoredMaterial
  <1>4. ExchangeIsRight(material, damage, bytes) <=>
          CASE damage = "none"       -> sent.ok /\ AsAnnounced(sent.value, received, bytes)
            [] damage \in Unnoticed -> sent.ok /\ ~received.ok
            [] OTHER                 -> ~sent.ok
    BY DEF ExchangeIsRight, ToSend
  <1>. HIDE DEF back
  <1>5. ASSUME back.ok, ValidLengths(back.value.key, back.value.iv)
        PROVE  /\ sent.ok
               /\ sent.value = [hash |-> bytes, size |-> Len(bytes),
                                encrypted_hash |-> cipher,
                                encrypted_size |-> Len(cipher.padded),
                                content |-> cipher]
    BY <1>5 DEF EncryptInvoice, Ok
  <1>6. ~back.ok \/ ~ValidLengths(back.value.key, back.value.iv) => ~sent.ok
    BY DEF EncryptInvoice, Refused
  <1>. HIDE DEF sent
  <1>7. received = DecryptContent(sent.value.content, material.key, material.iv)
    BY <1>2 DEF ReadByKsef
  <1>. HIDE DEF received
  <1>8. CASE damage = "none"
    <2>1. back.ok /\ ValidLengths(back.value.key, back.value.iv)
      BY <1>2, <1>3, <1>8
    <2>2. received = Unpad(Pad(bytes))
      BY <1>2, <1>3, <1>5, <1>7, <1>8, <2>1 DEF DecryptContent
    <2>3. received = Ok(bytes) /\ received.value = bytes
      BY <2>2, BytesUnpad DEF Ok
    <2>4. AsAnnounced(sent.value, received, bytes)
      BY <1>5, <2>1, <2>3 DEF AsAnnounced
    <2>. QED BY <1>4, <1>5, <1>8, <2>1, <2>4 DEF Unnoticed
  <1>9. CASE damage \in Unnoticed
    <2>1. sent.ok /\ ~received.ok
      BY <1>3, <1>5, <1>7, <1>9 DEF DecryptContent, Refused
    <2>. QED BY <1>4, <1>9, <2>1 DEF Unnoticed
  <1>10. CASE damage \notin Unnoticed \cup {"none"}
    <2>1. ~sent.ok
      BY <1>3, <1>6, <1>10
    <2>. QED BY <1>4, <1>10, <2>1
  <1>. QED BY <1>8, <1>9, <1>10

-----------------------------------------------------------------------------
(* What arrives of a reply: of KSeF's responses the statuses 2xx, 4xx, 5xx.*)
IsReply(reply) ==
    reply.kind = "response" => reply.status \in 200 .. 299 \cup 400 .. 599

LEMMA CallsDiffer ==
    /\ JsonCall \cap (NoContentCall \cup TextCall) = {}
    /\ NoContentCall \cap TextCall = {}
  BY DEF JsonCall, NoContentCall, TextCall

(* BaseHttpClient._request and the methods of KsefHttpClient: a transport  *)
(* error when there was no response, an error with the status KSeF sent,   *)
(* or an answer, which only a status below 400 gives.                      *)
LEMMA CallOutcomes ==
    ASSUME NEW call \in JsonCall \cup NoContentCall \cup TextCall,
           NEW reply, IsReply(reply), NEW refresh
    PROVE  LET outcome == Call(call, reply, refresh)
           IN \/ outcome = TransportError /\ reply.kind # "response"
              \/ outcome = ApiError(reply) /\ reply.kind = "response"
              \/ /\ \E x : outcome = Answer(x)
                 /\ reply.kind = "response" /\ reply.status \in 200 .. 299
  <1>1. CASE reply.kind # "response"
    BY <1>1 DEF Call, Request
  <1>2. CASE reply.kind = "response" /\ reply.status >= 400
    BY <1>2 DEF Call, Request
  <1>3. CASE reply.kind = "response" /\ ~(reply.status >= 400)
    <2>1. reply.status \in 200 .. 299
      BY <1>3 DEF IsReply
    <2>2. CASE call \in JsonCall
      <3>. DEFINE n == Normalize(call, Payload(reply), refresh)
      <3>. HIDE DEF n
      <3>1. call \notin NoContentCall /\ call \notin TextCall
        BY <2>2, CallsDiffer
      <3>2. Call(call, reply, refresh) = Request(reply, ParseJson(reply, n))
        BY <2>2, <3>1 DEF Call, n
      <3>. QED BY <1>3, <2>1, <3>2 DEF Request, ParseJson
    <2>3. CASE call \notin JsonCall /\ call \in NoContentCall
      BY <1>3, <2>1, <2>3 DEF Call, Request, NoContent
    <2>4. CASE call \in TextCall /\ call \notin JsonCall \cup NoContentCall
      BY <1>3, <2>1, <2>4 DEF Call, Request
    <2>. QED BY <2>2, <2>3, <2>4
  <1>. QED BY <1>1, <1>2, <1>3

LEMMA RefreshTokenStays ==
    ASSUME NEW reply, NEW refresh,
           Call("refresh_token", reply, refresh).result = "answer"
    PROVE  Call("refresh_token", reply, refresh).value.refresh_token = refresh
  <1>. DEFINE n == Normalize("refresh_token", Payload(reply), refresh)
  <1>1. n.refresh_token = refresh
    BY DEF Normalize, NormalizeRefresh, NormalizeAuthTokens
  <1>2. /\ "refresh_token" \in JsonCall
        /\ "refresh_token" \notin NoContentCall
        /\ "refresh_token" \notin TextCall
    BY DEF JsonCall, NoContentCall, TextCall
  <1>. HIDE DEF n
  <1>3. Call("refresh_token", reply, refresh) = Request(reply, ParseJson(reply, n))
    BY <1>2 DEF Call, n
  <1>. QED BY <1>1, <1>3 DEF Request, ParseJson, Answer, ApiError, TransportError

(* Every method of the client, with any reply: as long as KSeF's 2xx means *)
(* done and its 4xx means not done, a caller that takes an answer for done *)
(* and an error with a status for what the status says is never wrong.     *)
THEOREM CallersKnow ==
    ASSUME NEW call \in JsonCall \cup NoContentCall \cup TextCall,
           NEW done \in BOOLEAN, NEW reply, IsReply(reply),
           Possible(done, reply.kind, reply.status), NEW refresh
    PROVE  OutcomeIsTrue(call, done, reply, refresh)
  <1>. DEFINE outcome == Call(call, reply, refresh)
  <1>1. \/ outcome = TransportError /\ reply.kind # "response"
        \/ outcome = ApiError(reply) /\ reply.kind = "response"
        \/ /\ \E x : outcome = Answer(x)
           /\ reply.kind = "response" /\ reply.status \in 200 .. 299
    BY CallOutcomes
  <1>2. call = "refresh_token" /\ outcome.result = "answer" =>
          outcome.value.refresh_token = refresh
    BY RefreshTokenStays
  <1>. HIDE DEF outcome
  <1>3. outcome.result = "answer" => done
    BY <1>1 DEF TransportError, ApiError, Possible
  <1>4. outcome.result = "api_error" =>
          /\ outcome.status \in 400 .. 499 => ~done
          /\ outcome.status \in 200 .. 299 => done
    BY <1>1 DEF TransportError, ApiError, Answer, Possible
  <1>. QED BY <1>2, <1>3, <1>4 DEF OutcomeIsTrue, outcome

-----------------------------------------------------------------------------
(***************************************************************************)
(* The invariants of MCAlgorithms: its inputs are among those above.       *)
(***************************************************************************)

LEMMA InputStays ==
    /\ Init => Init
    /\ Init /\ [Next]_<<part, input>> => Init'
  BY DEF Init, Next

LEMMA ConstantSequence ==
    ASSUME NEW S, NEW x \in S, NEW n \in Nat
    PROVE  [i \in 1 .. n |-> x] \in Seq(S)
  <1>1. [i \in 1 .. n |-> x] \in [1 .. n -> S]
    OBVIOUS
  <1>. QED BY <1>1, SeqDef

LEMMA NipDigitsAreDigits == NipDigits \subseteq Seq(Digit)
  <1>. SUFFICES ASSUME NEW d \in NipDigits PROVE d \in Seq(Digit)
    OBVIOUS
  <1>1. \A nine : nine \in [1 .. 9 -> {0, 9}] \cup [1 .. 9 -> {1, 5}]
                            \cup [1 .. 9 -> {2, 7}] => nine \in [1 .. 9 -> Digit]
    BY DEF Digit
  <1>2. ASSUME NEW nine \in [1 .. 9 -> Digit], Nip(nine)[10] < 10
        PROVE  Nip(nine) \in Seq(Digit)
    <2>1. /\ 9 \in Nat /\ nine \in Seq(Digit) /\ Len(nine) = 9
      <3>1. 9 \in Nat
        OBVIOUS
      <3>2. nine \in Seq(Digit)
        BY <3>1, SeqDef
      <3>3. DOMAIN nine = 1 .. 9 /\ DOMAIN nine = 1 .. Len(nine) /\ Len(nine) \in Nat
        BY <3>2, LenProperties
      <3>. QED BY <3>2, <3>3
    <2>2. WeightedSum(nine) \in Int
      <3>. DEFINE long == [i \in 1 .. 10 |-> IF i = 10 THEN 0 ELSE nine[i]]
      <3>1. long \in Number
        BY DEF Number, Digit
      <3>2. \A i \in 1 .. 9 : long[i] = nine[i]
        OBVIOUS
      <3>. HIDE DEF long
      <3>3. WeightedSum(long) = WeightedSum(nine)
        BY <3>2 DEF WeightedSum
      <3>. QED BY <3>1, <3>3, SumType
    <2>. DEFINE r == WeightedSum(nine) % 11
    <2>3. r \in 0 .. 10
      BY <2>2
    <2>. HIDE DEF r
    <2>4. nine \in Seq(Int) /\ r \in Int
      <3>1. Digit \subseteq Int
        BY DEF Digit
      <3>2. nine \in Seq(Int)
        BY <2>1, <3>1, SeqMonotonic
      <3>3. r \in Int
        BY <2>3
      <3>. QED BY <3>2, <3>3
    <2>5. Append(nine, r)[10] = r
      <3>1. Append(nine, r)[Len(nine) + 1] = r
        BY <2>4, AppendProperties
      <3>2. Len(nine) + 1 = 10
        BY <2>1
      <3>. QED BY <3>1, <3>2
    <2>6. r \in Digit
      <3>1. r < 10
        BY <1>2, <2>5 DEF Nip, r
      <3>. QED BY <2>3, <3>1 DEF Digit
    <2>. QED BY <2>1, <2>6, AppendProperties DEF Nip, r
  <1>3. /\ <<1, 2, 3, 4, 5, 6, 3, 2, 1, 8>> \in Seq(Digit)
        /\ <<5, 2, 6, 0, 2, 5, 0, 2, 7, 4>> \in Seq(Digit)
    BY DEF Digit
  <1>. QED BY <1>1, <1>2, <1>3 DEF NipDigits

LEMMA SomeDigitsAreDigits == SomeDigits \subseteq Seq(Digit)
  <1>1. /\ << >> \in Seq(Digit) /\ <<7>> \in Seq(Digit) /\ <<4, 2>> \in Seq(Digit)
        /\ <<1, 2, 3, 4, 5, 6, 3, 2, 1, 8>> \in Seq(Digit)
        /\ <<1, 2, 3, 4, 5, 6, 3, 2, 1, 9>> \in Seq(Digit)
    BY DEF Digit
  <1>2. /\ [i \in 1 .. 11 |-> 3] \in Seq(Digit)
        /\ [i \in 1 .. 12 |-> 0] \in Seq(Digit)
        /\ [i \in 1 .. 13 |-> 0] \in Seq(Digit)
    BY ConstantSequence DEF Digit
  <1>. QED BY <1>1, <1>2 DEF SomeDigits

LEMMA InputsAreTexts ==
    /\ NipText \subseteq PolishText
    /\ \A text \in VatText \cup SomeText : IsText(text)
  <1>1. NipText \subseteq PolishText
    <2>. SUFFICES ASSUME NEW p \in NipPrefix, NEW d \in NipDigits
                  PROVE  Text(p, 0, d) \in PolishText
      BY DEF NipText
    <2>. QED BY NipDigitsAreDigits DEF NipPrefix, Text, PolishText
  <1>2. \A p, n : \A d \in Seq(Digit) : IsText(Text(p, n, d))
    BY DEF Text, IsText
  <1>3. ASSUME NEW text \in VatText PROVE IsText(text)
    <2>1. PICK p \in VatPrefix, n \in 0 .. 2, d \in SomeDigits : text = Text(p, n, d)
      BY <1>3 DEF VatText
    <2>. QED BY <1>2, <2>1, SomeDigitsAreDigits
  <1>4. ASSUME NEW text \in SomeText PROVE IsText(text)
    <2>1. /\ << >> \in Seq(Digit)
          /\ <<1, 2, 3, 4, 5, 6, 3, 2, 1, 8>> \in Seq(Digit)
          /\ <<1, 2, 3, 4, 5, 6, 3, 2, 1, 9>> \in Seq(Digit)
          /\ [i \in 1 .. 9 |-> 8] \in Seq(Digit)
      BY ConstantSequence DEF Digit
    <2>2. IsText(NotGiven)
      BY <2>1 DEF NotGiven, IsText
    <2>. QED BY <1>2, <2>1, <2>2 DEF SomeText
  <1>. QED BY <1>1, <1>3, <1>4

(* The three checks of tax identifiers on the inputs of the run.           *)
THEOREM IdentifiersCorrect == Spec => []IdentifiersAreChecked
  <1>1. Init => IdentifiersAreChecked
    <2>. SUFFICES ASSUME Init PROVE IdentifiersAreChecked
      OBVIOUS
    <2>1. ASSUME part = "nip", NEW country \in {"", "PL"},
                 NEW i \in 1 .. 10, NEW x \in Digit
          PROVE  TypingErrorIsRejected(input, country, i, x)
      <3>1. input \in PolishText
        BY <2>1, InputsAreTexts DEF Init
      <3>. QED BY <3>1, TypingErrorsAreRejected
    <2>2. ASSUME part = "vat" PROVE LooksAreConfirmed(input)
      BY <2>2, InputsAreTexts, LookingIsBeing DEF Init
    <2>3. ASSUME part = "contractor" PROVE PolishContractorHasNip(input)
      <3>1. input \in Contractor
        BY <2>3 DEF Init
      <3>2. /\ IsText(input.tax_identifier) /\ IsText(input.vat_eu)
            /\ IsText(input.nip)
        BY <3>1, InputsAreTexts DEF Contractor
      <3>. QED BY <3>2, PolishContractors
    <2>. QED BY <2>1, <2>2, <2>3 DEF IdentifiersAreChecked
  <1>. QED BY <1>1, InputStays, PTL DEF Spec

(* Certificates, stored material and padding on the inputs of the run: the *)
(* damage that is refused, and the one that goes unnoticed.                *)
THEOREM EncryptionCorrect == Spec => []InvoiceComesBack
  <1>1. Init => InvoiceComesBack
    <2>. SUFFICES ASSUME Init, part = "encryption", Opened(input[1]).ok
                  PROVE  ExchangeIsRight(Opened(input[1]).value, input[2], input[3])
      BY DEF InvoiceComesBack
    <2>1. input[2] \in Damage /\ input[3] \in Content
      BY DEF Init
    <2>2. Content \subseteq Seq(Octet)
      <3>. SUFFICES ASSUME NEW n \in SomeLength, NEW x \in SomeByte
                    PROVE  Repeated(x, n) \in Seq(Octet)
        BY DEF Content
      <3>1. x \in Octet /\ n \in Nat
        BY DEF SomeByte, SomeLength, Octet
      <3>. QED BY <3>1, ConstantSequence DEF Repeated
    <2>. QED BY <2>1, <2>2, SentInvoiceComesBack
  <1>. QED BY <1>1, InputStays, PTL DEF Spec

(* What callers may conclude on the replies of the run.                    *)
THEOREM CallersCorrect == Spec => []CallersAreToldTheTruth
  <1>1. Init => CallersAreToldTheTruth
    <2>. SUFFICES ASSUME Init, part = "call", NEW fields \in SomeFields
                  PROVE  OutcomeIsTrue(input[1], input[2],
                             [kind |-> input[3], status |-> input[4],
                              body |-> input[5], fields |-> fields], "r1")
      BY DEF CallersAreToldTheTruth
    <2>. DEFINE reply == [kind |-> input[3], status |-> input[4],
                          body |-> input[5], fields |-> fields]
    <2>1. /\ input[1] \in JsonCall \cup NoContentCall \cup TextCall
          /\ input[2] \in BOOLEAN
          /\ input[4] \in 200 .. 299 \cup 400 .. 599
          /\ Possible(input[2], input[3], input[4])
      BY DEF Init, CallCase
    <2>2. /\ IsReply(reply)
          /\ Possible(input[2], reply.kind, reply.status)
      BY <2>1 DEF IsReply
    <2>. HIDE DEF reply
    <2>3. OutcomeIsTrue(input[1], input[2], reply, "r1")
      BY <2>1, <2>2, CallersKnow
    <2>. QED BY <2>3 DEF reply
  <1>. QED BY <1>1, InputStays, PTL DEF Spec
=============================================================================
