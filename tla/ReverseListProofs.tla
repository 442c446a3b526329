--------------------------- MODULE ReverseListProofs ---------------------------
(***************************************************************************)
(* Proofs about McFrame, for every number of up to five digits, and about  *)
(* ReverseList, for any lists of them, any number of registers and lifts.  *)
(***************************************************************************)
EXTENDS ReverseList, FiniteSetTheorems, TLAPS

--------------------------------------------------------------------------------
(* Numbers and their digits.                                                *)

LEMMA WidthOf ==
  ASSUME NEW n \in Int, n >= 0
  PROVE  /\ Width(n) \in 1..5
         /\ n < 65536 => Width(n) \in 1..4
         /\ n >= 65536 => Width(n) = 5
<1>1. Width(n) \in 1..5
  BY SMT DEF Width
<1>2. ASSUME n < 65536 PROVE Width(n) \in 1..4
  BY SMT, <1>2 DEF Width
<1>3. ASSUME n >= 65536 PROVE Width(n) = 5
  BY SMT, <1>3 DEF Width
<1> QED
  BY SMT, <1>1, <1>2, <1>3

LEMMA Powers ==
  /\ Power16(0) = 1 /\ Power16(1) = 16 /\ Power16(2) = 256 /\ Power16(3) = 4096
BY SMT DEF Power16

LEMMA HexLength ==
  ASSUME NEW n \in Int, n >= 0
  PROVE  Len(HexDigits(n)) = Width(n)
<1>1. Width(n) \in Nat
  BY SMT, WidthOf
<1> QED
  BY SMT, <1>1 DEF HexDigits

LEMMA LeadingZeros ==
  ASSUME NEW v \in Int, v >= 0
  PROVE  /\ Width(v) <= 3 => v \div 4096 = 0
         /\ Width(v) <= 2 => v \div 256 = 0
         /\ Width(v) <= 1 => v \div 16 = 0
<1>1. ASSUME Width(v) <= 3 PROVE v \div 4096 = 0
  <2>1. v < 4096
    BY SMT, <1>1 DEF Width
  <2> QED
    BY SMT, <2>1
<1>2. ASSUME Width(v) <= 2 PROVE v \div 256 = 0
  <2>1. v < 256
    BY SMT, <1>2 DEF Width
  <2> QED
    BY SMT, <2>1
<1>3. ASSUME Width(v) <= 1 PROVE v \div 16 = 0
  <2>1. v < 16
    BY SMT, <1>3 DEF Width
  <2> QED
    BY SMT, <2>1
<1> QED
  BY SMT, <1>1, <1>2, <1>3

LEMMA WordDigits ==
  ASSUME NEW v \in Int, v >= 0, v < 65536
  PROVE  /\ Len(Encode(v)) = 4
         /\ \A j \in 1..4 : Encode(v)[j] = (v \div Power16(4 - j)) % 16
<1> DEFINE w == Width(v)
<1>1. w \in 1..4
  BY SMT, WidthOf
<1>2. Hex(v) = HexDigits(v)
  BY SMT DEF Hex
<1>3. Len(Hex(v)) = w
  BY SMT, <1>2, HexLength
<1>4. \A i \in 1..w : Hex(v)[i] = (v \div Power16(w - i)) % 16
  BY SMT, <1>1, <1>2 DEF HexDigits
<1> HIDE DEF w
<1>5. CASE w = 4
  <2>1. Encode(v) = Hex(v)
    BY SMT, <1>3, <1>5 DEF Encode, ZFill
  <2> QED
    BY SMT, <1>3, <1>4, <1>5, <2>1
<1>6. CASE w < 4
  <2>1. Encode(v) = [i \in 1..4 |-> IF i <= 4 - w THEN 0 ELSE Hex(v)[i - (4 - w)]]
    BY SMT, <1>1, <1>3, <1>6 DEF Encode, ZFill
  <2>2. Len(Encode(v)) = 4
    BY SMT, <2>1
  <2>3. ASSUME NEW j \in 1..4, j > 4 - w PROVE Encode(v)[j] = (v \div Power16(4 - j)) % 16
    <3>1. j - (4 - w) \in 1..w /\ w - (j - (4 - w)) = 4 - j
      BY SMT, <1>1, <2>3
    <3>2. Encode(v)[j] = Hex(v)[j - (4 - w)]
      BY SMT, <1>1, <2>1, <2>3
    <3> QED
      BY SMT, <1>4, <3>1, <3>2
  <2>4. ASSUME NEW j \in 1..4, j <= 4 - w PROVE Encode(v)[j] = (v \div Power16(4 - j)) % 16
    <3>1. Encode(v)[j] = 0
      BY SMT, <1>1, <2>1, <2>4
    <3>2. v \div Power16(4 - j) = 0
      <4>1. CASE j = 1
        BY SMT, <1>1, <2>4, <4>1, LeadingZeros, Powers DEF w
      <4>2. CASE j = 2
        BY SMT, <1>1, <2>4, <4>2, LeadingZeros, Powers DEF w
      <4>3. CASE j = 3
        BY SMT, <1>1, <2>4, <4>3, LeadingZeros, Powers DEF w
      <4> QED
        BY SMT, <1>1, <2>4, <4>1, <4>2, <4>3
    <3> QED
      BY SMT, <3>1, <3>2
  <2> QED
    BY SMT, <1>1, <2>2, <2>3, <2>4
<1> QED
  BY SMT, <1>1, <1>5, <1>6

THEOREM WordRoundTrip ==
  ASSUME NEW v \in Word
  PROVE  /\ Len(Encode(v)) = 4
         /\ \A j \in 1..4 : Encode(v)[j] \in Digit
         /\ Decode(Encode(v)) = v
<1>0. v \in Int /\ v >= 0 /\ v < 65536
  BY SMT DEF Word
<1>1. Len(Encode(v)) = 4 /\ \A j \in 1..4 : Encode(v)[j] = (v \div Power16(4 - j)) % 16
  BY SMT, <1>0, WordDigits
<1> DEFINE e == Encode(v)
<1> HIDE DEF e
<1>2. /\ e[1] = (v \div 4096) % 16 /\ e[2] = (v \div 256) % 16
      /\ e[3] = (v \div 16) % 16 /\ e[4] = v % 16
  <2>1. v \div 1 = v
    BY SMT, <1>0
  <2> QED
    BY SMT, <1>1, <2>1, Powers DEF e
<1>3. e[1] \in Digit /\ e[2] \in Digit /\ e[3] \in Digit /\ e[4] \in Digit
  BY SMT, <1>0, <1>2 DEF Digit
<1>4. \A j \in 1..4 : e[j] \in Digit
  BY SMT, <1>3
<1>5. 4096 * ((v \div 4096) % 16) + 256 * ((v \div 256) % 16) + 16 * ((v \div 16) % 16) + (v % 16) = v
  BY SMT, <1>0
<1>6. Decode(e) = 4096 * e[1] + 256 * e[2] + 16 * e[3] + e[4]
  BY SMT DEF Decode
<1>7. Decode(e) = v
  BY SMT, <1>2, <1>5, <1>6
<1> QED
  BY SMT, <1>1, <1>4, <1>7 DEF e

LEMMA NoWord ==
  ASSUME NEW v \in Number, v \notin Word
  PROVE  ~ (Len(Encode(v)) = 4 /\ \A j \in 1..4 : Encode(v)[j] \in Digit)
<1>0. v \in Int
  <2>1. \A a, b : \A n \in a..b : n \in Int
    OBVIOUS
  <2> QED
    BY Zenon, <2>1 DEF Number
<1>3. v >= 65536 \/ v < 0
  BY SMT, <1>0 DEF Word
<1>1. CASE v >= 65536
  <2>1. Len(HexDigits(v)) = 5
    <3>1. v >= 0
      BY SMT, <1>0, <1>1
    <3>2. Width(v) = 5
      BY SMT, <1>0, <1>1, <3>1, WidthOf
    <3>3. Len(HexDigits(v)) = Width(v)
      BY SMT, <1>0, <3>1, HexLength
    <3> QED
      BY SMT, <3>2, <3>3
  <2>2. Hex(v) = HexDigits(v)
    BY SMT, <1>0, <1>1 DEF Hex
  <2>3. Encode(v) = Hex(v)
    BY SMT, <2>1, <2>2 DEF Encode, ZFill
  <2> QED
    BY SMT, <2>1, <2>2, <2>3
<1>2. CASE v < 0
  <2>1. PICK n \in Nat : n = -v
    BY SMT, <1>0, <1>2
  <2> DEFINE d == HexDigits(n)
  <2>2. Width(n) \in 1..5
    BY SMT, WidthOf
  <2>3. d \in Seq(Int) /\ Len(d) \in 1..5
    <3>1. ASSUME NEW i \in 1..Width(n) PROVE (n \div Power16(Width(n) - i)) % 16 \in Int
      <4>1. PICK p \in Nat \ {0} : p = Power16(Width(n) - i)
        BY SMT DEF Power16
      <4>2. n \div p \in Int
        BY SMT
      <4> QED
        BY SMT, <4>1, <4>2
    <3> QED
      BY SMT, <2>2, <3>1 DEF HexDigits
  <2>4. Hex(v) = <<LetterX>> \o d
    BY SMT, <1>0, <1>2, <2>1 DEF Hex
  <2> HIDE DEF d
  <2>5. Len(Hex(v)) = Len(d) + 1 /\ Hex(v)[1] = 16
    BY SMT, <2>3, <2>4 DEF LetterX
  <2>6. 16 \notin Digit
    BY SMT DEF Digit
  <2>7. CASE Len(d) >= 3
    <3>1. Encode(v) = Hex(v)
      BY SMT, <2>3, <2>5, <2>7 DEF Encode, ZFill
    <3> QED
      BY SMT, <2>5, <2>6, <3>1
  <2>8. CASE Len(d) < 3
    <3>1. Encode(v) = [i \in 1..4 |-> IF i <= 4 - Len(Hex(v)) THEN 0
                                      ELSE Hex(v)[i - (4 - Len(Hex(v)))]]
      BY SMT, <2>3, <2>5, <2>8 DEF Encode, ZFill
    <3>2. Encode(v)[4 - Len(d)] = Hex(v)[1]
      BY SMT, <2>3, <2>5, <2>8, <3>1
    <3> QED
      BY SMT, <2>3, <2>5, <2>6, <2>8, <3>2
  <2> QED
    BY SMT, <2>3, <2>7, <2>8
<1> QED
  BY SMT, <1>3, <1>1, <1>2

LEMMA IntegersOnly ==
  ASSUME NEW v \in Number
  PROVE  v \in Int
<1>1. \A a, b : \A n \in a..b : n \in Int
  OBVIOUS
<1> QED
  BY Zenon, <1>1 DEF Number

(* Never fewer than four characters, never more than six.                   *)
LEMMA EncodeLength ==
  ASSUME NEW v \in Number
  PROVE  Len(Encode(v)) \in 4..6
<1>0. v \in Int
  BY IntegersOnly
<1>1. Len(Hex(v)) \in 1..6
  <2>1. CASE v >= 0
    <3>1. Hex(v) = HexDigits(v)
      BY SMT, <1>0, <2>1 DEF Hex
    <3>2. Len(HexDigits(v)) = Width(v) /\ Width(v) \in 1..5
      BY SMT, <1>0, <2>1, WidthOf, HexLength
    <3> QED
      BY SMT, <3>1, <3>2
  <2>2. CASE v < 0
    <3>1. PICK n \in Nat : n = -v
      BY SMT, <1>0, <2>2
    <3>2. Len(HexDigits(n)) \in 1..5
      <4>1. n \in Int /\ n >= 0
        BY SMT
      <4>2. Len(HexDigits(n)) = Width(n) /\ Width(n) \in 1..5
        BY SMT, <4>1, WidthOf, HexLength
      <4> QED
        BY SMT, <4>2
    <3> DEFINE d == HexDigits(n)
    <3>3. d \in Seq(Int)
      <4>1. Width(n) \in Nat
        BY SMT, WidthOf
      <4>2. ASSUME NEW i \in 1..Width(n) PROVE (n \div Power16(Width(n) - i)) % 16 \in Int
        <5>1. PICK p \in Nat \ {0} : p = Power16(Width(n) - i)
          BY SMT DEF Power16
        <5>2. n \div p \in Int
          BY SMT
        <5> QED
          BY SMT, <5>1, <5>2
      <4> QED
        BY SMT, <4>1, <4>2 DEF HexDigits
    <3>4. Hex(v) = <<LetterX>> \o HexDigits(n)
      BY SMT, <1>0, <2>2, <3>1 DEF Hex
    <3> HIDE DEF d
    <3>5. Len(<<LetterX>> \o d) = Len(d) + 1
      BY SMT, <3>3 DEF LetterX
    <3>6. Len(Hex(v)) = Len(d) + 1
      BY Zenon, <3>4, <3>5 DEF d
    <3>7. PICK m \in 1..5 : m = Len(d)
      BY Zenon, <3>2 DEF d
    <3>8. m + 1 \in 1..6
      BY SMT
    <3> QED
      BY Zenon, <3>6, <3>7, <3>8
  <2> QED
    BY SMT, <1>0, <2>1, <2>2
<1>2. CASE Len(Hex(v)) < 4
  <2>1. Len(Encode(v)) = 4
    BY SMT, <1>2 DEF Encode, ZFill
  <2> QED
    BY SMT, <2>1
<1>3. CASE ~ (Len(Hex(v)) < 4)
  <2>1. Encode(v) = Hex(v)
    BY Zenon, <1>3 DEF Encode, ZFill
  <2>2. PICK m \in 1..6 : m = Len(Hex(v))
    BY Zenon, <1>1
  <2>3. ~ (m < 4)
    BY Zenon, <1>3, <2>2
  <2>4. m \in 4..6
    BY SMT, <2>3
  <2> QED
    BY Zenon, <2>1, <2>2, <2>4
<1> QED
  BY <1>2, <1>3

--------------------------------------------------------------------------------
(* The characters of a frame.                                               *)

(* Four for each number, which every frame has at least.                    *)
Slots(values) == (1..Len(values)) \X (1..4)

LEMMA Interval ==
  ASSUME NEW n \in Nat
  PROVE  IsFiniteSet(1..n) /\ Cardinality(1..n) = n
<1>1. IsFiniteSet(1..n) /\ Cardinality(1..n) = IF 1 > n THEN 0 ELSE n - 1 + 1
  BY FS_Interval
<1> QED
  BY SMT, <1>1

LEMMA Grid ==
  ASSUME NEW m \in Nat, NEW n \in Nat
  PROVE  IsFiniteSet((1..m) \X (1..n)) /\ Cardinality((1..m) \X (1..n)) = m * n
<1>1. /\ IsFiniteSet(1..m) /\ Cardinality(1..m) = m
      /\ IsFiniteSet(1..n) /\ Cardinality(1..n) = n
  BY Interval
<1> DEFINE S == 1..m
           T == 1..n
<1> HIDE DEF S, T
<1>2. IsFiniteSet(S \X T) /\ Cardinality(S \X T) = Cardinality(S) * Cardinality(T)
  BY Zenon, <1>1, FS_Product DEF S, T
<1> QED
  BY Zenon, <1>1, <1>2 DEF S, T

LEMMA FourToSix ==
  ASSUME NEW n \in 4..6
  PROVE  /\ \A j \in 1..4 : j \in 1..n
         /\ \A j \in 1..n : j \in 1..6
         /\ n # 4 => 5 \in 1..n
OBVIOUS

LEMMA Pairs ==
  ASSUME NEW S, NEW T, NEW d \in S \X T
  PROVE  \E i \in S : \E j \in T : d = <<i, j>>
OBVIOUS

LEMMA SlotsAreCharacters ==
  ASSUME NEW values \in Seq(Number)
  PROVE  /\ Len(values) \in Nat /\ DOMAIN values = 1..Len(values)
         /\ \A d : d \in Characters(values) <=>
              \E i \in DOMAIN values : \E j \in 1..Len(Encode(values[i])) : d = <<i, j>>
         /\ Slots(values) \subseteq Characters(values)
         /\ IsFiniteSet(Characters(values))
         /\ Cardinality(Slots(values)) = 4 * Len(values)
<1>1. Len(values) \in Nat /\ DOMAIN values = 1..Len(values)
  BY SMT
<1>2. \A i \in DOMAIN values : Len(Encode(values[i])) \in 4..6
  <2>1. \A i \in DOMAIN values : values[i] \in Number
    BY SMT
  <2> QED
    BY <2>1, EncodeLength
<1>3. \A d : d \in Characters(values) <=>
        \E i \in DOMAIN values : \E j \in 1..Len(Encode(values[i])) : d = <<i, j>>
  BY SMT DEF Characters
<1>4. ASSUME NEW i \in DOMAIN values
      PROVE  \A j \in 1..4 : j \in 1..Len(Encode(values[i]))
  BY Zenon, <1>2, FourToSix
<1>5. Slots(values) \subseteq Characters(values)
  <2> SUFFICES ASSUME NEW d \in Slots(values) PROVE d \in Characters(values)
    OBVIOUS
  <2>1. PICK i \in DOMAIN values, j \in 1..4 : d = <<i, j>>
    <3>1. d \in (DOMAIN values) \X (1..4)
      BY Zenon, <1>1 DEF Slots
    <3> QED
      BY <3>1
  <2> QED
    BY Zenon, <1>3, <1>4, <2>1
<1>6. IsFiniteSet((1..Len(values)) \X (1..6))
  BY <1>1, Grid
<1>7. Characters(values) \subseteq (1..Len(values)) \X (1..6)
  <2> SUFFICES ASSUME NEW d \in Characters(values)
               PROVE  d \in (1..Len(values)) \X (1..6)
    OBVIOUS
  <2>1. PICK i \in DOMAIN values : \E j \in 1..Len(Encode(values[i])) : d = <<i, j>>
    BY Zenon, <1>3
  <2>2. PICK j \in 1..6 : d = <<i, j>>
    BY Zenon, <1>2, <2>1, FourToSix
  <2> QED
    BY <1>1, <2>2
<1>8. IsFiniteSet(Characters(values))
  BY <1>6, <1>7, FS_Subset
<1>9. Cardinality(Slots(values)) = 4 * Len(values)
  <2>1. Cardinality(Slots(values)) = Len(values) * 4
    BY Zenon, <1>1, Grid, 4 \in Nat DEF Slots
  <2> QED
    BY SMT, <1>1, <2>1
<1> QED
  BY Zenon, <1>1, <1>3, <1>5, <1>8, <1>9

LEMMA FourEach ==
  ASSUME NEW values \in Seq(Number),
         \A i \in DOMAIN values : Len(Encode(values[i])) = 4
  PROVE  Characters(values) = Slots(values)
<1> SUFFICES ASSUME NEW d \in Characters(values) PROVE d \in Slots(values)
  BY SlotsAreCharacters
<1>1. PICK i \in DOMAIN values : \E j \in 1..Len(Encode(values[i])) : d = <<i, j>>
  <2>1. \A c \in Characters(values) :
          \E i \in DOMAIN values : \E j \in 1..Len(Encode(values[i])) : c = <<i, j>>
    BY SlotsAreCharacters
  <2> QED
    BY Zenon, <2>1
<1>2. PICK j \in 1..4 : d = <<i, j>>
  BY Zenon, <1>1
<1> QED
  BY <1>2, SlotsAreCharacters DEF Slots

(* The count of characters is right only if every number has four.          *)
LEMMA RightCount ==
  ASSUME NEW values \in Seq(Number)
  PROVE  Cardinality(Characters(values)) = 4 * Len(values)
           <=> \A i \in DOMAIN values : Len(Encode(values[i])) = 4
<1>1. ASSUME Cardinality(Characters(values)) = 4 * Len(values), NEW i \in DOMAIN values
      PROVE  Len(Encode(values[i])) = 4
  <2>1. Slots(values) = Characters(values)
    BY <1>1, SlotsAreCharacters, FS_Subset
  <2>2. Len(Encode(values[i])) \in 4..6
    BY SMT, EncodeLength
  <2>3. ASSUME Len(Encode(values[i])) # 4 PROVE FALSE
    <3>1. 5 \in 1..Len(Encode(values[i]))
      BY Zenon, <2>2, <2>3, FourToSix
    <3>2. <<i, 5>> \in Slots(values)
      BY Zenon, <2>1, <3>1, SlotsAreCharacters
    <3>3. 5 \in 1..4
      BY <3>2 DEF Slots
    <3> QED
      BY SMT, <3>3
  <2> QED
    BY <2>3
<1>2. ASSUME \A i \in DOMAIN values : Len(Encode(values[i])) = 4
      PROVE  Cardinality(Characters(values)) = 4 * Len(values)
  <2>1. Characters(values) = Slots(values)
    BY <1>2, FourEach
  <2> QED
    BY <2>1, SlotsAreCharacters
<1> QED
  BY <1>1, <1>2

(* What the PLC can count says how the numbers were written.                *)
LEMMA AcceptsDigits ==
  ASSUME NEW values \in Seq(Number)
  PROVE  Accepts(values) <=> \A i \in DOMAIN values : FourDigits(Encode(values[i]))
<1>1. ASSUME Accepts(values), NEW i \in DOMAIN values PROVE FourDigits(Encode(values[i]))
  <2>1. Len(Encode(values[i])) = 4
    BY <1>1, RightCount DEF Accepts
  <2>2. ASSUME NEW j \in 1..4 PROVE Encode(values[i])[j] \in Digit
    <3>1. <<i, j>> \in Characters(values)
      BY Zenon, <2>1, SlotsAreCharacters
    <3>2. <<i, j>>[1] = i /\ <<i, j>>[2] = j
      OBVIOUS
    <3> QED
      BY Zenon, <1>1, <3>1, <3>2 DEF Accepts
  <2> QED
    BY Zenon, <2>1, <2>2 DEF FourDigits
<1>2. ASSUME \A i \in DOMAIN values : FourDigits(Encode(values[i])) PROVE Accepts(values)
  <2>1. Cardinality(Characters(values)) = 4 * Len(values)
    BY <1>2, RightCount DEF FourDigits
  <2>2. ASSUME NEW d \in Characters(values) PROVE Encode(values[d[1]])[d[2]] \in Digit
    <3>0. PICK i \in DOMAIN values : \E j \in 1..Len(Encode(values[i])) : d = <<i, j>>
      BY SlotsAreCharacters
    <3>1. PICK j \in 1..Len(Encode(values[i])) : d = <<i, j>>
      BY Zenon, <3>0
    <3>2. d[1] = i /\ d[2] = j
      BY <3>1
    <3> QED
      BY Zenon, <1>2, <3>1, <3>2 DEF FourDigits
  <2> QED
    BY Zenon, <2>1, <2>2 DEF Accepts
<1> QED
  BY Zenon, <1>1, <1>2

(* Where the digits stand when every number has four.                       *)
LEMMA Positions ==
  ASSUME NEW values \in Seq(Number), Characters(values) = Slots(values),
         NEW i \in 1..Len(values), NEW j \in 1..4
  PROVE  Position(values, <<i, j>>) = 4 * (i - 1) + j
<1> DEFINE S == {c \in Slots(values) : NotAfter(c, <<i, j>>)}
           T == (1..i - 1) \X (1..4)
           U == {i} \X (1..j)
<1>0. Len(values) \in Nat /\ i \in Nat /\ j \in Nat /\ i - 1 \in Nat
  BY SMT
<1>1. S = T \cup U
  BY SMT, <1>0 DEF Slots, NotAfter
<1>2. T \cap U = {}
  BY SMT, <1>0
<1>3. IsFiniteSet(T) /\ Cardinality(T) = (i - 1) * 4
  BY Zenon, <1>0, Grid, 4 \in Nat
<1>4. IsFiniteSet(U) /\ Cardinality(U) = j
  <2>1. IsFiniteSet({i}) /\ Cardinality({i}) = 1
    BY FS_Singleton
  <2>2. IsFiniteSet(1..j) /\ Cardinality(1..j) = j
    BY <1>0, Interval
  <2>3. IsFiniteSet(U) /\ Cardinality(U) = Cardinality({i}) * Cardinality(1..j)
    BY <2>1, <2>2, FS_Product
  <2> QED
    BY SMT, <1>0, <2>1, <2>2, <2>3
<1> HIDE DEF S, T, U
<1>5. Cardinality(T \cap U) = 0
  BY <1>2, FS_EmptySet
<1>6. Cardinality(S) = Cardinality(T) + Cardinality(U) - Cardinality(T \cap U)
  BY <1>1, <1>3, <1>4, FS_Union
<1>7. Cardinality(S) = 4 * (i - 1) + j
  BY SMT, <1>0, <1>3, <1>4, <1>5, <1>6
<1> QED
  BY Zenon, <1>7 DEF S, Position

LEMMA OneCharacter ==
  ASSUME NEW values \in Seq(Number), Characters(values) = Slots(values),
         NEW i \in 1..Len(values), NEW j \in 1..4
  PROVE  CharacterAt(values, 4 * (i - 1) + j) = <<i, j>>
<1> DEFINE k == 4 * (i - 1) + j
<1>1. <<i, j>> \in Characters(values) /\ Position(values, <<i, j>>) = k
  BY Zenon, Positions DEF Slots
<1>2. ASSUME NEW d \in Characters(values), Position(values, d) = k PROVE d = <<i, j>>
  <2>1. PICK g \in 1..Len(values), h \in 1..4 : d = <<g, h>>
    BY Pairs DEF Slots
  <2>2. 4 * (g - 1) + h = 4 * (i - 1) + j
    BY Zenon, <1>2, <2>1, Positions
  <2>3. g \in Int /\ i \in Int
    BY SMT
  <2>4. g = i /\ h = j
    BY SMT, <2>2, <2>3
  <2> QED
    BY <2>1, <2>4
<1> HIDE DEF k
<1>3. (CHOOSE d \in Characters(values) : Position(values, d) = k) = <<i, j>>
  BY Zenon, <1>1, <1>2
<1> QED
  BY Zenon, <1>3 DEF CharacterAt, k

(* The four digits the PLC takes for a register are those of its number.    *)
LEMMA TakenInTurn ==
  ASSUME NEW values \in Seq(Number), Accepts(values), NEW r \in DOMAIN values
  PROVE  Taken(values, r) = Decode(Encode(values[r]))
<1>1. \A i \in DOMAIN values : Len(Encode(values[i])) = 4
  BY AcceptsDigits DEF FourDigits
<1>2. Characters(values) = Slots(values)
  BY <1>1, FourEach
<1>3. ASSUME NEW j \in 1..4
      PROVE  DigitAt(values, 4 * (r - 1) + j) = Encode(values[r])[j]
  <2>1. CharacterAt(values, 4 * (r - 1) + j) = <<r, j>>
    BY <1>2, OneCharacter, SlotsAreCharacters
  <2>2. <<r, j>>[1] = r /\ <<r, j>>[2] = j
    OBVIOUS
  <2> QED
    BY Zenon, <2>1, <2>2 DEF DigitAt
<1> DEFINE d == [j \in 1..4 |-> DigitAt(values, 4 * (r - 1) + j)]
           e == Encode(values[r])
<1>4. d[1] = e[1] /\ d[2] = e[2] /\ d[3] = e[3] /\ d[4] = e[4]
  <2>1. 1 \in 1..4 /\ 2 \in 1..4 /\ 3 \in 1..4 /\ 4 \in 1..4
    BY SMT
  <2> QED
    BY Zenon, <1>3, <2>1
<1> HIDE DEF d, e
<1>5. Decode(d) = Decode(e)
  BY <1>4 DEF Decode
<1> QED
  BY Zenon, <1>5 DEF Taken, d, e

(* A list is taken just when every number of it fits a register. *)
LEMMA AcceptsFits ==
  ASSUME NEW values \in Seq(Number)
  PROVE  Accepts(values) <=> Fits(values)
<1>1. ASSUME Accepts(values) PROVE Fits(values)
  <2> SUFFICES ASSUME NEW i \in DOMAIN values, values[i] \notin Word
               PROVE  FALSE
    BY Zenon DEF Fits
  <2>1. values[i] \in Number
    BY SMT
  <2>2. Len(Encode(values[i])) = 4 /\ \A j \in 1..4 : Encode(values[i])[j] \in Digit
    BY Zenon, <1>1, AcceptsDigits DEF FourDigits
  <2> QED
    BY Zenon, <2>1, <2>2, NoWord
<1>2. ASSUME Fits(values) PROVE Accepts(values)
  BY Zenon, <1>2, WordRoundTrip, AcceptsDigits DEF FourDigits, Fits
<1> QED
  BY Zenon, <1>1, <1>2

--------------------------------------------------------------------------------
(* The registers.                                                           *)

LEMMA Facts ==
  /\ Len(Lifts) \in Nat
  /\ DOMAIN Lifts = 1..Len(Lifts)
  /\ 1 \in DOMAIN Lifts
  /\ Length \in Nat \ {0}
  /\ Above \in Nat
  /\ \A values \in Lists : values \in Seq(Number) /\ Len(values) <= Length + Above
<1>1. Lifts \in Seq(LiftSet) /\ Lifts # <<>>
  BY SMT, ReverseAssumption
<1>2. \A values \in Lists : values \in Seq(Number) /\ Len(values) <= Length + Above
  BY SMT, ReverseAssumption
<1>3. Length \in Nat \ {0} /\ Above \in Nat
  BY SMT, ReverseAssumption
<1>4. Len(Lifts) \in Nat /\ DOMAIN Lifts = 1..Len(Lifts) /\ 1 \in DOMAIN Lifts
  BY SMT, <1>1
<1> QED
  BY SMT, <1>2, <1>3, <1>4

LEMMA ZeroFits ==
  /\ Zeros \in Seq(Number)
  /\ Len(Zeros) = Length
  /\ Fits(Zeros)
  /\ \A i \in DOMAIN Zeros : Zeros[i] = 0
<1>0. 0 \in Number
  <2>1. ASSUME NEW n \in Nat PROVE 0 \in (-n)..n
    BY SMT
  <2>2. Limit \in Nat
    BY SMT DEF Limit
  <2> QED
    BY Zenon, <2>1, <2>2 DEF Number
<1>1. 0 \in Word /\ 0 \in Number
  BY SMT, <1>0 DEF Word
<1> QED
  BY SMT, <1>1, Facts DEF Zeros, Fits

LEMMA SentAreNumbers ==
  ASSUME NEW values \in Lists \cup {Zeros}
  PROVE  values \in Seq(Number)
BY Zenon, Facts, ZeroFits

LEMMA ShownAsTaken ==
  ASSUME NEW values \in Lists \cup {Zeros}
  PROVE  /\ values \in DOMAIN Shown <=> Accepts(values)
         /\ values \in DOMAIN Shown =>
              \A r \in DOMAIN values : Shown[values][r] = Taken(values, r)
<1>1. DOMAIN Shown = {v \in Lists \cup {Zeros} : Accepts(v)}
  BY Zenon DEF Shown
<1>2. ASSUME values \in DOMAIN Shown
      PROVE  Shown[values] = [r \in DOMAIN values |-> Taken(values, r)]
  BY Zenon, <1>1, <1>2 DEF Shown
<1>3. ASSUME values \in DOMAIN Shown, NEW r \in DOMAIN values
      PROVE  Shown[values][r] = Taken(values, r)
  BY Zenon, <1>2, <1>3
<1> QED
  BY Zenon, <1>1, <1>3

(* What a send does to the registers: all of the list as it is, or nothing. *)
LEMMA SendIsWhole ==
  ASSUME NEW values \in Lists \cup {Zeros}, reg \in [Registers -> Word], Send(values)
  PROVE  /\ \/ /\ Fits(values)
               /\ \A r \in Registers : reg'[r] = IF r <= Len(values) THEN values[r] ELSE reg[r]
            \/ ~ Fits(values) /\ reg' = reg
         /\ reg' \in [Registers -> Word]
<1>0. values \in Seq(Number) /\ (values \in DOMAIN Shown <=> Accepts(values))
  BY Zenon, SentAreNumbers, ShownAsTaken
<1>1. CASE Accepts(values)
  <2>1. Fits(values)
    BY Zenon, <1>0, <1>1, AcceptsFits
  <2>2. reg' = Stored(values)
    BY Zenon, <1>0, <1>1 DEF Send
  <2>3. \A i \in DOMAIN values : values[i] \in Word /\ Shown[values][i] = values[i]
    <3>1. ASSUME NEW i \in DOMAIN values
          PROVE  values[i] \in Word /\ Shown[values][i] = values[i]
      <4>1. values[i] \in Word /\ Decode(Encode(values[i])) = values[i]
        BY Zenon, <2>1, WordRoundTrip DEF Fits
      <4>2. Taken(values, i) = Decode(Encode(values[i]))
        BY Zenon, <1>0, <1>1, TakenInTurn
      <4>3. Shown[values][i] = Taken(values, i)
        BY Zenon, <1>0, <1>1, ShownAsTaken
      <4> QED
        BY Zenon, <4>1, <4>2, <4>3
    <3> QED
      BY Zenon, <3>1
  <2>4. ASSUME NEW r \in Registers
        PROVE  reg'[r] = (IF r <= Len(values) THEN values[r] ELSE reg[r]) /\ reg'[r] \in Word
    <3>1. r \in Nat \ {0}
      BY SMT, Facts DEF Registers
    <3>2. r \in DOMAIN values <=> r <= Len(values)
      BY SMT, <1>0, <3>1
    <3>3. reg'[r] = IF r \in DOMAIN values THEN Shown[values][r] ELSE reg[r]
      BY Zenon, <2>2 DEF Stored
    <3>4. reg[r] \in Word
      BY Zenon
    <3> QED
      BY Zenon, <2>3, <3>2, <3>3, <3>4
  <2>5. reg' \in [Registers -> Word]
    <3>1. reg' = [r \in Registers |-> reg'[r]]
      BY Zenon, <2>2 DEF Stored
    <3> QED
      BY Zenon, <2>4, <3>1
  <2> QED
    BY Zenon, <2>1, <2>4, <2>5
<1>2. CASE ~ Accepts(values)
  <2>1. ~ Fits(values) /\ reg' = reg
    BY Zenon, <1>0, <1>2, AcceptsFits DEF Send
  <2> QED
    BY Zenon, <2>1
<1> QED
  BY Zenon, <1>1, <1>2

--------------------------------------------------------------------------------
(* A request in flight carries one of the lists.                            *)
InFlight == \A h \in Handlers : hpc[h] # "idle" => list[h] \in Lists

IInv == TypeOK /\ InFlight

LEMMA Initial ==
  ASSUME Init
  PROVE  IInv
<1>1. \A r \in Registers : reg[r] = 0
  BY Zenon DEF Init
<1>2. 0 \in Word
  BY SMT DEF Word
<1>3. TypeOK
  BY Zenon, <1>2, Facts DEF Init, TypeOK
<1>4. InFlight
  BY Zenon DEF Init, InFlight
<1> QED
  BY Zenon, <1>3, <1>4 DEF IInv

LEMMA NextLiftTyped ==
  ASSUME NextLift, lift \in DOMAIN Lifts
  PROVE  stage' = "docked" /\ lift' \in DOMAIN Lifts
BY SMT, Facts DEF NextLift

LEMMA RequireResetIsTyped ==
  ASSUME NEW b, RequireResetIs(b), lift \in DOMAIN Lifts
  PROVE  stage' \in {"docked", "wait"} /\ lift' \in DOMAIN Lifts
<1>1. CASE b
  BY Zenon, <1>1 DEF RequireResetIs
<1>2. CASE ~ b
  BY Zenon, <1>2, NextLiftTyped DEF RequireResetIs
<1> QED
  BY Zenon, <1>1, <1>2

(* A step that leaves the registers and the lists alone keeps the rest.     *)
LEMMA Untouched ==
  ASSUME IInv, UNCHANGED <<hpc, list>>, TypeOK'
  PROVE  IInv'
BY Zenon DEF IInv, InFlight

LEMMA ReportStep ==
  ASSUME IInv, NEW h \in Handlers, NEW values \in Lists, Report(h, values)
  PROVE  IInv'
<1>1. TypeOK'
  BY Zenon DEF Report, IInv, TypeOK, monitorVars
<1>2. InFlight'
  <2> SUFFICES ASSUME NEW g \in Handlers
               PROVE  hpc'[g] # "idle" => list'[g] \in Lists
    BY Zenon DEF InFlight
  <2>1. CASE g = h
    BY Zenon, <2>1 DEF Report, IInv, TypeOK
  <2>2. CASE g # h
    <3>1. list'[g] = list[g] /\ hpc'[g] = hpc[g]
      BY Zenon, <2>2 DEF Report, IInv, TypeOK
    <3> QED
      BY Zenon, <3>1 DEF Report, IInv, InFlight
  <2> QED
    BY Zenon, <2>1, <2>2
<1> QED
  BY Zenon, <1>1, <1>2 DEF IInv

LEMMA ApplyReportStep ==
  ASSUME IInv, NEW h \in Handlers, ApplyReport(h)
  PROVE  IInv' /\ WrittenAsIs(list[h])
<1>1. list[h] \in Lists /\ list[h] \in Lists \cup {Zeros}
  BY Zenon DEF ApplyReport, IInv, InFlight
<1>2. Send(list[h]) /\ reg \in [Registers -> Word]
  BY Zenon DEF ApplyReport, IInv, TypeOK
<1>3. /\ WrittenAsIs(list[h])
      /\ reg' \in [Registers -> Word]
  BY Zenon, <1>1, <1>2, SendIsWhole DEF WrittenAsIs
<1>4. TypeOK'
  <2>1. rest' \in BOOLEAN
    BY Zenon, <1>2 DEF Send, IInv, TypeOK
  <2> QED
    BY Zenon, <1>3, <2>1 DEF ApplyReport, IInv, TypeOK, monitorVars
<1>5. InFlight'
  <2> SUFFICES ASSUME NEW g \in Handlers
               PROVE  hpc'[g] # "idle" => list'[g] \in Lists
    BY Zenon DEF InFlight
  <2>1. list' = list /\ (g = h \/ hpc'[g] = hpc[g])
    BY Zenon DEF ApplyReport, IInv, TypeOK
  <2> QED
    BY Zenon, <1>1, <2>1 DEF IInv, InFlight
<1> QED
  BY Zenon, <1>3, <1>4, <1>5 DEF IInv

LEMMA ReportReturnsStep ==
  ASSUME IInv, NEW h \in Handlers, ReportReturns(h)
  PROVE  IInv'
<1>1. TypeOK'
  BY Zenon DEF ReportReturns, IInv, TypeOK, monitorVars
<1>2. InFlight'
  <2> SUFFICES ASSUME NEW g \in Handlers
               PROVE  hpc'[g] # "idle" => list'[g] \in Lists
    BY Zenon DEF InFlight
  <2>1. CASE g = h
    BY Zenon, <2>1 DEF ReportReturns, IInv, TypeOK
  <2>2. CASE g # h
    <3>1. list'[g] = list[g] /\ hpc'[g] = hpc[g]
      BY Zenon, <2>2 DEF ReportReturns, IInv, TypeOK
    <3> QED
      BY Zenon, <3>1 DEF ReportReturns, IInv, InFlight
  <2> QED
    BY Zenon, <2>1, <2>2
<1> QED
  BY Zenon, <1>1, <1>2 DEF IInv

LEMMA MonitorStep ==
  ASSUME IInv, ReadyDocking \/ RequireReset \/ Awake \/ ResetReturns
  PROVE  IInv'
<1>1. UNCHANGED <<reg, list, hpc, docked, stuck>>
  BY Zenon DEF ReadyDocking, RequireReset, Awake, ResetReturns, requestVars
<1>2. lift \in DOMAIN Lifts /\ stage \in {"docked", "read", "wait", "send", "sent"} /\ rest \in BOOLEAN
  BY Zenon DEF IInv, TypeOK
<1>3. /\ lift' \in DOMAIN Lifts
      /\ stage' \in {"docked", "read", "wait", "send", "sent"}
      /\ rest' \in BOOLEAN
  <2>1. CASE ReadyDocking
    <3>1. rest' \in BOOLEAN
      BY Zenon, <1>2, <2>1 DEF ReadyDocking, Misread
    <3>2. NextLift \/ (stage' = "read" /\ UNCHANGED lift)
      BY Zenon, <2>1 DEF ReadyDocking
    <3> QED
      BY Zenon, <1>2, <3>1, <3>2, NextLiftTyped
  <2>2. CASE RequireReset
    <3>1. PICK b : RequireResetIs(b)
      BY Zenon, <2>2 DEF RequireReset
    <3>2. rest' \in BOOLEAN
      BY Zenon, <1>2, <2>2 DEF RequireReset, Misread
    <3> QED
      BY Zenon, <1>2, <3>1, <3>2, RequireResetIsTyped
  <2>3. CASE Awake
    BY Zenon, <1>2, <2>3 DEF Awake
  <2>4. CASE ResetReturns
    BY Zenon, <1>2, <2>4, NextLiftTyped DEF ResetReturns
  <2> QED
    BY Zenon, <2>1, <2>2, <2>3, <2>4
<1>4. TypeOK'
  BY Zenon, <1>1, <1>3 DEF IInv, TypeOK
<1> QED
  BY Zenon, <1>1, <1>4, Untouched

LEMMA ApplyResetStep ==
  ASSUME IInv, ApplyReset
  PROVE  IInv'
<1>1. Send(Zeros) /\ reg \in [Registers -> Word]
  BY Zenon DEF ApplyReset, IInv, TypeOK
<1>2. /\ \A r \in Registers : reg'[r] = IF r <= Len(Zeros) THEN Zeros[r] ELSE reg[r]
      /\ reg' \in [Registers -> Word]
  BY Zenon, <1>1, ZeroFits, SendIsWhole
<1>3. TypeOK'
  <2>1. rest' \in BOOLEAN
    BY Zenon, <1>1 DEF Send, IInv, TypeOK
  <2> QED
    BY Zenon, <1>2, <2>1 DEF ApplyReset, IInv, TypeOK, requestVars
<1>4. InFlight'
  BY Zenon DEF ApplyReset, requestVars, IInv, InFlight
<1> QED
  BY Zenon, <1>3, <1>4 DEF IInv

LEMMA WorldStep ==
  ASSUME IInv, Connection \/ \E l \in LiftSet : MoveLift(l)
  PROVE  IInv'
<1>1. TypeOK'
  BY Zenon DEF Connection, Reopen, Stick, ConnectionEnds, MoveLift, IInv, TypeOK, monitorVars, requestVars
<1>2. UNCHANGED <<hpc, list>>
  BY Zenon DEF Connection, Reopen, Stick, ConnectionEnds, MoveLift, requestVars
<1> QED
  BY Zenon, <1>1, <1>2, Untouched

LEMMA Inductive ==
  ASSUME IInv, [Next]_vars
  PROVE  IInv'
<1>1. CASE MonitorClearSignal
  BY Zenon, <1>1, MonitorStep, ApplyResetStep DEF MonitorClearSignal
<1>2. CASE Request
  BY Zenon, <1>2, ReportStep, ApplyReportStep, ReportReturnsStep DEF Request
<1>3. CASE Connection \/ \E l \in LiftSet : MoveLift(l)
  BY Zenon, <1>3, WorldStep
<1>4. CASE UNCHANGED vars
  <2>1. UNCHANGED <<reg, docked, lift, stage, hpc, list, rest, stuck>>
    BY Zenon, <1>4 DEF vars, monitorVars, requestVars
  <2>2. TypeOK'
    BY Zenon, <2>1 DEF IInv, TypeOK
  <2> QED
    BY Zenon, <2>1, <2>2, Untouched
<1> QED
  BY Zenon, <1>1, <1>2, <1>3, <1>4 DEF Next

THEOREM Invariant == Spec => []IInv
<1>1. Init => IInv
  BY Zenon, Initial
<1>2. IInv /\ [Next]_vars => IInv'
  BY Zenon, Inductive
<1> QED
  BY <1>1, <1>2, PTL DEF Spec

(* Every variable has its declared shape; a register holds a word whatever  *)
(* numbers are reported.                                                    *)
THEOREM TypeInvariant == Spec => []TypeOK
<1>1. IInv => TypeOK
  BY Zenon DEF IInv
<1> QED
  BY <1>1, Invariant, PTL

(* Counting the characters of a frame is enough for the PLC to refuse every *)
(* list with a number that has not four digits, whatever lists are sent.    *)
THEOREM FramesAreWhole == Spec => []FrameLength
<1>1. IInv => FrameLength
  <2> SUFFICES ASSUME IInv, NEW h \in Handlers, hpc[h] \in {"send", "sent"}
               PROVE  list[h] \in DOMAIN Shown
                        <=> \A i \in DOMAIN list[h] : FourDigits(Encode(list[h][i]))
    BY Zenon DEF FrameLength
  <2>1. list[h] \in Lists \cup {Zeros}
    BY Zenon DEF IInv, InFlight
  <2> QED
    BY Zenon, <2>1, SentAreNumbers, ShownAsTaken, AcceptsDigits
<1> QED
  BY <1>1, Invariant, PTL

(* A list is written as it is or not at all, whatever numbers it has.       *)
THEOREM ListsAreWrittenAsTheyAre == Spec => AsItIs
<1>1. IInv => [\A h \in Handlers : ApplyReport(h) => WrittenAsIs(list[h])]_vars
  BY Zenon, ApplyReportStep
<1> QED
  BY <1>1, Invariant, PTL DEF AsItIs
================================================================================
