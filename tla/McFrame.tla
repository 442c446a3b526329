-------------------------------- MODULE McFrame --------------------------------
(***************************************************************************)
(* How AioMcClient.send_register writes numbers into a request and what    *)
(* the PLC makes of it.  hex(value)[2:].zfill(4) has four hexadecimal      *)
(* digits for 0..65535, more for what is larger; of hex(-1), "-0x1", it    *)
(* keeps the letter x.  A frame says how many numbers it carries, and the  *)
(* PLC takes four digits for each.                                         *)
(***************************************************************************)
EXTENDS Integers, Sequences, FiniteSets

Word    == 0..65535          \* what fits a register
Limit   == 1048575           \* of the model: five digits; Python's numbers have none
Number  == -Limit..Limit
Digit   == 0..15
LetterX == 16                \* the x of hex(), which is not a digit

\* 16^k for k \in 0..4
Power16(k) == IF k = 0 THEN 1 ELSE IF k = 1 THEN 16 ELSE IF k = 2 THEN 256
              ELSE IF k = 3 THEN 4096 ELSE 65536

Width(n) == IF n < 16 THEN 1 ELSE IF n < 256 THEN 2 ELSE IF n < 4096 THEN 3
            ELSE IF n < 65536 THEN 4 ELSE 5

\* hex(n)[2:] for n >= 0
HexDigits(n) == [i \in 1..Width(n) |-> (n \div Power16(Width(n) - i)) % 16]

\* hex(v)[2:]
Hex(v) == IF v >= 0 THEN HexDigits(v) ELSE <<LetterX>> \o HexDigits(-v)

ZFill(s) == IF Len(s) < 4 THEN [i \in 1..4 |-> IF i <= 4 - Len(s) THEN 0 ELSE s[i - (4 - Len(s))]]
                          ELSE s

\* mutant: hex(v)[2:]
EncodeUnpadded(v) == Hex(v)

Encode(v) == ZFill(Hex(v))

\* four digits of its own
FourDigits(s) == Len(s) = 4 /\ \A j \in 1..4 : s[j] \in Digit

(***************************************************************************)
(* External: the PLC sees the data of a frame as one row of characters.    *)
(* <<i, j>> is the j-th that Encode gives for the i-th number; the PLC,    *)
(* which does not know where one number ends, goes by positions: it        *)
(* refuses data that are not four digits for each number, and takes the    *)
(* digits of a register four by four.                                      *)
(***************************************************************************)
Characters(values) == UNION {{i} \X (1..Len(Encode(values[i]))) : i \in DOMAIN values}

NotAfter(c, d) == c[1] < d[1] \/ (c[1] = d[1] /\ c[2] <= d[2])

Position(values, d) == Cardinality({c \in Characters(values) : NotAfter(c, d)})

CharacterAt(values, k) == CHOOSE d \in Characters(values) : Position(values, d) = k

DigitAt(values, k) ==
  LET d == CharacterAt(values, k) IN Encode(values[d[1]])[d[2]]

Accepts(values) ==
  /\ Cardinality(Characters(values)) = 4 * Len(values)
  /\ \A d \in Characters(values) : Encode(values[d[1]])[d[2]] \in Digit

Decode(d) == 4096 * d[1] + 256 * d[2] + 16 * d[3] + d[4]

\* what it stores in the r-th register
Taken(values, r) == Decode([j \in 1..4 |-> DigitAt(values, 4 * (r - 1) + j)])
================================================================================
