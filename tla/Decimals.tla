------------------------------- MODULE Decimals -------------------------------
(***************************************************************************)
(* The exact decimals of src/orderbook.cpp: decimal() reads a wire text    *)
(* into a mantissa and a scale, rescale() and decimal_pair() bring the two *)
(* best prices, or the two best quantities, to one exponent.               *)
(*                                                                         *)
(* A text is a sequence of characters: its digits are themselves, Dot is   *)
(* the decimal point and Other stands for any other character.  The width  *)
(* of int64_t and int8_t are the constants MaxMantissa and MaxScale.       *)
(***************************************************************************)
EXTENDS Integers, Sequences

CONSTANTS
  MaxMantissa,  \* 2^63 - 1 in the code
  MaxScale,     \* 127 in the code
  Factors,      \* powers of ten in scale_factors, 19 in the code
  None          \* the exception

\* scale_factors: each power of ten is ten times the one before.
TenTo[k \in Nat] == IF k = 0 THEN 1 ELSE 10 * TenTo[k - 1]

ASSUME DecimalAssumption ==
  /\ MaxMantissa \in Nat /\ MaxMantissa >= 9
  /\ MaxScale \in Nat /\ Factors \in Nat \ {0}
  /\ \A k \in 0..Factors - 1 : TenTo[k] <= MaxMantissa
  /\ TenTo[Factors] > MaxMantissa

Dot == 10
Other == 11
Characters == 0..11

Amounts == [mantissa : Nat, scale : Nat, dot : BOOLEAN]
Exponents == {e \in Int : -e \in Nat}
Pairs == [bid : Nat, ask : Nat, exponent : Exponents]
ASSUME ExceptionAssumption == None \notin Nat \cup Amounts \cup Pairs

Start == [mantissa |-> 0, scale |-> 0, dot |-> FALSE]

OverflowsLate(mantissa, digit) == mantissa > MaxMantissa \div 10
Overflows(mantissa, digit) == mantissa > (MaxMantissa - digit) \div 10

\* One turn of the loop of decimal(): d is what the characters before i gave.
Read(d, text, i) ==
  LET c == text[i] IN
  IF d = None THEN None
  ELSE IF c = Dot /\ ~d.dot /\ i > 1 /\ i < Len(text) THEN [d EXCEPT !.dot = TRUE]
  ELSE IF c \notin 0..9 \/ Overflows(d.mantissa, c) \/ (d.dot /\ d.scale = MaxScale) THEN None
  ELSE [d EXCEPT !.mantissa = 10 * @ + c, !.scale = IF d.dot THEN @ + 1 ELSE @]

Decimal(text) ==
  LET read[i \in 0..Len(text)] == IF i = 0 THEN Start ELSE Read(read[i - 1], text, i)
  IN IF text = <<>> THEN None ELSE read[Len(text)]

Rescale(d, scale) ==
  LET delta == scale - d.scale IN
  IF delta = 0 \/ d.mantissa = 0 THEN d.mantissa
  ELSE IF delta >= Factors \/ d.mantissa > MaxMantissa \div TenTo[delta] THEN None
  ELSE d.mantissa * TenTo[delta]

Pair(bid, ask) ==
  IF bid = None \/ ask = None THEN None
  ELSE LET scale == IF bid.scale > ask.scale THEN bid.scale ELSE ask.scale
           b == Rescale(bid, scale)
           a == Rescale(ask, scale)
       IN IF b = None \/ a = None THEN None
          ELSE [bid |-> b, ask |-> a, exponent |-> -scale]

-----------------------------------------------------------------------------
(***************************************************************************)
(* What a text means, by the weight of its digits.                         *)
(***************************************************************************)
Dots(text) == {i \in DOMAIN text : text[i] = Dot}
WellFormed(text) ==
  /\ text # <<>>
  /\ \A i \in DOMAIN text : text[i] # Other
  /\ \A i, j \in Dots(text) : i = j
  /\ \A i \in Dots(text) : i > 1 /\ i < Len(text)

Places(text) ==
  IF Dots(text) = {} THEN 0 ELSE Len(text) - (CHOOSE i \in Dots(text) : TRUE)

\* The digit at i counts ten to the number of digits after it.
Digits(text) ==
  LET DigitsAfter(i) == Len(text) - i - (IF \E j \in Dots(text) : j > i THEN 1 ELSE 0)
      sum[i \in 0..Len(text)] ==
        IF i = 0 THEN 0
        ELSE sum[i - 1] + (IF text[i] = Dot THEN 0 ELSE text[i] * TenTo[DigitsAfter(i)])
  IN sum[Len(text)]

\* "no floating-point rounding on ingestion" (orderbook.hpp): a text is taken
\* exactly as written, or refused because it is no decimal or has more digits
\* than fit, trailing zeros included.
ReadsExactly(text) ==
  LET d == Decimal(text) IN
  IF WellFormed(text) /\ Digits(text) <= MaxMantissa /\ Places(text) <= MaxScale
  THEN d # None /\ d.mantissa = Digits(text) /\ d.scale = Places(text)
  ELSE d = None

\* Two decimals keep their values when they get one exponent, or are refused
\* because one of them would not fit.
PairsExactly(bid, ask) ==
  LET p == Pair(bid, ask)
      scale == IF bid.scale > ask.scale THEN bid.scale ELSE ask.scale
      Whole(d) == d.mantissa * TenTo[scale - d.scale]
  IN IF Whole(bid) <= MaxMantissa /\ Whole(ask) <= MaxMantissa
     THEN p = [bid |-> Whole(bid), ask |-> Whole(ask), exponent |-> -scale]
     ELSE p = None
=============================================================================
