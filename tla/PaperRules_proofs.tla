--------------------------- MODULE PaperRules_proofs ---------------------------
(***************************************************************************)
(* What the pure parts of paper mode compute, for every text, book, market *)
(* and order: decimals, fractions and the edge scan, the paths of a group, *)
(* the sizing of an order and its fill.  PaperTrading_proofs builds its    *)
(* invariants on these.                                                    *)
(***************************************************************************)
EXTENDS PaperTrading, Recursion_proofs, SequenceTheorems

(***************************************************************************)
(* Functions by recursion over an interval, as LET defines them.           *)
(***************************************************************************)
\* What holds of the first value and survives each step holds of all.
LEMMA StepsStay ==
  ASSUME NEW V, NEW n \in Nat, NEW f, f[0] \in V,
         \A i \in 1..n : f[i - 1] \in V => f[i] \in V
  PROVE  \A i \in 0..n : f[i] \in V
<1> DEFINE S == {i \in Nat : i <= n => f[i] \in V}
<1>1. 0 \in S
  OBVIOUS
<1>2. ASSUME NEW i \in Nat, i \in S PROVE i + 1 \in S
  <2>1. CASE i + 1 <= n
    <3>1. i + 1 \in 1..n /\ (i + 1) - 1 = i /\ f[i] \in V
      BY <1>2, <2>1
    <3> QED
      BY <3>1
  <2> QED
    BY <2>1
<1>3. Nat \subseteq S
  <2> HIDE DEF S
  <2> QED
    BY <1>1, <1>2, NatInduct
<1> QED
  BY <1>3

Steps(f, base, step, n) == f = [i \in 0..n |-> IF i = 0 THEN base ELSE step[<<i, f[i - 1]>>]]

\* A step function on an interval has its function by recursion.
LEMMA StepsExist ==
  ASSUME NEW V, NEW base \in V, NEW n \in Nat, NEW step \in [(1..n) \X V -> V]
  PROVE  \E f : Steps(f, base, step, n)
<1> DEFINE wide == [m \in Nat \X V |-> IF m[1] < n THEN step[<<m[1] + 1, m[2]>>] ELSE base]
<1>1. wide \in [Nat \X V -> V]
  <2>1. ASSUME NEW m \in Nat \X V, m[1] < n PROVE step[<<m[1] + 1, m[2]>>] \in V
    BY <2>1
  <2> QED
    BY <2>1
<1>2. PICK g \in [Nat -> V] : Follows(g, base, wide, Nat)
  <2> HIDE DEF wide
  <2> QED
    BY <1>1, RecursionExists
<1> DEFINE f == [i \in 0..n |-> g[i]]
<1>3. ASSUME NEW i \in 0..n
      PROVE  g[i] = IF i = 0 THEN base ELSE step[<<i, f[i - 1]>>]
  <2>1. CASE i = 0
    BY <1>2, <2>1 DEF Follows
  <2>2. CASE i # 0
    <3>1. i \in Nat /\ i - 1 \in 0..n /\ i - 1 \in Nat /\ i - 1 < n /\ f[i - 1] = g[i - 1]
      BY <2>2
    <3>2. g[i] = wide[<<i - 1, g[i - 1]>>]
      BY <1>2, <2>2, <3>1 DEF Follows
    <3>3. <<i - 1, g[i - 1]>> \in Nat \X V /\ (i - 1) + 1 = i
      BY <1>2, <3>1
    <3> QED
      BY <2>2, <3>1, <3>2, <3>3
  <2> QED
    BY <2>1, <2>2
<1>4. Steps(f, base, step, n)
  BY <1>3 DEF Steps
<1> QED
  BY <1>4

\* Each power of ten is ten times the one before.
LEMMA TenToNext == TenTo[0] = 1 /\ \A k \in Nat : TenTo[k + 1] = 10 * TenTo[k]
<1> DEFINE step == [m \in Nat \X Nat |-> 10 * m[2]]
<1>1. TenTo = [k \in Nat |-> IF k = 0 THEN 1 ELSE 10 * TenTo[k - 1]]
  <2>1. PICK g \in [Nat -> Nat] : Follows(g, 1, step, Nat)
    <3>1. step \in [Nat \X Nat -> Nat]
      OBVIOUS
    <3> HIDE DEF step
    <3> QED
      BY <3>1, RecursionExists
  <2>2. ASSUME NEW k \in Nat PROVE g[k] = IF k = 0 THEN 1 ELSE 10 * g[k - 1]
    <3>1. CASE k # 0
      <4>1. <<k - 1, g[k - 1]>> \in Nat \X Nat /\ k - 1 \in Nat
        BY <2>1, <3>1
      <4>2. g[k] = step[<<k - 1, g[k - 1]>>]
        BY <2>1, <3>1 DEF Follows
      <4> QED
        BY <3>1, <4>1, <4>2
    <3> QED
      BY <2>1, <3>1 DEF Follows
  <2>3. g = [k \in Nat |-> IF k = 0 THEN 1 ELSE 10 * g[k - 1]]
    BY <2>1, <2>2
  <2> QED
    BY <2>3 DEF TenTo
<1> QED
  BY <1>1

\* Powers of ten are positive.
LEMMA TenToPositive == \A k \in Nat : TenTo[k] \in Nat \ {0}
<1> DEFINE S == {k \in Nat : TenTo[k] \in Nat \ {0}}
<1>1. 0 \in S
  BY TenToNext
<1>2. ASSUME NEW k \in Nat, k \in S PROVE k + 1 \in S
  BY <1>2, TenToNext
<1>3. Nat \subseteq S
  <2> HIDE DEF S
  <2> QED
    BY <1>1, <1>2, NatInduct
<1> QED
  BY <1>3

\* A power of a sum is a product of powers.
LEMMA TenToSum == \A i, k \in Nat : TenTo[i + k] = TenTo[i] * TenTo[k]
<1> SUFFICES ASSUME NEW i \in Nat PROVE \A k \in Nat : TenTo[i + k] = TenTo[i] * TenTo[k]
  OBVIOUS
<1> DEFINE S == {k \in Nat : TenTo[i + k] = TenTo[i] * TenTo[k]}
<1>1. 0 \in S
  BY TenToNext, TenToPositive
<1>2. ASSUME NEW k \in Nat, k \in S PROVE k + 1 \in S
  <2>1. i + (k + 1) = (i + k) + 1 /\ i + k \in Nat
    OBVIOUS
  <2>2. TenTo[i + (k + 1)] = 10 * TenTo[i + k]
    BY <2>1, TenToNext
  <2>3. TenTo[k + 1] = 10 * TenTo[k]
    BY TenToNext
  <2>4. TenTo[i] \in Nat /\ TenTo[k] \in Nat
    BY TenToPositive
  <2>5. TenTo[i] * (10 * TenTo[k]) = 10 * (TenTo[i] * TenTo[k])
    BY <2>4
  <2> QED
    BY <1>2, <2>2, <2>3, <2>5
<1>3. Nat \subseteq S
  <2> HIDE DEF S
  <2> QED
    BY <1>1, <1>2, NatInduct
<1> QED
  BY <1>3

(***************************************************************************)
(* Decoding.                                                               *)
(***************************************************************************)
\* A decimal with another mantissa and scale.
LEMMA AmountWith ==
  \A d \in Amounts : \A m, s \in Nat : [d EXCEPT !.mantissa = m, !.scale = s] \in Amounts
BY DEF Amounts

\* What was read of a text, character by character.
Reading(text) ==
  CHOOSE read : read = [i \in 0..Len(text) |-> IF i = 0 THEN Start ELSE Read(read[i - 1], text, i)]

\* The characters of a text are read one after another.
LEMMA ReadingIs ==
  ASSUME NEW text \in Seq(Characters)
  PROVE  /\ Reading(text)[0] = Start
         /\ \A i \in 1..Len(text) : Reading(text)[i] = Read(Reading(text)[i - 1], text, i)
         /\ \A i \in 0..Len(text) : Reading(text)[i] \in Amounts \cup {None}
         /\ Decimal(text) = IF text = <<>> THEN None ELSE Reading(text)[Len(text)]
<1> DEFINE n == Len(text)
           V == Amounts \cup {None}
           step == [m \in (1..n) \X V |-> Read(m[2], text, m[1])]
           read == Reading(text)
<1>1. ASSUME NEW d \in V, NEW i \in 1..n PROVE Read(d, text, i) \in V
  <2>1. text[i] \in 0..11
    BY DEF Characters
  <2>2. CASE d = None
    BY <2>2 DEF Read
  <2>3. CASE d # None
    <3>1. d \in Amounts /\ d.mantissa \in Nat /\ d.scale \in Nat /\ d.dot \in BOOLEAN
      BY <2>3 DEF Amounts
    <3>2. [d EXCEPT !.dot = TRUE] \in Amounts
      BY <3>1 DEF Amounts
    <3>3. text[i] \in 0..9 =>
            [d EXCEPT !.mantissa = 10 * d.mantissa + text[i],
                      !.scale = IF d.dot THEN d.scale + 1 ELSE d.scale] \in Amounts
      <4> SUFFICES ASSUME text[i] \in 0..9
                   PROVE  [d EXCEPT !.mantissa = 10 * d.mantissa + text[i],
                                    !.scale = IF d.dot THEN d.scale + 1 ELSE d.scale] \in Amounts
        OBVIOUS
      <4>1. 10 * d.mantissa + text[i] \in Nat
        BY <3>1
      <4>2. (IF d.dot THEN d.scale + 1 ELSE d.scale) \in Nat
        BY <3>1
      <4> QED
        BY <3>1, <4>1, <4>2, AmountWith
    <3> QED
      BY <2>3, <3>2, <3>3, Zenon DEF Read
  <2> QED
    BY <2>2, <2>3
<1>2. read = [i \in 0..n |-> IF i = 0 THEN Start ELSE Read(read[i - 1], text, i)]
  <2>1. n \in Nat /\ Start \in V /\ step \in [(1..n) \X V -> V]
    <3>1. Start \in V /\ n \in Nat
      BY DEF Start, Amounts
    <3> HIDE DEF V, n, read
    <3> QED
      BY <1>1, <3>1
  <2>2a. PICK f : Steps(f, Start, step, n)
    <3> HIDE DEF V, n, step, read
    <3> QED
      BY <2>1, StepsExist
  <2>2. f = [i \in 0..n |-> IF i = 0 THEN Start ELSE step[<<i, f[i - 1]>>]]
    BY <2>2a DEF Steps
  <2>3. \A i \in 0..n : f[i] \in V
    <3>1. f[0] \in V /\ \A i \in 1..n : f[i] = step[<<i, f[i - 1]>>]
      <4> HIDE DEF V, n, step, read
      <4>1. 0 \in 0..n /\ \A i \in 1..n : i \in 0..n /\ i # 0
        BY <2>1
      <4> QED
        BY <2>1, <2>2, <4>1
    <3>2. \A i \in 1..n : f[i - 1] \in V => f[i] \in V
      <4> HIDE DEF V, n, step, read
      <4> QED
        BY <2>1, <3>1
    <3> HIDE DEF V, n, step, read
    <3> QED
      BY <2>1, <3>1, <3>2, StepsStay
  <2>4. f = [i \in 0..n |-> IF i = 0 THEN Start ELSE Read(f[i - 1], text, i)]
    <3>1. ASSUME NEW i \in 0..n, i # 0 PROVE step[<<i, f[i - 1]>>] = Read(f[i - 1], text, i)
      <4>1. i \in 1..n /\ f[i - 1] \in V
        BY <2>1, <2>3, <3>1
      <4> HIDE DEF V, n, read
      <4> QED
        BY <4>1
    <3> HIDE DEF V, n, step, read
    <3> QED
      BY <2>2, <3>1
  <2> QED
    BY <2>4 DEF Reading
<1>3. \A i \in 0..n : read[i] \in V
  <2>1. n \in Nat /\ read[0] \in V
    <3>1. n \in Nat /\ 0 \in 0..n
      OBVIOUS
    <3>2. read[0] = Start
      <4> HIDE DEF read, n
      <4> QED
        BY <1>2, <3>1
    <3>3. Start \in V
      BY DEF Start, Amounts
    <3> HIDE DEF read, n, V
    <3> QED
      BY <3>1, <3>2, <3>3
  <2>2. ASSUME NEW i \in 1..n, read[i - 1] \in V PROVE read[i] \in V
    <3>1. read[i] = Read(read[i - 1], text, i)
      <4> HIDE DEF read
      <4> QED
        BY <1>2, <2>1
    <3> HIDE DEF read, V, n
    <3> QED
      BY <1>1, <2>2, <3>1
  <2> HIDE DEF read, V, n
  <2> QED
    BY <2>1, <2>2, StepsStay
<1>4. Decimal(text) = IF text = <<>> THEN None ELSE read[n]
  BY DEF Decimal, Reading
<1>5. n \in Nat /\ 0 \in 0..n /\ \A i \in 1..n : i \in 0..n /\ i # 0
  OBVIOUS
<1> HIDE DEF n, read
<1>6. read[0] = Start /\ \A i \in 1..n : read[i] = Read(read[i - 1], text, i)
  BY <1>2, <1>5
<1> QED
  BY <1>3, <1>4, <1>6 DEF n, read

\* A text is read as a decimal or refused.
LEMMA DecimalTypes ==
  ASSUME NEW text \in Seq(Characters)
  PROVE  Decimal(text) \in Amounts \cup {None}
<1>1. Len(text) \in Nat /\ Len(text) \in 0..Len(text)
  OBVIOUS
<1> QED
  BY <1>1, ReadingIs

\* A decimal brought to a larger scale keeps its range or is refused.
LEMMA RescaleTypes ==
  ASSUME NEW d \in Amounts, NEW scale \in Nat, scale >= d.scale
  PROVE  Rescale(d, scale) \in Nat \cup {None}
<1> DEFINE delta == scale - d.scale
<1>1. delta \in Nat /\ d.mantissa \in Nat
  BY DEF Amounts
<1>2. TenTo[delta] \in Nat
  BY <1>1, TenToPositive
<1>3. d.mantissa * TenTo[delta] \in Nat
  BY <1>1, <1>2
<1> QED
  BY <1>1, <1>3, Zenon DEF Rescale

\* Two decimals get one exponent or are refused.
LEMMA PairTypes ==
  ASSUME NEW bid \in Amounts \cup {None}, NEW ask \in Amounts \cup {None}
  PROVE  Pair(bid, ask) \in Pairs \cup {None}
<1>1. CASE bid = None \/ ask = None
  BY <1>1 DEF Pair
<1>2. CASE bid # None /\ ask # None
  <2> DEFINE scale == IF bid.scale > ask.scale THEN bid.scale ELSE ask.scale
  <2>1. bid \in Amounts /\ ask \in Amounts
    BY <1>2
  <2>2. scale \in Nat /\ scale >= bid.scale /\ scale >= ask.scale
    BY <2>1 DEF Amounts
  <2> HIDE DEF scale
  <2> DEFINE b == Rescale(bid, scale)
             a == Rescale(ask, scale)
  <2>3. b \in Nat \cup {None} /\ a \in Nat \cup {None}
    BY <2>1, <2>2, RescaleTypes
  <2>4. -scale \in Exponents
    BY <2>2 DEF Exponents
  <2>5. Pair(bid, ask) = IF b = None \/ a = None THEN None
                         ELSE [bid |-> b, ask |-> a, exponent |-> -scale]
    BY <1>2 DEF Pair, scale
  <2> HIDE DEF a, b
  <2> QED
    BY <2>3, <2>4, <2>5 DEF Pairs
<1> QED
  BY <1>1, <1>2

\* A message becomes a book or is refused.
LEMMA DecodeTypes ==
  ASSUME NEW message \in Messages
  PROVE  /\ Decode(message) \in BookTypes \cup {None}
         /\ Decode(message) # None => Decode(message).id = message.id
<1> DEFINE price == Pair(Decimal(message.bid), Decimal(message.ask))
           qty == Pair(Decimal(message.bid_qty), Decimal(message.ask_qty))
<1>1. price \in Pairs \cup {None} /\ qty \in Pairs \cup {None} /\ message.id \in Nat
  <2>1. /\ message.bid \in Seq(Characters) /\ message.ask \in Seq(Characters)
        /\ message.bid_qty \in Seq(Characters) /\ message.ask_qty \in Seq(Characters)
        /\ message.id \in Nat
    BY DEF Messages
  <2> QED
    BY <2>1, DecimalTypes, PairTypes
<1>2. Decode(message) =
        IF ~message.shape \/ price = None \/ qty = None THEN None
        ELSE [id |-> message.id,
              bid |-> price.bid, ask |-> price.ask, price_exponent |-> price.exponent,
              bid_qty |-> qty.bid, ask_qty |-> qty.ask, qty_exponent |-> qty.exponent]
  BY DEF Decode
<1> HIDE DEF price, qty
<1> QED
  BY <1>1, <1>2 DEF BookTypes, Pairs

\* A quotient by a positive number.
LEMMA QuotientTypes ==
  \A m \in Nat : \A n \in Nat \ {0} :
    m \div n \in Nat /\ n * (m \div n) <= m /\ m < n * (m \div n + 1) /\ m % n \in 0..n - 1
    /\ m = n * (m \div n) + (m % n)
OBVIOUS

\* What the levels of a book say in the units of orders.
LEMMA LevelTypes ==
  ASSUME NEW book \in BookTypes, NEW buy \in BOOLEAN
  PROVE  /\ BestPrice(book, buy) \in Nat /\ BestQty(book, buy) \in Nat
         /\ TenTo[-book.price_exponent] \in Nat \ {0} /\ TenTo[-book.qty_exponent] \in Nat \ {0}
         /\ Price(book, buy) \in Nat /\ Liquidity(book, buy) \in Nat
<1>1. BestPrice(book, buy) \in Nat /\ BestQty(book, buy) \in Nat
  BY DEF BookTypes, BestPrice, BestQty
<1>2. TenTo[-book.price_exponent] \in Nat \ {0} /\ TenTo[-book.qty_exponent] \in Nat \ {0}
  <2>1. -book.price_exponent \in Nat /\ -book.qty_exponent \in Nat
    BY DEF BookTypes, Exponents
  <2> QED
    BY <2>1, TenToPositive
<1>3. BestPrice(book, buy) * PriceUnit \in Nat /\ BestQty(book, buy) * AssetUnit \in Nat
  BY <1>1, UnitAssumption
<1>4. Price(book, buy) \in Nat /\ Liquidity(book, buy) \in Nat
  BY <1>2, <1>3, QuotientTypes DEF Price, Liquidity
<1> QED
  BY <1>1, <1>2, <1>4

(***************************************************************************)
(* Fractions.                                                              *)
(***************************************************************************)
Reduced(p) == <<p[2], p[1] % p[2]>>
GcdBy(f, p) == IF p[2] = 0 THEN p[1] ELSE f[Reduced(p)]
SettledAt(f, n) == \A p \in Nat \X Nat : p[2] <= n => f[n][p] = f[p[2]][p]
GcdEquation(f) == f = [p \in Nat \X Nat |-> GcdBy(f, p)]

\* A step of Euclid's makes the second number smaller.
LEMMA ReducedTypes ==
  ASSUME NEW p \in Nat \X Nat, p[2] # 0
  PROVE  Reduced(p) \in Nat \X Nat /\ Reduced(p)[2] \in 0..p[2] - 1 /\ p[2] - 1 \in Nat
<1> DEFINE a == p[1]
           b == p[2]
<1>1. a \in Nat /\ b \in Nat \ {0}
  OBVIOUS
<1>2. a % b \in 0..b - 1 /\ Reduced(p) = <<b, a % b>> /\ b - 1 \in Nat
  <2>1. Reduced(p) = <<b, a % b>>
    BY DEF Reduced
  <2> HIDE DEF a, b
  <2> QED
    BY <1>1, <2>1, QuotientTypes
<1> HIDE DEF a, b
<1>3. Reduced(p) \in Nat \X Nat /\ Reduced(p)[2] \in 0..b - 1 /\ b - 1 \in Nat
  BY <1>1, <1>2
<1> QED
  BY <1>3 DEF b

\* Euclid's recursion has its function: after n steps it is right for every
\* pair whose second number is less than n.
LEMMA GcdExists == \E f : GcdEquation(f) /\ f \in [Nat \X Nat -> Nat]
<1> DEFINE V == [Nat \X Nat -> Nat]
           base == [p \in Nat \X Nat |-> p[1]]
           Better(f) == [p \in Nat \X Nat |-> GcdBy(f, p)]
           step == [m \in Nat \X V |-> Better(m[2])]
<1>1. ASSUME NEW f \in V PROVE Better(f) \in V
  <2>1. ASSUME NEW p \in Nat \X Nat PROVE GcdBy(f, p) \in Nat
    <3>1. p[1] \in Nat /\ p[2] \in Nat
      OBVIOUS
    <3>2. p[2] # 0 => Reduced(p) \in Nat \X Nat
      BY ReducedTypes
    <3> QED
      BY <3>1, <3>2 DEF GcdBy
  <2> QED
    BY <2>1
<1>2. base \in V /\ step \in [Nat \X V -> V]
  <2>1. base \in V
    OBVIOUS
  <2>2. ASSUME NEW m \in Nat \X V PROVE Better(m[2]) \in V
    <3>1. m[2] \in V
      OBVIOUS
    <3> HIDE DEF V, Better
    <3> QED
      BY <1>1, <3>1
  <2> HIDE DEF V, Better, base
  <2> QED
    BY <2>1, <2>2
<1>3. PICK f \in [Nat -> V] : Follows(f, base, step, Nat)
  <2> HIDE DEF V, base, step
  <2> QED
    BY <1>2, RecursionExists
<1>4. f[0] = base /\ \A n \in Nat : n # 0 => f[n] = Better(f[n - 1])
  <2>1. ASSUME NEW n \in Nat, n # 0 PROVE step[<<n - 1, f[n - 1]>>] = Better(f[n - 1])
    <3>1. n - 1 \in Nat /\ f[n - 1] \in V
      BY <1>3, <2>1
    <3> HIDE DEF V, Better
    <3> QED
      BY <3>1
  <2> HIDE DEF V, base, step, Better
  <2> QED
    BY <1>3, <2>1 DEF Follows
<1>5. \A n \in Nat : f[n] \in V
  <2> HIDE DEF V
  <2> QED
    BY <1>3
\* Nothing changes once there are more steps than the second number.
<1>6. ASSUME NEW n \in Nat PROVE SettledAt(f, n)
  <2> DEFINE S == {k \in Nat : \A j \in 0..k : SettledAt(f, j)}
  <2>1. 0 \in S
    <3>1. \A p \in Nat \X Nat : p[2] <= 0 => p[2] = 0
      OBVIOUS
    <3> QED
      BY <3>1 DEF SettledAt
  <2>2. ASSUME NEW k \in Nat, k \in S PROVE k + 1 \in S
    <3>1. ASSUME NEW p \in Nat \X Nat, p[2] <= k + 1, p[2] # k + 1
          PROVE  f[k + 1][p] = f[p[2]][p]
      <4> DEFINE b == p[2]
                 q == Reduced(p)
      <4>1. b \in Nat /\ b <= k
        BY <3>1
      <4>2. f[k + 1] = Better(f[k])
        <5>1. k + 1 \in Nat /\ k + 1 # 0 /\ (k + 1) - 1 = k
          OBVIOUS
        <5> HIDE DEF Better, V, base, step
        <5> QED
          BY <1>4, <5>1
      <4>3. CASE b = 0
        BY <1>4, <4>2, <4>3 DEF GcdBy
      <4>4. CASE b # 0
        <5>1. q \in Nat \X Nat /\ q[2] \in Nat /\ q[2] <= b - 1 /\ b - 1 \in Nat
          <6>1. p[2] # 0
            BY <4>4
          <6>2. q \in Nat \X Nat /\ q[2] \in 0..p[2] - 1 /\ p[2] - 1 \in Nat
            BY <6>1, ReducedTypes
          <6> HIDE DEF q
          <6> QED
            BY <6>2
        <5>2. SettledAt(f, k) /\ SettledAt(f, b - 1)
          BY <2>2, <4>1, <5>1
        <5>3. f[k][q] = f[q[2]][q] /\ f[b - 1][q] = f[q[2]][q]
          <6> HIDE DEF q, V, base, step, b
          <6> QED
            BY <4>1, <5>1, <5>2 DEF SettledAt
        <5>4. f[b] = Better(f[b - 1])
          BY <1>4, <4>1, <4>4
        <5>5. f[k + 1][p] = f[k][q] /\ f[b][p] = f[b - 1][q]
          BY <4>2, <4>4, <5>4 DEF GcdBy
        <5> QED
          BY <5>3, <5>5
      <4> QED
        BY <4>3, <4>4
    <3>2. SettledAt(f, k + 1)
      BY <3>1 DEF SettledAt
    <3>3. \A j \in 0..k + 1 : j = k + 1 \/ j \in 0..k
      OBVIOUS
    <3> QED
      BY <2>2, <3>2, <3>3
  <2> HIDE DEF S
  <2>3. Nat \subseteq S
    BY <2>1, <2>2, NatInduct
  <2> QED
    <3>1. n \in S /\ n \in 0..n
      BY <2>3
    <3> QED
      BY <3>1 DEF S
<1> DEFINE h == [p \in Nat \X Nat |-> f[p[2]][p]]
<1>7. h \in [Nat \X Nat -> Nat]
  <2>1. ASSUME NEW p \in Nat \X Nat PROVE f[p[2]][p] \in Nat
    BY <1>5
  <2> QED
    BY <2>1
<1>8. ASSUME NEW p \in Nat \X Nat PROVE h[p] = GcdBy(h, p)
  <2> DEFINE b == p[2]
             q == Reduced(p)
  <2>1. b \in Nat /\ p[1] \in Nat
    OBVIOUS
  <2>2. CASE b = 0
    BY <1>4, <2>2 DEF GcdBy
  <2>3. CASE b # 0
    <3>1. q \in Nat \X Nat /\ q[2] \in 0..b - 1 /\ b - 1 \in Nat
      BY <2>3, ReducedTypes
    <3>2. f[b - 1][q] = f[q[2]][q]
      <4> HIDE DEF q, b, V, base, step
      <4> QED
        BY <1>6, <3>1 DEF SettledAt
    <3>3. f[b] = Better(f[b - 1])
      BY <1>4, <2>1, <2>3
    <3>4. h[p] = f[b - 1][q]
      BY <2>3, <3>3 DEF GcdBy
    <3> QED
      BY <2>3, <3>1, <3>2, <3>4 DEF GcdBy
  <2> QED
    BY <2>2, <2>3
<1>9. GcdEquation(h)
  BY <1>8 DEF GcdEquation
<1> HIDE DEF h
<1> QED
  BY <1>7, <1>9

\* The greatest common divisor the fractions divide by is positive and no
\* larger than either number.
LEMMA GcdIs ==
  \E f : /\ GcdEquation(f)
         /\ \A m, n \in Nat : Gcd(m, n) = f[<<m, n>>]
<1> DEFINE g == CHOOSE g : GcdEquation(g)
<1>1. \A m, n \in Nat : Gcd(m, n) = g[<<m, n>>]
  BY DEF Gcd, GcdEquation, GcdBy, Reduced
<1> QED
  BY <1>1, GcdExists

\* A product grows with its second factor.
LEMMA ProductGrows ==
  ASSUME NEW p \in Nat, NEW x \in Nat, NEW y \in Nat, x <= y
  PROVE  p * x <= p * y
<1>1. PICK d \in Nat : y = x + d
  <2>1. y - x \in Nat /\ y = x + (y - x)
    OBVIOUS
  <2> QED
    BY <2>1
<1>2. p * y = p * x + p * d /\ p * d \in Nat /\ p * x \in Nat
  BY <1>1
<1> QED
  BY <1>2

\* A product divided by one of its factors is the other.
LEMMA ExactQuotient ==
  ASSUME NEW g \in Nat \ {0}, NEW j \in Nat
  PROVE  (g * j) \div g = j
<1> DEFINE x == (g * j) \div g
<1>1. g * j \in Nat
  OBVIOUS
<1>2. x \in Nat /\ g * x <= g * j /\ g * j < g * (x + 1)
  <2> HIDE DEF x
  <2> QED
    BY <1>1, QuotientTypes DEF x
<1> HIDE DEF x
<1>3. CASE x < j
  <2>1. g * (x + 1) <= g * j
    BY <1>2, <1>3, ProductGrows
  <2>2. g * (x + 1) \in Nat
    BY <1>2
  <2> QED
    BY <1>1, <1>2, <2>1, <2>2
<1>4. CASE x > j
  <2>1. g * (j + 1) <= g * x
    BY <1>2, <1>4, ProductGrows
  <2>2. g * (j + 1) = g * j + g /\ g * x \in Nat
    BY <1>2
  <2> QED
    BY <1>1, <1>2, <2>1, <2>2
<1>5. x = j
  BY <1>2, <1>3, <1>4
<1> QED
  BY <1>5 DEF x

\* g divides both numbers of a pair.
Divides(g, p) == g \in Nat \ {0} /\ \E j, k \in Nat : p[1] = g * j /\ p[2] = g * k

\* Euclid's recursion ends with a common divisor, unless both numbers are zero.
LEMMA GcdDivides ==
  ASSUME NEW f, GcdEquation(f), NEW p \in Nat \X Nat, p[1] # 0 \/ p[2] # 0
  PROVE  Divides(f[p], p)
<1> DEFINE Good(q) == q[1] # 0 \/ q[2] # 0 => Divides(f[q], q)
           S == {n \in Nat : \A q \in Nat \X Nat : q[2] <= n => Good(q)}
<1>1. ASSUME NEW q \in Nat \X Nat, q[2] = 0 PROVE Good(q)
  <2> SUFFICES ASSUME q[1] # 0 PROVE Divides(f[q], q)
    BY <1>1
  <2>1. f[q] = q[1]
    BY <1>1 DEF GcdEquation, GcdBy
  <2>2. q[1] \in Nat \ {0} /\ q[1] = q[1] * 1 /\ q[2] = q[1] * 0
    BY <1>1
  <2> QED
    BY <2>1, <2>2 DEF Divides
<1>2. ASSUME NEW q \in Nat \X Nat, q[2] # 0, Good(Reduced(q)) PROVE Good(q)
  <2> DEFINE a == q[1]
             b == q[2]
             g == f[q]
  <2>1. a \in Nat /\ b \in Nat \ {0}
    BY <1>2
  <2>2. g = f[Reduced(q)]
    BY <1>2 DEF GcdEquation, GcdBy
  <2>3. Reduced(q)[1] = b /\ Reduced(q)[2] = a % b
    BY DEF Reduced
  <2>4. Divides(g, Reduced(q))
    <3> HIDE DEF g
    <3> QED
      BY <1>2, <2>1, <2>2, <2>3
  <2> HIDE DEF g, a, b
  <2>5. PICK j \in Nat, k \in Nat : b = g * j /\ a % b = g * k
    BY <2>3, <2>4 DEF Divides
  <2> DEFINE c == a \div b
  <2>6. c \in Nat /\ a = b * c + (a % b)
    <3> HIDE DEF c
    <3> QED
      BY <2>1, QuotientTypes DEF c
  <2> HIDE DEF c
  <2>7. g \in Nat \ {0}
    BY <2>4 DEF Divides
  <2>8. a = g * (j * c + k) /\ j * c + k \in Nat
    <3>1. (g * j) * c = g * (j * c) /\ j * c \in Nat
      BY <2>5, <2>6, <2>7
    <3>2. g * (j * c + k) = g * (j * c) + g * k
      BY <3>1, <2>5, <2>7
    <3> QED
      BY <2>5, <2>6, <3>1, <3>2
  <2>9. Divides(g, q)
    BY <2>5, <2>7, <2>8 DEF Divides, a, b
  <2> QED
    BY <2>9 DEF g
<1>3. 0 \in S
  BY <1>1
<1>4. ASSUME NEW n \in Nat, n \in S PROVE n + 1 \in S
  <2>1. ASSUME NEW q \in Nat \X Nat, q[2] <= n + 1 PROVE Good(q)
    <3>1. CASE q[2] = 0
      BY <1>1, <3>1
    <3>2. CASE q[2] # 0
      <4>1. Reduced(q) \in Nat \X Nat /\ Reduced(q)[2] <= n
        <5>1. Reduced(q) \in Nat \X Nat /\ Reduced(q)[2] \in 0..q[2] - 1 /\ q[2] - 1 \in Nat
          BY <3>2, ReducedTypes
        <5> QED
          BY <2>1, <5>1
      <4>2. Good(Reduced(q))
        <5> HIDE DEF Good
        <5> QED
          BY <1>4, <4>1
      <4> HIDE DEF Good
      <4> QED
        BY <1>2, <3>2, <4>2
    <3> HIDE DEF Good
    <3> QED
      BY <3>1, <3>2
  <2> HIDE DEF Good
  <2> QED
    BY <2>1
<1>5. p[2] \in S
  <2> HIDE DEF S
  <2>1. Nat \subseteq S
    BY <1>3, <1>4, NatInduct
  <2> QED
    BY <2>1
<1>6. Good(p)
  <2> HIDE DEF Good
  <2> QED
    BY <1>5
<1> QED
  BY <1>6

\* A fraction is reduced by a common divisor and stays what it was.
LEMMA FractionIs ==
  ASSUME NEW m \in Nat \ {0}, NEW n \in Nat \ {0}
  PROVE  /\ Fraction(m, n) \in Positive
         /\ \E g \in Nat \ {0} : m = g * Fraction(m, n).n /\ n = g * Fraction(m, n).d
<1>1. PICK f : GcdEquation(f) /\ \A a, b \in Nat : Gcd(a, b) = f[<<a, b>>]
  BY GcdIs
<1> DEFINE g == Gcd(m, n)
<1>2. g \in Nat \ {0} /\ \E j, k \in Nat : m = g * j /\ n = g * k
  <2>1. Divides(f[<<m, n>>], <<m, n>>)
    BY <1>1, GcdDivides
  <2>2. g = f[<<m, n>>]
    BY <1>1
  <2> HIDE DEF g
  <2> QED
    BY <2>1, <2>2 DEF Divides
<1>3. Fraction(m, n) = [n |-> m \div g, d |-> n \div g]
  BY DEF Fraction
<1> HIDE DEF g
<1>4. PICK j \in Nat, k \in Nat : m = g * j /\ n = g * k
  BY <1>2
<1>5. j # 0 /\ k # 0
  BY <1>2, <1>4
<1>6. m \div g = j /\ n \div g = k
  BY <1>2, <1>4, ExactQuotient
<1>7. Fraction(m, n) = [n |-> j, d |-> k]
  BY <1>3, <1>6
<1>8. Fraction(m, n) \in Positive
  BY <1>5, <1>7 DEF Positive
<1>9. Fraction(m, n).n = j /\ Fraction(m, n).d = k
  BY <1>7
<1> QED
  BY <1>2, <1>4, <1>8, <1>9

\* Products, quotients and minima of positive fractions are such fractions.
LEMMA FractionTypes ==
  ASSUME NEW x \in Positive, NEW y \in Positive
  PROVE  Times(x, y) \in Positive /\ Over(x, y) \in Positive /\ Least(x, y) \in Positive
<1>1. x.n \in Nat \ {0} /\ x.d \in Nat \ {0} /\ y.n \in Nat \ {0} /\ y.d \in Nat \ {0}
  BY DEF Positive
<1>2. /\ x.n * y.n \in Nat \ {0} /\ x.d * y.d \in Nat \ {0}
      /\ x.n * y.d \in Nat \ {0} /\ x.d * y.n \in Nat \ {0}
  BY <1>1
<1>3. Times(x, y) \in Positive /\ Over(x, y) \in Positive
  BY <1>2, FractionIs DEF Times, Over
<1> QED
  BY <1>3 DEF Least

(***************************************************************************)
(* Scanning.                                                               *)
(***************************************************************************)
Books == [Symbols -> BookTypes \cup {None}]

\* A level that is not empty has a positive price and quantity.
LEMMA QuoteTypes ==
  ASSUME NEW book \in BookTypes, NEW buy \in BOOLEAN
  PROVE  /\ BestPrice(book, buy) # 0 => Rate(book, buy) \in Positive
         /\ BestQty(book, buy) # 0 => Shown(book, buy) \in Positive
BY LevelTypes, FractionIs DEF Rate, Shown

\* One leg more adds one price and one quantity, or ends the scan.
LEMMA ScanLegTypes ==
  ASSUME NEW scan \in Scans \cup {None}, NEW book \in BookTypes \cup {None}, NEW buy \in BOOLEAN
  PROVE  /\ ScanLeg(scan, book, buy) \in Scans \cup {None}
         /\ ScanLeg(scan, book, buy) # None =>
              /\ scan # None
              /\ Len(ScanLeg(scan, book, buy).prices) = Len(scan.prices) + 1
              /\ Len(ScanLeg(scan, book, buy).quantities) = Len(scan.quantities) + 1
<1>1. CASE scan = None \/ book = None
  BY <1>1 DEF ScanLeg
<1>2. CASE ~(scan = None \/ book = None) /\ (BestPrice(book, buy) = 0 \/ BestQty(book, buy) = 0)
  BY <1>2 DEF ScanLeg
<1>3. CASE ~(scan = None \/ book = None) /\ ~(BestPrice(book, buy) = 0 \/ BestQty(book, buy) = 0)
  <2> DEFINE rate == Rate(book, buy)
             base_qty == IF buy THEN Over(scan.output, rate) ELSE scan.output
             received == IF buy THEN base_qty ELSE Times(base_qty, rate)
             limit == InputLimit(scan, Shown(book, buy), base_qty)
             output == Times(received, FeeMultiplier)
  <2>1. scan \in Scans /\ book \in BookTypes
    BY <1>3
  <2>2. rate \in Positive /\ Shown(book, buy) \in Positive
    BY <1>3, <2>1, QuoteTypes
  <2>3. /\ scan.output \in Positive /\ scan.limit \in Positive
        /\ scan.prices \in Seq(Positive) /\ scan.quantities \in Seq(Positive)
    BY <2>1 DEF Scans
  <2>4. base_qty \in Positive
    <3> HIDE DEF rate
    <3> QED
      BY <2>2, <2>3, FractionTypes
  <2>5. received \in Positive
    <3> HIDE DEF rate, base_qty
    <3> QED
      BY <2>2, <2>4, FractionTypes
  <2>6. FeeMultiplier \in Positive
    <3>1. FeePart - 1 \in Nat \ {0} /\ FeePart \in Nat \ {0}
      BY ScanAssumption
    <3> QED
      BY <3>1, FractionIs DEF FeeMultiplier
  <2>7. limit \in Positive /\ output \in Positive
    <3> HIDE DEF received, base_qty
    <3> QED
      BY <2>2, <2>3, <2>4, <2>5, <2>6, FractionTypes DEF InputLimit
  <2>8. ScanLeg(scan, book, buy) =
          [output |-> output, limit |-> limit, prices |-> Append(scan.prices, rate),
           quantities |-> Append(scan.quantities, base_qty)]
    BY <1>3 DEF ScanLeg
  <2> HIDE DEF rate, base_qty, received, limit, output
  <2>9. /\ Append(scan.prices, rate) \in Seq(Positive)
        /\ Append(scan.quantities, base_qty) \in Seq(Positive)
        /\ Len(Append(scan.prices, rate)) = Len(scan.prices) + 1
        /\ Len(Append(scan.quantities, base_qty)) = Len(scan.quantities) + 1
    BY <2>2, <2>3, <2>4, AppendProperties
  <2> DEFINE result == [output |-> output, limit |-> limit, prices |-> Append(scan.prices, rate),
                        quantities |-> Append(scan.quantities, base_qty)]
  <2>10. result \in Scans
    BY <2>7, <2>9 DEF Scans
  <2>11. result.prices = Append(scan.prices, rate)
         /\ result.quantities = Append(scan.quantities, base_qty)
    OBVIOUS
  <2> HIDE DEF result
  <2> QED
    BY <1>3, <2>8, <2>9, <2>10, <2>11 DEF result
<1> QED
  BY <1>1, <1>2, <1>3

\* What a scan knows before the first leg and after each.
ScanStart ==
  [output |-> One, limit |-> [n |-> MaxArbitrage, d |-> 1], prices |-> <<>>, quantities |-> <<>>]
ScanOn(scan, known, leg) == ScanLeg(scan, known[leg.index], leg.buy)
After1(known, path) == ScanOn(ScanStart, known, path[1])
After2(known, path) == ScanOn(After1(known, path), known, path[2])
After3(known, path) == ScanOn(After2(known, path), known, path[3])

\* A scan starts without legs and with the configured limit.
LEMMA ScanStartTypes ==
  /\ ScanStart \in Scans
  /\ Len(ScanStart.prices) = 0 /\ Len(ScanStart.quantities) = 0
  /\ ScanStart.output = One /\ ScanStart.limit = [n |-> MaxArbitrage, d |-> 1]
<1>1. One \in Positive /\ [n |-> MaxArbitrage, d |-> 1] \in Positive
  BY ScanAssumption DEF One, Positive
<1>2. <<>> \in Seq(Positive)
  OBVIOUS
<1> QED
  BY <1>1, <1>2 DEF Scans, ScanStart

\* The scan of a path goes through its three legs in turn.
LEMMA ScanUnfolds ==
  ASSUME NEW known \in Books, NEW path \in [1..3 -> Legs]
  PROVE  /\ Scan(known, path) = After3(known, path)
         /\ After1(known, path) \in Scans \cup {None}
         /\ After2(known, path) \in Scans \cup {None}
         /\ After3(known, path) \in Scans \cup {None}
<1> DEFINE V == Scans \cup {None}
           base == ScanStart
           Body(s, i) == ScanLeg(s, known[path[i].index], path[i].buy)
           step == [m \in (1..3) \X V |-> Body(m[2], m[1])]
           after == CHOOSE after : after =
                      [i \in 0..3 |-> IF i = 0 THEN base
                                      ELSE ScanLeg(after[i - 1], known[path[i].index], path[i].buy)]
<1>1. ASSUME NEW s \in V, NEW i \in 1..3 PROVE Body(s, i) \in V
  <2>1. path[i] \in Legs
    OBVIOUS
  <2>2. known[path[i].index] \in BookTypes \cup {None} /\ path[i].buy \in BOOLEAN
    BY <2>1 DEF Legs, Books
  <2> QED
    BY <2>2, ScanLegTypes
<1>2. base \in V
  BY ScanStartTypes
<1>3. step \in [(1..3) \X V -> V]
  <2> HIDE DEF V, Body
  <2> QED
    BY <1>1
<1>4. PICK f : Steps(f, base, step, 3)
  <2>1. 3 \in Nat
    OBVIOUS
  <2> HIDE DEF V, base, step
  <2> QED
    BY <1>2, <1>3, <2>1, StepsExist
<1>5. after = [i \in 0..3 |-> IF i = 0 THEN base ELSE Body(after[i - 1], i)]
  <2>1. f = [i \in 0..3 |-> IF i = 0 THEN base ELSE step[<<i, f[i - 1]>>]]
    BY <1>4 DEF Steps
  <2>2. f[0] \in V /\ \A i \in 1..3 : f[i] = step[<<i, f[i - 1]>>]
    <3> HIDE DEF V, base, step
    <3> QED
      BY <1>2, <2>1
  <2>3. \A i \in 0..3 : f[i] \in V
    <3>1. \A i \in 1..3 : f[i - 1] \in V => f[i] \in V
      <4> HIDE DEF V, step
      <4> QED
        BY <1>3, <2>2
    <3> HIDE DEF V, step
    <3> QED
      BY <2>2, <3>1, StepsStay
  <2>4. ASSUME NEW i \in 0..3, i # 0 PROVE step[<<i, f[i - 1]>>] = Body(f[i - 1], i)
    <3>1. i \in 1..3 /\ f[i - 1] \in V
      BY <2>3, <2>4
    <3> HIDE DEF V, Body
    <3> QED
      BY <3>1
  <2>5. f = [i \in 0..3 |-> IF i = 0 THEN base ELSE Body(f[i - 1], i)]
    <3> HIDE DEF V, Body, base, step
    <3> QED
      BY <2>1, <2>4
  <2> HIDE DEF base
  <2> QED
    BY <2>5
<1>6. Scan(known, path) = after[3]
  BY DEF Scan, ScanStart
<1>7. /\ after[0] = base /\ after[1] = Body(after[0], 1)
      /\ after[2] = Body(after[1], 2) /\ after[3] = Body(after[2], 3)
  <2>1. \A i \in 0..3 : after[i] = IF i = 0 THEN base ELSE Body(after[i - 1], i)
    <3> HIDE DEF base, Body, after
    <3> QED
      BY <1>5
  <2> HIDE DEF base, Body, after
  <2> QED
    BY <2>1
<1>8. /\ after[0] \in V /\ after[1] \in V /\ after[2] \in V /\ after[3] \in V
  <2> HIDE DEF base, Body, after, V
  <2> QED
    BY <1>1, <1>2, <1>7
<1> HIDE DEF after, V
<1>9. /\ after[1] = After1(known, path) /\ after[2] = After2(known, path)
      /\ after[3] = After3(known, path)
  BY <1>7 DEF After1, After2, After3, ScanOn
<1> QED
  BY <1>6, <1>8, <1>9 DEF V

\* A scan of a path, if it gets through all three legs, has a price and a
\* quantity for each and a positive limit.
LEMMA ScanTypes ==
  ASSUME NEW known \in Books, NEW path \in [1..3 -> Legs]
  PROVE  Scan(known, path) = None \/
           /\ Scan(known, path) \in Scans
           /\ Len(Scan(known, path).prices) = 3 /\ Len(Scan(known, path).quantities) = 3
<1>1. /\ Scan(known, path) = After3(known, path)
      /\ After1(known, path) \in Scans \cup {None}
      /\ After2(known, path) \in Scans \cup {None}
      /\ After3(known, path) \in Scans \cup {None}
  BY ScanUnfolds
<1>2. ASSUME NEW scan \in Scans \cup {None}, NEW leg \in Legs
      PROVE  ScanOn(scan, known, leg) # None =>
               /\ scan # None
               /\ Len(ScanOn(scan, known, leg).prices) = Len(scan.prices) + 1
               /\ Len(ScanOn(scan, known, leg).quantities) = Len(scan.quantities) + 1
  <2>1. known[leg.index] \in BookTypes \cup {None} /\ leg.buy \in BOOLEAN
    BY DEF Legs, Books
  <2> QED
    BY <2>1, ScanLegTypes DEF ScanOn
<1>3. path[1] \in Legs /\ path[2] \in Legs /\ path[3] \in Legs
  OBVIOUS
<1>4. ASSUME After3(known, path) # None
      PROVE  Len(After3(known, path).prices) = 3 /\ Len(After3(known, path).quantities) = 3
  <2>1. /\ After2(known, path) # None
        /\ Len(After3(known, path).prices) = Len(After2(known, path).prices) + 1
        /\ Len(After3(known, path).quantities) = Len(After2(known, path).quantities) + 1
    BY <1>1, <1>2, <1>3, <1>4 DEF After3
  <2>2. /\ After1(known, path) # None
        /\ Len(After2(known, path).prices) = Len(After1(known, path).prices) + 1
        /\ Len(After2(known, path).quantities) = Len(After1(known, path).quantities) + 1
    BY <1>1, <1>2, <1>3, <2>1 DEF After2
  <2>3. /\ Len(After1(known, path).prices) = Len(ScanStart.prices) + 1
        /\ Len(After1(known, path).quantities) = Len(ScanStart.quantities) + 1
    BY <1>1, <1>2, <1>3, <2>2, ScanStartTypes DEF After1
  <2>4. Len(After1(known, path).prices) = 1 /\ Len(After1(known, path).quantities) = 1
    BY <2>3, ScanStartTypes
  <2>5. Len(After2(known, path).prices) = 2 /\ Len(After2(known, path).quantities) = 2
    BY <2>2, <2>4
  <2> QED
    BY <2>1, <2>5
<1> QED
  BY <1>1, <1>4

(***************************************************************************)
(* Paths.                                                                  *)
(***************************************************************************)
Ends(market, a, b) == {market.base, market.quote} = {a, b}

\* Markets x, y, z lead from USDT over a and b back to USDT.
Loop(markets, x, y, z, a, b) ==
  /\ x \in Positions /\ y \in Positions /\ z \in Positions
  /\ x # y /\ y # z /\ x # z
  /\ a # b /\ a # "USDT" /\ b # "USDT"
  /\ Ends(markets[x], "USDT", a) /\ Ends(markets[y], a, b) /\ Ends(markets[z], b, "USDT")

\* The loop the other way round.
LEMMA LoopTurned ==
  \A markets, x, y, z, a, b : Loop(markets, x, y, z, a, b) => Loop(markets, z, y, x, b, a)
BY DEF Loop, Ends

\* A market between two assets has either as its base.
LEMMA EndsAre ==
  ASSUME NEW market, NEW a, NEW b, a # b, Ends(market, a, b)
  PROVE  \/ market.base = a /\ market.quote = b
         \/ market.base = b /\ market.quote = a
BY DEF Ends

\* It touches these two and leads from either to the other.
LEMMA EndsMean ==
  ASSUME NEW markets, NEW i, NEW a, NEW b, a # b, Ends(markets[i], a, b)
  PROVE  /\ (\A c : Touches(markets[i], c) <=> (c = a \/ c = b))
         /\ Converted(markets, i, a) = b /\ Converted(markets, i, b) = a
BY EndsAre DEF Touches, Converted

\* A third element after a pair.
LEMMA AppendPair ==
  ASSUME NEW p, NEW q, NEW r
  PROVE  Append(<<p, q>>, r) = <<p, q, r>>
<1>1. <<p, q>> \in Seq({p, q, r}) /\ r \in {p, q, r}
  OBVIOUS
<1> DEFINE s == <<p, q>>
<1>2. Len(s) = 2 /\ s[1] = p /\ s[2] = q
  OBVIOUS
<1>3. Append(s, r) \in Seq({p, q, r}) /\ Len(Append(s, r)) = 3
      /\ Append(s, r)[1] = p /\ Append(s, r)[2] = q /\ Append(s, r)[3] = r
  <2> HIDE DEF s
  <2> QED
    BY <1>1, <1>2, AppendProperties DEF s
<1>4. <<p, q, r>> \in Seq({p, q, r}) /\ Len(<<p, q, r>>) = 3
  OBVIOUS
<1>5. \A i \in 1..3 : Append(s, r)[i] = <<p, q, r>>[i]
  <2>1. \A i \in 1..3 : i = 1 \/ i = 2 \/ i = 3
    OBVIOUS
  <2> HIDE DEF s
  <2> QED
    BY <1>3, <2>1
<1> HIDE DEF s
<1>6. Append(s, r) = <<p, q, r>>
  BY <1>3, <1>4, <1>5, SeqEqual
<1> QED
  BY <1>6 DEF s

\* From the first market of a loop the construction goes round it.
LEMMA LoopFollowed ==
  ASSUME NEW markets, NEW x, NEW y, NEW z, NEW a, NEW b, Loop(markets, x, y, z, a, b)
  PROVE  PathFrom(markets, x) =
           <<Leg(markets, x, "USDT"), Leg(markets, y, a), Leg(markets, z, b)>>
<1> DEFINE one == Extended(markets, [legs |-> <<>>, used |-> {}, asset |-> "USDT"], x)
           two == NextLegOf(markets, one)
           three == NextLegOf(markets, two)
           after == CHOOSE after : after =
                      [i \in Positions |-> IF i = 1 THEN one ELSE NextLegOf(markets, after[i - 1])]
<1>1. after = [i \in Positions |-> IF i = 1 THEN one ELSE NextLegOf(markets, after[i - 1])]
  <2> DEFINE f == [i \in Positions |-> IF i = 1 THEN one ELSE IF i = 2 THEN two ELSE three]
  <2> HIDE DEF one
  <2>1. f[1] = one /\ f[2] = two /\ f[3] = three
    BY DEF Positions
  <2>2. \A i \in Positions : f[i] = IF i = 1 THEN one ELSE NextLegOf(markets, f[i - 1])
    <3>1. \A i \in Positions : i = 1 \/ i = 2 \/ i = 3
      BY DEF Positions
    <3> HIDE DEF f
    <3> QED
      BY <2>1, <3>1
  <2>3. f = [i \in Positions |-> IF i = 1 THEN one ELSE NextLegOf(markets, f[i - 1])]
    BY <2>2
  <2> QED
    BY <2>3
<1>2. after[3] = three
  <2> HIDE DEF one, after
  <2>1. /\ after[1] = one /\ after[2] = NextLegOf(markets, after[1])
        /\ after[3] = NextLegOf(markets, after[2])
    BY <1>1 DEF Positions
  <2> QED
    BY <2>1
<1>3. PathFrom(markets, x) = Closed(after[3])
  BY DEF PathFrom
<1>4. /\ a # b /\ a # "USDT" /\ b # "USDT"
      /\ Ends(markets[x], "USDT", a) /\ Ends(markets[y], a, b) /\ Ends(markets[z], b, "USDT")
      /\ x # y /\ y # z /\ x # z /\ Positions = {x, y, z} /\ y \in Int /\ z \in Int
  <2>1. x \in 1..3 /\ y \in 1..3 /\ z \in 1..3 /\ x # y /\ y # z /\ x # z
    BY DEF Loop, Positions
  <2>2. Positions = {x, y, z}
    BY <2>1 DEF Positions
  <2> QED
    BY <2>1, <2>2 DEF Loop
<1>5. /\ \A c : Touches(markets[x], c) <=> c = "USDT" \/ c = a
      /\ \A c : Touches(markets[y], c) <=> c = a \/ c = b
      /\ \A c : Touches(markets[z], c) <=> c = b \/ c = "USDT"
      /\ Converted(markets, x, "USDT") = a /\ Converted(markets, y, a) = b
      /\ Converted(markets, z, b) = "USDT"
  <2>1. (\A c : Touches(markets[x], c) <=> (c = "USDT" \/ c = a)) /\ Converted(markets, x, "USDT") = a
    <3>1. "USDT" # a /\ Ends(markets[x], "USDT", a)
      BY <1>4
    <3> HIDE DEF one, two, three, after
    <3> QED
      BY <3>1, EndsMean
  <2>2. (\A c : Touches(markets[y], c) <=> (c = a \/ c = b)) /\ Converted(markets, y, a) = b
    <3>1. a # b /\ Ends(markets[y], a, b)
      BY <1>4
    <3> HIDE DEF one, two, three, after
    <3> QED
      BY <3>1, EndsMean
  <2>3. (\A c : Touches(markets[z], c) <=> (c = b \/ c = "USDT")) /\ Converted(markets, z, b) = "USDT"
    <3>1. b # "USDT" /\ Ends(markets[z], b, "USDT")
      BY <1>4
    <3> HIDE DEF one, two, three, after
    <3> QED
      BY <3>1, EndsMean
  <2> QED
    BY <2>1, <2>2, <2>3
<1>6. one = [legs |-> <<Leg(markets, x, "USDT")>>, used |-> {x}, asset |-> a]
  BY <1>5 DEF Extended
<1>7. Candidates(markets, {x}, a) = {y} /\ Candidates(markets, {x, y}, b) = {z}
  BY <1>4, <1>5 DEF Candidates
<1>8. First({y}) = y /\ First({z}) = z
  BY <1>4 DEF First
<1>9. two = [legs |-> <<Leg(markets, x, "USDT"), Leg(markets, y, a)>>, used |-> {x, y},
             asset |-> b]
  <2>1. two = Extended(markets, one, y)
    <3>1. one.used = {x} /\ one.asset = a
      BY <1>6
    <3> HIDE DEF one
    <3> QED
      BY <1>7, <1>8, <3>1 DEF NextLegOf
  <2>2. /\ one.legs = <<Leg(markets, x, "USDT")>> /\ one.used = {x} /\ one.asset = a
    BY <1>6
  <2>3. {x} \cup {y} = {x, y}
    OBVIOUS
  <2> HIDE DEF one, two
  <2> QED
    BY <1>5, <2>1, <2>2, <2>3 DEF Extended
<1>10. three = [legs |-> <<Leg(markets, x, "USDT"), Leg(markets, y, a), Leg(markets, z, b)>>,
                used |-> {x, y, z}, asset |-> "USDT"]
  <2>1. three = Extended(markets, two, z)
    <3>1. two.used = {x, y} /\ two.asset = b
      BY <1>9
    <3> HIDE DEF two
    <3> QED
      BY <1>7, <1>8, <3>1 DEF NextLegOf
  <2>2. /\ two.legs = <<Leg(markets, x, "USDT"), Leg(markets, y, a)>> /\ two.used = {x, y}
        /\ two.asset = b
    BY <1>9
  <2>3. {x, y} \cup {z} = {x, y, z}
    OBVIOUS
  <2>4. Extended(markets, two, z) =
          [legs |-> Append(two.legs, Leg(markets, z, two.asset)), used |-> two.used \cup {z},
           asset |-> Converted(markets, z, two.asset)]
    BY DEF Extended
  <2>5. \A p, q, r : Append(<<p, q>>, r) = <<p, q, r>>
    BY AppendPair
  <2> HIDE DEF one, two, three
  <2> QED
    BY <1>5, <2>1, <2>2, <2>3, <2>4, <2>5
<1> HIDE DEF three, after
<1> QED
  BY <1>2, <1>3, <1>10 DEF Closed

\* A triangle with USDT can be gone round.
LEMMA LoopExists ==
  ASSUME NEW markets, Triangle(markets)
  PROVE  \E x, y, z, a, b : Loop(markets, x, y, z, a, b)
<1>1. PICK a, b : /\ a # b /\ a # "USDT" /\ b # "USDT"
                  /\ {{markets[i].base, markets[i].quote} : i \in Positions}
                       = {{"USDT", a}, {a, b}, {b, "USDT"}}
  BY DEF Triangle
<1>2. PICK x \in Positions : {markets[x].base, markets[x].quote} = {"USDT", a}
  <2>1. {"USDT", a} \in {{markets[i].base, markets[i].quote} : i \in Positions}
    BY <1>1
  <2> QED
    BY <2>1
<1>3. PICK y \in Positions : {markets[y].base, markets[y].quote} = {a, b}
  <2>1. {a, b} \in {{markets[i].base, markets[i].quote} : i \in Positions}
    BY <1>1
  <2> QED
    BY <2>1
<1>4. PICK z \in Positions : {markets[z].base, markets[z].quote} = {b, "USDT"}
  <2>1. {b, "USDT"} \in {{markets[i].base, markets[i].quote} : i \in Positions}
    BY <1>1
  <2> QED
    BY <2>1
<1>5. {"USDT", a} # {a, b} /\ {a, b} # {b, "USDT"} /\ {"USDT", a} # {b, "USDT"}
  BY <1>1
<1>6. x # y /\ y # z /\ x # z
  BY <1>2, <1>3, <1>4, <1>5
<1>7. Loop(markets, x, y, z, a, b)
  BY <1>1, <1>2, <1>3, <1>4, <1>6 DEF Loop, Ends
<1> QED
  BY <1>7

\* What the three markets of a loop have between them.
LEMMA LoopPositions ==
  ASSUME NEW markets, NEW x, NEW y, NEW z, NEW a, NEW b, Loop(markets, x, y, z, a, b)
  PROVE  Positions = {x, y, z} /\ x \in 1..3 /\ y \in 1..3 /\ z \in 1..3
<1>1. x \in 1..3 /\ y \in 1..3 /\ z \in 1..3 /\ x # y /\ y # z /\ x # z
  BY DEF Loop, Positions
<1> QED
  BY <1>1 DEF Positions

\* USDT can be converted on the first and the last market of a loop only.
LEMMA LoopFirstLegs ==
  ASSUME NEW markets, NEW x, NEW y, NEW z, NEW a, NEW b, Loop(markets, x, y, z, a, b)
  PROVE  FirstLegs(markets) = {x, z} /\ Cardinality({x, z}) = 2
<1>1. Positions = {x, y, z} /\ x # z
  BY LoopPositions DEF Loop
<1>2. Touches(markets[x], "USDT")
  <2>1. "USDT" # a /\ Ends(markets[x], "USDT", a)
    BY DEF Loop
  <2> QED
    BY <2>1, EndsMean
<1>3. ~Touches(markets[y], "USDT")
  <2>1. a # b /\ "USDT" # a /\ "USDT" # b /\ Ends(markets[y], a, b)
    BY DEF Loop
  <2>2. \A c : Touches(markets[y], c) <=> (c = a \/ c = b)
    BY <2>1, EndsMean
  <2> QED
    BY <2>1, <2>2
<1>4. Touches(markets[z], "USDT")
  <2>1. b # "USDT" /\ Ends(markets[z], b, "USDT")
    BY DEF Loop
  <2> QED
    BY <2>1, EndsMean
<1>5. FirstLegs(markets) = {x, z}
  BY <1>1, <1>2, <1>3, <1>4 DEF FirstLegs
<1>6. Cardinality({x, z}) = 2
  <2>1. IsFiniteSet({z}) /\ Cardinality({z}) = 1
    BY FS_Singleton
  <2>2. {x, z} = {z} \cup {x} /\ x \notin {z}
    BY <1>1
  <2>3. Cardinality({z} \cup {x}) = 1 + 1
    BY <2>1, <2>2, FS_AddElement
  <2> QED
    BY <2>2, <2>3
<1> QED
  BY <1>5, <1>6

\* A loop is closed: three assets, each on two markets.
LEMMA LoopClosed ==
  ASSUME NEW markets, NEW x, NEW y, NEW z, NEW a, NEW b, Loop(markets, x, y, z, a, b)
  PROVE  ClosedLoop(markets)
<1>1. /\ Positions = {x, y, z} /\ x \in 1..3 /\ y \in 1..3 /\ z \in 1..3
      /\ x # y /\ y # z /\ x # z /\ a # b /\ a # "USDT" /\ b # "USDT"
  BY LoopPositions DEF Loop
<1> DEFINE At(i, c) == Count(markets[i].base = c) + Count(markets[i].quote = c)
<1>2. \A c : At(x, c) = IF c \in {"USDT", a} THEN 1 ELSE 0
  <2>1. "USDT" # a /\ Ends(markets[x], "USDT", a)
    BY DEF Loop
  <2>2. \/ markets[x].base = "USDT" /\ markets[x].quote = a
        \/ markets[x].base = a /\ markets[x].quote = "USDT"
    BY <2>1, EndsAre
  <2> QED
    BY <2>1, <2>2 DEF Count
<1>3. \A c : At(y, c) = IF c \in {a, b} THEN 1 ELSE 0
  <2>1. a # b /\ Ends(markets[y], a, b)
    BY DEF Loop
  <2>2. \/ markets[y].base = a /\ markets[y].quote = b
        \/ markets[y].base = b /\ markets[y].quote = a
    BY <2>1, EndsAre
  <2> QED
    BY <2>1, <2>2 DEF Count
<1>4. \A c : At(z, c) = IF c \in {b, "USDT"} THEN 1 ELSE 0
  <2>1. b # "USDT" /\ Ends(markets[z], b, "USDT")
    BY DEF Loop
  <2>2. \/ markets[z].base = b /\ markets[z].quote = "USDT"
        \/ markets[z].base = "USDT" /\ markets[z].quote = b
    BY <2>1, EndsAre
  <2> QED
    BY <2>1, <2>2 DEF Count
<1>5. GroupAssets(markets) = {"USDT", a, b}
  <2>1. GroupAssets(markets) =
          {markets[x].base, markets[x].quote} \cup {markets[y].base, markets[y].quote}
            \cup {markets[z].base, markets[z].quote}
    BY <1>1 DEF GroupAssets
  <2> QED
    BY <2>1 DEF Loop, Ends
<1>6. Cardinality({"USDT", a, b}) = 3
  <2>1. IsFiniteSet({"USDT"}) /\ Cardinality({"USDT"}) = 1
    BY FS_Singleton
  <2>2. IsFiniteSet({"USDT"} \cup {a}) /\ Cardinality({"USDT"} \cup {a}) = 2
    <3>1. a \notin {"USDT"}
      BY <1>1
    <3> QED
      BY <2>1, <3>1, FS_AddElement
  <2>3. Cardinality(({"USDT"} \cup {a}) \cup {b}) = 3
    <3>1. b \notin {"USDT"} \cup {a}
      BY <1>1
    <3> QED
      BY <2>2, <3>1, FS_AddElement
  <2>4. {"USDT", a, b} = ({"USDT"} \cup {a}) \cup {b}
    OBVIOUS
  <2> QED
    BY <2>3, <2>4
<1>7. ASSUME NEW c \in {"USDT", a, b} PROVE Degree(markets, c) = 2
  <2>1. Degree(markets, c) = At(1, c) + At(2, c) + At(3, c)
    BY DEF Degree
  <2>2. At(x, c) \in {0, 1} /\ At(y, c) \in {0, 1} /\ At(z, c) \in {0, 1}
        /\ At(x, c) + At(y, c) + At(z, c) = 2
    <3> HIDE DEF At
    <3> QED
      BY <1>1, <1>2, <1>3, <1>4
  <2>3. At(1, c) + At(2, c) + At(3, c) = At(x, c) + At(y, c) + At(z, c)
    <3> HIDE DEF At
    <3>1. /\ x = 1 \/ x = 2 \/ x = 3
          /\ y = 1 \/ y = 2 \/ y = 3
          /\ z = 1 \/ z = 2 \/ z = 3
      BY <1>1
    <3> QED
      BY <1>1, <2>2, <3>1
  <2> QED
    BY <2>1, <2>2, <2>3
<1> QED
  BY <1>5, <1>6, <1>7 DEF ClosedLoop

Around(markets, x, y, z, a, b) ==
  <<Leg(markets, x, "USDT"), Leg(markets, y, a), Leg(markets, z, b)>>

\* What a leg does to the asset it is given, on a market of the loop.
LEMMA LegMeans ==
  ASSUME NEW markets, NEW i, NEW a, NEW b, a # b, Ends(markets[i], a, b)
  PROVE  /\ Leg(markets, i, a).index = i /\ Leg(markets, i, a).buy \in BOOLEAN
         /\ Spends(markets, Leg(markets, i, a)) = a /\ Gains(markets, Leg(markets, i, a)) = b
         /\ Leg(markets, i, b).buy # Leg(markets, i, a).buy
<1>1. \/ markets[i].base = a /\ markets[i].quote = b
      \/ markets[i].base = b /\ markets[i].quote = a
  BY EndsAre
<1>2. /\ Leg(markets, i, a).index = i /\ Leg(markets, i, a).buy = (a = markets[i].quote)
      /\ Leg(markets, i, b).buy = (b = markets[i].quote)
  BY DEF Leg
<1> QED
  BY <1>1, <1>2 DEF Spends, Gains

\* Going round a loop is a round trip over its three markets.
LEMMA LoopRoundTrip ==
  ASSUME NEW markets, NEW x, NEW y, NEW z, NEW a, NEW b, Loop(markets, x, y, z, a, b)
  PROVE  RoundTrip(markets, Around(markets, x, y, z, a, b))
<1> DEFINE path == Around(markets, x, y, z, a, b)
<1>1. /\ Len(path) = 3 /\ path[1] = Leg(markets, x, "USDT") /\ path[2] = Leg(markets, y, a)
      /\ path[3] = Leg(markets, z, b)
  BY DEF Around
<1> HIDE DEF path
<1>2. /\ Leg(markets, x, "USDT").index = x
      /\ Spends(markets, Leg(markets, x, "USDT")) = "USDT"
      /\ Gains(markets, Leg(markets, x, "USDT")) = a
  <2>1. "USDT" # a /\ Ends(markets[x], "USDT", a)
    BY DEF Loop
  <2> QED
    BY <2>1, LegMeans
<1>3. /\ Leg(markets, y, a).index = y
      /\ Spends(markets, Leg(markets, y, a)) = a /\ Gains(markets, Leg(markets, y, a)) = b
  <2>1. a # b /\ Ends(markets[y], a, b)
    BY DEF Loop
  <2> QED
    BY <2>1, LegMeans
<1>4. /\ Leg(markets, z, b).index = z
      /\ Spends(markets, Leg(markets, z, b)) = b
      /\ Gains(markets, Leg(markets, z, b)) = "USDT"
  <2>1. b # "USDT" /\ Ends(markets[z], b, "USDT")
    BY DEF Loop
  <2>2. Leg(markets, z, b).index = z
    BY DEF Leg
  <2>3. Spends(markets, Leg(markets, z, b)) = b
    BY <2>1, LegMeans
  <2>4. Gains(markets, Leg(markets, z, b)) = "USDT"
    BY <2>1, LegMeans
  <2> QED
    BY <2>2, <2>3, <2>4
<1>5. ASSUME NEW i \in Positions, NEW j \in Positions, i # j
      PROVE  path[i].index # path[j].index
  <2>1. x # y /\ y # z /\ x # z
    BY DEF Loop
  <2>2. (i = 1 \/ i = 2 \/ i = 3) /\ (j = 1 \/ j = 2 \/ j = 3)
    BY DEF Positions
  <2>3. path[1].index = x /\ path[2].index = y /\ path[3].index = z
    BY <1>1, <1>2, <1>3, <1>4
  <2> QED
    BY <1>5, <2>1, <2>2, <2>3
<1>6. RoundTrip(markets, path)
  BY <1>1, <1>2, <1>3, <1>4, <1>5 DEF RoundTrip
<1> QED
  BY <1>6 DEF path

\* The two ways round a loop are opposite.
LEMMA LoopOpposite ==
  ASSUME NEW markets, NEW x, NEW y, NEW z, NEW a, NEW b, Loop(markets, x, y, z, a, b)
  PROVE  Opposite(Around(markets, x, y, z, a, b), Around(markets, z, y, x, b, a))
<1> DEFINE p == Around(markets, x, y, z, a, b)
           q == Around(markets, z, y, x, b, a)
<1>1. /\ p[1] = Leg(markets, x, "USDT") /\ p[2] = Leg(markets, y, a) /\ p[3] = Leg(markets, z, b)
      /\ q[1] = Leg(markets, z, "USDT") /\ q[2] = Leg(markets, y, b) /\ q[3] = Leg(markets, x, a)
  BY DEF Around
<1> HIDE DEF p, q
<1>2. /\ Leg(markets, x, "USDT").index = x /\ Leg(markets, x, a).index = x
      /\ Leg(markets, y, a).index = y /\ Leg(markets, y, b).index = y
      /\ Leg(markets, z, b).index = z /\ Leg(markets, z, "USDT").index = z
  BY DEF Leg
<1>3. Leg(markets, x, "USDT").buy # Leg(markets, x, a).buy
  <2>1. "USDT" # a /\ Ends(markets[x], "USDT", a)
    BY DEF Loop
  <2> QED
    BY <2>1, LegMeans
<1>4. Leg(markets, y, a).buy # Leg(markets, y, b).buy
  <2>1. a # b /\ Ends(markets[y], a, b)
    BY DEF Loop
  <2> QED
    BY <2>1, LegMeans
<1>5. Leg(markets, z, b).buy # Leg(markets, z, "USDT").buy
  <2>1. b # "USDT" /\ Ends(markets[z], b, "USDT")
    BY DEF Loop
  <2> QED
    BY <2>1, LegMeans
<1>6. ASSUME NEW i \in Positions PROVE q[i].index = p[4 - i].index /\ q[i].buy # p[4 - i].buy
  <2>1. (i = 1 /\ 4 - i = 3) \/ (i = 2 /\ 4 - i = 2) \/ (i = 3 /\ 4 - i = 1)
    BY DEF Positions
  <2> QED
    BY <1>1, <1>2, <1>3, <1>4, <1>5, <2>1
<1> QED
  BY <1>6 DEF Opposite, p, q

\* A loop whose first market comes before its last is accepted with this path
\* and the opposite one.
LEMMA LoopAccepted ==
  ASSUME NEW markets, NEW x, NEW y, NEW z, NEW a, NEW b, Loop(markets, x, y, z, a, b),
         Tradable(markets), x < z
  PROVE  ValidateArbitrage(markets) =
           <<Around(markets, x, y, z, a, b), Around(markets, z, y, x, b, a)>>
<1>1. ClosedLoop(markets) /\ FirstLegs(markets) = {x, z} /\ Cardinality(FirstLegs(markets)) = 2
  BY LoopClosed, LoopFirstLegs
<1>2. x \in Int /\ z \in Int
  BY LoopPositions
<1>3. First({x, z}) = x /\ {x, z} \ {x} = {z} /\ First({z}) = z
  <2>1. {x, z} \ {x} = {z}
    BY <1>2
  <2>2. First({z}) = z
    BY <1>2 DEF First
  <2>3. First({x, z}) = x
    BY <1>2 DEF First
  <2> QED
    BY <2>1, <2>2, <2>3
<1>4. Loop(markets, z, y, x, b, a)
  BY LoopTurned
<1>5. PathFrom(markets, x) = Around(markets, x, y, z, a, b)
  BY LoopFollowed DEF Around
<1>6. PathFrom(markets, z) = Around(markets, z, y, x, b, a)
  BY <1>4, LoopFollowed DEF Around
<1>7. BothPaths(markets, x, z) = <<Around(markets, x, y, z, a, b), Around(markets, z, y, x, b, a)>>
  BY <1>5, <1>6 DEF BothPaths
<1>8. Around(markets, x, y, z, a, b) # <<>> /\ Around(markets, z, y, x, b, a) # <<>>
  BY DEF Around
<1>9. Constructed(BothPaths(markets, x, z)) = BothPaths(markets, x, z)
  BY <1>7, <1>8 DEF Constructed
<1>10. ValidateArbitrage(markets) = Constructed(BothPaths(markets, x, z))
  BY <1>1, <1>3 DEF ValidateArbitrage
<1> QED
  BY <1>7, <1>9, <1>10

\* Every triangle with USDT has its two round trips.
LEMMA TriangleAccepted ==
  ASSUME NEW markets, Triangle(markets)
  PROVE  GoesRound(markets, ValidateArbitrage(markets))
<1>0. Tradable(markets)
  BY DEF Triangle
<1>1. \E x, y, z, a, b : Loop(markets, x, y, z, a, b) /\ x < z
  <2>1. PICK x, y, z, a, b : Loop(markets, x, y, z, a, b)
    BY LoopExists
  <2>2. Loop(markets, z, y, x, b, a)
    BY <2>1, LoopTurned
  <2>3. x < z \/ z < x
    <3>1. x \in 1..3 /\ z \in 1..3 /\ x # z
      BY <2>1 DEF Loop, Positions
    <3> QED
      BY <3>1
  <2> QED
    BY <2>1, <2>2, <2>3
<1>2. PICK x, y, z, a, b : Loop(markets, x, y, z, a, b) /\ x < z
  BY <1>1
<1> DEFINE p == Around(markets, x, y, z, a, b)
           q == Around(markets, z, y, x, b, a)
<1>3. RoundTrip(markets, p) /\ RoundTrip(markets, q) /\ Opposite(p, q)
  <2>1. Loop(markets, z, y, x, b, a)
    BY <1>2, LoopTurned
  <2> QED
    BY <1>2, <2>1, LoopRoundTrip, LoopOpposite
<1>4. ValidateArbitrage(markets) = <<p, q>>
  BY <1>0, <1>2, LoopAccepted
<1> HIDE DEF p, q
<1>5. Len(<<p, q>>) = 2 /\ <<p, q>>[1] = p /\ <<p, q>>[2] = q
  OBVIOUS
<1> QED
  BY <1>3, <1>4, <1>5 DEF GoesRound

\* Whatever is accepted is such a triangle.
LEMMA AcceptedIsTriangle ==
  ASSUME NEW markets, Tradable(markets), ClosedLoop(markets),
         Cardinality(FirstLegs(markets)) = 2
  PROVE  Triangle(markets)
<1> DEFINE base(i) == markets[i].base
           quote(i) == markets[i].quote
           A == GroupAssets(markets)
<1>1. A = {base(1), quote(1)} \cup {base(2), quote(2)} \cup {base(3), quote(3)}
  BY DEF GroupAssets, Positions
<1>2. IsFiniteSet(A) /\ Cardinality(A) = 3
  <2>1. \A c, d : IsFiniteSet({c, d})
    <3> SUFFICES ASSUME NEW c, NEW d
                 PROVE  IsFiniteSet({c, d})
      OBVIOUS
    <3>1. IsFiniteSet({c}) /\ IsFiniteSet({d})
      BY FS_Singleton
    <3>2. {c, d} = {c} \cup {d}
      OBVIOUS
    <3>3. IsFiniteSet({c} \cup {d})
      BY <3>1, FS_Union
    <3> QED
      BY <3>2, <3>3
  <2> DEFINE one == {base(1), quote(1)}
             two == {base(2), quote(2)}
             three == {base(3), quote(3)}
  <2>2. IsFiniteSet(one) /\ IsFiniteSet(two) /\ IsFiniteSet(three)
    BY <2>1
  <2>3. A = one \cup two \cup three
    BY <1>1
  <2> HIDE DEF one, two, three, A
  <2>4. IsFiniteSet(one \cup two)
    BY <2>2, FS_Union
  <2>5. IsFiniteSet((one \cup two) \cup three)
    BY <2>2, <2>4, FS_Union
  <2> QED
    BY <2>3, <2>5 DEF ClosedLoop, A
<1>3. "USDT" \in A
  <2>1. FirstLegs(markets) # {}
    BY FS_EmptySet
  <2>2. PICK i \in Positions : Touches(markets[i], "USDT")
    BY <2>1 DEF FirstLegs
  <2> QED
    BY <2>2 DEF GroupAssets, Touches
<1>4. PICK a, b : A = {"USDT", a, b} /\ a # b /\ a # "USDT" /\ b # "USDT"
  <2> HIDE DEF A
  <2>1. IsFiniteSet(A \ {"USDT"}) /\ Cardinality(A \ {"USDT"}) = 2
    BY <1>2, <1>3, FS_RemoveElement
  <2>2. PICK a : a \in A \ {"USDT"}
    BY <2>1, FS_EmptySet
  <2>3. /\ IsFiniteSet((A \ {"USDT"}) \ {a}) /\ Cardinality((A \ {"USDT"}) \ {a}) = 1
    BY <2>1, <2>2, FS_RemoveElement
  <2>4. PICK b : (A \ {"USDT"}) \ {a} = {b}
    BY <2>3, FS_Singleton
  <2>5. A = {"USDT", a, b} /\ a # b /\ a # "USDT" /\ b # "USDT"
    BY <1>3, <2>2, <2>4
  <2> QED
    BY <2>5
<1>5. ASSUME NEW i \in Positions
      PROVE  base(i) \in {"USDT", a, b} /\ quote(i) \in {"USDT", a, b} /\ base(i) # quote(i)
  <2>1. base(i) \in A /\ quote(i) \in A
    BY DEF GroupAssets
  <2>2. base(i) # quote(i)
    BY DEF Tradable
  <2> QED
    BY <1>4, <2>1, <2>2
\* Were an asset on all three markets it would be there three times.
<1>6. ASSUME NEW c \in {"USDT", a, b}
      PROVE  \E i \in Positions : base(i) # c /\ quote(i) # c
  <2> SUFFICES ASSUME \A i \in Positions : base(i) = c \/ quote(i) = c PROVE FALSE
    OBVIOUS
  <2> DEFINE At(i) == Count(markets[i].base = c) + Count(markets[i].quote = c)
  <2>1. \A i \in Positions : At(i) = 1
    BY <1>5 DEF Count
  <2>2. 1 \in Positions /\ 2 \in Positions /\ 3 \in Positions
    BY DEF Positions
  <2>3. Degree(markets, c) = At(1) + At(2) + At(3)
    BY DEF Degree
  <2>4. Degree(markets, c) = 2
    BY <1>4 DEF ClosedLoop
  <2> HIDE DEF At
  <2> QED
    BY <2>1, <2>2, <2>3, <2>4
<1>7. \A i \in Positions : {base(i), quote(i)} \in {{"USDT", a}, {a, b}, {b, "USDT"}}
  <2> SUFFICES ASSUME NEW i \in Positions
               PROVE  {base(i), quote(i)} \in {{"USDT", a}, {a, b}, {b, "USDT"}}
    OBVIOUS
  <2>1. base(i) \in {"USDT", a, b} /\ quote(i) \in {"USDT", a, b} /\ base(i) # quote(i)
    BY <1>5
  <2> HIDE DEF base, quote
  <2> QED
    BY <2>1
<1>8. /\ \E i \in Positions : {base(i), quote(i)} = {a, b}
      /\ \E i \in Positions : {base(i), quote(i)} = {b, "USDT"}
      /\ \E i \in Positions : {base(i), quote(i)} = {"USDT", a}
  <2> HIDE DEF base, quote
  <2>1. \E i \in Positions : {base(i), quote(i)} = {a, b}
    <3>1. PICK i \in Positions : base(i) # "USDT" /\ quote(i) # "USDT"
      BY <1>6
    <3> QED
      BY <1>7, <3>1
  <2>2. \E i \in Positions : {base(i), quote(i)} = {b, "USDT"}
    <3>1. PICK i \in Positions : base(i) # a /\ quote(i) # a
      BY <1>6
    <3> QED
      BY <1>7, <3>1
  <2>3. \E i \in Positions : {base(i), quote(i)} = {"USDT", a}
    <3>1. PICK i \in Positions : base(i) # b /\ quote(i) # b
      BY <1>6
    <3> QED
      BY <1>7, <3>1
  <2> QED
    BY <2>1, <2>2, <2>3
<1>9. {{base(i), quote(i)} : i \in Positions} = {{"USDT", a}, {a, b}, {b, "USDT"}}
  <2> HIDE DEF base, quote
  <2> QED
    BY <1>7, <1>8
<1>10. a \in A /\ b \in A
  BY <1>4
<1> QED
  BY <1>4, <1>9, <1>10 DEF Triangle

\* validate_arbitrage() accepts exactly the triangles with USDT, whatever the
\* assets are called and however the three markets are ordered and directed, and
\* gives each two round trips in opposite directions.
THEOREM TrianglesAreBuilt == \A markets : BuildsRoundTrips(markets)
<1> SUFFICES ASSUME NEW markets PROVE BuildsRoundTrips(markets)
  OBVIOUS
<1>1. CASE Triangle(markets)
  BY <1>1, TriangleAccepted DEF BuildsRoundTrips
<1>2. CASE ~Triangle(markets)
  <2>1. ~(Tradable(markets) /\ ClosedLoop(markets) /\ Cardinality(FirstLegs(markets)) = 2)
    BY <1>2, AcceptedIsTriangle
  <2>2. ValidateArbitrage(markets) = <<>>
    BY <2>1 DEF ValidateArbitrage
  <2> QED
    BY <1>2, <2>2 DEF BuildsRoundTrips
<1> QED
  BY <1>1, <1>2

(***************************************************************************)
(* Functions by recursion that keep a range.                               *)
(***************************************************************************)
Iterates(f, V, base, step, n) ==
  /\ f \in [0..n -> V] /\ f[0] = base
  /\ \A i \in 1..n : f[i] = step[<<i, f[i - 1]>>]

\* A step function on an interval has a function by recursion that stays in
\* its range.
LEMMA StepsKeep ==
  ASSUME NEW V, NEW base \in V, NEW n \in Nat, NEW step \in [(1..n) \X V -> V]
  PROVE  \E f : Iterates(f, V, base, step, n)
<1>1. PICK f : Steps(f, base, step, n)
  BY StepsExist
<1>2. f = [i \in 0..n |-> IF i = 0 THEN base ELSE step[<<i, f[i - 1]>>]]
  BY <1>1 DEF Steps
<1>3. f[0] = base /\ \A i \in 1..n : f[i] = step[<<i, f[i - 1]>>]
  <2>1. 0 \in 0..n /\ \A i \in 1..n : i \in 0..n /\ i # 0
    OBVIOUS
  <2> QED
    BY <1>2, <2>1
<1>4. \A i \in 1..n : f[i - 1] \in V => f[i] \in V
  BY <1>3
<1>5. \A i \in 0..n : f[i] \in V
  BY <1>3, <1>4, StepsStay
<1>6. f \in [0..n -> V]
  BY <1>2, <1>5
<1> QED
  BY <1>3, <1>6 DEF Iterates

(***************************************************************************)
(* Markets and the sizing of orders.                                       *)
(***************************************************************************)
Ranges ==
  [base : Assets, quote : Assets, tick : Nat, step : Nat, min_price : Nat, max_price : Nat,
   min_qty : Nat, max_qty : Nat, min_notional : Nat, max_notional : Nat]

\* A filter sets some of a market's limits.
LEMMA FilterTypes ==
  ASSUME NEW market \in Ranges, NEW filter,
         filter.value \in Seq(Nat), Len(filter.value) >= Taken(filter.type)
  PROVE  /\ WithFilter(market, filter) \in Ranges
         /\ WithFilter(market, filter).base = market.base
         /\ WithFilter(market, filter).quote = market.quote
<1> DEFINE v == filter.value
<1>1. CASE filter.type = "PRICE_FILTER"
  <2>1. v[1] \in Nat /\ v[2] \in Nat /\ v[3] \in Nat
    BY <1>1 DEF Taken
  <2>2. WithFilter(market, filter) =
          [market EXCEPT !.tick = v[1], !.min_price = v[2], !.max_price = v[3]]
    BY <1>1 DEF WithFilter
  <2> QED
    BY <2>1, <2>2 DEF Ranges
<1>2. CASE filter.type = "LOT_SIZE"
  <2>1. v[1] \in Nat /\ v[2] \in Nat /\ v[3] \in Nat
    BY <1>2 DEF Taken
  <2>2. WithFilter(market, filter) =
          [market EXCEPT !.step = v[1], !.min_qty = v[2], !.max_qty = v[3]]
    BY <1>2 DEF WithFilter
  <2> QED
    BY <2>1, <2>2 DEF Ranges
<1>3. CASE filter.type = "MIN_NOTIONAL"
  <2>1. v[1] \in Nat /\ market.min_notional \in Nat
    BY <1>3 DEF Taken, Ranges
  <2>2. WithFilter(market, filter) =
          [market EXCEPT !.min_notional = Larger(market.min_notional, v[1])]
    BY <1>3 DEF WithFilter
  <2>3. Larger(market.min_notional, v[1]) \in Nat
    BY <2>1 DEF Larger
  <2> QED
    BY <2>2, <2>3 DEF Ranges
<1>4. CASE filter.type = "NOTIONAL"
  <2>1. v[1] \in Nat /\ v[2] \in Nat /\ market.min_notional \in Nat
    <3>1. Taken(filter.type) = 2
      BY <1>4 DEF Taken
    <3>2. Len(v) >= 2 /\ v \in Seq(Nat)
      BY <3>1
    <3> HIDE DEF v
    <3>3. v[1] \in Nat /\ v[2] \in Nat
      BY ONLY <3>2
    <3>4. market.min_notional \in Nat
      BY DEF Ranges
    <3> QED
      BY <3>3, <3>4
  <2>2. WithFilter(market, filter) =
          [market EXCEPT !.min_notional = Larger(market.min_notional, v[1]),
                         !.max_notional = v[2]]
    BY <1>4 DEF WithFilter
  <2>3. Larger(market.min_notional, v[1]) \in Nat
    BY <2>1 DEF Larger
  <2> QED
    BY <2>1, <2>2, <2>3 DEF Ranges
<1>5. CASE filter.type \notin {"PRICE_FILTER", "LOT_SIZE", "MIN_NOTIONAL", "NOTIONAL"}
  BY <1>5 DEF WithFilter
<1> QED
  BY <1>1, <1>2, <1>3, <1>4, <1>5

\* A market that was loaded has its assets, its limits and positive steps.
LEMMA MarketTypes ==
  ASSUME NEW s \in Symbols
  PROVE  /\ Markets[s] \in Ranges
         /\ Markets[s].base = Info[s].base /\ Markets[s].quote = Info[s].quote
         /\ Markets[s].base # Markets[s].quote
         /\ Markets[s].tick > 0 /\ Markets[s].step > 0
<1> DEFINE item == Info[s]
           filters == item.filters
           n == Len(filters)
           V == {market \in Ranges : market.base = item.base /\ market.quote = item.quote}
           Body(market, i) == WithFilter(market, filters[i])
           step == [m \in (1..n) \X V |-> Body(m[2], m[1])]
           base == Unfiltered(item)
           after == CHOOSE after : after =
                      [i \in 0..n |-> IF i = 0 THEN Unfiltered(item)
                                      ELSE WithFilter(after[i - 1], filters[i])]
<1>1. n \in Nat /\ \A i \in 1..n : filters[i].value \in Seq(Nat)
                                   /\ Len(filters[i].value) >= Taken(filters[i].type)
  <2>1. filters \in Seq([type : STRING, value : Seq(Nat)])
    BY MarketsAssumption
  <2>2. n \in Nat /\ DOMAIN filters = 1..n
    BY <2>1
  <2>3. \A i \in 1..n : filters[i].value \in Seq(Nat)
    <3> DEFINE T == [type : STRING, value : Seq(Nat)]
    <3>1. \A i \in 1..n : filters[i] \in T
      <4>1. filters \in Seq(T)
        BY <2>1
      <4> HIDE DEF filters, T
      <4> QED
        BY <4>1, ElementOfSeq
    <3> HIDE DEF filters, n
    <3> QED
      BY <3>1
  <2> QED
    BY <2>2, <2>3, MarketsAssumption
<1>2. base \in V
  <2>1. item.base \in Assets /\ item.quote \in Assets
    BY DEF Assets
  <2> QED
    BY <2>1 DEF Unfiltered, Ranges
<1>3. ASSUME NEW market \in V, NEW i \in 1..n PROVE Body(market, i) \in V
  <2>1. filters[i].value \in Seq(Nat) /\ Len(filters[i].value) >= Taken(filters[i].type)
    BY <1>1
  <2>2. market \in Ranges /\ market.base = item.base /\ market.quote = item.quote
    OBVIOUS
  <2> HIDE DEF filters, item
  <2> QED
    BY <2>1, <2>2, FilterTypes
<1>4. step \in [(1..n) \X V -> V]
  <2> HIDE DEF V, Body, n
  <2> QED
    BY <1>3
<1>5. PICK f : Iterates(f, V, base, step, n)
  <2>1. n \in Nat
    BY <1>1
  <2> HIDE DEF V, n, step, base
  <2> QED
    BY <2>1, <1>2, <1>4, StepsKeep
<1>6. \A i \in 1..n : f[i] = Body(f[i - 1], i)
  <2> HIDE DEF V, n, Body
  <2>1. \A i \in 1..n : f[i - 1] \in V
    BY <1>1, <1>5 DEF Iterates
  <2> QED
    BY <1>5, <2>1 DEF Iterates
<1>7. f = [i \in 0..n |-> IF i = 0 THEN base ELSE Body(f[i - 1], i)]
  <2> HIDE DEF V, n, Body, base, step
  <2>1. \A i \in 0..n : f[i] = IF i = 0 THEN base ELSE Body(f[i - 1], i)
    BY <1>1, <1>5, <1>6 DEF Iterates
  <2> QED
    BY <1>5, <2>1 DEF Iterates
<1>8. after = [i \in 0..n |-> IF i = 0 THEN base ELSE Body(after[i - 1], i)]
  <2> HIDE DEF V, n
  <2> QED
    BY <1>7
<1>9. \A i \in 0..n : after[i] \in V
  <2>1. after[0] \in V
    <3> HIDE DEF V, Body, after, base
    <3> QED
      BY <1>1, <1>2, <1>8
  <2>2. \A i \in 1..n : after[i] = Body(after[i - 1], i)
    <3>1. n \in Nat
      BY <1>1
    <3> HIDE DEF V, Body, after, base, n
    <3>2. \A i \in 1..n : i \in 0..n /\ i # 0
      BY <3>1
    <3> QED
      BY <1>8, <3>2
  <2> HIDE DEF V, Body, after, base, n
  <2>3. \A i \in 1..n : after[i - 1] \in V => after[i] \in V
    BY <1>3, <2>2
  <2> QED
    BY <1>1, <2>1, <2>3, StepsStay
<1>10. LoadMarket(item) = IF item.trading /\ after[n].tick > 0 /\ after[n].step > 0
                          THEN after[n] ELSE None
  BY DEF LoadMarket
<1>11. Markets[s] # None /\ Markets[s] = LoadMarket(item)
  BY MarketsAssumption DEF Markets
<1>12. after[n] \in V
  <2> HIDE DEF V, after
  <2> QED
    BY <1>1, <1>9
<1>13. item.base # item.quote
  BY MarketsAssumption
<1> HIDE DEF after, n
<1> QED
  BY <1>10, <1>11, <1>12, <1>13

\* Factors compare as their products do.
LEMMA FactorLeast ==
  ASSUME NEW p \in Nat \ {0}, NEW x \in Nat, NEW y \in Nat, p * x < p * (y + 1)
  PROVE  x <= y
<1>1. SUFFICES ASSUME y + 1 <= x PROVE FALSE
  OBVIOUS
<1>2. p * (y + 1) <= p * x
  BY <1>1, ProductGrows
<1>3. p * x \in Nat /\ p * (y + 1) \in Nat
  OBVIOUS
<1> QED
  BY <1>2, <1>3

\* A greater number has no smaller quotient.
LEMMA QuotientGrows ==
  ASSUME NEW x \in Nat, NEW y \in Nat, x <= y, NEW n \in Nat \ {0}
  PROVE  x \div n <= y \div n
<1> DEFINE a == x \div n
           b == y \div n
<1>1. a \in Nat /\ n * a <= x
  BY QuotientTypes
<1>2. b \in Nat /\ y < n * (b + 1)
  BY QuotientTypes
<1> HIDE DEF a, b
<1>3. n * a \in Nat /\ n * (b + 1) \in Nat
  BY <1>1, <1>2
<1>4. n * a < n * (b + 1)
  BY <1>1, <1>2, <1>3
<1>5. a <= b
  BY <1>1, <1>2, <1>4, FactorLeast
<1> QED
  BY <1>5 DEF a, b

\* Rounding down gives the greatest multiple below; what is one stays.
LEMMA DownIs ==
  ASSUME NEW value \in Nat, NEW step \in Nat \ {0}
  PROVE  /\ Down(value, step) \in Nat /\ Down(value, step) <= value
         /\ Down(Down(value, step), step) = Down(value, step)
<1> DEFINE k == value \div step
<1>1. k \in Nat /\ step * k <= value
  BY QuotientTypes
<1>2. Down(value, step) = k * step
  BY DEF Down
<1> HIDE DEF k
<1>3. k * step = step * k /\ step * k \in Nat
  BY <1>1
<1>4. (step * k) \div step = k
  BY <1>1, ExactQuotient
<1>5. Down(step * k, step) = k * step
  BY <1>4 DEF Down
<1> QED
  BY <1>1, <1>2, <1>3, <1>5

\* A product of two is no more than that of two greater ones.
LEMMA ProductsGrow ==
  ASSUME NEW p \in Nat, NEW q \in Nat, NEW x \in Nat, NEW y \in Nat, p <= q, x <= y
  PROVE  p * x \in Nat /\ q * y \in Nat /\ p * x <= q * y
<1>1. p * x <= p * y
  BY ProductGrows
<1>2. y * p <= y * q
  BY ProductGrows
<1>3. y * p = p * y /\ y * q = q * y /\ p * x \in Nat /\ p * y \in Nat /\ q * y \in Nat
  OBVIOUS
<1> QED
  BY <1>1, <1>2, <1>3

\* The notional grows with price and quantity.
LEMMA NotionalGrows ==
  ASSUME NEW p \in Nat, NEW q \in Nat, NEW x \in Nat, NEW y \in Nat, p <= q, x <= y
  PROVE  Notional(p, x) \in Nat /\ Notional(q, y) \in Nat /\ Notional(p, x) <= Notional(q, y)
<1>1. p * x \in Nat /\ q * y \in Nat /\ p * x <= q * y
  BY ProductsGrow
<1>2. PriceUnit \in Nat \ {0}
  BY UnitAssumption
<1> DEFINE a == p * x
           b == q * y
<1>3. a \in Nat /\ b \in Nat /\ a <= b
  BY <1>1
<1> HIDE DEF a, b
<1>4. a \div PriceUnit <= b \div PriceUnit /\ a \div PriceUnit \in Nat /\ b \div PriceUnit \in Nat
  BY <1>2, <1>3, QuotientGrows, QuotientTypes
<1> QED
  BY <1>4 DEF Notional, a, b

\* A notional is a natural number.
LEMMA NotionalTypes ==
  ASSUME NEW p \in Nat, NEW x \in Nat
  PROVE  Notional(p, x) \in Nat
<1>1. p <= p /\ x <= x
  OBVIOUS
<1> QED
  BY <1>1, NotionalGrows

\* What can be afforded costs no more than the amount.
LEMMA AffordableFits ==
  ASSUME NEW amount \in Nat, NEW price \in Nat \ {0},
         NEW quantity \in Nat, quantity <= Affordable(amount, price)
  PROVE  Notional(price, quantity) <= amount
<1> DEFINE total == amount * PriceUnit
           most == total \div price
           cost == price * quantity
           notional == cost \div PriceUnit
<1>1. PriceUnit \in Nat \ {0} /\ total \in Nat /\ total = PriceUnit * amount
  BY UnitAssumption
<1>2. most \in Nat /\ price * most <= total
  <2> HIDE DEF total
  <2> QED
    BY <1>1, QuotientTypes
<1>3. quantity <= most
  BY DEF Affordable
<1>4. cost \in Nat /\ cost <= total
  <2> HIDE DEF most, total
  <2>1. price * quantity <= price * most /\ price * quantity \in Nat /\ price * most \in Nat
    BY <1>2, <1>3, ProductGrows
  <2> QED
    BY <1>1, <1>2, <2>1
<1>5. notional \in Nat /\ PriceUnit * notional <= cost
  <2> HIDE DEF cost
  <2> QED
    BY <1>1, <1>4, QuotientTypes
<1>6. PriceUnit * notional < PriceUnit * (amount + 1)
  <2> HIDE DEF notional, cost, total
  <2>1. PriceUnit * (amount + 1) = PriceUnit * amount + PriceUnit /\ PriceUnit * notional \in Nat
    BY <1>1, <1>5
  <2> QED
    BY <1>1, <1>4, <1>5, <2>1
<1>7. notional <= amount
  <2> HIDE DEF notional
  <2> QED
    BY <1>1, <1>5, <1>6, FactorLeast
<1> QED
  BY <1>7 DEF Notional

\* An order for a price and a quantity is what an amount pays for.
PaidBy(market, leg, amount, price, quantity) ==
  IF leg.buy THEN Notional(price, quantity) <= amount ELSE quantity <= amount

\* An order of the fast path has a lawful price and quantity that its amount
\* pays for.
LEMMA PreparedFits ==
  ASSUME NEW market \in Ranges, market.tick > 0, market.step > 0, NEW leg, leg.buy \in BOOLEAN,
         NEW amount \in Nat, NEW rate \in Positive,
         NEW order, order = PrepareFast(market, leg, amount, rate), order # None
  PROVE  /\ order.price = AcceptedPrice(rate, market.tick)
         /\ order.quantity = Sized(market, leg, amount, order.price)
         /\ order.price \in Nat \ {0} /\ order.quantity \in Nat
         /\ Valid(market, order.price, order.quantity)
         /\ Down(order.price, market.tick) = order.price
         /\ Down(order.quantity, market.step) = order.quantity
         /\ PaidBy(market, leg, amount, order.price, order.quantity)
<1> DEFINE price == AcceptedPrice(rate, market.tick)
           quantity == Sized(market, leg, amount, price)
<1>1. /\ Valid(market, price, quantity) /\ order = [price |-> price, quantity |-> quantity]
      /\ order.price = price /\ order.quantity = quantity
  <2> HIDE DEF price, quantity
  <2>1. order = IF Valid(market, price, quantity)
                THEN [price |-> price, quantity |-> quantity] ELSE None
    BY DEF PrepareFast, price, quantity
  <2> QED
    BY <2>1
<1>2. market.tick \in Nat \ {0} /\ market.step \in Nat \ {0}
  BY DEF Ranges
<1>3. price \in Nat /\ Down(price, market.tick) = price
  <2> DEFINE t == market.tick
             m == 2 * PriceUnit * rate.n + t * rate.d
             n == 2 * t * rate.d
             k == m \div n
  <2>1. rate.n \in Nat \ {0} /\ rate.d \in Nat \ {0} /\ t \in Nat \ {0} /\ PriceUnit \in Nat \ {0}
    BY <1>2, UnitAssumption DEF Positive
  <2>2. m \in Nat /\ n \in Nat \ {0}
    <3> HIDE DEF t
    <3> QED
      BY <2>1
  <2>3. k \in Nat
    <3> HIDE DEF m, n
    <3> QED
      BY <2>2, QuotientTypes
  <2>4. price = k * t
    BY DEF AcceptedPrice
  <2> HIDE DEF price, t, k
  <2>5. k * t = t * k /\ t * k \in Nat
    BY <2>1, <2>3
  <2>6. (t * k) \div t = k
    BY <2>1, <2>3, ExactQuotient
  <2>7. Down(t * k, t) = k * t
    BY <2>6 DEF Down
  <2> QED
    BY <2>4, <2>5, <2>7 DEF t
<1>4. price \in Nat \ {0}
  <2> HIDE DEF price
  <2> QED
    BY <1>1, <1>3 DEF Valid
<1> HIDE DEF price
<1> DEFINE raw == IF leg.buy THEN Affordable(amount, price) ELSE amount
<1>5. raw \in Nat /\ quantity = Down(raw, market.step)
  <2>1. Affordable(amount, price) \in Nat
    <3>1. amount * PriceUnit \in Nat
      BY UnitAssumption
    <3> QED
      BY <1>4, <3>1, QuotientTypes DEF Affordable
  <2> QED
    BY <2>1 DEF Sized
<1> HIDE DEF quantity, raw
<1>6. quantity \in Nat /\ quantity <= raw /\ Down(quantity, market.step) = quantity
  BY <1>2, <1>5, DownIs
<1>7. PaidBy(market, leg, amount, price, quantity)
  <2>1. CASE leg.buy
    BY <1>4, <1>6, <2>1, AffordableFits DEF PaidBy, raw
  <2>2. CASE ~leg.buy
    BY <1>6, <2>2 DEF PaidBy, raw
  <2> QED
    BY <2>1, <2>2
<1> QED
  BY <1>1, <1>3, <1>4, <1>6, <1>7 DEF quantity, price

(***************************************************************************)
(* The simulated exchange.                                                 *)
(***************************************************************************)
Cost(order, r) == IF order.buy THEN r.quote ELSE r.filled
Proceeds(order, r) == IF order.buy THEN r.filled ELSE r.quote
SpentBy(order) == Spent(Markets[order.symbol], order.buy)
ReceivedBy(order) == Received(Markets[order.symbol], order.buy)
SideOf(order) == [symbol |-> order.symbol, buy |-> order.buy]

\* What a report of an order changes of an asset.
Change(order, r, a) ==
  (IF a = ReceivedBy(order) THEN Proceeds(order, r) - Commission(Proceeds(order, r)) ELSE 0)
    - (IF a = SpentBy(order) THEN Cost(order, r) ELSE 0)

\* A commission is taken of the proceeds and no more.
LEMMA CommissionFits ==
  ASSUME NEW proceeds \in Nat
  PROVE  Commission(proceeds) \in Nat /\ Commission(proceeds) <= proceeds
<1>1. FeePart \in Nat \ {0}
  BY ScanAssumption
<1> DEFINE c == proceeds \div FeePart
<1>2. c \in Nat /\ FeePart * c <= proceeds
  BY <1>1, QuotientTypes
<1> HIDE DEF c
<1>3. c <= FeePart * c
  <2>1. c * 1 <= c * FeePart
    BY <1>1, <1>2, ProductGrows
  <2>2. c * 1 = c /\ c * FeePart = FeePart * c
    BY <1>1, <1>2
  <2> QED
    BY <2>1, <2>2
<1>4. FeePart * c \in Nat
  BY <1>1, <1>2
<1> QED
  BY <1>2, <1>3, <1>4 DEF Commission, c

\* An order's assets and its side of the book.
LEMMA OrderTypes ==
  ASSUME NEW order \in Requests
  PROVE  /\ order.symbol \in Symbols /\ order.buy \in BOOLEAN /\ order.price \in Nat
         /\ order.quantity \in Nat /\ order.id \in OrderIds /\ order.initial_clear \in BOOLEAN
         /\ Markets[order.symbol] \in Ranges /\ Markets[order.symbol].step > 0
         /\ SpentBy(order) \in Assets /\ ReceivedBy(order) \in Assets
         /\ SpentBy(order) # ReceivedBy(order)
         /\ SideOf(order) \in Sides
<1>1. /\ order.symbol \in Symbols /\ order.buy \in BOOLEAN /\ order.price \in Nat
      /\ order.quantity \in Nat /\ order.id \in OrderIds /\ order.initial_clear \in BOOLEAN
  BY DEF Requests
<1>2. /\ Markets[order.symbol] \in Ranges /\ Markets[order.symbol].step > 0
      /\ Markets[order.symbol].base # Markets[order.symbol].quote
  BY <1>1, MarketTypes
<1> QED
  BY <1>1, <1>2 DEF Ranges, SpentBy, ReceivedBy, Spent, Received, SideOf, Sides

\* A report of an order: what it filled is within the order, and its only
\* commission is the one of the proceeds.
Reported(order, r) ==
  /\ r \in OrderReports /\ r.revision = 1
  /\ r.status = "Rejected" => r.filled = 0
  /\ r.filled <= order.quantity
  /\ order.buy => r.quote <= Notional(order.price, order.quantity)
  /\ \A a \in Assets :
       r.commissions[a] = IF a = ReceivedBy(order) THEN Commission(Proceeds(order, r)) ELSE 0

\* The wallet after a report.
Paid(order, r, balances) ==
  /\ balances \in [Assets -> Nat]
  /\ \A a \in Assets : balances[a] = wallet[a] + Change(order, r, a)

\* What is counted of the side after a report.
Counted(order, r, book, usage) ==
  /\ usage \in [id : Int, used : Nat]
  /\ \/ usage = consumed[SideOf(order)] /\ r.filled = 0
     \/ /\ book # None /\ usage.id = book.id
        /\ usage.used = UsedNow(SideOf(order), book) + r.filled
        /\ r.filled > 0 => usage.used <= Liquidity(book, order.buy)

\* A fill that fills nothing changes nothing.
LEMMA UnfilledIs ==
  ASSUME NEW order \in Requests, NEW status \in {"Filled", "Expired", "Rejected", "Unknown"},
         wallet \in [Assets -> Nat]
  PROVE  Reported(order, Unfilled(status)) /\ Paid(order, Unfilled(status), wallet)
<1> DEFINE r == Unfilled(status)
<1>1. NoFee \in [Assets -> Nat]
  BY DEF NoFee
<1>2. r = [revision |-> 1, status |-> status, filled |-> 0, quote |-> 0, commissions |-> NoFee]
  BY DEF Unfilled, Report
<1>3. r \in OrderReports /\ r.revision = 1 /\ r.filled = 0 /\ r.quote = 0 /\ r.commissions = NoFee
  BY <1>1, <1>2 DEF OrderReports
<1> HIDE DEF r
<1>4. Proceeds(order, r) = 0 /\ Cost(order, r) = 0
  BY <1>3 DEF Proceeds, Cost
<1>5. Commission(0) = 0
  <2>1. Commission(0) \in Nat /\ Commission(0) <= 0
    BY CommissionFits
  <2> QED
    BY <2>1
<1>6. order.quantity \in Nat /\ order.price \in Nat /\ Notional(order.price, order.quantity) \in Nat
  BY OrderTypes, NotionalTypes
<1>7. \A a \in Assets : Change(order, r, a) = 0
  BY <1>4, <1>5 DEF Change
<1>8. Paid(order, r, wallet)
  BY <1>7 DEF Paid
<1>9. Reported(order, r)
  BY <1>3, <1>4, <1>5, <1>6 DEF Reported, NoFee
<1> QED
  BY <1>8, <1>9 DEF r

\* A balance after its order's cost and proceeds, as the code writes it.
Moved(balances, spend, receive, cost, gain) ==
  [balances EXCEPT ![spend] = @ - cost, ![receive] = @ + gain]
\* Such a balance changes by the gain at one asset and by the cost at the other.
LEMMA MovedIs ==
  ASSUME NEW balances \in [Assets -> Int], NEW spend \in Assets, NEW receive \in Assets,
         spend # receive, NEW cost \in Int, NEW gain \in Int
  PROVE  /\ Moved(balances, spend, receive, cost, gain) \in [Assets -> Int]
         /\ \A a \in Assets :
              Moved(balances, spend, receive, cost, gain)[a] =
                balances[a] + (IF a = receive THEN gain ELSE 0) - (IF a = spend THEN cost ELSE 0)
BY DEF Moved

\* What the simulated exchange does with an order at a book.
LEMMA FillIs ==
  ASSUME wallet \in [Assets -> Nat], consumed \in [Sides -> [id : Int, used : Nat]],
         NEW order \in Requests, NEW book \in BookTypes \cup {None}
  PROVE  /\ Reported(order, Fill(order, book).report)
         /\ Paid(order, Fill(order, book).report, Fill(order, book).wallet)
         /\ Counted(order, Fill(order, book).report, book, Fill(order, book).usage)
<1> DEFINE market == Markets[order.symbol]
           side == [symbol |-> order.symbol, buy |-> order.buy]
           price == Price(book, order.buy)
           used == UsedNow(side, book)
           available == Liquidity(book, order.buy) - used
           worse == IF order.buy THEN price > order.price ELSE price < order.price
           base == Down(IF available < order.quantity THEN available ELSE order.quantity, market.step)
           quote == Notional(price, base)
           spend == Spent(market, order.buy)
           receive == Received(market, order.buy)
           cost == IF order.buy THEN quote ELSE base
           proceeds == IF order.buy THEN base ELSE quote
           usage(more) == [id |-> book.id, used |-> used + more]
           filled == Report(IF base = order.quantity THEN "Filled" ELSE "Expired", base, quote,
                            [NoFee EXCEPT ![receive] = Commission(proceeds)])
           balances == [wallet EXCEPT ![spend] = @ - cost,
                                      ![receive] = @ + proceeds - FeeTaken(proceeds)]
           fill == Fill(order, book)
           A == ~Lawful(market, order) \/ book = None
           B == price <= 0 \/ available <= 0 \/ worse
                  \/ (~order.initial_clear /\ available < order.quantity)
           C == base <= 0 \/ wallet[spend] < cost
<1>1. fill =
        IF A THEN [report |-> Unfilled("Rejected"), usage |-> consumed[side], wallet |-> wallet]
        ELSE IF B THEN [report |-> Unfilled("Expired"), usage |-> usage(0), wallet |-> wallet]
        ELSE IF C THEN [report |-> Unfilled("Rejected"), usage |-> usage(0), wallet |-> wallet]
        ELSE [report |-> filled, usage |-> usage(base), wallet |-> balances]
  BY DEF Fill
<1>2. side \in Sides /\ side = SideOf(order) /\ consumed[side] \in [id : Int, used : Nat]
  BY OrderTypes DEF SideOf
<1>3. Unfilled("Rejected").filled = 0 /\ Unfilled("Expired").filled = 0
  BY DEF Unfilled, Report
<1>4. CASE A
  <2>1. /\ fill.report = Unfilled("Rejected") /\ fill.usage = consumed[side]
        /\ fill.wallet = wallet
    <3> HIDE DEF A, B, C, filled, balances, usage, side, fill
    <3> QED
      BY <1>1, <1>4
  <2>2. Counted(order, fill.report, book, fill.usage)
    BY <1>2, <1>3, <2>1 DEF Counted
  <2> QED
    BY <2>1, <2>2, UnfilledIs
<1>5. ASSUME ~A
      PROVE  /\ book \in BookTypes /\ book # None /\ book.id \in Nat
             /\ used \in Nat /\ price \in Nat /\ Liquidity(book, order.buy) \in Nat
  <2>1. book \in BookTypes /\ book # None
    BY <1>5
  <2>2. price \in Nat /\ Liquidity(book, order.buy) \in Nat
    BY <2>1, OrderTypes, LevelTypes
  <2>3. used \in Nat
    BY <1>2 DEF UsedNow
  <2> QED
    BY <2>1, <2>2, <2>3 DEF BookTypes
<1>6. CASE ~A /\ (B \/ C)
  <2>1. PICK status \in {"Expired", "Rejected"} :
          B \/ C => /\ fill.report = Unfilled(status) /\ fill.usage = usage(0)
                   /\ fill.wallet = wallet
    <3> HIDE DEF A, B, C, filled, balances, usage, side, fill
    <3> QED
      BY <1>1, <1>6
  <2>2. fill.report = Unfilled(status) /\ fill.usage = usage(0) /\ fill.wallet = wallet
    <3> HIDE DEF A, B, C, usage, fill
    <3> QED
      BY <1>6, <2>1
  <2>3. usage(0).id = book.id /\ usage(0).used = used + 0 /\ usage(0) \in [id : Int, used : Nat]
    BY <1>5, <1>6
  <2>4. fill.report.filled = 0
    BY <1>3, <2>2
  <2>5. Counted(order, fill.report, book, fill.usage)
    <3> HIDE DEF A, B, C, usage, used, fill
    <3> QED
      BY <1>2, <1>5, <1>6, <2>2, <2>3, <2>4 DEF Counted, used
  <2> QED
    BY <2>2, <2>5, UnfilledIs
<1>7. CASE ~A /\ ~B /\ ~C
  <2>1. fill.report = filled /\ fill.usage = usage(base) /\ fill.wallet = balances
    <3> HIDE DEF A, B, C, filled, balances, usage, side, fill
    <3> QED
      BY <1>1, <1>7
  <2>2. /\ available \in Nat /\ used \in Nat /\ price \in Nat /\ order.quantity \in Nat
        /\ order.price \in Nat /\ used + available = Liquidity(book, order.buy)
        /\ order.buy => price <= order.price
    <3>1. Liquidity(book, order.buy) \in Nat /\ used \in Nat /\ price \in Nat
      BY <1>5, <1>7
    <3>2. order.quantity \in Nat /\ order.price \in Nat
      BY OrderTypes
    <3>3. ~(available <= 0) /\ ~worse
      BY <1>7
    <3> HIDE DEF used, price
    <3> QED
      BY <3>1, <3>2, <3>3
  <2>3. base \in Nat /\ base <= order.quantity /\ base <= available
    <3> DEFINE most == IF available < order.quantity THEN available ELSE order.quantity
    <3>1. most \in Nat /\ most <= order.quantity /\ most <= available
      <4> HIDE DEF available
      <4> QED
        BY <2>2
    <3>2. market.step \in Nat \ {0}
      BY OrderTypes DEF Ranges
    <3>3. base = Down(most, market.step)
      OBVIOUS
    <3> HIDE DEF most, base, available
    <3>4. Down(most, market.step) \in Nat /\ Down(most, market.step) <= most
      BY <3>1, <3>2, DownIs
    <3> QED
      BY <2>2, <3>1, <3>3, <3>4
  <2>4. quote \in Nat /\ (order.buy => quote <= Notional(order.price, order.quantity))
    <3> HIDE DEF base, price
    <3>1. quote \in Nat
      BY <2>2, <2>3, NotionalTypes
    <3>2. order.buy => quote <= Notional(order.price, order.quantity)
      BY <2>2, <2>3, NotionalGrows
    <3> QED
      BY <3>1, <3>2
  <2>5. spend \in Assets /\ receive \in Assets /\ spend = SpentBy(order)
        /\ receive = ReceivedBy(order) /\ spend # receive
    BY OrderTypes DEF SpentBy, ReceivedBy
  <2>6. cost \in Nat /\ proceeds \in Nat /\ cost <= wallet[spend] /\ wallet[spend] \in Nat
    <3>1. ~(wallet[spend] < cost)
      BY <1>7
    <3> HIDE DEF base, quote, spend
    <3> QED
      BY <2>3, <2>4, <2>5, <3>1
  <2>7. Commission(proceeds) \in Nat /\ Commission(proceeds) <= proceeds
    <3> HIDE DEF proceeds
    <3> QED
      BY <2>6, CommissionFits
  <2> DEFINE fees == [NoFee EXCEPT ![receive] = Commission(proceeds)]
             status == IF base = order.quantity THEN "Filled" ELSE "Expired"
  <2>8. /\ fees \in [Assets -> Nat]
        /\ \A a \in Assets : fees[a] = IF a = receive THEN Commission(proceeds) ELSE 0
    <3> HIDE DEF receive, proceeds
    <3> QED
      BY <2>5, <2>7 DEF NoFee
  <2>9. /\ filled = [revision |-> 1, status |-> status, filled |-> base, quote |-> quote,
                    commissions |-> fees]
        /\ status \in {"Filled", "Expired"}
    BY DEF Report
  <2>10. /\ filled \in OrderReports /\ filled.revision = 1 /\ filled.status # "Rejected"
         /\ filled.filled = base /\ filled.quote = quote /\ filled.commissions = fees
    <3> HIDE DEF filled, fees, status, base, quote
    <3> QED
      BY <2>3, <2>4, <2>8, <2>9 DEF OrderReports
  <2>11. Proceeds(order, filled) = proceeds /\ Cost(order, filled) = cost
    <3> HIDE DEF filled, fees, base, quote
    <3> QED
      BY <2>10 DEF Proceeds, Cost
  <2>12. Reported(order, filled)
    <3> HIDE DEF filled, fees, base, quote, proceeds, receive
    <3> QED
      BY <2>3, <2>4, <2>5, <2>8, <2>10, <2>11 DEF Reported
  <2>13. balances = Moved(wallet, spend, receive, cost, proceeds - Commission(proceeds))
    <3>1. \A x \in Nat : x + proceeds - Commission(proceeds) = x + (proceeds - Commission(proceeds))
      <4> HIDE DEF proceeds
      <4> QED
        BY <2>6, <2>7
    <3>2. wallet[receive] \in Nat
      BY <2>5
    <3>3. wallet[receive] + proceeds - Commission(proceeds)
            = wallet[receive] + (proceeds - Commission(proceeds))
      <4> HIDE DEF proceeds, receive
      <4> QED
        BY <3>1, <3>2
    <3> HIDE DEF proceeds, receive, spend, cost
    <3> QED
      BY <2>5, <3>3 DEF FeeTaken, Moved
  <2>14. Paid(order, filled, balances)
    <3> DEFINE gain == proceeds - Commission(proceeds)
    <3>1. gain \in Nat
      <4> HIDE DEF proceeds
      <4> QED
        BY <2>6, <2>7
    <3>2. wallet \in [Assets -> Int] /\ cost \in Int /\ gain \in Int
      <4> HIDE DEF cost, gain
      <4> QED
        BY <2>6, <3>1
    <3>3. /\ balances \in [Assets -> Int]
          /\ \A a \in Assets : balances[a] =
               wallet[a] + (IF a = receive THEN gain ELSE 0) - (IF a = spend THEN cost ELSE 0)
      <4> HIDE DEF cost, proceeds, receive, spend, balances
      <4> QED
        BY <2>5, <2>13, <3>2, MovedIs
    <3>4. \A a \in Assets : balances[a] \in Nat
      <4> HIDE DEF cost, gain, receive, spend, balances
      <4>1. \A a \in Assets : wallet[a] \in Nat
        OBVIOUS
      <4> QED
        BY <2>6, <3>1, <3>3, <4>1
    <3>5. \A a \in Assets : Change(order, filled, a) =
            (IF a = receive THEN gain ELSE 0) - (IF a = spend THEN cost ELSE 0)
      <4> HIDE DEF cost, proceeds, receive, spend, filled
      <4> QED
        BY <2>5, <2>11 DEF Change
    <3>6. balances \in [Assets -> Nat]
      <4> HIDE DEF balances
      <4> QED
        BY <3>3, <3>4
    <3>7. \A a \in Assets : balances[a] = wallet[a] + Change(order, filled, a)
      <4> HIDE DEF cost, gain, receive, spend, balances, filled
      <4>1. \A a \in Assets : wallet[a] \in Nat
        OBVIOUS
      <4> QED
        BY <2>6, <3>1, <3>3, <3>5, <4>1
    <3> HIDE DEF balances, filled
    <3> QED
      BY <3>6, <3>7 DEF Paid
  <2>15. /\ usage(base).id = book.id /\ usage(base).used = used + base
         /\ usage(base) \in [id : Int, used : Nat]
    <3> HIDE DEF base, used
    <3> QED
      BY <1>5, <1>7, <2>2, <2>3
  <2>16. used + base <= Liquidity(book, order.buy)
    <3> HIDE DEF base, used, available
    <3> QED
      BY <2>2, <2>3
  <2>17. Counted(order, filled, book, usage(base))
    <3>1. used = UsedNow(SideOf(order), book) /\ book # None
      BY <1>2, <1>5, <1>7
    <3> HIDE DEF base, used, available, usage, filled
    <3> QED
      BY <2>10, <2>15, <2>16, <3>1 DEF Counted
  <2>18. /\ Reported(order, fill.report) /\ Paid(order, fill.report, fill.wallet)
         /\ Counted(order, fill.report, book, fill.usage)
    <3> HIDE DEF fill, filled, balances, usage
    <3> QED
      BY <2>1, <2>12, <2>14, <2>17
  <2> QED
    BY <2>18
<1> QED
  BY <1>4, <1>6, <1>7

(***************************************************************************)
(* Opportunities.                                                          *)
(***************************************************************************)
\* The paths of an accepted group are legs on its markets.
LEMMA AcceptedLegs ==
  ASSUME NEW markets, Triangle(markets), NEW p \in {1, 2}, NEW i \in Positions
  PROVE  /\ ValidateArbitrage(markets)[p][i].index \in Positions
         /\ ValidateArbitrage(markets)[p][i].buy \in BOOLEAN
<1>0. Tradable(markets)
  BY DEF Triangle
<1>1. \E x, y, z, a, b : Loop(markets, x, y, z, a, b) /\ x < z
  <2>1. PICK x, y, z, a, b : Loop(markets, x, y, z, a, b)
    BY LoopExists
  <2>2. Loop(markets, z, y, x, b, a)
    BY <2>1, LoopTurned
  <2>3. x < z \/ z < x
    <3>1. x \in 1..3 /\ z \in 1..3 /\ x # z
      BY <2>1 DEF Loop, Positions
    <3> QED
      BY <3>1
  <2> QED
    BY <2>1, <2>2, <2>3
<1>2. PICK x, y, z, a, b : Loop(markets, x, y, z, a, b) /\ x < z
  BY <1>1
<1>3. x \in Positions /\ y \in Positions /\ z \in Positions
  BY <1>2 DEF Loop
<1>4. ValidateArbitrage(markets) =
        <<Around(markets, x, y, z, a, b), Around(markets, z, y, x, b, a)>>
  BY <1>0, <1>2, LoopAccepted
<1>5. ASSUME NEW u \in Positions, NEW v \in Positions, NEW w \in Positions, NEW c, NEW d
      PROVE  /\ Around(markets, u, v, w, c, d)[i].index \in Positions
             /\ Around(markets, u, v, w, c, d)[i].buy \in BOOLEAN
  <2>1. i = 1 \/ i = 2 \/ i = 3
    BY DEF Positions
  <2>2. \A j, e : Leg(markets, j, e).index = j /\ Leg(markets, j, e).buy \in BOOLEAN
    BY DEF Leg
  <2>3. Around(markets, u, v, w, c, d)[i] \in
          {Leg(markets, u, "USDT"), Leg(markets, v, c), Leg(markets, w, d)}
    BY <2>1 DEF Around
  <2> QED
    BY <2>2, <2>3
<1>6. ValidateArbitrage(markets)[p] \in {Around(markets, x, y, z, a, b), Around(markets, z, y, x, b, a)}
  BY <1>4
<1> QED
  BY <1>3, <1>5, <1>6

\* The configured groups have two paths of three legs each.
LEMMA GroupTypes ==
  /\ DOMAIN Groups = 1..Len(Triangles) /\ Len(Triangles) \in Nat
  /\ \A g \in DOMAIN Groups : \A p \in {1, 2} : Groups[g].paths[p] \in [1..3 -> Legs]
<1>1. /\ DOMAIN Triangles = 1..Len(Triangles) /\ Len(Triangles) \in Nat
      /\ \A g \in DOMAIN Triangles : Triangles[g] \in [Positions -> Symbols]
  <2> DEFINE T == [Positions -> Symbols]
  <2>1. Triangles \in Seq(T)
    BY GroupsAssumption
  <2> HIDE DEF T
  <2>2. /\ DOMAIN Triangles = 1..Len(Triangles) /\ Len(Triangles) \in Nat
        /\ \A g \in DOMAIN Triangles : Triangles[g] \in T
    BY <2>1
  <2> QED
    BY <2>2 DEF T
<1>2. DOMAIN Groups = DOMAIN Triangles
  BY DEF Groups
<1>3. ASSUME NEW g \in DOMAIN Triangles, NEW p \in {1, 2}
      PROVE  Groups[g].paths[p] \in [1..3 -> Legs]
  <2> DEFINE paths == ValidateArbitrage(GroupInfo(g))
             leg(i) == [index |-> Triangles[g][paths[p][i].index], buy |-> paths[p][i].buy]
  <2>1. Groups[g].paths[p] = [i \in Positions |-> leg(i)]
    BY DEF Groups
  <2>2. ASSUME NEW i \in Positions PROVE leg(i) \in Legs
    <3>1. paths[p][i].index \in Positions /\ paths[p][i].buy \in BOOLEAN
      <4>1. Triangle(GroupInfo(g))
        BY GroupsAssumption
      <4> QED
        BY <4>1, AcceptedLegs
    <3>2. Triangles[g][paths[p][i].index] \in Symbols
      <4> HIDE DEF paths
      <4> QED
        BY <1>1, <3>1
    <3> HIDE DEF paths
    <3> QED
      BY <3>1, <3>2 DEF Legs
  <2> HIDE DEF leg
  <2> QED
    BY <2>1, <2>2 DEF Positions
<1> QED
  BY <1>1, <1>2, <1>3

\* Different positions of a group are different markets.
LEMMA GroupMarkets ==
  ASSUME NEW g \in DOMAIN Groups, NEW u \in Positions, NEW v \in Positions, u # v
  PROVE  Triangles[g][u] # Triangles[g][v]
<1> DEFINE markets == GroupInfo(g)
<1>1. Triangle(markets)
  BY GroupsAssumption DEF Groups
<1>2. markets[u] = Info[Triangles[g][u]] /\ markets[v] = Info[Triangles[g][v]]
  BY DEF GroupInfo
<1> HIDE DEF markets
<1>3. PICK x, y, z, a, b : Loop(markets, x, y, z, a, b)
  BY <1>1, LoopExists
<1>4. Positions = {x, y, z}
  BY <1>3, LoopPositions
<1>5. /\ {markets[x].base, markets[x].quote} = {"USDT", a}
      /\ {markets[y].base, markets[y].quote} = {a, b}
      /\ {markets[z].base, markets[z].quote} = {b, "USDT"}
      /\ a # b /\ a # "USDT" /\ b # "USDT"
  BY <1>3 DEF Loop, Ends
<1>6. markets[x] # markets[y] /\ markets[y] # markets[z] /\ markets[x] # markets[z]
  <2>1. {"USDT", a} # {a, b} /\ {a, b} # {b, "USDT"} /\ {"USDT", a} # {b, "USDT"}
    BY <1>5
  <2> QED
    BY <1>5, <2>1
<1> QED
  BY <1>2, <1>4, <1>6

\* The configured paths are round trips over three different markets.
LEMMA GroupRoundTrips ==
  ASSUME NEW g \in DOMAIN Groups, NEW p \in {1, 2}
  PROVE  RoundTrip(Info, Groups[g].paths[p])
<1> DEFINE markets == GroupInfo(g)
           built == ValidateArbitrage(markets)[p]
           path == Groups[g].paths[p]
           group == Triangles[g]
<1>1. Triangle(markets)
  BY GroupsAssumption DEF Groups
<1>2. RoundTrip(markets, built)
  BY <1>1, TriangleAccepted DEF GoesRound
<1>3. \A i \in Positions : built[i].index \in Positions
  <2>1. \A i \in Positions : ValidateArbitrage(markets)[p][i].index \in Positions
    BY <1>1, AcceptedLegs
  <2> QED
    BY <2>1
<1>4. path = [i \in Positions |-> [index |-> group[built[i].index], buy |-> built[i].buy]]
  BY DEF Groups
<1>5. \A x \in Positions : markets[x] = Info[group[x]]
  BY DEF GroupInfo
<1>6. Len(path) = 3
  <2>1. path \in [1..3 -> Legs]
    BY GroupTypes
  <2> HIDE DEF path
  <2> QED
    BY <2>1
<1> HIDE DEF markets, built, path
<1>7. \A i \in Positions :
        /\ path[i].index = group[built[i].index] /\ path[i].buy = built[i].buy
        /\ Spends(Info, path[i]) = Spends(markets, built[i])
        /\ Gains(Info, path[i]) = Gains(markets, built[i])
  <2>1. \A i \in Positions :
          /\ path[i].index = group[built[i].index] /\ path[i].buy = built[i].buy
          /\ Info[path[i].index] = markets[built[i].index]
    BY <1>3, <1>4, <1>5
  <2> QED
    BY <2>1 DEF Spends, Gains
<1>8. 1 \in Positions /\ 2 \in Positions /\ 3 \in Positions
  BY DEF Positions
<1>9. \A i, j \in Positions : i # j => path[i].index # path[j].index
  <2>1. ASSUME NEW i \in Positions, NEW j \in Positions, i # j
        PROVE  path[i].index # path[j].index
    <3>1. built[i].index # built[j].index
      BY <1>2, <2>1 DEF RoundTrip
    <3>2. group[built[i].index] # group[built[j].index]
      BY <1>3, <3>1, GroupMarkets
    <3> QED
      BY <1>7, <3>2
  <2> QED
    BY <2>1
<1>10. RoundTrip(Info, path)
  BY <1>2, <1>6, <1>7, <1>8, <1>9 DEF RoundTrip
<1> QED
  BY <1>10 DEF path

Before(e, f) == e[1] < f[1] \/ (e[1] = f[1] /\ e[2] <= f[2])
\* A non-empty set of pairs of natural numbers has a first one.
LEMMA FirstPair ==
  ASSUME NEW E, E \subseteq Nat \X Nat, E # {}
  PROVE  \E e \in E : \A f \in E : Before(e, f)
<1> DEFINE ones == {e[1] : e \in E}
<1>1. PICK m \in ones : \A k \in ones : m <= k
  <2>1. ones \subseteq Nat /\ ones # {}
    OBVIOUS
  <2> HIDE DEF ones
  <2> QED
    BY <2>1, NatLeast
<1> DEFINE twos == {e[2] : e \in {f \in E : f[1] = m}}
<1>2. PICK n \in twos : \A k \in twos : n <= k
  <2>1. twos \subseteq Nat /\ twos # {}
    OBVIOUS
  <2> HIDE DEF twos
  <2> QED
    BY <2>1, NatLeast
<1>3. PICK e \in E : e[1] = m /\ e[2] = n
  BY <1>2
<1>4. ASSUME NEW f \in E PROVE Before(e, f)
  <2>1. f[1] \in Nat /\ f[2] \in Nat /\ m \in Nat /\ n \in Nat
    BY <1>3
  <2>2. m <= f[1]
    BY <1>1
  <2>3. f[1] = m => n <= f[2]
    BY <1>2
  <2> QED
    BY <1>3, <2>1, <2>2, <2>3 DEF Before
<1> QED
  BY <1>4

\* What a scan found: a path of a group and what its scan gave.
EdgeOf(known, path) ==
  [path |-> path, prices |-> Scan(known, path).prices, input |-> Scan(known, path).limit,
   quantities |-> [i \in 1..3 |-> Times(Scan(known, path).quantities[i], Scan(known, path).limit)]]

\* The scan returns a qualifying path of a configured group.
LEMMA EdgeIs ==
  ASSUME NEW known, NEW index, ScanEdge(known, Groups, index) # None
  PROVE  \E g \in DOMAIN Groups : \E p \in {1, 2} :
           /\ Scan(known, Groups[g].paths[p]) # None
           /\ Qualifies(Scan(known, Groups[g].paths[p]).output)
           /\ ScanEdge(known, Groups, index) = EdgeOf(known, Groups[g].paths[p])
<1> DEFINE Has(g, p) == LET scan == Scan(known, Groups[g].paths[p])
                        IN scan # None /\ Qualifies(scan.output)
           edges == {e \in (DOMAIN Groups) \X {1, 2} :
                       (\E i \in 1..3 : Groups[e[1]].symbols[i] = index) /\ Has(e[1], e[2])}
           first == CHOOSE e \in edges :
                      \A f \in edges : e[1] < f[1] \/ (e[1] = f[1] /\ e[2] <= f[2])
           path == Groups[first[1]].paths[first[2]]
<1>1. ScanEdge(known, Groups, index) = IF edges = {} THEN None ELSE EdgeOf(known, path)
  BY DEF ScanEdge, EdgeOf
<1>2. edges # {}
  <2> HIDE DEF edges, path
  <2> QED
    BY <1>1
<1>3. edges \subseteq Nat \X Nat
  BY GroupTypes
<1>4. \E e \in edges : \A f \in edges : Before(e, f)
  <2> HIDE DEF edges
  <2> QED
    BY <1>2, <1>3, FirstPair
<1>5. first \in edges
  <2> HIDE DEF edges
  <2> QED
    BY <1>4 DEF Before
<1> HIDE DEF first
<1>6. /\ first[1] \in DOMAIN Groups /\ first[2] \in {1, 2} /\ Has(first[1], first[2])
  BY <1>5
<1>7. ScanEdge(known, Groups, index) = EdgeOf(known, path)
  <2> HIDE DEF edges, path
  <2> QED
    BY <1>1, <1>2
<1> QED
  BY <1>6, <1>7

Found(found) ==
  /\ found.path \in [1..3 -> Legs] /\ found.input \in Positive
  /\ \A i \in 1..3 : found.prices[i] \in Positive

\* An opportunity has three legs, a price for each and an input.
LEMMA EdgeTypes ==
  ASSUME NEW known \in Books, NEW index, ScanEdge(known, Groups, index) # None
  PROVE  Found(ScanEdge(known, Groups, index))
<1>1. PICK g \in DOMAIN Groups, p \in {1, 2} :
        /\ Scan(known, Groups[g].paths[p]) # None
        /\ ScanEdge(known, Groups, index) = EdgeOf(known, Groups[g].paths[p])
  BY EdgeIs
<1> DEFINE path == Groups[g].paths[p]
           scan == Scan(known, path)
<1>2. path \in [1..3 -> Legs]
  BY GroupTypes
<1>3. scan \in Scans /\ Len(scan.prices) = 3
  <2> HIDE DEF path
  <2> QED
    BY <1>1, <1>2, ScanTypes DEF path
<1>4. scan.limit \in Positive /\ \A i \in 1..3 : scan.prices[i] \in Positive
  <2> HIDE DEF scan
  <2>1. scan.limit \in Positive /\ scan.prices \in Seq(Positive)
    BY <1>3 DEF Scans
  <2> HIDE DEF Positive
  <2> QED
    BY <1>3, <2>1
<1>5. /\ EdgeOf(known, path).path = path /\ EdgeOf(known, path).prices = scan.prices
      /\ EdgeOf(known, path).input = scan.limit
  BY DEF EdgeOf
<1> HIDE DEF path, scan
<1> QED
  BY <1>1, <1>2, <1>4, <1>5 DEF Found, path

\* The budget of an opportunity is a natural number.
LEMMA BudgetTypes ==
  ASSUME NEW input \in Positive, NEW amount \in Budgets(input)
  PROVE  amount \in Nat
<1> DEFINE total == input.n * AssetUnit
           whole == total \div input.d
<1>1. input.n \in Nat \ {0} /\ input.d \in Nat \ {0} /\ AssetUnit \in Nat \ {0}
  BY UnitAssumption DEF Positive
<1>2. total \in Nat \ {0}
  BY <1>1
<1>3. whole \in Nat /\ total = input.d * whole + (total % input.d)
  <2> HIDE DEF total
  <2> QED
    BY <1>1, <1>2, QuotientTypes
<1>4. total % input.d = 0 => whole # 0
  <2> HIDE DEF total, whole
  <2> QED
    BY <1>1, <1>2, <1>3
<1>5. amount = whole \/ (total % input.d = 0 /\ amount = whole - 1)
  BY DEF Budgets
<1> HIDE DEF total, whole
<1> QED
  BY <1>3, <1>4, <1>5

(***************************************************************************)
(* What preflight() promises of a leg.                                     *)
(***************************************************************************)
\* Rounding down keeps the order of amounts.
LEMMA DownGrows ==
  ASSUME NEW x \in Nat, NEW y \in Nat, x <= y, NEW step \in Nat \ {0}
  PROVE  Down(x, step) <= Down(y, step)
<1> DEFINE a == x \div step
           b == y \div step
<1>1. a \in Nat /\ b \in Nat
  BY QuotientTypes
<1>2. a <= b
  BY QuotientGrows
<1> HIDE DEF a, b
<1>3. step * a <= step * b
  BY <1>1, <1>2, ProductGrows
<1>4. step * a = a * step /\ step * b = b * step
  BY <1>1
<1> QED
  BY <1>3, <1>4 DEF Down, a, b

\* Rounding up leaves what is a whole number of steps.
LEMMA UpIs ==
  ASSUME NEW value \in Nat, NEW step \in Nat \ {0}, Down(value, step) = value
  PROVE  Up(value, step) = value
<1> DEFINE k == value \div step
           most == value + step - 1
           q == most \div step
<1>1. k \in Nat /\ value = step * k /\ k * step = value
  <2>1. k \in Nat
    BY QuotientTypes
  <2>2. k * step = value
    BY DEF Down
  <2> QED
    BY <2>1, <2>2
<1>2. most \in Nat
  OBVIOUS
<1>3. q \in Nat /\ step * q <= most /\ most < step * (q + 1)
  <2> HIDE DEF most
  <2> QED
    BY <1>2, QuotientTypes
<1>4. Up(value, step) = q * step
  BY DEF Up
<1> HIDE DEF k, q
<1>5. step * (k + 1) = value + step /\ step * (k + 1) \in Nat /\ step * q \in Nat
  BY <1>1, <1>3
<1>6. q <= k
  <2>1. step * q < step * (k + 1)
    BY <1>3, <1>5
  <2> QED
    BY <1>1, <1>3, <2>1, FactorLeast
<1>7. k <= q
  <2>1. step * k < step * (q + 1) /\ step * (q + 1) \in Nat
    BY <1>1, <1>3
  <2> QED
    BY <1>1, <1>3, <2>1, FactorLeast
<1>8. q = k
  BY <1>1, <1>3, <1>6, <1>7
<1> QED
  BY <1>1, <1>4, <1>8

\* Less money at a higher price buys no more.
LEMMA AffordableGrows ==
  ASSUME NEW x \in Nat, NEW y \in Nat, x <= y,
         NEW low \in Nat \ {0}, NEW high \in Nat \ {0}, low <= high
  PROVE  /\ Affordable(x, high) \in Nat /\ Affordable(y, low) \in Nat
         /\ Affordable(x, high) <= Affordable(y, low)
<1> DEFINE a == x * PriceUnit
           b == y * PriceUnit
           m == a \div high
           n == b \div low
<1>1. PriceUnit \in Nat \ {0}
  BY UnitAssumption
<1>2. a \in Nat /\ b \in Nat /\ a <= b
  <2>1. PriceUnit * x <= PriceUnit * y
    BY <1>1, ProductGrows
  <2> QED
    BY <1>1, <2>1
<1> HIDE DEF a, b
<1>3. m \in Nat /\ high * m <= a /\ n \in Nat /\ b < low * (n + 1)
  BY <1>2, QuotientTypes
<1> HIDE DEF m, n
<1>4. low * m \in Nat /\ high * m \in Nat /\ low * m <= high * m
  <2>1. m <= m
    BY <1>3
  <2> QED
    BY <1>3, <2>1, ProductsGrow
<1>5. low * (n + 1) \in Nat
  BY <1>3
<1>6. low * m < low * (n + 1)
  BY <1>2, <1>3, <1>4, <1>5
<1>7. m <= n
  BY <1>3, <1>6, FactorLeast
<1> QED
  BY <1>3, <1>7 DEF Affordable, a, b, m, n

\* What is left of proceeds after the commission grows with them.
LEMMA NetGrows ==
  ASSUME NEW x \in Nat, NEW y \in Nat, x <= y
  PROVE  /\ x - Commission(x) \in Nat /\ y - Commission(y) \in Nat
         /\ x - Commission(x) <= y - Commission(y)
<1> DEFINE a == x \div FeePart
           b == y \div FeePart
<1>1. FeePart \in Nat \ {0}
  BY ScanAssumption
<1>2. a \in Nat /\ b \in Nat /\ a <= x /\ b <= y
  BY CommissionFits DEF Commission
<1>3. x < FeePart * (a + 1) /\ FeePart * b <= y
  BY <1>1, QuotientTypes
<1>4. Commission(x) = a /\ Commission(y) = b
  BY DEF Commission
<1> HIDE DEF a, b
<1> DEFINE d == y - x
<1>5. d \in Nat /\ y = x + d
  OBVIOUS
<1> HIDE DEF d
<1>6. FeePart * (a + d + 1) = FeePart * (a + 1) + FeePart * d
  BY <1>1, <1>2, <1>5
<1>7. d <= FeePart * d /\ FeePart * d \in Nat
  <2>1. d * 1 <= d * FeePart
    BY <1>1, <1>5, ProductGrows
  <2> QED
    BY <1>1, <1>5, <2>1
<1>8. FeePart * (a + 1) \in Nat /\ FeePart * b \in Nat
  BY <1>1, <1>2
<1>9. FeePart * b < FeePart * ((a + d) + 1)
  BY <1>3, <1>5, <1>6, <1>7, <1>8
<1>10. b <= a + d
  BY <1>1, <1>2, <1>5, <1>9, FactorLeast
<1> QED
  BY <1>2, <1>4, <1>5, <1>10

\* A smaller amount at a price that is no better for it gives no larger order.
LEMMA SizedGrows ==
  ASSUME NEW market \in Ranges, market.step > 0, NEW leg, leg.buy \in BOOLEAN,
         NEW x \in Nat, NEW y \in Nat, x <= y,
         NEW price \in Nat \ {0}, NEW best \in Nat \ {0}, leg.buy => best <= price
  PROVE  /\ Sized(market, leg, x, price) \in Nat /\ Sized(market, leg, y, best) \in Nat
         /\ Sized(market, leg, x, price) <= Sized(market, leg, y, best)
<1>1. market.step \in Nat \ {0}
  BY DEF Ranges
<1>2. CASE leg.buy
  <2> DEFINE a == Affordable(x, price)
             b == Affordable(y, best)
  <2>1. a \in Nat /\ b \in Nat /\ a <= b
    BY <1>2, AffordableGrows
  <2>2. Sized(market, leg, x, price) = Down(a, market.step)
        /\ Sized(market, leg, y, best) = Down(b, market.step)
    BY <1>2 DEF Sized
  <2> HIDE DEF a, b
  <2> QED
    BY <1>1, <2>1, <2>2, DownGrows, DownIs
<1>3. CASE ~leg.buy
  <2>1. Sized(market, leg, x, price) = Down(x, market.step)
        /\ Sized(market, leg, y, best) = Down(y, market.step)
    BY <1>3 DEF Sized
  <2> QED
    BY <1>1, <2>1, DownGrows, DownIs
<1> QED
  BY <1>2, <1>3

\* What a quantity brings at a price, before the commission, and what it takes.
Yield(buy, price, quantity) == IF buy THEN quantity ELSE Notional(price, quantity)
Take(buy, price, quantity) == IF buy THEN Notional(price, quantity) ELSE quantity

\* What a leg adds to an asset.
Earned(market, leg, price, quantity, a) ==
  IF a = Received(market, leg.buy)
  THEN Yield(leg.buy, price, quantity) - Commission(Yield(leg.buy, price, quantity)) ELSE 0

\* An order sized from a book quoted in ticks is priced at its best level and
\* fits what the level shows.
Booked(market, leg, amount, book) == PrepareFromBook(market, leg, amount, FALSE, book)
FromBook(market, leg, amount, book, order) ==
  /\ order.price = Price(book, leg.buy) /\ order.price \in Nat \ {0}
  /\ order.quantity = Sized(market, leg, amount, order.price) /\ order.quantity \in Nat
  /\ order.quantity <= Liquidity(book, leg.buy)
  /\ Take(leg.buy, order.price, order.quantity) <= amount

LEMMA BookOrderIs ==
  ASSUME NEW market \in Ranges, market.tick > 0, market.step > 0, NEW leg, leg.buy \in BOOLEAN,
         NEW amount \in Nat, NEW book \in BookTypes,
         Down(Price(book, leg.buy), market.tick) = Price(book, leg.buy),
         Booked(market, leg, amount, book) # None
  PROVE  FromBook(market, leg, amount, book, Booked(market, leg, amount, book))
<1> DEFINE order == Booked(market, leg, amount, book)
           best == Price(book, leg.buy)
           liquidity == Liquidity(book, leg.buy)
           quantity == Sized(market, leg, amount, best)
<1>1. best \in Nat /\ liquidity \in Nat /\ market.tick \in Nat \ {0} /\ market.step \in Nat \ {0}
  BY LevelTypes DEF Ranges
<1>2. (IF leg.buy THEN Up(best, market.tick) ELSE Down(best, market.tick)) = best
  BY <1>1, UpIs
<1> DEFINE rounded == IF leg.buy THEN Up(best, market.tick) ELSE Down(best, market.tick)
           sized == IF rounded > 0 THEN Sized(market, leg, amount, rounded) ELSE 0
<1>3. order = IF Valid(market, best, IF best > 0 THEN quantity ELSE 0)
                   /\ FitsLiquidity(IF best > 0 THEN quantity ELSE 0, liquidity)
              THEN [price |-> best, quantity |-> IF best > 0 THEN quantity ELSE 0] ELSE None
  <2>1. order = IF Valid(market, rounded, sized) /\ FitsLiquidity(sized, liquidity)
                THEN [price |-> rounded, quantity |-> sized] ELSE None
    BY DEF Booked, PrepareFromBook
  <2>2. rounded = best
    BY <1>2
  <2>3. sized = IF best > 0 THEN quantity ELSE 0
    <3> HIDE DEF rounded
    <3> QED
      BY <2>2
  <2> HIDE DEF best, quantity, liquidity, rounded, sized
  <2> QED
    BY <2>1, <2>2, <2>3
<1>4. order # None
  OBVIOUS
<1> HIDE DEF best, liquidity, quantity, order
<1>5. best > 0
  BY <1>3, <1>4 DEF Valid
<1>6. order = [price |-> best, quantity |-> quantity] /\ quantity <= liquidity
  BY <1>3, <1>5, <1>4 DEF FitsLiquidity
<1>7. quantity \in Nat
  <2>1. amount <= amount
    OBVIOUS
  <2> QED
    BY <1>1, <1>5, <2>1, SizedGrows DEF quantity
<1>8. Take(leg.buy, best, quantity) <= amount
  <2>1. CASE leg.buy
    <3>1. Affordable(amount, best) \in Nat
      BY <1>1, <1>5, AffordableGrows
    <3>2. quantity <= Affordable(amount, best)
      BY <1>1, <2>1, <3>1, DownIs DEF quantity, Sized
    <3> QED
      BY <1>1, <1>5, <1>7, <2>1, <3>2, AffordableFits DEF Take
  <2>2. CASE ~leg.buy
    BY <1>1, <2>2, DownIs DEF quantity, Sized, Take
  <2> QED
    BY <2>1, <2>2
<1>9. order.price = best /\ order.quantity = quantity
  BY ONLY <1>6
<1>10. quantity = Sized(market, leg, amount, best)
  BY DEF quantity
<1>11. /\ order.price = best /\ best \in Nat \ {0}
       /\ order.quantity = Sized(market, leg, amount, order.price) /\ quantity \in Nat
       /\ order.quantity <= liquidity /\ Take(leg.buy, order.price, order.quantity) <= amount
  BY ONLY <1>1, <1>5, <1>6, <1>7, <1>8, <1>9, <1>10
<1> QED
  BY <1>9, <1>11 DEF FromBook, best, liquidity, order

\* What a leg of the plan is: a book, an order sized from it with the amount
\* planned, at a price that keeps to the accepted one, and the amounts after it.
LegPlan(market, leg, rate, book, balances, result) ==
  /\ book \in BookTypes /\ book # None
  /\ Price(book, leg.buy) \in Nat \ {0}
  /\ NotWorse(leg, Price(book, leg.buy), AcceptedPrice(rate, market.tick))
  /\ Sized(market, leg, balances[Spent(market, leg.buy)], Price(book, leg.buy))
       <= Liquidity(book, leg.buy)
  /\ result \in [Assets -> Nat]
  /\ \A a \in Assets : a # Spent(market, leg.buy) =>
       result[a] = balances[a] + Earned(market, leg, Price(book, leg.buy),
         Sized(market, leg, balances[Spent(market, leg.buy)], Price(book, leg.buy)), a)

\* A leg that preflight() lets pass.
LEMMA LegPlanIs ==
  ASSUME NEW market \in Ranges, market.tick > 0, market.step > 0, market.base # market.quote,
         NEW leg, leg.buy \in BOOLEAN, NEW rate, NEW book \in BookTypes \cup {None},
         book # None => Down(Price(book, leg.buy), market.tick) = Price(book, leg.buy),
         NEW balances \in [Assets -> Nat],
         NEW result, result = PreflightLeg(market, leg, rate, book, balances), result # None
  PROVE  LegPlan(market, leg, rate, book, balances, result)
<1> DEFINE spend == Spent(market, leg.buy)
           receive == Received(market, leg.buy)
           amount == balances[spend]
           order == PrepareFromBook(market, leg, amount, FALSE, book)
           quote == Notional(order.price, order.quantity)
           cost == IF leg.buy THEN quote ELSE order.quantity
           proceeds == IF leg.buy THEN order.quantity ELSE quote
           best == Price(book, leg.buy)
           gain == proceeds - Commission(proceeds)
           after == [balances EXCEPT ![spend] = @ - cost, ![receive] = @ + proceeds - Commission(proceeds)]
<1>1. /\ book \in BookTypes /\ book # None
  BY DEF PreflightLeg
<1>2. /\ order # None
      /\ NotWorse(leg, order.price, AcceptedPrice(rate, market.tick))
      /\ result = after
  BY DEF PreflightLeg
<1>3. spend \in Assets /\ receive \in Assets /\ spend # receive
  BY DEF Ranges, Spent, Received
<1>4. amount \in Nat
  BY <1>3
<1>5. FromBook(market, leg, amount, book, order)
  <2>1. order # None /\ Down(Price(book, leg.buy), market.tick) = Price(book, leg.buy)
    BY <1>1, <1>2
  <2>2. order = Booked(market, leg, amount, book)
    BY DEF Booked
  <2> HIDE DEF amount, order
  <2>3. Booked(market, leg, amount, book) # None
    BY <2>1, <2>2
  <2>4. FromBook(market, leg, amount, book, Booked(market, leg, amount, book))
    BY <1>1, <1>4, <2>1, <2>3, BookOrderIs
  <2> QED
    BY <2>2, <2>4
<1> HIDE DEF order
<1>6. /\ proceeds = Yield(leg.buy, order.price, order.quantity)
      /\ cost = Take(leg.buy, order.price, order.quantity)
  BY DEF Yield, Take
<1>7. quote \in Nat
  BY <1>5, NotionalTypes DEF FromBook
<1> HIDE DEF quote
<1>8. cost \in Nat /\ cost <= amount /\ proceeds \in Nat
  BY <1>5, <1>6, <1>7 DEF FromBook
<1> HIDE DEF cost, proceeds
<1>9. Commission(proceeds) \in Nat /\ Commission(proceeds) <= proceeds
  BY <1>8, CommissionFits
<1>10. gain \in Nat /\ \A x \in Nat : x + proceeds - Commission(proceeds) = x + gain
  BY <1>8, <1>9
<1> HIDE DEF gain, spend, receive
<1>11. \A a \in Assets :
         after[a] = IF a = receive THEN balances[a] + gain
                    ELSE IF a = spend THEN balances[a] - cost ELSE balances[a]
  BY <1>3, <1>10
<1>12. after \in [Assets -> Nat]
  <2>1. \A a \in Assets : after[a] \in Nat
    <3>1. balances[spend] - cost \in Nat
      BY <1>4, <1>8
    <3> QED
      BY <1>10, <1>11, <3>1
  <2>2. after \in [Assets -> {after[a] : a \in Assets}]
    OBVIOUS
  <2> HIDE DEF after
  <2> QED
    BY <2>1, <2>2
<1>13. \A a \in Assets : a # spend =>
         after[a] = balances[a] + (IF a = receive THEN gain ELSE 0)
  BY <1>11
<1>14. \A a : Earned(market, leg, order.price, order.quantity, a) = IF a = receive THEN gain ELSE 0
  BY <1>6 DEF Earned, receive, gain
<1> HIDE DEF after
<1>15. best \in Nat \ {0} /\ order.price = best
       /\ order.quantity = Sized(market, leg, amount, best)
       /\ order.quantity <= Liquidity(book, leg.buy)
  BY <1>5 DEF FromBook
<1>16. \A a \in Assets : a # spend =>
         result[a] = balances[a] + Earned(market, leg, best, Sized(market, leg, amount, best), a)
  BY <1>2, <1>13, <1>14, <1>15
<1>17. NotWorse(leg, best, AcceptedPrice(rate, market.tick))
       /\ Sized(market, leg, amount, best) <= Liquidity(book, leg.buy)
  BY <1>2, <1>15
<1> QED
  BY <1>1, <1>2, <1>12, <1>15, <1>16, <1>17 DEF LegPlan, best, amount, spend

\* The order of a leg whose amount is within the plan: it fits the level, its
\* amount pays for it at the level's price, and it earns no more than planned.
LEMMA LegHonoured ==
  ASSUME NEW market \in Ranges, market.tick > 0, market.step > 0, NEW leg, leg.buy \in BOOLEAN,
         NEW x \in Nat, NEW y \in Nat, x <= y,
         NEW price \in Nat \ {0}, NEW best \in Nat \ {0}, NotWorse(leg, best, price),
         NEW quantity, quantity = Sized(market, leg, x, price), NEW a
  PROVE  /\ quantity \in Nat /\ Sized(market, leg, y, best) \in Nat
         /\ quantity <= Sized(market, leg, y, best)
         /\ Take(leg.buy, best, quantity) <= x
         /\ Earned(market, leg, best, quantity, a) \in Nat
         /\ Earned(market, leg, best, Sized(market, leg, y, best), a) \in Nat
         /\ Earned(market, leg, best, quantity, a)
              <= Earned(market, leg, best, Sized(market, leg, y, best), a)
<1> DEFINE most == Sized(market, leg, y, best)
<1>1. leg.buy => best <= price
  BY DEF NotWorse
<1>2. quantity \in Nat /\ most \in Nat /\ quantity <= most
  BY <1>1, SizedGrows
<1>3. Take(leg.buy, best, quantity) <= x
  <2>1. CASE leg.buy
    <3>1. x <= x
      OBVIOUS
    <3>2. Affordable(x, price) \in Nat
      BY <3>1, AffordableGrows
    <3>3. quantity <= Affordable(x, price)
      <4>1. quantity = Down(Affordable(x, price), market.step)
        BY <2>1 DEF Sized
      <4>2. market.step \in Nat \ {0}
        BY DEF Ranges
      <4> QED
        BY <3>2, <4>1, <4>2, DownIs
    <3>4. Notional(price, quantity) <= x
      BY <1>2, <3>3, AffordableFits
    <3>5. /\ Notional(best, quantity) \in Nat /\ Notional(price, quantity) \in Nat
          /\ Notional(best, quantity) <= Notional(price, quantity)
      <4>1. quantity <= quantity /\ best <= price
        BY <1>1, <1>2, <2>1
      <4> QED
        BY <1>2, <4>1, NotionalGrows
    <3> QED
      BY <2>1, <3>4, <3>5 DEF Take
  <2>2. CASE ~leg.buy
    <3>1. quantity = Down(x, market.step)
      BY <2>2 DEF Sized
    <3>2. market.step \in Nat \ {0}
      BY DEF Ranges
    <3> QED
      BY <2>2, <3>1, <3>2, DownIs DEF Take
  <2> QED
    BY <2>1, <2>2
<1> HIDE DEF most
<1>4. /\ Yield(leg.buy, best, quantity) \in Nat /\ Yield(leg.buy, best, most) \in Nat
      /\ Yield(leg.buy, best, quantity) <= Yield(leg.buy, best, most)
  <2>1. best <= best
    OBVIOUS
  <2>2. /\ Notional(best, quantity) \in Nat /\ Notional(best, most) \in Nat
        /\ Notional(best, quantity) <= Notional(best, most)
    BY <1>2, <2>1, NotionalGrows
  <2> QED
    BY <1>2, <2>2 DEF Yield
<1> DEFINE p == Yield(leg.buy, best, quantity)
           q == Yield(leg.buy, best, most)
<1>5. p \in Nat /\ q \in Nat /\ p <= q
  BY <1>4
<1> HIDE DEF p, q
<1>6. p - Commission(p) \in Nat /\ q - Commission(q) \in Nat /\ p - Commission(p) <= q - Commission(q)
  BY <1>5, NetGrows
<1>7. /\ Earned(market, leg, best, quantity, a) =
           IF a = Received(market, leg.buy) THEN p - Commission(p) ELSE 0
      /\ Earned(market, leg, best, most, a) =
           IF a = Received(market, leg.buy) THEN q - Commission(q) ELSE 0
  BY DEF Earned, p, q
<1>8. /\ Earned(market, leg, best, quantity, a) \in Nat /\ Earned(market, leg, best, most, a) \in Nat
      /\ Earned(market, leg, best, quantity, a) <= Earned(market, leg, best, most, a)
  BY <1>6, <1>7
<1> QED
  BY <1>2, <1>3, <1>8 DEF most

\* The simulated exchange fills an order in full whose price the level meets,
\* whose quantity it shows and whose cost the wallet has, unless something was
\* taken from the level before.
LEMMA FillHonoured ==
  ASSUME wallet \in [Assets -> Nat], consumed \in [Sides -> [id : Int, used : Nat]],
         NEW order \in Requests, ~order.initial_clear, Lawful(Markets[order.symbol], order),
         NEW book \in BookTypes, book # None, Price(book, order.buy) \in Nat \ {0},
         NotWorse(order, Price(book, order.buy), order.price),
         order.quantity <= Liquidity(book, order.buy),
         Take(order.buy, Price(book, order.buy), order.quantity) <= wallet[SpentBy(order)]
  PROVE  \/ /\ Fill(order, book).report.status = "Filled"
            /\ Fill(order, book).report.filled = order.quantity
            /\ Fill(order, book).report.quote = Notional(Price(book, order.buy), order.quantity)
         \/ /\ Fill(order, book).report.status = "Expired"
            /\ UsedNow(SideOf(order), book) > 0
<1> DEFINE market == Markets[order.symbol]
           side == [symbol |-> order.symbol, buy |-> order.buy]
           price == Price(book, order.buy)
           used == UsedNow(side, book)
           liquidity == Liquidity(book, order.buy)
           available == liquidity - used
           worse == IF order.buy THEN price > order.price ELSE price < order.price
           base == Down(IF available < order.quantity THEN available ELSE order.quantity, market.step)
           quote == Notional(price, base)
           spend == Spent(market, order.buy)
           cost == IF order.buy THEN quote ELSE base
           B == price <= 0 \/ available <= 0 \/ worse
                  \/ (~order.initial_clear /\ available < order.quantity)
           C == base <= 0 \/ wallet[spend] < cost
           report == Fill(order, book).report
           filled == Report(IF base = order.quantity THEN "Filled" ELSE "Expired", base, quote,
                            [NoFee EXCEPT ![Received(market, order.buy)] =
                               Commission(IF order.buy THEN base ELSE quote)])
<1>1. report = IF B THEN Unfilled("Expired") ELSE IF C THEN Unfilled("Rejected") ELSE filled
  BY DEF Fill
<1>2. used \in Nat /\ side = SideOf(order)
  BY OrderTypes DEF UsedNow, SideOf
<1>3. /\ liquidity \in Nat /\ price \in Nat /\ price > 0
      /\ order.quantity \in Nat /\ order.price \in Nat /\ order.quantity > 0
  BY OrderTypes, LevelTypes DEF Lawful, Valid
<1>4. ~worse
  BY <1>3 DEF NotWorse
<1>5. CASE B
  <2> HIDE DEF used, liquidity, price, worse, report
  <2>1. used > 0
    BY <1>2, <1>3, <1>4, <1>5 DEF liquidity
  <2>2. report = Unfilled("Expired")
    BY <1>1, <1>5
  <2> QED
    BY <1>2, <2>1, <2>2 DEF Unfilled, Report, report, used
<1>6. CASE ~B
  <2>1. ~(available < order.quantity)
    <3> HIDE DEF available
    <3> QED
      BY <1>6
  <2>2. base = order.quantity
    <3> HIDE DEF available
    <3> QED
      BY <2>1 DEF Lawful
  <2> HIDE DEF base, B
  <2>3. cost = Take(order.buy, price, order.quantity) /\ spend = SpentBy(order)
    BY <2>2 DEF Take, SpentBy
  <2>4. cost \in Nat
    <3>1. Notional(price, order.quantity) \in Nat
      BY <1>3, NotionalTypes
    <3> QED
      BY <1>3, <2>2, <3>1
  <2>5. wallet[spend] \in Nat
    BY OrderTypes DEF SpentBy
  <2> HIDE DEF cost, spend
  <2>6. ~C
    BY <1>3, <2>2, <2>3, <2>4, <2>5
  <2> HIDE DEF C, report
  <2>7. report = filled
    BY <1>1, <1>6, <2>6
  <2>8. filled.status = "Filled" /\ filled.filled = base /\ filled.quote = quote
    BY <2>2 DEF Report
  <2> HIDE DEF filled
  <2> QED
    BY <2>2, <2>7, <2>8 DEF report
<1> QED
  BY <1>5, <1>6

(***************************************************************************)
(* What the edge scan finds.  Fractions are compared by their cross        *)
(* products: x is m/n when x.n * n = m * x.d.                              *)
(***************************************************************************)
Is(x, m, n) == x \in Positive /\ x.n * n = m * x.d

\* A common positive factor can be left out of an equation and of a comparison.
LEMMA Cancelled ==
  ASSUME NEW k \in Nat \ {0}, NEW x \in Nat, NEW y \in Nat
  PROVE  (k * x = k * y => x = y) /\ (k * x <= k * y => x <= y)
<1>1. ASSUME x < y PROVE k * x < k * y
  <2>1. x + 1 <= y /\ x + 1 \in Nat
    BY <1>1
  <2>2. k * (x + 1) <= k * y
    BY <2>1, ProductGrows
  <2>3. k * (x + 1) = k * x + k /\ k * x \in Nat /\ k * y \in Nat
    OBVIOUS
  <2> QED
    BY <2>2, <2>3
<1>2. ASSUME y < x PROVE k * y < k * x
  <2>1. y + 1 <= x /\ y + 1 \in Nat
    BY <1>2
  <2>2. k * (y + 1) <= k * x
    BY <2>1, ProductGrows
  <2>3. k * (y + 1) = k * y + k /\ k * x \in Nat /\ k * y \in Nat
    OBVIOUS
  <2> QED
    BY <2>2, <2>3
<1>3. k * x \in Nat /\ k * y \in Nat
  OBVIOUS
<1> QED
  BY <1>1, <1>2, <1>3

\* A fraction, reduced, is what it was.
LEMMA FractionSays ==
  ASSUME NEW m \in Nat \ {0}, NEW n \in Nat \ {0}
  PROVE  Is(Fraction(m, n), m, n)
<1> DEFINE x == Fraction(m, n)
<1>1. x \in Positive
  BY FractionIs
<1>2. PICK g \in Nat \ {0} : m = g * x.n /\ n = g * x.d
  BY FractionIs
<1> HIDE DEF x
<1>3. x.n \in Nat \ {0} /\ x.d \in Nat \ {0}
  BY <1>1 DEF Positive
<1>4. x.n * (g * x.d) = (g * x.n) * x.d
  BY <1>3
<1>5. x.n * n = m * x.d
  BY <1>2, <1>4
<1> QED
  BY <1>1, <1>5 DEF Is, x

\* Products and quotients of fractions.
LEMMA TimesOver ==
  ASSUME NEW x \in Positive, NEW y \in Positive
  PROVE  Is(Times(x, y), x.n * y.n, x.d * y.d) /\ Is(Over(x, y), x.n * y.d, x.d * y.n)
<1>1. x.n \in Nat \ {0} /\ x.d \in Nat \ {0} /\ y.n \in Nat \ {0} /\ y.d \in Nat \ {0}
  BY DEF Positive
<1>2. /\ x.n * y.n \in Nat \ {0} /\ x.d * y.d \in Nat \ {0}
      /\ x.n * y.d \in Nat \ {0} /\ x.d * y.n \in Nat \ {0}
  BY <1>1
<1> QED
  BY <1>2, FractionSays DEF Times, Over

\* Fractions are ordered.
LEMMA NotLess ==
  ASSUME NEW x \in Positive, NEW y \in Positive
  PROVE  /\ ~Less(y, x) <=> x.n * y.d <= y.n * x.d
         /\ ~Less(x, x) /\ ~Less(x, Least(x, y)) /\ ~Less(y, Least(x, y))
<1>1. x.n \in Nat \ {0} /\ x.d \in Nat \ {0} /\ y.n \in Nat \ {0} /\ y.d \in Nat \ {0}
  BY DEF Positive
<1>2. x.n * y.d \in Nat /\ y.n * x.d \in Nat /\ x.n * x.d \in Nat /\ y.n * y.d \in Nat
  BY <1>1
<1> QED
  BY <1>2 DEF Less, Least

\* What is at most a fraction is at most any larger one.
LEMMA NotLessChain ==
  ASSUME NEW x \in Positive, NEW y \in Positive, NEW z \in Positive, ~Less(y, x), ~Less(z, y)
  PROVE  ~Less(z, x)
<1> DEFINE a == x.n
           b == x.d
           c == y.n
           d == y.d
           e == z.n
           f == z.d
<1>1. /\ a \in Nat \ {0} /\ b \in Nat \ {0} /\ c \in Nat \ {0}
      /\ d \in Nat \ {0} /\ e \in Nat \ {0} /\ f \in Nat \ {0}
  BY DEF Positive
<1>2. a * d <= c * b /\ c * f <= e * d
  BY NotLess
<1>3. a * f <= e * b => ~Less(z, x)
  BY NotLess
<1> HIDE DEF a, b, c, d, e, f
<1>4. f * (a * d) <= f * (c * b)
  <2>1. a * d \in Nat /\ c * b \in Nat /\ f \in Nat
    BY <1>1
  <2> QED
    BY <1>2, <2>1, ProductGrows
<1>5. b * (c * f) <= b * (e * d)
  <2>1. c * f \in Nat /\ e * d \in Nat /\ b \in Nat
    BY <1>1
  <2> QED
    BY <1>2, <2>1, ProductGrows
<1>6. f * (a * d) = d * (a * f) /\ f * (c * b) = b * (c * f) /\ b * (e * d) = d * (e * b)
  BY <1>1
<1>7. a * f \in Nat /\ e * b \in Nat /\ d * (a * f) \in Nat /\ b * (c * f) \in Nat
      /\ d * (e * b) \in Nat
  BY <1>1
<1>8. d * (a * f) <= d * (e * b)
  BY <1>4, <1>5, <1>6, <1>7
<1>9. a * f <= e * b
  BY <1>1, <1>7, <1>8, Cancelled
<1> QED
  BY <1>3, <1>9

\* What is bounded by a quotient gives a product bounded by the dividend.
LEMMA WithinShown ==
  ASSUME NEW x \in Positive, NEW q \in Positive, NEW s \in Positive, ~Less(Over(s, q), x)
  PROVE  ~Less(s, Times(q, x))
<1> DEFINE o == Over(s, q)
           t == Times(q, x)
<1>1. Is(o, s.n * q.d, s.d * q.n) /\ Is(t, q.n * x.n, q.d * x.d)
  BY TimesOver
<1>2. o \in Positive /\ t \in Positive
  BY <1>1 DEF Is
<1>3. x.n * o.d <= o.n * x.d
  <2> HIDE DEF o
  <2> QED
    BY <1>2, NotLess DEF o
<1>4. t.n * s.d <= s.n * t.d => ~Less(s, t)
  <2> HIDE DEF t
  <2> QED
    BY <1>2, NotLess
<1> HIDE DEF o, t
<1>5. /\ x.n \in Nat \ {0} /\ x.d \in Nat \ {0} /\ q.n \in Nat \ {0} /\ q.d \in Nat \ {0}
      /\ s.n \in Nat \ {0} /\ s.d \in Nat \ {0} /\ o.n \in Nat \ {0} /\ o.d \in Nat \ {0}
      /\ t.n \in Nat \ {0} /\ t.d \in Nat \ {0}
  BY <1>2 DEF Positive
<1>6. o.n * (s.d * q.n) = (s.n * q.d) * o.d /\ t.n * (q.d * x.d) = (q.n * x.n) * t.d
  BY <1>1 DEF Is
<1> DEFINE k == q.d * (x.d * o.d)
           u == t.d * (s.d * q.n)
<1>7. k \in Nat \ {0} /\ u \in Nat \ {0}
  <2>1. x.d * o.d \in Nat \ {0} /\ s.d * q.n \in Nat \ {0}
    BY <1>5
  <2> QED
    BY <1>5, <2>1
<1>8. k * (t.n * s.d) = u * (x.n * o.d)
  <2>1. k * (t.n * s.d) = (t.n * (q.d * x.d)) * (s.d * o.d)
    BY <1>5
  <2>2. u * (x.n * o.d) = ((q.n * x.n) * t.d) * (s.d * o.d)
    BY <1>5
  <2> QED
    BY <1>6, <2>1, <2>2
<1>9. k * (s.n * t.d) = u * (o.n * x.d)
  <2>1. k * (s.n * t.d) = ((s.n * q.d) * o.d) * (x.d * t.d)
    BY <1>5
  <2>2. u * (o.n * x.d) = (o.n * (s.d * q.n)) * (x.d * t.d)
    BY <1>5
  <2> QED
    BY <1>6, <2>1, <2>2
<1> HIDE DEF k, u
<1>10. u * (x.n * o.d) <= u * (o.n * x.d)
  <2>1. x.n * o.d \in Nat /\ o.n * x.d \in Nat /\ u \in Nat
    BY <1>5, <1>7
  <2> QED
    BY <1>3, <2>1, ProductGrows
<1>11. t.n * s.d \in Nat /\ s.n * t.d \in Nat
  BY <1>5
<1>12. t.n * s.d <= s.n * t.d
  BY <1>7, <1>8, <1>9, <1>10, <1>11, Cancelled
<1> QED
  BY <1>4, <1>12 DEF t

\* The quantity of a leg for each unit of input.
Needs(scan, book, buy) == IF buy THEN Over(scan.output, Rate(book, buy)) ELSE scan.output
Turned(scan, book, buy) ==
  IF buy THEN Needs(scan, book, buy) ELSE Times(Needs(scan, book, buy), Rate(book, buy))

\* A leg that is quoted adds its quantity and lowers the limit to what is shown.
LEMMA ScanLegIs ==
  ASSUME NEW scan \in Scans, NEW book \in BookTypes, book # None, scan # None,
         NEW buy \in BOOLEAN, BestPrice(book, buy) # 0, BestQty(book, buy) # 0
  PROVE  /\ Rate(book, buy) \in Positive /\ Shown(book, buy) \in Positive
         /\ scan.output \in Positive /\ scan.limit \in Positive
         /\ scan.quantities \in Seq(Positive)
         /\ Needs(scan, book, buy) \in Positive /\ Turned(scan, book, buy) \in Positive
         /\ FeeMultiplier \in Positive
         /\ ScanLeg(scan, book, buy) =
              [output |-> Times(Turned(scan, book, buy), FeeMultiplier),
               limit |-> Least(scan.limit, Over(Shown(book, buy), Needs(scan, book, buy))),
               prices |-> Append(scan.prices, Rate(book, buy)),
               quantities |-> Append(scan.quantities, Needs(scan, book, buy))]
<1>1. Rate(book, buy) \in Positive /\ Shown(book, buy) \in Positive
  BY QuoteTypes
<1>2. /\ scan.output \in Positive /\ scan.limit \in Positive
      /\ scan.quantities \in Seq(Positive)
  BY DEF Scans
<1>3. Needs(scan, book, buy) \in Positive
  BY <1>1, <1>2, FractionTypes DEF Needs
<1>4. Turned(scan, book, buy) \in Positive
  BY <1>1, <1>3, FractionTypes DEF Turned
<1>5. FeeMultiplier \in Positive
  <2>1. FeePart - 1 \in Nat \ {0} /\ FeePart \in Nat \ {0}
    BY ScanAssumption
  <2> QED
    BY <2>1, FractionIs DEF FeeMultiplier
<1>6. ScanLeg(scan, book, buy) =
        [output |-> Times(Turned(scan, book, buy), FeeMultiplier),
         limit |-> Least(scan.limit, Over(Shown(book, buy), Needs(scan, book, buy))),
         prices |-> Append(scan.prices, Rate(book, buy)),
         quantities |-> Append(scan.quantities, Needs(scan, book, buy))]
  BY DEF ScanLeg, InputLimit, Turned, Needs
<1> QED
  BY <1>1, <1>2, <1>3, <1>4, <1>5, <1>6

\* A scan gets through a leg exactly when the leg is quoted.
QuotedLeg(book, buy) == book # None /\ BestPrice(book, buy) > 0 /\ BestQty(book, buy) > 0
LEMMA ScanLegQuoted ==
  ASSUME NEW scan \in Scans \cup {None}, NEW book \in BookTypes \cup {None},
         NEW buy \in BOOLEAN
  PROVE  ScanLeg(scan, book, buy) # None <=> scan # None /\ QuotedLeg(book, buy)
<1>1. CASE scan = None \/ book = None
  BY <1>1 DEF ScanLeg, QuotedLeg
<1>2. CASE scan # None /\ book # None
  <2>1. scan \in Scans /\ book \in BookTypes
    BY <1>2
  <2>2. BestPrice(book, buy) \in Nat /\ BestQty(book, buy) \in Nat
    BY <2>1, LevelTypes
  <2>3. CASE BestPrice(book, buy) = 0 \/ BestQty(book, buy) = 0
    BY <1>2, <2>2, <2>3 DEF ScanLeg, QuotedLeg
  <2>4. CASE BestPrice(book, buy) # 0 /\ BestQty(book, buy) # 0
    <3>1. ScanLeg(scan, book, buy) \in Scans
      <4> DEFINE output == Times(Turned(scan, book, buy), FeeMultiplier)
                 limit == Least(scan.limit, Over(Shown(book, buy), Needs(scan, book, buy)))
                 prices == Append(scan.prices, Rate(book, buy))
                 quantities == Append(scan.quantities, Needs(scan, book, buy))
      <4>1. ScanLeg(scan, book, buy) =
              [output |-> output, limit |-> limit, prices |-> prices, quantities |-> quantities]
        BY <1>2, <2>1, <2>4, ScanLegIs
      <4>2. output \in Positive
        BY <1>2, <2>1, <2>4, ScanLegIs, FractionTypes
      <4>3. limit \in Positive
        <5>1. Over(Shown(book, buy), Needs(scan, book, buy)) \in Positive
          BY <1>2, <2>1, <2>4, ScanLegIs, FractionTypes
        <5> QED
          BY <1>2, <2>1, <2>4, <5>1, ScanLegIs, FractionTypes
      <4>4. prices \in Seq(Positive)
        <5>1. scan.prices \in Seq(Positive) /\ Rate(book, buy) \in Positive
          BY <1>2, <2>1, <2>4, ScanLegIs DEF Scans
        <5> QED
          BY <5>1, AppendProperties
      <4>5. quantities \in Seq(Positive)
        <5>1. scan.quantities \in Seq(Positive) /\ Needs(scan, book, buy) \in Positive
          BY <1>2, <2>1, <2>4, ScanLegIs
        <5> QED
          BY <5>1, AppendProperties
      <4> HIDE DEF output, limit, prices, quantities
      <4> QED
        BY <4>1, <4>2, <4>3, <4>4, <4>5 DEF Scans
    <3>2. ScanLeg(scan, book, buy) # None
      BY <3>1, AbsenceAssumption
    <3> QED
      BY <1>2, <2>2, <2>4, <3>2 DEF QuotedLeg
  <2> QED
    BY <2>3, <2>4
<1> QED
  BY <1>1, <1>2

\* What a scan's limit allows of its legs so far.
LegFits(scan, n, known, leg) ==
  ~Less(Over(Shown(known[leg.index], leg.buy), scan.quantities[n]), scan.limit)
Lowered(scan, result, known, leg, n) ==
  /\ result.limit \in Positive /\ Shown(known[leg.index], leg.buy) \in Positive
  /\ Len(result.quantities) = n + 1
  /\ ~Less(scan.limit, result.limit) /\ LegFits(result, n + 1, known, leg)
  /\ \A i \in 1..n : result.quantities[i] = scan.quantities[i]
  /\ result.quantities[n + 1] \in Positive

\* A leg more lowers the limit to what its level can take.
LEMMA LegLimits ==
  ASSUME NEW known \in Books, NEW leg \in Legs, NEW scan \in Scans, scan # None,
         ScanOn(scan, known, leg) # None, NEW n \in Nat, n = Len(scan.quantities)
  PROVE  Lowered(scan, ScanOn(scan, known, leg), known, leg, n)
<1> DEFINE result == ScanOn(scan, known, leg)
<1> DEFINE book == known[leg.index]
           buy == leg.buy
           q == Needs(scan, book, buy)
           o == Over(Shown(book, buy), q)
<1>1. book \in BookTypes \cup {None} /\ buy \in BOOLEAN
  BY DEF Books, Legs
<1>2. result = ScanLeg(scan, book, buy)
  BY DEF ScanOn
<1> HIDE DEF book, buy, result
<1>3. result \in Scans
  BY <1>1, <1>2, ScanLegTypes DEF result
<1>4. QuotedLeg(book, buy)
  BY <1>1, <1>2, ScanLegQuoted DEF result
<1>5. /\ Shown(book, buy) \in Positive /\ q \in Positive /\ scan.limit \in Positive
      /\ scan.quantities \in Seq(Positive)
      /\ result.limit = Least(scan.limit, o) /\ result.quantities = Append(scan.quantities, q)
  <2>1. BestPrice(book, buy) # 0 /\ BestQty(book, buy) # 0 /\ book \in BookTypes /\ book # None
    BY <1>1, <1>4 DEF QuotedLeg
  <2> QED
    BY <1>1, <1>2, <2>1, ScanLegIs
<1> HIDE DEF q
<1>6. o \in Positive
  BY <1>5, FractionTypes
<1> HIDE DEF o
<1>7. /\ Len(result.quantities) = n + 1 /\ result.quantities[n + 1] = q
      /\ \A i \in 1..n : result.quantities[i] = scan.quantities[i]
  BY <1>5, AppendProperties
<1>8. result.limit \in Positive
  BY <1>5, <1>6, FractionTypes
<1>9. ~Less(scan.limit, result.limit) /\ ~Less(o, result.limit)
  BY <1>5, <1>6, NotLess
<1>10. LegFits(result, n + 1, known, leg)
  BY <1>7, <1>9 DEF LegFits, o, book, buy
<1> QED
  BY <1>5, <1>7, <1>8, <1>9, <1>10 DEF Lowered, book, buy, result

\* Every leg of a path that was scanned to its end fits its level, and the
\* input the limit.
LEMMA ScanFitsBooks ==
  ASSUME NEW known \in Books, NEW path \in [1..3 -> Legs], Scan(known, path) # None
  PROVE  /\ ~Less([n |-> MaxArbitrage, d |-> 1], Scan(known, path).limit)
         /\ \A i \in 1..3 :
              ~Less(Shown(known[path[i].index], path[i].buy),
                    Times(Scan(known, path).quantities[i], Scan(known, path).limit))
<1> DEFINE a == After1(known, path)
           b == After2(known, path)
           c == After3(known, path)
<1>1. Scan(known, path) = c /\ path[1] \in Legs /\ path[2] \in Legs /\ path[3] \in Legs
  BY ScanUnfolds
<1>2. a \in Scans \cup {None} /\ b \in Scans \cup {None} /\ c \in Scans \cup {None}
  BY ScanUnfolds
<1>3. a = ScanOn(ScanStart, known, path[1]) /\ b = ScanOn(a, known, path[2])
      /\ c = ScanOn(b, known, path[3])
  BY DEF After1, After2, After3
<1> HIDE DEF a, b, c
<1>4. /\ c # None /\ b # None /\ a # None /\ ScanStart # None
      /\ a \in Scans /\ b \in Scans /\ c \in Scans
  <2>1. \A leg : ScanOn(None, known, leg) = None
    BY DEF ScanOn, ScanLeg
  <2>2. c # None /\ b # None /\ a # None
    BY <1>1, <1>3, <2>1
  <2> QED
    BY <1>2, <2>2, ScanStartTypes, AbsenceAssumption
<1>5. /\ Len(ScanStart.quantities) = 0 /\ ScanStart \in Scans
      /\ ScanStart.limit = [n |-> MaxArbitrage, d |-> 1] /\ ScanStart.limit \in Positive
  BY ScanStartTypes, ScanAssumption DEF Positive
<1>6. /\ a.limit \in Positive /\ Shown(known[path[1].index], path[1].buy) \in Positive
      /\ Len(a.quantities) = 1 /\ ~Less(ScanStart.limit, a.limit)
      /\ LegFits(a, 1, known, path[1]) /\ a.quantities[1] \in Positive
  <2>1. Lowered(ScanStart, a, known, path[1], 0)
    BY <1>1, <1>3, <1>4, <1>5, LegLimits
  <2> QED
    BY <2>1 DEF Lowered
<1>7. /\ b.limit \in Positive /\ Shown(known[path[2].index], path[2].buy) \in Positive
      /\ Len(b.quantities) = 2 /\ ~Less(a.limit, b.limit)
      /\ LegFits(b, 2, known, path[2]) /\ b.quantities[2] \in Positive
      /\ b.quantities[1] = a.quantities[1]
  <2>1. Lowered(a, b, known, path[2], 1)
    BY <1>1, <1>3, <1>4, <1>6, LegLimits
  <2>2. 1 \in 1..1
    OBVIOUS
  <2> QED
    BY <2>1, <2>2 DEF Lowered
<1>8. /\ c.limit \in Positive /\ Shown(known[path[3].index], path[3].buy) \in Positive
      /\ ~Less(b.limit, c.limit)
      /\ LegFits(c, 3, known, path[3]) /\ c.quantities[3] \in Positive
      /\ c.quantities[1] = b.quantities[1] /\ c.quantities[2] = b.quantities[2]
  <2>1. Lowered(b, c, known, path[3], 2)
    BY <1>1, <1>3, <1>4, <1>7, LegLimits
  <2>2. 1 \in 1..2 /\ 2 \in 1..2
    OBVIOUS
  <2> QED
    BY <2>1, <2>2 DEF Lowered
<1>9. ~Less(a.limit, c.limit) /\ ~Less(ScanStart.limit, c.limit)
  BY <1>5, <1>6, <1>7, <1>8, NotLessChain
<1>10. ASSUME NEW leg, NEW q \in Positive, NEW l \in Positive,
              Shown(known[leg.index], leg.buy) \in Positive,
              ~Less(Over(Shown(known[leg.index], leg.buy), q), l), ~Less(l, c.limit)
       PROVE  ~Less(Shown(known[leg.index], leg.buy), Times(q, c.limit))
  <2>1. Over(Shown(known[leg.index], leg.buy), q) \in Positive
    BY <1>10, FractionTypes
  <2>2. ~Less(Over(Shown(known[leg.index], leg.buy), q), c.limit)
    BY <1>8, <1>10, <2>1, NotLessChain
  <2> QED
    BY <1>8, <1>10, <2>2, WithinShown
<1>11. ~Less(c.limit, c.limit)
  BY <1>8, NotLess
<1>12. ~Less(Shown(known[path[1].index], path[1].buy), Times(c.quantities[1], c.limit))
  BY <1>6, <1>7, <1>8, <1>9, <1>10 DEF LegFits
<1>13. ~Less(Shown(known[path[2].index], path[2].buy), Times(c.quantities[2], c.limit))
  BY <1>7, <1>8, <1>10 DEF LegFits
<1>14. ~Less(Shown(known[path[3].index], path[3].buy), Times(c.quantities[3], c.limit))
  BY <1>8, <1>10, <1>11 DEF LegFits
<1>15. \A i \in 1..3 : i = 1 \/ i = 2 \/ i = 3
  OBVIOUS
<1> QED
  BY <1>1, <1>5, <1>9, <1>12, <1>13, <1>14, <1>15

\* What the scan of an update returns fits the books.
LEMMA FoundFits ==
  ASSUME NEW known \in Books, NEW index PROVE EdgeFits(known, Groups, index)
<1> SUFFICES ASSUME ScanEdge(known, Groups, index) # None
             PROVE  Fits(known, ScanEdge(known, Groups, index))
  BY DEF EdgeFits
<1>1. PICK g \in DOMAIN Groups, p \in {1, 2} :
        /\ Scan(known, Groups[g].paths[p]) # None
        /\ ScanEdge(known, Groups, index) = EdgeOf(known, Groups[g].paths[p])
  BY EdgeIs
<1> DEFINE path == Groups[g].paths[p]
           scan == Scan(known, path)
           found == EdgeOf(known, path)
<1>2. path \in [1..3 -> Legs]
  BY GroupTypes
<1>3. /\ found.path = path /\ found.input = scan.limit
      /\ \A i \in 1..3 : found.quantities[i] = Times(scan.quantities[i], scan.limit)
  BY DEF EdgeOf
<1> HIDE DEF path, scan, found
<1>4. /\ ~Less([n |-> MaxArbitrage, d |-> 1], scan.limit)
      /\ \A i \in 1..3 : ~Less(Shown(known[path[i].index], path[i].buy),
                               Times(scan.quantities[i], scan.limit))
  BY <1>1, <1>2, ScanFitsBooks DEF path, scan
<1>5. Fits(known, found)
  BY <1>3, <1>4 DEF Fits
<1> QED
  BY <1>1, <1>5 DEF found, path

\* A product of two numbers given as fractions.
LEMMA TimesChain ==
  ASSUME NEW x, NEW y, NEW a \in Nat \ {0}, NEW b \in Nat \ {0},
         NEW c \in Nat \ {0}, NEW d \in Nat \ {0}, Is(x, a, b), Is(y, c, d)
  PROVE  Is(Times(x, y), a * c, b * d)
<1> DEFINE z == Times(x, y)
<1>1. x \in Positive /\ y \in Positive
  BY DEF Is
<1>2. Is(z, x.n * y.n, x.d * y.d)
  BY <1>1, TimesOver
<1>3. z \in Positive
  BY <1>2 DEF Is
<1> HIDE DEF z
<1>4. /\ x.n \in Nat \ {0} /\ x.d \in Nat \ {0} /\ y.n \in Nat \ {0} /\ y.d \in Nat \ {0}
      /\ z.n \in Nat \ {0} /\ z.d \in Nat \ {0}
  BY <1>1, <1>3 DEF Positive
<1>5. x.n * b = a * x.d /\ y.n * d = c * y.d /\ z.n * (x.d * y.d) = (x.n * y.n) * z.d
  BY <1>2 DEF Is
<1> DEFINE k == x.d * y.d
<1>6. k * (z.n * (b * d)) = (z.n * k) * (b * d)
  BY <1>4
<1>7. ((x.n * y.n) * z.d) * (b * d) = ((x.n * b) * (y.n * d)) * z.d
  BY <1>4
<1>8. ((a * x.d) * (c * y.d)) * z.d = k * ((a * c) * z.d)
  BY <1>4
<1>9. k * (z.n * (b * d)) = k * ((a * c) * z.d)
  BY <1>5, <1>6, <1>7, <1>8
<1>10. k \in Nat \ {0} /\ z.n * (b * d) \in Nat /\ (a * c) * z.d \in Nat
  <2>1. b * d \in Nat /\ a * c \in Nat
    OBVIOUS
  <2> QED
    BY <1>4, <2>1
<1> HIDE DEF k
<1>11. z.n * (b * d) = (a * c) * z.d
  BY <1>9, <1>10, Cancelled
<1> QED
  BY <1>3, <1>11 DEF Is, z

\* A quotient is the product with the inverse.
LEMMA OverChain ==
  ASSUME NEW x, NEW y \in Positive, NEW a \in Nat \ {0}, NEW b \in Nat \ {0}, Is(x, a, b)
  PROVE  Is(Over(x, y), a * y.d, b * y.n)
<1> DEFINE i == [n |-> y.d, d |-> y.n]
<1>1. y.n \in Nat \ {0} /\ y.d \in Nat \ {0}
  BY DEF Positive
<1>2. Is(i, y.d, y.n)
  BY <1>1 DEF Is, Positive
<1>3. Over(x, y) = Times(x, i)
  BY DEF Over, Times
<1> HIDE DEF i
<1> QED
  BY <1>1, <1>2, <1>3, TimesChain

\* Two fractions of one value are above the same thresholds.
LEMMA SameAbove ==
  ASSUME NEW x, NEW y, NEW m \in Nat \ {0}, NEW n \in Nat \ {0}, Is(x, m, n), Is(y, m, n),
         NEW t \in Positive
  PROVE  Less(t, x) <=> Less(t, y)
<1>1. x \in Positive /\ y \in Positive /\ x.n * n = m * x.d /\ y.n * n = m * y.d
  BY DEF Is
<1>2. /\ x.n \in Nat \ {0} /\ x.d \in Nat \ {0} /\ y.n \in Nat \ {0} /\ y.d \in Nat \ {0}
      /\ t.n \in Nat \ {0} /\ t.d \in Nat \ {0}
  BY <1>1 DEF Positive
<1>3. x.n * y.d = y.n * x.d
  <2>1. n * (x.n * y.d) = (x.n * n) * y.d /\ n * (y.n * x.d) = (y.n * n) * x.d
    BY <1>2
  <2>2. (m * x.d) * y.d = (m * y.d) * x.d
    BY <1>2
  <2>3. n * (x.n * y.d) = n * (y.n * x.d)
    BY <1>1, <2>1, <2>2
  <2>4. x.n * y.d \in Nat /\ y.n * x.d \in Nat
    BY <1>2
  <2> QED
    BY <2>3, <2>4, Cancelled
<1>4. ~Less(x, y) /\ ~Less(y, x)
  <2>1. x.n * y.d \in Nat /\ y.n * x.d \in Nat
    BY <1>2
  <2> QED
    BY <1>3, <2>1 DEF Less
<1>5. ~Less(t, x) => ~Less(t, y)
  BY <1>1, <1>4, NotLessChain
<1>6. ~Less(t, y) => ~Less(t, x)
  BY <1>1, <1>4, NotLessChain
<1> QED
  BY <1>5, <1>6

\* What a leg turns one unit into: a fraction of its rate, less a commission.
Factor(book, buy, inverted) == IF buy = inverted THEN Rate(book, buy).d ELSE Rate(book, buy).n
Returned(result, book, buy, m, n) ==
  /\ Factor(book, buy, TRUE) \in Nat \ {0} /\ Factor(book, buy, FALSE) \in Nat \ {0}
  /\ Is(result.output, (m * Factor(book, buy, TRUE)) * (FeePart - 1),
                       (n * Factor(book, buy, FALSE)) * FeePart)

\* The output after a leg more.
LEMMA LegReturns ==
  ASSUME NEW scan \in Scans \cup {None}, NEW book \in BookTypes \cup {None}, NEW buy \in BOOLEAN,
         ScanLeg(scan, book, buy) # None,
         NEW m \in Nat \ {0}, NEW n \in Nat \ {0}, Is(scan.output, m, n)
  PROVE  Returned(ScanLeg(scan, book, buy), book, buy, m, n)
<1> DEFINE r == Rate(book, buy)
           up == Factor(book, buy, TRUE)
           down == Factor(book, buy, FALSE)
           turned == Turned(scan, book, buy)
<1>1. scan # None /\ QuotedLeg(book, buy) /\ scan \in Scans
  BY ScanLegQuoted
<1>2. book \in BookTypes /\ book # None /\ BestPrice(book, buy) # 0 /\ BestQty(book, buy) # 0
  BY <1>1 DEF QuotedLeg
<1>3. r \in Positive /\ ScanLeg(scan, book, buy).output = Times(turned, FeeMultiplier)
  BY <1>1, <1>2, ScanLegIs
<1>4. r.n \in Nat \ {0} /\ r.d \in Nat \ {0} /\ Is(r, r.n, r.d)
  <2> HIDE DEF r
  <2>1. r.n \in Nat \ {0} /\ r.d \in Nat \ {0}
    BY <1>3 DEF Positive
  <2> QED
    BY <1>3, <2>1 DEF Is
<1>5. up = (IF buy THEN r.d ELSE r.n) /\ down = (IF buy THEN r.n ELSE r.d)
  BY DEF Factor
<1>6. turned = (IF buy THEN Over(scan.output, r) ELSE Times(scan.output, r))
  BY DEF Turned, Needs
<1> HIDE DEF r, up, down, turned
<1>7. up \in Nat \ {0} /\ down \in Nat \ {0}
  BY <1>4, <1>5
<1>8. Is(turned, m * up, n * down)
  <2>1. CASE buy
    BY <1>3, <1>5, <1>6, <2>1, OverChain
  <2>2. CASE ~buy
    BY <1>4, <1>5, <1>6, <2>2, TimesChain
  <2> QED
    BY <2>1, <2>2
<1>9. FeePart - 1 \in Nat \ {0} /\ FeePart \in Nat \ {0}
  BY ScanAssumption
<1>10. Is(FeeMultiplier, FeePart - 1, FeePart)
  BY <1>9, FractionSays DEF FeeMultiplier
<1>11. m * up \in Nat \ {0} /\ n * down \in Nat \ {0}
  BY <1>7
<1>12. Is(Times(turned, FeeMultiplier), (m * up) * (FeePart - 1), (n * down) * FeePart)
  BY <1>8, <1>9, <1>10, <1>11, TimesChain
<1> QED
  BY <1>3, <1>7, <1>12 DEF Returned, up, down

\* A path is scanned to its end exactly when its legs are quoted.
LEMMA ScanQuoted ==
  ASSUME NEW known \in Books, NEW path \in [1..3 -> Legs]
  PROVE  Scan(known, path) # None <=> Quoted(known, path)
<1>1. /\ Scan(known, path) = After3(known, path)
      /\ After1(known, path) \in Scans \cup {None} /\ After2(known, path) \in Scans \cup {None}
  BY ScanUnfolds
<1>2. ASSUME NEW i \in 1..3
      PROVE  path[i].buy \in BOOLEAN /\ known[path[i].index] \in BookTypes \cup {None}
  <2>1. path[i] \in Legs
    OBVIOUS
  <2> QED
    BY <2>1 DEF Legs, Books
<1> DEFINE quoted(i) == QuotedLeg(known[path[i].index], path[i].buy)
<1>3. 1 \in 1..3 /\ 2 \in 1..3 /\ 3 \in 1..3
  OBVIOUS
<1>4. After1(known, path) # None <=> quoted(1)
  <2>1. ScanStart \in Scans \cup {None} /\ ScanStart # None
    BY ScanStartTypes, AbsenceAssumption
  <2> QED
    BY <1>2, <1>3, <2>1, ScanLegQuoted DEF After1, ScanOn
<1>5. After2(known, path) # None <=> After1(known, path) # None /\ quoted(2)
  BY <1>1, <1>2, <1>3, ScanLegQuoted DEF After2, ScanOn
<1>6. After3(known, path) # None <=> After2(known, path) # None /\ quoted(3)
  BY <1>1, <1>2, <1>3, ScanLegQuoted DEF After3, ScanOn
<1>7. Quoted(known, path) <=> \A i \in 1..3 : quoted(i)
  BY DEF Quoted, QuotedLeg
<1> HIDE DEF quoted
<1>8. \A i \in 1..3 : i = 1 \/ i = 2 \/ i = 3
  OBVIOUS
<1> QED
  BY <1>1, <1>3, <1>4, <1>5, <1>6, <1>7, <1>8

\* The output of a scan, leg by leg, is the return of the path as a whole.
LEMMA ScanReturns ==
  ASSUME NEW known \in Books, NEW path \in [1..3 -> Legs], Scan(known, path) # None,
         NEW t \in Positive
  PROVE  Less(t, Scan(known, path).output) <=> Less(t, Return(known, path))
<1> DEFINE up(i) == Factor(known[path[i].index], path[i].buy, TRUE)
           down(i) == Factor(known[path[i].index], path[i].buy, FALSE)
           k == FeePart - 1
           p == FeePart
<1>1. /\ Scan(known, path) = After3(known, path)
      /\ After1(known, path) \in Scans \cup {None} /\ After2(known, path) \in Scans \cup {None}
  BY ScanUnfolds
<1>2. /\ After3(known, path) # None /\ After2(known, path) # None /\ After1(known, path) # None
  <2>1. \A leg : ScanOn(None, known, leg) = None
    BY DEF ScanOn, ScanLeg
  <2> QED
    BY <1>1, <2>1 DEF After2, After3
<1>3. ASSUME NEW i \in 1..3
      PROVE  path[i].buy \in BOOLEAN /\ known[path[i].index] \in BookTypes \cup {None}
  <2>1. path[i] \in Legs
    OBVIOUS
  <2> QED
    BY <2>1 DEF Legs, Books
<1>4. k \in Nat \ {0} /\ p \in Nat \ {0} /\ 1 \in Nat \ {0}
      /\ 1 \in 1..3 /\ 2 \in 1..3 /\ 3 \in 1..3
  BY ScanAssumption
<1> DEFINE m1 == (1 * up(1)) * k
           n1 == (1 * down(1)) * p
<1>5. /\ up(1) \in Nat \ {0} /\ down(1) \in Nat \ {0} /\ Is(After1(known, path).output, m1, n1)
  <2>1. ScanStart \in Scans \cup {None} /\ Is(ScanStart.output, 1, 1)
    BY ScanStartTypes DEF Is, One, Positive
  <2>2. ScanLeg(ScanStart, known[path[1].index], path[1].buy) # None
        /\ ScanLeg(ScanStart, known[path[1].index], path[1].buy) = After1(known, path)
    BY <1>2 DEF After1, ScanOn
  <2> DEFINE book == known[path[1].index]
             buy == path[1].buy
             scan == ScanLeg(ScanStart, book, buy)
  <2>3. scan # None /\ scan = After1(known, path) /\ book \in BookTypes \cup {None} /\ buy \in BOOLEAN
    BY <1>3, <1>4, <2>2
  <2>4. 1 \in Nat \ {0}
    OBVIOUS
  <2>5. Returned(scan, book, buy, 1, 1)
    <3> HIDE DEF book, buy
    <3> QED
      BY <2>1, <2>3, <2>4, LegReturns
  <2> QED
    BY <2>3, <2>5 DEF Returned
<1>6. m1 \in Nat \ {0} /\ n1 \in Nat \ {0}
  <2> HIDE DEF up, down, k, p
  <2>1. 1 * up(1) \in Nat \ {0} /\ 1 * down(1) \in Nat \ {0}
    BY <1>5
  <2> QED
    BY <1>4, <2>1
<1> DEFINE m2 == (m1 * up(2)) * k
           n2 == (n1 * down(2)) * p
<1>7. /\ up(2) \in Nat \ {0} /\ down(2) \in Nat \ {0} /\ Is(After2(known, path).output, m2, n2)
  <2> HIDE DEF m1, n1
  <2>1. ScanLeg(After1(known, path), known[path[2].index], path[2].buy) # None
        /\ ScanLeg(After1(known, path), known[path[2].index], path[2].buy) = After2(known, path)
    BY <1>2 DEF After2, ScanOn
  <2>2. Returned(After2(known, path), known[path[2].index], path[2].buy, m1, n1)
    BY <1>1, <1>3, <1>4, <1>5, <1>6, <2>1, LegReturns
  <2> QED
    BY <2>2 DEF Returned
<1>8. m2 \in Nat \ {0} /\ n2 \in Nat \ {0}
  <2> HIDE DEF up, down, k, p, m1, n1
  <2>1. m1 * up(2) \in Nat \ {0} /\ n1 * down(2) \in Nat \ {0}
    BY <1>6, <1>7
  <2> QED
    BY <1>4, <2>1
<1> DEFINE m3 == (m2 * up(3)) * k
           n3 == (n2 * down(3)) * p
<1>9. /\ up(3) \in Nat \ {0} /\ down(3) \in Nat \ {0} /\ Is(After3(known, path).output, m3, n3)
  <2> HIDE DEF m2, n2
  <2>1. ScanLeg(After2(known, path), known[path[3].index], path[3].buy) # None
        /\ ScanLeg(After2(known, path), known[path[3].index], path[3].buy) = After3(known, path)
    BY <1>2 DEF After3, ScanOn
  <2>2. Returned(After3(known, path), known[path[3].index], path[3].buy, m2, n2)
    BY <1>1, <1>3, <1>4, <1>7, <1>8, <2>1, LegReturns
  <2> QED
    BY <2>2 DEF Returned
<1>10. m3 \in Nat \ {0} /\ n3 \in Nat \ {0}
  <2> HIDE DEF up, down, k, p, m2, n2
  <2>1. m2 * up(3) \in Nat \ {0} /\ n2 * down(3) \in Nat \ {0}
    BY <1>8, <1>9
  <2> QED
    BY <1>4, <2>1
<1> DEFINE m == up(1) * up(2) * up(3) * k * k * k
           n == down(1) * down(2) * down(3) * p * p * p
<1>11. Return(known, path) = Fraction(m, n)
  BY DEF Return, Factor
<1>12. m = m3 /\ n = n3
  <2> HIDE DEF up, down, k, p
  <2> QED
    BY <1>4, <1>5, <1>7, <1>9
<1> HIDE DEF m, n, m3, n3
<1>13. Is(Return(known, path), m3, n3)
  BY <1>10, <1>11, <1>12, FractionSays
<1> QED
  BY <1>1, <1>9, <1>10, <1>13, SameAbove

\* A qualifying path is a profitable one.
LEMMA QualifiesIs ==
  ASSUME NEW known \in Books, NEW path \in [1..3 -> Legs]
  PROVE  Scan(known, path) # None /\ Qualifies(Scan(known, path).output)
           <=> Profitable(known, path)
<1> DEFINE t == [n |-> EdgeThreshold.n + EdgeThreshold.d, d |-> EdgeThreshold.d]
<1>1. t \in Positive
  <2>1. EdgeThreshold.n \in Nat /\ EdgeThreshold.d \in Nat \ {0}
    BY ScanAssumption
  <2>2. EdgeThreshold.n + EdgeThreshold.d \in Nat \ {0}
    BY <2>1
  <2> QED
    BY <2>1, <2>2 DEF Positive
<1>2. \A x : Qualifies(x) <=> Less(t, x)
  BY DEF Qualifies
<1>3. Profitable(known, path) <=> Quoted(known, path) /\ Less(t, Return(known, path))
  BY DEF Profitable
<1> HIDE DEF t
<1> QED
  BY <1>1, <1>2, <1>3, ScanQuoted, ScanReturns

\* What a scan found is an opportunity.
LEMMA EdgeOfTypes ==
  ASSUME NEW known \in Books, NEW path \in [1..3 -> Legs], Scan(known, path) # None
  PROVE  EdgeOf(known, path) \in Opportunities
<1> DEFINE scan == Scan(known, path)
           quantities == [i \in 1..3 |-> Times(scan.quantities[i], scan.limit)]
<1>1. scan \in Scans /\ Len(scan.quantities) = 3
  BY ScanTypes
<1> HIDE DEF scan
<1>2. scan.prices \in Seq(Positive) /\ scan.limit \in Positive /\ scan.quantities \in Seq(Positive)
  BY <1>1 DEF Scans
<1>3. ASSUME NEW i \in 1..3 PROVE Times(scan.quantities[i], scan.limit) \in Positive
  <2>1. scan.quantities[i] \in Positive
    <3> HIDE DEF Positive
    <3> QED
      BY <1>1, <1>2
  <2> QED
    BY <1>2, <2>1, FractionTypes
<1>4. quantities \in [1..3 -> Positive]
  <2> HIDE DEF Positive
  <2> QED
    BY <1>3
<1>5. EdgeOf(known, path) =
        [path |-> path, prices |-> scan.prices, input |-> scan.limit, quantities |-> quantities]
  BY DEF EdgeOf, scan
<1> HIDE DEF quantities
<1> QED
  BY <1>2, <1>4, <1>5 DEF Opportunities

\* The scan of an update returns something exactly when a configured path
\* through its symbol qualifies.
LEMMA EdgeExists ==
  ASSUME NEW known \in Books, NEW index
  PROVE  ScanEdge(known, Groups, index) # None <=>
           \E g \in DOMAIN Groups : \E p \in {1, 2} :
             /\ \E i \in 1..3 : Groups[g].symbols[i] = index
             /\ Scan(known, Groups[g].paths[p]) # None
             /\ Qualifies(Scan(known, Groups[g].paths[p]).output)
<1> DEFINE Has(g, p) == LET scan == Scan(known, Groups[g].paths[p])
                        IN scan # None /\ Qualifies(scan.output)
           edges == {e \in (DOMAIN Groups) \X {1, 2} :
                       (\E i \in 1..3 : Groups[e[1]].symbols[i] = index) /\ Has(e[1], e[2])}
           first == CHOOSE e \in edges :
                      \A f \in edges : e[1] < f[1] \/ (e[1] = f[1] /\ e[2] <= f[2])
           path == Groups[first[1]].paths[first[2]]
<1>1. ScanEdge(known, Groups, index) = IF edges = {} THEN None ELSE EdgeOf(known, path)
  BY DEF ScanEdge, EdgeOf
<1>2. ASSUME edges # {} PROVE EdgeOf(known, path) # None
  <2>1. edges \subseteq Nat \X Nat
    BY GroupTypes
  <2>2. \E e \in edges : \A f \in edges : Before(e, f)
    <3> HIDE DEF edges
    <3> QED
      BY <1>2, <2>1, FirstPair
  <2>3. first \in edges
    <3> HIDE DEF edges
    <3> QED
      BY <2>2 DEF Before
  <2> HIDE DEF first
  <2>4. first[1] \in DOMAIN Groups /\ first[2] \in {1, 2} /\ Has(first[1], first[2])
    BY <2>3
  <2>5. path \in [1..3 -> Legs] /\ Scan(known, path) # None
    BY <2>4, GroupTypes
  <2> HIDE DEF path
  <2> QED
    BY <2>5, EdgeOfTypes, NoneAssumption
<1>3. edges # {} <=>
        \E g \in DOMAIN Groups : \E p \in {1, 2} :
          (\E i \in 1..3 : Groups[g].symbols[i] = index) /\ Has(g, p)
  <2> HIDE DEF Has
  <2>1. ASSUME NEW g \in DOMAIN Groups, NEW p \in {1, 2},
               \E i \in 1..3 : Groups[g].symbols[i] = index, Has(g, p)
        PROVE  <<g, p>> \in edges
    BY <2>1
  <2>2. ASSUME NEW e \in edges
        PROVE  \E g \in DOMAIN Groups : \E p \in {1, 2} :
                 (\E i \in 1..3 : Groups[g].symbols[i] = index) /\ Has(g, p)
    <3>1. e[1] \in DOMAIN Groups /\ e[2] \in {1, 2}
      BY DEF edges
    <3>2. (\E i \in 1..3 : Groups[e[1]].symbols[i] = index) /\ Has(e[1], e[2])
      BY DEF edges
    <3> QED
      BY <3>1, <3>2
  <2> HIDE DEF edges
  <2> QED
    BY <2>1, <2>2
<1>4. \A g, p : Has(g, p) <=> /\ Scan(known, Groups[g].paths[p]) # None
                           /\ Qualifies(Scan(known, Groups[g].paths[p]).output)
  OBVIOUS
<1> HIDE DEF Has, edges, path
<1> QED
  BY <1>1, <1>2, <1>3, <1>4

\* An edge is found exactly when a path through the symbol offers one.
LEMMA EdgesAreFound ==
  ASSUME NEW known \in Books, NEW index PROVE EdgeFound(known, Groups, index)
<1>1. ASSUME NEW g \in DOMAIN Groups, NEW p \in {1, 2}
      PROVE  (/\ Scan(known, Groups[g].paths[p]) # None
              /\ Qualifies(Scan(known, Groups[g].paths[p]).output))
               <=> Profitable(known, Groups[g].paths[p])
  <2>1. Groups[g].paths[p] \in [1..3 -> Legs]
    BY GroupTypes
  <2> QED
    BY <2>1, QualifiesIs
<1>2. \A g : (\E i \in 1..3 : Groups[g].symbols[i] = index)
               <=> index \in {Groups[g].symbols[i] : i \in 1..3}
  OBVIOUS
<1> QED
  BY <1>1, <1>2, EdgeExists DEF EdgeFound

(***************************************************************************)
(* Exact decimals.                                                         *)
(***************************************************************************)
\* How many digits of a text follow position i, and what the digits up to a
\* position are worth.
Left(text, i) == Len(text) - i - (IF \E j \in Dots(text) : j > i THEN 1 ELSE 0)
Worth(text, i) == IF text[i] = Dot THEN 0 ELSE text[i] * TenTo[Left(text, i)]
Weighing(text) ==
  CHOOSE sum : sum = [i \in 0..Len(text) |-> IF i = 0 THEN 0 ELSE sum[i - 1] + Worth(text, i)]

\* The characters of a text and the number of its digits after each.
LEMMA TextTypes ==
  ASSUME NEW text \in Seq(Characters)
  PROVE  /\ Len(text) \in Nat /\ DOMAIN text = 1..Len(text)
         /\ \A i \in 1..Len(text) : text[i] \in 0..11
         /\ \A i \in 0..Len(text) : Left(text, i) \in Nat /\ TenTo[Left(text, i)] \in Nat \ {0}
         /\ \A i \in 1..Len(text) : Worth(text, i) \in Nat
<1>1. Len(text) \in Nat /\ DOMAIN text = 1..Len(text)
  OBVIOUS
<1>2. \A i \in 1..Len(text) : text[i] \in 0..11
  BY DEF Characters
<1>3. ASSUME NEW i \in 0..Len(text) PROVE Left(text, i) \in Nat
  <2>1. CASE \E j \in Dots(text) : j > i
    <3>1. PICK j \in 1..Len(text) : j > i
      BY <1>1, <2>1 DEF Dots
    <3>2. Len(text) - i - 1 \in Nat
      BY <1>1, <3>1
    <3> QED
      BY <2>1, <3>2 DEF Left
  <2>2. CASE ~\E j \in Dots(text) : j > i
    <3>1. Len(text) - i - 0 \in Nat
      BY <1>1
    <3> QED
      BY <2>2, <3>1 DEF Left
  <2> QED
    BY <2>1, <2>2
<1>4. \A i \in 0..Len(text) : TenTo[Left(text, i)] \in Nat \ {0}
  BY <1>3, TenToPositive
<1>5. ASSUME NEW i \in 1..Len(text) PROVE Worth(text, i) \in Nat
  <2>1. i \in 0..Len(text)
    OBVIOUS
  <2>2. text[i] \in Nat /\ TenTo[Left(text, i)] \in Nat
    BY <1>2, <1>4, <2>1
  <2> QED
    BY <2>2 DEF Worth
<1> QED
  BY <1>1, <1>2, <1>3, <1>4, <1>5

\* The number of a text is the sum of what its characters are worth.
LEMMA WeighingIs ==
  ASSUME NEW text \in Seq(Characters)
  PROVE  /\ Digits(text) = Weighing(text)[Len(text)]
         /\ Weighing(text)[0] = 0
         /\ \A i \in 1..Len(text) : Weighing(text)[i] = Weighing(text)[i - 1] + Worth(text, i)
         /\ \A i \in 0..Len(text) : Weighing(text)[i] \in Nat
<1> DEFINE n == Len(text)
           step == [m \in (1..n) \X Nat |-> m[2] + Worth(text, m[1])]
           sum == Weighing(text)
<1>1. n \in Nat /\ \A i \in 1..n : Worth(text, i) \in Nat
  BY TextTypes
<1>2. Digits(text) = sum[n]
  BY DEF Digits, Weighing, Worth, Left
<1>3. step \in [(1..n) \X Nat -> Nat] /\ 0 \in Nat
  <2> HIDE DEF n
  <2> QED
    BY <1>1
<1>4. PICK f : Steps(f, 0, step, n)
  <2> HIDE DEF n, step
  <2> QED
    BY <1>1, <1>3, StepsExist
<1>5. f = [i \in 0..n |-> IF i = 0 THEN 0 ELSE step[<<i, f[i - 1]>>]]
  BY <1>4 DEF Steps
<1>6. f[0] = 0 /\ \A i \in 1..n : f[i] = step[<<i, f[i - 1]>>]
  <2>1. 0 \in 0..n /\ \A i \in 1..n : i \in 0..n /\ i # 0
    BY <1>1
  <2> HIDE DEF n, step
  <2> QED
    BY <1>5, <2>1
<1>7. \A i \in 0..n : f[i] \in Nat
  <2>1. \A i \in 1..n : f[i - 1] \in Nat => f[i] \in Nat
    <3> HIDE DEF n, step
    <3> QED
      BY <1>3, <1>6
  <2>2. f[0] \in Nat
    BY <1>6
  <2> HIDE DEF n, step
  <2> QED
    BY <1>1, <2>1, <2>2, StepsStay
<1>8. \A i \in 1..n : f[i] = f[i - 1] + Worth(text, i)
  <2>1. ASSUME NEW i \in 1..n PROVE i - 1 \in 0..n
    BY <1>1
  <2> HIDE DEF n
  <2> QED
    BY <1>6, <1>7, <2>1
<1>9. f = [i \in 0..n |-> IF i = 0 THEN 0 ELSE f[i - 1] + Worth(text, i)]
  <2>1. \A i \in 0..n : i # 0 => i \in 1..n
    BY <1>1
  <2> HIDE DEF n, step
  <2> QED
    BY <1>5, <1>6, <1>8, <2>1
<1>10. sum = [i \in 0..n |-> IF i = 0 THEN 0 ELSE sum[i - 1] + Worth(text, i)]
  BY <1>9 DEF Weighing
<1>11. sum[0] = 0 /\ \A i \in 1..n : sum[i] = sum[i - 1] + Worth(text, i)
  <2>1. 0 \in 0..n /\ \A i \in 1..n : i \in 0..n /\ i # 0
    BY <1>1
  <2> HIDE DEF n, sum
  <2> QED
    BY <1>10, <2>1
<1>12. \A i \in 0..n : sum[i] \in Nat
  <2>1. \A i \in 1..n : sum[i - 1] \in Nat => sum[i] \in Nat
    <3> HIDE DEF n, sum
    <3> QED
      BY <1>1, <1>11
  <2>2. sum[0] \in Nat
    BY <1>11
  <2> HIDE DEF n, sum
  <2> QED
    BY <1>1, <2>1, <2>2, StepsStay
<1> QED
  BY <1>2, <1>11, <1>12

\* What one more character does.
Took(d, r, text, i) ==
  \/ /\ text[i] = Dot /\ ~d.dot /\ i > 1 /\ i < Len(text)
     /\ r.mantissa = d.mantissa /\ r.scale = d.scale /\ r.dot = TRUE
  \/ /\ text[i] \in 0..9 /\ 10 * d.mantissa + text[i] <= MaxMantissa
     /\ (d.dot => d.scale # MaxScale)
     /\ r.mantissa = 10 * d.mantissa + text[i] /\ r.dot = d.dot
     /\ r.scale = (IF d.dot THEN d.scale + 1 ELSE d.scale)

\* Another digit fits or not.
LEMMA OverflowsIs ==
  ASSUME NEW m \in Nat, NEW c \in 0..9
  PROVE  Overflows(m, c) <=> 10 * m + c > MaxMantissa
<1>1. MaxMantissa - c \in Nat
  BY DecimalAssumption
<1> DEFINE q == (MaxMantissa - c) \div 10
<1>2. q \in Nat /\ 10 * q <= MaxMantissa - c /\ MaxMantissa - c < 10 * (q + 1)
  <2>1. 10 \in Nat \ {0}
    OBVIOUS
  <2> HIDE DEF q
  <2> QED
    BY <1>1, <2>1, QuotientTypes DEF q
<1>3. Overflows(m, c) <=> m > q
  BY DEF Overflows
<1> HIDE DEF q
<1>4. MaxMantissa \in Nat
  BY DecimalAssumption
<1> QED
  BY <1>2, <1>3, <1>4

\* A character is taken or the text refused.
LEMMA ReadTakes ==
  ASSUME NEW text \in Seq(Characters), NEW i \in 1..Len(text), NEW d \in Amounts
  PROVE  /\ Read(d, text, i) # None => Took(d, Read(d, text, i), text, i)
         /\ text[i] = Dot /\ ~d.dot /\ i > 1 /\ i < Len(text) => Read(d, text, i) # None
         /\ (/\ text[i] \in 0..9 /\ 10 * d.mantissa + text[i] <= MaxMantissa
             /\ (d.dot => d.scale # MaxScale)) => Read(d, text, i) # None
<1>1. /\ d # None /\ d.mantissa \in Nat /\ d.scale \in Nat /\ d.dot \in BOOLEAN
      /\ text[i] \in 0..11
  BY TextTypes, ExceptionAssumption DEF Amounts
<1>2. CASE text[i] = Dot /\ ~d.dot /\ i > 1 /\ i < Len(text)
  <2>1. Read(d, text, i) = [d EXCEPT !.dot = TRUE]
    BY <1>1, <1>2 DEF Read
  <2>2. /\ [d EXCEPT !.dot = TRUE] \in Amounts
        /\ [d EXCEPT !.dot = TRUE].mantissa = d.mantissa
        /\ [d EXCEPT !.dot = TRUE].scale = d.scale /\ [d EXCEPT !.dot = TRUE].dot = TRUE
    BY <1>1 DEF Amounts
  <2>3. Read(d, text, i) # None
    BY <2>1, <2>2, ExceptionAssumption
  <2> QED
    BY <1>2, <2>1, <2>2, <2>3 DEF Took
<1>3. CASE ~(text[i] = Dot /\ ~d.dot /\ i > 1 /\ i < Len(text))
  <2> DEFINE r == [d EXCEPT !.mantissa = 10 * @ + text[i], !.scale = IF d.dot THEN @ + 1 ELSE @]
             refused == \/ text[i] \notin 0..9 \/ Overflows(d.mantissa, text[i])
                        \/ (d.dot /\ d.scale = MaxScale)
  <2>1. Read(d, text, i) = IF refused THEN None ELSE r
    BY <1>1, <1>3 DEF Read
  <2>2. text[i] \in 0..9 =>
          /\ r \in Amounts /\ r.mantissa = 10 * d.mantissa + text[i]
          /\ r.scale = (IF d.dot THEN d.scale + 1 ELSE d.scale) /\ r.dot = d.dot
    <3> SUFFICES ASSUME text[i] \in 0..9
                 PROVE  /\ r \in Amounts /\ r.mantissa = 10 * d.mantissa + text[i]
                        /\ r.scale = (IF d.dot THEN d.scale + 1 ELSE d.scale) /\ r.dot = d.dot
      OBVIOUS
    <3>1. 10 * d.mantissa + text[i] \in Nat /\ (IF d.dot THEN d.scale + 1 ELSE d.scale) \in Nat
      <4>1. \A m, c, s \in Nat : 10 * m + c \in Nat /\ s + 1 \in Nat
        OBVIOUS
      <4>2. d.mantissa \in Nat /\ d.scale \in Nat /\ text[i] \in Nat
        BY <1>1
      <4> QED
        BY <4>1, <4>2, Zenon
    <3>2. r = [d EXCEPT !.mantissa = 10 * d.mantissa + text[i],
                        !.scale = IF d.dot THEN d.scale + 1 ELSE d.scale]
      OBVIOUS
    <3>3. r \in Amounts
      <4> HIDE DEF r
      <4> QED
        BY <3>1, <3>2, AmountWith
    <3> QED
      BY <3>2, <3>3 DEF Amounts
  <2>3. text[i] \in 0..9 => (Overflows(d.mantissa, text[i]) <=>
                              ~(10 * d.mantissa + text[i] <= MaxMantissa))
    <3>1. MaxMantissa \in Nat
      BY DecimalAssumption
    <3> QED
      BY <1>1, <3>1, OverflowsIs
  <2> HIDE DEF r
  <2>4. text[i] \in 0..9 => r # None
    BY <2>2, ExceptionAssumption
  <2> QED
    BY <1>3, <2>1, <2>2, <2>3, <2>4 DEF Took
<1> QED
  BY <1>2, <1>3

\* A reading of k characters that was not refused: what it has seen.
Clean(d, text, k) ==
  /\ \A i \in 1..k : text[i] # Other
  /\ \A i, j \in 1..k : text[i] = Dot /\ text[j] = Dot => i = j
  /\ \A i \in 1..k : text[i] = Dot => i > 1 /\ i < Len(text)
  /\ d.dot <=> \E i \in 1..k : text[i] = Dot
  /\ d.mantissa <= MaxMantissa /\ d.scale <= MaxScale

\* A reading of k characters of a well-formed text: its value so far.
Exact(d, text, k) ==
  /\ d.mantissa * TenTo[Left(text, k)] = Weighing(text)[k]
  /\ d.dot <=> \E j \in Dots(text) : j <= k
  /\ \A j \in Dots(text) : d.scale = IF j <= k THEN k - j ELSE 0
  /\ Dots(text) = {} => d.scale = 0

\* The next character keeps a reading clean.
LEMMA TookClean ==
  ASSUME NEW text \in Seq(Characters), NEW i \in 1..Len(text), NEW d \in Amounts,
         NEW r \in Amounts, Took(d, r, text, i), Clean(d, text, i - 1)
  PROVE  Clean(r, text, i)
<1>1. /\ i \in Nat /\ i > 0 /\ text[i] \in 0..11 /\ MaxMantissa \in Nat /\ MaxScale \in Nat
      /\ d.mantissa \in Nat /\ d.scale \in Nat /\ d.dot \in BOOLEAN
  BY TextTypes, DecimalAssumption DEF Amounts
<1>2. \A k \in 1..i : k = i \/ k \in 1..(i - 1)
  BY <1>1
<1>3. \A k \in 1..(i - 1) : k \in 1..i /\ k # i
  BY <1>1
<1>4. i \in 1..i
  BY <1>1
<1>5. CASE /\ text[i] = Dot /\ ~d.dot /\ i > 1 /\ i < Len(text)
           /\ r.mantissa = d.mantissa /\ r.scale = d.scale /\ r.dot = TRUE
  <2>1. \A k \in 1..(i - 1) : text[k] # Dot
    BY <1>5 DEF Clean
  <2>2. Dot # Other
    BY DEF Dot, Other
  <2> QED
    BY <1>2, <1>4, <1>5, <2>1, <2>2 DEF Clean
<1>6. CASE /\ text[i] \in 0..9 /\ 10 * d.mantissa + text[i] <= MaxMantissa
           /\ (d.dot => d.scale # MaxScale)
           /\ r.mantissa = 10 * d.mantissa + text[i] /\ r.dot = d.dot
           /\ r.scale = (IF d.dot THEN d.scale + 1 ELSE d.scale)
  <2>1. text[i] # Dot /\ text[i] # Other
    BY <1>6 DEF Dot, Other
  <2>2. d.scale # MaxScale => d.scale + 1 <= MaxScale
    BY <1>1 DEF Clean
  <2>3. r.scale <= MaxScale
    <3>1. CASE d.dot
      BY <1>6, <2>2, <3>1
    <3>2. CASE ~d.dot
      BY <1>6, <3>2 DEF Clean
    <3> QED
      BY <3>1, <3>2
  <2>4. r.mantissa <= MaxMantissa
    BY <1>6
  <2> QED
    BY <1>2, <1>3, <1>6, <2>1, <2>3, <2>4 DEF Clean
<1> QED
  BY <1>5, <1>6 DEF Took

\* The digits left after a character of a well-formed text.
LEMMA LeftNext ==
  ASSUME NEW text \in Seq(Characters), WellFormed(text), NEW i \in 1..Len(text)
  PROVE  /\ Left(text, i - 1) = IF text[i] = Dot THEN Left(text, i) ELSE Left(text, i) + 1
         /\ Dots(text) \subseteq 1..Len(text)
         /\ i \in Dots(text) <=> text[i] = Dot
         /\ \A j, k \in Dots(text) : j = k
         /\ Left(text, Len(text)) = 0
<1>1. /\ Dots(text) \subseteq 1..Len(text) /\ (i \in Dots(text) <=> text[i] = Dot)
      /\ Len(text) \in Nat
  BY TextTypes DEF Dots
<1>2. \A j, k \in Dots(text) : j = k
  BY DEF WellFormed
<1>3. Left(text, Len(text)) = 0
  <2>1. ~\E j \in Dots(text) : j > Len(text)
    BY <1>1
  <2>2. Len(text) - Len(text) - 0 = 0
    BY <1>1
  <2> QED
    BY <2>1, <2>2 DEF Left
<1>4. CASE text[i] = Dot
  <2>1. (\E j \in Dots(text) : j > i - 1) /\ ~\E j \in Dots(text) : j > i
    BY <1>1, <1>2, <1>4
  <2>2. Len(text) - (i - 1) - 1 = Len(text) - i - 0
    BY <1>1
  <2>3. Left(text, i - 1) = Left(text, i)
    BY <2>1, <2>2 DEF Left
  <2> QED
    BY <1>1, <1>2, <1>3, <1>4, <2>3
<1>5. CASE text[i] # Dot
  <2>1. (\E j \in Dots(text) : j > i - 1) <=> \E j \in Dots(text) : j > i
    BY <1>1, <1>5
  <2>2. Left(text, i - 1) = Left(text, i) + 1
    <3>1. CASE \E j \in Dots(text) : j > i
      <4>1. Left(text, i - 1) = Len(text) - (i - 1) - 1 /\ Left(text, i) = Len(text) - i - 1
        BY <2>1, <3>1 DEF Left
      <4> QED
        BY <1>1, <4>1
    <3>2. CASE ~\E j \in Dots(text) : j > i
      <4>1. Left(text, i - 1) = Len(text) - (i - 1) - 0 /\ Left(text, i) = Len(text) - i - 0
        BY <2>1, <3>2 DEF Left
      <4> QED
        BY <1>1, <4>1
    <3> QED
      BY <3>1, <3>2
  <2> QED
    BY <1>1, <1>2, <1>3, <1>5, <2>2
<1> QED
  BY <1>4, <1>5

\* The next character keeps a reading exact.
LEMMA TookExact ==
  ASSUME NEW text \in Seq(Characters), WellFormed(text), NEW i \in 1..Len(text),
         NEW d \in Amounts, NEW r \in Amounts, Took(d, r, text, i), Exact(d, text, i - 1)
  PROVE  Exact(r, text, i)
<1>1. /\ i \in Nat /\ text[i] \in 0..11 /\ i \in 0..Len(text)
      /\ d.mantissa \in Nat /\ d.scale \in Nat /\ d.dot \in BOOLEAN
      /\ Left(text, i) \in Nat /\ TenTo[Left(text, i)] \in Nat
      /\ Worth(text, i) \in Nat
  BY TextTypes DEF Amounts
<1>2. Weighing(text)[i] = Weighing(text)[i - 1] + Worth(text, i) /\ Weighing(text)[i - 1] \in Nat
  <2>1. i - 1 \in 0..Len(text)
    BY <1>1
  <2> QED
    BY <2>1, WeighingIs
<1>3. /\ Dots(text) \subseteq Nat /\ (i \in Dots(text) <=> text[i] = Dot)
      /\ \A j, k \in Dots(text) : j = k
  BY <1>1, LeftNext
<1>4. CASE /\ text[i] = Dot /\ ~d.dot /\ i > 1 /\ i < Len(text)
           /\ r.mantissa = d.mantissa /\ r.scale = d.scale /\ r.dot = TRUE
  <2>1. r.mantissa * TenTo[Left(text, i)] = Weighing(text)[i]
    <3>1. Left(text, i - 1) = Left(text, i)
      BY <1>4, LeftNext
    <3>2. Worth(text, i) = 0
      BY <1>4 DEF Worth
    <3> QED
      BY <1>2, <1>4, <3>1, <3>2 DEF Exact
  <2>2. \A j \in Dots(text) : j = i
    BY <1>3, <1>4
  <2>3. i <= i /\ ~(i <= i - 1) /\ i - i = 0
    BY <1>1
  <2>4. \A j \in Dots(text) : r.scale = IF j <= i THEN i - j ELSE 0
    BY <1>3, <1>4, <2>2, <2>3 DEF Exact
  <2> QED
    BY <1>3, <1>4, <2>1, <2>3, <2>4 DEF Exact
<1>5. CASE /\ text[i] \in 0..9 /\ 10 * d.mantissa + text[i] <= MaxMantissa
           /\ (d.dot => d.scale # MaxScale)
           /\ r.mantissa = 10 * d.mantissa + text[i] /\ r.dot = d.dot
           /\ r.scale = (IF d.dot THEN d.scale + 1 ELSE d.scale)
  <2>1. text[i] # Dot
    BY <1>5 DEF Dot
  <2>2. r.mantissa * TenTo[Left(text, i)] = Weighing(text)[i]
    <3> DEFINE T == TenTo[Left(text, i)]
    <3>1. TenTo[Left(text, i - 1)] = 10 * T
      BY <1>1, <2>1, LeftNext, TenToNext
    <3>2. Worth(text, i) = text[i] * T
      BY <2>1 DEF Worth
    <3>3. d.mantissa * (10 * T) = Weighing(text)[i - 1]
      BY <3>1 DEF Exact
    <3>4. T \in Nat /\ text[i] \in Nat
      BY <1>1
    <3> HIDE DEF T
    <3>5. (10 * d.mantissa + text[i]) * T = d.mantissa * (10 * T) + text[i] * T
      BY <1>1, <3>4
    <3> QED
      BY <1>2, <1>5, <3>2, <3>3, <3>5 DEF T
  <2>3. \A j \in Dots(text) : j \in Nat /\ (j <= i <=> j <= i - 1)
    BY <1>1, <1>3, <2>1
  <2>4. r.dot <=> \E j \in Dots(text) : j <= i
    BY <1>5, <2>3 DEF Exact
  <2>5. ASSUME NEW j \in Dots(text) PROVE r.scale = IF j <= i THEN i - j ELSE 0
    <3>1. CASE j <= i
      <4>1. d.dot /\ d.scale = i - 1 - j
        BY <2>3, <3>1 DEF Exact
      <4>2. r.scale = i - 1 - j + 1
        BY <1>5, <4>1
      <4> QED
        BY <1>1, <2>3, <3>1, <4>2
    <3>2. CASE ~(j <= i)
      <4>1. ~d.dot
        BY <1>3, <2>3, <3>2 DEF Exact
      <4>2. d.scale = 0
        BY <2>3, <3>2 DEF Exact
      <4> QED
        BY <1>5, <3>2, <4>1, <4>2
    <3> QED
      BY <3>1, <3>2
  <2>6. Dots(text) = {} => r.scale = 0
    <3>1. Dots(text) = {} => ~d.dot /\ d.scale = 0
      BY DEF Exact
    <3> QED
      BY <1>5, <3>1
  <2> QED
    BY <2>2, <2>4, <2>5, <2>6 DEF Exact
<1> QED
  BY <1>4, <1>5 DEF Took

\* No more is weighed up to a position than in all.
LEMMA WeighsLess ==
  ASSUME NEW text \in Seq(Characters), NEW i \in 0..Len(text)
  PROVE  Weighing(text)[i] <= Digits(text)
<1> DEFINE W == Weighing(text)
           n == Len(text)
           S == {k \in Nat : i + k <= n => W[i] <= W[i + k]}
<1>1. /\ n \in Nat /\ i \in Nat
      /\ \A k \in 1..n : W[k] = W[k - 1] + Worth(text, k)
      /\ \A k \in 1..n : Worth(text, k) \in Nat
      /\ \A k \in 0..n : W[k] \in Nat
      /\ Digits(text) = W[n]
  BY TextTypes, WeighingIs
<1> HIDE DEF W, n
<1>2. 0 \in S
  BY <1>1
<1>3. ASSUME NEW k \in Nat, k \in S PROVE k + 1 \in S
  <2>1. SUFFICES ASSUME i + (k + 1) <= n PROVE W[i] <= W[i + (k + 1)]
    OBVIOUS
  <2>2. i + (k + 1) \in 1..n /\ i + (k + 1) - 1 = i + k /\ i + k \in 0..n /\ i \in 0..n /\ i + k <= n
    BY <1>1, <2>1
  <2>3. W[i + (k + 1)] = W[i + k] + Worth(text, i + (k + 1)) /\ Worth(text, i + (k + 1)) \in Nat
    BY <1>1, <2>2
  <2>4. W[i] <= W[i + k] /\ W[i] \in Nat /\ W[i + k] \in Nat
    BY <1>1, <1>3, <2>2
  <2> QED
    BY <2>3, <2>4
<1> HIDE DEF S
<1>4. \A k \in Nat : k \in S
  BY <1>2, <1>3, NatInduct
<1>5. n - i \in Nat /\ i + (n - i) = n
  BY <1>1 DEF n
<1>6. W[i] <= W[n]
  <2>1. n - i \in S
    BY <1>4, <1>5
  <2>2. i + (n - i) <= n => W[i] <= W[i + (n - i)]
    BY <2>1 DEF S
  <2> QED
    BY <1>1, <1>5, <2>2
<1> QED
  BY <1>1, <1>6 DEF W

\* Nothing read is an exact reading of nothing.
LEMMA StartExact ==
  ASSUME NEW text \in Seq(Characters)
  PROVE  Exact(Start, text, 0)
<1>1. Weighing(text)[0] = 0
  BY WeighingIs
<1>2. TenTo[Left(text, 0)] \in Nat
  BY TextTypes
<1>3. \A j \in Dots(text) : ~(j <= 0)
  BY TextTypes DEF Dots
<1>4. Start.mantissa = 0 /\ Start.scale = 0 /\ ~Start.dot
  BY DEF Start
<1>5. Start.mantissa * TenTo[Left(text, 0)] = 0
  BY <1>2, <1>4
<1> QED
  BY <1>1, <1>3, <1>4, <1>5 DEF Exact

\* An exact reading of the whole text is its number.
LEMMA ExactAtTheEnd ==
  ASSUME NEW text \in Seq(Characters), WellFormed(text), NEW d \in Amounts,
         Len(text) \in 1..Len(text), Exact(d, text, Len(text))
  PROVE  d.mantissa = Digits(text) /\ d.scale = Places(text)
<1>1. /\ Left(text, Len(text)) = 0 /\ Dots(text) \subseteq 1..Len(text)
      /\ Len(text) \in Nat /\ d.mantissa \in Nat
  BY LeftNext DEF Amounts
<1>2. d.mantissa = Digits(text)
  <2>1. d.mantissa * 1 = Weighing(text)[Len(text)]
    BY <1>1, TenToNext DEF Exact
  <2> QED
    BY <1>1, <2>1, WeighingIs
<1>3. CASE Dots(text) = {}
  BY <1>2, <1>3 DEF Exact, Places
<1>4. CASE Dots(text) # {}
  <2> DEFINE j == CHOOSE k \in Dots(text) : TRUE
  <2>1. j \in Dots(text)
    BY <1>4
  <2> HIDE DEF j
  <2>2. j <= Len(text)
    BY <1>1, <2>1
  <2>3. d.scale = Len(text) - j
    BY <2>1, <2>2 DEF Exact
  <2> QED
    BY <1>2, <1>4, <2>3 DEF Places, j
<1> QED
  BY <1>3, <1>4

\* The next character of a well-formed text whose number fits is taken.
LEMMA TookGoes ==
  ASSUME NEW text \in Seq(Characters), WellFormed(text), NEW i \in 1..Len(text),
         NEW d \in Amounts, Exact(d, text, i - 1),
         Digits(text) <= MaxMantissa, Places(text) <= MaxScale
  PROVE  Read(d, text, i) # None
<1>1. /\ i \in Nat /\ text[i] \in 0..11 /\ i \in 0..Len(text) /\ Len(text) \in Nat
      /\ d.mantissa \in Nat /\ d.scale \in Nat /\ d.dot \in BOOLEAN
      /\ Left(text, i) \in Nat /\ TenTo[Left(text, i)] \in Nat \ {0}
      /\ DOMAIN text = 1..Len(text)
  BY TextTypes DEF Amounts
<1>2. /\ Dots(text) \subseteq Nat /\ (i \in Dots(text) <=> text[i] = Dot)
      /\ \A j, k \in Dots(text) : j = k
      /\ \A j \in Dots(text) : j > 1 /\ j < Len(text)
  BY <1>1, LeftNext DEF WellFormed
<1>3. CASE text[i] = Dot
  <2>1. ~d.dot
    <3>1. ~\E j \in Dots(text) : j <= i - 1
      BY <1>1, <1>2, <1>3
    <3> QED
      BY <3>1 DEF Exact
  <2> QED
    BY <1>2, <1>3, <2>1, ReadTakes
<1>4. CASE text[i] # Dot
  <2>1. text[i] \in 0..9
    <3>1. text[i] # Other
      BY <1>1 DEF WellFormed
    <3> QED
      BY <1>1, <1>4, <3>1 DEF Dot, Other
  <2>2. 10 * d.mantissa + text[i] <= MaxMantissa
    <3> DEFINE T == TenTo[Left(text, i)]
               m == 10 * d.mantissa + text[i]
    <3>1. TenTo[Left(text, i - 1)] = 10 * T
      BY <1>1, <1>4, LeftNext, TenToNext
    <3>2. Worth(text, i) = text[i] * T
      BY <1>4 DEF Worth
    <3>3. d.mantissa * (10 * T) = Weighing(text)[i - 1]
      BY <3>1 DEF Exact
    <3>4. T \in Nat \ {0} /\ text[i] \in Nat
      BY <1>1
    <3>5. m * T = Weighing(text)[i]
      <4>1. Weighing(text)[i] = Weighing(text)[i - 1] + Worth(text, i)
        BY WeighingIs
      <4> HIDE DEF T
      <4>2. (10 * d.mantissa + text[i]) * T = d.mantissa * (10 * T) + text[i] * T
        BY <1>1, <3>4
      <4> QED
        BY <3>2, <3>3, <4>1, <4>2
    <3>6. Weighing(text)[i] <= Digits(text)
      BY WeighsLess
    <3>7. m \in Nat /\ m <= m * T
      <4>1. m \in Nat
        BY <1>1, <2>1
      <4> HIDE DEF T, m
      <4> QED
        BY <3>4, <4>1
    <3>8. Digits(text) \in Nat /\ Weighing(text)[i] \in Nat /\ MaxMantissa \in Nat
      BY <1>1, WeighingIs, DecimalAssumption
    <3> HIDE DEF T, m
    <3>9. m <= MaxMantissa
      BY <3>5, <3>6, <3>7, <3>8
    <3> QED
      BY <3>9 DEF m
  <2>3. d.dot => d.scale # MaxScale
    <3> SUFFICES ASSUME d.dot PROVE d.scale # MaxScale
      OBVIOUS
    <3>1. PICK j \in Dots(text) : j <= i - 1
      BY DEF Exact
    <3>2. d.scale = i - 1 - j
      BY <3>1 DEF Exact
    <3>3. Places(text) = Len(text) - j
      <4>1. (CHOOSE k \in Dots(text) : TRUE) = j /\ Dots(text) # {}
        BY <1>2
      <4> QED
        BY <4>1 DEF Places
    <3>4. MaxScale \in Nat /\ i <= Len(text) /\ j \in Nat
      BY <1>1, <1>2, DecimalAssumption
    <3> QED
      BY <1>1, <3>2, <3>3, <3>4
  <2> QED
    BY <2>1, <2>2, <2>3, ReadTakes
<1> QED
  BY <1>3, <1>4

\* Every text is read as written or refused.
LEMMA TextsReadExactly ==
  ASSUME NEW text \in Seq(Characters)
  PROVE  ReadsExactly(text)
<1> DEFINE n == Len(text)
           R == Reading(text)
           fits == WellFormed(text) /\ Digits(text) <= MaxMantissa /\ Places(text) <= MaxScale
<1>1. CASE text = <<>>
  <2>1. Decimal(text) = None /\ ~WellFormed(text)
    BY <1>1, ReadingIs DEF WellFormed
  <2> QED
    BY <2>1 DEF ReadsExactly
<1>2. CASE text # <<>>
  <2>1. n \in Nat /\ n \in 1..n /\ DOMAIN text = 1..n
    BY <1>2
  <2>2. /\ Decimal(text) = R[n] /\ R[0] = Start
        /\ \A i \in 1..n : R[i] = Read(R[i - 1], text, i)
        /\ \A i \in 0..n : R[i] \in Amounts \cup {None}
    BY <1>2, ReadingIs
  <2>3. Start \in Amounts /\ Start # None
    <3>1. 0 \in Nat /\ FALSE \in BOOLEAN
      OBVIOUS
    <3>2. Start \in Amounts
      BY <3>1, Zenon DEF Start, Amounts
    <3> QED
      BY <3>2, ExceptionAssumption
  <2>4. \A i \in 1..n : R[i] # None => /\ R[i - 1] # None /\ R[i] \in Amounts
                                      /\ R[i - 1] \in Amounts /\ Took(R[i - 1], R[i], text, i)
    <3> SUFFICES ASSUME NEW i \in 1..n, R[i] # None
                 PROVE  /\ R[i - 1] # None /\ R[i] \in Amounts
                        /\ R[i - 1] \in Amounts /\ Took(R[i - 1], R[i], text, i)
      OBVIOUS
    <3>1. i \in 0..n /\ i - 1 \in 0..n
      BY <2>1
    <3>2. R[i - 1] # None
      <4>1. Read(None, text, i) = None
        BY DEF Read
      <4> HIDE DEF R
      <4> QED
        BY <2>2, <4>1
    <3>3. R[i] \in Amounts /\ R[i - 1] \in Amounts /\ R[i] = Read(R[i - 1], text, i)
      <4> HIDE DEF R, n
      <4> QED
        BY <2>2, <3>1, <3>2
    <3> QED
      BY <3>2, <3>3, ReadTakes
  <2>5. R[n] # None => Clean(R[n], text, n)
    <3> DEFINE S == {k \in Nat : k <= n /\ R[k] # None => Clean(R[k], text, k)}
    <3>1. 0 \in S
      <4>1. Clean(Start, text, 0)
        BY DecimalAssumption DEF Clean, Start
      <4> HIDE DEF R
      <4> QED
        BY <2>2, <4>1
    <3>2. ASSUME NEW k \in Nat, k \in S PROVE k + 1 \in S
      <4>1. SUFFICES ASSUME k + 1 <= n, R[k + 1] # None PROVE Clean(R[k + 1], text, k + 1)
        OBVIOUS
      <4>2. k + 1 \in 1..n /\ k + 1 - 1 = k /\ k <= n
        BY <2>1, <4>1
      <4>3. R[k] # None /\ R[k + 1] \in Amounts /\ R[k] \in Amounts /\ Took(R[k], R[k + 1], text, k + 1)
        <5> HIDE DEF R, n
        <5> QED
          BY <2>4, <4>1, <4>2
      <4>4. Clean(R[k], text, k)
        BY <3>2, <4>2, <4>3
      <4> HIDE DEF R
      <4> QED
        BY <4>2, <4>3, <4>4, TookClean
    <3> HIDE DEF S
    <3>3. \A k \in Nat : k \in S
      BY <3>1, <3>2, NatInduct
    <3> QED
      BY <2>1, <3>3 DEF S
  <2>6. WellFormed(text) => (R[n] # None => Exact(R[n], text, n))
    <3> SUFFICES ASSUME WellFormed(text) PROVE R[n] # None => Exact(R[n], text, n)
      OBVIOUS
    <3> DEFINE S == {k \in Nat : k <= n /\ R[k] # None => Exact(R[k], text, k)}
    <3>1. 0 \in S
      <4>1. Exact(Start, text, 0)
        BY StartExact
      <4> HIDE DEF R
      <4> QED
        BY <2>2, <4>1
    <3>2. ASSUME NEW k \in Nat, k \in S PROVE k + 1 \in S
      <4>1. SUFFICES ASSUME k + 1 <= n, R[k + 1] # None PROVE Exact(R[k + 1], text, k + 1)
        OBVIOUS
      <4>2. k + 1 \in 1..n /\ k + 1 - 1 = k /\ k <= n
        BY <2>1, <4>1
      <4>3. R[k] # None /\ R[k + 1] \in Amounts /\ R[k] \in Amounts /\ Took(R[k], R[k + 1], text, k + 1)
        <5> HIDE DEF R, n
        <5> QED
          BY <2>4, <4>1, <4>2
      <4>4. Exact(R[k], text, k)
        BY <3>2, <4>2, <4>3
      <4> HIDE DEF R
      <4> QED
        BY <4>2, <4>3, <4>4, TookExact
    <3> HIDE DEF S
    <3>3. \A k \in Nat : k \in S
      BY <3>1, <3>2, NatInduct
    <3> QED
      BY <2>1, <3>3 DEF S
  <2>7. fits => R[n] # None
    <3> SUFFICES ASSUME fits PROVE R[n] # None
      OBVIOUS
    <3> DEFINE S == {k \in Nat : k <= n => R[k] # None /\ R[k] \in Amounts /\ Exact(R[k], text, k)}
    <3>1. 0 \in S
      <4>1. Exact(Start, text, 0)
        BY StartExact
      <4> HIDE DEF R
      <4> QED
        BY <2>2, <2>3, <4>1
    <3>2. ASSUME NEW k \in Nat, k \in S PROVE k + 1 \in S
      <4>1. SUFFICES ASSUME k + 1 <= n
                     PROVE  R[k + 1] # None /\ R[k + 1] \in Amounts /\ Exact(R[k + 1], text, k + 1)
        OBVIOUS
      <4>2. k + 1 \in 1..n /\ k + 1 - 1 = k /\ k <= n
        BY <2>1, <4>1
      <4>3. R[k] \in Amounts /\ Exact(R[k], text, k)
        BY <3>2, <4>2
      <4>4. R[k + 1] # None
        <5>1. Read(R[k], text, k + 1) # None
          <6> HIDE DEF R
          <6> QED
            BY <4>2, <4>3, TookGoes
        <5> HIDE DEF R, n
        <5> QED
          BY <2>2, <4>2, <5>1
      <4>5. R[k + 1] \in Amounts /\ Took(R[k], R[k + 1], text, k + 1)
        <5> HIDE DEF R, n
        <5> QED
          BY <2>4, <4>2, <4>4
      <4> HIDE DEF R
      <4> QED
        BY <4>2, <4>3, <4>4, <4>5, TookExact
    <3> HIDE DEF S
    <3>3. \A k \in Nat : k \in S
      BY <3>1, <3>2, NatInduct
    <3> QED
      BY <2>1, <3>3 DEF S
  <2>8. WellFormed(text) /\ R[n] # None => R[n].mantissa = Digits(text) /\ R[n].scale = Places(text)
    <3> SUFFICES ASSUME WellFormed(text), R[n] # None
                 PROVE  R[n].mantissa = Digits(text) /\ R[n].scale = Places(text)
      OBVIOUS
    <3>1. Exact(R[n], text, n) /\ R[n] \in Amounts
      <4> HIDE DEF R, n
      <4> QED
        BY <2>1, <2>4, <2>6
    <3> HIDE DEF R
    <3> QED
      BY <2>1, <3>1, ExactAtTheEnd
  <2>9. R[n] # None => fits
    <3> SUFFICES ASSUME R[n] # None PROVE fits
      OBVIOUS
    <3>1. Clean(R[n], text, n)
      BY <2>5
    <3>2. WellFormed(text)
      BY <1>2, <2>1, <3>1 DEF Clean, WellFormed, Dots
    <3> QED
      BY <2>8, <3>1, <3>2 DEF Clean
  <2> HIDE DEF R, n
  <2> QED
    BY <2>2, <2>7, <2>8, <2>9 DEF ReadsExactly
<1> QED
  BY <1>1, <1>2

\* A number is scaled exactly, or refused because the result would not fit.
LEMMA RescaleIs ==
  ASSUME NEW d, d.mantissa \in 0..MaxMantissa, d.scale \in Nat,
         NEW scale \in Nat, scale >= d.scale
  PROVE  Rescale(d, scale) = IF d.mantissa * TenTo[scale - d.scale] <= MaxMantissa
                             THEN d.mantissa * TenTo[scale - d.scale] ELSE None
<1> DEFINE delta == scale - d.scale
           m == d.mantissa
           T == TenTo[delta]
<1>1. delta \in Nat /\ m \in Nat /\ m <= MaxMantissa /\ MaxMantissa \in Nat /\ Factors \in Nat
  BY DecimalAssumption
<1>2. T \in Nat \ {0} /\ TenTo[0] = 1
  BY <1>1, TenToPositive, TenToNext
<1>3. Rescale(d, scale) = IF delta = 0 \/ m = 0 THEN m
                          ELSE IF delta >= Factors \/ m > MaxMantissa \div T THEN None
                          ELSE m * T
  BY DEF Rescale
<1>4. delta = 0 => T = 1
  BY <1>2
<1>5. delta >= Factors /\ m # 0 => m * T > MaxMantissa
  <2> SUFFICES ASSUME delta >= Factors, m # 0 PROVE m * T > MaxMantissa
    OBVIOUS
  <2> HIDE DEF delta, m
  <2>1. delta - Factors \in Nat /\ Factors + (delta - Factors) = delta
    BY <1>1
  <2>2. T = TenTo[Factors] * TenTo[delta - Factors]
    BY <1>1, <2>1, TenToSum
  <2> DEFINE F == TenTo[Factors]
             G == TenTo[delta - Factors]
  <2>3. F \in Nat /\ F > MaxMantissa /\ G \in Nat \ {0}
    BY <1>1, <2>1, TenToPositive, DecimalAssumption
  <2>4. T = F * G
    BY <2>2
  <2> HIDE DEF F, G, T
  <2>5. F * G >= F
    BY <2>3
  <2>6. m * T >= T
    BY <1>1, <1>2
  <2> QED
    BY <1>1, <1>2, <2>3, <2>4, <2>5, <2>6
<1> HIDE DEF delta, m, T
<1>6. m > MaxMantissa \div T <=> m * T > MaxMantissa
  <2> DEFINE q == MaxMantissa \div T
  <2>1. q \in Nat /\ T * q <= MaxMantissa /\ MaxMantissa < T * (q + 1)
    BY <1>1, <1>2, QuotientTypes
  <2> HIDE DEF q
  <2>2. CASE m > q
    <3>1. m - (q + 1) \in Nat
      BY <1>1, <2>1, <2>2
    <3>2. T * (m - (q + 1)) \in Nat /\ m * T = T * (q + 1) + T * (m - (q + 1))
      BY <1>1, <1>2, <2>1, <3>1
    <3>3. T * (q + 1) \in Nat /\ m * T \in Nat
      BY <1>1, <1>2, <2>1
    <3>4. m * T > MaxMantissa
      BY <1>1, <2>1, <3>2, <3>3
    <3> QED
      BY <2>2, <3>4 DEF q
  <2>3. CASE ~(m > q)
    <3>1. q - m \in Nat
      BY <1>1, <2>1, <2>3
    <3>2. T * (q - m) \in Nat /\ T * q = m * T + T * (q - m)
      BY <1>1, <1>2, <2>1, <3>1
    <3>3. T * q \in Nat /\ m * T \in Nat
      BY <1>1, <1>2, <2>1
    <3>4. ~(m * T > MaxMantissa)
      BY <1>1, <2>1, <3>2, <3>3
    <3> QED
      BY <2>3, <3>4 DEF q
  <2> QED
    BY <2>2, <2>3
<1>7. m * T \in Nat
  BY <1>1, <1>2
<1>8. (m * T <= MaxMantissa) <=> ~(m * T > MaxMantissa)
  BY <1>1, <1>7
<1>9. Rescale(d, scale) = IF m * T <= MaxMantissa THEN m * T ELSE None
  <2>1. CASE delta = 0 \/ m = 0
    <3>1. m * T = m
      BY <1>1, <1>2, <1>4, <2>1
    <3> QED
      BY <1>1, <1>3, <2>1, <3>1
  <2>2. CASE ~(delta = 0 \/ m = 0)
    BY <1>3, <1>5, <1>6, <1>8, <2>2, Zenon
  <2> QED
    BY <2>1, <2>2
<1> QED
  BY <1>9 DEF delta, m, T

\* Two numbers are brought to one exponent exactly or refused.
LEMMA NumbersPairExactly ==
  ASSUME NEW bid, NEW ask, bid # None, ask # None,
         bid.mantissa \in 0..MaxMantissa, bid.scale \in Nat,
         ask.mantissa \in 0..MaxMantissa, ask.scale \in Nat
  PROVE  PairsExactly(bid, ask)
<1> DEFINE scale == IF bid.scale > ask.scale THEN bid.scale ELSE ask.scale
           Whole(d) == d.mantissa * TenTo[scale - d.scale]
           b == Rescale(bid, scale)
           a == Rescale(ask, scale)
<1>1. scale \in Nat /\ scale >= bid.scale /\ scale >= ask.scale
  OBVIOUS
<1>2. Pair(bid, ask) = IF b = None \/ a = None THEN None
                       ELSE [bid |-> b, ask |-> a, exponent |-> -scale]
  BY DEF Pair
<1>3. PairsExactly(bid, ask) <=>
        IF Whole(bid) <= MaxMantissa /\ Whole(ask) <= MaxMantissa
        THEN Pair(bid, ask) = [bid |-> Whole(bid), ask |-> Whole(ask), exponent |-> -scale]
        ELSE Pair(bid, ask) = None
  BY DEF PairsExactly
<1> HIDE DEF scale
<1>4. /\ b = IF Whole(bid) <= MaxMantissa THEN Whole(bid) ELSE None
      /\ a = IF Whole(ask) <= MaxMantissa THEN Whole(ask) ELSE None
  BY <1>1, RescaleIs
<1>5. Whole(bid) \in Nat /\ Whole(ask) \in Nat
  <2>1. TenTo[scale - bid.scale] \in Nat /\ TenTo[scale - ask.scale] \in Nat
    BY <1>1, TenToPositive
  <2> QED
    BY <2>1
<1>6. Whole(bid) # None /\ Whole(ask) # None
  BY <1>5, ExceptionAssumption
<1> HIDE DEF a, b, Whole
<1> QED
  BY <1>2, <1>3, <1>4, <1>6

\* What a pair of texts is read as, it says of each of them.
PairSays(pair, bid, ask) ==
  /\ pair.bid * TenTo[Places(bid)] = Digits(bid) * TenTo[-pair.exponent]
  /\ pair.ask * TenTo[Places(ask)] = Digits(ask) * TenTo[-pair.exponent]

\* Two texts that are not refused keep their numbers.
LEMMA PairOfTexts ==
  ASSUME NEW bid \in Seq(Characters), NEW ask \in Seq(Characters),
         Pair(Decimal(bid), Decimal(ask)) # None
  PROVE  PairSays(Pair(Decimal(bid), Decimal(ask)), bid, ask)
<1> DEFINE b == Decimal(bid)
           a == Decimal(ask)
           scale == IF b.scale > a.scale THEN b.scale ELSE a.scale
           pair == Pair(b, a)
           Whole(d) == d.mantissa * TenTo[scale - d.scale]
<1>1. b # None /\ a # None
  BY DEF Pair
<1>2. /\ b.mantissa = Digits(bid) /\ b.scale = Places(bid) /\ Digits(bid) <= MaxMantissa
      /\ a.mantissa = Digits(ask) /\ a.scale = Places(ask) /\ Digits(ask) <= MaxMantissa
  <2>1. ReadsExactly(bid) /\ ReadsExactly(ask)
    BY TextsReadExactly
  <2> QED
    BY <1>1, <2>1 DEF ReadsExactly
<1>3. /\ b.mantissa \in Nat /\ b.scale \in Nat /\ a.mantissa \in Nat /\ a.scale \in Nat
      /\ MaxMantissa \in Nat
  BY <1>1, DecimalTypes, DecimalAssumption DEF Amounts
<1>4. b.mantissa \in 0..MaxMantissa /\ a.mantissa \in 0..MaxMantissa
  BY <1>2, <1>3
<1>5. PairsExactly(b, a)
  <2> HIDE DEF a, b
  <2> QED
    BY <1>1, <1>3, <1>4, NumbersPairExactly
<1>6. pair = [bid |-> Whole(b), ask |-> Whole(a), exponent |-> -scale]
  <2>1. pair # None
    OBVIOUS
  <2> HIDE DEF a, b
  <2> QED
    BY <1>5, <2>1 DEF PairsExactly
<1>7. scale \in Nat /\ scale >= b.scale /\ scale >= a.scale
  BY <1>3
<1>8. \A d : d.mantissa \in Nat /\ d.scale \in Nat /\ scale >= d.scale =>
        Whole(d) * TenTo[d.scale] = d.mantissa * TenTo[scale]
  <2> SUFFICES ASSUME NEW d, d.mantissa \in Nat, d.scale \in Nat, scale >= d.scale
               PROVE  Whole(d) * TenTo[d.scale] = d.mantissa * TenTo[scale]
    OBVIOUS
  <2> HIDE DEF scale
  <2>1. scale - d.scale \in Nat /\ (scale - d.scale) + d.scale = scale
    BY <1>7
  <2> DEFINE S == TenTo[scale - d.scale]
             T == TenTo[d.scale]
  <2>2. TenTo[scale] = S * T /\ S \in Nat /\ T \in Nat
    BY <2>1, TenToSum, TenToPositive
  <2>3. Whole(d) = d.mantissa * S
    OBVIOUS
  <2> HIDE DEF S, T, Whole
  <2>4. (d.mantissa * S) * T = d.mantissa * (S * T)
    BY <2>2
  <2> QED
    BY <2>2, <2>3, <2>4 DEF T
<1>9. -(-scale) = scale
  BY <1>7
<1> HIDE DEF Whole, scale
<1>10. pair.bid = Whole(b) /\ pair.ask = Whole(a) /\ -pair.exponent = scale
  <2> HIDE DEF pair, a, b
  <2> QED
    BY <1>6, <1>9
<1> HIDE DEF pair, a, b
<1>11. /\ pair.bid * TenTo[b.scale] = b.mantissa * TenTo[scale]
       /\ pair.ask * TenTo[a.scale] = a.mantissa * TenTo[scale]
  BY <1>3, <1>7, <1>8, <1>10
<1>12. PairSays(pair, bid, ask)
  BY <1>2, <1>10, <1>11 DEF PairSays
<1> QED
  BY <1>12 DEF pair, a, b

\* A book holds the numbers of the message it came from.
LEMMA BooksAreAsWritten ==
  ASSUME NEW message \in Messages, Decode(message) # None
  PROVE  AsWritten(Decode(message), message)
<1> DEFINE price == Pair(Decimal(message.bid), Decimal(message.ask))
           qty == Pair(Decimal(message.bid_qty), Decimal(message.ask_qty))
<1>1. /\ message.bid \in Seq(Characters) /\ message.ask \in Seq(Characters)
      /\ message.bid_qty \in Seq(Characters) /\ message.ask_qty \in Seq(Characters)
  BY DEF Messages
<1>2. Decode(message) =
        IF ~message.shape \/ price = None \/ qty = None THEN None
        ELSE [id |-> message.id,
              bid |-> price.bid, ask |-> price.ask, price_exponent |-> price.exponent,
              bid_qty |-> qty.bid, ask_qty |-> qty.ask, qty_exponent |-> qty.exponent]
  BY DEF Decode
<1>3. price # None /\ qty # None
  BY <1>2
<1>4. PairSays(price, message.bid, message.ask) /\ PairSays(qty, message.bid_qty, message.ask_qty)
  BY <1>1, <1>3, PairOfTexts
<1> HIDE DEF price, qty
<1>5. LET book == Decode(message)
      IN /\ book.bid = price.bid /\ book.ask = price.ask
         /\ book.price_exponent = price.exponent
         /\ book.bid_qty = qty.bid /\ book.ask_qty = qty.ask
         /\ book.qty_exponent = qty.exponent
  BY <1>2
<1> QED
  BY <1>4, <1>5 DEF AsWritten, Means, PairSays
=============================================================================
