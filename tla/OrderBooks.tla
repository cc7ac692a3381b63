------------------------------ MODULE OrderBooks ------------------------------
(***************************************************************************)
(* decode_partial_depth() and OrderBookManager::scan_edge() of             *)
(* src/orderbook.cpp: a partial depth message becomes the latest book of   *)
(* its symbol, and the paths through that symbol are scanned for an edge.  *)
(*                                                                         *)
(* The scan's long doubles are exact fractions here.  Levels 2 to 20 are   *)
(* kept by the code but never used, the model leaves them out.             *)
(***************************************************************************)
EXTENDS Decimals

CONSTANTS
  MaxArbitrage,   \* max_arbitrage_usdt, in USDT
  FeePart,        \* commission_taker is one part in FeePart
  EdgeThreshold   \* edge_threshold, a fraction [n, d]

ASSUME ScanAssumption ==
  /\ MaxArbitrage \in Nat \ {0} /\ FeePart \in Nat \ {0, 1}
  /\ EdgeThreshold \in [n : Nat, d : Nat \ {0}]

(***************************************************************************)
(* Fractions in lowest terms.                                              *)
(***************************************************************************)
Gcd(m, n) ==
  LET gcd[p \in Nat \X Nat] == IF p[2] = 0 THEN p[1] ELSE gcd[<<p[2], p[1] % p[2]>>]
  IN gcd[<<m, n>>]

Positive == [n : Nat \ {0}, d : Nat \ {0}]
Fraction(n, d) == LET g == Gcd(n, d) IN [n |-> n \div g, d |-> d \div g]
One == [n |-> 1, d |-> 1]
Times(x, y) == Fraction(x.n * y.n, x.d * y.d)
Over(x, y) == Fraction(x.n * y.d, x.d * y.n)
Less(x, y) == x.n * y.d < y.n * x.d
Least(x, y) == IF Less(y, x) THEN y ELSE x

-----------------------------------------------------------------------------
\* The best level of a book, and what a scan knows after some legs.
BookTypes ==
  [id : Nat, bid : Nat, ask : Nat, price_exponent : Exponents,
   bid_qty : Nat, ask_qty : Nat, qty_exponent : Exponents]
Scans == [output : Positive, limit : Positive, prices : Seq(Positive), quantities : Seq(Positive)]
ASSUME AbsenceAssumption == None \notin BookTypes \cup Scans

\* A message is [symbol, id, bid, ask, bid_qty, ask_qty : texts, shape]: shape
\* says whether the wrapper, the update id and the twenty levels can be read.
Decode(message) ==
  LET price == Pair(Decimal(message.bid), Decimal(message.ask))
      qty == Pair(Decimal(message.bid_qty), Decimal(message.ask_qty))
  IN IF ~message.shape \/ price = None \/ qty = None THEN None
     ELSE [id |-> message.id,
           bid |-> price.bid, ask |-> price.ask, price_exponent |-> price.exponent,
           bid_qty |-> qty.bid, ask_qty |-> qty.ask, qty_exponent |-> qty.exponent]

BestPrice(book, buy) == IF buy THEN book.ask ELSE book.bid
BestQty(book, buy) == IF buy THEN book.ask_qty ELSE book.bid_qty
Rate(book, buy) == Fraction(BestPrice(book, buy), TenTo[-book.price_exponent])
Shown(book, buy) == Fraction(BestQty(book, buy), TenTo[-book.qty_exponent])

FeeMultiplier == Fraction(FeePart - 1, FeePart)

-----------------------------------------------------------------------------
(***************************************************************************)
(* scan_edge().  What a scan knows after some legs: the output for each    *)
(* USDT of input, the largest input the books allow, and the prices and    *)
(* quantities of the legs.                                                 *)
(***************************************************************************)
FirstLegLimits(scan, liquidity, base_qty) ==
  IF Len(scan.prices) > 0 THEN scan.limit ELSE Least(scan.limit, Over(liquidity, base_qty))
InputLimit(scan, liquidity, base_qty) == Least(scan.limit, Over(liquidity, base_qty))

ScanLeg(scan, book, buy) ==
  IF scan = None \/ book = None THEN None
  ELSE IF BestPrice(book, buy) = 0 \/ BestQty(book, buy) = 0 THEN None
  ELSE LET rate == Rate(book, buy)
           base_qty == IF buy THEN Over(scan.output, rate) ELSE scan.output
           received == IF buy THEN base_qty ELSE Times(base_qty, rate)
       IN [output |-> Times(received, FeeMultiplier),
           limit |-> InputLimit(scan, Shown(book, buy), base_qty),
           prices |-> Append(scan.prices, rate),
           quantities |-> Append(scan.quantities, base_qty)]

Scan(books, path) ==
  LET after[i \in 0..3] ==
        IF i = 0 THEN [output |-> One, limit |-> [n |-> MaxArbitrage, d |-> 1],
                       prices |-> <<>>, quantities |-> <<>>]
        ELSE ScanLeg(after[i - 1], books[path[i].index], path[i].buy)
  IN after[3]

BreaksEven(output) == ~Less(output, One)
Qualifies(output) ==
  Less([n |-> EdgeThreshold.n + EdgeThreshold.d, d |-> EdgeThreshold.d], output)

\* The first qualifying path of a group that contains the updated symbol.
ScanEdge(books, groups, index) ==
  LET Has(g, p) == LET scan == Scan(books, groups[g].paths[p])
                   IN scan # None /\ Qualifies(scan.output)
      edges == {e \in (DOMAIN groups) \X {1, 2} :
                  (\E i \in 1..3 : groups[e[1]].symbols[i] = index) /\ Has(e[1], e[2])}
      first == CHOOSE e \in edges :
                 \A f \in edges : e[1] < f[1] \/ (e[1] = f[1] /\ e[2] <= f[2])
  IN IF edges = {} THEN None
     ELSE LET path == groups[first[1]].paths[first[2]]
              scan == Scan(books, path)
          IN [path |-> path, prices |-> scan.prices, input |-> scan.limit,
              quantities |-> [i \in 1..3 |-> Times(scan.quantities[i], scan.limit)]]

-----------------------------------------------------------------------------
(***************************************************************************)
(* What a scan has to find.                                                *)
(***************************************************************************)
\* What comes back for the whole path at once: sell prices over buy prices,
\* less three commissions.
Return(books, path) ==
  LET Factor(i, inverted) ==
        LET rate == Rate(books[path[i].index], path[i].buy)
        IN IF path[i].buy = inverted THEN rate.d ELSE rate.n
      kept == FeePart - 1
  IN Fraction(Factor(1, TRUE) * Factor(2, TRUE) * Factor(3, TRUE) * kept * kept * kept,
              Factor(1, FALSE) * Factor(2, FALSE) * Factor(3, FALSE)
                * FeePart * FeePart * FeePart)

Quoted(books, path) ==
  \A i \in 1..3 :
    LET book == books[path[i].index]
    IN book # None /\ BestPrice(book, path[i].buy) > 0 /\ BestQty(book, path[i].buy) > 0

Fits(books, found) ==
  /\ ~Less([n |-> MaxArbitrage, d |-> 1], found.input)
  /\ \A i \in 1..3 :
       ~Less(Shown(books[found.path[i].index], found.path[i].buy), found.quantities[i])

\* An opportunity promises no more than the books show and no more input than
\* is configured: every leg fits the level it is priced at.
EdgeFits(books, groups, s) ==
  ScanEdge(books, groups, s) # None => Fits(books, ScanEdge(books, groups, s))

Profitable(books, path) ==
  /\ Quoted(books, path)
  /\ Less([n |-> EdgeThreshold.n + EdgeThreshold.d, d |-> EdgeThreshold.d],
          Return(books, path))

\* "Scan both paths of each group containing the updated symbol index"
\* (orderbook.hpp): an edge is found exactly when some such path, taken as a
\* whole, returns more than the threshold.
EdgeFound(books, groups, s) ==
  ScanEdge(books, groups, s) # None <=>
    \E g \in DOMAIN groups : /\ s \in {groups[g].symbols[i] : i \in 1..3}
                            /\ \E p \in {1, 2} : Profitable(books, groups[g].paths[p])
=============================================================================
