------------------------------ MODULE TradePaths ------------------------------
(***************************************************************************)
(* validate_arbitrage() of src/orderbook.cpp: three markets that form a    *)
(* closed loop of three assets become two round trips from USDT, one for   *)
(* each market USDT can be converted on first.                             *)
(*                                                                         *)
(* markets[i] is what the exchange says of the i-th symbol of a group:     *)
(* whether it can be traded and its assets.  The empty sequence is the     *)
(* exception that ends the program.                                        *)
(***************************************************************************)
EXTENDS Integers, FiniteSets, Sequences

Positions == 1..3

Touches(market, asset) == asset = market.base \/ asset = market.quote

Count(condition) == IF condition THEN 1 ELSE 0
Degree(markets, asset) ==
  LET At(i) == Count(markets[i].base = asset) + Count(markets[i].quote = asset)
  IN At(1) + At(2) + At(3)

GroupAssets(markets) == UNION {{markets[i].base, markets[i].quote} : i \in Positions}

ClosedLoop(markets) ==
  Cardinality(GroupAssets(markets)) = 3
    /\ \A a \in GroupAssets(markets) : Degree(markets, a) = 2

Leg(markets, i, asset) == [index |-> i, buy |-> asset = markets[i].quote]
Converted(markets, i, asset) ==
  IF asset = markets[i].quote THEN markets[i].base ELSE markets[i].quote

First(S) == CHOOSE i \in S : \A j \in S : i <= j

CandidatesAgain(markets, used, asset) == {i \in Positions : Touches(markets[i], asset)}
\* The unused markets the current asset can be converted on.
Candidates(markets, used, asset) == {i \in Positions \ used : Touches(markets[i], asset)}

\* One leg more: the current asset is converted on the first candidate; when
\* there is none the path stays stuck.
Extended(markets, path, i) ==
  [legs |-> Append(path.legs, Leg(markets, i, path.asset)), used |-> path.used \cup {i},
   asset |-> Converted(markets, i, path.asset)]

NextLegOf(markets, path) ==
  IF Candidates(markets, path.used, path.asset) = {} THEN [path EXCEPT !.asset = "stuck"]
  ELSE Extended(markets, path, First(Candidates(markets, path.used, path.asset)))

Closed(path) == IF path.asset # "USDT" THEN <<>> ELSE path.legs

PathFrom(markets, first) ==
  LET after[i \in Positions] ==
        IF i = 1 THEN Extended(markets, [legs |-> <<>>, used |-> {}, asset |-> "USDT"], first)
        ELSE NextLegOf(markets, after[i - 1])
  IN Closed(after[3])

FirstLegs(markets) == {i \in Positions : Touches(markets[i], "USDT")}

Tradable(markets) == \A i \in Positions : markets[i].trading /\ markets[i].base # markets[i].quote

BothPaths(markets, one, two) == <<PathFrom(markets, one), PathFrom(markets, two)>>
Constructed(paths) == IF <<>> \in {paths[1], paths[2]} THEN <<>> ELSE paths

ValidateArbitrage(markets) ==
  IF Tradable(markets) /\ ClosedLoop(markets) /\ Cardinality(FirstLegs(markets)) = 2
  THEN LET one == First(FirstLegs(markets)) IN
       Constructed(BothPaths(markets, one, First(FirstLegs(markets) \ {one})))
  ELSE <<>>

-----------------------------------------------------------------------------
(***************************************************************************)
(* What a path has to be.                                                  *)
(***************************************************************************)
Spends(markets, leg) == IF leg.buy THEN markets[leg.index].quote ELSE markets[leg.index].base
Gains(markets, leg) == IF leg.buy THEN markets[leg.index].base ELSE markets[leg.index].quote

RoundTrip(markets, path) ==
  /\ Len(path) = 3
  /\ Spends(markets, path[1]) = "USDT" /\ Gains(markets, path[3]) = "USDT"
  /\ Spends(markets, path[2]) = Gains(markets, path[1])
  /\ Spends(markets, path[3]) = Gains(markets, path[2])
  /\ \A i, j \in Positions : i # j => path[i].index # path[j].index

\* The two paths of a group go round the triangle in opposite directions.
Opposite(p, q) ==
  \A i \in Positions : q[i].index = p[4 - i].index /\ q[i].buy # p[4 - i].buy

\* Three tradable markets that are the sides of a triangle with USDT.
Triangle(markets) ==
  /\ Tradable(markets)
  /\ \E a, b \in GroupAssets(markets) :
       /\ a # b /\ a # "USDT" /\ b # "USDT"
       /\ {{markets[i].base, markets[i].quote} : i \in Positions}
            = {{"USDT", a}, {a, b}, {b, "USDT"}}

\* A group is accepted exactly when it is such a triangle, and then both its
\* paths are round trips over all three markets, in opposite directions: the
\* internal errors of the construction never happen.
GoesRound(markets, paths) ==
  /\ Len(paths) = 2
  /\ RoundTrip(markets, paths[1]) /\ RoundTrip(markets, paths[2])
  /\ Opposite(paths[1], paths[2])

BuildsRoundTrips(markets) ==
  IF Triangle(markets) THEN GoesRound(markets, ValidateArbitrage(markets))
  ELSE ValidateArbitrage(markets) = <<>>
=============================================================================
