------------------------------ MODULE Pricing ------------------------------
(***************************************************************************)
(* The arithmetic of a decision: the fair value of the YES side and its    *)
(* cap near expiry (src/src/strategy/sniper.rs), the edges of the two      *)
(* sides, the choice of evaluate_and_act between them, its decision to     *)
(* sell, and the cut of a large purchase into chunks (src/src/engine.rs).  *)
(*                                                                         *)
(* Prices are in units of 1/2000 of a dollar, the size of MIN_PROFIT; the  *)
(* money of an order is in cents.  Spot price, strike and volatility       *)
(* matter through the probability N(d2) only.                              *)
(***************************************************************************)
EXTENDS Integers

CONSTANTS Quotes,                 \* probabilities and prices; 0 is no quote
          Lefts,                  \* seconds to expiry
          Amounts                 \* of a purchase, in cents

One == 2000                       \* a dollar: the value of a share that wins

\* The defaults of engine.rs and sniper.rs.
ENTER_THRESHOLD  == 2
EXIT_THRESHOLD   == 4
MIN_PROFIT       == 1
MAX_BUY_PRICE    == 1800
RELATIVE_OFFSET  == 2             \* RELATIVE_MARKET_OFFSET_THRESHOLD
MAX_FV_SHORT_DATED == 1840
SHORT_EXPIRY     == 300           \* SHORT_EXPIRY_THRESHOLD_YEARS, in seconds

ASSUME PricingAssumption == Quotes \subseteq 0..One /\ Lefts \subseteq Nat /\ Amounts \subseteq Nat

NoEdge == -2 * One                \* f64::MIN: no quote, lower than every edge
-----------------------------------------------------------------------------
\* calculate_binary_call_price.  raw is N(d2), above that the spot has reached
\* the strike; degenerate: no positive strike or no positive volatility.
FairYes(raw, above, degenerate, left) ==
    IF degenerate \/ left <= 0 THEN IF above THEN One ELSE 0
    ELSE IF left < SHORT_EXPIRY /\ raw > MAX_FV_SHORT_DATED THEN MAX_FV_SHORT_DATED
    ELSE raw

\* compute_edges_dual: what a purchase gains and what a sale gains.
BuyEdge(fv, ask)  == IF ask > 0 THEN fv - ask ELSE NoEdge
SellEdge(fv, bid) == IF bid > 0 THEN bid - fv ELSE NoEdge

\* enter_threshold_effective
EnterThreshold(relative) == ENTER_THRESHOLD + IF relative THEN RELATIVE_OFFSET ELSE 0

\* The side to buy, the Empty branch of evaluate_and_act: YES when it has the
\* better edge, else NO, each only with an edge and at a price that is not too high.
Buyable(edge, ask, relative) ==
    edge > EnterThreshold(relative) /\ ask > 0 /\ ask <= MAX_BUY_PRICE

Choice(fv, askYes, askNo, relative) ==
    LET yes == BuyEdge(fv, askYes)
        no  == BuyEdge(One - fv, askNo)
    IN  IF yes >= no /\ Buyable(yes, askYes, relative) THEN "YES"
        ELSE IF Buyable(no, askNo, relative) THEN "NO"
        ELSE "none"

\* The Holding branch of evaluate_and_act.
Sells(fv, bid, buyPrice) ==
    /\ bid > 0
    /\ SellEdge(fv, bid) > EXIT_THRESHOLD \/ bid - buyPrice > MIN_PROFIT
-----------------------------------------------------------------------------
ICEBERG_THRESHOLD == 500
ICEBERG_CHUNK_MIN == 300
ICEBERG_CHUNK_MAX == 500

CeilDiv(a, b) == (a + b - 1) \div b

\* iceberg_chunk_sizes: the number of equal chunks of an order of total cents;
\* chunks below the minimum are counted anew by the minimum.
Chunks(total) ==
    LET n == CeilDiv(total, ICEBERG_CHUNK_MAX)
    IN  IF total <= ICEBERG_THRESHOLD THEN 1
        ELSE IF total < n * ICEBERG_CHUNK_MIN THEN CeilDiv(total, ICEBERG_CHUNK_MIN)
        ELSE n
-----------------------------------------------------------------------------
\* A chunk is never above $5.  It may be below the $3 the comment promises, between
\* $2.50 and $3, but only for orders between $5 and $6.
ChunksInBounds == \A total \in Amounts :
    /\ total <= Chunks(total) * ICEBERG_CHUNK_MAX
    /\ total > ICEBERG_THRESHOLD => total > 250 * Chunks(total)
    /\ total >= 2 * ICEBERG_CHUNK_MIN => total >= Chunks(total) * ICEBERG_CHUNK_MIN

\* The better side is bought: when the other has the larger edge, it is too dear.
\* And asks that sum to a dollar or more never leave an edge on both sides.
BetterSideBought == \A fv, askYes, askNo \in Quotes, relative \in BOOLEAN :
    LET yes == BuyEdge(fv, askYes)
        no  == BuyEdge(One - fv, askNo)
        c   == Choice(fv, askYes, askNo, relative)
    IN  /\ c = "YES" => yes >= no
        /\ c = "NO" => no > yes \/ askYes > MAX_BUY_PRICE
        /\ c # "none" /\ askYes + askNo >= One => yes <= 0 \/ no <= 0

\* What was just bought is not sold at once: on the same valuation a position bought
\* at its ask is not sold at any bid up to that ask, so no quiet book makes an
\* engine buy and sell in circles.
RoundTripRefused ==
    \A raw, askYes, askNo, bid \in Quotes, left \in Lefts, above, relative \in BOOLEAN :
        LET fv == FairYes(raw, above, FALSE, left)
            c  == Choice(fv, askYes, askNo, relative)
        IN  /\ c = "YES" /\ bid <= askYes => ~Sells(fv, bid, askYes)
            /\ c = "NO" /\ bid <= askNo => ~Sells(One - fv, bid, askNo)
=============================================================================
