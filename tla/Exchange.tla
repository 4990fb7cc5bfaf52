------------------------------ MODULE Exchange ------------------------------
(***************************************************************************)
(* The exchange as the engine meets it (external): limit orders that stay  *)
(* open until they are filled, whole or in parts, or cancelled by token;   *)
(* the positions the Data API reports; the money the account has paid.     *)
(* The chunks of an iceberg order have one price and count as one order.   *)
(***************************************************************************)
EXTENDS Integers

CONSTANTS Orders,             \* order ids
          InitialPosition     \* shares of each token held at first

VARIABLES position,           \* shares held of each token
          openOrders,         \* [id, token, side, price, left]
          paid                \* money paid for buys less money got for sales

exchangeVars == <<position, openOrders, paid>>

ExchangeInit ==
    /\ position = InitialPosition
    /\ openOrders = {}
    /\ paid = 0

\* n shares are accepted; none is a refusal.
Post(o, t, side, price, n) ==
    openOrders' = openOrders \union
        {[id |-> o, token |-> t, side |-> side, price |-> price, left |-> k] : k \in {n} \ {0}}

\* A sale needs the shares it sells.
Fill(r, n) ==
    LET delta == IF r.side = "Buy" THEN n ELSE -n
    IN  /\ n \in 1..r.left
        /\ position[r.token] + delta >= 0
        /\ openOrders' = (openOrders \ {r}) \union
               {[r EXCEPT !.left = k] : k \in {r.left - n} \ {0}}
        /\ position' = [position EXCEPT ![r.token] = @ + delta]
        /\ paid' = paid + delta * r.price

\* cancel_market_orders for each of the tokens.
CancelTokens(ts) == openOrders' = {r \in openOrders : r.token \notin ts}

\* Order o is no longer open.
Expire(o) == openOrders' = {r \in openOrders : r.id # o}
=============================================================================
