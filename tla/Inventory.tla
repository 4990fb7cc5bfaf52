----------------------------- MODULE Inventory -----------------------------
(***************************************************************************)
(* The in-memory ledger, src/src/risk/inventory.rs: shares held per token  *)
(* and the profit and loss.  Only apply_fill writes it; the reconciliation *)
(* and pending-notional methods have no caller.  The ledger is read with   *)
(* the net exposure, with the pair of quantities, and with the total over  *)
(* all tokens of realized_pnl, of which the total is kept here.            *)
(***************************************************************************)
EXTENDS Integers

CONSTANT Tokens               \* outcome tokens, the keys of exposures

VARIABLES exposures,          \* yes_qty and no_qty of each token
          realizedPnl         \* get_total_realized_pnl()

inventoryVars == <<exposures, realizedPnl>>

InventoryInit ==
    /\ exposures = [t \in Tokens |-> [yes_qty |-> 0, no_qty |-> 0]]
    /\ realizedPnl = 0

\* Mutated form: a sale is booked as a purchase.
ApplyFillUnsigned(t, isYes, side, size, price) ==
    /\ exposures' = [exposures EXCEPT ![t] =
           [yes_qty |-> @.yes_qty + IF isYes THEN size ELSE 0,
            no_qty  |-> @.no_qty + IF isYes THEN 0 ELSE size]]
    /\ realizedPnl' = realizedPnl - size * price

\* apply_fill: the quantity moves with the side, and the money the other way.
\* realized_pnl therefore falls by the whole price of a purchase.
ApplyFill(t, isYes, side, size, price) ==
    LET delta == IF side = "Buy" THEN size ELSE -size
    IN  /\ exposures' = [exposures EXCEPT ![t] =
               [yes_qty |-> @.yes_qty + IF isYes THEN delta ELSE 0,
                no_qty  |-> @.no_qty + IF isYes THEN 0 ELSE delta]]
        /\ realizedPnl' = realizedPnl - delta * price

\* get_net_exposure
NetExposure(t) == exposures[t].yes_qty - exposures[t].no_qty
=============================================================================
