------------------------------ MODULE OneShot ------------------------------
(***************************************************************************)
(* What execute_snipe_order promises the order task that waits for it: an  *)
(* order is accepted at most once however often it is sent, and the task is*)
(* told of a success only when the exchange did accept one of its orders.  *)
(* A failure promises nothing: the order may have been accepted, or be so  *)
(* later.                                                                  *)
(***************************************************************************)
EXTENDS Naturals

CONSTANT Batches              \* the orders each task waits for together

VARIABLES placed,             \* how often the exchange accepted an order
          told                \* what a task was told of its orders

Orders == UNION Batches

Init ==
    /\ placed = [r \in Orders |-> 0]
    /\ told = [b \in Batches |-> "open"]

Accept(r) ==
    /\ placed[r] = 0
    /\ placed' = [placed EXCEPT ![r] = 1]
    /\ UNCHANGED told

Tell(b, verdict) ==
    /\ told[b] = "open"
    /\ verdict = "ok" => \E r \in b : placed[r] = 1
    /\ told' = [told EXCEPT ![b] = verdict]
    /\ UNCHANGED placed

Next ==
    \/ \E r \in Orders : Accept(r)
    \/ \E b \in Batches, verdict \in {"ok", "failed"} : Tell(b, verdict)

Spec == Init /\ [][Next]_<<placed, told>>
=============================================================================
