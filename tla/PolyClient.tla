----------------------------- MODULE PolyClient -----------------------------
(***************************************************************************)
(* The exchange client, src/src/execution/poly_client.rs: order, position  *)
(* and cancel requests share a semaphore; an order that is answered with   *)
(* 429 keeps its permit, backs off and is sent again.                      *)
(*                                                                         *)
(* The orders of one try_fire task (the chunks of an iceberg, or one order)*)
(* form a batch: the task joins them under a timeout (engine.rs 830-893),  *)
(* and when it gives up their futures are dropped one by one, wherever they*)
(* are: in the queue, about to send, sent, backing off.  What was sent is  *)
(* on its way all the same.  Position reads and cancellations have no      *)
(* timeout.  The length of a back-off is left to chance.                   *)
(***************************************************************************)
EXTENDS Integers, FiniteSets

CONSTANTS Batches,            \* the orders each task waits for together
          Reads,              \* sync_token_position calls
          Cancels,            \* cancel_all_orders calls
          MaxConcurrent,      \* MAX_CONCURRENT_REQUESTS
          MaxRetries          \* MAX_429_RETRIES

Orders   == UNION Batches
Requests == Orders \union Reads \union Cancels

ASSUME ClientAssumption ==
    /\ IsFiniteSet(Requests)
    /\ Orders \intersect (Reads \union Cancels) = {}
    /\ \A b, c \in Batches : b # c => b \intersect c = {}
    /\ MaxConcurrent \in Nat \ {0}
    /\ MaxRetries \in Nat

VARIABLES permits,            \* free permits of rate_limiter
          nextTicket,         \* the place in the semaphore's queue given out next
          req,                \* [pc, ticket, attempt, answer] of each request
          network,            \* requests on their way to the exchange
          placed,             \* how often the exchange accepted each order
          told                \* what each batch's task was told

vars == <<permits, nextTicket, req, network, placed, told>>

(***************************************************************************)
(* idle      not called yet                                                *)
(* waiting   in the semaphore's queue                                      *)
(* ready     has a permit; builds and signs the request                    *)
(* sent      has a permit; waits for the answer                            *)
(* backoff   has a permit; sleeps after a 429                              *)
(* ok, failed, dropped    over, its permit returned                        *)
(***************************************************************************)
Holding   == {"ready", "sent", "backoff"}
Over      == {"ok", "failed", "dropped"}
PCs       == {"idle", "waiting"} \union Holding \union Over
Answers   == {"none", "accepted", "limited", "refused"}

Holders   == {r \in Requests : req[r].pc \in Holding}
Waiters   == {r \in Requests : req[r].pc = "waiting"}
BatchOf(r) == CHOOSE b \in Batches : r \in b

\* A request is polled as long as its caller waits for it.
Live(r) == r \in Orders => told[BatchOf(r)] = "open"

IsFirst(w) == \A v \in Waiters : req[w].ticket <= req[v].ticket

\* A request without a place in the queue, not sent yet or over.
At(pc) == [pc |-> pc, ticket |-> 0, attempt |-> 0, answer |-> "none"]

Init ==
    /\ permits = MaxConcurrent
    /\ nextTicket = 0
    /\ req = [r \in Requests |-> At("idle")]
    /\ network = {}
    /\ placed = [r \in Orders |-> 0]
    /\ told = [b \in Batches |-> "open"]
-----------------------------------------------------------------------------
\* rate_limiter.acquire(): a free permit, or the end of the queue.
Acquire(r) ==
    /\ req[r].pc = "idle" /\ Live(r)
    /\ \/ /\ permits > 0
          /\ permits' = permits - 1
          /\ req' = [req EXCEPT ![r] = At("ready")]
          /\ UNCHANGED nextTicket
       \/ /\ permits = 0
          /\ req' = [req EXCEPT ![r].pc = "waiting", ![r].ticket = nextTicket]
          /\ nextTicket' = nextTicket + 1
          /\ UNCHANGED permits
    /\ UNCHANGED <<network, placed, told>>

\* Request r is over and its permit is dropped: it goes to the first in the
\* queue, or back to the pool.
End(r, pc) ==
    IF req[r].pc \in Holding /\ Waiters # {}
    THEN /\ \E w \in Waiters :
                IsFirst(w) /\ req' = [req EXCEPT ![r] = At(pc), ![w] = At("ready")]
         /\ UNCHANGED permits
    ELSE /\ req' = [req EXCEPT ![r] = At(pc)]
         /\ permits' = IF req[r].pc \in Holding THEN permits + 1 ELSE permits

\* The request cannot be built or signed, or it is sent.
BuildFailed(r) ==
    /\ req[r].pc = "ready" /\ Live(r)
    /\ End(r, "failed")
    /\ UNCHANGED <<nextTicket, network, placed, told>>

Send(r) ==
    /\ req[r].pc = "ready" /\ Live(r)
    /\ req' = [req EXCEPT ![r].pc = "sent"]
    /\ network' = network \union {r}
    /\ UNCHANGED <<permits, nextTicket, placed, told>>

\* The exchange handles the request, whoever still waits for it.
Process(r) ==
    /\ r \in network
    /\ network' = network \ {r}
    /\ \E a \in Answers \ {"none"} :
        /\ req' = IF req[r].pc = "sent" THEN [req EXCEPT ![r].answer = a] ELSE req
        /\ IF r \in Orders /\ a = "accepted"
           THEN placed' = [placed EXCEPT ![r] = @ + 1]
           ELSE UNCHANGED placed
    /\ UNCHANGED <<permits, nextTicket, told>>

Answered(r) == req[r].pc = "sent" /\ Live(r) /\ req[r].answer # "none"

Succeed(r) ==
    /\ Answered(r) /\ req[r].answer = "accepted"
    /\ End(r, "ok")
    /\ UNCHANGED <<nextTicket, network, placed, told>>

\* Mutated form: the 429s are not counted.
BackOffForever(r) ==
    /\ r \in Orders
    /\ Answered(r) /\ req[r].answer = "limited"
    /\ req' = [req EXCEPT ![r].pc = "backoff", ![r].answer = "none"]
    /\ UNCHANGED <<permits, nextTicket, network, placed, told>>

\* Mutated form: one retry too many.
BackOffOnceMore(r) ==
    /\ r \in Orders
    /\ Answered(r) /\ req[r].answer = "limited"
    /\ req[r].attempt <= MaxRetries
    /\ req' = [req EXCEPT ![r].pc = "backoff", ![r].attempt = @ + 1, ![r].answer = "none"]
    /\ UNCHANGED <<permits, nextTicket, network, placed, told>>

\* An order that is rate limited sleeps and tries again, with its permit.
BackOff(r) ==
    /\ r \in Orders
    /\ Answered(r) /\ req[r].answer = "limited"
    /\ req[r].attempt < MaxRetries
    /\ req' = [req EXCEPT ![r].pc = "backoff", ![r].attempt = @ + 1, ![r].answer = "none"]
    /\ UNCHANGED <<permits, nextTicket, network, placed, told>>

WakeUp(r) ==
    /\ req[r].pc = "backoff" /\ Live(r)
    /\ req' = [req EXCEPT ![r].pc = "ready"]
    /\ UNCHANGED <<permits, nextTicket, network, placed, told>>

\* Every other error, and one 429 too many.
Refused(r) ==
    /\ Answered(r) /\ req[r].answer \in {"limited", "refused"}
    /\ r \in Orders /\ req[r].answer = "limited" => req[r].attempt = MaxRetries
    /\ End(r, "failed")
    /\ UNCHANGED <<nextTicket, network, placed, told>>

\* Mutated form: an order whose answer is lost is sent again.
ConnectionLostRetries(r) ==
    /\ req[r].pc = "sent" /\ Live(r)
    /\ req[r].attempt < MaxRetries
    /\ req' = [req EXCEPT ![r].pc = "backoff", ![r].attempt = @ + 1, ![r].answer = "none"]
    /\ UNCHANGED <<permits, nextTicket, network, placed, told>>

\* The connection breaks: the answer is lost, or the request is still under way.
ConnectionLost(r) ==
    /\ req[r].pc = "sent" /\ Live(r)
    /\ End(r, "failed")
    /\ UNCHANGED <<nextTicket, network, placed, told>>
-----------------------------------------------------------------------------
\* join_all is ready: the order is placed if any of its chunks is.
Join(b) ==
    /\ told[b] = "open"
    /\ \A r \in b : req[r].pc \in Over
    /\ told' = [told EXCEPT ![b] = IF \E r \in b : req[r].pc = "ok" THEN "ok" ELSE "failed"]
    /\ UNCHANGED <<permits, nextTicket, req, network, placed>>

\* The order timeout or the iceberg window is over first.
Timeout(b) ==
    /\ told[b] = "open"
    /\ \E r \in b : req[r].pc \notin {"idle"} \union Over
    /\ told' = [told EXCEPT ![b] = "failed"]
    /\ UNCHANGED <<permits, nextTicket, req, network, placed>>

\* Mutated form: a request that is dropped while it backs off keeps its permit.
DropLeaks(r) ==
    /\ ~Live(r) /\ req[r].pc \notin Over
    /\ IF req[r].pc = "backoff"
       THEN req' = [req EXCEPT ![r] = At("dropped")] /\ UNCHANGED permits
       ELSE End(r, "dropped")
    /\ UNCHANGED <<nextTicket, network, placed, told>>

\* The future of a request whose caller gave up is dropped, with its permit or
\* its place in the queue.
Drop(r) ==
    /\ ~Live(r) /\ req[r].pc \notin Over
    /\ End(r, "dropped")
    /\ UNCHANGED <<nextTicket, network, placed, told>>

Poll(r) ==
    \/ BuildFailed(r) \/ Send(r) \/ Succeed(r) \/ BackOff(r) \/ WakeUp(r)
    \/ Refused(r) \/ ConnectionLost(r) \/ Drop(r)

Next ==
    \/ \E r \in Requests : Acquire(r) \/ Poll(r) \/ Process(r)
    \/ \E b \in Batches : Join(b) \/ Timeout(b)

Spec == Init /\ [][Next]_vars

\* The runtime polls what is ready, sleeps end, and the exchange answers.
Fairness == \A r \in Requests : WF_vars(Poll(r)) /\ WF_vars(Process(r))

FairSpec == Spec /\ Fairness
-----------------------------------------------------------------------------
RequestType == [pc : PCs, ticket : Nat, attempt : 0..MaxRetries, answer : Answers]

\* No request is tried more than MaxRetries times again.
TypeOK ==
    /\ permits \in Nat
    /\ nextTicket \in Nat
    /\ req \in [Requests -> RequestType]
    /\ network \subseteq Requests
    /\ placed \in [Orders -> Nat]
    /\ told \in [Batches -> {"open", "ok", "failed"}]

\* "Maximum concurrent API requests" (poly_client.rs 25): every permit is free or
\* with a request that is not over; queueing, handing over, backing off and being
\* dropped in the middle neither lose a permit nor make one.
PermitsAccounted == permits + Cardinality(Holders) = MaxConcurrent

\* Orders as the task sees them: accepted at most once although they are sent up
\* to four times, and no success without an accepted order.
Promise == INSTANCE OneShot
OrderPromise == Promise!Spec

\* Orders that back off keep their permits, yet every position read and every
\* cancellation is served in the end ("cancelling all open orders first").
OthersServed == \A r \in Reads \union Cancels :
    req[r].pc = "waiting" ~> req[r].pc \in Over
=============================================================================
