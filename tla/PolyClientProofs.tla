-------------------------- MODULE PolyClientProofs --------------------------
(***************************************************************************)
(* What is proved of the exchange client for any batches, any number of    *)
(* permits and retries: the typing, that permits are conserved, and that   *)
(* it implements OneShot.                                                  *)
(***************************************************************************)
EXTENDS PolyClient, FiniteSetTheorems, TLAPS

(***************************************************************************)
(* How far an order has come and whether the exchange has accepted it.  An *)
(* order is on the network while its answer is awaited, or after its       *)
(* request was given up; what is about to be sent was never accepted.      *)
(***************************************************************************)
OrderInv(r) ==
    /\ placed[r] \in {0, 1}
    /\ r \in network => placed[r] = 0 /\ req[r].pc \in {"sent"} \union Over
    /\ req[r].pc \in {"idle", "waiting", "ready", "backoff"} => placed[r] = 0
    /\ req[r].pc # "sent" => req[r].answer = "none"
    /\ req[r].pc = "sent" /\ req[r].answer # "none" => r \notin network
    /\ req[r].pc = "sent" => (req[r].answer = "accepted" <=> placed[r] = 1)
    /\ req[r].pc = "ok" => placed[r] = 1 /\ r \notin network

RefinementInv == \A r \in Orders : OrderInv(r)

\* The requests with a permit are finitely many.
LEMMA HoldersFinite ==
    ASSUME TypeOK PROVE IsFiniteSet(Holders) /\ Cardinality(Holders) \in Nat
<1>1. IsFiniteSet(Requests)
    BY ClientAssumption
<1>2. Holders \subseteq Requests
    BY DEF Holders
<1> QED
    BY <1>1, <1>2, FS_Subset, FS_CardinalityType

\* One request takes a permit, gives it back, or hands it to another.
LEMMA HoldersAdd ==
    ASSUME TypeOK, NEW r \in Requests, r \notin Holders, Holders' = Holders \union {r}
    PROVE  Cardinality(Holders)' = Cardinality(Holders) + 1
BY HoldersFinite, FS_AddElement

LEMMA HoldersRemove ==
    ASSUME TypeOK, NEW r \in Requests, r \in Holders, Holders' = Holders \ {r}
    PROVE  Cardinality(Holders)' = Cardinality(Holders) - 1
BY HoldersFinite, FS_RemoveElement

LEMMA HoldersSwap ==
    ASSUME TypeOK, NEW r \in Holders, NEW w \in Requests, w \notin Holders,
           Holders' = (Holders \ {r}) \union {w}
    PROVE  Cardinality(Holders)' = Cardinality(Holders)
<1>1. IsFiniteSet(Holders \ {r}) /\ Cardinality(Holders \ {r}) = Cardinality(Holders) - 1
    BY HoldersFinite, FS_RemoveElement
<1>2. Cardinality((Holders \ {r}) \union {w}) = Cardinality(Holders \ {r}) + 1
    BY <1>1, FS_AddElement
<1> QED
    BY <1>1, <1>2, HoldersFinite

\* What the end of a request does to the others and to the permits.
LEMMA EndEffect ==
    ASSUME TypeOK, NEW r \in Requests, req[r].pc \notin Over, NEW pc \in Over, End(r, pc)
    PROVE  /\ req' \in [Requests -> RequestType]
           /\ permits' \in Nat
           /\ PermitsAccounted => PermitsAccounted'
           /\ req'[r] = At(pc)
           /\ \A x \in Requests \ {r} :
                \/ req'[x] = req[x]
                \/ req[x].pc = "waiting" /\ req'[x] = At("ready")
<1> USE DEF TypeOK, RequestType
<1>0. At(pc) \in RequestType /\ At("ready") \in RequestType
    BY ClientAssumption DEF At, PCs, Over, Holding, Answers
<1>1. CASE req[r].pc \in Holding /\ Waiters # {}
    <2>1. PICK w \in Waiters : req' = [req EXCEPT ![r] = At(pc), ![w] = At("ready")]
        BY <1>1 DEF End
    <2>2. permits' = permits
        BY <1>1 DEF End
    <2>3. w \in Requests /\ req[w].pc = "waiting" /\ w # r
        BY <1>1 DEF Waiters, Holding
    <2>4. Holders' = (Holders \ {r}) \union {w} /\ w \notin Holders /\ r \in Holders
        BY <1>1, <2>1, <2>3 DEF Holders, Holding, Over, At
    <2>5. Cardinality(Holders)' = Cardinality(Holders)
        BY <2>3, <2>4, HoldersSwap
    <2> QED
        BY <1>0, <2>1, <2>2, <2>3, <2>5 DEF PermitsAccounted
<1>2. CASE req[r].pc \in Holding /\ Waiters = {}
    <2>1. req' = [req EXCEPT ![r] = At(pc)] /\ permits' = permits + 1
        BY <1>2 DEF End
    <2>2. Holders' = Holders \ {r} /\ r \in Holders
        BY <1>2, <2>1 DEF Holders, Holding, Over, At
    <2>3. Cardinality(Holders)' = Cardinality(Holders) - 1
        BY <2>2, HoldersRemove
    <2> QED
        BY <1>0, <2>1, <2>3, HoldersFinite DEF PermitsAccounted
<1>3. CASE req[r].pc \notin Holding
    <2>1. req' = [req EXCEPT ![r] = At(pc)] /\ permits' = permits
        BY <1>3 DEF End
    <2>2. Holders' = Holders
        BY <1>3, <2>1 DEF Holders, Holding, Over, At
    <2> QED
        BY <1>0, <2>1, <2>2 DEF PermitsAccounted
<1> QED
    BY <1>1, <1>2, <1>3

\* All that is claimed of a state, and what makes it inductive.
ClientInv == TypeOK /\ PermitsAccounted /\ RefinementInv

Promise_vars == <<placed, told>>

LEMMA ClientInit == ASSUME Init PROVE ClientInv
<1> USE DEF Init, At
<1>1. TypeOK
    BY ClientAssumption DEF TypeOK, RequestType, PCs, Answers
<1>2. Holders = {}
    BY DEF Holders, Holding
<1>3. PermitsAccounted
    BY <1>2, FS_EmptySet, ClientAssumption DEF PermitsAccounted
<1>4. RefinementInv
    BY DEF RefinementInv, OrderInv, Requests
<1> QED
    BY <1>1, <1>3, <1>4 DEF ClientInv

\* A request ends; if it is an order that ends well, it was accepted.
LEMMA EndKeeps ==
    ASSUME ClientInv, NEW r \in Requests, req[r].pc \notin Over, NEW pc \in Over, End(r, pc),
           UNCHANGED <<nextTicket, network, placed, told>>,
           pc = "ok" => req[r].pc = "sent" /\ req[r].answer = "accepted"
    PROVE  ClientInv'
<1>1. TypeOK' /\ PermitsAccounted'
    BY EndEffect DEF ClientInv, TypeOK
<1>2. ASSUME NEW x \in Orders PROVE OrderInv(x)'
    <2>1. OrderInv(x) /\ x \in Requests
        BY DEF ClientInv, RefinementInv, Requests
    <2>2. CASE x = r
        BY <2>1, <2>2, EndEffect DEF ClientInv, OrderInv, At, Over
    <2>3. CASE x # r
        BY <2>1, <2>3, EndEffect DEF ClientInv, OrderInv, At, Over
    <2> QED
        BY <2>2, <2>3
<1> QED
    BY <1>1, <1>2 DEF ClientInv, RefinementInv

\* A request moves on and neither takes a permit nor gives one back.
LEMMA MoveKeeps ==
    ASSUME ClientInv, NEW r \in Requests, NEW q \in RequestType,
           req' = [req EXCEPT ![r] = q],
           req[r].pc \in Holding <=> q.pc \in Holding,
           UNCHANGED permits
    PROVE  req' \in [Requests -> RequestType] /\ PermitsAccounted'
<1> USE DEF ClientInv, TypeOK
<1>1. Holders' = Holders
    BY DEF Holders
<1> QED
    BY <1>1 DEF PermitsAccounted

LEMMA AcquireKeeps ==
    ASSUME ClientInv, NEW r \in Requests, Acquire(r) PROVE ClientInv'
<1> USE DEF ClientInv, TypeOK
<1>1. CASE permits > 0 /\ req' = [req EXCEPT ![r] = At("ready")] /\ permits' = permits - 1
           /\ UNCHANGED nextTicket
    <2>1. TypeOK'
        BY <1>1, ClientAssumption DEF Acquire, RequestType, At, PCs, Holding, Answers
    <2>2. Holders' = Holders \union {r} /\ r \notin Holders
        BY <1>1 DEF Acquire, Holders, Holding, At
    <2>4. Cardinality(Holders)' = Cardinality(Holders) + 1
        BY <2>2, HoldersAdd
    <2>5. PermitsAccounted'
        BY <1>1, <2>4, HoldersFinite DEF PermitsAccounted
    <2>6. RefinementInv'
        BY <1>1 DEF Acquire, RefinementInv, OrderInv, At, Over, Requests
    <2> QED
        BY <2>1, <2>5, <2>6
<1>2. CASE permits = 0 /\ req' = [req EXCEPT ![r].pc = "waiting", ![r].ticket = nextTicket]
           /\ nextTicket' = nextTicket + 1 /\ UNCHANGED permits
    <2>0. [req[r] EXCEPT !.pc = "waiting", !.ticket = nextTicket] \in RequestType
        BY DEF RequestType, PCs
    <2>1. TypeOK'
        BY <1>2, <2>0 DEF Acquire
    <2>2. Holders' = Holders
        BY <1>2 DEF Acquire, Holders, Holding
    <2>3. PermitsAccounted'
        BY <1>2, <2>2 DEF PermitsAccounted
    <2>4. RefinementInv'
        BY <1>2 DEF Acquire, RefinementInv, OrderInv, Over, Requests, RequestType
    <2> QED
        BY <2>1, <2>3, <2>4
<1> QED
    BY <1>1, <1>2 DEF Acquire

LEMMA SendKeeps ==
    ASSUME ClientInv, NEW r \in Requests, Send(r) PROVE ClientInv'
<1> DEFINE q == [req[r] EXCEPT !.pc = "sent"]
<1> USE DEF ClientInv, TypeOK
<1>1. q \in RequestType /\ req' = [req EXCEPT ![r] = q] /\ q.pc = "sent"
    BY DEF Send, RequestType, PCs, Holding
<1>2. req' \in [Requests -> RequestType] /\ PermitsAccounted'
    BY <1>1, MoveKeeps DEF Send, Holding
<1>3. RefinementInv'
    BY DEF Send, RefinementInv, OrderInv, Over, Requests, RequestType
<1> QED
    BY <1>2, <1>3 DEF Send

LEMMA ProcessKeeps ==
    ASSUME ClientInv, NEW r \in Requests, Process(r)
    PROVE  ClientInv' /\ [Promise!Next]_Promise_vars
<1> USE DEF ClientInv, TypeOK
<1>1. PICK a \in Answers \ {"none"} :
        /\ req' = IF req[r].pc = "sent" THEN [req EXCEPT ![r].answer = a] ELSE req
        /\ IF r \in Orders /\ a = "accepted"
           THEN placed' = [placed EXCEPT ![r] = @ + 1]
           ELSE UNCHANGED placed
    BY DEF Process
<1>2. /\ r \in network /\ network' = network \ {r}
      /\ permits' = permits /\ nextTicket' = nextTicket /\ told' = told
    BY DEF Process
<1>3. r \in Orders => placed[r] = 0
    BY <1>2 DEF RefinementInv, OrderInv
<1>4. \A x \in Requests : req'[x].pc = req[x].pc
    BY <1>1 DEF RequestType
<1>5. TypeOK'
    <2>1. req' \in [Requests -> RequestType]
        BY <1>1 DEF RequestType
    <2>2. placed' \in [Orders -> Nat]
        BY <1>1
    <2> QED
        BY <1>2, <2>1, <2>2
<1>6. Holders' = Holders /\ Waiters' = Waiters
    BY <1>4 DEF Holders, Waiters
<1>7. PermitsAccounted'
    BY <1>2, <1>6 DEF PermitsAccounted
<1>8. ASSUME NEW x \in Orders PROVE OrderInv(x)'
    <2>1. OrderInv(x) /\ x \in Requests
        BY DEF RefinementInv, Requests
    <2>2. CASE x # r
        <3>1. req'[x] = req[x] /\ placed'[x] = placed[x] /\ (x \in network' <=> x \in network)
            BY <1>1, <1>2, <2>1, <2>2
        <3> QED
            BY <2>1, <3>1 DEF OrderInv
    <2>3. CASE x = r
        <3>1. placed'[x] = IF a = "accepted" THEN 1 ELSE 0
            BY <1>1, <1>3, <2>3
        <3>2. /\ req'[x].pc = req[x].pc
              /\ req'[x].answer = IF req[x].pc = "sent" THEN a ELSE req[x].answer
            BY <1>1, <2>1, <2>3 DEF RequestType
        <3> QED
            BY <1>2, <2>1, <2>3, <3>1, <3>2 DEF OrderInv, Over
    <2> QED
        BY <2>2, <2>3
<1>9. [Promise!Next]_Promise_vars
    BY <1>1, <1>2, <1>3 DEF Promise!Next, Promise!Accept, Promise_vars, Promise!Orders, Orders
<1> QED
    BY <1>5, <1>7, <1>8, <1>9 DEF RefinementInv

LEMMA BackOffKeeps ==
    ASSUME ClientInv, NEW r \in Requests, BackOff(r) PROVE ClientInv'
<1> DEFINE q == [req[r] EXCEPT !.pc = "backoff", !.attempt = @ + 1, !.answer = "none"]
<1> USE DEF ClientInv, TypeOK
<1>1. q \in RequestType /\ req' = [req EXCEPT ![r] = q] /\ q.pc = "backoff"
    BY ClientAssumption DEF BackOff, RequestType, PCs, Holding, Answers
<1>2. req[r].pc = "sent" /\ req[r].answer = "limited"
    BY DEF BackOff, Answered
<1>3. req' \in [Requests -> RequestType] /\ PermitsAccounted'
    BY <1>1, <1>2, MoveKeeps DEF BackOff, Holding
<1>4. q.answer = "none"
    BY DEF RequestType
<1>5. RefinementInv'
    BY <1>1, <1>2, <1>4 DEF BackOff, RefinementInv, OrderInv, Over, Requests
<1> QED
    BY <1>3, <1>5 DEF BackOff

LEMMA WakeUpKeeps ==
    ASSUME ClientInv, NEW r \in Requests, WakeUp(r) PROVE ClientInv'
<1> DEFINE q == [req[r] EXCEPT !.pc = "ready"]
<1> USE DEF ClientInv, TypeOK
<1>1. q \in RequestType /\ req' = [req EXCEPT ![r] = q] /\ q.pc = "ready"
    BY DEF WakeUp, RequestType, PCs, Holding
<1>2. req' \in [Requests -> RequestType] /\ PermitsAccounted'
    BY <1>1, MoveKeeps DEF WakeUp, Holding
<1>3. RefinementInv'
    BY DEF WakeUp, RefinementInv, OrderInv, Over, Requests, RequestType
<1> QED
    BY <1>2, <1>3 DEF WakeUp

\* The steps of a request that do not involve the exchange.
LEMMA PollKeeps ==
    ASSUME ClientInv, NEW r \in Requests, Poll(r)
    PROVE  ClientInv' /\ UNCHANGED Promise_vars
<1> USE DEF Promise_vars, Over, Answered
<1>1. CASE BuildFailed(r)
    BY <1>1, EndKeeps DEF BuildFailed
<1>2. CASE Send(r)
    BY <1>2, SendKeeps DEF Send
<1>3. CASE Succeed(r)
    BY <1>3, EndKeeps DEF Succeed
<1>4. CASE BackOff(r)
    BY <1>4, BackOffKeeps DEF BackOff
<1>5. CASE WakeUp(r)
    BY <1>5, WakeUpKeeps DEF WakeUp
<1>6. CASE Refused(r)
    BY <1>6, EndKeeps DEF Refused
<1>7. CASE ConnectionLost(r)
    BY <1>7, EndKeeps DEF ConnectionLost
<1>8. CASE Drop(r)
    BY <1>8, EndKeeps DEF Drop
<1> QED
    BY <1>1, <1>2, <1>3, <1>4, <1>5, <1>6, <1>7, <1>8 DEF Poll

\* The task is told of a success only if one of its orders ended well.
LEMMA TellKeeps ==
    ASSUME ClientInv, NEW b \in Batches, Join(b) \/ Timeout(b)
    PROVE  ClientInv' /\ [Promise!Next]_Promise_vars
<1>1. PICK v \in {"ok", "failed"} :
        /\ told[b] = "open" /\ told' = [told EXCEPT ![b] = v]
        /\ v = "ok" => \E r \in b : req[r].pc = "ok"
        /\ UNCHANGED <<permits, nextTicket, req, network, placed>>
    BY DEF Join, Timeout
<1>2. ClientInv'
    BY <1>1 DEF ClientInv, TypeOK, PermitsAccounted, RefinementInv, OrderInv,
                Holders, Waiters
<1>3. \A r \in b : r \in Orders
    BY DEF Orders
<1>4. v = "ok" => \E r \in b : placed[r] = 1
    BY <1>1, <1>3 DEF ClientInv, RefinementInv, OrderInv
<1>5. Promise!Next
    BY <1>1, <1>4 DEF Promise!Next, Promise!Tell
<1> QED
    BY <1>2, <1>5

LEMMA ClientStep ==
    ASSUME ClientInv, [Next]_vars PROVE ClientInv' /\ [Promise!Next]_Promise_vars
<1>1. ASSUME NEW r \in Requests, Acquire(r) PROVE ClientInv' /\ UNCHANGED Promise_vars
    BY <1>1, AcquireKeeps DEF Acquire, Promise_vars
<1>2. CASE UNCHANGED vars
    BY <1>2 DEF vars, Promise_vars, ClientInv, TypeOK, PermitsAccounted,
                RefinementInv, OrderInv, Holders, Waiters
<1> QED
    BY <1>1, <1>2, PollKeeps, ProcessKeeps, TellKeeps DEF Next

\* Every state of the client is of its type: no order is retried more often than
\* MaxRetries times (the for loop of execute_snipe_order).
THEOREM ClientTypes == Spec => []TypeOK
<1>1. ClientInv /\ [Next]_vars => ClientInv'
    BY ClientStep
<1>2. ClientInv => TypeOK
    BY DEF ClientInv
<1> QED
    BY ClientInit, <1>1, <1>2, PTL DEF Spec

\* Permits are neither lost nor made, for any number of requests, permits and
\* retries, however requests end or are dropped (_permit of poly_client.rs 138).
THEOREM PermitsSound == Spec => []PermitsAccounted
<1>1. ClientInv /\ [Next]_vars => ClientInv'
    BY ClientStep
<1>2. ClientInv => PermitsAccounted
    BY DEF ClientInv
<1> QED
    BY ClientInit, <1>1, <1>2, PTL DEF Spec

\* The client implements OneShot: retries never place an order twice, and a task
\* is told of a success only after an acceptance (execute_snipe_order, join_all).
THEOREM ImplementsOneShot == Spec => OrderPromise
<1>1. Init => Promise!Init
    BY DEF Init, Promise!Init, Promise!Orders, Orders
<1>2. ClientInv /\ [Next]_vars => ClientInv'
    BY ClientStep
<1>3. ClientInv /\ [Next]_vars => [Promise!Next]_<<placed, told>>
    BY ClientStep DEF Promise_vars
<1> QED
    BY ClientInit, <1>1, <1>2, <1>3, PTL DEF Spec, OrderPromise, Promise!Spec
=============================================================================
