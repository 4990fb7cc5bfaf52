---------------------- MODULE StrategyLifecycleProofs ----------------------
(***************************************************************************)
(* The registry holds no zombie, for any number of engines, requests and   *)
(* events.  The invariant also needs that an engine is only cancelled once *)
(* it was registered.                                                      *)
(***************************************************************************)
EXTENDS StrategyLifecycle, TLAPS

Phases == {"unborn", "spawned", "looping", "closing", "leaving", "gone"}

\* The part of the state that the registry depends on.
RegistryTypes ==
    /\ registry \in [Keys -> Engines \union {NoEngine}]
    /\ engine \in [Engines -> [key : Keys, phase : Phases]]

CancelledWasBorn == cancelled \intersect Unborn = {}

RegistryInv == RegistryTypes /\ CancelledWasBorn /\ NoZombieEntry

LEMMA RegistryInitially == Init => RegistryInv
<1> SUFFICES ASSUME Init PROVE RegistryInv
  OBVIOUS
<1>1. RegistryTypes
  BY LifecycleAssumption DEF Init, RegistryTypes, Phases
<1>2. CancelledWasBorn /\ NoZombieEntry
  BY DEF Init, CancelledWasBorn, NoZombieEntry
<1> QED
  BY <1>1, <1>2 DEF RegistryInv

\* Registering an engine that was not yet born.
LEMMA TryRegisterKeeps ==
    ASSUME RegistryInv, NEW k \in Keys, NEW e \in Engines, TryRegister(k, e), UNCHANGED cancelled
    PROVE  RegistryInv'
<1> USE LifecycleAssumption DEF RegistryInv, RegistryTypes
<1>1. /\ registry' = [registry EXCEPT ![k] = e]
      /\ engine' = [engine EXCEPT ![e] = [key |-> k, phase |-> "spawned"]]
      /\ e \in Unborn /\ e \notin cancelled
  BY DEF TryRegister, CancelledWasBorn
<1>2. RegistryTypes'
  BY <1>1 DEF Phases
<1>3. \A f \in Engines \ {e} : engine'[f] = engine[f]
  BY <1>1
<1>4. engine'[e].phase = "spawned" /\ engine'[e].key = k
  BY <1>1
<1>5. CancelledWasBorn'
  BY <1>1, <1>3 DEF CancelledWasBorn, Unborn
<1>6. ASSUME NEW j \in Keys, registry'[j] # NoEngine
      PROVE  registry'[j] \in Alive' \ cancelled' /\ engine'[registry'[j]].key = j
  <2>1. CASE j = k
    BY <1>1, <1>4, <2>1 DEF Alive
  <2>2. CASE j # k
    <3>1. registry'[j] = registry[j] /\ registry[j] \in Alive \ cancelled
          /\ engine[registry[j]].key = j
      BY <1>1, <1>6, <2>2 DEF NoZombieEntry
    <3>2. registry[j] \in Engines \ {e}
      BY <1>1, <3>1 DEF Alive, Unborn
    <3> QED
      BY <1>3, <3>1, <3>2 DEF Alive
  <2> QED
    BY <2>1, <2>2
<1> QED
  BY <1>2, <1>5, <1>6 DEF NoZombieEntry

\* Some entries are removed and their engines may be cancelled: those that stay
\* belong to other engines.
LEMMA EntriesGo ==
    ASSUME RegistryInv, NEW K \in SUBSET Keys,
           registry' = [k \in Keys |-> IF k \in K THEN NoEngine ELSE registry[k]],
           cancelled' \subseteq cancelled \union ({registry[k] : k \in K} \ {NoEngine}),
           UNCHANGED engine
    PROVE  RegistryInv'
<1> USE DEF RegistryInv, RegistryTypes
<1>1. RegistryTypes'
  OBVIOUS
<1>2. CancelledWasBorn'
  BY DEF CancelledWasBorn, NoZombieEntry, Alive, Unborn
<1>3. ASSUME NEW j \in Keys, registry'[j] # NoEngine
      PROVE  registry'[j] \in Alive' \ cancelled' /\ engine'[registry'[j]].key = j
  <2>1. j \notin K /\ registry'[j] = registry[j]
    BY <1>3
  <2>2. registry[j] \in Alive \ cancelled /\ engine[registry[j]].key = j
    BY <1>3, <2>1 DEF NoZombieEntry
  <2>3. \A k \in K : registry[k] # NoEngine => registry[k] # registry[j]
    BY <2>1, <2>2 DEF NoZombieEntry
  <2> QED
    BY <2>1, <2>2, <2>3 DEF Alive
<1> QED
  BY <1>1, <1>2, <1>3 DEF NoZombieEntry

LEMMA EngineStepKeeps ==
    ASSUME RegistryInv, NEW e \in Engines, EngineStep(e)
    PROVE  RegistryInv'
<1> USE LifecycleAssumption DEF RegistryInv, RegistryTypes, Phase
<1>1. engine[e].key \in Keys /\ UNCHANGED cancelled
  BY DEF EngineStep
<1>2. PICK p \in {"looping", "closing", "leaving", "gone"} :
         /\ engine' = [engine EXCEPT ![e].phase = p]
         /\ engine[e].phase # "unborn"
         /\ \/ p # "gone" /\ UNCHANGED registry
            \/ Deregister(engine[e].key)
  BY DEF EngineStep, EnterLoop, Notice, OrdersCancelled, StreamLost, Leave
<1>3. /\ \A f \in Engines \ {e} : engine'[f] = engine[f]
      /\ engine'[e].phase = p /\ engine'[e].key = engine[e].key
      /\ engine' \in [Engines -> [key : Keys, phase : Phases]]
  BY <1>2 DEF Phases
<1>4. RegistryTypes'
  BY <1>1, <1>2, <1>3 DEF Deregister
<1>5. CancelledWasBorn'
  BY <1>1, <1>2, <1>3 DEF CancelledWasBorn, Unborn
<1>6. ASSUME NEW j \in Keys, registry'[j] # NoEngine
      PROVE  registry'[j] \in Alive' \ cancelled' /\ engine'[registry'[j]].key = j
  <2>1. registry'[j] = registry[j]
    BY <1>2, <1>6 DEF Deregister
  <2>2. registry[j] \in Alive \ cancelled /\ engine[registry[j]].key = j
    BY <1>6, <2>1 DEF NoZombieEntry
  <2>3. registry[j] = e => p # "gone"
    BY <1>2, <1>6, <2>2 DEF Deregister
  <2> QED
    BY <1>1, <1>2, <1>3, <2>1, <2>2, <2>3 DEF Alive
<1> QED
  BY <1>4, <1>5, <1>6 DEF NoZombieEntry

LEMMA RegistryKept == RegistryInv /\ [Next]_vars => RegistryInv'
<1> SUFFICES ASSUME RegistryInv, [Next]_vars PROVE RegistryInv'
  OBVIOUS
<1>1. CASE UNCHANGED <<registry, engine, cancelled>>
  BY <1>1 DEF RegistryInv, RegistryTypes, CancelledWasBorn, NoZombieEntry, Alive, Unborn
<1>2. CASE UNCHANGED vars \/ NextEvent \/ Shutdown \/ Tick
  BY <1>1, <1>2 DEF vars, NextEvent, Shutdown, Tick
<1>3. ASSUME NEW k \in Keys, StrategyStop(k) PROVE RegistryInv'
  <2>1. /\ registry' = [j \in Keys |-> IF j \in {k} THEN NoEngine ELSE registry[j]]
        /\ cancelled' = cancelled \union {registry[k]} /\ registry[k] # NoEngine
        /\ UNCHANGED engine
    BY <1>3 DEF StrategyStop, Cancel, RegistryInv, RegistryTypes
  <2> QED
    BY <2>1, EntriesGo
<1>4. ASSUME NEW k \in Keys, NEW e \in Engines, StrategyStart(k, e) PROVE RegistryInv'
  BY <1>4, TryRegisterKeeps DEF StrategyStart
<1>5. CASE Http
  BY <1>1, <1>3, <1>4, <1>5 DEF Http, EventStart
<1>6. CASE Rotate
  <2>1. CASE CancelAll
    <3>1. /\ registry' = [j \in Keys |-> IF j \in Keys THEN NoEngine ELSE registry[j]]
          /\ cancelled' = cancelled \union Registered
      BY <2>1 DEF CancelAll
    <3> QED
      BY <1>6, <3>1, EntriesGo DEF Rotate, Registered
  <2> QED
    BY <1>1, <1>6, <2>1 DEF Rotate
<1>7. ASSUME NEW c \in Callers, RadarStep(c) PROVE RegistryInv'
  <2>1. CASE \E k \in Keys : RegisterMarket(c, k)
    BY <1>1, <2>1, TryRegisterKeeps DEF RegisterMarket
  <2> QED
    BY <1>1, <1>7, <2>1 DEF RadarStep, Fetch, NoteSlug
<1> QED
  BY <1>2, <1>5, <1>6, <1>7, EngineStepKeeps DEF Next

\* An occupied key always belongs to an engine of that market that is alive and
\* was not told to stop, whatever handlers, rotations and ends of engines do.
THEOREM RegistrySound == Spec => []NoZombieEntry
<1>1. RegistryInv => NoZombieEntry
  BY DEF RegistryInv
<1> QED
  BY <1>1, RegistryInitially, RegistryKept, PTL DEF Spec
-----------------------------------------------------------------------------
LEMMA TypesInitially == Init => TypeOK
<1> SUFFICES ASSUME Init PROVE TypeOK
  OBVIOUS
<1>1. 1 \in Slugs
  BY LifecycleAssumption DEF Slugs
<1> QED
  BY <1>1, LifecycleAssumption DEF Init, TypeOK

LEMMA TypesKept == TypeOK /\ [Next]_vars => TypeOK'
<1> SUFFICES ASSUME TypeOK, [Next]_vars PROVE TypeOK'
  OBVIOUS
<1> USE LifecycleAssumption DEF TypeOK
<1>1. Autopilot \in Callers /\ Requests \subseteq Callers
  BY DEF Callers
<1>2. CASE UNCHANGED vars
  BY <1>2 DEF vars
<1>3. ASSUME NEW k \in Keys, NEW e \in Engines, StrategyStart(k, e) PROVE TypeOK'
  BY <1>3 DEF StrategyStart, TryRegister
<1>4. ASSUME NEW k \in Keys, StrategyStop(k) PROVE TypeOK'
  BY <1>4 DEF StrategyStop, Cancel
<1>5. ASSUME NEW r \in Requests, NEW s \in Slugs, EventStart(r, s) PROVE TypeOK'
  BY <1>1, <1>5 DEF EventStart
<1>6. CASE Tick
  BY <1>1, <1>6 DEF Tick, At
<1>7. CASE Rotate
  BY <1>1, <1>7 DEF Rotate, CancelAll, Registered, At
<1>8. ASSUME NEW c \in Callers, RadarStep(c) PROVE TypeOK'
  <2>1. CASE Fetch(c)
    <3>1. radar[c].slug \in Slugs /\ MarketsOf[radar[c].slug] \subseteq Keys
      OBVIOUS
    <3>2. radar' \in [Callers -> [pc : {"idle", "exists", "fetch", "register", "done"},
                                  slug : Slugs, todo : SUBSET Keys]]
      <4>1. CASE At(c, IF c = Autopilot THEN "idle" ELSE "done")
        BY <4>1 DEF At
      <4>2. CASE radar' = [radar EXCEPT ![c].pc = "register",
                                        ![c].todo = MarketsOf[radar[c].slug]]
        <5> DEFINE Radar  == [pc : {"idle", "exists", "fetch", "register", "done"},
                              slug : Slugs, todo : SUBSET Keys]
                   begun == [radar[c] EXCEPT !.pc = "register",
                                             !.todo = MarketsOf[radar[c].slug]]
        <5>1. radar \in [Callers -> Radar]
          OBVIOUS
        <5>2. begun \in Radar
          BY <3>1, <5>1
        <5>3. radar' = [radar EXCEPT ![c] = begun]
          BY <4>2
        <5> HIDE DEF Radar, begun
        <5>4. radar' \in [Callers -> Radar]
          BY <5>1, <5>2, <5>3
        <5> QED
          BY <5>4 DEF Radar
      <4> QED
        BY <2>1, <4>1, <4>2 DEF Fetch
    <3> QED
      BY <2>1, <3>2 DEF Fetch
  <2>2. ASSUME NEW k \in Keys, RegisterMarket(c, k) PROVE TypeOK'
    <3>1. radar' \in [Callers -> [pc : {"idle", "exists", "fetch", "register", "done"},
                                  slug : Slugs, todo : SUBSET Keys]]
      BY <2>2 DEF RegisterMarket
    <3>2. CASE UNCHANGED <<registry, engine>>
      BY <2>2, <3>1, <3>2 DEF RegisterMarket
    <3>3. ASSUME NEW e \in Engines, TryRegister(k, e) PROVE TypeOK'
      <4>1. /\ registry' \in [Keys -> Engines \union {NoEngine}]
            /\ engine' \in [Engines -> [key : Keys, phase : Phases]]
        BY <3>3 DEF TryRegister, Phases
      <4> QED
        BY <2>2, <3>1, <4>1 DEF RegisterMarket, Phases
    <3> QED
      BY <2>2, <3>2, <3>3 DEF RegisterMarket
  <2>3. CASE NoteSlug(c)
    BY <2>3 DEF NoteSlug, At
  <2> QED
    BY <1>8, <2>1, <2>2, <2>3 DEF RadarStep
<1>9. CASE NextEvent \/ Shutdown
  <2>1. CASE NextEvent
    <3>1. clock + 1 \in Slugs
      BY <2>1 DEF NextEvent, Slugs
    <3> QED
      BY <2>1, <3>1 DEF NextEvent
  <2> QED
    BY <1>9, <2>1 DEF Shutdown
<1>10. ASSUME NEW e \in Engines, EngineStep(e) PROVE TypeOK'
  <2>1. PICK p \in Phases : engine' = [engine EXCEPT ![e].phase = p]
    BY <1>10 DEF EngineStep, EnterLoop, Notice, OrdersCancelled, StreamLost, Leave, Phase, Phases
  <2>2. engine' \in [Engines -> [key : Keys, phase : Phases]]
    BY <2>1 DEF Phases
  <2>3. registry' \in [Keys -> Engines \union {NoEngine}]
    BY <1>10 DEF EngineStep, EnterLoop, Notice, OrdersCancelled, StreamLost, Leave, Deregister
  <2> QED
    BY <1>10, <2>2, <2>3 DEF EngineStep, Phases
<1> QED
  BY <1>2, <1>3, <1>4, <1>5, <1>6, <1>7, <1>8, <1>9, <1>10 DEF Next, Http

\* Every variable keeps its type: the registry holds nothing but tokens of engines,
\* which handlers, radars and leaving engines put there and remove.
THEOREM LifecycleTypes == Spec => []TypeOK
BY TypesInitially, TypesKept, PTL DEF Spec
-----------------------------------------------------------------------------
(***************************************************************************)
(* The autopilot alone.  Events have markets of their own, so no key is    *)
(* ever registered twice: an engine that ends can only remove its own      *)
(* entry, and a rotation finds every engine that trades in the registry.   *)
(***************************************************************************)
Disjoint == \A s, t \in Slugs : s # t => MarketsOf[s] \cap MarketsOf[t] = {}

Born  == {e \in Engines : engine[e].phase # "unborn"}
Pilot == radar[Autopilot]

\* The event under way is later than the one whose engines trade.
EventsAdvance ==
    /\ \A r \in Requests : radar[r].pc = "idle"
    /\ currentSlug <= clock
    /\ Pilot.pc \in {"exists", "fetch", "register"} =>
           currentSlug < Pilot.slug /\ Pilot.slug <= clock
    /\ Pilot.pc = "register" => Pilot.todo \subseteq MarketsOf[Pilot.slug]

\* Every engine was started for an event up to the current one, or for the one
\* under way and is not started again.
Accounted(e) ==
    \/ \E s \in Slugs : s <= currentSlug /\ engine[e].key \in MarketsOf[s]
    \/ /\ Pilot.pc = "register"
       /\ engine[e].key \in MarketsOf[Pilot.slug] \ Pilot.todo

KeysOnce == \A e, f \in Born : engine[e].key = engine[f].key => e = f

TradesCurrent == \A e \in Trading :
    /\ Pilot.pc # "fetch"
    /\ IF Pilot.pc = "register" THEN engine[e].key \in MarketsOf[Pilot.slug]
       ELSE currentSlug \in Slugs /\ engine[e].key \in MarketsOf[currentSlug]

Rotation ==
    /\ EventsAdvance
    /\ \A e \in Born : Accounted(e)
    /\ KeysOnce
    /\ TradersRegistered
    /\ TradesCurrent

RotationInv == TypeOK /\ RegistryInv /\ (~userStarted => Rotation)

LEMMA RotationInitially == Init => (~userStarted => Rotation)
<1> SUFFICES ASSUME Init PROVE Rotation
  OBVIOUS
<1>1. Born = {} /\ Trading = {}
  BY DEF Init, Born, Trading
<1>2. Autopilot \in Callers /\ Requests \subseteq Callers
  BY DEF Callers
<1> QED
  BY <1>1, <1>2 DEF Init, Rotation, EventsAdvance, KeysOnce, TradersRegistered, TradesCurrent, Pilot

\* An engine moves on, or some engines are told to stop and lose their entries,
\* while the autopilot stays where it is.
LEMMA QuietStep ==
    ASSUME RotationInv, Rotation, UNCHANGED <<radar, currentSlug>>, clock' >= clock,
           clock \in Nat, clock' \in Nat, currentSlug \in Nat,
           \A s \in Slugs : s \in Nat,
           Born' = Born, \A e \in Born : engine'[e].key = engine[e].key,
           Trading' \subseteq Trading,
           \A e \in Trading' : registry'[engine[e].key] = registry[engine[e].key],
           userStarted' = userStarted
    PROVE  Rotation'
<1>1. Trading' \subseteq Born /\ Trading \subseteq Born
  BY DEF Trading, Born
<1>2. EventsAdvance'
  <2>1. Pilot.slug \in Nat
    BY DEF RotationInv, TypeOK, Pilot, Callers
  <2> QED
    BY <2>1 DEF Rotation, EventsAdvance, Pilot
<1>3. \A e \in Born : Accounted(e)'
  BY DEF Rotation, Accounted, Pilot
<1>4. KeysOnce'
  BY DEF Rotation, KeysOnce
<1>5. TradersRegistered'
  BY <1>1 DEF Rotation, TradersRegistered
<1>6. TradesCurrent'
  BY <1>1 DEF Rotation, TradesCurrent, Pilot
<1> QED
  BY <1>2, <1>3, <1>4, <1>5, <1>6 DEF Rotation

LEMMA EngineRotation ==
    ASSUME RotationInv, ~userStarted, NEW e \in Engines, EngineStep(e)
    PROVE  Rotation'
<1> USE DEF RotationInv, TypeOK
<1>1. Rotation /\ UNCHANGED <<radar, currentSlug, clock, userStarted, cancelled, globalCancel>>
  BY DEF EngineStep
<1>2. PICK p \in {"looping", "closing", "leaving", "gone"} :
         /\ engine' = [engine EXCEPT ![e].phase = p]
         /\ engine[e].phase # "unborn"
         /\ p = "looping" => engine[e].phase = "spawned"
         /\ UNCHANGED registry \/ (p = "gone" /\ Deregister(engine[e].key))
  BY DEF EngineStep, EnterLoop, Notice, OrdersCancelled, StreamLost, Leave, Phase
<1>3. /\ \A f \in Engines \ {e} : engine'[f] = engine[f]
      /\ engine'[e].phase = p /\ engine'[e].key = engine[e].key
  BY <1>2
<1>4. Born' = Born /\ Trading' \subseteq Trading /\ \A f \in Born : engine'[f].key = engine[f].key
  BY <1>1, <1>2, <1>3 DEF Born, Trading, Stopping
<1>5. ASSUME NEW f \in Trading'
      PROVE  registry'[engine[f].key] = registry[engine[f].key]
  <2>1. CASE UNCHANGED registry
    BY <2>1
  <2>2. CASE p = "gone" /\ Deregister(engine[e].key)
    <3>1. f # e /\ f \in Born /\ e \in Born
      BY <1>2, <1>3, <1>4, <2>2 DEF Trading, Born
    <3>2. engine[f].key # engine[e].key
      BY <1>1, <3>1 DEF Rotation, KeysOnce
    <3> QED
      BY <2>2, <3>1, <3>2 DEF Deregister, Born
  <2> QED
    BY <1>2, <2>1, <2>2
<1>6. clock \in Nat /\ clock' \in Nat /\ clock' >= clock /\ currentSlug \in Nat
      /\ \A s \in Slugs : s \in Nat
  BY <1>1 DEF Slugs
<1> QED
  BY <1>1, <1>4, <1>5, <1>6, QuietStep

\* The autopilot registers a market of the event under way: its key is new.
LEMMA RegisterRotation ==
    ASSUME Disjoint, RotationInv, ~userStarted, NEW k \in Keys, RegisterMarket(Autopilot, k)
    PROVE  Rotation'
<1> USE DEF RotationInv, TypeOK
<1>1. /\ Pilot.pc = "register" /\ k \in Pilot.todo
      /\ radar' = [radar EXCEPT ![Autopilot].todo = @ \ {k}]
      /\ UNCHANGED <<cancelled, globalCancel, currentSlug, clock, userStarted>>
  BY DEF RegisterMarket, Pilot
<1>2. Autopilot \in Callers /\ \A r \in Requests : r \in Callers /\ r # Autopilot
  BY LifecycleAssumption DEF Callers
<1>3. /\ Pilot'.pc = "register" /\ Pilot'.slug = Pilot.slug /\ Pilot'.todo = Pilot.todo \ {k}
      /\ \A r \in Requests : radar'[r] = radar[r]
  BY <1>1, <1>2 DEF Pilot
<1>4. Rotation /\ EventsAdvance /\ Pilot.slug \in Slugs /\ k \in MarketsOf[Pilot.slug]
  BY <1>1, <1>2 DEF Rotation, EventsAdvance, Pilot
<1>5. EventsAdvance'
  BY <1>1, <1>3, <1>4 DEF EventsAdvance
<1>6. ASSUME NEW e \in Born PROVE engine[e].key # k
  <2>1. Accounted(e)
    BY <1>4 DEF Rotation
  <2>2. CASE \E s \in Slugs : s <= currentSlug /\ engine[e].key \in MarketsOf[s]
    <3>1. PICK s \in Slugs : s <= currentSlug /\ engine[e].key \in MarketsOf[s]
      BY <2>2
    <3>2. s # Pilot.slug
      BY <1>1, <1>4, <3>1 DEF EventsAdvance, Slugs
    <3> QED
      BY <1>4, <3>1, <3>2 DEF Disjoint
  <2> QED
    BY <1>1, <2>1, <2>2 DEF Accounted
<1>7. ASSUME NEW e \in Born, engine'[e].key = engine[e].key PROVE Accounted(e)'
  BY <1>1, <1>3, <1>4, <1>7 DEF Rotation, Accounted
<1>8. CASE UNCHANGED <<registry, engine>>
  <2>1. Born' = Born /\ Trading' = Trading
    BY <1>1, <1>8 DEF Born, Trading, Stopping
  <2> QED
    BY <1>1, <1>3, <1>4, <1>5, <1>7, <1>8, <2>1
       DEF Rotation, KeysOnce, TradersRegistered, TradesCurrent
<1>9. ASSUME NEW e \in Engines, TryRegister(k, e) PROVE Rotation'
  <2>1. /\ engine'[e].key = k /\ engine'[e].phase = "spawned" /\ registry'[k] = e
        /\ \A f \in Engines \ {e} : engine'[f] = engine[f]
        /\ \A j \in Keys \ {k} : registry'[j] = registry[j]
        /\ e \notin Born /\ e \notin Trading
    BY <1>9 DEF TryRegister, Unborn, Born, Trading
  <2>2. Born' = Born \union {e} /\ Trading' \subseteq Trading \union {e} /\ Trading \subseteq Born
    BY <1>1, <2>1 DEF Born, Trading, Stopping
  <2>3. Accounted(e)'
    BY <1>1, <1>3, <1>4, <2>1 DEF Accounted
  <2>4. \A f \in Born : f \in Engines /\ f # e /\ engine'[f] = engine[f] /\ engine[f].key \in Keys
    BY <2>1 DEF Born
  <2>5. \A f \in Born' : Accounted(f)'
    BY <1>7, <2>2, <2>3, <2>4
  <2>6. KeysOnce'
    BY <1>4, <1>6, <2>1, <2>2, <2>4 DEF Rotation, KeysOnce
  <2>7. TradersRegistered'
    BY <1>1, <1>4, <1>6, <2>1, <2>2, <2>4 DEF Rotation, TradersRegistered
  <2>8. TradesCurrent'
    BY <1>1, <1>3, <1>4, <2>1, <2>2, <2>4 DEF Rotation, TradesCurrent
  <2> QED
    BY <1>5, <2>5, <2>6, <2>7, <2>8 DEF Rotation
<1> QED
  BY <1>8, <1>9 DEF RegisterMarket

\* The autopilot goes on to its next step and leaves the engines alone.
LEMMA PilotRotation ==
    ASSUME RotationInv, ~userStarted, Tick \/ Rotate \/ Fetch(Autopilot) \/ NoteSlug(Autopilot)
    PROVE  Rotation'
<1> USE DEF RotationInv, TypeOK, At
<1>1. Rotation /\ EventsAdvance /\ Autopilot \in Callers
      /\ \A r \in Requests : r \in Callers /\ r # Autopilot
  BY LifecycleAssumption DEF Rotation, Callers
<1>2. UNCHANGED <<engine, globalCancel, clock, userStarted>> /\ Born' = Born
  BY DEF Tick, Rotate, Fetch, NoteSlug, Born
<1>3. \A r \in Requests : radar'[r] = radar[r]
  BY <1>1 DEF Tick, Rotate, Fetch, NoteSlug
<1>4. Pilot \in [pc : {"idle", "exists", "fetch", "register", "done"}, slug : Slugs, todo : SUBSET Keys]
      /\ Slugs \subseteq Nat \ {0} /\ clock \in Nat /\ currentSlug \in Nat
  BY <1>1 DEF Pilot, Slugs
<1>5. KeysOnce'
  BY <1>1, <1>2 DEF Rotation, KeysOnce
<1>6. ASSUME UNCHANGED <<registry, cancelled>> PROVE Trading' = Trading /\ TradersRegistered'
  BY <1>1, <1>2, <1>6 DEF Trading, Stopping, Rotation, TradersRegistered
<1>7. CASE Tick
  <2>1. UNCHANGED <<registry, cancelled, currentSlug>> /\ Pilot.pc = "idle"
        /\ \/ Pilot'.pc = "done"
           \/ Pilot'.pc = "exists" /\ Pilot'.slug = clock /\ currentSlug # clock
    BY <1>1, <1>7 DEF Tick, Pilot
  <2>2. EventsAdvance'
    BY <1>1, <1>2, <1>3, <1>4, <2>1 DEF EventsAdvance
  <2>3. \A e \in Born : Accounted(e)'
    BY <1>1, <1>2, <2>1 DEF Rotation, Accounted
  <2>4. TradesCurrent'
    BY <1>1, <1>2, <1>6, <2>1 DEF Rotation, TradesCurrent
  <2> QED
    BY <1>2, <1>5, <1>6, <2>1, <2>2, <2>3, <2>4 DEF Rotation
<1>8. CASE Rotate
  <2>1. Pilot.pc = "exists" /\ UNCHANGED currentSlug /\ Pilot'.slug = Pilot.slug
        /\ \/ Pilot'.pc = "idle" /\ UNCHANGED <<registry, cancelled>>
           \/ Pilot'.pc = "fetch" /\ CancelAll
    BY <1>1, <1>8 DEF Rotate, Pilot
  <2>2. EventsAdvance'
    BY <1>1, <1>2, <1>3, <1>4, <2>1 DEF EventsAdvance
  <2>3. \A e \in Born : Accounted(e)'
    BY <1>1, <1>2, <2>1 DEF Rotation, Accounted
  <2>4. ASSUME NEW e \in Trading PROVE e \in Registered
    <3>1. e \in Engines /\ registry[engine[e].key] = e /\ engine[e].key \in Keys
      BY <1>1 DEF Rotation, TradersRegistered, Trading
    <3> QED
      BY <3>1, LifecycleAssumption DEF Registered
  <2>5. CASE UNCHANGED <<registry, cancelled>>
    <3>1. Pilot'.pc \in {"idle", "fetch"} /\ (Pilot'.pc = "fetch" => Registered \subseteq cancelled)
      BY <2>1, <2>5 DEF CancelAll
    <3>2. Pilot'.pc = "fetch" => Trading = {}
      BY <2>4, <3>1 DEF Trading, Stopping
    <3>3. TradesCurrent'
      BY <1>1, <1>2, <1>6, <2>1, <2>5, <3>1, <3>2 DEF Rotation, TradesCurrent
    <3> QED
      BY <1>2, <1>5, <1>6, <2>2, <2>3, <2>5, <3>3 DEF Rotation
  <2>6. CASE CancelAll
    <3>1. Trading' = {}
      BY <1>2, <2>4, <2>6 DEF CancelAll, Trading, Stopping
    <3>2. TradersRegistered' /\ TradesCurrent'
      BY <3>1 DEF TradersRegistered, TradesCurrent
    <3> QED
      BY <1>2, <1>5, <2>2, <2>3, <3>2 DEF Rotation
  <2> QED
    BY <2>1, <2>5, <2>6
<1>9. CASE Fetch(Autopilot)
  <2>1. /\ Pilot.pc = "fetch" /\ UNCHANGED <<registry, cancelled, currentSlug>>
        /\ Pilot'.slug = Pilot.slug
        /\ \/ Pilot'.pc = "idle"
           \/ Pilot'.pc = "register" /\ Pilot'.todo = MarketsOf[Pilot.slug]
    BY <1>1, <1>9 DEF Fetch, Pilot
  <2>2. EventsAdvance'
    BY <1>1, <1>2, <1>3, <1>4, <2>1 DEF EventsAdvance
  <2>3. \A e \in Born : Accounted(e)'
    BY <1>1, <1>2, <2>1 DEF Rotation, Accounted
  <2>4. Trading' = {}
    BY <1>1, <1>6, <2>1 DEF Rotation, TradesCurrent
  <2>5. TradesCurrent'
    BY <2>4 DEF TradesCurrent
  <2> QED
    BY <1>2, <1>5, <1>6, <2>1, <2>2, <2>3, <2>5 DEF Rotation
<1>10. CASE NoteSlug(Autopilot)
  <2>1. /\ Pilot.pc = "register" /\ Pilot.todo = {} /\ UNCHANGED <<registry, cancelled>>
        /\ currentSlug' = Pilot.slug /\ Pilot'.pc = "idle"
    BY <1>1, <1>10 DEF NoteSlug, Pilot
  <2>2. EventsAdvance'
    BY <1>1, <1>2, <1>3, <1>4, <2>1 DEF EventsAdvance
  <2>3. ASSUME NEW e \in Born PROVE Accounted(e)'
    <3>1. Accounted(e) /\ currentSlug < Pilot.slug
      BY <1>1, <2>1 DEF Rotation, EventsAdvance
    <3> HIDE DEF RotationInv, TypeOK
    <3>2. Pilot.slug \in Slugs /\ Pilot.slug \in Nat /\ \A s \in Slugs : s \in Nat
      BY <1>4
    <3>3. Pilot.slug <= Pilot.slug /\ \A s \in Slugs : s <= currentSlug => s <= Pilot.slug
      BY <1>4, <3>1, <3>2
    <3>4. \E s \in Slugs : s <= Pilot.slug /\ engine[e].key \in MarketsOf[s]
      BY <2>1, <3>1, <3>2, <3>3 DEF Accounted
    <3> QED
      BY <1>2, <2>1, <3>4 DEF Accounted
  <2>4. TradesCurrent'
    BY <1>1, <1>2, <1>4, <1>6, <2>1 DEF Rotation, TradesCurrent
  <2> QED
    BY <1>2, <1>5, <1>6, <2>1, <2>2, <2>3, <2>4 DEF Rotation
<1> QED
  BY <1>7, <1>8, <1>9, <1>10

LEMMA RotationKept ==
    ASSUME Disjoint
    PROVE  RotationInv /\ [Next]_vars => RotationInv'
<1> SUFFICES ASSUME RotationInv, [Next]_vars, ~userStarted' PROVE Rotation'
  BY TypesKept, RegistryKept DEF RotationInv
<1>1. ~userStarted
  BY DEF Next, Http, vars, StrategyStart, StrategyStop, EventStart, Tick, Rotate, RadarStep,
         Fetch, RegisterMarket, NoteSlug, NextEvent, Shutdown, EngineStep
<1>2. Rotation /\ \A r \in Requests : radar[r].pc = "idle"
  BY <1>1 DEF RotationInv, Rotation, EventsAdvance
<1>3. /\ clock \in Nat /\ currentSlug \in Nat /\ clock' \in Nat /\ \A s \in Slugs : s \in Nat
  BY TypesKept DEF RotationInv, TypeOK, Slugs
<1>4. ASSUME UNCHANGED <<radar, currentSlug, engine, registry, cancelled, userStarted>>,
             clock' >= clock, globalCancel => globalCancel'
      PROVE  Rotation'
  <2>1. Born' = Born /\ Trading' \subseteq Trading
    BY <1>4 DEF Born, Trading, Stopping
  <2> QED
    BY <1>2, <1>3, <1>4, <2>1, QuietStep
<1>5. CASE UNCHANGED vars \/ NextEvent \/ Shutdown
  BY <1>3, <1>4, <1>5 DEF vars, NextEvent, Shutdown
<1>6. ASSUME NEW k \in Keys, StrategyStop(k) PROVE Rotation'
  <2>1. /\ UNCHANGED <<engine, radar, currentSlug, clock, globalCancel, userStarted>>
        /\ cancelled' = cancelled \union {registry[k]}
        /\ registry' = [registry EXCEPT ![k] = NoEngine]
        /\ registry[k] # NoEngine
    BY <1>6 DEF StrategyStop, Cancel
  <2>2. Born' = Born /\ Trading' \subseteq Trading \ {registry[k]}
    BY <2>1 DEF Born, Trading, Stopping
  <2>3. ASSUME NEW e \in Trading' PROVE registry'[engine[e].key] = registry[engine[e].key]
    <3>1. registry[engine[e].key] = e /\ engine[e].key \in Keys
      BY <1>1, <1>2, <2>2 DEF Rotation, TradersRegistered, Trading, RotationInv, TypeOK
    <3>2. engine[e].key # k
      BY <2>2, <3>1
    <3> QED
      BY <2>1, <3>1, <3>2 DEF RotationInv, TypeOK
  <2> QED
    BY <1>2, <1>3, <2>1, <2>2, <2>3, QuietStep
<1>7. CASE Http
  BY <1>6, <1>7 DEF Http, StrategyStart, EventStart
<1>8. ASSUME NEW c \in Callers, RadarStep(c) PROVE Rotation'
  <2>1. c = Autopilot
    BY <1>2, <1>8 DEF RadarStep, Fetch, RegisterMarket, NoteSlug, Callers
  <2> QED
    BY <1>1, <1>8, <2>1, PilotRotation, RegisterRotation DEF RadarStep
<1>9. CASE \E e \in Engines : EngineStep(e)
  BY <1>1, <1>9, EngineRotation
<1> QED
  BY <1>1, <1>5, <1>7, <1>8, <1>9, PilotRotation DEF Next

\* When events have markets of their own and only the autopilot has started
\* engines, every engine that trades has its entry: rotations and stops find it,
\* whatever feeds are lost and whatever engines are stopped by hand.
THEOREM TradersSound == ASSUME Disjoint PROVE Spec => []TradersRegistered
<1>1. Init => RotationInv
  BY TypesInitially, RegistryInitially, RotationInitially DEF RotationInv
<1>2. RotationInv => TradersRegistered
  BY DEF RotationInv, Rotation, TradersRegistered
<1> QED
  BY <1>1, <1>2, RotationKept, PTL DEF Spec

\* Under the same conditions all engines that trade are of one event.
THEOREM RotationSound == ASSUME Disjoint PROVE Spec => []OneEventTraded
<1>1. Init => RotationInv
  BY TypesInitially, RegistryInitially, RotationInitially DEF RotationInv
<1>2. RotationInv => OneEventTraded
  <2> SUFFICES ASSUME RotationInv, ~userStarted
               PROVE  \E s \in Slugs : \A e \in Trading : engine[e].key \in MarketsOf[s]
    BY DEF OneEventTraded
  <2>1. Pilot.slug \in Slugs /\ TradesCurrent
    BY DEF RotationInv, TypeOK, Pilot, Callers, Rotation
  <2>2. CASE Pilot.pc = "register" \/ Trading = {}
    BY <2>1, <2>2 DEF TradesCurrent
  <2>3. CASE Pilot.pc # "register" /\ Trading # {}
    <3>1. currentSlug \in Slugs
      BY <2>1, <2>3 DEF TradesCurrent
    <3> QED
      BY <2>1, <2>3, <3>1 DEF TradesCurrent
  <2> QED
    BY <2>2, <2>3
<1> QED
  BY <1>1, <1>2, RotationKept, PTL DEF Spec
=============================================================================
