------------------------- MODULE StrategyLifecycle -------------------------
(***************************************************************************)
(* How engines are started and stopped: the StrategyRegistry (src/src/api/ *)
(* strategy_registry.rs), the HTTP handlers and start_event_radar (server. *)
(* rs), the autopilot that rotates to the current 5-minute event and the   *)
(* shutdown (main.rs), and of run_sniper_task its ends.                    *)
(*                                                                         *)
(* An engine is a task with a CancellationToken of its own; the registry   *)
(* maps a market key to the token of its engine.  Handlers, autopilot and  *)
(* engines run on different threads: each registry call is one step.       *)
(***************************************************************************)
EXTENDS Naturals, FiniteSets

CONSTANTS Keys,               \* market keys (YES token ids)
          Engines,            \* engine tasks that may ever be spawned
          Requests,           \* POST /event/start requests
          LastEvent,          \* events, one every 5 minutes: slugs 1..LastEvent
          MarketsOf,          \* the market keys of each event
          HttpStarts,         \* whether POST /strategy/start and /stop are used
          StreamsFail         \* whether a feed may be lost for good

Slugs     == 1..LastEvent
Autopilot == "autopilot"      \* the autopilot loop as a caller of start_event_radar
Callers   == {Autopilot} \union Requests
NoEngine  == "none"

ASSUME LifecycleAssumption ==
    /\ Keys # {} /\ IsFiniteSet(Engines) /\ IsFiniteSet(Requests)
    /\ LastEvent \in Nat \ {0}
    /\ MarketsOf \in [Slugs -> SUBSET Keys]
    /\ Autopilot \notin Requests /\ NoEngine \notin Engines
    /\ HttpStarts \in BOOLEAN /\ StreamsFail \in BOOLEAN

VARIABLES registry,           \* cancel_tokens: the engine whose token a key maps to
          engine,             \* [key, phase] of each engine task
          cancelled,          \* engines whose own token was cancelled
          globalCancel,       \* the shutdown token was cancelled
          radar,              \* [pc, slug, todo] of each caller of start_event_radar
          currentSlug,        \* current_event_slug, 0 = None
          clock,              \* the event predict_current_5m_slug names
          userStarted         \* history: a handler was asked to start an engine

vars == <<registry, engine, cancelled, globalCancel, radar, currentSlug, clock, userStarted>>

(***************************************************************************)
(* Engine phases: spawned (reading the two positions before its loop),     *)
(* looping, closing (cancelling its open orders), leaving (the guard's Drop*)
(* is next), gone.                                                         *)
(***************************************************************************)
Unborn  == {e \in Engines : engine[e].phase = "unborn"}
Alive   == {e \in Engines : engine[e].phase \in {"spawned", "looping", "closing", "leaving"}}
Stopping(e) == e \in cancelled \/ globalCancel
\* An engine that will go on trading.
Trading == {e \in Engines : engine[e].phase \in {"spawned", "looping"} /\ ~Stopping(e)}

Registered == {registry[k] : k \in Keys} \ {NoEngine}

Phase(e, p) == engine' = [engine EXCEPT ![e].phase = p]
At(c, p)    == radar' = [radar EXCEPT ![c].pc = p]

Init ==
    /\ registry = [k \in Keys |-> NoEngine]
    /\ engine = [e \in Engines |-> [key |-> CHOOSE k \in Keys : TRUE, phase |-> "unborn"]]
    /\ cancelled = {}
    /\ globalCancel = FALSE
    /\ radar = [c \in Callers |-> [pc |-> "idle", slug |-> 1, todo |-> {}]]
    /\ currentSlug = 0
    /\ clock = 1
    /\ userStarted = FALSE
-----------------------------------------------------------------------------
\* try_register finds the key vacant and the engine is spawned.
TryRegister(k, e) ==
    /\ registry[k] = NoEngine
    /\ e \in Unborn
    /\ registry' = [registry EXCEPT ![k] = e]
    /\ engine' = [engine EXCEPT ![e] = [key |-> k, phase |-> "spawned"]]

\* Mutated form: the map is cleared without cancelling what it held.
CancelAllForgets ==
    /\ UNCHANGED cancelled
    /\ registry' = [k \in Keys |-> NoEngine]

\* cancel_all
CancelAll ==
    /\ cancelled' = cancelled \union Registered
    /\ registry' = [k \in Keys |-> NoEngine]

\* cancel: remove the entry and cancel its token.
Cancel(k) ==
    /\ registry[k] # NoEngine
    /\ cancelled' = cancelled \union {registry[k]}
    /\ registry' = [registry EXCEPT ![k] = NoEngine]

\* Mutated form: the guard is missing.
DeregisterNothing(k) == UNCHANGED registry

\* deregister: by key, whatever engine the entry belongs to.
Deregister(k) == registry' = [registry EXCEPT ![k] = NoEngine]
-----------------------------------------------------------------------------
\* POST /strategy/start and POST /strategy/stop
StrategyStart(k, e) ==
    /\ HttpStarts
    /\ TryRegister(k, e)
    /\ userStarted' = TRUE
    /\ UNCHANGED <<cancelled, globalCancel, radar, currentSlug, clock>>

StrategyStop(k) ==
    /\ HttpStarts
    /\ Cancel(k)
    /\ UNCHANGED <<engine, globalCancel, radar, currentSlug, clock, userStarted>>

\* POST /event/start: start_event_radar first waits and warms up.
EventStart(r, s) ==
    /\ r \in Requests /\ radar[r].pc = "idle"
    /\ radar' = [radar EXCEPT ![r] = [pc |-> "fetch", slug |-> s, todo |-> {}]]
    /\ userStarted' = TRUE
    /\ UNCHANGED <<registry, engine, cancelled, globalCancel, currentSlug, clock>>

\* Mutated form: the current slug is not compared.
TickAlways ==
    /\ radar[Autopilot].pc = "idle"
    /\ \/ globalCancel /\ At(Autopilot, "done")
       \/ /\ ~globalCancel
          /\ radar' = [radar EXCEPT ![Autopilot] = [pc |-> "exists", slug |-> clock, todo |-> {}]]
    /\ UNCHANGED <<registry, engine, cancelled, globalCancel, currentSlug, clock, userStarted>>

\* The autopilot's tick: nothing to do while the slug is current, and the end
\* of the loop after the shutdown.
Tick ==
    /\ radar[Autopilot].pc = "idle"
    /\ \/ globalCancel /\ At(Autopilot, "done")
       \/ /\ ~globalCancel /\ currentSlug # clock
          /\ radar' = [radar EXCEPT ![Autopilot] = [pc |-> "exists", slug |-> clock, todo |-> {}]]
    /\ UNCHANGED <<registry, engine, cancelled, globalCancel, currentSlug, clock, userStarted>>

\* check_event_exists has answered: not yet, or the previous engines are
\* cancelled and start_event_radar begins.
Rotate ==
    /\ radar[Autopilot].pc = "exists"
    /\ \/ At(Autopilot, "idle") /\ UNCHANGED <<registry, cancelled>>
       \/ CancelAll /\ At(Autopilot, "fetch")
    /\ UNCHANGED <<engine, globalCancel, currentSlug, clock, userStarted>>

\* fetch_event_markets fails, or names the markets of the event.
Fetch(c) ==
    /\ radar[c].pc = "fetch"
    /\ \/ At(c, IF c = Autopilot THEN "idle" ELSE "done")
       \/ radar' = [radar EXCEPT ![c].pc = "register", ![c].todo = MarketsOf[radar[c].slug]]
    /\ UNCHANGED <<registry, engine, cancelled, globalCancel, currentSlug, clock, userStarted>>

\* One market of the loop: registered and spawned, or passed over.
RegisterMarket(c, k) ==
    /\ radar[c].pc = "register" /\ k \in radar[c].todo
    /\ \/ \E e \in Engines : TryRegister(k, e)
       \/ registry[k] # NoEngine /\ UNCHANGED <<registry, engine>>
    /\ radar' = [radar EXCEPT ![c].todo = @ \ {k}]
    /\ UNCHANGED <<cancelled, globalCancel, currentSlug, clock, userStarted>>

\* The caller notes the event it has started: the autopilot (main.rs 191) or
\* event_start_handler (server.rs 237).
NoteSlug(c) ==
    /\ radar[c].pc = "register" /\ radar[c].todo = {}
    /\ currentSlug' = radar[c].slug
    /\ At(c, IF c = Autopilot THEN "idle" ELSE "done")
    /\ UNCHANGED <<registry, engine, cancelled, globalCancel, clock, userStarted>>

NextEvent ==
    /\ clock < LastEvent
    /\ clock' = clock + 1
    /\ UNCHANGED <<registry, engine, cancelled, globalCancel, radar, currentSlug, userStarted>>

\* SIGINT or SIGTERM
Shutdown ==
    /\ ~globalCancel
    /\ globalCancel' = TRUE
    /\ UNCHANGED <<registry, engine, cancelled, radar, currentSlug, clock, userStarted>>
-----------------------------------------------------------------------------
\* run_sniper_task: the positions are read and the loop begins, where alone a
\* cancellation is noticed.
EnterLoop(e) == engine[e].phase = "spawned" /\ Phase(e, "looping") /\ UNCHANGED registry

\* Mutated form: the loop listens to the shutdown only.
NoticeShutdownOnly(e) ==
    /\ engine[e].phase = "looping" /\ globalCancel
    /\ Phase(e, "closing")
    /\ UNCHANGED registry

\* Mutated form: the loop listens to its own token only.
NoticeStopOnly(e) ==
    /\ engine[e].phase = "looping" /\ e \in cancelled
    /\ Phase(e, "closing")
    /\ UNCHANGED registry

\* The cancelled arm of select!.
Notice(e) ==
    /\ engine[e].phase = "looping" /\ Stopping(e)
    /\ Phase(e, "closing")
    /\ UNCHANGED registry

OrdersCancelled(e) == engine[e].phase = "closing" /\ Phase(e, "leaving") /\ UNCHANGED registry

\* A feed could not be opened, or its sender is gone.
StreamLost(e) ==
    /\ StreamsFail
    /\ engine[e].phase \in {"spawned", "looping"}
    /\ Phase(e, "leaving")
    /\ UNCHANGED registry

\* The task returns and StrategyGuardDrop is dropped.
Leave(e) == engine[e].phase = "leaving" /\ Phase(e, "gone") /\ Deregister(engine[e].key)

EngineStep(e) ==
    /\ EnterLoop(e) \/ Notice(e) \/ OrdersCancelled(e) \/ StreamLost(e) \/ Leave(e)
    /\ UNCHANGED <<cancelled, globalCancel, radar, currentSlug, clock, userStarted>>

Http ==
    \/ \E k \in Keys : StrategyStop(k) \/ \E e \in Engines : StrategyStart(k, e)
    \/ \E r \in Requests, s \in Slugs : EventStart(r, s)

RadarStep(c) == Fetch(c) \/ (\E k \in Keys : RegisterMarket(c, k)) \/ NoteSlug(c)

Next ==
    \/ Http
    \/ Tick \/ Rotate
    \/ \E c \in Callers : RadarStep(c)
    \/ NextEvent \/ Shutdown
    \/ \E e \in Engines : EngineStep(e)

Spec == Init /\ [][Next]_vars

\* The runtime polls the engines and the autopilot, and the requests they make
\* are answered.  select! picks at random among its ready arms, so a cancelled
\* token is noticed; nothing is fair about users, feeds and the discovery.
Fairness ==
    /\ \A e \in Engines : /\ WF_vars(EnterLoop(e) /\ EngineStep(e))
                          /\ WF_vars(Notice(e) /\ EngineStep(e))
                          /\ WF_vars(OrdersCancelled(e) /\ EngineStep(e))
                          /\ WF_vars(Leave(e) /\ EngineStep(e))
    /\ WF_vars(Tick) /\ WF_vars(Rotate)
    /\ \A c \in Callers : WF_vars(RadarStep(c))

FairSpec == Spec /\ Fairness
-----------------------------------------------------------------------------
TypeOK ==
    /\ registry \in [Keys -> Engines \union {NoEngine}]
    /\ engine \in [Engines -> [key : Keys,
                     phase : {"unborn", "spawned", "looping", "closing", "leaving", "gone"}]]
    /\ cancelled \subseteq Engines
    /\ globalCancel \in BOOLEAN
    /\ radar \in [Callers -> [pc : {"idle", "exists", "fetch", "register", "done"},
                    slug : Slugs, todo : SUBSET Keys]]
    /\ currentSlug \in {0} \union Slugs
    /\ clock \in Slugs
    /\ userStarted \in BOOLEAN

\* "to avoid zombie registry entries" (strategy_registry.rs 69): an entry names an
\* engine of that market that has not ended and was not told to stop, so a key
\* that is occupied is one that is traded, whoever removed and added entries.
NoZombieEntry == \A k \in Keys : registry[k] # NoEngine =>
    /\ registry[k] \in Alive \ cancelled
    /\ engine[registry[k]].key = k

\* As long as only the autopilot has started engines, each engine that trades has
\* its entry, so that the next rotation or POST /strategy/stop will stop it.
TradersRegistered == ~userStarted => \A e \in Trading : registry[engine[e].key] = e

\* The autopilot trades one event at a time: "Cancel all registered strategies
\* (e.g. before auto-rotation to a new 5m market)" (strategy_registry.rs 57).
OneEventTraded == ~userStarted =>
    \E s \in Slugs : \A e \in Trading : engine[e].key \in MarketsOf[s]

\* "Register only if token_id is not already running" (strategy_registry.rs 34):
\* a market has at most one engine that trades.
OneEnginePerMarket ==
    \A k \in Keys : Cardinality({e \in Trading : engine[e].key = k}) <= 1

\* An engine that was told to stop ends.
StoppedEnds == \A e \in Engines :
    e \in cancelled ~> engine[e].phase = "gone"

\* After SIGINT or SIGTERM every engine ends, also one that a handler or a radar
\* under way has yet to start.
ShutdownQuiesces == globalCancel ~> [](Alive = {})
=============================================================================
