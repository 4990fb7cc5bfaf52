----------------------------- MODULE MarketData -----------------------------
(***************************************************************************)
(* Where a strike comes from: the Binance stream and its reconnections     *)
(* (src/src/oracle/binance_ws.rs), the watch channel every task reads, the *)
(* cache of prices by the second (src/src/models/btc_price.rs), which      *)
(* engines, the heartbeat and the radars write, and the radar that reads   *)
(* it for the opening price of a market (src/src/discovery/radar.rs).      *)
(*                                                                         *)
(* A price is known by the time at which it was quoted, 0 for the price 0  *)
(* that the channel starts with.  A 5-minute event is known by its opening *)
(* time, its target_ts, and has one market; Untimed is an event whose slug *)
(* has no time.  The pauses between connections are shorter than a unit.   *)
(***************************************************************************)
EXTENDS Integers, FiniteSets

CONSTANTS Period,             \* between two heartbeats, 30 s
          Minute,             \* of a kline
          SlotLength,         \* 5 minutes
          CacheMaxAge,        \* CACHE_MAX_AGE_SECS
          Klines,             \* limit of the warm-up
          MaxRetries,         \* MAX_RETRIES
          Opening, Horizon,   \* bounds of the time looked at
          MaxRadars           \* bound on the radars started

ASSUME TimeAssumption ==
    /\ {Period, Minute, SlotLength, CacheMaxAge, Klines, MaxRetries} \subseteq Nat \ {0}
    /\ Period <= Minute /\ SlotLength % Minute = 0
    /\ {MaxRadars, Opening, Horizon} \subseteq Nat /\ SlotLength <= Opening /\ Opening <= Horizon

VARIABLES now,
          stream,             \* the task of the Binance stream
          failures,           \* consecutive_failures
          ticker,             \* the channel's value
          mid,                \* GLOBAL_BTC_MID_BITS
          cache,              \* PRICE_CACHE: prices with the second they are filed under
          beat,               \* time of the last heartbeat
          radars,             \* started so far
          radar,              \* start_event_radar, of the autopilot and of a handler
          slug,               \* current_event_slug
          engine,             \* the engine of each event
          firstTick,          \* time of the first quote
          silence             \* the longest time between two quotes

feedVars   == <<stream, failures, ticker, firstTick, silence>>
priceVars  == <<mid, cache>>
engineVars == <<radars, radar, slug, engine>>
vars == <<now, beat, feedVars, priceVars, engineVars>>

Untimed     == 0
SlotOf(t)   == (t \div SlotLength) * SlotLength
MinuteOf(t) == (t \div Minute) * Minute
Events      == {Untimed} \union {SlotOf(t) : t \in Opening..Horizon}
Radars      == {"autopilot", "http"}

Distance(a, b) == IF a < b THEN b - a ELSE a - b
Larger(a, b)   == IF a < b THEN b ELSE a
Smaller(a, b)  == IF a < b THEN a ELSE b

\* Time counts from 1970: whatever is asked for, its klines were quoted after 0.
ASSUME ClockAssumption == \A t \in (Events \ {Untimed}) \union (Opening..Horizon) :
    t \in Nat \ {0} /\ MinuteOf(t) \in Nat /\ MinuteOf(t) >= Klines * Minute

NoEngine   == [on |-> FALSE, fresh |-> FALSE]    \* fresh: a quote it has not seen
IdleRadar  == [pc |-> "idle", event |-> Untimed]

Init ==
    /\ now = Opening /\ beat = Opening
    /\ stream = "connecting" /\ failures = 0 /\ ticker = 0
    /\ mid = 0 /\ cache = {}
    /\ radar = [r \in Radars |-> IdleRadar] /\ radars = 0
    /\ slug = Untimed
    /\ engine = [e \in Events |-> NoEngine]
    /\ firstTick = 0 /\ silence = 0
-----------------------------------------------------------------------------
\* connect_async succeeds.
Connected ==
    /\ stream = "connecting"
    /\ stream' = "up" /\ failures' = 0
    /\ UNCHANGED <<now, beat, ticker, firstTick, silence, priceVars, engineVars>>

\* Mutated form: one attempt more.
NotConnectedOnceMore ==
    /\ stream = "connecting"
    /\ failures' = failures + 1
    /\ stream' = IF failures' > MaxRetries THEN "dropped" ELSE stream
    /\ UNCHANGED <<now, beat, ticker, firstTick, silence, priceVars, engineVars>>

\* connect_async fails; after MAX_RETRIES failures in a row the sender is dropped.
NotConnected ==
    /\ stream = "connecting"
    /\ failures' = failures + 1
    /\ stream' = IF failures' >= MaxRetries THEN "dropped" ELSE stream
    /\ UNCHANGED <<now, beat, ticker, firstTick, silence, priceVars, engineVars>>

\* A quote arrives: every engine has an unseen value.
Tick ==
    /\ stream = "up" /\ ticker < now
    /\ ticker' = now
    /\ firstTick' = IF ticker = 0 THEN now ELSE firstTick
    /\ silence' = IF ticker = 0 THEN 0 ELSE Larger(silence, now - ticker)
    /\ engine' = [e \in Events |-> [engine[e] EXCEPT !.fresh = engine[e].on]]
    /\ UNCHANGED <<now, beat, stream, failures, priceVars, radars, radar, slug>>

\* The stream ends or fails, and backoff_ms later the task connects again.
StreamEnds ==
    /\ stream = "up" /\ stream' = "connecting"
    /\ UNCHANGED <<now, beat, failures, ticker, firstTick, silence, priceVars, engineVars>>
-----------------------------------------------------------------------------
\* record_price: what is too old goes when something is written.
Record(entries) ==
    cache' = {c \in cache \union entries : c.stamp >= now - CacheMaxAge}

\* set_btc_mid: the price is filed under the current time, however old it is.
SetMid(at) == mid' = at /\ Record({[stamp |-> now, at |-> at]})

SetMidIfReal(at) == IF at > 0 THEN SetMid(at) ELSE UNCHANGED priceVars

\* The 30 s heartbeat.
Heartbeat ==
    /\ now - beat >= Period
    /\ beat' = now
    /\ SetMidIfReal(ticker)
    /\ UNCHANGED <<now, feedVars, engineVars>>

\* The engine's arm for Binance: no test of the price, but a quote has arrived.
EngineTick(e) ==
    /\ engine[e].on /\ engine[e].fresh
    /\ engine' = [engine EXCEPT ![e].fresh = FALSE]
    /\ SetMid(ticker)
    /\ UNCHANGED <<now, beat, feedVars, radars, radar, slug>>

\* Mutated form: the price is not tested.
EngineSleepUntested(e) ==
    /\ engine[e].on
    /\ SetMid(ticker)
    /\ UNCHANGED <<now, beat, feedVars, engineVars>>

\* The engine's sleep arm.
EngineSleep(e) ==
    /\ engine[e].on
    /\ SetMidIfReal(ticker)
    /\ UNCHANGED <<now, beat, feedVars, engineVars>>

\* changed() fails when the sender is gone, but not before the value it left, which
\* is unseen by a new engine, has been seen.
FeedLost(e) ==
    /\ engine[e].on /\ ~engine[e].fresh /\ stream = "dropped"
    /\ engine' = [engine EXCEPT ![e] = NoEngine]
    /\ UNCHANGED <<now, beat, feedVars, priceVars, radars, radar, slug>>

\* The engine notices that it was cancelled, or an order book stream is lost.
EngineEnds(e) ==
    /\ engine[e].on
    /\ engine' = [engine EXCEPT ![e] = NoEngine]
    /\ UNCHANGED <<now, beat, feedVars, priceVars, radars, radar, slug>>
-----------------------------------------------------------------------------
\* start_event_radar
StartRadar(r, e) ==
    /\ radars < MaxRadars /\ radars' = radars + 1
    /\ radar[r].pc = "idle"
    /\ radar' = [radar EXCEPT ![r] = [pc |-> "warming", event |-> e]]
    /\ UNCHANGED <<now, beat, feedVars, priceVars, slug>>

\* predict_current_5m_slug is not the slug on record and its event exists: the radar.
\* The engines were cancelled before, and end when they notice (EngineEnds).
Rotate ==
    /\ slug # SlotOf(now)
    /\ StartRadar("autopilot", SlotOf(now))
    /\ UNCHANGED engine

\* POST /event/start, with any slug.
EventStart(e) == StartRadar("http", e) /\ UNCHANGED engine

\* A kline is filed under its opening time and bears the price of its close, or the
\* last price while it is open.
Kline(m) == [stamp |-> m, at |-> Smaller(now, m + Minute)]

\* warmup_btc_cache_for_past_15_min: the klines up to the event's, as far as Binance
\* answers and has them.
WarmUp(r) ==
    LET anchor == MinuteOf(IF radar[r].event = Untimed THEN now ELSE radar[r].event)
        opened == {m \in (anchor - (Klines - 1) * Minute)..Smaller(anchor, now) : m % Minute = 0}
    IN  /\ radar[r].pc = "warming"
        /\ radar' = [radar EXCEPT ![r].pc = "fetching"]
        /\ \/ opened # {} /\ Record({Kline(m) : m \in opened})
           \/ UNCHANGED cache
        /\ UNCHANGED <<now, beat, feedVars, mid, radars, slug, engine>>

\* Mutated form: the last price that was filed.
NearestIsLast(t) == {c \in cache : \A d \in cache : d.stamp <= c.stamp}

\* get_btc_at_timestamp: a price filed nearest to t.
Nearest(t) == {c \in cache : \A d \in cache : Distance(c.stamp, t) <= Distance(d.stamp, t)}

\* A market becomes an engine unless it has one; its receiver is a clone that has
\* not seen the channel's value.
StartEngine(e) ==
    engine' = [engine EXCEPT ![e] = IF @.on THEN @ ELSE [on |-> TRUE, fresh |-> ticker > 0]]

\* A relative market with a strike that is not positive is skipped.
StartRelative(e, strike) ==
    IF strike > 0 THEN StartEngine(e) ELSE UNCHANGED engine

\* The strike of a market that states none: the price of the time in its slug from
\* the cache, the kline if the cache is empty, or the last price.
RelativeMarket(e) ==
    \/ /\ e # Untimed
       /\ \E c \in Nearest(e) : StartRelative(e, c.at)
       /\ UNCHANGED cache
    \/ /\ e # Untimed /\ cache = {} /\ e <= now
       /\ StartRelative(e, Kline(e).at)
       /\ Record({Kline(e)})
    \/ /\ e # Untimed => cache = {}
       /\ StartRelative(e, mid)
       /\ UNCHANGED cache

\* fetch_event_markets answers: the event's market states its strike, or does not,
\* or is incomplete and skipped.
Fetched(r) ==
    LET e == radar[r].event
    IN  /\ radar[r].pc = "fetching"
        /\ radar' = [radar EXCEPT ![r] = IdleRadar]
        /\ slug' = e
        /\ \/ StartEngine(e) /\ UNCHANGED cache
           \/ RelativeMarket(e)
           \/ UNCHANGED <<cache, engine>>
        /\ UNCHANGED <<now, beat, feedVars, mid, radars>>

\* Gamma fails, or an end date cannot be parsed: the slug stays as it is.
FetchFails(r) ==
    /\ radar[r].pc = "fetching"
    /\ radar' = [radar EXCEPT ![r] = IdleRadar]
    /\ UNCHANGED <<now, beat, feedVars, priceVars, radars, slug, engine>>
-----------------------------------------------------------------------------
\* Time goes on when no heartbeat is due.
Clock ==
    /\ now < Horizon /\ now - beat < Period
    /\ now' = now + 1
    /\ UNCHANGED <<beat, feedVars, priceVars, engineVars>>

StreamStep    == Connected \/ NotConnected \/ Tick \/ StreamEnds
EngineStep(e) == EngineTick(e) \/ EngineSleep(e) \/ FeedLost(e) \/ EngineEnds(e)
RadarStep(r)  == WarmUp(r) \/ Fetched(r) \/ FetchFails(r)

Next ==
    \/ StreamStep \/ Heartbeat \/ Clock \/ Rotate
    \/ \E e \in Events : EngineStep(e) \/ EventStart(e)
    \/ \E r \in Radars : RadarStep(r)

Spec == Init /\ [][Next]_vars
-----------------------------------------------------------------------------
Times == 0..Horizon

TypeOK ==
    /\ now \in Opening..Horizon /\ beat \in Opening..now
    /\ stream \in {"connecting", "up", "dropped"}
    /\ failures \in 0..MaxRetries
    /\ ticker \in 0..now /\ mid \in 0..ticker /\ firstTick \in 0..ticker /\ silence \in Times
    /\ \A c \in cache : c.stamp \in Times /\ c.at \in 0..now
    /\ radar \in [Radars -> [pc : {"idle", "warming", "fetching"}, event : Events]]
    /\ slug \in Events /\ radars \in 0..MaxRadars
    /\ engine \in [Events -> [on : BOOLEAN, fresh : BOOLEAN]]

\* No price 0 is filed, though the channel starts with 0 and the Binance arm does not
\* test: no strike is ever taken from a quote that never was.
PricesAreReal == \A c \in cache : c.at > 0

\* "aligned with the official opening price" (btc_price.rs 38): when Binance has been
\* heard of for a heartbeat before the opening, and the cache still reaches back to
\* it, then a strike read from the cache is a price of the time around the opening:
\* at most a minute younger, and older by no more than a heartbeat and the longest
\* silence of the stream, whichever tasks file old prices under new times meanwhile.
StrikeNearOpen == \A r \in Radars :
    LET e == radar[r].event
    IN  /\ radar[r].pc = "fetching" /\ e # Untimed
        /\ firstTick # 0 /\ firstTick + Period < e
        /\ e <= now /\ now - e <= CacheMaxAge - Period
        => \A c \in Nearest(e) :
              c.at \in (e - Period - Larger(silence, now - ticker))..(e + Minute)
=============================================================================
