-------------------------- MODULE MarketDataProofs --------------------------
(***************************************************************************)
(* That no price is ever filed that was not quoted, however the tasks that *)
(* write the cache interleave; and the arithmetic of a decision for all    *)
(* prices, probabilities and amounts.                                      *)
(***************************************************************************)
EXTENDS MarketData, Pricing, TLAPS

\* What the prices rest on: whoever has an unseen value has a real one.
FeedInv ==
    /\ now \in Opening..Horizon
    /\ ticker \in 0..now
    /\ radar \in [Radars -> [pc : {"idle", "warming", "fetching"}, event : Events]]
    /\ engine \in [Events -> [on : BOOLEAN, fresh : BOOLEAN]]
    /\ \A e \in Events : engine[e].fresh => ticker > 0

\* A kline of a warm-up was quoted.
LEMMA KlinesAreReal ==
    ASSUME FeedInv, NEW anchor \in (Events \ {Untimed}) \union (Opening..Horizon),
           NEW m \in Int, m >= MinuteOf(anchor) - (Klines - 1) * Minute
    PROVE  Kline(m).at > 0
<1>1. /\ Klines \in Nat /\ Minute \in Nat \ {0} /\ Opening \in Nat /\ now \in Nat /\ now > 0
    <2>1. Opening \in Nat /\ SlotLength \in Nat \ {0} /\ Horizon \in Int /\ SlotLength <= Opening
        BY TimeAssumption
    <2> QED
        BY <2>1, TimeAssumption DEF FeedInv
<1>2. MinuteOf(anchor) \in Nat /\ MinuteOf(anchor) >= Klines * Minute
    BY ClockAssumption
<1>3. Klines * Minute - (Klines - 1) * Minute = Minute
    BY <1>1
<1>4. (Klines - 1) * Minute \in Int /\ Klines * Minute \in Int
    BY <1>1
<1>5. m + Minute > 0
    <2> DEFINE a == Klines * Minute
               b == (Klines - 1) * Minute
               c == MinuteOf(anchor)
    <2>1. a - b = Minute /\ a \in Int /\ b \in Int /\ c \in Int /\ c >= a /\ m >= c - b
        BY <1>2, <1>3, <1>4
    <2> HIDE DEF a, b, c
    <2> QED
        BY <2>1, <1>1
<1> QED
    BY <1>1, <1>5 DEF Kline, Smaller

\* Filing real prices leaves none that is not.
LEMMA RecordsReal ==
    ASSUME PricesAreReal, NEW entries, Record(entries), \A c \in entries : c.at > 0
    PROVE  PricesAreReal'
BY DEF PricesAreReal, Record

LEMMA SetMidReal ==
    ASSUME PricesAreReal, NEW at, SetMid(at), at > 0
    PROVE  PricesAreReal'
<1>1. Record({[stamp |-> now, at |-> at]})
    BY DEF SetMid
<1> QED
    BY <1>1, RecordsReal

LEMMA SetMidIfRealReal ==
    ASSUME PricesAreReal, NEW at, SetMidIfReal(at)
    PROVE  PricesAreReal'
<1>1. CASE at > 0
    BY <1>1, SetMidReal DEF SetMidIfReal
<1>2. CASE ~(at > 0)
    BY <1>2 DEF SetMidIfReal, priceVars, PricesAreReal
<1> QED
    BY <1>1, <1>2

LEMMA FeedStep ==
    ASSUME FeedInv, [Next]_vars
    PROVE  FeedInv'
<1> USE DEF FeedInv
<1>1. CASE StreamStep
    BY <1>1 DEF StreamStep, Connected, NotConnected, Tick, StreamEnds, engineVars
<1>2. CASE Heartbeat
    BY <1>2 DEF Heartbeat, feedVars, engineVars
<1>3. CASE Clock
    BY <1>3, TimeAssumption DEF Clock, feedVars, engineVars
<1>4. ASSUME NEW r \in Radars, NEW e \in Events, StartRadar(r, e)
      PROVE  radar' \in [Radars -> [pc : {"idle", "warming", "fetching"}, event : Events]]
    BY <1>4 DEF StartRadar
<1>5. CASE Rotate
    <2>1. now \in Opening..Horizon
        OBVIOUS
    <2>2. SlotOf(now) \in Events /\ "autopilot" \in Radars
        BY <2>1 DEF Events, Radars
    <2>3. radar' \in [Radars -> [pc : {"idle", "warming", "fetching"}, event : Events]]
        BY <1>4, <1>5, <2>2 DEF Rotate
    <2> QED
        BY <1>5, <2>3 DEF Rotate, StartRadar, NoEngine, feedVars
<1>6. ASSUME NEW e \in Events, EngineStep(e)
      PROVE  FeedInv'
    <2>1. CASE EngineTick(e)
        BY <2>1 DEF EngineTick, feedVars
    <2>2. CASE EngineSleep(e)
        BY <2>2 DEF EngineSleep, feedVars, engineVars
    <2>3. CASE FeedLost(e) \/ EngineEnds(e)
        <3>1. /\ engine' = [engine EXCEPT ![e] = [on |-> FALSE, fresh |-> FALSE]]
              /\ UNCHANGED <<now, ticker, radar>>
            BY <2>3 DEF FeedLost, EngineEnds, NoEngine, feedVars
        <3> QED
            BY <3>1
    <2> QED
        BY <1>6, <2>1, <2>2, <2>3 DEF EngineStep
<1>7. ASSUME NEW e \in Events, EventStart(e)
      PROVE  FeedInv'
    <2>1. "http" \in Radars
        BY DEF Radars
    <2> QED
        BY <1>4, <1>7, <2>1 DEF EventStart, StartRadar, feedVars
<1>8. ASSUME NEW r \in Radars, RadarStep(r)
      PROVE  FeedInv'
    <2>1. CASE WarmUp(r)
        BY <2>1 DEF WarmUp, feedVars
    <2>2. CASE FetchFails(r)
        BY <2>2 DEF FetchFails, IdleRadar, Events, feedVars
    <2>3. CASE Fetched(r)
        <3> DEFINE e == radar[r].event
        <3>1. engine' \in [Events -> [on : BOOLEAN, fresh : BOOLEAN]]
              /\ \A x \in Events : engine'[x].fresh => ticker > 0
            <4>1. CASE StartEngine(e)
                BY <4>1 DEF StartEngine
            <4>2. CASE UNCHANGED engine
                BY <4>2
            <4> QED
                BY <2>3, <4>1, <4>2 DEF Fetched, RelativeMarket, StartRelative
        <3>2. radar' \in [Radars -> [pc : {"idle", "warming", "fetching"}, event : Events]]
            BY <2>3 DEF Fetched, IdleRadar, Events
        <3> QED
            BY <2>3, <3>1, <3>2 DEF Fetched, feedVars
    <2> QED
        BY <1>8, <2>1, <2>2, <2>3 DEF RadarStep
<1>9. CASE UNCHANGED vars
    BY <1>9 DEF vars, feedVars, engineVars
<1> QED
    BY <1>1, <1>2, <1>3, <1>5, <1>6, <1>7, <1>8, <1>9 DEF Next

LEMMA RealStep ==
    ASSUME FeedInv, PricesAreReal, [Next]_vars
    PROVE  PricesAreReal'
<1>0. UNCHANGED cache => PricesAreReal'
    BY DEF PricesAreReal
<1>1. CASE StreamStep
    BY <1>0, <1>1 DEF StreamStep, Connected, NotConnected, Tick, StreamEnds, priceVars
<1>2. CASE Heartbeat
    BY <1>2, SetMidIfRealReal DEF Heartbeat
<1>3. CASE Clock \/ Rotate
    BY <1>0, <1>3 DEF Clock, Rotate, StartRadar, priceVars
<1>4. ASSUME NEW e \in Events, EngineStep(e)
      PROVE  PricesAreReal'
    <2>1. CASE EngineTick(e)
        BY <2>1, SetMidReal DEF EngineTick, FeedInv
    <2>2. CASE EngineSleep(e)
        BY <2>2, SetMidIfRealReal DEF EngineSleep
    <2>3. CASE FeedLost(e) \/ EngineEnds(e)
        BY <1>0, <2>3 DEF FeedLost, EngineEnds, priceVars
    <2> QED
        BY <1>4, <2>1, <2>2, <2>3 DEF EngineStep
<1>5. ASSUME NEW e \in Events, EventStart(e)
      PROVE  PricesAreReal'
    BY <1>0, <1>5 DEF EventStart, StartRadar, priceVars
<1>6. ASSUME NEW r \in Radars, RadarStep(r)
      PROVE  PricesAreReal'
    <2> DEFINE e == radar[r].event
    <2>0. e \in Events /\ now \in Opening..Horizon
        BY DEF FeedInv
    <2>1. CASE WarmUp(r)
        <3> DEFINE t == IF e = Untimed THEN now ELSE e
                   opened == {m \in (MinuteOf(t) - (Klines - 1) * Minute)..Smaller(MinuteOf(t), now) :
                                 m % Minute = 0}
        <3>1. t \in (Events \ {Untimed}) \union (Opening..Horizon)
            BY <2>0
        <3>2. ASSUME NEW m \in opened
              PROVE  Kline(m).at > 0
            <4>1. m \in Int /\ m >= MinuteOf(t) - (Klines - 1) * Minute
                OBVIOUS
            <4> QED
                BY <3>1, <4>1, KlinesAreReal
        <3>3. \A c \in {Kline(m) : m \in opened} : c.at > 0
            BY <3>2
        <3>4. Record({Kline(m) : m \in opened}) \/ UNCHANGED cache
            BY <2>1 DEF WarmUp
        <3> QED
            BY <1>0, <3>3, <3>4, RecordsReal
    <2>2. CASE FetchFails(r)
        BY <1>0, <2>2 DEF FetchFails, priceVars
    <2>3. CASE Fetched(r)
        <3>1. CASE e # Untimed /\ Record({Kline(e)})
            <4>1. e \in Nat \ {0} /\ Minute \in Nat \ {0} /\ now \in Nat \ {0}
                BY <2>0, <3>1, ClockAssumption, TimeAssumption
            <4>2. Kline(e).at > 0
                BY <4>1 DEF Kline, Smaller
            <4>3. \A c \in {Kline(e)} : c.at > 0
                BY <4>2
            <4> QED
                BY <3>1, <4>3, RecordsReal
        <3> QED
            BY <1>0, <2>3, <3>1 DEF Fetched, RelativeMarket
    <2> QED
        BY <1>6, <2>1, <2>2, <2>3 DEF RadarStep
<1>7. CASE UNCHANGED vars
    BY <1>0, <1>7 DEF vars, priceVars
<1> QED
    BY <1>1, <1>2, <1>3, <1>4, <1>5, <1>6, <1>7 DEF Next

\* No strike comes from a quote that never was, whichever of the engines, the
\* heartbeat and the radars write the cache in whatever order.
THEOREM PricesSound == Spec => []PricesAreReal
<1>1. Init => FeedInv /\ PricesAreReal
    BY TimeAssumption DEF Init, FeedInv, PricesAreReal, IdleRadar, NoEngine, Events
<1>2. FeedInv /\ PricesAreReal /\ [Next]_vars => (FeedInv /\ PricesAreReal)'
    BY FeedStep, RealStep
<1> QED
    BY <1>1, <1>2, PTL DEF Spec
-----------------------------------------------------------------------------
(***************************************************************************)
(* Where the cached prices stand in time.  A price that a task filed under *)
(* the time of filing is older by no more than the longest silence; a      *)
(* kline is younger by no more than a minute.                              *)
(***************************************************************************)
Gap == Larger(silence, now - ticker)

Filed(c) ==
    /\ c.stamp \in 0..now /\ c.at \in 0..now
    /\ \/ ticker > 0 /\ c.at <= c.stamp /\ c.stamp - c.at <= Gap
       \/ c.stamp % Minute = 0 /\ c.at \in c.stamp..(c.stamp + Minute)

AllFiled == \A c \in cache : Filed(c)

StreamInv ==
    /\ stream \in {"connecting", "up", "dropped"}
    /\ failures \in 0..MaxRetries
    /\ stream = "up" => failures = 0
    /\ stream = "connecting" => failures < MaxRetries

TimeInv ==
    /\ beat \in Opening..now /\ now - beat <= Period
    /\ mid \in 0..ticker /\ firstTick \in 0..ticker /\ silence \in 0..now
    /\ ticker > 0 => firstTick >= Opening /\ firstTick > 0

RecordInv == slug \in Events /\ radars \in 0..MaxRadars

LEMMA Constants ==
    /\ Period \in Nat \ {0} /\ Minute \in Nat \ {0} /\ SlotLength \in Nat \ {0}
    /\ CacheMaxAge \in Nat \ {0} /\ Klines \in Nat \ {0} /\ MaxRetries \in Nat \ {0}
    /\ Opening \in Nat \ {0} /\ Horizon \in Nat \ {0} /\ MaxRadars \in Nat
    /\ Opening <= Horizon /\ Period <= Minute
<1>1. /\ {Period, Minute, SlotLength, CacheMaxAge, Klines, MaxRetries} \subseteq Nat \ {0}
      /\ {MaxRadars, Opening, Horizon} \subseteq Nat
    BY TimeAssumption
<1>2. Opening > 0
    BY <1>1, TimeAssumption
<1> QED BY <1>1, <1>2, TimeAssumption

LEMMA StreamInvStep == ASSUME StreamInv, [Next]_vars PROVE StreamInv'
<1> USE DEF StreamInv
<1>1. CASE Connected \/ Tick \/ StreamEnds
    BY <1>1, Constants DEF Connected, Tick, StreamEnds
<1>2. CASE NotConnected
    BY <1>2, Constants DEF NotConnected
<1>3. CASE UNCHANGED <<stream, failures>>
    BY <1>3
<1>4. Connected \/ Tick \/ StreamEnds \/ NotConnected \/ UNCHANGED <<stream, failures>>
    BY DEF Next, StreamStep, Heartbeat, Clock, Rotate, StartRadar, EngineStep, EngineTick,
           EngineSleep, FeedLost, EngineEnds, EventStart, RadarStep, WarmUp, Fetched,
           FetchFails, vars, feedVars
<1> QED BY <1>1, <1>2, <1>3, <1>4

LEMMA RecordInvStep == ASSUME FeedInv, RecordInv, [Next]_vars PROVE RecordInv'
<1> USE DEF RecordInv
<1>1. ASSUME NEW r, NEW e, StartRadar(r, e) PROVE RecordInv'
    BY <1>1, Constants DEF StartRadar
<1>2. ASSUME NEW r \in Radars, Fetched(r) PROVE RecordInv'
    BY <1>2 DEF Fetched, FeedInv
<1>3. CASE UNCHANGED <<slug, radars>>
    BY <1>3
<1>4. \/ UNCHANGED <<slug, radars>>
      \/ \E r, e : StartRadar(r, e)
      \/ \E r \in Radars : Fetched(r)
    BY DEF Next, StreamStep, Connected, NotConnected, Tick, StreamEnds, Heartbeat, Clock,
           Rotate, EngineStep, EngineTick, EngineSleep, FeedLost, EngineEnds, EventStart,
           RadarStep, WarmUp, FetchFails, vars, engineVars
<1> QED BY <1>1, <1>2, <1>3, <1>4

LEMMA TimeInvStep == ASSUME FeedInv, TimeInv, [Next]_vars PROVE TimeInv'
<1> USE Constants DEF FeedInv, TimeInv
<1>1. CASE Tick
    BY <1>1 DEF Tick, Larger, priceVars
<1>2. CASE Clock
    BY <1>2 DEF Clock, feedVars, priceVars
<1>3. CASE Heartbeat
    BY <1>3 DEF Heartbeat, SetMidIfReal, SetMid, feedVars, priceVars
<1>4. ASSUME NEW e \in Events, EngineTick(e) \/ EngineSleep(e) PROVE TimeInv'
    BY <1>4 DEF EngineTick, EngineSleep, SetMidIfReal, SetMid, feedVars, priceVars
<1>5. CASE UNCHANGED <<now, beat, ticker, mid, firstTick, silence>>
    BY <1>5
<1>6. \/ Tick \/ Clock \/ Heartbeat
      \/ \E e \in Events : EngineTick(e) \/ EngineSleep(e)
      \/ UNCHANGED <<now, beat, ticker, mid, firstTick, silence>>
    BY DEF Next, StreamStep, Connected, NotConnected, StreamEnds, Rotate, StartRadar,
           EngineStep, FeedLost, EngineEnds, EventStart, RadarStep, WarmUp, Fetched,
           FetchFails, vars, feedVars, priceVars
<1> QED BY <1>1, <1>2, <1>3, <1>4, <1>5, <1>6

\* Klines are filed under the minute they start at.
LEMMA KlineIsFiled ==
    ASSUME FeedInv, NEW m \in 0..now, m % Minute = 0 PROVE Filed(Kline(m))
BY Constants DEF FeedInv, Filed, Kline, Smaller

LEMMA MidIsFiled ==
    ASSUME FeedInv, TimeInv, ticker > 0
    PROVE  Filed([stamp |-> now, at |-> ticker])
BY Constants DEF FeedInv, TimeInv, Filed, Gap, Larger

\* The opening of a slot is the start of a minute.
LEMMA OpeningsAreMinutes == \A e \in Events \ {Untimed} : e \in Nat /\ e % Minute = 0
<1> TAKE e \in Events \ {Untimed}
<1>1. PICK t \in Opening..Horizon : e = SlotOf(t)
    BY DEF Events
<1> DEFINE k == t \div SlotLength
           j == SlotLength \div Minute
<1>2. k \in Nat /\ j \in Nat /\ SlotLength = j * Minute
    BY Constants, TimeAssumption
<1>3. e = k * (j * Minute)
    BY <1>1, <1>2 DEF SlotOf
<1> HIDE DEF k, j
<1>4. e = (k * j) * Minute /\ k * j \in Nat
    BY <1>2, <1>3, Constants
<1>5. \A n \in Nat : n * Minute \in Nat /\ (n * Minute) % Minute = 0
    BY Constants
<1> QED BY <1>4, <1>5
\* Whatever a step writes into the cache is filed as it should be.
LEMMA WritesAreFiled ==
    ASSUME FeedInv, TimeInv, [Next]_vars
    PROVE  UNCHANGED cache \/ \E entries : Record(entries) /\ \A c \in entries : Filed(c)
<1> DEFINE Goal == UNCHANGED cache \/ \E entries : Record(entries) /\ \A c \in entries : Filed(c)
<1>1. ASSUME NEW at, SetMid(at), at = ticker, ticker > 0 PROVE Goal
    <2>1. \A c \in {[stamp |-> now, at |-> ticker]} : Filed(c)
        BY <1>1, MidIsFiled
    <2>2. Record({[stamp |-> now, at |-> ticker]})
        BY <1>1 DEF SetMid
    <2> QED BY <2>1, <2>2
<1>2. CASE Heartbeat
    BY <1>1, <1>2 DEF Heartbeat, SetMidIfReal, priceVars
<1>3. ASSUME NEW e \in Events, EngineTick(e) \/ EngineSleep(e) PROVE Goal
    BY <1>1, <1>3 DEF EngineTick, EngineSleep, SetMidIfReal, priceVars, FeedInv
<1>4. ASSUME NEW r \in Radars, WarmUp(r) PROVE Goal
    <2> DEFINE t == IF radar[r].event = Untimed THEN now ELSE radar[r].event
               anchor == MinuteOf(t)
               opened == {m \in (anchor - (Klines - 1) * Minute)..Smaller(anchor, now) : m % Minute = 0}
    <2>1. UNCHANGED cache \/ Record({Kline(m) : m \in opened})
        BY <1>4 DEF WarmUp
    <2>2. anchor \in Nat /\ anchor >= Klines * Minute
        BY ClockAssumption DEF FeedInv
    <2>3. (Klines - 1) * Minute <= Klines * Minute /\ (Klines - 1) * Minute \in Nat /\ Klines * Minute \in Nat
        <3>1. Klines * Minute - (Klines - 1) * Minute = Minute
            BY Constants
        <3>2. (Klines - 1) * Minute \in Nat /\ Klines * Minute \in Nat
            BY Constants
        <3> QED BY <3>1, <3>2, Constants
    <2>4. \A m \in opened : m \in 0..now /\ m % Minute = 0
        <3> HIDE DEF anchor
        <3>1. \A l \in Nat : l <= anchor => anchor - l >= 0
            BY <2>2
        <3>2. anchor - (Klines - 1) * Minute >= 0
            BY <2>2, <2>3
        <3>3. now \in Nat /\ Smaller(anchor, now) <= now
            BY <2>2, Constants DEF FeedInv, Smaller
        <3> QED BY <3>2, <3>3, <2>2, <2>3 DEF Smaller
    <2> HIDE DEF opened
    <2>5. \A c \in {Kline(m) : m \in opened} : Filed(c)
        BY <2>4, KlineIsFiled
    <2> QED BY <2>1, <2>5
<1>5. ASSUME NEW r \in Radars, Fetched(r) PROVE Goal
    <2> DEFINE e == radar[r].event
    <2>1. e \in Events
        BY DEF FeedInv
    <2>2. \/ UNCHANGED cache
          \/ e # Untimed /\ e <= now /\ Record({Kline(e)})
        BY <1>5 DEF Fetched, RelativeMarket
    <2> HIDE DEF e
    <2>3. ASSUME e # Untimed, e <= now PROVE Filed(Kline(e))
        <3>1. e \in 0..now /\ e % Minute = 0
            BY <2>1, <2>3, OpeningsAreMinutes, Constants DEF FeedInv
        <3> QED BY <3>1, KlineIsFiled
    <2>4. CASE UNCHANGED cache
        BY <2>4
    <2>5. CASE e # Untimed /\ e <= now /\ Record({Kline(e)})
        <3>1. \A c \in {Kline(e)} : Filed(c)
            BY <2>3, <2>5
        <3> QED BY <2>5, <3>1
    <2> QED BY <2>2, <2>4, <2>5
<1>6. \/ Heartbeat \/ UNCHANGED cache
      \/ \E e \in Events : EngineTick(e) \/ EngineSleep(e)
      \/ \E r \in Radars : WarmUp(r) \/ Fetched(r)
    BY DEF Next, StreamStep, Connected, NotConnected, Tick, StreamEnds, Clock, Rotate,
           StartRadar, EngineStep, FeedLost, EngineEnds, EventStart, RadarStep, FetchFails,
           vars, priceVars
<1> QED BY <1>2, <1>3, <1>4, <1>5, <1>6

\* What is filed stays so: the longest silence only grows, and so does the time.
LEMMA FiledStays ==
    ASSUME FeedInv, TimeInv, [Next]_vars, NEW c, Filed(c) PROVE Filed(c)'
<1> USE Constants DEF FeedInv, TimeInv, Filed, Gap, Larger
<1>1. CASE Tick
    BY <1>1 DEF Tick
<1>2. CASE Clock
    BY <1>2 DEF Clock, feedVars
<1>3. CASE UNCHANGED <<now, ticker, silence>>
    BY <1>3
<1>4. Tick \/ Clock \/ UNCHANGED <<now, ticker, silence>>
    BY DEF Next, StreamStep, Connected, NotConnected, StreamEnds, Heartbeat, Rotate, StartRadar,
           EngineStep, EngineTick, EngineSleep, FeedLost, EngineEnds, EventStart, RadarStep,
           WarmUp, Fetched, FetchFails, vars, feedVars
<1> QED BY <1>1, <1>2, <1>3, <1>4

LEMMA AllFiledStep == ASSUME FeedInv, TimeInv, AllFiled, [Next]_vars PROVE AllFiled'
<1>1. \A c \in cache' : Filed(c)
    BY WritesAreFiled DEF AllFiled, Record
<1>2. ASSUME NEW c \in cache' PROVE Filed(c)'
    BY <1>1, <1>2, FiledStays
<1> QED BY <1>2 DEF AllFiled

MarketInv == FeedInv /\ StreamInv /\ TimeInv /\ RecordInv /\ AllFiled

LEMMA MarketInvariant == Spec => []MarketInv
<1>1. Init => MarketInv
    BY Constants DEF Init, MarketInv, FeedInv, StreamInv, TimeInv, RecordInv, AllFiled,
                     IdleRadar, NoEngine, Events
<1>2. MarketInv /\ [Next]_vars => MarketInv'
    BY FeedStep, StreamInvStep, TimeInvStep, RecordInvStep, AllFiledStep DEF MarketInv
<1> QED BY <1>1, <1>2, PTL DEF Spec

\* Type correctness of the feed, the cache, the radars and the engines.
THEOREM MarketTypes == Spec => []TypeOK
<1>1. MarketInv => TypeOK
    <2> SUFFICES ASSUME MarketInv PROVE TypeOK
        OBVIOUS
    <2> USE DEF MarketInv
    <2>1. silence \in Times /\ \A c \in cache : c.stamp \in Times /\ c.at \in 0..now
        BY Constants DEF FeedInv, TimeInv, AllFiled, Filed, Times
    <2> QED BY <2>1 DEF FeedInv, StreamInv, TimeInv, RecordInv, TypeOK
<1> QED BY <1>1, MarketInvariant, PTL
-----------------------------------------------------------------------------
(***************************************************************************)
(* The heartbeat leaves a price in every period, and the cache keeps it    *)
(* as long as it reaches back to it.                                       *)
(***************************************************************************)
Heard(t)    == firstTick # 0 /\ firstTick < t
Between(a, b) == \E c \in cache : c.stamp \in a..b

BeatFiled == (Heard(beat) /\ now - beat <= CacheMaxAge) => Between(beat, beat)

Covered == \A t \in Nat :
    (Heard(t - Period) /\ t < now /\ now - t <= CacheMaxAge - Period)
        => Between(t - Period + 1, t)

\* A write keeps what is young enough.
LEMMA YoungIsKept ==
    ASSUME FeedInv, TimeInv, AllFiled, [Next]_vars,
           NEW a \in Int, NEW b \in Int, Between(a, b), now - CacheMaxAge <= a
    PROVE  Between(a, b)'
<1>1. UNCHANGED cache \/ \E entries : Record(entries)
    BY WritesAreFiled
<1>2. PICK c \in cache : c.stamp \in a..b
    BY DEF Between
<1>3. c.stamp >= now - CacheMaxAge
    BY <1>2, Constants DEF FeedInv
<1>4. c \in cache'
    BY <1>1, <1>2, <1>3 DEF Record
<1> QED BY <1>2, <1>4 DEF Between

\* The numbers of a state.
LEMMA Numbers ==
    ASSUME FeedInv, TimeInv
    PROVE  /\ now \in Nat /\ beat \in Nat /\ ticker \in Nat /\ firstTick \in Nat
           /\ beat <= now /\ now - beat <= Period /\ firstTick <= ticker /\ ticker <= now
           /\ CacheMaxAge \in Nat /\ Period \in Nat \ {0}
           /\ (ticker > 0 <=> firstTick > 0)
BY Constants DEF FeedInv, TimeInv

LEMMA BeatFiledStep ==
    ASSUME FeedInv, TimeInv, AllFiled, BeatFiled, [Next]_vars PROVE BeatFiled'
<1> USE Numbers
<1>1. CASE Heartbeat
    <2>1. SUFFICES ASSUME firstTick # 0, firstTick < now PROVE Between(now, now)'
        BY <1>1 DEF Heartbeat, feedVars, BeatFiled, Heard
    <2>2. ticker > 0
        BY <2>1
    <2>3. Record({[stamp |-> now, at |-> ticker]})
        BY <1>1, <2>2 DEF Heartbeat, SetMidIfReal, SetMid
    <2>4. [stamp |-> now, at |-> ticker] \in cache' /\ now' = now
        BY <1>1, <2>3 DEF Heartbeat, Record
    <2>5. \E c \in cache' : c.stamp \in now..now
        BY <2>4
    <2> QED BY <2>4, <2>5 DEF Between
<1>2. CASE UNCHANGED beat /\ (firstTick' = firstTick \/ firstTick' = now) /\ now' >= now /\ now' \in Nat
    <2>1. SUFFICES ASSUME Heard(beat)', (now - beat <= CacheMaxAge)' PROVE Between(beat, beat)'
        BY <1>2 DEF BeatFiled
    <2>2. Heard(beat) /\ now - beat <= CacheMaxAge
        BY <1>2, <2>1 DEF Heard
    <2>3. Between(beat, beat)
        BY <2>2 DEF BeatFiled
    <2>4. beat \in Int /\ now - CacheMaxAge <= beat
        BY <2>2
    <2> QED BY <1>2, <2>3, <2>4, YoungIsKept DEF Between
<1>3. CASE Tick
    BY <1>2, <1>3 DEF Tick
<1>4. CASE Clock
    BY <1>2, <1>4 DEF Clock, feedVars
<1>5. CASE UNCHANGED <<now, beat, firstTick>>
    BY <1>2, <1>5
<1>6. Heartbeat \/ Tick \/ Clock \/ UNCHANGED <<now, beat, firstTick>>
    BY DEF Next, StreamStep, Connected, NotConnected, StreamEnds, Rotate, StartRadar,
           EngineStep, EngineTick, EngineSleep, FeedLost, EngineEnds, EventStart, RadarStep,
           WarmUp, Fetched, FetchFails, vars, feedVars
<1> QED BY <1>1, <1>3, <1>4, <1>5, <1>6

\* Time does not go on for a period without a heartbeat.
LEMMA CoveredStep ==
    ASSUME FeedInv, TimeInv, AllFiled, BeatFiled, Covered, [Next]_vars PROVE Covered'
<1> USE Numbers
<1>1. SUFFICES ASSUME NEW t \in Nat, Heard(t - Period)', t < now', now' - t <= CacheMaxAge - Period
               PROVE  Between(t - Period + 1, t)'
    BY DEF Covered
<1>2. ASSUME t < now, now <= now', now' \in Nat, Heard(t - Period)
      PROVE  Between(t - Period + 1, t)'
    <2>1. now - t <= CacheMaxAge - Period
        BY <1>1, <1>2
    <2>2. Between(t - Period + 1, t)
        BY <1>2, <2>1 DEF Covered
    <2>3. now - CacheMaxAge <= t - Period + 1
        BY <2>1
    <2> QED BY <2>2, <2>3, YoungIsKept
<1>3. CASE Clock
    <2>1. now' = now + 1 /\ firstTick' = firstTick /\ now - beat < Period
        BY <1>3 DEF Clock, feedVars
    <2>2. Heard(t - Period)
        BY <1>1, <2>1 DEF Heard
    <2>3. CASE t < now
        BY <1>2, <2>1, <2>2, <2>3
    <2>4. CASE t = now
        <3>1. Heard(beat) /\ now - beat <= CacheMaxAge
            BY <1>1, <2>1, <2>2, <2>4 DEF Heard
        <3>2. Between(beat, beat)
            BY <3>1 DEF BeatFiled
        <3>3. beat \in (t - Period + 1)..t
            BY <2>1, <2>4
        <3>4. Between(t - Period + 1, t)
            BY <3>2, <3>3 DEF Between
        <3>5. now - CacheMaxAge <= t - Period + 1
            BY <1>1, <2>1, <2>4
        <3> QED BY <3>4, <3>5, YoungIsKept
    <2> QED BY <1>1, <2>1, <2>3, <2>4
<1>4. CASE Tick
    <2>1. now' = now /\ (firstTick' = firstTick \/ firstTick' = now)
        BY <1>4 DEF Tick
    <2>2. firstTick' = firstTick
        BY <1>1, <2>1 DEF Heard
    <2>3. Heard(t - Period)
        BY <1>1, <2>2 DEF Heard
    <2> QED BY <1>1, <1>2, <2>1, <2>3
<1>5. CASE UNCHANGED <<now, firstTick>>
    BY <1>1, <1>2, <1>5 DEF Heard
<1>6. Tick \/ Clock \/ UNCHANGED <<now, firstTick>>
    BY DEF Next, StreamStep, Connected, NotConnected, StreamEnds, Heartbeat, Rotate, StartRadar,
           EngineStep, EngineTick, EngineSleep, FeedLost, EngineEnds, EventStart, RadarStep,
           WarmUp, Fetched, FetchFails, vars, feedVars
<1> QED BY <1>3, <1>4, <1>5, <1>6

\* Two starts of a minute are apart by a minute.
LEMMA MinutesApart ==
    \A m, e \in Nat : (m % Minute = 0 /\ e % Minute = 0 /\ m < e + Minute) => m <= e
<1> SUFFICES ASSUME NEW m \in Nat, NEW e \in Nat, m % Minute = 0, e % Minute = 0,
                    m < e + Minute, e < m
             PROVE  FALSE
    OBVIOUS
<1> DEFINE i == m \div Minute
           j == e \div Minute
<1>1. i \in Nat /\ j \in Nat /\ m = i * Minute /\ e = j * Minute
    BY Constants
<1> HIDE DEF i, j
<1>2. i > j
    BY <1>1, Constants
<1>3. PICK k \in Nat : i = j + 1 + k
    <2>1. i - j - 1 \in Nat /\ i = j + 1 + (i - j - 1)
        BY <1>1, <1>2
    <2> QED BY <2>1
<1>4. i * Minute = j * Minute + Minute + k * Minute /\ k * Minute \in Nat
    BY <1>1, <1>3, Constants
<1> QED BY <1>1, <1>4, Constants

\* The entries nearest to an opening that the cache covers.
LEMMA NearestIsNear ==
    ASSUME MarketInv, BeatFiled, Covered, NEW e \in Events \ {Untimed},
           firstTick # 0, firstTick + Period < e, e <= now, now - e <= CacheMaxAge - Period,
           NEW c \in Nearest(e)
    PROVE  c.at \in (e - Period - Gap)..(e + Minute)
<1> USE Constants DEF MarketInv, FeedInv, TimeInv
<1>1. e \in Nat /\ e % Minute = 0
    BY OpeningsAreMinutes
<1>2. c \in cache /\ \A d \in cache : Distance(c.stamp, e) <= Distance(d.stamp, e)
    BY DEF Nearest
<1>3. Filed(c)
    BY <1>2 DEF AllFiled
<1>4. c.stamp \in Nat /\ c.at \in Nat /\ c.stamp <= now /\ c.at <= now
    BY <1>3 DEF Filed
<1>5. Gap \in Nat
    BY DEF Gap, Larger
<1>6. Heard(e - Period)
    BY <1>1 DEF Heard
<1>7. c.stamp >= e - Period
    <2>1. Between(e - Period, e)
        <3>1. CASE e < now
            <4>1. Between(e - Period + 1, e)
                BY <1>1, <1>6, <3>1 DEF Covered
            <4> QED BY <1>1, <4>1 DEF Between
        <3>2. CASE e = now
            <4>1. Heard(beat) /\ now - beat <= CacheMaxAge
                BY <1>6, <3>2 DEF Heard
            <4>2. Between(beat, beat)
                BY <4>1 DEF BeatFiled
            <4> QED BY <3>2, <4>2 DEF Between
        <3> QED BY <1>1, <3>1, <3>2
    <2>2. PICK d \in cache : d.stamp \in (e - Period)..e
        BY <2>1 DEF Between
    <2>3. Distance(c.stamp, e) <= Distance(d.stamp, e)
        BY <1>2, <2>2
    <2> QED BY <1>1, <1>4, <2>2, <2>3 DEF Distance
<1>8. c.at >= e - Period - Gap
    BY <1>1, <1>3, <1>4, <1>5, <1>7 DEF Filed
<1>9. c.at <= e + Minute
    <2>1. CASE e = now
        BY <1>1, <1>4, <2>1
    <2>2. CASE e < now
        <3>1. Between(e - Period + 1, e)
            BY <1>1, <1>6, <2>2 DEF Covered
        <3>2. PICK d \in cache : d.stamp \in (e - Period + 1)..e
            BY <3>1 DEF Between
        <3>3. c.stamp < e + Period
            <4>1. Distance(c.stamp, e) <= Distance(d.stamp, e)
                BY <1>2, <3>2
            <4> QED BY <1>1, <1>4, <3>2, <4>1 DEF Distance
        <3>4. CASE c.at <= c.stamp
            BY <1>1, <1>4, <3>3, <3>4
        <3>5. CASE c.stamp % Minute = 0 /\ c.at <= c.stamp + Minute
            <4>1. c.stamp <= e
                BY <1>1, <1>4, <3>3, <3>5, MinutesApart
            <4> QED BY <1>1, <1>4, <3>5, <4>1
        <3> QED BY <1>3, <3>4, <3>5 DEF Filed
    <2> QED BY <1>1, <2>1, <2>2
<1> QED BY <1>1, <1>4, <1>5, <1>8, <1>9

\* "aligned with the official opening price" (btc_price.rs 38): for any lengths of the
\* periods, any silence of the stream and any mix of writers, a strike read from the
\* cache is a price of the time around the opening.
THEOREM StrikeSound == Spec => []StrikeNearOpen
<1>1. Init => BeatFiled /\ Covered
    BY DEF Init, BeatFiled, Covered, Heard
<1>2. MarketInv /\ BeatFiled /\ Covered /\ [Next]_vars => BeatFiled' /\ Covered'
    BY BeatFiledStep, CoveredStep DEF MarketInv
<1>3. MarketInv /\ BeatFiled /\ Covered => StrikeNearOpen
    <2> SUFFICES ASSUME MarketInv, BeatFiled, Covered, NEW r \in Radars,
                        radar[r].event # Untimed,
                        firstTick # 0, firstTick + Period < radar[r].event,
                        radar[r].event <= now,
                        now - radar[r].event <= CacheMaxAge - Period,
                        NEW c \in Nearest(radar[r].event)
                 PROVE  c.at \in (radar[r].event - Period - Gap)..(radar[r].event + Minute)
        BY DEF StrikeNearOpen, Gap
    <2>1. radar[r].event \in Events \ {Untimed}
        BY DEF MarketInv, FeedInv
    <2> QED BY <2>1, NearestIsNear
<1>4. Spec => [](MarketInv /\ BeatFiled /\ Covered)
    BY <1>1, <1>2, MarketInvariant, PTL DEF Spec
<1> QED BY <1>3, <1>4, PTL
-----------------------------------------------------------------------------
LEMMA CeilBounds ==
    ASSUME NEW a \in Nat, NEW b \in {300, 500}
    PROVE  /\ CeilDiv(a, b) \in Nat
           /\ a <= CeilDiv(a, b) * b
           /\ a > 0 => CeilDiv(a, b) * b < a + b
<1>1. CASE b = 300
    BY <1>1 DEF CeilDiv
<1>2. CASE b = 500
    BY <1>2 DEF CeilDiv
<1> QED
    BY <1>1, <1>2

\* Whatever is bought, its chunks stay within $5 and above $2.50, and from $6 on
\* above $3.
THEOREM IcebergSound == ChunksInBounds
<1> SUFFICES ASSUME NEW total \in Amounts
             PROVE  /\ total <= Chunks(total) * ICEBERG_CHUNK_MAX
                    /\ total > ICEBERG_THRESHOLD => total > 250 * Chunks(total)
                    /\ total >= 2 * ICEBERG_CHUNK_MIN => total >= Chunks(total) * ICEBERG_CHUNK_MIN
    BY DEF ChunksInBounds
<1> USE DEF ICEBERG_THRESHOLD, ICEBERG_CHUNK_MIN, ICEBERG_CHUNK_MAX
<1> DEFINE n == CeilDiv(total, 500)
           k == CeilDiv(total, 300)
<1>1. total \in Nat
    BY PricingAssumption
<1>2. n \in Nat /\ total <= n * 500 /\ (total > 0 => n * 500 < total + 500)
    BY <1>1, CeilBounds
<1>3. k \in Nat /\ total <= k * 300 /\ (total > 0 => k * 300 < total + 300)
    BY <1>1, CeilBounds
<1>4. Chunks(total) = IF total <= 500 THEN 1 ELSE IF total < n * 300 THEN k ELSE n
    BY DEF Chunks
<1> HIDE DEF n, k
<1>5. CASE total <= 500
    BY <1>1, <1>4, <1>5
<1>6. CASE total > 500 /\ total < n * 300
    <2>1. n = 2
        BY <1>1, <1>2, <1>6
    <2>2. k = 2
        BY <1>1, <1>3, <1>6, <2>1
    <2> QED BY <1>1, <1>4, <1>6, <2>1, <2>2
<1>7. CASE total > 500 /\ total >= n * 300
    BY <1>1, <1>2, <1>4, <1>7
<1> QED
    BY <1>1, <1>2, <1>5, <1>6, <1>7

\* The choice between the sides for all books and valuations.
THEOREM ChoiceSound == BetterSideBought
<1> SUFFICES ASSUME NEW fv \in Quotes, NEW askYes \in Quotes, NEW askNo \in Quotes,
                    NEW relative \in BOOLEAN
             PROVE  LET yes == BuyEdge(fv, askYes)
                        no  == BuyEdge(One - fv, askNo)
                        c   == Choice(fv, askYes, askNo, relative)
                    IN  /\ c = "YES" => yes >= no
                        /\ c = "NO" => no > yes \/ askYes > MAX_BUY_PRICE
                        /\ c # "none" /\ askYes + askNo >= One => yes <= 0 \/ no <= 0
    BY DEF BetterSideBought
<1>1. fv \in 0..One /\ askYes \in 0..One /\ askNo \in 0..One
    BY PricingAssumption
<1> QED
    BY <1>1 DEF Choice, Buyable, BuyEdge, NoEdge, EnterThreshold, ENTER_THRESHOLD,
                RELATIVE_OFFSET, MAX_BUY_PRICE, One

\* No book and no valuation makes an engine sell at once what it just bought.
THEOREM NoCircles == RoundTripRefused
<1> SUFFICES ASSUME NEW raw \in Quotes, NEW askYes \in Quotes, NEW askNo \in Quotes,
                    NEW bid \in Quotes, NEW left \in Lefts,
                    NEW above \in BOOLEAN, NEW relative \in BOOLEAN
             PROVE  LET fv == FairYes(raw, above, FALSE, left)
                        c  == Choice(fv, askYes, askNo, relative)
                    IN  /\ c = "YES" /\ bid <= askYes => ~Sells(fv, bid, askYes)
                        /\ c = "NO" /\ bid <= askNo => ~Sells(One - fv, bid, askNo)
    BY DEF RoundTripRefused
<1> DEFINE fv == FairYes(raw, above, FALSE, left)
<1>1. askYes \in 0..One /\ askNo \in 0..One /\ bid \in 0..One
    BY PricingAssumption
<1>2. fv \in Int
    BY PricingAssumption DEF FairYes, One, MAX_FV_SHORT_DATED
<1> HIDE DEF fv
<1>3. \A v \in Int, ask \in 0..One :
          Buyable(BuyEdge(v, ask), ask, relative) /\ bid <= ask => ~Sells(v, bid, ask)
    BY <1>1 DEF Buyable, BuyEdge, SellEdge, Sells, NoEdge, EnterThreshold, ENTER_THRESHOLD,
                RELATIVE_OFFSET, EXIT_THRESHOLD, MIN_PROFIT, MAX_BUY_PRICE, One
<1>4. One - fv \in Int
    BY <1>2 DEF One
<1>5. Choice(fv, askYes, askNo, relative) = "YES" => Buyable(BuyEdge(fv, askYes), askYes, relative)
    BY DEF Choice
<1>6. Choice(fv, askYes, askNo, relative) = "NO" => Buyable(BuyEdge(One - fv, askNo), askNo, relative)
    BY DEF Choice
<1> QED
    BY <1>1, <1>2, <1>3, <1>4, <1>5, <1>6 DEF fv
=============================================================================
