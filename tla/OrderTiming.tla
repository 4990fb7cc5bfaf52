---------------------------- MODULE OrderTiming ----------------------------
(***************************************************************************)
(* The clocks of one engine and of its try_fire tasks, src/src/engine.rs:  *)
(* the order timeout, the iceberg window, the 1.5 s wait for fills, the    *)
(* watchdog's limit on a pending state, the cooldown after a failure, and  *)
(* the loop's sleep arm, which select! creates anew on every turn: only a  *)
(* loop that nothing else has woken for LoopWait looks at the watchdog.    *)
(*                                                                         *)
(* Time is discrete and what is due happens before time goes on; the two   *)
(* position reads of a task and the one of the loop have no timeout.       *)
(* Whether there is an edge, a slot or a budget is left to chance.         *)
(***************************************************************************)
EXTENDS Integers, FiniteSets

CONSTANTS Tasks,              \* try_fire tasks that may overlap
          OrderTimeout,       \* env ORDER_TIMEOUT_SECS
          IcebergWindow,      \* ICEBERG_WINDOW_SECS
          FillWait,           \* the 1500 ms before the second read
          WatchdogLimit,      \* env PENDING_WATCHDOG_SECS
          LoopWait,           \* wait_duration
          Cooldown,           \* env ORDER_FAIL_COOLDOWN_SECS
          ReadTime            \* a read that takes longer is late

ASSUME TimingAssumption ==
    /\ OrderTimeout \in Nat /\ IcebergWindow \in 0..OrderTimeout /\ FillWait \in Nat
    /\ WatchdogLimit \in Nat /\ LoopWait \in Nat \ {0} /\ Cooldown \in Nat /\ ReadTime \in Nat

\* The watchdog's limit leaves room for a whole task: 8 s for reads within 0.75 s.
ASSUME RoomAssumption == 2 * ReadTime + OrderTimeout + FillWait <= WatchdogLimit

VARIABLES kind,               \* the position state; Looking: Holding, reading the position
          age,                \* time since entered_at, up to AgeCap
          cool,               \* what is left of the cooldown
          timer,              \* time since the loop's last turn
          quiet,              \* time since a turn other than the sleep arm's, up to LoopWait + 1
          task,               \* [pc, side, limit, clock, filled] of each task
          late,               \* a position read has taken longer than ReadTime
          sinceFail           \* time since a failure was last reported, up to Cooldown

vars == <<kind, age, cool, timer, quiet, task, late, sinceFail>>

AgeCap    == WatchdogLimit + LoopWait + 1
ClockCap  == OrderTimeout + FillWait + ReadTime + 1
Capped(n, cap) == IF n < cap THEN n ELSE cap

Pending == {"PendingBuy", "PendingSell"}
PendingOf(side) == IF side = "Buy" THEN "PendingBuy" ELSE "PendingSell"

(***************************************************************************)
(* idle      no task               before, after   reads the position      *)
(* order     waits for the answer  wait            waits for fills         *)
(* reported  its report is in the channel                                  *)
(***************************************************************************)
IdleTask == [pc |-> "idle", side |-> "Buy", limit |-> 0, clock |-> 0, filled |-> FALSE]
Busy     == {i \in Tasks : task[i].pc # "idle"}
Reading(i) == task[i].pc \in {"before", "after"}

Goto(i, l) == task' = [task EXCEPT ![i].pc = l, ![i].clock = 0]

\* A turn of the loop that is not the sleep arm's.
Turn == timer' = 0 /\ quiet' = 0

Init ==
    /\ kind \in {"Empty", "Holding"}
    /\ age = 0 /\ cool = 0 /\ timer = 0 /\ quiet = 0
    /\ task = [i \in Tasks |-> IdleTask]
    /\ late = FALSE
    /\ sinceFail = Cooldown
-----------------------------------------------------------------------------
\* tokio::spawn(try_fire(...)), and the pending state.
Spawn(i, side) ==
    /\ task[i].pc = "idle"
    /\ cool = 0
    /\ task' = [task EXCEPT ![i] = [IdleTask EXCEPT !.pc = "before", !.side = side]]
    /\ kind' = PendingOf(side)
    /\ age' = 0

\* A tick that changes nothing, or in Empty starts a buy.
FeedTick ==
    /\ kind # "Looking"
    /\ Turn
    /\ \/ kind # "Holding" /\ UNCHANGED <<kind, age, task>>
       \/ kind = "Empty" /\ \E i \in Tasks : Spawn(i, "Buy")
    /\ UNCHANGED <<cool, late, sinceFail>>

\* A tick in Holding: the loop waits for sync_current_position, then decides.
Look ==
    /\ kind = "Holding"
    /\ kind' = "Looking"
    /\ UNCHANGED <<age, cool, timer, quiet, task, late, sinceFail>>

Looked ==
    /\ kind = "Looking"
    /\ Turn
    /\ \/ kind' = "Holding" /\ UNCHANGED <<age, task>>
       \/ \E i \in Tasks : Spawn(i, "Sell")
    /\ UNCHANGED <<cool, late, sinceFail>>

\* Mutated form: only a pending buy is unlocked.
SleepArmForgetsSales ==
    /\ kind # "Looking"
    /\ timer = LoopWait
    /\ timer' = 0
    /\ IF kind = "PendingBuy" /\ age > WatchdogLimit
       THEN kind' = "Empty" /\ age' = 0
       ELSE UNCHANGED <<kind, age>>
    /\ UNCHANGED <<cool, quiet, task, late, sinceFail>>

\* Mutated form: the age of the state is not looked at.
SleepArmAlways ==
    /\ kind # "Looking"
    /\ timer = LoopWait
    /\ timer' = 0
    /\ IF kind \in Pending
       THEN kind' = (IF kind = "PendingBuy" THEN "Empty" ELSE "Holding") /\ age' = 0
       ELSE UNCHANGED <<kind, age>>
    /\ UNCHANGED <<cool, quiet, task, late, sinceFail>>

\* The sleep arm: a state that is pending for too long is unlocked.
SleepArm ==
    /\ kind # "Looking"
    /\ timer = LoopWait
    /\ timer' = 0
    /\ IF kind \in Pending /\ age > WatchdogLimit
       THEN kind' = (IF kind = "PendingBuy" THEN "Empty" ELSE "Holding") /\ age' = 0
       ELSE UNCHANGED <<kind, age>>
    /\ UNCHANGED <<cool, quiet, task, late, sinceFail>>

\* A report meets its pending state, or a filled buy an Empty one; any other is
\* dropped.
Heeded(i) ==
    \/ kind = PendingOf(task[i].side)
    \/ kind = "Empty" /\ task[i].side = "Buy" /\ task[i].filled

\* The state after a report that is heeded; a sale may leave a rest to hold.
Settled(i) ==
    IF task[i].side = "Buy" THEN {IF task[i].filled THEN "Holding" ELSE "Empty"}
    ELSE IF task[i].filled THEN {"Holding", "Empty"} ELSE {"Holding"}

\* Mutated form: a failed sale starts no cooldown.
HandleReportHasty(i) ==
    /\ kind # "Looking"
    /\ task[i].pc = "reported"
    /\ Turn
    /\ task' = [task EXCEPT ![i] = IdleTask]
    /\ sinceFail' = IF task[i].filled THEN sinceFail ELSE 0
    /\ cool' = IF ~Heeded(i) THEN cool
               ELSE IF task[i].filled \/ kind = "PendingSell" THEN 0 ELSE Cooldown
    /\ IF Heeded(i) THEN kind' \in Settled(i) /\ age' = 0 ELSE UNCHANGED <<kind, age>>
    /\ UNCHANGED late

\* The fill_rx arm: a failure that is heeded starts the cooldown, a fill ends it.
HandleReport(i) ==
    /\ kind # "Looking"
    /\ task[i].pc = "reported"
    /\ Turn
    /\ task' = [task EXCEPT ![i] = IdleTask]
    /\ sinceFail' = IF task[i].filled THEN sinceFail ELSE 0
    /\ cool' = IF ~Heeded(i) THEN cool ELSE IF task[i].filled THEN 0 ELSE Cooldown
    /\ IF Heeded(i) THEN kind' \in Settled(i) /\ age' = 0 ELSE UNCHANGED <<kind, age>>
    /\ UNCHANGED late
-----------------------------------------------------------------------------
(***************************************************************************)
(* try_fire.                                                               *)
(***************************************************************************)
loopVars == <<kind, age, cool, timer, quiet, late, sinceFail>>

\* The report of a failure, from the checks before the first read, an order that
\* is refused, or one that is not answered in time.
Fail(i) ==
    /\ \/ task[i].pc = "before" /\ task[i].clock = 0
       \/ task[i].pc = "order"
    /\ Goto(i, "reported")
    /\ UNCHANGED loopVars

\* The first read is over; the order goes out, in one piece or in chunks.
Post(i) ==
    /\ task[i].pc = "before"
    /\ \E w \in {OrderTimeout} \union {v \in {IcebergWindow} : task[i].side = "Buy"} :
        task' = [task EXCEPT ![i].pc = "order", ![i].limit = w, ![i].clock = 0]
    /\ UNCHANGED loopVars

\* The order is accepted while the task waits for it.
Placed(i) ==
    /\ task[i].pc = "order"
    /\ Goto(i, "wait")
    /\ UNCHANGED loopVars

WaitOver(i) ==
    /\ task[i].pc = "wait" /\ task[i].clock = FillWait
    /\ Goto(i, "after")
    /\ UNCHANGED loopVars

\* The second read tells what was filled.
ReadAgain(i) ==
    /\ task[i].pc = "after"
    /\ \E f \in BOOLEAN :
        task' = [task EXCEPT ![i].pc = "reported", ![i].clock = 0, ![i].filled = f]
    /\ UNCHANGED loopVars

TaskStep(i) == Fail(i) \/ Post(i) \/ Placed(i) \/ WaitOver(i) \/ ReadAgain(i)
-----------------------------------------------------------------------------
\* Nothing waits to happen now: no timeout is over, no arm of the loop is ready.
NothingDue ==
    /\ kind # "Looking" => timer < LoopWait /\ \A i \in Tasks : task[i].pc # "reported"
    /\ \A i \in Tasks : /\ task[i].pc = "order" => task[i].clock < task[i].limit
                        /\ task[i].pc = "wait" => task[i].clock < FillWait

\* Time goes on by one unit.  The sleep arm's timer runs only while select! is
\* polled.
Tick ==
    /\ NothingDue
    /\ timer' = IF kind = "Looking" THEN timer ELSE timer + 1
    /\ quiet' = Capped(quiet + 1, LoopWait + 1)
    /\ age' = IF kind \in Pending THEN Capped(age + 1, AgeCap) ELSE age
    /\ cool' = IF cool > 0 THEN cool - 1 ELSE 0
    /\ sinceFail' = Capped(sinceFail + 1, Cooldown)
    /\ task' = [i \in Tasks |->
           IF Reading(i) THEN [task[i] EXCEPT !.clock = Capped(@ + 1, ReadTime + 1)]
           ELSE IF task[i].pc \in {"order", "wait"} THEN [task[i] EXCEPT !.clock = @ + 1]
           ELSE task[i]]
    /\ late' = (late \/ \E i \in Tasks : Reading(i) /\ task[i].clock >= ReadTime)
    /\ UNCHANGED kind

Next ==
    \/ FeedTick \/ Look \/ Looked \/ SleepArm \/ Tick
    \/ \E i \in Tasks : HandleReport(i) \/ TaskStep(i)

Spec == Init /\ [][Next]_vars
-----------------------------------------------------------------------------
PCs == {"idle", "before", "order", "wait", "after", "reported"}

TypeOK ==
    /\ kind \in {"Empty", "Holding", "Looking"} \union Pending
    /\ age \in 0..AgeCap
    /\ cool \in 0..Cooldown
    /\ timer \in 0..LoopWait
    /\ quiet \in 0..LoopWait + 1
    /\ task \in [Tasks -> [pc : PCs, side : {"Buy", "Sell"}, limit : 0..OrderTimeout,
                           clock : 0..ClockCap, filled : BOOLEAN]]
    /\ late \in BOOLEAN
    /\ sinceFail \in 0..Cooldown

\* As long as no position read is late, the watchdog spares every order that still
\* runs: a task that runs, or whose report waits, finds its engine in the pending
\* state of its side, and it is the engine's only one.  With late reads a second
\* order joins the first, and the report of a sale may be dropped.
WatchdogSparesRunning == ~late =>
    \A i \in Busy : kind = PendingOf(task[i].side) /\ Busy = {i}

\* The watchdog reaches every pending state that is overdue, unless a feed wakes
\* the loop more often than every LoopWait: its limit is really the limit plus
\* the wait, and a busy feed suspends it.
QuietFeedUnlocks == kind \in Pending /\ age > WatchdogLimit + LoopWait => quiet <= LoopWait

\* After a failure was reported no order starts before the cooldown is over, as
\* long as no read is late.  (The watchdog's unlocking starts no cooldown.)
FailureRests ==
    [][(\E i \in Tasks : task[i].pc = "idle" /\ task'[i].pc # "idle")
            => late \/ sinceFail = Cooldown]_vars
=============================================================================
