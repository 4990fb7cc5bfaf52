------------------------- MODULE OrderTimingProofs -------------------------
(***************************************************************************)
(* What is proved of the clocks of an engine, for all limits that leave    *)
(* room for a whole task (RoomAssumption) and any number of tasks.         *)
(***************************************************************************)
EXTENDS OrderTiming, TLAPS

\* Each step of a task ends within its limit; only a late read does not.
ClockInv == \A i \in Tasks :
    /\ task[i].pc = "order" => task[i].clock <= task[i].limit
    /\ task[i].pc = "wait" => task[i].clock <= FillWait
    /\ Reading(i) => task[i].clock <= ReadTime + 1
    /\ Reading(i) /\ ~late => task[i].clock <= ReadTime

\* How old a task may be, by the step it is at.
Elapsed(i) ==
    CASE task[i].pc = "before"   -> task[i].clock
      [] task[i].pc = "order"    -> ReadTime + task[i].clock
      [] task[i].pc = "wait"     -> ReadTime + OrderTimeout + task[i].clock
      [] task[i].pc = "after"    -> ReadTime + OrderTimeout + FillWait + task[i].clock
      [] task[i].pc = "reported" -> 2 * ReadTime + OrderTimeout + FillWait
      [] OTHER                   -> 0

\* The pending state is as old as its task, so it is never older than the limit.
RoomInv == ~late => \A i \in Tasks : task[i].pc # "idle" =>
    /\ kind = PendingOf(task[i].side)
    /\ \A j \in Tasks : task[j].pc # "idle" => j = i
    /\ age <= Elapsed(i)

\* The last turn that saw an overdue state was not the sleep arm's.
QuietInv == kind \in Pending /\ age > WatchdogLimit =>
    quiet = timer \/ age - timer <= WatchdogLimit

\* The cooldown lasts at least until the last failure is Cooldown ago, and no
\* task runs in it.
RestInv == ~late =>
    /\ cool + sinceFail >= Cooldown
    /\ \A i \in Tasks : task[i].pc # "idle" => cool = 0 /\ sinceFail = Cooldown

TimingInv == TypeOK /\ ClockInv /\ RoomInv /\ QuietInv /\ RestInv

TaskType == [pc : PCs, side : {"Buy", "Sell"}, limit : 0..OrderTimeout,
             clock : 0..ClockCap, filled : BOOLEAN]

LEMMA IdleIsTask == IdleTask \in TaskType /\ IdleTask.pc = "idle" /\ IdleTask.clock = 0
<1>1. 0 \in 0..OrderTimeout /\ 0 \in 0..ClockCap
    BY TimingAssumption DEF ClockCap
<1> QED
    BY <1>1 DEF IdleTask, TaskType, PCs

LEMMA TimingInit == ASSUME Init PROVE TimingInv
<1> USE TimingAssumption DEF Init, IdleTask
<1>1. TypeOK
    <2>1. task \in [Tasks -> TaskType]
        BY IdleIsTask DEF Init
    <2>2. cool \in 0..Cooldown /\ sinceFail \in 0..Cooldown /\ age \in 0..AgeCap
        BY DEF AgeCap
    <2>3. timer \in 0..LoopWait /\ quiet \in 0..LoopWait + 1
        OBVIOUS
    <2> QED
        BY <2>1, <2>2, <2>3 DEF TypeOK, TaskType
<1>2. ClockInv /\ RoomInv /\ QuietInv /\ RestInv
    BY DEF ClockInv, RoomInv, QuietInv, RestInv, Reading, Pending
<1> QED
    BY <1>1, <1>2 DEF TimingInv

\* A buy or a sale starts: the cooldown is over, and no other task runs unless a
\* read was late.
LEMMA SpawnKeeps ==
    ASSUME TimingInv, NEW i \in Tasks, NEW side \in {"Buy", "Sell"}, Spawn(i, side),
           kind \in {"Empty", "Looking"}, Turn, UNCHANGED <<cool, late, sinceFail>>
    PROVE  TimingInv' /\ (late \/ sinceFail = Cooldown)
<1> DEFINE q == [IdleTask EXCEPT !.pc = "before", !.side = side]
<1> USE TimingAssumption DEF TimingInv, TypeOK, Pending
<1>0. /\ q.pc = "before" /\ q.side = side /\ q.clock = 0
      /\ q \in TaskType
      /\ task' = [task EXCEPT ![i] = q]
    <2>1. q \in TaskType
        BY IdleIsTask DEF TaskType, PCs
    <2>2. q.pc = "before" /\ q.side = side /\ q.clock = 0
        BY DEF IdleTask
    <2> QED
        BY <2>1, <2>2 DEF Spawn
<1>1. TypeOK'
    BY <1>0 DEF Spawn, Turn, PendingOf, AgeCap, TaskType
<1>2. ClockInv'
    BY <1>0 DEF Spawn, ClockInv, Reading
<1>3. ~late => \A j \in Tasks : task[j].pc = "idle"
    BY DEF RoomInv, PendingOf
<1>4. RoomInv'
    BY <1>0, <1>3 DEF Spawn, RoomInv, Elapsed
<1>5. QuietInv'
    BY DEF Spawn, QuietInv
<1>6. ~late => sinceFail = Cooldown
    BY DEF Spawn, RestInv
<1>7. RestInv'
    BY <1>0, <1>6 DEF Spawn, RestInv
<1> QED
    BY <1>1, <1>2, <1>4, <1>5, <1>6, <1>7

\* The state or the loop's timers change and no task does.
LEMMA LoopKeeps ==
    ASSUME TimingInv, UNCHANGED <<task, cool, late, sinceFail>>, TypeOK', QuietInv',
           ~late /\ (\E i \in Tasks : task[i].pc # "idle") => UNCHANGED <<kind, age>>
    PROVE  TimingInv'
<1> USE DEF TimingInv
<1>1. ClockInv' /\ RestInv'
    BY DEF ClockInv, RestInv, Reading
<1>2. RoomInv'
    BY DEF RoomInv, Elapsed, PendingOf
<1> QED
    BY <1>1, <1>2

LEMMA FeedTickKeeps ==
    ASSUME TimingInv, FeedTick PROVE TimingInv'
<1>1. CASE kind # "Holding" /\ UNCHANGED <<kind, age, task>>
    <2>1. TypeOK' /\ QuietInv'
        BY <1>1, TimingAssumption DEF FeedTick, Turn, TimingInv, TypeOK, QuietInv
    <2> QED
        BY <1>1, <2>1, LoopKeeps DEF FeedTick
<1>2. CASE kind = "Empty" /\ \E i \in Tasks : Spawn(i, "Buy")
    BY <1>2, SpawnKeeps DEF FeedTick
<1> QED
    BY <1>1, <1>2 DEF FeedTick

LEMMA LookKeeps ==
    ASSUME TimingInv, Look PROVE TimingInv'
<1>1. TypeOK' /\ QuietInv'
    BY DEF Look, TimingInv, TypeOK, QuietInv, Pending
<1>2. ~late => \A i \in Tasks : task[i].pc = "idle"
    BY DEF Look, TimingInv, RoomInv, PendingOf
<1> QED
    BY <1>1, <1>2, LoopKeeps DEF Look

LEMMA LookedKeeps ==
    ASSUME TimingInv, Looked PROVE TimingInv'
<1>1. CASE kind' = "Holding" /\ UNCHANGED <<age, task>>
    <2>1. TypeOK' /\ QuietInv'
        BY <1>1, TimingAssumption DEF Looked, Turn, TimingInv, TypeOK, QuietInv, Pending
    <2>2. ~late => \A i \in Tasks : task[i].pc = "idle"
        BY DEF Looked, TimingInv, RoomInv, PendingOf
    <2> QED
        BY <1>1, <2>1, <2>2, LoopKeeps DEF Looked
<1>2. CASE \E i \in Tasks : Spawn(i, "Sell")
    BY <1>2, SpawnKeeps DEF Looked
<1> QED
    BY <1>1, <1>2 DEF Looked

\* A task that runs is younger than the watchdog's limit.
LEMMA TaskIsYoung ==
    ASSUME TimingInv, ~late, NEW i \in Tasks, task[i].pc # "idle"
    PROVE  age <= WatchdogLimit
<1> USE TimingAssumption, RoomAssumption DEF TimingInv, TypeOK
<1>1. age <= Elapsed(i)
    BY DEF RoomInv
<1>2. Elapsed(i) <= 2 * ReadTime + OrderTimeout + FillWait
    BY DEF Elapsed, ClockInv, Reading, PCs
<1>3. age \in Int /\ Elapsed(i) \in Int
    BY DEF AgeCap, Elapsed, ClockCap
<1> QED
    BY <1>1, <1>2, <1>3

LEMMA SleepArmKeeps ==
    ASSUME TimingInv, SleepArm PROVE TimingInv'
<1>1. TypeOK' /\ QuietInv'
    BY TimingAssumption DEF SleepArm, TimingInv, TypeOK, QuietInv, Pending, AgeCap
<1>2. ~late /\ (\E i \in Tasks : task[i].pc # "idle") => UNCHANGED <<kind, age>>
    BY TaskIsYoung, TimingAssumption DEF SleepArm, TimingInv, TypeOK, AgeCap
<1> QED
    BY <1>1, <1>2, LoopKeeps DEF SleepArm

LEMMA HandleReportKeeps ==
    ASSUME TimingInv, NEW i \in Tasks, HandleReport(i) PROVE TimingInv'
<1> USE TimingAssumption DEF TimingInv, TypeOK, Pending
<1>0. IdleTask \in TaskType /\ IdleTask.pc = "idle"
    BY IdleIsTask
<1>1. task' = [task EXCEPT ![i] = IdleTask] /\ late' = late /\ task[i].pc = "reported"
    BY DEF HandleReport
<1>2. TypeOK'
    BY <1>0, <1>1 DEF HandleReport, Turn, Settled, TaskType, AgeCap
<1>3. ClockInv'
    BY <1>0, <1>1 DEF ClockInv, Reading
<1>4. ~late => \A j \in Tasks : task'[j].pc = "idle"
    BY <1>0, <1>1 DEF RoomInv
<1>5. QuietInv'
    BY DEF HandleReport, Turn, QuietInv
<1>6. RestInv'
    <2>1. ~late => Heeded(i) /\ sinceFail = Cooldown
        BY <1>1 DEF RoomInv, RestInv, Heeded
    <2> QED
        BY <1>1, <1>4, <2>1 DEF HandleReport, RestInv
<1> QED
    BY <1>1, <1>2, <1>3, <1>4, <1>5, <1>6 DEF RoomInv

\* A task moves on within the time it has, and its engine does nothing.
LEMMA TaskStepKeeps ==
    ASSUME TimingInv, NEW i \in Tasks, TaskStep(i) PROVE TimingInv'
<1> USE TimingAssumption DEF TimingInv, TypeOK
<1> DEFINE To(l, w, f) == [task[i] EXCEPT !.pc = l, !.limit = w, !.clock = 0, !.filled = f]
           Moves == {<<"before", "reported">>, <<"order", "reported">>, <<"before", "order">>,
                     <<"order", "wait">>, <<"wait", "after">>, <<"after", "reported">>}
<1>a. /\ task[i] \in TaskType
      /\ task[i].limit \in 0..OrderTimeout /\ task[i].filled \in BOOLEAN
    BY DEF TaskType
<1>b. ASSUME NEW l \in PCs, Goto(i, l)
      PROVE  task' = [task EXCEPT ![i] = To(l, task[i].limit, task[i].filled)]
    BY <1>a, <1>b DEF Goto, TaskType
<1>c. PICK l \in PCs, w \in 0..OrderTimeout, f \in BOOLEAN :
        task' = [task EXCEPT ![i] = To(l, w, f)] /\ <<task[i].pc, l>> \in Moves
    <2>1. CASE Fail(i)
        BY <1>a, <1>b, <2>1 DEF Fail, PCs
    <2>2. CASE Post(i)
        <3>1. PICK w \in {OrderTimeout, IcebergWindow} :
                task' = [task EXCEPT ![i].pc = "order", ![i].limit = w, ![i].clock = 0]
            BY <2>2 DEF Post
        <3>2. task' = [task EXCEPT ![i] = To("order", w, task[i].filled)]
            BY <1>a, <3>1 DEF TaskType
        <3>3. w \in 0..OrderTimeout
            OBVIOUS
        <3> QED
            BY <1>a, <2>2, <3>2, <3>3 DEF Post, PCs
    <2>3. CASE Placed(i)
        BY <1>a, <1>b, <2>3 DEF Placed, PCs
    <2>4. CASE WaitOver(i)
        BY <1>a, <1>b, <2>4 DEF WaitOver, PCs
    <2>5. CASE ReadAgain(i)
        <3>1. PICK f \in BOOLEAN :
                task' = [task EXCEPT ![i].pc = "reported", ![i].clock = 0, ![i].filled = f]
            BY <2>5 DEF ReadAgain
        <3>2. task' = [task EXCEPT ![i] = To("reported", task[i].limit, f)]
            BY <1>a, <3>1 DEF TaskType
        <3> QED
            BY <1>a, <2>5, <3>2 DEF ReadAgain, PCs
    <2> QED
        BY <2>1, <2>2, <2>3, <2>4, <2>5 DEF TaskStep
<1> DEFINE q == To(l, w, f)
<1>1. /\ task' = [task EXCEPT ![i] = q] /\ q \in TaskType
      /\ q.pc = l /\ q.side = task[i].side /\ q.clock = 0
      /\ <<task[i].pc, q.pc>> \in Moves
    <2>1. 0 \in 0..ClockCap
        BY DEF ClockCap
    <2> QED
        BY <1>a, <1>c, <2>1 DEF TaskType
<1>2. UNCHANGED loopVars
    BY DEF TaskStep, Fail, Post, Placed, WaitOver, ReadAgain
<1>3. task[i].pc # "idle" /\ q.pc # "idle"
    BY <1>1
<1>4. TypeOK' /\ QuietInv'
    BY <1>1, <1>2 DEF loopVars, QuietInv, TaskType
<1>5. ClockInv'
    BY <1>1, <1>2 DEF loopVars, ClockInv, Reading, TaskType
<1>6. RestInv'
    BY <1>1, <1>2, <1>3 DEF loopVars, RestInv
<1>7. RoomInv'
    <2>1. SUFFICES ASSUME ~late, NEW j \in Tasks, task'[j].pc # "idle"
                   PROVE  j = i /\ kind = PendingOf(task'[i].side) /\ age <= Elapsed(i)'
        BY <1>1, <1>2, <1>3 DEF loopVars, RoomInv
    <2>2. j = i /\ kind = PendingOf(task'[i].side) /\ age <= Elapsed(i)
        BY <1>1, <1>3, <2>1 DEF RoomInv
    <2>3. Elapsed(i) <= Elapsed(i)'
        BY <1>1, <2>1 DEF Elapsed, ClockInv, Reading, ClockCap
    <2>4. age \in Int /\ Elapsed(i) \in Int /\ Elapsed(i)' \in Int
        BY <1>1 DEF AgeCap, Elapsed, ClockCap
    <2> QED
        BY <2>2, <2>3, <2>4
<1> QED
    BY <1>4, <1>5, <1>6, <1>7

LEMMA TickKeeps ==
    ASSUME TimingInv, Tick PROVE TimingInv'
<1> USE TimingAssumption DEF TimingInv, TypeOK
<1> DEFINE t(i) == task'[i]
<1>1. \A i \in Tasks :
        /\ t(i).pc = task[i].pc /\ t(i).side = task[i].side /\ t(i).limit = task[i].limit
        /\ t(i).clock = IF Reading(i) THEN Capped(task[i].clock + 1, ReadTime + 1)
                        ELSE IF task[i].pc \in {"order", "wait"} THEN task[i].clock + 1
                        ELSE task[i].clock
        /\ t(i).filled = task[i].filled
    BY DEF Tick
<1>2. ASSUME NEW i \in Tasks PROVE t(i) \in TaskType
    <2>1. task[i] \in TaskType
        BY DEF TaskType
    <2>2. t(i).clock \in 0..ClockCap
        BY <1>1 DEF Tick, NothingDue, ClockCap, Capped, Reading
    <2>3. t(i) = [task[i] EXCEPT !.clock = t(i).clock]
        BY <2>1 DEF Tick, TaskType
    <2> QED
        BY <2>1, <2>2, <2>3 DEF TaskType
<1>3. TypeOK'
    <2>1. task' \in [Tasks -> TaskType]
        BY <1>2 DEF Tick
    <2>2. /\ kind' = kind
          /\ age' \in 0..AgeCap /\ cool' \in 0..Cooldown /\ sinceFail' \in 0..Cooldown
          /\ timer' \in 0..LoopWait /\ quiet' \in 0..LoopWait + 1 /\ late' \in BOOLEAN
        BY DEF Tick, NothingDue, Capped, AgeCap
    <2> QED
        BY <2>1, <2>2 DEF TaskType
<1>4. ~late' => ~late /\ \A i \in Tasks : Reading(i) => task[i].clock < ReadTime
    <2>1. late' = (late \/ \E i \in Tasks : Reading(i) /\ task[i].clock >= ReadTime)
        BY DEF Tick
    <2>2. ~late' => ~late /\ \A i \in Tasks : Reading(i) => ~(task[i].clock >= ReadTime)
        BY ONLY <2>1, Zenon
    <2>3. \A i \in Tasks : task[i].clock \in Int
        BY DEF ClockCap
    <2>4. \A i \in Tasks : ~(task[i].clock >= ReadTime) => task[i].clock < ReadTime
        BY <2>3
    <2> QED
        BY <2>2, <2>4
<1>5. ClockInv'
    <2>1. \A i \in Tasks : Reading(i)' <=> Reading(i)
        BY <1>1 DEF Reading
    <2> QED
        BY <1>1, <1>4, <2>1 DEF Tick, NothingDue, ClockInv, Capped, Reading, ClockCap
<1>6. RoomInv'
    <2>1. SUFFICES ASSUME ~late', NEW i \in Tasks, t(i).pc # "idle"
                   PROVE  /\ kind = PendingOf(task[i].side)
                          /\ \A j \in Tasks : task[j].pc # "idle" => j = i
                          /\ age' <= Elapsed(i)'
        BY <1>1 DEF RoomInv, Tick, PendingOf
    <2>2. /\ kind = PendingOf(task[i].side) /\ age <= Elapsed(i)
          /\ \A j \in Tasks : task[j].pc # "idle" => j = i
        BY <1>1, <1>4, <2>1 DEF RoomInv
    <2>3. task[i].pc # "reported"
        BY <2>2 DEF Tick, NothingDue, PendingOf
    <2>4. Elapsed(i)' = Elapsed(i) + 1
        BY <1>1, <1>4, <2>1, <2>3 DEF Elapsed, Reading, Capped, PCs, ClockCap
    <2>5. age' <= age + 1 /\ age \in Int /\ age' \in Int
        BY DEF Tick, Capped, AgeCap
    <2>6. Elapsed(i) \in Int
        BY DEF Elapsed, ClockCap
    <2> QED
        BY <2>2, <2>4, <2>5, <2>6
<1>7. QuietInv'
    BY DEF Tick, NothingDue, QuietInv, Capped, Pending, AgeCap
<1>8. RestInv'
    BY <1>1, <1>4 DEF Tick, RestInv, Capped
<1> QED
    BY <1>3, <1>5, <1>6, <1>7, <1>8

LEMMA TimingStep == ASSUME TimingInv, [Next]_vars PROVE TimingInv'
<1>1. CASE UNCHANGED vars
    BY <1>1 DEF vars, TimingInv, TypeOK, ClockInv, RoomInv, QuietInv, RestInv, Reading,
                Elapsed, PendingOf
<1> QED
    BY <1>1, FeedTickKeeps, LookKeeps, LookedKeeps, SleepArmKeeps, TickKeeps,
       HandleReportKeeps, TaskStepKeeps DEF Next

\* Every clock stays within its limit: an order is never awaited for longer than
\* its timeout, and the loop never sleeps longer than wait_duration.
THEOREM TimingTypes == Spec => []TypeOK
<1>1. TimingInv /\ [Next]_vars => TimingInv'
    BY TimingStep
<1>2. TimingInv => TypeOK
    BY DEF TimingInv
<1> QED
    BY TimingInit, <1>1, <1>2, PTL DEF Spec

\* For all limits with room for a task, the watchdog never unlocks a state whose
\* order still runs, unless a read was late (engine.rs 326-361).
THEOREM WatchdogSound == Spec => []WatchdogSparesRunning
<1>1. TimingInv /\ [Next]_vars => TimingInv'
    BY TimingStep
<1>2. TimingInv => WatchdogSparesRunning
    BY DEF TimingInv, RoomInv, WatchdogSparesRunning, Busy
<1> QED
    BY TimingInit, <1>1, <1>2, PTL DEF Spec

\* A pending state outlives the limit and the wait only while a feed keeps the
\* loop awake, late reads or not.
THEOREM WatchdogReaches == Spec => []QuietFeedUnlocks
<1>1. TimingInv /\ [Next]_vars => TimingInv'
    BY TimingStep
<1>2. TimingInv => QuietFeedUnlocks
    BY TimingAssumption DEF TimingInv, TypeOK, QuietInv, QuietFeedUnlocks, AgeCap
<1> QED
    BY TimingInit, <1>1, <1>2, PTL DEF Spec

\* No order starts within the cooldown of a reported failure, unless a read was
\* late (engine.rs 258-315, 546-557).
THEOREM CooldownSound == Spec => FailureRests
<1>1. TimingInv /\ [Next]_vars => TimingInv'
    BY TimingStep
<1>2. TimingInv /\ [Next]_vars =>
        [(\E i \in Tasks : task[i].pc = "idle" /\ task'[i].pc # "idle")
             => late \/ sinceFail = Cooldown]_vars
    <2> SUFFICES ASSUME TimingInv, Next,
                        NEW i \in Tasks, task[i].pc = "idle", task'[i].pc # "idle"
                 PROVE  late \/ sinceFail = Cooldown
        OBVIOUS
    <2>1. CASE FeedTick
        BY <2>1, SpawnKeeps DEF FeedTick
    <2>2. CASE Looked
        BY <2>2, SpawnKeeps DEF Looked
    <2>3. CASE Look \/ SleepArm \/ Tick
        BY <2>3 DEF Look, SleepArm, Tick, Reading
    <2>4. CASE \E j \in Tasks : HandleReport(j)
        BY <2>4, IdleIsTask DEF HandleReport, TimingInv, TypeOK
    <2>5. CASE \E j \in Tasks : TaskStep(j)
        BY <2>5 DEF TaskStep, Fail, Post, Placed, WaitOver, ReadAgain, Goto, TimingInv, TypeOK
    <2> QED
        BY <2>1, <2>2, <2>3, <2>4, <2>5 DEF Next
<1> QED
    BY TimingInit, <1>1, <1>2, PTL DEF Spec, FailureRests
=============================================================================
