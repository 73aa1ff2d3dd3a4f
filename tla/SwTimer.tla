------------------------------ MODULE SwTimer -------------------------------
(***************************************************************************)
(* The software timers of the meter task (utils/amg_sw_timer.c).  The task *)
(* starts and stops them and calls them back; the timer service of the OS  *)
(* counts them down every 10 ms.  The service has the highest priority of  *)
(* all tasks, so a tick is one step that may come between any two memory   *)
(* accesses of the task; nothing protects what the two share.              *)
(*                                                                         *)
(* Intervals are in ticks.  Accesses of the task that commute with a tick  *)
(* are taken together.                                                     *)
(***************************************************************************)
EXTENDS Integers, FiniteSets

CONSTANTS
    Last,          \* the last timer of the list
    Intervals,     \* the intervals timers are started with
    Periods,       \* whether they are periodic
    CountRange,    \* values of noOfActTimer: 256
    MaxTrigger,    \* bound: expiries of a timer waiting to be called back
    MaxCalls       \* bound: starts and stops by one callback, or by the rest
                   \* of the loop of the task

ASSUME SwTimerAssumption ==
    /\ Last \in Nat
    /\ Intervals \subseteq Nat /\ Periods \subseteq BOOLEAN
    /\ CountRange \in Nat /\ CountRange > Last + 1
    /\ MaxTrigger \in Nat \ {0} /\ MaxCalls \in Nat

VARIABLES
    bEnable, bPeriod, interval, expireCnt, triggerCnt,  \* SW_TIMER
    noOfActTimer,      \* uint8_t
    bOsTimerStarted,
    os_timer,          \* the timer of the OS runs
    event,             \* EVENT_MASK_TIMER in meter_event
    at,                \* where the task is in a call, "run" outside
    op,                \* the arguments of the call
    reg,               \* the copy of noOfActTimer it works on
    loc,               \* where the task is in its loop
    scan, cnt,         \* i and cnt of dsm_sw_timer_task_proc
    calls,             \* calls made since the callback or the loop began
    \* history
    armed,             \* started, and neither stopped nor called back since
    stopped,           \* stopped while enabled, and not started since
    torn               \* a timer has expired inside a start or a stop

timerVars == <<bEnable, bPeriod, interval, expireCnt, triggerCnt>>
osVars == <<bOsTimerStarted, os_timer>>
loopVars == <<loc, scan, cnt, calls>>
histVars == <<armed, stopped, torn>>
vars == <<timerVars, noOfActTimer, osVars, event, at, op, reg, loopVars,
          histVars>>

Timers == 0..Last
Byte(n) == n % CountRange
NoOp == [id |-> 0, period |-> FALSE, interval |-> 0]

Init ==
    /\ bEnable = [t \in Timers |-> FALSE] /\ bPeriod = [t \in Timers |-> FALSE]
    /\ interval = [t \in Timers |-> 0] /\ expireCnt = [t \in Timers |-> 0]
    /\ triggerCnt = [t \in Timers |-> 0]
    /\ noOfActTimer = 0 /\ bOsTimerStarted = FALSE /\ os_timer = FALSE
    /\ event = FALSE
    /\ at = "run" /\ reg = 0 /\ loc = "loop" /\ scan = 0 /\ cnt = 0 /\ calls = 0
    /\ op = NoOp
    /\ armed = [t \in Timers |-> FALSE] /\ stopped = [t \in Timers |-> FALSE]
    /\ torn = FALSE

-----------------------------------------------------------------------------
(* dsm_sw_timer_isr_proc, called by the timer service. *)

(* Fault: counted down without looking whether it is zero. *)
CountDown_NoFloor(t) == expireCnt[t] - 1

CountDown(t) == IF expireCnt[t] > 0 THEN expireCnt[t] - 1 ELSE 0

Expiring == {t \in Timers : bEnable[t] /\ CountDown(t) <= 0}
Ending == {t \in Expiring : ~bPeriod[t]}

Tick ==
    /\ os_timer
    /\ \A t \in Expiring : triggerCnt[t] < MaxTrigger
    /\ expireCnt' = [t \in Timers |->
                       IF ~bEnable[t] THEN expireCnt[t]
                       ELSE IF t \in Expiring \ Ending THEN interval[t]
                       ELSE CountDown(t)]
    /\ triggerCnt' = [t \in Timers |->
                        triggerCnt[t] + IF t \in Expiring THEN 1 ELSE 0]
    /\ bEnable' = [t \in Timers |-> bEnable[t] /\ t \notin Ending]
    /\ noOfActTimer' = IF noOfActTimer > Cardinality(Ending)
                       THEN noOfActTimer - Cardinality(Ending) ELSE 0
    /\ event' = (event \/ Expiring # {})
    /\ torn' = (torn \/ (at # "run" /\ Expiring # {}))
    /\ UNCHANGED <<bPeriod, interval, osVars, at, op, reg, loopVars, armed,
                   stopped>>

-----------------------------------------------------------------------------
(* The callbacks and the rest of the loop make calls. *)
MayCall == at = "run" /\ loc \in {"loop", "call"} /\ calls < MaxCalls

(* dsm_sw_timer_start. A timer that is on with the same interval is left   *)
(* alone.                                                                  *)
Same(t, period, n) == interval[t] = n /\ bPeriod[t] = period

StartCall(t, period, n) ==
    /\ MayCall
    /\ calls' = calls + 1
    /\ \/ /\ ~bEnable[t]
          /\ at' = "count" /\ reg' = noOfActTimer
          /\ op' = [id |-> t, period |-> period, interval |-> n]
       \/ /\ bEnable[t] /\ ~Same(t, period, n)
          /\ at' = "period"
          /\ op' = [id |-> t, period |-> period, interval |-> n]
          /\ UNCHANGED reg
       \/ /\ bEnable[t] /\ Same(t, period, n)
          /\ UNCHANGED <<at, op, reg>>
    /\ armed' = [armed EXCEPT ![t] = TRUE]
    /\ stopped' = [stopped EXCEPT ![t] = FALSE]
    /\ UNCHANGED <<timerVars, noOfActTimer, osVars, event, loc, scan, cnt,
                   torn>>

StartCount ==
    /\ at = "count" /\ at' = "enable"
    /\ noOfActTimer' = Byte(reg + 1) /\ reg' = 0
    /\ UNCHANGED <<timerVars, osVars, event, op, loopVars, histVars>>

StartEnable ==
    /\ at = "enable" /\ at' = "period"
    /\ bEnable' = [bEnable EXCEPT ![op.id] = TRUE]
    /\ UNCHANGED <<bPeriod, interval, expireCnt, triggerCnt, noOfActTimer,
                   osVars, event, op, reg, loopVars, histVars>>

StartPeriod ==
    /\ at = "period" /\ at' = "interval"
    /\ bPeriod' = [bPeriod EXCEPT ![op.id] = op.period]
    /\ UNCHANGED <<bEnable, interval, expireCnt, triggerCnt, noOfActTimer,
                   osVars, event, op, reg, loopVars, histVars>>

StartInterval ==
    /\ at = "interval" /\ at' = "expire"
    /\ interval' = [interval EXCEPT ![op.id] = op.interval]
    /\ UNCHANGED <<bEnable, bPeriod, expireCnt, triggerCnt, noOfActTimer,
                   osVars, event, op, reg, loopVars, histVars>>

StartExpire ==
    /\ at = "expire" /\ at' = "trigger"
    /\ expireCnt' = [expireCnt EXCEPT ![op.id] = op.interval]
    /\ UNCHANGED <<bEnable, bPeriod, interval, triggerCnt, noOfActTimer,
                   osVars, event, op, reg, loopVars, histVars>>

StartTrigger ==
    /\ at = "trigger" /\ at' = "os"
    /\ triggerCnt' = [triggerCnt EXCEPT ![op.id] = 0]
    /\ UNCHANGED <<bEnable, bPeriod, interval, expireCnt, noOfActTimer,
                   osVars, event, op, reg, loopVars, histVars>>

StartOs ==
    /\ at = "os" /\ at' = "run" /\ op' = NoOp
    /\ bOsTimerStarted' = TRUE
    /\ os_timer' = (os_timer \/ ~bOsTimerStarted)
    /\ UNCHANGED <<timerVars, noOfActTimer, event, reg, loopVars, histVars>>

-----------------------------------------------------------------------------
(* dsm_meter_sw_timer_stop and dsm_sw_timer_stop. A timer that has expired *)
(* is not on any more: its callback comes nevertheless.                    *)

StopCall(t) ==
    /\ MayCall
    /\ calls' = calls + 1
    /\ \/ /\ bEnable[t] /\ noOfActTimer # 0
          /\ at' = "check" /\ op' = [NoOp EXCEPT !.id = t]
       \/ /\ ~(bEnable[t] /\ noOfActTimer # 0)
          /\ UNCHANGED <<at, op>>
    /\ armed' = [armed EXCEPT ![t] = FALSE]
    /\ UNCHANGED <<timerVars, noOfActTimer, osVars, event, reg, loc, scan,
                   cnt, stopped, torn>>

StopCheck ==
    /\ at = "check"
    /\ \/ bEnable[op.id] /\ at' = "disable" /\ UNCHANGED op
       \/ ~bEnable[op.id] /\ at' = "run" /\ op' = NoOp
    /\ UNCHANGED <<timerVars, noOfActTimer, osVars, event, reg, loopVars,
                   histVars>>

StopDisable ==
    /\ at = "disable" /\ at' = "untrigger"
    /\ bEnable' = [bEnable EXCEPT ![op.id] = FALSE]
    /\ UNCHANGED <<bPeriod, interval, expireCnt, triggerCnt, noOfActTimer,
                   osVars, event, op, reg, loopVars, histVars>>

(* Fault: an expiry that came just before is not taken back. *)
StopUntrigger_Keeps ==
    /\ at = "untrigger" /\ at' = "uncount"
    /\ reg' = noOfActTimer
    /\ stopped' = [stopped EXCEPT ![op.id] = TRUE]
    /\ UNCHANGED <<timerVars, noOfActTimer, osVars, event, op, loopVars, armed,
                   torn>>

StopUntrigger ==
    /\ at = "untrigger" /\ at' = "uncount"
    /\ triggerCnt' = [triggerCnt EXCEPT ![op.id] = 0]
    /\ reg' = noOfActTimer
    /\ stopped' = [stopped EXCEPT ![op.id] = TRUE]
    /\ UNCHANGED <<bEnable, bPeriod, interval, expireCnt, noOfActTimer, osVars,
                   event, op, loopVars, armed, torn>>

StopUncount ==
    /\ at = "uncount" /\ at' = "zero"
    /\ noOfActTimer' = Byte(reg - 1) /\ reg' = 0
    /\ UNCHANGED <<timerVars, osVars, event, op, loopVars, histVars>>

(* Fault: the timer of the OS is stopped with the first of the timers. *)
NoneActive_Any == bOsTimerStarted

NoneActive == noOfActTimer = 0 /\ bOsTimerStarted

StopOs ==
    /\ at = "zero" /\ at' = "run" /\ op' = NoOp
    /\ bOsTimerStarted' = (bOsTimerStarted /\ ~NoneActive)
    /\ os_timer' = (os_timer /\ ~NoneActive)
    /\ UNCHANGED <<timerVars, noOfActTimer, event, reg, loopVars, histVars>>

-----------------------------------------------------------------------------
(* The loop of the task: OSFlagPend takes the event, or gives up after two *)
(* ticks; dsm_sw_timer_task_proc goes through the list.                    *)

Pend ==
    /\ at = "run" /\ loc = "loop"
    /\ \/ event /\ loc' = "scan"
       \/ ~event /\ UNCHANGED loc
    /\ event' = FALSE /\ calls' = 0
    /\ UNCHANGED <<timerVars, noOfActTimer, osVars, at, op, reg, scan, cnt,
                   histVars>>

ScanTake ==
    /\ loc = "scan" /\ triggerCnt[scan] > 0
    /\ cnt' = triggerCnt[scan] /\ loc' = "clear"
    /\ UNCHANGED <<timerVars, noOfActTimer, osVars, event, at, op, reg, scan,
                   calls, histVars>>

ScanClear ==
    /\ loc = "clear" /\ loc' = "call"
    /\ triggerCnt' = [triggerCnt EXCEPT ![scan] = 0]
    /\ calls' = MaxCalls
    /\ UNCHANGED <<bEnable, bPeriod, interval, expireCnt, noOfActTimer, osVars,
                   event, at, op, reg, scan, cnt, histVars>>

(* The callback begins: what it starts and stops are calls that follow.    *)
Callback ==
    /\ at = "run" /\ loc = "call" /\ cnt > 0
    /\ cnt' = cnt - 1 /\ calls' = 0
    /\ armed' = [armed EXCEPT ![scan] = @ /\ bPeriod[scan]]
    /\ UNCHANGED <<timerVars, noOfActTimer, osVars, event, at, op, reg, loc,
                   scan, stopped, torn>>

(* Fault: an event that came during the scan is taken with it. *)
ScanNext_Consumes ==
    /\ scan' = IF scan = Last THEN 0 ELSE scan + 1
    /\ loc' = IF scan = Last THEN "loop" ELSE "scan"
    /\ event' = (event /\ scan # Last)

ScanNext ==
    /\ scan' = IF scan = Last THEN 0 ELSE scan + 1
    /\ loc' = IF scan = Last THEN "loop" ELSE "scan"
    /\ UNCHANGED event

ScanOn ==
    /\ \/ loc = "scan" /\ triggerCnt[scan] = 0
       \/ at = "run" /\ loc = "call" /\ cnt = 0
    /\ ScanNext
    /\ calls' = 0
    /\ UNCHANGED <<timerVars, noOfActTimer, osVars, at, op, reg, cnt, histVars>>

Call ==
    \/ \E t \in Timers, p \in Periods, n \in Intervals : StartCall(t, p, n)
    \/ StartCount \/ StartEnable \/ StartPeriod \/ StartInterval
    \/ StartExpire \/ StartTrigger \/ StartOs
    \/ \E t \in Timers : StopCall(t)
    \/ StopCheck \/ StopDisable \/ StopUntrigger \/ StopUncount \/ StopOs

Task == Call \/ Pend \/ ScanTake \/ ScanClear \/ Callback \/ ScanOn

Next == Tick \/ Task

Spec == Init /\ [][Next]_vars

(* The task never ends, and no task above it runs without end. *)
FairSpec == Spec /\ WF_vars(Task)

-----------------------------------------------------------------------------
TypeOK ==
    /\ bEnable \in [Timers -> BOOLEAN] /\ bPeriod \in [Timers -> BOOLEAN]
    /\ interval \in [Timers -> Intervals \cup {0}]
    /\ expireCnt \in [Timers -> Nat]
    /\ triggerCnt \in [Timers -> 0..MaxTrigger]
    /\ noOfActTimer \in 0..CountRange - 1 /\ reg \in 0..CountRange - 1
    /\ bOsTimerStarted \in BOOLEAN /\ os_timer \in BOOLEAN
    /\ event \in BOOLEAN
    /\ at \in {"run", "count", "enable", "period", "interval", "expire",
               "trigger", "os", "check", "disable", "untrigger", "uncount",
               "zero"}
    /\ op \in [id : Timers, period : BOOLEAN, interval : Intervals \cup {0}]
    /\ loc \in {"loop", "scan", "clear", "call"}
    /\ scan \in Timers /\ cnt \in 0..MaxTrigger /\ calls \in 0..MaxCalls
    /\ armed \in [Timers -> BOOLEAN] /\ stopped \in [Timers -> BOOLEAN]
    /\ torn \in BOOLEAN

(* A timer that was started and not stopped is counted down, or has        *)
(* expired and its callback is to come.                                    *)
Underway(t) ==
    \/ bEnable[t] /\ os_timer
    \/ triggerCnt[t] > 0
    \/ loc \in {"clear", "call"} /\ scan = t /\ cnt > 0

(* Without a lock, the list and the counter that decides when the timer of *)
(* the OS stops agree, and every timer started is under way, as long as no *)
(* timer has expired between the accesses of a start or a stop: no other   *)
(* interleaving with the timer service does any harm.                      *)
ExactUnlessTorn ==
    at = "run" /\ ~torn =>
       /\ noOfActTimer = Cardinality({t \in Timers : bEnable[t]})
       /\ \A t \in Timers : armed[t] => Underway(t)

(* A timer stopped while it was on is not called back before it is started *)
(* again, even if it expired in the middle of the stop.                    *)
StoppedIsSilent ==
    [][ loc = "scan" /\ loc' = "clear" => ~stopped[scan] ]_vars

(* Every expiry reaches the task: the event that tells of it is not lost   *)
(* to a scan of the list that is under way.                                *)
ExpiryIsServed ==
    \A t \in Timers : triggerCnt[t] > 0 ~> triggerCnt[t] = 0

(* The handler of MT_SW_TIMER_ASSO_TO is for "no DLMS polling received for *)
(* two hours" (amg_meter_main.c:428, in Korean), so once started the timer *)
(* is under way until it is stopped or has expired.                        *)
StartedIsUnderway ==
    at = "run" => \A t \in Timers : armed[t] => Underway(t)
=============================================================================
