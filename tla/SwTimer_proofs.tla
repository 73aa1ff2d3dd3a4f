--------------------------- MODULE SwTimer_proofs ---------------------------
(***************************************************************************)
(* Proofs about SwTimer, for every number of timers and every interval.    *)
(***************************************************************************)
EXTENDS SwTimer, FiniteSetTheorems, TLAPS

-----------------------------------------------------------------------------
(* A remainder is a value of the counter. *)
LEMMA ByteType ==
    ASSUME NEW n \in Int
    PROVE  Byte(n) \in 0..CountRange - 1
BY SwTimerAssumption DEF Byte

LEMMA NoOpType ==
    NoOp \in [id : Timers, period : BOOLEAN, interval : Intervals \cup {0}]
BY SwTimerAssumption DEF NoOp, Timers

LEMMA IntervalType == Intervals \cup {0} \subseteq Nat
BY SwTimerAssumption

LEMMA InitTypeOK == Init => TypeOK
<1> SUFFICES ASSUME Init PROVE TypeOK
  OBVIOUS
<1>1. 0 \in Timers /\ 0 \in 0..CountRange - 1 /\ 0 \in 0..MaxTrigger
      /\ 0 \in 0..MaxCalls
  BY SwTimerAssumption DEF Timers
<1>2. /\ interval \in [Timers -> Intervals \cup {0}]
      /\ expireCnt \in [Timers -> Nat]
      /\ triggerCnt \in [Timers -> 0..MaxTrigger]
  BY <1>1 DEF Init
<1>3. /\ bEnable \in [Timers -> BOOLEAN] /\ bPeriod \in [Timers -> BOOLEAN]
      /\ armed \in [Timers -> BOOLEAN] /\ stopped \in [Timers -> BOOLEAN]
  BY DEF Init
<1> QED
  BY <1>1, <1>2, <1>3, NoOpType DEF Init, TypeOK

(* What the timer service leaves behind. *)
LEMMA TickTypeOK == TypeOK /\ Tick => TypeOK'
<1> SUFFICES ASSUME TypeOK, Tick PROVE TypeOK'
  OBVIOUS
<1>1. /\ UNCHANGED <<bPeriod, interval, bOsTimerStarted, os_timer, at, op, reg,
                     loc, scan, cnt, calls, armed, stopped>>
      /\ torn' \in BOOLEAN /\ event' \in BOOLEAN
  BY DEF Tick, TypeOK, osVars, loopVars
<1>2. IsFiniteSet(Timers) /\ Ending \subseteq Timers
  BY FS_Interval, SwTimerAssumption DEF Timers, Ending, Expiring
<1>3. Cardinality(Ending) \in Nat
  BY <1>2, FS_Subset, FS_CardinalityType
<1>4. noOfActTimer' \in 0..CountRange - 1
  BY <1>3, SwTimerAssumption DEF Tick, TypeOK
<1>5. \A t \in Timers : CountDown(t) \in Nat
  BY DEF CountDown, TypeOK
<1>6. expireCnt' \in [Timers -> Nat]
  <2>1. \A t \in Timers : expireCnt[t] \in Nat /\ interval[t] \in Nat
    BY IntervalType DEF TypeOK
  <2> QED
    BY <1>5, <2>1 DEF Tick
<1>7. triggerCnt' \in [Timers -> 0..MaxTrigger]
  BY SwTimerAssumption DEF Tick, TypeOK, Expiring
<1>8. bEnable' \in [Timers -> BOOLEAN]
  BY DEF Tick, TypeOK
<1> QED
  BY <1>1, <1>4, <1>6, <1>7, <1>8 DEF TypeOK

LEMMA CallTypeOK == TypeOK /\ Call => TypeOK'
<1> SUFFICES ASSUME TypeOK, Call PROVE TypeOK'
  OBVIOUS
<1> USE DEF timerVars, osVars, loopVars, histVars
<1>1. CASE \E t \in Timers, p \in Periods, n \in Intervals : StartCall(t, p, n)
  <2>1. PICK t \in Timers, p \in Periods, n \in Intervals : StartCall(t, p, n)
    BY <1>1
  <2>2. [id |-> t, period |-> p, interval |-> n]
           \in [id : Timers, period : BOOLEAN, interval : Intervals \cup {0}]
    BY SwTimerAssumption
  <2>3. op' \in [id : Timers, period : BOOLEAN, interval : Intervals \cup {0}]
    BY <2>1, <2>2 DEF StartCall, TypeOK
  <2>4. calls' \in 0..MaxCalls
    BY <2>1, SwTimerAssumption DEF StartCall, MayCall, TypeOK
  <2> QED
    BY <2>1, <2>3, <2>4 DEF StartCall, TypeOK
<1>2. CASE StartCount
  <2>1. Byte(reg + 1) \in 0..CountRange - 1 /\ 0 \in 0..CountRange - 1
    BY ByteType, SwTimerAssumption DEF TypeOK
  <2> QED
    BY <1>2, <2>1 DEF StartCount, TypeOK
<1>3. CASE StartEnable
  BY <1>3 DEF StartEnable, TypeOK
<1>4. CASE StartPeriod
  BY <1>4 DEF StartPeriod, TypeOK
<1>5. CASE StartInterval
  BY <1>5 DEF StartInterval, TypeOK
<1>6. CASE StartExpire
  <2>1. op.interval \in Nat
    BY IntervalType DEF TypeOK
  <2> QED
    BY <1>6, <2>1 DEF StartExpire, TypeOK
<1>7. CASE StartTrigger
  BY <1>7, SwTimerAssumption DEF StartTrigger, TypeOK
<1>8. CASE StartOs
  BY <1>8, NoOpType DEF StartOs, TypeOK
<1>9. CASE \E t \in Timers : StopCall(t)
  <2>1. PICK t \in Timers : StopCall(t)
    BY <1>9
  <2>2. [NoOp EXCEPT !.id = t]
           \in [id : Timers, period : BOOLEAN, interval : Intervals \cup {0}]
    BY NoOpType DEF NoOp
  <2>3. op' \in [id : Timers, period : BOOLEAN, interval : Intervals \cup {0}]
    BY <2>1, <2>2 DEF StopCall, TypeOK
  <2>4. calls' \in 0..MaxCalls
    BY <2>1, SwTimerAssumption DEF StopCall, MayCall, TypeOK
  <2> QED
    BY <2>1, <2>3, <2>4 DEF StopCall, TypeOK
<1>10. CASE StopCheck
  BY <1>10, NoOpType DEF StopCheck, TypeOK
<1>11. CASE StopDisable
  BY <1>11 DEF StopDisable, TypeOK
<1>12. CASE StopUntrigger
  BY <1>12, SwTimerAssumption DEF StopUntrigger, TypeOK
<1>13. CASE StopUncount
  <2>1. Byte(reg - 1) \in 0..CountRange - 1 /\ 0 \in 0..CountRange - 1
    BY ByteType, SwTimerAssumption DEF TypeOK
  <2> QED
    BY <1>13, <2>1 DEF StopUncount, TypeOK
<1>14. CASE StopOs
  BY <1>14, NoOpType DEF StopOs, TypeOK
<1> QED
  BY <1>1, <1>2, <1>3, <1>9, <1>10, <1>11, <1>4, <1>5, <1>6, <1>7, <1>8,
     <1>12, <1>13, <1>14 DEF Call

LEMMA LoopTypeOK ==
    TypeOK /\ (Pend \/ ScanTake \/ ScanClear \/ Callback \/ ScanOn) => TypeOK'
<1> SUFFICES ASSUME TypeOK,
                    Pend \/ ScanTake \/ ScanClear \/ Callback \/ ScanOn
             PROVE  TypeOK'
  OBVIOUS
<1> USE DEF timerVars, osVars, loopVars, histVars
<1>1. CASE Pend
  <2>1. calls' \in 0..MaxCalls
    BY <1>1, SwTimerAssumption DEF Pend
  <2>2. loc' \in {"loop", "scan", "clear", "call"} /\ event' \in BOOLEAN
    BY <1>1 DEF Pend, TypeOK
  <2> QED
    BY <1>1, <2>1, <2>2 DEF Pend, TypeOK
<1>2. CASE ScanTake
  BY <1>2 DEF ScanTake, TypeOK
<1>3. CASE ScanClear
  BY <1>3, SwTimerAssumption DEF ScanClear, TypeOK
<1>4. CASE Callback
  BY <1>4, SwTimerAssumption DEF Callback, TypeOK
<1>5. CASE ScanOn
  <2>1. scan' \in Timers
    BY <1>5, SwTimerAssumption DEF ScanOn, ScanNext, Timers, TypeOK
  <2> QED
    BY <1>5, <2>1, SwTimerAssumption DEF ScanOn, ScanNext, TypeOK
<1> QED
  BY <1>1, <1>2, <1>3, <1>4, <1>5

LEMMA NextTypeOK == TypeOK /\ [Next]_vars => TypeOK'
<1>1. TypeOK /\ UNCHANGED vars => TypeOK'
  BY DEF TypeOK, vars, timerVars, osVars, loopVars, histVars
<1> QED
  BY <1>1, TickTypeOK, CallTypeOK, LoopTypeOK DEF Next, Task

(* Every variable has its type: the counters are never less than zero.     *)
THEOREM TypeCorrect == Spec => []TypeOK
BY InitTypeOK, NextTypeOK, PTL DEF Spec

-----------------------------------------------------------------------------
(***************************************************************************)
(* A timer that is stopped is off and has no expiry waiting.  It stays so  *)
(* because a tick passes over it and the only timer that a start writes to *)
(* is the one it has taken out of the stopped ones.                        *)
(***************************************************************************)
Starting == {"count", "enable", "period", "interval", "expire", "trigger", "os"}

SilentInv ==
    /\ \A t \in Timers : stopped[t] => ~bEnable[t] /\ triggerCnt[t] = 0
    /\ at \in Starting => ~stopped[op.id]
    /\ at = "untrigger" => ~bEnable[op.id]

LEMMA NextSilentInv == TypeOK /\ SilentInv /\ [Next]_vars => SilentInv'
<1> SUFFICES ASSUME TypeOK, SilentInv, [Next]_vars PROVE SilentInv'
  OBVIOUS
<1> USE DEF timerVars, osVars, loopVars, histVars, Starting
<1>0. op.id \in Timers
  BY DEF TypeOK
<1>1. CASE Tick
  BY <1>0, <1>1 DEF Tick, Expiring, SilentInv, TypeOK
<1>2. CASE \E t \in Timers, p \in Periods, n \in Intervals : StartCall(t, p, n)
  BY <1>0, <1>2 DEF StartCall, MayCall, SilentInv, TypeOK
<1>3. CASE StartCount \/ StartEnable \/ StartPeriod \/ StartInterval
  BY <1>0, <1>3 DEF StartCount, StartEnable, StartPeriod, StartInterval,
                    SilentInv, TypeOK
<1>4. CASE StartExpire \/ StartTrigger \/ StartOs
  BY <1>0, <1>4 DEF StartExpire, StartTrigger, StartOs, SilentInv, TypeOK
<1>5. CASE \E t \in Timers : StopCall(t)
  BY <1>0, <1>5 DEF StopCall, MayCall, SilentInv, TypeOK
<1>6. CASE StopCheck \/ StopDisable
  BY <1>0, <1>6 DEF StopCheck, StopDisable, SilentInv, TypeOK
<1>7. CASE StopUntrigger
  BY <1>0, <1>7 DEF StopUntrigger, SilentInv, TypeOK
<1>8. CASE StopUncount \/ StopOs
  BY <1>0, <1>8 DEF StopUncount, StopOs, SilentInv, TypeOK
<1>9. CASE ScanClear
  BY <1>0, <1>9 DEF ScanClear, SilentInv, TypeOK
<1>10. CASE Pend \/ ScanTake \/ Callback \/ ScanOn \/ UNCHANGED vars
  BY <1>10 DEF Pend, ScanTake, Callback, ScanOn, vars, SilentInv
<1> QED
  BY <1>1, <1>2, <1>3, <1>4, <1>5, <1>6, <1>7, <1>8, <1>9, <1>10
     DEF Next, Task, Call

(* No scan picks up an expiry of a timer that was stopped while it was on. *)
THEOREM StoppedSilent == Spec => StoppedIsSilent
<1> DEFINE A == loc = "scan" /\ loc' = "clear" => ~stopped[scan]
<1>1. Init => SilentInv
  BY DEF Init, SilentInv, Starting
<1>2. TypeOK /\ SilentInv /\ [Next]_vars => A
  <2> SUFFICES ASSUME TypeOK, SilentInv, [Next]_vars, loc = "scan",
                      loc' = "clear"
               PROVE  ~stopped[scan]
    OBVIOUS
  <2>1. ScanTake
    BY DEF Next, Task, Call, vars, loopVars, Tick, StartCall, StartCount,
           StartEnable, StartPeriod, StartInterval, StartExpire, StartTrigger,
           StartOs, StopCall, StopCheck, StopDisable, StopUntrigger,
           StopUncount, StopOs, Pend, ScanClear, Callback, ScanOn, ScanNext
  <2> QED
    BY <2>1 DEF ScanTake, SilentInv, TypeOK
<1> HIDE DEF A
<1>3. Spec => [][A]_vars
  BY <1>1, <1>2, TypeCorrect, NextSilentInv, PTL DEF Spec
<1> QED
  BY <1>3 DEF StoppedIsSilent, A

-----------------------------------------------------------------------------
(***************************************************************************)
(* While no timer expires inside a call, the counter is the number of the  *)
(* timers that are on, but for the access a call is about to make, and the *)
(* task alone switches timers on and off inside a call.  So the timer of   *)
(* the OS runs for every timer that is on, and a timer that is armed is    *)
(* under way or is being started.                                          *)
(***************************************************************************)
On == {t \in Timers : bEnable[t]}

Ahead == IF at \in {"enable", "untrigger", "uncount"} THEN 1 ELSE 0

CallInv ==
    /\ at # "run" => loc \in {"loop", "call"}
    /\ loc = "clear" => cnt > 0
    /\ at \in {"count", "enable", "untrigger", "uncount"} => ~bEnable[op.id]
    /\ at \in {"period", "interval", "expire", "trigger", "os", "check",
               "disable"} => bEnable[op.id]
    /\ at \in {"check", "disable", "untrigger"} => ~armed[op.id]

CountInv ==
    /\ noOfActTimer = Cardinality(On) + Ahead
    /\ at = "count" => reg = Cardinality(On)
    /\ at = "uncount" => reg = Cardinality(On) + 1

OsInv ==
    /\ os_timer = bOsTimerStarted
    /\ \A t \in Timers : bEnable[t] /\ ~os_timer =>
          /\ at \in {"period", "interval", "expire", "trigger", "os"}
          /\ op.id = t

ArmedInv ==
    \A t \in Timers : armed[t] =>
       /\ Underway(t) \/ (at \in Starting /\ op.id = t)
       /\ bPeriod[t] /\ ~bEnable[t] =>
             at \in {"count", "enable"} /\ op.id = t

Whole == CallInv /\ CountInv /\ OsInv /\ ArmedInv

ExactInv == ~torn => Whole

LEMMA OnCount ==
    IsFiniteSet(On) /\ Cardinality(On) \in Nat /\ Cardinality(On) <= Last + 1
<1>1. IsFiniteSet(Timers) /\ Cardinality(Timers) = Last + 1
  BY FS_Interval, SwTimerAssumption DEF Timers
<1>2. On \subseteq Timers
  BY DEF On
<1> QED
  BY <1>1, <1>2, FS_Subset, FS_CardinalityType

(* What a tick does to the list while no call is torn. *)
LEMMA TickOn ==
    ASSUME TypeOK, Tick, ~torn'
    PROVE  /\ On' = On \ Ending
           /\ Cardinality(On') = Cardinality(On) - Cardinality(Ending)
           /\ Cardinality(Ending) \in Nat
           /\ Cardinality(Ending) <= Cardinality(On)
           /\ at # "run" => Expiring = {} /\ Cardinality(Ending) = 0
           /\ at # "run" => bEnable' = bEnable /\ triggerCnt' = triggerCnt
           /\ ~torn
<1>1. Ending \subseteq On
  BY DEF Ending, Expiring, On
<1>2. On' = On \ Ending
  BY DEF On, Ending, Expiring, Tick, TypeOK
<1>3. IsFiniteSet(Ending) /\ Cardinality(Ending) \in Nat
      /\ Cardinality(Ending) <= Cardinality(On)
  BY <1>1, OnCount, FS_Subset, FS_CardinalityType
<1>4. Cardinality(On \ Ending) = Cardinality(On) - Cardinality(Ending)
  <2>1. On \cap Ending = Ending
    BY <1>1
  <2> QED
    BY <2>1, OnCount, FS_Difference
<1>5. ~torn /\ (at # "run" => Expiring = {})
  BY DEF Tick, TypeOK
<1>6. Expiring = {} => Cardinality(Ending) = 0
  BY FS_EmptySet DEF Ending
<1>7. Expiring = {} => bEnable' = bEnable
  BY DEF Tick, TypeOK, Ending
<1>8. Expiring = {} => triggerCnt' = triggerCnt
  <2> SUFFICES ASSUME Expiring = {} PROVE triggerCnt' = triggerCnt
    OBVIOUS
  <2>1. \A t \in Timers : triggerCnt[t] + 0 = triggerCnt[t]
    BY DEF TypeOK
  <2> QED
    BY <2>1 DEF Tick, TypeOK
<1> QED
  BY <1>2, <1>3, <1>4, <1>5, <1>6, <1>7, <1>8

LEMMA NextCallInv ==
    ASSUME TypeOK, ~torn', Whole, Next
    PROVE  CallInv'
<1> USE DEF timerVars, osVars, loopVars, histVars, CallInv
<1>0. op.id \in Timers /\ CallInv
  BY DEF TypeOK, Whole
<1>1. CASE Tick
  BY <1>0, <1>1, TickOn DEF Tick, TypeOK
<1>2. CASE \E t \in Timers, p \in Periods, n \in Intervals : StartCall(t, p, n)
  BY <1>0, <1>2 DEF StartCall, MayCall, TypeOK
<1>3. CASE StartCount \/ StartEnable \/ StartPeriod \/ StartInterval
  BY <1>0, <1>3 DEF StartCount, StartEnable, StartPeriod, StartInterval, TypeOK
<1>4. CASE StartExpire \/ StartTrigger \/ StartOs
  BY <1>0, <1>4 DEF StartExpire, StartTrigger, StartOs, TypeOK
<1>5. CASE \E t \in Timers : StopCall(t)
  BY <1>0, <1>5 DEF StopCall, MayCall, TypeOK, NoOp
<1>6. CASE StopCheck \/ StopDisable
  BY <1>0, <1>6 DEF StopCheck, StopDisable, TypeOK
<1>7. CASE StopUntrigger \/ StopUncount \/ StopOs
  BY <1>0, <1>7 DEF StopUntrigger, StopUncount, StopOs, TypeOK
<1>8. CASE Pend \/ ScanTake \/ ScanClear
  BY <1>0, <1>8 DEF Pend, ScanTake, ScanClear, TypeOK
<1>9. CASE Callback \/ ScanOn
  BY <1>0, <1>9 DEF Callback, ScanOn, ScanNext, TypeOK
<1> QED
  BY <1>1, <1>2, <1>3, <1>4, <1>5, <1>6, <1>7, <1>8, <1>9
     DEF Next, Task, Call

LEMMA NextCountInv ==
    ASSUME TypeOK, ~torn', Whole, Next
    PROVE  CountInv'
<1> USE DEF timerVars, osVars, loopVars, histVars
<1>0. /\ op.id \in Timers /\ CallInv /\ CountInv
      /\ noOfActTimer \in Nat /\ reg \in Nat
      /\ \A n \in 0..Last + 1 : Byte(n) = n
  BY SwTimerAssumption DEF TypeOK, Whole, Byte
<1>1. Cardinality(On) \in Nat /\ Cardinality(On) <= Last + 1
  BY OnCount
<1>2. CASE Tick
  <2>1. noOfActTimer - Cardinality(Ending) = Cardinality(On') + Ahead
    BY <1>0, <1>1, <1>2, TickOn DEF CountInv, Ahead
  <2>2. noOfActTimer' = noOfActTimer - Cardinality(Ending)
    BY <1>0, <1>1, <1>2, TickOn DEF CountInv, Ahead, Tick
  <2>3. at' = at /\ reg' = reg
    BY <1>2 DEF Tick
  <2>4. at # "run" => Cardinality(On') = Cardinality(On)
    BY <1>1, <1>2, TickOn
  <2> QED
    BY <1>0, <2>1, <2>2, <2>3, <2>4 DEF CountInv, Ahead
<1>3. CASE StartCount
  <2>1. On' = On
    BY <1>3 DEF StartCount, On
  <2>2. ~bEnable[op.id] /\ Cardinality(On) + 1 <= Last + 1
    <3>1. ~bEnable[op.id]
      BY <1>0, <1>3 DEF StartCount, CallInv
    <3>2. Cardinality(On \cup {op.id}) = Cardinality(On) + 1
      BY <3>1, OnCount, FS_AddElement DEF On
    <3>3. IsFiniteSet(Timers) /\ Cardinality(Timers) = Last + 1
      BY FS_Interval, SwTimerAssumption DEF Timers
    <3>4. On \cup {op.id} \subseteq Timers
      BY <1>0 DEF On
    <3> QED
      BY <3>1, <3>2, <3>3, <3>4, FS_Subset
  <2>3. Byte(reg + 1) = Cardinality(On) + 1
    BY <1>0, <1>1, <1>3, <2>2 DEF StartCount, CountInv
  <2> QED
    BY <1>0, <1>1, <1>3, <2>1, <2>3 DEF StartCount, CountInv, Ahead
<1>4. CASE StartEnable
  <2>1. On' = On \cup {op.id} /\ op.id \notin On
    BY <1>0, <1>4 DEF StartEnable, On, CallInv, TypeOK
  <2>2. Cardinality(On') = Cardinality(On) + 1
    BY <2>1, OnCount, FS_AddElement
  <2> QED
    BY <1>0, <1>1, <1>4, <2>2 DEF StartEnable, CountInv, Ahead
<1>5. CASE StopDisable
  <2>1. On' = On \ {op.id} /\ op.id \in On
    BY <1>0, <1>5 DEF StopDisable, On, CallInv, TypeOK
  <2>2. Cardinality(On') = Cardinality(On) - 1
    BY <2>1, OnCount, FS_RemoveElement
  <2> QED
    BY <1>0, <1>1, <1>5, <2>2 DEF StopDisable, CountInv, Ahead
<1>6. CASE StopUncount
  <2>1. On' = On
    BY <1>6 DEF StopUncount, On
  <2>2. Byte(reg - 1) = Cardinality(On)
    BY <1>0, <1>1, <1>6 DEF StopUncount, CountInv
  <2> QED
    BY <1>0, <1>1, <1>6, <2>1, <2>2 DEF StopUncount, CountInv, Ahead
<1>7. CASE StopUntrigger
  BY <1>0, <1>1, <1>7 DEF StopUntrigger, CountInv, Ahead, On
<1>8. CASE StopCheck
  BY <1>0, <1>1, <1>8 DEF StopCheck, CountInv, Ahead, On, CallInv
<1>9. CASE \E t \in Timers, p \in Periods, n \in Intervals : StartCall(t, p, n)
  BY <1>0, <1>1, <1>9 DEF StartCall, MayCall, CountInv, Ahead, On
<1>10. CASE \E t \in Timers : StopCall(t)
  BY <1>0, <1>1, <1>10 DEF StopCall, MayCall, CountInv, Ahead, On
<1>11. CASE StartPeriod \/ StartInterval \/ StartExpire \/ StartTrigger
  BY <1>0, <1>1, <1>11 DEF StartPeriod, StartInterval, StartExpire,
                           StartTrigger, CountInv, Ahead, On
<1>12. CASE StartOs \/ StopOs
  BY <1>0, <1>1, <1>12 DEF StartOs, StopOs, CountInv, Ahead, On
<1>13. CASE Pend \/ ScanTake \/ ScanClear \/ Callback \/ ScanOn
  BY <1>0, <1>1, <1>13 DEF Pend, ScanTake, ScanClear, Callback, ScanOn,
                           CountInv, Ahead, On
<1> QED
  BY <1>2, <1>3, <1>4, <1>5, <1>6, <1>7, <1>8, <1>9, <1>10, <1>11, <1>12,
     <1>13 DEF Next, Task, Call

LEMMA NextOsInv ==
    ASSUME TypeOK, ~torn', Whole, Next
    PROVE  OsInv'
<1> USE DEF timerVars, osVars, loopVars, histVars, OsInv
<1>0. op.id \in Timers /\ CallInv /\ CountInv /\ OsInv
  BY DEF TypeOK, Whole
<1>1. CASE Tick
  BY <1>0, <1>1, TickOn DEF Tick, TypeOK
<1>2. CASE \E t \in Timers, p \in Periods, n \in Intervals : StartCall(t, p, n)
  BY <1>0, <1>2 DEF StartCall, MayCall, TypeOK
<1>3. CASE StartCount \/ StartEnable \/ StartPeriod \/ StartInterval
  BY <1>0, <1>3 DEF StartCount, StartEnable, StartPeriod, StartInterval, TypeOK
<1>4. CASE StartExpire \/ StartTrigger \/ StartOs
  BY <1>0, <1>4 DEF StartExpire, StartTrigger, StartOs, TypeOK
<1>5. CASE \E t \in Timers : StopCall(t)
  BY <1>0, <1>5 DEF StopCall, MayCall, TypeOK
<1>6. CASE StopCheck \/ StopDisable \/ StopUntrigger \/ StopUncount
  BY <1>0, <1>6 DEF StopCheck, StopDisable, StopUntrigger, StopUncount, TypeOK
<1>7. CASE StopOs
  <2>1. at = "zero" /\ bEnable' = bEnable
    BY <1>7 DEF StopOs
  <2>2. NoneActive => \A t \in Timers : ~bEnable[t]
    <3>1. noOfActTimer = 0 => Cardinality(On) = 0
      BY <1>0, <2>1, OnCount DEF CountInv, Ahead
    <3>2. Cardinality(On) = 0 => On = {}
      BY OnCount, FS_EmptySet
    <3> QED
      BY <3>1, <3>2 DEF On, NoneActive
  <2>3. \A t \in Timers : bEnable[t] => os_timer
    BY <1>0, <2>1
  <2>4. os_timer' = bOsTimerStarted'
    BY <1>0, <1>7 DEF StopOs
  <2> QED
    BY <1>7, <2>1, <2>2, <2>3, <2>4 DEF StopOs
<1>8. CASE Pend \/ ScanTake \/ ScanClear \/ Callback \/ ScanOn
  BY <1>0, <1>8 DEF Pend, ScanTake, ScanClear, Callback, ScanOn, TypeOK
<1> QED
  BY <1>1, <1>2, <1>3, <1>4, <1>5, <1>6, <1>7, <1>8 DEF Next, Task, Call

LEMMA NextArmedInv ==
    ASSUME TypeOK, ~torn', Whole, Next
    PROVE  ArmedInv'
<1> USE DEF timerVars, osVars, loopVars, histVars, Starting, Underway
<1>0. op.id \in Timers /\ CallInv /\ OsInv /\ ArmedInv
  BY DEF TypeOK, Whole
<1>1. CASE Tick
  <2>1. \A t \in Timers : t \in Expiring => triggerCnt'[t] > 0
    BY <1>1 DEF Tick, TypeOK
  <2>2. \A t \in Timers : triggerCnt[t] > 0 => triggerCnt'[t] > 0
    BY <1>1 DEF Tick, TypeOK
  <2>3. \A t \in Timers : bEnable[t] /\ ~bEnable'[t]
                            => t \in Expiring /\ ~bPeriod[t]
    BY <1>1 DEF Tick, TypeOK, Ending
  <2>4. UNCHANGED <<bPeriod, os_timer, at, op, loc, scan, cnt, armed>>
    BY <1>1 DEF Tick
  <2>5. \A t \in Timers : bEnable'[t] => bEnable[t]
    BY <1>1 DEF Tick, TypeOK
  <2>6. at # "run" => bEnable' = bEnable /\ triggerCnt' = triggerCnt
    BY <1>1, TickOn
  <2> QED
    BY <1>0, <2>1, <2>2, <2>3, <2>4, <2>5, <2>6 DEF ArmedInv
<1>2. CASE \E t \in Timers, p \in Periods, n \in Intervals : StartCall(t, p, n)
  BY <1>0, <1>2 DEF StartCall, MayCall, ArmedInv, OsInv, TypeOK
<1>3. CASE StartCount \/ StartEnable
  BY <1>0, <1>3 DEF StartCount, StartEnable, ArmedInv, TypeOK
<1>4. CASE StartPeriod \/ StartInterval \/ StartExpire
  BY <1>0, <1>4 DEF StartPeriod, StartInterval, StartExpire, ArmedInv, CallInv,
                    TypeOK
<1>5. CASE StartTrigger
  BY <1>0, <1>5 DEF StartTrigger, ArmedInv, TypeOK
<1>6. CASE StartOs
  BY <1>0, <1>6 DEF StartOs, ArmedInv, CallInv, OsInv, TypeOK
<1>7. CASE \E t \in Timers : StopCall(t)
  BY <1>0, <1>7 DEF StopCall, MayCall, ArmedInv, TypeOK
<1>8. CASE StopCheck \/ StopDisable
  BY <1>0, <1>8 DEF StopCheck, StopDisable, ArmedInv, CallInv, TypeOK
<1>9. CASE StopUntrigger \/ StopUncount
  BY <1>0, <1>9 DEF StopUntrigger, StopUncount, ArmedInv, CallInv, TypeOK
<1>10. CASE StopOs
  <2>1. \A t \in Timers : bEnable'[t] => os_timer'
    BY NextOsInv, <1>10 DEF StopOs, OsInv
  <2>2. UNCHANGED <<bEnable, bPeriod, triggerCnt, loc, scan, cnt, armed>>
        /\ at = "zero"
    BY <1>10 DEF StopOs
  <2> QED
    BY <1>0, <2>1, <2>2 DEF ArmedInv
<1>11. CASE ScanTake
  BY <1>0, <1>11 DEF ScanTake, ArmedInv, CallInv, TypeOK
<1>12. CASE ScanClear
  BY <1>0, <1>12 DEF ScanClear, ArmedInv, CallInv, TypeOK
<1>13. CASE Callback
  BY <1>0, <1>13 DEF Callback, ArmedInv, OsInv, TypeOK
<1>14. CASE Pend
  BY <1>0, <1>14 DEF Pend, ArmedInv, CallInv, TypeOK
<1>15. CASE ScanOn
  BY <1>0, <1>15 DEF ScanOn, ScanNext, ArmedInv, CallInv, TypeOK
<1> QED
  BY <1>1, <1>2, <1>3, <1>4, <1>5, <1>6, <1>7, <1>8, <1>9, <1>10, <1>11,
     <1>12, <1>13, <1>14, <1>15 DEF Next, Task, Call

LEMMA InitExactInv == Init => ExactInv
<1> SUFFICES ASSUME Init PROVE CallInv /\ CountInv /\ OsInv /\ ArmedInv
  BY DEF ExactInv, Whole
<1>1. On = {}
  BY DEF Init, On
<1>2. Cardinality(On) = 0
  BY <1>1, FS_EmptySet
<1>3. CountInv
  BY <1>2 DEF Init, CountInv, Ahead
<1>4. CallInv
  BY DEF Init, CallInv
<1>5. OsInv
  BY DEF Init, OsInv
<1>6. ArmedInv
  BY DEF Init, ArmedInv
<1> QED
  BY <1>3, <1>4, <1>5, <1>6

LEMMA NextExactInv == TypeOK /\ ExactInv /\ [Next]_vars => ExactInv'
<1> SUFFICES ASSUME TypeOK, ExactInv, [Next]_vars, ~torn'
             PROVE  Whole'
  BY DEF ExactInv
<1> USE DEF timerVars, osVars, loopVars, histVars
<1>1. ~torn
  BY DEF Next, Task, Call, vars, Tick, StartCall, StartCount, StartEnable,
         StartPeriod, StartInterval, StartExpire, StartTrigger, StartOs,
         StopCall, StopCheck, StopDisable, StopUntrigger, StopUncount, StopOs,
         Pend, ScanTake, ScanClear, Callback, ScanOn
<1>2. Whole
  BY <1>1 DEF ExactInv
<1>3. CASE Next
  BY <1>2, <1>3, NextCallInv, NextCountInv, NextOsInv, NextArmedInv
     DEF Whole
<1>4. CASE UNCHANGED vars
  BY <1>2, <1>4 DEF vars, Whole, CallInv, CountInv, OsInv, ArmedInv, On, Ahead,
                    Starting, Underway
<1> QED
  BY <1>3, <1>4

(* Only a timer that expires inside a start or a stop can make the counter *)
(* and the list differ or leave a started timer without a tick to come.    *)
THEOREM ExactUntilTorn == Spec => []ExactUnlessTorn
<1>1. TypeOK /\ ExactInv => ExactUnlessTorn
  BY OnCount DEF ExactInv, Whole, CountInv, ArmedInv, ExactUnlessTorn, On, Ahead,
                 Starting
<1> QED
  BY <1>1, InitExactInv, NextExactInv, TypeCorrect, PTL DEF Spec
=============================================================================
