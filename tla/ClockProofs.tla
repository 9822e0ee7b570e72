---------------------------- MODULE ClockProofs ----------------------------
(***************************************************************************)
(* Proofs about the two drivers that keep time.                            *)
(*                                                                         *)
(* The clock, for every Base and every tick and alarm that can be asked    *)
(* for: the period programmed serves both callers (IInv is inductive), no  *)
(* callback is called that should not be (with NotRung and AlarmAsked),    *)
(* and none is missed (with ToCome).                                       *)
(*                                                                         *)
(* The timers, for any channels, priorities and calls.  SingleShotOnce is  *)
(* about a counter that Scan increments when it finds a channel's bit in   *)
(* the status read by Call.  That it was 0 follows from what the channel   *)
(* was asked to do when the status was read (Asking), and from nobody else *)
(* having called the channel since: only the handler of the part looks at  *)
(* it (Serving), at each channel once (Fresh).  A handler serves another   *)
(* part than its own only through an instance that timer_irq_unregister    *)
(* zeroed (Instances), and that is part A of device 0: OwnHandler excepts  *)
(* it.                                                                     *)
(***************************************************************************)
EXTENDS Rtc, Timer, TLAPS

-----------------------------------------------------------------------------
(***************************************************************************)
(* The inductive invariant.                                                *)
(***************************************************************************)
\* What is asked for is what rtc_instance remembers, and nothing else is; the
\* call that withdraws a tick is the only one that finds it unasked for.
TickKept ==
    /\ want.tick.asked => /\ user.on /\ user.callback /\ installed
                          /\ user.mode = want.tick.mode /\ user.mode \in Modes
                          /\ pc \notin {"offw", "clear", "endw"}
    /\ user.on => want.tick.asked \/ pc \in {"offw", "clear"}

\* An alarm is asked for only while no call changes the period, and a period
\* that is fine enough is programmed.
AlarmKept == want.alarm.asked =>
    /\ byAlarm.on /\ byAlarm.callback /\ installed
    /\ ctrl.alarm /\ ctrl.mode <= ModeOf(want.alarm) /\ (cut \/ ctrl.tick)
    /\ pc \in {"idle", "clear"}

\* The tick's period is fine enough, except where it is being changed; there
\* the copy of the control word is what will make it so.
PeriodKept == want.tick.asked =>
    /\ ~Stopped => ctrl.tick
    /\ pc \notin {"mode", "modew"} => ctrl.mode <= user.mode
    /\ pc = "alarmw" => reg.tick
    /\ pc \in {"alarmw", "startw"} => reg.mode <= user.mode

\* rtc_alarm_irq_unregister turns the alarm off first, and what it reads and
\* writes after that leaves it off: no handler changes the period any more.
AlarmStaysOff ==
    /\ pc \in {"forget", "user", "stopw", "mode", "modew", "start", "startw", "endw", "last"}
          => ~ctrl.alarm
    /\ pc \in {"stopw", "modew", "startw", "endw"} => ~reg.alarm

IInv == RtcTypeOK /\ TickKept /\ AlarmKept /\ PeriodKept /\ AlarmStaysOff

\* The period an alarm needs is one the clock has.
LEMMA AlarmMode == ASSUME NEW l \in Alarms PROVE ModeOf(l) \in Modes
<1>1. CASE l.mask \cap 0 .. 2 = {} BY <1>1 DEF ModeOf, Modes
<1>2. CASE l.mask \cap 0 .. 2 # {}
  <2> DEFINE P(m) == m \in l.mask /\ \A u \in l.mask : m <= u
  <2>1. l.mask \subseteq 0 .. 3 BY AlarmsAssumption DEF Modes
  <2>2. \E m \in 0 .. 2 : P(m)
    <3>1. CASE 0 \in l.mask BY <3>1, <2>1
    <3>2. CASE 0 \notin l.mask /\ 1 \in l.mask BY <3>2, <2>1
    <3>3. CASE 0 \notin l.mask /\ 1 \notin l.mask /\ 2 \in l.mask BY <3>3, <2>1
    <3> QED BY <1>2, <3>1, <3>2, <3>3
  <2>3. PICK m \in l.mask : \A u \in l.mask : m <= u BY <2>2
  <2>4. ModeOf(l) = CHOOSE k \in l.mask : \A u \in l.mask : k <= u BY <1>2 DEF ModeOf
  <2>5. ModeOf(l) \in l.mask BY <2>3, <2>4
  <2> QED BY <2>1, <2>5 DEF Modes
<1> QED BY <1>1, <1>2

\* There is a first second in every cycle of the clock.
LEMMA CyclePositive == Cycle \in Nat \ {0}
<1>1. Base * Base \in Nat \ {0} BY BaseAssumption
<1>2. Base * Base * Base \in Nat \ {0} BY <1>1, BaseAssumption
<1>3. Base * Base * Base * Base \in Nat \ {0} BY <1>2, BaseAssumption
<1> QED BY <1>3 DEF Cycle

\* One field of a register or of rtc_instance changed leaves it well typed.
LEMMA WordFields ==
    ASSUME NEW w \in Word, NEW b \in BOOLEAN, NEW m \in Modes
    PROVE  /\ [w EXCEPT !.tick = b] \in Word
           /\ [w EXCEPT !.mode = m] \in Word
           /\ [w EXCEPT !.alarm = b] \in Word
  BY DEF Word
LEMMA SideCleared ==
    ASSUME NEW none, NEW s \in Side(none)
    PROVE  /\ [s EXCEPT !.on = FALSE, !.mode = none] \in Side(none)
           /\ [s EXCEPT !.on = FALSE, !.mode = none, !.callback = FALSE] \in Side(none)
  BY DEF Side

\* What a handler leaves in want and times when it rings.
LEMMA RingTypes ==
    ASSUME RtcTypeOK, NEW c \in Clients, NEW single, Ring(c, single)
    PROVE  want' \in Wants /\ times' \in [Clients -> 0 .. 2] /\ rang' \subseteq Clients
<1>1. want' \in Wants
  <2>1. CASE c = "tick" BY <2>1 DEF RtcTypeOK, Ring, Wants
  <2>2. CASE c = "alarm" BY <2>2 DEF RtcTypeOK, Ring, Wants
  <2> QED BY <2>1, <2>2 DEF Clients
<1>2. times[c] \in 0 .. 2 BY DEF RtcTypeOK
<1>3. (IF times[c] = 2 THEN 2 ELSE times[c] + 1) \in 0 .. 2 BY <1>2
<1>4. times' \in [Clients -> 0 .. 2] BY <1>3 DEF RtcTypeOK, Ring
<1>5. rang' \subseteq Clients BY DEF RtcTypeOK, Ring
<1> QED BY <1>1, <1>4, <1>5

LEMMA InitTypes == ASSUME RtcInit PROVE RtcTypeOK
<1>1. now \in Time BY CyclePositive DEF RtcInit, Time
<1>2. ctrl \in Word /\ reg \in Word BY DEF RtcInit, Word, Modes
<1>3. user \in Side(Unset) /\ byAlarm \in Side(Max) BY DEF RtcInit, Side
<1>4. want \in Wants /\ alarm \in Alarms \cup {No} BY DEF RtcInit, Wants
<1>5. times \in [Clients -> 0 .. 2] BY DEF RtcInit
<1> QED BY <1>1, <1>2, <1>3, <1>4, <1>5 DEF RtcInit, RtcTypeOK, RtcPlaces

LEMMA StepTypes == ASSUME RtcTypeOK, [RtcNext]_rtcVars PROVE RtcTypeOK'
<1> USE DEF RtcTypeOK
<1>1. CASE Second
  <2>1. now' \in Time BY <1>1, CyclePositive DEF Second, Time
  <2>2. due' \subseteq Clients BY <1>1 DEF Second, Due
  <2> QED BY <1>1, <2>1, <2>2 DEF Second, software
<1>2. ASSUME NEW t \in Ticks, TickRegister(t) PROVE RtcTypeOK'
  <2>1. t.mode \in Modes /\ t.single \in BOOLEAN BY TicksAssumption
  <2>2. Finer(byAlarm.on, t.mode) \in Modes BY <2>1 DEF Finer, Word
  <2>3. ctrl' \in Word BY <1>2, <2>2 DEF TickRegister, Word
  <2>4. user' \in Side(Unset) BY <1>2, <2>1 DEF TickRegister, Side
  <2>5. want' \in Wants BY <1>2 DEF TickRegister, Asked, Wants
  <2>6. times' \in [Clients -> 0 .. 2] BY <1>2 DEF TickRegister, Asked, Clients
  <2> QED BY <1>2, <2>3, <2>4, <2>5, <2>6 DEF TickRegister, Asked
<1>3. ASSUME NEW l \in Alarms, AlarmRegister(l) PROVE RtcTypeOK'
  <2>1. ModeOf(l) \in Modes /\ l.single \in BOOLEAN BY AlarmMode, AlarmsAssumption
  <2>2. Finer(user.on, ModeOf(l)) \in Modes BY <2>1 DEF Finer, Word
  <2>3. ctrl' \in Word BY <1>3, <2>2 DEF AlarmRegister, Word
  <2>4. byAlarm' \in Side(Max) BY <1>3, <2>1 DEF AlarmRegister, Side
  <2>5. want' \in Wants BY <1>3 DEF AlarmRegister, Asked, Wants
  <2>6. times' \in [Clients -> 0 .. 2] BY <1>3 DEF AlarmRegister, Asked, Clients
  <2> QED BY <1>3, <2>3, <2>4, <2>5, <2>6 DEF AlarmRegister, Asked
<1>4. CASE Withdraw
  <2> USE DEF InCall, RtcGoto, Read, Write, software, rtcGhosts, Unwanted, RtcPlaces
  <2>1. CASE TickUnregister
    <3>1. want' \in Wants BY <2>1 DEF TickUnregister, Wants
    <3> QED BY <2>1, <3>1 DEF TickUnregister
  <2>2. CASE TickOff
    <3>1. ctrl' \in Word BY <2>2 DEF TickOff, Word
    <3> QED BY <2>2, <3>1 DEF TickOff
  <2>3. CASE TickForget BY <2>3, SideCleared DEF TickForget
  <2>4. CASE AlarmUnregister
    <3>1. want' \in Wants BY <2>4 DEF AlarmUnregister, Wants
    <3> QED BY <2>4, <3>1 DEF AlarmUnregister
  <2>5. CASE AlarmOff
    <3>1. ctrl' \in Word BY <2>5 DEF AlarmOff, Word
    <3> QED BY <2>5, <3>1 DEF AlarmOff
  <2>6. CASE AlarmForget BY <2>6, SideCleared DEF AlarmForget
  <2>7. CASE ForUser BY <2>7 DEF ForUser
  <2>8. CASE Coarser
    <3>1. user.mode % 4 \in Modes BY DEF Side, Modes, Unset
    <3>2. ctrl' \in Word BY <2>8, <3>1, WordFields DEF Coarser
    <3> QED BY <2>8, <3>2 DEF Coarser
  <2>9. CASE Last BY <2>9 DEF Last
  <2> QED BY <1>4, <2>1, <2>2, <2>3, <2>4, <2>5, <2>6, <2>7, <2>8, <2>9 DEF Withdraw
<1>5. CASE Alarm
  <2>1. AfterAlarm \in Word
    <3>1. user.mode % 4 \in Modes BY DEF Side, Modes, Unset
    <3> QED BY <3>1 DEF AfterAlarm, Word, Side
  <2>2. ctrl' \in Word BY <1>5, <2>1 DEF Alarm
  <2>3. byAlarm' \in Side(Max) BY <1>5, SideCleared DEF Alarm
  <2>4. want' \in Wants /\ times' \in [Clients -> 0 .. 2] /\ rang' \subseteq Clients
    BY <1>5, RingTypes DEF Alarm, Clients
  <2> QED BY <1>5, <2>2, <2>3, <2>4 DEF Alarm
<1>6. CASE Tick
  <2>1. ctrl' \in Word
    <3>1. [ctrl EXCEPT !.tick = FALSE] \in Word BY DEF Word
    <3> QED BY <1>6, <3>1 DEF Tick
  <2>2. user' \in Side(Unset) BY <1>6, SideCleared DEF Tick
  <2>3. want' \in Wants /\ times' \in [Clients -> 0 .. 2] /\ rang' \subseteq Clients
    BY <1>6, RingTypes DEF Tick, Clients
  <2>4. cut' \in BOOLEAN BY <1>6 DEF Tick
  <2> QED BY <1>6, <2>1, <2>2, <2>3, <2>4 DEF Tick
<1>7. CASE Dropped BY <1>7 DEF Dropped, software, rtcGhosts
<1>8. CASE UNCHANGED rtcVars BY <1>8 DEF rtcVars, software, rtcGhosts
<1> QED BY <1>1, <1>2, <1>3, <1>4, <1>5, <1>6, <1>7, <1>8 DEF RtcNext

\* Every variable keeps its type.
THEOREM RtcTypeCorrect == RtcSpec => []RtcTypeOK
<1>1. RtcTypeOK /\ [RtcNext]_rtcVars => RtcTypeOK' BY StepTypes
<1> QED BY InitTypes, <1>1, PTL DEF RtcSpec

-----------------------------------------------------------------------------
LEMMA RtcInitInv == ASSUME RtcInit PROVE IInv
<1>1. ~want.tick.asked /\ ~want.alarm.asked BY DEF RtcInit, No
<1>2. ~user.on /\ pc = "idle" BY DEF RtcInit
<1> QED BY <1>1, <1>2, InitTypes DEF IInv, TickKept, AlarmKept, PeriodKept, AlarmStaysOff

\* What the two parts of want become when one of them changes.
LEMMA OneWant ==
    ASSUME RtcTypeOK, NEW r
    PROVE  /\ [want EXCEPT !["tick"] = r].tick = r
           /\ [want EXCEPT !["tick"] = r].alarm = want.alarm
           /\ [want EXCEPT !["alarm"] = r].alarm = r
           /\ [want EXCEPT !["alarm"] = r].tick = want.tick
  BY DEF RtcTypeOK, Wants

LEMMA WantTypes == ASSUME RtcTypeOK, want.alarm.asked PROVE want.alarm \in Alarms
  BY DEF RtcTypeOK, Wants, No

\* A tick registered keeps an alarm's period, or takes a finer one.
LEMMA TickRegisterInv ==
    ASSUME IInv, RtcTypeOK', NEW t \in Ticks, TickRegister(t) PROVE IInv'
<1> USE DEF IInv
<1>1. t.mode \in Modes /\ t.asked BY TicksAssumption
<1>2. want'.tick = t /\ want'.alarm = want.alarm
  BY OneWant DEF TickRegister, Asked
<1>3. user'.on /\ user'.callback /\ user'.mode = t.mode BY DEF TickRegister
<1>4. pc = "idle" /\ pc' = "idle" /\ installed' BY DEF TickRegister, InCall
<1>5. ctrl.mode \in Modes /\ ctrl \in Word BY DEF RtcTypeOK, Word
<1>6. ctrl'.tick /\ ctrl'.alarm = ctrl.alarm /\ ctrl'.mode = Finer(byAlarm.on, t.mode)
  BY <1>5 DEF TickRegister, Word
<1>7. ctrl'.mode <= t.mode BY <1>1, <1>5, <1>6 DEF Finer, Modes
<1>8. TickKept' BY <1>1, <1>2, <1>3, <1>4 DEF TickKept
<1>9. PeriodKept' BY <1>2, <1>3, <1>4, <1>6, <1>7 DEF PeriodKept
<1>10. AlarmKept'
  <2> SUFFICES ASSUME want.alarm.asked PROVE AlarmKept' BY <1>2 DEF AlarmKept
  <2>1. byAlarm.on /\ byAlarm.callback /\ ctrl.alarm /\ ctrl.mode <= ModeOf(want.alarm)
    BY DEF AlarmKept
  <2>2. ModeOf(want.alarm) \in Modes BY WantTypes, AlarmMode
  <2>3. ctrl'.mode <= ModeOf(want.alarm)
    BY <2>1, <2>2, <1>1, <1>5, <1>6 DEF Finer, Modes
  <2> QED BY <2>1, <2>3, <1>2, <1>4, <1>6 DEF AlarmKept, TickRegister
<1>11. AlarmStaysOff' BY <1>4 DEF AlarmStaysOff
<1> QED BY <1>8, <1>9, <1>10, <1>11

\* An alarm registered keeps a tick's period, or takes a finer one.
LEMMA AlarmRegisterInv ==
    ASSUME IInv, RtcTypeOK', NEW l \in Alarms, AlarmRegister(l) PROVE IInv'
<1> USE DEF IInv
<1>1. ModeOf(l) \in Modes /\ l.asked BY AlarmMode, AlarmsAssumption
<1>2. want'.alarm = l /\ want'.tick = want.tick
  BY OneWant DEF AlarmRegister, Asked
<1>3. byAlarm'.on /\ byAlarm'.callback /\ user' = user BY DEF AlarmRegister
<1>4. pc = "idle" /\ pc' = "idle" /\ installed' BY DEF AlarmRegister, InCall
<1>5. ctrl.mode \in Modes BY DEF RtcTypeOK, Word
<1>6. ctrl'.tick /\ ctrl'.alarm /\ ctrl'.mode = Finer(user.on, ModeOf(l))
  BY DEF AlarmRegister
<1>7. ctrl'.mode <= ModeOf(l) BY <1>1, <1>5, <1>6 DEF Finer, Modes
<1>8. TickKept' BY <1>2, <1>3, <1>4 DEF TickKept
<1>9. AlarmKept' BY <1>2, <1>3, <1>4, <1>6, <1>7 DEF AlarmKept
<1>10. PeriodKept'
  <2> SUFFICES ASSUME want.tick.asked PROVE PeriodKept' BY <1>2 DEF PeriodKept
  <2>1. user.on /\ user.mode \in Modes BY DEF TickKept
  <2>2. ctrl.mode <= user.mode BY <1>4 DEF PeriodKept
  <2>3. ctrl'.mode <= user.mode BY <2>1, <2>2, <1>1, <1>5, <1>6 DEF Finer, Modes
  <2> QED BY <2>3, <1>3, <1>4, <1>6 DEF PeriodKept
<1>11. AlarmStaysOff' BY <1>4 DEF AlarmStaysOff
<1> QED BY <1>8, <1>9, <1>10, <1>11

\* The calls that unregister, one step each.
LEMMA UnregisterInv == ASSUME IInv, RtcTypeOK', Withdraw PROVE IInv'
<1> USE DEF IInv
<1>1. ctrl \in Word /\ reg \in Word /\ user \in Side(Unset) /\ want \in Wants
  BY DEF RtcTypeOK
<1>2. CASE TickUnregister
  <2>1. ~want'.tick.asked /\ want'.alarm = want.alarm
    BY <1>2, OneWant DEF TickUnregister, Unwanted, No
  <2>2. pc' = IF ctrl.alarm THEN "clear" ELSE "offw" BY <1>2 DEF TickUnregister, RtcGoto
  <2>3. UNCHANGED <<ctrl, user, byAlarm, installed, cut>> /\ pc = "idle"
    BY <1>2 DEF TickUnregister, RtcGoto, Unwanted, InCall, software
  <2>4. TickKept' BY <2>1, <2>2, <2>3 DEF TickKept
  <2>5. AlarmKept' BY <2>1, <2>2, <2>3 DEF AlarmKept
  <2>6. PeriodKept' BY <2>1 DEF PeriodKept
  <2>7. AlarmStaysOff' BY <2>2 DEF AlarmStaysOff
  <2> QED BY <2>4, <2>5, <2>6, <2>7
<1>3. CASE TickOff
  <2>1. pc = "offw" /\ pc' = "clear" /\ UNCHANGED <<user, byAlarm, want, installed, cut>>
    BY <1>3 DEF TickOff, Write, RtcGoto, InCall, software, rtcGhosts
  <2>2. ~want.tick.asked /\ ~want.alarm.asked BY <2>1 DEF TickKept, AlarmKept
  <2> QED BY <2>1, <2>2 DEF TickKept, AlarmKept, PeriodKept, AlarmStaysOff
<1>4. CASE TickForget
  <2>1. /\ pc = "clear" /\ pc' = "idle" /\ UNCHANGED <<ctrl, byAlarm, want, cut>>
        /\ installed' = (installed /\ byAlarm.callback)
    BY <1>4 DEF TickForget, InCall, rtcGhosts
  <2>2. ~user'.on BY <1>1, <1>4 DEF TickForget, Side
  <2>3. ~want.tick.asked BY <2>1 DEF TickKept
  <2> QED BY <2>1, <2>2, <2>3 DEF TickKept, AlarmKept, PeriodKept, AlarmStaysOff
<1>5. CASE AlarmUnregister
  <2>1. ~want'.alarm.asked /\ want'.tick = want.tick
    BY <1>5, OneWant DEF AlarmUnregister, Unwanted, No
  <2>2. /\ pc = "idle" /\ pc' = "alarmw" /\ reg' = ctrl
        /\ UNCHANGED <<ctrl, user, byAlarm, installed>>
    BY <1>5 DEF AlarmUnregister, RtcGoto, InCall, software
  <2> QED BY <2>1, <2>2 DEF TickKept, AlarmKept, PeriodKept, AlarmStaysOff, Stopped
<1>6. CASE AlarmOff
  <2>1. /\ pc = "alarmw" /\ pc' = "forget"
        /\ UNCHANGED <<reg, user, byAlarm, want, installed>>
    BY <1>6 DEF AlarmOff, Write, RtcGoto, InCall, software, rtcGhosts
  <2>2. ctrl'.tick = reg.tick /\ ctrl'.mode = reg.mode /\ ~ctrl'.alarm
    BY <1>1, <1>6 DEF AlarmOff, Write, Word
  <2> QED BY <2>1, <2>2 DEF TickKept, AlarmKept, PeriodKept, AlarmStaysOff, Stopped
<1>7. CASE AlarmForget
  <2>1. pc = "forget" /\ pc' = "user" /\ UNCHANGED <<ctrl, reg, user, want, installed>>
    BY <1>7 DEF AlarmForget, RtcGoto, InCall, rtcGhosts
  <2> QED BY <2>1 DEF TickKept, AlarmKept, PeriodKept, AlarmStaysOff, Stopped
<1>8. CASE ForUser
  <2>1. /\ pc = "user" /\ UNCHANGED <<ctrl, user, byAlarm, want, installed>>
        /\ \/ user.on /\ pc' = "stopw" /\ reg' = ctrl
           \/ user.on /\ pc' = "last" /\ reg' = reg
           \/ ~user.on /\ pc' = "endw" /\ reg' = ctrl
    BY <1>8 DEF ForUser, Read, RtcGoto, InCall, software, rtcGhosts
  <2> QED BY <2>1 DEF TickKept, AlarmKept, PeriodKept, AlarmStaysOff, Stopped
<1>9. CASE Coarser
  <2>1. UNCHANGED <<user, byAlarm, want, installed>>
    BY <1>9 DEF Coarser, Read, Write, RtcGoto, software, rtcGhosts
  <2>2. want.tick.asked => user.mode % 4 = user.mode
    BY DEF TickKept, Modes
  <2>3. CASE Write("stopw", [reg EXCEPT !.tick = FALSE], "mode")
    <3>1. pc = "stopw" /\ pc' = "mode" /\ reg' = reg BY <2>3 DEF Write, RtcGoto, InCall
    <3>2. ctrl'.alarm = reg.alarm BY <1>1, <2>3 DEF Write, Word
    <3> QED BY <2>1, <3>1, <3>2 DEF TickKept, AlarmKept, PeriodKept, AlarmStaysOff, Stopped
  <2>4. CASE Read("mode", "modew")
    <3>1. pc = "mode" /\ pc' = "modew" /\ reg' = ctrl /\ ctrl' = ctrl
      BY <2>4 DEF Read, RtcGoto, InCall
    <3> QED BY <2>1, <3>1 DEF TickKept, AlarmKept, PeriodKept, AlarmStaysOff, Stopped
  <2>5. CASE Write("modew", [reg EXCEPT !.mode = user.mode % 4], "start")
    <3>1. pc = "modew" /\ pc' = "start" /\ reg' = reg BY <2>5 DEF Write, RtcGoto, InCall
    <3>2. ctrl'.alarm = reg.alarm /\ ctrl'.mode = user.mode % 4
      BY <1>1, <2>5 DEF Write, Word
    <3>3. want.tick.asked => ctrl'.mode <= user.mode
      BY <2>2, <3>2 DEF TickKept, Modes
    <3> QED BY <2>1, <3>1, <3>2, <3>3
            DEF TickKept, AlarmKept, PeriodKept, AlarmStaysOff, Stopped
  <2>6. CASE Read("start", "startw")
    <3>1. pc = "start" /\ pc' = "startw" /\ reg' = ctrl /\ ctrl' = ctrl
      BY <2>6 DEF Read, RtcGoto, InCall
    <3> QED BY <2>1, <3>1 DEF TickKept, AlarmKept, PeriodKept, AlarmStaysOff, Stopped
  <2>7. CASE Write("startw", [reg EXCEPT !.tick = TRUE], "last")
    <3>1. pc = "startw" /\ pc' = "last" /\ reg' = reg BY <2>7 DEF Write, RtcGoto, InCall
    <3>2. ctrl'.tick /\ ctrl'.alarm = reg.alarm /\ ctrl'.mode = reg.mode
      BY <1>1, <2>7 DEF Write, Word
    <3> QED BY <2>1, <3>1, <3>2 DEF TickKept, AlarmKept, PeriodKept, AlarmStaysOff, Stopped
  <2>8. CASE Write("endw", [reg EXCEPT !.tick = FALSE], "last")
    <3>1. pc = "endw" /\ pc' = "last" /\ reg' = reg BY <2>8 DEF Write, RtcGoto, InCall
    <3>2. ctrl'.alarm = reg.alarm BY <1>1, <2>8 DEF Write, Word
    <3> QED BY <2>1, <3>1, <3>2 DEF TickKept, AlarmKept, PeriodKept, AlarmStaysOff, Stopped
  <2> QED BY <1>9, <2>3, <2>4, <2>5, <2>6, <2>7, <2>8 DEF Coarser
<1>10. CASE Last
  <2>1. /\ pc = "last" /\ pc' = "idle" /\ UNCHANGED <<ctrl, reg, user, byAlarm, want>>
        /\ installed' = (installed /\ user.callback)
    BY <1>10 DEF Last, InCall, software, rtcGhosts
  <2> QED BY <2>1 DEF TickKept, AlarmKept, PeriodKept, AlarmStaysOff, Stopped
<1> QED BY <1>2, <1>3, <1>4, <1>5, <1>6, <1>7, <1>8, <1>9, <1>10 DEF Withdraw

\* A single-shot alarm that rings leaves the tick the period it needs.
LEMMA AlarmInv == ASSUME IInv, RtcTypeOK', Alarm PROVE IInv'
<1> USE DEF IInv
<1> DEFINE once == ctrl.alarm /\ Matches(alarm, now) /\ byAlarm.single
<1>1. ctrl \in Word /\ user \in Side(Unset) /\ byAlarm \in Side(Max) BY DEF RtcTypeOK
<1>2. UNCHANGED <<installed, user, pc, reg, cut>> BY DEF Alarm
<1>3. want'.tick = want.tick
  BY OneWant DEF Alarm, Ring
<1>4. CASE ~once
  <2>1. ctrl' = ctrl /\ byAlarm' = byAlarm BY <1>4 DEF Alarm
  <2>2. want' = want BY <1>4 DEF Alarm, Ring
  <2> QED BY <1>2, <2>1, <2>2
          DEF TickKept, AlarmKept, PeriodKept, AlarmStaysOff, Stopped
<1>5. CASE once
  <2>1. ctrl' = AfterAlarm BY <1>5 DEF Alarm
  <2>2. ctrl'.alarm = FALSE BY <1>1, <2>1 DEF AfterAlarm, Word
  <2>3. ~want'.alarm.asked
    <3>1. CASE byAlarm.callback BY <1>5, <3>1, OneWant DEF Alarm, Ring, No
    <3>2. CASE ~byAlarm.callback BY <3>2, <1>5 DEF Alarm, AlarmKept
    <3> QED BY <3>1, <3>2
  <2>4. pc \notin {"forget", "user", "stopw", "mode", "modew", "start", "startw", "endw", "last"}
    BY <1>5 DEF AlarmStaysOff
  <2>5. PeriodKept'
    <3> SUFFICES ASSUME want.tick.asked PROVE PeriodKept' BY <1>3 DEF PeriodKept
    <3>1. user.on /\ user.mode \in Modes BY DEF TickKept
    <3>2. ctrl.tick /\ ctrl.mode <= user.mode BY <2>4 DEF PeriodKept, Stopped
    <3>3. ctrl.mode \in Modes BY <1>1 DEF Word
    <3>4. ctrl'.tick = (IF user.on /\ user.mode <= ctrl.mode THEN ctrl.tick ELSE user.on)
      BY <1>1, <2>1 DEF AfterAlarm, Word
    <3>5. ctrl'.mode = IF user.on /\ user.mode > ctrl.mode THEN user.mode % 4 ELSE ctrl.mode
      BY <1>1, <2>1 DEF AfterAlarm, Word
    <3>6. ctrl'.tick BY <3>1, <3>2, <3>4
    <3>7. ctrl'.mode <= user.mode BY <3>1, <3>2, <3>3, <3>5 DEF Modes
    <3> QED BY <1>2, <3>6, <3>7, <2>4 DEF PeriodKept, Stopped
  <2>6. TickKept' BY <1>2, <1>3 DEF TickKept
  <2>7. AlarmKept' BY <2>3 DEF AlarmKept
  <2>8. AlarmStaysOff' BY <1>2, <2>2, <2>4 DEF AlarmStaysOff
  <2> QED BY <2>5, <2>6, <2>7, <2>8
<1> QED BY <1>4, <1>5

\* A single-shot tick that rings is no longer asked for; an alarm that needed
\* its interrupt is cut.
LEMMA TickInv == ASSUME IInv, RtcTypeOK', Tick PROVE IInv'
<1> USE DEF IInv
<1> DEFINE once == TickDue /\ user.single
<1>1. ctrl \in Word /\ user \in Side(Unset) BY DEF RtcTypeOK
<1>2. UNCHANGED <<installed, byAlarm, pc, reg>> BY DEF Tick
<1>3. want'.alarm = want.alarm BY OneWant DEF Tick, Ring
<1>4. CASE ~once
  <2>1. ctrl' = ctrl /\ user' = user BY <1>4 DEF Tick
  <2>2. want' = want BY <1>4 DEF Tick, Ring
  <2>3. cut' = cut BY <1>4 DEF Tick, RtcTypeOK
  <2> QED BY <1>2, <2>1, <2>2, <2>3
          DEF TickKept, AlarmKept, PeriodKept, AlarmStaysOff, Stopped
<1>5. CASE once
  <2>1. ctrl'.alarm = ctrl.alarm /\ ctrl'.mode = ctrl.mode
    BY <1>1, <1>5 DEF Tick, Word
  <2>2. ~user'.on BY <1>1, <1>5 DEF Tick, Side
  <2>3. ~want'.tick.asked
    <3>1. CASE user.callback BY <1>5, <3>1, OneWant DEF Tick, Ring, No
    <3>2. CASE ~user.callback BY <3>2, <1>5 DEF Tick, TickKept
    <3> QED BY <3>1, <3>2
  <2>4. want.alarm.asked => cut' BY <1>5 DEF Tick
  <2>5. TickKept' BY <2>2, <2>3 DEF TickKept
  <2>6. AlarmKept' BY <1>2, <1>3, <2>1, <2>4 DEF AlarmKept
  <2>7. PeriodKept' BY <2>3 DEF PeriodKept
  <2>8. AlarmStaysOff' BY <1>2, <2>1 DEF AlarmStaysOff
  <2> QED BY <2>5, <2>6, <2>7, <2>8
<1> QED BY <1>4, <1>5

LEMMA StepInv == ASSUME IInv, [RtcNext]_rtcVars PROVE IInv'
<1>1. RtcTypeOK' BY StepTypes DEF IInv
<1>2. CASE Second \/ Dropped \/ UNCHANGED rtcVars
  <2>1. UNCHANGED <<ctrl, installed, user, byAlarm, pc, reg, want, cut>>
    BY <1>2 DEF Second, Dropped, rtcVars, software, rtcGhosts
  <2> QED BY <1>1, <2>1 DEF IInv, TickKept, AlarmKept, PeriodKept, AlarmStaysOff, Stopped
<1> QED BY <1>1, <1>2, TickRegisterInv, AlarmRegisterInv, UnregisterInv, AlarmInv, TickInv
        DEF RtcNext

\* Between two calls the programmed period is fine enough for both callers,
\* whatever was registered, unregistered and rung before.
THEOREM AlwaysFineEnough == RtcSpec => []FineEnough
<1>1. IInv /\ [RtcNext]_rtcVars => IInv' BY StepInv
<1>2. IInv => FineEnough
  <2> SUFFICES ASSUME IInv, pc = "idle" PROVE FineEnough BY DEF FineEnough
  <2>1. want.tick.asked => installed /\ ctrl.tick /\ ctrl.mode <= want.tick.mode
    BY DEF IInv, TickKept, PeriodKept, Stopped
  <2> QED BY <2>1 DEF FineEnough, IInv, AlarmKept
<1> QED BY RtcInitInv, <1>1, <1>2, PTL DEF RtcSpec

-----------------------------------------------------------------------------
(***************************************************************************)
(* No callback is called that should not be.                               *)
(***************************************************************************)
\* What is asked for once has not rung yet while the clock, or the handler,
\* still looks for it.
NotRung ==
    /\ user.on /\ user.single => times["tick"] = 0
    /\ ctrl.alarm /\ byAlarm.single => times["alarm"] = 0

\* An alarm that can be called is asked for, or its withdrawal is about to
\* turn it off; no copy of the control word turns it on again.
AlarmAsked ==
    /\ want.alarm.asked => alarm = want.alarm
    /\ ctrl.alarm /\ byAlarm.callback => want.alarm.asked \/ pc = "alarmw"
    /\ pc = "offw" => ~reg.alarm

RInv == IInv /\ NotRung /\ AlarmAsked

\* What of times and want changes when a client registers or rings.
LEMMA TimesFacts ==
    ASSUME RtcTypeOK, NEW n
    PROVE  /\ [times EXCEPT !["tick"] = n]["tick"] = n
           /\ [times EXCEPT !["tick"] = n]["alarm"] = times["alarm"]
           /\ [times EXCEPT !["alarm"] = n]["alarm"] = n
           /\ [times EXCEPT !["alarm"] = n]["tick"] = times["tick"]
  BY DEF RtcTypeOK, Clients

LEMMA StepRings == ASSUME RInv, [RtcNext]_rtcVars PROVE NotRung' /\ AlarmAsked'
<1> USE DEF RInv, IInv
<1>1. IInv' BY StepInv
<1>2. ctrl \in Word /\ reg \in Word /\ user \in Side(Unset) /\ byAlarm \in Side(Max) BY DEF RtcTypeOK
<1>3. CASE Second \/ Dropped \/ UNCHANGED rtcVars
  <2>1. UNCHANGED <<ctrl, alarm, user, byAlarm, pc, reg, want, times>>
    BY <1>3 DEF Second, Dropped, rtcVars, software, rtcGhosts
  <2> QED BY <2>1 DEF NotRung, AlarmAsked
<1>4. ASSUME NEW t \in Ticks, TickRegister(t) PROVE NotRung' /\ AlarmAsked'
  <2>1. want'.alarm = want.alarm /\ times'["tick"] = 0 /\ times'["alarm"] = times["alarm"]
    BY <1>4, OneWant, TimesFacts DEF TickRegister, Asked
  <2>2. ctrl'.alarm = ctrl.alarm BY <1>2, <1>4 DEF TickRegister, Word
  <2>3. UNCHANGED <<alarm, byAlarm, pc, reg>> BY <1>4 DEF TickRegister
  <2> QED BY <2>1, <2>2, <2>3 DEF NotRung, AlarmAsked
<1>5. ASSUME NEW l \in Alarms, AlarmRegister(l) PROVE NotRung' /\ AlarmAsked'
  <2>1. want'.alarm = l /\ times'["alarm"] = 0 /\ times'["tick"] = times["tick"]
    BY <1>5, OneWant, TimesFacts DEF AlarmRegister, Asked
  <2>2. l.asked /\ alarm' = l /\ user' = user /\ pc' = "idle"
    BY <1>5, AlarmsAssumption DEF AlarmRegister, InCall
  <2> QED BY <2>1, <2>2 DEF NotRung, AlarmAsked
<1>6. CASE Withdraw
  <2>1. times' = times /\ alarm' = alarm
    BY <1>6 DEF Withdraw, TickUnregister, TickOff, TickForget, AlarmUnregister, AlarmOff,
                AlarmForget, ForUser, Coarser, Last, Read, Write, RtcGoto, Unwanted, rtcGhosts
  <2>2. CASE TickUnregister
    <3>1. want'.alarm = want.alarm BY <2>2, OneWant DEF TickUnregister, Unwanted
    <3>2. pc' = IF ctrl.alarm THEN "clear" ELSE "offw" BY <2>2 DEF TickUnregister, RtcGoto
    <3>3. reg' = ctrl /\ UNCHANGED <<ctrl, user, byAlarm>> /\ pc = "idle"
      BY <2>2 DEF TickUnregister, InCall, software
    <3> QED BY <2>1, <3>1, <3>2, <3>3 DEF NotRung, AlarmAsked
  <2>3. CASE TickOff
    <3>1. pc = "offw" /\ pc' = "clear" /\ UNCHANGED <<user, byAlarm, want>>
      BY <2>3 DEF TickOff, Write, RtcGoto, InCall, software, rtcGhosts
    <3>2. ctrl'.alarm = reg.alarm BY <1>2, <2>3 DEF TickOff, Write, Word
    <3> QED BY <2>1, <3>1, <3>2 DEF NotRung, AlarmAsked
  <2>4. CASE TickForget
    <3>1. ~user'.on BY <1>2, <2>4 DEF TickForget, Side
    <3>2. pc = "clear" /\ pc' = "idle" /\ UNCHANGED <<ctrl, byAlarm, want>>
      BY <2>4 DEF TickForget, InCall, rtcGhosts
    <3> QED BY <2>1, <3>1, <3>2 DEF NotRung, AlarmAsked
  <2>5. CASE AlarmUnregister
    <3>1. ~want'.alarm.asked BY <2>5, OneWant DEF AlarmUnregister, Unwanted, No
    <3>2. pc' = "alarmw" /\ UNCHANGED <<ctrl, user, byAlarm>>
      BY <2>5 DEF AlarmUnregister, RtcGoto, software
    <3> QED BY <2>1, <3>1, <3>2 DEF NotRung, AlarmAsked
  <2>6. CASE AlarmOff \/ AlarmForget \/ ForUser \/ Coarser \/ Last
    <3>1. UNCHANGED <<user, want>> /\ pc' # "offw"
      BY <2>6 DEF AlarmOff, AlarmForget, ForUser, Coarser, Last, Read, Write, RtcGoto, InCall,
                  software, rtcGhosts
    <3>2. ~ctrl'.alarm
      <4>1. CASE Last BY <4>1 DEF Last, InCall, AlarmStaysOff
      <4>2. CASE AlarmOff \/ AlarmForget \/ ForUser \/ Coarser
        <5>1. pc' \in {"forget", "user", "stopw", "mode", "modew", "start", "startw", "endw", "last"}
          BY <4>2 DEF AlarmOff, AlarmForget, ForUser, Coarser, Read, Write, RtcGoto
        <5> QED BY <1>1, <5>1 DEF AlarmStaysOff
      <4> QED BY <2>6, <4>1, <4>2
    <3> QED BY <2>1, <3>1, <3>2 DEF NotRung, AlarmAsked
  <2> QED BY <1>6, <2>2, <2>3, <2>4, <2>5, <2>6 DEF Withdraw
<1>7. CASE Alarm
  <2>1. UNCHANGED <<alarm, user, pc, reg>> BY <1>7 DEF Alarm
  <2>2. times'["tick"] = times["tick"] BY <1>7, TimesFacts DEF Alarm, Ring
  <2>3. CASE ctrl.alarm /\ Matches(alarm, now) /\ byAlarm.single
    <3>1. ctrl' = AfterAlarm BY <1>7, <2>3 DEF Alarm
    <3>2. ctrl'.alarm = FALSE BY <1>2, <3>1 DEF AfterAlarm, Word
    <3>3. want'.alarm = want.alarm \/ ~want'.alarm.asked
      BY <1>7, OneWant DEF Alarm, Ring, No
    <3> QED BY <2>1, <2>2, <3>2, <3>3 DEF NotRung, AlarmAsked
  <2>4. CASE ~(ctrl.alarm /\ Matches(alarm, now) /\ byAlarm.single)
    <3>1. UNCHANGED <<ctrl, byAlarm, want>> BY <1>7, <2>4 DEF Alarm, Ring
    <3>2. ctrl.alarm /\ byAlarm.single => times' = times BY <1>7, <2>4 DEF Alarm
    <3> QED BY <2>1, <2>2, <3>1, <3>2 DEF NotRung, AlarmAsked
  <2> QED BY <2>3, <2>4
<1>8. CASE Tick
  <2>1. UNCHANGED <<alarm, byAlarm, pc, reg>> BY <1>8 DEF Tick
  <2>2. want'.alarm = want.alarm /\ times'["alarm"] = times["alarm"]
    BY <1>8, OneWant, TimesFacts DEF Tick, Ring
  <2>3. ctrl'.alarm = ctrl.alarm BY <1>2, <1>8 DEF Tick, Word
  <2>4. user'.on /\ user'.single => times'["tick"] = 0
    <3>1. CASE TickDue /\ user.single
      <4>1. ~user'.on BY <1>2, <1>8, <3>1 DEF Tick, Side
      <4> QED BY <4>1
    <3>2. CASE ~(TickDue /\ user.single)
      <4>1. user' = user BY <1>8, <3>2 DEF Tick
      <4>2. user.on /\ user.single => times' = times BY <1>8, <3>2 DEF Tick
      <4> QED BY <4>1, <4>2 DEF NotRung
    <3> QED BY <3>1, <3>2
  <2> QED BY <2>1, <2>2, <2>3, <2>4 DEF NotRung, AlarmAsked
<1> QED BY <1>3, <1>4, <1>5, <1>6, <1>7, <1>8 DEF RtcNext

LEMMA InitRings == ASSUME RtcInit PROVE RInv
<1>1. ~want.alarm.asked /\ ~ctrl.alarm BY DEF RtcInit, No
<1>2. times["tick"] = 0 /\ pc = "idle" BY DEF RtcInit, Clients
<1> QED BY <1>1, <1>2, RtcInitInv DEF RInv, NotRung, AlarmAsked

\* A callback is called only while it is asked for or is being withdrawn, at
\* its time, and once if it is asked for once: for every base, tick and alarm.
THEOREM RingsAsAsked == RtcSpec => CalledAsAsked
<1> DEFINE Step == \A c \in rang' \ rang :
       /\ want[c].asked \/ pc # "idle"
       /\ want[c].asked => IF c = "tick" THEN Begins(want[c].mode, now)
                                         ELSE Matches(want[c], now)
       /\ (IF c = "tick" THEN user ELSE byAlarm).single => times[c] = 0
<1>1. RtcInit => RInv BY InitRings
<1>2. RInv /\ [RtcNext]_rtcVars => RInv' BY StepInv, StepRings DEF RInv
<1>3. RInv /\ [RtcNext]_rtcVars => [Step]_rtcVars
  <2> SUFFICES ASSUME RInv, RtcNext, NEW c \in rang' \ rang
               PROVE  /\ want[c].asked \/ pc # "idle"
                      /\ want[c].asked => IF c = "tick" THEN Begins(want[c].mode, now)
                                                        ELSE Matches(want[c], now)
                      /\ (IF c = "tick" THEN user ELSE byAlarm).single => times[c] = 0
    OBVIOUS
  <2> USE DEF RInv, IInv
  <2>1. Alarm \/ Tick
    BY DEF RtcNext, Second, Dropped, TickRegister, AlarmRegister, Asked, Withdraw, TickUnregister,
           TickOff, TickForget, AlarmUnregister, AlarmOff, AlarmForget, ForUser, Coarser, Last,
           Read, Write, RtcGoto, Unwanted, rtcGhosts
  <2>2. CASE Alarm
    <3>1. c = "alarm" /\ ctrl.alarm /\ Matches(alarm, now) /\ byAlarm.callback
      BY <2>2 DEF Alarm, Ring
    <3>2. want["alarm"] = want.alarm OBVIOUS
    <3> QED BY <3>1, <3>2 DEF NotRung, AlarmAsked
  <2>3. CASE Tick
    <3>1. c = "tick" /\ TickDue /\ user.callback BY <2>3 DEF Tick, Ring
    <3>2. want["tick"] = want.tick OBVIOUS
    <3> QED BY <3>1, <3>2 DEF TickDue, NotRung, TickKept
  <2> QED BY <2>1, <2>2, <2>3
<1> HIDE DEF Step
<1>4. RtcSpec => [][Step]_rtcVars BY <1>1, <1>2, <1>3, PTL DEF RtcSpec
<1> QED BY <1>4 DEF Step, CalledAsAsked

-----------------------------------------------------------------------------
(***************************************************************************)
(* And none is missed.                                                     *)
(***************************************************************************)
\* A multiple of a product is a multiple of its factors.
LEMMA Multiple ==
    ASSUME NEW a \in Nat \ {0}, NEW b \in Nat \ {0}, NEW n \in Nat, n % (a * b) = 0
    PROVE  n % a = 0
<1>1. PICK c \in Nat \ {0} : c = a * b OBVIOUS
<1>2. PICK q \in Nat : n = c * q
  <2>1. n % c = 0 BY <1>1
  <2> QED BY <2>1
<1>3. PICK t \in Nat : t = b * q OBVIOUS
<1>4. n = a * t BY <1>1, <1>2, <1>3
<1>5. (a * t) % a = 0 OBVIOUS
<1> QED BY <1>4, <1>5

\* A day begins with an hour, an hour with a minute, a minute with a second.
LEMMA Finer_Begins ==
    ASSUME NEW m \in Modes, NEW k \in Modes, k <= m, NEW n \in Nat, Begins(m, n)
    PROVE  Begins(k, n)
<1> USE BaseAssumption
<1>1. Begins(0, n) BY DEF Begins, Period
<1>2. Begins(2, n) => Begins(1, n) BY Multiple DEF Begins, Period
<1>3. Begins(3, n) => Begins(2, n)
  <2>1. PICK s \in Nat \ {0} : s = Base * Base OBVIOUS
  <2>2. (n % (s * Base) = 0) => n % s = 0 BY <2>1, Multiple
  <2> QED BY <2>1, <2>2 DEF Begins, Period
<1> QED BY <1>1, <1>2, <1>3 DEF Modes

\* What is still to ring in this second is asked for at this time, and the
\* part of the handler that will call it is still to come.
ToCome ==
    /\ "tick" \in due \ rang => /\ want.tick.asked /\ Begins(want.tick.mode, now)
                                /\ pend \/ isr = "tick"
    /\ "alarm" \in due \ rang => want.alarm.asked /\ Matches(want.alarm, now) /\ pend

LEMMA StepToCome == ASSUME RInv, ToCome, [RtcNext]_rtcVars PROVE ToCome'
<1> USE DEF RInv, IInv
<1>1. CASE UNCHANGED rtcVars BY <1>1 DEF rtcVars, rtcGhosts, ToCome
<1>2. CASE Second
  <2>1. now' \in Nat BY <1>2, StepTypes, CyclePositive DEF RtcTypeOK, Time
  <2>2. ctrl.mode \in Modes BY DEF RtcTypeOK, Word
  <2>3. want' = want /\ rang' = {} /\ due' = Due(now')
        /\ (ctrl.tick /\ Begins(ctrl.mode, now') => pend')
    BY <1>2 DEF Second
  <2>4. ASSUME "tick" \in due' PROVE want.tick.asked /\ Begins(want.tick.mode, now') /\ pend'
    <3>1. want.tick.asked /\ ~Stopped /\ Begins(want.tick.mode, now')
      BY <2>3, <2>4 DEF Due
    <3>2. ctrl.tick /\ ctrl.mode <= want.tick.mode /\ want.tick.mode \in Modes
      BY <3>1 DEF PeriodKept, TickKept, Stopped
    <3> QED BY <2>1, <2>2, <2>3, <3>1, <3>2, Finer_Begins
  <2>5. ASSUME "alarm" \in due'
        PROVE  want.alarm.asked /\ Matches(want.alarm, now') /\ pend'
    <3>1. want.alarm.asked /\ ~cut /\ Matches(want.alarm, now') /\ Begins(ModeOf(want.alarm), now')
      BY <2>3, <2>5 DEF Due
    <3>2. ctrl.tick /\ ctrl.mode <= ModeOf(want.alarm) BY <3>1 DEF AlarmKept
    <3>3. ModeOf(want.alarm) \in Modes BY <3>1, WantTypes, AlarmMode
    <3> QED BY <2>1, <2>2, <2>3, <3>1, <3>2, <3>3, Finer_Begins
  <2> QED BY <2>3, <2>4, <2>5 DEF ToCome
<1>3. ASSUME NEW t \in Ticks, TickRegister(t) PROVE ToCome'
  <2>1. want'.alarm = want.alarm BY <1>3, OneWant DEF TickRegister, Asked
  <2> QED BY <1>3, <2>1 DEF TickRegister, Asked, ToCome
<1>4. ASSUME NEW l \in Alarms, AlarmRegister(l) PROVE ToCome'
  <2>1. want'.tick = want.tick BY <1>4, OneWant DEF AlarmRegister, Asked
  <2> QED BY <1>4, <2>1 DEF AlarmRegister, Asked, ToCome
<1>5. CASE Withdraw
  <2>1. UNCHANGED <<now, pend, isr, rang>>
    BY <1>5 DEF Withdraw, TickUnregister, TickOff, TickForget, AlarmUnregister, AlarmOff,
                AlarmForget, ForUser, Coarser, Last, Read, Write, RtcGoto, Unwanted, rtcGhosts
  <2>2. \/ UNCHANGED <<want, due>>
        \/ Unwanted("tick")
        \/ Unwanted("alarm")
    BY <1>5 DEF Withdraw, TickUnregister, TickOff, TickForget, AlarmUnregister, AlarmOff,
                AlarmForget, ForUser, Coarser, Last, Read, Write, RtcGoto, rtcGhosts
  <2>3. CASE UNCHANGED <<want, due>> BY <2>1, <2>3 DEF ToCome
  <2>4. CASE Unwanted("tick")
    <3>1. want'.alarm = want.alarm /\ due' = due \ {"tick"} BY <2>4, OneWant DEF Unwanted
    <3> QED BY <2>1, <3>1 DEF ToCome
  <2>5. CASE Unwanted("alarm")
    <3>1. want'.tick = want.tick /\ due' = due \ {"alarm"} BY <2>5, OneWant DEF Unwanted
    <3> QED BY <2>1, <3>1 DEF ToCome
  <2> QED BY <2>2, <2>3, <2>4, <2>5
<1>6. CASE Alarm
  <2>1. want'.tick = want.tick /\ now' = now /\ due' = due /\ rang \subseteq rang' /\ isr' = "tick"
    BY <1>6, OneWant DEF Alarm, Ring
  <2>2. ASSUME "alarm" \in due' \ rang' PROVE FALSE
    <3>1. want.alarm.asked /\ Matches(want.alarm, now) BY <2>1, <2>2 DEF ToCome
    <3>2. ctrl.alarm /\ Matches(alarm, now) /\ byAlarm.callback BY <3>1 DEF AlarmKept, AlarmAsked
    <3>3. "alarm" \in rang' BY <1>6, <3>2 DEF Alarm, Ring
    <3> QED BY <2>2, <3>3
  <2> QED BY <2>1, <2>2 DEF ToCome
<1>7. CASE Tick
  <2>1. /\ want'.alarm = want.alarm /\ now' = now /\ due' = due /\ rang \subseteq rang'
        /\ pend' = pend
    BY <1>7, OneWant DEF Tick, Ring
  <2>2. ASSUME "tick" \in due' \ rang' PROVE FALSE
    <3>1. want.tick.asked /\ Begins(want.tick.mode, now) BY <2>1, <2>2 DEF ToCome
    <3>2. TickDue /\ user.callback BY <3>1 DEF TickKept, TickDue
    <3>3. "tick" \in rang' BY <1>7, <3>2 DEF Tick, Ring
    <3> QED BY <2>2, <3>3
  <2> QED BY <2>1, <2>2 DEF ToCome
<1>8. CASE Dropped
  <2>1. ~installed /\ UNCHANGED <<now, isr, want, due, rang>> BY <1>8 DEF Dropped, rtcGhosts
  <2>2. ~want.tick.asked /\ ~want.alarm.asked BY <2>1 DEF TickKept, AlarmKept
  <2> QED BY <2>1, <2>2 DEF ToCome
<1> QED BY <1>1, <1>2, <1>3, <1>4, <1>5, <1>6, <1>7, <1>8 DEF RtcNext

\* When a second begins, what was to ring in the one before has rung: for
\* every base, every tick and alarm, and whatever calls come in between.
THEOREM RingsOnTime == RtcSpec => OnTime
<1>1. RtcInit => RInv /\ ToCome
  <2>1. ASSUME RtcInit PROVE ToCome BY <2>1 DEF RtcInit, ToCome
  <2> QED BY <2>1, InitRings
<1>2. RInv /\ ToCome /\ [RtcNext]_rtcVars => (RInv /\ ToCome)'
  BY StepInv, StepRings, StepToCome DEF RInv
<1>3. RInv /\ ToCome /\ [RtcNext]_rtcVars => [Second => due \subseteq rang]_rtcVars
  BY DEF Second, ToCome, RInv, IInv, RtcTypeOK, Clients
<1> QED BY <1>1, <1>2, <1>3, PTL DEF RtcSpec, OnTime

-----------------------------------------------------------------------------
(***************************************************************************)
(* The timers.                                                             *)
(***************************************************************************)
\* The instance that a registered channel has.
Registered(c) == [device |-> c[1], channel |-> c[2], callback |-> TRUE, single |-> c \in Single]

\* An instance is as timer_irq_register or as timer_irq_unregister leaves it,
\* and a part has an instance of its own channels registered.
Instances ==
    /\ \A c \in Used : instance[c] \in {Zeroed, Registered(c)}
    /\ \A p \in Parts : registered[p] # None => PartOf(registered[p]) = p

\* What a channel was last asked to do, whether or not it rings.
Asking == \A c \in Used :
    /\ asked[c] = "start" => c \in on
    /\ asked[c] = "start" => ~(Ringing(c) /\ instance[c].single)
    /\ asked[c] = "stop" /\ c \in on => Ringing(c) /\ instance[c].single

\* A handler serves its own part, or that of a zeroed instance.
Serving == \A p \in Parts :
    at[p] \in {"scan", "callback", "after", "eoi"} =>
      /\ local[p].part \in {p, <<0, 0>>}
      /\ local[p].i \in 2 * local[p].part[2] .. 2 * local[p].part[2] + 2
      /\ at[p] # "scan" => local[p].i # 2 * local[p].part[2] + 2

\* A single shot that a handler has yet to look at has not rung since its start.
Ahead(p, c) == \/ at[p] = "scan" /\ local[p].i <= c[2]
               \/ at[p] \in {"callback", "after", "eoi"} /\ local[p].i < c[2]
Fresh == \A c \in Single : OwnHandler(c) =>
    /\ asked[c] = "start" => rings[c] = 0
    /\ asked[c] # "lost" => rings[c] <= 1
    /\ c \in local[PartOf(c)].stat /\ Ahead(PartOf(c), c) => asked[c] = "lost" \/ rings[c] = 0

-----------------------------------------------------------------------------
(***************************************************************************)
(* Channels, parts, and the four calls.                                    *)
(***************************************************************************)
LEMMA PartFacts ==
    /\ \A c \in Used : /\ c \in (0 .. 2) \X (0 .. 3) /\ c = <<c[1], c[2]>>
                       /\ c[1] \in 0 .. 2 /\ c[2] \in 0 .. 3
                       /\ PartOf(c) \in Parts
                       /\ PartOf(c)[1] = c[1] /\ PartOf(c)[2] \in {0, 1}
                       /\ 2 * PartOf(c)[2] <= c[2] /\ c[2] < 2 * PartOf(c)[2] + 2
    /\ \A p \in Parts : p \in (0 .. 2) \X (0 .. 1) /\ p = <<p[1], p[2]>>
<1>1. ASSUME NEW c \in Used
      PROVE  /\ c \in (0 .. 2) \X (0 .. 3) /\ c = <<c[1], c[2]>>
             /\ c[1] \in 0 .. 2 /\ c[2] \in 0 .. 3
  BY UsedAssumption
<1>2. ASSUME NEW c \in Used
      PROVE  /\ PartOf(c) \in Parts
             /\ PartOf(c)[1] = c[1] /\ PartOf(c)[2] \in {0, 1}
             /\ 2 * PartOf(c)[2] <= c[2] /\ c[2] < 2 * PartOf(c)[2] + 2
             /\ PartOf(c) \in (0 .. 2) \X (0 .. 1)
  <2>1. c[2] = 0 \/ c[2] = 1 \/ c[2] = 2 \/ c[2] = 3 BY <1>1
  <2>2. c[2] \div 2 = IF c[2] < 2 THEN 0 ELSE 1 BY <2>1
  <2> QED BY <1>1, <2>1, <2>2 DEF PartOf, Parts
<1>3. ASSUME NEW p \in Parts PROVE p \in (0 .. 2) \X (0 .. 1) /\ p = <<p[1], p[2]>>
  BY <1>2 DEF Parts
<1> QED BY <1>1, <1>2, <1>3

LEMMA InstanceFacts ==
    ASSUME Instances, NEW c \in Used
    PROVE  /\ instance[c] \in {Zeroed, Registered(c)}
           /\ ~Zeroed.callback /\ ~Zeroed.single
           /\ Registered(c).callback /\ (Registered(c).single <=> c \in Single)
           /\ instance[c].callback \in BOOLEAN /\ instance[c].single \in BOOLEAN
           /\ instance[c].callback => (instance[c].single <=> c \in Single)
           /\ ~instance[c].callback => instance[c] = Zeroed
           /\ instance[c].single => instance[c].callback /\ c \in Single
<1>1. instance[c] \in {Zeroed, Registered(c)} BY DEF Instances
<1>2. PICK b \in BOOLEAN : b <=> c \in Single OBVIOUS
<1>3. Registered(c) = [device |-> c[1], channel |-> c[2], callback |-> TRUE, single |-> b]
  BY <1>2, Zenon DEF Registered
<1>4. Registered(c).callback = TRUE /\ Registered(c).single = b BY <1>3
<1>5. Zeroed.callback = FALSE /\ Zeroed.single = FALSE BY DEF Zeroed
<1> QED BY <1>1, <1>2, <1>4, <1>5

\* One of the calls, for c.
Calls(c) == Start(c) \/ Stop(c) \/ Register(c) \/ Unregister(c)
LEMMA DoCalls == ASSUME NEW ops, Do(ops) PROVE \E c \in Used : Calls(c)
  BY DEF Do, Calls

\* A call has typed results, and keeps what is known of instances.
LEMMA CallTypes ==
    ASSUME TypeOK, Instances, NEW c \in Used, Calls(c)
    PROVE  /\ instance' \in [Used -> [device : 0 .. 2, channel : 0 .. 3, callback : BOOLEAN, single : BOOLEAN]]
           /\ registered' \in [Parts -> Used \cup {None}]
           /\ enabled' \subseteq Parts
           /\ on' \subseteq Used /\ raised' \subseteq Used
           /\ asked' \in [Used -> {"stop", "start", "lost"}]
           /\ rings' \in [Used -> 0 .. 2]
           /\ Instances'
<1> USE DEF TypeOK
<1>0. PartOf(c) \in Parts /\ c[1] \in 0 .. 2 /\ c[2] \in 0 .. 3 BY PartFacts
<1>1. CASE Start(c) BY <1>1, <1>0 DEF Start, table, Instances
<1>2. CASE Stop(c) BY <1>2, <1>0 DEF Stop, table, Instances
<1>3. CASE Register(c)
  <2>1. (c \in Single) \in BOOLEAN OBVIOUS
  <2>2. instance' = [instance EXCEPT ![c] = Registered(c)] BY <1>3 DEF Register, Registered
  <2>3. Registered(c) \in [device : 0 .. 2, channel : 0 .. 3, callback : BOOLEAN, single : BOOLEAN]
    BY <1>0 DEF Registered
  <2>4. instance' \in [Used -> [device : 0 .. 2, channel : 0 .. 3, callback : BOOLEAN, single : BOOLEAN]]
    BY <2>2, <2>3
  <2>5. registered' \in [Parts -> Used \cup {None}] /\ enabled' \subseteq Parts
        /\ on' \subseteq Used /\ raised' \subseteq Used
        /\ rings' \in [Used -> 0 .. 2] /\ asked' \in [Used -> {"stop", "start", "lost"}]
    BY <1>3, <1>0 DEF Register, device
  <2>6. ASSUME NEW d \in Used PROVE instance'[d] \in {Zeroed, Registered(d)}
    BY <2>2, <2>6 DEF Instances
  <2>7. ASSUME NEW p \in Parts, registered'[p] # None PROVE PartOf(registered'[p]) = p
    BY <1>3, <1>0, <2>7 DEF Register, Instances
  <2> QED BY <2>4, <2>5, <2>6, <2>7 DEF Instances
<1>4. CASE Unregister(c)
  <2>1. Zeroed \in [device : 0 .. 2, channel : 0 .. 3, callback : BOOLEAN, single : BOOLEAN]
    BY DEF Zeroed
  <2>2. instance' \in [Used -> [device : 0 .. 2, channel : 0 .. 3, callback : BOOLEAN, single : BOOLEAN]]
    BY <1>4, <2>1 DEF Unregister
  <2>3. registered' = registered \/ registered' = [registered EXCEPT ![PartOf(c)] = None]
    BY <1>4 DEF Unregister
  <2>4. registered' \in [Parts -> Used \cup {None}] BY <2>3, <1>0
  <2>5. enabled' \subseteq Parts
        /\ on' \subseteq Used /\ raised' \subseteq Used
        /\ rings' \in [Used -> 0 .. 2] /\ asked' \in [Used -> {"stop", "start", "lost"}]
    BY <1>4, <1>0 DEF Unregister, device
  <2>6. ASSUME NEW d \in Used PROVE instance'[d] \in {Zeroed, Registered(d)}
    BY <1>4, <2>6 DEF Instances, Unregister
  <2>7. ASSUME NEW p \in Parts, registered'[p] # None PROVE PartOf(registered'[p]) = p
    BY <2>3, <1>0, <2>7 DEF Instances
  <2> QED BY <2>2, <2>4, <2>5, <2>6, <2>7 DEF Instances
<1> QED BY <1>1, <1>2, <1>3, <1>4 DEF Calls

\* What the handler of p looks at belongs to the part it serves.
LEMMA CurrentFacts ==
    ASSUME TypeOK, Serving, NEW p \in Parts,
           at[p] \in {"scan", "callback", "after", "eoi"},
           at[p] = "scan" => local[p].i # 2 * local[p].part[2] + 2
    PROVE  /\ local[p].i + 1 \in 0 .. 4
           /\ local[p].i + 1 \in 2 * local[p].part[2] .. 2 * local[p].part[2] + 2
           /\ \A c \in Used : Current(p) = c =>
                PartOf(c) = local[p].part /\ c[2] = local[p].i
           /\ \A c \in Used : OwnHandler(c) /\ Current(p) = c => PartOf(c) = p
<1>1. /\ local[p].part \in {p, <<0, 0>>}
      /\ local[p].i \in 2 * local[p].part[2] .. 2 * local[p].part[2] + 2
      /\ local[p].i # 2 * local[p].part[2] + 2
  BY DEF Serving
<1>2. p = <<p[1], p[2]>> /\ p[2] \in 0 .. 1 BY PartFacts
<1>3. local[p].part = <<local[p].part[1], local[p].part[2]>> /\ local[p].part[2] \in 0 .. 1 BY <1>1, <1>2
<1>4. local[p].i + 1 \in 0 .. 4 /\ local[p].i + 1 \in 2 * local[p].part[2] .. 2 * local[p].part[2] + 2
  BY <1>1, <1>3
<1>5. ASSUME NEW c \in Used, Current(p) = c PROVE PartOf(c) = local[p].part /\ c[2] = local[p].i
  <2>1. c = <<c[1], c[2]>> /\ c[1] = local[p].part[1] /\ c[2] = local[p].i BY <1>5, PartFacts DEF Current
  <2>2. c[2] \div 2 = local[p].part[2]
    BY <2>1, <1>1, <1>3
  <2> QED BY <2>1, <2>2, <1>3 DEF PartOf
<1>6. ASSUME NEW c \in Used, OwnHandler(c), Current(p) = c PROVE PartOf(c) = p
  <2>1. PartOf(c) \in {p, <<0, 0>>} BY <1>1, <1>5, <1>6
  <2> QED BY <2>1, <1>6 DEF OwnHandler
<1> QED BY <1>4, <1>5, <1>6

-----------------------------------------------------------------------------
(***************************************************************************)
(* The steps keep the types, the instances and what a handler serves.      *)
(***************************************************************************)
LEMMA TypeStep ==
    ASSUME TypeOK, Instances, Serving, [Next]_vars
    PROVE  TypeOK'
<1> USE DEF TypeOK
<1> DEFINE Calm == UNCHANGED <<table, device, ghosts>>
<1>0. /\ \A p \in Parts : p \in (0 .. 2) \X (0 .. 1)
      /\ \A c \in Used : c \in (0 .. 2) \X (0 .. 3)
  BY PartFacts
<1>1. ASSUME NEW c \in Used, Expire(c) PROVE TypeOK'
  BY <1>1 DEF Expire, table, handler, ghosts
<1>2. ASSUME NEW p \in Parts, Enter(p) PROVE TypeOK'
  BY <1>2 DEF Enter, Goto, Places, table, device, ghosts
<1>3. ASSUME NEW p \in Parts, Call(p) PROVE TypeOK'
  <2> DEFINE part == PartOf(<<instance[registered[p]].device, instance[registered[p]].channel>>)
  <2>1. at' \in [Parts -> Places] BY <1>3 DEF Call, Goto, Places
  <2>2. CASE registered[p] = None
    BY <1>3, <2>1, <2>2 DEF Call, table, device, ghosts
  <2>3. CASE registered[p] # None
    <3>1. registered[p] \in Used BY <2>3
    <3>2. instance[registered[p]].device \in 0 .. 2 /\ instance[registered[p]].channel \in 0 .. 3
      BY <3>1
    <3>3. PICK d \in 0 .. 2, n \in 0 .. 3 :
            d = instance[registered[p]].device /\ n = instance[registered[p]].channel
      BY <3>2
    <3>4. n \div 2 \in 0 .. 1 OBVIOUS
    <3>5. part = <<d, n \div 2>> BY <3>3 DEF PartOf
    <3>6. part \in (0 .. 2) \X (0 .. 1) /\ 2 * part[2] \in 0 .. 4 BY <3>4, <3>5
    <3>7. Asserted(part) \subseteq Used BY DEF Asserted
    <3> HIDE DEF part
    <3>8. local' = [local EXCEPT ![p] = [part |-> part, stat |-> Asserted(part), i |-> 2 * part[2]]]
      BY <1>3, <2>3 DEF Call, part
    <3>9. local' \in [Parts -> [part : ((0 .. 2) \X (0 .. 1)) \cup {None}, stat : SUBSET Used, i : 0 .. 4]]
      BY <3>6, <3>7, <3>8
    <3> QED BY <1>3, <2>1, <3>9 DEF Call, table, device, ghosts
  <2> QED BY <2>2, <2>3
<1>4. ASSUME NEW p \in Parts, Scan(p) PROVE TypeOK'
  <2>1. at' \in [Parts -> Places] BY <1>4 DEF Scan, Goto, Places
  <2>2. CASE local[p].i = 2 * local[p].part[2] + 2
    BY <1>4, <2>1, <2>2 DEF Scan, table, device, ghosts
  <2>3. CASE local[p].i # 2 * local[p].part[2] + 2
    <3>1. local[p].i + 1 \in 0 .. 4 BY <1>4, <2>3, CurrentFacts DEF Scan
    <3>2. local' \in [Parts -> [part : ((0 .. 2) \X (0 .. 1)) \cup {None}, stat : SUBSET Used, i : 0 .. 4]]
      BY <1>4, <2>3, <3>1 DEF Scan
    <3>3. rings' \in [Used -> 0 .. 2] /\ asked' \in [Used -> {"stop", "start", "lost"}]
      <4>1. \/ UNCHANGED ghosts
            \/ /\ asked' = [asked EXCEPT ![Current(p)] = IF @ = "lost" THEN @ ELSE "stop"]
               /\ rings' = [rings EXCEPT ![Current(p)] = IF @ < 2 THEN @ + 1 ELSE @]
        BY <1>4, <2>3 DEF Scan
      <4>2. CASE UNCHANGED ghosts BY <4>2 DEF ghosts
      <4>3. CASE /\ asked' = [asked EXCEPT ![Current(p)] = IF @ = "lost" THEN @ ELSE "stop"]
                 /\ rings' = [rings EXCEPT ![Current(p)] = IF @ < 2 THEN @ + 1 ELSE @]
        <5>1. ASSUME NEW n \in 0 .. 2 PROVE (IF n < 2 THEN n + 1 ELSE n) \in 0 .. 2 OBVIOUS
        <5> QED BY <4>3, <5>1
      <4> QED BY <4>1, <4>2, <4>3
    <3> QED BY <1>4, <2>1, <3>2, <3>3 DEF Scan, table, device
  <2> QED BY <2>2, <2>3
<1>5. ASSUME NEW p \in Parts, Callback(p) PROVE TypeOK'
  <2>1. at' \in [Parts -> Places] /\ local' = local BY <1>5 DEF Callback, Goto, Places
  <2>2. CASE Calm BY <1>5, <2>1, <2>2 DEF table, device, ghosts
  <2>3. CASE Do(CallbackOps) BY <2>1, <2>3, DoCalls, CallTypes
  <2> QED BY <1>5, <2>2, <2>3 DEF Callback
<1>6. ASSUME NEW p \in Parts, After(p) PROVE TypeOK'
  BY <1>6 DEF After, Goto, Places, table, device, ghosts
<1>7. ASSUME NEW p \in Parts, Eoi(p) PROVE TypeOK'
  <2>1. local[p].i + 1 \in 0 .. 4 BY <1>7, CurrentFacts DEF Eoi
  <2>2. local' = [local EXCEPT ![p].i = local[p].i + 1] BY <1>7 DEF Eoi
  <2>3. /\ local \in [Parts -> [part : ((0 .. 2) \X (0 .. 1)) \cup {None}, stat : SUBSET Used, i : 0 .. 4]]
        /\ p \in Parts
    OBVIOUS
  <2>4. local' \in [Parts -> [part : ((0 .. 2) \X (0 .. 1)) \cup {None}, stat : SUBSET Used, i : 0 .. 4]]
    BY ONLY <2>1, <2>2, <2>3
  <2> QED BY <1>7, <2>4 DEF Eoi, Goto, Places, table, ghosts
<1>8. ASSUME NEW p \in Parts, Complete(p) PROVE TypeOK'
  BY <1>8 DEF Complete, Goto, Places, NoLocal, table, device, ghosts
<1>9. ASSUME Thread PROVE TypeOK'
  BY <1>9, DoCalls, CallTypes DEF Thread, handler
<1>10. ASSUME UNCHANGED vars PROVE TypeOK'
  BY <1>10 DEF vars
<1> QED BY <1>1, <1>2, <1>3, <1>4, <1>5, <1>6, <1>7, <1>8, <1>9, <1>10 DEF Next, Handle

LEMMA InstancesStep ==
    ASSUME TypeOK, Instances, [Next]_vars
    PROVE  Instances'
<1>1. ASSUME UNCHANGED table PROVE Instances' BY <1>1 DEF table, Instances
<1>2. ASSUME NEW ops, Do(ops) PROVE Instances' BY <1>2, DoCalls, CallTypes
<1>3. UNCHANGED table \/ Do(ThreadOps) \/ Do(CallbackOps)
  BY DEF Next, Handle, Thread, Expire, Enter, Call, Scan, Callback, After, Eoi, Complete, vars, table
<1> QED BY <1>1, <1>2, <1>3

LEMMA ServingStep ==
    ASSUME TypeOK, Instances, Serving, [Next]_vars
    PROVE  Serving'
<1> DEFINE Served1(p) ==
      at[p] \in {"scan", "callback", "after", "eoi"} =>
      /\ local[p].part \in {p, <<0, 0>>}
      /\ local[p].i \in 2 * local[p].part[2] .. 2 * local[p].part[2] + 2
      /\ at[p] # "scan" => local[p].i # 2 * local[p].part[2] + 2
<1>0. /\ \A p \in Parts : p \in (0 .. 2) \X (0 .. 1) /\ p = <<p[1], p[2]>>
      /\ \A p \in Parts : Served1(p)
  BY PartFacts DEF Serving
<1>1. SUFFICES ASSUME NEW q \in Parts PROVE Served1(q)' BY DEF Serving
<1>2. ASSUME at'[q] = at[q] /\ local'[q] = local[q] PROVE Served1(q)' BY <1>0, <1>2
<1>3. ASSUME NEW p \in Parts, Call(p), p = q PROVE Served1(q)'
  <2> DEFINE part == PartOf(<<instance[registered[p]].device, instance[registered[p]].channel>>)
  <2>1. CASE registered[p] = None BY <1>3, <2>1 DEF Call, Goto, TypeOK
  <2>2. CASE registered[p] # None
    <3>1. registered[p] \in Used /\ PartOf(registered[p]) = p BY <2>2 DEF TypeOK, Instances
    <3>2. instance[registered[p]] = Zeroed \/ instance[registered[p]] = Registered(registered[p])
      BY <3>1 DEF Instances
    <3>3. part \in {p, <<0, 0>>}
      BY <3>1, <3>2 DEF Zeroed, Registered, PartOf
    <3>4. part[2] \in 0 .. 1 BY <3>3, <1>0
    <3> HIDE DEF part
    <3>5. local'[p] = [part |-> part, stat |-> Asserted(part), i |-> 2 * part[2]] /\ at'[p] = "scan"
      BY <1>3, <2>2 DEF Call, Goto, part, TypeOK
    <3> QED BY <1>3, <3>3, <3>4, <3>5
  <2> QED BY <2>1, <2>2
<1>4. ASSUME NEW p \in Parts, Scan(p), p = q PROVE Served1(q)'
  <2>1. CASE local[p].i = 2 * local[p].part[2] + 2
    BY <1>4, <2>1 DEF Scan, Goto, TypeOK
  <2>2. CASE local[p].i # 2 * local[p].part[2] + 2
    <3>1. local[p].i + 1 \in 2 * local[p].part[2] .. 2 * local[p].part[2] + 2
      BY <1>4, <2>2, CurrentFacts DEF Scan
    <3>2. \/ at'[p] \in {"eoi", "callback"} /\ local' = local
          \/ at' = at /\ local' = [local EXCEPT ![p].i = @ + 1]
      BY <1>4, <2>2 DEF Scan, Goto, TypeOK
    <3>3. at[p] = "scan" BY <1>4 DEF Scan
    <3>4. CASE at'[p] \in {"eoi", "callback"} /\ local' = local
      BY <1>0, <1>4, <2>2, <3>3, <3>4
    <3>5. CASE at' = at /\ local' = [local EXCEPT ![p].i = @ + 1]
      <4>1. local'[p].part = local[p].part /\ local'[p].i = local[p].i + 1
        BY <3>5 DEF TypeOK
      <4> QED BY <1>0, <1>4, <3>1, <3>3, <3>5, <4>1
    <3> QED BY <3>2, <3>4, <3>5
  <2> QED BY <2>1, <2>2
<1>5. ASSUME NEW p \in Parts, Callback(p) \/ After(p), p = q PROVE Served1(q)'
  BY <1>0, <1>5 DEF Callback, After, Goto, TypeOK
<1>6. ASSUME NEW p \in Parts, Eoi(p), p = q PROVE Served1(q)'
  <2>1. local[p].i + 1 \in 2 * local[p].part[2] .. 2 * local[p].part[2] + 2
    BY <1>6, CurrentFacts DEF Eoi
  <2>2. local'[p].part = local[p].part /\ local'[p].i = local[p].i + 1 /\ at'[p] = "scan"
    BY <1>6 DEF Eoi, Goto, TypeOK
  <2> QED BY <1>0, <1>6, <2>1, <2>2 DEF Eoi
<1>7. ASSUME NEW p \in Parts, Enter(p) \/ Complete(p), p = q PROVE Served1(q)'
  BY <1>7 DEF Enter, Complete, Goto, TypeOK
<1>8. ASSUME NEW p \in Parts, Handle(p), p # q PROVE at'[q] = at[q] /\ local'[q] = local[q]
  BY <1>8 DEF Handle, Enter, Call, Scan, Callback, After, Eoi, Complete, Goto, TypeOK
<1>9. UNCHANGED handler \/ \E p \in Parts : Handle(p)
  BY DEF Next, Thread, Expire, vars, handler
<1> HIDE DEF Served1
<1> QED BY <1>2, <1>3, <1>4, <1>5, <1>6, <1>7, <1>8, <1>9 DEF Handle, handler

-----------------------------------------------------------------------------
(***************************************************************************)
(* What channels were asked to do, and how often single shots ring.        *)
(***************************************************************************)
\* A call that leaves the handlers ringing as they are keeps Asking and Fresh.
LEMMA CallAsking ==
    ASSUME TypeOK, Instances, Asking, NEW c \in Used, Calls(c),
           \A d \in Used : Ringing(d)' <=> Ringing(d)
    PROVE  Asking'
<1> USE DEF TypeOK
<1>0. Instances' BY CallTypes
<1>1. ASSUME NEW d \in Used, d # c
      PROVE  instance'[d] = instance[d] /\ asked'[d] = asked[d] /\ (d \in on' <=> d \in on)
  BY <1>1 DEF Calls, Start, Stop, Register, Unregister, table, device
<1>2. /\ asked'[c] = "start" => c \in on'
      /\ asked'[c] = "start" => ~(Ringing(c) /\ instance'[c].single)
      /\ asked'[c] = "stop" /\ c \in on' => Ringing(c) /\ instance'[c].single
  <2>1. CASE Start(c) BY <2>1 DEF Start, table, Asking
  <2>2. CASE Stop(c) BY <2>2 DEF Stop, table, Asking
  <2>3. CASE Register(c) BY <2>3 DEF Register, device, Asking
  <2>4. CASE Unregister(c)
    <3>1. instance'[c] = Zeroed /\ on' = on BY <2>4 DEF Unregister, device
    <3>2. ~Zeroed.single BY InstanceFacts
    <3> QED BY <2>4, <3>1, <3>2 DEF Unregister, Asking
  <2> QED BY <2>1, <2>2, <2>3, <2>4 DEF Calls
<1> QED BY <1>1, <1>2 DEF Asking

LEMMA CallFresh ==
    ASSUME TypeOK, Instances, Fresh, NEW c \in Used, Calls(c), local' = local,
           \A p \in Parts, d \in Used : Ahead(p, d)' => Ahead(p, d)
    PROVE  Fresh'
<1> USE DEF TypeOK
<1>1. ASSUME NEW d \in Used, d # c
      PROVE  asked'[d] = asked[d] /\ rings'[d] = rings[d]
  BY <1>1 DEF Calls, Start, Stop, Register, Unregister, table, device
<1>2. /\ asked'[c] = "start" => asked[c] = "start" \/ rings'[c] = 0
      /\ rings'[c] = rings[c] \/ rings'[c] = 0
      /\ asked[c] = "lost" => asked'[c] = "lost" \/ rings'[c] = 0
  BY DEF Calls, Start, Stop, Register, Unregister, table, device
<1>3. SUFFICES ASSUME NEW d \in Single, OwnHandler(d)
      PROVE (/\ asked[d] = "start" => rings[d] = 0
             /\ asked[d] # "lost" => rings[d] <= 1
             /\ d \in local[PartOf(d)].stat /\ Ahead(PartOf(d), d) => asked[d] = "lost" \/ rings[d] = 0)'
  BY DEF Fresh, OwnHandler
<1>4. d \in Used /\ PartOf(d) \in Parts BY UsedAssumption, PartFacts
<1>5. rings[d] \in 0 .. 2 /\ rings'[d] \in 0 .. 2 BY <1>4, CallTypes
<1>6. /\ asked[d] = "start" => rings[d] = 0
      /\ asked[d] # "lost" => rings[d] <= 1
      /\ d \in local[PartOf(d)].stat /\ Ahead(PartOf(d), d) => asked[d] = "lost" \/ rings[d] = 0
  BY <1>3 DEF Fresh
<1>7. Ahead(PartOf(d), d)' => Ahead(PartOf(d), d) BY <1>4
<1>8. CASE d = c BY <1>2, <1>5, <1>6, <1>7, <1>8
<1>9. CASE d # c BY <1>1, <1>4, <1>6, <1>7, <1>9
<1> QED BY <1>8, <1>9

LEMMA AskingStep ==
    ASSUME TypeOK, Instances, Serving, Asking, [Next]_vars
    PROVE  Asking'
<1> USE DEF TypeOK
<1> DEFINE Right(d) == /\ asked[d] = "start" => d \in on
                       /\ asked[d] = "start" => ~(Ringing(d) /\ instance[d].single)
                       /\ asked[d] = "stop" /\ d \in on => Ringing(d) /\ instance[d].single
<1>0. \A d \in Used : Right(d) BY DEF Asking
<1>1. ASSUME NEW d \in Used, asked'[d] = asked[d], d \in on' <=> d \in on, instance'[d] = instance[d],
             Ringing(d)' <=> Ringing(d)
      PROVE  Right(d)'
  BY <1>0, <1>1
<1>2. ASSUME NEW p \in Parts, at' = [at EXCEPT ![p] = at'[p]], at[p] \notin {"callback", "after"},
             at'[p] \notin {"callback", "after"},
             \A q \in Parts : q # p => local'[q] = local[q]
      PROVE  \A d \in Used : Ringing(d)' <=> Ringing(d)
  BY <1>2 DEF Ringing, Current
<1>3. ASSUME NEW p \in Parts, Enter(p) \/ Call(p) \/ Eoi(p) \/ Complete(p) PROVE Asking'
  <2>1. at' = [at EXCEPT ![p] = at'[p]] /\ at[p] \notin {"callback", "after"}
        /\ at'[p] \notin {"callback", "after"} /\ \A q \in Parts : q # p => local'[q] = local[q]
    BY <1>3 DEF Enter, Call, Eoi, Complete, Goto
  <2>2. asked' = asked /\ on' = on /\ instance' = instance
    BY <1>3 DEF Enter, Call, Eoi, Complete, ghosts, device, table
  <2> QED BY <1>1, <1>2, <2>1, <2>2 DEF Asking
<1>4. ASSUME NEW p \in Parts, Scan(p) PROVE Asking'
  <2> DEFINE c == Current(p)
  <2>1. on' = on /\ instance' = instance /\ at[p] = "scan" BY <1>4 DEF Scan, device, table
  <2>2. CASE at'[p] # "callback"
    <3>1. asked' = asked /\ at' = [at EXCEPT ![p] = at'[p]] /\ at'[p] \notin {"callback", "after"}
          /\ \A q \in Parts : q # p => local'[q] = local[q]
      BY <1>4, <2>2 DEF Scan, Goto, ghosts
    <3> QED BY <1>1, <1>2, <2>1, <3>1 DEF Asking
  <2>3. CASE at'[p] = "callback"
    <3>1. /\ c \in local[p].stat /\ instance[c].callback
          /\ at' = [at EXCEPT ![p] = "callback"] /\ local' = local
          /\ instance[c].single => asked' = [asked EXCEPT ![c] = IF @ = "lost" THEN @ ELSE "stop"]
          /\ ~instance[c].single => asked' = asked
      BY <1>4, <2>3 DEF Scan, Goto, ghosts
    <3>2. c \in Used BY <3>1
    <3>3. ASSUME NEW d \in Used, d # c PROVE Right(d)'
      <4>1. asked'[d] = asked[d] BY <3>1, <3>3
      <4>2. Ringing(d)' <=> Ringing(d) BY <2>1, <3>1, <3>3 DEF Ringing, Current
      <4> QED BY <1>1, <2>1, <4>1, <4>2
    <3>4. ASSUME NEW d \in Used, d = c PROVE Ringing(d)'
      BY <3>1, <3>4 DEF Ringing, Current
    <3>5. instance[c].single \in BOOLEAN BY <3>2, InstanceFacts
    <3>6. Right(c) BY <1>0, <3>2
    <3>7. /\ asked'[c] = "start" => c \in on
          /\ asked'[c] = "start" => ~instance[c].single
          /\ asked'[c] = "stop" /\ c \in on => instance[c].single
      <4>1. CASE instance[c].single
        <5>1. asked'[c] # "start" BY <3>1, <3>2, <4>1
        <5> QED BY <4>1, <5>1
      <4>2. CASE ~instance[c].single BY <3>1, <3>6, <4>2
      <4> QED BY <4>1, <4>2
    <3>8. ASSUME NEW d \in Used, d = c PROVE Right(d)'
      <4>1. Ringing(d)' BY <3>4, <3>8
      <4> HIDE DEF c
      <4> QED BY <2>1, <3>7, <3>8, <4>1
    <3> QED BY <3>3, <3>8 DEF Asking
  <2> QED BY <2>2, <2>3
<1>5. ASSUME NEW p \in Parts, Callback(p) PROVE Asking'
  <2> DEFINE c == Current(p)
  <2>1. at[p] = "callback" /\ local' = local BY <1>5 DEF Callback
  <2>2. CASE at'[p] = "after"
    <3>1. at' = [at EXCEPT ![p] = "after"] BY <1>5, <2>2 DEF Callback, Goto
    <3>2. \A d \in Used : Ringing(d)' <=> Ringing(d) BY <2>1, <3>1 DEF Ringing, Current
    <3>3. Do(CallbackOps) \/ UNCHANGED <<table, device, ghosts>>
      BY <1>5 DEF Callback
    <3>4. CASE Do(CallbackOps) BY <3>2, <3>4, DoCalls, CallAsking
    <3>5. CASE UNCHANGED <<table, device, ghosts>>
      BY <1>1, <3>2, <3>5 DEF table, device, ghosts, Asking
    <3> QED BY <3>3, <3>4, <3>5
  <2>3. CASE at'[p] # "after"
    <3>1. /\ ~instance[c].callback /\ at' = [at EXCEPT ![p] = "null"]
          /\ UNCHANGED <<instance, on, asked>>
      BY <1>5, <2>3 DEF Callback, Goto, table, device, ghosts
    <3>2. ASSUME NEW d \in Used, d # c PROVE Right(d)'
      <4>1. Ringing(d)' <=> Ringing(d) BY <2>1, <3>1, <3>2 DEF Ringing, Current
      <4> QED BY <1>1, <3>1, <4>1
    <3>3. ASSUME NEW d \in Used, d = c PROVE Right(d)'
      <4>1. ~instance[d].single BY <3>1, <3>3, InstanceFacts
      <4> QED BY <1>0, <3>1, <4>1
    <3> QED BY <3>2, <3>3 DEF Asking
  <2> QED BY <2>2, <2>3
<1>6. ASSUME NEW p \in Parts, After(p) PROVE Asking'
  <2> DEFINE c == Current(p)
  <2>1. /\ at[p] = "after" /\ at' = [at EXCEPT ![p] = "eoi"]
        /\ UNCHANGED <<local, instance, asked>>
        /\ instance[c].single => on' = on \ {c}
        /\ ~instance[c].single => on' = on
    BY <1>6 DEF After, Goto, table, device, ghosts
  <2>2. ASSUME NEW d \in Used, d # c PROVE Right(d)'
    <3>1. Ringing(d)' <=> Ringing(d) BY <2>1, <2>2 DEF Ringing, Current
    <3>2. d \in on' <=> d \in on BY <2>1, <2>2
    <3> QED BY <1>1, <2>1, <3>1, <3>2
  <2>3. ASSUME NEW d \in Used, d = c PROVE Right(d)'
    <3>1. Ringing(d) BY <2>1, <2>3 DEF Ringing
    <3>2. instance[d].single \in BOOLEAN BY InstanceFacts
    <3>3. CASE instance[d].single
      <4>1. asked[d] # "start" BY <1>0, <3>1, <3>3
      <4> QED BY <2>1, <2>3, <3>3, <4>1
    <3>4. CASE ~instance[d].single BY <1>0, <2>1, <2>3, <3>4
    <3> QED BY <3>2, <3>3, <3>4
  <2> QED BY <2>2, <2>3 DEF Asking
<1>7. ASSUME Thread PROVE Asking'
  <2>1. \A d \in Used : Ringing(d)' <=> Ringing(d) BY <1>7 DEF Thread, handler, Ringing, Current
  <2> QED BY <1>7, <2>1, DoCalls, CallAsking DEF Thread
<1>8. ASSUME UNCHANGED vars \/ \E c \in Used : Expire(c) PROVE Asking'
  <2>1. UNCHANGED <<instance, on, asked, at, local>>
    BY <1>8 DEF vars, Expire, table, device, handler, ghosts
  <2>2. \A d \in Used : Ringing(d)' <=> Ringing(d) BY <2>1 DEF Ringing, Current
  <2> QED BY <1>1, <2>1, <2>2 DEF Asking
<1> QED BY <1>3, <1>4, <1>5, <1>6, <1>7, <1>8 DEF Next, Handle

LEMMA FreshStep ==
    ASSUME TypeOK, Instances, Asking, Serving, Fresh, [Next]_vars
    PROVE  Fresh'
<1> USE DEF TypeOK
<1> DEFINE Once(d) ==
      /\ asked[d] = "start" => rings[d] = 0
      /\ asked[d] # "lost" => rings[d] <= 1
      /\ d \in local[PartOf(d)].stat /\ Ahead(PartOf(d), d) => asked[d] = "lost" \/ rings[d] = 0
<1>0. \A d \in Single : OwnHandler(d) => Once(d) BY DEF Fresh
<1>1. ASSUME \A d \in Single : OwnHandler(d) => Once(d)' PROVE Fresh'
  BY <1>1 DEF Fresh, OwnHandler
<1>2. \A d \in Single : d \in Used /\ PartOf(d) \in Parts /\ d[2] \in 0 .. 3
  BY UsedAssumption, PartFacts
\* Nothing to show for a channel whose part looks ahead as before.
<1>3. ASSUME NEW d \in Single, OwnHandler(d), asked'[d] = asked[d], rings'[d] = rings[d],
             (d \in local[PartOf(d)].stat /\ Ahead(PartOf(d), d))'
               => d \in local[PartOf(d)].stat /\ Ahead(PartOf(d), d)
      PROVE  Once(d)'
  BY <1>0, <1>3
<1>4. ASSUME NEW p \in Parts, NEW d \in Single, PartOf(d) # p,
             \A q \in Parts : q # p => at'[q] = at[q] /\ local'[q] = local[q]
      PROVE  (d \in local[PartOf(d)].stat /\ Ahead(PartOf(d), d))'
               => d \in local[PartOf(d)].stat /\ Ahead(PartOf(d), d)
  BY <1>2, <1>4 DEF Ahead
<1>5. ASSUME NEW p \in Parts, Enter(p) \/ Complete(p) PROVE Fresh'
  <2>1. \A d \in Single : ~Ahead(p, d)'
    BY <1>5 DEF Enter, Complete, Goto, Ahead
  <2>2. UNCHANGED <<asked, rings>> /\ \A q \in Parts : q # p => at'[q] = at[q] /\ local'[q] = local[q]
    BY <1>5 DEF Enter, Complete, Goto, ghosts
  <2>3. ASSUME NEW d \in Single, OwnHandler(d) PROVE Once(d)'
    <3>1. CASE PartOf(d) = p BY <1>3, <2>1, <2>2, <2>3, <3>1
    <3>2. CASE PartOf(d) # p BY <1>3, <1>4, <2>2, <2>3, <3>2
    <3> QED BY <3>1, <3>2
  <2> QED BY <1>1, <2>3
<1>6. ASSUME NEW p \in Parts, Call(p) PROVE Fresh'
  <2> DEFINE part == PartOf(<<instance[registered[p]].device, instance[registered[p]].channel>>)
  <2>1. /\ at[p] = "call" /\ UNCHANGED <<asked, rings>>
        /\ \A q \in Parts : q # p => at'[q] = at[q] /\ local'[q] = local[q]
        /\ at'[p] = "complete" \/ local'[p].stat = Asserted(part)
    BY <1>6 DEF Call, Goto, ghosts
  <2>2. ASSUME NEW d \in Single, OwnHandler(d), PartOf(d) = p, d \in local'[p].stat, Ahead(p, d)'
        PROVE  asked[d] = "lost" \/ rings[d] = 0
    <3>1. d \in on BY <2>1, <2>2 DEF Asserted, Ahead
    <3>2. ~Ringing(d)
      <4>1. ASSUME NEW q \in Parts, at[q] \in {"callback", "after"}, Current(q) = d PROVE FALSE
        <5>1. PartOf(d) = q BY <1>2, <2>2, <4>1, CurrentFacts
        <5> QED BY <2>1, <2>2, <4>1, <5>1
      <4> QED BY <4>1 DEF Ringing
    <3>3. asked[d] # "stop" BY <1>2, <3>1, <3>2 DEF Asking
    <3>4. asked[d] = "start" \/ asked[d] = "lost" BY <1>2, <3>3
    <3> QED BY <1>0, <2>2, <3>4
  <2>3. ASSUME NEW d \in Single, OwnHandler(d) PROVE Once(d)'
    <3>1. CASE PartOf(d) = p
      <4>1. rings'[d] = rings[d] /\ asked'[d] = asked[d] BY <2>1
      <4> QED BY <1>0, <2>2, <2>3, <3>1, <4>1
    <3>2. CASE PartOf(d) # p BY <1>3, <1>4, <2>1, <2>3, <3>2
    <3> QED BY <3>1, <3>2
  <2> QED BY <1>1, <2>3
<1>7. ASSUME NEW p \in Parts, Scan(p) PROVE Fresh'
  <2> DEFINE c == Current(p)
  <2>1. at[p] = "scan" /\ \A q \in Parts : q # p => at'[q] = at[q] /\ local'[q] = local[q]
    BY <1>7 DEF Scan, Goto
  <2>2. /\ local'[p].stat = local[p].stat
        /\ \A d \in Single : Ahead(p, d)' => Ahead(p, d)
    <3>1. CASE at'[p] = "scan"
      <4>1. local' = [local EXCEPT ![p].i = @ + 1] BY <1>7, <3>1 DEF Scan, Goto
      <4> QED BY <1>2, <2>1, <3>1, <4>1 DEF Ahead
    <3>2. CASE at'[p] # "scan"
      <4>1. local' = local BY <1>7, <3>2 DEF Scan, Goto
      <4>2. local[p].i \in 0 .. 4 OBVIOUS
      <4>3. ASSUME NEW d \in Single, Ahead(p, d)' PROVE Ahead(p, d)
        <5>1. local[p].i <= d[2] \/ local[p].i < d[2] BY <4>1, <4>3 DEF Ahead
        <5> QED BY <1>2, <2>1, <4>2, <5>1 DEF Ahead
      <4> QED BY <4>1, <4>3
    <3> QED BY <3>1, <3>2
  <2>3. ASSUME NEW d \in Single
        PROVE  (d \in local[PartOf(d)].stat /\ Ahead(PartOf(d), d))'
                 => d \in local[PartOf(d)].stat /\ Ahead(PartOf(d), d)
    BY <1>2, <1>4, <2>1, <2>2
  <2>4. CASE UNCHANGED <<asked, rings>>
    <3>1. ASSUME NEW d \in Single, OwnHandler(d) PROVE Once(d)' BY <1>3, <2>3, <2>4, <3>1
    <3> QED BY <1>1, <3>1
  <2>5. CASE ~UNCHANGED <<asked, rings>>
    <3>1. /\ local[p].i # 2 * local[p].part[2] + 2 /\ local' = local
          /\ c \in local[p].stat /\ at'[p] = "callback"
          /\ asked' = [asked EXCEPT ![c] = IF @ = "lost" THEN @ ELSE "stop"]
          /\ rings' = [rings EXCEPT ![c] = IF @ < 2 THEN @ + 1 ELSE @]
      BY <1>7, <2>5 DEF Scan, Goto, ghosts
    <3>2. ASSUME NEW d \in Single, OwnHandler(d), d = c PROVE Once(d)'
      <4>1. PartOf(d) = p /\ d[2] = local[p].i
        BY <1>2, <2>1, <3>1, <3>2, CurrentFacts
      <4>2. Ahead(p, d) BY <2>1, <4>1 DEF Ahead
      <4>3. asked[d] = "lost" \/ rings[d] = 0 BY <1>0, <3>1, <3>2, <4>1, <4>2
      <4>4. ~Ahead(p, d)' BY <3>1, <4>1 DEF Ahead
      <4>5. asked'[d] = IF asked[d] = "lost" THEN "lost" ELSE "stop" BY <1>2, <3>1, <3>2
      <4>6. asked[d] # "lost" => rings'[d] = 1 BY <1>2, <3>1, <3>2, <4>3
      <4> QED BY <4>1, <4>4, <4>5, <4>6
    <3>3. ASSUME NEW d \in Single, OwnHandler(d), d # c PROVE Once(d)'
      <4>1. asked'[d] = asked[d] /\ rings'[d] = rings[d] BY <3>1, <3>3
      <4> QED BY <1>3, <2>3, <3>3, <4>1
    <3> QED BY <1>1, <3>2, <3>3
  <2> QED BY <2>4, <2>5
<1>8. ASSUME NEW p \in Parts, Callback(p) PROVE Fresh'
  <2>1. at[p] = "callback" /\ local' = local /\ at' = [at EXCEPT ![p] = at'[p]]
        /\ at'[p] \in {"after", "null"}
    BY <1>8 DEF Callback, Goto
  <2>2. \A q \in Parts, d \in Used : Ahead(q, d)' => Ahead(q, d) BY <2>1 DEF Ahead
  <2>3. CASE Do(CallbackOps) BY <2>1, <2>2, <2>3, DoCalls, CallFresh
  <2>4. CASE UNCHANGED <<asked, rings>>
    <3>1. ASSUME NEW d \in Single, OwnHandler(d) PROVE Once(d)' BY <1>2, <1>3, <2>1, <2>2, <2>4, <3>1
    <3> QED BY <1>1, <3>1
  <2> QED BY <1>8, <2>3, <2>4 DEF Callback, ghosts
<1>9. ASSUME NEW p \in Parts, After(p) \/ Eoi(p) PROVE Fresh'
  <2>1. UNCHANGED <<asked, rings>> /\ \A q \in Parts : q # p => at'[q] = at[q] /\ local'[q] = local[q]
    BY <1>9 DEF After, Eoi, Goto, ghosts
  <2>2. local'[p].stat = local[p].stat /\ \A d \in Single : Ahead(p, d)' => Ahead(p, d)
    <3>1. local[p].i \in 0 .. 4 OBVIOUS
    <3>2. CASE After(p) BY <3>2 DEF After, Goto, Ahead
    <3>3. CASE Eoi(p)
      <4>1. at[p] = "eoi" /\ at'[p] = "scan" /\ local' = [local EXCEPT ![p].i = @ + 1]
        BY <3>3 DEF Eoi, Goto
      <4> QED BY <1>2, <3>1, <4>1 DEF Ahead
    <3> QED BY <1>9, <3>2, <3>3
  <2>3. ASSUME NEW d \in Single, OwnHandler(d) PROVE Once(d)'
    <3>1. (d \in local[PartOf(d)].stat /\ Ahead(PartOf(d), d))'
               => d \in local[PartOf(d)].stat /\ Ahead(PartOf(d), d)
      BY <1>2, <1>4, <2>1, <2>2
    <3> QED BY <1>3, <2>1, <2>3, <3>1
  <2> QED BY <1>1, <2>3
<1>10. ASSUME Thread PROVE Fresh'
  <2>1. local' = local /\ \A q \in Parts, d \in Used : Ahead(q, d)' => Ahead(q, d)
    BY <1>10 DEF Thread, handler, Ahead
  <2> QED BY <1>10, <2>1, DoCalls, CallFresh DEF Thread
<1>11. ASSUME UNCHANGED vars \/ \E c \in Used : Expire(c) PROVE Fresh'
  <2>1. UNCHANGED <<asked, rings, at, local>>
    BY <1>11 DEF vars, Expire, handler, ghosts
  <2>2. ASSUME NEW d \in Single, OwnHandler(d) PROVE Once(d)' BY <1>3, <2>1, <2>2 DEF Ahead
  <2> QED BY <1>1, <2>2
<1> HIDE DEF TypeOK
<1> QED BY <1>5, <1>6, <1>7, <1>8, <1>9, <1>10, <1>11 DEF Next, Handle

-----------------------------------------------------------------------------
(***************************************************************************)
(* The inductive invariant, and the theorems.                              *)
(***************************************************************************)
Inv == TypeOK /\ Instances /\ Asking /\ Serving /\ Fresh

LEMMA InitInv == Init => Inv
<1> SUFFICES ASSUME Init PROVE Inv OBVIOUS
<1>1. TypeOK
  <2>1. Zeroed \in [device : 0 .. 2, channel : 0 .. 3, callback : BOOLEAN, single : BOOLEAN] BY DEF Zeroed
  <2>2. NoLocal \in [part : ((0 .. 2) \X (0 .. 1)) \cup {None}, stat : SUBSET Used, i : 0 .. 4]
    BY DEF NoLocal
  <2> QED BY <2>1, <2>2 DEF Init, TypeOK, Places
<1>2. Instances BY DEF Init, Instances
<1>3. Asking /\ Serving BY DEF Init, Asking, Serving
<1>4. Fresh BY UsedAssumption, PartFacts DEF Init, Fresh, Ahead
<1> QED BY <1>1, <1>2, <1>3, <1>4 DEF Inv

LEMMA InvStep == Inv /\ [Next]_vars => Inv'
  BY TypeStep, InstancesStep, AskingStep, ServingStep, FreshStep DEF Inv

LEMMA Invariance == Spec => []Inv
  BY InitInv, InvStep, PTL DEF Spec

\* The program's tables, the PLIC's and the handlers' locals have their types
\* always: the loop of timer_interrupt_handler stays within the part's two
\* channels.
THEOREM TypeCorrect == Spec => []TypeOK
<1>1. Inv => TypeOK BY DEF Inv
<1> QED BY <1>1, Invariance, PTL

\* A single shot that only its own part's handler serves rings at most once
\* after one start, whatever parts preempt which and whatever callbacks do.
THEOREM RingsOnce == Spec => []SingleShotOnce
<1>1. Inv => SingleShotOnce BY DEF Inv, Fresh, SingleShotOnce
<1> QED BY <1>1, Invariance, PTL

\* Each channel is on or off as the last call, or its expiry, left it.
THEOREM LastAsked == Spec => []AsAsked
<1>1. Inv => AsAsked BY DEF Inv, Asking, AsAsked
<1> QED BY <1>1, Invariance, PTL

\* With the other pair of the device in use, unregistering a channel leaves
\* the other channel of its pair routed.
THEOREM SiblingKept == Spec => KeepsSibling
<1> DEFINE Step == \A c, d \in Used :
    ( /\ c # d /\ PartOf(c) = PartOf(d)
      /\ instance[c].callback /\ ~instance'[c].callback /\ instance[d].callback
      /\ InUse(instance, c[1], 1 - c[2] \div 2)
      /\ registered[PartOf(c)] # c
      /\ Routed(PartOf(d)) ) => Routed(PartOf(d))'
<1>1. Inv /\ [Next]_vars => [Step]_vars
  <2> SUFFICES ASSUME Inv, Next, NEW c \in Used, NEW d \in Used,
                      c # d, PartOf(c) = PartOf(d),
                      instance[c].callback, ~instance'[c].callback, instance[d].callback,
                      InUse(instance, c[1], 1 - c[2] \div 2),
                      registered[PartOf(c)] # c, Routed(PartOf(d))
               PROVE  Routed(PartOf(d))'
    OBVIOUS
  <2> USE DEF TypeOK, Inv
  <2>1. PartOf(d) \in Parts /\ PartOf(c) = <<c[1], c[2] \div 2>> /\ PartOf(d) = <<d[1], d[2] \div 2>>
        /\ c[2] \div 2 \in {0, 1}
    BY PartFacts DEF PartOf
  <2>2. Unregister(c)
    <3>1. ~UNCHANGED table BY DEF table
    <3>2. Do(ThreadOps) \/ Do(CallbackOps)
      BY <3>1 DEF Next, Handle, Thread, Expire, Enter, Call, Scan, Callback, After, Eoi, Complete, table
    <3>3. PICK e \in Used : Calls(e) BY <3>2, DoCalls
    <3>4. Unregister(e) \/ Register(e) BY <3>1, <3>3 DEF Calls, Start, Stop
    <3>5. CASE Register(e)
      <4>1. instance'[c].callback BY <3>5 DEF Register
      <4> QED BY <4>1
    <3>6. CASE Unregister(e) /\ e # c
      <4>1. instance'[c] = instance[c] BY <3>6 DEF Unregister
      <4> QED BY <4>1
    <3> QED BY <3>4, <3>5, <3>6
  <2>3. \A e \in Used : e # c => instance'[e] = instance[e] BY <2>2 DEF Unregister
  <2>4. registered' = registered
    <3>1. InUse(instance', c[1], c[2] \div 2)
      <4>1. d[1] = c[1] /\ d[2] \div 2 = c[2] \div 2
        <5>1. PICK m, n : m = c[2] \div 2 /\ n = d[2] \div 2 OBVIOUS
        <5>2. PartOf(c) = <<c[1], m>> /\ PartOf(d) = <<d[1], n>> BY <2>1, <5>1
        <5>3. <<c[1], m>> = <<d[1], n>> BY ONLY <5>2, PartOf(c) = PartOf(d)
        <5>4. m = n /\ c[1] = d[1] BY ONLY <5>3
        <5> QED BY <5>1, <5>4
      <4> QED BY <2>3, <4>1 DEF InUse
    <3>2. InUse(instance', c[1], 1 - c[2] \div 2)
      <4>1. PICK e \in Used : e[1] = c[1] /\ e[2] \div 2 = 1 - c[2] \div 2 /\ instance[e].callback
        BY DEF InUse
      <4>2. e # c BY <2>1, <4>1
      <4> QED BY <2>3, <4>1, <4>2 DEF InUse
    <3>3. \A pair \in {0, 1} : InUse(instance', c[1], pair) BY <2>1, <3>1, <3>2
    <3> QED BY <2>2, <3>3 DEF Unregister
  <2>5. registered[PartOf(d)] \in Used /\ registered[PartOf(d)] # c BY <2>1 DEF Routed
  <2>6. instance'[registered[PartOf(d)]] = instance[registered[PartOf(d)]] BY <2>3, <2>5
  <2> QED BY <2>4, <2>6 DEF Routed
<1> HIDE DEF Step
<1>2. Spec => [][Step]_vars BY <1>1, Invariance, PTL DEF Spec
<1> QED BY <1>2 DEF Step, KeepsSibling
=============================================================================
