-------------------------------- MODULE Rtc --------------------------------
(***************************************************************************)
(* The interrupt of the real time clock, lib/drivers/rtc.c.                *)
(*                                                                         *)
(* The clock can interrupt once per second, minute, hour or day: the tick. *)
(* One caller may want the tick itself; another an alarm, which the        *)
(* handler finds by comparing the time with the alarm's at every tick.     *)
(* Both use the same interrupt with one period, and the driver keeps the   *)
(* finer of the two periods programmed.  The functions that register close *)
(* the interrupt at the PLIC; those that unregister do not, and change the *)
(* control word by reading it and writing it back.                         *)
(*                                                                         *)
(* Time is counted in seconds, Base of them in a minute, Base minutes in   *)
(* an hour and Base hours in a day; after Base days it starts again.       *)
(***************************************************************************)
EXTENDS Naturals

CONSTANTS Base,
          Ticks,    \* what rtc_tick_irq_register can be asked for
          Alarms    \* what rtc_alarm_irq_register can be, with rtc_alarm_set

Modes == 0 .. 3     \* RTC_INT_SECOND, _MINUTE, _HOUR, _DAY; the fields of a mask
Cycle == Base * Base * Base * Base
Time == 0 .. Cycle - 1
No == [asked |-> FALSE]

ASSUME BaseAssumption == Base \in Nat \ {0, 1}
ASSUME TicksAssumption == \A t \in Ticks :
           t.asked /\ t.mode \in Modes /\ t.single \in BOOLEAN
ASSUME AlarmsAssumption == \A l \in Alarms :
           l.asked /\ l.mask \subseteq Modes /\ l.at \in Time /\ l.single \in BOOLEAN

VARIABLES
    now,            \* the clock
    ctrl,           \* interrupt_ctrl: tick_enable, tick_int_mode, alarm_enable
    alarm,          \* the alarm's time and mask in their registers
    installed,      \* rtc_irq_callback is in plic_instance
    pend,           \* an interrupt waits at the PLIC
    user,           \* rtc_instance.tick_*, with the callback there or not
    byAlarm,        \* rtc_instance.*alarm*
    pc, reg,        \* the call that unregisters, and its copy of interrupt_ctrl
    isr,            \* the part of rtc_irq_callback that comes next
    want,           \* what the callers have asked for
    due, rang,      \* what is to ring in this second, and what has
    times,          \* how often it rang since it was asked for
    cut             \* a single-shot tick ended under an alarm

software == <<user, byAlarm>>
rtcGhosts == <<want, due, rang, times, cut>>
rtcVars == <<now, ctrl, alarm, installed, pend, software, pc, reg, isr, rtcGhosts>>

Clients == {"tick", "alarm"}
Max == 4            \* RTC_INT_MAX
Unset == 7          \* -1 in an enum, 3 in a field of two bits

Word == [tick : BOOLEAN, mode : Modes, alarm : BOOLEAN]
Side(none) == [on : BOOLEAN, mode : Modes \cup {none}, single : BOOLEAN, callback : BOOLEAN]
Wants == [tick : Ticks \cup {No}, alarm : Alarms \cup {No}]
RtcPlaces == {"idle", "offw", "clear", "alarmw", "forget", "user",
              "stopw", "mode", "modew", "start", "startw", "endw", "last"}

Period(m) == <<1, Base, Base * Base, Base * Base * Base>>[m + 1]
Begins(m, n) == n % Period(m) = 0
Field(n, u) == (n \div Period(u)) % Base
Matches(l, n) == /\ l.mask # {}
                 /\ \A u \in l.mask : Field(n, u) = Field(l.at, u)

\* the period an alarm needs
ModeOf(l) == IF l.mask \cap 0 .. 2 = {} THEN 3
             ELSE CHOOSE m \in l.mask : \A u \in l.mask : m <= u

\* rtc_alarm_irq_unregister has stopped the tick to change its period: a
\* second that begins meanwhile is lost
Stopped == pc \in {"mode", "modew", "start", "startw"}

\* what the callers can count on at time n
Due(n) == {c \in Clients :
             IF c = "tick" THEN want.tick.asked /\ ~Stopped /\ Begins(want.tick.mode, n)
             ELSE /\ want.alarm.asked /\ ~cut
                  /\ Matches(want.alarm, n) /\ Begins(ModeOf(want.alarm), n)}

RtcTypeOK ==
    /\ now \in Time
    /\ ctrl \in Word /\ reg \in Word
    /\ alarm \in Alarms \cup {No}
    /\ installed \in BOOLEAN /\ pend \in BOOLEAN
    /\ user \in Side(Unset) /\ byAlarm \in Side(Max)
    /\ pc \in RtcPlaces
    /\ isr \in {"idle", "tick"}
    /\ want \in Wants
    /\ due \subseteq Clients /\ rang \subseteq Clients
    /\ times \in [Clients -> 0 .. 2]
    /\ cut \in BOOLEAN

RtcInit == /\ now = 0
           /\ ctrl = [tick |-> FALSE, mode |-> 0, alarm |-> FALSE] /\ reg = ctrl
           /\ alarm = No
           /\ installed = FALSE /\ pend = FALSE
           /\ user = [on |-> FALSE, mode |-> Unset, single |-> FALSE, callback |-> FALSE]
           /\ byAlarm = [on |-> FALSE, mode |-> Max, single |-> FALSE, callback |-> FALSE]
           /\ pc = "idle" /\ isr = "idle"
           /\ want = [tick |-> No, alarm |-> No]
           /\ due = {} /\ rang = {}
           /\ times = [c \in Clients |-> 0]
           /\ cut = FALSE

\* The next second.  An interrupt is handled before, and a call that registers
\* is over: neither takes a second.
Second == /\ isr = "idle" /\ ~pend
          /\ now' = (now + 1) % Cycle
          /\ pend' = (pend \/ (ctrl.tick /\ Begins(ctrl.mode, now')))
          /\ due' = Due(now')
          /\ rang' = {}
          /\ UNCHANGED <<ctrl, alarm, installed, software, pc, reg, isr, want, times, cut>>

-----------------------------------------------------------------------------
(***************************************************************************)
(* Plausible bugs.                                                         *)
(***************************************************************************)
\* rtc_alarm_irq_register that does not look at the tick's period
Finer_Not(on, m) == m

\* a single-shot alarm that takes the tick with it
AfterAlarm_Off == [ctrl EXCEPT !.alarm = FALSE, !.tick = FALSE]

\* a tick that rings whenever the clock interrupts
TickDue_Always == user.on

-----------------------------------------------------------------------------
(***************************************************************************)
(* The calls that register, with the interrupt disabled at the PLIC but    *)
(* for their last accesses to interrupt_ctrl: one step, which neither a    *)
(* second nor the interrupt divides.  The calls are those of threads: what *)
(* a callback of the clock might register in the middle of one of them is  *)
(* left out (README, section 2).                                           *)
(***************************************************************************)
InCall(p) == pc = p /\ isr = "idle"
Asked(c, r) == /\ want' = [want EXCEPT ![c] = r]
               /\ due' = due \ {c}
               /\ times' = [times EXCEPT ![c] = 0]
               /\ cut' = FALSE
               /\ UNCHANGED rang

\* the period that serves both
Finer(on, m) == IF on /\ m >= ctrl.mode THEN ctrl.mode ELSE m

TickRegister(t) ==
    /\ InCall("idle")
    /\ user' = [on |-> TRUE, mode |-> t.mode, single |-> t.single, callback |-> TRUE]
    /\ ctrl' = [ctrl EXCEPT !.tick = TRUE, !.mode = Finer(byAlarm.on, t.mode)]
    /\ installed' = TRUE
    /\ Asked("tick", t)
    /\ UNCHANGED <<now, alarm, pend, byAlarm, pc, reg, isr>>

AlarmRegister(l) ==
    /\ InCall("idle")
    /\ alarm' = l
    /\ byAlarm' = [on |-> TRUE, mode |-> ModeOf(l), single |-> l.single, callback |-> TRUE]
    /\ ctrl' = [tick |-> TRUE, alarm |-> TRUE, mode |-> Finer(user.on, ModeOf(l))]
    /\ installed' = TRUE
    /\ Asked("alarm", l)
    /\ UNCHANGED <<now, pend, user, pc, reg, isr>>

-----------------------------------------------------------------------------
(***************************************************************************)
(* The calls that unregister: the clock's interrupt may come at any step.  *)
(***************************************************************************)
RtcGoto(p) == pc' = p /\ UNCHANGED <<now, alarm, installed, pend, isr>>

\* Each rtc_*_set_* reads the word, and writes it back in the next step.
Read(p, q) == InCall(p) /\ reg' = ctrl /\ RtcGoto(q) /\ UNCHANGED <<ctrl, software, rtcGhosts>>
Write(p, c, q) == InCall(p) /\ ctrl' = c /\ RtcGoto(q) /\ UNCHANGED <<reg, software, rtcGhosts>>

Unwanted(c) == /\ want' = [want EXCEPT ![c] = No]
               /\ due' = due \ {c}
               /\ UNCHANGED <<rang, times, cut>>

TickUnregister == /\ InCall("idle")
                  /\ Unwanted("tick")
                  /\ reg' = ctrl
                  /\ RtcGoto(IF ctrl.alarm THEN "clear" ELSE "offw")
                  /\ UNCHANGED <<ctrl, software>>
TickOff == Write("offw", [reg EXCEPT !.tick = FALSE], "clear")
TickForget == /\ InCall("clear")
              /\ user' = [user EXCEPT !.on = FALSE, !.mode = Unset, !.callback = FALSE]
              /\ installed' = (installed /\ byAlarm.callback)
              /\ pc' = "idle"
              /\ UNCHANGED <<now, ctrl, alarm, pend, byAlarm, reg, isr, rtcGhosts>>

AlarmUnregister == /\ InCall("idle")
                   /\ Unwanted("alarm")
                   /\ reg' = ctrl
                   /\ RtcGoto("alarmw")
                   /\ UNCHANGED <<ctrl, software>>
AlarmOff == Write("alarmw", [reg EXCEPT !.alarm = FALSE], "forget")
AlarmForget == /\ InCall("forget")
               /\ byAlarm' = [byAlarm EXCEPT !.on = FALSE, !.mode = Max, !.callback = FALSE]
               /\ RtcGoto("user")
               /\ UNCHANGED <<ctrl, user, reg, rtcGhosts>>

\* the period that is left to the tick's caller, if there is one
ForUser == \/ user.on /\ user.mode > ctrl.mode /\ Read("user", "stopw")
           \/ user.on /\ user.mode <= ctrl.mode /\ InCall("user") /\ RtcGoto("last")
              /\ UNCHANGED <<ctrl, reg, software, rtcGhosts>>
           \/ ~user.on /\ Read("user", "endw")
Coarser == \/ Write("stopw", [reg EXCEPT !.tick = FALSE], "mode")
           \/ Read("mode", "modew")
           \/ Write("modew", [reg EXCEPT !.mode = user.mode % 4], "start")
           \/ Read("start", "startw")
           \/ Write("startw", [reg EXCEPT !.tick = TRUE], "last")
           \/ Write("endw", [reg EXCEPT !.tick = FALSE], "last")
Last == /\ InCall("last")
        /\ installed' = (installed /\ user.callback)
        /\ pc' = "idle"
        /\ UNCHANGED <<now, ctrl, alarm, pend, software, reg, isr, rtcGhosts>>

-----------------------------------------------------------------------------
(***************************************************************************)
(* rtc_irq_callback, the alarm and then the tick.                          *)
(***************************************************************************)
Ring(c, single) ==
    /\ rang' = rang \cup {c}
    /\ times' = [times EXCEPT ![c] = IF @ = 2 THEN 2 ELSE @ + 1]
    /\ want' = IF single THEN [want EXCEPT ![c] = No] ELSE want

\* a single-shot alarm leaves the tick's caller its own period
AfterAlarm == [ctrl EXCEPT !.alarm = FALSE,
                           !.tick = IF user.on /\ user.mode <= ctrl.mode THEN @ ELSE user.on,
                           !.mode = IF user.on /\ user.mode > @ THEN user.mode % 4 ELSE @]

Alarm == /\ isr = "idle" /\ installed /\ pend
         /\ pend' = FALSE
         /\ isr' = "tick"
         /\ LET hit == ctrl.alarm /\ Matches(alarm, now)
                once == hit /\ byAlarm.single IN
            /\ ctrl' = IF once THEN AfterAlarm ELSE ctrl
            /\ byAlarm' = IF once THEN [byAlarm EXCEPT !.on = FALSE, !.mode = Max] ELSE byAlarm
            /\ IF hit /\ byAlarm.callback THEN Ring("alarm", byAlarm.single)
                                          ELSE UNCHANGED <<rang, times, want>>
         /\ UNCHANGED <<now, alarm, installed, user, pc, reg, due, cut>>

TickDue == user.on /\ (user.mode \in Modes => Begins(user.mode, now))

Tick == /\ isr = "tick"
        /\ isr' = "idle"
        /\ LET hit == TickDue
               once == hit /\ user.single IN
           /\ ctrl' = IF once THEN [ctrl EXCEPT !.tick = FALSE] ELSE ctrl
           /\ user' = IF once THEN [user EXCEPT !.on = FALSE, !.mode = Unset] ELSE user
           /\ cut' = (cut \/ (once /\ want.alarm.asked))
           /\ IF hit /\ user.callback THEN Ring("tick", user.single)
                                      ELSE UNCHANGED <<rang, times, want>>
        /\ UNCHANGED <<now, alarm, installed, pend, byAlarm, pc, reg, due>>

\* with no callback registered the interrupt is claimed and completed
Dropped == /\ pend /\ ~installed
           /\ pend' = FALSE
           /\ UNCHANGED <<now, ctrl, alarm, installed, software, pc, reg, isr, rtcGhosts>>

Withdraw == \/ TickUnregister \/ TickOff \/ TickForget
            \/ AlarmUnregister \/ AlarmOff \/ AlarmForget \/ ForUser \/ Coarser \/ Last

RtcNext == \/ Second
           \/ \E t \in Ticks : TickRegister(t)
           \/ \E l \in Alarms : AlarmRegister(l)
           \/ Withdraw
           \/ Alarm \/ Tick \/ Dropped

RtcSpec == RtcInit /\ [][RtcNext]_rtcVars

-----------------------------------------------------------------------------
(***************************************************************************)
(* Properties.                                                             *)
(***************************************************************************)
\* What is to ring in a second has rung when the next one begins, whatever
\* else threads register and unregister, and whatever rings; rtc.h: "Register callback of
\* tick interrupt", "Register callback of alarm interrupt".
OnTime == [][Second => due \subseteq rang]_rtcVars

\* A callback is called only while it is asked for, or its withdrawal is under
\* way; when the time is what it was asked for; and once if it is asked for
\* once, rtc.h: "Indicates if single shot".
CalledAsAsked == [][\A c \in rang' \ rang :
                      /\ want[c].asked \/ pc # "idle"
                      /\ want[c].asked => IF c = "tick" THEN Begins(want[c].mode, now)
                                                        ELSE Matches(want[c], now)
                      /\ (IF c = "tick" THEN user ELSE byAlarm).single => times[c] = 0]_rtcVars

\* Between two calls the programmed period is fine enough for both callers.
FineEnough == pc = "idle" /\ isr = "idle" =>
    /\ want.tick.asked => installed /\ ctrl.tick /\ ctrl.mode <= want.tick.mode
    /\ want.alarm.asked /\ ~cut =>
          installed /\ ctrl.tick /\ ctrl.alarm /\ ctrl.mode <= ModeOf(want.alarm)
=============================================================================
