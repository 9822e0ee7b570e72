-------------------------------- MODULE Timer --------------------------------
(***************************************************************************)
(* The timers, lib/drivers/timer.c: registration of callbacks, start and   *)
(* stop of channels, and timer_interrupt_handler.                          *)
(*                                                                         *)
(* A channel is <<device, number>>.  Channels 0 and 1 of a device share    *)
(* one PLIC interrupt (A), channels 2 and 3 another (B): a part is         *)
(* <<device, 0 or 1>>.  The PLIC passes to the handler the instance that   *)
(* was registered last for the part, and the handler serves the device and *)
(* the part it finds written there.                                        *)
(*                                                                         *)
(* One hart: plic_instance is per hart.  The handler of a part of higher   *)
(* priority preempts the other's, and both preempt the thread.             *)
(***************************************************************************)
EXTENDS Integers, FiniteSets

CONSTANTS Used,         \* the channels the program uses
          Single,       \* those it registers as single shot
          Priority,     \* of each part
          ThreadOps, CallbackOps,   \* the calls the thread and callbacks make
          None

ASSUME UsedAssumption == Used \subseteq (0 .. 2) \X (0 .. 3) /\ Single \subseteq Used
ASSUME OpsAssumption == ThreadOps \cup CallbackOps \subseteq {"start", "stop", "register", "unregister"}

\* get_timer_irqn_by_device_and_channel
PartOf(c) == <<c[1], c[2] \div 2>>
Parts == {PartOf(c) : c \in Used}

ASSUME PriorityAssumption == Priority \in [Parts -> Nat \ {0}]

VARIABLES
    instance,   \* timer_instance: device, channel, has a callback, single_shot
    registered, \* per part, plic_instance's ctx: a channel's instance, or None
    enabled,    \* parts the PLIC has enabled
    on,         \* channels enabled, with their interrupt unmasked
    raised,     \* channels whose raw interrupt flag is up
    at,         \* per part, the place of its handler
    local,      \* per part, the handler's device, channel_int_stat and i
    asked,      \* what each channel was last asked to do; "lost": and will not
    rings       \* callbacks of each single shot since it was started

vars == <<instance, registered, enabled, on, raised, at, local, asked, rings>>
table == <<instance, registered, enabled>>
device == <<on, raised>>
handler == <<at, local>>
ghosts == <<asked, rings>>

Zeroed == [device |-> 0, channel |-> 0, callback |-> FALSE, single |-> FALSE]
NoLocal == [part |-> None, stat |-> {}, i |-> 0]
Places == {"idle", "call", "scan", "callback", "after", "eoi", "complete", "null"}

TypeOK == /\ instance \in [Used -> [device : 0 .. 2, channel : 0 .. 3, callback : BOOLEAN, single : BOOLEAN]]
          /\ registered \in [Parts -> Used \cup {None}]
          /\ enabled \subseteq Parts
          /\ on \subseteq Used /\ raised \subseteq Used
          /\ at \in [Parts -> Places]
          /\ local \in [Parts -> [part : ((0 .. 2) \X (0 .. 1)) \cup {None}, stat : SUBSET Used, i : 0 .. 4]]
          /\ asked \in [Used -> {"stop", "start", "lost"}]
          /\ rings \in [Used -> 0 .. 2]

\* after timer_init; the channels are stopped since reset
Init == /\ instance = [c \in Used |-> Zeroed]
        /\ registered = [p \in Parts |-> None]
        /\ enabled = {}
        /\ on = {} /\ raised = {}
        /\ at = [p \in Parts |-> "idle"]
        /\ local = [p \in Parts |-> NoLocal]
        /\ asked = [c \in Used |-> "stop"]
        /\ rings = [c \in Used |-> 0]

\* the channel the handler of p looks at
Current(p) == <<local[p].part[1], local[p].i>>
Goto(p, place) == at' = [at EXCEPT ![p] = place]

\* a handler runs unless a more urgent one does; the thread when none does
Runs(p) == \A q \in Parts : at[q] # "idle" => Priority[q] <= Priority[p]
ThreadRuns == \A p \in Parts : at[p] = "idle"

\* c's callback has been called, and the handler may still switch c off
Ringing(c) == \E p \in Parts : at[p] \in {"callback", "after"} /\ Current(p) = c

-----------------------------------------------------------------------------
(***************************************************************************)
(* The hardware.                                                           *)
(***************************************************************************)
\* intr_stat: a masked channel has no interrupt status
Asserted(p) == {c \in on \cap raised : PartOf(c) = p}

\* in user mode the counter reloads and goes on
Expire(c) == /\ c \in on \ raised
             /\ raised' = raised \cup {c}
             /\ UNCHANGED <<table, on, handler, ghosts>>

-----------------------------------------------------------------------------
(***************************************************************************)
(* Plausible bugs.                                                         *)
(***************************************************************************)
\* the single shot is not disabled, or every channel is
After_Never(p) == /\ Runs(p) /\ at[p] = "after"
                  /\ Goto(p, "eoi")
                  /\ UNCHANGED <<table, device, local, ghosts>>
After_Always(p) ==
    /\ Runs(p) /\ at[p] = "after"
    /\ on' = on \ {Current(p)}
    /\ raised' = raised \ {Current(p)}
    /\ Goto(p, "eoi")
    /\ UNCHANGED <<table, local, ghosts>>

\* "Don't read timer[device]->eoi here, or you will lost some interrupt"
Complete_ClearsDevice(p) ==
    /\ Runs(p) /\ at[p] = "complete"
    /\ raised' = {c \in raised : local[p].part = None \/ c[1] # local[p].part[1]}
    /\ Goto(p, "idle")
    /\ local' = [local EXCEPT ![p] = NoLocal]
    /\ UNCHANGED <<table, on, ghosts>>

\* the interrupt is taken away with each callback
Unregister_Always(c) ==
    /\ instance' = [instance EXCEPT ![c] = Zeroed]
    /\ registered' = [registered EXCEPT ![PartOf(c)] = None]
    /\ asked' = [asked EXCEPT ![c] = IF Ringing(c) /\ instance[c].single THEN "lost" ELSE @]
    /\ UNCHANGED <<enabled, device, rings>>

-----------------------------------------------------------------------------
(***************************************************************************)
(* The calls, by the thread or a callback.  An instance is written in one  *)
(* step: no channel of the part is about to expire meanwhile.              *)
(***************************************************************************)
\* timer_set_enable(c, 1).  Between the callback of a single shot and the
\* handler's own timer_set_enable(c, 0) it is undone.
Start(c) == /\ on' = on \cup {c}
            /\ asked' = [asked EXCEPT ![c] = IF Ringing(c) /\ instance[c].single THEN "lost" ELSE "start"]
            /\ rings' = [rings EXCEPT ![c] = 0]
            /\ UNCHANGED <<table, raised>>

\* timer_set_enable(c, 0).  If the hardware keeps the raw flag, masked, it is
\* as if the channel expired at once when it is started again.
Stop(c) == /\ on' = on \ {c}
           /\ raised' = raised \ {c}
           /\ asked' = [asked EXCEPT ![c] = "stop"]
           /\ rings' = [rings EXCEPT ![c] = IF asked[c] = "lost" THEN 0 ELSE @]
           /\ UNCHANGED table

\* timer_irq_register
Register(c) ==
    /\ instance' = [instance EXCEPT ![c] = [device |-> c[1], channel |-> c[2], callback |-> TRUE,
                                            single |-> c \in Single]]
    /\ registered' = [registered EXCEPT ![PartOf(c)] = c]
    /\ enabled' = enabled \cup {PartOf(c)}
    /\ asked' = [asked EXCEPT ![c] = IF Ringing(c) /\ on \cap {c} # {} THEN "lost" ELSE @]
    /\ UNCHANGED <<device, rings>>

InUse(ch, d, pair) == \E c \in Used : c[1] = d /\ c[2] \div 2 = pair /\ ch[c].callback

\* timer_irq_unregister: the part's interrupt goes when one of the device's
\* two pairs has no callback, whichever it is; the PLIC keeps it enabled.
\* The handler does not know any more that c was a single shot.
Unregister(c) ==
    /\ instance' = [instance EXCEPT ![c] = Zeroed]
    /\ registered' = IF \A pair \in {0, 1} : InUse(instance', c[1], pair) THEN registered
                     ELSE [registered EXCEPT ![PartOf(c)] = None]
    /\ asked' = [asked EXCEPT ![c] = IF Ringing(c) /\ instance[c].single THEN "lost" ELSE @]
    /\ UNCHANGED <<enabled, device, rings>>

Do(ops) == \E c \in Used : \/ "start" \in ops /\ Start(c)
                           \/ "stop" \in ops /\ Stop(c)
                           \/ "register" \in ops /\ Register(c)
                           \/ "unregister" \in ops /\ Unregister(c)

Thread == /\ ThreadRuns
          /\ Do(ThreadOps)
          /\ UNCHANGED handler

-----------------------------------------------------------------------------
(***************************************************************************)
(* handle_irq_m_ext and timer_interrupt_handler.                           *)
(***************************************************************************)
\* the claim; the gateway sends no other request until the completion.  (A
\* request that is still pending when the line has gone down only finds no
\* channel to serve, as one does whose channel is stopped before Call.)
Enter(p) == /\ at[p] = "idle" /\ p \in enabled /\ Asserted(p) # {}
            /\ \A q \in Parts : at[q] # "idle" => Priority[q] < Priority[p]
            /\ Goto(p, "call")
            /\ UNCHANGED <<table, device, local, ghosts>>

\* device, channel and intr_stat are read once, here in one step: a more urgent
\* handler that zeroes the instance between two of the reads would have another
\* part served.  Nothing happens without a callback in plic_instance.
Call(p) ==
    LET part == PartOf(<<instance[registered[p]].device, instance[registered[p]].channel>>) IN
    /\ Runs(p) /\ at[p] = "call"
    /\ IF registered[p] = None
         THEN Goto(p, "complete") /\ UNCHANGED local
         ELSE /\ local' = [local EXCEPT ![p] = [part |-> part, stat |-> Asserted(part), i |-> 2 * part[2]]]
              /\ Goto(p, "scan")
    /\ UNCHANGED <<table, device, ghosts>>

\* one round of the loop: the channel's bit, and its callback
Scan(p) ==
    LET c == Current(p) IN
    /\ Runs(p) /\ at[p] = "scan"
    /\ IF local[p].i = 2 * local[p].part[2] + 2
         THEN Goto(p, "complete") /\ UNCHANGED <<local, ghosts>>
       ELSE IF c \notin local[p].stat
         THEN local' = [local EXCEPT ![p].i = @ + 1] /\ UNCHANGED <<at, ghosts>>
       ELSE IF ~instance[c].callback
         THEN Goto(p, "eoi") /\ UNCHANGED <<local, ghosts>>
         ELSE /\ Goto(p, "callback")
              /\ IF instance[c].single
                   THEN /\ asked' = [asked EXCEPT ![c] = IF @ = "lost" THEN @ ELSE "stop"]
                        /\ rings' = [rings EXCEPT ![c] = IF @ < 2 THEN @ + 1 ELSE @]
                   ELSE UNCHANGED ghosts
              /\ UNCHANGED local
    /\ UNCHANGED <<table, device>>

\* timer_instance is volatile: the pointer that was tested is read again, and
\* is NULL if a handler that came in between has unregistered the channel
Callback(p) ==
    /\ Runs(p) /\ at[p] = "callback"
    /\ IF instance[Current(p)].callback
         THEN /\ Do(CallbackOps) \/ UNCHANGED <<table, device, ghosts>>
              /\ Goto(p, "after")
         ELSE /\ Goto(p, "null")
              /\ UNCHANGED <<table, device, ghosts>>
    /\ UNCHANGED local

\* the single_shot flag is read, and the channel disabled, after the callback
After(p) ==
    LET c == Current(p) IN
    /\ Runs(p) /\ at[p] = "after"
    /\ IF instance[c].single
         THEN on' = on \ {c} /\ raised' = raised \ {c}
         ELSE UNCHANGED device
    /\ Goto(p, "eoi")
    /\ UNCHANGED <<table, local, ghosts>>

\* the channel's own end of interrupt
Eoi(p) == /\ Runs(p) /\ at[p] = "eoi"
          /\ raised' = raised \ {Current(p)}
          /\ local' = [local EXCEPT ![p].i = @ + 1]
          /\ Goto(p, "scan")
          /\ UNCHANGED <<table, on, ghosts>>

Complete(p) == /\ Runs(p) /\ at[p] = "complete"
               /\ Goto(p, "idle")
               /\ local' = [local EXCEPT ![p] = NoLocal]
               /\ UNCHANGED <<table, device, ghosts>>

Handle(p) == Enter(p) \/ Call(p) \/ Scan(p) \/ Callback(p) \/ After(p) \/ Eoi(p) \/ Complete(p)

-----------------------------------------------------------------------------
Next == \/ \E c \in Used : Expire(c)
        \/ \E p \in Parts : Handle(p)
        \/ Thread

Spec == Init /\ [][Next]_vars

\* Handlers take less time than the periods of the timers: one that is
\* preempted again and again comes to its end.
Fairness == \A p \in Parts : SF_vars(Handle(p))

FairSpec == Spec /\ Fairness

-----------------------------------------------------------------------------
(***************************************************************************)
(* Properties.                                                             *)
(***************************************************************************)
\* The part's interrupts reach the handler, and the handler that part.
Routed(p) == /\ registered[p] # None
             /\ p = PartOf(<<instance[registered[p]].device, instance[registered[p]].channel>>)

\* timer_irq_unregister zeroes an instance that may stay registered: then the
\* handler of that part serves part A of device 0, whose own handler may come
\* in between the callback and the disable and call the same single shot.
OwnHandler(c) == PartOf(c) = <<0, 0>> => Parts = {<<0, 0>>}

\* After one start a single shot that only its own part's handler serves rings
\* once, however handlers nest and whatever callbacks start, stop or register
\* meanwhile.  (A callback that unregisters its own single shot keeps it from
\* being disabled: "lost".)
SingleShotOnce == \A c \in Single : OwnHandler(c) /\ asked[c] # "lost" => rings[c] <= 1

\* A channel is on exactly if the last start or stop, by the thread or by any
\* callback, or the expiry of the single shot, says so, but for a start made
\* between the callback of a single shot and its disable (timer.c:298).
AsAsked == \A c \in Used : ~Ringing(c) =>
    /\ asked[c] = "start" => c \in on
    /\ asked[c] = "stop" => c \notin on

\* As long as every part with a running channel is routed, and no callback of
\* a more urgent part unregisters a channel that is about to be called, each
\* expiry of a running channel is followed by its callback, unless the channel
\* is stopped or unregistered first: no end of interrupt loses another's.
AllRouted == \A c \in on : Routed(PartOf(c))
NoNullCall == \A p \in Parts : at[p] # "null"
Expired(c) == /\ c \in on \cap raised /\ instance[c].callback
              /\ \A p \in Parts : at[p] \in {"callback", "after", "eoi"} => Current(p) # c
Served == \A c \in Used :
    [](AllRouted /\ NoNullCall)
      => (Expired(c) ~> Ringing(c) \/ c \notin on \/ ~instance[c].callback)

\* timer_irq_unregister of one channel leaves the other of its pair routed, if
\* the other pair of the device is in use and the channel unregistered is not
\* the one registered last.
KeepsSibling == [][\A c, d \in Used :
    ( /\ c # d /\ PartOf(c) = PartOf(d)
      /\ instance[c].callback /\ ~instance'[c].callback /\ instance[d].callback
      /\ InUse(instance, c[1], 1 - c[2] \div 2)
      /\ registered[PartOf(c)] # c
      /\ Routed(PartOf(d)) ) => Routed(PartOf(d))']_vars
==============================================================================
