------------------------------ MODULE SpiProofs ------------------------------
(***************************************************************************)
(* The DMA transfers and the slave of spi.c, for every value of their      *)
(* constants.                                                              *)
(*                                                                         *)
(* Module SpiDma, for every set of harts, every use each makes of the      *)
(* device and every number of transfers: until a call without callback     *)
(* disables the device under another's transfer (Undisturbed), the device  *)
(* works for the transfer its lock is held for, data arrive and bounce     *)
(* buffers come back; and, even afterwards, a callback is called at most   *)
(* once and not before its transfer is over, if one hart passes callbacks. *)
(* Two inductive invariants.  Locked, of the lock, the registration and    *)
(* the handler, holds whatever the device does.  Sound, of the channels    *)
(* and the buffers, rests on Locked and holds while Undisturbed does.      *)
(*                                                                         *)
(* Module SpiSlave, for every work of the master, every depth of the FIFO  *)
(* and every number of transactions given up: what the master believes     *)
(* done is done, and nothing else is ever written.  One inductive          *)
(* invariant, InStep, of the two sides' places in the transaction.         *)
(***************************************************************************)
EXTENDS SpiDma, SpiSlave, TLAPS

-----------------------------------------------------------------------------
(***************************************************************************)
(* The lock, the registered interrupt and the handler, whatever the device *)
(* does.                                                                   *)
(***************************************************************************)
InCall(a) == pc[a] # "idle"
Serving(h) == irqat[h] \in {"entry", "unregister", "drain", "unlock"}

\* Transfers are numbered as they are called, and each has one caller.
Numbers ==
    /\ \A a \in Agents : InCall(a) =>
         tr[a] \in Ids /\ tr[a] < next /\ use[tr[a]] \in Uses[a[1]]
    /\ \A a, b \in Agents : InCall(a) /\ InCall(b) /\ tr[a] = tr[b] => a = b
    /\ user # None => user < next /\ user \notin over
    /\ \A id \in over : id < next
    /\ \A a \in Agents : pc[a] = "lock" => tr[a] # user /\ tr[a] \notin over

\* The lock is held for user.  A caller without callback holds it until its
\* own unlock, one with a callback at least until the interrupt is registered.
Holding ==
    /\ lock <=> user # None
    /\ \A a \in Agents :
         /\ pc[a] = "set" => user = tr[a]
         /\ pc[a] \in {"start", "select", "wait", "unlock"} /\ ~WithCallback(tr[a]) => user = tr[a]
         /\ pc[a] \in {"wait", "unlock", "clear"} => ~WithCallback(tr[a])

\* What an interrupt is registered or served for.
Owned(h) == /\ lock /\ WithCallback(user)
            /\ callback = user /\ irqchan = IrqChannel(user)
            /\ <<KindOf(user), TRUE>> \in Uses[h]
            /\ \A a \in Agents : pc[a] # "set"

\* The interrupt of one transfer is registered on one hart, and served there.
Registering ==
    /\ \A h \in Harts : \A c \in registered[h] : Owned(h) /\ c = irqchan
    /\ \A g, h \in Harts : registered[g] # {} /\ registered[h] # {} => g = h
    /\ \A h \in Harts : irqat[h] \in {"entry", "unregister"} => irq[h] \in registered[h]
    /\ \A h \in Harts : irqat[h] \in {"drain", "unlock"} => Owned(h) /\ \A g \in Harts : registered[g] = {}
    /\ \A g, h \in Harts : Serving(g) /\ Serving(h) => g = h
    /\ \A h \in Harts : Serving(h) => irq[h] = irqchan

-----------------------------------------------------------------------------
\* One hart at most passes callbacks: the assumption of CalledOnce.
OneCaller == \A g, h \in Harts :
    (\E u \in Uses[g] : u[2]) /\ (\E u \in Uses[h] : u[2]) => g = h

\* A handler between its unlock and its callback finds the callback it was
\* registered for, and nobody has called that one.
Once ==
    /\ \A id \in Ids : called[id] <= 1 /\ (called[id] > 0 => id \in over)
    /\ \A h \in Harts : irqat[h] \in {"read", "callback"} => \E u \in Uses[h] : u[2]
    /\ \A h \in Harts : irqat[h] = "read" => callback \in over /\ called[callback] = 0

-----------------------------------------------------------------------------
(***************************************************************************)
(* The device and the buffers, until a call disables the device under      *)
(* another's transfer.                                                     *)
(***************************************************************************)
\* The transfer the lock is held for has not been started, or its buffers
\* have been copied back and freed, or it is between the two.
Unstarted == \E a \in Agents : pc[a] \in {"set", "start"}
Settled == (\E a \in Agents : pc[a] = "unlock")
           \/ \E h \in Harts : irqat[h] \in {"unregister", "drain", "unlock"}
Pending == lock /\ ~Unstarted /\ ~Settled

\* The channels run for the transfer the lock is held for, between its start
\* and its end, and the device is enabled until then.
Working ==
    /\ \A c \in Channels : chan[c].run =>
         /\ lock /\ c \in ChannelsOf(user)
         /\ ~Unstarted
         /\ \A a \in Agents : pc[a] # "unlock"
         /\ \A h \in Harts : irqat[h] # "unlock"
    /\ lock /\ (\A a \in Agents : pc[a] # "set") /\ (\A h \in Harts : irqat[h] # "unlock") => ssienr
    /\ \A a \in Agents : pc[a] = "start" => user = tr[a] /\ \A h \in Harts : ~Serving(h)
    /\ \A h \in Harts : \A c \in registered[h] : Unstarted => ~chan[c].int
    /\ \A h \in Harts : \A c \in registered[h] : ctx[c].callback

Side(c) == IF c = "tx" THEN "src" ELSE "dest"
BufferOf(id, c) == [id |-> id, channel |-> c, side |-> Side(c)]
Leaked(b) == WithCallback(b.id) /\ b.channel # IrqChannel(b.id)

\* Between its start and its end a transfer's bounce buffers are those in the
\* context; afterwards what was received is in place, and only the buffers of
\* the channel that no interrupt ends are left.
Bounced ==
    /\ Pending => \A c \in ChannelsOf(user) :
         IF c = "tx" THEN ctx[c].src = BufferOf(user, c) ELSE ctx[c].dest = BufferOf(user, c)
    /\ \A b \in bufs : b.id < next /\
         (Leaked(b) \/ (Pending /\ b.channel \in ChannelsOf(user) /\ b = BufferOf(user, b.channel)))
    /\ lock /\ Settled => /\ WithCallback(user) /\ IrqChannel(user) = "rx" => user \in copied
                          /\ ~WithCallback(user) /\ Receives(user) => user \in copied
    /\ \A id \in over :
         Receives(id) /\ ~(KindOf(id) = "long" /\ WithCallback(id)) => id \in copied

Sound == Undisturbed => Working /\ Bounced

-----------------------------------------------------------------------------
(***************************************************************************)
(* What the operations of the DMA driver do.                               *)
(***************************************************************************)
\* A transfer that has been called has a kind and channels.
LEMMA UseFacts ==
    ASSUME TypeOK, NEW id \in Ids
    PROVE  /\ KindOf(id) \in {"none", "trans", "recv", "eeprom", "long"}
           /\ WithCallback(id) \in BOOLEAN
           /\ ChannelsOf(id) \subseteq Channels
           /\ IrqChannel(id) \in Channels
           /\ \A h \in Harts : use[id] \in Uses[h] =>
                KindOf(id) # "none" /\ IrqChannel(id) \in ChannelsOf(id)
                /\ use[id] = <<KindOf(id), WithCallback(id)>>
<1>1. use[id] = NoUse \/ \E h \in Harts : use[id] \in Uses[h] BY DEF TypeOK
<1>2. \A h \in Harts : Uses[h] \subseteq {"trans", "recv", "eeprom", "long"} \X BOOLEAN BY UseAssumption
<1>3. KindOf(id) \in {"none", "trans", "recv", "eeprom", "long"} /\ WithCallback(id) \in BOOLEAN
  <2>1. CASE use[id] = NoUse BY <2>1 DEF KindOf, WithCallback, NoUse
  <2>2. CASE use[id] # NoUse
    <3>1. PICK h \in Harts : use[id] \in Uses[h] BY <1>1, <2>2
    <3>2. use[id] \in {"trans", "recv", "eeprom", "long"} \X BOOLEAN BY <1>2, <3>1
    <3> QED BY <3>2 DEF KindOf, WithCallback
  <2> QED BY <2>1, <2>2
<1>4. ASSUME NEW h \in Harts, use[id] \in Uses[h]
      PROVE  KindOf(id) # "none" /\ use[id] = <<KindOf(id), WithCallback(id)>>
  BY <1>2, <1>4 DEF KindOf, WithCallback
<1> QED BY <1>3, <1>4, IdAssumption DEF ChannelsOf, IrqChannel

ChannelStates == [run : BOOLEAN, int : BOOLEAN, inten : BOOLEAN]
Contexts == [callback : BOOLEAN, src : Buffers \cup {None}, dest : Buffers \cup {None}]

LEMMA DmacTypes ==
    DmacTypeOK <=> /\ chan \in [Channels -> ChannelStates] /\ ctx \in [Channels -> Contexts]
                   /\ bufs \subseteq Buffers /\ copied \subseteq Ids
                   /\ registered \in [Harts -> SUBSET Channels] /\ enabled \in [Harts -> SUBSET Channels]
  BY DEF DmacTypeOK, ChannelStates, Contexts

LEMMA StartFacts ==
    ASSUME DmacTypeOK, NEW id \in Ids, NEW from \in SUBSET Channels, NEW to \in SUBSET Channels,
           SetSingleMode(id, from, to)
    PROVE  /\ chan' \in [Channels -> ChannelStates] /\ ctx' \in [Channels -> Contexts]
           /\ bufs' \subseteq Buffers
           /\ \A c \in Channels : /\ chan'[c].run <=> chan[c].run \/ c \in from \cup to
                                  /\ chan'[c].int => chan[c].int
                                  /\ ctx'[c].callback = ctx[c].callback
<1> DEFINE new(c, side) == [id |-> id, channel |-> c, side |-> side]
<1>1. ctx \in [Channels -> Contexts] /\ chan \in [Channels -> ChannelStates] /\ bufs \subseteq Buffers
  BY DmacTypes
<1>2. \A c \in Channels : new(c, "src") \in Buffers /\ new(c, "dest") \in Buffers BY DEF Buffers
<1>3. bufs' \subseteq Buffers BY <1>1, <1>2 DEF SetSingleMode
<1>4. ASSUME NEW c \in Channels
      PROVE  /\ chan'[c] \in ChannelStates
             /\ chan'[c].run <=> chan[c].run \/ c \in from \cup to
             /\ chan'[c].int => chan[c].int
  <2>1. chan'[c] = IF c \in from \cup to THEN [chan[c] EXCEPT !.int = FALSE, !.run = TRUE] ELSE chan[c]
    BY DEF SetSingleMode
  <2>2. CASE c \in from \cup to BY <1>1, <2>1, <2>2 DEF ChannelStates
  <2>3. CASE c \notin from \cup to BY <1>1, <2>1, <2>3 DEF ChannelStates
  <2> QED BY <2>2, <2>3
<1>5. ASSUME NEW c \in Channels
      PROVE  /\ ctx'[c] \in Contexts
             /\ ctx'[c].callback = ctx[c].callback
  <2> DEFINE src == IF c \in from THEN new(c, "src") ELSE ctx[c].src
             dest == IF c \in to THEN new(c, "dest") ELSE ctx[c].dest
  <2>1. ctx'[c] = [ctx[c] EXCEPT !.src = src, !.dest = dest] BY DEF SetSingleMode
  <2>2. src \in Buffers \cup {None} /\ dest \in Buffers \cup {None} BY <1>1, <1>2 DEF Contexts
  <2> HIDE DEF src, dest
  <2>4. ctx'[c] \in Contexts /\ ctx'[c].callback = ctx[c].callback
    BY <1>1, <2>1, <2>2 DEF Contexts
  <2> QED BY <2>4
<1>7. chan' = [c \in Channels |-> chan'[c]] /\ ctx' = [c \in Channels |-> ctx'[c]] BY DEF SetSingleMode
<1>9. chan' \in [Channels -> ChannelStates] /\ ctx' \in [Channels -> Contexts] BY <1>4, <1>5, <1>7
<1>10. \A c \in Channels : /\ chan'[c].run <=> chan[c].run \/ c \in from \cup to
                           /\ chan'[c].int => chan[c].int
                           /\ ctx'[c].callback = ctx[c].callback
  BY <1>4, <1>5
<1> QED BY <1>3, <1>9, <1>10

\* The bounce buffers of the channels that were started.
LEMMA StartBuffers ==
    ASSUME DmacTypeOK, NEW id \in Ids, NEW from \in SUBSET Channels, NEW to \in SUBSET Channels,
           SetSingleMode(id, from, to)
    PROVE  /\ \A c \in from : ctx'[c].src = [id |-> id, channel |-> c, side |-> "src"]
           /\ \A c \in to : ctx'[c].dest = [id |-> id, channel |-> c, side |-> "dest"]
           /\ bufs' = bufs \cup {[id |-> id, channel |-> c, side |-> "src"] : c \in from}
                         \cup {[id |-> id, channel |-> c, side |-> "dest"] : c \in to}
<1> DEFINE new(c, side) == [id |-> id, channel |-> c, side |-> side]
<1>1. ctx \in [Channels -> Contexts] BY DmacTypes
<1>2. ASSUME NEW c \in Channels
      PROVE  (c \in from => ctx'[c].src = new(c, "src")) /\ (c \in to => ctx'[c].dest = new(c, "dest"))
  <2> DEFINE src == IF c \in from THEN new(c, "src") ELSE ctx[c].src
             dest == IF c \in to THEN new(c, "dest") ELSE ctx[c].dest
  <2>1. ctx'[c] = [ctx[c] EXCEPT !.src = src, !.dest = dest] BY DEF SetSingleMode
  <2>2. (c \in from => src = new(c, "src")) /\ (c \in to => dest = new(c, "dest")) OBVIOUS
  <2> HIDE DEF src, dest
  <2>3. ctx'[c].src = src /\ ctx'[c].dest = dest BY <1>1, <2>1 DEF Contexts
  <2> QED BY <2>2, <2>3
<1>3. bufs' = bufs \cup {new(c, "src") : c \in from} \cup {new(c, "dest") : c \in to}
  BY DEF SetSingleMode
<1> QED BY <1>2, <1>3

LEMMA SettleFacts ==
    ASSUME DmacTypeOK, NEW cs \in SUBSET Channels, Settle(cs)
    PROVE  /\ bufs' \subseteq Buffers /\ copied' \subseteq Ids /\ ctx' \in [Channels -> Contexts]
           /\ copied \subseteq copied'
           /\ \A c \in cs : ctx[c].dest # None => ctx[c].dest.id \in copied'
           /\ \A b \in bufs' : b \in bufs /\ \A c \in cs : b # ctx[c].src /\ b # ctx[c].dest
           /\ \A c \in Channels : ctx'[c].callback = ctx[c].callback
<1>1. ctx \in [Channels -> Contexts] /\ bufs \subseteq Buffers /\ copied \subseteq Ids BY DmacTypes
<1> DEFINE received == {d \in cs : ctx[d].dest # None}
<1>2. \A c \in received : ctx[c].dest.id \in Ids BY <1>1 DEF Buffers, Contexts
<1>3. copied' = copied \cup {ctx[c].dest.id : c \in received} BY DEF Settle
<1>4. copied' \subseteq Ids BY <1>1, <1>2, <1>3
<1>5. ASSUME NEW c \in Channels PROVE ctx'[c] \in Contexts /\ ctx'[c].callback = ctx[c].callback
  <2>1. ctx'[c] = IF c \in cs THEN [ctx[c] EXCEPT !.src = None, !.dest = None] ELSE ctx[c] BY DEF Settle
  <2>2. CASE c \in cs BY <1>1, <2>1, <2>2 DEF Contexts
  <2>3. CASE c \notin cs BY <1>1, <2>1, <2>3
  <2> QED BY <2>2, <2>3
<1>6. ctx' = [c \in Channels |-> ctx'[c]] BY DEF Settle
<1>7. bufs' = bufs \ ({ctx[c].dest : c \in cs} \cup {ctx[c].src : c \in cs}) BY DEF Settle
<1>8. ASSUME NEW b \in bufs'
      PROVE  b \in bufs /\ \A c \in cs : b # ctx[c].src /\ b # ctx[c].dest
  BY <1>7
<1>9. bufs' \subseteq Buffers BY <1>1, <1>8
<1> QED BY <1>3, <1>4, <1>5, <1>6, <1>8, <1>9

LEMMA ClearFacts ==
    ASSUME DmacTypeOK, NEW cs, ClearInterrupt(cs)
    PROVE  /\ chan' \in [Channels -> ChannelStates]
           /\ \A c \in Channels : chan'[c].run = chan[c].run /\ (chan'[c].int => chan[c].int)
<1>1. chan \in [Channels -> ChannelStates] BY DmacTypes
<1>2. ASSUME NEW c \in Channels
      PROVE  /\ chan'[c] \in ChannelStates
             /\ chan'[c].run = chan[c].run /\ (chan'[c].int => chan[c].int)
  <2>1. PICK i \in BOOLEAN : i = (chan[c].int /\ c \notin cs) OBVIOUS
  <2>2. chan'[c] = [chan[c] EXCEPT !.int = i] BY <2>1 DEF ClearInterrupt
  <2>3. chan'[c] \in ChannelStates /\ chan'[c].run = chan[c].run /\ chan'[c].int = i
    BY <1>1, <2>2 DEF ChannelStates
  <2> QED BY <2>1, <2>3
<1>3. chan' = [c \in Channels |-> chan'[c]] BY DEF ClearInterrupt
<1> QED BY <1>2, <1>3

LEMMA RegisterFacts ==
    ASSUME DmacTypeOK, NEW h \in Harts, NEW c \in Channels, IrqRegister(h, c)
    PROVE  /\ chan' \in [Channels -> ChannelStates] /\ ctx' \in [Channels -> Contexts]
           /\ registered' \in [Harts -> SUBSET Channels] /\ enabled' \in [Harts -> SUBSET Channels]
           /\ \A d \in Channels : chan'[d].run = chan[d].run /\ (chan'[d].int => chan[d].int /\ d # c)
           /\ \A d \in Channels : d # c => ctx'[d] = ctx[d]
           /\ ctx'[c].callback /\ ctx'[c].src = ctx[c].src /\ ctx'[c].dest = ctx[c].dest
           /\ registered'[h] = registered[h] \cup {c}
           /\ \A g \in Harts : g # h => registered'[g] = registered[g]
<1>1. chan' \in [Channels -> ChannelStates] BY DmacTypes DEF IrqRegister, ChannelStates
<1>2. ctx' \in [Channels -> Contexts] BY DmacTypes DEF IrqRegister, Contexts
<1>3. registered' \in [Harts -> SUBSET Channels] /\ enabled' \in [Harts -> SUBSET Channels]
  BY DmacTypes DEF IrqRegister
<1>4. \A d \in Channels : chan'[d].run = chan[d].run /\ (chan'[d].int => chan[d].int /\ d # c)
  BY DmacTypes DEF IrqRegister, ChannelStates
<1>5. /\ \A d \in Channels : d # c => ctx'[d] = ctx[d]
      /\ ctx'[c].callback /\ ctx'[c].src = ctx[c].src /\ ctx'[c].dest = ctx[c].dest
  BY DmacTypes DEF IrqRegister, Contexts
<1>6. /\ registered'[h] = registered[h] \cup {c}
      /\ \A g \in Harts : g # h => registered'[g] = registered[g]
  BY DmacTypes DEF IrqRegister
<1> QED BY <1>1, <1>2, <1>3, <1>4, <1>5, <1>6

LEMMA UnregisterFacts ==
    ASSUME DmacTypeOK, NEW h \in Harts, NEW c \in Channels, IrqUnregister(h, c)
    PROVE  /\ chan' \in [Channels -> ChannelStates] /\ ctx' \in [Channels -> Contexts]
           /\ registered' \in [Harts -> SUBSET Channels]
           /\ \A d \in Channels : chan'[d].run = chan[d].run /\ chan'[d].int = chan[d].int
           /\ \A d \in Channels : ctx'[d].src = ctx[d].src /\ ctx'[d].dest = ctx[d].dest
           /\ registered'[h] = registered[h] \ {c}
           /\ \A g \in Harts : g # h => registered'[g] = registered[g]
<1>1. chan' \in [Channels -> ChannelStates] BY DmacTypes DEF IrqUnregister, ChannelStates
<1>2. ctx' \in [Channels -> Contexts] BY DmacTypes DEF IrqUnregister, Contexts
<1>3. registered' \in [Harts -> SUBSET Channels] BY DmacTypes DEF IrqUnregister
<1>4. \A d \in Channels : chan'[d].run = chan[d].run /\ chan'[d].int = chan[d].int
  BY DmacTypes DEF IrqUnregister, ChannelStates
<1>5. \A d \in Channels : ctx'[d].src = ctx[d].src /\ ctx'[d].dest = ctx[d].dest
  BY DmacTypes DEF IrqUnregister, Contexts
<1>6. /\ registered'[h] = registered[h] \ {c}
      /\ \A g \in Harts : g # h => registered'[g] = registered[g]
  BY DmacTypes DEF IrqUnregister
<1> QED BY <1>1, <1>2, <1>3, <1>4, <1>5, <1>6

LEMMA FinishFacts ==
    ASSUME DmacTypeOK, NEW c \in Channels, Finish(c)
    PROVE  /\ chan' \in [Channels -> ChannelStates]
           /\ \A d \in Channels : chan'[d].run => chan[d].run
           /\ \A d \in Channels : d # c => chan'[d] = chan[d]
<1>1. chan' \in [Channels -> ChannelStates] BY DmacTypes DEF Finish, ChannelStates
<1>2. /\ \A d \in Channels : chan'[d].run => chan[d].run
      /\ \A d \in Channels : d # c => chan'[d] = chan[d]
  BY DmacTypes DEF Finish, ChannelStates
<1> QED BY <1>1, <1>2

-----------------------------------------------------------------------------
(***************************************************************************)
(* Each invariant, step by step.                                           *)
(***************************************************************************)
LEMMA TypeInit == Init => TypeOK
<1> SUFFICES ASSUME Init PROVE TypeOK OBVIOUS
<1>1. DmacTypeOK BY DEF Init, DmacInit, DmacTypeOK
<1>2. next \in 1 .. MaxTransfers + 1 BY IdAssumption DEF Init
<1>3. called \in [Ids -> 0 .. 2] BY DEF Init
<1>4. use \in [Ids -> (UNION {Uses[h] : h \in Harts}) \cup {NoUse}] BY DEF Init
<1>5. irqchan \in Channels BY IdAssumption DEF Init
<1> QED BY <1>1, <1>2, <1>3, <1>4, <1>5 DEF Init, TypeOK

LEMMA TypeStep ==
    ASSUME TypeOK, Numbers, Holding, Registering, [Next]_vars
    PROVE  TypeOK'
<1>0. \A a \in Agents : a[1] \in Harts /\ a = <<a[1], a[2]>> BY DEF Agents
<1>1. ASSUME NEW a \in Agents, NEW u \in Uses[a[1]], Call(a, u) PROVE TypeOK'
  <2>1. next \in Ids BY <1>1, IdAssumption DEF Call, TypeOK
  <2>2. u \in UNION {Uses[g] : g \in Harts} BY DEF Agents
  <2>3. use' \in [Ids -> (UNION {Uses[g] : g \in Harts}) \cup {NoUse}] BY <1>1, <2>1, <2>2 DEF Call, TypeOK
  <2>4. next' \in 1 .. MaxTransfers + 1 BY <1>1, <2>1, IdAssumption DEF Call, TypeOK
  <2> QED BY <1>1, <2>1, <2>3, <2>4 DEF Call, TypeOK, DmacTypeOK, dmac, spi, handlers, ghosts, Goto
<1>2. ASSUME NEW a \in Agents, Lock(a) PROVE TypeOK'
  BY <1>2 DEF Lock, dmac, spi, calls, handlers, ghosts, Goto, HandlerGoto, Return, At, TypeOK, DmacTypeOK
<1>3. ASSUME NEW a \in Agents, Set(a) PROVE TypeOK'
  <2>1. tr[a] \in Ids /\ a[1] \in Harts BY <1>3 DEF Set, At, Numbers, InCall, Agents
  <2>2. IrqChannel(tr[a]) \in Channels BY <2>1, UseFacts
  <2>3. CASE WithCallback(tr[a])
    BY <1>3, <2>1, <2>2, <2>3, RegisterFacts, DmacTypes DEF TypeOK, DmacTypeOK, ChannelStates, Contexts, Set, At, Goto, handlers, ghosts
  <2>4. CASE ~WithCallback(tr[a])
    BY <1>3, <2>1, <2>2, <2>4, DmacTypes DEF TypeOK, DmacTypeOK, ChannelStates, Contexts, Set, At, Goto, handlers, ghosts
  <2> QED BY <2>3, <2>4
<1>4. ASSUME NEW a \in Agents, Start(a) PROVE TypeOK'
  <2>1. tr[a] \in Ids BY <1>4 DEF Start, At, Numbers, InCall
  <2>3. ChannelsOf(tr[a]) \cap {"tx"} \in SUBSET Channels BY IdAssumption
  <2>4. ChannelsOf(tr[a]) \cap {"rx"} \in SUBSET Channels BY IdAssumption
  <2>5. SetSingleMode(tr[a], ChannelsOf(tr[a]) \cap {"tx"}, ChannelsOf(tr[a]) \cap {"rx"}) /\ DmacTypeOK
    BY <1>4 DEF Start, TypeOK
  <2>6. chan' \in [Channels -> ChannelStates] /\ ctx' \in [Channels -> Contexts] /\ bufs' \subseteq Buffers
    BY ONLY <2>1, <2>3, <2>4, <2>5, StartFacts
  <2>7. UNCHANGED <<copied, registered, enabled>> BY <1>4 DEF Start
  <2>2. DmacTypeOK' BY ONLY <2>5, <2>6, <2>7 DEF DmacTypeOK, ChannelStates, Contexts
  <2> QED BY <1>4, <2>2 DEF TypeOK, Start, spi, handlers, ghosts, Goto
<1>5. ASSUME NEW a \in Agents, Select(a) PROVE TypeOK'
  BY <1>5 DEF Select, dmac, spi, calls, handlers, ghosts, Goto, HandlerGoto, Return, At, TypeOK, DmacTypeOK
<1>6. ASSUME NEW a \in Agents, Wait(a) PROVE TypeOK'
  <2>1. tr[a] \in Ids BY <1>6 DEF Wait, At, Numbers, InCall
  <2>2. ChannelsOf(tr[a]) \in SUBSET Channels BY <2>1, UseFacts
  <2>3. DmacTypeOK' BY <1>6, <2>2, SettleFacts, ClearFacts, DmacTypes DEF TypeOK, DmacTypeOK, ChannelStates, Contexts, Wait, spi, handlers, ghosts, calls
  <2> QED BY <1>6, <2>3 DEF TypeOK, Wait, spi, handlers, ghosts, Goto
<1>7. ASSUME NEW a \in Agents, Unlock(a) PROVE TypeOK'
  <2>1. user \in Ids BY <1>7 DEF Unlock, At, Numbers, Holding, InCall
  <2> QED BY <1>7, <2>1 DEF Unlock, TypeOK, DmacTypeOK, dmac, handlers, Goto
<1>8. ASSUME NEW a \in Agents, Clear(a) PROVE TypeOK'
  BY <1>8 DEF Clear, dmac, spi, calls, handlers, ghosts, Goto, HandlerGoto, Return, At, TypeOK, DmacTypeOK
<1>9. ASSUME NEW h \in Harts, Entry(h) PROVE TypeOK'
  <2>1. irq[h] \in Channels BY <1>9 DEF Entry, Registering, TypeOK, DmacTypeOK
  <2>2. DmacTypeOK' BY <1>9, <2>1, SettleFacts, ClearFacts, DmacTypes DEF TypeOK, DmacTypeOK, ChannelStates, Contexts, Entry, spi, handlers, ghosts, calls
  <2> QED BY <1>9, <2>2 DEF TypeOK, Entry, spi, calls, ghosts, HandlerGoto
<1>10. ASSUME NEW h \in Harts, Unregister(h) PROVE TypeOK'
  <2>0. irqchan \in Channels BY DEF TypeOK
  <2>1. DmacTypeOK' BY <1>10, <2>0, UnregisterFacts, DmacTypes DEF TypeOK, DmacTypeOK, ChannelStates, Contexts, Unregister, spi, handlers, ghosts, calls
  <2> QED BY <1>10, <2>1 DEF TypeOK, Unregister, spi, calls, ghosts, HandlerGoto
<1>11. ASSUME NEW h \in Harts, Drain(h) PROVE TypeOK'
  BY <1>11 DEF Drain, dmac, spi, calls, handlers, ghosts, Goto, HandlerGoto, Return, At, TypeOK, DmacTypeOK
<1>12. ASSUME NEW h \in Harts, IrqUnlock(h) PROVE TypeOK'
  <2>1. user \in Ids BY <1>12 DEF IrqUnlock, Registering, Holding, Owned, TypeOK
  <2> QED BY <1>12, <2>1 DEF IrqUnlock, TypeOK, DmacTypeOK, dmac, calls, HandlerGoto
<1>13. ASSUME NEW h \in Harts, Read(h) PROVE TypeOK'
  <2>1. called' \in [Ids -> 0 .. 2]
    <3>1. CASE callback \in Ids
      <4>1. (IF called[callback] < 2 THEN called[callback] + 1 ELSE called[callback]) \in 0 .. 2 BY <3>1 DEF TypeOK
      <4> QED BY <1>13, <4>1 DEF Read, TypeOK
    <3>2. CASE callback \notin Ids BY <1>13, <3>2 DEF Read, TypeOK
    <3> QED BY <3>1, <3>2
  <2> QED BY <1>13, <2>1 DEF Read, TypeOK, DmacTypeOK, dmac, spi, calls, HandlerGoto
<1>14. ASSUME NEW h \in Harts, Leave(h) PROVE TypeOK'
  BY <1>14 DEF Leave, dmac, spi, calls, handlers, ghosts, Goto, HandlerGoto, Return, At, TypeOK, DmacTypeOK
<1>15. ASSUME NEW h \in Harts, NEW c \in Channels, Interrupt(h, c) PROVE TypeOK'
  BY <1>15 DEF Interrupt, dmac, spi, calls, handlers, ghosts, Goto, HandlerGoto, Return, At, TypeOK, DmacTypeOK
<1>16. ASSUME NEW c \in Channels, Complete(c) PROVE TypeOK'
  <2>1. DmacTypeOK' BY <1>16, FinishFacts, DmacTypes DEF TypeOK, DmacTypeOK, ChannelStates, Contexts, Complete, spi, handlers, ghosts, calls
  <2> QED BY <1>16, <2>1 DEF TypeOK, Complete, spi, calls, handlers, ghosts
<1>17. CASE UNCHANGED vars
  BY <1>17 DEF vars, dmac, spi, calls, handlers, ghosts, dmac, spi, calls, handlers, ghosts, Goto, HandlerGoto, Return, At, TypeOK, DmacTypeOK
<1> QED BY <1>1, <1>2, <1>3, <1>4, <1>5, <1>6, <1>7, <1>8, <1>9, <1>10, <1>11, <1>12, <1>13, <1>14, <1>15, <1>16, <1>17 DEF Next, Caller, Handler

LEMMA NumbersStep ==
    ASSUME TypeOK, Numbers, Holding, Registering, [Next]_vars
    PROVE  Numbers'
<1>0. \A a \in Agents : a[1] \in Harts /\ a = <<a[1], a[2]>> BY DEF Agents
<1>1. ASSUME NEW a \in Agents, NEW u \in Uses[a[1]], Call(a, u) PROVE Numbers'
  <2>1. next \in Ids /\ next' = next + 1 /\ next' \in Nat BY <1>1, IdAssumption DEF Call, TypeOK
  <2>2. \A id \in Ids : id < next => id < next' /\ id # next BY <2>1, IdAssumption
  <2>3. \A b \in Agents : InCall(b)' => \/ b = a /\ tr'[b] = next /\ use'[tr'[b]] = u /\ pc'[b] = "lock"
                                        \/ InCall(b) /\ b # a /\ tr'[b] = tr[b] /\ use'[tr'[b]] = use[tr[b]] /\ pc'[b] = pc[b]
    BY <1>1, <2>1, <2>2 DEF Call, TypeOK, Goto, InCall, Numbers
  <2>4. user' = user /\ over' = over BY <1>1 DEF Call, ghosts
  <2>5. user # None => user \in Ids BY DEF TypeOK
  <2>6. next < next' BY <2>1, IdAssumption
  <2>7. over \subseteq Ids BY DEF TypeOK
  <2>8. next # user /\ next \notin over BY <2>1, <2>2, <2>5, <2>7, NoneAssumption DEF Numbers
  <2>9. \A b \in Agents : InCall(b)' => tr'[b] \in Ids /\ tr'[b] < next' /\ use'[tr'[b]] \in Uses[b[1]]
    BY <2>1, <2>2, <2>3, <2>6 DEF Numbers
  <2>10. \A b, d \in Agents : InCall(b)' /\ InCall(d)' /\ tr'[b] = tr'[d] => b = d
    BY <2>1, <2>2, <2>3 DEF Numbers
  <2>11. \A b \in Agents : pc'[b] = "lock" => tr'[b] # user /\ tr'[b] \notin over
    BY <2>3, <2>8 DEF Numbers, InCall
  <2> QED BY <2>1, <2>2, <2>4, <2>5, <2>7, <2>9, <2>10, <2>11 DEF Numbers
<1>2. ASSUME NEW a \in Agents, Lock(a) PROVE Numbers'
  BY <1>2 DEF Lock, dmac, spi, calls, handlers, ghosts, Goto, HandlerGoto, Return, At, TypeOK, Numbers, InCall
<1>3. ASSUME NEW a \in Agents, Set(a) PROVE Numbers'
  BY <1>3 DEF Set, dmac, spi, calls, handlers, ghosts, Goto, HandlerGoto, Return, At, TypeOK, Numbers, InCall
<1>4. ASSUME NEW a \in Agents, Start(a) PROVE Numbers'
  BY <1>4 DEF Start, dmac, spi, calls, handlers, ghosts, Goto, HandlerGoto, Return, At, TypeOK, Numbers, InCall
<1>5. ASSUME NEW a \in Agents, Select(a) PROVE Numbers'
  BY <1>5 DEF Select, dmac, spi, calls, handlers, ghosts, Goto, HandlerGoto, Return, At, TypeOK, Numbers, InCall
<1>6. ASSUME NEW a \in Agents, Wait(a) PROVE Numbers'
  BY <1>6 DEF Wait, dmac, spi, calls, handlers, ghosts, Goto, HandlerGoto, Return, At, TypeOK, Numbers, InCall
<1>7. ASSUME NEW a \in Agents, Unlock(a) PROVE Numbers'
  <2>1. user = tr[a] /\ user \in Ids /\ user # None
    BY <1>7, NoneAssumption DEF Unlock, At, Numbers, Holding, InCall
  <2>2. /\ user' = None /\ over' = over \cup {user} /\ next' = next /\ use' = use /\ tr' = tr
        /\ \A b \in Agents : (InCall(b)' <=> InCall(b)) /\ (pc'[b] = "lock" => pc[b] = "lock")
    BY <1>7 DEF Unlock, TypeOK, InCall, Goto, At
  <2> QED BY <2>1, <2>2, NoneAssumption DEF Numbers, InCall
<1>8. ASSUME NEW a \in Agents, Clear(a) PROVE Numbers'
  BY <1>8 DEF Clear, dmac, spi, calls, handlers, ghosts, Goto, HandlerGoto, Return, At, TypeOK, Numbers, InCall
<1>9. ASSUME NEW h \in Harts, Entry(h) PROVE Numbers'
  BY <1>9 DEF Entry, dmac, spi, calls, handlers, ghosts, Goto, HandlerGoto, Return, At, TypeOK, Numbers, InCall
<1>10. ASSUME NEW h \in Harts, Unregister(h) PROVE Numbers'
  BY <1>10 DEF Unregister, dmac, spi, calls, handlers, ghosts, Goto, HandlerGoto, Return, At, TypeOK, Numbers, InCall
<1>11. ASSUME NEW h \in Harts, Drain(h) PROVE Numbers'
  BY <1>11 DEF Drain, dmac, spi, calls, handlers, ghosts, Goto, HandlerGoto, Return, At, TypeOK, Numbers, InCall
<1>12. ASSUME NEW h \in Harts, IrqUnlock(h) PROVE Numbers'
  <2>1. user \in Ids /\ user # None
    BY <1>12, NoneAssumption DEF IrqUnlock, Registering, Owned, Holding, TypeOK
  <2> QED BY <1>12, <2>1, NoneAssumption DEF IrqUnlock, TypeOK, Numbers, InCall, calls
<1>13. ASSUME NEW h \in Harts, Read(h) PROVE Numbers'
  BY <1>13 DEF Read, dmac, spi, calls, handlers, ghosts, Goto, HandlerGoto, Return, At, TypeOK, Numbers, InCall
<1>14. ASSUME NEW h \in Harts, Leave(h) PROVE Numbers'
  BY <1>14 DEF Leave, dmac, spi, calls, handlers, ghosts, Goto, HandlerGoto, Return, At, TypeOK, Numbers, InCall
<1>15. ASSUME NEW h \in Harts, NEW c \in Channels, Interrupt(h, c) PROVE Numbers'
  BY <1>15 DEF Interrupt, dmac, spi, calls, handlers, ghosts, Goto, HandlerGoto, Return, At, TypeOK, Numbers, InCall
<1>16. ASSUME NEW c \in Channels, Complete(c) PROVE Numbers'
  BY <1>16 DEF Complete, dmac, spi, calls, handlers, ghosts, Goto, HandlerGoto, Return, At, TypeOK, Numbers, InCall
<1>17. CASE UNCHANGED vars
  BY <1>17 DEF vars, dmac, spi, calls, handlers, ghosts, dmac, spi, calls, handlers, ghosts, Goto, HandlerGoto, Return, At, TypeOK, Numbers, InCall
<1> QED BY <1>1, <1>2, <1>3, <1>4, <1>5, <1>6, <1>7, <1>8, <1>9, <1>10, <1>11, <1>12, <1>13, <1>14, <1>15, <1>16, <1>17 DEF Next, Caller, Handler

LEMMA HoldingStep ==
    ASSUME TypeOK, Numbers, Holding, Registering, [Next]_vars
    PROVE  Holding'
<1>1. ASSUME NEW a \in Agents, NEW u \in Uses[a[1]], Call(a, u) PROVE Holding'
  BY <1>1 DEF Call, dmac, spi, calls, handlers, ghosts, Goto, HandlerGoto, Return, At, TypeOK, Numbers, InCall, Holding, WithCallback
<1>2. ASSUME NEW a \in Agents, Lock(a) PROVE Holding'
  <2>1. user = None BY <1>2 DEF Lock, Holding
  <2>2. \A b \in Agents : InCall(b) => tr[b] # None BY NoneAssumption DEF Numbers
  <2>3. pc[a] = "lock" /\ user' = tr[a] /\ lock' /\ tr' = tr /\ use' = use
        /\ pc' = [pc EXCEPT ![a] = "set"]
    BY <1>2 DEF Lock, At, Goto
  <2> QED BY <2>1, <2>2, <2>3 DEF Holding, InCall, WithCallback, TypeOK
<1>3. ASSUME NEW a \in Agents, Set(a) PROVE Holding'
  BY <1>3 DEF Set, dmac, spi, calls, handlers, ghosts, Goto, HandlerGoto, Return, At, TypeOK, Numbers, InCall, Holding, WithCallback
<1>4. ASSUME NEW a \in Agents, Start(a) PROVE Holding'
  BY <1>4 DEF Start, dmac, spi, calls, handlers, ghosts, Goto, HandlerGoto, Return, At, TypeOK, Numbers, InCall, Holding, WithCallback
<1>5. ASSUME NEW a \in Agents, Select(a) PROVE Holding'
  BY <1>5 DEF Select, dmac, spi, calls, handlers, ghosts, Goto, HandlerGoto, Return, At, TypeOK, Numbers, InCall, Holding, WithCallback
<1>6. ASSUME NEW a \in Agents, Wait(a) PROVE Holding'
  BY <1>6 DEF Wait, dmac, spi, calls, handlers, ghosts, Goto, HandlerGoto, Return, At, TypeOK, Numbers, InCall, Holding, WithCallback
<1>7. ASSUME NEW a \in Agents, Unlock(a) PROVE Holding'
  BY <1>7 DEF Unlock, dmac, spi, calls, handlers, ghosts, Goto, HandlerGoto, Return, At, TypeOK, Numbers, InCall, Holding, WithCallback
<1>8. ASSUME NEW a \in Agents, Clear(a) PROVE Holding'
  BY <1>8 DEF Clear, dmac, spi, calls, handlers, ghosts, Goto, HandlerGoto, Return, At, TypeOK, Numbers, InCall, Holding, WithCallback
<1>9. ASSUME NEW h \in Harts, Entry(h) PROVE Holding'
  BY <1>9 DEF Entry, dmac, spi, calls, handlers, ghosts, Goto, HandlerGoto, Return, At, TypeOK, Numbers, InCall, Holding, WithCallback
<1>10. ASSUME NEW h \in Harts, Unregister(h) PROVE Holding'
  BY <1>10 DEF Unregister, dmac, spi, calls, handlers, ghosts, Goto, HandlerGoto, Return, At, TypeOK, Numbers, InCall, Holding, WithCallback
<1>11. ASSUME NEW h \in Harts, Drain(h) PROVE Holding'
  BY <1>11 DEF Drain, dmac, spi, calls, handlers, ghosts, Goto, HandlerGoto, Return, At, TypeOK, Numbers, InCall, Holding, WithCallback
<1>12. ASSUME NEW h \in Harts, IrqUnlock(h) PROVE Holding'
  <2>1. Owned(h) BY <1>12 DEF IrqUnlock, Registering
  <2> QED BY <1>12, <2>1 DEF IrqUnlock, Holding, Owned, WithCallback, calls
<1>13. ASSUME NEW h \in Harts, Read(h) PROVE Holding'
  BY <1>13 DEF Read, dmac, spi, calls, handlers, ghosts, Goto, HandlerGoto, Return, At, TypeOK, Numbers, InCall, Holding, WithCallback
<1>14. ASSUME NEW h \in Harts, Leave(h) PROVE Holding'
  BY <1>14 DEF Leave, dmac, spi, calls, handlers, ghosts, Goto, HandlerGoto, Return, At, TypeOK, Numbers, InCall, Holding, WithCallback
<1>15. ASSUME NEW h \in Harts, NEW c \in Channels, Interrupt(h, c) PROVE Holding'
  BY <1>15 DEF Interrupt, dmac, spi, calls, handlers, ghosts, Goto, HandlerGoto, Return, At, TypeOK, Numbers, InCall, Holding, WithCallback
<1>16. ASSUME NEW c \in Channels, Complete(c) PROVE Holding'
  BY <1>16 DEF Complete, dmac, spi, calls, handlers, ghosts, Goto, HandlerGoto, Return, At, TypeOK, Numbers, InCall, Holding, WithCallback
<1>17. CASE UNCHANGED vars
  BY <1>17 DEF vars, dmac, spi, calls, handlers, ghosts, dmac, spi, calls, handlers, ghosts, Goto, HandlerGoto, Return, At, TypeOK, Numbers, InCall, Holding, WithCallback
<1> QED BY <1>1, <1>2, <1>3, <1>4, <1>5, <1>6, <1>7, <1>8, <1>9, <1>10, <1>11, <1>12, <1>13, <1>14, <1>15, <1>16, <1>17 DEF Next, Caller, Handler

LEMMA RegisteringStep ==
    ASSUME TypeOK, Numbers, Holding, Registering, [Next]_vars
    PROVE  Registering'
<1>1. ASSUME NEW a \in Agents, NEW u \in Uses[a[1]], Call(a, u) PROVE Registering'
  <2>1. user # None => use'[user] = use[user]
    BY <1>1 DEF Call, Numbers, TypeOK
  <2>2. \A g \in Harts : Owned(g) => Owned(g)'
    BY <1>1, <2>1 DEF Call, Owned, Holding, IrqChannel, WithCallback, KindOf, TypeOK, Goto, spi, ghosts
  <2> QED BY <1>1, <2>2 DEF Call, Registering, Serving, spi, dmac, handlers
<1>2. ASSUME NEW a \in Agents, Lock(a) PROVE Registering'
  BY <1>2 DEF Lock, dmac, spi, calls, handlers, ghosts, Goto, HandlerGoto, Return, At, TypeOK, Registering, Owned, Serving, WithCallback, IrqChannel, KindOf
<1>3. ASSUME NEW a \in Agents, Set(a) PROVE Registering'
  <2>1. /\ pc[a] = "set" /\ lock /\ user = tr[a] /\ user \in Ids /\ use[user] \in Uses[a[1]]
        /\ a[1] \in Harts /\ \A b \in Agents : pc'[b] # "set"
    BY <1>3, NoneAssumption DEF Set, At, Holding, Numbers, InCall, Goto, TypeOK, Agents
  <2>2. \A g \in Harts : ~Owned(g) BY <2>1 DEF Owned
  <2>3. \A g \in Harts : registered[g] = {} /\ ~Serving(g) BY <2>2 DEF Registering, Serving
  <2>4. irqat' = irqat /\ irq' = irq /\ user' = user /\ lock' = lock /\ use' = use
    BY <1>3 DEF Set, handlers, ghosts
  <2>5. \A g \in Harts : ~Serving(g)' BY <2>3, <2>4 DEF Serving
  <2>6. CASE ~WithCallback(user)
    <3>1. registered' = registered BY <1>3, <2>1, <2>6 DEF Set
    <3> QED BY <2>3, <2>5, <3>1 DEF Registering, Serving
  <2>7. CASE WithCallback(user)
    <3>1. IrqChannel(user) \in Channels /\ use[user] = <<KindOf(user), TRUE>>
      BY <2>1, <2>7, UseFacts
    <3>2. callback' = user /\ irqchan' = IrqChannel(user) /\ IrqRegister(a[1], IrqChannel(user))
      BY <1>3, <2>1, <2>7 DEF Set
    <3>3. \A g \in Harts : registered'[g] = IF g = a[1] THEN {IrqChannel(user)} ELSE {}
      <4>1. DmacTypeOK BY DEF TypeOK
      <4>2. PICK c \in Channels : c = IrqChannel(user) BY <3>1
      <4>3. IrqRegister(a[1], c) BY <3>2, <4>2
      <4>4. /\ registered'[a[1]] = registered[a[1]] \cup {c}
            /\ \A g \in Harts : g # a[1] => registered'[g] = registered[g]
        BY <2>1, <4>1, <4>3, RegisterFacts
      <4> QED BY <2>1, <2>3, <4>2, <4>4
    <3>4. Owned(a[1])'
      BY <2>1, <2>4, <2>7, <3>1, <3>2 DEF Owned, WithCallback, IrqChannel, KindOf
    <3>5. irqchan' = IrqChannel(user) BY <3>2
    <3> QED BY <2>1, <2>5, <3>3, <3>4, <3>5 DEF Registering, Serving
  <2> QED BY <2>6, <2>7
<1>4. ASSUME NEW a \in Agents, Start(a) PROVE Registering'
  <2>1. \A g \in Harts : Owned(g) => Owned(g)'
    BY <1>4 DEF Start, Owned, IrqChannel, WithCallback, KindOf, Goto, TypeOK, spi, ghosts
  <2>2. UNCHANGED <<registered, handlers, irqchan>> BY <1>4 DEF Start, spi, dmac
  <2> QED BY ONLY <2>1, <2>2, Registering DEF Registering, Serving, handlers
<1>5. ASSUME NEW a \in Agents, Select(a) PROVE Registering'
  <2>1. \A g \in Harts : Owned(g) => Owned(g)'
    BY <1>5 DEF Select, Owned, IrqChannel, WithCallback, KindOf, Goto, Return, TypeOK, ghosts
  <2> QED BY <1>5, <2>1 DEF Select, Registering, Serving, dmac, handlers
<1>6. ASSUME NEW a \in Agents, Wait(a) PROVE Registering'
  <2>1. \A g \in Harts : Owned(g) => Owned(g)'
    BY <1>6 DEF Wait, Owned, IrqChannel, WithCallback, KindOf, Goto, TypeOK, spi, ghosts
  <2>2. UNCHANGED <<registered, handlers, irqchan>> BY <1>6 DEF Wait, spi, dmac
  <2> QED BY ONLY <2>1, <2>2, Registering DEF Registering, Serving, handlers
<1>7. ASSUME NEW a \in Agents, Unlock(a) PROVE Registering'
  <2>1. \A g \in Harts : ~Owned(g) BY <1>7 DEF Unlock, At, Holding, Owned
  <2>2. \A g \in Harts : registered[g] = {} /\ ~Serving(g) BY <2>1 DEF Registering, Serving
  <2> QED BY <1>7, <2>2 DEF Unlock, Registering, Serving, dmac, handlers
<1>8. ASSUME NEW a \in Agents, Clear(a) PROVE Registering'
  <2>1. \A g \in Harts : Owned(g) => Owned(g)'
    BY <1>8 DEF Clear, Owned, IrqChannel, WithCallback, KindOf, Goto, Return, TypeOK, calls
  <2>2. UNCHANGED <<registered, handlers, irqchan>> BY <1>8 DEF Clear, spi, dmac
  <2> QED BY ONLY <2>1, <2>2, Registering DEF Registering, Serving, handlers
<1>9. ASSUME NEW h \in Harts, Entry(h) PROVE Registering'
  <2>1. \A g \in Harts : Owned(g) => Owned(g)'
    BY <1>9 DEF Entry, Owned, IrqChannel, WithCallback, KindOf, ghosts, spi, calls
  <2>2. registered' = registered /\ irq' = irq /\ irqchan' = irqchan BY <1>9 DEF Entry, spi
  <2>3. \A g \in Harts : irqat'[g] = irqat[g] \/ (g = h /\ irqat[g] = "entry" /\ irqat'[g] \in {"unregister", "callback"})
    BY <1>9 DEF Entry, HandlerGoto, TypeOK
  <2> QED BY <2>1, <2>2, <2>3 DEF Registering, Serving
<1>10. ASSUME NEW h \in Harts, Unregister(h) PROVE Registering'
  <2>1. irqchan \in Channels /\ DmacTypeOK BY DEF TypeOK
  <2>2. /\ irqat[h] = "unregister" /\ IrqUnregister(h, irqchan) /\ irqchan' = irqchan /\ irq' = irq
        /\ \A g \in Harts : irqat'[g] = IF g = h THEN "drain" ELSE irqat[g]
    BY <1>10 DEF Unregister, HandlerGoto, TypeOK, spi
  <2>3. \A g \in Harts : Owned(g) => Owned(g)'
    BY <1>10 DEF Unregister, Owned, IrqChannel, WithCallback, KindOf, ghosts, spi, calls
  <2>4. /\ registered'[h] = registered[h] \ {irqchan}
        /\ \A g \in Harts : g # h => registered'[g] = registered[g]
    BY <2>1, <2>2, UnregisterFacts
  <2>5. irq[h] \in registered[h] BY <2>2 DEF Registering
  <2>6. Owned(h) /\ \A g \in Harts : registered'[g] = {} BY <2>4, <2>5 DEF Registering
  <2>7. \A g \in Harts : Serving(g) => g = h BY <2>2 DEF Registering, Serving
  <2> QED BY <2>2, <2>3, <2>6, <2>7 DEF Registering, Serving
<1>11. ASSUME NEW h \in Harts, Drain(h) PROVE Registering'
  <2>1. \A g \in Harts : Owned(g) => Owned(g)'
    BY <1>11 DEF Drain, Owned, IrqChannel, WithCallback, KindOf, ghosts, calls
  <2>2. UNCHANGED <<registered, irq, irqchan>> BY <1>11 DEF Drain, dmac
  <2>3. irqat[h] = "drain" /\ \A g \in Harts : irqat'[g] = IF g = h THEN "unlock" ELSE irqat[g]
    BY <1>11 DEF Drain, HandlerGoto, TypeOK
  <2> QED BY ONLY <2>1, <2>2, <2>3, Registering DEF Registering, Serving
<1>12. ASSUME NEW h \in Harts, IrqUnlock(h) PROVE Registering'
  BY <1>12 DEF IrqUnlock, dmac, spi, calls, handlers, ghosts, Goto, HandlerGoto, Return, At, TypeOK, Registering, Owned, Serving, WithCallback, IrqChannel, KindOf
<1>13. ASSUME NEW h \in Harts, Read(h) PROVE Registering'
  <2>1. \A g \in Harts : Owned(g) => Owned(g)'
    BY <1>13 DEF Read, Owned, IrqChannel, WithCallback, KindOf, spi, calls
  <2>2. registered' = registered /\ irq' = irq /\ irqchan' = irqchan BY <1>13 DEF Read, spi, dmac
  <2>3. \A g \in Harts : irqat'[g] = IF g = h THEN "callback" ELSE irqat[g]
    BY <1>13 DEF Read, HandlerGoto, TypeOK
  <2> QED BY <2>1, <2>2, <2>3 DEF Registering, Serving
<1>14. ASSUME NEW h \in Harts, Leave(h) PROVE Registering'
  BY <1>14 DEF Leave, dmac, spi, calls, handlers, ghosts, Goto, HandlerGoto, Return, At, TypeOK, Registering, Owned, Serving, WithCallback, IrqChannel, KindOf
<1>15. ASSUME NEW h \in Harts, NEW c \in Channels, Interrupt(h, c) PROVE Registering'
  <2>1. \A g \in Harts : Owned(g) => Owned(g)'
    BY <1>15 DEF Interrupt, Owned, IrqChannel, WithCallback, KindOf, spi, calls, ghosts
  <2>2. registered' = registered /\ irqchan' = irqchan /\ c \in registered[h] /\ irqat[h] = "none"
    BY <1>15 DEF Interrupt, Interrupts, spi, dmac
  <2>3. \A g \in Harts : irqat'[g] = (IF g = h THEN "entry" ELSE irqat[g]) /\ irq'[g] = IF g = h THEN c ELSE irq[g]
    BY <1>15 DEF Interrupt, HandlerGoto, TypeOK
  <2>4. \A g \in Harts : ~Serving(g) BY <2>2 DEF Registering, Serving
  <2> QED BY <2>1, <2>2, <2>3, <2>4 DEF Registering, Serving
<1>16. ASSUME NEW c \in Channels, Complete(c) PROVE Registering'
  BY <1>16 DEF Complete, dmac, spi, calls, handlers, ghosts, Goto, HandlerGoto, Return, At, TypeOK, Registering, Owned, Serving, WithCallback, IrqChannel, KindOf
<1>17. CASE UNCHANGED vars
  BY <1>17 DEF vars, dmac, spi, calls, handlers, ghosts, dmac, spi, calls, handlers, ghosts, Goto, HandlerGoto, Return, At, TypeOK, Registering, Owned, Serving, WithCallback, IrqChannel, KindOf
<1> QED BY <1>1, <1>2, <1>3, <1>4, <1>5, <1>6, <1>7, <1>8, <1>9, <1>10, <1>11, <1>12, <1>13, <1>14, <1>15, <1>16, <1>17 DEF Next, Caller, Handler

LEMMA OnceStep ==
    ASSUME OneCaller, Once, TypeOK, Numbers, Holding, Registering, [Next]_vars
    PROVE  Once'
<1>1. ASSUME NEW a \in Agents, NEW u \in Uses[a[1]], Call(a, u) PROVE Once'
  BY <1>1 DEF Call, dmac, spi, calls, handlers, ghosts, Goto, HandlerGoto, Return, At, TypeOK, Once
<1>2. ASSUME NEW a \in Agents, Lock(a) PROVE Once'
  BY <1>2 DEF Lock, dmac, spi, calls, handlers, ghosts, Goto, HandlerGoto, Return, At, TypeOK, Once
<1>3. ASSUME NEW a \in Agents, Set(a) PROVE Once'
  <2>1. user = tr[a] /\ user \in Ids /\ use[user] \in Uses[a[1]] /\ a[1] \in Harts
        /\ irqat[a[1]] \in {"none", "callback"}
    BY <1>3 DEF Set, At, MayRun, Holding, Numbers, InCall, Agents
  <2>2. UNCHANGED <<called, over, irqat>> BY <1>3 DEF Set, handlers, ghosts
  <2>3. CASE WithCallback(user)
    <3>1. \E u \in Uses[a[1]] : u[2] BY <2>1, <2>3 DEF WithCallback
    <3>2. \A g \in Harts : irqat[g] # "read" BY <2>1, <3>1 DEF Once, OneCaller
    <3> QED BY <2>2, <3>2 DEF Once
  <2>4. CASE ~WithCallback(user)
    <3>1. callback' = callback BY <1>3, <2>1, <2>4 DEF Set
    <3> QED BY <2>2, <3>1 DEF Once
  <2> QED BY <2>3, <2>4
<1>4. ASSUME NEW a \in Agents, Start(a) PROVE Once'
  BY <1>4 DEF Start, dmac, spi, calls, handlers, ghosts, Goto, HandlerGoto, Return, At, TypeOK, Once
<1>5. ASSUME NEW a \in Agents, Select(a) PROVE Once'
  BY <1>5 DEF Select, dmac, spi, calls, handlers, ghosts, Goto, HandlerGoto, Return, At, TypeOK, Once
<1>6. ASSUME NEW a \in Agents, Wait(a) PROVE Once'
  BY <1>6 DEF Wait, dmac, spi, calls, handlers, ghosts, Goto, HandlerGoto, Return, At, TypeOK, Once
<1>7. ASSUME NEW a \in Agents, Unlock(a) PROVE Once'
  BY <1>7 DEF Unlock, dmac, spi, calls, handlers, ghosts, Goto, HandlerGoto, Return, At, TypeOK, Once
<1>8. ASSUME NEW a \in Agents, Clear(a) PROVE Once'
  BY <1>8 DEF Clear, dmac, spi, calls, handlers, ghosts, Goto, HandlerGoto, Return, At, TypeOK, Once
<1>9. ASSUME NEW h \in Harts, Entry(h) PROVE Once'
  <2>1. irq[h] \in registered[h] BY <1>9 DEF Entry, Registering
  <2>2. <<KindOf(user), TRUE>> \in Uses[h] BY <2>1 DEF Registering, Owned
  <2>3. \E u \in Uses[h] : u[2] BY <2>2
  <2> QED BY <1>9, <2>3 DEF Entry, Once, spi, ghosts, HandlerGoto, TypeOK
<1>10. ASSUME NEW h \in Harts, Unregister(h) PROVE Once'
  BY <1>10 DEF Unregister, dmac, spi, calls, handlers, ghosts, Goto, HandlerGoto, Return, At, TypeOK, Once
<1>11. ASSUME NEW h \in Harts, Drain(h) PROVE Once'
  BY <1>11 DEF Drain, dmac, spi, calls, handlers, ghosts, Goto, HandlerGoto, Return, At, TypeOK, Once
<1>12. ASSUME NEW h \in Harts, IrqUnlock(h) PROVE Once'
  <2>1. Owned(h) BY <1>12 DEF IrqUnlock, Registering
  <2>2. user \in Ids /\ user \notin over /\ callback = user
    BY <2>1 DEF Owned, Holding, Numbers, TypeOK
  <2>3. called[user] = 0 BY <2>2 DEF Once, TypeOK
  <2>4. <<KindOf(user), TRUE>> \in Uses[h] BY <2>1 DEF Owned
  <2>5. \E u \in Uses[h] : u[2] BY <2>4
  <2>6. UNCHANGED <<called, callback>> /\ over' = over \cup {user} BY <1>12 DEF IrqUnlock
  <2>7. \A g \in Harts : irqat'[g] = IF g = h THEN "read" ELSE irqat[g] BY <1>12 DEF IrqUnlock, HandlerGoto, TypeOK
  <2> QED BY <2>2, <2>3, <2>5, <2>6, <2>7 DEF Once
<1>13. ASSUME NEW h \in Harts, Read(h) PROVE Once'
  <2>1. irqat[h] = "read" /\ callback \in over /\ called[callback] = 0 /\ callback \in Ids
    BY <1>13 DEF Read, Once, TypeOK
  <2>2. called' = [called EXCEPT ![callback] = 1] BY <1>13, <2>1 DEF Read
  <2>3. \A id \in Ids : called'[id] = IF id = callback THEN 1 ELSE called[id] BY <2>1, <2>2 DEF TypeOK
  <2>4. \A g \in Harts : irqat[g] = "read" => g = h BY <2>1 DEF Once, OneCaller
  <2>5. \A g \in Harts : irqat'[g] = IF g = h THEN "callback" ELSE irqat[g] BY <1>13 DEF Read, HandlerGoto, TypeOK
  <2>6. UNCHANGED <<over, callback>> BY <1>13 DEF Read, spi
  <2> QED BY <2>1, <2>3, <2>4, <2>5, <2>6 DEF Once
<1>14. ASSUME NEW h \in Harts, Leave(h) PROVE Once'
  BY <1>14 DEF Leave, dmac, spi, calls, handlers, ghosts, Goto, HandlerGoto, Return, At, TypeOK, Once
<1>15. ASSUME NEW h \in Harts, NEW c \in Channels, Interrupt(h, c) PROVE Once'
  BY <1>15 DEF Interrupt, dmac, spi, calls, handlers, ghosts, Goto, HandlerGoto, Return, At, TypeOK, Once
<1>16. ASSUME NEW c \in Channels, Complete(c) PROVE Once'
  BY <1>16 DEF Complete, dmac, spi, calls, handlers, ghosts, Goto, HandlerGoto, Return, At, TypeOK, Once
<1>17. CASE UNCHANGED vars
  BY <1>17 DEF vars, dmac, spi, calls, handlers, ghosts, dmac, spi, calls, handlers, ghosts, Goto, HandlerGoto, Return, At, TypeOK, Once
<1> QED BY <1>1, <1>2, <1>3, <1>4, <1>5, <1>6, <1>7, <1>8, <1>9, <1>10, <1>11, <1>12, <1>13, <1>14, <1>15, <1>16, <1>17 DEF Next, Caller, Handler

\* A caller between the lock and its end is the only one.
LEMMA Alone ==
    ASSUME Numbers, Holding, Working, NEW a \in Agents, NEW b \in Agents,
           pc[a] \in {"set", "start", "wait", "unlock"}, pc[b] \in {"set", "start", "wait", "unlock"}
    PROVE  a = b /\ user = tr[a]
  BY DEF Numbers, Holding, Working, InCall

LEMMA WorkingStep ==
    ASSUME TypeOK, Numbers, Holding, Registering, Working, ~cut', [Next]_vars
    PROVE  Working'
<1>1. ASSUME NEW a \in Agents, NEW u \in Uses[a[1]], Call(a, u) PROVE Working'
  <2>1. user # None => use'[user] = use[user]
    BY <1>1 DEF Call, Numbers, TypeOK
  <2>2. lock => user # None BY DEF Holding
  <2>3. UNCHANGED <<lock, ssienr, chan, ctx, registered, user, irqat>> BY <1>1 DEF Call, dmac, spi, handlers, ghosts
  <2>4. \A b \in Agents : pc'[b] = pc[b] \/ (b = a /\ pc[b] = "idle" /\ pc'[b] = "lock")
    BY <1>1 DEF Call, Goto, TypeOK
  <2>5. \A b \in Agents : pc[b] = "start" => tr'[b] = tr[b] BY <1>1 DEF Call, TypeOK
  <2> QED BY <2>1, <2>2, <2>3, <2>4, <2>5 DEF Working, Unstarted, Serving, ChannelsOf, KindOf
<1>2. ASSUME NEW a \in Agents, Lock(a) PROVE Working'
  <2>1. ~lock /\ user = None BY <1>2 DEF Lock, Holding
  <2>2. \A c \in Channels : ~chan[c].run BY <2>1 DEF Working
  <2>3. \A g \in Harts : registered[g] = {} BY <2>1 DEF Registering, Owned
  <2>4. \A b \in Agents : pc[b] # "start" BY <2>1, NoneAssumption DEF Working, Numbers, InCall
  <2>5. \A b \in Agents : pc'[b] = IF b = a THEN "set" ELSE pc[b] BY <1>2 DEF Lock, At, Goto, TypeOK
  <2>6. UNCHANGED <<chan, registered>> BY <1>2 DEF Lock, dmac
  <2> QED BY <2>2, <2>3, <2>4, <2>5, <2>6 DEF Working, Unstarted
<1>3. ASSUME NEW a \in Agents, Set(a) PROVE Working'
  <2>1. /\ pc[a] = "set" /\ lock /\ user = tr[a] /\ user \in Ids /\ a[1] \in Harts
        /\ \A b \in Agents : b # a => pc[b] \notin {"set", "start", "wait", "unlock"}
    BY <1>3, Alone, NoneAssumption DEF Set, At, Holding, Numbers, InCall, Agents
  <2>2. \A g \in Harts : ~Owned(g) BY <2>1 DEF Owned
  <2>3. \A g \in Harts : registered[g] = {} /\ ~Serving(g) BY <2>2 DEF Registering, Serving
  <2>4. \A c \in Channels : ~chan[c].run BY <2>1 DEF Working, Unstarted
  <2>5. /\ UNCHANGED <<irqat, user, lock, tr>> /\ ssienr'
        /\ \A b \in Agents : pc'[b] = IF b = a THEN "start" ELSE pc[b]
    BY <1>3 DEF Set, Goto, TypeOK, handlers, ghosts
  <2>6. /\ \A c \in Channels : chan'[c].run = chan[c].run
        /\ \A g \in Harts : \A c \in registered'[g] : ~chan'[c].int /\ ctx'[c].callback
    <3>1. CASE WithCallback(user)
      <4>1. PICK c \in Channels : c = IrqChannel(user) BY <2>1, UseFacts
      <4>2. DmacTypeOK /\ IrqRegister(a[1], c) BY <1>3, <2>1, <3>1, <4>1 DEF Set, TypeOK
      <4>3. \A g \in Harts : registered'[g] \subseteq {c} BY <2>1, <2>3, <4>2, RegisterFacts
      <4> QED BY <2>1, <4>2, <4>3, RegisterFacts
    <3>2. CASE ~WithCallback(user)
      <4>1. UNCHANGED <<chan, registered>> BY <1>3, <2>1, <3>2 DEF Set
      <4> QED BY <2>3, <4>1
    <3> QED BY <3>1, <3>2
  <2> QED BY <2>1, <2>3, <2>4, <2>5, <2>6 DEF Working, Serving
<1>4. ASSUME NEW a \in Agents, Start(a) PROVE Working'
  <2>1. /\ pc[a] = "start" /\ lock /\ user = tr[a] /\ user \in Ids
        /\ \A b \in Agents : b # a => pc[b] \notin {"set", "start", "wait", "unlock"}
    BY <1>4, Alone, NoneAssumption DEF Start, At, Holding, Numbers, InCall
  <2>2. \A g \in Harts : ~Serving(g) BY <2>1 DEF Working
  <2>3. \A c \in Channels : ~chan[c].run BY <2>1 DEF Working, Unstarted
  <2>4. /\ UNCHANGED <<irqat, user, lock, tr, use, ssienr, registered>>
        /\ \A b \in Agents : pc'[b] = IF b = a THEN "select" ELSE pc[b]
    BY <1>4 DEF Start, Goto, TypeOK, handlers, ghosts, spi
  <2>5. PICK cs \in SUBSET Channels : cs = ChannelsOf(user) BY <2>1, UseFacts
  <2>6. PICK from \in SUBSET Channels : from = cs \cap {"tx"} OBVIOUS
  <2>7. PICK to \in SUBSET Channels : to = cs \cap {"rx"} OBVIOUS
  <2>12. SetSingleMode(user, from, to) /\ DmacTypeOK
    BY <1>4, <2>1, <2>5, <2>6, <2>7 DEF Start, TypeOK
  <2>13. \A c \in Channels : (chan'[c].run <=> chan[c].run \/ c \in from \cup to) /\ ctx'[c].callback = ctx[c].callback
    BY <2>1, <2>12, StartFacts
  <2>8. \A c \in Channels : (chan'[c].run => c \in cs) /\ ctx'[c].callback = ctx[c].callback
    BY <2>3, <2>6, <2>7, <2>13
  <2>9. ChannelsOf(user)' = cs BY <2>4, <2>5 DEF ChannelsOf, KindOf
  <2>10. ssienr BY <2>1, <2>2 DEF Working, Serving
  <2>11. \A g \in Harts : \A c \in registered[g] : ctx'[c].callback
    BY <2>8 DEF Working, TypeOK, DmacTypeOK
  <2> QED BY <2>1, <2>2, <2>4, <2>8, <2>9, <2>10, <2>11 DEF Working, Unstarted, Serving
<1>5. ASSUME NEW a \in Agents, Select(a) PROVE Working'
  <2>1. UNCHANGED <<lock, ssienr, chan, ctx, registered, user, use, irqat>> BY <1>5 DEF Select, dmac, handlers, ghosts
  <2>2. \A b \in Agents : \/ pc'[b] = pc[b] /\ tr'[b] = tr[b]
                          \/ pc[b] = "select" /\ pc'[b] \in {"idle", "wait"}
    BY <1>5 DEF Select, At, Goto, Return, TypeOK
  <2> QED BY <2>1, <2>2 DEF Working, Unstarted, Serving, ChannelsOf, KindOf
<1>6. ASSUME NEW a \in Agents, Wait(a) PROVE Working'
  <2>1. /\ pc[a] = "wait" /\ user = tr[a] /\ user \in Ids
        /\ \A b \in Agents : b # a => pc[b] \notin {"set", "start", "wait", "unlock"}
    BY <1>6, Alone DEF Wait, At, Holding, Numbers, InCall
  <2>2. /\ UNCHANGED <<irqat, user, lock, tr, use, ssienr, registered>>
        /\ \A b \in Agents : pc'[b] = IF b = a THEN "unlock" ELSE pc[b]
    BY <1>6 DEF Wait, Goto, TypeOK, handlers, ghosts, spi
  <2>3. PICK cs \in SUBSET Channels : cs = ChannelsOf(user) BY <2>1, UseFacts
  <2>4. \A c \in Channels : ~chan[c].run BY <1>6, <2>1, <2>3 DEF Wait, Idle, Working
  <2>5. ClearInterrupt(cs) /\ Settle(cs) /\ DmacTypeOK BY <1>6, <2>1, <2>3 DEF Wait, TypeOK
  <2>6. \A c \in Channels : /\ chan'[c].run = chan[c].run /\ ctx'[c].callback = ctx[c].callback
                            /\ chan'[c].int => chan[c].int
    BY <2>5, ClearFacts, SettleFacts
  <2>7. \A g \in Harts : registered[g] \subseteq Channels BY DEF TypeOK, DmacTypeOK
  <2> QED BY <2>1, <2>2, <2>4, <2>6, <2>7 DEF Working, Unstarted, Serving
<1>7. ASSUME NEW a \in Agents, Unlock(a) PROVE Working'
  <2>1. /\ pc[a] = "unlock" /\ user = tr[a] /\ ~WithCallback(user)
        /\ \A b \in Agents : b # a => pc[b] \notin {"set", "start", "wait", "unlock"}
    BY <1>7, Alone DEF Unlock, At, Holding, Numbers, InCall
  <2>2. \A g \in Harts : registered[g] = {} BY <2>1 DEF Registering, Owned
  <2>3. \A c \in Channels : ~chan[c].run BY <2>1 DEF Working
  <2>4. UNCHANGED <<chan, registered>> /\ ~lock'
        /\ \A b \in Agents : pc'[b] = IF b = a THEN "clear" ELSE pc[b]
    BY <1>7 DEF Unlock, Goto, TypeOK, dmac
  <2> QED BY <2>1, <2>2, <2>3, <2>4 DEF Working
<1>8. ASSUME NEW a \in Agents, Clear(a) PROVE Working'
  <2>1. ~lock BY <1>8 DEF Clear
  <2>2. \A g \in Harts : registered[g] = {} BY <2>1 DEF Registering, Owned
  <2>3. \A c \in Channels : ~chan[c].run BY <2>1 DEF Working
  <2>4. \A b \in Agents : pc[b] # "start" BY <2>1, NoneAssumption DEF Working, Numbers, InCall, Holding
  <2>5. UNCHANGED <<chan, registered, lock>> /\ \A b \in Agents : pc'[b] = IF b = a THEN "idle" ELSE pc[b]
    BY <1>8 DEF Clear, Return, Goto, TypeOK, dmac
  <2> QED BY <2>1, <2>2, <2>3, <2>4, <2>5 DEF Working
<1>9. ASSUME NEW h \in Harts, Entry(h) PROVE Working'
  <2>1. UNCHANGED <<registered, lock, ssienr, user, use, pc, tr>> BY <1>9 DEF Entry, spi, calls, ghosts
  <2>2. /\ irqat[h] = "entry" /\ ClearInterrupt({irq[h]}) /\ Settle({irq[h]}) /\ DmacTypeOK
        /\ irq[h] \in Channels
    BY <1>9 DEF Entry, TypeOK, DmacTypeOK, Registering
  <2>3. \A g \in Harts : irqat'[g] = irqat[g] \/ (g = h /\ irqat'[g] \in {"unregister", "callback"})
    BY <1>9 DEF Entry, HandlerGoto, TypeOK
  <2>4. \A c \in Channels : /\ chan'[c].run = chan[c].run /\ ctx'[c].callback = ctx[c].callback
                            /\ chan'[c].int => chan[c].int
    BY <2>2, ClearFacts, SettleFacts
  <2>5. \A g \in Harts : registered[g] \subseteq Channels BY DEF TypeOK, DmacTypeOK
  <2> QED BY <2>1, <2>2, <2>3, <2>4, <2>5 DEF Working, Unstarted, Serving, ChannelsOf, KindOf
<1>10. ASSUME NEW h \in Harts, Unregister(h) PROVE Working'
  <2>1. UNCHANGED <<lock, ssienr, user, use, pc, tr>> BY <1>10 DEF Unregister, spi, calls, ghosts
  <2>2. /\ irqat[h] = "unregister" /\ IrqUnregister(h, irqchan) /\ DmacTypeOK /\ irqchan \in Channels
        /\ \A g \in Harts : irqat'[g] = IF g = h THEN "drain" ELSE irqat[g]
    BY <1>10 DEF Unregister, TypeOK, HandlerGoto
  <2>3. irq[h] \in registered[h] BY <2>2 DEF Registering
  <2>4. \A g \in Harts : registered'[g] = {} BY <2>2, <2>3, UnregisterFacts DEF Registering
  <2>5. \A c \in Channels : chan'[c].run = chan[c].run BY <2>2, UnregisterFacts
  <2> QED BY <2>1, <2>2, <2>4, <2>5 DEF Working, Unstarted, Serving, ChannelsOf, KindOf
<1>11. ASSUME NEW h \in Harts, Drain(h) PROVE Working'
  <2>1. UNCHANGED <<registered, chan, ctx, lock, user, use, pc, tr>> BY <1>11 DEF Drain, dmac, calls, ghosts
  <2>2. irqat[h] = "drain" /\ Drained /\ \A g \in Harts : irqat'[g] = IF g = h THEN "unlock" ELSE irqat[g]
    BY <1>11 DEF Drain, TypeOK, HandlerGoto
  <2>3. Owned(h) /\ \A g \in Harts : registered[g] = {} BY <2>2 DEF Registering
  <2>4. \A g \in Harts : irqat[g] # "unlock" BY <2>2 DEF Registering, Serving
  <2>5. ssienr BY <2>3, <2>4 DEF Working, Owned
  <2>6. \A c \in Channels : ~chan[c].run BY <2>2, <2>5 DEF Drained, Idle
  <2> QED BY <2>1, <2>2, <2>3, <2>6 DEF Working, Serving
<1>12. ASSUME NEW h \in Harts, IrqUnlock(h) PROVE Working'
  <2>1. UNCHANGED <<registered, chan, pc>> /\ ~lock' BY <1>12 DEF IrqUnlock, dmac, calls
  <2>2. irqat[h] = "unlock" BY <1>12 DEF IrqUnlock
  <2>3. \A g \in Harts : registered[g] = {} BY <2>2 DEF Registering
  <2>4. \A c \in Channels : ~chan[c].run BY <2>2 DEF Working
  <2>5. \A b \in Agents : pc[b] # "start" BY <2>2 DEF Working, Serving
  <2> QED BY <2>1, <2>3, <2>4, <2>5 DEF Working
<1>13. ASSUME NEW h \in Harts, Read(h) PROVE Working'
  BY <1>13 DEF Read, dmac, spi, calls, handlers, ghosts, Goto, HandlerGoto, Return, At, TypeOK, Working, Unstarted, Serving, ChannelsOf, KindOf
<1>14. ASSUME NEW h \in Harts, Leave(h) PROVE Working'
  BY <1>14 DEF Leave, dmac, spi, calls, handlers, ghosts, Goto, HandlerGoto, Return, At, TypeOK, Working, Unstarted, Serving, ChannelsOf, KindOf
<1>15. ASSUME NEW h \in Harts, NEW c \in Channels, Interrupt(h, c) PROVE Working'
  <2>1. UNCHANGED <<ctx, chan, registered, lock, ssienr, user, use, pc, tr>>
    BY <1>15 DEF Interrupt, dmac, spi, calls, ghosts
  <2>2. \A g \in Harts : irqat'[g] = IF g = h THEN "entry" ELSE irqat[g] BY <1>15 DEF Interrupt, HandlerGoto, TypeOK
  <2>3. ~Unstarted /\ irqat[h] = "none" BY <1>15 DEF Interrupt, Interrupts, Working
  <2> QED BY <2>1, <2>2, <2>3 DEF Working, Unstarted, Serving, ChannelsOf, KindOf
<1>16. ASSUME NEW c \in Channels, Complete(c) PROVE Working'
  <2>1. UNCHANGED <<ctx, registered, lock, ssienr, user, use, pc, tr, irqat>>
    BY <1>16 DEF Complete, spi, calls, handlers, ghosts
  <2>2. Finish(c) /\ chan[c].run /\ DmacTypeOK BY <1>16 DEF Complete, TypeOK
  <2>3. \A d \in Channels : (chan'[d].run => chan[d].run) /\ (d # c => chan'[d] = chan[d]) BY <2>2, FinishFacts
  <2>4. ~Unstarted BY <2>2 DEF Working
  <2> QED BY <2>1, <2>3, <2>4 DEF Working, Unstarted, Serving, ChannelsOf, KindOf
<1>17. CASE UNCHANGED vars
  BY <1>17 DEF vars, dmac, spi, calls, handlers, ghosts, dmac, spi, calls, handlers, ghosts, Goto, HandlerGoto, Return, At, TypeOK, Working, Unstarted, Serving, ChannelsOf, KindOf
<1> QED BY <1>1, <1>2, <1>3, <1>4, <1>5, <1>6, <1>7, <1>8, <1>9, <1>10, <1>11, <1>12, <1>13, <1>14, <1>15, <1>16, <1>17 DEF Next, Caller, Handler

\* What Bounced speaks of.
LEMMA BouncedKept ==
    ASSUME Bounced, UNCHANGED <<lock, user, use, next, over, bufs, copied, ctx>>,
           Settled' <=> Settled, Unstarted' <=> Unstarted
    PROVE  Bounced'
<1>1. Pending' <=> Pending BY DEF Pending
<1> QED BY <1>1 DEF Bounced, Leaked, BufferOf, Side, Receives, ChannelsOf, IrqChannel, WithCallback, KindOf

LEMMA BouncedStep ==
    ASSUME TypeOK, Numbers, Holding, Registering, Working, Bounced, ~cut', [Next]_vars
    PROVE  Bounced'
<1>1. ASSUME NEW a \in Agents, NEW u \in Uses[a[1]], Call(a, u) PROVE Bounced'
  <2>1. \A id \in Ids : id < next => id < next' /\ id # next BY <1>1, IdAssumption DEF Call, TypeOK
  <2>2. \A id \in Ids : id < next => use'[id] = use[id] BY <1>1, <2>1 DEF Call, TypeOK
  <2>3. UNCHANGED <<lock, ctx, bufs, copied, user, over, irqat>> BY <1>1 DEF Call, dmac, spi, handlers, ghosts
  <2>4. \A b \in Agents : pc'[b] = pc[b] \/ (b = a /\ pc[b] = "idle" /\ pc'[b] = "lock")
    BY <1>1 DEF Call, Goto, TypeOK
  <2>5. (Pending <=> Pending') /\ (Settled <=> Settled') BY <2>3, <2>4 DEF Pending, Settled, Unstarted
  <2>6. \A id \in Ids : id < next => ChannelsOf(id)' = ChannelsOf(id) /\ IrqChannel(id)' = IrqChannel(id)
          /\ WithCallback(id)' = WithCallback(id) /\ KindOf(id)' = KindOf(id)
    BY <2>2 DEF ChannelsOf, IrqChannel, WithCallback, KindOf
  <2>7. (lock => user \in Ids /\ user < next) /\ over \subseteq Ids /\ \A id \in over : id < next
    BY DEF Holding, Numbers, TypeOK
  <2>8. \A b \in bufs : b.id \in Ids /\ b.id < next BY DEF TypeOK, DmacTypeOK, Buffers, Bounced
  <2>9. (lock => user \in Ids /\ ChannelsOf(user)' = ChannelsOf(user) /\ IrqChannel(user)' = IrqChannel(user)
               /\ WithCallback(user)' = WithCallback(user) /\ KindOf(user)' = KindOf(user))
    BY <2>2, <2>3, <2>7 DEF ChannelsOf, IrqChannel, WithCallback, KindOf
  <2>10. \A b \in bufs : Leaked(b) => Leaked(b)' BY <2>6, <2>8, <2>3 DEF Leaked
  <2>11. Pending' => \A c \in ChannelsOf(user)' :
           IF c = "tx" THEN ctx'[c].src = BufferOf(user, c) ELSE ctx'[c].dest = BufferOf(user, c)
    BY <2>3, <2>5, <2>9 DEF Bounced, Pending
  <2>12. \A b \in bufs : b.id < next'
           /\ (Leaked(b)' \/ (Pending' /\ b.channel \in ChannelsOf(user)' /\ b = BufferOf(user, b.channel)))
    BY <2>1, <2>5, <2>8, <2>9, <2>10 DEF Bounced, Pending
  <2>13. lock' /\ Settled' => /\ WithCallback(user)' /\ IrqChannel(user)' = "rx" => user \in copied
                              /\ ~WithCallback(user)' /\ Receives(user)' => user \in copied
    BY <2>3, <2>5, <2>9 DEF Bounced, Receives
  <2>14. \A id \in over : Receives(id)' /\ ~(KindOf(id)' = "long" /\ WithCallback(id)') => id \in copied
    BY <2>6, <2>7 DEF Bounced, Receives
  <2>15. user' = user /\ bufs' = bufs /\ over' = over /\ copied' = copied BY <2>3
  <2>16. (\A id \in over : Receives(id) /\ ~(KindOf(id) = "long" /\ WithCallback(id)) => id \in copied)'
    BY <2>14, <2>15
  <2>17. (lock /\ Settled => /\ WithCallback(user) /\ IrqChannel(user) = "rx" => user \in copied
                             /\ ~WithCallback(user) /\ Receives(user) => user \in copied)'
    BY <2>13, <2>15
  <2>18. (Pending => \A c \in ChannelsOf(user) :
           IF c = "tx" THEN ctx[c].src = BufferOf(user, c) ELSE ctx[c].dest = BufferOf(user, c))'
    BY <2>11, <2>15 DEF BufferOf, Side
  <2>19. (\A b \in bufs : b.id < next
           /\ (Leaked(b) \/ (Pending /\ b.channel \in ChannelsOf(user) /\ b = BufferOf(user, b.channel))))'
    BY <2>12, <2>15 DEF BufferOf, Side
  <2> QED BY <2>16, <2>17, <2>18, <2>19 DEF Bounced
<1>2. ASSUME NEW a \in Agents, Lock(a) PROVE Bounced'
  <2>1. ~lock /\ user = None BY <1>2 DEF Lock, Holding
  <2>2. \A g \in Harts : ~Serving(g) BY <2>1 DEF Registering, Owned, Serving
  <2>3. \A b \in Agents : pc[b] # "unlock" BY <2>1, NoneAssumption DEF Holding, Numbers, InCall
  <2>4. \A b \in Agents : pc'[b] = IF b = a THEN "set" ELSE pc[b] BY <1>2 DEF Lock, At, Goto, TypeOK
  <2>5. UNCHANGED <<bufs, copied, over, use, next, irqat>> BY <1>2 DEF Lock, dmac, handlers
  <2>6. ~Pending' BY <2>4 DEF Pending, Unstarted
  <2>7. ~Settled' BY <2>2, <2>3, <2>4, <2>5 DEF Settled, Serving
  <2>8. \A b \in bufs : b.id < next /\ Leaked(b) BY <2>1 DEF Bounced, Pending
  <2>9. \A b \in bufs : Leaked(b)' BY <2>5, <2>8 DEF Leaked, IrqChannel, WithCallback, KindOf
  <2> QED BY <2>5, <2>6, <2>7, <2>8, <2>9 DEF Bounced, Receives, KindOf, WithCallback
<1>3. ASSUME NEW a \in Agents, Set(a) PROVE Bounced'
  <2>1. /\ pc[a] = "set" /\ lock /\ user = tr[a] /\ user \in Ids
        /\ \A b \in Agents : b # a => pc[b] \notin {"set", "start", "wait", "unlock"}
    BY <1>3, Alone, NoneAssumption DEF Set, At, Holding, Numbers, InCall
  <2>2. \A g \in Harts : ~Serving(g) BY <2>1 DEF Registering, Serving, Owned
  <2>3. /\ UNCHANGED <<irqat, user, bufs, copied, over, use, next>>
        /\ \A b \in Agents : pc'[b] = IF b = a THEN "start" ELSE pc[b]
    BY <1>3 DEF Set, Goto, TypeOK, handlers, ghosts
  <2>4. ~Pending /\ ~Pending' /\ ~Settled'
    BY <2>1, <2>2, <2>3 DEF Pending, Unstarted, Settled, Serving
  <2>5. \A b \in bufs : b.id < next /\ Leaked(b) BY <2>4 DEF Bounced
  <2>6. \A b \in bufs : Leaked(b)' BY <2>3, <2>5 DEF Leaked, IrqChannel, WithCallback, KindOf
  <2> QED BY <2>3, <2>4, <2>5, <2>6 DEF Bounced, Receives, KindOf, WithCallback
<1>4. ASSUME NEW a \in Agents, Start(a) PROVE Bounced'
  <2>1. /\ pc[a] = "start" /\ lock /\ user = tr[a] /\ user \in Ids /\ user < next
        /\ \A b \in Agents : b # a => pc[b] \notin {"set", "start", "wait", "unlock"}
    BY <1>4, Alone, NoneAssumption DEF Start, At, Holding, Numbers, InCall
  <2>2. \A g \in Harts : ~Serving(g) BY <2>1 DEF Working
  <2>3. /\ UNCHANGED <<irqat, user, lock, copied, over, use, next>>
        /\ \A b \in Agents : pc'[b] = IF b = a THEN "select" ELSE pc[b]
    BY <1>4 DEF Start, Goto, TypeOK, handlers, ghosts, spi
  <2>4. ~Pending /\ Pending' /\ ~Settled'
    BY <2>1, <2>2, <2>3 DEF Pending, Unstarted, Settled, Serving
  <2>5. PICK cs \in SUBSET Channels : cs = ChannelsOf(user) BY <2>1, UseFacts
  <2>6. PICK from \in SUBSET Channels : from = cs \cap {"tx"} OBVIOUS
  <2>7. PICK to \in SUBSET Channels : to = cs \cap {"rx"} OBVIOUS
  <2>8. SetSingleMode(user, from, to) /\ DmacTypeOK
    BY <1>4, <2>1, <2>5, <2>6, <2>7 DEF Start, TypeOK
  <2>9. /\ \A c \in from : ctx'[c].src = [id |-> user, channel |-> c, side |-> "src"]
        /\ \A c \in to : ctx'[c].dest = [id |-> user, channel |-> c, side |-> "dest"]
        /\ \A b \in bufs' : \/ b \in bufs
                            \/ \E c \in from : b = [id |-> user, channel |-> c, side |-> "src"]
                            \/ \E c \in to : b = [id |-> user, channel |-> c, side |-> "dest"]
    <3>1. PICK i \in Ids : i = user BY <2>1
    <3>2. SetSingleMode(i, from, to) BY <2>8, <3>1
    <3>3. /\ \A c \in from : ctx'[c].src = [id |-> i, channel |-> c, side |-> "src"]
          /\ \A c \in to : ctx'[c].dest = [id |-> i, channel |-> c, side |-> "dest"]
          /\ \A b \in bufs' : \/ b \in bufs
                              \/ \E c \in from : b = [id |-> i, channel |-> c, side |-> "src"]
                              \/ \E c \in to : b = [id |-> i, channel |-> c, side |-> "dest"]
      <4>1. DmacTypeOK BY <2>8
      <4>2. /\ \A c \in from : ctx'[c].src = [id |-> i, channel |-> c, side |-> "src"]
            /\ \A c \in to : ctx'[c].dest = [id |-> i, channel |-> c, side |-> "dest"]
            /\ bufs' = bufs \cup {[id |-> i, channel |-> c, side |-> "src"] : c \in from}
                          \cup {[id |-> i, channel |-> c, side |-> "dest"] : c \in to}
        BY ONLY <4>1, <3>2, StartBuffers
      <4> QED BY ONLY <4>2
    <3> QED BY <3>1, <3>3
  <2>10. ChannelsOf(user)' = cs /\ user' = user BY <2>3, <2>5 DEF ChannelsOf, KindOf
  <2>11. \A c \in cs : IF c = "tx" THEN ctx'[c].src = BufferOf(user, c) ELSE ctx'[c].dest = BufferOf(user, c)
    BY <2>6, <2>7, <2>9, IdAssumption DEF BufferOf, Side
  <2>12. \A b \in bufs : b.id < next /\ Leaked(b) BY <2>4 DEF Bounced
  <2>13. \A b \in bufs : Leaked(b)' BY <2>3, <2>12 DEF Leaked, IrqChannel, WithCallback, KindOf
  <2>14. ASSUME NEW b \in bufs'
         PROVE  b.id < next /\ (Leaked(b)' \/ (b.channel \in cs /\ b = BufferOf(user, b.channel)))
    <3>1. CASE b \in bufs BY <2>12, <2>13, <3>1
    <3>2. CASE b \notin bufs
      <4>1. PICK c \in cs : b = BufferOf(user, c) BY <2>6, <2>7, <2>9, <3>2 DEF BufferOf, Side
      <4>2. b.id = user /\ b.channel = c BY <4>1 DEF BufferOf
      <4> QED BY <2>1, <4>1, <4>2
    <3> QED BY <3>1, <3>2
  <2> QED BY <2>3, <2>4, <2>10, <2>11, <2>14 DEF Bounced, Receives, KindOf, WithCallback, BufferOf, Side
<1>5. ASSUME NEW a \in Agents, Select(a) PROVE Bounced'
  <2>1. UNCHANGED <<lock, user, use, next, over, bufs, copied, ctx>> BY <1>5 DEF Select, dmac, spi, calls, handlers, ghosts
  <2>2. (Settled' <=> Settled) /\ (Unstarted' <=> Unstarted)
    BY <1>5 DEF Select, dmac, spi, calls, handlers, ghosts, Settled, Unstarted, Goto, Return, HandlerGoto, At, TypeOK
  <2> QED BY <2>1, <2>2, BouncedKept
<1>6. ASSUME NEW a \in Agents, Wait(a) PROVE Bounced'
  <2>1. /\ pc[a] = "wait" /\ user = tr[a] /\ user \in Ids /\ lock /\ ~WithCallback(user)
        /\ use[user] \in Uses[a[1]] /\ a[1] \in Harts
        /\ \A b \in Agents : b # a => pc[b] \notin {"set", "start", "wait", "unlock"}
    BY <1>6, Alone, NoneAssumption DEF Wait, At, Holding, Numbers, InCall, Agents
  <2>2. \A g \in Harts : ~Serving(g) BY <2>1 DEF Registering, Serving, Owned
  <2>3. Pending BY <2>1, <2>2 DEF Pending, Unstarted, Settled, Serving
  <2>4. /\ UNCHANGED <<irqat, user, lock, over, use, next>>
        /\ \A b \in Agents : pc'[b] = IF b = a THEN "unlock" ELSE pc[b]
    BY <1>6 DEF Wait, Goto, TypeOK, handlers, ghosts, spi
  <2>5. Settled' /\ ~Pending' BY <2>4 DEF Pending, Settled
  <2>6. PICK cs \in SUBSET Channels : cs = ChannelsOf(user) BY <2>1, UseFacts
  <2>7. Settle(cs) /\ DmacTypeOK BY <1>6, <2>1, <2>6 DEF Wait, TypeOK
  <2>8. /\ copied \subseteq copied'
        /\ \A c \in cs : ctx[c].dest # None => ctx[c].dest.id \in copied'
        /\ \A b \in bufs' : b \in bufs /\ \A c \in cs : b # ctx[c].src /\ b # ctx[c].dest
    BY <2>7, SettleFacts
  <2>9. \A c \in cs : IF c = "tx" THEN ctx[c].src = BufferOf(user, c) ELSE ctx[c].dest = BufferOf(user, c)
    BY <2>3, <2>6 DEF Bounced
  <2>10. \A b \in bufs' : b.id < next /\ Leaked(b) BY <2>6, <2>8, <2>9 DEF Bounced
  <2>11. \A b \in bufs' : b.id < next' /\ Leaked(b)' BY <2>4, <2>10 DEF Leaked, IrqChannel, WithCallback, KindOf
  <2>12. Receives(user) => user \in copied'
    <3>1. SUFFICES ASSUME Receives(user) PROVE user \in copied' OBVIOUS
    <3>2. "rx" \in cs BY <2>6, <3>1 DEF Receives, ChannelsOf
    <3>3. ctx["rx"].dest = BufferOf(user, "rx") BY <2>9, <3>2
    <3>4. BufferOf(user, "rx") \in Buffers /\ BufferOf(user, "rx").id = user
      BY <2>1, IdAssumption DEF BufferOf, Side, Buffers
    <3> QED BY <2>8, <3>2, <3>3, <3>4, NoneAssumption
  <2> QED BY <2>1, <2>4, <2>5, <2>8, <2>11, <2>12 DEF Bounced, Receives, KindOf, WithCallback
<1>7. ASSUME NEW a \in Agents, Unlock(a) PROVE Bounced'
  <2>1. /\ pc[a] = "unlock" /\ user = tr[a] /\ ~WithCallback(user) /\ lock /\ user \in Ids
    BY <1>7, NoneAssumption DEF Unlock, At, Holding, Numbers, InCall
  <2>2. Settled /\ ~Pending BY <2>1 DEF Settled, Pending
  <2>3. Receives(user) => user \in copied BY <2>1, <2>2 DEF Bounced
  <2>4. UNCHANGED <<bufs, copied, use, next>> /\ ~lock' /\ over' = over \cup {user} BY <1>7 DEF Unlock, dmac
  <2>5. \A b \in bufs : b.id < next /\ Leaked(b) BY <2>2 DEF Bounced
  <2>6. \A b \in bufs : Leaked(b)' BY <2>4, <2>5 DEF Leaked, IrqChannel, WithCallback, KindOf
  <2> QED BY <2>1, <2>3, <2>4, <2>5, <2>6 DEF Bounced, Pending, Receives, KindOf, WithCallback
<1>8. ASSUME NEW a \in Agents, Clear(a) PROVE Bounced'
  <2>1. ~lock BY <1>8 DEF Clear
  <2>2. UNCHANGED <<bufs, copied, use, next, over, lock>> BY <1>8 DEF Clear, dmac
  <2>3. \A b \in bufs : b.id < next /\ Leaked(b) BY <2>1 DEF Bounced, Pending
  <2>4. \A b \in bufs : Leaked(b)' BY <2>2, <2>3 DEF Leaked, IrqChannel, WithCallback, KindOf
  <2> QED BY <2>1, <2>2, <2>3, <2>4 DEF Bounced, Pending, Receives, KindOf, WithCallback
<1>9. ASSUME NEW h \in Harts, Entry(h) PROVE Bounced'
  <2>1. irqat[h] = "entry" /\ Owned(h) /\ irq[h] = irqchan /\ irqchan = IrqChannel(user)
        /\ irq[h] \in registered[h]
    BY <1>9 DEF Entry, Registering, Serving, Owned
  <2>2. lock /\ WithCallback(user) /\ user \in Ids BY <2>1 DEF Owned, Holding, TypeOK
  <2>3. \A b \in Agents : pc[b] \notin {"set", "start", "unlock"}
    BY <2>1, <2>2 DEF Working, Serving, Owned, Holding
  <2>4. \A g \in Harts : irqat[g] \notin {"unregister", "drain", "unlock"}
    BY <2>1 DEF Registering, Serving
  <2>5. Pending BY <2>2, <2>3, <2>4 DEF Pending, Unstarted, Settled
  <2>6. irq[h] \in Channels /\ ctx[irq[h]].callback BY <2>1 DEF Working, TypeOK, DmacTypeOK
  <2>7. irqat'[h] = "unregister" /\ UNCHANGED <<lock, user, over, use, next>>
    BY <1>9, <2>6 DEF Entry, HandlerGoto, TypeOK, spi, calls, ghosts
  <2>8. Settled' /\ ~Pending' BY <2>7 DEF Settled, Pending
  <2>9. PICK c \in Channels : c = irq[h] BY <2>6
  <2>10. Settle({c}) /\ {c} \in SUBSET Channels /\ DmacTypeOK BY <1>9, <2>9 DEF Entry, TypeOK
  <2>11. /\ copied \subseteq copied'
         /\ ctx[c].dest # None => ctx[c].dest.id \in copied'
         /\ \A b \in bufs' : b \in bufs /\ b # ctx[c].src /\ b # ctx[c].dest
    BY <2>10, SettleFacts
  <2>12. c \in ChannelsOf(user)
    <3>1. use[user] = NoUse \/ \E g \in Harts : use[user] \in Uses[g] BY <2>2 DEF TypeOK
    <3>2. NoUse[2] = FALSE BY DEF NoUse
    <3> QED BY <2>1, <2>2, <2>9, <3>1, <3>2, UseFacts DEF WithCallback
  <2>13. IF c = "tx" THEN ctx[c].src = BufferOf(user, c) ELSE ctx[c].dest = BufferOf(user, c)
    BY <2>5, <2>12 DEF Bounced
  <2>14. ASSUME NEW b \in bufs' PROVE b.id < next /\ Leaked(b)
    <3>1. b \in bufs /\ b # BufferOf(user, c) BY <2>11, <2>13
    <3>2. CASE Leaked(b) BY <3>1, <3>2 DEF Bounced
    <3>3. CASE ~Leaked(b)
      <4>1. b = BufferOf(user, b.channel) /\ b.id < next BY <3>1, <3>3 DEF Bounced
      <4>2. b.id = user BY <4>1 DEF BufferOf
      <4>3. b.channel = c BY <2>1, <2>2, <2>9, <3>3, <4>2 DEF Leaked
      <4> QED BY <3>1, <4>1, <4>3
    <3> QED BY <3>2, <3>3
  <2>15. \A b \in bufs' : b.id < next' /\ Leaked(b)' BY <2>7, <2>14 DEF Leaked, IrqChannel, WithCallback, KindOf
  <2>16. c = "rx" => user \in copied'
    <3>1. BufferOf(user, c) \in Buffers /\ BufferOf(user, c).id = user
      BY <2>2, <2>9 DEF BufferOf, Side, Buffers
    <3> QED BY <2>11, <2>13, <3>1, NoneAssumption
  <2>17. WithCallback(user)' /\ IrqChannel(user)' = c /\ user' = user
    BY <2>1, <2>2, <2>7, <2>9 DEF WithCallback, IrqChannel, KindOf
  <2> QED BY <2>7, <2>8, <2>11, <2>15, <2>16, <2>17 DEF Bounced, Receives, KindOf, WithCallback, IrqChannel
<1>10. ASSUME NEW h \in Harts, Unregister(h) PROVE Bounced'
  <2>1. UNCHANGED <<lock, user, use, next, over, pc, bufs, copied>> BY <1>10 DEF Unregister, spi, calls, ghosts
  <2>2. /\ irqat[h] = "unregister" /\ \A g \in Harts : irqat'[g] = IF g = h THEN "drain" ELSE irqat[g]
    BY <1>10 DEF Unregister, TypeOK, HandlerGoto
  <2>3. Settled /\ Settled' BY <2>2 DEF Settled
  <2>4. ~Pending /\ ~Pending' BY <2>3 DEF Pending
  <2> QED BY <2>1, <2>3, <2>4 DEF Bounced, Leaked, Receives, IrqChannel, WithCallback, KindOf
<1>11. ASSUME NEW h \in Harts, Drain(h) PROVE Bounced'
  <2>1. UNCHANGED <<lock, user, use, next, over, pc, bufs, copied>> BY <1>11 DEF Drain, calls, ghosts, dmac
  <2>2. irqat[h] = "drain" /\ \A g \in Harts : irqat'[g] = IF g = h THEN "unlock" ELSE irqat[g]
    BY <1>11 DEF Drain, TypeOK, HandlerGoto
  <2>3. Settled /\ Settled' BY <2>2 DEF Settled
  <2>4. ~Pending /\ ~Pending' BY <2>3 DEF Pending
  <2> QED BY <2>1, <2>3, <2>4 DEF Bounced, Leaked, Receives, IrqChannel, WithCallback, KindOf
<1>12. ASSUME NEW h \in Harts, IrqUnlock(h) PROVE Bounced'
  <2>1. irqat[h] = "unlock" /\ lock /\ WithCallback(user) /\ user \in Ids
    BY <1>12 DEF IrqUnlock, Registering, Owned, Holding, TypeOK
  <2>2. Settled /\ ~Pending BY <2>1 DEF Settled, Pending
  <2>3. IrqChannel(user) = "rx" => user \in copied BY <2>1, <2>2 DEF Bounced
  <2>4. UNCHANGED <<bufs, copied, use, next>> /\ ~lock' /\ over' = over \cup {user} BY <1>12 DEF IrqUnlock, dmac, calls
  <2>5. \A b \in bufs : b.id < next /\ Leaked(b) BY <2>2 DEF Bounced
  <2>6. \A b \in bufs : Leaked(b)' BY <2>4, <2>5 DEF Leaked, IrqChannel, WithCallback, KindOf
  <2>7. Receives(user) /\ KindOf(user) # "long" => user \in copied BY <2>3 DEF Receives, IrqChannel
  <2> QED BY <2>1, <2>4, <2>5, <2>6, <2>7 DEF Bounced, Pending, Receives, KindOf, WithCallback
<1>13. ASSUME NEW h \in Harts, Read(h) PROVE Bounced'
  <2>1. UNCHANGED <<lock, user, use, next, over, bufs, copied, ctx>> BY <1>13 DEF Read, dmac, spi, calls, handlers, ghosts
  <2>2. (Settled' <=> Settled) /\ (Unstarted' <=> Unstarted)
    BY <1>13 DEF Read, dmac, spi, calls, handlers, ghosts, Settled, Unstarted, Goto, Return, HandlerGoto, At, TypeOK
  <2> QED BY <2>1, <2>2, BouncedKept
<1>14. ASSUME NEW h \in Harts, Leave(h) PROVE Bounced'
  <2>1. UNCHANGED <<lock, user, use, next, over, bufs, copied, ctx>> BY <1>14 DEF Leave, dmac, spi, calls, handlers, ghosts
  <2>2. (Settled' <=> Settled) /\ (Unstarted' <=> Unstarted)
    BY <1>14 DEF Leave, dmac, spi, calls, handlers, ghosts, Settled, Unstarted, Goto, Return, HandlerGoto, At, TypeOK
  <2> QED BY <2>1, <2>2, BouncedKept
<1>15. ASSUME NEW h \in Harts, NEW c \in Channels, Interrupt(h, c) PROVE Bounced'
  <2>1. UNCHANGED <<lock, user, use, next, over, bufs, copied, ctx>> BY <1>15 DEF Interrupt, dmac, spi, calls, handlers, ghosts
  <2>2. (Settled' <=> Settled) /\ (Unstarted' <=> Unstarted)
    BY <1>15 DEF Interrupt, dmac, spi, calls, handlers, ghosts, Settled, Unstarted, Goto, Return, HandlerGoto, At, TypeOK
  <2> QED BY <2>1, <2>2, BouncedKept
<1>16. ASSUME NEW c \in Channels, Complete(c) PROVE Bounced'
  <2>1. UNCHANGED <<lock, user, use, next, over, bufs, copied, ctx>> BY <1>16 DEF Complete, dmac, spi, calls, handlers, ghosts
  <2>2. (Settled' <=> Settled) /\ (Unstarted' <=> Unstarted)
    BY <1>16 DEF Complete, dmac, spi, calls, handlers, ghosts, Settled, Unstarted, Goto, Return, HandlerGoto, At, TypeOK
  <2> QED BY <2>1, <2>2, BouncedKept
<1>17. CASE UNCHANGED vars
  <2>1. UNCHANGED <<lock, user, use, next, over, bufs, copied, ctx>> /\ (Settled' <=> Settled) /\ (Unstarted' <=> Unstarted)
    BY <1>17 DEF vars, dmac, spi, calls, handlers, ghosts, Settled, Unstarted
  <2> QED BY <2>1, BouncedKept
<1> QED BY <1>1, <1>2, <1>3, <1>4, <1>5, <1>6, <1>7, <1>8, <1>9, <1>10, <1>11, <1>12, <1>13, <1>14, <1>15, <1>16, <1>17 DEF Next, Caller, Handler

-----------------------------------------------------------------------------
(***************************************************************************)
(* The inductive invariants.                                               *)
(***************************************************************************)
Locked == TypeOK /\ Numbers /\ Holding /\ Registering

LEMMA LockedInit == Init => Locked
<1> SUFFICES ASSUME Init PROVE Locked OBVIOUS
<1>1. TypeOK BY TypeInit
<1>2. Numbers /\ Holding BY DEF Init, Numbers, Holding, InCall
<1>3. Registering BY DEF Init, DmacInit, Registering, Serving
<1> QED BY <1>1, <1>2, <1>3 DEF Locked

LEMMA LockedStep == Locked /\ [Next]_vars => Locked'
  BY TypeStep, NumbersStep, HoldingStep, RegisteringStep DEF Locked

LEMMA LockedAlways == Spec => []Locked
  BY LockedInit, LockedStep, PTL DEF Spec

LEMMA SoundInit == Init => Sound
<1> SUFFICES ASSUME Init PROVE Sound OBVIOUS
<1>1. Working BY DEF Init, DmacInit, Working
<1>2. ~Pending BY DEF Init, Pending
<1>3. Bounced BY <1>2 DEF Init, DmacInit, Bounced
<1> QED BY <1>1, <1>3 DEF Sound

\* Once a call has disabled the device under another's transfer, Sound says
\* nothing any more.
LEMMA CutStays == [Next]_vars /\ ~cut' => ~cut
<1> SUFFICES ASSUME [Next]_vars, ~cut' PROVE ~cut OBVIOUS
<1> USE DEF vars, dmac, spi, calls, handlers, ghosts
<1>1. ASSUME NEW a \in Agents, NEW u \in Uses[a[1]], Call(a, u) PROVE ~cut BY <1>1 DEF Call
<1>2. ASSUME NEW a \in Agents, Caller(a) PROVE ~cut
  BY <1>2 DEF Caller, Lock, Set, Start, Select, Wait, Unlock, Clear
<1>3. ASSUME NEW h \in Harts, Handler(h) PROVE ~cut
  BY <1>3 DEF Handler, Entry, Unregister, Drain, IrqUnlock, Read, Leave
<1>4. ASSUME NEW h \in Harts, NEW c \in Channels, Interrupt(h, c) PROVE ~cut BY <1>4 DEF Interrupt
<1>5. ASSUME NEW c \in Channels, Complete(c) PROVE ~cut BY <1>5 DEF Complete
<1>6. CASE UNCHANGED vars BY <1>6
<1> QED BY <1>1, <1>2, <1>3, <1>4, <1>5, <1>6 DEF Next

LEMMA SoundStep == Locked /\ Sound /\ [Next]_vars => Sound'
<1> SUFFICES ASSUME Locked, Sound, [Next]_vars, ~cut' PROVE Working' /\ Bounced'
  BY DEF Sound, Undisturbed
<1>1. Working /\ Bounced BY CutStays DEF Sound, Undisturbed
<1> QED BY <1>1, WorkingStep, BouncedStep DEF Locked

LEMMA SoundAlways == Spec => []Sound
  BY LockedAlways, SoundInit, SoundStep, PTL DEF Spec

-----------------------------------------------------------------------------
(***************************************************************************)
(* The theorems.                                                           *)
(***************************************************************************)
\* Every variable keeps its type: among others, a lock that is given back
\* was held for a transfer, whatever has been cut short.
THEOREM TypeCorrect == Spec => []TypeOK
<1>1. Locked => TypeOK BY DEF Locked
<1> QED BY <1>1, LockedAlways, PTL

\* The device works for one transfer at a time, the one its lock is held for,
\* whatever harts and callbacks start.
THEOREM WorksForOne == Spec => []OneTransfer
<1>1. Locked /\ Sound => OneTransfer
  BY DEF Locked, Sound, Holding, Numbers, Working, OneTransfer
<1> QED BY <1>1, LockedAlways, SoundAlways, PTL

\* What a transfer receives is in the caller's buffer when the transfer is
\* over, but for the transfers that end with the wrong channel's interrupt.
THEOREM DataArrives == Spec => []Delivered
<1>1. Sound => Delivered BY DEF Sound, Bounced, Delivered
<1> QED BY <1>1, SoundAlways, PTL

\* While no transfer is in progress no bounce buffer is allocated, but for
\* those that a transfer with a callback and two channels leaves.
THEOREM BuffersComeBack == Spec => []BuffersFreed
<1>1. Sound => BuffersFreed BY DEF Sound, Bounced, Pending, Leaked, BuffersFreed
<1> QED BY <1>1, SoundAlways, PTL

LEMMA OnceInit == Init => Once
  BY DEF Init, Once

\* If at most one hart passes callbacks, each is called at most once, and not
\* before its transfer is over; even after a transfer has been cut short.
THEOREM CalledOnce == ASSUME OneCaller PROVE Spec => []CallbackOnce
<1>1. Locked /\ Once /\ [Next]_vars => Once' BY OneCaller, OnceStep DEF Locked
<1>2. Locked /\ Once => CallbackOnce BY DEF Locked, TypeOK, Once, CallbackOnce
<1> QED BY <1>1, <1>2, LockedAlways, OnceInit, PTL DEF Spec

-----------------------------------------------------------------------------
(***************************************************************************)
(* The slave.                                                              *)
(***************************************************************************)
Parts == [what : {"command", "noise", "data"}, c : Commands, n : Nat]

\* A command as the master meant it.
Meant(c) == /\ c.id \in DOMAIN Work
            /\ c.cmd = Work[c.id].cmd /\ c.addr = Work[c.id].addr /\ c.len = Work[c.id].len

\* The pin tells what the slave is at, and what a command or data frame has
\* left in the FIFO is a command or the data of the command accepted.
Phases ==
    /\ ready <=> status = "IDLE"
    /\ at \in {"wait", "finish"} => job <= Len(Work)
    /\ status # "IDLE" => Meant(command)
    /\ status = "IDLE" => \A i \in DOMAIN rx :
         rx[i].what # "data" /\ (rx[i].what = "command" /\ Accepted(rx[i].c) => Meant(rx[i].c))
    /\ status # "IDLE" => \/ rx = <<>> /\ rxflr = 0
                          \/ /\ Len(rx) = 1 /\ rx[1].what = "data"
                             /\ rx[1].c.id = command.id /\ rxflr = rx[1].n

\* A master that waits finds only its own command accepted, and nothing sent
\* for it yet.
Waits == at = "wait" =>
    /\ status = "IDLE" /\ Parsed /\ Accepted(rx[1].c) => rx[1].c.id = job
    /\ status # "IDLE" => /\ status = "TRANSFER" /\ ~edge /\ rx = <<>> /\ rxflr = 0 /\ command.id = job
                          /\ ~IsWrite(command) =>
                               tx = [value |-> mem[command.addr], left |-> Items(command)]

\* What a complete data frame does: it is in the FIFO, then in memory.
Ends == at = "finish" =>
    LET c == Work[job] IN
    /\ status = "IDLE" => rx = <<>>
    /\ status = "TRANSFER" => command.id = job /\ (frame /\ IsWrite(c) => rx # <<>> /\ rx[1].n = Items(c))
    /\ frame /\ IsWrite(c) /\ status # "TRANSFER" => mem[c.addr] = job
    /\ frame /\ ~IsWrite(c) => got = mem[c.addr]

InStep == SlaveTypeOK /\ Phases /\ Waits /\ Ends

-----------------------------------------------------------------------------
LEMMA LenFacts == MaxLen \in Nat /\ MaxLen > 9
  BY DEF MaxLen

LEMMA WorkFacts ==
    /\ Len(Work) \in Nat /\ DOMAIN Work = 1 .. Len(Work)
    /\ \A i \in DOMAIN Work : /\ Work[i].cmd \in Cmds /\ Work[i].addr \in Addresses
                              /\ Work[i].len \in 1 .. MaxLen
<1> DEFINE S == [cmd : Cmds, addr : Addresses, len : 1 .. MaxLen]
<1>1. Work \in Seq(S) BY WorkAssumption, LenFacts
<1>2. \A s \in S : s.cmd \in Cmds /\ s.addr \in Addresses /\ s.len \in 1 .. MaxLen BY LenFacts
<1> HIDE DEF S
<1>3. Len(Work) \in Nat /\ DOMAIN Work = 1 .. Len(Work) /\ \A i \in DOMAIN Work : Work[i] \in S BY <1>1
<1> QED BY <1>2, <1>3

LEMMA ItemFacts ==
    /\ \A i \in DOMAIN Work : Items(Work[i]) \in Nat \ {0}
    /\ \A c \in Commands : Items(c) \in Nat
    /\ \A c \in Commands : Meant(c) =>
          /\ IsWrite(c) <=> IsWrite(Work[c.id])
          /\ IsBlock(c) <=> IsBlock(Work[c.id])
          /\ Items(c) = Items(Work[c.id]) /\ Items(c) > 0 /\ c.len > 0
          /\ c.addr \in Addresses /\ c.addr = Work[c.id].addr
<1>1. ASSUME NEW i \in DOMAIN Work PROVE Items(Work[i]) \in Nat \ {0}
  <2>1. Work[i].len \in 1 .. MaxLen BY <1>1, WorkFacts
  <2>2. ASSUME NEW n \in 1 .. MaxLen PROVE n \in Nat \ {0} /\ 4 * n \in Nat \ {0} BY LenFacts
  <2> QED BY <2>1, <2>2 DEF Items
<1>2. ASSUME NEW c \in Commands PROVE Items(c) \in Nat
  <2>1. c.len \in 0 .. MaxLen BY <1>2 DEF Commands
  <2>2. ASSUME NEW n \in 0 .. MaxLen PROVE n \in Nat /\ 4 * n \in Nat BY LenFacts
  <2> QED BY <2>1, <2>2 DEF Items
<1>3. ASSUME NEW c \in Commands, Meant(c)
      PROVE  /\ IsWrite(c) <=> IsWrite(Work[c.id])
             /\ IsBlock(c) <=> IsBlock(Work[c.id])
             /\ Items(c) = Items(Work[c.id])
             /\ c.addr \in Addresses /\ c.addr = Work[c.id].addr
             /\ c.id \in DOMAIN Work /\ c.len > 0
  <2>1. /\ c.id \in DOMAIN Work /\ c.cmd = Work[c.id].cmd /\ c.addr = Work[c.id].addr
        /\ c.len = Work[c.id].len
    BY <1>3 DEF Meant
  <2>2. IsWrite(c) <=> IsWrite(Work[c.id]) BY <2>1 DEF IsWrite
  <2>3. IsBlock(c) <=> IsBlock(Work[c.id]) BY <2>1 DEF IsBlock
  <2>4. Items(c) = Items(Work[c.id]) BY <2>1, <2>3 DEF Items
  <2>5. Work[c.id].addr \in Addresses /\ Work[c.id].len \in 1 .. MaxLen BY <2>1, WorkFacts
  <2> QED BY <2>1, <2>2, <2>3, <2>4, <2>5
<1> QED BY <1>1, <1>2, <1>3

LEMMA RxFacts ==
    ASSUME SlaveTypeOK
    PROVE  /\ Len(rx) \in Nat /\ DOMAIN rx = 1 .. Len(rx)
           /\ rx = <<>> <=> Len(rx) = 0
           /\ \A i \in DOMAIN rx : rx[i].c \in Commands /\ rx[i].n \in Nat
<1>1. rx \in Seq(Parts) BY DEF SlaveTypeOK, Parts
<1>2. \A p \in Parts : p.c \in Commands /\ p.n \in Nat BY DEF Parts
<1> QED BY <1>1, <1>2

\* A part that comes into the FIFO.
LEMMA ClockFacts ==
    ASSUME SlaveTypeOK, NEW part \in Parts, rx' = Append(rx, part)
    PROVE  /\ rx' \in Seq(Parts)
           /\ Len(rx') = Len(rx) + 1
           /\ rx'[Len(rx) + 1] = part
           /\ \A i \in DOMAIN rx : rx'[i] = rx[i]
           /\ DOMAIN rx' = 1 .. Len(rx) + 1
  BY DEF SlaveTypeOK, Parts

CommandOf(i) == [id |-> i, cmd |-> Work[i].cmd, addr |-> Work[i].addr, len |-> Work[i].len, err |-> 0]

LEMMA CommandStep ==
    ASSUME InStep, NEW damage \in Damages \cup {"none"}, Command(damage)
    PROVE  InStep'
<1> DEFINE c == CommandOf(job)
           sent == CASE damage = "cmd" -> [c EXCEPT !.cmd = "unknown"]
                     [] damage = "len" -> [c EXCEPT !.len = 9]
                     [] OTHER -> c
           part == [what |-> IF damage \in {"sum", "short"} THEN "noise" ELSE "command",
                    c |-> sent, n |-> IF damage = "short" THEN 7 ELSE 8]
<1>1. /\ at = "idle" /\ ready /\ job <= Len(Work) /\ (damage = "len" => ~IsBlock(c))
      /\ rx' = Append(rx, part) /\ rxflr' = rxflr + part.n /\ edge' = TRUE /\ at' = "wait"
      /\ UNCHANGED <<slave, tx, job, frame, got, hasty>>
  BY DEF Command, Clock, CommandOf
<1>2. job \in DOMAIN Work
  <2>1. job \in 1 .. Len(Work) + 1 BY DEF InStep, SlaveTypeOK
  <2> QED BY <1>1, <2>1, WorkFacts
<1>3. c \in Commands /\ Meant(c) /\ c.id = job
  <2>1. /\ c.id = job /\ c.cmd = Work[job].cmd /\ c.addr = Work[job].addr /\ c.len = Work[job].len /\ c.err = 0
    BY DEF CommandOf
  <2>2. /\ job \in 0 .. Len(Work) /\ Work[job].cmd \in Cmds /\ Work[job].addr \in Addresses
        /\ Work[job].len \in 0 .. MaxLen
    BY <1>2, WorkFacts, LenFacts
  <2>3. c \in Commands BY <2>2 DEF Commands, CommandOf
  <2> QED BY <1>2, <2>1, <2>3 DEF Meant
<1>4. /\ sent \in Commands
      /\ damage \notin {"cmd", "len"} => sent = c
      /\ damage = "cmd" => sent.cmd = "unknown"
      /\ damage = "len" => sent.len = 9 /\ ~IsBlock(sent)
  <2> HIDE DEF c
  <2>1. [c EXCEPT !.cmd = "unknown"] \in Commands /\ [c EXCEPT !.cmd = "unknown"].cmd = "unknown"
    BY <1>3 DEF Commands, Cmds
  <2>2. [c EXCEPT !.len = 9] \in Commands /\ [c EXCEPT !.len = 9].len = 9 /\ [c EXCEPT !.len = 9].cmd = c.cmd
    BY <1>3, LenFacts DEF Commands
  <2> QED BY <1>1, <1>3, <2>1, <2>2 DEF IsBlock
<1>5. Accepted(sent) => Meant(sent) /\ sent.id = job
  BY <1>3, <1>4 DEF Accepted
<1>6. part \in Parts /\ part.c = sent /\ part.what # "data" /\ part.n \in Nat
  BY <1>4 DEF Parts
<1> HIDE DEF c, sent, part
<1>7. /\ rx' \in Seq(Parts) /\ Len(rx') = Len(rx) + 1 /\ rx'[Len(rx) + 1] = part
      /\ \A i \in DOMAIN rx : rx'[i] = rx[i]
      /\ DOMAIN rx' = 1 .. Len(rx) + 1
  BY <1>1, <1>6, ClockFacts DEF InStep
<1>8. status = "IDLE" BY <1>1 DEF InStep, Phases
<1>9. SlaveTypeOK' BY <1>1, <1>6, <1>7 DEF InStep, SlaveTypeOK, slave, Parts
<1>10. Phases'
  <2>1. Len(rx) \in Nat /\ DOMAIN rx = 1 .. Len(rx) BY RxFacts DEF InStep
  <2>2. ASSUME NEW i \in DOMAIN rx'
        PROVE  rx'[i].what # "data" /\ (rx'[i].what = "command" /\ Accepted(rx'[i].c) => Meant(rx'[i].c))
    <3>1. CASE i \in DOMAIN rx BY <1>7, <1>8, <3>1 DEF InStep, Phases
    <3>2. CASE i = Len(rx) + 1 BY <1>5, <1>6, <1>7, <3>2
    <3> QED BY <1>7, <2>1, <2>2, <3>1, <3>2
  <2> QED BY <1>1, <1>8, <2>2 DEF InStep, Phases, slave
<1>11. Waits'
  <2>1. Len(rx) \in Nat BY RxFacts DEF InStep
  <2>2. Parsed' => rx'[1] = part BY <1>7, <2>1 DEF Parsed
  <2> QED BY <1>1, <1>5, <1>6, <1>8, <2>2 DEF Waits, slave
<1>12. Ends' BY <1>1 DEF Ends
<1> QED BY <1>9, <1>10, <1>11, <1>12 DEF InStep

LEMMA DataStep ==
    ASSUME InStep, NEW lost \in Losses \cup {0}, Data(lost)
    PROVE  InStep'
<1> DEFINE n == Items(Work[job]) - lost
           part == [what |-> "data", c |-> [NoCommand EXCEPT !.id = job], n |-> n]
<1>0. lost \in Nat BY DEF Losses
<1>1. /\ at = "wait" /\ ~ready /\ n >= 0 /\ edge' = TRUE /\ frame' = (lost = 0) /\ at' = "finish"
      /\ UNCHANGED <<slave, job, hasty>>
  BY DEF Data
<1>2. job \in DOMAIN Work
  <2>1. job \in 1 .. Len(Work) + 1 /\ job <= Len(Work) BY <1>1 DEF InStep, SlaveTypeOK, Phases
  <2> QED BY <2>1, WorkFacts
<1>3. Items(Work[job]) \in Nat \ {0} /\ n \in Nat BY <1>0, <1>1, <1>2, ItemFacts
<1>4. /\ status = "TRANSFER" /\ rx = <<>> /\ rxflr = 0 /\ command.id = job /\ Meant(command)
      /\ ~IsWrite(command) => tx = [value |-> mem[command.addr], left |-> Items(command)]
  BY <1>1 DEF InStep, Waits, Phases
<1>5. command \in Commands BY DEF InStep, SlaveTypeOK
<1>6. /\ IsWrite(command) <=> IsWrite(Work[job])
      /\ Items(command) = Items(Work[job]) /\ command.addr = Work[job].addr /\ command.addr \in Addresses
  BY <1>4, <1>5, ItemFacts
<1>7. CASE IsWrite(Work[job])
  <2>1. /\ rx' = IF n = 0 THEN rx ELSE Append(rx, part)
        /\ rxflr' = n /\ UNCHANGED <<tx, got>>
    BY <1>3, <1>4, <1>7 DEF Data
  <2>2. part \in Parts
    <3>1. job \in 0 .. Len(Work) BY <1>2, WorkFacts
    <3>2. [NoCommand EXCEPT !.id = job] \in Commands BY <3>1, LenFacts DEF Commands, NoCommand, Cmds
    <3> QED BY <1>3, <3>2 DEF Parts
  <2>3. part.what = "data" /\ part.c.id = job /\ part.n = n BY DEF NoCommand
  <2> HIDE DEF part, n
  <2>4. n # 0 => rx' \in Seq(Parts) /\ Len(rx') = 1 /\ rx'[1] = part
    <3>1. Len(rx) = 0 BY <1>4
    <3> QED BY <2>1, <2>2, <3>1, ClockFacts DEF InStep
  <2>5. n = 0 => rx' = <<>> BY <1>4, <2>1
  <2>6. rx' \in Seq(Parts)
    <3>1. <<>> \in Seq(Parts) OBVIOUS
    <3> QED BY <2>4, <2>5, <3>1
  <2>7. SlaveTypeOK' BY <1>1, <1>3, <2>1, <2>6 DEF InStep, SlaveTypeOK, slave, Parts
  <2>8. Phases'
    <3>1. UNCHANGED <<status, ready, command, job>> BY <1>1 DEF slave
    <3>2. ready' <=> status' = "IDLE" BY <3>1 DEF InStep, Phases
    <3>3. job' <= Len(Work) BY <1>2, <3>1, WorkFacts
    <3>4. Meant(command)' BY <1>4, <3>1 DEF Meant
    <3>5. \/ rx' = <<>> /\ rxflr' = 0
          \/ Len(rx') = 1 /\ rx'[1].what = "data" /\ rx'[1].c.id = command'.id /\ rxflr' = rx'[1].n
      BY <1>4, <2>1, <2>3, <2>4, <2>5, <3>1
    <3> QED BY <1>4, <3>1, <3>2, <3>3, <3>4, <3>5 DEF Phases
  <2>9. Waits' BY <1>1 DEF Waits
  <2>10. lost = 0 => n = Items(Work[job]) /\ n # 0 BY <1>3 DEF n
  <2>11. frame' => rx' # <<>> /\ rx'[1].n = Items(Work[job])
    <3>1. SUFFICES ASSUME frame' PROVE rx' # <<>> /\ rx'[1].n = Items(Work[job]) OBVIOUS
    <3>2. lost = 0 BY <1>1, <3>1
    <3>3. n = Items(Work[job]) /\ Len(rx') = 1 /\ rx'[1] = part BY <2>4, <2>10, <3>2
    <3>4. Len(<<>>) # 1 OBVIOUS
    <3>5. rx' # <<>> BY <3>3, <3>4, Zenon
    <3> QED BY <2>3, <3>3, <3>5
  <2>12. Ends' BY <1>1, <1>4, <1>7, <2>11 DEF Ends, slave
  <2> QED BY <2>7, <2>8, <2>9, <2>12 DEF InStep
<1>8. CASE ~IsWrite(Work[job])
  <2>1. tx = [value |-> mem[Work[job].addr], left |-> Items(Work[job])] BY <1>4, <1>6, <1>8
  <2>2. /\ tx' = [tx EXCEPT !.left = IF tx.left > n THEN tx.left - n ELSE 0]
        /\ got' = IF lost = 0 THEN mem[Work[job].addr] ELSE Torn
        /\ UNCHANGED <<rx, rxflr>>
    BY <1>8, <2>1 DEF Data
  <2>3. tx' \in [value : -1 .. Len(Work), left : Nat]
    <3>1. (IF tx.left > n THEN tx.left - n ELSE 0) \in Nat /\ tx \in [value : -1 .. Len(Work), left : Nat]
      BY <1>3 DEF InStep, SlaveTypeOK
    <3> QED BY <2>2, <3>1
  <2>4. got' \in -1 .. Len(Work)
    <3>1. Work[job].addr \in Addresses /\ mem \in [Addresses -> -1 .. Len(Work)] /\ Len(Work) \in Nat
      BY <1>6, WorkFacts DEF InStep, SlaveTypeOK
    <3> QED BY <2>2, <3>1 DEF Torn
  <2>5. SlaveTypeOK' BY <1>1, <2>2, <2>3, <2>4 DEF InStep, SlaveTypeOK, slave
  <2>6. Phases'
    <3>1. UNCHANGED <<status, ready, command, job, rx, rxflr>> BY <1>1, <2>2 DEF slave
    <3>2. ready' <=> status' = "IDLE" BY <3>1 DEF InStep, Phases
    <3>3. job' <= Len(Work) BY <1>2, <3>1, WorkFacts
    <3>4. Meant(command)' BY <1>4, <3>1 DEF Meant
    <3> QED BY <1>4, <3>1, <3>2, <3>3, <3>4 DEF Phases
  <2>7. Ends' BY <1>1, <1>4, <1>8, <2>2 DEF Ends, slave
  <2>8. Waits' BY <1>1 DEF Waits
  <2> QED BY <2>5, <2>6, <2>7, <2>8 DEF InStep
<1> QED BY <1>7, <1>8

\* The other steps of the master change nothing but its place.
LEMMA MasterStep ==
    ASSUME InStep, Done \/ GiveUp \/ GiveUpEarly \/ Flush \/ Flushed
    PROVE  InStep'
<1>1. /\ UNCHANGED <<slave, fifos, frame, got>> /\ at' \in {"idle", "flush"} /\ edge' \in BOOLEAN
      /\ job' \in 1 .. Len(Work) + 1 /\ hasty' \in 0 .. MaxHasty
  <2>1. /\ job \in 1 .. Len(Work) + 1 /\ (at \in {"wait", "finish"} => job + 1 \in 1 .. Len(Work) + 1)
        /\ edge \in BOOLEAN /\ hasty \in 0 .. MaxHasty
    <3>1. /\ job \in 1 .. Len(Work) + 1 /\ (at \in {"wait", "finish"} => job <= Len(Work))
          /\ edge \in BOOLEAN /\ hasty \in 0 .. MaxHasty
      BY DEF InStep, SlaveTypeOK, Phases
    <3> QED BY ONLY <3>1, WorkFacts
  <2>2. hasty < MaxHasty => hasty + 1 \in 0 .. MaxHasty BY <2>1, DepthAssumption
  <2> QED BY <2>1, <2>2 DEF Done, GiveUp, GiveUpEarly, Flush, Flushed
<1>2. SlaveTypeOK' BY <1>1 DEF InStep, SlaveTypeOK, slave, fifos
<1>3. Phases' BY <1>1 DEF InStep, Phases, slave, fifos, Meant
<1> QED BY <1>1, <1>2, <1>3 DEF InStep, Waits, Ends

\* The interrupt of the chip select, in the idle mode.
LEMMA CommandModeStep ==
    ASSUME InStep, edge, status = "IDLE", edge' = FALSE, UNCHANGED mem, UNCHANGED master,
           CommandMode \/ (IdleMode /\ UNCHANGED command)
    PROVE  InStep'
<1>1. CASE IdleMode /\ UNCHANGED command
  <2>1. /\ status' = "IDLE" /\ ready' = TRUE /\ rx' = <<>> /\ rxflr' = 0
        /\ tx' = [tx EXCEPT !.left = 0] /\ UNCHANGED <<mem, command, at, job, frame, got, hasty>>
    BY <1>1 DEF IdleMode, master
  <2>2. tx' \in [value : -1 .. Len(Work), left : Nat] BY <2>1 DEF InStep, SlaveTypeOK
  <2>3. <<>> \in Seq(Parts) /\ Len(<<>>) = 0 /\ DOMAIN <<>> = {} OBVIOUS
  <2>4. SlaveTypeOK' BY <2>1, <2>2, <2>3 DEF InStep, SlaveTypeOK, Parts
  <2>5. Phases' BY <2>1, <2>3 DEF InStep, Phases
  <2>6. Waits' BY <2>1, <2>3 DEF Waits, Parsed
  <2>7. Ends' BY <2>1 DEF InStep, Ends
  <2> QED BY <2>4, <2>5, <2>6, <2>7 DEF InStep
<1>2. CASE Parsed /\ Accepted(rx[1].c) /\ CommandMode
  <2> DEFINE c == rx[1].c
  <2>1. /\ status' = "TRANSFER" /\ command' = c /\ ready' = FALSE /\ rx' = <<>> /\ rxflr' = 0
        /\ tx' = IF IsWrite(c) THEN [tx EXCEPT !.left = 0] ELSE [value |-> mem[c.addr], left |-> Items(c)]
        /\ UNCHANGED <<mem, at, job, frame, got, hasty>>
    BY <1>2 DEF CommandMode, master
  <2>2. c \in Commands /\ 1 \in DOMAIN rx /\ rx # <<>> BY <1>2, RxFacts DEF InStep, Parsed
  <2>3. Meant(c) BY <1>2, <2>2 DEF InStep, Phases, Parsed
  <2>4. c.addr \in Addresses /\ Items(c) \in Nat BY <2>2, <2>3, ItemFacts
  <2> HIDE DEF c
  <2>5. tx' \in [value : -1 .. Len(Work), left : Nat]
    <3>1. [tx EXCEPT !.left = 0] \in [value : -1 .. Len(Work), left : Nat] BY DEF InStep, SlaveTypeOK
    <3>2. mem[c.addr] \in -1 .. Len(Work) BY <2>4 DEF InStep, SlaveTypeOK
    <3> QED BY <2>1, <2>4, <3>1, <3>2
  <2>6. <<>> \in Seq(Parts) /\ Len(<<>>) = 0 OBVIOUS
  <2>7. SlaveTypeOK' BY <2>1, <2>2, <2>5, <2>6 DEF InStep, SlaveTypeOK, Parts
  <2>8. Phases'
    <3>1. Meant(command)' BY <2>1, <2>3 DEF Meant
    <3> QED BY <2>1, <3>1 DEF InStep, Phases
  <2>9. Waits'
    <3>1. at = "wait" => command'.id = job BY <1>2, <2>1 DEF InStep, Waits, c
    <3> QED BY <2>1, <3>1 DEF Waits
  <2>10. Ends' BY <2>1, <2>2 DEF InStep, Ends
  <2> QED BY <2>7, <2>8, <2>9, <2>10 DEF InStep
<1> QED BY <1>1, <1>2 DEF CommandMode

\* What the transfer mode finds in the FIFO and does with it.
LEMMA TransferFacts ==
    ASSUME InStep, status = "TRANSFER", TransferMode, edge' = FALSE, UNCHANGED master
    PROVE  /\ command \in Commands /\ Meant(command) /\ Err(command) \in 0 .. 3
           /\ command' = [command EXCEPT !.err = Err(command)] /\ status' = "callback"
           /\ UNCHANGED <<ready, fifos, at, job, frame, got, hasty>>
           /\ \A a \in Addresses : a # command.addr => mem'[a] = mem[a]
           /\ ~IsWrite(command) => UNCHANGED mem
           /\ mem' \in [Addresses -> -1 .. Len(Work)]
           /\ mem' # mem =>
                \/ mem'[command.addr] = command.id /\ Err(command) = 0
                \/ /\ mem'[command.addr] = Torn
                   /\ \/ rxflr = Items(command) - 1 /\ Err(command) = 0
                      \/ IsBlock(command) /\ Err(command) = 3
           /\ IsWrite(command) /\ rx # <<>> /\ rx[1].n >= Items(command) =>
                mem'[command.addr] = command.id
<1>1. command \in Commands /\ Meant(command) /\ mem \in [Addresses -> -1 .. Len(Work)] /\ rxflr \in Nat
  BY DEF InStep, SlaveTypeOK, Phases
<1>2. /\ Items(command) \in Nat /\ Items(command) > 0 /\ command.len \in Nat /\ command.len > 0
      /\ command.addr \in Addresses
  <2>1. command.len \in Nat BY <1>1, LenFacts DEF Commands
  <2> QED BY <1>1, <2>1, ItemFacts
<1>3. \/ rx = <<>> /\ rxflr = 0
      \/ /\ rx # <<>> /\ rx[1].what = "data" /\ rx[1].c.id = command.id /\ rxflr = rx[1].n
         /\ rx[1].n \in Nat
  <2>1. Len(rx) = 1 => rx # <<>> /\ 1 \in DOMAIN rx BY RxFacts DEF InStep
  <2> QED BY <2>1, RxFacts DEF InStep, Phases
<1>4. Err(command) \in 0 .. 3 BY DEF Err
<1>5. command.id \in -1 .. Len(Work) /\ Torn \in -1 .. Len(Work) /\ Torn < 0 /\ command.id > 0
  <2>1. command.id \in DOMAIN Work BY <1>1 DEF Meant
  <2> QED BY <2>1, WorkFacts DEF Torn
<1>6. Received(command) = IF rx # <<>> /\ rx[1].n >= Items(command) THEN command.id ELSE Torn
  BY <1>3 DEF Received
<1>7. /\ mem' = IF IsWrite(command) /\ (Err(command) = 0 \/ (IsBlock(command) /\ rx # <<>>))
                THEN [mem EXCEPT ![command.addr] = Received(command)] ELSE mem
      /\ command' = [command EXCEPT !.err = Err(command)] /\ status' = "callback"
      /\ UNCHANGED <<ready, fifos, at, job, frame, got, hasty>>
  <2>1. mem' = IF IsWrite(command) /\ (Err(command) = 0 \/ (IsBlock(command) /\ rx # <<>>))
               THEN [mem EXCEPT ![command.addr] = Received(command)] ELSE mem
    BY DEF TransferMode
  <2>2. command' = [command EXCEPT !.err = Err(command)] /\ status' = "callback"
    BY DEF TransferMode
  <2>3. UNCHANGED <<ready, fifos, at, job, frame, got, hasty>>
    BY DEF TransferMode, master
  <2> QED BY <2>1, <2>2, <2>3
<1>8. IsWrite(command) =>
        Err(command) = IF IsBlock(command) THEN IF rxflr < Items(command) THEN 3 ELSE 0
                                           ELSE IF rxflr < command.len - 1 THEN 1 ELSE 0
  BY DEF Err
<1>9. ~IsBlock(command) => Items(command) = command.len BY DEF Items
<1>10. mem' \in [Addresses -> -1 .. Len(Work)] /\ \A a \in Addresses : a # command.addr => mem'[a] = mem[a]
  BY <1>1, <1>2, <1>5, <1>6, <1>7
<1>11. ASSUME IsWrite(command), rx # <<>>, rx[1].n >= Items(command)
       PROVE  mem'[command.addr] = command.id /\ Err(command) = 0
  <2>1. rxflr >= Items(command) BY <1>3, <1>11
  <2>2. Err(command) = 0 BY <1>1, <1>2, <1>8, <1>9, <1>11, <2>1
  <2> QED BY <1>1, <1>2, <1>6, <1>7, <1>11, <2>2
<1>12. ASSUME mem' # mem, ~(rx # <<>> /\ rx[1].n >= Items(command))
       PROVE  /\ mem'[command.addr] = Torn
              /\ \/ rxflr = Items(command) - 1 /\ Err(command) = 0
                 \/ IsBlock(command) /\ Err(command) = 3
  <2>1. IsWrite(command) /\ (Err(command) = 0 \/ (IsBlock(command) /\ rx # <<>>)) BY <1>7, <1>12
  <2>2. mem'[command.addr] = Torn BY <1>1, <1>2, <1>6, <1>7, <1>12, <2>1
  <2>3. rxflr < Items(command) BY <1>2, <1>3, <1>12
  <2>4. CASE IsBlock(command) BY <1>8, <2>1, <2>2, <2>3, <2>4
  <2>5. CASE ~IsBlock(command)
    <3>1. ~(rxflr < command.len - 1) BY <1>8, <2>1, <2>5
    <3> QED BY <1>1, <1>2, <1>9, <2>1, <2>2, <2>3, <2>5, <3>1
  <2> QED BY <2>4, <2>5
<1>13. mem' # mem => IsWrite(command) BY <1>7
<1> QED BY <1>1, <1>4, <1>7, <1>10, <1>11, <1>12, <1>13

LEMMA TransferModeStep ==
    ASSUME InStep, edge, status = "TRANSFER", TransferMode, edge' = FALSE, UNCHANGED master
    PROVE  InStep'
<1>1. /\ command \in Commands /\ Meant(command) /\ Err(command) \in 0 .. 3
      /\ command' = [command EXCEPT !.err = Err(command)] /\ status' = "callback"
      /\ UNCHANGED <<ready, rx, rxflr, tx, at, job, frame, got, hasty>>
      /\ ~IsWrite(command) => UNCHANGED mem
      /\ mem' \in [Addresses -> -1 .. Len(Work)]
      /\ IsWrite(command) /\ rx # <<>> /\ rx[1].n >= Items(command) => mem'[command.addr] = command.id
  BY TransferFacts DEF fifos
<1>2. command' \in Commands /\ command'.id = command.id /\ command'.addr = command.addr
      /\ command'.cmd = command.cmd /\ command'.len = command.len
  BY <1>1 DEF Commands
<1>3. SlaveTypeOK' BY <1>1, <1>2 DEF InStep, SlaveTypeOK
<1>4. Phases'
  <2>1. Meant(command)' BY <1>1, <1>2 DEF Meant
  <2> QED BY <1>1, <1>2, <2>1 DEF InStep, Phases
<1>5. at # "wait" BY DEF InStep, Waits
<1>6. ASSUME at = "finish", frame PROVE IF IsWrite(Work[job]) THEN mem'[Work[job].addr] = job ELSE got = mem'[Work[job].addr]
  <2>1. command.id = job BY <1>6 DEF InStep, Ends
  <2>2. /\ IsWrite(command) <=> IsWrite(Work[job])
        /\ Items(command) = Items(Work[job])
        /\ command.addr = Work[job].addr /\ Items(command) \in Nat
    BY <1>1, <2>1, ItemFacts
  <2>3. CASE IsWrite(Work[job])
    <3>0. frame /\ IsWrite(Work[job]) => rx # <<>> /\ rx[1].n = Items(Work[job])
      BY <1>6 DEF InStep, Ends
    <3>1. rx # <<>> /\ rx[1].n = Items(Work[job]) BY <1>6, <2>3, <3>0
    <3>2. rx[1].n >= Items(command) BY <2>2, <3>1
    <3> QED BY <1>1, <2>1, <2>2, <2>3, <3>1, <3>2
  <2>4. CASE ~IsWrite(Work[job])
    <3>1. got = mem[Work[job].addr] BY <1>6, <2>4 DEF InStep, Ends
    <3> QED BY <1>1, <2>2, <2>4, <3>1
  <2> QED BY <2>3, <2>4
<1>7. Ends' BY <1>1, <1>6 DEF Ends
<1>8. Waits' BY <1>1, <1>5 DEF Waits
<1> QED BY <1>3, <1>4, <1>7, <1>8 DEF InStep

LEMMA ReturnStep ==
    ASSUME InStep, CallbackReturns
    PROVE  InStep'
<1>1. /\ status = "callback" /\ status' = "IDLE" /\ ready' = TRUE /\ rx' = <<>> /\ rxflr' = 0
      /\ tx' = [tx EXCEPT !.left = 0] /\ UNCHANGED <<mem, command, edge, at, job, frame, got, hasty>>
  BY DEF CallbackReturns, IdleMode, master
<1>2. tx' \in [value : -1 .. Len(Work), left : Nat] BY <1>1 DEF InStep, SlaveTypeOK
<1>3. <<>> \in Seq(Parts) /\ Len(<<>>) = 0 /\ DOMAIN <<>> = {} OBVIOUS
<1>4. SlaveTypeOK' BY <1>1, <1>2, <1>3 DEF InStep, SlaveTypeOK, Parts
<1>5. Phases' BY <1>1, <1>3 DEF InStep, Phases
<1>6. Waits' BY <1>1, <1>3 DEF Waits, Parsed
<1>7. Ends' BY <1>1 DEF InStep, Ends
<1> QED BY <1>4, <1>5, <1>6, <1>7 DEF InStep

LEMMA InStepInvariant == SlaveSpec => []InStep
<1>1. ASSUME SlaveInit PROVE InStep
  <2>1. <<>> \in Seq(Parts) /\ Len(<<>>) = 0 /\ DOMAIN <<>> = {} /\ NoCommand \in Commands
    BY WorkFacts, LenFacts DEF NoCommand, Commands, Cmds
  <2>2. tx \in [value : -1 .. Len(Work), left : Nat] BY <1>1, WorkFacts DEF SlaveInit, Unwritten
  <2>3. mem \in [Addresses -> -1 .. Len(Work)] /\ got \in -1 .. Len(Work) /\ job \in 1 .. Len(Work) + 1
        /\ hasty \in 0 .. MaxHasty
    BY <1>1, WorkFacts, DepthAssumption DEF SlaveInit, Unwritten
  <2>4. SlaveTypeOK BY <1>1, <2>1, <2>2, <2>3 DEF SlaveInit, SlaveTypeOK, Parts
  <2> QED BY <1>1, <2>1, <2>4 DEF SlaveInit, InStep, Phases, Waits, Ends
<1>2. ASSUME InStep, [SlaveNext]_slaveVars PROVE InStep'
  <2>1. ASSUME NEW damage \in Damages \cup {"none"}, Command(damage) PROVE InStep' BY <1>2, <2>1, CommandStep
  <2>2. ASSUME NEW lost \in Losses \cup {0}, Data(lost) PROVE InStep' BY <1>2, <2>2, DataStep
  <2>3. CASE Done \/ GiveUp \/ GiveUpEarly \/ Flush \/ Flushed BY <1>2, <2>3, MasterStep
  <2>4. CASE CsIrq
    <3>1. edge /\ edge' = FALSE /\ UNCHANGED master /\ status \in {"IDLE", "TRANSFER"}
      BY <1>2, <2>4 DEF CsIrq, InStep, SlaveTypeOK
    <3>2. CASE status = "IDLE"
      <4>1. UNCHANGED mem /\ (CommandMode \/ (IdleMode /\ UNCHANGED command)) BY <2>4, <3>2 DEF CsIrq
      <4> QED BY <1>2, <3>1, <3>2, <4>1, CommandModeStep
    <3>3. CASE status = "TRANSFER"
      <4>1. TransferMode BY <2>4, <3>3 DEF CsIrq
      <4> QED BY <1>2, <3>1, <3>3, <4>1, TransferModeStep
    <3> QED BY <3>1, <3>2, <3>3
  <2>5. CASE CallbackReturns BY <1>2, <2>5, ReturnStep
  <2>6. CASE UNCHANGED slaveVars
    BY <1>2, <2>6 DEF slaveVars, slave, fifos, master, InStep, SlaveTypeOK, Phases, Waits, Ends, Parsed, Meant
  <2> QED BY <1>2, <2>1, <2>2, <2>3, <2>4, <2>5, <2>6 DEF SlaveNext
<1> QED BY <1>1, <1>2, PTL DEF SlaveSpec

\* The slave's variables keep their types: a command it accepts is one of the
\* master's, and the counts of the FIFO and of the items to send stay natural.
THEOREM SlaveTypeCorrect == SlaveSpec => []SlaveTypeOK
<1>1. InStep => SlaveTypeOK BY DEF InStep
<1> QED BY <1>1, InStepInvariant, PTL

\* What the master believes done is done: with InStep for every work, depth of
\* the FIFO and number of transactions given up.
THEOREM DoneIsDone == SlaveSpec => TookPlace
<1>1. ASSUME InStep, Done, frame
      PROVE  LET c == Work[job] IN IF IsWrite(c) THEN mem[c.addr] = job ELSE got = mem[c.addr]
  <2>1. at = "finish" /\ status = "IDLE" BY <1>1 DEF Done, InStep, Phases
  <2> QED BY <1>1, <2>1 DEF InStep, Ends
<1>2. InStep => [Done /\ frame => LET c == Work[job] IN
                   IF IsWrite(c) THEN mem[c.addr] = job ELSE got = mem[c.addr]]_slaveVars
  BY <1>1
<1> QED BY <1>2, InStepInvariant, PTL DEF SlaveSpec, TookPlace

\* Memory changes only by the data of the command accepted.
THEOREM WritesOnlyData == SlaveSpec => OnlyData
<1> DEFINE Right ==
      LET c == command IN
      /\ IsWrite(c) /\ status = "TRANSFER"
      /\ \A a \in Addresses : a # c.addr => mem'[a] = mem[a]
      /\ \/ mem'[c.addr] = c.id /\ command'.err = 0
         \/ mem'[c.addr] = Torn /\ \/ rxflr = Items(c) - 1 /\ command'.err = 0
                                   \/ IsBlock(c) /\ command'.err = 3
<1>1. ASSUME InStep, SlaveNext, mem' # mem PROVE Right
  <2>1. CsIrq /\ status # "IDLE"
    BY <1>1 DEF SlaveNext, Command, Data, Done, GiveUp, GiveUpEarly, Flush, Flushed, CsIrq, CallbackReturns, slave
  <2>2. status = "TRANSFER" /\ TransferMode /\ edge' = FALSE /\ UNCHANGED master
    BY <1>1, <2>1 DEF CsIrq, InStep, SlaveTypeOK
  <2>3. /\ command \in Commands /\ command' = [command EXCEPT !.err = Err(command)]
        /\ \A a \in Addresses : a # command.addr => mem'[a] = mem[a]
        /\ IsWrite(command)
        /\ \/ mem'[command.addr] = command.id /\ Err(command) = 0
           \/ /\ mem'[command.addr] = Torn
              /\ \/ rxflr = Items(command) - 1 /\ Err(command) = 0
                 \/ IsBlock(command) /\ Err(command) = 3
    BY <1>1, <2>2, TransferFacts
  <2>4. command'.err = Err(command) BY <2>3 DEF Commands
  <2> QED BY <2>2, <2>3, <2>4
<1>2. InStep /\ [SlaveNext]_slaveVars => [mem' # mem => Right]_slaveVars
  BY <1>1
<1> QED BY <1>2, InStepInvariant, PTL DEF SlaveSpec, OnlyData
=============================================================================
