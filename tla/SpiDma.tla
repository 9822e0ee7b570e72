------------------------------- MODULE SpiDma -------------------------------
(***************************************************************************)
(* spi_handle_data_dma and spi_dma_irq (lib/drivers/spi.c) over the DMA    *)
(* driver: transfers of one SPI device from several harts, with a callback *)
(* from the DMA interrupt or without one.                                  *)
(*                                                                         *)
(* The device's lock is taken by the caller and given back by the          *)
(* interrupt handler (with a callback) or by the caller itself (without).  *)
(* A callback may start the next transfer.                                 *)
(*                                                                         *)
(* Kinds of transfer: "trans", "recv", and two that use both channels:     *)
(* "eeprom" (and TRANS_RECV with tx_len <= rx_len), which ends with the    *)
(* receive channel's interrupt, and "long", TRANS_RECV with tx_len >       *)
(* rx_len, which ends with the transmit channel's.  Buffers are cached.    *)
(***************************************************************************)
EXTENDS Dmac

CONSTANTS Uses,         \* what each hart calls: pairs <<kind, with a callback>>
          MaxTransfers  \* bound: transfers are numbered 1 .. MaxTransfers

ASSUME IdAssumption == MaxTransfers \in Nat /\ Ids = 1 .. MaxTransfers /\ Channels = {"tx", "rx"}
ASSUME UseAssumption ==
    Uses \in [Harts -> SUBSET ({"trans", "recv", "eeprom", "long"} \X BOOLEAN)]

VARIABLES
    lock,       \* g_spi_instance[].lock
    callback,   \* g_spi_instance[].spi_int_instance: whose callback it is
    irqchan,    \* g_spi_instance[].dmac_channel
    ssienr, ser,    \* device: enabled, chip selected
    next, use,  \* the number of the next transfer, what each one is
    pc, tr,     \* each caller's place in spi_handle_data_dma, and its transfer
    irq, irqat, \* each hart's running DMA interrupt: channel, and place in the handler
    user,       \* the transfer the lock is held for
    over,       \* transfers whose lock has been given back
    called,     \* how often each transfer's callback was called
    cut         \* a call has disabled the device under another one's transfer

spi == <<lock, callback, irqchan, ssienr, ser>>
calls == <<next, use, pc, tr>>
handlers == <<irq, irqat>>
ghosts == <<user, over, called, cut>>
vars == <<dmac, spi, calls, handlers, ghosts>>

Levels == {"thread", "irq"}
Agents == Harts \X Levels
NoUse == <<"none", FALSE>>

KindOf(id) == use[id][1]
WithCallback(id) == use[id][2]
ChannelsOf(id) == CASE KindOf(id) = "trans" -> {"tx"} [] KindOf(id) = "recv" -> {"rx"}
                    [] OTHER -> {"tx", "rx"}
IrqChannel(id) == IF KindOf(id) \in {"trans", "long"} THEN "tx" ELSE "rx"

TypeOK == /\ DmacTypeOK
          /\ lock \in BOOLEAN /\ ssienr \in BOOLEAN /\ ser \in BOOLEAN
          /\ callback \in Ids \cup {None}
          /\ irqchan \in Channels
          /\ next \in 1 .. MaxTransfers + 1
          /\ use \in [Ids -> (UNION {Uses[h] : h \in Harts}) \cup {NoUse}]
          /\ pc \in [Agents -> {"idle", "lock", "set", "start", "select", "wait", "unlock", "clear"}]
          /\ tr \in [Agents -> Ids \cup {None}]
          /\ irq \in [Harts -> Channels \cup {None}]
          /\ irqat \in [Harts -> {"none", "entry", "unregister", "drain", "unlock", "read", "callback"}]
          /\ user \in Ids \cup {None}
          /\ over \subseteq Ids
          /\ called \in [Ids -> 0 .. 2] /\ cut \in BOOLEAN

Init == /\ DmacInit
        /\ lock = FALSE /\ callback = None /\ irqchan = "tx"
        /\ ssienr = FALSE /\ ser = FALSE
        /\ next = 1
        /\ use = [i \in Ids |-> NoUse]
        /\ pc = [a \in Agents |-> "idle"]
        /\ tr = [a \in Agents |-> None]
        /\ irq = [h \in Harts |-> None]
        /\ irqat = [h \in Harts |-> "none"]
        /\ user = None
        /\ over = {}
        /\ called = [i \in Ids |-> 0] /\ cut = FALSE

\* the handler preempts the thread; its callback runs inside it
MayRun(a) == irqat[a[1]] = IF a[2] = "thread" THEN "none" ELSE "callback"
At(a, p) == MayRun(a) /\ pc[a] = p
Goto(a, p) == pc' = [pc EXCEPT ![a] = p]
HandlerGoto(h, p) == irqat' = [irqat EXCEPT ![h] = p]
Return(a) == Goto(a, "idle") /\ tr' = [tr EXCEPT ![a] = None]

\* (sr & 0x05) = 0x04: an enabled device sends what the FIFO holds only to a
\* selected chip, a disabled one has no FIFO.  The receive channel is assumed
\* to keep up with the wire.
Drained == ssienr => ser /\ \A c \in Channels : Idle(c)

-----------------------------------------------------------------------------
(***************************************************************************)
(* Plausible bugs.                                                         *)
(***************************************************************************)
\* the interrupt registered for transfers without a callback, too
Set_AlwaysRegisters(a) ==
    LET id == tr[a] IN
    /\ At(a, "set")
    /\ callback' = IF WithCallback(id) THEN id ELSE callback
    /\ irqchan' = IrqChannel(id)
    /\ IrqRegister(a[1], IrqChannel(id))
    /\ ssienr' = TRUE
    /\ Goto(a, "start")
    /\ UNCHANGED <<bufs, copied, lock, ser, next, use, tr, handlers, ghosts>>

\* no wait for the channels
Wait_NotAtAll(a) ==
    LET cs == ChannelsOf(tr[a]) IN
    /\ At(a, "wait")
    /\ ClearInterrupt(cs)
    /\ Settle(cs)
    /\ Goto(a, "unlock")
    /\ UNCHANGED <<registered, enabled, spi, next, use, tr, handlers, ghosts>>

\* dmac_irq_callback without the copy, and without the free
Entry_NoCopy(h) ==
    LET c == irq[h] IN
    /\ irqat[h] = "entry"
    /\ ClearInterrupt({c})
    /\ bufs' = bufs \ {ctx[c].dest, ctx[c].src}
    /\ ctx' = [ctx EXCEPT ![c].src = None, ![c].dest = None]
    /\ HandlerGoto(h, "unregister")
    /\ UNCHANGED <<copied, registered, enabled, spi, calls, irq, ghosts>>
Entry_NoFree(h) ==
    LET c == irq[h] IN
    /\ irqat[h] = "entry"
    /\ ClearInterrupt({c})
    /\ copied' = copied \cup (IF ctx[c].dest = None THEN {} ELSE {ctx[c].dest.id})
    /\ HandlerGoto(h, "unregister")
    /\ UNCHANGED <<bufs, ctx, registered, enabled, spi, calls, irq, ghosts>>

\* a handler that unlocks and returns without its callback
IrqUnlock_Returns(h) ==
    /\ irqat[h] = "unlock"
    /\ lock' = FALSE
    /\ user' = None
    /\ over' = over \cup {user}
    /\ HandlerGoto(h, "callback")
    /\ UNCHANGED <<dmac, callback, irqchan, ssienr, ser, calls, irq, called, cut>>

-----------------------------------------------------------------------------
(***************************************************************************)
(* spi_handle_data_dma.                                                    *)
(***************************************************************************)
Call(a, u) == /\ MayRun(a) /\ pc[a] = "idle"
              /\ next <= MaxTransfers
              /\ u \in Uses[a[1]]
              /\ next' = next + 1
              /\ use' = [use EXCEPT ![next] = u]
              /\ tr' = [tr EXCEPT ![a] = next]
              /\ Goto(a, "lock")
              /\ UNCHANGED <<dmac, spi, handlers, ghosts>>

Lock(a) == /\ At(a, "lock")
           /\ ~lock
           /\ lock' = TRUE
           /\ user' = tr[a]
           /\ Goto(a, "set")
           /\ UNCHANGED <<dmac, callback, irqchan, ssienr, ser, next, use, tr, handlers, over, called, cut>>

\* the callback, the device's mode and enable, dmac_irq_register
Set(a) ==
    LET id == tr[a] IN
    /\ At(a, "set")
    /\ IF WithCallback(id)
         THEN /\ callback' = id
              /\ irqchan' = IrqChannel(id)
              /\ IrqRegister(a[1], IrqChannel(id))
         ELSE UNCHANGED <<callback, irqchan, ctx, chan, registered, enabled>>
    /\ ssienr' = TRUE
    /\ Goto(a, "start")
    /\ UNCHANGED <<bufs, copied, lock, ser, next, use, tr, handlers, ghosts>>

Start(a) == /\ At(a, "start")
            /\ SetSingleMode(tr[a], ChannelsOf(tr[a]) \cap {"tx"}, ChannelsOf(tr[a]) \cap {"rx"})
            /\ Goto(a, "select")
            /\ UNCHANGED <<copied, registered, enabled, spi, next, use, tr, handlers, ghosts>>

\* ser = 1 << chip_select; with a callback the call is over
Select(a) == /\ At(a, "select")
             /\ ser' = TRUE
             /\ IF WithCallback(tr[a]) THEN Return(a) ELSE Goto(a, "wait") /\ UNCHANGED tr
             /\ UNCHANGED <<dmac, lock, callback, irqchan, ssienr, next, use, handlers, ghosts>>

\* dmac_wait_done of each channel, and for "trans" the end on the wire
Wait(a) ==
    LET cs == ChannelsOf(tr[a]) IN
    /\ At(a, "wait")
    /\ \A c \in cs : Idle(c)
    /\ KindOf(tr[a]) = "trans" => Drained
    /\ ClearInterrupt(cs)
    /\ Settle(cs)
    /\ Goto(a, "unlock")
    /\ UNCHANGED <<registered, enabled, spi, next, use, tr, handlers, ghosts>>

Unlock(a) == /\ At(a, "unlock")
             /\ lock' = FALSE
             /\ user' = None
             /\ over' = over \cup {user}
             /\ Goto(a, "clear")
             /\ UNCHANGED <<dmac, callback, irqchan, ssienr, ser, next, use, tr, handlers, called, cut>>

\* ser = 0, ssienr = 0, after the unlock
Clear(a) == /\ At(a, "clear")
            /\ ser' = FALSE /\ ssienr' = FALSE
            /\ cut' = (cut \/ lock)
            /\ Return(a)
            /\ UNCHANGED <<dmac, lock, callback, irqchan, next, use, handlers, user, over, called>>

-----------------------------------------------------------------------------
(***************************************************************************)
(* The device, and the interrupt: dmac_irq_callback calls spi_dma_irq.     *)
(***************************************************************************)
\* The transmit channel fills the FIFO whether or not a chip is selected;
\* what is received needs the chip, and what was transmitted.
Complete(c) == /\ chan[c].run /\ ssienr
               /\ c = "rx" => ser /\ Idle("tx")
               /\ Finish(c)
               /\ UNCHANGED <<ctx, bufs, copied, registered, enabled, spi, calls, handlers, ghosts>>

Interrupt(h, c) == /\ irqat[h] = "none"
                   /\ Interrupts(h, c)
                   /\ \A g \in Harts : irq[g] # c
                   /\ irq' = [irq EXCEPT ![h] = c]
                   /\ HandlerGoto(h, "entry")
                   /\ UNCHANGED <<dmac, spi, calls, ghosts>>

Entry(h) == /\ irqat[h] = "entry"
            /\ ClearInterrupt({irq[h]})
            /\ Settle({irq[h]})
            /\ HandlerGoto(h, IF ctx[irq[h]].callback THEN "unregister" ELSE "callback")
            /\ UNCHANGED <<registered, enabled, spi, calls, irq, ghosts>>

Unregister(h) == /\ irqat[h] = "unregister"
                 /\ IrqUnregister(h, irqchan)
                 /\ HandlerGoto(h, "drain")
                 /\ UNCHANGED <<bufs, copied, enabled, spi, calls, irq, ghosts>>

\* while((sr & 0x05) != 0x04), then ser = 0, ssienr = 0
Drain(h) == /\ irqat[h] = "drain"
            /\ Drained
            /\ ser' = FALSE /\ ssienr' = FALSE
            /\ HandlerGoto(h, "unlock")
            /\ UNCHANGED <<dmac, lock, callback, irqchan, calls, irq, ghosts>>

IrqUnlock(h) == /\ irqat[h] = "unlock"
                /\ lock' = FALSE
                /\ user' = None
                /\ over' = over \cup {user}
                /\ HandlerGoto(h, "read")
                /\ UNCHANGED <<dmac, callback, irqchan, ssienr, ser, calls, irq, called, cut>>

\* the callback is read after the unlock
Read(h) == /\ irqat[h] = "read"
           /\ called' = [called EXCEPT ![callback] = IF @ < 2 THEN @ + 1 ELSE @]
           /\ HandlerGoto(h, "callback")
           /\ UNCHANGED <<dmac, spi, calls, irq, user, over, cut>>

\* the callback has returned; completion
Leave(h) == /\ irqat[h] = "callback"
            /\ pc[<<h, "irq">>] = "idle"
            /\ irq' = [irq EXCEPT ![h] = None]
            /\ HandlerGoto(h, "none")
            /\ UNCHANGED <<dmac, spi, calls, ghosts>>

-----------------------------------------------------------------------------
Caller(a) == Lock(a) \/ Set(a) \/ Start(a) \/ Select(a) \/ Wait(a) \/ Unlock(a) \/ Clear(a)
Handler(h) == Entry(h) \/ Unregister(h) \/ Drain(h) \/ IrqUnlock(h) \/ Read(h) \/ Leave(h)

Next == \/ \E a \in Agents : Caller(a) \/ \E u \in Uses[a[1]] : Call(a, u)
        \/ \E h \in Harts : Handler(h) \/ \E c \in Channels : Interrupt(h, c)
        \/ \E c \in Channels : Complete(c)

Spec == Init /\ [][Next]_vars

\* Harts keep executing, the lock's swap is arbitrated, the device works.
Fairness == /\ \A a \in Agents : WF_vars(Caller(a)) /\ SF_vars(Lock(a))
            /\ \A h \in Harts : WF_vars(Handler(h)) /\ \A c \in Channels : WF_vars(Interrupt(h, c))
            /\ \A c \in Channels : WF_vars(Complete(c))

FairSpec == Spec /\ Fairness

-----------------------------------------------------------------------------
(***************************************************************************)
(* Properties.                                                             *)
(***************************************************************************)
\* What follows holds until a call without callback, which disables the
\* device after its unlock, does so under the next transfer.
Undisturbed == ~cut

\* The device never works for two transfers: a running channel belongs to
\* the transfer the lock is held for.
OneTransfer == Undisturbed => \A c \in Channels :
    chan[c].run => lock /\ user # None /\ c \in ChannelsOf(user) /\ user \notin over

Receives(id) == KindOf(id) \in {"recv", "eeprom", "long"}

\* A transfer that is over has its data in the caller's buffer, unless it
\* received less than it sent and ended with the transmit channel's interrupt.
Delivered == Undisturbed => \A id \in over :
    Receives(id) /\ ~(KindOf(id) = "long" /\ WithCallback(id)) => id \in copied

\* No bounce buffer outlives its transfer but those of the channel whose
\* interrupt a transfer with a callback does not use.
BuffersFreed == ~lock /\ Undisturbed => \A b \in bufs :
    WithCallback(b.id) /\ b.channel # IrqChannel(b.id)

\* When at most one hart passes callbacks, each is called at most once, and
\* only after its transfer.
CallbackOnce == \A id \in Ids : called[id] <= 1 /\ (called[id] = 1 => id \in over)

\* A hart waits for itself, for ever: the handler for a FIFO that empties only
\* when the thread it has interrupted has selected the chip, or a callback that
\* starts a second transfer for the interrupt of its first.
SelfWait == \E h \in Harts :
    \/ irqat[h] = "drain" /\ ~ser /\ pc[<<h, "thread">>] = "select"
    \/ pc[<<h, "irq">>] = "lock" /\ lock /\ WithCallback(user)

\* spi.h: cb is the "Spi DMA callback" of the call: it is called in the end,
\* but for those deadlocks.
CallbackComes == \A id \in Ids :
    use[id] # NoUse /\ WithCallback(id) ~> called[id] > 0 \/ SelfWait \/ cut
=============================================================================
