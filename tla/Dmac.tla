-------------------------------- MODULE Dmac --------------------------------
(***************************************************************************)
(* The DMA controller driver, lib/drivers/dmac.c: channels, the context of *)
(* each (dmac_context), and the bounce buffers in I/O memory that stand in *)
(* for cached source and destination buffers (FIX_CACHE).                  *)
(*                                                                         *)
(* This module has the operations as parts of steps: a device driver's     *)
(* action says which variables of its own change with them.                *)
(***************************************************************************)
EXTENDS Naturals, FiniteSets

CONSTANTS Harts, Channels,
          Ids,      \* transfers
          None

VARIABLES chan,         \* per channel: enabled, interrupt latched, interrupt enabled
          ctx,          \* dmac_context: is a callback set, src_malloc, dest_malloc
          bufs,         \* bounce buffers allocated from iomem
          copied,       \* transfers whose received data has reached the caller's buffer
          registered,   \* channels each hart has dmac_irq_callback in plic_instance for
          enabled       \* channels each hart's PLIC target has enabled

dmac == <<chan, ctx, bufs, copied, registered, enabled>>

Buffers == [id : Ids, channel : Channels, side : {"src", "dest"}]

ASSUME NoneAssumption == None \notin Ids /\ None \notin Channels /\ None \notin Buffers

DmacTypeOK ==
    /\ chan \in [Channels -> [run : BOOLEAN, int : BOOLEAN, inten : BOOLEAN]]
    /\ ctx \in [Channels -> [callback : BOOLEAN, src : Buffers \cup {None}, dest : Buffers \cup {None}]]
    /\ bufs \subseteq Buffers
    /\ copied \subseteq Ids
    /\ registered \in [Harts -> SUBSET Channels]
    /\ enabled \in [Harts -> SUBSET Channels]

DmacInit == /\ chan = [c \in Channels |-> [run |-> FALSE, int |-> FALSE, inten |-> FALSE]]
            /\ ctx = [c \in Channels |-> [callback |-> FALSE, src |-> None, dest |-> None]]
            /\ bufs = {}
            /\ copied = {}
            /\ registered = [h \in Harts |-> {}]
            /\ enabled = [h \in Harts |-> {}]

Idle(c) == ~chan[c].run

-----------------------------------------------------------------------------
\* dmac_set_single_mode of the channels in from, whose source is memory, and
\* in to, whose destination is.  The pointers of the context are overwritten
\* whatever they hold.
SetSingleMode(id, from, to) ==
    LET new(c, side) == [id |-> id, channel |-> c, side |-> side] IN
    /\ chan' = [c \in Channels |-> IF c \in from \cup to
                                   THEN [chan[c] EXCEPT !.int = FALSE, !.run = TRUE]
                                   ELSE chan[c]]
    /\ ctx' = [c \in Channels |->
                 [ctx[c] EXCEPT !.src = IF c \in from THEN new(c, "src") ELSE @,
                                !.dest = IF c \in to THEN new(c, "dest") ELSE @]]
    /\ bufs' = bufs \cup {new(c, "src") : c \in from} \cup {new(c, "dest") : c \in to}

\* what dmac_wait_done and dmac_irq_callback do with the bounce buffers: copy
\* what was received, free both and forget them
Settle(cs) ==
    /\ copied' = copied \cup {ctx[c].dest.id : c \in {d \in cs : ctx[d].dest # None}}
    /\ bufs' = bufs \ ({ctx[c].dest : c \in cs} \cup {ctx[c].src : c \in cs})
    /\ ctx' = [c \in Channels |-> IF c \in cs THEN [ctx[c] EXCEPT !.src = None, !.dest = None]
                                             ELSE ctx[c]]

ClearInterrupt(cs) ==
    chan' = [c \in Channels |-> [chan[c] EXCEPT !.int = @ /\ c \notin cs]]

\* dmac_irq_register, on hart h
IrqRegister(h, c) ==
    /\ ctx' = [ctx EXCEPT ![c].callback = TRUE]
    /\ chan' = [chan EXCEPT ![c].int = FALSE, ![c].inten = TRUE]
    /\ registered' = [registered EXCEPT ![h] = @ \cup {c}]
    /\ enabled' = [enabled EXCEPT ![h] = @ \cup {c}]

\* dmac_irq_unregister, on hart h: the PLIC keeps the channel enabled
IrqUnregister(h, c) ==
    /\ ctx' = [ctx EXCEPT ![c].callback = FALSE]
    /\ chan' = [chan EXCEPT ![c].inten = FALSE]
    /\ registered' = [registered EXCEPT ![h] = @ \ {c}]

-----------------------------------------------------------------------------
\* the controller: the block is over
Finish(c) == chan' = [chan EXCEPT ![c].run = FALSE, ![c].int = chan[c].inten]

\* an interrupt that hart h's handler answers; on a hart that has the channel
\* enabled but no callback any more, claim and completion change nothing
Interrupts(h, c) == chan[c].int /\ chan[c].inten /\ c \in enabled[h] \cap registered[h]
=============================================================================
