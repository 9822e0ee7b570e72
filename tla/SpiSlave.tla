------------------------------ MODULE SpiSlave ------------------------------
(***************************************************************************)
(* The SPI slave of lib/drivers/spi.c: a master on another chip reads and  *)
(* writes this chip's memory.  A transaction is a command frame of 8 bytes *)
(* and a data frame; a rising edge of the chip select ends each, and       *)
(* spi_slave_cs_irq looks at it some time later.  The slave pulls the      *)
(* ready pin low when it has accepted a command and high when it is idle.  *)
(*                                                                         *)
(* The master is not part of the repository.  It obeys the ready pin: high *)
(* for a command, low for data, and an empty frame when it finds the pin   *)
(* low on its own idle side.  Its frames may be damaged, and it may give   *)
(* up too early and go on with the same transaction or with the next.      *)
(*                                                                         *)
(* Frames have 8-bit items: the slave waits for 8 items, which with wider  *)
(* ones are not the 8 bytes of a command (line 1367).                      *)
(***************************************************************************)
EXTENDS Integers, Sequences, FiniteSets

CONSTANTS Work,         \* what the master does: a sequence of commands
          Depth,        \* of the transmit FIFO
          MaxHasty      \* bound: how often the master gives up too early

Cmds == {"WRITE_CONFIG", "READ_CONFIG", "WRITE_DATA_BYTE", "READ_DATA_BYTE",
         "WRITE_DATA_BLOCK", "READ_DATA_BLOCK", "unknown"}

Addresses == {Work[i].addr : i \in DOMAIN Work}
MaxLen == 65536         \* two bytes of the command, plus one

ASSUME WorkAssumption == Work \in Seq([cmd : Cmds, addr : Addresses, len : 1 .. MaxLen])
ASSUME DepthAssumption == Depth \in Nat /\ MaxHasty \in Nat

VARIABLES
    status,     \* g_instance.status; "callback": in TRANSFER, the callback runs
    command,    \* g_instance.command, with the transaction it belongs to
    ready,      \* the ready pin is high
    rx, rxflr,  \* receive FIFO: the parts of frames it holds, and how many items that is
    tx,         \* transmit FIFO and its DMA channel: a value, items still to send
    mem,        \* what was last written to each address: a transaction
    edge,       \* the interrupt of the chip select is pending
    at, job,    \* the master's place, and its transaction
    frame,      \* the data frame it sent was complete
    got,        \* what it has read
    hasty       \* how often it gave up too early

slave == <<status, command, ready, mem>>
fifos == <<rx, rxflr, tx>>
master == <<at, job, frame, got, hasty>>
slaveVars == <<slave, fifos, edge, master>>

Unwritten == 0          \* what is in memory at the start
Torn == -1              \* part of it was not sent by the master
NoCommand == [id |-> 0, cmd |-> "unknown", addr |-> "none", len |-> 0, err |-> 0]
Commands == [id : 0 .. Len(Work), cmd : Cmds, addr : Addresses \cup {"none"}, len : 0 .. MaxLen, err : 0 .. 3]

IsWrite(c) == c.cmd \in {"WRITE_CONFIG", "WRITE_DATA_BYTE", "WRITE_DATA_BLOCK"}
IsBlock(c) == c.cmd \in {"WRITE_DATA_BLOCK", "READ_DATA_BLOCK"}

\* a block's length counts four words of 32 bits each
Items(c) == IF IsBlock(c) THEN 4 * c.len ELSE c.len

SlaveTypeOK == /\ status \in {"IDLE", "TRANSFER", "callback"}
               /\ command \in Commands
               /\ ready \in BOOLEAN /\ edge \in BOOLEAN /\ frame \in BOOLEAN
               /\ rx \in Seq([what : {"command", "noise", "data"}, c : Commands, n : Nat]) /\ rxflr \in Nat
               /\ tx \in [value : -1 .. Len(Work), left : Nat]
               /\ mem \in [Addresses -> -1 .. Len(Work)]
               /\ at \in {"idle", "wait", "finish", "flush"}
               /\ job \in 1 .. Len(Work) + 1
               /\ got \in -1 .. Len(Work)
               /\ hasty \in 0 .. MaxHasty

\* spi_slave_config
SlaveInit == /\ status = "IDLE" /\ command = NoCommand /\ ready = TRUE
             /\ rx = <<>> /\ rxflr = 0 /\ tx = [value |-> Unwritten, left |-> 0]
             /\ mem = [a \in Addresses |-> Unwritten]
             /\ edge = FALSE
             /\ at = "idle" /\ job = 1 /\ frame = FALSE /\ got = Unwritten /\ hasty = 0

-----------------------------------------------------------------------------
(***************************************************************************)
(* The master.                                                             *)
(***************************************************************************)
Clock(part) == rx' = Append(rx, part) /\ rxflr' = rxflr + part.n /\ edge' = TRUE

\* a command frame: good, with a wrong sum, cut short, or with a right sum but
\* a command or a length there is not (a sum that is right by accident over a
\* command there is cannot be told from a good one)
Damages == {"sum", "short", "cmd", "len"}
Command(damage) ==
    LET c == [id |-> job, cmd |-> Work[job].cmd, addr |-> Work[job].addr, len |-> Work[job].len, err |-> 0] IN
    /\ at = "idle" /\ ready /\ job <= Len(Work)
    /\ damage = "len" => ~IsBlock(c)
    /\ Clock([what |-> IF damage \in {"sum", "short"} THEN "noise" ELSE "command",
              c |-> CASE damage = "cmd" -> [c EXCEPT !.cmd = "unknown"]
                      [] damage = "len" -> [c EXCEPT !.len = 9]
                      [] OTHER -> c,
              n |-> IF damage = "short" THEN 7 ELSE 8])
    /\ at' = "wait"
    /\ UNCHANGED <<slave, tx, job, frame, got, hasty>>

\* ready is low: the data frame, of lost items less than the command said;
\* a slave that sends ignores what it receives
Data(lost) ==
    LET n == Items(Work[job]) - lost IN
    /\ at = "wait" /\ ~ready
    /\ n >= 0
    /\ edge' = TRUE
    /\ IF IsWrite(Work[job])
         THEN /\ rx' = IF n = 0 THEN rx ELSE Append(rx, [what |-> "data", c |-> [NoCommand EXCEPT !.id = job], n |-> n])
              /\ rxflr' = rxflr + n
              /\ UNCHANGED <<tx, got>>
         ELSE /\ tx' = [tx EXCEPT !.left = IF @ > n THEN @ - n ELSE 0]
              /\ got' = IF tx.left = Items(Work[job]) /\ lost = 0 THEN tx.value ELSE Torn
              /\ UNCHANGED <<rx, rxflr>>
    /\ frame' = (lost = 0)
    /\ at' = "finish"
    /\ UNCHANGED <<slave, job, hasty>>

\* ready is high again: the transaction is over
Done == /\ at = "finish" /\ ready
        /\ job' = job + 1
        /\ at' = "idle"
        /\ UNCHANGED <<slave, fifos, edge, frame, got, hasty>>

\* the slave has dealt with the command frame and not accepted it
GiveUp == /\ at = "wait" /\ ready /\ ~edge /\ status = "IDLE"
          /\ at' = "idle"
          /\ UNCHANGED <<slave, fifos, edge, job, frame, got, hasty>>

\* too early, or the master starts again; same transaction or the next
GiveUpEarly == /\ at \in {"wait", "finish"} /\ hasty < MaxHasty
               /\ hasty' = hasty + 1
               /\ job' \in {job, job + 1}
               /\ at' = "idle"
               /\ UNCHANGED <<slave, fifos, edge, frame, got>>

\* the pin is low and this is not for the present command: an empty frame
Flush == /\ at = "idle" /\ ~ready
         /\ edge' = TRUE
         /\ at' = "flush"
         /\ UNCHANGED <<slave, fifos, job, frame, got, hasty>>
Flushed == /\ at = "flush" /\ ready
           /\ at' = "idle"
           /\ UNCHANGED <<slave, fifos, edge, job, frame, got, hasty>>

-----------------------------------------------------------------------------
(***************************************************************************)
(* Plausible bugs.                                                         *)
(***************************************************************************)
\* the status is left as it is: after a transaction the slave says it is
\* ready, and takes the next command for data
IdleMode_KeepsStatus == /\ ready' = TRUE
                        /\ status' = IF status = "callback" THEN "TRANSFER" ELSE status
                        /\ rx' = <<>> /\ rxflr' = 0 /\ tx' = [tx EXCEPT !.left = 0]

\* any number of items is taken
Err_NotChecked(c) == IF IsBlock(c) /\ rxflr < Items(c) THEN 3 ELSE 0

\* the command is left in the FIFO
CommandMode_KeepsFifo ==
    LET c == rx[1].c IN
    IF Len(rx) = 1 /\ rx[1].what = "command" /\ c.cmd # "unknown" /\ (~IsBlock(c) => c.len <= 8)
      THEN /\ status' = "TRANSFER"
           /\ command' = c
           /\ ready' = FALSE
           /\ tx' = IF IsWrite(c) THEN [tx EXCEPT !.left = 0]
                                  ELSE [value |-> mem[c.addr], left |-> Items(c)]
           /\ UNCHANGED <<rx, rxflr>>
      ELSE /\ status' = "IDLE" /\ ready' = TRUE
           /\ rx' = <<>> /\ rxflr' = 0 /\ tx' = [tx EXCEPT !.left = 0]
           /\ UNCHANGED command

-----------------------------------------------------------------------------
(***************************************************************************)
(* The slave.                                                              *)
(***************************************************************************)
\* spi_slave_idle_mode: ssienr off and on empties both FIFOs
IdleMode == /\ status' = "IDLE" /\ ready' = TRUE
            /\ rx' = <<>> /\ rxflr' = 0 /\ tx' = [tx EXCEPT !.left = 0]

\* the 8 items are a command, its sum is right and its length allowed
Parsed == Len(rx) = 1 /\ rx[1].what = "command"
Accepted(c) == /\ c.cmd # "unknown"
               /\ ~IsBlock(c) => c.len <= 8

\* spi_slave_command_mode: the FIFO is emptied, what is to be read goes to
\* the other one
CommandMode ==
    LET c == rx[1].c IN
    IF Parsed /\ Accepted(c)
      THEN /\ status' = "TRANSFER"
           /\ command' = c
           /\ ready' = FALSE
           /\ rx' = <<>> /\ rxflr' = 0
           /\ tx' = IF IsWrite(c) THEN [tx EXCEPT !.left = 0]
                                  ELSE [value |-> mem[c.addr], left |-> Items(c)]
      ELSE IdleMode /\ UNCHANGED command

\* err: fewer items received than the length less one; some not sent; the DMA,
\* which has moved everything into the FIFO or out of it, not done
Err(c) == CASE IsBlock(c) /\ IsWrite(c) -> IF rxflr < Items(c) THEN 3 ELSE 0
            [] IsBlock(c) /\ ~IsWrite(c) -> IF tx.left > Depth THEN 3 ELSE 0
            [] IsWrite(c) /\ ~IsBlock(c) -> IF rxflr < c.len - 1 THEN 1 ELSE 0
            [] OTHER -> IF tx.left # 0 THEN 2 ELSE 0

\* what the first items in the FIFO are
Received(c) == IF rx # <<>> /\ rx[1].what = "data" /\ rx[1].n >= Items(c) THEN rx[1].c.id ELSE Torn

\* spi_slave_transfer_mode up to its callback; the DMA has moved what there
\* was, error or not
TransferMode ==
    LET c == command IN
    /\ command' = [command EXCEPT !.err = Err(c)]
    /\ mem' = IF IsWrite(c) /\ (Err(c) = 0 \/ (IsBlock(c) /\ rx # <<>>))
              THEN [mem EXCEPT ![c.addr] = Received(c)] ELSE mem
    /\ status' = "callback"
    /\ UNCHANGED <<ready, fifos>>

\* spi_slave_cs_irq; gpiohs_pin_onchange_isr has cleared the edge
CsIrq == /\ edge /\ status # "callback"
         /\ edge' = FALSE
         /\ IF status = "IDLE"
              THEN /\ IF rxflr = 8 THEN CommandMode ELSE IdleMode /\ UNCHANGED command
                   /\ UNCHANGED mem
              ELSE TransferMode
         /\ UNCHANGED master

\* the callback has returned
CallbackReturns == /\ status = "callback"
         /\ IdleMode
         /\ UNCHANGED <<command, mem, edge, master>>

-----------------------------------------------------------------------------
Losses == {1, 2}

SlaveNext == \/ \E damage \in Damages \cup {"none"} : Command(damage)
        \/ \E lost \in Losses \cup {0} : Data(lost)
        \/ Done \/ GiveUp \/ GiveUpEarly \/ Flush \/ Flushed
        \/ CsIrq \/ CallbackReturns

SlaveSpec == SlaveInit /\ [][SlaveNext]_slaveVars

\* The slave's handler runs and its callback returns; the master goes on, and
\* not every command frame is damaged.
SlaveFairness == /\ WF_slaveVars(CsIrq) /\ WF_slaveVars(CallbackReturns)
            /\ WF_slaveVars(\E lost \in Losses \cup {0} : Data(lost))
            /\ WF_slaveVars(Done) /\ WF_slaveVars(GiveUp) /\ WF_slaveVars(Flush) /\ WF_slaveVars(Flushed)
            /\ SF_slaveVars(Command("none"))

SlaveFairSpec == SlaveSpec /\ SlaveFairness

-----------------------------------------------------------------------------
(***************************************************************************)
(* Properties.                                                             *)
(***************************************************************************)
\* A transaction that is over for the master, with a complete data frame, has
\* taken place: the memory holds what it wrote, or it has read what is there.
\* No frame of another transaction, late or damaged, was taken for its own.
TookPlace == [][Done /\ frame =>
    LET c == Work[job] IN IF IsWrite(c) THEN mem[c.addr] = job ELSE got = mem[c.addr]]_slaveVars

\* Memory changes only by the data of the command that was accepted, whole:
\* no command frame and no other transaction's data is ever written, and an
\* error means nothing was.  Except that one item may be missing (line 1287
\* compares with the length less one, so that an empty frame ends a write of
\* one byte), and a block of which only a part came.
OnlyData == [][mem' # mem =>
    LET c == command IN
    /\ IsWrite(c) /\ status = "TRANSFER"
    /\ \A a \in Addresses : a # c.addr => mem'[a] = mem[a]
    /\ \/ mem'[c.addr] = c.id /\ command'.err = 0
       \/ mem'[c.addr] = Torn /\ \/ rxflr = Items(c) - 1 /\ command'.err = 0
                                 \/ IsBlock(c) /\ command'.err = 3]_slaveVars

\* Whatever frames were damaged or abandoned, master and slave find together
\* again, and the master comes to the end of its work.
Resynchronises == <>(job > Len(Work))
=============================================================================
