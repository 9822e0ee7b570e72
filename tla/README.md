# A verification project for the Kendryte K210 standalone SDK

The SDK is a bare-metal library for a chip with two RISC-V harts: locks, an
allocator, interrupt controllers, a DMA controller and some thirty device
drivers. There is no scheduler. What runs concurrently is the two harts and, on
each of them, interrupt handlers nested over the code they interrupt. Nearly
everything that is hard in this code is in that: a lock between harts that an
interrupt of the same hart walks through, a register saved before a callback
and written back after it, a flag given up one line before the data it guards
is read.

This directory has TLA+ modules for that core, TLC configurations that check
them on small instances, and TLAPS proofs of all of their safety properties
for any number of harts, locks, interrupts, channels, jobs, servers, any sizes and
periods (of Kpu for one hart: with two its property is false, section 6). `PROJECT.json` relates each definition to the lines it models and each
property to the hazard it is about.

Contents: 1 the system, 2 modules, 3 runs, 4 fairness, 5 proofs,
6 what the code does not do, 7 not modelled, 8 plan, 9 how to run.

## 1. The system

`lib/bsp` has boot, traps, locks and system calls; `lib/drivers` the devices;
`lib/nncase` an inference runtime; `src/` demos for boards, most of them with
vendored libraries. The logic of the program is in the first two.

| component | state | operations | correct when |
|---|---|---|---|
| spinlock, corelock (`atomic.h`) | a word; `count`, `core` | lock, trylock, unlock | a recursive mutex between harts; waiters do not keep the holder out |
| semaphore (`atomic.h`) | a word; `count`, `waiting` | signal, wait, the two counts | no signal lost or taken twice |
| newlib locks (`locks.c`) | a word per lock, a shared table of slots | init, close, acquire, try, release | each lock a recursive mutex, the table exact and without leaks |
| I/O memory (`iomem.c`), heap (`sys_brk`) | `memmap` tags, `_ioheap_line`, `_heap_line` | malloc, free, brk | blocks disjoint, tags exact, heap below every block |
| PLIC (`plic.c`) | enables, thresholds, gateways, callback table | enable, disable, claim/complete in the external trap | handlers nest only upwards, no source in two handlers, none goes silent |
| CLINT (`clint.c`) | `mie` bits, `mtimecmp`, `msip` | start and stop of the timer, send and clear of an IPI, two traps | IPIs not lost; the timer as last asked |
| DMA (`dmac.c`) | channels, `dmac_context`, bounce buffers | set a channel, wait, register, interrupt | buffers come back, data reach the caller |
| SPI master with DMA (`spi.c`) | a lock, the stored callback, chip select | `spi_handle_data_dma`, `spi_dma_irq` | one transfer at a time, one callback each |
| accelerator (`kpu.c`) | shared task copy, layer FIFO, interrupt mask and flags | `kpu_run`, `kpu_start`, `kpu_run_kmodel`, handlers | each job's layers once and in order, called back once |
| real time clock (`rtc.c`) | one period, shared by alarm and tick | register and unregister of each, handler | each rings at its times and only then |
| timers (`timer.c`) | instances with callbacks, one PLIC interrupt per pair of channels | register, unregister, start, stop, handler | each expiry answered, a single shot once, channels as last asked |
| SPI slave (`spi.c`) | mode, command, both FIFOs | chip select interrupt: idle, command, transfer | what the master believes done is done, nothing else is written, both sides find together again |
| DHCP client (`dhcp.c` of the w5500 demo) | state, seconds, retries, address, lease | `DHCP_run`, `DHCP_time_handler` | no address used past its lease, no flood, a lease found again |
| UART, I2C, I2S, watchdog | callbacks | transfer, interrupt | see section 8 |
| GPIO, FPIOA, PWM, clocks, DVP, AES, SHA, FFT, APU | device registers | programming | not a matter of state, see section 7 |

How they interact. A device interrupt goes through the PLIC: `handle_irq_m_ext`
claims it, raises the threshold, turns interrupts back on and calls the
driver's function from `plic_instance`; the driver calls the application's
callback, which may call any driver again. DMA users take a channel's context,
register `dmac_irq_callback` at the PLIC and are called from there. Every DMA
transfer from cached memory allocates bounce buffers with `iomem_malloc` and
gives them back in the interrupt; the allocator takes a newlib recursive lock,
which keeps other harts out and lets the same hart's interrupts in. Harts wake
each other with IPIs. `printk` is behind a corelock.

What is hard, in short (the list, line by line, is `hazards` in
`PROJECT.json`): interrupts of the same hart inside locked code; state read
after the lock is given up; saved registers restored over what a callback has
changed; read-modify-write of shared registers; two harts for one interrupt;
two users of one hardware resource whose calls come in any order; interrupt
flags left over from earlier work; partners on the other side of a wire that
send too little, too late, or to somebody else.

## 2. Modules

Each component has a module named after it, an `MC` module with the constants
of its runs. Proofs are in modules of their own, some for two components: their
names are in section 5. Properties are
at the end of the component's module, plausible bugs (used to confirm that each
property can fail) next to the definitions they alter. A type invariant is
proved of every module, so the runs need not check it.

**RecMutex** is the abstract recursive mutex: acquisitions outstanding per hart.

**CoreLock** models `spinlock_*` and `corelock_*`. `word`, `count` and `core`
are the fields of `corelock_t`; `pc`, `op` and `res` place each hart in its
call. Each access to the word is a step (`SpinTake`, `LeaveTaken`, ...), as is
the poll of `count` made without it (`Poll`); what is done under the word is
one step, since nobody else may write there. `held` counts what the caller has
been granted. A hart may unlock what it does not hold: the code then goes to
`scall` 93, modelled as `exited`. `Abstract == INSTANCE RecMutex` is the
refinement.

**Semaphore** models `semaphore_*`. `lock` and `units` are the fields `lock` and
`count`. Reading and writing `count` are separate
steps (`Read`, `Write`), so that the model shows what the word is for.
`waiting` is changed outside the word as the code does.

**Reculock** models `locks.c`: words, table `slots`, mutex around the search for
a free slot. `Find`, `MutexTake`, `Claim`, `MutexLeave` are `reculock_init` on
a first acquisition. The waiting loop reads slot 0's counter whatever lock it
waits for, as the code does, which limits what it can promise (`OneAtATime`).
Refines one `RecMutex` per lock (safety).

**Iomem** models `iomem.c` and `sys_brk`. Each access to `memmap`,
`_ioheap_line` and `_heap_line` is a step, so a DMA interrupt can come between
any two, and `sys_brk` on one hart can meet `iomem_malloc` on the other. The
handlers free blocks (`dmac_irq_callback`) and allocate them (`kpu.c:102`,
`kpu.c:241` and callbacks that start a transfer, through `dmac.c:368`): the
lock, the pair `owner`, `depth`, lets them in when their own hart holds it.
Reculock shows that `locks.c` provides that lock. The interrupts have priorities
(`Priority`): a handler may be interrupted by another, between any two accesses,
and runs on when that one is done (`MayStep`). `m_...` and `f_...` name the
access that comes next in `iomem_malloc` and `iomem_free`; `Table` and `Clear`
are `iomem_init`. The ghost `nested` remembers in which of two windows
(`Windows`) of an interrupted call a handler has called `iomem_malloc`; no
action is barred by it. Addresses are units of which `BlockSize` make a block.

**Trap** models nested traps on harts that share a PLIC. `stack[h]` holds a
frame per trap with what the handler saved (`mie`, threshold); the actions
`ExtEnter`, `ExtCheck`, `ExtClaim`, callback, `ExtComplete`, `ExtLeave` are the
parts of `handle_irq_m_ext` between which another interrupt or hart can act,
`Timer*` and `Soft*` those of the CLINT's handlers. `EnableRead` and
`EnableWrite` are the two halves of `plic_irq_enable`. PLIC, CLINT and the trap
rules of the hart are hardware, modelled from the register descriptions in the
headers and marked external.

**Dmac** has the DMA driver's operations as parts of steps; **SpiDma** and
**Kpu** extend it and say what else changes with each.

**SpiDma** models one SPI device used from several harts: `Call`, `Lock`, `Set`
... are `spi_handle_data_dma` in order, `Entry` ... `Read` are
`dmac_irq_callback` followed by `spi_dma_irq`. The kinds are those that use
channels and interrupts differently (transmit, receive, both with the receive
channel's interrupt, both with the transmit channel's). Data is a ghost:
`copied` says whose received data has reached the caller.

**Accelerator** is the promise of `kpu.h`: one job at a time, refused only for
another one, called back in the end. **Kpu** models the three interfaces over
the DMA channel and the accelerator's interrupt: `Push`/`Count` are the layer
FIFO, `AiStep`, `Conv`, `Send` the layer by layer interpreter of a kmodel.
Layers are kinds (`conv`, `out`, `cpu`), results are the sequence of layers
applied, so a layer skipped, repeated or applied to another job's data shows.
`off` has the harts that `ai_step_not_isr` runs on with interrupts disabled,
`Leave` its return or that of a handler. `aion` and `handler` are the
accelerator's interrupt at the PLIC of each hart.

What Kpu takes from the hardware and from callers: "FIFO empty" is raised when
the last queued layer is taken, "calculated" no later than the end of the DMA
it starts; at equal priority the lower interrupt number is claimed first (25,
the accelerator, before the DMA's); an interrupt that is enabled and pending is
taken before the interrupted code's next step; a callback asks for another job
only when the call that asked for its own job has returned (else the unmask of
`kpu.c:266` hits the next job); and jobs of different interfaces do not overlap
(they share no busy flag). Each assumption is a guard with a comment.

**Rtc** models the clock's interrupt: `ctrl` is `interrupt_ctrl`, `installed` and
`byAlarm` the two halves of `rtc_instance`, `isr` the place in the handler. The calls that register run with
the interrupt disabled and are one step; those that unregister read and write
back the control word with the interrupt enabled, a step each. `Alarm` and
`Tick` are the two parts of the handler. `want`, `due`, `rang` are ghosts: what
callers asked for, what must ring this second, what has. An interrupt is taken
within its second and a second does not divide a call that registers, though
`plic_irq_enable` (`rtc.c:741`, `rtc.c:806`) precedes its last read-modify-writes
of `interrupt_ctrl`. The calls are the threads': a callback of the clock that
registers or unregisters itself is not modelled. The header does not forbid it,
and the code does not bear it everywhere: an alarm that a tick's callback
registers while a thread is between `rtc.c:750` and `rtc.c:752` loses its
interrupt.

**Timer** models one hart's timers: `instance` is `timer_instance`,
`registered` the PLIC's `ctx` per interrupt, `at` and `local` the place and the
locals of each interrupt's handler, which a handler of higher priority may
preempt between any two of `Call`, `Scan`, `Callback`, `After`, `Eoi`. The
instance and the channel's status are read once in `Call`, the callback's pointer once in `Scan`
and once in `Callback`, the `single_shot` flag after the callback, as in the
code. `Call` is one step for `timer.c:283` to 285: a more urgent handler that
zeroes the instance between these reads would have a part served of which only
the device is its own (in the run it is the same part). The thread and callbacks
make the calls; ghosts keep what each channel was
last asked (`asked`) and how often a single shot rang (`rings`).

**SpiSlave** models `spi_slave_cs_irq` with the idle, command and transfer
modes, against a master on another chip. The FIFOs hold parts of frames with
their number of items; memory holds, per address, the transaction that wrote it
last, or `Torn`. The master obeys the ready pin; its command frames may be
damaged or short, its data frames lack items, and `MaxHasty` times it gives up
before the slave has answered.

**Dhcp** models `DHCP_run` and its main loop against servers over a network that
loses and delays messages. A message is its type, address and server. Each
disjunct of `DHCP_run` is a case of its `switch`; `parseDHCPMSG` overwrites lease
time and server whatever the state, as the code does. `bound[s]` is the server's
view of the lease in seconds, `Tick` a second for everybody. When the chip is
reset after a conflict, any first part of what each server has sent is lost, and
all that was under way too long (`Unread`).

## 3. Runs

| run | instance | shows |
|---|---|---|
| `corelock` | 3 harts, nesting 2, any may unlock wrongly | exclusion, refinement of RecMutex; waiters let the holder out and never wait for nobody |
| `semaphore` | 3 harts, amounts 1 and 2, start 1, 3 signalled | count exact; enough for a waiter is given to it |
| `reculock` | 2 harts, 2 locks (nesting 2 and 1), 2 slots | a mutex per lock, exact table without leaks; progress when locks are held one at a time |
| `iomem` | 2 threads on 2 harts, 2 nested interrupts on one of them, all free and allocate, 3 blocks and the table | disjoint blocks, exact tags, heap and I/O memory apart, but for the two windows; the scan finds every free run |
| `trap` | 2 harts, 2 priorities, timer, IPIs | bounded nesting, gateways reopen, requests and IPIs served |
| `trap_shared` | 2 harts that share 2 sources, callbacks that disable, a timer | no source handled twice at once; the thread gets its state back |
| `spi_dma` | 2 harts, 3 transfers of all kinds | one transfer at a time, data delivered, buffers freed, callbacks come, and once |
| `kpu` | 1 hart, 3 jobs out of 7 networks, burst 2 | each result right, refinement of Accelerator |
| `rtc` | base 2 (a cycle of 16 seconds), ticks of 3 periods, alarms of 3 masks | both clients ring on time and only then |
| `timer` | 3 channels on both interrupts of a device, a single shot, all calls from thread and callbacks | single shots ring once, channels are as last asked, every expiry is answered, an unregistered channel leaves its sibling alone |
| `spi_slave` | one transaction of each command, all kinds of damage, 2 hasty ones | transactions take place, only their data is written, and each side ends idle |
| `dhcp` | 2 servers with different leases, messages lost, refusals, conflicts | leases renewed in time, at most 2 unasked messages a second, always a lease again |

Why the bounds suffice for what is asked. Three harts (the chip has two) let
two waiters compete while a third holds. Two slots and two locks fill the
table; a lock that finds it full goes to `show_error` (`LeaveExit`), which does not
return. A request of nothing is refused, blocks of one and two cells separate and
join, and three cells admit a hole between two blocks; of two interrupts of
different priorities one can meet the other between any two of its accesses. The
`iomem` run does not go on from a state in which a handler has allocated in one
of the windows (`BeforeWindows`), though it checks that state. After the tags'
window no property claims anything; what `Disjoint`, `TagsExact` and
`FailsOnlyWhenFull` say of the time after the line's window is the proofs'
(with one interrupt, memory for four blocks and the constraint on the tags'
window alone, TLC confirms it, too). Two priorities give every
shape of nesting that more would repeat; three frames on each stack, in
`trap_shared`, a timer's under two external ones, or a claim of 0 between two. Three transfers give one that is
running, one that waits and one that a callback starts. A burst of 2 with
networks of 1 to 5 layers gives less than a burst, exactly one and more. Base 2
makes every carry from seconds to days happen within 16 steps, and the tick
periods 0, 1 and 3 lie below, at and above the alarms' periods. Three channels
of one device give a pair on one interrupt and a single user of the other, so
that unregistering meets both answers of the test in `timer.c:353`. Two hasty
transactions in a row put the slave a phase behind and let it come back. In
`dhcp`, timeout and leases are scaled down (2 seconds, 1 retry) to the shortest
leases that satisfy `LeaseAssumption`, messages arrive within the second they
are sent in and two may queue each way: enough for stale answers of one server
to meet the other's exchange; with one server the module can be run with the
code's own constants (10 and 2) and messages two seconds under way. Every action of
every module is taken in some run.

`CHECK_DEADLOCK FALSE` is set where the system may stop: a stray unlock ends its
hart, a heap that meets the I/O memory hangs, or all the transfers or jobs the
bound allows are over. `semaphore`, `trap`, `rtc` and `dhcp` are checked for deadlock.

Exceptions written into properties. Each names a case the code does not handle,
so that the property says what does hold beside it:
`Iomem!nested` (a handler that allocates where the interrupted call cannot bear it),
`SpiDma!Undisturbed` (a call without callback unlocks before it disables the
device), the `long` transfers in `Delivered` and `BuffersFreed` (one channel's
context overwritten), `Rtc!cut` (a single-shot tick stops the interrupt an alarm
needs) and `Rtc!Stopped` (seconds during a change of period), `Reculock!OneAtATime`
(slot 0's counter), `SpiDma!SelfWait` (two deadlocks of a hart with itself),
`Timer`'s `lost`, `OwnHandler`, `AllRouted` and `NoNullCall`, one missing item in
`SpiSlave!OnlyData`, `giver # ip` in `Dhcp!LeaseHeld`. The hazards list has each at its line.

## 4. Fairness

A hart keeps executing: weak fairness of the steps of a call or handler that is
under way (`Step`, `Caller`, `Handler`), never of making a call. The locks spin
on an atomic swap. Where waiters keep taking and giving back the word
(`Semaphore`, `Reculock`, the SPI lock), taking it is strongly fair: it is free
again and again, and the memory system does not refuse one hart for ever.
`CoreLock` needs no such assumption and promises only that some hart gets the
lock. `Reculock` assumes two things more, and says so beside `Fairness`: a
caller gives back what it holds, and the load that polls slot 0's counter does
not always fall in the moments in which another hart holds slot 0's lock.
Hardware that finishes what it was given (DMA, accelerator, PLIC) is weakly
fair. In `Timer` handlers are strongly fair: they take less time than the timers'
periods, so that one that is preempted again and again comes to its end. The
master of `SpiSlave` goes on and not all of its command frames are damaged. In
`Dhcp` the main loop and the clock go on, what has come is read and servers
answer; that not everything is lost or refused is part of `LeasedAgain` itself.
In `Trap` nothing says that interrupts ever stop coming: `IpiSeen` and
`Served` are claimed for runs in which more urgent interrupts do stop.

## 5. Proofs

Each theorem holds for every value of the constants. The argument is the same
throughout: an inductive invariant (`Init => IInv`, `IInv /\ [Next]_vars =>
IInv'`) that implies the property. What the invariants add to the properties is
said below: it is where the reason why the code is right can be read.

- **AtomicProofs**, `corelock_t`: `TypeCorrect`, `Exclusion`, `LevelsAgree` and
  `Refinement` (CoreLock implements RecMutex), for any set of harts, any depth,
  stray unlocks included. Exclusion is not inductive by itself: `Accounting` says
  that `count` and `core` agree with what each caller was granted, a level in
  the hands of a call that has not returned counted as `Pending`; `WordGuards`
  that the word is taken exactly while one hart is inside; `LastOut` that nobody
  gets the lock between the last decrement and the return of the word.
  `semaphore_t`: `NothingLost` (`Conservation`) and `CountCorrect` (the count is
  never negative), for any harts and amounts. `FreshRead` is the strengthening:
  what a hart is about to write is based on the present count.
- **ReculockProofs**: `TypeCorrect`, `TableRight` (`TableAgrees`) and
  `Refinement` (`EachIsRecMutex`), for any harts, locks and slots, stray releases
  included. `OneSlot`: no lock has two slots. `Levels` and `NoLevels`: a slot's
  core and counter are what callers hold, up to the level a call is about to
  return (`Gain`). `Mine`: the slot a call has found stays its lock's while the
  call works on it, the reason being `WordGuards` and, around the search for a
  free slot, `MutexGuards`. `Fresh` accounts for slots without a level.
- **IomemProofs**: `BlocksDisjoint`, `TagsRight`, `HeapBelow` and `FailsRight`
  for any memory and block size, any harts and any nested interrupts that free
  and allocate, each until a handler allocates in a window (`nested`: the tags'
  for all, the line's for `HeapBelow` only); `TypeCorrect` up to the tags' window.
  Every agent owns cells (`Lo` to `Hi`): the block it makes or frees, or the run
  it has counted. `Separate` says that no two of these, nor one of them and a
  live block, overlap; `Tags` which tag has been written when; `Lines` where the
  two lines are at each point of `iomem_malloc` and `iomem_free`, and that
  somebody who looks is still to come when they have crossed; `Turns` and
  `LockInv` who can be in the middle of a call at all. `Order` is where the
  exception is needed: if somebody is in a window while another call is inside
  `iomem_malloc`, the one in the window has interrupted the other and ends
  first, so an interrupted scan's knowledge is not changed under it. The
  invariant therefore reads `Sound => ...`, and `Level => Lines` within it.
  `FailsRight` is about harts whose interrupts do not use the allocator: there
  `Passed` says that what a scan has left behind cannot hold the request.
- **TrapProofs**: `NeverTwice` (`NoReentry`) without any assumption on callbacks
  and threads; `GatesReopen` for callbacks that do not disable a source;
  `StacksBounded` for harts with sources of their own (`Private`) and callbacks
  that do not start the timer; `RestoresAll` (`Restored`) for callbacks that do
  not start or stop the timer, shared sources included; `TypeCorrect`.
  `Once` with `Held` ties each frame that runs a source to its gateway;
  `Attended` gives a closed gateway its frame; `Shape` and `Rises` say which
  frames can lie on which and that thresholds rise along the stack; `Kept` that
  what each frame saved is what the frame under it runs with. The hypotheses are
  where section 6 has an exception, and each is that of the run that checks the
  property.
- **SpiProofs**, SPI master: `WorksForOne` (`OneTransfer`), `DataArrives`
  (`Delivered`), `BuffersComeBack` (`BuffersFreed`), `CalledOnce` (`CallbackOnce`)
  and `TypeCorrect`, for any harts, uses of the device and number of transfers. Two
  invariants: `Locked`, of the lock, the registration and the handler, holds
  whatever the device does; `Sound`, of the channels and bounce buffers, holds
  until a call disables the device under another's transfer (`Undisturbed`).
  `CalledOnce` holds even then, if one hart passes callbacks (`OneCaller`).
  SPI slave: `DoneIsDone` (the action property `TookPlace`), `WritesOnlyData`
  (`OnlyData`) and `SlaveTypeCorrect`, for any commands, lengths, damage and
  number of hasty transactions. `Phases` says what each mode of the slave finds in
  the FIFO, and that the command it has accepted is one that a master meant;
  `Waits` that while the master waits only its present command can have been
  accepted, or come to be; `Ends` where the items of a complete data frame are
  until they are in memory, or with the master. The three are inductive together
  (`InStep`).
- **ClockProofs**, real time clock: all of Rtc's safety: `AlwaysFineEnough`
  (`FineEnough`), `RingsAsAsked` (`CalledAsAsked`), `RingsOnTime` (`OnTime`) and
  `RtcTypeCorrect`, for any base, ticks and alarms. Between calls the programmed
  period serves both clients; to carry that through the calls and handlers,
  `TickKept` and `AlarmKept` tie what is asked for to what `rtc_instance`
  remembers, `PeriodKept` follows the period through the copies of the control
  word that are read and written back, and `AlarmStaysOff` says that no handler
  changes the word once the alarm's bit is off, so that the copies are not stale
  where it matters. `NotRung` and `AlarmAsked` do the same for what may ring, and
  `ToCome` says that what is due and has not rung has its interrupt pending or
  its handler before it; for that, a coarse period's seconds are proved to be
  among a finer one's.
  Timers: `RingsOnce` (`SingleShotOnce`), `LastAsked` (`AsAsked`), `SiblingKept`
  (the action property `KeepsSibling`) and `TypeCorrect`, for any channels and
  priorities. `Instances`: an instance is its own or zeroed. `Serving`: a handler
  serves its own part or, from a zeroed instance, part A of device 0. `Asking`
  says how being on, the last call and a single shot that is ringing go
  together. `Fresh`: a single shot that a handler has yet to look at has not rung
  since its start, which is false of channels that another part's handler can
  serve; `OwnHandler` excepts those (section 6).
- **KpuProofs**: `ResultsRight` (`ResultRight`), `RunsAsPromised` (the safety part
  of `ImplementsAccelerator`: initial states and steps of Kpu are initial states
  and steps, or stutters, of Accelerator) and `KpuTypeCorrect`, for any jobs, any
  kinds and numbers of layers, interfaces that take turns (section 2) and any
  `LAYER_BURST_SIZE`.
  The hypothesis `OneHart` says that one hart has the accelerator, whose thread and
  two handlers preempt each other. It cannot be dropped: with two harts
  `kpu_run_all_done` calls back the wrong job (section 6). The invariant follows
  the layers: `Flow(i, n)` says that AI memory, the output that waits for the
  DMA, the layer in work and the FIFO are together job i's input and its first n
  layers in order, so that no layer can be lost or doubled between any two of
  these places. `AtPlace` says, for each place in the code, what whoever is there
  relies on: a call that starts a job finds accelerator, channel and flags at rest
  (`Begins`); the channel for the output is armed before the first layer is pushed
  (`Opens`); a burst is counted with the layers already on their way, and a thread
  that is late at `kpu_data_ready`'s unmask finds its job over, not another one
  (`Feeds`, `Late`); whoever is in `ai_step` has the accelerator to itself
  (`Layered`). `Waiting` says of a job nobody works for which interrupt it waits
  for, `Nesting` who can preempt whom where, `Callers` how the busy flags, the
  jobs asked for and the running one agree. `Rest` says that nothing of a job is
  left when it ends, with one exception the code lives with: the accelerator's
  last interrupt for `kpu_start` may come when the job is over (`AfterLast`), and
  then finds no layers left to push.
- **DhcpProofs**: `SendsLittle` (`Paced`), `NeverExpired` (`LeaseHeld`) and
  `TypeCorrect`, for any servers, lease times, waits, retries and channels.
  `Pacing` counts what may still be sent in this second (`Left`): each message
  nobody asked for starts the wait anew. `Leasing` is an account of time: an ACK
  under way is no older than the time gone from the lease (`Granted`), LEASED
  lasts at most half of any lease (`Keeping`), and REREQUEST has time for
  the retries that are left (`Remaining`); `LeaseAssumption` is what makes the
  sums come out. `NeverExpired` assumes messages less than two seconds under
  way, so that a DECLINE is there before the client asks anew (`Declines`); with
  slower ones it is false (section 6).

Assumptions: those the modules name (`HartAssumption`, `TimeAssumption`, ...),
which TLC evaluates in the runs, and the hypotheses given above, each stated in
the theorem itself.

Only model-checked: all liveness (fairness and ENABLED are out of the prover's
reach): `SomeoneGetsIt`, `EnoughIsServed`, `IpiSeen`, `LeasedAgain` and their
like, and the fair part of `ImplementsAccelerator`, that an accepted job is
called back in the end. Of safety, everything the runs check is proved. No module
has RECURSIVE operators.

## 6. What the code does not do

Met while modelling: each is a case in which a caller does not get what the
header or common sense promises. The properties except exactly these cases, and
fail without the exception.

- I/O memory: the recursive lock lets a handler of the same hart allocate in the
  middle of an interrupted call, and the SDK's own handlers do: `kpu_data_ready`
  and `kpu_run_dma_input_done_push_layers` start transfers (`kpu.c:241`,
  `kpu.c:102`), which allocate bounce buffers (`dmac.c:368`). Between the first
  look at the table and the last tag of `k_malloc` (`iomem.c:83` to 104) both
  callers get the same cells: the same block twice, or two that overlap with
  mixed tags; likewise between the two tags of `k_free` (`iomem.c:123`), whose
  second store hits a tag of the handler's block. Between the look at `_ioheap_line` and its
  store (`iomem.c:160` to 162, 126 to 128) the line ends above the handler's
  block, and `sys_brk` takes the block for the heap; between 162 and 171 an
  interrupted call that has crossed the heap leaves the line where the handler
  gets memory of the heap. These are the two `Windows`; without any one place of
  them TLC finds `Disjoint`, `TagsExact` or `HeapBelowBlocks` violated (for
  `m_jump` in a memory of five blocks). The models of the DMA's users take
  bounce buffers to be disjoint, that is, they are for runs without this.
- Timer interrupt: `clint_timer_start` and `clint_timer_stop` called from a
  callback return 0 and are undone when the handler writes back the `mie` it
  saved (`plic.c:203`, `clint.c:233`) or ends a single shot (`clint.c:240`).
- SPI master: a transmission's DMA is started with its interrupt registered
  before `ser` selects the chip; an interrupt in between (`spi.c:1499`) waits for
  a FIFO that only the interrupted code can let empty. A callback that starts
  two transfers waits for the lock of its first, whose interrupt is masked until
  the callback returns.
- Accelerator: `kpu_run_all_done` gives the shared task back (`kpu.c:41`) before
  it reads the callback from it (`kpu.c:43`); with two harts the wrong job is
  called back. `kpu_run_kmodel` neither sets nor tests the busy flag
  (`kpu.c:339`).
- Timers: a single shot started again by its own callback is stopped
  (`timer.c:298`); one that its callback unregisters goes on expiring
  (`timer.c:299`); `timer_irq_unregister` of one channel takes the interrupt from
  the other three unless both pairs are in use, or leaves the handler with a
  zeroed instance, which stands for channels 0 and 1 of device 0
  (`timer.c:353`): that part's handler then serves them too, and as their own
  handler can preempt it between the callback and the disable (`timer.c:298`), a
  single shot rings twice after one start; a callback unregistered by a more urgent handler between the
  test and the call is a call through NULL (`timer.c:296`).
- SPI slave: a write with one item missing is taken as whole (`spi.c:1287`);
  with items wider than 8 bits no command is ever accepted (`spi.c:1367`).
- DHCP: the transaction number is not compared, so a late ACK of one server is
  taken for the answer of the other; the address in a renewal's ACK is not read,
  so `DHCP_IP_CHANGED` cannot happen (`dhcp.c:741`); the last retry is not waited
  for (`dhcp.c:790`), so with answers slower than the timeout the client never
  gets a lease; an ACK that was under way when the client declined its address is
  taken for the answer to its next request, if it took two seconds; after a NAK, or a renewal that failed, the chip keeps its old
  address until the search fails, too.

## 7. Not modelled

Boot (`crt.S`, `entry*.c`) and the memory order of the chip: the models take
plain stores in program order. Clock and divider arithmetic, formatting, and
drivers that only program registers (GPIO, FPIOA, PWM, DVP, AES, SHA-256, FFT,
APU, watchdog): one caller, no state that outlives a call, or numeric code that
a unit test reaches. The nncase interpreter, FatFs, the W5500's sockets and DNS, and
nt-shell are third-party code in the repository; the board demos are
initialisation sequences. Within the modelled components: pointers that were
never allocated (`k_free`), linked-list DMA, the polling SPI transfers, the
weekday of an RTC alarm (never compared by the code), the older single layer
calls of `kpu.c`.

## 8. Plan

The order was by how much depends on a component: locks, allocator, traps, DMA
and its users, then single drivers. Done: everything in section 2. Next:

1. **Misaligned** (`syscalls.c`): the emulated load and store as operators,
   compared with a reference decoding over small widths; 12-bit offsets.
2. UART, I2C and I2S transfers as further users of Dmac, of the shape of
   SpiDma; GPIOHS edge handlers.
3. Boot: `core_enable`, `plic_init` on both harts, the pending IPI.
4. `timer_set_irq`, the older interface of `timer.c`, beside the one modelled.
5. Proofs. Done: every safety property. Next: the safety of the abstract
   specifications below, once they are stated.

Smaller things met while reading, of components not modelled or outside a
model's scope, to take up with those modules: `uart.c:258` counts in a global
that both harts use; `uart.c:435` reads the callback after the unlock, as
`spi.c:100` does; an I2C abort (`i2c.c:288`) unlocks and never calls back;
`i2s.c:661` replaces callback and channel without a lock; `gpiohs.c:140` is a
read-modify-write shared by handlers; `wdt.c:84` enables before it registers;
`clint.c:257` undoes a `clint_ipi_disable` made by the callback; the arithmetic
of `clint.c:110`, `wdt.c:59` and the padding in `sha256.c:95` have boundaries;
`kpu.c:297` clears a buffer before testing the pointer; `rtc.c:615` takes the
time when the handler runs, and `rtc.c:620` ignores the weekday; `iomem.c:126`
leaves the line low after frees in another order; `dmac.c:879` leaves the
channel enabled at the PLIC.

Abstract specifications worth adding: an allocator of disjoint runs for Iomem,
a priority interrupt service for Trap.

## 9. How to run

`tlc -config CoreLock.cfg MCCoreLock.tla`, and likewise for the other runs with
the module and configuration `PROJECT.json` names; the longest takes a few
minutes. `tlapm AtomicProofs.tla` checks a module's proofs; each takes one to some ten
minutes (`KpuProofs` about eight).
