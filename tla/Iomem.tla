------------------------------- MODULE Iomem -------------------------------
(***************************************************************************)
(* The allocator of uncached (I/O) memory, lib/drivers/iomem.c, and the    *)
(* break of the ordinary heap, sys_brk in lib/bsp/syscalls.c.  The heap    *)
(* grows up from _heap_start, I/O blocks are placed from the top down, and *)
(* the two sides only meet in _heap_line and _ioheap_line, which each side *)
(* moves first and compares afterwards, without a common lock.             *)
(*                                                                         *)
(* A block is recorded by its length in the first and in the last cell of  *)
(* memmap.  The allocator runs under a recursive lock (Reculock.tla): it   *)
(* keeps other harts out, not a DMA interrupt of the same hart that calls  *)
(* iomem_free or iomem_malloc in the middle of a call (dmac_irq_callback   *)
(* frees bounce buffers; kpu_data_ready and callbacks that start transfers *)
(* allocate them).  The code is made for neither.  It bears the first; the *)
(* second it bears but for two windows, which `nested' remembers.          *)
(*                                                                         *)
(* Addresses are in units of which BlockSize make a block; every access to *)
(* a shared cell is a step.                                                *)
(***************************************************************************)
EXTENDS Integers, FiniteSets

CONSTANTS Threads, Isrs,    \* who runs: ordinary code, and interrupt handlers
          HartOf,           \* the hart of each
          NoHart,
          Priority,         \* of each interrupt: a higher one can interrupt a handler
          Top,              \* the initial _ioheap_line
          BlockSize,        \* IOMEM_BLOCK_SIZE
          TableCost,        \* heap taken by malloc(memtblsize * 2)
          Sizes,            \* arguments of iomem_malloc
          Breaks            \* arguments of sys_brk

ASSUME SizeAssumption == /\ Top \in Nat \ {0} /\ BlockSize \in Nat \ {0}
                         /\ TableCost \in Nat
                         /\ Sizes \subseteq Nat /\ Breaks \subseteq Nat
ASSUME AgentAssumption == Threads \cap Isrs = {}
\* one program on a hart
ASSUME HartAssumption == /\ IsFiniteSet(Threads \cup Isrs)
                         /\ \A s, t \in Threads : HartOf[s] = HartOf[t] => s = t
                         /\ \A a \in Threads \cup Isrs : HartOf[a] # NoHart
                         /\ Priority \in [Isrs -> Nat]

Agents == Threads \cup Isrs

VARIABLES heapline,     \* _heap_line
          ioline,       \* _ioheap_line
          base, memsize, ready,     \* membase, memsize, memrdy of malloc_cortol
          memmap,       \* malloc_cortol.memmap, all cells there could be
          owner, depth, \* the recursive lock of the allocator
          pc, off, x, k,    \* offset, xmemb (nmemb) and kmemb of each call
          live,         \* blocks in the hands of callers: <<first, length>>
          broken,       \* the highest break sys_brk has returned
          nested        \* the windows in which a handler has called iomem_malloc

control == <<base, memsize, ready>>
mutex == <<owner, depth>>
ghosts == <<live, broken, nested>>
vars == <<heapline, ioline, control, memmap, mutex, pc, off, x, k, ghosts>>

Cells == 0 .. Top \div BlockSize - 1
TblSize == memsize \div BlockSize               \* malloc_cortol.memtblsize
BlocksFor(size) == size \div BlockSize + (IF size % BlockSize = 0 THEN 0 ELSE 1)

MallocPCs == {"m_lock", "m_table", "m_clear", "m_scan", "m_jump", "m_tag1", "m_tag2",
              "m_line", "m_lower", "m_check", "m_hung", "m_done", "m_fail"}
FreePCs == {"f_lock", "f_read", "f_tag1", "f_tag2", "f_line", "f_raise", "f_done"}

\* Where a call cannot bear that a handler allocates: from its first look at
\* the table to its last tag, and between its look at _ioheap_line and what it
\* makes of that.
Windows == [tags |-> {"m_table", "m_clear", "m_scan", "m_jump", "m_tag1", "m_tag2", "f_tag2"},
            line |-> {"m_lower", "m_check", "m_hung", "f_line", "f_raise"}]

TypeOK == /\ heapline \in 0 .. Top /\ ioline \in Nat
          /\ "line" \notin nested => ioline <= Top
          /\ base \in 0 .. Top /\ memsize \in 0 .. Top - base /\ ready \in BOOLEAN
          /\ memmap \in [Cells -> 0 .. Top]
          /\ owner \in {HartOf[a] : a \in Agents} \cup {NoHart}
          /\ depth \in 0 .. Cardinality(Agents)
          /\ pc \in [Agents -> {"idle", "b_check", "b_hung"} \cup MallocPCs \cup FreePCs]
          /\ off \in [Agents -> -1 .. Top]
          /\ x \in [Agents -> Nat] /\ k \in [Agents -> Nat]
          /\ live \subseteq Cells \X (1 .. Top)
          /\ broken \in 0 .. Top
          /\ nested \subseteq DOMAIN Windows

Init == /\ heapline = 0 /\ ioline = Top /\ base = 0 /\ memsize = 0
        /\ ready = FALSE
        /\ memmap = [c \in Cells |-> 0]
        /\ owner = NoHart /\ depth = 0
        /\ pc = [a \in Agents |-> "idle"]
        /\ off = [a \in Agents |-> 0]
        /\ x = [a \in Agents |-> 0]
        /\ k = [a \in Agents |-> 0]
        /\ live = {}
        /\ broken = 0
        /\ nested = {}

-----------------------------------------------------------------------------
(***************************************************************************)
(* A handler runs to its end before the program, or the handler of a lower *)
(* priority, that it interrupted; the break is moved inside the ecall      *)
(* trap, with interrupts off.                                              *)
(***************************************************************************)
Busy(a) == pc[a] # "idle"
Rivals(a) == {i \in Isrs \ {a} : HartOf[i] = HartOf[a] /\ Busy(i)}

MayStep(a) == \A i \in Rivals(a) : a \in Isrs /\ Priority[i] < Priority[a]

MayStart(a) == /\ ~Busy(a)
               /\ MayStep(a)
               /\ a \in Isrs => \A t \in Threads :
                     HartOf[t] = HartOf[a] => pc[t] \notin {"b_check", "b_hung"}

At(a, p) == pc[a] = p /\ MayStep(a)
Goto(a, p) == pc' = [pc EXCEPT ![a] = p]

Lock(a) == /\ owner \in {NoHart, HartOf[a]}
           /\ owner' = HartOf[a]
           /\ depth' = depth + 1
Unlock == /\ depth' = depth - 1
          /\ owner' = IF depth = 1 THEN NoHart ELSE owner

Done(a) == /\ Goto(a, "idle")
           /\ off' = [off EXCEPT ![a] = 0]
           /\ x' = [x EXCEPT ![a] = 0]
           /\ k' = [k EXCEPT ![a] = 0]

-----------------------------------------------------------------------------
(***************************************************************************)
(* Plausible bugs.                                                         *)
(***************************************************************************)
\* k_malloc that skips a block by its length and not to its first cell
Jump_TooFar(a) == /\ At(a, "m_jump")
                  /\ off' = [off EXCEPT ![a] = IF @ - memmap[@] - 1 < -1 THEN -1
                                               ELSE @ - memmap[@] - 1]
                  /\ k' = [k EXCEPT ![a] = 0]
                  /\ Goto(a, "m_scan")
                  /\ UNCHANGED <<heapline, ioline, control, memmap, mutex, x, ghosts>>

\* k_malloc that keeps counting across a block
Jump_KeepsCount(a) == /\ At(a, "m_jump")
                      /\ off' = [off EXCEPT ![a] = @ - memmap[@]]
                      /\ Goto(a, "m_scan")
                      /\ UNCHANGED <<heapline, ioline, control, memmap, mutex, x, k, ghosts>>

\* k_free that clears only the first cell
Untag2_Skipped(a) == /\ At(a, "f_tag2")
                     /\ Goto(a, "f_line")
                     /\ UNCHANGED <<heapline, ioline, control, memmap, mutex, off, x, k, ghosts>>

\* sys_brk that compares before it moves _heap_line
BrkCheck_Skipped(a) == /\ At(a, "b_check")
                       /\ broken' = heapline
                       /\ Goto(a, "idle")
                       /\ UNCHANGED <<heapline, ioline, control, memmap, mutex, off, x, k, live, nested>>

-----------------------------------------------------------------------------
(***************************************************************************)
(* iomem_malloc and k_malloc.                                              *)
(***************************************************************************)
Malloc(a, size) == /\ MayStart(a)
                   /\ x' = [x EXCEPT ![a] = BlocksFor(size)]
                   /\ Goto(a, "m_lock")
                   /\ UNCHANGED <<heapline, ioline, control, memmap, mutex, off, k, ghosts>>

Begin(a) == Goto(a, IF x[a] = 0 THEN "m_fail" ELSE "m_scan")

\* the lock lets in a handler whose hart is in the middle of another call
MallocLock(a) == /\ At(a, "m_lock") /\ Lock(a)
                 /\ nested' = nested \cup {w \in DOMAIN Windows : \E c \in Agents : pc[c] \in Windows[w]}
                 /\ IF ready THEN Begin(a) /\ off' = [off EXCEPT ![a] = TblSize - 1]
                             ELSE Goto(a, "m_table") /\ UNCHANGED off
                 /\ UNCHANGED <<heapline, ioline, control, memmap, x, k, live, broken>>

\* iomem_init on the first call: the table comes out of the heap (a table that
\* does not fit hangs sys_brk), and what is then left between the two lines is
\* the I/O memory
Table(a) == /\ At(a, "m_table")
            /\ \A t \in Threads : pc[t] # "b_check"
            /\ heapline + TableCost <= ioline
            /\ heapline' = heapline + TableCost
            /\ broken' = heapline'
            /\ Goto(a, "m_clear")
            /\ UNCHANGED <<ioline, control, memmap, mutex, off, x, k, live, nested>>

Clear(a) == /\ At(a, "m_clear")
            /\ base' = heapline
            /\ memsize' = ioline - heapline
            /\ memmap' = [c \in Cells |-> 0]
            /\ ready' = TRUE
            /\ Begin(a)
            /\ off' = [off EXCEPT ![a] = TblSize' - 1]
            /\ UNCHANGED <<heapline, ioline, mutex, x, k, ghosts>>

\* one turn of the loop over memmap, from the top down
Scan(a) ==
    /\ At(a, "m_scan")
    /\ \/ /\ off[a] < 0
          /\ Goto(a, "m_fail")
          /\ UNCHANGED <<off, k>>
       \/ /\ off[a] >= 0 /\ memmap[off[a]] # 0
          /\ Goto(a, "m_jump")
          /\ UNCHANGED <<off, k>>
       \/ /\ off[a] >= 0 /\ memmap[off[a]] = 0
          /\ k' = [k EXCEPT ![a] = @ + 1]
          /\ IF k[a] + 1 = x[a]
               THEN Goto(a, "m_tag1") /\ UNCHANGED off
               ELSE off' = [off EXCEPT ![a] = @ - 1] /\ UNCHANGED pc
    /\ UNCHANGED <<heapline, ioline, control, memmap, mutex, x, ghosts>>

\* offset = offset - memmap[offset] + 1, with a second read of the cell,
\* and the offset-- of the loop
Jump(a) == /\ At(a, "m_jump")
           /\ off' = [off EXCEPT ![a] = @ - memmap[@]]
           /\ k' = [k EXCEPT ![a] = 0]
           /\ Goto(a, "m_scan")
           /\ UNCHANGED <<heapline, ioline, control, memmap, mutex, x, ghosts>>

Tag1(a) == /\ At(a, "m_tag1")
           /\ memmap' = [memmap EXCEPT ![off[a]] = x[a]]
           /\ Goto(a, "m_tag2")
           /\ UNCHANGED <<heapline, ioline, control, mutex, off, x, k, ghosts>>

Tag2(a) == /\ At(a, "m_tag2")
           /\ memmap' = [memmap EXCEPT ![off[a] + x[a] - 1] = x[a]]
           /\ Goto(a, "m_line")
           /\ UNCHANGED <<heapline, ioline, control, mutex, off, x, k, ghosts>>

Address(c) == base + c * BlockSize

MallocLine(a) == /\ At(a, "m_line")
                 /\ Goto(a, IF ioline > Address(off[a]) THEN "m_lower" ELSE "m_done")
                 /\ UNCHANGED <<heapline, ioline, control, memmap, mutex, off, x, k, ghosts>>

Lower(a) == /\ At(a, "m_lower")
            /\ ioline' = Address(off[a])
            /\ Goto(a, "m_check")
            /\ UNCHANGED <<heapline, control, memmap, mutex, off, x, k, ghosts>>

\* below the heap: while(1), with the lock
MallocCheck(a) == /\ At(a, "m_check")
                  /\ Goto(a, IF ioline < heapline THEN "m_hung" ELSE "m_done")
                  /\ UNCHANGED <<heapline, ioline, control, memmap, mutex, off, x, k, ghosts>>

MallocDone(a) == /\ At(a, "m_done") /\ Unlock
                 /\ live' = live \cup {<<off[a], x[a]>>}
                 /\ Done(a)
                 /\ UNCHANGED <<heapline, ioline, control, memmap, broken, nested>>

MallocFail(a) == /\ At(a, "m_fail") /\ Unlock
                 /\ Done(a)
                 /\ UNCHANGED <<heapline, ioline, control, memmap, ghosts>>

-----------------------------------------------------------------------------
(***************************************************************************)
(* iomem_free and k_free, of a block the caller has.                       *)
(***************************************************************************)
FreeCall(a, b) == /\ MayStart(a)
                  /\ live' = live \ {b}
                  /\ off' = [off EXCEPT ![a] = b[1]]
                  /\ Goto(a, "f_lock")
                  /\ UNCHANGED <<heapline, ioline, control, memmap, mutex, x, k, broken, nested>>

FreeLock(a) == /\ At(a, "f_lock") /\ Lock(a)
               /\ Goto(a, "f_read")
               /\ UNCHANGED <<heapline, ioline, control, memmap, off, x, k, ghosts>>

FreeRead(a) == /\ At(a, "f_read")
               /\ x' = [x EXCEPT ![a] = memmap[off[a]]]
               /\ Goto(a, "f_tag1")
               /\ UNCHANGED <<heapline, ioline, control, memmap, mutex, off, k, ghosts>>

Untag1(a) == /\ At(a, "f_tag1")
             /\ memmap' = [memmap EXCEPT ![off[a]] = 0]
             /\ Goto(a, "f_tag2")
             /\ UNCHANGED <<heapline, ioline, control, mutex, off, x, k, ghosts>>

Untag2(a) == /\ At(a, "f_tag2")
             /\ memmap' = [memmap EXCEPT ![off[a] + x[a] - 1] = 0]
             /\ Goto(a, "f_line")
             /\ UNCHANGED <<heapline, ioline, control, mutex, off, x, k, ghosts>>

FreeLine(a) == /\ At(a, "f_line")
               /\ Goto(a, IF ioline = Address(off[a]) THEN "f_raise" ELSE "f_done")
               /\ UNCHANGED <<heapline, ioline, control, memmap, mutex, off, x, k, ghosts>>

Raise(a) == /\ At(a, "f_raise")
            /\ ioline' = ioline + x[a] * BlockSize
            /\ Goto(a, "f_done")
            /\ UNCHANGED <<heapline, control, memmap, mutex, off, x, k, ghosts>>

FreeDone(a) == /\ At(a, "f_done") /\ Unlock
               /\ Done(a)
               /\ UNCHANGED <<heapline, ioline, control, memmap, ghosts>>

-----------------------------------------------------------------------------
(***************************************************************************)
(* sys_brk above _heap_line: move the line, then compare; a crossing hangs.*)
(* A break at or below _heap_line moves nothing that matters here.         *)
(***************************************************************************)
Brk(a, pos) == /\ a \in Threads /\ MayStart(a)
               /\ pos > heapline /\ pos <= Top
               /\ \A t \in Threads : pc[t] # "b_check"     \* newlib's malloc lock
               /\ heapline' = pos
               /\ Goto(a, "b_check")
               /\ UNCHANGED <<ioline, control, memmap, mutex, off, x, k, ghosts>>

BrkCheck(a) == /\ At(a, "b_check")
               /\ IF heapline > ioline
                    THEN Goto(a, "b_hung") /\ UNCHANGED broken
                    ELSE Goto(a, "idle") /\ broken' = heapline
               /\ UNCHANGED <<heapline, ioline, control, memmap, mutex, off, x, k, live, nested>>

-----------------------------------------------------------------------------
Calls(a) == \/ \E size \in Sizes : Malloc(a, size)
            \/ \E b \in live : FreeCall(a, b)
            \/ \E pos \in Breaks : Brk(a, pos)

MallocStep(a) == \/ MallocLock(a) \/ Table(a) \/ Clear(a) \/ Scan(a) \/ Jump(a) \/ Tag1(a) \/ Tag2(a)
                 \/ MallocLine(a) \/ Lower(a) \/ MallocCheck(a) \/ MallocDone(a) \/ MallocFail(a)

FreeStep(a) == \/ FreeLock(a) \/ FreeRead(a) \/ Untag1(a) \/ Untag2(a)
               \/ FreeLine(a) \/ Raise(a) \/ FreeDone(a)

Next == \E a \in Agents : Calls(a) \/ MallocStep(a) \/ FreeStep(a) \/ BrkCheck(a)

Spec == Init /\ [][Next]_vars

-----------------------------------------------------------------------------
(***************************************************************************)
(* Properties.                                                             *)
(***************************************************************************)
\* Blocks that are about to be in a caller's hands.
CellsOf(b) == b[1] .. b[1] + b[2] - 1
Apart(b, c) == CellsOf(b) \cap CellsOf(c) = {}
Grants(a) == pc[a] \in {"m_line", "m_lower", "m_check", "m_done"}
Block(a) == <<off[a], x[a]>>
Granted == live \cup {Block(a) : a \in {b \in Agents : Grants(b)}}

\* No two callers share a cell, and no block leaves the I/O memory: whoever
\* frees and allocates in the handlers of whichever hart, until a handler
\* allocates while an interrupted k_malloc is between line 83 and line 104 of
\* iomem.c, or a k_free between its two tags.  A block being granted is compared
\* with all that are live, the same one included: it is nobody's yet.
Disjoint == "tags" \notin nested =>
    /\ \A b, c \in live : b # c => Apart(b, c)
    /\ \A a \in Agents : Grants(a) => \A b \in live : Apart(Block(a), b)
    /\ \A a, b \in Agents : a # b /\ Grants(a) /\ Grants(b) => Apart(Block(a), Block(b))
    /\ \A b \in Granted : CellsOf(b) \subseteq 0 .. TblSize - 1

\* Until then, whenever nobody is inside the allocator or on the way to free,
\* the tags are exactly the ends of the blocks that callers hold.
TagsExact ==
    /\ "tags" \notin nested
    /\ \A a \in Agents : pc[a] \in {"idle", "b_check", "b_hung", "m_lock"}
    => \A c \in Cells :
         memmap[c] = IF \E b \in live : c \in {b[1], b[1] + b[2] - 1}
                     THEN (CHOOSE b \in live : c \in {b[1], b[1] + b[2] - 1})[2]
                     ELSE 0

\* The two sides, which share no lock, never both get the same memory: the
\* heap that sys_brk has granted ends below every I/O block that iomem_malloc
\* has granted.  So until a handler allocates in either window: one that does
\* between line 160 and line 162, or 126 and 128, has the line lifted over its
\* block by the interrupted call, and one that does between 162 and 171, when
\* the interrupted call has crossed the heap, gets memory of the heap.
HeapBelowBlocks == nested = {} => \A b \in live : broken <= Address(b[1])

\* On a hart whose interrupts do not use the allocator, iomem_malloc says NULL
\* only if no run of free blocks is long enough.  (Where they free in between,
\* a run may become free behind the scan.)
FailsOnlyWhenFull == "tags" \notin nested => \A a \in Agents :
    pc[a] = "m_fail" /\ x[a] > 0 /\ (\A i \in Isrs : HartOf[i] # HartOf[a]) =>
      ~\E c \in 0 .. TblSize - x[a] :
          \A b \in Granted \cup {<<off[f], memmap[off[f]]>> : f \in {g \in Agents : pc[g] = "f_lock"}} :
            Apart(b, <<c, x[a]>>)
=============================================================================
