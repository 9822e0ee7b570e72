----------------------------- MODULE IomemProofs -----------------------------
(***************************************************************************)
(* Proofs about the allocator of I/O memory, for any harts, any interrupts *)
(* of any priorities that free and allocate, any size of the memory, of    *)
(* its blocks and of the requests.                                         *)
(***************************************************************************)
EXTENDS Iomem, FiniteSetTheorems, TLAPS

USE DEF control, mutex, ghosts

-----------------------------------------------------------------------------
(***************************************************************************)
(* The inductive invariant.                                                *)
(***************************************************************************)
\* What nested says has not happened yet.
Sound == "tags" \notin nested
Level == "line" \notin nested

Scanning(a) == pc[a] \in {"m_scan", "m_jump"}
Stuck(a) == pc[a] = "m_hung"
Reading(a) == pc[a] \in {"f_lock", "f_read"}
Placed(a) == pc[a] \in {"m_line", "m_lower", "m_check", "m_done"} \/ Stuck(a)
Tagged(a) == Placed(a) \/ Reading(a) \/ pc[a] = "f_tag1"

\* a is between taking and giving back the allocator's lock
Holding(a) == pc[a] \in (MallocPCs \cup FreePCs) \ {"m_lock", "f_lock"}

\* The lock is taken once by each of those, who are on one hart: its program
\* and the handlers that interrupted it and each other.
Holders == {a \in Agents : Holding(a)}
LockInv ==
    /\ \A a \in Agents : Holding(a) => owner = HartOf[a]
    /\ owner = NoHart <=> depth = 0
    /\ depth = Cardinality(Holders)

\* What each kind of agent does, and what a call knows.
Turn(a) ==
    /\ a \in Isrs => pc[a] \notin {"b_check", "b_hung"}
    /\ pc[a] \in {"idle", "b_check", "m_lock", "m_table", "m_clear"} => k[a] = 0
    /\ pc[a] \in FreePCs \cup (MallocPCs \ {"m_lock", "m_table", "m_clear"}) => ready
    /\ pc[a] \in {"m_table", "m_clear"} => ~ready
    /\ Scanning(a) => k[a] < x[a]
    /\ pc[a] = "m_jump" => off[a] >= 0
    /\ pc[a] \in {"m_tag1", "m_tag2"} \/ Placed(a) => x[a] > 0
    /\ pc[a] \in {"f_tag1", "f_tag2", "f_line", "f_raise"} => x[a] > 0
Turns == /\ \A a \in Agents : Turn(a)
         /\ \A i \in Isrs, t \in Threads :
              HartOf[i] = HartOf[t] /\ Busy(i) => pc[t] \notin {"b_check", "b_hung"}

\* Whoever is in a window while another is inside iomem_malloc has interrupted
\* it: the other way round is what nested would tell of.
Inside(a) == pc[a] \in MallocPCs \ {"m_lock"}
InWindow(a) == pc[a] \in Windows["tags"] \/ (Level /\ pc[a] \in Windows["line"])
Above(a, b) == /\ a \in Isrs /\ HartOf[a] = HartOf[b]
               /\ b \in Isrs => Priority[b] < Priority[a]
Order == \A a, b \in Agents : a # b /\ InWindow(a) /\ Inside(b) => Above(a, b)

\* The memory before iomem_init is done.
Fresh == ~ready => live = {} /\ ioline = Top /\ \A c \in Cells : memmap[c] = 0

\* The cells an agent has to itself, from Lo to before Hi: the block it makes
\* or frees, or the run it has counted so far.
\* (Who frees has its cells until it has looked at the line.)
Claims(a) == Scanning(a) \/ Reading(a) \/ Placed(a)
             \/ pc[a] \in {"m_tag1", "m_tag2", "f_tag1", "f_tag2"}
             \/ (Level /\ pc[a] \in {"f_line", "f_raise"})
Lo(a) == IF Scanning(a) THEN off[a] + 1 ELSE off[a]
Hi(a) == IF Scanning(a) THEN off[a] + k[a] + 1
         ELSE IF Reading(a) THEN off[a] + memmap[off[a]]
         ELSE off[a] + x[a]

Within(lo, hi) == 0 <= lo /\ lo <= hi /\ hi <= TblSize
Bounds == /\ \A b \in live : Within(b[1], b[1] + b[2]) /\ b[2] > 0
          /\ \A a \in Agents : Claims(a) =>
              /\ Within(Lo(a), Hi(a))
              /\ ~Scanning(a) => off[a] \in 0 .. TblSize - 1 /\ Lo(a) < Hi(a)

Beside(lo1, hi1, lo2, hi2) == hi1 <= lo2 \/ hi2 <= lo1
Separate ==
         /\ \A b, c \in live : b # c => Beside(b[1], b[1] + b[2], c[1], c[1] + c[2])
         /\ \A a \in Agents, b \in live : Claims(a) => Beside(Lo(a), Hi(a), b[1], b[1] + b[2])
         /\ \A a, b \in Agents : a # b /\ Claims(a) /\ Claims(b) => Beside(Lo(a), Hi(a), Lo(b), Hi(b))

\* Which tags are written: the ends of the blocks that are live, or nearly.
HasFirst(a) == Tagged(a) \/ pc[a] = "m_tag2"
HasLast(a) == Tagged(a) \/ (pc[a] = "f_tag2" /\ x[a] > 1)
Length(a) == Hi(a) - Lo(a)
Tags == /\ \A b \in live : memmap[b[1]] = b[2] /\ memmap[b[1] + b[2] - 1] = b[2]
        /\ \A a \in Agents : HasFirst(a) => memmap[off[a]] = Length(a)
        /\ \A a \in Agents : HasLast(a) => memmap[Hi(a) - 1] = Length(a)
        /\ \A c \in Cells : memmap[c] # 0 =>
             \/ \E b \in live : c = b[1] \/ c = b[1] + b[2] - 1
             \/ \E a \in Agents : (HasFirst(a) /\ c = off[a]) \/ (HasLast(a) /\ c = Hi(a) - 1)

\* Where the lines are.
Lowered(a) == Reading(a) \/ Stuck(a)
              \/ pc[a] \in {"m_check", "m_done", "f_tag1", "f_tag2", "f_line", "f_raise"}
Lines == /\ \A b \in live : ioline <= Address(b[1]) /\ broken <= Address(b[1])
         /\ \A a \in Agents : Lowered(a) => ioline <= Address(off[a])
         /\ \A a \in Agents : pc[a] = "m_lower" => ioline > Address(off[a])
         /\ \A a \in Agents : pc[a] = "f_raise" => ioline = Address(off[a])
         /\ \A a \in Agents : pc[a] = "m_done" => broken <= Address(off[a])
         /\ broken <= heapline
         /\ (\A a \in Agents : pc[a] # "m_check" /\ ~Stuck(a)) => broken <= ioline

\* What a scan has passed cannot hold the request.
Quiet(a) == \A i \in Isrs : HartOf[i] # HartOf[a]
Taken(c) == \/ \E b \in live : b[1] <= c /\ c < b[1] + b[2]
            \/ \E a \in Agents : Claims(a) /\ ~Scanning(a) /\ Lo(a) <= c /\ c < Hi(a)
Full(a) == \A c \in off[a] + 1 .. TblSize - x[a] : \E d \in c .. c + x[a] - 1 : Taken(d)
Behind(g) ==
    /\ Scanning(g) => Full(g) /\ (off[g] + k[g] + 1 = TblSize \/ Taken(off[g] + k[g] + 1))
    /\ pc[g] = "m_jump" => memmap[off[g]] # 0
    /\ pc[g] = "m_fail" /\ x[g] > 0 => off[g] < 0 /\ Full(g)
Passed == \A a \in Agents : Quiet(a) => Behind(a)

\* So much holds until a handler has spoilt the table; the lines are right
\* until one has spoilt them.
IInv == Sound => /\ TypeOK /\ LockInv /\ Turns /\ Order /\ Fresh
                 /\ Bounds /\ Separate /\ Tags /\ Passed
                 /\ Level => Lines

-----------------------------------------------------------------------------
(***************************************************************************)
(* Cells and addresses.                                                    *)
(***************************************************************************)
LEMMA DivFacts ==
    ASSUME NEW n \in Nat, NEW d \in Nat \ {0}
    PROVE  n \div d \in Nat /\ d * (n \div d) <= n /\ n \div d <= n
  OBVIOUS
LEMMA DivMono ==
    ASSUME NEW m \in Nat, NEW n \in Nat, m <= n, NEW d \in Nat \ {0}
    PROVE  m \div d <= n \div d
  OBVIOUS

LEMMA TableFits ==
    ASSUME TypeOK
    PROVE  /\ TblSize \in Nat /\ TblSize <= Top
           /\ \A c \in 0 .. TblSize - 1 : c \in Cells
           /\ BlockSize * TblSize <= Top - base
  <1>1. memsize \in Nat /\ memsize <= Top - base /\ memsize <= Top /\ Top \in Nat /\ base \in Nat
    BY SizeAssumption DEF TypeOK
  <1>2. TblSize \in Nat /\ BlockSize * TblSize <= memsize /\ TblSize <= memsize
    BY <1>1, SizeAssumption, DivFacts DEF TblSize
  <1>3. TblSize <= Top \div BlockSize /\ Top \div BlockSize \in Nat
    BY <1>1, SizeAssumption, DivMono, DivFacts DEF TblSize
  <1>4. BlockSize * TblSize \in Nat BY <1>2, SizeAssumption
  <1>5. BlockSize * TblSize <= Top - base /\ TblSize <= Top
    <2> HIDE DEF TblSize
    <2> QED BY <1>1, <1>2, <1>4
  <1> HIDE DEF TblSize
  <1> QED BY <1>2, <1>3, <1>5 DEF Cells

LEMMA Addresses ==
    ASSUME TypeOK
    PROVE  /\ \A c \in 0 .. TblSize : Address(c) \in 0 .. Top
           /\ \A c, d \in Int : Address(c) < Address(d) <=> c < d
           /\ \A c, n \in Int : Address(c) + n * BlockSize = Address(c + n)
  <1>1. base \in Nat /\ Top \in Nat /\ BlockSize \in Nat /\ BlockSize > 0 /\ TblSize \in Nat
        /\ BlockSize * TblSize <= Top - base
    BY SizeAssumption, TableFits DEF TypeOK
  <1>2. ASSUME NEW c \in 0 .. TblSize PROVE Address(c) \in 0 .. Top
    <2>1. c * BlockSize \in Nat BY <1>1
    <2>2. c * BlockSize <= TblSize * BlockSize BY <1>1
    <2> QED BY <1>1, <2>1, <2>2 DEF Address
  <1>3. ASSUME NEW c \in Int, NEW d \in Int PROVE Address(c) < Address(d) <=> c < d
    <2>1. c < d => c * BlockSize < d * BlockSize BY <1>1
    <2>2. d <= c => d * BlockSize <= c * BlockSize BY <1>1
    <2>3. c * BlockSize \in Int /\ d * BlockSize \in Int BY <1>1
    <2> QED BY <1>1, <2>1, <2>2, <2>3 DEF Address
  <1>4. ASSUME NEW c \in Int, NEW n \in Int PROVE Address(c) + n * BlockSize = Address(c + n)
    BY <1>1 DEF Address
  <1> QED BY <1>2, <1>3, <1>4

-----------------------------------------------------------------------------
(***************************************************************************)
(* What the actions do to the calls, agent by agent.                       *)
(***************************************************************************)
Now(a, p, o, n, m) ==
    /\ pc'[a] = p /\ off'[a] = o /\ x'[a] = n /\ k'[a] = m
    /\ \A g \in Agents \ {a} : pc'[g] = pc[g] /\ off'[g] = off[g] /\ x'[g] = x[g] /\ k'[g] = k[g]

First(a) == IF x[a] = 0 THEN "m_fail" ELSE "m_scan"

LEMMA Moves ==
    ASSUME TypeOK, NEW a \in Agents
    PROVE
      /\ \A size \in Sizes : Malloc(a, size) => Now(a, "m_lock", off[a], BlocksFor(size), k[a])
      /\ MallocLock(a) => IF ready THEN Now(a, First(a), TblSize - 1, x[a], k[a])
                                   ELSE Now(a, "m_table", off[a], x[a], k[a])
      /\ Table(a) => Now(a, "m_clear", off[a], x[a], k[a])
      /\ Clear(a) => Now(a, First(a), TblSize' - 1, x[a], k[a])
      /\ Jump(a) => Now(a, "m_scan", off[a] - memmap[off[a]], x[a], 0)
      /\ Tag1(a) => Now(a, "m_tag2", off[a], x[a], k[a])
      /\ Tag2(a) => Now(a, "m_line", off[a], x[a], k[a])
      /\ MallocLine(a) => Now(a, IF ioline > Address(off[a]) THEN "m_lower" ELSE "m_done", off[a], x[a], k[a])
      /\ Lower(a) => Now(a, "m_check", off[a], x[a], k[a])
      /\ MallocCheck(a) => Now(a, IF ioline < heapline THEN "m_hung" ELSE "m_done", off[a], x[a], k[a])
      /\ MallocDone(a) \/ MallocFail(a) \/ FreeDone(a) => Now(a, "idle", 0, 0, 0)
      /\ \A b \in live : FreeCall(a, b) => Now(a, "f_lock", b[1], x[a], k[a])
      /\ FreeLock(a) => Now(a, "f_read", off[a], x[a], k[a])
      /\ FreeRead(a) => Now(a, "f_tag1", off[a], memmap[off[a]], k[a])
      /\ Untag1(a) => Now(a, "f_tag2", off[a], x[a], k[a])
      /\ Untag2(a) => Now(a, "f_line", off[a], x[a], k[a])
      /\ FreeLine(a) => Now(a, IF ioline = Address(off[a]) THEN "f_raise" ELSE "f_done", off[a], x[a], k[a])
      /\ Raise(a) => Now(a, "f_done", off[a], x[a], k[a])
      /\ \A pos \in Breaks : Brk(a, pos) => Now(a, "b_check", off[a], x[a], k[a])
      /\ BrkCheck(a) => Now(a, IF heapline > ioline THEN "b_hung" ELSE "idle", off[a], x[a], k[a])
      /\ Scan(a) => \/ off[a] < 0 /\ Now(a, "m_fail", off[a], x[a], k[a])
                    \/ off[a] >= 0 /\ memmap[off[a]] # 0 /\ Now(a, "m_jump", off[a], x[a], k[a])
                    \/ /\ off[a] >= 0 /\ memmap[off[a]] = 0
                       /\ IF k[a] + 1 = x[a] THEN Now(a, "m_tag1", off[a], x[a], k[a] + 1)
                          ELSE Now(a, "m_scan", off[a] - 1, x[a], k[a] + 1)
  <1> USE DEF TypeOK, Now, At, Goto
  <1>1. \A size \in Sizes : Malloc(a, size) => Now(a, "m_lock", off[a], BlocksFor(size), k[a])
    BY DEF Malloc
  <1>2. MallocLock(a) => IF ready THEN Now(a, First(a), TblSize - 1, x[a], k[a])
                         ELSE Now(a, "m_table", off[a], x[a], k[a])
    BY DEF MallocLock, Begin, First
  <1>23. Table(a) => Now(a, "m_clear", off[a], x[a], k[a])
    BY DEF Table
  <1>24. Clear(a) => Now(a, First(a), TblSize' - 1, x[a], k[a])
    <2> SUFFICES ASSUME Clear(a) PROVE Now(a, First(a), TblSize' - 1, x[a], k[a]) OBVIOUS
    <2>1. /\ pc' = [pc EXCEPT ![a] = First(a)] /\ off' = [off EXCEPT ![a] = TblSize' - 1]
          /\ x' = x /\ k' = k
      BY DEF Clear, Begin, First
    <2> HIDE DEF First
    <2> QED BY <2>1
  <1>3. Jump(a) => Now(a, "m_scan", off[a] - memmap[off[a]], x[a], 0)
    BY DEF Jump
  <1>4. Tag1(a) => Now(a, "m_tag2", off[a], x[a], k[a])
    BY DEF Tag1
  <1>5. Tag2(a) => Now(a, "m_line", off[a], x[a], k[a])
    BY DEF Tag2
  <1>6. MallocLine(a) => Now(a, IF ioline > Address(off[a]) THEN "m_lower" ELSE "m_done", off[a], x[a], k[a])
    BY DEF MallocLine
  <1>7. Lower(a) => Now(a, "m_check", off[a], x[a], k[a])
    BY DEF Lower
  <1>8. MallocCheck(a) => Now(a, IF ioline < heapline THEN "m_hung" ELSE "m_done", off[a], x[a], k[a])
    BY DEF MallocCheck
  <1>9. MallocDone(a) \/ MallocFail(a) \/ FreeDone(a) => Now(a, "idle", 0, 0, 0)
    BY DEF MallocDone, MallocFail, FreeDone, Done
  <1>10. \A b \in live : FreeCall(a, b) => Now(a, "f_lock", b[1], x[a], k[a])
    BY DEF FreeCall
  <1>11. FreeLock(a) => Now(a, "f_read", off[a], x[a], k[a])
    BY DEF FreeLock
  <1>12. FreeRead(a) => Now(a, "f_tag1", off[a], memmap[off[a]], k[a])
    BY DEF FreeRead
  <1>13. Untag1(a) => Now(a, "f_tag2", off[a], x[a], k[a])
    BY DEF Untag1
  <1>14. Untag2(a) => Now(a, "f_line", off[a], x[a], k[a])
    BY DEF Untag2
  <1>15. FreeLine(a) => Now(a, IF ioline = Address(off[a]) THEN "f_raise" ELSE "f_done", off[a], x[a], k[a])
    BY DEF FreeLine
  <1>16. Raise(a) => Now(a, "f_done", off[a], x[a], k[a])
    BY DEF Raise
  <1>17. \A pos \in Breaks : Brk(a, pos) => Now(a, "b_check", off[a], x[a], k[a])
    BY DEF Brk
  <1>18. BrkCheck(a) => Now(a, IF heapline > ioline THEN "b_hung" ELSE "idle", off[a], x[a], k[a])
    BY DEF BrkCheck
  <1>19. ASSUME Scan(a), off[a] < 0 PROVE Now(a, "m_fail", off[a], x[a], k[a])
    BY <1>19 DEF Scan
  <1>20. ASSUME Scan(a), off[a] >= 0, memmap[off[a]] # 0 PROVE Now(a, "m_jump", off[a], x[a], k[a])
    BY <1>20 DEF Scan
  <1>21. ASSUME Scan(a), off[a] >= 0, memmap[off[a]] = 0
         PROVE  IF k[a] + 1 = x[a] THEN Now(a, "m_tag1", off[a], x[a], k[a] + 1)
                ELSE Now(a, "m_scan", off[a] - 1, x[a], k[a] + 1)
    BY <1>21 DEF Scan
  <1> HIDE DEF TypeOK, Now
  <1>22. off[a] \in Int BY DEF TypeOK
  <1> QED BY <1>1, <1>2, <1>3, <1>4, <1>5, <1>6, <1>7, <1>8, <1>9, <1>10, <1>11, <1>12,
         <1>13, <1>14, <1>15, <1>16, <1>17, <1>18, <1>19, <1>20, <1>21, <1>22, <1>23, <1>24

Acts(a) == Calls(a) \/ MallocStep(a) \/ FreeStep(a) \/ BrkCheck(a)
LEMMA SomeMove == ASSUME TypeOK, NEW a \in Agents, Acts(a) PROVE \E p, o, n, m : Now(a, p, o, n, m)
  <1> USE Moves
  <1>1. CASE Calls(a) BY <1>1 DEF Calls
  <1>2. CASE Scan(a) BY <1>2
  <1>3. CASE MallocStep(a) /\ ~Scan(a) BY <1>3 DEF MallocStep
  <1>4. CASE FreeStep(a) BY <1>4 DEF FreeStep
  <1>5. CASE BrkCheck(a) BY <1>5
  <1> QED BY <1>1, <1>2, <1>3, <1>4, <1>5 DEF Acts

-----------------------------------------------------------------------------
(***************************************************************************)
(* Who is inside.                                                          *)
(***************************************************************************)
LEMMA OnePerHart ==
    ASSUME NEW a \in Agents, NEW b \in Agents, a # b, HartOf[a] = HartOf[b]
    PROVE  a \in Isrs \/ b \in Isrs
  BY HartAssumption DEF Agents

\* Who can move is above every other of its hart that is in the middle of
\* something, and so is alone in the windows.
LEMMA Uppermost ==
    ASSUME NEW a \in Agents, MayStep(a), NEW b \in Agents \ {a}, Busy(b), HartOf[b] = HartOf[a]
    PROVE  Above(a, b)
  <1>1. CASE b \in Isrs BY <1>1 DEF MayStep, Rivals, Above
  <1>2. CASE b \notin Isrs BY <1>2, OnePerHart DEF Above
  <1> QED BY <1>1, <1>2

LEMMA Alone ==
    ASSUME Order, NEW a \in Agents, MayStep(a), Inside(a)
    PROVE  \A g \in Agents \ {a} : ~InWindow(g)
  <1> SUFFICES ASSUME NEW g \in Agents \ {a}, InWindow(g) PROVE FALSE OBVIOUS
  <1>1. Above(g, a) BY DEF Order
  <1>2. Busy(g) BY DEF InWindow, Busy, Windows
  <1>3. Above(a, g) BY <1>1, <1>2, Uppermost DEF Above
  <1> QED BY <1>1, <1>3, HartAssumption DEF Above

\* Which steps take the lock, and which give it back.
Enters(a) == MallocLock(a) \/ FreeLock(a)
Exits(a) == MallocDone(a) \/ MallocFail(a) \/ FreeDone(a)
SameHolding(a) == (Holding(a)' <=> Holding(a)) /\ owner' = owner /\ depth' = depth

LEMMA OthersHold ==
    ASSUME NEW a \in Agents, NEW p, NEW o, NEW n, NEW m, Now(a, p, o, n, m)
    PROVE  \A g \in Agents \ {a} : Holding(g)' <=> Holding(g)
  BY DEF Now, Holding

LEMMA HoldingSteps ==
    ASSUME TypeOK, Turns, NEW a \in Agents
    PROVE  /\ Enters(a) => ~Holding(a) /\ Holding(a)' /\ Lock(a)
           /\ Exits(a) => Holding(a) /\ ~Holding(a)' /\ Unlock
           /\ Acts(a) /\ ~Enters(a) /\ ~Exits(a) => SameHolding(a)
           /\ Acts(a) => \A g \in Agents \ {a} : Holding(g)' <=> Holding(g)
  <1> USE DEF Holding, MallocPCs, FreePCs, SameHolding
  <1>1. ASSUME MallocLock(a) PROVE ~Holding(a) /\ Holding(a)' /\ Lock(a)
    <2>1. pc'[a] \in {"m_fail", "m_scan", "m_table"} BY <1>1, Moves DEF Now, First
    <2> QED BY <1>1, <2>1 DEF MallocLock, At
  <1>14. ASSUME Table(a) \/ Clear(a) PROVE SameHolding(a)
    <2>1. pc'[a] \in {"m_fail", "m_scan", "m_clear"} BY <1>14, Moves DEF Now, First
    <2> QED BY <1>14, <2>1 DEF Table, Clear, At
  <1>2. ASSUME FreeLock(a) PROVE ~Holding(a) /\ Holding(a)' /\ Lock(a)
    BY <1>2, Moves DEF Now, FreeLock, At
  <1>3. ASSUME Exits(a) PROVE Holding(a) /\ ~Holding(a)' /\ Unlock
    BY <1>3, Moves DEF Now, Exits, MallocDone, MallocFail, FreeDone, At
  <1>4. ASSUME Calls(a) PROVE SameHolding(a)
    <2>1. ASSUME NEW size \in Sizes, Malloc(a, size) PROVE SameHolding(a)
      BY <2>1, Moves DEF Now, Malloc, MayStart, Busy
    <2>2. ASSUME NEW b \in live, FreeCall(a, b) PROVE SameHolding(a)
      BY <2>2, Moves DEF Now, FreeCall, MayStart, Busy
    <2>3. ASSUME NEW pos \in Breaks, Brk(a, pos) PROVE SameHolding(a)
      BY <2>3, Moves DEF Now, Brk, MayStart, Busy
    <2> QED BY <1>4, <2>1, <2>2, <2>3 DEF Calls
  <1>5. ASSUME Scan(a) PROVE SameHolding(a)
    <2>1. pc'[a] \in {"m_fail", "m_jump", "m_tag1", "m_scan"} BY <1>5, Moves DEF Now
    <2> QED BY <1>5, <2>1 DEF Scan, At
  <1>6. ASSUME Jump(a) \/ Tag1(a) \/ Tag2(a) PROVE SameHolding(a)
    BY <1>6, Moves DEF Now, Jump, Tag1, Tag2, At
  <1>7. ASSUME MallocLine(a) \/ Lower(a) PROVE SameHolding(a)
    BY <1>7, Moves DEF Now, MallocLine, Lower, At
  <1>8. ASSUME MallocCheck(a) PROVE SameHolding(a)
    BY <1>8, Moves DEF Now, MallocCheck, At
  <1>9. ASSUME FreeRead(a) \/ Untag1(a) \/ Untag2(a) PROVE SameHolding(a)
    BY <1>9, Moves DEF Now, FreeRead, Untag1, Untag2, At
  <1>10. ASSUME FreeLine(a) \/ Raise(a) PROVE SameHolding(a)
    BY <1>10, Moves DEF Now, FreeLine, Raise, At
  <1>11. ASSUME BrkCheck(a) PROVE SameHolding(a)
    BY <1>11, Moves DEF Now, BrkCheck, At
  <1>12. ASSUME Acts(a) PROVE \E p, o, n, m : Now(a, p, o, n, m) BY <1>12, SomeMove
  <1> HIDE DEF Holding, SameHolding
  <1>13. ASSUME Acts(a) PROVE \A g \in Agents \ {a} : Holding(g)' <=> Holding(g)
    BY <1>12, <1>13, OthersHold
  <1> QED
    BY <1>1, <1>2, <1>3, <1>4, <1>5, <1>6, <1>7, <1>8, <1>9, <1>10, <1>11, <1>13, <1>14
    DEF Acts, MallocStep, FreeStep, Enters, Exits

LEMMA LockNext ==
    ASSUME TypeOK, Turns, LockInv, NEW a \in Agents, Acts(a)
    PROVE  LockInv' /\ depth' \in 0 .. Cardinality(Agents)
  <1>1. IsFiniteSet(Agents) /\ IsFiniteSet(Holders) BY HartAssumption, FS_Subset DEF Agents, Holders
  <1>2. \A g \in Agents \ {a} : Holding(g)' <=> Holding(g) BY HoldingSteps
  <1>3. depth = Cardinality(Holders) /\ depth \in Nat BY <1>1, FS_CardinalityType DEF LockInv
  <1>4. Holders' \subseteq Agents BY DEF Holders
  <1>5. ASSUME depth' = Cardinality(Holders')
        PROVE  depth' \in 0 .. Cardinality(Agents) /\ (depth' = 0 <=> \A g \in Agents : ~Holding(g)')
    <2>1. /\ IsFiniteSet(Holders') /\ Cardinality(Holders') <= Cardinality(Agents)
          /\ Cardinality(Holders') \in Nat /\ Cardinality(Agents) \in Nat
      BY <1>1, <1>4, FS_Subset, FS_CardinalityType
    <2>2. Cardinality(Holders') = 0 <=> Holders' = {} BY <2>1, FS_EmptySet
    <2>3. Holders' = {} <=> \A g \in Agents : ~Holding(g)' BY DEF Holders
    <2> QED BY <1>5, <2>1, <2>2, <2>3
  <1>6. CASE Enters(a)
    <2>1. ~Holding(a) /\ Holding(a)' /\ Lock(a) BY <1>6, HoldingSteps
    <2>2. owner \in {NoHart, HartOf[a]} /\ owner' = HartOf[a] /\ depth' = depth + 1 /\ owner' # NoHart
      BY <2>1, HartAssumption DEF Lock, Agents
    <2>3. Holders' = Holders \cup {a} /\ a \notin Holders BY <1>2, <2>1 DEF Holders
    <2>4. depth' = Cardinality(Holders') BY <1>1, <1>3, <2>2, <2>3, FS_AddElement
    <2>5. \A g \in Agents : Holding(g)' => owner' = HartOf[g]
      BY <1>2, <2>2, HartAssumption DEF LockInv, Agents
    <2>6. depth' # 0 BY <1>3, <2>2
    <2> QED BY <1>5, <2>2, <2>4, <2>5, <2>6 DEF LockInv
  <1>7. CASE Exits(a)
    <2>1. Holding(a) /\ ~Holding(a)' /\ depth' = depth - 1
          /\ owner' = IF depth = 1 THEN NoHart ELSE owner
      BY <1>7, HoldingSteps DEF Unlock
    <2>2. owner # NoHart /\ depth # 0 BY <2>1, HartAssumption DEF LockInv, Agents
    <2>3. Holders' = Holders \ {a} /\ a \in Holders BY <1>2, <2>1 DEF Holders
    <2>4. depth' = Cardinality(Holders') BY <1>1, <1>3, <2>1, <2>3, FS_RemoveElement
    <2>5. \A g \in Agents : Holding(g)' => owner = HartOf[g] BY <1>2, <2>1 DEF LockInv
    <2>6. depth = 1 <=> depth' = 0 BY <1>3, <2>1
    <2>7. \A g \in Agents : Holding(g)' => depth # 1 BY <1>5, <2>4, <2>6
    <2>8. \A g \in Agents : Holding(g)' => owner' = HartOf[g] BY <2>1, <2>5, <2>7
    <2>9. owner' = NoHart <=> depth' = 0 BY <2>1, <2>2, <2>6
    <2> QED BY <1>5, <2>4, <2>8, <2>9 DEF LockInv
  <1>8. CASE ~Enters(a) /\ ~Exits(a)
    <2>1. SameHolding(a) BY <1>8, HoldingSteps
    <2>2. \A g \in Agents : Holding(g)' <=> Holding(g) BY <1>2, <2>1 DEF SameHolding
    <2>3. Holders' = Holders BY <2>2 DEF Holders
    <2>4. owner' = owner /\ depth' = depth BY <2>1 DEF SameHolding
    <2>5. depth' = Cardinality(Holders') BY <1>3, <2>3, <2>4
    <2> QED BY <1>5, <2>2, <2>4, <2>5 DEF LockInv
  <1> QED BY <1>6, <1>7, <1>8

-----------------------------------------------------------------------------
(***************************************************************************)
(* Where a call can be.                                                    *)
(***************************************************************************)
LEMMA ReadyStays ==
    ASSUME TypeOK, NEW a \in Agents, Acts(a)
    PROVE  (ready => ready') /\ (~Clear(a) => ready' = ready)
  BY DEF Acts, Calls, MallocStep, FreeStep, Malloc, FreeCall, Brk, MallocLock, Table, Clear, Scan,
         Jump, Tag1, Tag2, MallocLine, Lower, MallocCheck, MallocDone, MallocFail, FreeLock,
         FreeRead, Untag1, Untag2, FreeLine, Raise, FreeDone, BrkCheck

\* What has happened stays so, and only who enters iomem_malloc adds to it.
LEMMA NestedGrows ==
    ASSUME NEW a \in Agents, Acts(a)
    PROVE  nested \subseteq nested' /\ (~MallocLock(a) => nested' = nested)
  BY DEF Acts, Calls, MallocStep, FreeStep, Malloc, FreeCall, Brk, MallocLock, Table, Clear, Scan,
         Jump, Tag1, Tag2, MallocLine, Lower, MallocCheck, MallocDone, MallocFail, FreeLock,
         FreeRead, Untag1, Untag2, FreeLine, Raise, FreeDone, BrkCheck

LEMMA Steps == ASSUME NEW a \in Agents, Acts(a) PROVE MayStep(a) /\ (~Busy(a) => MayStart(a))
  <1>1. MayStep(a)
    BY DEF Acts, Calls, MallocStep, FreeStep, Malloc, FreeCall, Brk, MayStart, At,
           MallocLock, Table, Clear, Scan, Jump, Tag1, Tag2, MallocLine, Lower, MallocCheck,
           MallocDone, MallocFail, FreeLock, FreeRead, Untag1, Untag2, FreeLine, Raise,
           FreeDone, BrkCheck
  <1>2. ~Busy(a) => MayStart(a)
    BY DEF Busy, Acts, Calls, MallocStep, FreeStep, Malloc, FreeCall, Brk, At,
           MallocLock, Table, Clear, Scan, Jump, Tag1, Tag2, MallocLine, Lower, MallocCheck,
           MallocDone, MallocFail, FreeLock, FreeRead, Untag1, Untag2, FreeLine, Raise,
           FreeDone, BrkCheck
  <1> QED BY <1>1, <1>2

LEMMA OwnTurn ==
    ASSUME TypeOK, Turns, Fresh, Bounds, NEW a \in Agents, Acts(a)
    PROVE  Turn(a)'
  <1> USE DEF Turn, Scanning, Placed, Stuck, MallocPCs, FreePCs
  <1>1. Turn(a) /\ off[a] \in Int /\ x[a] \in Nat /\ k[a] \in Nat BY DEF Turns, TypeOK
  <1>2. ready => ready' BY ReadyStays
  <1>3. ASSUME NEW size \in Sizes, Malloc(a, size) PROVE Turn(a)'
    BY <1>1, <1>3, Moves DEF Now, Malloc, MayStart, Busy
  <1>4. ASSUME NEW b \in live, FreeCall(a, b) PROVE Turn(a)'
    BY <1>2, <1>4, Moves DEF Now, FreeCall, Fresh
  <1>5. ASSUME NEW pos \in Breaks, Brk(a, pos) PROVE Turn(a)'
    BY <1>1, <1>5, Moves, AgentAssumption DEF Now, Brk, MayStart, Busy
  <1>6. ASSUME MallocLock(a) PROVE Turn(a)'
    <2>1. pc[a] = "m_lock" /\ ready' = ready BY <1>6 DEF MallocLock, At
    <2>2. CASE ready
      <3>1. Now(a, First(a), TblSize - 1, x[a], k[a]) BY <1>6, <2>2, Moves
      <3> QED BY <1>1, <2>1, <2>2, <3>1 DEF Now, First
    <2>3. CASE ~ready
      <3>1. Now(a, "m_table", off[a], x[a], k[a]) BY <1>6, <2>3, Moves
      <3> QED BY <1>1, <2>1, <2>3, <3>1 DEF Now
    <2> QED BY <2>2, <2>3
  <1>16. ASSUME Table(a) PROVE Turn(a)'
    BY <1>1, <1>16, Moves DEF Now, Table, At
  <1>17. ASSUME Clear(a) PROVE Turn(a)'
    <2>1. /\ pc'[a] \in {"m_fail", "m_scan"} /\ (pc'[a] = "m_scan" => x[a] # 0)
          /\ x'[a] = x[a] /\ k'[a] = k[a]
      BY <1>17, Moves DEF Now, First
    <2>2. pc[a] = "m_clear" /\ ready' = TRUE BY <1>17 DEF Clear, At
    <2> QED BY <1>1, <2>1, <2>2
  <1>7. ASSUME Scan(a) PROVE Turn(a)'
    <2>1. pc[a] = "m_scan" BY <1>7 DEF Scan, At
    <2>2. CASE off[a] < 0
      <3>1. Now(a, "m_fail", off[a], x[a], k[a]) BY <1>1, <1>7, <2>2, Moves
      <3> QED BY <1>1, <1>2, <2>1, <3>1 DEF Now
    <2>3. CASE off[a] >= 0 /\ memmap[off[a]] # 0
      <3>1. Now(a, "m_jump", off[a], x[a], k[a]) BY <1>1, <1>7, <2>3, Moves
      <3> QED BY <1>1, <1>2, <2>1, <2>3, <3>1 DEF Now
    <2>4. CASE off[a] >= 0 /\ memmap[off[a]] = 0
      <3>1. IF k[a] + 1 = x[a] THEN Now(a, "m_tag1", off[a], x[a], k[a] + 1)
            ELSE Now(a, "m_scan", off[a] - 1, x[a], k[a] + 1)
        BY <1>1, <1>7, <2>4, Moves
      <3> QED BY <1>1, <1>2, <2>1, <3>1 DEF Now
    <2> QED BY <1>1, <2>2, <2>3, <2>4
  <1>8. ASSUME Jump(a) \/ Tag1(a) \/ Tag2(a) PROVE Turn(a)'
    BY <1>1, <1>2, <1>8, Moves DEF Now, Jump, Tag1, Tag2, At
  <1>9. ASSUME MallocLine(a) \/ Lower(a) PROVE Turn(a)'
    BY <1>1, <1>2, <1>9, Moves DEF Now, MallocLine, Lower, At
  <1>10. ASSUME MallocCheck(a) PROVE Turn(a)'
    BY <1>1, <1>2, <1>10, Moves DEF Now, MallocCheck, At
  <1>11. ASSUME Exits(a) PROVE Turn(a)'
    BY <1>11, Moves DEF Now, Exits
  <1>12. ASSUME FreeLock(a) \/ Untag1(a) \/ Untag2(a) PROVE Turn(a)'
    BY <1>1, <1>2, <1>12, Moves DEF Now, FreeLock, Untag1, Untag2, At
  <1>13. ASSUME FreeRead(a) PROVE Turn(a)'
    <2>1. pc[a] = "f_read" /\ Now(a, "f_tag1", off[a], memmap[off[a]], k[a])
      BY <1>13, Moves DEF FreeRead, At
    <2>2. off[a] < off[a] + memmap[off[a]] /\ off[a] \in 0 .. TblSize - 1
      BY <2>1 DEF Bounds, Claims, Reading, Lo, Hi
    <2>3. memmap[off[a]] \in Nat BY <2>2, TableFits DEF TypeOK
    <2> QED BY <1>1, <1>2, <2>1, <2>2, <2>3 DEF Now
  <1>14. ASSUME FreeLine(a) \/ Raise(a) PROVE Turn(a)'
    BY <1>1, <1>2, <1>14, Moves DEF Now, FreeLine, Raise, At
  <1>15. ASSUME BrkCheck(a) PROVE Turn(a)'
    BY <1>1, <1>2, <1>15, Moves DEF Now, BrkCheck, At
  <1> QED
    BY <1>3, <1>4, <1>5, <1>6, <1>7, <1>8, <1>9, <1>10, <1>11, <1>12, <1>13, <1>14, <1>15,
       <1>16, <1>17
    DEF Acts, Calls, MallocStep, FreeStep, Exits

\* A handler starts, and a program comes to b_check or hangs, only while the
\* other of its hart does not stand in the way.
LEMMA Starts ==
    ASSUME TypeOK, Turns, NEW a \in Agents, Acts(a)
    PROVE  /\ a \in Threads => \A i \in Isrs : HartOf[i] = HartOf[a] => ~Busy(i)
           /\ a \in Isrs /\ ~Busy(a) =>
                \A t \in Threads : HartOf[t] = HartOf[a] => pc[t] \notin {"b_check", "b_hung"}
  BY Steps, AgentAssumption DEF MayStep, MayStart, Rivals

LEMMA TurnsNext ==
    ASSUME TypeOK, Turns, Order, Fresh, Bounds, NEW a \in Agents, Acts(a)
    PROVE  Turns'
  <1>1. Turn(a)' BY OwnTurn
  <1>2. PICK p, o, n, m : Now(a, p, o, n, m) BY SomeMove
  <1>3. ASSUME NEW g \in Agents \ {a} PROVE Turn(g)'
    <2>1. Turn(g) /\ (ready => ready') BY ReadyStays DEF Turns
    <2>2. pc[g] \in {"m_table", "m_clear"} => ~ready'
      <3>1. CASE Clear(a)
        <4>1. Inside(a) /\ MayStep(a) BY <3>1 DEF Clear, At, Inside, MallocPCs
        <4>2. ~InWindow(g) BY <4>1, Alone
        <4> QED BY <4>2 DEF InWindow, Windows
      <3>2. CASE ~Clear(a) BY <2>1, <3>2, ReadyStays DEF Turn
      <3> QED BY <3>1, <3>2
    <2> QED BY <1>2, <2>1, <2>2 DEF Now, Turn, Scanning, Placed, Stuck
  <1>4. ASSUME NEW i \in Isrs, NEW t \in Threads, HartOf[i] = HartOf[t], Busy(i)'
        PROVE  pc'[t] \notin {"b_check", "b_hung"}
    <2>1. i \in Agents /\ t \in Agents /\ i # t BY AgentAssumption DEF Agents
    <2>2. CASE a = t
      <3>1. ~Busy(i) BY <1>4, <2>2, Starts
      <3> QED BY <1>2, <1>4, <2>1, <2>2, <3>1 DEF Now, Busy
    <2>3. CASE a = i
      <3>1. pc[t] \notin {"b_check", "b_hung"} BY <1>4, <2>1, <2>3, Starts DEF Turns
      <3> QED BY <1>2, <2>1, <2>3, <3>1 DEF Now
    <2>4. CASE a # t /\ a # i
      <3>1. pc'[t] = pc[t] /\ pc'[i] = pc[i] BY <1>2, <2>1, <2>4 DEF Now
      <3> QED BY <1>4, <3>1 DEF Turns, Busy
    <2> QED BY <2>2, <2>3, <2>4
  <1> QED BY <1>1, <1>3, <1>4 DEF Turns

LEMMA EntersMalloc ==
    ASSUME TypeOK, NEW a \in Agents, Acts(a), ~Inside(a), Inside(a)'
    PROVE  MallocLock(a)
  <1> USE DEF Inside, MallocPCs
  <1>1. ASSUME Calls(a) PROVE FALSE BY <1>1, Moves DEF Calls, Now
  <1>2. ASSUME FreeStep(a) PROVE FALSE BY <1>2, Moves DEF FreeStep, Now
  <1>3. ASSUME BrkCheck(a) PROVE FALSE BY <1>3, Moves DEF Now
  <1>4. ASSUME MallocStep(a), ~MallocLock(a) PROVE FALSE
    BY <1>4 DEF MallocStep, Table, Clear, Scan, Jump, Tag1, Tag2, MallocLine, Lower, MallocCheck,
       MallocDone, MallocFail, At
  <1> QED BY <1>1, <1>2, <1>3, <1>4 DEF Acts

\* Who comes upon another in a window from below is told of by nested.
LEMMA OrderNext ==
    ASSUME TypeOK, LockInv, LockInv', Order, NEW a \in Agents, Acts(a), Sound'
    PROVE  Order'
  <1>1. PICK p, o, n, m : Now(a, p, o, n, m) BY SomeMove
  <1>2. MayStep(a) /\ nested \subseteq nested' BY Steps, NestedGrows
  <1>3. ASSUME NEW c \in Agents, NEW d \in Agents, c # d, InWindow(c)', Inside(d)'
        PROVE  Above(c, d)
    <2>1. CASE a = c
      <3>1. pc'[d] = pc[d] BY <1>1, <1>3, <2>1 DEF Now
      <3>2. Busy(d) BY <1>3, <3>1 DEF Inside, Busy, MallocPCs
      <3>3. Holding(c)' /\ Holding(d)'
        BY <1>3 DEF InWindow, Inside, Windows, Holding, MallocPCs, FreePCs
      <3>4. HartOf[c] = HartOf[d] BY <3>3 DEF LockInv
      <3> QED BY <1>2, <1>3, <2>1, <3>2, <3>4, Uppermost
    <2>2. CASE a # c
      <3>1. pc'[c] = pc[c] BY <1>1, <2>2 DEF Now
      <3>2. InWindow(c) BY <1>2, <1>3, <3>1 DEF InWindow, Level
      <3>3. CASE Inside(d) BY <1>3, <3>2, <3>3 DEF Order
      <3>4. CASE ~Inside(d)
        <4>1. d = a BY <1>1, <1>3, <3>4 DEF Now, Inside
        <4>2. MallocLock(a) BY <1>3, <3>4, <4>1, EntersMalloc
        <4>3. ("tags" \in DOMAIN Windows) /\ ("line" \in DOMAIN Windows) BY DEF Windows
        <4>4. \A w \in DOMAIN Windows : pc[c] \in Windows[w] => w \in nested'
          BY <4>2 DEF MallocLock
        <4> QED BY <1>3, <3>1, <4>3, <4>4 DEF InWindow, Sound, Level
      <3> QED BY <3>3, <3>4
    <2> QED BY <2>1, <2>2
  <1> QED BY <1>3 DEF Order, Above

LEMMA FreshNext ==
    ASSUME TypeOK, Turns, Fresh, NEW a \in Agents, Acts(a)
    PROVE  Fresh'
  <1> SUFFICES ASSUME ~ready' PROVE live' = {} /\ ioline' = Top /\ \A c \in Cells : memmap'[c] = 0
    BY DEF Fresh
  <1>1. ~ready /\ Turn(a) BY ReadyStays DEF Turns
  <1>2. pc[a] \in {"idle", "b_check", "b_hung", "m_lock", "m_table", "m_clear"}
    BY <1>1 DEF Turn, TypeOK
  <1>3. ~FreeStep(a) BY <1>2 DEF FreeStep, FreeLock, FreeRead, Untag1, Untag2, FreeLine, Raise, FreeDone, At
  <1>4. ASSUME MallocStep(a) PROVE MallocLock(a) \/ Table(a)
    BY <1>2, <1>4 DEF MallocStep, Clear, Scan, Jump, Tag1, Tag2, MallocLine, Lower, MallocCheck,
       MallocDone, MallocFail, At
  <1>5. live = {} /\ ioline = Top /\ \A c \in Cells : memmap[c] = 0 BY <1>1 DEF Fresh
  <1>6. Calls(a) \/ MallocLock(a) \/ Table(a) \/ BrkCheck(a) BY <1>3, <1>4 DEF Acts
  <1>7. live' = live /\ ioline' = ioline /\ memmap' = memmap
    BY <1>5, <1>6 DEF Calls, Malloc, FreeCall, Brk, MallocLock, Table, BrkCheck
  <1> QED BY <1>5, <1>7

-----------------------------------------------------------------------------
(***************************************************************************)
(* The cells each has to itself.                                           *)
(***************************************************************************)
LEMMA Kept ==
    ASSUME NEW a \in Agents, \E p, o, n, m : Now(a, p, o, n, m), NEW g \in Agents \ {a},
           Level' => Level, Reading(g) => memmap'[off[g]] = memmap[off[g]]
    PROVE  /\ Lo(g)' = Lo(g) /\ Hi(g)' = Hi(g) /\ Length(g)' = Length(g)
           /\ pc'[g] = pc[g] /\ off'[g] = off[g] /\ x'[g] = x[g]
           /\ Claims(g)' => Claims(g)
           /\ Scanning(g)' <=> Scanning(g)
           /\ Stuck(g)' <=> Stuck(g)
           /\ HasFirst(g)' <=> HasFirst(g)
           /\ HasLast(g)' <=> HasLast(g)
           /\ Lowered(g)' <=> Lowered(g)
  <1>1. pc'[g] = pc[g] /\ off'[g] = off[g] /\ x'[g] = x[g] /\ k'[g] = k[g] BY DEF Now
  <1>2. /\ Scanning(g)' <=> Scanning(g)
        /\ Reading(g)' <=> Reading(g)
        /\ Stuck(g)' <=> Stuck(g)
    BY <1>1 DEF Scanning, Reading, Stuck
  <1>3. Placed(g)' <=> Placed(g) BY <1>1, <1>2 DEF Placed
  <1>4. Lo(g)' = Lo(g) BY <1>1, <1>2 DEF Lo
  <1>5. Hi(g)' = Hi(g) BY <1>1, <1>2 DEF Hi
  <1>6. Length(g)' = Length(g) BY <1>4, <1>5 DEF Length
  <1>7. Claims(g)' => Claims(g) BY <1>1, <1>2, <1>3 DEF Claims
  <1>8. (HasFirst(g)' <=> HasFirst(g)) /\ (HasLast(g)' <=> HasLast(g))
    BY <1>1, <1>2, <1>3 DEF HasFirst, HasLast, Tagged
  <1>9. Lowered(g)' <=> Lowered(g) BY <1>1, <1>2 DEF Lowered
  <1> QED BY <1>1, <1>2, <1>4, <1>5, <1>6, <1>7, <1>8, <1>9

LEMMA ZoneInts ==
    ASSUME TypeOK, Bounds, NEW g \in Agents, Claims(g)
    PROVE  Lo(g) \in Int /\ Hi(g) \in Int /\ Length(g) \in Int
  <1>1. off[g] \in Int /\ x[g] \in Int /\ k[g] \in Int BY DEF TypeOK
  <1>2. Reading(g) => memmap[off[g]] \in Int
    <2> SUFFICES ASSUME Reading(g) PROVE memmap[off[g]] \in Int OBVIOUS
    <2>1. ~Scanning(g) BY DEF Reading, Scanning
    <2>2. off[g] \in Cells BY <2>1, TableFits DEF Bounds
    <2> QED BY <2>2, SizeAssumption DEF TypeOK
  <1> QED BY <1>1, <1>2 DEF Lo, Hi, Length

LEMMA LiveInts ==
    ASSUME TypeOK, NEW b \in live
    PROVE  b[1] \in Int /\ b[2] \in Int /\ b = <<b[1], b[2]>>
  BY SizeAssumption DEF TypeOK, Cells

\* A step after which a has no more than it had.
LEMMA ZoneShrinks ==
    ASSUME TypeOK, Bounds, Separate, NEW a \in Agents, \E p, o, n, m : Now(a, p, o, n, m),
           \A g \in Agents \ {a} : Reading(g) => memmap'[off[g]] = memmap[off[g]],
           live' = live, memsize' = memsize, Level' => Level,
           Claims(a)' => /\ Claims(a)
                         /\ Lo(a)' \in Int /\ Hi(a)' \in Int
                         /\ Lo(a) <= Lo(a)' /\ Lo(a)' <= Hi(a)' /\ Hi(a)' <= Hi(a)
                         /\ ~Scanning(a)' => off'[a] \in 0 .. TblSize - 1 /\ Lo(a)' < Hi(a)'
    PROVE  Bounds' /\ Separate'
  <1>1. TblSize' = TblSize /\ TblSize \in Int BY TableFits DEF TblSize
  <1>2. \A g \in Agents \ {a} : /\ Lo(g)' = Lo(g) /\ Hi(g)' = Hi(g) /\ off'[g] = off[g]
                                /\ Claims(g)' => Claims(g)
                                /\ Scanning(g)' <=> Scanning(g)
    BY Kept
  <1>3. \A g \in Agents : Claims(g) => Lo(g) \in Int /\ Hi(g) \in Int BY ZoneInts
  <1>4. \A b \in live : b[1] \in Int /\ b[2] \in Int BY LiveInts
  <1> HIDE DEF Lo, Hi, Claims, Scanning
  <1>5. Bounds'
    <2>1. ASSUME NEW g \in Agents, Claims(g)'
          PROVE  /\ 0 <= Lo(g)' /\ Lo(g)' <= Hi(g)' /\ Hi(g)' <= TblSize'
                 /\ ~Scanning(g)' => off'[g] \in 0 .. TblSize' - 1 /\ Lo(g)' < Hi(g)'
      <3>1. CASE g = a BY <1>1, <1>3, <2>1, <3>1 DEF Bounds, Within
      <3>2. CASE g # a BY <1>1, <1>2, <2>1, <3>2 DEF Bounds, Within
      <3> QED BY <3>1, <3>2
    <2> QED BY <1>1, <2>1 DEF Bounds, Within
  <1>6. Separate'
    <2>1. ASSUME NEW g \in Agents, NEW b \in live, Claims(g)'
          PROVE  Beside(Lo(g)', Hi(g)', b[1], b[1] + b[2])
      <3>1. CASE g = a BY <1>3, <1>4, <2>1, <3>1 DEF Separate, Beside
      <3>2. CASE g # a BY <1>2, <2>1, <3>2 DEF Separate
      <3> QED BY <3>1, <3>2
    <2>2. ASSUME NEW g \in Agents, NEW h \in Agents, g # h, Claims(g)', Claims(h)'
          PROVE  Beside(Lo(g)', Hi(g)', Lo(h)', Hi(h)')
      <3>1. CASE g = a BY <1>2, <1>3, <2>2, <3>1 DEF Separate, Beside
      <3>2. CASE h = a BY <1>2, <1>3, <2>2, <3>2 DEF Separate, Beside
      <3>3. CASE g # a /\ h # a BY <1>2, <2>2, <3>3 DEF Separate
      <3> QED BY <3>1, <3>2, <3>3
    <2> QED BY <2>1, <2>2 DEF Separate, Beside
  <1> QED BY <1>5, <1>6

\* A cell that one has to itself is nobody else's first cell.
LEMMA WritesOwn ==
    ASSUME TypeOK, Bounds, Separate, NEW a \in Agents, Claims(a), NEW c \in Int, Lo(a) <= c, c < Hi(a),
           \A d \in Cells : d # c => memmap'[d] = memmap[d]
    PROVE  \A g \in Agents \ {a} : Reading(g) => memmap'[off[g]] = memmap[off[g]]
  <1> SUFFICES ASSUME NEW g \in Agents \ {a}, Reading(g) PROVE memmap'[off[g]] = memmap[off[g]]
    OBVIOUS
  <1>1. Claims(g) /\ ~Scanning(g) BY DEF Claims, Reading, Scanning
  <1>2. Lo(g) = off[g] /\ off[g] \in Cells /\ Lo(g) < Hi(g) BY <1>1, TableFits DEF Bounds, Lo
  <1>3. Lo(a) \in Int /\ Hi(a) \in Int /\ Lo(g) \in Int /\ Hi(g) \in Int BY <1>1, ZoneInts
  <1>4. Beside(Lo(a), Hi(a), Lo(g), Hi(g)) BY <1>1 DEF Separate
  <1> QED BY <1>2, <1>3, <1>4 DEF Beside

-----------------------------------------------------------------------------
(***************************************************************************)
(* The blocks that a call meets when no other is in a window: those with   *)
(* both their tags, in the hands of callers or of calls.                   *)
(***************************************************************************)
Solid(lo, hi) == \/ \E b \in live : lo = b[1] /\ hi = b[1] + b[2]
                 \/ \E g \in Agents : Tagged(g) /\ lo = Lo(g) /\ hi = Hi(g)

LEMMA TaggedHas ==
    ASSUME NEW g \in Agents, Tagged(g)
    PROVE  Claims(g) /\ ~Scanning(g) /\ HasFirst(g) /\ HasLast(g) /\ Lo(g) = off[g]
  BY DEF Tagged, Claims, Scanning, Reading, Placed, Stuck, HasFirst, HasLast, Lo

LEMMA OutOfWindow ==
    ASSUME NEW g \in Agents, ~InWindow(g), Claims(g)
    PROVE  Tagged(g)
  BY DEF InWindow, Windows, Claims, Scanning, Tagged

LEMMA BlockFacts ==
    ASSUME TypeOK, Bounds, Tags, NEW lo, NEW hi, Solid(lo, hi)
    PROVE  /\ lo \in Int /\ hi \in Int /\ 0 <= lo /\ lo < hi /\ hi <= TblSize
           /\ memmap[lo] = hi - lo /\ memmap[hi - 1] = hi - lo
  <1>1. CASE \E b \in live : lo = b[1] /\ hi = b[1] + b[2]
    <2>1. PICK b \in live : lo = b[1] /\ hi = b[1] + b[2] BY <1>1
    <2>2. b[1] \in Int /\ b[2] \in Int BY LiveInts
    <2>3. memmap[b[1]] = b[2] /\ memmap[b[1] + b[2] - 1] = b[2] BY DEF Tags
    <2> QED BY <2>1, <2>2, <2>3 DEF Bounds, Within
  <1>2. CASE \E g \in Agents : Tagged(g) /\ lo = Lo(g) /\ hi = Hi(g)
    <2>1. PICK g \in Agents : Tagged(g) /\ lo = Lo(g) /\ hi = Hi(g) BY <1>2
    <2>2. Claims(g) /\ ~Scanning(g) /\ HasFirst(g) /\ HasLast(g) /\ Lo(g) = off[g] BY <2>1, TaggedHas
    <2>3. Lo(g) \in Int /\ Hi(g) \in Int BY <2>2, ZoneInts
    <2>4. memmap[off[g]] = Length(g) /\ memmap[Hi(g) - 1] = Length(g) BY <2>2 DEF Tags
    <2>5. 0 <= Lo(g) /\ Hi(g) <= TblSize /\ Lo(g) < Hi(g) BY <2>2 DEF Bounds, Within
    <2> QED BY <2>1, <2>2, <2>3, <2>4, <2>5 DEF Length
  <1> QED BY <1>1, <1>2 DEF Solid

LEMMA BlocksClear ==
    ASSUME Separate, NEW a \in Agents, Claims(a), ~Tagged(a), NEW lo, NEW hi, Solid(lo, hi)
    PROVE  Beside(Lo(a), Hi(a), lo, hi)
  BY TaggedHas DEF Separate, Solid

LEMMA BlocksApart ==
    ASSUME TypeOK, Bounds, Separate, Tags,
           NEW lo, NEW hi, Solid(lo, hi), NEW lo2, NEW hi2, Solid(lo2, hi2)
    PROVE  (lo = lo2 /\ hi = hi2) \/ Beside(lo, hi, lo2, hi2)
  <1>0. /\ lo \in Int /\ hi \in Int /\ lo2 \in Int /\ hi2 \in Int
    BY BlockFacts
  <1>1. ASSUME NEW b \in live, lo = b[1], hi = b[1] + b[2]
        PROVE  (lo = lo2 /\ hi = hi2) \/ Beside(lo, hi, lo2, hi2)
    <2>1. ASSUME NEW c \in live, lo2 = c[1], hi2 = c[1] + c[2]
          PROVE  (lo = lo2 /\ hi = hi2) \/ Beside(lo, hi, lo2, hi2)
      BY <1>1, <2>1 DEF Separate
    <2>2. ASSUME NEW g \in Agents, Tagged(g), lo2 = Lo(g), hi2 = Hi(g)
          PROVE  Beside(lo, hi, lo2, hi2)
      <3>1. Beside(lo2, hi2, lo, hi) BY <1>1, <2>2, TaggedHas DEF Separate
      <3> QED BY <1>0, <3>1 DEF Beside
    <2> QED BY <2>1, <2>2 DEF Solid
  <1>2. ASSUME NEW g \in Agents, Tagged(g), lo = Lo(g), hi = Hi(g)
        PROVE  (lo = lo2 /\ hi = hi2) \/ Beside(lo, hi, lo2, hi2)
    <2>1. ASSUME NEW c \in live, lo2 = c[1], hi2 = c[1] + c[2]
          PROVE  Beside(lo, hi, lo2, hi2)
      BY <1>2, <2>1, TaggedHas DEF Separate
    <2>2. ASSUME NEW h \in Agents, Tagged(h), lo2 = Lo(h), hi2 = Hi(h)
          PROVE  (lo = lo2 /\ hi = hi2) \/ Beside(lo, hi, lo2, hi2)
      BY <1>2, <2>2, TaggedHas DEF Separate
    <2> QED BY <2>1, <2>2 DEF Solid
  <1> QED BY <1>1, <1>2 DEF Solid

\* Who scans is alone in the windows.
ScansAlone(a) == Scanning(a) /\ \A g \in Agents \ {a} : ~InWindow(g)
LEMMA AloneScans ==
    ASSUME Order, NEW a \in Agents, Scanning(a), MayStep(a)
    PROVE  ScansAlone(a)
  BY Alone DEF ScansAlone, Scanning, Inside, MallocPCs

LEMMA OnlyBlocks ==
    ASSUME TypeOK, Tags, NEW a \in Agents, ScansAlone(a), NEW c \in Cells, memmap[c] # 0
    PROVE  \E lo, hi : Solid(lo, hi) /\ (c = lo \/ c = hi - 1)
  <1>1. ASSUME NEW b \in live, c = b[1] \/ c = b[1] + b[2] - 1
        PROVE  \E lo, hi : Solid(lo, hi) /\ (c = lo \/ c = hi - 1)
    <2>1. Solid(b[1], b[1] + b[2]) BY DEF Solid
    <2>2. c = b[1] \/ c = (b[1] + b[2]) - 1 BY <1>1, LiveInts
    <2> WITNESS b[1], b[1] + b[2]
    <2> QED BY <2>1, <2>2
  <1>2. ASSUME NEW g \in Agents, (HasFirst(g) /\ c = off[g]) \/ (HasLast(g) /\ c = Hi(g) - 1)
        PROVE  \E lo, hi : Solid(lo, hi) /\ (c = lo \/ c = hi - 1)
    <2>1. ~Scanning(g) /\ Claims(g)
      BY <1>2 DEF HasFirst, HasLast, Tagged, Scanning, Placed, Reading, Stuck, Claims
    <2>2. Tagged(g) BY <2>1, OutOfWindow DEF ScansAlone
    <2>3. Solid(Lo(g), Hi(g)) /\ Lo(g) = off[g] BY <2>2, TaggedHas DEF Solid
    <2> QED BY <1>2, <2>3
  <1> QED BY <1>1, <1>2 DEF Tags

\* A tag the scan meets is that of a block that ends there.
LEMMA TagMet ==
    ASSUME TypeOK, Bounds, Separate, Tags, NEW a \in Agents, ScansAlone(a), off[a] >= 0
    PROVE  /\ memmap[off[a]] # 0 => Solid(off[a] + 1 - memmap[off[a]], off[a] + 1)
           /\ \A lo, hi : Solid(lo, hi) /\ hi = off[a] + 1 => memmap[off[a]] # 0
  <1>1. off[a] \in Int /\ k[a] \in Nat BY DEF TypeOK
  <1>2. Claims(a) /\ ~Tagged(a) /\ Lo(a) = off[a] + 1 /\ Hi(a) = off[a] + k[a] + 1
    BY DEF ScansAlone, Scanning, Tagged, Placed, Reading, Stuck, Claims, Lo, Hi
  <1>3. off[a] + 1 <= TblSize /\ TblSize \in Int BY <1>1, <1>2, TableFits DEF Bounds, Within
  <1>4. off[a] \in Cells BY <1>1, <1>3, TableFits
  <1>5. ASSUME memmap[off[a]] # 0 PROVE Solid(off[a] + 1 - memmap[off[a]], off[a] + 1)
    <2>1. PICK lo, hi : Solid(lo, hi) /\ (off[a] = lo \/ off[a] = hi - 1)
      BY <1>4, <1>5, OnlyBlocks
    <2>2. lo \in Int /\ hi \in Int /\ lo < hi /\ memmap[hi - 1] = hi - lo BY <2>1, BlockFacts
    <2>3. Beside(off[a] + 1, off[a] + k[a] + 1, lo, hi) BY <1>2, <2>1, BlocksClear
    <2>4. hi = off[a] + 1 BY <1>1, <2>1, <2>2, <2>3 DEF Beside
    <2>5. off[a] + 1 - memmap[off[a]] = lo BY <1>1, <2>2, <2>4
    <2> QED BY <2>1, <2>4, <2>5
  <1>6. ASSUME NEW lo, NEW hi, Solid(lo, hi), hi = off[a] + 1 PROVE memmap[off[a]] # 0
    <2>1. lo \in Int /\ hi \in Int /\ lo < hi /\ memmap[hi - 1] = hi - lo BY <1>6, BlockFacts
    <2>2. hi - 1 = off[a] BY <1>1, <1>6
    <2> QED BY <2>1, <2>2
  <1> QED BY <1>5, <1>6

\* A step of one that is alone in the windows, to cells that are in no block.
LEMMA OthersTagged ==
    ASSUME NEW a \in Agents, \E p, o, n, m : Now(a, p, o, n, m),
           \A g \in Agents \ {a} : ~InWindow(g), memmap' = memmap, Level' => Level
    PROVE  \A g \in Agents \ {a} : Claims(g)' => Tagged(g)
  BY Kept, OutOfWindow

LEMMA ZoneMoves ==
    ASSUME TypeOK, Bounds, Separate, NEW a \in Agents, \E p, o, n, m : Now(a, p, o, n, m),
           \A g \in Agents \ {a} : Claims(g)' => Tagged(g), ~Tagged(a),
           memmap' = memmap, live' = live, memsize' = memsize, Level' => Level,
           Claims(a)' => /\ Lo(a)' \in Int /\ Hi(a)' \in Int
                         /\ 0 <= Lo(a)' /\ Lo(a)' <= Hi(a)' /\ Hi(a)' <= TblSize
                         /\ ~Scanning(a)' => off'[a] \in 0 .. TblSize - 1 /\ Lo(a)' < Hi(a)'
                         /\ \A lo, hi : Solid(lo, hi) => Beside(Lo(a)', Hi(a)', lo, hi)
    PROVE  Bounds' /\ Separate'
  <1>1. TblSize' = TblSize /\ TblSize \in Int BY TableFits DEF TblSize
  <1>2. \A g \in Agents \ {a} : /\ Lo(g)' = Lo(g) /\ Hi(g)' = Hi(g) /\ off'[g] = off[g]
                                /\ Claims(g)' => Claims(g)
                                /\ Scanning(g)' <=> Scanning(g)
    BY Kept
  <1>4. \A g \in Agents : Claims(g) => Lo(g) \in Int /\ Hi(g) \in Int BY ZoneInts
  <1>5. \A b \in live : Solid(b[1], b[1] + b[2]) BY DEF Solid
  <1>6. \A g \in Agents \ {a} : Claims(g)' => Solid(Lo(g), Hi(g)) BY DEF Solid
  <1> HIDE DEF Lo, Hi, Claims, Scanning
  <1>7. Bounds'
    <2>1. ASSUME NEW g \in Agents, Claims(g)'
          PROVE  /\ 0 <= Lo(g)' /\ Lo(g)' <= Hi(g)' /\ Hi(g)' <= TblSize'
                 /\ ~Scanning(g)' => off'[g] \in 0 .. TblSize' - 1 /\ Lo(g)' < Hi(g)'
      <3>1. CASE g = a BY <1>1, <2>1, <3>1
      <3>2. CASE g # a BY <1>1, <1>2, <2>1, <3>2 DEF Bounds, Within
      <3> QED BY <3>1, <3>2
    <2> QED BY <1>1, <2>1 DEF Bounds, Within
  <1>8. Separate'
    <2>1. ASSUME NEW g \in Agents, NEW b \in live, Claims(g)'
          PROVE  Beside(Lo(g)', Hi(g)', b[1], b[1] + b[2])
      <3>1. CASE g = a BY <1>5, <2>1, <3>1
      <3>2. CASE g # a BY <1>2, <2>1, <3>2 DEF Separate
      <3> QED BY <3>1, <3>2
    <2>2. ASSUME NEW g \in Agents, NEW h \in Agents, g # h, Claims(g)', Claims(h)'
          PROVE  Beside(Lo(g)', Hi(g)', Lo(h)', Hi(h)')
      <3>1. CASE g = a BY <1>2, <1>6, <2>2, <3>1
      <3>2. CASE h = a
        <4>1. Beside(Lo(h)', Hi(h)', Lo(g)', Hi(g)') BY <1>2, <1>6, <2>2, <3>2
        <4> QED BY <1>2, <1>4, <2>2, <3>2, <4>1 DEF Beside
      <3>3. CASE g # a /\ h # a BY <1>2, <2>2, <3>3 DEF Separate
      <3> QED BY <3>1, <3>2, <3>3
    <2> QED BY <2>1, <2>2 DEF Separate, Beside
  <1> QED BY <1>7, <1>8

Zones == Bounds' /\ Separate'
LEMMA Drops ==
    ASSUME TypeOK, Bounds, Separate, NEW a \in Agents, \E p, o, n, m : Now(a, p, o, n, m), ~Claims(a)',
           memmap' = memmap, live' = live, memsize' = memsize, Level' => Level
    PROVE  Zones
  BY ZoneShrinks DEF Zones

LEMMA Keeps ==
    ASSUME TypeOK, Bounds, Separate, NEW a \in Agents, \E p, o, n, m : Now(a, p, o, n, m),
           \A g \in Agents \ {a} : Reading(g) => memmap'[off[g]] = memmap[off[g]],
           live' = live, memsize' = memsize, Level' => Level, Claims(a),
           Lo(a)' = Lo(a), Hi(a)' = Hi(a), off'[a] = off[a],
           Scanning(a)' <=> Scanning(a)
    PROVE  Zones
  <1>1. Lo(a) \in Int /\ Hi(a) \in Int BY ZoneInts
  <1>2. /\ 0 <= Lo(a) /\ Lo(a) <= Hi(a)
        /\ ~Scanning(a) => off[a] \in 0 .. TblSize - 1 /\ Lo(a) < Hi(a)
    BY DEF Bounds, Within
  <1> HIDE DEF Lo, Hi, Claims, Scanning
  <1> QED BY <1>1, <1>2, ZoneShrinks DEF Zones

LEMMA StartZone ==
    ASSUME TypeOK, Turns, Order, Bounds, Separate, Tags, NEW a \in Agents, MallocLock(a), Sound'
    PROVE  Zones
  <1>1. /\ pc[a] = "m_lock" /\ MayStep(a) /\ memmap' = memmap /\ live' = live /\ memsize' = memsize
        /\ \A w \in DOMAIN Windows : \A c \in Agents : pc[c] \in Windows[w] => w \in nested'
        /\ nested \subseteq nested'
    BY DEF MallocLock, At
  <1>2. k[a] = 0 BY <1>1 DEF Turns, Turn
  <1>3. \E p, o, n, m : Now(a, p, o, n, m) BY SomeMove DEF Acts, MallocStep
  <1>4. Level' => Level BY <1>1 DEF Level
  <1>5. CASE ~ready
    <2>1. Now(a, "m_table", off[a], x[a], k[a]) BY <1>5, Moves
    <2>2. ~Claims(a)' BY <2>1 DEF Now, Claims, Scanning, Reading, Placed, Stuck
    <2> QED BY <1>1, <1>3, <1>4, <2>2, Drops
  <1>6. CASE ready
    <2>1. Now(a, First(a), TblSize - 1, x[a], k[a]) BY <1>6, Moves
    <2>2. TblSize \in Nat BY TableFits
    <2>3. /\ Claims(a)' => Lo(a)' = TblSize /\ Hi(a)' = TblSize /\ Scanning(a)'
      BY <1>2, <2>1, <2>2 DEF Now, First, Claims, Lo, Hi, Scanning, Reading, Placed, Stuck
    <2>4. \A lo, hi : Solid(lo, hi) => Beside(TblSize, TblSize, lo, hi)
      BY <2>2, BlockFacts DEF Beside
    <2>5. \A g \in Agents \ {a} : Claims(g)' => Tagged(g)
      <3> SUFFICES ASSUME NEW g \in Agents \ {a}, Claims(g)' PROVE Tagged(g) OBVIOUS
      <3>1. "tags" \in DOMAIN Windows /\ "line" \in DOMAIN Windows BY DEF Windows
      <3>2. pc[g] \notin Windows["tags"] BY <1>1, <3>1 DEF Sound
      <3>3. pc'[g] = pc[g] /\ Claims(g) BY <1>1, <1>3, <1>4, Kept
      <3>4. CASE pc[g] \in Windows["line"]
        <4>1. ~Level' BY <1>1, <3>1, <3>4 DEF Level
        <4> QED BY <4>1, <3>2, <3>3, <3>4 DEF Windows, Claims, Scanning, Reading, Placed, Stuck, Tagged
      <3>5. CASE pc[g] \notin Windows["line"]
        BY <3>2, <3>3, <3>5, OutOfWindow DEF InWindow
      <3> QED BY <3>4, <3>5
    <2>6. ~Tagged(a) BY <1>1 DEF Tagged, Placed, Reading, Stuck
    <2> HIDE DEF Lo, Hi, Claims, Scanning
    <2> QED BY <1>1, <1>3, <1>4, <2>2, <2>3, <2>4, <2>5, <2>6, ZoneMoves DEF Zones
  <1> QED BY <1>5, <1>6

LEMMA ClearZone ==
    ASSUME TypeOK, Turns, Fresh, NEW a \in Agents, Clear(a), TypeOK'
    PROVE  Zones
  <1>1. /\ pc[a] = "m_clear" /\ live' = live /\ nested' = nested
        /\ Now(a, First(a), TblSize' - 1, x[a], k[a])
    BY Moves DEF Clear, At
  <1>2. ~ready /\ k[a] = 0 BY <1>1 DEF Turns, Turn
  <1>3. live' = {} BY <1>1, <1>2 DEF Fresh
  <1>4. \A g \in Agents : ~Claims(g)
    BY <1>2 DEF Turns, Turn, Claims, Scanning, Reading, Placed, Stuck, MallocPCs, FreePCs
  <1>5. \A g \in Agents \ {a} : ~Claims(g)'
    BY <1>1, <1>4 DEF Now, Claims, Scanning, Reading, Placed, Stuck, Level
  <1>6. TblSize' \in Nat
    <2>1. memsize' \in Nat BY SizeAssumption DEF TypeOK
    <2> QED BY <2>1, SizeAssumption, DivFacts DEF TblSize
  <1>7. Claims(a)' => Lo(a)' = TblSize' - 1 + 1 /\ Hi(a)' = TblSize' - 1 + 0 + 1 /\ Scanning(a)'
    BY <1>1, <1>2 DEF Now, First, Claims, Lo, Hi, Scanning, Reading, Placed, Stuck
  <1>8. TblSize' - 1 + 1 = TblSize' /\ TblSize' - 1 + 0 + 1 = TblSize' BY <1>6 DEF TblSize
  <1>9. Claims(a)' => Lo(a)' = TblSize' /\ Hi(a)' = TblSize' /\ Scanning(a)' BY <1>7, <1>8
  <1> HIDE DEF Lo, Hi, Claims, Scanning
  <1> QED BY <1>3, <1>5, <1>6, <1>9 DEF Zones, Bounds, Separate, Within

LEMMA ScanZone ==
    ASSUME TypeOK, Turns, Order, Bounds, Separate, Tags, NEW a \in Agents, Scan(a)
    PROVE  Zones
  <1>1. /\ pc[a] = "m_scan" /\ MayStep(a) /\ memmap' = memmap /\ live' = live
        /\ memsize' = memsize /\ (Level' => Level)
    BY DEF Scan, At, Level
  <1>2. ScansAlone(a) /\ Claims(a) /\ ~Tagged(a) /\ Lo(a) = off[a] + 1 /\ Hi(a) = off[a] + k[a] + 1
    BY <1>1, AloneScans DEF Claims, Scanning, Tagged, Placed, Reading, Stuck, Lo, Hi
  <1>3. off[a] \in Int /\ k[a] \in Nat /\ x[a] \in Nat /\ TblSize \in Int BY TableFits DEF TypeOK
  <1>4. \E p, o, n, m : Now(a, p, o, n, m) BY SomeMove DEF Acts, MallocStep
  <1>5. CASE off[a] < 0
    <2>1. Now(a, "m_fail", off[a], x[a], k[a]) BY <1>3, <1>5, Moves
    <2>2. ~Claims(a)' BY <2>1 DEF Now, Claims, Scanning, Reading, Placed, Stuck
    <2> QED BY <1>1, <1>4, <2>2, Drops
  <1>6. CASE off[a] >= 0 /\ memmap[off[a]] # 0
    <2>1. Now(a, "m_jump", off[a], x[a], k[a]) BY <1>3, <1>6, Moves
    <2>2. Lo(a)' = Lo(a) /\ Hi(a)' = Hi(a) /\ off'[a] = off[a] /\ Scanning(a)'
      BY <1>2, <2>1 DEF Now, Lo, Hi, Scanning
    <2> HIDE DEF Lo, Hi, Claims, Scanning
    <2> QED BY <1>1, <1>2, <1>4, <2>2, Keeps DEF ScansAlone
  <1>7. CASE off[a] >= 0 /\ memmap[off[a]] = 0
    <2>1. IF k[a] + 1 = x[a] THEN Now(a, "m_tag1", off[a], x[a], k[a] + 1)
          ELSE Now(a, "m_scan", off[a] - 1, x[a], k[a] + 1)
      BY <1>3, <1>7, Moves
    <2>2. /\ Lo(a)' = off[a] /\ Hi(a)' = off[a] + k[a] + 1
          /\ ~Scanning(a)' => off'[a] = off[a]
      BY <1>3, <2>1 DEF Now, Lo, Hi, Scanning, Reading
    <2>3. off[a] + k[a] + 1 <= TblSize BY <1>2 DEF Bounds, Within
    <2>4. ASSUME NEW lo, NEW hi, Solid(lo, hi) PROVE Beside(off[a], off[a] + k[a] + 1, lo, hi)
      <3>1. lo \in Int /\ hi \in Int BY <2>4, BlockFacts
      <3>2. Beside(off[a] + 1, off[a] + k[a] + 1, lo, hi) BY <1>2, <2>4, BlocksClear
      <3>3. hi # off[a] + 1 BY <1>2, <1>7, <2>4, TagMet
      <3> QED BY <1>3, <3>1, <3>2, <3>3 DEF Beside
    <2>5. off[a] \in 0 .. TblSize - 1 /\ off[a] < off[a] + k[a] + 1 /\ off[a] + k[a] + 1 \in Int
      BY <1>3, <1>7, <2>3
    <2>6. \A g \in Agents \ {a} : Claims(g)' => Tagged(g)
      BY <1>1, <1>2, <1>4, OthersTagged DEF ScansAlone
    <2> HIDE DEF Lo, Hi, Claims, Scanning
    <2> QED BY <1>1, <1>2, <1>4, <1>7, <2>2, <2>3, <2>4, <2>5, <2>6, ZoneMoves DEF Zones
  <1> QED BY <1>3, <1>5, <1>6, <1>7

LEMMA JumpZone ==
    ASSUME TypeOK, Turns, Order, Bounds, Separate, Tags, NEW a \in Agents, Jump(a)
    PROVE  Zones /\ off'[a] \in -1 .. Top
  <1>1. /\ pc[a] = "m_jump" /\ MayStep(a) /\ memmap' = memmap /\ live' = live
        /\ memsize' = memsize /\ (Level' => Level)
        /\ Now(a, "m_scan", off[a] - memmap[off[a]], x[a], 0)
    BY Moves DEF Jump, At, Level
  <1>2. ScansAlone(a) /\ Claims(a) /\ ~Tagged(a) /\ Lo(a) = off[a] + 1 /\ Hi(a) = off[a] + k[a] + 1
        /\ off[a] >= 0
    BY <1>1, AloneScans DEF Claims, Scanning, Tagged, Placed, Reading, Stuck, Lo, Hi, Turns, Turn
  <1>3. off[a] \in Int /\ k[a] \in Nat /\ TblSize \in Int /\ TblSize <= Top /\ Top \in Int
    BY TableFits, SizeAssumption DEF TypeOK
  <1>4. off[a] + 1 <= TblSize BY <1>2, <1>3 DEF Bounds, Within
  <1> DEFINE e == off[a] - memmap[off[a]] + 1
  <1>5. /\ e \in Int /\ 0 <= e /\ e <= off[a] + 1
        /\ \A lo, hi : Solid(lo, hi) => Beside(e, e, lo, hi)
    <2>1. CASE memmap[off[a]] = 0
      <3>1. e = off[a] + 1 BY <1>3, <2>1
      <3>2. ASSUME NEW lo, NEW hi, Solid(lo, hi) PROVE Beside(e, e, lo, hi)
        <4>1. Beside(off[a] + 1, off[a] + k[a] + 1, lo, hi) BY <1>2, <3>2, BlocksClear
        <4>2. lo \in Int /\ hi \in Int BY <3>2, BlockFacts
        <4> QED BY <1>3, <3>1, <4>1, <4>2 DEF Beside
      <3> QED BY <1>2, <1>3, <3>1, <3>2
    <2>2. CASE memmap[off[a]] # 0
      <3>0. memmap[off[a]] \in Int BY <1>2, <1>3, <1>4, TableFits, SizeAssumption DEF TypeOK
      <3>1. Solid(off[a] + 1 - memmap[off[a]], off[a] + 1) BY <1>2, <2>2, TagMet
      <3>2. e = off[a] + 1 - memmap[off[a]] BY <1>3, <3>0
      <3>3. Solid(e, off[a] + 1) BY <3>1, <3>2
      <3> HIDE DEF e
      <3>4. e \in Int /\ 0 <= e /\ e < off[a] + 1 BY <3>3, BlockFacts
      <3>5. ASSUME NEW lo, NEW hi, Solid(lo, hi) PROVE Beside(e, e, lo, hi)
        <4>1. (e = lo /\ off[a] + 1 = hi) \/ Beside(e, off[a] + 1, lo, hi) BY <3>3, <3>5, BlocksApart
        <4>2. lo \in Int /\ hi \in Int BY <3>5, BlockFacts
        <4> QED BY <1>3, <3>4, <4>1, <4>2 DEF Beside
      <3> QED BY <1>3, <3>4, <3>5
    <2> QED BY <2>1, <2>2
  <1>6. Lo(a)' = off[a] - memmap[off[a]] + 1 /\ Hi(a)' = off[a] - memmap[off[a]] + 0 + 1 /\ Scanning(a)'
    BY <1>1 DEF Now, Lo, Hi, Scanning
  <1>7. memmap[off[a]] \in Int BY <1>2, <1>3, <1>4, TableFits, SizeAssumption DEF TypeOK
  <1>8. Lo(a)' = e /\ Hi(a)' = e BY <1>3, <1>6, <1>7
  <1>9. off'[a] = e - 1 BY <1>1, <1>3, <1>7 DEF Now
  <1>10. Level' => Level BY <1>1 DEF Level
  <1>11. \A g \in Agents \ {a} : Claims(g)' => Tagged(g)
    BY <1>1, <1>2, <1>10, OthersTagged DEF ScansAlone
  <1> HIDE DEF e, Lo, Hi, Claims, Scanning
  <1>12. Zones
    BY <1>1, <1>2, <1>3, <1>4, <1>5, <1>6, <1>8, <1>10, <1>11, ZoneMoves DEF Zones
  <1> QED BY <1>3, <1>4, <1>5, <1>9, <1>12

LEMMA GrantZone ==
    ASSUME TypeOK, Turns, Bounds, Separate, NEW a \in Agents, MallocDone(a)
    PROVE  Zones
  <1> DEFINE n == <<off[a], x[a]>>
  <1>1. /\ pc[a] = "m_done" /\ live' = live \cup {n} /\ memsize' = memsize /\ memmap' = memmap
        /\ Now(a, "idle", 0, 0, 0) /\ (Level' => Level)
    BY Moves DEF MallocDone, At, Level
  <1>2. Claims(a) /\ ~Scanning(a) /\ Lo(a) = off[a] /\ Hi(a) = off[a] + x[a]
    BY <1>1 DEF Claims, Placed, Scanning, Reading, Lo, Hi
  <1>3. n[1] = Lo(a) /\ n[1] + n[2] = Hi(a) /\ n[2] > 0
    BY <1>1, <1>2 DEF Turns, Turn, Placed
  <1>4. Within(n[1], n[1] + n[2])
    <2>1. Within(Lo(a), Hi(a)) BY <1>2 DEF Bounds
    <2> QED BY <1>3, <2>1
  <1>5. \A g \in Agents \ {a} : /\ Lo(g)' = Lo(g) /\ Hi(g)' = Hi(g) /\ off'[g] = off[g]
                                /\ Claims(g)' => Claims(g)
                                /\ Scanning(g)' <=> Scanning(g)
    BY <1>1, Kept
  <1>6. ~Claims(a)' BY <1>1 DEF Now, Claims, Scanning, Reading, Placed, Stuck
  <1>7. TblSize' = TblSize BY <1>1 DEF TblSize
  <1>8. \A b \in live : Beside(n[1], n[1] + n[2], b[1], b[1] + b[2]) BY <1>2, <1>3 DEF Separate
  <1>9. \A g \in Agents \ {a} : Claims(g) => Beside(Lo(g), Hi(g), n[1], n[1] + n[2])
    BY <1>2, <1>3 DEF Separate
  <1> HIDE DEF n, Lo, Hi, Claims, Scanning
  <1>10. \A b \in live : Beside(b[1], b[1] + b[2], n[1], n[1] + n[2]) BY <1>8 DEF Beside
  <1>11. Bounds' BY <1>1, <1>3, <1>4, <1>5, <1>6, <1>7 DEF Bounds, Within
  <1>12. Separate'
    <2>1. \A b, c \in live' : b # c => Beside(b[1], b[1] + b[2], c[1], c[1] + c[2])
      BY <1>1, <1>8, <1>10 DEF Separate
    <2>2. \A g \in Agents, b \in live' : Claims(g)' => Beside(Lo(g)', Hi(g)', b[1], b[1] + b[2])
      BY <1>1, <1>5, <1>6, <1>9 DEF Separate
    <2>3. \A g, h \in Agents : g # h /\ Claims(g)' /\ Claims(h)' => Beside(Lo(g)', Hi(g)', Lo(h)', Hi(h)')
      BY <1>5, <1>6 DEF Separate
    <2> QED BY <2>1, <2>2, <2>3 DEF Separate, Beside
  <1> QED BY <1>11, <1>12 DEF Zones

LEMMA GiveZone ==
    ASSUME TypeOK, Bounds, Separate, Tags, NEW a \in Agents, NEW b \in live, FreeCall(a, b)
    PROVE  Zones /\ Lo(a)' = b[1] /\ Hi(a)' = b[1] + b[2]
  <1>1. /\ live' = live \ {b} /\ memsize' = memsize /\ memmap' = memmap
        /\ Now(a, "f_lock", b[1], x[a], k[a]) /\ (Level' => Level)
    BY Moves DEF FreeCall, Level
  <1>2. /\ Claims(a)' /\ ~Scanning(a)' /\ Lo(a)' = b[1] /\ Hi(a)' = b[1] + b[2] /\ off'[a] = b[1]
    BY <1>1 DEF Now, Claims, Scanning, Reading, Lo, Hi, Tags
  <1>3. \A g \in Agents \ {a} : /\ Lo(g)' = Lo(g) /\ Hi(g)' = Hi(g) /\ off'[g] = off[g]
                                /\ Claims(g)' => Claims(g)
                                /\ Scanning(g)' <=> Scanning(g)
    BY <1>1, Kept
  <1>4. TblSize' = TblSize /\ TblSize \in Int BY <1>1, TableFits DEF TblSize
  <1>5. b[1] \in Int /\ b[2] \in Int /\ Within(b[1], b[1] + b[2]) /\ b[2] > 0 BY LiveInts DEF Bounds
  <1>6. \A c \in live : c # b => Beside(b[1], b[1] + b[2], c[1], c[1] + c[2]) BY DEF Separate
  <1>7. \A g \in Agents : Claims(g) => Beside(Lo(g), Hi(g), b[1], b[1] + b[2]) BY DEF Separate
  <1>8. b[1] \in 0 .. TblSize - 1 /\ b[1] < b[1] + b[2] BY <1>4, <1>5 DEF Within
  <1> HIDE DEF Lo, Hi, Claims, Scanning
  <1>9. Bounds'
    <2>1. ASSUME NEW g \in Agents, Claims(g)'
          PROVE  /\ 0 <= Lo(g)' /\ Lo(g)' <= Hi(g)' /\ Hi(g)' <= TblSize'
                 /\ ~Scanning(g)' => off'[g] \in 0 .. TblSize' - 1 /\ Lo(g)' < Hi(g)'
      <3>1. CASE g = a BY <1>2, <1>4, <1>5, <1>8, <3>1 DEF Within
      <3>2. CASE g # a BY <1>3, <1>4, <2>1, <3>2 DEF Bounds, Within
      <3> QED BY <3>1, <3>2
    <2> QED BY <1>1, <1>4, <2>1 DEF Bounds, Within
  <1>10. Separate'
    <2>1. \A c, d \in live' : c # d => Beside(c[1], c[1] + c[2], d[1], d[1] + d[2])
      BY <1>1 DEF Separate
    <2>2. \A g \in Agents, c \in live' : Claims(g)' => Beside(Lo(g)', Hi(g)', c[1], c[1] + c[2])
      BY <1>1, <1>2, <1>3, <1>6 DEF Separate
    <2>3. \A g \in Agents \ {a} : Claims(g)' => Beside(Lo(g)', Hi(g)', Lo(a)', Hi(a)')
      BY <1>2, <1>3, <1>7
    <2>4. \A g \in Agents \ {a} : Claims(g)' => Beside(Lo(a)', Hi(a)', Lo(g)', Hi(g)')
      BY <2>3 DEF Beside
    <2>5. \A g, h \in Agents : g # h /\ Claims(g)' /\ Claims(h)' => Beside(Lo(g)', Hi(g)', Lo(h)', Hi(h)')
      BY <1>3, <2>3, <2>4 DEF Separate
    <2> QED BY <2>1, <2>2, <2>5 DEF Separate, Beside
  <1> QED BY <1>2, <1>9, <1>10 DEF Zones

\* The steps that write the cells of a's own block.
LEMMA TagZone ==
    ASSUME TypeOK, Bounds, Separate, NEW a \in Agents, Tag1(a) \/ Tag2(a) \/ Untag1(a) \/ Untag2(a)
    PROVE  /\ \A g \in Agents \ {a} : Reading(g) => memmap'[off[g]] = memmap[off[g]]
           /\ Zones
  <1>1. /\ pc[a] \in {"m_tag1", "m_tag2", "f_tag1", "f_tag2"}
        /\ pc'[a] \in {"m_tag2", "m_line", "f_tag2", "f_line"}
        /\ off'[a] = off[a] /\ x'[a] = x[a] /\ live' = live /\ memsize' = memsize /\ (Level' => Level)
        /\ \E p, o, n, m : Now(a, p, o, n, m)
    BY Moves DEF Now, Tag1, Tag2, Untag1, Untag2, At, Level
  <1>2. /\ Claims(a) /\ ~Scanning(a) /\ ~Scanning(a)'
        /\ Lo(a) = off[a] /\ Hi(a) = off[a] + x[a] /\ Lo(a)' = off[a] /\ Hi(a)' = off[a] + x[a]
    BY <1>1 DEF Claims, Scanning, Reading, Placed, Stuck, Lo, Hi
  <1>3. off[a] \in Int /\ x[a] \in Int /\ off[a] < off[a] + x[a] BY <1>2 DEF TypeOK, Bounds
  <1>4. \/ \A d \in Cells : d # off[a] => memmap'[d] = memmap[d]
        \/ \A d \in Cells : d # off[a] + x[a] - 1 => memmap'[d] = memmap[d]
    BY DEF TypeOK, Tag1, Tag2, Untag1, Untag2
  <1> HIDE DEF Lo, Hi, Claims, Scanning, Reading
  <1>5. \A g \in Agents \ {a} : Reading(g) => memmap'[off[g]] = memmap[off[g]]
    <2>1. CASE \A d \in Cells : d # off[a] => memmap'[d] = memmap[d]
      BY <1>2, <1>3, <2>1, WritesOwn
    <2>2. CASE \A d \in Cells : d # off[a] + x[a] - 1 => memmap'[d] = memmap[d]
      <3>1. off[a] + x[a] - 1 \in Int /\ Lo(a) <= off[a] + x[a] - 1 /\ off[a] + x[a] - 1 < Hi(a)
        BY <1>2, <1>3
      <3> QED BY <1>2, <2>2, <3>1, WritesOwn
    <2> QED BY <1>4, <2>1, <2>2
  <1>6. Zones BY <1>1, <1>2, <1>5, Keeps
  <1> QED BY <1>5, <1>6

LEMMA ZonesNext ==
    ASSUME TypeOK, Turns, Order, Fresh, Bounds, Separate, Tags, NEW a \in Agents, Acts(a), Sound', TypeOK'
    PROVE  Zones
  <1>0. \E p, o, n, m : Now(a, p, o, n, m) BY SomeMove
  <1>l. Level' => Level BY NestedGrows DEF Level
  <1>1. ASSUME NEW size \in Sizes, Malloc(a, size) PROVE Zones
    <2>1. ~Claims(a)'
      BY <1>1, Moves DEF Now, Claims, Scanning, Reading, Placed, Stuck
    <2> QED BY <1>0, <1>l, <1>1, <2>1, Drops DEF Malloc
  <1>2. ASSUME NEW pos \in Breaks, Brk(a, pos) PROVE Zones
    <2>1. ~Claims(a)'
      BY <1>2, Moves DEF Now, Claims, Scanning, Reading, Placed, Stuck
    <2> QED BY <1>0, <1>l, <1>2, <2>1, Drops DEF Brk
  <1>3. ASSUME BrkCheck(a) \/ Table(a) PROVE Zones
    <2>1. ~Claims(a)'
      BY <1>3, Moves DEF Now, Claims, Scanning, Reading, Placed, Stuck
    <2> QED BY <1>0, <1>l, <1>3, <2>1, Drops DEF BrkCheck, Table
  <1>4. ASSUME MallocFail(a) \/ FreeDone(a) \/ Raise(a) PROVE Zones
    <2>1. ~Claims(a)'
      BY <1>4, Moves DEF Now, Claims, Scanning, Reading, Placed, Stuck
    <2> QED BY <1>0, <1>l, <1>4, <2>1, Drops DEF MallocFail, FreeDone, Raise
  <1>5. ASSUME MallocLine(a) \/ Lower(a) \/ MallocCheck(a) PROVE Zones
    <2>1. pc[a] \in {"m_line", "m_lower", "m_check"} /\ memmap' = memmap /\ live' = live /\ memsize' = memsize
      BY <1>5 DEF MallocLine, Lower, MallocCheck, At
    <2>2. /\ pc'[a] \in {"m_lower", "m_check", "m_done", "m_hung"}
          /\ off'[a] = off[a] /\ x'[a] = x[a] /\ x[a] > 0
      BY <1>5, <2>1, Moves DEF Now, Turns, Turn, Placed
    <2>3. /\ Claims(a) /\ ~Scanning(a) /\ ~Scanning(a)' /\ Lo(a)' = Lo(a) /\ Hi(a)' = Hi(a)
      BY <2>1, <2>2 DEF Claims, Scanning, Reading, Placed, Lo, Hi
    <2> HIDE DEF Lo, Hi, Claims, Scanning
    <2> QED BY <1>0, <1>l, <2>1, <2>2, <2>3, Keeps
  <1>6. ASSUME FreeLock(a) \/ FreeRead(a) PROVE Zones
    <2>1. pc[a] \in {"f_lock", "f_read"} /\ memmap' = memmap /\ live' = live /\ memsize' = memsize
      BY <1>6 DEF FreeLock, FreeRead, At
    <2>2. off'[a] = off[a] /\ (pc'[a] = "f_read" \/ (pc'[a] = "f_tag1" /\ x'[a] = memmap[off[a]]))
      BY <1>6, Moves DEF Now
    <2>3. /\ Claims(a) /\ ~Scanning(a) /\ ~Scanning(a)' /\ Lo(a)' = Lo(a) /\ Hi(a)' = Hi(a)
      BY <2>1, <2>2 DEF Claims, Scanning, Reading, Lo, Hi
    <2> HIDE DEF Lo, Hi, Claims, Scanning
    <2> QED BY <1>0, <1>l, <2>1, <2>2, <2>3, Keeps
  <1>7. ASSUME FreeLine(a) PROVE Zones
    <2>1. pc[a] = "f_line" /\ memmap' = memmap /\ live' = live /\ memsize' = memsize
      BY <1>7 DEF FreeLine, At
    <2>2. pc'[a] \in {"f_raise", "f_done"} /\ off'[a] = off[a] /\ x'[a] = x[a] BY <1>7, Moves DEF Now
    <2>3. CASE pc'[a] = "f_done"
      <3>1. ~Claims(a)' BY <2>3 DEF Claims, Scanning, Reading, Placed, Stuck
      <3> QED BY <1>0, <1>l, <2>1, <3>1, Drops
    <2>4. CASE pc'[a] = "f_raise"
      <3>1. /\ ~Scanning(a) /\ ~Scanning(a)' /\ Lo(a)' = Lo(a) /\ Hi(a)' = Hi(a)
            /\ Claims(a)' => Claims(a)
        BY <1>l, <2>1, <2>2, <2>4 DEF Claims, Scanning, Reading, Placed, Stuck, Lo, Hi
      <3>2. CASE ~Claims(a)' BY <1>0, <1>l, <2>1, <3>2, Drops
      <3> HIDE DEF Lo, Hi, Claims, Scanning
      <3> QED BY <1>0, <1>l, <2>1, <2>2, <3>1, <3>2, Keeps
    <2> QED BY <2>2, <2>3, <2>4
  <1> QED
    BY <1>1, <1>2, <1>3, <1>4, <1>5, <1>6, <1>7, StartZone, ClearZone, ScanZone, JumpZone,
       GrantZone, GiveZone, TagZone
    DEF Acts, Calls, MallocStep, FreeStep

-----------------------------------------------------------------------------
(***************************************************************************)
(* The tags.                                                               *)
(***************************************************************************)
LEMMA MarkedHas ==
    ASSUME NEW g \in Agents, HasFirst(g) \/ HasLast(g)
    PROVE  Claims(g) /\ ~Scanning(g) /\ Lo(g) = off[g]
  BY DEF HasFirst, HasLast, Tagged, Claims, Scanning, Placed, Reading, Stuck, Lo

LEMMA TagsKept ==
    ASSUME TypeOK, Tags, NEW a \in Agents, \E p, o, n, m : Now(a, p, o, n, m),
           memmap' = memmap, live' = live, Level' => Level,
           HasFirst(a)' <=> HasFirst(a), HasLast(a)' <=> HasLast(a),
           HasFirst(a) \/ HasLast(a) => off'[a] = off[a] /\ Hi(a)' = Hi(a) /\ Length(a)' = Length(a)
    PROVE  Tags'
  <1>1. \A g \in Agents \ {a} : /\ off'[g] = off[g] /\ Hi(g)' = Hi(g) /\ Length(g)' = Length(g)
                                /\ HasFirst(g)' <=> HasFirst(g)
                                /\ HasLast(g)' <=> HasLast(g)
    BY Kept
  <1>2. \A g \in Agents : /\ HasFirst(g)' <=> HasFirst(g)
                          /\ HasLast(g)' <=> HasLast(g)
                          /\ HasFirst(g) \/ HasLast(g) =>
                               off'[g] = off[g] /\ Hi(g)' = Hi(g) /\ Length(g)' = Length(g)
    BY <1>1
  <1> HIDE DEF HasFirst, HasLast, Hi, Length
  <1>3. \A g \in Agents : HasFirst(g)' => memmap'[off'[g]] = Length(g)' BY <1>2 DEF Tags
  <1>4. \A g \in Agents : HasLast(g)' => memmap'[Hi(g)' - 1] = Length(g)' BY <1>2 DEF Tags
  <1>5. ASSUME NEW c \in Cells, memmap'[c] # 0
        PROVE  \/ \E b \in live' : c = b[1] \/ c = b[1] + b[2] - 1
               \/ \E g \in Agents : (HasFirst(g)' /\ c = off'[g]) \/ (HasLast(g)' /\ c = Hi(g)' - 1)
    BY <1>2, <1>5 DEF Tags
  <1> QED BY <1>3, <1>4, <1>5 DEF Tags

\* The only cell written is one that a has to itself.
LEMMA TagsWritten ==
    ASSUME TypeOK, Bounds, Separate, Tags, NEW a \in Agents, \E p, o, n, m : Now(a, p, o, n, m),
           Claims(a), NEW c \in Int, Lo(a) <= c, c < Hi(a),
           \A d \in Cells : d # c => memmap'[d] = memmap[d],
           live' = live, Level' => Level, off'[a] = off[a], Hi(a)' = Hi(a), Length(a)' = Length(a),
           HasFirst(a)' => memmap'[off[a]] = Length(a),
           HasLast(a)' => memmap'[Hi(a) - 1] = Length(a),
           memmap'[c] # 0 => (HasFirst(a)' /\ c = off[a]) \/ (HasLast(a)' /\ c = Hi(a) - 1),
           HasFirst(a) /\ c # off[a] => HasFirst(a)',
           HasLast(a) /\ c # Hi(a) - 1 => HasLast(a)'
    PROVE  Tags'
  <1>1. \A g \in Agents \ {a} : Reading(g) => memmap'[off[g]] = memmap[off[g]] BY WritesOwn
  <1>2. \A g \in Agents \ {a} : /\ off'[g] = off[g] /\ Hi(g)' = Hi(g) /\ Length(g)' = Length(g)
                                /\ HasFirst(g)' <=> HasFirst(g)
                                /\ HasLast(g)' <=> HasLast(g)
    BY <1>1, Kept
  <1>3. Lo(a) \in Int /\ Hi(a) \in Int BY ZoneInts
  <1>4. ASSUME NEW g \in Agents \ {a}, HasFirst(g) \/ HasLast(g)
        PROVE  memmap'[off[g]] = memmap[off[g]] /\ memmap'[Hi(g) - 1] = memmap[Hi(g) - 1]
    <2>1. Claims(g) /\ ~Scanning(g) /\ Lo(g) = off[g] BY <1>4, MarkedHas
    <2>2. Lo(g) \in Int /\ Hi(g) \in Int /\ 0 <= Lo(g) /\ Lo(g) < Hi(g) /\ Hi(g) <= TblSize
      BY <2>1, ZoneInts DEF Bounds, Within
    <2>3. Beside(Lo(a), Hi(a), Lo(g), Hi(g)) BY <2>1 DEF Separate
    <2>4. off[g] # c /\ Hi(g) - 1 # c BY <1>3, <2>1, <2>2, <2>3 DEF Beside
    <2>5. off[g] \in Cells /\ Hi(g) - 1 \in Cells BY <2>1, <2>2, TableFits
    <2> QED BY <2>4, <2>5
  <1>5. ASSUME NEW b \in live
        PROVE  memmap'[b[1]] = memmap[b[1]] /\ memmap'[b[1] + b[2] - 1] = memmap[b[1] + b[2] - 1]
    <2>1. b[1] \in Int /\ b[2] \in Int /\ 0 <= b[1] /\ b[2] > 0 /\ b[1] + b[2] <= TblSize
      BY LiveInts DEF Bounds, Within
    <2>2. Beside(Lo(a), Hi(a), b[1], b[1] + b[2]) BY DEF Separate
    <2>3. b[1] # c /\ b[1] + b[2] - 1 # c BY <1>3, <2>1, <2>2 DEF Beside
    <2>4. b[1] \in Cells /\ b[1] + b[2] - 1 \in Cells BY <2>1, TableFits
    <2> QED BY <2>3, <2>4
  <1> HIDE DEF HasFirst, HasLast, Hi, Lo, Length, Claims
  <1>6. \A b \in live' : memmap'[b[1]] = b[2] /\ memmap'[b[1] + b[2] - 1] = b[2] BY <1>5 DEF Tags
  <1>7. ASSUME NEW g \in Agents, HasFirst(g)' PROVE memmap'[off'[g]] = Length(g)'
    <2>1. CASE g = a BY <1>7, <2>1
    <2>2. CASE g # a BY <1>2, <1>4, <1>7, <2>2 DEF Tags
    <2> QED BY <2>1, <2>2
  <1>8. ASSUME NEW g \in Agents, HasLast(g)' PROVE memmap'[Hi(g)' - 1] = Length(g)'
    <2>1. CASE g = a BY <1>8, <2>1
    <2>2. CASE g # a BY <1>2, <1>4, <1>8, <2>2 DEF Tags
    <2> QED BY <2>1, <2>2
  <1>9. ASSUME NEW d \in Cells, memmap'[d] # 0
        PROVE  \/ \E b \in live' : d = b[1] \/ d = b[1] + b[2] - 1
               \/ \E g \in Agents : (HasFirst(g)' /\ d = off'[g]) \/ (HasLast(g)' /\ d = Hi(g)' - 1)
    <2>1. CASE d = c BY <1>9, <2>1
    <2>2. CASE d # c
      <3>1. memmap[d] # 0 BY <1>9, <2>2
      <3>2. CASE \E b \in live : d = b[1] \/ d = b[1] + b[2] - 1 BY <3>2
      <3>3. CASE \E g \in Agents : (HasFirst(g) /\ d = off[g]) \/ (HasLast(g) /\ d = Hi(g) - 1)
        <4>1. PICK g \in Agents : (HasFirst(g) /\ d = off[g]) \/ (HasLast(g) /\ d = Hi(g) - 1) BY <3>3
        <4>2. CASE g = a BY <2>2, <4>1, <4>2
        <4>3. CASE g # a BY <1>2, <4>1, <4>3
        <4> QED BY <4>2, <4>3
      <3> QED BY <3>1, <3>2, <3>3 DEF Tags
    <2> QED BY <2>1, <2>2
  <1> QED BY <1>6, <1>7, <1>8, <1>9 DEF Tags

LEMMA GrantTags ==
    ASSUME TypeOK, Turns, Tags, NEW a \in Agents, MallocDone(a)
    PROVE  Tags'
  <1> DEFINE n == <<off[a], x[a]>>
  <1>1. /\ pc[a] = "m_done" /\ live' = live \cup {n} /\ memmap' = memmap /\ (Level' => Level)
        /\ Now(a, "idle", 0, 0, 0)
    BY Moves DEF MallocDone, At, Level
  <1>2. HasFirst(a) /\ HasLast(a) /\ Hi(a) = off[a] + x[a] /\ Lo(a) = off[a]
    BY <1>1 DEF HasFirst, HasLast, Tagged, Placed, Hi, Lo, Scanning, Reading
  <1>3. Length(a) = x[a] BY <1>2 DEF Length, TypeOK
  <1>4. ~HasFirst(a)' /\ ~HasLast(a)' BY <1>1 DEF Now, HasFirst, HasLast, Tagged, Placed, Reading, Stuck
  <1>5. \A g \in Agents \ {a} : /\ off'[g] = off[g] /\ Hi(g)' = Hi(g) /\ Length(g)' = Length(g)
                                /\ HasFirst(g)' <=> HasFirst(g)
                                /\ HasLast(g)' <=> HasLast(g)
    BY <1>1, Kept
  <1>6. n[1] = off[a] /\ n[1] + n[2] - 1 = Hi(a) - 1 /\ memmap[n[1]] = n[2]
        /\ memmap[n[1] + n[2] - 1] = n[2]
    <2>1. off[a] \in Int /\ x[a] \in Int BY DEF TypeOK
    <2>2. n[1] = off[a] /\ n[2] = x[a] /\ n[1] + n[2] - 1 = Hi(a) - 1 BY <1>2, <2>1
    <2>3. memmap[off[a]] = x[a] /\ memmap[Hi(a) - 1] = x[a] BY <1>2, <1>3 DEF Tags
    <2> QED BY <2>2, <2>3
  <1> HIDE DEF n, HasFirst, HasLast, Hi, Lo, Length
  <1>7. \A b \in live' : memmap'[b[1]] = b[2] /\ memmap'[b[1] + b[2] - 1] = b[2]
    BY <1>1, <1>6 DEF Tags
  <1>8. \A g \in Agents : HasFirst(g)' => memmap'[off'[g]] = Length(g)' BY <1>1, <1>4, <1>5 DEF Tags
  <1>9. \A g \in Agents : HasLast(g)' => memmap'[Hi(g)' - 1] = Length(g)' BY <1>1, <1>4, <1>5 DEF Tags
  <1>10. ASSUME NEW c \in Cells, memmap'[c] # 0
         PROVE  \/ \E b \in live' : c = b[1] \/ c = b[1] + b[2] - 1
                \/ \E g \in Agents : (HasFirst(g)' /\ c = off'[g]) \/ (HasLast(g)' /\ c = Hi(g)' - 1)
    <2>1. CASE \E b \in live : c = b[1] \/ c = b[1] + b[2] - 1 BY <1>1, <2>1
    <2>2. CASE \E g \in Agents : (HasFirst(g) /\ c = off[g]) \/ (HasLast(g) /\ c = Hi(g) - 1)
      <3>1. PICK g \in Agents : (HasFirst(g) /\ c = off[g]) \/ (HasLast(g) /\ c = Hi(g) - 1) BY <2>2
      <3>2. CASE g = a BY <1>1, <1>6, <3>1, <3>2
      <3>3. CASE g # a BY <1>5, <3>1, <3>3
      <3> QED BY <3>2, <3>3
    <2> QED BY <1>1, <1>10, <2>1, <2>2 DEF Tags
  <1> QED BY <1>1, <1>2, <1>7, <1>8, <1>9, <1>10 DEF Tags

LEMMA GiveTags ==
    ASSUME TypeOK, Bounds, Separate, Tags, NEW a \in Agents, NEW b \in live, FreeCall(a, b)
    PROVE  Tags'
  <1>1. /\ live' = live \ {b} /\ memmap' = memmap /\ ~Busy(a) /\ (Level' => Level)
        /\ Now(a, "f_lock", b[1], x[a], k[a])
    BY Moves DEF FreeCall, MayStart, Level
  <1>2. HasFirst(a)' /\ HasLast(a)' /\ off'[a] = b[1] BY <1>1 DEF Now, HasFirst, HasLast, Tagged, Reading
  <1>3. Lo(a)' = b[1] /\ Hi(a)' = b[1] + b[2] BY GiveZone
  <1>4. Length(a)' = b[2]
    <2>1. b[1] + b[2] - b[1] = b[2] BY LiveInts
    <2>2. Length(a)' = Hi(a)' - Lo(a)' BY DEF Length
    <2>3. (b[1] + b[2]) - b[1] = b[2] BY LiveInts
    <2> QED BY <1>3, <2>2, <2>3
  <1>5. ~HasFirst(a) /\ ~HasLast(a) BY <1>1 DEF HasFirst, HasLast, Tagged, Placed, Reading, Stuck, Busy
  <1>6. \A g \in Agents \ {a} : /\ off'[g] = off[g] /\ Hi(g)' = Hi(g) /\ Length(g)' = Length(g)
                                /\ HasFirst(g)' <=> HasFirst(g)
                                /\ HasLast(g)' <=> HasLast(g)
    BY <1>1, Kept
  <1>7. memmap[b[1]] = b[2] /\ memmap[b[1] + b[2] - 1] = b[2] BY DEF Tags
  <1>8. b[1] + b[2] - 1 = (b[1] + b[2]) - 1 BY LiveInts
  <1> HIDE DEF HasFirst, HasLast, Hi, Lo, Length
  <1>10. \A c \in live' : memmap'[c[1]] = c[2] /\ memmap'[c[1] + c[2] - 1] = c[2] BY <1>1 DEF Tags
  <1>11. \A g \in Agents : HasFirst(g)' => memmap'[off'[g]] = Length(g)'
    BY <1>1, <1>2, <1>4, <1>6, <1>7 DEF Tags
  <1>12. \A g \in Agents : HasLast(g)' => memmap'[Hi(g)' - 1] = Length(g)'
    BY <1>1, <1>3, <1>4, <1>6, <1>7, <1>8 DEF Tags
  <1>13. ASSUME NEW c \in Cells, memmap'[c] # 0
         PROVE  \/ \E d \in live' : c = d[1] \/ c = d[1] + d[2] - 1
                \/ \E g \in Agents : (HasFirst(g)' /\ c = off'[g]) \/ (HasLast(g)' /\ c = Hi(g)' - 1)
    <2>1. CASE \E d \in live : c = d[1] \/ c = d[1] + d[2] - 1
      <3>1. PICK d \in live : c = d[1] \/ c = d[1] + d[2] - 1 BY <2>1
      <3>2. CASE d = b BY <1>2, <1>3, <1>8, <3>1, <3>2
      <3>3. CASE d # b BY <1>1, <3>1, <3>3
      <3> QED BY <3>2, <3>3
    <2>2. CASE \E g \in Agents : (HasFirst(g) /\ c = off[g]) \/ (HasLast(g) /\ c = Hi(g) - 1)
      <3>1. PICK g \in Agents : (HasFirst(g) /\ c = off[g]) \/ (HasLast(g) /\ c = Hi(g) - 1) BY <2>2
      <3>2. g # a BY <1>5, <3>1
      <3> QED BY <1>6, <3>1, <3>2
    <2> QED BY <1>1, <1>13, <2>1, <2>2 DEF Tags
  <1> QED BY <1>1, <1>10, <1>11, <1>12, <1>13 DEF Tags

\* The four writes of a tag.
LEMMA TagTags ==
    ASSUME TypeOK, Turns, Bounds, Separate, Tags, NEW a \in Agents,
           Tag1(a) \/ Tag2(a) \/ Untag1(a) \/ Untag2(a)
    PROVE  Tags'
  <1>1. /\ pc[a] \in {"m_tag1", "m_tag2", "f_tag1", "f_tag2"} /\ off'[a] = off[a] /\ x'[a] = x[a]
        /\ live' = live /\ (Level' => Level)
        /\ \E p, o, n, m : Now(a, p, o, n, m)
    BY Moves DEF Now, Tag1, Tag2, Untag1, Untag2, At, Level
  <1>2. /\ off[a] \in Int /\ x[a] \in Int /\ x[a] > 0
    BY <1>1 DEF Turns, Turn, MallocPCs, FreePCs, TypeOK
  <1>3. /\ Claims(a) /\ Lo(a) = off[a] /\ Hi(a) = off[a] + x[a] /\ ~Scanning(a)
    BY <1>1 DEF Claims, Lo, Hi, Scanning, Reading
  <1>4. Length(a) = x[a] BY <1>2, <1>3 DEF Length
  <1>5. 0 <= off[a] /\ off[a] + x[a] <= TblSize BY <1>3 DEF Bounds, Within
  <1>6. off[a] \in Cells /\ off[a] + x[a] - 1 \in Cells BY <1>2, <1>5, TableFits
  <1>7. ASSUME pc'[a] \in {"m_tag2", "m_line", "f_tag2", "f_line"}
        PROVE  Hi(a)' = Hi(a) /\ Length(a)' = Length(a)
    <2>1. Hi(a)' = off[a] + x[a] /\ Lo(a)' = off[a] BY <1>1, <1>7 DEF Hi, Lo, Scanning, Reading
    <2> QED BY <1>3, <2>1 DEF Length
  <1>8. CASE Tag1(a)
    <2>1. /\ memmap' = [memmap EXCEPT ![off[a]] = x[a]] /\ pc[a] = "m_tag1" /\ pc'[a] = "m_tag2"
      BY <1>8, Moves DEF Now, Tag1, At
    <2>2. ~HasFirst(a) /\ ~HasLast(a) /\ HasFirst(a)' /\ ~HasLast(a)'
      BY <2>1 DEF HasFirst, HasLast, Tagged, Placed, Reading, Stuck
    <2>3. memmap'[off[a]] = x[a] /\ \A d \in Cells : d # off[a] => memmap'[d] = memmap[d]
      BY <1>6, <2>1 DEF TypeOK
    <2> HIDE DEF HasFirst, HasLast, Hi, Lo, Length, Claims, Scanning
    <2> QED BY <1>1, <1>2, <1>3, <1>4, <1>7, <2>1, <2>2, <2>3, TagsWritten
  <1>9. CASE Tag2(a)
    <2>1. /\ memmap' = [memmap EXCEPT ![off[a] + x[a] - 1] = x[a]] /\ pc[a] = "m_tag2" /\ pc'[a] = "m_line"
      BY <1>9, Moves DEF Now, Tag2, At
    <2>2. HasFirst(a) /\ ~HasLast(a) /\ HasFirst(a)' /\ HasLast(a)'
      BY <2>1 DEF HasFirst, HasLast, Tagged, Placed, Reading, Stuck
    <2>3. /\ memmap'[off[a] + x[a] - 1] = x[a]
          /\ \A d \in Cells : d # off[a] + x[a] - 1 => memmap'[d] = memmap[d]
      BY <1>6, <2>1 DEF TypeOK
    <2>4. memmap[off[a]] = x[a] BY <1>4, <2>2 DEF Tags
    <2>5. memmap'[off[a]] = x[a] BY <1>6, <2>3, <2>4
    <2>6. off[a] + x[a] - 1 = Hi(a) - 1 /\ off[a] + x[a] - 1 \in Int
          /\ Lo(a) <= off[a] + x[a] - 1 /\ off[a] + x[a] - 1 < Hi(a)
      BY <1>2, <1>3
    <2> HIDE DEF HasFirst, HasLast, Hi, Lo, Length, Claims, Scanning
    <2> QED BY <1>1, <1>2, <1>3, <1>4, <1>7, <2>1, <2>2, <2>3, <2>5, <2>6, TagsWritten
  <1>10. CASE Untag1(a)
    <2>1. /\ memmap' = [memmap EXCEPT ![off[a]] = 0] /\ pc[a] = "f_tag1" /\ pc'[a] = "f_tag2"
      BY <1>10, Moves DEF Now, Untag1, At
    <2>2. HasFirst(a) /\ HasLast(a) /\ ~HasFirst(a)' /\ (HasLast(a)' <=> x[a] > 1)
      BY <1>1, <2>1 DEF HasFirst, HasLast, Tagged, Placed, Reading, Stuck
    <2>3. memmap'[off[a]] = 0 /\ \A d \in Cells : d # off[a] => memmap'[d] = memmap[d]
      BY <1>6, <2>1 DEF TypeOK
    <2>4. off[a] + x[a] - 1 = Hi(a) - 1 /\ (x[a] > 1 <=> Hi(a) - 1 # off[a]) BY <1>2, <1>3
    <2>5. memmap[Hi(a) - 1] = x[a] BY <1>4, <2>2 DEF Tags
    <2>6. HasLast(a)' => memmap'[Hi(a) - 1] = x[a] BY <1>6, <2>2, <2>3, <2>4, <2>5
    <2>7. HasLast(a) /\ off[a] # Hi(a) - 1 => HasLast(a)' BY <2>2, <2>4
    <2> HIDE DEF HasFirst, HasLast, Hi, Lo, Length, Claims, Scanning
    <2> QED BY <1>1, <1>2, <1>3, <1>4, <1>7, <2>1, <2>2, <2>3, <2>6, <2>7, TagsWritten
  <1>11. CASE Untag2(a)
    <2>1. /\ memmap' = [memmap EXCEPT ![off[a] + x[a] - 1] = 0] /\ pc[a] = "f_tag2" /\ pc'[a] = "f_line"
      BY <1>11, Moves DEF Now, Untag2, At
    <2>2. ~HasFirst(a) /\ ~HasFirst(a)' /\ ~HasLast(a)'
      BY <2>1 DEF HasFirst, HasLast, Tagged, Placed, Reading, Stuck
    <2>3. /\ memmap'[off[a] + x[a] - 1] = 0
          /\ \A d \in Cells : d # off[a] + x[a] - 1 => memmap'[d] = memmap[d]
      BY <1>6, <2>1 DEF TypeOK
    <2>4. off[a] + x[a] - 1 = Hi(a) - 1 /\ off[a] + x[a] - 1 \in Int
          /\ Lo(a) <= off[a] + x[a] - 1 /\ off[a] + x[a] - 1 < Hi(a)
      BY <1>2, <1>3
    <2> HIDE DEF HasFirst, HasLast, Hi, Lo, Length, Claims, Scanning
    <2> QED BY <1>1, <1>2, <1>3, <1>4, <1>7, <2>1, <2>2, <2>3, <2>4, TagsWritten
  <1> QED BY <1>8, <1>9, <1>10, <1>11

LEMMA TagsNext ==
    ASSUME TypeOK, Turns, Fresh, Bounds, Separate, Tags, NEW a \in Agents, Acts(a)
    PROVE  Tags'
  <1>0. \E p, o, n, m : Now(a, p, o, n, m) BY SomeMove
  <1>1. Level' => Level BY NestedGrows DEF Level
  <1>2. ASSUME ~HasFirst(a), ~HasLast(a), ~HasFirst(a)', ~HasLast(a)', memmap' = memmap, live' = live
        PROVE  Tags'
    BY <1>0, <1>1, <1>2, TagsKept
  <1>3. ASSUME NEW size \in Sizes, Malloc(a, size) PROVE Tags'
    <2>1. pc[a] = "idle" /\ pc'[a] = "m_lock" /\ memmap' = memmap /\ live' = live
      BY <1>3, Moves DEF Now, Malloc, MayStart, Busy
    <2> QED BY <1>2, <2>1 DEF HasFirst, HasLast, Tagged, Placed, Reading, Stuck
  <1>4. ASSUME NEW pos \in Breaks, Brk(a, pos) PROVE Tags'
    <2>1. pc[a] = "idle" /\ pc'[a] = "b_check" /\ memmap' = memmap /\ live' = live
      BY <1>4, Moves DEF Now, Brk, MayStart, Busy
    <2> QED BY <1>2, <2>1 DEF HasFirst, HasLast, Tagged, Placed, Reading, Stuck
  <1>5. ASSUME BrkCheck(a) PROVE Tags'
    <2>1. /\ pc[a] = "b_check" /\ pc'[a] \in {"b_hung", "idle"}
          /\ memmap' = memmap /\ live' = live
      BY <1>5, Moves DEF Now, BrkCheck, At
    <2> QED BY <1>2, <2>1 DEF HasFirst, HasLast, Tagged, Placed, Reading, Stuck
  <1>6. ASSUME MallocLock(a) \/ Table(a) \/ Clear(a) PROVE Tags'
    <2>1. pc[a] \in {"m_lock", "m_table", "m_clear"} /\ live' = live
      BY <1>6 DEF MallocLock, Table, Clear, At
    <2>2. pc'[a] \in {"m_fail", "m_scan", "m_table", "m_clear"} BY <1>6, Moves DEF Now, First
    <2>3. memmap' = memmap
      <3>1. CASE ~Clear(a) BY <1>6, <3>1 DEF MallocLock, Table
      <3>2. CASE Clear(a)
        <4>1. ~ready BY <3>2 DEF Clear, At, Turns, Turn
        <4>2. \A c \in Cells : memmap[c] = 0 BY <4>1 DEF Fresh
        <4>3. memmap \in [Cells -> 0 .. Top] /\ memmap' = [c \in Cells |-> 0] BY <3>2 DEF Clear, TypeOK
        <4> QED BY <4>2, <4>3
      <3> QED BY <3>1, <3>2
    <2> QED BY <1>2, <2>1, <2>2, <2>3 DEF HasFirst, HasLast, Tagged, Placed, Reading, Stuck
  <1>7. ASSUME Scan(a) \/ Jump(a) PROVE Tags'
    <2>1. pc[a] \in {"m_scan", "m_jump"} /\ memmap' = memmap /\ live' = live
      BY <1>7 DEF Scan, Jump, At
    <2>2. pc'[a] \in {"m_fail", "m_jump", "m_tag1", "m_scan"} BY <1>7, Moves DEF Now
    <2> QED BY <1>2, <2>1, <2>2 DEF HasFirst, HasLast, Tagged, Placed, Reading, Stuck
  <1>8. ASSUME MallocFail(a) \/ FreeDone(a) PROVE Tags'
    <2>1. pc[a] \in {"m_fail", "f_done"} /\ memmap' = memmap /\ live' = live
      BY <1>8 DEF MallocFail, FreeDone, At
    <2>2. pc'[a] = "idle" BY <1>8, Moves DEF Now
    <2> QED BY <1>2, <2>1, <2>2 DEF HasFirst, HasLast, Tagged, Placed, Reading, Stuck
  <1>9. ASSUME FreeLine(a) \/ Raise(a) PROVE Tags'
    <2>1. pc[a] \in {"f_line", "f_raise"} /\ memmap' = memmap /\ live' = live
      BY <1>9 DEF FreeLine, Raise, At
    <2>2. pc'[a] \in {"f_raise", "f_done"} BY <1>9, Moves DEF Now
    <2> QED BY <1>2, <2>1, <2>2 DEF HasFirst, HasLast, Tagged, Placed, Reading, Stuck
  <1>10. ASSUME MallocLine(a) \/ Lower(a) \/ MallocCheck(a) PROVE Tags'
    <2>1. pc[a] \in {"m_line", "m_lower", "m_check"} /\ memmap' = memmap /\ live' = live
      BY <1>10 DEF MallocLine, Lower, MallocCheck, At
    <2>2. /\ pc'[a] \in {"m_lower", "m_check", "m_done", "m_hung"}
          /\ off'[a] = off[a] /\ x'[a] = x[a] /\ x[a] > 0
      BY <1>10, <2>1, Moves DEF Now, Turns, Turn, Placed
    <2>3. Placed(a) /\ Placed(a)' BY <2>1, <2>2 DEF Placed, Stuck
    <2>4. HasFirst(a) /\ HasLast(a) /\ HasFirst(a)' /\ HasLast(a)' BY <2>3 DEF HasFirst, HasLast, Tagged
    <2>5. Lo(a) = off[a] /\ Hi(a) = off[a] + x[a] /\ Lo(a)' = off[a] /\ Hi(a)' = off[a] + x[a]
      BY <2>1, <2>2 DEF Lo, Hi, Scanning, Reading
    <2>6. Length(a)' = Length(a) BY <2>5 DEF Length
    <2> HIDE DEF HasFirst, HasLast, Hi, Lo, Length
    <2> QED BY <1>0, <1>1, <2>1, <2>2, <2>4, <2>5, <2>6, TagsKept
  <1>11. ASSUME FreeLock(a) \/ FreeRead(a) PROVE Tags'
    <2>1. pc[a] \in {"f_lock", "f_read"} /\ memmap' = memmap /\ live' = live
      BY <1>11 DEF FreeLock, FreeRead, At
    <2>2. off'[a] = off[a] /\ (pc'[a] = "f_read" \/ (pc'[a] = "f_tag1" /\ x'[a] = memmap[off[a]]))
      BY <1>11, Moves DEF Now
    <2>3. HasFirst(a) /\ HasLast(a) /\ HasFirst(a)' /\ HasLast(a)'
      BY <2>1, <2>2 DEF HasFirst, HasLast, Tagged, Reading
    <2>4. Lo(a) = off[a] /\ Lo(a)' = off[a] /\ Hi(a)' = Hi(a)
      BY <2>1, <2>2 DEF Lo, Hi, Scanning, Reading
    <2>5. Length(a)' = Length(a) BY <2>4 DEF Length
    <2> HIDE DEF HasFirst, HasLast, Hi, Lo, Length
    <2> QED BY <1>0, <1>1, <2>1, <2>2, <2>3, <2>4, <2>5, TagsKept
  <1> QED
    BY <1>3, <1>4, <1>5, <1>6, <1>7, <1>8, <1>9, <1>10, <1>11, GrantTags, GiveTags, TagTags
    DEF Acts, Calls, MallocStep, FreeStep

-----------------------------------------------------------------------------
(***************************************************************************)
(* Where the two lines are.                                                *)
(***************************************************************************)
LEMMA LineInts ==
    ASSUME TypeOK
    PROVE  /\ heapline \in Int /\ ioline \in Int /\ broken \in Int
           /\ \A c \in Int : Address(c) \in Int
           /\ \A g \in Agents : off[g] \in Int /\ x[g] \in Nat
           /\ \A b \in live : b[1] \in Int
  BY LiveInts, SizeAssumption DEF TypeOK, Address

LEMMA LoweredHas ==
    ASSUME Level, NEW g \in Agents, Lowered(g)
    PROVE  Claims(g) /\ ~Scanning(g) /\ Lo(g) = off[g]
  BY DEF Lowered, Claims, Scanning, Reading, Placed, Stuck, Lo

LEMMA LinesKept ==
    ASSUME TypeOK, Lines, NEW a \in Agents, \E p, o, n, m : Now(a, p, o, n, m),
           ioline' = ioline, broken' = broken, base' = base, broken <= heapline',
           \A b \in live' : b \in live \/ (ioline <= Address(b[1]) /\ broken <= Address(b[1])),
           Lowered(a)' => ioline <= Address(off'[a]),
           pc'[a] = "m_lower" => ioline > Address(off'[a]),
           pc'[a] = "f_raise" => ioline = Address(off'[a]),
           pc'[a] = "m_done" => broken <= Address(off'[a]),
           (pc[a] = "m_check" \/ Stuck(a)) /\ ~(pc'[a] = "m_check" \/ Stuck(a)') => broken <= ioline
    PROVE  Lines'
  <1>1. \A g \in Agents \ {a} : /\ pc'[g] = pc[g] /\ off'[g] = off[g]
                                /\ Lowered(g)' <=> Lowered(g)
                                /\ Stuck(g)' <=> Stuck(g)
    BY DEF Now, Lowered, Reading, Stuck
  <1>2. \A c : Address(c)' = Address(c) BY DEF Address
  <1>3. \A c : base' + c * BlockSize = Address(c) BY DEF Address
  <1> HIDE DEF Lowered, Stuck, Address
  <1>4. \A b \in live' : ioline' <= base' + b[1] * BlockSize /\ broken' <= base' + b[1] * BlockSize
    BY <1>3 DEF Lines
  <1>5. \A g \in Agents : Lowered(g)' => ioline' <= base' + off'[g] * BlockSize
    BY <1>1, <1>3 DEF Lines
  <1>6. \A g \in Agents : pc'[g] = "m_lower" => ioline' > base' + off'[g] * BlockSize
    BY <1>1, <1>3 DEF Lines
  <1>7. \A g \in Agents : pc'[g] = "f_raise" => ioline' = base' + off'[g] * BlockSize
    BY <1>1, <1>3 DEF Lines
  <1>8. \A g \in Agents : pc'[g] = "m_done" => broken' <= base' + off'[g] * BlockSize
    BY <1>1, <1>3 DEF Lines
  <1>9. (\A g \in Agents : pc'[g] # "m_check" /\ ~Stuck(g)') => broken' <= ioline'
    BY <1>1 DEF Lines
  <1> QED BY <1>4, <1>5, <1>6, <1>7, <1>8, <1>9 DEF Lines, Address

\* Who moves the line down is alone with it.
LEMMA AtLine ==
    ASSUME Level, Order, NEW a \in Agents, MayStep(a), pc[a] \in {"m_line", "m_lower", "m_check"}
    PROVE  \A g \in Agents \ {a} : pc[g] \notin {"m_lower", "m_check", "f_raise"} /\ ~Stuck(g)
  <1>1. Inside(a) BY DEF Inside, MallocPCs
  <1>2. \A g \in Agents \ {a} : ~InWindow(g) BY <1>1, Alone
  <1> QED BY <1>2 DEF InWindow, Windows, Stuck

LEMMA LowerLines ==
    ASSUME TypeOK, Level, Order, Lines, NEW a \in Agents, Lower(a)
    PROVE  Lines'
  <1>1. /\ pc[a] = "m_lower" /\ MayStep(a) /\ ioline' = Address(off[a]) /\ broken' = broken
        /\ live' = live /\ base' = base /\ heapline' = heapline
        /\ Now(a, "m_check", off[a], x[a], k[a])
    BY Moves DEF Lower, At
  <1>2. \A g \in Agents \ {a} : pc[g] \notin {"m_lower", "m_check", "f_raise"} /\ ~Stuck(g)
    BY <1>1, AtLine
  <1>3. ioline' < ioline /\ ioline' \in Int BY <1>1, LineInts DEF Lines
  <1>4. \A g \in Agents \ {a} : /\ pc'[g] = pc[g] /\ off'[g] = off[g]
                                /\ Lowered(g)' <=> Lowered(g)
    BY <1>1 DEF Now, Lowered, Reading, Stuck
  <1>5. \A c : base' + c * BlockSize = Address(c) BY <1>1 DEF Address
  <1>6. pc'[a] = "m_check" /\ off'[a] = off[a] BY <1>1 DEF Now
  <1> HIDE DEF Lowered, Stuck, Address
  <1>7. \A b \in live' : ioline' <= base' + b[1] * BlockSize /\ broken' <= base' + b[1] * BlockSize
    BY <1>1, <1>3, <1>5, LineInts DEF Lines
  <1>8. \A g \in Agents : Lowered(g)' => ioline' <= base' + off'[g] * BlockSize
    BY <1>1, <1>3, <1>4, <1>5, <1>6, LineInts DEF Lines
  <1>9. \A g \in Agents : pc'[g] \notin {"m_lower", "f_raise"} BY <1>2, <1>4, <1>6
  <1>10. \A g \in Agents : pc'[g] = "m_done" => broken' <= base' + off'[g] * BlockSize
    BY <1>1, <1>4, <1>5, <1>6 DEF Lines
  <1> QED BY <1>1, <1>6, <1>7, <1>8, <1>9, <1>10 DEF Lines, Address

LEMMA RaiseLines ==
    ASSUME TypeOK, Level, Turns, Bounds, Separate, Lines, NEW a \in Agents, Raise(a)
    PROVE  Lines' /\ ioline' \in 0 .. Top
  <1>1. /\ pc[a] = "f_raise" /\ ioline' = ioline + x[a] * BlockSize /\ broken' = broken
        /\ live' = live /\ base' = base /\ heapline' = heapline
        /\ Now(a, "f_done", off[a], x[a], k[a])
    BY Moves DEF Raise, At
  <1>2. Claims(a) /\ ~Scanning(a) /\ Lo(a) = off[a] /\ Hi(a) = off[a] + x[a] /\ x[a] > 0
    BY <1>1 DEF Claims, Scanning, Reading, Lo, Hi, Turns, Turn
  <1>3. off[a] \in Int /\ x[a] \in Int /\ off[a] + x[a] \in 0 .. TblSize
    BY <1>2, TableFits DEF Bounds, Within, TypeOK
  <1>4. ioline = Address(off[a]) /\ ioline' = Address(off[a] + x[a]) /\ ioline' \in 0 .. Top
    BY <1>1, <1>3, Addresses DEF Lines
  <1>5. ioline < ioline' BY <1>2, <1>3, <1>4, Addresses
  <1>6. ASSUME NEW lo \in Int, NEW hi \in Int, lo < hi, Beside(Lo(a), Hi(a), lo, hi), ioline <= Address(lo)
        PROVE  ioline' <= Address(lo)
    <2>0. \A c, d \in Int : Address(c) \in Int /\ (Address(c) < Address(d) <=> c < d)
      BY Addresses, LineInts
    <2> HIDE DEF Address, Lo, Hi
    <2>1. ~(Address(lo) < Address(off[a])) BY <1>3, <1>4, <1>6, <2>0
    <2>2. ~(lo < off[a]) BY <1>3, <2>0, <2>1
    <2>3. ~(lo < off[a] + x[a]) BY <1>2, <1>3, <1>6, <2>2 DEF Beside
    <2>4. ~(Address(lo) < Address(off[a] + x[a])) BY <1>3, <2>0, <2>3
    <2> QED BY <1>3, <1>4, <2>0, <2>4
  <1>7. \A g \in Agents \ {a} : /\ pc'[g] = pc[g] /\ off'[g] = off[g]
                                /\ Lowered(g)' <=> Lowered(g)
                                /\ Stuck(g)' <=> Stuck(g)
    BY <1>1 DEF Now, Lowered, Reading, Stuck
  <1>8. \A c : base' + c * BlockSize = Address(c) BY <1>1 DEF Address
  <1>9. pc'[a] = "f_done" /\ ~Lowered(a)' /\ ~Stuck(a) BY <1>1 DEF Now, Lowered, Reading, Stuck
  <1>10. \A b \in live : ioline' <= Address(b[1])
    <2> SUFFICES ASSUME NEW b \in live PROVE ioline' <= Address(b[1]) OBVIOUS
    <2>1. b[1] \in Int /\ b[2] \in Int /\ b[2] > 0 BY LiveInts DEF Bounds
    <2>2. Beside(Lo(a), Hi(a), b[1], b[1] + b[2]) BY <1>2 DEF Separate
    <2> QED BY <1>6, <2>1, <2>2 DEF Lines
  <1>11. \A g \in Agents \ {a} : Lowered(g) => ioline' <= Address(off[g])
    <2> SUFFICES ASSUME NEW g \in Agents \ {a}, Lowered(g) PROVE ioline' <= Address(off[g]) OBVIOUS
    <2>1. Claims(g) /\ ~Scanning(g) /\ Lo(g) = off[g] BY LoweredHas
    <2>2. Lo(g) \in Int /\ Hi(g) \in Int /\ Lo(g) < Hi(g) BY <2>1, ZoneInts DEF Bounds
    <2>3. Beside(Lo(a), Hi(a), Lo(g), Hi(g)) BY <1>2, <2>1 DEF Separate
    <2> QED BY <1>6, <2>1, <2>2, <2>3 DEF Lines
  <1>12. \A g \in Agents \ {a} : pc[g] # "f_raise"
    <2> SUFFICES ASSUME NEW g \in Agents \ {a}, pc[g] = "f_raise" PROVE FALSE OBVIOUS
    <2>1. Lowered(g) /\ ioline = Address(off[g]) BY DEF Lowered, Lines
    <2> QED BY <1>4, <1>5, <1>11, <2>1, LineInts
  <1> HIDE DEF Lowered, Stuck, Address, Lo, Hi, Claims, Scanning
  <1>13. \A b \in live' : ioline' <= base' + b[1] * BlockSize /\ broken' <= base' + b[1] * BlockSize
    BY <1>1, <1>8, <1>10 DEF Lines
  <1>14. \A g \in Agents : Lowered(g)' => ioline' <= base' + off'[g] * BlockSize
    BY <1>7, <1>8, <1>9, <1>11
  <1>15. \A g \in Agents : pc'[g] = "m_lower" => ioline' > base' + off'[g] * BlockSize
    BY <1>4, <1>5, <1>7, <1>8, <1>9, LineInts DEF Lines
  <1>16. \A g \in Agents : pc'[g] # "f_raise" BY <1>7, <1>9, <1>12
  <1>17. \A g \in Agents : pc'[g] = "m_done" => broken' <= base' + off'[g] * BlockSize
    BY <1>1, <1>7, <1>8, <1>9 DEF Lines
  <1>18. (\A g \in Agents : pc'[g] # "m_check" /\ ~Stuck(g)') => broken' <= ioline'
    BY <1>1, <1>4, <1>5, <1>7, <1>9, LineInts DEF Lines
  <1> QED BY <1>1, <1>4, <1>13, <1>14, <1>15, <1>16, <1>17, <1>18 DEF Lines, Address

LEMMA SetUpLines ==
    ASSUME TypeOK, Turns, Fresh, Lines, NEW a \in Agents, Table(a) \/ Clear(a)
    PROVE  Lines'
  <1>1. /\ pc[a] \in {"m_table", "m_clear"} /\ live' = live /\ ioline' = ioline
        /\ pc'[a] \in {"m_clear", "m_fail", "m_scan"}
        /\ \E p, o, n, m : Now(a, p, o, n, m)
    BY Moves DEF Table, Clear, At, Now, First
  <1>2. ~ready BY <1>1 DEF Turns, Turn
  <1>3. live' = {} BY <1>1, <1>2 DEF Fresh
  <1>4. \A g \in Agents : pc'[g] \notin {"m_lower", "m_check", "f_raise", "m_done"} /\ ~Lowered(g)'
    BY <1>1, <1>2 DEF Now, Turns, Turn, Lowered, Reading, Stuck, MallocPCs, FreePCs
  <1>5. broken' <= heapline' /\ broken' <= ioline'
    <2>1. CASE Table(a) BY <2>1, SizeAssumption DEF Table, TypeOK
    <2>2. CASE Clear(a)
      <3>1. broken' = broken /\ heapline' = heapline BY <2>2 DEF Clear
      <3>2. \A g \in Agents : pc[g] # "m_check" /\ ~Stuck(g)
        BY <1>2 DEF Turns, Turn, Stuck, MallocPCs
      <3> QED BY <1>1, <3>1, <3>2 DEF Lines
    <2> QED BY <2>1, <2>2
  <1> HIDE DEF Lowered
  <1> QED BY <1>3, <1>4, <1>5 DEF Lines

LEMMA BreakLines ==
    ASSUME TypeOK, Lines, NEW a \in Agents, BrkCheck(a)
    PROVE  Lines'
  <1>1. /\ pc[a] = "b_check" /\ ioline' = ioline /\ base' = base /\ heapline' = heapline /\ live' = live
        /\ Now(a, IF heapline > ioline THEN "b_hung" ELSE "idle", off[a], x[a], k[a])
        /\ IF heapline > ioline THEN broken' = broken ELSE broken' = heapline
    BY Moves DEF BrkCheck, At
  <1>3. pc'[a] \in {"b_hung", "idle"} /\ ~Lowered(a)' /\ ~Stuck(a)' /\ ~Stuck(a) /\ pc[a] # "m_check"
    BY <1>1 DEF Now, Lowered, Reading, Stuck
  <1>4. CASE heapline > ioline
    <2> HIDE DEF Lowered, Stuck
    <2> QED BY <1>1, <1>3, <1>4, LinesKept DEF Lines
  <1>5. CASE heapline <= ioline
    <2>1. broken' = heapline BY <1>1, <1>5, LineInts
    <2>2. \A g \in Agents \ {a} : /\ pc'[g] = pc[g] /\ off'[g] = off[g]
                                  /\ Lowered(g)' <=> Lowered(g)
      BY <1>1 DEF Now, Lowered, Reading, Stuck
    <2>3. \A c : base' + c * BlockSize = Address(c) BY <1>1 DEF Address
    <2>4. \A g \in Agents : pc[g] = "m_done" => Lowered(g) BY DEF Lowered
    <2> HIDE DEF Lowered, Stuck, Address
    <2>5. \A b \in live' : ioline' <= base' + b[1] * BlockSize /\ broken' <= base' + b[1] * BlockSize
      BY <1>1, <1>5, <2>1, <2>3, LineInts DEF Lines
    <2>6. \A g \in Agents : Lowered(g)' => ioline' <= base' + off'[g] * BlockSize
      BY <1>1, <1>3, <2>2, <2>3 DEF Lines
    <2>7. \A g \in Agents : pc'[g] = "m_lower" => ioline' > base' + off'[g] * BlockSize
      BY <1>1, <1>3, <2>2, <2>3 DEF Lines
    <2>8. \A g \in Agents : pc'[g] = "f_raise" => ioline' = base' + off'[g] * BlockSize
      BY <1>1, <1>3, <2>2, <2>3 DEF Lines
    <2>9. \A g \in Agents : pc'[g] = "m_done" => broken' <= base' + off'[g] * BlockSize
      BY <1>1, <1>3, <1>5, <2>1, <2>2, <2>3, <2>4, LineInts DEF Lines
    <2> QED BY <1>1, <1>5, <2>1, <2>5, <2>6, <2>7, <2>8, <2>9, LineInts DEF Lines, Address
  <1> QED BY <1>4, <1>5, LineInts

LEMMA LinesNext ==
    ASSUME TypeOK, Level, Turns, Order, Fresh, Bounds, Separate, Lines, NEW a \in Agents, Acts(a)
    PROVE  Lines'
  <1>0. \E p, o, n, m : Now(a, p, o, n, m) BY SomeMove
  <1>1. ASSUME ioline' = ioline, broken' = broken, base' = base, heapline' = heapline, live' = live,
               pc[a] # "m_check", ~Stuck(a), pc'[a] \notin {"m_lower", "f_raise", "m_done"}, ~Lowered(a)'
        PROVE  Lines'
    BY <1>0, <1>1, LinesKept DEF Lines
  <1>2. ASSUME NEW size \in Sizes, Malloc(a, size) PROVE Lines'
    <2>1. pc[a] = "idle" /\ pc'[a] = "m_lock" BY <1>2, Moves DEF Now, Malloc, MayStart, Busy
    <2> QED BY <1>1, <1>2, <2>1 DEF Malloc, Lowered, Reading, Stuck
  <1>3. ASSUME NEW b \in live, FreeCall(a, b) PROVE Lines'
    <2>0. pc'[a] = "f_lock" /\ off'[a] = b[1] BY <1>3, Moves DEF Now
    <2>1. /\ pc[a] = "idle" /\ live' \subseteq live /\ ioline' = ioline /\ broken' = broken
          /\ base' = base /\ heapline' = heapline
      BY <1>3 DEF FreeCall, MayStart, Busy
    <2>2. ~Stuck(a) /\ ~Stuck(a)' BY <2>0, <2>1 DEF Stuck
    <2>3. ioline <= Address(off'[a]) BY <2>0 DEF Lines
    <2> HIDE DEF Stuck, Lowered
    <2> QED BY <1>0, <2>0, <2>1, <2>2, <2>3, LinesKept DEF Lines
  <1>4. ASSUME NEW pos \in Breaks, Brk(a, pos) PROVE Lines'
    <2>1. /\ pc[a] = "idle" /\ pc'[a] = "b_check" /\ heapline < heapline' /\ heapline' \in Int
          /\ ioline' = ioline /\ broken' = broken /\ base' = base /\ live' = live
      BY <1>4, Moves, SizeAssumption, LineInts DEF Now, Brk, MayStart, Busy
    <2>2. ~Stuck(a) /\ ~Lowered(a)' BY <2>1 DEF Stuck, Lowered, Reading
    <2>3. broken <= heapline' BY <2>1, LineInts DEF Lines
    <2> HIDE DEF Stuck, Lowered
    <2> QED BY <1>0, <2>1, <2>2, <2>3, LinesKept
  <1>5. ASSUME MallocLock(a) \/ Scan(a) \/ Jump(a) \/ Tag1(a) \/ Tag2(a) PROVE Lines'
    <2>1. /\ pc[a] \in {"m_lock", "m_scan", "m_jump", "m_tag1", "m_tag2"}
          /\ ioline' = ioline /\ broken' = broken /\ base' = base /\ heapline' = heapline /\ live' = live
      BY <1>5 DEF MallocLock, Scan, Jump, Tag1, Tag2, At
    <2>2. pc'[a] \in {"m_fail", "m_table", "m_jump", "m_tag1", "m_scan", "m_tag2", "m_line"}
      BY <1>5, Moves DEF Now, First
    <2> QED BY <1>1, <2>1, <2>2 DEF Lowered, Reading, Stuck
  <1>6. ASSUME MallocFail(a) \/ FreeDone(a) PROVE Lines'
    <2>1. /\ pc[a] \in {"m_fail", "f_done"}
          /\ ioline' = ioline /\ broken' = broken /\ base' = base /\ heapline' = heapline /\ live' = live
      BY <1>6 DEF MallocFail, FreeDone, At
    <2>2. pc'[a] = "idle" BY <1>6, Moves DEF Now
    <2> QED BY <1>1, <2>1, <2>2 DEF Lowered, Reading, Stuck
  <1>7. ASSUME MallocLine(a) PROVE Lines'
    <2>1. /\ pc[a] = "m_line" /\ MayStep(a)
          /\ ioline' = ioline /\ broken' = broken /\ base' = base /\ heapline' = heapline /\ live' = live
          /\ pc'[a] = IF ioline > Address(off[a]) THEN "m_lower" ELSE "m_done"
          /\ off'[a] = off[a]
      BY <1>7, Moves DEF Now, MallocLine, At
    <2>2. broken <= ioline BY <2>1, AtLine DEF Lines, Stuck
    <2>3. ~Stuck(a) /\ ~Stuck(a)' BY <2>1 DEF Stuck
    <2>4. Lowered(a)' => pc'[a] = "m_done" BY <2>1 DEF Lowered, Reading, Stuck
    <2>5. pc'[a] = "m_done" => ioline <= Address(off'[a]) /\ broken <= Address(off'[a])
      BY <2>1, <2>2, LineInts
    <2> HIDE DEF Stuck, Lowered
    <2> QED BY <1>0, <2>1, <2>3, <2>4, <2>5, LinesKept DEF Lines
  <1>8. ASSUME MallocCheck(a) PROVE Lines'
    <2>1. /\ pc[a] = "m_check"
          /\ ioline' = ioline /\ broken' = broken /\ base' = base /\ heapline' = heapline /\ live' = live
          /\ pc'[a] = IF ioline < heapline THEN "m_hung" ELSE "m_done"
          /\ off'[a] = off[a] /\ x'[a] = x[a] /\ x[a] > 0
      BY <1>8, Moves DEF Now, MallocCheck, At, Turns, Turn, Placed
    <2>2. ioline <= Address(off[a]) BY <2>1 DEF Lines, Lowered
    <2>3. pc'[a] = "m_done" => broken <= ioline BY <2>1, LineInts DEF Lines
    <2>4. pc'[a] = "m_done" => broken <= Address(off'[a]) BY <2>1, <2>2, <2>3, LineInts
    <2>5. pc'[a] # "m_done" => Stuck(a)' BY <2>1 DEF Stuck
    <2> HIDE DEF Stuck, Lowered
    <2> QED BY <1>0, <2>1, <2>2, <2>3, <2>4, <2>5, LinesKept DEF Lines
  <1>9. ASSUME MallocDone(a) PROVE Lines'
    <2>1. /\ pc[a] = "m_done" /\ pc'[a] = "idle" /\ live' = live \cup {<<off[a], x[a]>>}
          /\ ioline' = ioline /\ broken' = broken /\ base' = base /\ heapline' = heapline
      BY <1>9, Moves DEF Now, MallocDone, At
    <2>2. ioline <= Address(off[a]) /\ broken <= Address(off[a]) BY <2>1 DEF Lines, Lowered
    <2>3. ~Stuck(a) /\ ~Lowered(a)' BY <2>1 DEF Stuck, Lowered, Reading
    <2> HIDE DEF Stuck, Lowered
    <2> QED BY <1>0, <2>1, <2>2, <2>3, LinesKept DEF Lines
  <1>10. ASSUME FreeLock(a) \/ FreeRead(a) \/ Untag1(a) \/ Untag2(a) PROVE Lines'
    <2>1. /\ pc[a] \in {"f_lock", "f_read", "f_tag1", "f_tag2"}
          /\ ioline' = ioline /\ broken' = broken /\ base' = base /\ heapline' = heapline /\ live' = live
      BY <1>10 DEF FreeLock, FreeRead, Untag1, Untag2, At
    <2>2. pc'[a] \in {"f_read", "f_tag1", "f_tag2", "f_line"} /\ off'[a] = off[a]
      BY <1>10, Moves DEF Now
    <2>3. Lowered(a) /\ ~Stuck(a) BY <2>1 DEF Lowered, Stuck, Reading
    <2>4. ioline <= Address(off'[a]) BY <2>2, <2>3 DEF Lines
    <2> HIDE DEF Stuck, Lowered
    <2> QED BY <1>0, <2>1, <2>2, <2>3, <2>4, LinesKept DEF Lines
  <1>11. ASSUME FreeLine(a) PROVE Lines'
    <2>1. /\ pc[a] = "f_line" /\ off'[a] = off[a]
          /\ ioline' = ioline /\ broken' = broken /\ base' = base /\ heapline' = heapline /\ live' = live
          /\ pc'[a] = IF ioline = Address(off[a]) THEN "f_raise" ELSE "f_done"
      BY <1>11, Moves DEF Now, FreeLine, At
    <2>2. Lowered(a) /\ ~Stuck(a) BY <2>1 DEF Lowered, Stuck
    <2>3. ioline <= Address(off'[a]) BY <2>1, <2>2 DEF Lines
    <2> HIDE DEF Stuck, Lowered
    <2> QED BY <1>0, <2>1, <2>2, <2>3, LinesKept DEF Lines
  <1> QED
    BY <1>2, <1>3, <1>4, <1>5, <1>6, <1>7, <1>8, <1>9, <1>10, <1>11, SetUpLines, LowerLines, RaiseLines,
       BreakLines
    DEF Acts, Calls, MallocStep, FreeStep

-----------------------------------------------------------------------------
(***************************************************************************)
(* Type correctness.                                                       *)
(***************************************************************************)
Places == {"idle", "b_check", "b_hung"} \cup MallocPCs \cup FreePCs
LEMMA TypeNext ==
    ASSUME TypeOK, LockInv, Turns, Order, Fresh, Bounds, Separate, Tags, Level => Lines,
           NEW a \in Agents, Acts(a)
    PROVE  TypeOK'
  <1>0. depth' \in 0 .. Cardinality(Agents) BY LockNext
  <1>a. ASSUME NEW size \in Sizes PROVE BlocksFor(size) \in Nat
    <2>1. size \in Nat /\ BlockSize \in Nat \ {0} BY SizeAssumption
    <2>2. size \div BlockSize \in Nat BY ONLY <2>1, DivFacts
    <2> QED BY ONLY <2>2 DEF BlocksFor
  <1>b. nested' \subseteq DOMAIN Windows /\ (Level' => Level)
    BY NestedGrows DEF MallocLock, TypeOK, Level
  <1> USE DEF TypeOK, At, Goto, Places
  <1> USE <1>b DEF Level
  <1>1. ASSUME NEW size \in Sizes, Malloc(a, size) PROVE TypeOK'
    <2>1. BlocksFor(size) \in Nat BY ONLY <1>a
    <2> QED BY <1>1, <2>1 DEF Malloc, MallocPCs
  <1>2. ASSUME NEW b \in live, FreeCall(a, b) PROVE TypeOK'
    <2>1. b[1] \in -1 .. Top
      <3>1. b[1] \in Int /\ b[2] \in Int /\ 0 <= b[1] /\ b[2] > 0 /\ b[1] + b[2] <= TblSize
        BY LiveInts DEF Bounds, Within
      <3> QED BY <3>1, TableFits, SizeAssumption
    <2> QED BY <1>2, <2>1 DEF FreeCall, FreePCs
  <1>3. ASSUME NEW pos \in Breaks, Brk(a, pos) PROVE TypeOK'
    <2>1. pos \in 0 .. Top BY <1>3, SizeAssumption DEF Brk
    <2> QED BY <1>3, <2>1 DEF Brk
  <1>4. ASSUME BrkCheck(a) PROVE TypeOK'
    BY <1>4 DEF BrkCheck
  <1>5. ASSUME Table(a) PROVE TypeOK'
    <2>1. heapline' \in 0 .. Top /\ broken' \in 0 .. Top
      <3>1. ~ready BY <1>5 DEF Table, Turns, Turn
      <3>2. ioline = Top BY <3>1 DEF Fresh
      <3> QED BY <1>5, <3>2, SizeAssumption DEF Table
    <2>2. pc' = [pc EXCEPT ![a] = "m_clear"] /\ UNCHANGED <<ioline, control, memmap, mutex, off, x, k, live>>
      BY <1>5 DEF Table
    <2>3. pc' \in [Agents -> Places] BY <2>2 DEF MallocPCs
    <2> QED BY <2>1, <2>2, <2>3
  <1>19. ASSUME Clear(a) PROVE TypeOK'
    <2>1. ioline = Top
      <3>1. ~ready BY <1>19 DEF Clear, Turns, Turn
      <3> QED BY <3>1 DEF Fresh
    <2>2. base' \in 0 .. Top /\ memsize' \in 0 .. Top - base'
      BY <1>19, <2>1, SizeAssumption DEF Clear
    <2>3. TblSize' \in Nat /\ TblSize' <= Top
      <3>1. memsize' \in Nat /\ memsize' <= Top BY <2>2, SizeAssumption
      <3>2. memsize' \div BlockSize \in Nat /\ memsize' \div BlockSize <= memsize'
        BY ONLY <3>1, SizeAssumption, DivFacts
      <3>3. ASSUME NEW n \in Nat, NEW m \in Nat, n <= m, m <= Top PROVE n <= Top
        BY ONLY <3>3, SizeAssumption
      <3> QED BY ONLY <3>1, <3>2, <3>3 DEF TblSize
    <2>4. TblSize' - 1 \in -1 .. Top BY <2>3, SizeAssumption DEF TblSize
    <2>5. /\ off' = [off EXCEPT ![a] = TblSize' - 1] /\ ready' = TRUE
          /\ memmap' = [c \in Cells |-> 0] /\ pc' = [pc EXCEPT ![a] = First(a)]
          /\ UNCHANGED <<heapline, ioline, mutex, x, k, ghosts>>
      BY <1>19 DEF Clear, Begin, First
    <2> HIDE DEF TblSize
    <2>6. off' \in [Agents -> -1 .. Top] BY <2>4, <2>5
    <2>7. pc' \in [Agents -> Places] BY <2>5 DEF MallocPCs, First
    <2>8. memmap' \in [Cells -> 0 .. Top] BY <2>5, SizeAssumption
    <2> QED BY <2>2, <2>5, <2>6, <2>7, <2>8
  <1>6. ASSUME MallocLock(a) PROVE TypeOK'
    <2>1. TblSize - 1 \in -1 .. Top BY TableFits, SizeAssumption
    <2>2. /\ owner' = HartOf[a]
          /\ off' = [off EXCEPT ![a] = TblSize - 1] \/ off' = off
          /\ pc' = [pc EXCEPT ![a] = First(a)] \/ pc' = [pc EXCEPT ![a] = "m_table"]
          /\ UNCHANGED <<heapline, ioline, control, memmap, x, k, live, broken>>
      BY <1>6 DEF MallocLock, Lock, Begin, First
    <2>3. off' \in [Agents -> -1 .. Top] BY <2>1, <2>2
    <2>4. pc' \in [Agents -> Places] BY <2>2 DEF MallocPCs, First
    <2> QED BY <1>0, <2>2, <2>3, <2>4
  <1>7. ASSUME Scan(a) PROVE TypeOK'
    <2>1. UNCHANGED <<heapline, ioline, control, memmap, owner, depth, x, live, broken>>
      BY <1>7 DEF Scan
    <2>2. k' \in [Agents -> Nat] BY <1>7 DEF Scan
    <2>3. off' \in [Agents -> -1 .. Top] BY <1>7, SizeAssumption DEF Scan
    <2>4. pc' \in [Agents -> Places]
      BY <1>7 DEF Scan, MallocPCs
    <2> QED BY <2>1, <2>2, <2>3, <2>4
  <1>8. ASSUME Jump(a) PROVE TypeOK'
    <2>1. off'[a] \in -1 .. Top BY <1>8, JumpZone
    <2>2. off' = [off EXCEPT ![a] = off'[a]] BY <1>8 DEF Jump
    <2>3. off' \in [Agents -> -1 .. Top] BY <2>1, <2>2
    <2> QED BY <1>8, <2>3 DEF Jump, MallocPCs
  <1>9. ASSUME pc[a] \in {"m_tag1", "m_tag2", "f_tag1", "f_tag2", "m_lower", "m_done"}
        PROVE  off[a] \in Cells /\ off[a] \in 0 .. TblSize /\ x[a] \in 1 .. Top
    <2>1. Claims(a) /\ ~Scanning(a) /\ Lo(a) = off[a] /\ Hi(a) = off[a] + x[a]
      BY <1>9 DEF Claims, Placed, Scanning, Reading, Lo, Hi
    <2>2. 0 <= off[a] /\ off[a] < off[a] + x[a] /\ off[a] + x[a] <= TblSize
      BY <2>1 DEF Bounds, Within
    <2> QED BY <2>2, TableFits, SizeAssumption
  <1>10. ASSUME Tag1(a) \/ Tag2(a) PROVE TypeOK'
    <2>1. pc[a] \in {"m_tag1", "m_tag2"} BY <1>10 DEF Tag1, Tag2
    <2>2. x[a] \in 0 .. Top BY <1>9, <2>1
    <2>3. memmap' \in [Cells -> 0 .. Top] BY <1>10, <2>2 DEF Tag1, Tag2
    <2> QED BY <1>10, <2>3 DEF Tag1, Tag2, MallocPCs
  <1>11. ASSUME MallocLine(a) \/ MallocCheck(a) PROVE TypeOK'
    BY <1>11 DEF MallocLine, MallocCheck, MallocPCs
  <1>12. ASSUME Lower(a) PROVE TypeOK'
    <2>1. Address(off[a]) \in 0 .. Top BY <1>9, <1>12, Addresses DEF Lower
    <2> QED BY <1>12, <2>1 DEF Lower, MallocPCs
  <1>13. ASSUME Exits(a) PROVE TypeOK'
    <2>1. owner' \in {HartOf[g] : g \in Agents} \cup {NoHart}
      BY <1>13 DEF Exits, MallocDone, MallocFail, FreeDone, Unlock
    <2>2. live' \subseteq Cells \X (1 .. Top)
      BY <1>9, <1>13 DEF Exits, MallocDone, MallocFail, FreeDone
    <2>3. UNCHANGED <<heapline, ioline, control, memmap, broken>> /\ Done(a)
      BY <1>13 DEF Exits, MallocDone, MallocFail, FreeDone
    <2>4. off' \in [Agents -> -1 .. Top] /\ x' \in [Agents -> Nat] /\ k' \in [Agents -> Nat]
          /\ pc' \in [Agents -> Places]
      BY <2>3, SizeAssumption DEF Done
    <2> QED BY <1>0, <2>1, <2>2, <2>3, <2>4
  <1>14. ASSUME FreeLock(a) PROVE TypeOK'
    <2>1. owner' = HartOf[a] /\ pc' = [pc EXCEPT ![a] = "f_read"]
          /\ UNCHANGED <<heapline, ioline, control, memmap, off, x, k, live, broken>>
      BY <1>14 DEF FreeLock, Lock
    <2>2. pc' \in [Agents -> Places] BY <2>1 DEF FreePCs
    <2> QED BY <1>0, <2>1, <2>2
  <1>15. ASSUME FreeRead(a) PROVE TypeOK'
    <2>1. ~Scanning(a) /\ Claims(a) BY <1>15 DEF FreeRead, Scanning, Claims, Reading
    <2>2. off[a] \in Cells BY <2>1, TableFits DEF Bounds
    <2>3. memmap[off[a]] \in Nat BY <2>2
    <2> QED BY <1>15, <2>3 DEF FreeRead, FreePCs
  <1>16. ASSUME Untag1(a) \/ Untag2(a) PROVE TypeOK'
    <2>1. memmap' \in [Cells -> 0 .. Top] BY <1>16, SizeAssumption DEF Untag1, Untag2
    <2> QED BY <1>16, <2>1 DEF Untag1, Untag2, FreePCs
  <1>17. ASSUME FreeLine(a) PROVE TypeOK' BY <1>17 DEF FreeLine, FreePCs
  <1>18. ASSUME Raise(a) PROVE TypeOK'
    <2>1. Level' => ioline' <= Top BY <1>18, RaiseLines
    <2>2. ioline' \in Nat
      <3>1. x[a] * BlockSize \in Nat BY SizeAssumption
      <3> QED BY <1>18, <3>1 DEF Raise
    <2> QED BY <1>18, <2>1, <2>2 DEF Raise, FreePCs
  <1> QED
    BY <1>1, <1>2, <1>3, <1>4, <1>5, <1>6, <1>7, <1>8, <1>10, <1>11, <1>12, <1>13, <1>14, <1>15, <1>16,
       <1>17, <1>18, <1>19
    DEF Acts, Calls, MallocStep, FreeStep, Exits

-----------------------------------------------------------------------------
(***************************************************************************)
(* What a scan has passed.                                                 *)
(***************************************************************************)
LEMMA ClaimsKept ==
    ASSUME NEW a \in Agents, \E p, o, n, m : Now(a, p, o, n, m), NEW g \in Agents \ {a}, nested' = nested
    PROVE  Claims(g)' <=> Claims(g)
  BY DEF Now, Claims, Scanning, Reading, Placed, Stuck, Level

LEMMA TakenStays ==
    ASSUME NEW a \in Agents, \E p, o, n, m : Now(a, p, o, n, m),
           memmap' = memmap, live' = live, nested' = nested, ~Claims(a) \/ Scanning(a)
    PROVE  \A c : Taken(c) => Taken(c)'
  <1>1. \A g \in Agents \ {a} : /\ Lo(g)' = Lo(g) /\ Hi(g)' = Hi(g)
                                /\ Claims(g)' <=> Claims(g)
                                /\ Scanning(g)' <=> Scanning(g)
    BY Kept, ClaimsKept DEF Level
  <1> HIDE DEF Claims, Scanning, Lo, Hi
  <1> QED BY <1>1 DEF Taken

LEMMA TakenGiven ==
    ASSUME TypeOK, Bounds, Separate, Tags, NEW a \in Agents, NEW b \in live, FreeCall(a, b)
    PROVE  \A c : Taken(c) => Taken(c)'
  <1>1. /\ live' = live \ {b} /\ memmap' = memmap /\ pc[a] = "idle" /\ nested' = nested
        /\ Now(a, "f_lock", b[1], x[a], k[a])
    BY Moves DEF FreeCall, MayStart, Busy
  <1>2. ~Claims(a) /\ Claims(a)' /\ ~Scanning(a)'
    BY <1>1 DEF Now, Claims, Scanning, Reading, Placed, Stuck
  <1>3. Lo(a)' = b[1] /\ Hi(a)' = b[1] + b[2] BY GiveZone
  <1>4. \A g \in Agents \ {a} : /\ Lo(g)' = Lo(g) /\ Hi(g)' = Hi(g)
                                /\ Claims(g)' <=> Claims(g)
                                /\ Scanning(g)' <=> Scanning(g)
    BY <1>1, Kept, ClaimsKept DEF Level
  <1> HIDE DEF Claims, Scanning, Lo, Hi
  <1> SUFFICES ASSUME NEW c, Taken(c) PROVE Taken(c)' OBVIOUS
  <1>5. CASE \E d \in live : d[1] <= c /\ c < d[1] + d[2]
    <2>1. PICK d \in live : d[1] <= c /\ c < d[1] + d[2] BY <1>5
    <2>2. CASE d = b BY <1>2, <1>3, <2>1, <2>2 DEF Taken
    <2>3. CASE d # b BY <1>1, <2>1, <2>3 DEF Taken
    <2> QED BY <2>2, <2>3
  <1>6. CASE \E g \in Agents : Claims(g) /\ ~Scanning(g) /\ Lo(g) <= c /\ c < Hi(g)
    BY <1>2, <1>4, <1>6 DEF Taken
  <1> QED BY <1>5, <1>6 DEF Taken

\* While a program that no handler can interrupt has the lock, all the others
\* can do is call.
LEMMA OthersCall ==
    ASSUME TypeOK, LockInv, Turns, NEW g \in Agents, Quiet(g), Holding(g),
           NEW a \in Agents \ {g}, Acts(a)
    PROVE  ~Holding(a) /\ (Calls(a) \/ BrkCheck(a))
  <1>1. owner = HartOf[g] /\ owner # NoHart BY HartAssumption DEF LockInv, Agents
  <1>2. ASSUME HartOf[a] = HartOf[g] PROVE FALSE
    <2>1. g \in Isrs BY <1>2, OnePerHart, AgentAssumption DEF Quiet
    <2> QED BY <2>1 DEF Quiet
  <1>3. ~Holding(a) BY <1>1, <1>2 DEF LockInv
  <1>4. ~Enters(a) BY <1>1, <1>2 DEF Enters, MallocLock, FreeLock, Lock
  <1>5. ~(MallocStep(a) \/ FreeStep(a))
    BY <1>3, <1>4 DEF MallocStep, FreeStep, Enters, Holding, MallocPCs, FreePCs, At, Table,
       Clear, Scan, Jump, Tag1, Tag2,
       MallocLine, Lower, MallocCheck, MallocDone, MallocFail, FreeRead, Untag1, Untag2, FreeLine, Raise,
       FreeDone
  <1> QED BY <1>3, <1>5 DEF Acts

LEMMA FullStays ==
    ASSUME NEW g, off'[g] = off[g], x'[g] = x[g], TblSize' = TblSize, \A c : Taken(c) => Taken(c)'
    PROVE  Full(g) => Full(g)'
  <1> HIDE DEF Taken, TblSize
  <1> QED BY DEF Full

LEMMA BehindOther ==
    ASSUME TypeOK, LockInv, Turns, Bounds, Separate, Tags, NEW a \in Agents, Acts(a),
           NEW g \in Agents \ {a}, Quiet(g), Behind(g)
    PROVE  Behind(g)'
  <1>0. \E p, o, n, m : Now(a, p, o, n, m) BY SomeMove
  <1>1. pc'[g] = pc[g] /\ off'[g] = off[g] /\ x'[g] = x[g] /\ k'[g] = k[g] BY <1>0 DEF Now
  <1>2. Scanning(g)' <=> Scanning(g) BY <1>1 DEF Scanning
  <1>3. CASE ~Scanning(g) /\ pc[g] # "m_fail"
    BY <1>1, <1>2, <1>3 DEF Behind, Scanning
  <1>4. CASE Scanning(g) \/ pc[g] = "m_fail"
    <2>1. Holding(g) BY <1>4 DEF Holding, Scanning, MallocPCs
    <2>2. ~Holding(a) /\ (Calls(a) \/ BrkCheck(a)) BY <2>1, OthersCall
    <2>3. memmap' = memmap /\ memsize' = memsize /\ nested' = nested
      BY <2>2 DEF Calls, Malloc, FreeCall, Brk, BrkCheck
    <2>4. TblSize' = TblSize BY <2>3 DEF TblSize
    <2>5. \A c : Taken(c) => Taken(c)'
      <3>1. CASE \E b \in live : FreeCall(a, b) BY <3>1, TakenGiven
      <3>2. CASE ~\E b \in live : FreeCall(a, b)
        <4>1. live' = live /\ pc[a] \in {"idle", "b_check"}
          BY <2>2, <3>2 DEF Calls, Malloc, Brk, BrkCheck, MayStart, Busy, At
        <4>2. ~Claims(a) BY <4>1 DEF Claims, Scanning, Reading, Placed, Stuck
        <4> QED BY <1>0, <2>3, <4>1, <4>2, TakenStays
      <3> QED BY <3>1, <3>2
    <2>6. Full(g) => Full(g)' BY <1>1, <2>4, <2>5, FullStays
    <2> HIDE DEF Full, Taken, Scanning, TblSize
    <2>7. Scanning(g)' => off'[g] + k'[g] + 1 = TblSize' \/ Taken(off[g] + k[g] + 1)'
      <3>1. Scanning(g)' => off[g] + k[g] + 1 = TblSize \/ Taken(off[g] + k[g] + 1) BY <1>2 DEF Behind
      <3> DEFINE e == off[g] + k[g] + 1
      <3>2. ASSUME NEW c, c = off[g] + k[g] + 1, Taken(c) PROVE Taken(off[g] + k[g] + 1)'
        <4>1. Taken(c)' BY <2>5, <3>2
        <4>2. c = off'[g] + k'[g] + 1 BY <1>1, <3>2
        <4> QED BY <4>1, <4>2
      <3> QED BY <1>1, <2>4, <3>1, <3>2
    <2> QED BY <1>1, <1>2, <2>3, <2>6, <2>7 DEF Behind
  <1> QED BY <1>3, <1>4

LEMMA BehindStart ==
    ASSUME TypeOK, TypeOK', Turns, NEW a \in Agents, MallocLock(a) \/ Clear(a)
    PROVE  Behind(a)'
  <1>1. TblSize' \in Nat
    <2>1. memsize' \in Nat BY SizeAssumption DEF TypeOK
    <2> QED BY <2>1, SizeAssumption, DivFacts DEF TblSize
  <1>2. CASE MallocLock(a) /\ ~ready
    <2>1. pc'[a] = "m_table" BY <1>2, Moves DEF Now
    <2> QED BY <2>1 DEF Behind, Scanning
  <1>3. CASE Clear(a) \/ ready
    <2>1. /\ pc[a] \in {"m_lock", "m_clear"} /\ k[a] = 0 /\ x[a] \in Nat
      BY DEF MallocLock, Clear, At, Turns, Turn, TypeOK
    <2>2. MallocLock(a) => TblSize' = TblSize BY DEF MallocLock, TblSize
    <2>3. /\ k'[a] = 0 /\ x'[a] = x[a] /\ off'[a] = TblSize' - 1
          /\ pc'[a] = IF x[a] = 0 THEN "m_fail" ELSE "m_scan"
      <3>1. CASE MallocLock(a) /\ ready
        <4>1. Now(a, First(a), TblSize - 1, x[a], k[a]) BY <3>1, Moves
        <4> QED BY <2>1, <2>2, <3>1, <4>1 DEF Now, First
      <3>2. CASE Clear(a)
        <4>1. Now(a, First(a), TblSize' - 1, x[a], k[a]) BY <3>2, Moves
        <4> QED BY <2>1, <4>1 DEF Now, First
      <3> QED BY <1>3, <3>1, <3>2
    <2>4. CASE x[a] = 0
      BY <2>3, <2>4 DEF Behind, Scanning
    <2>5. CASE x[a] # 0
      <3>1. pc'[a] = "m_scan" BY <2>3, <2>5
      <3> HIDE DEF Taken, TblSize
      <3>2. Full(a)' BY <1>1, <2>1, <2>3, <2>5 DEF Full, TblSize
      <3>3. off'[a] + k'[a] + 1 = TblSize' BY <1>1, <2>3 DEF TblSize
      <3> QED BY <3>1, <3>2, <3>3 DEF Behind
    <2> QED BY <2>4, <2>5
  <1> QED BY <1>2, <1>3

LEMMA BehindScan ==
    ASSUME TypeOK, Turns, Bounds, Separate, Tags, NEW a \in Agents, Scan(a), Behind(a)
    PROVE  Behind(a)'
  <1>1. /\ pc[a] = "m_scan" /\ memmap' = memmap /\ live' = live /\ memsize' = memsize
        /\ nested' = nested
    BY DEF Scan, At
  <1>2. Scanning(a) /\ TblSize' = TblSize BY <1>1 DEF Scanning, TblSize
  <1>3. \E p, o, n, m : Now(a, p, o, n, m) BY SomeMove DEF Acts, MallocStep
  <1>4. \A c : Taken(c) => Taken(c)' BY <1>1, <1>2, <1>3, TakenStays
  <1>5. Full(a) /\ (off[a] + k[a] + 1 = TblSize \/ Taken(off[a] + k[a] + 1)) BY <1>2 DEF Behind
  <1>6. off[a] \in Int /\ k[a] \in Nat /\ x[a] \in Nat /\ TblSize \in Nat /\ k[a] < x[a]
    BY <1>2, TableFits DEF TypeOK, Turns, Turn
  <1>7. CASE off[a] < 0
    <2>1. Now(a, "m_fail", off[a], x[a], k[a]) BY <1>6, <1>7, Moves
    <2>2. pc'[a] = "m_fail" /\ off'[a] = off[a] /\ x'[a] = x[a] BY <2>1 DEF Now
    <2> HIDE DEF Taken, TblSize
    <2>3. Full(a)' BY <1>2, <1>4, <1>5, <2>2, FullStays
    <2> QED BY <1>7, <2>2, <2>3 DEF Behind, Scanning
  <1>8. CASE off[a] >= 0 /\ memmap[off[a]] # 0
    <2>1. Now(a, "m_jump", off[a], x[a], k[a]) BY <1>6, <1>8, Moves
    <2>2. pc'[a] = "m_jump" /\ off'[a] = off[a] /\ x'[a] = x[a] /\ k'[a] = k[a] BY <2>1 DEF Now
    <2> HIDE DEF Taken, TblSize
    <2>3. Full(a)' BY <1>2, <1>4, <1>5, <2>2, FullStays
    <2>4. off[a] + k[a] + 1 = TblSize \/ Taken(off[a] + k[a] + 1)'
      <3>1. ASSUME NEW c, c = off[a] + k[a] + 1, Taken(c) PROVE Taken(off[a] + k[a] + 1)'
        <4>1. c = off'[a] + k'[a] + 1 /\ Taken(c)' BY <1>4, <2>2, <3>1
        <4> QED BY <4>1
      <3> QED BY <1>5, <3>1
    <2> QED BY <1>1, <1>2, <1>8, <2>2, <2>3, <2>4 DEF Behind
  <1>9. CASE off[a] >= 0 /\ memmap[off[a]] = 0
    <2>1. IF k[a] + 1 = x[a] THEN Now(a, "m_tag1", off[a], x[a], k[a] + 1)
          ELSE Now(a, "m_scan", off[a] - 1, x[a], k[a] + 1)
      BY <1>6, <1>9, Moves
    <2>2. CASE k[a] + 1 = x[a]
      <3>1. pc'[a] = "m_tag1" BY <2>1, <2>2 DEF Now
      <3> QED BY <3>1 DEF Behind, Scanning
    <2>3. CASE k[a] + 1 # x[a]
      <3>1. /\ pc'[a] = "m_scan" /\ off'[a] = off[a] - 1 /\ x'[a] = x[a] /\ k'[a] = k[a] + 1
        BY <2>1, <2>3 DEF Now
      <3>2. ASSUME NEW e, e = off[a] + k[a] + 1
            PROVE  /\ e = TblSize \/ Taken(e)'
                   /\ e = off'[a] + k'[a] + 1
        <4>1. e = TblSize \/ Taken(e) BY <1>5, <3>2
        <4> QED BY <1>4, <1>6, <3>1, <3>2, <4>1
      <3> HIDE DEF Taken, TblSize
      <3>3. ASSUME NEW c \in off'[a] + 1 .. TblSize - x[a]
            PROVE  \E d \in c .. c + x[a] - 1 : Taken(d)'
        <4>1. CASE c \in off[a] + 1 .. TblSize - x[a]
          <5>1. PICK d \in c .. c + x[a] - 1 : Taken(d) BY <1>5, <4>1 DEF Full
          <5> QED BY <1>4, <5>1
        <4>2. CASE c = off[a]
          <5>1. PICK e : e = off[a] + k[a] + 1 BY <1>6
          <5>2. e # TblSize BY <1>6, <2>3, <3>3, <4>2, <5>1
          <5>3. Taken(e)' BY <3>2, <5>1, <5>2
          <5>4. e \in c .. c + x[a] - 1 BY <1>6, <2>3, <4>2, <5>1
          <5> QED BY <5>3, <5>4
        <4> QED BY <1>6, <3>1, <3>3, <4>1, <4>2
      <3>4. Full(a)' BY <1>2, <3>1, <3>3 DEF Full
      <3>5. off'[a] + k'[a] + 1 = TblSize' \/ Taken(off[a] + k[a] + 1)'
        <4>1. PICK e : e = off[a] + k[a] + 1 BY <1>6
        <4>2. e = off'[a] + k'[a] + 1 /\ (e = TblSize \/ Taken(e)') BY <3>2, <4>1
        <4> QED BY <1>2, <4>2
      <3> QED BY <1>2, <3>1, <3>4, <3>5 DEF Behind
    <2> QED BY <2>2, <2>3
  <1> QED BY <1>6, <1>7, <1>8, <1>9

LEMMA BehindJump ==
    ASSUME TypeOK, Turns, Order, Bounds, Separate, Tags, NEW a \in Agents, Jump(a), Behind(a)
    PROVE  Behind(a)'
  <1>1. /\ pc[a] = "m_jump" /\ MayStep(a) /\ memmap' = memmap /\ live' = live
        /\ memsize' = memsize /\ nested' = nested
        /\ Now(a, "m_scan", off[a] - memmap[off[a]], x[a], 0)
    BY Moves DEF Jump, At
  <1>2. Scanning(a) /\ TblSize' = TblSize BY <1>1 DEF Scanning, TblSize
  <1>3. \A c : Taken(c) => Taken(c)' BY <1>1, <1>2, TakenStays
  <1>4. Full(a) /\ memmap[off[a]] # 0 BY <1>1, <1>2 DEF Behind
  <1>5. off[a] \in Nat /\ k[a] \in Nat /\ x[a] \in Nat /\ TblSize \in Nat /\ k[a] < x[a]
    BY <1>1, <1>2, TableFits DEF TypeOK, Turns, Turn
  <1>6. ScansAlone(a) BY <1>1, <1>2, AloneScans
  <1> DEFINE lo == off[a] + 1 - memmap[off[a]]
  <1>7. Solid(lo, off[a] + 1) BY <1>4, <1>5, <1>6, TagMet
  <1>8. lo \in Int /\ lo <= off[a] BY <1>5, <1>7, BlockFacts
  <1>9. memmap[off[a]] \in Int
    <2>1. off[a] + 1 <= TblSize BY <1>7, BlockFacts
    <2> QED BY <1>5, <2>1, TableFits, SizeAssumption DEF TypeOK
  <1>10. off'[a] + 1 = lo /\ off'[a] + k'[a] + 1 = lo /\ x'[a] = x[a] /\ pc'[a] = "m_scan"
    BY <1>1, <1>5, <1>9 DEF Now
  <1>11. ASSUME NEW c \in Int, lo <= c, c <= off[a] PROVE Taken(c)
    <2>1. ASSUME NEW g \in Agents, Tagged(g), lo = Lo(g), off[a] + 1 = Hi(g) PROVE Taken(c)
      <3>1. Claims(g) /\ ~Scanning(g) BY <2>1, TaggedHas
      <3>2. c < Hi(g) BY <1>5, <1>11, <2>1
      <3> HIDE DEF lo, Lo, Hi, Claims, Scanning
      <3> QED BY <1>11, <2>1, <3>1, <3>2 DEF Taken
    <2>2. ASSUME NEW b \in live, lo = b[1], off[a] + 1 = b[1] + b[2] PROVE Taken(c)
      <3>1. c < b[1] + b[2] BY <1>5, <1>11, <2>2
      <3> HIDE DEF lo
      <3> QED BY <1>11, <2>2, <3>1 DEF Taken
    <2> QED BY <1>7, <2>1, <2>2 DEF Solid
  <1> HIDE DEF lo, Taken, TblSize
  <1>12. ASSUME NEW c \in off'[a] + 1 .. TblSize - x[a]
         PROVE  \E d \in c .. c + x[a] - 1 : Taken(d)'
    <2>1. CASE off[a] < c
      <3>1. PICK d \in c .. c + x[a] - 1 : Taken(d) BY <1>4, <1>5, <1>8, <1>10, <2>1 DEF Full
      <3> QED BY <1>3, <3>1
    <2>2. CASE c <= off[a]
      <3>1. Taken(c)' BY <1>3, <1>8, <1>10, <1>11, <2>2
      <3>2. c \in c .. c + x[a] - 1 BY <1>5, <1>8, <1>10
      <3> QED BY <3>1, <3>2
    <2> QED BY <1>5, <1>8, <1>10, <2>1, <2>2
  <1>13. Full(a)' BY <1>2, <1>10, <1>12 DEF Full
  <1>14. Taken(off[a] + k[a] + 1)'
    <2>1. PICK c \in Int : c = lo BY <1>8
    <2>2. Taken(c)' BY <1>3, <1>8, <1>11, <2>1
    <2> QED BY <1>10, <2>1, <2>2
  <1> QED BY <1>10, <1>13, <1>14 DEF Behind

LEMMA PassedNext ==
    ASSUME TypeOK, TypeOK', LockInv, Turns, Order, Bounds, Separate, Tags, Passed, NEW a \in Agents, Acts(a)
    PROVE  Passed'
  <1>1. \A g \in Agents : Quiet(g) => Behind(g) BY DEF Passed
  <1>2. \A g \in Agents \ {a} : Quiet(g) => Behind(g)' BY <1>1, BehindOther
  <1>3. ASSUME Quiet(a) PROVE Behind(a)'
    <2>1. CASE MallocLock(a) \/ Clear(a) BY <2>1, BehindStart
    <2>2. CASE Scan(a) BY <1>1, <1>3, <2>2, BehindScan
    <2>3. CASE Jump(a) BY <1>1, <1>3, <2>3, BehindJump
    <2>4. CASE ~(MallocLock(a) \/ Clear(a) \/ Scan(a) \/ Jump(a))
      <3>1. CASE Calls(a)
        <4>1. ASSUME NEW size \in Sizes, Malloc(a, size) PROVE pc'[a] = "m_lock" BY <4>1, Moves DEF Now
        <4>2. ASSUME NEW b \in live, FreeCall(a, b) PROVE pc'[a] = "f_lock" BY <4>2, Moves DEF Now
        <4>3. ASSUME NEW pos \in Breaks, Brk(a, pos) PROVE pc'[a] = "b_check" BY <4>3, Moves DEF Now
        <4>4. pc'[a] \in {"m_lock", "f_lock", "b_check"} BY <3>1, <4>1, <4>2, <4>3 DEF Calls
        <4> QED BY <4>4 DEF Behind, Scanning
      <3>2. CASE MallocStep(a)
        <4>1. pc'[a] \notin {"m_scan", "m_jump", "m_fail"} BY <2>4, <3>2, Moves DEF Now, MallocStep
        <4> QED BY <4>1 DEF Behind, Scanning
      <3>3. CASE FreeStep(a)
        <4>1. pc'[a] \notin {"m_scan", "m_jump", "m_fail"} BY <3>3, Moves DEF Now, FreeStep
        <4> QED BY <4>1 DEF Behind, Scanning
      <3>4. CASE BrkCheck(a)
        <4>1. pc'[a] \notin {"m_scan", "m_jump", "m_fail"} BY <3>4, Moves DEF Now
        <4> QED BY <4>1 DEF Behind, Scanning
      <3> QED BY <3>1, <3>2, <3>3, <3>4 DEF Acts
    <2> QED BY <2>1, <2>2, <2>3, <2>4
  <1>4. \A g \in Agents : Quiet(g) => Behind(g)' BY <1>2, <1>3
  <1> QED BY <1>4 DEF Passed, Quiet

-----------------------------------------------------------------------------
(***************************************************************************)
(* The theorems.                                                           *)
(***************************************************************************)
LEMMA InitInv == Init => IInv
  <1> SUFFICES ASSUME Init PROVE IInv OBVIOUS
  <1>1. TypeOK
    <2>1. 0 \in 0 .. Top /\ 0 \in -1 .. Top /\ Top \in Nat /\ 0 \in 0 .. Top - 0 BY SizeAssumption
    <2>2. 0 \in 0 .. Cardinality(Agents) BY HartAssumption, FS_CardinalityType DEF Agents
    <2>3. base \in 0 .. Top /\ memsize \in 0 .. Top - base /\ ioline \in Nat /\ ioline <= Top
      BY <2>1 DEF Init
    <2>4. memmap \in [Cells -> 0 .. Top] /\ off \in [Agents -> -1 .. Top] BY <2>1 DEF Init
    <2> QED BY <2>1, <2>2, <2>3, <2>4 DEF Init, TypeOK
  <1>2. \A a \in Agents : /\ pc[a] = "idle" /\ k[a] = 0 /\ ~InWindow(a)
                          /\ ~Holding(a) /\ ~Claims(a) /\ ~Scanning(a) /\ ~Lowered(a)
                          /\ ~HasFirst(a) /\ ~HasLast(a) /\ ~Stuck(a)
    BY DEF Init, Holding, Claims, Scanning, Reading, Placed, Stuck, Tagged, Lowered, HasFirst, HasLast,
       MallocPCs, FreePCs, InWindow, Windows
  <1>3. LockInv
    <2>1. owner = NoHart /\ depth = 0 BY DEF Init
    <2>2. Holders = {} BY <1>2 DEF Holders
    <2>3. Cardinality(Holders) = 0 BY <2>2, FS_EmptySet
    <2> QED BY <1>2, <2>1, <2>3 DEF LockInv
  <1>4. Turns BY <1>2 DEF Agents, Turns, Turn, Placed, MallocPCs, FreePCs, Busy
  <1>9. Order /\ Fresh BY <1>2 DEF Order, Init, Fresh
  <1>5. Bounds /\ Separate BY <1>2 DEF Init, Bounds, Separate
  <1>6. Tags BY <1>2 DEF Init, Tags
  <1>7. Lines BY <1>2, SizeAssumption DEF Init, Lines
  <1>8. Passed BY <1>2 DEF Passed, Behind, Init
  <1> QED BY <1>1, <1>3, <1>4, <1>5, <1>6, <1>7, <1>8, <1>9 DEF IInv

LEMMA StutterInv == IInv /\ UNCHANGED vars => IInv'
  <1> SUFFICES ASSUME IInv, UNCHANGED vars, Sound' PROVE IInv' BY DEF IInv
  <1>0. Sound BY DEF Sound, vars
  <1>1. TypeOK' /\ LockInv' BY <1>0 DEF IInv, vars, TypeOK, LockInv, Holders, Holding
  <1>2. Turns' BY <1>0 DEF IInv, vars, Turns, Turn, Scanning, Placed, Stuck, Busy
  <1>13. Order' /\ Fresh' BY <1>0 DEF IInv, vars, Order, InWindow, Inside, Above, Level, Fresh
  <1>3. TblSize' = TblSize /\ live' = live /\ memmap' = memmap /\ off' = off
        /\ pc' = pc /\ ioline' = ioline /\ broken' = broken /\ heapline' = heapline /\ base' = base
        /\ k' = k /\ x' = x /\ nested' = nested
    BY DEF vars, TblSize
  <1>4. \A g \in Agents : /\ Lo(g)' = Lo(g) /\ Hi(g)' = Hi(g) /\ Length(g)' = Length(g)
                          /\ Claims(g)' <=> Claims(g)
                          /\ Scanning(g)' <=> Scanning(g)
                          /\ HasFirst(g)' <=> HasFirst(g)
                          /\ HasLast(g)' <=> HasLast(g)
                          /\ Lowered(g)' <=> Lowered(g)
                          /\ Stuck(g)' <=> Stuck(g)
    BY <1>3 DEF Lo, Hi, Length, Claims, Scanning, HasFirst, HasLast, Tagged, Lowered, Stuck,
       Placed, Reading, Level
  <1>5. \A c : Address(c)' = Address(c) BY <1>3 DEF Address
  <1> HIDE DEF Lo, Hi, Length, Claims, Scanning, HasFirst, HasLast, Lowered, Stuck, Address, TblSize
  <1>6. Bounds' BY <1>0, <1>3, <1>4 DEF IInv, Bounds, Within
  <1>7. Separate' BY <1>0, <1>3, <1>4 DEF IInv, Separate, Beside
  <1>8. Tags' BY <1>0, <1>3, <1>4 DEF IInv, Tags
  <1>9. Level' => Lines' BY <1>0, <1>3, <1>4 DEF IInv, Lines, Address, Level
  <1>10. \A c : Taken(c) => Taken(c)' BY <1>3, <1>4 DEF Taken
  <1>11. ASSUME NEW g \in Agents, Behind(g) PROVE Behind(g)'
    <2>1. Full(g) => Full(g)' BY <1>3, <1>10, FullStays
    <2>2. ASSUME NEW e, e = off[g] + k[g] + 1, Taken(e) PROVE Taken(off[g] + k[g] + 1)'
      <3>1. Taken(e)' /\ e = off'[g] + k'[g] + 1 BY <1>3, <1>10, <2>2
      <3> QED BY <3>1
    <2> HIDE DEF Full, Taken
    <2> QED BY <1>3, <1>4, <1>11, <2>1, <2>2 DEF Behind
  <1>12. Passed' BY <1>0, <1>11 DEF IInv, Passed, Quiet
  <1> QED BY <1>1, <1>2, <1>6, <1>7, <1>8, <1>9, <1>12, <1>13 DEF IInv

LEMMA Inductive == Spec => []IInv
  <1>1. IInv /\ Next => IInv'
    <2> SUFFICES ASSUME IInv, NEW a \in Agents, Acts(a), Sound' PROVE IInv' BY DEF Next, Acts, IInv
    <2>0. Sound /\ (Level' => Level) BY NestedGrows DEF Sound, Level
    <2>1. /\ TypeOK /\ LockInv /\ Turns /\ Order /\ Fresh /\ Bounds /\ Separate /\ Tags /\ Passed
          /\ Level => Lines
      BY <2>0 DEF IInv
    <2>2. TypeOK' BY <2>1, TypeNext
    <2>3. LockInv' BY <2>1, LockNext
    <2>4. Turns' BY <2>1, TurnsNext
    <2>5. Order' BY <2>1, <2>3, OrderNext
    <2>6. Fresh' BY <2>1, FreshNext
    <2>7. Bounds' /\ Separate' BY <2>1, <2>2, ZonesNext DEF Zones
    <2>8. Tags' BY <2>1, TagsNext
    <2>9. Level' => Lines' BY <2>0, <2>1, LinesNext
    <2>10. Passed' BY <2>1, <2>2, PassedNext
    <2> QED BY <2>2, <2>3, <2>4, <2>5, <2>6, <2>7, <2>8, <2>9, <2>10 DEF IInv
  <1>2. IInv /\ [Next]_vars => IInv' BY <1>1, StutterInv
  <1> QED BY <1>2, InitInv, PTL DEF Spec

\* The lines, the tags and the counts of every call stay in their ranges, until
\* a handler allocates between the first look of a call at the table and its
\* last tag.
THEOREM TypeCorrect == Spec => []("tags" \notin nested => TypeOK)
  <1>1. IInv => ("tags" \notin nested => TypeOK) BY DEF IInv, Sound
  <1> QED BY <1>1, Inductive, PTL

LEMMA BesideApart ==
    ASSUME NEW b, NEW c, b[1] \in Int, b[2] \in Int, c[1] \in Int, c[2] \in Int,
           Beside(b[1], b[1] + b[2], c[1], c[1] + c[2])
    PROVE  Apart(b, c)
  BY DEF Beside, Apart, CellsOf

LEMMA GrantsHas ==
    ASSUME TypeOK, NEW a \in Agents, Grants(a)
    PROVE  /\ Claims(a) /\ Lo(a) = Block(a)[1] /\ Hi(a) = Block(a)[1] + Block(a)[2]
           /\ Block(a)[1] \in Int /\ Block(a)[2] \in Int
  <1>1. off[a] \in Int /\ x[a] \in Int BY DEF TypeOK
  <1>2. Block(a)[1] = off[a] /\ Block(a)[2] = x[a] BY DEF Block
  <1>3. Claims(a) /\ Lo(a) = off[a] /\ Hi(a) = off[a] + x[a]
    BY DEF Grants, Claims, Placed, Lo, Hi, Scanning, Reading
  <1> QED BY <1>1, <1>2, <1>3

\* No cell of I/O memory is ever in two blocks, whoever frees and allocates in
\* the handlers, until one allocates between the first look of a call at the
\* table and its last tag.
THEOREM BlocksDisjoint == Spec => []Disjoint
  <1>1. IInv => Disjoint
    <2> SUFFICES ASSUME IInv, Sound PROVE Disjoint BY DEF Disjoint, Sound
    <2>1. TypeOK /\ Bounds /\ Separate BY DEF IInv
    <2>2. \A b \in live : b[1] \in Int /\ b[2] \in Int BY <2>1, LiveInts
    <2>3. ASSUME NEW b \in live, NEW c \in live, b # c PROVE Apart(b, c)
      BY <2>1, <2>2, <2>3, BesideApart DEF Separate
    <2>4. ASSUME NEW a \in Agents, Grants(a), NEW b \in live PROVE Apart(Block(a), b)
      <3>1. Beside(Lo(a), Hi(a), b[1], b[1] + b[2]) BY <2>1, <2>4, GrantsHas DEF Separate
      <3> HIDE DEF Block
      <3> QED BY <2>1, <2>2, <2>4, <3>1, GrantsHas, BesideApart
    <2>5. ASSUME NEW a \in Agents, NEW b \in Agents, a # b, Grants(a), Grants(b)
          PROVE  Apart(Block(a), Block(b))
      <3>1. Beside(Lo(a), Hi(a), Lo(b), Hi(b)) BY <2>1, <2>5, GrantsHas DEF Separate
      <3> HIDE DEF Block
      <3> QED BY <2>1, <2>5, <3>1, GrantsHas, BesideApart
    <2>6. ASSUME NEW b \in Granted PROVE CellsOf(b) \subseteq 0 .. TblSize - 1
      <3>1. b[1] \in Int /\ b[2] \in Int /\ Within(b[1], b[1] + b[2])
        <4>1. CASE b \in live BY <2>1, <2>2, <4>1 DEF Bounds
        <4>2. ASSUME NEW a \in Agents, Grants(a), b = Block(a)
              PROVE  b[1] \in Int /\ b[2] \in Int /\ Within(b[1], b[1] + b[2])
          <5>1. Within(Lo(a), Hi(a)) BY <2>1, <4>2, GrantsHas DEF Bounds
          <5> QED BY <2>1, <4>2, <5>1, GrantsHas
        <4> QED BY <4>1, <4>2 DEF Granted
      <3> QED BY <2>1, <3>1, TableFits DEF Within, CellsOf
    <2> QED BY <2>3, <2>4, <2>5, <2>6 DEF Disjoint
  <1> QED BY <1>1, Inductive, PTL

\* Until then the table says, between calls, exactly which blocks callers hold.
THEOREM TagsRight == Spec => []TagsExact
  <1>1. IInv => TagsExact
    <2> SUFFICES ASSUME IInv, Sound,
                        \A a \in Agents : pc[a] \in {"idle", "b_check", "b_hung", "m_lock"},
                        NEW c \in Cells
                 PROVE  memmap[c] = IF \E b \in live : c \in {b[1], b[1] + b[2] - 1}
                                    THEN (CHOOSE b \in live : c \in {b[1], b[1] + b[2] - 1})[2]
                                    ELSE 0
      BY DEF TagsExact, Sound
    <2>1. Tags BY DEF IInv
    <2>2. \A a \in Agents : ~HasFirst(a) /\ ~HasLast(a)
      BY DEF HasFirst, HasLast, Tagged, Placed, Reading, Stuck
    <2>3. CASE \E b \in live : c \in {b[1], b[1] + b[2] - 1}
      <3> DEFINE d == CHOOSE b \in live : c \in {b[1], b[1] + b[2] - 1}
      <3>1. d \in live /\ c \in {d[1], d[1] + d[2] - 1} BY <2>3
      <3> HIDE DEF d
      <3>2. memmap[c] = d[2] BY <2>1, <3>1 DEF Tags
      <3> QED BY <2>3, <3>2 DEF d
    <2>4. CASE ~\E b \in live : c \in {b[1], b[1] + b[2] - 1}
      <3>1. memmap[c] = 0 BY <2>1, <2>2, <2>4 DEF Tags
      <3> QED BY <2>4, <3>1
    <2> QED BY <2>3, <2>4
  <1> QED BY <1>1, Inductive, PTL

\* The heap and the I/O memory, whose lines move without a common lock, never
\* both hand out the same memory, until a handler allocates in either window.
THEOREM HeapBelow == Spec => []HeapBelowBlocks
  <1>1. IInv => HeapBelowBlocks BY DEF IInv, Sound, Level, Lines, HeapBelowBlocks
  <1> QED BY <1>1, Inductive, PTL

\* On a hart without such interrupts iomem_malloc gives up only when every run
\* of blocks that is long enough is taken.
THEOREM FailsRight == Spec => []FailsOnlyWhenFull
  <1>1. IInv => FailsOnlyWhenFull
    <2> SUFFICES ASSUME IInv, Sound, NEW a \in Agents, pc[a] = "m_fail", x[a] > 0,
                        \A i \in Isrs : HartOf[i] # HartOf[a],
                        NEW c \in 0 .. TblSize - x[a],
                        \A b \in Granted \cup
                              {<<off[f], memmap[off[f]]>> : f \in {g \in Agents : pc[g] = "f_lock"}} :
                            Apart(b, <<c, x[a]>>)
                 PROVE  FALSE
      BY DEF FailsOnlyWhenFull, Sound
    <2>1. TypeOK /\ LockInv /\ Turns /\ Bounds /\ Passed /\ Quiet(a) BY DEF IInv, Quiet
    <2>2. off[a] < 0 /\ Full(a) BY <2>1 DEF Passed, Behind
    <2>3. off[a] \in Int /\ x[a] \in Nat /\ TblSize \in Nat BY <2>1, TableFits DEF TypeOK
    <2>4. c \in off[a] + 1 .. TblSize - x[a] BY <2>2, <2>3
    <2>5. PICK d \in c .. c + x[a] - 1 : Taken(d) BY <2>2, <2>4 DEF Full
    <2>8. d \in CellsOf(<<c, x[a]>>) BY <2>5 DEF CellsOf
    <2>6. ASSUME NEW b \in live, b[1] <= d, d < b[1] + b[2] PROVE FALSE
      <3>1. b[1] \in Int /\ b[2] \in Int BY <2>1, LiveInts
      <3>2. d \in CellsOf(b) BY <2>3, <2>6, <3>1 DEF CellsOf
      <3>3. Apart(b, <<c, x[a]>>) BY DEF Granted
      <3> QED BY <2>8, <3>2, <3>3 DEF Apart
    <2>7. ASSUME NEW g \in Agents, Claims(g), ~Scanning(g), Lo(g) <= d, d < Hi(g) PROVE FALSE
      <3>1. Holding(a) BY DEF Holding, MallocPCs
      <3>2. ~Holding(g)
        <4> SUFFICES ASSUME Holding(g) PROVE FALSE OBVIOUS
        <4>1. HartOf[g] = HartOf[a] BY <2>1, <3>1 DEF LockInv
        <4>2. g # a BY <2>7 DEF Claims, Scanning, Reading, Placed, Stuck
        <4>3. g \in Isrs \/ a \in Isrs BY <4>1, <4>2, OnePerHart
        <4> QED BY <4>1, <4>3
      <3>3. pc[g] = "f_lock"
        BY <2>7, <3>2 DEF Holding, Claims, Scanning, Reading, Placed, Stuck, MallocPCs, FreePCs
      <3>4. Lo(g) = off[g] /\ Hi(g) = off[g] + memmap[off[g]] BY <3>3 DEF Lo, Hi, Scanning, Reading
      <3>5. Lo(g) \in Int /\ Hi(g) \in Int BY <2>1, <2>7, ZoneInts
      <3>6. memmap[off[g]] \in Int
        <4>1. off[g] \in Cells BY <2>1, <2>7, TableFits DEF Bounds
        <4> QED BY <2>1, <4>1, SizeAssumption DEF TypeOK
      <3>7. off[g] \in Int BY <2>1 DEF TypeOK
      <3> DEFINE b == <<off[g], memmap[off[g]]>>
      <3>8. d \in CellsOf(b) BY <2>3, <2>7, <3>4, <3>6, <3>7 DEF CellsOf
      <3>9. b \in {<<off[f], memmap[off[f]]>> : f \in {h \in Agents : pc[h] = "f_lock"}} BY <3>3
      <3> HIDE DEF b
      <3>10. Apart(b, <<c, x[a]>>) BY <3>9
      <3> QED BY <2>8, <3>8, <3>10 DEF Apart
    <2> QED BY <2>5, <2>6, <2>7 DEF Taken
  <1> QED BY <1>1, Inductive, PTL
=============================================================================
