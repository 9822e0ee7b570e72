------------------------------ MODULE MCIomem ------------------------------
EXTENDS Iomem, TLC

CONSTANTS t0, t1, i0, i1

\* a thread and two DMA interrupts, one over the other, on hart 0, a thread on
\* hart 1
MCHartOf == [a \in Agents |-> IF a = t1 THEN 1 ELSE 0]
MCPriority == [i \in Isrs |-> IF i = i0 THEN 1 ELSE 2]

\* Not what follows when a handler has allocated in a window: of the tags'
\* nothing is claimed then, of the line's the proofs say what is.
BeforeWindows == nested = {}
=============================================================================
