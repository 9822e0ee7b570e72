------------------------------- MODULE MCTrap -------------------------------
EXTENDS Trap, TLC

\* two sources of different priority: the higher number is more urgent
MCPriority == [s \in Sources |-> s]

\* hart 0 has the sources to itself, or both harts have all
Split == [h \in Harts |-> IF h = 0 THEN Sources ELSE {}]
Shared == [h \in Harts |-> Sources]

\* hart 0 uses its timer, both send IPIs; threads that undo a disable, that
\* of hart 0 with a timer, too
Timers == [h \in Harts |-> IF h = 0 THEN {"stop", "start", "send"} ELSE {"send"}]
Enables == [h \in Harts |-> IF h = 0 THEN {"enable", "start", "stop"} ELSE {"enable"}]
=============================================================================
