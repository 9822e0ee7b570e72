------------------------------ MODULE MCTimer ------------------------------
EXTENDS Timer

\* both channels of part A of device 1, and one of its part B, more urgent
MCUsed == {<<1, 0>>, <<1, 1>>, <<1, 2>>}
MCSingle == {<<1, 0>>, <<1, 2>>}
MCPriority == [p \in Parts |-> 1 + p[2]]
=============================================================================
