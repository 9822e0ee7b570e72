------------------------------ MODULE MCSpiDma ------------------------------
EXTENDS SpiDma

Kinds == {"trans", "recv", "eeprom", "long"}

\* hart 0 passes callbacks, hart 1 waits
MCUses == [h \in Harts |-> IF h = 0 THEN Kinds \X {TRUE} ELSE Kinds \X {FALSE}]

MCIds == 1 .. MaxTransfers
=============================================================================
