---------------------------- MODULE MCSpiSlave ----------------------------
EXTENDS SpiSlave

Op(c, a, n) == [cmd |-> c, addr |-> a, len |-> n]

\* every command; the configuration and the data memory have an address each.
\* A write of one byte, one of as many items as a command has, and blocks
\* longer and shorter than the FIFO.
MCWork == <<Op("WRITE_CONFIG", "cfg", 3), Op("READ_CONFIG", "cfg", 3),
            Op("WRITE_DATA_BYTE", "ram", 8), Op("READ_DATA_BYTE", "ram", 8),
            Op("WRITE_DATA_BYTE", "ram", 1), Op("WRITE_DATA_BLOCK", "ram", 2),
            Op("READ_DATA_BLOCK", "ram", 2), Op("READ_DATA_BLOCK", "ram", 1)>>
=============================================================================
