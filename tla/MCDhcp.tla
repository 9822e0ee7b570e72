------------------------------- MODULE MCDhcp -------------------------------
EXTENDS Dhcp

\* the shortest leases that satisfy LeaseAssumption
MCLease == [s \in Servers |-> 11 + s]
=============================================================================
