----------------------------- MODULE MCHostRam -----------------------------
EXTENDS HostRam

MCRam == [j \in Jobs |-> 3]

=============================================================================
