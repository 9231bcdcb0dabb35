-------------------------- MODULE MCGvrpSupervisor --------------------------
\* Instances of GvrpSupervisor for TLC.
EXTENDS GvrpSupervisor, TLC

CONSTANTS eth0, eth1, s1, s2, s3

\* Nothing tells one slot from another, or one port.
Symmetry == Permutations(Slots) \cup Permutations(Nics)
=============================================================================
