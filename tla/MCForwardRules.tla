--------------------------- MODULE MCForwardRules ---------------------------
\* Instances of ForwardRules for TLC.
EXTENDS ForwardRules, TLC

CONSTANTS eth0, eth1, eth2, r1, r2

\* The kernel lists eth0 first.
KernelOrder == (eth0 :> 0) @@ (eth1 :> 1) @@ (eth2 :> 2)
TwoKernelOrder == (eth0 :> 0) @@ (eth1 :> 1)

\* Every name is found in itself only.
DistinctNames == (eth0 :> {eth0}) @@ (eth1 :> {eth1}) @@ (eth2 :> {eth2})
TwoDistinctNames == (eth0 :> {eth0}) @@ (eth1 :> {eth1})

\* No constant tells one request from another.
RequestSymmetry == Permutations({r1, r2})
=============================================================================
