SPECIFICATION Spec
CONSTANTS
  eth0 = eth0
  eth1 = eth1
  s1 = s1
  s2 = s2
  s3 = s3
  Nics = {eth0, eth1}
  Slots = {s1, s2, s3}
  Faulty = {eth0, eth1}
SYMMETRY Symmetry
INVARIANTS TypeOK SoleListener LiveIsFlagged WalkSettles
