\* Overlapping edits of one port; no command fails and no port is unplugged.
SPECIFICATION Spec
CONSTANTS
  eth0 = eth0
  eth1 = eth1
  eth2 = eth2
  r1 = r1
  r2 = r2
  Nics = {eth0, eth1}
  Hotplug = {}
  Requests = {r1, r2}
  MaxEdits = 3
  MaxRejects = 0
  Rank <- TwoKernelOrder
  Alike <- TwoDistinctNames
INVARIANTS TypeIsReadBack
CHECK_DEADLOCK FALSE
