\* Three ports with a mode each: three edits, of which two may run at once, one
\* port that can be unplugged, crashes at any point.
SPECIFICATION Spec
CONSTANTS
  eth0 = eth0
  eth1 = eth1
  eth2 = eth2
  r1 = r1
  r2 = r2
  Nics = {eth0, eth1, eth2}
  Hotplug = {eth2}
  Requests = {r1, r2}
  MaxEdits = 3
  MaxRejects = 0
  Rank <- KernelOrder
  Alike <- DistinctNames
INVARIANTS ReportedType
PROPERTIES ImplementsPrivateVlan
SYMMETRY RequestSymmetry
