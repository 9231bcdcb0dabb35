\* Long histories of two ports: four edits, of which two may run at once, one
\* failing command, one port that can be unplugged, crashes at any point.
SPECIFICATION Spec
CONSTANTS
  eth0 = eth0
  eth1 = eth1
  eth2 = eth2
  r1 = r1
  r2 = r2
  Nics = {eth0, eth1}
  Hotplug = {eth1}
  Requests = {r1, r2}
  MaxEdits = 4
  MaxRejects = 1
  Rank <- TwoKernelOrder
  Alike <- TwoDistinctNames
INVARIANTS TypeOK AcceptsFirst RulesMatchType
SYMMETRY RequestSymmetry
