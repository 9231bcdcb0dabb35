SPECIFICATION FairSpec
CONSTANTS
  eth0 = eth0
  eth1 = eth1
  s1 = s1
  s2 = s2
  s3 = s3
  Nics = {eth0, eth1}
  Slots = {s1, s2}
  Faulty = {}
PROPERTY GvrpRuns
