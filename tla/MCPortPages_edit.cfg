SPECIFICATION Spec
CONSTANTS
  eth0 = eth0
  eth1 = eth1
  v1 = v1
  v2 = v2
  t1 = t1
  t2 = t2
  Nics = {eth0, eth1}
  Vlans = {v1, v2}
  Threads = {t1, t2}
  Forms <- MCForms
  Batches <- MCBatches
  MaxHandlers = 4
  MaxFaults = 1
SYMMETRY MCSymmetry
INVARIANTS TypeOK PortsAsAsked GvrpIsWished PrivateHasOneVlan NoAddressBehindBridge
CHECK_DEADLOCK FALSE
