SPECIFICATION Spec
CONSTANTS
  eth0 = eth0
  eth1 = eth1
  v1 = v1
  v2 = v2
  web = web
  web2 = web2
  Nics = {eth0, eth1}
  Vlans = {v1, v2}
  Threads = {web, web2}
  Calls <- Meeting
  Overlap = FALSE
  MaxCrashes = 1
INVARIANTS TypeOK BridgesServe AddressOnBridgeOnly UpdatesSucceed
PROPERTY ImplementsVlanTable
