SPECIFICATION Spec
CONSTANTS
  r1 = r1
  r2 = r2
  Requests = {r1, r2}
  Flags <- MCFlags
  Configs = {"c0", "c1"}
  Factory <- MCFactory
  MaxRequests = 2
  Registrations = {}
  Renewals = {}
  Confirmations = {}
  SnmpUsers = {"u1"}
  MaxFailures = 1
  MaxCrashes = 1
INVARIANT AgentHasConfig
CHECK_DEADLOCK FALSE
