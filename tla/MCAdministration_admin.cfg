SPECIFICATION Spec
CONSTANTS
  r1 = r1
  r2 = r2
  Requests = {r1, r2}
  Flags <- MCFlags
  Configs = {"c0", "c1"}
  Factory <- MCFactory
  MaxRequests = 3
  Registrations <- MCRegistrations
  Renewals <- MCRenewals
  Confirmations <- MCConfirmations
  SnmpUsers = {"u1"}
  MaxFailures = 1
  MaxCrashes = 1
SYMMETRY MCSymmetry
INVARIANTS TypeOK SettingsKept SoleAdmin AccountsKept RegistrationFollows AgentComesBack UsersAreServed PageShowsFile
CHECK_DEADLOCK FALSE
