SPECIFICATION ConfigSpec
CONSTANTS
  Names = {"P", "Q"}
  NewNames = {"Q"}
  AccountEdits <- MCAccountEdits
  Upstreams = {"u"}
  RouteNames = {"x"}
  Aliases = {"x"}
  Transports = {"t"}
  Seeds <- MCSeeds
  MaxProviders = 2
  MaxAccounts = 3
  MaxModels = 2
  MaxRoutes = 2
  TargetLists <- MCTargetLists
  MaxHandlers = 2
  None = None
INVARIANTS CredentialStaysHome EditsAreWhole
CHECK_DEADLOCK FALSE
