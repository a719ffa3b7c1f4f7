SPECIFICATION MCSpec
CONSTANTS
  RepositoryNames = {a, b, c}
  MaxEntries = 4
  MaxRetains = 1
  MaxDependencies = 2
  Reload = FALSE
  SelfLinks = FALSE
  FinalizeAnytime = FALSE
  NumFiles = 3
  Missing = Missing
  Disks <- MCDisks
  Selections <- MCSelections
  MaxOpenFiles = 2
  NumComponents = 2
  MaxUsers = 2
  MaxPriority = 1
  InitialFlags <- MCInitialFlags
  VarComponents = {"c1", "c2"}
  FrameworkOf <- MCFrameworkOf
  Declarations <- MCDeclarations
  Enumerator <- MCEnumerator
  Settings <- MCSettings
  SetValues <- MCSetValues
  MaxRegistrations = 3
  PvarDeclarations <- MCPvarDeclarations
  Handles = {h1}
  Modulus = 4
  MaxPvars = 2
  Options <- MCOptions
  CommandLines <- MCCommandLines
  LaterLines <- MCLaterLines
  Integer <- MCInteger
  McaOptions <- MCMcaOptions
  Delimiter = ","
  Strings <- MCStrings
  ArgvBound = 4
  EnvNames <- MCEnvNames
  EnvValues <- MCEnvValues
CHECK_DEADLOCK FALSE
INVARIANT OpenAsPromised
