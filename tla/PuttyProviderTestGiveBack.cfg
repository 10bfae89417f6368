SPECIFICATION Spec
CHECK_DEADLOCK FALSE
CONSTANTS
  NULL = NULL
  Unset = Unset
  UserNames <- MCUserNames
  HostNames <- MCHostNames
  Ports <- MCPorts
  MaxEntries = 3
INVARIANT
  FixturesGiveBackWhatTheyTook
