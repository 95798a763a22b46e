SPECIFICATION RouteSpec
CONSTANTS
  NumFallbacks = 3
  FirstSshDelay = 2
  MaxSshDelay = 5
  MaxSshShift = 2
  ReadyTimeout = 2
INVARIANTS RouteTypeOK OneSshChild RoutesAgree
PROPERTY SwitchEnds
