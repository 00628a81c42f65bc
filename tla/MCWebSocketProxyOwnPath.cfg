SPECIFICATION Spec
CONSTANTS
  Clients = {c1, c2}
  Resources <- MCResources
  MaxSaid = 1
  MaxBackSaid = 1
  MaxBreaks = 1
  ReadLimit = 2
INVARIANT
  OwnPath
