SPECIFICATION Spec
CONSTANTS
  Ids = {r1, r2, r3}
  Resources <- MCResources
  Requests <- MCRequests
  Asked = {"POST", "OPTIONS", "PATCH"}
SYMMETRY Symmetry
INVARIANTS
  TypeOK
  RoutesToMostSpecific
  BindsSegments
PROPERTY
  RoutesStay
