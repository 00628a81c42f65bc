SPECIFICATION Spec
CONSTANTS
  Ids = {r1, r2}
  Resources <- MCDocumented
  Requests <- MCRequests
  Asked = {"POST", "OPTIONS", "PATCH"}
INVARIANT
  DocumentedIsServed
