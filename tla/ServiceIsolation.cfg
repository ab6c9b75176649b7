SPECIFICATION Spec
CONSTANTS
  q1 = q1
  q2 = q2
  q3 = q3
  Requests <- MCRequests
  RoleRequests <- MCRoleRequests
  Slots = {s1, s2}
  NoRequest = NoRequest
  NoSlot = NoSlot
  QueryTimeout = 2
  ClientTimeout = 3
  MaxRestarts = 0
  MaxFaults = 0
INVARIANTS QueryErrorsIsolated
CHECK_DEADLOCK FALSE
