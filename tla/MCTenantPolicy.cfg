SPECIFICATION MCSpec
CHECK_DEADLOCK FALSE
CONSTANTS
  None = None
  one = one
  other = other
  Requests = {one, other}
  Internal = {}
  Keys = {"key"}
  Tenants = {"tenant"}
  TenantOf <- MCTenantOf
  Policies <- MCPolicies
  AuthTTL = 2
  PolicyTTL = 1
  FetchTimeout = 1
  MaxAttempts = 2
  MaxTime = 5
  MaxChanges = 1
SYMMETRY MCSymmetry
INVARIANTS
  OnePolicyPerRequest
PROPERTIES
  RevocationReaches
  PolicyIsRecent
