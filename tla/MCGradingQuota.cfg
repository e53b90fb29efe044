SPECIFICATION Spec
CHECK_DEADLOCK FALSE
CONSTANTS
  Requests = {1, 2, 3, 4}
  Keys = {"a1", "a2", "a3", "b1", "b2", "b3"}
  Tenants = {"a", "b"}
  TenantOf <- KeyTenants
  KeyOf <- QuotaKeys
  Direct = {4}
  Metered = {"a"}
  Limit = 1
  MaxConcurrency = 1
  MaxQueued = 1
  MaxAdmittedPerTenant = 1
  MaxPeriod = 1
INVARIANTS
  ReservationsExact
PROPERTIES
  KeepsAdmissionContract
