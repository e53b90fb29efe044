SPECIFICATION FairSpec
CHECK_DEADLOCK FALSE
CONSTANTS
  Requests = {1, 2, 3, 4}
  Keys = {"a1", "a2", "a3", "b1", "b2", "b3"}
  Tenants = {"a", "b"}
  TenantOf <- KeyTenants
  KeyOf <- SlotKeys
  Direct = {}
  Metered = {"a"}
  Limit = 2
  MaxConcurrency = 2
  MaxQueued = 2
  MaxAdmittedPerTenant = 2
  MaxPeriod = 0
INVARIANTS
  SlotsAccounted
  NoIdleSlot
PROPERTIES
  WaitersSettle
  KeepsAdmissionContract
