CONSTANTS
  r1 = r1
  r2 = r2
  web = web
  primary = primary
  sibling = sibling
  plain = plain
  stateful = stateful
  data = data
  alice = alice
  bob = bob
  None = None
  Requests = {r1, r2}
  Names = {web}
  Services = {primary, sibling}
  ServicesOf <- MCServicesOf
  Templates = {plain, stateful}
  Claims = {data}
  MountOf <- MCMountOf
  Tenants = {alice, bob}
  MaxReplicas = 2
  Operations = {"apply", "rollback"}
  Faults = {"abandon"}
  Exclusive = TRUE
SPECIFICATION Spec
SYMMETRY Symmetry
CHECK_DEADLOCK FALSE
PROPERTY UnownedUntouched
