SPECIFICATION Spec
CONSTANTS
  v1 = v1
  v2 = v2
  p1 = p1
  Visitors = {v1, v2}
  Ips = {p1}
  IpOf <- SharedIp
  Limit = 1
  Retention = 1
  MaxAttempts = 2
  MaxWindows = 2
  MaxDay = 0
SYMMETRY VisitorsAlike
INVARIANTS ThanksMeansStored GateHolds
