SPECIFICATION Spec
CONSTANTS
  v1 = v1
  v2 = v2
  p1 = p1
  Visitors = {v1}
  Ips = {p1}
  IpOf <- SharedIp
  Limit = 3
  Retention = 2
  MaxAttempts = 3
  MaxWindows = 1
  MaxDay = 4
INVARIANTS HashesPurgedByLaterReviews
PROPERTIES SubmissionsAnswered
