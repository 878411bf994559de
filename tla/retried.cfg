SPECIFICATION Spec
CONSTANTS
  v1 = v1
  v2 = v2
  p1 = p1
  Visitors = {v1}
  Ips = {p1}
  IpOf <- SharedIp
  Limit = 2
  Retention = 1
  MaxAttempts = 2
  MaxWindows = 1
  MaxDay = 0
INVARIANTS RetryMeansNotStored
