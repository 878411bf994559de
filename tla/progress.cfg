SPECIFICATION Spec
CONSTANTS
  k1 = k1
  k2 = k2
  g1 = g1
  g2 = g2
  i1 = i1
  i2 = i2
  origin = origin
  rating = rating
  Keys = {k1}
  Slugs = {g1}
  Ids = {i1}
  NoId = NoId
  Groups = {origin}
  NoGroup = NoGroup
  Fields = {consent}
  Consent = consent
  Invalid = Invalid
  MaxRevision = 2
  MaxSeq = 4
  Sessions = {s1, s2}
  NoSession = NoSession
  Calls <- ProgressCalls
  LegacyRoasts <- NoRoasts
  Recorded = {k1}

PROPERTIES CallsEnd
