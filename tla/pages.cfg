SPECIFICATION Spec
CONSTANTS
  TTL = 1
  Queries = {"roast", "reviews", "rating"}
  MaxReviews = 1
PROPERTIES VisitorsSeeCurrent
