SPECIFICATION HopsSpec
CHECK_DEADLOCK FALSE
CONSTANTS
  bastion = bastion
  mid = mid
  far = far
  Servers <- Saved
  RouteID <- Routes
  MaxConns = 6
  MaxDeeds = 4
INVARIANTS ClosedOnceUnused CountsAreTrue ReachedAsSaved
