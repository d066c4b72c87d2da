\* Lookups, refresh threads, failures, new catalogs and time in every order.
SPECIFICATION FairSpec
CONSTANTS
  c1 = c1
  c2 = c2
  c3 = c3
  Callers = {c1, c2, c3}
  MaxCatalogs = 3
INVARIANTS TypeOK SingleFlight
PROPERTIES CooldownHolds TableNeverGoesBack RefreshRecovers
