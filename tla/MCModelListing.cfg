\* Reloads, edits and answers in every order.
SPECIFICATION FairSpec
CONSTANTS
  r1 = r1
  r2 = r2
  a = a
  b = b
  upstream = upstream
  sourced = sourced
  command = command
  invalid = invalid
  Requests = {r1, r2}
  Names = {a, b}
  Rows = {upstream, command}
  NoRow = NoRow
  Listed = {}
  Sourced = {upstream}
  ByCommand = {command}
  Invalid = {command}
  Missing = Missing
  Unreadable = Unreadable
  Garbled = Garbled
  MaxEdits = 1
  MaxStamp = 2
INVARIANTS TypeOK WarningMatchesCatalog
PROPERTIES ListingSeesFile StaleCatalogsDie ListingsEnd
