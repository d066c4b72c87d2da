\* A catalog fetched under an earlier row of the table is served as fresh.
SPECIFICATION Spec
CONSTANTS
  r1 = r1
  r2 = r2
  a = a
  b = b
  upstream = upstream
  sourced = sourced
  command = command
  invalid = invalid
  Requests = {r1}
  Names = {a, b}
  Rows = {upstream, sourced}
  NoRow = NoRow
  Listed = {}
  Sourced = {sourced}
  ByCommand = {}
  Invalid = {}
  Missing = Missing
  Unreadable = Unreadable
  Garbled = Garbled
  MaxEdits = 1
  MaxStamp = 2
PROPERTY HitsAreCurrent
