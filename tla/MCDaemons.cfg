\* One command at a time; services run by hand and crashes at any moment.
SPECIFICATION FairSpec
CONSTANTS
  c1 = c1
  q1 = q1
  q2 = q2
  q3 = q3
  Commands = {c1}
  Pids = {q1, q2}
  NoPid = NoPid
  InTerminal = {"gateway", "dashboard"}
  Cursor = TRUE
  Crashes = TRUE
INVARIANT TypeOK
PROPERTIES ServicesAreTracked StopsAreDone CommandsEnd
