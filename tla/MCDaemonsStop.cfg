\* Three processes: one that has ended, the one started in its place, and a dashboard
\* run by hand that looks at the pid file meanwhile.
SPECIFICATION Spec
CONSTANTS
  c1 = c1
  q1 = q1
  q2 = q2
  q3 = q3
  Commands = {c1}
  Pids = {q1, q2, q3}
  NoPid = NoPid
  InTerminal = {"dashboard"}
  Cursor = FALSE
  Crashes = TRUE
INVARIANT StopFindsGateway
