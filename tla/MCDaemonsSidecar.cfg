\* Background services only, and nothing goes wrong by itself.
SPECIFICATION Spec
CONSTANTS
  c1 = c1
  q1 = q1
  q2 = q2
  q3 = q3
  Commands = {c1}
  Pids = {q1, q2, q3}
  NoPid = NoPid
  InTerminal = {}
  Cursor = TRUE
  Crashes = FALSE
INVARIANT SidecarIsTracked
