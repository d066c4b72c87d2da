\* One provider may also be imported, the other copied from a sibling CLI that
\* refreshes on its own.
SPECIFICATION FairSpec
CONSTANTS
  p1 = p1
  p2 = p2
  xai = xai
  codex = codex
  xaiEndpoint = xaiEndpoint
  Callers = {p1, p2}
  NoCaller = NoCaller
  Providers = {xai, codex}
  Imported = {xai}
  Adopted = {codex}
  Endpoints = {xaiEndpoint}
  NoEndpoint = NoEndpoint
  Declared <- MCDeclared
  MaxPairs = 2
  ReadFaults = FALSE
INVARIANTS TypeOK SingleUse CopyIsCurrent SpentIsMarked
PROPERTIES WritesTouchOneGrant LedgerSpec CallsEnd
