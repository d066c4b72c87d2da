\* A writer cannot read the file it is about to replace.
SPECIFICATION Spec
CONSTANTS
  p1 = p1
  p2 = p2
  xai = xai
  codex = codex
  xaiEndpoint = xaiEndpoint
  Callers = {p1, p2}
  NoCaller = NoCaller
  Providers = {xai, codex}
  Imported = {xai}
  Adopted = {}
  Endpoints = {xaiEndpoint}
  NoEndpoint = NoEndpoint
  Declared <- MCDeclared
  MaxPairs = 2
  ReadFaults = TRUE
PROPERTY RecordedEndpointSurvives
