----------------------------- MODULE MCAuthVault -----------------------------
(* Two callers, the two subscriptions the gateway declares, and a sibling CLI *)
(* that also holds a Codex grant.                                             *)
EXTENDS AuthVault

CONSTANTS p1, p2, xai, codex, xaiEndpoint

MCDeclared == [q \in Providers |-> IF q = xai THEN xaiEndpoint ELSE NoEndpoint]
=============================================================================
