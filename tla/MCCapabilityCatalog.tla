------------------------ MODULE MCCapabilityCatalog ------------------------
(* Three threads look models up; OpenRouter's catalog changes twice. *)
EXTENDS CapabilityCatalog

CONSTANTS c1, c2, c3
=============================================================================
