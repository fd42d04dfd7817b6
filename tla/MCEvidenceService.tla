------------------------- MODULE MCEvidenceService -------------------------
(* TLC instances of EvidenceService. *)
EXTENDS EvidenceService

CONSTANTS c1, c2, c3
=============================================================================
