--------------------------- MODULE MCAuditDelivery ---------------------------
(* The small instance of AuditDelivery.  Its run checks liveness, for which TLC's     *)
(* symmetry reduction is not sound, so no symmetry is declared.             *)
EXTENDS AuditDelivery

=============================================================================
