-------------------------- MODULE MCOutboxDelivery --------------------------
(* The small instance of OutboxDelivery.  Its run checks liveness, for which TLC's     *)
(* symmetry reduction is not sound, so no symmetry is declared.             *)
EXTENDS OutboxDelivery

=============================================================================
