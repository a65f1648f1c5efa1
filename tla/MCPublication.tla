--------------------------- MODULE MCPublication ---------------------------
(* The small instance of Publication.  Its run checks liveness, for which TLC's     *)
(* symmetry reduction is not sound, so no symmetry is declared.             *)
EXTENDS Publication

=============================================================================
