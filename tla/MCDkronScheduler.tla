-------------------------- MODULE MCDkronScheduler --------------------------
(* The scheduler for TLC. *)
EXTENDS DkronScheduler

=============================================================================
