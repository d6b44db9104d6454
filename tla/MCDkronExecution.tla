-------------------------- MODULE MCDkronExecution --------------------------
(***************************************************************************)
(* Values for the constants of DkronExecution.                             *)
(***************************************************************************)
EXTENDS DkronExecution

CONSTANTS s1, s2, n1
=============================================================================
