------------------------------ MODULE DkronTerm ------------------------------
(***************************************************************************)
(* What the leader loop of a server promises, without the how: the terms   *)
(* it serves follow each other, each begins, may be established and ends,  *)
(* and the cron runs exactly while a term is established.                  *)
(***************************************************************************)
VARIABLES phase, cron

vars == <<phase, cron>>

Init == phase = "none" /\ cron = FALSE

\* The loop is started.
Begin == phase = "none" /\ phase' = "pending" /\ UNCHANGED cron

\* The scheduler is started.
Establish == phase = "pending" /\ phase' = "established" /\ cron' = TRUE

\* The loop ends, and the cron with it.
End == phase # "none" /\ phase' = "none" /\ cron' = FALSE

Next == Begin \/ Establish \/ End

Spec == Init /\ [][Next]_vars

=============================================================================
