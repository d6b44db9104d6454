--------------------------- MODULE MCDkronConsole ---------------------------
(* The console for TLC: one job, one other value for the rest of it. *)
EXTENDS DkronConsole

\* The pages the user opens besides the dashboard, which follows the sign-in.
ConsolePages == {"jobs", "executions", "dependencies", "edit"}

=============================================================================
