--------------------------- MODULE MCDelayPipeline ---------------------------
(* A TLC instance of DelayPipeline.  MCPathTable holds the others. *)
EXTENDS DelayPipeline

\* MMSPEED, with the table and the levels of the code: a beacon may still be in
\* the air when the next one is due.
LateWorld == {[callers |-> {"router"}, neighbors |-> 10, levels |-> 6, churn |-> FALSE,
               prompt |-> FALSE]}
=============================================================================
