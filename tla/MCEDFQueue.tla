----------------------------- MODULE MCEDFQueue -----------------------------
(* TLC instance of EDFQueue: three slots, so that head wraps in both        *)
(* directions, and enough arrivals to fill the queue more than twice.       *)
EXTENDS EDFQueue

MCDeadlines == {1, 2, 3}
=============================================================================
