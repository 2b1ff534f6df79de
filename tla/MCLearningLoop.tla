--------------------------- MODULE MCLearningLoop ---------------------------
(***************************************************************************)
(* LearningLoop for TLC: one request type and two processes.               *)
(***************************************************************************)
EXTENDS LearningLoop

\* The first process may be stopped by a deadline or the user, the second may not: what
\* a stopped process leaves on disk is what the second one finds.
SecondIsNotStopped == starts = MaxStarts => stop \notin {"deadline", "cancelled"}
=============================================================================
