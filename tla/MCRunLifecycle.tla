--------------------------- MODULE MCRunLifecycle ----------------------------
(***************************************************************************)
(* RunLifecycle for TLC, and what the repository's tests and comments say  *)
(* of a shutdown where the code may do otherwise.                          *)
(***************************************************************************)
EXTENDS RunLifecycle

\* tests/test_fuzz_deadline_shutdown.py:259, "berserker must not start after
\* the global deadline", and the comment in state_fuzz, "global deadline expiry
\* is terminal for this run": once the learning loop was told to stop because
\* the deadline has passed, no fuzzing phase follows.
DeadlineIsTerminal == learnSawStop => status["fuzzing"] = "absent"

\* tests/test_mlstar_failure_and_run_status.py:101-108: a run whose fuzzing
\* phase was ended as 'deadline_reached' is reported completed, with exit code 0.
FuzzedToDeadline ==
  pc[Worker] = "done" /\ stage = "fuzzing" /\ wStatus = "deadline_reached"
DeadlineRunCompletes ==
  FuzzedToDeadline /\ runStatus # "running" => runStatus = "completed" /\ exitCode = 0
==============================================================================
