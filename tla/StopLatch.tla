------------------------------ MODULE StopLatch ------------------------------
(***************************************************************************)
(* What a run promises about stopping, whoever asks for it: a reason is    *)
(* recorded once and never replaced, and the shared stop event is raised   *)
(* only when there is a reason for it and is never lowered again.          *)
(***************************************************************************)
CONSTANTS Reasons,    (* the reasons a stop may be classified with  *)
          NoReason    (* the value of a run nobody asked to stop    *)

VARIABLES reason, event

vars == <<reason, event>>

Init == /\ reason = NoReason
        /\ event = FALSE

Record(r) == /\ reason = NoReason
             /\ reason' = r
             /\ UNCHANGED event

Signal == /\ reason # NoReason
          /\ event' = TRUE
          /\ UNCHANGED reason

Next == (\E r \in Reasons : Record(r)) \/ Signal

Spec == Init /\ [][Next]_vars
==============================================================================
