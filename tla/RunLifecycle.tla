---------------------------- MODULE RunLifecycle -----------------------------
(***************************************************************************)
(* One fuzzing run, from RunController.start to the end of the process:    *)
(* the main thread of Fuzzer.fuzz, the fuzz worker (state_fuzz), the UI    *)
(* loop, the deadline timer, the background component generator that may   *)
(* also find the deadline expired, and the SIGINT handler, which runs on   *)
(* the main thread.  They share the stop event, the analyzer's stop reason *)
(* and phase metrics, and the SUT process.                                 *)
(*                                                                         *)
(* One action is what a thread does without another thread being able to   *)
(* see a state in between: a region under RunController._lock or           *)
(* analyzer.lock, or one access to an unlocked shared variable.            *)
(***************************************************************************)
EXTENDS Naturals

CONSTANTS
  Modes,          (* the run modes to start from                           *)
  Disturbances,   (* what may come up beside the run's own threads          *)
  RetryLimit      (* configs.sut_interaction_retry_limit                    *)

AllModes == {"learn_and_fuzz", "fuzz_only", "learn_only"}

\* A user's Ctrl+C, an exception of the renderer, and the model calls of the
\* thread that generates response components in the background.
AllDisturbances == {"sigint", "ui_crash", "component_call"}

ASSUME ModesAssumption == Modes \subseteq AllModes
ASSUME DisturbancesAssumption == Disturbances \subseteq AllDisturbances
ASSUME RetryLimitAssumption == RetryLimit \in Nat \ {0}

VARIABLES
  mode,               (* state_learning and learning_only of the Fuzzer         *)
  expired,            (* the monotonic clock has passed the deadline            *)
  stopEvent,          (* Fuzzer.stop_event                                      *)
  stopReason,         (* analyzer.stop_reason                                   *)
  closed,             (* RunController._closed                                  *)
  deadlineRequested,  (* RunController._deadline_requested                      *)
  stage,              (* the phase analyzer.stage names                         *)
  activePhase,        (* analyzer.active_phase                                  *)
  status,             (* status of each phase's metric, "absent" if there is none *)
  written,            (* whether the metric's row is in phase_metrics.csv       *)
  runStatus,          (* analyzer.run_status                                    *)
  exitCode,           (* what _finalize_run_status returned                     *)
  cleanupDone,        (* Fuzzer._cleanup_done                                   *)
  pc,                 (* where each thread is                                   *)
  call,               (* the stop request each thread is inside of              *)
  wStatus,            (* the worker's model_phase_status or fuzz_phase_status   *)
  raising,            (* the worker is unwinding an exception                   *)
  workerFailed,       (* worker_failure is not empty                            *)
  learnSawStop,       (* history: should_stop answered TRUE at the end of a
                         learning iteration                                     *)
  itx,                (* where the worker's current interaction is              *)
  attempt,            (* its lifecycle attempt                                  *)
  sutAlive,           (* a SUT process exists                                   *)
  sutReg              (* analyzer.sut_proc refers to it                         *)

stopVars  == <<stopEvent, stopReason>>
ctlVars   == <<closed, deadlineRequested>>
phaseVars == <<stage, activePhase, status, written>>
runVars   == <<runStatus, exitCode, cleanupDone>>
workVars  == <<wStatus, raising, workerFailed, learnSawStop>>
sutVars   == <<itx, attempt, sutAlive, sutReg>>
vars == <<mode, expired, stopVars, ctlVars, phaseVars, runVars, pc, call,
          workVars, sutVars>>

------------------------------------------------------------------------------
Main    == "main"
Handler == "sigint"
Worker  == "worker"
Timer   == "timer"
Ui      == "ui"
Llm     == "llm"
Threads == {Main, Handler, Worker, Timer, Ui, Llm}

NoReason == "none"
FailureReasons   == {"failure", "model_learning_failure", "sut_failure"}
Reasons == FailureReasons \cup
           {"deadline", "external_interrupt", "learning_export_complete", "unknown"}

Phases == {"model_learning", "fuzzing"}
EndStatus == {"completed", "partial", "failed", "deadline_reached",
              "interrupted", "stopped"}
Statuses == EndStatus \cup {"absent", "running", "skipped"}
RunStatuses == {"running", "completed", "deadline_before_fuzzing", "failed",
                "interrupted", "completed_learning_export", "incomplete"}

\* try: of Fuzzer.fuzz, its except clauses, its finally:, then interpreter exit.
TryPcs     == {"arm", "spawn_worker", "spawn_ui", "join_worker", "join_ui"}
ExceptPcs  == {"failed", "interrupted"}
CleanupPcs == {"cleanup_signal", "cleanup_sut", "cleanup_join", "cleanup_collect"}
FinallyPcs == {"close", "finalize", "cleanup"} \cup CleanupPcs
MainPcs    == TryPcs \cup ExceptPcs \cup FinallyPcs \cup {"atexit", "exited"}
WorkerPcs  == {"idle", "begin", "learn", "learn_llm", "learn_stopped", "learn_end",
               "learn_close", "export", "gate", "fuzz_stage", "fuzz_begin", "fuzz",
               "run", "fuzz_end", "fuzz_close", "raise", "crash", "done"}
HandlerPcs == {"idle", "terminate", "raise", "ignored"}
TimerPcs   == {"off", "armed", "done"}
UiPcs      == {"idle", "running", "done"}
Pcs == MainPcs \cup WorkerPcs \cup HandlerPcs \cup TimerPcs \cup UiPcs

ItxPcs == {"none", "starting", "launching", "spawned", "registered", "live", "nosock"}

Idle == [stage |-> "idle", reason |-> NoReason]
Calls == [stage : {"idle", "controller", "reason", "event"},
          reason : Reasons \cup {NoReason}]

Goto(t, at)    == pc' = [pc EXCEPT ![t] = at]
At(t, at)      == pc[t] = at /\ call[t] = Idle
Finished(t)    == pc[t] = "done" /\ call[t] = Idle
Request(t, st, r) == call' = [call EXCEPT ![t] = [stage |-> st, reason |-> r]]

\* The handler runs on the main thread, which stands still meanwhile, and
\* nothing runs once the interpreter is gone.
HandlerBusy == pc[Handler] \in {"terminate", "raise"} \/ call[Handler] # Idle
Running     == pc[Main] # "exited"
MainRuns    == Running /\ ~HandlerBusy

------------------------------------------------------------------------------
(***************************************************************************)
(* RunController and Analyzer.request_stop                                 *)
(***************************************************************************)

\* RunController.request_stop, the region under _lock.
ControllerGate(t) ==
  /\ call[t].stage = "controller"
  /\ IF closed \/ stopEvent \/ deadlineRequested
     THEN call' = [call EXCEPT ![t] = Idle] /\ UNCHANGED deadlineRequested
     ELSE Request(t, "reason", call[t].reason) /\ deadlineRequested' = TRUE
  /\ UNCHANGED <<mode, expired, stopVars, closed, phaseVars, runVars, pc,
                 workVars, sutVars>>

\* Mutant of RecordReason: the last reason wins.
RecordLastReason(t) ==
  /\ call[t].stage = "reason"
  /\ stopReason' = call[t].reason
  /\ Request(t, "event", call[t].reason)
  /\ UNCHANGED <<mode, expired, stopEvent, ctlVars, phaseVars, runVars, pc,
                 workVars, sutVars>>

\* Analyzer.request_stop, the region under analyzer.lock.
RecordReason(t) ==
  /\ call[t].stage = "reason"
  /\ stopReason' = IF stopReason = NoReason THEN call[t].reason ELSE stopReason
  /\ Request(t, "event", call[t].reason)
  /\ UNCHANGED <<mode, expired, stopEvent, ctlVars, phaseVars, runVars, pc,
                 workVars, sutVars>>

\* Analyzer.request_stop, after the lock.
SignalEvent(t) ==
  /\ call[t].stage = "event"
  /\ stopEvent' = TRUE
  /\ call' = [call EXCEPT ![t] = Idle]
  /\ UNCHANGED <<mode, expired, stopReason, ctlVars, phaseVars, runVars, pc,
                 workVars, sutVars>>

StopCall(t) ==
  /\ Running
  /\ t = Main => ~HandlerBusy
  /\ ControllerGate(t) \/ RecordReason(t) \/ SignalEvent(t)

\* RunController.should_stop: the answer, and the request an expired deadline
\* makes on the way.
ShouldStop == stopEvent \/ expired
AskController(t) ==
  IF ~stopEvent /\ expired THEN Request(t, "controller", "deadline")
                           ELSE UNCHANGED call

\* RunController.start and _schedule_locked; the run enters the try block.
Arm ==
  /\ MainRuns /\ At(Main, "arm")
  /\ pc' = [pc EXCEPT ![Main] = "spawn_worker", ![Timer] = "armed"]
  /\ UNCHANGED <<mode, expired, stopVars, ctlVars, phaseVars, runVars, call,
                 workVars, sutVars>>

\* Mutant of OnTimer: the callback marks the deadline as requested itself, so
\* the request it then makes is dropped as a repetition.
OnTimerMarks ==
  /\ Running /\ At(Timer, "armed") /\ ~closed /\ ~stopEvent /\ expired
  /\ Goto(Timer, "done") /\ Request(Timer, "controller", "deadline")
  /\ deadlineRequested' = TRUE
  /\ UNCHANGED <<mode, expired, stopVars, closed, phaseVars, runVars,
                 workVars, sutVars>>

\* RunController._on_timer: a wake-up before the deadline reschedules.
OnTimer ==
  /\ Running /\ At(Timer, "armed")
  /\ \/ /\ closed \/ stopEvent
        /\ Goto(Timer, "off") /\ UNCHANGED call
     \/ /\ ~closed /\ ~stopEvent /\ expired
        /\ Goto(Timer, "done") /\ Request(Timer, "controller", "deadline")
  /\ UNCHANGED <<mode, expired, stopVars, ctlVars, phaseVars, runVars,
                 workVars, sutVars>>

Expire ==
  /\ Running /\ ~expired
  /\ expired' = TRUE
  /\ UNCHANGED <<mode, stopVars, ctlVars, phaseVars, runVars, pc, call,
                 workVars, sutVars>>

------------------------------------------------------------------------------
(***************************************************************************)
(* The analyzer's phase metrics, each operation under analyzer.lock        *)
(***************************************************************************)
Closable(p) == status[p] # "absent" /\ ~written[p]

\* Mutant of EndPhase: the active phase is not reset.
EndPhaseStaysActive(p, st) ==
  /\ status' = [status EXCEPT ![p] = IF Closable(p) THEN st ELSE @]
  /\ written' = [written EXCEPT ![p] = Closable(p) \/ @]
  /\ UNCHANGED activePhase

\* _end_phase_unlocked: a phase without an open metric keeps its status.
EndPhase(p, st) ==
  /\ IF Closable(p)
     THEN /\ status' = [status EXCEPT ![p] = st]
          /\ written' = [written EXCEPT ![p] = TRUE]
     ELSE UNCHANGED <<status, written>>
  /\ activePhase' = IF activePhase = p THEN "none" ELSE activePhase

\* begin_phase: another active phase is ended as interrupted first.
CutShort(p) == p = activePhase /\ Closable(p)
BeginPhase(p) ==
  IF activePhase = p THEN UNCHANGED <<status, written, activePhase>>
  ELSE /\ status' = [q \in Phases |-> CASE q = p                -> "running"
                                        [] q # p /\ CutShort(q) -> "interrupted"
                                        [] OTHER                -> status[q]]
       /\ written' = [q \in Phases |-> q # p /\ (CutShort(q) \/ written[q])]
       /\ activePhase' = p

\* Mutant of PhaseStopStatus: the clock decides, not the recorded reason.
PhaseStopStatusByClock ==
  IF expired THEN "deadline_reached"
  ELSE IF stopReason \in FailureReasons THEN "failed" ELSE "interrupted"

\* phase_stop_status
PhaseStopStatus ==
  CASE stopReason = "deadline"           -> "deadline_reached"
    [] stopReason = "external_interrupt" -> "interrupted"
    [] stopReason \in FailureReasons     -> "failed"
    [] OTHER                             -> "stopped"

\* record_llm_usage: the usage of a call is booked on the active phase, or on
\* the one the stage names; a metric that is gone is started afresh.
UsagePhase == IF activePhase # "none" THEN activePhase ELSE stage
RecordLlmUsage ==
  /\ UsagePhase \in Phases
  /\ ~Closable(UsagePhase)
  /\ status' = [status EXCEPT ![UsagePhase] = "running"]
  /\ written' = [written EXCEPT ![UsagePhase] = FALSE]
  /\ UNCHANGED <<mode, expired, stopVars, ctlVars, stage, activePhase, runVars,
                 pc, call, workVars, sutVars>>

LlmThread == "component_call" \in Disturbances /\ Running /\ call[Llm] = Idle
LlmUsage == LlmThread /\ RecordLlmUsage

\* chat_llm finds no time left: AsyncChater._stop_for_deadline, through the
\* controller while configs still names it, else through the analyzer.
LlmDeadline ==
  /\ LlmThread /\ expired /\ ~stopEvent
  /\ \/ Request(Llm, "controller", "deadline")
     \/ closed /\ Request(Llm, "reason", "deadline")
  /\ UNCHANGED <<mode, expired, stopVars, ctlVars, phaseVars, runVars, pc,
                 workVars, sutVars>>

------------------------------------------------------------------------------
(***************************************************************************)
(* The worker's interactions with the SUT (Executor.interact)              *)
(***************************************************************************)
Interacting == Running /\ pc[Worker] \in {"learn", "run"} /\ call[Worker] = Idle
ItxGoto(at) == itx' = at
ItxUnchanged == UNCHANGED <<mode, expired, stopVars, ctlVars, phaseVars, runVars,
                            pc, workVars>>

\* Mutant of InteractBegin: the stop check at the start is missing.
InteractBeginUnchecked ==
  /\ Interacting /\ itx = "none"
  /\ ItxGoto("starting") /\ attempt' = 1
  /\ UNCHANGED <<call, sutAlive, sutReg>> /\ ItxUnchanged

\* _interact_once refuses to start once the run must stop.
InteractBegin ==
  /\ Interacting /\ itx = "none" /\ ~ShouldStop
  /\ ItxGoto("starting") /\ attempt' = 1
  /\ UNCHANGED <<call, sutAlive, sutReg>> /\ ItxUnchanged

\* start_sut_for_interaction: the check, then the target port is released.
LaunchCheck ==
  /\ Interacting /\ itx = "starting"
  /\ IF ShouldStop THEN ItxGoto("nosock") ELSE ItxGoto("launching")
  /\ AskController(Worker)
  /\ UNCHANGED <<attempt, sutAlive, sutReg>> /\ ItxUnchanged

\* run_exe: Popen; the port may also stay occupied or Popen fail.
Launch ==
  /\ Interacting /\ itx = "launching"
  /\ \/ ItxGoto("spawned") /\ sutAlive' = TRUE
     \/ ItxGoto("nosock") /\ UNCHANGED sutAlive
  /\ UNCHANGED <<call, attempt, sutReg>> /\ ItxUnchanged

\* run_exe: analyzer.sut_proc = proc.
Register ==
  /\ Interacting /\ itx = "spawned"
  /\ ItxGoto("registered") /\ sutReg' = TRUE
  /\ UNCHANGED <<call, attempt, sutAlive>> /\ ItxUnchanged

\* The grace wait on the stop event, then socket and protocol readiness.
\* stop_sut_for_interaction follows a readiness failure; the process a raised
\* event stops is terminated where it was started.
Readiness ==
  /\ Interacting /\ itx = "registered"
  /\ \/ /\ ~stopEvent /\ ItxGoto("live") /\ UNCHANGED <<sutAlive, sutReg>>
     \/ /\ ItxGoto("nosock") /\ sutAlive' = FALSE /\ sutReg' = FALSE
  /\ UNCHANGED <<call, attempt>> /\ ItxUnchanged

\* Mutant of Retry: one attempt too many.
RetryOnceMore ==
  /\ Interacting /\ itx = "nosock" /\ attempt <= RetryLimit /\ ~stopEvent
  /\ ItxGoto("starting") /\ attempt' = attempt + 1
  /\ UNCHANGED <<call, sutAlive, sutReg>> /\ ItxUnchanged

\* The retry loop: wait retry_delay_s on the event, then try again, or give
\* up and report the SUT.
Retry ==
  /\ Interacting /\ itx = "nosock" /\ attempt < RetryLimit /\ ~stopEvent
  /\ ItxGoto("starting") /\ attempt' = attempt + 1
  /\ UNCHANGED <<call, sutAlive, sutReg>> /\ ItxUnchanged

GiveUp ==
  /\ Interacting /\ itx = "nosock" /\ (attempt = RetryLimit \/ stopEvent)
  /\ ItxGoto("none") /\ Request(Worker, "reason", "sut_failure")
  /\ UNCHANGED <<attempt, sutAlive, sutReg>> /\ ItxUnchanged

\* Mutant of InteractEnd: an exchange cut short by the stop leaves without
\* stopping the process.
InteractEndLeaves ==
  /\ Interacting /\ itx = "live"
  /\ ItxGoto("none") /\ UNCHANGED attempt
  /\ \/ UNCHANGED call /\ sutAlive' = FALSE /\ sutReg' = FALSE
     \/ ShouldStop /\ AskController(Worker) /\ UNCHANGED <<sutAlive, sutReg>>
  /\ ItxUnchanged

\* The exchange is over, by itself or because a poll saw the stop; interact's
\* finally clause stops the process.
InteractEnd ==
  /\ Interacting /\ itx = "live"
  /\ ItxGoto("none") /\ sutAlive' = FALSE /\ sutReg' = FALSE
  /\ UNCHANGED attempt
  /\ \/ UNCHANGED call
     \/ ShouldStop /\ AskController(Worker)
  /\ ItxUnchanged

Interaction == InteractBegin \/ LaunchCheck \/ Launch \/ Register \/ Readiness
               \/ Retry \/ GiveUp \/ InteractEnd

\* Fuzzer._terminate_active_sut, on the main thread.
TerminateActiveSut ==
  IF sutReg THEN sutAlive' = FALSE /\ sutReg' = FALSE
            ELSE UNCHANGED <<sutAlive, sutReg>>

------------------------------------------------------------------------------
(***************************************************************************)
(* The fuzz worker: run_fuzz_worker, state_fuzz, model_learning and        *)
(* berserker_fuzz                                                          *)
(***************************************************************************)
WorkerAt(at) == Running /\ At(Worker, at) /\ itx = "none"
WorkerFrame  == UNCHANGED <<mode, expired, stopVars, ctlVars, runVars,
                            workerFailed, sutVars>>
NoPhaseChange == UNCHANGED phaseVars

BeginLearning ==
  /\ WorkerAt("begin") /\ mode # "fuzz_only"
  /\ stage' = "model_learning"
  /\ BeginPhase("model_learning")
  /\ wStatus' = "completed"
  /\ Goto(Worker, "learn")
  /\ UNCHANGED <<call, raising, learnSawStop>> /\ WorkerFrame

\* record_skipped_phase; the stage then reads 'model learning disabled'.
SkipLearning ==
  /\ WorkerAt("begin") /\ mode = "fuzz_only"
  /\ stage' = "model_learning"
  /\ status' = [status EXCEPT !["model_learning"] = "skipped"]
  /\ written' = [written EXCEPT !["model_learning"] = TRUE]
  /\ Goto(Worker, "gate")
  /\ UNCHANGED <<activePhase, call, wStatus, raising, learnSawStop>> /\ WorkerFrame

\* ObTable._deadline_reached: the answer is dropped, the request is made.
LearnPoll ==
  /\ WorkerAt("learn") /\ ShouldStop /\ AskController(Worker)
  /\ UNCHANGED <<pc, wStatus, raising, learnSawStop>> /\ NoPhaseChange /\ WorkerFrame

\* ObTable._stop_learning: the event is up, or a query had no output in any of
\* its retries.
LearnStops ==
  /\ WorkerAt("learn")
  /\ Goto(Worker, "learn_stopped")
  /\ IF stopReason = NoReason
     THEN Request(Worker, "reason", "model_learning_failure")
     ELSE Request(Worker, "event", NoReason)
  /\ UNCHANGED <<wStatus, raising, learnSawStop>> /\ NoPhaseChange /\ WorkerFrame

\* model_learning's handler of ModelLearningStopped; without traces to keep, a
\* deadline leaves the outcome alone.
LearnStopped ==
  /\ WorkerAt("learn_stopped")
  /\ Goto(Worker, "learn_end")
  /\ \/ stopReason = "deadline" /\ wStatus' = "partial"
     \/ UNCHANGED wStatus
  /\ IF stopReason = NoReason
     THEN Request(Worker, "reason", "model_learning_failure") ELSE UNCHANGED call
  /\ UNCHANGED <<raising, learnSawStop>> /\ NoPhaseChange /\ WorkerFrame

\* The check that ends an iteration of model_learning's loop.
LearnIterationEnd ==
  /\ WorkerAt("learn") /\ ShouldStop
  /\ Goto(Worker, "learn_end") /\ AskController(Worker)
  /\ learnSawStop' = TRUE
  /\ UNCHANGED <<wStatus, raising>> /\ NoPhaseChange /\ WorkerFrame

\* model_learning returns: the model is accepted, the learning budget is spent
\* or the retries are, or a cached model or partial graph is reused.
LearnReturns ==
  /\ WorkerAt("learn")
  /\ wStatus' \in {"completed", "partial"}
  /\ Goto(Worker, "learn_end")
  /\ UNCHANGED <<call, raising, learnSawStop>> /\ NoPhaseChange /\ WorkerFrame

\* LLMDeadlineExceeded: chat_llm asks the controller, model_learning asks again.
LearnLlmDeadline ==
  /\ WorkerAt("learn") /\ expired
  /\ Goto(Worker, "learn_llm")
  /\ \/ Request(Worker, "controller", "deadline")
     \/ closed /\ Request(Worker, "reason", "deadline")
  /\ UNCHANGED <<wStatus, raising, learnSawStop>> /\ NoPhaseChange /\ WorkerFrame
LearnLlmStopped ==
  /\ WorkerAt("learn_llm")
  /\ Goto(Worker, "learn_end") /\ Request(Worker, "reason", "deadline")
  /\ UNCHANGED <<wStatus, raising, learnSawStop>> /\ NoPhaseChange /\ WorkerFrame

\* Any other exception of the loop: it is classified and re-raised.
LearnFails ==
  /\ WorkerAt("learn")
  /\ Goto(Worker, "learn_end") /\ Request(Worker, "reason", "model_learning_failure")
  /\ wStatus' = "failed" /\ raising' = TRUE
  /\ UNCHANGED learnSawStop /\ NoPhaseChange /\ WorkerFrame

\* The finally clauses of the two phases: a stop seen now replaces 'completed'.
Classify(from, to) ==
  /\ WorkerAt(from)
  /\ wStatus' = IF stopEvent /\ wStatus = "completed" THEN PhaseStopStatus ELSE wStatus
  /\ Goto(Worker, to)
  /\ UNCHANGED <<call, raising, learnSawStop>> /\ NoPhaseChange /\ WorkerFrame
ClassifyLearning == Classify("learn_end", "learn_close")
ClassifyFuzzing  == Classify("fuzz_end", "fuzz_close")

EndLearning ==
  /\ WorkerAt("learn_close")
  /\ EndPhase("model_learning", wStatus)
  /\ Goto(Worker, IF raising THEN "raise"
                  ELSE IF mode = "learn_only" THEN "export" ELSE "gate")
  /\ UNCHANGED <<stage, call, wStatus, raising, learnSawStop>> /\ WorkerFrame

\* Mutant of Export: the exported run does not ask itself to stop.
ExportOnly ==
  /\ WorkerAt("export")
  /\ Goto(Worker, "done")
  /\ UNCHANGED <<call, raising, wStatus, learnSawStop>> /\ NoPhaseChange /\ WorkerFrame

\* learning_only: export_learning_bundle, then the run asks itself to stop.
Export ==
  /\ WorkerAt("export")
  /\ \/ Goto(Worker, "done") /\ Request(Worker, "reason", "learning_export_complete")
        /\ UNCHANGED raising
     \/ Goto(Worker, "raise") /\ raising' = TRUE /\ UNCHANGED call
  /\ UNCHANGED <<wStatus, learnSawStop>> /\ NoPhaseChange /\ WorkerFrame

\* The two event checks around loading the AFLNet seeds, which may fail.
Gate ==
  /\ WorkerAt("gate")
  /\ \/ stopEvent /\ Goto(Worker, "done") /\ UNCHANGED raising
     \/ ~stopEvent /\ Goto(Worker, "fuzz_stage") /\ UNCHANGED raising
     \/ ~stopEvent /\ Goto(Worker, "raise") /\ raising' = TRUE
  /\ UNCHANGED <<call, wStatus, learnSawStop>> /\ NoPhaseChange /\ WorkerFrame

\* berserker_fuzz up to its try block.
FuzzStage ==
  /\ WorkerAt("fuzz_stage")
  /\ stage' = "fuzzing" /\ Goto(Worker, "fuzz_begin")
  /\ UNCHANGED <<activePhase, status, written, call, wStatus, raising, learnSawStop>>
  /\ WorkerFrame
\* Imported seeds are replayed once, as a first round, if there are any.
FuzzBegin ==
  /\ WorkerAt("fuzz_begin")
  /\ BeginPhase("fuzzing")
  /\ wStatus' = "completed"
  /\ Goto(Worker, "fuzz") \/ Goto(Worker, "run")
  /\ UNCHANGED <<stage, call, raising, learnSawStop>> /\ WorkerFrame

\* The loop test of berserker_fuzz, also made after each round and mutation.
FuzzCheck ==
  /\ WorkerAt("fuzz")
  /\ Goto(Worker, IF ShouldStop THEN "fuzz_end" ELSE "run")
  /\ AskController(Worker)
  /\ UNCHANGED <<wStatus, raising, learnSawStop>> /\ NoPhaseChange /\ WorkerFrame

\* Mutant of FuzzRound: an exception does not set fuzz_phase_status.
FuzzRoundKeepsStatus ==
  /\ WorkerAt("run")
  /\ \/ Goto(Worker, "fuzz") /\ UNCHANGED <<call, raising>>
     \/ /\ Goto(Worker, "fuzz_end") /\ Request(Worker, "reason", "failure")
        /\ raising' = TRUE
  /\ UNCHANGED <<wStatus, learnSawStop>> /\ NoPhaseChange /\ WorkerFrame

\* Berserker.run and generator_mutate return or raise.
FuzzRound ==
  /\ WorkerAt("run")
  /\ \/ Goto(Worker, "fuzz") /\ UNCHANGED <<call, wStatus, raising>>
     \/ /\ Goto(Worker, "fuzz_end") /\ Request(Worker, "reason", "failure")
        /\ wStatus' = "failed" /\ raising' = TRUE
  /\ UNCHANGED learnSawStop /\ NoPhaseChange /\ WorkerFrame

EndFuzzing ==
  /\ WorkerAt("fuzz_close")
  /\ EndPhase("fuzzing", wStatus)
  /\ Goto(Worker, IF raising THEN "raise" ELSE "done")
  /\ UNCHANGED <<stage, call, wStatus, raising, learnSawStop>> /\ WorkerFrame

\* state_fuzz's except clause, then run_fuzz_worker's.
WorkerRaise ==
  /\ WorkerAt("raise")
  /\ Goto(Worker, "crash") /\ Request(Worker, "reason", "failure")
  /\ UNCHANGED <<wStatus, raising, learnSawStop>> /\ NoPhaseChange /\ WorkerFrame
WorkerCrash ==
  /\ WorkerAt("crash")
  /\ workerFailed' = TRUE
  /\ Goto(Worker, "done") /\ Request(Worker, "reason", "failure")
  /\ UNCHANGED <<mode, expired, stopVars, ctlVars, runVars, sutVars, wStatus,
                 raising, learnSawStop>> /\ NoPhaseChange

Learning == LearnPoll \/ LearnStops \/ LearnStopped \/ LearnIterationEnd
            \/ LearnReturns \/ LearnLlmDeadline \/ LearnLlmStopped \/ LearnFails
            \/ ClassifyLearning \/ EndLearning
Fuzzing == FuzzStage \/ FuzzBegin \/ FuzzCheck \/ FuzzRound \/ ClassifyFuzzing
           \/ EndFuzzing
StateFuzz == BeginLearning \/ SkipLearning \/ Learning \/ Export \/ Gate \/ Fuzzing
             \/ WorkerRaise \/ WorkerCrash

\* ui_loop runs until the event is up; an exception of the renderer ends it too.
UiEnds ==
  /\ Running /\ pc[Ui] = "running"
  /\ Goto(Ui, "done")
  /\ UNCHANGED <<mode, expired, stopVars, ctlVars, phaseVars, runVars, call,
                 workVars, sutVars>>
UiStops == stopEvent /\ UiEnds
UiCrash == "ui_crash" \in Disturbances /\ ~stopEvent /\ UiEnds

------------------------------------------------------------------------------
(***************************************************************************)
(* The main thread: Fuzzer.fuzz and cleanup                                *)
(***************************************************************************)
MainAt(at) == MainRuns /\ At(Main, at)
MainFrame  == UNCHANGED <<mode, expired, ctlVars, workVars>>

SpawnWorker ==
  /\ MainAt("spawn_worker")
  /\ pc' = [pc EXCEPT ![Main] = "spawn_ui", ![Worker] = "begin"]
  /\ UNCHANGED <<stopVars, phaseVars, runVars, call, sutVars>> /\ MainFrame
SpawnUi ==
  /\ MainAt("spawn_ui")
  /\ pc' = [pc EXCEPT ![Main] = "join_worker", ![Ui] = "running"]
  /\ UNCHANGED <<stopVars, phaseVars, runVars, call, sutVars>> /\ MainFrame

JoinWorker ==
  /\ MainAt("join_worker") /\ Finished(Worker)
  /\ Goto(Main, "join_ui")
  /\ UNCHANGED <<stopVars, phaseVars, runVars, call, sutVars>> /\ MainFrame
JoinUi ==
  /\ MainAt("join_ui") /\ pc[Ui] = "done"
  /\ Goto(Main, IF workerFailed THEN "failed" ELSE "close")
  /\ UNCHANGED <<stopVars, phaseVars, runVars, call, sutVars>> /\ MainFrame

\* The except clauses for a failed worker and for KeyboardInterrupt.
Excepted ==
  /\ MainRuns /\ call[Main] = Idle /\ pc[Main] \in ExceptPcs
  /\ Goto(Main, "close")
  /\ Request(Main, "reason",
             IF pc[Main] = "failed" THEN "failure" ELSE "external_interrupt")
  /\ UNCHANGED <<stopVars, phaseVars, runVars, sutVars>> /\ MainFrame

\* RunController.close: the watcher is cancelled.
Close ==
  /\ MainAt("close")
  /\ closed' = TRUE
  /\ pc' = [pc EXCEPT ![Main] = "finalize",
                      ![Timer] = IF @ = "armed" THEN "off" ELSE @]
  /\ UNCHANGED <<mode, expired, deadlineRequested, stopVars, phaseVars, runVars,
                 call, workVars, sutVars>>

\* _finalize_run_status.  The reason is settled first; an unclassified run
\* that used its time is put down to the deadline.
FinalReason == IF stopReason # NoReason THEN stopReason
               ELSE IF expired THEN "deadline" ELSE "unknown"
FinalStatus(r) ==
  CASE r = "deadline" /\ status["fuzzing"] = "deadline_reached" -> "completed"
    [] r = "deadline" /\ status["fuzzing"] # "deadline_reached" -> "deadline_before_fuzzing"
    [] r \in FailureReasons                                     -> "failed"
    [] r = "external_interrupt"                                 -> "interrupted"
    [] r = "learning_export_complete"                           -> "completed_learning_export"
    [] r = "unknown"                                            -> "incomplete"
ExitCodeOf(st) ==
  CASE st \in {"completed", "completed_learning_export"}   -> 0
    [] st = "failed"                                       -> 1
    [] st = "interrupted"                                  -> 130
    [] st \in {"deadline_before_fuzzing", "incomplete"}    -> 2
Finalize ==
  /\ MainAt("finalize")
  /\ stopReason' = FinalReason
  /\ runStatus' = FinalStatus(FinalReason)
  /\ exitCode' = ExitCodeOf(FinalStatus(FinalReason))
  /\ Goto(Main, "cleanup")
  /\ UNCHANGED <<stopEvent, phaseVars, cleanupDone, call, sutVars>> /\ MainFrame

\* cleanup: once, then from atexit a second time.
CleanupEnter ==
  /\ MainAt("cleanup") \/ MainAt("atexit")
  /\ \/ ~cleanupDone /\ cleanupDone' = TRUE /\ Goto(Main, "cleanup_signal")
     \/ cleanupDone /\ UNCHANGED cleanupDone
        /\ Goto(Main, IF pc[Main] = "cleanup" THEN "atexit" ELSE "exited")
  /\ UNCHANGED <<stopVars, phaseVars, runStatus, exitCode, call, sutVars>> /\ MainFrame
CleanupSignal ==
  /\ MainAt("cleanup_signal")
  /\ stopEvent' = TRUE /\ Goto(Main, "cleanup_sut")
  /\ UNCHANGED <<stopReason, phaseVars, runVars, call, sutVars>> /\ MainFrame
CleanupSut ==
  /\ MainAt("cleanup_sut")
  /\ TerminateActiveSut /\ Goto(Main, "cleanup_join")
  /\ UNCHANGED <<stopVars, phaseVars, runVars, call, itx, attempt>> /\ MainFrame
\* _join_worker_threads: the workers ended, or their second is over.
CleanupJoin ==
  /\ MainAt("cleanup_join")
  /\ Goto(Main, "cleanup_collect")
  /\ UNCHANGED <<stopVars, phaseVars, runVars, call, sutVars>> /\ MainFrame
\* _collect_results begins with finalize_open_phase; the handlers are restored.
CleanupCollect ==
  /\ MainAt("cleanup_collect")
  /\ IF activePhase # "none" THEN EndPhase(activePhase, "interrupted")
                             ELSE UNCHANGED <<status, written, activePhase>>
  /\ pc' = [pc EXCEPT ![Main] = "atexit", ![Handler] = "ignored"]
  /\ UNCHANGED <<stopVars, stage, runVars, call, sutVars>> /\ MainFrame

Cleanup == CleanupEnter \/ CleanupSignal \/ CleanupSut \/ CleanupJoin \/ CleanupCollect
FuzzMain == Arm \/ SpawnWorker \/ SpawnUi \/ JoinWorker \/ JoinUi \/ Excepted
            \/ Close \/ Finalize \/ Cleanup

------------------------------------------------------------------------------
(***************************************************************************)
(* SIGINT: handle_normal_fuzzer_exit, at any point of the main thread      *)
(***************************************************************************)
Sigint ==
  /\ "sigint" \in Disturbances
  /\ Running /\ pc[Handler] = "idle" /\ call[Handler] = Idle
  /\ Goto(Handler, "terminate") /\ Request(Handler, "reason", "external_interrupt")
  /\ UNCHANGED <<mode, expired, stopVars, ctlVars, phaseVars, runVars, workVars,
                 sutVars>>

\* SIG_IGN from here on, then the SUT is terminated.
HandlerTerminate ==
  /\ Running /\ At(Handler, "terminate")
  /\ TerminateActiveSut /\ Goto(Handler, "raise")
  /\ UNCHANGED <<mode, expired, stopVars, ctlVars, phaseVars, runVars, call,
                 workVars, itx, attempt>>

\* KeyboardInterrupt leaves the region the main thread was in; what that
\* region still had to do is not done.
HandlerRaise ==
  /\ Running /\ At(Handler, "raise")
  /\ pc' = [pc EXCEPT ![Handler] = "ignored",
              ![Main] = IF @ \in TryPcs THEN "interrupted"
                        ELSE IF @ \in ExceptPcs \/ call[Main] # Idle THEN "close"
                        ELSE "atexit"]
  /\ call' = [call EXCEPT ![Main] = Idle]
  /\ UNCHANGED <<mode, expired, stopVars, ctlVars, phaseVars, runVars, workVars,
                 sutVars>>

------------------------------------------------------------------------------
Exited == ~Running /\ UNCHANGED vars

Init ==
  /\ mode \in Modes
  /\ expired = FALSE /\ stopEvent = FALSE /\ stopReason = NoReason
  /\ closed = FALSE /\ deadlineRequested = FALSE
  /\ stage = "none" /\ activePhase = "none"
  /\ status = [p \in Phases |-> "absent"] /\ written = [p \in Phases |-> FALSE]
  /\ runStatus = "running" /\ exitCode = 2 /\ cleanupDone = FALSE
  /\ pc = [t \in Threads |-> CASE t = Main  -> "arm"
                               [] t = Timer -> "off"
                               [] OTHER     -> "idle"]
  /\ call = [t \in Threads |-> Idle]
  /\ wStatus = "completed" /\ raising = FALSE /\ workerFailed = FALSE
  /\ learnSawStop = FALSE
  /\ itx = "none" /\ attempt = 1 /\ sutAlive = FALSE /\ sutReg = FALSE

WorkerNext  == StateFuzz \/ Interaction \/ StopCall(Worker)
HandlerNext == StopCall(Handler) \/ HandlerTerminate \/ HandlerRaise
Next ==
  \/ FuzzMain \/ StopCall(Main)
  \/ WorkerNext
  \/ OnTimer \/ StopCall(Timer)
  \/ LlmDeadline \/ LlmUsage \/ StopCall(Llm)
  \/ UiStops \/ UiCrash
  \/ Sigint \/ HandlerNext
  \/ Expire
  \/ Exited

\* Every thread keeps being scheduled and its blocking calls all carry a
\* timeout; nothing makes a user interrupt the run or a component generation
\* come up.
Fairness ==
  /\ WF_vars(FuzzMain \/ StopCall(Main)) /\ WF_vars(HandlerNext)
  /\ WF_vars(WorkerNext) /\ WF_vars(OnTimer \/ StopCall(Timer))
  /\ WF_vars(StopCall(Llm)) /\ WF_vars(UiStops) /\ WF_vars(Expire)

Spec == Init /\ [][Next]_vars
FairSpec == Spec /\ Fairness
------------------------------------------------------------------------------
(***************************************************************************)
(* Properties                                                              *)
(***************************************************************************)

\* Every variable has the values the code can give it; in particular no loop
\* makes more lifecycle attempts than the configuration allows.
FlagsOK ==
  /\ expired \in BOOLEAN /\ stopEvent \in BOOLEAN
  /\ closed \in BOOLEAN /\ deadlineRequested \in BOOLEAN
  /\ cleanupDone \in BOOLEAN /\ raising \in BOOLEAN
  /\ workerFailed \in BOOLEAN /\ learnSawStop \in BOOLEAN
  /\ sutAlive \in BOOLEAN /\ sutReg \in BOOLEAN
PhasesOK ==
  /\ stage \in Phases \cup {"none"} /\ activePhase \in Phases \cup {"none"}
  /\ status \in [Phases -> Statuses] /\ written \in [Phases -> BOOLEAN]
DataOK ==
  /\ mode \in AllModes
  /\ stopReason \in Reasons \cup {NoReason}
  /\ runStatus \in RunStatuses /\ exitCode \in {0, 1, 2, 130}
  /\ pc \in [Threads -> Pcs]
  /\ pc[Main] \in MainPcs /\ pc[Handler] \in HandlerPcs
  /\ pc[Worker] \in WorkerPcs /\ pc[Timer] \in TimerPcs /\ pc[Ui] \in UiPcs
  /\ pc[Llm] = "idle"
  /\ call \in [Threads -> Calls]
  /\ wStatus \in EndStatus
  /\ itx \in ItxPcs /\ attempt \in 1..RetryLimit
TypeOK == FlagsOK /\ PhasesOK /\ DataOK

\* Whatever its callers, the stop reason and the stop event behave as the latch
\* StopLatch describes: the reason of Analyzer.request_stop is written once,
\* and the event every loop polls is up only when a reason is there to
\* classify the stop, and stays up.
Latch == INSTANCE StopLatch WITH reason <- stopReason, event <- stopEvent
StopIsALatch == Latch!Spec

\* RunController drops every later deadline request once _deadline_requested is
\* set, so the request that set it must not get lost: the event is up, or a
\* thread is still on its way to raising it.
DeadlineInFlight ==
  \E t \in {Worker, Timer, Llm} :
    call[t].stage \in {"reason", "event"} /\ call[t].reason = "deadline"
DeadlineDelivered == deadlineRequested => stopEvent \/ DeadlineInFlight

\* _finalize_run_status never has to write 'incomplete': whichever way fuzz
\* got to its finally clause, somebody classified the stop or the time is up.
NeverUnclassified == runStatus # "incomplete"

\* Exit code 0 is earned: the worker is through and did not fail, and it either
\* used all its time, fuzzing, or exported what it learned.
SuccessIsEarned ==
  exitCode = 0 => /\ pc[Worker] = "done" /\ ~workerFailed
                  /\ IF mode = "learn_only" THEN runStatus = "completed_learning_export"
                                            ELSE runStatus = "completed" /\ expired

\* cleanup and the signal handler find the SUT through analyzer.sut_proc: a SUT
\* process is alive only during an interaction, and it is registered except
\* between Popen and the assignment of run_exe.
SutReachable == sutAlive => /\ itx \in {"spawned", "registered", "live"}
                            /\ sutReg \/ itx = "spawned"

\* Usage and time are booked on analyzer.active_phase: it names the phase the
\* worker is in, its metric is open, and a finished worker leaves none behind.
LearningPcs == {"learn", "learn_llm", "learn_stopped", "learn_end", "learn_close"}
FuzzingPcs  == {"fuzz", "run", "fuzz_end", "fuzz_close"}
PhaseOpenWhileActive ==
  /\ activePhase = "model_learning" => pc[Worker] \in LearningPcs
  /\ activePhase = "fuzzing" => pc[Worker] \in FuzzingPcs
  /\ activePhase # "none" => status[activePhase] = "running" /\ ~written[activePhase]

\* The finally clauses read the event and then the reason without a lock, yet
\* no phase ends as the meaningless 'stopped', and one that ends
\* 'deadline_reached' belongs to a run whose recorded reason is the deadline.
PhaseVerdicts ==
  \A p \in Phases : /\ status[p] # "stopped"
                    /\ status[p] = "deadline_reached" => stopReason = "deadline" /\ expired

\* Once the event is up the worker comes to its end, unless the process ends
\* before it: no retry, interaction or learning loop outlasts the event.
StopDrainsWorker == stopEvent ~> (Finished(Worker) \/ ~Running)

\* The main thread gets through its joins, its finally clause and its cleanup.
RunEnds == <>~Running
------------------------------------------------------------------------------
(***************************************************************************)
(* Inductive strengthenings, for the proofs                                *)
(***************************************************************************)

\* A reason is there wherever the event may be raised: behind the first half of
\* Analyzer.request_stop, behind the handler's request and behind finalize.
AfterFinalize == {"cleanup", "atexit", "exited"} \cup CleanupPcs
ReasonInv ==
  /\ stopEvent => stopReason # NoReason
  /\ \A t \in Threads :
       /\ call[t].stage = "event" => stopReason # NoReason
       /\ call[t].stage \in {"controller", "reason"} => call[t].reason \in Reasons
  /\ pc[Handler] # "terminate" => call[Handler] = Idle
  /\ pc[Handler] \in {"terminate", "raise"} =>
       call[Handler].stage = "reason" \/ stopReason # NoReason
  /\ pc[Main] \in AfterFinalize => stopReason # NoReason

\* Only deadline requests go through the controller, and never the main thread's,
\* which KeyboardInterrupt could cut short.
DeadlineInv ==
  /\ DeadlineDelivered
  /\ \A t \in Threads : call[t].stage = "controller" =>
       t \in {Worker, Timer, Llm} /\ call[t].reason = "deadline"

\* The worker starts from nothing.
PhaseInv ==
  /\ PhaseOpenWhileActive
  /\ pc[Main] \in {"arm", "spawn_worker"} => pc[Worker] = "idle"

\* The run's outcome.  Settled: _finalize_run_status finds a reason.
Settled == stopReason # NoReason \/ expired
ExportOutcome == pc[Worker] = "done" /\ mode = "learn_only" /\ ~raising
RequestInv ==
  /\ stopReason = "deadline" => expired
  /\ stopReason = "learning_export_complete" => ExportOutcome
  /\ stopReason # "unknown"
  /\ \A t \in Threads : call[t].stage \in {"controller", "reason"} =>
       /\ call[t].reason = "deadline" => expired
       /\ call[t].reason = "learning_export_complete" => ExportOutcome
       /\ call[t].reason # "unknown"
  /\ pc[Worker] = "learn_llm" => expired
WorkerInv ==
  /\ pc[Worker] = "done" => call[Worker].stage = "reason" \/ Settled
  /\ pc[Worker] \in {"fuzz_end", "fuzz_close"} => raising \/ Settled
  /\ pc[Worker] \in {"learn_end", "learn_close", "fuzz_end", "fuzz_close"} =>
       ~raising \/ wStatus = "failed"
  /\ pc[Worker] \in {"raise", "crash"} => raising
  /\ pc[Worker] \notin {"learn_end", "learn_close", "fuzz_end", "fuzz_close", "raise",
                        "crash", "done"} => ~raising
  /\ workerFailed => raising
  /\ pc[Worker] \in {"gate", "fuzz_stage", "fuzz_begin"} \cup FuzzingPcs =>
       mode # "learn_only"
  /\ pc[Worker] = "export" => mode = "learn_only"
MainInv ==
  /\ pc[Main] = "join_ui" => Finished(Worker)
  /\ pc[Main] = "close" => call[Main].stage = "reason" \/ Settled
  /\ pc[Main] = "finalize" => Settled
  /\ pc[Main] \notin {"close"} => call[Main] = Idle
  /\ pc[Main] \notin AfterFinalize => exitCode # 0 /\ runStatus = "running"
VerdictInv ==
  /\ PhaseVerdicts
  /\ wStatus # "stopped"
  /\ wStatus = "deadline_reached" => stopReason = "deadline"
  /\ status["fuzzing"] = "deadline_reached" =>
       pc[Worker] = "done" /\ ~raising /\ mode # "learn_only"
OutcomeInv == RequestInv /\ WorkerInv /\ MainInv /\ VerdictInv /\ SuccessIsEarned
              /\ NeverUnclassified
==============================================================================
