------------------------- MODULE RunLifecycleProofs --------------------------
(***************************************************************************)
(* Proofs about RunLifecycle, for all modes, disturbances and retry        *)
(* limits.  Flags are Boolean-valued variables, which Zenon handles; the   *)
(* other variables take SMT; so the type invariant is proved in its three  *)
(* parts.                                                                  *)
(***************************************************************************)
EXTENDS RunLifecycle, TLAPS

USE DEF Main, Handler, Worker, Timer, Ui, Llm, Threads, NoReason, FailureReasons,
        Reasons, Idle, Calls

------------------------------------------------------------------------------
\* The two operations on phase metrics keep them well formed.
LEMMA EndPhaseType ==
  ASSUME PhasesOK, NEW p \in Phases, NEW st \in Statuses, EndPhase(p, st), UNCHANGED stage
  PROVE  PhasesOK'
  <1> USE DEF PhasesOK, EndPhase
  <1>1. status' \in [Phases -> Statuses] BY SMT
  <1>2. written' \in [Phases -> BOOLEAN] BY Zenon
  <1>3. activePhase' \in Phases \cup {"none"} BY SMT
  <1> QED BY <1>1, <1>2, <1>3

LEMMA BeginPhaseType ==
  ASSUME PhasesOK, NEW p \in Phases, BeginPhase(p), stage' \in Phases \cup {"none"}
  PROVE  PhasesOK'
  <1> USE DEF PhasesOK, BeginPhase
  <1>1. status' \in [Phases -> Statuses] BY SMT DEF Statuses, EndStatus
  <1>2. written' \in [Phases -> BOOLEAN] BY Zenon
  <1>3. activePhase' \in Phases \cup {"none"} BY SMT
  <1> QED BY <1>1, <1>2, <1>3

------------------------------------------------------------------------------
\* Type correctness.
LEMMA TypeInit == Init => TypeOK
  <1> SUFFICES ASSUME Init PROVE TypeOK OBVIOUS
  <1> USE DEF Init
  <1>1. FlagsOK BY Zenon DEF FlagsOK
  <1>2. PhasesOK BY DEF PhasesOK, Phases, Statuses
  <1>3. DataOK
    BY ModesAssumption, RetryLimitAssumption
       DEF ModesAssumption, RetryLimitAssumption, DataOK, AllModes, EndStatus,
           RunStatuses, TryPcs, ExceptPcs, CleanupPcs, FinallyPcs, MainPcs,
           WorkerPcs, HandlerPcs, TimerPcs, UiPcs, Pcs, ItxPcs
  <1> QED BY <1>1, <1>2, <1>3 DEF TypeOK

LEMMA FlagsStep == FlagsOK /\ [Next]_vars => FlagsOK'
  <1> SUFFICES ASSUME FlagsOK, [Next]_vars PROVE FlagsOK' OBVIOUS
  <1> USE DEF FlagsOK, ItxUnchanged, MainFrame, WorkerFrame, NoPhaseChange,
          stopVars, ctlVars, phaseVars, runVars, workVars, sutVars
  <1>1. CASE Arm BY <1>1, Zenon DEF Arm
  <1>2. CASE SpawnWorker BY <1>2, Zenon DEF SpawnWorker
  <1>3. CASE SpawnUi BY <1>3, Zenon DEF SpawnUi
  <1>4. CASE JoinWorker BY <1>4, Zenon DEF JoinWorker
  <1>5. CASE JoinUi BY <1>5, Zenon DEF JoinUi
  <1>6. CASE Excepted BY <1>6, Zenon DEF Excepted
  <1>7. CASE Close BY <1>7, Zenon DEF Close
  <1>8. CASE Finalize BY <1>8, Zenon DEF Finalize
  <1>9. CASE CleanupEnter BY <1>9, Zenon DEF CleanupEnter
  <1>10. CASE CleanupSignal BY <1>10, Zenon DEF CleanupSignal
  <1>11. CASE CleanupSut BY <1>11, Zenon DEF CleanupSut, TerminateActiveSut
  <1>12. CASE CleanupJoin BY <1>12, Zenon DEF CleanupJoin
  <1>13. CASE CleanupCollect BY <1>13, Zenon DEF CleanupCollect
  <1>14. CASE BeginLearning BY <1>14, Zenon DEF BeginLearning
  <1>15. CASE SkipLearning BY <1>15, Zenon DEF SkipLearning
  <1>16. CASE LearnPoll BY <1>16, Zenon DEF LearnPoll
  <1>17. CASE LearnStops BY <1>17, Zenon DEF LearnStops
  <1>18. CASE LearnStopped BY <1>18, Zenon DEF LearnStopped
  <1>19. CASE LearnIterationEnd BY <1>19, Zenon DEF LearnIterationEnd
  <1>20. CASE LearnReturns BY <1>20, Zenon DEF LearnReturns
  <1>21. CASE LearnLlmDeadline BY <1>21, Zenon DEF LearnLlmDeadline
  <1>22. CASE LearnLlmStopped BY <1>22, Zenon DEF LearnLlmStopped
  <1>23. CASE LearnFails BY <1>23, Zenon DEF LearnFails
  <1>24. CASE ClassifyLearning BY <1>24, Zenon DEF ClassifyLearning, Classify
  <1>25. CASE ClassifyFuzzing BY <1>25, Zenon DEF ClassifyFuzzing, Classify
  <1>26. CASE EndLearning BY <1>26, Zenon DEF EndLearning
  <1>27. CASE Export BY <1>27, Zenon DEF Export
  <1>28. CASE Gate BY <1>28, Zenon DEF Gate
  <1>29. CASE FuzzStage BY <1>29, Zenon DEF FuzzStage
  <1>30. CASE FuzzBegin BY <1>30, Zenon DEF FuzzBegin
  <1>31. CASE FuzzCheck BY <1>31, Zenon DEF FuzzCheck
  <1>32. CASE FuzzRound BY <1>32, Zenon DEF FuzzRound
  <1>33. CASE EndFuzzing BY <1>33, Zenon DEF EndFuzzing
  <1>34. CASE WorkerRaise BY <1>34, Zenon DEF WorkerRaise
  <1>35. CASE WorkerCrash BY <1>35, Zenon DEF WorkerCrash
  <1>36. CASE InteractBegin BY <1>36, Zenon DEF InteractBegin
  <1>37. CASE LaunchCheck BY <1>37, Zenon DEF LaunchCheck
  <1>38. CASE Launch BY <1>38, Zenon DEF Launch
  <1>39. CASE Register BY <1>39, Zenon DEF Register
  <1>40. CASE Readiness BY <1>40, Zenon DEF Readiness
  <1>41. CASE Retry BY <1>41, Zenon DEF Retry
  <1>42. CASE GiveUp BY <1>42, Zenon DEF GiveUp
  <1>43. CASE InteractEnd BY <1>43, Zenon DEF InteractEnd
  <1>44. CASE OnTimer BY <1>44, Zenon DEF OnTimer
  <1>45. CASE Expire BY <1>45, Zenon DEF Expire
  <1>46. CASE LlmDeadline BY <1>46, Zenon DEF LlmDeadline
  <1>47. CASE LlmUsage BY <1>47, Zenon DEF LlmUsage, RecordLlmUsage
  <1>48. CASE UiStops BY <1>48, Zenon DEF UiStops, UiEnds
  <1>49. CASE UiCrash BY <1>49, Zenon DEF UiCrash, UiEnds
  <1>50. CASE Sigint BY <1>50, Zenon DEF Sigint
  <1>51. CASE HandlerTerminate BY <1>51, Zenon DEF HandlerTerminate, TerminateActiveSut
  <1>52. CASE HandlerRaise BY <1>52, Zenon DEF HandlerRaise
  <1>53. CASE Exited BY <1>53, Zenon DEF Exited, vars
  <1>54. ASSUME NEW t \in Threads, StopCall(t) PROVE FlagsOK'
    BY <1>54, Zenon DEF StopCall, ControllerGate, RecordReason, SignalEvent
  <1>55. CASE UNCHANGED vars BY <1>55, Zenon DEF vars
  <1> QED BY <1>1, <1>2, <1>3, <1>4, <1>5, <1>6, <1>7, <1>8, <1>9, <1>10,
         <1>11, <1>12, <1>13, <1>14, <1>15, <1>16, <1>17, <1>18, <1>19, <1>20,
         <1>21, <1>22, <1>23, <1>24, <1>25, <1>26, <1>27, <1>28, <1>29, <1>30,
         <1>31, <1>32, <1>33, <1>34, <1>35, <1>36, <1>37, <1>38, <1>39, <1>40,
         <1>41, <1>42, <1>43, <1>44, <1>45, <1>46, <1>47, <1>48, <1>49, <1>50,
         <1>51, <1>52, <1>53, <1>54, <1>55
    DEF Next, FuzzMain, Cleanup, WorkerNext, StateFuzz, Learning, Fuzzing,
        Interaction, HandlerNext

LEMMA PhasesStep == PhasesOK /\ DataOK /\ [Next]_vars => PhasesOK'
  <1> SUFFICES ASSUME PhasesOK, DataOK, [Next]_vars PROVE PhasesOK' OBVIOUS
  <1> USE DEF ItxUnchanged, MainFrame, WorkerFrame, NoPhaseChange, stopVars,
          ctlVars, phaseVars, runVars, workVars, sutVars
  <1>1. CASE Arm BY <1>1, Zenon DEF Arm, PhasesOK
  <1>2. CASE SpawnWorker BY <1>2, Zenon DEF SpawnWorker, PhasesOK
  <1>3. CASE SpawnUi BY <1>3, Zenon DEF SpawnUi, PhasesOK
  <1>4. CASE JoinWorker BY <1>4, Zenon DEF JoinWorker, PhasesOK
  <1>5. CASE JoinUi BY <1>5, Zenon DEF JoinUi, PhasesOK
  <1>6. CASE Excepted BY <1>6, Zenon DEF Excepted, PhasesOK
  <1>7. CASE Close BY <1>7, Zenon DEF Close, PhasesOK
  <1>8. CASE Finalize BY <1>8, Zenon DEF Finalize, PhasesOK
  <1>9. CASE CleanupEnter BY <1>9, Zenon DEF CleanupEnter, PhasesOK
  <1>10. CASE CleanupSignal BY <1>10, Zenon DEF CleanupSignal, PhasesOK
  <1>11. CASE CleanupSut BY <1>11, Zenon DEF CleanupSut, TerminateActiveSut, PhasesOK
  <1>12. CASE CleanupJoin BY <1>12, Zenon DEF CleanupJoin, PhasesOK
  <1>13. CASE CleanupCollect
    <2>1. CASE activePhase # "none"
      <3>1. activePhase \in Phases /\ "interrupted" \in Statuses
        BY <2>1 DEF PhasesOK, Statuses, EndStatus
      <3>2. EndPhase(activePhase, "interrupted") /\ UNCHANGED stage
        BY <1>13, <2>1 DEF CleanupCollect
      <3> QED BY <3>1, <3>2, EndPhaseType
    <2>2. CASE activePhase = "none"
      BY <1>13, <2>2, Zenon DEF CleanupCollect, PhasesOK
    <2> QED BY <2>1, <2>2
  <1>14. CASE BeginLearning
    <2>1. BeginPhase("model_learning") /\ stage' \in Phases \cup {"none"}
      BY <1>14 DEF BeginLearning, PhasesOK, Phases
    <2>2. "model_learning" \in Phases BY DEF Phases
    <2> QED BY <2>1, <2>2, BeginPhaseType
  <1>15. CASE SkipLearning BY <1>15, SMT DEF SkipLearning, PhasesOK, Phases, Statuses
  <1>16. CASE LearnPoll BY <1>16, Zenon DEF LearnPoll, PhasesOK
  <1>17. CASE LearnStops BY <1>17, Zenon DEF LearnStops, PhasesOK
  <1>18. CASE LearnStopped BY <1>18, Zenon DEF LearnStopped, PhasesOK
  <1>19. CASE LearnIterationEnd BY <1>19, Zenon DEF LearnIterationEnd, PhasesOK
  <1>20. CASE LearnReturns BY <1>20, Zenon DEF LearnReturns, PhasesOK
  <1>21. CASE LearnLlmDeadline BY <1>21, Zenon DEF LearnLlmDeadline, PhasesOK
  <1>22. CASE LearnLlmStopped BY <1>22, Zenon DEF LearnLlmStopped, PhasesOK
  <1>23. CASE LearnFails BY <1>23, Zenon DEF LearnFails, PhasesOK
  <1>24. CASE ClassifyLearning BY <1>24, Zenon DEF ClassifyLearning, Classify, PhasesOK
  <1>25. CASE ClassifyFuzzing BY <1>25, Zenon DEF ClassifyFuzzing, Classify, PhasesOK
  <1>26. CASE EndLearning
    <2>1. EndPhase("model_learning", wStatus) /\ UNCHANGED stage BY <1>26 DEF EndLearning
    <2>2. "model_learning" \in Phases /\ wStatus \in Statuses BY DEF DataOK, Phases, Statuses
    <2> QED BY <2>1, <2>2, EndPhaseType
  <1>27. CASE Export BY <1>27, Zenon DEF Export, PhasesOK
  <1>28. CASE Gate BY <1>28, Zenon DEF Gate, PhasesOK
  <1>29. CASE FuzzStage BY <1>29, SMT DEF FuzzStage, PhasesOK, Phases, Statuses
  <1>30. CASE FuzzBegin
    <2>1. BeginPhase("fuzzing") /\ stage' \in Phases \cup {"none"}
      BY <1>30 DEF FuzzBegin, PhasesOK, Phases
    <2>2. "fuzzing" \in Phases BY DEF Phases
    <2> QED BY <2>1, <2>2, BeginPhaseType
  <1>31. CASE FuzzCheck BY <1>31, Zenon DEF FuzzCheck, PhasesOK
  <1>32. CASE FuzzRound BY <1>32, Zenon DEF FuzzRound, PhasesOK
  <1>33. CASE EndFuzzing
    <2>1. EndPhase("fuzzing", wStatus) /\ UNCHANGED stage BY <1>33 DEF EndFuzzing
    <2>2. "fuzzing" \in Phases /\ wStatus \in Statuses BY DEF DataOK, Phases, Statuses
    <2> QED BY <2>1, <2>2, EndPhaseType
  <1>34. CASE WorkerRaise BY <1>34, Zenon DEF WorkerRaise, PhasesOK
  <1>35. CASE WorkerCrash BY <1>35, Zenon DEF WorkerCrash, PhasesOK
  <1>36. CASE InteractBegin BY <1>36, Zenon DEF InteractBegin, PhasesOK
  <1>37. CASE LaunchCheck BY <1>37, Zenon DEF LaunchCheck, PhasesOK
  <1>38. CASE Launch BY <1>38, Zenon DEF Launch, PhasesOK
  <1>39. CASE Register BY <1>39, Zenon DEF Register, PhasesOK
  <1>40. CASE Readiness BY <1>40, Zenon DEF Readiness, PhasesOK
  <1>41. CASE Retry BY <1>41, Zenon DEF Retry, PhasesOK
  <1>42. CASE GiveUp BY <1>42, Zenon DEF GiveUp, PhasesOK
  <1>43. CASE InteractEnd BY <1>43, Zenon DEF InteractEnd, PhasesOK
  <1>44. CASE OnTimer BY <1>44, Zenon DEF OnTimer, PhasesOK
  <1>45. CASE Expire BY <1>45, Zenon DEF Expire, PhasesOK
  <1>46. CASE LlmDeadline BY <1>46, Zenon DEF LlmDeadline, PhasesOK
  <1>47. CASE LlmUsage
    <2>1. UsagePhase \in Phases BY <1>47 DEF LlmUsage, RecordLlmUsage
    <2>2. status' \in [Phases -> Statuses]
      BY <1>47, <2>1, SMT DEF LlmUsage, RecordLlmUsage, PhasesOK, Statuses
    <2>3. written' \in [Phases -> BOOLEAN]
      BY <1>47, <2>1, Zenon DEF LlmUsage, RecordLlmUsage, PhasesOK
    <2> QED BY <1>47, <2>2, <2>3, Zenon DEF LlmUsage, RecordLlmUsage, PhasesOK
  <1>48. CASE UiStops BY <1>48, Zenon DEF UiStops, UiEnds, PhasesOK
  <1>49. CASE UiCrash BY <1>49, Zenon DEF UiCrash, UiEnds, PhasesOK
  <1>50. CASE Sigint BY <1>50, Zenon DEF Sigint, PhasesOK
  <1>51. CASE HandlerTerminate BY <1>51, Zenon DEF HandlerTerminate, TerminateActiveSut, PhasesOK
  <1>52. CASE HandlerRaise BY <1>52, Zenon DEF HandlerRaise, PhasesOK
  <1>53. CASE Exited BY <1>53, Zenon DEF Exited, vars, PhasesOK
  <1>54. ASSUME NEW t \in Threads, StopCall(t) PROVE PhasesOK'
    BY <1>54, Zenon DEF PhasesOK, StopCall, ControllerGate, RecordReason, SignalEvent
  <1>55. CASE UNCHANGED vars BY <1>55, Zenon DEF vars, PhasesOK
  <1> QED BY <1>1, <1>2, <1>3, <1>4, <1>5, <1>6, <1>7, <1>8, <1>9, <1>10,
         <1>11, <1>12, <1>13, <1>14, <1>15, <1>16, <1>17, <1>18, <1>19, <1>20,
         <1>21, <1>22, <1>23, <1>24, <1>25, <1>26, <1>27, <1>28, <1>29, <1>30,
         <1>31, <1>32, <1>33, <1>34, <1>35, <1>36, <1>37, <1>38, <1>39, <1>40,
         <1>41, <1>42, <1>43, <1>44, <1>45, <1>46, <1>47, <1>48, <1>49, <1>50,
         <1>51, <1>52, <1>53, <1>54, <1>55
    DEF Next, FuzzMain, Cleanup, WorkerNext, StateFuzz, Learning, Fuzzing,
        Interaction, HandlerNext

LEMMA DataStep == DataOK /\ [Next]_vars => DataOK'
  <1> SUFFICES ASSUME DataOK, [Next]_vars PROVE DataOK' OBVIOUS
  <1> USE DEF DataOK, ItxUnchanged, MainFrame, WorkerFrame, NoPhaseChange,
          stopVars, ctlVars, phaseVars, runVars, workVars, sutVars, WorkerAt,
          MainAt, Goto, Request, At, ItxGoto, AskController, Interacting,
          TryPcs, ExceptPcs, CleanupPcs, FinallyPcs, MainPcs, WorkerPcs,
          HandlerPcs, TimerPcs, UiPcs, Pcs, ItxPcs, Phases, EndStatus,
          Statuses, RunStatuses, AllModes
  <1>1. CASE Arm BY <1>1, SMT DEF Arm
  <1>2. CASE SpawnWorker BY <1>2, SMT DEF SpawnWorker
  <1>3. CASE SpawnUi BY <1>3, SMT DEF SpawnUi
  <1>4. CASE JoinWorker BY <1>4, SMT DEF JoinWorker
  <1>5. CASE JoinUi BY <1>5, SMT DEF JoinUi
  <1>6. CASE Excepted BY <1>6, SMT DEF Excepted
  <1>7. CASE Close BY <1>7, SMT DEF Close
  <1>8. CASE Finalize BY <1>8, SMT DEF Finalize, FinalReason, FinalStatus, ExitCodeOf
  <1>9. CASE CleanupEnter BY <1>9, SMT DEF CleanupEnter
  <1>10. CASE CleanupSignal BY <1>10, SMT DEF CleanupSignal
  <1>11. CASE CleanupSut BY <1>11, SMT DEF CleanupSut, TerminateActiveSut
  <1>12. CASE CleanupJoin BY <1>12, SMT DEF CleanupJoin
  <1>13. CASE CleanupCollect BY <1>13, SMT DEF CleanupCollect
  <1>14. CASE BeginLearning BY <1>14, SMT DEF BeginLearning
  <1>15. CASE SkipLearning BY <1>15, SMT DEF SkipLearning
  <1>16. CASE LearnPoll BY <1>16, SMT DEF LearnPoll
  <1>17. CASE LearnStops BY <1>17, SMT DEF LearnStops
  <1>18. CASE LearnStopped BY <1>18, SMT DEF LearnStopped
  <1>19. CASE LearnIterationEnd BY <1>19, SMT DEF LearnIterationEnd
  <1>20. CASE LearnReturns BY <1>20, SMT DEF LearnReturns
  <1>21. CASE LearnLlmDeadline BY <1>21, SMT DEF LearnLlmDeadline
  <1>22. CASE LearnLlmStopped BY <1>22, SMT DEF LearnLlmStopped
  <1>23. CASE LearnFails BY <1>23, SMT DEF LearnFails
  <1>24. CASE ClassifyLearning BY <1>24, SMT DEF ClassifyLearning, Classify, PhaseStopStatus
  <1>25. CASE ClassifyFuzzing BY <1>25, SMT DEF ClassifyFuzzing, Classify, PhaseStopStatus
  <1>26. CASE EndLearning BY <1>26, SMT DEF EndLearning
  <1>27. CASE Export BY <1>27, SMT DEF Export
  <1>28. CASE Gate BY <1>28, SMT DEF Gate
  <1>29. CASE FuzzStage BY <1>29, SMT DEF FuzzStage
  <1>30. CASE FuzzBegin BY <1>30, SMT DEF FuzzBegin
  <1>31. CASE FuzzCheck BY <1>31, SMT DEF FuzzCheck
  <1>32. CASE FuzzRound BY <1>32, SMT DEF FuzzRound
  <1>33. CASE EndFuzzing BY <1>33, SMT DEF EndFuzzing
  <1>34. CASE WorkerRaise BY <1>34, SMT DEF WorkerRaise
  <1>35. CASE WorkerCrash BY <1>35, SMT DEF WorkerCrash
  <1>36. CASE InteractBegin BY <1>36, RetryLimitAssumption, SMT DEF InteractBegin, RetryLimitAssumption
  <1>37. CASE LaunchCheck BY <1>37, SMT DEF LaunchCheck
  <1>38. CASE Launch BY <1>38, SMT DEF Launch
  <1>39. CASE Register BY <1>39, SMT DEF Register
  <1>40. CASE Readiness BY <1>40, SMT DEF Readiness
  <1>41. CASE Retry BY <1>41, RetryLimitAssumption, SMT DEF Retry, RetryLimitAssumption
  <1>42. CASE GiveUp BY <1>42, SMT DEF GiveUp
  <1>43. CASE InteractEnd BY <1>43, SMT DEF InteractEnd
  <1>44. CASE OnTimer BY <1>44, SMT DEF OnTimer
  <1>45. CASE Expire BY <1>45, SMT DEF Expire
  <1>46. CASE LlmDeadline BY <1>46, SMT DEF LlmDeadline
  <1>47. CASE LlmUsage BY <1>47, SMT DEF LlmUsage, RecordLlmUsage
  <1>48. CASE UiStops BY <1>48, SMT DEF UiStops, UiEnds
  <1>49. CASE UiCrash BY <1>49, SMT DEF UiCrash, UiEnds
  <1>50. CASE Sigint BY <1>50, SMT DEF Sigint
  <1>51. CASE HandlerTerminate BY <1>51, SMT DEF HandlerTerminate, TerminateActiveSut
  <1>52. CASE HandlerRaise BY <1>52, SMT DEF HandlerRaise
  <1>53. CASE Exited BY <1>53, SMT DEF Exited, vars
  <1>54. ASSUME NEW t \in Threads, StopCall(t) PROVE DataOK'
    BY <1>54, SMT DEF StopCall, ControllerGate, RecordReason, SignalEvent
  <1>55. CASE UNCHANGED vars BY <1>55, SMT DEF vars
  <1> QED BY <1>1, <1>2, <1>3, <1>4, <1>5, <1>6, <1>7, <1>8, <1>9, <1>10,
         <1>11, <1>12, <1>13, <1>14, <1>15, <1>16, <1>17, <1>18, <1>19, <1>20,
         <1>21, <1>22, <1>23, <1>24, <1>25, <1>26, <1>27, <1>28, <1>29, <1>30,
         <1>31, <1>32, <1>33, <1>34, <1>35, <1>36, <1>37, <1>38, <1>39, <1>40,
         <1>41, <1>42, <1>43, <1>44, <1>45, <1>46, <1>47, <1>48, <1>49, <1>50,
         <1>51, <1>52, <1>53, <1>54, <1>55
    DEF Next, FuzzMain, Cleanup, WorkerNext, StateFuzz, Learning, Fuzzing,
        Interaction, HandlerNext

\* Every variable keeps its type: no thread gets to a program point, no phase
\* to a status and no interaction to an attempt the code does not have.
THEOREM TypeCorrect == Spec => []TypeOK
  <1>1. TypeOK /\ [Next]_vars => TypeOK'
    BY FlagsStep, PhasesStep, DataStep DEF TypeOK
  <1> QED BY <1>1, TypeInit, PTL DEF Spec

------------------------------------------------------------------------------
\* The latch.
LEMMA ReasonInit == Init => ReasonInv
  BY DEF Init, ReasonInv, AfterFinalize, CleanupPcs

LEMMA ReasonStep == DataOK /\ ReasonInv /\ [Next]_vars => ReasonInv'
  <1> SUFFICES ASSUME DataOK, ReasonInv, [Next]_vars PROVE ReasonInv' OBVIOUS
  <1> USE DEF DataOK, ReasonInv, AfterFinalize, ItxUnchanged, MainFrame,
          WorkerFrame, NoPhaseChange, stopVars, ctlVars, phaseVars, runVars,
          workVars, sutVars, WorkerAt, MainAt, Goto, Request, At, ItxGoto,
          AskController, Interacting, TryPcs, ExceptPcs, CleanupPcs,
          FinallyPcs, MainPcs, WorkerPcs, HandlerPcs, TimerPcs, UiPcs, Pcs
  <1>1. CASE Arm BY <1>1, SMT DEF Arm
  <1>2. CASE SpawnWorker BY <1>2, SMT DEF SpawnWorker
  <1>3. CASE SpawnUi BY <1>3, SMT DEF SpawnUi
  <1>4. CASE JoinWorker BY <1>4, SMT DEF JoinWorker
  <1>5. CASE JoinUi BY <1>5, SMT DEF JoinUi
  <1>6. CASE Excepted BY <1>6, SMT DEF Excepted
  <1>7. CASE Close BY <1>7, SMT DEF Close
  <1>8. CASE Finalize BY <1>8, SMT DEF Finalize, FinalReason
  <1>9. CASE CleanupEnter BY <1>9, SMT DEF CleanupEnter
  <1>10. CASE CleanupSignal BY <1>10, SMT DEF CleanupSignal
  <1>11. CASE CleanupSut BY <1>11, SMT DEF CleanupSut, TerminateActiveSut
  <1>12. CASE CleanupJoin BY <1>12, SMT DEF CleanupJoin
  <1>13. CASE CleanupCollect BY <1>13, SMT DEF CleanupCollect, MainRuns, HandlerBusy
  <1>14. CASE BeginLearning BY <1>14, SMT DEF BeginLearning
  <1>15. CASE SkipLearning BY <1>15, SMT DEF SkipLearning
  <1>16. CASE LearnPoll BY <1>16, SMT DEF LearnPoll
  <1>17. CASE LearnStops BY <1>17, SMT DEF LearnStops
  <1>18. CASE LearnStopped BY <1>18, SMT DEF LearnStopped
  <1>19. CASE LearnIterationEnd BY <1>19, SMT DEF LearnIterationEnd
  <1>20. CASE LearnReturns BY <1>20, SMT DEF LearnReturns
  <1>21. CASE LearnLlmDeadline BY <1>21, SMT DEF LearnLlmDeadline
  <1>22. CASE LearnLlmStopped BY <1>22, SMT DEF LearnLlmStopped
  <1>23. CASE LearnFails BY <1>23, SMT DEF LearnFails
  <1>24. CASE ClassifyLearning BY <1>24, SMT DEF ClassifyLearning, Classify
  <1>25. CASE ClassifyFuzzing BY <1>25, SMT DEF ClassifyFuzzing, Classify
  <1>26. CASE EndLearning BY <1>26, SMT DEF EndLearning
  <1>27. CASE Export BY <1>27, SMT DEF Export
  <1>28. CASE Gate BY <1>28, SMT DEF Gate
  <1>29. CASE FuzzStage BY <1>29, SMT DEF FuzzStage
  <1>30. CASE FuzzBegin BY <1>30, SMT DEF FuzzBegin
  <1>31. CASE FuzzCheck BY <1>31, SMT DEF FuzzCheck
  <1>32. CASE FuzzRound BY <1>32, SMT DEF FuzzRound
  <1>33. CASE EndFuzzing BY <1>33, SMT DEF EndFuzzing
  <1>34. CASE WorkerRaise BY <1>34, SMT DEF WorkerRaise
  <1>35. CASE WorkerCrash BY <1>35, SMT DEF WorkerCrash
  <1>36. CASE InteractBegin BY <1>36, SMT DEF InteractBegin
  <1>37. CASE LaunchCheck BY <1>37, SMT DEF LaunchCheck
  <1>38. CASE Launch BY <1>38, SMT DEF Launch
  <1>39. CASE Register BY <1>39, SMT DEF Register
  <1>40. CASE Readiness BY <1>40, SMT DEF Readiness
  <1>41. CASE Retry BY <1>41, SMT DEF Retry
  <1>42. CASE GiveUp BY <1>42, SMT DEF GiveUp
  <1>43. CASE InteractEnd BY <1>43, SMT DEF InteractEnd
  <1>44. CASE OnTimer BY <1>44, SMT DEF OnTimer
  <1>45. CASE Expire BY <1>45, SMT DEF Expire
  <1>46. CASE LlmDeadline BY <1>46, SMT DEF LlmDeadline
  <1>47. CASE LlmUsage BY <1>47, SMT DEF LlmUsage, RecordLlmUsage
  <1>48. CASE UiStops BY <1>48, SMT DEF UiStops, UiEnds
  <1>49. CASE UiCrash BY <1>49, SMT DEF UiCrash, UiEnds
  <1>50. CASE Sigint BY <1>50, SMT DEF Sigint
  <1>51. CASE HandlerTerminate BY <1>51, SMT DEF HandlerTerminate, TerminateActiveSut
  <1>52. CASE HandlerRaise BY <1>52, SMT DEF HandlerRaise
  <1>53. CASE Exited BY <1>53, SMT DEF Exited, vars
  <1>54. ASSUME NEW t \in Threads, StopCall(t) PROVE ReasonInv'
    BY <1>54, SMT DEF StopCall, ControllerGate, RecordReason, SignalEvent
  <1>55. CASE UNCHANGED vars BY <1>55, SMT DEF vars
  <1> QED BY <1>1, <1>2, <1>3, <1>4, <1>5, <1>6, <1>7, <1>8, <1>9, <1>10,
         <1>11, <1>12, <1>13, <1>14, <1>15, <1>16, <1>17, <1>18, <1>19, <1>20,
         <1>21, <1>22, <1>23, <1>24, <1>25, <1>26, <1>27, <1>28, <1>29, <1>30,
         <1>31, <1>32, <1>33, <1>34, <1>35, <1>36, <1>37, <1>38, <1>39, <1>40,
         <1>41, <1>42, <1>43, <1>44, <1>45, <1>46, <1>47, <1>48, <1>49, <1>50,
         <1>51, <1>52, <1>53, <1>54, <1>55
    DEF Next, FuzzMain, Cleanup, WorkerNext, StateFuzz, Learning, Fuzzing,
        Interaction, HandlerNext

LEMMA LatchStep == DataOK /\ ReasonInv /\ [Next]_vars => [Latch!Next]_Latch!vars
  <1> SUFFICES ASSUME DataOK, ReasonInv, [Next]_vars PROVE [Latch!Next]_Latch!vars OBVIOUS
  <1> USE DEF ItxUnchanged, MainFrame, WorkerFrame, NoPhaseChange, stopVars,
          ctlVars, phaseVars, runVars, workVars, sutVars
  <1>1. CASE Arm BY <1>1 DEF Arm, Latch!vars
  <1>2. CASE SpawnWorker BY <1>2 DEF SpawnWorker, Latch!vars
  <1>3. CASE SpawnUi BY <1>3 DEF SpawnUi, Latch!vars
  <1>4. CASE JoinWorker BY <1>4 DEF JoinWorker, Latch!vars
  <1>5. CASE JoinUi BY <1>5 DEF JoinUi, Latch!vars
  <1>6. CASE Excepted BY <1>6 DEF Excepted, Latch!vars
  <1>7. CASE Close BY <1>7 DEF Close, Latch!vars
  <1>8. CASE Finalize
    <2>1. stopReason' = FinalReason /\ UNCHANGED stopEvent
      BY <1>8 DEF Finalize
    <2>2. FinalReason \in Reasons BY DEF FinalReason, DataOK
    <2>3. CASE stopReason = NoReason
      BY <2>1, <2>2, <2>3 DEF Latch!Next, Latch!Record
    <2>4. CASE stopReason # NoReason
      BY <2>1, <2>4 DEF FinalReason, Latch!vars
    <2> QED BY <2>3, <2>4
  <1>9. CASE CleanupEnter BY <1>9 DEF CleanupEnter, Latch!vars
  <1>10. CASE CleanupSignal
    <2>1. stopReason # NoReason
      BY <1>10 DEF CleanupSignal, MainAt, At, ReasonInv, AfterFinalize, CleanupPcs
    <2> QED BY <1>10, <2>1 DEF CleanupSignal, Latch!Next, Latch!Signal
  <1>11. CASE CleanupSut BY <1>11 DEF CleanupSut, TerminateActiveSut, Latch!vars
  <1>12. CASE CleanupJoin BY <1>12 DEF CleanupJoin, Latch!vars
  <1>13. CASE CleanupCollect BY <1>13 DEF CleanupCollect, Latch!vars
  <1>14. CASE BeginLearning BY <1>14 DEF BeginLearning, Latch!vars
  <1>15. CASE SkipLearning BY <1>15 DEF SkipLearning, Latch!vars
  <1>16. CASE LearnPoll BY <1>16 DEF LearnPoll, Latch!vars
  <1>17. CASE LearnStops BY <1>17 DEF LearnStops, Latch!vars
  <1>18. CASE LearnStopped BY <1>18 DEF LearnStopped, Latch!vars
  <1>19. CASE LearnIterationEnd BY <1>19 DEF LearnIterationEnd, Latch!vars
  <1>20. CASE LearnReturns BY <1>20 DEF LearnReturns, Latch!vars
  <1>21. CASE LearnLlmDeadline BY <1>21 DEF LearnLlmDeadline, Latch!vars
  <1>22. CASE LearnLlmStopped BY <1>22 DEF LearnLlmStopped, Latch!vars
  <1>23. CASE LearnFails BY <1>23 DEF LearnFails, Latch!vars
  <1>24. CASE ClassifyLearning BY <1>24 DEF ClassifyLearning, Classify, Latch!vars
  <1>25. CASE ClassifyFuzzing BY <1>25 DEF ClassifyFuzzing, Classify, Latch!vars
  <1>26. CASE EndLearning BY <1>26 DEF EndLearning, Latch!vars
  <1>27. CASE Export BY <1>27 DEF Export, Latch!vars
  <1>28. CASE Gate BY <1>28 DEF Gate, Latch!vars
  <1>29. CASE FuzzStage BY <1>29 DEF FuzzStage, Latch!vars
  <1>30. CASE FuzzBegin BY <1>30 DEF FuzzBegin, Latch!vars
  <1>31. CASE FuzzCheck BY <1>31 DEF FuzzCheck, Latch!vars
  <1>32. CASE FuzzRound BY <1>32 DEF FuzzRound, Latch!vars
  <1>33. CASE EndFuzzing BY <1>33 DEF EndFuzzing, Latch!vars
  <1>34. CASE WorkerRaise BY <1>34 DEF WorkerRaise, Latch!vars
  <1>35. CASE WorkerCrash BY <1>35 DEF WorkerCrash, Latch!vars
  <1>36. CASE InteractBegin BY <1>36 DEF InteractBegin, Latch!vars
  <1>37. CASE LaunchCheck BY <1>37 DEF LaunchCheck, Latch!vars
  <1>38. CASE Launch BY <1>38 DEF Launch, Latch!vars
  <1>39. CASE Register BY <1>39 DEF Register, Latch!vars
  <1>40. CASE Readiness BY <1>40 DEF Readiness, Latch!vars
  <1>41. CASE Retry BY <1>41 DEF Retry, Latch!vars
  <1>42. CASE GiveUp BY <1>42 DEF GiveUp, Latch!vars
  <1>43. CASE InteractEnd BY <1>43 DEF InteractEnd, Latch!vars
  <1>44. CASE OnTimer BY <1>44 DEF OnTimer, Latch!vars
  <1>45. CASE Expire BY <1>45 DEF Expire, Latch!vars
  <1>46. CASE LlmDeadline BY <1>46 DEF LlmDeadline, Latch!vars
  <1>47. CASE LlmUsage BY <1>47 DEF LlmUsage, RecordLlmUsage, Latch!vars
  <1>48. CASE UiStops BY <1>48 DEF UiStops, UiEnds, Latch!vars
  <1>49. CASE UiCrash BY <1>49 DEF UiCrash, UiEnds, Latch!vars
  <1>50. CASE Sigint BY <1>50 DEF Sigint, Latch!vars
  <1>51. CASE HandlerTerminate BY <1>51 DEF HandlerTerminate, TerminateActiveSut, Latch!vars
  <1>52. CASE HandlerRaise BY <1>52 DEF HandlerRaise, Latch!vars
  <1>53. CASE Exited BY <1>53 DEF Exited, vars, Latch!vars
  <1>54. ASSUME NEW t \in Threads, StopCall(t) PROVE [Latch!Next]_Latch!vars
    <2>1. CASE ControllerGate(t) BY <2>1 DEF ControllerGate, Latch!vars
    <2>2. CASE RecordReason(t)
      <3>1. call[t].reason \in Reasons BY <2>2 DEF RecordReason, ReasonInv
      <3> QED BY <2>2, <3>1 DEF RecordReason, Latch!Next, Latch!Record, Latch!vars
    <2>3. CASE SignalEvent(t)
      <3>1. stopReason # NoReason BY <2>3 DEF SignalEvent, ReasonInv
      <3> QED BY <2>3, <3>1 DEF SignalEvent, Latch!Next, Latch!Signal
    <2> QED BY <1>54, <2>1, <2>2, <2>3 DEF StopCall
  <1>55. CASE UNCHANGED vars BY <1>55 DEF vars, Latch!vars
  <1> QED BY <1>1, <1>2, <1>3, <1>4, <1>5, <1>6, <1>7, <1>8, <1>9, <1>10,
         <1>11, <1>12, <1>13, <1>14, <1>15, <1>16, <1>17, <1>18, <1>19, <1>20,
         <1>21, <1>22, <1>23, <1>24, <1>25, <1>26, <1>27, <1>28, <1>29, <1>30,
         <1>31, <1>32, <1>33, <1>34, <1>35, <1>36, <1>37, <1>38, <1>39, <1>40,
         <1>41, <1>42, <1>43, <1>44, <1>45, <1>46, <1>47, <1>48, <1>49, <1>50,
         <1>51, <1>52, <1>53, <1>54, <1>55
    DEF Next, FuzzMain, Cleanup, WorkerNext, StateFuzz, Learning, Fuzzing,
        Interaction, HandlerNext

\* Whoever stops a run, and wherever it is: its reason is the first one recorded
\* and never changes, and the shared event is raised only for a run that has a
\* reason and stays up.
THEOREM StopRefinesLatch == Spec => StopIsALatch
  <1>1. Init => Latch!Init BY DEF Init, Latch!Init
  <1>2. DataOK /\ ReasonInv /\ [Next]_vars => DataOK' /\ ReasonInv'
    BY DataStep, ReasonStep
  <1>3. Init => DataOK /\ ReasonInv BY TypeInit, ReasonInit DEF TypeOK
  <1> QED BY <1>1, <1>2, <1>3, LatchStep, PTL DEF Spec, StopIsALatch, Latch!Spec

------------------------------------------------------------------------------
\* The deadline request that set the flag is delivered.
LEMMA DeadlineStep == DataOK /\ DeadlineInv /\ [Next]_vars => DeadlineInv'
  <1> SUFFICES ASSUME DataOK, DeadlineInv, [Next]_vars PROVE DeadlineInv' OBVIOUS
  <1> USE DEF DataOK, DeadlineInv, DeadlineDelivered, DeadlineInFlight,
          ItxUnchanged, MainFrame, WorkerFrame, NoPhaseChange, stopVars,
          ctlVars, phaseVars, runVars, workVars, sutVars, WorkerAt, MainAt,
          Goto, Request, At, ItxGoto, AskController, Interacting, TryPcs,
          ExceptPcs, CleanupPcs, FinallyPcs, MainPcs, WorkerPcs, HandlerPcs,
          TimerPcs, UiPcs, Pcs
  <1>1. CASE Arm BY <1>1, SMT DEF Arm
  <1>2. CASE SpawnWorker BY <1>2, SMT DEF SpawnWorker
  <1>3. CASE SpawnUi BY <1>3, SMT DEF SpawnUi
  <1>4. CASE JoinWorker BY <1>4, SMT DEF JoinWorker
  <1>5. CASE JoinUi BY <1>5, SMT DEF JoinUi
  <1>6. CASE Excepted BY <1>6, SMT DEF Excepted
  <1>7. CASE Close BY <1>7, SMT DEF Close
  <1>8. CASE Finalize BY <1>8, SMT DEF Finalize
  <1>9. CASE CleanupEnter BY <1>9, SMT DEF CleanupEnter
  <1>10. CASE CleanupSignal BY <1>10, SMT DEF CleanupSignal
  <1>11. CASE CleanupSut BY <1>11, SMT DEF CleanupSut, TerminateActiveSut
  <1>12. CASE CleanupJoin BY <1>12, SMT DEF CleanupJoin
  <1>13. CASE CleanupCollect BY <1>13, SMT DEF CleanupCollect
  <1>14. CASE BeginLearning BY <1>14, SMT DEF BeginLearning
  <1>15. CASE SkipLearning BY <1>15, SMT DEF SkipLearning
  <1>16. CASE LearnPoll BY <1>16, SMT DEF LearnPoll
  <1>17. CASE LearnStops BY <1>17, SMT DEF LearnStops
  <1>18. CASE LearnStopped BY <1>18, SMT DEF LearnStopped
  <1>19. CASE LearnIterationEnd BY <1>19, SMT DEF LearnIterationEnd
  <1>20. CASE LearnReturns BY <1>20, SMT DEF LearnReturns
  <1>21. CASE LearnLlmDeadline BY <1>21, SMT DEF LearnLlmDeadline
  <1>22. CASE LearnLlmStopped BY <1>22, SMT DEF LearnLlmStopped
  <1>23. CASE LearnFails BY <1>23, SMT DEF LearnFails
  <1>24. CASE ClassifyLearning BY <1>24, SMT DEF ClassifyLearning, Classify
  <1>25. CASE ClassifyFuzzing BY <1>25, SMT DEF ClassifyFuzzing, Classify
  <1>26. CASE EndLearning BY <1>26, SMT DEF EndLearning
  <1>27. CASE Export BY <1>27, SMT DEF Export
  <1>28. CASE Gate BY <1>28, SMT DEF Gate
  <1>29. CASE FuzzStage BY <1>29, SMT DEF FuzzStage
  <1>30. CASE FuzzBegin BY <1>30, SMT DEF FuzzBegin
  <1>31. CASE FuzzCheck BY <1>31, SMT DEF FuzzCheck
  <1>32. CASE FuzzRound BY <1>32, SMT DEF FuzzRound
  <1>33. CASE EndFuzzing BY <1>33, SMT DEF EndFuzzing
  <1>34. CASE WorkerRaise BY <1>34, SMT DEF WorkerRaise
  <1>35. CASE WorkerCrash BY <1>35, SMT DEF WorkerCrash
  <1>36. CASE InteractBegin BY <1>36, SMT DEF InteractBegin
  <1>37. CASE LaunchCheck BY <1>37, SMT DEF LaunchCheck
  <1>38. CASE Launch BY <1>38, SMT DEF Launch
  <1>39. CASE Register BY <1>39, SMT DEF Register
  <1>40. CASE Readiness BY <1>40, SMT DEF Readiness
  <1>41. CASE Retry BY <1>41, SMT DEF Retry
  <1>42. CASE GiveUp BY <1>42, SMT DEF GiveUp
  <1>43. CASE InteractEnd BY <1>43, SMT DEF InteractEnd
  <1>44. CASE OnTimer BY <1>44, SMT DEF OnTimer
  <1>45. CASE Expire BY <1>45, SMT DEF Expire
  <1>46. CASE LlmDeadline BY <1>46, SMT DEF LlmDeadline, LlmThread
  <1>47. CASE LlmUsage BY <1>47, SMT DEF LlmUsage, RecordLlmUsage
  <1>48. CASE UiStops BY <1>48, SMT DEF UiStops, UiEnds
  <1>49. CASE UiCrash BY <1>49, SMT DEF UiCrash, UiEnds
  <1>50. CASE Sigint BY <1>50, SMT DEF Sigint
  <1>51. CASE HandlerTerminate BY <1>51, SMT DEF HandlerTerminate, TerminateActiveSut
  <1>52. CASE HandlerRaise BY <1>52, SMT DEF HandlerRaise
  <1>53. CASE Exited BY <1>53, SMT DEF Exited, vars
  <1>54. ASSUME NEW t \in Threads, StopCall(t) PROVE DeadlineInv'
    BY <1>54, SMT DEF StopCall, ControllerGate, RecordReason, SignalEvent
  <1>55. CASE UNCHANGED vars BY <1>55, SMT DEF vars
  <1> QED BY <1>1, <1>2, <1>3, <1>4, <1>5, <1>6, <1>7, <1>8, <1>9, <1>10,
         <1>11, <1>12, <1>13, <1>14, <1>15, <1>16, <1>17, <1>18, <1>19, <1>20,
         <1>21, <1>22, <1>23, <1>24, <1>25, <1>26, <1>27, <1>28, <1>29, <1>30,
         <1>31, <1>32, <1>33, <1>34, <1>35, <1>36, <1>37, <1>38, <1>39, <1>40,
         <1>41, <1>42, <1>43, <1>44, <1>45, <1>46, <1>47, <1>48, <1>49, <1>50,
         <1>51, <1>52, <1>53, <1>54, <1>55
    DEF Next, FuzzMain, Cleanup, WorkerNext, StateFuzz, Learning, Fuzzing,
        Interaction, HandlerNext

\* RunController never holds a deadline request back that nobody delivers.
THEOREM DeadlineIsDelivered == Spec => []DeadlineDelivered
  <1>1. Init => DeadlineInv BY DEF Init, DeadlineInv, DeadlineDelivered
  <1>2. DataOK /\ DeadlineInv /\ [Next]_vars => DataOK' /\ DeadlineInv'
    BY DataStep, DeadlineStep
  <1>3. DeadlineInv => DeadlineDelivered BY DEF DeadlineInv
  <1> QED BY <1>1, <1>2, <1>3, TypeInit, PTL DEF Spec, TypeOK

------------------------------------------------------------------------------
\* The SUT process.
LEMMA SutStep == SutReachable /\ [Next]_vars => SutReachable'
  <1> SUFFICES ASSUME SutReachable, [Next]_vars PROVE SutReachable' OBVIOUS
  <1> USE DEF ItxUnchanged, MainFrame, WorkerFrame, NoPhaseChange, stopVars,
          ctlVars, phaseVars, runVars, workVars, sutVars
  <1>1. CASE Arm BY <1>1, Zenon DEF Arm, SutReachable
  <1>2. CASE SpawnWorker BY <1>2, Zenon DEF SpawnWorker, SutReachable
  <1>3. CASE SpawnUi BY <1>3, Zenon DEF SpawnUi, SutReachable
  <1>4. CASE JoinWorker BY <1>4, Zenon DEF JoinWorker, SutReachable
  <1>5. CASE JoinUi BY <1>5, Zenon DEF JoinUi, SutReachable
  <1>6. CASE Excepted BY <1>6, Zenon DEF Excepted, SutReachable
  <1>7. CASE Close BY <1>7, Zenon DEF Close, SutReachable
  <1>8. CASE Finalize BY <1>8, Zenon DEF Finalize, SutReachable
  <1>9. CASE CleanupEnter BY <1>9, Zenon DEF CleanupEnter, SutReachable
  <1>10. CASE CleanupSignal BY <1>10, Zenon DEF CleanupSignal, SutReachable
  <1>11. CASE CleanupSut
    <2>1. CASE sutReg BY <1>11, <2>1, Zenon DEF CleanupSut, TerminateActiveSut, SutReachable
    <2>2. CASE ~sutReg
      <3>1. UNCHANGED <<itx, sutAlive, sutReg>>
        BY <1>11, <2>2, Zenon DEF CleanupSut, TerminateActiveSut
      <3> QED BY <3>1 DEF SutReachable
    <2> QED BY <2>1, <2>2
  <1>12. CASE CleanupJoin BY <1>12, Zenon DEF CleanupJoin, SutReachable
  <1>13. CASE CleanupCollect BY <1>13, Zenon DEF CleanupCollect, SutReachable
  <1>14. CASE BeginLearning BY <1>14, Zenon DEF BeginLearning, SutReachable
  <1>15. CASE SkipLearning BY <1>15, Zenon DEF SkipLearning, SutReachable
  <1>16. CASE LearnPoll BY <1>16, Zenon DEF LearnPoll, SutReachable
  <1>17. CASE LearnStops BY <1>17, Zenon DEF LearnStops, SutReachable
  <1>18. CASE LearnStopped BY <1>18, Zenon DEF LearnStopped, SutReachable
  <1>19. CASE LearnIterationEnd BY <1>19, Zenon DEF LearnIterationEnd, SutReachable
  <1>20. CASE LearnReturns BY <1>20, Zenon DEF LearnReturns, SutReachable
  <1>21. CASE LearnLlmDeadline BY <1>21, Zenon DEF LearnLlmDeadline, SutReachable
  <1>22. CASE LearnLlmStopped BY <1>22, Zenon DEF LearnLlmStopped, SutReachable
  <1>23. CASE LearnFails BY <1>23, Zenon DEF LearnFails, SutReachable
  <1>24. CASE ClassifyLearning BY <1>24, Zenon DEF ClassifyLearning, Classify, SutReachable
  <1>25. CASE ClassifyFuzzing BY <1>25, Zenon DEF ClassifyFuzzing, Classify, SutReachable
  <1>26. CASE EndLearning BY <1>26, Zenon DEF EndLearning, SutReachable
  <1>27. CASE Export BY <1>27, Zenon DEF Export, SutReachable
  <1>28. CASE Gate BY <1>28, Zenon DEF Gate, SutReachable
  <1>29. CASE FuzzStage BY <1>29, Zenon DEF FuzzStage, SutReachable
  <1>30. CASE FuzzBegin BY <1>30, Zenon DEF FuzzBegin, SutReachable
  <1>31. CASE FuzzCheck BY <1>31, Zenon DEF FuzzCheck, SutReachable
  <1>32. CASE FuzzRound BY <1>32, Zenon DEF FuzzRound, SutReachable
  <1>33. CASE EndFuzzing BY <1>33, Zenon DEF EndFuzzing, SutReachable
  <1>34. CASE WorkerRaise BY <1>34, Zenon DEF WorkerRaise, SutReachable
  <1>35. CASE WorkerCrash BY <1>35, Zenon DEF WorkerCrash, SutReachable
  <1>36. CASE InteractBegin BY <1>36, SMT DEF InteractBegin, SutReachable, Interacting, ItxGoto
  <1>37. CASE LaunchCheck BY <1>37, SMT DEF LaunchCheck, SutReachable, Interacting, ItxGoto
  <1>38. CASE Launch
    <2>1. ~sutAlive BY <1>38 DEF Launch, SutReachable
    <2>2. CASE itx' = "spawned" BY <2>2 DEF SutReachable
    <2>3. CASE UNCHANGED sutAlive BY <2>1, <2>3, Zenon DEF SutReachable
    <2> QED BY <1>38, <2>2, <2>3, Zenon DEF Launch, ItxGoto
  <1>39. CASE Register BY <1>39, SMT DEF Register, SutReachable, Interacting, ItxGoto
  <1>40. CASE Readiness
    <2>1. CASE itx' = "live" /\ UNCHANGED <<sutAlive, sutReg>>
      <3>1. sutAlive => sutReg BY <1>40 DEF Readiness, SutReachable
      <3> QED BY <2>1, <3>1 DEF SutReachable
    <2>2. CASE sutAlive' = FALSE BY <2>2, Zenon DEF SutReachable
    <2> QED BY <1>40, <2>1, <2>2, Zenon DEF Readiness, ItxGoto
  <1>41. CASE Retry BY <1>41, SMT DEF Retry, SutReachable, Interacting, ItxGoto
  <1>42. CASE GiveUp BY <1>42, SMT DEF GiveUp, SutReachable, Interacting, ItxGoto
  <1>43. CASE InteractEnd BY <1>43, SMT DEF InteractEnd, SutReachable, Interacting, ItxGoto
  <1>44. CASE OnTimer BY <1>44, Zenon DEF OnTimer, SutReachable
  <1>45. CASE Expire BY <1>45, Zenon DEF Expire, SutReachable
  <1>46. CASE LlmDeadline BY <1>46, Zenon DEF LlmDeadline, SutReachable
  <1>47. CASE LlmUsage BY <1>47, Zenon DEF LlmUsage, RecordLlmUsage, SutReachable
  <1>48. CASE UiStops BY <1>48, Zenon DEF UiStops, UiEnds, SutReachable
  <1>49. CASE UiCrash BY <1>49, Zenon DEF UiCrash, UiEnds, SutReachable
  <1>50. CASE Sigint BY <1>50, Zenon DEF Sigint, SutReachable
  <1>51. CASE HandlerTerminate
    <2>1. CASE sutReg BY <1>51, <2>1, Zenon DEF HandlerTerminate, TerminateActiveSut, SutReachable
    <2>2. CASE ~sutReg
      <3>1. UNCHANGED <<itx, sutAlive, sutReg>>
        BY <1>51, <2>2, Zenon DEF HandlerTerminate, TerminateActiveSut
      <3> QED BY <3>1 DEF SutReachable
    <2> QED BY <2>1, <2>2
  <1>52. CASE HandlerRaise BY <1>52, Zenon DEF HandlerRaise, SutReachable
  <1>53. CASE Exited BY <1>53, Zenon DEF Exited, vars, SutReachable
  <1>54. ASSUME NEW t \in Threads, StopCall(t) PROVE SutReachable'
    <2>1. UNCHANGED <<itx, sutAlive, sutReg>> BY <1>54, Zenon DEF StopCall, ControllerGate, RecordReason, SignalEvent
    <2> QED BY <2>1, Zenon DEF SutReachable
  <1>55. CASE UNCHANGED vars BY <1>55, Zenon DEF vars, SutReachable
  <1> QED BY <1>1, <1>2, <1>3, <1>4, <1>5, <1>6, <1>7, <1>8, <1>9, <1>10,
         <1>11, <1>12, <1>13, <1>14, <1>15, <1>16, <1>17, <1>18, <1>19, <1>20,
         <1>21, <1>22, <1>23, <1>24, <1>25, <1>26, <1>27, <1>28, <1>29, <1>30,
         <1>31, <1>32, <1>33, <1>34, <1>35, <1>36, <1>37, <1>38, <1>39, <1>40,
         <1>41, <1>42, <1>43, <1>44, <1>45, <1>46, <1>47, <1>48, <1>49, <1>50,
         <1>51, <1>52, <1>53, <1>54, <1>55
    DEF Next, FuzzMain, Cleanup, WorkerNext, StateFuzz, Learning, Fuzzing,
        Interaction, HandlerNext

\* A SUT process that is alive can be found and terminated, but for the moment
\* between its start and its registration.
THEOREM SutStaysReachable == Spec => []SutReachable
  <1>1. Init => SutReachable BY DEF Init, SutReachable
  <1>2. SutReachable /\ [Next]_vars => SutReachable' BY SutStep
  <1> QED BY <1>1, <1>2, PTL DEF Spec

------------------------------------------------------------------------------
\* The phase metrics.
LEMMA PhaseStep == DataOK /\ PhasesOK /\ PhaseInv /\ [Next]_vars => PhaseInv'
  <1> SUFFICES ASSUME DataOK, PhasesOK, PhaseInv, [Next]_vars PROVE PhaseInv' OBVIOUS
  <1> USE DEF DataOK, PhasesOK, PhaseInv, PhaseOpenWhileActive, LearningPcs,
          FuzzingPcs, Phases, ItxUnchanged, MainFrame, WorkerFrame,
          NoPhaseChange, stopVars, ctlVars, phaseVars, runVars, workVars,
          sutVars, WorkerAt, MainAt, Goto, Request, At, ItxGoto,
          AskController, Interacting, TryPcs, ExceptPcs
  <1>1. CASE Arm BY <1>1, SMT DEF Arm
  <1>2. CASE SpawnWorker BY <1>2, SMT DEF SpawnWorker
  <1>3. CASE SpawnUi BY <1>3, SMT DEF SpawnUi
  <1>4. CASE JoinWorker BY <1>4, SMT DEF JoinWorker
  <1>5. CASE JoinUi BY <1>5, SMT DEF JoinUi
  <1>6. CASE Excepted BY <1>6, SMT DEF Excepted
  <1>7. CASE Close BY <1>7, SMT DEF Close
  <1>8. CASE Finalize BY <1>8, SMT DEF Finalize
  <1>9. CASE CleanupEnter BY <1>9, SMT DEF CleanupEnter
  <1>10. CASE CleanupSignal BY <1>10, SMT DEF CleanupSignal
  <1>11. CASE CleanupSut BY <1>11, SMT DEF CleanupSut, TerminateActiveSut
  <1>12. CASE CleanupJoin BY <1>12, SMT DEF CleanupJoin
  <1>13. CASE CleanupCollect BY <1>13, SMT DEF CleanupCollect, EndPhase
  <1>14. CASE BeginLearning
    <2>1. activePhase = "none" BY <1>14 DEF BeginLearning
    <2>2. BeginPhase("model_learning") BY <1>14 DEF BeginLearning
    <2>3. status'["model_learning"] = "running" /\ activePhase' = "model_learning"
      BY <2>1, <2>2, SMT DEF BeginPhase
    <2>4. ~written'["model_learning"] BY <2>1, <2>2, Zenon DEF BeginPhase, Phases
    <2> QED BY <1>14, <2>3, <2>4 DEF BeginLearning
  <1>15. CASE SkipLearning BY <1>15, SMT DEF SkipLearning
  <1>16. CASE LearnPoll BY <1>16, SMT DEF LearnPoll
  <1>17. CASE LearnStops BY <1>17, SMT DEF LearnStops
  <1>18. CASE LearnStopped BY <1>18, SMT DEF LearnStopped
  <1>19. CASE LearnIterationEnd BY <1>19, SMT DEF LearnIterationEnd
  <1>20. CASE LearnReturns BY <1>20, SMT DEF LearnReturns
  <1>21. CASE LearnLlmDeadline BY <1>21, SMT DEF LearnLlmDeadline
  <1>22. CASE LearnLlmStopped BY <1>22, SMT DEF LearnLlmStopped
  <1>23. CASE LearnFails BY <1>23, SMT DEF LearnFails
  <1>24. CASE ClassifyLearning BY <1>24, SMT DEF ClassifyLearning, Classify
  <1>25. CASE ClassifyFuzzing BY <1>25, SMT DEF ClassifyFuzzing, Classify
  <1>26. CASE EndLearning BY <1>26, SMT DEF EndLearning, EndPhase
  <1>27. CASE Export BY <1>27, SMT DEF Export
  <1>28. CASE Gate BY <1>28, SMT DEF Gate
  <1>29. CASE FuzzStage BY <1>29, SMT DEF FuzzStage
  <1>30. CASE FuzzBegin
    <2>1. activePhase = "none" BY <1>30 DEF FuzzBegin
    <2>2. BeginPhase("fuzzing") BY <1>30 DEF FuzzBegin
    <2>3. status'["fuzzing"] = "running" /\ activePhase' = "fuzzing"
      BY <2>1, <2>2, SMT DEF BeginPhase
    <2>4. ~written'["fuzzing"] BY <2>1, <2>2, Zenon DEF BeginPhase, Phases
    <2> QED BY <1>30, <2>3, <2>4 DEF FuzzBegin
  <1>31. CASE FuzzCheck BY <1>31, SMT DEF FuzzCheck
  <1>32. CASE FuzzRound BY <1>32, SMT DEF FuzzRound
  <1>33. CASE EndFuzzing BY <1>33, SMT DEF EndFuzzing, EndPhase
  <1>34. CASE WorkerRaise BY <1>34, SMT DEF WorkerRaise
  <1>35. CASE WorkerCrash BY <1>35, SMT DEF WorkerCrash
  <1>36. CASE InteractBegin BY <1>36, SMT DEF InteractBegin
  <1>37. CASE LaunchCheck BY <1>37, SMT DEF LaunchCheck
  <1>38. CASE Launch BY <1>38, SMT DEF Launch
  <1>39. CASE Register BY <1>39, SMT DEF Register
  <1>40. CASE Readiness BY <1>40, SMT DEF Readiness
  <1>41. CASE Retry BY <1>41, SMT DEF Retry
  <1>42. CASE GiveUp BY <1>42, SMT DEF GiveUp
  <1>43. CASE InteractEnd BY <1>43, SMT DEF InteractEnd
  <1>44. CASE OnTimer BY <1>44, SMT DEF OnTimer
  <1>45. CASE Expire BY <1>45, SMT DEF Expire
  <1>46. CASE LlmDeadline BY <1>46, SMT DEF LlmDeadline
  <1>47. CASE LlmUsage BY <1>47, SMT DEF LlmUsage, RecordLlmUsage, UsagePhase, Closable
  <1>48. CASE UiStops BY <1>48, SMT DEF UiStops, UiEnds
  <1>49. CASE UiCrash BY <1>49, SMT DEF UiCrash, UiEnds
  <1>50. CASE Sigint BY <1>50, SMT DEF Sigint
  <1>51. CASE HandlerTerminate BY <1>51, SMT DEF HandlerTerminate, TerminateActiveSut
  <1>52. CASE HandlerRaise BY <1>52, SMT DEF HandlerRaise
  <1>53. CASE Exited BY <1>53, SMT DEF Exited, vars
  <1>54. ASSUME NEW t \in Threads, StopCall(t) PROVE PhaseInv'
    BY <1>54, SMT DEF StopCall, ControllerGate, RecordReason, SignalEvent
  <1>55. CASE UNCHANGED vars BY <1>55, SMT DEF vars
  <1> QED BY <1>1, <1>2, <1>3, <1>4, <1>5, <1>6, <1>7, <1>8, <1>9, <1>10,
         <1>11, <1>12, <1>13, <1>14, <1>15, <1>16, <1>17, <1>18, <1>19, <1>20,
         <1>21, <1>22, <1>23, <1>24, <1>25, <1>26, <1>27, <1>28, <1>29, <1>30,
         <1>31, <1>32, <1>33, <1>34, <1>35, <1>36, <1>37, <1>38, <1>39, <1>40,
         <1>41, <1>42, <1>43, <1>44, <1>45, <1>46, <1>47, <1>48, <1>49, <1>50,
         <1>51, <1>52, <1>53, <1>54, <1>55
    DEF Next, FuzzMain, Cleanup, WorkerNext, StateFuzz, Learning, Fuzzing,
        Interaction, HandlerNext

\* Time and usage are booked on an open metric of the phase the worker is in.
THEOREM ActivePhaseIsOpen == Spec => []PhaseOpenWhileActive
  <1>1. Init => PhaseInv BY DEF Init, PhaseInv, PhaseOpenWhileActive
  <1>2. DataOK /\ PhasesOK /\ PhaseInv /\ [Next]_vars
          => DataOK' /\ PhasesOK' /\ PhaseInv'
    BY DataStep, PhasesStep, PhaseStep
  <1>3. PhaseInv => PhaseOpenWhileActive BY DEF PhaseInv
  <1> QED BY <1>1, <1>2, <1>3, TypeInit, PTL DEF Spec, TypeOK

------------------------------------------------------------------------------
\* The outcome: which reason, which phase status and which exit code go together.
LEMMA RequestStep == DataOK /\ ReasonInv /\ PhaseInv /\ RequestInv /\ WorkerInv /\ MainInv /\ [Next]_vars => RequestInv'
  <1> SUFFICES ASSUME DataOK, ReasonInv, PhaseInv, RequestInv, WorkerInv, MainInv, [Next]_vars PROVE RequestInv' OBVIOUS
  <1> USE DEF DataOK, ReasonInv, AfterFinalize, Settled, ExportOutcome,
          Finished, ItxUnchanged, MainFrame, WorkerFrame, NoPhaseChange,
          stopVars, ctlVars, phaseVars, runVars, workVars, sutVars, WorkerAt,
          MainAt, Goto, Request, At, ItxGoto, AskController, Interacting,
          TryPcs, ExceptPcs, CleanupPcs, FinallyPcs, MainPcs, WorkerPcs,
          HandlerPcs, TimerPcs, UiPcs, Pcs, RequestInv, MainInv
  <1>1. CASE Arm BY <1>1, SMT DEF Arm
  <1>2. CASE SpawnWorker BY <1>2, SMT DEF SpawnWorker, PhaseInv
  <1>3. CASE SpawnUi BY <1>3, SMT DEF SpawnUi
  <1>4. CASE JoinWorker BY <1>4, SMT DEF JoinWorker
  <1>5. CASE JoinUi BY <1>5, SMT DEF JoinUi
  <1>6. CASE Excepted BY <1>6, SMT DEF Excepted
  <1>7. CASE Close BY <1>7, SMT DEF Close
  <1>8. CASE Finalize BY <1>8, SMT DEF Finalize, FinalReason
  <1>9. CASE CleanupEnter BY <1>9, SMT DEF CleanupEnter
  <1>10. CASE CleanupSignal BY <1>10, SMT DEF CleanupSignal
  <1>11. CASE CleanupSut BY <1>11, SMT DEF CleanupSut, TerminateActiveSut
  <1>12. CASE CleanupJoin BY <1>12, SMT DEF CleanupJoin
  <1>13. CASE CleanupCollect BY <1>13, SMT DEF CleanupCollect
  <1>14. CASE BeginLearning BY <1>14, SMT DEF BeginLearning
  <1>15. CASE SkipLearning BY <1>15, SMT DEF SkipLearning
  <1>16. CASE LearnPoll BY <1>16, SMT DEF LearnPoll
  <1>17. CASE LearnStops BY <1>17, SMT DEF LearnStops
  <1>18. CASE LearnStopped BY <1>18, SMT DEF LearnStopped
  <1>19. CASE LearnIterationEnd BY <1>19, SMT DEF LearnIterationEnd
  <1>20. CASE LearnReturns BY <1>20, SMT DEF LearnReturns
  <1>21. CASE LearnLlmDeadline BY <1>21, SMT DEF LearnLlmDeadline
  <1>22. CASE LearnLlmStopped BY <1>22, SMT DEF LearnLlmStopped
  <1>23. CASE LearnFails BY <1>23, SMT DEF LearnFails
  <1>24. CASE ClassifyLearning BY <1>24, SMT DEF ClassifyLearning, Classify
  <1>25. CASE ClassifyFuzzing BY <1>25, SMT DEF ClassifyFuzzing, Classify
  <1>26. CASE EndLearning BY <1>26, SMT DEF EndLearning
  <1>27. CASE Export BY <1>27, SMT DEF Export, WorkerInv
  <1>28. CASE Gate BY <1>28, SMT DEF Gate
  <1>29. CASE FuzzStage BY <1>29, SMT DEF FuzzStage
  <1>30. CASE FuzzBegin BY <1>30, SMT DEF FuzzBegin
  <1>31. CASE FuzzCheck BY <1>31, SMT DEF FuzzCheck
  <1>32. CASE FuzzRound BY <1>32, SMT DEF FuzzRound
  <1>33. CASE EndFuzzing BY <1>33, SMT DEF EndFuzzing
  <1>34. CASE WorkerRaise BY <1>34, SMT DEF WorkerRaise
  <1>35. CASE WorkerCrash BY <1>35, SMT DEF WorkerCrash
  <1>36. CASE InteractBegin BY <1>36, SMT DEF InteractBegin
  <1>37. CASE LaunchCheck BY <1>37, SMT DEF LaunchCheck
  <1>38. CASE Launch BY <1>38, SMT DEF Launch
  <1>39. CASE Register BY <1>39, SMT DEF Register
  <1>40. CASE Readiness BY <1>40, SMT DEF Readiness
  <1>41. CASE Retry BY <1>41, SMT DEF Retry
  <1>42. CASE GiveUp BY <1>42, SMT DEF GiveUp
  <1>43. CASE InteractEnd BY <1>43, SMT DEF InteractEnd
  <1>44. CASE OnTimer BY <1>44, SMT DEF OnTimer
  <1>45. CASE Expire BY <1>45, SMT DEF Expire
  <1>46. CASE LlmDeadline BY <1>46, SMT DEF LlmDeadline, LlmThread
  <1>47. CASE LlmUsage BY <1>47, SMT DEF LlmUsage, RecordLlmUsage
  <1>48. CASE UiStops BY <1>48, SMT DEF UiStops, UiEnds
  <1>49. CASE UiCrash BY <1>49, SMT DEF UiCrash, UiEnds
  <1>50. CASE Sigint BY <1>50, SMT DEF Sigint
  <1>51. CASE HandlerTerminate BY <1>51, SMT DEF HandlerTerminate, TerminateActiveSut
  <1>52. CASE HandlerRaise BY <1>52, SMT DEF HandlerRaise
  <1>53. CASE Exited BY <1>53, SMT DEF Exited, vars
  <1>54. ASSUME NEW t \in Threads, StopCall(t) PROVE RequestInv'
    BY <1>54, SMT DEF StopCall, ControllerGate, RecordReason, SignalEvent
  <1>55. CASE UNCHANGED vars BY <1>55, SMT DEF vars
  <1> QED BY <1>1, <1>2, <1>3, <1>4, <1>5, <1>6, <1>7, <1>8, <1>9, <1>10,
         <1>11, <1>12, <1>13, <1>14, <1>15, <1>16, <1>17, <1>18, <1>19, <1>20,
         <1>21, <1>22, <1>23, <1>24, <1>25, <1>26, <1>27, <1>28, <1>29, <1>30,
         <1>31, <1>32, <1>33, <1>34, <1>35, <1>36, <1>37, <1>38, <1>39, <1>40,
         <1>41, <1>42, <1>43, <1>44, <1>45, <1>46, <1>47, <1>48, <1>49, <1>50,
         <1>51, <1>52, <1>53, <1>54, <1>55
    DEF Next, FuzzMain, Cleanup, WorkerNext, StateFuzz, Learning, Fuzzing,
        Interaction, HandlerNext

LEMMA WorkerStep == DataOK /\ ReasonInv /\ PhaseInv /\ WorkerInv /\ [Next]_vars => WorkerInv'
  <1> SUFFICES ASSUME DataOK, ReasonInv, PhaseInv, WorkerInv, [Next]_vars PROVE WorkerInv' OBVIOUS
  <1> USE DEF DataOK, ReasonInv, AfterFinalize, Settled, ExportOutcome,
          Finished, ItxUnchanged, MainFrame, WorkerFrame, NoPhaseChange,
          stopVars, ctlVars, phaseVars, runVars, workVars, sutVars, WorkerAt,
          MainAt, Goto, Request, At, ItxGoto, AskController, Interacting,
          TryPcs, ExceptPcs, CleanupPcs, FinallyPcs, MainPcs, WorkerPcs,
          HandlerPcs, TimerPcs, UiPcs, Pcs, WorkerInv, FuzzingPcs
  <1>1. CASE Arm BY <1>1, SMT DEF Arm
  <1>2. CASE SpawnWorker BY <1>2, SMT DEF SpawnWorker, PhaseInv
  <1>3. CASE SpawnUi BY <1>3, SMT DEF SpawnUi
  <1>4. CASE JoinWorker BY <1>4, SMT DEF JoinWorker
  <1>5. CASE JoinUi BY <1>5, SMT DEF JoinUi
  <1>6. CASE Excepted BY <1>6, SMT DEF Excepted
  <1>7. CASE Close BY <1>7, SMT DEF Close
  <1>8. CASE Finalize BY <1>8, SMT DEF Finalize, FinalReason
  <1>9. CASE CleanupEnter BY <1>9, SMT DEF CleanupEnter
  <1>10. CASE CleanupSignal BY <1>10, SMT DEF CleanupSignal
  <1>11. CASE CleanupSut BY <1>11, SMT DEF CleanupSut, TerminateActiveSut
  <1>12. CASE CleanupJoin BY <1>12, SMT DEF CleanupJoin
  <1>13. CASE CleanupCollect BY <1>13, SMT DEF CleanupCollect
  <1>14. CASE BeginLearning BY <1>14, SMT DEF BeginLearning
  <1>15. CASE SkipLearning BY <1>15, SMT DEF SkipLearning
  <1>16. CASE LearnPoll BY <1>16, SMT DEF LearnPoll
  <1>17. CASE LearnStops BY <1>17, SMT DEF LearnStops
  <1>18. CASE LearnStopped BY <1>18, SMT DEF LearnStopped
  <1>19. CASE LearnIterationEnd BY <1>19, SMT DEF LearnIterationEnd
  <1>20. CASE LearnReturns BY <1>20, SMT DEF LearnReturns
  <1>21. CASE LearnLlmDeadline BY <1>21, SMT DEF LearnLlmDeadline
  <1>22. CASE LearnLlmStopped BY <1>22, SMT DEF LearnLlmStopped
  <1>23. CASE LearnFails BY <1>23, SMT DEF LearnFails
  <1>24. CASE ClassifyLearning BY <1>24, SMT DEF ClassifyLearning, Classify, Classify
  <1>25. CASE ClassifyFuzzing BY <1>25, SMT DEF ClassifyFuzzing, Classify, Classify
  <1>26. CASE EndLearning BY <1>26, SMT DEF EndLearning
  <1>27. CASE Export BY <1>27, SMT DEF Export
  <1>28. CASE Gate BY <1>28, SMT DEF Gate
  <1>29. CASE FuzzStage BY <1>29, SMT DEF FuzzStage
  <1>30. CASE FuzzBegin BY <1>30, SMT DEF FuzzBegin
  <1>31. CASE FuzzCheck BY <1>31, SMT DEF FuzzCheck, ShouldStop
  <1>32. CASE FuzzRound BY <1>32, SMT DEF FuzzRound
  <1>33. CASE EndFuzzing BY <1>33, SMT DEF EndFuzzing
  <1>34. CASE WorkerRaise BY <1>34, SMT DEF WorkerRaise
  <1>35. CASE WorkerCrash BY <1>35, SMT DEF WorkerCrash
  <1>36. CASE InteractBegin BY <1>36, SMT DEF InteractBegin
  <1>37. CASE LaunchCheck BY <1>37, SMT DEF LaunchCheck
  <1>38. CASE Launch BY <1>38, SMT DEF Launch
  <1>39. CASE Register BY <1>39, SMT DEF Register
  <1>40. CASE Readiness BY <1>40, SMT DEF Readiness
  <1>41. CASE Retry BY <1>41, SMT DEF Retry
  <1>42. CASE GiveUp BY <1>42, SMT DEF GiveUp
  <1>43. CASE InteractEnd BY <1>43, SMT DEF InteractEnd
  <1>44. CASE OnTimer BY <1>44, SMT DEF OnTimer
  <1>45. CASE Expire BY <1>45, SMT DEF Expire
  <1>46. CASE LlmDeadline BY <1>46, SMT DEF LlmDeadline, LlmThread
  <1>47. CASE LlmUsage BY <1>47, SMT DEF LlmUsage, RecordLlmUsage
  <1>48. CASE UiStops BY <1>48, SMT DEF UiStops, UiEnds
  <1>49. CASE UiCrash BY <1>49, SMT DEF UiCrash, UiEnds
  <1>50. CASE Sigint BY <1>50, SMT DEF Sigint
  <1>51. CASE HandlerTerminate BY <1>51, SMT DEF HandlerTerminate, TerminateActiveSut
  <1>52. CASE HandlerRaise BY <1>52, SMT DEF HandlerRaise
  <1>53. CASE Exited BY <1>53, SMT DEF Exited, vars
  <1>54. ASSUME NEW t \in Threads, StopCall(t) PROVE WorkerInv'
    BY <1>54, SMT DEF StopCall, ControllerGate, RecordReason, SignalEvent
  <1>55. CASE UNCHANGED vars BY <1>55, SMT DEF vars
  <1> QED BY <1>1, <1>2, <1>3, <1>4, <1>5, <1>6, <1>7, <1>8, <1>9, <1>10,
         <1>11, <1>12, <1>13, <1>14, <1>15, <1>16, <1>17, <1>18, <1>19, <1>20,
         <1>21, <1>22, <1>23, <1>24, <1>25, <1>26, <1>27, <1>28, <1>29, <1>30,
         <1>31, <1>32, <1>33, <1>34, <1>35, <1>36, <1>37, <1>38, <1>39, <1>40,
         <1>41, <1>42, <1>43, <1>44, <1>45, <1>46, <1>47, <1>48, <1>49, <1>50,
         <1>51, <1>52, <1>53, <1>54, <1>55
    DEF Next, FuzzMain, Cleanup, WorkerNext, StateFuzz, Learning, Fuzzing,
        Interaction, HandlerNext

LEMMA MainStep == DataOK /\ ReasonInv /\ WorkerInv /\ MainInv /\ [Next]_vars => MainInv'
  <1> SUFFICES ASSUME DataOK, ReasonInv, WorkerInv, MainInv, [Next]_vars PROVE MainInv' OBVIOUS
  <1> USE DEF DataOK, ReasonInv, AfterFinalize, Settled, ExportOutcome,
          Finished, ItxUnchanged, MainFrame, WorkerFrame, NoPhaseChange,
          stopVars, ctlVars, phaseVars, runVars, workVars, sutVars, WorkerAt,
          MainAt, Goto, Request, At, ItxGoto, AskController, Interacting,
          TryPcs, ExceptPcs, CleanupPcs, FinallyPcs, MainPcs, WorkerPcs,
          HandlerPcs, TimerPcs, UiPcs, Pcs, WorkerInv, MainInv
  <1>1. CASE Arm BY <1>1, SMT DEF Arm, MainRuns, HandlerBusy
  <1>2. CASE SpawnWorker BY <1>2, SMT DEF SpawnWorker, MainRuns, HandlerBusy
  <1>3. CASE SpawnUi BY <1>3, SMT DEF SpawnUi, MainRuns, HandlerBusy
  <1>4. CASE JoinWorker BY <1>4, SMT DEF JoinWorker, MainRuns, HandlerBusy
  <1>5. CASE JoinUi BY <1>5, SMT DEF JoinUi, MainRuns, HandlerBusy
  <1>6. CASE Excepted BY <1>6, SMT DEF Excepted, MainRuns, HandlerBusy
  <1>7. CASE Close BY <1>7, SMT DEF Close, MainRuns, HandlerBusy
  <1>8. CASE Finalize BY <1>8, SMT DEF Finalize, MainRuns, HandlerBusy
  <1>9. CASE CleanupEnter BY <1>9, SMT DEF CleanupEnter, MainRuns, HandlerBusy
  <1>10. CASE CleanupSignal BY <1>10, SMT DEF CleanupSignal, MainRuns, HandlerBusy
  <1>11. CASE CleanupSut BY <1>11, SMT DEF CleanupSut, TerminateActiveSut, MainRuns, HandlerBusy
  <1>12. CASE CleanupJoin BY <1>12, SMT DEF CleanupJoin, MainRuns, HandlerBusy
  <1>13. CASE CleanupCollect BY <1>13, SMT DEF CleanupCollect, MainRuns, HandlerBusy
  <1>14. CASE BeginLearning BY <1>14, SMT DEF BeginLearning
  <1>15. CASE SkipLearning BY <1>15, SMT DEF SkipLearning
  <1>16. CASE LearnPoll BY <1>16, SMT DEF LearnPoll
  <1>17. CASE LearnStops BY <1>17, SMT DEF LearnStops
  <1>18. CASE LearnStopped BY <1>18, SMT DEF LearnStopped
  <1>19. CASE LearnIterationEnd BY <1>19, SMT DEF LearnIterationEnd
  <1>20. CASE LearnReturns BY <1>20, SMT DEF LearnReturns
  <1>21. CASE LearnLlmDeadline BY <1>21, SMT DEF LearnLlmDeadline
  <1>22. CASE LearnLlmStopped BY <1>22, SMT DEF LearnLlmStopped
  <1>23. CASE LearnFails BY <1>23, SMT DEF LearnFails
  <1>24. CASE ClassifyLearning BY <1>24, SMT DEF ClassifyLearning, Classify
  <1>25. CASE ClassifyFuzzing BY <1>25, SMT DEF ClassifyFuzzing, Classify
  <1>26. CASE EndLearning BY <1>26, SMT DEF EndLearning
  <1>27. CASE Export BY <1>27, SMT DEF Export
  <1>28. CASE Gate BY <1>28, SMT DEF Gate
  <1>29. CASE FuzzStage BY <1>29, SMT DEF FuzzStage
  <1>30. CASE FuzzBegin BY <1>30, SMT DEF FuzzBegin
  <1>31. CASE FuzzCheck BY <1>31, SMT DEF FuzzCheck
  <1>32. CASE FuzzRound BY <1>32, SMT DEF FuzzRound
  <1>33. CASE EndFuzzing BY <1>33, SMT DEF EndFuzzing
  <1>34. CASE WorkerRaise BY <1>34, SMT DEF WorkerRaise
  <1>35. CASE WorkerCrash BY <1>35, SMT DEF WorkerCrash
  <1>36. CASE InteractBegin BY <1>36, SMT DEF InteractBegin
  <1>37. CASE LaunchCheck BY <1>37, SMT DEF LaunchCheck
  <1>38. CASE Launch BY <1>38, SMT DEF Launch
  <1>39. CASE Register BY <1>39, SMT DEF Register
  <1>40. CASE Readiness BY <1>40, SMT DEF Readiness
  <1>41. CASE Retry BY <1>41, SMT DEF Retry
  <1>42. CASE GiveUp BY <1>42, SMT DEF GiveUp
  <1>43. CASE InteractEnd BY <1>43, SMT DEF InteractEnd
  <1>44. CASE OnTimer BY <1>44, SMT DEF OnTimer
  <1>45. CASE Expire BY <1>45, SMT DEF Expire
  <1>46. CASE LlmDeadline BY <1>46, SMT DEF LlmDeadline, LlmThread
  <1>47. CASE LlmUsage BY <1>47, SMT DEF LlmUsage, RecordLlmUsage
  <1>48. CASE UiStops BY <1>48, SMT DEF UiStops, UiEnds
  <1>49. CASE UiCrash BY <1>49, SMT DEF UiCrash, UiEnds
  <1>50. CASE Sigint BY <1>50, SMT DEF Sigint
  <1>51. CASE HandlerTerminate BY <1>51, SMT DEF HandlerTerminate, TerminateActiveSut
  <1>52. CASE HandlerRaise BY <1>52, SMT DEF HandlerRaise
  <1>53. CASE Exited BY <1>53, SMT DEF Exited, vars
  <1>54. ASSUME NEW t \in Threads, StopCall(t) PROVE MainInv'
    BY <1>54, SMT DEF StopCall, ControllerGate, RecordReason, SignalEvent
  <1>55. CASE UNCHANGED vars BY <1>55, SMT DEF vars
  <1> QED BY <1>1, <1>2, <1>3, <1>4, <1>5, <1>6, <1>7, <1>8, <1>9, <1>10,
         <1>11, <1>12, <1>13, <1>14, <1>15, <1>16, <1>17, <1>18, <1>19, <1>20,
         <1>21, <1>22, <1>23, <1>24, <1>25, <1>26, <1>27, <1>28, <1>29, <1>30,
         <1>31, <1>32, <1>33, <1>34, <1>35, <1>36, <1>37, <1>38, <1>39, <1>40,
         <1>41, <1>42, <1>43, <1>44, <1>45, <1>46, <1>47, <1>48, <1>49, <1>50,
         <1>51, <1>52, <1>53, <1>54, <1>55
    DEF Next, FuzzMain, Cleanup, WorkerNext, StateFuzz, Learning, Fuzzing,
        Interaction, HandlerNext

LEMMA VerdictStep == DataOK /\ PhasesOK /\ ReasonInv /\ PhaseInv /\ RequestInv /\ WorkerInv /\ VerdictInv /\ [Next]_vars => VerdictInv'
  <1> SUFFICES ASSUME DataOK, PhasesOK, ReasonInv, PhaseInv, RequestInv, WorkerInv, VerdictInv, [Next]_vars PROVE VerdictInv' OBVIOUS
  <1> USE DEF DataOK, ReasonInv, AfterFinalize, Settled, ExportOutcome,
          Finished, ItxUnchanged, MainFrame, WorkerFrame, NoPhaseChange,
          stopVars, ctlVars, phaseVars, runVars, workVars, sutVars, WorkerAt,
          MainAt, Goto, Request, At, ItxGoto, AskController, Interacting,
          TryPcs, ExceptPcs, CleanupPcs, FinallyPcs, MainPcs, WorkerPcs,
          HandlerPcs, TimerPcs, UiPcs, Pcs, PhasesOK, VerdictInv,
          PhaseVerdicts, RequestInv, WorkerInv, Phases, FuzzingPcs
  <1>1. CASE Arm BY <1>1, SMT DEF Arm
  <1>2. CASE SpawnWorker BY <1>2, SMT DEF SpawnWorker, PhaseInv
  <1>3. CASE SpawnUi BY <1>3, SMT DEF SpawnUi
  <1>4. CASE JoinWorker BY <1>4, SMT DEF JoinWorker
  <1>5. CASE JoinUi BY <1>5, SMT DEF JoinUi
  <1>6. CASE Excepted BY <1>6, SMT DEF Excepted
  <1>7. CASE Close BY <1>7, SMT DEF Close
  <1>8. CASE Finalize BY <1>8, SMT DEF Finalize, FinalReason
  <1>9. CASE CleanupEnter BY <1>9, SMT DEF CleanupEnter
  <1>10. CASE CleanupSignal BY <1>10, SMT DEF CleanupSignal
  <1>11. CASE CleanupSut BY <1>11, SMT DEF CleanupSut, TerminateActiveSut
  <1>12. CASE CleanupJoin BY <1>12, SMT DEF CleanupJoin
  <1>13. CASE CleanupCollect BY <1>13, SMT DEF CleanupCollect, EndPhase
  <1>14. CASE BeginLearning BY <1>14, SMT DEF BeginLearning, BeginPhase
  <1>15. CASE SkipLearning BY <1>15, SMT DEF SkipLearning
  <1>16. CASE LearnPoll BY <1>16, SMT DEF LearnPoll
  <1>17. CASE LearnStops BY <1>17, SMT DEF LearnStops
  <1>18. CASE LearnStopped BY <1>18, SMT DEF LearnStopped
  <1>19. CASE LearnIterationEnd BY <1>19, SMT DEF LearnIterationEnd
  <1>20. CASE LearnReturns BY <1>20, SMT DEF LearnReturns
  <1>21. CASE LearnLlmDeadline BY <1>21, SMT DEF LearnLlmDeadline
  <1>22. CASE LearnLlmStopped BY <1>22, SMT DEF LearnLlmStopped
  <1>23. CASE LearnFails BY <1>23, SMT DEF LearnFails
  <1>24. CASE ClassifyLearning BY <1>24, SMT DEF ClassifyLearning, Classify, PhaseStopStatus
  <1>25. CASE ClassifyFuzzing BY <1>25, SMT DEF ClassifyFuzzing, Classify, PhaseStopStatus
  <1>26. CASE EndLearning BY <1>26, SMT DEF EndLearning, EndPhase
  <1>27. CASE Export BY <1>27, SMT DEF Export
  <1>28. CASE Gate BY <1>28, SMT DEF Gate
  <1>29. CASE FuzzStage BY <1>29, SMT DEF FuzzStage
  <1>30. CASE FuzzBegin BY <1>30, SMT DEF FuzzBegin, BeginPhase
  <1>31. CASE FuzzCheck BY <1>31, SMT DEF FuzzCheck
  <1>32. CASE FuzzRound BY <1>32, SMT DEF FuzzRound
  <1>33. CASE EndFuzzing BY <1>33, SMT DEF EndFuzzing, EndPhase
  <1>34. CASE WorkerRaise BY <1>34, SMT DEF WorkerRaise
  <1>35. CASE WorkerCrash BY <1>35, SMT DEF WorkerCrash
  <1>36. CASE InteractBegin BY <1>36, SMT DEF InteractBegin
  <1>37. CASE LaunchCheck BY <1>37, SMT DEF LaunchCheck
  <1>38. CASE Launch BY <1>38, SMT DEF Launch
  <1>39. CASE Register BY <1>39, SMT DEF Register
  <1>40. CASE Readiness BY <1>40, SMT DEF Readiness
  <1>41. CASE Retry BY <1>41, SMT DEF Retry
  <1>42. CASE GiveUp BY <1>42, SMT DEF GiveUp
  <1>43. CASE InteractEnd BY <1>43, SMT DEF InteractEnd
  <1>44. CASE OnTimer BY <1>44, SMT DEF OnTimer
  <1>45. CASE Expire BY <1>45, SMT DEF Expire
  <1>46. CASE LlmDeadline BY <1>46, SMT DEF LlmDeadline
  <1>47. CASE LlmUsage BY <1>47, SMT DEF LlmUsage, RecordLlmUsage, UsagePhase
  <1>48. CASE UiStops BY <1>48, SMT DEF UiStops, UiEnds
  <1>49. CASE UiCrash BY <1>49, SMT DEF UiCrash, UiEnds
  <1>50. CASE Sigint BY <1>50, SMT DEF Sigint
  <1>51. CASE HandlerTerminate BY <1>51, SMT DEF HandlerTerminate, TerminateActiveSut
  <1>52. CASE HandlerRaise BY <1>52, SMT DEF HandlerRaise
  <1>53. CASE Exited BY <1>53, SMT DEF Exited, vars
  <1>54. ASSUME NEW t \in Threads, StopCall(t) PROVE VerdictInv'
    BY <1>54, SMT DEF StopCall, ControllerGate, RecordReason, SignalEvent
  <1>55. CASE UNCHANGED vars BY <1>55, SMT DEF vars
  <1> QED BY <1>1, <1>2, <1>3, <1>4, <1>5, <1>6, <1>7, <1>8, <1>9, <1>10,
         <1>11, <1>12, <1>13, <1>14, <1>15, <1>16, <1>17, <1>18, <1>19, <1>20,
         <1>21, <1>22, <1>23, <1>24, <1>25, <1>26, <1>27, <1>28, <1>29, <1>30,
         <1>31, <1>32, <1>33, <1>34, <1>35, <1>36, <1>37, <1>38, <1>39, <1>40,
         <1>41, <1>42, <1>43, <1>44, <1>45, <1>46, <1>47, <1>48, <1>49, <1>50,
         <1>51, <1>52, <1>53, <1>54, <1>55
    DEF Next, FuzzMain, Cleanup, WorkerNext, StateFuzz, Learning, Fuzzing,
        Interaction, HandlerNext

LEMMA SuccessStep == DataOK /\ MainInv /\ RequestInv /\ WorkerInv /\ VerdictInv /\ SuccessIsEarned /\ NeverUnclassified /\ [Next]_vars => (SuccessIsEarned /\ NeverUnclassified)'
  <1> SUFFICES ASSUME DataOK, MainInv, RequestInv, WorkerInv, VerdictInv, SuccessIsEarned, NeverUnclassified, [Next]_vars PROVE (SuccessIsEarned /\ NeverUnclassified)' OBVIOUS
  <1> USE DEF DataOK, AfterFinalize, Settled, ExportOutcome, Finished,
          ItxUnchanged, MainFrame, WorkerFrame, NoPhaseChange, stopVars,
          ctlVars, phaseVars, runVars, workVars, sutVars, WorkerAt, MainAt,
          Goto, Request, At, ItxGoto, AskController, Interacting, TryPcs,
          ExceptPcs, CleanupPcs, FinallyPcs, MainPcs, WorkerPcs, HandlerPcs,
          TimerPcs, UiPcs, Pcs, SuccessIsEarned, NeverUnclassified
  <1>1. CASE Arm BY <1>1, SMT DEF Arm, MainInv
  <1>2. CASE SpawnWorker BY <1>2, SMT DEF SpawnWorker, MainInv
  <1>3. CASE SpawnUi BY <1>3, SMT DEF SpawnUi, MainInv
  <1>4. CASE JoinWorker BY <1>4, SMT DEF JoinWorker, MainInv
  <1>5. CASE JoinUi BY <1>5, SMT DEF JoinUi, MainInv
  <1>6. CASE Excepted BY <1>6, SMT DEF Excepted, MainInv
  <1>7. CASE Close BY <1>7, SMT DEF Close, MainInv
  <1>8. CASE Finalize BY <1>8, SMT DEF Finalize, FinalReason, FinalStatus, ExitCodeOf, RequestInv, WorkerInv,
        VerdictInv, MainInv
  <1>9. CASE CleanupEnter BY <1>9, SMT DEF CleanupEnter, MainInv
  <1>10. CASE CleanupSignal BY <1>10, SMT DEF CleanupSignal, MainInv
  <1>11. CASE CleanupSut BY <1>11, SMT DEF CleanupSut, TerminateActiveSut, MainInv
  <1>12. CASE CleanupJoin BY <1>12, SMT DEF CleanupJoin, MainInv
  <1>13. CASE CleanupCollect BY <1>13, SMT DEF CleanupCollect, MainInv
  <1>14. CASE BeginLearning BY <1>14, SMT DEF BeginLearning, MainInv
  <1>15. CASE SkipLearning BY <1>15, SMT DEF SkipLearning, MainInv
  <1>16. CASE LearnPoll BY <1>16, SMT DEF LearnPoll, MainInv
  <1>17. CASE LearnStops BY <1>17, SMT DEF LearnStops, MainInv
  <1>18. CASE LearnStopped BY <1>18, SMT DEF LearnStopped, MainInv
  <1>19. CASE LearnIterationEnd BY <1>19, SMT DEF LearnIterationEnd, MainInv
  <1>20. CASE LearnReturns BY <1>20, SMT DEF LearnReturns, MainInv
  <1>21. CASE LearnLlmDeadline BY <1>21, SMT DEF LearnLlmDeadline, MainInv
  <1>22. CASE LearnLlmStopped BY <1>22, SMT DEF LearnLlmStopped, MainInv
  <1>23. CASE LearnFails BY <1>23, SMT DEF LearnFails, MainInv
  <1>24. CASE ClassifyLearning BY <1>24, SMT DEF ClassifyLearning, Classify, MainInv
  <1>25. CASE ClassifyFuzzing BY <1>25, SMT DEF ClassifyFuzzing, Classify, MainInv
  <1>26. CASE EndLearning BY <1>26, SMT DEF EndLearning, MainInv
  <1>27. CASE Export BY <1>27, SMT DEF Export, MainInv
  <1>28. CASE Gate BY <1>28, SMT DEF Gate, MainInv
  <1>29. CASE FuzzStage BY <1>29, SMT DEF FuzzStage, MainInv
  <1>30. CASE FuzzBegin BY <1>30, SMT DEF FuzzBegin, MainInv
  <1>31. CASE FuzzCheck BY <1>31, SMT DEF FuzzCheck, MainInv
  <1>32. CASE FuzzRound BY <1>32, SMT DEF FuzzRound, MainInv
  <1>33. CASE EndFuzzing BY <1>33, SMT DEF EndFuzzing, MainInv
  <1>34. CASE WorkerRaise BY <1>34, SMT DEF WorkerRaise, MainInv
  <1>35. CASE WorkerCrash BY <1>35, SMT DEF WorkerCrash, MainInv
  <1>36. CASE InteractBegin BY <1>36, SMT DEF InteractBegin, MainInv
  <1>37. CASE LaunchCheck BY <1>37, SMT DEF LaunchCheck, MainInv
  <1>38. CASE Launch BY <1>38, SMT DEF Launch, MainInv
  <1>39. CASE Register BY <1>39, SMT DEF Register, MainInv
  <1>40. CASE Readiness BY <1>40, SMT DEF Readiness, MainInv
  <1>41. CASE Retry BY <1>41, SMT DEF Retry, MainInv
  <1>42. CASE GiveUp BY <1>42, SMT DEF GiveUp, MainInv
  <1>43. CASE InteractEnd BY <1>43, SMT DEF InteractEnd, MainInv
  <1>44. CASE OnTimer BY <1>44, SMT DEF OnTimer, MainInv
  <1>45. CASE Expire BY <1>45, SMT DEF Expire, MainInv
  <1>46. CASE LlmDeadline BY <1>46, SMT DEF LlmDeadline, MainInv
  <1>47. CASE LlmUsage BY <1>47, SMT DEF LlmUsage, RecordLlmUsage, MainInv
  <1>48. CASE UiStops BY <1>48, SMT DEF UiStops, UiEnds, MainInv
  <1>49. CASE UiCrash BY <1>49, SMT DEF UiCrash, UiEnds, MainInv
  <1>50. CASE Sigint BY <1>50, SMT DEF Sigint, MainInv
  <1>51. CASE HandlerTerminate BY <1>51, SMT DEF HandlerTerminate, TerminateActiveSut, MainInv
  <1>52. CASE HandlerRaise BY <1>52, SMT DEF HandlerRaise, MainInv
  <1>53. CASE Exited BY <1>53, SMT DEF Exited, vars, MainInv
  <1>54. ASSUME NEW t \in Threads, StopCall(t) PROVE (SuccessIsEarned /\ NeverUnclassified)'
    BY <1>54, SMT DEF StopCall, ControllerGate, RecordReason, SignalEvent
  <1>55. CASE UNCHANGED vars BY <1>55, SMT DEF vars
  <1> QED BY <1>1, <1>2, <1>3, <1>4, <1>5, <1>6, <1>7, <1>8, <1>9, <1>10,
         <1>11, <1>12, <1>13, <1>14, <1>15, <1>16, <1>17, <1>18, <1>19, <1>20,
         <1>21, <1>22, <1>23, <1>24, <1>25, <1>26, <1>27, <1>28, <1>29, <1>30,
         <1>31, <1>32, <1>33, <1>34, <1>35, <1>36, <1>37, <1>38, <1>39, <1>40,
         <1>41, <1>42, <1>43, <1>44, <1>45, <1>46, <1>47, <1>48, <1>49, <1>50,
         <1>51, <1>52, <1>53, <1>54, <1>55
    DEF Next, FuzzMain, Cleanup, WorkerNext, StateFuzz, Learning, Fuzzing,
        Interaction, HandlerNext

LEMMA OutcomeInit == Init => OutcomeInv
  BY SMT DEF Init, OutcomeInv, RequestInv, WorkerInv, MainInv, VerdictInv, PhaseVerdicts,
         SuccessIsEarned, NeverUnclassified, Settled, ExportOutcome, Finished,
         AfterFinalize, CleanupPcs, FuzzingPcs, Phases

LEMMA OutcomeCorrect == Spec => [](ReasonInv /\ OutcomeInv)
  <1> DEFINE IInv == DataOK /\ PhasesOK /\ ReasonInv /\ PhaseInv /\ OutcomeInv
  <1>1. Init => IInv
    BY TypeInit, ReasonInit, OutcomeInit DEF TypeOK, Init, PhaseInv, PhaseOpenWhileActive
  <1>2. IInv /\ [Next]_vars => IInv'
    BY DataStep, PhasesStep, ReasonStep, PhaseStep, RequestStep, WorkerStep, MainStep,
       VerdictStep, SuccessStep DEF OutcomeInv
  <1> QED BY <1>1, <1>2, PTL DEF Spec

\* However fuzz gets to its finally clause, there is a reason to report or the
\* time is up: run_status.json never reads 'incomplete'.
THEOREM RunIsClassified == Spec => []NeverUnclassified
  <1>1. OutcomeInv => NeverUnclassified BY DEF OutcomeInv
  <1> QED BY <1>1, OutcomeCorrect, PTL

\* Exit code 0 is given only to a run whose worker is through without a failure
\* and fuzzed to the deadline, or exported its model.
THEOREM SuccessIsAlwaysEarned == Spec => []SuccessIsEarned
  <1>1. OutcomeInv => SuccessIsEarned BY DEF OutcomeInv
  <1> QED BY <1>1, OutcomeCorrect, PTL

\* A phase is called 'deadline_reached' only in a run stopped by its deadline,
\* and no phase is called 'stopped'.
THEOREM PhaseVerdictsAreRight == Spec => []PhaseVerdicts
  <1>1. OutcomeInv => PhaseVerdicts BY DEF OutcomeInv, VerdictInv
  <1> QED BY <1>1, OutcomeCorrect, PTL
------------------------------------------------------------------------------
(***************************************************************************)
(* How far the worker is from its end once the event is up.                *)
(***************************************************************************)

\* What its position, its interaction and its stop request still have before them.
PcRank ==
  CASE pc[Worker] = "idle" -> 17 [] pc[Worker] = "begin" -> 16
    [] pc[Worker] = "learn" -> 15 [] pc[Worker] = "learn_llm" -> 14
    [] pc[Worker] = "learn_stopped" -> 13 [] pc[Worker] = "learn_end" -> 12
    [] pc[Worker] = "learn_close" -> 11 [] pc[Worker] = "gate" -> 10
    [] pc[Worker] = "fuzz_stage" -> 9 [] pc[Worker] = "fuzz_begin" -> 8
    [] pc[Worker] = "run" -> 7 [] pc[Worker] = "fuzz" -> 6
    [] pc[Worker] = "fuzz_end" -> 5 [] pc[Worker] = "fuzz_close" -> 4
    [] pc[Worker] = "export" -> 3 [] pc[Worker] = "raise" -> 2
    [] pc[Worker] = "crash" -> 1 [] OTHER -> 0
ItxRank ==
  CASE itx = "starting" -> 5 [] itx = "launching" -> 4 [] itx = "spawned" -> 3
    [] itx = "registered" -> 2 [] itx = "nosock" -> 1 [] itx = "live" -> 1 [] OTHER -> 0
CallRank ==
  CASE call[Worker] = Idle -> 0
    [] call[Worker] # Idle /\ call[Worker].stage = "controller" -> 3
    [] call[Worker] # Idle /\ call[Worker].stage = "reason" -> 2 [] OTHER -> 1
Distance == 4 * (PcRank + ItxRank) + CallRank

LEMMA RankTypes ==
  /\ PcRank \in 0..17 /\ ItxRank \in 0..5 /\ CallRank \in 0..3
  /\ PcRank' \in 0..17 /\ ItxRank' \in 0..5 /\ CallRank' \in 0..3
  <1>1. PcRank \in 0..17 /\ PcRank' \in 0..17 BY DEF PcRank
  <1>2. ItxRank \in 0..5 /\ ItxRank' \in 0..5 BY DEF ItxRank
  <1>3. CallRank \in 0..3 /\ CallRank' \in 0..3 BY DEF CallRank
  <1> QED BY <1>1, <1>2, <1>3

LEMMA RankArithmetic ==
  \A p, q, i, j, c, d \in Nat :
    /\ q < p /\ j = i /\ c = 0 /\ d <= 3 => 4 * (q + j) + d < 4 * (p + i) + c
    /\ q = p /\ j < i /\ c = 0 /\ d <= 3 => 4 * (q + j) + d < 4 * (p + i) + c
    /\ q = p /\ j = i /\ d < c => 4 * (q + j) + d < 4 * (p + i) + c
    /\ q <= p /\ j = i /\ d = c => 4 * (q + j) + d <= 4 * (p + i) + c
  OBVIOUS

LEMMA RanksAreNat ==
  /\ PcRank \in Nat /\ ItxRank \in Nat /\ CallRank \in Nat
  /\ PcRank' \in Nat /\ ItxRank' \in Nat /\ CallRank' \in Nat /\ CallRank' <= 3
  <1>1. /\ CallRank' \in 0..3 => CallRank' \in Nat /\ CallRank' <= 3
        /\ \A n \in 0..17 : n \in Nat
        /\ \A n \in 0..5 : n \in Nat
        /\ \A n \in 0..3 : n \in Nat
    OBVIOUS
  <1> QED BY <1>1, RankTypes

\* A step of state_fuzz takes the worker further, a step of an interaction does, and a
\* step of a request; the first two may begin a request.
LEMMA FurtherByPc ==
  ASSUME PcRank' < PcRank, UNCHANGED itx, call[Worker] = Idle
  PROVE  Distance' < Distance
  <1>1. ItxRank' = ItxRank BY DEF ItxRank
  <1>2. CallRank = 0 BY DEF CallRank, Idle
  <1> QED BY <1>1, <1>2, RanksAreNat, RankArithmetic, Zenon DEF Distance
LEMMA FurtherByItx ==
  ASSUME ItxRank' < ItxRank, UNCHANGED pc, call[Worker] = Idle
  PROVE  Distance' < Distance
  <1>1. PcRank' = PcRank BY DEF PcRank
  <1>2. CallRank = 0 BY DEF CallRank, Idle
  <1> QED BY <1>1, <1>2, RanksAreNat, RankArithmetic, Zenon DEF Distance
LEMMA FurtherByCall ==
  ASSUME CallRank' < CallRank, UNCHANGED <<pc, itx>>
  PROVE  Distance' < Distance
  <1>1. PcRank' = PcRank /\ ItxRank' = ItxRank BY DEF PcRank, ItxRank
  <1> QED BY <1>1, RanksAreNat, RankArithmetic, Zenon DEF Distance
LEMMA NotFurther ==
  ASSUME PcRank' <= PcRank, UNCHANGED itx, call'[Worker] = call[Worker]
  PROVE  Distance' <= Distance
  <1>1. ItxRank' = ItxRank /\ CallRank' = CallRank BY DEF ItxRank, CallRank
  <1> QED BY <1>1, RanksAreNat, RankArithmetic, Zenon DEF Distance

LEMMA WorkerDrains ==
  ASSUME DataOK, stopEvent, WorkerNext
  PROVE  UNCHANGED vars \/ Distance' < Distance
  <1> USE DEF ItxUnchanged, WorkerFrame, NoPhaseChange, sutVars, workVars
  <1>0. pc \in [Threads -> Pcs] BY DEF DataOK
  <1>1. ASSUME NEW from, At(Worker, from), PcRank' < PcRank, UNCHANGED itx
        PROVE  Distance' < Distance
    BY <1>1, FurtherByPc DEF At
  <1>2. CASE BeginLearning
    BY <1>0, <1>1, <1>2 DEF BeginLearning, WorkerAt, At, Goto, PcRank
  <1>3. CASE SkipLearning
    BY <1>0, <1>1, <1>3 DEF SkipLearning, WorkerAt, At, Goto, PcRank
  <1>4. CASE LearnStops
    BY <1>0, <1>1, <1>4 DEF LearnStops, WorkerAt, At, Goto, PcRank
  <1>5. CASE LearnStopped
    BY <1>0, <1>1, <1>5 DEF LearnStopped, WorkerAt, At, Goto, PcRank
  <1>6. CASE LearnIterationEnd
    BY <1>0, <1>1, <1>6 DEF LearnIterationEnd, WorkerAt, At, Goto, PcRank
  <1>7. CASE LearnReturns
    BY <1>0, <1>1, <1>7 DEF LearnReturns, WorkerAt, At, Goto, PcRank
  <1>8. CASE LearnLlmDeadline
    BY <1>0, <1>1, <1>8 DEF LearnLlmDeadline, WorkerAt, At, Goto, PcRank
  <1>9. CASE LearnLlmStopped
    BY <1>0, <1>1, <1>9 DEF LearnLlmStopped, WorkerAt, At, Goto, PcRank
  <1>10. CASE LearnFails
    BY <1>0, <1>1, <1>10 DEF LearnFails, WorkerAt, At, Goto, PcRank
  <1>11. CASE ClassifyLearning
    BY <1>0, <1>1, <1>11 DEF ClassifyLearning, Classify, WorkerAt, At, Goto, PcRank
  <1>12. CASE ClassifyFuzzing
    BY <1>0, <1>1, <1>12 DEF ClassifyFuzzing, Classify, WorkerAt, At, Goto, PcRank
  <1>13. CASE EndLearning
    BY <1>0, <1>1, <1>13 DEF EndLearning, WorkerAt, At, Goto, PcRank
  <1>14. CASE Export
    BY <1>0, <1>1, <1>14 DEF Export, WorkerAt, At, Goto, PcRank
  <1>15. CASE Gate
    BY <1>0, <1>1, <1>15 DEF Gate, WorkerAt, At, Goto, PcRank
  <1>16. CASE FuzzStage
    BY <1>0, <1>1, <1>16 DEF FuzzStage, WorkerAt, At, Goto, PcRank
  <1>17. CASE FuzzBegin
    BY <1>0, <1>1, <1>17 DEF FuzzBegin, WorkerAt, At, Goto, PcRank
  <1>18. CASE FuzzCheck
    BY <1>0, <1>1, <1>18 DEF FuzzCheck, ShouldStop, WorkerAt, At, Goto, PcRank
  <1>19. CASE FuzzRound
    BY <1>0, <1>1, <1>19 DEF FuzzRound, WorkerAt, At, Goto, PcRank
  <1>20. CASE EndFuzzing
    BY <1>0, <1>1, <1>20 DEF EndFuzzing, WorkerAt, At, Goto, PcRank
  <1>21. CASE WorkerRaise
    BY <1>0, <1>1, <1>21 DEF WorkerRaise, WorkerAt, At, Goto, PcRank
  <1>22. CASE WorkerCrash
    BY <1>0, <1>1, <1>22 DEF WorkerCrash, WorkerAt, At, Goto, PcRank
  <1>23. CASE LearnPoll
    BY <1>23, Zenon DEF LearnPoll, AskController, vars
  <1>24. CASE InteractBegin
    BY <1>24, FurtherByItx DEF InteractBegin, Interacting, ItxGoto, ShouldStop, ItxRank
  <1>25. CASE LaunchCheck
    BY <1>25, FurtherByItx DEF LaunchCheck, Interacting, ItxGoto, ShouldStop, ItxRank
  <1>26. CASE Launch
    BY <1>26, FurtherByItx DEF Launch, Interacting, ItxGoto, ShouldStop, ItxRank
  <1>27. CASE Register
    BY <1>27, FurtherByItx DEF Register, Interacting, ItxGoto, ShouldStop, ItxRank
  <1>28. CASE Readiness
    BY <1>28, FurtherByItx DEF Readiness, Interacting, ItxGoto, ShouldStop, ItxRank
  <1>29. CASE Retry
    BY <1>29, FurtherByItx DEF Retry, Interacting, ItxGoto, ShouldStop, ItxRank
  <1>30. CASE GiveUp
    BY <1>30, FurtherByItx DEF GiveUp, Interacting, ItxGoto, ShouldStop, ItxRank
  <1>31. CASE InteractEnd
    BY <1>31, FurtherByItx DEF InteractEnd, Interacting, ItxGoto, ShouldStop, ItxRank
  <1>32. CASE StopCall(Worker)
    <2>0. call \in [Threads -> Calls] /\ Worker \in Threads BY DEF DataOK, Threads
    <2>1. CASE ControllerGate(Worker)
      <3>1. call'[Worker] = Idle BY <2>0, <2>1 DEF ControllerGate
      <3>2. CallRank' = 0 /\ CallRank = 3 BY <2>1, <3>1 DEF ControllerGate, CallRank, Idle
      <3> QED BY <2>1, <3>2, FurtherByCall DEF ControllerGate
    <2>2. CASE RecordReason(Worker)
      <3>1. call'[Worker].stage = "event" BY <2>0, <2>2 DEF RecordReason, Request
      <3>2. CallRank' = 1 /\ CallRank = 2 BY <2>2, <3>1 DEF RecordReason, CallRank, Idle
      <3> QED BY <2>2, <3>2, FurtherByCall DEF RecordReason
    <2>3. CASE SignalEvent(Worker)
      <3>1. call'[Worker] = Idle BY <2>0, <2>3 DEF SignalEvent
      <3>2. CallRank' = 0 /\ CallRank = 1 BY <2>3, <3>1 DEF SignalEvent, CallRank, Idle
      <3> QED BY <2>3, <3>2, FurtherByCall DEF SignalEvent
    <2> QED BY <1>32, <2>1, <2>2, <2>3 DEF StopCall
  <1> QED BY <1>2, <1>3, <1>4, <1>5, <1>6, <1>7, <1>8, <1>9, <1>10, <1>11, <1>12, <1>13, <1>14, <1>15, <1>16, <1>17, <1>18, <1>19, <1>20, <1>21, <1>22, <1>23, <1>24, <1>25, <1>26, <1>27, <1>28, <1>29, <1>30, <1>31, <1>32
    DEF WorkerNext, StateFuzz, Learning, Fuzzing, Interaction

\* The other threads leave the worker where it is, and start it once.
LEMMA OthersLeaveWorker ==
  ASSUME DataOK, PhaseInv, [Next]_vars, ~WorkerNext
  PROVE  PcRank' <= PcRank /\ UNCHANGED itx /\ call'[Worker] = call[Worker]
  <1> USE DEF DataOK, MainFrame, MainAt, At, Goto, Request, Main, Handler, Worker, Timer, Ui, Llm,
          Threads, sutVars, workVars
  <1>0. ASSUME pc'[Worker] = pc[Worker]
        PROVE  PcRank' <= PcRank
    <2>1. PcRank' = PcRank BY <1>0 DEF PcRank
    <2> QED BY <2>1, RanksAreNat
  <1>1. CASE Arm BY <1>0, <1>1 DEF Arm
  <1>2. CASE SpawnWorker
    <2>1. pc[Worker] = "idle" BY <1>2 DEF SpawnWorker, PhaseInv
    <2>2. pc'[Worker] = "begin" BY <1>2 DEF SpawnWorker
    <2>3. PcRank = 17 /\ PcRank' = 16 BY <2>1, <2>2 DEF PcRank
    <2> QED BY <1>2, <2>3 DEF SpawnWorker
  <1>3. CASE SpawnUi BY <1>0, <1>3 DEF SpawnUi
  <1>4. CASE JoinWorker BY <1>0, <1>4 DEF JoinWorker
  <1>5. CASE JoinUi BY <1>0, <1>5 DEF JoinUi
  <1>6. CASE Excepted BY <1>0, <1>6 DEF Excepted
  <1>7. CASE Close BY <1>0, <1>7 DEF Close
  <1>8. CASE Finalize BY <1>0, <1>8 DEF Finalize
  <1>9. CASE CleanupEnter BY <1>0, <1>9 DEF CleanupEnter
  <1>10. CASE CleanupSignal BY <1>0, <1>10 DEF CleanupSignal
  <1>11. CASE CleanupSut BY <1>0, <1>11 DEF CleanupSut
  <1>12. CASE CleanupJoin BY <1>0, <1>12 DEF CleanupJoin
  <1>13. CASE CleanupCollect BY <1>0, <1>13 DEF CleanupCollect
  <1>14. CASE OnTimer BY <1>0, <1>14 DEF OnTimer
  <1>15. CASE LlmDeadline BY <1>0, <1>15 DEF LlmDeadline
  <1>16. CASE LlmUsage BY <1>0, <1>16 DEF LlmUsage, RecordLlmUsage
  <1>17. CASE UiStops BY <1>0, <1>17 DEF UiStops, UiEnds
  <1>18. CASE UiCrash BY <1>0, <1>18 DEF UiCrash, UiEnds
  <1>19. CASE Sigint BY <1>0, <1>19 DEF Sigint
  <1>20. CASE HandlerTerminate BY <1>0, <1>20 DEF HandlerTerminate
  <1>21. CASE HandlerRaise BY <1>0, <1>21 DEF HandlerRaise
  <1>22. CASE Expire BY <1>0, <1>22 DEF Expire
  <1>23. CASE Exited BY <1>0, <1>23 DEF Exited, vars
  <1>24. ASSUME NEW t \in Threads \ {Worker}, StopCall(t)
        PROVE  UNCHANGED <<pc, itx>> /\ call'[Worker] = call[Worker]
    BY <1>24 DEF StopCall, ControllerGate, RecordReason, SignalEvent
  <1>25. CASE UNCHANGED vars BY <1>0, <1>25 DEF vars
  <1> QED BY <1>0, <1>1, <1>2, <1>3, <1>4, <1>5, <1>6, <1>7, <1>8, <1>9, <1>10, <1>11, <1>12, <1>13, <1>14, <1>15, <1>16, <1>17, <1>18, <1>19, <1>20, <1>21, <1>22, <1>23, <1>24, <1>25
    DEF Next, FuzzMain, Cleanup, HandlerNext

LEMMA DistanceIsBounded == Distance \in 0..91 /\ Distance' \in 0..91
  <1>1. \A p \in 0..17, i \in 0..5, c \in 0..3 : 4 * (p + i) + c \in 0..91 OBVIOUS
  <1> QED BY <1>1, RankTypes, Zenon DEF Distance

LEMMA EndOfTheWay ==
  ASSUME DataOK, Distance = 0
  PROVE  Finished(Worker)
  <1>1. \A p \in 0..17, i \in 0..5, c \in 0..3 : 4 * (p + i) + c = 0 => p = 0 /\ c = 0 OBVIOUS
  <1>2. PcRank = 0 /\ CallRank = 0 BY <1>1, RankTypes, Zenon DEF Distance
  <1>3. pc[Worker] = "done" BY <1>2 DEF PcRank, DataOK, WorkerPcs
  <1>4. call[Worker] = Idle BY <1>2 DEF CallRank
  <1> QED BY <1>3, <1>4 DEF Finished

\* What StopDrainsWorker rests on, for every run mode, disturbance and retry limit: once
\* the event is up nothing takes the worker back, each step of its own brings it nearer
\* to its end, it is never more than 91 such steps away, and there it is through.
THEOREM StopBringsTheEnd ==
  Spec => [][stopEvent => /\ Distance \in 0..91 /\ Distance' <= Distance
                          /\ WorkerNext => Distance' < Distance
                          /\ Distance = 0 => Finished(Worker)]_vars
  <1>1. DataOK /\ PhaseInv /\ [Next]_vars =>
          [stopEvent => /\ Distance \in 0..91 /\ Distance' <= Distance
                        /\ WorkerNext => Distance' < Distance
                        /\ Distance = 0 => Finished(Worker)]_vars
    <2> SUFFICES ASSUME DataOK, PhaseInv, [Next]_vars, stopEvent, vars' # vars
                 PROVE  /\ Distance \in 0..91 /\ Distance' <= Distance
                        /\ WorkerNext => Distance' < Distance
                        /\ Distance = 0 => Finished(Worker)
      OBVIOUS
    <2>1. \A m, n \in 0..91 : m < n => m <= n OBVIOUS
    <2>2. Distance = 0 => Finished(Worker) BY EndOfTheWay
    <2>3. CASE WorkerNext BY <2>1, <2>2, <2>3, WorkerDrains, DistanceIsBounded
    <2>4. CASE ~WorkerNext BY <2>2, <2>4, OthersLeaveWorker, NotFurther, DistanceIsBounded
    <2> QED BY <2>3, <2>4
  <1> DEFINE IInv == DataOK /\ PhasesOK /\ PhaseInv
  <1>2. Init => IInv
    BY TypeInit DEF TypeOK, Init, PhaseInv, PhaseOpenWhileActive
  <1>3. IInv /\ [Next]_vars => IInv'
    BY DataStep, PhasesStep, PhaseStep
  <1>4. IInv => DataOK /\ PhaseInv OBVIOUS
  <1> HIDE DEF IInv
  <1> QED BY <1>1, <1>2, <1>3, <1>4, PTL DEF Spec

------------------------------------------------------------------------------
(***************************************************************************)
(* How far the main thread is from the end of the process.                 *)
(***************************************************************************)

\* Cleanup is entered twice, from fuzz and from atexit, and does its work once: what is
\* before the main thread depends on _cleanup_done.  The handler runs on the same thread
\* and sends it elsewhere.
MainRank ==
  (CASE pc[Main] = "arm" -> 15 [] pc[Main] = "spawn_worker" -> 14
     [] pc[Main] = "spawn_ui" -> 13 [] pc[Main] = "join_worker" -> 12
     [] pc[Main] = "join_ui" -> 11 [] pc[Main] = "failed" -> 10
     [] pc[Main] = "interrupted" -> 10 [] pc[Main] = "close" -> 9
     [] pc[Main] = "finalize" -> 8 [] pc[Main] = "cleanup" -> 7
     [] pc[Main] = "cleanup_signal" -> 6 [] pc[Main] = "cleanup_sut" -> 5
     [] pc[Main] = "cleanup_join" -> 4 [] pc[Main] = "cleanup_collect" -> 3
     [] pc[Main] = "atexit" -> 2 [] pc[Main] = "exited" -> 0 [] OTHER -> 1)
  + (IF cleanupDone \/ pc[Main] = "exited" THEN 0 ELSE 10)
HandlerRank ==
  CASE pc[Handler] = "idle" -> 3 [] pc[Handler] = "terminate" -> 2
    [] pc[Handler] = "raise" -> 1 [] OTHER -> 0
RequestRank(c) ==
  CASE c = Idle -> 0 [] c # Idle /\ c.stage = "controller" -> 3
    [] c # Idle /\ c.stage = "reason" -> 2 [] OTHER -> 1
Places == MainRank + HandlerRank
Asked  == RequestRank(call[Main]) + RequestRank(call[Handler])
MainDistance == 4 * Places + Asked

LEMMA RequestRankType == \A c : RequestRank(c) \in 0..3
  BY DEF RequestRank
LEMMA MainRankTypes ==
  /\ MainRank \in 0..25 /\ HandlerRank \in 0..3
  /\ MainRank' \in 0..25 /\ HandlerRank' \in 0..3
  <1>1. MainRank \in 0..25 /\ MainRank' \in 0..25 BY DEF MainRank
  <1>2. HandlerRank \in 0..3 /\ HandlerRank' \in 0..3 BY DEF HandlerRank
  <1> QED BY <1>1, <1>2

LEMMA SumTypes ==
  Places \in 0..28 /\ Places' \in 0..28 /\ Asked \in 0..6 /\ Asked' \in 0..6
  <1>1. \A p \in 0..25, h \in 0..3 : p + h \in 0..28 OBVIOUS
  <1>2. \A a, b \in 0..3 : a + b \in 0..6 OBVIOUS
  <1> QED BY <1>1, <1>2, MainRankTypes, RequestRankType, Zenon DEF Places, Asked
LEMMA MainArithmetic ==
  \A p, q \in 0..28, a, c \in 0..6 :
    /\ q < p /\ c <= a + 2 => 4 * q + c < 4 * p + a
    /\ q = p /\ c < a => 4 * q + c < 4 * p + a
    /\ 4 * p + a \in 0..118
    /\ 4 * p + a = 0 => p = 0
  OBVIOUS
LEMMA AskedRises ==
  \A a, b, c, d \in 0..3 :
    /\ a = 0 /\ c <= 2 /\ d = b => c + d <= (a + b) + 2
    /\ b = 0 /\ d <= 2 /\ c <= a => c + d <= (a + b) + 2
  OBVIOUS
LEMMA AskedFalls ==
  \A a, b, c, d \in 0..3 :
    (c < a /\ d = b) \/ (c = a /\ d < b) => c + d < a + b
  OBVIOUS
LEMMA PlacesFall ==
  \A p, q \in 0..25, h, k \in 0..3 :
    (q < p /\ k <= h) \/ (q <= p /\ k < h) => q + k < p + h
  OBVIOUS

LEMMA MainDistanceIsBounded == MainDistance \in 0..118 /\ MainDistance' \in 0..118
  BY SumTypes, MainArithmetic, Zenon DEF MainDistance

LEMMA MainGoesOn ==
  ASSUME MainRank' < MainRank, HandlerRank' <= HandlerRank, call[Main] = Idle,
         RequestRank(call'[Main]) <= 2, call'[Handler] = call[Handler]
  PROVE  MainDistance' < MainDistance
  <1>1. RequestRank(call[Main]) = 0 BY DEF RequestRank
  <1>2. Places' < Places BY MainRankTypes, PlacesFall, Zenon DEF Places
  <1>3. Asked' <= Asked + 2 BY <1>1, AskedRises, RequestRankType DEF Asked
  <1> QED BY <1>2, <1>3, SumTypes, MainArithmetic, Zenon DEF MainDistance
LEMMA HandlerGoesOn ==
  ASSUME MainRank' <= MainRank, HandlerRank' < HandlerRank, call[Handler] = Idle,
         RequestRank(call'[Handler]) <= 2,
         call'[Main] = call[Main] \/ call'[Main] = Idle
  PROVE  MainDistance' < MainDistance
  <1>1. RequestRank(call[Handler]) = 0 /\ RequestRank(Idle) = 0 BY DEF RequestRank
  <1>2. \A n \in 0..3 : n <= n /\ 0 <= n OBVIOUS
  <1>3. RequestRank(call'[Main]) <= RequestRank(call[Main])
    BY <1>1, <1>2, RequestRankType, Zenon
  <1>4. Places' < Places BY MainRankTypes, PlacesFall, Zenon DEF Places
  <1>5. Asked' <= Asked + 2 BY <1>1, <1>3, AskedRises, RequestRankType DEF Asked
  <1> QED BY <1>4, <1>5, SumTypes, MainArithmetic, Zenon DEF MainDistance

\* A request is answered in at most three steps, whoever makes it.
LEMMA RequestGoesOn ==
  ASSUME DataOK, NEW t \in Threads, StopCall(t)
  PROVE  /\ RequestRank(call'[t]) < RequestRank(call[t])
         /\ \A u \in Threads \ {t} : call'[u] = call[u]
         /\ UNCHANGED <<pc, cleanupDone>>
  <1>0. call \in [Threads -> Calls] BY DEF DataOK
  <1>1. CASE ControllerGate(t)
    <2>1. call'[t] = Idle \/ call'[t].stage = "reason" BY <1>0, <1>1 DEF ControllerGate, Request
    <2>2. RequestRank(call'[t]) <= 2 BY <2>1 DEF RequestRank, Idle
    <2>3. RequestRank(call[t]) = 3 BY <1>1 DEF ControllerGate, RequestRank, Idle
    <2> QED BY <1>0, <1>1, <2>2, <2>3, RequestRankType DEF ControllerGate, Request, runVars
  <1>2. CASE RecordReason(t)
    <2>1. call'[t].stage = "event" BY <1>0, <1>2 DEF RecordReason, Request
    <2>2. RequestRank(call'[t]) = 1 BY <2>1 DEF RequestRank, Idle
    <2>3. RequestRank(call[t]) = 2 BY <1>2 DEF RecordReason, RequestRank, Idle
    <2> QED BY <1>0, <1>2, <2>2, <2>3 DEF RecordReason, Request, runVars
  <1>3. CASE SignalEvent(t)
    <2>1. call'[t] = Idle BY <1>0, <1>3 DEF SignalEvent
    <2>2. RequestRank(call'[t]) = 0 BY <2>1 DEF RequestRank
    <2>3. RequestRank(call[t]) = 1 BY <1>3 DEF SignalEvent, RequestRank, Idle
    <2> QED BY <1>0, <1>3, <2>2, <2>3 DEF SignalEvent, runVars
  <1> QED BY <1>1, <1>2, <1>3 DEF StopCall

LEMMA MainDrains ==
  ASSUME DataOK, MainInv, ReasonInv, FuzzMain \/ StopCall(Main) \/ HandlerNext
  PROVE  MainDistance' < MainDistance
  <1> USE DEF MainFrame, MainAt, MainRuns, HandlerBusy, At, Goto, Main, Handler, Worker, Timer, Ui,
          Llm, Threads
  <1>0. /\ pc \in [Threads -> Pcs] /\ pc[Main] \in MainPcs /\ pc[Handler] \in HandlerPcs
        /\ call \in [Threads -> Calls] /\ RequestRank(Idle) = 0
    BY DEF DataOK, RequestRank
  <1>a. ASSUME MainRank' < MainRank, pc'[Handler] = pc[Handler], call[Main] = Idle, UNCHANGED call
        PROVE  MainDistance' < MainDistance
    <2>1. HandlerRank' = HandlerRank BY <1>a DEF HandlerRank
    <2>2. \A n \in 0..3 : n <= n OBVIOUS
    <2>3. RequestRank(call'[Main]) <= 2 BY <1>0, <1>a
    <2> QED BY <1>a, <2>1, <2>2, <2>3, MainRankTypes, MainGoesOn
  <1>1. CASE Arm
    <2>1. MainRank' < MainRank BY <1>0, <1>1 DEF Arm, MainRank, runVars
    <2> QED BY <1>0, <1>a, <1>1, <2>1 DEF Arm
  <1>2. CASE SpawnWorker
    <2>1. MainRank' < MainRank BY <1>0, <1>2 DEF SpawnWorker, MainRank, runVars
    <2> QED BY <1>0, <1>a, <1>2, <2>1 DEF SpawnWorker
  <1>3. CASE SpawnUi
    <2>1. MainRank' < MainRank BY <1>0, <1>3 DEF SpawnUi, MainRank, runVars
    <2> QED BY <1>0, <1>a, <1>3, <2>1 DEF SpawnUi
  <1>4. CASE JoinWorker
    <2>1. MainRank' < MainRank BY <1>0, <1>4 DEF JoinWorker, MainRank, runVars
    <2> QED BY <1>0, <1>a, <1>4, <2>1 DEF JoinWorker
  <1>5. CASE JoinUi
    <2>1. MainRank' < MainRank BY <1>0, <1>5 DEF JoinUi, MainRank, runVars
    <2> QED BY <1>0, <1>a, <1>5, <2>1 DEF JoinUi
  <1>6. CASE Excepted
    <2>1. MainRank' < MainRank /\ HandlerRank' = HandlerRank
      BY <1>0, <1>6 DEF Excepted, ExceptPcs, MainRank, HandlerRank, runVars
    <2>2. call'[Main].stage = "reason" /\ call'[Handler] = call[Handler]
      BY <1>0, <1>6 DEF Excepted, Request
    <2>3. RequestRank(call'[Main]) = 2 BY <2>2 DEF RequestRank, Idle
    <2>4. HandlerRank' <= HandlerRank /\ RequestRank(call'[Main]) <= 2
      BY <2>1, <2>3, MainRankTypes
    <2>5. call[Main] = Idle BY <1>6 DEF Excepted
    <2> QED BY <2>1, <2>2, <2>4, <2>5, MainGoesOn
  <1>7. CASE Close
    <2>1. MainRank' < MainRank BY <1>0, <1>7 DEF Close, MainRank, runVars
    <2> QED BY <1>0, <1>a, <1>7, <2>1 DEF Close
  <1>8. CASE Finalize
    <2>1. MainRank' < MainRank BY <1>0, <1>8 DEF Finalize, MainRank, runVars
    <2> QED BY <1>0, <1>a, <1>8, <2>1 DEF Finalize
  <1>9. CASE CleanupEnter
    <2>1. MainRank' < MainRank BY <1>0, <1>9 DEF CleanupEnter, MainRank, runVars
    <2> QED BY <1>0, <1>a, <1>9, <2>1 DEF CleanupEnter
  <1>10. CASE CleanupSignal
    <2>1. MainRank' < MainRank BY <1>0, <1>10 DEF CleanupSignal, MainRank, runVars
    <2> QED BY <1>0, <1>a, <1>10, <2>1 DEF CleanupSignal
  <1>11. CASE CleanupSut
    <2>1. MainRank' < MainRank BY <1>0, <1>11 DEF CleanupSut, MainRank, runVars
    <2> QED BY <1>0, <1>a, <1>11, <2>1 DEF CleanupSut
  <1>12. CASE CleanupJoin
    <2>1. MainRank' < MainRank BY <1>0, <1>12 DEF CleanupJoin, MainRank, runVars
    <2> QED BY <1>0, <1>a, <1>12, <2>1 DEF CleanupJoin
  <1>13. CASE CleanupCollect
    <2>1. MainRank' < MainRank BY <1>0, <1>13 DEF CleanupCollect, MainRank, runVars
    <2>2. HandlerRank' <= HandlerRank BY <1>0, <1>13, MainRankTypes DEF CleanupCollect, HandlerRank
    <2>3. UNCHANGED call /\ call[Main] = Idle BY <1>13 DEF CleanupCollect
    <2>4. RequestRank(call'[Main]) <= 2 BY <1>0, <2>3
    <2> QED BY <2>1, <2>2, <2>3, <2>4, MainGoesOn
  <1>14. CASE HandlerTerminate
    <2>1. MainRank' = MainRank BY <1>0, <1>14 DEF HandlerTerminate, MainRank, runVars
    <2>2. HandlerRank' < HandlerRank BY <1>0, <1>14 DEF HandlerTerminate, HandlerRank
    <2>3. UNCHANGED call /\ call[Handler] = Idle BY <1>14 DEF HandlerTerminate
    <2>4. RequestRank(call'[Handler]) <= 2 BY <1>0, <2>3
    <2>5. MainRank' <= MainRank BY <2>1, MainRankTypes
    <2> QED BY <2>2, <2>3, <2>4, <2>5, HandlerGoesOn
  <1>15. CASE HandlerRaise
    <2>1. call[Main] # Idle => pc[Main] = "close" BY DEF MainInv
    <2>2. MainRank' <= MainRank
      BY <1>0, <1>15, <2>1 DEF HandlerRaise, MainRank, runVars, TryPcs, ExceptPcs, Running, MainPcs,
             FinallyPcs, CleanupPcs
    <2>3. HandlerRank' < HandlerRank BY <1>0, <1>15 DEF HandlerRaise, HandlerRank
    <2>4. call'[Main] = Idle /\ call'[Handler] = call[Handler] /\ call[Handler] = Idle
      BY <1>0, <1>15 DEF HandlerRaise
    <2>5. RequestRank(call'[Handler]) <= 2 BY <1>0, <2>4
    <2> QED BY <2>2, <2>3, <2>4, <2>5, HandlerGoesOn
  <1>b. ASSUME UNCHANGED <<pc, cleanupDone>> PROVE MainRank' = MainRank /\ HandlerRank' = HandlerRank
    BY <1>b DEF MainRank, HandlerRank
  <1>16. CASE StopCall(Main)
    <2>1. Places' = Places BY <1>b, <1>16, RequestGoesOn DEF Places
    <2>2. Asked' < Asked BY <1>16, RequestGoesOn, AskedFalls, RequestRankType DEF Asked
    <2> QED BY <2>1, <2>2, SumTypes, MainArithmetic, Zenon DEF MainDistance
  <1>17. CASE StopCall(Handler)
    <2>1. Places' = Places BY <1>b, <1>17, RequestGoesOn DEF Places
    <2>2. Asked' < Asked BY <1>17, RequestGoesOn, AskedFalls, RequestRankType DEF Asked
    <2> QED BY <2>1, <2>2, SumTypes, MainArithmetic, Zenon DEF MainDistance
  <1> QED BY <1>1, <1>2, <1>3, <1>4, <1>5, <1>6, <1>7, <1>8, <1>9, <1>10, <1>11, <1>12, <1>13, <1>14, <1>15, <1>16, <1>17
    DEF FuzzMain, Cleanup, HandlerNext

\* A thread that is not the main one leaves it and its handler alone; Ctrl+C starts the
\* handler, once.
MainUntouched ==
  UNCHANGED <<pc[Main], pc[Handler], call[Main], call[Handler], cleanupDone>>
LEMMA OthersLeaveMain ==
  ASSUME DataOK, ReasonInv, [Next]_vars, ~(FuzzMain \/ StopCall(Main) \/ HandlerNext)
  PROVE  MainDistance' <= MainDistance
  <1> USE DEF MainUntouched, ItxUnchanged, WorkerFrame, NoPhaseChange, WorkerAt, At, Goto, Request, ItxGoto,
          AskController, Interacting, Main, Handler, Worker, Timer, Ui, Llm, Threads, runVars
  <1>0. pc \in [Threads -> Pcs] /\ call \in [Threads -> Calls] BY DEF DataOK
  <1>a. ASSUME MainUntouched PROVE MainDistance' <= MainDistance
    <2>1. MainRank' = MainRank /\ HandlerRank' = HandlerRank
      BY <1>a DEF MainRank, HandlerRank
    <2>2. Places' = Places /\ Asked' = Asked BY <1>a, <2>1 DEF Places, Asked
    <2>3. \A p \in 0..28, a \in 0..6 : 4 * p + a <= 4 * p + a OBVIOUS
    <2> QED BY <2>2, <2>3, SumTypes, Zenon DEF MainDistance
  <1>1. ASSUME BeginLearning PROVE MainUntouched
    BY <1>0, <1>1 DEF BeginLearning
  <1>2. ASSUME SkipLearning PROVE MainUntouched
    BY <1>0, <1>2 DEF SkipLearning
  <1>3. ASSUME LearnPoll PROVE MainUntouched
    BY <1>0, <1>3 DEF LearnPoll
  <1>4. ASSUME LearnStops PROVE MainUntouched
    BY <1>0, <1>4 DEF LearnStops
  <1>5. ASSUME LearnStopped PROVE MainUntouched
    BY <1>0, <1>5 DEF LearnStopped
  <1>6. ASSUME LearnIterationEnd PROVE MainUntouched
    BY <1>0, <1>6 DEF LearnIterationEnd
  <1>7. ASSUME LearnReturns PROVE MainUntouched
    BY <1>0, <1>7 DEF LearnReturns
  <1>8. ASSUME LearnLlmDeadline PROVE MainUntouched
    BY <1>0, <1>8 DEF LearnLlmDeadline
  <1>9. ASSUME LearnLlmStopped PROVE MainUntouched
    BY <1>0, <1>9 DEF LearnLlmStopped
  <1>10. ASSUME LearnFails PROVE MainUntouched
    BY <1>0, <1>10 DEF LearnFails
  <1>11. ASSUME ClassifyLearning PROVE MainUntouched
    BY <1>0, <1>11 DEF ClassifyLearning, Classify
  <1>12. ASSUME ClassifyFuzzing PROVE MainUntouched
    BY <1>0, <1>12 DEF ClassifyFuzzing, Classify
  <1>13. ASSUME EndLearning PROVE MainUntouched
    BY <1>0, <1>13 DEF EndLearning
  <1>14. ASSUME Export PROVE MainUntouched
    BY <1>0, <1>14 DEF Export
  <1>15. ASSUME Gate PROVE MainUntouched
    BY <1>0, <1>15 DEF Gate
  <1>16. ASSUME FuzzStage PROVE MainUntouched
    BY <1>0, <1>16 DEF FuzzStage
  <1>17. ASSUME FuzzBegin PROVE MainUntouched
    BY <1>0, <1>17 DEF FuzzBegin
  <1>18. ASSUME FuzzCheck PROVE MainUntouched
    BY <1>0, <1>18 DEF FuzzCheck
  <1>19. ASSUME FuzzRound PROVE MainUntouched
    BY <1>0, <1>19 DEF FuzzRound
  <1>20. ASSUME EndFuzzing PROVE MainUntouched
    BY <1>0, <1>20 DEF EndFuzzing
  <1>21. ASSUME WorkerRaise PROVE MainUntouched
    BY <1>0, <1>21 DEF WorkerRaise
  <1>22. ASSUME WorkerCrash PROVE MainUntouched
    BY <1>0, <1>22 DEF WorkerCrash
  <1>23. ASSUME InteractBegin PROVE MainUntouched
    BY <1>0, <1>23 DEF InteractBegin
  <1>24. ASSUME LaunchCheck PROVE MainUntouched
    BY <1>0, <1>24 DEF LaunchCheck
  <1>25. ASSUME Launch PROVE MainUntouched
    BY <1>0, <1>25 DEF Launch
  <1>26. ASSUME Register PROVE MainUntouched
    BY <1>0, <1>26 DEF Register
  <1>27. ASSUME Readiness PROVE MainUntouched
    BY <1>0, <1>27 DEF Readiness
  <1>28. ASSUME Retry PROVE MainUntouched
    BY <1>0, <1>28 DEF Retry
  <1>29. ASSUME GiveUp PROVE MainUntouched
    BY <1>0, <1>29 DEF GiveUp
  <1>30. ASSUME InteractEnd PROVE MainUntouched
    BY <1>0, <1>30 DEF InteractEnd
  <1>31. ASSUME OnTimer PROVE MainUntouched
    BY <1>0, <1>31 DEF OnTimer
  <1>32. ASSUME LlmDeadline PROVE MainUntouched
    BY <1>0, <1>32 DEF LlmDeadline
  <1>33. ASSUME LlmUsage PROVE MainUntouched
    BY <1>0, <1>33 DEF LlmUsage, RecordLlmUsage
  <1>34. ASSUME UiStops PROVE MainUntouched
    BY <1>0, <1>34 DEF UiStops, UiEnds
  <1>35. ASSUME UiCrash PROVE MainUntouched
    BY <1>0, <1>35 DEF UiCrash, UiEnds
  <1>36. ASSUME Expire PROVE MainUntouched
    BY <1>0, <1>36 DEF Expire
  <1>37. ASSUME Exited PROVE MainUntouched
    BY <1>0, <1>37 DEF Exited, vars
  <1>38. ASSUME NEW t \in {Worker, Timer, Llm}, StopCall(t) PROVE MainUntouched
    BY <1>0, <1>38, RequestGoesOn
  <1>39. ASSUME UNCHANGED vars PROVE MainUntouched BY <1>39 DEF vars
  <1>40. CASE Sigint
    <2>1. MainRank' = MainRank BY <1>0, <1>40 DEF Sigint, MainRank
    <2>2. HandlerRank' < HandlerRank BY <1>0, <1>40 DEF Sigint, HandlerRank
    <2>3. /\ call[Handler] = Idle /\ call'[Main] = call[Main]
          /\ call'[Handler].stage = "reason"
      BY <1>0, <1>40 DEF Sigint
    <2>4. RequestRank(call'[Handler]) = 2 BY <2>3 DEF RequestRank, Idle
    <2>5. MainRank' <= MainRank /\ RequestRank(call'[Handler]) <= 2 BY <2>1, <2>4, MainRankTypes
    <2>6. MainDistance' < MainDistance BY <2>2, <2>3, <2>5, HandlerGoesOn
    <2> QED BY <2>6, MainDistanceIsBounded
  <1> QED
    BY <1>a, <1>1, <1>2, <1>3, <1>4, <1>5, <1>6, <1>7, <1>8, <1>9, <1>10, <1>11, <1>12,
         <1>13, <1>14, <1>15, <1>16, <1>17, <1>18, <1>19, <1>20, <1>21, <1>22, <1>23,
         <1>24, <1>25, <1>26, <1>27, <1>28, <1>29, <1>30, <1>31, <1>32, <1>33, <1>34,
         <1>35, <1>36, <1>37, <1>38, <1>39, <1>40
    DEF Next, WorkerNext, StateFuzz, Learning, Fuzzing, Interaction

\* What RunEnds rests on, for every run mode, disturbance and retry limit, and wherever
\* Ctrl+C finds the main thread: each step of the main thread or of its handler brings the
\* process nearer to its exit, no other thread takes it back, and the distance is bounded,
\* so neither the except and finally clauses nor cleanup can go round in a circle.
THEOREM MainComesToTheEnd ==
  Spec => [][/\ MainDistance \in 0..118 /\ MainDistance' <= MainDistance
             /\ FuzzMain \/ StopCall(Main) \/ HandlerNext => MainDistance' < MainDistance
             /\ MainDistance = 0 => ~Running]_vars
  <1> DEFINE A == /\ MainDistance \in 0..118 /\ MainDistance' <= MainDistance
                  /\ FuzzMain \/ StopCall(Main) \/ HandlerNext => MainDistance' < MainDistance
                  /\ MainDistance = 0 => ~Running
  <1>1. DataOK /\ ReasonInv /\ MainInv /\ [Next]_vars => [A]_vars
    <2> SUFFICES ASSUME DataOK, ReasonInv, MainInv, [Next]_vars PROVE A OBVIOUS
    <2>1. \A m, n \in 0..118 : m < n => m <= n OBVIOUS
    <2>2. ASSUME MainDistance = 0 PROVE ~Running
      <3>1. Places = 0 BY <2>2, SumTypes, MainArithmetic, Zenon DEF MainDistance
      <3>2. \A p \in 0..25, h \in 0..3 : p + h = 0 => p = 0 OBVIOUS
      <3>3. MainRank = 0 BY <3>1, <3>2, MainRankTypes, Zenon DEF Places
      <3> QED BY <3>3 DEF MainRank, Running
    <2>3. CASE FuzzMain \/ StopCall(Main) \/ HandlerNext
      BY <2>1, <2>2, <2>3, MainDrains, MainDistanceIsBounded
    <2>4. CASE ~(FuzzMain \/ StopCall(Main) \/ HandlerNext)
      BY <2>2, <2>4, OthersLeaveMain, MainDistanceIsBounded
    <2> QED BY <2>3, <2>4
  <1>2. OutcomeInv => MainInv BY DEF OutcomeInv
  <1>3. TypeOK => DataOK BY DEF TypeOK
  <1> HIDE DEF A
  <1>4. Spec => [][A]_vars BY <1>1, <1>2, <1>3, TypeCorrect, OutcomeCorrect, PTL DEF Spec
  <1> QED BY <1>4 DEF A
==============================================================================
