----------------------------- MODULE LearningLoop -----------------------------
(***************************************************************************)
(* Fuzzer.model_learning and the parts of state_fuzz around it: iterations *)
(* that learn a model, the component versions they use and publish, what   *)
(* of both is chosen for fuzzing, and what of it survives the process.     *)
(*                                                                         *)
(* A component version is its number: the code names it id{n}.  A value    *)
(* that may be absent (None, a missing file) is a set of at most one       *)
(* element.  What a table asks is the matter of ObservationTable.          *)
(***************************************************************************)
EXTENDS Naturals, Sequences, FiniteSets, SequencesExt

CONSTANTS
  Types,            (* request types                                        *)
  TryLimit,         (* try_limit                                            *)
  ThresholdLimit,   (* threshold_relearn_limit                              *)
  PartialEnabled,   (* partial_guidance_enabled                             *)
  MaxQuality,       (* bound: response transition types of a model          *)
  MaxVersions,      (* bound: versions of a generator                       *)
  MaxParsers,       (* bound: versions of the parser                        *)
  MaxStarts         (* bound: processes over the same files                 *)

ASSUME TypesAssumption == Types # {} /\ IsFiniteSet(Types)
ASSUME LimitsAssumption ==
  TryLimit \in Nat \ {0} /\ ThresholdLimit \in Nat /\ PartialEnabled \in BOOLEAN
ASSUME BoundsAssumption ==
  /\ MaxQuality \in Nat /\ MaxVersions \in Nat /\ MaxParsers \in Nat
  /\ MaxStarts \in Nat

VARIABLES
  pc,           (* where state_fuzz or model_learning stands                 *)
  generators,   (* mapper.generators, the same lists as producer.generators  *)
  quarantined,  (* mapper._quarantined_components: <<type, version>>         *)
  pool,         (* mapper.message_pool: <<type, version, version that wrote>> *)
  curParser,    (* mapper.cur_parser                                         *)
  loaded,       (* executor._parser_version                                  *)
  used,         (* whose bytes the current oracles saw: <<type, version>>    *)
  models,       (* h_lsit, each with the equipment captured for it           *)
  recorded,     (* qualities of the iterations compared in this process      *)
  tries,        (* try_limit                                                 *)
  thresholds,   (* threshold_relearn_count                                   *)
  guidance,     (* partial_guidance: the fingerprint it was saved with       *)
  outcome,      (* learning_outcome                                          *)
  tableBuilt,   (* ml is bound: a constructor of MealyLstar has returned      *)
  budgetSpent,  (* time.monotonic() >= learning_deadline                     *)
  stop,         (* stop_event with analyzer.stop_reason                      *)
  files,        (* what is on disk                                           *)
  starts        (* processes started                                         *)

mapperVars == <<generators, quarantined, pool>>
parserVars == <<curParser, loaded>>
loopVars == <<models, recorded, tries, thresholds, guidance, outcome, tableBuilt>>
runVars == <<budgetSpent, stop>>
vars == <<pc, mapperVars, parserVars, used, loopVars, runVars, files, starts>>

Ends == {"fuzz", "stopped", "failed"}
Steps == {"boot", "loop", "query", "stopping", "evolve", "retry", "relearn",
          "save", "saveRetried", "learned"} \cup Ends
Outcomes == {"completed", "learning_budget_exceeded", "deadline_partial",
             "partial_after_retry_exhausted", "reused_partial_guidance",
             "complete_h_after_threshold_retries"}

-----------------------------------------------------------------------------
(* Equipment                                                               *)

Versions(t) == Range(generators[t])
Latest(t) == Last(generators[t])

\* select_generator in mode 'new': the newest version not in quarantine, or the
\* first of all.
Usable(t) == {i \in DOMAIN generators[t] : <<t, generators[t][i]>> \notin quarantined}
Selected(t) ==
  IF Usable(t) = {} THEN Head(generators[t])
  ELSE generators[t][CHOOSE i \in Usable(t) : \A j \in Usable(t) : j <= i]

\* capture_current_equipment, and the versions _partial_guidance_fingerprint names.
Equipment == [generators |-> [t \in Types |-> Latest(t)], parser |-> curParser]

Model == Last(models)
EquipmentOf(m) == [generators |-> m.generators, parser |-> m.parser]
Captured(quality) ==
  [quality |-> quality, generators |-> Equipment.generators, parser |-> curParser]

\* New versions of the given types, and the manifest written with them.
Publish(T) ==
  /\ generators' = [t \in Types |->
       IF t \in T THEN Append(generators[t], Len(generators[t])) ELSE generators[t]]
  /\ files' = [files EXCEPT !.generators = generators']
MayPublish(t) == Len(generators[t]) < MaxVersions

\* Mutant of Activate: the version lists stay.
ActivateParserOnly(e) ==
  /\ curParser' = e.parser
  /\ pool' = {}
  /\ UNCHANGED <<generators, quarantined, loaded>>

\* _activate_captured_equipment.  The parser the executor has loaded is untouched.
Activate(e) ==
  /\ generators' = [t \in Types |-> <<e.generators[t]>>]
  /\ pool' = {}
  /\ curParser' = e.parser
  /\ UNCHANGED <<quarantined, loaded>>

\* Mutant of FreshOracles: the oracles are kept.
KeptOracles == UNCHANGED used

\* _next_learning_oracles
FreshOracles == used' = {}

\* model_learning returns; the oracles were its own.
Leave == pc' = "learned" /\ used' = {}

\* request_stop: the first reason stays.
RequestStop(reason) == stop' = IF stop = "none" THEN reason ELSE stop

-----------------------------------------------------------------------------
(* An iteration under way: messages are built, responses are parsed        *)

\* The message version v wrote answers for version g from now on.
Deliver(t, g, v) ==
  /\ pool' = pool \cup {<<t, g, v>>}
  /\ used' = used \cup {<<t, v>>}

Worked(t) == {m[3] : m \in {w \in pool : w[1] = t}}
Cached(t) == {m \in pool : m[1] = t /\ m[2] = Selected(t)}

\* select_generators with cache_mode: a message made before is sent again.
SendCached(t) ==
  /\ pc = "query"
  /\ \E m \in Cached(t) : used' = used \cup {<<t, m[3]>>}
  /\ UNCHANGED <<pc, mapperVars, parserVars, loopVars, runVars, files, starts>>

\* _execute_message_component, where the selected version meets its contract.
GeneratorWorks(t) ==
  /\ pc = "query" /\ Cached(t) = {}
  /\ Deliver(t, Selected(t), Selected(t))
  /\ UNCHANGED <<pc, generators, quarantined, parserVars, loopVars, runVars, files, starts>>

\* The versions a repair of the selected one may return: a new one, or the one it
\* returned when the same version failed before (_runtime_repair_cache).
Repairs(t) ==
  {v \in Versions(t) : <<t, Selected(t)>> \in quarantined /\ v > Selected(t)}
    \cup {v \in {Len(generators[t])} : MayPublish(t)}

PublishRepair(t, v) ==
  IF v \in Versions(t) THEN UNCHANGED <<generators, files>> ELSE Publish({t})

Quarantine(t) == quarantined' = quarantined \cup {<<t, Selected(t)>>}

\* The version fails, is repaired, and the repair answers in its place.
GeneratorRepaired(t) ==
  /\ pc = "query" /\ Cached(t) = {}
  /\ \E v \in Repairs(t) :
       /\ PublishRepair(t, v)
       /\ Deliver(t, Selected(t), v)
  /\ Quarantine(t)
  /\ UNCHANGED <<pc, parserVars, loopVars, runVars, starts>>

\* There is no repair, or it fails too.
NoRepair(t) ==
  \/ UNCHANGED <<generators, files>>
  \/ \E v \in Repairs(t) : PublishRepair(t, v)

\* A version that worked before answers instead (_last_known_good).
GeneratorFallsBack(t) ==
  /\ pc = "query" /\ Cached(t) = {}
  /\ \E v \in Worked(t) \ {Selected(t)} : Deliver(t, Selected(t), v)
  /\ NoRepair(t)
  /\ Quarantine(t)
  /\ UNCHANGED <<pc, parserVars, loopVars, runVars, starts>>

\* Nothing answers; the request is left out of the word.
GeneratorFails(t) ==
  /\ pc = "query" /\ Cached(t) = {}
  /\ NoRepair(t)
  /\ Quarantine(t)
  /\ UNCHANGED <<pc, pool, parserVars, used, loopVars, runVars, starts>>

\* A later parser, new or from the repair cache, replaces the one that failed.
NextParser(p) ==
  /\ p > loaded /\ p < MaxParsers
  /\ files' = IF p = files.parsers THEN [files EXCEPT !.parsers = p + 1] ELSE files
  /\ curParser' = p

\* _update_parser, or a repair that stays loaded: the replay of the failing response
\* worked, or there was nothing to go back to.
ParserReplaced ==
  /\ pc = "query"
  /\ \E p \in 0..files.parsers : NextParser(p) /\ loaded' = p
  /\ UNCHANGED <<pc, mapperVars, used, loopVars, runVars, starts>>

\* _invoke_parser_with_repair: the repair failed its replay, or there is none, and the
\* executor goes back to a parser that worked; the mapper keeps the one it has.
ParserRollsBack ==
  /\ pc = "query"
  /\ \E q \in 0..loaded : q # loaded /\ loaded' = q
  /\ \/ \E p \in 0..files.parsers : NextParser(p)
     \/ UNCHANGED <<files, curParser>>
  /\ UNCHANGED <<pc, mapperVars, used, loopVars, runVars, starts>>

-----------------------------------------------------------------------------
(* The end of an iteration                                                 *)

\* MealyLstar.__init__ returns: table_init has filled the first rows.
BuildTable ==
  /\ pc = "query" /\ ~tableBuilt
  /\ tableBuilt' = TRUE
  /\ UNCHANGED <<pc, mapperVars, parserVars, used, models, recorded, tries, thresholds,
                 guidance, outcome, runVars, files, starts>>

\* The budget ended while the model was completed: it counts if it is the first.
CompletedLate(quality) ==
  /\ pc = "query" /\ tableBuilt /\ budgetSpent
  /\ thresholds' = 0
  /\ models' = IF models = <<>> THEN <<Captured(quality)>> ELSE models
  /\ outcome' = "learning_budget_exceeded"
  /\ Leave
  /\ UNCHANGED <<mapperVars, parserVars, recorded, tries, guidance, tableBuilt, runVars,
                 files, starts>>

Improves(quality) == models # <<>> => quality > Model.quality

\* The first model, or a better one: its equipment is captured and then evolved.
CompletedBetter(quality) ==
  /\ pc = "query" /\ tableBuilt /\ ~budgetSpent /\ Improves(quality)
  /\ thresholds' = 0
  /\ models' = Append(models, Captured(quality))
  /\ recorded' = recorded \cup {quality}
  /\ pc' = "evolve"
  /\ UNCHANGED <<mapperVars, parserVars, used, tries, guidance, tableBuilt, outcome, runVars,
                 files, starts>>

\* _finalize_best_hypothesis begins: the model is pickled.
SaveModel == files' = [files EXCEPT !.model = {Model}]

\* Mutants of CompletedWorse: the newest model is kept instead of the best; a
\* failed improvement costs nothing.
CompletedWorseKept(quality) ==
  /\ pc = "query" /\ tableBuilt /\ ~budgetSpent /\ ~Improves(quality)
  /\ thresholds' = 0
  /\ models' = Append(models, Captured(quality))
  /\ recorded' = recorded \cup {quality}
  /\ tries' = tries - 1
  /\ IF tries = 1 THEN SaveModel /\ UNCHANGED used /\ pc' = "save"
     ELSE FreshOracles /\ UNCHANGED files /\ pc' = "loop"
  /\ UNCHANGED <<mapperVars, parserVars, guidance, outcome, tableBuilt, runVars, starts>>
CompletedWorseFree(quality) ==
  /\ pc = "query" /\ tableBuilt /\ ~budgetSpent /\ ~Improves(quality)
  /\ thresholds' = 0
  /\ recorded' = recorded \cup {quality}
  /\ FreshOracles /\ UNCHANGED files /\ pc' = "loop"
  /\ UNCHANGED <<mapperVars, parserVars, models, tries, guidance, outcome, tableBuilt, runVars,
                 starts>>

\* A model that is not better costs a try; after the last one the best is accepted.
CompletedWorse(quality) ==
  /\ pc = "query" /\ tableBuilt /\ ~budgetSpent /\ ~Improves(quality)
  /\ thresholds' = 0
  /\ recorded' = recorded \cup {quality}
  /\ tries' = tries - 1
  /\ IF tries = 1 THEN SaveModel /\ UNCHANGED used /\ pc' = "save"
     ELSE FreshOracles /\ UNCHANGED files /\ pc' = "loop"
  /\ UNCHANGED <<mapperVars, parserVars, models, guidance, outcome, tableBuilt, runVars,
                 starts>>

\* _save_partial_guidance
SaveGuidance ==
  /\ guidance' = {Equipment}
  /\ files' = [files EXCEPT !.guidance = guidance']

\* ModelLearningThresholdReached
ThresholdReached ==
  /\ pc = "query" /\ tableBuilt /\ PartialEnabled
  /\ SaveGuidance
  /\ thresholds' = thresholds + 1
  /\ pc' = "retry"
  /\ UNCHANGED <<mapperVars, parserVars, used, models, recorded, tries, outcome, tableBuilt,
                 runVars, starts>>

RetriesExhausted ==
  /\ pc = "retry" /\ thresholds > ThresholdLimit
  /\ IF models # <<>>
     THEN SaveModel /\ pc' = "saveRetried" /\ UNCHANGED <<used, outcome>>
     ELSE outcome' = "partial_after_retry_exhausted" /\ Leave /\ UNCHANGED files
  /\ UNCHANGED <<mapperVars, parserVars, models, recorded, tries, thresholds, guidance,
                 tableBuilt, runVars, starts>>

\* Mutant of RetriesLeft: recovery is not bounded.
RetriesLeftAlways ==
  /\ pc = "retry"
  /\ pc' = "relearn"
  /\ UNCHANGED <<mapperVars, parserVars, used, loopVars, runVars, files, starts>>

RetriesLeft ==
  /\ pc = "retry" /\ thresholds <= ThresholdLimit
  /\ pc' = "relearn"
  /\ UNCHANGED <<mapperVars, parserVars, used, loopVars, runVars, files, starts>>

\* _stop_learning: a stop, or a query that got no output three times.
QueryStops ==
  /\ pc = "query"
  /\ RequestStop("model_learning_failure")
  /\ pc' = "stopping"
  /\ UNCHANGED <<mapperVars, parserVars, used, loopVars, budgetSpent, files, starts>>

\* ModelLearningStopped: what a deadline interrupts is kept as guidance, with the table
\* of this iteration or of the one before.
StopHandled ==
  /\ pc = "stopping" /\ (stop = "deadline" => tableBuilt)
  /\ IF stop = "deadline" THEN SaveGuidance /\ outcome' = "deadline_partial"
     ELSE UNCHANGED <<guidance, files, outcome>>
  /\ Leave
  /\ UNCHANGED <<mapperVars, parserVars, models, recorded, tries, thresholds, tableBuilt,
                 runVars, starts>>

\* The constructor of the first MealyLstar, which fills a table, was interrupted: ml has
\* no value, and reading it fails inside the handler.
HandlerFails ==
  /\ pc = "stopping" /\ stop = "deadline" /\ ~tableBuilt
  /\ pc' = "failed" /\ used' = {}
  /\ UNCHANGED <<mapperVars, parserVars, loopVars, runVars, files, starts>>

-----------------------------------------------------------------------------
(* Evolution                                                               *)

\* generator_evo or _evolve_after_learning_threshold: some types get a new version,
\* none if the model explicitly keeps them all.
Evolve(T) ==
  /\ pc \in {"evolve", "relearn"}
  /\ \A t \in T : MayPublish(t)
  /\ Publish(T)
  /\ FreshOracles
  /\ pc' = "loop"
  /\ UNCHANGED <<quarantined, pool, parserVars, loopVars, runVars, starts>>

\* LLMDeadlineExceeded, from an evolution or from inside an iteration.
DeadlineExceeded ==
  /\ pc \in {"query", "evolve", "relearn"}
  /\ RequestStop("deadline")
  /\ Leave
  /\ UNCHANGED <<mapperVars, parserVars, loopVars, budgetSpent, files, starts>>

\* Any other exception; from a threshold handler only state_fuzz sees it.
Fail ==
  /\ pc \in {"query", "evolve", "relearn", "save", "saveRetried"}
  /\ RequestStop(IF pc \in {"relearn", "saveRetried"} THEN "failure"
                 ELSE "model_learning_failure")
  /\ pc' = "failed" /\ used' = {}
  /\ UNCHANGED <<mapperVars, parserVars, loopVars, budgetSpent, files, starts>>

-----------------------------------------------------------------------------
(* The loop and what follows it                                            *)

LoopEnds ==
  /\ pc = "loop" /\ (stop # "none" \/ budgetSpent)
  /\ outcome' = IF stop = "none" THEN "learning_budget_exceeded" ELSE outcome
  /\ Leave
  /\ UNCHANGED <<mapperVars, parserVars, models, recorded, tries, thresholds,
                 guidance, tableBuilt, runVars, files, starts>>

LoopIterates ==
  /\ pc = "loop" /\ stop = "none" /\ ~budgetSpent
  /\ pc' = "query"
  /\ UNCHANGED <<mapperVars, parserVars, used, loopVars, runVars, files, starts>>

\* Mutants of SaveEquipment: the newest versions are saved for the captured ones;
\* the guidance of evolved versions stays.
SaveEquipmentNewest ==
  /\ pc \in {"save", "saveRetried"}
  /\ files' = [files EXCEPT !.equipment = {Equipment}]
  /\ Activate(EquipmentOf(Model))
  /\ IF pc = "saveRetried"
     THEN guidance' = {} /\ outcome' = "complete_h_after_threshold_retries"
     ELSE UNCHANGED <<guidance, outcome>>
  /\ Leave
  /\ UNCHANGED <<models, recorded, tries, thresholds, tableBuilt, runVars, starts>>
SaveEquipmentWithGuidance ==
  /\ pc \in {"save", "saveRetried"}
  /\ files' = [files EXCEPT !.equipment = {EquipmentOf(Model)}]
  /\ Activate(EquipmentOf(Model))
  /\ IF pc = "saveRetried" THEN outcome' = "complete_h_after_threshold_retries"
     ELSE UNCHANGED outcome
  /\ Leave
  /\ UNCHANGED <<models, recorded, tries, thresholds, guidance, tableBuilt, runVars, starts>>

\* save_best_equipment and the rest of _finalize_best_hypothesis.
SaveEquipment ==
  /\ pc \in {"save", "saveRetried"}
  /\ files' = [files EXCEPT !.equipment = {EquipmentOf(Model)}]
  /\ Activate(EquipmentOf(Model))
  /\ IF pc = "saveRetried"
     THEN guidance' = {} /\ outcome' = "complete_h_after_threshold_retries"
     ELSE UNCHANGED <<guidance, outcome>>
  /\ Leave
  /\ UNCHANGED <<models, recorded, tries, thresholds, tableBuilt, runVars, starts>>

\* state_fuzz after learning.
Handover ==
  /\ pc = "learned"
  /\ pc' = IF stop = "none" THEN "fuzz" ELSE "stopped"
  /\ UNCHANGED <<mapperVars, parserVars, used, loopVars, runVars, files, starts>>

-----------------------------------------------------------------------------
(* The beginning of state_fuzz                                             *)

\* A model from an earlier process, with its equipment if that was saved.  Its messages
\* replace the mapper's; only fuzzing reads them then.
LoadModel ==
  /\ pc = "boot" /\ files.model # {}
  /\ \E m \in files.model : models' = <<m>>
  /\ IF files.equipment = {} THEN UNCHANGED <<mapperVars, parserVars>>
     ELSE \E e \in files.equipment : Activate(e)
  /\ pc' = "learned"
  /\ UNCHANGED <<used, recorded, tries, thresholds, guidance, outcome, tableBuilt, runVars,
                 files, starts>>

\* _load_imported_partial_guidance, if it is enabled.
ImportGuidance ==
  /\ pc = "boot" /\ files.model = {} /\ files.guidance = {Equipment}
  /\ guidance' = files.guidance
  /\ outcome' = "reused_partial_guidance"
  /\ pc' = "learned"
  /\ UNCHANGED <<mapperVars, parserVars, used, models, recorded, tries, thresholds,
                 tableBuilt, runVars, files, starts>>

\* model_learning begins: there is no model, and no guidance that may be reused.
StartLearning ==
  /\ pc = "boot" /\ files.model = {}
  /\ pc' = "loop"
  /\ UNCHANGED <<mapperVars, parserVars, used, loopVars, runVars, files, starts>>

-----------------------------------------------------------------------------
(* Time, the user, and the death of the process                            *)

Running == pc \notin Ends

SpendBudget ==
  /\ Running /\ ~budgetSpent
  /\ budgetSpent' = TRUE
  /\ UNCHANGED <<pc, mapperVars, parserVars, used, loopVars, stop, files, starts>>

Interrupt ==
  /\ Running /\ stop = "none"
  /\ \E reason \in {"deadline", "cancelled"} : RequestStop(reason)
  /\ UNCHANGED <<pc, mapperVars, parserVars, used, loopVars, budgetSpent, files, starts>>

Init ==
  /\ files = [generators |-> [t \in Types |-> <<0>>], parsers |-> 1,
              model |-> {}, equipment |-> {}, guidance |-> {}]
  /\ generators = files.generators
  /\ quarantined = {} /\ pool = {} /\ used = {}
  /\ curParser = 0 /\ loaded = 0
  /\ models = <<>> /\ recorded = {} /\ guidance = {}
  /\ tries = TryLimit /\ thresholds = 0 /\ outcome = "completed"
  /\ tableBuilt = FALSE
  /\ budgetSpent = FALSE /\ stop = "none"
  /\ starts = 1
  /\ pc = "boot"

\* The process ends or dies, anywhere, and another one begins: it loads the versions
\* of the manifests and the newest parser.
Restart ==
  /\ starts < MaxStarts
  /\ generators' = files.generators
  /\ quarantined' = {} /\ pool' = {} /\ used' = {}
  /\ curParser' = files.parsers - 1 /\ loaded' = files.parsers - 1
  /\ models' = <<>> /\ recorded' = {} /\ guidance' = {}
  /\ tries' = TryLimit /\ thresholds' = 0 /\ outcome' = "completed"
  /\ tableBuilt' = FALSE
  /\ budgetSpent' = FALSE /\ stop' = "none"
  /\ starts' = starts + 1
  /\ pc' = "boot"
  /\ UNCHANGED files

Query(t) ==
  \/ SendCached(t) \/ GeneratorWorks(t) \/ GeneratorRepaired(t)
  \/ GeneratorFallsBack(t) \/ GeneratorFails(t)

Complete ==
  \E quality \in 0..MaxQuality :
    CompletedLate(quality) \/ CompletedBetter(quality) \/ CompletedWorse(quality)

IterationEnds == BuildTable \/ Complete \/ ThresholdReached \/ QueryStops

Learn ==
  \/ LoadModel \/ ImportGuidance \/ StartLearning
  \/ LoopEnds \/ LoopIterates
  \/ \E t \in Types : Query(t)
  \/ ParserReplaced \/ ParserRollsBack
  \/ IterationEnds \/ StopHandled \/ HandlerFails
  \/ RetriesExhausted \/ RetriesLeft
  \/ \E T \in SUBSET Types : Evolve(T)
  \/ DeadlineExceeded \/ Fail
  \/ SaveEquipment \/ Handover

Next == Learn \/ SpendBudget \/ Interrupt \/ Restart

Spec == Init /\ [][Next]_vars

\* Every step of the worker ends: components run under a time limit, the model client
\* has its deadlines, the executor its timeouts.  That an iteration asks only so many
\* queries is LearningEnds of ObservationTable; where late answers keep make_consistent from
\* getting on, only the deadline ends it, which its loop asks for (mlstar.py:189).
Fairness == WF_vars(Learn) /\ WF_vars(IterationEnds)
FairSpec == Spec /\ Fairness

-----------------------------------------------------------------------------
(* Properties                                                              *)

Models == [quality : Nat, generators : [Types -> Nat], parser : Nat]
Equipments == [generators : [Types -> Nat], parser : Nat]
FilesOnDisk ==
  [generators : [Types -> Seq(Nat) \ {<<>>}], parsers : Nat \ {0},
   model : SUBSET Models, equipment : SUBSET Equipments, guidance : SUBSET Equipments]

ComponentTypes ==
  /\ generators \in [Types -> Seq(Nat) \ {<<>>}]
  /\ quarantined \in SUBSET (Types \X Nat)
  /\ pool \in SUBSET (Types \X Nat \X Nat)
  /\ curParser \in Nat /\ loaded \in Nat
  /\ used \in SUBSET (Types \X Nat)
LoopTypes ==
  /\ models \in Seq(Models)
  /\ recorded \in SUBSET Nat
  /\ guidance \in SUBSET Equipments
  /\ outcome \in Outcomes
CounterTypes == tries \in 0..TryLimit /\ thresholds \in 0..(ThresholdLimit + 1)
RunTypes ==
  /\ budgetSpent \in BOOLEAN /\ tableBuilt \in BOOLEAN
  /\ stop \in {"none", "deadline", "cancelled", "failure", "model_learning_failure"}
TypeOK ==
  /\ pc \in Steps
  /\ ComponentTypes /\ LoopTypes /\ CounterTypes /\ RunTypes
  /\ files \in FilesOnDisk
  /\ starts \in Nat

\* The last entry of h_lsit, which model_learning returns and saves, is the best of
\* all models the iterations of this process were compared by, whatever thresholds,
\* evolutions and repairs lie between them (fuzz.py:1413-1452).
BestIsKept == \A quality \in recorded : models # <<>> /\ quality <= Model.quality

\* The observations of one table come from one version per request type, unless a
\* version broke: evolution never changes the bytes under a table
\* (_create_learning_oracles, fuzz.py:1126).
EvidenceIsUniform ==
  \A p, q \in used : p[1] = q[1] /\ p[2] # q[2] => \E b \in quarantined : b[1] = p[1]

\* A crash, a failure or a stop between the files of _finalize_best_hypothesis never
\* leaves equipment beside a model it did not produce (fuzz.py:1273-1291).
SavedPairMatches ==
  \A e \in files.equipment : \E m \in files.model : e = EquipmentOf(m)

\* A model that was finalized, now or by an earlier process, is fuzzed with the
\* generators that produced it, quarantine or not (fuzz.py:966-980, 1250-1271).
ModelHasItsGenerators ==
  pc = "fuzz" /\ files.equipment # {} =>
    \A t \in Types : Selected(t) = Model.generators[t]

\* Guidance that stands in for a model carries the fingerprint of the components in
\* use, whether it was imported or is what the retries left; and none of the retries
\* is left beside a restored model (fuzz.py:1044-1071, 1504-1516).
GuidanceFits ==
  /\ pc = "fuzz" /\ outcome \in {"partial_after_retry_exhausted", "reused_partial_guidance"}
       => guidance = {Equipment}
  /\ outcome = "complete_h_after_threshold_retries" => guidance = {}

\* The loop ends, by acceptance, retries, budget or failure, however models, thresholds
\* and repairs alternate (fuzz.py:1318-1613).
LearningEnds == pc = "boot" ~> ~Running

\* Partial guidance and the captured equipment of a restored model are not mixed: "Do
\* not mix those fingerprints" (fuzz.py:1511-1513).
GuidanceIsNotMixed ==
  pc = "fuzz" /\ files.equipment # {} => guidance \in {{}, {Equipment}}

\* A deadline that interrupts an iteration does not cost its traces: they "are still
\* safe partial guidance and must not be discarded" (fuzz.py:1584-1586).
DeadlineKeepsTraces ==
  [][pc = "stopping" /\ stop = "deadline" /\ used # {} /\ pc' \in {"learned", "failed"}
       => guidance' # {}]_vars

\* A finalized model is used "together with its exact equipment" (fuzz.py:1280): the
\* executor parses with the parser of the model.
ModelHasItsParser ==
  pc = "fuzz" /\ files.equipment # {} => loaded = Model.parser
=============================================================================
