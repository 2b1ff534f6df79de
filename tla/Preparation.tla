------------------------------ MODULE Preparation ------------------------------
(***************************************************************************)
(* Fuzzer.module_init: the documents are analysed (SpecificationAnalysis), *)
(* then AsyncProducer.run loads or makes the first generators, the parser, *)
(* and the checkers and observers that are prepared before the run.        *)
(*                                                                         *)
(* A component is known by its type.  Sources are written one by one, and  *)
(* an index (generator_info.json and its like) says which there are.       *)
(***************************************************************************)
EXTENDS SpecificationAnalysis

CONSTANTS
  Prewarm,     (* _initial_response_component_types                          *)
  MaxRetries   (* generation_retry_limit                                     *)

ASSUME PreparationAssumption == MaxRetries \in Nat \ {0}

VARIABLES
  index,       (* the index files                                            *)
  sources,     (* types of the generator sources that are complete           *)
  generators,  (* generators of this run                                     *)
  offered,     (* req_types as the mapper and the scheduler get them         *)
  parsers,     (* whether there is a parser                                  *)
  components   (* types of the checkers and of the observers of this run     *)

equipment == <<generators, offered, parsers, components>>
vars == <<analysisVars, index, sources, equipment>>

Kinds == {"checkers", "observers"}
Indexes == {"generators", "parser"} \cup Kinds
Following == [generators |-> "parser", parser |-> "checkers", checkers |-> "observers",
              observers |-> "prepared"]
NoComponents == [k \in Kinds |-> {}]

-----------------------------------------------------------------------------
(* Helpers                                                                 *)

Unchanged == UNCHANGED <<kept, run, memory, regenerated>>
\* The index of the stage is opened with 'w', until FinishIndex.
WriteIndex(of) ==
  /\ index' = [index EXCEPT ![stage] = Content("torn", of)]
  /\ writing' = {stage}
Proceed == Enter(Following[stage]) /\ UNCHANGED <<index, writing>>
GiveUp == Enter("failed") /\ UNCHANGED <<index, writing, sources, equipment>> /\ Unchanged
Found(state) == step = "open" /\ index[stage].state = state

-----------------------------------------------------------------------------
(* Generators                                                              *)

\* generators_info_load, _filter_invalid_cached_generators: of a type without a valid
\* version the latest is kept for repair.
LoadGenerators ==
  /\ stage = "generators" /\ Found("whole")
  /\ generators' = index["generators"].of /\ offered' = types["req"]
  /\ Proceed
  /\ UNCHANGED <<sources, parsers, components>> /\ Unchanged

\* An index that cannot be read ends the program.
TornGenerators == stage = "generators" /\ Found("torn") /\ GiveUp

\* _generator_gen_async: a task for every message described.
GenerateGenerators ==
  /\ stage = "generators" /\ Found("absent")
  /\ Ask(disk["req_ir"].of)
  /\ UNCHANGED <<index, sources, writing, equipment>> /\ Unchanged

\* _save_initial_generator: written and registered as soon as it is valid.
GeneratorMade(t) ==
  /\ stage = "generators" /\ step = "ask" /\ t \in pending
  /\ sources' = sources \cup {t} /\ generators' = generators \cup {t}
  /\ Done(t)
  /\ UNCHANGED <<index, writing, offered, parsers, components>> /\ Unchanged

\* Another attempt, or the type goes without a generator.
GeneratorFails(t) ==
  /\ stage = "generators" /\ step = "ask" /\ t \in pending
  /\ IF tries[t] + 1 < MaxRetries THEN Tried(t) ELSE Done(t)
  /\ UNCHANGED <<index, sources, writing, equipment>> /\ Unchanged

\* Mutant of Listed: the index lists every message described.
ListedMessages == disk["req_ir"].of
\* generator_info
Listed == generators

\* generator_gen: _restrict_to_available_generators, then the index.
GeneratorsMade ==
  /\ stage = "generators" /\ step = "ask" /\ pending = {} /\ generators # {}
  /\ offered' = generators
  /\ WriteIndex(Listed)
  /\ UNCHANGED <<progress, sources, generators, parsers, components>> /\ Unchanged
NoGenerators ==
  stage = "generators" /\ step = "ask" /\ pending = {} /\ generators = {} /\ GiveUp

-----------------------------------------------------------------------------
(* Parser                                                                  *)

\* The cached parser reads the primary field, and passes validation again.
LoadParser ==
  /\ stage = "parser" /\ Found("whole")
  /\ parsers' = TRUE
  /\ Proceed
  /\ UNCHANGED <<sources, generators, offered, components>> /\ Unchanged

\* An index that cannot be read is logged.
TornParser ==
  /\ stage = "parser" /\ Found("torn")
  /\ Proceed
  /\ UNCHANGED <<sources, equipment>> /\ Unchanged

\* There is none, or it is not valid.
GenerateParser ==
  /\ stage = "parser" /\ step = "open" /\ index["parser"].state \in {"absent", "whole"}
  /\ Ask({"__all__"})
  /\ UNCHANGED <<index, sources, writing, equipment>> /\ Unchanged

ParserFails ==
  /\ stage = "parser" /\ step = "ask" /\ tries["__all__"] + 1 < MaxRetries
  /\ Tried("__all__")
  /\ UNCHANGED <<index, sources, writing, equipment>> /\ Unchanged

\* parser_gen: the last failure ends the program; when it was to replace a cached parser,
\* it is logged like an index that cannot be read.
ParserFailed ==
  /\ stage = "parser" /\ step = "ask" /\ tries["__all__"] + 1 = MaxRetries
  /\ index["parser"].state = "absent" /\ GiveUp
ParserNotReplaced ==
  /\ stage = "parser" /\ step = "ask" /\ tries["__all__"] + 1 = MaxRetries
  /\ index["parser"].state = "whole"
  /\ Proceed
  /\ UNCHANGED <<sources, equipment>> /\ Unchanged

ParserMade ==
  /\ stage = "parser" /\ step = "ask"
  /\ parsers' = TRUE
  /\ WriteIndex({})
  /\ UNCHANGED <<progress, sources, generators, offered, components>> /\ Unchanged

-----------------------------------------------------------------------------
(* Checkers and observers                                                  *)

\* _load_checkers, _load_observers: what the index lists and is still current is kept; the
\* rest of what is prepared is missing.
LoadComponents(current) ==
  /\ stage \in Kinds /\ Found("whole") /\ current \subseteq index[stage].of
  /\ components' = [components EXCEPT ![stage] = current]
  /\ IF Prewarm \subseteq current THEN Proceed
     ELSE Ask(Prewarm \ current) /\ UNCHANGED <<index, writing>>
  /\ UNCHANGED <<sources, generators, offered, parsers>> /\ Unchanged

\* Without checkers the run goes on; observers are made again.
TornCheckers ==
  /\ stage = "checkers" /\ Found("torn")
  /\ Proceed
  /\ UNCHANGED <<sources, equipment>> /\ Unchanged
GenerateComponents ==
  /\ stage \in Kinds
  /\ Found("absent") \/ (stage = "observers" /\ Found("torn"))
  /\ Ask(Prewarm)
  /\ UNCHANGED <<index, sources, writing, equipment>> /\ Unchanged

ComponentMade(t) ==
  /\ stage \in Kinds /\ step = "ask" /\ t \in pending
  /\ components' = [components EXCEPT ![stage] = @ \cup {t}]
  /\ Done(t)
  /\ UNCHANGED <<index, sources, writing, generators, offered, parsers>> /\ Unchanged
\* Its attempts are used up.
ComponentFails(t) ==
  /\ stage \in Kinds /\ step = "ask" /\ t \in pending
  /\ Done(t)
  /\ UNCHANGED <<index, sources, writing, equipment>> /\ Unchanged
ComponentsMade ==
  /\ stage \in Kinds /\ step = "ask" /\ pending = {}
  /\ WriteIndex(components[stage])
  /\ UNCHANGED <<progress, sources, equipment>> /\ Unchanged

FinishIndex(f) ==
  /\ f \in writing /\ stage = f
  /\ index' = [index EXCEPT ![f].state = "whole"]
  /\ writing' = {}
  /\ Enter(Following[f])
  /\ UNCHANGED <<sources, equipment>> /\ Unchanged

-----------------------------------------------------------------------------
(* Specification                                                           *)

Init ==
  /\ AnalysisInit
  /\ index = [f \in Indexes |-> Content("absent", {})]
  /\ sources = {} /\ generators = {} /\ offered = {} /\ parsers = FALSE
  /\ components = NoComponents

ProducerStep ==
  /\ writing = {}
  /\ \/ LoadGenerators \/ TornGenerators \/ GenerateGenerators
     \/ GeneratorsMade \/ NoGenerators
     \/ \E t \in pending : \/ GeneratorMade(t) \/ GeneratorFails(t)
                           \/ ComponentMade(t) \/ ComponentFails(t)
     \/ LoadParser \/ TornParser \/ GenerateParser
     \/ ParserFails \/ ParserFailed \/ ParserNotReplaced \/ ParserMade
     \/ \E current \in SUBSET Prewarm : LoadComponents(current)
     \/ TornCheckers \/ GenerateComponents \/ ComponentsMade
Works ==
  \/ AnalysisNext /\ UNCHANGED <<index, sources, equipment>>
  \/ ProducerStep
  \/ \E f \in Indexes : FinishIndex(f)

Restart ==
  /\ AnalysisRestarts
  /\ generators' = {} /\ offered' = {} /\ parsers' = FALSE /\ components' = NoComponents
  /\ UNCHANGED <<index, sources>>

Next == Works \/ Restart
Spec == Init /\ [][Next]_vars

\* The process runs as long as it can, and the model in the end answers what it is asked
\* again and again; no run has to be interrupted.
FairSpec == Spec /\ WF_vars(Works)

-----------------------------------------------------------------------------
(* Properties                                                              *)

TypeOK ==
  /\ AnalysisTypeOK
  /\ index \in [Indexes -> [state : FileStates, of : SUBSET (Types \cup Prewarm)]]
  /\ sources \subseteq Types /\ generators \subseteq Types /\ offered \subseteq Types
  /\ parsers \in BOOLEAN /\ components \in [Kinds -> SUBSET Prewarm]
  /\ writing \subseteq Files \cup Indexes
  /\ stage \in Indexes => \A t \in DOMAIN tries : tries[t] \in 0..MaxRetries - 1

\* Wherever a run ends, a generator the index lists has its source, so that a later run has
\* one for every type it loads (synthesizer.py:836-853, 882-911, 678-710).
ListedHasSource ==
  /\ index["generators"].of \subseteq sources
  /\ generators \subseteq sources

\* Every run that is left to itself is ready or has failed (fuzz.py:520-560).
PreparationEnds == <>[](stage \in {"prepared", "failed"})
=============================================================================
