------------------------- MODULE SpecificationAnalysis -------------------------
(***************************************************************************)
(* AsyncRFCParser.run: a run reads the configured documents, asks the      *)
(* model what their sections are about and which messages there are, and   *)
(* builds the message and state descriptions.  Every result is a file, and *)
(* a later run starts from the files that are there.                       *)
(*                                                                         *)
(* A file is known by the message types it is about.  An answer the parser *)
(* asks for again without counting (the fields, the rules, the possible    *)
(* responses) is a step that changes nothing.                              *)
(***************************************************************************)
EXTENDS Naturals, Sequences, FiniteSets

CONSTANTS
  Rfcs,        (* rfc_name: the documents in their order                     *)
  Leaves,      (* the leaf sections of a document                            *)
  Named,       (* the sets of types the model may name, per side             *)
  Catalog,     (* SMTP_REPLY_CODE_CATALOG                                    *)
  Legacy,      (* request types of the files an older release left           *)
  MaxAttempts, (* ANNOTATION_MAX_ATTEMPTS                                    *)
  MaxRepairs,  (* IR_REPAIR_MAX_ATTEMPTS                                     *)
  MaxRuns      (* bound: runs of the program                                 *)

Names == {Rfcs[i] : i \in DOMAIN Rfcs}
Sides == {"req", "res"}
Types == (UNION (Named["req"] \cup Named["res"])) \cup Catalog \cup Legacy

ASSUME DocumentsAssumption == Rfcs \in Seq(Names) /\ Rfcs # <<>>
ASSUME LimitsAssumption ==
  MaxAttempts \in Nat \ {0} /\ MaxRepairs \in Nat \ {0} /\ MaxRuns \in Nat \ {0}

VARIABLES
  disk,        (* component/ir/<protocol>: the files below                   *)
  cached,      (* component/tree/<protocol>/<name>.pkl: what it is           *)
  pickle,      (* and the SectionTree in it                                  *)
  smtp,        (* pro_name is smtp and there is an "SMTP reply code" field   *)
  run,         (* which run of the program this is                           *)
  stage,       (* what the run is at                                         *)
  step,        (* whether it has begun to ask                                *)
  pos,         (* which document it is at                                    *)
  pending,     (* the tasks that are not done                                *)
  tries,       (* attempt of each task                                       *)
  heard,       (* dependency tasks whose ans_str is bound                    *)
  writing,     (* the file that is open for writing, if there is one         *)
  tree,        (* tree_dict                                                  *)
  held,        (* req_json, res_json, req_type_rules, res_type_rules         *)
  types,       (* req_types, res_types                                       *)
  regenerated  (* history: rules were asked for over an existing req_ir.xml  *)

kept == <<disk, cached, pickle, smtp>>
tasks == <<pos, pending, tries, heard>>
progress == <<stage, step, tasks>>
memory == <<tree, held, types>>
analysisVars == <<kept, run, progress, writing, memory, regenerated>>

FieldFile == [req |-> "req_json", res |-> "res_json"]
RuleFile == [req |-> "req_type_rules", res |-> "res_type_rules"]
SideFile == [fields |-> FieldFile, rules |-> RuleFile]
MessageFiles == {"req_ir", "res_ir"}
Derived == MessageFiles \cup {"poss_res", "state_dependency"}
SideFiles == {FieldFile[s] : s \in Sides} \cup {RuleFile[s] : s \in Sides}
Files == SideFiles \cup Derived
FileStates == {"absent", "torn", "stale", "whole"}

(* A stage that makes a file has the file's name. *)
After ==
  [trees |-> "fields", fields |-> "rules", rules |-> "catalog", catalog |-> "annotate",
   annotate |-> "req_ir", req_ir |-> "res_ir", res_ir |-> "poss_res",
   poss_res |-> "state_dependency", state_dependency |-> "generators"]

-----------------------------------------------------------------------------
(* Helpers                                                                 *)

\* What the model, or the local fallback, makes of a section: "some" stands for
\* request, response and all.
Labels == {"some", "none"}
Trees == [label : [Leaves -> Labels], marked : [Sides -> SUBSET Types],
          related : [Leaves -> [Sides -> SUBSET Types]]]
Unmarked == [s \in Sides |-> {}]
Blank == [label |-> [l \in Leaves |-> "none"], marked |-> Unmarked,
          related |-> [l \in Leaves |-> Unmarked]]
Content(state, of) == [state |-> state, of |-> of]

\* Whether task w of the stage draws on a section that was related to m.
DrawsOn(w, m) ==
  CASE stage = "res_ir" -> m["res"] # {}
    [] stage = "poss_res" -> w \in m["req"] \/ m["res"] # {}
    [] stage = "state_dependency" -> {w[1], w[2]} \cap m["req"] # {}
    [] OTHER -> w \in m["req"]
\* The sections task w is given: those, or else what is about messages at all.
Sections(w) ==
  LET all == Names \X Leaves
      drawn == {x \in all : DrawsOn(w, tree[x[1]].related[x[2]])}
  IN  IF drawn # {} THEN drawn ELSE {x \in all : tree[x[1]].label[x[2]] = "some"}

\* _types_from_rules, or else _types_from_field_values.
TypesOf(s) == IF held[RuleFile[s]] # {} THEN held[RuleFile[s]] ELSE held[FieldFile[s]]

Enter(s) ==
  /\ stage' = s /\ step' = "open" /\ pos' = 1 /\ heard' = {} /\ tries' = <<>>
  /\ pending' = IF s \in DOMAIN SideFile THEN Sides ELSE {}
Fail == Enter("failed") /\ UNCHANGED <<kept, run, writing, memory, regenerated>>
Continue == Enter(After[stage]) /\ UNCHANGED <<kept, run, writing, memory, regenerated>>
Ask(work) ==
  /\ step' = "ask" /\ pending' = work /\ tries' = [w \in work |-> 0] /\ heard' = {}
  /\ UNCHANGED <<stage, pos>>
Done(w) == pending' = pending \ {w} /\ UNCHANGED <<stage, step, pos, tries, heard>>
Tried(w) ==
  tries' = [tries EXCEPT ![w] = @ + 1] /\ UNCHANGED <<stage, step, pos, pending, heard>>
NextDocument ==
  /\ step' = "open" /\ pos' = pos + 1 /\ pending' = {} /\ tries' = <<>> /\ heard' = {}
  /\ UNCHANGED stage
\* open(..., 'w'), until FinishWrite.
Write(f, of) == writing' = {f} /\ disk' = [disk EXCEPT ![f] = Content("torn", of)]
Here == Rfcs[pos]

-----------------------------------------------------------------------------
(* parse_section_trees                                                     *)

\* prepare_section_tree: the cache is there and can be used.
LoadTree ==
  /\ stage = "trees" /\ step = "open" /\ pos <= Len(Rfcs) /\ cached[Here] = "whole"
  /\ tree' = [tree EXCEPT ![Here] = pickle[Here]]
  /\ NextDocument
  /\ UNCHANGED <<kept, run, writing, held, types, regenerated>>

\* It is not, or is damaged.
ParseTree ==
  /\ stage = "trees" /\ step = "open" /\ pos <= Len(Rfcs) /\ cached[Here] # "whole"
  /\ tree' = [tree EXCEPT ![Here] = Blank]
  /\ Ask(Leaves)
  /\ UNCHANGED <<kept, run, writing, held, types, regenerated>>

\* _spe_parse_one: an answer; the last attempt ends in a local fallback.
LabelLeaf(l, label) ==
  /\ stage = "trees" /\ step = "ask" /\ l \in pending
  /\ tree' = [tree EXCEPT ![Here].label[l] = label]
  /\ Done(l)
  /\ UNCHANGED <<kept, run, writing, held, types, regenerated>>

\* Mutant of LabelFails: one attempt too many.
LabelFailsLate(l) ==
  /\ stage = "trees" /\ step = "ask" /\ l \in pending /\ tries[l] + 1 <= MaxAttempts
  /\ Tried(l)
  /\ UNCHANGED <<kept, run, writing, memory, regenerated>>
LabelFails(l) ==
  /\ stage = "trees" /\ step = "ask" /\ l \in pending /\ tries[l] + 1 < MaxAttempts
  /\ Tried(l)
  /\ UNCHANGED <<kept, run, writing, memory, regenerated>>

\* Mutant of SaveTree: the pickle is written in place.
SaveTreeInPlace(r, t) ==
  \E state \in {"whole", "damaged"} :
    cached' = [cached EXCEPT ![r] = state] /\ pickle' = [pickle EXCEPT ![r] = t]
\* save_st: a temporary file, fsync, replace.
SaveTree(r, t) ==
  cached' = [cached EXCEPT ![r] = "whole"] /\ pickle' = [pickle EXCEPT ![r] = t]

TreeParsed ==
  /\ stage = "trees" /\ step = "ask" /\ pending = {}
  /\ SaveTree(Here, tree[Here])
  /\ NextDocument
  /\ UNCHANGED <<disk, smtp, run, writing, memory, regenerated>>

\* _query_prepare for each document: without a section so far that is about a message
\* the program exits.
Barren == \E i \in DOMAIN Rfcs : \A j \in 1..i, l \in Leaves : tree[Rfcs[j]].label[l] = "none"
TreesReady == stage = "trees" /\ step = "open" /\ pos > Len(Rfcs)
PrepareQueries == TreesReady /\ ~Barren /\ Continue
NothingToQuery == TreesReady /\ Barren /\ Fail

-----------------------------------------------------------------------------
(* key_field_extract                                                       *)

SideTask(s) == stage \in DOMAIN SideFile /\ s \in pending
\* A cached file is returned as it is, and so is one that was just written.
LoadSide(s) ==
  LET f == SideFile[stage][s] IN
  /\ SideTask(s) /\ disk[f].state = "whole"
  /\ held' = [held EXCEPT ![f] = disk[f].of]
  /\ Done(s)
  /\ UNCHANGED <<kept, run, writing, tree, types, regenerated>>

\* A file that was cut off is not JSON, and it is read outside the retry loop.  Its task is
\* awaited after the other one, or before it.
AwaitedFirst == [fields |-> "res", rules |-> "req"]
TornSide(s) ==
  /\ SideTask(s) /\ disk[SideFile[stage][s]].state = "torn"
  /\ s = AwaitedFirst[stage] \/ AwaitedFirst[stage] \notin pending
  /\ Fail

\* Mutant of AnswerSide: rules are returned without being saved.
AnswerSideUnsaved(s, answer) ==
  LET f == SideFile[stage][s] IN
  /\ SideTask(s) /\ disk[f].state \in {"absent", "stale"}
  /\ IF stage = "rules"
     THEN held' = [held EXCEPT ![f] = answer] /\ Done(s) /\ UNCHANGED <<disk, writing>>
     ELSE Write(f, answer) /\ UNCHANGED <<progress, held>>
  /\ UNCHANGED <<cached, pickle, smtp, run, tree, types, regenerated>>
\* _req_field, _res_field, _req_type_rules, _res_type_rules: asked until the answer passes
\* its check; rules in the cache that fail it are asked for again.
AnswerSide(s, answer) ==
  LET f == SideFile[stage][s] IN
  /\ SideTask(s) /\ disk[f].state \in {"absent", "stale"}
  /\ Write(f, answer)
  /\ regenerated' = \/ regenerated
                    \/ f = RuleFile["req"] /\ disk["req_ir"].state # "absent"
  /\ UNCHANGED <<cached, pickle, smtp, run, progress, memory>>

SidesReady == stage \in DOMAIN SideFile /\ pending = {} /\ Continue

\* _apply_smtp_response_catalog, and what of it is written back.
NormalizeResponses(f) ==
  /\ stage = "catalog" /\ smtp /\ held[f] # Catalog
  /\ \/ f = FieldFile["res"]
     \/ f = RuleFile["res"] /\ held[FieldFile["res"]] = Catalog
  /\ Write(f, Catalog)
  /\ held' = [held EXCEPT ![f] = Catalog]
  /\ UNCHANGED <<cached, pickle, smtp, run, progress, tree, types, regenerated>>

SettleTypes ==
  /\ stage = "catalog"
  /\ smtp => \A f \in {FieldFile["res"], RuleFile["res"]} : held[f] = Catalog
  /\ types' = [s \in Sides |-> TypesOf(s)]
  /\ Enter(After[stage])
  /\ UNCHANGED <<kept, run, writing, tree, held, regenerated>>

-----------------------------------------------------------------------------
(* _annotate_section_message_types                                         *)

\* Mutant of Current: only the request types are compared.
CurrentRequests(r) == tree[r].marked["req"] = types["req"]
\* _section_type_annotations_current
Current(r) == tree[r].marked = types

KeepAnnotations ==
  /\ stage = "annotate" /\ step = "open" /\ pos <= Len(Rfcs) /\ types # Unmarked
  /\ Current(Here)
  /\ NextDocument
  /\ UNCHANGED <<kept, run, writing, memory, regenerated>>

Annotate ==
  /\ stage = "annotate" /\ step = "open" /\ pos <= Len(Rfcs) /\ types # Unmarked
  /\ ~Current(Here)
  /\ Ask(Leaves)
  /\ UNCHANGED <<kept, run, writing, memory, regenerated>>

\* _annotate_section_message_types_one: a section about nothing is not asked about, an
\* answer names types of this run, and the last attempt ends in none.
RelateLeaf(l, related) ==
  /\ stage = "annotate" /\ step = "ask" /\ l \in pending
  /\ \A s \in Sides : related[s] \subseteq types[s]
  /\ tree[Here].label[l] = "none" => related = Unmarked
  /\ tree' = [tree EXCEPT ![Here].related[l] = related]
  /\ Done(l)
  /\ UNCHANGED <<kept, run, writing, held, types, regenerated>>

\* Mutant of RelateFails: the attempts are counted from none again.
RelateFailsForever(l) ==
  /\ stage = "annotate" /\ step = "ask" /\ l \in pending
  /\ tries' = [tries EXCEPT ![l] = (@ + 1) % MaxAttempts]
  /\ UNCHANGED <<kept, run, stage, step, pos, pending, heard, writing, memory, regenerated>>
RelateFails(l) ==
  /\ stage = "annotate" /\ step = "ask" /\ l \in pending /\ tree[Here].label[l] = "some"
  /\ tries[l] + 1 < MaxAttempts
  /\ Tried(l)
  /\ UNCHANGED <<kept, run, writing, memory, regenerated>>

TreeAnnotated ==
  /\ stage = "annotate" /\ step = "ask" /\ pending = {}
  /\ LET annotated == [tree[Here] EXCEPT !.marked = types] IN
       tree' = [tree EXCEPT ![Here] = annotated] /\ SaveTree(Here, annotated)
  /\ NextDocument
  /\ UNCHANGED <<disk, smtp, run, writing, held, types, regenerated>>

TreesAnnotated ==
  /\ stage = "annotate" /\ step = "open"
  /\ pos > Len(Rfcs) \/ types = Unmarked
  /\ Continue

-----------------------------------------------------------------------------
(* message_model_generation, state_model_generation                        *)

\* What the tasks of a file are.
Work(f) ==
  CASE f = "res_ir" -> {"response message"}
    [] f = "state_dependency" -> types["req"] \X types["req"]
    [] OTHER -> types["req"]

LoadDerived == stage \in Derived /\ step = "open" /\ disk[stage].state = "whole" /\ Continue
TornDerived == stage \in Derived /\ step = "open" /\ disk[stage].state = "torn" /\ Fail
Generate ==
  /\ stage \in Derived /\ step = "open" /\ disk[stage].state = "absent"
  /\ Ask(Work(stage))
  /\ UNCHANGED <<kept, run, writing, memory, regenerated>>

Asked(w) == stage \in Derived /\ step = "ask" /\ w \in pending
Answer(w) == Asked(w) /\ Done(w) /\ UNCHANGED <<kept, run, writing, memory, regenerated>>

\* _msg_model_gen_one: what is not XML is repaired, and after the last repair the message,
\* and with it the run, fails; so does a first request that raises.
RepairMessage(w) ==
  /\ Asked(w) /\ stage \in MessageFiles /\ tries[w] + 1 < MaxRepairs
  /\ Tried(w)
  /\ UNCHANGED <<kept, run, writing, memory, regenerated>>
MessageFails(w) ==
  Asked(w) /\ stage \in MessageFiles /\ tries[w] \in {0, MaxRepairs - 1} /\ Fail

\* _state_dependency_one: an answer that is not JSON is asked for again.  A request that
\* raises is too, once ans_str is bound for the log; an answer without the relation is found
\* after the gather.
GarbledDependency(w) ==
  /\ Asked(w) /\ stage = "state_dependency" /\ w \notin heard
  /\ heard' = heard \cup {w}
  /\ UNCHANGED <<kept, run, stage, step, pos, pending, tries, writing, memory, regenerated>>
DependencyRaises(w) ==
  Asked(w) /\ stage = "state_dependency" /\ w \notin heard /\ Fail
RelationMissing ==
  /\ stage = "state_dependency" /\ step = "ask" /\ pending = {} /\ types["req"] # {}
  /\ Fail

WriteDerived ==
  /\ stage \in Derived /\ step = "ask" /\ pending = {}
  /\ Write(stage, IF stage = "res_ir" THEN {} ELSE types["req"])
  /\ step' = "open"
  /\ UNCHANGED <<cached, pickle, smtp, run, stage, tasks, memory, regenerated>>

FinishWrite(f) ==
  /\ f \in writing
  /\ disk' = [disk EXCEPT ![f].state = "whole"]
  /\ writing' = {}
  /\ UNCHANGED <<cached, pickle, smtp, run, progress, memory, regenerated>>

-----------------------------------------------------------------------------
(* Specification                                                           *)

\* Nothing yet; or what an older release left: rules that fail today's check beside the files
\* they led to, and trees with its annotations or damaged.
LegacyTypes == [s \in Sides |-> IF s = "req" THEN Legacy ELSE {}]
LegacyTree ==
  [label |-> [l \in Leaves |-> "some"], related |-> [l \in Leaves |-> LegacyTypes],
   marked |-> LegacyTypes]
AnalysisInit ==
  /\ \/ disk = [f \in Files |-> Content("absent", {})]
     \/ disk = [f \in Files |->
          IF f \in {RuleFile[s] : s \in Sides} THEN Content("stale", Legacy)
          ELSE IF f \in {"res_json", "res_ir"} THEN Content("whole", {})
          ELSE Content("whole", Legacy)]
  /\ cached \in [Names -> {"absent", "damaged", "whole"}]
  /\ pickle = [r \in Names |-> IF cached[r] = "whole" THEN LegacyTree ELSE Blank]
  /\ smtp \in BOOLEAN
  /\ run = 1 /\ stage = "trees" /\ step = "open" /\ pos = 1
  /\ pending = {} /\ tries = <<>> /\ heard = {} /\ writing = {}
  /\ tree = [r \in Names |-> Blank] /\ types = Unmarked /\ held = [f \in SideFiles |-> {}]
  /\ regenerated = FALSE

\* Wherever the run is, its process ends, and another one is started.
AnalysisRestarts ==
  /\ run < MaxRuns /\ run' = run + 1
  /\ Enter("trees")
  /\ writing' = {}
  /\ tree' = [r \in Names |-> Blank] /\ types' = Unmarked /\ held' = [f \in SideFiles |-> {}]
  /\ UNCHANGED <<kept, regenerated>>

\* What the model may relate a section to.
Related == {[s \in Sides |-> IF s = "req" THEN m[1] ELSE m[2]] :
              m \in (SUBSET types["req"]) \X (SUBSET types["res"])}
AnalysisStep ==
  /\ writing = {}
  /\ \/ LoadTree \/ ParseTree \/ TreeParsed \/ PrepareQueries \/ NothingToQuery
     \/ \E l \in Leaves : \/ \E label \in Labels : LabelLeaf(l, label)
                          \/ LabelFails(l) \/ RelateFails(l)
                          \/ \E related \in Related : RelateLeaf(l, related)
     \/ \E s \in Sides : \/ LoadSide(s) \/ TornSide(s)
                         \/ \E answer \in Named[s] : AnswerSide(s, answer)
     \/ SidesReady \/ \E f \in SideFiles : NormalizeResponses(f)
     \/ SettleTypes \/ KeepAnnotations \/ Annotate \/ TreeAnnotated \/ TreesAnnotated
     \/ LoadDerived \/ TornDerived \/ Generate \/ WriteDerived \/ RelationMissing
     \/ \E w \in pending : \/ Answer(w) \/ RepairMessage(w) \/ MessageFails(w)
                           \/ GarbledDependency(w) \/ DependencyRaises(w)
AnalysisNext == AnalysisStep \/ \E f \in Files : FinishWrite(f)

-----------------------------------------------------------------------------
(* Properties                                                              *)

Stages == DOMAIN After \cup
  {"generators", "parser", "checkers", "observers", "prepared", "failed"}
Limit == IF stage \in Derived THEN MaxRepairs ELSE MaxAttempts
AnalysisTypeOK ==
  /\ disk \in [Files -> [state : FileStates, of : SUBSET Types]]
  /\ cached \in [Names -> {"absent", "damaged", "whole"}]
  /\ pickle \in [Names -> Trees] /\ tree \in [Names -> Trees]
  /\ smtp \in BOOLEAN /\ regenerated \in BOOLEAN
  /\ run \in 1..MaxRuns /\ stage \in Stages /\ step \in {"open", "ask"}
  /\ pos \in 1..Len(Rfcs) + 1
  /\ held \in [SideFiles -> SUBSET Types] /\ types \in [Sides -> SUBSET Types]
  /\ pending \subseteq (IF step = "ask" THEN DOMAIN tries ELSE Sides)
  /\ stage \in DOMAIN After => \A w \in DOMAIN tries : tries[w] \in 0..Limit - 1

\* What a task is given was related to the types of this run, also when the trees are an
\* earlier run's and the types are new (rfc_parser.py:839-856, 988-1031, 1249-1307,
\* 1462-1484).  A run that found no types leaves the trees as they are.
EvidenceIsCurrent ==
  stage \in Derived /\ step = "ask" /\ types # Unmarked =>
    \A w \in pending : \A x \in Sections(w) :
      /\ tree[x[1]].marked = types
      /\ \A s \in Sides : tree[x[1]].related[x[2]][s] \subseteq types[s]

\* The descriptions a run goes on with are about the types it works with, whichever of its
\* files were there and wherever earlier runs ended, unless the rules had to be asked for
\* over a description that was there (rfc_parser.py:738-792, 1101-1223).
DescriptionsMatch ==
  stage \in Derived \cup {"generators"} /\ ~regenerated =>
    \A f \in Derived \ {"res_ir"} : disk[f].state # "absent" => disk[f].of = types["req"]

\* A tree that was saved stays: no run that ends on the way leaves it damaged or takes its
\* sections' classification back (save_st, "Atomically persist a SectionTree to avoid
\* truncated caches", rfc_parser.py:1558-1577).
TreesSurvive ==
  [][\A r \in Names : cached[r] = "whole" =>
       cached'[r] = "whole" /\ pickle'[r].label = pickle[r].label]_analysisVars
=============================================================================
