--------------------------- MODULE PreparationProofs ---------------------------
(***************************************************************************)
(* Proofs about Preparation, with SpecificationAnalysis, for all documents,*)
(* sections, answers of the model, leftovers of an older release, and any  *)
(* number of runs that end anywhere.                                       *)
(*                                                                         *)
(* A tree that this run has read or parsed is the one on disk, up to its   *)
(* annotations (SurviveInv).  A description on disk is about the types the *)
(* rules on disk yield, or the rules were asked for again; and what a run  *)
(* holds of the rules is what is on disk (DescribeInv).                    *)
(***************************************************************************)
EXTENDS Preparation, FiniteSetTheorems, TLAPS

KeptTypes ==
  /\ disk \in [Files -> [state : FileStates, of : SUBSET Types]]
  /\ cached \in [Names -> {"absent", "damaged", "whole"}]
  /\ pickle \in [Names -> Trees]
  /\ smtp \in BOOLEAN
MemoryTypes ==
  /\ tree \in [Names -> Trees]
  /\ held \in [SideFiles -> SUBSET Types] /\ types \in [Sides -> SUBSET Types]
  /\ regenerated \in BOOLEAN
ProgressTypes ==
  /\ run \in 1..MaxRuns /\ stage \in Stages /\ step \in {"open", "ask"}
  /\ pos \in 1..Len(Rfcs) + 1
  /\ pending \subseteq (IF step = "ask" THEN DOMAIN tries ELSE Sides)
  /\ stage \in DOMAIN After => \A w \in DOMAIN tries : tries[w] \in 0..Limit - 1
  /\ stage \in Indexes => \A w \in DOMAIN tries : tries[w] \in 0..MaxRetries - 1
  /\ stage \in {"trees", "annotate"} /\ step = "ask" => pos <= Len(Rfcs)
ProducerTypes ==
  /\ index \in [Indexes -> [state : FileStates, of : SUBSET (Types \cup Prewarm)]]
  /\ sources \subseteq Types /\ offered \subseteq Types
  /\ parsers \in BOOLEAN /\ components \in [Kinds -> SUBSET Prewarm]
  /\ writing \subseteq Files \cup Indexes
  /\ stage = "generators" /\ step = "ask" => pending \subseteq Types
  /\ stage \in Kinds /\ step = "ask" => pending \subseteq Prewarm

\* What was read or parsed in this run is on disk with the same classification.
Saved(r) == cached[r] = "whole" /\ pickle[r].label = tree[r].label
SurviveInv ==
  /\ stage = "trees" => \A j \in 1..Len(Rfcs) : j < pos => Saved(Rfcs[j])
  /\ stage = "trees" /\ step = "ask" => cached[Here] # "whole"
  /\ stage \in {"fields", "rules", "catalog", "annotate"} => \A r \in Names : Saved(r)

\* The types the files on disk yield.
DiskTypes ==
  IF disk["req_type_rules"].of # {} THEN disk["req_type_rules"].of ELSE disk["req_json"].of
Present(f) == disk[f].state # "absent"
Grounded == disk["req_json"].state = "whole" /\ disk["req_type_rules"].state = "whole"
DescribeInv ==
  /\ disk["req_json"].state # "stale"
  /\ \A f \in Derived : Present(f) =>
       Present("req_ir") /\ Present("req_json") /\ Present("req_type_rules")
  /\ ~regenerated =>
       \A f \in Derived \ {"res_ir"} : Present(f) => disk[f].of = DiskTypes
  /\ \A f \in writing \cap Files : disk[f].state = "torn"
  /\ stage \in Derived \ {"req_ir"} => Present("req_ir")
HoldInv ==
  /\ (stage = "fields" /\ "req" \notin pending) \/ stage \in {"rules", "catalog"} =>
       disk["req_json"].state = "whole" /\ held["req_json"] = disk["req_json"].of
  /\ (stage = "rules" /\ "req" \notin pending) \/ stage = "catalog" =>
       /\ disk["req_type_rules"].state = "whole"
       /\ held["req_type_rules"] = disk["req_type_rules"].of
  /\ stage \in {"annotate", "generators"} \cup Derived => Grounded /\ types["req"] = DiskTypes

IInv ==
  /\ KeptTypes /\ MemoryTypes /\ ProgressTypes /\ ProducerTypes /\ ListedHasSource
  /\ SurviveInv /\ DescribeInv /\ HoldInv

-----------------------------------------------------------------------------
(* The names of files and stages                                           *)

LEMMA FileNames ==
  /\ DOMAIN SideFile = {"fields", "rules"} /\ Sides = {"req", "res"}
  /\ SideFile["fields"]["req"] = "req_json" /\ SideFile["fields"]["res"] = "res_json"
  /\ SideFile["rules"]["req"] = "req_type_rules" /\ SideFile["rules"]["res"] = "res_type_rules"
  /\ FieldFile["req"] = "req_json" /\ FieldFile["res"] = "res_json"
  /\ RuleFile["req"] = "req_type_rules" /\ RuleFile["res"] = "res_type_rules"
  /\ SideFiles = {"req_json", "res_json", "req_type_rules", "res_type_rules"}
  /\ Derived = {"req_ir", "res_ir", "poss_res", "state_dependency"}
  /\ Files = SideFiles \cup Derived
BY DEF SideFile, FieldFile, RuleFile, Sides, SideFiles, Derived, MessageFiles, Files

LEMMA StageNames ==
  /\ DOMAIN After = {"trees", "fields", "rules", "catalog", "annotate", "req_ir", "res_ir",
                     "poss_res", "state_dependency"}
  /\ After["trees"] = "fields" /\ After["fields"] = "rules" /\ After["rules"] = "catalog"
  /\ After["catalog"] = "annotate" /\ After["annotate"] = "req_ir"
  /\ After["req_ir"] = "res_ir" /\ After["res_ir"] = "poss_res"
  /\ After["poss_res"] = "state_dependency" /\ After["state_dependency"] = "generators"
  /\ Indexes = {"generators", "parser", "checkers", "observers"}
  /\ Kinds = {"checkers", "observers"}
  /\ DOMAIN Following = Indexes
  /\ Following["generators"] = "parser" /\ Following["parser"] = "checkers"
  /\ Following["checkers"] = "observers" /\ Following["observers"] = "prepared"
  /\ Stages = DOMAIN After \cup {"generators", "parser", "checkers", "observers", "prepared",
                                 "failed"}
BY DEF After, Indexes, Kinds, Following, Stages

-----------------------------------------------------------------------------
(* How a run moves on                                                      *)

LEMMA EnterType ==
  ASSUME NEW s \in Stages, Enter(s), run' \in 1..MaxRuns
  PROVE  ProgressTypes'
<1>1. Len(Rfcs) \in Nat BY DocumentsAssumption
<1>2. DOMAIN <<>> = {} OBVIOUS
<1>3. pending' \subseteq Sides BY DEF Enter
<1> QED BY <1>1, <1>2, <1>3 DEF Enter, ProgressTypes

LEMMA AskType ==
  ASSUME ProgressTypes, NEW work, Ask(work), run' = run,
         stage \in {"trees", "annotate"} => pos <= Len(Rfcs)
  PROVE  ProgressTypes'
<1>1. /\ stage' = stage /\ step' = "ask" /\ pos' = pos /\ pending' = work
      /\ DOMAIN tries' = work /\ \A w \in work : tries'[w] = 0
  BY DEF Ask
<1>2. 0 \in 0..MaxRepairs - 1 /\ 0 \in 0..MaxAttempts - 1 /\ 0 \in 0..MaxRetries - 1
  BY LimitsAssumption, PreparationAssumption
<1>3. Limit' = Limit /\ Limit \in {MaxRepairs, MaxAttempts} BY <1>1 DEF Limit
<1> QED BY <1>1, <1>2, <1>3 DEF ProgressTypes

LEMMA DoneType ==
  ASSUME ProgressTypes, NEW w, Done(w), run' = run
  PROVE  ProgressTypes'
<1>1. pending' \subseteq pending /\ UNCHANGED <<stage, step, pos, tries>> BY DEF Done
<1>2. Limit' = Limit BY <1>1 DEF Limit
<1> QED BY <1>1, <1>2 DEF ProgressTypes

LEMMA TriedType ==
  ASSUME ProgressTypes, NEW w \in pending, step = "ask", Tried(w), run' = run,
         stage \in DOMAIN After => tries[w] + 1 < Limit,
         stage \in Indexes => tries[w] + 1 < MaxRetries
  PROVE  ProgressTypes'
<1>1. UNCHANGED <<stage, step, pos, pending>> /\ w \in DOMAIN tries
      /\ tries' = [tries EXCEPT ![w] = @ + 1]
  BY DEF Tried, ProgressTypes
<1>2. Limit' = Limit /\ Limit \in Nat /\ MaxRetries \in Nat
  BY <1>1, LimitsAssumption, PreparationAssumption DEF Limit
<1>3. DOMAIN tries' = DOMAIN tries /\ tries'[w] = tries[w] + 1
      /\ \A v \in DOMAIN tries : v # w => tries'[v] = tries[v]
  BY <1>1
<1>4. stage \in DOMAIN After => \A v \in DOMAIN tries' : tries'[v] \in 0..Limit - 1
  <2> SUFFICES ASSUME stage \in DOMAIN After, NEW v \in DOMAIN tries
               PROVE  tries'[v] \in 0..Limit - 1
    BY <1>3
  <2>1. tries[v] \in 0..Limit - 1 /\ tries[w] \in 0..Limit - 1 BY <1>1 DEF ProgressTypes
  <2> QED BY <1>2, <1>3, <2>1
<1>5. stage \in Indexes => \A v \in DOMAIN tries' : tries'[v] \in 0..MaxRetries - 1
  <2> SUFFICES ASSUME stage \in Indexes, NEW v \in DOMAIN tries
               PROVE  tries'[v] \in 0..MaxRetries - 1
    BY <1>3
  <2>1. tries[v] \in 0..MaxRetries - 1 /\ tries[w] \in 0..MaxRetries - 1
    BY <1>1 DEF ProgressTypes
  <2> QED BY <1>2, <1>3, <2>1
<1> QED BY <1>1, <1>2, <1>3, <1>4, <1>5 DEF ProgressTypes

LEMMA NextDocumentType ==
  ASSUME ProgressTypes, NextDocument, pos <= Len(Rfcs), stage \notin DOMAIN SideFile, run' = run
  PROVE  ProgressTypes'
<1>1. /\ stage' = stage /\ step' = "open" /\ pos' = pos + 1 /\ pending' = {} /\ tries' = <<>>
  BY DEF NextDocument
<1>2. Len(Rfcs) \in Nat /\ pos' \in 1..Len(Rfcs) + 1
  BY <1>1, DocumentsAssumption DEF ProgressTypes
<1>3. DOMAIN <<>> = {} OBVIOUS
<1> QED BY <1>1, <1>2, <1>3 DEF ProgressTypes

\* Where a run gets to from a stage.
LEMMA Successors ==
  ASSUME NEW s \in DOMAIN After
  PROVE  /\ After[s] \in Stages /\ After[s] # "trees" /\ After[s] \notin Indexes \ {"generators"}
         /\ After[s] \in {"rules", "catalog", "annotate"} => s \in {"fields", "rules", "catalog"}
         /\ After[s] = "fields" => s = "trees"
         /\ After[s] \in Derived \ {"req_ir"} => s \in Derived
         /\ After[s] = "req_ir" => s = "annotate"
         /\ After[s] = "generators" => s = "state_dependency"
         /\ After[s] = "rules" => s = "fields"
         /\ After[s] = "catalog" => s = "rules"
         /\ After[s] = "annotate" => s = "catalog"
BY StageNames, FileNames

-----------------------------------------------------------------------------
(* The steps of the analysis that change nothing but the progress          *)

\* A run that stays in its stage, as far as the invariants look.
LEMMA StayKeeps ==
  ASSUME IInv, UNCHANGED <<kept, run, writing, memory, regenerated>>, ProgressTypes',
         UNCHANGED <<index, sources, equipment>>, stage' = stage, stage \in DOMAIN After,
         stage \in DOMAIN SideFile => pending' = pending,
         stage = "trees" =>
           \/ pos' = pos /\ (step' = "ask" => step = "ask" \/ cached[Here] # "whole")
           \/ pos' = pos + 1 /\ step' = "open" /\ Saved(Here)
  PROVE  IInv'
<1>1. UNCHANGED <<disk, cached, pickle, smtp, tree, held, types>>
      /\ UNCHANGED <<index, sources, generators, offered, parsers, components>>
  BY DEF kept, memory, equipment
<1>2. KeptTypes' /\ MemoryTypes' /\ ListedHasSource'
  BY <1>1 DEF IInv, KeptTypes, MemoryTypes, ListedHasSource
<1>3. ProducerTypes' BY <1>1, StageNames DEF IInv, ProducerTypes
<1>4. SurviveInv'
  <2>1. \A r \in Names : Saved(r)' <=> Saved(r) BY <1>1 DEF Saved
  <2>2. \A j \in 1..Len(Rfcs) : Rfcs[j] \in Names BY DocumentsAssumption DEF Names
  <2>3. pos \in Nat /\ Len(Rfcs) \in Nat BY DocumentsAssumption DEF IInv, ProgressTypes
  <2>4. CASE stage # "trees" BY <1>1, <2>1, <2>4 DEF IInv, SurviveInv
  <2>5. CASE stage = "trees" /\ pos' = pos
    BY <1>1, <2>1, <2>2, <2>5 DEF IInv, SurviveInv, Here
  <2>6. CASE stage = "trees" /\ pos' = pos + 1 /\ pos' # pos
    <3>1. step' = "open" /\ Saved(Rfcs[pos]) BY <2>5, <2>6 DEF Here
    <3>2. \A j \in 1..Len(Rfcs) : j < pos' => j < pos \/ j = pos BY <2>3, <2>6
    <3> QED BY <1>1, <2>1, <2>2, <2>6, <3>1, <3>2 DEF IInv, SurviveInv
  <2> QED BY <2>4, <2>5, <2>6
<1>5. DescribeInv' BY <1>1 DEF IInv, DescribeInv, Present, DiskTypes
<1>6. HoldInv' BY <1>1, FileNames DEF IInv, HoldInv, Grounded, DiskTypes
<1> QED BY <1>2, <1>3, <1>4, <1>5, <1>6 DEF IInv

\* A run that enters a stage.
LEMMA EnterKeeps ==
  ASSUME IInv, UNCHANGED <<kept, run, writing, memory, regenerated>>,
         UNCHANGED <<index, sources, equipment>>, stage \in DOMAIN After,
         NEW s \in {"failed", After[stage]}, Enter(s),
         s = "fields" => pos > Len(Rfcs),
         s \in {"rules", "catalog"} => pending = {},
         s # "annotate",
         s \in Derived \ {"req_ir"} => Present(stage)
  PROVE  IInv'
<1>1. UNCHANGED <<disk, cached, pickle, smtp, tree, held, types>>
      /\ UNCHANGED <<index, sources, generators, offered, parsers, components>>
      /\ stage' = s /\ step' = "open" /\ pending' = IF s \in DOMAIN SideFile THEN Sides ELSE {}
  BY DEF kept, memory, equipment, Enter
<1>2. KeptTypes' /\ MemoryTypes' /\ ListedHasSource'
  BY <1>1 DEF IInv, KeptTypes, MemoryTypes, ListedHasSource
<1>3. s \in Stages /\ (s = "failed" \/ s = After[stage]) BY Successors, StageNames
<1>4. ProgressTypes' BY <1>3, EnterType DEF IInv, ProgressTypes
<1>5. ProducerTypes' BY <1>1 DEF IInv, ProducerTypes
<1>6. SurviveInv'
  <2>1. \A r \in Names : Saved(r)' <=> Saved(r) BY <1>1 DEF Saved
  <2>2. s # "trees" BY <1>3, Successors
  <2>3. ASSUME s \in {"fields", "rules", "catalog", "annotate"}, NEW r \in Names PROVE Saved(r)
    <3>1. s = After[stage] BY <1>3, <2>3
    <3>2. CASE s = "fields"
      <4>1. stage = "trees" /\ pos > Len(Rfcs) BY <3>1, <3>2, Successors
      <4>2. PICK j \in DOMAIN Rfcs : r = Rfcs[j] BY DEF Names
      <4>3. j \in 1..Len(Rfcs) /\ j < pos
        BY <4>1, DocumentsAssumption DEF IInv, ProgressTypes
      <4> QED BY <4>1, <4>2, <4>3 DEF IInv, SurviveInv
    <3>3. CASE s # "fields"
      <4>1. stage \in {"fields", "rules", "catalog"} BY <2>3, <3>1, <3>3, Successors
      <4> QED BY <4>1 DEF IInv, SurviveInv
    <3> QED BY <3>2, <3>3
  <2> QED BY <1>1, <2>1, <2>2, <2>3 DEF SurviveInv
<1>7. DescribeInv'
  <2>1. s \in Derived \ {"req_ir"} => stage \in Derived /\ Present(stage)
    BY <1>3, Successors, FileNames
  <2> QED BY <1>1, <2>1 DEF IInv, DescribeInv, Present, DiskTypes
<1>8. HoldInv'
  <2>1. s \in {"fields", "rules"} => "req" \in pending' BY <1>1, FileNames
  <2>2. s = "rules" => stage = "fields" /\ "req" \notin pending BY <1>3, Successors
  <2>3. s = "catalog" => stage = "rules" /\ "req" \notin pending BY <1>3, Successors
  <2>4. s \in {"generators"} \cup Derived => stage \in {"annotate"} \cup Derived
    <3>1. "failed" \notin {"generators"} \cup Derived /\ "state_dependency" \in Derived
      BY FileNames
    <3> QED BY <1>3, <3>1, Successors
  <2> QED BY <1>1, <2>1, <2>2, <2>3, <2>4 DEF IInv, HoldInv, Grounded, DiskTypes
<1> QED BY <1>2, <1>4, <1>5, <1>6, <1>7, <1>8 DEF IInv

\* The parser's steps that stay in a stage and change neither files nor results.
WaitingStep ==
  \/ KeepAnnotations \/ Annotate \/ Generate
  \/ \E l \in Leaves : LabelFails(l) \/ RelateFails(l)
  \/ \E w \in pending : Answer(w) \/ RepairMessage(w) \/ GarbledDependency(w)
LEMMA WaitingKeeps ==
  ASSUME IInv, WaitingStep, UNCHANGED <<index, sources, equipment>>
  PROVE  IInv'
<1> USE DEF IInv
<1>1. "annotate" \notin DOMAIN SideFile /\ "trees" \notin DOMAIN SideFile
      /\ Derived \cap DOMAIN SideFile = {} /\ "trees" \notin Derived /\ "annotate" \notin Derived
      /\ Derived \subseteq DOMAIN After /\ DOMAIN After \cap Indexes = {}
      /\ "trees" \in DOMAIN After /\ "annotate" \in DOMAIN After
      /\ MessageFiles \subseteq Derived /\ "state_dependency" \in Derived
  BY FileNames, StageNames DEF MessageFiles
<1>2. CASE KeepAnnotations
  <2>1. ProgressTypes' BY <1>1, <1>2, NextDocumentType DEF KeepAnnotations
  <2> QED BY <1>1, <1>2, <2>1, StayKeeps DEF KeepAnnotations, NextDocument
<1>3. CASE Annotate
  <2>1. ProgressTypes' BY <1>3, AskType DEF Annotate
  <2> QED BY <1>1, <1>3, <2>1, StayKeeps DEF Annotate, Ask
<1>4. CASE Generate
  <2>1. stage \notin {"trees", "annotate"} BY <1>1, <1>4 DEF Generate
  <2>2. ProgressTypes' BY <1>4, <2>1, AskType DEF Generate
  <2> QED BY <1>1, <1>4, <2>1, <2>2, StayKeeps DEF Generate, Ask
<1>5. ASSUME NEW l \in Leaves, LabelFails(l) PROVE IInv'
  <2>1. stage = "trees" /\ step = "ask" /\ Limit = MaxAttempts BY <1>1, <1>5 DEF LabelFails, Limit
  <2>2. ProgressTypes' BY <1>1, <1>5, <2>1, TriedType DEF LabelFails
  <2> QED BY <1>1, <1>5, <2>1, <2>2, StayKeeps DEF LabelFails, Tried
<1>6. ASSUME NEW l \in Leaves, RelateFails(l) PROVE IInv'
  <2>1. stage = "annotate" /\ step = "ask" /\ Limit = MaxAttempts
    BY <1>1, <1>6 DEF RelateFails, Limit
  <2>2. ProgressTypes' BY <1>1, <1>6, <2>1, TriedType DEF RelateFails
  <2> QED BY <1>1, <1>6, <2>1, <2>2, StayKeeps DEF RelateFails, Tried
<1>7. ASSUME NEW w \in pending, Answer(w) PROVE IInv'
  <2>1. ProgressTypes' BY <1>7, DoneType DEF Answer
  <2> QED BY <1>1, <1>7, <2>1, StayKeeps DEF Answer, Asked, Done
<1>8. ASSUME NEW w \in pending, RepairMessage(w) PROVE IInv'
  <2>1. stage \in Derived /\ step = "ask" /\ Limit = MaxRepairs
    BY <1>1, <1>8 DEF RepairMessage, Asked, Limit
  <2>2. ProgressTypes' BY <1>1, <1>8, <2>1, TriedType DEF RepairMessage
  <2> QED BY <1>1, <1>8, <2>1, <2>2, StayKeeps DEF RepairMessage, Tried
<1>9. ASSUME NEW w \in pending, GarbledDependency(w) PROVE IInv'
  <2>1. ProgressTypes' BY <1>9 DEF GarbledDependency, ProgressTypes, Limit
  <2> QED BY <1>1, <1>9, <2>1, StayKeeps DEF GarbledDependency
<1> HIDE DEF IInv
<1> QED BY <1>2, <1>3, <1>4, <1>5, <1>6, <1>7, <1>8, <1>9 DEF WaitingStep

\* The parser's steps that only enter the next stage, or fail.
MovingStep ==
  \/ PrepareQueries \/ NothingToQuery \/ SidesReady \/ TreesAnnotated
  \/ LoadDerived \/ TornDerived \/ RelationMissing
  \/ \E s \in Sides : TornSide(s)
  \/ \E w \in pending : MessageFails(w) \/ DependencyRaises(w)
LEMMA MovingKeeps ==
  ASSUME IInv, MovingStep, UNCHANGED <<index, sources, equipment>>
  PROVE  IInv'
<1>1. Derived \subseteq DOMAIN After /\ DOMAIN SideFile \subseteq DOMAIN After
      /\ "trees" \in DOMAIN After /\ "annotate" \in DOMAIN After
      /\ "failed" \notin {"fields", "rules", "catalog", "annotate"} \cup Derived
      /\ "state_dependency" \in Derived
  BY FileNames, StageNames
<1>2. ASSUME stage \in DOMAIN After, Fail PROVE IInv'
  BY <1>1, <1>2, EnterKeeps DEF Fail
<1>3. CASE PrepareQueries
  <2>1. stage = "trees" /\ pos > Len(Rfcs) /\ After[stage] = "fields" /\ "fields" \notin Derived
    BY <1>3, FileNames, StageNames DEF PrepareQueries, TreesReady
  <2> QED BY <1>1, <1>3, <2>1, EnterKeeps DEF PrepareQueries, Continue
<1>4. CASE SidesReady
  <2>1. stage \in {"fields", "rules"} /\ pending = {} /\ After[stage] \in {"rules", "catalog"}
        /\ Derived \cap {"rules", "catalog"} = {}
    BY <1>4, FileNames, StageNames DEF SidesReady
  <2> QED BY <1>1, <1>4, <2>1, EnterKeeps DEF SidesReady, Continue
<1>5. CASE TreesAnnotated
  <2>1. stage = "annotate" /\ After[stage] = "req_ir"
    BY <1>5, StageNames DEF TreesAnnotated
  <2> QED BY <1>1, <1>5, <2>1, EnterKeeps DEF TreesAnnotated, Continue
<1>6. CASE LoadDerived
  <2>1. stage \in Derived /\ Present(stage) BY <1>6 DEF LoadDerived, Present
  <2>2. After[stage] \notin {"fields", "rules", "catalog", "annotate"}
    BY <2>1, FileNames, StageNames
  <2> QED BY <1>1, <1>6, <2>1, <2>2, EnterKeeps DEF LoadDerived, Continue
<1>7. CASE NothingToQuery BY <1>1, <1>2, <1>7 DEF NothingToQuery, TreesReady
<1>8. CASE TornDerived BY <1>1, <1>2, <1>8 DEF TornDerived
<1>9. CASE RelationMissing BY <1>1, <1>2, <1>9 DEF RelationMissing
<1>10. ASSUME NEW s \in Sides, TornSide(s) PROVE IInv'
  BY <1>1, <1>2, <1>10 DEF TornSide, SideTask
<1>11. ASSUME NEW w \in pending, MessageFails(w) PROVE IInv'
  BY <1>1, <1>2, <1>11 DEF MessageFails, Asked
<1>12. ASSUME NEW w \in pending, DependencyRaises(w) PROVE IInv'
  BY <1>1, <1>2, <1>12 DEF DependencyRaises, Asked
<1> QED
  BY <1>3, <1>4, <1>5, <1>6, <1>7, <1>8, <1>9, <1>10, <1>11, <1>12 DEF MovingStep

-----------------------------------------------------------------------------
(* The trees                                                               *)

LEMMA HereType ==
  ASSUME pos \in 1..Len(Rfcs)
  PROVE  Here \in Names
BY DocumentsAssumption DEF Here, Names

LEMMA TreeFields ==
  ASSUME NEW t
  PROVE  t \in Trees <=>
           /\ t = [label |-> t.label, marked |-> t.marked, related |-> t.related]
           /\ t.label \in [Leaves -> Labels] /\ t.marked \in [Sides -> SUBSET Types]
           /\ t.related \in [Leaves -> [Sides -> SUBSET Types]]
BY DEF Trees

LEMMA BlankType == Blank \in Trees /\ Unmarked \in [Sides -> SUBSET Types]
BY DEF Blank, Trees, Unmarked, Labels

\* A step on the tree of one document.
LEMMA TreeKeeps ==
  ASSUME IInv, UNCHANGED <<disk, smtp, run, writing, held, types, regenerated>>,
         UNCHANGED <<index, sources, equipment>>, stage \in {"trees", "annotate"},
         stage' = stage, ProgressTypes', tree' \in [Names -> Trees],
         pickle' \in [Names -> Trees],
         cached' \in [Names -> {"absent", "damaged", "whole"}], SurviveInv'
  PROVE  IInv'
<1>1. stage \in DOMAIN After /\ stage \notin Indexes /\ stage \notin DOMAIN SideFile
  BY StageNames, FileNames
<1>2. UNCHANGED <<generators, offered, parsers, components>> BY DEF equipment
<1>3. KeptTypes' /\ MemoryTypes' /\ ListedHasSource'
  BY <1>2 DEF IInv, KeptTypes, MemoryTypes, ListedHasSource
<1>4. ProducerTypes' BY <1>1, <1>2, StageNames DEF IInv, ProducerTypes
<1>5. DescribeInv' BY DEF IInv, DescribeInv, Present, DiskTypes
<1>6. HoldInv' BY <1>1, FileNames DEF IInv, HoldInv, Grounded, DiskTypes
<1> QED BY <1>3, <1>4, <1>5, <1>6 DEF IInv

\* SurviveInv after a step that leaves every other document's tree alone.
LEMMA OthersSurvive ==
  ASSUME IInv, stage \in {"trees", "annotate"}, stage' = stage, pos \in 1..Len(Rfcs),
         NEW h \in Names, h = Here,
         \A r \in Names : r # h => Saved(r)' = Saved(r),
         \/ stage = "trees" /\ pos' = pos /\ cached[h] # "whole" /\ cached' = cached
         \/ stage = "trees" /\ pos' = pos + 1 /\ step' = "open" /\ Saved(h)'
         \/ stage = "annotate" /\ (Saved(h) => Saved(h)')
  PROVE  SurviveInv'
<1>1. \A j \in 1..Len(Rfcs) : Rfcs[j] \in Names BY DocumentsAssumption DEF Names
<1>2. Len(Rfcs) \in Nat BY DocumentsAssumption
<1>3. CASE stage = "trees" /\ pos' = pos /\ cached[h] # "whole" /\ cached' = cached
  <2>1. Here' = h /\ ~Saved(h) BY <1>3 DEF Here, Saved
  <2>2. \A j \in 1..Len(Rfcs) : j < pos => Saved(Rfcs[j]) /\ Rfcs[j] # h
    BY <1>3, <2>1 DEF IInv, SurviveInv
  <2>3. \A j \in 1..Len(Rfcs) : j < pos => Saved(Rfcs[j])' BY <1>1, <2>2
  <2> QED BY <1>3, <2>1, <2>3 DEF SurviveInv
<1>4. CASE stage = "trees" /\ pos' = pos + 1 /\ step' = "open" /\ Saved(h)'
  <2>1. \A j \in 1..Len(Rfcs) : j < pos => Saved(Rfcs[j])
    BY <1>4 DEF IInv, SurviveInv
  <2>2. \A j \in 1..Len(Rfcs) : j < pos => Saved(Rfcs[j])' BY <1>1, <1>4, <2>1
  <2>3. \A j \in 1..Len(Rfcs) : j < pos' => j < pos \/ Rfcs[j] = h
    BY <1>2, <1>4 DEF Here
  <2>4. \A j \in 1..Len(Rfcs) : j < pos' => Saved(Rfcs[j])' BY <1>4, <2>2, <2>3
  <2> QED BY <1>4, <2>4 DEF SurviveInv
<1>5. CASE stage = "annotate" /\ (Saved(h) => Saved(h)')
  BY <1>5 DEF IInv, SurviveInv
<1> QED BY <1>3, <1>4, <1>5

LEMMA LoadTreeKeeps ==
  ASSUME IInv, LoadTree, UNCHANGED <<index, sources, equipment>>
  PROVE  IInv'
<1>1. /\ stage = "trees" /\ step = "open" /\ pos <= Len(Rfcs) /\ cached[Here] = "whole"
      /\ tree' = [tree EXCEPT ![Here] = pickle[Here]] /\ NextDocument
      /\ UNCHANGED <<disk, cached, pickle, smtp, run, writing, held, types, regenerated>>
  BY DEF LoadTree, kept
<1>2. pos \in 1..Len(Rfcs) /\ tree \in [Names -> Trees] /\ pickle \in [Names -> Trees]
      /\ ProgressTypes /\ KeptTypes
  BY <1>1, DocumentsAssumption DEF IInv, ProgressTypes, MemoryTypes, KeptTypes
<1>3. PICK h \in Names : h = Here BY <1>2, HereType
<1>4. tree' \in [Names -> Trees] BY <1>1, <1>2, <1>3
<1>5. ProgressTypes' BY <1>1, <1>2, NextDocumentType, FileNames
<1>6. SurviveInv'
  <2>1. Saved(h)' BY <1>1, <1>2, <1>3 DEF Saved
  <2>2. \A r \in Names : r # h => Saved(r)' = Saved(r) BY <1>1, <1>2, <1>3 DEF Saved
  <2> QED BY <1>1, <1>2, <1>3, <2>1, <2>2, OthersSurvive DEF NextDocument
<1> QED BY <1>1, <1>2, <1>4, <1>5, <1>6, TreeKeeps DEF KeptTypes, NextDocument

LEMMA ParseTreeKeeps ==
  ASSUME IInv, ParseTree, UNCHANGED <<index, sources, equipment>>
  PROVE  IInv'
<1>1. /\ stage = "trees" /\ step = "open" /\ pos <= Len(Rfcs) /\ cached[Here] # "whole"
      /\ tree' = [tree EXCEPT ![Here] = Blank] /\ Ask(Leaves)
      /\ UNCHANGED <<disk, cached, pickle, smtp, run, writing, held, types, regenerated>>
  BY DEF ParseTree, kept
<1>2. pos \in 1..Len(Rfcs) /\ tree \in [Names -> Trees] /\ ProgressTypes /\ KeptTypes
  BY <1>1, DocumentsAssumption DEF IInv, ProgressTypes, MemoryTypes
<1>3. PICK h \in Names : h = Here BY <1>2, HereType
<1>4. tree' \in [Names -> Trees] BY <1>1, <1>2, BlankType
<1>5. ProgressTypes' BY <1>1, <1>2, AskType
<1>6. SurviveInv'
  <2>1. \A r \in Names : r # h => Saved(r)' = Saved(r) BY <1>1, <1>2, <1>3 DEF Saved
  <2> QED BY <1>1, <1>2, <1>3, <2>1, OthersSurvive DEF Ask
<1> QED BY <1>1, <1>2, <1>4, <1>5, <1>6, TreeKeeps DEF KeptTypes, Ask

LEMMA LabelLeafKeeps ==
  ASSUME IInv, NEW l \in Leaves, NEW label \in Labels, LabelLeaf(l, label),
         UNCHANGED <<index, sources, equipment>>
  PROVE  IInv'
<1>1. /\ stage = "trees" /\ step = "ask"
      /\ tree' = [tree EXCEPT ![Here].label[l] = label] /\ Done(l)
      /\ UNCHANGED <<disk, cached, pickle, smtp, run, writing, held, types, regenerated>>
  BY DEF LabelLeaf, kept
<1>2. pos \in 1..Len(Rfcs) /\ tree \in [Names -> Trees] /\ ProgressTypes /\ KeptTypes
      /\ cached[Here] # "whole"
  BY <1>1, DocumentsAssumption DEF IInv, ProgressTypes, MemoryTypes, SurviveInv
<1>3. PICK h \in Names : h = Here BY <1>2, HereType
<1>4. tree' \in [Names -> Trees]
  <2> DEFINE t == [tree[h] EXCEPT !.label = [tree[h].label EXCEPT ![l] = label]]
  <2>1. tree[h] \in Trees BY <1>2, <1>3
  <2>2. t \in Trees BY <2>1 DEF Trees
  <2>3. tree' = [tree EXCEPT ![h] = t] BY <1>1, <1>3
  <2> QED BY <1>2, <1>3, <2>2, <2>3
<1>5. ProgressTypes' BY <1>1, <1>2, DoneType
<1>6. SurviveInv'
  <2>1. \A r \in Names : r # h => Saved(r)' = Saved(r) BY <1>1, <1>2, <1>3 DEF Saved
  <2> QED BY <1>1, <1>2, <1>3, <2>1, OthersSurvive DEF Done
<1> QED BY <1>1, <1>2, <1>4, <1>5, <1>6, TreeKeeps DEF KeptTypes, Done

LEMMA TreeParsedKeeps ==
  ASSUME IInv, TreeParsed, UNCHANGED <<index, sources, equipment>>
  PROVE  IInv'
<1>1. /\ stage = "trees" /\ step = "ask"
      /\ cached' = [cached EXCEPT ![Here] = "whole"]
      /\ pickle' = [pickle EXCEPT ![Here] = tree[Here]] /\ NextDocument
      /\ UNCHANGED <<disk, smtp, run, writing, tree, held, types, regenerated>>
  BY DEF TreeParsed, SaveTree, memory
<1>2. pos \in 1..Len(Rfcs) /\ pos <= Len(Rfcs) /\ ProgressTypes
      /\ tree \in [Names -> Trees] /\ pickle \in [Names -> Trees]
      /\ cached \in [Names -> {"absent", "damaged", "whole"}]
  BY <1>1, DocumentsAssumption DEF IInv, ProgressTypes, MemoryTypes, KeptTypes
<1>3. PICK h \in Names : h = Here BY <1>2, HereType
<1>4. pickle' \in [Names -> Trees] /\ cached' \in [Names -> {"absent", "damaged", "whole"}]
  BY <1>1, <1>2, <1>3
<1>5. ProgressTypes' BY <1>1, <1>2, NextDocumentType, FileNames
<1>6. SurviveInv'
  <2>1. Saved(h)' BY <1>1, <1>2, <1>3 DEF Saved
  <2>2. \A r \in Names : r # h => Saved(r)' = Saved(r) BY <1>1, <1>2, <1>3 DEF Saved
  <2> QED BY <1>1, <1>2, <1>3, <2>1, <2>2, OthersSurvive DEF NextDocument
<1> QED BY <1>1, <1>2, <1>4, <1>5, <1>6, TreeKeeps DEF NextDocument

LEMMA RelateLeafKeeps ==
  ASSUME IInv, NEW l \in Leaves, NEW related \in Related, RelateLeaf(l, related),
         UNCHANGED <<index, sources, equipment>>
  PROVE  IInv'
<1>1. /\ stage = "annotate" /\ step = "ask" /\ \A s \in Sides : related[s] \subseteq types[s]
      /\ tree' = [tree EXCEPT ![Here].related[l] = related] /\ Done(l)
      /\ UNCHANGED <<disk, cached, pickle, smtp, run, writing, held, types, regenerated>>
  BY DEF RelateLeaf, kept
<1>2. pos \in 1..Len(Rfcs) /\ tree \in [Names -> Trees] /\ ProgressTypes /\ KeptTypes
      /\ types \in [Sides -> SUBSET Types]
  BY <1>1, DocumentsAssumption DEF IInv, ProgressTypes, MemoryTypes
<1>3. PICK h \in Names : h = Here BY <1>2, HereType
<1>4. related \in [Sides -> SUBSET Types]
  <2>1. PICK m \in (SUBSET types["req"]) \X (SUBSET types["res"]) :
          related = [s \in Sides |-> IF s = "req" THEN m[1] ELSE m[2]]
    BY DEF Related
  <2> QED BY <1>1, <1>2, <2>1
<1>5. tree' \in [Names -> Trees] /\ tree'[h].label = tree[h].label
  <2> DEFINE t == [tree[h] EXCEPT !.related = [tree[h].related EXCEPT ![l] = related]]
  <2>1. tree[h] \in Trees BY <1>2, <1>3
  <2>2. t \in Trees /\ t.label = tree[h].label BY <1>4, <2>1 DEF Trees
  <2>3. tree' = [tree EXCEPT ![h] = t] BY <1>1, <1>3
  <2> QED BY <1>2, <1>3, <2>2, <2>3
<1>6. ProgressTypes' BY <1>1, <1>2, DoneType
<1>7. SurviveInv'
  <2>1. \A r \in Names : r # h => Saved(r)' = Saved(r) BY <1>1, <1>2, <1>3 DEF Saved
  <2>2. Saved(h) => Saved(h)' BY <1>1, <1>5 DEF Saved
  <2> QED BY <1>1, <1>2, <1>3, <2>1, <2>2, OthersSurvive DEF Done
<1> QED BY <1>1, <1>2, <1>5, <1>6, <1>7, TreeKeeps DEF KeptTypes, Done

LEMMA TreeAnnotatedKeeps ==
  ASSUME IInv, TreeAnnotated, UNCHANGED <<index, sources, equipment>>
  PROVE  IInv'
<1> DEFINE t == [tree[Here] EXCEPT !.marked = types]
<1>1. /\ stage = "annotate" /\ step = "ask" /\ tree' = [tree EXCEPT ![Here] = t]
      /\ cached' = [cached EXCEPT ![Here] = "whole"]
      /\ pickle' = [pickle EXCEPT ![Here] = t] /\ NextDocument
      /\ UNCHANGED <<disk, smtp, run, writing, held, types, regenerated>>
  BY DEF TreeAnnotated, SaveTree
<1>2. pos \in 1..Len(Rfcs) /\ pos <= Len(Rfcs) /\ ProgressTypes
      /\ tree \in [Names -> Trees] /\ pickle \in [Names -> Trees]
      /\ cached \in [Names -> {"absent", "damaged", "whole"}]
      /\ types \in [Sides -> SUBSET Types]
  BY <1>1, DocumentsAssumption DEF IInv, ProgressTypes, MemoryTypes, KeptTypes
<1>3. PICK h \in Names : h = Here BY <1>2, HereType
<1>4. t \in Trees
  <2>1. tree[Here] \in Trees BY <1>2, <1>3
  <2> QED BY <1>2, <2>1 DEF Trees
<1> HIDE DEF t
<1>5. tree' \in [Names -> Trees] /\ pickle' \in [Names -> Trees]
      /\ cached' \in [Names -> {"absent", "damaged", "whole"}]
  BY <1>1, <1>2, <1>3, <1>4
<1>6. ProgressTypes' BY <1>1, <1>2, NextDocumentType, FileNames
<1>7. SurviveInv'
  <2>1. Saved(h)' BY <1>1, <1>2, <1>3 DEF Saved
  <2>2. \A r \in Names : r # h => Saved(r)' = Saved(r) BY <1>1, <1>2, <1>3 DEF Saved
  <2> QED BY <1>1, <1>2, <1>3, <2>1, <2>2, OthersSurvive DEF NextDocument
<1> QED BY <1>1, <1>2, <1>5, <1>6, <1>7, TreeKeeps DEF NextDocument

-----------------------------------------------------------------------------
(* The files of the two sides                                              *)

LEMMA SideTaskFile ==
  ASSUME NEW s \in Sides, SideTask(s)
  PROVE  /\ stage \in {"fields", "rules"} /\ SideFile[stage][s] \in SideFiles
         /\ SideFile[stage][s] = "req_json" <=> stage = "fields" /\ s = "req"
         /\ SideFile[stage][s] = "req_type_rules" <=> stage = "rules" /\ s = "req"
BY FileNames DEF SideTask, Sides

LEMMA LoadSideKeeps ==
  ASSUME IInv, NEW s \in Sides, LoadSide(s), UNCHANGED <<index, sources, equipment>>
  PROVE  IInv'
<1> DEFINE f == SideFile[stage][s]
<1>1. /\ SideTask(s) /\ disk[f].state = "whole" /\ held' = [held EXCEPT ![f] = disk[f].of]
      /\ Done(s)
      /\ UNCHANGED <<disk, cached, pickle, smtp, run, writing, tree, types, regenerated>>
      /\ UNCHANGED <<stage, step, pos>> /\ pending' = pending \ {s}
      /\ UNCHANGED <<generators, offered, parsers, components>>
  BY DEF LoadSide, kept, Done, equipment
<1>2. stage \in {"fields", "rules"} /\ f \in SideFiles /\ f \in Files
      /\ (f = "req_json" <=> stage = "fields" /\ s = "req")
      /\ (f = "req_type_rules" <=> stage = "rules" /\ s = "req")
  BY <1>1, SideTaskFile, FileNames
<1> HIDE DEF f
<1>3. KeptTypes /\ MemoryTypes /\ ProgressTypes BY DEF IInv
<1>4. MemoryTypes' BY <1>1, <1>2, <1>3 DEF MemoryTypes, KeptTypes
<1>5. ProgressTypes' BY <1>1, <1>3, DoneType
<1>6. KeptTypes' /\ ListedHasSource' BY <1>1 DEF IInv, KeptTypes, ListedHasSource
<1>7. ProducerTypes' BY <1>1, <1>2, StageNames DEF IInv, ProducerTypes
<1>8. SurviveInv' BY <1>1, <1>2 DEF IInv, SurviveInv, Saved
<1>9. DescribeInv' BY <1>1 DEF IInv, DescribeInv, Present, DiskTypes
<1>10. HoldInv'
  <2>1. stage \notin {"catalog", "annotate", "generators"} \cup Derived BY <1>2, FileNames
  <2>2. held \in [SideFiles -> SUBSET Types] /\ "req_json" \in SideFiles
        /\ "req_type_rules" \in SideFiles
    BY <1>3, FileNames DEF MemoryTypes
  <2> QED BY <1>1, <1>2, <2>1, <2>2 DEF IInv, HoldInv
<1> QED BY <1>4, <1>5, <1>6, <1>7, <1>8, <1>9, <1>10 DEF IInv

LEMMA NamedTypes ==
  ASSUME NEW s \in Sides, NEW answer \in Named[s]
  PROVE  answer \subseteq Types
BY DEF Sides, Types

LEMMA AnswerSideKeeps ==
  ASSUME IInv, writing = {}, NEW s \in Sides, NEW answer \in Named[s], AnswerSide(s, answer),
         UNCHANGED <<index, sources, equipment>>
  PROVE  IInv'
<1> DEFINE f == SideFile[stage][s]
<1>1. /\ SideTask(s) /\ disk[f].state \in {"absent", "stale"}
      /\ disk' = [disk EXCEPT ![f] = [state |-> "torn", of |-> answer]] /\ writing' = {f}
      /\ regenerated' = (regenerated \/ (f = "req_type_rules" /\ Present("req_ir")))
      /\ UNCHANGED <<cached, pickle, smtp, run, stage, step, pos, pending, tries>>
      /\ UNCHANGED <<tree, held, types>>
      /\ UNCHANGED <<generators, offered, parsers, components>>
  BY FileNames DEF AnswerSide, Write, Content, progress, tasks, memory, equipment, Present
<1>2. stage \in {"fields", "rules"} /\ f \in SideFiles /\ f \in Files
      /\ (f = "req_json" <=> stage = "fields" /\ s = "req")
      /\ (f = "req_type_rules" <=> stage = "rules" /\ s = "req")
      /\ s \in pending
  BY <1>1, SideTaskFile, FileNames DEF SideTask
<1> HIDE DEF f
<1>3. KeptTypes /\ MemoryTypes /\ ProgressTypes /\ ProducerTypes BY DEF IInv
<1>4. KeptTypes' /\ MemoryTypes'
  <2>1. [state |-> "torn", of |-> answer] \in [state : FileStates, of : SUBSET Types]
    BY NamedTypes DEF FileStates
  <2> QED BY <1>1, <1>2, <1>3, <2>1 DEF MemoryTypes, KeptTypes
<1>5. ProgressTypes' BY <1>1, <1>3 DEF ProgressTypes, Limit
<1>6. ListedHasSource' BY <1>1 DEF IInv, ListedHasSource
<1>7. ProducerTypes' BY <1>1, <1>2, <1>3, StageNames DEF ProducerTypes
<1>8. SurviveInv' BY <1>1, <1>2 DEF IInv, SurviveInv, Saved
<1>9. /\ disk'[f].state = "torn" /\ \A g \in Files : g # f => disk'[g] = disk[g]
      /\ "req_json" \in Files /\ "req_type_rules" \in Files /\ "req_ir" \in Files
      /\ f \notin Derived /\ Derived \subseteq Files /\ "req_ir" \in Derived
  BY <1>1, <1>2, <1>3, FileNames DEF KeptTypes
<1>10. DescribeInv'
  <2>1. disk'["req_json"].state # "stale" BY <1>9 DEF IInv, DescribeInv
  <2>2. \A g \in Files : Present(g) => Present(g)' BY <1>9 DEF Present
  <2>3. \A g \in Derived : Present(g)' = Present(g) BY <1>9 DEF Present
  <2>4. \A g \in Derived : Present(g)' =>
          Present("req_ir")' /\ Present("req_json")' /\ Present("req_type_rules")'
    BY <1>9, <2>2, <2>3 DEF IInv, DescribeInv
  <2>5. ASSUME ~regenerated', NEW g \in Derived \ {"res_ir"}, Present(g)
        PROVE  disk'[g].of = DiskTypes'
    <3>1. Present("req_ir") /\ Present("req_json") BY <2>5 DEF IInv, DescribeInv
    <3>2. ~regenerated /\ f # "req_type_rules" BY <1>1, <2>5, <3>1
    <3>3. f # "req_json" BY <1>1, <3>1 DEF IInv, DescribeInv, Present
    <3>4. DiskTypes' = DiskTypes BY <1>9, <3>2, <3>3 DEF DiskTypes
    <3> QED BY <1>9, <2>5, <3>2, <3>4 DEF IInv, DescribeInv
  <2>6. \A g \in writing' \cap Files : disk'[g].state = "torn" BY <1>1, <1>9
  <2>7. stage' \notin Derived BY <1>1, <1>2, FileNames
  <2> QED BY <2>1, <2>3, <2>4, <2>5, <2>6, <2>7 DEF DescribeInv
<1>11. HoldInv'
  <2>1. stage \notin {"catalog", "annotate", "generators"} \cup Derived BY <1>2, FileNames
  <2> QED BY <1>1, <1>2, <1>9, <2>1 DEF IInv, HoldInv
<1> QED BY <1>4, <1>5, <1>6, <1>7, <1>8, <1>10, <1>11 DEF IInv

LEMMA NormalizeKeeps ==
  ASSUME IInv, writing = {}, NEW f \in SideFiles, NormalizeResponses(f),
         UNCHANGED <<index, sources, equipment>>
  PROVE  IInv'
<1>1. /\ stage = "catalog" /\ f \in {"res_json", "res_type_rules"}
      /\ disk' = [disk EXCEPT ![f] = [state |-> "torn", of |-> Catalog]] /\ writing' = {f}
      /\ held' = [held EXCEPT ![f] = Catalog]
      /\ UNCHANGED <<cached, pickle, smtp, run, stage, step, pos, pending, tries>>
      /\ UNCHANGED <<tree, types, regenerated>>
      /\ UNCHANGED <<generators, offered, parsers, components>>
  BY FileNames DEF NormalizeResponses, Write, Content, progress, tasks, equipment
<1>2. KeptTypes /\ MemoryTypes /\ ProgressTypes /\ ProducerTypes BY DEF IInv
<1>3. KeptTypes' /\ MemoryTypes'
  <2>1. Catalog \subseteq Types BY DEF Types
  <2>2. [state |-> "torn", of |-> Catalog] \in [state : FileStates, of : SUBSET Types]
    BY <2>1 DEF FileStates
  <2> QED BY <1>1, <1>2, <2>1, <2>2 DEF MemoryTypes, KeptTypes
<1>4. ProgressTypes' BY <1>1, <1>2 DEF ProgressTypes, Limit
<1>5. ListedHasSource' BY <1>1 DEF IInv, ListedHasSource
<1>6. ProducerTypes' BY <1>1, <1>2, FileNames, StageNames DEF ProducerTypes
<1>7. SurviveInv' BY <1>1 DEF IInv, SurviveInv, Saved
<1>8. /\ disk'[f].state = "torn" /\ \A g \in Files : g # f => disk'[g] = disk[g]
      /\ \A g \in SideFiles : g # f => held'[g] = held[g]
      /\ "req_json" \in Files /\ "req_type_rules" \in Files /\ "req_ir" \in Files
      /\ "req_json" \in SideFiles /\ "req_type_rules" \in SideFiles
      /\ f \notin Derived /\ Derived \subseteq Files /\ "req_ir" \in Derived
      /\ f # "req_json" /\ f # "req_type_rules"
  BY <1>1, <1>2, FileNames DEF KeptTypes, MemoryTypes
<1>9. DescribeInv'
  <2>1. DiskTypes' = DiskTypes BY <1>8 DEF DiskTypes
  <2>2. stage' \notin Derived BY <1>1, FileNames
  <2> QED BY <1>1, <1>8, <2>1, <2>2 DEF IInv, DescribeInv, Present
<1>10. HoldInv'
  <2>1. stage \notin {"annotate", "generators"} \cup Derived BY <1>1, FileNames
  <2> QED BY <1>1, <1>8, <2>1 DEF IInv, HoldInv
<1> QED BY <1>3, <1>4, <1>5, <1>6, <1>7, <1>9, <1>10 DEF IInv

LEMMA SettleTypesKeeps ==
  ASSUME IInv, SettleTypes, UNCHANGED <<index, sources, equipment>>
  PROVE  IInv'
<1>1. /\ stage = "catalog" /\ types' = [s \in Sides |-> TypesOf(s)] /\ Enter("annotate")
      /\ UNCHANGED <<disk, cached, pickle, smtp, run, writing, tree, held, regenerated>>
      /\ stage' = "annotate" /\ step' = "open" /\ pending' = {}
      /\ UNCHANGED <<generators, offered, parsers, components>>
  BY StageNames, FileNames DEF SettleTypes, kept, Enter, equipment
<1>2. KeptTypes /\ MemoryTypes /\ ProgressTypes /\ ProducerTypes BY DEF IInv
<1>3. types' \in [Sides -> SUBSET Types]
  <2>1. \A s \in Sides : RuleFile[s] \in SideFiles /\ FieldFile[s] \in SideFiles
    BY DEF SideFiles
  <2> QED BY <1>1, <1>2, <2>1 DEF MemoryTypes, TypesOf
<1>4. KeptTypes' /\ MemoryTypes' /\ ListedHasSource'
  BY <1>1, <1>3 DEF IInv, KeptTypes, MemoryTypes, ListedHasSource
<1>5. ProgressTypes' BY <1>1, <1>2, EnterType, StageNames DEF ProgressTypes
<1>6. ProducerTypes' BY <1>1, <1>2 DEF ProducerTypes
<1>7. SurviveInv' BY <1>1 DEF IInv, SurviveInv, Saved
<1>8. DescribeInv' BY <1>1, FileNames DEF IInv, DescribeInv, Present, DiskTypes
<1>9. HoldInv'
  <2>1. types'["req"] = TypesOf("req") BY <1>1 DEF Sides
  <2>2. Grounded /\ TypesOf("req") = DiskTypes
    BY <1>1, FileNames DEF IInv, HoldInv, Grounded, TypesOf, DiskTypes
  <2> QED BY <1>1, <2>1, <2>2, FileNames DEF HoldInv, Grounded, DiskTypes
<1> QED BY <1>4, <1>5, <1>6, <1>7, <1>8, <1>9 DEF IInv

-----------------------------------------------------------------------------
(* The descriptions                                                        *)

LEMMA WriteDerivedKeeps ==
  ASSUME IInv, writing = {}, WriteDerived, UNCHANGED <<index, sources, equipment>>
  PROVE  IInv'
<1> DEFINE of == IF stage = "res_ir" THEN {} ELSE types["req"]
<1>1. /\ stage \in Derived /\ step = "ask" /\ pending = {} /\ step' = "open"
      /\ disk' = [disk EXCEPT ![stage] = [state |-> "torn", of |-> of]] /\ writing' = {stage}
      /\ UNCHANGED <<cached, pickle, smtp, run, stage, pos, pending, tries>>
      /\ UNCHANGED <<tree, held, types, regenerated>>
      /\ UNCHANGED <<generators, offered, parsers, components>>
  BY DEF WriteDerived, Write, Content, tasks, memory, equipment
<1>2. KeptTypes /\ MemoryTypes /\ ProgressTypes /\ ProducerTypes BY DEF IInv
<1>3. of \in SUBSET Types BY <1>2 DEF MemoryTypes, Sides
<1>4. stage # "res_ir" => of = DiskTypes
  BY <1>1 DEF IInv, HoldInv
<1> HIDE DEF of
<1>5. stage \in Files /\ stage \notin {"req_json", "req_type_rules"} /\ stage \notin Indexes
      /\ stage \notin {"trees", "fields", "rules", "catalog", "annotate", "generators"}
      /\ "req_json" \in Files /\ "req_type_rules" \in Files /\ "req_ir" \in Derived
      /\ Derived \subseteq Files /\ Sides \cap Derived = {}
  BY <1>1, FileNames, StageNames
<1>6. KeptTypes' /\ MemoryTypes' /\ ListedHasSource'
  <2>1. [state |-> "torn", of |-> of] \in [state : FileStates, of : SUBSET Types]
    BY <1>3 DEF FileStates
  <2> QED BY <1>1, <1>2, <1>5, <2>1 DEF IInv, KeptTypes, MemoryTypes, ListedHasSource
<1>7. ProgressTypes' BY <1>1, <1>2 DEF ProgressTypes, Limit
<1>8. ProducerTypes' BY <1>1, <1>2, <1>5, StageNames DEF ProducerTypes
<1>9. SurviveInv' BY <1>1, <1>5 DEF IInv, SurviveInv, Saved
<1>10. /\ disk'[stage] = [state |-> "torn", of |-> of]
       /\ \A g \in Files : g # stage => disk'[g] = disk[g]
  BY <1>1, <1>2, <1>5 DEF KeptTypes
<1>11. DiskTypes' = DiskTypes BY <1>5, <1>10 DEF DiskTypes
<1>12. DescribeInv'
  <2>1. Present("req_json")' /\ Present("req_type_rules")' /\ Present("req_ir")'
    <3>1. Present("req_json") /\ Present("req_type_rules")
      BY <1>1 DEF IInv, HoldInv, Grounded, Present
    <3>2. stage # "req_ir" => Present("req_ir") BY <1>1 DEF IInv, DescribeInv
    <3> QED BY <1>5, <1>10, <3>1, <3>2 DEF Present
  <2>2. disk'["req_json"].state # "stale" BY <1>5, <1>10 DEF IInv, DescribeInv
  <2>3. ASSUME ~regenerated, NEW g \in Derived \ {"res_ir"}, Present(g)'
        PROVE  disk'[g].of = DiskTypes
    <3>1. CASE g = stage BY <1>4, <1>10, <2>3, <3>1
    <3>2. CASE g # stage BY <1>5, <1>10, <2>3, <3>2 DEF IInv, DescribeInv, Present
    <3> QED BY <3>1, <3>2
  <2> QED BY <1>1, <1>5, <1>10, <1>11, <2>1, <2>2, <2>3 DEF DescribeInv
<1>13. HoldInv' BY <1>1, <1>5, <1>10, <1>11 DEF IInv, HoldInv, Grounded
<1> QED BY <1>6, <1>7, <1>8, <1>9, <1>12, <1>13 DEF IInv

LEMMA FinishWriteKeeps ==
  ASSUME IInv, NEW f \in Files, FinishWrite(f), UNCHANGED <<index, sources, equipment>>
  PROVE  IInv'
<1>1. /\ f \in writing /\ disk' = [disk EXCEPT ![f].state = "whole"] /\ writing' = {}
      /\ UNCHANGED <<cached, pickle, smtp, run, stage, step, pos, pending, tries>>
      /\ UNCHANGED <<tree, held, types, regenerated>>
      /\ UNCHANGED <<generators, offered, parsers, components>>
  BY DEF FinishWrite, progress, tasks, memory, equipment
<1>2. KeptTypes /\ MemoryTypes /\ ProgressTypes /\ ProducerTypes BY DEF IInv
<1>3. KeptTypes' /\ MemoryTypes' /\ ListedHasSource'
  BY <1>1, <1>2 DEF IInv, KeptTypes, MemoryTypes, ListedHasSource, FileStates
<1>4. ProgressTypes' BY <1>1, <1>2 DEF ProgressTypes, Limit
<1>5. ProducerTypes' BY <1>1, <1>2 DEF ProducerTypes
<1>6. SurviveInv'
  <2>1. Here' = Here /\ \A r \in Names : Saved(r)' = Saved(r) BY <1>1 DEF Here, Saved
  <2>2. \A j \in 1..Len(Rfcs) : Rfcs[j] \in Names BY DocumentsAssumption DEF Names
  <2> QED BY <1>1, <2>1, <2>2 DEF IInv, SurviveInv
<1>7. /\ disk[f].state = "torn" /\ disk'[f].state = "whole" /\ disk'[f].of = disk[f].of
      /\ \A g \in Files : g # f => disk'[g] = disk[g]
      /\ "req_json" \in Files /\ "req_type_rules" \in Files /\ "req_ir" \in Files
      /\ Derived \subseteq Files
  BY <1>1, <1>2, FileNames DEF IInv, DescribeInv, KeptTypes
<1>8. \A g \in Files : disk'[g].of = disk[g].of /\ Present(g)' = Present(g)
                       /\ (disk[g].state = "whole" => disk'[g].state = "whole")
  BY <1>7 DEF Present
<1>9. DiskTypes' = DiskTypes BY <1>7, <1>8 DEF DiskTypes
<1>10. DescribeInv'
  <2>1. disk'["req_json"].state # "stale" BY <1>7 DEF IInv, DescribeInv
  <2> QED BY <1>1, <1>7, <1>8, <1>9, <2>1 DEF IInv, DescribeInv
<1>11. HoldInv' BY <1>1, <1>7, <1>8, <1>9 DEF IInv, HoldInv, Grounded
<1> QED BY <1>3, <1>4, <1>5, <1>6, <1>10, <1>11 DEF IInv

LEMMA AnalysisKeeps ==
  ASSUME IInv, AnalysisNext, UNCHANGED <<index, sources, equipment>>
  PROVE  IInv'
<1>1. CASE WaitingStep BY <1>1, WaitingKeeps
<1>2. CASE MovingStep BY <1>2, MovingKeeps
<1>3. CASE LoadTree \/ ParseTree \/ TreeParsed \/ TreeAnnotated
  BY <1>3, LoadTreeKeeps, ParseTreeKeeps, TreeParsedKeeps, TreeAnnotatedKeeps
<1>4. ASSUME NEW l \in Leaves, NEW label \in Labels, LabelLeaf(l, label) PROVE IInv'
  BY <1>4, LabelLeafKeeps
<1>5. ASSUME NEW l \in Leaves, NEW related \in Related, RelateLeaf(l, related) PROVE IInv'
  BY <1>5, RelateLeafKeeps
<1>6. ASSUME NEW s \in Sides, LoadSide(s) PROVE IInv' BY <1>6, LoadSideKeeps
<1>7. ASSUME writing = {}, NEW s \in Sides, NEW answer \in Named[s], AnswerSide(s, answer)
      PROVE  IInv'
  BY <1>7, AnswerSideKeeps
<1>8. ASSUME writing = {}, NEW f \in SideFiles, NormalizeResponses(f) PROVE IInv'
  BY <1>8, NormalizeKeeps
<1>9. CASE SettleTypes BY <1>9, SettleTypesKeeps
<1>10. CASE writing = {} /\ WriteDerived BY <1>10, WriteDerivedKeeps
<1>11. ASSUME NEW f \in Files, FinishWrite(f) PROVE IInv' BY <1>11, FinishWriteKeeps
<1>12. CASE AnalysisStep
  BY <1>12, <1>1, <1>2, <1>3, <1>4, <1>5, <1>6, <1>7, <1>8, <1>9, <1>10
  DEF AnalysisStep, WaitingStep, MovingStep
<1> QED BY <1>11, <1>12 DEF AnalysisNext

-----------------------------------------------------------------------------
(* The producer                                                            *)

\* The producer leaves the analysis' files and results alone, and never goes back to it.
LEMMA ProducerKeeps ==
  ASSUME IInv, UNCHANGED <<kept, run, memory, regenerated>>,
         stage \in Indexes, stage' \in {"parser", "checkers", "observers", "prepared", "failed"}
                              \cup {stage},
         writing' \subseteq Indexes \/ writing' = writing,
         ProgressTypes', ProducerTypes', ListedHasSource'
  PROVE  IInv'
<1>1. UNCHANGED <<disk, cached, pickle, smtp, tree, held, types>> BY DEF kept, memory
<1>2. KeptTypes' /\ MemoryTypes' BY <1>1 DEF IInv, KeptTypes, MemoryTypes
<1>3. /\ stage' \notin {"trees", "fields", "rules", "catalog", "annotate"}
      /\ stage' \notin Derived /\ Indexes \cap Files = {}
      /\ stage' = "generators" => stage = "generators"
  BY FileNames, StageNames
<1>4. SurviveInv' BY <1>3 DEF SurviveInv
<1>5. DescribeInv' BY <1>1, <1>3 DEF IInv, DescribeInv, Present, DiskTypes
<1>6. HoldInv' BY <1>1, <1>3 DEF IInv, HoldInv, Grounded, DiskTypes
<1> QED BY <1>2, <1>4, <1>5, <1>6 DEF IInv

\* A producer that goes on to another stage, or fails.
LEMMA LeaveKeeps ==
  ASSUME IInv, UNCHANGED <<kept, run, memory, regenerated>>, UNCHANGED <<index, sources>>,
         writing' = writing \/ writing' = {}, stage \in Indexes,
         NEW s \in {"parser", "checkers", "observers", "prepared", "failed"}, Enter(s),
         generators' \subseteq Types /\ offered' \subseteq Types /\ parsers' \in BOOLEAN,
         components' \in [Kinds -> SUBSET Prewarm],
         generators' \in {generators, index["generators"].of}
  PROVE  IInv'
<1>1. s \in Stages /\ stage' = s /\ step' = "open" BY StageNames DEF Enter
<1>2. ProgressTypes' BY <1>1, EnterType DEF IInv, ProgressTypes
<1>3. ListedHasSource' BY DEF IInv, ListedHasSource
<1>4. ProducerTypes' BY <1>1 DEF IInv, ProducerTypes
<1> QED BY <1>1, <1>2, <1>3, <1>4, ProducerKeeps

\* A producer that stays in its stage.
LEMMA WorkKeeps ==
  ASSUME IInv, UNCHANGED <<kept, run, memory, regenerated>>, stage' = stage, stage \in Indexes,
         writing' \subseteq Indexes \/ writing' = writing, ProgressTypes',
         index' \in [Indexes -> [state : FileStates, of : SUBSET (Types \cup Prewarm)]],
         sources' \subseteq Types /\ offered' \subseteq Types /\ parsers' \in BOOLEAN,
         components' \in [Kinds -> SUBSET Prewarm],
         stage = "generators" /\ step' = "ask" => pending' \subseteq Types,
         stage \in Kinds /\ step' = "ask" => pending' \subseteq Prewarm,
         ListedHasSource'
  PROVE  IInv'
<1>1. ProducerTypes' BY DEF IInv, ProducerTypes
<1> QED BY <1>1, ProducerKeeps

LEMMA IndexWritten ==
  ASSUME ProducerTypes, stage \in Indexes, NEW of \in SUBSET (Types \cup Prewarm), WriteIndex(of)
  PROVE  /\ index' \in [Indexes -> [state : FileStates, of : SUBSET (Types \cup Prewarm)]]
         /\ index'[stage].of = of /\ writing' \subseteq Indexes
         /\ \A f \in Indexes : f # stage => index'[f] = index[f]
<1>1. [state |-> "torn", of |-> of] \in [state : FileStates, of : SUBSET (Types \cup Prewarm)]
  BY DEF FileStates
<1> QED BY <1>1 DEF WriteIndex, Content, ProducerTypes

LEMMA ListedTypes ==
  ASSUME IInv
  PROVE  generators \subseteq Types /\ index["generators"].of \subseteq Types
BY DEF IInv, ListedHasSource, ProducerTypes

LEMMA GeneratorsKeep ==
  ASSUME IInv, writing = {},
         \/ LoadGenerators \/ TornGenerators \/ GenerateGenerators
         \/ GeneratorsMade \/ NoGenerators
         \/ \E t \in pending : GeneratorMade(t) \/ GeneratorFails(t)
  PROVE  IInv'
<1>1. /\ ProducerTypes /\ ProgressTypes /\ MemoryTypes /\ KeptTypes /\ ListedHasSource
      /\ generators \subseteq Types /\ index["generators"].of \subseteq Types
      /\ offered \subseteq Types /\ parsers \in BOOLEAN
      /\ components \in [Kinds -> SUBSET Prewarm] /\ types["req"] \subseteq Types
  BY ListedTypes DEF IInv, ProducerTypes, MemoryTypes, Sides
<1>2. /\ "generators" \in Indexes /\ "generators" \notin Kinds
      /\ "generators" \notin DOMAIN After /\ Following["generators"] = "parser"
  BY StageNames
<1>3. CASE LoadGenerators
  BY <1>1, <1>2, <1>3, LeaveKeeps DEF LoadGenerators, Proceed, Unchanged
<1>4. CASE TornGenerators \/ NoGenerators
  BY <1>1, <1>2, <1>4, LeaveKeeps
  DEF TornGenerators, NoGenerators, GiveUp, Unchanged, equipment
<1>5. CASE GenerateGenerators
  <2>1. ProgressTypes' BY <1>1, <1>5, AskType DEF GenerateGenerators, Unchanged
  <2>2. disk["req_ir"].of \subseteq Types BY <1>1, FileNames DEF KeptTypes
  <2> QED BY <1>1, <1>2, <1>5, <2>1, <2>2, WorkKeeps
      DEF GenerateGenerators, Unchanged, Ask, equipment, ProducerTypes, ListedHasSource
<1>6. CASE GeneratorsMade
  <2>1. /\ stage = "generators" /\ WriteIndex(generators) /\ offered' = generators
        /\ UNCHANGED <<stage, step, pos, pending, tries, heard>>
        /\ UNCHANGED <<sources, generators, parsers, components>>
        /\ UNCHANGED <<kept, run, memory, regenerated>>
    BY <1>6 DEF GeneratorsMade, Listed, progress, tasks, Unchanged
  <2>2. ProgressTypes' BY <1>1, <2>1 DEF ProgressTypes, Limit
  <2>3. /\ index' \in [Indexes -> [state : FileStates, of : SUBSET (Types \cup Prewarm)]]
        /\ index'["generators"].of = generators /\ writing' \subseteq Indexes
    BY <1>1, <1>2, <2>1, IndexWritten
  <2>4. ListedHasSource' BY <1>1, <2>1, <2>3 DEF ListedHasSource
  <2> QED BY <1>1, <1>2, <2>1, <2>2, <2>3, <2>4, WorkKeeps DEF ProducerTypes
<1>7. ASSUME NEW t \in pending, GeneratorMade(t) PROVE IInv'
  <2>1. ProgressTypes' BY <1>1, <1>7, DoneType DEF GeneratorMade, Unchanged
  <2>2. t \in Types BY <1>1, <1>7 DEF GeneratorMade, ProducerTypes
  <2> QED BY <1>1, <1>2, <1>7, <2>1, <2>2, WorkKeeps
      DEF GeneratorMade, Unchanged, Done, ProducerTypes, ListedHasSource
<1>8. ASSUME NEW t \in pending, GeneratorFails(t) PROVE IInv'
  <2>1. stage = "generators" /\ step = "ask" /\ UNCHANGED <<kept, run, memory, regenerated>>
        /\ UNCHANGED <<index, sources, writing, generators, offered, parsers, components>>
        /\ ((tries[t] + 1 < MaxRetries /\ Tried(t)) \/ Done(t))
    BY <1>8 DEF GeneratorFails, Unchanged, equipment
  <2>2. CASE tries[t] + 1 < MaxRetries /\ Tried(t)
    <3>1. ProgressTypes' BY <1>1, <1>2, <2>1, <2>2, TriedType
    <3> QED BY <1>1, <1>2, <2>1, <2>2, <3>1, WorkKeeps
        DEF Tried, ProducerTypes, ListedHasSource
  <2>3. CASE Done(t)
    <3>1. ProgressTypes' BY <1>1, <2>1, <2>3, DoneType
    <3> QED BY <1>1, <1>2, <2>1, <2>3, <3>1, WorkKeeps
        DEF Done, ProducerTypes, ListedHasSource
  <2> QED BY <2>1, <2>2, <2>3
<1> QED BY <1>3, <1>4, <1>5, <1>6, <1>7, <1>8

LEMMA ParserKeeps ==
  ASSUME IInv, writing = {},
         \/ LoadParser \/ TornParser \/ GenerateParser
         \/ ParserFails \/ ParserFailed \/ ParserNotReplaced \/ ParserMade
  PROVE  IInv'
<1>1. /\ ProducerTypes /\ ProgressTypes /\ ListedHasSource
      /\ generators \subseteq Types /\ offered \subseteq Types /\ parsers \in BOOLEAN
      /\ components \in [Kinds -> SUBSET Prewarm]
  BY ListedTypes DEF IInv, ProducerTypes
<1>2. /\ "parser" \in Indexes /\ "parser" \notin Kinds /\ "parser" # "generators"
      /\ "parser" \notin DOMAIN After /\ Following["parser"] = "checkers"
      /\ "generators" \in Indexes
  BY StageNames
<1>3. CASE LoadParser
  BY <1>1, <1>2, <1>3, LeaveKeeps DEF LoadParser, Proceed, Unchanged
<1>4. CASE TornParser \/ ParserNotReplaced
  BY <1>1, <1>2, <1>4, LeaveKeeps
  DEF TornParser, ParserNotReplaced, Proceed, Unchanged, equipment
<1>5. CASE ParserFailed
  BY <1>1, <1>2, <1>5, LeaveKeeps DEF ParserFailed, GiveUp, Unchanged, equipment
<1>6. CASE GenerateParser
  <2>1. ProgressTypes' BY <1>1, <1>2, <1>6, AskType DEF GenerateParser, Unchanged
  <2> QED BY <1>1, <1>2, <1>6, <2>1, WorkKeeps
      DEF GenerateParser, Unchanged, Ask, equipment, ProducerTypes, ListedHasSource
<1>7. CASE ParserFails
  <2>1. /\ stage = "parser" /\ step = "ask" /\ tries["__all__"] + 1 < MaxRetries
        /\ Tried("__all__") /\ UNCHANGED <<kept, run, memory, regenerated>>
        /\ UNCHANGED <<index, sources, writing, generators, offered, parsers, components>>
    BY <1>7 DEF ParserFails, Unchanged, equipment
  <2>2. ProgressTypes'
    <3>1. UNCHANGED <<stage, step, pos, pending>>
          /\ tries' = [tries EXCEPT !["__all__"] = @ + 1]
      BY <2>1 DEF Tried
    <3>2. MaxRetries \in Nat /\ DOMAIN tries' = DOMAIN tries
      BY <3>1, PreparationAssumption
    <3>3. \A v \in DOMAIN tries' : tries'[v] \in 0..MaxRetries - 1
      <4> SUFFICES ASSUME NEW v \in DOMAIN tries PROVE tries'[v] \in 0..MaxRetries - 1
        BY <3>2
      <4>1. tries[v] \in 0..MaxRetries - 1 BY <1>1, <1>2, <2>1 DEF ProgressTypes
      <4> QED BY <2>1, <3>1, <3>2, <4>1
    <3> QED BY <1>1, <1>2, <2>1, <3>1, <3>2, <3>3 DEF ProgressTypes
  <2> QED BY <1>1, <1>2, <2>1, <2>2, WorkKeeps DEF Tried, ProducerTypes, ListedHasSource
<1>8. CASE ParserMade
  <2>1. /\ stage = "parser" /\ WriteIndex({}) /\ parsers' = TRUE
        /\ UNCHANGED <<stage, step, pos, pending, tries, heard>>
        /\ UNCHANGED <<sources, generators, offered, components>>
        /\ UNCHANGED <<kept, run, memory, regenerated>>
    BY <1>8 DEF ParserMade, progress, tasks, Unchanged
  <2>2. ProgressTypes' BY <1>1, <2>1 DEF ProgressTypes, Limit
  <2>3. /\ index' \in [Indexes -> [state : FileStates, of : SUBSET (Types \cup Prewarm)]]
        /\ index'["generators"] = index["generators"] /\ writing' \subseteq Indexes
    BY <1>1, <1>2, <2>1, IndexWritten
  <2>4. ListedHasSource' BY <1>1, <2>1, <2>3 DEF ListedHasSource
  <2> QED BY <1>1, <1>2, <2>1, <2>2, <2>3, <2>4, WorkKeeps DEF ProducerTypes
<1> QED BY <1>3, <1>4, <1>5, <1>6, <1>7, <1>8

LEMMA ComponentsKeep ==
  ASSUME IInv, writing = {},
         \/ \E current \in SUBSET Prewarm : LoadComponents(current)
         \/ TornCheckers \/ GenerateComponents \/ ComponentsMade
         \/ \E t \in pending : ComponentMade(t) \/ ComponentFails(t)
  PROVE  IInv'
<1>1. /\ ProducerTypes /\ ProgressTypes /\ ListedHasSource
      /\ generators \subseteq Types /\ offered \subseteq Types /\ parsers \in BOOLEAN
      /\ components \in [Kinds -> SUBSET Prewarm]
  BY ListedTypes DEF IInv, ProducerTypes
<1>2. /\ Kinds \subseteq Indexes /\ "generators" \notin Kinds /\ Kinds \cap DOMAIN After = {}
      /\ \A k \in Kinds : Following[k] \in {"observers", "prepared"}
      /\ "checkers" \in Kinds /\ "generators" \in Indexes
  BY StageNames
<1>3. ASSUME NEW current \in SUBSET Prewarm, LoadComponents(current) PROVE IInv'
  <2>1. /\ stage \in Kinds /\ components' = [components EXCEPT ![stage] = current]
        /\ UNCHANGED <<sources, generators, offered, parsers>>
        /\ UNCHANGED <<kept, run, memory, regenerated>>
        /\ Proceed \/ (Ask(Prewarm \ current) /\ UNCHANGED <<index, writing>>)
    BY <1>3, Zenon DEF LoadComponents, Unchanged
  <2>2. components' \in [Kinds -> SUBSET Prewarm] BY <1>1, <2>1
  <2>3. CASE Proceed
    BY <1>1, <1>2, <2>1, <2>2, <2>3, LeaveKeeps DEF Proceed
  <2>4. CASE Ask(Prewarm \ current) /\ UNCHANGED <<index, writing>>
    <3>1. ProgressTypes' BY <1>1, <1>2, <2>1, <2>4, StageNames, AskType
    <3> QED BY <1>1, <1>2, <2>1, <2>2, <2>4, <3>1, WorkKeeps
        DEF Ask, ProducerTypes, ListedHasSource
  <2> QED BY <2>1, <2>3, <2>4
<1>4. CASE TornCheckers
  BY <1>1, <1>2, <1>4, LeaveKeeps DEF TornCheckers, Proceed, Unchanged, equipment
<1>5. CASE GenerateComponents
  <2>1. stage \in Kinds /\ stage \notin {"trees", "annotate"}
    BY <1>5, StageNames DEF GenerateComponents
  <2>2. ProgressTypes' BY <1>1, <1>5, <2>1, AskType DEF GenerateComponents, Unchanged
  <2> QED BY <1>1, <1>2, <1>5, <2>1, <2>2, WorkKeeps
      DEF GenerateComponents, Unchanged, Ask, equipment, ProducerTypes, ListedHasSource
<1>6. CASE ComponentsMade
  <2>1. /\ stage \in Kinds /\ WriteIndex(components[stage])
        /\ UNCHANGED <<stage, step, pos, pending, tries, heard>>
        /\ UNCHANGED <<sources, generators, offered, parsers, components>>
        /\ UNCHANGED <<kept, run, memory, regenerated>>
    BY <1>6 DEF ComponentsMade, progress, tasks, Unchanged, equipment
  <2>2. ProgressTypes' BY <1>1, <2>1 DEF ProgressTypes, Limit
  <2>3. components[stage] \subseteq Types \cup Prewarm BY <1>1, <2>1
  <2>4. /\ index' \in [Indexes -> [state : FileStates, of : SUBSET (Types \cup Prewarm)]]
        /\ index'["generators"] = index["generators"] /\ writing' \subseteq Indexes
    BY <1>1, <1>2, <2>1, <2>3, IndexWritten
  <2>5. ListedHasSource' BY <1>1, <2>1, <2>4 DEF ListedHasSource
  <2> QED BY <1>1, <1>2, <2>1, <2>2, <2>4, <2>5, WorkKeeps DEF ProducerTypes
<1>7. ASSUME NEW t \in pending, ComponentMade(t) PROVE IInv'
  <2>1. ProgressTypes' BY <1>1, <1>7, DoneType DEF ComponentMade, Unchanged
  <2>2. stage \in Kinds /\ t \in Prewarm BY <1>1, <1>7 DEF ComponentMade, ProducerTypes
  <2>3. components' \in [Kinds -> SUBSET Prewarm]
    BY <1>1, <1>7, <2>2 DEF ComponentMade
  <2> QED BY <1>1, <1>2, <1>7, <2>1, <2>2, <2>3, WorkKeeps
      DEF ComponentMade, Unchanged, Done, ProducerTypes, ListedHasSource
<1>8. ASSUME NEW t \in pending, ComponentFails(t) PROVE IInv'
  <2>1. ProgressTypes' BY <1>1, <1>8, DoneType DEF ComponentFails, Unchanged
  <2> QED BY <1>1, <1>2, <1>8, <2>1, WorkKeeps
      DEF ComponentFails, Unchanged, Done, equipment, ProducerTypes, ListedHasSource
<1> QED BY <1>3, <1>4, <1>5, <1>6, <1>7, <1>8

LEMMA FinishIndexKeeps ==
  ASSUME IInv, NEW f \in Indexes, FinishIndex(f)
  PROVE  IInv'
<1>1. /\ stage = f /\ index' = [index EXCEPT ![f].state = "whole"] /\ writing' = {}
      /\ Enter(Following[f]) /\ UNCHANGED <<kept, run, memory, regenerated>>
      /\ UNCHANGED <<sources, generators, offered, parsers, components>>
  BY DEF FinishIndex, Unchanged, equipment
<1>2. ProducerTypes /\ ListedHasSource /\ run' \in 1..MaxRuns
  BY <1>1 DEF IInv, ProgressTypes
<1>3. /\ Following[f] \in {"parser", "checkers", "observers", "prepared"}
      /\ Following[f] \in Stages /\ "generators" \in Indexes
  BY StageNames
<1>4. ProgressTypes' BY <1>1, <1>2, <1>3, EnterType
<1>5. /\ index' \in [Indexes -> [state : FileStates, of : SUBSET (Types \cup Prewarm)]]
      /\ index'["generators"].of = index["generators"].of
  BY <1>1, <1>2, <1>3 DEF ProducerTypes, FileStates
<1>6. stage' = Following[f] /\ step' = "open" BY <1>1 DEF Enter
<1>7. ProducerTypes' BY <1>1, <1>2, <1>5, <1>6 DEF ProducerTypes
<1>8. ListedHasSource' BY <1>1, <1>2, <1>5 DEF ListedHasSource
<1> QED BY <1>1, <1>3, <1>4, <1>6, <1>7, <1>8, ProducerKeeps

-----------------------------------------------------------------------------
(* Starting                                                                *)

LEMMA InitInv == Init => IInv
<1> SUFFICES ASSUME Init PROVE IInv OBVIOUS
<1>1. /\ AnalysisInit /\ index = [f \in Indexes |-> [state |-> "absent", of |-> {}]]
      /\ sources = {} /\ generators = {} /\ offered = {} /\ parsers = FALSE
      /\ components = [k \in Kinds |-> {}]
      /\ run = 1 /\ stage = "trees" /\ step = "open" /\ pos = 1 /\ pending = {} /\ tries = <<>>
      /\ writing = {} /\ smtp \in BOOLEAN /\ regenerated = FALSE
      /\ cached \in [Names -> {"absent", "damaged", "whole"}]
      /\ pickle = [r \in Names |-> IF cached[r] = "whole" THEN LegacyTree ELSE Blank]
      /\ tree = [r \in Names |-> Blank] /\ types = Unmarked /\ held = [f \in SideFiles |-> {}]
  BY DEF Init, AnalysisInit, Content, NoComponents
<1>2. Legacy \subseteq Types BY DEF Types
<1>3. LegacyTypes \in [Sides -> SUBSET Types] BY <1>2 DEF LegacyTypes
<1>4. LegacyTree \in Trees BY <1>3 DEF LegacyTree, Trees, Labels
<1>5. disk \in [Files -> [state : FileStates, of : SUBSET Types]]
  <2>1. \A state \in FileStates, of \in SUBSET Types :
          Content(state, of) \in [state : FileStates, of : SUBSET Types]
    BY DEF Content
  <2>2. {"absent", "stale", "whole"} \subseteq FileStates /\ {} \in SUBSET Types
    BY DEF FileStates
  <2>3. \A state \in {"absent", "stale", "whole"} :
          /\ Content(state, {}) \in [state : FileStates, of : SUBSET Types]
          /\ Content(state, Legacy) \in [state : FileStates, of : SUBSET Types]
    BY <1>2, <2>1, <2>2
  <2> QED BY <1>1, <2>3 DEF AnalysisInit
<1>6. KeptTypes BY <1>1, <1>4, <1>5, BlankType DEF KeptTypes
<1>7. MemoryTypes BY <1>1, BlankType DEF MemoryTypes
<1>8. ProgressTypes
  <2>1. Len(Rfcs) \in Nat /\ DOMAIN <<>> = {} /\ 1 \in 1..MaxRuns
    BY DocumentsAssumption, LimitsAssumption
  <2> QED BY <1>1, <2>1, StageNames DEF ProgressTypes
<1>9. ProducerTypes /\ ListedHasSource
  <2>1. [state |-> "absent", of |-> {}] \in [state : FileStates, of : SUBSET (Types \cup Prewarm)]
    BY DEF FileStates
  <2>2. "generators" \in Indexes BY StageNames
  <2> QED BY <1>1, <2>1, <2>2 DEF ProducerTypes, ListedHasSource
<1>10. SurviveInv BY <1>1, DocumentsAssumption DEF SurviveInv
<1>11. DescribeInv
  <2>1. CASE disk = [f \in Files |-> Content("absent", {})]
    BY <1>1, <2>1, FileNames DEF DescribeInv, Present, Content
  <2>2. CASE disk = [f \in Files |->
               IF f \in {RuleFile[s] : s \in Sides} THEN Content("stale", Legacy)
               ELSE IF f \in {"res_json", "res_ir"} THEN Content("whole", {})
               ELSE Content("whole", Legacy)]
    <3>1. {RuleFile[s] : s \in Sides} = {"req_type_rules", "res_type_rules"}
      BY FileNames
    <3>2. disk["req_type_rules"].of = Legacy /\ disk["req_json"].of = Legacy
          /\ disk["req_json"].state = "whole"
      BY <2>2, <3>1, FileNames DEF Content
    <3>3. \A f \in Files : Present(f) BY <2>2 DEF Present, Content
    <3>4. \A f \in Derived \ {"res_ir"} : disk[f].of = Legacy
      BY <2>2, <3>1, FileNames DEF Content
    <3>5. DiskTypes = Legacy BY <3>2 DEF DiskTypes
    <3> QED BY <1>1, <3>2, <3>3, <3>4, <3>5, FileNames DEF DescribeInv
  <2> QED BY <1>1, <2>1, <2>2 DEF AnalysisInit
<1>12. HoldInv BY <1>1, FileNames DEF HoldInv
<1> QED BY <1>6, <1>7, <1>8, <1>9, <1>10, <1>11, <1>12 DEF IInv

LEMMA RestartKeeps ==
  ASSUME IInv, Restart
  PROVE  IInv'
<1>1. /\ run' = run + 1 /\ run < MaxRuns /\ Enter("trees") /\ writing' = {}
      /\ tree' = [r \in Names |-> Blank] /\ types' = Unmarked
      /\ held' = [f \in SideFiles |-> {}]
      /\ UNCHANGED <<disk, cached, pickle, smtp, regenerated, index, sources>>
      /\ generators' = {} /\ offered' = {} /\ parsers' = FALSE
      /\ components' = [k \in Kinds |-> {}]
  BY DEF Restart, AnalysisRestarts, kept, NoComponents
<1>2. stage' = "trees" /\ step' = "open" /\ pos' = 1 BY <1>1 DEF Enter
<1>3. KeptTypes' BY <1>1 DEF IInv, KeptTypes
<1>4. MemoryTypes' BY <1>1, BlankType DEF IInv, MemoryTypes
<1>5. ProgressTypes'
  <2>1. run' \in 1..MaxRuns BY <1>1, LimitsAssumption DEF IInv, ProgressTypes
  <2> QED BY <1>1, <2>1, EnterType, StageNames
<1>6. ProducerTypes' /\ ListedHasSource'
  BY <1>1, <1>2, StageNames DEF IInv, ProducerTypes, ListedHasSource
<1>7. SurviveInv' BY <1>2, DocumentsAssumption DEF SurviveInv
<1>8. DescribeInv' BY <1>1, <1>2, FileNames DEF IInv, DescribeInv, Present, DiskTypes
<1>9. HoldInv' BY <1>2, FileNames DEF HoldInv
<1> QED BY <1>3, <1>4, <1>5, <1>6, <1>7, <1>8, <1>9 DEF IInv

LEMMA Idle ==
  ASSUME IInv, UNCHANGED vars
  PROVE  IInv'
<1>1. /\ UNCHANGED <<disk, cached, pickle, smtp, run, stage, step, pos, pending, tries, heard>>
      /\ UNCHANGED <<writing, tree, held, types, regenerated>>
      /\ UNCHANGED <<index, sources, generators, offered, parsers, components>>
  BY DEF vars, analysisVars, kept, progress, tasks, memory, equipment
<1>2. KeptTypes' /\ MemoryTypes' /\ ProgressTypes' /\ ProducerTypes' /\ ListedHasSource'
  BY <1>1
  DEF IInv, KeptTypes, MemoryTypes, ProgressTypes, Limit, ProducerTypes, ListedHasSource
<1>3. SurviveInv' BY <1>1 DEF IInv, SurviveInv, Saved, Here
<1>4. DescribeInv' BY <1>1 DEF IInv, DescribeInv, Present, DiskTypes
<1>5. HoldInv' BY <1>1 DEF IInv, HoldInv, Grounded, DiskTypes
<1> QED BY <1>2, <1>3, <1>4, <1>5 DEF IInv

\* IInv is inductive.
LEMMA NextKeeps == IInv /\ [Next]_vars => IInv'
<1> SUFFICES ASSUME IInv, [Next]_vars PROVE IInv' OBVIOUS
<1>1. CASE AnalysisNext /\ UNCHANGED <<index, sources, equipment>> BY <1>1, AnalysisKeeps
<1>2. CASE ProducerStep
  BY <1>2, GeneratorsKeep, ParserKeeps, ComponentsKeep DEF ProducerStep
<1>3. ASSUME NEW f \in Indexes, FinishIndex(f) PROVE IInv' BY <1>3, FinishIndexKeeps
<1>4. CASE Restart BY <1>4, RestartKeeps
<1>5. CASE UNCHANGED vars BY <1>5, Idle
<1> QED BY <1>1, <1>2, <1>3, <1>4, <1>5 DEF Next, Works

LEMMA Invariance == Spec => []IInv
BY InitInv, NextKeeps, PTL DEF Spec

-----------------------------------------------------------------------------
(* What the tasks draw on                                                  *)

\* A tree relates its sections to the types it is marked with.
Fits(t) == \A l \in Leaves, s \in Sides : t.related[l][s] \subseteq t.marked[s]

\* While a tree is annotated, the sections that are done fit the new types and the rest may
\* still fit the old ones.
EvidenceInv ==
  /\ \A r \in Names : Fits(pickle[r])
  /\ \A r \in Names : (stage = "annotate" /\ step = "ask" /\ r = Here) \/ Fits(tree[r])
  /\ stage = "annotate" /\ step = "ask" =>
       \A l \in Leaves \ pending, s \in Sides : tree[Here].related[l][s] \subseteq types[s]
  /\ stage = "annotate" /\ types # Unmarked =>
       \A j \in 1..Len(Rfcs) : j < pos => tree[Rfcs[j]].marked = types
  /\ stage \in Derived /\ types # Unmarked => \A r \in Names : tree[r].marked = types

LEMMA BlankFits == Fits(Blank)
BY DEF Fits, Blank, Unmarked

LEMMA EvidenceInit == Init => EvidenceInv
<1> SUFFICES ASSUME Init PROVE EvidenceInv OBVIOUS
<1>1. /\ pickle = [r \in Names |-> IF cached[r] = "whole" THEN LegacyTree ELSE Blank]
      /\ tree = [r \in Names |-> Blank] /\ stage = "trees"
  BY DEF Init, AnalysisInit
<1>2. Fits(LegacyTree) BY DEF Fits, LegacyTree, LegacyTypes
<1> QED BY <1>1, <1>2, BlankFits, FileNames DEF EvidenceInv

\* A step that leaves trees and types alone, and does not come to or from the annotation.
LEMMA EvidenceStays ==
  ASSUME EvidenceInv, UNCHANGED <<tree, pickle, types>>,
         \/ UNCHANGED <<stage, step, pos, pending>>
         \/ /\ stage # "annotate" /\ stage' # "annotate"
            /\ stage' \in Derived => stage \in Derived
  PROVE  EvidenceInv'
BY DEF EvidenceInv, Here

LEMMA EvidenceOfTrees ==
  ASSUME IInv, EvidenceInv, stage = "trees",
         \/ LoadTree \/ ParseTree \/ TreeParsed
         \/ \E l \in Leaves, label \in Labels : LabelLeaf(l, label)
  PROVE  EvidenceInv'
<1>1. tree \in [Names -> Trees] /\ pickle \in [Names -> Trees] /\ "trees" \notin Derived
  BY FileNames DEF IInv, MemoryTypes, KeptTypes
<1>2. SUFFICES stage' = "trees" /\ \A r \in Names : Fits(pickle'[r]) /\ Fits(tree'[r])
  BY <1>1 DEF EvidenceInv
<1>3. \A r \in Names : Fits(pickle[r]) /\ Fits(tree[r]) BY DEF EvidenceInv
<1>4. CASE LoadTree
  <2>1. pos \in 1..Len(Rfcs)
    BY <1>4, DocumentsAssumption DEF LoadTree, IInv, ProgressTypes
  <2>2. Here \in Names BY <2>1, HereType
  <2> QED BY <1>1, <1>3, <1>4, <2>2 DEF LoadTree, NextDocument, kept
<1>5. CASE ParseTree BY <1>1, <1>3, <1>5, BlankFits DEF ParseTree, Ask, kept
<1>6. CASE TreeParsed
  <2>1. pos \in 1..Len(Rfcs)
    BY <1>6, DocumentsAssumption DEF TreeParsed, IInv, ProgressTypes
  <2>2. Here \in Names BY <2>1, HereType
  <2> QED BY <1>1, <1>3, <1>6, <2>2 DEF TreeParsed, SaveTree, NextDocument, memory
<1>7. ASSUME NEW l \in Leaves, NEW label \in Labels, LabelLeaf(l, label)
      PROVE  stage' = "trees" /\ \A r \in Names : Fits(pickle'[r]) /\ Fits(tree'[r])
  <2>1. /\ tree' = [tree EXCEPT ![Here].label[l] = label] /\ pickle' = pickle /\ stage' = stage
    BY <1>7 DEF LabelLeaf, Done, kept
  <2>2. \A r \in Names : tree'[r].related = tree[r].related /\ tree'[r].marked = tree[r].marked
    <3> SUFFICES ASSUME NEW r \in Names
                 PROVE  tree'[r].related = tree[r].related /\ tree'[r].marked = tree[r].marked
      OBVIOUS
    <3>1. tree[r] \in Trees BY <1>1
    <3> QED BY <1>1, <2>1, <3>1 DEF Trees
  <2> QED BY <1>3, <2>1, <2>2 DEF Fits
<1> QED BY <1>4, <1>5, <1>6, <1>7

\* A document is left with its tree marked with the types of this run.
LEMMA EvidenceMoves ==
  ASSUME IInv, EvidenceInv, stage = "annotate", stage' = "annotate", step' = "open",
         pos' = pos + 1, types' = types, NEW h \in Names, h = Here, pos \in 1..Len(Rfcs),
         \A r \in Names : r # h => tree'[r] = tree[r] /\ pickle'[r] = pickle[r],
         Fits(pickle'[h]), Fits(tree'[h]), tree'[h].marked = types
  PROVE  EvidenceInv'
<1>1. \A j \in 1..Len(Rfcs) : Rfcs[j] \in Names BY DocumentsAssumption DEF Names
<1>2. Len(Rfcs) \in Nat /\ "annotate" \notin Derived BY DocumentsAssumption, FileNames
<1>3. \A r \in Names : Fits(pickle'[r]) /\ Fits(tree'[r])
  <2>1. \A r \in Names : r # h => Fits(pickle[r]) /\ Fits(tree[r]) BY DEF EvidenceInv
  <2> QED BY <2>1
<1>4. ASSUME types # Unmarked, NEW j \in 1..Len(Rfcs), j < pos'
      PROVE  tree'[Rfcs[j]].marked = types
  <2>1. CASE Rfcs[j] = h BY <2>1
  <2>2. CASE Rfcs[j] # h
    <3>1. j < pos BY <1>2, <1>4, <2>2 DEF Here
    <3> QED BY <1>1, <1>4, <2>2, <3>1 DEF EvidenceInv
  <2> QED BY <2>1, <2>2
<1> QED BY <1>2, <1>3, <1>4 DEF EvidenceInv

LEMMA EvidenceOfAnnotation ==
  ASSUME IInv, EvidenceInv, stage = "annotate",
         \/ KeepAnnotations \/ Annotate \/ TreeAnnotated
         \/ \E l \in Leaves, related \in Related : RelateLeaf(l, related)
  PROVE  EvidenceInv'
<1>1. /\ tree \in [Names -> Trees] /\ pickle \in [Names -> Trees]
      /\ "annotate" \notin Derived /\ pos \in 1..Len(Rfcs)
  BY FileNames, DocumentsAssumption
  DEF IInv, MemoryTypes, KeptTypes, ProgressTypes, KeepAnnotations, Annotate, TreeAnnotated,
      RelateLeaf
<1>2. PICK h \in Names : h = Here BY <1>1, HereType
<1>3. tree[h] \in Trees BY <1>1
<1>4. CASE KeepAnnotations
  <2>1. /\ step = "open" /\ tree[h].marked = types /\ UNCHANGED <<tree, pickle, types, stage>>
        /\ step' = "open" /\ pos' = pos + 1
    BY <1>2, <1>4 DEF KeepAnnotations, Current, NextDocument, kept, memory
  <2>2. Fits(pickle[h]) /\ Fits(tree[h]) BY <2>1 DEF EvidenceInv
  <2> QED BY <1>1, <1>2, <2>1, <2>2, EvidenceMoves
<1>5. CASE Annotate
  <2>1. /\ step = "open" /\ UNCHANGED <<tree, pickle, types, stage, pos>>
        /\ step' = "ask" /\ pending' = Leaves
    BY <1>5 DEF Annotate, Ask, kept, memory
  <2> QED BY <1>1, <2>1 DEF EvidenceInv
<1>6. CASE TreeAnnotated
  <2> DEFINE t == [tree[h] EXCEPT !.marked = types]
  <2>1. /\ step = "ask" /\ pending = {} /\ UNCHANGED <<types, stage>>
        /\ tree' = [tree EXCEPT ![h] = t] /\ pickle' = [pickle EXCEPT ![h] = t]
        /\ step' = "open" /\ pos' = pos + 1
    BY <1>2, <1>6 DEF TreeAnnotated, SaveTree, NextDocument
  <2>2. t.marked = types /\ t.related = tree[h].related BY <1>3 DEF Trees
  <2>3. \A l \in Leaves, s \in Sides : tree[h].related[l][s] \subseteq types[s]
    BY <1>2, <2>1 DEF EvidenceInv
  <2>4. Fits(t) BY <2>2, <2>3 DEF Fits
  <2> HIDE DEF t
  <2> QED BY <1>1, <1>2, <2>1, <2>2, <2>4, EvidenceMoves
<1>7. ASSUME NEW l \in Leaves, NEW related \in Related, RelateLeaf(l, related)
      PROVE  EvidenceInv'
  <2> DEFINE t == [tree[h] EXCEPT !.related = [tree[h].related EXCEPT ![l] = related]]
  <2>1. /\ step = "ask" /\ \A s \in Sides : related[s] \subseteq types[s]
        /\ UNCHANGED <<pickle, types, stage, step, pos>> /\ pending' = pending \ {l}
        /\ tree' = [tree EXCEPT ![h] = t]
    BY <1>2, <1>7 DEF RelateLeaf, Done, kept
  <2>2. /\ t.marked = tree[h].marked /\ t.related[l] = related
        /\ \A m \in Leaves : m # l => t.related[m] = tree[h].related[m]
    BY <1>3 DEF Trees
  <2>3. \A m \in Leaves \ pending', s \in Sides : t.related[m][s] \subseteq types[s]
    BY <1>2, <2>1, <2>2 DEF EvidenceInv
  <2> HIDE DEF t
  <2>4. tree'[h] = t /\ \A r \in Names : r # h => tree'[r] = tree[r] BY <1>1, <2>1
  <2>5. Here' = h BY <1>2, <2>1 DEF Here
  <2>6. \A r \in Names : tree'[r].marked = tree[r].marked BY <2>2, <2>4
  <2>7. \A j \in 1..Len(Rfcs) : Rfcs[j] \in Names BY DocumentsAssumption DEF Names
  <2>8. types # Unmarked =>
          \A j \in 1..Len(Rfcs) : j < pos' => tree'[Rfcs[j]].marked = types
    BY <2>1, <2>6, <2>7 DEF EvidenceInv
  <2>9. \A r \in Names : Fits(pickle[r]) /\ (r = h \/ Fits(tree'[r]))
    BY <1>2, <2>4 DEF EvidenceInv
  <2> QED BY <1>1, <2>1, <2>3, <2>4, <2>5, <2>8, <2>9 DEF EvidenceInv
<1> QED BY <1>4, <1>5, <1>6, <1>7

LEMMA EvidenceAnnotated ==
  ASSUME IInv, EvidenceInv, TreesAnnotated
  PROVE  EvidenceInv'
<1>1. /\ stage = "annotate" /\ step = "open" /\ (pos > Len(Rfcs) \/ types = Unmarked)
      /\ stage' = "req_ir" /\ UNCHANGED <<tree, pickle, types>>
  BY StageNames DEF TreesAnnotated, Continue, Enter, kept, memory
<1>2. ASSUME types # Unmarked, NEW r \in Names PROVE tree[r].marked = types
  <2>1. PICK j \in DOMAIN Rfcs : r = Rfcs[j] BY DEF Names
  <2>2. j \in 1..Len(Rfcs) /\ j < pos
    BY <1>1, <1>2, DocumentsAssumption DEF IInv, ProgressTypes
  <2> QED BY <1>1, <1>2, <2>1, <2>2 DEF EvidenceInv
<1> QED BY <1>1, <1>2 DEF EvidenceInv

LEMMA EvidenceOfRest ==
  ASSUME IInv, EvidenceInv,
         \/ Generate \/ \E l \in Leaves : LabelFails(l) \/ RelateFails(l)
         \/ \E w \in pending : Answer(w) \/ RepairMessage(w) \/ GarbledDependency(w)
                               \/ MessageFails(w) \/ DependencyRaises(w)
         \/ PrepareQueries \/ NothingToQuery \/ SidesReady
         \/ LoadDerived \/ TornDerived \/ RelationMissing \/ WriteDerived
         \/ \E s \in Sides : LoadSide(s) \/ TornSide(s)
                             \/ \E answer \in Named[s] : AnswerSide(s, answer)
         \/ \E f \in SideFiles : NormalizeResponses(f)
         \/ \E f \in Files : FinishWrite(f)
  PROVE  EvidenceInv'
<1>1. UNCHANGED <<tree, pickle, types>>
  BY DEF Generate, LabelFails, RelateFails, Answer, RepairMessage, GarbledDependency,
         MessageFails, DependencyRaises, PrepareQueries, NothingToQuery, SidesReady,
         LoadDerived, TornDerived, RelationMissing, WriteDerived, LoadSide, TornSide,
         AnswerSide, NormalizeResponses, FinishWrite, Fail, Continue, kept, memory
<1>2. /\ "annotate" \notin Derived /\ "failed" \notin Derived /\ "state_dependency" \in Derived
      /\ MessageFiles \subseteq Derived /\ DOMAIN SideFile \cap Derived = {}
      /\ {"fields", "rules", "catalog"} \cap Derived = {}
      /\ \A s \in Derived : After[s] # "annotate"
      /\ DOMAIN SideFile = {"fields", "rules"} /\ After["fields"] = "rules"
      /\ After["rules"] = "catalog" /\ After["trees"] = "fields"
  BY FileNames, StageNames DEF MessageFiles
<1>3. CASE Generate \/ WriteDerived
  BY <1>1, <1>2, <1>3, EvidenceStays DEF Generate, WriteDerived, Ask
<1>4. ASSUME NEW l \in Leaves, LabelFails(l) \/ RelateFails(l) PROVE EvidenceInv'
  BY <1>1, <1>4, EvidenceStays DEF LabelFails, RelateFails, Tried
<1>5. ASSUME NEW w \in pending, Answer(w) \/ RepairMessage(w) \/ GarbledDependency(w)
      PROVE  EvidenceInv'
  BY <1>1, <1>2, <1>5, EvidenceStays
  DEF Answer, RepairMessage, GarbledDependency, Asked, Done, Tried
<1>6. ASSUME NEW w \in pending, MessageFails(w) \/ DependencyRaises(w) PROVE EvidenceInv'
  BY <1>1, <1>2, <1>6, EvidenceStays DEF MessageFails, DependencyRaises, Asked, Fail, Enter
<1>7. CASE PrepareQueries \/ NothingToQuery
  BY <1>1, <1>2, <1>7, EvidenceStays
  DEF PrepareQueries, NothingToQuery, TreesReady, Fail, Continue, Enter
<1>8. CASE SidesReady
  BY <1>1, <1>2, <1>8, EvidenceStays DEF SidesReady, Continue, Enter
<1>9. CASE LoadDerived \/ TornDerived \/ RelationMissing
  BY <1>1, <1>2, <1>9, EvidenceStays
  DEF LoadDerived, TornDerived, RelationMissing, Fail, Continue, Enter
<1>10. ASSUME NEW s \in Sides, LoadSide(s) \/ TornSide(s) PROVE EvidenceInv'
  BY <1>1, <1>2, <1>10, EvidenceStays DEF LoadSide, TornSide, SideTask, Done, Fail, Enter
<1>11. ASSUME NEW s \in Sides, NEW answer \in Named[s], AnswerSide(s, answer)
       PROVE  EvidenceInv'
  BY <1>1, <1>11, EvidenceStays DEF AnswerSide, progress, tasks
<1>12. ASSUME NEW f \in SideFiles, NormalizeResponses(f) PROVE EvidenceInv'
  BY <1>1, <1>12, EvidenceStays DEF NormalizeResponses, progress, tasks
<1>13. ASSUME NEW f \in Files, FinishWrite(f) PROVE EvidenceInv'
  BY <1>1, <1>13, EvidenceStays DEF FinishWrite, progress, tasks
<1> QED BY <1>3, <1>4, <1>5, <1>6, <1>7, <1>8, <1>9, <1>10, <1>11, <1>12, <1>13

\* The producer and a restart.
LEMMA EvidenceOfProducer ==
  ASSUME IInv, EvidenceInv,
         ProducerStep \/ (\E f \in Indexes : FinishIndex(f)) \/ UNCHANGED vars
  PROVE  EvidenceInv'
<1>1. UNCHANGED <<tree, pickle, types>>
  <2>1. CASE ProducerStep
    BY <2>1
    DEF ProducerStep, LoadGenerators, TornGenerators, GenerateGenerators, GeneratorsMade,
        NoGenerators, GeneratorMade, GeneratorFails, ComponentMade, ComponentFails,
        LoadParser, TornParser, GenerateParser, ParserFails, ParserFailed,
        ParserNotReplaced, ParserMade, LoadComponents, TornCheckers, GenerateComponents,
        ComponentsMade, GiveUp, Unchanged, kept, memory
  <2>2. CASE (\E f \in Indexes : FinishIndex(f)) \/ UNCHANGED vars
    BY <2>2 DEF FinishIndex, Unchanged, vars, analysisVars, kept, memory
  <2> QED BY <2>1, <2>2
<1>2. /\ Indexes \cap Derived = {} /\ "annotate" \notin Indexes /\ Kinds \subseteq Indexes
      /\ \A s \in Indexes : Following[s] \notin {"annotate"} \cup Derived
      /\ "failed" \notin Derived /\ "generators" \in Indexes /\ "parser" \in Indexes
      /\ "checkers" \in Indexes
  BY FileNames, StageNames
<1>3. CASE UNCHANGED vars
  BY <1>1, <1>3, EvidenceStays DEF vars, analysisVars, progress, tasks
<1>4. ASSUME NEW f \in Indexes, FinishIndex(f) PROVE EvidenceInv'
  BY <1>1, <1>2, <1>4, EvidenceStays DEF FinishIndex, Enter
<1>5. CASE ProducerStep
  <2>1. stage \in Indexes /\ stage' \in {stage, Following[stage], "failed"}
    BY <1>2, <1>5
    DEF ProducerStep, LoadGenerators, TornGenerators, GenerateGenerators, GeneratorsMade,
        NoGenerators, GeneratorMade, GeneratorFails, ComponentMade, ComponentFails,
        LoadParser, TornParser, GenerateParser, ParserFails, ParserFailed,
        ParserNotReplaced, ParserMade, LoadComponents, TornCheckers, GenerateComponents,
        ComponentsMade, GiveUp, Proceed, Enter, Ask, Done, Tried, progress
  <2> QED BY <1>1, <1>2, <2>1, EvidenceStays
<1> QED BY <1>3, <1>4, <1>5

LEMMA EvidenceNext == IInv /\ EvidenceInv /\ [Next]_vars => EvidenceInv'
<1> SUFFICES ASSUME IInv, EvidenceInv, [Next]_vars PROVE EvidenceInv' OBVIOUS
<1>1. CASE LoadTree \/ ParseTree \/ TreeParsed
  BY <1>1, EvidenceOfTrees DEF LoadTree, ParseTree, TreeParsed
<1>2. ASSUME NEW l \in Leaves, NEW label \in Labels, LabelLeaf(l, label) PROVE EvidenceInv'
  BY <1>2, EvidenceOfTrees DEF LabelLeaf
<1>3. CASE KeepAnnotations \/ Annotate \/ TreeAnnotated
  BY <1>3, EvidenceOfAnnotation DEF KeepAnnotations, Annotate, TreeAnnotated
<1>4. ASSUME NEW l \in Leaves, NEW related \in Related, RelateLeaf(l, related)
      PROVE  EvidenceInv'
  BY <1>4, EvidenceOfAnnotation DEF RelateLeaf
<1>5. CASE TreesAnnotated BY <1>5, EvidenceAnnotated
<1>6. CASE SettleTypes
  <2>1. stage = "catalog" /\ stage' = "annotate" /\ step' = "open" /\ pos' = 1
        /\ UNCHANGED <<tree, pickle>>
    BY <1>6, StageNames DEF SettleTypes, Enter, kept
  <2> QED BY <2>1, DocumentsAssumption, FileNames DEF EvidenceInv
<1>7. CASE AnalysisStep
  BY <1>7, <1>1, <1>2, <1>3, <1>4, <1>5, <1>6, EvidenceOfRest DEF AnalysisStep
<1>8. CASE AnalysisNext BY <1>7, <1>8, EvidenceOfRest DEF AnalysisNext
<1>9. CASE Restart
  <2>1. stage' = "trees" /\ pickle' = pickle /\ tree' = [r \in Names |-> Blank]
    BY <1>9 DEF Restart, AnalysisRestarts, Enter, kept
  <2> QED BY <2>1, BlankFits, FileNames DEF EvidenceInv
<1> QED BY <1>8, <1>9, EvidenceOfProducer DEF Next, Works

-----------------------------------------------------------------------------
(* The theorems                                                            *)

\* Files, trees, tasks and what the run holds have their types at every step of the
\* analysis and of the producer, and no task is tried more often than the code allows
\* (rfc_parser.py, AsyncRFCParser; synthesizer.py, AsyncProducer).
THEOREM TypeCorrect == Spec => []TypeOK
<1>1. IInv => TypeOK
  <2> SUFFICES ASSUME IInv PROVE TypeOK OBVIOUS
  <2>1. AnalysisTypeOK
    BY DEF IInv, KeptTypes, MemoryTypes, ProgressTypes, AnalysisTypeOK
  <2>2. generators \subseteq Types BY ListedTypes
  <2> QED BY <2>1, <2>2 DEF IInv, ProgressTypes, ProducerTypes, TypeOK
<1> QED BY <1>1, Invariance, PTL

\* However many runs end wherever, every generator the index lists was written before it
\* (synthesizer.py, _save_initial_generator before generator_info).
THEOREM SourcesComeFirst == Spec => []ListedHasSource
<1>1. IInv => ListedHasSource BY DEF IInv
<1> QED BY <1>1, Invariance, PTL

\* A description a run finds is about the types the run works with, unless the rules were
\* asked for again over it: the files are written in one order and read in the same one
\* (rfc_parser.py, key_field_extract, message_model_generation, state_model_generation).
THEOREM DescriptionsAgree == Spec => []DescriptionsMatch
<1>1. IInv => DescriptionsMatch
  BY DEF IInv, DescribeInv, HoldInv, DescriptionsMatch, Present
<1> QED BY <1>1, Invariance, PTL

\* No step, of any run, damages a saved tree or changes what its sections are about:
\* a tree is written when there is none, or with the classification it was read with
\* (rfc_parser.py, save_st, _annotate_section_message_types).
THEOREM TreesAreKept == Spec => TreesSurvive
<1> DEFINE Survive(r) == cached[r] = "whole" =>
             cached'[r] = "whole" /\ pickle'[r].label = pickle[r].label
<1>1. IInv /\ [Next]_vars => [\A r \in Names : Survive(r)]_analysisVars
  <2> SUFFICES ASSUME IInv, Next PROVE \A r \in Names : Survive(r)
    BY DEF vars
  <2>1. ASSUME UNCHANGED <<cached, pickle>> PROVE \A r \in Names : Survive(r) BY <2>1
  <2>2. cached \in [Names -> {"absent", "damaged", "whole"}] /\ pickle \in [Names -> Trees]
        /\ tree \in [Names -> Trees]
    BY DEF IInv, KeptTypes, MemoryTypes
  <2>3. CASE TreeParsed
    <3>1. cached[Here] # "whole" BY <2>3 DEF TreeParsed, IInv, SurviveInv
    <3> QED BY <2>2, <2>3, <3>1 DEF TreeParsed, SaveTree
  <2>4. CASE TreeAnnotated
    <3>1. pos \in 1..Len(Rfcs) /\ stage = "annotate"
      BY <2>4, DocumentsAssumption DEF TreeAnnotated, IInv, ProgressTypes
    <3>2. PICK h \in Names : h = Here BY <3>1, HereType
    <3>3. pickle[h].label = tree[h].label BY <3>1 DEF IInv, SurviveInv, Saved
    <3>4. tree[h] \in Trees BY <2>2
    <3>5. [tree[h] EXCEPT !.marked = types].label = tree[h].label BY <3>4 DEF Trees
    <3>6. /\ cached' = [cached EXCEPT ![h] = "whole"]
          /\ pickle' = [pickle EXCEPT ![h] = [tree[h] EXCEPT !.marked = types]]
      BY <2>4, <3>2 DEF TreeAnnotated, SaveTree
    <3> QED BY <2>2, <3>3, <3>5, <3>6
  <2>5. CASE AnalysisNext
    <3>1. CASE AnalysisStep
      BY <2>1, <2>3, <2>4, <3>1
      DEF AnalysisStep, LoadTree, ParseTree, PrepareQueries, NothingToQuery, LabelLeaf,
          LabelFails, RelateFails, RelateLeaf, LoadSide, TornSide, AnswerSide, SidesReady,
          NormalizeResponses, SettleTypes, KeepAnnotations, Annotate, TreesAnnotated,
          LoadDerived, TornDerived, Generate, WriteDerived, RelationMissing, Answer,
          RepairMessage, MessageFails, GarbledDependency, DependencyRaises, Fail, Continue,
          kept
    <3> QED BY <2>1, <2>5, <3>1 DEF AnalysisNext, FinishWrite
  <2>6. CASE ProducerStep
    <3>1. UNCHANGED kept
      BY <2>6
      DEF ProducerStep, LoadGenerators, TornGenerators, GenerateGenerators, GeneratorsMade,
          NoGenerators, GeneratorMade, GeneratorFails, ComponentMade, ComponentFails,
          LoadParser, TornParser, GenerateParser, ParserFails, ParserFailed,
          ParserNotReplaced, ParserMade, LoadComponents, TornCheckers, GenerateComponents,
          ComponentsMade, GiveUp, Unchanged
    <3> QED BY <2>1, <3>1 DEF kept
  <2>7. CASE (\E f \in Indexes : FinishIndex(f)) \/ Restart
    BY <2>1, <2>7 DEF FinishIndex, Unchanged, Restart, AnalysisRestarts, kept
  <2> QED BY <2>5, <2>6, <2>7 DEF Next, Works
<1> QED BY <1>1, Invariance, PTL DEF Spec, TreesSurvive

\* What a task of the descriptions is given was related to the types of this run, whichever
\* run saved the trees and for which types: a tree that is marked with other types is
\* annotated again, section by section, before it is marked (rfc_parser.py,
\* _annotate_section_message_types, _section_type_annotations_current).
THEOREM EvidenceStaysCurrent == Spec => []EvidenceIsCurrent
<1>1. IInv /\ EvidenceInv => EvidenceIsCurrent
  <2> SUFFICES ASSUME EvidenceInv, stage \in Derived, types # Unmarked,
                      NEW w \in pending, NEW x \in Sections(w)
               PROVE  /\ tree[x[1]].marked = types
                      /\ \A s \in Sides : tree[x[1]].related[x[2]][s] \subseteq types[s]
    BY DEF EvidenceIsCurrent
  <2>1. x[1] \in Names /\ x[2] \in Leaves
    <3>1. x \in Names \X Leaves BY DEF Sections
    <3> QED BY <3>1
  <2>2. "annotate" \notin Derived BY FileNames
  <2>3. Fits(tree[x[1]]) /\ tree[x[1]].marked = types BY <2>1, <2>2 DEF EvidenceInv
  <2> QED BY <2>1, <2>3 DEF Fits
<1>2. Spec => []EvidenceInv BY Invariance, EvidenceInit, EvidenceNext, PTL DEF Spec
<1> QED BY <1>1, <1>2, Invariance, PTL

-----------------------------------------------------------------------------
(* A run that is left alone goes on                                        *)

\* The stages in their order; what a stage with one thing to do at a time has done of it:
\* a tree or a list of components is asked for and then written, a description is also
\* found absent before and read after; the files still to be made out of the answers.
StageRank(s) ==
  CASE s = "trees" -> 13 [] s = "fields" -> 12 [] s = "rules" -> 11
    [] s = "catalog" -> 10 [] s = "annotate" -> 9 [] s = "req_ir" -> 8
    [] s = "res_ir" -> 7 [] s = "poss_res" -> 6 [] s = "state_dependency" -> 5
    [] s = "generators" -> 4 [] s = "parser" -> 3 [] s = "checkers" -> 2
    [] s = "observers" -> 1 [] OTHER -> 0
StepRank ==
  CASE stage \in {"trees", "annotate"} -> IF step = "open" THEN 1 ELSE 0
    [] stage \in Derived -> IF step = "ask" THEN 2
                            ELSE IF disk[stage].state = "absent" THEN 3
                            ELSE IF writing # {} THEN 1 ELSE 0
    [] stage \in Indexes -> IF step = "open" THEN 2 ELSE IF writing = {} THEN 1 ELSE 0
    [] OTHER -> 0
ToWrite ==
  IF stage = "catalog" THEN {f \in {"res_json", "res_type_rules"} : held[f] # Catalog}
  ELSE {f \in SideFiles : disk[f].state \in {"absent", "stale"}}

\* A stage further; or else a document; or a step; or a file less to write, to close, a
\* task less to do; or an answer heard, or a try used up.
Fewer(a, b) == a \subseteq b /\ a # b
Same == stage' = stage /\ pos' = pos /\ StepRank' = StepRank
Onward ==
  \/ StageRank(stage') < StageRank(stage)
  \/ stage' = stage /\ pos' > pos
  \/ stage' = stage /\ pos' = pos /\ StepRank' < StepRank
  \/ Same /\ Fewer(ToWrite', ToWrite)
  \/ Same /\ ToWrite' = ToWrite /\ Fewer(writing', writing)
  \/ Same /\ ToWrite' = ToWrite /\ writing' = writing /\ Fewer(pending', pending)
  \/ /\ Same /\ ToWrite' = ToWrite /\ writing' = writing /\ pending' = pending
     /\ \/ tries' = tries /\ Fewer(pending' \ heard', pending \ heard)
        \/ /\ heard' = heard /\ DOMAIN tries' = DOMAIN tries
           /\ \E w \in pending : /\ tries'[w] = tries[w] + 1
                                 /\ \A v \in DOMAIN tries : v # w => tries'[v] = tries[v]

\* An index is written in its own stage, and the parser is one task.
StageInv ==
  /\ stage \in Indexes => writing \cap Files = {}
  /\ stage = "parser" /\ step = "ask" => pending = {"__all__"}

LEMMA RanksFall ==
  /\ \A s \in DOMAIN After : /\ StageRank(After[s]) < StageRank(s)
                             /\ StageRank("failed") < StageRank(s)
  /\ \A s \in Indexes : /\ StageRank(Following[s]) < StageRank(s)
                        /\ StageRank("failed") < StageRank(s)
BY StageNames DEF StageRank

LEMMA StageKinds ==
  /\ "trees" \notin Derived \cup Indexes /\ "annotate" \notin Derived \cup Indexes
  /\ DOMAIN SideFile \cap ({"trees", "annotate", "catalog"} \cup Derived \cup Indexes) = {}
  /\ "catalog" \notin {"trees", "annotate"} \cup Derived \cup Indexes
  /\ Derived \cap Indexes = {} /\ Files \cap Indexes = {} /\ Derived \cap SideFiles = {}
BY FileNames, StageNames

\* What a step leaves of the measure.
LEMMA SameRest ==
  ASSUME UNCHANGED <<disk, writing, stage, step, pos>>, held' = held \/ stage # "catalog"
  PROVE  Same /\ ToWrite' = ToWrite
BY DEF Same, StepRank, ToWrite

LEMMA DoneGoesOn ==
  ASSUME NEW w \in pending, Done(w), UNCHANGED <<disk, writing>>,
         held' = held \/ stage # "catalog"
  PROVE  Onward
<1>1. Fewer(pending', pending) /\ UNCHANGED <<stage, step, pos>> BY DEF Done, Fewer
<1> QED BY <1>1, SameRest DEF Onward

LEMMA TriedGoesOn ==
  ASSUME ProgressTypes, step = "ask", NEW w \in pending, Tried(w),
         UNCHANGED <<disk, writing, held>>
  PROVE  Onward
<1>1. w \in DOMAIN tries BY DEF ProgressTypes
<1>2. /\ UNCHANGED <<stage, step, pos, pending, heard>> /\ DOMAIN tries' = DOMAIN tries
      /\ tries'[w] = tries[w] + 1
      /\ \A v \in DOMAIN tries : v # w => tries'[v] = tries[v]
  BY <1>1 DEF Tried
<1> QED BY <1>2, SameRest DEF Onward

LEMMA AskGoesOn ==
  ASSUME NEW work, Ask(work), step = "open", UNCHANGED <<disk, writing>>,
         \/ stage \in {"trees", "annotate"} \cup Indexes
         \/ stage \in Derived /\ disk[stage].state = "absent"
  PROVE  Onward
<1>1. stage' = stage /\ pos' = pos /\ step' = "ask" BY DEF Ask
<1>2. StepRank' < StepRank BY <1>1, StageKinds DEF StepRank
<1> QED BY <1>1, <1>2 DEF Onward

LEMMA NextDocumentGoesOn ==
  ASSUME ProgressTypes, NextDocument
  PROVE  Onward
<1>1. stage' = stage /\ pos' = pos + 1 BY DEF NextDocument
<1>2. pos \in Nat BY DocumentsAssumption DEF ProgressTypes
<1> QED BY <1>1, <1>2 DEF Onward

LEMMA EnterGoesOn ==
  ASSUME \/ stage \in DOMAIN After /\ (Enter(After[stage]) \/ Enter("failed"))
         \/ stage \in Indexes /\ (Enter(Following[stage]) \/ Enter("failed"))
  PROVE  Onward
BY RanksFall DEF Enter, Onward

LEMMA AnalysisGoesOn ==
  ASSUME IInv, AnalysisStep
  PROVE  Onward
<1>1. ProgressTypes /\ disk \in [Files -> [state : FileStates, of : SUBSET Types]]
  BY DEF IInv, KeptTypes
<1>2. /\ Derived \subseteq DOMAIN After /\ DOMAIN SideFile \subseteq DOMAIN After
      /\ {"trees", "catalog", "annotate", "state_dependency"} \subseteq DOMAIN After
      /\ MessageFiles \subseteq Derived /\ "state_dependency" \in Derived
      /\ After["catalog"] = "annotate"
  BY FileNames, StageNames DEF MessageFiles
<1>3. CASE LoadTree \/ KeepAnnotations \/ TreeParsed \/ TreeAnnotated
  BY <1>1, <1>3, NextDocumentGoesOn DEF LoadTree, KeepAnnotations, TreeParsed, TreeAnnotated
<1>4. CASE ParseTree \/ Annotate \/ Generate
  BY <1>4, AskGoesOn DEF ParseTree, Annotate, Generate, kept
<1>5. CASE PrepareQueries \/ NothingToQuery \/ SidesReady \/ SettleTypes \/ TreesAnnotated
           \/ LoadDerived \/ TornDerived \/ RelationMissing
  BY <1>2, <1>5, EnterGoesOn
  DEF PrepareQueries, NothingToQuery, TreesReady, SidesReady, SettleTypes, TreesAnnotated,
      LoadDerived, TornDerived, RelationMissing, Continue, Fail
<1>6. ASSUME NEW l \in Leaves, NEW label \in Labels, LabelLeaf(l, label) PROVE Onward
  BY <1>6, DoneGoesOn DEF LabelLeaf, kept
<1>7. ASSUME NEW l \in Leaves, LabelFails(l) \/ RelateFails(l) PROVE Onward
  BY <1>1, <1>7, TriedGoesOn DEF LabelFails, RelateFails, kept, memory
<1>8. ASSUME NEW l \in Leaves, NEW related \in Related, RelateLeaf(l, related) PROVE Onward
  BY <1>8, DoneGoesOn DEF RelateLeaf, kept
<1>9. ASSUME NEW s \in Sides, LoadSide(s) PROVE Onward
  BY <1>9, StageKinds, DoneGoesOn DEF LoadSide, SideTask, kept
<1>10. ASSUME NEW s \in Sides, TornSide(s) PROVE Onward
  BY <1>2, <1>10, EnterGoesOn DEF TornSide, SideTask, Fail
<1>11. ASSUME NEW s \in Sides, NEW answer \in Named[s], AnswerSide(s, answer) PROVE Onward
  <2>1. PICK f \in SideFiles : /\ f = SideFile[stage][s] /\ disk[f].state \in {"absent", "stale"}
                              /\ Write(f, answer) /\ stage \in DOMAIN SideFile
    BY <1>11, SideTaskFile DEF AnswerSide, SideTask
  <2>2. UNCHANGED <<stage, step, pos>> BY <1>11 DEF AnswerSide, progress, tasks
  <2>3. disk' = [disk EXCEPT ![f] = Content("torn", answer)] BY <2>1 DEF Write
  <2>4. f \in Files BY <2>1, FileNames
  <2>5. ToWrite' = ToWrite \ {f} /\ f \in ToWrite
    BY <1>1, <2>1, <2>2, <2>3, <2>4, StageKinds, FileNames DEF ToWrite, Content
  <2>6. Same BY <2>1, <2>2, StageKinds DEF Same, StepRank
  <2> QED BY <2>5, <2>6 DEF Onward, Fewer
<1>12. ASSUME NEW f \in SideFiles, NormalizeResponses(f) PROVE Onward
  <2>1. /\ stage = "catalog" /\ f \in {"res_json", "res_type_rules"} /\ held[f] # Catalog
        /\ held' = [held EXCEPT ![f] = Catalog] /\ UNCHANGED <<stage, step, pos>>
    BY <1>12, FileNames DEF NormalizeResponses, progress, tasks
  <2>2. held \in [SideFiles -> SUBSET Types] BY DEF IInv, MemoryTypes
  <2>3. ToWrite' = ToWrite \ {f} /\ f \in ToWrite BY <2>1, <2>2, FileNames DEF ToWrite
  <2>4. Same BY <2>1, StageKinds DEF Same, StepRank
  <2> QED BY <2>3, <2>4 DEF Onward, Fewer
<1>13. CASE WriteDerived
  <2>1. /\ stage \in Derived /\ step = "ask" /\ step' = "open" /\ UNCHANGED <<stage, pos>>
        /\ writing' = {stage} /\ disk'[stage].state = "torn"
    BY <1>1, <1>13, FileNames DEF WriteDerived, Write, Content, tasks
  <2>2. StepRank' < StepRank BY <2>1, StageKinds DEF StepRank
  <2> QED BY <2>1, <2>2 DEF Onward
<1>14. ASSUME NEW w \in pending, Answer(w) PROVE Onward
  BY <1>14, DoneGoesOn DEF Answer, kept, memory
<1>15. ASSUME NEW w \in pending, RepairMessage(w) PROVE Onward
  BY <1>1, <1>15, TriedGoesOn DEF RepairMessage, Asked, kept, memory
<1>16. ASSUME NEW w \in pending, MessageFails(w) \/ DependencyRaises(w) PROVE Onward
  BY <1>2, <1>16, EnterGoesOn DEF MessageFails, DependencyRaises, Asked, Fail
<1>17. ASSUME NEW w \in pending, GarbledDependency(w) PROVE Onward
  <2>1. /\ heard' = heard \cup {w} /\ w \notin heard
        /\ UNCHANGED <<disk, writing, held, stage, step, pos, pending, tries>>
    BY <1>17 DEF GarbledDependency, kept, memory
  <2> QED BY <2>1, SameRest DEF Onward, Fewer
<1> QED BY <1>3, <1>4, <1>5, <1>6, <1>7, <1>8, <1>9, <1>10, <1>11, <1>12, <1>13, <1>14, <1>15,
           <1>16, <1>17 DEF AnalysisStep

LEMMA FinishGoesOn ==
  ASSUME IInv, StageInv, NEW f \in Files, FinishWrite(f)
  PROVE  Onward
<1>1. /\ disk' = [disk EXCEPT ![f].state = "whole"] /\ writing' = {} /\ f \in writing
      /\ UNCHANGED <<stage, step, pos, held>>
  BY DEF FinishWrite, progress, tasks, memory
<1>2. disk[f].state = "torn" BY <1>1 DEF IInv, DescribeInv
<1>3. disk \in [Files -> [state : FileStates, of : SUBSET Types]] BY DEF IInv, KeptTypes
<1>4. /\ disk'[f].state = "whole" /\ \A g \in Files : g # f => disk'[g] = disk[g]
  BY <1>1, <1>3
<1>5. ToWrite' = ToWrite
  <2>1. SideFiles \subseteq Files BY FileNames
  <2>2. \A g \in SideFiles : disk'[g].state \in {"absent", "stale"}
                               <=> disk[g].state \in {"absent", "stale"}
    BY <1>2, <1>4, <2>1
  <2> QED BY <1>1, <2>2 DEF ToWrite
<1>6. stage \notin Indexes BY <1>1 DEF StageInv
<1>7. stage \in Derived => (disk'[stage].state = "absent" <=> disk[stage].state = "absent")
  BY <1>2, <1>4, FileNames
<1>8. StepRank' < StepRank \/ StepRank' = StepRank
  BY <1>1, <1>6, <1>7, StageKinds DEF StepRank
<1> QED BY <1>1, <1>5, <1>8 DEF Onward, Same, Fewer

LEMMA ProducerGoesOn ==
  ASSUME IInv, StageInv, ProducerStep \/ \E f \in Indexes : FinishIndex(f)
  PROVE  Onward
<1>1. ProgressTypes BY DEF IInv
<1>2. /\ Kinds \subseteq Indexes /\ "generators" \in Indexes /\ "parser" \in Indexes
      /\ "checkers" \in Indexes /\ "observers" \in Indexes
  BY StageNames
<1>3. CASE LoadGenerators \/ TornGenerators \/ NoGenerators \/ LoadParser \/ TornParser
           \/ ParserFailed \/ ParserNotReplaced \/ TornCheckers
  BY <1>2, <1>3, EnterGoesOn
  DEF LoadGenerators, TornGenerators, NoGenerators, LoadParser, TornParser, ParserFailed,
      ParserNotReplaced, TornCheckers, Proceed, GiveUp
<1>4. CASE GenerateGenerators \/ GenerateParser \/ GenerateComponents
  BY <1>2, <1>4, AskGoesOn
  DEF GenerateGenerators, GenerateParser, GenerateComponents, Found, Unchanged, kept
<1>5. ASSUME NEW current \in SUBSET Prewarm, LoadComponents(current) PROVE Onward
  BY <1>2, <1>5, AskGoesOn, EnterGoesOn DEF LoadComponents, Found, Proceed, Unchanged, kept
<1>6. CASE writing = {} /\ (GeneratorsMade \/ ParserMade \/ ComponentsMade)
  <2>1. /\ stage \in Indexes /\ step = "ask" /\ UNCHANGED <<stage, step, pos>>
        /\ writing' = {stage} /\ writing = {}
    BY <1>2, <1>6 DEF GeneratorsMade, ParserMade, ComponentsMade, WriteIndex, progress, tasks
  <2>2. StepRank' < StepRank BY <2>1, StageKinds DEF StepRank
  <2> QED BY <2>1, <2>2 DEF Onward
<1>7. ASSUME NEW t \in pending, GeneratorMade(t) \/ GeneratorFails(t) \/ ComponentMade(t)
                                \/ ComponentFails(t)
      PROVE  Onward
  BY <1>1, <1>7, DoneGoesOn, TriedGoesOn
  DEF GeneratorMade, GeneratorFails, ComponentMade, ComponentFails, Unchanged, kept, memory
<1>8. CASE ParserFails
  <2>1. "__all__" \in pending BY <1>8 DEF ParserFails, StageInv
  <2> QED BY <1>1, <1>8, <2>1, TriedGoesOn DEF ParserFails, Unchanged, kept, memory
<1>9. ASSUME NEW f \in Indexes, FinishIndex(f) PROVE Onward
  BY <1>9, EnterGoesOn DEF FinishIndex
<1> QED BY <1>3, <1>4, <1>5, <1>6, <1>7, <1>8, <1>9 DEF ProducerStep

LEMMA StageStep == IInv /\ StageInv /\ [Next]_vars => StageInv'
<1> SUFFICES ASSUME IInv, StageInv, [Next]_vars PROVE StageInv' OBVIOUS
<1>1. /\ "parser" \in Indexes /\ "generators" \in Indexes /\ Kinds \subseteq Indexes
      /\ "parser" \notin Kinds /\ "failed" \notin Indexes
      /\ MessageFiles \subseteq Derived /\ "state_dependency" \in Derived
  BY StageNames, FileNames DEF MessageFiles
<1>2. CASE UNCHANGED vars BY <1>2 DEF vars, analysisVars, progress, tasks, StageInv
<1>3. CASE Restart BY <1>3, StageKinds DEF Restart, AnalysisRestarts, Enter, StageInv
<1>4. ASSUME NEW f \in Files, FinishWrite(f) PROVE StageInv'
  BY <1>4 DEF FinishWrite, progress, tasks, StageInv
<1>5. ASSUME NEW f \in Indexes, FinishIndex(f) PROVE StageInv'
  BY <1>5 DEF FinishIndex, Enter, StageInv
<1>6. ASSUME writing' = {}, step' = "open" \/ stage' \notin Indexes PROVE StageInv'
  BY <1>1, <1>6 DEF StageInv
<1>7. CASE AnalysisStep
  <2>1. stage \notin Indexes
    BY <1>7, <1>1, StageKinds
    DEF AnalysisStep, LoadTree, ParseTree, TreeParsed, PrepareQueries, NothingToQuery,
        TreesReady, LabelLeaf, LabelFails, RelateFails, RelateLeaf, LoadSide, TornSide,
        AnswerSide, SideTask, SidesReady, NormalizeResponses, SettleTypes, KeepAnnotations,
        Annotate, TreeAnnotated, TreesAnnotated, LoadDerived, TornDerived, Generate,
        WriteDerived, RelationMissing, Answer, RepairMessage, MessageFails,
        GarbledDependency, DependencyRaises, Asked
  <2>2. stage' = stage \/ (step' = "open" /\ writing' = {})
    BY <1>7
    DEF AnalysisStep, LoadTree, ParseTree, TreeParsed, PrepareQueries, NothingToQuery,
        LabelLeaf, LabelFails, RelateFails, RelateLeaf, LoadSide, TornSide,
        AnswerSide, SidesReady, NormalizeResponses, SettleTypes, KeepAnnotations,
        Annotate, TreeAnnotated, TreesAnnotated, LoadDerived, TornDerived, Generate,
        WriteDerived, RelationMissing, Answer, RepairMessage, MessageFails,
        GarbledDependency, DependencyRaises, Asked, Continue, Fail, Enter, Ask, Done, Tried,
        NextDocument, progress
  <2> QED BY <1>1, <2>1, <2>2 DEF StageInv
<1>8. CASE ProducerStep
  <2>1. writing = {} BY <1>8 DEF ProducerStep
  <2>2. CASE LoadGenerators \/ TornGenerators \/ NoGenerators \/ LoadParser \/ TornParser
             \/ ParserFailed \/ ParserNotReplaced \/ TornCheckers
    BY <1>6, <2>1, <2>2
    DEF LoadGenerators, TornGenerators, NoGenerators, LoadParser, TornParser, ParserFailed,
        ParserNotReplaced, TornCheckers, Proceed, GiveUp, Enter
  <2>3. CASE GenerateGenerators \/ GenerateParser \/ GenerateComponents
    BY <1>1, <2>1, <2>3
    DEF GenerateGenerators, GenerateParser, GenerateComponents, Ask, StageInv
  <2>4. ASSUME NEW current \in SUBSET Prewarm, LoadComponents(current) PROVE StageInv'
    BY <1>1, <1>6, <2>1, <2>4 DEF LoadComponents, Proceed, Enter, Ask, StageInv
  <2>5. CASE GeneratorsMade \/ ParserMade \/ ComponentsMade
    BY <1>1, <2>5, StageKinds
    DEF GeneratorsMade, ParserMade, ComponentsMade, WriteIndex, progress, tasks, StageInv
  <2>6. ASSUME NEW t \in pending, GeneratorMade(t) \/ GeneratorFails(t) \/ ComponentMade(t)
                                  \/ ComponentFails(t)
        PROVE  StageInv'
    BY <1>1, <2>1, <2>6
    DEF GeneratorMade, GeneratorFails, ComponentMade, ComponentFails, Done, Tried, StageInv
  <2>7. CASE ParserFails BY <2>1, <2>7 DEF ParserFails, Tried, StageInv
  <2> QED BY <1>8, <2>2, <2>3, <2>4, <2>5, <2>6, <2>7 DEF ProducerStep
<1> QED BY <1>2, <1>3, <1>4, <1>5, <1>7, <1>8 DEF Next, Works, AnalysisNext

\* What PreparationEnds rests on, for all documents, answers of the model, leftovers and
\* limits: whatever a run does leads it on in a lexicographic order, and only another run
\* begins anew (rfc_parser.py, AsyncRFCParser.run; synthesizer.py, AsyncProducer.run).
THEOREM PreparationGoesOn ==
  Spec => [][/\ Works => Onward
             /\ Restart => run' > run /\ run' <= MaxRuns]_vars
<1> DEFINE A == (Works => Onward) /\ (Restart => run' > run /\ run' <= MaxRuns)
<1>1. Init => StageInv BY StageKinds DEF Init, AnalysisInit, StageInv
<1>2. IInv /\ StageInv /\ [Next]_vars => [A]_vars
  <2> SUFFICES ASSUME IInv, StageInv, Next PROVE A OBVIOUS
  <2>1. Works => Onward
    BY AnalysisGoesOn, FinishGoesOn, ProducerGoesOn DEF Works, AnalysisNext
  <2>2. run \in Nat /\ MaxRuns \in Nat BY LimitsAssumption DEF IInv, ProgressTypes
  <2>3. Restart => run' > run /\ run' <= MaxRuns BY <2>2 DEF Restart, AnalysisRestarts
  <2> QED BY <2>1, <2>3
<1> QED BY <1>1, <1>2, StageStep, Invariance, PTL DEF Spec

\* What is left of each part of that order is finite: there are finitely many tasks, which
\* are tried finitely often (TypeCorrect), and at most one file is open.
THEOREM WorkIsFinite ==
  IsFiniteSet(Leaves) /\ IsFiniteSet(Types) /\ IsFiniteSet(Prewarm) =>
    (Spec => [](IsFiniteSet(pending) /\ IsFiniteSet(writing) /\ IsFiniteSet(ToWrite)))
<1> SUFFICES ASSUME IsFiniteSet(Leaves), IsFiniteSet(Types), IsFiniteSet(Prewarm)
             PROVE  Spec => [](IsFiniteSet(pending) /\ IsFiniteSet(writing)
                               /\ IsFiniteSet(ToWrite))
  OBVIOUS
<1> DEFINE Finite == IsFiniteSet(pending)
<1>1. IsFiniteSet({}) /\ IsFiniteSet(Sides) /\ IsFiniteSet({"response message"})
      /\ IsFiniteSet({"__all__"}) /\ IsFiniteSet(Files) /\ IsFiniteSet(Indexes)
  <2>1. IsFiniteSet({}) BY FS_EmptySet
  <2>2. \A x : IsFiniteSet({x}) BY FS_Singleton
  <2>3. \A T, x : IsFiniteSet(T) => IsFiniteSet(T \cup {x}) BY FS_AddElement
  <2>4. Sides = {"req"} \cup {"res"} BY FileNames
  <2>5. Indexes = (({"generators"} \cup {"parser"}) \cup {"checkers"}) \cup {"observers"}
    BY StageNames
  <2>6. Files = (((((({"req_json"} \cup {"res_json"}) \cup {"req_type_rules"})
                  \cup {"res_type_rules"}) \cup {"req_ir"}) \cup {"res_ir"})
                  \cup {"poss_res"}) \cup {"state_dependency"}
    BY FileNames
  <2>7. IsFiniteSet(Sides) BY <2>2, <2>3, <2>4
  <2>8. IsFiniteSet(Indexes) BY <2>2, <2>3, <2>5
  <2>9. IsFiniteSet(Files) BY <2>2, <2>3, <2>6
  <2> QED BY <2>1, <2>2, <2>7, <2>8, <2>9
<1>2. Init => Finite BY <1>1 DEF Init, AnalysisInit
<1>3. IInv /\ Finite /\ [Next]_vars => Finite'
  <2> SUFFICES ASSUME IInv, Finite, [Next]_vars PROVE Finite' OBVIOUS
  <2>1. /\ types["req"] \subseteq Types /\ disk["req_ir"].of \subseteq Types
        /\ "req" \in Sides /\ DOMAIN SideFile \cap Derived = {}
    BY FileNames DEF IInv, MemoryTypes, KeptTypes
  <2>2. ASSUME pending' \subseteq pending PROVE Finite' BY <2>2, FS_Subset
  <2>3. ASSUME NEW s, Enter(s) PROVE Finite' BY <1>1, <2>3 DEF Enter
  <2>4. ASSUME NEW work, NEW T, IsFiniteSet(T), work \subseteq T, Ask(work) PROVE Finite'
    BY <2>4, FS_Subset DEF Ask
  <2>5. CASE UNCHANGED vars BY <2>2, <2>5 DEF vars, analysisVars, progress, tasks
  <2>6. CASE Restart BY <2>3, <2>6 DEF Restart, AnalysisRestarts
  <2>7. ASSUME NEW f \in Files, FinishWrite(f) PROVE Finite'
    BY <2>2, <2>7 DEF FinishWrite, progress, tasks
  <2>8. ASSUME NEW f \in Indexes, FinishIndex(f) PROVE Finite' BY <2>3, <2>8 DEF FinishIndex
  <2>9. CASE ParseTree \/ Annotate BY <2>4, <2>9 DEF ParseTree, Annotate
  <2>10. CASE Generate
    <3>1. IsFiniteSet(types["req"]) BY <2>1, FS_Subset
    <3>2. IsFiniteSet(types["req"] \X types["req"]) BY <3>1, FS_Product
    <3>3. IsFiniteSet(Work(stage)) BY <1>1, <3>1, <3>2 DEF Work
    <3> QED BY <2>4, <2>10, <3>3 DEF Generate
  <2>11. CASE AnalysisStep /\ ~ParseTree /\ ~Annotate /\ ~Generate
    <3>1. \/ pending' \subseteq pending
          \/ Enter("failed") \/ Enter(After[stage])
      BY <2>11
      DEF AnalysisStep, LoadTree, TreeParsed, PrepareQueries, NothingToQuery, LabelLeaf,
          LabelFails, RelateFails, RelateLeaf, LoadSide, TornSide, AnswerSide, SidesReady,
          NormalizeResponses, SettleTypes, KeepAnnotations, TreeAnnotated, TreesAnnotated,
          LoadDerived, TornDerived, WriteDerived, RelationMissing, Answer, RepairMessage,
          MessageFails, GarbledDependency, DependencyRaises, Continue, Fail, Done, Tried,
          NextDocument, progress, tasks
    <3> QED BY <2>2, <2>3, <3>1
  <2>12. CASE GenerateGenerators BY <2>1, <2>4, <2>12 DEF GenerateGenerators
  <2>13. CASE GenerateParser BY <1>1, <2>4, <2>13 DEF GenerateParser
  <2>14. CASE GenerateComponents BY <2>4, <2>14 DEF GenerateComponents
  <2>15. ASSUME NEW current \in SUBSET Prewarm, LoadComponents(current) PROVE Finite'
    BY <2>3, <2>4, <2>15 DEF LoadComponents, Proceed
  <2>16. CASE /\ ProducerStep /\ ~GenerateGenerators /\ ~GenerateParser
              /\ ~GenerateComponents
              /\ ~ \E current \in SUBSET Prewarm : LoadComponents(current)
    <3>1. \/ pending' \subseteq pending
          \/ Enter("failed") \/ Enter(Following[stage])
      BY <2>16
      DEF ProducerStep, LoadGenerators, TornGenerators, GeneratorsMade, NoGenerators,
          GeneratorMade, GeneratorFails, ComponentMade, ComponentFails, LoadParser,
          TornParser, ParserFails, ParserFailed, ParserNotReplaced, ParserMade,
          TornCheckers, ComponentsMade, GiveUp, Proceed, Done, Tried, progress, tasks
    <3> QED BY <2>2, <2>3, <3>1
  <2> QED BY <2>5, <2>6, <2>7, <2>8, <2>9, <2>10, <2>11, <2>12, <2>13, <2>14, <2>15, <2>16
          DEF Next, Works, AnalysisNext
<1>4. IInv => IsFiniteSet(writing) /\ IsFiniteSet(ToWrite)
  <2> SUFFICES ASSUME IInv PROVE IsFiniteSet(writing) /\ IsFiniteSet(ToWrite) OBVIOUS
  <2>1. writing \subseteq Files \cup Indexes BY DEF IInv, ProducerTypes
  <2>2. ToWrite \subseteq Files BY FileNames DEF ToWrite
  <2>3. IsFiniteSet(Files \cup Indexes) BY <1>1, FS_Union
  <2> QED BY <1>1, <2>1, <2>2, <2>3, FS_Subset
<1> HIDE DEF Finite
<1>5. Finite /\ IInv => IsFiniteSet(pending) /\ IsFiniteSet(writing) /\ IsFiniteSet(ToWrite)
  BY <1>4 DEF Finite
<1> QED BY <1>2, <1>3, <1>5, Invariance, PTL DEF Spec
=============================================================================
