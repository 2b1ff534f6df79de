--------------------------- MODULE LearningLoopProofs ---------------------------
(***************************************************************************)
(* Proofs about LearningLoop, for all request types, limits and bounds.    *)
(***************************************************************************)
EXTENDS LearningLoop, WellFoundedInduction, TLAPS

Lists == Seq(Nat) \ {<<>>}

-----------------------------------------------------------------------------
(* Sequences                                                               *)

LEMMA LastAppend ==
  ASSUME NEW R, NEW s \in Seq(R), NEW x \in R
  PROVE  /\ Append(s, x) \in Seq(R) /\ Append(s, x) # <<>>
         /\ Last(Append(s, x)) = x
BY DEF Last

LEMMA LastType ==
  ASSUME NEW R, NEW s \in Seq(R), s # <<>>
  PROVE  Last(s) \in R
BY DEF Last

\* A nonempty set of positions has a last one: the least distance from the end.
LEMMA LastPosition ==
  ASSUME NEW n \in Nat, NEW P, P \subseteq 1..n, P # {}
  PROVE  \E i \in P : \A j \in P : j <= i
<1> DEFINE D == {d \in Nat : n - d \in P}
<1>1. D \subseteq Nat /\ D # {}
  <2>1. PICK i \in P : TRUE OBVIOUS
  <2>2. n - i \in Nat /\ n - (n - i) = i BY <2>1
  <2> QED BY <2>1, <2>2
<1>2. \E d \in D : \A e \in D : ~ (<<e, d>> \in OpToRel(<, Nat))
  BY <1>1, NatLessThanWellFounded, WFMin, Zenon
<1>3. PICK d \in D : \A e \in D : ~ (e < d)
  BY <1>1, <1>2, Zenon DEF OpToRel
<1>4. n - d \in P BY <1>3
<1>5. ASSUME NEW j \in P PROVE j <= n - d
  <2>1. n - j \in Nat /\ n - (n - j) = j BY <1>5
  <2>2. n - j \in D BY <1>5, <2>1
  <2>3. ~ (n - j < d) BY <1>3, <2>2
  <2> QED BY <1>1, <1>3, <2>1, <2>3
<1> QED BY <1>4, <1>5

-----------------------------------------------------------------------------
(* Types of what the actions are built from                                *)

LEMMA SelectedType ==
  ASSUME TypeOK, NEW t \in Types
  PROVE  Selected(t) \in Nat
<1> DEFINE g == generators[t]
<1>1. g \in Seq(Nat) /\ g # <<>> BY DEF TypeOK, ComponentTypes, LoopTypes
<1>2. CASE Usable(t) = {} BY <1>1, <1>2 DEF Selected
<1>3. CASE Usable(t) # {}
  <2>1. Usable(t) \subseteq 1..Len(g) /\ Len(g) \in Nat BY <1>1 DEF Usable
  <2>2. \E i \in Usable(t) : \A j \in Usable(t) : j <= i
    BY <1>3, <2>1, LastPosition
  <2>3. (CHOOSE i \in Usable(t) : \A j \in Usable(t) : j <= i) \in 1..Len(g)
    BY <2>1, <2>2
  <2> QED BY <1>1, <1>3, <2>3 DEF Selected
<1> QED BY <1>2, <1>3

LEMMA EquipmentType ==
  ASSUME TypeOK
  PROVE  Equipment \in Equipments
<1>1. ASSUME NEW t \in Types PROVE Latest(t) \in Nat
  BY LastType DEF TypeOK, ComponentTypes, Latest
<1> QED BY <1>1 DEF TypeOK, ComponentTypes, LoopTypes, Equipment, Equipments

LEMMA CapturedType ==
  ASSUME TypeOK, NEW quality \in Nat
  PROVE  Captured(quality) \in Models
BY EquipmentType DEF TypeOK, ComponentTypes, LoopTypes, Captured, Equipments, Models

LEMMA ModelType ==
  ASSUME TypeOK, models # <<>>
  PROVE  Model \in Models /\ EquipmentOf(Model) \in Equipments
<1>1. Model \in Models BY LastType DEF TypeOK, ComponentTypes, LoopTypes, Model
<1> QED BY <1>1 DEF Models, Equipments, EquipmentOf

\* Publishing keeps types, and the other files.
LEMMA PublishType ==
  ASSUME TypeOK, NEW T \in SUBSET Types, Publish(T)
  PROVE  /\ generators' \in [Types -> Lists]
         /\ files' = [files EXCEPT !.generators = generators']
         /\ files'.generators \in [Types -> Lists]
<1>1. ASSUME NEW t \in Types
      PROVE  Append(generators[t], Len(generators[t])) \in Lists /\ generators[t] \in Lists
  <2>1. generators[t] \in Seq(Nat) /\ generators[t] # <<>> BY DEF TypeOK, ComponentTypes, LoopTypes
  <2>2. Len(generators[t]) \in Nat BY <2>1
  <2> QED BY <2>1, <2>2, LastAppend DEF Lists
<1>2. generators' \in [Types -> Lists] BY <1>1 DEF Publish
<1>3. files' = [files EXCEPT !.generators = generators'] BY DEF Publish
<1> QED BY <1>2, <1>3 DEF TypeOK, ComponentTypes, LoopTypes

\* A repair publishes at most one version of its type.
LEMMA RepairType ==
  ASSUME TypeOK, NEW t \in Types,
         NoRepair(t) \/ \E v \in Repairs(t) : PublishRepair(t, v)
  PROVE  /\ generators' \in [Types -> Lists]
         /\ \/ files' = files
            \/ files' = [files EXCEPT !.generators = generators']
<1>1. CASE UNCHANGED <<generators, files>> BY <1>1 DEF TypeOK, ComponentTypes, LoopTypes, Lists
<1>2. ASSUME NEW v \in Repairs(t), PublishRepair(t, v)
      PROVE  /\ generators' \in [Types -> Lists]
             /\ \/ files' = files
                \/ files' = [files EXCEPT !.generators = generators']
  <2>1. CASE Publish({t}) BY <2>1, PublishType
  <2>2. CASE UNCHANGED <<generators, files>> BY <2>2, <1>1
  <2> QED BY <1>2, <2>1, <2>2 DEF PublishRepair
<1> QED BY <1>1, <1>2 DEF NoRepair

-----------------------------------------------------------------------------
(* Type correctness                                                        *)

\* What is saved exists.
ModelToSave == pc \in {"save", "saveRetried"} => models # <<>>

\* The counters have not run out where the loop goes on.
CountersLeft ==
  /\ pc \in {"boot", "loop", "query", "evolve", "retry", "relearn"} => tries # 0
  /\ pc \in {"boot", "loop", "query", "evolve", "relearn"} => thresholds <= ThresholdLimit

TypeInv == TypeOK /\ ModelToSave /\ CountersLeft

LEMMA InitType == Init => TypeInv
<1> SUFFICES ASSUME Init PROVE TypeInv OBVIOUS
<1>1. <<0>> \in Seq(Nat) \ {<<>>} OBVIOUS
<1>2. TryLimit \in Nat /\ TryLimit # 0 /\ ThresholdLimit \in Nat
  BY LimitsAssumption DEF LimitsAssumption
<1>3. files \in FilesOnDisk BY <1>1 DEF Init, FilesOnDisk
<1>4. ComponentTypes BY <1>1 DEF Init, ComponentTypes
<1>5. LoopTypes BY DEF Init, LoopTypes, Outcomes
<1>6. CounterTypes /\ ModelToSave /\ CountersLeft
  BY <1>2 DEF Init, CounterTypes, ModelToSave, CountersLeft
<1>7. RunTypes BY DEF Init, RunTypes
<1> QED BY <1>3, <1>4, <1>5, <1>6, <1>7 DEF Init, TypeOK, TypeInv, Steps

\* The types of what an iteration uses.
LEMMA ComponentStep ==
  ASSUME TypeInv, Next
  PROVE  ComponentTypes'
<1> USE DEF mapperVars, parserVars, loopVars, runVars
<1>1. TypeOK /\ ModelToSave BY DEF TypeInv
<1>2. ComponentTypes /\ files \in FilesOnDisk BY <1>1 DEF TypeOK
<1>3. ASSUME UNCHANGED <<mapperVars, parserVars>>, used' \in {used, {}}
      PROVE  ComponentTypes'
  BY <1>2, <1>3 DEF ComponentTypes
<1>4. ASSUME NEW t \in Types, Query(t) PROVE ComponentTypes'
  <2>1. Selected(t) \in Nat BY <1>1, SelectedType
  <2>2. CASE SendCached(t)
    <3>1. PICK m \in Cached(t) : used' = used \cup {<<t, m[3]>>} BY <2>2 DEF SendCached
    <3>2. m[3] \in Nat BY <1>2, <3>1 DEF Cached, ComponentTypes
    <3> QED BY <1>2, <2>2, <3>1, <3>2 DEF SendCached, ComponentTypes
  <2>3. ASSUME NEW v \in Nat, Deliver(t, Selected(t), v)
        PROVE  /\ pool' \in SUBSET (Types \X Nat \X Nat)
               /\ used' \in SUBSET (Types \X Nat)
    BY <1>2, <2>1, <2>3 DEF Deliver, ComponentTypes
  <2>4. ASSUME Quarantine(t) PROVE quarantined' \in SUBSET (Types \X Nat)
    BY <1>2, <2>1, <2>4 DEF Quarantine, ComponentTypes
  <2>5. CASE GeneratorWorks(t)
    BY <1>2, <2>1, <2>3, <2>5 DEF GeneratorWorks, ComponentTypes
  <2>6. CASE GeneratorRepaired(t)
    <3>1. PICK v \in Repairs(t) : PublishRepair(t, v) /\ Deliver(t, Selected(t), v)
      BY <2>6 DEF GeneratorRepaired
    <3>2. generators[t] \in Seq(Nat) BY <1>2 DEF ComponentTypes
    <3>3. Versions(t) \subseteq Nat /\ Len(generators[t]) \in Nat
      BY <3>2 DEF Versions, Range
    <3>4. v \in Nat BY <3>1, <3>3 DEF Repairs
    <3>5. generators' \in [Types -> Lists] BY <1>1, <3>1, RepairType
    <3> QED BY <1>2, <2>3, <2>4, <2>6, <3>1, <3>4, <3>5
          DEF GeneratorRepaired, ComponentTypes, Lists
  <2>7. CASE GeneratorFallsBack(t)
    <3>1. PICK v \in Worked(t) : Deliver(t, Selected(t), v) BY <2>7 DEF GeneratorFallsBack
    <3>2. v \in Nat BY <1>2, <3>1 DEF Worked, ComponentTypes
    <3>3. generators' \in [Types -> Lists]
      BY <1>1, <2>7, RepairType DEF GeneratorFallsBack
    <3> QED BY <1>2, <2>3, <2>4, <2>7, <3>1, <3>2, <3>3
          DEF GeneratorFallsBack, ComponentTypes, Lists
  <2>8. CASE GeneratorFails(t)
    <3>1. generators' \in [Types -> Lists]
      BY <1>1, <2>8, RepairType DEF GeneratorFails
    <3> QED BY <1>2, <2>4, <2>8, <3>1 DEF GeneratorFails, ComponentTypes, Lists
  <2> QED BY <1>4, <2>2, <2>5, <2>6, <2>7, <2>8 DEF Query
<1>5. files.parsers \in Nat /\ files.parsers - 1 \in Nat /\ files.generators \in [Types -> Lists]
  BY <1>2 DEF FilesOnDisk, Lists
<1>6. ASSUME NEW p \in 0..files.parsers, NextParser(p) PROVE curParser' \in Nat /\ p \in Nat
  BY <1>5, <1>6 DEF NextParser
<1>7. CASE ParserReplaced
  BY <1>2, <1>6, <1>7 DEF ParserReplaced, ComponentTypes
<1>8. CASE ParserRollsBack
  <2>1. curParser' \in Nat BY <1>2, <1>6, <1>8 DEF ParserRollsBack, ComponentTypes
  <2>2. loaded' \in Nat BY <1>2, <1>8 DEF ParserRollsBack, ComponentTypes
  <2> QED BY <1>2, <1>8, <2>1, <2>2 DEF ParserRollsBack, ComponentTypes
<1>9. ASSUME NEW T \in SUBSET Types, Evolve(T) PROVE ComponentTypes'
  <2>1. generators' \in [Types -> Lists] BY <1>1, <1>9, PublishType DEF Evolve
  <2> QED BY <1>2, <1>9, <2>1 DEF Evolve, FreshOracles, ComponentTypes, Lists
<1>10. ASSUME NEW e \in Equipments, Activate(e), used' \in {used, {}}
       PROVE  ComponentTypes'
  <2>1. \A n \in Nat : <<n>> \in Lists BY DEF Lists
  <2>2. generators' \in [Types -> Lists] BY <1>10, <2>1 DEF Activate, Equipments
  <2>3. curParser' \in Nat BY <1>10 DEF Activate, Equipments
  <2> QED BY <1>2, <1>10, <2>2, <2>3 DEF Activate, ComponentTypes, Lists
<1>11. CASE SaveEquipment
  <2>1. EquipmentOf(Model) \in Equipments
    BY <1>1, <1>11, ModelType DEF SaveEquipment, ModelToSave
  <2> QED BY <1>10, <1>11, <2>1 DEF SaveEquipment, Leave
<1>12. CASE LoadModel
  BY <1>2, <1>3, <1>10, <1>12 DEF LoadModel, FilesOnDisk
<1>13. CASE Restart
  BY <1>5, <1>13 DEF Restart, ComponentTypes, Lists
<1>14. CASE ImportGuidance \/ StartLearning \/ LoopEnds \/ LoopIterates \/ Handover
  BY <1>3, <1>14 DEF ImportGuidance, StartLearning, LoopEnds, LoopIterates, Handover, Leave
<1>15. CASE IterationEnds
  BY <1>3, <1>15 DEF IterationEnds, Complete, CompletedLate, CompletedBetter, CompletedWorse,
                     ThresholdReached, QueryStops, BuildTable, Leave, FreshOracles
<1>16. CASE \/ RetriesExhausted \/ RetriesLeft \/ DeadlineExceeded \/ Fail
            \/ StopHandled \/ HandlerFails
  BY <1>3, <1>16 DEF RetriesExhausted, RetriesLeft, DeadlineExceeded, Fail, StopHandled,
                     HandlerFails, Leave
<1>17. CASE SpendBudget \/ Interrupt
  BY <1>3, <1>17 DEF SpendBudget, Interrupt
<1> QED BY <1>4, <1>7, <1>8, <1>9, <1>11, <1>12, <1>13, <1>14, <1>15, <1>16, <1>17
      DEF Next, Learn

\* The types of what the loop keeps.
LEMMA LoopStep ==
  ASSUME TypeInv, Next
  PROVE  LoopTypes'
<1> USE DEF loopVars
<1>1. TypeOK BY DEF TypeInv
<1>2. LoopTypes /\ files \in FilesOnDisk BY <1>1 DEF TypeOK
<1>3. ASSUME UNCHANGED <<models, recorded>>,
             guidance' \in {guidance, {}, {Equipment}} \/ guidance' = files.guidance,
             outcome' \in {outcome} \cup Outcomes
      PROVE  LoopTypes'
  BY <1>1, <1>2, <1>3, EquipmentType DEF LoopTypes, FilesOnDisk
<1>4. ASSUME NEW quality \in 0..MaxQuality,
             CompletedLate(quality) \/ CompletedBetter(quality) \/ CompletedWorse(quality)
      PROVE  LoopTypes'
  <2>1. quality \in Nat BY BoundsAssumption DEF BoundsAssumption
  <2>2. Captured(quality) \in Models BY <1>1, <2>1, CapturedType
  <2>3. <<Captured(quality)>> \in Seq(Models) BY <2>2
  <2>4. Append(models, Captured(quality)) \in Seq(Models)
    BY <1>2, <2>2, LastAppend DEF LoopTypes
  <2>5. CASE CompletedLate(quality)
    BY <1>2, <2>3, <2>5 DEF CompletedLate, LoopTypes, Outcomes
  <2>6. CASE CompletedBetter(quality)
    BY <1>2, <2>1, <2>4, <2>6 DEF CompletedBetter, LoopTypes
  <2>7. CASE CompletedWorse(quality)
    BY <1>2, <2>1, <2>7 DEF CompletedWorse, LoopTypes
  <2> QED BY <1>4, <2>5, <2>6, <2>7
<1>5. CASE LoadModel
  <2>1. PICK m \in files.model : models' = <<m>> BY <1>5 DEF LoadModel
  <2>2. m \in Models BY <1>2, <2>1 DEF FilesOnDisk
  <2>3. <<m>> \in Seq(Models) BY <2>2
  <2> QED BY <1>2, <1>5, <2>1, <2>3 DEF LoadModel, LoopTypes
<1>6. CASE Restart
  BY <1>6 DEF Restart, LoopTypes, Outcomes
<1>7. ASSUME NEW t \in Types, Query(t) PROVE LoopTypes'
  BY <1>3, <1>7 DEF Query, SendCached, GeneratorWorks, GeneratorRepaired, GeneratorFallsBack,
                    GeneratorFails
<1>8. CASE ParserReplaced \/ ParserRollsBack \/ \E T \in SUBSET Types : Evolve(T)
  BY <1>3, <1>8 DEF ParserReplaced, ParserRollsBack, Evolve
<1>9. CASE ImportGuidance \/ StartLearning \/ LoopEnds \/ LoopIterates \/ Handover
  BY <1>3, <1>9 DEF ImportGuidance, StartLearning, LoopEnds, LoopIterates, Handover, Outcomes
<1>10. CASE ThresholdReached \/ StopHandled \/ SaveEquipment
  BY <1>3, <1>10 DEF ThresholdReached, StopHandled, SaveEquipment, SaveGuidance, Outcomes
<1>11. CASE RetriesExhausted \/ RetriesLeft \/ DeadlineExceeded \/ Fail
  BY <1>3, <1>11 DEF RetriesExhausted, RetriesLeft, DeadlineExceeded, Fail, Outcomes
<1>12. CASE SpendBudget \/ Interrupt
  BY <1>3, <1>12 DEF SpendBudget, Interrupt
<1>13. CASE BuildTable \/ QueryStops \/ HandlerFails
  BY <1>3, <1>13 DEF BuildTable, QueryStops, HandlerFails
<1> QED BY <1>4, <1>5, <1>6, <1>7, <1>8, <1>9, <1>10, <1>11, <1>12, <1>13
      DEF Next, Learn, IterationEnds, Complete

\* The program counter, the counters, and what holds where the loop goes on.
LEMMA CounterStep ==
  ASSUME TypeInv, Next
  PROVE  pc' \in Steps /\ CounterTypes' /\ ModelToSave' /\ CountersLeft'
<1> DEFINE Goal == pc \in Steps /\ CounterTypes /\ ModelToSave /\ CountersLeft
<1> USE DEF loopVars, Steps
<1>1. pc \in Steps /\ CounterTypes /\ ModelToSave /\ CountersLeft BY DEF TypeInv, TypeOK
<1>2. /\ TryLimit \in Nat /\ TryLimit # 0 /\ ThresholdLimit \in Nat
      /\ tries \in 0..TryLimit /\ thresholds \in 0..(ThresholdLimit + 1)
  BY <1>1, LimitsAssumption DEF LimitsAssumption, CounterTypes
<1>3. ASSUME UNCHANGED <<models, tries, thresholds>>,
             \/ pc' = pc
             \/ /\ pc' \in {"loop", "query", "evolve"}
                /\ pc \in {"boot", "loop", "query", "evolve", "relearn"}
             \/ pc' \in {"stopping", "learned"} \cup Ends
      PROVE  Goal'
  BY <1>1, <1>2, <1>3 DEF CounterTypes, ModelToSave, CountersLeft, Ends
<1>4. ASSUME NEW quality \in 0..MaxQuality,
             CompletedLate(quality) \/ CompletedBetter(quality) \/ CompletedWorse(quality)
      PROVE  Goal'
  <2>1. CASE CompletedLate(quality)
    BY <1>1, <1>2, <2>1 DEF CompletedLate, Leave, CounterTypes, ModelToSave, CountersLeft
  <2>2. CASE CompletedBetter(quality)
    BY <1>1, <1>2, <2>2 DEF CompletedBetter, CounterTypes, ModelToSave, CountersLeft
  <2>3. CASE CompletedWorse(quality)
    <3>1. tries # 0 /\ models # <<>>
      BY <1>1, <2>3 DEF CompletedWorse, Improves, CountersLeft
    <3>2. tries - 1 \in 0..TryLimit /\ (tries # 1 => tries - 1 # 0) BY <1>2, <3>1
    <3>3. models' = models /\ tries' = tries - 1 /\ thresholds' = 0
      BY <2>3 DEF CompletedWorse
    <3>4. pc' = "save" \/ (tries # 1 /\ pc' = "loop") BY <2>3 DEF CompletedWorse
    <3> QED BY <1>2, <3>1, <3>2, <3>3, <3>4 DEF CounterTypes, ModelToSave, CountersLeft
  <2> QED BY <1>4, <2>1, <2>2, <2>3
<1>5. CASE ThresholdReached
  <2>1. thresholds <= ThresholdLimit /\ tries # 0
    BY <1>1, <1>5 DEF ThresholdReached, CountersLeft
  <2> QED BY <1>2, <1>5, <2>1 DEF ThresholdReached, CounterTypes, ModelToSave, CountersLeft
<1>6. CASE RetriesExhausted
  BY <1>1, <1>2, <1>6 DEF RetriesExhausted, Leave, CounterTypes, ModelToSave, CountersLeft
<1>7. CASE RetriesLeft
  BY <1>1, <1>2, <1>7 DEF RetriesLeft, CounterTypes, ModelToSave, CountersLeft
<1>8. CASE Restart
  BY <1>2, <1>8 DEF Restart, CounterTypes, ModelToSave, CountersLeft
<1>9. CASE LoadModel
  BY <1>1, <1>2, <1>9 DEF LoadModel, CounterTypes, ModelToSave, CountersLeft
<1>10. ASSUME NEW t \in Types, Query(t) PROVE Goal'
  BY <1>3, <1>10 DEF Query, SendCached, GeneratorWorks, GeneratorRepaired, GeneratorFallsBack,
                     GeneratorFails
<1>11. CASE ParserReplaced \/ ParserRollsBack \/ \E T \in SUBSET Types : Evolve(T)
  BY <1>3, <1>11 DEF ParserReplaced, ParserRollsBack, Evolve
<1>12. CASE ImportGuidance \/ StartLearning \/ LoopEnds \/ LoopIterates \/ Handover
  BY <1>3, <1>12 DEF ImportGuidance, StartLearning, LoopEnds, LoopIterates, Handover, Leave,
                     Ends
<1>13. CASE SaveEquipment \/ DeadlineExceeded \/ Fail \/ StopHandled \/ HandlerFails
  BY <1>3, <1>13 DEF SaveEquipment, DeadlineExceeded, Fail, StopHandled, HandlerFails, Leave, Ends
<1>14. CASE SpendBudget \/ Interrupt \/ BuildTable \/ QueryStops
  BY <1>3, <1>14 DEF SpendBudget, Interrupt, BuildTable, QueryStops
<1> QED BY <1>4, <1>5, <1>6, <1>7, <1>8, <1>9, <1>10, <1>11, <1>12, <1>13, <1>14
      DEF Next, Learn, IterationEnds, Complete

\* The types of the latch, the budget and the number of processes.
LEMMA RunStep ==
  ASSUME TypeInv, Next
  PROVE  RunTypes' /\ starts' \in Nat
<1> USE DEF runVars, loopVars
<1>1. RunTypes /\ starts \in Nat BY DEF TypeInv, TypeOK
<1>2. ASSUME UNCHANGED <<budgetSpent, stop, starts, tableBuilt>>
      PROVE  RunTypes' /\ starts' \in Nat
  BY <1>1, <1>2, Zenon DEF RunTypes
<1>3. ASSUME NEW reason \in {"deadline", "cancelled", "failure", "model_learning_failure"},
             RequestStop(reason), UNCHANGED <<budgetSpent, starts, tableBuilt>>
      PROVE  RunTypes' /\ starts' \in Nat
  <2>1. stop' \in {"none", "deadline", "cancelled", "failure", "model_learning_failure"}
    BY <1>1, <1>3 DEF RequestStop, RunTypes
  <2> QED BY <1>1, <1>3, <2>1, Zenon DEF RunTypes
<1>4. CASE Restart
  <2>1. starts' \in Nat BY <1>1, <1>4 DEF Restart
  <2>2. RunTypes' BY <1>4, Zenon DEF Restart, RunTypes
  <2> QED BY <2>1, <2>2
<1>5. CASE SpendBudget
  BY <1>1, <1>5, Zenon DEF SpendBudget, RunTypes
<1>6. CASE Interrupt
  BY <1>3, <1>6 DEF Interrupt
<1>7. CASE DeadlineExceeded \/ Fail
  BY <1>3, <1>7 DEF DeadlineExceeded, Fail
<1>8. CASE LoadModel \/ ImportGuidance \/ StartLearning \/ LoopEnds \/ LoopIterates \/ Handover
  BY <1>2, <1>8 DEF LoadModel, ImportGuidance, StartLearning, LoopEnds, LoopIterates, Handover
<1>9. ASSUME NEW t \in Types, Query(t) PROVE RunTypes' /\ starts' \in Nat
  BY <1>2, <1>9 DEF Query, SendCached, GeneratorWorks, GeneratorRepaired, GeneratorFallsBack,
              GeneratorFails
<1>10. CASE ParserReplaced \/ ParserRollsBack \/ \E T \in SUBSET Types : Evolve(T)
  BY <1>2, <1>10 DEF ParserReplaced, ParserRollsBack, Evolve
<1>11. CASE Complete \/ ThresholdReached
  BY <1>2, <1>11 DEF Complete, CompletedLate, CompletedBetter, CompletedWorse, ThresholdReached
<1>12. CASE RetriesExhausted \/ RetriesLeft \/ SaveEquipment \/ StopHandled \/ HandlerFails
  BY <1>2, <1>12 DEF RetriesExhausted, RetriesLeft, SaveEquipment, StopHandled, HandlerFails
<1>13. CASE QueryStops
  BY <1>3, <1>13 DEF QueryStops
<1>14. CASE BuildTable
  <2>1. budgetSpent' = budgetSpent /\ stop' = stop /\ starts' = starts /\ tableBuilt' = TRUE
    BY <1>14 DEF BuildTable
  <2> QED BY <1>1, <2>1, Zenon DEF RunTypes
<1> QED BY <1>2, <1>4, <1>5, <1>6, <1>7, <1>8, <1>9, <1>10, <1>11, <1>12, <1>13, <1>14
      DEF Next, Learn, IterationEnds

\* The types of the files.
LEMMA FilesStep ==
  ASSUME TypeInv, Next
  PROVE  files' \in FilesOnDisk
<1>1. TypeOK /\ ModelToSave BY DEF TypeInv
<1>2. files \in FilesOnDisk BY <1>1 DEF TypeOK
<1>3. ASSUME files' = files PROVE files' \in FilesOnDisk BY <1>2, <1>3
<1>4. ASSUME NEW g \in [Types -> Lists], files' = [files EXCEPT !.generators = g]
      PROVE  files' \in FilesOnDisk
  BY <1>2, <1>4 DEF FilesOnDisk, Lists
<1>5. ASSUME models # <<>>, SaveModel PROVE files' \in FilesOnDisk
  BY <1>1, <1>2, <1>5, ModelType DEF SaveModel, FilesOnDisk
<1>6. ASSUME SaveGuidance PROVE files' \in FilesOnDisk
  BY <1>1, <1>2, <1>6, EquipmentType DEF SaveGuidance, FilesOnDisk
<1>7. CASE SaveEquipment
  <2>1. EquipmentOf(Model) \in Equipments
    BY <1>1, <1>7, ModelType DEF SaveEquipment, ModelToSave
  <2> QED BY <1>2, <1>7, <2>1 DEF SaveEquipment, FilesOnDisk
<1>8. ASSUME NEW t \in Types, Query(t) PROVE files' \in FilesOnDisk
  <2>1. CASE SendCached(t) \/ GeneratorWorks(t)
    BY <1>3, <2>1 DEF SendCached, GeneratorWorks
  <2>2. CASE GeneratorRepaired(t)
    BY <1>1, <1>3, <1>4, <2>2, RepairType DEF GeneratorRepaired
  <2>3. CASE GeneratorFallsBack(t) \/ GeneratorFails(t)
    BY <1>1, <1>3, <1>4, <2>3, RepairType DEF GeneratorFallsBack, GeneratorFails
  <2> QED BY <1>8, <2>1, <2>2, <2>3 DEF Query
<1>9. CASE ParserReplaced \/ ParserRollsBack
  <2>1. ASSUME NEW p \in 0..files.parsers, NextParser(p) PROVE files' \in FilesOnDisk
    <3>1. files.parsers \in Nat BY <1>2 DEF FilesOnDisk
    <3>2. p + 1 \in Nat \ {0} BY <3>1
    <3>3. files' = files \/ files' = [files EXCEPT !.parsers = p + 1]
      BY <2>1 DEF NextParser
    <3> QED BY <1>2, <3>2, <3>3 DEF FilesOnDisk
  <2> QED BY <1>3, <1>9, <2>1 DEF ParserReplaced, ParserRollsBack
<1>10. ASSUME NEW T \in SUBSET Types, Evolve(T) PROVE files' \in FilesOnDisk
  BY <1>1, <1>4, <1>10, PublishType DEF Evolve
<1>11. CASE IterationEnds
  <2>1. ASSUME NEW quality \in 0..MaxQuality, CompletedWorse(quality)
        PROVE  files' \in FilesOnDisk
    BY <1>3, <1>5, <2>1 DEF CompletedWorse, Improves
  <2> QED BY <1>3, <1>6, <1>11, <2>1 DEF IterationEnds, Complete, CompletedLate, CompletedBetter,
                                       ThresholdReached, QueryStops, BuildTable
<1>12. CASE RetriesExhausted
  BY <1>3, <1>5, <1>12 DEF RetriesExhausted
<1>13. CASE LoadModel \/ ImportGuidance \/ StartLearning \/ LoopEnds \/ LoopIterates \/ Handover
  BY <1>3, <1>13 DEF LoadModel, ImportGuidance, StartLearning, LoopEnds, LoopIterates, Handover
<1>14. CASE RetriesLeft \/ DeadlineExceeded \/ Fail \/ SpendBudget \/ Interrupt \/ Restart
  BY <1>3, <1>14 DEF RetriesLeft, DeadlineExceeded, Fail, SpendBudget, Interrupt, Restart
<1>15. CASE StopHandled \/ HandlerFails
  BY <1>3, <1>6, <1>15 DEF StopHandled, HandlerFails
<1> QED BY <1>7, <1>8, <1>9, <1>10, <1>11, <1>12, <1>13, <1>14, <1>15 DEF Next, Learn

LEMMA TypeStep == TypeInv /\ [Next]_vars => TypeInv'
<1> SUFFICES ASSUME TypeInv, [Next]_vars PROVE TypeInv' OBVIOUS
<1>1. CASE Next
  BY <1>1, ComponentStep, LoopStep, CounterStep, RunStep, FilesStep, Zenon DEF TypeInv, TypeOK
<1>2. CASE UNCHANGED vars
  <2>1. ComponentTypes' /\ LoopTypes'
    BY <1>2 DEF TypeInv, TypeOK, ComponentTypes, LoopTypes, vars, mapperVars, parserVars, loopVars
  <2>2. CounterTypes' /\ ModelToSave' /\ CountersLeft'
    BY <1>2 DEF TypeInv, TypeOK, CounterTypes, ModelToSave, CountersLeft, vars, loopVars
  <2>3. RunTypes'
    BY <1>2, Zenon DEF TypeInv, TypeOK, RunTypes, vars, runVars, loopVars
  <2>4. pc' \in Steps /\ files' \in FilesOnDisk /\ starts' \in Nat
    BY <1>2, Zenon DEF TypeInv, TypeOK, vars
  <2> QED BY <2>1, <2>2, <2>3, <2>4, Zenon DEF TypeInv, TypeOK
<1> QED BY <1>1, <1>2

\* All variables keep their types; neither the tries nor the retries are overspent.
THEOREM TypeCorrect == Spec => []TypeOK
<1>1. Init => TypeInv BY InitType
<1>2. TypeInv /\ [Next]_vars => TypeInv' BY TypeStep
<1>3. TypeInv => TypeOK BY DEF TypeInv
<1> QED BY <1>1, <1>2, <1>3, PTL DEF Spec

-----------------------------------------------------------------------------
(* The best model is kept                                                  *)

BestInv == BestIsKept /\ (pc = "boot" => models = <<>> /\ recorded = {})

LEMMA BestInit == Init => BestInv
BY DEF Init, BestInv, BestIsKept

LEMMA BestStep == TypeInv /\ BestInv /\ [Next]_vars => BestInv'
<1> SUFFICES ASSUME TypeInv, BestInv, [Next]_vars PROVE BestInv' OBVIOUS
<1> USE DEF loopVars
<1>1. BestIsKept /\ (pc = "boot" => models = <<>> /\ recorded = {}) BY DEF BestInv
<1>2. models \in Seq(Models) /\ recorded \in SUBSET Nat BY DEF TypeInv, TypeOK, LoopTypes
<1>3. ASSUME UNCHANGED <<models, recorded>>, pc' # "boot" \/ pc = "boot"
      PROVE  BestInv'
  BY <1>1, <1>3 DEF BestInv, BestIsKept, Model
<1>4. ASSUME NEW quality \in 0..MaxQuality,
             CompletedLate(quality) \/ CompletedBetter(quality) \/ CompletedWorse(quality)
      PROVE  BestInv'
  <2>1. quality \in Nat BY BoundsAssumption DEF BoundsAssumption
  <2>2. Captured(quality) \in Models /\ Captured(quality).quality = quality
    BY <2>1, CapturedType DEF TypeInv, Captured
  <2>3. CASE CompletedLate(quality)
    BY <1>1, <2>3 DEF CompletedLate, Leave, BestInv, BestIsKept, Model
  <2>4. CASE CompletedBetter(quality)
    <3>1. models' = Append(models, Captured(quality)) /\ pc' = "evolve"
          /\ recorded' = recorded \cup {quality}
      BY <2>4 DEF CompletedBetter
    <3>2. models' # <<>> /\ Model'.quality = quality
      BY <1>2, <2>2, <3>1, LastAppend DEF Model
    <3>3. ASSUME NEW q \in recorded PROVE q <= quality
      <4>1. models # <<>> /\ q <= Model.quality BY <1>1 DEF BestIsKept
      <4>2. quality > Model.quality BY <2>4, <4>1 DEF CompletedBetter, Improves
      <4>3. Model.quality \in Nat BY <4>1, ModelType DEF TypeInv, Models
      <4> QED BY <1>2, <2>1, <4>1, <4>2, <4>3
    <3> QED BY <2>1, <3>1, <3>2, <3>3 DEF BestInv, BestIsKept
  <2>5. CASE CompletedWorse(quality)
    <3>1. models' = models /\ recorded' = recorded \cup {quality} /\ pc' \in {"save", "loop"}
      BY <2>5 DEF CompletedWorse
    <3>2. models # <<>> /\ ~ (quality > Model.quality) BY <2>5 DEF CompletedWorse, Improves
    <3>3. Model.quality \in Nat BY <3>2, ModelType DEF TypeInv, Models
    <3>4. quality <= Model.quality BY <2>1, <3>2, <3>3
    <3> QED BY <1>1, <3>1, <3>2, <3>4 DEF BestInv, BestIsKept, Model
  <2> QED BY <1>4, <2>3, <2>4, <2>5
<1>5. CASE LoadModel
  BY <1>1, <1>5 DEF LoadModel, BestInv, BestIsKept
<1>6. CASE Restart
  BY <1>6 DEF Restart, BestInv, BestIsKept
<1>7. ASSUME NEW t \in Types, Query(t) PROVE BestInv'
  BY <1>3, <1>7 DEF Query, SendCached, GeneratorWorks, GeneratorRepaired, GeneratorFallsBack,
                    GeneratorFails
<1>8. CASE ParserReplaced \/ ParserRollsBack \/ \E T \in SUBSET Types : Evolve(T)
  BY <1>3, <1>8 DEF ParserReplaced, ParserRollsBack, Evolve
<1>9. CASE ImportGuidance \/ StartLearning \/ LoopEnds \/ LoopIterates \/ Handover
  BY <1>3, <1>9 DEF ImportGuidance, StartLearning, LoopEnds, LoopIterates, Handover, Leave
<1>10. CASE ThresholdReached \/ QueryStops \/ BuildTable \/ SaveEquipment
  BY <1>3, <1>10 DEF ThresholdReached, QueryStops, BuildTable, SaveEquipment, Leave
<1>11. CASE RetriesExhausted \/ RetriesLeft \/ DeadlineExceeded \/ Fail
  BY <1>3, <1>11 DEF RetriesExhausted, RetriesLeft, DeadlineExceeded, Fail, Leave
<1>12. CASE SpendBudget \/ Interrupt \/ UNCHANGED vars
  BY <1>3, <1>12 DEF SpendBudget, Interrupt, vars
<1>13. CASE StopHandled \/ HandlerFails
  BY <1>3, <1>13 DEF StopHandled, HandlerFails, Leave
<1> QED BY <1>4, <1>5, <1>6, <1>7, <1>8, <1>9, <1>10, <1>11, <1>12, <1>13
      DEF Next, Learn, IterationEnds, Complete

\* The model that learning returns and saves is the best of all compared ones, however
\* many qualities, iterations, thresholds and repairs there are.
THEOREM BestModelIsKept == Spec => []BestIsKept
<1>1. Init => TypeInv /\ BestInv BY InitType, BestInit
<1>2. TypeInv /\ BestInv /\ [Next]_vars => TypeInv' /\ BestInv' BY TypeStep, BestStep
<1>3. BestInv => BestIsKept BY DEF BestInv
<1> QED BY <1>1, <1>2, <1>3, PTL DEF Spec

-----------------------------------------------------------------------------
(* What is saved, and what is fuzzed with                                  *)

Learning == {"loop", "query", "stopping", "evolve", "retry", "relearn"}
Saving == {"save", "saveRetried"}

\* Learning runs only where nothing was finalized; the model is saved before its
\* equipment; and where both exist the generators are those of the model.
FinalizedInv ==
  /\ \A m, n \in files.model : m = n
  /\ SavedPairMatches
  /\ pc \in Learning => files.model = {} /\ files.equipment = {}
  /\ pc \in Saving => models # <<>> /\ files.model = {Model} /\ files.equipment = {}
  /\ pc \in {"learned", "fuzz"} /\ files.equipment # {} =>
       models # <<>> /\ \A t \in Types : generators[t] = <<Model.generators[t]>>

LEMMA SelectedOnly ==
  ASSUME NEW t \in Types, NEW v, generators[t] = <<v>>
  PROVE  Selected(t) = v
<1>0. <<v>> \in Seq({v}) /\ Len(<<v>>) = 1 /\ DOMAIN <<v>> = {1} /\ <<v>>[1] = v
      /\ Head(<<v>>) = v
  OBVIOUS
<1>1. CASE Usable(t) = {} BY <1>0, <1>1 DEF Selected
<1>2. CASE Usable(t) # {}
  <2>1. Usable(t) = {1} BY <1>0, <1>2 DEF Usable
  <2>2. (CHOOSE i \in Usable(t) : \A j \in Usable(t) : j <= i) \in {1} BY <2>1
  <2>3. generators[t][CHOOSE i \in Usable(t) : \A j \in Usable(t) : j <= i] = v
    BY <1>0, <2>2
  <2> QED BY <1>2, <2>3 DEF Selected
<1> QED BY <1>1, <1>2

LEMMA FinalizedInit == Init => FinalizedInv
BY DEF Init, FinalizedInv, SavedPairMatches, Learning, Saving

\* Steps that change neither of the two files.
LEMMA FinalizedFrame ==
  ASSUME FinalizedInv, files'.model = files.model, files'.equipment = files.equipment,
         \/ pc' \in Learning /\ pc \in Learning
         \/ pc' \in {"boot", "stopped", "failed"}
         \/ pc' = pc /\ UNCHANGED <<models, generators>>
         \/ pc' = "fuzz" /\ pc = "learned" /\ UNCHANGED <<models, generators>>
         \/ pc' = "learned" /\ pc \in Learning
  PROVE  FinalizedInv'
BY DEF FinalizedInv, SavedPairMatches, Learning, Saving, Model

LEMMA OtherFilesKept ==
  ASSUME TypeOK, NEW g, files' = [files EXCEPT !.generators = g]
                        \/ files' = [files EXCEPT !.guidance = g]
                        \/ files' = [files EXCEPT !.parsers = g]
                        \/ files' = files
  PROVE  files'.model = files.model /\ files'.equipment = files.equipment
BY DEF TypeOK, FilesOnDisk

LEMMA FinalizedStep == TypeInv /\ FinalizedInv /\ [Next]_vars => FinalizedInv'
<1> SUFFICES ASSUME TypeInv, FinalizedInv, [Next]_vars PROVE FinalizedInv' OBVIOUS
<1> USE DEF mapperVars, parserVars, loopVars
<1>1. TypeOK /\ files \in FilesOnDisk BY DEF TypeInv, TypeOK
<1>2. ASSUME files' = [files EXCEPT !.model = {Model}], models' = models, models # <<>>,
             pc \in Learning, pc' \in Saving
      PROVE  FinalizedInv'
  <2>1. files'.model = {Model} /\ files'.equipment = {}
    BY <1>1, <1>2 DEF FilesOnDisk, FinalizedInv
  <2> QED BY <1>2, <2>1 DEF FinalizedInv, SavedPairMatches, Learning, Saving, Model
<1>3. CASE SaveEquipment
  <2>1. models # <<>> /\ files.model = {Model}
    BY <1>3 DEF SaveEquipment, FinalizedInv, Saving
  <2>2. files'.model = {Model} /\ files'.equipment = {EquipmentOf(Model)}
    BY <1>1, <1>3, <2>1 DEF SaveEquipment, FilesOnDisk
  <2>3. /\ \A t \in Types : generators'[t] = <<Model.generators[t]>>
        /\ models' = models /\ pc' = "learned"
    BY <1>3 DEF SaveEquipment, Activate, Leave, EquipmentOf
  <2> QED BY <2>1, <2>2, <2>3 DEF FinalizedInv, SavedPairMatches, Learning, Saving, Model
<1>4. CASE LoadModel
  <2>1. PICK m \in files.model : models' = <<m>> BY <1>4 DEF LoadModel
  <2>2. models' # <<>> /\ Model' = m BY <2>1 DEF Model, Last
  <2>3. ASSUME files.equipment # {}
        PROVE  \A t \in Types : generators'[t] = <<m.generators[t]>>
    <3>1. PICK e \in files.equipment : Activate(e) BY <1>4, <2>3 DEF LoadModel
    <3>2. e = EquipmentOf(m) BY DEF FinalizedInv, SavedPairMatches
    <3> QED BY <3>1, <3>2 DEF Activate, EquipmentOf
  <2>4. pc' = "learned" /\ files' = files BY <1>4 DEF LoadModel
  <2> QED BY <2>2, <2>3, <2>4 DEF FinalizedInv, SavedPairMatches, Learning, Saving
<1>5. ASSUME pc = "boot", files.model = {}, files' = files, pc' \in {"learned", "loop"}
      PROVE  FinalizedInv'
  <2>1. files.equipment = {} BY <1>5 DEF FinalizedInv, SavedPairMatches
  <2> QED BY <1>5, <2>1 DEF FinalizedInv, SavedPairMatches, Learning, Saving
<1>6. CASE ImportGuidance \/ StartLearning
  BY <1>5, <1>6 DEF ImportGuidance, StartLearning
<1>7. ASSUME NEW t \in Types, Query(t) PROVE FinalizedInv'
  <2>1. pc = "query" /\ pc' = "query"
    BY <1>7 DEF Query, SendCached, GeneratorWorks, GeneratorRepaired, GeneratorFallsBack,
                GeneratorFails
  <2>2. files' = files \/ files' = [files EXCEPT !.generators = generators']
    <3>1. CASE SendCached(t) \/ GeneratorWorks(t) BY <3>1 DEF SendCached, GeneratorWorks
    <3>2. CASE GeneratorRepaired(t)
      BY <1>1, <3>2, RepairType DEF GeneratorRepaired
    <3>3. CASE GeneratorFallsBack(t) \/ GeneratorFails(t)
      BY <1>1, <3>3, RepairType DEF GeneratorFallsBack, GeneratorFails
    <3> QED BY <1>7, <3>1, <3>2, <3>3 DEF Query
  <2> QED BY <1>1, <2>1, <2>2, OtherFilesKept, FinalizedFrame DEF Learning
<1>8. CASE ParserReplaced \/ ParserRollsBack
  <2>1. pc = "query" /\ pc' = "query" BY <1>8 DEF ParserReplaced, ParserRollsBack
  <2>2. \/ files' = files
        \/ \E p \in 0..files.parsers : files' = [files EXCEPT !.parsers = p + 1]
    BY <1>8 DEF ParserReplaced, ParserRollsBack, NextParser
  <2> QED BY <1>1, <2>1, <2>2, OtherFilesKept, FinalizedFrame DEF Learning
<1>9. ASSUME NEW T \in SUBSET Types, Evolve(T) PROVE FinalizedInv'
  BY <1>1, <1>9, OtherFilesKept, FinalizedFrame DEF Evolve, Publish, Learning
<1>10. ASSUME NEW quality \in 0..MaxQuality,
              CompletedLate(quality) \/ CompletedBetter(quality) \/ CompletedWorse(quality)
       PROVE  FinalizedInv'
  <2>1. CASE CompletedLate(quality)
    BY <2>1, FinalizedFrame DEF CompletedLate, Leave, Learning
  <2>2. CASE CompletedBetter(quality)
    BY <2>2, FinalizedFrame DEF CompletedBetter, Learning
  <2>3. CASE CompletedWorse(quality) /\ pc' = "save"
    BY <1>2, <2>3 DEF CompletedWorse, SaveModel, Improves, Learning, Saving
  <2>4. CASE CompletedWorse(quality) /\ pc' # "save"
    BY <2>4, FinalizedFrame DEF CompletedWorse, Learning
  <2> QED BY <1>10, <2>1, <2>2, <2>3, <2>4
<1>11. CASE ThresholdReached \/ StopHandled
  BY <1>1, <1>11, OtherFilesKept, FinalizedFrame
    DEF ThresholdReached, StopHandled, SaveGuidance, Leave, Learning
<1>12. CASE RetriesExhausted /\ models # <<>>
  BY <1>2, <1>12 DEF RetriesExhausted, SaveModel, Learning, Saving
<1>13. CASE RetriesExhausted /\ models = <<>>
  BY <1>13, FinalizedFrame DEF RetriesExhausted, Leave, Learning
<1>14. CASE RetriesLeft \/ DeadlineExceeded \/ Fail
  BY <1>14, FinalizedFrame DEF RetriesLeft, DeadlineExceeded, Fail, Leave, Learning
<1>15. CASE LoopEnds \/ LoopIterates \/ Handover \/ BuildTable \/ QueryStops \/ HandlerFails
  BY <1>15, FinalizedFrame DEF LoopEnds, LoopIterates, Handover, BuildTable, QueryStops,
                               HandlerFails, Leave, Learning
<1>16. CASE SpendBudget \/ Interrupt \/ Restart \/ UNCHANGED vars
  BY <1>16, FinalizedFrame DEF SpendBudget, Interrupt, Restart, vars
<1> QED BY <1>3, <1>4, <1>6, <1>7, <1>8, <1>9, <1>10, <1>11, <1>12, <1>13, <1>14, <1>15, <1>16
      DEF Next, Learn, IterationEnds, Complete

LEMMA FinalizedAlways == Spec => []FinalizedInv
<1>1. Init => TypeInv /\ FinalizedInv BY InitType, FinalizedInit
<1>2. TypeInv /\ FinalizedInv /\ [Next]_vars => TypeInv' /\ FinalizedInv'
  BY TypeStep, FinalizedStep
<1> QED BY <1>1, <1>2, PTL DEF Spec

\* Equipment on disk belongs to the model on disk, wherever a process died.
THEOREM SavedPairAlwaysMatches == Spec => []SavedPairMatches
<1>1. FinalizedInv => SavedPairMatches BY DEF FinalizedInv
<1> QED BY <1>1, FinalizedAlways, PTL

\* A finalized model is fuzzed with its own generators, by the process that learned it
\* and by every later one.
THEOREM ModelKeepsItsGenerators == Spec => []ModelHasItsGenerators
<1>1. FinalizedInv => ModelHasItsGenerators
  BY SelectedOnly DEF FinalizedInv, ModelHasItsGenerators
<1> QED BY <1>1, FinalizedAlways, PTL

-----------------------------------------------------------------------------
(* The evidence of a table                                                 *)

Sound(t) == \A b \in quarantined : b[1] # t

\* Where no version of a type broke, its newest version wrote all that was sent, and
\* every message is the work of the version it is filed under.
EvidenceInv ==
  /\ pc = "boot" => used = {}
  /\ \A t \in Types : Sound(t) =>
       /\ \A p \in used : p[1] = t => p[2] = Latest(t)
       /\ \A m \in pool : m[1] = t => m[2] = m[3]

LEMMA SelectedLatest ==
  ASSUME TypeOK, NEW t \in Types, Sound(t)
  PROVE  Selected(t) = Latest(t)
<1> DEFINE n == Len(generators[t])
<1>1. generators[t] \in Seq(Nat) /\ generators[t] # <<>> BY DEF TypeOK, ComponentTypes
<1>2. n \in Nat /\ DOMAIN generators[t] = 1..n /\ n \in 1..n BY <1>1
<1>3. Usable(t) = 1..n BY <1>2 DEF Sound, Usable
<1>4. (CHOOSE i \in Usable(t) : \A j \in Usable(t) : j <= i) = n
  BY <1>2, <1>3
<1> QED BY <1>2, <1>3, <1>4 DEF Selected, Latest, Last

LEMMA EvidenceInit == Init => EvidenceInv
BY DEF Init, EvidenceInv

LEMMA EvidenceStep == TypeInv /\ EvidenceInv /\ [Next]_vars => EvidenceInv'
<1> SUFFICES ASSUME TypeInv, EvidenceInv, [Next]_vars PROVE EvidenceInv' OBVIOUS
<1> USE DEF mapperVars, parserVars
<1>1. TypeOK /\ ComponentTypes BY DEF TypeInv, TypeOK
<1>2. ASSUME UNCHANGED mapperVars, used' = used, pc' # "boot" \/ pc = "boot"
      PROVE  EvidenceInv'
  BY <1>2 DEF EvidenceInv, Sound, Latest
<1>3. ASSUME used' = {}, quarantined' = quarantined, pool' \in {pool, {}}
      PROVE  EvidenceInv'
  BY <1>3 DEF EvidenceInv, Sound
<1>4. ASSUME NEW t \in Types, Query(t) PROVE EvidenceInv'
  <2>1. pc' # "boot"
    BY <1>4 DEF Query, SendCached, GeneratorWorks, GeneratorRepaired, GeneratorFallsBack,
                GeneratorFails
  <2>2. CASE SendCached(t)
    <3>1. PICK m \in Cached(t) : used' = used \cup {<<t, m[3]>>} BY <2>2 DEF SendCached
    <3>2. ASSUME Sound(t) PROVE m[3] = Latest(t)
      BY <1>1, <3>1, <3>2, SelectedLatest DEF Cached, EvidenceInv
    <3>3. UNCHANGED mapperVars BY <2>2 DEF SendCached
    <3> QED BY <2>1, <3>1, <3>2, <3>3 DEF EvidenceInv, Sound, Latest
  <2>3. CASE GeneratorWorks(t)
    <3>1. /\ pool' = pool \cup {<<t, Selected(t), Selected(t)>>}
          /\ used' = used \cup {<<t, Selected(t)>>}
          /\ UNCHANGED <<generators, quarantined>>
      BY <2>3 DEF GeneratorWorks, Deliver
    <3>2. ASSUME Sound(t) PROVE Selected(t) = Latest(t) BY <1>1, <3>2, SelectedLatest
    <3> QED BY <2>1, <3>1, <3>2 DEF EvidenceInv, Sound, Latest
  <2>4. ASSUME Quarantine(t),
               \/ UNCHANGED <<pool, used>>
               \/ \E v : Deliver(t, Selected(t), v),
               \/ generators' = generators
               \/ Publish({t})
        PROVE  EvidenceInv'
    <3>1. ~ Sound(t)'
      <4>1. <<t, Selected(t)>> \in quarantined' BY <2>4 DEF Quarantine
      <4>2. <<t, Selected(t)>>[1] = t OBVIOUS
      <4> QED BY <4>1, <4>2, Zenon DEF Sound
    <3>2. ASSUME NEW u \in Types, Sound(u)'
          PROVE  u # t /\ Sound(u) /\ Latest(u)' = Latest(u)
      <4>1. u # t BY <3>1, <3>2
      <4>2. Sound(u) BY <2>4, <3>2 DEF Quarantine, Sound
      <4>3. generators'[u] = generators[u] BY <2>4, <4>1 DEF Publish
      <4> QED BY <4>1, <4>2, <4>3 DEF Latest
    <3>3. ASSUME NEW p \in used', p[1] # t PROVE p \in used
      BY <2>4, <3>3 DEF Deliver
    <3>4. ASSUME NEW m \in pool', m[1] # t PROVE m \in pool
      BY <2>4, <3>4 DEF Deliver
    <3> QED BY <2>1, <3>2, <3>3, <3>4 DEF EvidenceInv
  <2>5. CASE GeneratorRepaired(t)
    BY <2>4, <2>5 DEF GeneratorRepaired, PublishRepair
  <2>6. CASE GeneratorFallsBack(t)
    BY <2>4, <2>6 DEF GeneratorFallsBack, NoRepair, PublishRepair
  <2>7. CASE GeneratorFails(t)
    BY <2>4, <2>7 DEF GeneratorFails, NoRepair, PublishRepair
  <2> QED BY <1>4, <2>2, <2>3, <2>5, <2>6, <2>7 DEF Query
<1>5. CASE ParserReplaced \/ ParserRollsBack
  BY <1>2, <1>5 DEF ParserReplaced, ParserRollsBack
<1>6. ASSUME NEW T \in SUBSET Types, Evolve(T) PROVE EvidenceInv'
  BY <1>3, <1>6 DEF Evolve, FreshOracles
<1>7. ASSUME NEW quality \in 0..MaxQuality,
             CompletedLate(quality) \/ CompletedBetter(quality) \/ CompletedWorse(quality)
      PROVE  EvidenceInv'
  <2>1. CASE CompletedLate(quality) BY <1>3, <2>1 DEF CompletedLate, Leave
  <2>2. CASE CompletedBetter(quality) BY <1>2, <2>2 DEF CompletedBetter
  <2>3. CASE CompletedWorse(quality)
    BY <1>2, <1>3, <2>3 DEF CompletedWorse, FreshOracles
  <2> QED BY <1>7, <2>1, <2>2, <2>3
<1>8. CASE ThresholdReached \/ BuildTable \/ QueryStops
  BY <1>2, <1>8 DEF ThresholdReached, BuildTable, QueryStops
<1>9. CASE StopHandled \/ HandlerFails \/ DeadlineExceeded \/ Fail \/ LoopEnds
  BY <1>3, <1>9 DEF StopHandled, HandlerFails, DeadlineExceeded, Fail, LoopEnds, Leave
<1>10. CASE RetriesExhausted
  BY <1>2, <1>3, <1>10 DEF RetriesExhausted, Leave
<1>11. CASE RetriesLeft \/ LoopIterates \/ Handover \/ ImportGuidance \/ StartLearning
  BY <1>2, <1>11 DEF RetriesLeft, LoopIterates, Handover, ImportGuidance, StartLearning
<1>12. CASE SaveEquipment
  BY <1>3, <1>12 DEF SaveEquipment, Activate, Leave
<1>13. CASE LoadModel
  <2>1. used' = {} BY <1>13 DEF LoadModel, EvidenceInv
  <2> QED BY <1>3, <1>13, <2>1 DEF LoadModel, Activate
<1>14. CASE Restart BY <1>14 DEF Restart, EvidenceInv
<1>15. CASE SpendBudget \/ Interrupt \/ UNCHANGED vars
  BY <1>2, <1>15 DEF SpendBudget, Interrupt, vars
<1> QED BY <1>4, <1>5, <1>6, <1>7, <1>8, <1>9, <1>10, <1>11, <1>12, <1>13, <1>14, <1>15
      DEF Next, Learn, IterationEnds, Complete

\* What one table observed of a type came from one version, unless a version of that
\* type broke, for any number of evolutions and repairs of other types.
THEOREM EvidenceStaysUniform == Spec => []EvidenceIsUniform
<1>1. Init => TypeInv /\ EvidenceInv BY InitType, EvidenceInit
<1>2. TypeInv /\ EvidenceInv /\ [Next]_vars => TypeInv' /\ EvidenceInv'
  BY TypeStep, EvidenceStep
<1>3. ASSUME TypeInv, EvidenceInv PROVE EvidenceIsUniform
  <2> SUFFICES ASSUME NEW p \in used, NEW q \in used, p[1] = q[1], p[2] # q[2]
               PROVE  \E b \in quarantined : b[1] = p[1]
    BY DEF EvidenceIsUniform
  <2>1. p[1] \in Types BY <1>3 DEF TypeInv, TypeOK, ComponentTypes
  <2>2. ~ Sound(p[1]) BY <1>3, <2>1 DEF EvidenceInv
  <2> QED BY <2>2 DEF Sound
<1> QED BY <1>1, <1>2, <1>3, PTL DEF Spec

-----------------------------------------------------------------------------
(* Guidance instead of a model                                             *)

Standing == {"partial_after_retry_exhausted", "reused_partial_guidance"}

\* Until learning ends nothing is decided; a retry begins with guidance of the versions
\* in use; and what stands in for a model is of those versions to the end.
GuidanceInv ==
  /\ pc \notin {"learned"} \cup Ends => outcome = "completed"
  /\ pc = "retry" => guidance = {Equipment}
  /\ pc \in {"learned", "fuzz"} /\ outcome \in Standing => guidance = {Equipment}
  /\ outcome = "complete_h_after_threshold_retries" => guidance = {}

LEMMA GuidanceInit == Init => GuidanceInv
BY DEF Init, GuidanceInv, Standing

LEMMA GuidanceStep == TypeInv /\ GuidanceInv /\ [Next]_vars => GuidanceInv'
<1> SUFFICES ASSUME TypeInv, GuidanceInv, [Next]_vars PROVE GuidanceInv' OBVIOUS
<1> USE DEF mapperVars, parserVars, loopVars, Ends, Standing
<1>1. ASSUME pc' \notin {"retry", "learned", "fuzz", "stopped"}, outcome' = outcome,
             pc \notin {"learned"} \cup Ends
      PROVE  GuidanceInv'
  BY <1>1 DEF GuidanceInv
<1>2. ASSUME UNCHANGED <<generators, curParser, guidance, outcome>>,
             pc' = pc \/ (pc = "learned" /\ pc' \in {"fuzz", "stopped"})
      PROVE  GuidanceInv'
  BY <1>2 DEF GuidanceInv, Equipment, Latest
<1>3. ASSUME outcome' \notin Standing \cup {"complete_h_after_threshold_retries"},
             pc' = "learned"
      PROVE  GuidanceInv'
  BY <1>3 DEF GuidanceInv
<1>4. ASSUME outcome' = outcome, pc' = "learned", pc \notin {"learned"} \cup Ends
      PROVE  GuidanceInv'
  BY <1>3, <1>4 DEF GuidanceInv
<1>5. ASSUME NEW t \in Types, Query(t) PROVE GuidanceInv'
  BY <1>1, <1>5 DEF Query, SendCached, GeneratorWorks, GeneratorRepaired, GeneratorFallsBack,
                    GeneratorFails
<1>6. CASE ParserReplaced \/ ParserRollsBack \/ \E T \in SUBSET Types : Evolve(T)
  BY <1>1, <1>6 DEF ParserReplaced, ParserRollsBack, Evolve
<1>7. ASSUME NEW quality \in 0..MaxQuality,
             CompletedLate(quality) \/ CompletedBetter(quality) \/ CompletedWorse(quality)
      PROVE  GuidanceInv'
  BY <1>1, <1>3, <1>7 DEF CompletedLate, CompletedBetter, CompletedWorse, Leave
<1>8. CASE ThresholdReached
  <2>1. guidance' = {Equipment} /\ UNCHANGED <<generators, curParser, outcome>> /\ pc' = "retry"
    BY <1>8 DEF ThresholdReached, SaveGuidance
  <2>2. Equipment' = Equipment BY <2>1 DEF Equipment, Latest
  <2>3. outcome = "completed" BY <1>8 DEF ThresholdReached, GuidanceInv
  <2> QED BY <2>1, <2>2, <2>3 DEF GuidanceInv
<1>9. CASE StopHandled
  BY <1>3, <1>4, <1>9 DEF StopHandled, Leave
<1>10. CASE RetriesExhausted
  <2>1. Equipment' = Equipment BY <1>10 DEF RetriesExhausted, Equipment, Latest
  <2>2. outcome = "completed" /\ guidance = {Equipment}
    BY <1>10 DEF RetriesExhausted, GuidanceInv
  <2> QED BY <1>10, <2>1, <2>2 DEF RetriesExhausted, Leave, GuidanceInv
<1>11. CASE RetriesLeft \/ LoopIterates \/ StartLearning
  BY <1>1, <1>11 DEF RetriesLeft, LoopIterates, StartLearning
<1>12. CASE DeadlineExceeded
  BY <1>4, <1>12 DEF DeadlineExceeded, Leave
<1>13. CASE Fail \/ BuildTable \/ QueryStops \/ HandlerFails
  BY <1>1, <1>13 DEF Fail, BuildTable, QueryStops, HandlerFails
<1>14. CASE LoopEnds
  BY <1>3, <1>4, <1>14 DEF LoopEnds, Leave
<1>15. CASE SaveEquipment
  <2>1. outcome = "completed" BY <1>15 DEF SaveEquipment, GuidanceInv
  <2> QED BY <1>15, <2>1 DEF SaveEquipment, Leave, GuidanceInv
<1>16. CASE Handover BY <1>2, <1>16 DEF Handover
<1>17. CASE LoadModel BY <1>4, <1>17 DEF LoadModel
<1>18. CASE ImportGuidance
  <2>1. Equipment' = Equipment BY <1>18 DEF ImportGuidance, Equipment, Latest
  <2> QED BY <1>18, <2>1 DEF ImportGuidance, GuidanceInv
<1>19. CASE Restart BY <1>19 DEF Restart, GuidanceInv
<1>20. CASE SpendBudget \/ Interrupt \/ UNCHANGED vars
  BY <1>2, <1>20 DEF SpendBudget, Interrupt, vars
<1> QED BY <1>5, <1>6, <1>7, <1>8, <1>9, <1>10, <1>11, <1>12, <1>13, <1>14, <1>15, <1>16, <1>17,
           <1>18, <1>19, <1>20 DEF Next, Learn, IterationEnds, Complete

\* Guidance that stands in for a model has the fingerprint of the components in use.
THEOREM GuidanceAlwaysFits == Spec => []GuidanceFits
<1>1. Init => TypeInv /\ GuidanceInv BY InitType, GuidanceInit
<1>2. TypeInv /\ GuidanceInv /\ [Next]_vars => TypeInv' /\ GuidanceInv'
  BY TypeStep, GuidanceStep
<1>3. GuidanceInv => GuidanceFits BY DEF GuidanceInv, GuidanceFits, Standing
<1> QED BY <1>1, <1>2, <1>3, PTL DEF Spec

-----------------------------------------------------------------------------
(* How much the loop still has to hope for                                 *)

\* Better models and tries, then retries after thresholds, then the place within an
\* iteration.  What has left the loop hopes for nothing.
InLoop == {"boot", "loop", "query", "evolve", "retry", "relearn"}
ToImprove == IF models = <<>> THEN MaxQuality + 1 ELSE MaxQuality - Model.quality
Hope == IF pc \in InLoop THEN 1 + tries + ToImprove ELSE 0
Retries == IF pc \in InLoop THEN ThresholdLimit + 1 - thresholds ELSE 0
Place ==
  CASE pc = "boot" -> 9 [] pc = "retry" -> 8 [] pc \in {"evolve", "relearn"} -> 7
    [] pc = "loop" -> 6 [] pc = "query" /\ ~tableBuilt -> 5 [] pc = "query" /\ tableBuilt -> 4
    [] pc = "stopping" -> 3 [] pc \in {"save", "saveRetried"} -> 2 [] pc = "learned" -> 1
    [] OTHER -> 0
Further ==
  \/ Hope' < Hope
  \/ Hope' = Hope /\ Retries' < Retries
  \/ Hope' = Hope /\ Retries' = Retries /\ Place' < Place
NoFurther == Hope' = Hope /\ Retries' = Retries /\ Place' = Place

\* A model of the loop is one that CompletedBetter captured in this process.
QualityInv == pc \in InLoop /\ models # <<>> => Model.quality <= MaxQuality

LEMMA MeasureTypes ==
  ASSUME TypeInv, QualityInv
  PROVE  /\ Hope \in Nat /\ Retries \in Nat /\ Place \in Nat
         /\ pc \in InLoop => ToImprove \in Nat /\ tries \in Nat /\ Hope = 1 + tries + ToImprove
<1>1. tries \in 0..TryLimit /\ thresholds \in 0..(ThresholdLimit + 1) /\ TryLimit \in Nat
      /\ ThresholdLimit \in Nat /\ MaxQuality \in Nat
  BY LimitsAssumption, BoundsAssumption DEF TypeInv, TypeOK, CounterTypes
<1>2. ASSUME pc \in InLoop PROVE ToImprove \in Nat
  <2>1. CASE models = <<>> BY <1>1, <2>1 DEF ToImprove
  <2>2. CASE models # <<>>
    <3>1. Model.quality \in Nat BY <2>2, ModelType DEF TypeInv, Models
    <3>2. Model.quality <= MaxQuality BY <1>2, <2>2 DEF QualityInv
    <3> QED BY <1>1, <2>2, <3>1, <3>2 DEF ToImprove
  <2> QED BY <2>1, <2>2
<1>3. Place \in Nat BY DEF Place
<1>4. Retries \in Nat BY <1>1 DEF Retries
<1>5. CASE pc \in InLoop
  <2>1. PICK t, i : t = tries /\ i = ToImprove OBVIOUS
  <2>2. Hope = 1 + t + i BY <1>5, <2>1 DEF Hope
  <2>3. t \in Nat /\ i \in Nat BY <1>1, <1>2, <1>5, <2>1
  <2> QED BY <1>3, <1>4, <2>1, <2>2, <2>3
<1>6. CASE pc \notin InLoop BY <1>3, <1>4, <1>6 DEF Hope
<1> QED BY <1>5, <1>6

\* Leaving the loop gives all hope up.
LEMMA Leaves ==
  ASSUME TypeInv, QualityInv, pc \in InLoop, pc' \notin InLoop
  PROVE  Further
<1>1. Hope = 1 + tries + ToImprove /\ tries \in Nat /\ ToImprove \in Nat BY MeasureTypes
<1>2. Hope' = 0 BY DEF Hope
<1>3. PICK t, i : t = tries /\ i = ToImprove OBVIOUS
<1>4. 0 < 1 + t + i BY <1>1, <1>3
<1> QED BY <1>1, <1>2, <1>3, <1>4 DEF Further

LEMMA Goes ==
  ASSUME pc \notin InLoop, pc' \notin InLoop, Place' < Place
  PROVE  Further
<1>1. Hope' = Hope /\ Retries' = Retries BY DEF Hope, Retries
<1> QED BY <1>1 DEF Further
LEMMA GoesInLoop ==
  ASSUME pc \in InLoop, pc' \in InLoop, models' = models, tries' = tries,
         thresholds' = thresholds, Place' < Place
  PROVE  Further
<1>1. ToImprove' = ToImprove BY DEF ToImprove, Model
<1>2. Hope' = Hope /\ Retries' = Retries BY <1>1 DEF Hope, Retries
<1> QED BY <1>2 DEF Further

LEMMA Rests ==
  ASSUME UNCHANGED <<pc, models, tries, thresholds, tableBuilt>>
  PROVE  NoFurther
<1>1. ToImprove' = ToImprove BY DEF ToImprove, Model
<1> QED BY <1>1 DEF NoFurther, Hope, Retries, Place

LEMMA QualityInit == Init => QualityInv
BY DEF Init, QualityInv

LEMMA QualityStep == TypeInv /\ BestInv /\ QualityInv /\ [Next]_vars => QualityInv'
<1> SUFFICES ASSUME TypeInv, BestInv, QualityInv, [Next]_vars PROVE QualityInv' OBVIOUS
<1> USE DEF loopVars, InLoop
<1>1. ASSUME models' = models, pc' \in InLoop => pc \in InLoop PROVE QualityInv'
  BY <1>1 DEF QualityInv, Model
<1>2. ASSUME NEW quality \in 0..MaxQuality, CompletedBetter(quality) PROVE QualityInv'
  <2>1. quality \in Nat /\ quality <= MaxQuality BY BoundsAssumption
  <2>2. Captured(quality) \in Models /\ Captured(quality).quality = quality
    BY <2>1, CapturedType DEF TypeInv, Captured
  <2>3. models \in Seq(Models) /\ models' = Append(models, Captured(quality))
    BY <1>2 DEF TypeInv, TypeOK, LoopTypes, CompletedBetter
  <2>4. Model'.quality = quality BY <2>2, <2>3, LastAppend DEF Model
  <2> QED BY <2>1, <2>4 DEF QualityInv
<1>3. ASSUME NEW quality \in 0..MaxQuality, CompletedLate(quality) \/ CompletedWorse(quality)
      PROVE  QualityInv'
  BY <1>1, <1>3 DEF CompletedLate, CompletedWorse, Leave, QualityInv
<1>4. CASE LoadModel \/ Restart BY <1>4 DEF LoadModel, Restart, QualityInv
<1>5. ASSUME NEW t \in Types, Query(t) PROVE QualityInv'
  BY <1>1, <1>5 DEF Query, SendCached, GeneratorWorks, GeneratorRepaired, GeneratorFallsBack,
                    GeneratorFails
<1>6. CASE ParserReplaced \/ ParserRollsBack \/ \E T \in SUBSET Types : Evolve(T)
  BY <1>1, <1>6 DEF ParserReplaced, ParserRollsBack, Evolve
<1>7. CASE ImportGuidance \/ StartLearning \/ LoopEnds \/ LoopIterates \/ Handover
  BY <1>1, <1>7 DEF ImportGuidance, StartLearning, LoopEnds, LoopIterates, Handover, Leave
<1>8. CASE ThresholdReached \/ QueryStops \/ BuildTable \/ SaveEquipment
  BY <1>1, <1>8 DEF ThresholdReached, QueryStops, BuildTable, SaveEquipment, Leave
<1>9. CASE RetriesExhausted \/ RetriesLeft \/ DeadlineExceeded \/ Fail
  BY <1>1, <1>9 DEF RetriesExhausted, RetriesLeft, DeadlineExceeded, Fail, Leave
<1>10. CASE SpendBudget \/ Interrupt \/ StopHandled \/ HandlerFails \/ UNCHANGED vars
  BY <1>1, <1>10 DEF SpendBudget, Interrupt, StopHandled, HandlerFails, Leave, vars
<1> QED BY <1>2, <1>3, <1>4, <1>5, <1>6, <1>7, <1>8, <1>9, <1>10
      DEF Next, Learn, IterationEnds, Complete

\* A better model is one hope less, and so is one that is not better.
LEMMA ImprovementCosts ==
  ASSUME TypeInv, QualityInv, NEW quality \in 0..MaxQuality,
         CompletedBetter(quality) \/ CompletedWorse(quality), pc' \in InLoop
  PROVE  Further
<1> USE DEF InLoop
<1>1. MaxQuality \in Nat /\ quality \in Nat /\ quality <= MaxQuality BY BoundsAssumption
<1>2. pc \in InLoop BY DEF CompletedBetter, CompletedWorse
<1>3. Hope = 1 + tries + ToImprove /\ tries \in Nat /\ ToImprove \in Nat
  BY <1>2, MeasureTypes
<1>4. PICK t, i : t = tries /\ i = ToImprove OBVIOUS
<1>5. CASE CompletedBetter(quality)
  <2>1. Captured(quality) \in Models /\ Captured(quality).quality = quality
    BY <1>1, CapturedType DEF TypeInv, Captured
  <2>2. models \in Seq(Models) /\ models' = Append(models, Captured(quality)) /\ tries' = tries
    BY <1>5 DEF TypeInv, TypeOK, LoopTypes, CompletedBetter
  <2>3. models' # <<>> /\ Model'.quality = quality BY <2>1, <2>2, LastAppend DEF Model
  <2>4. ToImprove' = MaxQuality - quality BY <2>3 DEF ToImprove
  <2>5. Hope' = 1 + t + (MaxQuality - quality) BY <1>4, <2>2, <2>4 DEF Hope
  <2>6. MaxQuality - quality < i
    <3>1. CASE models = <<>> BY <1>1, <1>4, <3>1 DEF ToImprove
    <3>2. CASE models # <<>>
      <4>1. Model.quality \in Nat BY <3>2, ModelType DEF TypeInv, Models
      <4>2. quality > Model.quality BY <1>5, <3>2 DEF CompletedBetter, Improves
      <4>3. i = MaxQuality - Model.quality BY <1>4, <3>2 DEF ToImprove
      <4>4. PICK m : m = Model.quality OBVIOUS
      <4>5. MaxQuality - quality < MaxQuality - m BY <1>1, <4>1, <4>2, <4>4
      <4> QED BY <4>3, <4>4, <4>5
    <3> QED BY <3>1, <3>2
  <2>7. 1 + t + (MaxQuality - quality) < 1 + t + i BY <1>1, <1>3, <1>4, <2>6
  <2> QED BY <1>3, <1>4, <2>5, <2>7 DEF Further
<1>6. CASE CompletedWorse(quality)
  <2>1. tries' = tries - 1 /\ models' = models BY <1>6 DEF CompletedWorse
  <2>2. ToImprove' = i BY <1>4, <2>1 DEF ToImprove, Model
  <2>3. Hope' = 1 + (t - 1) + i BY <1>4, <2>1, <2>2 DEF Hope
  <2>4. 1 + (t - 1) + i < 1 + t + i BY <1>3, <1>4
  <2> QED BY <1>3, <1>4, <2>3, <2>4 DEF Further
<1> QED BY <1>5, <1>6

\* A threshold is one retry less.
LEMMA ThresholdCosts ==
  ASSUME TypeInv, QualityInv, ThresholdReached
  PROVE  Further
<1> USE DEF InLoop, loopVars
<1>1. thresholds \in Nat /\ ThresholdLimit \in Nat
  BY LimitsAssumption DEF TypeInv, TypeOK, CounterTypes
<1>2. /\ thresholds' = thresholds + 1 /\ UNCHANGED <<models, tries>>
      /\ pc \in InLoop /\ pc' \in InLoop
  BY DEF ThresholdReached
<1>3. ToImprove' = ToImprove BY <1>2 DEF ToImprove, Model
<1>4. Hope' = Hope BY <1>2, <1>3 DEF Hope
<1>5. Retries' < Retries BY <1>1, <1>2 DEF Retries
<1> QED BY <1>4, <1>5 DEF Further

\* What an iteration does while it lasts.
Asks == ParserReplaced \/ ParserRollsBack \/ \E t \in Types : Query(t)

LEMMA LoopStepsGoOn ==
  ASSUME TypeInv, QualityInv, Learn, ~Asks
  PROVE  Further
<1> USE DEF loopVars, InLoop
<1>1. ASSUME NEW quality \in 0..MaxQuality,
             CompletedLate(quality) \/ CompletedBetter(quality) \/ CompletedWorse(quality)
      PROVE  Further
  <2>1. CASE pc' \in InLoop
    <3>1. ~CompletedLate(quality) BY <2>1 DEF CompletedLate, Leave
    <3> QED BY <1>1, <2>1, <3>1, ImprovementCosts
  <2>2. CASE pc' \notin InLoop
    <3>1. pc \in InLoop BY <1>1 DEF CompletedLate, CompletedBetter, CompletedWorse
    <3> QED BY <2>2, <3>1, Leaves
  <2> QED BY <2>1, <2>2
<1>2. CASE ThresholdReached BY <1>2, ThresholdCosts
<1>3. CASE LoadModel \/ ImportGuidance \/ LoopEnds \/ QueryStops \/ DeadlineExceeded
  BY <1>3, Leaves DEF LoadModel, ImportGuidance, LoopEnds, QueryStops, DeadlineExceeded, Leave
<1>4. CASE StartLearning
  <2>1. /\ models' = models /\ tries' = tries /\ thresholds' = thresholds
        /\ pc \in InLoop /\ pc' \in InLoop
    BY <1>4 DEF StartLearning
  <2>2. Place' < Place BY <1>4 DEF StartLearning, Place
  <2> QED BY <2>1, <2>2, GoesInLoop
<1>5. CASE LoopIterates
  <2>1. /\ models' = models /\ tries' = tries /\ thresholds' = thresholds
        /\ pc \in InLoop /\ pc' \in InLoop
    BY <1>5 DEF LoopIterates
  <2>2. Place' < Place BY <1>5 DEF LoopIterates, Place
  <2> QED BY <2>1, <2>2, GoesInLoop
<1>6. CASE BuildTable
  <2>1. /\ models' = models /\ tries' = tries /\ thresholds' = thresholds
        /\ pc \in InLoop /\ pc' \in InLoop
    BY <1>6 DEF BuildTable
  <2>2. Place' < Place BY <1>6 DEF BuildTable, Place
  <2> QED BY <2>1, <2>2, GoesInLoop
<1>7. CASE StopHandled BY <1>7, Goes DEF StopHandled, Leave, Place
<1>8. CASE HandlerFails BY <1>8, Goes DEF HandlerFails, Place
<1>9. CASE RetriesExhausted BY <1>9, Leaves DEF RetriesExhausted, Leave
<1>10. CASE RetriesLeft
  <2>1. /\ models' = models /\ tries' = tries /\ thresholds' = thresholds
        /\ pc \in InLoop /\ pc' \in InLoop
    BY <1>10 DEF RetriesLeft
  <2>2. Place' < Place BY <1>10 DEF RetriesLeft, Place
  <2> QED BY <2>1, <2>2, GoesInLoop
<1>11. ASSUME NEW T \in SUBSET Types, Evolve(T) PROVE Further
  <2>1. /\ models' = models /\ tries' = tries /\ thresholds' = thresholds
        /\ pc \in InLoop /\ pc' \in InLoop
    BY <1>11 DEF Evolve
  <2>2. Place' < Place BY <1>11 DEF Evolve, Place
  <2> QED BY <2>1, <2>2, GoesInLoop
<1>12. CASE Fail
  <2>1. pc' = "failed" /\ (pc \in InLoop \/ pc \in {"save", "saveRetried"})
    BY <1>12 DEF Fail
  <2>2. CASE pc \in InLoop BY <2>1, <2>2, Leaves
  <2>3. CASE pc \notin InLoop BY <2>1, <2>3, Goes DEF Place
  <2> QED BY <2>2, <2>3
<1>13. CASE SaveEquipment BY <1>13, Goes DEF SaveEquipment, Leave, Place
<1>14. CASE Handover BY <1>14, Goes DEF Handover, Place
<1> QED BY <1>1, <1>2, <1>3, <1>4, <1>5, <1>6, <1>7, <1>8, <1>9, <1>10, <1>11, <1>12, <1>13, <1>14
      DEF Learn, IterationEnds, Complete, Asks

LEMMA AskingRests ==
  ASSUME Asks \/ SpendBudget \/ Interrupt \/ UNCHANGED vars
  PROVE  NoFurther
<1> USE DEF loopVars
<1>1. ASSUME NEW t \in Types, Query(t) PROVE NoFurther
  BY <1>1, Rests DEF Query, SendCached, GeneratorWorks, GeneratorRepaired, GeneratorFallsBack,
                     GeneratorFails
<1>2. CASE ParserReplaced \/ ParserRollsBack \/ SpendBudget \/ Interrupt \/ UNCHANGED vars
  BY <1>2, Rests DEF ParserReplaced, ParserRollsBack, SpendBudget, Interrupt, vars
<1> QED BY <1>1, <1>2 DEF Asks

\* What LearningEnds rests on, for all limits, qualities and request types: as long as the
\* process lives, every step of the loop but the queries of an iteration goes further in a
\* lexicographic order of three naturals, and no query, repair, budget or stop takes it back
\* (fuzz.py:1318-1613).  Learning can last for ever in no other way than within an iteration.
THEOREM LoopGoesOn ==
  Spec => [][~Restart => /\ Hope \in Nat /\ Retries \in Nat /\ Place \in Nat
                         /\ Further \/ NoFurther
                         /\ Learn /\ ~Asks => Further]_vars
<1> DEFINE A == ~Restart => /\ Hope \in Nat /\ Retries \in Nat /\ Place \in Nat
                            /\ Further \/ NoFurther
                            /\ Learn /\ ~Asks => Further
<1>1. TypeInv /\ QualityInv /\ [Next]_vars => [A]_vars
  <2> SUFFICES ASSUME TypeInv, QualityInv, Next, ~Restart
               PROVE  /\ Hope \in Nat /\ Retries \in Nat /\ Place \in Nat
                      /\ Further \/ NoFurther
                      /\ Learn /\ ~Asks => Further
    OBVIOUS
  <2>1. Hope \in Nat /\ Retries \in Nat /\ Place \in Nat BY MeasureTypes
  <2>2. CASE Learn /\ ~Asks BY <2>1, <2>2, LoopStepsGoOn
  <2>3. CASE ~(Learn /\ ~Asks) BY <2>1, <2>3, AskingRests DEF Next
  <2> QED BY <2>2, <2>3
<1> HIDE DEF A
<1>2. Spec => [][A]_vars
  BY <1>1, InitType, TypeStep, BestInit, BestStep, QualityInit, QualityStep, PTL DEF Spec
<1> QED BY <1>2 DEF A
=============================================================================
