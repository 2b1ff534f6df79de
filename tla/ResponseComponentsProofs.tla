------------------------ MODULE ResponseComponentsProofs ------------------------
(***************************************************************************)
(* Proofs about ResponseComponents, for all codes, families, prepared keys *)
(* and any number of failing executions.                                   *)
(*                                                                         *)
(* A version may be withdrawn while it is loaded, selected, repaired or    *)
(* about to be loaded; those of the generic key never are (GenericThere),  *)
(* so that a thread that loads has something to load (WorkerLoading,       *)
(* RepairLoading).  The repair lock is with a thread that uses it          *)
(* (LockInv).                                                              *)
(***************************************************************************)
EXTENDS ResponseComponents, WellFoundedInduction, TLAPS

StoreTypes ==
  /\ versions \in [Kinds -> [Keys -> Seq(Nat)]]
  /\ files \subseteq Kinds \X Keys \X Nat \X Sources
  /\ sources \in [Kinds -> [Keys -> SUBSET Sources]]
  /\ quarantined \subseteq Named
WorkerTypes ==
  /\ wpc \in WorkerSteps /\ current \subseteq Types /\ agenda \in Seq(Items)
  /\ running \subseteq Identified /\ wtodo \subseteq Named /\ checked \subseteq Types
ThreadTypes ==
  /\ cpc \in {"off", "take", "checker", "observer", "finish", "ending"}
  /\ hand \subseteq Keys /\ queue \in Seq(Keys)
  /\ pending \subseteq Keys /\ failures \subseteq Keys
RepairTypes ==
  /\ DOMAIN repairs \subseteq Identified
  /\ \A id \in DOMAIN repairs : repairs[id] \in [pc : RepairSteps, error : Errors, todo : SUBSET Named]
  /\ rname \in Nat
  /\ cache \subseteq Kinds \X Sources \X Errors \X BOOLEAN
  /\ failed \in Nat

\* There is something to load, wherever a thread loads.
GenericThere == \A kind \in Kinds : versions[kind][Generic] # <<>>
WorkerLoading == wpc \in DOMAIN AfterLoad => wtodo # {}
RepairLoading == \A id \in DOMAIN repairs : repairs[id].pc = "load" => repairs[id].todo # {}

\* The item that brought the worker where it is stays at the head of its agenda.
AgendaInv ==
  /\ wpc \in {"checkers", "observers", "loadCheckers", "loadObservers", "select"} =>
       agenda # <<>> /\ Head(agenda) \in {"observe", "check"}
  /\ wpc = "run" =>
       agenda # <<>> /\ Head(agenda) \in {"observe", "check", "selectObserver", "selectChecker"}
  /\ wpc \in {"publish", "reload"} =>
       agenda # <<>> /\ Head(agenda) \in {"compare", "review"}

\* What NeverStuck needs of the lock: its holder is where it will release it.
LockInv == \A id \in lock : At(id, "ask") \/ At(id, "publish")

StoreInv == StoreTypes /\ GenericThere
WorkerInv == WorkerTypes /\ WorkerLoading /\ AgendaInv
RepairInv == RepairTypes /\ RepairLoading /\ RepairedOnce /\ LockInv
IInv == StoreInv /\ WorkerInv /\ ThreadTypes /\ RepairInv

-----------------------------------------------------------------------------
(* Sequences                                                               *)

LEMMA LastType ==
  ASSUME NEW R, NEW s \in Seq(R), s # <<>>
  PROVE  Last(s) \in R
BY DEF Last

\* A prefix that has a largest number still has one when it grows by one.
LEMMA LargestStep ==
  ASSUME NEW s, NEW n \in Nat, n >= 1, \A j \in 1..n + 1 : s[j] \in Nat,
         NEW i \in 1..n, \A j \in 1..n : s[i] >= s[j]
  PROVE  \E k \in 1..n + 1 : \A j \in 1..n + 1 : s[k] >= s[j]
<1>1. \A j \in 1..n + 1 : j = n + 1 \/ j \in 1..n OBVIOUS
<1>2. i \in 1..n + 1 /\ n + 1 \in 1..n + 1 OBVIOUS
<1>3. s[i] \in Nat /\ s[n + 1] \in Nat BY <1>2
<1>4. CASE s[i] >= s[n + 1] BY <1>1, <1>2, <1>4
<1>5. CASE s[n + 1] >= s[i]
  <2>1. \A j \in 1..n : s[j] \in Nat BY <1>2
  <2>2. \A j \in 1..n : s[n + 1] >= s[j] BY <2>1, <1>3, <1>5
  <2>3. \A j \in 1..n + 1 : s[n + 1] >= s[j] BY <2>2, <1>1, <1>3
  <2> QED BY <2>3, <1>2
<1> QED BY <1>3, <1>4, <1>5

\* A nonempty sequence of numbers has a largest one, or some shortest prefix of it
\* would be the first without.
Largest(s, n) == \E i \in 1..n : \A j \in 1..n : s[i] >= s[j]
LEMMA LargestExists ==
  ASSUME NEW s \in Seq(Nat), s # <<>>
  PROVE  \E i \in DOMAIN s : \A j \in DOMAIN s : s[i] >= s[j]
<1> DEFINE Bad == {n \in 1..Len(s) : ~Largest(s, n)}
<1>1. DOMAIN s = 1..Len(s) /\ Len(s) \in Nat /\ Len(s) >= 1
      /\ \A i \in 1..Len(s) : s[i] \in Nat
  OBVIOUS
<1>2. Bad = {}
  <2>1. SUFFICES ASSUME Bad # {} PROVE FALSE OBVIOUS
  <2>2. Bad \subseteq Nat BY <1>1
  <2>3. PICK n \in Bad : \A m \in Bad : ~ (<<m, n>> \in OpToRel(<, Nat))
    BY <2>1, <2>2, NatLessThanWellFounded, WFMin, Zenon
  <2>4. n \in Nat /\ n \in 1..Len(s) /\ ~Largest(s, n)
    <3>1. n \in 1..Len(s) BY <2>3
    <3>2. ~Largest(s, n) BY <2>3
    <3> QED BY <1>1, <3>1, <3>2
  <2>5. \A m \in Bad : m \in Nat /\ ~ (m < n)
    BY <2>2, <2>3, <2>4, Zenon DEF OpToRel
  <2>6. \A m \in 1..Len(s) : m < n => Largest(s, m) BY <2>5
  <2>7. n # 1
    <3>1. Largest(s, 1)
      <4>1. s[1] \in Nat /\ 1 \in 1..1 /\ \A j \in 1..1 : j = 1 BY <1>1
      <4>2. \A j \in 1..1 : s[1] >= s[j] BY <4>1
      <4> QED BY <4>1, <4>2 DEF Largest
    <3> QED BY <2>4, <3>1
  <2>8. PICK m \in Nat : n = m + 1 /\ m >= 1 /\ m \in 1..Len(s)
    <3>1. n - 1 \in Nat /\ n = (n - 1) + 1 /\ n - 1 >= 1 /\ n - 1 \in 1..Len(s)
      BY <2>4, <2>7, <1>1
    <3> QED BY <3>1
  <2>9. \E i \in 1..m : \A j \in 1..m : s[i] >= s[j] BY <2>6, <2>8 DEF Largest
  <2>10. \A j \in 1..m + 1 : s[j] \in Nat BY <1>1, <2>4, <2>8
  <2>11. \E i \in 1..m + 1 : \A j \in 1..m + 1 : s[i] >= s[j]
    BY <2>8, <2>9, <2>10, LargestStep
  <2> QED BY <2>4, <2>8, <2>11 DEF Largest
<1>3. Len(s) \in 1..Len(s) BY <1>1
<1>4. Largest(s, Len(s)) BY <1>2, <1>3
<1> QED BY <1>1, <1>4 DEF Largest

LEMMA NextNameType ==
  ASSUME NEW names \in Seq(Nat), names # <<>>
  PROVE  NextName(names) \in Nat
<1>1. \E x \in Range(names) : \A y \in Range(names) : x >= y
  BY LargestExists DEF Range
<1>2. Max(Range(names)) \in Range(names) BY <1>1 DEF Max
<1> QED BY <1>2 DEF NextName, Range

-----------------------------------------------------------------------------
(* What is published                                                       *)

Kept == \A kind \in Kinds : \A key \in Keys : versions[kind][key] # <<>> => versions'[kind][key] # <<>>

LEMMA PublishKeeps ==
  ASSUME StoreInv, NEW kind \in Kinds, NEW key \in Keys, NEW name \in Nat,
         Publish(kind, key, name)
  PROVE  versions' \in [Kinds -> [Keys -> Seq(Nat)]] /\ Kept /\ GenericThere'
<1>1. versions[kind][key] \in Seq(Nat) BY DEF StoreInv, StoreTypes
<1>2. Append(versions[kind][key], name) \in Seq(Nat)
      /\ Append(versions[kind][key], name) # <<>>
  BY <1>1
<1>3. versions' \in [Kinds -> [Keys -> Seq(Nat)]] /\ Kept
  BY <1>2 DEF StoreInv, StoreTypes, Publish, Kept
<1> QED BY <1>3 DEF Kept, StoreInv, GenericThere, Keys

LEMMA LatestType ==
  ASSUME StoreTypes, NEW kind \in Kinds, NEW key \in Keys
  PROVE  Latest(kind, key) \subseteq Nat
BY LastType DEF StoreTypes, Latest

LEMMA EquipmentType ==
  ASSUME StoreInv, NEW kind \in Kinds
  PROVE  /\ Equipment(kind) \subseteq Named
         /\ Equipment(kind) # {}
<1>1. Equipment(kind) \subseteq Named BY LatestType DEF StoreInv, Equipment, Named
<1>2. Generic \in Keys /\ Latest(kind, Generic) # {}
  BY DEF StoreInv, GenericThere, Latest, Keys
<1>3. PICK name \in Latest(kind, Generic) : TRUE BY <1>2
<1>4. <<kind, Generic, name>> \in Equipment(kind) BY <1>2, <1>3 DEF Equipment
<1> QED BY <1>1, <1>4

LEMMA WriteType ==
  ASSUME StoreTypes, NEW kind \in Kinds, NEW key \in Keys, NEW name \in Nat,
         NEW source \in Sources, Write(kind, key, name, source)
  PROVE  files' \subseteq Kinds \X Keys \X Nat \X Sources
BY DEF StoreTypes, Write

LEMMA StartLoadType ==
  ASSUME StoreInv, NEW kind \in Kinds, StartLoad(kind), UNCHANGED <<versions, files, quarantined>>
  PROVE  StoreInv'
BY DEF StoreInv, StoreTypes, GenericThere, StartLoad

LEMMA LoadOneType ==
  ASSUME StoreInv, NEW v \in Named, LoadOne(v),
         UNCHANGED <<versions, files, quarantined>>
  PROVE  StoreInv'
<1>1. FileOf(v[1], v[2], v[3]) \subseteq Sources
  BY DEF StoreInv, StoreTypes, FileOf
<1>2. v[1] \in Kinds /\ v[2] \in Keys BY DEF Named
<1> QED BY <1>1, <1>2 DEF StoreInv, StoreTypes, GenericThere, LoadOne

-----------------------------------------------------------------------------
(* What a step leaves alone                                                *)

LEMMA KeepStores ==
  ASSUME StoreInv, UNCHANGED stores
  PROVE  StoreInv'
BY DEF StoreInv, StoreTypes, GenericThere, stores

LEMMA KeepWorker ==
  ASSUME WorkerInv, UNCHANGED worker
  PROVE  WorkerInv'
<1>1. WorkerTypes' /\ AgendaInv' BY DEF WorkerInv, WorkerTypes, AgendaInv, worker
<1>2. WorkerLoading'
  BY DEF WorkerInv, WorkerLoading, worker
<1> QED BY <1>1, <1>2 DEF WorkerInv

LEMMA KeepThread ==
  ASSUME ThreadTypes, UNCHANGED component
  PROVE  ThreadTypes'
BY DEF ThreadTypes, component

LEMMA KeepRepairs ==
  ASSUME RepairInv, UNCHANGED <<repair, failed>>
  PROVE  RepairInv'
<1>1. RepairTypes' /\ RepairedOnce' /\ LockInv'
  BY DEF RepairInv, RepairTypes, RepairedOnce, LockInv, At, Answers, repair
<1>2. RepairLoading' BY DEF RepairInv, RepairLoading, repair
<1> QED BY <1>1, <1>2 DEF RepairInv

-----------------------------------------------------------------------------
(* The steps of the worker                                                 *)

LEMMA Interruption ==
  /\ Range(Interrupted) = {"selectObserver", "selectChecker"}
  /\ Interrupted["observe"] = "selectObserver" /\ Interrupted["check"] = "selectChecker"
  /\ DOMAIN AfterLoad = {"loadCheckers", "loadObservers", "load"}
  /\ AfterLoad["loadCheckers"] = "observers" /\ AfterLoad["loadObservers"] = "select"
  /\ AfterLoad["load"] = "next"
BY DEF Interrupted, AfterLoad, Range

\* To go on with the rest of the agenda leaves every promise about it.
LEMMA ResumeType ==
  ASSUME WorkerInv, NEW rest \in Seq(Items), Resume(rest),
         current' \subseteq Types, checked' \subseteq Types,
         running' = {} \/ running' = running, wtodo' = {} \/ wtodo' = wtodo
  PROVE  WorkerInv'
<1>1. WorkerTypes' /\ AgendaInv'
  BY DEF WorkerInv, WorkerTypes, AgendaInv, Resume, WorkerSteps
<1>2. WorkerLoading'
  BY Interruption DEF WorkerLoading, Resume
<1> QED BY <1>1, <1>2 DEF WorkerInv

LEMMA TailType ==
  ASSUME WorkerInv, agenda # <<>>
  PROVE  Rest \in Seq(Items) /\ Head(agenda) \in Items
BY DEF WorkerInv, WorkerTypes, Rest

LEMMA RunningHead ==
  ASSUME WorkerInv, wpc = "run"
  PROVE  agenda # <<>>
BY DEF WorkerInv, AgendaInv

\* The steps that only go on with the agenda.
GoesOn ==
  \/ Skip \/ Accept \/ Reject \/ SkipComparison \/ ObserveSamples \/ Preserve \/ NotEvolved
  \/ Confirm \/ Undecided

LEMMA GoesOnKeeps ==
  ASSUME IInv, GoesOn
  PROVE  WorkerInv' /\ UNCHANGED <<stores, component, repair, failed>>
<1>1. UNCHANGED <<stores, component, repair, failed>>
  BY DEF GoesOn, Skip, Accept, Reject, SkipComparison, ObserveSamples, Preserve, NotEvolved,
         Confirm, Undecided
<1>2. WorkerInv BY <1>1, KeepStores DEF IInv
<1>3. agenda # <<>>
  BY <1>2, RunningHead DEF GoesOn, Skip, Accept, Reject, SkipComparison, ObserveSamples,
     Preserve, NotEvolved, Confirm, Undecided
<1>4. Rest \in Seq(Items) BY <1>2, <1>3, TailType
<1>5. /\ Rest \o <<"review">> \in Seq(Items)
      /\ <<"observe", "compare">> \o Rest \in Seq(Items)
      /\ <<"observe">> \in Seq(Items)
  BY <1>4 DEF Items
<1>6. /\ current' \subseteq Types /\ checked' \subseteq Types
      /\ running' = {} \/ running' = running
      /\ wtodo' = wtodo
  BY <1>2 DEF WorkerInv, WorkerTypes, GoesOn, Skip, Accept, Reject, SkipComparison,
     ObserveSamples, Preserve, NotEvolved, Confirm, Undecided
<1>7. Resume(Rest) \/ Resume(Rest \o <<"review">>) \/ Resume(<<"observe", "compare">> \o Rest)
      \/ Resume(<<"observe">>)
  BY DEF GoesOn, Skip, Accept, Reject, SkipComparison, ObserveSamples, Preserve, NotEvolved,
     Confirm, Undecided
<1> QED BY <1>1, <1>2, <1>4, <1>5, <1>6, <1>7, ResumeType

LEMMA RunsKeeps ==
  ASSUME IInv, ExecutionFails
  PROVE  IInv'
<1>1. UNCHANGED stores /\ UNCHANGED component BY DEF ExecutionFails
<1>2. StoreInv' /\ ThreadTypes' BY <1>1, KeepStores, KeepThread DEF IInv
<1>3. WorkerInv'
  <2>1. Rest \in Seq(Items)
    BY RunningHead, TailType DEF IInv, ExecutionFails
  <2> QED BY <2>1, <1>2, ResumeType DEF IInv, WorkerInv, WorkerTypes, ExecutionFails
<1>4. RepairInv'
  <2>1. PICK id \in running, error \in Errors :
          repairs' = [i \in DOMAIN repairs \cup {id} |->
                        IF i \in DOMAIN repairs THEN repairs[i]
                        ELSE [pc |-> "start", error |-> error, todo |-> {}]]
    BY DEF ExecutionFails
  <2> DEFINE begun == [pc |-> "start", error |-> error, todo |-> {}]
  <2>2. id \in Identified
    BY DEF IInv, WorkerInv, WorkerTypes, WorkerLoading
  <2>3. begun \in [pc : RepairSteps, error : Errors, todo : SUBSET Named] BY DEF RepairSteps
  <2>4. \A i \in DOMAIN repairs' :
          \/ i \in DOMAIN repairs /\ repairs'[i] = repairs[i]
          \/ i = id /\ repairs'[i] = begun
    <3>1. DOMAIN repairs' = DOMAIN repairs \cup {id} BY <2>1
    <3>2. \A i \in DOMAIN repairs : repairs'[i] = repairs[i] BY <2>1
    <3>3. id \notin DOMAIN repairs => repairs'[id] = begun BY <2>1, SMT DEF begun
    <3> HIDE DEF begun
    <3> QED BY <3>1, <3>2, <3>3, Zenon
  <2>5. DOMAIN repairs \subseteq DOMAIN repairs' BY <2>1
  <2>6. RepairTypes'
    <3>1. rname' = rname /\ cache' = cache /\ failed' \in Nat
      BY DEF ExecutionFails, IInv, RepairInv, RepairTypes
    <3> QED BY <2>1, <2>2, <2>3, <2>4, <3>1 DEF IInv, RepairInv, RepairTypes
  <2>7. RepairLoading'
    <3>1. UNCHANGED versions BY <1>1 DEF stores
    <3> QED BY <2>2, <2>4, <3>1 DEF IInv, RepairInv, RepairLoading
  <2>8. RepairedOnce' /\ LockInv'
    <3>1. UNCHANGED <<lock, cache>> BY DEF ExecutionFails
    <3>2. \A i, pc : pc # "start" => (At(i, pc)' <=> At(i, pc))
      BY <2>1, <2>4, <2>5 DEF At
    <3>3. \A i \in DOMAIN repairs : Answers(i)' = Answers(i) BY <2>1, <3>1 DEF Answers
    <3>4. \A i : At(i, "ask") \/ At(i, "publish") => i \in DOMAIN repairs BY DEF At
    <3> QED BY <2>4, <3>1, <3>2, <3>3, <3>4 DEF IInv, RepairInv, RepairedOnce, LockInv, At
  <2> QED BY <2>6, <2>7, <2>8 DEF RepairInv
<1> QED BY <1>2, <1>3, <1>4 DEF IInv

\* The steps of the worker that leave the stores alone.
LEMMA TurnsKeep ==
  ASSUME IInv, (\E r \in Types : Receive(r)) \/ EvaluationEnds \/ Select
  PROVE  WorkerInv' /\ UNCHANGED <<stores, component, repair, failed>>
<1>1. UNCHANGED <<stores, component, repair, failed>>
  BY DEF Receive, EvaluationEnds, Select
<1>2. WorkerInv /\ StoreInv BY <1>1, KeepStores DEF IInv
<1>3. ASSUME NEW r \in Types, Receive(r) PROVE WorkerInv'
  <2>1. <<"observe", "evolve", "observe", "check">> \in Seq(Items) BY DEF Items
  <2> QED BY <1>2, <1>3, <2>1, ResumeType DEF WorkerInv, WorkerTypes, Receive
<1>4. CASE EvaluationEnds
  <2>1. wpc' = "idle" /\ UNCHANGED <<agenda, running, wtodo, checked>> /\ current' = {}
    BY <1>4 DEF EvaluationEnds
  <2>2. UNCHANGED versions BY <1>1 DEF stores
  <2>3. WorkerTypes' /\ AgendaInv'
    BY <1>2, <2>1 DEF WorkerInv, WorkerTypes, WorkerSteps, AgendaInv
  <2>4. WorkerLoading'
    BY <1>2, <2>1, <2>2, Interruption DEF WorkerInv, WorkerLoading
  <2> QED BY <1>1, <2>3, <2>4 DEF WorkerInv
<1>5. CASE Select
  <2>1. agenda # <<>> /\ Head(agenda) \in {"observe", "check", "selectObserver", "selectChecker"}
    BY <1>2, <1>5, Interruption DEF Select, WorkerInv, AgendaInv
  <2>2. Rest \in Seq(Items) BY <1>2, <2>1, TailType
  <2>3. CASE Resume(Rest) /\ UNCHANGED running
    BY <1>1, <1>2, <1>5, <2>2, <2>3, ResumeType DEF Select, WorkerInv, WorkerTypes
  <2>4. CASE ~(Resume(Rest) /\ UNCHANGED running)
    <3>1. SelectedKind \in Kinds BY DEF SelectedKind, Kinds
    <3>2. PICK r \in current :
            \E key \in Chosen(r, Loaded(SelectedKind)) : \E source \in sources[SelectedKind][key] :
              running' = {<<SelectedKind, key, source>>} /\ wpc' = "run" /\ UNCHANGED agenda
      BY <1>5, <2>4 DEF Select
    <3>3. r \in Types /\ Family[r] \subseteq Keys
      BY <1>2, KeysAssumption DEF WorkerInv, WorkerTypes, Keys
    <3>4. Chosen(r, Loaded(SelectedKind)) \subseteq Keys
      BY <3>3 DEF Chosen, Loaded, Keys
    <3>5. PICK key \in Keys : \E source \in sources[SelectedKind][key] :
            running' = {<<SelectedKind, key, source>>} /\ wpc' = "run" /\ UNCHANGED agenda
      BY <3>2, <3>4
    <3>6. PICK source \in sources[SelectedKind][key] :
            running' = {<<SelectedKind, key, source>>} /\ wpc' = "run" /\ UNCHANGED agenda
      BY <3>5
    <3>7. source \in Sources
      BY <1>2, <3>1, <3>6 DEF StoreInv, StoreTypes, GenericThere
    <3>8. UNCHANGED <<current, wtodo, checked, versions>>
      BY <1>5, <1>1 DEF Select, stores
    <3>9. WorkerTypes' /\ AgendaInv'
      BY <1>2, <2>1, <3>1, <3>6, <3>7, <3>8
      DEF WorkerInv, WorkerTypes, WorkerSteps, AgendaInv, Identified
    <3>10. WorkerLoading'
      BY <1>2, <3>6, <3>7, <3>8, Interruption DEF WorkerInv, WorkerLoading
    <3> QED BY <1>1, <3>9, <3>10 DEF WorkerInv
  <2> QED BY <2>3, <2>4
<1> QED BY <1>1, <1>3, <1>4, <1>5

LEMMA WantedType ==
  ASSUME NEW r \in Types
  PROVE  WantedFor(r) \in Seq(Keys)
<1>1. \A key \in Keys : Wanted(key) \in Seq(Keys) BY DEF Wanted
<1>2. r \in Keys /\ Family[r] \subseteq Keys BY KeysAssumption DEF Keys
<1>3. CASE Family[r] = {} BY <1>1, <1>2, <1>3 DEF WantedFor
<1>4. CASE Family[r] # {}
  <2>1. (CHOOSE f \in Family[r] : TRUE) \in Keys BY <1>2, <1>4
  <2>2. Wanted(r) \in Seq(Keys) /\ Wanted(CHOOSE f \in Family[r] : TRUE) \in Seq(Keys)
    BY <1>1, <1>2, <2>1
  <2> QED BY <1>4, <2>2 DEF WantedFor
<1> QED BY <1>3, <1>4

LEMMA RequestKeeps ==
  ASSUME IInv, RequestComponents
  PROVE  IInv'
<1>1. UNCHANGED <<files, sources, quarantined>> /\ UNCHANGED <<repair, failed>>
  BY DEF RequestComponents
<1>2. StoreInv'
  <2>1. PICK r \in current : Withdraw({r} \cup Family[r]) BY DEF RequestComponents
  <2>2. Generic \notin {r} \cup Family[r]
    BY KeysAssumption DEF IInv, WorkerInv, WorkerTypes
  <2>3. versions' \in [Kinds -> [Keys -> Seq(Nat)]]
    BY <2>1 DEF Withdraw, IInv, StoreInv, StoreTypes
  <2>4. GenericThere' BY <2>1, <2>2 DEF Withdraw, IInv, StoreInv, GenericThere, Keys
  <2> QED BY <1>1, <2>3, <2>4 DEF IInv, StoreInv, StoreTypes
<1>3. ThreadTypes'
  <2>1. PICK r \in current : queue' = queue \o WantedFor(r)
                            /\ pending' = pending \cup Range(WantedFor(r))
    BY DEF RequestComponents
  <2>2. WantedFor(r) \in Seq(Keys) BY WantedType DEF IInv, WorkerInv, WorkerTypes
  <2>3. Range(WantedFor(r)) \subseteq Keys BY <2>2 DEF Range
  <2>4. /\ hand' = hand /\ failures' = failures
        /\ cpc' = "take" \/ cpc' = cpc
    BY DEF RequestComponents
  <2> QED BY <2>1, <2>2, <2>3, <2>4 DEF IInv, ThreadTypes
<1>4. WorkerInv'
  <2>1. WorkerTypes' /\ AgendaInv'
    BY DEF IInv, WorkerInv, WorkerTypes, WorkerSteps, AgendaInv, RequestComponents
  <2>2. WorkerLoading'
    BY Interruption DEF WorkerLoading, RequestComponents
  <2> QED BY <2>1, <2>2 DEF WorkerInv
<1>5. RepairInv' BY <1>1, KeepRepairs DEF IInv
<1> QED BY <1>2, <1>3, <1>4, <1>5 DEF IInv

\* Where the worker stands after a step that leaves the component to run alone.
LEMMA WorkerMoves ==
  ASSUME WorkerInv, UNCHANGED <<current, running, checked, versions>>,
         wpc' \in WorkerSteps, agenda' \in Seq(Items), AgendaInv',
         wtodo' \subseteq Named,
         wpc' \in DOMAIN AfterLoad => wtodo' # {}
  PROVE  WorkerInv'
<1>1. WorkerTypes' BY DEF WorkerInv, WorkerTypes
<1>2. WorkerLoading' BY Interruption DEF WorkerInv, WorkerLoading
<1> QED BY <1>1, <1>2 DEF WorkerInv

LEMMA RefreshKeeps ==
  ASSUME IInv, RefreshCheckers \/ RefreshObservers \/ ReloadEvolved
  PROVE  StoreInv' /\ WorkerInv' /\ UNCHANGED <<component, repair, failed>>
<1>1. /\ UNCHANGED <<component, repair, failed>>
      /\ UNCHANGED <<versions, files, quarantined, current, running, checked>>
  BY DEF RefreshCheckers, RefreshObservers, ReloadEvolved
<1>3. StoreInv /\ WorkerInv BY DEF IInv
<1>4. "checker" \in Kinds /\ "observer" \in Kinds BY DEF Kinds
<1>5. agenda \in Seq(Items) /\ agenda # <<>> /\ Rest \in Seq(Items)
  BY <1>3, TailType
  DEF WorkerInv, WorkerTypes, AgendaInv, RefreshCheckers, RefreshObservers, ReloadEvolved
<1>6. CASE RefreshCheckers
  <2>1. Head(agenda) \in {"observe", "check"} /\ agenda' = agenda
    BY <1>3, <1>6 DEF RefreshCheckers, WorkerInv, AgendaInv
  <2>2. CASE Equipped("checker") = Loaded("checker")
    <3>1. wpc' = "observers" /\ UNCHANGED <<sources, wtodo>> BY <1>6, <2>2 DEF RefreshCheckers
    <3>2. StoreInv' BY <1>1, <1>3, <3>1, KeepStores DEF stores
    <3>3. AgendaInv' BY <1>5, <2>1, <3>1 DEF AgendaInv
    <3>4. wpc' \in WorkerSteps BY <3>1 DEF WorkerSteps
    <3>5. wpc' \notin DOMAIN AfterLoad BY <3>1, Interruption
    <3>6. WorkerInv'
      BY <1>1, <1>3, <1>5, <2>1, <3>1, <3>3, <3>4, <3>5, WorkerMoves
      DEF WorkerInv, WorkerTypes, WorkerLoading
    <3> QED BY <1>1, <3>2, <3>6
  <2>3. CASE Equipped("checker") # Loaded("checker")
    <3>1. wpc' = "loadCheckers" /\ wtodo' = Equipment("checker") /\ StartLoad("checker")
      BY <1>6, <2>3 DEF RefreshCheckers
    <3>2. StoreInv' BY <1>1, <1>3, <1>4, <3>1, StartLoadType
    <3>3. AgendaInv' BY <1>5, <2>1, <3>1 DEF AgendaInv
    <3>4. wpc' \in WorkerSteps BY <3>1, Interruption DEF WorkerSteps
    <3>5. WorkerInv'
      BY <1>1, <1>3, <1>4, <1>5, <2>1, <3>1, <3>3, <3>4, EquipmentType, WorkerMoves
    <3> QED BY <1>1, <3>2, <3>5
  <2> QED BY <2>2, <2>3
<1>7. CASE RefreshObservers
  <2>1. Head(agenda) \in {"observe", "check"}
    BY <1>3, <1>7 DEF RefreshObservers, WorkerInv, AgendaInv
  <2>2. CASE Equipped("observer") = Loaded("observer")
    <3>1. wpc' = "select" /\ UNCHANGED <<sources, wtodo, agenda>>
      BY <1>7, <2>2 DEF RefreshObservers
    <3>2. StoreInv' BY <1>1, <1>3, <3>1, KeepStores DEF stores
    <3>3. AgendaInv' BY <1>5, <2>1, <3>1 DEF AgendaInv
    <3>4. wpc' \in WorkerSteps BY <3>1 DEF WorkerSteps
    <3>5. wpc' \notin DOMAIN AfterLoad BY <3>1, Interruption
    <3>6. WorkerInv'
      BY <1>1, <1>3, <1>5, <3>1, <3>3, <3>4, <3>5, WorkerMoves
      DEF WorkerInv, WorkerTypes, WorkerLoading
    <3> QED BY <1>1, <3>2, <3>6
  <2>3. CASE Equipped("observer") # Loaded("observer")
    <3>1. /\ wtodo' = Equipment("observer") /\ StartLoad("observer")
          /\ \/ wpc' = "load" /\ agenda' = <<"observe", Interrupted[Head(agenda)]>> \o Rest
             \/ wpc' = "loadObservers" /\ UNCHANGED agenda
      BY <1>7, <2>3 DEF RefreshObservers
    <3>2. StoreInv' BY <1>1, <1>3, <1>4, <3>1, StartLoadType
    <3>3. Interrupted[Head(agenda)] \in Items BY <2>1, Interruption DEF Items
    <3>4. agenda' \in Seq(Items)
      <4>1. <<"observe", Interrupted[Head(agenda)]>> \in Seq(Items) BY <3>3 DEF Items
      <4>2. <<"observe", Interrupted[Head(agenda)]>> \o Rest \in Seq(Items) BY <1>5, <4>1
      <4> QED BY <1>5, <3>1, <4>2
    <3>5. AgendaInv' BY <1>5, <2>1, <3>1 DEF AgendaInv
    <3>6. wpc' \in WorkerSteps BY <3>1, Interruption DEF WorkerSteps
    <3>7. WorkerInv'
      BY <1>1, <1>3, <1>4, <3>1, <3>4, <3>5, <3>6, EquipmentType, WorkerMoves
    <3> QED BY <1>1, <3>2, <3>7
  <2> QED BY <2>2, <2>3
<1>8. CASE ReloadEvolved
  <2> DEFINE kind == IF Head(agenda) = "compare" THEN "observer" ELSE "checker"
  <2>1. kind \in Kinds BY <1>4
  <2>2. wtodo' = Equipment(kind) /\ StartLoad(kind) /\ wpc' = "load"
    BY <1>8 DEF ReloadEvolved
  <2>3. StoreInv' BY <1>1, <1>3, <2>1, <2>2, StartLoadType
  <2>4. agenda' \in Seq(Items)
    <3>1. <<"observe", "observe">> \in Seq(Items) BY DEF Items
    <3>2. <<"observe", "observe">> \o Rest \in Seq(Items) BY <1>5, <3>1
    <3>3. agenda' = <<"observe", "observe">> \o Rest \/ agenda' = Rest
      BY <1>8 DEF ReloadEvolved
    <3> QED BY <1>5, <3>2, <3>3
  <2>5. AgendaInv' /\ wpc' \in WorkerSteps BY <2>2, Interruption DEF AgendaInv, WorkerSteps
  <2>6. WorkerInv'
    BY <1>1, <1>3, <2>1, <2>2, <2>4, <2>5, EquipmentType, WorkerMoves
  <2> QED BY <1>1, <2>3, <2>6
<1> QED BY <1>6, <1>7, <1>8

LEMMA LoadsKeeps ==
  ASSUME IInv, WorkerLoads
  PROVE  StoreInv' /\ WorkerInv' /\ UNCHANGED <<component, repair, failed>>
<1> DEFINE v == NextOf(wtodo)
<1>1. /\ UNCHANGED <<component, repair, failed>>
      /\ UNCHANGED <<versions, files, quarantined, current, agenda, running, checked>>
      /\ wtodo' = wtodo \ {v} /\ LoadOne(v)
      /\ wpc \in DOMAIN AfterLoad
      /\ wpc' = IF wtodo' = {} THEN AfterLoad[wpc] ELSE wpc
  BY DEF WorkerLoads
<1>3. StoreInv /\ WorkerInv BY DEF IInv
<1>4. v \in wtodo BY <1>1, <1>3 DEF WorkerInv, WorkerLoading, NextOf
<1>5. v \in Named BY <1>3, <1>4 DEF WorkerInv, WorkerTypes, WorkerLoading
<1>6. StoreInv' BY <1>1, <1>3, <1>5, LoadOneType
<1>7. AgendaInv' /\ wpc' \in WorkerSteps
  BY <1>1, <1>3, Interruption DEF WorkerInv, WorkerTypes, AgendaInv, WorkerSteps
<1>8. wpc' \in DOMAIN AfterLoad => wtodo' # {} BY <1>1, Interruption
<1>9. WorkerInv'
  BY <1>1, <1>3, <1>7, <1>8, WorkerMoves DEF WorkerInv, WorkerTypes, WorkerLoading
<1> QED BY <1>1, <1>6, <1>9

LEMMA EvolveKeeps ==
  ASSUME IInv, Evolve
  PROVE  StoreInv' /\ WorkerInv' /\ UNCHANGED <<component, repair, failed>>
<1>1. /\ UNCHANGED <<component, repair, failed>>
      /\ UNCHANGED <<versions, sources, quarantined, current, agenda, wtodo, checked>>
      /\ wpc' = "publish" /\ agenda # <<>> /\ Head(agenda) \in {"compare", "review"}
  BY DEF Evolve
<1>3. StoreInv /\ WorkerInv BY DEF IInv
<1>4. PICK r \in current : \E target \in Evolved(Head(agenda), r) :
        /\ versions[target[1]][target[2]] # <<>>
        /\ LET name == NextName(versions[target[1]][target[2]]) IN
           /\ Write(target[1], target[2], name, <<"evolved", target[2], name>>)
           /\ running' = {<<target[1], target[2], <<"evolved", target[2], name>>>>}
  BY DEF Evolve
<1>5. r \in Keys /\ Generic \in Keys
  BY <1>3 DEF WorkerInv, WorkerTypes, Keys
<1>6. \A target \in Evolved(Head(agenda), r) :
        \E kind \in Kinds, key \in Keys : target = <<kind, key>>
  BY <1>5 DEF Evolved, Kinds
<1>7. PICK kind \in Kinds, key \in Keys :
        /\ versions[kind][key] # <<>>
        /\ Write(kind, key, NextName(versions[kind][key]),
                 <<"evolved", key, NextName(versions[kind][key])>>)
        /\ running' = {<<kind, key, <<"evolved", key, NextName(versions[kind][key])>>>>}
  BY <1>4, <1>6
<1> DEFINE name == NextName(versions[kind][key])
<1>8. name \in Nat BY <1>3, <1>7, NextNameType DEF StoreInv, StoreTypes
<1> HIDE DEF name
<1>9. <<"evolved", key, name>> \in Sources BY <1>8 DEF Sources, Authors
<1>10. files' \subseteq Kinds \X Keys \X Nat \X Sources
  BY <1>3, <1>7, <1>8, <1>9, WriteType DEF StoreInv, name
<1>11. StoreInv' BY <1>1, <1>3, <1>10 DEF StoreInv, StoreTypes, GenericThere
<1>12. running' = {<<kind, key, <<"evolved", key, name>>>>} BY <1>7 DEF name
<1>13. WorkerTypes' /\ AgendaInv'
  BY <1>1, <1>3, <1>9, <1>12
  DEF WorkerInv, WorkerTypes, AgendaInv, WorkerSteps, Identified
<1>14. WorkerLoading'
  BY <1>1, <1>3, <1>7, <1>12, Interruption DEF WorkerInv, WorkerLoading
<1> QED BY <1>1, <1>11, <1>13, <1>14 DEF WorkerInv

LEMMA PublishEvolvedKeeps ==
  ASSUME IInv, PublishEvolved
  PROVE  StoreInv' /\ WorkerInv' /\ UNCHANGED <<component, repair, failed>>
<1>1. /\ UNCHANGED <<component, repair, failed>>
      /\ UNCHANGED <<files, sources, quarantined, current, agenda, wtodo, checked>>
      /\ wpc = "publish" /\ wpc' = "reload" /\ running' = {}
  BY DEF PublishEvolved
<1>2. StoreInv /\ WorkerInv BY DEF IInv
<1>3. PICK c \in running : Publish(c[1], c[2], c[3][3]) BY DEF PublishEvolved
<1>4. c[1] \in Kinds /\ c[2] \in Keys /\ c[3][3] \in Nat
  BY <1>2 DEF WorkerInv, WorkerTypes, Identified, Sources
<1>5. versions' \in [Kinds -> [Keys -> Seq(Nat)]] /\ GenericThere'
  BY <1>2, <1>3, <1>4, PublishKeeps
<1>6. StoreInv' BY <1>1, <1>2, <1>5 DEF StoreInv, StoreTypes
<1>7. WorkerTypes' /\ AgendaInv'
  BY <1>1, <1>2 DEF WorkerInv, WorkerTypes, AgendaInv, WorkerSteps
<1>8. WorkerLoading' BY <1>1, Interruption DEF WorkerLoading
<1> QED BY <1>1, <1>5, <1>6, <1>7, <1>8 DEF WorkerInv

LEMMA WorkerStep ==
  ASSUME IInv, Worker \/ \E r \in Types : Receive(r)
  PROVE  IInv'
<1>1. ASSUME StoreInv' /\ WorkerInv' /\ UNCHANGED <<component, repair, failed>>
      PROVE  IInv'
  BY <1>1, KeepThread, KeepRepairs DEF IInv
<1>2. ASSUME WorkerInv' /\ UNCHANGED <<stores, component, repair, failed>>
      PROVE  IInv'
  BY <1>1, <1>2, KeepStores DEF IInv
<1>3. CASE GoesOn BY <1>2, <1>3, GoesOnKeeps
<1>4. CASE (\E r \in Types : Receive(r)) \/ EvaluationEnds \/ Select BY <1>2, <1>4, TurnsKeep
<1>5. CASE RefreshCheckers \/ RefreshObservers \/ ReloadEvolved BY <1>1, <1>5, RefreshKeeps
<1>6. CASE WorkerLoads BY <1>1, <1>6, LoadsKeeps
<1>7. CASE Evolve BY <1>1, <1>7, EvolveKeeps
<1>8. CASE PublishEvolved BY <1>1, <1>8, PublishEvolvedKeeps
<1>9. CASE RequestComponents BY <1>9, RequestKeeps
<1>10. CASE ExecutionFails BY <1>10, RunsKeeps
<1> QED BY <1>3, <1>4, <1>5, <1>6, <1>7, <1>8, <1>9, <1>10 DEF Worker, GoesOn

-----------------------------------------------------------------------------
(* The steps of the component thread                                       *)

LEMMA GeneratedKeeps ==
  ASSUME StoreInv, NEW kind \in Kinds, NEW key \in Keys, NEW source \in Sources,
         Generated(kind, key, source), UNCHANGED <<sources, quarantined>>
  PROVE  StoreInv'
<1>1. files' \subseteq Kinds \X Keys \X Nat \X Sources
  BY WriteType DEF StoreInv, Generated
<1>2. versions' \in [Kinds -> [Keys -> Seq(Nat)]] /\ GenericThere'
  BY PublishKeeps DEF Generated
<1> QED BY <1>1, <1>2 DEF StoreInv, StoreTypes

LEMMA ThreadStep ==
  ASSUME IInv, ComponentThread
  PROVE  IInv'
<1> USE DEF ThreadTypes
<1>1. ASSUME StoreInv', ThreadTypes', UNCHANGED <<worker, repair, failed>>
      PROVE  IInv'
  BY <1>1, KeepWorker, KeepRepairs DEF IInv
<1>2. ASSUME UNCHANGED stores, ThreadTypes', UNCHANGED <<worker, repair, failed>>
      PROVE  IInv'
  BY <1>1, <1>2, KeepStores DEF IInv
<1>3. StoreInv /\ ThreadTypes BY DEF IInv
<1>4. /\ RawSource \in Sources
      /\ \A key \in Keys : <<"generated", key, 0>> \in Sources
  BY DEF RawSource, Sources, Authors, Keys
<1>5. CASE Take
  <2>1. ThreadTypes' BY <1>3, <1>5 DEF Take
  <2> QED BY <1>2, <1>5, <2>1 DEF Take
<1>6. CASE ThreadEnds BY <1>2, <1>3, <1>6 DEF ThreadEnds
<1>7. CASE Finish BY <1>2, <1>3, <1>7 DEF Finish
<1>8. CASE GenerateChecker
  <2>1. PICK key \in hand : Generated("checker", key, <<"generated", key, 0>>)
    BY <1>8 DEF GenerateChecker
  <2>2. StoreInv'
    BY <1>3, <1>4, <1>8, <2>1, GeneratedKeeps DEF GenerateChecker, Kinds
  <2> QED BY <1>1, <1>3, <1>8, <2>2 DEF GenerateChecker
<1>9. CASE NoChecker BY <1>2, <1>3, <1>9 DEF NoChecker
<1>10. CASE GenerateObserver
  <2>1. PICK key \in hand :
          \E source \in {<<"generated", key, 0>>, RawSource} : Generated("observer", key, source)
    BY <1>10 DEF GenerateObserver
  <2>2. StoreInv'
    BY <1>3, <1>4, <1>10, <2>1, GeneratedKeeps DEF GenerateObserver, Kinds
  <2> QED BY <1>1, <1>3, <1>10, <2>2 DEF GenerateObserver
<1>11. CASE NoObserver BY <1>2, <1>3, <1>11 DEF NoObserver
<1> QED BY <1>5, <1>6, <1>7, <1>8, <1>9, <1>10, <1>11 DEF ComponentThread

-----------------------------------------------------------------------------
(* The steps of a repair thread                                            *)

\* A thread moves on; the others stay where they are.
LEMMA GotoKeeps ==
  ASSUME RepairInv, NEW id \in DOMAIN repairs, NEW pc \in RepairSteps, Goto(id, pc),
         pc = "load" => repairs[id].pc = "load",
         rname' \in Nat, cache' \subseteq Kinds \X Sources \X Errors \X BOOLEAN, failed' = failed
  PROVE  /\ RepairTypes' /\ RepairLoading'
         /\ \A i, step : At(i, step)' <=> IF i = id THEN step = pc ELSE At(i, step)
        /\ \A i \in DOMAIN repairs : repairs'[i].error = repairs[i].error
<1>1. /\ DOMAIN repairs' = DOMAIN repairs
      /\ \A i \in DOMAIN repairs :
           repairs[i] \in [pc : RepairSteps, error : Errors, todo : SUBSET Named]
  BY DEF RepairInv, RepairTypes, Goto
<1>2. \A i \in DOMAIN repairs : i # id => repairs'[i] = repairs[i] BY DEF Goto
<1>3. repairs'[id] = [repairs[id] EXCEPT !.pc = pc] BY DEF Goto
<1>4. repairs'[id].pc = pc /\ repairs'[id].todo = repairs[id].todo
      /\ repairs'[id].error = repairs[id].error
      /\ repairs'[id] \in [pc : RepairSteps, error : Errors, todo : SUBSET Named]
  BY <1>1, <1>3
<1>5. RepairTypes' BY <1>1, <1>2, <1>4 DEF RepairInv, RepairTypes
<1>6. RepairLoading'
  <2> SUFFICES ASSUME NEW i \in DOMAIN repairs
               PROVE  repairs'[i].pc = "load" => repairs'[i].todo # {}
    BY <1>1 DEF RepairLoading
  <2>1. repairs'[i].todo = repairs[i].todo BY <1>2, <1>4
  <2>2. repairs'[i].pc = "load" => repairs[i].pc = "load" BY <1>2, <1>4
  <2> QED BY <2>1, <2>2 DEF RepairInv, RepairLoading
<1> QED BY <1>1, <1>2, <1>4, <1>5, <1>6 DEF At

\* A thread that loads moves on, with what is left to load.
LEMMA LoadKeeps ==
  ASSUME RepairInv, NEW id \in DOMAIN repairs, NEW pc \in {"load", "end"},
         NEW todo \in SUBSET Named,
         pc = "load" => todo # {},
         repairs' = [repairs EXCEPT ![id].pc = pc, ![id].todo = todo],
         At(id, "reload") \/ At(id, "load"),
         UNCHANGED <<versions, rname, lock, cache, failed>>
  PROVE  RepairInv'
<1>1. /\ DOMAIN repairs' = DOMAIN repairs
      /\ \A i \in DOMAIN repairs : i # id => repairs'[i] = repairs[i]
  OBVIOUS
<1>2. /\ repairs'[id].pc = pc /\ repairs'[id].todo = todo
      /\ repairs'[id].error = repairs[id].error
      /\ repairs'[id] \in [pc : RepairSteps, error : Errors, todo : SUBSET Named]
  <2>1. repairs[id] \in [pc : RepairSteps, error : Errors, todo : SUBSET Named]
    BY DEF RepairInv, RepairTypes
  <2>2. repairs'[id] = [[repairs[id] EXCEPT !.pc = pc] EXCEPT !.todo = todo] OBVIOUS
  <2> QED BY <2>1, <2>2 DEF RepairSteps
<1>3. RepairTypes' BY <1>1, <1>2 DEF RepairInv, RepairTypes
<1>4. RepairLoading' BY <1>1, <1>2 DEF RepairInv, RepairLoading
<1>5. \A i, step : step \in {"ask", "publish"} => (At(i, step)' <=> At(i, step))
  BY <1>1, <1>2 DEF At
<1>6. \A i \in DOMAIN repairs : Answers(i)' = Answers(i) BY <1>1, <1>2 DEF Answers
<1>7. RepairedOnce' /\ LockInv'
  BY <1>1, <1>5, <1>6 DEF RepairInv, RepairedOnce, LockInv
<1> QED BY <1>3, <1>4, <1>7 DEF RepairInv

LEMMA RepairStep ==
  ASSUME IInv, NEW id \in DOMAIN repairs, Repair(id)
  PROVE  IInv'
<1>1. StoreInv /\ WorkerInv /\ ThreadTypes /\ RepairInv BY DEF IInv
<1>2. id[1] \in Kinds /\ id[2] \in Keys /\ id[3] \in Sources
  BY <1>1 DEF RepairInv, RepairTypes, Identified
<1>3. UNCHANGED worker /\ UNCHANGED component /\ failed' = failed
  BY DEF Repair, RepairStarts, RepairAsks, RepairKnown, RepairFails, RepairWrites,
     RepairPublishes, RepairReloads, RepairLoads, RepairEnds
<1>4. ASSUME StoreInv', RepairInv' PROVE IInv'
  BY <1>1, <1>3, <1>4, KeepWorker, KeepThread DEF IInv
<1>5. rname \in Nat /\ repairs[id].error \in Errors /\ cache \subseteq Kinds \X Sources \X Errors \X BOOLEAN
  BY <1>1 DEF RepairInv, RepairTypes
<1>6. {"lock", "ask", "publish", "reload", "end"} \subseteq RepairSteps BY DEF RepairSteps
<1>7. RepairedOnce /\ LockInv BY <1>1 DEF RepairInv
<1>8. CASE RepairStarts(id)
  <2>1. UNCHANGED <<versions, files, sources>> /\ UNCHANGED <<rname, lock, cache>>
        /\ Goto(id, "lock") /\ At(id, "start")
        /\ quarantined' = quarantined \cup {<<id[1], id[2], name>> : name \in Latest(id[1], id[2])}
    BY <1>8 DEF RepairStarts
  <2>2. Latest(id[1], id[2]) \subseteq Nat BY <1>1, <1>2, LatestType DEF StoreInv
  <2>3. StoreInv'
    <3>1. {<<id[1], id[2], name>> : name \in Latest(id[1], id[2])} \subseteq Named
      BY <1>2, <2>2 DEF Named
    <3>2. StoreTypes' BY <1>1, <2>1, <3>1 DEF StoreInv, StoreTypes
    <3>3. GenericThere'
      BY <1>1, <2>1 DEF StoreInv, GenericThere
    <3> QED BY <3>2, <3>3 DEF StoreInv
  <2>4. /\ RepairTypes' /\ RepairLoading'
        /\ \A i, step : At(i, step)' <=> IF i = id THEN step = "lock" ELSE At(i, step)
        /\ \A i \in DOMAIN repairs : repairs'[i].error = repairs[i].error
    BY <1>1, <1>3, <1>5, <1>6, <2>1, <2>3, GotoKeeps
  <2>5. RepairedOnce' /\ LockInv'
    <3>1. \A i \in DOMAIN repairs : Answers(i)' = Answers(i) BY <2>1, <2>4 DEF Answers
    <3>2. DOMAIN repairs' = DOMAIN repairs BY <2>1 DEF Goto
    <3>3. lock' = lock /\ ~At(id, "ask") /\ ~At(id, "publish") BY <2>1 DEF At
    <3>4. \A i, step : step \in {"ask", "publish"} => (At(i, step)' <=> At(i, step))
      BY <2>4, <3>3
    <3> QED BY <1>7, <3>1, <3>2, <3>3, <3>4 DEF RepairedOnce, LockInv
  <2> QED BY <1>4, <2>3, <2>4, <2>5 DEF RepairInv
<1>9. CASE RepairAsks(id)
  <2>1. UNCHANGED stores /\ UNCHANGED <<rname, cache>>
        /\ Goto(id, "ask") /\ At(id, "lock") /\ lock = {} /\ lock' = {id} /\ Answers(id) = {}
    BY <1>9 DEF RepairAsks
  <2>2. StoreInv' BY <1>1, <2>1, KeepStores
  <2>3. /\ RepairTypes' /\ RepairLoading'
        /\ \A i, step : At(i, step)' <=> IF i = id THEN step = "ask" ELSE At(i, step)
        /\ \A i \in DOMAIN repairs : repairs'[i].error = repairs[i].error
    BY <1>1, <1>3, <1>5, <1>6, <2>1, <2>2, GotoKeeps
  <2>4. \A i \in DOMAIN repairs : ~ (At(i, "ask") \/ At(i, "publish"))
    BY <1>7, <2>1 DEF RepairedOnce
  <2>5. \A i \in DOMAIN repairs : Answers(i)' = Answers(i) BY <2>1, <2>3 DEF Answers
  <2>6. DOMAIN repairs' = DOMAIN repairs BY <2>1 DEF Goto
  <2>7. RepairedOnce' /\ LockInv'
    BY <2>1, <2>3, <2>4, <2>5, <2>6 DEF RepairedOnce, LockInv
  <2> QED BY <1>4, <2>2, <2>3, <2>7 DEF RepairInv
<1>10. CASE RepairKnown(id)
  <2>1. PICK pc \in {"reload", "end"} : Goto(id, pc)
    BY <1>10 DEF RepairKnown
  <2>2. UNCHANGED stores /\ UNCHANGED <<rname, lock, cache>> /\ At(id, "lock") /\ lock = {}
    BY <1>10 DEF RepairKnown
  <2>3. StoreInv' BY <1>1, <2>2, KeepStores
  <2>4. /\ RepairTypes' /\ RepairLoading'
        /\ \A i, step : At(i, step)' <=> IF i = id THEN step = pc ELSE At(i, step)
        /\ \A i \in DOMAIN repairs : repairs'[i].error = repairs[i].error
    BY <1>1, <1>3, <1>5, <1>6, <2>1, <2>2, <2>3, GotoKeeps
  <2>5. \A i \in DOMAIN repairs : Answers(i)' = Answers(i) BY <2>2, <2>4 DEF Answers
  <2>6. DOMAIN repairs' = DOMAIN repairs BY <2>1 DEF Goto
  <2>7. RepairedOnce' /\ LockInv'
    BY <1>7, <2>1, <2>2, <2>4, <2>5, <2>6 DEF RepairedOnce, LockInv
  <2> QED BY <1>4, <2>3, <2>4, <2>7 DEF RepairInv
<1>11. CASE RepairFails(id)
  <2>1. UNCHANGED stores /\ rname' = rname /\ Goto(id, "end") /\ At(id, "ask") /\ lock' = {}
        /\ cache' = cache \cup {<<id[1], id[3], repairs[id].error, FALSE>>}
    BY <1>11 DEF RepairFails
  <2>2. StoreInv' BY <1>1, <2>1, KeepStores
  <2>3. cache' \subseteq Kinds \X Sources \X Errors \X BOOLEAN
    <3>1. <<id[1], id[3], repairs[id].error, FALSE>> \in Kinds \X Sources \X Errors \X BOOLEAN
      BY <1>2, <1>5
    <3> QED BY <1>5, <2>1, <3>1
  <2>4. /\ RepairTypes' /\ RepairLoading'
        /\ \A i, step : At(i, step)' <=> IF i = id THEN step = "end" ELSE At(i, step)
        /\ \A i \in DOMAIN repairs : repairs'[i].error = repairs[i].error
    BY <1>1, <1>3, <1>5, <1>6, <2>1, <2>2, <2>3, GotoKeeps
  <2>5. lock = {id} BY <1>7, <2>1 DEF RepairedOnce
  <2>6. \A i \in DOMAIN repairs : i # id => ~ (At(i, "ask") \/ At(i, "publish"))
    BY <1>7, <2>5 DEF RepairedOnce
  <2>7. DOMAIN repairs' = DOMAIN repairs BY <2>1 DEF Goto
  <2>8. RepairedOnce' /\ LockInv'
    BY <2>1, <2>4, <2>6, <2>7 DEF RepairedOnce, LockInv
  <2> QED BY <1>4, <2>2, <2>4, <2>8 DEF RepairInv
<1>12. CASE RepairWrites(id)
  <2> DEFINE name == Len(versions[id[1]][id[2]])
  <2>1. UNCHANGED <<versions, sources, quarantined>> /\ UNCHANGED <<lock, cache>>
        /\ Goto(id, "publish") /\ At(id, "ask") /\ rname' = name
        /\ Write(id[1], id[2], name, <<"repaired", id[2], name>>)
    BY <1>12 DEF RepairWrites
  <2>2. name \in Nat BY <1>1, <1>2 DEF StoreInv, StoreTypes
  <2> HIDE DEF name
  <2>3. <<"repaired", id[2], name>> \in Sources BY <1>2, <2>2 DEF Sources, Authors
  <2>4. files' \subseteq Kinds \X Keys \X Nat \X Sources
    BY <1>1, <1>2, <2>1, <2>2, <2>3, WriteType DEF StoreInv
  <2>5. StoreInv'
    BY <1>1, <2>1, <2>4 DEF StoreInv, StoreTypes, GenericThere
  <2>6. /\ RepairTypes' /\ RepairLoading'
        /\ \A i, step : At(i, step)' <=> IF i = id THEN step = "publish" ELSE At(i, step)
        /\ \A i \in DOMAIN repairs : repairs'[i].error = repairs[i].error
    BY <1>1, <1>3, <1>5, <1>6, <2>1, <2>2, <2>5, GotoKeeps
  <2>7. \A i \in DOMAIN repairs : Answers(i)' = Answers(i) BY <2>1, <2>6 DEF Answers
  <2>8. DOMAIN repairs' = DOMAIN repairs BY <2>1 DEF Goto
  <2>9. RepairedOnce' /\ LockInv'
    BY <1>7, <2>1, <2>6, <2>7, <2>8 DEF RepairedOnce, LockInv
  <2> QED BY <1>4, <2>5, <2>6, <2>9 DEF RepairInv
<1>13. CASE RepairPublishes(id)
  <2>1. UNCHANGED <<files, sources, quarantined>> /\ rname' = rname /\ Goto(id, "reload")
        /\ At(id, "publish") /\ lock' = {} /\ cache' = cache \cup {<<id[1], id[3], repairs[id].error, TRUE>>}
        /\ Publish(id[1], id[2], rname)
    BY <1>13 DEF RepairPublishes
  <2>2. versions' \in [Kinds -> [Keys -> Seq(Nat)]] /\ GenericThere'
    BY <1>1, <1>2, <1>5, <2>1, PublishKeeps
  <2>3. StoreInv' BY <1>1, <2>1, <2>2 DEF StoreInv, StoreTypes
  <2>4. cache' \subseteq Kinds \X Sources \X Errors \X BOOLEAN
    <3>1. <<id[1], id[3], repairs[id].error, TRUE>> \in Kinds \X Sources \X Errors \X BOOLEAN
      BY <1>2, <1>5
    <3> QED BY <1>5, <2>1, <3>1
  <2>5. /\ RepairTypes' /\ RepairLoading'
        /\ \A i, step : At(i, step)' <=> IF i = id THEN step = "reload" ELSE At(i, step)
        /\ \A i \in DOMAIN repairs : repairs'[i].error = repairs[i].error
    BY <1>1, <1>3, <1>5, <1>6, <2>1, <2>2, <2>4, GotoKeeps
  <2>6. lock = {id} BY <1>7, <2>1 DEF RepairedOnce
  <2>7. \A i \in DOMAIN repairs : i # id => ~ (At(i, "ask") \/ At(i, "publish"))
    BY <1>7, <2>6 DEF RepairedOnce
  <2>8. DOMAIN repairs' = DOMAIN repairs BY <2>1 DEF Goto
  <2>9. RepairedOnce' /\ LockInv'
    BY <2>1, <2>5, <2>7, <2>8 DEF RepairedOnce, LockInv
  <2> QED BY <1>4, <2>2, <2>3, <2>5, <2>9 DEF RepairInv
<1>14. CASE RepairReloads(id)
  <2>1. UNCHANGED <<versions, files, quarantined>> /\ UNCHANGED <<rname, lock, cache>>
        /\ At(id, "reload") /\ StartLoad(id[1])
        /\ repairs' = [repairs EXCEPT ![id].pc = "load", ![id].todo = Equipment(id[1])]
    BY <1>14 DEF RepairReloads
  <2>2. StoreInv' BY <1>1, <1>2, <2>1, StartLoadType
  <2>3. RepairInv' BY <1>1, <1>2, <1>3, <2>1, EquipmentType, LoadKeeps
  <2> QED BY <1>4, <2>2, <2>3
<1>15. CASE RepairLoads(id)
  <2> DEFINE v == NextOf(repairs[id].todo)
             rest == repairs[id].todo \ {v}
  <2>1. UNCHANGED <<versions, files, quarantined>> /\ UNCHANGED <<rname, lock, cache>>
        /\ At(id, "load") /\ LoadOne(v)
        /\ repairs' = [repairs EXCEPT ![id].pc = IF rest = {} THEN "end" ELSE "load",
                                      ![id].todo = rest]
    BY <1>15 DEF RepairLoads
  <2>2. /\ repairs[id].todo # {} /\ repairs[id].todo \subseteq Named
    BY <1>1, <2>1 DEF RepairInv, RepairTypes, RepairLoading, At
  <2>3. v \in repairs[id].todo BY <2>2 DEF NextOf
  <2>4. StoreInv' BY <1>1, <2>1, <2>2, <2>3, LoadOneType
  <2> HIDE DEF v
  <2>5. RepairInv' BY <1>1, <1>3, <2>1, <2>2, LoadKeeps
  <2> QED BY <1>4, <2>4, <2>5
<1>16. CASE RepairEnds(id)
  <2>1. UNCHANGED stores /\ UNCHANGED <<rname, lock, cache>> /\ At(id, "end")
        /\ repairs' = [i \in DOMAIN repairs \ {id} |-> repairs[i]]
    BY <1>16 DEF RepairEnds
  <2>2. StoreInv' BY <1>1, <2>1, KeepStores
  <2>3. DOMAIN repairs' = DOMAIN repairs \ {id}
        /\ \A i \in DOMAIN repairs' : repairs'[i] = repairs[i]
    BY <2>1
  <2>4. UNCHANGED versions BY <2>1 DEF stores
  <2>5. RepairTypes' /\ RepairLoading'
    BY <1>1, <1>3, <1>5, <2>1, <2>3, <2>4 DEF RepairInv, RepairTypes, RepairLoading
  <2>6. \A i, step : step # "end" => (At(i, step)' <=> At(i, step)) BY <2>1, <2>3 DEF At
  <2>7. \A i \in DOMAIN repairs' : Answers(i)' = Answers(i) BY <2>1, <2>3 DEF Answers
  <2>8. RepairedOnce' /\ LockInv'
    BY <1>7, <2>1, <2>3, <2>6, <2>7 DEF RepairedOnce, LockInv
  <2> QED BY <1>4, <2>2, <2>5, <2>8 DEF RepairInv
<1> QED
  BY <1>8, <1>9, <1>10, <1>11, <1>12, <1>13, <1>14, <1>15, <1>16 DEF Repair

-----------------------------------------------------------------------------
(* The theorems                                                            *)

LEMMA InitIInv == Init => IInv
<1> SUFFICES ASSUME Init PROVE IInv OBVIOUS
<1> USE DEF Init
<1>1. StoreInv
  <2>1. \A kind \in Kinds, key \in Prepared : key \in Keys /\ PreparedSource(kind, key) \in Sources
    BY RunAssumption DEF PreparedSource, RawSource, Sources, Authors, Keys
  <2>2. versions \in [Kinds -> [Keys -> Seq(Nat)]] OBVIOUS
  <2>3. sources \in [Kinds -> [Keys -> SUBSET Sources]] BY <2>1
  <2>4. files \subseteq Kinds \X Keys \X Nat \X Sources BY <2>1
  <2>5. GenericThere
    <3>1. Generic \in Keys /\ Generic \in Prepared BY RunAssumption DEF Keys
    <3> QED BY <3>1 DEF GenericThere
  <2> QED BY <2>2, <2>3, <2>4, <2>5 DEF StoreInv, StoreTypes
<1>2. WorkerInv
  BY Interruption DEF WorkerInv, WorkerTypes, WorkerSteps, WorkerLoading, AgendaInv
<1>3. ThreadTypes BY DEF ThreadTypes
<1>4. RepairInv
  <2>1. DOMAIN repairs = {} OBVIOUS
  <2> QED BY <2>1 DEF RepairInv, RepairTypes, RepairLoading, RepairedOnce, LockInv
<1> QED BY <1>1, <1>2, <1>3, <1>4 DEF IInv

LEMMA NextIInv == IInv /\ [Next]_vars => IInv'
<1> SUFFICES ASSUME IInv, [Next]_vars PROVE IInv' OBVIOUS
<1>1. CASE UNCHANGED vars
  <2>1. UNCHANGED stores /\ UNCHANGED worker /\ UNCHANGED component
        /\ UNCHANGED <<repair, failed>>
    BY <1>1 DEF vars
  <2> QED BY <2>1, KeepStores, KeepWorker, KeepThread, KeepRepairs DEF IInv
<1> QED BY <1>1, WorkerStep, ThreadStep, RepairStep DEF Next

LEMMA Invariance == Spec => []IInv
BY InitIInv, NextIInv, PTL DEF Spec

\* Every variable of the checkers and observers keeps its type, whatever the threads do
\* and whichever versions are withdrawn while others name them; in particular a thread that
\* goes through the types to load names only types there are (executor.py, mapper.py).
THEOREM TypeCorrect == Spec => []TypeOK
<1>1. IInv => TypeOK
  <2> SUFFICES ASSUME IInv PROVE TypeOK OBVIOUS
  <2>1. lock \subseteq DOMAIN repairs BY DEF IInv, RepairInv, LockInv, At
  <2> QED BY <2>1
    DEF IInv, StoreInv, StoreTypes, WorkerInv, WorkerTypes, ThreadTypes, RepairInv, RepairTypes,
        TypeOK
<1> QED BY <1>1, Invariance, PTL

\* However many threads report failing sources, and for whichever keys, one at a time
\* asks the model for a repair, and never about a source and an error that it was asked
\* about before (mapper.repair_runtime_component).
THEOREM RepairsAreSingle == Spec => []RepairedOnce
<1>1. IInv => RepairedOnce BY DEF IInv, RepairInv
<1> QED BY <1>1, Invariance, PTL

\* The lock is with a thread that asks the model or publishes its answer; no thread ends,
\* loads or waits for the lock while it holds it (mapper.repair_runtime_component).
THEOREM LockIsReleased == Spec => []LockInv
<1>1. IInv => LockInv BY DEF IInv, RepairInv
<1> QED BY <1>1, Invariance, PTL

-----------------------------------------------------------------------------
(* No key is lost                                                          *)

LEMMA RangeConcat ==
  ASSUME NEW R, NEW s \in Seq(R), NEW t \in Seq(R)
  PROVE  /\ Range(s \o t) = Range(s) \cup Range(t)
         /\ IsInjective(s) /\ IsInjective(t) /\ Range(s) \cap Range(t) = {}
              => IsInjective(s \o t)
<1>1. /\ s \o t \in Seq(R) /\ Len(s \o t) = Len(s) + Len(t)
      /\ Len(s) \in Nat /\ Len(t) \in Nat
      /\ DOMAIN s = 1..Len(s) /\ DOMAIN t = 1..Len(t) /\ DOMAIN (s \o t) = 1..Len(s \o t)
      /\ \A i \in 1..Len(s) : (s \o t)[i] = s[i]
      /\ \A i \in 1..Len(t) : (s \o t)[Len(s) + i] = t[i]
  OBVIOUS
<1>2. \A i \in 1..Len(s) + Len(t) :
        i \in 1..Len(s) \/ \E j \in 1..Len(t) : i = Len(s) + j
  <2> TAKE i \in 1..Len(s) + Len(t)
  <2>1. CASE i <= Len(s) BY <1>1, <2>1
  <2>2. CASE i > Len(s)
    <3>1. i - Len(s) \in 1..Len(t) /\ i = Len(s) + (i - Len(s)) BY <1>1, <2>2
    <3> QED BY <3>1
  <2> QED BY <1>1, <2>1, <2>2
<1>3. \A i \in 1..Len(s) : i \in 1..Len(s) + Len(t) BY <1>1
<1>4. \A i \in 1..Len(t) : Len(s) + i \in 1..Len(s) + Len(t) BY <1>1
<1>5. Range(s \o t) = Range(s) \cup Range(t)
  <2>1. ASSUME NEW x \in Range(s \o t) PROVE x \in Range(s) \cup Range(t)
    <3>1. PICK i \in 1..Len(s) + Len(t) : x = (s \o t)[i] BY <1>1 DEF Range
    <3>2. CASE i \in 1..Len(s) BY <1>1, <3>1, <3>2 DEF Range
    <3>3. ASSUME NEW j \in 1..Len(t), i = Len(s) + j PROVE x \in Range(t)
      BY <1>1, <3>1, <3>3 DEF Range
    <3> QED BY <1>2, <3>2, <3>3
  <2>2. \A x \in Range(s) \cup Range(t) : x \in Range(s \o t)
    BY <1>1, <1>3, <1>4, Zenon DEF Range
  <2> QED BY <2>1, <2>2
<1>6. ASSUME IsInjective(s), IsInjective(t), Range(s) \cap Range(t) = {}
      PROVE  IsInjective(s \o t)
  <2> SUFFICES ASSUME NEW a \in 1..Len(s) + Len(t), NEW b \in 1..Len(s) + Len(t),
                      (s \o t)[a] = (s \o t)[b]
               PROVE  a = b
    BY <1>1, Zenon DEF IsInjective
  <2>1. \A i \in 1..Len(s) : \A j \in 1..Len(t) : s[i] # t[j]
    BY <1>1, <1>6, Zenon DEF Range
  <2>2. \A i, j \in 1..Len(s) : s[i] = s[j] => i = j BY <1>1, <1>6 DEF IsInjective
  <2>3. \A i, j \in 1..Len(t) : t[i] = t[j] => i = j BY <1>1, <1>6 DEF IsInjective
  <2>4. CASE a \in 1..Len(s) /\ b \in 1..Len(s) BY <1>1, <2>2, <2>4
  <2>5. ASSUME NEW i \in 1..Len(t), a = Len(s) + i, b \in 1..Len(s) PROVE FALSE
    BY <1>1, <2>1, <2>5
  <2>6. ASSUME NEW j \in 1..Len(t), b = Len(s) + j, a \in 1..Len(s) PROVE FALSE
    BY <1>1, <2>1, <2>6
  <2>7. ASSUME NEW i \in 1..Len(t), NEW j \in 1..Len(t), a = Len(s) + i, b = Len(s) + j
        PROVE  a = b
    <3>1. t[i] = t[j] BY <1>1, <2>7
    <3> QED BY <2>3, <2>7, <3>1
  <2> QED BY <1>2, <2>4, <2>5, <2>6, <2>7
<1> QED BY <1>5, <1>6

LEMMA HeadAndTail ==
  ASSUME NEW R, NEW s \in Seq(R), s # <<>>, IsInjective(s)
  PROVE  /\ Range(s) = {Head(s)} \cup Range(Tail(s))
         /\ Head(s) \notin Range(Tail(s)) /\ IsInjective(Tail(s))
<1>1. /\ Tail(s) \in Seq(R) /\ Len(s) \in Nat /\ Len(s) >= 1 /\ Len(Tail(s)) = Len(s) - 1
      /\ DOMAIN s = 1..Len(s) /\ DOMAIN Tail(s) = 1..Len(s) - 1
      /\ Head(s) = s[1] /\ \A i \in 1..Len(s) - 1 : Tail(s)[i] = s[i + 1]
  OBVIOUS
<1>2. \A i \in 1..Len(s) - 1 : i + 1 \in 1..Len(s) /\ i + 1 # 1 BY <1>1
<1>3. \A i \in 1..Len(s) : i = 1 \/ \E j \in 1..Len(s) - 1 : i = j + 1
  <2> TAKE i \in 1..Len(s)
  <2>1. CASE i # 1
    <3>1. i - 1 \in 1..Len(s) - 1 /\ i = (i - 1) + 1 BY <1>1, <2>1
    <3> QED BY <3>1
  <2> QED BY <2>1
<1>4. 1 \in 1..Len(s) BY <1>1
<1>5. \A a, b \in 1..Len(s) : s[a] = s[b] => a = b BY <1>1 DEF IsInjective
<1>6. Range(s) = {Head(s)} \cup Range(Tail(s))
  <2>1. ASSUME NEW x \in Range(s) PROVE x = Head(s) \/ x \in Range(Tail(s))
    <3>1. PICK i \in 1..Len(s) : x = s[i] BY <1>1 DEF Range
    <3>2. CASE i = 1 BY <1>1, <3>1, <3>2
    <3>3. ASSUME NEW j \in 1..Len(s) - 1, i = j + 1 PROVE x \in Range(Tail(s))
      BY <1>1, <3>1, <3>3 DEF Range
    <3> QED BY <1>3, <3>2, <3>3
  <2>2. Head(s) \in Range(s) BY <1>1, <1>4, Zenon DEF Range
  <2>3. \A x \in Range(Tail(s)) : x \in Range(s) BY <1>1, <1>2, Zenon DEF Range
  <2> QED BY <2>1, <2>2, <2>3
<1>7. Head(s) \notin Range(Tail(s))
  <2> SUFFICES ASSUME NEW i \in 1..Len(s) - 1, Head(s) = Tail(s)[i] PROVE FALSE
    BY <1>1 DEF Range
  <2>1. s[1] = s[i + 1] BY <1>1
  <2> QED BY <1>2, <1>4, <1>5, <2>1
<1>8. IsInjective(Tail(s))
  <2> SUFFICES ASSUME NEW a \in 1..Len(s) - 1, NEW b \in 1..Len(s) - 1,
                      Tail(s)[a] = Tail(s)[b]
               PROVE  a = b
    BY <1>1, Zenon DEF IsInjective
  <2>1. a + 1 = b + 1 BY <1>1, <1>2, <1>5
  <2> QED BY <2>1
<1> QED BY <1>6, <1>7, <1>8

\* What is queued for a code: its own key and its family's, where they are wanted.
LEMMA WantedForMeaning ==
  ASSUME NEW r \in Types
  PROVE  /\ IsInjective(WantedFor(r))
         /\ Range(WantedFor(r)) =
              {key \in {r} \cup Family[r] : Missing(key)' /\ key \notin pending \cup failures}
<1>1. ASSUME NEW key
      PROVE  /\ IsInjective(Wanted(key))
             /\ Range(Wanted(key)) =
                  {k \in {key} : Missing(k)' /\ k \notin pending \cup failures}
  <2>1. CASE Missing(key)' /\ key \notin pending \cup failures
    <3>1. Wanted(key) = <<key>> BY <2>1 DEF Wanted
    <3>2. DOMAIN <<key>> = {1} /\ <<key>>[1] = key OBVIOUS
    <3>3. Range(Wanted(key)) = {key} BY <3>1, <3>2 DEF Range
    <3> QED BY <2>1, <3>1, <3>2, <3>3 DEF IsInjective
  <2>2. CASE ~ (Missing(key)' /\ key \notin pending \cup failures)
    <3>1. Wanted(key) = <<>> BY <2>2 DEF Wanted
    <3>2. DOMAIN <<>> = {} OBVIOUS
    <3>3. Range(Wanted(key)) = {} BY <3>1, <3>2 DEF Range
    <3> QED BY <2>2, <3>1, <3>2, <3>3 DEF IsInjective
  <2> QED BY <2>1, <2>2
<1>2. CASE Family[r] = {} 
  <2>1. WantedFor(r) = Wanted(r)
    <3>1. <<r>> \in Seq({r}) /\ <<>> \in Seq({r}) OBVIOUS
    <3>2. Wanted(r) \in Seq({r}) BY <3>1 DEF Wanted
    <3> QED BY <1>2, <3>2 DEF WantedFor
  <2> QED BY <1>1, <1>2, <2>1
<1>3. CASE Family[r] # {}
  <2> DEFINE f == CHOOSE g \in Family[r] : TRUE
  <2>1. f \in Family[r] BY <1>3
  <2> HIDE DEF f
  <2>2. Family[r] = {f} /\ f # r BY <2>1, KeysAssumption
  <2>3. WantedFor(r) = Wanted(r) \o Wanted(f) BY <1>3 DEF WantedFor, f
  <2>4. Wanted(r) \in Seq({r, f}) /\ Wanted(f) \in Seq({r, f})
    <3>1. <<r>> \in Seq({r, f}) /\ <<f>> \in Seq({r, f}) /\ <<>> \in Seq({r, f}) OBVIOUS
    <3> QED BY <3>1 DEF Wanted
  <2>5. Range(Wanted(r)) \cap Range(Wanted(f)) = {} BY <1>1, <2>2
  <2>6. /\ IsInjective(WantedFor(r))
        /\ Range(WantedFor(r)) = Range(Wanted(r)) \cup Range(Wanted(f))
    BY <1>1, <2>3, <2>4, <2>5, RangeConcat
  <2>7. /\ Range(Wanted(r)) = {k \in {r} : Missing(k)' /\ k \notin pending \cup failures}
        /\ Range(Wanted(f)) = {k \in {f} : Missing(k)' /\ k \notin pending \cup failures}
    BY <1>1
  <2> QED BY <2>2, <2>6, <2>7
<1> QED BY <1>2, <1>3

\* Nothing is in hand while the thread waits, and until the components of a code were
\* asked for, the worker is about to ask.
Asking == wpc = "next" /\ agenda # <<>> /\ Head(agenda) \in {"observe", "check"}
Cared(r) == \A key \in {r} \cup Family[r] : Missing(key) => key \in pending \cup failures
QueueInv ==
  /\ pending = Range(queue) \cup hand
  /\ hand \cap Range(queue) = {} /\ IsInjective(queue)
  /\ cpc \in {"off", "take", "ending"} => hand = {}
RequestInv ==
  /\ \A r, t \in current : r = t
  /\ \A r \in checked : Cared(r) \/ (r \in current /\ Asking)

\* Only a request for components withdraws a version.
LEMMA StepKeeps ==
  ASSUME IInv, [Next]_vars, ~RequestComponents
  PROVE  Kept
<1>1. ASSUME UNCHANGED versions PROVE Kept BY <1>1 DEF Kept
<1>2. ASSUME NEW kind \in Kinds, NEW key \in Keys, NEW name \in Nat,
             Publish(kind, key, name)
      PROVE  Kept
  BY <1>2, PublishKeeps DEF IInv
<1>3. CASE UNCHANGED vars BY <1>1, <1>3 DEF vars, stores
<1>4. ASSUME NEW r \in Types, Receive(r) PROVE Kept BY <1>1, <1>4 DEF Receive, stores
<1>5. CASE Worker
  <2>1. CASE PublishEvolved
    BY <1>2, <2>1 DEF PublishEvolved, IInv, WorkerInv, WorkerTypes, Identified, Sources
  <2>2. CASE ~PublishEvolved
    BY <1>1, <1>5, <2>2
    DEF Worker, EvaluationEnds, RefreshCheckers, RefreshObservers,
        WorkerLoads, Select, Skip, Accept, Reject, ExecutionFails, SkipComparison,
        ObserveSamples, Preserve, NotEvolved, Evolve, ReloadEvolved, Confirm, Undecided, stores
  <2> QED BY <2>1, <2>2
<1>6. CASE ComponentThread
  <2>1. CASE GenerateChecker
    BY <1>2, <2>1 DEF GenerateChecker, Generated, IInv, ThreadTypes, Kinds
  <2>2. CASE GenerateObserver
    BY <1>2, <2>2 DEF GenerateObserver, Generated, IInv, ThreadTypes, Kinds
  <2>3. CASE Take \/ ThreadEnds \/ Finish \/ NoChecker \/ NoObserver
    BY <1>1, <2>3 DEF Take, ThreadEnds, Finish, NoChecker, NoObserver, stores
  <2> QED BY <1>6, <2>1, <2>2, <2>3 DEF ComponentThread
<1>7. ASSUME NEW id \in DOMAIN repairs, Repair(id) PROVE Kept
  <2>1. CASE RepairPublishes(id)
    BY <1>2, <2>1 DEF RepairPublishes, IInv, RepairInv, RepairTypes, Identified
  <2>2. CASE ~RepairPublishes(id)
    BY <1>1, <1>7, <2>2
    DEF Repair, RepairStarts, RepairAsks, RepairKnown, RepairFails, RepairWrites,
        RepairReloads, RepairLoads, RepairEnds, stores
  <2> QED BY <2>1, <2>2
<1> QED BY <1>3, <1>4, <1>5, <1>6, <1>7 DEF Next

\* A key that was cared for stays so while none leaves the queue unfinished.
LEMMA CareKept ==
  ASSUME NEW r \in Types, Cared(r), Kept,
         \A key \in pending \cup failures : Missing(key)' => key \in pending' \cup failures'
  PROVE  Cared(r)'
<1>1. {r} \cup Family[r] \subseteq Keys BY KeysAssumption DEF Keys
<1>2. \A key \in Keys : Missing(key)' => Missing(key) BY DEF Missing, Kept
<1> QED BY <1>1, <1>2 DEF Cared

LEMMA QueueStep ==
  ASSUME IInv, QueueInv, RequestInv, [Next]_vars
  PROVE  QueueInv' /\ RequestInv'
<1> USE DEF QueueInv
<1>1. ~RequestComponents => Kept BY StepKeeps
<1>2. checked \subseteq Types /\ current \subseteq Types
      /\ queue \in Seq(Keys) /\ hand \subseteq Keys
  BY DEF IInv, WorkerInv, WorkerTypes, ThreadTypes
<1>3. ~Asking => \A r \in checked : Cared(r) BY DEF RequestInv
\* The steps that leave the thread alone, and the worker where it asks.
<1>4. ASSUME Kept, UNCHANGED component, UNCHANGED worker
      PROVE  QueueInv' /\ RequestInv'
  <2>1. \A r \in checked : Cared(r) => Cared(r)'
    BY <1>2, <1>4, CareKept DEF component
  <2> QED BY <1>4, <2>1 DEF component, worker, RequestInv, Asking
<1>5. ASSUME Kept, UNCHANGED component, ~Asking, checked' \subseteq checked,
             current' \subseteq current
      PROVE  QueueInv' /\ RequestInv'
  <2>1. \A r \in checked : Cared(r)'
    BY <1>2, <1>3, <1>5, CareKept DEF component
  <2> QED BY <1>5, <2>1 DEF component, RequestInv
\* The steps of the thread that leave the worker alone.
<1>6. ASSUME Kept, UNCHANGED worker,
             \A key \in pending \cup failures : Missing(key)' => key \in pending' \cup failures'
      PROVE  RequestInv'
  <2>1. \A r \in checked : Cared(r) => Cared(r)'
    BY <1>2, <1>6, CareKept
  <2> QED BY <1>6, <2>1 DEF worker, RequestInv, Asking
<1>7. CASE UNCHANGED vars
  <2>1. Kept BY <1>7 DEF Kept, vars, stores
  <2> QED BY <1>4, <1>7, <2>1 DEF vars
<1>8. ASSUME NEW r \in Types, Receive(r) PROVE QueueInv' /\ RequestInv'
  <2>1. UNCHANGED component /\ checked' = checked \cup {r} /\ current' = {r}
        /\ ~Asking /\ ~RequestComponents
    BY <1>8 DEF Receive, Asking, RequestComponents
  <2>2. Asking' BY <1>8 DEF Receive, Resume, Asking
  <2>3. \A t \in checked : Cared(t)'
    BY <1>1, <1>2, <1>3, <2>1, CareKept DEF component
  <2> QED BY <2>1, <2>2, <2>3 DEF component, RequestInv
<1>9. CASE RequestComponents
  <2>1. PICK r \in current : /\ Withdraw({r} \cup Family[r])
                            /\ queue' = queue \o WantedFor(r)
                            /\ pending' = pending \cup Range(WantedFor(r))
    BY <1>9 DEF RequestComponents
  <2>2. /\ UNCHANGED <<hand, failures, checked, current>>
        /\ cpc' \in {"off", "take", "ending"} => cpc \in {"off", "take", "ending"}
    BY <1>9 DEF RequestComponents, stores
  <2> DEFINE new == {key \in {r} \cup Family[r] : Missing(key)' /\ key \notin pending \cup failures}
  <2>3. IsInjective(WantedFor(r)) /\ Range(WantedFor(r)) = new
    BY <1>2, <2>1, WantedForMeaning
  <2>4. WantedFor(r) \in Seq(Keys) BY <1>2, <2>1, WantedType
  <2>5. new \cap pending = {} OBVIOUS
  <2> HIDE DEF new
  <2>6. Range(queue') = Range(queue) \cup new /\ IsInjective(queue')
    <3>1. Range(queue) \cap Range(WantedFor(r)) = {} BY <2>3, <2>5
    <3> QED BY <1>2, <2>1, <2>3, <2>4, <3>1, RangeConcat
  <2>7. QueueInv' BY <2>1, <2>2, <2>3, <2>5, <2>6
  <2>8. \A t \in checked : Cared(t) => Cared(t)'
    <3>1. \A t \in checked : {t} \cup Family[t] \subseteq Keys
      BY <1>2, KeysAssumption DEF Keys
    <3>2. \A key \in Keys : key \in {r} \cup Family[r] \/ (Missing(key)' <=> Missing(key))
      BY <2>1 DEF Withdraw, Missing
    <3>3. \A key \in {r} \cup Family[r] : Missing(key)' => key \in pending' \cup failures'
      BY <2>1, <2>2, <2>3 DEF new
    <3>4. pending \cup failures \subseteq pending' \cup failures' BY <2>1, <2>2
    <3> QED BY <2>2, <3>1, <3>2, <3>3, <3>4 DEF Cared
  <2>9. Cared(r)' BY <2>1, <2>2, <2>3 DEF new, Cared
  <2>10. \A t \in current : t = r BY <2>1 DEF RequestInv
  <2> QED BY <2>2, <2>7, <2>8, <2>9, <2>10 DEF RequestInv
<1>10. CASE Worker /\ ~RequestComponents
  <2>1. UNCHANGED component /\ checked' = checked /\ current' \subseteq current
    BY <1>10
    DEF Worker, EvaluationEnds, RefreshCheckers, RefreshObservers, WorkerLoads, Select, Skip,
        Accept, Reject, ExecutionFails, SkipComparison, ObserveSamples, Preserve, NotEvolved,
        Evolve, PublishEvolved, ReloadEvolved, Confirm, Undecided
  <2>2. ~Asking
    BY <1>10, Interruption
    DEF Asking, Worker, EvaluationEnds, RefreshCheckers, RefreshObservers, WorkerLoads, Select,
        Skip, Accept, Reject, ExecutionFails, SkipComparison, ObserveSamples, Preserve,
        NotEvolved, Evolve, PublishEvolved, ReloadEvolved, Confirm, Undecided
  <2> QED BY <1>1, <1>5, <1>10, <2>1, <2>2
<1>11. CASE ComponentThread
  <2>1. UNCHANGED worker
    BY <1>11 DEF ComponentThread, Take, ThreadEnds, Finish, GenerateChecker, NoChecker,
       GenerateObserver, NoObserver
  <2> Kept BY <1>1, <2>1 DEF RequestComponents, worker
  <2>2. CASE Take
    <3>1. UNCHANGED <<pending, failures>> BY <2>2 DEF Take
    <3>2. QueueInv'
      <4>1. CASE queue = <<>> BY <2>2, <3>1, <4>1 DEF Take
      <4>2. CASE queue # <<>>
        <5>1. hand' = {Head(queue)} /\ queue' = Tail(queue) /\ cpc' = "checker" /\ hand = {}
          BY <2>2, <4>2 DEF Take
        <5>2. /\ Range(queue) = {Head(queue)} \cup Range(queue')
              /\ Head(queue) \notin Range(queue') /\ IsInjective(queue')
          BY <1>2, <4>2, <5>1, HeadAndTail
        <5> QED BY <3>1, <5>1, <5>2
      <4> QED BY <4>1, <4>2
    <3> QED BY <1>6, <2>1, <3>1, <3>2
  <2>3. CASE Finish
    <3>1. /\ UNCHANGED versions /\ queue' = queue /\ hand' = {}
          /\ failures' = failures \cup {key \in hand : Missing(key)}
          /\ pending' = pending \ hand
      BY <2>3 DEF Finish, stores
    <3>2. \A key \in pending \cup failures : Missing(key)' => key \in pending' \cup failures'
      BY <3>1 DEF Missing
    <3>3. QueueInv' BY <3>1
    <3> QED BY <1>6, <2>1, <3>2, <3>3
  <2>4. CASE ThreadEnds \/ GenerateChecker \/ NoChecker \/ GenerateObserver \/ NoObserver
    <3>1. UNCHANGED <<hand, queue, pending, failures>>
          /\ (cpc' \in {"off", "take", "ending"} => cpc = "ending")
      BY <2>4 DEF ThreadEnds, GenerateChecker, NoChecker, GenerateObserver, NoObserver
    <3> QED BY <1>6, <2>1, <3>1
  <2> QED BY <1>11, <2>2, <2>3, <2>4 DEF ComponentThread
<1>12. ASSUME NEW id \in DOMAIN repairs, Repair(id) PROVE QueueInv' /\ RequestInv'
  <2>1. UNCHANGED worker /\ UNCHANGED component
    BY <1>12 DEF Repair, RepairStarts, RepairAsks, RepairKnown, RepairFails, RepairWrites,
       RepairPublishes, RepairReloads, RepairLoads, RepairEnds
  <2>2. Kept BY <1>1, <2>1 DEF RequestComponents, worker
  <2> QED BY <1>4, <2>1, <2>2
<1> QED BY <1>7, <1>8, <1>9, <1>10, <1>11, <1>12 DEF Next

\* Whenever a response was evaluated, each of its keys has its checker and its observer,
\* or stands once in the queue or in the thread's hand, or was given up for the run
\* (executor.request_response_components and the component thread).
THEOREM KeysAreNotLost == Spec => []KeysNotLost
<1>1. Init => QueueInv /\ RequestInv
  <2> SUFFICES ASSUME Init PROVE QueueInv /\ RequestInv OBVIOUS
  <2>1. DOMAIN <<>> = {} OBVIOUS
  <2>2. Range(<<>>) = {} /\ IsInjective(<<>>) BY <2>1 DEF Range, IsInjective
  <2> QED BY <2>2 DEF Init, QueueInv, RequestInv
<1>2. IInv /\ QueueInv /\ RequestInv /\ [Next]_vars => (QueueInv /\ RequestInv)'
  BY QueueStep
<1>3. QueueInv /\ RequestInv => KeysNotLost
  BY DEF QueueInv, RequestInv, KeysNotLost, Cared
<1> QED BY <1>1, <1>2, <1>3, Invariance, PTL DEF Spec

-----------------------------------------------------------------------------
(* Nothing is waited for but the lock                                      *)

\* The worker has a code while it evaluates one and a component while it runs or
\* publishes one; the thread has a key while it makes its components.
BusyInv ==
  /\ wpc # "idle" => current # {}
  /\ wpc \in {"run", "publish"} => running # {}
  /\ cpc \in {"checker", "observer", "finish"} => hand # {}

LEMMA BusyStep ==
  ASSUME IInv, BusyInv, [Next]_vars
  PROVE  BusyInv'
<1> USE DEF BusyInv
<1>1. CASE UNCHANGED vars BY <1>1 DEF vars, worker, component
<1>2. ASSUME NEW r \in Types, Receive(r) PROVE BusyInv'
  BY <1>2 DEF Receive, Resume, component
<1>3. CASE Worker
  <2>1. (current' = current /\ wpc # "idle") \/ EvaluationEnds
    BY <1>3, Interruption
    DEF Worker, RequestComponents, RefreshCheckers, RefreshObservers, WorkerLoads, Select, Skip,
        Accept, Reject, ExecutionFails, SkipComparison, ObserveSamples, Preserve, NotEvolved,
        Evolve, PublishEvolved, ReloadEvolved, Confirm, Undecided
  <2>2. wpc' \in {"run", "publish"} => running' # {}
    <3>1. CASE Select BY <3>1 DEF Select, Resume
    <3>2. CASE Evolve BY <3>2 DEF Evolve
    <3>3. CASE WorkerLoads BY <3>3, Interruption DEF WorkerLoads
    <3>4. CASE ~Select /\ ~Evolve /\ ~WorkerLoads
      BY <1>3, <3>4
      DEF Worker, EvaluationEnds, RequestComponents, RefreshCheckers, RefreshObservers, Skip,
          Accept, Reject, ExecutionFails, SkipComparison, ObserveSamples, Preserve, NotEvolved,
          PublishEvolved, ReloadEvolved, Confirm, Undecided, Resume
    <3> QED BY <3>1, <3>2, <3>3, <3>4
  <2>3. cpc' \in {"checker", "observer", "finish"} => cpc' = cpc /\ hand' = hand
    BY <1>3
    DEF Worker, EvaluationEnds, RequestComponents, RefreshCheckers, RefreshObservers,
        WorkerLoads, Select, Skip, Accept, Reject, ExecutionFails, SkipComparison,
        ObserveSamples, Preserve, NotEvolved, Evolve, PublishEvolved, ReloadEvolved, Confirm,
        Undecided, component
  <2> QED BY <2>1, <2>2, <2>3 DEF EvaluationEnds
<1>4. CASE ComponentThread
  BY <1>4 DEF ComponentThread, Take, ThreadEnds, Finish, GenerateChecker, NoChecker,
     GenerateObserver, NoObserver, worker
<1>5. ASSUME NEW id \in DOMAIN repairs, Repair(id) PROVE BusyInv'
  BY <1>5 DEF Repair, RepairStarts, RepairAsks, RepairKnown, RepairFails, RepairWrites,
     RepairPublishes, RepairReloads, RepairLoads, RepairEnds, worker, component
<1> QED BY <1>1, <1>2, <1>3, <1>4, <1>5 DEF Next

\* What is chosen is loaded, so it has a source.
LEMMA SelectionExists ==
  ASSUME current # {}
  PROVE  MaySelect
<1>1. PICK r \in current : TRUE OBVIOUS
<1>2. Chosen(r, Loaded(SelectedKind)) \subseteq Loaded(SelectedKind) BY DEF Chosen
<1>3. \A key \in Loaded(SelectedKind) : sources[SelectedKind][key] # {} BY DEF Loaded
<1> QED BY <1>1, <1>2, <1>3 DEF MaySelect

\* The only thing a thread ever waits for is the repair lock, and the thread that has it
\* can move: neither the worker in a response nor the component thread nor a repair thread
\* comes to a step whose code, component, version or key is missing (executor.py:2795-2914,
\* mapper.py:677-720).
THEOREM OnlyTheLockIsAwaited == Spec => []OnlyTheLock
<1>1. Init => BusyInv BY DEF Init, BusyInv
<1>2. IInv /\ BusyInv /\ [Next]_vars => BusyInv' BY BusyStep
<1>3. IInv /\ BusyInv => OnlyTheLock
  <2> SUFFICES ASSUME IInv, BusyInv PROVE OnlyTheLock OBVIOUS
  <2>1. ASSUME wpc # "idle" PROVE WorkerReady
    <3>1. current # {} /\ MaySelect BY <2>1, SelectionExists DEF BusyInv
    <3>2. wpc \in WorkerSteps /\ (agenda # <<>> => Head(agenda) \in Items)
      BY TailType DEF IInv, WorkerInv, WorkerTypes
    <3>3. wpc \in DOMAIN AfterLoad => wtodo # {} BY DEF IInv, WorkerInv, WorkerLoading
    <3>4. wpc \in {"run", "publish"} => running # {} BY DEF BusyInv
    <3> QED BY <2>1, <3>1, <3>2, <3>3, <3>4 DEF WorkerReady, WorkerSteps, Items
  <2>2. ASSUME cpc # "off" PROVE ThreadReady
    BY <2>2 DEF ThreadReady, BusyInv, IInv, ThreadTypes
  <2>3. ASSUME NEW id \in DOMAIN repairs
        PROVE  RepairReady(id) \/ (At(id, "lock") /\ \E holder \in lock : RepairReady(holder))
    <3>1. repairs[id].pc \in RepairSteps BY DEF IInv, RepairInv, RepairTypes
    <3>2. repairs[id].pc = "load" => repairs[id].todo # {} BY DEF IInv, RepairInv, RepairLoading
    <3>3. \A holder \in lock : RepairReady(holder)
      BY DEF IInv, RepairInv, LockInv, RepairReady
    <3> QED BY <3>1, <3>2, <3>3 DEF RepairReady, RepairSteps, At
  <2> QED BY <2>1, <2>2, <2>3 DEF OnlyTheLock
<1> QED BY <1>1, <1>2, <1>3, Invariance, PTL DEF Spec
=============================================================================
