-------------------------- MODULE ResponseComponents --------------------------
(***************************************************************************)
(* The checkers and observers of responses and the three kinds of threads  *)
(* that share them: the fuzz worker evaluates each response code once,     *)
(* with the components it has loaded; one thread generates the components  *)
(* that are missing; and one thread per failed source repairs it.          *)
(*                                                                         *)
(* A version is its number (the code names it id{n}), a source names who   *)
(* wrote it.  A value that may be absent is a set of at most one element.  *)
(* What a component answers is free.                                       *)
(***************************************************************************)
EXTENDS Naturals, Sequences, FiniteSets, SequencesExt

CONSTANTS
  Types,        (* response codes                                            *)
  Families,     (* family keys such as 2xx                                   *)
  Generic,      (* the key __all__, prepared before the run                  *)
  Family,       (* the family of a code, if it has one                       *)
  Prepared,     (* keys whose components exist when the run starts           *)
  Outdated,     (* <<kind, key>>: those made for another specification or    *)
                (* release; what is prepared for this run itself is not      *)
  Raw,          (* those of them whose observer is the raw hash              *)
  Persisted,    (* codes with invalid responses on disk from an earlier run  *)
  Errors,       (* the first lines of the errors of failing components       *)
  MaxFailures   (* bound: executions that fail                               *)

Keys == Types \cup Families \cup {Generic}
Kinds == {"checker", "observer"}

ASSUME KeysAssumption ==
  /\ Generic \notin Types \cup Families
  /\ Types \cap Families = {}
  /\ Family \in [Types -> SUBSET Families]
  /\ \A r \in Types : \A f, g \in Family[r] : f = g
ASSUME RunAssumption ==
  /\ Generic \in Prepared /\ Prepared \subseteq Keys
  /\ Outdated \subseteq Kinds \X (Prepared \ {Generic})
  /\ Persisted \subseteq Types /\ Raw \subseteq Prepared /\ MaxFailures \in Nat

VARIABLES
  versions,     (* producer.checkers and .observers: the names of each key   *)
  files,        (* <<kind, key, name, source>>: what the version files hold  *)
  sources,      (* executor.checker_sources and .observer_sources            *)
  quarantined,  (* mapper._quarantined_components: <<kind, key, name>>       *)
  wpc,          (* the worker                                                *)
  current,      (* the code under evaluation                                 *)
  agenda,       (* what is left to do for it                                 *)
  running,      (* the component selected or evolved: <<kind, key, source>>  *)
  wtodo,        (* versions it still has to load: <<kind, key, name>>        *)
  checked,      (* checked_request_response_pairs                            *)
  cpc,          (* the component thread                                      *)
  hand,         (* the key it works on                                       *)
  queue,        (* _response_component_queue                                 *)
  pending,      (* _response_component_pending                               *)
  failures,     (* _response_component_failures                              *)
  repairs,      (* _component_repair_pending, each with its thread: where it *)
                (* stands, the error it is for, what it has to load          *)
  rname,        (* the version the thread with the lock has written          *)
  lock,         (* who holds mapper._runtime_repair_lock                     *)
  cache,        (* mapper._runtime_repair_cache:                             *)
                (* <<kind, source, error, repaired>>                         *)
  failed        (* bound: executions that failed                             *)

stores == <<versions, files, sources, quarantined>>
worker == <<wpc, current, agenda, running, wtodo, checked>>
component == <<cpc, hand, queue, pending, failures>>
repair == <<repairs, rname, lock, cache>>
vars == <<stores, worker, component, repair, failed>>

Authors == {"generated", "raw", "evolved", "repaired", "outdated"}
Sources == Authors \X Keys \X Nat

-----------------------------------------------------------------------------
(* Versions, files and what is loaded                                      *)

Latest(kind, key) == IF versions[kind][key] = <<>> THEN {} ELSE {Last(versions[kind][key])}
Missing(key) == \E kind \in Kinds : versions[kind][key] = <<>>

\* mapper.equip_checkers and equip_observers.
Equipped(kind) == {key \in Keys : Latest(kind, key) # {}}
Equipment(kind) == UNION {{<<kind, key, name>> : name \in Latest(kind, key)} : key \in Keys}
Loaded(kind) == {key \in Keys : sources[kind][key] # {}}

FileOf(kind, key, name) ==
  {f[4] : f \in {g \in files : g[1] = kind /\ g[2] = key /\ g[3] = name}}

\* _response_component_metadata_current: state field, contract and specification are
\* written down with a version.
IsOutdated(kind, key) ==
  \E name \in Latest(kind, key) : \E source \in FileOf(kind, key, name) : source[1] = "outdated"

Write(kind, key, name, source) ==
  files' = {f \in files : <<f[1], f[2], f[3]>> # <<kind, key, name>>}
             \cup {<<kind, key, name, source>>}

Publish(kind, key, name) ==
  versions' = [versions EXCEPT ![kind][key] = Append(@, name)]

\* Exact, then family, then generic, among the components that are loaded.
Chosen(r, keys) ==
  IF r \in keys THEN {r}
  ELSE IF Family[r] \cap keys # {} THEN Family[r] \cap keys ELSE {Generic} \cap keys

\* load_checkers and load_observers start from an empty map and then read one
\* file after the other, in the order of the equipment.
NextOf(todo) == CHOOSE v \in todo : TRUE
StartLoad(kind) == sources' = [sources EXCEPT ![kind] = [key \in Keys |-> {}]]
LoadOne(v) == sources' = [sources EXCEPT ![v[1]][v[2]] = FileOf(v[1], v[2], v[3])]

-----------------------------------------------------------------------------
(* The worker: one response code                                           *)

\* The evaluation at hand is the head of the agenda; it may put others first.
Rest == Tail(agenda)
Resume(rest) == wpc' = "next" /\ agenda' = rest

\* check_response_during_fuzzing: the code is marked before it is evaluated.
Receive(r) ==
  /\ wpc = "idle"
  /\ r \notin checked
  /\ checked' = checked \cup {r}
  /\ current' = {r}
  /\ Resume(<<"observe", "evolve", "observe", "check">>)
  /\ UNCHANGED <<stores, running, wtodo, component, repair, failed>>

EvaluationEnds ==
  /\ wpc = "next"
  /\ agenda = <<>>
  /\ wpc' = "idle"
  /\ current' = {}
  /\ UNCHANGED <<stores, agenda, running, wtodo, checked, component, repair, failed>>

\* request_response_components: what is outdated is withdrawn, also from a key under
\* way or given up; what is missing then is queued, and the thread started unless it
\* is alive.
Withdraw(keys) ==
  versions' = [kind \in Kinds |-> [key \in Keys |->
    IF key \in keys /\ IsOutdated(kind, key) THEN <<>> ELSE versions[kind][key]]]
\* Mutant of Wanted: a key under way is queued again.
WantedAgain(key) == IF Missing(key)' /\ key \notin failures THEN <<key>> ELSE <<>>
Wanted(key) ==
  IF Missing(key)' /\ key \notin pending \cup failures THEN <<key>> ELSE <<>>
WantedFor(r) ==
  Wanted(r) \o (IF Family[r] = {} THEN <<>> ELSE Wanted(CHOOSE f \in Family[r] : TRUE))
RequestComponents ==
  /\ wpc = "next"
  /\ agenda # <<>> /\ Head(agenda) \in {"observe", "check"}
  /\ \E r \in current :
       /\ Withdraw({r} \cup Family[r])
       /\ queue' = queue \o WantedFor(r)
       /\ pending' = pending \cup Range(WantedFor(r))
  /\ cpc' = IF pending' # {} /\ cpc = "off" THEN "take" ELSE cpc
  /\ wpc' = "checkers"
  /\ UNCHANGED <<files, sources, quarantined, current, agenda, running, wtodo, checked,
                 hand, failures, repair, failed>>

\* What a background thread has published since is loaded only when keys differ,
\* not when versions do.
RefreshCheckers ==
  /\ wpc = "checkers"
  /\ IF Equipped("checker") = Loaded("checker")
     THEN wpc' = "observers" /\ UNCHANGED <<sources, wtodo>>
     ELSE /\ wpc' = "loadCheckers"
          /\ wtodo' = Equipment("checker")
          /\ StartLoad("checker")
  /\ UNCHANGED <<versions, files, quarantined, current, agenda, running, checked,
                 component, repair, failed>>

\* An exact observer that became available is first applied to what earlier
\* runs saved (_reobserve_persisted_invalid_responses).
Promoted(r) == r \in (Equipped("observer") \ Loaded("observer")) \cap Persisted
Interrupted == [observe |-> "selectObserver", check |-> "selectChecker"]
RefreshObservers ==
  /\ wpc = "observers"
  /\ \E r \in current :
       IF Equipped("observer") = Loaded("observer")
       THEN wpc' = "select" /\ UNCHANGED <<sources, wtodo, agenda>>
       ELSE /\ wtodo' = Equipment("observer")
            /\ StartLoad("observer")
            /\ IF Promoted(r)
               THEN /\ wpc' = "load"
                    /\ agenda' = <<"observe", Interrupted[Head(agenda)]>> \o Rest
               ELSE wpc' = "loadObservers" /\ UNCHANGED agenda
  /\ UNCHANGED <<versions, files, quarantined, current, running, checked, component,
                 repair, failed>>

AfterLoad == [loadCheckers |-> "observers", loadObservers |-> "select", load |-> "next"]
WorkerLoads ==
  /\ wpc \in DOMAIN AfterLoad
  /\ LET v == NextOf(wtodo) IN wtodo' = wtodo \ {v} /\ LoadOne(v)
  /\ wpc' = IF wtodo' = {} THEN AfterLoad[wpc] ELSE wpc
  /\ UNCHANGED <<versions, files, quarantined, current, agenda, running, checked,
                 component, repair, failed>>

SelectedKind ==
  IF Head(agenda) \in {"check", "selectChecker"} THEN "checker" ELSE "observer"
Select ==
  /\ \/ wpc = "select"
     \/ wpc = "next" /\ agenda # <<>> /\ Head(agenda) \in Range(Interrupted)
  /\ LET kind == SelectedKind IN
     \E r \in current :
       LET keys == Chosen(r, Loaded(kind)) IN
       IF keys = {}
       THEN Resume(Rest) /\ UNCHANGED running
       ELSE /\ \E key \in keys : \E source \in sources[kind][key] :
                 running' = {<<kind, key, source>>}
            /\ wpc' = "run" /\ UNCHANGED agenda
  /\ UNCHANGED <<stores, current, wtodo, checked, component, repair, failed>>

\* _response_component_is_quarantined asks for the version that is the latest
\* now, which need not be the one whose source was selected; there may be none.
SelectedIsQuarantined ==
  \E c \in running : \E name \in Latest(c[1], c[2]) : <<c[1], c[2], name>> \in quarantined
Skip ==
  /\ wpc = "run"
  /\ SelectedIsQuarantined
  /\ Resume(Rest) /\ running' = {}
  /\ UNCHANGED <<stores, current, wtodo, checked, component, repair, failed>>

Accept ==
  /\ wpc = "run"
  /\ ~SelectedIsQuarantined
  /\ Resume(Rest) /\ running' = {}
  /\ UNCHANGED <<stores, current, wtodo, checked, component, repair, failed>>

\* A rejection is reviewed, once the evaluation is over.
Reject ==
  /\ wpc = "run"
  /\ ~SelectedIsQuarantined
  /\ SelectedKind = "checker"
  /\ Resume(Rest \o <<"review">>) /\ running' = {}
  /\ UNCHANGED <<stores, current, wtodo, checked, component, repair, failed>>

\* A source whose repair is under way gets no second thread, for any error.
ExecutionFails ==
  /\ wpc = "run"
  /\ ~SelectedIsQuarantined
  /\ failed < MaxFailures
  /\ failed' = failed + 1
  /\ \E id \in running : \E error \in Errors :
       repairs' = [i \in DOMAIN repairs \cup {id} |->
         IF i \in DOMAIN repairs THEN repairs[i]
         ELSE [pc |-> "start", error |-> error, todo |-> {}]]
  /\ Resume(Rest) /\ running' = {}
  /\ UNCHANGED <<stores, current, wtodo, checked, component, rname, lock, cache>>

\* observe_response_with_evolution: nothing to compare with, unless the code has
\* an observer of its own and samples of an earlier run.
Evolvable(r) == r \in Loaded("observer") \cap Persisted
SkipComparison ==
  /\ wpc = "next"
  /\ agenda # <<>> /\ Head(agenda) = "evolve"
  /\ \E r \in current : ~Evolvable(r)
  /\ Resume(Rest)
  /\ UNCHANGED <<stores, current, running, wtodo, checked, component, repair, failed>>
ObserveSamples ==
  /\ wpc = "next"
  /\ agenda # <<>> /\ Head(agenda) = "evolve"
  /\ \E r \in current : Evolvable(r)
  /\ Resume(<<"observe", "compare">> \o Rest)
  /\ UNCHANGED <<stores, current, running, wtodo, checked, component, repair, failed>>

\* The digests agree, or the model finds the responses distinct or fails, or an
\* evolution for the same samples failed before.
Preserve ==
  /\ wpc = "next"
  /\ agenda # <<>> /\ Head(agenda) = "compare"
  /\ Resume(Rest)
  /\ UNCHANGED <<stores, current, running, wtodo, checked, component, repair, failed>>

\* No candidate of the evolution held, or the model saw nothing to change.
NotEvolved ==
  /\ wpc = "next"
  /\ agenda # <<>> /\ Head(agenda) \in {"compare", "review"}
  /\ Resume(Rest)
  /\ UNCHANGED <<stores, current, running, wtodo, checked, component, repair, failed>>

\* What evolve_observer and evolve_checker evolve: the observer of the code
\* itself; the checker of the code, or the generic one, whichever rejected.
Evolved(item, r) ==
  IF item = "compare" THEN {<<"observer", r>>}
  ELSE IF versions["checker"][r] # <<>> THEN {<<"checker", r>>} ELSE {<<"checker", Generic>>}
NextName(names) == Max(Range(names)) + 1
Evolve ==
  /\ wpc = "next"
  /\ agenda # <<>> /\ Head(agenda) \in {"compare", "review"}
  /\ \E r \in current : \E target \in Evolved(Head(agenda), r) :
       /\ versions[target[1]][target[2]] # <<>>
       /\ LET name == NextName(versions[target[1]][target[2]]) IN
          /\ Write(target[1], target[2], name, <<"evolved", target[2], name>>)
          /\ running' = {<<target[1], target[2], <<"evolved", target[2], name>>>>}
  /\ wpc' = "publish"
  /\ UNCHANGED <<versions, sources, quarantined, current, agenda, wtodo, checked,
                 component, repair, failed>>
PublishEvolved ==
  /\ wpc = "publish"
  /\ \E c \in running : Publish(c[1], c[2], c[3][3])
  /\ running' = {}
  /\ wpc' = "reload"
  /\ UNCHANGED <<files, sources, quarantined, current, agenda, wtodo, checked, component,
                 repair, failed>>

\* After an observer has evolved, samples and response are observed again.
ReloadEvolved ==
  /\ wpc = "reload"
  /\ LET kind == IF Head(agenda) = "compare" THEN "observer" ELSE "checker" IN
     wtodo' = Equipment(kind) /\ StartLoad(kind)
  /\ wpc' = "load"
  /\ agenda' = IF Head(agenda) = "compare" THEN <<"observe", "observe">> \o Rest ELSE Rest
  /\ UNCHANGED <<versions, files, quarantined, current, running, checked, component,
                 repair, failed>>

\* handle_nonconforming_response without evolution: a confirmed violation is
\* saved under its observation, an uncertain one is dropped.
Confirm ==
  /\ wpc = "next"
  /\ agenda # <<>> /\ Head(agenda) = "review"
  /\ Resume(<<"observe">>)
  /\ UNCHANGED <<stores, current, running, wtodo, checked, component, repair, failed>>
Undecided ==
  /\ wpc = "next"
  /\ agenda # <<>> /\ Head(agenda) = "review"
  /\ Resume(Rest)
  /\ UNCHANGED <<stores, current, running, wtodo, checked, component, repair, failed>>

-----------------------------------------------------------------------------
(* The component thread                                                    *)

Take ==
  /\ cpc = "take"
  /\ IF queue = <<>>
     THEN cpc' = "ending" /\ UNCHANGED <<queue, hand>>
     ELSE cpc' = "checker" /\ hand' = {Head(queue)} /\ queue' = Tail(queue)
  /\ UNCHANGED <<stores, worker, pending, failures, repair, failed>>

\* Between the look at the queue and the end of the thread it counts as alive.
ThreadEnds ==
  /\ cpc = "ending"
  /\ cpc' = "off"
  /\ UNCHANGED <<stores, worker, hand, queue, pending, failures, repair, failed>>

\* checker_gen and observer_gen write id0 of a key that has none.
Generated(kind, key, source) == Write(kind, key, 0, source) /\ Publish(kind, key, 0)
HandHas(kind) == \E key \in hand : versions[kind][key] # <<>>

GenerateChecker ==
  /\ cpc = "checker"
  /\ ~HandHas("checker")
  /\ \E key \in hand : Generated("checker", key, <<"generated", key, 0>>)
  /\ cpc' = "observer"
  /\ UNCHANGED <<sources, quarantined, worker, hand, queue, pending, failures, repair,
                 failed>>

\* No candidate was valid, or generation raised: then no observer is tried.
NoChecker ==
  /\ cpc = "checker"
  /\ cpc' \in IF HandHas("checker") THEN {"observer"} ELSE {"observer", "finish"}
  /\ UNCHANGED <<stores, worker, hand, queue, pending, failures, repair, failed>>

\* Without a valid candidate the observer is the raw hash, the same source for
\* every key.
RawSource == <<"raw", Generic, 0>>
GenerateObserver ==
  /\ cpc = "observer"
  /\ ~HandHas("observer")
  /\ \E key \in hand : \E source \in {<<"generated", key, 0>>, RawSource} :
       Generated("observer", key, source)
  /\ cpc' = "finish"
  /\ UNCHANGED <<sources, quarantined, worker, hand, queue, pending, failures, repair,
                 failed>>
NoObserver ==
  /\ cpc = "observer"
  /\ cpc' = "finish"
  /\ UNCHANGED <<stores, worker, hand, queue, pending, failures, repair, failed>>

\* A key that is still incomplete is given up for the run.
\* Mutant of Finish: the failure is not recorded.
FinishForgets ==
  /\ cpc = "finish"
  /\ pending' = pending \ hand
  /\ hand' = {}
  /\ cpc' = "take"
  /\ UNCHANGED <<stores, worker, queue, failures, repair, failed>>
Finish ==
  /\ cpc = "finish"
  /\ failures' = failures \cup {key \in hand : Missing(key)}
  /\ pending' = pending \ hand
  /\ hand' = {}
  /\ cpc' = "take"
  /\ UNCHANGED <<stores, worker, queue, repair, failed>>

-----------------------------------------------------------------------------
(* A repair thread                                                         *)

At(id, pc) == id \in DOMAIN repairs /\ repairs[id].pc = pc
Goto(id, pc) == repairs' = [repairs EXCEPT ![id].pc = pc]

\* repair_in_background names the version that is the latest by now, or "unknown",
\* which no one looks up.
RepairStarts(id) ==
  /\ At(id, "start")
  /\ quarantined' = quarantined \cup {<<id[1], id[2], name>> : name \in Latest(id[1], id[2])}
  /\ Goto(id, "lock")
  /\ UNCHANGED <<versions, files, sources, worker, component, rname, lock, cache, failed>>

\* repair_runtime_component asks the model with the lock held, unless the same
\* source failed with the same error before, for whichever key.
Answers(id) == {a \in cache : a[1] = id[1] /\ a[2] = id[3] /\ a[3] = repairs[id].error}
\* Mutant of RepairAsks: the cache is not looked at again once the lock is held.
RepairAsksAgain(id) ==
  /\ At(id, "lock")
  /\ lock = {}
  /\ lock' = {id}
  /\ Goto(id, "ask")
  /\ UNCHANGED <<stores, worker, component, rname, cache, failed>>
RepairAsks(id) ==
  /\ At(id, "lock")
  /\ lock = {}
  /\ Answers(id) = {}
  /\ lock' = {id}
  /\ Goto(id, "ask")
  /\ UNCHANGED <<stores, worker, component, rname, cache, failed>>
RepairKnown(id) ==
  /\ At(id, "lock")
  /\ lock = {}
  /\ \E a \in Answers(id) : Goto(id, IF a[4] THEN "reload" ELSE "end")
  /\ UNCHANGED <<stores, worker, component, rname, lock, cache, failed>>

\* Mutant of RepairFails: a failure leaves the lock held.
RepairFailsLocked(id) ==
  /\ At(id, "ask")
  /\ cache' = cache \cup {<<id[1], id[3], repairs[id].error, FALSE>>}
  /\ Goto(id, "end")
  /\ UNCHANGED <<stores, worker, component, rname, lock, failed>>
RepairFails(id) ==
  /\ At(id, "ask")
  /\ cache' = cache \cup {<<id[1], id[3], repairs[id].error, FALSE>>}
  /\ lock' = {}
  /\ Goto(id, "end")
  /\ UNCHANGED <<stores, worker, component, rname, failed>>

\* _publish_runtime_component names the version by the length of the list.
RepairWrites(id) ==
  /\ At(id, "ask")
  /\ LET name == Len(versions[id[1]][id[2]]) IN
     /\ rname' = name
     /\ Write(id[1], id[2], name, <<"repaired", id[2], name>>)
  /\ Goto(id, "publish")
  /\ UNCHANGED <<versions, sources, quarantined, worker, component, lock, cache, failed>>
RepairPublishes(id) ==
  /\ At(id, "publish")
  /\ Publish(id[1], id[2], rname)
  /\ cache' = cache \cup {<<id[1], id[3], repairs[id].error, TRUE>>}
  /\ lock' = {}
  /\ Goto(id, "reload")
  /\ UNCHANGED <<files, sources, quarantined, worker, component, rname, failed>>

RepairReloads(id) ==
  /\ At(id, "reload")
  /\ repairs' = [repairs EXCEPT ![id].pc = "load", ![id].todo = Equipment(id[1])]
  /\ StartLoad(id[1])
  /\ UNCHANGED <<versions, files, quarantined, worker, component, rname, lock, cache,
                 failed>>
RepairLoads(id) ==
  /\ At(id, "load")
  /\ LET v == NextOf(repairs[id].todo)
         rest == repairs[id].todo \ {v}
     IN  /\ repairs' = [repairs EXCEPT ![id].pc = IF rest = {} THEN "end" ELSE "load",
                                        ![id].todo = rest]
         /\ LoadOne(v)
  /\ UNCHANGED <<versions, files, quarantined, worker, component, rname, lock, cache,
                 failed>>

\* The finally clause forgets the repair, so that the same source may fail anew.
RepairEnds(id) ==
  /\ At(id, "end")
  /\ repairs' = [i \in DOMAIN repairs \ {id} |-> repairs[i]]
  /\ UNCHANGED <<stores, worker, component, rname, lock, cache, failed>>

-----------------------------------------------------------------------------
(* The specification                                                       *)

\* Components of an earlier run are loaded whatever their metadata says; only those
\* that are prepared for this run are made anew where they are outdated.
PreparedSource(kind, key) ==
  IF <<kind, key>> \in Outdated THEN <<"outdated", key, 0>>
  ELSE IF kind = "observer" /\ key \in Raw THEN RawSource
  ELSE <<"generated", key, 0>>
Init ==
  /\ versions = [kind \in Kinds |-> [key \in Keys |-> IF key \in Prepared THEN <<0>> ELSE <<>>]]
  /\ files = {<<kind, key, 0, PreparedSource(kind, key)>> : kind \in Kinds, key \in Prepared}
  /\ sources = [kind \in Kinds |->
       [key \in Keys |-> IF key \in Prepared THEN {PreparedSource(kind, key)} ELSE {}]]
  /\ quarantined = {}
  /\ wpc = "idle" /\ current = {} /\ agenda = <<>> /\ running = {} /\ wtodo = {}
  /\ checked = {}
  /\ cpc = "off" /\ hand = {} /\ queue = <<>> /\ pending = {} /\ failures = {}
  /\ repairs = <<>> /\ rname = 0 /\ lock = {} /\ cache = {}
  /\ failed = 0

Worker ==
  \/ EvaluationEnds \/ RequestComponents
  \/ RefreshCheckers \/ RefreshObservers \/ WorkerLoads \/ Select \/ Skip \/ Accept \/ Reject \/ ExecutionFails
  \/ SkipComparison \/ ObserveSamples \/ Preserve \/ NotEvolved
  \/ Evolve \/ PublishEvolved \/ ReloadEvolved \/ Confirm \/ Undecided
ComponentThread ==
  \/ Take \/ ThreadEnds \/ Finish
  \/ GenerateChecker \/ NoChecker \/ GenerateObserver \/ NoObserver
Repair(id) ==
  \/ RepairStarts(id) \/ RepairAsks(id) \/ RepairKnown(id)
  \/ RepairFails(id) \/ RepairWrites(id) \/ RepairPublishes(id)
  \/ RepairReloads(id) \/ RepairLoads(id) \/ RepairEnds(id)
Next ==
  \/ \E r \in Types : Receive(r)
  \/ Worker
  \/ ComponentThread
  \/ \E id \in DOMAIN repairs : Repair(id)

Spec == Init /\ [][Next]_vars

-----------------------------------------------------------------------------
(* Properties                                                              *)

WorkerSteps ==
  {"idle", "next", "checkers", "observers", "select", "run",
   "publish", "reload"} \cup DOMAIN AfterLoad
RepairSteps == {"start", "lock", "ask", "publish", "reload", "load", "end"}
Items == {"observe", "evolve", "check", "compare", "review"} \cup Range(Interrupted)
Named == Kinds \X Keys \X Nat
Identified == Kinds \X Keys \X Sources

\* Every variable stays in the values its code can hold.
TypeOK ==
  /\ versions \in [Kinds -> [Keys -> Seq(Nat)]]
  /\ files \subseteq Kinds \X Keys \X Nat \X Sources
  /\ sources \in [Kinds -> [Keys -> SUBSET Sources]]
  /\ quarantined \subseteq Named
  /\ wpc \in WorkerSteps /\ current \subseteq Types /\ agenda \in Seq(Items)
  /\ running \subseteq Identified /\ wtodo \subseteq Named /\ checked \subseteq Types
  /\ cpc \in {"off", "take", "checker", "observer", "finish", "ending"}
  /\ hand \subseteq Keys /\ queue \in Seq(Keys)
  /\ pending \subseteq Keys /\ failures \subseteq Keys
  /\ DOMAIN repairs \subseteq Identified
  /\ \A id \in DOMAIN repairs :
       repairs[id] \in [pc : RepairSteps, error : Errors, todo : SUBSET Named]
  /\ rname \in Nat /\ lock \subseteq DOMAIN repairs
  /\ cache \subseteq Kinds \X Sources \X Errors \X BOOLEAN
  /\ failed \in Nat

\* A key that is missing is on its way in exactly one place or was given up:
\* request_response_components and the component thread share the key sets under
\* the lock, but the queue and the generation are outside it.
KeysNotLost ==
  /\ pending = Range(queue) \cup hand
  /\ hand \cap Range(queue) = {} /\ IsInjective(queue)
  /\ \A r \in checked \ current : \A key \in {r} \cup Family[r] :
       Missing(key) => key \in pending \cup failures

\* mapper.py:677, "Deduplicate a runtime repair": whichever threads report a
\* source, and for whichever keys, one of them at a time asks the model, and
\* never for a source and an error that it was asked about before.
RepairedOnce ==
  \A id \in DOMAIN repairs :
    At(id, "ask") \/ At(id, "publish") => lock = {id} /\ Answers(id) = {}

\* No thread waits for another forever: while the worker is in a response, or a
\* background thread is alive, one of them can move.
Quiet == wpc = "idle" /\ cpc = "off" /\ DOMAIN repairs = {}
NeverStuck ==
  Quiet \/ ENABLED (Worker \/ ComponentThread \/ \E id \in DOMAIN repairs : Repair(id))

\* What a step of each thread needs where the thread stands: a code to evaluate, a
\* component that was selected, versions to load, a key to work on.
MaySelect ==
  \E r \in current :
    LET keys == Chosen(r, Loaded(SelectedKind)) IN
    keys = {} \/ \E key \in keys : sources[SelectedKind][key] # {}
WorkerReady ==
  \/ wpc = "next" /\ agenda = <<>>
  \/ /\ wpc = "next" /\ agenda # <<>>
     /\ \/ Head(agenda) \in {"observe", "check", "evolve"} /\ current # {}
        \/ Head(agenda) \in Range(Interrupted) /\ MaySelect
        \/ Head(agenda) \in {"compare", "review"}
  \/ wpc \in {"checkers", "reload"}
  \/ wpc = "observers" /\ current # {}
  \/ wpc \in DOMAIN AfterLoad /\ wtodo # {}
  \/ wpc = "select" /\ MaySelect
  \/ wpc \in {"run", "publish"} /\ running # {}
ThreadReady ==
  \/ cpc \in {"take", "ending"}
  \/ cpc \in {"checker", "observer", "finish"} /\ hand # {}
RepairReady(id) ==
  \/ \E pc \in {"start", "ask", "publish", "reload", "end"} : At(id, pc)
  \/ At(id, "load") /\ repairs[id].todo # {}
  \/ At(id, "lock") /\ lock = {}

\* The only thing a thread waits for is the repair lock, and the thread that has it can
\* move: NeverStuck for each thread by itself, said without ENABLED.
OnlyTheLock ==
  /\ wpc # "idle" => WorkerReady
  /\ cpc # "off" => ThreadReady
  /\ \A id \in DOMAIN repairs :
       RepairReady(id) \/ (At(id, "lock") /\ \E holder \in lock : RepairReady(holder))

\* The conditions above are those of the actions.
ReadyMeansEnabled ==
  /\ WorkerReady <=> wpc # "idle" /\ ENABLED Worker
  /\ ThreadReady <=> ENABLED ComponentThread
  /\ \A id \in DOMAIN repairs : RepairReady(id) <=> ENABLED Repair(id)

\* executor.py:2793, "Load the latest generated checker for each response type."
\* Once every load is over, what is loaded of a key is its latest version.
Settled == wpc \notin {"publish", "reload"} \cup DOMAIN AfterLoad /\ DOMAIN repairs = {}
LoadedIsLatest ==
  Settled => \A kind \in Kinds : \A key \in Loaded(kind) :
    \A name \in Latest(kind, key) : sources[kind][key] = FileOf(kind, key, name)
=============================================================================
