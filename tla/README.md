# Voltron in TLA+

Voltron fuzzes network servers. It learns a Mealy machine of the target with
L*, lets a language model write and improve the components that build requests
and read responses, and then schedules fuzzing over the learned states. This
directory models its control: who may stop a run, in which order things happen,
what a run reports, and what its data structures promise. `PROJECT.json` ties
each definition to the source lines it stands for.

## The system

| Component | State it keeps | Operations | Talks to |
| --- | --- | --- | --- |
| Run control (`run_controller.py`, stop and phase parts of `analyzer.py`, `fuzz.py`) | deadline, `_closed`, `_deadline_requested`, stop event, stop reason, phase metrics, run status | `request_stop`, `should_stop`, timer, `begin_phase`/`end_phase`, `_finalize_run_status`, `cleanup`, SIGINT handler | every thread, through the stop event and `analyzer.lock` |
| SUT lifecycle (`executor.py`) | process, socket, `analyzer.sut_proc`, attempt counter | launch, register, readiness, retry, stop | run control, monitor |
| Conversations and crashes (`executor.py`) | requests, data, states, crash index | send, receive, parse, record, deduplicate | parser, mapper, analyzer |
| Observation table (`mlstar.py`, `mem_oracle.py`) | S, E, T, no-growth tracker | fill, close, make consistent, build hypothesis | executor, run control |
| Learning loop (`fuzz.py`, `partial_guidance.py`) | hypotheses, captured equipment, `try_limit`, threshold count, outcome | iterate, evolve, accept, retain partial guidance | table, synthesizer, mapper |
| Scheduler (`berserker.py`, `seed_retention.py`, `offline_mutator.py`) | state statistics, seeds, rewards | select, build, execute, reward, retain | mapper, executor |
| Mapper (`mapper.py`) | active generators and parser, quarantine, repair cache, dynamic worker | build, parse, repair | synthesizer, child process |
| Response checkers and observers (`executor.py`, `synthesizer.py`, `mapper.py`) | loaded sources, evaluated codes, queue and key sets of missing components | evaluate, generate, evolve, repair, load | worker, component thread, repair threads |
| Synthesizer (`synthesizer.py`) | component versions, index files, sources | load or make before a run, generate, evolve, mutate | model client, mapper |
| Model client (`llm/`) | usage counters, incremental contexts | call, retry, validate, time out | run control, analyzer |
| Metrics and snapshots (`analyzer.py`) | counters, snapshot sequence | record, write | all |
| Bundles and seeds (`learning_bundle.py`, `aflnet_seeds.py`) | archive, manifest | export, verify, import | file system |
| RFC parser (`rfcparser/`) | section trees, message types and rules, description files | classify, collect, annotate, describe; load what an earlier run left | model client, file system |
| Web manager (`web/app.py`) | run table, processes | start, watch, stop | fuzzer processes |

What is hard in it: five threads, a timer and a signal handler share a stop
event, an unlocked stop reason and the phase metrics; the deadline may strike in
any of them; an interrupt may leave the main thread's `finally` clause half done;
the SUT process is started and ended by one thread and terminated by another; a
background thread books usage on phases that are already closed; the worker, the
component thread and a thread per failing component read and publish component
versions, each under another lock or none; and a run starts from files that an
earlier run, or an older release, left in any state. `PROJECT.json`
lists the hazards with their lines and the properties that cover them.

What makes each part correct:

* run control: a stop has one reason, which is never replaced; the event is
  raised exactly when there is one; the deadline is never lost; exit code 0 is
  earned; every thread comes to its end.
* SUT lifecycle: a live process can be found by whoever has to end it; retries
  are bounded and end with the run.
* conversations: the response at a position answers the request at it.
* observation table: the table is full when it is read, closing it ends, and the
  hypothesis agrees with it.
* learning loop: the model in use and the components in use belong together.
* scheduler: what is credited to a state went through that state; what is counted is
  kept; a round comes to its end.
* response components: a missing one is generated or given up, once; a failing one is
  repaired once; no thread waits forever.
* preparation: what is reused belongs to what is made; what was paid for survives.

## Modules

`StopLatch` is the abstract specification of stopping: a reason written once and
an event raised only for a reason. It is 2 variables and 2 actions.

`RunLifecycle` is one run of `Fuzzer.fuzz`, from `RunController.start` to the end
of the process. `pc` holds the position of each thread: the main thread (`fuzz`,
its `except` and `finally` clauses, `cleanup`, the `atexit` call), the worker
(`state_fuzz`, `model_learning`, `berserker_fuzz`), the deadline timer, the UI
loop, the response component thread, and the SIGINT handler, which runs on the
main thread while that stands still. `call` holds the stop request a thread is
inside of: `controller` before the locked region of `RunController.request_stop`,
`reason` before the locked region of `Analyzer.request_stop`, `event` before
`stop_event.set()`. So a thread may be preempted at each of these points, and the
other variables keep the names they have in the code:

| Variable | Code |
| --- | --- |
| `stopEvent`, `stopReason` | `Fuzzer.stop_event`, `analyzer.stop_reason` |
| `closed`, `deadlineRequested` | `RunController._closed`, `_deadline_requested` |
| `stage`, `activePhase`, `status`, `written` | `analyzer.stage`, `active_phase`, `phase_metrics[p]['status']`, `['written']` |
| `runStatus`, `exitCode`, `cleanupDone` | `analyzer.run_status`, the result of `_finalize_run_status`, `_cleanup_done` |
| `wStatus`, `raising`, `workerFailed` | `model_phase_status` / `fuzz_phase_status`, an exception on its way up, `worker_failure` |
| `itx`, `attempt`, `sutAlive`, `sutReg` | the position in `_interact_once`, `lifecycle_attempt`, the process, `analyzer.sut_proc` |

One action is a locked region or one access to an unlocked shared variable. What
an interaction exchanges, how a table is filled and how components evolve are
choices among their outcomes (return, raise, stop). The clock is one flag,
`expired`, for `time.monotonic` and `time.time` alike. The operators whose
comment begins with "Mutant of" are broken variants of the action below them;
they show that the properties notice, and no specification uses them.

`MCRunLifecycle` is the root module of the runs and adds the two statements of
the repository that the code does not keep. `RunLifecycleProofs` has the proofs. The
other `MC` modules give constants their values; `MCLearningLoop` and `MCResponseComponents`
have a bound (`SecondIsNotStopped`, `FewVersions`), `MCPreparation` two statements of its own.

`ObservationTable` is one learning iteration, `MealyLstar.__init__` and `run`. `S`,
`E` and `T` are those of `ObTable`; `T` is one function of pairs where the code
nests two dictionaries. `phase` says which method runs, `todo` which entries the
loop of `_fill_table` has left, in any order, because Python walks sets. A
membership query is one step: the operators `ReplyAt`, `Sent` and `Answer` are the
target (external), and `Recordings` is what the oracle and the executor make of a
conversation with it, a late answer or a repeated crash included. `reached` is the
no-growth threshold, which may be reached by any query. `Hypothesis` is the
machine `build_hypothesis` returns, with rows for states; `Probes` are the words it is
compared with its target on. `MCObservationTable` names the targets of the run.

`Conversation` is the loop of `Executor._interact_once` and what it records. `pc`
stands at the greeting, the head of the loop, before `net_send`, before `net_recv`
returns, and after the loop; the target (`proc`) and a stop may change between any
two of them. `states` is `req_seq` and `res_seq`, which `add_state` appends to
together, `content` is `Conversation.content`, and requests are named by their
position, so that a model value never stands for a message. `crashIndex` is
`Executor.crash_testcases`, which outlives a conversation; each request type has
one message, as the mapper's cache gives it during learning.

`LearningLoop` is `model_learning` with the beginning and the end of `state_fuzz`
around it, over the files that outlive a process. `pc` names the statement the loop
stands at: `query` while `MealyLstar` runs, `stopping` in the handler of
`ModelLearningStopped`, `retry` and `relearn` in that of the threshold, `save` and
`saveRetried` between the two files of `_finalize_best_hypothesis`. A component
version is a number, which stands for its name `id{n}`; `generators`, `quarantined`,
`pool`, `curParser` and `loaded` are the mapper's lists, its quarantine, its message
cache, its parser, and the parser the executor has loaded. `used` says whose bytes the
oracles of this iteration have seen. `models` is `h_lsit`, each entry with the equipment
captured for it; of a model only the number of its response transition types matters.
`Restart` ends the process anywhere, also between two files, and starts another.
A last-known-good version is any version that wrote a message in this process, and a
parser rolls back to any earlier one. What a table asks is left to `ObservationTable`;
the loop sees how an iteration ends and which versions were used in it.

`ResponseComponents` is the evaluation of response codes while fuzzing
(`check_response_during_fuzzing`) and the threads it shares components with. The worker
has an `agenda`, the evaluations and comparisons that are left for the code at hand:
reading it from its head is what the nested calls of the executor do. `cpc`, `hand`,
`queue`, `pending` and `failures` are the component thread and what it shares with the
worker; `repairs` has a thread per reported source, which takes `lock`, asks the model,
writes a file, publishes the version and loads it again. A version is its number, and a
source says who wrote it (`generated`, `raw`, `evolved`, `repaired`), so that two keys may
share one text, as they do with the raw hash, or that it is `outdated`: made by an earlier
release or for another specification, which `request_response_components` notices by the
metadata of the latest version. It then withdraws all versions of that key
(`Withdraw`, in the same step as the queueing), while a thread may have one of them loaded,
selected or under repair. An error is a model value; the cache of repairs is keyed by kind,
source and error, as in `repair_runtime_component`. `load_checkers` and `load_observers` are
read file by file: they empty the map first and hold no lock, and this is where threads
overtake each other. What a component answers, and whether it fails, is free.

`FuzzScheduler` is `berserker_fuzz` and `Berserker.run`. A message is its type, the part
of the sequence it was made for (`prefix`, `mutator`, `suffix`), and whether its bytes
are still `intact`; a state of the machine is its access sequence. Where the code draws
at random or by score (state, seed, option, what is mutated), every outcome is possible,
and the answers of the target are any: a greeting or none, and any replies; how an exchange
ends abnormally is recorded by the code but neither counted nor looked at here. An exchange
that raises has counted what it got and fails the phase (`InteractFails`). `energy` and `attempts` are the counters of the
code; `todo` is the traffic replayed before the first round. A round chooses a state, a
seed or a dependency walk (`head`, `walk`), the part to mutate (`middle`), the order of
both, the suffix and what is mutated on the wire (`offline`), credits the state
(`judge`) and saves the conversation (`retain`), comparing the counters of the analyzer
before and after the exchange, as the code does; `mutate` is the mutation of generators
between two runs. `depends` is the dependency map; only what has a generator is read of it.

`SpecificationAnalysis` is `AsyncRFCParser.run`, and `Preparation` extends it with
`AsyncProducer.run`: together `Fuzzer.module_init`, over the files it reads and writes.
A file is `absent`, `torn` (opened with `'w'` and not closed, or unreadable), `stale`
(readable, but it fails the check of this release) or `whole`,
and `of` says which message types it is about: contents are compared by that alone. Each
file is opened in one step and finished in another, `Restart` ends the run between any
two steps and starts another over what is there, and the first run finds nothing or what
an older release left (`Legacy`). A stage has the name of the file it makes; `pending`
and `tries` are the tasks of `asyncio.gather` that are not done and their attempts, in
any order. What the model answers is any set of `Named`, any label, any relation.

## Runs

| Run | Question | Bounds |
| --- | --- | --- |
| `lifecycle_safety` | do the safety properties hold in every interleaving? | all three modes; SIGINT, a crashing UI and component calls may each happen; 2 lifecycle attempts |
| `lifecycle_liveness` | does the worker end once the event is up, and does the process end? | learning and fuzzing; SIGINT; 1 attempt |
| `lifecycle_deadline_terminal` | does no fuzzing phase follow a learning loop stopped by the deadline? (violated) | no disturbance |
| `table_safety` | is the table right, and full when read; does the iteration end, and succeed where nothing disturbs it; is the hypothesis the target? | the machines of 2 states, 2 requests and the replies x, y, TIMEOUT up to the names of these (216), one of 2 states that answers up to 4 times too late, one of 3 states that closes the connection, and one that crashes, any of its crashes known from before; words of up to 5 requests |
| `conversation_safety` | are the records of a conversation in order, and do they end where the target did? | 2 request types, 3 requests, 2 conversations |
| `conversation_pairs` | do request, response and their bytes belong together? (violated) | 2 requests, 1 conversation |
| `learning_safety` | does learning end with its best model, and do model, generators, guidance and files belong together? | 1 request type, 2 versions of its generator and of the parser, 2 tries, 1 threshold retry, 2 processes, of which the second is not stopped from outside |
| `components_safety` | is no key lost or queued twice, no source repaired twice for one error, no thread stuck? | 1 code of 1 family, and the generic key; the checker of the code and the observer of the family outdated; 2 errors, which are alike (`ErrorsAlike`); 2 failing executions; a key that has a third version is not followed further |
| `components_latest` | is the latest version loaded once every load is over? (violated) | the same, nothing outdated, 1 failing execution |
| `scheduler_safety` | is what is credited, counted and ordered by the scheduler so in every round; does a run of rounds end? | 3 requests, one of them without a generator; a machine of 2 states; 3 dependency maps; random parts, suffixes and mutated parts of at most 1 request; a greeting and at most 1 reply counted in an exchange; energy 1, 1 round of mutation |
| `scheduler_isolated` | does a request without a generator leave the phase alive? (violated) | the same |
| `preparation_safety` | do the results of interrupted runs fit together, is nothing paid for lost, does a run that is left alone end? | 2 documents of 1 section; 2 request types, 1 of them from an older release; the model names both or none; no response types or the SMTP catalog; 2 attempts, repairs and retries; 2 runs |

Two attempts show both a retry and giving up; a third repeats the second. Each
thread exists once in the code, so no other number is bounded: the state space is
finite because the loops of the worker keep no counters. SIGINT may happen once,
because the handler ignores it from then on. The liveness run leaves out the two
disturbances that add no step the main thread, the worker or the timer waits for.

The tables need two requests and two states for a row to split, and three states
for a second round of closing; three late answers are what one entry takes to be
given up, and a fourth can leave rows that no suffix tells apart. The target that crashes shows what a crash leaves of the table. Two
conversations show what the crash index carries over; three
requests give a crash a request before and a request after it.

In the learning loop one type is enough for versions to differ between a model and what
follows it, since no property relates two types; with two tries a worse model can be
followed by another, by a threshold or by a retry; two model qualities tell better from
worse; the second process reads what the first one left, stopped or not
(`SecondIsNotStopped`; what a stop does to a process is seen in the first). `try_limit`
is 3 and the retry limit 3 in the code; the proofs hold for all of them.

One code and its family are all that one evaluation reaches besides the generic key, and
three keys are enough for the queue to hold one while another is made. Two failures let
two threads wait for one lock, and a source fail again with the same error or another; codes are evaluated one after the
other, and what a second one would find is what the first one leaves for a repair thread.
An evolution or a repair adds a second version to a prepared key; a third one
(`FewVersions`) would meet the same threads again, with a longer list.

In the scheduler the three maps are the shapes a walk can meet: a chain that ends in a
loop, no dependencies, and a dependency that no generator makes. An access sequence of
two requests is the shortest in which mutation and interleaving can hit the middle; with
energy 1 a run earns more by what it discovers, and spends it. A greeting and a reply give
the two kinds of transitions there are, from `-` and from a reply; what further replies add
is more of the second kind. Random parts are up to 8 requests in the code, mutated ones up
to 42: nothing about them is compared, and one request is enough to displace another; the
proofs hold for any bound.

In the preparation two documents are needed for a tree to be made while another is old,
and two types for one run to know what the other does not. With two runs the second meets
every state the first can leave; the proofs hold for any number.

The safety properties of the lifecycle:

* `StopIsALatch`: the run implements `StopLatch`.
* `DeadlineDelivered`: the thread that set `_deadline_requested` raised the event
  or is about to; all others rely on it.
* `NeverUnclassified`: no way out of `fuzz` leaves `_finalize_run_status` without
  a reason or an expired clock.
* `SuccessIsEarned`: exit code 0 means a finished worker that did not fail.
* `SutReachable`: the only moment a live SUT process is unknown to
  `analyzer.sut_proc` is between `Popen` and the assignment after it.
* `PhaseOpenWhileActive`: time and usage are booked on an open metric.
* `PhaseVerdicts`: phase statuses agree with the reason of the run.

Liveness (`StopDrainsWorker`, `RunEnds`) assumes weak fairness of
the main thread, the handler, the worker, the timer, the stop calls of the
component thread, the UI loop once the event is up, and the passing of time. The
threads are operating system threads, every blocking call of theirs carries a
timeout (sockets, `Popen.wait`, `Event.wait`, the model client), and time passes.
Nothing is assumed of the user, of a crash of the UI or of component calls.

The properties of the table; the first two speak of a target that has not
answered too late so far (`Reliable`), the second of one that has not crashed either:

* `TableIsRight`: each entry is what the target answers to that suffix after that
  prefix, also where an abnormal reply is copied instead of asked. Where a message crashes
  that crashed before, in this iteration or an earlier one, the entry is exactly the replies
  up to the crash (`CrashLeftOut`; the code's own comment promises more, see below); no
  other entry suffers from it, although crashes decide which prefixes are dead.
* `HypothesisIsTarget`: where single requests tell all states apart, the hypothesis
  answers every word as the target does: words of up to five requests in the run, of any
  length in the theorem.
* `ReadsAreDrained`: the first loop of `_fill_table` may skip an entry after a short
  answer (mlstar.py:158); the second loop always meets it again before a row is read. And
  the entry by which a loop tells whether a prefix is dead is always set when it looks.
* `UndisturbedSucceeds`: while no answer comes too late, no successor is without a state
  in `build_hypothesis`, although `run` closes the table only once and makes it consistent
  after that, and `make_consistent` never adds a suffix the table has. With late answers
  both happen: the `TIMEOUT` written into an earlier row (mlstar.py:223) may make rows
  collapse, `make_consistent` then adds a suffix, the table is open again, and `run` does
  not close it a second time (`failed` is reachable; the worker reports a learning failure).
* `LearningEnds` under weak fairness of the worker's own step `Learn`: each query is
  bounded by the timeouts of the executor, and nothing else is needed. An iteration ends,
  or it comes to a table that late answers left `Stalled`: `make_consistent` takes a
  suffix the table has, and will take it again and again until the deadline.

The properties of conversations:

* `StatesInOrder`: no request has two outcomes, wherever its crash is noticed; five
  places in the loop look at the process and each names a request of its own.
* `AbnormalEnds`: nothing follows a timeout or a closed connection but the crash that
  explains it, and nothing follows a crash, although two looks see the same death.

The properties of the learning loop:

* `BestIsKept`: what learning returns and saves is the best of the models it compared,
  although the newest of everything is at hand: evolved versions, the last hypothesis,
  the last table.
* `EvidenceIsUniform`: the queries of one table come from one version per request type,
  as long as no version of that type breaks. The message cache outlives the oracles and
  is keyed by version, which is what makes this so.
* `SavedPairMatches`, `ModelHasItsGenerators`: equipment on disk is that of the model
  on disk after any death, and a finalized model is fuzzed with its own generators, in
  the process that learned it and in later ones, also when they are in quarantine. A
  death between the two files leaves a model without equipment, which the next process
  fuzzes with the newest generators; the code promises nothing for it.
* `GuidanceFits`: guidance in place of a model has the fingerprint of what is in use, and
  none is left beside a model restored after the retries. Guidance that is held when a
  model is accepted is another matter (`GuidanceIsNotMixed`, below).
* `LearningEnds`: the tries bound models that are no better, quality bounds better
  ones, and the retries bound thresholds in a row, which completed models reset.

`LearningEnds` assumes weak fairness of the worker's steps (`Learn`) and of the end of an
iteration (`IterationEnds`). Components run in a child process under a time limit, the
model client has its deadlines and the executor its timeouts; that an iteration ends is
`LearningEnds` of `ObservationTable`, and where its table is stalled the deadline ends it.
Nothing is assumed of the user or the budget.

The properties of the response components:

* `KeysNotLost`: a key whose components are missing is in the queue once, or in the hand
  of the component thread, or was given up for the run. The thread may find its queue
  empty and end while the worker still sees it alive; the key then stays in the queue,
  and the next request starts the thread anew.
* `RepairedOnce`: whichever threads report a failing source, and for whichever keys, the
  model is asked about it once for each error, and by one thread at a time. It rests on the
  pending set, the lock and the cache together; none of them does it alone. The same source
  is asked about again when it fails with another error, as the cache is keyed.
* `NeverStuck`: while the worker is in a response, or a background thread is alive, one
  of them can move. `OnlyTheLock` says more, thread by thread and without `ENABLED`: each
  can move by itself, or waits for the repair lock while its holder can move. It is proved;
  that its conditions are those of the actions is `ReadyMeansEnabled`, which holds as an
  `INVARIANT` of `components_safety.cfg`, and so does `OnlyTheLock`.

The properties of the scheduler:

* `CreditedIntact`: a state is credited only with a sequence that begins with the way to
  it as the generators made it, whatever seed, mutation and interleaving chose after the
  state was selected.
* `NewTransitionsRetained`: when a round begins, each transition that was counted is in a
  conversation that was saved or imported. The counters are read before the exchange and
  compared after it; counted without being kept, a transition would never be new again.
  A round that a stop or a failing exchange cuts off is outside: the phase ends with it.
* `DependenciesFirst`: what a dependency walk sends comes in the order of the walk, also
  with mutators between and messages that could not be made.
* `RunsEnd`: energy grows with each discovery, and there are only so many. It assumes weak
  fairness of `Scheduler`: the worker is a thread, its exchanges are bounded by timeouts,
  and nobody has to stop it.

The properties of the preparation:

* `EvidenceIsCurrent`: the sections a description task is given were related to the types
  of this run, although trees of earlier runs carry their relations along. Where a run
  has no types at all, the code annotates nothing and the trees keep what they have; the
  property says nothing there.
* `DescriptionsMatch`: descriptions a run finds are about the types it works with, unless
  it asked for the rules again over them: then they may be about others, and the code does
  not look.
* `ListedHasSource`: the index of generators is written after the sources, wherever a run
  is ended.
* `TreesSurvive`: no step takes back a saved tree or its classification, which are what
  most calls to the model were spent on.
* `PreparationEnds`: a run that is left alone is ready or has failed: tasks are tried side
  by side, each a limited number of times, and none is left pending. It does not say that a
  later run succeeds: one that finds a description or rules cut off by a crash fails, each
  time, until the file is removed (`TornSide`, `TornDerived`). It assumes weak
  fairness of `Works`: the process runs, and the model in the end gives an answer of the
  required form where the code asks without counting. Restarts are never assumed.

### What the code does not keep

Four statements are violated in a run of their own:

* `DeadlineIsTerminal`. `RunController.request_stop` marks the deadline as
  requested under its lock and raises the event after it. In between,
  `should_stop` answers `True` to the learning loop, which ends its phase as
  `completed`; the checks of `state_fuzz` read the event, find it down, and
  fuzzing starts after the deadline, against fuzz.py:1025 and
  tests/test_fuzz_deadline_shutdown.py:259.
* `PairsBelongTogether`. A response of which no frame is plausible adds its data but no
  state (executor.py:1485), and all that pair `content[i]` with `req_seq[i]` after it
  (pair recorder, seed retention, partial guidance) pair a relation with the bytes
  of an earlier exchange, against pair_recorder.py:16.
* `LoadedIsLatest`. The worker and a repair thread load the same map without a lock. The
  one that took its snapshot of the versions before the repair was published may finish
  last, and then an older version stays loaded: later refreshes compare keys only
  (executor.py:2901), against executor.py:2793. For the same reason an outdated source
  stays loaded when the component thread has made its key anew before the worker compares;
  `components_safety.cfg`, which has outdated components, shows that with this invariant.
* `FailureIsolated`. A request whose dependencies all lack a generator keeps an empty
  dependency map, and `random.choice` of its keys fails the phase (berserker.py:415),
  against tests/test_generation_retry_limit.py:22.

More are stated in the modules; adding the name to the configuration named, as an
`INVARIANT` (`DeadlineKeepsTraces` and `SuffixesAreNew` as a `PROPERTY`), shows the
counterexample.

* `DeadlineRunCompletes` (`lifecycle_safety.cfg`). `record_llm_usage` starts a new
  metric for a phase that is already written. When the component thread books a call
  between `end_phase('fuzzing', 'deadline_reached')` and `_finalize_run_status`, the run
  is reported as `deadline_before_fuzzing`, exit code 2, against
  tests/test_mlstar_failure_and_run_status.py:83.
* `CrashesKeepTableRight` (`table_safety.cfg`), by the target that crashes on one message in
  every state. `handle_crash` records a crash of the same message once per process lifetime;
  the second conversation has an output less than requests, and `ObTable` takes its last
  output, the reply to an earlier request, for the answer, against executor.py:1983.
* `SuffixesAreNew` (`table_safety.cfg`), by the target that answers four times too late.
  Three late answers put a `TIMEOUT` into the row of a prefix that is alive, from which the
  entries of its successors are copied (mlstar.py:198, 223). Two prefixes may then have one
  row while the entries of their successors differ under a suffix `e` whose extension
  `(a,) + e` the table has: `make_consistent` adds it, to no effect, and tries again
  (mlstar.py:303-317). `_fill_table` has nothing to ask any more, so no threshold can end
  the loop; only the deadline or a stop does.
* `DeadlineKeepsTraces` (`learning_safety.cfg`). `MealyLstar` fills the first rows in
  its constructor. A deadline there raises `ModelLearningStopped` before `ml` is bound;
  the handler reads `ml` to save the traces, fails with `UnboundLocalError`, and the
  worker ends as failed, against fuzz.py:1584. In a later iteration `ml` is the one
  before, so that the guidance carries an earlier table; nothing reads that table today.
* `GuidanceIsNotMixed` (`learning_safety.cfg`). Only the branch of exhausted retries
  clears `partial_guidance`. When a model is accepted after a threshold, its captured
  generators are restored and the guidance of the evolved ones goes to the scheduler
  with it (fuzz.py:1421), against fuzz.py:1511.
* `ModelHasItsParser` (`learning_safety.cfg`). `_activate_captured_equipment` sets
  `mapper.cur_parser`; the executor keeps the parser it loaded last, since `load_parser`
  is called only at construction, after an update and in a repair, against fuzz.py:1280.
* `OfferedIsAvailable` (`preparation_safety.cfg`). A run that finds an index of generators
  loads it without restricting the request types to it, so a type the first run failed to
  make a generator for is offered to the mapper by the second, against synthesizer.py:855.
* `ParserIsThere` (`preparation_safety.cfg`). An index that cannot be read, or a cached parser
  that is not valid and cannot be replaced, is logged, and the run goes on without a parser,
  against synthesizer.py:225.

## Proofs

`RunLifecycleProofs` proves every safety property of `lifecycle_safety` for all
sets of modes and disturbances and every retry limit, from the assumptions
`ModesAssumption`, `DisturbancesAssumption` and `RetryLimitAssumption`. Each step
lemma has one step per action.

* `TypeCorrect`: the three parts of `TypeOK`, each inductive (the phase part needs
  the data part).
* `StopRefinesLatch`: `ReasonInv` says that a reason is recorded wherever the event
  may be raised next; that makes every step a step of the latch or a stutter. It
  is needed because `cleanup` raises the event without a reason of its own.
* `DeadlineIsDelivered`: `DeadlineInv` adds that requests inside the controller are
  deadline requests of threads that `KeyboardInterrupt` cannot cut short.
* `SutStaysReachable` is inductive; `ActivePhaseIsOpen` needs that the worker is
  idle until it is started.
* `RunIsClassified`, `SuccessIsAlwaysEarned`, `PhaseVerdictsAreRight`: from
  `OutcomeInv`, which follows a failure (`raising`, `wStatus`) from the place it is
  raised to the exit code, and the reason from the request to `finalize`.

`ConversationProofs` proves the type invariant and both safety properties of
`conversation_safety` for all requests and bounds, from `RequestsAssumption` and
`BoundsAssumption`. Neither property is inductive: `StepInv` says what the records are
at each step of the loop. While it runs they are `Going` (ordered, no abnormal end, at
most up to the request before); a lost response makes them `Closing`, to which one
crash may be added; and once a death was noticed, either the process is dead and its
request indexed, so that the last look finds nothing new, or it exited without a crash.

`ObservationTableProofs` proves all five safety properties of `table_safety` for every
alphabet, every set of targets, every set of words to compare, and any number of late
answers, from `AlphabetAssumption`, `MachinesAssumption`, `ThresholdAssumption` and
`ProbesAssumption`. `TableLemmas` says what the operators do: where a machine is after a
word and after its prefixes, where a conversation ends, what is recorded of it. The state
after a word is a recursive function; the lemmas about it go by induction on the length,
as the least element of a set of counterexamples.

* `TypeCorrect`: the prefixes of a prefix are prefixes (`TypeInv`), so that giving up a
  query marks a row that exists.
* `TableIsDrained`: `DrainInv` is the argument for the holes of the first loop: no answer
  is too short for the empty prefix, so its row is complete, and every other prefix is a
  successor of one, which the second loop fills. `LookupInv` says that what a loop looks
  up to see whether a prefix is dead is set.
* `TableHoldsAnswers`: `RightInv` adds to `TableIsRight` that rows differ and suffixes are
  single. A copied reply is right because a dead prefix answers as it died; a short
  recording without a late answer means the target hung inside the prefix (`ShortIsHung`);
  the entry of a known crash ends in a normal reply, so that it never makes a prefix dead
  (`LeftOutIsNormal`).
* `SuffixesStaySingle`, `UndisturbedLearns`: since rows differ, the table is consistent
  as it is, nothing opens it again, and `build_hypothesis` finds a row for each successor
  (`HypothesesAreClosed`: `run` checks both before it builds). Both hold after a crash too;
  only late answers can do what is described under `UndisturbedSucceeds`.
* `HypothesesAreTargets`: `Represents` relates a word to the prefix whose state it ends
  in; it holds for each live word by induction, and the hypothesis and the target then
  answer alike up to the first abnormal reply.
* `PrefixesAreStates`, `TableIsSmall`: from `RightInv`, two prefixes that lead to one state
  of the target would have one row. So the table cannot outgrow the target.
* `FillsAreFinite`: one step adds at most one prefix or suffix, crashes and late answers
  included.

`LearningLoopProofs` proves all safety properties of `learning_safety` for all request
types, limits and bounds, from `TypesAssumption`, `LimitsAssumption` and
`BoundsAssumption`. `TypeInv` adds to the types that the counters have not run out where
the loop goes on, and that there is a model where one is saved. Each property has its own
strengthening: `BestInv` (nothing is compared before learning), `FinalizedInv` (learning
runs only where nothing was finalized, the model file precedes the equipment file, and
where both exist the version lists hold the captured versions alone), `EvidenceInv` (the
newest version wrote everything, and every cached message is filed under its writer, for
types without a broken version) and `GuidanceInv` (a retry begins with guidance of the
versions in use).

`ResponseComponentsProofs` proves `TypeOK`, `RepairedOnce` and `KeysNotLost` for any
codes, families and prepared keys and any number of failures, hence of repair threads,
from `KeysAssumption` and `RunAssumption`. Since any key of a code may be withdrawn while it
is in use, nothing says that what is selected, running or under repair has a version; what
holds is that the generic key keeps its versions (`GenericThere`), so that a thread that
loads has something to load (`WorkerLoading`, `RepairLoading`), and that the evaluation that
brought the worker where it stands is still at the head of its agenda (`AgendaInv`).
`LockInv` says that the thread with the lock is asking or publishing; with it `RepairedOnce`
is inductive, because a thread is named by its source, keeps its error, and writes the cache
before it releases the lock. `LockIsReleased` states `LockInv` itself. `OnlyTheLockIsAwaited` is what
`NeverStuck` means for each thread: `BusyInv` adds that the worker has a code, and a
component where it runs or publishes one, and the thread a key. `QueueInv` adds to `KeysNotLost` that a thread at rest has nothing
in its hand, and `RequestInv` that the code under evaluation alone may lack components
nobody was asked for, and only while its agenda still holds the request.

`FuzzSchedulerProofs` proves all safety properties of `scheduler_safety` for every
machine, dependency map, seed and energy, from `RequestsAssumption`, `MachineAssumption`,
`SeedsAssumption` and `BoundsAssumption`. `CreditInv` follows the prefix from the choice of
the state to the credit: from then on it is the access sequence unless the base state was
given up, and mutation works after its end. `RetainInv` says at each step which conversation
holds the transitions that are counted and not yet saved, greetings included; at `failing`
it claims nothing, and no round begins after it. `WalkInv` carries an
order-preserving map from the prefix into the chain of the walk (`InOrderOf`) through failing
generators, both arrangements with mutators, and the suffix; that each link of the chain is a
dependency is inductive, because the walk only grows at its head.

`PreparationProofs` proves all safety properties of `preparation_safety` for any
documents, types and answers of the model and any number of runs, from
`DocumentsAssumption`, `LimitsAssumption` and `PreparationAssumption`. `HoldInv` says
what a run holds at each stage and that its types are made of it; `DescribeInv` that a
file that is there agrees with the rules on disk or was written before the rules were
asked for anew; `SurviveInv` that a tree the run has passed is saved, and that no saved
one is parsed again; `EvidenceInv` that the trees of this run are marked with its types
once they have been annotated, and that a relation never exceeds its mark.

### What liveness rests on

That something must happen follows from fairness, which stays with TLC. What can be proved
of it for every value of the constants is that nothing goes round in a circle: each step of
the actor in question lowers a measure that has a least value, and no step of another
raises it. With `WF` and an actor that is never stuck, the property follows.

| Property | Theorem | Measure |
| --- | --- | --- |
| `StopDrainsWorker` | `StopBringsTheEnd` | `Distance`: how many steps the worker is from its end, by its position, the interaction, the attempts left and the stop request it is inside of; 0 to 91 |
| `RunEnds` | `MainComesToTheEnd` | `MainDistance`: the same for the main thread and its handler, which may cut `fuzz` short and enter `cleanup` a second time; 0 to 118. The worker it waits for is the row above |
| `LearningEnds` (table) | `IterationProgresses`, `FillsAreFinite`, `UndisturbedLearns` | lexicographic: new prefixes and suffixes, the method, the entries left. `TableIsSmall` bounds the prefixes of an undisturbed iteration |
| `LearningEnds` (loop) | `LoopGoesOn` | lexicographic: `Hope` for better models, `Retries` left, `Place` in the loop |
| `RunsEnd` | `RunUsesUpItsEnergy` | lexicographic: `Fuel` (energy and two for each transition not counted yet), `Place` in the round |
| `PreparationEnds` | `PreparationGoesOn`, `WorkIsFinite` | lexicographic: the stage, the document, the step of the stage, files to write and to close, tasks left, answers heard and tries used up |
| `NeverStuck` | `OnlyTheLockIsAwaited` | none: where each thread stands, what its next step needs is there |

`RunUsesUpItsEnergy` assumes that responses and requests with a generator are finite sets,
`TableIsSmall` that the target has finitely many states, `WorkIsFinite` that there are
finitely many sections, types and prepared components. A question the preparation asks
again without counting is no step of the model, so that `PreparationGoesOn` says nothing of
how often; that it is answered in the end is the fairness of the run. `LoopGoesOn` leaves
the queries of an iteration to the table. Late answers, crashes and stops are all allowed in
`IterationProgresses`; the case it excepts is the one described above (`SuffixesAreNew`),
and `UndisturbedLearns` shows that nothing else leads there. How many prefixes and
suffixes a disturbed table can take on is not bounded by a theorem.

Every safety property of the passing runs is proved but `NeverStuck`, which speaks of
`ENABLED`. Only model-checked are that and the liveness properties themselves, for which
the provers would need fairness and `ENABLED`. Violated statements are shown by TLC.

## Not modelled

Components: the SUT monitor (remote deployment, a client of a service), the validation of
components (a static check of generated source text), replay (sends recordings one after
another), the web run manager (watches processes from outside), bundles and AFLNet seeds
(archives and a converter), and the analysis scripts (offline).

Of the run: the status heartbeat (it only writes snapshots), failures to write a CSV row of
a phase, a second SIGINT, an interrupt that arrives while the handler's thread holds
`stop_event`'s inner lock, exceptions outside `Exception` in the worker (`SystemExit`), and
remote deployment. Of a conversation: UDP, messages that could not be built, and parser
repairs that fail; a crash noticed by a failing send is indexed under a request that was
never sent (executor.py:1589), which the model shows and nothing in the repository rules
out. Of the table: a resumed table, `berserker_run`, and a query shortened because a
generator failed. Of the learning loop: learning without specification knowledge, the export
of a bundle, the filter of invalid cached generators at start-up, failures to write guidance,
version names that are used again after a list was cut to one, and how many attempts one
failing call takes. Of the response components: the time to live and the audit of invalid
responses on disk, and the pipe of the dynamic worker process. Of the scheduler: the weights
of its choices and the plots. Of the preparation: runs without specification knowledge or
with a bundle, documents that are missing, files that cannot be written, mutators, and
descriptions without messages. Transport retries and incremental contexts of the model
client. What generated components compute, what the model answers and what a target replies
are choices, never text.

## Plan

In this order, the most important behaviour first; all but the last are done:

1. `RunLifecycle` with `StopLatch` and its proofs.
2. `ObservationTable` and `Conversation` with their proofs.
3. `LearningLoop` with its proofs.
4. `ResponseComponents` with its proofs.
5. `FuzzScheduler` with its proofs.
6. `SpecificationAnalysis` and `Preparation` with their proofs.
7. The dynamic worker process and its pipe, the retries of the model client, the web run
   manager, status snapshots and learning bundles.
