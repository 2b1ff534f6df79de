----------------------------- MODULE FuzzScheduler -----------------------------
(***************************************************************************)
(* Fuzzer.berserker_fuzz and Berserker.run: what one round sends, which    *)
(* part of it is credited to the state it was meant to reach, what of its  *)
(* answers is retained, and how long the energy of a run lasts.            *)
(*                                                                         *)
(* A message is its request type, the part of the sequence it was made     *)
(* for, and whether its bytes are as they were made.  A state of the       *)
(* machine is its access sequence.  Where the code draws at random or by   *)
(* score, every outcome is possible.                                       *)
(***************************************************************************)
EXTENDS Integers, Sequences, FiniteSets, SequencesExt

CONSTANTS
  Requests,     (* request types of the specification                       *)
  Available,    (* those with a generator                                   *)
  Relations,    (* dependency maps the specification may yield              *)
  States,       (* access sequences of the machine                          *)
  Moves,        (* its delta: <<state, request, state>>                     *)
  Imported,     (* sequences of imported traffic                            *)
  Partial,      (* sequences of the partial guidance                        *)
  Responses,    (* response types                                           *)
  Energy,       (* what Berserker.run is called with                        *)
  MutatorRounds,(* mutator_round_limit, 0 for none                          *)
  MutateSeeds,  (* mutate_imported_seeds                                    *)
  MaxMutated,   (* max_mutated_packets_per_sequence                         *)
  MaxPart       (* bound: messages of a random part (up to 8 in the code)   *)
                (* or of a mutated one (up to 42)                           *)

Symbols == Requests \cup {"imported"}
ASSUME RequestsAssumption ==
  /\ Available \subseteq Requests /\ Available # {} /\ "imported" \notin Requests
  /\ Relations \subseteq [Requests -> SUBSET Requests]
ASSUME MachineAssumption ==
  /\ States \subseteq Seq(Available)
  /\ Moves \subseteq States \X Available \X States
ASSUME SeedsAssumption ==
  Imported \cup Partial \subseteq Seq(Symbols) /\ MutateSeeds \in BOOLEAN
ASSUME BoundsAssumption ==
  Energy \in Nat /\ MutatorRounds \in Nat /\ MaxMutated \in Nat /\ MaxPart \in Nat

VARIABLES
  pc,           (* the next step                                             *)
  depends,      (* _state_dependency_async: what a request depends on        *)
  guided,       (* use_guidance                                              *)
  corpus,       (* use_corpus_prefixes                                       *)
  stop,         (* _should_stop                                              *)
  todo,         (* imported sequences still to be replayed                   *)
  energy,       (* energy                                                    *)
  chain,        (* req_seq of the dependency walk                            *)
  base,         (* selected_base_state, if there is one                      *)
  seed,         (* selected_partial_, imported_seed_, interesting_prefix     *)
  prefix,       (* prefix                                                    *)
  mutated,      (* ms                                                        *)
  sent,         (* req_seq                                                   *)
  conv,         (* cons, if there is a conversation: its response types      *)
  before,       (* transitions counted when the round began                  *)
  counted,      (* analyzer.resp_trans_cnt                                   *)
  credited,     (* whether this round was credited to its base state         *)
  covered,      (* covered_transitions of all states: <<state, request>>     *)
  known,        (* unique_responses: each has put a sequence in useful_seq   *)
  retained,     (* transitions of saved or imported conversations            *)
  attempts      (* mutator_rounds_attempted, while there is a limit          *)

options == <<depends, guided, corpus>>
round == <<chain, base, seed, prefix, mutated, sent, conv, before, credited>>
results == <<counted, covered, known, retained>>
vars == <<pc, options, stop, todo, energy, round, results, attempts>>

Seeds == {"none", "partial", "imported", "interesting"}
Parts == {"prefix", "mutator", "suffix"}
Conversations == [greeting : Seq(Responses), replies : Seq(Responses)]
Messages == [type : Symbols, part : Parts, intact : BOOLEAN]
Steps == {"replay", "rounds", "head", "walk", "middle", "offline", "interact", "judge",
          "retain", "mutate", "failing", "failed", "done"}

-----------------------------------------------------------------------------
(* Helpers                                                                 *)

Types(messages) == [i \in DOMAIN messages |-> messages[i].type]
Made(types, part) ==
  [i \in DOMAIN types |-> [type |-> types[i], part |-> part, intact |-> TRUE]]

\* select_generators leaves out what its generators fail to make.
Picks(n) ==
  UNION {{p \in [1..k -> 1..n] : \A i, j \in 1..k : i < j => p[i] < p[j]} : k \in 0..n}
Delivered(types) == {[i \in DOMAIN p |-> types[p[i]]] : p \in Picks(Len(types))}
Sequences(n) == UNION {[1..k -> Available] : k \in 1..n}

\* The keys of req_dep and their dependencies, without what has no generator.
DepAlphabet == {r \in Available : depends[r] # {}}
Dependencies(r) == depends[r] \cap Available

Transitions(replies) ==
  {<<IF i = 1 THEN "-" ELSE replies[i - 1], replies[i]>> : i \in DOMAIN replies}
Answered(replies) == {replies[i] : i \in DOMAIN replies}

\* What is counted of a conversation: the greeting, if the target sends one, and its
\* replies.  How it ends abnormally is recorded, but not counted nor looked at.
Heard(cons) == cons.greeting \o cons.replies

\* useful_seq starts with the partial and the imported sequences.
PartialSeeds == IF guided THEN Partial ELSE {}
HasUseful == Imported # {} \/ PartialSeeds # {} \/ known # {}
HasMachine == guided /\ States # {}

-----------------------------------------------------------------------------
(* Replay of the imported traffic, before the first round                  *)

\* An exchange that raises is logged and counts what it got.
Replay(seq, greeting, replies) ==
  /\ pc = "replay" /\ ~stop
  /\ seq \in todo /\ Len(replies) <= Len(seq)
  /\ todo' = todo \ {seq}
  /\ counted' = counted \cup Transitions(greeting \o replies)
  /\ retained' = retained \cup Transitions(greeting \o replies)
  /\ UNCHANGED <<pc, options, stop, energy, round, covered, known, attempts>>

ReplayEnds ==
  /\ pc = "replay"
  /\ stop \/ todo = {}
  /\ pc' = "rounds"
  /\ UNCHANGED <<options, stop, todo, energy, round, results, attempts>>

-----------------------------------------------------------------------------
(* One round: what is sent                                                 *)

RunBegins ==
  /\ pc = "rounds" /\ ~stop
  /\ pc' = "head" /\ energy' = Energy
  /\ UNCHANGED <<options, stop, todo, round, results, attempts>>

EnergyLeft == IF guided THEN energy >= 0 ELSE energy > 0
RunEnds ==
  /\ pc = "head"
  /\ stop \/ ~EnergyLeft
  /\ pc' = "mutate"
  /\ UNCHANGED <<options, stop, todo, energy, round, results, attempts>>

SelectPrefix(types, newBase, newSeed) ==
  /\ pc = "head" /\ ~stop /\ EnergyLeft
  /\ prefix' = Made(types, "prefix")
  /\ base' = newBase /\ seed' = newSeed
  /\ before' = counted
  /\ chain' = <<>>
  /\ pc' = "middle"
  /\ UNCHANGED <<options, stop, todo, energy, mutated, sent, conv, credited, results,
                 attempts>>

\* A corpus prefix, tried first, or the explicit prefix of a partial trace or an
\* imported sequence.
SelectSeed ==
  \/ \E seq \in Imported : SelectPrefix(seq, {}, "imported")
  \/ \E seq \in PartialSeeds : SelectPrefix(seq, {}, "partial")
  \/ /\ corpus /\ known # {}
     /\ \E seq \in Sequences(MaxPart) : SelectPrefix(seq, {}, "interesting")

\* Modes random and priority.
SelectState ==
  /\ HasMachine
  /\ \E state \in States : \E types \in Delivered(state) :
       SelectPrefix(types, {state}, "none")
SelectRandom ==
  /\ ~HasMachine
  /\ \E types \in Sequences(MaxPart) \cup {<<>>} : SelectPrefix(types, {}, "none")

\* Mode specific, without dependencies: a useful sequence, but none of the flags.
SelectUseful ==
  /\ guided /\ HasUseful /\ DepAlphabet = {}
  /\ \/ \E seq \in Imported \cup Partial : SelectPrefix(seq, {}, "none")
     \/ known # {} /\ \E seq \in Sequences(MaxPart) : SelectPrefix(seq, {}, "none")

\* Mode specific, with dependencies: a walk back from a request to what it depends
\* on, until that has no dependencies or was met before.
WalkBegins ==
  /\ pc = "head" /\ ~stop /\ EnergyLeft
  /\ guided /\ HasUseful
  /\ \E r \in DepAlphabet : chain' = <<r>>
  /\ base' = {} /\ seed' = "none" /\ before' = counted
  /\ pc' = "walk"
  /\ UNCHANGED <<options, stop, todo, energy, prefix, mutated, sent, conv, credited,
                 results, attempts>>

WalkIsOver == Head(chain) \in Range(Tail(chain)) \/ Head(chain) \notin DepAlphabet
\* Mutant of WalkOn: the walk goes to what depends on the request.
WalkOnForth ==
  /\ pc = "walk" /\ ~WalkIsOver
  /\ \E r \in Available : Head(chain) \in Dependencies(r) /\ chain' = <<r>> \o chain
  /\ UNCHANGED <<pc, options, stop, todo, energy, base, seed, prefix, mutated, sent, conv,
                 before, credited, results, attempts>>
WalkOn ==
  /\ pc = "walk" /\ ~WalkIsOver
  /\ \E r \in Dependencies(Head(chain)) : chain' = <<r>> \o chain
  /\ UNCHANGED <<pc, options, stop, todo, energy, base, seed, prefix, mutated, sent, conv,
                 before, credited, results, attempts>>

WalkEnds ==
  /\ pc = "walk" /\ WalkIsOver
  /\ \E types \in Delivered(chain) : prefix' = Made(types, "prefix")
  /\ pc' = "middle"
  /\ UNCHANGED <<options, stop, todo, energy, chain, base, seed, mutated, sent, conv,
                 before, credited, results, attempts>>

\* random.choice of no dependencies raises.
WalkFails ==
  /\ \/ pc = "walk" /\ ~WalkIsOver /\ Dependencies(Head(chain)) = {}
     \/ /\ pc = "middle" /\ guided /\ known # {}
        /\ \E r \in DepAlphabet : Dependencies(r) = {}
  /\ pc' = "failing"
  /\ UNCHANGED <<options, stop, todo, energy, round, results, attempts>>

\* Nothing without mutators; else a random, a useful or a dependent sequence.
SelectMutated ==
  /\ pc = "middle"
  /\ \E types \in Sequences(MaxPart) \cup {<<>>} : mutated' = Made(types, "mutator")
  /\ pc' = "offline"
  /\ UNCHANGED <<options, stop, todo, energy, chain, base, seed, prefix, sent, conv,
                 before, credited, results, attempts>>

\* One of each in turn, then what is left of the longer.
Interleaved(p, m) ==
  LET n == IF Len(p) < Len(m) THEN Len(p) ELSE Len(m) IN
  [i \in 1..Len(p) + Len(m) |->
     IF i > 2 * n THEN IF Len(p) > n THEN p[i - n] ELSE m[i - n]
     ELSE IF i % 2 = 1 THEN p[(i + 1) \div 2] ELSE m[i \div 2]]

\* Mutant of KeepTogether: a seed without a state may be interleaved too, and so may
\* the access sequence of a state.
KeepTogetherSeeds == seed # "none"
KeepTogether == base # {} \/ seed # "none"
Arrangements ==
  {prefix \o mutated} \cup IF KeepTogether THEN {} ELSE {Interleaved(prefix, mutated)}

\* What offline mutation may not touch.
\* Mutant of Protected: nothing is protected.
ProtectedNothing == 0
Protected ==
  IF seed = "imported" /\ MutateSeeds /\ ~corpus THEN 0 ELSE Len(prefix)
MayMutate == seed = "imported" => MutateSeeds
Mutations(n) ==
  {c \in SUBSET ((Protected + 1)..n) :
     Cardinality(c) <= MaxMutated /\ (c # {} => MayMutate)}

\* The suffix is random: nothing ever fills transit.
Send ==
  /\ pc = "offline"
  /\ \E body \in Arrangements : \E suffix \in Sequences(MaxPart) \cup {<<>>} :
       LET whole == body \o Made(suffix, "suffix") IN
       \E changed \in Mutations(Len(whole)) :
         sent' = [i \in DOMAIN whole |->
                    [whole[i] EXCEPT !.intact = @ /\ i \notin changed]]
  /\ mutated' = <<>>
  /\ pc' = "interact"
  /\ UNCHANGED <<options, stop, todo, energy, chain, base, seed, prefix, conv, before,
                 credited, results, attempts>>

-----------------------------------------------------------------------------
(* One round: what comes back                                              *)

\* The variables of a round are local to run.
RoundIsForgotten ==
  /\ chain' = <<>> /\ base' = {} /\ seed' = "none" /\ prefix' = <<>> /\ mutated' = <<>>
  /\ sent' = <<>> /\ conv' = {} /\ before' = {} /\ credited' = FALSE

Interact(greeting, replies) ==
  /\ pc = "interact"
  /\ Len(replies) <= Len(sent)
  /\ conv' = {[greeting |-> greeting, replies |-> replies]}
  /\ counted' = counted \cup Transitions(greeting \o replies)
  /\ pc' = "judge"
  /\ UNCHANGED <<options, stop, todo, energy, chain, base, seed, prefix, mutated, sent,
                 before, credited, covered, known, retained, attempts>>

\* An exchange that raises fails the phase; what it got is counted.
InteractFails(greeting, replies) ==
  /\ pc = "interact"
  /\ Len(replies) <= Len(sent)
  /\ counted' = counted \cup Transitions(greeting \o replies)
  /\ pc' = "failing"
  /\ RoundIsForgotten
  /\ UNCHANGED <<options, stop, todo, energy, covered, known, retained, attempts>>

\* A target that cannot be reached stops the run (RunLifecycle); else there is no
\* conversation only if the run was stopped.
InteractNothing ==
  /\ pc = "interact"
  /\ stop' = TRUE
  /\ conv' = {}
  /\ pc' = "judge"
  /\ UNCHANGED <<options, todo, energy, chain, base, seed, prefix, mutated, sent, before,
                 credited, results, attempts>>

JudgeStopped ==
  /\ pc = "judge" /\ stop
  /\ pc' = "mutate"
  /\ RoundIsForgotten
  /\ UNCHANGED <<options, stop, todo, energy, results, attempts>>

\* update_state_feedback: the first requests are the access sequence of the state.
Reached(state) ==
  Types(SubSeq(sent, 1, Len(prefix))) = state
Outgoing(state) ==
  IF Len(prefix) < Len(sent)
  THEN {m \in Moves : m[1] = state /\ m[2] = sent[Len(prefix) + 1].type}
  ELSE {}
Credit ==
  /\ pc = "judge" /\ ~stop
  /\ credited' = \E state \in base : Reached(state)
  /\ covered' = covered \cup
       UNION {{<<m[1], m[2]>> : m \in Outgoing(state)} : state \in {s \in base : Reached(s)}}
  /\ pc' = "retain"
  /\ UNCHANGED <<options, stop, todo, energy, chain, base, seed, prefix, mutated, sent,
                 conv, before, counted, known, retained, attempts>>

\* SeedRetentionPolicy.observe and analyze_cons: a conversation is saved if it adds a
\* transition or a response type, or is longer or more diverse than any before.
\* Mutant of IsNew: only response types count.
IsNewByType(cons) == ~(Answered(Heard(cons)) \subseteq {t[2] : t \in before})
IsNew(cons) ==
  counted # before \/ ~(Answered(Heard(cons)) \subseteq {t[2] : t \in before})
Retained == UNION {Transitions(Heard(cons)) : cons \in {c \in conv : IsNew(c)}}

\* Mutant of Gain: a round that finds nothing new lasts.
GainForever == IF counted # before THEN 1 ELSE 0
\* The energy a round gains or costs.
Gain == IF guided /\ counted # before THEN 1 ELSE -1

\* The greeting answers no request, and is no part of a useful sequence.
RoundEnds ==
  /\ pc = "retain"
  /\ known' = known \cup UNION {Answered(cons.replies) : cons \in conv}
  /\ retained' = retained \cup Retained
  /\ energy' = energy + Gain
  /\ pc' = "head"
  /\ RoundIsForgotten
  /\ UNCHANGED <<options, stop, todo, counted, covered, attempts>>

-----------------------------------------------------------------------------
(* Between two runs                                                        *)

\* The attempt is counted before the model is asked, whatever it answers.
\* Mutant of Mutate: one attempt too many.
MutateOnceMore ==
  /\ pc = "mutate" /\ ~stop
  /\ ~corpus
  /\ MutatorRounds = 0 \/ attempts <= MutatorRounds
  /\ attempts' = IF MutatorRounds = 0 THEN attempts ELSE attempts + 1
  /\ pc' \in {"rounds", "failing"}
  /\ UNCHANGED <<options, stop, todo, energy, round, results>>
Mutate ==
  /\ pc = "mutate" /\ ~stop
  /\ ~corpus
  /\ MutatorRounds = 0 \/ attempts < MutatorRounds
  /\ attempts' = IF MutatorRounds = 0 THEN attempts ELSE attempts + 1
  /\ pc' \in {"rounds", "failing"}
  /\ UNCHANGED <<options, stop, todo, energy, round, results>>

SkipMutation ==
  /\ pc = "mutate"
  /\ \/ stop \/ corpus
     \/ MutatorRounds # 0 /\ attempts >= MutatorRounds
  /\ pc' = "rounds"
  /\ UNCHANGED <<options, stop, todo, energy, round, results, attempts>>

PhaseEnds ==
  /\ pc = "rounds" /\ stop
  /\ pc' = "done"
  /\ UNCHANGED <<options, stop, todo, energy, round, results, attempts>>

\* An exception fails the phase and stops the whole run.
PhaseFails ==
  /\ pc = "failing"
  /\ pc' = "failed" /\ stop' = TRUE
  /\ UNCHANGED <<options, todo, energy, round, results, attempts>>

Stop ==
  /\ ~stop
  /\ stop' = TRUE
  /\ UNCHANGED <<pc, options, todo, energy, round, results, attempts>>

-----------------------------------------------------------------------------
(* The specification                                                       *)

Init ==
  /\ pc = "replay"
  /\ depends \in Relations
  /\ guided \in BOOLEAN /\ corpus \in BOOLEAN
  /\ corpus => ~guided
  /\ stop = FALSE /\ energy = 0
  /\ todo \in {Imported, {}}
  /\ chain = <<>> /\ base = {} /\ seed = "none" /\ prefix = <<>> /\ mutated = <<>>
  /\ sent = <<>> /\ conv = {} /\ before = {} /\ credited = FALSE
  /\ counted = {} /\ covered = {} /\ known = {} /\ retained = {}
  /\ attempts = 0

Greetings == SeqOf(Responses, 1)

\* MaxPart also bounds the replies counted in one exchange.
Replies == SeqOf(Responses, MaxPart)
Scheduler ==
  \/ \E seq \in todo, greeting \in Greetings, replies \in Replies :
       Replay(seq, greeting, replies)
  \/ ReplayEnds \/ RunBegins \/ RunEnds
  \/ SelectSeed \/ SelectState \/ SelectRandom \/ SelectUseful
  \/ WalkBegins \/ WalkOn \/ WalkEnds \/ WalkFails
  \/ SelectMutated \/ Send
  \/ \E greeting \in Greetings, replies \in Replies :
       Interact(greeting, replies) \/ InteractFails(greeting, replies)
  \/ InteractNothing \/ JudgeStopped \/ Credit \/ RoundEnds
  \/ Mutate \/ SkipMutation \/ PhaseEnds \/ PhaseFails
Next == Scheduler \/ Stop

Spec == Init /\ [][Next]_vars

\* The worker is a thread that runs as long as it can; nobody has to stop it.
FairSpec == Spec /\ WF_vars(Scheduler)

-----------------------------------------------------------------------------
(* Properties                                                              *)

TypeOK ==
  /\ pc \in Steps /\ depends \in Relations
  /\ guided \in BOOLEAN /\ corpus \in BOOLEAN
  /\ stop \in BOOLEAN /\ todo \subseteq Imported /\ energy \in Int
  /\ chain \in Seq(Requests) /\ base \subseteq States /\ seed \in Seeds
  /\ prefix \in Seq(Messages) /\ mutated \in Seq(Messages) /\ sent \in Seq(Messages)
  /\ conv \subseteq Conversations
  /\ before \subseteq counted
  /\ counted \cup retained \subseteq (Responses \cup {"-"}) \X Responses
  /\ credited \in BOOLEAN /\ covered \subseteq States \X Available
  /\ known \subseteq Responses
  /\ attempts \in 0..MutatorRounds

\* A state is credited only with a sequence that begins with its access sequence, as
\* the generators made it: neither interleaved nor mutated on the wire, whatever
\* seeds, options and mutation chose (berserker.py:479-492, 667-706).
CreditedIntact ==
  credited => \E state \in base :
    /\ Len(state) <= Len(sent)
    /\ \A i \in DOMAIN state :
         sent[i] = [type |-> state[i], part |-> "prefix", intact |-> TRUE]

\* A transition that was counted is in a conversation that was saved or imported: none
\* is used up in the counters by a round that leaves nothing to replay
\* (berserker.py:656-658, 732-753, seed_retention.py:137-146).
NewTransitionsRetained == pc = "head" => counted \subseteq retained

\* What a dependency walk sends comes in its order, each request after one it depends
\* on, also where mutators are interleaved and generators fail (berserker.py:401-417).
InOrderOf(types, messages) ==
  LET at == {i \in DOMAIN messages : messages[i].part = "prefix"} IN
  \E from \in [at -> DOMAIN types] :
    /\ \A i \in at : messages[i].type = types[from[i]]
    /\ \A i, j \in at : i < j => from[i] < from[j]
DependenciesFirst ==
  pc = "interact" /\ chain # <<>> =>
    /\ InOrderOf(chain, sent)
    /\ \A i \in 2..Len(chain) : chain[i - 1] \in Dependencies(chain[i])

\* A run uses up its energy, since there are only so many transitions to find, and the
\* generators get their next mutation (berserker.py:652-773).
RunsEnd == pc = "head" ~> pc \in {"rounds", "failed", "done"}

\* tests/test_generation_retry_limit.py:22, "initial_generator_failure_isolated_to_its_
\* request_type": that a request has no generator does not fail the whole phase.
FailureIsolated == [][pc' = "failing" => pc \notin {"walk", "middle"}]_vars
=============================================================================
