--------------------------- MODULE ObservationTable ---------------------------
(***************************************************************************)
(* One learning iteration: MealyLstar.__init__ and run over an ObTable.    *)
(* The table is filled, closed, made consistent and turned into a          *)
(* hypothesis; each entry comes from a membership query, whose answer is   *)
(* what the executor recorded of one conversation with the target.         *)
(*                                                                         *)
(* A prefix is written without the '-' that starts it in the code.  The    *)
(* order in which Python walks the sets S and E is arbitrary; the entries  *)
(* of a prefix are filled one after the other.                             *)
(***************************************************************************)
EXTENDS Integers, FiniteSets, Sequences, SequencesExt

CONSTANTS
  Alphabet,      (* ObTable.alphabet, the request symbols                   *)
  Machines,      (* the targets to learn; late bounds the queries one       *)
                 (* answers too late                                        *)
  HasThreshold,  (* the oracle has a threshold_tracker                      *)
  Probes         (* words on which a hypothesis is compared with its target *)

Abnormal == {"CRASH", "TIMEOUT", "CLOSED", "POLLERR"}
Phases == {"fill_s", "fill_si", "close", "consistent",
           "hypothesis", "stopped", "threshold", "failed"}
Terminal == {"hypothesis", "stopped", "threshold", "failed"}

\* The states of a machine.
States(m) == {k[1] : k \in DOMAIN m.out}

\* What a query can output: the greeting, a reply of a target, or how it ended.
Outputs ==
  {"-"} \cup Abnormal \cup UNION {{m.out[k] : k \in DOMAIN m.out} : m \in Machines}

ASSUME AlphabetAssumption == IsFiniteSet(Alphabet) /\ Alphabet # {}
ASSUME MachinesAssumption ==
  \A m \in Machines :
    /\ m.start \in States(m)
    /\ m.next \in [States(m) \X Alphabet -> States(m)]
    /\ m.out \in [States(m) \X Alphabet -> Outputs]
    /\ m.late \in Nat
ASSUME ThresholdAssumption == HasThreshold \in BOOLEAN
ASSUME ProbesAssumption == Probes \subseteq Seq(Alphabet) \ {<<>>}

VARIABLES
  target,      (* the Mealy machine the target behaves as                    *)
  S, E, T,     (* ObTable.S, E and T; T maps pairs of a prefix and a suffix   *)
  phase,       (* where the iteration is, or how it ended                    *)
  todo,        (* entries the running loop of _fill_table has left           *)
  cur,         (* the prefix whose entries it is filling                     *)
  resume,      (* the caller of _fill_table                                  *)
  stop,        (* stop_event                                                 *)
  reached,     (* threshold_tracker.reached                                  *)
  crashIndex,  (* Executor.crash_testcases: symbols whose message crashed,    *)
               (* in this iteration or in an earlier one                      *)
  timeouts     (* queries answered too late so far                           *)

table == <<S, E, T>>
vars == <<target, S, E, T, phase, todo, cur, resume, stop, reached,
          crashIndex, timeouts>>

-----------------------------------------------------------------------------
(* The target and the conversations with it.                               *)

\* The state of machine m after the requests w.
StateAfter(m, w) ==
  LET at[i \in 0..Len(w)] == IF i = 0 THEN m.start ELSE m.next[<<at[i - 1], w[i]>>]
  IN  at[Len(w)]

ReplyAt(m, w, i) == m.out[<<StateAfter(m, SubSeq(w, 1, i - 1)), w[i]>>]

\* Positions of w whose reply ends the conversation.
Endings(m, w) == {i \in DOMAIN w : ReplyAt(m, w, i) \in Abnormal}

\* How many requests of w are sent.
Sent(m, w) ==
  IF Endings(m, w) = {} THEN Len(w)
  ELSE CHOOSE i \in Endings(m, w) : \A j \in Endings(m, w) : i <= j

\* What the target answers to the last request of w; a conversation that has
\* ended answers the way it ended.
Answer(m, w) == ReplyAt(m, w, Sent(m, w))

\* handle_crash records no symbol for a crash it has seen before.
IsRepeatCrash(m, w) ==
  /\ ReplyAt(m, w, Sent(m, w)) = "CRASH"
  /\ w[Sent(m, w)] \in crashIndex

\* The res_seq of an undisturbed conversation.  It starts with the greeting.
Replies(m, w) ==
  LET n == IF IsRepeatCrash(m, w) THEN Sent(m, w) - 1 ELSE Sent(m, w)
  IN  <<"-">> \o [i \in 1..n |-> ReplyAt(m, w, i)]

Crashes(m, w) ==
  IF Answer(m, w) = "CRASH" THEN {w[Sent(m, w)]} ELSE {}

\* The conversations a query of w may produce; late counts a reply that came too
\* late, which ends the conversation.
Recordings(m, w) ==
  LET out == Replies(m, w)
      Late(k) == [out |-> Append(SubSeq(out, 1, k - 1), "TIMEOUT"),
                  crashes |-> {}, late |-> 1]
  IN  {[out |-> out, crashes |-> Crashes(m, w), late |-> 0]}
        \cup {Late(k) : k \in {i \in 2..Len(out) : out[i] \notin Abnormal}}

-----------------------------------------------------------------------------
(* Reading the table.                                                      *)

Successors == UNION {{s \o <<a>> : a \in Alphabet} : s \in S}

\* Mutant of LastN: the whole conversation becomes the entry.
LastNWhole(out, n) == out

\* The last n elements of out, out[-n:].
LastN(out, n) == SubSeq(out, IF Len(out) > n THEN Len(out) - n + 1 ELSE 1, Len(out))

Row(s) == [e \in E |-> T[<<s, e>>]]
Drained == \A s \in S \cup Successors, e \in E : <<s, e>> \in DOMAIN T

\* is_closed returns a successor whose row no prefix has.
Unclosed == {sa \in Successors : \A s \in S : Row(s) # Row(sa)}

\* is_consistent returns suffixes that tell apart prefixes with the same row.
Distinguishing ==
  {d \in Alphabet \X E :
     \E s1, s2 \in S : /\ Row(s1) = Row(s2)
                       /\ T[<<s1 \o <<d[1]>>, d[2]>>] # T[<<s2 \o <<d[1]>>, d[2]>>]}

\* The reply that led to prefix p was abnormal: its row repeats that reply.
Dead(p) == p # <<>> /\ T[<<Front(p), <<Last(p)>>>>] \in {<<x>> : x \in Abnormal}

\* A reply cut short before the suffix was sent; words count '-' in the code.
Short(out, p) == Last(out) = "TIMEOUT" /\ Len(out) < Len(p) + 1

-----------------------------------------------------------------------------
(* _fill_table                                                             *)

Missing(prefixes, suffixes) == {pe \in prefixes \X suffixes : pe \notin DOMAIN T}

\* Start filling for the given S and E on behalf of the caller c.
StartFill(prefixes, suffixes, c) ==
  /\ S' = prefixes
  /\ E' = suffixes
  /\ phase' = "fill_s"
  /\ todo' = Missing(prefixes, suffixes)
  /\ cur' = <<>>
  /\ resume' = c

\* The entry the loop takes next.
NextEntry(p, e) ==
  /\ <<p, e>> \in todo
  /\ p = cur \/ \A pe \in todo : pe[1] # cur
  /\ cur' = p
  /\ todo' = todo \ {<<p, e>>}

Put(p, e, out) == T' = [x \in DOMAIN T \cup {<<p, e>>} |-> IF x = <<p, e>> THEN out ELSE T[x]]

\* The side effects of a conversation: crashes are indexed, and the threshold
\* may be reached with any successful query.
Observe(r, times) ==
  /\ timeouts + times * r.late <= target.late
  /\ timeouts' = timeouts + times * r.late
  /\ crashIndex' = crashIndex \cup r.crashes
  /\ reached' \in {reached, HasThreshold}

FillUnchanged == UNCHANGED <<target, S, E, phase, resume, stop>>

\* Mutant of FillDead: the reply of the wrong entry is copied.
FillDeadSameSuffix(p, e) ==
  /\ phase \in {"fill_s", "fill_si"} /\ ~stop
  /\ NextEntry(p, e)
  /\ Dead(p)
  /\ Put(p, e, T[<<Front(p), e>>])
  /\ FillUnchanged
  /\ UNCHANGED <<reached, crashIndex, timeouts>>

\* After an abnormal reply nothing is asked.
FillDead(p, e) ==
  /\ phase \in {"fill_s", "fill_si"} /\ ~stop
  /\ NextEntry(p, e)
  /\ Dead(p)
  /\ Put(p, e, T[<<Front(p), <<Last(p)>>>>])
  /\ FillUnchanged
  /\ UNCHANGED <<reached, crashIndex, timeouts>>

\* A query of the S part; a short answer leaves the entry unset.
FillS(p, e) ==
  /\ phase = "fill_s" /\ ~stop
  /\ NextEntry(p, e)
  /\ ~Dead(p)
  /\ \E r \in Recordings(target, p \o e) :
       /\ Observe(r, 1)
       /\ IF Short(r.out, p) THEN UNCHANGED T ELSE Put(p, e, LastN(r.out, Len(e)))
  /\ FillUnchanged

\* A query of the S.A part.  A short answer is asked again, which leaves no trace
\* unless all three come short.
FillSi(p, e) ==
  /\ phase = "fill_si" /\ ~stop
  /\ NextEntry(p, e)
  /\ ~Dead(p)
  /\ \E r \in Recordings(target, p \o e) :
       /\ ~Short(r.out, p)
       /\ Observe(r, 1)
       /\ Put(p, e, LastN(r.out, Len(e)))
  /\ FillUnchanged

\* Mutant of GiveUp: the entry is skipped, as in the first loop.
GiveUpSkips(p, e) ==
  /\ phase = "fill_si" /\ ~stop
  /\ NextEntry(p, e)
  /\ ~Dead(p)
  /\ \E r \in Recordings(target, p \o e) : Short(r.out, p) /\ Observe(r, 3)
  /\ UNCHANGED T
  /\ FillUnchanged

\* The third short answer in a row also marks an entry of the prefix it ended
\* at, under the last symbol of p.
GiveUp(p, e) ==
  /\ phase = "fill_si" /\ ~stop
  /\ NextEntry(p, e)
  /\ ~Dead(p)
  /\ \E r \in Recordings(target, p \o e) :
       /\ Short(r.out, p)
       /\ Observe(r, 3)
       /\ LET at == <<SubSeq(p, 1, Len(r.out) - 2), <<Last(p)>>>>
          IN  T' = [x \in DOMAIN T \cup {at, <<p, e>>} |->
                      IF x = <<p, e>> THEN LastN(r.out, Len(e))
                      ELSE IF x = at THEN <<"TIMEOUT">> ELSE T[x]]
  /\ FillUnchanged

\* The first loop is through.
SFilled ==
  /\ phase = "fill_s" /\ todo = {}
  /\ phase' = "fill_si"
  /\ todo' = Missing(Successors, E)
  /\ cur' = <<>>
  /\ UNCHANGED <<target, table, resume, stop, reached, crashIndex, timeouts>>

\* The second loop is through.
Filled ==
  /\ phase = "fill_si" /\ todo = {}
  /\ phase' = resume
  /\ UNCHANGED <<target, table, todo, cur, resume, stop, reached, crashIndex, timeouts>>

\* The loops poll the stop event; the second polls it at existing entries too.
FillStopped ==
  /\ stop
  /\ phase = "fill_si" \/ (phase = "fill_s" /\ todo # {})
  /\ phase' = "stopped"
  /\ UNCHANGED <<target, table, todo, cur, resume, stop, reached, crashIndex, timeouts>>

\* Every retry of a query came back empty: _stop_learning.
NoOutput ==
  /\ phase \in {"fill_s", "fill_si"} /\ todo # {} /\ ~stop
  /\ stop' = TRUE
  /\ phase' = "stopped"
  /\ UNCHANGED <<target, table, todo, cur, resume, reached, crashIndex, timeouts>>

\* The deadline, a signal or another component stops the run.
Stop ==
  /\ phase \notin Terminal /\ ~stop
  /\ stop' = TRUE
  /\ UNCHANGED <<target, table, phase, todo, cur, resume, reached, crashIndex, timeouts>>

-----------------------------------------------------------------------------
(* make_close, make_consistent and build_hypothesis                        *)

Return(to) ==
  /\ phase' = to
  /\ UNCHANGED <<target, table, todo, cur, resume, stop, reached, crashIndex, timeouts>>

\* Mutant of AddPrefix: the new prefix is not kept.
AddPrefixForgets(sa) ==
  /\ phase = "close" /\ ~stop /\ ~reached
  /\ sa \in Unclosed
  /\ StartFill(S, E, "close")
  /\ UNCHANGED <<target, T, stop, reached, crashIndex, timeouts>>

\* Mutant of AddPrefix: make_close does not come back to look for another prefix.
AddPrefixOnce(sa) ==
  /\ phase = "close" /\ ~stop /\ ~reached
  /\ sa \in Unclosed
  /\ StartFill(S \cup {sa}, E, "consistent")
  /\ UNCHANGED <<target, T, stop, reached, crashIndex, timeouts>>

\* make_close adds a prefix; its guard against extending abnormal prefixes
\* compares an output tuple with names and never holds.
AddPrefix(sa) ==
  /\ phase = "close" /\ ~stop /\ ~reached
  /\ sa \in Unclosed
  /\ StartFill(S \cup {sa}, E, "close")
  /\ UNCHANGED <<target, T, stop, reached, crashIndex, timeouts>>

MakeCloseReturns ==
  /\ phase = "close"
  /\ IF reached THEN Return("threshold")
     ELSE /\ stop \/ Unclosed = {}
          /\ Return("consistent")

AddSuffix(a, e) ==
  /\ phase = "consistent" /\ ~stop /\ ~reached
  /\ <<a, e>> \in Distinguishing
  /\ StartFill(S, E \cup {<<a>> \o e}, "consistent")
  /\ UNCHANGED <<target, T, stop, reached, crashIndex, timeouts>>

MakeConsistentStops ==
  /\ phase = "consistent"
  /\ \/ stop /\ Return("stopped")
     \/ ~stop /\ reached /\ Return("threshold")

\* A consistent table becomes a hypothesis; a successor without a state raises
\* KeyError.
BuildHypothesis ==
  /\ phase = "consistent" /\ ~stop /\ ~reached
  /\ Distinguishing = {}
  /\ IF Unclosed = {} THEN Return("hypothesis") ELSE Return("failed")

\* Mutant of Hypothesis: outputs are read from the successor's row.
HypothesisAhead ==
  LET prefixOf == [r \in {Row(s) : s \in S} |-> CHOOSE s \in S : Row(s) = r]
      keys == (DOMAIN prefixOf) \X Alphabet
  IN  [start |-> Row(<<>>),
       next |-> [k \in keys |-> Row(prefixOf[k[1]] \o <<k[2]>>)],
       out |-> [k \in keys |-> T[<<prefixOf[k[1]] \o <<k[2]>>, <<k[2]>>>>][1]]]

\* The machine that build_hypothesis returns; its states are rows.
Hypothesis ==
  LET prefixOf == [r \in {Row(s) : s \in S} |-> CHOOSE s \in S : Row(s) = r]
      keys == (DOMAIN prefixOf) \X Alphabet
  IN  [start |-> Row(<<>>),
       next |-> [k \in keys |-> Row(prefixOf[k[1]] \o <<k[2]>>)],
       out |-> [k \in keys |-> T[<<prefixOf[k[1]], <<k[2]>>>>][1]]]

-----------------------------------------------------------------------------
\* Requests the target crashes on in some state.
CrashSymbols(m) == {k[2] : k \in {j \in DOMAIN m.out : m.out[j] = "CRASH"}}

Init ==
  /\ target \in Machines
  /\ S = {<<>>}
  /\ E = {<<a>> : a \in Alphabet}
  /\ T = <<>>
  /\ phase = "fill_s"
  /\ todo = S \X E
  /\ cur = <<>>
  /\ resume = "close"
  /\ stop = FALSE /\ reached = FALSE
  /\ crashIndex \in SUBSET CrashSymbols(target)
  /\ timeouts = 0

Fill(p, e) == FillDead(p, e) \/ FillS(p, e) \/ FillSi(p, e) \/ GiveUp(p, e)

Learn ==
  \/ \E pe \in todo : Fill(pe[1], pe[2])
  \/ SFilled \/ Filled \/ FillStopped
  \/ \E sa \in Successors : AddPrefix(sa)
  \/ MakeCloseReturns
  \/ \E a \in Alphabet, e \in E : AddSuffix(a, e)
  \/ MakeConsistentStops \/ BuildHypothesis

Next == Learn \/ NoOutput \/ Stop

Spec == Init /\ [][Next]_vars
FairSpec == Spec /\ WF_vars(Learn)

-----------------------------------------------------------------------------
(* Properties                                                              *)

\* No answer came too late.
Reliable == timeouts = 0

\* What the table should hold for suffix e after prefix p.
Expected(p, e) == [i \in 1..Len(e) |-> Answer(target, p \o SubSeq(e, 1, i))]

\* States that single requests tell apart: the table finds them all.
Separable(m) ==
  \A p, q \in States(m) : p # q => \E a \in Alphabet : m.out[<<p, a>>] # m.out[<<q, a>>]

\* Types; an entry is never longer than its suffix, nor empty.
TypeOK ==
  /\ target \in Machines
  /\ S \subseteq Seq(Alphabet) /\ E \subseteq Seq(Alphabet) \ {<<>>}
  /\ DOMAIN T \subseteq (S \cup Successors) \X E
  /\ \A pe \in DOMAIN T : T[pe] \in Seq(Outputs) /\ Len(T[pe]) \in 1..Len(pe[2])
  /\ phase \in Phases /\ resume \in {"close", "consistent"}
  /\ todo \subseteq (S \cup Successors) \X E
  /\ cur \in Seq(Alphabet)
  /\ stop \in BOOLEAN /\ reached \in BOOLEAN
  /\ crashIndex \subseteq Alphabet
  /\ timeouts \in 0..target.late

\* An entry of a conversation that ended in a crash seen before: its last outputs, of which
\* the crash is none.
CrashLeftOut(x, p, e) ==
  IsRepeatCrash(target, p \o e) /\ x = LastN(Replies(target, p \o e), Len(e))

\* Every entry is what the target answers to that suffix after that prefix, also
\* where the code copies an abnormal reply instead of asking (mlstar.py:139-150,
\* 198-209), and whatever the order of the queries.  A crash that was seen before, in
\* this iteration or an earlier one, adds no output (executor.py:2432): its entry is the
\* reply before it, and nothing that is asked behind it holds anything else.
TableIsRight ==
  Reliable => \A pe \in DOMAIN T :
    T[pe] = Expected(pe[1], pe[2]) \/ CrashLeftOut(T[pe], pe[1], pe[2])

\* A hypothesis of a separable target that did not crash answers every word as the
\* target does, the words the table never asked included (build_hypothesis,
\* mlstar.py:321-359).
HypothesisIsTarget ==
  Reliable /\ crashIndex = {} /\ phase = "hypothesis" /\ Separable(target) =>
    \A w \in Probes : Answer(Hypothesis, w) = Answer(target, w)

\* A crash leaves one output per request, too: "L* requires exactly one output symbol
\* per sent request" (executor.py:1983).
CrashesKeepTableRight ==
  Reliable => \A pe \in DOMAIN T : T[pe] = Expected(pe[1], pe[2])

\* Whenever the table is read or kept as evidence, all entries of S and its
\* successors are set (mlstar.py:17, 249, 272), although the first loop of
\* _fill_table may skip an entry: the second loop meets it again.  So is the entry
\* that tells the loops whether a prefix is dead (mlstar.py:139, 198).
ReadsAreDrained ==
  /\ phase \in {"close", "consistent", "hypothesis", "threshold"} => Drained
  /\ \A pe \in todo : pe[1] # <<>> => <<Front(pe[1]), <<Last(pe[1])>>>> \in DOMAIN T

\* make_consistent is about to add a suffix that is there already.
Stalled ==
  /\ phase = "consistent" /\ ~stop
  /\ \E d \in Distinguishing : <<d[1]>> \o d[2] \in E

\* The iteration comes to an end, or to a table in which a known suffix does not tell
\* apart what it should: make_close cannot add prefixes for ever, nor make_consistent
\* suffixes (mlstar.py:266-317).
LearningEnds == <>(phase \in Terminal \/ Stalled)

\* While no answer comes too late the iteration never fails nor turns in a circle: run
\* closes the table once, before it makes it consistent, yet every successor has a state
\* when the hypothesis is built (mlstar.py:347, 387-395), and what make_consistent adds is
\* new (mlstar.py:316), whatever the target crashed on.
UndisturbedSucceeds == Reliable => phase # "failed" /\ ~Stalled

\* What make_consistent adds is new, so that it gets on (mlstar.py:316).
SuffixesAreNew == [][phase = "consistent" /\ phase' = "fill_s" => E' # E]_vars

===============================================================================
