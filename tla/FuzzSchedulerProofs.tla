-------------------------- MODULE FuzzSchedulerProofs --------------------------
(***************************************************************************)
(* Proofs about FuzzScheduler, for all requests, machines, seeds and       *)
(* bounds.                                                                 *)
(*                                                                         *)
(* From the selection of a state to the verdict on its round, the prefix   *)
(* is what the generators made for it, and what is sent begins with it     *)
(* (CreditInv).  What the round counted is either retained already or in   *)
(* the conversation that is judged next (RetainInv); only a stopped or     *)
(* failing run leaves a round unjudged.  A walk's prefix is in the order   *)
(* of its chain, and both arrangements with mutators keep that order       *)
(* (WalkInv).                                                              *)
(***************************************************************************)
EXTENDS FuzzScheduler, FiniteSetTheorems, TLAPS

RunTypes ==
  /\ pc \in Steps /\ depends \in Relations
  /\ guided \in BOOLEAN /\ corpus \in BOOLEAN
  /\ stop \in BOOLEAN /\ todo \subseteq Imported /\ energy \in Int
  /\ attempts \in 0..MutatorRounds
RoundTypes ==
  /\ chain \in Seq(Requests) /\ base \subseteq States /\ seed \in Seeds
  /\ prefix \in Seq(Messages) /\ mutated \in Seq(Messages) /\ sent \in Seq(Messages)
  /\ credited \in BOOLEAN
  /\ pc = "walk" => chain # <<>>
ResultTypes ==
  /\ conv \subseteq Conversations
  /\ before \subseteq counted
  /\ counted \cup retained \subseteq (Responses \cup {"-"}) \X Responses
  /\ covered \subseteq States \X Available
  /\ known \subseteq Responses

\* A state is the base of the round only without a seed, its prefix is as it was made,
\* and from the sending on, what is sent begins with it.
AsMade(messages, n) ==
  \A i \in 1..n : messages[i].part = "prefix" /\ messages[i].intact = TRUE
CreditInv ==
  /\ base # {} => seed = "none" /\ AsMade(prefix, Len(prefix))
  /\ base # {} /\ pc \in {"interact", "judge", "retain"} =>
       Len(prefix) <= Len(sent) /\ AsMade(sent, Len(prefix))
  /\ credited => pc = "retain"
  /\ CreditedIntact

RetainInv ==
  /\ pc \in {"replay", "rounds", "mutate"} /\ ~stop => counted \subseteq retained
  /\ pc \in {"head", "walk", "middle", "offline", "interact"} => counted \subseteq retained
  /\ pc \in {"walk", "middle", "offline", "interact"} => before = counted
  /\ pc \in {"judge", "retain"} =>
       /\ before \subseteq retained
       /\ counted = before \cup UNION {Transitions(Heard(cons)) : cons \in conv}
       /\ \A r, t \in conv : r = t

IInv == RunTypes /\ RoundTypes /\ ResultTypes /\ CreditInv /\ RetainInv

-----------------------------------------------------------------------------
(* What is made, delivered, interleaved and changed                        *)

LEMMA MadeType ==
  ASSUME NEW types \in Seq(Symbols), NEW part \in Parts
  PROVE  /\ Made(types, part) \in Seq(Messages) /\ Len(Made(types, part)) = Len(types)
         /\ \A i \in 1..Len(types) :
              Made(types, part)[i] = [type |-> types[i], part |-> part, intact |-> TRUE]
<1>1. DOMAIN types = 1..Len(types) /\ Len(types) \in Nat
      /\ \A i \in 1..Len(types) : types[i] \in Symbols
  OBVIOUS
<1>2. \A i \in 1..Len(types) :
        [type |-> types[i], part |-> part, intact |-> TRUE] \in Messages
  BY <1>1 DEF Messages
<1>3. Made(types, part) = [i \in 1..Len(types) |->
                             [type |-> types[i], part |-> part, intact |-> TRUE]]
  BY <1>1 DEF Made
<1>4. Made(types, part) \in Seq(Messages) BY <1>1, <1>2, <1>3
<1>5. Len(Made(types, part)) = Len(types) BY <1>1, <1>3
<1> QED BY <1>3, <1>4, <1>5

LEMMA DeliveredType ==
  ASSUME NEW R, NEW types \in Seq(R)
  PROVE  Delivered(types) \subseteq Seq(R)
<1> SUFFICES ASSUME NEW p \in Picks(Len(types))
             PROVE  [i \in DOMAIN p |-> types[p[i]]] \in Seq(R)
  BY DEF Delivered
<1>1. PICK k \in 0..Len(types) : p \in [1..k -> 1..Len(types)] BY DEF Picks
<1>2. k \in Nat /\ DOMAIN p = 1..k /\ \A i \in 1..k : types[p[i]] \in R BY <1>1
<1> QED BY <1>2

LEMMA InterleavedType ==
  ASSUME NEW R, NEW p \in Seq(R), NEW m \in Seq(R)
  PROVE  Interleaved(p, m) \in Seq(R)
<1> DEFINE n == IF Len(p) < Len(m) THEN Len(p) ELSE Len(m)
           item(i) == IF i > 2 * n THEN IF Len(p) > n THEN p[i - n] ELSE m[i - n]
                      ELSE IF i % 2 = 1 THEN p[(i + 1) \div 2] ELSE m[i \div 2]
<1>1. /\ Len(p) \in Nat /\ Len(m) \in Nat /\ n \in Nat /\ n <= Len(p) /\ n <= Len(m)
      /\ n = Len(p) \/ n = Len(m)
  OBVIOUS
<1>2. /\ \A j \in 1..Len(p) : p[j] \in R
      /\ \A j \in 1..Len(m) : m[j] \in R
  OBVIOUS
<1>3. Interleaved(p, m) = [i \in 1..Len(p) + Len(m) |-> item(i)] BY DEF Interleaved
<1> HIDE DEF n
<1>4. ASSUME NEW i \in 1..Len(p) + Len(m) PROVE item(i) \in R
  <2>1. CASE i > 2 * n /\ Len(p) > n
    <3>1. i - n \in 1..Len(p) BY <1>1, <2>1
    <3> QED BY <1>2, <2>1, <3>1
  <2>2. CASE i > 2 * n /\ ~(Len(p) > n)
    <3>1. i - n \in 1..Len(m) BY <1>1, <2>2
    <3> QED BY <1>2, <2>2, <3>1
  <2>3. CASE ~(i > 2 * n) /\ i % 2 = 1
    <3>1. (i + 1) \div 2 \in 1..Len(p) BY <1>1, <2>3
    <3> QED BY <1>2, <2>3, <3>1
  <2>4. CASE ~(i > 2 * n) /\ ~(i % 2 = 1)
    <3>1. i \div 2 \in 1..Len(m) BY <1>1, <2>4
    <3> QED BY <1>2, <2>4, <3>1
  <2> QED BY <2>1, <2>2, <2>3, <2>4
<1> HIDE DEF item
<1>5. [i \in 1..Len(p) + Len(m) |-> item(i)] \in Seq(R) BY <1>1, <1>4
<1> QED BY <1>3, <1>5

LEMMA PrefixMade ==
  ASSUME NEW types \in Seq(Symbols)
  PROVE  /\ Made(types, "prefix") \in Seq(Messages)
         /\ AsMade(Made(types, "prefix"), Len(Made(types, "prefix")))
<1>1. "prefix" \in Parts BY DEF Parts
<1>2. /\ Made(types, "prefix") \in Seq(Messages) /\ Len(Made(types, "prefix")) = Len(types)
      /\ \A i \in 1..Len(types) :
           Made(types, "prefix")[i] = [type |-> types[i], part |-> "prefix", intact |-> TRUE]
  BY <1>1, MadeType
<1>3. \A i \in 1..Len(types) :
        Made(types, "prefix")[i].part = "prefix" /\ Made(types, "prefix")[i].intact = TRUE
  <2> TAKE i \in 1..Len(types)
  <2>1. Made(types, "prefix")[i] = [type |-> types[i], part |-> "prefix", intact |-> TRUE]
    BY <1>2
  <2> QED BY <2>1
<1> QED BY <1>2, <1>3 DEF AsMade

LEMMA SequencesType ==
  ASSUME NEW n \in Nat, NEW types \in Sequences(n) \cup {<<>>}
  PROVE  types \in Seq(Available) /\ types \in Seq(Symbols)
<1>1. CASE types = <<>> BY <1>1
<1>2. CASE types # <<>>
  <2>1. PICK k \in 1..n : types \in [1..k -> Available] BY <1>2 DEF Sequences
  <2>2. k \in Nat /\ \A i \in 1..k : types[i] \in Available BY <2>1
  <2>3. types \in Seq(Available) BY <2>1, <2>2
  <2> QED BY <2>3, RequestsAssumption DEF Symbols
<1> QED BY <1>1, <1>2

LEMMA TransitionsType ==
  ASSUME NEW replies \in Seq(Responses)
  PROVE  Transitions(replies) \subseteq (Responses \cup {"-"}) \X Responses
         /\ Answered(replies) \subseteq Responses
<1>1. \A i \in DOMAIN replies : replies[i] \in Responses /\ (i # 1 => i - 1 \in DOMAIN replies)
  OBVIOUS
<1> QED BY <1>1 DEF Transitions, Answered

LEMMA HeardType ==
  ASSUME NEW cons \in Conversations
  PROVE  cons.replies \in Seq(Responses) /\ Heard(cons) \in Seq(Responses)
<1>1. cons.greeting \in Seq(Responses) /\ cons.replies \in Seq(Responses)
  BY DEF Conversations
<1> QED BY <1>1 DEF Heard

\* What one exchange gets is of the responses there are.
LEMMA ExchangeType ==
  ASSUME NEW greeting \in Greetings, NEW replies \in Replies
  PROVE  /\ Transitions(greeting \o replies) \subseteq (Responses \cup {"-"}) \X Responses
         /\ [greeting |-> greeting, replies |-> replies] \in Conversations
         /\ Heard([greeting |-> greeting, replies |-> replies]) = greeting \o replies
<1>1. greeting \in Seq(Responses) /\ replies \in Seq(Responses)
  <2>1. MaxPart \in Nat BY BoundsAssumption
  <2>2. \A n \in Nat : SeqOf(Responses, n) \subseteq Seq(Responses) BY DEF SeqOf
  <2>3. Greetings \subseteq Seq(Responses) /\ Replies \subseteq Seq(Responses)
    BY <2>1, <2>2 DEF Greetings, Replies
  <2> QED BY <2>3
<1>2. greeting \o replies \in Seq(Responses) BY <1>1
<1> QED BY <1>1, <1>2, TransitionsType DEF Conversations, Heard

-----------------------------------------------------------------------------
(* The steps                                                               *)

\* A step that leaves the round and the results alone.
LEMMA KeepRound ==
  ASSUME IInv, UNCHANGED round, UNCHANGED results, RunTypes',
         pc \in {"interact", "judge", "retain"} \/ pc' \notin {"interact", "judge", "retain"},
         pc' = "walk" => pc = "walk",
         pc' \in {"replay", "rounds", "mutate"} /\ ~stop' => counted \subseteq retained,
         pc' \in {"head", "walk", "middle", "offline", "interact"} =>
           pc' = pc \/ (pc' = "head" /\ counted \subseteq retained),
         pc' \in {"judge", "retain"} => pc' = pc,
         pc = "retain" => pc' = pc
  PROVE  IInv'
<1>1. UNCHANGED <<chain, base, seed, prefix, mutated, sent, conv, before, credited>>
      /\ UNCHANGED <<counted, covered, known, retained>>
  BY DEF round, results
<1>2. RoundTypes' /\ ResultTypes' BY <1>1 DEF IInv, RoundTypes, ResultTypes
<1>3. CreditInv' BY <1>1 DEF IInv, CreditInv, AsMade, CreditedIntact
<1>4. RetainInv' BY <1>1 DEF IInv, RetainInv
<1> QED BY <1>2, <1>3, <1>4 DEF IInv

LEMMA SelectStep ==
  ASSUME IInv, NEW types \in Seq(Symbols), NEW newBase \in SUBSET States, NEW newSeed \in Seeds,
         newBase # {} => newSeed = "none", SelectPrefix(types, newBase, newSeed)
  PROVE  IInv'
<1>1. /\ pc = "head" /\ pc' = "middle" /\ prefix' = Made(types, "prefix")
      /\ base' = newBase /\ seed' = newSeed /\ before' = counted /\ chain' = <<>>
      /\ UNCHANGED <<mutated, sent, conv, credited, stop, todo, energy, attempts>>
      /\ UNCHANGED <<depends, guided, corpus>> /\ UNCHANGED <<counted, covered, known, retained>>
  BY DEF SelectPrefix, options, results
<1>2. prefix' \in Seq(Messages) /\ AsMade(prefix', Len(prefix')) BY <1>1, PrefixMade
<1>3. RunTypes' BY <1>1 DEF IInv, RunTypes, Steps
<1>4. RoundTypes' BY <1>1, <1>2 DEF IInv, RoundTypes
<1>5. ResultTypes' BY <1>1 DEF IInv, ResultTypes
<1>6. RetainInv' BY <1>1 DEF IInv, RetainInv
<1> QED BY <1>1, <1>2, <1>3, <1>4, <1>5, <1>6 DEF IInv, CreditInv, CreditedIntact

LEMMA SelectSteps ==
  ASSUME IInv, SelectSeed \/ SelectState \/ SelectRandom \/ SelectUseful
  PROVE  IInv'
<1>1. /\ \A seq \in Sequences(MaxPart) \cup {<<>>} : seq \in Seq(Symbols)
      /\ \A seq \in Imported \cup Partial : seq \in Seq(Symbols)
  BY SequencesType, BoundsAssumption, SeedsAssumption
<1>2. Seeds = {"none", "partial", "imported", "interesting"} BY DEF Seeds
<1>3. CASE SelectSeed
  <2>1. PICK types \in Seq(Symbols), newSeed \in Seeds : SelectPrefix(types, {}, newSeed)
    <3>1. PartialSeeds \subseteq Partial BY DEF PartialSeeds
    <3> QED BY <1>1, <1>2, <1>3, <3>1 DEF SelectSeed
  <2> QED BY <2>1, SelectStep
<1>4. CASE SelectState
  <2>1. PICK state \in States : \E types \in Delivered(state) : SelectPrefix(types, {state}, "none")
    BY <1>4 DEF SelectState
  <2>2. Delivered(state) \subseteq Seq(Symbols)
    <3>1. state \in Seq(Symbols) BY MachineAssumption, RequestsAssumption DEF Symbols
    <3> QED BY <3>1, DeliveredType
  <2>3. PICK types \in Seq(Symbols) : SelectPrefix(types, {state}, "none") BY <2>1, <2>2
  <2>4. {state} \in SUBSET States /\ "none" \in Seeds BY <1>2
  <2> QED BY <2>3, <2>4, SelectStep
<1>5. CASE SelectRandom \/ SelectUseful
  <2>1. PICK types \in Seq(Symbols) : SelectPrefix(types, {}, "none")
    BY <1>1, <1>5 DEF SelectRandom, SelectUseful
  <2>2. {} \in SUBSET States /\ "none" \in Seeds /\ ({} # {} => "none" = "none") BY <1>2
  <2> QED BY <2>1, <2>2, SelectStep
<1> QED BY <1>3, <1>4, <1>5

LEMMA WalkSteps ==
  ASSUME IInv, WalkBegins \/ WalkOn \/ WalkEnds \/ SelectMutated
  PROVE  IInv'
<1>1. /\ UNCHANGED <<stop, todo, energy, sent, conv, credited, attempts>>
      /\ UNCHANGED options /\ UNCHANGED results
  BY DEF WalkBegins, WalkOn, WalkEnds, SelectMutated
<1>2. UNCHANGED <<depends, guided, corpus>> /\ UNCHANGED <<counted, covered, known, retained>>
  BY <1>1 DEF options, results
<1>3. "none" \in Seeds /\ Available \subseteq Requests /\ DepAlphabet \subseteq Available
      /\ \A r : Dependencies(r) \subseteq Available
  BY RequestsAssumption DEF Seeds, DepAlphabet, Dependencies
<1>4. /\ pc \in {"head", "walk", "middle"} /\ pc' \in {"walk", "middle", "offline"}
      /\ before' = counted
      /\ pc = "head" => pc' = "walk"
  BY DEF WalkBegins, WalkOn, WalkEnds, SelectMutated, IInv, RetainInv
<1>5. RunTypes' BY <1>1, <1>2, <1>4 DEF IInv, RunTypes, Steps
<1>6. ResultTypes' BY <1>1, <1>2, <1>4 DEF IInv, ResultTypes
<1>7. RetainInv' BY <1>1, <1>2, <1>4 DEF IInv, RetainInv
<1>8. CASE WalkBegins
  <2>1. chain' \in Seq(Requests) /\ chain' # <<>> BY <1>3, <1>8 DEF WalkBegins
  <2>2. base' = {} /\ seed' = "none" /\ UNCHANGED <<prefix, mutated>> BY <1>8 DEF WalkBegins
  <2>3. RoundTypes' BY <1>1, <1>3, <2>1, <2>2 DEF IInv, RoundTypes
  <2>4. CreditInv' BY <1>1, <1>4, <2>2 DEF IInv, CreditInv, CreditedIntact
  <2> QED BY <1>5, <1>6, <1>7, <2>3, <2>4 DEF IInv
<1>9. CASE WalkOn
  <2>1. UNCHANGED <<base, seed, prefix, mutated>> /\ pc = "walk" BY <1>9 DEF WalkOn
  <2>2. PICK r \in Available : chain' = <<r>> \o chain BY <1>3, <1>9 DEF WalkOn
  <2>3. chain' \in Seq(Requests) /\ chain' # <<>>
    <3>1. <<r>> \in Seq(Requests) /\ chain \in Seq(Requests)
      BY <1>3 DEF IInv, RoundTypes
    <3> QED BY <2>2, <3>1
  <2>4. RoundTypes' BY <1>1, <2>1, <2>3 DEF IInv, RoundTypes
  <2>5. CreditInv' BY <1>1, <1>4, <2>1 DEF IInv, CreditInv, CreditedIntact, AsMade
  <2> QED BY <1>5, <1>6, <1>7, <2>4, <2>5 DEF IInv
<1>10. CASE WalkEnds
  <2>1. UNCHANGED <<chain, base, seed, mutated>> /\ pc = "walk" /\ pc' = "middle"
    BY <1>10 DEF WalkEnds
  <2>2. PICK types \in Delivered(chain) : prefix' = Made(types, "prefix") BY <1>10 DEF WalkEnds
  <2>3. types \in Seq(Symbols)
    <3>1. chain \in Seq(Symbols) BY DEF IInv, RoundTypes, Symbols
    <3> QED BY <2>2, <3>1, DeliveredType
  <2>4. prefix' \in Seq(Messages) /\ AsMade(prefix', Len(prefix')) BY <2>2, <2>3, PrefixMade
  <2>5. RoundTypes' BY <1>1, <2>1, <2>4 DEF IInv, RoundTypes
  <2>6. CreditInv' BY <1>1, <2>1, <2>4 DEF IInv, CreditInv, CreditedIntact
  <2> QED BY <1>5, <1>6, <1>7, <2>5, <2>6 DEF IInv
<1>11. CASE SelectMutated
  <2>1. UNCHANGED <<chain, base, seed, prefix>> /\ pc' = "offline" BY <1>11 DEF SelectMutated
  <2>2. PICK types \in Sequences(MaxPart) \cup {<<>>} : mutated' = Made(types, "mutator")
    BY <1>11 DEF SelectMutated
  <2>3. types \in Seq(Symbols) BY <2>2, SequencesType, BoundsAssumption
  <2>4. "mutator" \in Parts BY DEF Parts
  <2>5. mutated' \in Seq(Messages) BY <2>2, <2>3, <2>4, MadeType
  <2>6. RoundTypes' BY <1>1, <2>1, <2>5 DEF IInv, RoundTypes
  <2>7. CreditInv' BY <1>1, <1>4, <2>1 DEF IInv, CreditInv, CreditedIntact, AsMade
  <2> QED BY <1>5, <1>6, <1>7, <2>6, <2>7 DEF IInv
<1> QED BY <1>8, <1>9, <1>10, <1>11

\* What is sent begins with the prefix, untouched, when a state is the base.
LEMMA SendStep ==
  ASSUME IInv, Send
  PROVE  IInv'
<1>1. /\ pc = "offline" /\ pc' = "interact" /\ mutated' = <<>>
      /\ UNCHANGED <<stop, todo, energy, chain, base, seed, prefix, conv, before, credited, attempts>>
      /\ UNCHANGED <<depends, guided, corpus>> /\ UNCHANGED <<counted, covered, known, retained>>
  BY DEF Send, options, results
<1>2. PICK body \in Arrangements, suffix \in Sequences(MaxPart) \cup {<<>>} :
        \E changed \in Mutations(Len(body \o Made(suffix, "suffix"))) :
          sent' = [i \in DOMAIN (body \o Made(suffix, "suffix")) |->
                     [(body \o Made(suffix, "suffix"))[i] EXCEPT !.intact = @ /\ i \notin changed]]
  BY DEF Send
<1> DEFINE whole == body \o Made(suffix, "suffix")
<1>3. PICK changed \in Mutations(Len(whole)) :
        sent' = [i \in DOMAIN whole |-> [whole[i] EXCEPT !.intact = @ /\ i \notin changed]]
  BY <1>2
<1>4. prefix \in Seq(Messages) /\ mutated \in Seq(Messages) BY DEF IInv, RoundTypes
<1>5. body \in Seq(Messages)
  <2>1. prefix \o mutated \in Seq(Messages) /\ Interleaved(prefix, mutated) \in Seq(Messages)
    BY <1>4, InterleavedType
  <2> QED BY <2>1 DEF Arrangements
<1>6. Made(suffix, "suffix") \in Seq(Messages)
  <2>1. MaxPart \in Nat /\ "suffix" \in Parts BY BoundsAssumption DEF Parts
  <2> QED BY <2>1, SequencesType, MadeType
<1>7. whole \in Seq(Messages) BY <1>5, <1>6
<1>8. base # {} => /\ Len(prefix) <= Len(whole)
                   /\ \A i \in 1..Len(prefix) : whole[i] = prefix[i]
  <2> SUFFICES ASSUME base # {} PROVE /\ Len(prefix) <= Len(whole)
                                     /\ \A i \in 1..Len(prefix) : whole[i] = prefix[i]
    OBVIOUS
  <2>1. body = prefix \o mutated BY DEF Arrangements, KeepTogether
  <2> QED BY <1>4, <1>6, <2>1
<1>9. base # {} => \A i \in 1..Len(prefix) : i \notin changed
  <2> SUFFICES ASSUME base # {} PROVE \A i \in 1..Len(prefix) : i \notin changed OBVIOUS
  <2>1. Protected = Len(prefix) BY DEF Protected, IInv, CreditInv
  <2>2. changed \subseteq (Len(prefix) + 1)..Len(whole) BY <1>3, <2>1 DEF Mutations
  <2> QED BY <1>4, <1>7, <2>2
<1> HIDE DEF whole
<1>10. /\ DOMAIN whole = 1..Len(whole) /\ Len(whole) \in Nat
       /\ \A i \in 1..Len(whole) : whole[i] \in [type : Symbols, part : Parts, intact : BOOLEAN]
  <2>1. \A i \in 1..Len(whole) : whole[i] \in Messages BY <1>7
  <2>2. DOMAIN whole = 1..Len(whole) /\ Len(whole) \in Nat BY <1>7
  <2> QED BY <2>1, <2>2 DEF Messages
<1>11. \A i \in 1..Len(whole) :
         /\ sent'[i] \in [type : Symbols, part : Parts, intact : BOOLEAN]
         /\ sent'[i].part = whole[i].part
         /\ sent'[i].intact = (whole[i].intact /\ i \notin changed)
  BY <1>3, <1>10
<1>12. sent' \in Seq(Messages) /\ Len(sent') = Len(whole)
  <2>1. DOMAIN sent' = 1..Len(whole) /\ sent' = [i \in 1..Len(whole) |-> sent'[i]]
    BY <1>3, <1>10
  <2>2. \A i \in 1..Len(whole) : sent'[i] \in Messages BY <1>11 DEF Messages
  <2>3. Len(whole) \in Nat BY <1>10
  <2>4. sent' \in Seq(Messages) BY <2>1, <2>2, <2>3
  <2> QED BY <2>1, <2>3, <2>4
<1>13. base # {} => Len(prefix) <= Len(sent') /\ AsMade(sent', Len(prefix))
  <2> SUFFICES ASSUME base # {}, NEW i \in 1..Len(prefix)
               PROVE  sent'[i].part = "prefix" /\ sent'[i].intact = TRUE
    BY <1>8, <1>12 DEF AsMade
  <2>1. i \in 1..Len(whole) /\ whole[i] = prefix[i] /\ i \notin changed
    BY <1>4, <1>8, <1>9, <1>10
  <2>2. prefix[i].part = "prefix" /\ prefix[i].intact = TRUE BY DEF IInv, CreditInv, AsMade
  <2> QED BY <1>11, <2>1, <2>2
<1>14. RunTypes' /\ ResultTypes' /\ RetainInv'
  BY <1>1 DEF IInv, RunTypes, Steps, ResultTypes, RetainInv
<1>15. RoundTypes'
  <2>1. mutated' \in Seq(Messages) BY <1>1
  <2> QED BY <1>1, <1>12, <2>1 DEF IInv, RoundTypes
<1>16. CreditInv' BY <1>1, <1>13 DEF IInv, CreditInv, CreditedIntact, AsMade
<1> QED BY <1>14, <1>15, <1>16 DEF IInv

LEMMA ReplayStep ==
  ASSUME IInv, NEW seq, NEW greeting \in Greetings, NEW replies \in Replies,
         Replay(seq, greeting, replies)
  PROVE  IInv'
<1>1. /\ pc = "replay" /\ ~stop /\ todo' = todo \ {seq}
      /\ counted' = counted \cup Transitions(greeting \o replies)
      /\ retained' = retained \cup Transitions(greeting \o replies)
      /\ UNCHANGED <<pc, depends, guided, corpus, stop, energy, covered, known, attempts>>
      /\ UNCHANGED <<chain, base, seed, prefix, mutated, sent, conv, before, credited>>
  BY DEF Replay, options, round
<1>2. Transitions(greeting \o replies) \subseteq (Responses \cup {"-"}) \X Responses
  BY ExchangeType
<1>3. RunTypes' /\ RoundTypes' BY <1>1 DEF IInv, RunTypes, RoundTypes
<1>4. ResultTypes' BY <1>1, <1>2 DEF IInv, ResultTypes
<1>5. CreditInv' BY <1>1 DEF IInv, CreditInv, CreditedIntact, AsMade
<1>6. RetainInv' BY <1>1 DEF IInv, RetainInv
<1> QED BY <1>3, <1>4, <1>5, <1>6 DEF IInv

LEMMA InteractSteps ==
  ASSUME IInv,
         \/ \E greeting \in Greetings, replies \in Replies : Interact(greeting, replies)
         \/ InteractNothing
  PROVE  IInv'
<1>1. /\ pc = "interact" /\ pc' = "judge" /\ stop' \in BOOLEAN
      /\ UNCHANGED <<depends, guided, corpus, todo, energy, attempts, covered, known, retained>>
      /\ UNCHANGED <<chain, base, seed, prefix, mutated, sent, before, credited>>
  BY DEF Interact, InteractNothing, options, results, IInv, RunTypes
<1>2. \/ \E greeting \in Greetings, replies \in Replies :
           /\ conv' = {[greeting |-> greeting, replies |-> replies]}
           /\ counted' = counted \cup Transitions(greeting \o replies)
      \/ conv' = {} /\ counted' = counted
  BY DEF Interact, InteractNothing, results
<1>3. counted \subseteq retained /\ before = counted BY <1>1 DEF IInv, RetainInv
<1>4. RunTypes' /\ RoundTypes' BY <1>1 DEF IInv, RunTypes, RoundTypes, Steps
<1>5. CreditInv' BY <1>1 DEF IInv, CreditInv, CreditedIntact, AsMade
<1>6. CASE conv' = {} /\ counted' = counted
  <2>1. ResultTypes' BY <1>1, <1>6 DEF IInv, ResultTypes
  <2>2. RetainInv' BY <1>1, <1>3, <1>6 DEF RetainInv
  <2> QED BY <1>4, <1>5, <2>1, <2>2 DEF IInv
<1>7. ASSUME NEW greeting \in Greetings, NEW replies \in Replies,
             conv' = {[greeting |-> greeting, replies |-> replies]},
             counted' = counted \cup Transitions(greeting \o replies)
      PROVE  IInv'
  <2>1. PICK cons : cons = [greeting |-> greeting, replies |-> replies] OBVIOUS
  <2>2. /\ Transitions(greeting \o replies) \subseteq (Responses \cup {"-"}) \X Responses
        /\ cons \in Conversations /\ Heard(cons) = greeting \o replies
    BY <2>1, ExchangeType
  <2>3. conv' = {cons} BY <1>7, <2>1
  <2>4. ResultTypes' BY <1>1, <1>7, <2>2, <2>3 DEF IInv, ResultTypes
  <2>5. UNION {Transitions(Heard(c)) : c \in conv'} = Transitions(greeting \o replies)
    BY <2>2, <2>3
  <2>6. RetainInv' BY <1>1, <1>3, <1>7, <2>3, <2>5 DEF RetainInv
  <2> QED BY <1>4, <1>5, <2>4, <2>6 DEF IInv
<1> QED BY <1>2, <1>6, <1>7

LEMMA Forgotten ==
  ASSUME IInv, RoundIsForgotten, RunTypes', pc' \in {"head", "mutate", "failing"},
         covered' \subseteq States \X Available, known' \subseteq Responses,
         counted' \subseteq (Responses \cup {"-"}) \X Responses,
         retained' \subseteq (Responses \cup {"-"}) \X Responses,
         pc' = "head" \/ (pc' = "mutate" /\ ~stop') => counted' \subseteq retained'
  PROVE  IInv'
<1>1. RoundTypes'
  <2>1. <<>> \in Seq(Requests) /\ <<>> \in Seq(Messages) /\ "none" \in Seeds BY DEF Seeds
  <2>2. /\ chain' = <<>> /\ base' = {} /\ seed' = "none" /\ prefix' = <<>> /\ mutated' = <<>>
        /\ sent' = <<>> /\ credited' = FALSE /\ pc' # "walk"
    BY DEF RoundIsForgotten
  <2> QED BY <2>1, <2>2, Zenon DEF RoundTypes
<1>2. ResultTypes' BY DEF RoundIsForgotten, ResultTypes, IInv
<1>3. CreditInv' BY DEF RoundIsForgotten, CreditInv, CreditedIntact
<1>4. RetainInv' BY DEF RoundIsForgotten, RetainInv
<1> QED BY <1>1, <1>2, <1>3, <1>4 DEF IInv

LEMMA InteractFailsStep ==
  ASSUME IInv, NEW greeting \in Greetings, NEW replies \in Replies,
         InteractFails(greeting, replies)
  PROVE  IInv'
<1>1. /\ pc' = "failing" /\ RoundIsForgotten
      /\ counted' = counted \cup Transitions(greeting \o replies)
      /\ UNCHANGED <<depends, guided, corpus, stop, todo, energy, attempts>>
      /\ UNCHANGED <<covered, known, retained>>
  BY DEF InteractFails, options
<1>2. RunTypes' BY <1>1 DEF IInv, RunTypes, Steps
<1>3. counted' \subseteq (Responses \cup {"-"}) \X Responses
  BY <1>1, ExchangeType DEF IInv, ResultTypes
<1> QED BY <1>1, <1>2, <1>3, Forgotten DEF IInv, ResultTypes

\* A sequence credited to a state begins with what was made for the state.
LEMMA CreditStep ==
  ASSUME IInv, Credit
  PROVE  IInv'
<1>1. /\ pc = "judge" /\ pc' = "retain" /\ credited' = \E state \in base : Reached(state)
      /\ UNCHANGED <<depends, guided, corpus, stop, todo, energy, attempts, counted, known, retained>>
      /\ UNCHANGED <<chain, base, seed, prefix, mutated, sent, conv, before>>
      /\ covered' = covered \cup
           UNION {{<<m[1], m[2]>> : m \in Outgoing(state)} : state \in {s \in base : Reached(s)}}
  BY DEF Credit, options
<1>2. RunTypes' /\ RoundTypes' BY <1>1 DEF IInv, RunTypes, RoundTypes, Steps
<1>3. ResultTypes'
  <2>1. \A state : \A m \in Outgoing(state) : <<m[1], m[2]>> \in States \X Available
    BY MachineAssumption DEF Outgoing
  <2>2. covered' \subseteq States \X Available
    BY <1>1, <2>1 DEF IInv, ResultTypes
  <2> QED BY <1>1, <2>2 DEF IInv, ResultTypes
<1>4. RetainInv' BY <1>1 DEF IInv, RetainInv
<1>5. CreditedIntact'
  <2> SUFFICES ASSUME NEW state \in base, Reached(state)
               PROVE  /\ Len(state) <= Len(sent)
                      /\ \A i \in DOMAIN state :
                           sent[i] = [type |-> state[i], part |-> "prefix", intact |-> TRUE]
    BY <1>1 DEF CreditedIntact
  <2>1. /\ Len(prefix) <= Len(sent) /\ AsMade(sent, Len(prefix))
        /\ sent \in Seq(Messages) /\ prefix \in Seq(Messages)
    BY <1>1 DEF IInv, CreditInv, RoundTypes
  <2> DEFINE first == SubSeq(sent, 1, Len(prefix))
  <2>2. /\ Len(prefix) \in Nat /\ DOMAIN first = 1..Len(prefix)
        /\ \A i \in 1..Len(prefix) : first[i] = sent[i]
    BY <2>1
  <2>3. state = [i \in 1..Len(prefix) |-> first[i].type]
    BY <2>2 DEF Reached, Types
  <2> HIDE DEF first
  <2>4. DOMAIN state = 1..Len(prefix) /\ Len(state) = Len(prefix) BY <2>2, <2>3
  <2>5. ASSUME NEW i \in 1..Len(prefix)
        PROVE  sent[i] = [type |-> state[i], part |-> "prefix", intact |-> TRUE]
    <3>1. i \in 1..Len(sent) BY <2>1, <2>2
    <3>2. sent[i] \in [type : Symbols, part : Parts, intact : BOOLEAN]
      <4>1. sent[i] \in Messages BY <2>1, <3>1
      <4> QED BY <4>1 DEF Messages
    <3>3. state[i] = sent[i].type BY <2>2, <2>3
    <3>4. sent[i].part = "prefix" /\ sent[i].intact = TRUE BY <2>1 DEF AsMade
    <3> QED BY <3>2, <3>3, <3>4
  <2> QED BY <2>1, <2>4, <2>5
<1>6. CreditInv' BY <1>1, <1>5 DEF IInv, CreditInv, AsMade
<1> QED BY <1>2, <1>3, <1>4, <1>6 DEF IInv

\* A conversation that is not saved added no transition.
LEMMA RoundEndsStep ==
  ASSUME IInv, RoundEnds
  PROVE  IInv'
<1>1. /\ pc = "retain" /\ pc' = "head" /\ RoundIsForgotten
      /\ known' = known \cup UNION {Answered(cons.replies) : cons \in conv}
      /\ retained' = retained \cup Retained /\ energy' = energy + Gain
      /\ UNCHANGED <<depends, guided, corpus, stop, todo, counted, covered, attempts>>
  BY DEF RoundEnds, options
<1>2. \A cons \in conv : cons.replies \in Seq(Responses) /\ Heard(cons) \in Seq(Responses)
  BY HeardType DEF IInv, ResultTypes
<1>3. known' \subseteq Responses
  BY <1>1, <1>2, TransitionsType DEF IInv, ResultTypes
<1>4. Retained \subseteq (Responses \cup {"-"}) \X Responses
  BY <1>2, TransitionsType DEF Retained
<1>5. retained' \subseteq (Responses \cup {"-"}) \X Responses
  BY <1>1, <1>4 DEF IInv, ResultTypes
<1>6. counted \subseteq retained'
  <2>1. /\ before \subseteq retained
        /\ counted = before \cup UNION {Transitions(Heard(cons)) : cons \in conv}
    BY <1>1 DEF IInv, RetainInv
  <2>2. CASE counted = before BY <1>1, <2>1, <2>2
  <2>3. CASE counted # before
    <3>1. Retained = UNION {Transitions(Heard(cons)) : cons \in conv}
      BY <2>3 DEF Retained, IsNew
    <3> QED BY <1>1, <2>1, <3>1
  <2> QED BY <2>2, <2>3
<1>7. RunTypes'
  <2>1. Gain \in Int BY DEF Gain
  <2> QED BY <1>1, <2>1 DEF IInv, RunTypes, Steps
<1> QED BY <1>1, <1>3, <1>5, <1>6, <1>7, Forgotten DEF IInv, ResultTypes

LEMMA QuietSteps ==
  ASSUME IInv,
         \/ ReplayEnds \/ RunBegins \/ RunEnds \/ WalkFails \/ Mutate \/ SkipMutation
         \/ PhaseEnds \/ PhaseFails \/ Stop
  PROVE  IInv'
<1>1. UNCHANGED options /\ UNCHANGED round /\ UNCHANGED results /\ todo' = todo
  BY DEF ReplayEnds, RunBegins, RunEnds, WalkFails, Mutate, SkipMutation, PhaseEnds,
     PhaseFails, Stop
<1>2. /\ pc' \in Steps /\ stop' \in BOOLEAN /\ energy' \in Int
      /\ attempts' \in 0..MutatorRounds
  <2>1. pc' \in Steps /\ stop' \in BOOLEAN
    BY DEF ReplayEnds, RunBegins, RunEnds, WalkFails, Mutate, SkipMutation, PhaseEnds,
       PhaseFails, Stop, IInv, RunTypes, Steps
  <2>2. energy' = energy \/ energy' = Energy
    BY DEF ReplayEnds, RunBegins, RunEnds, WalkFails, Mutate, SkipMutation, PhaseEnds,
       PhaseFails, Stop
  <2>3. attempts' = attempts \/ (attempts < MutatorRounds /\ attempts' = attempts + 1)
    BY DEF ReplayEnds, RunBegins, RunEnds, WalkFails, Mutate, SkipMutation, PhaseEnds,
       PhaseFails, Stop
  <2>4. /\ energy \in Int /\ Energy \in Int /\ MutatorRounds \in Nat
        /\ attempts \in 0..MutatorRounds
    BY BoundsAssumption DEF IInv, RunTypes
  <2>5. attempts' \in 0..MutatorRounds BY <2>3, <2>4
  <2> QED BY <2>1, <2>2, <2>4, <2>5
<1>3. RunTypes' BY <1>1, <1>2 DEF IInv, RunTypes, options
<1>4. /\ pc \in {"interact", "judge", "retain"} \/ pc' \notin {"interact", "judge", "retain"}
      /\ pc' \in {"replay", "rounds", "mutate"} /\ ~stop' => counted \subseteq retained
      /\ pc' \in {"head", "walk", "middle", "offline", "interact"} =>
           pc' = pc \/ (pc' = "head" /\ counted \subseteq retained)
      /\ pc' \in {"judge", "retain"} => pc' = pc
      /\ pc = "retain" => pc' = pc
      /\ pc' = "walk" => pc = "walk"
  BY DEF ReplayEnds, RunBegins, RunEnds, WalkFails, Mutate, SkipMutation, PhaseEnds,
     PhaseFails, Stop, IInv, RetainInv
<1> QED BY <1>1, <1>3, <1>4, KeepRound

LEMMA NextIInv == IInv /\ [Next]_vars => IInv'
<1> SUFFICES ASSUME IInv, [Next]_vars PROVE IInv' OBVIOUS
<1>1. CASE UNCHANGED vars
  <2>1. UNCHANGED <<pc, depends, guided, corpus, stop, todo, energy, attempts>>
        /\ UNCHANGED round /\ UNCHANGED results
    BY <1>1 DEF vars, options
  <2>2. RunTypes' BY <2>1 DEF IInv, RunTypes
  <2> QED BY <2>1, <2>2, KeepRound DEF IInv, RetainInv
<1>2. CASE JudgeStopped
  <2>1. /\ pc' = "mutate" /\ RoundIsForgotten /\ stop /\ UNCHANGED results
        /\ UNCHANGED <<depends, guided, corpus, stop, todo, energy, attempts>>
    BY <1>2 DEF JudgeStopped, options
  <2>2. RunTypes' BY <2>1 DEF IInv, RunTypes, Steps
  <2> QED BY <2>1, <2>2, Forgotten DEF IInv, ResultTypes, results
<1>3. ASSUME NEW seq \in todo, NEW greeting \in Greetings, NEW replies \in Replies,
             Replay(seq, greeting, replies)
      PROVE  IInv'
  BY <1>3, ReplayStep
<1>4. CASE \/ ReplayEnds \/ RunBegins \/ RunEnds \/ WalkFails \/ Mutate \/ SkipMutation
           \/ PhaseEnds \/ PhaseFails \/ Stop
  BY <1>4, QuietSteps
<1>5. CASE SelectSeed \/ SelectState \/ SelectRandom \/ SelectUseful BY <1>5, SelectSteps
<1>6. CASE WalkBegins \/ WalkOn \/ WalkEnds \/ SelectMutated BY <1>6, WalkSteps
<1>7. CASE Send BY <1>7, SendStep
<1>8. CASE \/ \E greeting \in Greetings, replies \in Replies : Interact(greeting, replies)
           \/ InteractNothing
  BY <1>8, InteractSteps
<1>9. CASE Credit BY <1>9, CreditStep
<1>10. CASE RoundEnds BY <1>10, RoundEndsStep
<1>11. CASE \E greeting \in Greetings, replies \in Replies : InteractFails(greeting, replies)
  BY <1>11, InteractFailsStep
<1> QED
  BY <1>1, <1>2, <1>3, <1>4, <1>5, <1>6, <1>7, <1>8, <1>9, <1>10, <1>11 DEF Next, Scheduler

LEMMA InitIInv == Init => IInv
<1> SUFFICES ASSUME Init PROVE IInv OBVIOUS
<1> USE DEF Init
<1>1. RunTypes
  <2>1. attempts \in 0..MutatorRounds BY BoundsAssumption
  <2>2. pc \in Steps /\ pc # "walk" BY DEF Steps
  <2>3. todo \subseteq Imported /\ energy \in Int /\ stop \in BOOLEAN
    <3>1. todo = Imported \/ todo = {} OBVIOUS
    <3>2. todo \subseteq Imported BY <3>1, Zenon
    <3>3. energy \in Int BY SMT
    <3>4. stop \in BOOLEAN BY Zenon
    <3> QED BY <3>2, <3>3, <3>4, Zenon
  <2>4. depends \in Relations /\ guided \in BOOLEAN /\ corpus \in BOOLEAN OBVIOUS
  <2> QED BY <2>1, <2>2, <2>3, <2>4, Zenon DEF RunTypes
<1>2. RoundTypes /\ ResultTypes
  <2>1. <<>> \in Seq(Requests) /\ <<>> \in Seq(Messages) /\ "none" \in Seeds BY DEF Seeds
  <2>2. chain = <<>> /\ prefix = <<>> /\ mutated = <<>> /\ sent = <<>> /\ seed = "none"
        /\ base = {} /\ credited = FALSE /\ pc # "walk"
    OBVIOUS
  <2>3. RoundTypes BY <2>1, <2>2, Zenon DEF RoundTypes
  <2>4. ResultTypes BY DEF ResultTypes
  <2> QED BY <2>3, <2>4
<1>3. CreditInv /\ RetainInv BY DEF CreditInv, CreditedIntact, RetainInv
<1> QED BY <1>1, <1>2, <1>3 DEF IInv

LEMMA Invariance == Spec => []IInv
BY InitIInv, NextIInv, PTL DEF Spec

-----------------------------------------------------------------------------
(* What a dependency walk sends                                            *)

PrefixAt(messages) == {i \in DOMAIN messages : messages[i].part = "prefix"}
AllOf(part, messages) == \A i \in 1..Len(messages) : messages[i].part = part

\* An order-preserving choice of types for the prefix part of messages shows its order.
LEMMA OrderWitness ==
  ASSUME NEW types, NEW messages, NEW from \in [PrefixAt(messages) -> DOMAIN types],
         \A i \in PrefixAt(messages) : messages[i].type = types[from[i]],
         \A i, j \in PrefixAt(messages) : i < j => from[i] < from[j]
  PROVE  InOrderOf(types, messages)
BY Zenon DEF InOrderOf, PrefixAt

LEMMA OrderPick ==
  ASSUME NEW types, NEW messages, InOrderOf(types, messages)
  PROVE  \E from \in [PrefixAt(messages) -> DOMAIN types] :
           /\ \A i \in PrefixAt(messages) : messages[i].type = types[from[i]]
           /\ \A i, j \in PrefixAt(messages) : i < j => from[i] < from[j]
BY Zenon DEF InOrderOf, PrefixAt

\* A part of a part is a part.
LEMMA OrderTransitive ==
  ASSUME NEW types, NEW p \in Seq(Messages), NEW messages, AllOf("prefix", p),
         InOrderOf(Types(p), messages), InOrderOf(types, p)
  PROVE  InOrderOf(types, messages)
<1>1. PrefixAt(p) = 1..Len(p) /\ Len(p) \in Nat BY DEF PrefixAt, AllOf
<1>2. DOMAIN Types(p) = 1..Len(p) /\ \A i \in 1..Len(p) : Types(p)[i] = p[i].type BY DEF Types
<1>3. PICK f \in [PrefixAt(messages) -> DOMAIN Types(p)] :
        /\ \A i \in PrefixAt(messages) : messages[i].type = Types(p)[f[i]]
        /\ \A i, j \in PrefixAt(messages) : i < j => f[i] < f[j]
  BY OrderPick
<1>4. PICK g \in [PrefixAt(p) -> DOMAIN types] :
        /\ \A i \in PrefixAt(p) : p[i].type = types[g[i]]
        /\ \A i, j \in PrefixAt(p) : i < j => g[i] < g[j]
  BY OrderPick
<1> DEFINE from == [i \in PrefixAt(messages) |-> g[f[i]]]
<1>5. \A i \in PrefixAt(messages) : f[i] \in PrefixAt(p) BY <1>1, <1>2, <1>3
<1>6. from \in [PrefixAt(messages) -> DOMAIN types]
      /\ \A i \in PrefixAt(messages) : from[i] = g[f[i]]
  BY <1>4, <1>5
<1> HIDE DEF from
<1>7. \A i \in PrefixAt(messages) : messages[i].type = types[from[i]]
  BY <1>1, <1>2, <1>3, <1>4, <1>5, <1>6
<1>8. \A i, j \in PrefixAt(messages) : i < j => from[i] < from[j]
  BY <1>3, <1>4, <1>5, <1>6
<1> QED BY <1>6, <1>7, <1>8, OrderWitness

\* Messages of another part behind, and changed bytes, leave the order of a part alone.
LEMMA OrderOfMore ==
  ASSUME NEW types, NEW body \in Seq(Messages), NEW more \in Seq(Messages),
         InOrderOf(types, body),
         Len(body) <= Len(more),
         \A i \in 1..Len(body) : more[i].type = body[i].type /\ more[i].part = body[i].part,
         \A i \in 1..Len(more) : i > Len(body) => more[i].part # "prefix"
  PROVE  InOrderOf(types, more)
<1>1. Len(body) \in Nat /\ Len(more) \in Nat
      /\ DOMAIN body = 1..Len(body) /\ DOMAIN more = 1..Len(more)
  OBVIOUS
<1>2. PrefixAt(more) = PrefixAt(body) /\ PrefixAt(body) \subseteq 1..Len(body)
  BY <1>1 DEF PrefixAt
<1>3. PICK f \in [PrefixAt(body) -> DOMAIN types] :
        /\ \A i \in PrefixAt(body) : body[i].type = types[f[i]]
        /\ \A i, j \in PrefixAt(body) : i < j => f[i] < f[j]
  BY OrderPick
<1>4. \A i \in PrefixAt(more) : more[i].type = types[f[i]] BY <1>2, <1>3
<1>5. f \in [PrefixAt(more) -> DOMAIN types] /\ \A i, j \in PrefixAt(more) : i < j => f[i] < f[j]
  BY <1>2, <1>3
<1> QED BY <1>4, <1>5, OrderWitness

\* Neither arrangement of a prefix and mutators changes the order of the prefix.
LEMMA AppendedInOrder ==
  ASSUME NEW p \in Seq(Messages), NEW m \in Seq(Messages),
         AllOf("prefix", p), AllOf("mutator", m)
  PROVE  InOrderOf(Types(p), p \o m)
<1> DEFINE f == [i \in 1..Len(p) |-> i]
<1>1. Len(p) \in Nat /\ Len(m) \in Nat /\ Len(p \o m) = Len(p) + Len(m)
      /\ DOMAIN (p \o m) = 1..(Len(p) + Len(m))
  OBVIOUS
<1>2. \A i \in 1..Len(p) : (p \o m)[i] = p[i] OBVIOUS
<1>3. \A i \in 1..(Len(p) + Len(m)) : i > Len(p) =>
        (p \o m)[i] = m[i - Len(p)] /\ i - Len(p) \in 1..Len(m)
  OBVIOUS
<1>4. PrefixAt(p \o m) = 1..Len(p)
  <2>1. \A i \in 1..Len(p) : i \in 1..(Len(p) + Len(m)) /\ (p \o m)[i].part = "prefix"
    BY <1>1, <1>2 DEF AllOf
  <2>2. \A i \in 1..(Len(p) + Len(m)) : i > Len(p) => (p \o m)[i].part # "prefix"
    BY <1>3 DEF AllOf
  <2>3. \A i \in 1..(Len(p) + Len(m)) : i > Len(p) \/ i \in 1..Len(p) BY <1>1
  <2> QED BY <1>1, <2>1, <2>2, <2>3 DEF PrefixAt
<1>5. DOMAIN Types(p) = 1..Len(p) /\ \A i \in 1..Len(p) : Types(p)[i] = p[i].type BY DEF Types
<1>6. f \in [PrefixAt(p \o m) -> DOMAIN Types(p)] /\ \A i \in 1..Len(p) : f[i] = i
  BY <1>4, <1>5
<1> HIDE DEF f
<1>7. \A i \in PrefixAt(p \o m) : (p \o m)[i].type = Types(p)[f[i]]
  BY <1>2, <1>4, <1>5, <1>6
<1>8. \A i, j \in PrefixAt(p \o m) : i < j => f[i] < f[j] BY <1>4, <1>6
<1> QED BY <1>6, <1>7, <1>8, OrderWitness

LEMMA InterleavedInOrder ==
  ASSUME NEW p \in Seq(Messages), NEW m \in Seq(Messages),
         AllOf("prefix", p), AllOf("mutator", m)
  PROVE  InOrderOf(Types(p), Interleaved(p, m))
<1>1. PICK n : n = IF Len(p) < Len(m) THEN Len(p) ELSE Len(m) OBVIOUS
<1>2. /\ Len(p) \in Nat /\ Len(m) \in Nat /\ n \in Nat /\ n <= Len(p) /\ n <= Len(m)
      /\ n = Len(p) \/ n = Len(m)
  BY <1>1
<1>3. PICK b : b = Interleaved(p, m) OBVIOUS
<1>4. b = [i \in 1..Len(p) + Len(m) |->
             IF i > 2 * n THEN IF Len(p) > n THEN p[i - n] ELSE m[i - n]
             ELSE IF i % 2 = 1 THEN p[(i + 1) \div 2] ELSE m[i \div 2]]
  BY <1>1, <1>3 DEF Interleaved
<1> DEFINE at(i) == IF i > 2 * n THEN i - n ELSE (i + 1) \div 2
           f == [i \in PrefixAt(b) |-> at(i)]
<1>5. ASSUME NEW i \in PrefixAt(b)
      PROVE  /\ i \in 1..Len(p) + Len(m) /\ at(i) \in 1..Len(p) /\ b[i] = p[at(i)]
             /\ i > 2 * n \/ i % 2 = 1
  <2>1. i \in 1..Len(p) + Len(m) /\ b[i].part = "prefix" BY <1>4 DEF PrefixAt
  <2>2. b[i] = IF i > 2 * n THEN IF Len(p) > n THEN p[i - n] ELSE m[i - n]
               ELSE IF i % 2 = 1 THEN p[(i + 1) \div 2] ELSE m[i \div 2]
    BY <1>4, <2>1
  <2>3. CASE i > 2 * n /\ Len(p) > n
    <3>1. i - n \in 1..Len(p) BY <1>2, <2>1, <2>3
    <3> QED BY <2>1, <2>2, <2>3, <3>1
  <2>4. CASE i > 2 * n /\ ~(Len(p) > n)
    <3>1. i - n \in 1..Len(m) /\ b[i] = m[i - n] BY <1>2, <2>1, <2>2, <2>4
    <3> QED BY <2>1, <3>1 DEF AllOf
  <2>5. CASE ~(i > 2 * n) /\ i % 2 = 1
    <3>1. (i + 1) \div 2 \in 1..Len(p) BY <1>2, <2>1, <2>5
    <3> QED BY <2>1, <2>2, <2>5, <3>1
  <2>6. CASE ~(i > 2 * n) /\ ~(i % 2 = 1)
    <3>1. i \div 2 \in 1..Len(m) /\ b[i] = m[i \div 2] BY <1>2, <2>1, <2>2, <2>6
    <3> QED BY <2>1, <3>1 DEF AllOf
  <2> QED BY <2>3, <2>4, <2>5, <2>6
<1>6. ASSUME NEW i \in PrefixAt(b), NEW j \in PrefixAt(b), i < j PROVE at(i) < at(j)
  <2>1. /\ i \in Nat /\ j \in Nat
        /\ i > 2 * n \/ i % 2 = 1
        /\ j > 2 * n \/ j % 2 = 1
    BY <1>2, <1>5
  <2>2. CASE i > 2 * n /\ j > 2 * n BY <1>2, <1>6, <2>1, <2>2
  <2>3. CASE ~(i > 2 * n) /\ j > 2 * n
    <3>1. (i + 1) \div 2 <= n BY <1>2, <2>1, <2>3
    <3> QED BY <1>2, <2>1, <2>3, <3>1
  <2>4. CASE ~(i > 2 * n) /\ ~(j > 2 * n)
    <3>1. (i + 1) \div 2 < (j + 1) \div 2 BY <1>6, <2>1, <2>4
    <3> QED BY <2>4, <3>1
  <2> QED BY <1>2, <1>6, <2>1, <2>2, <2>3, <2>4
<1>7. DOMAIN Types(p) = 1..Len(p) /\ \A i \in 1..Len(p) : Types(p)[i] = p[i].type BY DEF Types
<1> HIDE DEF at
<1>8. f \in [PrefixAt(b) -> DOMAIN Types(p)] /\ \A i \in PrefixAt(b) : f[i] = at(i)
  BY <1>5, <1>7
<1> HIDE DEF f
<1>9. \A i \in PrefixAt(b) : b[i].type = Types(p)[f[i]] BY <1>5, <1>7, <1>8
<1>10. \A i, j \in PrefixAt(b) : i < j => f[i] < f[j] BY <1>6, <1>8
<1> QED BY <1>3, <1>8, <1>9, <1>10, OrderWitness

\* What the generators deliver of a chain is in its order.
LEMMA DeliveredInOrder ==
  ASSUME NEW types \in Seq(Symbols), NEW made \in Delivered(types)
  PROVE  /\ InOrderOf(types, Made(made, "prefix"))
         /\ AllOf("prefix", Made(made, "prefix"))
<1>1. PICK p \in Picks(Len(types)) : made = [i \in DOMAIN p |-> types[p[i]]] BY DEF Delivered
<1>2. PICK k \in 0..Len(types) :
        p \in [1..k -> 1..Len(types)] /\ \A i, j \in 1..k : i < j => p[i] < p[j]
  BY DEF Picks
<1>3. k \in Nat /\ DOMAIN types = 1..Len(types) BY <1>2
<1>4. made \in Seq(Symbols) BY DeliveredType
<1>5. Len(made) = k /\ \A i \in 1..k : made[i] = types[p[i]] BY <1>1, <1>2, <1>3
<1>6. PICK b : b = Made(made, "prefix") OBVIOUS
<1>7. /\ b \in Seq(Messages) /\ Len(b) = k
      /\ \A i \in 1..k : b[i].type = made[i] /\ b[i].part = "prefix"
  <2>1. "prefix" \in Parts BY DEF Parts
  <2>2. b \in Seq(Messages) /\ Len(b) = k BY <1>4, <1>5, <1>6, <2>1, MadeType
  <2>3. \A i \in 1..k : b[i] = [type |-> made[i], part |-> "prefix", intact |-> TRUE]
    BY <1>4, <1>5, <1>6, <2>1, MadeType
  <2> QED BY <2>2, <2>3
<1>8. PrefixAt(b) = 1..k BY <1>7 DEF PrefixAt
<1>9. AllOf("prefix", b) BY <1>7 DEF AllOf
<1>10. InOrderOf(types, b)
  <2>1. p \in [PrefixAt(b) -> DOMAIN types] BY <1>2, <1>3, <1>8
  <2>2. \A i \in PrefixAt(b) : b[i].type = types[p[i]] BY <1>5, <1>7, <1>8
  <2>3. \A i, j \in PrefixAt(b) : i < j => p[i] < p[j] BY <1>2, <1>8
  <2> QED BY <2>1, <2>2, <2>3, OrderWitness
<1> QED BY <1>6, <1>9, <1>10

\* Each request of the chain comes after one it depends on; the prefix is in its order,
\* which mutators between and behind leave alone.
ChainDepends == \A i \in 2..Len(chain) : chain[i - 1] \in Dependencies(chain[i])
WalkInv ==
  /\ ChainDepends
  /\ pc \in {"middle", "offline"} /\ chain # <<>> =>
       InOrderOf(chain, prefix) /\ AllOf("prefix", prefix)
  /\ pc = "offline" => AllOf("mutator", mutated)
  /\ pc = "interact" /\ chain # <<>> => InOrderOf(chain, sent)

LEMMA WalkOnOrder ==
  ASSUME IInv, WalkInv, WalkOn
  PROVE  WalkInv'
<1>1. PICK r \in Dependencies(Head(chain)) : chain' = <<r>> \o chain BY DEF WalkOn
<1>2. chain \in Seq(Requests) /\ chain # <<>> /\ pc = "walk" /\ pc' = "walk"
      /\ depends' = depends
  BY DEF WalkOn, IInv, RoundTypes, options
<1>3. r \in Requests BY <1>1, RequestsAssumption DEF Dependencies
<1>4. Len(chain) \in Nat /\ Len(chain') = Len(chain) + 1 /\ chain'[1] = r
      /\ \A i \in 1..Len(chain) : chain'[i + 1] = chain[i]
  BY <1>1, <1>2, <1>3
<1>5. Head(chain) = chain[1] BY <1>2
<1>6. \A x : Dependencies(x)' = Dependencies(x) BY <1>2 DEF Dependencies
<1>7. ASSUME NEW i \in 2..Len(chain') PROVE chain'[i - 1] \in Dependencies(chain'[i])
  <2>1. PICK j \in 1..Len(chain) : i = j + 1 /\ i - 1 = j
    <3>1. i - 1 \in 1..Len(chain) /\ i = (i - 1) + 1 BY <1>4
    <3> QED BY <3>1
  <2>2. chain'[i] = chain[j] BY <1>4, <2>1
  <2>3. CASE j = 1 BY <1>1, <1>4, <1>5, <2>1, <2>2, <2>3
  <2>4. CASE j # 1
    <3>1. PICK k \in 1..Len(chain) : j = k + 1 /\ j - 1 = k
      <4>1. j - 1 \in 1..Len(chain) /\ j = (j - 1) + 1 BY <1>4, <2>4
      <4> QED BY <4>1
    <3>2. chain'[j] = chain[k] BY <1>4, <3>1
    <3>3. j \in 2..Len(chain) BY <1>4, <2>4
    <3>4. chain[j - 1] \in Dependencies(chain[j]) BY <3>3 DEF WalkInv, ChainDepends
    <3> QED BY <2>1, <2>2, <3>1, <3>2, <3>4
  <2> QED BY <2>3, <2>4
<1>8. ChainDepends' BY <1>6, <1>7 DEF ChainDepends
<1> QED BY <1>2, <1>8 DEF WalkInv

LEMMA SendOrder ==
  ASSUME IInv, WalkInv, Send, chain # <<>>
  PROVE  InOrderOf(chain, sent')
<1>1. /\ pc = "offline" /\ prefix \in Seq(Messages) /\ mutated \in Seq(Messages)
      /\ InOrderOf(chain, prefix) /\ AllOf("prefix", prefix) /\ AllOf("mutator", mutated)
  BY DEF Send, IInv, RoundTypes, WalkInv
<1>2. PICK body \in Arrangements, suffix \in Sequences(MaxPart) \cup {<<>>} :
        \E changed \in Mutations(Len(body \o Made(suffix, "suffix"))) :
          sent' = [i \in DOMAIN (body \o Made(suffix, "suffix")) |->
                     [(body \o Made(suffix, "suffix"))[i] EXCEPT !.intact = @ /\ i \notin changed]]
  BY DEF Send
<1>3. body \in Seq(Messages) /\ InOrderOf(Types(prefix), body)
  <2>1. body = prefix \o mutated \/ body = Interleaved(prefix, mutated)
    BY DEF Arrangements
  <2>2. CASE body = prefix \o mutated BY <1>1, <2>2, AppendedInOrder
  <2>3. CASE body = Interleaved(prefix, mutated)
    BY <1>1, <2>3, InterleavedType, InterleavedInOrder
  <2> QED BY <2>1, <2>2, <2>3
<1>4. InOrderOf(chain, body) BY <1>1, <1>3, OrderTransitive
<1>5. PICK end : end = Made(suffix, "suffix") OBVIOUS
<1>6. /\ end \in Seq(Messages)
      /\ \A i \in 1..Len(end) : end[i].part # "prefix"
  <2>1. MaxPart \in Nat /\ "suffix" \in Parts BY BoundsAssumption DEF Parts
  <2>2. suffix \in Seq(Symbols) BY <2>1, SequencesType
  <2>3. /\ Made(suffix, "suffix") \in Seq(Messages)
        /\ Len(Made(suffix, "suffix")) = Len(suffix)
        /\ \A i \in 1..Len(suffix) : Made(suffix, "suffix")[i] =
             [type |-> suffix[i], part |-> "suffix", intact |-> TRUE]
    BY <2>1, <2>2, MadeType
  <2>4. end \in Seq(Messages) /\ Len(end) = Len(suffix) BY <1>5, <2>3
  <2>5. ASSUME NEW i \in 1..Len(end) PROVE end[i].part # "prefix"
    <3>1. end[i] = [type |-> suffix[i], part |-> "suffix", intact |-> TRUE]
      BY <1>5, <2>3, <2>4
    <3> QED BY <3>1
  <2> QED BY <2>4, <2>5
<1>7. PICK whole : whole = body \o end OBVIOUS
<1>8. /\ whole \in Seq(Messages) /\ Len(body) <= Len(whole)
      /\ \A i \in 1..Len(body) : whole[i] = body[i]
      /\ \A i \in 1..Len(whole) : i > Len(body) =>
           whole[i] = end[i - Len(body)] /\ i - Len(body) \in 1..Len(end)
  BY <1>3, <1>6, <1>7
<1>9. PICK changed : sent' = [i \in DOMAIN whole |-> [whole[i] EXCEPT !.intact = @ /\ i \notin changed]]
  BY <1>2, <1>5, <1>7
<1>10. sent' \in Seq(Messages) BY SendStep DEF IInv, RoundTypes
<1>11. DOMAIN whole = 1..Len(whole) /\ Len(whole) \in Nat
       /\ \A i \in 1..Len(whole) : whole[i] \in [type : Symbols, part : Parts, intact : BOOLEAN]
  <2>1. \A i \in 1..Len(whole) : whole[i] \in Messages BY <1>8
  <2>2. DOMAIN whole = 1..Len(whole) /\ Len(whole) \in Nat BY <1>8
  <2> QED BY <2>1, <2>2 DEF Messages
<1>12. Len(sent') = Len(whole)
       /\ \A i \in 1..Len(whole) : sent'[i].type = whole[i].type /\ sent'[i].part = whole[i].part
  BY <1>9, <1>10, <1>11
<1>13. /\ Len(body) <= Len(sent')
       /\ \A i \in 1..Len(body) : sent'[i].type = body[i].type /\ sent'[i].part = body[i].part
       /\ \A i \in 1..Len(sent') : i > Len(body) => sent'[i].part # "prefix"
  <2>1. Len(body) \in Nat BY <1>3
  <2>2. \A i \in 1..Len(body) : i \in 1..Len(whole) BY <1>8, <1>11, <2>1
  <2>3. ASSUME NEW i \in 1..Len(sent'), i > Len(body) PROVE sent'[i].part # "prefix"
    <3>1. i \in 1..Len(whole) BY <1>12
    <3>2. whole[i] = end[i - Len(body)] /\ i - Len(body) \in 1..Len(end) BY <1>8, <2>3, <3>1
    <3>3. whole[i].part # "prefix" BY <1>6, <3>2
    <3> QED BY <1>12, <3>1, <3>3
  <2> QED BY <1>8, <1>12, <2>2, <2>3
<1> QED BY <1>3, <1>4, <1>10, <1>13, OrderOfMore

LEMMA WalkInvStep == IInv /\ WalkInv /\ [Next]_vars => WalkInv'
<1> SUFFICES ASSUME IInv, WalkInv, [Next]_vars PROVE WalkInv' OBVIOUS
<1>1. ASSUME depends' = depends, chain' = chain PROVE ChainDepends'
  BY <1>1 DEF WalkInv, ChainDepends, Dependencies
<1>2. ASSUME depends' = depends, chain' = <<>> PROVE WalkInv' \/ pc' = "offline"
  <2>1. 2..Len(chain') = {} BY <1>2
  <2>2. ChainDepends' BY <2>1 DEF ChainDepends
  <2> QED BY <1>2, <2>2 DEF WalkInv
<1>3. ASSUME UNCHANGED round, depends' = depends,
             pc' \in {"middle", "offline", "interact"} => pc' = pc
      PROVE  WalkInv'
  <2>1. UNCHANGED <<chain, prefix, mutated, sent>> BY <1>3 DEF round
  <2>2. ChainDepends' BY <1>1, <1>3, <2>1
  <2>3. /\ InOrderOf(chain, prefix) => InOrderOf(chain', prefix')
        /\ InOrderOf(chain, sent) => InOrderOf(chain', sent')
        /\ AllOf("prefix", prefix) => AllOf("prefix", prefix')
        /\ AllOf("mutator", mutated) => AllOf("mutator", mutated')
    BY <2>1
  <2> QED BY <1>3, <2>1, <2>2, <2>3 DEF WalkInv
<1>4. CASE UNCHANGED vars BY <1>3, <1>4 DEF vars, options
<1>5. CASE \/ JudgeStopped \/ RoundEnds
           \/ \E greeting \in Greetings, replies \in Replies : InteractFails(greeting, replies)
  BY <1>2, <1>5 DEF JudgeStopped, RoundEnds, InteractFails, RoundIsForgotten, options
<1>6. CASE \/ \E seq \in todo, greeting \in Greetings, replies \in Replies :
                Replay(seq, greeting, replies)
           \/ ReplayEnds \/ RunBegins \/ RunEnds \/ WalkFails \/ Mutate \/ SkipMutation
           \/ PhaseEnds \/ PhaseFails \/ Stop
  <2>1. UNCHANGED round /\ depends' = depends
    BY <1>6 DEF Replay, ReplayEnds, RunBegins, RunEnds, WalkFails, Mutate, SkipMutation,
       PhaseEnds, PhaseFails, Stop, options
  <2>2. pc' \in {"middle", "offline", "interact"} => pc' = pc
    BY <1>6 DEF Replay, ReplayEnds, RunBegins, RunEnds, WalkFails, Mutate, SkipMutation,
       PhaseEnds, PhaseFails, Stop
  <2> QED BY <1>3, <2>1, <2>2
<1>7. CASE SelectSeed \/ SelectState \/ SelectRandom \/ SelectUseful
  <2>1. \E types, newBase, newSeed : SelectPrefix(types, newBase, newSeed)
    BY <1>7 DEF SelectSeed, SelectState, SelectRandom, SelectUseful
  <2>2. depends' = depends /\ chain' = <<>> /\ pc' = "middle"
    BY <2>1 DEF SelectPrefix, options
  <2> QED BY <1>2, <2>2
<1>8. CASE WalkBegins
  <2>1. depends' = depends /\ pc' = "walk" /\ \E r : chain' = <<r>>
    BY <1>8 DEF WalkBegins, options
  <2>2. 2..Len(chain') = {} BY <2>1
  <2> QED BY <2>1, <2>2 DEF WalkInv, ChainDepends
<1>9. CASE WalkOn BY <1>9, WalkOnOrder
<1>10. CASE WalkEnds
  <2>1. /\ depends' = depends /\ chain' = chain /\ pc' = "middle"
        /\ \E types \in Delivered(chain) : prefix' = Made(types, "prefix")
    BY <1>10 DEF WalkEnds, options
  <2>2. chain \in Seq(Symbols)
    <3>1. chain \in Seq(Requests) /\ Requests \subseteq Symbols BY DEF IInv, RoundTypes, Symbols
    <3> QED BY <3>1
  <2>3. InOrderOf(chain, prefix') /\ AllOf("prefix", prefix') BY <2>1, <2>2, DeliveredInOrder
  <2>4. InOrderOf(chain', prefix') BY <2>1, <2>3
  <2>5. ChainDepends' BY <1>1, <2>1
  <2> QED BY <2>1, <2>3, <2>4, <2>5 DEF WalkInv, AllOf, InOrderOf
<1>11. CASE SelectMutated
  <2>1. /\ depends' = depends /\ UNCHANGED <<chain, prefix>> /\ pc = "middle" /\ pc' = "offline"
    BY <1>11 DEF SelectMutated, options
  <2>2. PICK types \in Sequences(MaxPart) \cup {<<>>} : mutated' = Made(types, "mutator")
    BY <1>11 DEF SelectMutated
  <2>3. types \in Seq(Symbols) /\ "mutator" \in Parts
    BY SequencesType, BoundsAssumption DEF Parts
  <2>4. /\ Len(mutated') = Len(types)
        /\ \A i \in 1..Len(types) :
             mutated'[i] = [type |-> types[i], part |-> "mutator", intact |-> TRUE]
    BY <2>2, <2>3, MadeType
  <2>5. AllOf("mutator", mutated')
    <3> SUFFICES ASSUME NEW i \in 1..Len(mutated') PROVE mutated'[i].part = "mutator"
      BY DEF AllOf
    <3>1. mutated'[i] = [type |-> types[i], part |-> "mutator", intact |-> TRUE] BY <2>4
    <3> QED BY <3>1
  <2>6. ChainDepends' BY <1>1, <2>1
  <2>7. chain' # <<>> => InOrderOf(chain', prefix') /\ AllOf("prefix", prefix')
    BY <2>1 DEF WalkInv
  <2> QED BY <2>1, <2>5, <2>6, <2>7 DEF WalkInv
<1>12. CASE Send
  <2>1. depends' = depends /\ chain' = chain /\ pc' = "interact" BY <1>12 DEF Send, options
  <2>2. chain # <<>> => InOrderOf(chain, sent') BY <1>12, SendOrder
  <2>3. ChainDepends' BY <1>1, <2>1
  <2> QED BY <2>1, <2>2, <2>3 DEF WalkInv, InOrderOf
<1>13. CASE \/ \E greeting \in Greetings, replies \in Replies : Interact(greeting, replies)
            \/ InteractNothing \/ Credit
  <2>1. depends' = depends /\ chain' = chain /\ pc' \in {"judge", "retain"}
    BY <1>13 DEF Interact, InteractNothing, Credit, options
  <2>2. ChainDepends' BY <1>1, <2>1
  <2> QED BY <2>1, <2>2 DEF WalkInv
<1> QED
  BY <1>4, <1>5, <1>6, <1>7, <1>8, <1>9, <1>10, <1>11, <1>12, <1>13 DEF Next, Scheduler

-----------------------------------------------------------------------------
(* The theorems                                                            *)

\* Every variable of the scheduler keeps its type, whatever was drawn, interleaved and
\* mutated (Fuzzer.berserker_fuzz, Berserker.run).
THEOREM TypeCorrect == Spec => []TypeOK
<1>1. IInv => TypeOK BY DEF IInv, RunTypes, RoundTypes, ResultTypes, TypeOK
<1> QED BY <1>1, Invariance, PTL

\* A state of the machine is credited only with a sequence that begins with its access
\* sequence, as the generators made it (Berserker.run, update_state_feedback,
\* OfflineMutator.mutate_sequence).
THEOREM CreditIsIntact == Spec => []CreditedIntact
<1>1. IInv => CreditedIntact BY DEF IInv, CreditInv
<1> QED BY <1>1, Invariance, PTL

\* When a round begins, every transition that was ever counted is in a conversation that
\* was saved or imported (Berserker.analyze_cons, SeedRetentionPolicy.observe).
THEOREM TransitionsAreRetained == Spec => []NewTransitionsRetained
<1>1. IInv => NewTransitionsRetained BY DEF IInv, RetainInv, NewTransitionsRetained
<1> QED BY <1>1, Invariance, PTL

\* What a dependency walk sends comes in its order, and each request of the walk after one
\* it depends on, for any dependencies, failing generators and interleaved mutators
\* (Berserker.run, select_generators).
THEOREM WalksAreInOrder == Spec => []DependenciesFirst
<1>1. Init => WalkInv
  <2> SUFFICES ASSUME Init PROVE WalkInv OBVIOUS
  <2>1. chain = <<>> /\ pc = "replay" BY DEF Init
  <2>2. 2..Len(chain) = {} BY <2>1
  <2> QED BY <2>1, <2>2 DEF WalkInv, ChainDepends
<1>2. WalkInv => DependenciesFirst BY DEF WalkInv, ChainDepends, DependenciesFirst
<1> QED BY <1>1, <1>2, Invariance, WalkInvStep, PTL DEF Spec

-----------------------------------------------------------------------------
(* How long a walk is                                                      *)

\* The requests a walk has left behind are different, and each has dependencies.
LeftBehind ==
  \A i \in 2..Len(chain) :
    /\ chain[i] \in DepAlphabet
    /\ \A j \in 2..Len(chain) : chain[i] = chain[j] => i = j
ShortInv == pc = "walk" => LeftBehind

LEMMA ShortWalkOn ==
  ASSUME IInv, ShortInv, WalkOn
  PROVE  ShortInv'
<1>1. PICK r \in Dependencies(Head(chain)) : chain' = <<r>> \o chain BY DEF WalkOn
<1>2. chain \in Seq(Requests) /\ chain # <<>> /\ ~WalkIsOver /\ LeftBehind /\ depends' = depends
  BY DEF WalkOn, IInv, RoundTypes, ShortInv, options
<1>3. r \in Requests BY <1>1, RequestsAssumption DEF Dependencies
<1>4. Len(chain) \in Nat /\ Len(chain') = Len(chain) + 1
      /\ \A i \in 1..Len(chain) : chain'[i + 1] = chain[i]
  BY <1>1, <1>2, <1>3
<1>5. chain[1] \in DepAlphabet /\ \A i \in 2..Len(chain) : chain[i] # chain[1]
  <2>1. Head(chain) = chain[1] /\ Head(chain) \in DepAlphabet
        /\ Head(chain) \notin Range(Tail(chain))
    BY <1>2 DEF WalkIsOver
  <2>2. ASSUME NEW i \in 2..Len(chain) PROVE chain[i] # chain[1]
    <3>1. PICK j : j = i - 1 OBVIOUS
    <3>2. j \in DOMAIN Tail(chain) /\ Tail(chain)[j] = chain[i] BY <1>2, <3>1
    <3>3. chain[i] \in Range(Tail(chain)) BY <3>2 DEF Range
    <3> QED BY <2>1, <3>3
  <2> QED BY <2>1, <2>2
<1>6. DepAlphabet' = DepAlphabet BY <1>2 DEF DepAlphabet
<1>7. ASSUME NEW i \in 2..Len(chain')
      PROVE  \E k \in 1..Len(chain) : i = k + 1 /\ chain'[i] = chain[k]
  <2>1. PICK k : k = i - 1 OBVIOUS
  <2>2. k \in 1..Len(chain) /\ i = k + 1 BY <1>4, <2>1
  <2> QED BY <1>4, <2>2
<1>8. \A k \in 1..Len(chain) : k = 1 \/ k \in 2..Len(chain) BY <1>4
<1>9. ASSUME NEW i \in 2..Len(chain'), NEW j \in 2..Len(chain')
      PROVE  chain'[i] \in DepAlphabet /\ (chain'[i] = chain'[j] => i = j)
  <2>1. PICK k \in 1..Len(chain) : i = k + 1 /\ chain'[i] = chain[k] BY <1>7
  <2>2. PICK m \in 1..Len(chain) : j = m + 1 /\ chain'[j] = chain[m] BY <1>7
  <2>3. chain[k] \in DepAlphabet BY <1>2, <1>5, <1>8 DEF LeftBehind
  <2>4. ASSUME chain[k] = chain[m] PROVE k = m BY <1>2, <1>5, <1>8, <2>4 DEF LeftBehind
  <2> QED BY <2>1, <2>2, <2>3, <2>4
<1>10. LeftBehind' BY <1>6, <1>9 DEF LeftBehind
<1> QED BY <1>10 DEF ShortInv

LEMMA ShortStep == IInv /\ ShortInv /\ [Next]_vars => ShortInv'
<1> SUFFICES ASSUME IInv, ShortInv, [Next]_vars PROVE ShortInv' OBVIOUS
<1>1. CASE WalkOn BY <1>1, ShortWalkOn
<1>2. CASE WalkBegins
  <2>1. \E r : chain' = <<r>> BY <1>2 DEF WalkBegins
  <2>2. 2..Len(chain') = {} BY <2>1
  <2> QED BY <2>2 DEF ShortInv, LeftBehind
<1>3. CASE ~WalkOn /\ ~WalkBegins
  <2>1. pc' # "walk" \/ (pc' = pc /\ UNCHANGED <<chain, depends>>)
    BY <1>3 DEF Next, Scheduler, Replay, ReplayEnds, RunBegins, RunEnds, SelectSeed, SelectState,
       SelectRandom, SelectUseful, SelectPrefix, WalkEnds, WalkFails, SelectMutated, Send,
       Interact, InteractFails, InteractNothing, JudgeStopped, Credit, RoundEnds, Mutate, SkipMutation,
       PhaseEnds, PhaseFails, Stop, vars, round, options, RoundIsForgotten
  <2> QED BY <2>1 DEF ShortInv, LeftBehind, DepAlphabet
<1> QED BY <1>1, <1>2, <1>3

LEMMA ShortInit == Init => ShortInv
BY DEF Init, ShortInv

\* So a walk has at most one request more than there are requests with a generator.
LEMMA WalkLength ==
  ASSUME IInv, ShortInv, pc = "walk", IsFiniteSet(Available)
  PROVE  Len(chain) \in 1..Cardinality(Available) + 1
<1>1. chain \in Seq(Requests) /\ chain # <<>> /\ LeftBehind
  BY DEF IInv, RoundTypes, ShortInv
<1>2. PICK n : n = Len(chain) OBVIOUS
<1>3. n \in Nat \ {0} BY <1>1, <1>2
<1> DEFINE f == [i \in 2..n |-> chain[i]]
<1>4. f \in Injection(2..n, DepAlphabet)
  <2>1. f \in [2..n -> DepAlphabet] BY <1>1, <1>2 DEF LeftBehind
  <2>2. \A i, j \in 2..n : f[i] = f[j] => i = j BY <1>1, <1>2 DEF LeftBehind
  <2> HIDE DEF f
  <2> QED BY <2>1, <2>2 DEF Injection, IsInjective
<1>5. IsFiniteSet(DepAlphabet) /\ Cardinality(DepAlphabet) <= Cardinality(Available)
  <2>1. DepAlphabet \in SUBSET Available BY DEF DepAlphabet
  <2> QED BY <2>1, FS_Subset
<1> HIDE DEF f
<1>6. Cardinality(2..n) <= Cardinality(DepAlphabet) BY <1>4, <1>5, FS_Injection
<1>7. Cardinality(2..n) = n - 1
  <2>1. Cardinality(2..n) = IF 2 > n THEN 0 ELSE n - 2 + 1 BY <1>3, FS_Interval
  <2> QED BY <1>3, <2>1
<1>8. Cardinality(DepAlphabet) \in Nat /\ Cardinality(Available) \in Nat
  BY <1>5, FS_CardinalityType
<1> QED BY <1>2, <1>3, <1>5, <1>6, <1>7, <1>8

-----------------------------------------------------------------------------
(* The energy of a run                                                     *)

RoundSteps == {"head", "walk", "middle", "offline", "interact", "judge", "retain"}
EnergyInv ==
  /\ pc \in RoundSteps \ {"head"} => energy >= 0
  /\ pc = "head" => energy >= -1

\* What is left to find pays for one more round each time, the one that finds it included:
\* a transition is worth the energy it gives and the energy the round would have cost.
AllTransitions == (Responses \cup {"-"}) \X Responses
ToFind == Cardinality(AllTransitions \ counted)
Pending == IF pc \in {"judge", "retain"} /\ guided /\ counted # before THEN 2 ELSE 0
Fuel == energy + 2 * ToFind + Pending

\* Where a round is; a walk gets shorter with every request it adds.
Place ==
  CASE pc = "head" -> Cardinality(Available) + 8
    [] pc = "walk" -> Cardinality(Available) + 7 - Len(chain)
    [] pc = "middle" -> 5 [] pc = "offline" -> 4 [] pc = "interact" -> 3
    [] pc = "judge" -> 2 [] pc = "retain" -> 1 [] OTHER -> 0

LEMMA EnergyStep == IInv /\ EnergyInv /\ [Next]_vars => EnergyInv'
<1> SUFFICES ASSUME IInv, EnergyInv, [Next]_vars PROVE EnergyInv' OBVIOUS
<1>0. energy \in Int /\ energy' \in Int /\ Energy \in Nat /\ pc \in Steps
  BY NextIInv, BoundsAssumption DEF IInv, RunTypes
<1>1. CASE RunBegins BY <1>0, <1>1 DEF RunBegins, EnergyInv, RoundSteps
<1>2. CASE RoundEnds
  <2>1. Gain \in {1, -1} /\ energy' = energy + Gain /\ energy >= 0 /\ pc' = "head"
    BY <1>2 DEF RoundEnds, Gain, EnergyInv, RoundSteps
  <2> QED BY <1>0, <2>1 DEF EnergyInv, RoundSteps
<1>3. CASE WalkBegins \/ \E types, newBase, newSeed : SelectPrefix(types, newBase, newSeed)
  <2>1. EnergyLeft /\ energy' = energy /\ pc' \in RoundSteps \ {"head"}
    BY <1>3 DEF WalkBegins, SelectPrefix, RoundSteps
  <2>2. energy >= 0 BY <1>0, <2>1 DEF EnergyLeft
  <2> QED BY <1>0, <2>1, <2>2 DEF EnergyInv, RoundSteps
<1>4. CASE ~RunBegins /\ ~RoundEnds /\ ~WalkBegins
           /\ ~\E types, newBase, newSeed : SelectPrefix(types, newBase, newSeed)
  <2>1. ~SelectSeed /\ ~SelectState /\ ~SelectRandom /\ ~SelectUseful
    BY <1>4 DEF SelectSeed, SelectState, SelectRandom, SelectUseful
  <2>2. /\ energy' = energy
        /\ pc' = pc \/ pc' \notin RoundSteps \/ {pc, pc'} \subseteq RoundSteps \ {"head"}
    BY <1>4, <2>1 DEF Next, Scheduler, Replay, ReplayEnds, RunEnds,
       WalkOn, WalkEnds, WalkFails, SelectMutated, Send,
       Interact, InteractFails, InteractNothing, JudgeStopped, Credit, Mutate, SkipMutation,
       PhaseEnds, PhaseFails, Stop, vars, round, options, RoundSteps
  <2> QED BY <1>0, <2>2 DEF EnergyInv, RoundSteps
<1> QED BY <1>1, <1>2, <1>3, <1>4

LEMMA EnergyInit == Init => EnergyInv
BY DEF Init, EnergyInv, RoundSteps

LEMMA ToFindFalls ==
  ASSUME IsFiniteSet(Responses), counted \subseteq counted', counted' \subseteq AllTransitions
  PROVE  /\ ToFind \in Nat /\ ToFind' \in Nat /\ ToFind' <= ToFind
         /\ counted' # counted => ToFind' < ToFind
<1>1. IsFiniteSet(AllTransitions)
  <2>1. IsFiniteSet(Responses \cup {"-"}) BY FS_AddElement
  <2> QED BY <2>1, FS_Product DEF AllTransitions
<1> DEFINE S == AllTransitions \ counted
           T == AllTransitions \ counted'
<1>2. S \in SUBSET AllTransitions /\ T \in SUBSET S OBVIOUS
<1>3. counted' # counted => S # T OBVIOUS
<1>4. ToFind = Cardinality(S) /\ ToFind' = Cardinality(T) BY DEF ToFind, AllTransitions
<1> HIDE DEF S, T
<1>5. IsFiniteSet(S) BY <1>1, <1>2, FS_Subset
<1>6. IsFiniteSet(T) /\ Cardinality(T) <= Cardinality(S)
      /\ (Cardinality(S) = Cardinality(T) => S = T)
  BY <1>2, <1>5, FS_Subset
<1>7. Cardinality(S) \in Nat /\ Cardinality(T) \in Nat BY <1>5, <1>6, FS_CardinalityType
<1> QED BY <1>3, <1>4, <1>6, <1>7

LEMMA FuelFalls ==
  ASSUME IInv, [Next]_vars, pc \in RoundSteps, IsFiniteSet(Responses)
  PROVE  Fuel' <= Fuel /\ (RoundEnds => Fuel' < Fuel)
<1>1. /\ IInv' /\ energy \in Int /\ energy' \in Int BY NextIInv DEF IInv, RunTypes
<1>2. counted \subseteq counted' /\ counted' \subseteq AllTransitions
  <2>1. counted \subseteq counted'
    BY DEF Next, Scheduler, Replay, ReplayEnds, RunBegins, RunEnds, SelectSeed, SelectState,
       SelectRandom, SelectUseful, SelectPrefix, WalkBegins, WalkOn, WalkEnds, WalkFails,
       SelectMutated, Send, Interact, InteractFails, InteractNothing, JudgeStopped, Credit, RoundEnds, Mutate,
       SkipMutation, PhaseEnds, PhaseFails, Stop, vars, results
  <2> QED BY <1>1, <2>1 DEF IInv, ResultTypes, AllTransitions
<1>3. /\ ToFind \in Nat /\ ToFind' \in Nat /\ ToFind' <= ToFind
      /\ counted' # counted => ToFind' < ToFind
  BY <1>2, ToFindFalls
<1>4. Pending \in {0, 2} /\ Pending' \in {0, 2} BY DEF Pending
<1>5. PICK e, f, p, q : e = ToFind /\ f = ToFind' /\ p = Pending /\ q = Pending' OBVIOUS
<1>6. ASSUME energy' = energy, q <= p \/ (q = 2 /\ p = 0 /\ counted' # counted)
      PROVE  Fuel' <= Fuel
  <2>1. f < e \/ (f <= e /\ q <= p) BY <1>3, <1>5, <1>6
  <2>2. energy + 2 * f + q <= energy + 2 * e + p
    <3>1. e \in Nat /\ f \in Nat /\ p \in {0, 2} /\ q \in {0, 2} BY <1>3, <1>4, <1>5
    <3>2. CASE f < e
      <4>1. 2 * f + 2 <= 2 * e BY <3>1, <3>2
      <4> QED BY <1>1, <3>1, <4>1
    <3>3. CASE f <= e /\ q <= p BY <1>1, <3>1, <3>3
    <3> QED BY <2>1, <3>2, <3>3
  <2> QED BY <1>5, <1>6, <2>2 DEF Fuel
<1>7. CASE RoundEnds
  <2>1. /\ energy' = energy + Gain /\ counted' = counted /\ pc = "retain" /\ pc' = "head"
    BY <1>7 DEF RoundEnds
  <2>2. f = e /\ q = 0 /\ Gain = (IF p = 2 THEN 1 ELSE -1)
    BY <1>5, <2>1 DEF Gain, Pending, ToFind, AllTransitions
  <2>3. energy' + 2 * f + q < energy + 2 * e + p BY <1>1, <1>3, <1>4, <1>5, <2>1, <2>2
  <2>4. Fuel' < Fuel BY <1>5, <2>3 DEF Fuel
  <2>5. PICK m, k : m = Fuel /\ k = Fuel' OBVIOUS
  <2>6. m \in Int /\ k \in Int
    <3>1. \A x \in Int, y \in Nat, z \in {0, 2} : x + 2 * y + z \in Int OBVIOUS
    <3>2. Fuel \in Int /\ Fuel' \in Int BY <1>1, <1>3, <1>4, <3>1, Zenon DEF Fuel
    <3> QED BY <2>5, <3>2
  <2>7. k <= m BY <2>4, <2>5, <2>6
  <2> QED BY <2>4, <2>5, <2>7
<1>8. ASSUME NEW greeting \in Greetings, NEW replies \in Replies, Interact(greeting, replies)
      PROVE  Fuel' <= Fuel
  <2>1. energy' = energy /\ pc = "interact" /\ before' = before BY <1>8 DEF Interact
  <2>2. before = counted BY <2>1 DEF IInv, RetainInv
  <2>3. p = 0 /\ (q = 2 => counted' # counted)
    BY <1>5, <2>1, <2>2 DEF Pending
  <2>4. q <= p \/ (q = 2 /\ p = 0 /\ counted' # counted) BY <1>4, <1>5, <2>3
  <2> QED BY <1>6, <2>1, <2>4
<1>9. ASSUME NEW greeting \in Greetings, NEW replies \in Replies,
             InteractFails(greeting, replies)
      PROVE  Fuel' <= Fuel
  <2>1. energy' = energy /\ pc' = "failing" BY <1>9 DEF InteractFails
  <2>2. q = 0 BY <1>5, <2>1 DEF Pending
  <2> QED BY <1>4, <1>5, <1>6, <2>1, <2>2
<1>10. CASE ~RoundEnds /\ ~\E greeting \in Greetings, replies \in Replies :
                             Interact(greeting, replies) \/ InteractFails(greeting, replies)
  <2>1. energy' = energy /\ counted' = counted /\ guided' = guided
        /\ (pc' \in {"judge", "retain"} =>
              before' = before /\ (pc \in {"judge", "retain"} \/ counted = before))
    <3>1. pc = "interact" => counted = before BY DEF IInv, RetainInv
    <3> QED
      BY <1>10, <3>1 DEF Next, Scheduler, Replay, ReplayEnds, RunBegins, RunEnds, SelectSeed,
       SelectState, SelectRandom, SelectUseful, SelectPrefix, WalkBegins, WalkOn, WalkEnds,
       WalkFails, SelectMutated, Send, InteractNothing, JudgeStopped, Credit, Mutate,
       SkipMutation, PhaseEnds, PhaseFails, Stop, vars, results, round, options, RoundSteps
  <2>2. q = 0 \/ q = p BY <1>5, <2>1 DEF Pending
  <2>3. q <= p BY <1>4, <1>5, <2>2
  <2> QED BY <1>6, <1>10, <2>1, <2>3
<1> QED BY <1>7, <1>8, <1>9, <1>10

\* The invariants of the next state bound its walk as well.
LEMMA WalkPlace ==
  ASSUME IInv, ShortInv, IsFiniteSet(Available), pc = "walk"
  PROVE  Place \in 6..Cardinality(Available) + 6
<1>1. PICK n, k : n = Cardinality(Available) /\ k = Len(chain) OBVIOUS
<1>2. n \in Nat /\ k \in 1..n + 1 BY <1>1, FS_CardinalityType, WalkLength
<1>3. Place = n + 7 - k BY <1>1 DEF Place
<1> QED BY <1>1, <1>2, <1>3

LEMMA RoundGoesOn ==
  ASSUME IInv, ShortInv, Scheduler, pc \in RoundSteps, ~RoundEnds, IsFiniteSet(Available)
  PROVE  Place' < Place
<1>1. PICK n : n = Cardinality(Available) OBVIOUS
<1>2. n \in Nat BY <1>1, FS_CardinalityType
<1>3. CASE pc = "walk"
  <2>1. PICK k : k = Len(chain) OBVIOUS
  <2>2. k \in 1..n + 1 /\ Place = n + 7 - k BY <1>1, <1>3, <2>1, WalkLength DEF Place
  <2>3. CASE WalkOn
    <3>1. pc' = "walk" BY <2>3 DEF WalkOn
    <3>2. chain \in Seq(Requests) BY DEF IInv, RoundTypes
    <3>3. PICK r \in Dependencies(Head(chain)) : chain' = <<r>> \o chain BY <2>3 DEF WalkOn
    <3>4. r \in Requests BY <3>3, RequestsAssumption DEF Dependencies
    <3>5. Len(chain') = k + 1 BY <2>1, <3>2, <3>3, <3>4
    <3>6. Place' = n + 7 - (k + 1) BY <1>1, <3>1, <3>5 DEF Place
    <3> QED BY <1>2, <2>2, <3>6
  <2>4. CASE ~WalkOn
    <3>1. pc' \in {"middle", "failing"}
      BY <1>3, <2>4 DEF Scheduler, Replay, ReplayEnds, RunBegins, RunEnds, SelectSeed,
         SelectState, SelectRandom, SelectUseful, SelectPrefix, WalkBegins, WalkEnds,
         WalkFails, SelectMutated, Send, Interact, InteractFails, InteractNothing, JudgeStopped, Credit,
         RoundEnds, Mutate, SkipMutation, PhaseEnds, PhaseFails
    <3>2. Place' \in {5, 0} BY <3>1 DEF Place
    <3> QED BY <1>2, <2>2, <3>2
  <2> QED BY <2>3, <2>4
<1>4. CASE pc = "head"
  <2>1. Place = n + 8 BY <1>1, <1>4 DEF Place
  <2>2. CASE WalkBegins
    <3>1. pc' = "walk" /\ \E r : chain' = <<r>> BY <2>2 DEF WalkBegins
    <3>2. Len(chain') = 1 BY <3>1
    <3>3. Place' = n + 7 - 1 BY <1>1, <3>1, <3>2 DEF Place
    <3> QED BY <1>2, <2>1, <3>3
  <2>3. CASE ~WalkBegins
    <3>1. pc' \in {"middle", "mutate"}
      BY <1>4, <2>3 DEF Scheduler, Replay, ReplayEnds, RunBegins, RunEnds, SelectSeed,
         SelectState, SelectRandom, SelectUseful, SelectPrefix, WalkOn, WalkEnds,
         WalkFails, SelectMutated, Send, Interact, InteractFails, InteractNothing, JudgeStopped, Credit,
         RoundEnds, Mutate, SkipMutation, PhaseEnds, PhaseFails
    <3>2. Place' \in {5, 0} BY <3>1 DEF Place
    <3> QED BY <1>2, <2>1, <3>2
  <2> QED BY <2>2, <2>3
<1>5. CASE pc \in RoundSteps \ {"head", "walk"}
  <2>1. \/ pc = "middle" /\ pc' \in {"offline", "failing"}
        \/ pc = "offline" /\ pc' = "interact"
        \/ pc = "interact" /\ pc' \in {"judge", "failing"}
        \/ pc = "judge" /\ pc' \in {"retain", "mutate"}
    BY <1>5 DEF Scheduler, Replay, ReplayEnds, RunBegins, RunEnds, SelectSeed, SelectState,
       SelectRandom, SelectUseful, SelectPrefix, WalkBegins, WalkOn, WalkEnds, WalkFails,
       SelectMutated, Send, Interact, InteractFails, InteractNothing, JudgeStopped, Credit, Mutate,
       SkipMutation, PhaseEnds, PhaseFails, RoundSteps
  <2> QED BY <2>1 DEF Place
<1> QED BY <1>3, <1>4, <1>5

\* What RunsEnd rests on, for every specification, machine, seed and option with finitely
\* many responses and requests: a step of the scheduler within a run either brings its round
\* nearer to its end or ends it, and the round that ends has cost fuel, of which a run has a
\* limited amount: its energy and two for every transition not counted yet
\* (Berserker.run, the energy of a round and the walk over the dependencies).
THEOREM RunUsesUpItsEnergy ==
  IsFiniteSet(Responses) /\ IsFiniteSet(Available) =>
    (Spec => [][(pc \in RoundSteps) =>
                  /\ Fuel \in Int /\ Fuel >= -1 /\ Place \in Nat
                  /\ Fuel' <= Fuel
                  /\ Scheduler => (Fuel' < Fuel \/ Place' < Place)]_vars)
<1> SUFFICES ASSUME IsFiniteSet(Responses), IsFiniteSet(Available)
             PROVE  Spec => [][(pc \in RoundSteps) =>
                                 /\ Fuel \in Int /\ Fuel >= -1 /\ Place \in Nat
                                 /\ Fuel' <= Fuel
                                 /\ Scheduler => (Fuel' < Fuel \/ Place' < Place)]_vars
  OBVIOUS
<1> DEFINE A == pc \in RoundSteps =>
                  /\ Fuel \in Int /\ Fuel >= -1 /\ Place \in Nat
                  /\ Fuel' <= Fuel
                  /\ Scheduler => (Fuel' < Fuel \/ Place' < Place)
<1>1. IInv /\ ShortInv /\ EnergyInv /\ [Next]_vars => [A]_vars
  <2> SUFFICES ASSUME IInv, ShortInv, EnergyInv, [Next]_vars, pc \in RoundSteps
               PROVE  /\ Fuel \in Int /\ Fuel >= -1 /\ Place \in Nat
                      /\ Fuel' <= Fuel
                      /\ Scheduler => (Fuel' < Fuel \/ Place' < Place)
    OBVIOUS
  <2>1. Fuel \in Int /\ Fuel >= -1
    <3>1. PICK e, p : e = ToFind /\ p = Pending OBVIOUS
    <3>2. e \in Nat
      <4>1. counted \subseteq AllTransitions BY DEF IInv, ResultTypes, AllTransitions
      <4>2. IsFiniteSet(AllTransitions)
        <5>1. IsFiniteSet(Responses \cup {"-"}) BY FS_AddElement
        <5> QED BY <5>1, FS_Product DEF AllTransitions
      <4>3. (AllTransitions \ counted) \in SUBSET AllTransitions OBVIOUS
      <4>4. IsFiniteSet(AllTransitions \ counted) BY <4>2, <4>3, FS_Subset
      <4> QED BY <3>1, <4>4, FS_CardinalityType DEF ToFind
    <3>3. p \in {0, 2} BY <3>1 DEF Pending
    <3>4. energy \in Int /\ energy >= -1
      BY DEF IInv, RunTypes, EnergyInv, RoundSteps
    <3>5. energy + 2 * e + p \in Int /\ energy + 2 * e + p >= -1 BY <3>2, <3>3, <3>4
    <3> QED BY <3>1, <3>5 DEF Fuel
  <2>2. Place \in Nat
    <3>1. Cardinality(Available) \in Nat BY FS_CardinalityType
    <3>2. CASE pc = "walk" BY <3>1, <3>2, WalkPlace
    <3>3. CASE pc # "walk" BY <3>1, <3>3 DEF Place, RoundSteps
    <3> QED BY <3>2, <3>3
  <2>3. Fuel' <= Fuel /\ (RoundEnds => Fuel' < Fuel) BY FuelFalls
  <2>4. Scheduler /\ ~RoundEnds => Place' < Place BY RoundGoesOn
  <2> QED BY <2>1, <2>2, <2>3, <2>4
<1> HIDE DEF A
<1>2. Spec => [][A]_vars
  BY <1>1, Invariance, ShortInit, ShortStep, EnergyInit, EnergyStep, PTL DEF Spec
<1> QED BY <1>2 DEF A
=============================================================================
