------------------------- MODULE ObservationTableProofs -------------------------
(***************************************************************************)
(* Proofs about ObservationTable, for every alphabet, every set of targets *)
(* and any number of late answers.                                         *)
(*                                                                         *)
(* The first loop of _fill_table may leave holes, so that "every entry of  *)
(* S is set" is not an invariant of it.  What is: the row of the empty     *)
(* prefix is complete after it, since no answer is too short for that; and *)
(* every other prefix is a successor of one, which the second loop fills.  *)
(*                                                                         *)
(* As long as nothing comes too late, every entry is what the target       *)
(* answers, less the last output where a known message crashes again; no   *)
(* suffix gets longer than a request, so that an iteration ends; and       *)
(* without crashes a closed table of a target whose states single requests *)
(* tell apart is that target, by induction on words.                       *)
(***************************************************************************)
EXTENDS TableLemmas

\* The suffixes of one symbol, which a table starts with.
Singles == {<<a>> : a \in Alphabet}

\* What an entry for suffix e may hold.
EntryOK(x, e) == x \in Seq(Outputs) /\ Len(x) \in 1..Len(e)

\* The prefixes of a prefix are prefixes; what is filled belongs to its loop.
TypeInv ==
  /\ TypeOK
  /\ <<>> \in S /\ \A s \in S : \A k \in 0..Len(s) : Upto(s, k) \in S
  /\ Singles \subseteq E
  /\ phase = "fill_s" => todo \subseteq S \X E
  /\ phase = "fill_si" => todo \subseteq Successors \X E

-----------------------------------------------------------------------------
(* Types.                                                                  *)

LEMMA SuccessorsAreWords ==
  ASSUME NEW P, P \subseteq Words
  PROVE  UNION {{s \o <<a>> : a \in Alphabet} : s \in P} \subseteq Words
<1>1. ASSUME NEW s \in P, NEW a \in Alphabet PROVE s \o <<a>> \in Words BY DEF Words
<1> SUFFICES ASSUME NEW x \in UNION {{s \o <<a>> : a \in Alphabet} : s \in P}
             PROVE  x \in Words
  OBVIOUS
<1>2. PICK s \in P : x \in {s \o <<a>> : a \in Alphabet} OBVIOUS
<1>3. PICK a \in Alphabet : x = s \o <<a>> BY <1>2
<1> QED BY <1>1, <1>3

LEMMA SuccessorHasParent ==
  ASSUME NEW x \in Successors
  PROVE  \E s \in S, a \in Alphabet : x = s \o <<a>>
<1>1. PICK s \in S : x \in {s \o <<a>> : a \in Alphabet} BY DEF Successors
<1> QED BY <1>1

LEMMA SuccessorsGrow ==
  ASSUME S \subseteq S'
  PROVE  Successors \subseteq Successors'
<1> SUFFICES ASSUME NEW x \in Successors PROVE x \in Successors' OBVIOUS
<1>1. PICK s \in S : x \in {s \o <<a>> : a \in Alphabet} BY DEF Successors
<1>2. {s \o <<a>> : a \in Alphabet} \in {{t \o <<a>> : a \in Alphabet} : t \in S'}
  BY Zenon
<1> QED BY <1>1, <1>2, Zenon DEF Successors

LEMMA TypeInit == Init => TypeInv
<1> SUFFICES ASSUME Init PROVE TypeInv OBVIOUS
<1>1. \A a \in Alphabet : <<a>> \in Seq(Alphabet) \ {<<>>} OBVIOUS
<1>2. <<>> \in Seq(Alphabet) OBVIOUS
<1>3. DOMAIN T = {} BY DEF Init
<1>4. target \in Machines /\ target.late \in Nat BY MachinesAssumption DEF Init
<1>5. \A s \in S : \A k \in 0..Len(s) : Upto(s, k) \in S
  BY <1>2 DEF Init, Upto
<1>6. TypeOK
  <2>1. S \subseteq Seq(Alphabet) /\ E \subseteq Seq(Alphabet) \ {<<>>} BY <1>1, <1>2 DEF Init
  <2>2. todo \subseteq (S \cup Successors) \X E BY DEF Init
  <2>3. phase \in Phases /\ resume \in {"close", "consistent"} BY DEF Init, Phases
  <2>4. cur \in Seq(Alphabet) /\ crashIndex \subseteq Alphabet
    <3>1. DOMAIN target.out = States(target) \X Alphabet BY <1>4, MachinesAssumption
    <3>2. \A k \in States(target) \X Alphabet : k[2] \in Alphabet OBVIOUS
    <3>3. CrashSymbols(target) \subseteq Alphabet BY <3>1, <3>2 DEF CrashSymbols
    <3> QED BY <1>2, <3>3 DEF Init
  <2>5. timeouts \in 0..target.late BY <1>4 DEF Init
  <2> QED BY <1>3, <1>4, <2>1, <2>2, <2>3, <2>4, <2>5 DEF Init, TypeOK
<1> QED BY <1>5, <1>6 DEF Init, TypeInv, Singles

\* A step that fills an entry with something that fits.
LEMMA FillKeepsTypes ==
  ASSUME TypeInv, NEW p, NEW e, NextEntry(p, e), FillUnchanged,
         DOMAIN T' \subseteq (S \cup Successors) \X E,
         \A pe \in DOMAIN T' : EntryOK(T'[pe], pe[2]),
         reached' \in BOOLEAN, crashIndex' \subseteq Alphabet, timeouts' \in 0..target.late
  PROVE  TypeInv'
<1> USE DEF FillUnchanged
<1>1. todo' \subseteq todo /\ <<p, e>> \in todo /\ cur' = p BY DEF NextEntry
<1>2. Successors' = Successors BY DEF Successors
<1>3. S \cup Successors \subseteq Words
  BY SuccessorsAreWords DEF TypeInv, TypeOK, Successors, Words
<1>4. p \in Words BY <1>1, <1>3 DEF TypeInv, TypeOK
<1>5. TypeOK' BY <1>1, <1>2, <1>4 DEF TypeInv, TypeOK, EntryOK, Words
<1>6. (\A s \in S : \A k \in 0..Len(s) : Upto(s, k) \in S)'
  BY DEF TypeInv
<1> QED BY <1>1, <1>2, <1>5, <1>6 DEF TypeInv

\* The step of a query; the entry is taken from what was recorded.
LEMMA ObserveTypes ==
  ASSUME TypeInv, NEW w \in Words, w # <<>>, NEW r \in Recordings(target, w),
         NEW times \in {1, 3}, Observe(r, times)
  PROVE  /\ reached' \in BOOLEAN /\ crashIndex' \subseteq Alphabet
         /\ timeouts' \in 0..target.late
         /\ timeouts' = timeouts + times * r.late
<1>1. r.late \in {0, 1} /\ r.crashes \subseteq Alphabet BY RecordingShape
<1>2. times * r.late \in Nat BY <1>1
<1>3. target.late \in Nat /\ timeouts \in 0..target.late
  BY MachinesAssumption DEF TypeInv, TypeOK
<1>4. timeouts' = timeouts + times * r.late BY DEF Observe
<1>5. timeouts' \in 0..target.late
  <2>1. timeouts + times * r.late <= target.late BY DEF Observe
  <2> QED BY <1>2, <1>3, <1>4, <2>1
<1>6. crashIndex' \subseteq Alphabet BY <1>1 DEF Observe, TypeInv, TypeOK
<1>7. reached' \in BOOLEAN BY ThresholdAssumption DEF Observe, TypeInv, TypeOK
<1> QED BY <1>4, <1>5, <1>6, <1>7

LEMMA RecordedEntry ==
  ASSUME TypeInv, NEW p \in Words, NEW e \in E, NEW r \in Recordings(target, p \o e)
  PROVE  /\ p \o e \in Words /\ p \o e # <<>>
         /\ r.out \in Seq(Outputs) /\ Len(r.out) >= 1
         /\ EntryOK(LastN(r.out, Len(e)), e)
<1> DEFINE A == {"-", "TIMEOUT"} \cup {ReplyAt(target, p \o e, i) : i \in 1..Len(p \o e)}
<1>1. e \in Words /\ e # <<>> /\ Len(e) \in Nat \ {0}
  BY DEF TypeInv, TypeOK, Words
<1>2. p \o e \in Words /\ Len(p \o e) # 0 BY <1>1, ConcatWords
<1>3. p \o e # <<>> BY <1>2
<1>4. A \subseteq Outputs
  <2>1. target \in Machines BY DEF TypeInv, TypeOK
  <2>2. \A i \in 1..Len(p \o e) : ReplyAt(target, p \o e, i) \in Outputs
    BY <1>2, <2>1, ReplyTypes
  <2>3. "-" \in Outputs /\ "TIMEOUT" \in Outputs BY DEF Outputs, Abnormal
  <2> QED BY <2>2, <2>3
<1>5. r.out \in Seq(A) /\ Len(r.out) \in 1..(Len(p \o e) + 1)
  BY <1>2, <1>3, RecordingShape
<1> HIDE DEF A
<1>6. r.out \in Seq(Outputs) /\ Len(r.out) >= 1
  <2>1. Len(p \o e) \in Nat BY <1>2 DEF Words
  <2>2. Seq(A) \subseteq Seq(Outputs) BY <1>4, LargerSeq
  <2> QED BY <1>5, <2>1, <2>2
<1>7. EntryOK(LastN(r.out, Len(e)), e) BY <1>1, <1>6, LastNShape DEF EntryOK
<1> QED BY <1>2, <1>3, <1>6, <1>7

\* An entry that is put where it belongs.
LEMMA PutTypes ==
  ASSUME TypeInv, NEW p, NEW e, NEW x, <<p, e>> \in (S \cup Successors) \X E,
         Put(p, e, x), EntryOK(x, e)
  PROVE  /\ DOMAIN T' \subseteq (S \cup Successors) \X E
         /\ \A pe \in DOMAIN T' : EntryOK(T'[pe], pe[2])
<1>1. \A pe \in DOMAIN T : EntryOK(T[pe], pe[2]) BY DEF TypeInv, TypeOK, EntryOK
<1>2. DOMAIN T' = DOMAIN T \cup {<<p, e>>} BY DEF Put
<1>3. \A pe \in DOMAIN T' : T'[pe] = IF pe = <<p, e>> THEN x ELSE T[pe] BY DEF Put
<1>4. DOMAIN T \subseteq (S \cup Successors) \X E BY DEF TypeInv, TypeOK
<1>5. \A pe \in DOMAIN T' : EntryOK(T'[pe], pe[2])
  <2> SUFFICES ASSUME NEW pe \in DOMAIN T' PROVE EntryOK(T'[pe], pe[2]) OBVIOUS
  <2>1. CASE pe = <<p, e>> BY <1>3, <2>1
  <2>2. CASE pe # <<p, e>> BY <1>1, <1>2, <1>3, <2>2
  <2> QED BY <2>1, <2>2
<1> QED BY <1>2, <1>4, <1>5

\* What TIMEOUT ended short of the suffix ended at a prefix of the table.
LEMMA ShortEndsInside ==
  ASSUME TypeInv, NEW p \in Successors, NEW out, NEW A, out \in Seq(A),
         Last(out) = "TIMEOUT" => Len(out) >= 2, Short(out, p)
  PROVE  SubSeq(p, 1, Len(out) - 2) \in S /\ <<Last(p)>> \in E
<1>1. PICK s \in S, a \in Alphabet : p = s \o <<a>> BY SuccessorHasParent
<1>2. s \in Words BY DEF TypeInv, TypeOK, Words
<1>3. Len(p) = Len(s) + 1 /\ Len(s) \in Nat /\ Last(p) = a BY <1>1, <1>2 DEF Words, Last
<1>4. Len(out) \in Nat OBVIOUS
<1>5. PICK k \in 0..Len(s) : k = Len(out) - 2
  <2>1. Len(out) >= 2 /\ Len(out) < Len(p) + 1 BY DEF Short
  <2>2. Len(out) - 2 \in 0..Len(s) BY <1>3, <1>4, <2>1
  <2> QED BY <2>2
<1>6. Upto(p, k) = Upto(s, k)
  <2>1. <<a>> \in Words BY DEF Words
  <2> QED BY <1>1, <1>2, <2>1, UptoConcat
<1>7. Upto(s, k) \in S BY DEF TypeInv
<1>8. <<a>> \in E BY DEF TypeInv, Singles
<1> QED BY <1>3, <1>5, <1>6, <1>7, <1>8 DEF Upto

\* Filling keeps the types, whatever is recorded.
LEMMA FillTypes ==
  ASSUME TypeInv, NEW p, NEW e, Fill(p, e)
  PROVE  TypeInv'
<1>1. NextEntry(p, e) /\ FillUnchanged /\ phase \in {"fill_s", "fill_si"}
  BY DEF Fill, FillDead, FillS, FillSi, GiveUp
<1>2. <<p, e>> \in (S \cup Successors) \X E /\ <<p, e>> \in todo
  BY <1>1 DEF NextEntry, TypeInv, TypeOK
<1>3. p \in Words /\ e \in E
  BY <1>2, SuccessorsAreWords DEF TypeInv, TypeOK, Successors, Words
<1>4. CASE FillDead(p, e)
  <2>1. PICK x \in Abnormal : T[<<Front(p), <<Last(p)>>>>] = <<x>>
    BY <1>4 DEF FillDead, Dead
  <2>2. EntryOK(<<x>>, e)
    <3>1. x \in Outputs BY DEF Outputs
    <3>2. <<x>> \in Seq(Outputs) /\ Len(<<x>>) = 1 BY <3>1
    <3>3. Len(e) \in Nat \ {0} BY <1>3 DEF TypeInv, TypeOK
    <3> QED BY <3>2, <3>3 DEF EntryOK
  <2>3. Put(p, e, <<x>>) BY <1>4, <2>1 DEF FillDead
  <2>4. reached' \in BOOLEAN /\ crashIndex' \subseteq Alphabet /\ timeouts' \in 0..target.late
    BY <1>4 DEF FillDead, TypeInv, TypeOK
  <2> QED BY <1>1, <1>2, <2>2, <2>3, <2>4, PutTypes, FillKeepsTypes
<1>5. ASSUME NEW r \in Recordings(target, p \o e), NEW times \in {1, 3}, Observe(r, times)
      PROVE  reached' \in BOOLEAN /\ crashIndex' \subseteq Alphabet /\ timeouts' \in 0..target.late
  <2>1. p \o e \in Words /\ p \o e # <<>> BY <1>3, RecordedEntry
  <2> QED BY <1>5, <2>1, ObserveTypes
<1>6. ASSUME NEW r \in Recordings(target, p \o e), Observe(r, 1),
             Put(p, e, LastN(r.out, Len(e)))
      PROVE  TypeInv'
  <2>1. EntryOK(LastN(r.out, Len(e)), e) BY <1>3, RecordedEntry
  <2> QED BY <1>1, <1>2, <1>5, <1>6, <2>1, PutTypes, FillKeepsTypes
<1>7. CASE FillS(p, e)
  <2>1. PICK r \in Recordings(target, p \o e) :
          /\ Observe(r, 1)
          /\ IF Short(r.out, p) THEN UNCHANGED T ELSE Put(p, e, LastN(r.out, Len(e)))
    BY <1>7 DEF FillS
  <2>2. CASE UNCHANGED T
    <3>1. /\ DOMAIN T' \subseteq (S \cup Successors) \X E
          /\ \A pe \in DOMAIN T' : EntryOK(T'[pe], pe[2])
      BY <2>2 DEF TypeInv, TypeOK, EntryOK
    <3> QED BY <1>1, <1>5, <2>1, <3>1, FillKeepsTypes
  <2> QED BY <1>6, <2>1, <2>2
<1>8. CASE FillSi(p, e)
  <2>1. PICK r \in Recordings(target, p \o e) :
          Observe(r, 1) /\ Put(p, e, LastN(r.out, Len(e)))
    BY <1>8 DEF FillSi
  <2> QED BY <1>6, <2>1
<1>9. CASE GiveUp(p, e)
  <2>1. PICK r \in Recordings(target, p \o e) :
          /\ Short(r.out, p)
          /\ Observe(r, 3)
          /\ LET at == <<SubSeq(p, 1, Len(r.out) - 2), <<Last(p)>>>>
             IN  T' = [x \in DOMAIN T \cup {at, <<p, e>>} |->
                         IF x = <<p, e>> THEN LastN(r.out, Len(e))
                         ELSE IF x = at THEN <<"TIMEOUT">> ELSE T[x]]
    BY <1>9 DEF GiveUp
  <2>2. PICK at : at = <<SubSeq(p, 1, Len(r.out) - 2), <<Last(p)>>>> OBVIOUS
  <2>3. at \in (S \cup Successors) \X E
    <3>1. p \in Successors BY <1>2, <1>9 DEF GiveUp, TypeInv
    <3>2. p \o e \in Words /\ p \o e # <<>> /\ r.out \in Seq(Outputs) BY <1>3, RecordedEntry
    <3>3. Last(r.out) = "TIMEOUT" => Len(r.out) >= 2 BY <3>2, RecordingShape
    <3>4. SubSeq(p, 1, Len(r.out) - 2) \in S /\ <<Last(p)>> \in E
      BY <2>1, <3>1, <3>2, <3>3, ShortEndsInside
    <3> QED BY <2>2, <3>4
  <2>4. EntryOK(LastN(r.out, Len(e)), e) BY <1>3, RecordedEntry
  <2>5. EntryOK(<<"TIMEOUT">>, at[2])
    <3>1. "TIMEOUT" \in Outputs BY DEF Outputs, Abnormal
    <3>2. <<"TIMEOUT">> \in Seq(Outputs) /\ Len(<<"TIMEOUT">>) = 1 BY <3>1
    <3>3. Len(at[2]) = 1 BY <2>2
    <3> QED BY <3>2, <3>3 DEF EntryOK
  <2>6. /\ DOMAIN T' = DOMAIN T \cup {at, <<p, e>>}
        /\ \A pe \in DOMAIN T' : T'[pe] = IF pe = <<p, e>> THEN LastN(r.out, Len(e))
                                    ELSE IF pe = at THEN <<"TIMEOUT">> ELSE T[pe]
    BY <2>1, <2>2
  <2>7. /\ DOMAIN T \subseteq (S \cup Successors) \X E
        /\ \A pe \in DOMAIN T : EntryOK(T[pe], pe[2])
    BY DEF TypeInv, TypeOK, EntryOK
  <2>8. DOMAIN T' \subseteq (S \cup Successors) \X E BY <1>2, <2>3, <2>6, <2>7
  <2>9. ASSUME NEW pe \in DOMAIN T' PROVE EntryOK(T'[pe], pe[2])
    <3>1. CASE pe = <<p, e>> BY <2>4, <2>6, <3>1
    <3>2. CASE pe # <<p, e>> /\ pe = at BY <2>5, <2>6, <3>2
    <3>3. CASE pe # <<p, e>> /\ pe # at BY <2>6, <2>7, <3>3
    <3> QED BY <3>1, <3>2, <3>3
  <2> QED BY <1>1, <1>5, <2>1, <2>8, <2>9, FillKeepsTypes
<1> QED BY <1>4, <1>7, <1>8, <1>9 DEF Fill

\* A larger S or E is as well typed, if it keeps the prefixes.
LEMMA StartTypes ==
  ASSUME TypeInv, NEW P, NEW Q, NEW c \in {"close", "consistent"}, StartFill(P, Q, c),
         UNCHANGED <<target, T, stop, reached, crashIndex, timeouts>>,
         S \subseteq P, E \subseteq Q, P \subseteq Words, Q \subseteq Words \ {<<>>},
         \A s \in P : \A k \in 0..Len(s) : Upto(s, k) \in P
  PROVE  TypeInv'
<1>1. S' = P /\ E' = Q /\ phase' = "fill_s" /\ resume' = c /\ cur' = <<>>
      /\ todo' = Missing(P, Q)
  BY DEF StartFill
<1>2. Successors \subseteq Successors' BY <1>1, SuccessorsGrow
<1>3. todo' \subseteq P \X Q BY <1>1 DEF Missing
<1>4. DOMAIN T' \subseteq (S' \cup Successors') \X E' BY <1>1, <1>2 DEF TypeInv, TypeOK
<1>5. <<>> \in Seq(Alphabet) OBVIOUS
<1>6. TypeOK' BY <1>1, <1>3, <1>4, <1>5 DEF TypeInv, TypeOK, Phases, Words
<1> QED BY <1>1, <1>3, <1>6 DEF TypeInv

\* A step that changes nothing of the table, and enters no loop.
LEMMA StillTypes ==
  ASSUME TypeInv, UNCHANGED <<target, table, todo, cur, resume, reached, crashIndex, timeouts>>,
         stop' \in BOOLEAN, phase' \in Phases,
         phase' = phase \/ phase' \notin {"fill_s", "fill_si"}
  PROVE  TypeInv'
<1> USE DEF table
<1>1. Successors' = Successors BY DEF Successors
<1>2. TypeOK' BY <1>1 DEF TypeInv, TypeOK
<1>3. (\A s \in S : \A k \in 0..Len(s) : Upto(s, k) \in S)' BY DEF TypeInv
<1> QED BY <1>1, <1>2, <1>3 DEF TypeInv

\* make_close adds a prefix whose own prefixes are there.
LEMMA LongerPrefix ==
  ASSUME TypeInv, NEW sa \in Successors
  PROVE  /\ S \cup {sa} \subseteq Words
         /\ \A s \in S \cup {sa} : \A k \in 0..Len(s) : Upto(s, k) \in S \cup {sa}
<1>1. PICK s \in S, a \in Alphabet : sa = s \o <<a>> BY SuccessorHasParent
<1>2. s \in Words /\ <<a>> \in Words /\ S \subseteq Words BY DEF TypeInv, TypeOK, Words
<1>3. sa \in Words /\ Len(sa) = Len(s) + 1 /\ Len(s) \in Nat BY <1>1, <1>2 DEF Words
<1>4. ASSUME NEW k \in 0..Len(sa) PROVE Upto(sa, k) \in S \cup {sa}
  <2>1. CASE k = Len(sa) BY <1>3, <2>1, UptoAll
  <2>2. CASE k # Len(sa)
    <3>1. k \in 0..Len(s) BY <1>3, <2>2
    <3>2. Upto(sa, k) = Upto(s, k) BY <1>1, <1>2, <3>1, UptoConcat
    <3> QED BY <3>1, <3>2 DEF TypeInv
  <2> QED BY <2>1, <2>2
<1>5. \A t \in S : \A k \in 0..Len(t) : Upto(t, k) \in S BY DEF TypeInv
<1> QED BY <1>2, <1>3, <1>4, <1>5

LEMMA TypeStep == TypeInv /\ [Next]_vars => TypeInv'
<1> SUFFICES ASSUME TypeInv, [Next]_vars PROVE TypeInv' OBVIOUS
<1>0. /\ stop \in BOOLEAN /\ phase \in Phases /\ resume \in {"close", "consistent"}
      /\ S \subseteq Words /\ E \subseteq Words \ {<<>>}
      /\ \A s \in S : \A k \in 0..Len(s) : Upto(s, k) \in S
  BY DEF TypeInv, TypeOK, Words
<1> USE DEF Phases
<1>1. ASSUME NEW pe \in todo, Fill(pe[1], pe[2]) PROVE TypeInv' BY <1>1, FillTypes
<1>2. CASE SFilled
  <2>1. Successors' = Successors BY <1>2 DEF SFilled, Successors, table
  <2>2. todo' \subseteq Successors \X E BY <1>2 DEF SFilled, Missing
  <2>3. <<>> \in Seq(Alphabet) OBVIOUS
  <2>4. TypeOK' BY <1>2, <2>1, <2>2, <2>3 DEF SFilled, TypeInv, TypeOK, table
  <2>5. (\A s \in S : \A k \in 0..Len(s) : Upto(s, k) \in S)'
    BY <1>2 DEF SFilled, TypeInv, table
  <2> QED BY <1>2, <2>1, <2>2, <2>4, <2>5 DEF SFilled, TypeInv, table
<1>3. CASE Filled BY <1>0, <1>3, StillTypes DEF Filled
<1>4. CASE FillStopped BY <1>0, <1>4, StillTypes DEF FillStopped
<1>5. ASSUME NEW sa \in Successors, AddPrefix(sa) PROVE TypeInv'
  BY <1>0, <1>5, LongerPrefix, StartTypes DEF AddPrefix
<1>6. CASE MakeCloseReturns BY <1>0, <1>6, StillTypes DEF MakeCloseReturns, Return
<1>7. ASSUME NEW a \in Alphabet, NEW e \in E, AddSuffix(a, e) PROVE TypeInv'
  <2>1. <<a>> \o e \in Words \ {<<>>} BY <1>0 DEF Words
  <2>2. E \cup {<<a>> \o e} \subseteq Words \ {<<>>} BY <1>0, <2>1
  <2> QED BY <1>0, <1>7, <2>2, StartTypes DEF AddSuffix
<1>8. CASE MakeConsistentStops BY <1>0, <1>8, StillTypes DEF MakeConsistentStops, Return
<1>9. CASE BuildHypothesis BY <1>0, <1>9, StillTypes DEF BuildHypothesis, Return
<1>10. CASE NoOutput BY <1>10, StillTypes DEF NoOutput
<1>11. CASE Stop BY <1>0, <1>11, StillTypes DEF Stop
<1>12. CASE UNCHANGED vars BY <1>0, <1>12, StillTypes DEF vars, table
<1> QED BY <1>1, <1>2, <1>3, <1>4, <1>5, <1>6, <1>7, <1>8, <1>9, <1>10, <1>11,
           <1>12 DEF Next, Learn

\* Every variable keeps its type, whatever comes too late; no entry is empty or
\* longer than its suffix, and a query that is given up marks a row that exists.
THEOREM TypeCorrect == Spec => []TypeOK
<1>1. TypeInv => TypeOK BY DEF TypeInv
<1> QED BY TypeInit, TypeStep, <1>1, PTL DEF Spec


-----------------------------------------------------------------------------
(* The table is full when it is read.                                      *)

\* Every prefix but the empty one extends another.
PrefixClosed ==
  /\ S \subseteq Words /\ E \subseteq Words
  /\ <<>> \in S /\ S \subseteq Successors \cup {<<>>}

\* The row of the empty prefix, and those of the successors, are complete but for
\* the entries in rest.
RootFilled(rest) == \A e \in E : <<<<>>, e>> \in rest \cup DOMAIN T
SuccessorsFilled(rest) == \A s \in Successors, e \in E : <<s, e>> \in rest \cup DOMAIN T

FillInv ==
  /\ todo \subseteq Words \X Words
  /\ phase = "fill_s" => RootFilled(todo)
  /\ phase = "fill_si" => RootFilled({}) /\ SuccessorsFilled(todo)
  /\ phase \in {"close", "consistent", "hypothesis", "threshold"} => Drained

DrainInv ==
  /\ PrefixClosed /\ FillInv
  /\ phase \in Phases
  /\ resume \in {"close", "consistent"}

\* Where a prefix is longer than a symbol its first row was filled before.
SinglesFilled == \A s \in S, a \in Alphabet : <<s, <<a>>>> \in DOMAIN T

\* The entries that tell whether the prefixes in rest are dead are set.
LookupsFilled(rest) ==
  \A pe \in rest : pe[1] # <<>> => <<Front(pe[1]), <<Last(pe[1])>>>> \in DOMAIN T

LookupInv ==
  /\ S = {<<>>} \/ SinglesFilled
  /\ phase = "fill_si" => SinglesFilled
  /\ LookupsFilled(todo)

\* A conversation starts with the greeting: its outputs are never none.
LEMMA RecordingsNonempty ==
  ASSUME NEW w \in Words, NEW r \in Recordings(target, w)
  PROVE  Len(r.out) \in Nat /\ Len(r.out) >= 1
<1> DEFINE n == IF IsRepeatCrash(target, w) THEN Sent(target, w) - 1 ELSE Sent(target, w)
           f == [i \in 1..n |-> ReplyAt(target, w, i)]
           A == {ReplyAt(target, w, i) : i \in 1..n} \cup {"-"}
           out == Replies(target, w)
<1>1. n \in Int BY SentEnds DEF EndsAt, Words
<1> HIDE DEF n
<1>2. f \in Seq(A)
  <2>1. CASE n >= 0 BY <1>1, <2>1
  <2>2. CASE n < 0 BY <1>1, <2>2
  <2> QED BY <1>1, <2>1, <2>2
<1>3. out = <<"-">> \o f BY DEF Replies, n
<1> HIDE DEF f, A
<1>4. out \in Seq(A) /\ Len(out) = Len(f) + 1 /\ Len(f) \in Nat
  <2>1. <<"-">> \in Seq(A) BY DEF A
  <2> QED BY <1>2, <1>3, <2>1
<1> HIDE DEF out
<1>5. CASE r.out = out BY <1>4, <1>5
<1>6. ASSUME NEW k \in 2..Len(out), r.out = Append(SubSeq(out, 1, k - 1), "TIMEOUT")
      PROVE  Len(r.out) \in Nat /\ Len(r.out) >= 1
  <2>1. SubSeq(out, 1, k - 1) \in Seq(A) BY <1>4
  <2> QED BY <1>6, <2>1
<1> QED BY <1>4, <1>5, <1>6 DEF Recordings, out

LEMMA MissingIsMissing ==
  ASSUME NEW P, NEW Q
  PROVE  \A p \in P, e \in Q : <<p, e>> \in Missing(P, Q) \cup DOMAIN T
BY DEF Missing

\* A complete table: the root row and the successors' rows are all rows.
LEMMA FilledIsDrained ==
  ASSUME PrefixClosed, RootFilled({}), SuccessorsFilled({})
  PROVE  Drained
BY DEF PrefixClosed, RootFilled, SuccessorsFilled, Drained

LEMMA DrainInit == Init => DrainInv
<1> SUFFICES ASSUME Init PROVE DrainInv OBVIOUS
<1>1. PrefixClosed
  <2>1. \A a \in Alphabet : <<a>> \in Words BY DEF Words
  <2>2. <<>> \in Words BY DEF Words
  <2> QED BY <2>1, <2>2 DEF Init, PrefixClosed
<1>2. todo \subseteq Words \X Words BY <1>1 DEF Init, PrefixClosed
<1>3. RootFilled(todo) BY DEF Init, RootFilled
<1> QED BY <1>1, <1>2, <1>3 DEF Init, DrainInv, FillInv, Phases

\* The shape of a step that fills: the table keeps its entries, and an entry that
\* leaves todo is set, unless it is a skipped one of the first loop.
LEMMA FillStep ==
  ASSUME DrainInv, NEW p, NEW e, NextEntry(p, e), UNCHANGED <<S, E, phase, resume>>,
         phase \in {"fill_s", "fill_si"},
         DOMAIN T \subseteq DOMAIN T',
         <<p, e>> \in DOMAIN T' \/ (phase = "fill_s" /\ p # <<>>)
  PROVE  DrainInv'
<1>1. todo' = todo \ {<<p, e>>} /\ todo \subseteq Words \X Words
  BY DEF NextEntry, DrainInv, FillInv
<1>2. PrefixClosed' BY DEF DrainInv, PrefixClosed, Successors
<1>3. todo' \subseteq Words \X Words BY <1>1
<1>4. CASE phase = "fill_s"
  <2>1. RootFilled(todo)' BY <1>1, <1>4 DEF DrainInv, FillInv, RootFilled
  <2> QED BY <1>2, <1>3, <1>4, <2>1 DEF DrainInv, FillInv
<1>5. CASE phase = "fill_si"
  <2>1. RootFilled({})' BY <1>5 DEF DrainInv, FillInv, RootFilled
  <2>2. SuccessorsFilled(todo)'
    BY <1>1, <1>5 DEF DrainInv, FillInv, SuccessorsFilled, Successors
  <2> QED BY <1>2, <1>3, <1>5, <2>1, <2>2 DEF DrainInv, FillInv
<1> QED BY <1>4, <1>5

\* A step that begins to fill for a larger S or E.
LEMMA StartStep ==
  ASSUME DrainInv, NEW P, NEW Q, NEW c \in {"close", "consistent"}, StartFill(P, Q, c),
         T' = T, P \subseteq Words, Q \subseteq Words, S \subseteq P,
         P \subseteq Successors \cup {<<>>}
  PROVE  DrainInv'
<1>1. PrefixClosed'
  <2>1. S' = P /\ E' = Q BY DEF StartFill
  <2>2. Successors \subseteq Successors' BY <2>1, SuccessorsGrow
  <2>3. <<>> \in S BY DEF DrainInv, PrefixClosed
  <2> QED BY <2>1, <2>2, <2>3 DEF PrefixClosed
<1>2. todo' \subseteq Words \X Words BY DEF StartFill, Missing
<1>3. RootFilled(todo)'
  BY MissingIsMissing, <1>1 DEF StartFill, RootFilled, PrefixClosed
<1> QED BY <1>1, <1>2, <1>3 DEF StartFill, DrainInv, FillInv, Phases

\* A step that changes neither the table nor what is left of it.
LEMMA StillStep ==
  ASSUME DrainInv, UNCHANGED <<S, E, T, todo, resume>>,
         \/ phase' = phase
         \/ phase' \in {"stopped", "failed"}
         \/ /\ phase \in {"close", "consistent", "hypothesis", "threshold"}
            /\ phase' \in {"close", "consistent", "hypothesis", "threshold"}
  PROVE  DrainInv'
<1>1. PrefixClosed' BY DEF DrainInv, PrefixClosed, Successors
<1>2. Drained => Drained' BY DEF Drained, Successors
<1>3. RootFilled(todo) => RootFilled(todo)' BY DEF RootFilled
<1>4. RootFilled({}) => RootFilled({})' BY DEF RootFilled
<1>5. SuccessorsFilled(todo) => SuccessorsFilled(todo)' BY DEF SuccessorsFilled, Successors
<1> QED BY <1>1, <1>2, <1>3, <1>4, <1>5 DEF DrainInv, FillInv, Phases

LEMMA DrainStep == DrainInv /\ [Next]_vars => DrainInv'
<1> SUFFICES ASSUME DrainInv, [Next]_vars PROVE DrainInv' OBVIOUS
<1> USE DEF table, FillUnchanged
<1>0. todo \subseteq Words \X Words /\ S \subseteq Words /\ E \subseteq Words
  BY DEF DrainInv, FillInv, PrefixClosed
<1>1. ASSUME NEW pe \in todo, Fill(pe[1], pe[2]) PROVE DrainInv'
  <2> DEFINE p == pe[1]
             e == pe[2]
  <2>1. p \in Words /\ e \in Words /\ p \o e \in Words BY <1>0 DEF Words
  <2> HIDE DEF p, e
  <2>2. CASE FillDead(p, e)
    <3>1. <<p, e>> \in DOMAIN T' /\ DOMAIN T \subseteq DOMAIN T'
      BY <2>2 DEF FillDead, Put
    <3> QED BY <2>2, <3>1, FillStep DEF FillDead
  <2>3. CASE FillS(p, e)
    <3>1. PICK r \in Recordings(target, p \o e) :
            IF Short(r.out, p) THEN UNCHANGED T ELSE Put(p, e, LastN(r.out, Len(e)))
      BY <2>3 DEF FillS
    <3>2. Short(r.out, p) => p # <<>>
      BY <2>1, RecordingsNonempty DEF Short
    <3>3. DOMAIN T \subseteq DOMAIN T' /\ (<<p, e>> \in DOMAIN T' \/ p # <<>>)
      BY <3>1, <3>2 DEF Put
    <3> QED BY <2>3, <3>3, FillStep DEF FillS
  <2>4. CASE FillSi(p, e)
    <3>1. <<p, e>> \in DOMAIN T' /\ DOMAIN T \subseteq DOMAIN T'
      BY <2>4 DEF FillSi, Put
    <3> QED BY <2>4, <3>1, FillStep DEF FillSi
  <2>5. CASE GiveUp(p, e)
    <3>1. <<p, e>> \in DOMAIN T' /\ DOMAIN T \subseteq DOMAIN T'
      BY <2>5 DEF GiveUp
    <3> QED BY <2>5, <3>1, FillStep DEF GiveUp
  <2> QED BY <1>1, <2>2, <2>3, <2>4, <2>5 DEF Fill, p, e
<1>2. CASE SFilled
  <2>1. PrefixClosed' BY <1>2 DEF SFilled, DrainInv, PrefixClosed, Successors
  <2>2. RootFilled({})'
    BY <1>2 DEF SFilled, DrainInv, FillInv, RootFilled
  <2>3. SuccessorsFilled(todo)'
    BY <1>2, MissingIsMissing DEF SFilled, SuccessorsFilled, Successors
  <2>4. todo' \subseteq Words \X Words
    BY <1>0, <1>2, SuccessorsAreWords DEF SFilled, Missing, Successors
  <2> QED BY <1>2, <2>1, <2>2, <2>3, <2>4 DEF SFilled, DrainInv, FillInv, Phases
<1>3. CASE Filled
  <2>1. PrefixClosed' BY <1>3 DEF Filled, DrainInv, PrefixClosed, Successors
  <2>2. RootFilled({}) /\ SuccessorsFilled({})
    BY <1>3 DEF Filled, DrainInv, FillInv, SuccessorsFilled
  <2>3. Drained BY <2>2, FilledIsDrained DEF DrainInv
  <2>4. Drained' BY <1>3, <2>3 DEF Filled, Drained, Successors
  <2> QED BY <1>3, <2>1, <2>4 DEF Filled, DrainInv, FillInv, Phases
<1>4. CASE FillStopped BY <1>4, StillStep DEF FillStopped
<1>5. ASSUME NEW sa \in Successors, AddPrefix(sa) PROVE DrainInv'
  <2>1. S \cup {sa} \subseteq Words
    <3>1. Successors \subseteq Words BY <1>0, SuccessorsAreWords, Zenon DEF Successors
    <3> QED BY <1>0, <3>1
  <2>2. S \cup {sa} \subseteq Successors \cup {<<>>} BY DEF DrainInv, PrefixClosed
  <2> QED BY <1>0, <1>5, <2>1, <2>2, StartStep DEF AddPrefix
<1>6. CASE MakeCloseReturns BY <1>6, StillStep DEF MakeCloseReturns, Return
<1>7. ASSUME NEW a \in Alphabet, NEW e \in E, AddSuffix(a, e) PROVE DrainInv'
  <2>1. <<a>> \o e \in Words BY <1>0 DEF Words
  <2>2. E \cup {<<a>> \o e} \subseteq Words BY <1>0, <2>1
  <2>3. S \subseteq Successors \cup {<<>>} BY DEF DrainInv, PrefixClosed
  <2> QED BY <1>0, <1>7, <2>2, <2>3, StartStep DEF AddSuffix
<1>8. CASE MakeConsistentStops BY <1>8, StillStep DEF MakeConsistentStops, Return
<1>9. CASE BuildHypothesis BY <1>9, StillStep DEF BuildHypothesis, Return
<1>10. CASE NoOutput BY <1>10, StillStep DEF NoOutput
<1>11. CASE Stop BY <1>11, StillStep DEF Stop
<1>12. CASE UNCHANGED vars BY <1>12, StillStep DEF vars
<1> QED BY <1>1, <1>2, <1>3, <1>4, <1>5, <1>6, <1>7, <1>8, <1>9, <1>10, <1>11,
           <1>12 DEF Next, Learn

LEMMA LookupInit == Init => LookupInv
<1> SUFFICES ASSUME Init PROVE LookupInv OBVIOUS
<1>1. \A pe \in todo : pe[1] = <<>> BY DEF Init
<1> QED BY <1>1 DEF Init, LookupInv, LookupsFilled

\* The prefixes that are filled come from a prefix of the table.
LEMMA LookupsOfSuccessors ==
  ASSUME TypeInv, SinglesFilled, NEW pe \in (S \cup Successors) \X E, pe[1] # <<>>
  PROVE  <<Front(pe[1]), <<Last(pe[1])>>>> \in DOMAIN T
<1>1. CASE pe[1] \in Successors
  <2>1. PICK s \in S, a \in Alphabet : pe[1] = s \o <<a>> BY <1>1, SuccessorHasParent
  <2>2. s \in Words BY DEF TypeInv, TypeOK, Words
  <2>3. Front(pe[1]) = s /\ Last(pe[1]) = a BY <2>1, <2>2, FrontLast
  <2> QED BY <2>3 DEF SinglesFilled
<1>2. CASE pe[1] \in S
  <2>1. PICK s : s = pe[1] OBVIOUS
  <2>2. s \in S /\ s \in Words /\ s # <<>> BY <1>2, <2>1 DEF TypeInv, TypeOK, Words
  <2>3. Len(s) - 1 \in 0..Len(s) /\ Front(s) = Upto(s, Len(s) - 1) /\ Last(s) \in Alphabet
    BY <2>2 DEF Words, Front, Last, Upto
  <2>4. Front(s) \in S BY <2>2, <2>3 DEF TypeInv
  <2> QED BY <2>1, <2>3, <2>4 DEF SinglesFilled
<1> QED BY <1>1, <1>2

\* A table that grows answers the same lookups.
LEMMA LookupGrows ==
  ASSUME LookupInv, S' = S, DOMAIN T \subseteq DOMAIN T', todo' \subseteq todo,
         phase' = "fill_si" => phase = "fill_si"
  PROVE  LookupInv'
BY DEF LookupInv, SinglesFilled, LookupsFilled

LEMMA LookupStep == TypeInv /\ DrainInv /\ LookupInv /\ [Next]_vars => LookupInv'
<1> SUFFICES ASSUME TypeInv, DrainInv, LookupInv, [Next]_vars PROVE LookupInv' OBVIOUS
<1> USE DEF table, FillUnchanged
<1>1. ASSUME NEW pe \in todo, Fill(pe[1], pe[2]) PROVE LookupInv'
  <2>1. DOMAIN T \subseteq DOMAIN T'
    BY <1>1 DEF Fill, FillDead, FillS, FillSi, GiveUp, Put
  <2>2. S' = S /\ phase' = phase /\ todo' \subseteq todo
    BY <1>1 DEF Fill, FillDead, FillS, FillSi, GiveUp, NextEntry
  <2> QED BY <2>1, <2>2, LookupGrows
<1>2. CASE SFilled
  <2>1. SinglesFilled
    <3>1. CASE S = {<<>>}
      <4>1. \A e \in E : <<<<>>, e>> \in DOMAIN T
        BY <1>2 DEF SFilled, DrainInv, FillInv, RootFilled
      <4>2. \A a \in Alphabet : <<a>> \in E BY DEF TypeInv, Singles
      <4> QED BY <3>1, <4>1, <4>2 DEF SinglesFilled
    <3> QED BY <3>1 DEF LookupInv
  <2>2. SinglesFilled' BY <1>2, <2>1 DEF SFilled, SinglesFilled
  <2>3. LookupsFilled(todo)'
    <3>1. todo' \subseteq (S \cup Successors) \X E BY <1>2 DEF SFilled, Missing
    <3>2. \A pe \in todo' : pe[1] # <<>> => <<Front(pe[1]), <<Last(pe[1])>>>> \in DOMAIN T
      BY <2>1, <3>1, LookupsOfSuccessors
    <3> QED BY <1>2, <3>2 DEF SFilled, LookupsFilled
  <2> QED BY <2>2, <2>3 DEF LookupInv
<1>3. CASE Filled BY <1>3, LookupGrows DEF Filled, DrainInv
<1>4. CASE FillStopped BY <1>4, LookupGrows DEF FillStopped
<1>5. ASSUME Drained, NEW P, NEW Q, NEW c, StartFill(P, Q, c), T' = T,
             P \subseteq S \cup Successors, <<>> \in P
      PROVE  LookupInv'
  <2>1. S' = P /\ phase' = "fill_s" /\ todo' = Missing(P, Q) BY <1>5 DEF StartFill
  <2>2. \A s \in S \cup Successors, a \in Alphabet : <<s, <<a>>>> \in DOMAIN T
    BY <1>5 DEF Drained, TypeInv, Singles
  <2>3. SinglesFilled /\ SinglesFilled' BY <1>5, <2>1, <2>2 DEF SinglesFilled
  <2>4. E # {} /\ Q = E'
    <3>1. PICK a \in Alphabet : TRUE BY AlphabetAssumption
    <3>2. <<a>> \in E BY DEF TypeInv, Singles
    <3> QED BY <1>5, <3>2 DEF StartFill
  <2>5. ASSUME NEW pe \in todo', pe[1] # <<>>
        PROVE  <<Front(pe[1]), <<Last(pe[1])>>>> \in DOMAIN T
    <3>1. PICK e \in E : TRUE BY <2>4
    <3>2. pe[1] \in S \cup Successors BY <1>5, <2>1, <2>5 DEF Missing
    <3>3. <<pe[1], e>> \in (S \cup Successors) \X E BY <3>2
    <3> QED BY <2>3, <2>5, <3>3, LookupsOfSuccessors
  <2> QED BY <1>5, <2>1, <2>3, <2>5 DEF LookupInv, LookupsFilled
<1>6. ASSUME NEW sa \in Successors, AddPrefix(sa) PROVE LookupInv'
  <2>1. Drained /\ <<>> \in S BY <1>6 DEF AddPrefix, DrainInv, FillInv, TypeInv
  <2> QED BY <1>5, <1>6, <2>1 DEF AddPrefix
<1>7. CASE MakeCloseReturns BY <1>7, LookupGrows DEF MakeCloseReturns, Return
<1>8. ASSUME NEW a \in Alphabet, NEW e \in E, AddSuffix(a, e) PROVE LookupInv'
  <2>1. Drained /\ <<>> \in S BY <1>8 DEF AddSuffix, DrainInv, FillInv, TypeInv
  <2> QED BY <1>5, <1>8, <2>1 DEF AddSuffix
<1>9. CASE MakeConsistentStops BY <1>9, LookupGrows DEF MakeConsistentStops, Return
<1>10. CASE BuildHypothesis BY <1>10, LookupGrows DEF BuildHypothesis, Return
<1>11. CASE NoOutput BY <1>11, LookupGrows DEF NoOutput
<1>12. CASE Stop BY <1>12, LookupGrows DEF Stop
<1>13. CASE UNCHANGED vars BY <1>13, LookupGrows DEF vars
<1> QED BY <1>1, <1>2, <1>3, <1>4, <1>6, <1>7, <1>8, <1>9, <1>10, <1>11, <1>12,
           <1>13 DEF Next, Learn

\* Every entry of S and its successors is set whenever a row is read, in every table
\* that is kept, and wherever the loops look whether a prefix is dead (mlstar.py:17,
\* 139, 198, 249, 272), whatever comes too late.
THEOREM TableIsDrained == Spec => []ReadsAreDrained
<1>1. DrainInv /\ LookupInv => ReadsAreDrained
  BY DEF DrainInv, FillInv, LookupInv, LookupsFilled, ReadsAreDrained
<1> QED BY TypeInit, TypeStep, DrainInit, DrainStep, LookupInit, LookupStep, <1>1, PTL DEF Spec

-----------------------------------------------------------------------------
\* A table that nothing changes is as closed and consistent as before.
LEMMA SameTable ==
  ASSUME UNCHANGED <<S, E, T>>
  PROVE  (Unclosed = {} /\ Distinguishing = {})' <=> (Unclosed = {} /\ Distinguishing = {})
<1>1. \A s : Row(s)' = Row(s) BY DEF Row
<1>2. Unclosed' = Unclosed BY DEF Unclosed, Successors, Row
<1>3. Distinguishing' = Distinguishing BY DEF Distinguishing, Row
<1> QED BY <1>2, <1>3

\* build_hypothesis runs on a closed and consistent table, and nothing touches it after.
HypothesisIsClosed ==
  phase = "hypothesis" => Unclosed = {} /\ Distinguishing = {}

LEMMA HypothesesAreClosed == Spec => []HypothesisIsClosed
<1>1. Init => HypothesisIsClosed BY DEF Init, HypothesisIsClosed
<1>2. DrainInv /\ HypothesisIsClosed /\ [Next]_vars => HypothesisIsClosed'
  <2> SUFFICES ASSUME DrainInv, HypothesisIsClosed, [Next]_vars, phase' = "hypothesis"
               PROVE  Unclosed' = {} /\ Distinguishing' = {}
    BY DEF HypothesisIsClosed
  <2> USE DEF table, FillUnchanged
  <2>1. CASE BuildHypothesis
    <3>1. Unclosed = {} /\ Distinguishing = {} /\ UNCHANGED <<S, E, T>>
      BY <2>1 DEF BuildHypothesis, Return
    <3> QED BY <3>1, SameTable
  <2>2. ASSUME phase = "hypothesis", UNCHANGED <<S, E, T>>
        PROVE  Unclosed' = {} /\ Distinguishing' = {}
    BY <2>2, SameTable DEF HypothesisIsClosed
  <2>3. ASSUME NEW pe \in todo, Fill(pe[1], pe[2]) PROVE FALSE
    BY <2>3 DEF Fill, FillDead, FillS, FillSi, GiveUp
  <2>4. CASE SFilled BY <2>4 DEF SFilled
  <2>5. CASE Filled BY <2>5 DEF Filled, DrainInv
  <2>6. CASE FillStopped BY <2>6 DEF FillStopped
  <2>7. ASSUME NEW sa \in Successors, AddPrefix(sa) PROVE FALSE
    BY <2>7 DEF AddPrefix, StartFill
  <2>8. CASE MakeCloseReturns BY <2>8 DEF MakeCloseReturns, Return
  <2>9. ASSUME NEW a \in Alphabet, NEW e \in E, AddSuffix(a, e) PROVE FALSE
    BY <2>9 DEF AddSuffix, StartFill
  <2>10. CASE MakeConsistentStops BY <2>10 DEF MakeConsistentStops, Return
  <2>11. CASE NoOutput BY <2>11 DEF NoOutput
  <2>12. CASE Stop BY <2>12, <2>2 DEF Stop
  <2>13. CASE UNCHANGED vars BY <2>13, <2>2 DEF vars
  <2> QED BY <2>1, <2>3, <2>4, <2>5, <2>6, <2>7, <2>8, <2>9, <2>10, <2>11, <2>12,
             <2>13 DEF Next, Learn
<1> QED BY <1>1, <1>2, DrainInit, DrainStep, PTL DEF Spec

-----------------------------------------------------------------------------
(* What the table holds while no answer comes too late.                    *)

\* No two prefixes have the same row: make_close adds new rows only.
RowsDiffer ==
  \A s, t \in S : s # t =>
    \E e \in E : /\ <<s, e>> \in DOMAIN T /\ <<t, e>> \in DOMAIN T
                /\ T[<<s, e>>] # T[<<t, e>>]

\* An entry is right, or lacks a crash that was seen before.
EntryRight(x, p, e) == x = Expected(p, e) \/ CrashLeftOut(x, p, e)

RightInv ==
  Reliable =>
    /\ E = Singles
    /\ todo \cap DOMAIN T = {}
    /\ \A pe \in DOMAIN T : EntryRight(T[pe], pe[1], pe[2])
    /\ RowsDiffer

LEMMA ExpectedSingle ==
  ASSUME NEW p \in Words, NEW a \in Alphabet
  PROVE  Expected(p, <<a>>) = <<Answer(target, p \o <<a>>)>>
<1>1. SubSeq(<<a>>, 1, 1) = <<a>>
  <2>1. <<a>> \in Words /\ Len(<<a>>) = 1 BY DEF Words
  <2> QED BY <2>1, UptoAll DEF Upto
<1>2. Expected(p, <<a>>) = [i \in 1..1 |-> Answer(target, p \o SubSeq(<<a>>, 1, i))]
  BY DEF Expected
<1>3. \A i \in 1..1 : i = 1 OBVIOUS
<1> DEFINE x == Answer(target, p \o <<a>>)
           f == [i \in 1..1 |-> Answer(target, p \o SubSeq(<<a>>, 1, i))]
<1>4. \A i \in 1..1 : f[i] = x BY <1>1, <1>3
<1>5. f = [i \in 1..1 |-> x] BY <1>4
<1> HIDE DEF x, f
<1>6. [i \in 1..1 |-> x] = <<x>> OBVIOUS
<1> QED BY <1>2, <1>5, <1>6 DEF f, x

\* A late answer is not forgotten, nor a crash.
LEMMA ReliableBefore ==
  ASSUME TypeInv, [Next]_vars, Reliable'
  PROVE  Reliable
<1>1. timeouts \in Nat BY MachinesAssumption DEF TypeInv, TypeOK
<1>2. ASSUME NEW pe \in todo, Fill(pe[1], pe[2]) PROVE Reliable
  <2>1. PICK p, e : p = pe[1] /\ e = pe[2] /\ p \in Words /\ e \in E
    BY SuccessorsAreWords DEF TypeInv, TypeOK, Successors, Words
  <2>2. ASSUME NEW r \in Recordings(target, p \o e), NEW times \in {1, 3}, Observe(r, times)
        PROVE  Reliable
    <3>1. p \o e \in Words /\ p \o e # <<>> BY <2>1, RecordedEntry
    <3>2. r.late \in {0, 1} BY <3>1, RecordingShape
    <3>3. timeouts' = timeouts + times * r.late
      BY <2>2 DEF Observe
    <3> QED BY <1>1, <3>2, <3>3 DEF Reliable
  <2>3. CASE FillDead(p, e) BY <2>3 DEF FillDead, Reliable
  <2> QED BY <1>2, <2>1, <2>2, <2>3 DEF Fill, FillS, FillSi, GiveUp
<1>3. ASSUME UNCHANGED timeouts PROVE Reliable
  BY <1>3 DEF Reliable
<1> QED BY <1>2, <1>3 DEF Next, Learn, SFilled, Filled, FillStopped, AddPrefix,
       MakeCloseReturns, AddSuffix, MakeConsistentStops, BuildHypothesis, Return, NoOutput,
       Stop, vars

\* What is recorded without the crash that ended it is normal.
LEMMA LeftOutIsNormal ==
  ASSUME NEW m, NEW w \in Words, w # <<>>, IsRepeatCrash(m, w)
  PROVE  \E x : x \notin Abnormal /\ LastN(Replies(m, w), 1) = <<x>>
<1>1. PICK n : n = Sent(m, w) - 1 OBVIOUS
<1>2. PICK out : out = Replies(m, w) OBVIOUS
<1>3. PICK A : A = {"-"} \cup {ReplyAt(m, w, i) : i \in 1..Len(w)} OBVIOUS
<1>4. EndsAt(m, w, Sent(m, w)) /\ Len(w) \in Nat BY SentEnds DEF Words
<1>5. n \in Nat /\ Sent(m, w) = n + 1 BY <1>1, <1>4 DEF EndsAt
<1>6. /\ out \in Seq(A) /\ Len(out) = n + 1 /\ out[1] = "-"
      /\ \A i \in 1..n : out[i + 1] = ReplyAt(m, w, i)
  <2>1. n = IF IsRepeatCrash(m, w) THEN Sent(m, w) - 1 ELSE Sent(m, w) BY <1>1
  <2> QED BY <1>2, <1>3, <2>1, RepliesShape, ZenonT(30)
<1>7. out[n + 1] \notin Abnormal
  <2>1. CASE n = 0 BY <1>6, <2>1 DEF Abnormal
  <2>2. CASE n # 0
    <3>1. n \in 1..n /\ n \in 1..(Sent(m, w) - 1) BY <1>5, <2>2
    <3> QED BY <1>4, <1>6, <3>1 DEF EndsAt
  <2> QED BY <2>1, <2>2
<1>8. LastN(out, 1) = <<out[n + 1]>>
  <2>1. LastN(out, 1) = SubSeq(out, n + 1, n + 1) BY <1>5, <1>6 DEF LastN
  <2>2. SubSeq(out, n + 1, n + 1) \in Seq(A) /\ Len(SubSeq(out, n + 1, n + 1)) = 1
        /\ SubSeq(out, n + 1, n + 1)[1] = out[n + 1]
    BY <1>5, <1>6
  <2>3. \A q \in Seq(A) : Len(q) = 1 => q = <<q[1]>> OBVIOUS
  <2> QED BY <2>1, <2>2, <2>3
<1> QED BY <1>2, <1>7, <1>8

\* What decides whether a prefix is dead is what the target answered to it; a crash that
\* was left out does not make it dead.
LEMMA DeadIsAnswered ==
  ASSUME TypeInv, LookupInv, RightInv, Reliable, NEW pe \in todo,
         NEW p \in Words, p = pe[1], p # <<>>
  PROVE  \/ T[<<Front(p), <<Last(p)>>>>] = <<Answer(target, p)>>
         \/ Answer(target, p) = "CRASH" /\ ~ Dead(p)
<1>1. <<Front(p), <<Last(p)>>>> \in DOMAIN T BY DEF LookupInv, LookupsFilled
<1>2. Front(p) \in Words /\ Last(p) \in Alphabet /\ p = Front(p) \o <<Last(p)>>
  BY DEF Words, Front, Last
<1>3. EntryRight(T[<<Front(p), <<Last(p)>>>>], Front(p), <<Last(p)>>)
  BY <1>1 DEF RightInv
<1>4. ASSUME CrashLeftOut(T[<<Front(p), <<Last(p)>>>>], Front(p), <<Last(p)>>)
      PROVE  Answer(target, p) = "CRASH" /\ ~ Dead(p)
  <2>1. IsRepeatCrash(target, p) /\ T[<<Front(p), <<Last(p)>>>>] = LastN(Replies(target, p), 1)
    <3>1. Len(<<Last(p)>>) = 1 OBVIOUS
    <3> QED BY <1>2, <1>4, <3>1 DEF CrashLeftOut
  <2>2. PICK x : x \notin Abnormal /\ T[<<Front(p), <<Last(p)>>>>] = <<x>>
    BY <2>1, LeftOutIsNormal
  <2>3. ~ Dead(p) BY <2>2 DEF Dead
  <2> QED BY <2>1, <2>3 DEF IsRepeatCrash, Answer
<1> QED BY <1>2, <1>3, <1>4, ExpectedSingle DEF EntryRight

\* A query in time that ends with TIMEOUT was sent up to the reply the target hung at.
LEMMA ShortIsHung ==
  ASSUME NEW p \in Words, NEW a \in Alphabet, NEW r \in Recordings(target, p \o <<a>>),
         r.late = 0, Short(r.out, p)
  PROVE  Answer(target, p \o <<a>>) = "TIMEOUT" /\ Sent(target, p \o <<a>>) < Len(p)
<1>1. PICK w : w = p \o <<a>> OBVIOUS
<1>2. w \in Words /\ w # <<>> /\ Len(p) \in Nat /\ Len(w) = Len(p) + 1
  BY <1>1 DEF Words
<1>3. PICK out : out = Replies(target, w) /\ r.out = out BY <1>1, <1>2, RecordingShape
<1>4. PICK n : n = IF IsRepeatCrash(target, w) THEN Sent(target, w) - 1 ELSE Sent(target, w)
  OBVIOUS
<1>5. /\ n \in 0..Len(w) /\ Len(out) = n + 1 /\ out[1] = "-"
      /\ \A i \in 1..n : out[i + 1] = ReplyAt(target, w, i)
  <2>1. /\ n \in 0..Len(w) /\ Len(Replies(target, w)) = n + 1 /\ Replies(target, w)[1] = "-"
        /\ \A i \in 1..n : Replies(target, w)[i + 1] = ReplyAt(target, w, i)
    BY <1>2, <1>4, RepliesShape, ZenonT(30)
  <2> QED BY <1>3, <2>1
<1>6. out[n + 1] = "TIMEOUT" /\ n < Len(p) BY <1>2, <1>3, <1>5 DEF Short, Last
<1>7. n # 0 BY <1>5, <1>6
<1>8. n \in 1..n BY <1>5, <1>7
<1>9. ReplyAt(target, w, n) = "TIMEOUT" BY <1>5, <1>6, <1>8
<1>10. EndsAt(target, w, Sent(target, w)) BY <1>2, SentEnds
<1>11. "TIMEOUT" \in Abnormal BY DEF Abnormal
<1>12. ~ IsRepeatCrash(target, w)
  <2> SUFFICES ASSUME IsRepeatCrash(target, w) PROVE FALSE OBVIOUS
  <2>1. n = Sent(target, w) - 1 /\ Sent(target, w) \in 0..Len(w) BY <1>4, <1>10 DEF EndsAt
  <2>2. n \in 1..(Sent(target, w) - 1) BY <1>2, <1>5, <1>7, <2>1
  <2> QED BY <1>9, <1>10, <1>11, <2>2 DEF EndsAt
<1>13. n = Sent(target, w) BY <1>4, <1>12
<1> QED BY <1>1, <1>6, <1>9, <1>13 DEF Answer

\* A query in time records what the target answers, or ends in a crash it saw before.
LEMMA RecordedIsRight ==
  ASSUME TypeInv, NEW p \in Words, NEW a \in Alphabet,
         \/ p = <<>>
         \/ Answer(target, p) \notin Abnormal
         \/ Answer(target, p) = "CRASH",
         NEW r \in Recordings(target, p \o <<a>>), NEW times \in {1, 3},
         Observe(r, times), Reliable, Reliable'
  PROVE  /\ EntryRight(LastN(r.out, Len(<<a>>)), p, <<a>>)
         /\ ~ Short(r.out, p)
<1>1. PICK w : w = p \o <<a>> OBVIOUS
<1>2. w \in Words /\ w # <<>> /\ Len(p) \in Nat /\ Len(w) = Len(p) + 1
  BY <1>1 DEF Words
<1>3. r.late \in {0, 1} BY <1>1, <1>2, RecordingShape
<1>4. r.late = 0 BY <1>3 DEF Observe, Reliable
<1>5. r.out = Replies(target, w) BY <1>1, <1>2, <1>4, RecordingShape
<1>6. EntryRight(LastN(r.out, Len(<<a>>)), p, <<a>>)
  <2>1. CASE IsRepeatCrash(target, w)
    BY <1>1, <1>5, <2>1 DEF EntryRight, CrashLeftOut
  <2>2. CASE ~ IsRepeatCrash(target, w)
    <3>1. LastN(r.out, 1) = <<Answer(target, w)>> BY <1>2, <1>5, <2>2, LastReply
    <3>2. Len(<<a>>) = 1 OBVIOUS
    <3> QED BY <1>1, <3>1, <3>2, ExpectedSingle DEF EntryRight
  <2> QED BY <2>1, <2>2
<1>7. ~ Short(r.out, p)
  <2> SUFFICES ASSUME Short(r.out, p) PROVE FALSE OBVIOUS
  <2>1. Answer(target, w) = "TIMEOUT" /\ Sent(target, w) < Len(p)
    BY <1>1, <1>4, ShortIsHung
  <2>2. p # <<>> BY <1>2, <2>1, SentEnds DEF EndsAt
  <2>3. CASE Answer(target, p) \notin Abnormal
    <3>1. Sent(target, w) = Len(p) + 1 BY <1>1, <2>3, AnswerAfterLive
    <3> QED BY <1>2, <2>1, <3>1
  <2>4. CASE Answer(target, p) = "CRASH"
    <3>1. Answer(target, p) \in Abnormal BY <2>4 DEF Abnormal
    <3>2. Answer(target, w) = "CRASH" BY <1>1, <2>2, <2>4, <3>1, AnswerAfterDead
    <3> QED BY <2>1, <3>2
  <2> QED BY <2>2, <2>3, <2>4
<1> QED BY <1>6, <1>7

\* An entry that is put once, and right, keeps the table right.
LEMMA PutRight ==
  ASSUME RightInv, Reliable, NEW p, NEW e, NextEntry(p, e), FillUnchanged,
         NEW x, Put(p, e, x), EntryRight(x, p, e), crashIndex \subseteq crashIndex'
  PROVE  RightInv'
<1> USE DEF FillUnchanged
<1>1. <<p, e>> \in todo /\ todo' = todo \ {<<p, e>>} BY DEF NextEntry
<1>2. <<p, e>> \notin DOMAIN T BY <1>1 DEF RightInv
<1>3. /\ DOMAIN T' = DOMAIN T \cup {<<p, e>>}
      /\ T'[<<p, e>>] = x
      /\ \A pe \in DOMAIN T : T'[pe] = T[pe]
  BY <1>2 DEF Put
<1>4. \A y, q, d : EntryRight(y, q, d) => EntryRight(y, q, d)'
  BY DEF EntryRight, Expected, CrashLeftOut, IsRepeatCrash, Replies
<1>5. ASSUME NEW pe \in DOMAIN T' PROVE EntryRight(T[pe], pe[1], pe[2])'
  <2>1. CASE pe = <<p, e>> BY <1>3, <1>4, <2>1
  <2>2. CASE pe \in DOMAIN T BY <1>3, <1>4, <2>2 DEF RightInv
  <2> QED BY <1>3, <2>1, <2>2
<1>6. (todo \cap DOMAIN T = {})' BY <1>1, <1>3 DEF RightInv
<1>7. RowsDiffer'
  <2>1. RowsDiffer BY DEF RightInv
  <2>2. \A s, t \in S, d \in E :
          <<s, d>> \in DOMAIN T /\ <<t, d>> \in DOMAIN T /\ T[<<s, d>>] # T[<<t, d>>] =>
          <<s, d>> \in DOMAIN T' /\ <<t, d>> \in DOMAIN T' /\ T'[<<s, d>>] # T'[<<t, d>>]
    BY <1>3
  <2> QED BY <2>1, <2>2 DEF RowsDiffer
<1>8. E' = Singles BY DEF RightInv
<1> QED BY <1>5, <1>6, <1>7, <1>8 DEF RightInv, Singles

LEMMA FillRight ==
  ASSUME TypeInv, LookupInv, RightInv, Reliable, Reliable',
         NEW p, NEW e, Fill(p, e)
  PROVE  RightInv'
<1>1. NextEntry(p, e) /\ FillUnchanged /\ <<p, e>> \in todo
  BY DEF Fill, FillDead, FillS, FillSi, GiveUp, NextEntry
<1>2. p \in Words /\ e \in E
  BY <1>1, SuccessorsAreWords DEF TypeInv, TypeOK, Successors, Words
<1>3. PICK a \in Alphabet : e = <<a>> BY <1>2 DEF RightInv, Singles
<1>4. p # <<>> => \/ T[<<Front(p), <<Last(p)>>>>] = <<Answer(target, p)>>
                  \/ Answer(target, p) = "CRASH" /\ ~ Dead(p)
  BY <1>1, <1>2, DeadIsAnswered
<1>5. crashIndex \subseteq crashIndex'
  BY DEF Fill, FillDead, FillS, FillSi, GiveUp, Observe
<1>6. CASE FillDead(p, e)
  <2>1. PICK x : x = T[<<Front(p), <<Last(p)>>>>] OBVIOUS
  <2>2. p # <<>> /\ (\E y \in Abnormal : x = <<y>>) /\ Put(p, e, x)
    BY <1>6, <2>1 DEF FillDead, Dead
  <2>3. x = <<Answer(target, p)>> BY <1>4, <1>6, <2>1, <2>2 DEF FillDead
  <2>4. Answer(target, p) \in Abnormal BY <2>2, <2>3
  <2>5. Answer(target, p \o e) = Answer(target, p)
    BY <1>2, <1>3, <2>2, <2>4, AnswerAfterDead
  <2>6. EntryRight(x, p, e) BY <1>2, <1>3, <2>3, <2>5, ExpectedSingle DEF EntryRight
  <2> QED BY <1>1, <1>5, <2>2, <2>6, PutRight
<1>7. ASSUME ~ Dead(p), NEW r \in Recordings(target, p \o e), NEW times \in {1, 3},
             Observe(r, times)
      PROVE  EntryRight(LastN(r.out, Len(e)), p, e) /\ ~ Short(r.out, p)
  <2>1. \/ p = <<>>
        \/ Answer(target, p) \notin Abnormal
        \/ Answer(target, p) = "CRASH"
    BY <1>4, <1>7 DEF Dead
  <2> QED BY <1>2, <1>3, <1>7, <2>1, RecordedIsRight
<1>8. CASE FillS(p, e)
  <2>1. PICK r \in Recordings(target, p \o e) :
          /\ Observe(r, 1)
          /\ IF Short(r.out, p) THEN UNCHANGED T ELSE Put(p, e, LastN(r.out, Len(e)))
    BY <1>8 DEF FillS
  <2>2. EntryRight(LastN(r.out, Len(e)), p, e) /\ ~ Short(r.out, p)
    BY <1>7, <1>8, <2>1 DEF FillS
  <2> QED BY <1>1, <1>5, <2>1, <2>2, PutRight
<1>9. CASE FillSi(p, e)
  <2>1. PICK r \in Recordings(target, p \o e) :
          Observe(r, 1) /\ Put(p, e, LastN(r.out, Len(e)))
    BY <1>9 DEF FillSi
  <2>2. EntryRight(LastN(r.out, Len(e)), p, e) BY <1>7, <1>9, <2>1 DEF FillSi
  <2> QED BY <1>1, <1>5, <2>1, <2>2, PutRight
<1>10. CASE GiveUp(p, e)
  <2>1. PICK r \in Recordings(target, p \o e) : Short(r.out, p) /\ Observe(r, 3)
    BY <1>10 DEF GiveUp
  <2>2. FALSE BY <1>7, <1>10, <2>1 DEF GiveUp
  <2> QED BY <2>2
<1> QED BY <1>6, <1>8, <1>9, <1>10 DEF Fill

\* The table stays as it is; the loop may have to fill what is missing.
LEMMA StillRight ==
  ASSUME RightInv, UNCHANGED <<target, table, crashIndex, timeouts>>,
         todo' \subseteq todo \/ todo' \cap DOMAIN T = {}
  PROVE  RightInv'
<1> USE DEF table
<1>1. \A y, q, d : EntryRight(y, q, d) => EntryRight(y, q, d)'
  BY DEF EntryRight, Expected, CrashLeftOut, IsRepeatCrash, Replies
<1>2. RowsDiffer => RowsDiffer' BY DEF RowsDiffer
<1> QED BY <1>1, <1>2 DEF RightInv, Reliable, Singles

\* In a full table a prefix with a new row differs from the others.
LEMMA NewRowDiffers ==
  ASSUME Drained, RowsDiffer, NEW sa \in Unclosed, S' = S \cup {sa}, UNCHANGED <<E, T>>
  PROVE  RowsDiffer'
<1>1. ASSUME NEW s \in S
      PROVE  \E e \in E : <<s, e>> \in DOMAIN T /\ <<sa, e>> \in DOMAIN T
                          /\ T[<<s, e>>] # T[<<sa, e>>]
  <2>1. Row(s) # Row(sa) /\ sa \in Successors BY DEF Unclosed
  <2>2. \E e \in E : T[<<s, e>>] # T[<<sa, e>>] BY <2>1 DEF Row
  <2> QED BY <2>1, <2>2 DEF Drained
<1>2. ASSUME NEW s \in S \cup {sa}, NEW t \in S \cup {sa}, s # t
      PROVE  \E e \in E : <<s, e>> \in DOMAIN T /\ <<t, e>> \in DOMAIN T
                          /\ T[<<s, e>>] # T[<<t, e>>]
  <2>1. CASE s \in S /\ t \in S BY <1>2, <2>1 DEF RowsDiffer
  <2>2. CASE s \in S /\ t = sa BY <1>1, <2>2
  <2>3. CASE s = sa /\ t \in S
    <3>1. PICK e \in E : <<t, e>> \in DOMAIN T /\ <<sa, e>> \in DOMAIN T
                        /\ T[<<t, e>>] # T[<<sa, e>>]
      BY <1>1, <2>3
    <3> QED BY <2>3, <3>1
  <2> QED BY <1>2, <2>1, <2>2, <2>3
<1> SUFFICES ASSUME NEW s \in S', NEW t \in S', s # t
             PROVE  \E e \in E' : <<s, e>> \in DOMAIN T' /\ <<t, e>> \in DOMAIN T'
                                  /\ T'[<<s, e>>] # T'[<<t, e>>]
  BY Zenon DEF RowsDiffer
<1> QED BY <1>2

\* Prefixes of the same row are the same prefix: there is nothing to tell apart.
LEMMA RightIsConsistent ==
  ASSUME RowsDiffer
  PROVE  /\ \A s, t \in S : Row(s) = Row(t) => s = t
         /\ Distinguishing = {}
<1>1. ASSUME NEW s \in S, NEW t \in S, Row(s) = Row(t) PROVE s = t
  <2>1. \A e \in E : Row(s)[e] = T[<<s, e>>] /\ Row(t)[e] = T[<<t, e>>] BY DEF Row
  <2>2. \A e \in E : T[<<s, e>>] = T[<<t, e>>] BY <1>1, <2>1
  <2> QED BY <2>2 DEF RowsDiffer
<1>2. Distinguishing = {} BY <1>1 DEF Distinguishing
<1> QED BY <1>1, <1>2

LEMMA RightInit == TypeInv /\ Init => RightInv
<1> SUFFICES ASSUME TypeInv, Init PROVE RightInv OBVIOUS
<1>1. DOMAIN T = {} BY DEF Init
<1>2. RowsDiffer BY DEF Init, RowsDiffer
<1> QED BY <1>1, <1>2 DEF Init, RightInv, Singles

LEMMA RightStep == TypeInv /\ DrainInv /\ LookupInv /\ RightInv /\ [Next]_vars => RightInv'
<1> SUFFICES ASSUME TypeInv, DrainInv, LookupInv, RightInv, [Next]_vars, Reliable'
             PROVE  RightInv'
  BY DEF RightInv
<1>0. Reliable BY ReliableBefore
<1> USE DEF table
<1>1. ASSUME NEW pe \in todo, Fill(pe[1], pe[2]) PROVE RightInv' BY <1>0, <1>1, FillRight
<1>2. CASE SFilled
  <2>1. todo' \cap DOMAIN T = {} BY <1>2 DEF SFilled, Missing
  <2> QED BY <1>2, <2>1, StillRight DEF SFilled
<1>3. CASE Filled BY <1>3, StillRight DEF Filled
<1>4. CASE FillStopped BY <1>4, StillRight DEF FillStopped
<1>5. ASSUME NEW sa \in Successors, AddPrefix(sa) PROVE RightInv'
  <2>1. Drained /\ sa \in Unclosed BY <1>5 DEF AddPrefix, DrainInv, FillInv
  <2>2. S' = S \cup {sa} /\ todo' \cap DOMAIN T' = {}
        /\ UNCHANGED <<target, E, T, crashIndex, timeouts>>
    BY <1>5 DEF AddPrefix, StartFill, Missing
  <2>3. RowsDiffer' BY <1>0, <2>1, <2>2, NewRowDiffers DEF RightInv
  <2>4. \A y, q, d : EntryRight(y, q, d) => EntryRight(y, q, d)'
    BY <2>2 DEF EntryRight, Expected, CrashLeftOut, IsRepeatCrash, Replies
  <2> QED BY <1>0, <2>2, <2>3, <2>4 DEF RightInv, Singles
<1>6. CASE MakeCloseReturns BY <1>6, StillRight DEF MakeCloseReturns, Return
<1>7. ASSUME NEW a \in Alphabet, NEW e \in E, AddSuffix(a, e) PROVE RightInv'
  <2>1. Distinguishing = {} BY <1>0, RightIsConsistent DEF RightInv
  <2> QED BY <1>7, <2>1 DEF AddSuffix
<1>8. CASE MakeConsistentStops BY <1>8, StillRight DEF MakeConsistentStops, Return
<1>9. CASE BuildHypothesis BY <1>9, StillRight DEF BuildHypothesis, Return
<1>10. CASE NoOutput BY <1>10, StillRight DEF NoOutput
<1>11. CASE Stop BY <1>11, StillRight DEF Stop
<1>12. CASE UNCHANGED vars BY <1>12, StillRight DEF vars
<1> QED BY <1>1, <1>2, <1>3, <1>4, <1>5, <1>6, <1>7, <1>8, <1>9, <1>10, <1>11,
           <1>12 DEF Next, Learn

\* As long as nothing comes too late, each entry is what the target answers, asked or
\* copied from an abnormal reply (mlstar.py:139-164, 198-227); a crash that was seen before is
\* left out, and its entry is exactly what came before it (executor.py:2432).
THEOREM TableHoldsAnswers == Spec => []TableIsRight
<1>1. RightInv => TableIsRight BY DEF RightInv, EntryRight, TableIsRight
<1> QED BY TypeInit, TypeStep, DrainInit, DrainStep, LookupInit, LookupStep, RightInit,
           RightStep, <1>1, PTL DEF Spec

\* Such a table never gets a longer suffix: make_consistent (mlstar.py:303-317) has work
\* only where an answer was distorted, since make_close adds new rows only.
THEOREM SuffixesStaySingle == Spec => [](Reliable => E = Singles)
<1>1. RightInv => (Reliable => E = Singles) BY DEF RightInv
<1> QED BY TypeInit, TypeStep, DrainInit, DrainStep, LookupInit, LookupStep, RightInit,
           RightStep, <1>1, PTL DEF Spec

-----------------------------------------------------------------------------
(* Without late answers the iteration does not fail.                       *)

ClosedInv ==
  Reliable =>
    /\ resume = "close"
    /\ phase = "consistent" => stop \/ Unclosed = {}
    /\ phase # "failed"

LEMMA ClosedStep == TypeInv /\ RightInv /\ ClosedInv /\ [Next]_vars => ClosedInv'
<1> SUFFICES ASSUME TypeInv, RightInv, ClosedInv, [Next]_vars, Reliable'
             PROVE  ClosedInv'
  BY DEF ClosedInv
<1>0. /\ Reliable /\ resume = "close"
      /\ phase = "consistent" => stop \/ Unclosed = {}
      /\ phase # "failed"
  BY ReliableBefore DEF ClosedInv
<1>00. ASSUME UNCHANGED <<S, E, T>> PROVE Unclosed' = Unclosed
  BY <1>00 DEF Unclosed, Row, Successors
<1> USE DEF table, FillUnchanged
<1>1. ASSUME NEW pe \in todo, Fill(pe[1], pe[2]) PROVE ClosedInv'
  BY <1>0, <1>1 DEF Fill, FillDead, FillS, FillSi, GiveUp, ClosedInv
<1>2. CASE SFilled BY <1>0, <1>2 DEF SFilled, ClosedInv
<1>3. CASE Filled BY <1>0, <1>3 DEF Filled, ClosedInv
<1>4. CASE FillStopped BY <1>0, <1>4 DEF FillStopped, ClosedInv
<1>5. ASSUME NEW sa \in Successors, AddPrefix(sa) PROVE ClosedInv'
  BY <1>0, <1>5 DEF AddPrefix, StartFill, ClosedInv
<1>6. CASE MakeCloseReturns
  BY <1>0, <1>00, <1>6 DEF MakeCloseReturns, Return, ClosedInv
<1>7. ASSUME NEW a \in Alphabet, NEW e \in E, AddSuffix(a, e) PROVE ClosedInv'
  <2>1. Distinguishing = {} BY <1>0, RightIsConsistent DEF RightInv
  <2> QED BY <1>7, <2>1 DEF AddSuffix
<1>8. CASE MakeConsistentStops BY <1>0, <1>8 DEF MakeConsistentStops, Return, ClosedInv
<1>9. CASE BuildHypothesis BY <1>0, <1>9 DEF BuildHypothesis, Return, ClosedInv
<1>10. CASE NoOutput BY <1>0, <1>10 DEF NoOutput, ClosedInv
<1>11. CASE Stop BY <1>0, <1>00, <1>11 DEF Stop, ClosedInv
<1>12. CASE UNCHANGED vars BY <1>0, <1>00, <1>12 DEF vars, ClosedInv
<1> QED BY <1>1, <1>2, <1>3, <1>4, <1>5, <1>6, <1>7, <1>8, <1>9, <1>10, <1>11,
           <1>12 DEF Next, Learn

\* build_hypothesis raises KeyError for a successor without a state (mlstar.py:347), and
\* make_consistent adds what is there already (mlstar.py:316), only where an answer came too
\* late: run need not close a second time.  Without one no two prefixes have the same row.
THEOREM UndisturbedLearns == Spec => []UndisturbedSucceeds
<1>1. Init => ClosedInv BY DEF Init, ClosedInv
<1>2. RightInv /\ ClosedInv => UndisturbedSucceeds
  BY RightIsConsistent DEF RightInv, ClosedInv, Stalled, UndisturbedSucceeds
<1> QED BY TypeInit, TypeStep, DrainInit, DrainStep, LookupInit, LookupStep, RightInit,
           RightStep, <1>1, ClosedStep, <1>2, PTL DEF Spec

-----------------------------------------------------------------------------
(* The hypothesis and the target.                                          *)

\* A table a hypothesis is made of.
Learned ==
  TypeInv /\ RightInv /\ Reliable /\ crashIndex = {} /\ Drained /\ Unclosed = {}

\* A row lists the answers after its prefix.
LEMMA RowIsAnswers ==
  ASSUME Learned, NEW p \in S \cup Successors, NEW a \in Alphabet
  PROVE  /\ T[<<p, <<a>>>>] = <<Answer(target, p \o <<a>>)>>
         /\ Row(p)[<<a>>] = <<Answer(target, p \o <<a>>)>>
<1>1. <<a>> \in E BY DEF Learned, TypeInv, Singles
<1>2. <<p, <<a>>>> \in DOMAIN T BY <1>1 DEF Learned, Drained
<1>3. p \in Words BY SuccessorsAreWords DEF Learned, TypeInv, TypeOK, Successors, Words
<1>4. T[<<p, <<a>>>>] = Expected(p, <<a>>) BY <1>2 DEF Learned, RightInv, EntryRight, CrashLeftOut, IsRepeatCrash
<1>5. T[<<p, <<a>>>>] = <<Answer(target, p \o <<a>>)>> BY <1>3, <1>4, ExpectedSingle
<1> QED BY <1>1, <1>5 DEF Row

\* The hypothesis moves from row to row, and answers as its rows say.
LEMMA HypothesisMoves ==
  ASSUME Learned, NEW s \in S, NEW a \in Alphabet
  PROVE  /\ Hypothesis.next[<<Row(s), a>>] = Row(s \o <<a>>)
         /\ Hypothesis.out[<<Row(s), a>>] = Answer(target, s \o <<a>>)
<1> DEFINE prefixOf == [r \in {Row(t) : t \in S} |-> CHOOSE t \in S : Row(t) = r]
           keys == (DOMAIN prefixOf) \X Alphabet
           next == [k \in keys |-> Row(prefixOf[k[1]] \o <<k[2]>>)]
           out == [k \in keys |-> T[<<prefixOf[k[1]], <<k[2]>>>>][1]]
<1>1. Hypothesis = [start |-> Row(<<>>), next |-> next, out |-> out] BY DEF Hypothesis
<1>2. \A t \in S : Row(t) = Row(s) => t = s BY RightIsConsistent DEF Learned, RightInv
<1>3. prefixOf[Row(s)] = s
  <2>1. (CHOOSE t \in S : Row(t) = Row(s)) = s BY <1>2
  <2> QED BY <2>1
<1>4. <<Row(s), a>> \in keys OBVIOUS
<1> HIDE DEF prefixOf, keys
<1>5. next[<<Row(s), a>>] = Row(s \o <<a>>) BY <1>3, <1>4
<1>6. out[<<Row(s), a>>] = T[<<s, <<a>>>>][1] BY <1>3, <1>4
<1>7. T[<<s, <<a>>>>][1] = Answer(target, s \o <<a>>) BY RowIsAnswers
<1> HIDE DEF next, out
<1> QED BY <1>1, <1>5, <1>6, <1>7

\* A word the target is still alive after.
Live(w) == w = <<>> \/ Answer(target, w) \notin Abnormal

\* What is alive after a request was alive before it.
LEMMA LiveBefore ==
  ASSUME NEW w \in Words, NEW a \in Alphabet, Live(w \o <<a>>)
  PROVE  Live(w)
<1>1. w \o <<a>> # <<>> BY DEF Words
<1> QED BY <1>1, AnswerAfterDead DEF Live

\* Prefix s stands for word w: the hypothesis is at its row, which holds the replies
\* of the target.
Represents(s, w) ==
  /\ StateAfter(Hypothesis, w) = Row(s)
  /\ \A a \in Alphabet : Answer(target, s \o <<a>>) = target.out[<<StateAfter(target, w), a>>]

\* If the target answers normally there, the prefix leads to the same state.
LEMMA SameState ==
  ASSUME Learned, Separable(target), NEW w \in Words, NEW s \in S, Represents(s, w),
         NEW a \in Alphabet, Live(w), Live(w \o <<a>>)
  PROVE  Live(s \o <<a>>) /\ Live(s) /\ StateAfter(target, s) = StateAfter(target, w)
<1>1. target \in Machines /\ s \in Words BY DEF Learned, TypeInv, TypeOK, Words
<1>2. Answer(target, w \o <<a>>) = target.out[<<StateAfter(target, w), a>>]
  BY AnswerAfterLive DEF Live
<1>3. w \o <<a>> # <<>> BY DEF Words
<1>4. Answer(target, s \o <<a>>) \notin Abnormal BY <1>2, <1>3 DEF Live, Represents
<1>5. Live(s \o <<a>>) BY <1>4 DEF Live
<1>6. Live(s) BY <1>1, <1>5, LiveBefore
<1>7. \A b \in Alphabet :
        target.out[<<StateAfter(target, s), b>>] = target.out[<<StateAfter(target, w), b>>]
  BY <1>1, <1>6, AnswerAfterLive DEF Live, Represents
<1>8. StateAfter(target, s) \in States(target) /\ StateAfter(target, w) \in States(target)
  BY <1>1, StateTypes
<1> QED BY <1>5, <1>6, <1>7, <1>8 DEF Separable

\* Every word the target is alive after is represented in the table.
LEMMA WordsAreRepresented ==
  ASSUME Learned, Separable(target)
  PROVE  \A w \in Words : Live(w) => \E s \in S : Represents(s, w)
<1> DEFINE P == {w \in Words : Live(w) => \E s \in S : Represents(s, w)}
<1>0. S \subseteq Words /\ <<>> \in S BY DEF Learned, TypeInv, TypeOK, Words
<1>1. <<>> \in P
  <2>1. StateAfter(Hypothesis, <<>>) = Row(<<>>) BY StateAfterEmpty DEF Hypothesis
  <2>2. <<>> \in Words BY DEF Words
  <2>3. Represents(<<>>, <<>>) BY <2>1, <2>2, AnswerAfterLive DEF Represents
  <2> QED BY <1>0, <2>2, <2>3
<1>2. ASSUME NEW w \in Words, NEW a \in Alphabet, w \in P PROVE w \o <<a>> \in P
  <2>0. w \o <<a>> \in Words BY DEF Words
  <2> SUFFICES ASSUME Live(w \o <<a>>) PROVE \E t \in S : Represents(t, w \o <<a>>)
    BY <2>0
  <2>1. Live(w) BY LiveBefore
  <2>2. PICK s \in S : Represents(s, w) BY <1>2, <2>1
  <2>3. Live(s \o <<a>>) /\ Live(s) /\ StateAfter(target, s) = StateAfter(target, w)
    BY <2>1, <2>2, SameState
  <2>4. s \in Words /\ s \o <<a>> \in Words BY <1>0 DEF Words
  <2>5. s \o <<a>> \in Successors
    <3>1. {s \o <<b>> : b \in Alphabet} \in {{t \o <<b>> : b \in Alphabet} : t \in S}
      BY Zenon
    <3>2. s \o <<a>> \in {s \o <<b>> : b \in Alphabet} OBVIOUS
    <3> QED BY <3>1, <3>2, Zenon DEF Successors
  <2>6. PICK t \in S : Row(t) = Row(s \o <<a>>) BY <2>5 DEF Learned, Unclosed
  <2>7. StateAfter(Hypothesis, w \o <<a>>) = Row(t)
    <3>1. StateAfter(Hypothesis, w \o <<a>>) = Step(Hypothesis, StateAfter(Hypothesis, w), a)
      BY StateAfterAppend
    <3>2. StateAfter(Hypothesis, w) = Row(s) BY <2>2 DEF Represents
    <3>3. Hypothesis.next[<<Row(s), a>>] = Row(s \o <<a>>) BY HypothesisMoves
    <3> QED BY <2>6, <3>1, <3>2, <3>3 DEF Step
  <2>8. StateAfter(target, s \o <<a>>) = StateAfter(target, w \o <<a>>)
    BY <2>3, <2>4, StateAfterAppend
  <2>9. ASSUME NEW b \in Alphabet
        PROVE  Answer(target, t \o <<b>>) = target.out[<<StateAfter(target, w \o <<a>>), b>>]
    <3>1. Row(t)[<<b>>] = <<Answer(target, t \o <<b>>)>>
          /\ Row(s \o <<a>>)[<<b>>] = <<Answer(target, (s \o <<a>>) \o <<b>>)>>
      BY <2>5, RowIsAnswers
    <3>2. Answer(target, t \o <<b>>) = Answer(target, (s \o <<a>>) \o <<b>>) BY <2>6, <3>1
    <3>3. Answer(target, (s \o <<a>>) \o <<b>>)
            = target.out[<<StateAfter(target, s \o <<a>>), b>>]
      BY <2>3, <2>4, AnswerAfterLive DEF Live
    <3> QED BY <2>8, <3>2, <3>3
  <2> QED BY <2>7, <2>9 DEF Represents
<1>3. Words \subseteq P BY <1>1, <1>2, WordInduction
<1> QED BY <1>3

\* Up to the end of a conversation the hypothesis replies as the target does.
LEMMA HypothesisAnswers ==
  ASSUME Learned, Separable(target), NEW w \in Words, w # <<>>
  PROVE  Answer(Hypothesis, w) = Answer(target, w)
<1>1. PICK n : n = Sent(target, w) OBVIOUS
<1>2. EndsAt(target, w, n) /\ Len(w) \in Nat /\ n \in 1..Len(w)
  BY <1>1, SentEnds DEF EndsAt, Words
<1>3. ASSUME NEW i \in 1..n PROVE ReplyAt(Hypothesis, w, i) = ReplyAt(target, w, i)
  <2>1. PICK k \in 0..Len(w) : k = i - 1 BY <1>2
  <2>2. PICK v \in Words : v = Upto(w, k) BY UptoProperties
  <2>3. w[i] \in Alphabet BY <1>2 DEF Words
  <2>4. Live(v)
    <3>1. CASE k = 0 BY <2>2, <3>1, UptoEmpty DEF Live
    <3>2. CASE k # 0
      <4>1. k \in 1..Len(w) /\ k <= n /\ k \in 1..(n - 1) BY <1>2, <2>1, <3>2
      <4>2. Answer(target, v) = ReplyAt(target, w, k) BY <1>1, <2>2, <4>1, AnswerUpto
      <4> QED BY <1>2, <4>1, <4>2 DEF EndsAt, Live
    <3> QED BY <3>1, <3>2
  <2>5. PICK s \in S : Represents(s, v) BY <2>4, WordsAreRepresented
  <2>6. Hypothesis.out[<<StateAfter(Hypothesis, v), w[i]>>] = Answer(target, s \o <<w[i]>>)
    BY <2>3, <2>5, HypothesisMoves DEF Represents
  <2>7. Answer(target, s \o <<w[i]>>) = target.out[<<StateAfter(target, v), w[i]>>]
    BY <2>3, <2>5 DEF Represents
  <2> QED BY <2>1, <2>2, <2>6, <2>7 DEF ReplyAt, Upto
<1>4. EndsAt(Hypothesis, w, n) BY <1>2, <1>3 DEF EndsAt
<1>5. Sent(Hypothesis, w) = n BY <1>4, SentEnds, EndIsUnique, Zenon
<1> QED BY <1>1, <1>2, <1>3, <1>5 DEF Answer

\* A hypothesis of a reliable, crash-free table of a separable target is that target, for words
\* of any length (build_hypothesis, mlstar.py:321-359).
THEOREM HypothesesAreTargets == Spec => []HypothesisIsTarget
<1>1. TypeInv /\ DrainInv /\ RightInv /\ HypothesisIsClosed => HypothesisIsTarget
  <2> SUFFICES ASSUME TypeInv, DrainInv, RightInv, HypothesisIsClosed, Reliable,
                      crashIndex = {}, phase = "hypothesis", Separable(target), NEW w \in Probes
               PROVE  Answer(Hypothesis, w) = Answer(target, w)
    BY DEF HypothesisIsTarget
  <2>1. w \in Words /\ w # <<>> BY ProbesAssumption DEF Words
  <2>2. Learned BY DEF Learned, HypothesisIsClosed, DrainInv, FillInv
  <2> QED BY <2>1, <2>2, HypothesisAnswers
<1> QED BY TypeInit, TypeStep, DrainInit, DrainStep, LookupInit, LookupStep, RightInit,
           RightStep, HypothesesAreClosed, <1>1, PTL DEF Spec

-----------------------------------------------------------------------------
(* How large a table grows.                                                *)

\* Prefixes the target is alive after lead to different states of it, and those that
\* ended a conversation ended it differently.
PrefixesApart ==
  \A s, t \in S : s # t =>
    /\ Live(s) /\ Live(t) => StateAfter(target, s) # StateAfter(target, t)
    /\ ~ Live(s) /\ ~ Live(t) => Answer(target, s) # Answer(target, t)

LEMMA RowsTellApart ==
  ASSUME TypeInv, RightInv, Reliable, crashIndex = {}
  PROVE  PrefixesApart
<1> SUFFICES ASSUME NEW s \in S, NEW t \in S, s # t
             PROVE  /\ Live(s) /\ Live(t) => StateAfter(target, s) # StateAfter(target, t)
                    /\ ~ Live(s) /\ ~ Live(t) => Answer(target, s) # Answer(target, t)
  BY DEF PrefixesApart
<1>1. s \in Words /\ t \in Words BY DEF TypeInv, TypeOK, Words
<1>2. PICK e \in E : /\ <<s, e>> \in DOMAIN T /\ <<t, e>> \in DOMAIN T
                     /\ T[<<s, e>>] # T[<<t, e>>]
  BY DEF RightInv, RowsDiffer
<1>3. PICK a \in Alphabet : e = <<a>> BY DEF RightInv, Singles
<1>4. T[<<s, e>>] = Expected(s, e) /\ T[<<t, e>>] = Expected(t, e)
  BY <1>2 DEF RightInv, EntryRight, CrashLeftOut, IsRepeatCrash
<1>5. Answer(target, s \o <<a>>) # Answer(target, t \o <<a>>)
  BY <1>1, <1>2, <1>3, <1>4, ExpectedSingle
<1>6. ASSUME Live(s), Live(t) PROVE StateAfter(target, s) # StateAfter(target, t)
  BY <1>1, <1>5, <1>6, AnswerAfterLive DEF Live
<1>7. ASSUME ~ Live(s), ~ Live(t) PROVE Answer(target, s) # Answer(target, t)
  BY <1>1, <1>5, <1>7, AnswerAfterDead DEF Live
<1> QED BY <1>6, <1>7

\* A conversation ends in one of four ways.
LEMMA AbnormalIsFinite == IsFiniteSet(Abnormal) /\ Cardinality(Abnormal) = 4
<1>1. IsFiniteSet({"CRASH"}) /\ Cardinality({"CRASH"}) = 1 BY FS_Singleton
<1>2. IsFiniteSet({"CRASH", "TIMEOUT"}) /\ Cardinality({"CRASH", "TIMEOUT"}) = 2
  <2>1. {"CRASH", "TIMEOUT"} = {"CRASH"} \cup {"TIMEOUT"} /\ "TIMEOUT" \notin {"CRASH"}
    OBVIOUS
  <2> QED BY <1>1, <2>1, FS_AddElement
<1>3. /\ IsFiniteSet({"CRASH", "TIMEOUT", "CLOSED"})
      /\ Cardinality({"CRASH", "TIMEOUT", "CLOSED"}) = 3
  <2>1. /\ {"CRASH", "TIMEOUT", "CLOSED"} = {"CRASH", "TIMEOUT"} \cup {"CLOSED"}
        /\ "CLOSED" \notin {"CRASH", "TIMEOUT"}
    OBVIOUS
  <2> QED BY <1>2, <2>1, FS_AddElement
<1>4. /\ Abnormal = {"CRASH", "TIMEOUT", "CLOSED"} \cup {"POLLERR"}
      /\ "POLLERR" \notin {"CRASH", "TIMEOUT", "CLOSED"}
  BY DEF Abnormal
<1> QED BY <1>3, <1>4, FS_AddElement

\* There are at most as many prefixes as states and ways to end.
LEMMA FewPrefixes ==
  ASSUME TypeInv, PrefixesApart, IsFiniteSet(States(target))
  PROVE  /\ IsFiniteSet(S)
         /\ Cardinality(S) <= Cardinality(States(target)) + Cardinality(Abnormal)
<1> DEFINE L == {s \in S : Live(s)}
           D == {s \in S : ~ Live(s)}
           f == [s \in L |-> StateAfter(target, s)]
           g == [s \in D |-> Answer(target, s)]
<1>1. target \in Machines /\ S \subseteq Words BY DEF TypeInv, TypeOK, Words
<1>2. f \in Injection(L, States(target))
  <2>1. f \in [L -> States(target)] BY <1>1, StateTypes
  <2>2. \A s, t \in L : f[s] = f[t] => s = t BY DEF PrefixesApart
  <2> HIDE DEF f, L
  <2> QED BY <2>1, <2>2 DEF Injection, IsInjective
<1>3. g \in Injection(D, Abnormal)
  <2>1. g \in [D -> Abnormal] BY DEF Live
  <2>2. \A s, t \in D : g[s] = g[t] => s = t BY DEF PrefixesApart
  <2> HIDE DEF g, D
  <2> QED BY <2>1, <2>2 DEF Injection, IsInjective
<1>4. S = L \cup D /\ L \cap D = {} OBVIOUS
<1> HIDE DEF f, g, L, D
<1>5. IsFiniteSet(L) /\ Cardinality(L) <= Cardinality(States(target)) BY <1>2, FS_Injection
<1>6. IsFiniteSet(D) /\ Cardinality(D) <= Cardinality(Abnormal)
  BY <1>3, AbnormalIsFinite, FS_Injection
<1>7. /\ IsFiniteSet(S)
      /\ Cardinality(S) = Cardinality(L) + Cardinality(D) - Cardinality(L \cap D)
  BY <1>4, <1>5, <1>6, FS_Union
<1>8. Cardinality(L \cap D) = 0 BY <1>4, FS_EmptySet
<1>9. Cardinality(L) \in Nat /\ Cardinality(D) \in Nat BY <1>5, <1>6, FS_CardinalityType
<1>10. Cardinality(States(target)) \in Nat /\ Cardinality(Abnormal) \in Nat
  BY AbnormalIsFinite, FS_CardinalityType
<1> QED BY <1>5, <1>6, <1>7, <1>8, <1>9, <1>10

\* The table of a reliable, crash-free iteration names no state of the target twice: a
\* prefix make_close adds (mlstar.py:258-288) leads to a state no prefix led to, or ended
\* the conversation as none did.
THEOREM PrefixesAreStates == Spec => [](Reliable /\ crashIndex = {} => PrefixesApart)
<1>1. TypeInv /\ RightInv => (Reliable /\ crashIndex = {} => PrefixesApart)
  BY RowsTellApart
<1> QED BY TypeInit, TypeStep, DrainInit, DrainStep, LookupInit, LookupStep, RightInit,
           RightStep, <1>1, PTL DEF Spec

\* So make_close cannot add prefixes for ever: the table has at most a row for each state of
\* the target and one for each way a conversation ends, whatever the order of the queries.
THEOREM TableIsSmall ==
  Spec => [](Reliable /\ crashIndex = {} /\ IsFiniteSet(States(target)) =>
               /\ IsFiniteSet(S)
               /\ Cardinality(S) <= Cardinality(States(target)) + Cardinality(Abnormal))
<1>1. TypeInv /\ RightInv =>
        (Reliable /\ crashIndex = {} /\ IsFiniteSet(States(target)) =>
           /\ IsFiniteSet(S)
           /\ Cardinality(S) <= Cardinality(States(target)) + Cardinality(Abnormal))
  BY RowsTellApart, FewPrefixes
<1> QED BY TypeInit, TypeStep, DrainInit, DrainStep, LookupInit, LookupStep, RightInit,
           RightStep, <1>1, PTL DEF Spec

-----------------------------------------------------------------------------
(* The measure of an iteration: how many prefixes, then suffixes, then what *)
(* is left to do for them.                                                 *)

FiniteInv == IsFiniteSet(S) /\ IsFiniteSet(E)

LEMMA FiniteInit == Init => FiniteInv
<1> SUFFICES ASSUME Init PROVE FiniteInv OBVIOUS
<1> DEFINE f == [a \in Alphabet |-> <<a>>]
<1>1. f \in Surjection(Alphabet, E) BY DEF Init, Surjection
<1>2. IsFiniteSet(E) BY <1>1, AlphabetAssumption, FS_Surjection
<1>3. IsFiniteSet(S) BY FS_Singleton DEF Init
<1> QED BY <1>2, <1>3 DEF FiniteInv

LEMMA FiniteStep == FiniteInv /\ [Next]_vars => FiniteInv'
<1> SUFFICES ASSUME FiniteInv, [Next]_vars PROVE FiniteInv' OBVIOUS
<1> USE DEF table
<1>1. ASSUME UNCHANGED <<S, E>> PROVE FiniteInv' BY <1>1 DEF FiniteInv
<1>2. ASSUME NEW sa \in Successors, AddPrefix(sa) PROVE FiniteInv'
  BY <1>2, FS_AddElement DEF AddPrefix, StartFill, FiniteInv
<1>3. ASSUME NEW a \in Alphabet, NEW e \in E, AddSuffix(a, e) PROVE FiniteInv'
  BY <1>3, FS_AddElement DEF AddSuffix, StartFill, FiniteInv
<1>4. ASSUME NEW pe \in todo, Fill(pe[1], pe[2]) PROVE FiniteInv'
  BY <1>1, <1>4 DEF Fill, FillDead, FillS, FillSi, GiveUp, FillUnchanged
<1>5. CASE \/ SFilled \/ Filled \/ FillStopped \/ MakeCloseReturns \/ MakeConsistentStops
           \/ BuildHypothesis \/ NoOutput \/ Stop \/ UNCHANGED vars
  BY <1>1, <1>5 DEF SFilled, Filled, FillStopped, MakeCloseReturns, MakeConsistentStops,
     BuildHypothesis, Return, NoOutput, Stop, vars
<1> QED BY <1>2, <1>3, <1>4, <1>5 DEF Next, Learn

\* Finitely many prefixes have finitely many successors.
LEMMA FiniteSuccessors == IsFiniteSet(S) => IsFiniteSet(Successors)
<1> SUFFICES ASSUME IsFiniteSet(S) PROVE IsFiniteSet(Successors) OBVIOUS
<1> DEFINE f == [x \in S \X Alphabet |-> x[1] \o <<x[2]>>]
<1>1. IsFiniteSet(S \X Alphabet) BY AlphabetAssumption, FS_Product
<1>2. f \in Surjection(S \X Alphabet, Successors)
  <2>1. ASSUME NEW x \in S \X Alphabet PROVE f[x] \in Successors
    <3>1. PICK s \in S, a \in Alphabet : x = <<s, a>> OBVIOUS
    <3>2. {s \o <<b>> : b \in Alphabet} \in {{t \o <<b>> : b \in Alphabet} : t \in S}
      BY Zenon
    <3>3. f[x] \in {s \o <<b>> : b \in Alphabet} BY <3>1
    <3> HIDE DEF f
    <3> QED BY <3>2, <3>3, Zenon DEF Successors
  <2>2. ASSUME NEW y \in Successors PROVE \E x \in S \X Alphabet : f[x] = y
    <3>1. PICK s \in S, a \in Alphabet : y = s \o <<a>> BY SuccessorHasParent
    <3>2. f[<<s, a>>] = y BY <3>1
    <3> QED BY <3>2
  <2>3. DOMAIN f = S \X Alphabet /\ f = [x \in S \X Alphabet |-> f[x]] OBVIOUS
  <2> HIDE DEF f
  <2>4. f \in [S \X Alphabet -> Successors] BY <2>1, <2>3
  <2> QED BY <2>2, <2>4 DEF Surjection
<1> HIDE DEF f
<1> QED BY <1>1, <1>2, FS_Surjection

\* How far the methods of one round still have to go.
Rank == CASE phase = "fill_s" -> 4 [] phase = "fill_si" -> 3 [] phase = "close" -> 2
          [] phase = "consistent" -> 1 [] OTHER -> 0

\* A prefix more; or else a suffix more; or else a method further, or an entry less.
Progress ==
  \/ S \subseteq S' /\ S # S'
  \/ S' = S /\ E \subseteq E' /\ E # E'
  \/ S' = S /\ E' = E /\ Rank' < Rank
  \/ S' = S /\ E' = E /\ Rank' = Rank /\ todo' \subseteq todo /\ todo # todo'

LEMMA LearnProgresses ==
  ASSUME TypeInv, Learn \/ NoOutput
  PROVE  Stalled \/ Progress
<1> USE DEF table
<1>1. ASSUME NEW pe \in todo, Fill(pe[1], pe[2]) PROVE Progress
  <2>1. NextEntry(pe[1], pe[2]) /\ FillUnchanged
    BY <1>1 DEF Fill, FillDead, FillS, FillSi, GiveUp
  <2>2. todo' \subseteq todo /\ todo # todo' BY <2>1 DEF NextEntry
  <2>3. UNCHANGED <<S, E, phase>> BY <2>1 DEF FillUnchanged
  <2>4. Rank' = Rank BY <2>3 DEF Rank
  <2> QED BY <2>2, <2>3, <2>4 DEF Progress
<1>2. ASSUME UNCHANGED <<S, E>>, Rank' < Rank PROVE Progress BY <1>2 DEF Progress
<1>3. CASE SFilled BY <1>2, <1>3 DEF SFilled, Rank
<1>4. CASE Filled BY <1>2, <1>4 DEF Filled, Rank, TypeInv, TypeOK
<1>5. CASE FillStopped BY <1>2, <1>5 DEF FillStopped, Rank
<1>6. ASSUME NEW sa \in Successors, AddPrefix(sa) PROVE Progress
  <2>1. sa \notin S BY <1>6 DEF AddPrefix, Unclosed
  <2>2. S' = S \cup {sa} BY <1>6 DEF AddPrefix, StartFill
  <2> QED BY <2>1, <2>2 DEF Progress
<1>7. CASE MakeCloseReturns BY <1>2, <1>7 DEF MakeCloseReturns, Return, Rank
<1>8. ASSUME NEW a \in Alphabet, NEW e \in E, AddSuffix(a, e) PROVE Stalled \/ Progress
  <2>1. <<a, e>> \in Distinguishing /\ phase = "consistent" /\ ~ stop
    BY <1>8 DEF AddSuffix
  <2>2. S' = S /\ E' = E \cup {<<a>> \o e} BY <1>8 DEF AddSuffix, StartFill
  <2>3. CASE <<a>> \o e \in E
    <3> DEFINE d == <<a, e>>
    <3>1. d \in Distinguishing /\ <<d[1]>> \o d[2] \in E BY <2>1, <2>3
    <3> HIDE DEF d
    <3> QED BY <2>1, <3>1 DEF Stalled
  <2>4. CASE <<a>> \o e \notin E BY <2>2, <2>4 DEF Progress
  <2> QED BY <2>3, <2>4
<1>9. CASE MakeConsistentStops BY <1>2, <1>9 DEF MakeConsistentStops, Return, Rank
<1>10. CASE BuildHypothesis BY <1>2, <1>10 DEF BuildHypothesis, Return, Rank
<1>11. CASE NoOutput BY <1>2, <1>11 DEF NoOutput, Rank
<1> QED BY <1>1, <1>3, <1>4, <1>5, <1>6, <1>7, <1>8, <1>9, <1>10, <1>11 DEF Learn

\* Every step of an iteration gets on: each loop of _fill_table has an entry less left,
\* each method passes on to a later one, and make_close and make_consistent go back to
\* filling with a prefix or a suffix that is new (mlstar.py:107-317).  The one exception
\* is a stalled table, where make_consistent adds a suffix it has.
THEOREM IterationProgresses == Spec => [][Learn \/ NoOutput => Stalled \/ Progress]_vars
<1>1. TypeInv /\ [Next]_vars => [Learn \/ NoOutput => Stalled \/ Progress]_vars
  BY LearnProgresses
<1> QED BY TypeInit, TypeStep, <1>1, PTL DEF Spec

\* What is left of each part of the measure is finite: the table always is, and so is the
\* work of the loop that fills it.
THEOREM FillsAreFinite == Spec => [](IsFiniteSet(S) /\ IsFiniteSet(E) /\ IsFiniteSet(todo))
<1>1. TypeInv /\ FiniteInv => IsFiniteSet(S) /\ IsFiniteSet(E) /\ IsFiniteSet(todo)
  <2> SUFFICES ASSUME TypeInv, FiniteInv PROVE IsFiniteSet(todo) BY DEF FiniteInv
  <2>1. IsFiniteSet(S \cup Successors) BY FiniteSuccessors, FS_Union DEF FiniteInv
  <2>2. IsFiniteSet((S \cup Successors) \X E) BY <2>1, FS_Product DEF FiniteInv
  <2>3. todo \in SUBSET ((S \cup Successors) \X E) BY DEF TypeInv, TypeOK
  <2> QED BY <2>2, <2>3, FS_Subset
<1> QED BY TypeInit, TypeStep, FiniteInit, FiniteStep, <1>1, PTL DEF Spec

===============================================================================
