------------------------------ MODULE TableLemmas ------------------------------
(***************************************************************************)
(* What the operators of ObservationTable return: the states and replies   *)
(* of a machine along a word, how far a conversation gets, and what a      *)
(* query may record of it.                                                 *)
(***************************************************************************)
EXTENDS ObservationTable, FiniteSetTheorems, WellFoundedInduction, TLAPS

Words == Seq(Alphabet)

\* A set of numbers that holds 0 and the successors of its members holds them all.
LEMMA SetInduction ==
  ASSUME NEW P, 0 \in P, \A n \in Nat : n \in P => n + 1 \in P
  PROVE  Nat \subseteq P
<1> SUFFICES ASSUME Nat \ P # {} PROVE FALSE OBVIOUS
<1>1. \E x \in Nat \ P : \A y \in Nat \ P : ~ (<<y, x>> \in OpToRel(<, Nat))
  BY NatLessThanWellFounded, WFMin, Zenon
<1>2. PICK x \in Nat \ P : \A y \in Nat \ P : ~ (y < x)
  BY <1>1, Zenon DEF OpToRel
<1>3. x - 1 \in Nat /\ x - 1 < x BY <1>2
<1>4. x - 1 \in P BY <1>2, <1>3
<1> QED BY <1>3, <1>4, <1>2

LEMMA LargerSeq ==
  ASSUME NEW A, NEW B, A \subseteq B PROVE Seq(A) \subseteq Seq(B)
OBVIOUS

-----------------------------------------------------------------------------
(* The states of a machine along a word.                                   *)

Step(m, q, a) == m.next[<<q, a>>]

\* f lists the states of m along the first n symbols of w.
Run(m, w, f, n) ==
  f = [i \in 0..n |-> IF i = 0 THEN m.start ELSE Step(m, f[i - 1], w[i])]

\* A run can be made longer by a step.
LEMMA RunExists ==
  ASSUME NEW m, NEW w \in Words, NEW n \in Nat
  PROVE  \E f : Run(m, w, f, n)
<1> DEFINE P == {k \in Nat : \E f : Run(m, w, f, k)}
<1>1. 0 \in P
  <2>1. Run(m, w, [i \in 0..0 |-> m.start], 0) BY DEF Run
  <2> QED BY <2>1
<1>2. ASSUME NEW k \in Nat, k \in P PROVE k + 1 \in P
  <2>1. PICK f : Run(m, w, f, k) BY <1>2
  <2> DEFINE g == [i \in 0..(k + 1) |-> IF i = k + 1 THEN Step(m, f[k], w[k + 1]) ELSE f[i]]
  <2>2. \A i \in 0..k : g[i] = f[i] OBVIOUS
  <2>3. Run(m, w, g, k + 1)
    <3>1. ASSUME NEW i \in 0..(k + 1)
          PROVE  g[i] = IF i = 0 THEN m.start ELSE Step(m, g[i - 1], w[i])
      <4>1. CASE i = k + 1 BY <4>1, <2>2
      <4>2. CASE i # k + 1
        <5>1. i \in 0..k /\ (i # 0 => i - 1 \in 0..k) BY <4>2
        <5>2. f[i] = IF i = 0 THEN m.start ELSE Step(m, f[i - 1], w[i])
          BY <2>1, <5>1 DEF Run
        <5> QED BY <5>1, <5>2, <2>2
      <4> QED BY <4>1, <4>2
    <3> HIDE DEF g
    <3>2. g = [i \in 0..(k + 1) |-> g[i]] BY DEF g
    <3> QED BY <3>1, <3>2 DEF Run
  <2> QED BY <2>3
<1>3. Nat \subseteq P BY <1>1, <1>2, SetInduction
<1> QED BY <1>3

LEMMA StateAfterRun ==
  ASSUME NEW m, NEW w \in Words
  PROVE  \E f : Run(m, w, f, Len(w)) /\ StateAfter(m, w) = f[Len(w)]
<1>1. Len(w) \in Nat BY DEF Words
<1>2. \E f : Run(m, w, f, Len(w)) BY <1>1, RunExists
<1> QED BY <1>2 DEF Run, StateAfter, Step

\* A machine begins in its start state, and a symbol more is a step more.
LEMMA StateAfterEmpty ==
  ASSUME NEW m PROVE StateAfter(m, <<>>) = m.start
<1>1. <<>> \in Words BY DEF Words
<1>2. PICK f : Run(m, <<>>, f, Len(<<>>)) /\ StateAfter(m, <<>>) = f[Len(<<>>)]
  BY <1>1, StateAfterRun
<1> QED BY <1>2 DEF Run

LEMMA RunOneFurther ==
  ASSUME NEW m, NEW w, NEW v, NEW n \in Nat, NEW a, v[n + 1] = a,
         \A i \in 1..n : w[i] = v[i],
         NEW f, NEW g, Run(m, w, f, n), Run(m, v, g, n + 1)
  PROVE  g[n + 1] = Step(m, f[n], a)
<1> DEFINE P == {i \in Nat : i <= n => f[i] = g[i]}
<1>1. 0 \in P BY DEF Run
<1>2. ASSUME NEW i \in Nat, i \in P PROVE i + 1 \in P
  <2>1. CASE i + 1 <= n
    <3>1. f[i + 1] = Step(m, f[i], w[i + 1]) BY <2>1 DEF Run
    <3>2. g[i + 1] = Step(m, g[i], v[i + 1]) BY <2>1 DEF Run
    <3>3. i + 1 \in 1..n /\ f[i] = g[i] BY <1>2, <2>1
    <3> QED BY <3>1, <3>2, <3>3
  <2> QED BY <2>1
<1>3. Nat \subseteq P BY <1>1, <1>2, SetInduction
<1>4. f[n] = g[n] BY <1>3
<1>5. g[n + 1] = Step(m, g[n], v[n + 1]) BY DEF Run
<1> QED BY <1>4, <1>5

LEMMA StateAfterAppend ==
  ASSUME NEW m, NEW w \in Words, NEW a \in Alphabet
  PROVE  StateAfter(m, w \o <<a>>) = Step(m, StateAfter(m, w), a)
<1>1. PICK v : v = w \o <<a>> OBVIOUS
<1>2. PICK n \in Nat : n = Len(w) BY DEF Words
<1>3. v \in Words /\ Len(v) = n + 1 /\ v[n + 1] = a /\ \A i \in 1..n : w[i] = v[i]
  BY <1>1, <1>2 DEF Words
<1>4. PICK g : Run(m, v, g, n + 1) /\ StateAfter(m, v) = g[n + 1]
  BY <1>3, StateAfterRun
<1>5. PICK f : Run(m, w, f, n) /\ StateAfter(m, w) = f[n]
  BY <1>2, StateAfterRun
<1>6. g[n + 1] = Step(m, f[n], a) BY <1>3, <1>4, <1>5, RunOneFurther
<1> QED BY <1>1, <1>4, <1>5, <1>6

-----------------------------------------------------------------------------
(* Words and their prefixes.                                               *)

\* The first k symbols of w.
Upto(w, k) == SubSeq(w, 1, k)

LEMMA UptoProperties ==
  ASSUME NEW w \in Words, NEW k \in 0..Len(w)
  PROVE  /\ Upto(w, k) \in Words /\ Len(Upto(w, k)) = k
         /\ \A i \in 1..k : Upto(w, k)[i] = w[i]
BY DEF Words, Upto

LEMMA UptoUpto ==
  ASSUME NEW w \in Words, NEW k \in 0..Len(w), NEW j \in 0..k
  PROVE  Upto(Upto(w, k), j) = Upto(w, j)
BY DEF Words, Upto

LEMMA UptoAll ==
  ASSUME NEW w \in Words
  PROVE  Upto(w, Len(w)) = w
BY DEF Words, Upto

LEMMA UptoNext ==
  ASSUME NEW w \in Words, NEW k \in 1..Len(w)
  PROVE  Upto(w, k) = Upto(w, k - 1) \o <<w[k]>> /\ w[k] \in Alphabet
BY DEF Words, Upto

LEMMA UptoEmpty == ASSUME NEW w \in Words PROVE Upto(w, 0) = <<>>
BY DEF Words, Upto

LEMMA ConcatWords ==
  ASSUME NEW p \in Words, NEW e \in Words
  PROVE  /\ p \o e \in Words /\ Len(p) \in Nat /\ Len(e) \in Nat
         /\ Len(p \o e) = Len(p) + Len(e)
<1>1. p \o e \in Words BY DEF Words
<1>2. Len(p) \in Nat /\ Len(e) \in Nat BY DEF Words
<1>3. Len(p \o e) = Len(p) + Len(e) BY DEF Words
<1> QED BY <1>1, <1>2, <1>3

LEMMA UptoConcat ==
  ASSUME NEW p \in Words, NEW e \in Words
  PROVE  /\ \A i \in 0..Len(e) : Upto(p \o e, Len(p) + i) = p \o Upto(e, i)
         /\ \A i \in 0..Len(p) : Upto(p \o e, i) = Upto(p, i)
<1>1. \A i \in 0..Len(e) : Upto(p \o e, Len(p) + i) = p \o Upto(e, i)
  BY DEF Words, Upto
<1>2. \A i \in 0..Len(p) : Upto(p \o e, i) = Upto(p, i)
  BY DEF Words, Upto
<1> QED BY <1>1, <1>2

LEMMA FrontLast ==
  ASSUME NEW w \in Words, NEW a \in Alphabet
  PROVE  Front(w \o <<a>>) = w /\ Last(w \o <<a>>) = a
BY DEF Words, Front, Last

-----------------------------------------------------------------------------
(* How far a conversation gets, and what is answered last.                 *)

\* A conversation ends with its first abnormal reply, or with its word.
EndsAt(m, w, n) ==
  /\ n \in 0..Len(w)
  /\ w # <<>> => n # 0
  /\ \A i \in 1..(n - 1) : ReplyAt(m, w, i) \notin Abnormal
  /\ n = Len(w) \/ ReplyAt(m, w, n) \in Abnormal

LEMMA SentEnds ==
  ASSUME NEW m, NEW w \in Words
  PROVE  EndsAt(m, w, Sent(m, w))
<1>1. Endings(m, w) \subseteq 1..Len(w) /\ Len(w) \in Nat /\ (w # <<>> => Len(w) # 0)
  BY DEF Endings, Words
<1>2. CASE Endings(m, w) = {}
  <2>1. \A i \in 1..Len(w) : ReplyAt(m, w, i) \notin Abnormal
    BY <1>2 DEF Endings, Words
  <2> QED BY <1>1, <1>2, <2>1 DEF Sent, EndsAt
<1>3. CASE Endings(m, w) # {}
  <2>0. Endings(m, w) \subseteq Nat BY <1>1
  <2>1. \E x \in Endings(m, w) : \A y \in Endings(m, w) :
           ~ (<<y, x>> \in OpToRel(<, Nat))
    BY <2>0, <1>3, NatLessThanWellFounded, WFMin, Zenon
  <2>2. \E x \in Endings(m, w) : \A y \in Endings(m, w) : ~ (y < x)
    BY <2>0, <2>1, Zenon DEF OpToRel
  <2>3. \E i \in Endings(m, w) : \A j \in Endings(m, w) : i <= j
    BY <2>0, <2>2
  <2>4. Sent(m, w) \in Endings(m, w) /\ \A j \in Endings(m, w) : Sent(m, w) <= j
    BY <1>3, <2>3 DEF Sent
  <2>5. \A i \in 1..(Sent(m, w) - 1) : ReplyAt(m, w, i) \notin Abnormal
    BY <1>1, <2>4 DEF Endings, Words
  <2>6. ReplyAt(m, w, Sent(m, w)) \in Abnormal BY <2>4 DEF Endings
  <2> QED BY <1>1, <2>4, <2>5, <2>6 DEF EndsAt
<1> QED BY <1>2, <1>3

LEMMA EndIsUnique ==
  ASSUME NEW m, NEW w \in Words, NEW n, NEW k, EndsAt(m, w, n), EndsAt(m, w, k)
  PROVE  n = k
<1>1. Len(w) \in Nat BY DEF Words
<1>2. n \in 0..Len(w) /\ k \in 0..Len(w) /\ (n = 0 <=> w = <<>>) /\ (k = 0 <=> w = <<>>)
  BY DEF EndsAt, Words
<1>3. CASE n < k
  <2>1. n \in 1..(k - 1) \/ n = 0 BY <1>1, <1>2, <1>3
  <2> QED BY <1>1, <1>2, <1>3, <2>1 DEF EndsAt
<1>4. CASE k < n
  <2>1. k \in 1..(n - 1) \/ k = 0 BY <1>1, <1>2, <1>4
  <2> QED BY <1>1, <1>2, <1>4, <2>1 DEF EndsAt
<1> QED BY <1>1, <1>2, <1>3, <1>4

\* Replies do not depend on what follows them.
LEMMA ReplyAtUpto ==
  ASSUME NEW m, NEW w \in Words, NEW k \in 0..Len(w), NEW i \in 1..k
  PROVE  ReplyAt(m, Upto(w, k), i) = ReplyAt(m, w, i)
<1>1. i - 1 \in 0..k BY DEF Words
<1>2. Upto(Upto(w, k), i - 1) = Upto(w, i - 1) BY <1>1, UptoUpto
<1>3. Upto(w, k)[i] = w[i] BY UptoProperties
<1> QED BY <1>2, <1>3 DEF ReplyAt, Upto

\* A conversation gets as far in a prefix as it gets in the whole word.
LEMMA SentUpto ==
  ASSUME NEW m, NEW w \in Words, NEW k \in 0..Len(w)
  PROVE  Sent(m, Upto(w, k)) = IF k <= Sent(m, w) THEN k ELSE Sent(m, w)
<1> DEFINE n == Sent(m, w)
           v == Upto(w, k)
           j == IF k <= n THEN k ELSE n
<1>1. EndsAt(m, w, n) /\ EndsAt(m, v, Sent(m, v))
  BY SentEnds, UptoProperties
<1>2. v \in Words /\ Len(v) = k /\ Len(w) \in Nat /\ (v # <<>> => k # 0) /\ (k # 0 => w # <<>>)
  BY UptoProperties DEF Words
<1>3. \A i \in 1..k : ReplyAt(m, v, i) = ReplyAt(m, w, i) BY ReplyAtUpto
<1> HIDE DEF n, v
<1>4. EndsAt(m, v, j)
  <2>1. n \in 0..Len(w) BY <1>1 DEF EndsAt
  <2>2. j \in 0..k /\ (v # <<>> => j # 0) BY <1>1, <1>2, <2>1 DEF EndsAt
  <2>3. \A i \in 1..(j - 1) : ReplyAt(m, v, i) \notin Abnormal
    BY <1>1, <1>2, <1>3, <2>1, <2>2 DEF EndsAt
  <2>4. j = k \/ ReplyAt(m, v, j) \in Abnormal
    <3>1. CASE j # k
      <4>1. j = n /\ n < k BY <1>2, <2>1, <3>1
      <4>2. n \in 1..k BY <1>1, <1>2, <4>1, <2>1 DEF EndsAt
      <4> QED BY <1>1, <1>2, <1>3, <4>1, <4>2 DEF EndsAt
    <3> QED BY <3>1
  <2> QED BY <1>2, <2>2, <2>3, <2>4 DEF EndsAt
<1>5. Sent(m, v) = j
  <2> HIDE DEF j
  <2> QED BY <1>1, <1>2, <1>4, EndIsUnique, Zenon
<1> QED BY <1>5 DEF n, v

\* What is answered to a prefix is the reply to its last request, or the last one.
LEMMA AnswerUpto ==
  ASSUME NEW m, NEW w \in Words, NEW k \in 1..Len(w)
  PROVE  Answer(m, Upto(w, k)) = ReplyAt(m, w, IF k <= Sent(m, w) THEN k ELSE Sent(m, w))
<1> DEFINE j == IF k <= Sent(m, w) THEN k ELSE Sent(m, w)
<1>1. k \in 0..Len(w) /\ Len(w) \in Nat BY DEF Words
<1>2. EndsAt(m, w, Sent(m, w)) BY SentEnds
<1>3. w # <<>> BY <1>1
<1>4. j \in 1..k BY <1>1, <1>2, <1>3 DEF EndsAt
<1>5. Sent(m, Upto(w, k)) = j BY <1>1, SentUpto
<1> HIDE DEF j
<1>6. ReplyAt(m, Upto(w, k), j) = ReplyAt(m, w, j) BY <1>1, <1>4, ReplyAtUpto
<1> QED BY <1>5, <1>6 DEF Answer, j

\* A conversation whose last answer is normal was never cut short.
LEMMA NormalAnswer ==
  ASSUME NEW m, NEW w \in Words, w # <<>>, Answer(m, w) \notin Abnormal
  PROVE  Sent(m, w) = Len(w) /\ \A i \in 1..Len(w) : ReplyAt(m, w, i) \notin Abnormal
<1>1. EndsAt(m, w, Sent(m, w)) /\ Len(w) \in Nat BY SentEnds DEF Words
<1>2. Sent(m, w) = Len(w) BY <1>1 DEF EndsAt, Answer
<1>3. \A i \in 1..(Len(w) - 1) : ReplyAt(m, w, i) \notin Abnormal BY <1>1, <1>2 DEF EndsAt
<1>4. ReplyAt(m, w, Len(w)) \notin Abnormal BY <1>2 DEF Answer
<1>5. \A i \in 1..Len(w) : i \in 1..(Len(w) - 1) \/ i = Len(w) BY <1>1
<1> QED BY <1>2, <1>3, <1>4, <1>5

\* After a live prefix the next request is sent and answered.
LEMMA AnswerAfterLive ==
  ASSUME NEW m, NEW p \in Words, NEW a \in Alphabet,
         p = <<>> \/ Answer(m, p) \notin Abnormal
  PROVE  /\ Sent(m, p \o <<a>>) = Len(p) + 1
         /\ Answer(m, p \o <<a>>) = m.out[<<StateAfter(m, p), a>>]
<1>1. PICK w : w = p \o <<a>> OBVIOUS
<1>2. w \in Words /\ Len(w) = Len(p) + 1 /\ w[Len(p) + 1] = a /\ Len(p) \in Nat /\ w # <<>>
  BY <1>1 DEF Words
<1>3. Upto(w, Len(p)) = p BY <1>1, <1>2 DEF Upto, Words
<1>4. \A i \in 1..Len(p) : ReplyAt(m, w, i) = ReplyAt(m, p, i)
  <2>1. Len(p) \in 0..Len(w) BY <1>2
  <2> QED BY <1>2, <1>3, <2>1, ReplyAtUpto
<1>5. \A i \in 1..Len(p) : ReplyAt(m, p, i) \notin Abnormal
  <2>1. CASE p = <<>> BY <2>1
  <2>2. CASE p # <<>> BY <2>2, NormalAnswer
  <2> QED BY <2>1, <2>2
<1>6. EndsAt(m, w, Len(p) + 1) BY <1>2, <1>4, <1>5 DEF EndsAt
<1>7. Sent(m, w) = Len(p) + 1 BY <1>2, <1>6, SentEnds, EndIsUnique, Zenon
<1>8. Answer(m, w) = m.out[<<StateAfter(m, Upto(w, Len(p))), a>>]
  BY <1>2, <1>7 DEF Answer, ReplyAt, Upto
<1> QED BY <1>1, <1>3, <1>7, <1>8

\* After an abnormal answer the target answers nothing else.
LEMMA AnswerAfterDead ==
  ASSUME NEW m, NEW p \in Words, NEW a \in Alphabet, p # <<>>, Answer(m, p) \in Abnormal
  PROVE  Answer(m, p \o <<a>>) = Answer(m, p)
<1>1. PICK w : w = p \o <<a>> OBVIOUS
<1>2. w \in Words /\ Len(w) = Len(p) + 1 /\ Len(p) \in Nat /\ w # <<>>
  BY <1>1 DEF Words
<1>3. Upto(w, Len(p)) = p BY <1>1, <1>2 DEF Upto, Words
<1>4. PICK n : n = Sent(m, p) OBVIOUS
<1>5. EndsAt(m, p, n) /\ n \in 1..Len(p) BY <1>2, <1>4, SentEnds DEF EndsAt
<1>6. \A i \in 1..Len(p) : ReplyAt(m, w, i) = ReplyAt(m, p, i)
  <2>1. Len(p) \in 0..Len(w) BY <1>2
  <2> QED BY <1>2, <1>3, <2>1, ReplyAtUpto
<1>7. ReplyAt(m, p, n) \in Abnormal BY <1>4 DEF Answer
<1>8. EndsAt(m, w, n) BY <1>2, <1>5, <1>6, <1>7 DEF EndsAt
<1>9. Sent(m, w) = n BY <1>2, <1>8, SentEnds, EndIsUnique, Zenon
<1> QED BY <1>1, <1>4, <1>5, <1>6, <1>9 DEF Answer

-----------------------------------------------------------------------------
(* What a query may record.                                                *)

LEMMA RepliesShape ==
  ASSUME NEW m, NEW w \in Words, w # <<>>,
         NEW n, n = IF IsRepeatCrash(m, w) THEN Sent(m, w) - 1 ELSE Sent(m, w)
  PROVE  /\ n \in 0..Len(w)
         /\ Replies(m, w) \in Seq({"-"} \cup {ReplyAt(m, w, i) : i \in 1..Len(w)})
         /\ Len(Replies(m, w)) = n + 1
         /\ Replies(m, w)[1] = "-"
         /\ \A i \in 1..n : Replies(m, w)[i + 1] = ReplyAt(m, w, i)
<1> DEFINE A == {"-"} \cup {ReplyAt(m, w, i) : i \in 1..Len(w)}
           f == [i \in 1..n |-> ReplyAt(m, w, i)]
<1>1. Len(w) \in Nat BY DEF Words
<1>2. n \in 0..Len(w) BY <1>1, SentEnds DEF EndsAt
<1>3. \A i \in 1..n : ReplyAt(m, w, i) \in A BY <1>1, <1>2
<1>4. "-" \in A OBVIOUS
<1> HIDE DEF A
<1>5. f \in Seq(A) /\ Len(f) = n /\ \A i \in 1..n : f[i] = ReplyAt(m, w, i)
  BY <1>1, <1>2, <1>3
<1>6. Replies(m, w) = <<"-">> \o f BY DEF Replies
<1> HIDE DEF f
<1>7. /\ <<"-">> \o f \in Seq(A)
      /\ Len(<<"-">> \o f) = n + 1
      /\ (<<"-">> \o f)[1] = "-"
  BY <1>2, <1>4, <1>5
<1>8. \A i \in 1..n : (<<"-">> \o f)[i + 1] = f[i]
  BY <1>2, <1>4, <1>5
<1> QED BY <1>2, <1>5, <1>6, <1>7, <1>8 DEF A

\* A recording is not longer than its word and the greeting; one that ends with
\* TIMEOUT holds more than the greeting.
LEMMA RecordingShape ==
  ASSUME NEW m, NEW w \in Words, w # <<>>, NEW r \in Recordings(m, w)
  PROVE  /\ r.late \in {0, 1} /\ r.crashes \subseteq Alphabet
         /\ r.out \in Seq({"-", "TIMEOUT"} \cup {ReplyAt(m, w, i) : i \in 1..Len(w)})
         /\ Len(r.out) \in 1..(Len(w) + 1)
         /\ Last(r.out) = "TIMEOUT" => Len(r.out) >= 2
         /\ r.late = 0 => r.out = Replies(m, w) /\ r.crashes = Crashes(m, w)
<1> DEFINE A == {"-"} \cup {ReplyAt(m, w, i) : i \in 1..Len(w)}
           B == {"-", "TIMEOUT"} \cup {ReplyAt(m, w, i) : i \in 1..Len(w)}
           out == Replies(m, w)
<1>1. PICK n : n = IF IsRepeatCrash(m, w) THEN Sent(m, w) - 1 ELSE Sent(m, w) OBVIOUS
<1>2. n \in 0..Len(w) /\ out \in Seq(A) /\ Len(out) = n + 1 /\ out[1] = "-"
  <2> HIDE DEF out
  <2>1. /\ n \in 0..Len(w) /\ Replies(m, w) \in Seq(A)
        /\ Len(Replies(m, w)) = n + 1 /\ Replies(m, w)[1] = "-"
    BY <1>1, RepliesShape, SMTT(60)
  <2> QED BY <2>1 DEF out
<1>3. Len(w) \in Nat BY DEF Words
<1>4. A \subseteq B /\ "TIMEOUT" \in B OBVIOUS
<1>5. Crashes(m, w) \subseteq Alphabet
  <2>1. Sent(m, w) \in 1..Len(w) BY <1>3, SentEnds DEF EndsAt
  <2> QED BY <2>1 DEF Crashes, Words
<1> HIDE DEF A, B, out
<1>6. out \in Seq(B) BY <1>2, <1>4
<1>7. CASE r = [out |-> out, crashes |-> Crashes(m, w), late |-> 0]
  <2>1. Last(out) = "TIMEOUT" => Len(out) >= 2 BY <1>2 DEF Last
  <2> QED BY <1>2, <1>3, <1>5, <1>6, <1>7, <2>1 DEF out, B
<1>8. ASSUME NEW k \in 2..Len(out),
             r = [out |-> Append(SubSeq(out, 1, k - 1), "TIMEOUT"), crashes |-> {}, late |-> 1]
      PROVE  /\ r.late = 1 /\ r.crashes = {}
             /\ r.out \in Seq(B) /\ Len(r.out) = k
  <2>1. SubSeq(out, 1, k - 1) \in Seq(B) /\ Len(SubSeq(out, 1, k - 1)) = k - 1
    BY <1>2, <1>3, <1>6
  <2> QED BY <1>4, <1>8, <2>1
<1>9. r = [out |-> out, crashes |-> Crashes(m, w), late |-> 0]
      \/ \E k \in 2..Len(out) :
           r = [out |-> Append(SubSeq(out, 1, k - 1), "TIMEOUT"), crashes |-> {}, late |-> 1]
  BY DEF Recordings, out
<1> QED BY <1>2, <1>3, <1>7, <1>8, <1>9 DEF B

\* The entry that is taken from a recording.
LEMMA LastNShape ==
  ASSUME NEW A, NEW out \in Seq(A), NEW n \in Nat \ {0}, Len(out) >= 1
  PROVE  LastN(out, n) \in Seq(A) /\ Len(LastN(out, n)) \in 1..n
<1>1. Len(out) \in Nat OBVIOUS
<1>2. CASE Len(out) > n
  <2>1. LastN(out, n) = SubSeq(out, Len(out) - n + 1, Len(out)) BY <1>2 DEF LastN
  <2> QED BY <1>1, <1>2, <2>1
<1>3. CASE ~ (Len(out) > n)
  <2>1. LastN(out, n) = SubSeq(out, 1, Len(out)) BY <1>3 DEF LastN
  <2> QED BY <1>1, <1>3, <2>1
<1> QED BY <1>2, <1>3

\* The last reply of a conversation that was not disturbed.
LEMMA LastReply ==
  ASSUME NEW m, NEW w \in Words, w # <<>>, Answer(m, w) # "CRASH" \/ ~ IsRepeatCrash(m, w)
  PROVE  LastN(Replies(m, w), 1) = <<Answer(m, w)>>
<1>1. PICK n : n = Sent(m, w) OBVIOUS
<1>2. ~ IsRepeatCrash(m, w) BY DEF IsRepeatCrash, Answer
<1>3. PICK out : out = Replies(m, w) OBVIOUS
<1>4. PICK A : out \in Seq(A) BY <1>1, <1>2, <1>3, RepliesShape
<1>5. Len(w) \in Nat /\ n \in 1..Len(w) BY <1>1, SentEnds DEF EndsAt, Words
<1>6. Len(out) = n + 1 /\ \A i \in 1..n : out[i + 1] = ReplyAt(m, w, i)
  <2>1. n = IF IsRepeatCrash(m, w) THEN Sent(m, w) - 1 ELSE Sent(m, w) BY <1>1, <1>2
  <2> QED BY <1>3, <2>1, RepliesShape
<1>7. PICK k \in 1..Len(out) : k = Len(out) /\ out[k] = ReplyAt(m, w, n) BY <1>5, <1>6
<1>8. LastN(out, 1) = SubSeq(out, k, k) BY <1>4, <1>5, <1>6, <1>7 DEF LastN
<1>9. SubSeq(out, k, k) = <<out[k]>>
  <2>1. out[k] \in A BY <1>4, <1>7
  <2>2. SubSeq(out, k, k) \in Seq(A) /\ Len(SubSeq(out, k, k)) = 1
        /\ SubSeq(out, k, k)[1] = out[k]
    BY <1>4, <1>7
  <2>3. \A q \in Seq(A) : Len(q) = 1 => q = <<q[1]>> OBVIOUS
  <2> QED BY <2>2, <2>3
<1> QED BY <1>1, <1>3, <1>7, <1>8, <1>9 DEF Answer

-----------------------------------------------------------------------------
(* Facts about all words.                                                  *)

\* A set that holds the empty word, and with a word its extensions, holds them all.
LEMMA WordInduction ==
  ASSUME NEW P, <<>> \in P,
         \A w \in Words, a \in Alphabet : w \in P => w \o <<a>> \in P
  PROVE  Words \subseteq P
<1> DEFINE N == {n \in Nat : \A w \in Words : Len(w) = n => w \in P}
<1>1. 0 \in N BY DEF Words
<1>2. ASSUME NEW n \in Nat, n \in N PROVE n + 1 \in N
  <2> SUFFICES ASSUME NEW w \in Words, Len(w) = n + 1 PROVE w \in P OBVIOUS
  <2>1. n + 1 \in 1..Len(w) /\ n \in 0..Len(w) OBVIOUS
  <2>2. w = Upto(w, n) \o <<w[n + 1]>> /\ w[n + 1] \in Alphabet
    <3>1. PICK k \in 1..Len(w) : k = n + 1 BY <2>1
    <3>2. Upto(w, k) = Upto(w, k - 1) \o <<w[k]>> /\ w[k] \in Alphabet BY UptoNext
    <3>3. Upto(w, k) = w /\ k - 1 = n BY <3>1, UptoAll
    <3> QED BY <3>1, <3>2, <3>3
  <2>3. Upto(w, n) \in Words /\ Len(Upto(w, n)) = n BY <2>1, UptoProperties
  <2>4. Upto(w, n) \in P BY <1>2, <2>3
  <2> QED BY <2>2, <2>3, <2>4
<1>3. Nat \subseteq N BY <1>1, <1>2, SetInduction
<1> QED BY <1>3 DEF Words

\* A machine stays among its states and answers with names.
LEMMA StateTypes ==
  ASSUME NEW m \in Machines
  PROVE  \A w \in Words : StateAfter(m, w) \in States(m)
<1> DEFINE P == {w \in Words : StateAfter(m, w) \in States(m)}
<1>1. <<>> \in P
  <2>1. <<>> \in Words BY DEF Words
  <2>2. StateAfter(m, <<>>) \in States(m) BY MachinesAssumption, StateAfterEmpty
  <2> QED BY <2>1, <2>2
<1>2. ASSUME NEW w \in Words, NEW a \in Alphabet, w \in P PROVE w \o <<a>> \in P
  <2>1. w \o <<a>> \in Words BY DEF Words
  <2>2. StateAfter(m, w \o <<a>>) = m.next[<<StateAfter(m, w), a>>]
    BY StateAfterAppend DEF Step
  <2>3. m.next[<<StateAfter(m, w), a>>] \in States(m)
    <3>1. <<StateAfter(m, w), a>> \in States(m) \X Alphabet BY <1>2
    <3>2. m.next \in [States(m) \X Alphabet -> States(m)] BY MachinesAssumption
    <3> HIDE DEF P
    <3> QED BY <3>1, <3>2
  <2> QED BY <2>1, <2>2, <2>3
<1>3. Words \subseteq P BY <1>1, <1>2, WordInduction
<1> QED BY <1>3

LEMMA ReplyTypes ==
  ASSUME NEW m \in Machines, NEW w \in Words, NEW i \in 1..Len(w)
  PROVE  ReplyAt(m, w, i) \in Outputs
<1>1. i - 1 \in 0..Len(w) /\ w[i] \in Alphabet BY DEF Words
<1>2. StateAfter(m, Upto(w, i - 1)) \in States(m) BY <1>1, UptoProperties, StateTypes
<1>3. <<StateAfter(m, Upto(w, i - 1)), w[i]>> \in States(m) \X Alphabet BY <1>1, <1>2
<1>4. m.out \in [States(m) \X Alphabet -> Outputs] BY MachinesAssumption
<1>5. m.out[<<StateAfter(m, Upto(w, i - 1)), w[i]>>] \in Outputs BY <1>3, <1>4
<1> QED BY <1>5 DEF ReplyAt, Upto

===============================================================================
