--------------------------- MODULE ConversationProofs ---------------------------
(***************************************************************************)
(* Proofs about Conversation, for all sets of requests and all bounds.     *)
(*                                                                         *)
(* While the loop runs, the recorded states form a Going sequence: ordered *)
(* requests, no abnormal end.  A lost response or a crash makes it a       *)
(* Closing one, which at most a crash may follow.                          *)
(***************************************************************************)
EXTENDS Conversation, TLAPS

States == Seq([req : Nat, kind : Kinds])

\* The two properties, for any sequence of states.
Ordered(s) ==
  /\ \A i, j \in DOMAIN s : i < j /\ s[j].req # 0 => s[i].req < s[j].req
  /\ \A i \in DOMAIN s : s[i].req = 0 => i = 1 \/ (i = Len(s) /\ s[i].kind = "CRASH")
EndsOnce(s) ==
  \A i, j \in DOMAIN s :
    /\ i < j /\ s[i].kind \in Lost => j = Len(s) /\ s[j].kind = "CRASH"
    /\ s[i].kind = "CRASH" => i = Len(s)
Ended(s) == s \in States /\ Ordered(s) /\ EndsOnce(s)

\* The states of a conversation that has recorded requests up to n.
Numbered(s, n) ==
  /\ s \in States /\ s # <<>>
  /\ s[1].req = 0
  /\ \A i \in DOMAIN s : i > 1 => s[i].req > 0
  /\ \A i \in DOMAIN s : s[i].req <= n
  /\ \A i, j \in DOMAIN s : i < j => s[i].req < s[j].req

Going(s, n) == Numbered(s, n) /\ \A i \in DOMAIN s : s[i].kind \notin Lost \cup {"CRASH"}

Closing(s, n) ==
  /\ Numbered(s, n)
  /\ \A i \in DOMAIN s : i < Len(s) => s[i].kind \notin Lost
  /\ \A i \in DOMAIN s : s[i].kind # "CRASH"

\* The last request whose outcome may be recorded.
Recorded == IF lastRecorded THEN last ELSE last - 1

DataOK ==
  /\ word \in Seq(Requests)
  /\ pc \in Steps
  /\ pos \in Nat /\ pos >= 1
  /\ proc \in {"running", "crashed", "exited"}
  /\ last \in Nat
  /\ lastRecorded \in BOOLEAN

\* What the recorded states are at each step of the loop.
StepInv ==
  /\ pc = "idle" => Ended(states)
  /\ pc = "greeting" => states = <<>> /\ pos = 1 /\ last = 0 /\ lastRecorded
  /\ pc = "head" =>
       /\ last = pos - 1 /\ (last = 0 => lastRecorded)
       /\ Going(states, Recorded)
  /\ pc \in {"send", "recv"} => last = pos /\ Going(states, pos - 1)
  /\ pc = "after" =>
       \/ (last = 0 => lastRecorded) /\ Closing(states, Recorded)
       \/ Ended(states) /\ proc = "crashed" /\ RequestAt(last) \in crashIndex
       \/ Ended(states) /\ proc = "exited"

OrderInv == DataOK /\ StepInv

-----------------------------------------------------------------------------
\* Facts about sequences of states.
LEMMA Elements ==
  ASSUME NEW R, NEW s \in Seq(R)
  PROVE  \A i \in DOMAIN s : s[i] \in R
OBVIOUS

LEMMA Requested == ASSUME NEW s \in States PROVE \A i \in DOMAIN s : s[i].req \in Nat
<1>1. \A i \in DOMAIN s : s[i] \in [req : Nat, kind : Kinds] BY Elements DEF States
<1> QED BY <1>1

LEMMA Widen ==
  ASSUME NEW s, NEW n \in Int, NEW k \in Int, n <= k
  PROVE  /\ Numbered(s, n) => Numbered(s, k)
         /\ Going(s, n) => Going(s, k)
         /\ Closing(s, n) => Closing(s, k)
<1>1. ASSUME Numbered(s, n) PROVE Numbered(s, k)
  <2>1. s \in States BY <1>1 DEF Numbered
  <2>2. \A i \in DOMAIN s : s[i].req \in Nat BY <2>1, Requested
  <2>3. \A i \in DOMAIN s : s[i].req <= k BY <1>1, <2>2 DEF Numbered
  <2> QED BY <1>1, <2>3 DEF Numbered
<1> QED BY <1>1 DEF Going, Closing

LEMMA GoingCloses == ASSUME NEW s, NEW n \in Int, Going(s, n) PROVE Closing(s, n)
BY DEF Going, Closing

LEMMA ClosingEnds == ASSUME NEW s, NEW n \in Int, Closing(s, n) PROVE Ended(s)
BY DEF Closing, Numbered, Ended, Ordered, EndsOnce, States

LEMMA Appended ==
  ASSUME NEW s \in States, NEW r \in [req : Nat, kind : Kinds]
  PROVE  /\ Append(s, r) \in States
         /\ Len(Append(s, r)) = Len(s) + 1
         /\ DOMAIN Append(s, r) = 1..(Len(s) + 1)
         /\ DOMAIN s = 1..Len(s)
         /\ Append(s, r)[Len(s) + 1] = r
         /\ \A i \in 1..Len(s) : Append(s, r)[i] = s[i]
         /\ Len(s) \in Nat
         /\ \A i \in DOMAIN s : s[i].req \in Nat
<1>1. s \in Seq([req : Nat, kind : Kinds]) BY DEF States
<1>2. Append(s, r) \in Seq([req : Nat, kind : Kinds]) BY <1>1
<1>3. \A i \in DOMAIN s : s[i].req \in Nat BY Requested
<1>4. Len(s) \in Nat /\ DOMAIN s = 1..Len(s) BY <1>1
<1>5. Len(Append(s, r)) = Len(s) + 1 /\ DOMAIN Append(s, r) = 1..(Len(s) + 1)
  BY <1>1, <1>4
<1>6. Append(s, r)[Len(s) + 1] = r BY <1>1
<1>7. \A i \in 1..Len(s) : Append(s, r)[i] = s[i] BY <1>1
<1> QED BY <1>2, <1>3, <1>4, <1>5, <1>6, <1>7 DEF States

LEMMA NumberedAppend ==
  ASSUME NEW s, NEW n \in Int, NEW k \in Nat, NEW kind \in Kinds, k > n,
         Numbered(s, n)
  PROVE  Numbered(Append(s, State(k, kind)), k)
<1> DEFINE r == State(k, kind)
           t == Append(s, r)
<1>1. s \in States /\ r \in [req : Nat, kind : Kinds] /\ r.req = k
  BY DEF Numbered, State
<1>2. /\ t \in States
      /\ DOMAIN t = 1..(Len(s) + 1)
      /\ DOMAIN s = 1..Len(s)
      /\ t[Len(s) + 1] = r
      /\ \A i \in 1..Len(s) : t[i] = s[i]
      /\ Len(s) \in Nat
      /\ \A i \in DOMAIN s : s[i].req \in Nat
  BY <1>1, Appended
<1>3. Len(s) >= 1 BY <1>1, <1>2 DEF Numbered, States
<1>4. s[1].req = 0 /\ s[1].req <= n BY <1>2, <1>3 DEF Numbered
<1> HIDE DEF r, t
<1>5. t # <<>> BY <1>2
<1>6. t[1].req = 0 BY <1>2, <1>3, <1>4
<1>7. \A i \in DOMAIN t : i > 1 => t[i].req > 0 BY <1>1, <1>2, <1>4 DEF Numbered
<1>8. \A i \in DOMAIN t : t[i].req <= k BY <1>1, <1>2 DEF Numbered
<1>9. \A i, j \in DOMAIN t : i < j => t[i].req < t[j].req
  BY <1>1, <1>2 DEF Numbered
<1>10. Numbered(t, k) BY <1>2, <1>5, <1>6, <1>7, <1>8, <1>9 DEF Numbered
<1> QED BY <1>10 DEF t, r

LEMMA GoingAppend ==
  ASSUME NEW s, NEW n \in Int, NEW k \in Nat, NEW kind \in Kinds, k > n, Going(s, n)
  PROVE  /\ kind \notin Lost \cup {"CRASH"} => Going(Append(s, State(k, kind)), k)
         /\ kind \in Lost => Closing(Append(s, State(k, kind)), k)
<1> DEFINE r == State(k, kind)
           t == Append(s, r)
<1>1. s \in States /\ r \in [req : Nat, kind : Kinds] /\ r.kind = kind
  BY DEF Going, Numbered, State
<1>2. Numbered(t, k) BY NumberedAppend DEF Going
<1>3. /\ DOMAIN t = 1..(Len(s) + 1)
      /\ DOMAIN s = 1..Len(s)
      /\ t[Len(s) + 1] = r
      /\ \A i \in 1..Len(s) : t[i] = s[i]
      /\ Len(s) \in Nat /\ Len(t) = Len(s) + 1
  BY <1>1, Appended
<1> HIDE DEF r, t
<1>4. ASSUME kind \notin Lost \cup {"CRASH"} PROVE Going(t, k)
  BY <1>1, <1>2, <1>3, <1>4 DEF Going
<1>5. ASSUME kind \in Lost PROVE Closing(t, k)
  BY <1>1, <1>2, <1>3, <1>5 DEF Going, Closing, Lost
<1> QED BY <1>4, <1>5 DEF t, r

LEMMA CrashAppend ==
  ASSUME NEW s, NEW n \in Int, NEW k \in Nat, k = 0 \/ k > n, Closing(s, n)
  PROVE  Ended(Append(s, State(k, "CRASH")))
<1> DEFINE r == State(k, "CRASH")
           t == Append(s, r)
<1>1. s \in States /\ r \in [req : Nat, kind : Kinds] /\ r.kind = "CRASH" /\ r.req = k
  BY DEF Closing, Numbered, State, Kinds
<1>2. /\ t \in States
      /\ DOMAIN t = 1..(Len(s) + 1)
      /\ DOMAIN s = 1..Len(s)
      /\ t[Len(s) + 1] = r
      /\ \A i \in 1..Len(s) : t[i] = s[i]
      /\ Len(s) \in Nat /\ Len(t) = Len(s) + 1
      /\ \A i \in DOMAIN s : s[i].req \in Nat
  BY <1>1, Appended
<1> HIDE DEF r, t
<1>3. Ordered(t)
  <2>1. ASSUME NEW i \in DOMAIN t, NEW j \in DOMAIN t, i < j, t[j].req # 0
        PROVE  t[i].req < t[j].req
    <3>1. CASE j = Len(s) + 1
      BY <1>1, <1>2, <2>1, <3>1 DEF Closing, Numbered
    <3>2. CASE j \in 1..Len(s)
      BY <1>2, <2>1, <3>2 DEF Closing, Numbered
    <3> QED BY <1>2, <3>1, <3>2
  <2>2. ASSUME NEW i \in DOMAIN t, t[i].req = 0
        PROVE  i = 1 \/ (i = Len(t) /\ t[i].kind = "CRASH")
    <3>1. CASE i = Len(s) + 1 BY <1>1, <1>2, <3>1
    <3>2. CASE i \in 1..Len(s) BY <1>2, <2>2, <3>2 DEF Closing, Numbered
    <3> QED BY <1>2, <3>1, <3>2
  <2> QED BY <2>1, <2>2 DEF Ordered
<1>4. EndsOnce(t)
  BY <1>1, <1>2 DEF EndsOnce, Closing, Lost
<1>5. Ended(t) BY <1>2, <1>3, <1>4 DEF Ended
<1> QED BY <1>5 DEF t, r

-----------------------------------------------------------------------------
\* What one look at a dead process does to the records.
LEMMA HandleCrashEnds ==
  ASSUME NEW p \in Nat, NEW isRecorded \in BOOLEAN, NEW n \in Int,
         isRecorded \/ p > n, Closing(states, n), HandleCrash(p, isRecorded)
  PROVE  Ended(states') /\ RequestAt(p) \in crashIndex'
<1>1. CASE RequestAt(p) \in crashIndex
  BY <1>1, ClosingEnds DEF HandleCrash, recorded
<1>2. CASE RequestAt(p) \notin crashIndex
  <2> DEFINE k == IF isRecorded THEN 0 ELSE p
  <2>1. k \in Nat /\ (k = 0 \/ k > n) OBVIOUS
  <2>2. states' = Append(states, State(k, "CRASH"))
    BY <1>2 DEF HandleCrash, Record
  <2> HIDE DEF k
  <2>3. Ended(Append(states, State(k, "CRASH"))) BY <2>1, CrashAppend
  <2>4. RequestAt(p) \in crashIndex' BY <1>2 DEF HandleCrash
  <2> QED BY <2>2, <2>3, <2>4
<1> QED BY <1>1, <1>2

LEMMA OrderInit == Init => OrderInv
<1> SUFFICES ASSUME Init PROVE OrderInv OBVIOUS
<1>1. DataOK BY DEF Init, DataOK, Steps
<1>2. Ended(states) BY DEF Init, Ended, Ordered, EndsOnce, States
<1> QED BY <1>1, <1>2 DEF Init, OrderInv, StepInv

LEMMA WordType == ASSUME NEW w \in SeqOf(Requests, MaxLength)
                  PROVE  w \in Seq(Requests) /\ Len(w) \in 0..MaxLength
BY BoundsAssumption DEF SeqOf, BoundsAssumption

LEMMA DataStep == DataOK /\ [Next]_vars => DataOK'
<1> SUFFICES ASSUME DataOK, [Next]_vars PROVE DataOK' OBVIOUS
<1> USE DEF DataOK, Steps, position, recorded
<1>1. ASSUME NEW w \in SeqOf(Requests, MaxLength), Begin(w) PROVE DataOK'
  BY <1>1, WordType DEF Begin
<1>2. CASE Greeting BY <1>2 DEF Greeting
<1>3. CASE GreetingStopped BY <1>3 DEF GreetingStopped
<1>4. CASE HeadEnds BY <1>4 DEF HeadEnds
<1>5. CASE HeadFindsExit BY <1>5 DEF HeadFindsExit
<1>6. CASE HeadTakes BY <1>6 DEF HeadTakes
<1>7. CASE Send BY <1>7 DEF Send
<1>8. CASE SendFails BY <1>8 DEF SendFails
<1>9. ASSUME NEW kind \in Lost, RecvLost(kind) PROVE DataOK' BY <1>9 DEF RecvLost
<1>10. CASE RecvNothing BY <1>10 DEF RecvNothing, NextRequest
<1>11. CASE RecvIgnored BY <1>11 DEF RecvIgnored, NextRequest
<1>12. ASSUME NEW kind \in {"reply", "PARSE_FAILURE"}, RecvReply(kind) PROVE DataOK'
  BY <1>12 DEF RecvReply, NextRequest
<1>13. CASE After BY <1>13 DEF After
<1>14. CASE Die BY <1>14 DEF Die
<1>15. CASE Stop BY <1>15 DEF Stop
<1>16. CASE UNCHANGED vars BY <1>16 DEF vars
<1> QED BY <1>1, <1>2, <1>3, <1>4, <1>5, <1>6, <1>7, <1>8, <1>9, <1>10, <1>11,
           <1>12, <1>13, <1>14, <1>15, <1>16 DEF Next, Recv

\* A step that leaves the records and the position alone.
LEMMA StillStep ==
  ASSUME StepInv, UNCHANGED <<word, pc, pos, states, last, lastRecorded, crashIndex>>,
         proc' = proc \/ proc = "running"
  PROVE  StepInv'
BY DEF StepInv, Recorded, RequestAt

LEMMA StepStep == DataOK /\ StepInv /\ [Next]_vars => StepInv'
<1> SUFFICES ASSUME DataOK, StepInv, [Next]_vars PROVE StepInv' OBVIOUS
<1> USE DEF DataOK, position, recorded
<1>1. ASSUME NEW w \in SeqOf(Requests, MaxLength), Begin(w) PROVE StepInv'
  BY <1>1 DEF Begin, StepInv
<1>2. CASE Greeting
  <2>1. /\ states = <<>> /\ pos' = 1 /\ last' = 0 /\ lastRecorded' /\ pc' = "head"
        /\ \E kind \in {"reply", "-"} : states' = Append(states, State(0, kind))
    BY <1>2 DEF Greeting, StepInv, Record
  <2>2. PICK kind \in {"reply", "-"} : states' = <<State(0, kind)>> BY <2>1
  <2>3. State(0, kind) \in [req : Nat, kind : Kinds] /\ kind \notin Lost \cup {"CRASH"}
    BY DEF State, Kinds, Lost
  <2>4. Going(states', 0)
    BY <2>2, <2>3 DEF Going, Numbered, States, State
  <2>5. pc' = "head" /\ last' = pos' - 1 /\ lastRecorded' /\ Recorded' = 0
    BY <2>1 DEF Recorded
  <2> QED BY <2>4, <2>5 DEF StepInv
<1>3. CASE GreetingStopped
  <2>1. Ended(<<>>) BY DEF Ended, Ordered, EndsOnce, States
  <2> QED BY <1>3, <2>1 DEF GreetingStopped, StepInv
<1>4. CASE HeadEnds
  <2>1. Recorded \in Int BY DEF Recorded
  <2>2. Closing(states, Recorded) /\ (last = 0 => lastRecorded)
    BY <1>4, <2>1, GoingCloses DEF HeadEnds, StepInv
  <2> QED BY <1>4, <2>2 DEF HeadEnds, StepInv, Recorded
<1>5. CASE HeadFindsExit
  <2>1. Recorded \in Int /\ Recorded < pos /\ (lastRecorded \/ last > Recorded)
    BY <1>5 DEF HeadFindsExit, StepInv, Recorded
  <2>2. Going(states, Recorded) /\ Closing(states, Recorded)
    BY <1>5, <2>1, GoingCloses DEF HeadFindsExit, StepInv
  <2>3. pc' = "after" /\ UNCHANGED <<word, last, lastRecorded, proc>>
    BY <1>5 DEF HeadFindsExit
  <2>4. CASE proc = "crashed"
    <3>1. HandleCrash(last, lastRecorded)
      BY <1>5, <2>4 DEF HeadFindsExit, CrashOr
    <3>2. Ended(states') /\ RequestAt(last) \in crashIndex'
      BY <2>1, <2>2, <2>3, <3>1, HandleCrashEnds
    <3> QED BY <2>3, <2>4, <3>2 DEF StepInv, RequestAt
  <2>5. CASE proc # "crashed"
    <3>1. states' = Append(states, State(pos, "CLOSED")) /\ proc' = "exited"
      BY <1>5, <2>5 DEF HeadFindsExit, CrashOr, Record
    <3>2. Closing(states', pos)
      BY <2>1, <2>2, <3>1, GoingAppend DEF Lost, Kinds
    <3>3. Ended(states') BY <3>2, ClosingEnds
    <3> QED BY <2>3, <3>1, <3>3 DEF StepInv
  <2> QED BY <2>4, <2>5
<1>6. CASE HeadTakes
  <2>1. Recorded \in Int /\ Recorded <= pos - 1 /\ Going(states, Recorded)
    BY <1>6 DEF HeadTakes, StepInv, Recorded
  <2>2. Going(states, pos - 1) BY <2>1, Widen
  <2> QED BY <1>6, <2>2 DEF HeadTakes, StepInv
<1>7. CASE Send BY <1>7 DEF Send, StepInv
<1>8. CASE SendFails
  <2>1. last = pos /\ Going(states, pos - 1) /\ pos - 1 \in Int
    BY <1>8 DEF SendFails, StepInv
  <2>2. Closing(states, pos - 1) BY <2>1, GoingCloses
  <2>3. pc' = "after" /\ UNCHANGED <<word, last, lastRecorded, proc>>
    BY <1>8 DEF SendFails
  <2>4. CASE proc = "crashed"
    <3>1. HandleCrash(pos, FALSE) BY <1>8, <2>4 DEF SendFails, CrashOr
    <3>2. Ended(states') /\ RequestAt(pos) \in crashIndex'
      <4>1. pos \in Nat /\ FALSE \in BOOLEAN /\ pos > pos - 1 BY <2>1
      <4> QED BY <2>1, <2>2, <3>1, <4>1, HandleCrashEnds, Zenon
    <3> QED BY <2>1, <2>3, <2>4, <3>2 DEF StepInv, RequestAt
  <2>5. CASE proc # "crashed"
    <3>1. states' = states BY <1>8, <2>5 DEF SendFails, CrashOr
    <3>2. Recorded' \in Int /\ pos - 1 <= Recorded' BY <2>1, <2>3 DEF Recorded
    <3>3. Closing(states', Recorded') BY <2>1, <2>2, <3>1, <3>2, Widen
    <3> QED BY <2>1, <2>3, <3>3 DEF StepInv
  <2> QED BY <2>4, <2>5
<1>9. ASSUME NEW kind \in Lost, RecvLost(kind) PROVE StepInv'
  <2>1. last = pos /\ Going(states, pos - 1) /\ pos - 1 \in Int
    BY <1>9 DEF RecvLost, StepInv
  <2>2. Closing(states, pos - 1) BY <2>1, GoingCloses
  <2>3. /\ pc' = "after" /\ UNCHANGED <<word, last, proc>>
        /\ lastRecorded' = (proc # "crashed")
    BY <1>9 DEF RecvLost
  <2>4. CASE proc = "crashed"
    <3>1. HandleCrash(pos, FALSE) BY <1>9, <2>4 DEF RecvLost, CrashOr
    <3>2. Ended(states') /\ RequestAt(pos) \in crashIndex'
      <4>1. pos \in Nat /\ FALSE \in BOOLEAN /\ pos > pos - 1 BY <2>1
      <4> QED BY <2>1, <2>2, <3>1, <4>1, HandleCrashEnds, Zenon
    <3> QED BY <2>1, <2>3, <2>4, <3>2 DEF StepInv, RequestAt
  <2>5. CASE proc # "crashed"
    <3>1. states' = Append(states, State(pos, kind))
      BY <1>9, <2>5 DEF RecvLost, CrashOr, Record
    <3>2. Closing(states', pos) BY <2>1, <3>1, GoingAppend DEF Kinds
    <3>3. Recorded' = pos BY <2>1, <2>3, <2>5 DEF Recorded
    <3> QED BY <2>1, <2>3, <2>5, <3>2, <3>3 DEF StepInv
  <2> QED BY <2>4, <2>5
<1>10. CASE RecvNothing
  <2>1. last = pos /\ Going(states, pos - 1) /\ pos - 1 \in Int
    BY <1>10 DEF RecvNothing, StepInv
  <2>2. pc' = "head" /\ pos' = pos + 1 /\ UNCHANGED <<states, last>>
    BY <1>10 DEF RecvNothing, NextRequest
  <2>3. Recorded' \in Int /\ pos - 1 <= Recorded' BY <2>1, <2>2 DEF Recorded
  <2>4. Going(states', Recorded') BY <2>1, <2>2, <2>3, Widen
  <2> QED BY <2>1, <2>2, <2>4 DEF StepInv
<1>11. CASE RecvIgnored
  <2>1. last = pos /\ Going(states, pos - 1) /\ pos - 1 \in Int
    BY <1>11 DEF RecvIgnored, StepInv
  <2>2. /\ pc' = "head" /\ pos' = pos + 1 /\ UNCHANGED <<states, last>>
        /\ lastRecorded'
    BY <1>11 DEF RecvIgnored, NextRequest
  <2>3. Recorded' = pos BY <2>1, <2>2 DEF Recorded
  <2>4. Going(states', pos) BY <2>1, <2>2, Widen
  <2> QED BY <2>1, <2>2, <2>3, <2>4 DEF StepInv
<1>12. ASSUME NEW kind \in {"reply", "PARSE_FAILURE"}, RecvReply(kind) PROVE StepInv'
  <2>1. last = pos /\ Going(states, pos - 1) /\ pos - 1 \in Int
    BY <1>12 DEF RecvReply, StepInv
  <2>2. /\ pc' = "head" /\ pos' = pos + 1 /\ last' = last /\ lastRecorded'
        /\ states' = Append(states, State(pos, kind))
    BY <1>12 DEF RecvReply, NextRequest, Record
  <2>3. Recorded' = pos BY <2>1, <2>2 DEF Recorded
  <2>4. kind \in Kinds /\ kind \notin Lost \cup {"CRASH"} BY DEF Kinds, Lost
  <2>5. Going(states', pos) BY <2>1, <2>2, <2>4, GoingAppend
  <2> QED BY <2>1, <2>2, <2>3, <2>5 DEF StepInv
<1>13. CASE After
  <2>1. pc = "after" /\ pc' = "idle" /\ UNCHANGED <<word, last>> BY <1>13 DEF After
  <2>2. CASE proc # "crashed"
    <3>1. states' = states BY <1>13, <2>2 DEF After, CrashOr
    <3>2. Recorded \in Int BY DEF Recorded
    <3>3. Ended(states) BY <2>1, <2>2, <3>2, ClosingEnds DEF StepInv
    <3> QED BY <2>1, <3>1, <3>3 DEF StepInv
  <2>3. CASE proc = "crashed"
    <3>1. HandleCrash(last, lastRecorded) BY <1>13, <2>3 DEF After, CrashOr
    <3>2. CASE RequestAt(last) \in crashIndex
      <4>1. states' = states BY <3>1, <3>2 DEF HandleCrash
      <4>2. Recorded \in Int BY DEF Recorded
      <4>3. Ended(states) BY <2>1, <4>2, ClosingEnds DEF StepInv
      <4> QED BY <2>1, <4>1, <4>3 DEF StepInv
    <3>3. CASE RequestAt(last) \notin crashIndex
      <4>1. Closing(states, Recorded) BY <2>1, <2>3, <3>3 DEF StepInv
      <4>2. Recorded \in Int /\ (lastRecorded \/ last > Recorded) BY DEF Recorded
      <4>3. Ended(states') BY <2>1, <3>1, <4>1, <4>2, HandleCrashEnds
      <4> QED BY <2>1, <4>3 DEF StepInv
    <3> QED BY <3>2, <3>3
  <2> QED BY <2>2, <2>3
<1>14. CASE Die BY <1>14, StillStep DEF Die
<1>15. CASE Stop BY <1>15, StillStep DEF Stop
<1>16. CASE UNCHANGED vars BY <1>16, StillStep DEF vars
<1> QED BY <1>1, <1>2, <1>3, <1>4, <1>5, <1>6, <1>7, <1>8, <1>9, <1>10, <1>11,
           <1>12, <1>13, <1>14, <1>15, <1>16 DEF Next, Recv

LEMMA OrderImplies == OrderInv => StatesInOrder /\ AbnormalEnds
<1> SUFFICES ASSUME OrderInv PROVE Ended(states)
  BY DEF Ended, Ordered, EndsOnce, StatesInOrder, AbnormalEnds
<1> USE DEF OrderInv, DataOK
<1>1. Recorded \in Int BY DEF Recorded
<1>2. CASE pc = "idle" BY <1>2 DEF StepInv
<1>3. CASE pc = "greeting"
  BY <1>3 DEF StepInv, Ended, Ordered, EndsOnce, States
<1>4. CASE pc = "head" BY <1>1, <1>4, GoingCloses, ClosingEnds DEF StepInv
<1>5. CASE pc \in {"send", "recv"}
  <2>1. pos - 1 \in Int /\ Going(states, pos - 1) BY <1>5 DEF StepInv
  <2> QED BY <2>1, GoingCloses, ClosingEnds
<1>6. CASE pc = "after" BY <1>1, <1>6, ClosingEnds DEF StepInv
<1> QED BY <1>2, <1>3, <1>4, <1>5, <1>6 DEF Steps

THEOREM OrderIsInvariant == Spec => []OrderInv
<1>1. OrderInv /\ [Next]_vars => OrderInv' BY DataStep, StepStep DEF OrderInv
<1> QED BY OrderInit, <1>1, PTL DEF Spec

\* What a conversation records is in the order of its requests, and ends with the
\* target (executor.py:1364-1610), for all requests, lengths and interleavings.
THEOREM StatesAreInOrder == Spec => []StatesInOrder
<1>1. OrderInv => StatesInOrder BY OrderImplies
<1> QED BY <1>1, OrderIsInvariant, PTL

\* Nothing follows a lost response but the crash that explains it, and no death is
\* recorded twice (executor.py:1410-1462, 1604-1610, 2422-2448).
THEOREM AbnormalEndsAreLast == Spec => []AbnormalEnds
<1>1. OrderInv => AbnormalEnds BY OrderImplies
<1> QED BY <1>1, OrderIsInvariant, PTL

-----------------------------------------------------------------------------
\* Type correctness needs how much is recorded at each step.
StateSeqs == Seq([req : 0..MaxLength, kind : Kinds])
DataSeqs == Seq([req : 0..MaxLength, answered : BOOLEAN])

RecordsOK == states \in StateSeqs /\ content \in DataSeqs /\ Len(states) <= Len(content)

CountInv ==
  /\ word \in SeqOf(Requests, MaxLength)
  /\ pos <= Len(word) + 1 /\ last <= Len(word)
  /\ pc \in {"send", "recv"} => pos <= Len(word)
  /\ RecordsOK
  /\ pc = "greeting" => content = <<>> /\ pos = 1
  /\ pc \in {"head", "send", "recv"} => Len(content) <= pos
  /\ pc = "after" => Len(content) <= Len(word) + 1
  /\ Len(content) <= Len(word) + 2
  /\ crashIndex \subseteq Requests \cup {"-"}
  /\ stop \in BOOLEAN
  /\ runs \in 0..MaxInteractions

LEMMA RecordType ==
  ASSUME RecordsOK, NEW r \in 0..MaxLength, NEW kind \in Kinds, NEW answered \in BOOLEAN,
         Record(r, kind, answered)
  PROVE  RecordsOK' /\ Len(content') = Len(content) + 1
<1> DEFINE x == State(r, kind)
           y == Data(r, answered)
           R == [req : 0..MaxLength, kind : Kinds]
           D == [req : 0..MaxLength, answered : BOOLEAN]
<1>1. x \in R /\ y \in D BY DEF State, Data
<1>2. states' = Append(states, x) /\ content' = Append(content, y) BY DEF Record
<1>3. states \in Seq(R) /\ content \in Seq(D) BY DEF RecordsOK, StateSeqs, DataSeqs
<1> HIDE DEF x, y, R, D
<1>4. states' \in Seq(R) /\ Len(states') = Len(states) + 1 BY <1>1, <1>2, <1>3
<1>5. content' \in Seq(D) /\ Len(content') = Len(content) + 1 BY <1>1, <1>2, <1>3
<1>6. Len(states) \in Nat /\ Len(content) \in Nat BY <1>3
<1> QED BY <1>4, <1>5, <1>6 DEF RecordsOK, StateSeqs, DataSeqs, R, D

LEMMA CrashType ==
  ASSUME DataOK, CountInv, NEW p \in 0..Len(word), NEW isRecorded \in BOOLEAN,
         HandleCrash(p, isRecorded)
  PROVE  /\ RecordsOK' /\ crashIndex' \subseteq Requests \cup {"-"}
         /\ Len(content') <= Len(content) + 1
<1>1. Len(word) \in 0..MaxLength /\ word \in Seq(Requests) BY WordType DEF CountInv
<1>2. RequestAt(p) \in Requests \cup {"-"} BY <1>1 DEF RequestAt
<1>3. RecordsOK BY DEF CountInv
<1>4. Len(content) \in Nat BY DEF CountInv, RecordsOK, DataSeqs
<1>5. CASE RequestAt(p) \in crashIndex
  <2>1. UNCHANGED recorded BY <1>5 DEF HandleCrash
  <2> QED BY <1>3, <1>4, <2>1 DEF RecordsOK, recorded, CountInv
<1>6. CASE RequestAt(p) \notin crashIndex
  <2> DEFINE k == IF isRecorded THEN 0 ELSE p
  <2>1. k \in 0..MaxLength
    <3>1. 0 \in 0..MaxLength /\ p \in 0..MaxLength
      BY <1>1, BoundsAssumption DEF BoundsAssumption
    <3> QED BY <3>1, Zenon
  <2>2. Record(k, "CRASH", FALSE) /\ crashIndex' = crashIndex \cup {RequestAt(p)}
    BY <1>6 DEF HandleCrash
  <2> HIDE DEF k
  <2>3. "CRASH" \in Kinds /\ FALSE \in BOOLEAN BY DEF Kinds
  <2>4. RecordsOK' /\ Len(content') = Len(content) + 1
    BY <1>3, <2>1, <2>2, <2>3, RecordType, Zenon
  <2> QED BY <1>2, <1>4, <2>2, <2>4 DEF CountInv
<1> QED BY <1>5, <1>6

LEMMA CountInit == Init => CountInv
<1> SUFFICES ASSUME Init PROVE CountInv OBVIOUS
<1>1. <<>> \in SeqOf(Requests, MaxLength)
  BY BoundsAssumption DEF SeqOf, BoundsAssumption
<1>2. RecordsOK BY DEF Init, RecordsOK, StateSeqs, DataSeqs
<1>3. Len(word) = 0 /\ Len(content) = 0 BY DEF Init
<1>4. word \in SeqOf(Requests, MaxLength) BY <1>1 DEF Init
<1>5. runs \in 0..MaxInteractions BY BoundsAssumption DEF Init, BoundsAssumption
<1>6. stop \in BOOLEAN /\ crashIndex \subseteq Requests \cup {"-"} BY DEF Init
<1>7. pc = "idle" /\ pos = 1 /\ last = 0 BY DEF Init
<1> QED BY <1>2, <1>3, <1>4, <1>5, <1>6, <1>7 DEF CountInv

LEMMA CountStep == DataOK /\ StepInv /\ CountInv /\ [Next]_vars => CountInv'
<1> SUFFICES ASSUME DataOK, StepInv, CountInv, [Next]_vars PROVE CountInv' OBVIOUS
<1> USE DEF DataOK, position, recorded
<1>a. Len(word) \in 0..MaxLength /\ MaxLength \in Nat /\ MaxInteractions \in Nat
  BY WordType, BoundsAssumption DEF CountInv, BoundsAssumption
<1>b. Len(content) \in Nat BY DEF CountInv, RecordsOK, DataSeqs
<1>c. ASSUME UNCHANGED <<states, content>> PROVE RecordsOK'
  BY <1>c DEF CountInv, RecordsOK
<1>1. ASSUME NEW w \in SeqOf(Requests, MaxLength), Begin(w) PROVE CountInv'
  <2>1. RecordsOK' BY <1>1 DEF Begin, RecordsOK, StateSeqs, DataSeqs
  <2>2. Len(w) \in 0..MaxLength BY WordType
  <2> QED BY <1>1, <1>a, <2>1, <2>2 DEF Begin, CountInv
<1>2. CASE Greeting
  <2>1. PICK kind \in Kinds, answered \in BOOLEAN : Record(0, kind, answered)
    BY <1>2 DEF Greeting, Kinds
  <2>2. RecordsOK' /\ Len(content') = Len(content) + 1
    BY <1>a, <2>1, RecordType DEF CountInv
  <2> QED BY <1>2, <1>a, <2>2 DEF Greeting, CountInv
<1>3. CASE GreetingStopped BY <1>3, <1>c DEF GreetingStopped, CountInv
<1>4. CASE HeadEnds BY <1>4, <1>a, <1>b, <1>c DEF HeadEnds, CountInv
<1>5. CASE HeadFindsExit
  <2>1. /\ RecordsOK' /\ crashIndex' \subseteq Requests \cup {"-"}
        /\ Len(content') <= Len(content) + 1
    <3>1. CASE proc = "crashed"
      <4>1. HandleCrash(last, lastRecorded) BY <1>5, <3>1 DEF HeadFindsExit, CrashOr
      <4>2. last \in 0..Len(word) BY <1>a DEF CountInv
      <4> QED BY <4>1, <4>2, CrashType
    <3>2. CASE proc # "crashed"
      <4>1. Record(pos, "CLOSED", FALSE) /\ crashIndex' = crashIndex
        BY <1>5, <3>2 DEF HeadFindsExit, CrashOr
      <4>2. pos \in 0..MaxLength /\ "CLOSED" \in Kinds /\ FALSE \in BOOLEAN
        BY <1>5, <1>a DEF HeadFindsExit, Kinds, Lost
      <4>3. RecordsOK BY DEF CountInv
      <4>4. RecordsOK' /\ Len(content') = Len(content) + 1
        BY <4>1, <4>2, <4>3, RecordType, Zenon
      <4> QED BY <1>b, <4>1, <4>4 DEF CountInv
    <3> QED BY <3>1, <3>2
  <2>2. Len(content') \in Nat BY <2>1 DEF RecordsOK, DataSeqs
  <2> QED BY <1>5, <1>a, <1>b, <2>1, <2>2 DEF HeadFindsExit, CountInv
<1>6. CASE HeadTakes BY <1>6, <1>a, <1>c DEF HeadTakes, CountInv
<1>7. CASE Send BY <1>7, <1>c DEF Send, CountInv
<1>8. CASE SendFails
  <2>1. /\ RecordsOK' /\ crashIndex' \subseteq Requests \cup {"-"}
        /\ Len(content') <= Len(content) + 1
    <3>1. CASE proc = "crashed"
      <4>1. HandleCrash(pos, FALSE) BY <1>8, <3>1 DEF SendFails, CrashOr
      <4>2. pos \in 0..Len(word) /\ FALSE \in BOOLEAN
        BY <1>8, <1>a DEF SendFails, CountInv
      <4> QED BY <4>1, <4>2, CrashType, Zenon
    <3>2. CASE proc # "crashed"
      <4>1. UNCHANGED recorded BY <1>8, <3>2 DEF SendFails, CrashOr
      <4> QED BY <4>1, <1>b, <1>c DEF CountInv
    <3> QED BY <3>1, <3>2
  <2>2. Len(content') \in Nat BY <2>1 DEF RecordsOK, DataSeqs
  <2> QED BY <1>8, <1>a, <1>b, <2>1, <2>2 DEF SendFails, CountInv
<1>9. ASSUME NEW kind \in Lost, RecvLost(kind) PROVE CountInv'
  <2>1. /\ RecordsOK' /\ crashIndex' \subseteq Requests \cup {"-"}
        /\ Len(content') <= Len(content) + 1
    <3>1. CASE proc = "crashed"
      <4>1. HandleCrash(pos, FALSE) BY <1>9, <3>1 DEF RecvLost, CrashOr
      <4>2. pos \in 0..Len(word) /\ FALSE \in BOOLEAN
        BY <1>9, <1>a DEF RecvLost, CountInv
      <4> QED BY <4>1, <4>2, CrashType, Zenon
    <3>2. CASE proc # "crashed"
      <4>1. Record(pos, kind, FALSE) /\ crashIndex' = crashIndex
        BY <1>9, <3>2 DEF RecvLost, CrashOr
      <4>2. pos \in 0..MaxLength /\ kind \in Kinds /\ FALSE \in BOOLEAN
        BY <1>9, <1>a DEF RecvLost, Kinds, CountInv
      <4>3. RecordsOK BY DEF CountInv
      <4>4. RecordsOK' /\ Len(content') = Len(content) + 1
        BY <4>1, <4>2, <4>3, RecordType, Zenon
      <4> QED BY <1>b, <4>1, <4>4 DEF CountInv
    <3> QED BY <3>1, <3>2
  <2>2. Len(content') \in Nat BY <2>1 DEF RecordsOK, DataSeqs
  <2> QED BY <1>9, <1>a, <1>b, <2>1, <2>2 DEF RecvLost, CountInv
<1>10. CASE RecvNothing BY <1>10, <1>a, <1>b, <1>c DEF RecvNothing, NextRequest, CountInv
<1>11. CASE RecvIgnored
  <2> DEFINE D == [req : 0..MaxLength, answered : BOOLEAN]
             y == Data(pos, TRUE)
  <2>1. pos \in 0..MaxLength BY <1>11, <1>a DEF RecvIgnored, CountInv
  <2>2. y \in D BY <2>1 DEF Data
  <2>3. content \in Seq(D) /\ content' = Append(content, y) /\ states' = states
    BY <1>11 DEF RecvIgnored, CountInv, RecordsOK, DataSeqs
  <2> HIDE DEF y, D
  <2>4. content' \in Seq(D) /\ Len(content') = Len(content) + 1 BY <2>2, <2>3
  <2>5. Len(states) \in Nat BY DEF CountInv, RecordsOK, StateSeqs
  <2>6. RecordsOK' BY <1>b, <2>3, <2>4, <2>5 DEF CountInv, RecordsOK, DataSeqs, D
  <2> QED BY <1>11, <1>a, <1>b, <2>4, <2>6 DEF RecvIgnored, NextRequest, CountInv
<1>12. ASSUME NEW kind \in {"reply", "PARSE_FAILURE"}, RecvReply(kind) PROVE CountInv'
  <2>1. Record(pos, kind, TRUE) BY <1>12 DEF RecvReply
  <2>2. pos \in 0..MaxLength /\ kind \in Kinds /\ TRUE \in BOOLEAN
    BY <1>12, <1>a DEF RecvReply, Kinds, CountInv
  <2>3. RecordsOK BY DEF CountInv
  <2>4. RecordsOK' /\ Len(content') = Len(content) + 1
    BY <2>1, <2>2, <2>3, RecordType, Zenon
  <2> QED BY <1>12, <1>a, <1>b, <2>4 DEF RecvReply, NextRequest, CountInv
<1>13. CASE After
  <2>1. /\ RecordsOK' /\ crashIndex' \subseteq Requests \cup {"-"}
        /\ Len(content') <= Len(content) + 1
    <3>1. CASE proc = "crashed"
      <4>1. HandleCrash(last, lastRecorded) BY <1>13, <3>1 DEF After, CrashOr
      <4>2. last \in 0..Len(word) BY <1>a DEF CountInv
      <4> QED BY <4>1, <4>2, CrashType
    <3>2. CASE proc # "crashed"
      <4>1. UNCHANGED recorded BY <1>13, <3>2 DEF After, CrashOr
      <4> QED BY <4>1, <1>b, <1>c DEF CountInv
    <3> QED BY <3>1, <3>2
  <2>2. Len(content') \in Nat BY <2>1 DEF RecordsOK, DataSeqs
  <2> QED BY <1>13, <1>a, <1>b, <2>1, <2>2 DEF After, CountInv
<1>14. CASE Die BY <1>14, <1>c DEF Die, CountInv
<1>15. CASE Stop BY <1>15, <1>c DEF Stop, CountInv
<1>16. CASE UNCHANGED vars BY <1>16, <1>c DEF vars, CountInv
<1> QED BY <1>1, <1>2, <1>3, <1>4, <1>5, <1>6, <1>7, <1>8, <1>9, <1>10, <1>11,
           <1>12, <1>13, <1>14, <1>15, <1>16 DEF Next, Recv

\* Every variable of Conversation keeps its type; a conversation records at most its
\* greeting, one entry for each request, and a crash.
THEOREM TypeCorrect == Spec => []TypeOK
<1>1. Init => OrderInv /\ CountInv BY OrderInit, CountInit
<1>2. OrderInv /\ CountInv /\ [Next]_vars => (OrderInv /\ CountInv)'
  BY DataStep, StepStep, CountStep DEF OrderInv
<1>3. OrderInv /\ CountInv => TypeOK
  <2> SUFFICES ASSUME OrderInv, CountInv PROVE TypeOK OBVIOUS
  <2>1. Len(word) \in 0..MaxLength BY WordType DEF CountInv
  <2> QED BY <2>1, BoundsAssumption
       DEF OrderInv, DataOK, CountInv, RecordsOK, StateSeqs, DataSeqs, TypeOK,
           BoundsAssumption
<1> QED BY <1>1, <1>2, <1>3, PTL DEF Spec

===============================================================================
