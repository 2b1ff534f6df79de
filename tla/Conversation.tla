----------------------------- MODULE Conversation -----------------------------
(***************************************************************************)
(* What Executor._interact_once records of its exchanges with a target     *)
(* that may die at any moment: the state sequences and the data of a       *)
(* Conversation, and the index of crashes seen so far, which outlives it.  *)
(*                                                                         *)
(* Requests are named by their position in the sequence to send; position  *)
(* 0 is the greeting.  add_state appends to req_seq and res_seq at once,   *)
(* so both are one sequence here.                                          *)
(***************************************************************************)
EXTENDS Naturals, Sequences, FiniteSets, SequencesExt

CONSTANTS
  Requests,         (* request types, each with the message sent for it     *)
  MaxLength,        (* bound: requests of one conversation                  *)
  MaxInteractions   (* bound: conversations                                 *)

ASSUME RequestsAssumption == Requests # {} /\ "-" \notin Requests
ASSUME BoundsAssumption == MaxLength \in Nat /\ MaxInteractions \in Nat

VARIABLES
  word,         (* msg_seq                                                   *)
  pc,           (* the next step of _interact_once, "idle" between calls     *)
  pos,          (* request_index + 1                                         *)
  proc,         (* what proc.poll and the exit code say of the target        *)
  states,       (* Conversation.req_seq and res_seq                          *)
  content,      (* Conversation.content                                      *)
  last,         (* the position of last_msg_type and last_msg                *)
  lastRecorded, (* last_request_recorded                                     *)
  crashIndex,   (* crash_testcases: requests, "-" for the greeting           *)
  stop,         (* _should_stop                                              *)
  runs          (* conversations begun                                       *)

vars == <<word, pc, pos, proc, states, content, last, lastRecorded,
          crashIndex, stop, runs>>
recorded == <<states, content, crashIndex>>
position == <<word, pos, last>>

Lost == {"TIMEOUT", "POLLERR", "CLOSED"}
Kinds == Lost \cup {"-", "reply", "PARSE_FAILURE", "CRASH"}
Steps == {"idle", "greeting", "head", "send", "recv", "after"}

\* One entry of req_seq and res_seq, and one of content; answered says that the
\* response bytes are there.
State(req, kind) == [req |-> req, kind |-> kind]
Data(req, answered) == [req |-> req, answered |-> answered]

Record(req, kind, answered) ==
  /\ states' = Append(states, State(req, kind))
  /\ content' = Append(content, Data(req, answered))

-----------------------------------------------------------------------------
(* Crashes                                                                 *)

RequestAt(p) == IF p = 0 THEN "-" ELSE word[p]

\* Mutants of HandleCrash: crashes are not deduplicated; the flag is not looked at.
HandleCrashAgain(p, isRecorded) ==
  /\ crashIndex' = crashIndex \cup {RequestAt(p)}
  /\ Record(IF isRecorded THEN 0 ELSE p, "CRASH", FALSE)
HandleCrashByRequest(p, isRecorded) ==
  IF RequestAt(p) \in crashIndex THEN UNCHANGED recorded
  ELSE /\ crashIndex' = crashIndex \cup {RequestAt(p)}
       /\ Record(p, "CRASH", FALSE)

\* handle_crash: a crash of the same request is recorded once; a request that
\* has its response already is not recorded again.
HandleCrash(p, isRecorded) ==
  IF RequestAt(p) \in crashIndex THEN UNCHANGED recorded
  ELSE /\ crashIndex' = crashIndex \cup {RequestAt(p)}
       /\ Record(IF isRecorded THEN 0 ELSE p, "CRASH", FALSE)

\* _handle_crash_if_detected, or what the caller does if it returns False.
CrashOr(p, isRecorded, Otherwise) ==
  IF proc = "crashed" THEN HandleCrash(p, isRecorded) ELSE Otherwise

-----------------------------------------------------------------------------
(* The steps of _interact_once                                             *)

\* The target is up; launching it is the matter of RunLifecycle.
Begin(w) ==
  /\ pc = "idle" /\ ~stop /\ runs < MaxInteractions
  /\ word' = w
  /\ pc' = "greeting" /\ pos' = 1
  /\ proc' = "running"
  /\ states' = <<>> /\ content' = <<>>
  /\ last' = 0 /\ lastRecorded' = TRUE
  /\ runs' = runs + 1
  /\ UNCHANGED <<crashIndex, stop>>

\* The first entry stands for the greeting, received or not.
Greeting ==
  /\ pc = "greeting" /\ ~stop
  /\ \/ Record(0, "reply", TRUE)
     \/ Record(0, "-", FALSE)
  /\ pc' = "head"
  /\ UNCHANGED <<position, proc, lastRecorded, crashIndex, stop, runs>>

\* A stop before the first request: no conversation is returned.
GreetingStopped ==
  /\ pc = "greeting" /\ stop
  /\ pc' = "idle"
  /\ UNCHANGED <<position, proc, recorded, lastRecorded, stop, runs>>

HeadEnds ==
  /\ pc = "head"
  /\ stop \/ pos > Len(word)
  /\ pc' = "after"
  /\ UNCHANGED <<position, proc, recorded, lastRecorded, stop, runs>>

\* The target is gone before the next request: the one before it may have
\* crashed it.
HeadFindsExit ==
  /\ pc = "head" /\ ~stop /\ pos <= Len(word)
  /\ proc # "running"
  /\ CrashOr(last, lastRecorded, Record(pos, "CLOSED", FALSE) /\ UNCHANGED crashIndex)
  /\ pc' = "after"
  /\ UNCHANGED <<position, proc, lastRecorded, stop, runs>>

HeadTakes ==
  /\ pc = "head" /\ ~stop /\ pos <= Len(word)
  /\ proc = "running"
  /\ last' = pos
  /\ pc' = "send"
  /\ UNCHANGED <<word, pos, proc, recorded, lastRecorded, stop, runs>>

\* The kernel takes the message, whether the target still reads it or not.
Send ==
  /\ pc = "send" /\ ~stop
  /\ lastRecorded' = FALSE
  /\ pc' = "recv"
  /\ UNCHANGED <<position, proc, recorded, stop, runs>>

\* A broken socket, or a stop.
SendFails ==
  /\ pc = "send"
  /\ CrashOr(pos, FALSE, UNCHANGED recorded)
  /\ pc' = "after"
  /\ UNCHANGED <<position, proc, lastRecorded, stop, runs>>

\* No response: the socket reports an error, nothing comes, or it is closed.
RecvLost(kind) ==
  /\ pc = "recv" /\ ~stop
  /\ CrashOr(pos, FALSE, Record(pos, kind, FALSE) /\ UNCHANGED crashIndex)
  /\ lastRecorded' = (proc # "crashed")
  /\ pc' = "after"
  /\ UNCHANGED <<position, proc, stop, runs>>

NextRequest ==
  /\ pos' = pos + 1
  /\ pc' = "head"
  /\ UNCHANGED <<word, last, proc, crashIndex, stop, runs>>

\* net_recv returned nothing: a stop, or an exception of the socket.
RecvNothing ==
  /\ pc = "recv"
  /\ NextRequest
  /\ UNCHANGED <<states, content, lastRecorded>>

\* A response of which no frame is plausible: its data is kept, its state is not.
RecvIgnored ==
  /\ pc = "recv" /\ ~stop
  /\ content' = Append(content, Data(pos, TRUE))
  /\ lastRecorded' = TRUE
  /\ NextRequest
  /\ UNCHANGED states

\* A response the parser understands, or fails on.
RecvReply(kind) ==
  /\ pc = "recv" /\ ~stop
  /\ Record(pos, kind, TRUE)
  /\ lastRecorded' = TRUE
  /\ NextRequest

\* The last look at the target before it is terminated.
After ==
  /\ pc = "after"
  /\ CrashOr(last, lastRecorded, UNCHANGED recorded)
  /\ pc' = "idle"
  /\ UNCHANGED <<position, proc, lastRecorded, stop, runs>>

\* The target dies by itself, with or without a sign of a crash.
Die ==
  /\ pc # "idle" /\ proc = "running"
  /\ proc' \in {"crashed", "exited"}
  /\ UNCHANGED <<position, pc, recorded, lastRecorded, stop, runs>>

Stop ==
  /\ ~stop
  /\ stop' = TRUE
  /\ UNCHANGED <<position, pc, proc, recorded, lastRecorded, runs>>

-----------------------------------------------------------------------------
Init ==
  /\ word = <<>> /\ pc = "idle" /\ pos = 1
  /\ proc = "exited"
  /\ states = <<>> /\ content = <<>>
  /\ last = 0 /\ lastRecorded = TRUE
  /\ crashIndex = {}
  /\ stop = FALSE
  /\ runs = 0

Recv ==
  \/ \E kind \in Lost : RecvLost(kind)
  \/ RecvNothing \/ RecvIgnored
  \/ \E kind \in {"reply", "PARSE_FAILURE"} : RecvReply(kind)

Next ==
  \/ \E w \in SeqOf(Requests, MaxLength) : Begin(w)
  \/ Greeting \/ GreetingStopped
  \/ HeadEnds \/ HeadFindsExit \/ HeadTakes
  \/ Send \/ SendFails \/ Recv
  \/ After \/ Die \/ Stop

Spec == Init /\ [][Next]_vars

-----------------------------------------------------------------------------
(* Properties                                                              *)

TypeOK ==
  /\ word \in SeqOf(Requests, MaxLength)
  /\ pc \in Steps
  /\ pos \in 1..(MaxLength + 1)
  /\ proc \in {"running", "crashed", "exited"}
  /\ states \in Seq([req : 0..MaxLength, kind : Kinds])
  /\ content \in Seq([req : 0..MaxLength, answered : BOOLEAN])
  /\ Len(states) <= Len(content) /\ Len(content) <= Len(word) + 2
  /\ last \in 0..MaxLength
  /\ lastRecorded \in BOOLEAN
  /\ crashIndex \subseteq Requests \cup {"-"}
  /\ stop \in BOOLEAN
  /\ runs \in 0..MaxInteractions

\* The states follow the requests: no request has two of them, wherever its crash
\* is found (executor.py:1369, 1413, 1431, 1449, 1589, 1604); only the greeting and
\* a crash after a recorded response stand for no request.
StatesInOrder ==
  /\ \A i, j \in DOMAIN states :
       i < j /\ states[j].req # 0 => states[i].req < states[j].req
  /\ \A i \in DOMAIN states :
       states[i].req = 0 => i = 1 \/ (i = Len(states) /\ states[i].kind = "CRASH")

\* Nothing follows an abnormal response but the crash that explains it, and
\* nothing follows a crash, which two looks at one dead process might record
\* twice (executor.py:1422-1462, 1604-1610); ObTable
\* takes the last output for the answer.
AbnormalEnds ==
  \A i, j \in DOMAIN states :
    /\ i < j /\ states[i].kind \in Lost => j = Len(states) /\ states[j].kind = "CRASH"
    /\ states[i].kind = "CRASH" => i = Len(states)

\* pair_recorder.py:16: what is stored as a request/response relation are the
\* bytes of the exchange that the relation was seen in.  The recorder, seed
\* retention and the partial guidance pair content[i] with req_seq[i].
PairsBelongTogether ==
  pc = "idle" =>
    \A i \in DOMAIN states \cap DOMAIN content :
      states[i].kind = "reply" /\ states[i].req # 0 /\ content[i].answered =>
        content[i].req = states[i].req
===============================================================================
