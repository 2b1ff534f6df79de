-------------------------- MODULE MCObservationTable --------------------------
(***************************************************************************)
(* Targets for the runs of ObservationTable, and words to compare a         *)
(* hypothesis with them.                                                   *)
(***************************************************************************)
EXTENDS ObservationTable

Symbols == {"a", "b"}

\* All machines over the given states and replies.
AllMachines(states, replies) ==
  [start : {1}, next : [states \X Symbols -> states], out : [states \X Symbols -> replies],
   late : {0}]

\* Two states, and a target that may hang, up to the names of states, symbols and
\* replies: a leads from the first state to the second and is answered by x.
TwoStates == {m \in AllMachines(1..2, {"x", "y", "TIMEOUT"}) :
                m.next[1, "a"] = 2 /\ m.out[1, "a"] = "x"}

\* A machine with the given table of next states and replies.
Machine(next, out, late) ==
  LET keys == (DOMAIN next) \X Symbols
      col(k) == IF k[2] = "a" THEN 1 ELSE 2
  IN  [start |-> 1, next |-> [k \in keys |-> next[k[1]][col(k)]],
       out |-> [k \in keys |-> out[k[1]][col(k)]], late |-> late]

\* A login: a opens, b hangs from then on.  Up to four answers come too late: three give
\* an entry up, and a fourth can keep make_consistent from telling prefixes apart.
Login == {Machine(<<<<2, 1>>, <<2, 2>>>>, <<<<"x", "y">>, <<"x", "TIMEOUT">>>>, 4)}

\* A session: a opens, b ends it by closing the connection.
Session == {Machine(<<<<2, 1>>, <<2, 3>>, <<3, 3>>>>,
                    <<<<"x", "y">>, <<"y", "CLOSED">>, <<"y", "y">>>>, 0)}

\* A target that crashes on b in every state.
Fragile == {Machine(<<<<2, 1>>, <<1, 1>>>>, <<<<"x", "CRASH">>, <<"y", "CRASH">>>>, 0)}

Targets == TwoStates \cup Login \cup Session \cup Fragile

\* Longer than any word the table asks.
Words == UNION {[1..n -> Symbols] : n \in 1..5}

===============================================================================
