--------------------------- MODULE MCFuzzScheduler ---------------------------
(***************************************************************************)
(* FuzzScheduler for TLC: two requests with a generator and one without,   *)
(* and a machine of two states.                                            *)
(***************************************************************************)
EXTENDS FuzzScheduler

\* A chain that ends in itself; nothing; a request without a generator.
McRelations ==
  {[r \in Requests |-> IF r = "a" THEN {"a", "b"} ELSE {"b"}],
   [r \in Requests |-> {}],
   [r \in Requests |-> {"c"}]}
McStates == {<<>>, <<"a", "b">>}
McMoves == {<<<<"a", "b">>, "b", <<>>>>}
McImported == {<<"imported">>}
McPartial == {<<"b", "a">>}
=============================================================================
