----------------------------- MODULE MCPreparation -----------------------------
(***************************************************************************)
(* Preparation for TLC: two documents of one section, two request types,   *)
(* one of them from an older release; response types are those of the SMTP *)
(* catalog, or none.  And what the code says of itself.                    *)
(***************************************************************************)
EXTENDS Preparation

McRfcs == <<"r1", "r2">>
McNamed == [req |-> {{}, {"a", "b"}}, res |-> {{}}]

\* _restrict_to_available_generators, "Remove unavailable initial request types from
\* downstream inputs" (synthesizer.py:855-858): what the mapper is offered has a generator.
OfferedIsAvailable == stage = "prepared" => offered \subseteq generators

\* AsyncProducer.run, "Load or generate initial generators, parser, checker, and mutators"
\* (synthesizer.py:225-228): a run that goes on has a parser.
ParserIsThere == stage = "prepared" => parsers
=============================================================================
