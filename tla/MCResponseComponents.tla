------------------------ MODULE MCResponseComponents ------------------------
(***************************************************************************)
(* ResponseComponents for TLC: every code is of the one family there is.   *)
(***************************************************************************)
EXTENDS ResponseComponents

McFamily == [r \in Types |-> Families]

\* What an older release left and the first request withdraws: the checker of each code
\* and the observer of its family.
McOutdated == {<<"checker", r>> : r \in Types} \cup {<<"observer", f>> : f \in Families}

\* Errors are only compared.
ErrorsAlike == Permutations(Errors)

\* Bound: a key that has a third version is not followed any further.
MaxVersions == 2
FewVersions == \A kind \in Kinds : \A key \in Keys : Len(versions[kind][key]) <= MaxVersions
=============================================================================
