---------------------------- MODULE MC_Registry ----------------------------
(* Small instances of the registry for TLC. *)
EXTENDS Registry, TLC

CONSTANTS c1, c2, g1, n1, v1, v2

MCClients == {c1, c2}
\* A single caller: what goes wrong without any concurrency.
MCOneClient == {c1}

MCGroups == {g1}
MCNames == {n1}
MCVals == {v1, v2}
MCEntityKinds == {"stream"}

\* No handler: the questions about results and the store alone.
MCNoHandlers == << >>

\* One handler following everything, one following streams only.
MCInterest == << {"group", "stream"}, {"stream"} >>

\* Both handlers follow group deletes, as a consumer that cleans up must.
MCInterestAll == << {"group", "stream"}, {"group", "stream"} >>

MCSymmetry == Permutations(MCClients)
=============================================================================
