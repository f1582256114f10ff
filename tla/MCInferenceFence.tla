-------------------------- MODULE MCInferenceFence --------------------------
(* Small instances of InferenceFence. *)
EXTENDS InferenceFence

CONSTANTS p, q, Person, c1, c2

TwoTypes == {p, q}

\* A transitive relation with an inverse: rules that feed each other.
ChainEdges == {<<1, p, 2>>, <<2, p, 3>>}
ChainCatalog == {<<p, {<<"transitive">>}>>, <<q, {<<"inverseOf", p>>}>>}

\* No write outlives its request.
MCNext == Next /\ UNCHANGED orphans
MCSpec == Init /\ [][MCNext]_vars
=============================================================================
