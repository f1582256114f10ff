--------------------------- MODULE MCMetaCatalog ---------------------------
(* A small instance of MetaCatalog: two callers, with a client each or one *)
(* for both, whose calls are about types, their versions, spaces or        *)
(* indexes.                                                                *)
EXTENDS MetaCatalog, TLC

Types == {"create", "alter", "drop", "get", "list"}
OfSpaces == {"create_space", "drop_space", "get_space", "list_spaces", "create"}
Indexes == {"create_index", "drop_index", "list_index", "drop"}
OfVersions == {"alter", "versions"}
Reads == {"alter", "get", "list"}
Of(kinds, ops, shares) == [kind : kinds, ops : {ops}, shared : shares]
AllScenarios ==
  Of({"tag"}, Types, {FALSE}) \cup Of({"edge"}, {"create", "drop"}, {FALSE}) \cup Of({"tag", "edge"}, Reads, {TRUE})
    \cup Of({"tag"}, OfSpaces, {FALSE}) \cup Of({"tag", "edge"}, Indexes, {FALSE})
    \cup Of({"tag", "edge"}, OfVersions, {FALSE})

\* Callers are told apart by nothing; the properties are about states.
CallerSymmetry == Permutations(Callers)

-----------------------------------------------------------------------------
(* Every name leads to a record; and while changes do not overlap there is *)
(* one record of a name, and disk and memory agree, former versions        *)
(* included (NamesResolve, OneTypePerName, CatalogPersisted).              *)
CatalogExact == TypeOK /\ NamesResolve /\ OneTypePerName /\ CatalogPersisted

(* A client reads its own alterations, except what a read that they        *)
(* overtook put back in its cache, and nothing older than a cache entry    *)
(* may be (ReadYourAlters, StaleBound).                                    *)
CacheExact == ReadYourAlters /\ StaleBound
=============================================================================
