------------------------- MODULE MCVersionHistory -------------------------
(***************************************************************************)
(* Small instances of what the statements of a space share: the versions   *)
(* they append, an entity in each of two spaces, and the lock they queue   *)
(* for, with rules that undo themselves and a budget of one derived fact.  *)
(* A behaviour is one of the two.                                          *)
(***************************************************************************)
EXTENDS VersionHistory

CONSTANTS s1, s2, a, c, p, Person, c1, c2

VARIABLES kv, kept, queue, pc, op, work, fire, written, left, part

lockVars == <<kv, kept, queue, pc, op, work, fire, written, left>>
allvars == <<vars, lockVars, part>>

OneInEach == (a :> s1) @@ (c :> s2)

F == INSTANCE InferenceFence WITH
  Vid <- {1, 2}, EdgeType <- {p}, Class <- {Person}, Client <- {c1, c2},
  Ops <- {"Dml", "Ddl", "Repair", "DropSpace"}, Assertable <- {<<1, p, 2>>},
  Catalog <- {<<p, {<<"symmetric">>, <<"domain", Person>>}>>, <<p, {<<"symmetric">>}>>},
  Cap <- 1, Relaxed <- FALSE, MaxOrphans <- 1, disk <- kept, orphans <- left

MCInit == Init /\ F!Init /\ part \in {"versions", "lock"}

OfLock(A) == part = "lock" /\ A /\ UNCHANGED <<vars, part>>

MCNext ==
  \/ part = "versions" /\ Next /\ UNCHANGED <<lockVars, part>>
  \/ OfLock(F!Next)

MCSpec ==
  /\ MCInit /\ [][MCNext]_allvars
  /\ \A r \in {c1, c2} : WF_allvars(OfLock(F!Proceed(r)))
  /\ WF_allvars(OfLock(F!LandOrphan))

-----------------------------------------------------------------------------
\* Every statement that waits for the space lock returns: the lock is handed
\* on, and a rebuild runs dry or gives up at its budget (EveryStatementReturns
\* of InferenceFence).
EveryStatementReturns == F!EveryStatementReturns
=============================================================================
