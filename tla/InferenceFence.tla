--------------------------- MODULE InferenceFence ---------------------------
(***************************************************************************)
(* How one space executes statements: Executor::execute                    *)
(* (executor/mod.rs), the inference completion fence                       *)
(* (executor/inference_recovery.rs) and the closure rebuild                *)
(* (executor/inference.rs) over the transactional key-value store.         *)
(*                                                                         *)
(* A statement takes the space's read or write lock, is refused while the  *)
(* dirty marker is present, commits its assertions together with the       *)
(* marker in one batch, rebuilds every derived fact one batch at a time,   *)
(* and removes the marker.  It can be cancelled, fail or crash between any *)
(* two batches.                                                            *)
(*                                                                         *)
(* All edges are of ranking 0, the ranking inference.rs derives with.  An  *)
(* asserted edge of another ranking is a record of its own, next to an     *)
(* inferred one of the same triple (EdgeViews has such pairs).             *)
(***************************************************************************)
EXTENDS Naturals, Sequences, FiniteSets

CONSTANTS
  Vid,         \* vertex ids
  EdgeType,    \* edge type names
  Class,       \* class names that DOMAIN and RANGE may refer to
  Client,      \* concurrent requests against the space
  Ops,         \* the kinds of statements they issue
  Assertable,  \* edges that DML statements name
  Catalog,     \* declarations <<edge type, axioms>> that CREATE EDGE issues
  Cap,         \* max_traversal_nodes; 0 is unbounded
  Relaxed,     \* TRUE: durability is relaxed, a commit need not be on disk
  MaxOrphans   \* writes a cancelled request may leave running (see Detach)

-----------------------------------------------------------------------------
(* The entailment rules (executor/inference.rs).  CREATE EDGE stores the   *)
(* semantic flags of an edge type; load_rel_meta turns the flags of every  *)
(* declared type into the RelMeta index, and run_materialization applies   *)
(* that index to one edge at a time.  Here a schema maps each declared     *)
(* edge type to its set of axioms, and RelMeta is the set of all rule      *)
(* instances those axioms have over the vertices.                          *)

\* A triple (src, edge type, dst), the unit of inference.
Edge == Vid \X EdgeType \X Vid

\* A derived vertex type `{space}:vtype:{vid}:{class}`.
VType == Vid \X Class

Fact == Edge \cup VType

\* The clauses of CREATE EDGE (SemanticFlags).
Axiom ==
  {<<"symmetric">>, <<"transitive">>}
    \cup ({"inverseOf", "subPropertyOf", "equivalentTo"} \X EdgeType)
    \cup ({"domain", "range"} \X Class)
    \cup ({"chain"} \X EdgeType \X EdgeType)

\* Edge types that the clauses refer to.
Targets(axioms) ==
  {q \in EdgeType : \E a \in axioms :
      /\ a[1] \in {"inverseOf", "subPropertyOf", "equivalentTo", "chain"}
      /\ \E i \in 2 .. Len(a) : a[i] = q}

\* The axioms of every edge type; a type without declaration has none.
Schema == [EdgeType -> SUBSET Axiom]

RuleKind == {"symmetric", "inverseOf", "subPropertyOf", "equivalentTo",
             "transitive", "chain", "domain", "range"}

\* One justified derivation: the conclusion follows from the premises.
Justification == [rule : RuleKind, prem : SUBSET Edge, concl : Fact]

Infer(rule, prem, concl) == [rule |-> rule, prem |-> prem, concl |-> concl]

Declaring(sch, axiom) == {p \in EdgeType : axiom \in sch[p]}

-----------------------------------------------------------------------------
(* The rules, each for given vertices and edge types.                      *)

SymmetricRule(s, p, d) == Infer("symmetric", {<<s, p, d>>}, <<d, p, s>>)
InverseRule(s, p, q, d) == Infer("inverseOf", {<<s, p, d>>}, <<d, q, s>>)
SubRule(s, p, q, d) == Infer("subPropertyOf", {<<s, p, d>>}, <<s, q, d>>)
EquivalentRule(s, p, q, d) == Infer("equivalentTo", {<<s, p, d>>}, <<s, q, d>>)
TransitiveRule(s, p, m, d) ==
  Infer("transitive", {<<s, p, m>>, <<m, p, d>>}, <<s, p, d>>)
ChainRule(s, p1, m, p2, d, q) ==
  Infer("chain", {<<s, p1, m>>, <<m, p2, d>>}, <<s, q, d>>)
DomainRule(s, p, d, c) == Infer("domain", {<<s, p, d>>}, <<s, c>>)
RangeRule(s, p, d, c) == Infer("range", {<<s, p, d>>}, <<d, c>>)

-----------------------------------------------------------------------------
(* The instances that the flags of a schema call for.                      *)

Symmetric(sch) ==
  UNION {{SymmetricRule(s, p, d) : s \in Vid, d \in Vid} :
         p \in Declaring(sch, <<"symmetric">>)}

\* Pairs <<p, q>> such that p is declared `kind q`.
Related(sch, kind) ==
  {pq \in EdgeType \X EdgeType : <<kind, pq[2]>> \in sch[pq[1]]}

\* inverseOf and equivalentTo are registered in both directions.
InverseOf(sch) ==
  UNION {{InverseRule(s, pq[1], pq[2], d) : s \in Vid, d \in Vid}
           \cup {InverseRule(s, pq[2], pq[1], d) : s \in Vid, d \in Vid} :
         pq \in Related(sch, "inverseOf")}

SubPropertyOf(sch) ==
  UNION {{SubRule(s, pq[1], pq[2], d) : s \in Vid, d \in Vid} :
         pq \in Related(sch, "subPropertyOf")}

EquivalentProperty(sch) ==
  UNION {{EquivalentRule(s, pq[1], pq[2], d) : s \in Vid, d \in Vid}
           \cup {EquivalentRule(s, pq[2], pq[1], d) : s \in Vid, d \in Vid} :
         pq \in Related(sch, "equivalentTo")}

Transitive(sch) ==
  UNION {{TransitiveRule(s, p, m, d) : s \in Vid, m \in Vid, d \in Vid} :
         p \in Declaring(sch, <<"transitive">>)}

\* Triples <<q, p1, p2>> such that q is declared as the chain p1 o p2.
Chains(sch) ==
  {c \in EdgeType \X EdgeType \X EdgeType : <<"chain", c[2], c[3]>> \in sch[c[1]]}

\* A chain is indexed from both of its links.
PropertyChain(sch) ==
  UNION {{ChainRule(s, c[2], m, c[3], d, c[1]) : s \in Vid, m \in Vid, d \in Vid} :
         c \in Chains(sch)}

\* Pairs <<p, c>> such that p is declared with the domain or range c.
Typed(sch, kind) ==
  {tc \in EdgeType \X Class : <<kind, tc[2]>> \in sch[tc[1]]}

DomainClass(sch) ==
  UNION {{DomainRule(s, tc[1], d, tc[2]) : s \in Vid, d \in Vid} :
         tc \in Typed(sch, "domain")}

RangeClass(sch) ==
  UNION {{RangeRule(s, tc[1], d, tc[2]) : s \in Vid, d \in Vid} :
         tc \in Typed(sch, "range")}

\* load_rel_meta: everything the declared edge types entail.
RelMeta(sch) ==
  Symmetric(sch) \cup InverseOf(sch) \cup SubPropertyOf(sch)
    \cup EquivalentProperty(sch) \cup Transitive(sch) \cup PropertyChain(sch)
    \cup DomainClass(sch) \cup RangeClass(sch)

\* RelMeta::is_empty: no declared edge type has a semantic clause.
RelMetaEmpty(sch) == \A p \in EdgeType : sch[p] = {}

\* What popping fact f from the worklist derives: every rule with f among its
\* premises and the other premise found by a neighbour scan of the store.
Derivable(sch, f, store) ==
  {r \in RelMeta(sch) : f \in r.prem /\ r.prem \subseteq store}

\* No rule has its premises in S and its conclusion outside.
Closed(sch, S) ==
  \A r \in RelMeta(sch) : r.prem \subseteq S => r.concl \in S

-----------------------------------------------------------------------------
(* The space.                                                              *)

ASSUME FenceAssumption ==
  /\ Vid \subseteq Nat
  /\ Ops \subseteq {"Read", "Check", "Dml", "Ddl", "Repair", "DropSpace"}
  /\ Assertable \subseteq Edge
  /\ Catalog \subseteq EdgeType \X SUBSET Axiom
  /\ Cap \in Nat
  /\ Relaxed \in BOOLEAN
  /\ MaxOrphans \in Nat

VARIABLES
  kv,       \* committed contents of the space
  disk,     \* what a crash falls back to
  queue,    \* requests waiting for the space lock, in arrival order
  pc,       \* where each request stands
  op,       \* what it executes
  work,     \* run_materialization: worklist of the rebuild in progress
  fire,     \* run_materialization: derivations of the popped edge
  written,  \* run_materialization: derived facts charged so far
  orphans   \* batches of cancelled requests that have yet to commit

vars == <<kv, disk, queue, pc, op, work, fire, written, orphans>>

\* The keys of the space: edge schemas, asserted and inferred records of the
\* edge keyspace (one key per triple), vertex types, provenance, the marker.
KV == [declared : SUBSET EdgeType, schema : Schema, asserted : SUBSET Edge,
       inferred : SUBSET Fact, prov : SUBSET Justification, dirty : BOOLEAN]

EmptyKV == [declared |-> {}, schema |-> [t \in EdgeType |-> {}],
            asserted |-> {}, inferred |-> {}, prov |-> {}, dirty |-> FALSE]

Stored(k) == k.asserted \cup k.inferred

-----------------------------------------------------------------------------
(* KVStore::batch_apply.  A batch puts, then deletes, in one transaction.  *)

Batch == [assert : SUBSET Edge, infer : SUBSET Fact, delete : SUBSET Fact,
          justify : SUBSET Justification, retract : SUBSET Justification,
          declare : SUBSET (EdgeType \X SUBSET Axiom), undeclare : SUBSET EdgeType,
          mark : {"keep", "set", "unset"}]

NoWrites == [assert |-> {}, infer |-> {}, delete |-> {}, justify |-> {},
             retract |-> {}, declare |-> {}, undeclare |-> {},
             mark |-> "keep"]

Apply(k, b) ==
  [declared |-> (k.declared \cup {d[1] : d \in b.declare}) \ b.undeclare,
   schema   |-> [t \in EdgeType |->
                   IF t \in b.undeclare THEN {}
                   ELSE IF t \in {d[1] : d \in b.declare}
                     THEN UNION {d[2] : d \in {d \in b.declare : d[1] = t}}
                     ELSE k.schema[t]],
   asserted |-> ((k.asserted \cup b.assert) \ b.infer) \ b.delete,
   inferred |-> ((k.inferred \ b.assert) \cup b.infer) \ b.delete,
   prov     |-> (k.prov \cup b.justify) \ b.retract,
   dirty    |-> b.mark = "set" \/ (b.mark = "keep" /\ k.dirty)]

\* A commit reaches the disk at once unless durability is relaxed.
Commit(b) ==
  /\ kv' = Apply(kv, b)
  /\ disk' = kv' \/ (Relaxed /\ disk' = disk)

-----------------------------------------------------------------------------
(* The batches of each statement.                                          *)

\* Mutant: the marker is forgotten.
FenceForgotten(k) == "keep"

\* fence_semantic_batch.
Fence(k) == IF RelMetaEmpty(k.schema) THEN "keep" ELSE "set"

\* INSERT EDGE, UPDATE EDGE (which promotes an inferred edge), DELETE EDGE
\* (which refuses an edge that is only inferred), and vertex DML or ALTER,
\* which change no edge but raise the marker.
InsertBatches(k) ==
  {[NoWrites EXCEPT !.assert = es, !.mark = Fence(k)] :
      es \in {es \in SUBSET Assertable :
                 es # {} /\ \A e \in es : e[2] \in k.declared}}

UpdateBatches(k) ==
  {[NoWrites EXCEPT !.assert = {e}, !.mark = Fence(k)] :
      e \in {e \in Stored(k) \cap Assertable : e[2] \in k.declared}}

DeleteBatches(k) ==
  {[NoWrites EXCEPT !.delete = es, !.mark = Fence(k)] :
      es \in (SUBSET k.asserted) \ {{}}}

VertexBatches(k) == {[NoWrites EXCEPT !.mark = Fence(k)]}

DmlBatches(k) ==
  InsertBatches(k) \cup UpdateBatches(k) \cup DeleteBatches(k) \cup VertexBatches(k)

\* CREATE EDGE and DROP EDGE raise the marker whatever the flags are.  The
\* edge types that the clauses of CREATE EDGE name must exist.
CreateEdgeBatches(k) ==
  {[NoWrites EXCEPT !.declare = {d}, !.mark = "set"] :
      d \in {d \in Catalog : /\ d[1] \notin k.declared
                            /\ Targets(d[2]) \subseteq k.declared}}

DropEdgeBatches(k) ==
  {[NoWrites EXCEPT !.undeclare = {t}, !.mark = "set"] : t \in k.declared}

DdlBatches(k) ==
  CreateEdgeBatches(k) \cup DropEdgeBatches(k) \cup VertexBatches(k)

\* Mutant: stale justifications survive.
ClearBatchKeepsProv(k) == [NoWrites EXCEPT !.delete = k.inferred]

\* The first batch of rematerialize_space: all derived state goes.
ClearBatch(k) ==
  [NoWrites EXCEPT !.delete = k.inferred, !.retract = k.prov]

\* One derived fact with its justification; an edge that exists already, at
\* whatever origin, only gains the justification.
DeriveBatch(k, r) ==
  [NoWrites EXCEPT !.infer = {r.concl} \ Stored(k), !.justify = {r}]

UnmarkBatch == [NoWrites EXCEPT !.mark = "unset"]

\* delete_prefix_chunked over `{space}:`, in key order: edges by source first,
\* then the marker, provenance and vertex types; then `space:{space}:`.
DropChunks(k) ==
  LET edges == Stored(k) \cap Edge
  IN CASE edges # {} ->
            {[NoWrites EXCEPT !.delete = {e \in edges : e[1] <= v}] :
                v \in {e[1] : e \in edges}}
       [] edges = {} /\ (k.inferred # {} \/ k.prov # {}) ->
            {[NoWrites EXCEPT !.delete = k.inferred, !.retract = k.prov,
                              !.mark = "unset"]}
       [] OTHER -> {[NoWrites EXCEPT !.undeclare = k.declared]}

Purged(k) == Stored(k) = {} /\ k.prov = {}

-----------------------------------------------------------------------------
Init ==
  /\ kv = EmptyKV
  /\ disk = EmptyKV
  /\ queue = <<>>
  /\ pc = [c \in Client |-> "idle"]
  /\ op = [c \in Client |-> "None"]
  /\ work = {} /\ fire = {} /\ written = 0
  /\ orphans = {}

\* Mutant: a repair is scoped as a query.
IsMutationNotRepair(o) == o \notin {"Read", "Check", "Repair"}

\* inference_scope.
IsMutation(o) == o \notin {"Read", "Check"}

Holders == {c \in Client : pc[c] \notin {"idle", "queued"}}

Goto(c, from, to) ==
  /\ pc[c] = from
  /\ pc' = [pc EXCEPT ![c] = to]
  /\ UNCHANGED <<queue, op>>

\* The guards are dropped when execute returns.
Return(c) ==
  /\ pc' = [pc EXCEPT ![c] = "idle"]
  /\ op' = [op EXCEPT ![c] = "None"]
  /\ UNCHANGED queue

Request(c, o) ==
  /\ pc[c] = "idle"
  /\ pc' = [pc EXCEPT ![c] = "queued"]
  /\ op' = [op EXCEPT ![c] = o]
  /\ queue' = Append(queue, c)
  /\ UNCHANGED <<kv, disk, work, fire, written, orphans>>

\* The space lock is a tokio RwLock: first come, first served, and a waiting
\* writer is not overtaken by later readers.
Grant(c) ==
  /\ queue # <<>> /\ Head(queue) = c
  /\ pc[c] = "queued"
  /\ \A h \in Holders : ~IsMutation(op[c]) /\ ~IsMutation(op[h])
  /\ queue' = Tail(queue)
  /\ pc' = [pc EXCEPT ![c] = "granted"]
  /\ UNCHANGED <<kv, disk, op, work, fire, written, orphans>>

\* ensure_inference_clean fails the statement.
Refuse(c) ==
  /\ pc[c] = "granted" /\ op[c] \notin {"Check", "Repair"} /\ kv.dirty
  /\ Return(c)
  /\ UNCHANGED <<kv, disk, work, fire, written, orphans>>

StartRead(c) ==
  /\ op[c] = "Read" /\ ~kv.dirty
  /\ Goto(c, "granted", "reading")
  /\ UNCHANGED <<kv, disk, work, fire, written, orphans>>

EndRead(c) ==
  /\ \/ pc[c] = "reading"
     \/ pc[c] = "granted" /\ op[c] = "Check"
  /\ Return(c)
  /\ UNCHANGED <<kv, disk, work, fire, written, orphans>>

\* execute_dml_atomically: the staged statement commits as one batch.
CommitDml(c) ==
  /\ op[c] = "Dml" /\ ~kv.dirty
  /\ \E b \in DmlBatches(kv) : Commit(b)
  /\ Goto(c, "granted", "committed")
  /\ UNCHANGED <<work, fire, written, orphans>>

CommitDdl(c) ==
  /\ op[c] = "Ddl" /\ ~kv.dirty
  /\ \E b \in DdlBatches(kv) : Commit(b)
  /\ Goto(c, "granted", "committed")
  /\ UNCHANGED <<work, fire, written, orphans>>

\* UPDATE of a missing edge, a WHEN that is false, IF [NOT] EXISTS: no batch.
NoEffect(c) ==
  /\ op[c] \in {"Dml", "Ddl"} /\ ~kv.dirty
  /\ Goto(c, "granted", "committed")
  /\ UNCHANGED <<kv, disk, work, fire, written, orphans>>

\* The tail of execute: rebuild if the statement left the marker.
AfterCommit(c) ==
  /\ pc[c] = "committed"
  /\ \/ kv.dirty /\ Goto(c, "committed", "rebuild")
     \/ ~kv.dirty /\ Return(c)
  /\ UNCHANGED <<kv, disk, work, fire, written, orphans>>

\* REPAIR INFERENCE by an administrator raises the marker first.
StartRepair(c) ==
  /\ op[c] = "Repair"
  /\ Commit([NoWrites EXCEPT !.mark = "set"])
  /\ Goto(c, "granted", "rebuild")
  /\ UNCHANGED <<work, fire, written, orphans>>

\* rematerialize_space: drop derived state, seed the worklist with assertions.
ClearDerived(c) ==
  /\ Commit(ClearBatch(kv))
  /\ work' = kv.asserted /\ fire' = {} /\ written' = 0
  /\ Goto(c, "rebuild", "derive")
  /\ UNCHANGED orphans

\* run_materialization pops an edge and collects what it derives.
PopEdge(c) ==
  /\ pc[c] = "derive" /\ fire = {}
  /\ \E f \in work :
       /\ work' = work \ {f}
       /\ fire' = Derivable(kv.schema, f, Stored(kv))
  /\ UNCHANGED <<kv, disk, queue, pc, op, written, orphans>>

IsNew(k, r) == r.concl \notin Stored(k)

\* charge_inference: a further new fact is over the budget.
OverBudget(k, r) == IsNew(k, r) /\ Cap # 0 /\ written >= Cap

\* Mutant: an edge that exists joins the worklist again.
WriteDerivedAgain(c) ==
  /\ pc[c] = "derive"
  /\ \E r \in fire :
       /\ ~OverBudget(kv, r)
       /\ Commit(DeriveBatch(kv, r))
       /\ fire' = fire \ {r}
       /\ written' = IF IsNew(kv, r) THEN written + 1 ELSE written
       /\ work' = work \cup ({r.concl} \cap Edge)
  /\ UNCHANGED <<queue, pc, op, orphans>>

\* Writes one derivation; a new edge joins the worklist.
WriteDerived(c) ==
  /\ pc[c] = "derive"
  /\ \E r \in fire :
       /\ ~OverBudget(kv, r)
       /\ Commit(DeriveBatch(kv, r))
       /\ fire' = fire \ {r}
       /\ IF IsNew(kv, r)
            THEN /\ written' = written + 1
                 /\ work' = work \cup ({r.concl} \cap Edge)
            ELSE UNCHANGED <<written, work>>
  /\ UNCHANGED <<queue, pc, op, orphans>>

\* ResourceExhausted: the statement fails and the marker stays.
ExceedBudget(c) ==
  /\ pc[c] = "derive"
  /\ \E r \in fire : OverBudget(kv, r)
  /\ Return(c)
  /\ work' = {} /\ fire' = {} /\ written' = 0
  /\ UNCHANGED <<kv, disk, orphans>>

FinishDerive(c) ==
  /\ work = {} /\ fire = {}
  /\ Goto(c, "derive", "clear")
  /\ UNCHANGED <<kv, disk, work, fire, written, orphans>>

\* The closure is complete: delete the marker and return.
ClearMarker(c) ==
  /\ pc[c] = "clear"
  /\ Commit(UnmarkBatch)
  /\ Return(c)
  /\ written' = 0
  /\ UNCHANGED <<work, fire, orphans>>

\* DROP SPACE purges the space chunk by chunk, without raising the marker.
StartDrop(c) ==
  /\ op[c] = "DropSpace" /\ ~kv.dirty
  /\ Goto(c, "granted", "drop")
  /\ UNCHANGED <<kv, disk, work, fire, written, orphans>>

DropChunk(c) ==
  /\ pc[c] = "drop"
  /\ \E b \in DropChunks(kv) : Commit(b)
  /\ IF Purged(kv) THEN Return(c) ELSE UNCHANGED <<queue, pc, op>>
  /\ UNCHANGED <<work, fire, written, orphans>>

-----------------------------------------------------------------------------
(* Cancellation, errors and crashes.                                       *)

\* The worklist is local to the future of the request.
Forget(c) ==
  IF pc[c] \in {"derive", "clear"}
    THEN work' = {} /\ fire' = {} /\ written' = 0
    ELSE UNCHANGED <<work, fire, written>>

\* The waiting line after c leaves it.
Without(q, c) ==
  LET i == CHOOSE j \in 1 .. Len(q) : q[j] = c
  IN [j \in 1 .. (Len(q) - 1) |-> IF j < i THEN q[j] ELSE q[j + 1]]

\* The request is cancelled or fails between two batches.
Abort(c) ==
  /\ pc[c] # "idle"
  /\ pc' = [pc EXCEPT ![c] = "idle"]
  /\ op' = [op EXCEPT ![c] = "None"]
  /\ queue' = IF pc[c] = "queued" THEN Without(queue, c) ELSE queue
  /\ Forget(c)
  /\ UNCHANGED <<kv, disk, orphans>>

\* The batch a request may have handed to the store when it is cancelled.
Submitted(c) ==
  CASE pc[c] = "granted" /\ op[c] = "Dml" /\ ~kv.dirty -> DmlBatches(kv)
    [] pc[c] = "granted" /\ op[c] = "Ddl" /\ ~kv.dirty -> DdlBatches(kv)
    [] pc[c] = "granted" /\ op[c] = "Repair" -> {[NoWrites EXCEPT !.mark = "set"]}
    [] pc[c] = "rebuild" -> {ClearBatch(kv)}
    [] pc[c] = "derive" -> {DeriveBatch(kv, r) : r \in fire}
    [] pc[c] = "clear" -> {UnmarkBatch}
    [] pc[c] = "drop" -> DropChunks(kv)
    [] OTHER -> {}

\* RedbKVStore runs each write with spawn_blocking: dropping the request frees
\* the space lock, but the write goes on and commits later.
Detach(c) ==
  /\ Cardinality(orphans) < MaxOrphans
  /\ \E b \in Submitted(c) : orphans' = orphans \cup {b}
  /\ Return(c)
  /\ Forget(c)
  /\ UNCHANGED <<kv, disk>>

LandOrphan ==
  /\ \E b \in orphans : Commit(b) /\ orphans' = orphans \ {b}
  /\ UNCHANGED <<queue, pc, op, work, fire, written>>

\* The process dies and restarts on what is on disk.
Crash ==
  /\ kv' = disk
  /\ queue' = <<>>
  /\ pc' = [c \in Client |-> "idle"]
  /\ op' = [c \in Client |-> "None"]
  /\ work' = {} /\ fire' = {} /\ written' = 0
  /\ orphans' = {}
  /\ UNCHANGED disk

\* What a request does without outside interference.
Proceed(c) ==
  \/ Grant(c) \/ Refuse(c) \/ StartRead(c) \/ EndRead(c)
  \/ CommitDml(c) \/ CommitDdl(c) \/ NoEffect(c) \/ AfterCommit(c) \/ StartRepair(c)
  \/ ClearDerived(c) \/ PopEdge(c) \/ WriteDerived(c) \/ ExceedBudget(c)
  \/ FinishDerive(c) \/ ClearMarker(c) \/ StartDrop(c) \/ DropChunk(c)

Next ==
  \/ \E c \in Client :
       \/ \E o \in Ops : Request(c, o)
       \/ Proceed(c) \/ Abort(c) \/ Detach(c)
  \/ LandOrphan
  \/ Crash

Spec == Init /\ [][Next]_vars

\* The runtime keeps polling a request that can go on, and submitted writes
\* eventually commit.
FairSpec ==
  Spec /\ (\A c \in Client : WF_vars(Proceed(c))) /\ WF_vars(LandOrphan)

-----------------------------------------------------------------------------
(* Properties.                                                             *)

TypeOK ==
  /\ kv \in KV /\ disk \in KV
  /\ queue \in Seq(Client)
  /\ pc \in [Client -> {"idle", "queued", "granted", "reading", "committed",
                        "rebuild", "derive", "clear", "drop"}]
  /\ op \in [Client -> Ops \cup {"None"}]
  /\ work \in SUBSET Edge
  /\ fire \in SUBSET Justification
  /\ written \in Nat
  /\ orphans \in SUBSET Batch

\* The derived facts are the closure of the assertions: no rule is left to
\* apply, no smaller set of derived facts would do, and the justifications
\* that EXPLAIN INFERENCE reads are all the derivations there are.
Complete(k) ==
  /\ k.asserted \cap k.inferred = {}
  /\ Closed(k.schema, Stored(k))
  /\ \A X \in SUBSET k.inferred :
        Closed(k.schema, k.asserted \cup X) => X = k.inferred
  /\ k.prov = {r \in RelMeta(k.schema) : r.prem \subseteq Stored(k)}

\* The fence: a space without the dirty marker has a complete closure, at
\* every moment, whatever was cancelled, failed or crashed before
\* (inference_recovery.rs: "a new request/process cannot mistake partial
\* derivation for a complete graph").
CleanMeansComplete == ~kv.dirty => Complete(kv)

\* A rebuild that reaches the point of deleting the marker has computed the
\* closure, even if it started from the remains of an interrupted DROP SPACE.
CompleteBeforeUnmark == \A c \in Client : pc[c] = "clear" => Complete(kv)

\* The inference budget counts exactly the derived facts: a closure of exactly
\* Cap facts succeeds and no more than Cap are ever derived
\* (charge_inference).
BudgetExact ==
  \A c \in Client : pc[c] \in {"derive", "clear"} =>
     /\ written = Cardinality(kv.inferred)
     /\ Cap # 0 => written <= Cap

\* A rebuild has counted exactly what it derived against the budget, and has
\* computed the closure when it is about to delete the marker
\* (rematerialize_space, charge_inference).
RebuildExact == CompleteBeforeUnmark /\ BudgetExact

\* A query sees one state of the space from its first page to its last
\* (execute holds the read lock for the whole statement).
ReadersUndisturbed ==
  [][\A c \in Client :
       pc[c] = "reading" /\ pc'[c] = "reading" => kv' = kv]_vars

\* Every statement that waits for the space lock returns: the lock is handed
\* on, and the worklist of a rebuild runs dry even when rules are cyclic.
EveryStatementReturns ==
  \A c \in Client : pc[c] = "queued" ~> pc[c] = "idle"

-----------------------------------------------------------------------------
(* The inductive invariant behind these properties.                        *)

\* No write of a cancelled request is outstanding.
NoneLeft == orphans = {}

\* A triple has one record, asserted or inferred.
OneRecord == \A k \in {kv, disk} : k.asserted \cap k.inferred = {}

\* The write lock excludes every other statement of the space.
Exclusion ==
  /\ \A c, h \in Holders : c # h => ~IsMutation(op[c]) /\ ~IsMutation(op[h])
  /\ \A c \in Client :
       /\ pc[c] = "reading" => ~IsMutation(op[c])
       /\ pc[c] \in {"committed", "rebuild", "derive", "clear", "drop"} =>
             IsMutation(op[c])

\* No derived fact can be left out: a part of them that the rules do not leave
\* is all of them.
Founded(k) ==
  \A X \in SUBSET k.inferred :
     (\A r \in RelMeta(k.schema) :
         r.prem \subseteq k.asserted \cup X /\ r.concl \in Stored(k) =>
            r.concl \in k.asserted \cup X)
     => X = k.inferred

\* A rule whose premises are stored and none of them is still to be popped has
\* been applied, or is about to be.
FrontierDone ==
  \A r \in RelMeta(kv.schema) :
     r.prem \subseteq Stored(kv) /\ r.prem \cap work = {} =>
        (r \in kv.prov /\ r.concl \in Stored(kv)) \/ r \in fire

Deriving ==
  /\ kv.asserted \cap kv.inferred = {}
  /\ Founded(kv)
  /\ work \subseteq Stored(kv)
  /\ fire \cup kv.prov \subseteq {r \in RelMeta(kv.schema) : r.prem \subseteq Stored(kv)}
  /\ FrontierDone

RebuildInv ==
  \A c \in Client :
     /\ pc[c] \in {"rebuild", "derive", "clear"} => kv.dirty
     /\ pc[c] = "derive" => Deriving
     /\ pc[c] = "clear" => Complete(kv)

\* Both the store and its durable part are fenced.
Fenced(k) == ~k.dirty => Complete(k)

FenceInv ==
  /\ Fenced(kv) /\ Fenced(disk)
  /\ \A c \in Client : pc[c] # "drop"
=============================================================================
