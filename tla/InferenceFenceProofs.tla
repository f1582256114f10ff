------------------------ MODULE InferenceFenceProofs ------------------------
(* Theorems about InferenceFence, for every set of vertices, edge types,    *)
(* declarations, assertions and clients, every budget and durability.       *)
EXTENDS InferenceFence, FiniteSetTheorems, TLAPS

-----------------------------------------------------------------------------
(* The rules.                                                              *)

\* A rule instance is a justification with at least one premise.
LEMMA InferType ==
  ASSUME NEW kind \in RuleKind, NEW P \in SUBSET Edge, P # {}, NEW f \in Fact
  PROVE  Infer(kind, P, f) \in Justification /\ Infer(kind, P, f).prem # {}
BY DEF Infer, Justification

\* Every rule is a justification with at least one premise.
LEMMA EdgeRuleType ==
  ASSUME NEW s \in Vid, NEW d \in Vid, NEW p \in EdgeType, NEW q \in EdgeType,
         NEW r \in {SymmetricRule(s, p, d), InverseRule(s, p, q, d),
                    SubRule(s, p, q, d), EquivalentRule(s, p, q, d)}
  PROVE  r \in Justification /\ r.prem # {}
<1>1. /\ {<<s, p, d>>} \in SUBSET Edge
      /\ <<d, p, s>> \in Fact /\ <<d, q, s>> \in Fact /\ <<s, q, d>> \in Fact
  BY DEF Edge, Fact
<1>2. QED
  BY <1>1, InferType
     DEF SymmetricRule, InverseRule, SubRule, EquivalentRule, RuleKind

LEMMA TransitiveRuleType ==
  ASSUME NEW s \in Vid, NEW m \in Vid, NEW d \in Vid, NEW p \in EdgeType
  PROVE  LET r == TransitiveRule(s, p, m, d)
         IN r \in Justification /\ r.prem # {}
<1>1. {<<s, p, m>>, <<m, p, d>>} \in SUBSET Edge /\ <<s, p, d>> \in Fact
  BY DEF Edge, Fact
<1>2. QED
  BY <1>1, InferType DEF TransitiveRule, RuleKind

LEMMA ChainRuleType ==
  ASSUME NEW s \in Vid, NEW m \in Vid, NEW d \in Vid,
         NEW p \in EdgeType, NEW q \in EdgeType, NEW t \in EdgeType
  PROVE  LET r == ChainRule(s, p, m, q, d, t)
         IN r \in Justification /\ r.prem # {}
<1>1. {<<s, p, m>>, <<m, q, d>>} \in SUBSET Edge /\ <<s, t, d>> \in Fact
  BY DEF Edge, Fact
<1>2. QED
  BY <1>1, InferType DEF ChainRule, RuleKind

LEMMA ClassRuleType ==
  ASSUME NEW s \in Vid, NEW d \in Vid, NEW p \in EdgeType, NEW c \in Class,
         NEW r \in {DomainRule(s, p, d, c), RangeRule(s, p, d, c)}
  PROVE  r \in Justification /\ r.prem # {}
<1>1. {<<s, p, d>>} \in SUBSET Edge /\ <<s, c>> \in Fact /\ <<d, c>> \in Fact
  BY DEF Edge, VType, Fact
<1>2. QED
  BY <1>1, InferType DEF DomainRule, RangeRule, RuleKind

LEMMA RelMetaType ==
  ASSUME NEW sch \in Schema, NEW r \in RelMeta(sch)
  PROVE  r \in Justification /\ r.prem # {}
<1>1. CASE r \in Symmetric(sch)
  <2>1. PICK p \in EdgeType, s \in Vid, d \in Vid : r = SymmetricRule(s, p, d)
    BY <1>1 DEF Symmetric, Declaring
  <2>2. QED
    BY <2>1, EdgeRuleType
<1>2. CASE r \in InverseOf(sch)
  <2>1. Related(sch, "inverseOf") \subseteq EdgeType \X EdgeType
    BY DEF Related
  <2>2. PICK pq \in EdgeType \X EdgeType, s \in Vid, d \in Vid :
           r = InverseRule(s, pq[1], pq[2], d) \/ r = InverseRule(s, pq[2], pq[1], d)
    BY <1>2, <2>1 DEF InverseOf
  <2>3. QED
    BY <2>2, EdgeRuleType
<1>3. CASE r \in SubPropertyOf(sch)
  <2>1. Related(sch, "subPropertyOf") \subseteq EdgeType \X EdgeType
    BY DEF Related
  <2>2. PICK pq \in EdgeType \X EdgeType, s \in Vid, d \in Vid :
           r = SubRule(s, pq[1], pq[2], d)
    BY <1>3, <2>1 DEF SubPropertyOf
  <2>3. QED
    BY <2>2, EdgeRuleType
<1>4. CASE r \in EquivalentProperty(sch)
  <2>1. Related(sch, "equivalentTo") \subseteq EdgeType \X EdgeType
    BY DEF Related
  <2>2. PICK pq \in EdgeType \X EdgeType, s \in Vid, d \in Vid :
           r = EquivalentRule(s, pq[1], pq[2], d) \/ r = EquivalentRule(s, pq[2], pq[1], d)
    BY <1>4, <2>1 DEF EquivalentProperty
  <2>3. QED
    BY <2>2, EdgeRuleType
<1>5. CASE r \in Transitive(sch)
  <2>1. PICK p \in EdgeType, s \in Vid, m \in Vid, d \in Vid :
           r = TransitiveRule(s, p, m, d)
    BY <1>5 DEF Transitive, Declaring
  <2>2. QED
    BY <2>1, TransitiveRuleType
<1>6. CASE r \in PropertyChain(sch)
  <2>1. Chains(sch) \subseteq EdgeType \X EdgeType \X EdgeType
    BY DEF Chains
  <2>2. PICK c \in EdgeType \X EdgeType \X EdgeType, s \in Vid, m \in Vid, d \in Vid :
           r = ChainRule(s, c[2], m, c[3], d, c[1])
    BY <1>6, <2>1 DEF PropertyChain
  <2>3. c[1] \in EdgeType /\ c[2] \in EdgeType /\ c[3] \in EdgeType
    BY <2>2
  <2>4. QED
    BY <2>2, <2>3, ChainRuleType
<1>7. CASE r \in DomainClass(sch)
  <2>1. Typed(sch, "domain") \subseteq EdgeType \X Class
    BY DEF Typed
  <2>2. PICK tc \in EdgeType \X Class, s \in Vid, d \in Vid :
           r = DomainRule(s, tc[1], d, tc[2])
    BY <1>7, <2>1 DEF DomainClass
  <2>3. QED
    BY <2>2, ClassRuleType
<1>8. CASE r \in RangeClass(sch)
  <2>1. Typed(sch, "range") \subseteq EdgeType \X Class
    BY DEF Typed
  <2>2. PICK tc \in EdgeType \X Class, s \in Vid, d \in Vid :
           r = RangeRule(s, tc[1], d, tc[2])
    BY <1>8, <2>1 DEF RangeClass
  <2>3. QED
    BY <2>2, ClassRuleType
<1>9. QED
  BY <1>1, <1>2, <1>3, <1>4, <1>5, <1>6, <1>7, <1>8 DEF RelMeta

\* Without a semantic clause nothing is entailed.
LEMMA NoAxiomsNoRules ==
  ASSUME NEW sch \in Schema, RelMetaEmpty(sch)
  PROVE  RelMeta(sch) = {}
<1>1. /\ Declaring(sch, <<"symmetric">>) = {}
      /\ Declaring(sch, <<"transitive">>) = {}
  BY DEF Declaring, RelMetaEmpty
<1>2. /\ Related(sch, "inverseOf") = {} /\ Related(sch, "subPropertyOf") = {}
      /\ Related(sch, "equivalentTo") = {} /\ Chains(sch) = {}
      /\ Typed(sch, "domain") = {} /\ Typed(sch, "range") = {}
  BY DEF Related, Chains, Typed, RelMetaEmpty
<1>3. QED
  BY <1>1, <1>2 DEF RelMeta, Symmetric, InverseOf, SubPropertyOf,
     EquivalentProperty, Transitive, PropertyChain, DomainClass, RangeClass

-----------------------------------------------------------------------------
(* Type correctness.                                                       *)

LEMMA ApplyType ==
  ASSUME NEW k \in KV, NEW b \in Batch
  PROVE  Apply(k, b) \in KV
<1>1. /\ (k.declared \cup {d[1] : d \in b.declare}) \ b.undeclare \in SUBSET EdgeType
      /\ ((k.asserted \cup b.assert) \ b.infer) \ b.delete \in SUBSET Edge
      /\ ((k.inferred \ b.assert) \cup b.infer) \ b.delete \in SUBSET Fact
      /\ (k.prov \cup b.justify) \ b.retract \in SUBSET Justification
      /\ (b.mark = "set" \/ (b.mark = "keep" /\ k.dirty)) \in BOOLEAN
  BY DEF KV, Batch, Fact
<1>2. ASSUME NEW t \in EdgeType
      PROVE  UNION {d[2] : d \in {d \in b.declare : d[1] = t}} \in SUBSET Axiom
  BY DEF Batch
<1>3. \A t \in EdgeType : k.schema[t] \in SUBSET Axiom
  BY DEF KV, Schema
<1>4. [t \in EdgeType |->
         IF t \in b.undeclare THEN {}
         ELSE IF t \in {d[1] : d \in b.declare}
           THEN UNION {d[2] : d \in {d \in b.declare : d[1] = t}}
           ELSE k.schema[t]] \in Schema
  BY <1>2, <1>3 DEF Schema
<1>5. QED
  BY <1>1, <1>4 DEF Apply, KV

LEMMA CommitType ==
  ASSUME kv \in KV, disk \in KV, NEW b \in Batch, Commit(b)
  PROVE  kv' \in KV /\ disk' \in KV
BY ApplyType DEF Commit

LEMMA NoWritesType == NoWrites \in Batch
BY DEF NoWrites, Batch

LEMMA MarkType ==
  ASSUME NEW m \in {"keep", "set", "unset"}
  PROVE  [NoWrites EXCEPT !.mark = m] \in Batch
BY DEF NoWrites, Batch

LEMMA DmlBatchesType ==
  ASSUME NEW k \in KV
  PROVE  DmlBatches(k) \subseteq Batch
<1>1. Fence(k) \in {"keep", "set", "unset"}
  BY DEF Fence
<1>2. InsertBatches(k) \subseteq Batch
  BY <1>1, FenceAssumption DEF InsertBatches, NoWrites, Batch
<1>3. UpdateBatches(k) \subseteq Batch
  <2>1. ASSUME NEW e \in Assertable
        PROVE  [NoWrites EXCEPT !.assert = {e}, !.mark = Fence(k)] \in Batch
    BY <1>1, FenceAssumption DEF NoWrites, Batch
  <2>2. QED
    BY <2>1, Zenon DEF UpdateBatches
<1>4. DeleteBatches(k) \subseteq Batch
  BY <1>1 DEF DeleteBatches, NoWrites, Batch, KV, Fact
<1>5. VertexBatches(k) \subseteq Batch
  BY <1>1, MarkType DEF VertexBatches
<1>6. QED
  BY <1>2, <1>3, <1>4, <1>5 DEF DmlBatches

LEMMA DdlBatchesType ==
  ASSUME NEW k \in KV
  PROVE  DdlBatches(k) \subseteq Batch
<1>1. CreateEdgeBatches(k) \subseteq Batch
  <2>1. ASSUME NEW d \in Catalog
        PROVE  [NoWrites EXCEPT !.declare = {d}, !.mark = "set"] \in Batch
    BY FenceAssumption DEF NoWrites, Batch
  <2>2. QED
    BY <2>1, Zenon DEF CreateEdgeBatches
<1>2. DropEdgeBatches(k) \subseteq Batch
  <2>1. ASSUME NEW t \in k.declared
        PROVE  [NoWrites EXCEPT !.undeclare = {t}, !.mark = "set"] \in Batch
    BY DEF NoWrites, Batch, KV
  <2>2. QED
    BY <2>1, Zenon DEF DropEdgeBatches
<1>3. VertexBatches(k) \subseteq Batch
  BY MarkType DEF VertexBatches, Fence
<1>4. QED
  BY <1>1, <1>2, <1>3 DEF DdlBatches

LEMMA ClearBatchType ==
  ASSUME NEW k \in KV
  PROVE  ClearBatch(k) \in Batch
BY DEF ClearBatch, NoWrites, Batch, KV

LEMMA DeriveBatchType ==
  ASSUME NEW k \in KV, NEW r \in Justification
  PROVE  DeriveBatch(k, r) \in Batch
BY DEF DeriveBatch, NoWrites, Batch, Justification

LEMMA DropChunksType ==
  ASSUME NEW k \in KV
  PROVE  DropChunks(k) \subseteq Batch
<1> DEFINE edges == Stored(k) \cap Edge
<1>1. {[NoWrites EXCEPT !.delete = {e \in edges : e[1] <= v}] :
          v \in {e[1] : e \in edges}} \subseteq Batch
  BY DEF NoWrites, Batch, Fact
<1>2. [NoWrites EXCEPT !.delete = k.inferred, !.retract = k.prov,
                       !.mark = "unset"] \in Batch
  BY DEF NoWrites, Batch, KV
<1>3. [NoWrites EXCEPT !.undeclare = k.declared] \in Batch
  BY DEF NoWrites, Batch, KV
<1>4. QED
  BY <1>1, <1>2, <1>3 DEF DropChunks

LEMMA WithoutType ==
  ASSUME NEW q \in Seq(Client), NEW c \in Client
  PROVE  Without(q, c) \in Seq(Client)
<1> DEFINE i == CHOOSE j \in 1 .. Len(q) : q[j] = c
           w == [j \in 1 .. (Len(q) - 1) |-> IF j < i THEN q[j] ELSE q[j + 1]]
<1>1. CASE q = <<>>
  <2>1. 1 .. (Len(q) - 1) = {}
    BY <1>1
  <2>2. w = <<>>
    BY <2>1
  <2>3. QED
    BY <2>2 DEF Without
<1>2. CASE q # <<>>
  <2>1. Len(q) \in Nat \ {0}
    BY <1>2
  <2>2. \A j \in 1 .. (Len(q) - 1) : q[j] \in Client /\ q[j + 1] \in Client
    BY <2>1
  <2>3. w \in [1 .. (Len(q) - 1) -> Client]
    BY <2>2
  <2>4. Len(q) - 1 \in Nat
    BY <2>1
  <2>5. QED
    BY <2>3, <2>4 DEF Without
<1>3. QED
  BY <1>1, <1>2

LEMMA ReturnType ==
  ASSUME TypeOK, NEW c \in Client, Return(c)
  PROVE  /\ queue' \in Seq(Client)
         /\ pc' \in [Client -> {"idle", "queued", "granted", "reading", "committed",
                                "rebuild", "derive", "clear", "drop"}]
         /\ op' \in [Client -> Ops \cup {"None"}]
BY DEF TypeOK, Return

LEMMA ForgetType ==
  ASSUME TypeOK, NEW c \in Client, Forget(c)
  PROVE  work' \in SUBSET Edge /\ fire' \in SUBSET Justification /\ written' \in Nat
BY DEF TypeOK, Forget

LEMMA SubmittedType ==
  ASSUME TypeOK, NEW c \in Client
  PROVE  Submitted(c) \subseteq Batch
<1>1. DmlBatches(kv) \subseteq Batch /\ DdlBatches(kv) \subseteq Batch
      /\ DropChunks(kv) \subseteq Batch
  BY DmlBatchesType, DdlBatchesType, DropChunksType DEF TypeOK
<1>2. {ClearBatch(kv)} \subseteq Batch
  BY ClearBatchType DEF TypeOK
<1>3. {DeriveBatch(kv, r) : r \in fire} \subseteq Batch
  BY DeriveBatchType DEF TypeOK
<1>4. {[NoWrites EXCEPT !.mark = "set"]} \subseteq Batch /\ {UnmarkBatch} \subseteq Batch
  BY MarkType DEF UnmarkBatch
<1>5. QED
  BY <1>1, <1>2, <1>3, <1>4 DEF Submitted

\* Every step of a request keeps the types.
LEMMA ProceedType ==
  ASSUME TypeOK, NEW c \in Client, Proceed(c)
  PROVE  TypeOK'
<1> USE DEF TypeOK
<1>1. CASE Grant(c)
  <2>1. queue' \in Seq(Client)
    BY <1>1 DEF Grant
  <2>2. QED
    BY <1>1, <2>1 DEF Grant
<1>2. CASE Refuse(c)
  BY <1>2 DEF Refuse, Return
<1>3. CASE StartRead(c)
  BY <1>3 DEF StartRead, Goto
<1>4. CASE EndRead(c)
  BY <1>4 DEF EndRead, Return
<1>5. CASE CommitDml(c)
  <2>1. PICK b \in DmlBatches(kv) : Commit(b)
    BY <1>5 DEF CommitDml
  <2>2. kv' \in KV /\ disk' \in KV
    BY <2>1, DmlBatchesType, CommitType
  <2>3. QED
    BY <1>5, <2>2 DEF CommitDml, Goto
<1>6. CASE CommitDdl(c)
  <2>1. PICK b \in DdlBatches(kv) : Commit(b)
    BY <1>6 DEF CommitDdl
  <2>2. kv' \in KV /\ disk' \in KV
    BY <2>1, DdlBatchesType, CommitType
  <2>3. QED
    BY <1>6, <2>2 DEF CommitDdl, Goto
<1>7. CASE AfterCommit(c)
  BY <1>7 DEF AfterCommit, Goto, Return
<1>8. CASE StartRepair(c)
  <2>1. kv' \in KV /\ disk' \in KV
    BY <1>8, MarkType, CommitType DEF StartRepair
  <2>2. QED
    BY <1>8, <2>1 DEF StartRepair, Goto
<1>9. CASE ClearDerived(c)
  <2>1. ClearBatch(kv) \in Batch
    BY ClearBatchType
  <2>2. kv' \in KV /\ disk' \in KV
    BY <1>9, <2>1, CommitType DEF ClearDerived
  <2>3. kv.asserted \in SUBSET Edge
    BY DEF KV
  <2>4. QED
    BY <1>9, <2>2, <2>3 DEF ClearDerived, Goto
<1>10. CASE PopEdge(c)
  <2>1. kv.schema \in Schema
    BY DEF KV
  <2>2. \A f : Derivable(kv.schema, f, Stored(kv)) \in SUBSET Justification
    BY <2>1, RelMetaType DEF Derivable
  <2>3. QED
    BY <1>10, <2>2 DEF PopEdge
<1>11. CASE WriteDerived(c)
  <2>1. PICK r \in fire :
           /\ Commit(DeriveBatch(kv, r))
           /\ fire' = fire \ {r}
           /\ IF IsNew(kv, r)
                THEN /\ written' = written + 1
                     /\ work' = work \cup ({r.concl} \cap Edge)
                ELSE UNCHANGED <<written, work>>
    BY <1>11 DEF WriteDerived
  <2>2. kv' \in KV /\ disk' \in KV
    BY <2>1, DeriveBatchType, CommitType
  <2>3. work' \in SUBSET Edge /\ fire' \in SUBSET Justification /\ written' \in Nat
    BY <2>1
  <2>4. QED
    BY <1>11, <2>2, <2>3 DEF WriteDerived
<1>12. CASE ExceedBudget(c)
  BY <1>12 DEF ExceedBudget, Return
<1>13. CASE FinishDerive(c)
  BY <1>13 DEF FinishDerive, Goto
<1>14. CASE ClearMarker(c)
  <2>1. kv' \in KV /\ disk' \in KV
    BY <1>14, MarkType, CommitType DEF ClearMarker, UnmarkBatch
  <2>2. QED
    BY <1>14, <2>1, ReturnType DEF ClearMarker
<1>15. CASE StartDrop(c)
  BY <1>15 DEF StartDrop, Goto
<1>16. CASE DropChunk(c)
  <2>1. PICK b \in DropChunks(kv) : Commit(b)
    BY <1>16 DEF DropChunk
  <2>2. kv' \in KV /\ disk' \in KV
    BY <2>1, DropChunksType, CommitType
  <2>3. QED
    BY <1>16, <2>2, ReturnType DEF DropChunk
<1>17. CASE NoEffect(c)
  BY <1>17 DEF NoEffect, Goto
<1>18. QED
  BY <1>1, <1>2, <1>3, <1>4, <1>5, <1>6, <1>7, <1>8, <1>9, <1>10, <1>11, <1>12, <1>13, <1>14, <1>15, <1>16, <1>17
     DEF Proceed

\* Type correctness, for every instance (cancelled writes, crashes and DROP
\* SPACE included).
THEOREM TypeCorrect == Spec => []TypeOK
<1>1. Init => TypeOK
  BY DEF Init, TypeOK, EmptyKV, KV, Schema
<1>2. ASSUME TypeOK, [Next]_vars
      PROVE  TypeOK'
  <2>1. ASSUME NEW c \in Client, NEW o \in Ops, Request(c, o)
        PROVE  TypeOK'
    BY <1>2, <2>1 DEF TypeOK, Request
  <2>2. ASSUME NEW c \in Client, Proceed(c)
        PROVE  TypeOK'
    BY <1>2, <2>2, ProceedType
  <2>3. ASSUME NEW c \in Client, Abort(c)
        PROVE  TypeOK'
    <3>1. queue' \in Seq(Client)
      BY <1>2, <2>3, WithoutType DEF Abort, TypeOK
    <3>2. work' \in SUBSET Edge /\ fire' \in SUBSET Justification /\ written' \in Nat
      BY <1>2, <2>3, ForgetType DEF Abort
    <3>3. QED
      BY <1>2, <2>3, <3>1, <3>2 DEF Abort, TypeOK
  <2>4. ASSUME NEW c \in Client, Detach(c)
        PROVE  TypeOK'
    <3>1. orphans' \in SUBSET Batch
      BY <1>2, <2>4, SubmittedType DEF Detach, TypeOK
    <3>2. work' \in SUBSET Edge /\ fire' \in SUBSET Justification /\ written' \in Nat
      BY <1>2, <2>4, ForgetType DEF Detach
    <3>3. QED
      BY <1>2, <2>4, <3>1, <3>2, ReturnType DEF Detach, TypeOK
  <2>5. CASE LandOrphan
    <3>1. kv' \in KV /\ disk' \in KV
      BY <1>2, <2>5, CommitType DEF LandOrphan, TypeOK
    <3>2. QED
      BY <1>2, <2>5, <3>1 DEF LandOrphan, TypeOK
  <2>6. CASE Crash
    BY <1>2, <2>6 DEF Crash, TypeOK
  <2>7. CASE UNCHANGED vars
    BY <1>2, <2>7 DEF TypeOK, vars
  <2>8. QED
    BY <1>2, <2>1, <2>2, <2>3, <2>4, <2>5, <2>6, <2>7 DEF Next
<1>3. QED
  BY <1>1, <1>2, PTL DEF Spec

-----------------------------------------------------------------------------
(* Mutual exclusion of the space lock.                                     *)

\* A step that keeps the operations and moves one holder to a place its
\* operation allows.
LEMMA GotoExclusion ==
  ASSUME TypeOK, Exclusion, NEW c \in Client, NEW from, NEW to, Goto(c, from, to),
         from \notin {"idle", "queued"},
         to = "reading" => ~IsMutation(op[c]),
         to \in {"committed", "rebuild", "derive", "clear", "drop"} => IsMutation(op[c])
  PROVE  Exclusion'
<1>1. Holders' \subseteq Holders
  BY DEF TypeOK, Goto, Holders
<1>2. QED
  BY <1>1 DEF TypeOK, Goto, Exclusion, IsMutation

\* A step that lets a request return.
LEMMA ReturnExclusion ==
  ASSUME TypeOK, Exclusion, NEW c \in Client,
         pc' = [pc EXCEPT ![c] = "idle"], op' = [op EXCEPT ![c] = "None"]
  PROVE  Exclusion'
<1>1. Holders' \subseteq Holders \ {c}
  BY DEF TypeOK, Holders
<1>2. QED
  BY <1>1 DEF TypeOK, Exclusion, IsMutation, Holders

LEMMA ProceedExclusion ==
  ASSUME TypeOK, Exclusion, NEW c \in Client, Proceed(c)
  PROVE  Exclusion'
<1>1. CASE Grant(c)
  <2>1. Holders' = Holders \cup {c}
    BY <1>1 DEF Grant, TypeOK, Holders
  <2>2. QED
    BY <1>1, <2>1 DEF Grant, TypeOK, Exclusion, IsMutation
<1>2. CASE Refuse(c)
  BY <1>2, ReturnExclusion DEF Refuse, Return
<1>3. CASE StartRead(c)
  <2>1. Goto(c, "granted", "reading") /\ ~IsMutation(op[c])
    BY <1>3 DEF StartRead, Goto, IsMutation, Exclusion
  <2>2. QED
    BY <2>1, GotoExclusion
<1>4. CASE EndRead(c)
  BY <1>4, ReturnExclusion DEF EndRead, Return
<1>5. CASE CommitDml(c)
  <2>1. Goto(c, "granted", "committed") /\ IsMutation(op[c])
    BY <1>5 DEF CommitDml, Goto, IsMutation, Exclusion
  <2>2. QED
    BY <2>1, GotoExclusion
<1>6. CASE CommitDdl(c)
  <2>1. Goto(c, "granted", "committed") /\ IsMutation(op[c])
    BY <1>6 DEF CommitDdl, Goto, IsMutation, Exclusion
  <2>2. QED
    BY <2>1, GotoExclusion
<1>7. CASE AfterCommit(c)
  <2>1. CASE Return(c)
    BY <2>1, ReturnExclusion DEF Return
  <2>2. CASE Goto(c, "committed", "rebuild")
    BY <2>2, GotoExclusion DEF Goto, Exclusion
  <2>3. QED
    BY <1>7, <2>1, <2>2 DEF AfterCommit
<1>8. CASE StartRepair(c)
  <2>1. Goto(c, "granted", "rebuild") /\ IsMutation(op[c])
    BY <1>8 DEF StartRepair, Goto, IsMutation, Exclusion
  <2>2. QED
    BY <2>1, GotoExclusion
<1>9. CASE ClearDerived(c)
  <2>1. Goto(c, "rebuild", "derive") /\ IsMutation(op[c])
    BY <1>9 DEF ClearDerived, Goto, IsMutation, Exclusion
  <2>2. QED
    BY <2>1, GotoExclusion
<1>10. CASE PopEdge(c)
  BY <1>10 DEF PopEdge, Exclusion, Holders
<1>11. CASE WriteDerived(c)
  BY <1>11 DEF WriteDerived, Exclusion, Holders
<1>12. CASE ExceedBudget(c)
  BY <1>12, ReturnExclusion DEF ExceedBudget, Return
<1>13. CASE FinishDerive(c)
  <2>1. Goto(c, "derive", "clear") /\ IsMutation(op[c])
    BY <1>13 DEF FinishDerive, Goto, IsMutation, Exclusion
  <2>2. QED
    BY <2>1, GotoExclusion
<1>14. CASE ClearMarker(c)
  BY <1>14, ReturnExclusion DEF ClearMarker, Return
<1>15. CASE StartDrop(c)
  <2>1. Goto(c, "granted", "drop") /\ IsMutation(op[c])
    BY <1>15 DEF StartDrop, Goto, IsMutation, Exclusion
  <2>2. QED
    BY <2>1, GotoExclusion
<1>16. CASE DropChunk(c)
  BY <1>16, ReturnExclusion DEF DropChunk, Return, Exclusion, Holders
<1>17. CASE NoEffect(c)
  <2>1. Goto(c, "granted", "committed") /\ IsMutation(op[c])
    BY <1>17 DEF NoEffect, IsMutation
  <2>2. QED
    BY <2>1, GotoExclusion
<1>18. QED
  BY <1>1, <1>2, <1>3, <1>4, <1>5, <1>6, <1>7, <1>8, <1>9, <1>10, <1>11, <1>12, <1>13, <1>14, <1>15, <1>16, <1>17
     DEF Proceed

\* A mutation has the space to itself, whatever is cancelled or crashes.
THEOREM LockExclusion == Spec => []Exclusion
<1>1. Init => Exclusion
  BY DEF Init, Exclusion, Holders
<1>2. ASSUME TypeOK, Exclusion, [Next]_vars
      PROVE  Exclusion'
  <2>1. ASSUME NEW c \in Client, NEW o \in Ops, Request(c, o)
        PROVE  Exclusion'
    BY <1>2, <2>1 DEF TypeOK, Request, Exclusion, Holders
  <2>2. ASSUME NEW c \in Client, Proceed(c)
        PROVE  Exclusion'
    BY <1>2, <2>2, ProceedExclusion
  <2>3. ASSUME NEW c \in Client, Abort(c) \/ Detach(c)
        PROVE  Exclusion'
    BY <1>2, <2>3, ReturnExclusion DEF Abort, Detach, Return
  <2>4. CASE LandOrphan
    BY <1>2, <2>4 DEF LandOrphan, Exclusion, Holders
  <2>5. CASE Crash
    BY <1>2, <2>5 DEF Crash, Exclusion, Holders
  <2>6. CASE UNCHANGED vars
    BY <1>2, <2>6 DEF vars, Exclusion, Holders
  <2>7. QED
    BY <1>2, <2>1, <2>2, <2>3, <2>4, <2>5, <2>6 DEF Next
<1>3. QED
  BY <1>1, <1>2, TypeCorrect, PTL DEF Spec

-----------------------------------------------------------------------------
(* What the batches of a rebuild do to the store.                          *)

\* Edges of one ranking have one key per triple, so that a batch that asserts or
\* derives a triple replaces the record it had (Apply); the proofs below use it.
LEMMA RecordsDisjoint == Spec => []OneRecord
<1>1. Init => OneRecord
  BY DEF Init, OneRecord, EmptyKV
<1>2. ASSUME NEW k, NEW b, k.asserted \cap k.inferred = {}
      PROVE  Apply(k, b).asserted \cap Apply(k, b).inferred = {}
  BY <1>2 DEF Apply
<1>3. ASSUME OneRecord, NEW b, Commit(b)
      PROVE  OneRecord'
  BY <1>2, <1>3 DEF OneRecord, Commit
<1>4. ASSUME OneRecord, [Next]_vars
      PROVE  OneRecord'
  <2>1. CASE kv' = kv /\ disk' = disk
    BY <1>4, <2>1 DEF OneRecord
  <2>2. CASE Crash
    BY <1>4, <2>2 DEF OneRecord, Crash
  <2>3. CASE \E b : Commit(b)
    BY <1>3, <1>4, <2>3
  <2>4. ASSUME NEW c \in Client, Proceed(c)
        PROVE  (kv' = kv /\ disk' = disk) \/ \E b : Commit(b)
    BY <2>4 DEF Proceed, Grant, Refuse, StartRead, EndRead, CommitDml, CommitDdl,
       NoEffect, AfterCommit, StartRepair, ClearDerived, PopEdge, WriteDerived, ExceedBudget,
       FinishDerive, ClearMarker, StartDrop, DropChunk
  <2>5. CASE LandOrphan
    BY <2>3, <2>5 DEF LandOrphan
  <2>6. QED
    BY <1>4, <2>1, <2>2, <2>3, <2>4, <2>5 DEF Next, Request, Abort, Detach, vars
<1>5. QED
  BY <1>1, <1>4, PTL DEF Spec

LEMMA SchemaKept ==
  ASSUME NEW k \in KV, NEW b, b.declare = {}, b.undeclare = {}
  PROVE  Apply(k, b).schema = k.schema
<1>1. Apply(k, b).schema = [t \in EdgeType |-> k.schema[t]]
  BY DEF Apply
<1>2. k.schema \in [EdgeType -> SUBSET Axiom]
  BY DEF KV, Schema
<1>3. QED
  BY <1>1, <1>2

LEMMA ClearEffect ==
  ASSUME NEW k \in KV, k.asserted \cap k.inferred = {}, NEW l, l = Apply(k, ClearBatch(k))
  PROVE  /\ l.schema = k.schema /\ l.asserted = k.asserted /\ l.inferred = {}
         /\ l.prov = {} /\ l.dirty = k.dirty
<1>1. l.schema = k.schema
  BY SchemaKept DEF ClearBatch, NoWrites
<1>2. l.asserted = k.asserted /\ l.inferred = {} /\ l.prov = {}
  BY DEF Apply, ClearBatch, NoWrites
<1>3. l.dirty = k.dirty
  BY DEF Apply, ClearBatch, NoWrites, KV
<1>4. QED
  BY <1>1, <1>2, <1>3

LEMMA DeriveEffect ==
  ASSUME NEW k \in KV, k.asserted \cap k.inferred = {}, NEW r,
         NEW l, l = Apply(k, DeriveBatch(k, r))
  PROVE  /\ l.schema = k.schema /\ l.asserted = k.asserted
         /\ l.inferred = k.inferred \cup ({r.concl} \ Stored(k))
         /\ l.prov = k.prov \cup {r} /\ l.dirty = k.dirty
<1>1. l.schema = k.schema
  BY SchemaKept DEF DeriveBatch, NoWrites
<1>2. /\ l.asserted = k.asserted
      /\ l.inferred = k.inferred \cup ({r.concl} \ Stored(k))
      /\ l.prov = k.prov \cup {r}
  BY DEF Apply, DeriveBatch, NoWrites, Stored
<1>3. l.dirty = k.dirty
  BY DEF Apply, DeriveBatch, NoWrites, KV
<1>4. QED
  BY <1>1, <1>2, <1>3

LEMMA MarkEffect ==
  ASSUME NEW k \in KV, NEW m \in {"keep", "set", "unset"},
         NEW l, l = Apply(k, [NoWrites EXCEPT !.mark = m])
  PROVE  /\ l.schema = k.schema /\ l.asserted = k.asserted
         /\ l.inferred = k.inferred /\ l.prov = k.prov
         /\ l.dirty = (m = "set" \/ (m = "keep" /\ k.dirty))
<1>1. l.schema = k.schema
  BY SchemaKept DEF NoWrites
<1>2. /\ l.asserted = k.asserted /\ l.inferred = k.inferred /\ l.prov = k.prov
  BY DEF Apply, NoWrites
<1>3. l.dirty = (m = "set" \/ (m = "keep" /\ k.dirty))
  BY DEF Apply, NoWrites
<1>4. QED
  BY <1>1, <1>2, <1>3

\* Adding the conclusion of a rule whose premises are stored keeps the derived
\* facts founded.
LEMMA FoundedStep ==
  ASSUME NEW k, NEW l, Founded(k), NEW r \in RelMeta(k.schema),
         r.prem \subseteq Stored(k),
         l.schema = k.schema, l.asserted = k.asserted,
         l.inferred = k.inferred \cup ({r.concl} \ Stored(k))
  PROVE  Founded(l)
<1> SUFFICES ASSUME NEW X \in SUBSET l.inferred,
                    \A s \in RelMeta(k.schema) :
                       s.prem \subseteq k.asserted \cup X /\ s.concl \in Stored(l) =>
                          s.concl \in k.asserted \cup X
             PROVE  X = l.inferred
  BY DEF Founded
<1> DEFINE Y == X \cap k.inferred
<1>1. Stored(k) \subseteq Stored(l)
  BY DEF Stored
<1>2. ASSUME NEW s \in RelMeta(k.schema), s.prem \subseteq k.asserted \cup Y,
             s.concl \in Stored(k)
      PROVE  s.concl \in k.asserted \cup Y
  <2>1. s.concl \in k.asserted \cup X
    BY <1>1, <1>2
  <2>2. QED
    BY <1>2, <2>1 DEF Stored
<1>3. Y = k.inferred
  BY <1>2 DEF Founded
<1>4. r.prem \subseteq k.asserted \cup X
  BY <1>3 DEF Stored
<1>5. r.concl \in Stored(l)
  BY DEF Stored
<1>6. r.concl \in k.asserted \cup X
  BY <1>4, <1>5
<1>7. QED
  BY <1>3, <1>6 DEF Stored

-----------------------------------------------------------------------------
(* The rebuild computes the closure.                                       *)

\* When requests are never cancelled inside a write, no write is left behind.
LEMMA NoOrphans == ASSUME MaxOrphans = 0 PROVE Spec => []NoneLeft
<1>1. Init => NoneLeft
  BY DEF Init, NoneLeft
<1>2. ASSUME NoneLeft, [Next]_vars
      PROVE  NoneLeft'
  <2>1. Cardinality(orphans) = 0
    BY <1>2, FS_EmptySet DEF NoneLeft
  <2>2. \A c \in Client : ~Detach(c)
    BY <2>1 DEF Detach
  <2>3. ASSUME NEW c \in Client, Proceed(c)
        PROVE  orphans' = orphans
    BY <2>3 DEF Proceed, Grant, Refuse, StartRead, EndRead, CommitDml, CommitDdl,
       NoEffect, AfterCommit, StartRepair, ClearDerived, PopEdge, WriteDerived, ExceedBudget,
       FinishDerive, ClearMarker, StartDrop, DropChunk
  <2>4. QED
    BY <1>2, <2>2, <2>3 DEF Next, Request, Abort, LandOrphan, Crash, vars, NoneLeft
<1>3. QED
  BY <1>1, <1>2, PTL DEF Spec

\* A statement that mutates the space is alone.
LEMMA Alone ==
  ASSUME Exclusion, NEW c \in Client, pc[c] \notin {"idle", "queued"}, IsMutation(op[c])
  PROVE  \A h \in Client \ {c} : pc[h] \in {"idle", "queued"}
BY DEF Exclusion, Holders

\* Clearing the derived state starts the rebuild: every assertion is still to
\* be popped, so no rule can have been missed.
LEMMA ClearDerives ==
  ASSUME TypeOK, OneRecord, NEW c \in Client, ClearDerived(c)
  PROVE  Deriving' /\ kv'.dirty = kv.dirty
<1>1. kv \in KV /\ kv.asserted \cap kv.inferred = {} /\ kv.schema \in Schema
  BY DEF TypeOK, OneRecord, KV
<1>2. /\ kv'.schema = kv.schema /\ kv'.asserted = kv.asserted /\ kv'.inferred = {}
      /\ kv'.prov = {} /\ kv'.dirty = kv.dirty
  BY <1>1, ClearEffect DEF ClearDerived, Commit
<1>3. work' = kv.asserted /\ fire' = {}
  BY DEF ClearDerived
<1>4. Founded(kv')
  BY <1>2 DEF Founded
<1>5. Stored(kv') = work'
  BY <1>2, <1>3 DEF Stored
<1>6. FrontierDone'
  <2>1. ASSUME NEW r \in RelMeta(kv.schema), r.prem \subseteq work', r.prem \cap work' = {}
        PROVE  FALSE
    BY <1>1, <2>1, RelMetaType
  <2>2. QED
    BY <1>2, <1>5, <2>1 DEF FrontierDone
<1>7. QED
  BY <1>2, <1>3, <1>4, <1>5, <1>6 DEF Deriving

LEMMA PopDerives ==
  ASSUME TypeOK, Deriving, NEW c \in Client, PopEdge(c)
  PROVE  Deriving'
<1>1. PICK f \in work : /\ work' = work \ {f}
                        /\ fire' = Derivable(kv.schema, f, Stored(kv))
  BY DEF PopEdge
<1>2. kv' = kv /\ fire = {}
  BY DEF PopEdge
<1>3. fire' \subseteq {r \in RelMeta(kv.schema) : r.prem \subseteq Stored(kv)}
  BY <1>1 DEF Derivable
<1>4. ASSUME NEW r \in RelMeta(kv.schema), r.prem \subseteq Stored(kv),
             r.prem \cap work' = {}
      PROVE  (r \in kv.prov /\ r.concl \in Stored(kv)) \/ r \in fire'
  <2>1. CASE f \in r.prem
    BY <1>1, <1>4, <2>1 DEF Derivable
  <2>2. CASE f \notin r.prem
    BY <1>1, <1>2, <1>4, <2>2 DEF Deriving, FrontierDone
  <2>3. QED
    BY <2>1, <2>2
<1>5. FrontierDone'
  BY <1>2, <1>4 DEF FrontierDone
<1>6. Founded(kv')
  BY <1>2 DEF Deriving
<1>7. QED
  BY <1>1, <1>2, <1>3, <1>5, <1>6 DEF Deriving

LEMMA WriteDerives ==
  ASSUME TypeOK, Deriving, NEW c \in Client, WriteDerived(c)
  PROVE  Deriving' /\ kv'.dirty = kv.dirty
<1>1. PICK r \in fire : /\ Commit(DeriveBatch(kv, r))
                        /\ fire' = fire \ {r}
                        /\ IF IsNew(kv, r)
                             THEN work' = work \cup ({r.concl} \cap Edge)
                             ELSE work' = work
  BY DEF WriteDerived
<1>2. kv \in KV /\ kv.asserted \cap kv.inferred = {} /\ kv.schema \in Schema
  BY DEF TypeOK, Deriving, KV
<1>3. r \in RelMeta(kv.schema) /\ r.prem \subseteq Stored(kv)
  BY <1>1 DEF Deriving
<1>4. /\ kv'.schema = kv.schema /\ kv'.asserted = kv.asserted
      /\ kv'.inferred = kv.inferred \cup ({r.concl} \ Stored(kv))
      /\ kv'.prov = kv.prov \cup {r} /\ kv'.dirty = kv.dirty
  BY <1>1, <1>2, DeriveEffect DEF Commit
<1>5. Stored(kv') = Stored(kv) \cup {r.concl}
  BY <1>4 DEF Stored
<1>6. Founded(kv')
  BY <1>3, <1>4, FoundedStep DEF Deriving
<1>7. work' \subseteq Stored(kv')
  BY <1>1, <1>5 DEF Deriving
<1>8. fire' \cup kv'.prov \subseteq
         {s \in RelMeta(kv'.schema) : s.prem \subseteq Stored(kv')}
  BY <1>1, <1>3, <1>4, <1>5 DEF Deriving
<1>9. FrontierDone'
  <2>1. ASSUME NEW s \in RelMeta(kv.schema), s.prem \subseteq Stored(kv'),
               s.prem \cap work' = {}
        PROVE  (s \in kv'.prov /\ s.concl \in Stored(kv')) \/ s \in fire'
    <3>1. s.prem \subseteq Edge
      BY <1>2, RelMetaType DEF Justification
    <3>2. IsNew(kv, r) => r.concl \notin s.prem
      BY <1>1, <2>1, <3>1
    <3>3. s.prem \subseteq Stored(kv) /\ s.prem \cap work = {}
      BY <1>1, <1>5, <2>1, <3>2 DEF IsNew
    <3>4. (s \in kv.prov /\ s.concl \in Stored(kv)) \/ s \in fire
      BY <3>3 DEF Deriving, FrontierDone
    <3>5. QED
      BY <1>1, <1>4, <1>5, <3>4
  <2>2. QED
    BY <1>4, <2>1 DEF FrontierDone
<1>10. kv'.asserted \cap kv'.inferred = {}
  BY <1>2, <1>4 DEF Stored
<1>11. QED
  BY <1>4, <1>6, <1>7, <1>8, <1>9, <1>10 DEF Deriving

\* When nothing is left to pop or to write, the derived facts are the closure.
LEMMA DryMeansComplete ==
  ASSUME Deriving, work = {}, fire = {}
  PROVE  Complete(kv)
<1>1. \A r \in RelMeta(kv.schema) :
         r.prem \subseteq Stored(kv) => r \in kv.prov /\ r.concl \in Stored(kv)
  BY DEF Deriving, FrontierDone
<1>2. Closed(kv.schema, Stored(kv))
  BY <1>1 DEF Closed
<1>3. kv.prov = {r \in RelMeta(kv.schema) : r.prem \subseteq Stored(kv)}
  BY <1>1 DEF Deriving
<1>4. \A X \in SUBSET kv.inferred :
         Closed(kv.schema, kv.asserted \cup X) => X = kv.inferred
  BY DEF Deriving, Founded, Closed
<1>5. QED
  BY <1>2, <1>3, <1>4 DEF Complete, Deriving

\* A step of a mutating statement that takes it out of the rebuild.
LEMMA LeavesRebuild ==
  ASSUME TypeOK, Exclusion, NEW c \in Client, pc[c] \notin {"idle", "queued"},
         IsMutation(op[c]), NEW to \in {"idle", "committed", "drop"},
         pc' = [pc EXCEPT ![c] = to]
  PROVE  RebuildInv'
<1>1. \A h \in Client : pc'[h] \in {"idle", "queued", "committed", "drop"}
  BY Alone DEF TypeOK
<1>2. QED
  BY <1>1 DEF RebuildInv

\* A step that leaves the store and the worklist alone, and starts no rebuild.
LEMMA KeepsRebuild ==
  ASSUME TypeOK, RebuildInv, NEW c \in Client, kv' = kv, work' = work, fire' = fire,
         NEW to \in {"idle", "queued", "granted", "reading", "drop"},
         pc' = [pc EXCEPT ![c] = to]
  PROVE  RebuildInv'
<1>1. /\ Deriving' = Deriving
      /\ Complete(kv') = Complete(kv)
      /\ kv'.dirty = kv.dirty
  BY DEF Deriving, FrontierDone
<1>2. QED
  BY <1>1 DEF TypeOK, RebuildInv

LEMMA ProceedRebuild ==
  ASSUME TypeOK, Exclusion, OneRecord, RebuildInv, NEW c \in Client, Proceed(c)
  PROVE  RebuildInv'
<1>1. CASE Grant(c)
  BY <1>1, KeepsRebuild DEF Grant
<1>2. CASE Refuse(c)
  BY <1>2, KeepsRebuild DEF Refuse, Return
<1>3. CASE StartRead(c)
  BY <1>3, KeepsRebuild DEF StartRead, Goto
<1>4. CASE EndRead(c)
  BY <1>4, KeepsRebuild DEF EndRead, Return
<1>5. CASE CommitDml(c) \/ CommitDdl(c) \/ NoEffect(c)
  <2>1. /\ pc[c] = "granted" /\ IsMutation(op[c])
        /\ pc' = [pc EXCEPT ![c] = "committed"]
    BY <1>5 DEF CommitDml, CommitDdl, NoEffect, Goto, IsMutation
  <2>2. QED
    BY <2>1, LeavesRebuild
<1>6. CASE AfterCommit(c)
  <2>1. pc[c] = "committed" /\ IsMutation(op[c])
    BY <1>6 DEF AfterCommit, Exclusion
  <2>2. CASE Return(c)
    BY <2>1, <2>2, LeavesRebuild DEF Return
  <2>3. CASE kv.dirty /\ Goto(c, "committed", "rebuild")
    <3>1. \A h \in Client : pc'[h] \in {"idle", "queued", "rebuild"}
      BY <2>1, <2>3, Alone DEF TypeOK, Goto
    <3>2. kv'.dirty
      BY <1>6, <2>3 DEF AfterCommit
    <3>3. QED
      BY <3>1, <3>2 DEF RebuildInv
  <2>4. QED
    BY <1>6, <2>2, <2>3 DEF AfterCommit
<1>7. CASE StartRepair(c)
  <2>1. pc[c] = "granted" /\ IsMutation(op[c])
    BY <1>7 DEF StartRepair, Goto, IsMutation
  <2>2. \A h \in Client : pc'[h] \in {"idle", "queued", "rebuild"}
    BY <1>7, <2>1, Alone DEF TypeOK, StartRepair, Goto
  <2>3. kv'.dirty
    BY <1>7, MarkEffect DEF TypeOK, StartRepair, Commit
  <2>4. QED
    BY <2>2, <2>3 DEF RebuildInv
<1>8. CASE ClearDerived(c)
  <2>1. pc[c] = "rebuild" /\ IsMutation(op[c]) /\ kv.dirty
    BY <1>8 DEF ClearDerived, Goto, Exclusion, RebuildInv
  <2>2. \A h \in Client : pc'[h] \in {"idle", "queued", "derive"}
    BY <1>8, <2>1, Alone DEF TypeOK, ClearDerived, Goto
  <2>3. Deriving' /\ kv'.dirty
    BY <1>8, <2>1, ClearDerives
  <2>4. QED
    BY <2>2, <2>3 DEF RebuildInv
<1>9. CASE PopEdge(c)
  <2>1. pc[c] = "derive" /\ IsMutation(op[c]) /\ kv.dirty /\ Deriving
    BY <1>9 DEF PopEdge, Exclusion, RebuildInv
  <2>2. \A h \in Client : pc'[h] \in {"idle", "queued", "derive"}
    BY <1>9, <2>1, Alone DEF TypeOK, PopEdge
  <2>3. Deriving' /\ kv'.dirty
    BY <1>9, <2>1, PopDerives DEF PopEdge
  <2>4. QED
    BY <2>2, <2>3 DEF RebuildInv
<1>10. CASE WriteDerived(c)
  <2>1. pc[c] = "derive" /\ IsMutation(op[c]) /\ kv.dirty /\ Deriving
    BY <1>10 DEF WriteDerived, Exclusion, RebuildInv
  <2>2. \A h \in Client : pc'[h] \in {"idle", "queued", "derive"}
    BY <1>10, <2>1, Alone DEF TypeOK, WriteDerived
  <2>3. Deriving' /\ kv'.dirty
    BY <1>10, <2>1, WriteDerives
  <2>4. QED
    BY <2>2, <2>3 DEF RebuildInv
<1>11. CASE ExceedBudget(c)
  <2>1. pc[c] = "derive" /\ IsMutation(op[c])
    BY <1>11 DEF ExceedBudget, Exclusion
  <2>2. QED
    BY <1>11, <2>1, LeavesRebuild DEF ExceedBudget, Return
<1>12. CASE FinishDerive(c)
  <2>1. pc[c] = "derive" /\ IsMutation(op[c]) /\ kv.dirty /\ Deriving
    BY <1>12 DEF FinishDerive, Goto, Exclusion, RebuildInv
  <2>2. \A h \in Client : pc'[h] \in {"idle", "queued", "clear"}
    BY <1>12, <2>1, Alone DEF TypeOK, FinishDerive, Goto
  <2>3. Complete(kv') /\ kv'.dirty
    BY <1>12, <2>1, DryMeansComplete DEF FinishDerive
  <2>4. QED
    BY <2>2, <2>3 DEF RebuildInv
<1>13. CASE ClearMarker(c)
  <2>1. pc[c] = "clear" /\ IsMutation(op[c])
    BY <1>13 DEF ClearMarker, Exclusion
  <2>2. QED
    BY <1>13, <2>1, LeavesRebuild DEF ClearMarker, Return
<1>14. CASE StartDrop(c)
  BY <1>14, KeepsRebuild DEF StartDrop, Goto
<1>15. CASE DropChunk(c)
  <2>1. pc[c] = "drop" /\ IsMutation(op[c])
    BY <1>15 DEF DropChunk, Exclusion
  <2>2. pc' = [pc EXCEPT ![c] = "idle"] \/ pc' = [pc EXCEPT ![c] = "drop"]
    BY <1>15, <2>1 DEF DropChunk, Return, TypeOK
  <2>3. QED
    BY <2>1, <2>2, LeavesRebuild
<1>16. QED
  BY <1>1, <1>2, <1>3, <1>4, <1>5, <1>6, <1>7, <1>8, <1>9, <1>10, <1>11, <1>12,
     <1>13, <1>14, <1>15 DEF Proceed

LEMMA RebuildStep ==
  ASSUME TypeOK, Exclusion, OneRecord, NoneLeft, MaxOrphans = 0, RebuildInv, [Next]_vars
  PROVE  RebuildInv'
<1>1. ASSUME NEW c \in Client, NEW o \in Ops, Request(c, o)
      PROVE  RebuildInv'
  BY <1>1, KeepsRebuild DEF Request
<1>2. ASSUME NEW c \in Client, Proceed(c)
      PROVE  RebuildInv'
  BY <1>2, ProceedRebuild
<1>3. ASSUME NEW c \in Client, Abort(c)
      PROVE  RebuildInv'
  <2>1. CASE pc[c] \in {"derive", "clear"}
    BY <1>3, <2>1, LeavesRebuild DEF Abort, Exclusion
  <2>2. CASE pc[c] \notin {"derive", "clear"}
    BY <1>3, <2>2, KeepsRebuild DEF Abort, Forget
  <2>3. QED
    BY <2>1, <2>2
<1>4. ASSUME NEW c \in Client, Detach(c)
      PROVE  RebuildInv'
  BY <1>4, FS_EmptySet DEF Detach, NoneLeft
<1>5. CASE LandOrphan
  BY <1>5 DEF LandOrphan, NoneLeft
<1>6. CASE Crash
  BY <1>6 DEF Crash, RebuildInv
<1>7. CASE UNCHANGED vars
  BY <1>7 DEF vars, RebuildInv, Deriving, FrontierDone
<1>8. QED
  BY <1>1, <1>2, <1>3, <1>4, <1>5, <1>6, <1>7 DEF Next

LEMMA RebuildCorrect == ASSUME MaxOrphans = 0 PROVE Spec => []RebuildInv
<1>1. Init => RebuildInv
  BY DEF Init, RebuildInv
<1>2. ASSUME TypeOK, Exclusion, OneRecord, NoneLeft, RebuildInv, [Next]_vars
      PROVE  RebuildInv'
  BY <1>2, RebuildStep
<1>3. QED
  BY <1>1, <1>2, TypeCorrect, LockExclusion, RecordsDisjoint, NoOrphans, PTL DEF Spec

\* A rebuild that is about to delete the marker has computed the closure, for
\* every schema and every set of assertions, DROP SPACE included, as long as
\* no cancelled request leaves a write behind.
THEOREM RebuildComplete ==
  ASSUME MaxOrphans = 0
  PROVE  Spec => []CompleteBeforeUnmark
<1>1. RebuildInv => CompleteBeforeUnmark
  BY DEF RebuildInv, CompleteBeforeUnmark
<1>2. QED
  BY <1>1, RebuildCorrect, PTL

-----------------------------------------------------------------------------
(* The budget.                                                             *)

BudgetInv == BudgetExact /\ \A c \in Client : pc[c] \in {"derive", "clear"} => IsFiniteSet(kv.inferred)

\* A step after which nobody derives.
LEMMA LeavesBudget ==
  ASSUME TypeOK, Exclusion, NEW c \in Client, pc[c] \notin {"idle", "queued"},
         IsMutation(op[c]), NEW to \in {"idle", "committed", "drop", "rebuild"},
         pc' = [pc EXCEPT ![c] = to]
  PROVE  BudgetInv'
<1>1. \A h \in Client : pc'[h] \in {"idle", "queued", "committed", "drop", "rebuild"}
  BY Alone DEF TypeOK
<1>2. QED
  BY <1>1 DEF BudgetInv, BudgetExact

\* A step that leaves the store and the count alone, and starts no rebuild.
LEMMA KeepsBudget ==
  ASSUME BudgetInv, kv' = kv, written' = written,
         \A h \in Client : pc'[h] \in {"derive", "clear"} => pc[h] \in {"derive", "clear"}
  PROVE  BudgetInv'
BY DEF BudgetInv, BudgetExact

\* charge_inference counts a fact when and only when it is new.
LEMMA WriteCounts ==
  ASSUME TypeOK, Deriving, BudgetInv, NEW c \in Client, WriteDerived(c)
  PROVE  BudgetInv'
<1>1. PICK r \in fire : /\ Commit(DeriveBatch(kv, r)) /\ ~OverBudget(kv, r)
                        /\ written' = IF IsNew(kv, r) THEN written + 1 ELSE written
  BY DEF WriteDerived
<1>2. pc' = pc /\ pc[c] = "derive"
  BY DEF WriteDerived
<1>3. /\ written = Cardinality(kv.inferred) /\ IsFiniteSet(kv.inferred)
      /\ Cap # 0 => written <= Cap
  BY <1>2 DEF BudgetInv, BudgetExact
<1>4. kv'.inferred = kv.inferred \cup ({r.concl} \ Stored(kv))
  BY <1>1, DeriveEffect DEF Commit, TypeOK, Deriving
<1>5. CASE IsNew(kv, r)
  <2>1. kv'.inferred = kv.inferred \cup {r.concl} /\ r.concl \notin kv.inferred
    BY <1>4, <1>5 DEF IsNew, Stored
  <2>2. IsFiniteSet(kv'.inferred) /\ Cardinality(kv'.inferred) = written + 1
    BY <1>3, <2>1, FS_AddElement
  <2>3. Cap # 0 => written + 1 <= Cap
    BY <1>1, <1>5, FenceAssumption DEF OverBudget, TypeOK
  <2>4. QED
    BY <1>1, <1>5, <2>2, <2>3 DEF BudgetInv, BudgetExact
<1>6. CASE ~IsNew(kv, r)
  <2>1. kv'.inferred = kv.inferred
    BY <1>4, <1>6 DEF IsNew
  <2>2. QED
    BY <1>1, <1>3, <1>6, <2>1 DEF BudgetInv, BudgetExact
<1>7. QED
  BY <1>5, <1>6

LEMMA ProceedBudget ==
  ASSUME TypeOK, Exclusion, OneRecord, RebuildInv, BudgetInv, NEW c \in Client, Proceed(c)
  PROVE  BudgetInv'
<1>1. CASE Grant(c) \/ Refuse(c) \/ StartRead(c) \/ EndRead(c) \/ StartDrop(c)
  BY <1>1, KeepsBudget DEF Grant, Refuse, StartRead, EndRead, StartDrop, Goto, Return, TypeOK
<1>2. CASE CommitDml(c) \/ CommitDdl(c) \/ NoEffect(c)
  <2>1. /\ pc[c] = "granted" /\ IsMutation(op[c])
        /\ pc' = [pc EXCEPT ![c] = "committed"]
    BY <1>2 DEF CommitDml, CommitDdl, NoEffect, Goto, IsMutation
  <2>2. QED
    BY <2>1, LeavesBudget
<1>3. CASE AfterCommit(c)
  <2>1. /\ pc[c] = "committed" /\ IsMutation(op[c])
        /\ \E to \in {"idle", "rebuild"} : pc' = [pc EXCEPT ![c] = to]
    BY <1>3 DEF AfterCommit, Exclusion, Goto, Return
  <2>2. QED
    BY <2>1, LeavesBudget
<1>4. CASE StartRepair(c)
  <2>1. /\ pc[c] = "granted" /\ IsMutation(op[c])
        /\ pc' = [pc EXCEPT ![c] = "rebuild"]
    BY <1>4 DEF StartRepair, Goto, IsMutation
  <2>2. QED
    BY <2>1, LeavesBudget
<1>5. CASE ClearDerived(c)
  <2>1. kv'.inferred = {} /\ written' = 0
    BY <1>5, ClearEffect DEF ClearDerived, Commit, TypeOK, OneRecord
  <2>2. QED
    BY <2>1, FS_EmptySet, FenceAssumption DEF BudgetInv, BudgetExact
<1>6. CASE PopEdge(c)
  BY <1>6, KeepsBudget DEF PopEdge
<1>7. CASE WriteDerived(c)
  BY <1>7, WriteCounts DEF RebuildInv, WriteDerived
<1>8. CASE ExceedBudget(c) \/ ClearMarker(c)
  <2>1. /\ pc[c] \in {"derive", "clear"} /\ IsMutation(op[c])
        /\ pc' = [pc EXCEPT ![c] = "idle"]
    BY <1>8 DEF ExceedBudget, ClearMarker, Exclusion, Return
  <2>2. QED
    BY <2>1, LeavesBudget
<1>9. CASE FinishDerive(c)
  BY <1>9, KeepsBudget DEF FinishDerive, Goto, TypeOK
<1>10. CASE DropChunk(c)
  <2>1. pc[c] = "drop" /\ IsMutation(op[c])
    BY <1>10 DEF DropChunk, Exclusion
  <2>2. pc' = [pc EXCEPT ![c] = "idle"] \/ pc' = [pc EXCEPT ![c] = "drop"]
    BY <1>10, <2>1 DEF DropChunk, Return, TypeOK
  <2>3. QED
    BY <2>1, <2>2, LeavesBudget
<1>11. QED
  BY <1>1, <1>2, <1>3, <1>4, <1>5, <1>6, <1>7, <1>8, <1>9, <1>10 DEF Proceed

LEMMA BudgetStep ==
  ASSUME TypeOK, Exclusion, OneRecord, NoneLeft, MaxOrphans = 0, RebuildInv, BudgetInv, [Next]_vars
  PROVE  BudgetInv'
<1>1. ASSUME NEW c \in Client, NEW o \in Ops, Request(c, o)
      PROVE  BudgetInv'
  BY <1>1, KeepsBudget DEF Request, TypeOK
<1>2. ASSUME NEW c \in Client, Proceed(c)
      PROVE  BudgetInv'
  BY <1>2, ProceedBudget
<1>3. ASSUME NEW c \in Client, Abort(c)
      PROVE  BudgetInv'
  <2>1. CASE pc[c] \in {"derive", "clear"}
    BY <1>3, <2>1, LeavesBudget DEF Abort, Exclusion
  <2>2. CASE pc[c] \notin {"derive", "clear"}
    BY <1>3, <2>2, KeepsBudget DEF Abort, Forget, TypeOK
  <2>3. QED
    BY <2>1, <2>2
<1>4. ASSUME NEW c \in Client, Detach(c)
      PROVE  BudgetInv'
  BY <1>4, FS_EmptySet DEF Detach, NoneLeft
<1>5. CASE LandOrphan
  BY <1>5 DEF LandOrphan, NoneLeft
<1>6. CASE Crash
  BY <1>6 DEF Crash, BudgetInv, BudgetExact
<1>7. CASE UNCHANGED vars
  BY <1>7, KeepsBudget DEF vars
<1>8. QED
  BY <1>1, <1>2, <1>3, <1>4, <1>5, <1>6, <1>7 DEF Next

\* A rebuild charges exactly the facts it derives, never derives more than the
\* budget, and is complete when it deletes the marker, as long as no cancelled
\* request leaves a write behind.
THEOREM RebuildAlwaysExact ==
  ASSUME MaxOrphans = 0
  PROVE  Spec => []RebuildExact
<1>1. Init => BudgetInv
  BY DEF Init, BudgetInv, BudgetExact
<1>2. TypeOK /\ Exclusion /\ OneRecord /\ NoneLeft /\ RebuildInv /\ BudgetInv /\ [Next]_vars
        => BudgetInv'
  BY BudgetStep
<1>3. BudgetInv /\ CompleteBeforeUnmark => RebuildExact
  BY DEF BudgetInv, RebuildExact
<1>4. QED
  BY <1>1, <1>2, <1>3, TypeCorrect, LockExclusion, RecordsDisjoint, NoOrphans, RebuildCorrect,
     RebuildComplete, PTL DEF Spec

-----------------------------------------------------------------------------
(* The fence.                                                              *)

\* Completeness depends on the facts and the schema only.
LEMMA CompleteSame ==
  ASSUME NEW k, NEW l, l.schema = k.schema, l.asserted = k.asserted,
         l.inferred = k.inferred, l.prov = k.prov, Complete(k)
  PROVE  Complete(l)
<1>1. Stored(l) = Stored(k)
  BY DEF Stored
<1>2. Closed(l.schema, Stored(l)) /\ l.asserted \cap l.inferred = {}
  BY <1>1 DEF Complete
<1>3. \A X \in SUBSET l.inferred :
         Closed(l.schema, l.asserted \cup X) => X = l.inferred
  BY DEF Complete
<1>4. l.prov = {r \in RelMeta(l.schema) : r.prem \subseteq Stored(l)}
  BY <1>1 DEF Complete
<1>5. QED
  BY <1>2, <1>3, <1>4 DEF Complete

\* Without rules a complete space has no derived state, and one without
\* derived state is complete.
LEMMA CompleteWithoutRules ==
  ASSUME NEW k, RelMeta(k.schema) = {}
  PROVE  /\ Complete(k) => k.inferred = {} /\ k.prov = {}
         /\ k.inferred = {} /\ k.prov = {} => Complete(k)
<1>1. \A S : Closed(k.schema, S)
  BY DEF Closed
<1>2. ASSUME Complete(k)
      PROVE  k.inferred = {} /\ k.prov = {}
  <2>1. {} = k.inferred
    BY <1>1, <1>2 DEF Complete
  <2>2. QED
    BY <1>2, <2>1 DEF Complete
<1>3. QED
  BY <1>1, <1>2 DEF Complete

\* The batch of a DML statement on a clean space raises the marker if there
\* are rules, and needs no rebuild if there are none.
LEMMA DmlFenced ==
  ASSUME NEW k \in KV, Complete(k), ~k.dirty,
         NEW b \in DmlBatches(k), NEW l, l = Apply(k, b)
  PROVE  Fenced(l)
<1>1. /\ b.mark = Fence(k) /\ b.declare = {} /\ b.undeclare = {}
      /\ b.infer = {} /\ b.justify = {}
  BY DEF DmlBatches, InsertBatches, UpdateBatches, DeleteBatches, VertexBatches, NoWrites
<1>2. CASE ~RelMetaEmpty(k.schema)
  BY <1>1, <1>2 DEF Fence, Apply, Fenced
<1>3. CASE RelMetaEmpty(k.schema)
  <2>1. RelMeta(k.schema) = {}
    BY <1>3, NoAxiomsNoRules DEF KV
  <2>2. k.inferred = {} /\ k.prov = {}
    BY <2>1, CompleteWithoutRules
  <2>3. l.schema = k.schema
    BY <1>1, SchemaKept
  <2>4. l.inferred = {} /\ l.prov = {}
    BY <1>1, <2>2 DEF Apply
  <2>5. QED
    BY <2>1, <2>3, <2>4, CompleteWithoutRules DEF Fenced
<1>4. QED
  BY <1>2, <1>3

LEMMA DdlFenced ==
  ASSUME NEW k \in KV, Complete(k), ~k.dirty,
         NEW b \in DdlBatches(k), NEW l, l = Apply(k, b)
  PROVE  Fenced(l)
<1>1. CASE b \in VertexBatches(k)
  BY <1>1, DmlFenced DEF DmlBatches
<1>2. CASE b \notin VertexBatches(k)
  <2>1. b.mark = "set"
    BY <1>2 DEF DdlBatches, CreateEdgeBatches, DropEdgeBatches, NoWrites
  <2>2. QED
    BY <2>1 DEF Fenced, Apply
<1>3. QED
  BY <1>1, <1>2

\* What a commit leaves in the store, it may leave on disk.
LEMMA CommitFenced ==
  ASSUME FenceInv, NEW b, Commit(b), Fenced(kv')
  PROVE  Fenced(kv') /\ Fenced(disk')
BY DEF FenceInv, Commit

LEMMA ProceedFenced ==
  ASSUME TypeOK, Exclusion, OneRecord, RebuildInv, FenceInv, "DropSpace" \notin Ops,
         NEW c \in Client, Proceed(c)
  PROVE  FenceInv'
<1>1. \A h \in Client : pc'[h] # "drop"
  BY DEF Proceed, Grant, Refuse, StartRead, EndRead, CommitDml, CommitDdl,
     NoEffect, AfterCommit, StartRepair, ClearDerived, PopEdge, WriteDerived, ExceedBudget,
     FinishDerive, ClearMarker, StartDrop, DropChunk, Goto, Return, TypeOK, FenceInv
<1>2. CASE kv' = kv /\ disk' = disk
  BY <1>1, <1>2 DEF FenceInv
<1>3. CASE CommitDml(c)
  <2>1. PICK b \in DmlBatches(kv) : Commit(b)
    BY <1>3 DEF CommitDml
  <2>2. Fenced(kv')
    BY <1>3, <2>1, DmlFenced DEF CommitDml, Commit, FenceInv, Fenced, TypeOK
  <2>3. QED
    BY <1>1, <2>1, <2>2, CommitFenced DEF FenceInv
<1>4. CASE CommitDdl(c)
  <2>1. PICK b \in DdlBatches(kv) : Commit(b)
    BY <1>4 DEF CommitDdl
  <2>2. Fenced(kv')
    BY <1>4, <2>1, DdlFenced DEF CommitDdl, Commit, FenceInv, Fenced, TypeOK
  <2>3. QED
    BY <1>1, <2>1, <2>2, CommitFenced DEF FenceInv
<1>5. CASE StartRepair(c)
  <2>1. Commit([NoWrites EXCEPT !.mark = "set"])
    BY <1>5 DEF StartRepair
  <2>2. kv' = Apply(kv, [NoWrites EXCEPT !.mark = "set"])
    BY <2>1 DEF Commit
  <2>3. kv \in KV /\ "set" \in {"keep", "set", "unset"}
    BY DEF TypeOK
  <2>4. kv'.dirty
    BY <2>2, <2>3, MarkEffect
  <2>5. QED
    BY <1>1, <2>1, <2>4, CommitFenced DEF FenceInv, Fenced
<1>6. CASE ClearDerived(c)
  <2>1. kv'.dirty /\ \E b : Commit(b)
    BY <1>6, ClearDerives DEF ClearDerived, Goto, RebuildInv
  <2>2. QED
    BY <1>1, <2>1, CommitFenced DEF FenceInv, Fenced
<1>7. CASE WriteDerived(c)
  <2>1. kv'.dirty /\ \E b : Commit(b)
    BY <1>7, WriteDerives DEF WriteDerived, RebuildInv
  <2>2. QED
    BY <1>1, <2>1, CommitFenced DEF FenceInv, Fenced
<1>8. CASE ClearMarker(c)
  <2>1. Complete(kv) /\ Commit(UnmarkBatch)
    BY <1>8 DEF ClearMarker, RebuildInv
  <2>2. /\ kv'.schema = kv.schema /\ kv'.asserted = kv.asserted
        /\ kv'.inferred = kv.inferred /\ kv'.prov = kv.prov
    BY <2>1, MarkEffect DEF TypeOK, Commit, UnmarkBatch
  <2>3. Complete(kv')
    BY <2>1, <2>2, CompleteSame
  <2>4. QED
    BY <1>1, <2>1, <2>3, CommitFenced DEF FenceInv, Fenced
<1>9. QED
  BY <1>2, <1>3, <1>4, <1>5, <1>6, <1>7, <1>8 DEF Proceed, Grant, Refuse, StartRead,
     EndRead, NoEffect, AfterCommit, PopEdge, ExceedBudget, FinishDerive, StartDrop, DropChunk,
     FenceInv

\* The completion fence: a space without the marker has a complete closure, for
\* every schema, every interleaving and every crash, provided that no request
\* drops the space and no cancelled request leaves a write behind.
THEOREM FenceHolds ==
  ASSUME MaxOrphans = 0, "DropSpace" \notin Ops
  PROVE  Spec => []CleanMeansComplete
<1>1. Init => FenceInv
  <2>1. RelMeta(EmptyKV.schema) = {}
    BY NoAxiomsNoRules DEF EmptyKV, Schema, RelMetaEmpty
  <2>2. Complete(EmptyKV)
    BY <2>1, CompleteWithoutRules DEF EmptyKV
  <2>3. QED
    BY <2>2 DEF Init, FenceInv, Fenced
<1>2. ASSUME TypeOK, Exclusion, OneRecord, NoneLeft, RebuildInv, FenceInv, [Next]_vars
      PROVE  FenceInv'
  <2>1. ASSUME NEW c \in Client, NEW o \in Ops, Request(c, o)
        PROVE  FenceInv'
    BY <1>2, <2>1 DEF Request, FenceInv, TypeOK
  <2>2. ASSUME NEW c \in Client, Proceed(c)
        PROVE  FenceInv'
    BY <1>2, <2>2, ProceedFenced
  <2>3. ASSUME NEW c \in Client, Abort(c)
        PROVE  FenceInv'
    BY <1>2, <2>3 DEF Abort, FenceInv, TypeOK
  <2>4. ASSUME NEW c \in Client, Detach(c)
        PROVE  FenceInv'
    BY <1>2, <2>4, FS_EmptySet DEF Detach, NoneLeft
  <2>5. CASE LandOrphan
    BY <1>2, <2>5 DEF LandOrphan, NoneLeft
  <2>6. CASE Crash
    BY <1>2, <2>6 DEF Crash, FenceInv
  <2>7. CASE UNCHANGED vars
    BY <1>2, <2>7 DEF vars, FenceInv
  <2>8. QED
    BY <1>2, <2>1, <2>2, <2>3, <2>4, <2>5, <2>6, <2>7 DEF Next
<1>3. FenceInv => CleanMeansComplete
  BY DEF FenceInv, Fenced, CleanMeansComplete
<1>4. QED
  BY <1>1, <1>2, <1>3, TypeCorrect, LockExclusion, RecordsDisjoint, NoOrphans,
     RebuildCorrect, PTL DEF Spec

\* A query that holds the read lock sees one state of the space.
THEOREM ReadersSeeOneState ==
  ASSUME MaxOrphans = 0
  PROVE  Spec => ReadersUndisturbed
<1>1. ASSUME Exclusion, NoneLeft, [Next]_vars,
             NEW c \in Client, pc[c] = "reading", pc'[c] = "reading"
      PROVE  kv' = kv
  <2>1. c \in Holders /\ ~IsMutation(op[c])
    BY <1>1 DEF Holders, Exclusion
  <2>2. ASSUME NEW h \in Client, Proceed(h)
        PROVE  kv' = kv
    <3>1. ASSUME pc[h] \notin {"idle", "queued"}, IsMutation(op[h])
          PROVE  FALSE
      BY <1>1, <2>1, <3>1 DEF Exclusion, Holders
    <3>2. CASE Grant(h) \/ Refuse(h) \/ StartRead(h) \/ EndRead(h) \/ NoEffect(h)
               \/ AfterCommit(h) \/ PopEdge(h) \/ ExceedBudget(h) \/ FinishDerive(h) \/ StartDrop(h)
      BY <3>2 DEF Grant, Refuse, StartRead, EndRead, NoEffect, AfterCommit, PopEdge,
         ExceedBudget, FinishDerive, StartDrop
    <3>3. CASE CommitDml(h) \/ CommitDdl(h) \/ StartRepair(h)
      BY <3>1, <3>3 DEF CommitDml, CommitDdl, StartRepair, Goto, IsMutation
    <3>4. CASE ClearDerived(h) \/ WriteDerived(h) \/ ClearMarker(h) \/ DropChunk(h)
      BY <1>1, <3>1, <3>4 DEF ClearDerived, WriteDerived, ClearMarker, DropChunk,
         Goto, Exclusion
    <3>5. QED
      BY <2>2, <3>2, <3>3, <3>4 DEF Proceed
  <2>3. QED
    BY <1>1, <2>2 DEF Next, Request, Abort, Detach, LandOrphan, NoneLeft, Crash, vars
<1>2. ASSUME Exclusion, NoneLeft, [Next]_vars
      PROVE  [\A c \in Client :
                pc[c] = "reading" /\ pc'[c] = "reading" => kv' = kv]_vars
  BY <1>1, <1>2
<1>3. QED
  BY <1>2, LockExclusion, NoOrphans, PTL DEF Spec, ReadersUndisturbed
=============================================================================
