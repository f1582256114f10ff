-------------------------- MODULE EdgeViewsProofs --------------------------
(***************************************************************************)
(* EdgeViews for every set of edges and values: the forward and reverse    *)
(* records agree, index entries are current, and LOOKUP through the index  *)
(* is exact unless an index DDL was cut.                                   *)
(***************************************************************************)
EXTENDS EdgeViews, FiniteSetTheorems, TLAPS

\* A finite set of naturals that is not empty has a largest element: the
\* sets of larger elements are well founded under strict inclusion.
Above(S, i) == {j \in S : j > i}

LEMMA MaxExists ==
  ASSUME NEW S \in SUBSET Nat, IsFiniteSet(S), S # {}
  PROVE  Max(S) \in S /\ \A y \in S : Max(S) >= y
<1> DEFINE T == {Above(S, i) : i \in S}
           R == StrictSubsetOrdering(S)
<1>1. IsWellFoundedOn(R, SUBSET S)
  BY FS_StrictSubsetOrderingWellFounded, FS_FiniteSubsetsOfFinite
<1>2. T \subseteq SUBSET S /\ T # {}
  BY DEF Above
<1> HIDE DEF R
<1>3. PICK x \in T : \A y \in T : ~(<<y, x>> \in R)
  BY <1>1, <1>2, WFMin
<1>4. PICK i \in S : x = Above(S, i)
  OBVIOUS
<1>5. \A j \in S : i >= j
  <2> SUFFICES ASSUME NEW j \in S, j > i PROVE FALSE
    OBVIOUS
  <2>1. Above(S, j) \subseteq Above(S, i) /\ Above(S, j) # Above(S, i)
    <3>0. i \in Int /\ j \in Int
      OBVIOUS
    <3>1. j \in Above(S, i) /\ j \notin Above(S, j)
      BY <3>0 DEF Above
    <3>2. \A k \in S : k > j => k > i
      <4> TAKE k \in S
      <4>1. k \in Int
        OBVIOUS
      <4> QED BY <3>0, <4>1
    <3>3. Above(S, j) \subseteq Above(S, i)
      BY <3>2 DEF Above
    <3> QED BY <3>1, <3>3
  <2>2. Above(S, j) \in T /\ Above(S, i) \in SUBSET S /\ Above(S, j) \in SUBSET S
    BY DEF Above
  <2>3. <<Above(S, j), Above(S, i)>> \in R
    BY <2>1, <2>2 DEF R, StrictSubsetOrdering
  <2> QED BY <2>2, <2>3, <1>3, <1>4
<1> QED BY <1>5 DEF Max

\* What a record's property says about the record.
LEMMA RecordFacts ==
  ASSUME NEW r \in Record
  PROVE  /\ r.prop \in Value => r # Absent /\ ~r.inferred
         /\ r.inferred \in BOOLEAN
         /\ r # Absent => r.prop \in Prop
<1>1. "missing" \notin Value /\ "none" \notin Value
  BY EdgeViewsAssumption
<1>2. \/ \E p \in Prop : r = [prop |-> p, inferred |-> FALSE]
      \/ r = [prop |-> "missing", inferred |-> TRUE]
      \/ r = [prop |-> "none", inferred |-> FALSE]
  BY DEF Record, Asserted, Inferred, Absent
<1>3. CASE \E p \in Prop : r = [prop |-> p, inferred |-> FALSE]
  BY <1>1, <1>3 DEF Absent
<1>4. CASE r = [prop |-> "missing", inferred |-> TRUE]
  BY <1>1, <1>4 DEF Absent, Prop
<1>5. CASE r = [prop |-> "none", inferred |-> FALSE]
  BY <1>1, <1>5 DEF Absent, Prop
<1> QED BY <1>2, <1>3, <1>4, <1>5

LEMMA AssertedFacts ==
  ASSUME NEW p \in Prop
  PROVE  /\ Asserted(p) \in Record
         /\ Asserted(p) # Absent
         /\ Asserted(p).prop = p
         /\ ~Asserted(p).inferred
<1>1. "none" \notin Prop
  BY EdgeViewsAssumption DEF Prop
<1> QED BY <1>1 DEF Record, Asserted, Absent

LEMMA OtherRecords == Inferred \in Record /\ Absent \in Record
BY DEF Record

LEMMA ValueLess == Absent.prop \notin Value /\ Inferred.prop \notin Value
BY EdgeViewsAssumption DEF Absent, Inferred

\* An entry names its edge, and its value when it has one.
LEMMA EntryFacts ==
  ASSUME NEW e \in Edge, NEW r
  PROVE  /\ Entry(e, r) \in Entries
         /\ Entry(e, r)[2] = e
         /\ Entry(e, r)[1] \in Value => r.prop = Entry(e, r)[1]
         /\ r.prop \in Value => Entry(e, r)[1] = r.prop
BY EdgeViewsAssumption DEF Entry, Entries, IndexValue

LEMMA EntryIsKey ==
  ASSUME NEW k \in Entries, NEW r, k[1] \in Value, r.prop = k[1]
  PROVE  k[2] \in Edge /\ Entry(k[2], r) = k
BY DEF Entry, Entries, IndexValue

\* A DML batch that replaces the records under the named keys by those of
\* view keeps the entries current and the values covered.
LEMMA Reindexed ==
  ASSUME NEW named \in SUBSET Edge, NEW view \in [Edge -> Record],
         out \in [Edge -> Record], idx \subseteq Entries,
         \A e \in Edge \ named : view[e] = out[e],
         Current(out, idx), ~defined => idx = {},
         NEW puts, puts = {Entry(e, view[e]) : e \in {e \in named : view[e] # Absent}}
  PROVE  LET I == Reindex(OldEntries(named), puts)
         IN  /\ I \subseteq Entries
             /\ Current(view, I)
             /\ ~defined => I = {}
             /\ (defined /\ Covered(out, idx)) => Covered(view, I)
<1> DEFINE olds == OldEntries(named)
           I == Reindex(olds, puts)
<1>1. \A k \in puts : \E e \in named : k = Entry(e, view[e])
  OBVIOUS
<1>2. \A e \in named : view[e] # Absent => Entry(e, view[e]) \in puts
  OBVIOUS
<1>3. \A k \in olds : \E e \in named : k = Entry(e, out[e])
  BY DEF OldEntries
<1>4. \A e \in named : Stored(e) => Entry(e, out[e]) \in olds
  BY DEF OldEntries
<1> HIDE DEF olds
<1>5. \A k \in I : k \in puts \/ (k \in idx /\ k \notin olds)
  BY DEF Reindex
<1>6. defined => puts \subseteq I
  BY DEF Reindex
<1>7. defined => \A k \in idx : k \notin olds => k \in I
  BY DEF Reindex
<1>8. ~defined => I = {}
  BY DEF Reindex
<1> HIDE DEF I
<1>9. I \subseteq Entries
  <2> SUFFICES ASSUME NEW k \in I PROVE k \in Entries
    OBVIOUS
  <2>1. CASE k \in puts
    BY <2>1, <1>1, EntryFacts
  <2>2. CASE k \in idx
    BY <2>2
  <2> QED BY <2>1, <2>2, <1>5
<1>10. Current(view, I)
  <2> SUFFICES ASSUME NEW k \in I, k[1] \in Value PROVE view[k[2]].prop = k[1]
    BY DEF Current
  <2>1. CASE k \in puts
    <3>1. PICK e \in named : k = Entry(e, view[e])
      BY <2>1, <1>1
    <3> QED BY <3>1, EntryFacts
  <2>2. CASE k \in idx /\ k \notin olds
    <3>1. out[k[2]].prop = k[1] /\ k \in Entries
      BY <2>2 DEF Current
    <3>2. k[2] \in Edge /\ Entry(k[2], out[k[2]]) = k
      BY <3>1, EntryIsKey
    <3>3. out[k[2]] # Absent
      BY <3>1, <3>2, RecordFacts
    <3>4. k[2] \notin named
      BY <3>2, <3>3, <2>2, <1>4 DEF Stored
    <3> QED BY <3>1, <3>2, <3>4
  <2> QED BY <2>1, <2>2, <1>5
<1>11. ASSUME defined, Covered(out, idx) PROVE Covered(view, I)
  <2> SUFFICES ASSUME NEW e \in Edge, view[e].prop \in Value
               PROVE  Entry(e, view[e]) \in I
    BY DEF Covered
  <2>1. CASE e \in named
    BY <2>1, <1>2, <1>6, <1>11, RecordFacts
  <2>2. CASE e \notin named
    <3>1. view[e] = out[e] /\ Entry(e, view[e]) \in idx
      BY <2>2, <1>11 DEF Covered
    <3>2. Entry(e, view[e]) \notin olds
      <4> SUFFICES ASSUME Entry(e, view[e]) \in olds PROVE FALSE
        OBVIOUS
      <4>1. PICK f \in named : Entry(e, view[e]) = Entry(f, out[f])
        BY <1>3
      <4>2. Entry(e, view[e])[2] = e /\ Entry(f, out[f])[2] = f
        BY EntryFacts
      <4> QED BY <4>1, <4>2, <2>2
    <3> QED BY <3>1, <3>2, <1>7, <1>11
  <2> QED BY <2>1, <2>2
<1> QED BY <1>8, <1>9, <1>10, <1>11 DEF I, olds

-----------------------------------------------------------------------------
(* Rows.                                                                   *)

\* The last row of a named key is one of the rows.
LEMMA FinalEdgeFacts ==
  ASSUME NEW rows \in Rows, NEW e \in Named(rows)
  PROVE  /\ e \in Edge
         /\ \E p \in Prop : FinalEdge(rows, e) = Asserted(p)
<1>1. PICK n \in 1..MaxRows : rows \in [1..n -> Row]
  BY DEF Rows
<1>2. n \in Nat /\ DOMAIN rows = 1..n
  BY <1>1, EdgeViewsAssumption
<1>3. RowsOf(rows, e) \in SUBSET Nat /\ RowsOf(rows, e) \subseteq 1..n
  BY <1>2 DEF RowsOf
<1>4. IsFiniteSet(RowsOf(rows, e))
  BY <1>2, <1>3, FS_Interval, FS_Subset
<1>5. RowsOf(rows, e) # {}
  BY DEF RowsOf, Named
<1>6. Max(RowsOf(rows, e)) \in 1..n
  BY <1>3, <1>4, <1>5, MaxExists
<1>7. rows[Max(RowsOf(rows, e))] \in Row
  BY <1>1, <1>6
<1>8. e \in Edge
  BY <1>1, <1>2 DEF Named, Row
<1> QED BY <1>7, <1>8 DEF FinalEdge, Row

-----------------------------------------------------------------------------
(* Degrees.                                                                *)

\* Deltas and counters are numbers.
LEMMA CardinalityOfEdges ==
  ASSUME NEW es \in SUBSET Edge
  PROVE  IsFiniteSet(es) /\ Cardinality(es) \in Nat
BY EdgeViewsAssumption, FS_Subset, FS_CardinalityType

LEMMA DeltaTypes ==
  ASSUME NEW es \in SUBSET Edge
  PROVE  /\ OutDelta(es) \in [Vid -> Nat]
         /\ InDelta(es) \in [Vid -> Nat]
<1>1. \A v \in Vid : {e \in es : Src(e) = v} \in SUBSET Edge /\ {e \in es : Dst(e) = v} \in SUBSET Edge
  OBVIOUS
<1> QED BY <1>1, CardinalityOfEdges DEF OutDelta, InDelta

LEMMA CounterType ==
  ASSUME NEW c \in [Vid -> Nat], NEW d \in [Vid -> Int]
  PROVE  AddCounters(c, d) \in [Vid -> Nat]
BY DEF AddCounters

-----------------------------------------------------------------------------
(* The inductive step.                                                     *)

LEMMA IndexInvInit == Init => IndexInv
<1> SUFFICES ASSUME Init PROVE IndexInv
  OBVIOUS
<1>1. TypeOK
  BY OtherRecords DEF Init, TypeOK, Record
<1> QED BY <1>1 DEF Init, IndexInv, MirrorExact, Current

\* One lemma per DML statement.
LEMMA InsertStep ==
  ASSUME IndexInv, NEW rows \in Rows, InsertEdges(rows)
  PROVE  IndexInv'
<1> USE DEF IndexInv
<1> DEFINE named == Named(rows)
<1>1. named \in SUBSET Edge
  BY FinalEdgeFacts
<1>2. \A e \in named : FinalEdge(rows, e) \in Record /\ FinalEdge(rows, e) # Absent
  BY FinalEdgeFacts, AssertedFacts
<1>3. out' \in [Edge -> Record] /\ inn' = out'
  BY <1>2 DEF InsertEdges, TypeOK, MirrorExact
<1>4. /\ \A e \in named : out'[e] = FinalEdge(rows, e)
      /\ \A e \in Edge \ named : out'[e] = out[e]
  BY <1>1 DEF InsertEdges
<1>5. {Entry(e, FinalEdge(rows, e)) : e \in named}
        = {Entry(e, out'[e]) : e \in {e \in named : out'[e] # Absent}}
  <2>1. {e \in named : out'[e] # Absent} = named
    BY <1>2, <1>4
  <2> QED BY <2>1, <1>4
<1>6. /\ idx' \subseteq Entries
      /\ Current(out', idx')
      /\ ~defined => idx' = {}
      /\ (defined /\ Covered(out, idx)) => Covered(out', idx')
  <2> DEFINE puts == {Entry(e, out'[e]) : e \in {e \in named : out'[e] # Absent}}
  <2>1. idx' = Reindex(OldEntries(named), puts)
    BY <1>5 DEF InsertEdges
  <2> HIDE DEF named
  <2> QED BY <1>1, <1>3, <1>4, <2>1, Reindexed DEF TypeOK
<1>7. outdeg' \in [Vid -> Nat] /\ indeg' \in [Vid -> Nat]
  <2>1. NewEdges(rows) \in SUBSET Edge
    BY <1>1 DEF NewEdges
  <2> QED BY <2>1, DeltaTypes, CounterType DEF InsertEdges, TypeOK
<1>8. TypeOK'
  BY <1>3, <1>6, <1>7 DEF TypeOK, InsertEdges
<1>9. ddl = "none" /\ ddl' = "none" /\ todo = {} /\ todo' = {} /\ defined' = defined /\ cut' = cut
  BY DEF InsertEdges, Admitted
<1>10. idx \cup todo = idx /\ idx' \cup todo' = idx'
  BY <1>9
<1> QED BY <1>3, <1>6, <1>8, <1>9, <1>10 DEF MirrorExact, Current, Covered

LEMMA DeleteStep ==
  ASSUME IndexInv, NEW es \in SUBSET Edge, DeleteEdges(es)
  PROVE  IndexInv'
<1> USE DEF IndexInv
<1>1. out' \in [Edge -> Record] /\ inn' = out'
  BY OtherRecords DEF DeleteEdges, TypeOK, MirrorExact, Stored
<1>2. /\ \A e \in es : out'[e] = Absent
      /\ \A e \in Edge \ es : out'[e] = out[e]
  BY DEF DeleteEdges
<1>3. {} = {Entry(e, out'[e]) : e \in {e \in es : out'[e] # Absent}}
  <2>1. {e \in es : out'[e] # Absent} = {}
    BY <1>2
  <2> QED BY <2>1
<1>4. /\ idx' \subseteq Entries
      /\ Current(out', idx')
      /\ ~defined => idx' = {}
      /\ (defined /\ Covered(out, idx)) => Covered(out', idx')
  <2> DEFINE puts == {Entry(e, out'[e]) : e \in {e \in es : out'[e] # Absent}}
  <2>1. idx' = Reindex(OldEntries(es), puts)
    BY <1>3 DEF DeleteEdges
  <2> QED BY <1>1, <1>2, <2>1, Reindexed DEF TypeOK
<1>5. outdeg' \in [Vid -> Nat] /\ indeg' \in [Vid -> Nat]
  <2> DEFINE gone == {e \in es : Stored(e)}
  <2>1. gone \in SUBSET Edge
    OBVIOUS
  <2> HIDE DEF gone
  <2>2. Minus(OutDelta(gone)) \in [Vid -> Int] /\ Minus(InDelta(gone)) \in [Vid -> Int]
    BY <2>1, DeltaTypes DEF Minus
  <2> QED BY <2>2, CounterType DEF DeleteEdges, TypeOK, gone
<1>6. TypeOK'
  BY <1>1, <1>4, <1>5 DEF TypeOK, DeleteEdges
<1>7. ddl = "none" /\ ddl' = "none" /\ todo = {} /\ todo' = {} /\ defined' = defined /\ cut' = cut
  BY DEF DeleteEdges, Admitted
<1>8. idx \cup todo = idx /\ idx' \cup todo' = idx'
  BY <1>7
<1> QED BY <1>1, <1>4, <1>6, <1>7, <1>8 DEF MirrorExact, Current, Covered

LEMMA UpdateStep ==
  ASSUME IndexInv, NEW e \in Edge, NEW p \in Prop, UpdateEdge(e, p)
  PROVE  IndexInv'
<1> USE DEF IndexInv
<1>1. Asserted(p) \in Record /\ Asserted(p) # Absent /\ Asserted(p).prop = p
  BY AssertedFacts
<1>2. out' \in [Edge -> Record] /\ inn' = out'
  BY <1>1 DEF UpdateEdge, TypeOK, MirrorExact
<1>3. out'[e] = Asserted(p) /\ \A f \in Edge \ {e} : out'[f] = out[f]
  BY DEF UpdateEdge, TypeOK
<1>4. /\ idx' \subseteq Entries
      /\ Current(out', idx')
      /\ ~defined => idx' = {}
      /\ (defined /\ Covered(out, idx)) => Covered(out', idx')
  <2>1. CASE Entry(e, out[e]) = Entry(e, Asserted(p))
    <3>1. idx' = idx
      BY <2>1 DEF UpdateEdge
    <3>2. /\ out[e].prop \in Value => p = out[e].prop
          /\ p \in Value => p = out[e].prop
      BY <2>1, <1>1, EntryFacts
    <3>3. Current(out', idx)
      <4> SUFFICES ASSUME NEW k \in idx, k[1] \in Value PROVE out'[k[2]].prop = k[1]
        BY DEF Current
      <4>1. out[k[2]].prop = k[1] /\ k[2] \in Edge
        BY DEF Current, TypeOK, Entries
      <4> QED BY <4>1, <3>2, <1>1, <1>3
    <3>4. ASSUME Covered(out, idx) PROVE Covered(out', idx)
      <4> SUFFICES ASSUME NEW f \in Edge, out'[f].prop \in Value
                   PROVE  Entry(f, out'[f]) \in idx
        BY DEF Covered
      <4>1. CASE f = e
        <5>1. out[e].prop \in Value
          BY <4>1, <1>1, <1>3, <3>2
        <5> QED BY <4>1, <5>1, <1>3, <2>1, <3>4 DEF Covered
      <4>2. CASE f # e
        BY <4>2, <1>3, <3>4 DEF Covered
      <4> QED BY <4>1, <4>2
    <3> QED BY <3>1, <3>3, <3>4 DEF TypeOK
  <2>2. CASE Entry(e, out[e]) # Entry(e, Asserted(p))
    <3> DEFINE puts == {Entry(f, out'[f]) : f \in {f \in {e} : out'[f] # Absent}}
    <3>1. puts = {Entry(e, Asserted(p))}
      <4>1. {f \in {e} : out'[f] # Absent} = {e}
        BY <1>1, <1>3
      <4> QED BY <4>1, <1>3
    <3>2. OldEntries({e}) = {Entry(e, out[e])}
      <4>1. {f \in {e} : Stored(f)} = {e}
        BY DEF UpdateEdge
      <4> QED BY <4>1 DEF OldEntries
    <3>3. idx' = Reindex(OldEntries({e}), puts)
      BY <2>2, <3>1, <3>2 DEF UpdateEdge
    <3> QED BY <1>2, <1>3, <3>3, Reindexed DEF TypeOK
  <2> QED BY <2>1, <2>2
<1>5. outdeg' \in [Vid -> Nat] /\ indeg' \in [Vid -> Nat]
  <2>1. ASSUME NEW es \in SUBSET Edge
        PROVE  AddCounters(outdeg, OutDelta(es)) \in [Vid -> Nat] /\ AddCounters(indeg, InDelta(es)) \in [Vid -> Nat]
    BY DeltaTypes, CounterType DEF TypeOK
  <2>2. (IF out[e].inferred THEN {e} ELSE {}) \in SUBSET Edge
    OBVIOUS
  <2> QED BY <2>1, <2>2 DEF UpdateEdge
<1>6. TypeOK'
  BY <1>2, <1>4, <1>5 DEF TypeOK, UpdateEdge
<1>7. ddl = "none" /\ ddl' = "none" /\ todo = {} /\ todo' = {} /\ defined' = defined /\ cut' = cut
  BY DEF UpdateEdge, Admitted
<1>8. idx \cup todo = idx /\ idx' \cup todo' = idx'
  BY <1>7
<1> QED BY <1>2, <1>4, <1>6, <1>7, <1>8 DEF MirrorExact, Current, Covered

\* A rebuild changes no record that holds a value.
LEMMA RebuildStep ==
  ASSUME IndexInv, NEW derived \in SUBSET Derivable, Rebuild(derived)
  PROVE  IndexInv'
<1> USE DEF IndexInv
<1>1. out' \in [Edge -> Record] /\ inn' = out'
  BY OtherRecords DEF Rebuild, ForwardView, ReverseView, TypeOK
<1>2. \A e \in Edge :
        \/ out'[e] = out[e]
        \/ out'[e].prop \notin Value /\ out[e].prop \notin Value
  <2> TAKE e \in Edge
  <2>1. CASE IsAsserted(e)
    <3>1. out' = ForwardView(derived)
      BY DEF Rebuild
    <3>2. ForwardView(derived)[e] = out[e]
      BY <2>1 DEF ForwardView
    <3> QED BY <3>1, <3>2
  <2>2. CASE ~IsAsserted(e)
    <3>1. out[e].prop \notin Value
      BY <2>2, RecordFacts DEF TypeOK, IsAsserted, Stored
    <3>2. out'[e] = Inferred \/ out'[e] = Absent
      BY <2>2 DEF Rebuild, ForwardView
    <3> QED BY <3>1, <3>2, ValueLess
  <2> QED BY <2>1, <2>2
<1>3. ddl = "none" /\ UNCHANGED <<defined, idx, ddl, todo, cut>>
  BY DEF Rebuild, TypeOK
<1>4. TypeOK'
  BY <1>1, <1>3 DEF TypeOK, Rebuild
<1>5. Current(out', idx')
  <2> SUFFICES ASSUME NEW k \in idx, k[1] \in Value PROVE out'[k[2]].prop = k[1]
    BY <1>3 DEF Current
  <2>1. out[k[2]].prop = k[1] /\ k[2] \in Edge
    BY DEF Current, TypeOK, Entries
  <2>2. out'[k[2]] = out[k[2]]
    BY <2>1, <1>2
  <2> QED BY <2>1, <2>2
<1>6. ASSUME Covered(out, idx \cup todo) PROVE Covered(out', idx \cup todo)
  BY <1>2, <1>6 DEF Covered
<1> QED BY <1>1, <1>3, <1>4, <1>5, <1>6 DEF MirrorExact, Current, Covered

LEMMA DdlStep ==
  ASSUME IndexInv, IndexDdl
  PROVE  IndexInv'
<1> USE DEF IndexInv
<1>0. UNCHANGED <<out, inn, outdeg, indeg, dirty>>
  BY DEF IndexDdl, CreateIndex, BackfillChunk, CreateIndexDone, DropIndex,
         DeleteIndexEntry, DeletePersistedDef, Cut, data
<1>1. CASE CreateIndex
  <2>1. todo' \subseteq Entries /\ Current(out, todo') /\ Covered(out, todo')
    <3>1. \A e \in Edge : Stored(e) => Entry(e, out[e]) \in todo'
      BY <1>1 DEF CreateIndex, BackfillEntries
    <3>2. \A k \in todo' : \E e \in Edge : k = Entry(e, out[e])
      BY <1>1 DEF CreateIndex, BackfillEntries
    <3>3. \A e \in Edge : out[e].prop \in Value => Stored(e)
      BY RecordFacts DEF TypeOK, Stored
    <3> HIDE DEF IndexInv
    <3>4. \A k \in todo' : k \in Entries /\ (k[1] \in Value => out[k[2]].prop = k[1])
      BY <3>2, EntryFacts
    <3> QED BY <3>1, <3>3, <3>4 DEF Current, Covered
  <2>2. /\ idx = {} /\ idx' = idx /\ ddl' = "backfill" /\ defined' /\ ~dirty
        /\ cut' = cut
    BY <1>1 DEF CreateIndex, Admitted
  <2> QED BY <1>0, <2>1, <2>2 DEF TypeOK, MirrorExact, Current, Covered
<1>2. CASE \E chunk \in (SUBSET todo) \ {{}} : BackfillChunk(chunk)
  <2>1. PICK chunk \in SUBSET todo : BackfillChunk(chunk)
    BY <1>2
  <2>2. /\ ddl = "backfill" /\ ddl' = ddl /\ defined' = defined /\ cut' = cut
        /\ idx' = idx \cup chunk /\ todo' = todo \ chunk
    BY <2>1 DEF BackfillChunk
  <2>3. idx' \cup todo' = idx \cup todo
    BY <2>2
  <2> QED BY <1>0, <2>2, <2>3 DEF TypeOK, MirrorExact, Current, Covered
<1>3. CASE CreateIndexDone
  BY <1>0, <1>3 DEF CreateIndexDone, TypeOK, MirrorExact, Current, Covered
<1>4. CASE DropIndex
  BY <1>0, <1>4 DEF DropIndex, Admitted, TypeOK, MirrorExact, Current
<1>5. CASE \E k \in todo : DeleteIndexEntry(k)
  BY <1>0, <1>5 DEF DeleteIndexEntry, TypeOK, MirrorExact, Current
<1>6. CASE DeletePersistedDef
  BY <1>0, <1>6 DEF DeletePersistedDef, TypeOK, MirrorExact, Current
<1>7. CASE Cut
  BY <1>0, <1>7 DEF Cut, TypeOK, MirrorExact, Current
<1> QED BY <1>1, <1>2, <1>3, <1>4, <1>5, <1>6, <1>7 DEF IndexDdl

LEMMA IndexInvStep == IndexInv /\ [Next]_vars => IndexInv'
<1> SUFFICES ASSUME IndexInv, [Next]_vars PROVE IndexInv'
  OBVIOUS
<1>1. CASE \E rows \in Rows : InsertEdges(rows)
  BY <1>1, InsertStep
<1>2. CASE \E e \in Edge, p \in Prop : UpdateEdge(e, p)
  BY <1>2, UpdateStep
<1>3. CASE \E es \in (SUBSET Edge) \ {{}} : DeleteEdges(es)
  BY <1>3, DeleteStep
<1>4. CASE \E derived \in SUBSET Derivable : Rebuild(derived)
  BY <1>4, RebuildStep
<1>5. CASE IndexDdl
  BY <1>5, DdlStep
<1>6. CASE UNCHANGED vars
  BY <1>6 DEF vars, IndexInv, TypeOK, MirrorExact, Current, Covered, Entry
<1> QED BY <1>1, <1>2, <1>3, <1>4, <1>5, <1>6 DEF Next, Dml

\* For every set of edges, values and statements, the records, counters and
\* index entries of the edges agree in every reachable state: the inductive
\* invariant the theorems below rest on.
THEOREM IndexInvHolds == Spec => []IndexInv
BY IndexInvInit, IndexInvStep, PTL DEF Spec

\* For every set of edges, the in-edge records equal the edge records in every
\* reachable state of INSERT, UPDATE, DELETE and rebuilds.
THEOREM MirrorAlwaysExact == Spec => []MirrorExact
<1>1. IndexInv => MirrorExact
  BY DEF IndexInv
<1> QED BY <1>1, IndexInvHolds, PTL

\* No index entry with a value is stale, and a dropped index leaves none.
THEOREM EntriesAlwaysCurrent == Spec => []EntriesCurrent
<1>1. IndexInv => EntriesCurrent
  BY DEF IndexInv, EntriesCurrent, Current
<1> QED BY <1>1, IndexInvHolds, PTL

\* For every set of edges, values and every budget, LOOKUP through an index
\* whose DDL was not cut returns what the scan returns, or fails.
THEOREM LookupAlwaysExact == Spec => []LookupExact
<1>1. IndexInv => LookupExact
  <2> SUFFICES ASSUME IndexInv, defined, ddl = "none", ~cut, NEW v \in Value
               PROVE  IndexMatches(v) = ScanMatches(v)
    BY DEF LookupExact
  <2>1. Covered(out, idx)
    BY DEF IndexInv
  <2>2. \A e \in Edge : Stored(e) /\ out[e].prop = v => <<v, e>> \in idx
    BY <2>1 DEF Covered, Entry, IndexValue
  <2> QED BY <2>2 DEF IndexMatches, ScanMatches, Candidates
<1> QED BY <1>1, IndexInvHolds, PTL

-----------------------------------------------------------------------------
(* Degree counters.                                                        *)

AssertedEdges == {e \in Edge : IsAsserted(e)}

LEMMA DisjointUnion ==
  ASSUME NEW A \in SUBSET Edge, NEW B \in SUBSET Edge, A \cap B = {}
  PROVE  Cardinality(A \cup B) = Cardinality(A) + Cardinality(B)
<1>1. IsFiniteSet(A) /\ IsFiniteSet(B) /\ Cardinality(A) \in Nat /\ Cardinality(B) \in Nat
  BY CardinalityOfEdges
<1>2. Cardinality(A \cap B) = 0
  BY FS_EmptySet
<1>3. Cardinality(A \cup B) = Cardinality(A) + Cardinality(B) - Cardinality(A \cap B)
  BY <1>1, FS_Union
<1> QED BY <1>1, <1>2, <1>3

LEMMA AddedPointwise ==
  ASSUME NEW c \in [Vid -> Nat], NEW d \in [Vid -> Nat], NEW r \in [Vid -> Nat],
         \A v \in Vid : r[v] = c[v] + d[v]
  PROVE  AddCounters(c, d) = r
<1>1. \A v \in Vid : r[v] = IF c[v] + d[v] > 0 THEN c[v] + d[v] ELSE 0
  OBVIOUS
<1> QED BY <1>1 DEF AddCounters

\* Adding edges that were not counted, and removing edges that were.
LEMMA CountAdded ==
  ASSUME NEW A \in SUBSET Edge, NEW B \in SUBSET Edge, A \cap B = {}
  PROVE  /\ AddCounters(OutDelta(A), OutDelta(B)) = OutDelta(A \cup B)
         /\ AddCounters(InDelta(A), InDelta(B)) = InDelta(A \cup B)
<1>1. ASSUME NEW v \in Vid
      PROVE  OutDelta(A \cup B)[v] = OutDelta(A)[v] + OutDelta(B)[v]
  <2> DEFINE At(S) == {e \in S : Src(e) = v}
  <2>1. At(A \cup B) = At(A) \cup At(B) /\ At(A) \cap At(B) = {}
    OBVIOUS
  <2>2. At(A) \in SUBSET Edge /\ At(B) \in SUBSET Edge
    OBVIOUS
  <2> HIDE DEF At
  <2>3. Cardinality(At(A \cup B)) = Cardinality(At(A)) + Cardinality(At(B))
    BY <2>1, <2>2, DisjointUnion
  <2> QED BY <2>3 DEF OutDelta, At
<1>2. ASSUME NEW v \in Vid
      PROVE  InDelta(A \cup B)[v] = InDelta(A)[v] + InDelta(B)[v]
  <2> DEFINE At(S) == {e \in S : Dst(e) = v}
  <2>1. At(A \cup B) = At(A) \cup At(B) /\ At(A) \cap At(B) = {}
    OBVIOUS
  <2>2. At(A) \in SUBSET Edge /\ At(B) \in SUBSET Edge
    OBVIOUS
  <2> HIDE DEF At
  <2>3. Cardinality(At(A \cup B)) = Cardinality(At(A)) + Cardinality(At(B))
    BY <2>1, <2>2, DisjointUnion
  <2> QED BY <2>3 DEF InDelta, At
<1>3. /\ OutDelta(A) \in [Vid -> Nat] /\ OutDelta(B) \in [Vid -> Nat]
      /\ InDelta(A) \in [Vid -> Nat] /\ InDelta(B) \in [Vid -> Nat]
      /\ OutDelta(A \cup B) \in [Vid -> Nat] /\ InDelta(A \cup B) \in [Vid -> Nat]
  BY DeltaTypes
<1>4. AddCounters(OutDelta(A), OutDelta(B)) = OutDelta(A \cup B)
  <2>1. \A v \in Vid : OutDelta(A \cup B)[v] = OutDelta(A)[v] + OutDelta(B)[v]
    BY <1>1
  <2> QED BY ONLY <2>1, <1>3, AddedPointwise
<1>5. AddCounters(InDelta(A), InDelta(B)) = InDelta(A \cup B)
  <2>1. \A v \in Vid : InDelta(A \cup B)[v] = InDelta(A)[v] + InDelta(B)[v]
    BY <1>2
  <2> QED BY ONLY <2>1, <1>3, AddedPointwise
<1> QED BY <1>4, <1>5

LEMMA CountRemoved ==
  ASSUME NEW A \in SUBSET Edge, NEW B \in SUBSET A
  PROVE  /\ AddCounters(OutDelta(A), Minus(OutDelta(B))) = OutDelta(A \ B)
         /\ AddCounters(InDelta(A), Minus(InDelta(B))) = InDelta(A \ B)
<1> DEFINE C == A \ B
<1>1. A = C \cup B /\ C \cap B = {} /\ C \in SUBSET Edge /\ B \in SUBSET Edge
  OBVIOUS
<1> HIDE DEF C
<1>2. /\ OutDelta(C) \in [Vid -> Nat] /\ OutDelta(B) \in [Vid -> Nat]
      /\ InDelta(C) \in [Vid -> Nat] /\ InDelta(B) \in [Vid -> Nat]
  BY <1>1, DeltaTypes
<1>3. /\ AddCounters(OutDelta(C), OutDelta(B)) = OutDelta(A)
      /\ AddCounters(InDelta(C), InDelta(B)) = InDelta(A)
  BY <1>1, CountAdded
<1>4. \A v \in Vid : /\ OutDelta(A)[v] = OutDelta(C)[v] + OutDelta(B)[v]
                     /\ InDelta(A)[v] = InDelta(C)[v] + InDelta(B)[v]
  BY <1>2, <1>3 DEF AddCounters
<1>5. AddCounters(OutDelta(A), Minus(OutDelta(B))) = OutDelta(C)
  BY <1>2, <1>4 DEF AddCounters, Minus
<1>6. AddCounters(InDelta(A), Minus(InDelta(B))) = InDelta(C)
  BY <1>2, <1>4 DEF AddCounters, Minus
<1> QED BY <1>5, <1>6 DEF C

DegreeInv == outdeg = OutDelta(AssertedEdges) /\ indeg = InDelta(AssertedEdges)

LEMMA DegreeStep ==
  ASSUME IndexInv, IndexInv', DegreeInv, [Next]_vars
  PROVE  DegreeInv'
<1> DEFINE A == AssertedEdges
<1>0. A \in SUBSET Edge /\ out \in [Edge -> Record] /\ out' \in [Edge -> Record]
  BY DEF AssertedEdges, IndexInv, TypeOK
<1>a. \A e \in Edge : (e \in A <=> out[e] # Absent /\ ~out[e].inferred)
  BY DEF AssertedEdges, IsAsserted, Stored
<1>b. A' = {e \in Edge : out'[e] # Absent /\ ~out'[e].inferred}
  BY DEF AssertedEdges, IsAsserted, Stored, Absent
<1>1. ASSUME NEW rows \in Rows, InsertEdges(rows) PROVE DegreeInv'
  <2> DEFINE B == NewEdges(rows)
  <2>1. Named(rows) \in SUBSET Edge
    BY FinalEdgeFacts
  <2>2. B \in SUBSET Edge /\ A \cap B = {}
    BY <2>1 DEF NewEdges, AssertedEdges
  <2>3. \A e \in Named(rows) : out'[e] # Absent /\ ~out'[e].inferred
    BY <1>1, <2>1, FinalEdgeFacts, AssertedFacts DEF InsertEdges
  <2>4. \A e \in Edge \ Named(rows) : out'[e] = out[e]
    BY <1>1 DEF InsertEdges
  <2>5. A' = A \cup B
    BY <1>0, <1>a, <1>b, <2>1, <2>3, <2>4 DEF NewEdges, AssertedEdges
  <2>6. outdeg' = AddCounters(OutDelta(A), OutDelta(B)) /\ indeg' = AddCounters(InDelta(A), InDelta(B))
    BY <1>1 DEF InsertEdges, DegreeInv
  <2> HIDE DEF A, B
  <2>7. outdeg' = OutDelta(A \cup B) /\ indeg' = InDelta(A \cup B)
    BY <1>0, <2>2, <2>6, CountAdded
  <2>8. outdeg' = OutDelta(A') /\ indeg' = InDelta(A')
    BY <2>5, <2>7
  <2> QED BY <2>8 DEF DegreeInv, A, OutDelta, InDelta
<1>2. ASSUME NEW e \in Edge, NEW p \in Prop, UpdateEdge(e, p) PROVE DegreeInv'
  <2> DEFINE B == IF out[e].inferred THEN {e} ELSE {}
  <2>1. B \in SUBSET Edge /\ A \cap B = {}
    BY <1>a
  <2>2. out'[e] = Asserted(p) /\ \A f \in Edge \ {e} : out'[f] = out[f]
    BY <1>0, <1>2 DEF UpdateEdge
  <2>3. out'[e] # Absent /\ ~out'[e].inferred /\ out[e] # Absent
    BY <1>2, <2>2, AssertedFacts DEF UpdateEdge, Stored
  <2>4. A' = A \cup B
    BY <1>0, <1>a, <1>b, <2>2, <2>3
  <2>5. outdeg' = AddCounters(OutDelta(A), OutDelta(B)) /\ indeg' = AddCounters(InDelta(A), InDelta(B))
    BY <1>2 DEF UpdateEdge, DegreeInv
  <2> HIDE DEF A, B
  <2>6. outdeg' = OutDelta(A \cup B) /\ indeg' = InDelta(A \cup B)
    BY <1>0, <2>1, <2>5, CountAdded
  <2>7. outdeg' = OutDelta(A') /\ indeg' = InDelta(A')
    BY <2>4, <2>6
  <2> QED BY <2>7 DEF DegreeInv, A, OutDelta, InDelta
<1>3. ASSUME NEW es \in SUBSET Edge, DeleteEdges(es) PROVE DegreeInv'
  <2> DEFINE B == {e \in es : Stored(e)}
  <2>1. B \in SUBSET A
    BY <1>3, <1>a DEF DeleteEdges, Stored
  <2>2. \A e \in Edge : out'[e] = IF e \in es THEN Absent ELSE out[e]
    BY <1>3 DEF DeleteEdges
  <2>3. A' = A \ B
    BY <1>0, <1>a, <1>b, <2>2 DEF Stored
  <2>4. /\ outdeg' = AddCounters(OutDelta(A), Minus(OutDelta(B)))
        /\ indeg' = AddCounters(InDelta(A), Minus(InDelta(B)))
    BY <1>3 DEF DeleteEdges, DegreeInv
  <2> HIDE DEF A, B
  <2>5. outdeg' = OutDelta(A \ B) /\ indeg' = InDelta(A \ B)
    BY <1>0, <2>1, <2>4, CountRemoved
  <2>6. outdeg' = OutDelta(A') /\ indeg' = InDelta(A')
    BY <2>3, <2>5
  <2> QED BY <2>6 DEF DegreeInv, A, OutDelta, InDelta
<1>4. ASSUME A' = A, UNCHANGED <<outdeg, indeg>> PROVE DegreeInv'
  BY <1>4 DEF DegreeInv, OutDelta, InDelta
<1>5. ASSUME NEW derived \in SUBSET Derivable, Rebuild(derived) PROVE DegreeInv'
  <2>1. out' = ForwardView(derived)
    BY <1>5 DEF Rebuild
  <2>2. \A e \in Edge : (e \in A => out'[e] = out[e]) /\ (e \notin A => out'[e] \in {Inferred, Absent})
    BY <2>1 DEF ForwardView, AssertedEdges
  <2>3. \A e \in Edge : e \in A' <=> e \in A
    BY <1>a, <1>b, <2>2 DEF Inferred
  <2>4. A' = A
    BY <1>0, <1>b, <2>3
  <2> QED BY <2>4, <1>4, <1>5 DEF Rebuild
<1>6. ASSUME UNCHANGED <<out, outdeg, indeg>> PROVE DegreeInv'
  BY <1>6, <1>4 DEF AssertedEdges, IsAsserted, Stored
<1>7. CASE IndexDdl
  BY <1>6, <1>7 DEF IndexDdl, CreateIndex, BackfillChunk, CreateIndexDone, DropIndex,
         DeleteIndexEntry, DeletePersistedDef, Cut, data
<1>8. CASE UNCHANGED vars
  BY <1>6, <1>8 DEF vars
<1> QED BY <1>1, <1>2, <1>3, <1>5, <1>7, <1>8 DEF Next, Dml

\* For every set of edges, both degree counters of every vertex are the numbers
\* of its asserted edges, through reinsertion, derivation, promotion and
\* deletion in any order.
THEOREM DegreesAlwaysExact == Spec => []DegreesExact
<1>1. Init => DegreeInv
  <2> SUFFICES ASSUME Init PROVE DegreeInv
    OBVIOUS
  <2>1. AssertedEdges = {}
    BY DEF Init, AssertedEdges, IsAsserted, Stored
  <2>2. OutDelta({}) = [v \in Vid |-> 0] /\ InDelta({}) = [v \in Vid |-> 0]
    BY FS_EmptySet DEF OutDelta, InDelta
  <2> QED BY <2>1, <2>2 DEF Init, DegreeInv
<1>2. DegreeInv => DegreesExact
  <2> SUFFICES ASSUME DegreeInv, NEW v \in Vid
               PROVE  /\ outdeg[v] = Cardinality({e \in Edge : IsAsserted(e) /\ Src(e) = v})
                      /\ indeg[v] = Cardinality({e \in Edge : IsAsserted(e) /\ Dst(e) = v})
    BY DEF DegreesExact
  <2>1. /\ {e \in AssertedEdges : Src(e) = v} = {e \in Edge : IsAsserted(e) /\ Src(e) = v}
        /\ {e \in AssertedEdges : Dst(e) = v} = {e \in Edge : IsAsserted(e) /\ Dst(e) = v}
    BY DEF AssertedEdges
  <2> QED BY <2>1 DEF DegreeInv, OutDelta, InDelta
<1>3. IndexInv /\ IndexInv' /\ DegreeInv /\ [Next]_vars => DegreeInv'
  BY DegreeStep
<1> QED BY <1>1, <1>2, <1>3, IndexInvHolds, PTL DEF Spec
=============================================================================
