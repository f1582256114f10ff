------------------------ MODULE VersionHistoryProofs ------------------------
(***************************************************************************)
(* The version history for every number of spaces, entities and rows: when *)
(* no commit outlives its request and restarts wait for the clock, the     *)
(* current view is the newest version, versions are never overwritten and  *)
(* the past is fixed.  The seek of the ordered backends resolves as the    *)
(* reference scan does.                                                    *)
(***************************************************************************)
EXTENDS VersionHistory, FiniteSetTheorems, TLAPS

\* A finite set of naturals that is not empty has a largest element: the
\* sets of larger elements are well founded under strict inclusion.
Above(S, i) == {j \in S : j > i}

LEMMA MaxExists ==
  ASSUME NEW S \in SUBSET Nat, IsFiniteSet(S), S # {}
  PROVE  Max(S) \in S /\ \A y \in S : Max(S) >= y
<1> DEFINE T == {Above(S, i) : i \in S}
           R == StrictSubsetOrdering(S)
<1>1. IsWellFoundedOn(R, SUBSET S)
  BY FS_StrictSubsetOrderingWellFounded, FS_FiniteSubsetsOfFinite
<1>2. T \subseteq SUBSET S /\ T # {}
  BY DEF Above
<1> HIDE DEF R
<1>3. PICK x \in T : \A y \in T : ~(<<y, x>> \in R)
  BY <1>1, <1>2, WFMin
<1>4. PICK i \in S : x = Above(S, i)
  OBVIOUS
<1>5. \A j \in S : i >= j
  <2> SUFFICES ASSUME NEW j \in S, j > i PROVE FALSE
    OBVIOUS
  <2>1. Above(S, j) \subseteq Above(S, i) /\ Above(S, j) # Above(S, i)
    <3>0. i \in Int /\ j \in Int
      OBVIOUS
    <3>1. j \in Above(S, i) /\ j \notin Above(S, j)
      BY <3>0 DEF Above
    <3>2. \A k \in S : k > j => k > i
      <4> TAKE k \in S
      <4>1. k \in Int
        OBVIOUS
      <4> QED BY <3>0, <4>1
    <3>3. Above(S, j) \subseteq Above(S, i)
      BY <3>2 DEF Above
    <3> QED BY <3>1, <3>3
  <2>2. Above(S, j) \in T /\ Above(S, i) \in SUBSET S /\ Above(S, j) \in SUBSET S
    BY DEF Above
  <2>3. <<Above(S, j), Above(S, i)>> \in R
    BY <2>1, <2>2 DEF R, StrictSubsetOrdering
  <2> QED BY <2>2, <2>3, <1>3, <1>4
<1> QED BY <1>5 DEF Max

\* The seek finds the rows that the scan finds, and its first row is the best:
\* for every table, entity and pair of times, get_as_of of the ordered
\* backends returns what the trait's default returns.
THEOREM SeekIsScan ==
  ASSUME NEW table, NEW e, NEW validAt \in Int, NEW txAt \in Int,
         \A v \in table : v.from \in Int /\ v.to \in Int /\ v.tx \in Int
  PROVE  get_as_of(table, e, validAt, txAt) = ScanAsOf(table, e, validAt, txAt)
<1> DEFINE hits == ScanHits(table, e, validAt, txAt)
<1>0. TimeMax \in Int
  BY TimeAssumption
<1>1. \A a1, a2, b1, b2 \in Int :
        KeyLeq(history_key(a1, a2), history_key(b1, b2)) <=> b1 < a1 \/ (b1 = a1 /\ b2 <= a2)
  BY <1>0 DEF KeyLeq, history_key, desc_i64
<1>2. \A v \in table :
        (KeyLeq(history_key(validAt, txAt), history_key(v.from, v.tx)) /\ Qualifies(v, validAt, txAt))
          <=> (v.tx <= txAt /\ v.from <= validAt /\ validAt < v.to)
  BY <1>1 DEF Qualifies
<1>3. SeekHits(table, e, validAt, txAt) = hits
  BY <1>2 DEF SeekHits, ScanHits, Versions
<1>4. hits \subseteq table
  BY DEF ScanHits, Versions
<1>5. \A v : (v \in hits /\ IsFirst(v, hits)) <=> (v \in hits /\ IsBest(v, hits))
  BY <1>1, <1>4 DEF IsFirst, IsBest
<1> HIDE DEF hits
<1>6. (CHOOSE v \in hits : IsFirst(v, hits)) = (CHOOSE v \in hits : IsBest(v, hits))
  BY <1>5, Zenon
<1>7. get_as_of(table, e, validAt, txAt) =
        IF hits = {} THEN None ELSE (CHOOSE v \in hits : IsFirst(v, hits)).value
  <2> DEFINE seek == SeekHits(table, e, validAt, txAt)
  <2>1. get_as_of(table, e, validAt, txAt) =
          IF seek = {} THEN None ELSE (CHOOSE v \in seek : IsFirst(v, seek)).value
    BY Zenon DEF get_as_of
  <2> HIDE DEF seek
  <2>2. seek = hits
    BY <1>3 DEF seek
  <2> QED BY <2>1, <2>2
<1>8. ScanAsOf(table, e, validAt, txAt) =
        IF hits = {} THEN None ELSE (CHOOSE v \in hits : IsBest(v, hits)).value
  BY Zenon DEF ScanAsOf, hits
<1> QED BY <1>6, <1>7, <1>8, Zenon

-----------------------------------------------------------------------------
(* The table and the view after a batch.                                   *)

LEMMA VersionFacts ==
  ASSUME NEW v \in Version
  PROVE  /\ v.entity \in Entity
         /\ v.from \in Int /\ v.tx \in Int /\ 0 <= v.tx /\ v.tx <= MaxTx /\ v.from <= MaxTx
         /\ v.value \in Payload \cup {Empty}
  BY HistoryAssumption DEF Version

LEMMA PresentFacts ==
  ASSUME NEW x \in Payload \cup {Empty}
  PROVE  Present(x) \in Payload \cup {None}
  BY DEF Present

\* Rows whose keys are new are added beside the others.
LEMMA InsertGrows ==
  ASSUME NEW table, NEW rows, \A v \in table, w \in rows : ~SameKey(v, w)
  PROVE  AppendVersions(table, rows) = table \cup rows
  BY DEF AppendVersions, Insert

\* A batch whose times grow, beyond those of its entities' versions, leaves the
\* newest version of every entity in the view.
LEMMA NewestAfter ==
  ASSUME NEW table \in SUBSET Version, NEW view, NewestIs(table, view),
         NEW rows \in Seq(Version),
         \A i, j \in DOMAIN rows : i < j => rows[i].tx < rows[j].tx,
         \A i \in DOMAIN rows : \A v \in table :
            v.entity = rows[i].entity => v.tx < rows[i].tx
  PROVE  NewestIs(table \cup Range(rows), Apply(view, rows))
<1> SUFFICES ASSUME NEW e \in Entity
             PROVE  LET vs == Versions(table \cup Range(rows), e)
                    IN  IF vs = {} THEN Apply(view, rows)[e] = None
                        ELSE \E v \in vs : /\ \A w \in vs : w.tx <= v.tx
                                           /\ Apply(view, rows)[e] = Present(v.value)
  BY Zenon DEF NewestIs
<1> DEFINE vs == Versions(table \cup Range(rows), e)
           I == RowsOf(rows, e)
<1>0. Apply(view, rows)[e] = Written(view, rows, e)
  BY DEF Apply
<1>00. \A i \in DOMAIN rows : rows[i] \in Version /\ i \in Nat
  OBVIOUS
<1>01. \A v \in Version : v.tx \in Int
  BY VersionFacts
<1>1. CASE I = {}
  <2>1. vs = Versions(table, e)
    BY <1>1 DEF Versions, RowsOf, Range
  <2>2. Written(view, rows, e) = view[e]
    BY <1>1 DEF Written
  <2> QED BY <1>0, <2>1, <2>2 DEF NewestIs
<1>2. CASE I # {}
  <2>1. I \in SUBSET Nat /\ IsFiniteSet(I)
    <3>1. DOMAIN rows = 1..Len(rows) /\ Len(rows) \in Nat
      OBVIOUS
    <3>2. IsFiniteSet(1..Len(rows))
      BY <3>1, FS_Interval
    <3>3. I \subseteq 1..Len(rows)
      BY <3>1 DEF RowsOf
    <3> QED BY <3>1, <3>2, <3>3, FS_Subset
  <2> DEFINE m == Max(I)
  <2>2. m \in I /\ \A i \in I : m >= i
    BY <1>2, <2>1, MaxExists
  <2> HIDE DEF m
  <2>3. m \in DOMAIN rows /\ rows[m].entity = e
    BY <2>2 DEF RowsOf
  <2>4. rows[m] \in vs
    BY <2>3 DEF Versions, Range
  <2>5. \A w \in vs : w.tx <= rows[m].tx
    <3> SUFFICES ASSUME NEW w \in vs PROVE w.tx <= rows[m].tx
      OBVIOUS
    <3>1. w.entity = e /\ (w \in table \/ \E i \in DOMAIN rows : w = rows[i])
      BY DEF Versions, Range
    <3>2. CASE w \in table
      <4>1. w.tx < rows[m].tx
        BY <2>3, <3>1, <3>2
      <4>2. w.tx \in Int /\ rows[m].tx \in Int
        BY <3>2, <2>3, <1>00, <1>01
      <4> QED BY <4>1, <4>2
    <3>3. CASE \E i \in DOMAIN rows : w = rows[i]
      <4>1. PICK i \in DOMAIN rows : w = rows[i]
        BY <3>3
      <4>2. i \in I /\ i \in Nat /\ m \in Nat
        BY <3>1, <4>1, <1>00, <2>3 DEF RowsOf
      <4>3. i = m \/ i < m
        BY <4>2, <2>2
      <4>4. w.tx \in Int /\ rows[m].tx \in Int
        BY <4>1, <2>3, <1>00, <1>01
      <4> QED BY <4>1, <4>3, <4>4, <2>3
    <3> QED BY <3>1, <3>2, <3>3
  <2>6. Written(view, rows, e) = Present(rows[m].value)
    BY <1>2 DEF Written, LastRow, m
  <2> QED BY <1>0, <2>4, <2>5, <2>6
<1> QED BY <1>1, <1>2

-----------------------------------------------------------------------------
(* The inductive invariant.                                                *)

LEMMA InitInv == Init => HistoryInv
<1> SUFFICES ASSUME Init PROVE HistoryInv
  OBVIOUS
<1> USE DEF Init
<1>1. TypeOK
  <2>1. clock \in 1..MaxClock
    BY HistoryAssumption DEF Init
  <2>2. Idle \in [busy : BOOLEAN, rows : Seq(Row), stamped : Seq(Version)]
    BY DEF Idle
  <2> QED BY <2>1, <2>2, HistoryAssumption DEF TypeOK
<1>2. \A s \in Space : StampedInOrder(s)
  BY DEF StampedInOrder, Idle
<1>3. NewestIs(history, current) /\ NewestIs(disk.history, disk.current)
  BY DEF NewestIs, Versions
<1> QED BY <1>1, <1>2, <1>3 DEF HistoryInv

\* The time of the next row is later than every time stored or stamped.
LEMMA NextTime ==
  ASSUME TypeOK
  PROVE  /\ tx_now(clock, lastTx) \in Nat
         /\ tx_now(clock, lastTx) > lastTx
         /\ tx_now(clock, lastTx) >= clock
         /\ \A v \in Version : Passed(v, lastTx, clock) => v.tx < tx_now(clock, lastTx)
<1>1. clock \in Nat /\ lastTx \in Nat
  BY HistoryAssumption DEF TypeOK
<1>2. \A v \in Version : v.tx \in Int
  BY VersionFacts
<1> QED BY <1>1, <1>2 DEF tx_now, Passed

LEMMA TickInv ==
  ASSUME HistoryInv, Tick PROVE HistoryInv'
<1> USE DEF HistoryInv, Tick
<1>0. clock \in Nat /\ MaxClock \in Nat
  BY HistoryAssumption DEF TypeOK
<1>1. TypeOK'
  BY <1>0 DEF TypeOK
<1>2. \A v \in Version : Passed(v, lastTx, clock) => Passed(v, lastTx', clock')
  BY <1>0, VersionFacts DEF Passed
<1>3. history \in SUBSET Version
  BY DEF TypeOK
<1>4. \A s \in Space : StampedInOrder(s)'
  <2> TAKE s \in Space
  <2>1. StampedInOrder(s)
    OBVIOUS
  <2>2. stmt[s].stamped \in Seq(Version)
    BY DEF TypeOK
  <2>3. \A j \in DOMAIN stmt[s].stamped : stmt[s].stamped[j] \in Version
    BY <2>2
  <2> QED BY <1>2, <2>1, <2>3 DEF StampedInOrder
<1>5. NewestIs(history, current)' /\ NewestIs(disk.history, disk.current)'
  BY DEF NewestIs
<1> QED BY <1>1, <1>2, <1>3, <1>4, <1>5

LEMMA BeginInv ==
  ASSUME HistoryInv, NEW s \in Space, NEW rows \in Statements(s), Begin(s, rows)
  PROVE  HistoryInv'
<1> USE DEF HistoryInv, Begin
<1>0. rows \in Seq(Row) /\ \A j \in DOMAIN rows : SpaceOf[rows[j].entity] = s
  <2>1. PICK n \in 1..MaxRows : rows \in [1..n -> Row]
    BY DEF Statements
  <2>2. n \in Nat
    BY <2>1, HistoryAssumption
  <2> QED BY <2>1, <2>2 DEF Statements, Legal
<1>1. stmt' = [stmt EXCEPT ![s] = Working(rows, <<>>)]
  OBVIOUS
<1>2. Working(rows, <<>>) \in [busy : BOOLEAN, rows : Seq(Row), stamped : Seq(Version)]
  BY <1>0 DEF Working
<1>3. TypeOK'
  BY <1>1, <1>2 DEF TypeOK
<1>4. lastTx' = lastTx /\ clock' = clock
  OBVIOUS
<1>5. \A r \in Space : StampedInOrder(r)'
  <2> TAKE r \in Space
  <2>1. CASE r = s
    <3>1. stmt'[s].rows = rows /\ stmt'[s].stamped = <<>>
      BY DEF TypeOK, Working
    <3> QED BY <1>0, <2>1, <3>1 DEF StampedInOrder
  <2>2. CASE r # s
    <3>1. stmt'[r] = stmt[r]
      BY <2>2 DEF TypeOK
    <3> QED BY <1>4, <3>1 DEF StampedInOrder
  <2> QED BY <2>1, <2>2
<1>6. NewestIs(history, current)' /\ NewestIs(disk.history, disk.current)'
  BY DEF NewestIs
<1> QED BY <1>3, <1>4, <1>5, <1>6

LEMMA StampInv ==
  ASSUME HistoryInv, NEW s \in Space, Stamp(s) PROVE HistoryInv'
<1> DEFINE tx == tx_now(clock, lastTx)
           new == VersionOf(Head(stmt[s].rows), tx)
           rest == Tail(stmt[s].rows)
           more == Append(stmt[s].stamped, new)
<1>0. TypeOK /\ stmt[s].rows \in Seq(Row) /\ stmt[s].stamped \in Seq(Version) /\ stmt[s].rows # <<>>
  BY DEF HistoryInv, TypeOK, Stamp
<1>1. /\ tx \in Nat /\ tx > lastTx /\ tx >= clock
      /\ \A v \in Version : Passed(v, lastTx, clock) => v.tx < tx
  BY <1>0, NextTime
<1>2. lastTx' = tx /\ tx <= MaxTx /\ clock' = clock /\ current' = current
      /\ history' = history /\ disk' = disk /\ orphans' = orphans
  BY DEF Stamp
<1>3. stmt' = [stmt EXCEPT ![s] = Working(rest, more)]
  BY DEF Stamp
<1> HIDE DEF tx
<1>4. Head(stmt[s].rows) \in Row /\ rest \in Seq(Row)
  BY <1>0
<1>5. new \in Version /\ new.tx = tx /\ new.from = tx /\ new.to = VALID_OPEN
      /\ new.entity = Head(stmt[s].rows).entity
  BY <1>1, <1>2, <1>4, HistoryAssumption DEF VersionOf, Version, Row
<1>6. clock \in Int /\ lastTx \in Int /\ MaxTx \in Int /\ TimeMax \in Int
  BY <1>0, HistoryAssumption, TimeAssumption DEF TypeOK
<1>7. \A v \in Version : Passed(v, lastTx, clock) => Passed(v, lastTx', clock')
  BY <1>1, <1>2, <1>6, VersionFacts DEF Passed
<1>8. Passed(new, lastTx', clock')
  BY <1>1, <1>2, <1>5 DEF Passed
<1> HIDE DEF new, rest
<1>9. more \in Seq(Version)
  BY <1>0, <1>5
<1>10. Working(rest, more) \in [busy : BOOLEAN, rows : Seq(Row), stamped : Seq(Version)]
  BY <1>4, <1>9 DEF Working
<1>11. TypeOK'
  BY <1>0, <1>1, <1>2, <1>3, <1>6, <1>10 DEF TypeOK
<1>12. \A r \in Space : StampedInOrder(r)'
  <2> TAKE r \in Space
  <2>0. StampedInOrder(r) /\ history \in SUBSET Version
    BY DEF HistoryInv, TypeOK
  <2>1. CASE r = s
    <3>1. stmt'[s].rows = rest /\ stmt'[s].stamped = more
      BY <1>0, <1>3 DEF TypeOK, Working
    <3>2. \A j \in DOMAIN rest : SpaceOf[rest[j].entity] = s
      <4> TAKE j \in DOMAIN rest
      <4>1. rest[j] = stmt[s].rows[j + 1] /\ j + 1 \in DOMAIN stmt[s].rows
        BY <1>0 DEF rest
      <4> QED BY <2>0, <2>1, <4>1 DEF StampedInOrder
    <3>3. SpaceOf[new.entity] = s
      <4>1. Head(stmt[s].rows) = stmt[s].rows[1] /\ 1 \in DOMAIN stmt[s].rows
        BY <1>0
      <4> QED BY <1>5, <2>0, <2>1, <4>1 DEF StampedInOrder
    <3> DEFINE old == stmt[s].stamped
               n == Len(old) + 1
    <3>4. /\ DOMAIN more = DOMAIN old \cup {n}
          /\ \A j \in DOMAIN old : more[j] = old[j] /\ j < n /\ old[j] \in Version
          /\ more[n] = new /\ n \in Nat /\ DOMAIN old \subseteq Nat
      BY <1>0, <1>9
    <3> HIDE DEF n, more
    <3>5. \A j \in DOMAIN old : SpaceOf[old[j].entity] = s /\ Passed(old[j], lastTx, clock)
      BY <2>0, <2>1 DEF StampedInOrder
    <3>6. \A j \in DOMAIN more : SpaceOf[more[j].entity] = s /\ Passed(more[j], lastTx', clock')
      <4>1. \A j \in DOMAIN old : Passed(old[j], lastTx', clock')
        BY <1>7, <3>4, <3>5
      <4> QED BY <1>8, <3>3, <3>4, <3>5, <4>1
    <3>7. \A i, j \in DOMAIN more : i < j => more[i].tx < more[j].tx
      <4> TAKE i, j \in DOMAIN more
      <4> HAVE i < j
      <4>1. i \in DOMAIN old
        BY <3>4
      <4>2. CASE j \in DOMAIN old
        BY <2>0, <2>1, <3>4, <4>1, <4>2 DEF StampedInOrder
      <4>3. CASE j = n
        BY <1>1, <1>5, <3>4, <3>5, <4>1, <4>3
      <4> QED BY <3>4, <4>2, <4>3
    <3>8. \A j \in DOMAIN more : \A v \in history :
            SpaceOf[v.entity] = s => v.tx < more[j].tx
      <4> TAKE j \in DOMAIN more
      <4> TAKE v \in history
      <4> HAVE SpaceOf[v.entity] = s
      <4>1. CASE j \in DOMAIN old
        BY <2>0, <2>1, <3>4, <4>1 DEF StampedInOrder
      <4>2. CASE j = n
        BY <1>1, <1>5, <2>0, <3>4, <4>2 DEF HistoryInv
      <4> QED BY <3>4, <4>1, <4>2
    <3> QED BY <1>2, <2>1, <3>1, <3>2, <3>6, <3>7, <3>8 DEF StampedInOrder
  <2>2. CASE r # s
    <3>1. stmt'[r] = stmt[r]
      BY <1>0, <1>3, <2>2 DEF TypeOK
    <3>2. \A j \in DOMAIN stmt[r].stamped : stmt[r].stamped[j] \in Version
      <4>1. stmt[r].stamped \in Seq(Version)
        BY <1>0 DEF TypeOK
      <4> QED BY <4>1
    <3>3. \A j \in DOMAIN stmt[r].stamped : Passed(stmt[r].stamped[j], lastTx', clock')
      BY <1>7, <2>0, <3>2 DEF StampedInOrder
    <3> QED BY <1>2, <2>0, <3>1, <3>3 DEF StampedInOrder
  <2> QED BY <2>1, <2>2
<1>13. NewestIs(history, current)' /\ NewestIs(disk.history, disk.current)'
  BY <1>2 DEF HistoryInv, NewestIs
<1>14. \A v \in history' : Passed(v, lastTx', clock')
  BY <1>0, <1>2, <1>7 DEF HistoryInv, TypeOK
<1> QED BY <1>2, <1>11, <1>12, <1>13, <1>14 DEF HistoryInv

\* What a commit does to the table and the view, while it holds the lock.
LEMMA CommitFacts ==
  ASSUME HistoryInv, NEW s \in Space, Commit(s)
  PROVE  LET rows == stmt[s].stamped
         IN  /\ rows \in Seq(Version)
             /\ history' = history \cup Range(rows)
             /\ Range(rows) \subseteq Version
             /\ \A j \in DOMAIN rows : \A v \in history :
                  SpaceOf[v.entity] = s => v.tx < rows[j].tx
             /\ \A w \in Range(rows) :
                  /\ SpaceOf[w.entity] = s
                  /\ Passed(w, lastTx, clock)
                  /\ \A v \in history : SpaceOf[v.entity] = s => v.tx < w.tx
             /\ NewestIs(history', current')
<1> DEFINE rows == stmt[s].stamped
<1>1. rows \in Seq(Version) /\ history \in SUBSET Version
  BY DEF HistoryInv, TypeOK
<1>2. StampedInOrder(s)
  BY DEF HistoryInv
<1>3. history' = AppendVersions(history, Range(rows)) /\ current' = Apply(current, rows)
  BY DEF Commit, batch_apply
<1>4. Range(rows) \subseteq Version
  BY <1>1 DEF Range
<1>5. \A w \in Range(rows) :
        /\ SpaceOf[w.entity] = s
        /\ Passed(w, lastTx, clock)
        /\ \A v \in history : SpaceOf[v.entity] = s => v.tx < w.tx
  BY <1>2 DEF StampedInOrder, Range
<1>6. \A v \in history, w \in Range(rows) : ~SameKey(v, w)
  <2> TAKE v \in history, w \in Range(rows)
  <2>1. v.tx \in Int /\ w.tx \in Int
    BY <1>1, <1>4, VersionFacts
  <2> QED BY <1>5, <2>1 DEF SameKey
<1>7. history' = history \cup Range(rows)
  BY <1>3, <1>6, InsertGrows
<1>8. NewestIs(history \cup Range(rows), Apply(current, rows))
  <2>1. NewestIs(history, current)
    BY DEF HistoryInv
  <2>2. \A i, j \in DOMAIN rows : i < j => rows[i].tx < rows[j].tx
    BY <1>2 DEF StampedInOrder
  <2>3. \A i \in DOMAIN rows : \A v \in history :
          v.entity = rows[i].entity => v.tx < rows[i].tx
    BY <1>2 DEF StampedInOrder
  <2> HIDE DEF rows
  <2> QED BY <1>1, <2>1, <2>2, <2>3, NewestAfter
<1>9. \A j \in DOMAIN rows : \A v \in history :
        SpaceOf[v.entity] = s => v.tx < rows[j].tx
  BY <1>2 DEF StampedInOrder
<1> QED BY <1>1, <1>3, <1>4, <1>5, <1>7, <1>8, <1>9

LEMMA CommitInv ==
  ASSUME HistoryInv, NEW s \in Space, Commit(s) PROVE HistoryInv'
<1> DEFINE rows == stmt[s].stamped
<1>0. TypeOK /\ history \in SUBSET Version
  BY DEF HistoryInv, TypeOK
<1>1. /\ rows \in Seq(Version)
      /\ history' = history \cup Range(rows)
      /\ Range(rows) \subseteq Version
      /\ \A w \in Range(rows) :
           /\ SpaceOf[w.entity] = s
           /\ Passed(w, lastTx, clock)
           /\ \A v \in history : SpaceOf[v.entity] = s => v.tx < w.tx
      /\ NewestIs(history', current')
  BY CommitFacts
<1>2. /\ stmt' = [stmt EXCEPT ![s] = Idle]
      /\ clock' = clock /\ lastTx' = lastTx /\ orphans' = orphans
      /\ current' = Apply(current, rows)
      /\ disk' = [current |-> current', history |-> history'] \/ disk' = disk
  BY DEF Commit, batch_apply
<1>3. \A e \in Entity : Written(current, rows, e) \in Payload \cup {None}
  <2> TAKE e \in Entity
  <2>1. CASE RowsOf(rows, e) = {}
    BY <1>0, <2>1 DEF Written, TypeOK
  <2>2. CASE RowsOf(rows, e) # {}
    <3>1. RowsOf(rows, e) \in SUBSET Nat /\ IsFiniteSet(RowsOf(rows, e))
      <4>1. DOMAIN rows = 1..Len(rows) /\ Len(rows) \in Nat
        BY <1>1
      <4>2. IsFiniteSet(1..Len(rows))
        BY <4>1, FS_Interval
      <4>3. RowsOf(rows, e) \subseteq 1..Len(rows)
        BY <4>1 DEF RowsOf
      <4> QED BY <4>1, <4>2, <4>3, FS_Subset
    <3>2. Max(RowsOf(rows, e)) \in DOMAIN rows
      BY <2>2, <3>1, MaxExists DEF RowsOf
    <3>3. LastRow(rows, e) \in Version
      BY <1>1, <3>2 DEF LastRow
    <3>4. LastRow(rows, e).value \in Payload \cup {Empty}
      BY <3>3, VersionFacts
    <3> QED BY <2>2, <3>4, PresentFacts DEF Written
  <2> QED BY <2>1, <2>2
<1>4. current' \in [Entity -> Payload \cup {None}]
  BY <1>2, <1>3 DEF Apply
<1>5. TypeOK'
  <2>1. history' \in SUBSET Version
    BY <1>0, <1>1
  <2>2. disk' \in [current : [Entity -> Payload \cup {None}], history : SUBSET Version]
    BY <1>0, <1>2, <1>4, <2>1 DEF TypeOK
  <2>3. Idle \in [busy : BOOLEAN, rows : Seq(Row), stamped : Seq(Version)]
    BY DEF Idle
  <2>4. stmt' \in [Space -> [busy : BOOLEAN, rows : Seq(Row), stamped : Seq(Version)]]
    BY <1>0, <1>2, <2>3 DEF TypeOK
  <2> QED BY <1>0, <1>2, <1>4, <2>1, <2>2, <2>4 DEF TypeOK
<1> HIDE DEF rows
<1>6. \A v \in history' : Passed(v, lastTx', clock')
  BY <1>1, <1>2 DEF HistoryInv
<1>7. \A v, w \in history' : v.entity = w.entity /\ v.tx = w.tx => v = w
  <2> TAKE v, w \in history'
  <2> HAVE v.entity = w.entity /\ v.tx = w.tx
  <2>1. v \in Version /\ w \in Version
    BY <1>0, <1>1
  <2>2. v.tx \in Int /\ w.tx \in Int
    BY <2>1, VersionFacts
  <2>3. CASE v \in history /\ w \in history
    BY <2>3 DEF HistoryInv
  <2>4. CASE v \in history /\ w \in Range(rows)
    BY <1>1, <2>2, <2>4
  <2>5. CASE w \in history /\ v \in Range(rows)
    BY <1>1, <2>2, <2>5
  <2>6. CASE v \in Range(rows) /\ w \in Range(rows)
    <3>1. PICK i \in DOMAIN rows : v = rows[i]
      BY <2>6 DEF Range
    <3>2. PICK j \in DOMAIN rows : w = rows[j]
      BY <2>6 DEF Range
    <3>3. \A k, l \in DOMAIN rows : k < l => rows[k].tx < rows[l].tx
      BY DEF HistoryInv, StampedInOrder, rows
    <3>4. i \in Nat /\ j \in Nat
      BY <1>1
    <3>5. ~(i < j) /\ ~(j < i)
      BY <2>2, <3>1, <3>2, <3>3
    <3> QED BY <3>1, <3>2, <3>4, <3>5
  <2> QED BY <1>1, <2>3, <2>4, <2>5, <2>6
<1>8. \A r \in Space : StampedInOrder(r)'
  <2> TAKE r \in Space
  <2>1. CASE r = s
    <3>1. stmt'[s].rows = <<>> /\ stmt'[s].stamped = <<>>
      BY <1>0, <1>2 DEF TypeOK, Idle
    <3> QED BY <2>1, <3>1 DEF StampedInOrder
  <2>2. CASE r # s
    <3>1. stmt'[r] = stmt[r]
      BY <1>0, <1>2, <2>2 DEF TypeOK
    <3>2. StampedInOrder(r)
      BY DEF HistoryInv
    <3>3. \A v \in history' : SpaceOf[v.entity] = r => v \in history
      BY <1>1, <2>2
    <3> QED BY <1>2, <3>1, <3>2, <3>3 DEF StampedInOrder
  <2> QED BY <2>1, <2>2
<1>9. disk'.history \subseteq history' /\ NewestIs(disk'.history, disk'.current)
  <2>1. CASE disk' = disk
    BY <1>1, <2>1 DEF HistoryInv
  <2>2. CASE disk' = [current |-> current', history |-> history']
    <3>1. disk'.history = history' /\ disk'.current = current'
      BY <2>2
    <3> QED BY <1>1, <3>1
  <2> QED BY <1>2, <2>1, <2>2
<1>10. NewestIs(history, current)' /\ NewestIs(disk.history, disk.current)'
  BY <1>1, <1>9 DEF NewestIs
<1>11. orphans' = {}
  BY <1>2 DEF HistoryInv
<1> QED BY <1>5, <1>6, <1>7, <1>8, <1>9, <1>10, <1>11 DEF HistoryInv

LEMMA CancelInv ==
  ASSUME HistoryInv, NEW s \in Space, Cancel(s) PROVE HistoryInv'
<1> USE DEF HistoryInv, Cancel
<1>1. TypeOK'
  <2>1. Idle \in [busy : BOOLEAN, rows : Seq(Row), stamped : Seq(Version)]
    BY DEF Idle
  <2> QED BY <2>1 DEF TypeOK
<1>2. \A r \in Space : StampedInOrder(r)'
  <2> TAKE r \in Space
  <2>1. CASE r = s
    <3>1. stmt'[s].rows = <<>> /\ stmt'[s].stamped = <<>>
      BY DEF TypeOK, Idle
    <3> QED BY <2>1, <3>1 DEF StampedInOrder
  <2>2. CASE r # s
    <3>1. stmt'[r] = stmt[r]
      BY <2>2 DEF TypeOK
    <3> QED BY <3>1 DEF StampedInOrder
  <2> QED BY <2>1, <2>2
<1>3. NewestIs(history, current)' /\ NewestIs(disk.history, disk.current)'
  BY DEF NewestIs
<1> QED BY <1>1, <1>2, <1>3

LEMMA RestartInv ==
  ASSUME HistoryInv, ~QuickRestart, Restart PROVE HistoryInv'
<1>0. TypeOK /\ disk.history \subseteq history /\ NewestIs(disk.history, disk.current)
  BY DEF HistoryInv
<1>1. /\ current' = disk.current /\ history' = disk.history /\ lastTx' = 0
      /\ stmt' = [s \in Space |-> Idle] /\ orphans' = {} /\ disk' = disk
      /\ clock' = clock + 1 /\ clock < MaxClock /\ clock' > lastTx
  BY DEF Restart
<1>2. clock \in Nat /\ lastTx \in Nat /\ MaxClock \in Nat /\ MaxTx \in Nat
  BY <1>0, HistoryAssumption DEF TypeOK
<1>3. TypeOK'
  <2>1. Idle \in [busy : BOOLEAN, rows : Seq(Row), stamped : Seq(Version)]
    BY DEF Idle
  <2> QED BY <1>0, <1>1, <1>2, <2>1 DEF TypeOK
<1>4. \A v \in history' : Passed(v, lastTx', clock')
  <2> TAKE v \in history'
  <2>1. v \in history /\ v \in Version /\ Passed(v, lastTx, clock)
    BY <1>0, <1>1 DEF HistoryInv, TypeOK
  <2>2. v.tx \in Int
    BY <2>1, VersionFacts
  <2> QED BY <1>1, <1>2, <2>1, <2>2 DEF Passed
<1>5. \A v, w \in history' : v.entity = w.entity /\ v.tx = w.tx => v = w
  BY <1>0, <1>1 DEF HistoryInv
<1>6. \A s \in Space : StampedInOrder(s)'
  BY <1>1 DEF StampedInOrder, Idle
<1>7. NewestIs(history, current)' /\ NewestIs(disk.history, disk.current)'
  BY <1>0, <1>1 DEF NewestIs
<1> QED BY <1>1, <1>3, <1>4, <1>5, <1>6, <1>7 DEF HistoryInv

\* Every step keeps the invariant, when no commit outlives its request and
\* restarts wait until the wall clock has passed LAST_TX.
THEOREM HistoryInvHolds ==
  ASSUME ~QuickRestart PROVE Spec => []HistoryInv
<1>1. HistoryInv /\ [Next]_vars => HistoryInv'
  <2> SUFFICES ASSUME HistoryInv, [Next]_vars PROVE HistoryInv'
    OBVIOUS
  <2>1. CASE Tick
    BY <2>1, TickInv
  <2>2. ASSUME NEW s \in Space, NEW rows \in Statements(s), Begin(s, rows) PROVE HistoryInv'
    BY <2>2, BeginInv
  <2>3. ASSUME NEW s \in Space, Stamp(s) PROVE HistoryInv'
    BY <2>3, StampInv
  <2>4. ASSUME NEW s \in Space, Commit(s) PROVE HistoryInv'
    BY <2>4, CommitInv
  <2>5. ASSUME NEW s \in Space, Cancel(s) PROVE HistoryInv'
    BY <2>5, CancelInv
  <2>6. CASE Restart
    BY <2>6, RestartInv
  <2>7. CASE UNCHANGED vars
    BY <2>7 DEF vars, HistoryInv, TypeOK, StampedInOrder, NewestIs
  <2> QED BY <2>1, <2>2, <2>3, <2>4, <2>5, <2>6, <2>7 DEF Next
<1> QED BY <1>1, InitInv, PTL DEF Spec

-----------------------------------------------------------------------------
(* What the invariant gives to readers.                                    *)

\* AS OF the latest time sees every version, and returns the newest.
LEMMA NewestIsRead ==
  ASSUME NEW table \in SUBSET Version, NEW view,
         \A v \in table : v.from = v.tx /\ v.to = VALID_OPEN,
         \A v, w \in table : v.entity = w.entity /\ v.tx = w.tx => v = w,
         NewestIs(table, view), NEW e \in Entity
  PROVE  FetchAsOf(table, e, MaxTx) = view[e]
<1> DEFINE hits == SeekHits(table, e, MaxTx, MaxTx)
           vs == Versions(table, e)
<1>0. MaxTx \in Int /\ TimeMax \in Int /\ MaxTx < TimeMax
  BY HistoryAssumption, TimeAssumption
<1>1. \A v \in table : v \in Version /\ v.from \in Int /\ v.tx \in Int
                       /\ v.tx <= MaxTx /\ v.from = v.tx /\ v.to = TimeMax
  BY VersionFacts DEF VALID_OPEN
<1>2. \A v \in table : /\ KeyLeq(history_key(MaxTx, MaxTx), history_key(v.from, v.tx))
                       /\ Qualifies(v, MaxTx, MaxTx)
  BY <1>0, <1>1 DEF KeyLeq, history_key, desc_i64, Qualifies
<1>3. hits = vs
  BY <1>2 DEF SeekHits, Versions
<1>4. get_as_of(table, e, MaxTx, MaxTx) =
        IF hits = {} THEN None ELSE (CHOOSE v \in hits : IsFirst(v, hits)).value
  BY Zenon DEF get_as_of
<1>5. vs \subseteq table /\ \A v \in vs : v.entity = e
  BY DEF Versions
<1> HIDE DEF hits, vs
<1>6. CASE vs = {}
  <2>1. view[e] = None
    BY <1>6 DEF NewestIs, vs
  <2>2. None # Empty
    BY DEF None, Empty
  <2> QED BY <1>3, <1>4, <1>6, <2>1, <2>2 DEF FetchAsOf, Present
<1>7. CASE vs # {}
  <2>1. PICK v \in vs : (\A w \in vs : w.tx <= v.tx) /\ view[e] = Present(v.value)
    BY <1>7 DEF NewestIs, vs
  <2>2. \A u \in vs : IsFirst(u, vs) <=> \A w \in vs : w.tx <= u.tx
    <3> TAKE u \in vs
    <3>1. \A w \in vs : KeyLeq(history_key(u.from, u.tx), history_key(w.from, w.tx))
                          <=> w.tx <= u.tx
      BY <1>0, <1>1, <1>5 DEF KeyLeq, history_key, desc_i64
    <3> QED BY <3>1 DEF IsFirst
  <2>3. \A u \in vs : IsFirst(u, vs) => u = v
    <3> TAKE u \in vs
    <3> HAVE IsFirst(u, vs)
    <3>1. u.tx <= v.tx /\ v.tx <= u.tx /\ u.tx \in Int /\ v.tx \in Int
      BY <2>1, <2>2, <1>1, <1>5
    <3> QED BY <3>1, <1>5
  <2>4. IsFirst(v, vs)
    BY <2>1, <2>2
  <2>5. (CHOOSE u \in vs : IsFirst(u, vs)) = v
    BY <2>3, <2>4
  <2> QED BY <1>3, <1>4, <1>7, <2>1, <2>5 DEF FetchAsOf
<1> QED BY <1>6, <1>7

\* The current view of every entity is what AS OF the latest time returns,
\* and so it is after a crash: batch_apply never lets them diverge.
THEOREM CurrentAlwaysNewest ==
  ASSUME ~QuickRestart
  PROVE  Spec => []ViewsAgree
<1>1. HistoryInv => CurrentIsNewest /\ DiskIsNewest
  <2> SUFFICES ASSUME HistoryInv PROVE CurrentIsNewest /\ DiskIsNewest
    OBVIOUS
  <2>1. /\ history \in SUBSET Version /\ disk.history \in SUBSET Version
        /\ NewestIs(history, current) /\ NewestIs(disk.history, disk.current)
        /\ disk.history \subseteq history
        /\ \A v, w \in history : v.entity = w.entity /\ v.tx = w.tx => v = w
        /\ \A v \in history : v.from = v.tx /\ v.to = VALID_OPEN
    BY DEF HistoryInv, TypeOK, Passed
  <2>2. CurrentIsNewest
    BY <2>1, NewestIsRead DEF CurrentIsNewest
  <2>3. /\ \A v \in disk.history : v.from = v.tx /\ v.to = VALID_OPEN
        /\ \A v, w \in disk.history : v.entity = w.entity /\ v.tx = w.tx => v = w
    BY <2>1
  <2>4. DiskIsNewest
    BY <2>1, <2>3, NewestIsRead DEF DiskIsNewest
  <2> QED BY <2>2, <2>4
<1> QED BY <1>1, HistoryInvHolds, PTL DEF ViewsAgree

\* Versions are never overwritten or removed, except by a crash that drops
\* what was not durable.
THEOREM HistoryAppendOnly ==
  ASSUME ~QuickRestart PROVE Spec => AppendOnly
<1>1. HistoryInv /\ [Next]_vars => [history \subseteq history' \/ history' = disk.history]_vars
  <2> SUFFICES ASSUME HistoryInv, Next
               PROVE  history \subseteq history' \/ history' = disk.history
    BY DEF vars
  <2>1. ASSUME NEW s \in Space, Commit(s) PROVE history \subseteq history'
    BY <2>1, CommitFacts
  <2> QED BY <2>1 DEF Next, Tick, Begin, Stamp, Cancel, Restart
<1> QED BY <1>1, HistoryInvHolds, PTL DEF Spec, AppendOnly

\* Once a space has a version of time t, no answer AS OF t or earlier changes
\* for any of its entities, except by a crash that drops what was not durable.
THEOREM PastAlwaysFixed ==
  ASSUME ~QuickRestart PROVE Spec => PastIsFixed
<1> DEFINE Fixed == history' = disk.history \/
             \A v \in history : \A e \in Entity :
               SpaceOf[e] = SpaceOf[v.entity] =>
                 \A t \in 0..v.tx : FetchAsOf(history', e, t) = FetchAsOf(history, e, t)
<1>1. ASSUME HistoryInv, NEW s \in Space, Commit(s),
             NEW v \in history, NEW e \in Entity, SpaceOf[e] = SpaceOf[v.entity],
             NEW t \in 0..v.tx
      PROVE  FetchAsOf(history', e, t) = FetchAsOf(history, e, t)
  <2>1. /\ history' = history \cup Range(stmt[s].stamped)
        /\ \A w \in Range(stmt[s].stamped) :
             /\ w \in Version
             /\ SpaceOf[w.entity] = s
             /\ SpaceOf[v.entity] = s => v.tx < w.tx
    BY <1>1, CommitFacts
  <2>2. v.tx \in Int
    BY <1>1, VersionFacts DEF HistoryInv, TypeOK
  <2>3. \A w \in Range(stmt[s].stamped) : w.entity = e => ~Qualifies(w, t, t)
    <3> TAKE w \in Range(stmt[s].stamped)
    <3> HAVE w.entity = e
    <3>1. v.tx < w.tx /\ w.tx \in Int
      BY <1>1, <2>1, VersionFacts
    <3> QED BY <2>2, <3>1 DEF Qualifies
  <2>4. SeekHits(history', e, t, t) = SeekHits(history, e, t, t)
    BY <2>1, <2>3 DEF SeekHits, Versions
  <2> QED BY <2>4 DEF FetchAsOf, get_as_of
<1>2. HistoryInv /\ [Next]_vars => [Fixed]_vars
  <2> SUFFICES ASSUME HistoryInv, Next PROVE Fixed
    BY DEF vars
  <2>1. ASSUME NEW s \in Space, Commit(s) PROVE Fixed
    BY <1>1, <2>1
  <2>2. CASE history' = history
    BY <2>2
  <2>3. CASE Restart
    BY <2>3 DEF Restart
  <2> QED BY <2>1, <2>2, <2>3 DEF Next, Tick, Begin, Stamp, Cancel
<1> QED BY <1>2, HistoryInvHolds, PTL DEF Spec, PastIsFixed

=============================================================================
