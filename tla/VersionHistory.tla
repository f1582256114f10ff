--------------------------- MODULE VersionHistory ---------------------------
(***************************************************************************)
(* The current view of vertices and edges and their version history        *)
(* (executor/temporal.rs, dml.rs, sameas.rs): every DML statement stamps   *)
(* its rows with a transaction time one after the other, and commits the   *)
(* current view and the versions in one transaction under the write lock   *)
(* of its space.  Statements of different spaces draw their times from the *)
(* same counter concurrently.                                              *)
(*                                                                         *)
(* The counter LAST_TX lives in memory.  It runs ahead of the wall clock   *)
(* when rows are stamped faster than one in a millisecond, and starts      *)
(* again from zero when the process does.                                  *)
(***************************************************************************)
EXTENDS AsOf, Sequences, FiniteSets, FiniteSetsExt, SequencesExt

CONSTANTS
  Space,
  Entity,       \* keys of vertices and edges
  SpaceOf,      \* the space each entity belongs to
  Payload,      \* encodings of a vertex or an edge; never empty
  MaxRows,      \* bound: rows of one statement
  MaxClock,     \* bound: wall clock
  MaxTx,        \* bound: transaction times
  MaxOrphans,   \* commits that may outlive their request
  QuickRestart  \* a restart may come before the wall clock has passed LAST_TX

ASSUME HistoryAssumption ==
  /\ SpaceOf \in [Entity -> Space]
  /\ MaxRows \in Nat /\ MaxClock \in Nat \ {0} /\ MaxTx \in Nat /\ MaxOrphans \in Nat
  /\ QuickRestart \in BOOLEAN
  /\ MaxTx < TimeMax

Empty == "empty"   \* the payload of a tombstone

ASSUME PayloadAssumption == {Empty, None} \cap Payload = {}

VARIABLES
  clock,    \* SystemTime::now, in milliseconds
  lastTx,   \* LAST_TX
  current,  \* the current view; None where there is no key
  history,  \* HISTORY_TABLE
  disk,     \* what a crash falls back to: [current, history]
  stmt,     \* per space, the statement that holds the write lock
  orphans   \* commits of cancelled requests that still run

vars == <<clock, lastTx, current, history, disk, stmt, orphans>>

\* One row of a statement: an entity and what it is overwritten with, or the
\* empty payload when it is deleted.
Row == [entity : Entity, value : Payload \cup {Empty}]
Version == [entity : Entity, from : 0..MaxTx, to : {VALID_OPEN}, tx : 0..MaxTx,
            value : Payload \cup {Empty}]

\* The statement of a space: rows yet to stamp and rows stamped.
Idle == [busy |-> FALSE, rows |-> <<>>, stamped |-> <<>>]
Working(rows, stamped) == [busy |-> TRUE, rows |-> rows, stamped |-> stamped]

Init ==
  /\ clock = 1
  /\ lastTx = 0
  /\ current = [e \in Entity |-> None]
  /\ history = {}
  /\ disk = [current |-> current, history |-> history]
  /\ stmt = [s \in Space |-> Idle]
  /\ orphans = {}

\* SystemTime::now moves on.
Tick ==
  /\ clock < MaxClock
  /\ clock' = clock + 1
  /\ UNCHANGED <<lastTx, current, history, disk, stmt, orphans>>

RowsOf(rows, e) == {i \in DOMAIN rows : rows[i].entity = e}

\* The last write to a key wins, in the overlay of the statement.
LastRow(rows, e) == rows[Max(RowsOf(rows, e))]

Present(value) == IF value = Empty THEN None ELSE value
Written(view, rows, e) ==
  IF RowsOf(rows, e) = {} THEN view[e] ELSE Present(LastRow(rows, e).value)

\* A tombstone is only written for an entity that is there: it was stored, or
\* the same statement wrote it (a sameAs edge that is merged away).
Legal(s, rows) ==
  /\ \A i \in DOMAIN rows : SpaceOf[rows[i].entity] = s
  /\ \A i \in DOMAIN rows :
       rows[i].value = Empty =>
         Written(current, SubSeq(rows, 1, i - 1), rows[i].entity) # None

Statements(s) ==
  {rows \in UNION {[1..n -> Row] : n \in 1..MaxRows} : Legal(s, rows)}

\* INSERT, UPDATE or DELETE gets the write lock and knows its rows.
Begin(s, rows) ==
  /\ ~stmt[s].busy
  /\ stmt' = [stmt EXCEPT ![s] = Working(rows, <<>>)]
  /\ UNCHANGED <<clock, lastTx, current, history, disk, orphans>>

\* Mutant: the wall clock alone.
WallClock(now, last) == now

\* tx_now.
tx_now(now, last) == IF now > last + 1 THEN now ELSE last + 1

\* build_versions and build_tombstones, one row at a time.
VersionOf(row, tx) ==
  [entity |-> row.entity, from |-> tx, to |-> VALID_OPEN, tx |-> tx, value |-> row.value]

Stamp(s) ==
  LET tx == tx_now(clock, lastTx)
      st == stmt[s]
  IN  /\ st.rows # <<>>
      /\ tx <= MaxTx
      /\ lastTx' = tx
      /\ stmt' = [stmt EXCEPT ![s] =
                    Working(Tail(st.rows), Append(st.stamped, VersionOf(Head(st.rows), tx)))]
      /\ UNCHANGED <<clock, current, history, disk, orphans>>

\* The current view after the puts and deletes of a batch.
Apply(view, rows) == [e \in Entity |-> Written(view, rows, e)]

\* Mutant: a version replaces the versions of its entity.
InsertNewest(table, rows) ==
  {v \in table : \A w \in rows : v.entity # w.entity} \cup rows

\* The versions that batch_apply appends.
AppendVersions(table, rows) == Insert(table, rows)

\* Mutant: the two tables are committed one after the other.
BatchApplySplit(rows) ==
  /\ current' = Apply(current, rows)
  /\ history' = AppendVersions(history, Range(rows))
  /\ \/ disk' = [current |-> current', history |-> history']
     \/ disk' = [current |-> current', history |-> history]

\* batch_apply: one transaction on both tables, which reaches the disk at once
\* unless durability is relaxed.
batch_apply(rows) ==
  /\ current' = Apply(current, rows)
  /\ history' = AppendVersions(history, Range(rows))
  /\ \/ disk' = [current |-> current', history |-> history']
     \/ disk' = disk

\* MutationStore::commit, after which the lock is released.
Commit(s) ==
  /\ stmt[s].busy
  /\ stmt[s].rows = <<>>
  /\ batch_apply(stmt[s].stamped)
  /\ stmt' = [stmt EXCEPT ![s] = Idle]
  /\ UNCHANGED <<clock, lastTx, orphans>>

\* The request is cancelled, or fails, before it commits.
Cancel(s) ==
  /\ stmt[s].busy
  /\ stmt' = [stmt EXCEPT ![s] = Idle]
  /\ UNCHANGED <<clock, lastTx, current, history, disk, orphans>>

\* The request is cancelled while its commit runs on a blocking thread: the
\* lock is released and the commit goes on.
Detach(s) ==
  /\ stmt[s].busy
  /\ stmt[s].rows = <<>>
  /\ Cardinality(orphans) < MaxOrphans
  /\ orphans' = orphans \cup {stmt[s].stamped}
  /\ stmt' = [stmt EXCEPT ![s] = Idle]
  /\ UNCHANGED <<clock, lastTx, current, history, disk>>

OrphanCommit(rows) ==
  /\ rows \in orphans
  /\ batch_apply(rows)
  /\ orphans' = orphans \ {rows}
  /\ UNCHANGED <<clock, lastTx, stmt>>

\* The process ends and starts again, which takes a millisecond at least.
Restart ==
  /\ clock < MaxClock
  /\ clock' = clock + 1
  /\ QuickRestart \/ clock' > lastTx
  /\ current' = disk.current
  /\ history' = disk.history
  /\ lastTx' = 0
  /\ stmt' = [s \in Space |-> Idle]
  /\ orphans' = {}
  /\ UNCHANGED disk

Next ==
  \/ Tick
  \/ \E s \in Space : \E rows \in Statements(s) : Begin(s, rows)
  \/ \E s \in Space : Stamp(s) \/ Commit(s) \/ Cancel(s)
  \/ Restart

Spec == Init /\ [][Next]_vars

\* With commits that outlive their request.
DetachSpec ==
  Init /\ [][Next \/ (\E s \in Space : Detach(s))
                 \/ (\E rows \in orphans : OrphanCommit(rows))]_vars

-----------------------------------------------------------------------------
(* FETCH ... AS OF t resolves both axes at t; an empty payload is absence. *)

FetchAsOf(table, e, t) == Present(get_as_of(table, e, t, t))

-----------------------------------------------------------------------------
(* Properties.                                                             *)

\* The type invariant.
TypeOK ==
  /\ clock \in 1..MaxClock
  /\ lastTx \in 0..MaxTx
  /\ current \in [Entity -> Payload \cup {None}]
  /\ history \subseteq Version
  /\ disk \in [current : [Entity -> Payload \cup {None}], history : SUBSET Version]
  /\ stmt \in [Space -> [busy : BOOLEAN, rows : Seq(Row), stamped : Seq(Version)]]
  /\ orphans \subseteq Seq(Version)

\* The current view of every entity is what AS OF the latest transaction time
\* returns: the view and its history never diverge, not after statements that
\* write a key twice, not across restarts.
CurrentIsNewest ==
  \A e \in Entity : FetchAsOf(history, e, MaxTx) = current[e]

\* The same of what a crash would fall back to.
DiskIsNewest ==
  \A e \in Entity : FetchAsOf(disk.history, e, MaxTx) = disk.current[e]

\* Both: current view and history agree, in memory and on disk.
ViewsAgree == CurrentIsNewest /\ DiskIsNewest

\* A version, once written, is never overwritten or removed, except that a
\* crash drops what was not durable: no two writes ever share a history key.
AppendOnly == [][history \subseteq history' \/ history' = disk.history]_vars

\* The inductive invariant behind them, when no commit outlives its request
\* and restarts wait for the clock: every stored time is one the counter or the
\* clock has passed, times grow along a statement and beyond every version of
\* its space, and the newest version of an entity is its current value.
NewestIs(table, view) ==
  \A e \in Entity :
    IF Versions(table, e) = {} THEN view[e] = None
    ELSE \E v \in Versions(table, e) :
           /\ \A w \in Versions(table, e) : w.tx <= v.tx
           /\ view[e] = Present(v.value)

Passed(v, last, now) == v.from = v.tx /\ v.to = VALID_OPEN /\ (v.tx <= last \/ v.tx < now)

StampedInOrder(s) ==
  LET vs == stmt[s].stamped
  IN  /\ \A i \in DOMAIN stmt[s].rows : SpaceOf[stmt[s].rows[i].entity] = s
      /\ \A i \in DOMAIN vs : SpaceOf[vs[i].entity] = s /\ Passed(vs[i], lastTx, clock)
      /\ \A i, j \in DOMAIN vs : i < j => vs[i].tx < vs[j].tx
      /\ \A i \in DOMAIN vs : \A v \in history :
            SpaceOf[v.entity] = s => v.tx < vs[i].tx

HistoryInv ==
  /\ TypeOK
  /\ orphans = {}
  /\ disk.history \subseteq history
  /\ \A v \in history : Passed(v, lastTx, clock)
  /\ \A v, w \in history : v.entity = w.entity /\ v.tx = w.tx => v = w
  /\ \A s \in Space : StampedInOrder(s)
  /\ NewestIs(history, current)
  /\ NewestIs(disk.history, disk.current)

\* Once a space has committed a version of time t, what AS OF t and every
\* earlier time returns for any entity of that space never changes, except
\* that a crash drops what was not durable.
PastIsFixed ==
  [][history' = disk.history \/
     \A v \in history : \A e \in Entity :
        SpaceOf[e] = SpaceOf[v.entity] =>
          \A t \in 0..v.tx : FetchAsOf(history', e, t) = FetchAsOf(history, e, t)]_vars
=============================================================================
