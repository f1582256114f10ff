-------------------------------- MODULE AsOf --------------------------------
(***************************************************************************)
(* The version table of the key-value store (byoridb-kvstore/src/store.rs) *)
(* as a set of rows, and the two ways of resolving an entity as of a time: *)
(* the scan that is the trait's default and the seek of the ordered        *)
(* backends.                                                               *)
(***************************************************************************)
EXTENDS Integers

CONSTANT TimeMax   \* i64::MAX, which is also VALID_OPEN

ASSUME TimeAssumption == TimeMax \in Nat

Time == (-TimeMax - 1)..TimeMax
VALID_OPEN == TimeMax
None == "none"

\* desc_i64: the sign bit is flipped and the word complemented, so that a
\* later time has a smaller unsigned encoding.
desc_i64(t) == TimeMax - t

\* history_key of a version, without its entity prefix, and the byte order on
\* such keys.
history_key(from, tx) == <<desc_i64(from), desc_i64(tx)>>
KeyLeq(k, l) == k[1] < l[1] \/ (k[1] = l[1] /\ k[2] <= l[2])

SameKey(v, w) == v.entity = w.entity /\ v.from = w.from /\ v.tx = w.tx

\* Insertion of rows into the table replaces rows with the same key.
Insert(table, rows) ==
  {v \in table : \A w \in rows : ~SameKey(v, w)} \cup rows

Versions(table, e) == {v \in table : v.entity = e}

-----------------------------------------------------------------------------
(* The trait's default get_as_of.                                          *)

ScanHits(table, e, validAt, txAt) ==
  {v \in Versions(table, e) : v.tx <= txAt /\ v.from <= validAt /\ validAt < v.to}

IsBest(v, hits) ==
  v \in hits /\ \A w \in hits : w.from < v.from \/ (w.from = v.from /\ w.tx <= v.tx)

ScanAsOf(table, e, validAt, txAt) ==
  LET hits == ScanHits(table, e, validAt, txAt)
  IN  IF hits = {} THEN None ELSE (CHOOSE v \in hits : IsBest(v, hits)).value

-----------------------------------------------------------------------------
(* get_as_of of the ordered backends: the first row at or after the key of *)
(* (validAt, txAt) whose transaction time and interval qualify.            *)

Qualifies(v, validAt, txAt) == v.tx <= txAt /\ validAt < v.to

SeekHits(table, e, validAt, txAt) ==
  {v \in Versions(table, e) :
      /\ KeyLeq(history_key(validAt, txAt), history_key(v.from, v.tx))
      /\ Qualifies(v, validAt, txAt)}

IsFirst(v, hits) ==
  v \in hits /\ \A w \in hits : KeyLeq(history_key(v.from, v.tx), history_key(w.from, w.tx))

get_as_of(table, e, validAt, txAt) ==
  LET hits == SeekHits(table, e, validAt, txAt)
  IN  IF hits = {} THEN None ELSE (CHOOSE v \in hits : IsFirst(v, hits)).value
=============================================================================
