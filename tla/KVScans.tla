------------------------------ MODULE KVScans ------------------------------
(***************************************************************************)
(* The reads and writes of the key-value store (byoridb-kvstore/src/       *)
(* store.rs) as functions of a table: the trait's defaults, the redb       *)
(* backend and the in-memory backend.  A read iterates over the ordered    *)
(* keys from one on and stops at the first that ends it.                   *)
(*                                                                         *)
(* A key is a sequence of bytes, a table a function from a finite set of   *)
(* keys, and an iteration meets the keys in the order of their bytes.      *)
(***************************************************************************)
EXTENDS Integers, Sequences, FiniteSets, SequencesExt, FiniteSetsExt

CONSTANTS
  MaxByte,  \* u8::MAX
  NoLimit   \* the limit None: usize::MAX

LexLess(a, b) ==
  \/ \E i \in DOMAIN a \cap DOMAIN b :
       a[i] < b[i] /\ \A j \in 1 .. i - 1 : a[j] = b[j]
  \/ Len(a) < Len(b) /\ IsPrefix(a, b)
LexLeq(a, b) == a = b \/ LexLess(a, b)

InOrder(S) == SetToSortSeq(S, LexLess)
Row(table, k) == <<k, table[k]>>
Rows(table, S) == LET keys == InOrder(S) IN [i \in DOMAIN keys |-> Row(table, keys[i])]

(* The first n elements.                                                   *)
Take(s, n) == SubSeq(s, 1, Min({n, Len(s)}))

(* The least key that no key with the prefix reaches: trailing maximal     *)
(* bytes are dropped and the one before is raised; none if all are.        *)
NoEnd == <<-1>>
prefix_successor(prefix) ==
  LET raisable == {i \in DOMAIN prefix : prefix[i] # MaxByte}
      last == Max(raisable)
  IN  IF raisable = {} THEN NoEnd
      ELSE Append(SubSeq(prefix, 1, last - 1), prefix[last] + 1)

-----------------------------------------------------------------------------
(* The rows met from a key on, in order.                                   *)
From(table, start) == Rows(table, {k \in DOMAIN table : LexLeq(start, k)})
StartsWith(row, prefix) == IsPrefix(prefix, row[1])

(* A filter is the set of the rows it keeps, a visitor the set of the rows *)
(* after which it goes on.                                                 *)
Among(rows, keep) == SelectSeq(rows, LAMBDA r : r \in keep)

(* An iteration: the rows up to the first that ends it.                    *)
Until(rows, ends(_)) ==
  LET stops == {i \in DOMAIN rows : ends(rows[i])}
  IN  IF stops = {} THEN rows ELSE SubSeq(rows, 1, Min(stops) - 1)

-----------------------------------------------------------------------------
(* redb.                                                                   *)

redb_scan_prefix(table, prefix) ==
  Until(From(table, prefix), LAMBDA r : ~StartsWith(r, prefix))

redb_count_prefix(table, prefix) ==
  Len(Until(From(table, prefix), LAMBDA r : ~StartsWith(r, prefix)))

redb_count_prefixes(table, prefixes) ==
  [i \in DOMAIN prefixes |-> redb_count_prefix(table, prefixes[i])]

redb_scan_range(table, start, end, limit) ==
  IF ~LexLess(start, end) \/ limit = 0 THEN << >>
  ELSE Take(Until(From(table, start), LAMBDA r : ~LexLess(r[1], end)), limit)

(* The limit counts the rows kept, not the rows read.                      *)
redb_scan_with_filter(table, prefix, keep, limit) ==
  IF limit = 0 THEN << >> ELSE Take(Among(redb_scan_prefix(table, prefix), keep), limit)

(* The visitor sees the rows kept, and stops the scan after one of them.   *)
redb_scan_with_filter_visit(table, prefix, keep, goOn, limit) ==
  LET rows == Among(redb_scan_prefix(table, prefix), keep)
      last == {i \in DOMAIN rows : rows[i] \notin goOn \/ i >= limit}
  IN  IF limit = 0 THEN << >> ELSE IF last = {} THEN rows ELSE SubSeq(rows, 1, Min(last))

redb_scan_stream(table, prefix) ==
  Until(From(table, prefix), LAMBDA r : ~StartsWith(r, prefix))

redb_batch_get(table, keys, absent) ==
  [i \in DOMAIN keys |-> IF keys[i] \in DOMAIN table THEN table[keys[i]] ELSE absent]

(* One round of a chunked deletion, and the whole of it.                   *)
Deleted(table, keys) == [k \in DOMAIN table \ keys |-> table[k]]
ChunkOf(table, prefix, chunk) ==
  {r[1] : r \in ToSet(Take(redb_scan_prefix(table, prefix), Max({chunk, 1})))}

(* The table and the count after at most n rounds.                         *)
redb_delete_prefix_chunked(table, prefix, chunk) ==
  LET rounds[n \in Nat] ==
        IF n = 0 THEN [table |-> table, total |-> 0]
        ELSE LET before == rounds[n - 1]
                 keys == ChunkOf(before.table, prefix, chunk)
             IN  [table |-> Deleted(before.table, keys), total |-> before.total + Cardinality(keys)]
  IN  rounds[Cardinality(DOMAIN table) + 1]

-----------------------------------------------------------------------------
(* The in-memory store.                                                    *)

memory_scan_prefix(table, prefix) ==
  Until(From(table, prefix), LAMBDA r : ~StartsWith(r, prefix))

memory_scan_range(table, start, end, limit) ==
  IF ~LexLess(start, end) \/ limit = 0 THEN << >>
  ELSE Take(Rows(table, {k \in DOMAIN table : LexLeq(start, k) /\ LexLess(k, end)}), limit)

memory_scan_with_filter(table, prefix, keep, limit) ==
  Take(Among(memory_scan_prefix(table, prefix), keep), limit)

memory_scan_with_filter_visit(table, prefix, keep, goOn, limit) ==
  LET rows == Among(memory_scan_prefix(table, prefix), keep)
      last == {i \in DOMAIN rows : rows[i] \notin goOn \/ i >= limit}
  IN  IF limit = 0 THEN << >> ELSE IF last = {} THEN rows ELSE SubSeq(rows, 1, Min(last))

memory_scan_stream(table, prefix) == memory_scan_prefix(table, prefix)

memory_batch_get(table, keys, absent) ==
  [i \in DOMAIN keys |-> IF keys[i] \in DOMAIN table THEN table[keys[i]] ELSE absent]

-----------------------------------------------------------------------------
(* The defaults of the trait, over scan_prefix.                            *)

(* The longest common prefix of the bounds is what is scanned.             *)
CommonPrefix(a, b) ==
  LET same == {n \in 0 .. Min({Len(a), Len(b)}) : SubSeq(a, 1, n) = SubSeq(b, 1, n)}
  IN  SubSeq(a, 1, Max(same))

default_scan_range(table, start, end, limit) ==
  IF ~LexLess(start, end) \/ limit = 0 THEN << >>
  ELSE Take(SelectSeq(redb_scan_prefix(table, CommonPrefix(start, end)),
                      LAMBDA r : LexLeq(start, r[1]) /\ LexLess(r[1], end)), limit)

default_scan_with_filter(table, prefix, keep, limit) ==
  Take(Among(redb_scan_prefix(table, prefix), keep), limit)

default_scan_prefix_limited(table, prefix, limit) ==
  redb_scan_with_filter(table, prefix, ToSet(From(table, << >>)), limit)

default_scan_with_filter_visit(table, prefix, keep, goOn, limit) ==
  LET rows == default_scan_with_filter(table, prefix, keep, limit)
      stops == {i \in DOMAIN rows : rows[i] \notin goOn}
  IN  IF stops = {} THEN rows ELSE SubSeq(rows, 1, Min(stops))

default_count_prefix(table, prefix) == Len(memory_scan_prefix(table, prefix))
default_count_prefixes(table, prefixes) ==
  [i \in DOMAIN prefixes |-> default_count_prefix(table, prefixes[i])]

default_delete_prefix_chunked(table, prefix, chunk) ==
  LET rows == memory_scan_prefix(table, prefix)
      keys == [i \in DOMAIN rows |-> rows[i][1]]
      size == Max({chunk, 1})
      chunks == (Len(keys) + size - 1) \div size
      one(c) == {keys[i] : i \in {j \in DOMAIN keys : (j - 1) \div size = c - 1}}
  IN  [table |-> FoldLeft(LAMBDA t, c : Deleted(t, one(c)), table, [c \in 1 .. chunks |-> c]),
       total |-> Len(keys)]

(* Counters: an absent key counts from zero, and a count that is not       *)
(* positive removes its key.  The default gets, deletes and puts.          *)
AddCounter(table, key, delta) ==
  LET new == (IF key \in DOMAIN table THEN table[key] ELSE 0) + delta
  IN  IF new <= 0 THEN Deleted(table, {key})
      ELSE [k \in DOMAIN table \cup {key} |-> IF k = key THEN new ELSE table[k]]

-----------------------------------------------------------------------------
(* What they promise.                                                      *)

(* Every scan reads exactly the rows it names, in key order: the iteration *)
(* that stops early, whichever backend or default runs it, returns what    *)
(* the definition over the whole table gives, for every prefix, range,     *)
(* filter, visitor and limit, a row at the bound and a limit of zero       *)
(* included.                                                               *)
ScansExact(table, a, b, limit, keep, goOn) ==
  LET prefixed == Rows(table, {k \in DOMAIN table : IsPrefix(a, k)})
      ranged == Rows(table, {k \in DOMAIN table : LexLeq(a, k) /\ LexLess(k, b)})
      kept == Take(Among(prefixed, keep), limit)
      stops == {i \in DOMAIN kept : kept[i] \notin goOn}
      visited == IF stops = {} THEN kept ELSE SubSeq(kept, 1, Min(stops))
  IN  /\ {redb_scan_prefix(table, a), redb_scan_stream(table, a),
           memory_scan_prefix(table, a), memory_scan_stream(table, a)} = {prefixed}
      /\ {redb_scan_range(table, a, b, limit), memory_scan_range(table, a, b, limit),
           default_scan_range(table, a, b, limit)} = {Take(ranged, limit)}
      /\ {redb_scan_with_filter(table, a, keep, limit), memory_scan_with_filter(table, a, keep, limit),
           default_scan_with_filter(table, a, keep, limit)} = {kept}
      /\ {redb_scan_with_filter_visit(table, a, keep, goOn, limit),
           memory_scan_with_filter_visit(table, a, keep, goOn, limit),
           default_scan_with_filter_visit(table, a, keep, goOn, limit)} = {visited}
      /\ default_scan_prefix_limited(table, a, limit) = Take(prefixed, limit)
      /\ {redb_count_prefixes(table, <<a, b>>)[1], default_count_prefixes(table, <<a, b>>)[1]}
           = {Len(prefixed)}
      /\ redb_batch_get(table, <<a, b, a>>, NoLimit) = memory_batch_get(table, <<a, b, a>>, NoLimit)

(* Chunked deletion removes exactly the keys with the prefix and counts    *)
(* each once, whether it scans again after each chunk or once.             *)
DeletesExactly(table, prefix, chunk) ==
  LET gone == {k \in DOMAIN table : IsPrefix(prefix, k)}
      all == [table |-> Deleted(table, gone), total |-> Cardinality(gone)]
  IN  /\ redb_delete_prefix_chunked(table, prefix, chunk) = all
      /\ default_delete_prefix_chunked(table, prefix, chunk) = all

(* A scan from a prefix to its successor is the scan of the prefix, also   *)
(* when the prefix ends in maximal bytes (storage/src/index.rs).           *)
SuccessorBounds(table, prefix) ==
  LET end == prefix_successor(prefix)
  IN  IF end = NoEnd THEN \A b \in ToSet(prefix) : b = MaxByte
      ELSE redb_scan_range(table, prefix, end, NoLimit) = redb_scan_prefix(table, prefix)
=============================================================================
