----------------------------- MODULE IndexKeys -----------------------------
(***************************************************************************)
(* The keys of the secondary indexes (byoridb-storage/src/key.rs) and the  *)
(* lookups over them (index.rs).  A fixed-width word of a key (a partition *)
(* id, an index id, a vertex id, a rank, an integer or a float) is one     *)
(* byte of base MaxByte + 1 here: big-endian words and single bytes are    *)
(* ordered alike and neither is a prefix of another.                       *)
(***************************************************************************)
EXTENDS KVScans

CONSTANT MaxIndexString  \* the bytes of a string an index key keeps (255)

Base == MaxByte + 1
SignBit == Base \div 2

(* Two's complement.                                                       *)
Word(n) == n % Base
Signed(w) == IF w >= SignBit THEN w - Base ELSE w

TAG_INDEX == 4
EDGE_INDEX == 5

-----------------------------------------------------------------------------
(* Index values.                                                           *)

Null == [t |-> "null"]
BoolV(b) == [t |-> "bool", n |-> b]
IntV(n) == [t |-> "int", n |-> n]
FloatV(bits) == [t |-> "float", n |-> bits]
StringV(s) == [t |-> "string", s |-> s]

(* A float is sign and magnitude: the largest magnitude is not a number,   *)
(* the one below it infinity.                                              *)
Magnitude(bits) == bits % SignBit
IsNaN(bits) == Magnitude(bits) = SignBit - 1
FloatValue(bits) == IF bits >= SignBit THEN -Magnitude(bits) ELSE Magnitude(bits)
PosInfinity == SignBit - 2
NegInfinity == SignBit + PosInfinity

(* The bit patterns that order like the numbers.                           *)
EncodeInt(n) == (Word(n) + SignBit) % Base
EncodeFloat(bits) == IF bits >= SignBit THEN MaxByte - bits ELSE bits + SignBit
DecodeFloat(w) == IF w >= SignBit THEN w - SignBit ELSE MaxByte - w

encode(v) ==
  CASE v.t = "null" -> <<0>>
    [] v.t = "bool" -> <<1, v.n>>
    [] v.t = "int" -> <<2, EncodeInt(v.n)>>
    [] v.t = "float" -> <<3, EncodeFloat(v.n)>>
    [] v.t = "string" -> LET kept == Take(v.s, MaxIndexString) IN <<4, Len(kept)>> \o kept

encoded_len(v) ==
  CASE v.t = "null" -> 1
    [] v.t \in {"bool", "int", "float"} -> 2
    [] v.t = "string" -> 2 + Min({Len(v.s), MaxIndexString})

(* The value at the front of the bytes and its length, or length 0.        *)
NotAValue == [v |-> Null, len |-> 0]
decode(data) ==
  IF data = << >> THEN NotAValue
  ELSE CASE data[1] = 0 -> [v |-> Null, len |-> 1]
         [] data[1] = 1 /\ Len(data) >= 2 -> [v |-> BoolV(Min({data[2], 1})), len |-> 2]
         [] data[1] = 2 /\ Len(data) >= 2 -> [v |-> IntV(Signed((data[2] + SignBit) % Base)), len |-> 2]
         [] data[1] = 3 /\ Len(data) >= 2 -> [v |-> FloatV(DecodeFloat(data[2])), len |-> 2]
         [] data[1] = 4 /\ Len(data) >= 2 /\ Len(data) >= 2 + data[2] ->
              [v |-> StringV(SubSeq(data, 3, 2 + data[2])), len |-> 2 + data[2]]
         [] OTHER -> NotAValue

EncodeAll(values) == FoldLeft(LAMBDA buf, v : buf \o encode(v), << >>, values)

-----------------------------------------------------------------------------
(* Keys.                                                                   *)

tag_index_prefix(part, index) == <<part, TAG_INDEX, index>>
tag_index_prefix_with_values(part, index, values) ==
  tag_index_prefix(part, index) \o EncodeAll(values)
tag_index_key(part, index, values, vid) ==
  Append(tag_index_prefix_with_values(part, index, values), Word(vid))
edge_index_prefix(part, index) == <<part, EDGE_INDEX, index>>
edge_index_prefix_with_values(part, index, values) ==
  edge_index_prefix(part, index) \o EncodeAll(values)
edge_index_key(part, index, values, src, rank, dst) ==
  edge_index_prefix_with_values(part, index, values) \o <<Word(src), Word(rank), Word(dst)>>

Header == 3
parse_tag_index_vid(key) == <<Signed(key[Len(key)])>>
parse_edge_index_edge(key) ==
  [i \in 1 .. 3 |-> Signed(key[Len(key) - 3 + i])]

(* A key holds its header, as many values as the index has fields and the  *)
(* id words, and nothing else.                                             *)
WellFormed(key, fields, ids) ==
  LET end == Len(key) - ids
      left[n \in 0 .. fields] ==
        IF n = 0 THEN SubSeq(key, Header + 1, end)
        ELSE LET d == decode(left[n - 1])
             IN  IF left[n - 1] = NoEnd \/ d.len = 0 THEN NoEnd
                 ELSE SubSeq(left[n - 1], d.len + 1, Len(left[n - 1]))
  IN  end >= Header /\ left[fields] = << >>

-----------------------------------------------------------------------------
(* Scans.                                                                  *)

Failed == << << >> >>
NoBound == <<[t |-> "none"]>>
Unlimited(limit) == IF limit > 0 THEN limit ELSE NoLimit

(* From the start boundary to the end boundary within the prefix; an       *)
(* inclusive end, and an exclusive start, is the successor of its boundary.*)
(* (StartAtBoundary: an exclusive start begins at its boundary.)           *)
StartAtBoundary(prefix, o, prefixEnd) ==
  IF o.start = NoBound THEN prefix ELSE prefix \o EncodeAll(o.start)
StartOf(prefix, o, prefixEnd) ==
  LET boundary == prefix \o EncodeAll(o.start)
      after == prefix_successor(boundary)
  IN  IF o.start = NoBound THEN prefix
      ELSE IF o.include_start THEN boundary
      ELSE IF after = NoEnd THEN prefixEnd ELSE after
EndOf(prefix, o, prefixEnd) ==
  LET boundary == prefix \o EncodeAll(o.end)
      after == prefix_successor(boundary)
  IN  IF o.end = NoBound THEN prefixEnd
      ELSE IF ~o.include_end THEN boundary
      ELSE IF after = NoEnd THEN prefixEnd ELSE after
Entries(table, prefix, o) ==
  LET prefixEnd == prefix_successor(prefix)
  IN  IF o.start = NoBound /\ o.end = NoBound
      THEN default_scan_prefix_limited(table, prefix, Unlimited(o.limit))
      ELSE redb_scan_range(table, StartOf(prefix, o, prefixEnd), EndOf(prefix, o, prefixEnd),
                           Unlimited(o.limit))

(* A malformed key fails the scan: dropping it would hide the extra row by *)
(* which a capped scan is seen to be incomplete.                           *)
Parsed(entries, fields, ids, parse(_)) ==
  IF \E i \in DOMAIN entries : ~WellFormed(entries[i][1], fields, ids) THEN Failed
  ELSE [i \in DOMAIN entries |-> parse(entries[i][1])]

scan_tag_index(table, part, def, values, o) ==
  Parsed(Entries(table, tag_index_prefix_with_values(part, def.id, values), o),
         def.fields, 1, parse_tag_index_vid)
scan_edge_index(table, part, def, values, o) ==
  Parsed(Entries(table, edge_index_prefix_with_values(part, def.id, values), o),
         def.fields, 3, parse_edge_index_edge)

Whole(limit) == [limit |-> limit, start |-> NoBound, end |-> NoBound,
                 include_start |-> FALSE, include_end |-> FALSE]
lookup_tag(table, part, def, values, limit) == scan_tag_index(table, part, def, values, Whole(limit))
lookup_edge(table, part, def, values, limit) == scan_edge_index(table, part, def, values, Whole(limit))

(* An ordered comparison is a range within the values of the type: strings *)
(* are length-prefixed and not ordered, and the two zeros are one number.  *)
Ordered(v) ==
  \/ v.t \in {"bool", "int"}
  \/ v.t = "float" /\ ~IsNaN(v.n) /\ FloatValue(v.n) # 0
TypeMin(v) == CASE v.t = "bool" -> BoolV(0) [] v.t = "int" -> IntV(-SignBit) [] v.t = "float" -> FloatV(NegInfinity)
TypeMax(v) == CASE v.t = "bool" -> BoolV(1) [] v.t = "int" -> IntV(SignBit - 1) [] v.t = "float" -> FloatV(PosInfinity)
RangeOf(v, op, limit) ==
  [limit |-> limit,
   start |-> <<IF op \in {">", ">="} THEN v ELSE TypeMin(v)>>,
   end |-> <<IF op \in {"<", "<="} THEN v ELSE TypeMax(v)>>,
   include_start |-> op # ">", include_end |-> op # "<"]
lookup_tag_range(table, part, def, v, op, limit) ==
  IF def.fields # 1 \/ ~Ordered(v) THEN Failed
  ELSE scan_tag_index(table, part, def, << >>, RangeOf(v, op, limit))
lookup_edge_range(table, part, def, v, op, limit) ==
  IF def.fields # 1 \/ ~Ordered(v) THEN Failed
  ELSE scan_edge_index(table, part, def, << >>, RangeOf(v, op, limit))

(* How many entries each value of a single-field index has.                *)
tag_index_group_counts(table, part, def) ==
  LET entries == redb_scan_prefix(table, tag_index_prefix(part, def.id))
      value(i) == decode(SubSeq(entries[i][1], Header + 1, Len(entries[i][1]) - 1)).v
  IN  IF def.fields # 1 \/ \E i \in DOMAIN entries : ~WellFormed(entries[i][1], 1, 1) THEN {Failed}
      ELSE {<<value(i), Cardinality({j \in DOMAIN entries : value(j) = value(i)})>> : i \in DOMAIN entries}

-----------------------------------------------------------------------------
(* What the lookups promise.                                               *)

(* What an index keeps of a value.                                         *)
KeptOf(v) == IF v.t = "string" THEN StringV(Take(v.s, MaxIndexString)) ELSE v
Holds(a, op, b) ==
  LET x == IF a.t = "float" THEN FloatValue(a.n) ELSE a.n
      y == IF b.t = "float" THEN FloatValue(b.n) ELSE b.n
  IN  CASE op = ">" -> x > y [] op = ">=" -> x >= y [] op = "<" -> x < y [] op = "<=" -> x <= y
IsNumber(v) == ~(v.t = "float" /\ IsNaN(v.n))

(* An encoded value is read back, whatever follows it in the key, and no   *)
(* bytes of the next field are taken for its own.                          *)
ValuesRoundTrip(v, rest) ==
  decode(encode(v) \o rest) = [v |-> KeptOf(v), len |-> encoded_len(v)]

(* An exact lookup returns the entities whose kept values are those asked, *)
(* each once, and no entity of another value, index or partition: one      *)
(* encoded value is never a prefix of another.                             *)
LookupExact(found, values, value) ==
  /\ found # Failed
  /\ ToSet(found) = {e \in DOMAIN value : KeptOf(value[e]) = KeptOf(values[1])}
  /\ Len(found) = Cardinality(ToSet(found))

(* A range lookup returns the entities whose value has the boundary's type *)
(* and compares as asked, the extremes of the type included, and fails for *)
(* a boundary whose encoding is not ordered.                               *)
RangeExact(found, v, op, value) ==
  IF ~Ordered(v) THEN found = Failed
  ELSE ToSet(found) = {e \in DOMAIN value : value[e].t = v.t /\ IsNumber(value[e])
                                            /\ Holds(value[e], op, v)}

(* The group counts have one row for each value kept, with the number of   *)
(* entities that have it.                                                  *)
CountsExact(counts, value) ==
  counts = {<<KeptOf(value[e]), Cardinality({f \in DOMAIN value : KeptOf(value[f]) = KeptOf(value[e])})>>
            : e \in DOMAIN value}
=============================================================================
