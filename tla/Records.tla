------------------------------ MODULE Records ------------------------------
(***************************************************************************)
(* How vertices and edges are stored (byoridb-codec/src/{vertex,           *)
(* migration}.rs) and read back by queries (byoridb-executor/src/          *)
(* record_decode.rs).  A record is a protobuf message behind a magic byte, *)
(* or the JSON of an earlier format.  A message is the sequence of its     *)
(* fields; its library (prost) is external: a field with the default value *)
(* is not written, of two fields with one number the last counts, and      *)
(* unknown fields are skipped.                                             *)
(***************************************************************************)
EXTENDS Integers, Sequences, FiniteSets, SequencesExt, FiniteSetsExt, TLC

CONSTANT Absent  \* a JSON member that is not there

(* Values: a type and a content, nested in lists and maps; a string is a   *)
(* sequence of symbols.                                                    *)
Val(t, v) == <<t, v>>
T(v) == v[1]
V(v) == v[2]
Null == Val("null", 0)
Text(v) == Val("string", <<T(v), V(v)>>)

RECURSIVE value_to_proto(_)
value_to_proto(v) ==
  CASE T(v) \in {"null", "empty"} -> Val("null_value", 0)
    [] T(v) \in {"bool", "int", "float", "string", "date", "datetime", "geography"} -> v
    [] T(v) = "list" -> Val("list", [i \in DOMAIN V(v) |-> value_to_proto(V(v)[i])])
    [] T(v) = "map" -> Val("map", [k \in DOMAIN V(v) |-> value_to_proto(V(v)[k])])
    [] T(v) \in {"vertex", "edge", "path", "time", "set", "dataset", "duration"} -> Text(v)

RECURSIVE proto_to_value(_)
proto_to_value(p) ==
  CASE T(p) \in {"null_value", "none"} -> Null
    [] T(p) \in {"bool", "int", "float", "string", "date", "datetime", "geography"} -> p
    [] T(p) = "list" -> Val("list", [i \in DOMAIN V(p) |-> proto_to_value(V(p)[i])])
    [] T(p) = "map" -> Val("map", [k \in DOMAIN V(p) |-> proto_to_value(V(p)[k])])
    [] T(p) = "bytes" -> Val("string", V(p))
StoredAs(v) == proto_to_value(value_to_proto(v))

RECURSIVE value_to_json(_)
value_to_json(v) ==
  CASE T(v) \in {"null", "empty"} -> Null
    [] T(v) \in {"bool", "int", "float", "string"} -> v
    [] T(v) = "list" -> Val("list", [i \in DOMAIN V(v) |-> value_to_json(V(v)[i])])
    [] T(v) = "map" -> Val("map", [k \in DOMAIN V(v) |-> value_to_json(V(v)[k])])
    [] T(v) \in {"date", "datetime", "geography", "vertex", "edge", "path", "time", "set", "dataset",
                "duration"} -> Text(v)

RECURSIVE json_to_value(_)
json_to_value(j) ==
  CASE T(j) \in {"null", "bool", "int", "float", "string"} -> j
    [] T(j) = "list" -> Val("list", [i \in DOMAIN V(j) |-> json_to_value(V(j)[i])])
    [] T(j) = "map" -> Val("map", [k \in DOMAIN V(j) |-> json_to_value(V(j)[k])])

Props(p, f(_)) == [k \in DOMAIN p |-> f(p[k])]

-----------------------------------------------------------------------------
(* Messages.                                                               *)

Field(num, wire, v) == [num |-> num, wire |-> wire, v |-> v]
VARINT == 0
LENGTH == 2

(* What prost writes: a field that has the default value is left out.      *)
EDGE_TYPE == 3
IsDefault(f) == IF f.wire = VARINT THEN f.v = 0 ELSE f.num = EDGE_TYPE /\ f.v = << >>
Message(fields) == [fmt |-> "proto", fields |-> SelectSeq(fields, LAMBDA f : ~IsDefault(f))]

(* The last field with the number, or the default.                         *)
LastField(fields, num, default) ==
  LET at == {i \in DOMAIN fields : fields[i].num = num}
  IN  IF at = {} THEN default ELSE fields[Max(at)].v

edge_to_proto(e) ==
  Message(<<Field(1, VARINT, e.src), Field(2, VARINT, e.dst), Field(3, LENGTH, e.type),
            Field(4, VARINT, e.rank), Field(5, LENGTH, Props(e.props, value_to_proto))>>)
encode_edge(e) == edge_to_proto(e)

decode_edge_proto(rec) ==
  [src |-> LastField(rec.fields, 1, 0), dst |-> LastField(rec.fields, 2, 0),
   type |-> LastField(rec.fields, 3, << >>), rank |-> LastField(rec.fields, 4, 0),
   props |-> Props(LastField(rec.fields, 5, << >>), proto_to_value)]

tag_to_proto(tag) == [name |-> tag.name, props |-> Props(tag.props, value_to_proto)]
vertex_to_proto(v) ==
  Message(<<Field(1, VARINT, v.vid)>> \o [i \in DOMAIN v.tags |-> Field(2, LENGTH, tag_to_proto(v.tags[i]))])
encode_vertex(v) == vertex_to_proto(v)
proto_to_tag(t) == [name |-> t.name, props |-> Props(t.props, proto_to_value)]
decode_vertex_proto(rec) ==
  LET tags == SelectSeq(rec.fields, LAMBDA f : f.num = 2)
  IN  [vid |-> LastField(rec.fields, 1, 0), tags |-> [i \in DOMAIN tags |-> proto_to_tag(tags[i].v)]]

-----------------------------------------------------------------------------
(* JSON.  A member of the wrong kind reads as a default; a tag without a   *)
(* name is left out.                                                       *)

Member(rec, name) == IF name \in DOMAIN rec.json THEN rec.json[name] ELSE Absent
FirstOf(rec, a, b) == IF Member(rec, a) # Absent THEN Member(rec, a) ELSE Member(rec, b)
AsInt(j) == IF j # Absent /\ T(j) = "int" THEN V(j) ELSE 0
AsStr(j) == IF j # Absent /\ T(j) = "string" THEN V(j) ELSE << >>
AsProps(j) == IF j # Absent /\ T(j) = "map" THEN Props(V(j), json_to_value) ELSE << >>
HasName(tag) == tag.name # Absent /\ T(tag.name) = "string"

decode_edge_json(rec) ==
  [src |-> AsInt(Member(rec, "src")), dst |-> AsInt(Member(rec, "dst")),
   type |-> AsStr(FirstOf(rec, "edge_type", "type")), rank |-> AsInt(FirstOf(rec, "ranking", "rank")),
   props |-> AsProps(FirstOf(rec, "props", "properties"))]
decode_vertex_json(rec) ==
  LET stored == Member(rec, "tags")
      tags == IF stored # Absent /\ T(stored) = "list" THEN SelectSeq(V(stored), HasName) ELSE << >>
  IN  [vid |-> AsInt(Member(rec, "vid")),
       tags |-> [i \in DOMAIN tags |-> [name |-> V(tags[i].name), props |-> AsProps(tags[i].props)]]]

vertex_to_json(v) ==
  [fmt |-> "json",
   json |-> [vid |-> Val("int", v.vid),
             tags |-> Val("list", [i \in DOMAIN v.tags |->
                        [name |-> Val("string", v.tags[i].name),
                         props |-> Val("map", Props(v.tags[i].props, value_to_json))]])]]
edge_to_json(e) ==
  [fmt |-> "json",
   json |-> [src |-> Val("int", e.src), dst |-> Val("int", e.dst), edge_type |-> Val("string", e.type),
             ranking |-> Val("int", e.rank), props |-> Val("map", Props(e.props, value_to_json))]]

-----------------------------------------------------------------------------
(* Either format.                                                          *)

is_proto_format(rec) == rec.fmt = "proto"
decode_edge(rec) == IF is_proto_format(rec) THEN decode_edge_proto(rec) ELSE decode_edge_json(rec)
decode_vertex(rec) == IF is_proto_format(rec) THEN decode_vertex_proto(rec) ELSE decode_vertex_json(rec)

(* The fast paths of traversals read one number and stop there.            *)
decode_edge_vid_proto(fields, num) ==
  LET at == {i \in DOMAIN fields : fields[i].num = num /\ fields[i].wire = VARINT}
  IN  IF at = {} THEN 0 ELSE fields[Min(at)].v
decode_edge_dst(rec) ==
  IF is_proto_format(rec) THEN decode_edge_vid_proto(rec.fields, 2) ELSE AsInt(Member(rec, "dst"))
decode_edge_src(rec) ==
  IF is_proto_format(rec) THEN decode_edge_vid_proto(rec.fields, 1) ELSE AsInt(Member(rec, "src"))

migrate_edge(rec) == IF is_proto_format(rec) THEN rec ELSE encode_edge(decode_edge(rec))

(* The migration tool's own readers of the earlier format, for its users.  *)
(* A numeric edge type is read as its digits here.                         *)
json_to_edge(rec) ==
  LET type == FirstOf(rec, "edge_type", "type")
  IN  [decode_edge_json(rec) EXCEPT
         !.type = IF type # Absent /\ T(type) = "int" THEN <<ToString(V(type))>> ELSE @]
json_to_vertex(rec) == decode_vertex_json(rec)
migrate_vertex(rec) == IF is_proto_format(rec) THEN rec ELSE encode_vertex(decode_vertex(rec))

-----------------------------------------------------------------------------
(* The strict decoder of the query paths.                                  *)

validate_json(vid, rec) ==
  LET own == Member(rec, "vid")
      tags == Member(rec, "tags")
  IN  /\ own = Absent \/ own = Val("int", vid)
      /\ tags # Absent /\ T(tags) = "list"
      /\ \A i \in DOMAIN V(tags) :
           HasName(V(tags)[i]) /\ (V(tags)[i].props = Absent \/ T(V(tags)[i].props) = "map")

Invalid == [invalid |-> TRUE]
strict_decode_vertex(vid, rec) ==
  IF ~is_proto_format(rec) /\ ~validate_json(vid, rec) THEN Invalid
  ELSE IF is_proto_format(rec) /\ decode_vertex(rec).vid # vid THEN Invalid
  ELSE [decode_vertex(rec) EXCEPT !.vid = vid]
strict_decode_vertex_json(vid, rec) ==
  IF is_proto_format(rec)
  THEN IF strict_decode_vertex(vid, rec) = Invalid THEN Invalid
       ELSE vertex_to_json(strict_decode_vertex(vid, rec))
  ELSE IF validate_json(vid, rec) THEN rec ELSE Invalid

-----------------------------------------------------------------------------
(* What is stored is read back: an edge with its properties but for the    *)
(* types a record cannot hold, which become text or null, and storing it   *)
(* again changes nothing more.  The fast paths see the same ids, zero and  *)
(* other omitted values included.  What the earlier format holds of an     *)
(* edge, a record holds too.                                               *)
EdgesReadBack(e) ==
  LET back == decode_edge(encode_edge(e))
  IN  /\ back = [e EXCEPT !.props = Props(@, StoredAs)]
      /\ decode_edge(encode_edge(back)) = back
      /\ decode_edge(migrate_edge(edge_to_json(e))) = [e EXCEPT !.props = Props(@, value_to_json)]
      /\ decode_edge_dst(encode_edge(e)) = e.dst /\ decode_edge_src(encode_edge(e)) = e.src

(* A record of the earlier format reads the same before and after its      *)
(* migration, by the full decoder and by the fast paths; only a numeric    *)
(* edge type reads differently through the migration tool.                 *)
MigrationKeeps(rec) ==
  LET new == migrate_edge(rec)
  IN  /\ is_proto_format(new) /\ decode_edge(new) = decode_edge(rec)
      /\ decode_edge_dst(new) = decode_edge_dst(rec) /\ decode_edge_src(new) = decode_edge_src(rec)
      /\ migrate_edge(new) = new
      /\ json_to_edge(rec) # decode_edge(new) => T(FirstOf(rec, "edge_type", "type")) = "int"

(* A vertex the query paths accept is the one its key names and has every  *)
(* tag and property that is stored: a malformed tag is an error there, not *)
(* a vertex without it.  A migrated vertex is accepted under the same id   *)
(* when it said its id.                                                    *)
StrictLosesNothing(vid, rec) ==
  LET read == strict_decode_vertex(vid, rec)
      tags == V(Member(rec, "tags"))
  IN  /\ read # Invalid =>
           /\ read.vid = vid
           /\ ~is_proto_format(rec) =>
                /\ Len(read.tags) = Len(tags)
                /\ \A i \in DOMAIN tags :
                     tags[i].props # Absent => read.tags[i].props = Props(V(tags[i].props), json_to_value)
      /\ ~is_proto_format(rec) /\ read # Invalid /\ Member(rec, "vid") # Absent =>
           strict_decode_vertex(vid, migrate_vertex(rec)) = read
      /\ (read = Invalid) <=> (strict_decode_vertex_json(vid, rec) = Invalid)
=============================================================================
