----------------------------- MODULE MCStorage -----------------------------
(***************************************************************************)
(* The storage side: the version table under arbitrary writes, distributed *)
(* queries, and the algorithms of the store, the indexes, the record and   *)
(* row formats, the placement of partitions and the messages of the meta   *)
(* service on enumerated inputs.  A behaviour exercises one of them.       *)
(***************************************************************************)
EXTENDS VersionTable, Sequences, FiniteSetsExt, SequencesExt

CONSTANTS Missing, Localhost

VARIABLES store, status, registered, alloc, mig, q, tasks, answer, always, ever, events,
          input,   \* the input of the algorithm under test
          part     \* "versions", "query", "fair" or "algorithm"

queryVars == <<store, status, registered, alloc, mig, q, tasks, answer, always, ever, events>>
allVars == <<table, queryVars, input, part>>

Hash2 == [v \in 1 .. 4 |-> IF v \in {1, 3} THEN 1 ELSE 2]
Query1(kind, req, limit) == [kind |-> kind, req |-> req, limit |-> limit]
Queries2 ==
  {Query1("fetch", <<2, 1, 1>>, 0), Query1("fetch_edges", <<1, 3>>, 0), Query1("go", <<1, 2>>, 0),
   Query1("bloom", <<1, 2>>, 0)}
  \cup {Query1(k, << >>, n) : k \in {"scan", "lookup_tag"}, n \in {0, 2}}
  \cup {Query1("lookup_edge", << >>, 2)}

D == INSTANCE Distributed WITH
       RecordNum <- 3, Hosts <- {"h1", "h2"}, PartitionNum <- 2, Hash <- Hash2, Home <- <<"h1", "h2">>,
       Queries <- Queries2, ScanBatch <- 2, PageSize <- 1, MaxEvents <- 2
K == INSTANCE IndexKeys WITH MaxByte <- 7, NoLimit <- 99, MaxIndexString <- 1
P == INSTANCE Placement
W == INSTANCE MetaWire WITH None <- Missing
R == INSTANCE Records WITH Absent <- Missing
C == INSTANCE RowCodec WITH Base <- 4, FlagBits <- 2

-----------------------------------------------------------------------------
(* Inputs of the store: seven keys around the greatest byte.               *)

Keys7 == {<<0>>, <<0, 7>>, <<6>>, <<6, 7>>, <<7>>, <<7, 7>>, <<7, 7, 0>>}
Tables == {[k \in S |-> (Len(k) + k[1]) % 3] : S \in UNION {kSubset(n, Keys7) : n \in 0 .. 3}}
Bounds == Keys7 \cup {<< >>}

(* Inputs of the indexes: the values of two entities.                      *)
Values9 ==
  {K!Null, K!BoolV(0), K!BoolV(1), K!IntV(-4), K!IntV(0), K!IntV(3)}
  \cup {K!FloatV(b) : b \in {0, 4, 1, 5, 2, 7}}
  \cup {K!StringV(<< >>), K!StringV(<<2>>), K!StringV(<<2, 3>>)}
Vids == {<<-1>>, <<1>>}
Edges3 == {<<-1, 0, 1>>, <<1, 0, -1>>}
Def == [id |-> 1, fields |-> 1]
TagTable(value) ==
  [k \in {K!tag_index_key(1, 1, <<value[v]>>, v[1]) : v \in Vids}
         \cup {K!tag_index_key(1, 2, <<K!IntV(0)>>, 1), K!tag_index_key(2, 1, <<K!IntV(0)>>, 1)} |-> 0]
EdgeTable(value) ==
  [k \in {K!edge_index_key(1, 1, <<value[e]>>, e[1], e[2], e[3]) : e \in Edges3}
         \cup {K!tag_index_key(1, 1, <<K!IntV(0)>>, 1)} |-> 0]

(* Inputs of the record formats.                                           *)
Members(S) == S \cup {Missing}
Plain2 == {R!Val("int", 1), R!Val("string", <<"x">>), R!Val("null", 0)}
Props2 ==
  {<< >>} \cup {[a |-> v] : v \in Plain2 \cup {R!Val("date", 1), R!Val("time", 1), R!Val("empty", 0),
                                               R!Val("list", <<R!Val("duration", 1), R!Null>>)}}
EdgeInputs == [src : {-1, 0, 1}, dst : {0, 2}, type : {<< >>, <<"t">>}, rank : {0, 1}, props : Props2]
JsonProps == {Missing, R!Val("int", 1), R!Val("map", [a |-> R!Val("int", 1)])}
JsonEdges ==
  {[fmt |-> "json", json |-> j] :
     j \in [src : Members(Plain2), dst : {R!Val("int", 1)}, edge_type : Members(Plain2), type : {R!Val("string", <<"y">>)},
            rank : Members({R!Val("int", 2)}), props : JsonProps, properties : {Missing}]}
JsonTags == [name : Members({R!Val("string", <<"t">>), R!Val("int", 1)}), props : JsonProps]
JsonVertices ==
  {[fmt |-> "json", json |-> j] :
     j \in [vid : Members({R!Val("int", 0), R!Val("int", 1), R!Val("string", <<"x">>)}),
            tags : {Missing, R!Val("int", 1)} \cup {R!Val("list", s) : s \in UNION {[1 .. n -> JsonTags] : n \in 0 .. 2}}]}

(* Inputs of the row format: a schema, a later one, and values.            *)
Types == {"byte", "int8", "int", "string", "moment", "opaque"}
Column(name, type, nullable) == [name |-> name, type |-> type, nullable |-> nullable, default |-> C!NULL]
Added == [Column("d", "string", TRUE) EXCEPT !.default = C!StringOf(<<3>>)]
RowValues == {C!NULL, C!IntOf(1), C!IntOf(-2), C!IntOf(7), C!StringOf(<< >>), C!StringOf(<<1, 2>>)}
RowInputs ==
  {[version |-> v, types |-> t, nullable |-> n, values |-> vals] :
     v \in {1, 2, 15}, t \in [1 .. 2 -> Types], n \in 0 .. 3, vals \in [1 .. 2 -> RowValues]}
Schema(in) == [version |-> in.version,
               cols |-> <<Column("a", in.types[1], in.nullable > 0), Column("b", in.types[2], in.nullable > 1),
                          Column("c", "byte", in.nullable > 2)>>]
Row(in) == Append(in.values, C!IntOf(1))
Later(in) == [version |-> 40, cols |-> <<Added>> \o Reverse(Schema(in).cols)]

(* Inputs of placement: three nodes with two points each on a ring of six, *)
(* turned so that the first node has its first point at zero.              *)
Nodes == <<"a", "b", "c">>
Points ==
  {f \in [ToSet(Nodes) -> {<<i, j>> : i, j \in 0 .. 5}] :
     /\ f[Nodes[1]][1] = 0
     /\ \A n \in ToSet(Nodes) : f[n][1] < f[n][2]
     /\ \A m, n \in ToSet(Nodes) : m # n => ToSet(f[m]) \cap ToSet(f[n]) = {}}
\* A ring, and the assignments of two partitions without and with a third node.
RingInput(point, ring, pos) ==
  [point |-> point, ring |-> ring, pos |-> pos,
   without |-> <<P!ensure_assignments(ring, pos, 1), P!ensure_assignments(ring, pos, 2)>>,
   with |-> LET joined == P!add_node(point, ring, "c")
            IN  <<P!ensure_assignments(joined, pos, 1), P!ensure_assignments(joined, pos, 2)>>]
Strategies ==
  {[type |-> "hash"], [type |-> "modulo"]}
  \cup {[type |-> "range", boundaries |-> b] : b \in UNION {[1 .. n -> {-2, 0, 1}] : n \in 0 .. 2}}
SomeVids == -3 .. 3
VidHash == [v \in SomeVids |-> (v * v + 1) % 5]

(* Inputs of the messages.                                                 *)
FieldInputs ==
  [name : {"f"}, type : {W!DataType("int64", 0), W!DataType("fixed_string", 8), W!DataType("geography", 0)},
   nullable : BOOLEAN, default : {Missing, "", "x"}]
SpaceInputs ==
  [name : {"s"}, partition_num : {1, 3}, replica_factor : {1}, vid : {W!DataType("int64", 0), W!DataType("fixed_string", 8)},
   strategy : {[type |-> "hash"], [type |-> "modulo"], [type |-> "range", boundaries |-> <<1, 5>>]}]
AlterInputs ==
  {[op |-> "drop", name |-> "f"]} \cup {[op |-> o, field |-> f] : o \in {"add", "change"}, f \in FieldInputs}

-----------------------------------------------------------------------------
Nothing == [kind |-> "none"]
Input(kind, x) == [kind |-> kind, x |-> x]
NoQuery ==
  /\ store = << >> /\ status = << >> /\ registered = {} /\ alloc = << >> /\ mig = << >>
  /\ q = [stage |-> "none"] /\ tasks = << >> /\ answer = << >> /\ always = {} /\ ever = {} /\ events = 0

AllInit ==
  /\ Init /\ input = Nothing
  /\ \/ part = "versions" /\ NoQuery
     \/ part = "query" /\ D!Init
     \/ part = "fair" /\ D!InitWith({a \in Queries2 : a.limit = 0 /\ a.kind # "fetch_edges"}, 1)
     \/ part = "algorithm" /\ NoQuery

Write == part = "versions" /\ Next /\ UNCHANGED <<queryVars, input, part>>
QueryStep == part \in {"query", "fair"} /\ D!Next /\ UNCHANGED <<table, input, part>>
Fresh == part = "algorithm" /\ input = Nothing /\ UNCHANGED <<table, queryVars, part>>
PickTable == Fresh /\ \E t \in Tables : input' = Input("table", t)
PickTag == Fresh /\ \E v \in [Vids -> Values9] : input' = Input("tag", v)
PickEdge == Fresh /\ \E v \in [Edges3 -> Values9] : input' = Input("edge", v)
PickEdgeRecord == Fresh /\ \E e \in EdgeInputs : input' = Input("edge_record", e)
PickJsonEdge == Fresh /\ \E e \in JsonEdges : input' = Input("json_edge", e)
PickJsonVertex == Fresh /\ \E v \in JsonVertices : input' = Input("json_vertex", v)
PickRow == Fresh /\ \E r \in RowInputs : input' = Input("row", r)
PickRing ==
  Fresh /\ \E f \in Points, n \in 0 .. 2, a, b \in 0 .. 5 :
             input' = Input("ring", RingInput(f, P!from_hosts(f, SubSeq(Nodes, 1, n)), <<a, b>>))
PickSpace ==
  Fresh /\ \E s \in Strategies, n \in 0 .. 3, r \in 1 .. 2, h \in 0 .. 2 :
             input' = Input("space", [strategy |-> s, n |-> n, replicas |-> r, hosts |-> SubSeq(Nodes, 1, h)])
PickMessage ==
  Fresh /\ \/ \E f, g \in FieldInputs : input' = Input("fields", <<f, g>>)
           \/ \E s \in SpaceInputs : input' = Input("space_message", s)
           \/ \E a, b \in AlterInputs : input' = Input("alter", <<a, b>>)

AllNext ==
  \/ Write \/ QueryStep \/ PickTable \/ PickTag \/ PickEdge \/ PickEdgeRecord \/ PickJsonEdge
  \/ PickJsonVertex \/ PickRow \/ PickRing \/ PickSpace \/ PickMessage

AllSpec ==
  /\ AllInit /\ [][AllNext]_allVars
  /\ WF_allVars(part = "fair" /\ D!Query /\ UNCHANGED <<table, input, part>>)

-----------------------------------------------------------------------------
Asked == part \in {"query", "fair"}

(* Types of the version table and of a distributed query.                  *)
TypesOK == TypeOK /\ (Asked => D!TypeOK)

(* A distributed query that succeeds is complete, with respect to the      *)
(* hosts that were asked (module Distributed).                             *)
CompleteOrError == Asked => D!CompleteOrError

(* Nothing else is in its answer.                                          *)
OnlyWhatWasThere == Asked => D!OnlyWhatWasThere

(* An existence check does not deny a vertex that is there.                *)
BloomSound == Asked => D!BloomSound

(* Every distributed query ends.                                           *)
QueryEnds == part = "fair" => D!QueryEnds

(* Every scan of the store reads exactly the rows it names (KVScans).      *)
ScansExact ==
  input.kind = "table" =>
    \A a, b \in Bounds, n \in {0, 1, 2, 99} :
      LET Valued(v) == {r \in ToSet(K!From(input.x, << >>)) : r[2] # v}
      IN  K!ScansExact(input.x, a, b, n, Valued(0), Valued(2))

(* Chunked deletion deletes exactly the prefix, for chunks of 0 to 3.      *)
DeletesExactly ==
  input.kind = "table" => \A a \in Bounds, n \in 0 .. 3 : K!DeletesExactly(input.x, a, n)

(* The successor of a prefix bounds its scan.                              *)
SuccessorBounds == input.kind = "table" => \A a \in Bounds : K!SuccessorBounds(input.x, a)

(* Index values are read back whatever follows them.                       *)
ValuesRoundTrip ==
  input.kind \in {"tag", "edge"} =>
    \A i \in DOMAIN input.x, rest \in Bounds : K!ValuesRoundTrip(input.x[i], rest)

(* Exact lookups of tags and edges, and the counts of values, are exact.   *)
LookupExact ==
  /\ input.kind = "tag" =>
       /\ \A v \in Values9 : K!LookupExact(K!lookup_tag(TagTable(input.x), 1, Def, <<v>>, 0), <<v>>, input.x)
       /\ K!CountsExact(K!tag_index_group_counts(TagTable(input.x), 1, Def), input.x)
  /\ input.kind = "edge" =>
       \A v \in Values9 : K!LookupExact(K!lookup_edge(EdgeTable(input.x), 1, Def, <<v>>, 0), <<v>>, input.x)

(* Range lookups of tags and edges return what compares as asked.          *)
RangeExact ==
  \A v \in Values9, op \in {"<", "<=", ">", ">="} :
    /\ input.kind = "tag" =>
         K!RangeExact(K!lookup_tag_range(TagTable(input.x), 1, Def, v, op, 0), v, op, input.x)
    /\ input.kind = "edge" =>
         K!RangeExact(K!lookup_edge_range(EdgeTable(input.x), 1, Def, v, op, 0), v, op, input.x)

(* Edges are read back as they were stored (module Records).               *)
EdgesReadBack == input.kind = "edge_record" => R!EdgesReadBack(input.x)

(* A migrated record reads as before.                                      *)
MigrationKeeps == input.kind = "json_edge" => R!MigrationKeeps(input.x)

(* A vertex accepted by a query path has lost nothing.                     *)
StrictLosesNothing == input.kind = "json_vertex" => \A v \in {0, 1} : R!StrictLosesNothing(v, input.x)

(* Rows are read back across versions of a schema, the columns that the    *)
(* format represents (module RowCodec).                                    *)
RowsReadBack ==
  input.kind = "row" => C!RowsReadBack(Schema(input.x), Later(input.x), Row(input.x))

(* Values that do not fit are refused.                                     *)
BadRowsRefused == input.kind = "row" => C!BadRowsRefused(Schema(input.x), Row(input.x))

(* The hosts of a partition are the nearest nodes (module Placement).      *)
NearestNodes ==
  input.kind = "ring" => \A n \in 1 .. 3 : P!NearestNodes(input.x.ring, input.x.pos[1], n, 6)

(* A node that joins moves nothing but to itself, and undoes its joining   *)
(* by leaving.                                                             *)
OnlyTheNewcomerMoves ==
  input.kind = "ring" =>
    /\ P!LeaveUndoesJoin(input.x.point, input.x.ring, "c")
    /\ \A r \in 1 .. 2 : P!OnlyTheNewcomerMoves(input.x.point, input.x.ring, "c", input.x.pos, r)

(* After the migrations of a join the metadata names the primary the ring  *)
(* has and all its hosts, for a ring that had as many nodes as replicas.   *)
(* After those of a leave, or of a join to a smaller ring, it names hosts  *)
(* of the ring, but may be short of replicas and may name another first.   *)
MigrationsReachRing ==
  input.kind = "ring" =>
    \A r \in 1 .. 2 :
      /\ r <= Len(input.x.ring.nodes) => P!ReachesRing(input.x.without[r], input.x.with[r])
      /\ P!StaysInRing(input.x.without[r], input.x.with[r])
      /\ P!StaysInRing(input.x.with[r], input.x.without[r])

(* Every vertex of a space with a valid strategy is routed to a host, and  *)
(* ranges are a monotone map onto the partitions.                          *)
EveryVertexRouted ==
  input.kind = "space" =>
    /\ P!RangesCover(input.x.strategy, VidHash, SomeVids, input.x.n)
    /\ P!EveryVertexRouted(input.x.strategy, VidHash, SomeVids, input.x.n, input.x.replicas, input.x.hosts)

(* The hot partitions of a space can be split where the detector says, and *)
(* its first allocation is balanced.                                       *)
LoadSpread ==
  input.kind = "space" =>
    /\ P!SplitsInside(input.x.strategy, SomeVids, input.x.n, -4, 3)
    /\ P!AllocationBalanced(input.x.strategy, VidHash, SomeVids, input.x.n, input.x.replicas, input.x.hosts)
(* Schemas and alterations survive the messages of the meta service, but   *)
(* for the lengths of fixed strings and empty defaults (module MetaWire).  *)
MessagesKeep ==
  /\ input.kind = "fields" => W!FieldsSurvive(input.x)
  /\ input.kind = "space_message" => W!SpaceSurvives(input.x)
  /\ input.kind = "alter" =>
       W!AlterSurvives(input.x) /\ \A e \in W!Errors : W!ErrorsKeepMeaning(e)

-----------------------------------------------------------------------------
(* A distributed query that succeeds has every record that was all along   *)
(* on the host that was asked, none that never was there, and denies no    *)
(* vertex (CompleteOrError, OnlyWhatWasThere, BloomSound).                 *)
ClusterReadsExact == TypesOK /\ CompleteOrError /\ OnlyWhatWasThere /\ BloomSound

(* The ordered store and what is built on its order: scans, deletions and  *)
(* lookups through index keys read exactly what they name, and the seek    *)
(* for a version finds what a scan of all versions finds.  Records and     *)
(* migrated records are read back as they were, and so are messages and    *)
(* the columns of rows across versions of their schema, with the losses    *)
(* that modules MetaWire and RowCodec name: lengths of fixed strings and   *)
(* empty defaults; columns near a NULL, beyond the flags or negative int8. *)
EncodingsExact ==
  /\ ScansExact /\ DeletesExactly /\ SuccessorBounds
  /\ ValuesRoundTrip /\ LookupExact /\ RangeExact /\ SeekMatchesScan
  /\ EdgesReadBack /\ MigrationKeeps /\ StrictLosesNothing
  /\ RowsReadBack /\ BadRowsRefused /\ MessagesKeep

(* Partitions are where the ring says: on the nearest nodes and moved only *)
(* by those who join or leave; migrations take them there when a node      *)
(* joins a ring that has enough, and to hosts of the ring otherwise.       *)
(* Routing finds every vertex, and hot ranges are split inside.            *)
PlacementExact ==
  NearestNodes /\ OnlyTheNewcomerMoves /\ MigrationsReachRing /\ EveryVertexRouted /\ LoadSpread
=============================================================================
