---------------------------- MODULE ClassSchema -----------------------------
(***************************************************************************)
(* The ontology of a space: tags, classes with their superclasses,         *)
(* disjoint and equivalent classes, the edge types, shapes and indexes     *)
(* that name them, and the vertices and inferred types whose class set     *)
(* they decide.  A statement runs alone (it holds the write lock of its    *)
(* space) and commits in one batch; a statement that is refused changes    *)
(* nothing and is no step.                                                 *)
(*                                                                         *)
(* Corrupt records, which every reader here refuses, are left out.         *)
(***************************************************************************)
EXTENDS Integers, Sequences, FiniteSets, SequencesExt

CONSTANTS
  Tag,               \* names of tags and classes
  Shape, EdgeType, IndexName, Vid,
  Declarations,      \* [superclasses, disjoint, equivalent]: sets of names a CREATE CLASS may give
  Constraints,       \* the sets of constraints a CREATE SHAPE may give
  Rows,              \* the vertices an INSERT may give: sequences of [name, props]
  MaxClassDepth, MaxTags, MaxStatements

VARIABLES
  tags,              \* space:{space}:tag:
  classes,           \* space:{space}:class:
  shapes,            \* space:{space}:shape:
  edges,             \* space:{space}:edge: the DOMAIN and RANGE of an edge type, or ""
  indexes,           \* the tag of an index, by the index's name
  vertices, graph,   \* the vertex records, and the edges <<src, type, dst>>
  statements

vars == <<tags, classes, shapes, edges, indexes, vertices, graph, statements>>
data == <<vertices, graph>>
schema == <<tags, classes, shapes, edges, indexes>>
Counted == statements < MaxStatements /\ statements' = statements + 1

With(f, x, y) == [z \in DOMAIN f \cup {x} |-> IF z = x THEN y ELSE f[z]]
Less(f, x) == [z \in DOMAIN f \ {x} |-> f[z]]

-----------------------------------------------------------------------------
(* The walk up the hierarchy, level by level, and what it decides.         *)

Parents(c) == IF c \in DOMAIN classes THEN classes[c].superclasses \cup classes[c].equivalent ELSE {}

\* The levels of the walk: level n holds the classes first met after n hops.
Levels(c) ==
  LET level[n \in 0 .. MaxClassDepth] ==
        IF n = 0 THEN <<{c}, {c}>>
        ELSE LET next == UNION {Parents(d) : d \in level[n - 1][1]} \ level[n - 1][2]
             IN  <<next, level[n - 1][2] \cup next>>
  IN  level

class_ancestors_of(c) == Levels(c)[MaxClassDepth][2] \ {c}
TooDeep(c) == Levels(c)[MaxClassDepth][1] # {}

\* The class set of a vertex: tags, and inferred types, with their ancestors.
TagsOf(vertex) == {vertex[i].name : i \in DOMAIN vertex}
Expanded(direct) == direct \cup UNION {class_ancestors_of(c) : c \in direct}
Walkable(direct) == \A c \in direct : ~TooDeep(c)

\* The types inferred from DOMAIN and RANGE, as they are when no repair of the
\* inference is due (InferenceFence).
vtypes(v) ==
  ({edges[e[2]].domain : e \in {f \in graph : f[1] = v /\ f[2] \in DOMAIN edges}}
     \cup {edges[e[2]].range : e \in {f \in graph : f[3] = v /\ f[2] \in DOMAIN edges}}) \ {""}

vertex_class_set(v) == Expanded(TagsOf(vertices[v]) \cup vtypes(v))

-----------------------------------------------------------------------------
(* Shapes.                                                                 *)

\* The properties by bare name: those of a later tag replace an earlier one's.
flatten_vertex_props(vertex) ==
  LET Merge(props, tag) == [p \in DOMAIN props \cup DOMAIN tag.props |->
                              IF p \in DOMAIN tag.props THEN tag.props[p] ELSE props[p]]
  IN  FoldLeft(Merge, << >>, vertex)

value_matches_type(value, type) ==
  CASE value = "null" -> TRUE
    [] value = "int" -> type \in {"int", "double"}
    [] value = "float" -> type = "double"
    [] OTHER -> value = type

\* A constraint is <<"required", p>>, <<"type", p, t>> or <<"check", p, t>>: the
\* predicate of the last holds of values of kind t, and of no missing one.
Violated(constraint, props) ==
  LET p == constraint[2]
      present == p \in DOMAIN props /\ props[p] # "null"
  IN  CASE constraint[1] = "required" -> ~present
        [] constraint[1] = "type" -> present /\ ~value_matches_type(props[p], constraint[3])
        [] constraint[1] = "check" -> ~(present /\ props[p] = constraint[3])

shape_violations(shape, props) == {c \in shape.constraints : Violated(c, props)}

\* The check of a write: the declared tags only, and the properties as the
\* statement gives them, a later tag's in place of an earlier one's.
Given(vertex) ==
  LET holders(p) == {i \in DOMAIN vertex : p \in DOMAIN vertex[i].props}
      all == UNION {DOMAIN vertex[i].props : i \in DOMAIN vertex}
  IN  [p \in all |-> vertex[Max(holders(p))].props[p]]

InScope(direct) == {s \in DOMAIN shapes : shapes[s].target \in Expanded(direct)}

validate_write_shapes(vertex) ==
  DOMAIN shapes = {} \/ ( /\ Walkable(TagsOf(vertex))
                          /\ \A s \in InScope(TagsOf(vertex)) : shape_violations(shapes[s], Given(vertex)) = {} )

\* The sweep: the rows it reports, or an error if some hierarchy is too deep.
check_shape ==
  UNION {{<<v, s, c>> : c \in shape_violations(shapes[s], flatten_vertex_props(vertices[v]))}
           : <<v, s>> \in {p \in (DOMAIN vertices) \X (DOMAIN shapes) : shapes[p[2]].target \in vertex_class_set(p[1])}}

\* CHECK CONSISTENCY: the pairs of disjoint classes a vertex is in.
DisjointOf(c) ==
  (IF c \in DOMAIN classes THEN classes[c].disjoint ELSE {}) \cup {d \in DOMAIN classes : c \in classes[d].disjoint}
check_consistency ==
  UNION {{<<v, {p[1], p[2]}>> : p \in {q \in vertex_class_set(v) \X vertex_class_set(v) : q[2] \in DisjointOf(q[1])}}
           : v \in DOMAIN vertices}

-----------------------------------------------------------------------------
(* The statements.                                                         *)

handle_create_tag(n) ==
  /\ Counted /\ n \notin tags
  /\ tags' = tags \cup {n}
  /\ UNCHANGED <<classes, shapes, edges, indexes, data>>

DropTag(n) ==
  /\ Counted /\ n \in tags /\ n \notin DOMAIN classes
  /\ tags' = tags \ {n}
  /\ UNCHANGED <<classes, shapes, edges, indexes, data>>

\* The mutated check: the superclass need only exist.
AcceptsAnyParent(n, p) == p \in DOMAIN classes

\* A superclass must be walkable, so that the depth stays within the cap.
AcceptsParent(n, p) == p \in DOMAIN classes /\ ~TooDeep(p) /\ n \notin class_ancestors_of(p)

\* Equivalence is recorded on both sides.
Registered(n, def) ==
  [c \in DOMAIN classes \cup {n} |->
     IF c = n THEN def
     ELSE IF c \in def.equivalent THEN [classes[c] EXCEPT !.equivalent = @ \cup {n}]
     ELSE classes[c]]

handle_create_class(n, def) ==
  /\ Counted /\ n \notin DOMAIN classes /\ n \notin tags
  /\ \A p \in def.superclasses : AcceptsParent(n, p)
  /\ def.disjoint \cup def.equivalent \subseteq DOMAIN classes \ {n}
  /\ tags' = tags \cup {n}
  /\ classes' = Registered(n, def)
  /\ UNCHANGED <<shapes, edges, indexes, data>>

\* What names the class n: other classes, edge types, shapes and indexes.
ReferencingClasses(n) ==
  {c \in DOMAIN classes : n \in classes[c].superclasses}
    \cup {c \in DOMAIN classes \ {n} : n \in classes[c].disjoint \cup classes[c].equivalent}
ReferencingEdges(n) == {e \in DOMAIN edges : n \in {edges[e].domain, edges[e].range}}
ReferencingShapes(n) == {s \in DOMAIN shapes : shapes[s].target = n}

\* The mutated restriction: edge types are not looked at.
ReferencedLess(n) == ReferencingClasses(n) # {} \/ ReferencingShapes(n) # {} \/ n \in Range(indexes)
Referenced(n) ==
  ReferencingClasses(n) # {} \/ ReferencingEdges(n) # {} \/ ReferencingShapes(n) # {} \/ n \in Range(indexes)

handle_drop_class(n) ==
  /\ Counted /\ n \in DOMAIN classes /\ ~Referenced(n)
  /\ classes' = Less(classes, n) /\ tags' = tags \ {n}
  /\ UNCHANGED <<shapes, edges, indexes, data>>

Exists(n) == n \in tags \/ n \in DOMAIN classes

handle_create_shape(s, target, constraints) ==
  /\ Counted /\ s \notin DOMAIN shapes /\ Exists(target) /\ constraints # {}
  /\ shapes' = With(shapes, s, [target |-> target, constraints |-> constraints])
  /\ UNCHANGED <<tags, classes, edges, indexes, data>>

handle_drop_shape(s) ==
  /\ Counted /\ s \in DOMAIN shapes
  /\ shapes' = Less(shapes, s)
  /\ UNCHANGED <<tags, classes, edges, indexes, data>>

\* named: the edge types INVERSE OF, SUBPROPERTY OF, EQUIVALENT TO and CHAIN name.
\* What they make the inference do is Inference's.
handle_create_edge(e, named, domain, range) ==
  /\ Counted /\ e \notin DOMAIN edges
  /\ named \subseteq DOMAIN edges
  /\ \A n \in {domain, range} \ {""} : Exists(n)
  /\ edges' = With(edges, e, [domain |-> domain, range |-> range])
  /\ UNCHANGED <<tags, classes, shapes, indexes, data>>

DropEdge(e) ==
  /\ Counted /\ e \in DOMAIN edges
  /\ edges' = Less(edges, e)
  /\ UNCHANGED <<tags, classes, shapes, indexes, data>>

\* The index need not name a tag that exists, and a tag may have several.
handle_create_tag_index(i, n) ==
  /\ Counted /\ i \notin DOMAIN indexes
  /\ indexes' = With(indexes, i, n)
  /\ UNCHANGED <<tags, classes, shapes, edges, data>>

handle_drop_tag_index(i) ==
  /\ Counted /\ i \in DOMAIN indexes
  /\ indexes' = Less(indexes, i)
  /\ UNCHANGED <<tags, classes, shapes, edges, data>>

\* The fields of a statement are declared and of their types.
validate_tag_props(n) == n \in tags

InsertVertex(v, row) ==
  /\ Counted /\ \A n \in TagsOf(row) : validate_tag_props(n)
  /\ validate_write_shapes(row)
  /\ vertices' = With(vertices, v, row)
  /\ UNCHANGED <<schema, graph>>

\* The property is set in every part that has the tag; the tag is added if none has.
Updated(v, n, p, value) ==
  LET old == IF v \in DOMAIN vertices THEN vertices[v] ELSE << >>
      new == IF n \in TagsOf(old) THEN old ELSE Append(old, [name |-> n, props |-> << >>])
  IN  [i \in DOMAIN new |-> IF new[i].name = n THEN [new[i] EXCEPT !.props = With(@, p, value)] ELSE new[i]]

UpdateVertex(v, n, p, value) ==
  /\ Counted /\ validate_tag_props(n)
  /\ Len(Updated(v, n, p, value)) <= MaxTags
  /\ validate_write_shapes(Updated(v, n, p, value))
  /\ vertices' = With(vertices, v, Updated(v, n, p, value))
  /\ UNCHANGED <<schema, graph>>

InsertEdge(v, e, w) ==
  /\ Counted /\ e \in DOMAIN edges
  /\ graph' = graph \cup {<<v, e, w>>}
  /\ UNCHANGED <<schema, vertices>>

Init ==
  /\ tags = {} /\ classes = << >> /\ shapes = << >> /\ edges = << >> /\ indexes = << >>
  /\ vertices = << >> /\ graph = {} /\ statements = 0

Next ==
  \/ \E n \in Tag :
       \/ handle_create_tag(n) \/ DropTag(n)
       \/ \E def \in Declarations : handle_create_class(n, def)
       \/ handle_drop_class(n)
       \/ \E s \in Shape, c \in Constraints : handle_create_shape(s, n, c)
       \/ \E i \in IndexName : handle_create_tag_index(i, n)
       \/ \E v \in Vid, p \in {"p"}, value \in {"int", "string", "null"} : UpdateVertex(v, n, p, value)
  \/ \E s \in Shape : handle_drop_shape(s)
  \/ \E i \in IndexName : handle_drop_tag_index(i)
  \/ \E e \in EdgeType, named \in SUBSET EdgeType, domain, range \in Tag \cup {""} : handle_create_edge(e, named, domain, range)
  \/ \E e \in EdgeType : DropEdge(e)
  \/ \E v \in Vid, row \in Rows : InsertVertex(v, row)
  \/ \E v, w \in Vid, e \in EdgeType : InsertEdge(v, e, w)

-----------------------------------------------------------------------------
(* The hierarchy without levels: what lies above a class is in every set   *)
(* that holds its parents and the parents of its members.                  *)

Above(c) ==
  {d \in Tag : \A S \in SUBSET Tag : Parents(c) \subseteq S /\ (\A x \in S : Parents(x) \subseteq S) => d \in S}
AboveBySubclass(c) ==
  LET Super(x) == IF x \in DOMAIN classes THEN classes[x].superclasses ELSE {}
  IN  {d \in Tag : \A S \in SUBSET Tag : Super(c) \subseteq S /\ (\A x \in S : Super(x) \subseteq S) => d \in S}
MemberOf(v, c) == \E d \in TagsOf(vertices[v]) \cup vtypes(v) : c = d \/ c \in Above(d)

\* The class records are consistent after every sequence of CREATE and DROP: a
\* class has its tag, names only classes, is not above itself, and equivalence
\* goes both ways (handle_create_class, handle_drop_class, DROP TAG).
HierarchySound ==
  /\ DOMAIN classes \subseteq tags
  /\ \A c \in DOMAIN classes :
       /\ classes[c].superclasses \cup classes[c].disjoint \cup classes[c].equivalent \subseteq DOMAIN classes \ {c}
       /\ c \notin AboveBySubclass(c)
       /\ \A d \in classes[c].equivalent : c \in classes[d].equivalent

\* class_ancestors_of finds exactly what lies above a class, the same for
\* equivalent classes, and no declared superclass is out of its reach: only the
\* class declared last in a chain may be, or one reached through equivalence.
AncestorsExact ==
  \A c \in DOMAIN classes :
     /\ ~TooDeep(c) => class_ancestors_of(c) = Above(c) \ {c}
     /\ \A d \in classes[c].equivalent : Above(c) \cup {c} = Above(d) \cup {d}
     /\ (\A d \in DOMAIN classes : classes[d].equivalent = {}) => \A p \in classes[c].superclasses : ~TooDeep(p)

\* CHECK CONSISTENCY reports a vertex for two classes exactly if it is a member
\* of both and either was declared disjoint with the other.
InconsistenciesExact ==
  (\A c \in DOMAIN classes : ~TooDeep(c)) =>
     \A v \in DOMAIN vertices, c, d \in Tag :
        <<v, {c, d}>> \in check_consistency <=>
          MemberOf(v, c) /\ MemberOf(v, d)
            /\ \E <<x, y>> \in {<<c, d>>, <<d, c>>} : x \in DOMAIN classes /\ y \in classes[x].disjoint

\* A class goes only when nothing names it, so that no DOMAIN, RANGE, shape or
\* index is left pointing at it (handle_drop_class).
NothingLeftBehind ==
  \A n \in DOMAIN classes \ DOMAIN classes' :
     /\ \A e \in DOMAIN edges' : n # edges'[e].domain /\ n # edges'[e].range
     /\ \A s \in DOMAIN shapes' : n # shapes'[s].target
     /\ \A c \in DOMAIN classes' : n \notin classes'[c].superclasses \cup classes'[c].disjoint \cup classes'[c].equivalent
     /\ n \notin Range(indexes')

\* A vertex that was just written shows up in CHECK SHAPE only for a shape it
\* falls under by inference: the check of the write and the sweep agree on the
\* declared tags (validate_write_shapes, execute_check_shape).
WritesConform ==
  \A v \in DOMAIN vertices' :
     (v \notin DOMAIN vertices \/ vertices'[v] # vertices[v]) =>
        \A <<w, s, c>> \in check_shape' : w = v => shapes[s].target \notin Expanded(TagsOf(vertices'[v]))
=============================================================================
