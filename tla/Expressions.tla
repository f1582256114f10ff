---------------------------- MODULE Expressions ----------------------------
(***************************************************************************)
(* Values, and the two ways conditions are decided on one record: the      *)
(* three-valued evaluator of GO, UPDATE, RECOMMEND and shapes              *)
(* (byoridb-executor/src/evaluator.rs) and the two-valued filter LOOKUP    *)
(* hands to its scans (byoridb-common/src/filter.rs), into which           *)
(* executor/dql.rs translates a WHERE clause.                              *)
(*                                                                         *)
(* A value is a type and a content.  A string is a sequence of letters; a  *)
(* float is a whole number of units, One of them to the integer 1; a name  *)
(* of a property is a sequence of segments.  Names of functions are        *)
(* already in upper case; those that change the case of a string or round  *)
(* a number are left out.                                                  *)
(***************************************************************************)
EXTENDS Integers, Sequences, FiniteSets, SequencesExt

CONSTANTS One,      \* units of a float in 1
          Near,     \* floats closer than this are equal to a filter (1e-8)
          IntMax    \* i64::MAX

T(v) == v[1]
V(v) == v[2]
IntV(n) == <<"int", n>>
FloatV(n) == <<"float", n>>
StrV(s) == <<"str", s>>
BoolV(b) == <<"bool", b>>
ListV(s) == <<"list", s>>
Null == <<"null", 0>>
Error == <<"error", 0>>
Panic == <<"panic", 0>>      \* the arithmetic instruction traps
Failed(v) == v \in {Error, Panic}

Numeric(v) == T(v) \in {"int", "float"}
Units(v) == IF T(v) = "int" THEN V(v) * One ELSE V(v)
Abs(n) == IF n < 0 THEN -n ELSE n
Precedes(s, t) ==
  \/ \E i \in DOMAIN s \cap DOMAIN t : s[i] < t[i] /\ \A j \in 1 .. i - 1 : s[j] = t[j]
  \/ IsStrictPrefix(s, t)
Within(sub, s) == \E i \in 1 .. Len(s) + 1 : IsPrefix(sub, SubSeq(s, i, Len(s)))

(* How two values compare: "lt", "eq", "gt", or "none".                    *)
Sign(n) == IF n < 0 THEN "lt" ELSE IF n = 0 THEN "eq" ELSE "gt"
Order(a, b) ==
  IF Numeric(a) /\ Numeric(b) THEN Sign(Units(a) - Units(b))
  ELSE IF T(a) # T(b) THEN "none"
  ELSE IF T(a) = "str" THEN (IF V(a) = V(b) THEN "eq" ELSE IF Precedes(V(a), V(b)) THEN "lt" ELSE "gt")
  ELSE "none"
OrderWithBools(a, b) ==
  IF T(a) = "bool" /\ T(b) = "bool"
    THEN (IF V(a) = V(b) THEN "eq" ELSE IF V(b) THEN "lt" ELSE "gt")
    ELSE Order(a, b)
Accepts(op) ==
  CASE op = "<" -> {"lt"} [] op = "<=" -> {"lt", "eq"} [] op = ">" -> {"gt"} [] op = ">=" -> {"gt", "eq"}
Ordered == {"<", "<=", ">", ">="}

(* Value::eq: types never mix, floats are compared up to a tolerance.      *)
RECURSIVE ValueEq(_, _)
ValueEq(a, b) ==
  /\ T(a) = T(b)
  /\ CASE T(a) = "float" -> Abs(V(a) - V(b)) < Near
       [] T(a) = "list" -> Len(V(a)) = Len(V(b)) /\ \A i \in DOMAIN V(a) : ValueEq(V(a)[i], V(b)[i])
       [] OTHER -> V(a) = V(b)

(* Expressions, as the parser builds them.                                 *)
Lit(v) == <<"lit", v>>
Id(name) == <<"id", name>>
Prop(object, prop) == <<"prop", object, prop>>
DstProp(tag, prop) == <<"dstprop", tag, prop>>
Bin(op, l, r) == <<"bin", op, l, r>>
Un(op, e) == <<"un", op, e>>
Fn(name, args) == <<"fn", name, args>>
Items(es) == <<"items", es>>
Kind(e) == e[1]

-----------------------------------------------------------------------------
(* The evaluator.                                                          *)

(* i64 arithmetic: a release build wraps, a division that overflows traps. *)
IntMin == -IntMax - 1
Wrap(n) == ((n - IntMin) % (2 * (IntMax + 1))) + IntMin
Quotient(a, b) == LET q == Abs(a) \div Abs(b) IN IF (a < 0) = (b < 0) THEN q ELSE -q

EitherNull(l, r) == T(l) = "null" \/ T(r) = "null"
Floats(l, r) == Numeric(l) /\ Numeric(r) /\ ~(T(l) = "int" /\ T(r) = "int")
Ints(l, r) == T(l) = "int" /\ T(r) = "int"

eval_add(l, r) ==
  CASE Ints(l, r) -> IntV(Wrap(V(l) + V(r)))
    [] Floats(l, r) -> FloatV(Units(l) + Units(r))
    [] T(l) = "str" /\ T(r) = "str" -> StrV(V(l) \o V(r))
    [] EitherNull(l, r) -> Null
    [] OTHER -> Error
eval_sub(l, r) ==
  CASE Ints(l, r) -> IntV(Wrap(V(l) - V(r)))
    [] Floats(l, r) -> FloatV(Units(l) - Units(r))
    [] EitherNull(l, r) -> Null
    [] OTHER -> Error
eval_mul(l, r) ==
  CASE Ints(l, r) -> IntV(Wrap(V(l) * V(r)))
    [] Floats(l, r) -> FloatV((Units(l) * Units(r)) \div One)
    [] EitherNull(l, r) -> Null
    [] OTHER -> Error
eval_div(l, r) ==
  CASE Numeric(r) /\ V(r) = 0 -> Error
    [] Ints(l, r) -> IF V(l) = IntMin /\ V(r) = -1 THEN Panic ELSE IntV(Quotient(V(l), V(r)))
    [] Floats(l, r) -> FloatV(Quotient(Units(l) * One, Units(r)))
    [] EitherNull(l, r) -> Null
    [] OTHER -> Error
eval_mod(l, r) ==
  CASE T(r) = "int" /\ V(r) = 0 -> Error
    [] Ints(l, r) ->
         IF V(l) = IntMin /\ V(r) = -1 THEN Panic ELSE IntV(V(l) - V(r) * Quotient(V(l), V(r)))
    [] EitherNull(l, r) -> Null
    [] OTHER -> Error

RECURSIVE values_equal(_, _)
values_equal(l, r) ==
  CASE T(l) = "null" \/ T(r) = "null" -> T(l) = T(r)
    [] Numeric(l) /\ Numeric(r) -> Units(l) = Units(r)
    [] T(l) = "list" /\ T(r) = "list" ->
         Len(V(l)) = Len(V(r)) /\ \A i \in DOMAIN V(l) : values_equal(V(l)[i], V(r)[i])
    [] OTHER -> T(l) = T(r) /\ T(l) \in {"str", "bool"} /\ V(l) = V(r)

eval_compare(l, r, ok) ==
  IF EitherNull(l, r) THEN Null
  ELSE IF Order(l, r) = "none" THEN Error
  ELSE BoolV(Order(l, r) \in ok)

eval_in(l, r) ==
  CASE T(l) = "null" -> Null
    [] T(r) # "list" -> BoolV(FALSE)
    [] OTHER ->
         IF \E i \in DOMAIN V(r) : values_equal(l, V(r)[i]) THEN BoolV(TRUE)
         ELSE IF \E i \in DOMAIN V(r) : T(V(r)[i]) = "null" THEN Null
         ELSE BoolV(FALSE)

True == BoolV(TRUE)
False == BoolV(FALSE)
Tri == {True, False, Null}
(* (OrNullIsFalse: an unknown operand of OR counts as false.)              *)
OrNullIsFalse(l, r) ==
  CASE l = True \/ r = True -> True
    [] l \in Tri /\ r \in Tri -> False
    [] OTHER -> Error
eval_and(l, r) ==
  CASE l = False \/ r = False -> False
    [] l = True /\ r = True -> True
    [] l \in Tri /\ r \in Tri -> Null
    [] OTHER -> Error
eval_or(l, r) ==
  CASE l = True \/ r = True -> True
    [] l = False /\ r = False -> False
    [] l \in Tri /\ r \in Tri -> Null
    [] OTHER -> Error

(* The regex library: whether a pattern compiles, and whether it matches   *)
(* somewhere (a pattern is a literal here; the empty letter 0 is malformed).*)
Compiles(pattern) == 0 \notin Range(pattern)
TextTest(op, s, t) ==
  CASE op \in {"contains", "not contains"} -> Within(t, s)
    [] op = "starts" -> IsPrefix(t, s)
    [] op = "ends" -> IsSuffix(t, s)
    [] op = "=~" -> Compiles(t) /\ Within(t, s)
TextOps == {"contains", "not contains", "starts", "ends", "=~"}

eval_binary_op(op, l, r) ==
  CASE op = "+" -> eval_add(l, r)
    [] op = "-" -> eval_sub(l, r)
    [] op = "*" -> eval_mul(l, r)
    [] op = "/" -> eval_div(l, r)
    [] op = "%" -> eval_mod(l, r)
    [] op = "==" -> BoolV(values_equal(l, r))
    [] op = "!=" -> BoolV(~values_equal(l, r))
    [] op \in Ordered -> eval_compare(l, r, Accepts(op))
    [] op = "and" -> eval_and(l, r)
    [] op = "or" -> eval_or(l, r)
    [] op = "in" -> eval_in(l, r)
    [] op = "not in" -> LET found == eval_in(l, r) IN IF found = Null THEN Null ELSE BoolV(~V(found))
    [] op \in TextOps ->
         IF T(l) = "str" /\ T(r) = "str" THEN BoolV((op = "not contains") # TextTest(op, V(l), V(r)))
         ELSE IF EitherNull(l, r) THEN Null
         ELSE BoolV(op = "not contains")

eval_unary_op(op, v) ==
  CASE T(v) = "null" -> Null
    [] op = "not" /\ T(v) = "bool" -> BoolV(~V(v))
    [] op = "neg" /\ T(v) = "int" -> IntV(Wrap(-V(v)))
    [] op = "neg" /\ T(v) = "float" -> FloatV(-V(v))
    [] OTHER -> Error

SCALAR_FUNCTIONS ==
  {"LENGTH", "SIZE", "CONTAINS", "STARTS_WITH", "STARTSWITH", "ENDS_WITH", "ENDSWITH", "ABS",
   "IS_NULL", "ISNULL", "IS_NOT_NULL", "ISNOTNULL", "COALESCE"}
Unknown == <<"error", 1>>    \* no function has the name

Missing == <<"missing", 0>>  \* an argument that was not given
apply_scalar_function(name, args) ==
  LET a == IF Len(args) >= 1 THEN args[1] ELSE Missing
      b == IF Len(args) >= 2 THEN args[2] ELSE Missing
      Text(op) == IF T(a) = "str" /\ T(b) = "str" THEN BoolV(TextTest(op, V(a), V(b)))
                  ELSE IF EitherNull(a, b) THEN Null ELSE Error
      Unary(type, result) == IF T(a) = type THEN result ELSE IF T(a) = "null" THEN Null ELSE Error
      given == SelectSeq(args, LAMBDA v : T(v) # "null")
  IN  CASE name \in {"LENGTH", "SIZE"} -> IF T(a) = "list" THEN IntV(Len(V(a))) ELSE Unary("str", IntV(Len(V(a))))
        [] name = "CONTAINS" -> Text("contains")
        [] name \in {"STARTS_WITH", "STARTSWITH"} -> Text("starts")
        [] name \in {"ENDS_WITH", "ENDSWITH"} -> Text("ends")
        [] name = "ABS" -> IF T(a) = "float" THEN FloatV(Abs(V(a))) ELSE Unary("int", IntV(Wrap(Abs(V(a)))))
        [] name \in {"IS_NULL", "ISNULL"} -> IF a = Missing THEN Error ELSE BoolV(T(a) = "null")
        [] name \in {"IS_NOT_NULL", "ISNOTNULL"} -> IF a = Missing THEN Error ELSE BoolV(T(a) # "null")
        [] name = "COALESCE" -> IF given = << >> THEN Null ELSE given[1]
        [] OTHER -> Unknown

(* What a record offers to the evaluator: maps from names to values, of    *)
(* the record itself, of the two ends of an edge, and of named records.    *)
Context(current, source, destination, variables) ==
  [current |-> current, source |-> source, destination |-> destination, variables |-> variables]
Get(map, name) == IF name \in DOMAIN map THEN map[name] ELSE Missing
OrElse(a, b) == IF a = Missing THEN b ELSE a
get_property(ctx, path) ==
  CASE Len(path) = 3 /\ path[1] = "$$" -> OrElse(Get(ctx.destination, Tail(path)), Get(ctx.destination, <<path[3]>>))
    [] Len(path) = 3 /\ path[1] = "$^" -> OrElse(Get(ctx.source, Tail(path)), Get(ctx.source, <<path[3]>>))
    [] Len(path) = 2 ->
         IF path[1] \in DOMAIN ctx.variables THEN Get(ctx.variables[path[1]], <<path[2]>>)
         ELSE OrElse(Get(ctx.current, path), Get(ctx.current, Tail(path)))
    [] Len(path) = 1 ->
         LET held == {v \in DOMAIN ctx.variables : path \in DOMAIN ctx.variables[v]}
         IN  IF path \in DOMAIN ctx.current THEN ctx.current[path]
             ELSE IF held # {} THEN ctx.variables[CHOOSE v \in held : TRUE][path] ELSE Missing
    [] OTHER -> Missing
OrError(v) == IF v = Missing THEN Error ELSE v

(* is_a is answered from the classes the caller put into the context.      *)
eval_function(name, args, ctx) ==
  IF name \notin {"IS_A", "ISA"} THEN apply_scalar_function(name, args)
  ELSE LET class == IF args = << >> THEN Missing ELSE args[1]
           classes == get_property(ctx, <<"__isa__">>)
       IN  CASE T(class) = "str" -> BoolV(T(classes) = "list" /\ class \in Range(V(classes)))
             [] class = Null -> Null
             [] OTHER -> Error

(* Operands are evaluated first, left to right; the first failure is the   *)
(* result.                                                                 *)
FirstFailure(vs) == LET bad == {i \in DOMAIN vs : T(vs[i]) \in {"error", "panic"}}
                    IN  IF bad = {} THEN Missing ELSE vs[CHOOSE i \in bad : \A j \in bad : i <= j]
RECURSIVE evaluate_with_context(_, _)
evaluate_with_context(e, ctx) ==
  LET Operands(es) == [i \in DOMAIN es |-> evaluate_with_context(es[i], ctx)]
      Unless(vs, result) == OrElse(FirstFailure(vs), result)
  IN  CASE Kind(e) = "lit" -> e[2]
        [] Kind(e) = "id" -> OrError(get_property(ctx, <<e[2]>>))
        [] Kind(e) = "bin" -> LET vs == Operands(<<e[3], e[4]>>)
                                  bad == FirstFailure(vs)
                              IN  IF bad = Missing THEN eval_binary_op(e[2], vs[1], vs[2]) ELSE bad
        [] Kind(e) = "un" -> LET v == evaluate_with_context(e[3], ctx)
                             IN  IF FirstFailure(<<v>>) = Missing THEN eval_unary_op(e[2], v) ELSE v
        [] Kind(e) = "fn" -> LET vs == Operands(e[3])
                                 bad == FirstFailure(vs)
                             IN  IF bad = Missing THEN eval_function(e[2], vs, ctx) ELSE bad
        [] Kind(e) = "items" -> LET vs == Operands(e[2]) IN Unless(vs, ListV(vs))
        [] Kind(e) = "prop" -> OrError(OrElse(get_property(ctx, e[2] \o <<e[3]>>), get_property(ctx, <<e[3]>>)))
        [] Kind(e) = "dstprop" -> Error

evaluate_condition(e, ctx) ==
  LET v == evaluate_with_context(e, ctx)
  IN  CASE T(v) = "bool" -> v
        [] T(v) = "null" -> False
        [] T(v) = "panic" -> Panic
        [] OTHER -> Error

-----------------------------------------------------------------------------
(* The filter of a scan.                                                   *)

FilterTrue == <<"true">>
Compare(field, op, value) == <<"compare", field, op, value>>
in_list(field, values) == <<"in", field, values>>
is_null(field) == <<"null", field>>
is_not_null(field) == <<"given", field>>
filter_and(f, g) == <<"and", f, g>>
filter_or(f, g) == <<"or", f, g>>
filter_not(f) == <<"not", f>>

compare_lt(a, b) == OrderWithBools(a, b) = "lt"
compare_le(a, b) == OrderWithBools(a, b) \in {"lt", "eq"}
compare_gt(a, b) == OrderWithBools(a, b) = "gt"
compare_ge(a, b) == OrderWithBools(a, b) \in {"gt", "eq"}
filter_compare_values(a, op, b) ==
  CASE op = "==" -> ValueEq(a, b)
    [] op = "!=" -> ~ValueEq(a, b)
    [] op = "<" -> compare_lt(a, b)
    [] op = "<=" -> compare_le(a, b)
    [] op = ">" -> compare_gt(a, b)
    [] op = ">=" -> compare_ge(a, b)
    [] op \in {"contains", "starts", "ends"} -> T(a) = "str" /\ T(b) = "str" /\ TextTest(op, V(a), V(b))
    [] op = "in" -> FALSE

(* The record filtered: its tag or edge type, and its properties.  A       *)
(* property is offered bare and qualified by the tag.                      *)
Record(name, props) == [name |-> name, props |-> props]
get_field(rec, f) == OrElse(Get(rec.props, <<f>>), Get(rec.props, <<rec.name, f>>))

RECURSIVE filter_evaluate(_, _)
filter_evaluate(f, rec) ==
  LET v == get_field(rec, f[2])
  IN  CASE f[1] = "true" -> TRUE
        [] f[1] = "compare" -> v # Missing /\ filter_compare_values(v, f[3], f[4])
        [] f[1] = "in" -> v # Missing /\ \E i \in DOMAIN f[3] : ValueEq(f[3][i], v)
        [] f[1] = "null" -> v \in {Missing, Null}
        [] f[1] = "given" -> v \notin {Missing, Null}
        [] f[1] = "and" -> filter_evaluate(f[2], rec) /\ filter_evaluate(f[3], rec)
        [] f[1] = "or" -> filter_evaluate(f[2], rec) \/ filter_evaluate(f[3], rec)
        [] f[1] = "not" -> ~filter_evaluate(f[2], rec)

(* What a WHERE clause of LOOKUP becomes; NoFilter when it cannot be       *)
(* expressed, and the statement is refused.                                *)
NoFilter == <<"none">>
NoPair == <<"none", Missing>>

field_name_of(e) == IF Kind(e) = "id" THEN e[2] ELSE IF Kind(e) = "prop" THEN e[3] ELSE "none"

RECURSIVE expr_to_value(_)
expr_to_value(e) ==
  CASE Kind(e) = "lit" -> e[2]
    [] Kind(e) = "un" /\ e[2] = "neg" ->
         LET v == expr_to_value(e[3])
         IN  IF T(v) = "int" THEN IntV(Wrap(-V(v))) ELSE IF T(v) = "float" THEN FloatV(-V(v)) ELSE Missing
    [] OTHER -> Missing

field_value_pair(e, ve) ==
  IF field_name_of(e) = "none" \/ expr_to_value(ve) = Missing THEN NoPair
  ELSE <<field_name_of(e), expr_to_value(ve)>>
EitherWay(l, r) == IF field_value_pair(l, r) # NoPair THEN field_value_pair(l, r) ELSE field_value_pair(r, l)

extract_eq_condition(e) ==
  IF Kind(e) = "bin" /\ e[2] = "==" THEN EitherWay(e[3], e[4]) ELSE NoPair

(* The field on the left: `30 < age' is `age > 30'.                        *)
Reversed(op) == CASE op = "<" -> ">" [] op = "<=" -> ">=" [] op = ">" -> "<" [] op = ">=" -> "<="
NoRange == <<"none", Missing, "none">>
extract_range_condition(e) ==
  IF Kind(e) # "bin" THEN NoRange
  ELSE IF e[2] \notin Ordered THEN NoRange
  ELSE IF field_value_pair(e[3], e[4]) # NoPair THEN field_value_pair(e[3], e[4]) \o <<e[2]>>
  ELSE IF field_value_pair(e[4], e[3]) # NoPair THEN field_value_pair(e[4], e[3]) \o <<Reversed(e[2])>>
  ELSE NoRange

RECURSIVE expr_to_filter_expr(_)
expr_to_filter_expr(e) ==
  LET op == IF Kind(e) \in {"bin", "un"} THEN e[2] ELSE "none"
      Both(combine(_, _)) ==
        LET f == expr_to_filter_expr(e[3])
            g == expr_to_filter_expr(e[4])
        IN  IF NoFilter \in {f, g} THEN NoFilter ELSE combine(f, g)
  IN  CASE Kind(e) = "bin" /\ op = "==" ->
             LET p == EitherWay(e[3], e[4]) IN IF p = NoPair THEN NoFilter ELSE Compare(p[1], "==", p[2])
        [] Kind(e) = "bin" /\ op = "!=" ->
             LET p == field_value_pair(e[3], e[4]) IN IF p = NoPair THEN NoFilter ELSE Compare(p[1], "!=", p[2])
        [] Kind(e) = "bin" /\ op \in Ordered ->
             LET c == extract_range_condition(e) IN IF c = NoRange THEN NoFilter ELSE Compare(c[1], c[3], c[2])
        [] Kind(e) = "bin" /\ op \in {"in", "not in"} ->
             IF field_name_of(e[3]) = "none" \/ Kind(e[4]) # "items" THEN NoFilter
             ELSE LET values == [i \in DOMAIN e[4][2] |-> expr_to_value(e[4][2][i])]
                      filter == in_list(field_name_of(e[3]), values)
                  IN  IF Missing \in Range(values) THEN NoFilter
                      ELSE IF op = "not in" THEN filter_not(filter) ELSE filter
        [] Kind(e) = "bin" /\ op = "and" -> Both(filter_and)
        [] Kind(e) = "bin" /\ op = "or" -> Both(filter_or)
        [] Kind(e) = "un" /\ op = "not" ->
             LET f == expr_to_filter_expr(e[3]) IN IF f = NoFilter THEN NoFilter ELSE filter_not(f)
        [] OTHER -> NoFilter

-----------------------------------------------------------------------------
(* Properties.                                                             *)

Alone(props) == Context(props, << >>, << >>, << >>)

(* An unknown property is unknown: a condition the evaluator decides while *)
(* a property is null is decided the same way, or fails, whatever value    *)
(* the property has.  `after' gives values to the properties that are null *)
(* in `before'; the operators that ask about null itself (==, != and the   *)
(* functions on null) are not in e.                                        *)
NullIsUnknown(e, before, after) ==
  LET a == evaluate_with_context(e, Alone(before))
      b == evaluate_with_context(e, Alone(after))
  IN  T(a) = "bool" => a = b \/ T(b) \in {"error", "panic"}

(* The comparisons of a condition, those that are negated (below an odd    *)
(* number of NOT, that of NOT IN included), and the field and the literals *)
(* of one.                                                                 *)
RECURSIVE Comparisons(_)
Comparisons(e) ==
  CASE Kind(e) = "bin" /\ e[2] \in {"and", "or"} -> Comparisons(e[3]) \cup Comparisons(e[4])
    [] Kind(e) = "un" /\ e[2] = "not" -> Comparisons(e[3])
    [] OTHER -> {e}
RECURSIVE Negated(_, _)
Negated(e, below) ==
  CASE Kind(e) = "bin" /\ e[2] \in {"and", "or"} -> Negated(e[3], below) \cup Negated(e[4], below)
    [] Kind(e) = "un" /\ e[2] = "not" -> Negated(e[3], ~below)
    [] OTHER -> IF below # (Kind(e) = "bin" /\ e[2] = "not in") THEN {e} ELSE {}
Compared(a) ==
  CASE Kind(a) = "bin" /\ a[2] \in {"in", "not in"} ->
         {<<field_name_of(a[3]), expr_to_value(a[4][2][i])>> : i \in DOMAIN a[4][2]}
    [] Kind(a) = "bin" -> {EitherWay(a[3], a[4])}
    [] OTHER -> {}

(* A filter tests equality and membership by Value::eq: an integer is not  *)
(* equal to a float, floats within the tolerance are equal, and null is a  *)
(* member of a list with null.  The evaluator differs there.               *)
EqualityDiffers(op, v, w) ==
  /\ op \notin Ordered
  /\ \/ Numeric(v) /\ Numeric(w) /\ T(v) # T(w)
     \/ T(v) = "float" /\ T(w) = "float" /\ V(v) # V(w) /\ Abs(V(v) - V(w)) < Near
     \/ v = Null /\ w = Null

(* The filter a scan is given passes exactly the records on which the      *)
(* evaluator finds the condition true, whatever values or nulls the        *)
(* properties have, but where equality differs and where a comparison that *)
(* is negated is unknown.  The filter has no unknown: when all comparisons *)
(* are negated and unknown it passes the record, and the evaluator does    *)
(* not.                                                                    *)
PushdownAgrees(e, rec) ==
  LET f == expr_to_filter_expr(e)
      decided == evaluate_condition(e, Alone(rec.props))
      unknown == {a \in Negated(e, FALSE) : evaluate_with_context(a, Alone(rec.props)) = Null}
  IN  /\ f # NoFilter /\ T(decided) = "bool"
      /\ \A a \in Comparisons(e) : \A c \in Compared(a) : ~EqualityDiffers(a[2], get_field(rec, c[1]), c[2])
      => /\ unknown = {} => (filter_evaluate(f, rec) <=> decided = True)
         /\ unknown = Comparisons(e) => filter_evaluate(f, rec) /\ decided = False

(* The null tests of a filter and of the evaluator agree on a property     *)
(* that is there; a missing one counts as null in a filter only.           *)
NullTestsAgree(field, rec) ==
  LET Asked(test) == evaluate_condition(Fn(test, <<Prop(<<rec.name>>, field)>>), Alone(rec.props))
  IN  /\ filter_evaluate(is_null(field), rec) <=> Asked("IS_NULL") = True
      /\ filter_evaluate(is_not_null(field), rec) <=> Asked("IS_NOT_NULL") = True
=============================================================================
