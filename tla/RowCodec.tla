------------------------------ MODULE RowCodec ------------------------------
(***************************************************************************)
(* The row format (byoridb-codec/src/{row,schema}.rs): a header with the   *)
(* number of bytes of the schema version, the version, null flags, the     *)
(* fixed part and the variable part.  A byte is a number below Base, a     *)
(* flag byte has FlagBits flags, and a word of several bytes is two here.  *)
(* "byte" stands for the types of one byte that are read back as written   *)
(* (bool), "int" for those of several (int16 to int64, the floats and      *)
(* date), "moment" for datetime with its padding, "opaque" for the fixed   *)
(* strings and timestamps, which no reader reads.                          *)
(***************************************************************************)
EXTENDS Integers, Sequences, FiniteSets, SequencesExt, FiniteSetsExt

CONSTANTS Base,      \* 256
          FlagBits   \* 8

NULL == [t |-> "null"]
IntOf(n) == [t |-> "int", n |-> n]
StringOf(s) == [t |-> "string", s |-> s]
Err == [t |-> "error"]

-----------------------------------------------------------------------------
(* Schemas: a version and columns [name, type, nullable, default].         *)

size(type) ==
  CASE type \in {"byte", "int8", "opaque"} -> 1
    [] type \in {"int", "string", "geography"} -> 2
    [] type = "moment" -> 3

num_nullables(schema) == Cardinality({i \in DOMAIN schema.cols : schema.cols[i].nullable})
null_flags_size(schema) ==
  IF num_nullables(schema) = 0 THEN 0 ELSE ((num_nullables(schema) - 1) \div FlagBits) + 1
SizeBefore(schema, i) ==
  FoldLeft(LAMBDA n, c : n + size(c.type), 0, SubSeq(schema.cols, 1, i - 1))
fixed_data_size(schema) == SizeBefore(schema, Len(schema.cols) + 1)
get_property_index(schema, name) ==
  LET at == {i \in DOMAIN schema.cols : schema.cols[i].name = name}
  IN  IF at = {} THEN 0 ELSE Max(at)

(* The versions a provider has; the last is the greatest ever added.       *)
add_schema(provider, schema) ==
  [schemas |-> [v \in DOMAIN provider.schemas \cup {schema.version} |->
                  IF v = schema.version THEN schema ELSE provider.schemas[v]],
   latest |-> Max({provider.latest, schema.version})]

-----------------------------------------------------------------------------
(* The writer.                                                             *)

NewWriter(schema) ==
  [flags |-> [i \in 1 .. null_flags_size(schema) |-> 0], buffer |-> << >>, var |-> << >>,
   set |-> [i \in DOMAIN schema.cols |-> FALSE], ok |-> TRUE]

TwoBytes(n) == <<(n % (Base * Base)) \div Base, n % Base>>
Bit(n, b) == (n \div 2^b) % 2

(* The flags of the first columns, as many as there are flag bytes for.    *)
set_null_flag(flags, i, null) ==
  LET f == (i - 1) \div FlagBits + 1
      b == (i - 1) % FlagBits
  IN  IF f > Len(flags) \/ Bit(flags[f], b) = (IF null THEN 1 ELSE 0) THEN flags
      ELSE [flags EXCEPT ![f] = IF null THEN @ + 2^b ELSE @ - 2^b]

(* (Unchecked: an int8 is not checked against its range.)                  *)
Unchecked(type, v) ==
  CASE type = "byte" -> v.t = "int" /\ v.n \in {0, 1}
    [] type = "opaque" -> v.t = "string" /\ Len(v.s) <= 1
    [] type \in {"int", "int8", "moment"} -> v.t = "int"
    [] type \in {"string", "geography"} -> v.t = "string"
Fits(type, v) ==
  CASE type = "byte" -> v.t = "int" /\ v.n \in {0, 1}
    [] type = "int8" -> v.t = "int" /\ v.n \in -(Base \div 2) .. (Base \div 2) - 1
    [] type = "opaque" -> v.t = "string" /\ Len(v.s) <= 1
    [] type = "int" -> v.t = "int" /\ v.n \in -((Base * Base) \div 2) .. ((Base * Base) \div 2) - 1
    [] type = "moment" -> v.t = "int"
    [] type \in {"string", "geography"} -> v.t = "string"

(* A null takes no room in the fixed part.  A string leaves its place and  *)
(* its length there.                                                       *)
Written(w, type, v) ==
  CASE type \in {"byte", "int8"} -> [w EXCEPT !.buffer = @ \o <<v.n % Base>>]
    [] type = "opaque" -> [w EXCEPT !.buffer = @ \o (IF v.s = << >> THEN <<0>> ELSE v.s)]
    [] type = "int" -> [w EXCEPT !.buffer = @ \o TwoBytes(v.n)]
    [] type = "moment" -> [w EXCEPT !.buffer = @ \o TwoBytes(v.n) \o <<0>>]
    [] type \in {"string", "geography"} ->
         [w EXCEPT !.buffer = @ \o <<Len(w.var), Len(v.s)>>, !.var = @ \o v.s]

set_value(schema, w, i, v) ==
  LET col == schema.cols[i]
      marked == [w EXCEPT !.set[i] = TRUE]
  IN  IF v = NULL
      THEN IF ~col.nullable THEN [marked EXCEPT !.ok = FALSE]
           ELSE [marked EXCEPT !.flags = set_null_flag(@, i, TRUE)]
      ELSE IF ~Fits(col.type, v) THEN [marked EXCEPT !.ok = FALSE]
      ELSE Written([marked EXCEPT !.flags = set_null_flag(@, i, FALSE)], col.type, v)

schema_version_bytes(version) ==
  IF version < Base \div 2 THEN 1 ELSE IF version < (Base * Base) \div 2 THEN 2 ELSE 3
write_schema_version(version) ==
  LET n == schema_version_bytes(version)
  IN  [i \in 1 .. n |-> (version \div Base^(n - i)) % Base]

encode_row(schema, w) ==
  IF ~w.ok \/ \E i \in DOMAIN schema.cols : ~w.set[i] /\ ~schema.cols[i].nullable THEN Err
  ELSE [t |-> "row", head |-> schema_version_bytes(schema.version),
        data |-> write_schema_version(schema.version) \o w.flags \o w.buffer \o w.var]

(* The row of a sequence of values, one for each column.                   *)
Encoded(schema, values) ==
  encode_row(schema, FoldLeft(LAMBDA w, i : set_value(schema, w, i, values[i]), NewWriter(schema),
                              [i \in DOMAIN values |-> i]))

-----------------------------------------------------------------------------
(* The readers.  A read past the end is an error of one and a panic of the *)
(* other: Err here.                                                        *)

get_schema_version(row) ==
  FoldLeft(LAMBDA v, b : v * Base + b, 0, SubSeq(row.data, 1, row.head))

SignedTwo(a, b) == LET n == a * Base + b IN IF n >= (Base * Base) \div 2 THEN n - Base * Base ELSE n

(* An int8 comes back without its sign.                                    *)
read_value(row, schema, type, offset) ==
  LET data == row.data
      start == row.head + null_flags_size(schema) + fixed_data_size(schema) + data[offset + 1]
      end == start + data[offset + 2]
  IN  IF offset + size(type) > Len(data) THEN Err
      ELSE CASE type \in {"byte", "int8"} -> IntOf(data[offset + 1])
             [] type \in {"int", "moment"} -> IntOf(SignedTwo(data[offset + 1], data[offset + 2]))
             [] type \in {"string", "geography"} ->
                  IF end > Len(data) THEN Err ELSE StringOf(SubSeq(data, start + 1, end))
             [] type = "opaque" -> NULL

(* The version-aware reader does not read geographies.                     *)
decode_value(row, schema, type, offset) ==
  IF type = "geography" THEN NULL ELSE read_value(row, schema, type, offset)

ColumnOf(row, schema, i, value(_, _, _, _)) ==
  LET flag == row.head + (i - 1) \div FlagBits + 1
  IN  IF flag > Len(row.data) THEN Err
      ELSE IF Bit(row.data[flag], (i - 1) % FlagBits) = 1 THEN NULL
      ELSE value(row, schema, schema.cols[i].type,
                 row.head + null_flags_size(schema) + SizeBefore(schema, i))
get_value_by_index(row, schema, i) == ColumnOf(row, schema, i, read_value)
read_value_from_row(row, schema, i) == ColumnOf(row, schema, i, decode_value)

(* The schema a row was written with and the current one.                  *)
NewReader(row, provider) ==
  LET version == get_schema_version(row)
  IN  IF row.head = 0 \/ row.head > Len(row.data) \/ {version, provider.latest} \ DOMAIN provider.schemas # {} THEN Err
      ELSE [t |-> "reader", old |-> provider.schemas[version], new |-> provider.schemas[provider.latest]]

(* A column of the current schema, read from a row of an older version.    *)
read_field(row, provider, name) ==
  LET reader == NewReader(row, provider)
      new == reader.new
      old == reader.old
      i == get_property_index(old, name)
      j == get_property_index(new, name)
  IN  IF reader = Err THEN Err
      ELSE IF i # 0 THEN read_value_from_row(row, old, i)
      ELSE IF j # 0 THEN new.cols[j].default ELSE NULL
read_all(row, provider) ==
  LET cols == provider.schemas[provider.latest].cols
  IN  [name \in {cols[i].name : i \in DOMAIN cols} |-> read_field(row, provider, name)]

-----------------------------------------------------------------------------
(* The columns of a row that the format represents.  The flag bytes are as *)
(* many as the nullable columns need, but are read by the number of the    *)
(* column: the column's must be among them.  A null takes no room while    *)
(* the readers count the size of every column: a value is found when no    *)
(* column before it is null, a string when none is null at all.  Fixed     *)
(* strings and timestamps are not read, geographies not by both readers.   *)
Represented(schema, values, i) ==
  /\ i <= FlagBits * null_flags_size(schema)
  /\ \/ values[i] = NULL
     \/ /\ \A k \in DOMAIN values : values[k] = NULL => k > i /\ schema.cols[i].type # "string"
        /\ schema.cols[i].type \notin {"opaque", "geography"}

(* A row written under one version of a schema and read under a later one: *)
(* the version in the row is the one it was written with; the columns of   *)
(* both that the format represents, nulls included, keep their values,     *)
(* whatever was added before or after them, but that an int8 comes back    *)
(* as an unsigned byte; and the columns added since have their defaults.   *)
RowsReadBack(old, new, values) ==
  LET row == Encoded(old, values)
      provider == add_schema(add_schema([schemas |-> << >>, latest |-> 0], old), new)
      read == read_all(row, provider)
      unsigned(i) == IF old.cols[i].type = "int8" /\ values[i] # NULL THEN IntOf(values[i].n % Base) ELSE values[i]
      bytes == [k \in DOMAIN values |-> unsigned(k)]
  IN  row # Err =>
        /\ get_schema_version(row) = old.version
        /\ \A i \in DOMAIN old.cols : Represented(old, bytes, i) => get_value_by_index(row, old, i) = bytes[i]
        /\ \A j \in DOMAIN new.cols :
             LET i == get_property_index(old, new.cols[j].name)
             IN  IF i = 0 THEN read[new.cols[j].name] = new.cols[j].default
                 ELSE Represented(old, bytes, i) => read[new.cols[j].name] = bytes[i]

(* A value is kept whole by the bytes its column gives it.                 *)
Signed(n, width) == ((n + width \div 2) % width) - width \div 2
KeptWhole(type, v) ==
  CASE type = "byte" -> v.t = "int" /\ v.n % 2 = v.n
    [] type = "int8" -> v.t = "int" /\ Signed(v.n, Base) = v.n
    [] type = "int" -> v.t = "int" /\ Signed(v.n, Base * Base) = v.n
    [] type = "moment" -> v.t = "int"
    [] type = "opaque" -> v.t = "string" /\ Len(v.s) <= 1
    [] OTHER -> v.t = "string"

(* A value its column would cut, or one missing from a column that must    *)
(* have one, is refused: no row holds a truncated or invented value.       *)
BadRowsRefused(schema, values) ==
  (Encoded(schema, values) = Err) <=>
    \E i \in DOMAIN values : IF values[i] = NULL THEN ~schema.cols[i].nullable
                             ELSE ~KeptWhole(schema.cols[i].type, values[i])
=============================================================================
