------------------------------ MODULE MetaWire ------------------------------
(***************************************************************************)
(* The messages between the meta client and the meta service: how each     *)
(* side turns a schema into a message and back (byoridb-meta/src/client.rs *)
(* and rpc.rs).  A data type is its name with a length, which only a fixed *)
(* string uses; a default is a string or None; on the wire an absent       *)
(* default is the empty string and an unknown enumeration value is a       *)
(* number no type has.                                                     *)
(***************************************************************************)
EXTENDS Naturals, Sequences, FiniteSets

CONSTANT None  \* an absent value

Plain == {"bool", "int8", "int16", "int32", "int64", "float", "double", "string",
          "timestamp", "date", "time", "datetime", "geography"}

DataType(name, len) == [name |-> name, len |-> len]

-----------------------------------------------------------------------------
(* The client.                                                             *)

ClientTypeToProto(t) == IF t.name = "fixed_string" THEN [dt |-> t.name, len |-> t.len]
                        ELSE [dt |-> t.name, len |-> 0]

ClientTypeFromProto(dt, len) ==
  CASE dt = "fixed_string" -> DataType("fixed_string", len)
    [] dt \in Plain -> DataType(dt, 0)
    [] dt \notin Plain \cup {"fixed_string"} -> DataType("string", 0)

ClientFieldsToProto(fields) ==
  [i \in DOMAIN fields |->
     [name |-> fields[i].name, data_type |-> ClientTypeToProto(fields[i].type).dt,
      fixed_string_len |-> ClientTypeToProto(fields[i].type).len,
      nullable |-> fields[i].nullable,
      default_value |-> IF fields[i].default = None THEN "" ELSE fields[i].default]]

ClientFieldsFromProto(fields) ==
  [i \in DOMAIN fields |->
     [name |-> fields[i].name,
      type |-> ClientTypeFromProto(fields[i].data_type, fields[i].fixed_string_len),
      nullable |-> fields[i].nullable,
      default |-> IF fields[i].default_value = "" THEN None ELSE fields[i].default_value]]

(* An operation of ALTER: Drop carries a name, Add and Change a field.     *)
ClientAlterToProto(ops) ==
  [i \in DOMAIN ops |->
     IF ops[i].op = "drop" THEN [op |-> "drop", field |-> None, field_name |-> ops[i].name]
     ELSE [op |-> ops[i].op, field |-> ClientFieldsToProto(<<ops[i].field>>)[1], field_name |-> ""]]

ClientStrategyToProto(s) ==
  [type |-> s.type, boundaries |-> IF s.type = "range" THEN s.boundaries ELSE << >>]

ClientStrategyFromProto(s) ==
  IF s = None THEN [type |-> "hash"]
  ELSE CASE s.type = "range" -> [type |-> "range", boundaries |-> s.boundaries]
         [] s.type = "modulo" -> [type |-> "modulo"]
         [] s.type \notin {"range", "modulo"} -> [type |-> "hash"]

CreateSpaceRequest(space) ==
  [name |-> space.name, partition_num |-> space.partition_num,
   replica_factor |-> space.replica_factor, vid_type |-> space.vid.name,
   vid_size |-> IF space.vid.name = "int64" THEN 0 ELSE space.vid.len,
   partition_strategy |-> ClientStrategyToProto(space.strategy)]

ClientSpaceFromProto(d) ==
  [name |-> d.name, partition_num |-> d.partition_num, replica_factor |-> d.replica_factor,
   vid |-> IF d.vid_type = "fixed_string" THEN DataType("fixed_string", d.vid_size)
           ELSE DataType("int64", 0),
   strategy |-> ClientStrategyFromProto(d.partition_strategy)]

-----------------------------------------------------------------------------
(* The service.  It never reads the lengths of a request.                  *)

DefaultLength == 32

ServerVidType(vt) == IF vt = "int64" THEN DataType("int64", 0)
                     ELSE DataType("fixed_string", DefaultLength)

ServerDataType(dt) == IF dt = "fixed_string" THEN DataType(dt, DefaultLength) ELSE DataType(dt, 0)

ServerFieldFromProto(f) ==
  [name |-> f.name,
   type |-> ServerDataType(IF f.data_type \in Plain \cup {"fixed_string"} THEN f.data_type
                           ELSE "string"),
   nullable |-> f.nullable,
   default |-> IF f.default_value = "" THEN None ELSE f.default_value]

ServerFieldsToProto(fields) ==
  [i \in DOMAIN fields |->
     [name |-> fields[i].name, data_type |-> fields[i].type.name,
      fixed_string_len |-> IF fields[i].type.name = "fixed_string" THEN fields[i].type.len ELSE 0,
      nullable |-> fields[i].nullable,
      default_value |-> IF fields[i].default = None THEN "" ELSE fields[i].default]]

(* An operation without the field it needs refuses the whole request.      *)
ServerAlterFromProto(ops) ==
  IF \E i \in DOMAIN ops : ops[i].op # "drop" /\ ops[i].field = None THEN None
  ELSE [i \in DOMAIN ops |->
          IF ops[i].op = "drop" THEN [op |-> "drop", name |-> ops[i].field_name]
          ELSE [op |-> ops[i].op, field |-> ServerFieldFromProto(ops[i].field)]]

ServerStrategyFromProto(s) ==
  IF s = None THEN [type |-> "hash"]
  ELSE CASE s.type = "range" -> [type |-> "range", boundaries |-> s.boundaries]
         [] s.type = "modulo" -> [type |-> "modulo"]
         [] s.type \notin {"range", "modulo"} -> [type |-> "hash"]

ServerStrategyToProto(s) ==
  [type |-> s.type, boundaries |-> IF s.type = "range" THEN s.boundaries ELSE << >>]

SpaceDesc(space) ==
  [name |-> space.name, partition_num |-> space.partition_num,
   replica_factor |-> space.replica_factor, vid_type |-> space.vid.name,
   vid_size |-> IF space.vid.name = "fixed_string" THEN space.vid.len ELSE 0,
   partition_strategy |-> ServerStrategyToProto(space.strategy)]

StoredSpace(req) ==
  [name |-> req.name, partition_num |-> req.partition_num, replica_factor |-> req.replica_factor,
   vid |-> ServerVidType(req.vid_type), strategy |-> ServerStrategyFromProto(req.partition_strategy)]

-----------------------------------------------------------------------------
(* Errors cross the wire as codes.                                         *)

Errors == {"SpaceNotFound", "SpaceAlreadyExists", "TagNotFound", "TagAlreadyExists",
           "EdgeNotFound", "EdgeAlreadyExists", "IndexNotFound", "IndexAlreadyExists",
           "FieldNotFound", "PartitionNotFound", "FieldAlreadyExists", "InvalidAlterOperation",
           "InvalidPartitionStrategy", "InvalidOperation", "Internal"}

Coded == Errors \ {"InvalidPartitionStrategy", "InvalidOperation", "Internal"}

to_error_code(e) == IF e \in Coded THEN e ELSE "EInternalError"

code_to_error(code) ==
  IF code \in Coded \ {"FieldAlreadyExists", "InvalidAlterOperation"} THEN code ELSE "Internal"

-----------------------------------------------------------------------------
(* What a client reads back of what it sent.                               *)

FieldsReadBack(fields) ==
  LET stored == [i \in DOMAIN fields |->
                   ServerFieldFromProto(ClientFieldsToProto(fields)[i])]
  IN  ClientFieldsFromProto(ServerFieldsToProto(stored))

SpaceReadBack(space) == ClientSpaceFromProto(SpaceDesc(StoredSpace(CreateSpaceRequest(space))))

AlterReceived(ops) == ServerAlterFromProto(ClientAlterToProto(ops))

(* A field as the service can represent it.                                *)
Representable(f) ==
  [f EXCEPT !.type = IF f.type.name = "fixed_string" THEN DataType("fixed_string", DefaultLength)
                     ELSE f.type,
            !.default = IF f.default = "" THEN None ELSE f.default]

(* A type's columns survive the trip to the service and back, in order,    *)
(* but for two losses: a fixed string always comes back with length 32,    *)
(* and an empty default is no default.                                     *)
FieldsSurvive(fields) ==
  FieldsReadBack(fields) = [i \in DOMAIN fields |-> Representable(fields[i])]

(* A space survives the trip but for the length of its vertex ids.         *)
SpaceSurvives(space) ==
  SpaceReadBack(space) =
    [space EXCEPT !.vid = IF space.vid.name = "fixed_string"
                          THEN DataType("fixed_string", DefaultLength) ELSE space.vid]

(* The service receives the operations of an ALTER in order, and never     *)
(* refuses what a client built.                                            *)
AlterSurvives(ops) ==
  AlterReceived(ops) =
    [i \in DOMAIN ops |-> IF ops[i].op = "drop" THEN ops[i]
                          ELSE [op |-> ops[i].op, field |-> Representable(ops[i].field)]]

(* A client tells a missing object from an existing one, and never takes   *)
(* a refusal for the opposite one.                                         *)
ErrorsKeepMeaning(e) == code_to_error(to_error_code(e)) \in {e, "Internal"}
=============================================================================
