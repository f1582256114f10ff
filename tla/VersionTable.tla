---------------------------- MODULE VersionTable ----------------------------
(***************************************************************************)
(* The version table under arbitrary put_version and batch_put_version     *)
(* calls: intervals that end, corrections of older times recorded later    *)
(* and rows whose key is already there.                                    *)
(***************************************************************************)
EXTENDS AsOf, FiniteSets

CONSTANTS
  Entity,
  Payload,
  MaxRows    \* bound on the rows of the table

VARIABLE table

Version == [entity : Entity, from : Time, to : Time, tx : Time, value : Payload]

\* The keys of a table are unique.
Keyed(rows) == \A v, w \in rows : SameKey(v, w) => v = w

Init == table = {}

put_version(v) ==
  /\ table' = Insert(table, {v})
  /\ Cardinality(table') <= MaxRows

batch_put_version(rows) ==
  /\ table' = Insert(table, rows)
  /\ Cardinality(table') <= MaxRows

\* Batches of two rows with different keys.
Batches ==
  {rows \in {{v, w} : v, w \in Version} : Cardinality(rows) = 2 /\ Keyed(rows)}

Next ==
  \/ \E v \in Version : put_version(v)
  \/ \E rows \in Batches : batch_put_version(rows)

Spec == Init /\ [][Next]_table

\* The table is a map: no two rows share a key.
TypeOK == table \subseteq Version /\ Keyed(table)

\* The seek of the ordered backends returns what the trait's default returns:
\* the version with the greatest valid-from and transaction time among those
\* recorded by txAt whose interval covers validAt, for every pair of times.
SeekMatchesScan ==
  \A e \in Entity, validAt, txAt \in Time :
    get_as_of(table, e, validAt, txAt) = ScanAsOf(table, e, validAt, txAt)
=============================================================================
