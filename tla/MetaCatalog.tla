---------------------------- MODULE MetaCatalog ----------------------------
(***************************************************************************)
(* The catalogue of the meta service and a client's view of it             *)
(* (byoridb-meta/src/service/{space,tag,edge,index}.rs, rpc.rs, client.rs).*)
(*                                                                         *)
(* The service keeps concurrent maps and holds no lock across a request:   *)
(* every access to a map is a step of its own, so two requests interleave  *)
(* between a check and the insertion it guards.  A client calls through    *)
(* with_retry: an attempt may fail before, during or after the service     *)
(* ran it, and the next attempt starts while the last one may still run.   *)
(* Answers to get and list go to a cache whose entries expire.  A client   *)
(* is shared through an Arc and takes no lock across a call: statements    *)
(* that call through one client interleave, and so do their uses of its    *)
(* cache.                                                                  *)
(*                                                                         *)
(* One type name, one index name and one space name are enough: requests   *)
(* about different names touch different entries.  Tags and edge types     *)
(* never share a map, so a behaviour is about tags or about edges.         *)
(***************************************************************************)
EXTENDS Naturals, FiniteSets

CONSTANTS Callers,      \* statements, one call at a time each
          Columns,
          Scenarios,    \* [kind, ops, shared]: what a behaviour is about
          MaxCalls,     \* calls in all
          MaxFailures,  \* attempts that fail in all
          max_retries,  \* attempts of a call after its first
          cache_ttl,    \* ticks a cached answer stays usable
          Latency       \* ticks an attempt may take

VARIABLES
  kind,      \* "tag" or "edge"
  menu,      \* the operations called
  shared,    \* the callers have one client, or one each
  spaceName, \* space_names: the id of the space of that name, or 0
  spaces,    \* the ids of the spaces
  names,     \* names[o][s]: the id of the object of that name in space s, or 0
  recs,      \* recs[o]: the records in memory
  nextId,    \* the next id of each object, and of a space
  disk,      \* disk[o]: the persisted records
  past,      \* the persisted former versions of types
  tasks,     \* the requests the service is running or has answered
  call,      \* call[c]: what c waits for; late once an ALTER's answer overtook it
  cache,     \* cache[c]: the type that c's client has cached and the entry's age
  calls, failures,
  got,       \* got[c]: the type the last finished call of c's client returned
  acked,     \* acked[c]: the version its last successful ALTER returned
  disturbed  \* the service restarted, ran two changes at once, or gave one up

maps == <<spaceName, spaces, names, recs, nextId>>
stored == <<disk, past>>
client == <<call, cache, calls, failures, got, acked>>
vars == <<kind, menu, shared, maps, stored, tasks, client, disturbed>>

Objects == {"type", "index"}
None == [none |-> TRUE]
Idle == [st |-> "idle"]
Ids == 1 .. MaxCalls * (max_retries + 1)

Rec(s, id, version, cols) == [space |-> s, id |-> id, version |-> version, cols |-> cols]

Changes == {"create", "alter", "drop", "create_index", "drop_index", "create_space", "drop_space"}
Ops == Changes \cup {"get", "list", "versions", "get_space", "list_spaces", "list_index"}

NamedRec(o, s) == {r \in recs[o] : r.space = s /\ r.id = names[o][s]}

-----------------------------------------------------------------------------
(* A step of a request: it goes on at pc, or it is answered.               *)

GoOn(t, pc, id, rec) == tasks' = (tasks \ {t}) \cup {[t EXCEPT !.pc = pc, !.id = id, !.rec = rec]}

(* An answer nobody waits for, its attempt given up, is lost.              *)
Awaited(t) == call[t.c] # Idle /\ t.k = call[t.c].req.k /\ t.n = call[t.c].req.n
Answer(t, ok, rec) == IF Awaited(t) THEN GoOn(t, IF ok THEN "ok" ELSE "refused", 0, rec) ELSE tasks' = tasks \ {t}

Becomes(o, new) == recs' = [recs EXCEPT ![o] = new]

(* create_space: the name is looked up, then the space stored, then its    *)
(* name, then the record on disk.                                          *)
create_space(t) ==
  \/ /\ t.pc = "start"
     /\ IF spaceName # 0 THEN Answer(t, FALSE, None) /\ UNCHANGED nextId
        ELSE GoOn(t, "insert", nextId.space, None) /\ nextId' = [nextId EXCEPT !.space = @ + 1]
     /\ UNCHANGED <<spaceName, spaces>>
  \/ /\ t.pc = "insert" /\ spaces' = spaces \cup {t.id} /\ GoOn(t, "name", t.id, None)
     /\ UNCHANGED <<spaceName, nextId>>
  \/ /\ t.pc = "name" /\ spaceName' = t.id /\ Answer(t, TRUE, None)
     /\ UNCHANGED <<spaces, nextId>>

(* drop_space leaves the types and the indexes of the space.               *)
drop_space(t) ==
  \/ /\ t.pc = "start"
     /\ IF spaceName = 0 THEN Answer(t, FALSE, None) ELSE GoOn(t, "remove", spaceName, None)
     /\ spaceName' = 0 /\ UNCHANGED spaces
  \/ /\ t.pc = "remove" /\ spaces' = spaces \ {t.id} /\ Answer(t, TRUE, None)
     /\ UNCHANGED spaceName

get_space_by_name(t) ==
  \/ /\ t.pc = "start"
     /\ IF spaceName = 0 THEN Answer(t, FALSE, None) ELSE GoOn(t, "read", spaceName, None)
  \/ t.pc = "read" /\ Answer(t, t.id \in spaces, None)

(* What a new object needs: its space for a type; for an index its type,   *)
(* with the column it is on.                                               *)
SpaceExists(t) == t.s \in spaces
IndexedColumnExists(t) == \E r \in NamedRec("type", t.s) : t.col \in r.cols

(* The name is taken.                                                      *)
NameTaken(o, s) == names[o][s] # 0

(* The id fetch_add returns.                                               *)
NewId(o) == nextId[o]

(* The check of the name, then the record, then the name, then the disk.   *)
Create(t, o, allowed) ==
  \/ /\ t.pc = "start"
     /\ IF ~allowed \/ NameTaken(o, t.s) THEN Answer(t, FALSE, None) /\ UNCHANGED nextId
        ELSE /\ GoOn(t, "insert", NewId(o), Rec(t.s, NewId(o), 1, {t.col}))
             /\ nextId' = [nextId EXCEPT ![o] = @ + 1]
     /\ UNCHANGED <<names, recs, disk>>
  \/ /\ t.pc = "insert" /\ Becomes(o, recs[o] \cup {t.rec}) /\ GoOn(t, "name", t.id, t.rec)
     /\ UNCHANGED <<names, nextId, disk>>
  \/ /\ t.pc = "name" /\ names' = [names EXCEPT ![o][t.s] = t.id] /\ GoOn(t, "put", t.id, t.rec)
     /\ UNCHANGED <<recs, nextId, disk>>
  \/ /\ t.pc = "put" /\ Answer(t, TRUE, t.rec)
     /\ disk' = [disk EXCEPT ![o] = {r \in @ : r.space # t.s \/ r.id # t.id} \cup {t.rec}]
     /\ UNCHANGED <<names, recs, nextId>>

create_tag(t) == Create(t, "type", SpaceExists(t))
create_edge(t) == Create(t, "type", SpaceExists(t))
create_tag_index(t) == Create(t, "index", IndexedColumnExists(t))
create_edge_index(t) == Create(t, "index", IndexedColumnExists(t))

(* The name is taken out of its map, then the record, then the disk's.     *)
Drop(t, o) ==
  \/ /\ t.pc = "start"
     /\ IF names[o][t.s] = 0 THEN Answer(t, FALSE, None) ELSE GoOn(t, "remove", names[o][t.s], None)
     /\ names' = [names EXCEPT ![o][t.s] = 0]
     /\ UNCHANGED <<recs, disk>>
  \/ /\ t.pc = "remove" /\ Becomes(o, {r \in recs[o] : r.space # t.s \/ r.id # t.id})
     /\ GoOn(t, "delete", t.id, None) /\ UNCHANGED <<names, disk>>
  \/ /\ t.pc = "delete" /\ Answer(t, TRUE, None)
     /\ disk' = [disk EXCEPT ![o] = {r \in @ : r.space # t.s \/ r.id # t.id}]
     /\ UNCHANGED <<names, recs>>

drop_tag(t) == Drop(t, "type")
drop_edge(t) == Drop(t, "type")
drop_tag_index(t) == Drop(t, "index")
drop_edge_index(t) == Drop(t, "index")

(* The columns after one operation of ALTER; the operation may be refused. *)
Alterable(t, cols) == IF t.alter = "add" THEN t.col \notin cols ELSE t.col \in cols
AlteredColumns(t, cols) ==
  CASE t.alter = "add" -> cols \cup {t.col}
    [] t.alter = "drop" -> cols \ {t.col}
    [] t.alter = "change" -> cols

(* The version that goes to the history.  (NoFormer: none does.)           *)
NoFormer(t) == {}
Former(t) == {t.rec}

(* The current version is read; the next one, computed from it, replaces   *)
(* whatever is then in memory; both go to disk in one batch.               *)
Alter(t) ==
  \/ /\ t.pc = "start"
     /\ LET cur == NamedRec("type", t.s)
        IN  IF \E r \in cur : Alterable(t, r.cols)
            THEN \E r \in cur : GoOn(t, "insert", r.id, r)
            ELSE Answer(t, FALSE, None)
     /\ UNCHANGED <<recs, stored>>
  \/ /\ t.pc = "insert"
     /\ LET new == Rec(t.s, t.id, t.rec.version + 1, AlteredColumns(t, t.rec.cols))
        IN  Becomes("type", {r \in recs["type"] : r.space # t.s \/ r.id # t.id} \cup {new})
     /\ GoOn(t, "put", t.id, t.rec) /\ UNCHANGED stored
  \/ /\ t.pc = "put"
     /\ LET new == Rec(t.s, t.id, t.rec.version + 1, AlteredColumns(t, t.rec.cols))
        IN  /\ disk' = [disk EXCEPT !["type"] = {r \in @ : r.space # t.s \/ r.id # t.id} \cup {new}]
            /\ past' = {r \in past : r.space # t.s \/ r.id # t.id \/ r.version # t.rec.version} \cup Former(t)
            /\ Answer(t, TRUE, new)
     /\ UNCHANGED recs

alter_tag(t) == Alter(t)
alter_edge(t) == Alter(t)

(* get looks the name up and then reads the record; list reads the records *)
(* of the space.                                                           *)
Get(t) ==
  \/ /\ t.pc = "start"
     /\ IF names["type"][t.s] = 0 THEN Answer(t, FALSE, None) ELSE GoOn(t, "read", names["type"][t.s], None)
  \/ /\ t.pc = "read"
     /\ LET found == {r \in recs["type"] : r.space = t.s /\ r.id = t.id}
        IN  IF found = {} THEN Answer(t, FALSE, None) ELSE \E r \in found : Answer(t, TRUE, r)

get_tag(t) == Get(t)
get_edge(t) == Get(t)

(* Of several types of one name a client's cache keeps the last it meets.  *)
List(t) ==
  /\ t.pc = "start"
  /\ LET found == {r \in recs["type"] : r.space = t.s}
     IN  IF found = {} THEN Answer(t, TRUE, None) ELSE \E r \in found : Answer(t, TRUE, r)

list_tags(t) == List(t)
list_edges(t) == List(t)

(* The former versions that are on disk (a missing one is skipped), and    *)
(* the current one as it was read before.                                  *)
Versions(t) ==
  \/ /\ t.pc = "start"
     /\ IF NamedRec("type", t.s) = {} THEN Answer(t, FALSE, None)
        ELSE \E r \in NamedRec("type", t.s) : GoOn(t, "load", r.id, r)
  \/ t.pc = "load" /\ Answer(t, TRUE, t.rec)

get_tag_versions(t) == Versions(t)
get_edge_versions(t) == Versions(t)

(* The listings of spaces and indexes answer with what is in memory.       *)
ListOthers(t) == t.pc = "start" /\ Answer(t, TRUE, None)
list_spaces(t) == ListOthers(t)
list_tag_indexes(t) == ListOthers(t)
list_edge_indexes(t) == ListOthers(t)

(* The handlers of the gRPC service: one call each, its error a code.      *)
Tag(t, op) == kind = "tag" /\ t.op = op
Edge(t, op) == kind = "edge" /\ t.op = op
rpc_create_space(t) == t.op = "create_space" /\ create_space(t)
rpc_drop_space(t) == t.op = "drop_space" /\ drop_space(t) /\ UNCHANGED nextId
rpc_get_space(t) == t.op = "get_space" /\ get_space_by_name(t)
rpc_list_spaces(t) == t.op = "list_spaces" /\ list_spaces(t)
rpc_create_tag(t) == Tag(t, "create") /\ create_tag(t)
rpc_get_tag(t) == Tag(t, "get") /\ get_tag(t)
rpc_list_tags(t) == Tag(t, "list") /\ list_tags(t)
rpc_drop_tag(t) == Tag(t, "drop") /\ drop_tag(t)
rpc_alter_tag(t) == Tag(t, "alter") /\ alter_tag(t)
rpc_get_tag_versions(t) == Tag(t, "versions") /\ get_tag_versions(t)
rpc_create_edge(t) == Edge(t, "create") /\ create_edge(t)
rpc_get_edge(t) == Edge(t, "get") /\ get_edge(t)
rpc_list_edges(t) == Edge(t, "list") /\ list_edges(t)
rpc_drop_edge(t) == Edge(t, "drop") /\ drop_edge(t)
rpc_alter_edge(t) == Edge(t, "alter") /\ alter_edge(t)
rpc_get_edge_versions(t) == Edge(t, "versions") /\ get_edge_versions(t)
rpc_create_tag_index(t) == Tag(t, "create_index") /\ create_tag_index(t)
rpc_list_tag_indexes(t) == Tag(t, "list_index") /\ list_tag_indexes(t)
rpc_drop_tag_index(t) == Tag(t, "drop_index") /\ drop_tag_index(t)
rpc_create_edge_index(t) == Edge(t, "create_index") /\ create_edge_index(t)
rpc_list_edge_indexes(t) == Edge(t, "list_index") /\ list_edge_indexes(t)
rpc_drop_edge_index(t) == Edge(t, "drop_index") /\ drop_edge_index(t)

ServeSpace(t) == rpc_create_space(t) \/ rpc_drop_space(t)
ServeCreate(t) == rpc_create_tag(t) \/ rpc_create_edge(t) \/ rpc_create_tag_index(t) \/ rpc_create_edge_index(t)
ServeDrop(t) == rpc_drop_tag(t) \/ rpc_drop_edge(t) \/ rpc_drop_tag_index(t) \/ rpc_drop_edge_index(t)
ServeAlter(t) == rpc_alter_tag(t) \/ rpc_alter_edge(t)
ServeRead(t) ==
  \/ rpc_get_space(t) \/ rpc_list_spaces(t) \/ rpc_list_tag_indexes(t) \/ rpc_list_edge_indexes(t)
  \/ rpc_get_tag(t) \/ rpc_get_edge(t) \/ rpc_list_tags(t) \/ rpc_list_edges(t)
  \/ rpc_get_tag_versions(t) \/ rpc_get_edge_versions(t)

Running == {t \in tasks : t.pc \notin {"ok", "refused"}}

Serve(t) ==
  /\ t \in Running
  /\ \/ ServeSpace(t) /\ UNCHANGED <<names, recs, stored>>
     \/ ServeCreate(t) /\ UNCHANGED <<spaceName, spaces, past>>
     \/ ServeDrop(t) /\ UNCHANGED <<spaceName, spaces, nextId, past>>
     \/ ServeAlter(t) /\ UNCHANGED <<spaceName, spaces, names, nextId>>
     \/ ServeRead(t) /\ UNCHANGED <<maps, stored>>
  /\ UNCHANGED <<kind, menu, shared, client, disturbed>>

(* A restarted service starts with empty maps and ids from one; it reads   *)
(* nothing of what it persisted.  Its requests are gone.                   *)
Restart ==
  /\ failures < MaxFailures /\ failures' = failures + 1
  /\ spaceName' = 0 /\ spaces' = {} /\ names' = [o \in Objects |-> [s \in Ids |-> 0]]
  /\ recs' = [o \in Objects |-> {}]
  /\ nextId' = [type |-> 1, index |-> 1, space |-> 1]
  /\ tasks' = {} /\ disturbed' = TRUE
  /\ UNCHANGED <<kind, menu, shared, stored, call, cache, calls, got, acked>>

-----------------------------------------------------------------------------
(* The client.                                                             *)

Request(c, k, n, op, s, col, alter) ==
  [c |-> c, k |-> k, n |-> n, op |-> op, s |-> s, col |-> col, alter |-> alter,
   pc |-> "start", id |-> 0, rec |-> None, stale |-> 0]

(* The callers of c's client, and a part of that client's state set.       *)
Peers(c) == IF shared THEN Callers ELSE {c}
SetFor(f, c, v) == [x \in Callers |-> IF x \in Peers(c) THEN v ELSE f[x]]

(* Two changes run at once.                                                *)
Overlap(ts) == \E t, u \in ts : /\ t # u /\ {t.op, u.op} \subseteq Changes
                                /\ {t.pc, u.pc} \cap {"ok", "refused"} = {}

(* A usable entry: is_expired compares strictly.                           *)
Usable(c, s) == cache[c] # None /\ cache[c].rec.space = s /\ ~(cache[c].age > cache_ttl)

(* get answers from the cache while the entry is usable.                   *)
CacheHit(c, s) ==
  /\ call[c] = Idle /\ calls < MaxCalls /\ calls' = calls + 1 /\ Usable(c, s)
  /\ got' = SetFor(got, c, [rec |-> cache[c].rec, stale |-> cache[c].stale, late |-> cache[c].late])
  /\ UNCHANGED <<kind, menu, shared, maps, stored, tasks, call, cache, failures, acked, disturbed>>

(* An operation begins: its first attempt reaches the service.             *)
Begin(c, op, s, col, alter) ==
  /\ call[c] = Idle /\ calls < MaxCalls /\ calls' = calls + 1
  /\ op \in menu /\ (op = "get" => ~Usable(c, s))
  /\ LET r == Request(c, calls, 0, op, s, col, alter)
     IN  /\ call' = [call EXCEPT ![c] = [st |-> "wait", req |-> r, waited |-> 0, late |-> FALSE]]
         /\ tasks' = tasks \cup {r}
         /\ disturbed' = (disturbed \/ Overlap(tasks'))
  /\ got' = SetFor(got, c, None)
  /\ UNCHANGED <<kind, menu, shared, maps, stored, cache, failures, acked>>

Finish(c) == call' = [call EXCEPT ![c] = Idle]

(* with_retry: an attempt failed for the client.  It may never have        *)
(* reached the service, its handler may have been dropped while it awaited *)
(* the store, or it runs on; the next is sent, or the call fails.          *)
with_retry(c) ==
  /\ call[c] # Idle /\ failures < MaxFailures /\ failures' = failures + 1
  /\ LET r == call[c].req
         mine == {t \in tasks : t.c = c /\ t.k = r.k /\ t.n = r.n}
         again == [r EXCEPT !.n = @ + 1]
     IN  \E gone \in SUBSET {t \in mine : t.pc \in {"start", "put", "delete", "load"}} :
           LET rest == tasks \ (gone \cup (mine \ Running))
           IN  /\ IF r.n < max_retries
                  THEN /\ call' = [call EXCEPT ![c] = [st |-> "wait", req |-> again, waited |-> 0, late |-> FALSE]]
                       /\ tasks' = rest \cup {again}
                  ELSE Finish(c) /\ tasks' = rest
               /\ disturbed' = (disturbed \/ Overlap(tasks') \/ \E t \in gone : t.pc \in {"put", "delete"})
  /\ UNCHANGED <<kind, menu, shared, maps, stored, cache, calls, got, acked>>

(* The connection closed with the service's restart: the attempt failed.   *)
Disconnected(c) ==
  /\ call[c] # Idle /\ ~\E t \in tasks : t.c = c /\ t.k = call[c].req.k /\ t.n = call[c].req.n
  /\ Finish(c)
  /\ UNCHANGED <<kind, menu, shared, maps, stored, tasks, cache, calls, failures, got, acked, disturbed>>

Answered(c) == {t \in tasks : /\ call[c] # Idle /\ t.c = c /\ t.k = call[c].req.k
                              /\ t.n = call[c].req.n /\ t.pc \in {"ok", "refused"}}

(* The changes after which the entry of the type is taken out of the       *)
(* client's cache.  (InvalidatedLess: not after an ALTER.)                 *)
InvalidatedLess == {"create", "drop"}
Invalidated == {"create", "alter", "drop"}

(* get and list put what they fetched in the cache, whatever has happened  *)
(* to the entry since they looked; create, alter and drop of a type take   *)
(* the entry out; a refusal leaves the cache alone.                        *)
CachedAfter(c, t) ==
  IF t.pc = "ok" /\ t.op \in {"get", "list"} /\ t.rec # None
  THEN [rec |-> t.rec, age |-> 0, stale |-> t.stale, late |-> call[c].late]
  ELSE IF t.pc = "ok" /\ t.op \in Invalidated /\ cache[c] # None /\ cache[c].rec.space = t.s THEN None
  ELSE cache[c]

(* The calls of the same client that are under way are overtaken by the    *)
(* answer to an ALTER.                                                     *)
Return(c) ==
  \E t \in Answered(c) :
    /\ call' = [x \in Callers |->
         IF x = c THEN Idle
         ELSE IF call[x] # Idle /\ x \in Peers(c) /\ t.op = "alter" THEN [call[x] EXCEPT !.late = TRUE]
         ELSE call[x]]
    /\ tasks' = tasks \ {t}
    /\ cache' = SetFor(cache, c, CachedAfter(c, t))
    /\ got' = SetFor(got, c, IF t.pc = "ok" /\ t.op = "get"
                             THEN [rec |-> t.rec, stale |-> t.stale, late |-> call[c].late] ELSE None)
    /\ acked' = IF t.pc = "ok" /\ t.op = "alter" THEN SetFor(acked, c, t.rec) ELSE acked
    /\ UNCHANGED <<kind, menu, shared, maps, stored, calls, failures, disturbed>>

invalidate_cache(c) ==
  /\ call[c] = Idle /\ calls < MaxCalls /\ calls' = calls + 1
  /\ cache[c] # None /\ cache' = SetFor(cache, c, None)
  /\ UNCHANGED <<kind, menu, shared, maps, stored, tasks, call, failures, got, acked, disturbed>>

(* Time passes: entries age, and for every record a client holds or is     *)
(* being sent one more tick is counted while it is not the catalogue's.    *)
(* An attempt takes at most Latency ticks (request_timeout).  After the    *)
(* last call no time passes.                                               *)
Stale(h) == [h EXCEPT !.stale = IF h.rec \in recs["type"] THEN 0 ELSE @ + 1]
AgeCap == cache_ttl + 1
Aged(e) == IF e = None \/ e.age = AgeCap THEN e ELSE Stale([e EXCEPT !.age = @ + 1])
Tick ==
  /\ calls < MaxCalls \/ \E c \in Callers : call[c] # Idle
  /\ \A c \in Callers : call[c] # Idle => call[c].waited < Latency
  /\ call' = [c \in Callers |-> IF call[c] = Idle THEN Idle ELSE [call[c] EXCEPT !.waited = @ + 1]]
  /\ cache' = [c \in Callers |-> Aged(cache[c])]
  /\ tasks' = {IF t.pc = "ok" /\ t.op \in {"get", "list"} /\ t.rec # None THEN Stale(t) ELSE t : t \in tasks}
  /\ UNCHANGED <<kind, menu, shared, maps, stored, calls, failures, got, acked, disturbed>>

-----------------------------------------------------------------------------
Init ==
  /\ \E x \in Scenarios : kind = x.kind /\ menu = x.ops /\ shared = x.shared
  /\ spaceName = 1 /\ spaces = {1} /\ nextId = [type |-> 2, index |-> 1, space |-> 2]
  /\ \E first \in {Rec(1, 1, 1, {col}) : col \in Columns} :
       /\ recs = [type |-> {first}, index |-> {}]
       /\ disk = [type |-> {first}, index |-> {}]
  /\ names = [o \in Objects |-> [s \in Ids |-> IF o = "type" /\ s = 1 THEN 1 ELSE 0]]
  /\ past = {} /\ tasks = {} /\ disturbed = FALSE
  /\ call = [c \in Callers |-> Idle]
  /\ cache = [c \in Callers |-> None] /\ got = cache /\ acked = cache
  /\ calls = 0 /\ failures = 0

(* The ids of spaces a client may use: those it may have been told.        *)
Told == 1 .. nextId.space - 1
anyColumn == CHOOSE x \in Columns : TRUE
Plain(c, k, op) == k = kind /\ \E s \in Told : Begin(c, op, s, anyColumn, "add")
WithColumn(c, k, op, alters) == k = kind /\ \E s \in Told, col \in Columns, a \in alters : Begin(c, op, s, col, a)

(* The client's methods, one operation each.                               *)
client_create_space(c) == Begin(c, "create_space", 1, anyColumn, "add")
client_drop_space(c) == Begin(c, "drop_space", 1, anyColumn, "add")
client_get_space(c) == Begin(c, "get_space", 1, anyColumn, "add")
client_list_spaces(c) == Begin(c, "list_spaces", 1, anyColumn, "add")
client_create_tag(c) == WithColumn(c, "tag", "create", {"add"})
client_drop_tag(c) == Plain(c, "tag", "drop")
client_alter_tag(c) == WithColumn(c, "tag", "alter", {"add", "drop", "change"})
client_get_tag(c) == Plain(c, "tag", "get") \/ \E s \in Told : kind = "tag" /\ CacheHit(c, s)
client_list_tags(c) == Plain(c, "tag", "list")
client_get_tag_versions(c) == Plain(c, "tag", "versions")
client_alter_edge(c) == WithColumn(c, "edge", "alter", {"add", "drop", "change"})
client_get_edge(c) == Plain(c, "edge", "get") \/ \E s \in Told : kind = "edge" /\ CacheHit(c, s)
client_list_edges(c) == Plain(c, "edge", "list")
client_get_edge_versions(c) == Plain(c, "edge", "versions")
client_create_tag_index(c) == WithColumn(c, "tag", "create_index", {"add"})
client_list_tag_indexes(c) == Plain(c, "tag", "list_index")
client_drop_tag_index(c) == Plain(c, "tag", "drop_index")
client_create_edge_index(c) == WithColumn(c, "edge", "create_index", {"add"})
client_list_edge_indexes(c) == Plain(c, "edge", "list_index")
client_drop_edge_index(c) == Plain(c, "edge", "drop_index")

(* MetaClient has no method for these two requests; other callers do.      *)
other_create_edge(c) == WithColumn(c, "edge", "create", {"add"})
other_drop_edge(c) == Plain(c, "edge", "drop")

BeginAny(c) ==
  \/ client_create_space(c) \/ client_drop_space(c) \/ client_get_space(c) \/ client_list_spaces(c)
  \/ client_create_tag(c) \/ client_drop_tag(c) \/ client_alter_tag(c) \/ client_get_tag(c)
  \/ client_list_tags(c) \/ client_get_tag_versions(c) \/ other_create_edge(c) \/ other_drop_edge(c)
  \/ client_alter_edge(c) \/ client_get_edge(c) \/ client_list_edges(c) \/ client_get_edge_versions(c)
  \/ client_create_tag_index(c) \/ client_list_tag_indexes(c) \/ client_drop_tag_index(c)
  \/ client_create_edge_index(c) \/ client_list_edge_indexes(c) \/ client_drop_edge_index(c)

Next ==
  \/ \E c \in Callers : BeginAny(c) \/ with_retry(c) \/ Disconnected(c) \/ Return(c) \/ invalidate_cache(c)
  \/ \E t \in tasks : Serve(t)
  \/ Restart \/ Tick

Spec == Init /\ [][Next]_vars

-----------------------------------------------------------------------------
TypeOK ==
  /\ kind \in {"tag", "edge"} /\ spaceName \in {0} \cup Ids /\ spaces \subseteq Ids
  /\ \A o \in Objects : /\ names[o] \in [Ids -> {0} \cup Ids]
                        /\ \A r \in recs[o] \cup disk[o] : r.space \in Ids /\ r.id \in Ids /\ r.cols \subseteq Columns
  /\ \A t \in tasks : t.op \in Ops /\ t.c \in Callers
  /\ calls \in 0 .. MaxCalls /\ failures \in 0 .. MaxFailures

(* A name in the catalogue always leads to a record: create_tag stores the *)
(* record before the name and drop_tag takes the name out first, so no     *)
(* interleaving of requests shows a name without its type.                 *)
NamesResolve == \A o \in Objects, s \in Ids : names[o][s] # 0 => NamedRec(o, s) # {}

(* While changes do not overlap, a space has at most one type of a name:   *)
(* the check of create_tag is enough, retried requests included.           *)
OneTypePerName == ~disturbed => \A o \in Objects, s \in Ids : Cardinality({r \in recs[o] : r.space = s}) <= 1

(* While changes do not overlap, memory and disk agree whenever none runs, *)
(* and every former version of a type is on disk except, while an ALTER is *)
(* between memory and disk, the one it is about to write: what             *)
(* get_tag_versions lists misses nothing else.                             *)
CatalogPersisted ==
  ~disturbed =>
    /\ (\A t \in Running : t.op \notin Changes) => disk = recs
    /\ \A r \in recs["type"], v \in 1 .. MaxCalls : v < r.version =>
         \/ \E p \in past : p.space = r.space /\ p.id = r.id /\ p.version = v
         \/ \E t \in Running : t.op = "alter" /\ t.pc = "put" /\ t.rec.version = v

(* While changes do not overlap, no call of a client returns an older      *)
(* version of a type than the one the client's last ALTER was answered     *)
(* with, from the cache or from the service, unless a read brought it that *)
(* was under way when the answer came: alter_tag takes the entry out of    *)
(* the cache, but a get_tag or list_tags that had read the old version     *)
(* puts it back after that.  StaleBound says for how long.                 *)
ReadYourAlters ==
  \A c \in Callers :
    ~disturbed /\ got[c] # None /\ acked[c] # None /\ got[c].rec.space = acked[c].space
      /\ got[c].rec.id = acked[c].id => got[c].rec.version >= acked[c].version \/ got[c].late

(* What a client reads was the catalogue's record at some time no longer   *)
(* ago than an entry's life and the time an attempt may take.              *)
StaleBound ==
  \A c \in Callers : got[c] # None => got[c].stale <= cache_ttl + Latency
=============================================================================
