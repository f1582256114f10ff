------------------------------- MODULE VidMap -------------------------------
(***************************************************************************)
(* The vertex identifiers of a FIXED_STRING space (byoridb-executor        *)
(* vid.rs).  Graph data is keyed by 64-bit numbers, so every string has a  *)
(* surrogate in the negative half of them, kept in two keys: vid-map from  *)
(* the string to the number and vid-rev back.  resolve_vid reads and       *)
(* writes the store with separate calls; an INSERT creates the mapping of  *)
(* a string it does not find, probing from the hash of the string, and     *)
(* then writes the vertex; a DELETE only looks the string up and removes   *)
(* the vertex.                                                             *)
(*                                                                         *)
(* Statements hold the write lock of their space (Executor::execute), so   *)
(* they come one at a time; callers of resolve_vid itself, as the tests of *)
(* vid.rs are, interleave.  A caller may be cancelled, or the process die, *)
(* between any two calls to the store.  A statement whose writes are       *)
(* staged and committed together (dml_atomic.rs) takes all of the steps of *)
(* a caller here or none, so what holds of these callers holds of it.      *)
(***************************************************************************)
EXTENDS Integers

CONSTANTS
  Str,        \* strings within the length the space allows (validate_write_vid)
  MinVid,     \* i64::MIN
  Hash,       \* hash_bytes of a string with the sign bit set
  Caller

Candidate == MinVid .. -1
Unmapped == 0        \* no key
Nobody == "nobody"   \* no key

ASSUME VidAssumption ==
  /\ MinVid \in Int /\ MinVid < 0
  /\ Hash \in [Str -> Candidate]
  /\ Nobody \notin Str

VARIABLES
  forward,     \* {space}:vid-map: keys
  reverse,     \* {space}:vid-rev: keys
  occupied,    \* negative numbers that graph data uses
  locked,      \* callers hold the lock of the space
  call         \* what each caller is doing
vidvars == <<forward, reverse, occupied, locked, call>>

Ended == {"idle", "mapped", "unknown", "conflict", "exhausted", "corrupt"}
Busy == {"lookup", "check", "probe", "inspect", "claim", "publish", "write"}
Call == [at : Ended \cup Busy, name : Str, vid : Candidate, op : {"insert", "delete"}]

VidTypeOK ==
  /\ forward \in [Str -> Candidate \cup {Unmapped}]
  /\ reverse \in [Candidate -> Str \cup {Nobody}]
  /\ occupied \subseteq Candidate
  /\ locked \in BOOLEAN
  /\ call \in [Caller -> Call]

VidInit ==
  /\ forward = [s \in Str |-> Unmapped]
  /\ reverse = [v \in Candidate |-> Nobody]
  /\ occupied \in SUBSET Candidate        \* data of a space older than the mapping
  /\ locked \in BOOLEAN
  /\ call \in [Caller -> {[at |-> "idle", name |-> s, vid |-> Hash[s], op |-> "insert"] : s \in Str}]

-----------------------------------------------------------------------------
initial_candidate(s) == Hash[s]

(* (next_saturating: the search ends at the last number.)                  *)
next_saturating(v) == IF v = -1 THEN -1 ELSE v + 1
next_candidate(v) == IF v = -1 THEN MinVid ELSE v + 1

(* The call goes on at another point; the mapping is left alone.           *)
At(c, point) == call' = [call EXCEPT ![c].at = point]
Keep == UNCHANGED <<forward, reverse, occupied, locked>>

(* The next candidate, unless it is the one the search began with.         *)
Advance(c) ==
  LET v == next_candidate(call[c].vid)
  IN  call' = [call EXCEPT ![c].vid = v,
                           ![c].at = IF v = initial_candidate(call[c].name) THEN "exhausted" ELSE "probe"]

(* put_if_absent: the value that was there, or none and the value is put.  *)
put_if_absent(map, key, none, value) == IF map[key] = none THEN [map EXCEPT ![key] = value] ELSE map

-----------------------------------------------------------------------------
Begin(c) ==
  /\ call[c].at \in Ended
  /\ locked => \A d \in Caller : call[d].at \in Ended
  /\ \E s \in Str, op \in {"insert", "delete"} :
        call' = [call EXCEPT ![c] = [at |-> "lookup", name |-> s, vid |-> initial_candidate(s), op |-> op]]
  /\ Keep

(* The forward key; without one only an INSERT goes on.                    *)
Lookup(c) ==
  LET s == call[c].name
  IN  /\ call[c].at = "lookup"
      /\ IF forward[s] # Unmapped THEN call' = [call EXCEPT ![c].at = "check", ![c].vid = forward[s]]
         ELSE At(c, IF call[c].op = "insert" THEN "probe" ELSE "unknown")
      /\ Keep

(* A forward key counts only with its reverse key.                         *)
CheckReverse(c) ==
  /\ call[c].at = "check"
  /\ At(c, IF reverse[call[c].vid] = call[c].name THEN "write" ELSE "corrupt")
  /\ Keep

Probe(c) ==
  LET owner == reverse[call[c].vid]
  IN  /\ call[c].at = "probe"
      /\ \/ owner = Nobody /\ At(c, "inspect")
         \/ owner = call[c].name /\ At(c, "publish")
         \/ owner \notin {Nobody, call[c].name} /\ Advance(c)
      /\ Keep

(* (TrustsReverse: a number without reverse key is taken to be free.)      *)
TrustsReverse(c) ==
  /\ call[c].at = "inspect"
  /\ At(c, "claim")
  /\ Keep
internal_vid_is_occupied(c) ==
  /\ call[c].at = "inspect"
  /\ IF call[c].vid \in occupied THEN Advance(c) ELSE At(c, "claim")
  /\ Keep

Claim(c) ==
  LET v == call[c].vid
  IN  /\ call[c].at = "claim"
      /\ reverse' = put_if_absent(reverse, v, Nobody, call[c].name)
      /\ IF reverse[v] \in {Nobody, call[c].name} THEN At(c, "publish") ELSE Advance(c)
      /\ UNCHANGED <<forward, occupied, locked>>

Publish(c) ==
  LET s == call[c].name
  IN  /\ call[c].at = "publish"
      /\ forward' = put_if_absent(forward, s, Unmapped, call[c].vid)
      /\ At(c, IF forward[s] \in {Unmapped, call[c].vid} THEN "write" ELSE "conflict")
      /\ UNCHANGED <<reverse, occupied, locked>>

(* The statement writes or deletes the vertex.  Mappings stay.             *)
WriteVertex(c) ==
  /\ call[c].at = "write"
  /\ occupied' = IF call[c].op = "insert" THEN occupied \cup {call[c].vid} ELSE occupied \ {call[c].vid}
  /\ At(c, "mapped")
  /\ UNCHANGED <<forward, reverse, locked>>

Cancel(c) == call[c].at \in Busy /\ At(c, "idle") /\ Keep

VidNext == \E c \in Caller : \/ Begin(c) \/ Lookup(c) \/ CheckReverse(c) \/ Probe(c) \/ internal_vid_is_occupied(c)
                             \/ Claim(c) \/ Publish(c) \/ WriteVertex(c) \/ Cancel(c)
VidSpec == VidInit /\ [][VidNext]_vidvars

display_vid(v) == reverse[v]

-----------------------------------------------------------------------------
(* Properties.                                                             *)

(* A string resolves to one number, and the number displays as the string: *)
(* the forward key of a string always has the reverse key (so no two       *)
(* strings share a number, and no lookup finds the mapping corrupt), and   *)
(* every vertex written was written under the number the string is mapped  *)
(* to, whatever callers interleave and wherever they are cancelled.        *)
NamesExact ==
  /\ \A s \in Str : forward[s] # Unmapped => display_vid(forward[s]) = s
  /\ \A c \in Caller : /\ call[c].at # "corrupt"
                       /\ call[c].at \in {"write", "mapped"} => forward[call[c].name] = call[c].vid

(* A search gives up only when every number is claimed or used by older    *)
(* data, and under the lock of the space a string never claims two numbers *)
(* and no statement meets a conflict: the deterministic order of probing   *)
(* "keeps repeated concurrent inserts convergent" (vid.rs:235).            *)
ClaimsSound ==
  /\ \A c \in Caller : call[c].at = "exhausted" =>
       \A v \in Candidate : reverse[v] # Nobody \/ v \in occupied
  /\ locked => /\ \A c \in Caller : call[c].at # "conflict"
               /\ \A v, w \in Candidate : reverse[v] # Nobody /\ reverse[v] = reverse[w] => v = w

(* Both: what resolve_vid promises of every moment.                        *)
NamesSound == NamesExact /\ ClaimsSound

(* A mapping, once there, is never changed or recycled, and a number that  *)
(* older data uses is never given to a string.                             *)
MappingsStay ==
  [][/\ \A s \in Str : forward[s] # Unmapped => forward'[s] = forward[s]
     /\ \A v \in Candidate : reverse[v] # Nobody => reverse'[v] = reverse[v]
     /\ \A v \in occupied : reverse[v] = Nobody => reverse'[v] = Nobody]_vidvars
=============================================================================
