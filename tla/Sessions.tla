------------------------------ MODULE Sessions ------------------------------
(***************************************************************************)
(* Users and sessions of the graph service: the user records in the        *)
(* key-value store, the cache of them that logins read (AuthManager.users, *)
(* graph/auth.rs), the bearer sessions with the roles they were given      *)
(* (AuthManager.sessions), and the graph sessions with the selected space  *)
(* (SessionManager, graph/session.rs).  GraphService (graph/service.rs)    *)
(* reconciles the two session tables on every access, synchronises the     *)
(* cache after every user statement, and runs a cleanup task.              *)
(*                                                                         *)
(* Every lock is taken for one step only, so that logins, requests, user   *)
(* statements and the cleanup interleave between any two steps, and any    *)
(* request may be dropped between two of them.  The write of a user record *)
(* that is dropped may land later, on its blocking thread.  A restart      *)
(* loses everything but the records.  Time is what each session has left   *)
(* to live.                                                                *)
(***************************************************************************)
EXTENDS Naturals, FiniteSets, Functions

CONSTANTS
  Account,    \* users other than root
  Password,
  Role,       \* roles that statements assign, of ASSIGNABLE_ROLES
  Sid,        \* session ids; a drawn id is never drawn again
  Client,     \* concurrent logins and requests of these users
  Operator,   \* concurrent user statements, of administrators
  Ttl         \* session_ttl, in ticks

\* Role::admin, dba, user and guest: the permissions of each role, in any
\* space.
Permissions ==
  [ADMIN |-> {"read", "write", "create", "delete", "alter", "drop"},
   DBA   |-> {"read", "write", "create", "alter"},
   USER  |-> {"read", "write"},
   GUEST |-> {"read"}]

ASSUME SessionsAssumption ==
  /\ Role \subseteq DOMAIN Permissions
  /\ Ttl \in Nat \ {0}

NoUser == [pw |-> "none", roles |-> {}]
User == [pw : Password, roles : SUBSET Role]

Bearer == [user : Account, roles : SUBSET Role, left : 0..Ttl, missed : BOOLEAN]
GraphSession == [user : Account, left : 0..Ttl]

VARIABLES
  stored,   \* __user_ records
  cache,    \* AuthManager.users without root
  auth,     \* AuthManager.sessions
  graph,    \* SessionManager.sessions
  drawn,    \* session ids handed out
  job       \* what each client's request, and the cleanup task, do next

vars == <<stored, cache, auth, graph, drawn, job>>

Cleaner == "cleaner"
Idle == [at |-> "idle"]

Init ==
  /\ stored = [u \in Account |-> NoUser]
  /\ cache = stored
  /\ auth = <<>>
  /\ graph = <<>>
  /\ drawn = {}
  /\ job = [c \in Client \cup Operator \cup {Cleaner} |-> Idle]

At(c, at) == job[c].at = at
Go(c, j) == job' = [job EXCEPT ![c] = j]
Then(c, at) == Go(c, [job[c] EXCEPT !.at = at])
Done(c) == Go(c, Idle)

Opened(sessions, s, session) ==
  [t \in DOMAIN sessions \cup {s} |-> IF t = s THEN session ELSE sessions[t]]
Without(sessions, ids) == Restrict(sessions, DOMAIN sessions \ ids)
Live(sessions, s) == s \in DOMAIN sessions /\ sessions[s].left > 0

\* A successful access resets the time to live.
Touched(sessions, s) == [sessions EXCEPT ![s].left = Ttl]

-----------------------------------------------------------------------------
(* Login.  A refused one leaves no session; LoginThrottle has its effects.  *)

\* authenticate_evaluated clones the user, then verifies the password.
ReadUser(c, u, p) ==
  /\ At(c, "idle")
  /\ cache[u] # NoUser /\ cache[u].pw = p
  /\ Go(c, [at |-> "verified", user |-> u, read |-> cache[u]])
  /\ UNCHANGED <<stored, cache, auth, graph, drawn>>

\* missed (history): no revocation will find the session, because the user's
\* record was replaced while the password was verified, or because the
\* statement that replaced it was cut before it revoked.
CreateBearer(c, s) ==
  LET u == job[c].user
  IN  /\ At(c, "verified")
      /\ s \notin drawn
      /\ drawn' = drawn \cup {s}
      /\ auth' = Opened(auth, s, [user |-> u, roles |-> job[c].read.roles, left |-> Ttl,
                                  missed |-> job[c].read # cache[u]])
      /\ Go(c, [at |-> "bearer", user |-> u, sid |-> s])
      /\ UNCHANGED <<stored, cache, graph>>

create_session_with_id(c) ==
  /\ At(c, "bearer")
  /\ graph' = Opened(graph, job[c].sid, [user |-> job[c].user, left |-> Ttl])
  /\ Done(c)
  /\ UNCHANGED <<stored, cache, auth, drawn>>

-----------------------------------------------------------------------------
(* Requests.  live_session touches the bearer, then the graph session; when *)
(* one is missing or has expired it removes the other.                      *)

\* A statement, a USE or a sign-out of the session.  sign_out of another
\* session validates the caller's, which must be an administrator's, and then
\* the target's: operators come with the target.
Request(s, ops) == [at : {"session"}, sid : {s}, op : ops]

Receive(c, r) ==
  /\ At(c, "idle")
  /\ Go(c, r)
  /\ UNCHANGED <<stored, cache, auth, graph, drawn>>

get_session_roles(c) ==
  LET s == job[c].sid
  IN  /\ At(c, "session")
      /\ IF Live(auth, s)
         THEN auth' = Touched(auth, s) /\ Then(c, "graph")
         ELSE auth' = Without(auth, {s}) /\ Then(c, "dropgraph")
      /\ UNCHANGED <<stored, cache, graph, drawn>>

get_session(c) ==
  LET s == job[c].sid
  IN  /\ At(c, "graph")
      /\ IF Live(graph, s)
         THEN graph' = Touched(graph, s) /\ Then(c, "live")
         ELSE graph' = Without(graph, {s}) /\ Then(c, "dropbearer")
      /\ UNCHANGED <<stored, cache, auth, drawn>>

remove_session(c) ==
  /\ At(c, "dropgraph")
  /\ graph' = Without(graph, {job[c].sid})
  /\ Done(c)
  /\ UNCHANGED <<stored, cache, auth, drawn>>

drop_bearer(c) ==
  /\ At(c, "dropbearer")
  /\ auth' = Without(auth, {job[c].sid})
  /\ Done(c)
  /\ UNCHANGED <<stored, cache, graph, drawn>>

\* Some role of the session has it.
has_permission(roles, permission) == \E r \in roles : permission \in Permissions[r]
Required(op) == IF op = "use" THEN "read" ELSE op

\* check_permission takes the session's roles anew.
check_permission(c) ==
  LET s == job[c].sid
  IN  /\ At(c, "live") /\ job[c].op # "signout"
      /\ IF Live(auth, s)
         THEN /\ auth' = Touched(auth, s)
              /\ IF has_permission(auth[s].roles, Required(job[c].op))
                 THEN Then(c, "execute") ELSE Done(c)
         ELSE auth' = Without(auth, {s}) /\ Then(c, "dropgraph")
      /\ UNCHANGED <<stored, cache, graph, drawn>>

\* set_space writes only to a live session, and extends no time to live; the
\* space itself is left out.  Other statements do not touch sessions.
set_space(c) ==
  LET s == job[c].sid
  IN  /\ At(c, "execute")
      /\ graph' = IF job[c].op = "use" /\ ~Live(graph, s) THEN Without(graph, {s}) ELSE graph
      /\ Done(c)
      /\ UNCHANGED <<stored, cache, auth, drawn>>

\* Of a session that live_session found.
sign_out(c) ==
  /\ At(c, "live") /\ job[c].op = "signout"
  /\ auth' = Without(auth, {job[c].sid})
  /\ Then(c, "dropgraph")
  /\ UNCHANGED <<stored, cache, graph, drawn>>

-----------------------------------------------------------------------------
(* User statements, of administrators whose own sessions are left out.  The *)
(* executor reads the record and then writes it (executor/auth_exec.rs);    *)
(* sync_auth_manager reads it again, whether or not the statement failed.   *)

Statement ==
  [name : {"create"}, pw : Password, roles : {{}} \cup {{r} : r \in Role}]
    \cup [name : {"drop"}] \cup [name : {"alter"}, pw : Password]
    \cup [name : {"grant", "revoke"}, role : Role]

\* CREATE USER wants no record, the others one; they fail otherwise.
Applies(old, st) == (st.name = "create") <=> (old = NoUser)

\* The record that is written, even if it is the one that was read.
handle_create_user(old, st) == [pw |-> st.pw, roles |-> st.roles]
handle_drop_user(old, st) == NoUser
execute_alter_user(old, st) == [old EXCEPT !.pw = st.pw]
execute_grant(old, st) == [old EXCEPT !.roles = @ \cup {st.role}]
execute_revoke(old, st) == [old EXCEPT !.roles = @ \ {st.role}]

Result(old, st) ==
  CASE st.name = "create" -> handle_create_user(old, st)
    [] st.name = "drop" -> handle_drop_user(old, st)
    [] st.name = "alter" -> execute_alter_user(old, st)
    [] st.name = "grant" -> execute_grant(old, st)
    [] st.name = "revoke" -> execute_revoke(old, st)

Managing(c, u) ==
  job[c].at \in {"write", "late", "sync", "apply", "revoke"} /\ job[c].user = u

\* alone: no other statement on the user has overlapped this one, where a
\* statement lasts until its write has landed.
ReadRecord(c, u, st) ==
  LET others == {o \in Operator : Managing(o, u)}
  IN  /\ At(c, "idle")
      /\ job' = [d \in DOMAIN job |->
                   IF d = c
                   THEN [at |-> IF Applies(stored[u], st) THEN "write" ELSE "sync",
                         user |-> u,
                         rec |-> IF Applies(stored[u], st) THEN Result(stored[u], st) ELSE NoUser,
                         alone |-> others = {}]
                   ELSE IF d \in others THEN [job[d] EXCEPT !.alone = FALSE]
                   ELSE job[d]]
      /\ UNCHANGED <<stored, cache, auth, graph, drawn>>

WriteRecord(c) ==
  /\ At(c, "write")
  /\ stored' = [stored EXCEPT ![job[c].user] = job[c].rec]
  /\ Then(c, "sync")
  /\ UNCHANGED <<cache, auth, graph, drawn>>

\* The request is dropped while the store's blocking thread has its record: no
\* synchronisation follows, and the record is written at some later time.
Detach(c) ==
  /\ At(c, "write")
  /\ Then(c, "late")
  /\ UNCHANGED <<stored, cache, auth, graph, drawn>>

LandRecord(c) ==
  /\ At(c, "late")
  /\ stored' = [stored EXCEPT ![job[c].user] = job[c].rec]
  /\ Done(c)
  /\ UNCHANGED <<cache, auth, graph, drawn>>

sync_auth_manager(c) ==
  /\ At(c, "sync")
  /\ Go(c, [job[c] EXCEPT !.at = "apply", !.rec = stored[job[c].user]])
  /\ UNCHANGED <<stored, cache, auth, graph, drawn>>

\* Mutant: a record with the same roles is taken for the one in the cache.
upsert_if_roles_differ(c) ==
  LET u == job[c].user
  IN  /\ At(c, "apply") /\ job[c].rec # NoUser
      /\ IF cache[u].roles = job[c].rec.roles /\ cache[u] # NoUser
         THEN Done(c) /\ UNCHANGED cache
         ELSE Then(c, "revoke") /\ cache' = [cache EXCEPT ![u] = job[c].rec]
      /\ UNCHANGED <<stored, auth, graph, drawn>>

upsert_persisted_user(c) ==
  LET u == job[c].user
  IN  /\ At(c, "apply") /\ job[c].rec # NoUser
      /\ cache' = [cache EXCEPT ![u] = job[c].rec]
      /\ IF cache[u] = job[c].rec THEN Done(c) ELSE Then(c, "revoke")
      /\ UNCHANGED <<stored, auth, graph, drawn>>

\* A user that is not in the cache has no sessions to revoke.
delete_user(c) ==
  LET u == job[c].user
  IN  /\ At(c, "apply") /\ job[c].rec = NoUser
      /\ cache' = [cache EXCEPT ![u] = NoUser]
      /\ IF cache[u] = NoUser THEN Go(c, [at |-> "orphans"]) ELSE Then(c, "revoke")
      /\ UNCHANGED <<stored, auth, graph, drawn>>

\* Mutant: only the sessions that have expired are revoked.
invalidate_expired(c) ==
  /\ At(c, "revoke")
  /\ auth' = RestrictValues(auth, LAMBDA b : b.user # job[c].user \/ b.left > 0)
  /\ Go(c, [at |-> "orphans"])
  /\ UNCHANGED <<stored, cache, graph, drawn>>

invalidate_user_sessions(c) ==
  /\ At(c, "revoke")
  /\ auth' = RestrictValues(auth, LAMBDA b : b.user # job[c].user)
  /\ Go(c, [at |-> "orphans"])
  /\ UNCHANGED <<stored, cache, graph, drawn>>

-----------------------------------------------------------------------------
(* remove_orphan_sessions, by user statements and by the cleanup task.  It  *)
(* checks and removes one listed session after the other.  They are taken   *)
(* together here: what has lost its bearer never gets one again, so that    *)
(* the steps between commute with those of others.                          *)

\* The bearers, after each graph session's was looked at: expired ones go.
has_live_session_without_touch == Without(auth, {s \in DOMAIN graph : ~Live(auth, s)})

remove_orphan_sessions(c) ==
  /\ At(c, "orphans")
  /\ auth' = has_live_session_without_touch
  /\ graph' = Restrict(graph, {s \in DOMAIN graph : Live(auth, s)})
  /\ Done(c)
  /\ UNCHANGED <<stored, cache, drawn>>

Alive(session) == session.left > 0

\* Mutant: the task does not go on to the graph sessions.
cleanup_bearers_only ==
  /\ At(Cleaner, "idle")
  /\ auth' = RestrictValues(auth, Alive)
  /\ UNCHANGED <<stored, cache, graph, drawn, job>>

cleanup_expired_sessions ==
  /\ At(Cleaner, "idle")
  /\ auth' = RestrictValues(auth, Alive)
  /\ Go(Cleaner, [at |-> "expired"])
  /\ UNCHANGED <<stored, cache, graph, drawn>>

cleanup_expired ==
  /\ At(Cleaner, "expired")
  /\ graph' = RestrictValues(graph, Alive)
  /\ Go(Cleaner, [at |-> "orphans"])
  /\ UNCHANGED <<stored, cache, auth, drawn>>

Cleanup == cleanup_expired_sessions \/ cleanup_expired \/ remove_orphan_sessions(Cleaner)

-----------------------------------------------------------------------------
\* The peer disconnects, or a storage call fails, and nothing is under way.
Cancel(c) ==
  /\ ~At(c, "idle")
  /\ auth' = [s \in DOMAIN auth |->
                IF At(c, "revoke") /\ auth[s].user = job[c].user
                THEN [auth[s] EXCEPT !.missed = TRUE] ELSE auth[s]]
  /\ Done(c)
  /\ UNCHANGED <<stored, cache, graph, drawn>>

Aged(sessions) ==
  [s \in DOMAIN sessions |-> [sessions[s] EXCEPT !.left = IF @ = 0 THEN 0 ELSE @ - 1]]

Tick ==
  /\ auth' = Aged(auth)
  /\ graph' = Aged(graph)
  /\ UNCHANGED <<stored, cache, drawn, job>>

\* The launcher hydrates the cache before it serves.
hydrate_persisted_users == cache' = stored

Restart ==
  /\ hydrate_persisted_users
  /\ auth' = <<>>
  /\ graph' = <<>>
  /\ job' = [c \in DOMAIN job |-> Idle]
  /\ UNCHANGED <<stored, drawn>>

LoginStep(c) ==
  \/ \E u \in Account, p \in Password : ReadUser(c, u, p)
  \/ \E s \in Sid : CreateBearer(c, s)
  \/ create_session_with_id(c)

SessionStep(c) ==
  \/ get_session_roles(c)
  \/ get_session(c)
  \/ remove_session(c)
  \/ drop_bearer(c)
  \/ sign_out(c)

RequestStep(c) ==
  \/ \E s \in drawn : \E r \in Request(s, {"write", "use", "signout"}) : Receive(c, r)
  \/ check_permission(c)
  \/ set_space(c)

StatementStep(c) ==
  \/ \E s \in drawn : \E r \in Request(s, {"signout"}) : Receive(c, r)
  \/ \E u \in Account, st \in Statement : ReadRecord(c, u, st)
  \/ WriteRecord(c)
  \/ Detach(c)
  \/ LandRecord(c)
  \/ sync_auth_manager(c)
  \/ upsert_persisted_user(c)
  \/ delete_user(c)
  \/ invalidate_user_sessions(c)
  \/ remove_orphan_sessions(c)

Next ==
  \/ \E c \in Client : LoginStep(c) \/ RequestStep(c)
  \/ \E o \in Operator : StatementStep(o)
  \/ \E c \in Client \cup Operator : SessionStep(c) \/ Cancel(c)
  \/ Cleanup
  \/ Tick
  \/ Restart

\* Time passes, and the cleanup task runs on its ticker; requests owe nothing.
Fairness == WF_vars(Tick) /\ WF_vars(Cleanup)

Spec == Init /\ [][Next]_vars /\ Fairness

-----------------------------------------------------------------------------
(* Properties.                                                              *)

TypeOK ==
  /\ stored \in [Account -> User \cup {NoUser}]
  /\ cache \in [Account -> User \cup {NoUser}]
  /\ DOMAIN auth \subseteq drawn /\ \A s \in DOMAIN auth : auth[s] \in Bearer
  /\ DOMAIN graph \subseteq drawn /\ \A s \in DOMAIN graph : graph[s] \in GraphSession
  /\ drawn \subseteq Sid
  /\ DOMAIN job = Client \cup Operator \cup {Cleaner}

\* Whatever statements change a user, the sessions they do not revoke have the
\* roles of the user's record in the cache, apart from a session whose login raced
\* the change and from a change that was cut.  How far the cache follows the
\* stored record is AloneConverges.
RolesCurrent ==
  \A s \in DOMAIN auth :
    LET u == auth[s].user
    IN  \/ auth[s].missed
        \/ cache[u] # NoUser /\ auth[s].roles = cache[u].roles
        \/ \E o \in Operator : At(o, "revoke") /\ job[o].user = u

\* A statement that no other overlapped leaves the cache equal to the stored
\* record, whatever overlapped, was cut or failed before it.  A dropped statement
\* whose write is still to land overlaps, and so do two statements on one user
\* at a time: those may leave the older record in the cache.
AloneConverges ==
  [][\A o \in Operator :
        ((upsert_persisted_user(o) \/ delete_user(o)) /\ job[o].alone) =>
           cache'[job[o].user] = stored[job[o].user]]_vars

\* Neither table keeps what the other has given up: once the bearer is gone,
\* the graph session goes, however often requests with its id arrive.
OrphansGo ==
  \A s \in Sid : (s \in drawn \ DOMAIN auth) ~> (s \notin DOMAIN graph)

\* The cleanup does not keep alive what it looks at: a session that nobody
\* uses any more disappears from both tables.
Unused(s) == \A c \in Client \cup Operator : ~("sid" \in DOMAIN job[c] /\ job[c].sid = s)
AbandonedExpire ==
  \A s \in Sid : <>[]Unused(s) => <>[](s \notin DOMAIN auth \cup DOMAIN graph)
=============================================================================
