--------------------------- MODULE SessionsProofs ---------------------------
(***************************************************************************)
(* Sessions for any number of accounts, roles, clients and operators: the  *)
(* roles of the sessions, and the cache after a statement that no other    *)
(* statement on its user has overlapped.                                   *)
(***************************************************************************)
EXTENDS Sessions, TLAPS

\* The steps of a statement on a user.
Stages == {"write", "late", "sync", "apply", "revoke"}

IsBearer(b) == DOMAIN b = {"user", "roles", "left", "missed"}

IsJob(j) ==
  /\ "at" \in DOMAIN j
  /\ j.at = "verified" => j.read # NoUser
  /\ j.at \in Stages => {"user", "rec", "alone"} \subseteq DOMAIN j /\ j.user \in Account

Actors == Client \cup Operator \cup {Cleaner}

Shape ==
  /\ DOMAIN stored = Account /\ DOMAIN cache = Account
  /\ DOMAIN auth \subseteq drawn
  /\ \A s \in DOMAIN auth : IsBearer(auth[s])
  /\ DOMAIN job = Actors
  /\ \A c \in Actors : IsJob(job[c])

\* What a statement on its own applies is what is stored.
AloneApplies ==
  \A o \in Operator : At(o, "apply") /\ job[o].alone => job[o].rec = stored[job[o].user]

\* Of two statements on a user at the same time neither is alone.
AloneIsAlone ==
  \A o, p \in Operator :
    o # p /\ job[o].at \in Stages /\ job[p].at \in Stages /\ job[o].user = job[p].user
      => ~job[o].alone

Inv == Shape /\ RolesCurrent /\ AloneApplies /\ AloneIsAlone

-----------------------------------------------------------------------------
(* What becomes of the sessions.                                            *)

\* Sessions go, or stay with their user and roles.
Shrinks ==
  \A s \in DOMAIN auth' :
    /\ s \in DOMAIN auth
    /\ IsBearer(auth'[s])
    /\ auth'[s].user = auth[s].user /\ auth'[s].roles = auth[s].roles
    /\ auth[s].missed => auth'[s].missed

LEMMA TouchedShrinks ==
  ASSUME Shape, NEW s, auth' = Touched(auth, s)
  PROVE  Shrinks
BY DEF Shape, Touched, Shrinks, IsBearer

LEMMA SubsetShrinks ==
  ASSUME Shape, NEW S, S \subseteq DOMAIN auth, auth' = Restrict(auth, S)
  PROVE  Shrinks
BY DEF Shape, Restrict, Shrinks

LEMMA WithoutShrinks ==
  ASSUME Shape, NEW ids, auth' = Without(auth, ids)
  PROVE  Shrinks
<1>1. DOMAIN auth \ ids \subseteq DOMAIN auth
  OBVIOUS
<1> QED BY <1>1, SubsetShrinks DEF Without

LEMMA UnchangedShrinks ==
  ASSUME Shape, UNCHANGED auth
  PROVE  Shrinks
BY DEF Shape, Shrinks

LEMMA AliveShrinks ==
  ASSUME Shape, auth' = RestrictValues(auth, Alive)
  PROVE  Shrinks
<1> DEFINE S == {s \in DOMAIN auth : Alive(auth[s])}
<1>1. auth' = Restrict(auth, S)
  BY DEF RestrictValues
<1>2. S \subseteq DOMAIN auth
  OBVIOUS
<1> HIDE DEF S
<1> QED BY <1>1, <1>2, SubsetShrinks

LEMMA AgedShrinks ==
  ASSUME Shape, auth' = Aged(auth)
  PROVE  Shrinks
BY DEF Shape, Aged, Shrinks, IsBearer

\* The roles of the sessions stay current while the cache and the pending
\* revocations do.
LEMMA RolesKept ==
  ASSUME RolesCurrent, Shrinks, UNCHANGED cache,
         \A o \in Operator : At(o, "revoke") => At(o, "revoke")' /\ job'[o].user = job[o].user
  PROVE  RolesCurrent'
<1> SUFFICES ASSUME NEW s \in DOMAIN auth'
             PROVE  LET u == auth'[s].user
                    IN  \/ auth'[s].missed
                        \/ cache'[u] # NoUser /\ auth'[s].roles = cache'[u].roles
                        \/ \E o \in Operator : At(o, "revoke")' /\ job'[o].user = u
  BY DEF RolesCurrent, At
<1>1. s \in DOMAIN auth /\ auth'[s].user = auth[s].user /\ auth'[s].roles = auth[s].roles
      /\ (auth[s].missed => auth'[s].missed)
  BY DEF Shrinks
<1>2. \/ auth[s].missed
      \/ cache[auth[s].user] # NoUser /\ auth[s].roles = cache[auth[s].user].roles
      \/ \E o \in Operator : At(o, "revoke") /\ job[o].user = auth[s].user
  BY <1>1 DEF RolesCurrent
<1> QED BY <1>1, <1>2

-----------------------------------------------------------------------------
(* What becomes of the statements.                                          *)

LEMMA JobsTyped ==
  ASSUME Shape, NEW c \in Actors, NEW j, IsJob(j), job' = [job EXCEPT ![c] = j]
  PROVE  /\ DOMAIN job' = Actors
         /\ job'[c] = j
         /\ \A d \in Actors \ {c} : job'[d] = job[d]
         /\ \A d \in Actors : IsJob(job'[d])
BY DEF Shape

LEMMA AloneKept ==
  ASSUME Shape, AloneApplies, AloneIsAlone, NEW c \in Actors, NEW j, IsJob(j),
         job' = [job EXCEPT ![c] = j], UNCHANGED stored,
         \/ j.at \notin Stages
         \/ /\ job[c].at \in Stages
            /\ j.user = job[c].user /\ j.alone = job[c].alone
            /\ j.at = "apply" => j.rec = stored[j.user]
  PROVE  AloneApplies' /\ AloneIsAlone'
<1>1. /\ job'[c] = j
      /\ \A d \in Actors \ {c} : job'[d] = job[d]
  BY JobsTyped
<1>2. Operator \subseteq Actors
  BY DEF Actors
<1>3. AloneApplies'
  BY <1>1, <1>2 DEF AloneApplies, At, Stages
<1>4. AloneIsAlone'
  BY <1>1, <1>2 DEF AloneIsAlone
<1> QED BY <1>3, <1>4

\* A step that is not one of a statement.
LEMMA OtherStep ==
  ASSUME Inv, NEW c \in Actors, NEW j, IsJob(j), job' = [job EXCEPT ![c] = j],
         job[c].at \notin Stages, j.at \notin Stages,
         UNCHANGED <<stored, cache, drawn>>, Shrinks
  PROVE  Inv'
<1>1. /\ DOMAIN job' = Actors /\ job'[c] = j
      /\ \A d \in Actors \ {c} : job'[d] = job[d]
      /\ \A d \in Actors : IsJob(job'[d])
  BY JobsTyped DEF Inv
<1>2. Shape'
  BY <1>1 DEF Inv, Shape, Shrinks
<1>3. RolesCurrent'
  <2>1. \A o \in Operator : At(o, "revoke") => At(o, "revoke")' /\ job'[o].user = job[o].user
    BY <1>1 DEF At, Stages, Actors
  <2> QED BY <2>1, RolesKept DEF Inv
<1>4. AloneApplies' /\ AloneIsAlone'
  BY AloneKept DEF Inv
<1> QED BY <1>2, <1>3, <1>4 DEF Inv

-----------------------------------------------------------------------------
(* Logins, requests and the cleanup.                                        *)

LEMMA IdleIsJob == IsJob(Idle) /\ Idle.at \notin Stages
BY DEF IsJob, Idle, Stages

LEMMA ThenIsJob ==
  ASSUME Shape, NEW c \in Actors, NEW at, at \notin Stages, at # "verified"
  PROVE  LET j == [job[c] EXCEPT !.at = at] IN IsJob(j) /\ j.at \notin Stages
BY DEF Shape, IsJob

LEMMA InitInv ==
  ASSUME Init
  PROVE  Inv
<1>1. Shape
  BY IdleIsJob DEF Init, Shape, Actors
<1>2. RolesCurrent
  BY DEF Init, RolesCurrent
<1>3. AloneApplies /\ AloneIsAlone
  BY IdleIsJob DEF Init, AloneApplies, AloneIsAlone, At, Stages
<1> QED BY <1>1, <1>2, <1>3 DEF Inv

LEMMA ReadUserInv ==
  ASSUME Inv, NEW c \in Client, NEW u \in Account, NEW p \in Password, ReadUser(c, u, p)
  PROVE  Inv'
<1> DEFINE j == [at |-> "verified", user |-> u, read |-> cache[u]]
<1>1. IsJob(j) /\ j.at \notin Stages
  BY DEF IsJob, Stages, ReadUser
<1>2. /\ job' = [job EXCEPT ![c] = j] /\ job[c].at \notin Stages
      /\ UNCHANGED <<stored, cache, drawn>> /\ Shrinks
  BY UnchangedShrinks DEF ReadUser, Go, At, Stages, Inv
<1> HIDE DEF j
<1> QED BY <1>1, <1>2, OtherStep DEF Actors

\* A new session has the roles of the record that its login read.
LEMMA CreateBearerInv ==
  ASSUME Inv, NEW c \in Client, NEW s \in Sid, CreateBearer(c, s)
  PROVE  Inv'
<1> DEFINE u == job[c].user
           j == [at |-> "bearer", user |-> u, sid |-> s]
           b == [user |-> u, roles |-> job[c].read.roles, left |-> Ttl,
                 missed |-> job[c].read # cache[u]]
<1>0. c \in Actors
  BY DEF Actors
<1>1. IsJob(j) /\ j.at \notin Stages
  BY DEF IsJob, Stages
<1>2. /\ job' = [job EXCEPT ![c] = j] /\ job[c].at = "verified"
      /\ UNCHANGED <<stored, cache, graph>> /\ drawn' = drawn \cup {s} /\ s \notin drawn
      /\ auth' = Opened(auth, s, b)
  BY DEF CreateBearer, Go, At
<1>3. IsBearer(b) /\ b.user = u /\ b.roles = job[c].read.roles /\ (b.missed <=> job[c].read # cache[u])
  BY DEF IsBearer
<1> HIDE DEF j, b
<1>4. /\ DOMAIN auth' = DOMAIN auth \cup {s} /\ auth'[s] = b
      /\ \A t \in DOMAIN auth : auth'[t] = auth[t]
  BY <1>2 DEF Opened, Inv, Shape
<1>5. /\ DOMAIN job' = Actors /\ job'[c] = j
      /\ \A d \in Actors \ {c} : job'[d] = job[d]
      /\ \A d \in Actors : IsJob(job'[d])
  BY <1>0, <1>1, <1>2, JobsTyped DEF Inv
<1>6. Shape'
  BY <1>2, <1>3, <1>4, <1>5 DEF Inv, Shape
<1>7. RolesCurrent'
  <2>1. \A o \in Operator : At(o, "revoke") => At(o, "revoke")' /\ job'[o].user = job[o].user
    BY <1>2, <1>5 DEF At, Actors
  <2>2. job[c].read # NoUser
    BY <1>0, <1>2 DEF Inv, Shape, IsJob
  <2>3. \/ auth'[s].missed
        \/ cache'[auth'[s].user] # NoUser /\ auth'[s].roles = cache'[auth'[s].user].roles
    BY <1>2, <1>3, <1>4, <2>2
  <2>4. ASSUME NEW t \in DOMAIN auth
        PROVE  \/ auth'[t].missed
               \/ cache'[auth'[t].user] # NoUser /\ auth'[t].roles = cache'[auth'[t].user].roles
               \/ \E o \in Operator : At(o, "revoke")' /\ job'[o].user = auth'[t].user
    BY <1>2, <1>4, <2>1 DEF Inv, RolesCurrent
  <2> QED BY <1>4, <2>3, <2>4 DEF RolesCurrent, At
<1>8. AloneApplies' /\ AloneIsAlone'
  BY <1>0, <1>1, <1>2, AloneKept DEF Inv
<1> QED BY <1>6, <1>7, <1>8 DEF Inv

LEMMA ReceiveInv ==
  ASSUME Inv, NEW c \in Actors, NEW s, NEW ops, NEW r \in Request(s, ops), Receive(c, r)
  PROVE  Inv'
<1>1. IsJob(r) /\ r.at \notin Stages
  BY DEF Request, IsJob, Stages
<1>2. /\ job' = [job EXCEPT ![c] = r] /\ job[c].at \notin Stages
      /\ UNCHANGED <<stored, cache, drawn>> /\ Shrinks
  BY UnchangedShrinks DEF Receive, Go, At, Stages, Inv
<1> QED BY <1>1, <1>2, OtherStep

\* A step of a request or of the cleanup ends it or goes on to another.
LEMMA RequestInv ==
  ASSUME Inv, NEW c \in Actors, job[c].at \notin Stages, Shrinks,
         UNCHANGED <<stored, cache, drawn>>, NEW at, at \notin Stages, at # "verified",
         Done(c) \/ Then(c, at) \/ Go(c, [at |-> at])
  PROVE  Inv'
<1>1. CASE Done(c)
  BY <1>1, IdleIsJob, OtherStep DEF Done, Go
<1>2. CASE Then(c, at)
  <2> DEFINE j == [job[c] EXCEPT !.at = at]
  <2>1. IsJob(j) /\ j.at \notin Stages /\ job' = [job EXCEPT ![c] = j]
    BY <1>2, ThenIsJob DEF Then, Go, Inv
  <2> HIDE DEF j
  <2> QED BY <2>1, OtherStep
<1>3. CASE Go(c, [at |-> at])
  <2> DEFINE j == [at |-> at]
  <2>1. IsJob(j) /\ j.at \notin Stages /\ job' = [job EXCEPT ![c] = j]
    BY <1>3 DEF IsJob, Go
  <2> HIDE DEF j
  <2> QED BY <2>1, OtherStep
<1> QED BY <1>1, <1>2, <1>3

LEMMA LoginStepInv ==
  ASSUME Inv, NEW c \in Client, LoginStep(c)
  PROVE  Inv'
<1>1. CASE \E u \in Account, p \in Password : ReadUser(c, u, p)
  BY <1>1, ReadUserInv
<1>2. CASE \E s \in Sid : CreateBearer(c, s)
  BY <1>2, CreateBearerInv
<1>3. CASE create_session_with_id(c)
  <2>1. /\ job[c].at \notin Stages /\ Shrinks /\ UNCHANGED <<stored, cache, drawn>> /\ Done(c)
    BY <1>3, UnchangedShrinks DEF create_session_with_id, At, Stages, Inv
  <2>2. "idle" \notin Stages
    BY DEF Stages
  <2> QED BY <2>1, <2>2, RequestInv DEF Actors
<1> QED BY <1>1, <1>2, <1>3 DEF LoginStep

LEMMA SessionStepInv ==
  ASSUME Inv, NEW c \in Actors, SessionStep(c)
  PROVE  Inv'
<1>0. {"graph", "dropgraph", "live", "dropbearer"} \cap Stages = {}
  BY DEF Stages
<1>1. CASE get_session_roles(c)
  <2>1. job[c].at \notin Stages /\ UNCHANGED <<stored, cache, drawn>>
        /\ (Then(c, "graph") \/ Then(c, "dropgraph"))
    BY <1>1 DEF get_session_roles, At, Stages
  <2>2. Shrinks
    BY <1>1, TouchedShrinks, WithoutShrinks DEF get_session_roles, Inv
  <2> QED BY <1>0, <2>1, <2>2, RequestInv
<1>2. CASE get_session(c)
  <2>1. job[c].at \notin Stages /\ UNCHANGED <<stored, cache, drawn>>
        /\ (Then(c, "live") \/ Then(c, "dropbearer"))
    BY <1>2 DEF get_session, At, Stages
  <2>2. Shrinks
    BY <1>2, UnchangedShrinks DEF get_session, Inv
  <2> QED BY <1>0, <2>1, <2>2, RequestInv
<1>3. CASE remove_session(c)
  <2>1. job[c].at \notin Stages /\ UNCHANGED <<stored, cache, drawn>> /\ Done(c)
    BY <1>3 DEF remove_session, At, Stages
  <2>2. Shrinks
    BY <1>3, UnchangedShrinks DEF remove_session, Inv
  <2> QED BY <1>0, <2>1, <2>2, RequestInv
<1>4. CASE drop_bearer(c)
  <2>1. job[c].at \notin Stages /\ UNCHANGED <<stored, cache, drawn>> /\ Done(c)
    BY <1>4 DEF drop_bearer, At, Stages
  <2>2. Shrinks
    BY <1>4, WithoutShrinks DEF drop_bearer, Inv
  <2> QED BY <1>0, <2>1, <2>2, RequestInv
<1>5. CASE sign_out(c)
  <2>1. job[c].at \notin Stages /\ UNCHANGED <<stored, cache, drawn>> /\ Then(c, "dropgraph")
    BY <1>5 DEF sign_out, At, Stages
  <2>2. Shrinks
    BY <1>5, WithoutShrinks DEF sign_out, Inv
  <2> QED BY <1>0, <2>1, <2>2, RequestInv
<1> QED BY <1>1, <1>2, <1>3, <1>4, <1>5 DEF SessionStep

LEMMA RequestStepInv ==
  ASSUME Inv, NEW c \in Client, RequestStep(c)
  PROVE  Inv'
<1>0. c \in Actors /\ {"execute", "dropgraph"} \cap Stages = {}
  BY DEF Stages, Actors
<1>1. CASE \E s \in drawn : \E r \in Request(s, {"write", "use", "signout"}) : Receive(c, r)
  BY <1>0, <1>1, ReceiveInv
<1>2. CASE check_permission(c)
  <2>1. job[c].at \notin Stages /\ UNCHANGED <<stored, cache, drawn>>
        /\ (Then(c, "execute") \/ Done(c) \/ Then(c, "dropgraph"))
    BY <1>2 DEF check_permission, At, Stages
  <2>2. Shrinks
    BY <1>2, TouchedShrinks, WithoutShrinks DEF check_permission, Inv
  <2> QED BY <1>0, <2>1, <2>2, RequestInv
<1>3. CASE set_space(c)
  <2>1. job[c].at \notin Stages /\ UNCHANGED <<stored, cache, drawn>> /\ Done(c)
    BY <1>3 DEF set_space, At, Stages
  <2>2. Shrinks
    BY <1>3, UnchangedShrinks DEF set_space, Inv
  <2> QED BY <1>0, <2>1, <2>2, RequestInv
<1> QED BY <1>1, <1>2, <1>3 DEF RequestStep

LEMMA OrphansInv ==
  ASSUME Inv, NEW c \in Actors, remove_orphan_sessions(c)
  PROVE  Inv'
<1>1. job[c].at \notin Stages /\ UNCHANGED <<stored, cache, drawn>> /\ Done(c)
  BY DEF remove_orphan_sessions, At, Stages
<1>2. Shrinks
  BY WithoutShrinks DEF remove_orphan_sessions, has_live_session_without_touch, Inv
<1>3. "idle" \notin Stages
  BY DEF Stages
<1> QED BY <1>1, <1>2, <1>3, RequestInv

LEMMA CleanupInv ==
  ASSUME Inv, Cleanup
  PROVE  Inv'
<1>0. Cleaner \in Actors /\ {"expired", "orphans"} \cap Stages = {}
  BY DEF Stages, Actors
<1>1. CASE cleanup_expired_sessions
  <2>1. /\ job[Cleaner].at \notin Stages /\ UNCHANGED <<stored, cache, drawn>>
        /\ Go(Cleaner, [at |-> "expired"])
    BY <1>1 DEF cleanup_expired_sessions, At, Stages
  <2>2. Shrinks
    BY <1>1, AliveShrinks DEF cleanup_expired_sessions, Inv
  <2> QED BY <1>0, <2>1, <2>2, RequestInv
<1>2. CASE cleanup_expired
  <2>1. /\ job[Cleaner].at \notin Stages /\ UNCHANGED <<stored, cache, drawn>>
        /\ Go(Cleaner, [at |-> "orphans"])
    BY <1>2 DEF cleanup_expired, At, Stages
  <2>2. Shrinks
    BY <1>2, UnchangedShrinks DEF cleanup_expired, Inv
  <2> QED BY <1>0, <2>1, <2>2, RequestInv
<1>3. CASE remove_orphan_sessions(Cleaner)
  BY <1>0, <1>3, OrphansInv
<1> QED BY <1>1, <1>2, <1>3 DEF Cleanup

-----------------------------------------------------------------------------
(* Statements on users.                                                     *)

\* The statement that begins, and what it leaves of the others on its user.
LEMMA ReadRecordInv ==
  ASSUME Inv, NEW c \in Operator, NEW u \in Account, NEW st, ReadRecord(c, u, st)
  PROVE  Inv'
<1> DEFINE others == {o \in Operator : Managing(o, u)}
           at == IF Applies(stored[u], st) THEN "write" ELSE "sync"
           rec == IF Applies(stored[u], st) THEN Result(stored[u], st) ELSE NoUser
           j == [at |-> at, user |-> u, rec |-> rec, alone |-> others = {}]
<1>0. c \in Actors /\ Operator \subseteq Actors /\ job[c].at = "idle"
  BY DEF Actors, ReadRecord, At
<1>1. UNCHANGED <<stored, cache, auth, drawn>>
  BY DEF ReadRecord
<1>2. job' = [d \in DOMAIN job |->
                IF d = c THEN j
                ELSE IF d \in others THEN [job[d] EXCEPT !.alone = FALSE] ELSE job[d]]
  BY DEF ReadRecord
<1>3. j.at \in {"write", "sync"} /\ j.user = u /\ (j.alone <=> others = {}) /\ IsJob(j)
  BY DEF IsJob, Stages
<1>4. c \notin others
  BY <1>0 DEF Managing
<1> HIDE DEF j
<1>5. DOMAIN job' = Actors /\ job'[c] = j
  BY <1>0, <1>2 DEF Inv, Shape
<1>6. \A d \in Actors \ {c} : d \notin others => job'[d] = job[d]
  BY <1>2 DEF Inv, Shape
<1>7. ASSUME NEW d \in others
      PROVE  /\ job[d].at \in Stages /\ job[d].user = u
             /\ job'[d].at = job[d].at /\ job'[d].user = u /\ ~job'[d].alone
             /\ IsJob(job'[d])
  <2>1. d \in Actors /\ d # c /\ IsJob(job[d]) /\ job[d].at \in Stages /\ job[d].user = u
    BY <1>0, <1>4 DEF Managing, Stages, Inv, Shape
  <2>2. job'[d] = [job[d] EXCEPT !.alone = FALSE]
    BY <1>2, <2>1 DEF Inv, Shape
  <2> QED BY <2>1, <2>2 DEF IsJob, Stages
<1>8. \A d \in Operator : job[d].at \in Stages /\ job[d].user = u => d \in others
  BY DEF Managing, Stages
<1> HIDE DEF others
<1>9. Shape'
  <2>1. \A d \in Actors : IsJob(job'[d])
    BY <1>3, <1>5, <1>6, <1>7 DEF Inv, Shape
  <2> QED BY <1>1, <1>5, <2>1 DEF Inv, Shape
<1>10. RolesCurrent'
  <2>1. \A o \in Operator : At(o, "revoke") => At(o, "revoke")' /\ job'[o].user = job[o].user
    BY <1>0, <1>6, <1>7 DEF At
  <2> QED BY <1>1, <2>1, RolesKept, UnchangedShrinks DEF Inv
<1>11. AloneApplies'
  <2> SUFFICES ASSUME NEW o \in Operator, job'[o].at = "apply", job'[o].alone
               PROVE  job'[o].rec = stored'[job'[o].user]
    BY DEF AloneApplies, At
  <2>1. o # c /\ o \notin others
    BY <1>3, <1>5, <1>7
  <2> QED BY <1>0, <1>1, <1>6, <2>1 DEF Inv, AloneApplies, At
<1>12. AloneIsAlone'
  <2> SUFFICES ASSUME NEW o \in Operator, NEW p \in Operator, o # p, job'[o].at \in Stages,
                      job'[p].at \in Stages, job'[o].user = job'[p].user, job'[o].alone
               PROVE  FALSE
    BY DEF AloneIsAlone
  <2>1. o \notin others
    BY <1>7
  <2>2. CASE o = c
    <3>1. p \notin others
      BY <1>3, <1>5, <2>2
    <3>2. job'[p] = job[p]
      BY <1>0, <1>6, <2>2, <3>1
    <3> QED BY <1>3, <1>5, <1>8, <2>2, <3>1, <3>2
  <2>3. CASE o # c /\ p = c
    <3>1. job'[o] = job[o]
      BY <1>0, <1>6, <2>1, <2>3
    <3> QED BY <1>3, <1>5, <1>8, <2>1, <2>3, <3>1
  <2>4. CASE o # c /\ p # c
    <3>1. job'[o] = job[o]
      BY <1>0, <1>6, <2>1, <2>4
    <3>2. job[p].at \in Stages /\ job[p].user = job'[p].user
      BY <1>0, <1>6, <1>7, <2>4
    <3> QED BY <3>1, <3>2 DEF Inv, AloneIsAlone
  <2> QED BY <2>2, <2>3, <2>4
<1> QED BY <1>9, <1>10, <1>11, <1>12 DEF Inv

\* A step to the next stage of a statement.
LEMMA StageIs ==
  ASSUME Shape, NEW c \in Actors, job[c].at \in Stages, NEW at \in Stages
  PROVE  LET j == [job[c] EXCEPT !.at = at] IN
         IsJob(j) /\ j.at = at /\ j.user = job[c].user /\ j.alone = job[c].alone /\ j.rec = job[c].rec
BY DEF Shape, IsJob, Stages

LEMMA WriteRecordInv ==
  ASSUME Inv, NEW c \in Operator, WriteRecord(c)
  PROVE  Inv'
<1> DEFINE j == [job[c] EXCEPT !.at = "sync"]
           u == job[c].user
<1>0. c \in Actors /\ Operator \subseteq Actors /\ job[c].at = "write" /\ {"write", "sync"} \subseteq Stages
  BY DEF Actors, WriteRecord, At, Stages
<1>1. IsJob(j) /\ j.at = "sync" /\ j.user = u /\ j.alone = job[c].alone
  BY <1>0, StageIs DEF Inv
<1>2. /\ job' = [job EXCEPT ![c] = j] /\ UNCHANGED <<cache, auth, drawn>>
      /\ stored' = [stored EXCEPT ![u] = job[c].rec]
  BY DEF WriteRecord, Then, Go
<1> HIDE DEF j
<1>3. /\ DOMAIN job' = Actors /\ job'[c] = j
      /\ \A d \in Actors \ {c} : job'[d] = job[d]
      /\ \A d \in Actors : IsJob(job'[d])
  BY <1>0, <1>1, <1>2, JobsTyped DEF Inv
<1>4. Shape'
  BY <1>2, <1>3 DEF Inv, Shape
<1>5. RolesCurrent'
  <2>1. \A o \in Operator : At(o, "revoke") => At(o, "revoke")' /\ job'[o].user = job[o].user
    BY <1>0, <1>3 DEF At
  <2> QED BY <1>2, <2>1, RolesKept, UnchangedShrinks DEF Inv
<1>6. AloneApplies'
  <2> SUFFICES ASSUME NEW o \in Operator, job'[o].at = "apply", job'[o].alone
               PROVE  job'[o].rec = stored'[job'[o].user]
    BY DEF AloneApplies, At
  <2>1. o # c /\ job'[o] = job[o]
    BY <1>0, <1>1, <1>3
  <2>2. job[o].user # u
    BY <1>0, <2>1 DEF Inv, AloneIsAlone, Stages
  <2>3. job[o].rec = stored[job[o].user]
    BY <2>1 DEF Inv, AloneApplies, At
  <2> QED BY <1>0, <1>2, <2>1, <2>2, <2>3 DEF Inv, Shape, IsJob, Stages
<1>7. AloneIsAlone'
  BY <1>0, <1>1, <1>3 DEF Inv, AloneIsAlone
<1> QED BY <1>4, <1>5, <1>6, <1>7 DEF Inv

LEMMA DetachInv ==
  ASSUME Inv, NEW c \in Operator, Detach(c)
  PROVE  Inv'
<1> DEFINE j == [job[c] EXCEPT !.at = "late"]
<1>0. c \in Actors /\ Operator \subseteq Actors /\ job[c].at = "write" /\ {"write", "late"} \subseteq Stages
  BY DEF Actors, Detach, At, Stages
<1>1. IsJob(j) /\ j.at = "late" /\ j.user = job[c].user /\ j.alone = job[c].alone
  BY <1>0, StageIs DEF Inv
<1>2. job' = [job EXCEPT ![c] = j] /\ UNCHANGED <<stored, cache, auth, drawn>>
  BY DEF Detach, Then, Go
<1> HIDE DEF j
<1>3. /\ DOMAIN job' = Actors /\ job'[c] = j
      /\ \A d \in Actors \ {c} : job'[d] = job[d]
      /\ \A d \in Actors : IsJob(job'[d])
  BY <1>0, <1>1, <1>2, JobsTyped DEF Inv
<1>4. Shape'
  BY <1>2, <1>3 DEF Inv, Shape
<1>5. RolesCurrent'
  <2>1. \A o \in Operator : At(o, "revoke") => At(o, "revoke")' /\ job'[o].user = job[o].user
    BY <1>0, <1>3 DEF At
  <2> QED BY <1>2, <2>1, RolesKept, UnchangedShrinks DEF Inv
<1>6. AloneApplies' /\ AloneIsAlone'
  BY <1>0, <1>1, <1>2, AloneKept DEF Inv
<1> QED BY <1>4, <1>5, <1>6 DEF Inv

\* No statement that is alone is about to apply the record this one overwrites.
LEMMA LandRecordInv ==
  ASSUME Inv, NEW c \in Operator, LandRecord(c)
  PROVE  Inv'
<1> DEFINE u == job[c].user
<1>0. c \in Actors /\ Operator \subseteq Actors /\ job[c].at = "late" /\ "late" \in Stages
  BY DEF Actors, LandRecord, At, Stages
<1>2. /\ job' = [job EXCEPT ![c] = Idle] /\ UNCHANGED <<cache, auth, drawn>>
      /\ stored' = [stored EXCEPT ![u] = job[c].rec]
  BY DEF LandRecord, Done, Go
<1>3. /\ DOMAIN job' = Actors /\ job'[c] = Idle
      /\ \A d \in Actors \ {c} : job'[d] = job[d]
      /\ \A d \in Actors : IsJob(job'[d])
  BY <1>0, <1>2, IdleIsJob, JobsTyped DEF Inv
<1>4. Shape'
  BY <1>2, <1>3 DEF Inv, Shape
<1>5. RolesCurrent'
  <2>1. \A o \in Operator : At(o, "revoke") => At(o, "revoke")' /\ job'[o].user = job[o].user
    BY <1>0, <1>3 DEF At
  <2> QED BY <1>2, <2>1, RolesKept, UnchangedShrinks DEF Inv
<1>6. AloneApplies'
  <2> SUFFICES ASSUME NEW o \in Operator, job'[o].at = "apply", job'[o].alone
               PROVE  job'[o].rec = stored'[job'[o].user]
    BY DEF AloneApplies, At
  <2>1. o # c /\ job'[o] = job[o]
    BY <1>0, <1>3 DEF Idle
  <2>2. job[o].user # u
    BY <1>0, <2>1 DEF Inv, AloneIsAlone, Stages
  <2>3. job[o].rec = stored[job[o].user]
    BY <2>1 DEF Inv, AloneApplies, At
  <2> QED BY <1>0, <1>2, <2>1, <2>2, <2>3 DEF Inv, Shape, IsJob, Stages
<1>7. AloneIsAlone'
  BY <1>0, <1>3, IdleIsJob DEF Inv, AloneIsAlone
<1> QED BY <1>4, <1>5, <1>6, <1>7 DEF Inv

LEMMA SyncInv ==
  ASSUME Inv, NEW c \in Operator, sync_auth_manager(c)
  PROVE  Inv'
<1> DEFINE j == [job[c] EXCEPT !.at = "apply", !.rec = stored[job[c].user]]
<1>0. c \in Actors /\ Operator \subseteq Actors /\ job[c].at = "sync" /\ {"sync", "apply"} \subseteq Stages
  BY DEF Actors, sync_auth_manager, At, Stages
<1>1. IsJob(job[c])
  BY <1>0 DEF Inv, Shape
<1>2. /\ IsJob(j) /\ j.at = "apply" /\ j.user = job[c].user /\ j.alone = job[c].alone
      /\ j.rec = stored[job[c].user]
  BY <1>0, <1>1 DEF IsJob
<1>3. /\ job' = [job EXCEPT ![c] = j] /\ UNCHANGED <<stored, cache, auth, drawn>>
  BY DEF sync_auth_manager, Go
<1> HIDE DEF j
<1>4. /\ DOMAIN job' = Actors /\ job'[c] = j
      /\ \A d \in Actors \ {c} : job'[d] = job[d]
      /\ \A d \in Actors : IsJob(job'[d])
  BY <1>0, <1>2, <1>3, JobsTyped DEF Inv
<1>5. Shape'
  BY <1>3, <1>4 DEF Inv, Shape
<1>6. RolesCurrent'
  <2>1. \A o \in Operator : At(o, "revoke") => At(o, "revoke")' /\ job'[o].user = job[o].user
    BY <1>0, <1>4 DEF At
  <2> QED BY <1>3, <2>1, RolesKept, UnchangedShrinks DEF Inv
<1>7. AloneApplies' /\ AloneIsAlone'
  BY <1>0, <1>2, <1>3, AloneKept DEF Inv
<1> QED BY <1>5, <1>6, <1>7 DEF Inv

\* The cache takes a record: what it replaces is revoked next.
LEMMA ApplyStep ==
  ASSUME Inv, NEW c \in Operator, job[c].at = "apply", NEW j, IsJob(j), NEW rec,
         job' = [job EXCEPT ![c] = j], UNCHANGED <<stored, auth, drawn>>,
         cache' = [cache EXCEPT ![job[c].user] = rec],
         \/ rec = cache[job[c].user] /\ j.at \notin Stages
         \/ j.at = "revoke" /\ j.user = job[c].user /\ j.alone = job[c].alone
  PROVE  Inv'
<1> DEFINE u == job[c].user
<1>0. c \in Actors /\ Operator \subseteq Actors /\ {"apply", "revoke"} \subseteq Stages
  BY DEF Actors, Stages
<1>1. /\ DOMAIN job' = Actors /\ job'[c] = j
      /\ \A d \in Actors \ {c} : job'[d] = job[d]
      /\ \A d \in Actors : IsJob(job'[d])
  BY <1>0, JobsTyped DEF Inv
<1>2. Shape'
  BY <1>1 DEF Inv, Shape
<1>3. \A v : v # u => cache'[v] = cache[v]
  BY DEF Inv, Shape
<1>4. \A o \in Operator : At(o, "revoke") => At(o, "revoke")' /\ job'[o].user = job[o].user
  BY <1>0, <1>1 DEF At
<1>5. RolesCurrent'
  <2> SUFFICES ASSUME NEW s \in DOMAIN auth
               PROVE  \/ auth[s].missed
                      \/ cache'[auth[s].user] # NoUser /\ auth[s].roles = cache'[auth[s].user].roles
                      \/ \E o \in Operator : At(o, "revoke")' /\ job'[o].user = auth[s].user
    BY DEF RolesCurrent, At
  <2>1. \/ auth[s].missed
        \/ cache[auth[s].user] # NoUser /\ auth[s].roles = cache[auth[s].user].roles
        \/ \E o \in Operator : At(o, "revoke") /\ job[o].user = auth[s].user
    BY DEF Inv, RolesCurrent
  <2>2. CASE auth[s].user # u
    BY <1>3, <1>4, <2>1, <2>2
  <2>3. CASE auth[s].user = u /\ rec = cache[u]
    <3>1. cache'[u] = cache[u]
      BY <2>3 DEF Inv, Shape
    <3> QED BY <1>4, <2>1, <2>3, <3>1
  <2>4. CASE auth[s].user = u /\ j.at = "revoke" /\ j.user = u
    BY <1>1, <2>4 DEF At
  <2> QED BY <2>2, <2>3, <2>4
<1>6. AloneApplies' /\ AloneIsAlone'
  BY <1>0, AloneKept DEF Inv
<1> QED BY <1>2, <1>5, <1>6 DEF Inv

LEMMA UpsertInv ==
  ASSUME Inv, NEW c \in Operator, upsert_persisted_user(c)
  PROVE  Inv'
<1> DEFINE u == job[c].user
           j == [job[c] EXCEPT !.at = "revoke"]
<1>0. c \in Actors /\ job[c].at = "apply" /\ {"apply", "revoke"} \subseteq Stages
  BY DEF Actors, Stages, upsert_persisted_user, At
<1>1. UNCHANGED <<stored, auth, drawn>> /\ cache' = [cache EXCEPT ![u] = job[c].rec]
  BY DEF upsert_persisted_user
<1>2. CASE cache[u] = job[c].rec
  <2>1. job' = [job EXCEPT ![c] = Idle]
    BY <1>2 DEF upsert_persisted_user, Done, Go
  <2> QED BY <1>0, <1>1, <1>2, <2>1, IdleIsJob, ApplyStep
<1>3. CASE cache[u] # job[c].rec
  <2>1. job' = [job EXCEPT ![c] = j]
    BY <1>3 DEF upsert_persisted_user, Then, Go
  <2>2. IsJob(j) /\ j.at = "revoke" /\ j.user = u /\ j.alone = job[c].alone
    BY <1>0, StageIs DEF Inv
  <2> HIDE DEF j
  <2> QED BY <1>0, <1>1, <2>1, <2>2, ApplyStep
<1> QED BY <1>2, <1>3

LEMMA DeleteInv ==
  ASSUME Inv, NEW c \in Operator, delete_user(c)
  PROVE  Inv'
<1> DEFINE u == job[c].user
           j == [job[c] EXCEPT !.at = "revoke"]
           k == [at |-> "orphans"]
<1>0. c \in Actors /\ job[c].at = "apply" /\ {"apply", "revoke"} \subseteq Stages
  BY DEF Actors, Stages, delete_user, At
<1>1. UNCHANGED <<stored, auth, drawn>> /\ cache' = [cache EXCEPT ![u] = NoUser]
  BY DEF delete_user
<1>2. CASE cache[u] = NoUser
  <2>1. job' = [job EXCEPT ![c] = k] /\ IsJob(k) /\ k.at \notin Stages
    BY <1>2 DEF delete_user, Go, IsJob, Stages
  <2> HIDE DEF k
  <2> QED BY <1>0, <1>1, <1>2, <2>1, ApplyStep
<1>3. CASE cache[u] # NoUser
  <2>1. job' = [job EXCEPT ![c] = j]
    BY <1>3 DEF delete_user, Then, Go
  <2>2. IsJob(j) /\ j.at = "revoke" /\ j.user = u /\ j.alone = job[c].alone
    BY <1>0, StageIs DEF Inv
  <2> HIDE DEF j
  <2> QED BY <1>0, <1>1, <2>1, <2>2, ApplyStep
<1> QED BY <1>2, <1>3

\* A statement gives up its stage: the sessions of its user are gone or missed.
LEMMA LeaveStep ==
  ASSUME Inv, NEW c \in Actors, NEW j, IsJob(j), j.at \notin Stages,
         job' = [job EXCEPT ![c] = j], UNCHANGED <<stored, cache, drawn>>, Shrinks,
         At(c, "revoke") => \A s \in DOMAIN auth' : auth'[s].user = job[c].user => auth'[s].missed
  PROVE  Inv'
<1>1. /\ DOMAIN job' = Actors /\ job'[c] = j
      /\ \A d \in Actors \ {c} : job'[d] = job[d]
      /\ \A d \in Actors : IsJob(job'[d])
  BY JobsTyped DEF Inv
<1>2. Shape'
  BY <1>1 DEF Inv, Shape, Shrinks
<1>3. RolesCurrent'
  <2> SUFFICES ASSUME NEW s \in DOMAIN auth'
               PROVE  \/ auth'[s].missed
                      \/ cache'[auth'[s].user] # NoUser /\ auth'[s].roles = cache'[auth'[s].user].roles
                      \/ \E o \in Operator : At(o, "revoke")' /\ job'[o].user = auth'[s].user
    BY DEF RolesCurrent, At
  <2>1. s \in DOMAIN auth /\ auth'[s].user = auth[s].user /\ auth'[s].roles = auth[s].roles
        /\ (auth[s].missed => auth'[s].missed)
    BY DEF Shrinks
  <2>2. \/ auth[s].missed
        \/ cache[auth[s].user] # NoUser /\ auth[s].roles = cache[auth[s].user].roles
        \/ \E o \in Operator : At(o, "revoke") /\ job[o].user = auth[s].user
    BY <2>1 DEF Inv, RolesCurrent
  <2>3. ASSUME NEW o \in Operator, At(o, "revoke"), job[o].user = auth[s].user
        PROVE  auth'[s].missed \/ (At(o, "revoke")' /\ job'[o].user = auth'[s].user)
    <3>1. CASE o = c
      BY <2>1, <2>3, <3>1
    <3>2. CASE o # c
      BY <1>1, <2>1, <2>3, <3>2 DEF At, Actors
    <3> QED BY <3>1, <3>2
  <2> QED BY <2>1, <2>2, <2>3
<1>4. AloneApplies' /\ AloneIsAlone'
  BY AloneKept DEF Inv
<1> QED BY <1>2, <1>3, <1>4 DEF Inv

LEMMA InvalidateInv ==
  ASSUME Inv, NEW c \in Operator, invalidate_user_sessions(c)
  PROVE  Inv'
<1> DEFINE S == {s \in DOMAIN auth : auth[s].user # job[c].user}
           j == [at |-> "orphans"]
<1>1. IsJob(j) /\ j.at \notin Stages /\ c \in Actors
  BY DEF IsJob, Stages, Actors
<1>2. /\ job' = [job EXCEPT ![c] = j] /\ UNCHANGED <<stored, cache, drawn>>
      /\ auth' = Restrict(auth, S)
  BY DEF invalidate_user_sessions, Go, RestrictValues
<1>3. \A s \in DOMAIN auth' : auth'[s].user # job[c].user
  BY <1>2 DEF Restrict
<1>4. S \subseteq DOMAIN auth
  OBVIOUS
<1> HIDE DEF S, j
<1>5. Shrinks
  BY <1>2, <1>4, SubsetShrinks DEF Inv
<1> QED BY <1>1, <1>2, <1>3, <1>5, LeaveStep

LEMMA CancelInv ==
  ASSUME Inv, NEW c \in Client \cup Operator, Cancel(c)
  PROVE  Inv'
<1>1. job' = [job EXCEPT ![c] = Idle] /\ UNCHANGED <<stored, cache, drawn>> /\ c \in Actors
  BY DEF Cancel, Done, Go, Actors
<1>2. auth' = [s \in DOMAIN auth |->
                 IF At(c, "revoke") /\ auth[s].user = job[c].user
                 THEN [auth[s] EXCEPT !.missed = TRUE] ELSE auth[s]]
  BY DEF Cancel
<1>3. \A s \in DOMAIN auth : IsBearer(auth[s])
  BY DEF Inv, Shape
<1>4. Shrinks
  BY <1>2, <1>3 DEF Shrinks, IsBearer
<1>5. At(c, "revoke") => \A s \in DOMAIN auth' : auth'[s].user = job[c].user => auth'[s].missed
  BY <1>2, <1>3 DEF IsBearer
<1> QED BY <1>1, <1>4, <1>5, IdleIsJob, LeaveStep

LEMMA StatementStepInv ==
  ASSUME Inv, NEW o \in Operator, StatementStep(o)
  PROVE  Inv'
<1>0. o \in Actors
  BY DEF Actors
<1>1. CASE \E s \in drawn : \E r \in Request(s, {"signout"}) : Receive(o, r)
  BY <1>0, <1>1, ReceiveInv
<1>2. CASE \E u \in Account, st \in Statement : ReadRecord(o, u, st)
  BY <1>2, ReadRecordInv
<1>3. CASE WriteRecord(o)
  BY <1>3, WriteRecordInv
<1>4. CASE sync_auth_manager(o)
  BY <1>4, SyncInv
<1>9. CASE Detach(o)
  BY <1>9, DetachInv
<1>10. CASE LandRecord(o)
  BY <1>10, LandRecordInv
<1>5. CASE upsert_persisted_user(o)
  BY <1>5, UpsertInv
<1>6. CASE delete_user(o)
  BY <1>6, DeleteInv
<1>7. CASE invalidate_user_sessions(o)
  BY <1>7, InvalidateInv
<1>8. CASE remove_orphan_sessions(o)
  BY <1>0, <1>8, OrphansInv
<1> QED BY <1>1, <1>2, <1>3, <1>4, <1>5, <1>6, <1>7, <1>8, <1>9, <1>10 DEF StatementStep

-----------------------------------------------------------------------------
LEMMA TickInv ==
  ASSUME Inv, Tick
  PROVE  Inv'
<1>1. UNCHANGED <<stored, cache, drawn, job>> /\ Shrinks
  BY AgedShrinks DEF Tick, Inv
<1>2. Shape'
  BY <1>1 DEF Inv, Shape, Shrinks
<1>3. RolesCurrent'
  BY <1>1, RolesKept DEF Inv, At
<1>4. AloneApplies' /\ AloneIsAlone'
  BY <1>1 DEF Inv, AloneApplies, AloneIsAlone, At
<1> QED BY <1>2, <1>3, <1>4 DEF Inv

LEMMA RestartInv ==
  ASSUME Inv, Restart
  PROVE  Inv'
<1>1. /\ cache' = stored /\ auth' = <<>> /\ stored' = stored /\ drawn' = drawn
      /\ job' = [c \in Actors |-> Idle]
  BY DEF Restart, hydrate_persisted_users, Inv, Shape
<1>2. Shape'
  BY <1>1, IdleIsJob DEF Inv, Shape
<1>3. RolesCurrent'
  BY <1>1 DEF RolesCurrent
<1>4. AloneApplies' /\ AloneIsAlone'
  BY <1>1, IdleIsJob DEF AloneApplies, AloneIsAlone, At, Stages, Actors
<1> QED BY <1>2, <1>3, <1>4 DEF Inv

\* The inductive invariant: RolesCurrent with what the statements under way
\* know of the stored records and of each other (sync_auth_manager,
\* graph/service.rs).
THEOREM SessionsInvariant == Spec => []Inv
<1>1. Init => Inv
  BY InitInv
<1>2. Inv /\ [Next]_vars => Inv'
  <2> SUFFICES ASSUME Inv, [Next]_vars PROVE Inv'
    OBVIOUS
  <2>1. ASSUME NEW c \in Client, LoginStep(c) \/ RequestStep(c) PROVE Inv'
    BY <2>1, LoginStepInv, RequestStepInv
  <2>2. ASSUME NEW o \in Operator, StatementStep(o) PROVE Inv'
    BY <2>2, StatementStepInv
  <2>3. ASSUME NEW c \in Client \cup Operator, SessionStep(c) \/ Cancel(c) PROVE Inv'
    BY <2>3, SessionStepInv, CancelInv DEF Actors
  <2>4. CASE Cleanup
    BY <2>4, CleanupInv
  <2>5. CASE Tick
    BY <2>5, TickInv
  <2>6. CASE Restart
    BY <2>6, RestartInv
  <2>7. CASE UNCHANGED vars
    <3>1. UNCHANGED <<stored, cache, auth, drawn, job>>
      BY <2>7 DEF vars
    <3> QED BY <3>1 DEF Inv, Shape, RolesCurrent, AloneApplies, AloneIsAlone, At
  <2> QED BY <2>1, <2>2, <2>3, <2>4, <2>5, <2>6, <2>7 DEF Next
<1> QED BY <1>1, <1>2, PTL DEF Spec

\* However logins, requests, user statements, cancellations and restarts
\* interleave, a session has the roles of its user's present record, or its
\* revocation is pending, or no revocation could find it (upsert_persisted_user
\* and invalidate_user_sessions, graph/auth.rs).
THEOREM RolesAlwaysCurrent == Spec => []RolesCurrent
<1>1. Inv => RolesCurrent
  BY DEF Inv
<1> QED BY <1>1, SessionsInvariant, PTL

\* A statement that no other on its user has overlapped leaves the cache equal
\* to the stored record (sync_auth_manager, graph/service.rs).
THEOREM AloneAlwaysConverges == Spec => AloneConverges
<1> DEFINE Converges ==
      \A o \in Operator :
        ((upsert_persisted_user(o) \/ delete_user(o)) /\ job[o].alone) =>
           cache'[job[o].user] = stored[job[o].user]
<1>1. Inv => Converges
  <2> SUFFICES ASSUME Inv, NEW o \in Operator, upsert_persisted_user(o) \/ delete_user(o), job[o].alone
               PROVE  cache'[job[o].user] = stored[job[o].user]
    OBVIOUS
  <2>1. At(o, "apply") /\ cache' = [cache EXCEPT ![job[o].user] = job[o].rec]
    BY DEF upsert_persisted_user, delete_user
  <2>2. job[o].rec = stored[job[o].user]
    BY <2>1 DEF Inv, AloneApplies
  <2>3. job[o].user \in DOMAIN cache
    BY <2>1 DEF Inv, Shape, IsJob, Actors, At, Stages
  <2> QED BY <2>1, <2>2, <2>3
<1> HIDE DEF Converges
<1>2. []Inv => [][Converges]_vars
  BY <1>1, PTL
<1> QED BY <1>2, SessionsInvariant DEF AloneConverges, Converges
=============================================================================
