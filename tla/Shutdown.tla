------------------------------ MODULE Shutdown ------------------------------
(***************************************************************************)
(* Admission, drain and teardown (graph/shutdown.rs, the launcher's        *)
(* shutdown sequence in main.rs, StorageServer::stop).                     *)
(*                                                                         *)
(* One atomic word holds a stop bit above the number of admitted requests. *)
(* Requests take a slot before their first await and give it back when     *)
(* their future ends, however it ends.  A write runs on a blocking thread, *)
(* which outlives a request that is dropped in the middle of it.           *)
(***************************************************************************)
EXTENDS Naturals, FiniteSets

CONSTANTS
  Request,
  STOPPING   \* the stop bit; the code's is 2^63

ASSUME StoppingAssumption == IsFiniteSet(Request) /\ STOPPING \in Nat \ {0}

ACTIVE_MASK == STOPPING - 1

VARIABLES
  word,       \* ShutdownState::state
  req,        \* where each request is
  orphan,     \* requests that are gone while their write still runs
  committed,  \* requests whose write is in the store
  durable,    \* requests whose write a crash cannot undo
  launcher,   \* where main is in its shutdown sequence
  late,       \* the drain's deadline has passed
  failures    \* what main reports before it exits

admission == <<word, req, orphan, committed, durable, launcher, late, failures>>

Holding == {"admitted", "writing"}   \* the states that own an AdmissionGuard

ShutdownTypeOK ==
  /\ word \in 0..(2 * STOPPING - 1)
  /\ req \in [Request -> Holding \cup {"new", "refused", "replied", "dropped", "cut"}]
  /\ orphan \subseteq Request
  /\ durable \subseteq committed /\ committed \subseteq Request
  /\ launcher \in {"serving", "draining", "teardown", "checkpoint", "closing", "exited"}
  /\ late \in BOOLEAN
  /\ failures \subseteq {"server", "drain", "service", "checkpoint"}

ShutdownInit ==
  /\ word = 0
  /\ req = [r \in Request |-> "new"]
  /\ orphan = {}
  /\ committed = {}
  /\ durable = {}
  /\ launcher = "serving"
  /\ late = FALSE
  /\ failures = {}

-----------------------------------------------------------------------------
(* Requests: GraphService::execute_with_options and discover.              *)

active_queries == word % STOPPING

\* Mutant: readiness is read before the slot is taken, not with it.
AcceptsStopping(w) == w % STOPPING < ACTIVE_MASK

\* The condition of try_admit's fetch_update.
Accepts(w) == w < STOPPING /\ w < ACTIVE_MASK

try_admit(r) ==
  /\ req[r] = "new" /\ launcher # "exited"
  /\ \/ /\ Accepts(word)
        /\ word' = word + 1
        /\ req' = [req EXCEPT ![r] = "admitted"]
     \/ /\ ~Accepts(word)
        /\ req' = [req EXCEPT ![r] = "refused"]
        /\ UNCHANGED word
  /\ UNCHANGED <<orphan, committed, durable, launcher, late, failures>>

BeginWrite(r) ==
  /\ req[r] = "admitted" /\ r \notin committed
  /\ req' = [req EXCEPT ![r] = "writing"]
  /\ UNCHANGED <<word, orphan, committed, durable, launcher, late, failures>>

\* The blocking thread commits.  Relaxed durability leaves the commit to a
\* later durable one, which takes everything before it along.
CommitWrite(r) ==
  /\ req[r] = "writing" \/ r \in orphan
  /\ committed' = committed \cup {r}
  /\ durable' \in {durable, committed'}
  /\ req' = IF r \in orphan THEN req ELSE [req EXCEPT ![r] = "admitted"]
  /\ orphan' = orphan \ {r}
  /\ UNCHANGED <<word, launcher, late, failures>>

\* The reply is returned and the guard dropped.
Reply(r) ==
  /\ req[r] = "admitted"
  /\ req' = [req EXCEPT ![r] = "replied"]
  /\ word' = word - 1
  /\ UNCHANGED <<orphan, committed, durable, launcher, late, failures>>

\* The client goes away: the future is dropped, the blocking write is not.
Disconnect(r) ==
  /\ req[r] \in Holding
  /\ req' = [req EXCEPT ![r] = "dropped"]
  /\ orphan' = IF req[r] = "writing" THEN orphan \cup {r} ELSE orphan
  /\ word' = word - 1
  /\ UNCHANGED <<committed, durable, launcher, late, failures>>

-----------------------------------------------------------------------------
(* The launcher.                                                           *)

\* The bit is set once: fetch_or.
stop_accepting(w) == IF w < STOPPING THEN w + STOPPING ELSE w

\* A signal, or a server task that ends by itself, starts the sequence.
StopAdmission ==
  /\ launcher = "serving"
  /\ failures' \in {failures, failures \cup {"server"}}
  /\ word' = stop_accepting(word)
  /\ launcher' = "draining"
  /\ UNCHANGED <<req, orphan, committed, durable, late>>

Deadline ==
  /\ launcher = "draining" /\ ~late
  /\ late' = TRUE
  /\ UNCHANGED <<word, req, orphan, committed, durable, launcher, failures>>

\* Mutant: the deadline is only looked at when nothing is left to wait for.
DrainForever ==
  /\ launcher = "draining" /\ active_queries = 0
  /\ launcher' = "teardown"
  /\ UNCHANGED <<word, req, orphan, committed, durable, late, failures>>

\* One poll of drain that ends it; the others change nothing.
drain ==
  /\ launcher = "draining"
  /\ \/ active_queries = 0 /\ UNCHANGED failures
     \/ active_queries # 0 /\ late /\ failures' = failures \cup {"drain"}
  /\ launcher' = "teardown"
  /\ UNCHANGED <<word, req, orphan, committed, durable, late>>

\* Both server tasks are told to end and awaited; requests run in tasks of
\* their own and go on.
StopServers ==
  /\ launcher = "teardown"
  /\ failures' \in {failures, failures \cup {"service"}}
  /\ launcher' = "checkpoint"
  /\ UNCHANGED <<word, req, orphan, committed, durable, late>>

\* StorageServer::stop: an empty durable commit, or its error.
StopStorage ==
  /\ launcher = "checkpoint"
  /\ \/ durable' = committed /\ UNCHANGED failures
     \/ failures' = failures \cup {"checkpoint"} /\ UNCHANGED durable
  /\ launcher' = "closing"
  /\ UNCHANGED <<word, req, orphan, committed, late>>

\* main returns and the runtime drops the tasks that are left.
Exit ==
  /\ launcher = "closing"
  /\ launcher' = "exited"
  /\ req' = [r \in Request |-> IF req[r] \in Holding THEN "cut" ELSE req[r]]
  /\ orphan' = orphan \cup {r \in Request : req[r] = "writing"}
  /\ word' = word - Cardinality({r \in Request : req[r] \in Holding})
  /\ UNCHANGED <<committed, durable, late, failures>>

Launcher == drain \/ StopServers \/ StopStorage \/ Exit

ShutdownNext ==
  \/ \E r \in Request :
       try_admit(r) \/ BeginWrite(r) \/ CommitWrite(r) \/ Reply(r) \/ Disconnect(r)
  \/ StopAdmission
  \/ Deadline
  \/ Launcher

\* Once a signal has come, main runs on and time passes.  Nothing is assumed
\* of the requests: a query may run for ever.
Fairness == WF_admission(Launcher) /\ WF_admission(Deadline)

ShutdownSpec == ShutdownInit /\ [][ShutdownNext]_admission /\ Fairness

-----------------------------------------------------------------------------

\* The word counts exactly the requests that own a guard, at the limit of the
\* mask too, and the stop bit is set exactly once the sequence has begun.
CountExact ==
  /\ active_queries = Cardinality({r \in Request : req[r] \in Holding})
  /\ word >= STOPPING <=> launcher # "serving"

\* A drain that reported success stays true: no request is, or ever gets,
\* inside afterwards, whatever it was doing when the signal came.
DrainedMeansQuiet ==
  launcher \notin {"serving", "draining"} /\ "drain" \notin failures =>
    \A r \in Request : req[r] \notin Holding \cup {"cut"}

\* An exit that reports no failure has cut no request, and every write that
\* was acknowledged survives it, relaxed durability included.
CleanExitKeepsWrites ==
  launcher = "exited" /\ failures = {} =>
    \A r \in Request :
      /\ req[r] # "cut"
      /\ req[r] = "replied" /\ r \in committed => r \in durable

\* Why: the slots that are held, with the stop bit, are the word; no slot is
\* taken once it is set; a write outlives only a request that gets no reply; and
\* requests are cut at the exit only.
Held == {r \in Request : req[r] \in Holding}

ShutdownInv ==
  /\ word = (IF launcher = "serving" THEN 0 ELSE STOPPING) + Cardinality(Held)
  /\ Cardinality(Held) < STOPPING
  /\ \A r \in orphan : req[r] \in {"dropped", "cut"}
  /\ launcher # "exited" => \A r \in Request : req[r] # "cut"
  /\ launcher \in {"closing", "exited"} /\ failures \cap {"drain", "checkpoint"} = {} =>
       \A r \in Request : req[r] = "replied" /\ r \in committed => r \in durable

\* Admitted requests are counted exactly, a drain that reported success stays
\* true, and an exit without failure has cut no request and lost no write that
\* was acknowledged.
ShutdownSafe ==
  ShutdownTypeOK /\ ShutdownInv /\ CountExact /\ DrainedMeansQuiet /\ CleanExitKeepsWrites

\* A started shutdown ends, whatever the requests do.
ShutdownEnds == launcher = "draining" ~> launcher = "exited"
=============================================================================
