--------------------------- MODULE ShutdownProofs ---------------------------
(***************************************************************************)
(* Proofs about Shutdown for any finite set of requests and any stop bit:  *)
(* the admission word counts exactly, a drain that succeeded stays true,   *)
(* and a clean exit loses no acknowledged write.                           *)
(***************************************************************************)
EXTENDS Shutdown, FiniteSetTheorems, TLAPS

LEMMA Masked ==
  ASSUME NEW n \in Nat, n < STOPPING
  PROVE  n % STOPPING = n /\ (STOPPING + n) % STOPPING = n
<1> USE StoppingAssumption
<1>1. n % STOPPING = n
  BY Z3
<1>2. (STOPPING + n) % STOPPING = n
  BY Z3
<1> QED BY <1>1, <1>2

LEMMA HeldFinite == IsFiniteSet(Held) /\ Cardinality(Held) \in Nat
<1>1. Held \in SUBSET Request
  BY DEF Held
<1>2. IsFiniteSet(Held)
  BY <1>1, StoppingAssumption, FS_Subset, Zenon
<1> QED BY <1>2, FS_CardinalityType

\* A request that takes its slot, and one that gives it back.
LEMMA HeldAdd ==
  ASSUME NEW r \in Request, ShutdownTypeOK, NEW s,
         req' = [req EXCEPT ![r] = s], req[r] \notin Holding, s \in Holding
  PROVE  Cardinality(Held') = Cardinality(Held) + 1
<1>1. Held' = Held \cup {r} /\ r \notin Held
  BY DEF Held, ShutdownTypeOK
<1> QED BY <1>1, HeldFinite, FS_AddElement

LEMMA HeldRemove ==
  ASSUME NEW r \in Request, ShutdownTypeOK, NEW s,
         req' = [req EXCEPT ![r] = s], req[r] \in Holding, s \notin Holding
  PROVE  Cardinality(Held') = Cardinality(Held) - 1 /\ Cardinality(Held') \in Nat
<1>1. Held' = Held \ {r} /\ r \in Held
  BY DEF Held, ShutdownTypeOK
<1> QED BY <1>1, HeldFinite, FS_RemoveElement, FS_CardinalityType

LEMMA HeldSame ==
  ASSUME NEW r \in Request, ShutdownTypeOK, NEW s,
         req' = [req EXCEPT ![r] = s], req[r] \in Holding <=> s \in Holding
  PROVE  Held' = Held
BY DEF Held, ShutdownTypeOK

-----------------------------------------------------------------------------
Inv == ShutdownTypeOK /\ ShutdownInv /\ DrainedMeansQuiet

LEMMA InitInv == ASSUME ShutdownInit PROVE Inv
<1>1. Held = {}
  BY DEF ShutdownInit, Held, Holding
<1>2. Cardinality(Held) = 0
  BY <1>1, FS_EmptySet
<1>3. ShutdownTypeOK
  <2>1. 0 \in 0..(2 * STOPPING - 1)
    BY StoppingAssumption
  <2>2. req \in [Request -> {"new"}]
    BY DEF ShutdownInit
  <2> QED BY <2>1, <2>2 DEF ShutdownInit, ShutdownTypeOK
<1> QED BY <1>2, <1>3, StoppingAssumption DEF ShutdownInit, Inv, ShutdownInv, DrainedMeansQuiet

LEMMA AdmitInv == ASSUME Inv, NEW r \in Request, try_admit(r) PROVE Inv'
<1> USE DEF Inv
<1>1. Cardinality(Held) \in Nat
  BY HeldFinite
<1>2. CASE /\ Accepts(word) /\ word' = word + 1 /\ req' = [req EXCEPT ![r] = "admitted"]
  <2>1. launcher = "serving" /\ word = Cardinality(Held) /\ word + 1 < STOPPING
    BY <1>1, <1>2, StoppingAssumption DEF Accepts, ACTIVE_MASK, ShutdownInv
  <2>2. Cardinality(Held') = Cardinality(Held) + 1
    BY <1>2, HeldAdd DEF try_admit, Holding
  <2>3. ShutdownTypeOK'
    BY <1>1, <1>2, <2>1, StoppingAssumption DEF ShutdownTypeOK, try_admit, Holding
  <2>4. DrainedMeansQuiet'
    BY <2>1 DEF DrainedMeansQuiet, try_admit
  <2>5. ShutdownInv'
    BY <1>1, <1>2, <2>1, <2>2 DEF ShutdownInv, try_admit, ShutdownTypeOK
  <2> QED BY <2>3, <2>4, <2>5
<1>3. CASE req' = [req EXCEPT ![r] = "refused"] /\ UNCHANGED word
  <2>1. Held' = Held
    BY <1>3, HeldSame DEF try_admit, Holding
  <2>2. ShutdownTypeOK'
    BY <1>3 DEF ShutdownTypeOK, try_admit, Holding
  <2>3. DrainedMeansQuiet'
    BY <1>3 DEF DrainedMeansQuiet, try_admit, ShutdownTypeOK, Holding
  <2>4. ShutdownInv'
    BY <1>3, <2>1 DEF ShutdownInv, try_admit, ShutdownTypeOK
  <2> QED BY <2>2, <2>3, <2>4
<1> QED BY <1>2, <1>3 DEF try_admit

LEMMA WriteInv == ASSUME Inv, NEW r \in Request, BeginWrite(r) PROVE Inv'
<1> USE DEF Inv
<1>1. Held' = Held
  BY HeldSame DEF BeginWrite, Holding
<1>2. ShutdownTypeOK'
  BY DEF ShutdownTypeOK, BeginWrite, Holding
<1>3. DrainedMeansQuiet'
  BY DEF DrainedMeansQuiet, BeginWrite, ShutdownTypeOK, Holding
<1>4. ShutdownInv'
  BY <1>1 DEF ShutdownInv, BeginWrite, ShutdownTypeOK
<1> QED BY <1>2, <1>3, <1>4

LEMMA CommitInv == ASSUME Inv, NEW r \in Request, CommitWrite(r) PROVE Inv'
<1> USE DEF Inv
<1>1. CASE r \in orphan
  <2>1. req' = req /\ req[r] \in {"dropped", "cut"} /\ Held' = Held
    BY <1>1 DEF CommitWrite, ShutdownInv, Held
  <2>2. ShutdownTypeOK'
    BY <2>1 DEF ShutdownTypeOK, CommitWrite
  <2>3. DrainedMeansQuiet'
    BY <2>1 DEF DrainedMeansQuiet, CommitWrite
  <2>4. ShutdownInv'
    BY <2>1 DEF ShutdownInv, CommitWrite, ShutdownTypeOK
  <2> QED BY <2>2, <2>3, <2>4
<1>2. CASE r \notin orphan
  <2>1. req[r] = "writing" /\ req' = [req EXCEPT ![r] = "admitted"]
    BY <1>2 DEF CommitWrite
  <2>2. Held' = Held
    BY <2>1, HeldSame DEF Holding
  <2>3. ShutdownTypeOK'
    BY <2>1 DEF ShutdownTypeOK, CommitWrite, Holding
  <2>4. DrainedMeansQuiet'
    BY <2>1 DEF DrainedMeansQuiet, CommitWrite, ShutdownTypeOK, Holding
  <2>5. ShutdownInv'
    BY <2>1, <2>2 DEF ShutdownInv, CommitWrite, ShutdownTypeOK
  <2> QED BY <2>3, <2>4, <2>5
<1> QED BY <1>1, <1>2

LEMMA LeaveInv == ASSUME Inv, NEW r \in Request, Reply(r) \/ Disconnect(r) PROVE Inv'
<1> USE DEF Inv
<1>1. PICK s \in {"replied", "dropped"} :
        /\ req' = [req EXCEPT ![r] = s] /\ req[r] \in Holding /\ word' = word - 1
        /\ s = "replied" => orphan' = orphan
        /\ orphan' \subseteq orphan \cup {r}
        /\ UNCHANGED <<committed, durable, launcher, late, failures>>
  BY DEF Reply, Disconnect, Holding
<1>2. Cardinality(Held') = Cardinality(Held) - 1 /\ Cardinality(Held') \in Nat
  BY <1>1, HeldRemove DEF Holding
<1>3. Cardinality(Held) \in Nat
  BY HeldFinite
<1>4. ShutdownTypeOK'
  BY <1>1, <1>2, <1>3, StoppingAssumption DEF ShutdownTypeOK, ShutdownInv, Holding
<1>5. DrainedMeansQuiet'
  BY <1>1 DEF DrainedMeansQuiet, ShutdownTypeOK, Holding
<1>6. launcher \in {"closing", "exited"} => "drain" \in failures
  BY <1>1 DEF DrainedMeansQuiet
<1>7. r \notin orphan
  BY <1>1 DEF ShutdownInv, Holding
<1>8. ShutdownInv'
  BY <1>1, <1>2, <1>3, <1>6, <1>7, StoppingAssumption DEF ShutdownInv, ShutdownTypeOK
<1> QED BY <1>4, <1>5, <1>8

LEMMA StopInv == ASSUME Inv, StopAdmission \/ Deadline PROVE Inv'
<1> USE DEF Inv
<1>1. Held' = Held
  BY DEF StopAdmission, Deadline, Held
<1>2. Cardinality(Held) \in Nat
  BY HeldFinite
<1>3. CASE StopAdmission
  <2>1. word' = STOPPING + Cardinality(Held)
    BY <1>2, <1>3, StoppingAssumption DEF StopAdmission, stop_accepting, ShutdownInv
  <2>2. ShutdownTypeOK'
    BY <1>2, <1>3, <2>1, StoppingAssumption DEF ShutdownTypeOK, StopAdmission, ShutdownInv
  <2>3. ShutdownInv' /\ DrainedMeansQuiet'
    BY <1>1, <1>3, <2>1 DEF ShutdownInv, DrainedMeansQuiet, StopAdmission
  <2> QED BY <2>2, <2>3
<1>4. CASE Deadline
  BY <1>1, <1>4 DEF ShutdownTypeOK, ShutdownInv, DrainedMeansQuiet, Deadline
<1> QED BY <1>3, <1>4

\* The number of admitted requests that the word shows.
LEMMA Active ==
  ASSUME Inv
  PROVE  active_queries = Cardinality(Held) /\ (word >= STOPPING <=> launcher # "serving")
<1>1. Cardinality(Held) \in Nat /\ Cardinality(Held) < STOPPING
  BY HeldFinite DEF Inv, ShutdownInv
<1>2. CASE launcher = "serving"
  <2>1. word = Cardinality(Held)
    BY <1>1, <1>2 DEF Inv, ShutdownInv
  <2> QED BY <1>1, <1>2, <2>1, Masked, StoppingAssumption DEF active_queries
<1>3. CASE launcher # "serving"
  <2>1. word = STOPPING + Cardinality(Held)
    BY <1>3 DEF Inv, ShutdownInv
  <2> QED BY <1>1, <1>3, <2>1, Masked, StoppingAssumption DEF active_queries
<1> QED BY <1>2, <1>3

LEMMA DrainInv == ASSUME Inv, drain PROVE Inv'
<1> USE DEF Inv
<1>1. Held' = Held
  BY DEF drain, Held
<1>2. ShutdownTypeOK'
  BY DEF ShutdownTypeOK, drain
<1>3. ShutdownInv'
  BY <1>1 DEF ShutdownInv, drain
<1>4. ASSUME active_queries = 0 PROVE Held = {}
  BY <1>4, Active, HeldFinite, FS_EmptySet
<1>5. DrainedMeansQuiet'
  BY <1>4 DEF DrainedMeansQuiet, drain, Held, ShutdownInv
<1> QED BY <1>2, <1>3, <1>5

LEMMA TeardownInv == ASSUME Inv, StopServers \/ StopStorage PROVE Inv'
<1> USE DEF Inv
<1>1. Held' = Held
  BY DEF StopServers, StopStorage, Held
<1>2. ShutdownTypeOK' /\ DrainedMeansQuiet'
  BY DEF ShutdownTypeOK, DrainedMeansQuiet, StopServers, StopStorage
<1>3. ShutdownInv'
  BY <1>1 DEF ShutdownInv, StopServers, StopStorage
<1> QED BY <1>2, <1>3

LEMMA ExitInv == ASSUME Inv, Exit PROVE Inv'
<1> USE DEF Inv
<1>1. Held' = {} /\ Held = {r \in Request : req[r] \in Holding}
  BY DEF Exit, Held, Holding
<1>2. Cardinality(Held') = 0 /\ Cardinality(Held) \in Nat
  BY <1>1, FS_EmptySet, HeldFinite
<1>3. word' = STOPPING
  BY <1>1, <1>2, StoppingAssumption DEF Exit, ShutdownInv
<1>4. ShutdownTypeOK'
  BY <1>3, StoppingAssumption DEF ShutdownTypeOK, Exit, Holding
<1>5. ShutdownInv'
  BY <1>2, <1>3, StoppingAssumption DEF ShutdownInv, Exit, ShutdownTypeOK, Holding
<1>6. DrainedMeansQuiet'
  BY DEF DrainedMeansQuiet, Exit, Holding
<1> QED BY <1>4, <1>5, <1>6

LEMMA StepInv == ASSUME Inv, [ShutdownNext]_admission PROVE Inv'
<1>1. CASE UNCHANGED admission
  BY <1>1 DEF admission, Inv, ShutdownTypeOK, ShutdownInv, DrainedMeansQuiet, Held
<1> QED BY <1>1, AdmitInv, WriteInv, CommitInv, LeaveInv, StopInv, DrainInv, TeardownInv, ExitInv
        DEF ShutdownNext, Launcher

\* The admission word of ShutdownState counts exactly the requests inside, a
\* drain that reported success stays true, and an exit of main that reports no
\* failure has cut no request and lost no acknowledged write.
THEOREM ShutdownAlwaysSafe == ShutdownSpec => []ShutdownSafe
<1>1. ShutdownInit => Inv
  BY InitInv
<1>2. Inv /\ [ShutdownNext]_admission => Inv'
  BY StepInv
<1>3. Inv => ShutdownSafe
  <2> SUFFICES ASSUME Inv PROVE CountExact /\ CleanExitKeepsWrites
    BY DEF Inv, ShutdownSafe
  <2>1. CountExact
    BY Active DEF CountExact, Held
  <2>2. CleanExitKeepsWrites
    BY DEF Inv, ShutdownInv, DrainedMeansQuiet, CleanExitKeepsWrites
  <2> QED BY <2>1, <2>2
<1> QED BY <1>1, <1>2, <1>3, PTL DEF ShutdownSpec
=============================================================================
