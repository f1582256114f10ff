---------------------------- MODULE VidMapProofs ----------------------------
(***************************************************************************)
(* Proofs about VidMap, for every set of strings and callers, every hash   *)
(* and every width of the numbers.                                         *)
(***************************************************************************)
EXTENDS VidMap, TLAPS

(* How many candidates a string tries before v, and whether one of them is *)
(* closed to it for good: claimed by another string, or used by older      *)
(* data.                                                                   *)
Distance(s, v) == IF v >= Hash[s] THEN v - Hash[s] ELSE v - Hash[s] - MinVid
Used(v) == reverse[v] # Nobody \/ v \in occupied
Closed(s, v) == reverse[v] # s /\ Used(v)
Searching == {"probe", "inspect", "claim"}

(* The callers, one at a time.                                             *)
Steps ==
  \A c \in Caller :
    /\ call[c].at # "corrupt"
    /\ call[c].at = "lookup" => call[c].vid = Hash[call[c].name]
    /\ call[c].at \in {"check", "write", "mapped"} => forward[call[c].name] = call[c].vid
    /\ call[c].at = "publish" => reverse[call[c].vid] = call[c].name
    /\ call[c].at = "claim" => call[c].vid \notin occupied \/ reverse[call[c].vid] # Nobody
    /\ call[c].at \in Searching =>
         \A w \in Candidate : Distance(call[c].name, w) < Distance(call[c].name, call[c].vid) => Used(w)
    /\ call[c].at = "exhausted" => \A w \in Candidate : Used(w)
Names == \A s \in Str : forward[s] # Unmapped => reverse[forward[s]] = s

(* Under the lock.                                                         *)
Alone ==
  locked =>
    /\ \A c, d \in Caller : call[c].at \in Busy /\ call[d].at \in Busy => c = d
    /\ \A c \in Caller :
         /\ call[c].at # "conflict"
         /\ call[c].at \in {"inspect", "claim"} => reverse[call[c].vid] = Nobody
         /\ call[c].at \in Searching =>
              \A w \in Candidate : Distance(call[c].name, w) < Distance(call[c].name, call[c].vid)
                                     => Closed(call[c].name, w)
    /\ \A v, w \in Candidate :
         reverse[v] # Nobody /\ Distance(reverse[v], w) < Distance(reverse[v], v) => Closed(reverse[v], w)

VidInv == VidTypeOK /\ Steps /\ Names /\ Alone

-----------------------------------------------------------------------------
(* The order of probing (next_candidate): a step passes over one number,   *)
(* and coming back to the first means that all have been passed.           *)
LEMMA NextCandidate ==
  ASSUME NEW s \in Str, NEW v \in Candidate
  PROVE  /\ next_candidate(v) \in Candidate
         /\ next_candidate(v) # Hash[s] =>
              \A w \in Candidate : Distance(s, w) < Distance(s, next_candidate(v)) => w = v \/ Distance(s, w) < Distance(s, v)
         /\ next_candidate(v) = Hash[s] => \A w \in Candidate : w = v \/ Distance(s, w) < Distance(s, v)
  BY VidAssumption DEF next_candidate, Candidate, Distance

(* A search starts with nothing passed (initial_candidate).                *)
LEMMA FirstCandidate ==
  ASSUME NEW s \in Str, NEW w \in Candidate
  PROVE  ~(Distance(s, w) < Distance(s, Hash[s]))
  BY VidAssumption DEF Candidate, Distance

(* What moving a call on changes of it.                                    *)
LEMMA Moves ==
  ASSUME call \in [Caller -> Call], NEW c \in Caller, NEW p \in Ended \cup Busy, At(c, p)
  PROVE  /\ call' \in [Caller -> Call]
         /\ call'[c] = [call[c] EXCEPT !.at = p]
         /\ call'[c].at = p /\ call'[c].name = call[c].name /\ call'[c].vid = call[c].vid /\ call'[c].op = call[c].op
         /\ \A d \in Caller : d # c => call'[d] = call[d]
  BY DEF At, Call

LEMMA Advances ==
  ASSUME call \in [Caller -> Call], NEW c \in Caller, Advance(c)
  PROVE  /\ call' \in [Caller -> Call]
         /\ call'[c].at = (IF next_candidate(call[c].vid) = Hash[call[c].name] THEN "exhausted" ELSE "probe")
         /\ call'[c].name = call[c].name
         /\ call'[c].vid = next_candidate(call[c].vid)
         /\ \A d \in Caller : d # c => call'[d] = call[d]
  <1>1. next_candidate(call[c].vid) \in Candidate /\ call[c].name \in Str
    BY NextCandidate DEF Call
  <1>2. QED
    BY <1>1 DEF Advance, Call, initial_candidate, Ended, Busy

(* The initial states.                                                     *)
LEMMA VidInitial == VidInit => VidInv
  <1>1. SUFFICES ASSUME VidInit PROVE VidInv
    OBVIOUS
  <1>2. VidTypeOK
    BY <1>1, VidAssumption DEF VidInit, VidTypeOK, Call, Ended, Busy
  <1>3. \A c \in Caller : call[c].at = "idle"
    BY <1>1 DEF VidInit
  <1>4. Steps
    BY <1>3 DEF Steps, Searching
  <1>5. Names
    BY <1>1 DEF Names, VidInit
  <1>6. Alone
    BY <1>1, <1>3 DEF Alone, Searching, Busy, VidInit, Candidate
  <1>7. QED
    BY <1>2, <1>4, <1>5, <1>6 DEF VidInv

-----------------------------------------------------------------------------
(* The steps that only read the store.  A call that moves on without the   *)
(* mapping changing keeps the invariant if it holds of that call where it  *)
(* is then.                                                                *)
Fits(c, at, s, v) ==
  /\ at # "corrupt"
  /\ at = "lookup" => v = Hash[s]
  /\ at \in {"check", "write", "mapped"} => forward[s] = v
  /\ at = "publish" => reverse[v] = s
  /\ at = "claim" => v \notin occupied \/ reverse[v] # Nobody
  /\ at \in Searching => \A w \in Candidate : Distance(s, w) < Distance(s, v) => Used(w)
  /\ at = "exhausted" => \A w \in Candidate : Used(w)
  /\ locked => /\ at # "conflict"
               /\ at \in {"inspect", "claim"} => reverse[v] = Nobody
               /\ at \in Searching => \A w \in Candidate : Distance(s, w) < Distance(s, v) => Closed(s, w)
               /\ at \in Busy => \A d \in Caller : d # c => call[d].at \notin Busy

LEMMA Reading ==
  ASSUME VidInv, NEW c \in Caller, Keep, call' \in [Caller -> Call],
         \A d \in Caller : d # c => call'[d] = call[d],
         Fits(c, call'[c].at, call'[c].name, call'[c].vid)
  PROVE  VidInv'
  <1>1. VidTypeOK'
    BY DEF VidInv, VidTypeOK, Keep
  <1>2. Names'
    BY DEF VidInv, Names, Keep
  <1>3. Steps'
    BY DEF VidInv, Steps, Keep, Fits, Used
  <1>4. Alone'
    BY DEF VidInv, Alone, Keep, Fits, Used, Closed
  <1>5. QED
    BY <1>1, <1>2, <1>3, <1>4 DEF VidInv

LEMMA BeginStep == ASSUME VidInv, NEW c \in Caller, Begin(c) PROVE VidInv'
  <1>1. PICK s \in Str, op \in {"insert", "delete"} :
          call' = [call EXCEPT ![c] = [at |-> "lookup", name |-> s, vid |-> Hash[s], op |-> op]]
    BY DEF Begin, initial_candidate
  <1>2. call \in [Caller -> Call] /\ Hash[s] \in Candidate
    BY VidAssumption DEF VidInv, VidTypeOK
  <1>3. /\ call' \in [Caller -> Call]
        /\ call'[c].at = "lookup" /\ call'[c].vid = Hash[call'[c].name]
        /\ \A d \in Caller : d # c => call'[d] = call[d]
    BY <1>1, <1>2 DEF Call, Busy
  <1>4. locked => \A d \in Caller : call[d].at \notin Busy
    BY DEF Begin, Ended, Busy
  <1>5. Fits(c, call'[c].at, call'[c].name, call'[c].vid)
    BY <1>3, <1>4 DEF Fits, Searching
  <1>6. QED
    BY <1>3, <1>5, Reading DEF Begin

LEMMA LookupStep == ASSUME VidInv, NEW c \in Caller, Lookup(c) PROVE VidInv'
  <1> DEFINE s == call[c].name
  <1>1. call \in [Caller -> Call] /\ s \in Str /\ forward[s] \in Candidate \cup {Unmapped}
    BY DEF VidInv, VidTypeOK, Call
  <1>2. locked => \A d \in Caller : d # c => call[d].at \notin Busy
    BY DEF VidInv, Alone, Lookup, Busy
  <1>3. CASE forward[s] # Unmapped
    <2>1. /\ call' \in [Caller -> Call]
          /\ call'[c].at = "check" /\ call'[c].name = s /\ call'[c].vid = forward[s]
          /\ \A d \in Caller : d # c => call'[d] = call[d]
      BY <1>1, <1>3 DEF Lookup, Call, Busy
    <2>2. Fits(c, call'[c].at, call'[c].name, call'[c].vid)
      BY <2>1, <1>2 DEF Fits, Searching
    <2>3. QED
      BY <2>1, <2>2, Reading DEF Lookup
  <1>4. CASE forward[s] = Unmapped
    <2>1. PICK p \in {"probe", "unknown"} : At(c, p)
      BY <1>4 DEF Lookup
    <2>2. /\ call' \in [Caller -> Call]
          /\ call'[c].at = p /\ call'[c].name = s /\ call'[c].vid = Hash[s]
          /\ \A d \in Caller : d # c => call'[d] = call[d]
      <3>1. call[c].at = "lookup" /\ call[c].vid = Hash[s]
        BY DEF Lookup, VidInv, Steps
      <3>2. QED
        BY <1>1, <2>1, <3>1, Moves DEF Ended, Busy
    <2>3. Fits(c, call'[c].at, call'[c].name, call'[c].vid)
      BY <1>1, <1>2, <2>2, FirstCandidate DEF Fits, Searching
    <2>4. QED
      BY <2>2, <2>3, Reading DEF Lookup
  <1>5. QED
    BY <1>1, <1>3, <1>4

LEMMA CheckStep == ASSUME VidInv, NEW c \in Caller, CheckReverse(c) PROVE VidInv'
  <1>1. /\ call \in [Caller -> Call] /\ call[c].name \in Str /\ call[c].vid \in Candidate
        /\ forward[call[c].name] = call[c].vid /\ call[c].at = "check"
    BY DEF VidInv, VidTypeOK, Call, Steps, CheckReverse
  <1>2. call[c].vid # Unmapped
    BY <1>1, VidAssumption DEF Candidate, Unmapped
  <1>3. At(c, "write")
    BY <1>1, <1>2 DEF VidInv, Names, CheckReverse
  <1>4. /\ call' \in [Caller -> Call]
        /\ call'[c].at = "write" /\ call'[c].name = call[c].name /\ call'[c].vid = call[c].vid
        /\ \A d \in Caller : d # c => call'[d] = call[d]
    BY <1>1, <1>3, Moves DEF Busy
  <1>5. Fits(c, call'[c].at, call'[c].name, call'[c].vid)
    BY <1>1, <1>4 DEF Fits, Searching, VidInv, Alone, Busy
  <1>6. QED
    BY <1>4, <1>5, Reading DEF CheckReverse

(* Passing over a number that is closed to the string.                     *)
LEMMA AdvanceFits ==
  ASSUME VidInv, NEW c \in Caller, call[c].at \in Searching, Keep, Advance(c), Used(call[c].vid),
         locked => Closed(call[c].name, call[c].vid)
  PROVE  VidInv'
  <1>1. call \in [Caller -> Call] /\ call[c].name \in Str /\ call[c].vid \in Candidate
    BY DEF VidInv, VidTypeOK, Call
  <1>2. /\ call' \in [Caller -> Call]
        /\ call'[c].at = (IF next_candidate(call[c].vid) = Hash[call[c].name] THEN "exhausted" ELSE "probe")
        /\ call'[c].name = call[c].name
        /\ call'[c].vid = next_candidate(call[c].vid)
        /\ \A d \in Caller : d # c => call'[d] = call[d]
    BY <1>1, Advances
  <1>3. /\ \A w \in Candidate : Distance(call[c].name, w) < Distance(call[c].name, call[c].vid) => Used(w)
        /\ locked => \A w \in Candidate : Distance(call[c].name, w) < Distance(call[c].name, call[c].vid)
                                             => Closed(call[c].name, w)
        /\ locked => \A d \in Caller : d # c => call[d].at \notin Busy
    BY DEF VidInv, Steps, Alone, Searching, Busy
  <1>4. Fits(c, call'[c].at, call'[c].name, call'[c].vid)
    <2>1. CASE next_candidate(call[c].vid) = Hash[call[c].name]
      BY <1>1, <1>2, <1>3, <2>1, NextCandidate DEF Fits, Searching, Busy
    <2>2. CASE next_candidate(call[c].vid) # Hash[call[c].name]
      BY <1>1, <1>2, <1>3, <2>2, NextCandidate DEF Fits, Searching
    <2>3. QED
      BY <2>1, <2>2
  <1>5. QED
    BY <1>2, <1>4, Reading

LEMMA ProbeStep == ASSUME VidInv, NEW c \in Caller, Probe(c) PROVE VidInv'
  <1> DEFINE owner == reverse[call[c].vid]
  <1>1. call \in [Caller -> Call] /\ call[c].name \in Str /\ call[c].vid \in Candidate /\ call[c].at = "probe"
    BY DEF VidInv, VidTypeOK, Call, Probe
  <1>2. CASE owner \notin {Nobody, call[c].name} /\ Advance(c)
    BY <1>1, <1>2, AdvanceFits DEF Probe, Searching, Used, Closed
  <1>3. ASSUME NEW p \in {"inspect", "publish"}, At(c, p),
               p = "inspect" => owner = Nobody, p = "publish" => owner = call[c].name
        PROVE  VidInv'
    <2>1. /\ call' \in [Caller -> Call]
          /\ call'[c].at = p /\ call'[c].name = call[c].name /\ call'[c].vid = call[c].vid
          /\ \A d \in Caller : d # c => call'[d] = call[d]
      BY <1>1, <1>3, Moves DEF Busy
    <2>2. Fits(c, call'[c].at, call'[c].name, call'[c].vid)
      BY <1>1, <1>3, <2>1 DEF Fits, Searching, VidInv, Steps, Alone, Busy
    <2>3. QED
      BY <2>1, <2>2, Reading DEF Probe
  <1>4. QED
    BY <1>2, <1>3 DEF Probe

LEMMA InspectStep == ASSUME VidInv, NEW c \in Caller, internal_vid_is_occupied(c) PROVE VidInv'
  <1>1. call \in [Caller -> Call] /\ call[c].name \in Str /\ call[c].vid \in Candidate /\ call[c].at = "inspect"
    BY DEF VidInv, VidTypeOK, Call, internal_vid_is_occupied
  <1>2. CASE call[c].vid \in occupied
    <2>1. Advance(c) /\ Keep /\ Used(call[c].vid)
      BY <1>2 DEF internal_vid_is_occupied, Used
    <2>2. locked => Closed(call[c].name, call[c].vid)
      BY <1>1, <2>1, VidAssumption DEF VidInv, Alone, Closed
    <2>3. QED
      BY <1>1, <2>1, <2>2, AdvanceFits DEF Searching
  <1>3. CASE call[c].vid \notin occupied
    <2>1. /\ call' \in [Caller -> Call]
          /\ call'[c].at = "claim" /\ call'[c].name = call[c].name /\ call'[c].vid = call[c].vid
          /\ \A d \in Caller : d # c => call'[d] = call[d]
      BY <1>1, <1>3, Moves DEF Busy, internal_vid_is_occupied
    <2>2. Fits(c, call'[c].at, call'[c].name, call'[c].vid)
      BY <1>1, <1>3, <2>1 DEF Fits, Searching, VidInv, Steps, Alone, Busy
    <2>3. QED
      BY <2>1, <2>2, Reading DEF internal_vid_is_occupied
  <1>4. QED
    BY <1>2, <1>3

LEMMA CancelStep == ASSUME VidInv, NEW c \in Caller, Cancel(c) PROVE VidInv'
  <1>1. call \in [Caller -> Call]
    BY DEF VidInv, VidTypeOK
  <1>2. /\ call' \in [Caller -> Call] /\ call'[c].at = "idle"
        /\ \A d \in Caller : d # c => call'[d] = call[d]
    BY <1>1, Moves DEF Cancel, Ended
  <1>3. Fits(c, call'[c].at, call'[c].name, call'[c].vid)
    BY <1>2 DEF Fits, Searching, Busy
  <1>4. QED
    BY <1>2, <1>3, Reading DEF Cancel

-----------------------------------------------------------------------------
(* The steps that write.                                                   *)

LEMMA ClaimStep == ASSUME VidInv, NEW c \in Caller, Claim(c) PROVE VidInv'
  <1> DEFINE s == call[c].name
             v == call[c].vid
  <1>1. /\ call \in [Caller -> Call] /\ s \in Str /\ v \in Candidate /\ call[c].at = "claim"
        /\ reverse \in [Candidate -> Str \cup {Nobody}]
    BY DEF VidInv, VidTypeOK, Call, Claim
  <1>2. CASE reverse[v] # Nobody
    <2>1. reverse' = reverse /\ Keep
      BY <1>2 DEF Claim, put_if_absent, Keep
    <2>2. CASE reverse[v] = s
      <3>1. At(c, "publish")
        BY <2>2 DEF Claim
      <3>2. /\ call' \in [Caller -> Call]
            /\ call'[c].at = "publish" /\ call'[c].name = s /\ call'[c].vid = v
            /\ \A d \in Caller : d # c => call'[d] = call[d]
        BY <1>1, <3>1, Moves DEF Busy
      <3>3. Fits(c, call'[c].at, call'[c].name, call'[c].vid)
        BY <1>1, <2>2, <3>2 DEF Fits, Searching, VidInv, Alone, Busy
      <3>4. QED
        BY <2>1, <3>2, <3>3, Reading
    <2>3. CASE reverse[v] # s
      BY <1>1, <1>2, <2>1, <2>3, AdvanceFits DEF Claim, Searching, Used, Closed
    <2>4. QED
      BY <2>2, <2>3
  <1>3. CASE reverse[v] = Nobody
    <2>1. /\ reverse' = [reverse EXCEPT ![v] = s] /\ At(c, "publish")
          /\ UNCHANGED <<forward, occupied, locked>>
      BY <1>3 DEF Claim, put_if_absent
    <2>2. /\ call' \in [Caller -> Call]
          /\ call'[c].at = "publish" /\ call'[c].name = s /\ call'[c].vid = v
          /\ \A d \in Caller : d # c => call'[d] = call[d]
      BY <1>1, <2>1, Moves DEF Busy
    <2>3. /\ reverse'[v] = s /\ s # Nobody /\ v \notin occupied
          /\ \A w \in Candidate : w # v => reverse'[w] = reverse[w]
      BY <1>1, <1>3, <2>1, VidAssumption DEF VidInv, Steps
    <2>4. \A w \in Candidate : Used(w) => Used(w)'
      BY <2>1, <2>3 DEF Used
    <2>5. VidTypeOK'
      BY <1>1, <2>1, <2>2 DEF VidInv, VidTypeOK
    <2>6. Names'
      BY <1>1, <1>3, <2>1, <2>3, VidAssumption DEF VidInv, Names, VidTypeOK, Candidate
    <2>7. Steps'
      <3>1. SUFFICES ASSUME NEW d \in Caller, d # c
            PROVE  /\ call[d].at = "publish" => reverse'[call[d].vid] = call[d].name
                   /\ call[d].at = "claim" => call[d].vid \notin occupied \/ reverse'[call[d].vid] # Nobody
        BY <2>1, <2>2, <2>3, <2>4 DEF VidInv, Steps, Searching
      <3>2. call[d].vid \in Candidate /\ call[d].name \in Str
        BY <1>1, <3>1 DEF Call
      <3>3. QED
        BY <1>3, <2>3, <3>1, <3>2, VidAssumption DEF VidInv, Steps
    <2>8. Alone'
      <3>1. SUFFICES ASSUME locked PROVE Alone'
        BY <2>1 DEF Alone
      <3>2. \A d \in Caller : d # c => call[d].at \notin Busy
        BY <1>1, <3>1 DEF VidInv, Alone, Busy
      <3>3. /\ \A a, b \in Caller : call'[a].at \in Busy /\ call'[b].at \in Busy => a = b
            /\ \A d \in Caller : call'[d].at # "conflict" /\ call'[d].at \notin Searching
        BY <2>2, <3>1, <3>2 DEF VidInv, Alone, Busy, Searching
      <3>4. \A x, w \in Candidate :
              reverse'[x] # Nobody /\ Distance(reverse'[x], w) < Distance(reverse'[x], x)
                => reverse'[w] # reverse'[x] /\ Used(w)'
        <4>1. SUFFICES ASSUME NEW x \in Candidate, NEW w \in Candidate, reverse'[x] # Nobody,
                              Distance(reverse'[x], w) < Distance(reverse'[x], x)
                       PROVE  reverse'[w] # reverse'[x] /\ Used(w)'
          OBVIOUS
        <4>2. CASE x = v
          <5>1. Closed(s, w)
            BY <1>1, <2>3, <3>1, <4>1, <4>2 DEF VidInv, Alone, Searching
          <5>2. w # v
            BY <1>1, <2>3, <4>1, <4>2, VidAssumption DEF Distance, Candidate
          <5>3. QED
            BY <2>3, <2>4, <4>2, <5>1, <5>2 DEF Closed
        <4>3. CASE x # v
          <5>1. reverse'[x] = reverse[x] /\ Closed(reverse[x], w)
            BY <2>3, <3>1, <4>1, <4>3 DEF VidInv, Alone
          <5>2. w # v
            BY <1>3, <2>3, <5>1 DEF Closed, Used
          <5>3. QED
            BY <2>3, <2>4, <5>1, <5>2 DEF Closed
        <4>4. QED
          BY <4>2, <4>3
      <3>5. QED
        BY <3>3, <3>4 DEF Alone, Searching, Closed, Distance
    <2>9. QED
      BY <2>5, <2>6, <2>7, <2>8 DEF VidInv
  <1>4. QED
    BY <1>2, <1>3

(* Under the lock a string owns one number.                                *)
LEMMA OneNumber ==
  ASSUME VidInv, locked, NEW v \in Candidate, NEW w \in Candidate, reverse[v] # Nobody, reverse[v] = reverse[w]
  PROVE  v = w
  <1>1. reverse[v] \in Str
    BY DEF VidInv, VidTypeOK
  <1>2. /\ ~(Distance(reverse[v], w) < Distance(reverse[v], v))
        /\ ~(Distance(reverse[v], v) < Distance(reverse[v], w))
    BY DEF VidInv, Alone, Closed
  <1>3. QED
    BY <1>1, <1>2, VidAssumption DEF Distance, Candidate

LEMMA PublishStep == ASSUME VidInv, NEW c \in Caller, Publish(c) PROVE VidInv'
  <1> DEFINE s == call[c].name
             v == call[c].vid
  <1>1. /\ call \in [Caller -> Call] /\ s \in Str /\ v \in Candidate /\ call[c].at = "publish"
        /\ forward \in [Str -> Candidate \cup {Unmapped}] /\ reverse[v] = s /\ s # Nobody /\ v # Unmapped
    BY VidAssumption DEF VidInv, VidTypeOK, Call, Publish, Steps, Candidate, Unmapped
  <1>2. locked => forward[s] \in {Unmapped, v}
    BY <1>1, OneNumber DEF VidInv, Names
  <1>3. PICK p \in {"write", "conflict"} : At(c, p) /\ (p = "write" <=> forward[s] \in {Unmapped, v})
    BY DEF Publish
  <1>4. /\ call' \in [Caller -> Call]
        /\ call'[c].at = p /\ call'[c].name = s /\ call'[c].vid = v
        /\ \A d \in Caller : d # c => call'[d] = call[d]
    BY <1>1, <1>3, Moves DEF Busy, Ended
  <1>5. /\ forward' \in [Str -> Candidate \cup {Unmapped}]
        /\ p = "write" => forward'[s] = v
        /\ forward[s] = Unmapped => forward'[s] = v
        /\ \A t \in Str : forward[t] # Unmapped => forward'[t] = forward[t]
        /\ \A t \in Str : t # s => forward'[t] = forward[t]
        /\ UNCHANGED <<reverse, occupied, locked>>
    BY <1>1, <1>3 DEF Publish, put_if_absent
  <1>6. VidTypeOK'
    BY <1>4, <1>5 DEF VidInv, VidTypeOK
  <1>7. Names'
    BY <1>1, <1>5 DEF VidInv, Names
  <1>8. Steps'
    <2>1. SUFFICES ASSUME NEW d \in Caller, d # c, call[d].at \in {"check", "write", "mapped"}
                   PROVE  forward'[call[d].name] = call[d].vid
      BY <1>1, <1>4, <1>5 DEF VidInv, Steps, Searching, Used
    <2>2. call[d].name \in Str /\ call[d].vid \in Candidate /\ forward[call[d].name] = call[d].vid
      BY <1>1, <2>1 DEF VidInv, Steps, Call
    <2>3. QED
      BY <1>5, <2>2, VidAssumption DEF Candidate, Unmapped
  <1>9. Alone'
    BY <1>1, <1>2, <1>3, <1>4, <1>5 DEF VidInv, Alone, Searching, Busy, Closed, Used
  <1>10. QED
    BY <1>6, <1>7, <1>8, <1>9 DEF VidInv

LEMMA WriteStep == ASSUME VidInv, NEW c \in Caller, WriteVertex(c) PROVE VidInv'
  <1> DEFINE s == call[c].name
             v == call[c].vid
  <1>1. /\ call \in [Caller -> Call] /\ s \in Str /\ v \in Candidate /\ call[c].at = "write"
        /\ forward[s] = v
    BY DEF VidInv, VidTypeOK, Call, WriteVertex, Steps
  <1>2. reverse[v] = s /\ s # Nobody
    BY <1>1, VidAssumption DEF VidInv, Names, Candidate, Unmapped
  <1>3. /\ call' \in [Caller -> Call]
        /\ call'[c].at = "mapped" /\ call'[c].name = s /\ call'[c].vid = v
        /\ \A d \in Caller : d # c => call'[d] = call[d]
    BY <1>1, Moves DEF WriteVertex, Ended
  <1>4. /\ occupied' \subseteq Candidate
        /\ \A w \in Candidate : w # v => (w \in occupied' <=> w \in occupied)
        /\ UNCHANGED <<forward, reverse, locked>>
    BY <1>1 DEF WriteVertex, VidInv, VidTypeOK
  <1>5. \A w \in Candidate : Used(w)' <=> Used(w)
    BY <1>2, <1>4 DEF Used
  <1>6. VidTypeOK'
    BY <1>3, <1>4 DEF VidInv, VidTypeOK
  <1>7. Names'
    BY <1>4 DEF VidInv, Names
  <1>8. Steps'
    <2>1. SUFFICES ASSUME NEW d \in Caller, d # c, call[d].at = "claim"
                   PROVE  call[d].vid \notin occupied' \/ reverse[call[d].vid] # Nobody
      BY <1>1, <1>3, <1>4, <1>5 DEF VidInv, Steps, Searching
    <2>2. call[d].vid \in Candidate
      BY <1>1 DEF Call
    <2>3. QED
      BY <1>2, <1>4, <2>1, <2>2 DEF VidInv, Steps
  <1>9. Alone'
    <2>1. \A t \in Str, w \in Candidate : Closed(t, w)' <=> Closed(t, w)
      BY <1>4, <1>5 DEF Closed
    <2>2. \A d \in Caller : call[d].name \in Str
      BY <1>1 DEF Call
    <2>3. \A w \in Candidate : reverse[w] \in Str \cup {Nobody}
      BY DEF VidInv, VidTypeOK
    <2>4. QED
      BY <1>1, <1>3, <1>4, <2>1, <2>2, <2>3 DEF VidInv, Alone, Searching, Busy
  <1>10. QED
    BY <1>6, <1>7, <1>8, <1>9 DEF VidInv

-----------------------------------------------------------------------------
LEMMA VidInductive == VidInv /\ [VidNext]_vidvars => VidInv'
  <1>1. ASSUME VidInv, UNCHANGED vidvars PROVE VidInv'
    BY <1>1 DEF vidvars, VidInv, VidTypeOK, Steps, Names, Alone, Used, Closed
  <1>2. QED
    BY <1>1, BeginStep, LookupStep, CheckStep, ProbeStep, InspectStep, ClaimStep, PublishStep, WriteStep, CancelStep
       DEF VidNext

LEMMA VidAlways == VidSpec => []VidInv
  BY VidInitial, VidInductive, PTL DEF VidSpec

(* For every set of strings, every hash and any number of callers that     *)
(* interleave and are cancelled anywhere, a string resolves to one number  *)
(* and the number displays as the string (resolve_vid, display_vid).  The  *)
(* search gives up only over a full namespace, and callers that come one   *)
(* at a time claim one number for a string and meet no conflict.           *)
THEOREM NamesAlwaysSound == VidSpec => []NamesSound
  <1>1. VidInv => NamesExact
    BY DEF VidInv, Names, Steps, NamesExact, display_vid
  <1>2. VidInv => ClaimsSound
    BY OneNumber DEF VidInv, Steps, Alone, ClaimsSound, Used
  <1>3. QED
    BY <1>1, <1>2, VidAlways, PTL DEF NamesSound

(* No step changes a mapping that is there or gives away a number that     *)
(* older data uses.                                                        *)
THEOREM MappingsAlwaysStay == VidSpec => MappingsStay
  <1> DEFINE Stay == /\ \A s \in Str : forward[s] # Unmapped => forward'[s] = forward[s]
                     /\ \A v \in Candidate : reverse[v] # Nobody => reverse'[v] = reverse[v]
                     /\ \A v \in occupied : reverse[v] = Nobody => reverse'[v] = Nobody
  <1>1. VidInv /\ [VidNext]_vidvars => [Stay]_vidvars
    <2>1. SUFFICES ASSUME VidInv, NEW c \in Caller, Claim(c) \/ Publish(c) PROVE Stay
      BY DEF VidNext, Begin, Lookup, CheckReverse, Probe, internal_vid_is_occupied, WriteVertex, Cancel, Keep, vidvars
    <2>2. /\ forward \in [Str -> Candidate \cup {Unmapped}] /\ reverse \in [Candidate -> Str \cup {Nobody}]
          /\ occupied \subseteq Candidate
          /\ call[c].name \in Str /\ call[c].vid \in Candidate
      BY <2>1 DEF VidInv, VidTypeOK, Call
    <2>3. CASE Claim(c)
      BY <2>1, <2>2, <2>3 DEF Claim, put_if_absent, VidInv, Steps
    <2>4. CASE Publish(c)
      BY <2>2, <2>4 DEF Publish, put_if_absent
    <2>5. QED
      BY <2>1, <2>3, <2>4
  <1>2. QED
    BY <1>1, VidAlways, PTL DEF VidSpec, MappingsStay
=============================================================================
