--------------------------- MODULE LoginThrottle ---------------------------
(***************************************************************************)
(* Brute-force protection of logins (graph/auth.rs): a sliding window of   *)
(* failures per account and per peer address, a lockout after consecutive  *)
(* failures, and a semaphore around the password verification.  A login    *)
(* checks the windows and the lockout, waits for a permit, verifies, and   *)
(* only then records a failure, so that several logins pass the check      *)
(* before the first of them is recorded.                                   *)
(*                                                                         *)
(* Time passes in ticks; a window holds the ages of its entries.  Whether  *)
(* a password is right is left open.  Addresses and accounts share a table *)
(* of keys of bounded size.                                                *)
(***************************************************************************)
EXTENDS Integers, Sequences, FiniteSets, FiniteSetsExt, SequencesExt, TLC

CONSTANTS
  Account,        \* names that logins give
  Known,          \* the ones that are users
  Source,         \* peer addresses
  Attempt,        \* concurrent logins
  AccountLimit,   \* max_account_failures_per_window
  SourceLimit,    \* max_source_failures_per_window
  Window,         \* in ticks
  MaxKeys,        \* MAX_RATE_LIMIT_KEYS
  MaxFailed,      \* max_failed_attempts
  Lockout,        \* lockout_duration, in ticks; 0 disables it
  MaxVerifications \* max_concurrent_verifications

VARIABLES
  failures,   \* LoginRateLimiter.failures: the ages of each key's entries
  attempts,   \* failed_attempts: consecutive failures, and the lockout's rest
  login,      \* what each login does next
  rejected,   \* the ages of the last rejections answered for each key (history)
  unraced     \* the ages of the ones whose login raced no other rejection of the key (history)

history == <<rejected, unraced>>
vars == <<failures, attempts, login, history>>

Key == Account \cup Source

Limit(k) == IF k \in Account THEN AccountLimit ELSE SourceLimit

Idle == [at |-> "idle"]
NoAttempts == [count |-> 0, left |-> 0]

Init ==
  /\ failures = <<>>
  /\ attempts = [a \in Known |-> NoAttempts]
  /\ login = [l \in Attempt |-> Idle]
  /\ rejected = [k \in Key |-> <<>>]
  /\ unraced = [k \in Key |-> <<>>]

Go(l, at) == login' = [login EXCEPT ![l].at = at]

\* expire: entries older than the window are dropped.
Unexpired(entries) == SelectSeq(entries, LAMBDA age : age <= Window)

\* A full table first drops the keys without a recent entry.
Pruned ==
  IF Cardinality(DOMAIN failures) >= MaxKeys
  THEN [k \in {k \in DOMAIN failures : Unexpired(failures[k]) # <<>>} |-> failures[k]]
  ELSE failures
Full(table) == Cardinality(DOMAIN table) >= MaxKeys

\* keys: the account and, if the peer is known, its address.
Keys(l) == {login[l].account, login[l].source}

\* retry_after and lockout_remaining.
Saturated(l) == Full(Pruned) /\ Keys(l) \ DOMAIN Pruned # {}

\* Mutant: a window that is full lets one more through.
OverBudgetPast(l) ==
  \E k \in Keys(l) \cap DOMAIN Pruned : Len(Unexpired(Pruned[k])) > Limit(k)

OverBudget(l) ==
  \E k \in Keys(l) \cap DOMAIN Pruned : Len(Unexpired(Pruned[k])) >= Limit(k)
Locked(a) == a \in Known /\ attempts[a].left > 0
Refused(l) == Saturated(l) \/ OverBudget(l) \/ Locked(login[l].account)

Arrive(l, a, s) ==
  /\ login[l] = Idle
  /\ login' = [login EXCEPT ![l] = [at |-> "check", account |-> a, source |-> s, raced |-> {}]]
  /\ UNCHANGED <<failures, attempts, history>>

\* The windows are also expired in place, which no later check can tell.
Check(l) ==
  /\ login[l].at = "check"
  /\ login' = [login EXCEPT ![l] = IF Refused(l) THEN Idle ELSE [@ EXCEPT !.at = "wait"]]
  /\ failures' = Pruned
  /\ UNCHANGED <<attempts, history>>

\* verify_password_bounded: excess logins queue for a permit.
Acquire(l) ==
  /\ login[l].at = "wait"
  /\ Cardinality({m \in Attempt : login[m].at \in {"verify", "detached"}}) < MaxVerifications
  /\ Go(l, "verify")
  /\ UNCHANGED <<failures, attempts, history>>

\* The right password: the counter is cleared, the windows are not touched.
Succeed(l) ==
  /\ login[l].at = "verify" /\ login[l].account \in Known
  /\ attempts' = [attempts EXCEPT ![login[l].account] = NoAttempts]
  /\ login' = [login EXCEPT ![l] = Idle]
  /\ UNCHANGED <<failures, history>>

\* The logins that have passed their check.
Admitted == {l \in Attempt : login[l].at \in {"wait", "verify", "record"}}

\* raced (history): what has changed since the check of a login that passed.
Race(l, at, changed(_)) ==
  login' = [m \in Attempt |->
              IF m = l THEN at
              ELSE IF m \in Admitted THEN [login[m] EXCEPT !.raced = @ \cup changed(m)]
              ELSE login[m]]

\* A wrong one, or a name that no user has, which is not counted here.  The
\* count only matters up to its limit.
Reject(l) ==
  LET a == login[l].account
      n == Min({attempts[a].count + 1, MaxFailed})
      locks == a \in Known /\ n = MaxFailed
  IN  /\ login[l].at = "verify"
      /\ attempts' = IF a \in Known
                     THEN [attempts EXCEPT ![a] =
                             [count |-> n, left |-> IF locks THEN Lockout ELSE @.left]]
                     ELSE attempts
      /\ Race(l, [login[l] EXCEPT !.at = "record"],
              LAMBDA m : IF locks /\ login[m].account = a THEN {"lockout"} ELSE {})
      /\ UNCHANGED <<failures, history>>

\* record_failure, for one key of the table.  A full window takes no more, and
\* a full table no new key.
Charged(table, k) ==
  IF k \in DOMAIN table
  THEN LET entries == Unexpired(table[k])
       IN  [table EXCEPT ![k] = IF Len(entries) < Limit(k) THEN Append(entries, 0) ELSE entries]
  ELSE IF Full(table) THEN table ELSE table @@ (k :> <<0>>)

\* Up to as many as a window can hold and one more.
Noted(entries, k) ==
  LET longer == Append(entries, 0)
  IN  IF Len(longer) > Limit(k) + 1 THEN Tail(longer) ELSE longer

\* A login that a full table keeps from being charged races all others.
Answer(l) ==
  /\ Race(l, Idle, LAMBDA m : (Keys(l) \cap Keys(m))
                               \cup (IF Full(failures') THEN Keys(m) \ DOMAIN failures' ELSE {}))
  /\ rejected' = [k \in Key |-> IF k \in Keys(l) THEN Noted(rejected[k], k) ELSE rejected[k]]
  /\ unraced' = [k \in Key |-> IF k \in Keys(l) \ login[l].raced THEN Noted(unraced[k], k)
                                ELSE unraced[k]]

Record(l) ==
  /\ login[l].at = "record"
  /\ failures' = Charged(Charged(Pruned, login[l].account), login[l].source)
  /\ Answer(l)
  /\ UNCHANGED attempts

\* The peer disconnects.  A verification that runs goes on and keeps its permit.
Disconnect(l) ==
  /\ login[l].at \in {"check", "wait", "verify", "record"}
  /\ login' = [login EXCEPT ![l] = IF @.at = "verify" THEN [at |-> "detached"] ELSE Idle]
  /\ UNCHANGED <<failures, attempts, history>>

Release(l) ==
  /\ login[l].at = "detached"
  /\ login' = [login EXCEPT ![l] = Idle]
  /\ UNCHANGED <<failures, attempts, history>>

\* Ages past the window are alike.
Older(entries) == [i \in DOMAIN entries |-> Min({entries[i] + 1, Window + 1})]

Tick ==
  /\ failures' = [k \in DOMAIN failures |-> Older(failures[k])]
  /\ attempts' = [a \in Known |-> [attempts[a] EXCEPT !.left = Max({@ - 1, 0})]]
  /\ rejected' = [k \in Key |-> Unexpired(Older(rejected[k]))]
  /\ unraced' = [k \in Key |-> Unexpired(Older(unraced[k]))]
  /\ UNCHANGED login

Next ==
  \/ \E l \in Attempt :
       \/ \E a \in Account, s \in Source : Arrive(l, a, s)
       \/ Check(l)
       \/ Acquire(l)
       \/ Succeed(l)
       \/ Reject(l)
       \/ Record(l)
       \/ Disconnect(l)
       \/ Release(l)
  \/ Tick

Spec == Init /\ [][Next]_vars /\ WF_vars(Tick)

-----------------------------------------------------------------------------
(* Properties.                                                              *)

TypeOK ==
  /\ DOMAIN failures \subseteq Key /\ Cardinality(DOMAIN failures) <= MaxKeys
  /\ \A k \in DOMAIN failures : Len(failures[k]) <= Limit(k)
  /\ attempts \in [Known -> [count : 0..MaxFailed, left : 0..Lockout]]
  /\ login \in [Attempt -> {Idle, [at |-> "detached"]}
                            \cup [at : {"check", "wait", "verify", "record"},
                                  account : Account, source : Source,
                                  raced : SUBSET (Key \cup {"lockout"})]]
  /\ \A k \in Key :
       /\ rejected[k] \in Seq(0..Window)
       /\ unraced[k] \in Seq(0..Window) /\ Len(unraced[k]) <= Len(rejected[k])

\* No account and no address is answered more rejections within a window than its
\* limit, not counting logins that raced: those that had passed their check when
\* another rejection of the same account or address was recorded, or when the
\* table of keys filled up.  The code counts no race that finds the window full,
\* so that with many logins at a time the answered rejections exceed the limit.
Budget == \A k \in Key : Len(unraced[k]) <= Limit(k)

\* While an account is locked its passwords are not verified, except for logins
\* that had passed their check when it was locked.
LockoutHolds ==
  \A l \in Attempt :
    (login[l].at \in {"wait", "verify"} /\ Locked(login[l].account)) => "lockout" \in login[l].raced

\* A login is refused for its account or its address only after as many
\* rejections within the window as the limit says: successes, refusals and
\* logins of others never count.
RefusedForCause ==
  \A l \in Attempt :
    (login[l].at = "check" /\ OverBudget(l)) => \E k \in Keys(l) : Len(rejected[k]) >= Limit(k)

\* Refusals end: once no password is rejected any more, no login is refused,
\* however often it is tried while it is.
AdmittedAgain ==
  <>[][\A l \in Attempt : ~Reject(l)]_vars =>
     <>[](\A l \in Attempt : login[l].at = "check" => ~Refused(l))
=============================================================================
