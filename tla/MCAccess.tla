----------------------------- MODULE MCAccess -----------------------------
(***************************************************************************)
(* Small instances of Sessions and LoginThrottle, which meet only in that  *)
(* a login the throttle refuses never reads its user.  A behaviour is one  *)
(* of: sessions with one operator, statements of two operators without     *)
(* sessions, or the throttle.                                              *)
(***************************************************************************)
EXTENDS Sessions

CONSTANTS o1, o2, Name, Source, Attempt, AccountLimit, SourceLimit, Window,
          MaxKeys, MaxFailed, Lockout, MaxVerifications

VARIABLES failures, attempts, login, rejected, unraced, part

throttle == <<failures, attempts, login, rejected, unraced>>
allvars == <<vars, throttle, part>>

Throttle == INSTANCE LoginThrottle WITH
  Account <- Name, Known <- Account

Part == {"sessions", "statements", "throttle"}

MCInit == Init /\ Throttle!Init /\ part \in Part

MCNext ==
  \/ /\ part = "sessions" /\ Next /\ job'[o2] = Idle
     /\ UNCHANGED <<throttle, part>>
  \/ /\ part = "statements" /\ Next /\ drawn' = {}
     /\ UNCHANGED <<throttle, part>>
  \/ /\ part = "throttle" /\ Throttle!Next
     /\ UNCHANGED <<vars, part>>

MCFairness ==
  /\ WF_allvars(part = "sessions" /\ Tick /\ UNCHANGED <<throttle, part>>)
  /\ WF_allvars(part = "sessions" /\ Cleanup /\ UNCHANGED <<throttle, part>>)
  /\ WF_allvars(part = "throttle" /\ Throttle!Tick /\ UNCHANGED <<vars, part>>)

MCSpec == MCInit /\ [][MCNext]_allvars /\ MCFairness

-----------------------------------------------------------------------------
\* Neither a session whose other half is gone nor one that nobody uses stays
\* for ever, and refusals end once no password is rejected any more (OrphansGo
\* and AbandonedExpire of Sessions, AdmittedAgain of LoginThrottle).
AccessRecovers == OrphansGo /\ AbandonedExpire /\ Throttle!AdmittedAgain

\* Without races no account or address is answered more rejections within a
\* window than its limit, a locked account verifies nothing but what had passed
\* the check before, and a login is refused only after as many rejections as the
\* limit says (Budget, LockoutHolds and RefusedForCause of LoginThrottle).
ThrottleExact ==
  Throttle!TypeOK /\ Throttle!Budget /\ Throttle!LockoutHolds /\ Throttle!RefusedForCause
=============================================================================
