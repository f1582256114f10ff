---------------------------- MODULE MCOperations ----------------------------
(***************************************************************************)
(* Small instances of what surrounds the data while it is served: the      *)
(* server's shutdown, backup and restore, and the storage hosts with the   *)
(* migration of a partition.  A behaviour is one of the three.             *)
(***************************************************************************)
EXTENDS Shutdown, Backup

CONSTANTS replica_factor, host_timeout, min_healthy_nodes, Localhost, MaxFaults, MaxChanges,
          n1, n2, n3

VARIABLES up, sender, sent, hosts, space, ring, alloc, status, plan, mig,
          faults, changes, astray, part

clusterVars == <<up, sender, sent, hosts, space, ring, alloc, status, plan, mig, faults, changes, astray>>
allvars == <<admission, vars, clusterVars, part>>

C == INSTANCE Cluster WITH Prefer <- <<n1, n2, n3>>

\* The hosts register and one change of the ring meets one fault ("cluster"); or
\* registered hosts see three changes and two faults, while no heartbeat is late
\* ("moves").
MCInit ==
  /\ ShutdownInit /\ Init
  /\ \/ part \in {"shutdown", "backup"} /\ C!Init
     \/ part = "cluster" /\ C!InitWith({}, MaxFaults - 1, MaxChanges - 1)
     \/ part = "moves" /\ \E S \in SUBSET C!Nodes : C!InitWith(S, 0, 0)

OfCluster(A) == part \in {"cluster", "moves"} /\ A /\ UNCHANGED <<admission, vars, part>>
OfShutdown(A) == part = "shutdown" /\ A /\ UNCHANGED <<vars, clusterVars, part>>

MCNext ==
  \/ OfShutdown(ShutdownNext)
  \/ part = "backup" /\ Next /\ UNCHANGED <<admission, clusterVars, part>>
  \/ OfCluster(C!Topology)
  \/ part = "cluster" /\ OfCluster(C!Registry)

MCFairness ==
  /\ WF_allvars(OfShutdown(Launcher)) /\ WF_allvars(OfShutdown(Deadline)) /\ WF_allvars(OfCluster(C!Migrate))
  /\ WF_allvars(part = "cluster" /\ OfCluster(C!Tick)) /\ WF_allvars(part = "cluster" /\ OfCluster(C!check_and_recover))
  /\ \A n \in C!Nodes : /\ WF_allvars(part = "cluster" /\ OfCluster(C!Connect(n)))
                        /\ WF_allvars(part = "cluster" /\ OfCluster(C!Heartbeat(n)))

MCSpec == MCInit /\ [][MCNext]_allvars /\ MCFairness

-----------------------------------------------------------------------------
\* Owners of a partition go astray only where a migration failed, and after the
\* others the metadata lists the leader (OwnersKnown and LeaderListed of Cluster).
MovesSafe == C!TypeOK /\ C!OwnersKnown /\ C!LeaderListed

\* A shutdown ends, the registry follows the hosts that run, and a rebalance
\* ends (ShutdownEnds of Shutdown, RegistryFollows and RebalanceEnds of
\* Cluster).
OperationsEnd == ShutdownEnds /\ C!RebalanceEnds /\ (part = "cluster" => C!RegistryFollows)
=============================================================================
