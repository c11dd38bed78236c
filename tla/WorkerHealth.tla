---------------------------- MODULE WorkerHealth ----------------------------
(***************************************************************************)
(* The watch the primary process keeps on the workers of the front end     *)
(* (src/util/workers-health-monitor.ts): workers say that they are alive,  *)
(* and when too few do, all are told to fail their health checks so that   *)
(* the node is replaced.  Workers freeze, die and are forked again with a  *)
(* new pid.  Heap dumps are left out.                                      *)
(*                                                                         *)
(* Ages take the place of timestamps; they are bounded by the periods they *)
(* are compared with.                                                      *)
(***************************************************************************)
EXTENDS Integers, FiniteSets

CONSTANTS
  Pid,            \* process ids
  None,           \* no timestamp
  WORKERS,        \* number of workers of the cluster
  THRESHOLD,      \* numberOfWorkersThreshold
  KEEP_ALIVE,     \* iAmAliveInervalMsec
  POLL,           \* pollIntervalMsecs
  STARTUP,        \* workerStartupTimeMsecs
  UNRESPONSIVE    \* workerUnresponsiveThresholdMsecs

ASSUME PeriodsAssumption ==
  /\ {WORKERS, THRESHOLD, KEEP_ALIVE, POLL, STARTUP, UNRESPONSIVE} \subseteq Nat \ {0}
  /\ KEEP_ALIVE < POLL /\ POLL < UNRESPONSIVE /\ THRESHOLD < WORKERS
  /\ IsFiniteSet(Pid) /\ None \notin Nat

VARIABLES
  proc,       \* per pid: unborn, up, frozen or dead
  pinged,     \* per pid: time since it last said that it is alive
  registered, \* pids whose messages the primary listens to; none ever leaves
  live,       \* liveWorkers: per pid the age of the last message, or None
  ready,      \* workersReadyAt: time since it was set, or None
  polled,     \* time since the last poll
  stopped,    \* pids that fail their health checks
  answered    \* history: pids at work without a break since the primary heard of them

healthVars == <<proc, pinged, registered, live, ready, polled, stopped, answered>>

InCluster == {p \in Pid : proc[p] \notin {"unborn", "dead"}}
Up == {p \in Pid : proc[p] = "up"}

HealthInit ==
  /\ \E S \in SUBSET Pid :
       /\ Cardinality(S) = WORKERS
       /\ proc = [p \in Pid |-> IF p \in S THEN "up" ELSE "unborn"]
  /\ pinged = [p \in Pid |-> 0]
  /\ registered = {} /\ live = [p \in Pid |-> None]
  /\ ready = None /\ polled = 0
  /\ stopped = {} /\ answered = {}

-----------------------------------------------------------------------------
(* A worker. *)

\* The primary hears of it if it has registered the worker before.
SendAlive(p) ==
  /\ proc[p] = "up"
  /\ pinged' = [pinged EXCEPT ![p] = 0]
  /\ IF p \in registered
     THEN /\ live' = [live EXCEPT ![p] = 0]
          /\ answered' = answered \cup {p}
     ELSE UNCHANGED <<live, answered>>
  /\ UNCHANGED <<proc, registered, ready, polled, stopped>>

Freeze(p) ==
  /\ proc[p] = "up"
  /\ proc' = [proc EXCEPT ![p] = "frozen"] /\ pinged' = [pinged EXCEPT ![p] = 0]
  /\ answered' = answered \ {p}
  /\ UNCHANGED <<registered, live, ready, polled, stopped>>

Resume(p) ==
  /\ proc[p] = "frozen"
  /\ proc' = [proc EXCEPT ![p] = "up"]
  /\ UNCHANGED <<pinged, registered, live, ready, polled, stopped, answered>>

Die(p) ==
  /\ p \in InCluster
  /\ proc' = [proc EXCEPT ![p] = "dead"] /\ pinged' = [pinged EXCEPT ![p] = 0]
  /\ answered' = answered \ {p}
  /\ UNCHANGED <<registered, live, ready, polled, stopped>>

\* throng forks another worker, or does not ("for some reason that doesn't happen").
Fork(p) ==
  /\ proc[p] = "unborn" /\ Cardinality(InCluster) < WORKERS
  /\ proc' = [proc EXCEPT ![p] = "up"]
  /\ UNCHANGED <<pinged, registered, live, ready, polled, stopped, answered>>

-----------------------------------------------------------------------------
(* The primary process: the steps of one poll, in this order. *)

\* Mutant: the workers of the first poll are the workers.
RegisterFirstWorkers == IF registered = {} THEN InCluster ELSE registered

RegisterNewWorkers == registered \cup InCluster

WorkersReady(at) == at # None /\ at > STARTUP

\* Ready after the startup time, once there were more workers than the threshold.
SetupWorkersReadyAt(known) ==
  IF ready = None /\ Cardinality(known) > THRESHOLD THEN 0 ELSE ready

\* Mutants: dead between two messages; never dead.
Impatient(age) == age > KEEP_ALIVE - 1
NeverUnresponsive(age) == FALSE

Unresponsive(age) == age > UNRESPONSIVE

RemoveDeadWorkers(at) ==
  [p \in Pid |-> IF WorkersReady(at) /\ live[p] # None /\ Unresponsive(live[p])
                 THEN None ELSE live[p]]

SendShutdown(at, alive) ==
  IF WorkersReady(at) /\ Cardinality({p \in Pid : alive[p] # None}) < THRESHOLD
  THEN stopped \cup InCluster ELSE stopped

Poll ==
  LET known == RegisterNewWorkers
      at == SetupWorkersReadyAt(known)
      alive == RemoveDeadWorkers(at)
  IN /\ registered' = known
     /\ ready' = at
     /\ live' = alive
     /\ stopped' = SendShutdown(at, alive)
     /\ polled' = 0
     /\ UNCHANGED <<proc, pinged, answered>>

-----------------------------------------------------------------------------
Aged(n, bound) == IF n = None \/ n > bound THEN n ELSE n + 1

\* Timers are on time in processes that are not frozen.
Tick ==
  /\ polled < POLL
  /\ \A p \in Up : pinged[p] < KEEP_ALIVE
  /\ pinged' = [p \in Pid |-> IF p \in Up THEN pinged[p] + 1 ELSE pinged[p]]
  /\ live' = [p \in Pid |-> Aged(live[p], UNRESPONSIVE)]
  /\ ready' = Aged(ready, STARTUP)
  /\ polled' = polled + 1
  /\ UNCHANGED <<proc, registered, stopped, answered>>

Environment(p) == Freeze(p) \/ Resume(p) \/ Die(p) \/ Fork(p)

HealthNext == (\E p \in Pid : SendAlive(p) \/ Environment(p)) \/ Poll \/ Tick

HealthSpec == HealthInit /\ [][HealthNext]_healthVars

\* Time passes: the poll comes, workers that are up send their messages.
FairHealthSpec ==
  /\ HealthSpec /\ WF_healthVars(Tick) /\ WF_healthVars(polled = POLL /\ Poll)
  /\ \A p \in Pid : WF_healthVars(pinged[p] = KEEP_ALIVE /\ SendAlive(p))

-----------------------------------------------------------------------------
(* Properties. *)

Ages(bound) == 0..(bound + 1) \cup {None}

\* The type invariant.
HealthTypeOK ==
  /\ proc \in [Pid -> {"unborn", "up", "frozen", "dead"}]
  /\ pinged \in [Pid -> 0..KEEP_ALIVE]
  /\ registered \subseteq Pid
  /\ live \in [Pid -> Ages(UNRESPONSIVE)]
  /\ ready \in Ages(STARTUP) /\ polled \in 0..POLL
  /\ stopped \subseteq Pid /\ answered \subseteq Up

\* Workers are told to fail their health checks only when there really are too few
\* (workers-health-monitor.ts:230): fewer than the threshold have been at work without a
\* break since the primary last heard of them.
ShutdownOnlyWhenFew ==
  [][stopped' # stopped => Cardinality(answered) < THRESHOLD]_healthVars

\* Workers that are forked again are heard like the first (workers-health-monitor.ts:287).
IsHeard(p) == proc[p] = "up" ~> (live[p] # None \/ proc[p] # "up")

\* The node does not stay as it is when workers stay away (main.ts:19): whoever comes up is
\* heard, and if in the end fewer than the threshold are ever up again, all that are left
\* are told to fail their health checks, provided that there once were enough of them.
NodeIsReplaced ==
  /\ \A p \in Pid : IsHeard(p)
  /\ <>(ready # None) /\ <>[](Cardinality(Up) < THRESHOLD) => <>[](InCluster \subseteq stopped)
=============================================================================
