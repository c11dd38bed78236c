---------------------------- MODULE Deduplicator ----------------------------
(***************************************************************************)
(* src/sync/deduplicator.ts: the Redis "in progress" flag that keeps two   *)
(* workers from running the backfill of one subscription at a time.        *)
(*                                                                         *)
(* A runner is one call of executeWithDeduplication for one job key.  Each *)
(* action is the code between two awaits, so other runners' steps come     *)
(* between the read of the flag and the write that depends on it.  Time is *)
(* counted in ticks; a flag's age stands for Date.now() - flag.timestamp.  *)
(***************************************************************************)
EXTENDS Naturals, FiniteSets

CONSTANTS
  Runner,      \* calls of executeWithDeduplication for the same job key
  UPDATE,      \* jobRunnerFlagUpdateTimeoutMsecs, in ticks
  MAX_SLEEP,   \* bound: how long a sleep of 2 * UPDATE may last in the model
  NoRunner     \* no flag in Redis, or nobody watched

STALE == 10 * UPDATE   \* age at which hasInProgressFlag ignores a flag
WATCH == 2 * UPDATE    \* sleep between the two reads of isJobRunnerLive

ASSUME UpdateAssumption == UPDATE \in Nat \ {0}
ASSUME SleepAssumption  == MAX_SLEEP \in WATCH..(STALE - 1)
ASSUME NoRunnerAssumption == NoRunner \notin Runner

VARIABLES
  pc,      \* where each runner is
  flag,    \* the flag in Redis: the runner that wrote it and its age
  timer,   \* ticks since the runner's setInterval last fired
  watch,   \* isJobRunnerLive: watched runner, age of the first read, ticks slept
  raced,   \* history: two runners were between the check and the set at once
  late     \* history: the flag of a live runner became stale

vars == <<pc, flag, timer, watch, raced, late>>

PC == {"idle", "starting", "found", "sleeping", "running", "finishing",
       "ok", "other", "notSure", "threw", "crashed"}

Flag == [runner : Runner \cup {NoRunner}, age : 0..STALE]
NoFlag == [runner |-> NoRunner, age |-> 0]
FreshFlag(r) == [runner |-> r, age |-> 0]

\* wasRunning is history: the watched runner was doing its job at the first read.
Watch == [runner : Runner \cup {NoRunner}, age : 0..STALE,
          slept : 0..MAX_SLEEP, wasRunning : BOOLEAN]
NoWatch == [runner |-> NoRunner, age |-> 0, slept |-> 0, wasRunning |-> FALSE]

Live == {r \in Runner : pc[r] \in {"running", "finishing"}}
Goto(r, label) == pc' = [pc EXCEPT ![r] = label]

TypeOK ==
  /\ pc \in [Runner -> PC]
  /\ flag \in Flag
  /\ timer \in [Runner -> 0..UPDATE]
  /\ watch \in [Runner -> Watch]
  /\ raced \in BOOLEAN
  /\ late \in BOOLEAN

Init ==
  /\ pc = [r \in Runner |-> "idle"]
  /\ flag = NoFlag
  /\ timer = [r \in Runner |-> 0]
  /\ watch = [r \in Runner |-> NoWatch]
  /\ raced = FALSE
  /\ late = FALSE

-----------------------------------------------------------------------------
(* The check at the top of executeWithDeduplication. *)

\* Mutants: the flag never invalidated, and invalidated after one period.
FlagNeverStale == flag.runner # NoRunner
FlagStaleAfterOnePeriod == flag.runner # NoRunner /\ flag.age < UPDATE

HasInProgressFlag == flag.runner # NoRunner /\ flag.age < STALE

\* No usable flag: the next step is setInProgressFlag.
CheckFlagAbsent(r) ==
  /\ pc[r] = "idle"
  /\ ~HasInProgressFlag
  /\ Goto(r, "starting")
  /\ raced' = (raced \/ \E s \in Runner \ {r} : pc[s] = "starting")
  /\ UNCHANGED <<flag, timer, watch, late>>

\* A usable flag: isJobRunnerLive will watch the runner it names.
CheckFlagPresent(r) ==
  /\ pc[r] = "idle"
  /\ HasInProgressFlag
  /\ Goto(r, "found")
  /\ watch' = [watch EXCEPT ![r] = [NoWatch EXCEPT !.runner = flag.runner]]
  /\ UNCHANGED <<flag, timer, raced, late>>

(* isJobRunnerLive: two reads of the flag with a sleep between them. *)

WatchFirstRead(r) ==
  /\ pc[r] = "found"
  /\ IF flag.runner # watch[r].runner
     THEN Goto(r, "notSure") /\ watch' = [watch EXCEPT ![r] = NoWatch]
     ELSE /\ Goto(r, "sleeping")
          /\ watch' = [watch EXCEPT ![r].age = flag.age,
                         ![r].wasRunning = (pc[flag.runner] = "running")]
  /\ UNCHANGED <<flag, timer, raced, late>>

\* Mutant: flagOld.timestamp <= flagNew.timestamp.
WatchedHasFlag(r) ==
  /\ flag.runner = watch[r].runner
  /\ watch[r].age >= flag.age

\* flagOld.timestamp < flagNew.timestamp, seen as ages at the same moment.
WatchedIsLive(r) ==
  /\ flag.runner = watch[r].runner
  /\ watch[r].age > flag.age

WatchSecondRead(r) ==
  /\ pc[r] = "sleeping"
  /\ watch[r].slept >= WATCH
  /\ IF WatchedIsLive(r)
     THEN Goto(r, "other") /\ UNCHANGED watch
     ELSE Goto(r, "notSure") /\ watch' = [watch EXCEPT ![r] = NoWatch]
  /\ UNCHANGED <<flag, timer, raced, late>>

\* processInstallation sends the same message again after E_NOT_SURE; the runner
\* has written no flag, so its identity is as good as the new uuid.
TryAgainLater(r) ==
  /\ pc[r] = "notSure"
  /\ Goto(r, "idle")
  /\ UNCHANGED <<flag, timer, watch, raced, late>>

-----------------------------------------------------------------------------
(* The job and its flag. *)

SetInProgressFlag(r) ==
  /\ pc[r] = "starting"
  /\ flag' = FreshFlag(r)
  /\ timer' = [timer EXCEPT ![r] = 0]
  /\ Goto(r, "running")
  /\ UNCHANGED <<watch, raced, late>>

\* Mutant: no clearInterval.
RefreshFlagForever(r) ==
  /\ pc[r] \in {"running", "finishing", "ok"}
  /\ timer[r] = UPDATE
  /\ timer' = [timer EXCEPT ![r] = 0]
  /\ flag' \in {FreshFlag(r), flag}
  /\ UNCHANGED <<pc, watch, raced, late>>

\* The setInterval callback; a failed write is only logged.
RefreshFlag(r) ==
  /\ pc[r] = "running"
  /\ timer[r] = UPDATE
  /\ timer' = [timer EXCEPT ![r] = 0]
  /\ flag' \in {FreshFlag(r), flag}
  /\ UNCHANGED <<pc, watch, raced, late>>

\* The job resolved or rejected: clearInterval, then the unlink is on its way.
JobEnds(r) ==
  /\ pc[r] = "running"
  /\ Goto(r, "finishing")
  /\ UNCHANGED <<flag, timer, watch, raced, late>>

\* The unlink does not look at who wrote the flag.  The result is E_OK, or the
\* job's own exception.
RemoveInProgressFlag(r) ==
  /\ pc[r] = "finishing"
  /\ flag' = NoFlag
  /\ \E result \in {"ok", "threw"} : Goto(r, result)
  /\ UNCHANGED <<timer, watch, raced, late>>

-----------------------------------------------------------------------------
(* What goes wrong around the runners. *)

\* A Redis command rejects and executeWithDeduplication rejects with it, although
\* a write may have reached Redis.
RedisFails(r) ==
  /\ \/ pc[r] \in {"idle", "found"} /\ UNCHANGED flag
     \/ pc[r] = "sleeping" /\ watch[r].slept >= WATCH /\ UNCHANGED flag
     \/ pc[r] = "starting" /\ flag' \in {flag, FreshFlag(r)}
     \/ pc[r] = "finishing" /\ flag' \in {flag, NoFlag}
  /\ Goto(r, "threw")
  /\ UNCHANGED <<timer, watch, raced, late>>

\* The worker process dies; nothing of it is left but the flag.
Crash(r) ==
  /\ pc[r] \in {"idle", "found", "sleeping", "starting", "running", "finishing"}
  /\ Goto(r, "crashed")
  /\ UNCHANGED <<flag, timer, watch, raced, late>>

\* Redis drops a flag nobody has written for REDIS_CLEANUP_TIMEOUT (24 hours),
\* long after it became stale.
ExpireFlag ==
  /\ flag.runner # NoRunner
  /\ flag.age = STALE
  /\ flag' = NoFlag
  /\ UNCHANGED <<pc, timer, watch, raced, late>>

\* Above STALE all ages are alike.
Older(age) == IF age < STALE THEN age + 1 ELSE age

Tick ==
  /\ \A r \in Runner : pc[r] = "sleeping" => watch[r].slept < MAX_SLEEP
  /\ flag' = [flag EXCEPT !.age = IF flag.runner = NoRunner THEN 0 ELSE Older(@)]
  /\ timer' = [r \in Runner |->
       IF pc[r] = "running" /\ timer[r] < UPDATE THEN timer[r] + 1 ELSE timer[r]]
  /\ watch' = [r \in Runner |->
       IF pc[r] = "sleeping"
       THEN [watch[r] EXCEPT !.age = Older(@), !.slept = @ + 1]
       ELSE watch[r]]
  /\ late' = (late \/ (flag.runner \in Live /\ flag'.age = STALE))
  /\ UNCHANGED <<pc, raced>>

-----------------------------------------------------------------------------
\* What the code itself does next in a call.
CallStep(r) ==
  \/ CheckFlagAbsent(r)
  \/ CheckFlagPresent(r)
  \/ WatchFirstRead(r)
  \/ WatchSecondRead(r)
  \/ TryAgainLater(r)
  \/ SetInProgressFlag(r)
  \/ JobEnds(r)
  \/ RemoveInProgressFlag(r)

Next ==
  \/ \E r \in Runner : CallStep(r) \/ RefreshFlag(r) \/ RedisFails(r) \/ Crash(r)
  \/ ExpireFlag
  \/ Tick

Spec == Init /\ [][Next]_vars

\* Calls make progress (awaits resolve, jobs end, messages are delivered again)
\* and time passes.  Nothing is assumed of refreshes, failures and crashes.
Fairness == WF_vars(Tick) /\ \A r \in Runner : WF_vars(CallStep(r))

FairSpec == Spec /\ Fairness

-----------------------------------------------------------------------------
(* Properties. *)

Running == {r \in Runner : pc[r] = "running"}

\* The part that holds of "Executes the job if and only if it can determine that there's
\* no other worker running the job" (deduplicator.ts:165).  Two jobs run together only after two runners were
\* between hasInProgressFlag and setInProgressFlag at the same time, or after a
\* live runner left its flag unwritten for ten update periods.
ExclusiveUnlessRacedOrLate ==
  raced \/ late \/ \A r, s \in Live : r = s

\* A flag in Redis always belongs to a runner that is doing its job, is about to
\* unlink it, or ended without unlinking it (the process died or Redis failed):
\* a call that returned normally leaves nothing behind to block the next job.
NoOrphanFlag ==
  flag.runner # NoRunner =>
    pc[flag.runner] \in {"running", "finishing", "threw", "crashed"}

\* E_OTHER_WORKER_DOING_THIS_JOB lets processInstallation drop the message, so it
\* must never be said of a runner that had already stopped working when the
\* watch began (isJobRunnerLive: "true if and only if can 100% tell").
NeverReportsAStoppedRunner ==
  \A r \in Runner : pc[r] = "other" => watch[r].wasRunning

\* The flag of a runner that died, or could not unlink, delays later calls but
\* does not block them forever: a call that keeps trying is answered.
Answered(r) == pc[r] \in {"ok", "other", "threw", "crashed"}
EveryCallIsAnswered == \A r \in Runner : pc[r] = "idle" ~> Answered(r)

=============================================================================
