-------------------------- MODULE BackfillJobProofs -------------------------
(***************************************************************************)
(* Deductive proofs about the parts of a backfill job: that it runs alone  *)
(* (Deduplicator), which tasks it takes (ScheduledTasks), and what goes to *)
(* Jira of the pages it has fetched (JiraPayloads).                        *)
(***************************************************************************)
EXTENDS Deduplicator, ScheduledTasks, JiraPayloads, FiniteSetTheorems, WellFoundedInduction, TLAPS

-----------------------------------------------------------------------------
\* The state of every call stays within its type: in particular ages and sleeps
\* never leave their bounds.
LEMMA InitialValues ==
  /\ NoFlag \in Flag
  /\ NoWatch \in Watch
  /\ \A r \in Runner : FreshFlag(r) \in Flag
BY UpdateAssumption, SleepAssumption
DEF Flag, Watch, NoFlag, NoWatch, FreshFlag, STALE, WATCH

LEMMA TypeInit == Init => TypeOK
<1> SUFFICES ASSUME Init PROVE TypeOK
  OBVIOUS
<1>1. pc \in [Runner -> PC] BY DEF Init, PC
<1>2. flag \in Flag /\ watch \in [Runner -> Watch] BY InitialValues DEF Init
<1>3. timer \in [Runner -> 0..UPDATE] BY UpdateAssumption DEF Init
<1>4. raced \in BOOLEAN /\ late \in BOOLEAN BY DEF Init
<1> QED BY <1>1, <1>2, <1>3, <1>4 DEF TypeOK

LEMMA OlderType == ASSUME NEW age \in 0..STALE PROVE Older(age) \in 0..STALE
BY UpdateAssumption DEF Older, STALE

LEMMA TypeStep == TypeOK /\ [Next]_vars => TypeOK'
<1> SUFFICES ASSUME TypeOK, [Next]_vars PROVE TypeOK'
  OBVIOUS
<1> USE DEF TypeOK
<1> USE InitialValues, UpdateAssumption DEF PC
<1>1. ASSUME NEW r \in Runner, CallStep(r) PROVE TypeOK'
  <2>1. CASE CheckFlagAbsent(r) BY <2>1 DEF CheckFlagAbsent, Goto
  <2>2. CASE CheckFlagPresent(r)
    <3>1. [NoWatch EXCEPT !.runner = flag.runner] \in Watch BY DEF Watch, Flag
    <3> QED BY <2>2, <3>1 DEF CheckFlagPresent, Goto
  <2>3. CASE WatchFirstRead(r)
    <3>1. [watch[r] EXCEPT !.age = flag.age,
                           !.wasRunning = (pc[flag.runner] = "running")] \in Watch
      BY DEF Watch, Flag
    <3>2. watch' \in [Runner -> Watch] BY <2>3, <3>1 DEF WatchFirstRead
    <3> QED BY <2>3, <3>2 DEF WatchFirstRead, Goto
  <2>4. CASE WatchSecondRead(r) BY <2>4 DEF WatchSecondRead, Goto
  <2>5. CASE TryAgainLater(r) BY <2>5 DEF TryAgainLater, Goto
  <2>6. CASE SetInProgressFlag(r) BY <2>6 DEF SetInProgressFlag, Goto
  <2>7. CASE JobEnds(r) BY <2>7 DEF JobEnds, Goto
  <2>8. CASE RemoveInProgressFlag(r)
    BY <2>8 DEF RemoveInProgressFlag, Goto
  <2> QED BY <1>1, <2>1, <2>2, <2>3, <2>4, <2>5, <2>6, <2>7, <2>8 DEF CallStep
<1>2. ASSUME NEW r \in Runner, RefreshFlag(r) PROVE TypeOK'
  BY <1>2 DEF RefreshFlag
<1>3. ASSUME NEW r \in Runner, RedisFails(r) PROVE TypeOK'
  BY <1>3 DEF RedisFails, Goto
<1>4. ASSUME NEW r \in Runner, Crash(r) PROVE TypeOK'
  BY <1>4 DEF Crash, Goto
<1>5. CASE ExpireFlag BY <1>5 DEF ExpireFlag
<1>6. CASE Tick
  <2>1. flag' \in Flag
    <3>1. Older(flag.age) \in 0..STALE BY OlderType DEF Flag
    <3>2. 0 \in 0..STALE BY DEF STALE
    <3>3. flag' = [flag EXCEPT !.age = IF flag.runner = NoRunner THEN 0
                                       ELSE Older(flag.age)]
      BY <1>6 DEF Tick
    <3> QED BY <3>1, <3>2, <3>3 DEF Flag
  <2>2. timer' \in [Runner -> 0..UPDATE]
    <3>1. ASSUME NEW r \in Runner, timer[r] < UPDATE PROVE timer[r] + 1 \in 0..UPDATE
      BY <3>1
    <3> QED BY <1>6, <3>1 DEF Tick
  <2>3. watch' \in [Runner -> Watch]
    <3>1. ASSUME NEW r \in Runner, pc[r] = "sleeping"
          PROVE  [watch[r] EXCEPT !.age = Older(@), !.slept = @ + 1] \in Watch
      <4>1. Older(watch[r].age) \in 0..STALE BY OlderType DEF Watch
      <4>2. watch[r].slept < MAX_SLEEP BY <1>6, <3>1 DEF Tick
      <4>3. watch[r].slept + 1 \in 0..MAX_SLEEP
        BY <4>2, SleepAssumption DEF Watch, STALE, WATCH
      <4> QED BY <4>1, <4>3 DEF Watch
    <3> QED BY <1>6, <3>1 DEF Tick
  <2>4. pc' = pc /\ raced' = raced /\ late' \in BOOLEAN BY <1>6 DEF Tick
  <2> QED BY <2>1, <2>2, <2>3, <2>4
<1>7. CASE UNCHANGED vars BY <1>7 DEF vars
<1> QED BY <1>1, <1>2, <1>3, <1>4, <1>5, <1>6, <1>7 DEF Next

THEOREM TypeCorrect == Spec => []TypeOK
BY TypeInit, TypeStep, PTL DEF Spec

-----------------------------------------------------------------------------
\* At most one job runs for a subscription unless two checks overlapped or a
\* live runner's flag became stale.  The invariant says more: while neither has
\* happened, whoever is past the check is alone there, and its flag is fresh.
Claimed == {r \in Runner : pc[r] \in {"starting", "running", "finishing"}}

AloneInv ==
  (~raced /\ ~late) =>
    /\ \A r, s \in Claimed : r = s
    /\ \A r \in Live : flag.runner = r /\ flag.age < STALE

LEMMA AloneInit == Init => AloneInv
BY DEF Init, AloneInv, Claimed, Live

LEMMA AloneStep == TypeOK /\ AloneInv /\ [Next]_vars => AloneInv'
<1> SUFFICES ASSUME TypeOK, AloneInv, [Next]_vars, ~raced', ~late' PROVE AloneInv'
  BY DEF AloneInv
<1> USE UpdateAssumption, NoRunnerAssumption
    DEF TypeOK, AloneInv, Claimed, Live, STALE, Flag
<1>1. ASSUME NEW r \in Runner, CallStep(r) PROVE AloneInv'
  <2>1. CASE CheckFlagAbsent(r)
    <3>1. ~raced /\ ~ \E s \in Runner \ {r} : pc[s] = "starting"
      BY <2>1, Zenon DEF CheckFlagAbsent
    <3>2. ~late /\ flag' = flag /\ pc' = [pc EXCEPT ![r] = "starting"]
      BY <2>1 DEF CheckFlagAbsent, Goto
    <3>3. Live = {} BY <2>1, <3>1, <3>2 DEF CheckFlagAbsent, HasInProgressFlag
    <3> QED BY <3>1, <3>2, <3>3 DEF PC
  <2>2. CASE CheckFlagPresent(r) BY <2>2 DEF CheckFlagPresent, Goto, PC
  <2>3. CASE WatchFirstRead(r) BY <2>3 DEF WatchFirstRead, Goto, PC
  <2>4. CASE WatchSecondRead(r) BY <2>4 DEF WatchSecondRead, Goto, PC
  <2>5. CASE TryAgainLater(r) BY <2>5 DEF TryAgainLater, Goto, PC
  <2>6. CASE SetInProgressFlag(r)
    BY <2>6 DEF SetInProgressFlag, Goto, FreshFlag, PC
  <2>7. CASE JobEnds(r) BY <2>7 DEF JobEnds, Goto, PC
  <2>8. CASE RemoveInProgressFlag(r)
    BY <2>8 DEF RemoveInProgressFlag, Goto, NoFlag, PC
  <2> QED BY <1>1, <2>1, <2>2, <2>3, <2>4, <2>5, <2>6, <2>7, <2>8 DEF CallStep
<1>2. ASSUME NEW r \in Runner, RefreshFlag(r) PROVE AloneInv'
  BY <1>2 DEF RefreshFlag, FreshFlag
<1>3. ASSUME NEW r \in Runner, RedisFails(r) PROVE AloneInv'
  BY <1>3 DEF RedisFails, Goto, FreshFlag, NoFlag, PC
<1>4. ASSUME NEW r \in Runner, Crash(r) PROVE AloneInv'
  BY <1>4 DEF Crash, Goto, PC
<1>5. CASE ExpireFlag BY <1>5 DEF ExpireFlag, NoFlag
<1>6. CASE Tick
  <2>1. ~raced /\ ~late /\ pc' = pc BY <1>6 DEF Tick
  <2>2. ASSUME NEW r \in Live' PROVE flag'.runner = r /\ flag'.age < STALE
    <3>1. r \in Live /\ flag.runner = r BY <2>1, <2>2
    <3>2. flag'.runner = r BY <1>6, <3>1 DEF Tick
    <3>3. flag'.age # STALE BY <1>6, <2>2, <3>1 DEF Tick
    <3>4. flag'.age \in 0..STALE BY <1>6, OlderType DEF Tick
    <3> QED BY <3>2, <3>3, <3>4
  <2> QED BY <2>1, <2>2
<1>7. CASE UNCHANGED vars BY <1>7 DEF vars
<1> QED BY <1>1, <1>2, <1>3, <1>4, <1>5, <1>6, <1>7 DEF Next

THEOREM ExclusionUnlessRacedOrLate == Spec => []ExclusiveUnlessRacedOrLate
<1>1. TypeOK /\ AloneInv => ExclusiveUnlessRacedOrLate
  BY DEF TypeOK, AloneInv, ExclusiveUnlessRacedOrLate, Claimed, Live
<1> QED BY <1>1, TypeCorrect, AloneInit, AloneStep, PTL DEF Spec

-----------------------------------------------------------------------------
\* A flag in Redis belongs to a runner that will unlink it, or could not.
LEMMA OrphanStep ==
  TypeOK /\ NoOrphanFlag /\ [Next]_vars => NoOrphanFlag'
<1> SUFFICES ASSUME TypeOK, NoOrphanFlag, [Next]_vars PROVE NoOrphanFlag'
  OBVIOUS
<1> USE NoRunnerAssumption DEF TypeOK, NoOrphanFlag, Flag, PC
<1>1. ASSUME NEW r \in Runner, CallStep(r) PROVE NoOrphanFlag'
  <2>1. CASE CheckFlagAbsent(r) BY <2>1 DEF CheckFlagAbsent, Goto
  <2>2. CASE CheckFlagPresent(r) BY <2>2 DEF CheckFlagPresent, Goto
  <2>3. CASE WatchFirstRead(r) BY <2>3 DEF WatchFirstRead, Goto
  <2>4. CASE WatchSecondRead(r) BY <2>4 DEF WatchSecondRead, Goto
  <2>5. CASE TryAgainLater(r) BY <2>5 DEF TryAgainLater, Goto
  <2>6. CASE SetInProgressFlag(r) BY <2>6 DEF SetInProgressFlag, Goto, FreshFlag
  <2>7. CASE JobEnds(r) BY <2>7 DEF JobEnds, Goto
  <2>8. CASE RemoveInProgressFlag(r)
    BY <2>8 DEF RemoveInProgressFlag, Goto, NoFlag
  <2> QED BY <1>1, <2>1, <2>2, <2>3, <2>4, <2>5, <2>6, <2>7, <2>8 DEF CallStep
<1>2. ASSUME NEW r \in Runner, RefreshFlag(r) PROVE NoOrphanFlag'
  BY <1>2 DEF RefreshFlag, FreshFlag
<1>3. ASSUME NEW r \in Runner, RedisFails(r) PROVE NoOrphanFlag'
  BY <1>3 DEF RedisFails, Goto, FreshFlag, NoFlag
<1>4. ASSUME NEW r \in Runner, Crash(r) PROVE NoOrphanFlag'
  BY <1>4 DEF Crash, Goto
<1>5. CASE ExpireFlag BY <1>5 DEF ExpireFlag, NoFlag
<1>6. CASE Tick BY <1>6 DEF Tick
<1>7. CASE UNCHANGED vars BY <1>7 DEF vars
<1> QED BY <1>1, <1>2, <1>3, <1>4, <1>5, <1>6, <1>7 DEF Next

THEOREM NoOrphanFlagEver == Spec => []NoOrphanFlag
<1>1. Init => NoOrphanFlag BY DEF Init, NoOrphanFlag, NoFlag
<1> QED BY <1>1, TypeCorrect, OrphanStep, PTL DEF Spec

-----------------------------------------------------------------------------
\* E_OTHER_WORKER_DOING_THIS_JOB is never said of a runner that had stopped when
\* the watch began.  A stopped runner writes no flag any more, so the flag seen by
\* the second read is at least as old as the one seen by the first.
Stopped(r) == pc[r] \in {"finishing", "ok", "threw", "crashed"}

WatchOK(r) ==
  /\ pc[r] \in {"found", "sleeping"} => watch[r].runner \in Runner
  /\ pc[r] = "sleeping" /\ ~watch[r].wasRunning =>
       /\ Stopped(watch[r].runner)
       /\ flag.runner = watch[r].runner => flag.age >= watch[r].age
  /\ pc[r] = "other" => watch[r].wasRunning

WatchInv == \A r \in Runner : WatchOK(r)

LEMMA OlderMonotonic ==
  ASSUME NEW a \in 0..STALE, NEW b \in 0..STALE, a >= b
  PROVE  Older(a) >= Older(b)
BY UpdateAssumption DEF Older, STALE

\* A step of runner r leaves the other watchers' state in order when a stopped
\* runner stays stopped and its flag, if it survives, is the one it was.
LEMMA OthersWatch ==
  ASSUME TypeOK, WatchInv, NEW r \in Runner,
         \A s \in Runner \ {r} : pc'[s] = pc[s] /\ watch'[s] = watch[s],
         Stopped(r) => Stopped(r)',
         flag' \in {flag, NoFlag} \/ (flag'.runner = r /\ ~Stopped(r))
  PROVE  \A s \in Runner \ {r} : WatchOK(s)'
<1> SUFFICES ASSUME NEW s \in Runner \ {r} PROVE WatchOK(s)'
  OBVIOUS
<1>1. pc'[s] = pc[s] /\ watch'[s] = watch[s] /\ WatchOK(s)
  BY DEF WatchInv
<1>2. ASSUME pc[s] = "sleeping", ~watch[s].wasRunning
      PROVE  /\ Stopped(watch[s].runner)'
             /\ flag'.runner = watch[s].runner => flag'.age >= watch[s].age
  <2>1. /\ watch[s].runner \in Runner
        /\ Stopped(watch[s].runner)
        /\ flag.runner = watch[s].runner => flag.age >= watch[s].age
    BY <1>1, <1>2 DEF WatchOK
  <2>2. Stopped(watch[s].runner)' BY <2>1 DEF Stopped
  <2>3. flag'.runner = watch[s].runner => flag' = flag
    BY <2>1, NoRunnerAssumption DEF NoFlag
  <2> QED BY <2>1, <2>2, <2>3
<1> QED BY <1>1, <1>2 DEF WatchOK

LEMMA WatchStep ==
  TypeOK /\ NoOrphanFlag /\ WatchInv /\ [Next]_vars => WatchInv'
<1> SUFFICES ASSUME TypeOK, NoOrphanFlag, WatchInv, [Next]_vars PROVE WatchInv'
  OBVIOUS
<1>1. ASSUME NEW r \in Runner, CallStep(r) \/ RefreshFlag(r) \/ RedisFails(r) \/ Crash(r)
      PROVE  WatchInv'
  <2> USE DEF TypeOK, PC
  <2>1. \A s \in Runner \ {r} : pc'[s] = pc[s] /\ watch'[s] = watch[s]
    BY <1>1 DEF CallStep, RefreshFlag, RedisFails, Crash, CheckFlagAbsent,
       CheckFlagPresent, WatchFirstRead, WatchSecondRead, TryAgainLater,
       SetInProgressFlag, JobEnds, RemoveInProgressFlag, Goto
  <2>2. Stopped(r) => Stopped(r)'
    BY <1>1 DEF Stopped, CallStep, RefreshFlag, RedisFails, Crash, CheckFlagAbsent,
       CheckFlagPresent, WatchFirstRead, WatchSecondRead, TryAgainLater,
       SetInProgressFlag, JobEnds, RemoveInProgressFlag, Goto
  <2>3. flag' \in {flag, NoFlag} \/ (flag'.runner = r /\ ~Stopped(r))
    BY <1>1 DEF Stopped, CallStep, RefreshFlag, RedisFails, Crash, CheckFlagAbsent,
       CheckFlagPresent, WatchFirstRead, WatchSecondRead, TryAgainLater,
       SetInProgressFlag, JobEnds, RemoveInProgressFlag, FreshFlag
  <2>4. WatchOK(r)'
    <3> USE DEF WatchOK, Goto
    <3>1. CASE CheckFlagPresent(r)
      BY <3>1 DEF CheckFlagPresent, HasInProgressFlag, NoWatch, Flag
    <3>2. CASE WatchFirstRead(r)
      <4>1. watch[r].runner \in Runner BY <3>2 DEF WatchFirstRead, WatchInv
      <4>2. CASE flag.runner # watch[r].runner
        <5>1. pc' = [pc EXCEPT ![r] = "notSure"] BY <3>2, <4>2 DEF WatchFirstRead
        <5> QED BY <5>1
      <4>3. CASE flag.runner = watch[r].runner
        <5> DEFINE x == flag.runner
        <5>1. /\ pc' = [pc EXCEPT ![r] = "sleeping"]
              /\ flag' = flag
              /\ watch'[r] = [watch[r] EXCEPT !.age = flag.age,
                                               !.wasRunning = (pc[x] = "running")]
          BY <3>2, <4>3 DEF WatchFirstRead
        <5>2. watch'[r].runner = x /\ watch'[r].age = flag.age
          BY <4>3, <5>1 DEF Watch
        <5>3. watch'[r].wasRunning = (pc[x] = "running")
          BY <5>1 DEF Watch
        <5>4. x # r /\ pc[x] \in {"running", "finishing", "threw", "crashed"}
          BY <3>2, <4>1, <4>3, NoRunnerAssumption DEF NoOrphanFlag, WatchFirstRead
        <5>5. pc'[x] = pc[x] BY <4>1, <4>3, <5>1, <5>4
        <5>6. ASSUME ~watch'[r].wasRunning PROVE Stopped(x)'
          <6>1. pc[x] # "running" BY <5>3, <5>6, Zenon
          <6>2. pc'[x] \in {"finishing", "threw", "crashed"} BY <5>4, <5>5, <6>1
          <6> QED BY <5>1, <6>2 DEF Stopped
        <5>7. flag'.age >= watch'[r].age
          BY <5>1, <5>2, UpdateAssumption DEF Flag, STALE
        <5> QED BY <4>1, <4>3, <5>1, <5>2, <5>6, <5>7
      <4> QED BY <4>2, <4>3
    <3>3. CASE WatchSecondRead(r)
      <4>1. WatchOK(r) BY DEF WatchInv
      <4>2. WatchedIsLive(r) => watch[r].wasRunning
        BY <3>3, <4>1, UpdateAssumption
        DEF WatchSecondRead, WatchedIsLive, Flag, Watch, STALE
      <4> QED BY <3>3, <4>2 DEF WatchSecondRead
    <3>4. CASE RedisFails(r) BY <3>4 DEF RedisFails
    <3>5. CASE Crash(r) BY <3>5 DEF Crash
    <3>6. CASE RefreshFlag(r) BY <3>6 DEF RefreshFlag
    <3>7. CASE CheckFlagAbsent(r) BY <3>7 DEF CheckFlagAbsent
    <3>8. CASE TryAgainLater(r) BY <3>8 DEF TryAgainLater
    <3>9. CASE SetInProgressFlag(r) BY <3>9 DEF SetInProgressFlag
    <3>10. CASE JobEnds(r) BY <3>10 DEF JobEnds
    <3>11. CASE RemoveInProgressFlag(r) BY <3>11 DEF RemoveInProgressFlag
    <3> QED BY <1>1, <3>1, <3>2, <3>3, <3>4, <3>5, <3>6, <3>7, <3>8, <3>9, <3>10,
               <3>11 DEF CallStep
  <2> QED BY <2>1, <2>2, <2>3, <2>4, OthersWatch DEF WatchInv
<1>2. CASE ExpireFlag
  BY <1>2, NoRunnerAssumption DEF ExpireFlag, NoFlag, WatchInv, WatchOK, Stopped
<1>3. CASE Tick
  <2> SUFFICES ASSUME NEW r \in Runner PROVE WatchOK(r)'
    BY DEF WatchInv
  <2> USE DEF TypeOK
  <2>1. pc' = pc BY <1>3 DEF Tick
  <2>2. /\ watch'[r].runner = watch[r].runner
        /\ watch'[r].wasRunning = watch[r].wasRunning
    BY <1>3 DEF Tick, Watch
  <2>3. ASSUME pc[r] = "sleeping", ~watch[r].wasRunning,
               flag'.runner = watch[r].runner
        PROVE  flag'.age >= watch'[r].age
    <3>1. watch[r].runner \in Runner /\ flag.runner = watch[r].runner
      BY <1>3, <2>3 DEF Tick, WatchInv, WatchOK, Flag
    <3>2. flag.age >= watch[r].age BY <2>3, <3>1 DEF WatchInv, WatchOK
    <3>3. flag.age \in 0..STALE /\ watch[r].age \in 0..STALE BY DEF Flag, Watch
    <3>4. flag'.age = Older(flag.age)
      BY <1>3, <3>1, NoRunnerAssumption DEF Tick, Flag
    <3>5. watch'[r].age = Older(watch[r].age) BY <1>3, <2>3 DEF Tick, Watch
    <3> QED BY <3>2, <3>3, <3>4, <3>5, OlderMonotonic
  <2> QED BY <2>1, <2>2, <2>3 DEF WatchInv, WatchOK, Stopped
<1>4. CASE UNCHANGED vars BY <1>4 DEF vars, WatchInv, WatchOK, Stopped
<1> QED BY <1>1, <1>2, <1>3, <1>4 DEF Next

THEOREM StoppedRunnersNotReported == Spec => []NeverReportsAStoppedRunner
<1>1. Init => WatchInv BY DEF Init, WatchInv, WatchOK
<1>2. WatchInv => NeverReportsAStoppedRunner
  BY DEF WatchInv, WatchOK, NeverReportsAStoppedRunner
<1> QED BY <1>1, <1>2, TypeCorrect, NoOrphanFlagEver, WatchStep, PTL DEF Spec

-----------------------------------------------------------------------------
(* Numbers and the rows of the scheduler. *)

LEMMA MinFacts ==
  ASSUME NEW S \in SUBSET Nat, S # {}
  PROVE  Min(S) \in S /\ \A y \in S : Min(S) <= y
<1> DEFINE Less == OpToRel(<, Nat)
<1>1. IsWellFoundedOn(Less, Nat)
  BY NatLessThanWellFounded
<1>2. PICK x \in S : \A y \in S : ~(<<y, x>> \in Less)
  <2> HIDE DEF Less
  <2> QED BY <1>1, WFMin
<1>3. ASSUME NEW y \in S PROVE x <= y
  <2>1. ~(<<y, x>> \in Less)
    BY <1>2
  <2>2. ~(y < x)
    BY <2>1 DEF OpToRel
  <2> QED BY <2>2
<1> QED BY <1>2, <1>3 DEF Min

\* The greatest of numbers with a bound.
LEMMA GreatestExists ==
  ASSUME NEW n \in Nat, NEW S \in SUBSET (0..n), S # {}
  PROVE  \E x \in S : \A y \in S : x >= y
<1> DEFINE T == {n - x : x \in S}
<1>1. T \in SUBSET Nat /\ T # {}
  <2>1. \A x \in S : n - x \in Nat
    OBVIOUS
  <2> QED BY <2>1
<1>2. Min(T) \in T /\ \A y \in T : Min(T) <= y
  <2> HIDE DEF T
  <2> QED BY <1>1, MinFacts
<1>3. PICK x \in S : Min(T) = n - x
  BY <1>2
<1>4. \A y \in S : n - x <= n - y
  BY <1>2, <1>3
<1> QED BY <1>4

\* A type to do that comes first, and no other one before it.
LEMMA FirstTypeFacts ==
  ASSUME NEW types \in SUBSET TaskTypes, types # {}
  PROVE  \E i \in DOMAIN AllTaskTypes :
           /\ FirstType(types) = AllTaskTypes[i] /\ AllTaskTypes[i] \in types
           /\ \A j \in DOMAIN AllTaskTypes : AllTaskTypes[j] \in types => i <= j
<1> DEFINE I == {i \in DOMAIN AllTaskTypes : AllTaskTypes[i] \in types}
<1>1. DOMAIN AllTaskTypes \subseteq Nat
  BY TaskTypesAssumption
<1>2. I \in SUBSET Nat /\ I # {}
  BY <1>1 DEF TaskTypes, ToSet
<1>3. Min(I) \in I /\ \A j \in I : Min(I) <= j
  <2> HIDE DEF I
  <2> QED BY <1>2, MinFacts
<1>4. FirstType(types) = AllTaskTypes[Min(I)]
  BY DEF FirstType
<1> QED BY <1>3, <1>4

\* Rows are finitely many, each with an id of its own and a status for every task.
IsRow(row) ==
  /\ row.id \in DOMAIN RepoOf
  /\ row = [id |-> row.id, repo |-> row.repo, status |-> row.status]
  /\ row.status \in [TaskTypes -> Status]

RowsOK ==
  /\ IsFiniteSet(rows) /\ \A row \in rows : IsRow(row)
  /\ \A r, q \in rows : r.id = q.id => r = q

\* Rows that are rewritten one by one and keep their ids.
LEMMA RewrittenRows ==
  ASSUME RowsOK, NEW f, NEW R, R = {f[row] : row \in rows}, DOMAIN f = rows,
         \A row \in rows : IsRow(f[row]) /\ f[row].id = row.id
  PROVE  /\ IsFiniteSet(R) /\ \A row \in R : IsRow(row)
         /\ \A r, q \in R : r.id = q.id => r = q
<1> DEFINE g == [row \in rows |-> f[row]]
<1>1. g \in Surjection(rows, R)
  BY DEF Surjection
<1>2. IsFiniteSet(R)
  <2> HIDE DEF g
  <2> QED BY <1>1, FS_Surjection DEF RowsOK
<1>3. \A row \in R : IsRow(row)
  OBVIOUS
<1>4. ASSUME NEW r \in R, NEW q \in R, r.id = q.id PROVE r = q
  <2>1. PICK a \in rows : r = f[a]
    OBVIOUS
  <2>2. PICK b \in rows : q = f[b]
    OBVIOUS
  <2> QED BY <1>4, <2>1, <2>2 DEF RowsOK
<1> QED BY <1>2, <1>3, <1>4

LEMMA RowsStep == RowsOK /\ [ScheduleNext]_rows => RowsOK'
<1> SUFFICES ASSUME RowsOK, [ScheduleNext]_rows PROVE RowsOK'
  OBVIOUS
<1>0. DOMAIN RepoOf = 1..Len(RepoOf) /\ Len(RepoOf) \in Nat
  BY RowsAssumption
<1>1. ASSUME NEW id \in DOMAIN RepoOf, \A row \in rows : row.id < id,
             rows' = rows \cup {Row(id, [t \in TaskTypes |-> "null"])}
      PROVE  RowsOK'
  <2> DEFINE new == Row(id, [t \in TaskTypes |-> "null"])
  <2>1. IsFiniteSet(rows')
    <3> HIDE DEF new
    <3> QED BY <1>1, FS_AddElement DEF RowsOK
  <2>2. IsRow(new) /\ new.id = id
    BY DEF IsRow, Row, Status
  <2>3. \A row \in rows' : IsRow(row)
    BY <1>1, <2>2 DEF RowsOK
  <2>4. \A row \in rows : row.id # id
    <3>1. \A row \in rows : row.id \in Nat
      BY <1>0 DEF RowsOK, IsRow
    <3> QED BY <1>0, <1>1, <3>1
  <2>5. \A r, q \in rows' : r.id = q.id => r = q
    <3> HIDE DEF new
    <3>1. \A r \in rows' : r \in rows \/ r = new
      BY <1>1 DEF new
    <3> QED BY <2>2, <2>4, <3>1 DEF RowsOK
  <2> QED BY <2>1, <2>3, <2>5 DEF RowsOK, IsRow
<1>2. ASSUME NEW R \in SUBSET rows, rows' = R PROVE RowsOK'
  <2>1. IsFiniteSet(R)
    BY FS_Subset DEF RowsOK
  <2> QED BY <1>2, <2>1 DEF RowsOK, IsRow
<1>3. ASSUME NEW task, NEW status \in Status, rows' = SetStatus(task, status) PROVE RowsOK'
  <2> DEFINE f == [row \in rows |-> IF row.repo = task.repo
                                    THEN [row EXCEPT !.status[task.task] = status] ELSE row]
  <2>1. rows' = {f[row] : row \in rows} /\ DOMAIN f = rows
    BY <1>3 DEF SetStatus
  <2>2. ASSUME NEW row \in rows PROVE IsRow(f[row]) /\ f[row].id = row.id
    <3>1. IsRow(row)
      BY DEF RowsOK
    <3> DEFINE new == [row.status EXCEPT ![task.task] = status]
               changed == [row EXCEPT !.status[task.task] = status]
    <3>2. new \in [TaskTypes -> Status]
      BY <3>1 DEF IsRow
    <3>3. changed.id = row.id /\ changed.repo = row.repo /\ changed.status = new
      BY <3>1 DEF IsRow
    <3>4. changed = [id |-> changed.id, repo |-> changed.repo, status |-> changed.status]
      BY <3>1, <3>3 DEF IsRow
    <3>5. IsRow(changed)
      <4> HIDE DEF new, changed
      <4> QED BY <3>1, <3>2, <3>3, <3>4 DEF IsRow
    <3> QED BY <3>1, <3>3, <3>5
  <2> HIDE DEF f
  <2> QED BY <2>1, <2>2, RewrittenRows DEF RowsOK, IsRow
<1>4. ASSUME NEW t \in TaskTypes, rows' = {[row EXCEPT !.status[t] = "null"] : row \in rows}
      PROVE  RowsOK'
  <2> DEFINE f == [row \in rows |-> [row EXCEPT !.status[t] = "null"]]
  <2>1. rows' = {f[row] : row \in rows} /\ DOMAIN f = rows
    BY <1>4
  <2>2. ASSUME NEW row \in rows PROVE IsRow(f[row]) /\ f[row].id = row.id
    BY DEF RowsOK, IsRow, Status
  <2> HIDE DEF f
  <2> QED BY <2>1, <2>2, RewrittenRows DEF RowsOK, IsRow
<1>5. CASE UNCHANGED rows
  BY <1>5 DEF RowsOK, IsRow
<1>6. CASE RepositoryIsCreated
  BY <1>1, <1>6 DEF RepositoryIsCreated
<1>7. CASE RepositoryIsDeleted
  <2>1. PICK row \in rows : rows' = {r \in rows : r.repo # row.repo}
    BY <1>7 DEF RepositoryIsDeleted
  <2> QED BY <1>2, <2>1
<1>8. ASSUME NEW isMain, RunTask(isMain) PROVE RowsOK'
  <2>1. \E task : \E status \in Status : rows' = SetStatus(task, status)
    BY <1>8 DEF RunTask, Status
  <2> QED BY <1>3, <2>1
<1>9. CASE Reset
  BY <1>4, <1>9 DEF Reset
<1> QED BY <1>5, <1>6, <1>7, <1>8, <1>9 DEF ScheduleNext

LEMMA RowsAlways == ScheduleSpec => []RowsOK
<1>1. ScheduleInit => RowsOK
  BY FS_EmptySet DEF ScheduleInit, RowsOK
<1> QED BY <1>1, RowsStep, PTL DEF ScheduleSpec

-----------------------------------------------------------------------------
(* The main task. *)

\* The row of the highest id.
IsNewest(row, found) == row \in found /\ NewerRows(row, found) = {}

LEMMA IdsAreNumbers == RowsOK => \A row \in rows : row.id \in Nat \ {0} /\ row.id <= Len(RepoOf)
<1>1. DOMAIN RepoOf = 1..Len(RepoOf) /\ Len(RepoOf) \in Nat
  BY RowsAssumption
<1> QED BY <1>1 DEF RowsOK, IsRow

LEMMA NewestRow ==
  ASSUME RowsOK, NEW found \in SUBSET rows
  PROVE  /\ found # {} => \E row \in found : NewerRows(row, found) = {}
         /\ \A r, q \in found :
              NewerRows(r, found) = {} /\ NewerRows(q, found) = {} => r = q
<1>1. ASSUME found # {} PROVE \E row \in found : NewerRows(row, found) = {}
  <2> DEFINE ids == {r.id : r \in found}
  <2>1. ids \in SUBSET (0..Len(RepoOf)) /\ ids # {} /\ Len(RepoOf) \in Nat
    BY <1>1, IdsAreNumbers, RowsAssumption
  <2>2. PICK x \in ids : \A y \in ids : x >= y
    <3> HIDE DEF ids
    <3> QED BY <2>1, GreatestExists
  <2>3. PICK row \in found : row.id = x
    BY <2>2
  <2>4. ASSUME NEW r \in found PROVE ~(r.id > row.id)
    <3>1. r.id \in ids
      OBVIOUS
    <3>2. x >= r.id
      <4> HIDE DEF ids
      <4> QED BY <2>2, <3>1
    <3>3. r.id \in Nat /\ row.id \in Nat
      BY IdsAreNumbers
    <3> QED BY <2>3, <3>2, <3>3
  <2> QED BY <2>4 DEF NewerRows
<1>2. ASSUME NEW r \in found, NEW q \in found, NewerRows(r, found) = {}, NewerRows(q, found) = {}
      PROVE  r = q
  <2>1. ~(q.id > r.id) /\ ~(r.id > q.id)
    BY <1>2 DEF NewerRows
  <2>2. r.id = q.id
    BY <2>1, IdsAreNumbers
  <2> QED BY <2>2 DEF RowsOK
<1> QED BY <1>1, <1>2

\* The first task is that of the newest row; there is one as soon as there is a row.
LEMMA FirstTaskIs ==
  ASSUME RowsOK, NEW types, NEW found \in SUBSET rows, NEW row, IsNewest(row, found)
  PROVE  FirstTask(found, types) = Task(FirstType(PendingTypes(row, types)), row)
<1> DEFINE first == CHOOSE r \in found : NewerRows(r, found) = {}
<1>1. first \in found /\ NewerRows(first, found) = {}
  BY DEF IsNewest
<1>2. first = row
  <2> HIDE DEF first
  <2> QED BY <1>1, NewestRow DEF IsNewest
<1>3. FirstTask(found, types) = Task(FirstType(PendingTypes(first, types)), first)
  BY <1>1 DEF FirstTask
<1> QED BY <1>2, <1>3

\* What is neither complete nor failed is what the scheduler waits for.
LEMMA StillToDo ==
  ASSUME RowsOK, NEW types \in SUBSET TaskTypes
  PROVE  /\ AllPending(types) = TasksOfRows(rows, types)
         /\ AllPending(types) = TasksOfRows(Waiting(rows, types), types)
<1>1. ASSUME NEW row \in rows PROVE Unfinished(row, types) = PendingTypes(row, types)
  <2>1. \A t \in types : row.status[t] \in Status
    BY DEF RowsOK, IsRow
  <2> QED BY <2>1 DEF Unfinished, PendingTypes, Status, Pending
<1>2. AllPending(types) = TasksOfRows(rows, types)
  BY <1>1 DEF AllPending, TasksOfRows, PendingTasks
<1>3. TasksOfRows(rows, types) = TasksOfRows(Waiting(rows, types), types)
  BY DEF TasksOfRows, PendingTasks, Waiting
<1> QED BY <1>2, <1>3

LEMMA TaskFields ==
  \A t, row : /\ Task(t, row).task = t
              /\ Task(t, row).id = row.id /\ Task(t, row).repo = row.repo
BY DEF Task

\* The limit on the rows does not change the first task.
LEMMA SameFirstTask ==
  ASSUME RowsOK, NEW types \in SUBSET TaskTypes, NEW limit \in Nat \ {0}
  PROVE  FirstTask(PendingRows(rows, types, limit), types)
           = FirstTask(Waiting(rows, types), types)
<1> DEFINE W == Waiting(rows, types)
           found == PendingRows(rows, types, limit)
<1>1. W \in SUBSET rows /\ found \in SUBSET W
  BY DEF Waiting, PendingRows
<1>2. CASE W = {}
  BY <1>1, <1>2
<1>3. ASSUME W # {} PROVE FirstTask(found, types) = FirstTask(W, types)
  <2>1. PICK row \in W : NewerRows(row, W) = {}
    <3> HIDE DEF W
    <3> QED BY <1>1, <1>3, NewestRow
  <2>2. row \in found
    <3>1. Cardinality(NewerRows(row, W)) < limit
      <4> HIDE DEF W
      <4> QED BY <2>1, FS_EmptySet
    <3> QED BY <3>1 DEF PendingRows
  <2> HIDE DEF W, found
  <2>3. NewerRows(row, found) = {}
    BY <1>1, <2>1 DEF NewerRows
  <2>4. IsNewest(row, W) /\ IsNewest(row, found) /\ found \in SUBSET rows
    BY <1>1, <2>1, <2>2, <2>3 DEF IsNewest
  <2> QED BY <1>1, <2>4, FirstTaskIs
<1> QED BY <1>2, <1>3

\* Every answer has the same main task, and there is an answer.
LEMMA AnswersFacts ==
  ASSUME RowsOK, NEW types \in SUBSET TaskTypes
  PROVE  /\ \A n \in Nat : \A a \in NextTasks("complete", rows, types, n) :
              a.main = FirstTask(Waiting(rows, types), types)
         /\ \E a : a \in AnyAnswer(types)
         /\ \A a \in AnyAnswer(types) : a.main = FirstTask(Waiting(rows, types), types)
<1>1. ASSUME NEW n \in Nat, NEW a \in NextTasks("complete", rows, types, n)
      PROVE  a.main = FirstTask(Waiting(rows, types), types)
  <2>1. PICK limit : /\ limit = IF n > 0 THEN (n + 1) * POOL_COEF ELSE 1
                     /\ a \in Answers(PendingRows(rows, types, limit), types, n)
    BY DEF NextTasks
  <2>2. limit \in Nat \ {0}
    BY <2>1, PoolAssumption
  <2>3. a.main = FirstTask(PendingRows(rows, types, limit), types)
    BY <2>1 DEF Answers
  <2> QED BY <2>2, <2>3, SameFirstTask
<1>2. \E a : a \in NextTasks("complete", rows, types, 0)
  <2> DEFINE found == PendingRows(rows, types, 1)
             answer == [main |-> FirstTask(found, types), others |-> {}]
  <2>1. answer \in Answers(found, types, 0)
    BY DEF Answers
  <2>2. NextTasks("complete", rows, types, 0) = Answers(found, types, 0)
    <3> HIDE DEF answer
    <3> QED BY DEF NextTasks
  <2> QED BY <2>1, <2>2
<1>3. MaxSubtasks \in Nat
  BY RowsAssumption
<1> QED BY <1>1, <1>2, <1>3 DEF AnyAnswer

LEMMA MainTaskIs ==
  ASSUME RowsOK, NEW types \in SUBSET TaskTypes
  PROVE  MainTask(types) = FirstTask(Waiting(rows, types), types)
<1> DEFINE a == CHOOSE a \in AnyAnswer(types) : TRUE
<1>1. a \in AnyAnswer(types)
  BY AnswersFacts
<1>2. MainTask(types) = a.main
  BY DEF MainTask
<1> HIDE DEF a
<1> QED BY <1>1, <1>2, AnswersFacts

\* The main task is one that is left, if there is any.
LEMMA MainTaskFacts ==
  ASSUME RowsOK, NEW types \in SUBSET TaskTypes
  PROVE  /\ AllPending(types) = {} => MainTask(types) = NoTask
         /\ AllPending(types) # {} =>
              \E row \in rows :
                /\ IsNewest(row, Waiting(rows, types))
                /\ MainTask(types) = Task(FirstType(PendingTypes(row, types)), row)
                /\ FirstType(PendingTypes(row, types)) \in PendingTypes(row, types)
                /\ MainTask(types) \in AllPending(types) /\ MainTask(types) # NoTask
<1> DEFINE W == Waiting(rows, types)
<1>1. W \in SUBSET rows /\ (W = {} <=> AllPending(types) = {})
  BY StillToDo DEF Waiting, TasksOfRows, PendingTasks
<1>2. MainTask(types) = FirstTask(W, types)
  BY MainTaskIs
<1>3. CASE W = {}
  BY <1>1, <1>2, <1>3 DEF FirstTask
<1>4. ASSUME W # {}
      PROVE  \E row \in rows :
                /\ IsNewest(row, W)
                /\ MainTask(types) = Task(FirstType(PendingTypes(row, types)), row)
                /\ FirstType(PendingTypes(row, types)) \in PendingTypes(row, types)
                /\ MainTask(types) \in AllPending(types) /\ MainTask(types) # NoTask
  <2>1. PICK row \in W : NewerRows(row, W) = {}
    <3> HIDE DEF W
    <3> QED BY <1>1, <1>4, NewestRow
  <2>2. row \in rows /\ PendingTypes(row, types) # {} /\ PendingTypes(row, types) \in SUBSET TaskTypes
    BY <2>1 DEF Waiting, PendingTypes
  <2>3. FirstType(PendingTypes(row, types)) \in PendingTypes(row, types)
    BY <2>2, FirstTypeFacts
  <2>4. IsNewest(row, W)
    BY <2>1 DEF IsNewest
  <2>5. MainTask(types) = Task(FirstType(PendingTypes(row, types)), row)
    <3> HIDE DEF W
    <3> QED BY <1>1, <1>2, <2>4, FirstTaskIs
  <2>6. MainTask(types) \in AllPending(types)
    BY <2>2, <2>3, <2>5, StillToDo DEF TasksOfRows, PendingTasks
  <2>7. MainTask(types).id = row.id /\ row.id # 0
    BY <2>2, <2>5, TaskFields, IdsAreNumbers
  <2>8. MainTask(types) # NoTask
    BY <2>7 DEF NoTask
  <2> QED BY <2>2, <2>3, <2>4, <2>5, <2>6, <2>8
<1> QED BY <1>1, <1>3, <1>4

LEMMA ChoicesAreTypes == \A types \in EligibleChoices : types \in SUBSET TaskTypes
BY DEF EligibleChoices, EligibleTasks, TargetTasks

\* A task left is one of a row that waits.
LEMMA TaskLeft ==
  ASSUME RowsOK, NEW types \in SUBSET TaskTypes, NEW task \in AllPending(types)
  PROVE  \E row \in Waiting(rows, types) : \E t \in PendingTypes(row, types) : task = Task(t, row)
<1>1. task \in TasksOfRows(Waiting(rows, types), types)
  BY StillToDo
<1>2. PICK row \in Waiting(rows, types) : task \in PendingTasks(row, types)
  BY <1>1 DEF TasksOfRows
<1>3. PICK t \in PendingTypes(row, types) : task = Task(t, row)
  BY <1>2 DEF PendingTasks
<1> QED BY <1>3

LEMMA LeftOfRow ==
  ASSUME RowsOK, NEW types \in SUBSET TaskTypes, NEW row \in rows,
         NEW t \in PendingTypes(row, types)
  PROVE  row \in Waiting(rows, types) /\ Task(t, row) \in AllPending(types)
<1>1. row \in Waiting(rows, types)
  BY DEF Waiting
<1>2. Task(t, row) \in TasksOfRows(rows, types)
  BY DEF TasksOfRows, PendingTasks
<1> QED BY <1>1, <1>2, StillToDo

\* The main task: no task is left of a newer row, and none of an earlier type of its row.
IsMain(main, left) ==
  /\ main \in left /\ main # NoTask
  /\ \A task \in left : task.id <= main.id
  /\ \E i \in DOMAIN AllTaskTypes :
       /\ main.task = AllTaskTypes[i]
       /\ \A task \in left : task.id = main.id =>
            \A j \in DOMAIN AllTaskTypes : task.task = AllTaskTypes[j] => i <= j

LEMMA MainTaskComesFirst ==
  RowsOK => \A types \in EligibleChoices :
              AllPending(types) # {} => IsMain(MainTask(types), AllPending(types))
<1> SUFFICES ASSUME RowsOK, NEW types \in EligibleChoices, AllPending(types) # {}
             PROVE  IsMain(MainTask(types), AllPending(types))
  OBVIOUS
<1>1. types \in SUBSET TaskTypes
  BY ChoicesAreTypes
<1> DEFINE W == Waiting(rows, types)
           main == MainTask(types)
<1>2. PICK row \in rows :
        /\ IsNewest(row, W)
        /\ main = Task(FirstType(PendingTypes(row, types)), row)
        /\ FirstType(PendingTypes(row, types)) \in PendingTypes(row, types)
        /\ main \in AllPending(types) /\ main # NoTask
  BY <1>1, MainTaskFacts
<1>3. main.id = row.id /\ main.task = FirstType(PendingTypes(row, types))
  BY <1>2, TaskFields
<1>4. ASSUME NEW task \in AllPending(types) PROVE task.id <= main.id
  <2>1. PICK r \in W : \E t \in PendingTypes(r, types) : task = Task(t, r)
    BY <1>1, TaskLeft
  <2>1a. PICK t \in PendingTypes(r, types) : task = Task(t, r)
    BY <2>1
  <2>2. ~(r.id > row.id)
    BY <1>2, <2>1 DEF IsNewest, NewerRows
  <2>3. r \in rows /\ task.id = r.id
    BY <2>1a, TaskFields DEF Waiting
  <2> QED BY <1>3, <2>2, <2>3, IdsAreNumbers
<1>5. PendingTypes(row, types) \in SUBSET TaskTypes /\ PendingTypes(row, types) # {}
  BY <1>1, <1>2 DEF PendingTypes
<1>6. PICK i \in DOMAIN AllTaskTypes :
        /\ FirstType(PendingTypes(row, types)) = AllTaskTypes[i]
        /\ \A j \in DOMAIN AllTaskTypes : AllTaskTypes[j] \in PendingTypes(row, types) => i <= j
  BY <1>5, FirstTypeFacts
<1>7. ASSUME NEW task \in AllPending(types), task.id = main.id,
             NEW j \in DOMAIN AllTaskTypes, task.task = AllTaskTypes[j]
      PROVE  i <= j
  <2>1. PICK r \in W : \E t \in PendingTypes(r, types) : task = Task(t, r)
    BY <1>1, TaskLeft
  <2>1a. PICK t \in PendingTypes(r, types) : task = Task(t, r)
    BY <2>1
  <2>2. r \in rows /\ r.id = row.id /\ task.task = t
    BY <1>3, <1>7, <2>1a, TaskFields DEF Waiting
  <2>3. r = row
    BY <2>2 DEF RowsOK
  <2> QED BY <1>6, <1>7, <2>1a, <2>2, <2>3
<1> HIDE DEF main
<1>8. main.task = AllTaskTypes[i]
  BY <1>3, <1>6
<1>9. \A task \in AllPending(types) : task.id = main.id =>
        \A j \in DOMAIN AllTaskTypes : task.task = AllTaskTypes[j] => i <= j
  BY <1>7
<1>10. IsMain(main, AllPending(types))
  BY <1>2, <1>4, <1>8, <1>9 DEF IsMain
<1> QED BY <1>10 DEF main

\* A task is known by its id and type, and an id is of one row.
OfOneRow(left) == \A a, b \in left : a.id = b.id /\ a.task = b.task => a = b

LEMMA TasksAreDistinct ==
  RowsOK => \A types \in EligibleChoices :
              OfOneRow(AllPending(types)) /\ \A task \in AllPending(types) : task.id \in Nat
<1> SUFFICES ASSUME RowsOK, NEW types \in EligibleChoices,
                    NEW a \in AllPending(types), NEW b \in AllPending(types)
             PROVE  a.id \in Nat /\ (a.id = b.id /\ a.task = b.task => a = b)
  BY DEF OfOneRow
<1>1. types \in SUBSET TaskTypes
  BY ChoicesAreTypes
<1>2. PICK r \in Waiting(rows, types) : \E t \in PendingTypes(r, types) : a = Task(t, r)
  BY <1>1, TaskLeft
<1>2a. PICK t \in PendingTypes(r, types) : a = Task(t, r)
  BY <1>2
<1>3. PICK q \in Waiting(rows, types) : \E u \in PendingTypes(q, types) : b = Task(u, q)
  BY <1>1, TaskLeft
<1>3a. PICK u \in PendingTypes(q, types) : b = Task(u, q)
  BY <1>3
<1>4. r \in rows /\ q \in rows
  BY DEF Waiting
<1>5. a.id = r.id /\ b.id = q.id /\ a.task = t /\ b.task = u
  BY <1>2a, <1>3a, TaskFields
<1>6. r.id = q.id => r = q
  BY <1>4 DEF RowsOK
<1> QED BY <1>2a, <1>3a, <1>4, <1>5, <1>6, IdsAreNumbers

\* Fewer tasks have the same first one, if it is among them.
LEMMA MainTaskStays ==
  ASSUME NEW left, NEW fewer \in SUBSET left, NEW main \in fewer, NEW new,
         IsMain(main, left), IsMain(new, fewer), OfOneRow(left),
         \A task \in left : task.id \in Nat
  PROVE  new = main
<1>1. new \in left /\ new.id = main.id
  <2>1. new.id <= main.id /\ main.id <= new.id /\ new \in left
    BY DEF IsMain
  <2> QED BY <2>1
<1>2. PICK i \in DOMAIN AllTaskTypes :
        /\ main.task = AllTaskTypes[i]
        /\ \A task \in left : task.id = main.id =>
             \A j \in DOMAIN AllTaskTypes : task.task = AllTaskTypes[j] => i <= j
  BY DEF IsMain
<1>3. PICK k \in DOMAIN AllTaskTypes :
        /\ new.task = AllTaskTypes[k]
        /\ \A task \in fewer : task.id = new.id =>
             \A j \in DOMAIN AllTaskTypes : task.task = AllTaskTypes[j] => k <= j
  BY DEF IsMain
<1>4. i <= k /\ k <= i
  BY <1>1, <1>2, <1>3
<1>5. i = k
  <2>1. i \in Nat /\ k \in Nat
    BY TaskTypesAssumption
  <2> QED BY <1>4, <2>1
<1> QED BY <1>1, <1>2, <1>3, <1>5 DEF OfOneRow

\* A retry retries the same main task as long as it is still to do and nothing was added:
\* for any number of rows, task types and subtasks.
THEOREM RetriesTheSame == ScheduleSpec => SameMainTaskOnRetry
<1>1. RowsOK /\ RowsOK' =>
        \A types \in EligibleChoices :
          (MainTask(types) \in AllPending(types)' /\ AllPending(types)' \subseteq AllPending(types))
            => MainTask(types)' = MainTask(types)
  <2>1. RowsOK => \A types \in EligibleChoices :
          /\ AllPending(types) # {} => IsMain(MainTask(types), AllPending(types))
          /\ OfOneRow(AllPending(types)) /\ \A task \in AllPending(types) : task.id \in Nat
    BY MainTaskComesFirst, TasksAreDistinct
  <2>2. RowsOK' => \A types \in EligibleChoices :
          AllPending(types)' # {} => IsMain(MainTask(types)', AllPending(types)')
    <3>1. (RowsOK => \A types \in EligibleChoices :
             AllPending(types) # {} => IsMain(MainTask(types), AllPending(types)))'
      BY MainTaskComesFirst, PTL
    <3> QED BY <3>1 DEF IsMain
  <2> QED BY <2>1, <2>2, MainTaskStays
<1>2. RowsOK /\ RowsOK' => (rows # {} => \A types \in EligibleChoices :
        LET main == MainTask(types)
        IN  (main \in AllPending(types)' /\ AllPending(types)' \subseteq AllPending(types))
              => MainTask(types)' = main)
  BY <1>1
<1> QED BY <1>2, RowsAlways, PTL DEF SameMainTaskOnRetry

-----------------------------------------------------------------------------
(* How many tasks. *)

LEMMA TasksAreFinite ==
  ASSUME RowsOK, NEW types \in SUBSET TaskTypes, NEW found \in SUBSET rows
  PROVE  IsFiniteSet(TasksOfRows(found, types))
<1> DEFINE D == 1..Len(AllTaskTypes)
           X == D \X rows
           g == [x \in X |-> Task(AllTaskTypes[x[1]], x[2])]
           I == {g[x] : x \in X}
<1>1. D = DOMAIN AllTaskTypes /\ IsFiniteSet(D)
  BY TaskTypesAssumption, FS_Interval
<1>2. IsFiniteSet(X)
  <2> HIDE DEF D
  <2> QED BY <1>1, FS_Product DEF RowsOK
<1>3. g \in Surjection(X, I)
  BY DEF Surjection
<1>4. IsFiniteSet(I)
  <2> HIDE DEF X, g, I
  <2> QED BY <1>2, <1>3, FS_Surjection
<1>5. ASSUME NEW row \in rows, NEW t \in TaskTypes PROVE Task(t, row) \in I
  <2>1. PICK i \in D : t = AllTaskTypes[i]
    BY <1>1 DEF TaskTypes, ToSet
  <2>2. <<i, row>> \in X
    OBVIOUS
  <2>3. g[<<i, row>>] = Task(t, row)
    BY <2>1, <2>2
  <2> QED BY <2>2, <2>3
<1>6. TasksOfRows(found, types) \in SUBSET I
  <2> HIDE DEF I
  <2> QED BY <1>5 DEF TasksOfRows, PendingTasks, PendingTypes
<1> HIDE DEF I
<1> QED BY <1>4, <1>6, FS_Subset

\* Every row that waits has a task of its own.
LEMMA AsManyTasksAsRows ==
  ASSUME RowsOK, NEW types \in SUBSET TaskTypes, NEW found \in SUBSET Waiting(rows, types)
  PROVE  /\ IsFiniteSet(found) /\ Cardinality(found) \in Nat
         /\ Cardinality(found) <= Cardinality(TasksOfRows(found, types))
<1> DEFINE T == TasksOfRows(found, types)
           first(row) == FirstType(PendingTypes(row, types))
           f == [row \in found |-> Task(first(row), row)]
<1>1. found \in SUBSET rows
  BY DEF Waiting
<1>2. IsFiniteSet(T)
  BY <1>1, TasksAreFinite
<1>3. ASSUME NEW row \in found PROVE Task(first(row), row) \in T
  <2>1. PendingTypes(row, types) # {} /\ PendingTypes(row, types) \in SUBSET TaskTypes
    BY DEF Waiting, PendingTypes
  <2>2. first(row) \in PendingTypes(row, types)
    BY <2>1, FirstTypeFacts
  <2> HIDE DEF first
  <2> QED BY <2>2 DEF TasksOfRows, PendingTasks
<1>4. ASSUME NEW r \in found, NEW q \in found, f[r] = f[q] PROVE r = q
  <2>1. r.id = q.id
    <3>1. f[r].id = r.id /\ f[q].id = q.id
      BY TaskFields
    <3> QED BY <1>4, <3>1
  <2> QED BY <1>1, <2>1 DEF RowsOK
<1>5. f \in Injection(found, T)
  <2>1. f \in [found -> T]
    BY <1>3
  <2> HIDE DEF f
  <2> QED BY <1>4, <2>1 DEF Injection, IsInjective
<1> HIDE DEF T, f
<1>6. Cardinality(found) <= Cardinality(T) /\ IsFiniteSet(found)
  BY <1>2, <1>5, FS_Injection
<1> QED BY <1>6, FS_CardinalityType DEF T

\* The rows a set of rows leaves out have a newest one, and all newer ones are in it.
LEMMA NewestLeftOut ==
  ASSUME RowsOK, NEW all \in SUBSET rows, NEW some \in SUBSET all, some # all
  PROVE  \E row \in all \ some : NewerRows(row, all) \subseteq some
<1>1. PICK row \in all \ some : NewerRows(row, all \ some) = {}
  BY NewestRow
<1> QED BY <1>1 DEF NewerRows

\* The query finds all rows that wait, or as many as its limit.
LEMMA QueryFindsEnough ==
  ASSUME RowsOK, NEW types \in SUBSET TaskTypes, NEW limit \in Nat
  PROVE  \/ PendingRows(rows, types, limit) = Waiting(rows, types)
         \/ Cardinality(PendingRows(rows, types, limit)) >= limit
<1> DEFINE W == Waiting(rows, types)
           found == PendingRows(rows, types, limit)
<1>1. W \in SUBSET rows /\ found \in SUBSET W
  BY DEF Waiting, PendingRows
<1>2. ASSUME found # W PROVE Cardinality(found) >= limit
  <2>1. PICK row \in W \ found : NewerRows(row, W) \subseteq found
    <3> HIDE DEF W, found
    <3> QED BY <1>1, <1>2, NewestLeftOut
  <2>2. ~(Cardinality(NewerRows(row, W)) < limit)
    BY <2>1 DEF PendingRows
  <2>3. IsFiniteSet(found)
    BY <1>1, FS_Subset DEF RowsOK
  <2> HIDE DEF W, found
  <2>4. IsFiniteSet(NewerRows(row, W))
        /\ Cardinality(NewerRows(row, W)) <= Cardinality(found)
    BY <2>1, <2>3, FS_Subset
  <2>5. Cardinality(NewerRows(row, W)) \in Nat /\ Cardinality(found) \in Nat
    BY <2>3, <2>4, FS_CardinalityType
  <2> QED BY <2>2, <2>4, <2>5
<1> QED BY <1>2

LEMMA TimesPool ==
  ASSUME NEW n \in Nat
  PROVE  /\ n * POOL_COEF \in Nat /\ n * POOL_COEF >= n
         /\ (n + 1) * POOL_COEF \in Nat \ {0} /\ (n + 1) * POOL_COEF >= n + 1
<1>1. PICK m \in Nat : POOL_COEF = m + 1
  <2>1. POOL_COEF - 1 \in Nat /\ POOL_COEF = (POOL_COEF - 1) + 1
    BY PoolAssumption
  <2> QED BY <2>1
<1>2. \A k \in Nat : k * m \in Nat /\ k * (m + 1) = k * m + k
  OBVIOUS
<1> QED BY <1>1, <1>2

\* The rows that are pooled have all tasks that were found, or n of them.
LEMMA PoolIsLargeEnough ==
  ASSUME RowsOK, NEW types \in SUBSET TaskTypes, NEW found \in SUBSET rows, NEW n \in Nat
  PROVE  LET all == TasksOfRows(found, types) \ {FirstTask(found, types)}
             pool == Pool(found, types, n)
         IN  /\ pool \subseteq all
             /\ pool = all \/ Cardinality(pool) >= n
<1> DEFINE main == FirstTask(found, types)
           all == TasksOfRows(found, types) \ {main}
           before(row) == TasksOfRows(NewerRows(row, found), types) \ {main}
           reached == {row \in found : Cardinality(before(row)) <= n * POOL_COEF}
           pool == TasksOfRows(reached, types) \ {main}
<1>1. Pool(found, types, n) = pool
  BY DEF Pool
<1>2. pool \subseteq all
  BY DEF TasksOfRows
<1>3. ASSUME reached # found PROVE Cardinality(pool) >= n
  <2>1. PICK row \in found \ reached : NewerRows(row, found) \subseteq reached
    <3>1. reached \in SUBSET found
      OBVIOUS
    <3> HIDE DEF reached
    <3> QED BY <1>3, <3>1, NewestLeftOut
  <2>2. before(row) \subseteq pool
    <3> HIDE DEF main, reached
    <3> QED BY <2>1 DEF TasksOfRows
  <2>3. IsFiniteSet(pool)
    <3>1. reached \in SUBSET rows
      OBVIOUS
    <3>2. IsFiniteSet(TasksOfRows(reached, types))
      <4> HIDE DEF reached
      <4> QED BY <3>1, TasksAreFinite
    <3> HIDE DEF reached, main
    <3> QED BY <3>2, FS_Subset
  <2>4. ~(Cardinality(before(row)) <= n * POOL_COEF)
    BY <2>1
  <2> HIDE DEF pool, before
  <2>5. Cardinality(before(row)) <= Cardinality(pool) /\ IsFiniteSet(before(row))
    BY <2>2, <2>3, FS_Subset
  <2>6. Cardinality(before(row)) \in Nat /\ Cardinality(pool) \in Nat
    BY <2>3, <2>5, FS_CardinalityType
  <2> QED BY <2>4, <2>5, <2>6, TimesPool
<1>4. reached = found => pool = all
  <2> HIDE DEF main, reached
  <2> QED OBVIOUS
<1> QED BY <1>1, <1>2, <1>3, <1>4

\* What is picked beside the main task: n of the tasks left, or all of them.
LEMMA OthersAreEnough ==
  ASSUME RowsOK, NEW types \in SUBSET TaskTypes, NEW n \in Nat,
         NEW a \in NextTasks("complete", rows, types, n)
  PROVE  LET left == AllPending(types) \ {a.main}
         IN  /\ a.others \subseteq left /\ IsFiniteSet(left)
             /\ Cardinality(a.others) = Lesser(n, Cardinality(left))
<1> DEFINE W == Waiting(rows, types)
           main == FirstTask(W, types)
           left == AllPending(types) \ {main}
           limit == (n + 1) * POOL_COEF
           found == PendingRows(rows, types, limit)
           pool == Pool(found, types, n)
<1>1. a.main = main
  BY AnswersFacts
<1>2. IsFiniteSet(AllPending(types)) /\ IsFiniteSet(left) /\ Cardinality(left) \in Nat
  <2>1. IsFiniteSet(AllPending(types))
    BY StillToDo, TasksAreFinite
  <2>2. IsFiniteSet(left)
    <3> HIDE DEF main
    <3> QED BY <2>1, FS_Subset
  <2> QED BY <2>1, <2>2, FS_CardinalityType
<1>3. CASE n = 0
  <2>1. a.others = {}
    BY <1>3 DEF NextTasks, Answers
  <2>2. Lesser(0, Cardinality(left)) = 0
    BY <1>2 DEF Lesser
  <2> HIDE DEF left, main
  <2>3. Cardinality(a.others) = Lesser(n, Cardinality(left))
    BY <1>3, <2>1, <2>2, FS_EmptySet
  <2> QED BY <1>1, <1>2, <2>1, <2>3 DEF left
<1>4. CASE n > 0
  <2>1. a \in Answers(found, types, n)
    BY <1>4 DEF NextTasks
  <2>2. a.others \in kSubset(Lesser(n, Cardinality(pool)), pool)
    BY <1>4, <2>1 DEF Answers, OtherTasks
  <2>3. a.others \subseteq pool /\ Cardinality(a.others) = Lesser(n, Cardinality(pool))
    BY <2>2 DEF kSubset
  <2>4. found \in SUBSET W /\ W \in SUBSET rows
    BY DEF PendingRows, Waiting
  <2>5. limit \in Nat \ {0} /\ limit >= n + 1
    BY TimesPool
  <2>6. FirstTask(found, types) = main
    <3> HIDE DEF limit
    <3> QED BY <2>5, SameFirstTask
  <2> DEFINE all == TasksOfRows(found, types) \ {main}
  <2>7. pool \subseteq all /\ (pool = all \/ Cardinality(pool) >= n)
    <3> HIDE DEF W, found, main
    <3>1. found \in SUBSET rows
      BY <2>4
    <3> QED BY <2>6, <3>1, PoolIsLargeEnough
  <2>8. all \subseteq left
    <3> HIDE DEF main, found, W
    <3>1. TasksOfRows(found, types) \subseteq TasksOfRows(W, types)
      BY <2>4 DEF TasksOfRows
    <3> QED BY <3>1, StillToDo DEF W
  <2>9. ASSUME found # W PROVE Cardinality(all) >= n
    <3>1. Cardinality(found) >= limit
      <4> HIDE DEF limit
      <4> QED BY <2>5, <2>9, QueryFindsEnough
    <3> HIDE DEF found, main, limit
    <3>2. /\ Cardinality(found) \in Nat
          /\ Cardinality(found) <= Cardinality(TasksOfRows(found, types))
      BY <2>4, AsManyTasksAsRows
    <3>3. IsFiniteSet(TasksOfRows(found, types))
      BY <2>4, TasksAreFinite
    <3>4. Cardinality(TasksOfRows(found, types)) \in Nat
      BY <3>3, FS_CardinalityType
    <3>5. Cardinality(all) >= Cardinality(TasksOfRows(found, types)) - 1
      BY <3>3, <3>4, FS_RemoveElement
    <3>6. Cardinality(all) \in Int
      BY <3>3, <3>4, FS_RemoveElement
    <3> QED BY <2>5, <3>1, <3>2, <3>4, <3>5, <3>6
  <2>10. found = W => all = left
    <3> HIDE DEF main
    <3> QED BY StillToDo
  <2> HIDE DEF pool, all, left, main, found, W, limit
  <2>11. /\ IsFiniteSet(pool) /\ Cardinality(pool) \in Nat /\ Cardinality(pool) <= Cardinality(left)
    <3>1. pool \in SUBSET left
      BY <2>7, <2>8
    <3> QED BY <1>2, <3>1, FS_Subset, FS_CardinalityType
  <2>12. Cardinality(pool) = Cardinality(left) \/ Cardinality(pool) >= n
    BY <2>7, <2>9, <2>10
  <2>13. Lesser(n, Cardinality(pool)) = Lesser(n, Cardinality(left))
    BY <1>2, <2>11, <2>12 DEF Lesser
  <2> QED BY <1>1, <1>2, <2>3, <2>7, <2>8, <2>13 DEF left
<1> QED BY <1>3, <1>4

LEMMA QuotaHolds == RowsOK => QuotaIsUsed
<1> SUFFICES ASSUME RowsOK, NEW types \in EligibleChoices
             PROVE  /\ Cardinality({a.main : a \in AnyAnswer(types)}) = 1
                    /\ MainTask(types) = NoTask <=> AllPending(types) = {}
                    /\ \A n \in 0..MaxSubtasks : \A a \in NextTasks("complete", rows, types, n) :
                         /\ a.others \subseteq AllPending(types) \ {a.main}
                         /\ Cardinality(a.others) =
                              Lesser(n, Greater(0, Cardinality(AllPending(types)) - 1))
  BY DEF QuotaIsUsed
<1>1. types \in SUBSET TaskTypes
  BY ChoicesAreTypes
<1> DEFINE P == AllPending(types)
           main == FirstTask(Waiting(rows, types), types)
<1>2. MainTask(types) = main
  BY <1>1, MainTaskIs
<1>3. Cardinality({a.main : a \in AnyAnswer(types)}) = 1
  <2>1. {a.main : a \in AnyAnswer(types)} = {main}
    <3> HIDE DEF main
    <3>1. (\E a : a \in AnyAnswer(types)) /\ \A a \in AnyAnswer(types) : a.main = main
      BY <1>1, AnswersFacts DEF main
    <3> QED BY <3>1
  <2> HIDE DEF main
  <2> QED BY <2>1, FS_Singleton
<1>4. /\ P = {} => MainTask(types) = NoTask
      /\ P # {} => MainTask(types) \in P /\ MainTask(types) # NoTask
  BY <1>1, MainTaskFacts
<1>5. ASSUME NEW n \in 0..MaxSubtasks, NEW a \in NextTasks("complete", rows, types, n)
      PROVE  /\ a.others \subseteq P \ {a.main}
             /\ Cardinality(a.others) = Lesser(n, Greater(0, Cardinality(P) - 1))
  <2>1. n \in Nat
    BY RowsAssumption
  <2>2. /\ a.others \subseteq P \ {a.main}
        /\ Cardinality(a.others) = Lesser(n, Cardinality(P \ {a.main}))
    BY <1>1, <2>1, OthersAreEnough
  <2>3. a.main = MainTask(types)
    BY <1>1, <1>2, <2>1, AnswersFacts
  <2>4. IsFiniteSet(P)
    BY <1>1, StillToDo, TasksAreFinite
  <2> HIDE DEF P
  <2>5. Cardinality(P) \in Nat /\ (Cardinality(P) = 0 <=> P = {})
    BY <2>4, FS_CardinalityType, FS_EmptySet
  <2>6. Cardinality(P \ {a.main}) = IF a.main \in P THEN Cardinality(P) - 1 ELSE Cardinality(P)
    BY <2>4, FS_RemoveElement
  <2>7. Cardinality(P \ {a.main}) = Greater(0, Cardinality(P) - 1)
    BY <1>4, <2>3, <2>5, <2>6 DEF Greater
  <2> QED BY <2>2, <2>7
<1> QED BY <1>3, <1>4, <1>5

\* Whatever quota is left is used, and never without a main task: for any number of rows,
\* task types and subtasks, and any coefficient of the pool.
THEOREM QuotaIsAlwaysUsed == ScheduleSpec => []QuotaIsUsed
BY RowsAlways, QuotaHolds, PTL

-----------------------------------------------------------------------------
(* Some entries of a sequence, in their order. *)

Below(i, I) == {j \in I : j < i}
Rank(i, I) == Cardinality(Below(i, I))

\* Places are numbered without gaps by how many come before them.
LEMMA RankFacts ==
  ASSUME NEW n \in Nat, NEW I \in SUBSET (1..n)
  PROVE  /\ IsFiniteSet(I) /\ Cardinality(I) \in Nat
         /\ \A i \in I : Rank(i, I) \in 0..(Cardinality(I) - 1)
         /\ \A i, j \in I : i < j => Rank(i, I) < Rank(j, I)
         /\ \A k \in 1..Cardinality(I) : \E i \in I : Rank(i, I) = k - 1
<1>0. IsFiniteSet(1..n) /\ \A x \in I : x \in Nat
  BY FS_Interval
<1>1. IsFiniteSet(I) /\ Cardinality(I) \in Nat
  <2>1. IsFiniteSet(I)
    BY <1>0, FS_Subset
  <2> QED BY <2>1, FS_CardinalityType
<1>2. ASSUME NEW i \in I
      PROVE  IsFiniteSet(Below(i, I)) /\ Rank(i, I) \in Nat /\ Rank(i, I) <= Cardinality(I) - 1
  <2>1. Below(i, I) \in SUBSET (I \ {i})
    BY DEF Below
  <2>2. IsFiniteSet(I \ {i}) /\ Cardinality(I \ {i}) = Cardinality(I) - 1
    BY <1>1, FS_RemoveElement
  <2>3. IsFiniteSet(Below(i, I)) /\ Cardinality(Below(i, I)) <= Cardinality(I \ {i})
    BY <2>1, <2>2, FS_Subset
  <2> QED BY <2>2, <2>3, FS_CardinalityType DEF Rank
<1>3. ASSUME NEW i \in I, NEW j \in I, i < j PROVE Rank(i, I) < Rank(j, I)
  <2>1. Below(i, I) \in SUBSET (Below(j, I) \ {i}) /\ i \in Below(j, I)
    <3>1. i \in Nat /\ j \in Nat /\ i \in Below(j, I)
      BY <1>0, <1>3 DEF Below
    <3>2. ASSUME NEW x \in Below(i, I) PROVE x \in Below(j, I) \ {i}
      <4>1. x \in I /\ x \in Nat /\ x < i
        BY <1>0 DEF Below
      <4>2. x < j /\ x # i
        BY <1>3, <3>1, <4>1
      <4> QED BY <4>1, <4>2 DEF Below
    <3> QED BY <3>1, <3>2
  <2>2. IsFiniteSet(Below(j, I)) /\ Rank(j, I) \in Nat /\ Rank(i, I) \in Nat
    BY <1>2
  <2>3. IsFiniteSet(Below(j, I) \ {i}) /\ Cardinality(Below(j, I) \ {i}) = Rank(j, I) - 1
    BY <2>1, <2>2, FS_RemoveElement DEF Rank
  <2>4. Rank(i, I) <= Cardinality(Below(j, I) \ {i})
    BY <2>1, <2>3, FS_Subset DEF Rank
  <2> QED BY <2>2, <2>3, <2>4
<1>4. \A k \in 1..Cardinality(I) : \E i \in I : Rank(i, I) = k - 1
  <2> DEFINE T == 0..(Cardinality(I) - 1)
             f == [i \in I |-> Rank(i, I)]
  <2>1. IsFiniteSet(T) /\ Cardinality(T) = Cardinality(I)
    BY <1>1, FS_Interval
  <2>2. f \in [I -> T]
    BY <1>1, <1>2
  <2>3. ASSUME NEW i \in I, NEW j \in I, f[i] = f[j] PROVE i = j
    <3>1. ~(i < j) /\ ~(j < i)
      BY <1>2, <1>3, <2>3
    <3> QED BY <3>1
  <2>4. f \in Injection(I, T)
    <3> HIDE DEF f
    <3> QED BY <2>2, <2>3 DEF Injection, IsInjective
  <2>5. f \in Surjection(I, T)
    <3> HIDE DEF f, T
    <3> QED BY <2>1, <2>4, FS_Injection
  <2>6. \A k \in T : \E i \in I : f[i] = k
    BY <2>5 DEF Surjection
  <2> QED BY <1>1, <2>6
<1> QED BY <1>1, <1>2, <1>3, <1>4

\* The places that are kept, in their order.
InOrder(place, s, I) ==
  /\ place \in [1..Cardinality(I) -> I]
  /\ \A k \in 1..Cardinality(I) : Kept(s, I)[k] = s[place[k]] /\ Rank(place[k], I) = k - 1

\* Each place's entry is kept, once and in order.
LEMMA KeptFacts ==
  ASSUME NEW S, NEW s \in Seq(S), NEW I \in SUBSET (1..Len(s))
  PROVE  /\ Kept(s, I) \in Seq(S) /\ Len(Kept(s, I)) = Cardinality(I)
         /\ IsFiniteSet(I) /\ Cardinality(I) \in Nat
         /\ \E place : InOrder(place, s, I)
         /\ \A i \in I : \E k \in 1..Cardinality(I) : Kept(s, I)[k] = s[i]
<1>1. Len(s) \in Nat /\ s \in [1..Len(s) -> S]
  OBVIOUS
<1>2. /\ IsFiniteSet(I) /\ Cardinality(I) \in Nat
      /\ \A i \in I : Rank(i, I) \in 0..(Cardinality(I) - 1)
      /\ \A i, j \in I : i < j => Rank(i, I) < Rank(j, I)
      /\ \A k \in 1..Cardinality(I) : \E i \in I : Rank(i, I) = k - 1
  BY <1>1, RankFacts
<1> DEFINE c == Cardinality(I)
           place == [k \in 1..c |-> CHOOSE i \in I : Rank(i, I) = k - 1]
<1>3. \A k \in 1..c : place[k] \in I /\ Rank(place[k], I) = k - 1
  BY <1>2
<1>4. Kept(s, I) = [k \in 1..c |-> s[place[k]]]
  BY DEF Kept, Rank, Below
<1> HIDE DEF place
<1>5. Kept(s, I) \in Seq(S) /\ Len(Kept(s, I)) = c
  <2>1. \A k \in 1..c : s[place[k]] \in S
    BY <1>1, <1>3
  <2>2. Kept(s, I) \in [1..c -> S]
    BY <1>4, <2>1
  <2>3. c \in Nat
    BY <1>2
  <2> HIDE DEF c
  <2> QED BY <2>2, <2>3
<1>6. ASSUME NEW i \in I PROVE \E k \in 1..c : Kept(s, I)[k] = s[i]
  <2>1. Rank(i, I) \in 0..(c - 1)
    BY <1>2
  <2>2. PICK k \in 1..c : Rank(i, I) = k - 1
    <3>1. Rank(i, I) + 1 \in 1..c /\ Rank(i, I) = (Rank(i, I) + 1) - 1
      BY <1>2, <2>1
    <3> QED BY <3>1
  <2>3. place[k] \in I /\ Rank(place[k], I) = Rank(i, I)
    BY <1>3, <2>2
  <2>4. ~(place[k] < i) /\ ~(i < place[k])
    <3>1. \A a, b \in I : a < b => Rank(a, I) < Rank(b, I)
      BY <1>2
    <3>2. Rank(i, I) \in Nat
      BY <1>2, <2>1
    <3> DEFINE p == place[k]
    <3>3. p \in I /\ Rank(p, I) = Rank(i, I)
      BY <2>3
    <3> HIDE DEF p
    <3>4. ~(p < i) /\ ~(i < p)
      BY <3>1, <3>2, <3>3
    <3> QED BY <3>4 DEF p
  <2>5. place[k] = i
    <3>0. \A x \in I : x \in Nat
      BY <1>1
    <3>1. place[k] \in Nat /\ i \in Nat
      BY <2>3, <3>0
    <3> QED BY <2>4, <3>1
  <2> QED BY <1>4, <2>5
<1>7. place \in [1..c -> I]
  BY <1>3 DEF place
<1>8. InOrder(place, s, I)
  BY <1>3, <1>4, <1>7 DEF InOrder
<1> QED BY <1>2, <1>3, <1>5, <1>6, <1>7, <1>8

\* When every place is kept nothing changes.
LEMMA KeepsAll == ASSUME NEW S, NEW s \in Seq(S) PROVE Kept(s, 1..Len(s)) = s
<1> DEFINE I == 1..Len(s)
<1>1. Len(s) \in Nat /\ Cardinality(I) = Len(s) /\ s \in [I -> S]
  <2>1. Len(s) \in Nat /\ s \in [I -> S]
    OBVIOUS
  <2>2. Cardinality(I) = IF 1 > Len(s) THEN 0 ELSE Len(s) - 1 + 1
    BY <2>1, FS_Interval
  <2> QED BY <2>1, <2>2
<1>2. ASSUME NEW i \in I PROVE Rank(i, I) = i - 1
  <2>1. Below(i, I) = 1..(i - 1)
    BY <1>1 DEF Below
  <2>2. Cardinality(1..(i - 1)) = i - 1
    BY <1>1, FS_Interval
  <2> QED BY <2>1, <2>2 DEF Rank
<1>3. PICK place : InOrder(place, s, I)
  <2>1. I \in SUBSET (1..Len(s))
    OBVIOUS
  <2> HIDE DEF I
  <2> QED BY <2>1, KeptFacts
<1>4. ASSUME NEW k \in 1..Len(s) PROVE Kept(s, I)[k] = s[k]
  <2>0. k \in 1..Cardinality(I) /\ Kept(s, I)[k] = s[place[k]]
    BY <1>1, <1>3 DEF InOrder
  <2>1. place[k] \in I /\ place[k] - 1 = k - 1
    BY <1>2, <1>3, <2>0 DEF InOrder
  <2>2. place[k] = k
    BY <1>1, <2>1
  <2> QED BY <2>0, <2>2
<1>5. Kept(s, I) \in Seq(S) /\ Len(Kept(s, I)) = Len(s)
  <2>1. I \in SUBSET (1..Len(s))
    OBVIOUS
  <2> HIDE DEF I
  <2> QED BY <1>1, <2>1, KeptFacts
<1> HIDE DEF I
<1>6. Kept(s, I) = s
  BY <1>4, <1>5
<1> QED BY <1>6 DEF I

LEMMA FirstsFacts ==
  ASSUME NEW S, NEW v \in Seq(S)
  PROVE  /\ Firsts(v) \in SUBSET (1..Len(v))
         /\ \A x \in ToSet(v) : \E i \in Firsts(v) : v[i] = x
         /\ \A i, j \in Firsts(v) : v[i] = v[j] => i = j
         /\ Cardinality(Firsts(v)) = Cardinality(ToSet(v))
<1>1. Len(v) \in Nat /\ DOMAIN v = 1..Len(v) /\ v \in [1..Len(v) -> S]
  OBVIOUS
<1>2. Firsts(v) \in SUBSET (1..Len(v))
  BY DEF Firsts
<1>3. ASSUME NEW x \in ToSet(v) PROVE \E i \in Firsts(v) : v[i] = x
  <2> DEFINE I == {i \in 1..Len(v) : v[i] = x}
  <2>1. I \in SUBSET Nat /\ I # {}
    BY <1>1 DEF ToSet
  <2>2. Min(I) \in I /\ \A y \in I : Min(I) <= y
    <3> HIDE DEF I
    <3> QED BY <2>1, MinFacts
  <2>3. PICK i \in I : \A y \in I : i <= y
    BY <2>2
  <2>4. \A j \in 1..(i - 1) : v[j] # v[i]
    <3> SUFFICES ASSUME NEW j \in 1..(i - 1), v[j] = v[i] PROVE FALSE
      OBVIOUS
    <3>1. j \in 1..Len(v) /\ j < i
      BY <1>1, <2>3
    <3>2. j \in I
      BY <3>1, <2>3
    <3> QED BY <1>1, <2>3, <3>1, <3>2
  <2> QED BY <2>3, <2>4 DEF Firsts
<1>4. ASSUME NEW i \in Firsts(v), NEW j \in Firsts(v), v[i] = v[j] PROVE i = j
  <2>1. i \in Nat \ {0} /\ j \in Nat \ {0}
    BY <1>1, <1>2
  <2>2. i \notin 1..(j - 1) /\ j \notin 1..(i - 1)
    BY <1>4 DEF Firsts
  <2> QED BY <2>1, <2>2
<1>5. Cardinality(Firsts(v)) = Cardinality(ToSet(v))
  <2> DEFINE f == [i \in Firsts(v) |-> v[i]]
  <2>1. f \in [Firsts(v) -> ToSet(v)]
    BY <1>1, <1>2 DEF ToSet
  <2>2. \A x \in ToSet(v) : \E i \in Firsts(v) : f[i] = x
    BY <1>3
  <2>3. \A i, j \in Firsts(v) : f[i] = f[j] => i = j
    BY <1>4
  <2> HIDE DEF f
  <2>4. f \in Bijection(Firsts(v), ToSet(v))
    BY <2>1, <2>2, <2>3 DEF Bijection, Injection, Surjection, IsInjective
  <2>5. IsFiniteSet(1..Len(v))
    BY <1>1, FS_Interval
  <2>6. IsFiniteSet(Firsts(v))
    BY <1>2, <2>5, FS_Subset
  <2> QED BY <2>4, <2>6, FS_Bijection DEF ExistsBijection
<1> QED BY <1>2, <1>3, <1>4, <1>5

\* Entries of what is kept are those of the places.
LEMMA KeptEntries ==
  ASSUME NEW S, NEW s \in Seq(S), NEW I \in SUBSET (1..Len(s))
  PROVE  /\ Kept(s, I) \in Seq(S) /\ ToSet(Kept(s, I)) = {s[i] : i \in I}
         /\ Len(Kept(s, I)) = Cardinality(I)
<1>1. /\ Kept(s, I) \in Seq(S) /\ Len(Kept(s, I)) = Cardinality(I)
      /\ Cardinality(I) \in Nat
      /\ \A i \in I : \E k \in 1..Cardinality(I) : Kept(s, I)[k] = s[i]
  BY KeptFacts
<1>2. PICK place : InOrder(place, s, I)
  BY KeptFacts
<1>3. DOMAIN Kept(s, I) = 1..Cardinality(I)
  BY <1>1
<1>4. \A k \in 1..Cardinality(I) : place[k] \in I /\ Kept(s, I)[k] = s[place[k]]
  BY <1>2 DEF InOrder
<1>5. ASSUME NEW x PROVE x \in ToSet(Kept(s, I)) <=> \E i \in I : x = s[i]
  <2>1. ASSUME x \in ToSet(Kept(s, I)) PROVE \E i \in I : x = s[i]
    <3>1. PICK k \in 1..Cardinality(I) : x = Kept(s, I)[k]
      BY <1>3, <2>1 DEF ToSet
    <3> QED BY <1>4, <3>1
  <2>2. ASSUME NEW i \in I, x = s[i] PROVE x \in ToSet(Kept(s, I))
    BY <1>1, <1>3, <2>2 DEF ToSet
  <2> QED BY <2>1, <2>2
<1> QED BY <1>1, <1>5

\* uniq keeps every value and keeps it once; without duplicates nothing changes.
LEMMA UniqFacts ==
  ASSUME NEW S, NEW s \in Seq(S)
  PROVE  /\ Uniq(s) \in Seq(S) /\ ToSet(Uniq(s)) = ToSet(s) /\ IsInjective(Uniq(s))
         /\ IsInjective(s) => Uniq(s) = s
<1>1. /\ Firsts(s) \in SUBSET (1..Len(s))
      /\ \A x \in ToSet(s) : \E i \in Firsts(s) : s[i] = x
      /\ \A i, j \in Firsts(s) : s[i] = s[j] => i = j
  BY FirstsFacts
<1>2. Len(s) \in Nat /\ DOMAIN s = 1..Len(s)
  OBVIOUS
<1>3. Uniq(s) \in Seq(S) /\ ToSet(Uniq(s)) = {s[i] : i \in Firsts(s)}
  BY <1>1, KeptEntries DEF Uniq
<1>4. {s[i] : i \in Firsts(s)} = ToSet(s)
  BY <1>1, <1>2 DEF ToSet
<1>5. IsInjective(Uniq(s))
  <2> DEFINE I == Firsts(s)
             n == Cardinality(I)
  <2>1. PICK place : InOrder(place, s, I)
    BY <1>1, KeptFacts
  <2>2. DOMAIN Uniq(s) = 1..n /\ n \in Nat
    <3>1. Kept(s, I) \in Seq(S) /\ Len(Kept(s, I)) = n /\ n \in Nat
      BY <1>1, KeptFacts
    <3> QED BY <3>1 DEF Uniq
  <2>3. ASSUME NEW k \in 1..n, NEW m \in 1..n, Uniq(s)[k] = Uniq(s)[m] PROVE k = m
    <3>1. /\ place[k] \in I /\ place[m] \in I
          /\ Uniq(s)[k] = s[place[k]] /\ Uniq(s)[m] = s[place[m]]
          /\ Rank(place[k], I) = k - 1 /\ Rank(place[m], I) = m - 1
      BY <2>1 DEF InOrder, Uniq
    <3>2. place[k] = place[m]
      <4>1. s[place[k]] = s[place[m]]
        BY <2>3, <3>1
      <4> HIDE DEF I
      <4>2. \A i, j \in I : s[i] = s[j] => i = j
        BY <1>1 DEF I
      <4> QED BY <3>1, <4>1, <4>2
    <3>3. k - 1 = m - 1
      BY <3>1, <3>2
    <3> QED BY <2>2, <3>3
  <2> QED BY <2>2, <2>3 DEF IsInjective
<1>6. ASSUME IsInjective(s) PROVE Uniq(s) = s
  <2>1. \A i \in 1..Len(s), j \in 1..Len(s) : s[i] = s[j] => i = j
    BY <1>2, <1>6 DEF IsInjective
  <2>2. Firsts(s) = 1..Len(s)
    <3> SUFFICES ASSUME NEW i \in 1..Len(s), NEW j \in 1..(i - 1), s[j] = s[i] PROVE FALSE
      BY DEF Firsts
    <3>1. j \in 1..Len(s) /\ j # i
      BY <1>2
    <3> QED BY <2>1, <3>1
  <2> QED BY <2>2, KeepsAll DEF Uniq
<1> QED BY <1>3, <1>4, <1>5, <1>6

\* Without duplicates, fewer values are fewer entries.
LEMMA NoLonger ==
  ASSUME NEW S, NEW s \in Seq(S), NEW t \in Seq(S), IsInjective(s), ToSet(s) \subseteq ToSet(t)
  PROVE  Len(s) <= Len(t)
<1> DEFINE I == 1..Len(s)
           J == 1..Len(t)
           f == [i \in I |-> CHOOSE j \in J : t[j] = s[i]]
<1>1. Len(s) \in Nat /\ Len(t) \in Nat /\ DOMAIN s = I /\ DOMAIN t = J
  OBVIOUS
<1>2. \A i \in I : f[i] \in J /\ t[f[i]] = s[i]
  BY <1>1 DEF ToSet
<1>3. f \in [I -> J]
  BY <1>2
<1> HIDE DEF f
<1>4. \A i, j \in I : f[i] = f[j] => i = j
  BY <1>1, <1>2 DEF IsInjective
<1>5. f \in Injection(I, J)
  <2> HIDE DEF I, J
  <2> QED BY <1>3, <1>4 DEF Injection, IsInjective
<1>6. IsFiniteSet(J) /\ Cardinality(J) = Len(t) /\ Cardinality(I) = Len(s)
  <2>0. \A n \in Nat : Cardinality(1..n) = IF 1 > n THEN 0 ELSE n - 1 + 1
    BY FS_Interval
  <2>1. Cardinality(1..Len(t)) = IF 1 > Len(t) THEN 0 ELSE Len(t) - 1 + 1
    BY <1>1, <2>0
  <2>2. Cardinality(1..Len(s)) = IF 1 > Len(s) THEN 0 ELSE Len(s) - 1 + 1
    BY <1>1, <2>0
  <2>3. IsFiniteSet(1..Len(t))
    BY <1>1, FS_Interval
  <2> QED BY <1>1, <2>1, <2>2, <2>3
<1>7. Cardinality(I) <= Cardinality(J)
  <2> HIDE DEF I, J
  <2> QED BY <1>5, <1>6, FS_Injection
<1> QED BY <1>6, <1>7

LEMMA SliceFacts ==
  ASSUME NEW S, NEW s \in Seq(S), NEW n \in Nat
  PROVE  /\ Slice(s, n) \in Seq(S) /\ Len(Slice(s, n)) <= n
         /\ ToSet(Slice(s, n)) \subseteq ToSet(s)
         /\ IsInjective(s) => IsInjective(Slice(s, n))
<1> DEFINE m == Sliced(Len(s), n)
<1>1. Len(s) \in Nat /\ m \in Nat /\ m <= Len(s) /\ m <= n
  BY DEF Sliced, Shorter
<1>2. Slice(s, n) = SubSeq(s, 1, m)
  BY DEF Slice
<1> HIDE DEF m
<1>3. /\ SubSeq(s, 1, m) \in Seq(S) /\ Len(SubSeq(s, 1, m)) = m
      /\ \A k \in 1..m : SubSeq(s, 1, m)[k] = s[k]
  BY <1>1
<1>4. DOMAIN s = 1..Len(s) /\ DOMAIN SubSeq(s, 1, m) = 1..m /\ 1..m \subseteq 1..Len(s)
  BY <1>1, <1>3
<1>5. ToSet(SubSeq(s, 1, m)) \subseteq ToSet(s)
  BY <1>3, <1>4 DEF ToSet
<1>6. IsInjective(s) => IsInjective(SubSeq(s, 1, m))
  BY <1>3, <1>4 DEF IsInjective
<1> QED BY <1>1, <1>2, <1>3, <1>5, <1>6

-----------------------------------------------------------------------------
(* What goes to Jira. *)

\* flatMap: f has the sequences up to each place, one after another.
Flattens(f, ss, n) == f = [i \in 1..n |-> IF i = 1 THEN ss[i] ELSE f[i - 1] \o ss[i]]

LEMMA FlattenExists ==
  ASSUME NEW ss, NEW n \in Nat
  PROVE  \E f : Flattens(f, ss, n)
<1> DEFINE Bad == {m \in Nat : ~ \E f : Flattens(f, ss, m)}
<1>1. SUFFICES ASSUME Bad # {} PROVE FALSE
  OBVIOUS
<1>2. Min(Bad) \in Bad /\ \A m \in Bad : Min(Bad) <= m
  <2>1. Bad \in SUBSET Nat
    OBVIOUS
  <2> HIDE DEF Bad
  <2> QED BY <1>1, <2>1, MinFacts
<1>3. PICK m \in Nat : m \in Bad /\ \A k \in Bad : m <= k
  BY <1>2
<1>4. CASE m = 0
  <2> DEFINE f == [i \in 1..0 |-> ss[i]]
  <2>1. f = [i \in 1..0 |-> IF i = 1 THEN ss[i] ELSE f[i - 1] \o ss[i]]
    OBVIOUS
  <2> HIDE DEF f
  <2>2. Flattens(f, ss, 0)
    BY <2>1 DEF Flattens
  <2> QED BY <1>3, <1>4, <2>2
<1>5. CASE m > 0
  <2>1. m - 1 \in Nat /\ m - 1 \notin Bad
    BY <1>3, <1>5
  <2>2. PICK g : Flattens(g, ss, m - 1)
    BY <2>1
  <2> DEFINE next(i) == IF i = 1 THEN ss[i] ELSE g[i - 1] \o ss[i]
             f == [i \in 1..m |-> next(i)]
  <2>3. \A i \in 1..(m - 1) : g[i] = next(i)
    BY <2>2 DEF Flattens
  <2>4. \A i \in 1..m : i # 1 => f[i - 1] = g[i - 1]
    <3> SUFFICES ASSUME NEW i \in 1..m, i # 1 PROVE f[i - 1] = g[i - 1]
      OBVIOUS
    <3>1. i - 1 \in 1..(m - 1) /\ i - 1 \in 1..m
      BY <1>3
    <3>2. f[i - 1] = next(i - 1)
      BY <3>1
    <3> QED BY <2>3, <3>1, <3>2
  <2>5. \A i \in 1..m : next(i) = IF i = 1 THEN ss[i] ELSE f[i - 1] \o ss[i]
    <3> HIDE DEF f
    <3> QED BY <2>4
  <2>6. f = [i \in 1..m |-> IF i = 1 THEN ss[i] ELSE f[i - 1] \o ss[i]]
    <3>1. f = [i \in 1..m |-> next(i)]
      OBVIOUS
    <3> HIDE DEF f, next
    <3> QED BY <2>5, <3>1
  <2> HIDE DEF f
  <2>7. Flattens(f, ss, m)
    BY <2>6 DEF Flattens
  <2> QED BY <1>3, <2>7
<1> QED BY <1>3, <1>4, <1>5

LEMMA FlattenFacts ==
  ASSUME NEW E, NEW ss \in Seq(Seq(E))
  PROVE  FlattenSeq(ss) \in Seq(E)
<1> DEFINE n == Len(ss)
<1>1. n \in Nat /\ \A i \in 1..n : ss[i] \in Seq(E)
  OBVIOUS
<1>2. CASE n = 0
  <2>1. ss = <<>>
    BY <1>2
  <2> QED BY <1>2, <2>1 DEF FlattenSeq
<1>3. CASE n # 0
  <2> DEFINE f == CHOOSE f : Flattens(f, ss, n)
  <2>1. FlattenSeq(ss) = f[n]
    BY <1>3 DEF FlattenSeq, Flattens
  <2>2. Flattens(f, ss, n)
    <3> HIDE DEF n
    <3> QED BY <1>1, FlattenExists
  <2> HIDE DEF f, n
  <2>3. \A i \in 1..n : f[i] = IF i = 1 THEN ss[i] ELSE f[i - 1] \o ss[i]
    BY <2>2 DEF Flattens
  <2> DEFINE Bad == {i \in 1..n : f[i] \notin Seq(E)}
  <2>4. ASSUME Bad # {} PROVE FALSE
    <3>1. Bad \in SUBSET Nat
      BY <1>1
    <3>2. Min(Bad) \in Bad /\ \A m \in Bad : Min(Bad) <= m
      <4> HIDE DEF Bad
      <4> QED BY <2>4, <3>1, MinFacts
    <3>3. PICK i \in Bad : \A m \in Bad : i <= m
      BY <3>2
    <3>4. i # 1
      BY <1>1, <2>3, <3>3
    <3>5. i - 1 \in 1..n /\ i - 1 \notin Bad
      BY <1>1, <3>3, <3>4
    <3>6. f[i - 1] \in Seq(E) /\ ss[i] \in Seq(E)
      BY <1>1, <3>3, <3>5
    <3>7. f[i] = f[i - 1] \o ss[i]
      BY <2>3, <3>3, <3>4
    <3>8. f[i - 1] \o ss[i] \in Seq(E)
      <4> DEFINE a == f[i - 1]
                 b == ss[i]
      <4>1. a \in Seq(E) /\ b \in Seq(E)
        BY <3>6
      <4> HIDE DEF a, b
      <4>2. a \o b \in Seq(E)
        BY <4>1
      <4> QED BY <4>2 DEF a, b
    <3>9. f[i] \notin Seq(E)
      BY <3>3
    <3> QED BY <3>7, <3>8, <3>9
  <2>5. f[n] \in Seq(E)
    BY <1>1, <1>3, <2>4
  <2> QED BY <2>1, <2>5
<1> QED BY <1>2, <1>3

\* What the callers send: the last commit of a branch has no keys that its branch lacks.
JiraBranch ==
  {b \in [id : EntityId, keys : KeyList, lastCommit : GitHubCommit] :
     ToSet(b.lastCommit.keys) \subseteq ToSet(b.keys)}
IsPayload(data) ==
  /\ data = [branches |-> data.branches, commits |-> data.commits]
  /\ data.branches \in Seq(JiraBranch) /\ data.commits \in Seq(GitHubCommit)

LEMMA UnionFacts ==
  ASSUME NEW s \in Seq(IssueKey), NEW t \in Seq(IssueKey)
  PROVE  /\ Union(s, t) \in KeyList
         /\ ToSet(t) \subseteq ToSet(Union(s, t))
<1>1. s \o t \in Seq(IssueKey)
  OBVIOUS
<1>2. /\ Uniq(s \o t) \in Seq(IssueKey) /\ ToSet(Uniq(s \o t)) = ToSet(s \o t)
      /\ IsInjective(Uniq(s \o t))
  BY <1>1, UniqFacts
<1>3. ToSet(t) \subseteq ToSet(s \o t)
  <2> SUFFICES ASSUME NEW x \in ToSet(t) PROVE x \in ToSet(s \o t)
    OBVIOUS
  <2>1. PICK i \in 1..Len(t) : x = t[i]
    BY DEF ToSet
  <2>2. Len(s) + i \in 1..Len(s \o t) /\ (s \o t)[Len(s) + i] = x
    BY <2>1
  <2>3. DOMAIN (s \o t) = 1..Len(s \o t)
    BY <1>1
  <2> QED BY <2>2, <2>3 DEF ToSet
<1> QED BY <1>2, <1>3 DEF Union, KeyList

LEMMA WithKeysFacts ==
  ASSUME NEW S, NEW entities \in Seq(S)
  PROVE  WithKeys(entities) \in Seq(S)
<1>1. {i \in 1..Len(entities) : entities[i].keys # <<>>} \in SUBSET (1..Len(entities))
  OBVIOUS
<1> QED BY <1>1, KeptEntries DEF WithKeys

LEMMA MapBranchFacts ==
  ASSUME NEW b \in GitHubBranch
  PROVE  MapBranch(b) \in JiraBranch
<1>1. /\ b.id \in EntityId /\ b.name \in KeyList /\ b.title \in KeyList
      /\ b.target \in GitHubCommit /\ b.target.keys \in KeyList
  BY DEF GitHubBranch, GitHubCommit
<1>2. \A keys \in KeyList : keys \in Seq(IssueKey)
  BY DEF KeyList
<1>3. Union(b.name, b.title) \in KeyList
  BY <1>1, <1>2, UnionFacts
<1> DEFINE all == Union(Union(b.name, b.title), b.target.keys)
<1>4. all \in KeyList /\ ToSet(b.target.keys) \subseteq ToSet(all)
  BY <1>1, <1>2, <1>3, UnionFacts
<1> HIDE DEF all
<1>5. MapBranch(b) = [id |-> b.id, keys |-> all, lastCommit |-> b.target]
  BY DEF MapBranch, all
<1> QED BY <1>1, <1>4, <1>5 DEF JiraBranch

LEMMA BranchesArePayload ==
  ASSUME NEW page \in Seq(GitHubBranch)
  PROVE  IsPayload(TransformBranches(page))
<1> DEFINE mapped == [i \in 1..Len(page) |-> MapBranch(page[i])]
           histories == [i \in 1..Len(page) |-> page[i].history]
<1>1. Len(page) \in Nat /\ \A i \in 1..Len(page) : page[i] \in GitHubBranch
  OBVIOUS
<1>2. mapped \in Seq(JiraBranch)
  BY <1>1, MapBranchFacts
<1>3. histories \in Seq(Seq(GitHubCommit))
  <2>1. \A i \in 1..Len(page) : page[i].history \in Seq(GitHubCommit)
    BY <1>1 DEF GitHubBranch
  <2> QED BY <1>1, <2>1
<1> HIDE DEF mapped, histories
<1>4. WithKeys(mapped) \in Seq(JiraBranch)
  BY <1>2, WithKeysFacts
<1>5. WithKeys(FlattenSeq(histories)) \in Seq(GitHubCommit)
  BY <1>3, FlattenFacts, WithKeysFacts
<1>6. TransformBranches(page) =
        [branches |-> WithKeys(mapped), commits |-> WithKeys(FlattenSeq(histories))]
  BY DEF TransformBranches, mapped, histories
<1> QED BY <1>4, <1>5, <1>6 DEF IsPayload

LEMMA PushIsPayload ==
  ASSUME NEW commits \in Seq(GitHubCommit)
  PROVE  IsPayload(PushPayload(commits))
<1>1. WithKeys(commits) \in Seq(GitHubCommit)
  BY WithKeysFacts
<1>2. MAX_COMMIT_HISTORY \in Nat
  BY LimitsAssumption
<1>3. Slice(WithKeys(commits), MAX_COMMIT_HISTORY) \in Seq(GitHubCommit)
  BY <1>1, <1>2, SliceFacts
<1>4. <<>> \in Seq(JiraBranch)
  OBVIOUS
<1> QED BY <1>3, <1>4 DEF IsPayload, PushPayload

\* Keys come without duplicates: the deduplication of the client finds none.
LEMMA CommitKeysStay ==
  ASSUME NEW c \in GitHubCommit
  PROVE  [c EXCEPT !.keys = Uniq(@)] = c
<1>1. c.keys \in Seq(IssueKey) /\ IsInjective(c.keys)
  BY DEF GitHubCommit, KeyList
<1>2. Uniq(c.keys) = c.keys
  BY <1>1, UniqFacts
<1> QED BY <1>2 DEF GitHubCommit

LEMMA BranchKeysStay ==
  ASSUME NEW b \in JiraBranch
  PROVE  [b EXCEPT !.keys = Uniq(@)] = b /\ [b EXCEPT !.lastCommit.keys = Uniq(@)] = b
<1>1. /\ b \in [id : EntityId, keys : KeyList, lastCommit : GitHubCommit]
      /\ b.keys \in Seq(IssueKey) /\ IsInjective(b.keys)
      /\ b.lastCommit \in GitHubCommit /\ b.lastCommit.keys \in Seq(IssueKey)
      /\ IsInjective(b.lastCommit.keys)
  BY DEF JiraBranch, GitHubCommit, KeyList
<1>2. Uniq(b.keys) = b.keys /\ Uniq(b.lastCommit.keys) = b.lastCommit.keys
  BY <1>1, UniqFacts
<1>3. [b EXCEPT !.keys = Uniq(@)] = b
  BY <1>1, <1>2
<1>4. [b.lastCommit EXCEPT !.keys = Uniq(@)] = b.lastCommit
  BY <1>1, CommitKeysStay
<1>5. [b EXCEPT !.lastCommit.keys = Uniq(@)] = b
  BY <1>1, <1>4
<1> QED BY <1>3, <1>5

LEMMA PayloadStays ==
  ASSUME NEW data, IsPayload(data)
  PROVE  UpdateRepositoryIssueKeys(data, Uniq) = data
<1>1. /\ data.branches \in Seq(JiraBranch) /\ data.commits \in Seq(GitHubCommit)
      /\ data = [branches |-> data.branches, commits |-> data.commits]
  BY DEF IsPayload
<1> DEFINE bs == data.branches
           cs == data.commits
<1>2. UpdateIssueKeysFor(cs, Uniq) = cs
  <2>1. \A i \in 1..Len(cs) : [cs[i] EXCEPT !.keys = Uniq(@)] = cs[i]
    <3>1. \A i \in 1..Len(cs) : cs[i] \in GitHubCommit
      BY <1>1
    <3> QED BY <3>1, CommitKeysStay
  <2>2. UpdateIssueKeysFor(cs, Uniq) = [i \in 1..Len(cs) |-> cs[i]]
    BY <2>1 DEF UpdateIssueKeysFor
  <2> QED BY <1>1, <2>2
<1>3. \A i \in 1..Len(bs) : /\ [bs[i] EXCEPT !.keys = Uniq(@)] = bs[i]
                            /\ [bs[i] EXCEPT !.lastCommit.keys = Uniq(@)] = bs[i]
  <2>1. \A i \in 1..Len(bs) : bs[i] \in JiraBranch
    BY <1>1
  <2> QED BY <2>1, BranchKeysStay
<1>4. [i \in 1..Len(bs) |-> bs[i]] = bs
  <2>1. bs \in Seq(JiraBranch)
    BY <1>1
  <2> HIDE DEF bs
  <2> QED BY <2>1
<1>5. UpdateIssueKeysFor(bs, Uniq) = bs
  <2>1. UpdateIssueKeysFor(bs, Uniq) = [i \in 1..Len(bs) |-> bs[i]]
    BY <1>3 DEF UpdateIssueKeysFor
  <2> QED BY <1>4, <2>1
<1>6. [i \in 1..Len(bs) |-> [bs[i] EXCEPT !.lastCommit.keys = Uniq(@)]] = bs
  <2>1. [i \in 1..Len(bs) |-> [bs[i] EXCEPT !.lastCommit.keys = Uniq(@)]]
          = [i \in 1..Len(bs) |-> bs[i]]
    BY <1>3
  <2> QED BY <1>4, <2>1
<1>7. UpdateRepositoryIssueKeys(data, Uniq) = [commits |-> cs, branches |-> bs]
  BY <1>2, <1>5, <1>6 DEF UpdateRepositoryIssueKeys
<1> QED BY <1>1, <1>7

\* No entity of it has more keys than Jira takes.
KeysFit(data) ==
  /\ WithinIssueKeyLimit(data.commits) /\ WithinIssueKeyLimit(data.branches)
  /\ \A i \in 1..Len(data.branches) :
       Len(data.branches[i].lastCommit.keys) <= ISSUE_KEY_API_LIMIT

LEMMA TruncateFacts ==
  ASSUME NEW keys \in KeyList
  PROVE  Truncate(keys) \in KeyList /\ Len(Truncate(keys)) <= ISSUE_KEY_API_LIMIT
<1>1. ISSUE_KEY_API_LIMIT \in Nat
  BY LimitsAssumption
<1>2. keys \in Seq(IssueKey) /\ IsInjective(keys)
  BY DEF KeyList
<1>3. /\ Slice(keys, ISSUE_KEY_API_LIMIT) \in Seq(IssueKey)
      /\ Len(Slice(keys, ISSUE_KEY_API_LIMIT)) <= ISSUE_KEY_API_LIMIT
      /\ IsInjective(keys) => IsInjective(Slice(keys, ISSUE_KEY_API_LIMIT))
  BY <1>1, <1>2, SliceFacts
<1> QED BY <1>2, <1>3 DEF Truncate, KeyList

LEMMA TruncatedFacts ==
  ASSUME NEW data, IsPayload(data), NEW cut, cut = UpdateRepositoryIssueKeys(data, Truncate)
  PROVE  /\ cut = [branches |-> cut.branches, commits |-> cut.commits]
         /\ cut.commits \in Seq(GitHubCommit) /\ Len(cut.commits) = Len(data.commits)
         /\ \A i \in 1..Len(data.commits) : cut.commits[i].id = data.commits[i].id
         /\ Len(cut.branches) \in Nat /\ DOMAIN cut.branches = 1..Len(cut.branches)
         /\ KeysFit(cut)
<1> DEFINE bs == data.branches
           cs == data.commits
           short == UpdateIssueKeysFor(bs, Truncate)
<1>1. /\ bs \in Seq(JiraBranch) /\ Len(bs) \in Nat /\ \A i \in 1..Len(bs) : bs[i] \in JiraBranch
      /\ cs \in Seq(GitHubCommit) /\ Len(cs) \in Nat
      /\ \A i \in 1..Len(cs) : cs[i] \in GitHubCommit
  BY DEF IsPayload
<1>2. /\ cut = [commits |-> cut.commits, branches |-> cut.branches]
      /\ cut.commits = [i \in 1..Len(cs) |-> [cs[i] EXCEPT !.keys = Truncate(@)]]
      /\ cut.branches =
           [i \in 1..Len(short) |-> [short[i] EXCEPT !.lastCommit.keys = Truncate(@)]]
  BY DEF UpdateRepositoryIssueKeys, UpdateIssueKeysFor
<1>3. short = [i \in 1..Len(bs) |-> [bs[i] EXCEPT !.keys = Truncate(@)]]
  BY DEF UpdateIssueKeysFor
<1>4. Len(short) = Len(bs) /\ DOMAIN short = 1..Len(bs)
  BY <1>1, <1>3
<1>5. ASSUME NEW i \in 1..Len(cs)
      PROVE  /\ cut.commits[i] \in GitHubCommit /\ cut.commits[i].id = cs[i].id
             /\ Len(cut.commits[i].keys) <= ISSUE_KEY_API_LIMIT
  <2>1. cs[i] \in GitHubCommit /\ cs[i].keys \in KeyList
    BY <1>1 DEF GitHubCommit
  <2>2. /\ Truncate(cs[i].keys) \in KeyList
        /\ Len(Truncate(cs[i].keys)) <= ISSUE_KEY_API_LIMIT
    BY <2>1, TruncateFacts
  <2>3. cut.commits[i] = [cs[i] EXCEPT !.keys = Truncate(@)]
    BY <1>2
  <2> QED BY <2>1, <2>2, <2>3 DEF GitHubCommit
<1>6. ASSUME NEW i \in 1..Len(bs)
      PROVE  /\ Len(cut.branches[i].keys) <= ISSUE_KEY_API_LIMIT
             /\ Len(cut.branches[i].lastCommit.keys) <= ISSUE_KEY_API_LIMIT
  <2>1. /\ bs[i] \in [id : EntityId, keys : KeyList, lastCommit : GitHubCommit]
        /\ bs[i].keys \in KeyList /\ bs[i].lastCommit \in [id : EntityId, keys : KeyList]
        /\ bs[i].lastCommit.keys \in KeyList
    BY <1>1 DEF JiraBranch, GitHubCommit
  <2>2. /\ Len(Truncate(bs[i].keys)) <= ISSUE_KEY_API_LIMIT
        /\ Len(Truncate(bs[i].lastCommit.keys)) <= ISSUE_KEY_API_LIMIT
    BY <2>1, TruncateFacts
  <2>3. short[i] = [bs[i] EXCEPT !.keys = Truncate(@)]
    BY <1>3
  <2>4. short[i].keys = Truncate(bs[i].keys) /\ short[i].lastCommit = bs[i].lastCommit
    BY <2>1, <2>3
  <2>5. DOMAIN short[i] = {"id", "keys", "lastCommit"}
    BY <2>1, <2>3
  <2>6. cut.branches[i] = [short[i] EXCEPT !.lastCommit.keys = Truncate(@)]
    BY <1>2, <1>4
  <2> HIDE DEF short
  <2>7. cut.branches[i].keys = short[i].keys
    BY <2>5, <2>6
  <2>8. cut.branches[i].lastCommit = [short[i].lastCommit EXCEPT !.keys = Truncate(@)]
    BY <2>5, <2>6
  <2>9. cut.branches[i].lastCommit.keys = Truncate(bs[i].lastCommit.keys)
    BY <2>1, <2>4, <2>8
  <2> QED BY <2>2, <2>4, <2>7, <2>9
<1> HIDE DEF short
<1>7. cut.commits \in Seq(GitHubCommit) /\ Len(cut.commits) = Len(cs)
  <2>1. cut.commits \in [1..Len(cs) -> GitHubCommit]
    BY <1>2, <1>5
  <2> HIDE DEF cs
  <2> QED BY <1>1, <2>1
<1>8. Len(cut.branches) = Len(bs) /\ DOMAIN cut.branches = 1..Len(bs)
  BY <1>1, <1>2, <1>4
<1>9. KeysFit(cut)
  BY <1>5, <1>6, <1>7, <1>8 DEF KeysFit, WithinIssueKeyLimit
<1> QED BY <1>1, <1>2, <1>5, <1>7, <1>8, <1>9

\* If the keys of the branches fit, so do those of their last commits.
LEMMA MeasuredBranchesFit ==
  ASSUME NEW data, IsPayload(data), Fits(data)
  PROVE  KeysFit(data)
<1>1. WithinIssueKeyLimit(data.commits) /\ WithinIssueKeyLimit(data.branches)
  BY DEF Fits
<1>2. ASSUME NEW i \in 1..Len(data.branches)
      PROVE  Len(data.branches[i].lastCommit.keys) <= ISSUE_KEY_API_LIMIT
  <2> DEFINE b == data.branches[i]
  <2>1. b \in JiraBranch
    BY DEF IsPayload
  <2> HIDE DEF b
  <2>2. /\ b.keys \in Seq(IssueKey) /\ b.lastCommit.keys \in Seq(IssueKey)
        /\ IsInjective(b.lastCommit.keys) /\ ToSet(b.lastCommit.keys) \subseteq ToSet(b.keys)
    BY <2>1 DEF JiraBranch, GitHubCommit, KeyList
  <2>3. Len(b.lastCommit.keys) <= Len(b.keys)
    BY <2>2, NoLonger
  <2>4. Len(b.keys) <= ISSUE_KEY_API_LIMIT
    BY <1>1 DEF WithinIssueKeyLimit, b
  <2>5. Len(b.keys) \in Nat /\ Len(b.lastCommit.keys) \in Nat /\ ISSUE_KEY_API_LIMIT \in Nat
    BY <2>2, LimitsAssumption
  <2>6. Len(b.lastCommit.keys) <= ISSUE_KEY_API_LIMIT
    BY <2>3, <2>4, <2>5
  <2> QED BY <2>6 DEF b
<1> QED BY <1>1, <1>2 DEF KeysFit

LEMMA PreparedFacts ==
  ASSUME NEW data, IsPayload(data), NEW out, out = Prepared(data)
  PROVE  /\ out = [branches |-> out.branches, commits |-> out.commits]
         /\ out.commits \in Seq(GitHubCommit) /\ Len(out.commits) = Len(data.commits)
         /\ \A i \in 1..Len(data.commits) : out.commits[i].id = data.commits[i].id
         /\ Len(out.branches) \in Nat /\ DOMAIN out.branches = 1..Len(out.branches)
         /\ KeysFit(out)
         /\ Warns(data) \/ out = data
<1>1. UpdateRepositoryIssueKeys(data, Uniq) = data
  BY PayloadStays
<1>2. /\ out = IF Fits(data) THEN data ELSE UpdateRepositoryIssueKeys(data, Truncate)
      /\ Warns(data) <=> ~Fits(data)
  BY <1>1 DEF Prepared, Warns
<1>3. CASE Fits(data)
  <2>1. /\ data.commits \in Seq(GitHubCommit) /\ data.branches \in Seq(JiraBranch)
        /\ data = [branches |-> data.branches, commits |-> data.commits]
    BY DEF IsPayload
  <2> QED BY <1>2, <1>3, <2>1, MeasuredBranchesFit
<1>4. CASE ~Fits(data)
  <2>1. out = UpdateRepositoryIssueKeys(data, Truncate)
    BY <1>2, <1>4
  <2> QED BY <1>2, <1>4, <2>1, TruncatedFacts
<1> QED BY <1>3, <1>4

\* One commit of each id is left.
LEMMA DedupFacts ==
  ASSUME NEW commits \in Seq(GitHubCommit)
  PROVE  /\ DedupCommits(commits) \in Seq(GitHubCommit)
         /\ ToSet(DedupCommits(commits)) \subseteq ToSet(commits)
         /\ IdsOf(ToSet(DedupCommits(commits))) = IdsOf(ToSet(commits))
         /\ Len(DedupCommits(commits)) = Cardinality(IdsOf(ToSet(commits)))
<1> DEFINE v == [i \in 1..Len(commits) |-> commits[i].id]
           d == DedupCommits(commits)
<1>1. /\ Len(commits) \in Nat /\ DOMAIN commits = 1..Len(commits)
      /\ \A i \in 1..Len(commits) : commits[i] \in GitHubCommit
  OBVIOUS
<1>2. v \in Seq(EntityId) /\ Len(v) = Len(commits) /\ DOMAIN v = 1..Len(commits)
  <2>1. \A i \in 1..Len(commits) : commits[i].id \in EntityId
    BY <1>1 DEF GitHubCommit
  <2> QED BY <1>1, <2>1
<1>3. \A i \in 1..Len(commits) : v[i] = commits[i].id
  OBVIOUS
<1>4. d = Kept(commits, Firsts(v))
  BY DEF DedupCommits
<1> HIDE DEF v, d
<1>5. /\ Firsts(v) \in SUBSET (1..Len(commits))
      /\ \A x \in ToSet(v) : \E i \in Firsts(v) : v[i] = x
      /\ Cardinality(Firsts(v)) = Cardinality(ToSet(v))
  BY <1>2, FirstsFacts
<1>6. ToSet(v) = IdsOf(ToSet(commits))
  BY <1>1, <1>2, <1>3 DEF ToSet, IdsOf
<1>7. /\ d \in Seq(GitHubCommit) /\ ToSet(d) = {commits[i] : i \in Firsts(v)}
      /\ Len(d) = Cardinality(Firsts(v))
  BY <1>4, <1>5, KeptEntries
<1>8. ToSet(d) \subseteq ToSet(commits)
  BY <1>1, <1>5, <1>7 DEF ToSet
<1>9. IdsOf(ToSet(commits)) \subseteq IdsOf(ToSet(d))
  <2> SUFFICES ASSUME NEW x \in ToSet(v) PROVE x \in IdsOf(ToSet(d))
    BY <1>6
  <2>1. PICK i \in Firsts(v) : v[i] = x
    BY <1>5
  <2>2. commits[i] \in ToSet(d) /\ commits[i].id = x
    BY <1>3, <1>5, <1>7, <2>1
  <2> QED BY <2>2 DEF IdsOf
<1>10. IdsOf(ToSet(d)) \subseteq IdsOf(ToSet(commits))
  BY <1>8 DEF IdsOf
<1> QED BY <1>5, <1>6, <1>7, <1>8, <1>9, <1>10 DEF d

\* Pieces of no more than a request takes; one piece is enough for so many.
LEMMA ChunksFacts ==
  ASSUME NEW S, NEW s \in Seq(S)
  PROVE  /\ Len(Chunks(s)) \in Nat \ {0} /\ DOMAIN Chunks(s) = 1..Len(Chunks(s))
         /\ \A i \in 1..Len(Chunks(s)) :
              /\ Len(Chunks(s)[i]) <= COMMITS_PER_REQUEST
              /\ ToSet(Chunks(s)[i]) \subseteq ToSet(s)
         /\ Len(s) <= COMMITS_PER_REQUEST => Len(Chunks(s)) = 1 /\ Chunks(s)[1] = s
<1> DEFINE n == COMMITS_PER_REQUEST
           len == Len(s)
           count == (len + n - 1) \div n
           m == IF count > 0 THEN count ELSE 1
<1>1. n \in Nat \ {0} /\ len \in Nat /\ DOMAIN s = 1..len
  BY LimitsAssumption
<1>2. Chunks(s) = [i \in 1..m |-> SubSeq(s, (i - 1) * n + 1, Shorter(i * n, len))]
  BY DEF Chunks
<1>3. count \in Int /\ m \in Nat \ {0}
  <2> HIDE DEF n, len
  <2> QED BY <1>1
<1>4. len <= n => m = 1
  <2> HIDE DEF n, len
  <2>1. ASSUME len <= n PROVE count <= 1
    <3>1. len + n - 1 < 2 * n
      BY <1>1, <2>1
    <3> QED BY <1>1, <3>1
  <2> QED BY <1>3, <2>1
<1> HIDE DEF m, count
<1>5. Len(Chunks(s)) = m /\ DOMAIN Chunks(s) = 1..m
  BY <1>2, <1>3
<1>6. ASSUME NEW i \in 1..m
      PROVE  Len(Chunks(s)[i]) <= n /\ ToSet(Chunks(s)[i]) \subseteq ToSet(s)
  <2> DEFINE c == (i - 1) * n
             hi == Shorter(c + n, len)
  <2>1. c \in Nat /\ i * n = c + n
    <3>1. i - 1 \in Nat
      BY <1>3
    <3> HIDE DEF n
    <3> QED BY <1>1, <3>1
  <2>2. Chunks(s)[i] = SubSeq(s, c + 1, hi)
    BY <1>2, <2>1
  <2> HIDE DEF c, n, len
  <2>3. hi \in Nat /\ hi <= len /\ hi <= c + n
    BY <1>1, <2>1 DEF Shorter
  <2> HIDE DEF hi
  <2> DEFINE part == SubSeq(s, c + 1, hi)
  <2>4. CASE c >= hi
    <3>1. part \in Seq(S) /\ Len(part) = 0
      BY <1>1, <2>1, <2>3, <2>4 DEF len
    <3> HIDE DEF part
    <3>2. DOMAIN part = {}
      BY <3>1
    <3>3. ToSet(part) = {}
      BY <3>2 DEF ToSet
    <3>4. Len(part) <= n
      BY <1>1, <3>1
    <3>5. Chunks(s)[i] = part
      BY <2>2 DEF part
    <3> QED BY <3>3, <3>4, <3>5
  <2>5. CASE c < hi
    <3>1. /\ \A k \in 1..(hi - c) : part[k] = s[c + k] /\ c + k \in 1..len
          /\ Len(part) = hi - c /\ DOMAIN part = 1..(hi - c)
      BY <1>1, <2>1, <2>3, <2>5 DEF len
    <3>2. ToSet(part) \subseteq ToSet(s)
      BY <1>1, <3>1 DEF ToSet
    <3>3. Len(part) <= n
      BY <1>1, <2>1, <2>3, <3>1
    <3> QED BY <2>2, <3>2, <3>3
  <2> QED BY <2>1, <2>3, <2>4, <2>5
<1>7. ASSUME len <= n PROVE m = 1 /\ Chunks(s)[1] = s
  <2>1. m = 1
    BY <1>4, <1>7
  <2> DEFINE piece(i) == SubSeq(s, (i - 1) * n + 1, Shorter(i * n, len))
  <2>2. Chunks(s)[1] = piece(1)
    <3>1. 1 \in 1..m
      BY <2>1
    <3>2. Chunks(s) = [i \in 1..m |-> piece(i)]
      BY <1>2
    <3> HIDE DEF piece
    <3> QED BY <3>1, <3>2
  <2>3. (1 - 1) * n + 1 = 1 /\ Shorter(1 * n, len) = len
    <3> HIDE DEF n, len
    <3>1. (1 - 1) * n + 1 = 1 /\ 1 * n = n
      BY <1>1
    <3>2. Shorter(n, len) = len
      BY <1>1, <1>7 DEF Shorter
    <3> QED BY <3>1, <3>2
  <2>4. Chunks(s)[1] = SubSeq(s, 1, len)
    BY <2>2, <2>3
  <2>5. SubSeq(s, 1, len) = s
    BY <1>1
  <2> QED BY <2>1, <2>4, <2>5
<1> QED BY <1>3, <1>5, <1>6, <1>7

\* Every request carries the same commits, few enough; with one chunk they are all of them.
LEMMA RequestsFacts ==
  ASSUME NEW p, p = [branches |-> p.branches, commits |-> p.commits],
         p.commits \in Seq(GitHubCommit)
  PROVE  \E last :
           /\ Len(Requests(p)) \in Nat \ {0}
           /\ \A i \in 1..Len(Requests(p)) :
                Requests(p)[i] = [branches |-> p.branches, commits |-> last]
           /\ Len(last) <= COMMITS_PER_REQUEST
           /\ ToSet(last) \subseteq ToSet(p.commits)
           /\ Cardinality(IdsOf(ToSet(p.commits))) <= COMMITS_PER_REQUEST =>
                /\ Len(Requests(p)) = 1
                /\ IdsOf(ToSet(last)) = IdsOf(ToSet(p.commits))
                /\ Len(last) = Cardinality(IdsOf(ToSet(p.commits)))
<1> DEFINE d == DedupCommits(p.commits)
           chunks == Chunks(d)
           n == Len(chunks)
           last == chunks[n]
<1>1. /\ d \in Seq(GitHubCommit) /\ ToSet(d) \subseteq ToSet(p.commits)
      /\ IdsOf(ToSet(d)) = IdsOf(ToSet(p.commits))
      /\ Len(d) = Cardinality(IdsOf(ToSet(p.commits)))
  BY DedupFacts
<1> HIDE DEF d
<1>2. /\ n \in Nat \ {0}
      /\ \A i \in 1..n : /\ Len(chunks[i]) <= COMMITS_PER_REQUEST
                         /\ ToSet(chunks[i]) \subseteq ToSet(d)
      /\ Len(d) <= COMMITS_PER_REQUEST => n = 1 /\ chunks[1] = d
  BY <1>1, ChunksFacts
<1>3. n \in 1..n
  BY <1>2
<1>4. Len(last) <= COMMITS_PER_REQUEST /\ ToSet(last) \subseteq ToSet(p.commits)
  BY <1>1, <1>2, <1>3
<1>5. Len(d) <= COMMITS_PER_REQUEST => n = 1 /\ last = d
  BY <1>2
<1>6. Requests(p) = [i \in 1..n |-> [p EXCEPT !.commits = last]]
  BY DEF Requests, Last, d
<1> HIDE DEF n, last, chunks
<1>7. [p EXCEPT !.commits = last] = [branches |-> p.branches, commits |-> last]
  <2> DEFINE b == p.branches
             c == p.commits
  <2>1. p = [branches |-> b, commits |-> c]
    OBVIOUS
  <2>2. [p EXCEPT !.commits = last] = [branches |-> b, commits |-> last]
    <3> HIDE DEF b, c
    <3> QED BY <2>1
  <2> QED BY <2>2
<1>8. /\ Len(Requests(p)) = n
      /\ \A i \in 1..n : Requests(p)[i] = [branches |-> p.branches, commits |-> last]
  BY <1>2, <1>6, <1>7
<1> QED BY <1>1, <1>2, <1>4, <1>5, <1>8

\* What LimitsLoseNothing says of an update, in the terms of its arguments.
NothingLost(data, to) ==
  LET sent(field) == UNION {ToSet(to.requests[i][field]) : i \in 1..Len(to.requests)}
      ids == IdsOf(ToSet(data.commits))
  IN  /\ \A i \in 1..Len(to.requests) : Len(to.requests[i].commits) <= COMMITS_PER_REQUEST
      /\ Cardinality(ids) <= COMMITS_PER_REQUEST =>
           /\ Len(to.requests) = 1
           /\ IdsOf(sent("commits")) = ids
           /\ Len(to.requests[1].commits) = Cardinality(ids)
      /\ \A e \in sent("commits") \cup sent("branches")
                    \cup {b.lastCommit : b \in sent("branches")} :
           Len(e.keys) <= ISSUE_KEY_API_LIMIT
      /\ \/ to.warned
         \/ /\ sent("commits") \subseteq ToSet(data.commits)
            /\ sent("branches") = ToSet(data.branches)

LEMMA UpdateLosesNothing ==
  ASSUME NEW data, IsPayload(data)
  PROVE  NothingLost(data, Update(data))
<1> DEFINE p == Prepared(data)
           to == Update(data)
           requests == to.requests
           sent(field) == UNION {ToSet(requests[i][field]) : i \in 1..Len(requests)}
           ids == IdsOf(ToSet(data.commits))
<1>1. /\ p = [branches |-> p.branches, commits |-> p.commits]
      /\ p.commits \in Seq(GitHubCommit) /\ Len(p.commits) = Len(data.commits)
      /\ \A i \in 1..Len(data.commits) : p.commits[i].id = data.commits[i].id
      /\ DOMAIN p.branches = 1..Len(p.branches)
      /\ KeysFit(p)
      /\ Warns(data) \/ p = data
  BY PreparedFacts
<1>2. requests = Requests(p) /\ to.warned = Warns(data)
  BY DEF Update
<1>3. data.commits \in Seq(GitHubCommit)
  BY DEF IsPayload
<1> HIDE DEF p, to
<1>4. IdsOf(ToSet(p.commits)) = ids
  <2>1. DOMAIN data.commits = 1..Len(data.commits) /\ DOMAIN p.commits = 1..Len(data.commits)
    BY <1>1, <1>3
  <2> QED BY <1>1, <2>1 DEF IdsOf, ToSet
<1>5. PICK last :
        /\ Len(requests) \in Nat \ {0}
        /\ \A i \in 1..Len(requests) :
             requests[i] = [branches |-> p.branches, commits |-> last]
        /\ Len(last) <= COMMITS_PER_REQUEST
        /\ ToSet(last) \subseteq ToSet(p.commits)
        /\ Cardinality(ids) <= COMMITS_PER_REQUEST =>
             /\ Len(requests) = 1
             /\ IdsOf(ToSet(last)) = ids
             /\ Len(last) = Cardinality(ids)
  BY <1>1, <1>2, <1>4, RequestsFacts
<1> HIDE DEF requests, ids
<1>6. sent("commits") = ToSet(last) /\ sent("branches") = ToSet(p.branches)
  <2>1. 1 \in 1..Len(requests)
    BY <1>5
  <2>2. \A i \in 1..Len(requests) :
          requests[i]["commits"] = last /\ requests[i]["branches"] = p.branches
    BY <1>5
  <2> QED BY <2>1, <2>2
<1> HIDE DEF sent
<1>7. \A i \in 1..Len(requests) : Len(requests[i].commits) <= COMMITS_PER_REQUEST
  BY <1>5
<1>8. Cardinality(ids) <= COMMITS_PER_REQUEST =>
        /\ Len(requests) = 1
        /\ IdsOf(sent("commits")) = ids
        /\ Len(requests[1].commits) = Cardinality(ids)
  BY <1>5, <1>6
<1>9. ASSUME NEW e \in sent("commits") \cup sent("branches")
                          \cup {b.lastCommit : b \in sent("branches")}
      PROVE  Len(e.keys) <= ISSUE_KEY_API_LIMIT
  <2>1. ASSUME e \in sent("commits") PROVE Len(e.keys) <= ISSUE_KEY_API_LIMIT
    <3>1. e \in ToSet(p.commits)
      BY <1>5, <1>6, <2>1
    <3>2. PICK i \in 1..Len(p.commits) : e = p.commits[i]
      BY <1>1, <3>1 DEF ToSet
    <3> QED BY <1>1, <3>2 DEF KeysFit, WithinIssueKeyLimit
  <2>2. ASSUME NEW b \in sent("branches")
        PROVE  /\ Len(b.keys) <= ISSUE_KEY_API_LIMIT
               /\ Len(b.lastCommit.keys) <= ISSUE_KEY_API_LIMIT
    <3>1. PICK i \in 1..Len(p.branches) : b = p.branches[i]
      BY <1>1, <1>6, <2>2 DEF ToSet
    <3> QED BY <1>1, <3>1 DEF KeysFit, WithinIssueKeyLimit
  <2> QED BY <2>1, <2>2
<1>10. ASSUME ~to.warned
       PROVE  sent("commits") \subseteq ToSet(data.commits) /\ sent("branches") = ToSet(data.branches)
  <2>1. p = data
    BY <1>1, <1>2, <1>10
  <2> QED BY <1>5, <1>6, <2>1
<1> QED BY <1>7, <1>8, <1>9, <1>10 DEF NothingLost, sent, requests, to, ids

\* As many associations as fit, when keys and services alone do.
LEMMA AsManyAssociationsAsFit ==
  ASSUME NEW issues \in Nat, NEW services \in Nat, NEW commits \in Nat,
         issues + services <= MAX_ASSOCIATIONS_PER_ENTITY
  PROVE  LET to == Associations(issues, services, commits)
         IN  to.issues + to.services + to.commits
               = Shorter(issues + services + commits, MAX_ASSOCIATIONS_PER_ENTITY)
<1> DEFINE max == MAX_ASSOCIATIONS_PER_ENTITY
<1>1. max \in Nat
  BY LimitsAssumption
<1>2. Sliced(issues, max) = issues
  BY <1>1 DEF Sliced, Shorter
<1>3. Sliced(services, max - issues) = services
  BY <1>1 DEF Sliced, Shorter
<1> DEFINE rest == Sliced(commits, max - issues - services)
<1>4. rest = Shorter(commits, max - issues - services)
  BY <1>1 DEF Sliced
<1>5. issues + services + rest = Shorter(issues + services + commits, max)
  BY <1>1, <1>4 DEF Shorter
<1> HIDE DEF rest
<1>6. Associations(issues, services, commits)
        = [issues |-> issues, services |-> services, commits |-> rest]
  BY <1>2, <1>3 DEF Associations, rest
<1> QED BY <1>5, <1>6

\* A call that is done was given what is sent from a page, a push or a deployment.
CallsOK ==
  \/ /\ ~call.done
     /\ \/ call.kind = "branches" /\ call.of \in BranchPages
        \/ call.kind = "push" /\ call.of \in CommitLists
        \/ call.kind = "deployment" /\ call.of \in AssociationCounts
  \/ /\ call.done
     /\ \/ /\ call.kind \in {"branches", "push"}
           /\ IsPayload(call.of) /\ call.to = Update(call.of)
        \/ /\ call.kind = "deployment" /\ call.of \in AssociationCounts
           /\ call.to = Associations(call.of[1], call.of[2], call.of[3])

LEMMA CallsStep == CallsOK /\ [CallsNext]_call => CallsOK'
<1> SUFFICES ASSUME CallsOK, [CallsNext]_call PROVE CallsOK'
  OBVIOUS
<1>1. CASE call' = call
  BY <1>1 DEF CallsOK
<1>2. CASE SubmitUpdate
  <2>1. /\ call'.kind = call.kind /\ call'.done /\ call'.of = Payload(call)
        /\ call'.to = Update(Payload(call)) /\ call.kind \in {"branches", "push"} /\ ~call.done
    BY <1>2 DEF SubmitUpdate, Done
  <2>2. CASE call.kind = "branches"
    <3>1. IsPayload(TransformBranches(call.of))
      BY <2>1, <2>2, InputsAssumption, BranchesArePayload DEF CallsOK
    <3> QED BY <2>1, <2>2, <3>1 DEF CallsOK, Payload
  <2>3. CASE call.kind = "push"
    <3>1. IsPayload(PushPayload(call.of))
      BY <2>1, <2>3, InputsAssumption, PushIsPayload DEF CallsOK
    <3> QED BY <2>1, <2>3, <3>1 DEF CallsOK, Payload
  <2> QED BY <2>1, <2>2, <2>3
<1>3. CASE SubmitDeployment
  <2>1. /\ call'.kind = "deployment" /\ call'.done /\ call'.of = call.of
        /\ call'.to = Associations(call.of[1], call.of[2], call.of[3])
        /\ call.of \in AssociationCounts
    BY <1>3 DEF SubmitDeployment, Done, CallsOK
  <2> QED BY <2>1 DEF CallsOK
<1> QED BY <1>1, <1>2, <1>3 DEF CallsNext

LEMMA CallsHold == CallsOK => LimitsLoseNothing
<1> SUFFICES ASSUME CallsOK PROVE LimitsLoseNothing
  OBVIOUS
<1>1. CASE Updated
  <2>1. IsPayload(call.of) /\ call.to = Update(call.of) /\ call.kind # "deployment"
    BY <1>1 DEF Updated, CallsOK
  <2>2. NothingLost(call.of, call.to)
    BY <2>1, UpdateLosesNothing
  <2> QED BY <2>1, <2>2 DEF NothingLost, LimitsLoseNothing, SentTo
<1>2. CASE call.kind = "deployment" /\ call.done
  <2>1. /\ call.of \in AssociationCounts
        /\ call.to = Associations(call.of[1], call.of[2], call.of[3])
    BY <1>2 DEF CallsOK
  <2>2. call.of[1] \in Nat /\ call.of[2] \in Nat /\ call.of[3] \in Nat
    BY <2>1, InputsAssumption
  <2>3. call.of[1] + call.of[2] <= MAX_ASSOCIATIONS_PER_ENTITY =>
          call.to.issues + call.to.services + call.to.commits
            = Shorter(call.of[1] + call.of[2] + call.of[3], MAX_ASSOCIATIONS_PER_ENTITY)
    <3> DEFINE i == call.of[1]
               s == call.of[2]
               c == call.of[3]
               to == Associations(i, s, c)
    <3>1. call.to = to /\ i \in Nat /\ s \in Nat /\ c \in Nat
      BY <2>1, <2>2
    <3> HIDE DEF i, s, c
    <3>2. i + s <= MAX_ASSOCIATIONS_PER_ENTITY =>
            to.issues + to.services + to.commits
              = Shorter(i + s + c, MAX_ASSOCIATIONS_PER_ENTITY)
      BY <3>1, AsManyAssociationsAsFit
    <3> HIDE DEF to
    <3> QED BY <3>1, <3>2 DEF i, s, c
  <2>4. ~Updated
    BY <1>2 DEF Updated
  <2> QED BY <1>2, <2>3, <2>4 DEF LimitsLoseNothing
<1>3. CASE ~Updated /\ ~(call.kind = "deployment" /\ call.done)
  BY <1>3 DEF LimitsLoseNothing
<1> QED BY <1>1, <1>2, <1>3

\* What goes to Jira fits its limits and the limits lose nothing unnoticed, whatever they are
\* and whatever branches, commits and associations GitHub reports: a commit goes once as long
\* as one request is enough, what is cut off any list of keys shows as a warning, and a
\* deployment has as many associations as fit.
THEOREM LimitsNeverLoseUnnoticed == CallsSpec => []LimitsLoseNothing
<1>1. CallsInit => CallsOK
  BY DEF CallsInit, CallsOK, Input
<1>2. CallsSpec => []CallsOK
  BY <1>1, CallsStep, PTL DEF CallsSpec
<1> QED BY <1>2, CallsHold, PTL
=============================================================================
