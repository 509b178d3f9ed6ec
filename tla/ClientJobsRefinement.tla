------------------------ MODULE ClientJobsRefinement ------------------------
(***************************************************************************)
(* ClientJobs implements JobLifecycle, with one dispatcher; and the two    *)
(* promises about the end of a job that the same invariants carry.         *)
(***************************************************************************)
EXTENDS ClientJobsProofs

(* Every retry pays for exactly one lease: a job nobody holds was leased as     *)
(* often as it was retried; one that is leased, or that the dispatcher has      *)
(* selected for reclaim, once more.                                             *)
TriesExact ==
  /\ \A j \in Jobs : status[j] \in {"absent", "queued"} => grants[j] = retries[j]
  /\ \A j \in Jobs : status[j] \in Leased => grants[j] = retries[j] + 1
  /\ \A d \in Dispatchers : \A r \in rows[d] : grants[r.job] = retries[r.job] + 1

(* Only a job that was leased is in a daemon's inbox. *)
HeldWasLeased == \A m \in Daemons : \A k \in inbox[m] : grants[k.job] > 0

LEMMA TriesStep == ASSUME OneDispatcher
  PROVE TypeOK /\ Budget /\ TriesExact /\ HeldWasLeased /\ [Next]_vars
          => TriesExact' /\ HeldWasLeased'
<1> SUFFICES ASSUME TypeOK, Budget, TriesExact, HeldWasLeased, [Next]_vars
             PROVE  TriesExact' /\ HeldWasLeased'
  OBVIOUS
<1> USE DEF TypeOK, TriesExact, HeldWasLeased, Leased
<1> DEFINE Quiet == UNCHANGED <<status, retries, grants, rows, inbox>>
<1>1. CASE Quiet
  BY <1>1
<1>2. ASSUME NEW j \in Jobs, NEW w \in {"none", "waiting"}, CreateJob(j, w)
      PROVE  TriesExact' /\ HeldWasLeased'
  <2>1. /\ status[j] = "absent"
        /\ status' = [status EXCEPT ![j] = "queued"]
        /\ UNCHANGED <<retries, grants, rows, inbox>>
    BY <1>2 DEF CreateJob, tickVars, daemonVars, history
  <2> QED BY <2>1
<1>3. ASSUME NEW d \in Dispatchers, ReclaimSelect(d) PROVE TriesExact' /\ HeldWasLeased'
  <2>1. /\ rows' = [rows EXCEPT ![d] = {[job |-> j, rc |-> retries[j]] : j \in ExpiredLeases}]
        /\ UNCHANGED <<status, retries, grants, inbox>>
    BY <1>3 DEF ReclaimSelect, jobVars, daemonVars, history
  <2>2. \A r \in rows'[d] : grants[r.job] = retries[r.job] + 1
    BY <2>1 DEF ExpiredLeases
  <2>3. \A e \in Dispatchers : e = d
    BY DEF OneDispatcher
  <2> QED BY <2>1, <2>2, <2>3
<1>4. ASSUME NEW d \in Dispatchers, NEW r \in rows[d], ReclaimUpdate(d, r)
      PROVE  TriesExact' /\ HeldWasLeased'
  <2>1. /\ rows' = [rows EXCEPT ![d] = rows[d] \ {r}]
        /\ UNCHANGED <<grants, inbox>>
        /\ \A j \in Jobs : status'[j] \in Leased => j # r.job /\ status[j] \in Leased
        /\ \A j \in Jobs : j # r.job => retries'[j] = retries[j] /\ status'[j] = status[j]
    BY <1>4 DEF ReclaimUpdate, Requeue, GiveUp, history, daemonVars
  <2>2. r \in [job: Jobs, rc: Nat] /\ r.rc = retries[r.job]
    BY DEF Budget, ReclaimIsCurrent
  <2>3. \A e \in Dispatchers : e = d
    BY DEF OneDispatcher
  <2>4. \A q \in rows'[d] : q \in rows[d] /\ q.job \in Jobs /\ q.job # r.job
    <3> SUFFICES ASSUME NEW q \in rows'[d] PROVE q \in rows[d] /\ q.job \in Jobs /\ q.job # r.job
      OBVIOUS
    <3>1. q \in rows[d] /\ q # r /\ q \in [job: Jobs, rc: Nat]
      BY <2>1
    <3>2. q.rc = retries[q.job]
      BY <3>1 DEF Budget, ReclaimIsCurrent
    <3> QED BY <2>2, <3>1, <3>2
  <2>5. status'[r.job] = "queued" => grants'[r.job] = retries'[r.job]
    BY <1>4, <2>1, <2>2 DEF ReclaimUpdate, Requeue, GiveUp
  <2>6. status'[r.job] \in {"queued", "failed"}
    BY <1>4, <2>2 DEF ReclaimUpdate, Requeue, GiveUp
  <2> QED BY <2>1, <2>3, <2>4, <2>5, <2>6
<1>5. ASSUME NEW d \in Dispatchers, NEW j \in cand[d], NEW c \in online, Dispatch(d, j, c)
      PROVE  TriesExact' /\ HeldWasLeased'
  <2>1. /\ tick[d] = "dispatch" /\ status[j] = "queued" /\ j \in Jobs
        /\ status' = [status EXCEPT ![j] = "dispatched"]
        /\ grants' = [grants EXCEPT ![j] = grants[j] + 1]
        /\ UNCHANGED <<retries, rows, inbox>>
    BY <1>5 DEF Dispatch, Grant, daemonVars
  <2>2. \A e \in Dispatchers : rows[e] = {}
    BY <2>1 DEF OneDispatcher, Budget, ReclaimIsCurrent
  <2>3. grants[j] = retries[j]
    BY <2>1
  <2> QED BY <2>1, <2>2, <2>3
<1>6. ASSUME NEW m \in Daemons, ClaimUpdate(m),
             \/ UNCHANGED inbox
             \/ inbox' = [inbox EXCEPT ![m] = {[job |-> j, grant |-> grants[j]] : j \in Claimable(m)}]
      PROVE  TriesExact' /\ HeldWasLeased'
  <2>1. /\ status' = [j \in Jobs |-> IF j \in Claimable(m) THEN "running" ELSE status[j]]
        /\ UNCHANGED <<retries, grants, rows>>
    BY <1>6 DEF ClaimUpdate, tickVars, history
  <2>2. \A j \in Claimable(m) : j \in Jobs /\ status[j] = "dispatched"
    BY DEF Claimable
  <2>3. \A j \in Jobs : /\ status'[j] \in Leased => status[j] \in Leased
                        /\ status'[j] \in {"absent", "queued"} => status'[j] = status[j]
    BY <2>1, <2>2
  <2>4. \A j \in Claimable(m) : grants[j] > 0
    BY <2>2
  <2> QED BY <1>6, <2>1, <2>3, <2>4
<1>7. ASSUME NEW m \in Daemons, NEW k \in inbox[m], NEW out \in Outcomes, Execute(m, k, out)
      PROVE  TriesExact' /\ HeldWasLeased'
  BY <1>7 DEF Execute, jobVars, tickVars
<1>8. ASSUME NEW r, r.job \in Jobs, r.out \in Outcomes, RecordResult(r),
             UNCHANGED <<grants, rows, inbox>>
      PROVE  TriesExact' /\ HeldWasLeased'
  <2>1. /\ \A j \in Jobs : status'[j] = status[j] \/ status'[j] \in Outcomes
        /\ UNCHANGED retries
    BY <1>8 DEF RecordResult
  <2> QED BY <1>8, <2>1 DEF Outcomes
<1>9. ASSUME NEW m \in Daemons, SubmitAccepted(m) PROVE TriesExact' /\ HeldWasLeased'
  <2>1. ResultOf(m).job \in Jobs /\ ResultOf(m).out \in Outcomes
    BY <1>9 DEF SubmitAccepted, ResultOf
  <2> QED BY <1>8, <1>9, <2>1 DEF SubmitAccepted, tickVars, history
<1>10. ASSUME NEW r \in late, LateResult(r) PROVE TriesExact' /\ HeldWasLeased'
  BY <1>8, <1>10 DEF LateResult, tickVars, daemonVars, history, Result
<1>11. ASSUME NEW m \in Daemons, DaemonDies(m) PROVE TriesExact' /\ HeldWasLeased'
  BY <1>11 DEF DaemonDies, jobVars, tickVars, history
<1>12. ASSUME NEW d \in Dispatchers, TickFails(d) PROVE TriesExact' /\ HeldWasLeased'
  BY <1>12 DEF TickFails, jobVars, daemonVars, history
<1>13. ASSUME NEW m \in Daemons, PollSelect(m) \/ SubmitRefused(m) \/ SubmitUnanswered(m)
       PROVE  Quiet
  BY <1>13 DEF PollSelect, SubmitRefused, SubmitUnanswered, jobVars, tickVars, daemonVars, history
<1>14. ASSUME NEW j \in Jobs, WaiterReads(j) \/ WaiterTimesOut(j) \/ LeaseExpires(j) PROVE Quiet
  BY <1>14 DEF WaiterReads, WaiterTimesOut, LeaseExpires, jobVars, tickVars, daemonVars, history
<1>15. ASSUME NEW c \in Connectors, ComesOnline(c) \/ GoesOffline(c) PROVE Quiet
  BY <1>15 DEF ComesOnline, GoesOffline, jobVars, tickVars, daemonVars, history
<1>16. ASSUME NEW r \in late, ResultLost(r) PROVE Quiet
  BY <1>16 DEF ResultLost, jobVars, tickVars, daemonVars, history
<1>17. ASSUME NEW d \in Dispatchers,
              PickFair(d) \/ TickEnds(d) \/ \E j \in cand[d] : SkipCandidate(d, j)
       PROVE  Quiet
  BY <1>17 DEF PickFair, TickEnds, SkipCandidate, jobVars, daemonVars, history
<1>18. ASSUME UNCHANGED vars PROVE Quiet
  BY <1>18 DEF vars, jobVars, tickVars, daemonVars, history
<1> QED
  BY <1>1, <1>2, <1>3, <1>4, <1>5, <1>6, <1>7, <1>9, <1>10, <1>11, <1>12, <1>13, <1>14, <1>15,
     <1>16, <1>17, <1>18 DEF Next, DispatcherStep, DaemonStep, PollAnswered, PollAnswerLost

LEMMA TriesKept == ASSUME OneDispatcher PROVE Spec => [](TriesExact /\ HeldWasLeased)
<1>1. Init => TriesExact /\ HeldWasLeased
  BY DEF Init, TriesExact, HeldWasLeased, Leased
<1> QED BY <1>1, TypeCorrect, BudgetKept, TriesStep, PTL DEF Spec

-----------------------------------------------------------------------------
(* A failed job failed on a machine or used up its retries. *)
LEMMA FailureStep == ASSUME OneDispatcher
  PROVE TypeOK /\ Budget /\ ResultsRan /\ FailureExplained /\ [Next]_vars => FailureExplained'
<1> SUFFICES ASSUME TypeOK, Budget, ResultsRan, FailureExplained, [Next]_vars
             PROVE  FailureExplained'
  OBVIOUS
<1> USE DEF TypeOK, FailureExplained, Ran
<1> DEFINE Quiet == UNCHANGED <<status, retries>> /\ runs \subseteq runs'
<1>1. CASE Quiet
  BY <1>1
<1>2. ASSUME NEW j \in Jobs, NEW w \in {"none", "waiting"}, CreateJob(j, w)
      PROVE  FailureExplained'
  BY <1>2 DEF CreateJob, history
<1>3. ASSUME NEW d \in Dispatchers, NEW r \in rows[d], ReclaimUpdate(d, r)
      PROVE  FailureExplained'
  <2>0. r \in [job: Jobs, rc: Nat] /\ r.rc = retries[r.job]
    BY DEF Budget, ReclaimIsCurrent
  <2>1. r.job \in Jobs /\ r.rc \in Nat /\ r.rc = retries[r.job] /\ retries[r.job] <= MaxRetries
    BY <2>0 DEF Budget, RetriesPayForLeases
  <2>2. UNCHANGED runs
    BY <1>3 DEF ReclaimUpdate, history
  <2>3. CASE Requeue(r)
    BY <2>1, <2>2, <2>3 DEF Requeue
  <2>4. CASE GiveUp(r)
    <3>1. retries[r.job] = MaxRetries
      BY <2>1, <2>4, SizesAssumption DEF GiveUp
    <3> QED BY <2>1, <2>2, <2>4, <3>1 DEF GiveUp
  <2> QED BY <1>3, <2>3, <2>4 DEF ReclaimUpdate
<1>4. ASSUME NEW d \in Dispatchers, NEW j \in cand[d], NEW c \in online, Dispatch(d, j, c)
      PROVE  FailureExplained'
  BY <1>4 DEF Dispatch, Grant
<1>5. ASSUME NEW m \in Daemons, ClaimUpdate(m) PROVE FailureExplained'
  BY <1>5 DEF ClaimUpdate, history
<1>6. ASSUME NEW r, r.job \in Jobs, Ran(r.job, r.out), RecordResult(r), UNCHANGED runs
      PROVE  FailureExplained'
  <2>1. /\ \A j \in Jobs : status'[j] = status[j] \/ (j = r.job /\ status'[j] = r.out)
        /\ UNCHANGED retries
    BY <1>6 DEF RecordResult
  <2> QED BY <1>6, <2>1
<1>7. ASSUME NEW m \in Daemons, SubmitAccepted(m) PROVE FailureExplained'
  <2>1. ResultOf(m).job \in Jobs /\ Ran(ResultOf(m).job, ResultOf(m).out)
    BY <1>7 DEF SubmitAccepted, ResultOf, ResultsRan
  <2> QED BY <1>6, <1>7, <2>1 DEF SubmitAccepted, history
<1>8. ASSUME NEW r \in late, LateResult(r) PROVE FailureExplained'
  <2>1. r.job \in Jobs /\ Ran(r.job, r.out)
    BY DEF ResultsRan, Result
  <2> QED BY <1>6, <1>8, <2>1 DEF LateResult, history
<1>9. ASSUME NEW m \in Daemons,
             \/ PollSelect(m) \/ SubmitRefused(m) \/ SubmitUnanswered(m) \/ DaemonDies(m)
             \/ \E k \in inbox[m], out \in Outcomes : Execute(m, k, out)
      PROVE  Quiet
  BY <1>9 DEF PollSelect, SubmitRefused, SubmitUnanswered, DaemonDies, Execute, jobVars, history
<1>10. ASSUME NEW j \in Jobs, WaiterReads(j) \/ WaiterTimesOut(j) \/ LeaseExpires(j) PROVE Quiet
  BY <1>10 DEF WaiterReads, WaiterTimesOut, LeaseExpires, jobVars, history
<1>11. ASSUME NEW c \in Connectors, ComesOnline(c) \/ GoesOffline(c) PROVE Quiet
  BY <1>11 DEF ComesOnline, GoesOffline, jobVars, history
<1>12. ASSUME NEW r \in late, ResultLost(r) PROVE Quiet
  BY <1>12 DEF ResultLost, jobVars, history
<1>13. ASSUME NEW d \in Dispatchers,
              \/ ReclaimSelect(d) \/ PickFair(d) \/ TickEnds(d) \/ TickFails(d)
              \/ \E j \in cand[d] : SkipCandidate(d, j)
       PROVE  Quiet
  BY <1>13 DEF ReclaimSelect, PickFair, TickEnds, TickFails, SkipCandidate, jobVars, history
<1>14. ASSUME UNCHANGED vars PROVE Quiet
  BY <1>14 DEF vars, jobVars, history
<1> QED
  BY <1>1, <1>2, <1>3, <1>4, <1>5, <1>7, <1>8, <1>9, <1>10, <1>11, <1>12, <1>13, <1>14
  DEF Next, DispatcherStep, DaemonStep, PollAnswered, PollAnswerLost

(* With one dispatcher, a job is failed only for a reason. *)
THEOREM FailureSafety == ASSUME OneDispatcher PROVE Spec => []FailureExplained
<1>1. Init => FailureExplained /\ ResultsRan /\ NoFalseSuccess
  BY DEF Init, FailureExplained, ResultsRan, NoFalseSuccess
<1> QED BY <1>1, TypeCorrect, BudgetKept, ResultsStep, FailureStep, PTL DEF Spec

(* However many dispatchers and daemons work from stale lists, none of them hands *)
(* out a job that has ended.                                                      *)
THEOREM EndedSafety == Spec => EndedIsNotHandedOut
<1>1. TypeOK /\ [Next]_vars =>
        [\A j \in Jobs : Terminal(j) => status'[j] \notin Leased]_vars
  <2> SUFFICES ASSUME TypeOK, Next, NEW j \in Jobs, Terminal(j) PROVE status'[j] \notin Leased
    OBVIOUS
  <2> USE DEF TypeOK, Terminal, Outcomes, Leased
  <2>1. ASSUME NEW d \in Dispatchers, NEW r \in rows[d], ReclaimUpdate(d, r)
        PROVE  status'[j] \notin Leased
    BY <2>1 DEF ReclaimUpdate, Requeue, GiveUp
  <2>2. ASSUME NEW d \in Dispatchers, NEW i \in cand[d], NEW c \in online, Dispatch(d, i, c)
        PROVE  status'[j] \notin Leased
    BY <2>2 DEF Dispatch, Grant
  <2>3. ASSUME NEW m \in Daemons, ClaimUpdate(m) PROVE status'[j] \notin Leased
    BY <2>3 DEF ClaimUpdate, Claimable
  <2>4. ASSUME NEW r \in late, LateResult(r) PROVE status'[j] \notin Leased
    BY <2>4 DEF LateResult, RecordResult, Result, Runnable
  <2>5. ASSUME NEW m \in Daemons, SubmitAccepted(m) PROVE status'[j] \notin Leased
    BY <2>5 DEF SubmitAccepted, RecordResult, ResultOf, Runnable
  <2>6. ASSUME NEW i \in Jobs, NEW w \in {"none", "waiting"}, CreateJob(i, w)
        PROVE  status'[j] \notin Leased
    BY <2>6 DEF CreateJob
  <2>7. ASSUME NEW m \in Daemons,
               \/ PollSelect(m) \/ SubmitRefused(m) \/ SubmitUnanswered(m) \/ DaemonDies(m)
               \/ \E k \in inbox[m], out \in Outcomes : Execute(m, k, out)
        PROVE  UNCHANGED status
    BY <2>7 DEF PollSelect, SubmitRefused, SubmitUnanswered, DaemonDies, Execute, jobVars
  <2>8. ASSUME NEW i \in Jobs, WaiterReads(i) \/ WaiterTimesOut(i) \/ LeaseExpires(i)
        PROVE  UNCHANGED status
    BY <2>8 DEF WaiterReads, WaiterTimesOut, LeaseExpires, jobVars
  <2>9. ASSUME NEW c \in Connectors, ComesOnline(c) \/ GoesOffline(c) PROVE UNCHANGED status
    BY <2>9 DEF ComesOnline, GoesOffline, jobVars
  <2>10. ASSUME NEW r \in late, ResultLost(r) PROVE UNCHANGED status
    BY <2>10 DEF ResultLost, jobVars
  <2>11. ASSUME NEW d \in Dispatchers,
                \/ ReclaimSelect(d) \/ PickFair(d) \/ TickEnds(d) \/ TickFails(d)
                \/ \E i \in cand[d] : SkipCandidate(d, i)
         PROVE  UNCHANGED status
    BY <2>11 DEF ReclaimSelect, PickFair, TickEnds, TickFails, SkipCandidate, jobVars
  <2> QED
    BY <2>1, <2>2, <2>3, <2>4, <2>5, <2>6, <2>7, <2>8, <2>9, <2>10, <2>11
    DEF Next, DispatcherStep, DaemonStep, PollAnswered, PollAnswerLost
<1> QED BY <1>1, TypeCorrect, PTL DEF Spec, EndedIsNotHandedOut

-----------------------------------------------------------------------------
(* The refinement: every step of the queue is a step of the lifecycle of one  *)
(* job, or none of it.                                                        *)

Phase == [j \in Jobs |-> PhaseOf(status[j])]
Yields == [j \in Jobs |-> {v \in Outcomes : Ran(j, v)}]
LifecycleStep == Lifecycle!Next \/ UNCHANGED <<Phase, grants, Yields>>

LEMMA PhaseValues == \A s \in Statuses :
  /\ PhaseOf(s) = "none" <=> s = "absent"
  /\ PhaseOf(s) = "open" <=> s = "queued"
  /\ PhaseOf(s) = "out" <=> s \in Leased
  /\ s \in Outcomes => PhaseOf(s) = s
  /\ s \notin {"absent", "queued"} => PhaseOf(s) \in {"out", "succeeded", "failed"}
<1> SUFFICES ASSUME NEW s \in Statuses
             PROVE  /\ PhaseOf(s) = "none" <=> s = "absent"
                    /\ PhaseOf(s) = "open" <=> s = "queued"
                    /\ PhaseOf(s) = "out" <=> s \in Leased
                    /\ s \in Outcomes => PhaseOf(s) = s
                    /\ s \notin {"absent", "queued"} => PhaseOf(s) \in {"out", "succeeded", "failed"}
  OBVIOUS
<1>1. s \in {"absent", "queued", "dispatched", "running", "succeeded", "failed"}
  BY DEF Statuses, Runnable, Leased, Outcomes
<1>2. s = "absent" => PhaseOf(s) = "none"
  BY DEF PhaseOf, Leased
<1>3. s = "queued" => PhaseOf(s) = "open"
  BY DEF PhaseOf, Leased
<1>4. s \in Leased => PhaseOf(s) = "out"
  <2> SUFFICES ASSUME s \in Leased PROVE PhaseOf(s) = "out"
    OBVIOUS
  <2>1. s # "absent" /\ s # "queued"
    BY DEF Leased
  <2> QED BY <2>1 DEF PhaseOf
<1>5. s \in Outcomes => PhaseOf(s) = s
  BY DEF PhaseOf, Leased, Outcomes
<1> QED BY <1>1, <1>2, <1>3, <1>4, <1>5 DEF Leased, Outcomes

(* A result that is recorded concludes a runnable job with what it yielded, and *)
(* leaves any other job alone.                                                  *)
LEMMA ResultRefines ==
  ASSUME TypeOK, NEW r, r.job \in Jobs, Ran(r.job, r.out), r.out \in Outcomes,
         RecordResult(r), UNCHANGED <<grants, runs>>
  PROVE  LifecycleStep
<1>1. Yields' = Yields
  BY DEF Yields, Ran
<1>2. status \in [Jobs -> Statuses]
  BY DEF TypeOK
<1>3. CASE status[r.job] \in Runnable
  <2>1. status' = [status EXCEPT ![r.job] = r.out]
    BY <1>3 DEF RecordResult
  <2>2. Phase[r.job] \in {"open", "out"}
    BY <1>2, <1>3, PhaseValues DEF Phase, Runnable
  <2>3. r.out \in Yields[r.job]
    BY DEF Yields
  <2>4. PhaseOf(r.out) = r.out
    BY PhaseValues DEF Statuses
  <2>5. Phase' = [Phase EXCEPT ![r.job] = r.out]
    BY <1>2, <2>1, <2>4 DEF Phase
  <2>6. Lifecycle!Conclude(r.job)
    BY <1>1, <2>2, <2>3, <2>5 DEF Lifecycle!Conclude, Phase, Yields
  <2> QED BY <2>6 DEF LifecycleStep, Lifecycle!Next, Phase, Yields
<1>4. CASE status[r.job] \notin Runnable
  <2>1. status' = status
    BY <1>2, <1>4 DEF RecordResult
  <2> QED BY <1>1, <2>1 DEF LifecycleStep, Phase
<1> QED BY <1>3, <1>4

LEMMA RefinementStep == ASSUME OneDispatcher
  PROVE TypeOK /\ Budget /\ ResultsRan /\ TriesExact /\ HeldWasLeased /\ [Next]_vars
          => LifecycleStep
<1> SUFFICES ASSUME TypeOK, Budget, ResultsRan, TriesExact, HeldWasLeased, [Next]_vars
             PROVE  LifecycleStep
  OBVIOUS
<1>t. /\ status \in [Jobs -> Statuses] /\ grants \in [Jobs -> Nat] /\ retries \in [Jobs -> Nat]
      /\ MaxRetries \in Nat
  BY SizesAssumption DEF TypeOK
<1> DEFINE Quiet == UNCHANGED <<status, grants, runs>>
<1>1. CASE Quiet
  BY <1>1 DEF LifecycleStep, Phase, Yields, Ran
<1>2. ASSUME NEW j \in Jobs, NEW w \in {"none", "waiting"}, CreateJob(j, w) PROVE LifecycleStep
  <2>1. /\ status[j] = "absent"
        /\ status' = [status EXCEPT ![j] = "queued"]
        /\ UNCHANGED <<grants, runs>>
    BY <1>2 DEF CreateJob, history
  <2>2. Phase' = [Phase EXCEPT ![j] = "open"] /\ Phase[j] = "none"
    BY <1>t, <2>1, PhaseValues DEF Phase, Statuses, Runnable
  <2>3. Yields' = Yields
    BY <2>1 DEF Yields, Ran
  <2>4. Lifecycle!Submit(j)
    BY <2>1, <2>2, <2>3 DEF Lifecycle!Submit, Phase, Yields
  <2> QED BY <2>4 DEF LifecycleStep, Lifecycle!Next
<1>3. ASSUME NEW d \in Dispatchers, NEW r \in rows[d], ReclaimUpdate(d, r) PROVE LifecycleStep
  <2>1. r \in [job: Jobs, rc: Nat] /\ r.rc = retries[r.job]
    BY DEF TypeOK, Budget, ReclaimIsCurrent
  <2>2. /\ r.job \in Jobs
        /\ grants[r.job] = retries[r.job] + 1
        /\ status[r.job] \in Statuses \ {"absent", "queued"}
    BY <1>t, <2>1 DEF Budget, ReclaimIsCurrent, TriesExact
  <2>3. Phase[r.job] \in {"out", "succeeded", "failed"}
    BY <2>2, PhaseValues DEF Phase
  <2>4. UNCHANGED <<grants, runs>>
    BY <1>3 DEF ReclaimUpdate, history
  <2>5. Yields' = Yields
    BY <2>4 DEF Yields, Ran
  <2>6. CASE Requeue(r)
    <3>1. status' = [status EXCEPT ![r.job] = "queued"] /\ retries[r.job] < MaxRetries
      BY <2>1, <2>6 DEF Requeue
    <3>2. Phase' = [Phase EXCEPT ![r.job] = "open"]
      BY <1>t, <2>2, <3>1, PhaseValues DEF Phase, Statuses, Runnable
    <3>3. grants[r.job] < MaxRetries + 1
      BY <1>t, <2>2, <3>1
    <3>4. Lifecycle!Reopen(r.job)
      BY <2>3, <2>4, <2>5, <3>2, <3>3 DEF Lifecycle!Reopen, Lifecycle!Verdicts, Phase, Yields
    <3> QED BY <2>2, <3>4 DEF LifecycleStep, Lifecycle!Next
  <2>7. CASE GiveUp(r)
    <3>1. status' = [status EXCEPT ![r.job] = "failed"] /\ retries[r.job] >= MaxRetries
      BY <2>1, <2>7 DEF GiveUp
    <3>2. Phase' = [Phase EXCEPT ![r.job] = "failed"]
      BY <1>t, <2>2, <3>1, PhaseValues DEF Phase, Statuses, Outcomes
    <3>3. grants[r.job] = MaxRetries + 1
      BY <1>t, <2>2, <3>1 DEF Budget, RetriesPayForLeases
    <3>4. Lifecycle!Abandon(r.job)
      BY <2>3, <2>4, <2>5, <3>2, <3>3 DEF Lifecycle!Abandon, Lifecycle!Verdicts, Phase, Yields
    <3> QED BY <2>2, <3>4 DEF LifecycleStep, Lifecycle!Next
  <2> QED BY <1>3, <2>6, <2>7 DEF ReclaimUpdate
<1>4. ASSUME NEW d \in Dispatchers, NEW j \in cand[d], NEW c \in online, Dispatch(d, j, c)
      PROVE  LifecycleStep
  <2>1. /\ status[j] = "queued" /\ j \in Jobs
        /\ status' = [status EXCEPT ![j] = "dispatched"]
        /\ grants' = [grants EXCEPT ![j] = grants[j] + 1]
        /\ UNCHANGED runs
    BY <1>4 DEF Dispatch, Grant, TypeOK
  <2>2. Phase' = [Phase EXCEPT ![j] = "out"] /\ Phase[j] = "open"
    BY <1>t, <2>1, PhaseValues DEF Phase, Statuses, Runnable, Leased
  <2>3. Yields' = Yields
    BY <2>1 DEF Yields, Ran
  <2>4. grants[j] < MaxRetries + 1
    BY <1>t, <2>1 DEF Budget, RetriesPayForLeases
  <2>5. Lifecycle!HandOut(j)
    BY <2>1, <2>2, <2>3, <2>4 DEF Lifecycle!HandOut, Phase, Yields
  <2> QED BY <2>1, <2>5 DEF LifecycleStep, Lifecycle!Next
<1>5. ASSUME NEW m \in Daemons, ClaimUpdate(m) PROVE LifecycleStep
  <2>1. /\ status' = [j \in Jobs |-> IF j \in Claimable(m) THEN "running" ELSE status[j]]
        /\ UNCHANGED <<grants, runs>>
    BY <1>5 DEF ClaimUpdate, history
  <2>2. \A j \in Claimable(m) : status[j] = "dispatched"
    BY DEF Claimable
  <2>3. PhaseOf("running") = PhaseOf("dispatched")
    BY PhaseValues DEF Statuses, Runnable, Leased
  <2>4. Phase' = Phase
    BY <2>1, <2>2, <2>3 DEF Phase
  <2> QED BY <2>1, <2>4 DEF LifecycleStep, Yields, Ran
<1>6. ASSUME NEW m \in Daemons, NEW k \in inbox[m], NEW out \in Outcomes, Execute(m, k, out)
      PROVE  LifecycleStep
  <2>1. /\ runs' = runs \cup {[job |-> k.job, grant |-> k.grant, out |-> out]}
        /\ UNCHANGED <<status, grants>>
    BY <1>6 DEF Execute, jobVars
  <2>2. k.job \in Jobs /\ grants[k.job] > 0
    BY DEF TypeOK, Claims, HeldWasLeased
  <2>3. ASSUME NEW j \in Jobs, NEW v \in Outcomes
        PROVE  Ran(j, v)' <=> Ran(j, v) \/ (j = k.job /\ v = out)
    <3> DEFINE x == [job |-> k.job, grant |-> k.grant, out |-> out]
    <3>1. x.job = k.job /\ x.out = out
      OBVIOUS
    <3> HIDE DEF x
    <3>2. runs' = runs \cup {x}
      BY <2>1 DEF x
    <3>3. Ran(j, v)' <=> \E y \in runs' : y.job = j /\ y.out = v
      BY DEF Ran
    <3> QED BY <3>1, <3>2, <3>3 DEF Ran
  <2>4. Yields' = [Yields EXCEPT ![k.job] = @ \cup {out}]
    BY <2>2, <2>3 DEF Yields
  <2>5. Lifecycle!Perform(k.job, out)
    BY <2>1, <2>2, <2>4 DEF Lifecycle!Perform, Phase, Yields
  <2> QED BY <2>2, <2>5 DEF LifecycleStep, Lifecycle!Next, Lifecycle!Verdicts, Outcomes
<1>7. ASSUME NEW m \in Daemons, SubmitAccepted(m) PROVE LifecycleStep
  <2>1. /\ ResultOf(m).job \in Jobs /\ ResultOf(m).out \in Outcomes
        /\ Ran(ResultOf(m).job, ResultOf(m).out)
    BY <1>7 DEF SubmitAccepted, ResultOf, ResultsRan, TypeOK
  <2> QED BY <1>7, <2>1, ResultRefines DEF SubmitAccepted, history
<1>8. ASSUME NEW r \in late, LateResult(r) PROVE LifecycleStep
  <2>1. r.job \in Jobs /\ r.out \in Outcomes /\ Ran(r.job, r.out)
    BY DEF ResultsRan, Result, TypeOK
  <2> QED BY <1>8, <2>1, ResultRefines DEF LateResult, history
<1>9. ASSUME NEW m \in Daemons,
             PollSelect(m) \/ SubmitRefused(m) \/ SubmitUnanswered(m) \/ DaemonDies(m)
      PROVE  Quiet
  BY <1>9 DEF PollSelect, SubmitRefused, SubmitUnanswered, DaemonDies, jobVars, history
<1>10. ASSUME NEW j \in Jobs, WaiterReads(j) \/ WaiterTimesOut(j) \/ LeaseExpires(j) PROVE Quiet
  BY <1>10 DEF WaiterReads, WaiterTimesOut, LeaseExpires, jobVars, history
<1>11. ASSUME NEW c \in Connectors, ComesOnline(c) \/ GoesOffline(c) PROVE Quiet
  BY <1>11 DEF ComesOnline, GoesOffline, jobVars, history
<1>12. ASSUME NEW r \in late, ResultLost(r) PROVE Quiet
  BY <1>12 DEF ResultLost, jobVars, history
<1>13. ASSUME NEW d \in Dispatchers,
              \/ ReclaimSelect(d) \/ PickFair(d) \/ TickEnds(d) \/ TickFails(d)
              \/ \E j \in cand[d] : SkipCandidate(d, j)
       PROVE  Quiet
  BY <1>13 DEF ReclaimSelect, PickFair, TickEnds, TickFails, SkipCandidate, jobVars, history
<1>14. ASSUME UNCHANGED vars PROVE Quiet
  BY <1>14 DEF vars, jobVars, history
<1> QED
  BY <1>1, <1>2, <1>3, <1>4, <1>5, <1>6, <1>7, <1>8, <1>9, <1>10, <1>11, <1>12, <1>13, <1>14
  DEF Next, DispatcherStep, DaemonStep, PollAnswered, PollAnswerLost

(* With one dispatcher, the queue implements the lifecycle its users rely on. *)
THEOREM Refinement == ASSUME OneDispatcher PROVE Spec => ImplementsLifecycle
<1>1. Init => Lifecycle!Init
  BY DEF Init, Lifecycle!Init, PhaseOf, Leased, Ran
<1>2. Init => ResultsRan /\ NoFalseSuccess
  BY DEF Init, ResultsRan, NoFalseSuccess
<1>3. LifecycleStep => [Lifecycle!Next]_(Lifecycle!lifeVars)
  BY DEF LifecycleStep, Lifecycle!lifeVars, Phase, Yields
<1> QED
  BY <1>1, <1>2, <1>3, TypeCorrect, BudgetKept, TriesKept, ResultsStep, RefinementStep, PTL
  DEF Spec, ImplementsLifecycle, Lifecycle!Spec
=============================================================================
