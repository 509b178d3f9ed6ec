-------------------------- MODULE ClientJobsProofs --------------------------
(* Proofs of the invariants of ClientJobs, for any number of jobs, tenants, *)
(* connectors and daemons.                                                  *)
EXTENDS ClientJobs, TLAPS

USE DEF Outcomes, Leased, Runnable, Statuses, Claims, Result

(* LIMIT returns rows of the table. *)
LEMMA OldestSubset == ASSUME NEW S, NEW n PROVE Oldest(S, n) \subseteq S
BY DEF Oldest

(* Every step keeps the types of the table, the dispatchers and the daemons. *)
THEOREM TypeCorrect == Spec => []TypeOK
<1>1. Init => TypeOK
  BY SizesAssumption, ActorsAssumption DEF Init, TypeOK
<1>2. TypeOK /\ [Next]_vars => TypeOK'
  <2> SUFFICES ASSUME TypeOK, [Next]_vars PROVE TypeOK'
    OBVIOUS
  <2> USE SizesAssumption, ActorsAssumption DEF TypeOK
  <2>1. ASSUME NEW j \in Jobs, NEW w \in {"none", "waiting"}, CreateJob(j, w) PROVE TypeOK'
    BY <2>1 DEF CreateJob, tickVars, pollVars, daemonVars, history
  <2>2. ASSUME NEW j \in Jobs, WaiterReads(j) \/ WaiterTimesOut(j) PROVE TypeOK'
    BY <2>2 DEF WaiterReads, WaiterTimesOut, jobVars, tickVars, pollVars, daemonVars, history
  <2>3. ASSUME NEW j \in Jobs, LeaseExpires(j) PROVE TypeOK'
    BY <2>3 DEF LeaseExpires, tickVars, pollVars, daemonVars, history
  <2>4. ASSUME NEW c \in Connectors, ComesOnline(c) \/ GoesOffline(c) PROVE TypeOK'
    BY <2>4 DEF ComesOnline, GoesOffline, jobVars, tickVars, pollVars, daemonVars, history
  <2>5. ASSUME NEW d \in Dispatchers, ReclaimSelect(d) PROVE TypeOK'
    BY <2>5 DEF ReclaimSelect, ExpiredLeases, jobVars, pollVars, daemonVars, history
  <2>6. ASSUME NEW d \in Dispatchers, NEW r \in rows[d], ReclaimUpdate(d, r) PROVE TypeOK'
    <3>1. r.job \in Jobs /\ r.rc \in Nat
      OBVIOUS
    <3>2. CASE Requeue(r)
      BY <2>6, <3>1, <3>2 DEF ReclaimUpdate, Requeue, pollVars, daemonVars, history
    <3>3. CASE GiveUp(r)
      BY <2>6, <3>1, <3>3 DEF ReclaimUpdate, GiveUp, pollVars, daemonVars, history
    <3> QED BY <2>6, <3>2, <3>3 DEF ReclaimUpdate
  <2>7. ASSUME NEW d \in Dispatchers, PickFair(d) PROVE TypeOK'
    <3>1. FairPick \in SUBSET Jobs
      <4>1. ASSUME NEW t PROVE Oldest(Queued(t), 1) \subseteq Jobs
        BY OldestSubset, Queued(t) \subseteq Jobs DEF Queued
      <4> HIDE DEF TypeOK
      <4> DEFINE firsts == Oldest({t \in Tenants : Queued(t) # {}}, BatchSize)
      <4>2. FairPick = UNION {Oldest(Queued(t), 1) : t \in firsts}
        BY DEF FairPick
      <4> HIDE DEF firsts
      <4> QED BY <4>1, <4>2
    <3> QED BY <2>7, <3>1 DEF PickFair, jobVars, pollVars, daemonVars, history
  <2>8. ASSUME NEW d \in Dispatchers, NEW j \in cand[d], NEW c \in online, Dispatch(d, j, c)
        PROVE  TypeOK'
    BY <2>8 DEF Dispatch, Grant, pollVars, daemonVars
  <2>9. ASSUME NEW d \in Dispatchers, NEW j \in cand[d], SkipCandidate(d, j) PROVE TypeOK'
    BY <2>9 DEF SkipCandidate, jobVars, pollVars, daemonVars, history
  <2>10. ASSUME NEW d \in Dispatchers, TickEnds(d) \/ TickFails(d) PROVE TypeOK'
    <3>1. CASE TickEnds(d)
      BY <3>1 DEF TickEnds, jobVars, pollVars, daemonVars, history
    <3>2. CASE TickFails(d)
      BY <3>2 DEF TickFails, jobVars, pollVars, daemonVars, history
    <3> QED BY <2>10, <3>1, <3>2
  <2>11. ASSUME NEW m \in Daemons, PollSelect(m) PROVE TypeOK'
    <3> DEFINE mine == {j \in Jobs : /\ status[j] = "dispatched"
                                     /\ owner[j] = Cid[m]
                                     /\ lease[j] = "live"}
    <3>1. Oldest(mine, PollLimit) \in SUBSET Jobs
      BY OldestSubset, mine \subseteq Jobs
    <3> HIDE DEF mine
    <3>2. ids' = [ids EXCEPT ![m] = Oldest(mine, PollLimit)]
      BY <2>11 DEF PollSelect, mine
    <3>3. poll' \in [Daemons -> {"none", "selected"}]
      BY <2>11 DEF PollSelect
    <3>4. ids' \in [Daemons -> SUBSET Jobs]
      BY <3>1, <3>2
    <3>5. UNCHANGED <<jobVars, online, tickVars, daemonVars, late, waiter, history, faults>>
      BY <2>11 DEF PollSelect
    <3> QED BY <3>3, <3>4, <3>5 DEF jobVars, tickVars, daemonVars, history
  <2>12. ASSUME NEW m \in Daemons, PollAnswered(m) \/ PollAnswerLost(m) PROVE TypeOK'
    <3>1. Claimable(m) \subseteq Jobs
      BY DEF Claimable
    <3>2. ClaimUpdate(m)
      BY <2>12 DEF PollAnswered, PollAnswerLost
    <3>3. {[job |-> j, grant |-> grants[j]] : j \in Claimable(m)} \in SUBSET Claims
      BY <3>1
    <3>4. inbox' \in [Daemons -> SUBSET Claims]
      BY <2>12, <3>3 DEF PollAnswered, PollAnswerLost
    <3>5. /\ status' \in [Jobs -> Statuses]
          /\ lease' \in [Jobs -> {"none", "live", "expired"}]
          /\ poll' \in [Daemons -> {"none", "selected"}]
          /\ ids' \in [Daemons -> SUBSET Jobs]
      BY <3>2 DEF ClaimUpdate
    <3> QED BY <3>2, <3>4, <3>5 DEF ClaimUpdate, tickVars, history
  <2>13. ASSUME NEW m \in Daemons, NEW k \in inbox[m], NEW out \in Outcomes, Execute(m, k, out)
         PROVE  TypeOK'
    BY <2>13 DEF Execute, jobVars, tickVars, pollVars
  <2>14. ASSUME NEW m \in Daemons, SubmitAccepted(m) PROVE TypeOK'
    BY <2>14 DEF SubmitAccepted, RecordResult, ResultOf, tickVars, pollVars, history
  <2>15. ASSUME NEW m \in Daemons, SubmitRefused(m) \/ SubmitUnanswered(m) PROVE TypeOK'
    BY <2>15 DEF SubmitRefused, SubmitUnanswered, Retry, ResultOf, jobVars, tickVars, pollVars,
                 history
  <2>16. ASSUME NEW m \in Daemons, DaemonDies(m) PROVE TypeOK'
    BY <2>16 DEF DaemonDies, jobVars, tickVars, pollVars, history
  <2>17. ASSUME NEW r \in late, LateResult(r) \/ ResultLost(r) PROVE TypeOK'
    BY <2>17 DEF LateResult, ResultLost, RecordResult, jobVars, tickVars, pollVars, daemonVars,
                 history
  <2>18. CASE UNCHANGED vars
    BY <2>18 DEF vars, jobVars, tickVars, pollVars, daemonVars, history
  <2> QED
    BY <2>1, <2>2, <2>3, <2>4, <2>5, <2>6, <2>7, <2>8, <2>9, <2>10, <2>11, <2>12, <2>13, <2>14,
       <2>15, <2>16, <2>17, <2>18 DEF Next, DispatcherStep, DaemonStep
<1> QED BY <1>1, <1>2, PTL DEF Spec

-----------------------------------------------------------------------------
(* The inductive invariants. *)

(* Leases are numbered: nothing was claimed or executed under a lease that was  *)
(* not granted, and the present lease of a dispatched job is still unclaimed.   *)
LeasesNumbered ==
  /\ \A m \in Daemons : \A k \in inbox[m] : k.grant <= grants[k.job]
  /\ \A x \in runs : x.grant <= grants[x.job]
  /\ \A j \in Jobs : status[j] = "dispatched" =>
       /\ \A m \in Daemons : \A k \in inbox[m] : k.job = j => k.grant < grants[j]
       /\ \A x \in runs : x.job = j => x.grant < grants[j]

(* Whatever is reported, on its way or recorded was executed. *)
ResultsRan ==
  /\ \A m \in Daemons : cur[m] # NoOne => Ran(cur[m].job, cur[m].out)
  /\ \A r \in late : Ran(r.job, r.out)

(* With one dispatcher: a retry count the dispatcher has read is still the      *)
(* count of the row, the row has not been queued meanwhile, and each retry pays *)
(* for one lease.                                                               *)
RetriesPayForLeases ==
  \A j \in Jobs :
    /\ retries[j] <= MaxRetries
    /\ grants[j] <= retries[j] + 1
    /\ status[j] \in {"absent", "queued"} => grants[j] <= retries[j]
ReclaimIsCurrent ==
  \A d \in Dispatchers :
    /\ rows[d] # {} => tick[d] = "reclaim"
    /\ \A r \in rows[d] : r.rc = retries[r.job] /\ status[r.job] \notin {"absent", "queued"}

-----------------------------------------------------------------------------

(* A lease is executed at most once. *)
LEMMA LeasesStep == TypeOK /\ LeasesNumbered /\ OneRunPerLease /\ [Next]_vars
                      => LeasesNumbered' /\ OneRunPerLease'
<1> SUFFICES ASSUME TypeOK, LeasesNumbered, OneRunPerLease, [Next]_vars
             PROVE  LeasesNumbered' /\ OneRunPerLease'
  OBVIOUS
<1> USE DEF TypeOK, LeasesNumbered, OneRunPerLease
<1> DEFINE Quiet == UNCHANGED <<status, inbox, runs, grants>>
<1>1. CASE Quiet
  BY <1>1
<1>2. ASSUME NEW j \in Jobs, NEW w \in {"none", "waiting"}, CreateJob(j, w)
      PROVE  LeasesNumbered' /\ OneRunPerLease'
  BY <1>2 DEF CreateJob, daemonVars, history
<1>3. ASSUME NEW d \in Dispatchers, NEW r \in rows[d], ReclaimUpdate(d, r)
      PROVE  LeasesNumbered' /\ OneRunPerLease'
  BY <1>3 DEF ReclaimUpdate, Requeue, GiveUp, daemonVars, history
<1>4. ASSUME NEW d \in Dispatchers, NEW j \in cand[d], NEW c \in online, Dispatch(d, j, c)
      PROVE  LeasesNumbered' /\ OneRunPerLease'
  <2>1. /\ j \in Jobs
        /\ grants' = [grants EXCEPT ![j] = grants[j] + 1]
        /\ status' = [status EXCEPT ![j] = "dispatched"]
        /\ UNCHANGED <<inbox, runs>>
    BY <1>4 DEF Dispatch, Grant, daemonVars
  <2>2. \A m \in Daemons : \A k \in inbox[m] : k.job \in Jobs /\ k.grant \in Nat
    OBVIOUS
  <2>3. \A x \in runs : x.job \in Jobs /\ x.grant \in Nat
    OBVIOUS
  <2>4. OneRunPerLease'
    BY <2>1
  <2>5. LeasesNumbered'
    BY <2>1, <2>2, <2>3
  <2> QED BY <2>4, <2>5
<1>5. ASSUME NEW m \in Daemons, PollAnswered(m) PROVE LeasesNumbered' /\ OneRunPerLease'
  <2>1. /\ UNCHANGED <<grants, runs>>
        /\ inbox' = [inbox EXCEPT ![m] = {[job |-> j, grant |-> grants[j]] : j \in Claimable(m)}]
        /\ status' = [j \in Jobs |-> IF j \in Claimable(m) THEN "running" ELSE status[j]]
    BY <1>5 DEF PollAnswered, ClaimUpdate, history
  <2>2. Claimable(m) \subseteq {j \in Jobs : status[j] = "dispatched"}
    BY DEF Claimable
  <2>3. \A k \in inbox'[m] : \E j \in Jobs : /\ status[j] = "dispatched" /\ status'[j] = "running"
                                             /\ k = [job |-> j, grant |-> grants[j]]
    BY <2>1, <2>2
  <2>4. \A n \in Daemons \ {m} : inbox'[n] = inbox[n]
    BY <2>1
  <2>5. OneRunPerLease'
    <3>1. ASSUME NEW n \in Daemons, NEW k \in inbox'[n]
          PROVE  \A x \in runs : <<x.job, x.grant>> # <<k.job, k.grant>>
      <4>1. CASE n = m
        <5>1. PICK j \in Jobs : status[j] = "dispatched" /\ k = [job |-> j, grant |-> grants[j]]
          BY <2>3, <3>1, <4>1
        <5> QED BY <5>1
      <4> QED BY <4>1, <2>4, <3>1
    <3>2. ASSUME NEW n \in Daemons, NEW o \in Daemons \ {n}, NEW k \in inbox'[n]
          PROVE  k \notin inbox'[o]
      <4>1. ASSUME NEW k2 \in inbox'[m], NEW p \in Daemons \ {m}
            PROVE  k2 \notin inbox[p]
        <5>1. PICK j \in Jobs : status[j] = "dispatched" /\ k2 = [job |-> j, grant |-> grants[j]]
          BY <2>3, <4>1
        <5>2. \A k3 \in inbox[p] : k3.job = j => k3.grant < grants[j] /\ k3.grant \in Nat
          BY <5>1
        <5> QED BY <5>1, <5>2
      <4> QED BY <2>4, <3>2, <4>1
    <3> QED BY <3>1, <3>2, <2>1
  <2>6. LeasesNumbered'
    <3>1. ASSUME NEW n \in Daemons, NEW k \in inbox'[n] PROVE k.grant <= grants[k.job]
      BY <2>3, <2>4, <3>1
    <3>2. ASSUME NEW j \in Jobs, status'[j] = "dispatched",
                 NEW n \in Daemons, NEW k \in inbox'[n], k.job = j
          PROVE  k.grant < grants[j]
      <4>1. status[j] = "dispatched" /\ status'[j] # "running"
        BY <2>1, <3>2
      <4> QED BY <2>3, <2>4, <3>2, <4>1
    <3>3. ASSUME NEW j \in Jobs, status'[j] = "dispatched" PROVE status[j] = "dispatched"
      BY <2>1, <3>3
    <3> QED BY <2>1, <3>1, <3>2, <3>3
  <2> QED BY <2>5, <2>6
<1>6. ASSUME NEW m \in Daemons, PollAnswerLost(m) PROVE LeasesNumbered' /\ OneRunPerLease'
  BY <1>6 DEF PollAnswerLost, ClaimUpdate, history
<1>7. ASSUME NEW m \in Daemons, NEW k \in inbox[m], NEW out \in Outcomes, Execute(m, k, out)
      PROVE  LeasesNumbered' /\ OneRunPerLease'
  <2>1. /\ UNCHANGED <<status, grants>>
        /\ inbox' = [inbox EXCEPT ![m] = inbox[m] \ {k}]
        /\ runs' = runs \cup {[job |-> k.job, grant |-> k.grant, out |-> out]}
    BY <1>7 DEF Execute, jobVars
  <2>2. \A n \in Daemons : inbox'[n] \subseteq inbox[n] /\ k \notin inbox'[n]
    BY <2>1
  <2>3. ASSUME NEW n \in Daemons, NEW k2 \in inbox'[n]
        PROVE  <<k2.job, k2.grant>> # <<k.job, k.grant>>
    <3>1. k2 \in Claims /\ k \in Claims /\ k2 # k
      BY <2>2, <2>3
    <3> QED BY <3>1
  <2>4. OneRunPerLease'
    BY <2>1, <2>2, <2>3
  <2>5. LeasesNumbered'
    BY <2>1, <2>2
  <2> QED BY <2>4, <2>5
<1>8. ASSUME NEW m \in Daemons, SubmitAccepted(m) PROVE LeasesNumbered' /\ OneRunPerLease'
  BY <1>8 DEF SubmitAccepted, RecordResult, ResultOf, history
<1>9. ASSUME NEW r \in late, LateResult(r) PROVE LeasesNumbered' /\ OneRunPerLease'
  BY <1>9 DEF LateResult, RecordResult, daemonVars, history
<1>10. ASSUME NEW m \in Daemons, DaemonDies(m) PROVE LeasesNumbered' /\ OneRunPerLease'
  BY <1>10 DEF DaemonDies, jobVars, history
<1>11. ASSUME NEW d \in Dispatchers,
              \/ ReclaimSelect(d) \/ PickFair(d) \/ TickEnds(d) \/ TickFails(d)
              \/ \E j \in cand[d] : SkipCandidate(d, j)
       PROVE  Quiet
  BY <1>11 DEF ReclaimSelect, PickFair, TickEnds, TickFails, SkipCandidate, jobVars, daemonVars,
               history
<1>12. ASSUME NEW m \in Daemons, PollSelect(m) \/ SubmitRefused(m) \/ SubmitUnanswered(m)
       PROVE  Quiet
  BY <1>12 DEF PollSelect, SubmitRefused, SubmitUnanswered, jobVars, daemonVars, history
<1>13. ASSUME NEW j \in Jobs, WaiterReads(j) \/ WaiterTimesOut(j) \/ LeaseExpires(j) PROVE Quiet
  BY <1>13 DEF WaiterReads, WaiterTimesOut, LeaseExpires, jobVars, daemonVars, history
<1>14. ASSUME NEW c \in Connectors, ComesOnline(c) \/ GoesOffline(c) PROVE Quiet
  BY <1>14 DEF ComesOnline, GoesOffline, jobVars, daemonVars, history
<1>15. ASSUME NEW r \in late, ResultLost(r) PROVE Quiet
  BY <1>15 DEF ResultLost, jobVars, daemonVars, history
<1>16. ASSUME UNCHANGED vars PROVE Quiet
  BY <1>16 DEF vars, jobVars, daemonVars, history
<1> QED
  BY <1>1, <1>2, <1>3, <1>4, <1>5, <1>6, <1>7, <1>8, <1>9, <1>10, <1>11, <1>12, <1>13, <1>14,
     <1>15, <1>16 DEF Next, DispatcherStep, DaemonStep

(* A daemon's execution is of a lease of its own: no two daemons execute the *)
(* same lease, in every reachable state.                                     *)
THEOREM LeaseSafety == Spec => []OneRunPerLease
<1>1. Init => LeasesNumbered /\ OneRunPerLease
  BY DEF Init, LeasesNumbered, OneRunPerLease
<1> QED BY <1>1, TypeCorrect, LeasesStep, PTL DEF Spec

-----------------------------------------------------------------------------

(* A job is held by and executed on connectors of its own tenant. *)
LEMMA IsolationStep == TypeOK /\ TenantIsolation /\ [Next]_vars => TenantIsolation'
<1> SUFFICES ASSUME TypeOK, TenantIsolation, [Next]_vars PROVE TenantIsolation'
  OBVIOUS
<1> USE ActorsAssumption DEF TypeOK, TenantIsolation
<1> DEFINE Quiet == UNCHANGED <<status, owner, inbox>>
<1>1. CASE Quiet
  BY <1>1
<1>2. ASSUME NEW j \in Jobs, NEW w \in {"none", "waiting"}, CreateJob(j, w)
      PROVE  TenantIsolation'
  BY <1>2 DEF CreateJob, daemonVars
<1>3. ASSUME NEW d \in Dispatchers, NEW r \in rows[d], ReclaimUpdate(d, r)
      PROVE  TenantIsolation'
  BY <1>3 DEF ReclaimUpdate, Requeue, GiveUp, daemonVars
<1>4. ASSUME NEW d \in Dispatchers, NEW j \in cand[d], NEW c \in online, Dispatch(d, j, c)
      PROVE  TenantIsolation'
  <2>1. c \in Connectors /\ ConnTenant[c] = JobTenant[j]
    BY <1>4 DEF Dispatch, Eligible
  <2> QED BY <1>4, <2>1 DEF Dispatch, Grant, daemonVars
<1>5. ASSUME NEW m \in Daemons, PollAnswered(m) \/ PollAnswerLost(m) PROVE TenantIsolation'
  <2>1. /\ UNCHANGED owner
        /\ status' = [j \in Jobs |-> IF j \in Claimable(m) THEN "running" ELSE status[j]]
    BY <1>5 DEF PollAnswered, PollAnswerLost, ClaimUpdate
  <2>2. \A j \in Claimable(m) : j \in Jobs /\ status[j] \in Leased /\ owner[j] = Cid[m]
    BY DEF Claimable
  <2>3. \A j \in Claimable(m) : ConnTenant[Cid[m]] = JobTenant[j]
    BY <2>2
  <2>4. inbox' = [inbox EXCEPT ![m] = {[job |-> j, grant |-> grants[j]] : j \in Claimable(m)}]
        \/ UNCHANGED inbox
    BY <1>5 DEF PollAnswered, PollAnswerLost
  <2>5. \A n \in Daemons : \A k \in inbox'[n] : ConnTenant[Cid[n]] = JobTenant[k.job]
    BY <2>3, <2>4
  <2> QED BY <2>1, <2>2, <2>5
<1>6. ASSUME NEW m \in Daemons, NEW k \in inbox[m], NEW out \in Outcomes, Execute(m, k, out)
      PROVE  TenantIsolation'
  BY <1>6 DEF Execute, jobVars
<1>7. ASSUME NEW m \in Daemons, SubmitAccepted(m) PROVE TenantIsolation'
  BY <1>7 DEF SubmitAccepted, RecordResult, ResultOf
<1>8. ASSUME NEW r \in late, LateResult(r) PROVE TenantIsolation'
  BY <1>8 DEF LateResult, RecordResult, daemonVars
<1>9. ASSUME NEW m \in Daemons, DaemonDies(m) PROVE TenantIsolation'
  BY <1>9 DEF DaemonDies, jobVars
<1>10. ASSUME NEW d \in Dispatchers,
              \/ ReclaimSelect(d) \/ PickFair(d) \/ TickEnds(d) \/ TickFails(d)
              \/ \E j \in cand[d] : SkipCandidate(d, j)
       PROVE  Quiet
  BY <1>10 DEF ReclaimSelect, PickFair, TickEnds, TickFails, SkipCandidate, jobVars, daemonVars
<1>11. ASSUME NEW m \in Daemons, PollSelect(m) \/ SubmitRefused(m) \/ SubmitUnanswered(m)
       PROVE  Quiet
  BY <1>11 DEF PollSelect, SubmitRefused, SubmitUnanswered, jobVars, daemonVars
<1>12. ASSUME NEW j \in Jobs, WaiterReads(j) \/ WaiterTimesOut(j) \/ LeaseExpires(j) PROVE Quiet
  BY <1>12 DEF WaiterReads, WaiterTimesOut, LeaseExpires, jobVars, daemonVars
<1>13. ASSUME NEW c \in Connectors, ComesOnline(c) \/ GoesOffline(c) PROVE Quiet
  BY <1>13 DEF ComesOnline, GoesOffline, jobVars, daemonVars
<1>14. ASSUME NEW r \in late, ResultLost(r) PROVE Quiet
  BY <1>14 DEF ResultLost, jobVars, daemonVars
<1>15. ASSUME UNCHANGED vars PROVE Quiet
  BY <1>15 DEF vars, jobVars, daemonVars
<1> QED
  BY <1>1, <1>2, <1>3, <1>4, <1>5, <1>6, <1>7, <1>8, <1>9, <1>10, <1>11, <1>12, <1>13, <1>14,
     <1>15 DEF Next, DispatcherStep, DaemonStep

(* No job of one tenant ever reaches a connector of another. *)
THEOREM Isolation == Spec => []TenantIsolation
<1>1. Init => TenantIsolation
  BY DEF Init, TenantIsolation
<1> QED BY <1>1, TypeCorrect, IsolationStep, PTL DEF Spec

-----------------------------------------------------------------------------

(* What is reported, recorded and read back was executed. *)
LEMMA ResultsStep == TypeOK /\ ResultsRan /\ NoFalseSuccess /\ [Next]_vars
                       => ResultsRan' /\ NoFalseSuccess'
<1> SUFFICES ASSUME TypeOK, ResultsRan, NoFalseSuccess, [Next]_vars
             PROVE  ResultsRan' /\ NoFalseSuccess'
  OBVIOUS
<1> USE DEF TypeOK, ResultsRan, NoFalseSuccess
<1> DEFINE Quiet == UNCHANGED <<status, cur, late, waiter, runs>>
<1>1. CASE Quiet
  BY <1>1 DEF Ran
<1>2. ASSUME NEW j \in Jobs, NEW w \in {"none", "waiting"}, CreateJob(j, w)
      PROVE  ResultsRan' /\ NoFalseSuccess'
  BY <1>2 DEF CreateJob, daemonVars, history, Ran
<1>3. ASSUME NEW d \in Dispatchers, NEW r \in rows[d], ReclaimUpdate(d, r)
      PROVE  ResultsRan' /\ NoFalseSuccess'
  BY <1>3 DEF ReclaimUpdate, Requeue, GiveUp, daemonVars, history, Ran
<1>4. ASSUME NEW d \in Dispatchers, NEW j \in cand[d], NEW c \in online, Dispatch(d, j, c)
      PROVE  ResultsRan' /\ NoFalseSuccess'
  BY <1>4 DEF Dispatch, Grant, daemonVars, Ran
<1>5. ASSUME NEW m \in Daemons, PollAnswered(m) \/ PollAnswerLost(m)
      PROVE  ResultsRan' /\ NoFalseSuccess'
  BY <1>5 DEF PollAnswered, PollAnswerLost, ClaimUpdate, history, Ran
<1>6. ASSUME NEW m \in Daemons, NEW k \in inbox[m], NEW out \in Outcomes, Execute(m, k, out)
      PROVE  ResultsRan' /\ NoFalseSuccess'
  <2>1. /\ UNCHANGED <<status, late, waiter>>
        /\ cur' = [cur EXCEPT ![m] = [job |-> k.job, out |-> out, tries |-> 0]]
        /\ runs' = runs \cup {[job |-> k.job, grant |-> k.grant, out |-> out]}
    BY <1>6 DEF Execute, jobVars
  <2> DEFINE x == [job |-> k.job, grant |-> k.grant, out |-> out]
  <2>2. x \in runs' /\ x.job = k.job /\ x.out = out
    BY <2>1
  <2>3. \A y \in runs : y \in runs'
    BY <2>1
  <2> HIDE DEF x
  <2>4. \A n \in Daemons : cur'[n] # NoOne =>
          \E y \in runs' : y.job = cur'[n].job /\ y.out = cur'[n].out
    <3> SUFFICES ASSUME NEW n \in Daemons, cur'[n] # NoOne
                 PROVE  \E y \in runs' : y.job = cur'[n].job /\ y.out = cur'[n].out
      OBVIOUS
    <3>1. CASE n = m
      BY <2>1, <2>2, <3>1
    <3>2. CASE n # m
      BY <2>1, <2>3, <3>2 DEF Ran
    <3> QED BY <3>1, <3>2
  <2> QED BY <2>1, <2>3, <2>4 DEF Ran
<1>7. ASSUME NEW m \in Daemons, SubmitAccepted(m) PROVE ResultsRan' /\ NoFalseSuccess'
  <2>1. Ran(cur[m].job, cur[m].out) /\ cur[m].job \in Jobs
    BY <1>7 DEF SubmitAccepted
  <2> QED BY <1>7, <2>1 DEF SubmitAccepted, RecordResult, ResultOf, history, Ran
<1>8. ASSUME NEW m \in Daemons, SubmitRefused(m) \/ SubmitUnanswered(m)
      PROVE  ResultsRan' /\ NoFalseSuccess'
  <2>1. /\ UNCHANGED <<status, waiter, runs>>
        /\ late' \in {late, late \cup {ResultOf(m)}}
        /\ Retry(m)
        /\ cur[m] # NoOne
    BY <1>8 DEF SubmitRefused, SubmitUnanswered, jobVars, history
  <2>2. Ran(cur[m].job, cur[m].out)
    BY <2>1
  <2>3. \A n \in Daemons : cur'[n] # NoOne =>
          cur[n] # NoOne /\ cur'[n].job = cur[n].job /\ cur'[n].out = cur[n].out
    BY <2>1 DEF Retry
  <2> QED BY <2>1, <2>2, <2>3 DEF ResultOf, Ran
<1>9. ASSUME NEW r \in late, LateResult(r) PROVE ResultsRan' /\ NoFalseSuccess'
  <2>1. Ran(r.job, r.out) /\ r.job \in Jobs
    BY <1>9
  <2> QED BY <1>9, <2>1 DEF LateResult, RecordResult, daemonVars, history, Ran
<1>10. ASSUME NEW r \in late, ResultLost(r) PROVE ResultsRan' /\ NoFalseSuccess'
  BY <1>10 DEF ResultLost, jobVars, daemonVars, history, Ran
<1>11. ASSUME NEW m \in Daemons, DaemonDies(m) PROVE ResultsRan' /\ NoFalseSuccess'
  BY <1>11 DEF DaemonDies, jobVars, history, Ran
<1>12. ASSUME NEW j \in Jobs, WaiterReads(j) \/ WaiterTimesOut(j)
       PROVE  ResultsRan' /\ NoFalseSuccess'
  BY <1>12 DEF WaiterReads, WaiterTimesOut, Terminal, jobVars, daemonVars, history, Ran
<1>13. ASSUME NEW d \in Dispatchers,
              \/ ReclaimSelect(d) \/ PickFair(d) \/ TickEnds(d) \/ TickFails(d)
              \/ \E j \in cand[d] : SkipCandidate(d, j)
       PROVE  Quiet
  BY <1>13 DEF ReclaimSelect, PickFair, TickEnds, TickFails, SkipCandidate, jobVars, daemonVars,
               history
<1>14. ASSUME NEW m \in Daemons, PollSelect(m) PROVE Quiet
  BY <1>14 DEF PollSelect, jobVars, daemonVars, history
<1>15. ASSUME NEW j \in Jobs, LeaseExpires(j) PROVE Quiet
  BY <1>15 DEF LeaseExpires, daemonVars, history
<1>16. ASSUME NEW c \in Connectors, ComesOnline(c) \/ GoesOffline(c) PROVE Quiet
  BY <1>16 DEF ComesOnline, GoesOffline, jobVars, daemonVars, history
<1>17. ASSUME UNCHANGED vars PROVE Quiet
  BY <1>17 DEF vars, jobVars, daemonVars, history
<1> QED
  BY <1>1, <1>2, <1>3, <1>4, <1>5, <1>6, <1>7, <1>8, <1>9, <1>10, <1>11, <1>12, <1>13, <1>14,
     <1>15, <1>16, <1>17 DEF Next, DispatcherStep, DaemonStep

(* No job is reported as succeeded unless a daemon executed it successfully. *)
THEOREM SuccessSafety == Spec => []NoFalseSuccess
<1>1. Init => ResultsRan /\ NoFalseSuccess
  BY DEF Init, ResultsRan, NoFalseSuccess
<1> QED BY <1>1, TypeCorrect, ResultsStep, PTL DEF Spec

-----------------------------------------------------------------------------
(* One dispatcher. *)

OneDispatcher == \A d, e \in Dispatchers : d = e

Budget == RetriesPayForLeases /\ ReclaimIsCurrent

(* Every step keeps the retry count in step with the leases granted. *)
LEMMA BudgetStep == ASSUME OneDispatcher PROVE TypeOK /\ Budget /\ [Next]_vars => Budget'
<1> SUFFICES ASSUME TypeOK, Budget, [Next]_vars PROVE Budget'
  OBVIOUS
<1> USE SizesAssumption DEF TypeOK, Budget, RetriesPayForLeases, ReclaimIsCurrent
<1> DEFINE Quiet == UNCHANGED <<status, retries, grants, rows, tick>>
<1>1. CASE Quiet
  BY <1>1
<1>2. ASSUME NEW j \in Jobs, NEW w \in {"none", "waiting"}, CreateJob(j, w) PROVE Budget'
  <2>1. /\ status[j] = "absent"
        /\ status' = [status EXCEPT ![j] = "queued"]
        /\ UNCHANGED <<retries, grants, rows, tick>>
    BY <1>2 DEF CreateJob, tickVars, history
  <2> QED BY <2>1
<1>3. ASSUME NEW d \in Dispatchers, ReclaimSelect(d) PROVE Budget'
  <2>1. /\ tick' = [tick EXCEPT ![d] = "reclaim"]
        /\ rows' = [rows EXCEPT ![d] = {[job |-> j, rc |-> retries[j]] : j \in ExpiredLeases}]
        /\ UNCHANGED <<status, retries, grants>>
    BY <1>3 DEF ReclaimSelect, jobVars, history
  <2>2. \A r \in rows'[d] : r.rc = retries[r.job] /\ status[r.job] \notin {"absent", "queued"}
    BY <2>1 DEF ExpiredLeases
  <2> QED BY <2>1, <2>2
<1>4. ASSUME NEW d \in Dispatchers, NEW r \in rows[d], ReclaimUpdate(d, r) PROVE Budget'
  <2>1. /\ tick[d] = "reclaim" /\ UNCHANGED <<tick, grants>>
        /\ rows' = [rows EXCEPT ![d] = rows[d] \ {r}]
        /\ Requeue(r) \/ GiveUp(r)
    BY <1>4 DEF ReclaimUpdate, history
  <2>2. r.job \in Jobs /\ r.rc \in Nat /\ r.rc = retries[r.job]
    OBVIOUS
  <2>3. \A e \in Dispatchers : rows'[e] \subseteq rows[e] \ {r}
    BY <2>1 DEF OneDispatcher
  <2>4. \A e \in Dispatchers : \A q \in rows'[e] : q.job \in Jobs /\ q.job # r.job
    <3> SUFFICES ASSUME NEW e \in Dispatchers, NEW q \in rows'[e] PROVE q.job \in Jobs /\ q.job # r.job
      OBVIOUS
    <3>1. q \in rows[e] /\ q # r /\ q \in [job: Jobs, rc: Nat] /\ r \in [job: Jobs, rc: Nat]
      BY <2>3
    <3>2. q.rc = retries[q.job] /\ r.rc = retries[r.job]
      BY <3>1
    <3>3. q.job # r.job
      BY <3>1, <3>2
    <3> QED BY <3>1, <3>3
  <2>5. CASE Requeue(r)
    <3>1. /\ r.rc < MaxRetries
          /\ status' = [status EXCEPT ![r.job] = "queued"]
          /\ retries' = [retries EXCEPT ![r.job] = r.rc + 1]
      BY <2>5 DEF Requeue
    <3>2. RetriesPayForLeases'
      BY <2>1, <2>2, <3>1
    <3>3. ReclaimIsCurrent'
      BY <2>1, <2>2, <2>3, <2>4, <3>1
    <3> QED BY <3>2, <3>3
  <2>6. CASE GiveUp(r)
    <3>1. status' = [status EXCEPT ![r.job] = "failed"] /\ UNCHANGED retries
      BY <2>6 DEF GiveUp
    <3> QED BY <2>1, <2>2, <2>3, <3>1
  <2> QED BY <2>1, <2>5, <2>6
<1>5. ASSUME NEW d \in Dispatchers, PickFair(d) PROVE Budget'
  BY <1>5 DEF PickFair, jobVars, history
<1>6. ASSUME NEW d \in Dispatchers, NEW j \in cand[d], NEW c \in online, Dispatch(d, j, c)
      PROVE  Budget'
  <2>1. /\ tick[d] = "dispatch" /\ status[j] = "queued" /\ j \in Jobs
        /\ status' = [status EXCEPT ![j] = "dispatched"]
        /\ grants' = [grants EXCEPT ![j] = grants[j] + 1]
        /\ UNCHANGED <<retries, rows, tick>>
    BY <1>6 DEF Dispatch, Grant
  <2>2. RetriesPayForLeases'
    BY <2>1
  <2>3. \A e \in Dispatchers : rows[e] = {}
    BY <2>1 DEF OneDispatcher
  <2> QED BY <2>1, <2>2, <2>3
<1>7. ASSUME NEW d \in Dispatchers, TickEnds(d) PROVE Budget'
  BY <1>7 DEF TickEnds, jobVars, history
<1>8. ASSUME NEW d \in Dispatchers, TickFails(d) PROVE Budget'
  BY <1>8 DEF TickFails, jobVars, history
<1>9. ASSUME NEW m \in Daemons, ClaimUpdate(m) PROVE Budget'
  <2>1. /\ status' = [j \in Jobs |-> IF j \in Claimable(m) THEN "running" ELSE status[j]]
        /\ UNCHANGED <<retries, grants, rows, tick>>
    BY <1>9 DEF ClaimUpdate, tickVars, history
  <2> QED BY <2>1 DEF Claimable
<1>10. ASSUME NEW r, r.job \in Jobs, r.out \in Outcomes, RecordResult(r),
              UNCHANGED <<grants, rows, tick>>
       PROVE  Budget'
  <2>1. /\ \A j \in Jobs : status'[j] = status[j] \/ status'[j] = r.out
        /\ UNCHANGED retries
    BY <1>10 DEF RecordResult
  <2>2. \A j \in Jobs : status'[j] \in {"absent", "queued"} => status[j] \in {"absent", "queued"}
    BY <2>1, <1>10
  <2>3. \A j \in Jobs : status[j] \notin {"absent", "queued"} => status'[j] \notin {"absent", "queued"}
    BY <2>2
  <2>4. RetriesPayForLeases'
    BY <2>1, <2>2, <1>10
  <2>5. ReclaimIsCurrent'
    BY <2>1, <2>3, <1>10
  <2> QED BY <2>4, <2>5
<1>11. ASSUME NEW m \in Daemons, SubmitAccepted(m) PROVE Budget'
  <2>1. ResultOf(m).job \in Jobs /\ ResultOf(m).out \in Outcomes
    BY <1>11 DEF SubmitAccepted, ResultOf
  <2> QED BY <1>10, <1>11, <2>1 DEF SubmitAccepted, tickVars, history
<1>12. ASSUME NEW r \in late, LateResult(r) PROVE Budget'
  BY <1>10, <1>12 DEF LateResult, tickVars, history
<1>13. ASSUME NEW m \in Daemons,
              \/ PollSelect(m) \/ SubmitRefused(m) \/ SubmitUnanswered(m) \/ DaemonDies(m)
              \/ \E k \in inbox[m], out \in Outcomes : Execute(m, k, out)
       PROVE  Quiet
  BY <1>13 DEF PollSelect, SubmitRefused, SubmitUnanswered, DaemonDies, Execute, jobVars,
               tickVars, history
<1>14. ASSUME NEW j \in Jobs, WaiterReads(j) \/ WaiterTimesOut(j) \/ LeaseExpires(j) PROVE Quiet
  BY <1>14 DEF WaiterReads, WaiterTimesOut, LeaseExpires, jobVars, tickVars, history
<1>15. ASSUME NEW c \in Connectors, ComesOnline(c) \/ GoesOffline(c) PROVE Quiet
  BY <1>15 DEF ComesOnline, GoesOffline, jobVars, tickVars, history
<1>16. ASSUME NEW r \in late, ResultLost(r) PROVE Quiet
  BY <1>16 DEF ResultLost, jobVars, tickVars, history
<1>17. ASSUME NEW d \in Dispatchers, NEW j \in cand[d], SkipCandidate(d, j) PROVE Quiet
  BY <1>17 DEF SkipCandidate, jobVars, history
<1>18. ASSUME UNCHANGED vars PROVE Quiet
  BY <1>18 DEF vars, jobVars, tickVars, history
<1> QED
  BY <1>1, <1>2, <1>3, <1>4, <1>5, <1>6, <1>7, <1>8, <1>9, <1>11, <1>12, <1>13, <1>14, <1>15,
     <1>16, <1>17, <1>18 DEF Next, DispatcherStep, DaemonStep, PollAnswered, PollAnswerLost

(* With one dispatcher the retry count stays in step with the leases granted. *)
LEMMA BudgetKept == ASSUME OneDispatcher PROVE Spec => []Budget
<1>1. Init => Budget
  BY SizesAssumption DEF Init, Budget, RetriesPayForLeases, ReclaimIsCurrent
<1> QED BY <1>1, TypeCorrect, BudgetStep, PTL DEF Spec

(* A job is leased and executed at most MaxRetries + 1 times. *)
THEOREM BudgetSafety == ASSUME OneDispatcher PROVE Spec => []ExecutionBudget
<1>1. Init => LeasesNumbered /\ OneRunPerLease
  BY DEF Init, LeasesNumbered, OneRunPerLease
<1>2. TypeOK /\ Budget /\ LeasesNumbered => ExecutionBudget
  BY SizesAssumption DEF TypeOK, Budget, RetriesPayForLeases, LeasesNumbered, ExecutionBudget
<1> QED BY <1>1, <1>2, TypeCorrect, LeasesStep, BudgetKept, PTL DEF Spec

(* A job that ended is reopened only by the reclaim that had selected it. *)
THEOREM ReopeningSafety == ASSUME OneDispatcher PROVE Spec => ReopenedOnlyByReclaim
<1>1. TypeOK /\ Budget /\ [Next]_vars =>
        [\A j \in Jobs : Terminal(j) /\ status'[j] # status[j] =>
           \E d \in Dispatchers : /\ tick[d] = "reclaim"
                                   /\ [job |-> j, rc |-> retries[j]] \in rows[d]]_vars
  <2> SUFFICES ASSUME TypeOK, Budget, Next, NEW j \in Jobs, Terminal(j), status'[j] # status[j]
               PROVE  \E d \in Dispatchers : /\ tick[d] = "reclaim"
                                              /\ [job |-> j, rc |-> retries[j]] \in rows[d]
    OBVIOUS
  <2> USE DEF TypeOK, Terminal
  <2>1. CASE \E d \in Dispatchers : \E r \in rows[d] : ReclaimUpdate(d, r)
    <3>0. PICK d \in Dispatchers : \E r \in rows[d] : ReclaimUpdate(d, r)
      BY <2>1
    <3>1. PICK r \in rows[d] : ReclaimUpdate(d, r)
      BY <3>0
    <3>2. r \in [job: Jobs, rc: Nat] /\ r.rc = retries[r.job] /\ tick[d] = "reclaim"
      BY <3>1 DEF ReclaimUpdate, Budget, ReclaimIsCurrent
    <3>3. r.job = j
      BY <3>1, <3>2 DEF ReclaimUpdate, Requeue, GiveUp
    <3>4. r = [job |-> j, rc |-> retries[j]]
      BY <3>2, <3>3
    <3> QED BY <3>2, <3>4
  <2>2. ASSUME NEW i \in Jobs, NEW w \in {"none", "waiting"}, CreateJob(i, w) PROVE FALSE
    BY <2>2 DEF CreateJob
  <2>3. ASSUME NEW i \in Jobs, WaiterReads(i) \/ WaiterTimesOut(i) \/ LeaseExpires(i) PROVE FALSE
    BY <2>3 DEF WaiterReads, WaiterTimesOut, LeaseExpires, jobVars
  <2>4. ASSUME NEW c \in Connectors, ComesOnline(c) \/ GoesOffline(c) PROVE FALSE
    BY <2>4 DEF ComesOnline, GoesOffline, jobVars
  <2>5. ASSUME NEW d \in Dispatchers,
               \/ ReclaimSelect(d) \/ PickFair(d) \/ TickEnds(d) \/ TickFails(d)
               \/ \E i \in cand[d] : SkipCandidate(d, i)
        PROVE  FALSE
    BY <2>5 DEF ReclaimSelect, PickFair, TickEnds, TickFails, SkipCandidate, jobVars
  <2>6. ASSUME NEW d \in Dispatchers, NEW i \in cand[d], NEW c \in online, Dispatch(d, i, c)
        PROVE  FALSE
    BY <2>6 DEF Dispatch, Grant
  <2>7. ASSUME NEW m \in Daemons, ClaimUpdate(m) PROVE FALSE
    BY <2>7 DEF ClaimUpdate, Claimable
  <2>8. ASSUME NEW m \in Daemons, SubmitAccepted(m) PROVE FALSE
    BY <2>8 DEF SubmitAccepted, RecordResult, ResultOf
  <2>9. ASSUME NEW m \in Daemons,
               \/ PollSelect(m) \/ SubmitRefused(m) \/ SubmitUnanswered(m) \/ DaemonDies(m)
               \/ \E k \in inbox[m], out \in Outcomes : Execute(m, k, out)
        PROVE  FALSE
    BY <2>9 DEF PollSelect, SubmitRefused, SubmitUnanswered, DaemonDies, Execute, jobVars
  <2>10. ASSUME NEW r \in late, LateResult(r) \/ ResultLost(r) PROVE FALSE
    BY <2>10 DEF LateResult, ResultLost, RecordResult, jobVars
  <2> QED
    BY <2>1, <2>2, <2>3, <2>4, <2>5, <2>6, <2>7, <2>8, <2>9, <2>10
    DEF Next, DispatcherStep, DaemonStep, PollAnswered, PollAnswerLost
<1> QED BY <1>1, TypeCorrect, BudgetKept, PTL DEF Spec, ReopenedOnlyByReclaim
=============================================================================
