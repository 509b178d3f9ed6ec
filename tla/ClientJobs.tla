----------------------------- MODULE ClientJobs -----------------------------
(***************************************************************************)
(* The client-job queue of the backend: the client_jobs table, the         *)
(* background dispatcher that leases queued jobs to online connectors and  *)
(* reclaims expired leases, the poll and result endpoints, and the daemons *)
(* (central daemon) that execute the jobs on the user's machine.           *)
(*                                                                         *)
(* Every SQL statement is one atomic step, and two statements of one       *)
(* handler are two steps: all connections run with autocommit, so the row  *)
(* locks of SELECT ... FOR UPDATE SKIP LOCKED are gone when the SELECT     *)
(* returns.  A lease is live or expired; it may expire at any moment after *)
(* it was granted, which covers every clock and every lease length.        *)
(***************************************************************************)
EXTENDS Naturals, FiniteSets

CONSTANTS
  MaxJobs,      \* jobs are numbered in the order of created_at
  Tenants,      \* a set of naturals: tenant_id is ordered in SQL
  JobTenant,    \* the tenant of each job
  Connectors,
  ConnTenant,   \* the tenant a connector is registered under
  Capable,      \* the connectors whose capabilities include the job's action
  Daemons,      \* running `central daemon` processes
  Cid,          \* the connector id each daemon is configured with
  Dispatchers,  \* one background dispatcher per backend process
  MaxRetries,   \* CENTRAL_CLIENT_JOB_MAX_RETRIES
  BatchSize,    \* CENTRAL_JOB_DISPATCHER_BATCH_SIZE
  PollLimit,    \* the limit of one poll
  MaxSubmits,   \* attempts the daemon makes to submit one result
  MaxGrants,    \* bound of the model: leases granted to one job
  MaxFaults,    \* bound of the model: dispatcher ticks that end in an exception
  NoOne         \* SQL NULL in connector_id, and no result in a daemon

Jobs == 1..MaxJobs

ASSUME SizesAssumption ==
  /\ MaxJobs \in Nat \ {0}
  /\ MaxRetries \in Nat
  /\ BatchSize \in Nat \ {0}
  /\ PollLimit \in Nat \ {0}
  /\ MaxSubmits \in Nat \ {0}
  /\ MaxFaults \in Nat
  /\ MaxGrants \in Nat /\ MaxGrants > MaxRetries + 1
ASSUME ActorsAssumption ==
  /\ Tenants \subseteq Nat
  /\ JobTenant \in [Jobs -> Tenants]
  /\ ConnTenant \in [Connectors -> Tenants]
  /\ Capable \in [Jobs -> SUBSET Connectors]
  /\ Cid \in [Daemons -> Connectors]
  /\ NoOne \notin Connectors

VARIABLES
  status, owner, lease, retries,  \* columns of client_jobs, by job
  online,                         \* connectors seen within the heartbeat TTL
  tick, rows, cand,               \* each dispatcher: phase and what its SELECTs returned
  poll, ids,                      \* each daemon's poll request in the server
  inbox, cur,                     \* each daemon: claimed jobs, result being submitted
  late,                           \* results sent whose response the daemon did not see
  waiter,                         \* wait_for_job_result on the job
  grants, runs,                   \* history: leases granted, executions made
  faults

jobVars == <<status, owner, lease, retries>>
tickVars == <<tick, rows, cand>>
pollVars == <<poll, ids>>
daemonVars == <<inbox, cur>>
history == <<grants, runs>>
vars == <<jobVars, online, tickVars, pollVars, daemonVars, late, waiter, history, faults>>

Outcomes == {"succeeded", "failed"}
Leased == {"dispatched", "running"}
Runnable == {"queued"} \cup Leased
Statuses == {"absent"} \cup Runnable \cup Outcomes

(* An entry of a daemon's inbox: the job and which of its leases it was claimed under. *)
Claims == [job: Jobs, grant: Nat]
Result == [job: Jobs, out: Outcomes, by: Connectors]

TypeOK ==
  /\ status \in [Jobs -> Statuses]
  /\ owner \in [Jobs -> Connectors \cup {NoOne}]
  /\ lease \in [Jobs -> {"none", "live", "expired"}]
  /\ retries \in [Jobs -> Nat]
  /\ online \in SUBSET Connectors
  /\ tick \in [Dispatchers -> {"idle", "reclaim", "dispatch"}]
  /\ rows \in [Dispatchers -> SUBSET [job: Jobs, rc: Nat]]
  /\ cand \in [Dispatchers -> SUBSET Jobs]
  /\ poll \in [Daemons -> {"none", "selected"}]
  /\ ids \in [Daemons -> SUBSET Jobs]
  /\ inbox \in [Daemons -> SUBSET Claims]
  /\ cur \in [Daemons -> [job: Jobs, out: Outcomes, tries: Nat] \cup {NoOne}]
  /\ late \in SUBSET Result
  /\ waiter \in [Jobs -> {"none", "waiting", "ok", "failed", "timeout"}]
  /\ grants \in [Jobs -> Nat]
  /\ runs \in SUBSET [job: Jobs, grant: Nat, out: Outcomes]
  /\ faults \in Nat

Init ==
  /\ status = [j \in Jobs |-> "absent"]
  /\ owner = [j \in Jobs |-> NoOne]
  /\ lease = [j \in Jobs |-> "none"]
  /\ retries = [j \in Jobs |-> 0]
  /\ online = {}
  /\ tick = [d \in Dispatchers |-> "idle"]
  /\ rows = [d \in Dispatchers |-> {}]
  /\ cand = [d \in Dispatchers |-> {}]
  /\ poll = [m \in Daemons |-> "none"]
  /\ ids = [m \in Daemons |-> {}]
  /\ inbox = [m \in Daemons |-> {}]
  /\ cur = [m \in Daemons |-> NoOne]
  /\ late = {}
  /\ waiter = [j \in Jobs |-> "none"]
  /\ grants = [j \in Jobs |-> 0]
  /\ runs = {}
  /\ faults = 0

-----------------------------------------------------------------------------
(* The table. *)

Terminal(j) == status[j] \in Outcomes

(* The first n of a set of numbers: ORDER BY ... ASC LIMIT n. *)
Oldest(S, n) == {x \in S : Cardinality({y \in S : y < x}) < n}

(* create_job: the next row, queued.  A file tool then waits for its result. *)
CreateJob(j, w) ==
  /\ status[j] = "absent"
  /\ \A i \in Jobs : i < j => status[i] # "absent"
  /\ status' = [status EXCEPT ![j] = "queued"]
  /\ waiter' = [waiter EXCEPT ![j] = w]
  /\ UNCHANGED <<owner, lease, retries, online, tickVars, pollVars, daemonVars, late,
                 history, faults>>

(* Mutant: any final status is taken for success. *)
WaiterReadsAnyEnd(j) ==
  /\ waiter[j] = "waiting"
  /\ Terminal(j)
  /\ waiter' = [waiter EXCEPT ![j] = "ok"]
  /\ UNCHANGED <<jobVars, online, tickVars, pollVars, daemonVars, late, history, faults>>

(* wait_for_job_result: the polling loop sees a final status, or gives up. *)
WaiterReads(j) ==
  /\ waiter[j] = "waiting"
  /\ Terminal(j)
  /\ waiter' = [waiter EXCEPT ![j] = IF status[j] = "succeeded" THEN "ok" ELSE "failed"]
  /\ UNCHANGED <<jobVars, online, tickVars, pollVars, daemonVars, late, history, faults>>

WaiterTimesOut(j) ==
  /\ waiter[j] = "waiting"
  /\ waiter' = [waiter EXCEPT ![j] = "timeout"]
  /\ UNCHANGED <<jobVars, online, tickVars, pollVars, daemonVars, late, history, faults>>

(* Time passes: the lease of a job in flight runs out. *)
LeaseExpires(j) ==
  /\ status[j] \in Leased
  /\ lease[j] = "live"
  /\ lease' = [lease EXCEPT ![j] = "expired"]
  /\ UNCHANGED <<status, owner, retries, online, tickVars, pollVars, daemonVars, late,
                 waiter, history, faults>>

(* register_connector and heartbeat_connector; the TTL of the last heartbeat passes. *)
ComesOnline(c) ==
  /\ c \notin online
  /\ online' = online \cup {c}
  /\ UNCHANGED <<jobVars, tickVars, pollVars, daemonVars, late, waiter, history, faults>>

GoesOffline(c) ==
  /\ c \in online
  /\ online' = online \ {c}
  /\ UNCHANGED <<jobVars, tickVars, pollVars, daemonVars, late, waiter, history, faults>>

-----------------------------------------------------------------------------
(* run_dispatcher_tick: process_expired_job_leases, pick_fair_queued_jobs,    *)
(* then one dispatch_job_to_connector per candidate.                         *)

(* Mutant: leases of jobs that no daemon picked up are not reclaimed. *)
ExpiredRunning == {j \in Jobs : status[j] = "running" /\ lease[j] = "expired"}

ExpiredLeases == {j \in Jobs : status[j] \in Leased /\ lease[j] = "expired"}

ReclaimSelect(d) ==
  /\ tick[d] = "idle"
  /\ tick' = [tick EXCEPT ![d] = "reclaim"]
  /\ rows' = [rows EXCEPT ![d] = {[job |-> j, rc |-> retries[j]] : j \in ExpiredLeases}]
  /\ UNCHANGED <<jobVars, online, cand, pollVars, daemonVars, late, waiter, history, faults>>

(* Mutant: the retry is not counted. *)
RequeueUncounted(r) ==
  /\ r.rc < MaxRetries
  /\ status' = [status EXCEPT ![r.job] = "queued"]
  /\ owner' = [owner EXCEPT ![r.job] = NoOne]
  /\ lease' = [lease EXCEPT ![r.job] = "none"]
  /\ UNCHANGED retries

(* The UPDATE names the row alone: it does not ask again whether the job is  *)
(* still in flight, and it writes the retry count of the SELECT plus one.    *)
Requeue(r) ==
  /\ r.rc < MaxRetries
  /\ status' = [status EXCEPT ![r.job] = "queued"]
  /\ owner' = [owner EXCEPT ![r.job] = NoOne]
  /\ lease' = [lease EXCEPT ![r.job] = "none"]
  /\ retries' = [retries EXCEPT ![r.job] = r.rc + 1]

(* Mutants: the last retry is given up; a final status nobody knows. *)
GiveUpEarly(r) ==
  /\ r.rc + 1 >= MaxRetries
  /\ status' = [status EXCEPT ![r.job] = "failed"]
  /\ UNCHANGED <<owner, lease, retries>>

GiveUpAsExpired(r) ==
  /\ r.rc >= MaxRetries
  /\ status' = [status EXCEPT ![r.job] = "expired"]
  /\ UNCHANGED <<owner, lease, retries>>

GiveUp(r) ==
  /\ r.rc >= MaxRetries
  /\ status' = [status EXCEPT ![r.job] = "failed"]
  /\ UNCHANGED <<owner, lease, retries>>

ReclaimUpdate(d, r) ==
  /\ tick[d] = "reclaim"
  /\ r \in rows[d]
  /\ Requeue(r) \/ GiveUp(r)
  /\ rows' = [rows EXCEPT ![d] = @ \ {r}]
  /\ UNCHANGED <<online, tick, cand, pollVars, daemonVars, late, waiter, history, faults>>

Queued(t) == {j \in Jobs : status[j] = "queued" /\ JobTenant[j] = t}

(* SELECT DISTINCT ON (tenant_id): the oldest queued job of the first BatchSize *)
(* tenants that have one.  The rotation by _rr_tenant_offset reorders these.    *)
FairPick ==
  LET waiting == {t \in Tenants : Queued(t) # {}}
  IN  UNION {Oldest(Queued(t), 1) : t \in Oldest(waiting, BatchSize)}

PickFair(d) ==
  /\ tick[d] = "reclaim"
  /\ rows[d] = {}
  /\ tick' = [tick EXCEPT ![d] = "dispatch"]
  /\ cand' = [cand EXCEPT ![d] = FairPick]
  /\ UNCHANGED <<jobVars, online, rows, pollVars, daemonVars, late, waiter, history, faults>>

(* Mutant: connectors of every tenant are offered. *)
EligibleAnywhere(j) == IF online \cap Capable[j] # {} THEN online \cap Capable[j] ELSE online

(* _pick_connector_for_job: a capable online connector of the tenant, or any of them. *)
Eligible(j) ==
  LET here == {c \in online : ConnTenant[c] = JobTenant[j]}
  IN  IF here \cap Capable[j] # {} THEN here \cap Capable[j] ELSE here

(* Mutant: the candidate list is trusted, WHERE status = 'queued' is missing. *)
GrantUnchecked(j, c) ==
  /\ grants[j] < MaxGrants
  /\ status' = [status EXCEPT ![j] = "dispatched"]
  /\ owner' = [owner EXCEPT ![j] = c]
  /\ lease' = [lease EXCEPT ![j] = "live"]
  /\ grants' = [grants EXCEPT ![j] = @ + 1]
  /\ UNCHANGED retries

(* dispatch_job_to_connector: UPDATE ... WHERE status = 'queued'. *)
Grant(j, c) ==
  /\ status[j] = "queued"
  /\ grants[j] < MaxGrants
  /\ status' = [status EXCEPT ![j] = "dispatched"]
  /\ owner' = [owner EXCEPT ![j] = c]
  /\ lease' = [lease EXCEPT ![j] = "live"]
  /\ grants' = [grants EXCEPT ![j] = @ + 1]
  /\ UNCHANGED retries

(* Choosing the connector and granting the job are one step: all that can come   *)
(* between is a heartbeat, or its absence, and a job granted to a connector that *)
(* is just gone is one whose connector goes offline right after.                 *)
Dispatch(d, j, c) ==
  /\ tick[d] = "dispatch"
  /\ j \in cand[d]
  /\ c \in Eligible(j)
  /\ Grant(j, c)
  /\ cand' = [cand EXCEPT ![d] = @ \ {j}]
  /\ UNCHANGED <<online, tick, rows, pollVars, daemonVars, late, waiter, runs, faults>>

(* No connector is online (skipped_no_connector), or the row is no longer queued. *)
SkipCandidate(d, j) ==
  /\ tick[d] = "dispatch"
  /\ j \in cand[d]
  /\ Eligible(j) = {} \/ status[j] # "queued"
  /\ cand' = [cand EXCEPT ![d] = @ \ {j}]
  /\ UNCHANGED <<jobVars, online, tick, rows, pollVars, daemonVars, late, waiter, history,
                 faults>>

TickEnds(d) ==
  /\ tick[d] = "dispatch"
  /\ cand[d] = {}
  /\ tick' = [tick EXCEPT ![d] = "idle"]
  /\ UNCHANGED <<jobVars, online, rows, cand, pollVars, daemonVars, late, waiter, history,
                 faults>>

(* An exception or a restart ends the tick: what its SELECTs returned is forgotten. *)
TickFails(d) ==
  /\ tick[d] # "idle"
  /\ faults < MaxFaults
  /\ faults' = faults + 1
  /\ tick' = [tick EXCEPT ![d] = "idle"]
  /\ rows' = [rows EXCEPT ![d] = {}]
  /\ cand' = [cand EXCEPT ![d] = {}]
  /\ UNCHANGED <<jobVars, online, pollVars, daemonVars, late, waiter, history>>

-----------------------------------------------------------------------------
(* fetch_and_claim_jobs_for_connector, called by a daemon with nothing left to do. *)

PollSelect(m) ==
  /\ poll[m] = "none"
  /\ inbox[m] = {} /\ cur[m] = NoOne
  /\ poll' = [poll EXCEPT ![m] = "selected"]
  /\ ids' = [ids EXCEPT ![m] =
       Oldest({j \in Jobs : /\ status[j] = "dispatched"
                            /\ owner[j] = Cid[m]
                            /\ lease[j] = "live"}, PollLimit)]
  /\ UNCHANGED <<jobVars, online, tickVars, daemonVars, late, waiter, history, faults>>

(* Mutant: the ids of the SELECT are trusted. *)
ClaimableUnchecked(m) == ids[m]

(* The rows the UPDATE ... RETURNING finds: still dispatched to this connector. *)
Claimable(m) == {j \in ids[m] : status[j] = "dispatched" /\ owner[j] = Cid[m]}

ClaimUpdate(m) ==
  /\ poll[m] = "selected"
  /\ status' = [j \in Jobs |-> IF j \in Claimable(m) THEN "running" ELSE status[j]]
  /\ lease' = [j \in Jobs |-> IF j \in Claimable(m) THEN "live" ELSE lease[j]]
  /\ poll' = [poll EXCEPT ![m] = "none"]
  /\ ids' = [ids EXCEPT ![m] = {}]
  /\ UNCHANGED <<owner, retries, online, tickVars, cur, late, waiter, history, faults>>

PollAnswered(m) ==
  /\ ClaimUpdate(m)
  /\ inbox' = [inbox EXCEPT ![m] = {[job |-> j, grant |-> grants[j]] : j \in Claimable(m)}]

(* The response is lost, or the daemon is gone: the rows are running all the same. *)
PollAnswerLost(m) ==
  /\ ClaimUpdate(m)
  /\ UNCHANGED inbox

-----------------------------------------------------------------------------
(* The daemon: execute each claimed job, then submit its result. *)

Execute(m, k, out) ==
  /\ cur[m] = NoOne
  /\ k \in inbox[m]
  /\ inbox' = [inbox EXCEPT ![m] = @ \ {k}]
  /\ cur' = [cur EXCEPT ![m] = [job |-> k.job, out |-> out, tries |-> 0]]
  /\ runs' = runs \cup {[job |-> k.job, grant |-> k.grant, out |-> out]}
  /\ UNCHANGED <<jobVars, online, tickVars, pollVars, late, waiter, grants, faults>>

(* Mutant: a result overwrites a final status. *)
RecordAnyResult(r) ==
  /\ status' = [status EXCEPT ![r.job] = r.out]
  /\ owner' = [owner EXCEPT ![r.job] = r.by]
  /\ UNCHANGED <<lease, retries>>

(* submit_job_result: UPDATE ... WHERE status IN ('queued','dispatched','running'), *)
(* whichever connector sends it and whatever became of its lease.                   *)
RecordResult(r) ==
  /\ status' = [status EXCEPT ![r.job] = IF @ \in Runnable THEN r.out ELSE @]
  /\ owner' = [owner EXCEPT ![r.job] = IF status[r.job] \in Runnable THEN r.by ELSE @]
  /\ UNCHANGED <<lease, retries>>

ResultOf(m) == [job |-> cur[m].job, out |-> cur[m].out, by |-> Cid[m]]

(* The server answers 200: the row was runnable. *)
SubmitAccepted(m) ==
  /\ cur[m] # NoOne
  /\ status[cur[m].job] \in Runnable
  /\ RecordResult(ResultOf(m))
  /\ cur' = [cur EXCEPT ![m] = NoOne]
  /\ UNCHANGED <<online, tickVars, pollVars, inbox, late, waiter, history, faults>>

(* The server answers 404 job_not_found_or_not_runnable, or the daemon sees no    *)
(* response; it tries again, and drops the result after the last attempt.  An     *)
(* unanswered request may still be on its way.                                    *)
Retry(m) ==
  cur' = [cur EXCEPT ![m] = IF cur[m].tries + 1 < MaxSubmits
                            THEN [cur[m] EXCEPT !.tries = cur[m].tries + 1]
                            ELSE NoOne]

SubmitRefused(m) ==
  /\ cur[m] # NoOne
  /\ status[cur[m].job] \notin Runnable
  /\ Retry(m)
  /\ UNCHANGED <<jobVars, online, tickVars, pollVars, inbox, late, waiter, history, faults>>

SubmitUnanswered(m) ==
  /\ cur[m] # NoOne
  /\ Retry(m)
  /\ late' = late \cup {ResultOf(m)}
  /\ UNCHANGED <<jobVars, online, tickVars, pollVars, inbox, waiter, history, faults>>

LateResult(r) ==
  /\ r \in late
  /\ RecordResult(r)
  /\ late' = late \ {r}
  /\ UNCHANGED <<online, tickVars, pollVars, daemonVars, waiter, history, faults>>

(* A delayed request that never arrives. *)
ResultLost(r) ==
  /\ r \in late
  /\ late' = late \ {r}
  /\ UNCHANGED <<jobVars, online, tickVars, pollVars, daemonVars, waiter, history, faults>>

(* The daemon is killed: claimed jobs and an unsubmitted result are gone. *)
DaemonDies(m) ==
  /\ inbox[m] # {} \/ cur[m] # NoOne
  /\ inbox' = [inbox EXCEPT ![m] = {}]
  /\ cur' = [cur EXCEPT ![m] = NoOne]
  /\ UNCHANGED <<jobVars, online, tickVars, pollVars, late, waiter, history, faults>>

-----------------------------------------------------------------------------

DispatcherStep(d) ==
  \/ ReclaimSelect(d)
  \/ \E r \in rows[d] : ReclaimUpdate(d, r)
  \/ PickFair(d)
  \/ \E j \in cand[d], c \in online : Dispatch(d, j, c)
  \/ \E j \in cand[d] : SkipCandidate(d, j)
  \/ TickEnds(d)

DaemonStep(m) ==
  \/ PollSelect(m)
  \/ PollAnswered(m)
  \/ PollAnswerLost(m)
  \/ \E k \in inbox[m], out \in Outcomes : Execute(m, k, out)
  \/ SubmitAccepted(m)
  \/ SubmitRefused(m)
  \/ SubmitUnanswered(m)
  \/ DaemonDies(m)

Next ==
  \/ \E j \in Jobs, w \in {"none", "waiting"} : CreateJob(j, w)
  \/ \E j \in Jobs : WaiterReads(j) \/ WaiterTimesOut(j) \/ LeaseExpires(j)
  \/ \E c \in Connectors : ComesOnline(c) \/ GoesOffline(c)
  \/ \E d \in Dispatchers : DispatcherStep(d) \/ TickFails(d)
  \/ \E m \in Daemons : DaemonStep(m)
  \/ \E r \in late : LateResult(r) \/ ResultLost(r)

Spec == Init /\ [][Next]_vars

(* The dispatcher loop keeps ticking and time keeps passing; nothing is asked *)
(* of daemons, of the network or of whoever waits.                            *)
FairSpec ==
  /\ Spec
  /\ \A d \in Dispatchers : WF_vars(DispatcherStep(d))
  /\ \A j \in Jobs : WF_vars(LeaseExpires(j))

-----------------------------------------------------------------------------
(* What the queue promises, for any number of dispatchers and daemons. *)

(* A daemon executed job j and reported out. *)
Ran(j, out) == \E x \in runs : x.job = j /\ x.out = out

(* A lease is executed at most once: a claim a daemon still holds was never     *)
(* executed and is held by no other daemon, and a lease has one outcome, even   *)
(* when two daemons poll under one connector id and leases expire meanwhile     *)
(* (fetch_and_claim_jobs_for_connector's second look at the row).               *)
OneRunPerLease ==
  /\ \A m \in Daemons : \A k \in inbox[m] :
       /\ \A n \in Daemons \ {m} : k \notin inbox[n]
       /\ \A x \in runs : <<x.job, x.grant>> # <<k.job, k.grant>>
  /\ \A x, y \in runs : x.job = y.job /\ x.grant = y.grant => x = y

(* No false success: a job is succeeded, and a file tool is told so, only when  *)
(* a daemon executed the job and that execution succeeded, however many         *)
(* reclaims, duplicate executions and late results there were in between.       *)
NoFalseSuccess ==
  \A j \in Jobs : status[j] = "succeeded" \/ waiter[j] = "ok" => Ran(j, "succeeded")

(* A job is held by, and executed on, connectors of its own tenant only, from   *)
(* the dispatcher's choice of a connector to the claim of a daemon.             *)
TenantIsolation ==
  /\ \A j \in Jobs : status[j] \in Leased => ConnTenant[owner[j]] = JobTenant[j]
  /\ \A m \in Daemons : \A k \in inbox[m] : ConnTenant[Cid[m]] = JobTenant[k.job]

(* A job that ended is never handed out from a stale candidate list or a stale  *)
(* poll: it leaves its final status only through the queue or to a failure.     *)
EndedIsNotHandedOut ==
  [][\A j \in Jobs : Terminal(j) => status'[j] \notin Leased]_vars

-----------------------------------------------------------------------------
(* What it promises to a deployment with one dispatcher (replicaCount: 1). *)

(* A job is leased, hence executed, at most MaxRetries + 1 times, although an   *)
(* expired lease is requeued without asking what became of the job meanwhile.   *)
ExecutionBudget ==
  /\ \A j \in Jobs : grants[j] <= MaxRetries + 1
  /\ \A x \in runs : x.grant <= MaxRetries + 1

(* A failed job either failed on a machine or used up every retry.              *)
FailureExplained ==
  \A j \in Jobs : status[j] = "failed" =>
    retries[j] = MaxRetries \/ Ran(j, "failed")

(* A job that ended changes its status only when the dispatcher had selected it *)
(* for reclaim while it was in flight: outside that window the end is final.    *)
ReopenedOnlyByReclaim ==
  [][\A j \in Jobs : Terminal(j) /\ status'[j] # status[j] =>
       \E d \in Dispatchers : /\ tick[d] = "reclaim"
                               /\ [job |-> j, rc |-> retries[j]] \in rows[d]]_vars

(* The queue implements JobLifecycle: whatever is interleaved, a job is handed  *)
(* out at most MaxRetries + 1 times, concluded with what an execution of it     *)
(* yielded, and abandoned only when every try is used up.                       *)
PhaseOf(s) ==
  CASE s = "absent" -> "none"
    [] s = "queued" -> "open"
    [] s \in Leased -> "out"
    [] OTHER -> s

Lifecycle == INSTANCE JobLifecycle WITH
  Work <- Jobs,
  Tries <- MaxRetries + 1,
  phase <- [j \in Jobs |-> PhaseOf(status[j])],
  attempts <- grants,
  outcomes <- [j \in Jobs |-> {v \in Outcomes : Ran(j, v)}]

ImplementsLifecycle == Lifecycle!Spec

(* Every created job ends for good, whatever daemons, network and waiters do,   *)
(* once every tenant keeps a connector online and the batch holds all tenants.  *)
Served == \A t \in Tenants : \E c \in online : ConnTenant[c] = t
EveryJobEnds ==
  <>[]Served => \A j \in Jobs : status[j] = "queued" ~> [](Terminal(j))

(* process_expired_job_leases, "Requeue or fail jobs whose lease expired        *)
(* (dispatched / running)": a job that is neither is left alone.                *)
EndIsFinal == [][\A j \in Jobs : Terminal(j) => status'[j] = status[j]]_vars

(* pick_fair_queued_jobs, "round-robin fairness across tenants": a job whose    *)
(* tenant keeps a connector online ends, whatever the other tenants do.         *)
TenantFairness ==
  \A j \in Jobs :
    <>[](\E c \in online : ConnTenant[c] = JobTenant[j]) =>
      (status[j] = "queued" ~> Terminal(j))
=============================================================================
