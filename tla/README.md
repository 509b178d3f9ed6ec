# CentralChat: a verification project

CentralChat is a control plane for AI agents: a FastAPI backend over PostgreSQL and
JSON files, a Go CLI that executes tools on the developer's machine, and web clients.
What an agent wants to do to a machine becomes an *approval*, people decide on it, an
approved action becomes a *client job*, a dispatcher leases the job to an online
*connector*, and a daemon executes it and reports back. This directory holds TLA+
models of that path and of the parts of a backend process it rests on, TLC instances
that check them, and TLAPS proofs about them.

Paths below are relative to `src/vhosts/CentralChat_Backend/` unless they say otherwise.

## Files

| file | content |
|---|---|
| `ClientJobs.tla` | the client-job queue, dispatcher, poll and result endpoints, daemons |
| `ClientJobsProofs.tla` | invariants of the queue, proved |
| `JobLifecycle.tla` | the life of one job as its creator may rely on it: the abstract specification of the queue |
| `ClientJobsRefinement.tla` | the queue implements `JobLifecycle`, proved |
| `MCClientJobs.tla`, `ClientJobs_*.cfg` | small instances of the queue |
| `JsonStore.tla` | a JSON file saved through a fixed temporary name |
| `Approvals.tla` | the approvals store, its routes, dispatch and the session surface |
| `ApprovalsProofs.tla` | invariants of the approvals under overlapping requests, proved |
| `ApprovalsApartProofs.tla` | what keeps the store right although requests overlap, proved |
| `MCApprovals.tla`, `Approvals_*.cfg` | small instances of the approvals |
| `Turns.tla`, `TurnsProofs.tla`, `Turns_surface.cfg` | streamed turns, the tool loop, the stream limit, and the event loop they block |
| `ConnPool.tla`, `ConnPoolProofs.tla` | the PostgreSQL connection pool |
| `LlmGateway.tla`, `LlmGateway_probes.cfg` | quota and circuit breaker around a model call |
| `SiemOutbox.tla` | the outbox of SIEM events |
| `FileLease.tla`, `FileLease_exclusive.cfg` | the lease of a workspace path |
| `AgentTree.tla` | rows of agent trees, and its execution on a bounded pool |
| `PolicyBundles.tla`, `PolicyBundlesProofs.tla` | versions of a tool policy and the pointer to the active one |
| `WorkItems.tla` | status and blockers of work items, and the routes that write them |
| `Backend.tla`, `Backend.cfg` | the eight parts above that share no state, in one instance |
| `BackendProofs.tla` | invariants of lease, quota, outbox, work items and agent tree, and of all the parts composed, proved |
| `PROJECT.json` | components, runs, mutants, source map, findings, hazards, theorems |

Run `tlc -config X.cfg M` for a run listed in `PROJECT.json`, `tlapm M.tla` for a proof
module. An operator whose comment begins with *Mutant* is a plausible bug: substituted
for the definition it varies, it makes the named property fail.

## Inventory

**Client job queue** (`app/connector.py`, `app/shared/job_dispatcher.py`,
`app/http/router_connector.py`). State: the tables `client_jobs` (status, connector,
lease, retry count) and `connectors` (last heartbeat). Operations: create, reclaim
expired leases, pick one queued job per tenant, grant a lease, poll-and-claim, submit a
result. Actors: one dispatcher task per backend process, request handlers in a thread
pool, daemons. Hard: every connection is in autocommit mode (`app/shared/pg_pool.py:58`,
`_connect_jobs_admin`), so `FOR UPDATE SKIP LOCKED` locks nothing beyond its own
SELECT; leases expire under running work; results are retried, late or lost; daemons
die. Correct when: a lease is executed once, retries are bounded, no success is
invented, tenants stay apart, every job ends.

**Daemon** (`src/vhosts/CentralChat_CLI/internal/commands/daemon.go`). State: the polled
jobs and the result being submitted. It executes one job after another, submits each
result up to three times, and forgets it after that.

**File tools** (`app/file_change_service.py`) create a job and poll for its end, or
create an approval for a write.

**Approvals store** (`app/shared/approvals_store.py`). State: one JSON list per tenant.
Every operation loads the whole list, changes one record, and saves the list through
`<store>.tmp` and `os.replace`, without a lock. Hard: overlapping handlers, crashes
inside a save, expiry. Correct when: an approved record has the approvers it needs
behind it, decisions are final, the file can be read.

**Approval routes** (`app/approvals.py`): create, approve, confirm-double, deny; then
work item, audit, dispatch as a job or pull request, clearing the surface. Correct when:
one resolution and at most one job per approval, and no job without an approval.

**Session surface** (`app/session_surface_service.py`): what a session waits for, in one
JSON file of the same kind. It must not show what is already resolved.

**Model gateway** (`call_llm` in `app/clients.py`, `app/tenant_quota.py`,
`app/shared/openrouter_resilience.py`). State: the tenant's row of the hour, the
process's breaker (CLOSED, OPEN, HALF_OPEN under a lock, around calls that run without
it). Hard: calls that began in one state of the breaker end in another; tokens are
checked before a call and charged after it. Correct when: the breaker recovers,
probes are as few as its setting says, and the overshoot of the quota is bounded.

**File lease** (`app/context_engine/steps/gather/file_lease.py`): an in-memory lease of
a workspace path per work item, with a timeout. A lease in time must not be lost.

**Connection pool** (`app/shared/pg_pool.py`, `pg_tenant.py`): semaphore, list and
reaper. A connection must serve one user at a time and under its tenant's setting, and
every slot must come back.

**SIEM outbox** (`app/shared/siem_outbox.py`): rows delivered with retry and backoff,
dead after five attempts, by processors that do not claim them. At-least-once delivery,
and rows that tell the truth about it.

**Streamed turns** (`assistant_text_stream` in `app/assistant_routes.py`,
`iter_agent_tool_stream` in `app/tools.py`, `app/shared/concurrent_limiter.py`). State:
each stream's place and budget, the process's count of streams, the session. Hard: the
tool loop is synchronous and holds the event loop; clients leave; approvals are
announced before they are shown. Correct when: slots are accounted for, a turn that ended
in an error is not in the session, no session waits for what is resolved, and every
stream ends.

**Agent tree** (`app/agent_tree.py`): rows edited by requests of several statements; a
runner whose nodes wait for their children in the same bounded pool. Correct when:
replies are complete, runs end, and a deletion keeps the node's children.

**Policy bundles** (`app/shared/policy_bundle_store.py`): versioned drafts, publication,
rollback, a loader of three SELECTs, all in autocommit. Correct when: the active policy
exists and a decision sees all of it.

**Work queue** (`app/work_queue.py`, `app/agent_work_queue_tools.py`). State: the rows of
`work_items` (status, the items that block each). Operations: create, PATCH, start
(`/work`), the agent's update and claim, the reopening by a denial. Hard: every route
reads rows and then writes one in a statement of its own, and nothing is locked between.
Correct when: an item that is started through PATCH was not blocked.

Left aside, see *Not modelled*: the WebSocket connector, audit exports, the rate limit,
break-glass, the context pipeline, sessions, tenants, authentication and vault, the
CLI's solo mode and TUI, the web, admin and desktop clients, deployment.

How they interact: tool loop -> approvals store (create) -> surface (show); routes ->
store (decide) -> work queue (denied) or job queue (approved) -> surface (clear);
dispatcher and daemons share only the job table; a recorded result is written back to
the approval (`submit_job_result` -> `set_execution_status`). A streamed turn holds a
slot of the limiter while its tool loop calls the gateway, creates jobs and approvals,
and registers them on the surface; its file tools wait for the connector, whose requests
need an event loop. Everything that runs SQL does so through the connection pool, whose
connections are in autocommit mode: no two statements of any model are atomic together.

## Plan

1. `ClientJobs` with its proofs - done.
2. `JsonStore`, `Approvals` over it, with proofs - done.
3. `JobLifecycle`, the abstract promise of the queue, and `ClientJobs` shown to implement
   it with a refinement mapping, model-checked and proved for one dispatcher - done.
4. The parts the path rests on, as the list of hazards ranks them: `Turns` with the
   stream limit, `ConnPool`, `LlmGateway`, `SiemOutbox`, `FileLease`, `AgentTree`,
   `PolicyBundles`, `WorkItems`, composed in `Backend`, with proofs - done.
5. `ApprovedWork`: approvals and jobs composed, from approval to reported execution.
6. `SessionSurface` over `JsonStore`, with clarify interrupts and several sessions.
7. `Limits` (rate limit, break-glass); a run of its own for the routes of `WorkItems` that
   ask for no blockers.
8. Proofs of what the runs check: `OneJobPerApproval` from the unique index, the store's properties
   as conditions on overlap, the agent tree, the composition - done.
9. Proofs of progress, as far as it is safety: that a run of a tree is never stuck and
   moves on, that a turn moves on - done; the same for the jobs of a dispatcher's tick
   and for the rows of the outbox.

No module that is proved about declares a RECURSIVE operator, or should.

## ClientJobs

| variables | code |
|---|---|
| `status`, `owner`, `lease`, `retries` | columns of `client_jobs` |
| `online` | connectors whose `last_seen_at` is within the heartbeat TTL |
| `tick`, `rows`, `cand` | a dispatcher's phase in `run_dispatcher_tick`, the rows of the reclaim's SELECT, the candidates |
| `poll`, `ids` | a poll request in the server between SELECT and UPDATE |
| `inbox`, `cur` | a daemon's claimed jobs, the result it is submitting |
| `late` | results sent whose answer the daemon did not see |
| `waiter` | `wait_for_job_result` |
| `grants`, `runs` | history: leases granted, executions made |

A tick is `ReclaimSelect`, a `ReclaimUpdate` per row, `PickFair`, a `Dispatch` or
`SkipCandidate` per candidate, `TickEnds`; an exception or restart is `TickFails`. A
poll is `PollSelect` and `PollAnswered` or `PollAnswerLost`. The daemon executes
(`Execute`), submits (`SubmitAccepted`, `SubmitRefused`, `SubmitUnanswered`) and may die
(`DaemonDies`); an unanswered request arrives later (`LateResult`) or never
(`ResultLost`).

Abstractions. A lease is live or expired, and may expire at any time, which stands for
every clock and lease length. Jobs are numbered by `created_at`, tenants by
`tenant_id`'s order. The choice of a connector and the grant are one step; only a
heartbeat can come between them. `error_code`, payload and result are outcomes. The
statuses `expired` and `denied` are declared in `JobStatus` and written nowhere. Bounds
of the model, named in it: `MaxGrants` (leases of one job; above what one dispatcher can
grant, and never what stops the runs of one dispatcher), `MaxFaults` (failed ticks).

Fairness (`FairSpec`): weak fairness of the dispatcher's steps, because
`_dispatcher_loop` catches every exception and ticks for ever, and of the expiry of each
lease, because time passes. Finitely many ticks fail (`MaxFaults`): with a database that
is down for ever no job ends. Nothing is assumed of daemons, of the network, of waiters.

### JobLifecycle and the refinement

`JobLifecycle` says what the creator of a job may rely on: it is handed out at most
`Tries` times, a verdict is the outcome of an execution of that very job, it is
abandoned only with no try left. It does not say that a verdict is final, which the code
does not keep (`jobs_final`): `Reopen` leaves from a verdict as well, while tries are
left. `Lifecycle` in `ClientJobs` is the mapping: `phase` is `PhaseOf(status)`, which
reads both leased statuses as "out"; the attempts are the leases granted; the outcomes
are those of the executions so far. Polls, heartbeats, candidate lists and deliveries
are stutters; a tick of the dispatcher is a step per job it changes.

## JsonStore and Approvals

A store is a path, a temporary path and inodes. `open(tmp, "w")` truncates the inode the
path names, so overlapping writers share one; `os.replace` moves it; a descriptor
follows its inode. The list reaches the file in one write, when it is closed. A list
longer than the write buffer takes several; what that adds, a prefix published by
another writer, is as unreadable as the empty file the model publishes. `Torn` is a
shorter list written over the rest of a longer one.

| variables | code |
|---|---|
| `live`, `tmp`, `data`, `fd` | the store's files and open descriptors |
| `pc`, `req`, `items` | each activation of a handler: next step, arguments, loaded list |
| `expired` | approvals past `expires_at` |
| `jobs` | client jobs created for each approval |
| `events`, `tickets`, `shown` | audit records of a resolution, work items, `pending_approval` |

A handler runs `check` (the route's separation of requester and approver), `load` (one
action per decision: `Create`, `DenyOverdue`, `ApproveSingle`, `FirstStep`,
`SecondStep`, `Deny`, `LinkResult`, or `Answer` when it writes nothing), `open`, `dump`,
`publish`, then what its route does: work item, audit, look-up and insertion of the job,
surface. `Crash` cuts it off anywhere.

Abstractions. `Overlapping = FALSE` is a deployment in which one request is served at a
time, crashes included; nothing in the code makes it one. Surface writes are atomic here. `Dispatchable` stands for the
settings under which an approved action becomes a job; the pull-request path and the
rule proposed from a denial are left out. `NoUser` is a caller without a subject (JWT
not required). The unique index on `tool_call_id` is the one of migration 016; a schema
created by `_ensure_client_jobs_schema_inline` lacks it (`UniqueToolCall`). Ids are
fresh, and no two approvals share a tool-call id.

## Turns

| variables | code |
|---|---|
| `turn` | where a stream stands (`at`), its process (`loop`), its rounds and tools, whether text was sent, how it ended |
| `left` | clients that closed the connection |
| `streams` | `_active` of the limiter in each process |
| `job` | the row of the turn's file tool |
| `approval` | the approval a tool of the turn asked for, and whether its record names the session |
| `shown` | the turns whose approval is the `pending_approval` of their session's surface |
| `saved` | turns that `append_completed_turn` put into the session |

`Sessions` says which turns are of one chat session; a turn may be of none, and then it
registers nothing and is saved nowhere. A surface has one `pending_approval`: what a turn
registers takes the place of what an earlier turn of its session did.

A turn stands at the last event it yielded, and a step takes it to the next with every
effect on the way: the generator is synchronous between two yields, and only after the
next event is ready does the handler see that the client has left (`Yields`). A file
tool sleeps in `wait_for_job_result` on the event loop: `IsFree` is false of that
process until the job is done or the deadline has passed, and the connector's own
requests need a free one (`SomeLoopFree`). `EndsWith` is the `finally` of
`_guarded_gen`; a request that fails between `acquire` and its first event
(`PrepareFails`, `NeverBegins`) has no such `finally`, and `SlotsAccounted` counts what
it loses, so that the lost slot is described rather than caught. `max_tool_executions + 1` rounds are kept as a counter next to the tools, so
that `NeverExhausted` is about the two of them.

A tool that raises ends the stream in one of two ways: the handler turns `httpx.HTTPError`
and `RuntimeError` into an `error` event (`ToolFails`); any other exception breaks the
stream without a word (`ToolRaises`). In both, what the tool had created stays, an
approval included. A wait that cannot read its job ends the stream in the same two ways
(`WaitBreaks`). `register_pending_approval` writes a file through a temporary name that
the processes share, and can fail: the stream breaks with the approval pending and shown
nowhere (`RegisterRaises`). `append_completed_turn` and the `done` event are two steps
(`Save`, `Done`), and the client may leave between them.

Abstractions: a model answer is a tool, a reply, or an error, with or without text;
what a tool returns is not looked at; runs of token events are one event; a turn has at
most one file tool's job at a time, and asks for at most one approval (a bound). Loading
the surface and saving it are one step: the lost update of two processes that overlap
there is not modelled, nor is a failing surface write in the approver's request, which
`Approvals` covers (`Crash` before the surface). Fairness: `WF` of each turn's steps
(`TurnGoesOn`), because the loop goes on scheduling a stream and `wait_for_job_result`
has a deadline; nothing is assumed of clients, approvers or the connector, nor that a wait
breaks off, so that the deadline alone ends it.

## The parts of a backend process

**`ConnPool`.** Each section under the pool's lock is an action; the semaphore is taken
before and given back after it. `PoolWarm` is the first use, `ReapIdle` part of every
`PoolAsk`, `PoolConnect` the growth of the pool; connects fail and the database restarts
at most `PoolFaults` times. A server session remembers `app.tenant_id` (`setting`) and
may be closed by the server (`broken`). Identities of connections are reused once they
are closed. `PoolMin < PoolMax`, as the defaults (2 and 10) have it.

**`LlmGateway`.** `CheckQuota`, `Enter` (the breaker's admission), the call itself
(`Succeed`, `Fail`), `Count` (the UPDATE that adds tokens), in each of several threads.
`doomed` is a call begun while the upstream was failing: it may still fail after the
upstream healed, which is what `CircuitRecovers` is about. `probing` is the calls that a
half-open circuit let through: the guard compares `half_open_max_requests` with a count
that only a failed probe raises, so the limit admits everyone (`ProbesWithinLimit` is
violated). `failures` stops counting at
`FailureThreshold`, above which nothing depends on it. Bounds: `MaxCost`, `MaxReported`.
One row per tenant and hour rests on the unique index of the migrations (002, 003);
`_ensure_quota_table` creates the table without it, and two first calls of an hour could
then make two rows.
Fairness: threads run, the hour and the recovery time pass, and calls keep coming.

**`SiemOutbox`.** A pass is `SelectDue`, a `Post` and a `Settle` per row, cut off by
`ProcessorDies` (`MaxDeaths`). Each `Settle` writes from the count its own SELECT
returned, so overlapping processors set counts back; the SELECT's `LIMIT 50`, oldest
first, is left out, and a batch holds every due row; `refused` is the history that tells
what happened. Fairness: processors come round again and backoffs pass.

**`FileLease`.** One path. The step has no await, so a turn's step is one action; which
of four it is follows from the entry it finds. `Lapse` is the passing of the timeout
since a turn was told that the path is its own.

**`AgentTree`.** Requests edit the rows of several trees (`Trees`): `CreateNode`,
`UpdateNode`, the three statements of a deletion, `DeleteTree`. `create_agent_node`
verifies that the parent is a node of its tree; `update_agent_node` does not, and the
foreign key asks for a row of any tree, so an update can hang a node below itself or below
a node of another tree. A deletion moves the children of its own tree and then cascades to
whatever hangs below the row (`Below`, the least set of rows closed under children):
`DeleteKeepsOwnChildren` says that what goes with the node was attached after its children
had moved, or is of another tree, or is below such a row. The first two the code does not
protect; they are named in the property, not caught by it. A node made its own parent is
exempt, because its children "move" to itself.

`RunTree` takes a snapshot of one tree and the pool executes it; a run is not interleaved
with edits, because the runner works on the rows it loaded, and starts between two
deletions. The runner does not read `root_node_id`: the root is a node without a parent,
else the first one, so that a tree with a cycle through all its candidates starts on it.
Then the root is submitted again below itself, and each visit keeps a worker for the next
(`Revisit`, counted by `again`), until no worker is left. A node with children keeps its
worker too. `TreeEnds` therefore promises the end of a run only with fewer inner nodes than
workers and a root that is not below itself; other runs can stop for ever, which is
described and not caught. Further visits of nodes that hang off the cycle are left out:
they hold workers for a while and change nothing else. Fairness: `Execute`, because the
pool's threads run and model calls time out.

**`PolicyBundles`.** One action per SQL statement; a request may stop after any of them
(`Interrupted`), and a decision reads with three. A bundle carries the name of the
request that inserted it, a rule that of the request that wrote it, so "whole and
unmixed" can be said at all. `PublishedBundleIsWhole` is about bundles that
`publish_policy_bundle` activated: a published draft can be rewritten under a decision's
reads, and a publication that stopped half way leaves a bundle that says `published` and
that a rollback activates, which `ActiveIsPublished` allows. Both are reached by the model
and promised by nobody.

**`WorkItems`.** `Write` is one UPDATE (or INSERT) of a row, the same for every route;
`asking` holds what a route that reads first is about to do. PATCH with `in_progress`
reads the row, then each blocker (`ReadItem`, `ReadBlocker`, `RefuseBlocked`), then
writes (`StartChecked`), possibly with other blockers than it read. `Claimed` and
`Reopen` write on the strength of an earlier read, `Work`, `UpdateTool` and `PatchItem`
on none. A blocker that does not exist yet (`"absent"`) does not block. `overtaken` is
the history of what came to block after it was read: `BlockersWereEnded` says that
nothing else does. The comment at `work_queue.py:894` says "blocked WI cannot move to
in_progress"; the check below it is PATCH's alone, and `Work`, `UpdateTool` and `Claimed`
have, like their code, no such guard. `POST /review` always answers `no_reviewer_assigned`,
because no statement writes `reviewer_id`, and `_check_auto_transition` has no caller;
`PATCH /reorder` and `/batch` are declared after `PATCH /{item_id}`, which takes their
paths first.

**`Backend`** puts these seven and `Turns` together. They share no variable and meet
only in calls that succeed or fail, which each of them models for its callers, so an instance runs one of
them at a time: `focus`, chosen at the start, is the part that moves. A property of one
part is about its own variables, so it holds in all interleavings exactly if it holds
with the other parts at rest. What this composition cannot show is anything that needs
two of them, and no property of it does.

## Runs

| run | instance | shows |
|---|---|---|
| `jobs_one` | 1 job, 2 tenants with a connector each, 2 daemons on one connector id, 1 dispatcher, 1 retry, 2 submissions, 1 failed tick, `FairSpec` | `TypeOK`, `TenantIsolation`, `ExecutionBudget`, `FailureExplained`, `ReopenedOnlyByReclaim`, `ImplementsLifecycle`, `EveryJobEnds` |
| `jobs_many` | 1 job, 2 dispatchers, 2 daemons on one connector id | `OneRunPerLease`, `NoFalseSuccess`, `EndedIsNotHandedOut` |
| `approvals_serial` | 4 requests one at a time, 1 crash, a double approval of the session that can expire, a single one whose record names no session, 3 users | `StoreReadable`, `OneResolution`, `SurfaceIsCurrent`, `DecisionIsFinal` |
| `approvals_overlap` | 3 overlapping requests, a double and a single approval, 3 users, one of whom asked | `TypeOK`, `FourEyes`, `JobsAreApproved`, `OneJobPerApproval` |
| `backend` | one part at a time: 3 threads on a pool of 1 to 2 connections with 1 fault; 3 callers, threshold 2, 1 probe; 2 events, 2 processors, 2 attempts, 1 death; 3 work items with one path; trees of 3 nodes and of 1, on 2 workers; 3 policy requests; 3 work items, one with up to 2 blockers, and 1 requester that reads; 2 turns on 2 processes, one in a session, 1 stream per process, 1 tool per turn | `BackendTypeOK`, `PoolNoSharing`, `PoolTenantScoped`, `PoolFallbackUnneeded`, `QuotaOvershoot`, `OutboxTellsTheTruth`, `LockedItemHasEntry`, `AggregatesComplete`, `ActiveIsPublished`, `PublishedBundleIsWhole`, `BlockersWereEnded`, `SlotsAccounted`, `NeverExhausted`, `ErrorMeansNotSaved`, `DeleteKeepsOwnChildren`; under each part's fairness `CircuitRecovers`, `EventSettles`, `TreeEnds`, `StreamEnds` |
| `jobs_final` | as `jobs_one` with one tenant | `EndIsFinal` is violated |
| `jobs_starve` | 2 tenants, batch of 1, `FairSpec` | `TenantFairness` is violated |
| `approvals_doubleclick` | 2 overlapping requests, a single approval | `OneResolution` is violated |
| `approvals_race` | the same | `ApprovedIsNotDenied` is violated |
| `lease_exclusive` | 3 work items with one path | `OneItemLocked` is violated |
| `gateway_probes` | 3 callers, threshold 2, 1 probe | `ProbesWithinLimit` is violated |
| `turns_surface` | 2 turns of one session on 2 processes | `ResolvedIsCleared` is violated |

Why the bounds are enough. Jobs meet only in `FairPick` and in a poll's list, which
order them; what goes wrong for one job needs two daemons, a reclaim and a late result,
and all occur with one job. One retry separates a first, a last and a refused retry, and
is what lets an expired lease bring a job back before `EveryJobEnds` is asked of it; two
tenants exercise isolation, and, with a batch of one, the limit. Two daemons under one
connector id are the overlapping polls; two dispatchers the overlapping ticks. On
approvals, three people are the least with whom a double approval whose requester is
known can be approved at all; three requests are an approve, a confirm and any third;
four in turn add the creation or the result. The overlapping run has no crash: a
handler that is cut off is, to the others, one that stops taking steps, except that its
file is closed; the serial run and the proofs include it. `approvals_overlap` and
`approvals_serial` treat requests, and the users who asked for nothing, as symmetric.
Two turns on two processes are the least that can block each other: each waits for a
job while the connector has no loop left. Three threads on two connections make one wait
while the others reap and return; three callers exceed the probes of a half-open breaker
and leave one old call; two processors overwrite each other; a tree of three nodes
is a root with an inner node and its child, which leaves one of two workers free, or a
cycle, which fills both, and the fourth node is what another tree has to offer as a parent
or a child; three
policy requests are a draft, its publication and an update of it meanwhile. Two blockers
are the least of which one can change while the other is read; the instance asks for
three of the five statuses, one that blocks, one that starts and one that ends. One
requester reads before it writes; the requests that write at once (`Work`, `UpdateTool`,
`PatchItem`, `CreateItem`) are what overtakes it, and a second reader adds no write that
these do not make.

Deadlock checking is off in every run but `lease_exclusive`: with all jobs ended or all requests served the
system rests. In `AgentTree` a run that filled its pool rests for good, as in the code.

## What the code does otherwise than it says

- `jobs_final`: the reclaim's UPDATEs have no status guard and no lock, so a result that
  arrives after their SELECT is undone: the succeeded job is executed again, or failed.
  What *does* hold is `ReopenedOnlyByReclaim`: only inside that window.
- `jobs_starve`: the batch limit follows the order of `tenant_id` and the rotation only
  reorders the batch; tenants beyond the limit wait for ever while others have work.
- `approvals_doubleclick`: two overlapping approvals are both audited as resolutions;
  the job is still created once (`OneJobPerApproval`).
- `approvals_race`: a deny that loaded the list earlier undoes a stored approval.
- `lease_exclusive`: a turn that meets a stale lease pops it from the table and renews the
  popped record, so it is told that the path is locked for its work item while the table
  has no entry, and so is the next item; the repository's README (line 137) says that two
  agents cannot modify one file at the same time. What holds is `LockedItemHasEntry`:
  only an item whose last turn met a stale lease is told so wrongly.
- `gateway_probes`: `half_open_max_requests` is documented as the number of probe requests
  in `half_open`, but what is compared with it counts failed probes: every caller that comes
  while a probe is under way becomes another one. What holds is `CircuitRecovers`.
- `turns_surface`: the tool loop announces an approval and puts it on the surface
  afterwards. A decision in between finds nothing to clear, and the session is then shown
  as waiting for an approval that is resolved, against `session_surface_service.py:151`.

## Proofs

Every invariant and every action property that a passing run checks is stated by a
theorem for every value of the constants, except `SurfaceIsCurrent`; those of
`approvals_serial` under a condition on which handlers overlap.

Assumptions: the named `ASSUME`s of the modules, which say no more than the types of the
constants, that null values are none of the actors, that an empty or torn file is no list
(`DocumentsAssumption`), and that `MaxGrants` leaves room for every retry. `OneJobSafety`
assumes the unique index on `tool_call_id` (`UniqueToolCall`), as migration 016 creates
it; without it two look-ups can both find no job. `BudgetSafety`, `ReopeningSafety`,
`FailureSafety` and `Refinement` assume one dispatcher (`OneDispatcher`), as
`replicaCount: 1` of the Helm chart provides; with two, an older retry count can overwrite
a newer one and the budget is not kept.

`ClientJobsProofs`, all for any number of jobs, tenants, connectors and daemons:

- `TypeCorrect`.
- `LeaseSafety`: `OneRunPerLease` is not inductive by itself, because nothing in it says
  that the next claim is of a new lease. `LeasesNumbered` adds that claims and
  executions carry numbers of leases granted, and that a dispatched job's current lease
  has been neither claimed nor executed; the claim's UPDATE needs `dispatched`.
- `Isolation`: `TenantIsolation` is inductive together with the types; the poll's second
  look at `connector_id` carries a lease's owner into the inbox.
- `SuccessSafety`: `ResultsRan` adds that a result in a daemon or on its way is of an
  execution that happened.
- `BudgetSafety`: `Budget` says that a reclaim's rows hold the job's present retry count
  (`ReclaimIsCurrent`) and that a job was granted at most one lease more than its
  retries, and no more than its retries while queued (`RetriesPayForLeases`).
- `ReopeningSafety`: from `ReclaimIsCurrent`.

`ApprovalsProofs`, for any number of approvals, users and overlapping, failing and
crashing requests:

- `TypeCorrect`, with `Handlers`: what a handler has established at each step.
- `FourEyesSafety`: every handler rewrites every record from its own copy, so the
  invariant (`AllBacked`) must speak of all copies at once: every record in any file
  or any handler's list is *backed* - if it is approved it has its approvers, and if it
  awaits confirmation it names a first approver who asked for nothing. Requests are
  never forgotten, so what is backed stays so, and copying makes nothing new.
- `JobSafety`: a handler past its decision keeps the record it saved, so a job's
  creator stays a witness; an outcome is only linked by a request that a job's report
  started.
- `OneJobSafety`: the INSERT is the only step that adds a job, and the index refuses the
  second; the look-up before it plays no part.

`ApprovalsApartProofs`, for any number of approvals, users, inodes and requests, which may
overlap and be cut off anywhere. The handlers do overlap, and then `StoreReadable`,
`OneResolution` and `DecisionIsFinal` fail (`approvals_doubleclick`, `approvals_race`, and
the `.tmp` path that two saves share). What is proved is which overlap is to blame:

- `SavesApart` - no two handlers are between opening the temporary file and publishing it -
  is enough for `StoreReadable` (`ReadableSafety`). `FilesApart`: the temporary name then
  never names the published inode, also after a crash that left a temporary file behind, and
  a request about to publish has its whole list in it.
- `EditsApart` - no handler loads the list while another has yet to publish the one it
  loaded - is enough for `DecisionIsFinal` and `OneResolution` (`FinalSafety`,
  `ResolutionSafety`). `Lists`: the list in a handler's hands is the published one but for
  its own record. `Resolutions`: of the requests that come to audit one approval only one
  resolved it.

Each is a hypothesis of its theorem (`Spec => ([]EditsApart => ...)`) on behaviours of
the whole, overlapping specification, not an assumption on the constants. Nothing in the
code sees to either; a lock around load and save would see to both, and the theorems say
that such a lock is sufficient although checks, audits, dispatch and surface stay outside.
For `SurfaceIsCurrent` it is not: a creation that shows its approval late shows it after it
was resolved, so that one is model-checked for serial requests only.

`ClientJobsRefinement`, for any number of jobs, tenants, connectors and daemons:

- `EndedSafety`: `EndedIsNotHandedOut`, for any number of dispatchers: the grant's UPDATE
  asks for `queued` again.
- `FailureSafety` and `Refinement`, with one dispatcher: `TriesExact` sharpens `Budget`
  to an equation, every retry pays for exactly one lease, also for rows a reclaim has
  already selected; so a job that is abandoned has had all its tries, and one that is
  reopened has one left. Each action then maps to one step of `JobLifecycle`.

`BackendProofs`, first for the specifications of the parts themselves:

- `LeaseSafety`: by cases on the entry.
- `QuotaSafety`: whoever is admitted found the row below the limit, so the sum with the
  cost of those in flight was within the bound; `Count` moves a cost from one side of
  the sum to the other. The counting is by the cardinality lemmas.
- `OutboxSafety`: every count in a processor's hands is at most the refusals of its
  event, and strictly below them once its own post has failed.
- `BlockerSafety`: inductive with the types and with every requester having an item; one
  lemma (`WriteStep`) says what any UPDATE does to the reads of a PATCH.
- The agent tree, for any number of nodes, trees and workers and rows of any shape, cycles
  and parents in other trees included. `Below` is a least set, so an induction over trees is
  a choice of set: to show that something is not below a node, name a set that is closed
  downwards and leaves it out. `RowsInv` says that a `parent_id` is that of a row and that
  the children of its own tree which hang from a node being deleted came after the others
  had moved (`ChildrenSafety`). `RunInv` says that the snapshot gives each node one parent
  and that whatever is done has its children done before it (`AggregatesSafety`), on cycles
  as well.
- Progress of a tree. What a run reaches below a root without a cycle is *founded*: any part
  of it has a node with no child in that part. It holds because no node below a root without
  a cycle is on one (`NoCycleBelow`), so that a child has strictly less below it than its parent, and strict
  inclusion of finite sets is well founded (`LowestNode`, from the library's theorems).
  `NoStuckRun`: the lowest waiting node waits for nodes that are done or queued, and the
  busy workers are all inner nodes, so one is free; some guard of `Execute` holds.
  `RunMovesOn`: each step takes one node further and none back, or keeps one more worker
  for a cycle and gives none up. With weak fairness of `Execute` that is why `TreeEnds` holds; this last step is the one TLC has to show.
- `TypesSafety`, `PartsSafety` and `TreeStepsSafety` are about `BackendSpec`, the
  specification TLC runs: a step of one part leaves the variables of the others alone
  (`PartsMove`), so the conjunction of the parts' invariants (`BackendInv`) is inductive.
  With them the argument of `Backend`, that one part at a time is enough, is a theorem
  for what the run checks.

`ConnPoolProofs`: `SharingSafety` and `TenantSafety` from `Lent`: every connection in
use has exactly one holder. `AdmissionSafety` also counts (`Counted`): the slots that are
left and the threads that have one make `PoolMax`, so a thread that was admitted is not
outnumbered by the connections in use. `PoolTypes` bounds the semaphore by the same count.

`PolicyBundlesProofs`: `PointerSafety` and `DecisionSafety`: a request that is about to
activate has a published target; a bundle that `publish_policy_bundle` made was never a
draft, so no other request has it as the target of a write; neither asks anything of the
version numbers. `PolicyTypes` does: `Numbering` says that the numbers in use have no
gaps, so that one more than the greatest is at most one more than the number of bundles,
also when several requests read the same greatest number.

`TurnsProofs`: `SoundAll` says what is true of a turn at each place (`Sound`: the round
is one ahead of the tools, and what is saved is about to end or has ended in neither an
error nor a broken stream) and that each process counts the turns that hold a slot. `BudgetSafety`,
`SavedSafety` and `SlotSafety` follow from it, and `TurnsTypes` with the
limits (`WithinLimits`). `TurnsAdvance`: numbering the places of a round, and the rounds by
the tools that have run, each step of a turn takes it to a greater number
(`Reach`), never above `9 * MaxTools + 9`. With the fairness of each turn that is why
`StreamEnds` holds, apart from the question which turn can take a step.

Only model-checked: `SurfaceIsCurrent`, for serial requests; liveness (`EveryJobEnds`,
`StreamEnds`, `CircuitRecovers`, `EventSettles`, `TreeEnds`) and whatever speaks of ENABLED, which are out of the prover's
reach; of the tree and the turns the part that is safety is proved (`NoStuckRun`,
`RunMovesOn`, `TurnsAdvance`). The runs that expect a violation stay what they are,
counterexamples of small instances.

## Not modelled

- Model fallback: `ModelFallbackChain` has no caller. The streaming path of the gateway
  passes neither the quota nor the breaker, and its retry in mid-stream
  (`app/clients.py:283`) sends the text again; its effect is on wording only.
- The per-minute rate limit (one counter under one lock), quota alerts, break-glass
  grants, and the evaluation of policy rules.
- Cancelling an agent tree: the cancel route makes a runner of its own and never reaches
  the one that runs.
- The WebSocket connector: advisory tables of one process, which no code of the
  repository reads (`get_connector_ws` and `is_session_local` have no caller).
- Audit exports: one thread and one row each.
- The pull-request path of an approval and the rule proposed from a denial.
- Comments, watchers, templates, webhooks, metrics, links and the event log of work items:
  no decision reads them.
- The context pipeline and compaction assemble text; sessions, tenants, authentication
  and vault are CRUD of single rows and token checks.
- The CLI's solo mode and TUI, the web, admin and desktop clients: views, or single-user
  programs.

These are most of the repository's lines, which is why the map covers a small share of
them: the models follow the shared state and the concurrency, not the text.
