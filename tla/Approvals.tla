------------------------------ MODULE Approvals ------------------------------
(***************************************************************************)
(* Human approvals: the per-tenant approvals store, the routes that        *)
(* approve, confirm and deny, the tool calls that create approvals, the    *)
(* dispatch of an approved action as a client job, the link of the job's   *)
(* result back to the approval, and the pending approval the session's     *)
(* surface shows.                                                          *)
(*                                                                         *)
(* One request is one activation of a handler.  Handlers run in the        *)
(* server's thread pool: a request takes its steps - each file operation,  *)
(* SQL statement or audit write - interleaved with those of the others.    *)
(***************************************************************************)
EXTENDS Naturals, JsonStore

CONSTANTS
  Approvals,
  Existing,       \* approvals pending in the store at the start
  Users, NoUser,  \* subjects of access tokens; NoUser: none, JWT not required
  Callers,        \* who sends requests, a subset of Users and NoUser
  Double,         \* requires_double_confirmation
  Requester,      \* requested_by_sub of each approval, or NoUser
  Separation,     \* CENTRAL_APPROVAL_SEPARATION
  CanExpire,      \* approvals with an expires_at
  Dispatchable,   \* approvals whose action runs as a client job
  HasSession,     \* approvals whose record holds a session_id
  UniqueToolCall, \* client_jobs has its UNIQUE (tenant_id, tool_call_id) index
  Overlapping,    \* TRUE: requests overlap; FALSE: one at a time
  MaxCrashes,     \* bound of the model: requests cut off half-way
  NoApproval      \* no pending approval on the surface

Requests == Writers
Subjects == Users \cup {NoUser}

ASSUME ApprovalsAssumption ==
  /\ Existing \subseteq Approvals /\ Double \subseteq Approvals
  /\ CanExpire \subseteq Approvals /\ Dispatchable \subseteq Approvals
  /\ HasSession \subseteq Approvals
  /\ NoUser \notin Users /\ Callers \subseteq Subjects
  /\ Requester \in [Approvals -> Subjects]
  /\ Separation \in BOOLEAN /\ UniqueToolCall \in BOOLEAN /\ Overlapping \in BOOLEAN
  /\ MaxCrashes \in Nat
  /\ NoApproval \notin Approvals

VARIABLES
  pc,       \* each request: the next step of its handler
  req,      \* each request: operation, approval, caller
  items,    \* each request: the list it loaded, and then saves
  expired,  \* approvals whose expires_at has passed
  jobs,     \* client jobs created for each approval
  events,   \* resolution events in the audit log, by approval
  tickets,  \* work items opened for the denial of each approval
  shown,    \* pending_approval of the session's surface
  crashes

server == <<jobs, events, tickets, shown>>
vars == <<files, pc, req, items, expired, server, crashes>>

Ops == {"none", "create", "approve", "confirm", "deny", "result"}
Statuses == {"absent", "pending", "awaiting_double_confirm", "approved", "denied"}
Outcomes == {"none", "succeeded", "failed"}
Record == [status: Statuses, first: Subjects, second: Subjects, execution: Outcomes]
Store == [Approvals -> Record]
Absent == [status |-> "absent", first |-> NoUser, second |-> NoUser, execution |-> "none"]
Pending == [Absent EXCEPT !.status = "pending"]
Open == {"pending", "awaiting_double_confirm"}

Request == [op: Ops, a: Approvals \cup {NoApproval}, user: Subjects, out: Outcomes]
NoRequest == [op |-> "none", a |-> NoApproval, user |-> NoUser, out |-> "none"]
Steps == {"idle", "check", "load", "open", "dump", "publish", "seek", "ticket", "audit",
          "find", "insert", "clear", "show", "done"}

NoItems == [a \in Approvals |-> Absent]

(* What cannot be parsed is no list of approvals. *)
ASSUME DocumentsAssumption == Empty \notin Store /\ Torn \notin Store

TypeOK ==
  /\ live \in Inodes
  /\ tmp \in Inodes \cup {NoFile}
  /\ data \in [Inodes -> Store \cup {Empty, Torn}]
  /\ fd \in [Writers -> Inodes \cup {NoFile}]
  /\ pc \in [Requests -> Steps]
  /\ req \in [Requests -> Request]
  /\ items \in [Requests -> Store]
  /\ expired \in SUBSET Approvals
  /\ jobs \in [Approvals -> Nat]
  /\ events \in [Approvals -> Nat]
  /\ tickets \in [Approvals -> Nat]
  /\ shown \in Approvals \cup {NoApproval}
  /\ crashes \in Nat

Init ==
  /\ StoreInit([a \in Approvals |-> IF a \in Existing THEN Pending ELSE Absent])
  /\ pc = [r \in Requests |-> "idle"]
  /\ req = [r \in Requests |-> NoRequest]
  /\ items = [r \in Requests |-> NoItems]
  /\ expired = {}
  /\ jobs = [a \in Approvals |-> 0]
  /\ events = [a \in Approvals |-> 0]
  /\ tickets = [a \in Approvals |-> 0]
  /\ shown = NoApproval
  /\ crashes = 0

-----------------------------------------------------------------------------
(* Requests arrive. *)

(* The approval's id was given out: it was there before, or create_pending returned it. *)
Known(a) ==
  \/ a \in Existing
  \/ \E p \in Requests : /\ req[p].op = "create" /\ req[p].a = a
                         /\ pc[p] \in {"show", "done"}

Admitted == Overlapping \/ \A p \in Requests : pc[p] \in {"idle", "done"}

Arrive(r, op, a, user, out, step) ==
  /\ pc[r] = "idle"
  /\ Admitted
  /\ pc' = [pc EXCEPT ![r] = step]
  /\ req' = [req EXCEPT ![r] = [op |-> op, a |-> a, user |-> user, out |-> out]]
  /\ UNCHANGED <<files, items, expired, jobs, events, tickets, shown, crashes>>

(* A tool call or POST /approvals/test asks for a new approval, with a fresh id. *)
ArriveCreate(r, a) ==
  /\ a \notin Existing
  /\ \A p \in Requests : ~(req[p].op = "create" /\ req[p].a = a)
  /\ Arrive(r, "create", a, NoUser, "none", "load")

ArriveDecision(r, op, a, user) ==
  /\ Known(a)
  /\ op \in {"approve", "confirm"}
  /\ Arrive(r, op, a, user, "none", "check")

ArriveDeny(r, a) ==
  /\ Known(a)
  /\ Arrive(r, "deny", a, NoUser, "none", "load")

(* submit_job_result recorded an outcome of a job created for the approval; a job *)
(* that was reopened records another one.                                        *)
ArriveResult(r, a, out) ==
  /\ jobs[a] > 0
  /\ out # "none"
  /\ Arrive(r, "result", a, NoUser, out, "load")

(* Time passes expires_at. *)
Expire(a) ==
  /\ a \in CanExpire \ expired
  /\ expired' = expired \cup {a}
  /\ UNCHANGED <<files, pc, req, items, server, crashes>>

-----------------------------------------------------------------------------
(* The handlers, one step at a time. *)

Goto(r, step) == pc' = [pc EXCEPT ![r] = step]
Target(r) == req[r].a

(* The approval in the list the request read. *)
Mine(r) == items[r][Target(r)]
Stored(r) == data[live][Target(r)]

(* The store cannot be parsed: the handler ends with an exception. *)
ReadFails(r) ==
  /\ pc[r] \in {"check", "load"}
  /\ ~Readable
  /\ Goto(r, "done")
  /\ UNCHANGED <<files, req, items, expired, server, crashes>>

(* get_approval and the separation of requester and approver; only the approve *)
(* route insists that the approval exists.                                     *)
SelfApproval(r) ==
  /\ Separation
  /\ Stored(r).status # "absent"
  /\ req[r].user # NoUser
  /\ req[r].user = Requester[Target(r)]

Check(r) ==
  /\ pc[r] = "check"
  /\ Readable
  /\ Goto(r, IF SelfApproval(r) \/ (req[r].op = "approve" /\ Stored(r).status = "absent")
             THEN "done" ELSE "load")
  /\ UNCHANGED <<files, req, items, expired, server, crashes>>

(* The list is loaded again, the record decided upon, and the whole list saved. *)
Loads(r, op) == pc[r] = "load" /\ Readable /\ req[r].op = op

Save(r, rec) ==
  /\ items' = [items EXCEPT ![r] = [data[live] EXCEPT ![Target(r)] = rec]]
  /\ Goto(r, "open")
  /\ UNCHANGED <<files, req, expired, server, crashes>>

Create(r) ==
  /\ Loads(r, "create")
  /\ Save(r, Pending)

(* _expire_if_needed: whoever touches an expired approval denies it. *)
Overdue(r) == Target(r) \in expired /\ Stored(r).status \in Open
DenyOverdue(r) ==
  /\ Loads(r, "approve") \/ Loads(r, "deny")
  /\ Overdue(r)
  /\ Save(r, [Stored(r) EXCEPT !.status = "denied"])

(* Mutant: a resolved approval is approved again. *)
ApproveAgain(r) ==
  /\ Loads(r, "approve")
  /\ ~Overdue(r)
  /\ Target(r) \notin Double
  /\ Save(r, [Stored(r) EXCEPT !.status = "approved"])

ApproveSingle(r) ==
  /\ Loads(r, "approve")
  /\ ~Overdue(r)
  /\ Stored(r).status = "pending" /\ Target(r) \notin Double
  /\ Save(r, [Stored(r) EXCEPT !.status = "approved"])

FirstStep(r) ==
  /\ Loads(r, "approve")
  /\ ~Overdue(r)
  /\ Stored(r).status = "pending" /\ Target(r) \in Double
  /\ Save(r, [Stored(r) EXCEPT !.status = "awaiting_double_confirm", !.first = req[r].user])

(* Mutants: the first approver may confirm; an unknown final status. *)
NoSameApprover(r) == FALSE

SecondStepAsConfirmed(r) ==
  /\ Loads(r, "confirm")
  /\ Stored(r).status = "awaiting_double_confirm"
  /\ Save(r, [Stored(r) EXCEPT !.status = "confirmed", !.second = req[r].user])

(* confirm_double refuses the first approver again; it looks at no expiry. *)
SameApprover(r) == req[r].user # NoUser /\ req[r].user = Stored(r).first
SecondStep(r) ==
  /\ Loads(r, "confirm")
  /\ Stored(r).status = "awaiting_double_confirm"
  /\ ~SameApprover(r)
  /\ Save(r, [Stored(r) EXCEPT !.status = "approved", !.second = req[r].user])

(* Mutant: an approved approval can be denied. *)
DenyAnything(r) ==
  /\ Loads(r, "deny")
  /\ ~Overdue(r)
  /\ Save(r, [Stored(r) EXCEPT !.status = "denied"])

Deny(r) ==
  /\ Loads(r, "deny")
  /\ ~Overdue(r)
  /\ Stored(r).status \in Open
  /\ Save(r, [Stored(r) EXCEPT !.status = "denied"])

(* set_execution_status *)
LinkResult(r) ==
  /\ Loads(r, "result")
  /\ Stored(r).status = "approved"
  /\ Save(r, [Stored(r) EXCEPT !.execution = req[r].out])

(* 404, 409 or an idempotent replay: the store is not written. *)
Answer(r) ==
  /\ \/ Loads(r, "approve") /\ Stored(r).status \notin Open
     \/ Loads(r, "approve") /\ Stored(r).status = "awaiting_double_confirm" /\ ~Overdue(r)
     \/ Loads(r, "confirm") /\ Stored(r).status # "awaiting_double_confirm"
     \/ Loads(r, "confirm") /\ SameApprover(r)
     \/ Loads(r, "deny") /\ Stored(r).status \notin Open
     \/ Loads(r, "result") /\ Stored(r).status # "approved"
  /\ Goto(r, "done")
  /\ UNCHANGED <<files, req, items, expired, server, crashes>>

(* _save_all *)
OpenStore(r) ==
  /\ pc[r] = "open"
  /\ OpenTmp(r)
  /\ Goto(r, "dump")
  /\ UNCHANGED <<req, items, expired, server, crashes>>

DumpStore(r) ==
  /\ pc[r] = "dump"
  /\ DumpTmp(r, items[r])
  /\ Goto(r, "publish")
  /\ UNCHANGED <<req, items, expired, server, crashes>>

AfterSave(r) ==
  CASE req[r].op = "create" -> "show"
    [] req[r].op = "deny" -> "seek"
    [] req[r].op = "result" -> "done"
    [] OTHER -> "audit"

PublishStore(r) ==
  /\ pc[r] = "publish"
  /\ \/ Publish /\ Goto(r, AfterSave(r))
     \/ PublishFails /\ Goto(r, "done") /\ UNCHANGED files
  /\ UNCHANGED <<req, items, expired, server, crashes>>

(* maybe_create_work_item_from_denial: look for the approval's work item, else     *)
(* create one; without a database or a known reporter, or when that raises, neither. *)
SeekTicket(r) ==
  /\ pc[r] = "seek"
  /\ \/ Goto(r, "audit")
     \/ tickets[Target(r)] = 0 /\ Goto(r, "ticket")
  /\ UNCHANGED <<files, req, items, expired, server, crashes>>

OpenTicket(r) ==
  /\ pc[r] = "ticket"
  /\ tickets' = [tickets EXCEPT ![Target(r)] = @ + 1]
  /\ Goto(r, "audit")
  /\ UNCHANGED <<files, req, items, expired, jobs, events, shown, crashes>>

(* The approve and deny routes end by clearing the surface, confirm-double does not. *)
Finish(r) == IF req[r].op = "confirm" THEN "done" ELSE "clear"

(* Mutant: the first of two approvals already dispatches the job. *)
AuditAndDispatch(r) ==
  /\ pc[r] = "audit"
  /\ events' = IF Mine(r).status = "awaiting_double_confirm" THEN events
               ELSE [events EXCEPT ![Target(r)] = @ + 1]
  /\ Goto(r, IF Target(r) \in Dispatchable THEN "find" ELSE Finish(r))
  /\ UNCHANGED <<files, req, items, expired, jobs, tickets, shown, crashes>>

(* write_orchestrator_audit; the first of two approvals is no resolution. *)
Audit(r) ==
  /\ pc[r] = "audit"
  /\ events' = IF Mine(r).status = "awaiting_double_confirm" THEN events
               ELSE [events EXCEPT ![Target(r)] = @ + 1]
  /\ Goto(r, IF Mine(r).status = "approved" /\ Target(r) \in Dispatchable
             THEN "find" ELSE Finish(r))
  /\ UNCHANGED <<files, req, items, expired, jobs, tickets, shown, crashes>>

(* _dispatch_approved_job: find_job_by_approval_id, then create_job. *)
FindJob(r) ==
  /\ pc[r] = "find"
  /\ Goto(r, IF jobs[Target(r)] > 0 THEN Finish(r) ELSE "insert")
  /\ UNCHANGED <<files, req, items, expired, server, crashes>>

(* Mutant: the tool_call_id of the job is not unique. *)
InsertAnother(r) ==
  /\ pc[r] = "insert"
  /\ Goto(r, Finish(r))
  /\ jobs' = [jobs EXCEPT ![Target(r)] = @ + 1]
  /\ UNCHANGED <<files, req, items, expired, events, tickets, shown, crashes>>

(* The unique index makes a second INSERT raise, and the request fail. *)
InsertJob(r) ==
  /\ pc[r] = "insert"
  /\ IF UniqueToolCall /\ jobs[Target(r)] > 0
     THEN Goto(r, "done") /\ UNCHANGED jobs
     ELSE Goto(r, Finish(r)) /\ jobs' = [jobs EXCEPT ![Target(r)] = @ + 1]
  /\ UNCHANGED <<files, req, items, expired, events, tickets, shown, crashes>>

(* Mutant: an approval resolved outside its session stays on the surface. *)
ClearSessionOnly(r) ==
  /\ pc[r] = "clear"
  /\ shown' = IF Target(r) \in HasSession THEN NoApproval ELSE shown
  /\ Goto(r, "done")
  /\ UNCHANGED <<files, req, items, expired, jobs, events, tickets, crashes>>

(* clear_pending_approval of the record's session, whatever it shows, and      *)
(* clear_pending_approval_by_approval_id.                                      *)
ClearSurface(r) ==
  /\ pc[r] = "clear"
  /\ shown' = IF Target(r) \in HasSession \/ shown = Target(r) THEN NoApproval ELSE shown
  /\ Goto(r, "done")
  /\ UNCHANGED <<files, req, items, expired, jobs, events, tickets, crashes>>

(* The tool loop announces the approval and registers it on the surface when the *)
(* chat has a session; POST /approvals/test does not.                            *)
Show(r) ==
  /\ pc[r] = "show"
  /\ shown' \in {shown, Target(r)}
  /\ Goto(r, "done")
  /\ UNCHANGED <<files, req, items, expired, jobs, events, tickets, crashes>>

(* The process dies, or an exception leaves the handler: its file is closed. *)
Crash(r) ==
  /\ pc[r] \notin {"idle", "done"}
  /\ crashes < MaxCrashes
  /\ crashes' = crashes + 1
  /\ fd' = [fd EXCEPT ![r] = NoFile]
  /\ Goto(r, "done")
  /\ UNCHANGED <<live, tmp, data, req, items, expired, server>>

Step(r) ==
  \/ ReadFails(r) \/ Check(r)
  \/ Create(r) \/ DenyOverdue(r) \/ ApproveSingle(r) \/ FirstStep(r) \/ SecondStep(r)
  \/ Deny(r) \/ LinkResult(r) \/ Answer(r)
  \/ OpenStore(r) \/ DumpStore(r) \/ PublishStore(r)
  \/ SeekTicket(r) \/ OpenTicket(r) \/ Audit(r)
  \/ FindJob(r) \/ InsertJob(r) \/ ClearSurface(r) \/ Show(r)

Next ==
  \/ \E r \in Requests, a \in Approvals :
       \/ ArriveCreate(r, a)
       \/ \E op \in Ops, user \in Callers : ArriveDecision(r, op, a, user)
       \/ ArriveDeny(r, a)
       \/ \E out \in Outcomes : ArriveResult(r, a, out)
  \/ \E a \in Approvals : Expire(a)
  \/ \E r \in Requests : Step(r) \/ Crash(r)

Spec == Init /\ [][Next]_vars

-----------------------------------------------------------------------------
(* Whatever requests overlap, fail or crash. *)

(* The requests that subjects sent. *)
Deeds == {<<req[r].op, req[r].a, req[r].user>> : r \in Requests}
Did(op, a, user) == <<op, a, user>> \in Deeds
MayApprove(a, user) == ~(Separation /\ user # NoUser /\ user = Requester[a])

(* An approved record was approved by those it names: two different subjects   *)
(* when it needs two, and never by a first approver who asked for it.          *)
Vouched(a, rec) ==
  rec.status = "approved" =>
    IF a \in Double
    THEN /\ Did("approve", a, rec.first) /\ MayApprove(a, rec.first)
         /\ Did("confirm", a, rec.second)
         /\ rec.first = rec.second => rec.first = NoUser
    ELSE \E u \in Subjects : Did("approve", a, u) /\ MayApprove(a, u)

(* Four eyes: no list that is stored, being written or held by a handler ever  *)
(* says approved without the two steps, taken by two people, behind it         *)
(* (approvals_confirm_double), although every handler rewrites the whole list  *)
(* from a copy that may be out of date.                                        *)
FourEyes ==
  /\ \A i \in Inodes : IsDocument(data[i]) => \A a \in Approvals : Vouched(a, data[i][a])
  /\ \A r \in Requests, a \in Approvals : Vouched(a, items[r][a])

(* A job of an approval was created by a handler that had itself saved the     *)
(* approval as approved, with those approvers behind it; and only such an      *)
(* approval is told how its execution ended.                                   *)
JobsAreApproved ==
  \A a \in Approvals :
    /\ jobs[a] > 0 => \E r \in Requests : /\ req[r].op \in {"approve", "confirm"}
                                          /\ Target(r) = a
                                          /\ Mine(r).status = "approved"
                                          /\ Vouched(a, Mine(r))
    /\ Readable /\ data[live][a].execution # "none" => jobs[a] > 0

(* An approved action is executed through one job at most, however often it is *)
(* approved: the look-up in _dispatch_approved_job and, when two look-ups      *)
(* overlap, the unique index.                                                  *)
OneJobPerApproval == \A a \in Approvals : jobs[a] <= 1

-----------------------------------------------------------------------------
(* When requests do not overlap, even if some are cut off half-way. *)

(* The store can always be parsed. *)
StoreReadable == Readable

(* A decision is final, and no approval disappears from the store.             *)
DecisionIsFinal ==
  [][\A a \in Approvals :
       LET before == data[live][a].status  after == data'[live'][a].status
       IN  /\ before \in {"approved", "denied"} => after = before
           /\ before # "absent" => after # "absent"
           /\ before = "awaiting_double_confirm" => after # "pending"]_vars

(* "approve/deny idempotent (double-click safe)", tests/test_approval_idempotency.py: *)
(* the audit log holds one resolution of an approval.                          *)
OneResolution == \A a \in Approvals : events[a] <= 1

(* The surface shows no approval that was already resolved, unless a handler   *)
(* was cut off before it cleared the surface.                                  *)
SurfaceIsCurrent ==
  crashes = 0 /\ (\A r \in Requests : pc[r] \in {"idle", "done"}) =>
    shown = NoApproval \/ data[live][shown].status = "pending"

(* set_denied, "Negar a partir de pending ou awaiting_double_confirm": an      *)
(* approval that was stored as approved is not denied afterwards.              *)
ApprovedIsNotDenied ==
  [][\A a \in Approvals :
       Readable /\ Readable' /\ data[live][a].status = "approved"
         => data'[live'][a].status # "denied"]_vars
=============================================================================
