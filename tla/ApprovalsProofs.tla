--------------------------- MODULE ApprovalsProofs ---------------------------
(* Proofs of the invariants of Approvals, for any number of approvals and of *)
(* overlapping, failing and crashing requests.                               *)
EXTENDS Approvals, TLAPS

USE InodesAssumption, ApprovalsAssumption
USE DEF Inodes, Requests, Subjects, Ops, Statuses, Outcomes, Record, Request, Steps, Target,
        IsDocument, Readable, Goto

(* What a handler has established when it reaches a step. *)
Established(r) ==
  /\ pc[r] = "idle" => req[r] = NoRequest
  /\ pc[r] # "idle" => req[r].a \in Approvals /\ req[r].op # "none"
  /\ pc[r] \in {"idle", "check", "load"} => items[r] = NoItems
  /\ pc[r] = "load" /\ req[r].op = "approve" => MayApprove(req[r].a, req[r].user)
  /\ pc[r] \notin {"idle", "check", "load", "done"} /\ req[r].op = "deny"
       => items[r][req[r].a].status = "denied"
  /\ pc[r] \in {"seek", "ticket"} => req[r].op = "deny"
  /\ pc[r] = "audit" => req[r].op \in {"approve", "confirm", "deny"}
  /\ pc[r] \in {"find", "insert"} => /\ req[r].op \in {"approve", "confirm"}
                                     /\ items[r][req[r].a].status = "approved"
Handlers == \A r \in Requests : Established(r)

(* The constant records and lists are well formed. *)
LEMMA Constants == NoRequest \in Request /\ NoItems \in Store /\ Pending \in Record
                   /\ Absent \in Record
BY DEF NoRequest, NoItems, Pending, Absent, Store

(* The approval a request works on, as the store has it. *)
LEMMA StoredIsRecord ==
  ASSUME TypeOK, NEW r \in Requests, Established(r), Readable, pc[r] # "idle"
  PROVE  data[live] \in Store /\ req[r].a \in Approvals /\ Stored(r) \in Record
BY DEF TypeOK, Established, Stored, Store

(* A handler that decides saves a list of well-formed records. *)
LEMMA SaveTypes ==
  ASSUME TypeOK, NEW r \in Requests, data[live] \in Store, NEW rec \in Record, Save(r, rec)
  PROVE  TypeOK'
<1>1. [data[live] EXCEPT ![Target(r)] = rec] \in Store
  BY DEF Store
<1>2. items' \in [Requests -> Store]
  BY <1>1 DEF Save, TypeOK
<1>3. pc' \in [Requests -> Steps]
  BY DEF Save, TypeOK
<1> QED BY <1>2, <1>3 DEF Save, TypeOK, files, server

(* Every step of a handler keeps the types. *)
LEMMA StepTypes ==
  ASSUME TypeOK, Handlers, NEW r \in Requests, Step(r) PROVE TypeOK'
<1>1. Established(r)
  BY DEF Handlers
<1>2. CASE ReadFails(r) \/ Check(r) \/ Answer(r)
  BY <1>2 DEF ReadFails, Check, Answer, TypeOK, files, server
<1>3. CASE SeekTicket(r) \/ FindJob(r)
  BY <1>3 DEF SeekTicket, FindJob, Finish, TypeOK, files, server
<1>4. ASSUME pc[r] = "load", Readable PROVE data[live] \in Store /\ Stored(r) \in Record
             /\ req[r].user \in Subjects /\ req[r].out \in Outcomes
  BY <1>1, <1>4, StoredIsRecord DEF TypeOK
<1>5. CASE Create(r)
  BY <1>4, <1>5, SaveTypes, Constants DEF Create, Loads
<1>6. CASE DenyOverdue(r)
  <2>1. [Stored(r) EXCEPT !.status = "denied"] \in Record
    BY <1>4, <1>6 DEF DenyOverdue, Loads
  <2> QED BY <1>4, <1>6, <2>1, SaveTypes DEF DenyOverdue, Loads
<1>7. CASE ApproveSingle(r)
  <2>1. [Stored(r) EXCEPT !.status = "approved"] \in Record
    BY <1>4, <1>7 DEF ApproveSingle, Loads
  <2> QED BY <1>4, <1>7, <2>1, SaveTypes DEF ApproveSingle, Loads
<1>8. CASE FirstStep(r)
  <2>1. [Stored(r) EXCEPT !.status = "awaiting_double_confirm", !.first = req[r].user] \in Record
    BY <1>4, <1>8 DEF FirstStep, Loads
  <2> QED BY <1>4, <1>8, <2>1, SaveTypes DEF FirstStep, Loads
<1>9. CASE SecondStep(r)
  <2>1. [Stored(r) EXCEPT !.status = "approved", !.second = req[r].user] \in Record
    BY <1>4, <1>9 DEF SecondStep, Loads
  <2> QED BY <1>4, <1>9, <2>1, SaveTypes DEF SecondStep, Loads
<1>10. CASE Deny(r)
  <2>1. [Stored(r) EXCEPT !.status = "denied"] \in Record
    BY <1>4, <1>10 DEF Deny, Loads
  <2> QED BY <1>4, <1>10, <2>1, SaveTypes DEF Deny, Loads
<1>11. CASE LinkResult(r)
  <2>1. [Stored(r) EXCEPT !.execution = req[r].out] \in Record
    BY <1>4, <1>11 DEF LinkResult, Loads
  <2> QED BY <1>4, <1>11, <2>1, SaveTypes DEF LinkResult, Loads
<1>12. CASE OpenStore(r)
  BY <1>12 DEF OpenStore, OpenTmp, TypeOK, server
<1>13. CASE DumpStore(r)
  <2>1. items[r] \in Store
    BY DEF TypeOK
  <2>2. data' \in [Inodes -> Store \cup {Empty, Torn}]
    BY <1>13, <2>1 DEF DumpStore, DumpTmp, Overlay, TypeOK
  <2> QED BY <1>13, <2>2 DEF DumpStore, DumpTmp, TypeOK, server
<1>14. CASE PublishStore(r)
  BY <1>14 DEF PublishStore, Publish, PublishFails, AfterSave, TypeOK, server, files
<1>15. CASE OpenTicket(r) \/ Audit(r)
  BY <1>15 DEF OpenTicket, Audit, Finish, TypeOK, files
<1>16. CASE InsertJob(r)
  <2>1. pc' \in [Requests -> Steps]
    BY <1>16 DEF InsertJob, Finish, TypeOK
  <2>2. jobs' \in [Approvals -> Nat]
    BY <1>16 DEF InsertJob, TypeOK
  <2> QED BY <1>16, <2>1, <2>2 DEF InsertJob, TypeOK, files
<1>17. CASE ClearSurface(r) \/ Show(r)
  BY <1>1, <1>17 DEF ClearSurface, Show, Established, TypeOK, files
<1> QED
  BY <1>2, <1>3, <1>5, <1>6, <1>7, <1>8, <1>9, <1>10, <1>11, <1>12, <1>13, <1>14, <1>15, <1>16,
     <1>17 DEF Step

(* Every other action keeps the types. *)
LEMMA NextTypes == TypeOK /\ Handlers /\ [Next]_vars => TypeOK'
<1> SUFFICES ASSUME TypeOK, Handlers, [Next]_vars PROVE TypeOK'
  OBVIOUS
<1>1. ASSUME NEW r \in Requests, Step(r) PROVE TypeOK'
  BY <1>1, StepTypes
<1>2. ASSUME NEW r \in Requests, Crash(r) PROVE TypeOK'
  BY <1>2 DEF Crash, TypeOK, server
<1>3. ASSUME NEW a \in Approvals, Expire(a) PROVE TypeOK'
  BY <1>3 DEF Expire, TypeOK, files, server
<1>4. ASSUME NEW r \in Requests, NEW op \in Ops, NEW a \in Approvals, NEW u \in Subjects,
             NEW out \in Outcomes, NEW step \in Steps, Arrive(r, op, a, u, out, step)
      PROVE  TypeOK'
  <2>1. [op |-> op, a |-> a, user |-> u, out |-> out] \in Request
    OBVIOUS
  <2>2. req' \in [Requests -> Request] /\ pc' \in [Requests -> Steps]
    BY <1>4, <2>1 DEF Arrive, TypeOK
  <2> QED BY <1>4, <2>2 DEF Arrive, TypeOK, files
<1>5. ASSUME NEW r \in Requests, NEW a \in Approvals, ArriveCreate(r, a) PROVE TypeOK'
  BY <1>4, <1>5 DEF ArriveCreate, TypeOK
<1>6. ASSUME NEW r \in Requests, NEW a \in Approvals, NEW op \in Ops, NEW u \in Callers,
             ArriveDecision(r, op, a, u)
      PROVE  TypeOK'
  BY <1>4, <1>6 DEF ArriveDecision, TypeOK
<1>7. ASSUME NEW r \in Requests, NEW a \in Approvals, ArriveDeny(r, a) PROVE TypeOK'
  BY <1>4, <1>7 DEF ArriveDeny, TypeOK
<1>8. ASSUME NEW r \in Requests, NEW a \in Approvals, NEW out \in Outcomes,
             ArriveResult(r, a, out)
      PROVE  TypeOK'
  BY <1>4, <1>8 DEF ArriveResult
<1>9. CASE UNCHANGED vars
  BY <1>9 DEF vars, TypeOK, files, server
<1> QED BY <1>1, <1>2, <1>3, <1>5, <1>6, <1>7, <1>8, <1>9 DEF Next

-----------------------------------------------------------------------------

(* A step of a request leaves the others, and what was asked, alone. *)
LEMMA StepFrame ==
  ASSUME TypeOK, NEW r \in Requests, Step(r)
  PROVE  /\ UNCHANGED req
         /\ \A q \in Requests : q # r => pc'[q] = pc[q] /\ items'[q] = items[q]
<1>1. CASE ReadFails(r) \/ Check(r) \/ Answer(r)
  BY <1>1 DEF ReadFails, Check, Answer, TypeOK
<1>2. CASE \/ Create(r) \/ DenyOverdue(r) \/ ApproveSingle(r) \/ FirstStep(r) \/ SecondStep(r)
           \/ Deny(r) \/ LinkResult(r)
  <2>1. \E rec : Save(r, rec)
    BY <1>2 DEF Create, DenyOverdue, ApproveSingle, FirstStep, SecondStep, Deny, LinkResult
  <2> QED BY <2>1 DEF Save, TypeOK
<1>3. CASE OpenStore(r) \/ DumpStore(r) \/ PublishStore(r)
  BY <1>3 DEF OpenStore, DumpStore, PublishStore, TypeOK
<1>4. CASE SeekTicket(r) \/ OpenTicket(r) \/ Audit(r) \/ FindJob(r)
  BY <1>4 DEF SeekTicket, OpenTicket, Audit, FindJob, TypeOK
<1>5. CASE InsertJob(r) \/ ClearSurface(r) \/ Show(r)
  BY <1>5 DEF InsertJob, ClearSurface, Show, TypeOK
<1> QED BY <1>1, <1>2, <1>3, <1>4, <1>5 DEF Step

(* After a save the request holds the record it decided upon. *)
LEMMA SaveMine ==
  ASSUME TypeOK, NEW r \in Requests, Established(r), data[live] \in Store,
         req[r].a \in Approvals, NEW rec, Save(r, rec)
  PROVE  /\ pc'[r] = "open" /\ UNCHANGED req
         /\ items'[r][req[r].a] = rec
         /\ \A a \in Approvals \ {req[r].a} : items'[r][a] = data[live][a]
         /\ \A q \in Requests \ {r} : items'[q] = items[q]
BY DEF Save, TypeOK, Store

(* Each step of a handler establishes what the next one needs. *)
LEMMA StepEstablishes ==
  ASSUME TypeOK, Handlers, NEW r \in Requests, Step(r) PROVE Established(r)'
<1>1. Established(r)
  BY DEF Handlers
<1> USE <1>1 DEF Established
<1>2. CASE ReadFails(r) \/ Answer(r)
  BY <1>2 DEF ReadFails, Answer, Loads, TypeOK
<1>3. CASE Check(r)
  BY <1>3 DEF Check, SelfApproval, MayApprove, TypeOK
<1>4. ASSUME pc[r] = "load", Readable PROVE data[live] \in Store /\ req[r].a \in Approvals
                                            /\ Stored(r) \in Record
  BY <1>4, StoredIsRecord
<1>5. CASE \/ Create(r) \/ ApproveSingle(r) \/ FirstStep(r) \/ SecondStep(r) \/ LinkResult(r)
  <2>1. PICK rec : Save(r, rec)
    BY <1>5 DEF Create, ApproveSingle, FirstStep, SecondStep, LinkResult
  <2>2. pc[r] = "load" /\ Readable /\ req[r].op # "deny"
    BY <1>5 DEF Create, ApproveSingle, FirstStep, SecondStep, LinkResult, Loads
  <2>3. pc'[r] = "open" /\ UNCHANGED req
    BY <2>1 DEF Save, TypeOK
  <2> QED BY <2>2, <2>3
<1>6. CASE DenyOverdue(r) \/ Deny(r)
  <2>1. Save(r, [Stored(r) EXCEPT !.status = "denied"]) /\ pc[r] = "load" /\ Readable
    BY <1>6 DEF DenyOverdue, Deny, Loads
  <2>2. [Stored(r) EXCEPT !.status = "denied"].status = "denied"
    BY <2>1, <1>4
  <2>3. pc'[r] = "open" /\ UNCHANGED req /\ items'[r][req[r].a].status = "denied"
    BY <2>1, <2>2, <1>4, SaveMine
  <2> QED BY <2>1, <2>3
<1>7. CASE OpenStore(r) \/ DumpStore(r)
  BY <1>7 DEF OpenStore, DumpStore, TypeOK
<1>8. CASE PublishStore(r)
  BY <1>8 DEF PublishStore, AfterSave, TypeOK
<1>9. CASE SeekTicket(r) \/ OpenTicket(r)
  BY <1>9 DEF SeekTicket, OpenTicket, TypeOK
<1>10. CASE Audit(r)
  <2>1. /\ UNCHANGED <<req, items>> /\ pc[r] = "audit"
        /\ pc'[r] \in {"find", Finish(r)}
        /\ pc'[r] = "find" => items[r][req[r].a].status = "approved"
    BY <1>10 DEF Audit, Mine, Finish, TypeOK
  <2>2. /\ req[r].op \in {"approve", "confirm", "deny"} /\ req[r].a \in Approvals
        /\ req[r].op = "deny" => items[r][req[r].a].status = "denied"
    BY <2>1
  <2>3. CASE pc'[r] = "find"
    BY <2>1, <2>2, <2>3
  <2>4. CASE pc'[r] \in {"clear", "done"}
    BY <2>1, <2>2, <2>4
  <2> QED BY <2>1, <2>3, <2>4 DEF Finish
<1>11. CASE FindJob(r) \/ InsertJob(r)
  BY <1>11 DEF FindJob, InsertJob, Finish, TypeOK
<1>12. CASE ClearSurface(r) \/ Show(r)
  BY <1>12 DEF ClearSurface, Show, TypeOK
<1> QED
  BY <1>2, <1>3, <1>5, <1>6, <1>7, <1>8, <1>9, <1>10, <1>11, <1>12 DEF Step

(* Every step of the system keeps what the handlers established. *)
LEMMA NextEstablishes == TypeOK /\ Handlers /\ [Next]_vars => Handlers'
<1> SUFFICES ASSUME TypeOK, Handlers, [Next]_vars PROVE Handlers'
  OBVIOUS
<1>1. ASSUME NEW r \in Requests, Step(r) PROVE Handlers'
  <2>1. Established(r)'
    BY <1>1, StepEstablishes
  <2>2. ASSUME NEW q \in Requests, q # r PROVE Established(q)'
    BY <1>1, <2>2, StepFrame DEF Handlers, Established
  <2> QED BY <2>1, <2>2 DEF Handlers
<1>2. ASSUME NEW r \in Requests, Crash(r) PROVE Handlers'
  BY <1>2 DEF Crash, TypeOK, Handlers, Established
<1>3. ASSUME NEW a \in Approvals, Expire(a) PROVE Handlers'
  BY <1>3 DEF Expire, Handlers, Established
<1>4. ASSUME NEW r \in Requests, NEW op \in Ops \ {"none"}, NEW a \in Approvals, NEW u, NEW out,
             NEW step \in {"check", "load"}, step = "load" => op # "approve",
             Arrive(r, op, a, u, out, step)
      PROVE  Handlers'
  BY <1>4 DEF Arrive, TypeOK, Handlers, Established
<1>5. ASSUME NEW r \in Requests, NEW a \in Approvals,
             \/ ArriveCreate(r, a) \/ ArriveDeny(r, a)
             \/ \E op \in Ops, u \in Callers : ArriveDecision(r, op, a, u)
             \/ \E out \in Outcomes : ArriveResult(r, a, out)
      PROVE  Handlers'
  BY <1>4, <1>5 DEF ArriveCreate, ArriveDeny, ArriveDecision, ArriveResult
<1>6. CASE UNCHANGED vars
  BY <1>6 DEF vars, Handlers, Established
<1> QED BY <1>1, <1>2, <1>3, <1>5, <1>6 DEF Next

-----------------------------------------------------------------------------

(* What stands behind a record: the approvals it claims, the first of two steps *)
(* it waits on, the job whose result it holds.                                  *)
Backed(a, rec) ==
  /\ Vouched(a, rec)
  /\ rec.status = "awaiting_double_confirm" =>
       a \in Double /\ Did("approve", a, rec.first) /\ MayApprove(a, rec.first)
  /\ rec.execution # "none" => jobs[a] > 0

AllBacked ==
  /\ \A i \in Inodes : IsDocument(data[i]) => \A a \in Approvals : Backed(a, data[i][a])
  /\ \A r \in Requests, a \in Approvals : Backed(a, items[r][a])

(* The handler behind a job. *)
Dispatched ==
  \A a \in Approvals : jobs[a] > 0 =>
    \E r \in Requests : /\ req[r].op \in {"approve", "confirm"} /\ req[r].a = a
                        /\ pc[r] \notin {"idle", "check", "load"}
                        /\ items[r][a].status = "approved"

(* What was asked is not forgotten, and jobs stay. *)
LEMMA NextRemembers == TypeOK /\ Handlers /\ [Next]_vars =>
  /\ \A r \in Requests : pc[r] # "idle" => req'[r] = req[r] /\ pc'[r] # "idle"
  /\ \A a \in Approvals : jobs[a] > 0 => jobs'[a] > 0
<1> SUFFICES ASSUME TypeOK, Handlers, [Next]_vars
             PROVE  /\ \A r \in Requests : pc[r] # "idle" => req'[r] = req[r] /\ pc'[r] # "idle"
                    /\ \A a \in Approvals : jobs[a] > 0 => jobs'[a] > 0
  OBVIOUS
<1> DEFINE Kept == /\ \A r \in Requests : pc[r] # "idle" => req'[r] = req[r] /\ pc'[r] # "idle"
                   /\ \A a \in Approvals : jobs[a] > 0 => jobs'[a] > 0
<1>1. ASSUME NEW r \in Requests, Step(r) PROVE Kept
  <2>1. UNCHANGED req /\ \A q \in Requests : q # r => pc'[q] = pc[q]
    BY <1>1, StepFrame
  <2>2. pc'[r] # "idle" /\ \A a \in Approvals : jobs[a] > 0 => jobs'[a] > 0
    <3>1. CASE ReadFails(r) \/ Check(r) \/ Answer(r) \/ SeekTicket(r) \/ FindJob(r)
      BY <3>1 DEF ReadFails, Check, Answer, SeekTicket, FindJob, Finish, TypeOK, server
    <3>2. CASE \/ Create(r) \/ DenyOverdue(r) \/ ApproveSingle(r) \/ FirstStep(r)
               \/ SecondStep(r) \/ Deny(r) \/ LinkResult(r)
      <4>1. PICK rec : Save(r, rec)
        BY <3>2 DEF Create, DenyOverdue, ApproveSingle, FirstStep, SecondStep, Deny, LinkResult
      <4> QED BY <4>1 DEF Save, TypeOK, server
    <3>3. CASE OpenStore(r) \/ DumpStore(r)
      BY <3>3 DEF OpenStore, DumpStore, TypeOK, server
    <3>4. CASE PublishStore(r)
      BY <3>4 DEF PublishStore, AfterSave, TypeOK, server
    <3>5. CASE OpenTicket(r) \/ Audit(r) \/ ClearSurface(r) \/ Show(r)
      BY <3>5 DEF OpenTicket, Audit, ClearSurface, Show, Finish, TypeOK
    <3>6. CASE InsertJob(r)
      <4>1. pc'[r] # "idle"
        BY <3>6 DEF InsertJob, Finish, TypeOK
      <4>2. \A a \in Approvals : jobs[a] > 0 => jobs'[a] > 0
        BY <3>6 DEF InsertJob, TypeOK
      <4> QED BY <4>1, <4>2
    <3> QED BY <1>1, <3>1, <3>2, <3>3, <3>4, <3>5, <3>6 DEF Step
  <2> QED BY <2>1, <2>2
<1>2. ASSUME NEW r \in Requests, Crash(r) PROVE Kept
  BY <1>2 DEF Crash, TypeOK, server
<1>3. ASSUME NEW a \in Approvals, Expire(a) PROVE Kept
  BY <1>3 DEF Expire, server
<1>4. ASSUME NEW r \in Requests, NEW a \in Approvals,
             \/ ArriveCreate(r, a) \/ ArriveDeny(r, a)
             \/ \E op \in Ops, u \in Callers : ArriveDecision(r, op, a, u)
             \/ \E out \in Outcomes : ArriveResult(r, a, out)
      PROVE  Kept
  <2>1. PICK op, u, out, step : Arrive(r, op, a, u, out, step)
    BY <1>4 DEF ArriveCreate, ArriveDeny, ArriveDecision, ArriveResult
  <2> QED BY <2>1 DEF Arrive, TypeOK
<1>5. CASE UNCHANGED vars
  BY <1>5 DEF vars, server
<1> QED BY <1>1, <1>2, <1>3, <1>4, <1>5 DEF Next

(* Requests that were sent are not forgotten. *)
LEMMA DeedsStay ==
  ASSUME TypeOK, Handlers, [Next]_vars, NEW op \in {"approve", "confirm"}, NEW a, NEW u,
         <<op, a, u>> \in Deeds
  PROVE  <<op, a, u>> \in Deeds'
<1>1. PICK r \in Requests : <<op, a, u>> = <<req[r].op, req[r].a, req[r].user>>
  BY DEF Deeds
<1>2. pc[r] # "idle"
  BY <1>1 DEF Handlers, Established, NoRequest
<1>3. req'[r] = req[r]
  BY <1>2, NextRemembers
<1> QED BY <1>1, <1>3 DEF Deeds

(* A record that is backed stays so. *)
LEMMA BackedStays ==
  ASSUME TypeOK, Handlers, [Next]_vars, NEW a \in Approvals, NEW rec, Backed(a, rec)
  PROVE  Backed(a, rec)'
<1>1. /\ \A x, u : <<"approve", x, u>> \in Deeds => <<"approve", x, u>> \in Deeds'
      /\ \A x, u : <<"confirm", x, u>> \in Deeds => <<"confirm", x, u>> \in Deeds'
  BY DeedsStay
<1>2. jobs[a] > 0 => jobs'[a] > 0
  BY NextRemembers
<1> QED BY <1>1, <1>2 DEF Backed, Vouched, Did

(* A result is reported of a job. *)
Reported == \A r \in Requests : req[r].op = "result" => jobs[req[r].a] > 0

(* Every step keeps it so. *)
LEMMA NextReported == TypeOK /\ Handlers /\ Reported /\ [Next]_vars => Reported'
<1> SUFFICES ASSUME TypeOK, Handlers, Reported, [Next]_vars PROVE Reported'
  OBVIOUS
<1>1. ASSUME UNCHANGED req PROVE Reported'
  <2> SUFFICES ASSUME NEW r \in Requests, req[r].op = "result" PROVE jobs'[req[r].a] > 0
    BY <1>1 DEF Reported
  <2>1. pc[r] # "idle" /\ req[r].a \in Approvals
    BY DEF Handlers, Established, NoRequest
  <2> QED BY <2>1, NextRemembers DEF Reported
<1>2. ASSUME NEW r \in Requests, Step(r) \/ Crash(r) PROVE Reported'
  BY <1>1, <1>2, StepFrame DEF Crash
<1>3. ASSUME NEW a \in Approvals, Expire(a) PROVE Reported'
  BY <1>1, <1>3 DEF Expire
<1>4. ASSUME NEW r \in Requests, NEW a \in Approvals, NEW op \in Ops, NEW u, NEW out, NEW step,
             Arrive(r, op, a, u, out, step), op = "result" => jobs[a] > 0
      PROVE  Reported'
  BY <1>4 DEF Arrive, Reported, TypeOK
<1>5. ASSUME NEW r \in Requests, NEW a \in Approvals,
             \/ ArriveCreate(r, a) \/ ArriveDeny(r, a)
             \/ \E op \in Ops, u \in Callers : ArriveDecision(r, op, a, u)
      PROVE  Reported'
  BY <1>4, <1>5 DEF ArriveCreate, ArriveDeny, ArriveDecision
<1>6. ASSUME NEW r \in Requests, NEW a \in Approvals, NEW out \in Outcomes,
             ArriveResult(r, a, out)
      PROVE  Reported'
  <2>1. jobs[a] > 0
    BY <1>6 DEF ArriveResult, TypeOK
  <2> QED BY <1>4, <1>6, <2>1 DEF ArriveResult
<1>7. CASE UNCHANGED vars
  BY <1>1, <1>7 DEF vars
<1> QED BY <1>2, <1>3, <1>5, <1>6, <1>7 DEF Next

(* The record a handler decides upon is backed. *)
LEMMA DecisionBacked ==
  ASSUME TypeOK, Handlers, Reported, NEW r \in Requests, pc[r] = "load", Readable, NEW rec, NEW old,
         old = Stored(r), Backed(req[r].a, old),
         \/ Create(r) /\ rec = Pending
         \/ (DenyOverdue(r) \/ Deny(r)) /\ rec = [old EXCEPT !.status = "denied"]
         \/ ApproveSingle(r) /\ rec = [old EXCEPT !.status = "approved"]
         \/ /\ FirstStep(r)
            /\ rec = [old EXCEPT !.status = "awaiting_double_confirm", !.first = req[r].user]
         \/ SecondStep(r) /\ rec = [old EXCEPT !.status = "approved", !.second = req[r].user]
         \/ LinkResult(r) /\ rec = [old EXCEPT !.execution = req[r].out]
  PROVE  Backed(req[r].a, rec)
<1>1. /\ req[r].a \in Approvals /\ old \in Record /\ req[r].user \in Subjects
      /\ req[r].op = "approve" => MayApprove(req[r].a, req[r].user)
  BY StoredIsRecord DEF Handlers, Established, TypeOK
<1>2. <<req[r].op, req[r].a, req[r].user>> \in Deeds
  BY DEF Deeds
<1> USE DEF Backed, Vouched, Did
<1>3. CASE Create(r) /\ rec = Pending
  BY <1>3 DEF Pending, Absent
<1>4. CASE (DenyOverdue(r) \/ Deny(r)) /\ rec = [old EXCEPT !.status = "denied"]
  BY <1>1, <1>4
<1>5. CASE ApproveSingle(r) /\ rec = [old EXCEPT !.status = "approved"]
  <2>1. req[r].op = "approve" /\ req[r].a \notin Double
    BY <1>5 DEF ApproveSingle, Loads
  <2>2. rec.status = "approved" /\ rec.execution = old.execution
    BY <1>1, <1>5
  <2> QED BY <1>1, <1>2, <2>1, <2>2
<1>6. CASE /\ FirstStep(r)
           /\ rec = [old EXCEPT !.status = "awaiting_double_confirm", !.first = req[r].user]
  <2>1. req[r].op = "approve" /\ req[r].a \in Double
    BY <1>6 DEF FirstStep, Loads
  <2>2. /\ rec.status = "awaiting_double_confirm" /\ rec.first = req[r].user
        /\ rec.execution = old.execution
    BY <1>1, <1>6
  <2> QED BY <1>1, <1>2, <2>1, <2>2
<1>7. CASE SecondStep(r) /\ rec = [old EXCEPT !.status = "approved", !.second = req[r].user]
  <2>1. /\ req[r].op = "confirm" /\ old.status = "awaiting_double_confirm"
        /\ req[r].user = old.first => req[r].user = NoUser
    BY <1>7 DEF SecondStep, Loads, SameApprover
  <2>2. /\ rec.status = "approved" /\ rec.first = old.first /\ rec.second = req[r].user
        /\ rec.execution = old.execution
    BY <1>1, <1>7
  <2> QED BY <1>1, <1>2, <2>1, <2>2
<1>8. CASE LinkResult(r) /\ rec = [old EXCEPT !.execution = req[r].out]
  <2>1. old.status = "approved" /\ jobs[req[r].a] > 0
    BY <1>8 DEF LinkResult, Loads, Reported
  <2>2. /\ rec.status = old.status /\ rec.first = old.first /\ rec.second = old.second
    BY <1>1, <1>8
  <2> QED BY <1>1, <2>1, <2>2
<1> QED BY <1>3, <1>4, <1>5, <1>6, <1>7, <1>8

(* Where the contents of files and the lists of handlers come from. *)
LEMMA Sources ==
  ASSUME TypeOK, Handlers, [Next]_vars
  PROVE  /\ \A i \in Inodes : \/ data'[i] = data[i]
                              \/ ~IsDocument(data'[i])
                              \/ \E r \in Requests : data'[i] = items[r]
         /\ \A r \in Requests : UNCHANGED items[r] \/ Step(r)
<1>1. ASSUME NEW r \in Requests, Step(r)
      PROVE  \A i \in Inodes : \/ data'[i] = data[i]
                               \/ ~IsDocument(data'[i])
                               \/ \E q \in Requests : data'[i] = items[q]
  <2>1. CASE OpenStore(r)
    BY <2>1 DEF OpenStore, OpenTmp, TypeOK
  <2>2. CASE DumpStore(r)
    BY <2>2 DEF DumpStore, DumpTmp, Overlay, TypeOK
  <2>3. CASE PublishStore(r)
    BY <2>3 DEF PublishStore, Publish, files
  <2>4. CASE ReadFails(r) \/ Check(r) \/ Answer(r) \/ SeekTicket(r) \/ OpenTicket(r)
    BY <2>4 DEF ReadFails, Check, Answer, SeekTicket, OpenTicket, files
  <2>5. CASE Audit(r) \/ FindJob(r) \/ InsertJob(r) \/ ClearSurface(r) \/ Show(r)
    BY <2>5 DEF Audit, FindJob, InsertJob, ClearSurface, Show, files
  <2>6. CASE \/ Create(r) \/ DenyOverdue(r) \/ ApproveSingle(r) \/ FirstStep(r)
             \/ SecondStep(r) \/ Deny(r) \/ LinkResult(r)
    BY <2>6 DEF Create, DenyOverdue, ApproveSingle, FirstStep, SecondStep, Deny, LinkResult,
                Save, files
  <2> QED BY <1>1, <2>1, <2>2, <2>3, <2>4, <2>5, <2>6 DEF Step
<1>2. ASSUME NEW r \in Requests, Step(r) PROVE \A q \in Requests \ {r} : items'[q] = items[q]
  BY <1>2, StepFrame
<1>3. ASSUME NEW r \in Requests, Crash(r) PROVE UNCHANGED <<data, items>>
  BY <1>3 DEF Crash
<1>4. ASSUME NEW a \in Approvals, Expire(a) PROVE UNCHANGED <<data, items>>
  BY <1>4 DEF Expire, files
<1>5. ASSUME NEW r \in Requests, NEW a \in Approvals,
             \/ ArriveCreate(r, a) \/ ArriveDeny(r, a)
             \/ \E op \in Ops, u \in Callers : ArriveDecision(r, op, a, u)
             \/ \E out \in Outcomes : ArriveResult(r, a, out)
      PROVE  UNCHANGED <<data, items>>
  BY <1>5 DEF ArriveCreate, ArriveDeny, ArriveDecision, ArriveResult, Arrive, files
<1>6. ASSUME UNCHANGED vars PROVE UNCHANGED <<data, items>>
  BY <1>6 DEF vars, files
<1> QED BY <1>1, <1>2, <1>3, <1>4, <1>5, <1>6 DEF Next

(* What a step of a handler does to its list. *)
LEMMA StepItems ==
  ASSUME TypeOK, Handlers, Reported, AllBacked, NEW r \in Requests, Step(r), items'[r] # items[r]
  PROVE  \A a \in Approvals : \E rec : Backed(a, rec) /\ items'[r][a] = rec
<1>1. \/ Create(r) \/ DenyOverdue(r) \/ ApproveSingle(r) \/ FirstStep(r) \/ SecondStep(r)
      \/ Deny(r) \/ LinkResult(r)
  BY DEF Step, ReadFails, Check, Answer, SeekTicket, OpenTicket, Audit, FindJob, InsertJob,
         ClearSurface, Show, OpenStore, DumpStore, PublishStore
<1>2. pc[r] = "load" /\ Readable
  BY <1>1 DEF Create, DenyOverdue, ApproveSingle, FirstStep, SecondStep, Deny, LinkResult, Loads
<1>3. data[live] \in Store /\ req[r].a \in Approvals /\ live \in Inodes /\ Established(r)
  BY <1>2, StoredIsRecord DEF Handlers, TypeOK
<1>4. \A a \in Approvals : Backed(a, data[live][a])
  BY <1>2, <1>3 DEF AllBacked
<1>5. PICK old : old = Stored(r)
  OBVIOUS
<1>6. Backed(req[r].a, old)
  BY <1>3, <1>4, <1>5 DEF Stored
<1>7. \E rec : Backed(req[r].a, rec) /\ Save(r, rec)
  <2>1. CASE Create(r)
    BY <1>2, <1>5, <1>6, <2>1, DecisionBacked DEF Create
  <2>2. CASE DenyOverdue(r) \/ Deny(r)
    <3> DEFINE rec == [old EXCEPT !.status = "denied"]
    <3>1. Save(r, rec)
      BY <1>5, <2>2 DEF DenyOverdue, Deny
    <3>2. Backed(req[r].a, rec)
      BY <1>2, <1>5, <1>6, <2>2, DecisionBacked
    <3> QED BY <3>1, <3>2
  <2>3. CASE ApproveSingle(r)
    <3> DEFINE rec == [old EXCEPT !.status = "approved"]
    <3>1. Save(r, rec)
      BY <1>5, <2>3 DEF ApproveSingle
    <3>2. Backed(req[r].a, rec)
      BY <1>2, <1>5, <1>6, <2>3, DecisionBacked
    <3> QED BY <3>1, <3>2
  <2>4. CASE FirstStep(r)
    <3> DEFINE rec == [old EXCEPT !.status = "awaiting_double_confirm", !.first = req[r].user]
    <3>1. Save(r, rec)
      BY <1>5, <2>4 DEF FirstStep
    <3>2. Backed(req[r].a, rec)
      BY <1>2, <1>5, <1>6, <2>4, DecisionBacked
    <3> QED BY <3>1, <3>2
  <2>5. CASE SecondStep(r)
    <3> DEFINE rec == [old EXCEPT !.status = "approved", !.second = req[r].user]
    <3>1. Save(r, rec)
      BY <1>5, <2>5 DEF SecondStep
    <3>2. Backed(req[r].a, rec)
      BY <1>2, <1>5, <1>6, <2>5, DecisionBacked
    <3> QED BY <3>1, <3>2
  <2>6. CASE LinkResult(r)
    <3> DEFINE rec == [old EXCEPT !.execution = req[r].out]
    <3>1. Save(r, rec)
      BY <1>5, <2>6 DEF LinkResult
    <3>2. Backed(req[r].a, rec)
      BY <1>2, <1>5, <1>6, <2>6, DecisionBacked
    <3> QED BY <3>1, <3>2
  <2> QED BY <1>1, <2>1, <2>2, <2>3, <2>4, <2>5, <2>6
<1>8. PICK rec : Backed(req[r].a, rec) /\ Save(r, rec)
  BY <1>7
<1>9. /\ items'[r][req[r].a] = rec
      /\ \A a \in Approvals \ {req[r].a} : items'[r][a] = data[live][a]
  BY <1>3, <1>8, SaveMine
<1> QED BY <1>4, <1>8, <1>9

(* Every step keeps all records backed. *)
LEMMA NextBacked == TypeOK /\ Handlers /\ Reported /\ AllBacked /\ [Next]_vars => AllBacked'
<1> SUFFICES ASSUME TypeOK, Handlers, Reported, AllBacked, [Next]_vars PROVE AllBacked'
  OBVIOUS
<1>1. ASSUME NEW a \in Approvals, NEW rec, Backed(a, rec) PROVE Backed(a, rec)'
  BY <1>1, BackedStays
<1>2. ASSUME NEW r \in Requests, NEW a \in Approvals
      PROVE  \E rec : Backed(a, rec) /\ items'[r][a] = rec
  <2>1. CASE items'[r] = items[r]
    BY <2>1 DEF AllBacked
  <2>2. CASE items'[r] # items[r]
    BY <2>2, Sources, StepItems
  <2> QED BY <2>1, <2>2
<1>3. ASSUME NEW i \in Inodes, IsDocument(data'[i]), NEW a \in Approvals
      PROVE  \E rec : Backed(a, rec) /\ data'[i][a] = rec
  <2>1. data'[i] = data[i] \/ \E r \in Requests : data'[i] = items[r]
    BY <1>3, Sources
  <2>2. CASE data'[i] = data[i]
    BY <1>3, <2>2 DEF AllBacked
  <2>3. CASE \E r \in Requests : data'[i] = items[r]
    BY <2>3 DEF AllBacked
  <2> QED BY <2>1, <2>2, <2>3
<1>4. ASSUME NEW r \in Requests, NEW a \in Approvals PROVE Backed(a, items[r][a])'
  <2>1. PICK rec : Backed(a, rec) /\ items'[r][a] = rec
    BY <1>2
  <2>2. Backed(a, rec)'
    BY <1>1, <2>1
  <2> QED BY <2>1, <2>2 DEF Backed, Vouched, Did
<1>5. ASSUME NEW i \in Inodes, IsDocument(data'[i]), NEW a \in Approvals
      PROVE  Backed(a, data[i][a])'
  <2>1. PICK rec : Backed(a, rec) /\ data'[i][a] = rec
    BY <1>3, <1>5
  <2>2. Backed(a, rec)'
    BY <1>1, <2>1
  <2> QED BY <2>1, <2>2 DEF Backed, Vouched, Did
<1> QED BY <1>4, <1>5 DEF AllBacked

(* The inductive invariant of the store. *)
LEMMA AllBackedAlways == Spec => [](TypeOK /\ Handlers /\ AllBacked)
<1>1. Init => TypeOK /\ Handlers
  <2>1. [a \in Approvals |-> IF a \in Existing THEN Pending ELSE Absent] \in Store
    BY Constants DEF Store
  <2>2. Init => data \in [Inodes -> Store \cup {Empty, Torn}]
    BY <2>1 DEF Init, StoreInit
  <2>3. Init => TypeOK
    BY <2>2, Constants DEF Init, StoreInit, TypeOK
  <2>4. ASSUME Init, NEW r \in Requests PROVE Established(r)
    <3>1. pc[r] = "idle" /\ req[r] = NoRequest /\ items[r] = NoItems
      BY <2>4 DEF Init
    <3> QED BY <3>1 DEF Established
  <2>5. Init => Handlers
    BY <2>4 DEF Handlers
  <2> QED BY <2>3, <2>5
<1>2. Init => Reported /\ AllBacked
  <2> SUFFICES ASSUME Init PROVE Reported /\ AllBacked
    OBVIOUS
  <2>1. Reported
    BY DEF Init, Reported, NoRequest
  <2>2. \A a \in Approvals : Backed(a, Absent) /\ Backed(a, Pending)
    BY DEF Backed, Vouched, Absent, Pending
  <2>3. ASSUME NEW i \in Inodes, IsDocument(data[i]), NEW a \in Approvals
        PROVE  data[i][a] \in {Absent, Pending}
    BY <2>3 DEF Init, StoreInit
  <2>4. \A r \in Requests, a \in Approvals : items[r][a] = Absent
    BY DEF Init, NoItems
  <2> QED BY <2>1, <2>2, <2>3, <2>4 DEF AllBacked
<1> QED BY <1>1, <1>2, NextTypes, NextEstablishes, NextReported, NextBacked, PTL DEF Spec

(* Every reachable state is well typed. *)
THEOREM TypeCorrect == Spec => []TypeOK
BY AllBackedAlways, PTL

(* Approved records name the people who approved them. *)
THEOREM FourEyesSafety == Spec => []FourEyes
<1>1. AllBacked => FourEyes
  BY DEF AllBacked, Backed, FourEyes
<1> QED BY <1>1, AllBackedAlways, PTL

-----------------------------------------------------------------------------

(* A handler past its decision keeps it. *)
LEMMA DecisionsStay ==
  ASSUME TypeOK, Handlers, [Next]_vars, NEW r \in Requests,
         pc[r] \notin {"idle", "check", "load"}
  PROVE  /\ pc'[r] \notin {"idle", "check", "load"}
         /\ req'[r] = req[r] /\ items'[r] = items[r]
<1> DEFINE Kept == pc'[r] \notin {"idle", "check", "load"} /\ items'[r] = items[r]
<1>1. req'[r] = req[r]
  BY NextRemembers
<1>2. ASSUME NEW q \in Requests, Step(q) PROVE Kept
  <2>1. CASE q # r
    BY <1>2, <2>1, StepFrame
  <2>2. CASE q = r
    <3>1. CASE OpenStore(r) \/ DumpStore(r)
      BY <3>1 DEF OpenStore, DumpStore, TypeOK
    <3>2. CASE PublishStore(r)
      BY <3>2 DEF PublishStore, AfterSave, TypeOK
    <3>3. CASE SeekTicket(r) \/ OpenTicket(r) \/ Audit(r) \/ FindJob(r)
      BY <3>3 DEF SeekTicket, OpenTicket, Audit, FindJob, Finish, TypeOK
    <3>4. CASE InsertJob(r) \/ ClearSurface(r) \/ Show(r)
      BY <3>4 DEF InsertJob, ClearSurface, Show, Finish, TypeOK
    <3>5. CASE \/ ReadFails(r) \/ Check(r) \/ Answer(r)
               \/ Create(r) \/ DenyOverdue(r) \/ ApproveSingle(r) \/ FirstStep(r)
               \/ SecondStep(r) \/ Deny(r) \/ LinkResult(r)
      BY <3>5 DEF ReadFails, Check, Answer, Create, DenyOverdue, ApproveSingle, FirstStep,
                  SecondStep, Deny, LinkResult, Loads
    <3> QED BY <1>2, <2>2, <3>1, <3>2, <3>3, <3>4, <3>5 DEF Step
  <2> QED BY <2>1, <2>2
<1>3. ASSUME NEW q \in Requests, Crash(q) PROVE Kept
  BY <1>3 DEF Crash, TypeOK
<1>4. ASSUME NEW a \in Approvals, Expire(a) PROVE Kept
  BY <1>4 DEF Expire
<1>5. ASSUME NEW q \in Requests, NEW a \in Approvals,
             \/ ArriveCreate(q, a) \/ ArriveDeny(q, a)
             \/ \E op \in Ops, u \in Callers : ArriveDecision(q, op, a, u)
             \/ \E out \in Outcomes : ArriveResult(q, a, out)
      PROVE  Kept
  BY <1>5 DEF ArriveCreate, ArriveDeny, ArriveDecision, ArriveResult, Arrive, TypeOK
<1>6. CASE UNCHANGED vars
  BY <1>6 DEF vars
<1> QED BY <1>1, <1>2, <1>3, <1>4, <1>5, <1>6 DEF Next

(* A new job is created by a handler that saved the approval as approved. *)
LEMMA NextDispatched == TypeOK /\ Handlers /\ Dispatched /\ [Next]_vars => Dispatched'
<1> SUFFICES ASSUME TypeOK, Handlers, Dispatched, [Next]_vars, NEW a \in Approvals, jobs'[a] > 0
             PROVE  \E r \in Requests : /\ req'[r].op \in {"approve", "confirm"}
                                        /\ req'[r].a = a
                                        /\ pc'[r] \notin {"idle", "check", "load"}
                                        /\ items'[r][a].status = "approved"
  BY DEF Dispatched
<1>1. CASE jobs[a] > 0
  <2>1. PICK r \in Requests : /\ req[r].op \in {"approve", "confirm"} /\ req[r].a = a
                              /\ pc[r] \notin {"idle", "check", "load"}
                              /\ items[r][a].status = "approved"
    BY <1>1 DEF Dispatched
  <2> QED BY <2>1, DecisionsStay
<1>2. CASE ~(jobs[a] > 0)
  <2>1. jobs' # jobs
    BY <1>2
  <2>2. PICK r \in Requests : InsertJob(r)
    <3>1. \A r \in Requests : Step(r) => InsertJob(r)
      BY <2>1 DEF Step, ReadFails, Check, Create, DenyOverdue, ApproveSingle, FirstStep,
                  SecondStep, Deny, LinkResult, Answer, OpenStore, DumpStore, PublishStore,
                  SeekTicket, OpenTicket, Audit, FindJob, ClearSurface, Show, Save, server
    <3>2. \A r \in Requests : ~Crash(r)
      BY <2>1 DEF Crash, server
    <3>3. \A b \in Approvals : ~Expire(b)
      BY <2>1 DEF Expire, server
    <3>4. \A r, op, b, u, out, step : ~Arrive(r, op, b, u, out, step)
      BY <2>1 DEF Arrive
    <3>5. ~UNCHANGED vars
      BY <2>1 DEF vars, server
    <3> QED
      BY <3>1, <3>2, <3>3, <3>4, <3>5 DEF Next, ArriveCreate, ArriveDeny, ArriveDecision,
                                          ArriveResult
  <2>3. pc[r] = "insert" /\ req[r].a = a
    BY <1>2, <2>2 DEF InsertJob, TypeOK
  <2>4. req[r].op \in {"approve", "confirm"} /\ items[r][a].status = "approved"
    BY <2>3 DEF Handlers, Established
  <2> QED BY <2>3, <2>4, DecisionsStay
<1> QED BY <1>1, <1>2

(* Behind every job there is an approval, and behind every outcome a job. *)
THEOREM JobSafety == Spec => []JobsAreApproved
<1>1. Init => Dispatched
  BY DEF Init, Dispatched
<1>2. TypeOK /\ AllBacked /\ Dispatched => JobsAreApproved
  <2> SUFFICES ASSUME TypeOK, AllBacked, Dispatched, NEW a \in Approvals
               PROVE  /\ jobs[a] > 0 => \E r \in Requests :
                           /\ req[r].op \in {"approve", "confirm"} /\ req[r].a = a
                           /\ items[r][a].status = "approved" /\ Vouched(a, items[r][a])
                      /\ Readable /\ data[live][a].execution # "none" => jobs[a] > 0
    BY DEF JobsAreApproved, Mine
  <2>1. \A r \in Requests : Vouched(a, items[r][a])
    BY DEF AllBacked, Backed
  <2>2. Readable => Backed(a, data[live][a])
    BY DEF AllBacked, TypeOK
  <2> QED BY <2>1, <2>2 DEF Dispatched, Backed
<1> QED BY <1>1, <1>2, AllBackedAlways, NextDispatched, PTL DEF Spec

-----------------------------------------------------------------------------

(* With the unique index, a job is only inserted for an approval that has none. *)
LEMMA NextOneJob ==
  UniqueToolCall /\ TypeOK /\ OneJobPerApproval /\ [Next]_vars => OneJobPerApproval'
<1> SUFFICES ASSUME UniqueToolCall, TypeOK, OneJobPerApproval, [Next]_vars, NEW a \in Approvals
             PROVE  jobs'[a] <= 1
  BY DEF OneJobPerApproval
<1>1. jobs[a] \in Nat /\ jobs[a] <= 1
  BY DEF OneJobPerApproval, TypeOK
<1>2. CASE UNCHANGED jobs
  BY <1>1, <1>2
<1>3. CASE \E r \in Requests : InsertJob(r)
  BY <1>1, <1>3 DEF InsertJob, TypeOK
<1>4. ASSUME NEW r \in Requests, Step(r) PROVE UNCHANGED jobs \/ InsertJob(r)
  BY <1>4 DEF Step, ReadFails, Check, Create, DenyOverdue, ApproveSingle, FirstStep, SecondStep,
              Deny, LinkResult, Answer, OpenStore, DumpStore, PublishStore, SeekTicket, OpenTicket,
              Audit, FindJob, ClearSurface, Show, Save, server
<1>5. ASSUME NEW r \in Requests, NEW b \in Approvals,
             \/ ArriveCreate(r, b) \/ ArriveDeny(r, b)
             \/ \E op \in Ops, u \in Callers : ArriveDecision(r, op, b, u)
             \/ \E out \in Outcomes : ArriveResult(r, b, out)
      PROVE  UNCHANGED jobs
  BY <1>5 DEF ArriveCreate, ArriveDeny, ArriveDecision, ArriveResult, Arrive
<1>6. CASE UNCHANGED vars
  BY <1>2, <1>6 DEF vars, server
<1>7. ASSUME NEW r \in Requests, Crash(r) PROVE UNCHANGED jobs
  BY <1>7 DEF Crash, server
<1>8. ASSUME NEW b \in Approvals, Expire(b) PROVE UNCHANGED jobs
  BY <1>8 DEF Expire, server
<1> QED BY <1>2, <1>3, <1>4, <1>5, <1>6, <1>7, <1>8 DEF Next

(* An approved action is executed through one job at most, whatever requests   *)
(* overlap, given the unique index on the job's tool_call_id.                  *)
THEOREM OneJobSafety ==
  ASSUME UniqueToolCall PROVE Spec => []OneJobPerApproval
<1>1. Init => OneJobPerApproval
  BY DEF Init, OneJobPerApproval
<1>2. TypeOK /\ OneJobPerApproval /\ [Next]_vars => OneJobPerApproval'
  BY NextOneJob
<1> QED BY <1>1, <1>2, TypeCorrect, PTL DEF Spec
=============================================================================
