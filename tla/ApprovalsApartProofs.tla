------------------------ MODULE ApprovalsApartProofs ------------------------
(* Proofs of what keeps the approvals store right although its handlers       *)
(* overlap: the store stays readable in every run in which no two saves       *)
(* overlap, and decisions are final and audited once in every run in which no *)
(* handler loads the list before another has published the one it loaded.     *)
(* Nothing in the code sees to either; a lock around load and save would see  *)
(* to both.  Handlers may overlap in all their other steps, and be cut off.   *)
EXTENDS ApprovalsProofs

USE InodesAssumption, ApprovalsAssumption
USE DEF Inodes, Requests, Subjects, Ops, Statuses, Outcomes, Record, Request, Steps, Target,
        IsDocument, Readable, Goto

(* The inductive invariant. *)

(* Between opening <store>.tmp and moving it to the store's path. *)
Saving(r) == pc[r] \in {"dump", "publish"}
SavesApart == \A r, q \in Requests : Saving(r) /\ Saving(q) => r = q

(* Between loading the list and publishing it. *)
Editing(r) == pc[r] = "open" \/ Saving(r)
EditsApart == \A r, q \in Requests : Editing(r) /\ Editing(q) => r = q

USE DEF Saving, Editing

(* The store is never the file that is being written, and what is published is *)
(* the list of its writer; an inode is named after nobody who has yet to open. *)
FilesApart ==
  /\ data[live] \in Store
  /\ tmp # live
  /\ \A r \in Requests :
       /\ pc[r] \in {"idle", "check", "load", "open"} => r \notin {live, tmp}
       /\ pc[r] = "dump" => fd[r] = tmp /\ tmp # NoFile /\ data[tmp] = Empty
       /\ pc[r] = "publish" => tmp # NoFile /\ data[tmp] = items[r]

(* A new id is in no list. *)
NewIds ==
  /\ \A a \in Approvals : \/ a \in Existing \/ data[live][a].status = "absent"
                          \/ \E p \in Requests : req[p].op = "create" /\ req[p].a = a
  /\ \A r \in Requests : req[r].op = "create" =>
       /\ req[r].a \notin Existing
       /\ \A q \in Requests : req[q].op = "create" /\ req[q].a = req[r].a => q = r
       /\ pc[r] # "check"
       /\ pc[r] = "load" => data[live][req[r].a].status = "absent"

(* What each operation may do to the status of its approval. *)
Transition(op, before, after) ==
  \/ op = "create" /\ before = "absent" /\ after = "pending"
  \/ op = "approve" /\ before = "pending" /\ after \in {"approved", "awaiting_double_confirm"}
  \/ op \in {"approve", "deny"} /\ before \in Open /\ after = "denied"
  \/ op = "confirm" /\ before = "awaiting_double_confirm" /\ after = "approved"
  \/ op = "result" /\ before = "approved" /\ after = "approved"

(* The list a handler is about to save is the store's, but for its own approval;  *)
(* once it has resolved the approval, the store says so whatever others do to it. *)
Held(r) ==
  /\ Editing(r) =>
       /\ \A a \in Approvals \ {req[r].a} : items[r][a] = data[live][a]
       /\ Transition(req[r].op, Stored(r).status, Mine(r).status)
  /\ pc[r] \in {"seek", "ticket", "audit"} =>
       /\ Mine(r).status \in {"approved", "denied", "awaiting_double_confirm"}
       /\ Mine(r).status # "awaiting_double_confirm" => Stored(r).status = Mine(r).status
Lists == \A r \in Requests : Held(r)

(* The resolution of an approval is audited by the one request that resolved it. *)
Auditing(r) == /\ pc[r] \in {"seek", "ticket", "audit"}
               /\ Mine(r).status # "awaiting_double_confirm"
Resolutions ==
  /\ \A a \in Approvals :
       events[a] <= 1 /\ (events[a] > 0 => data[live][a].status \in {"approved", "denied"})
  /\ \A r \in Requests : Auditing(r) => events[req[r].a] = 0
  /\ \A r, q \in Requests : Auditing(r) /\ Auditing(q) /\ req[r].a = req[q].a => r = q

ApartInv == NewIds /\ Lists /\ Resolutions

-----------------------------------------------------------------------------

(* Every way a request arrives is one arrival, at the start of its handler. *)
LEMMA Arrivals ==
  ASSUME NEW r \in Requests, NEW a \in Approvals,
         \/ ArriveCreate(r, a) \/ ArriveDeny(r, a)
         \/ \E op \in Ops, u \in Callers : ArriveDecision(r, op, a, u)
         \/ \E out \in Outcomes : ArriveResult(r, a, out)
  PROVE  \E op \in Ops \ {"none"}, u \in Subjects, out \in Outcomes, step \in {"check", "load"} :
           /\ Arrive(r, op, a, u, out, step)
           /\ op = "create" => ArriveCreate(r, a) /\ step = "load"
BY DEF ArriveCreate, ArriveDeny, ArriveDecision, ArriveResult

(* The next-state relation, as the proofs below take it apart. *)
LEMMA NextCases ==
  ASSUME [Next]_vars
  PROVE  \/ \E r \in Requests : Step(r) \/ Crash(r)
         \/ \E r \in Requests, a \in Approvals, op \in Ops \ {"none"}, u \in Subjects,
               out \in Outcomes, step \in {"check", "load"} :
              /\ Arrive(r, op, a, u, out, step)
              /\ op = "create" => ArriveCreate(r, a) /\ step = "load"
         \/ UNCHANGED <<files, pc, req, items, server, crashes>>
<1>1. ASSUME NEW r \in Requests, NEW a \in Approvals,
             \/ ArriveCreate(r, a) \/ ArriveDeny(r, a)
             \/ \E op \in Ops, u \in Callers : ArriveDecision(r, op, a, u)
             \/ \E out \in Outcomes : ArriveResult(r, a, out)
      PROVE  \E op \in Ops \ {"none"}, u \in Subjects, out \in Outcomes,
                step \in {"check", "load"} :
               /\ Arrive(r, op, a, u, out, step)
               /\ op = "create" => ArriveCreate(r, a) /\ step = "load"
  BY <1>1, Arrivals
<1>2. ASSUME NEW a \in Approvals, Expire(a)
      PROVE  UNCHANGED <<files, pc, req, items, server, crashes>>
  BY <1>2 DEF Expire
<1>3. CASE UNCHANGED vars
  BY <1>3 DEF vars
<1> QED BY <1>1, <1>2, <1>3 DEF Next

(* While one request moves, the others stay where they are. *)
LEMMA OthersRest ==
  ASSUME TypeOK, NEW r \in Requests, Step(r) \/ Crash(r)
  PROVE  /\ UNCHANGED req
         /\ \A q \in Requests \ {r} : pc'[q] = pc[q] /\ items'[q] = items[q]
<1>1. CASE Step(r)
  BY <1>1, StepFrame
<1>2. CASE Crash(r)
  BY <1>2 DEF Crash, TypeOK
<1> QED BY <1>1, <1>2

-----------------------------------------------------------------------------

(* A step that writes no file, and puts no request into a save, leaves the files apart. *)
LEMMA QuietFiles ==
  ASSUME TypeOK, FilesApart, UNCHANGED <<live, tmp, data>>,
         \A q \in Requests :
           /\ pc'[q] \in {"idle", "check", "load", "open"} =>
                pc[q] \in {"idle", "check", "load", "open"}
           /\ pc'[q] = "dump" => pc[q] = "dump" /\ fd'[q] = fd[q]
           /\ pc'[q] = "publish" => pc[q] = "publish" /\ items'[q] = items[q]
  PROVE  FilesApart'
BY DEF FilesApart

(* Where a step that writes no file leaves its request. *)
LEMMA QuietSteps ==
  ASSUME TypeOK, NEW r \in Requests, Step(r) \/ Crash(r)
  PROVE  \/ OpenStore(r) \/ DumpStore(r)
         \/ PublishStore(r) /\ Publish
         \/ /\ UNCHANGED <<live, tmp, data>>
            /\ pc'[r] \notin {"idle", "check", "dump", "publish"}
            /\ pc'[r] \in {"load", "open"} => pc[r] \in {"check", "load"}
            /\ pc'[r] = "load" => pc[r] = "check"
            /\ \A q \in Requests \ {r} : fd'[q] = fd[q]
<1>1. CASE ReadFails(r) \/ Check(r) \/ Answer(r)
  BY <1>1 DEF ReadFails, Check, Answer, files, TypeOK
<1>2. CASE \/ Create(r) \/ DenyOverdue(r) \/ ApproveSingle(r) \/ FirstStep(r) \/ SecondStep(r)
           \/ Deny(r) \/ LinkResult(r)
  <2>1. pc[r] = "load" /\ \E rec : Save(r, rec)
    BY <1>2 DEF Create, DenyOverdue, ApproveSingle, FirstStep, SecondStep, Deny, LinkResult, Loads
  <2> QED BY <2>1 DEF Save, files, TypeOK
<1>3. CASE PublishStore(r)
  BY <1>3 DEF PublishStore, files, TypeOK
<1>4. CASE SeekTicket(r) \/ OpenTicket(r) \/ Audit(r) \/ FindJob(r)
  BY <1>4 DEF SeekTicket, OpenTicket, Audit, FindJob, Finish, files, TypeOK
<1>5. CASE InsertJob(r) \/ ClearSurface(r) \/ Show(r)
  BY <1>5 DEF InsertJob, ClearSurface, Show, Finish, files, TypeOK
<1>6. CASE Crash(r)
  BY <1>6 DEF Crash, TypeOK
<1> QED BY <1>1, <1>2, <1>3, <1>4, <1>5, <1>6 DEF Step

(* The file a request opens is not the store, and empty. *)
LEMMA OpenApart ==
  ASSUME TypeOK, FilesApart, NEW r \in Requests, OpenStore(r)
  PROVE  /\ live' = live /\ data'[live] = data[live] /\ items' = items
         /\ tmp' \in Inodes /\ tmp' # live /\ tmp' \in {r, tmp}
         /\ fd'[r] = tmp' /\ data'[tmp'] = Empty /\ pc'[r] = "dump"
<1>1. pc[r] = "open" /\ r # live
  BY DEF OpenStore, FilesApart
<1> QED BY <1>1 DEF OpenStore, OpenTmp, FilesApart, TypeOK

(* A dump into an empty file leaves the whole list there. *)
LEMMA DumpApart ==
  ASSUME TypeOK, FilesApart, NEW r \in Requests, DumpStore(r)
  PROVE  /\ UNCHANGED <<live, tmp, items>> /\ data'[live] = data[live]
         /\ tmp # NoFile /\ data'[tmp] = items[r] /\ pc'[r] = "publish"
<1>1. fd[r] = tmp /\ tmp \in Inodes /\ tmp # live /\ data[tmp] = Empty
  BY DEF DumpStore, FilesApart, TypeOK
<1>2. data' = [data EXCEPT ![tmp] = items[r]]
  BY <1>1 DEF DumpStore, DumpTmp, Overlay
<1> QED BY <1>1, <1>2 DEF DumpStore, DumpTmp, TypeOK

(* What is published is the list the request saved. *)
LEMMA PublishApart ==
  ASSUME TypeOK, FilesApart, NEW r \in Requests, PublishStore(r)
  PROVE  /\ pc[r] = "publish" /\ pc'[r] = AfterSave(r)
         /\ live' = tmp /\ tmp \in Inodes /\ tmp' = NoFile
         /\ UNCHANGED <<data, req, items, expired, server, crashes>>
         /\ data[tmp] = items[r]
<1>1. pc[r] = "publish" /\ tmp # NoFile /\ data[tmp] = items[r]
  BY DEF PublishStore, FilesApart
<1> QED BY <1>1 DEF PublishStore, Publish, PublishFails, TypeOK

(* The files stay apart while saves do. *)
LEMMA NextFiles ==
  TypeOK /\ FilesApart /\ SavesApart /\ SavesApart' /\ [Next]_vars => FilesApart'
<1> SUFFICES ASSUME TypeOK, FilesApart, SavesApart, SavesApart', [Next]_vars PROVE FilesApart'
  OBVIOUS
<1>1. ASSUME NEW r \in Requests, Step(r) \/ Crash(r) PROVE FilesApart'
  <2>1. \A q \in Requests \ {r} : pc'[q] = pc[q] /\ items'[q] = items[q]
    BY <1>1, OthersRest
  <2>2. CASE OpenStore(r)
    <3>1. pc'[r] = "dump" /\ fd'[r] = tmp' /\ tmp' # NoFile /\ data'[tmp'] = Empty
      BY <2>2, OpenApart
    <3>2. \A q \in Requests \ {r} : pc'[q] \notin {"dump", "publish"}
      BY <3>1 DEF SavesApart, Saving
    <3>3. data'[live'] \in Store /\ tmp' # live'
      BY <2>2, OpenApart DEF FilesApart
    <3>4. \A q \in Requests \ {r} :
            pc'[q] \in {"idle", "check", "load", "open"} => q \notin {live', tmp'}
      BY <2>1, <2>2, OpenApart DEF FilesApart
    <3> QED BY <3>1, <3>2, <3>3, <3>4 DEF FilesApart
  <2>3. CASE DumpStore(r)
    <3>1. \A q \in Requests \ {r} : pc'[q] \notin {"dump", "publish"}
      BY <2>1, <2>3 DEF SavesApart, Saving, DumpStore
    <3> QED BY <2>1, <2>3, <3>1, DumpApart DEF FilesApart
  <2>4. CASE PublishStore(r) /\ Publish
    <3>1. data'[live'] \in Store /\ tmp' = NoFile /\ live' = tmp /\ tmp \in Inodes
      BY <2>4, PublishApart DEF TypeOK
    <3>2. pc'[r] \notin {"idle", "check", "load", "open", "dump", "publish"}
      BY <2>4, PublishApart DEF AfterSave
    <3>3. \A q \in Requests \ {r} : pc'[q] \notin {"dump", "publish"}
      BY <2>1, <2>4 DEF SavesApart, Saving, PublishStore
    <3>4. \A q \in Requests \ {r} : pc'[q] \in {"idle", "check", "load", "open"} => q # tmp
      BY <2>1 DEF FilesApart
    <3> QED BY <3>1, <3>2, <3>3, <3>4 DEF FilesApart
  <2>5. CASE /\ UNCHANGED <<live, tmp, data>>
             /\ pc'[r] \notin {"idle", "check", "dump", "publish"}
             /\ pc'[r] \in {"load", "open"} => pc[r] \in {"check", "load"}
             /\ \A q \in Requests \ {r} : fd'[q] = fd[q]
    BY <2>1, <2>5, QuietFiles
  <2> QED BY <1>1, <2>2, <2>3, <2>4, <2>5, QuietSteps
<1>2. ASSUME NEW r \in Requests, NEW op, NEW a, NEW u, NEW out, NEW step \in {"check", "load"},
             Arrive(r, op, a, u, out, step)
      PROVE  FilesApart'
  <2>1. pc[r] = "idle" /\ pc' = [pc EXCEPT ![r] = step] /\ UNCHANGED <<files, items>>
    BY <1>2 DEF Arrive
  <2> QED BY <2>1, QuietFiles DEF files, TypeOK
<1>3. CASE UNCHANGED <<files, pc, req, items, server, crashes>>
  BY <1>3, QuietFiles DEF files
<1> QED BY <1>1, <1>2, <1>3, NextCases

(* The store changes only when a request publishes the list it saved. *)
LEMMA StoreMoves ==
  ASSUME TypeOK, FilesApart, [Next]_vars
  PROVE  \/ data'[live'] = data[live]
         \/ \E r \in Requests : /\ PublishStore(r) /\ data'[live'] = items[r]
                                /\ pc[r] = "publish" /\ pc'[r] = AfterSave(r)
                                /\ UNCHANGED <<req, items, server, crashes>>
<1>1. ASSUME NEW r \in Requests, Step(r) \/ Crash(r)
      PROVE  \/ data'[live'] = data[live]
             \/ /\ PublishStore(r) /\ data'[live'] = items[r]
                /\ pc[r] = "publish" /\ pc'[r] = AfterSave(r)
                /\ UNCHANGED <<req, items, server, crashes>>
  BY <1>1, QuietSteps, OpenApart, DumpApart, PublishApart
<1>2. ASSUME NEW r, NEW op, NEW a, NEW u, NEW out, NEW step, Arrive(r, op, a, u, out, step)
      PROVE  data'[live'] = data[live]
  BY <1>2 DEF Arrive, files
<1>3. CASE UNCHANGED <<files, pc, req, items, server, crashes>>
  BY <1>3 DEF files
<1> QED BY <1>1, <1>2, <1>3, NextCases

(* An approval changes only as the operation of the request that saved it allows. *)
LEMMA StatusMoves ==
  ASSUME TypeOK, FilesApart, Lists, [Next]_vars, NEW a \in Approvals
  PROVE  \/ data'[live'][a] = data[live][a]
         \/ \E r \in Requests :
              /\ PublishStore(r) /\ pc[r] = "publish" /\ pc'[r] = AfterSave(r)
              /\ req[r].a = a /\ data'[live'] = items[r]
              /\ Transition(req[r].op, data[live][a].status, data'[live'][a].status)
              /\ UNCHANGED <<req, items, server, crashes>>
<1>1. CASE data'[live'] = data[live]
  BY <1>1
<1>2. ASSUME NEW r \in Requests, PublishStore(r), data'[live'] = items[r], pc[r] = "publish",
             pc'[r] = AfterSave(r), UNCHANGED <<req, items, server, crashes>>
      PROVE  \/ data'[live'][a] = data[live][a]
             \/ /\ req[r].a = a
                /\ Transition(req[r].op, data[live][a].status, data'[live'][a].status)
  BY <1>2 DEF Lists, Held, Stored, Mine
<1> QED BY <1>1, <1>2, StoreMoves

(* New ids stay new until their record is saved. *)
LEMMA NextNewIds ==
  ASSUME TypeOK, Handlers, FilesApart, Lists, NewIds, [Next]_vars PROVE NewIds'
<1> DEFINE Asked(a) == \E p \in Requests : req[p].op = "create" /\ req[p].a = a
<1>1. ASSUME NEW a \in Approvals, Asked(a) PROVE Asked(a)'
  <2>1. PICK p \in Requests : req[p].op = "create" /\ req[p].a = a
    BY <1>1
  <2>2. pc[p] # "idle"
    BY <2>1 DEF Handlers, Established, NoRequest
  <2> QED BY <2>1, <2>2, NextRemembers
<1>2. ASSUME NEW a \in Approvals
      PROVE  a \in Existing \/ data'[live'][a].status = "absent" \/ Asked(a)'
  <2>1. CASE data'[live'][a] = data[live][a]
    BY <1>1, <2>1 DEF NewIds
  <2>2. ASSUME NEW r \in Requests, req[r].a = a, UNCHANGED req,
               Transition(req[r].op, data[live][a].status, data'[live'][a].status)
        PROVE  a \in Existing \/ data'[live'][a].status = "absent" \/ Asked(a)'
    BY <1>1, <2>2 DEF Transition, NewIds, Open
  <2> QED BY <2>1, <2>2, StatusMoves
<1> DEFINE New(r) == req[r].op = "create" =>
             /\ req[r].a \notin Existing
             /\ \A q \in Requests : req[q].op = "create" /\ req[q].a = req[r].a => q = r
             /\ pc[r] # "check"
             /\ pc[r] = "load" => data[live][req[r].a].status = "absent"
<1>3. \A r \in Requests : New(r)
  BY DEF NewIds
<1>4. ASSUME NEW r \in Requests, Step(r) \/ Crash(r), NEW q \in Requests PROVE New(q)'
  <2>1. UNCHANGED req
    BY <1>4, OthersRest
  <2>2. CASE q = r
    <3>1. pc'[r] # "check" /\ (pc'[r] = "load" => pc[r] = "check")
      BY <1>4, QuietSteps, OpenApart, DumpApart, PublishApart DEF AfterSave
    <3> QED BY <1>3, <2>1, <2>2, <3>1
  <2>3. CASE q # r
    <3>1. pc'[q] = pc[q]
      BY <1>4, <2>3, OthersRest
    <3> SUFFICES ASSUME req[q].op = "create", pc[q] = "load"
                 PROVE  data'[live'][req[q].a].status = "absent"
      BY <1>3, <2>1, <3>1
    <3>2. req[q].a \in Approvals /\ data[live][req[q].a].status = "absent"
      BY <1>3 DEF Handlers, Established
    <3>3. ASSUME NEW p \in Requests, pc[p] = "publish", req[p].a = req[q].a, NEW after,
                 Transition(req[p].op, "absent", after)
          PROVE  FALSE
      <4>1. req[p].op = "create"
        BY <3>3 DEF Transition, Open
      <4> QED BY <1>3, <3>3, <4>1
    <3> QED BY <3>2, <3>3, StatusMoves
  <2> QED BY <2>2, <2>3
<1>5. ASSUME NEW r \in Requests, NEW a \in Approvals, NEW op, NEW u, NEW out,
             NEW step \in {"check", "load"}, Arrive(r, op, a, u, out, step),
             op = "create" => ArriveCreate(r, a) /\ step = "load", NEW q \in Requests
      PROVE  New(q)'
  <2>1. /\ pc' = [pc EXCEPT ![r] = step] /\ UNCHANGED files
        /\ req' = [req EXCEPT ![r] = [op |-> op, a |-> a, user |-> u, out |-> out]]
    BY <1>5 DEF Arrive
  <2>2. CASE op = "create"
    <3>1. a \notin Existing /\ ~Asked(a) /\ step = "load"
      BY <1>5, <2>2 DEF ArriveCreate
    <3>2. data[live][a].status = "absent"
      BY <3>1 DEF NewIds
    <3> QED BY <1>3, <2>1, <2>2, <3>1, <3>2 DEF files, TypeOK
  <2>3. CASE op # "create"
    BY <1>3, <2>1, <2>3 DEF files, TypeOK
  <2> QED BY <2>2, <2>3
<1>6. ASSUME UNCHANGED <<files, pc, req, items, server, crashes>>, NEW q \in Requests
      PROVE  New(q)'
  BY <1>3, <1>6 DEF files
<1>7. \A q \in Requests : New(q)'
  BY <1>4, <1>5, <1>6, NextCases
<1> QED BY <1>2, <1>7 DEF NewIds

(* A decision that is one of its operation's transitions is held until it is saved. *)
LEMMA SaveHeld ==
  ASSUME TypeOK, Handlers, NEW r \in Requests, pc[r] = "load", Readable, NEW rec, Save(r, rec),
         Transition(req[r].op, Stored(r).status, rec.status)
  PROVE  Held(r)'
<1>1. Established(r) /\ data[live] \in Store /\ req[r].a \in Approvals
  BY StoredIsRecord DEF Handlers
<1>2. /\ pc'[r] = "open" /\ UNCHANGED req
      /\ items'[r][req[r].a] = rec
      /\ \A a \in Approvals \ {req[r].a} : items'[r][a] = data[live][a]
  BY <1>1, SaveMine
<1>3. data'[live'] = data[live]
  BY DEF Save, files
<1> QED BY <1>2, <1>3 DEF Held, Stored, Mine

(* Every decision is one of its operation's transitions. *)
LEMMA DecisionHeld ==
  ASSUME TypeOK, Handlers, NewIds, NEW r \in Requests,
         \/ Create(r) \/ DenyOverdue(r) \/ ApproveSingle(r) \/ FirstStep(r) \/ SecondStep(r)
         \/ Deny(r) \/ LinkResult(r)
  PROVE  Held(r)'
<1>1. pc[r] = "load" /\ Readable
  BY DEF Create, DenyOverdue, ApproveSingle, FirstStep, SecondStep, Deny, LinkResult, Loads
<1>2. PICK old : old = Stored(r) /\ old \in Record
  BY <1>1, StoredIsRecord DEF Handlers
<1>3. CASE Create(r)
  <2>1. Save(r, Pending) /\ Transition(req[r].op, old.status, Pending.status)
    BY <1>1, <1>2, <1>3 DEF Create, Loads, NewIds, Stored, Transition, Pending, Absent
  <2> QED BY <1>1, <1>2, <2>1, SaveHeld
<1>4. CASE DenyOverdue(r) \/ Deny(r)
  <2> DEFINE rec == [old EXCEPT !.status = "denied"]
  <2>1. Save(r, rec) /\ req[r].op \in {"approve", "deny"} /\ old.status \in Open
    BY <1>2, <1>4 DEF DenyOverdue, Deny, Loads, Overdue
  <2>2. rec.status = "denied"
    BY <1>2
  <2>3. Transition(req[r].op, old.status, rec.status)
    BY <2>1, <2>2 DEF Transition
  <2> QED BY <1>1, <1>2, <2>1, <2>3, SaveHeld
<1>5. CASE ApproveSingle(r)
  <2> DEFINE rec == [old EXCEPT !.status = "approved"]
  <2>1. Save(r, rec) /\ req[r].op = "approve" /\ old.status = "pending"
    BY <1>2, <1>5 DEF ApproveSingle, Loads
  <2>2. rec.status = "approved"
    BY <1>2
  <2>3. Transition(req[r].op, old.status, rec.status)
    BY <2>1, <2>2 DEF Transition
  <2> QED BY <1>1, <1>2, <2>1, <2>3, SaveHeld
<1>6. CASE FirstStep(r)
  <2> DEFINE rec == [old EXCEPT !.status = "awaiting_double_confirm", !.first = req[r].user]
  <2>1. Save(r, rec) /\ req[r].op = "approve" /\ old.status = "pending"
    BY <1>2, <1>6 DEF FirstStep, Loads
  <2>2. rec.status = "awaiting_double_confirm"
    BY <1>2
  <2>3. Transition(req[r].op, old.status, rec.status)
    BY <2>1, <2>2 DEF Transition
  <2> QED BY <1>1, <1>2, <2>1, <2>3, SaveHeld
<1>7. CASE SecondStep(r)
  <2> DEFINE rec == [old EXCEPT !.status = "approved", !.second = req[r].user]
  <2>1. Save(r, rec) /\ req[r].op = "confirm" /\ old.status = "awaiting_double_confirm"
    BY <1>2, <1>7 DEF SecondStep, Loads
  <2>2. rec.status = "approved"
    BY <1>2
  <2>3. Transition(req[r].op, old.status, rec.status)
    BY <2>1, <2>2 DEF Transition
  <2> QED BY <1>1, <1>2, <2>1, <2>3, SaveHeld
<1>8. CASE LinkResult(r)
  <2> DEFINE rec == [old EXCEPT !.execution = req[r].out]
  <2>1. Save(r, rec) /\ req[r].op = "result" /\ old.status = "approved"
    BY <1>2, <1>8 DEF LinkResult, Loads
  <2>2. rec.status = "approved"
    BY <1>2, <2>1
  <2>3. Transition(req[r].op, old.status, rec.status)
    BY <2>1, <2>2 DEF Transition
  <2> QED BY <1>1, <1>2, <2>1, <2>3, SaveHeld
<1> QED BY <1>3, <1>4, <1>5, <1>6, <1>7, <1>8

(* Published, the decision is in the store. *)
LEMMA PublishHeld ==
  ASSUME TypeOK, Handlers, FilesApart, Lists, NEW r \in Requests, PublishStore(r) PROVE Held(r)'
<1>1. /\ pc[r] = "publish" /\ pc'[r] = AfterSave(r) /\ UNCHANGED <<req, items>>
      /\ data'[live'] = items[r]
  BY PublishApart
<1>2. Transition(req[r].op, Stored(r).status, Mine(r).status) /\ Established(r)
  BY <1>1 DEF Lists, Held, Handlers
<1>3. Stored(r)' = Mine(r)' /\ Mine(r)' = Mine(r)
  BY <1>1 DEF Stored, Mine
<1>4. CASE req[r].op \in {"create", "result"}
  <2>1. pc'[r] \in {"show", "done"}
    BY <1>1, <1>4 DEF AfterSave
  <2> QED BY <2>1 DEF Held
<1>5. CASE req[r].op \in {"approve", "confirm", "deny"}
  <2>1. /\ pc'[r] \in {"seek", "audit"}
        /\ Mine(r).status \in {"approved", "denied", "awaiting_double_confirm"}
    BY <1>1, <1>2, <1>5 DEF AfterSave, Transition
  <2> QED BY <1>3, <2>1 DEF Held
<1> QED BY <1>2, <1>4, <1>5 DEF Transition

(* Every step of a handler holds what the next one needs. *)
LEMMA StepHeld ==
  ASSUME TypeOK, Handlers, FilesApart, NewIds, Lists, NEW r \in Requests, Step(r) \/ Crash(r)
  PROVE  Held(r)'
<1>1. Held(r) /\ Established(r)
  BY DEF Lists, Handlers
<1>2. CASE ReadFails(r) \/ Check(r) \/ Answer(r)
  BY <1>2 DEF ReadFails, Check, Answer, TypeOK, Held
<1>3. CASE OpenStore(r) \/ DumpStore(r)
  <2>1. /\ pc[r] \in {"open", "dump"} /\ pc'[r] \in {"dump", "publish"}
        /\ UNCHANGED <<req, items>> /\ data'[live'] = data[live]
    BY <1>3, OpenApart, DumpApart DEF OpenStore, DumpStore
  <2> QED BY <1>1, <2>1 DEF Held, Stored, Mine
<1>4. CASE SeekTicket(r) \/ OpenTicket(r)
  BY <1>1, <1>4 DEF SeekTicket, OpenTicket, files, TypeOK, Held, Stored, Mine
<1>5. CASE Audit(r) \/ FindJob(r) \/ InsertJob(r)
  BY <1>5 DEF Audit, FindJob, InsertJob, Finish, TypeOK, Held
<1>6. CASE ClearSurface(r) \/ Show(r) \/ Crash(r)
  BY <1>6 DEF ClearSurface, Show, Crash, TypeOK, Held
<1> QED BY <1>2, <1>3, <1>4, <1>5, <1>6, DecisionHeld, PublishHeld DEF Step

(* What one request holds, the steps of another leave to it. *)
LEMMA HeldStays ==
  ASSUME TypeOK, Handlers, FilesApart, Lists, EditsApart, [Next]_vars, NEW q \in Requests,
         UNCHANGED <<pc[q], req[q], items[q]>>
  PROVE  Held(q)'
<1>1. Held(q) /\ Established(q)
  BY DEF Lists, Handlers
<1>2. Mine(q)' = Mine(q)
  BY DEF Mine
<1>3. CASE Editing(q)
  <2>1. \A r \in Requests : pc[r] = "publish" => r = q
    BY <1>3 DEF EditsApart
  <2>2. CASE data'[live'] = data[live]
    BY <1>1, <1>2, <1>3, <2>2 DEF Held, Stored
  <2>3. ASSUME NEW r \in Requests, pc[r] = "publish", pc'[r] = AfterSave(r) PROVE FALSE
    <3>1. r = q /\ pc'[q] = "publish"
      BY <2>1, <2>3
    <3> QED BY <2>3, <3>1 DEF AfterSave
  <2> QED BY <2>2, <2>3, StoreMoves
<1>4. CASE Auditing(q)
  <2>1. /\ Stored(q).status = Mine(q).status /\ Mine(q).status \in {"approved", "denied"}
        /\ req[q].a \in Approvals
    BY <1>1, <1>4 DEF Auditing, Held, Established
  <2>2. ASSUME NEW op, NEW after, Transition(op, Stored(q).status, after)
        PROVE  after = Stored(q).status
    BY <2>1, <2>2 DEF Transition, Open
  <2>3. Stored(q)'.status = Stored(q).status
    BY <2>1, <2>2, StatusMoves DEF Stored
  <2> QED BY <1>2, <1>4, <2>1, <2>3 DEF Held, Auditing
<1>5. CASE ~Editing(q) /\ ~Auditing(q)
  BY <1>1, <1>2, <1>5 DEF Held, Auditing
<1> QED BY <1>3, <1>4, <1>5

(* Every step of the system keeps it so. *)
LEMMA NextLists ==
  ASSUME TypeOK, Handlers, FilesApart, NewIds, Lists, EditsApart, [Next]_vars PROVE Lists'
<1>1. ASSUME NEW r \in Requests, Step(r) \/ Crash(r), NEW q \in Requests PROVE Held(q)'
  <2>1. CASE q = r
    BY <1>1, <2>1, StepHeld
  <2>2. CASE q # r
    BY <1>1, <2>2, OthersRest, HeldStays
  <2> QED BY <2>1, <2>2
<1>2. ASSUME NEW r \in Requests, NEW a, NEW op, NEW u, NEW out, NEW step \in {"check", "load"},
             Arrive(r, op, a, u, out, step), NEW q \in Requests
      PROVE  Held(q)'
  BY <1>2 DEF Arrive, files, TypeOK, Lists, Held, Stored, Mine
<1>3. ASSUME UNCHANGED <<files, pc, req, items, server, crashes>>, NEW q \in Requests
      PROVE  Held(q)'
  BY <1>3 DEF files, server, Lists, Held, Stored, Mine
<1> QED BY <1>1, <1>2, <1>3, NextCases DEF Lists

-----------------------------------------------------------------------------

(* The audit log gets an event only from the request that audits. *)
LEMMA EventsMove ==
  ASSUME [Next]_vars PROVE UNCHANGED events \/ \E r \in Requests : Audit(r)
<1>1. ASSUME NEW r \in Requests, Step(r) \/ Crash(r) PROVE UNCHANGED events \/ Audit(r)
  BY <1>1 DEF Step, ReadFails, Check, Create, DenyOverdue, ApproveSingle, FirstStep, SecondStep,
              Deny, LinkResult, Answer, OpenStore, DumpStore, PublishStore, SeekTicket, OpenTicket,
              FindJob, InsertJob, ClearSurface, Show, Crash, Save, server
<1>2. ASSUME NEW r, NEW op, NEW a, NEW u, NEW out, NEW step, Arrive(r, op, a, u, out, step)
      PROVE  UNCHANGED events
  BY <1>2 DEF Arrive
<1>3. CASE UNCHANGED <<files, pc, req, items, server, crashes>>
  BY <1>3 DEF server
<1> QED BY <1>1, <1>2, <1>3, NextCases

(* What the request that audits finds. *)
LEMMA AuditHolds ==
  ASSUME TypeOK, Handlers, Lists, Resolutions, NEW r \in Requests, Audit(r)
  PROVE  /\ pc[r] = "audit" /\ pc'[r] \notin {"seek", "ticket", "audit"}
         /\ UNCHANGED <<live, data, req, items>>
         /\ \/ UNCHANGED events
            \/ /\ req[r].a \in Approvals /\ events' = [events EXCEPT ![req[r].a] = @ + 1]
               /\ events[req[r].a] = 0
               /\ data[live][req[r].a].status \in {"approved", "denied"}
<1>1. /\ pc[r] = "audit" /\ req[r].a \in Approvals
      /\ Mine(r).status \in {"approved", "denied", "awaiting_double_confirm"}
      /\ Mine(r).status # "awaiting_double_confirm" => Stored(r).status = Mine(r).status
  BY DEF Audit, Lists, Held, Handlers, Established
<1>2. pc'[r] \notin {"seek", "ticket", "audit"} /\ UNCHANGED <<live, data, req, items>>
  BY DEF Audit, Finish, files, TypeOK
<1>3. CASE Mine(r).status = "awaiting_double_confirm"
  BY <1>1, <1>2, <1>3 DEF Audit
<1>4. CASE Mine(r).status \in {"approved", "denied"}
  BY <1>1, <1>2, <1>4 DEF Audit, Resolutions, Auditing, Stored
<1> QED BY <1>1, <1>3, <1>4

(* One resolution of each approval, and only of one that is resolved. *)
LEMMA NextEvents ==
  ASSUME TypeOK, Handlers, FilesApart, Lists, Resolutions, [Next]_vars, NEW a \in Approvals
  PROVE  events'[a] <= 1 /\ (events'[a] > 0 => data'[live'][a].status \in {"approved", "denied"})
<1>1. /\ events[a] \in Nat /\ events[a] <= 1
      /\ events[a] > 0 => data[live][a].status \in {"approved", "denied"}
  BY DEF Resolutions, TypeOK
<1>2. CASE UNCHANGED events
  <2>1. ASSUME data[live][a].status \in {"approved", "denied"},
               NEW op, NEW after, Transition(op, data[live][a].status, after)
        PROVE  after = "approved"
    BY <2>1 DEF Transition, Open
  <2>2. data[live][a].status \in {"approved", "denied"} =>
          data'[live'][a].status \in {"approved", "denied"}
    BY <2>1, StatusMoves
  <2> QED BY <1>1, <1>2, <2>2
<1>3. ASSUME NEW r \in Requests, Audit(r), events' # events
      PROVE  events'[a] <= 1
             /\ (events'[a] > 0 => data'[live'][a].status \in {"approved", "denied"})
  <2>1. /\ data'[live'] = data[live]
        /\ req[r].a \in Approvals /\ events' = [events EXCEPT ![req[r].a] = @ + 1]
        /\ events[req[r].a] = 0
        /\ data[live][req[r].a].status \in {"approved", "denied"}
    BY <1>3, AuditHolds
  <2> QED BY <1>1, <2>1 DEF TypeOK
<1> QED BY <1>2, <1>3, EventsMove

(* How a request comes to audit the resolution of an approval. *)
LEMMA AuditingFrom ==
  ASSUME TypeOK, Handlers, FilesApart, Lists, NEW r \in Requests, Step(r) \/ Crash(r), Auditing(r)'
  PROVE  /\ UNCHANGED <<req, items, events>> /\ req[r].a \in Approvals
         /\ \/ Auditing(r)
            \/ data[live][req[r].a].status \in Open
<1>1. CASE PublishStore(r)
  <2>1. /\ pc[r] = "publish" /\ pc'[r] = AfterSave(r) /\ UNCHANGED <<req, items, events>>
        /\ data'[live'] = items[r]
    BY <1>1, PublishApart DEF server
  <2>2. /\ Transition(req[r].op, Stored(r).status, Mine(r).status)
        /\ req[r].op \notin {"create", "result"} /\ req[r].a \in Approvals
    BY <2>1 DEF Auditing, Lists, Held, Handlers, Established, AfterSave
  <2> QED BY <2>1, <2>2 DEF Transition, Open, Stored
<1>2. CASE SeekTicket(r) \/ OpenTicket(r)
  <2>1. pc[r] \in {"seek", "ticket"} /\ UNCHANGED <<req, items, events>>
    BY <1>2 DEF SeekTicket, OpenTicket, server
  <2> QED BY <2>1 DEF Auditing, Mine, Handlers, Established
<1>3. CASE ~(PublishStore(r) \/ SeekTicket(r) \/ OpenTicket(r))
  <2>1. pc'[r] \notin {"seek", "ticket", "audit"}
    <3>1. CASE ReadFails(r) \/ Check(r) \/ Answer(r)
      BY <3>1 DEF ReadFails, Check, Answer, TypeOK
    <3>2. CASE \/ Create(r) \/ DenyOverdue(r) \/ ApproveSingle(r) \/ FirstStep(r)
               \/ SecondStep(r) \/ Deny(r) \/ LinkResult(r)
      <4>1. PICK rec : Save(r, rec)
        BY <3>2 DEF Create, DenyOverdue, ApproveSingle, FirstStep, SecondStep, Deny, LinkResult
      <4> QED BY <4>1 DEF Save, TypeOK
    <3>3. CASE OpenStore(r) \/ DumpStore(r) \/ Audit(r) \/ FindJob(r)
      BY <3>3 DEF OpenStore, DumpStore, Audit, FindJob, Finish, TypeOK
    <3>4. CASE InsertJob(r) \/ ClearSurface(r) \/ Show(r) \/ Crash(r)
      BY <3>4 DEF InsertJob, ClearSurface, Show, Crash, Finish, TypeOK
    <3> QED BY <1>3, <3>1, <3>2, <3>3, <3>4 DEF Step
  <2> QED BY <2>1 DEF Auditing
<1> QED BY <1>1, <1>2, <1>3

(* The store says of an approval whose resolution is being audited that it is resolved. *)
LEMMA AuditingResolved ==
  ASSUME Lists, NEW r \in Requests, Auditing(r) PROVE data[live][req[r].a].status \notin Open
BY DEF Lists, Held, Auditing, Stored, Open

(* The one request that resolves an approval finds its audit log empty. *)
LEMMA NextResolutions ==
  ASSUME TypeOK, Handlers, FilesApart, Lists, Resolutions, [Next]_vars PROVE Resolutions'
<1> DEFINE Alone(r) == /\ events[req[r].a] = 0
                       /\ \A q \in Requests : Auditing(q) /\ req[q].a = req[r].a => q = r
<1>1. \A r \in Requests : Auditing(r) => Alone(r)
  BY DEF Resolutions
<1>2. ASSUME NEW r \in Requests, Step(r) \/ Crash(r), NEW q \in Requests, Auditing(q)'
      PROVE  Alone(q)'
  <2>1. \A p \in Requests \ {r} : Auditing(p)' <=> Auditing(p)
    BY <1>2, OthersRest DEF Auditing, Mine
  <2>2. UNCHANGED req
    BY <1>2, OthersRest
  <2>3. CASE Auditing(r)'
    <3>1. /\ UNCHANGED <<req, items, events>> /\ req[r].a \in Approvals
          /\ Auditing(r) \/ data[live][req[r].a].status \in Open
      BY <1>2, <2>3, AuditingFrom
    <3>2. Alone(r)
      <4>1. CASE Auditing(r)
        BY <1>1, <4>1
      <4>2. CASE data[live][req[r].a].status \in Open
        <5>1. \A p \in Requests : Auditing(p) => req[p].a # req[r].a
          BY <4>2, AuditingResolved
        <5>2. events[req[r].a] = 0
          BY <3>1, <4>2 DEF Resolutions, TypeOK, Open
        <5> QED BY <5>1, <5>2
      <4> QED BY <3>1, <4>1, <4>2
    <3> QED BY <1>1, <1>2, <2>1, <3>1, <3>2
  <2>4. CASE ~Auditing(r)'
    <3>1. q # r /\ Auditing(q)
      BY <1>2, <2>1, <2>4
    <3>2. events'[req[q].a] = 0
      <4>1. CASE UNCHANGED events
        BY <1>1, <3>1, <4>1
      <4>2. ASSUME NEW p \in Requests, Audit(p), events' # events PROVE events'[req[q].a] = 0
        <5>1. /\ req[p].a \in Approvals /\ events' = [events EXCEPT ![req[p].a] = @ + 1]
              /\ Auditing(p) /\ ~Auditing(p)'
          BY <4>2, AuditHolds DEF Audit, Auditing
        <5>2. p # q
          BY <1>2, <5>1
        <5>3. req[p].a # req[q].a
          BY <1>1, <3>1, <5>1, <5>2
        <5> QED BY <1>1, <3>1, <5>1, <5>3 DEF TypeOK
      <4> QED BY <4>1, <4>2, EventsMove
    <3> QED BY <1>1, <2>1, <2>2, <2>4, <3>1, <3>2
  <2> QED BY <2>3, <2>4
<1>3. ASSUME NEW r \in Requests, NEW a, NEW op, NEW u, NEW out, NEW step \in {"check", "load"},
             Arrive(r, op, a, u, out, step), NEW q \in Requests, Auditing(q)'
      PROVE  Alone(q)'
  <2>1. pc' = [pc EXCEPT ![r] = step] /\ UNCHANGED <<items, events>>
        /\ \A p \in Requests \ {r} : req'[p] = req[p]
    BY <1>3 DEF Arrive, TypeOK
  <2>2. ~Auditing(r)' /\ \A p \in Requests \ {r} : Auditing(p)' <=> Auditing(p)
    BY <2>1 DEF Auditing, Mine, TypeOK
  <2> QED BY <1>1, <1>3, <2>1, <2>2
<1>4. ASSUME UNCHANGED <<files, pc, req, items, server, crashes>>, NEW q \in Requests, Auditing(q)'
      PROVE  Alone(q)'
  BY <1>1, <1>4 DEF server, Auditing, Mine
<1>5. \A q \in Requests : Auditing(q)' => Alone(q)'
  BY <1>2, <1>3, <1>4, NextCases
<1>6. \A a \in Approvals :
        events'[a] <= 1 /\ (events'[a] > 0 => data'[live'][a].status \in {"approved", "denied"})
  BY NextEvents
<1> QED BY <1>5, <1>6 DEF Resolutions

-----------------------------------------------------------------------------

(* While saves are apart, so are the files. *)
LEMMA FilesAlways == Spec => ([]SavesApart => []FilesApart)
<1>1. Init => FilesApart
  <2> SUFFICES ASSUME Init PROVE FilesApart
    OBVIOUS
  <2>1. \A r \in Requests : pc[r] = "idle" /\ live = Initial /\ tmp = NoFile
    BY DEF Init, StoreInit
  <2>2. live = Initial /\ tmp = NoFile /\ data[live] \in Store
    BY Constants DEF Init, StoreInit, Store
  <2> QED BY <2>1, <2>2 DEF FilesApart
<1> QED BY <1>1, NextFiles, AllBackedAlways, PTL DEF Spec

(* While edits are apart, every list about to be saved is up to date. *)
LEMMA ApartAlways == Spec => ([]EditsApart => [](FilesApart /\ ApartInv))
<1>1. Init => ApartInv
  <2> SUFFICES ASSUME Init PROVE ApartInv
    OBVIOUS
  <2>1. \A r \in Requests : pc[r] = "idle" /\ req[r] = NoRequest
    BY DEF Init
  <2>2. /\ live = Initial
        /\ data[live] = [a \in Approvals |-> IF a \in Existing THEN Pending ELSE Absent]
        /\ events = [a \in Approvals |-> 0]
    BY DEF Init, StoreInit
  <2>3. NewIds
    BY <2>1, <2>2 DEF NewIds, NoRequest, Absent
  <2>4. Lists /\ Resolutions
    BY <2>1, <2>2 DEF Lists, Held, Resolutions, Auditing
  <2> QED BY <2>3, <2>4 DEF ApartInv
<1>2. TypeOK /\ Handlers /\ FilesApart /\ ApartInv /\ EditsApart /\ [Next]_vars => ApartInv'
  BY NextNewIds, NextLists, NextResolutions DEF ApartInv
<1>3. EditsApart => SavesApart
  BY DEF EditsApart, SavesApart
<1> QED BY <1>1, <1>2, <1>3, FilesAlways, AllBackedAlways, PTL DEF Spec

(* The store can always be parsed unless two saves overlap: a request that is cut *)
(* off half-way leaves at most a file beside it, which the next save empties      *)
(* before it is published.                                                        *)
THEOREM ReadableSafety == Spec => ([]SavesApart => []StoreReadable)
<1>1. FilesApart => StoreReadable
  BY DocumentsAssumption DEF FilesApart, StoreReadable
<1> QED BY <1>1, FilesAlways, PTL

(* Unless one handler loads the list while another is yet to publish the one it  *)
(* loaded, a decision is final and no approval disappears from the store: of all *)
(* that overlapping handlers do, the stale list alone loses decisions.           *)
THEOREM FinalSafety == Spec => ([]EditsApart => DecisionIsFinal)
<1>1. TypeOK /\ FilesApart /\ ApartInv /\ [Next]_vars =>
        [\A a \in Approvals :
           LET before == data[live][a].status  after == data'[live'][a].status
           IN  /\ before \in {"approved", "denied"} => after = before
               /\ before # "absent" => after # "absent"
               /\ before = "awaiting_double_confirm" => after # "pending"]_vars
  <2> SUFFICES ASSUME TypeOK, FilesApart, ApartInv, [Next]_vars, NEW a \in Approvals
               PROVE  LET before == data[live][a].status  after == data'[live'][a].status
                      IN  /\ before \in {"approved", "denied"} => after = before
                          /\ before # "absent" => after # "absent"
                          /\ before = "awaiting_double_confirm" => after # "pending"
    OBVIOUS
  <2> QED BY StatusMoves DEF ApartInv, Transition, Open
<1> QED BY <1>1, ApartAlways, AllBackedAlways, PTL DEF Spec, DecisionIsFinal

(* Under the same condition a double click is audited once: of two requests that *)
(* approve or deny an approval, in whatever other steps they overlap, the second *)
(* finds it resolved.                                                            *)
THEOREM ResolutionSafety == Spec => ([]EditsApart => []OneResolution)
<1>1. ApartInv => OneResolution
  BY DEF ApartInv, Resolutions, OneResolution
<1> QED BY <1>1, ApartAlways, PTL
=============================================================================
