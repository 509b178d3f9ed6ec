------------------------ MODULE PolicyBundlesProofs -------------------------
(* Proofs of the invariants of PolicyBundles, for any number of requests    *)
(* that overlap statement by statement and stop anywhere.                   *)
EXTENDS PolicyBundles, FiniteSetTheorems, TLAPS

Status(b) == bundle[b].status
Whole(b) == repoRules[b] = {b} /\ toolRules[b] = {b}

(* The shape of the records, but for the version numbers, which the other   *)
(* parts do not depend on.                                                  *)
Shape ==
  /\ DOMAIN bundle = Requests /\ DOMAIN request = Requests
  /\ \A b \in Requests :
       bundle[b] \in [status : {"absent", "draft", "published"}, version : {bundle[b].version}]
  /\ \A r \in Requests :
       request[r] \in [at : {"new", "numbered", "checked", "cleared_repo", "cleared",
                             "wrote_repo", "activating", "done"},
                       op : {"none", "publish", "create_draft", "update_draft",
                             "publish_draft", "rollback"},
                       target : Requests \cup {NoBundle},
                       version : {request[r].version}]
  /\ repoRules \in [Requests -> SUBSET Requests] /\ toolRules \in [Requests -> SUBSET Requests]
  /\ active \in [bundle : Requests \cup {NoBundle}, by : Activations]
  /\ reader \in [at : {"idle", "picked", "read_repo"}, bundle : Requests \cup {NoBundle},
                 repo : SUBSET Requests, by : Activations]

(* A bundle is inserted by the request it is named by, and a draft by one   *)
(* that creates drafts.                                                     *)
Inserted ==
  \A r \in Requests :
    /\ request[r].at = "new" => request[r].op = "none"
    /\ request[r].at \in {"new", "numbered"} => Status(r) = "absent"
    /\ Status(r) = "draft" => request[r].op = "create_draft"

(* What is activated, or about to be, is published.                         *)
Activated ==
  /\ \A r \in Requests :
       request[r].at = "activating" =>
         /\ request[r].op \in Activations
         /\ request[r].target \in Requests /\ Status(request[r].target) = "published"
  /\ ActiveIsPublished

(* A request that writes rules writes those of the bundle it publishes, or  *)
(* of one that was created as a draft.                                      *)
Writers ==
  \A r \in Requests :
    request[r].at \in {"numbered", "checked", "cleared_repo", "cleared", "wrote_repo"} =>
      \/ /\ request[r].op = "publish" /\ request[r].target = r
         /\ request[r].at \in {"numbered", "cleared", "wrote_repo"}
         /\ request[r].at # "numbered" => Status(r) = "published"
      \/ /\ request[r].op \in {"create_draft", "update_draft"}
         /\ request[r].at = "numbered" => request[r].target = r
         /\ request[r].target \in Requests
         /\ request[request[r].target].op = "create_draft"

(* The rules of a bundle that is being published.                           *)
Rules ==
  \A b \in Requests :
    request[b].op \in {"none", "publish"} =>
      /\ request[b].at \in {"new", "numbered", "cleared"} => repoRules[b] = {} /\ toolRules[b] = {}
      /\ request[b].at = "wrote_repo" => repoRules[b] = {b} /\ toolRules[b] = {}
      /\ request[b].at = "activating" => request[b].target = b /\ Whole(b)

Finished(b) == b \in Requests /\ request[b].op = "publish" /\ request[b].at = "done" /\ Whole(b)

(* What publish_policy_bundle activated is finished, and so is what the     *)
(* loader has picked of it.                                                 *)
Decided ==
  /\ active.by = "publish" => Finished(active.bundle)
  /\ reader.at # "idle" => reader.bundle \in Requests
  /\ reader.at # "idle" /\ reader.by = "publish" => Finished(reader.bundle)
  /\ reader.at = "read_repo" /\ reader.by = "publish" => reader.repo = {reader.bundle}

PolicyInv == Shape /\ Inserted /\ Activated /\ Writers /\ Rules /\ Decided

LEMMA PolicyStart == PolicyInit => PolicyInv
BY PolicyAssumption
   DEF PolicyInit, PolicyInv, Shape, Inserted, Activated, Writers, Rules, Decided, Whole, Status,
       NewRequest, NoReader, Activations, ActiveIsPublished

Ops == {"none", "publish", "create_draft", "update_draft", "publish_draft", "rollback"}

(* Request r stands at `at` and nothing else of the requests changes.       *)
Moves(r, at) ==
  /\ DOMAIN request' = Requests
  /\ request'[r].at = at /\ request'[r].op = request[r].op
  /\ request'[r].target = request[r].target
  /\ \A q \in Requests : q # r => request'[q] = request[q]

LEMMA Going ==
  ASSUME Shape, NEW r \in Requests, NEW at, RequestGoes(r, at)
  PROVE  /\ Moves(r, at)
         /\ request'[r] \in [at : {at}, op : Ops, target : Requests \cup {NoBundle},
                             version : {request'[r].version}]
BY DEF RequestGoes, Moves, Shape, Ops

LEMMA ShapeKept ==
  ASSUME Shape, NEW r \in Requests,
         NEW at \in {"cleared_repo", "cleared", "wrote_repo", "activating", "done"},
         RequestGoes(r, at), UNCHANGED <<bundle, active, reader>>,
         repoRules' \in [Requests -> SUBSET Requests], toolRules' \in [Requests -> SUBSET Requests]
  PROVE  Shape'
<1>1. Moves(r, at)
  BY Going
<1>2. request'[r] \in [at : {"cleared_repo", "cleared", "wrote_repo", "activating", "done"},
                       op : Ops, target : Requests \cup {NoBundle},
                       version : {request'[r].version}]
  BY Going
<1> QED BY <1>1, <1>2 DEF Shape, Moves, Ops

LEMMA Abandoned ==
  ASSUME PolicyInv, NEW r \in Requests, RequestGoes(r, "done"),
         UNCHANGED <<bundle, repoRules, toolRules, active, reader>>
  PROVE  PolicyInv'
<1>1. Moves(r, "done")
  BY Going DEF PolicyInv
<1>2. Shape'
  BY ShapeKept DEF PolicyInv, Shape
<1>3. Inserted'
  BY <1>1 DEF PolicyInv, Inserted, Status, Moves
<1>4. Activated'
  BY <1>1 DEF PolicyInv, Activated, Status, ActiveIsPublished, Moves
<1>5. Writers'
  BY <1>1 DEF PolicyInv, Writers, Status, Moves
<1>6. Rules'
  BY <1>1 DEF PolicyInv, Rules, Whole, Moves
<1>7. Decided'
  BY <1>1 DEF PolicyInv, Decided, Finished, Whole, Moves
<1> QED BY <1>2, <1>3, <1>4, <1>5, <1>6, <1>7 DEF PolicyInv

(* A request that writes the rules of a draft touches no other bundle's.    *)
LEMMA DraftStep ==
  ASSUME PolicyInv, NEW r \in Requests,
         NEW at \in {"cleared_repo", "cleared", "wrote_repo", "done"}, RequestGoes(r, at),
         request[r].at \in {"checked", "cleared_repo", "cleared", "wrote_repo"},
         request[r].op # "publish",
         UNCHANGED <<bundle, active, reader>>,
         repoRules' \in [Requests -> SUBSET Requests], toolRules' \in [Requests -> SUBSET Requests],
         \A c \in Requests \ {request[r].target} :
           repoRules'[c] = repoRules[c] /\ toolRules'[c] = toolRules[c]
  PROVE  PolicyInv'
<1> DEFINE b == request[r].target
<1>1. Moves(r, at)
  BY Going DEF PolicyInv
<1>2. /\ b \in Requests /\ request[r].op \in {"create_draft", "update_draft"}
      /\ request[b].op = "create_draft"
  BY DEF PolicyInv, Writers
<1>3. request'[b].op = "create_draft" /\ request'[r].target = b
  BY <1>1, <1>2 DEF Moves
<1> HIDE DEF b
<1>4. \A c \in Requests : c # b => repoRules'[c] = repoRules[c] /\ toolRules'[c] = toolRules[c]
  BY DEF b
<1>5. Shape'
  BY ShapeKept DEF PolicyInv, Shape
<1>6. Inserted'
  BY <1>1 DEF PolicyInv, Inserted, Status, Moves
<1>7. Activated'
  BY <1>1 DEF PolicyInv, Activated, Status, ActiveIsPublished, Moves
<1>8. Writers'
  BY <1>1, <1>2, <1>3 DEF PolicyInv, Writers, Status, Moves
<1>9. Rules'
  BY <1>1, <1>2, <1>3, <1>4 DEF PolicyInv, Rules, Whole, Moves
<1>10. Decided'
  BY <1>1, <1>2, <1>3, <1>4 DEF PolicyInv, Decided, Finished, Whole, Moves
<1> QED BY <1>5, <1>6, <1>7, <1>8, <1>9, <1>10 DEF PolicyInv

LEMMA PolicyStep == PolicyInv /\ [PolicyNext]_policyVars => PolicyInv'
<1> SUFFICES ASSUME PolicyInv, [PolicyNext]_policyVars PROVE PolicyInv'
  OBVIOUS
<1> USE PolicyAssumption
<1>1. ASSUME NEW r \in Requests, NEW op \in {"publish", "create_draft"}, NumberBundle(r, op)
      PROVE  PolicyInv'
  <2> DEFINE rec == [at |-> "numbered", op |-> op, target |-> r, version |-> NextVersion]
  <2>1. /\ request[r].at = "new" /\ request' = [request EXCEPT ![r] = rec]
        /\ UNCHANGED <<bundle, repoRules, toolRules, active, reader>>
        /\ rec.at = "numbered" /\ rec.op = op /\ rec.target = r
        /\ rec \in [at : {"numbered"}, op : {"publish", "create_draft"}, target : Requests,
                    version : {rec.version}]
    BY <1>1 DEF NumberBundle
  <2> HIDE DEF rec
  <2>2. Shape'
    BY <2>1 DEF PolicyInv, Shape
  <2>3. Inserted' /\ Activated'
    BY <2>1 DEF PolicyInv, Shape, Inserted, Activated, Status, ActiveIsPublished
  <2>4. Writers'
    BY <2>1 DEF PolicyInv, Shape, Inserted, Writers, Status
  <2>5. Rules' /\ Decided'
    BY <2>1 DEF PolicyInv, Shape, Inserted, Rules, Decided, Finished, Whole
  <2> QED BY <2>2, <2>3, <2>4, <2>5 DEF PolicyInv
<1>2. ASSUME NEW r \in Requests, InsertBundle(r) PROVE PolicyInv'
  <2>1. CASE \E b \in Requests : bundle[b].version = request[r].version
    <3>1. RequestGoes(r, "done") /\ UNCHANGED <<bundle, repoRules, toolRules, active, reader>>
      BY <1>2, <2>1 DEF InsertBundle
    <3> QED BY <3>1, Abandoned
  <2>2. CASE ~\E b \in Requests : bundle[b].version = request[r].version
    <3> DEFINE rec == [status |-> IF request[r].op = "publish" THEN "published" ELSE "draft",
                       version |-> request[r].version]
    <3>1. /\ request[r].at = "numbered" /\ request[r].target = r
          /\ bundle' = [bundle EXCEPT ![r] = rec] /\ RequestGoes(r, "cleared")
          /\ UNCHANGED <<repoRules, toolRules, active, reader>>
          /\ rec \in [status : {"draft", "published"}, version : {rec.version}]
          /\ IF request[r].op = "publish" THEN rec.status = "published"
             ELSE request[r].op = "create_draft" /\ rec.status = "draft"
          /\ Status(r) = "absent"
      BY <1>2, <2>2 DEF InsertBundle, PolicyInv, Inserted, Writers
    <3> HIDE DEF rec
    <3>2. Moves(r, "cleared") /\ request'[r] \in [at : {"cleared"}, op : Ops,
            target : Requests \cup {NoBundle}, version : {request'[r].version}]
      BY <3>1, Going DEF PolicyInv
    <3>3. Shape'
      BY <3>1, <3>2 DEF PolicyInv, Shape, Moves, Ops
    <3>4. Inserted' /\ Activated'
      <4>1. Inserted'
        BY <3>1, <3>2 DEF PolicyInv, Shape, Inserted, Status, Moves
      <4>2. Activated'
        BY <3>1, <3>2 DEF PolicyInv, Shape, Activated, Status, ActiveIsPublished, Moves
      <4> QED BY <4>1, <4>2
    <3>5. Writers'
      BY <3>1, <3>2 DEF PolicyInv, Shape, Writers, Status, Moves
    <3>6. Rules'
      BY <3>1, <3>2 DEF PolicyInv, Rules, Whole, Moves
    <3>7. Decided'
      BY <3>1, <3>2 DEF PolicyInv, Decided, Finished, Whole, Moves
    <3> QED BY <3>3, <3>4, <3>5, <3>6, <3>7 DEF PolicyInv
  <2> QED BY <2>1, <2>2
<1>3. ASSUME NEW r \in Requests, NEW b \in Requests, CheckDraft(r, b) PROVE PolicyInv'
  <2> DEFINE rec == [at |-> "checked", op |-> "update_draft", target |-> b, version |-> 0]
  <2>1. /\ request[r].at = "new" /\ request' = [request EXCEPT ![r] = rec] /\ Status(b) = "draft"
        /\ UNCHANGED <<bundle, repoRules, toolRules, active, reader>>
        /\ rec.at = "checked" /\ rec.op = "update_draft" /\ rec.target = b
        /\ rec \in [at : {"checked"}, op : {"update_draft"}, target : Requests,
                    version : {rec.version}]
    BY <1>3 DEF CheckDraft, TakesUp, Status
  <2> HIDE DEF rec
  <2>2. Shape'
    BY <2>1 DEF PolicyInv, Shape
  <2>3. Inserted' /\ Activated'
    BY <2>1 DEF PolicyInv, Shape, Inserted, Activated, Status, ActiveIsPublished
  <2>4. Writers'
    BY <2>1 DEF PolicyInv, Shape, Inserted, Writers, Status
  <2>5. Rules' /\ Decided'
    BY <2>1 DEF PolicyInv, Shape, Inserted, Rules, Decided, Finished, Whole
  <2> QED BY <2>2, <2>3, <2>4, <2>5 DEF PolicyInv
<1>4. ASSUME NEW r \in Requests, ClearRepoRules(r) \/ ClearToolRules(r) PROVE PolicyInv'
  <2>1. /\ \E at \in {"cleared_repo", "cleared"} : RequestGoes(r, at)
        /\ request[r].at \in {"checked", "cleared_repo"} /\ request[r].target \in Requests
        /\ request[r].op # "publish"
    BY <1>4 DEF ClearRepoRules, ClearToolRules, PolicyInv, Writers
  <2>2. /\ UNCHANGED <<bundle, active, reader>>
        /\ repoRules' \in [Requests -> SUBSET Requests]
        /\ toolRules' \in [Requests -> SUBSET Requests]
        /\ \A c \in Requests \ {request[r].target} :
             repoRules'[c] = repoRules[c] /\ toolRules'[c] = toolRules[c]
    BY <1>4, <2>1 DEF ClearRepoRules, ClearToolRules, PolicyInv, Shape
  <2> QED BY <2>1, <2>2, DraftStep
<1>5. ASSUME NEW r \in Requests, WriteRepoRules(r) PROVE PolicyInv'
  <2>1. CASE request[r].op # "publish"
    <3>1. /\ RequestGoes(r, "wrote_repo") /\ request[r].at = "cleared"
          /\ request[r].target \in Requests
      BY <1>5 DEF WriteRepoRules, PolicyInv, Writers
    <3>2. /\ UNCHANGED <<bundle, toolRules, active, reader>>
          /\ repoRules' \in [Requests -> SUBSET Requests]
          /\ \A c \in Requests \ {request[r].target} : repoRules'[c] = repoRules[c]
      BY <1>5, <3>1 DEF WriteRepoRules, PolicyInv, Shape
    <3> QED BY <2>1, <3>1, <3>2, DraftStep DEF PolicyInv, Shape
  <2>2. CASE request[r].op = "publish"
    <3>1. /\ request[r].at = "cleared" /\ request[r].target = r /\ Status(r) = "published"
          /\ repoRules[r] = {} /\ toolRules[r] = {}
      BY <1>5, <2>2 DEF WriteRepoRules, PolicyInv, Writers, Rules
    <3>2. /\ repoRules' = [repoRules EXCEPT ![r] = {r}]
          /\ UNCHANGED <<bundle, toolRules, active, reader>>
      BY <1>5, <3>1 DEF WriteRepoRules, PolicyInv, Shape
    <3>3. RequestGoes(r, "wrote_repo") /\ Moves(r, "wrote_repo")
      BY <1>5, <2>2, Going DEF WriteRepoRules, PolicyInv
    <3>4. Shape'
      BY <3>2, <3>3, ShapeKept DEF PolicyInv, Shape
    <3>5. Inserted'
      BY <3>1, <3>2, <3>3 DEF PolicyInv, Inserted, Status, Moves
    <3>6. Activated'
      BY <2>2, <3>1, <3>2, <3>3
      DEF PolicyInv, Activated, Activations, Status, ActiveIsPublished, Moves
    <3>7. Writers'
      BY <2>2, <3>1, <3>2, <3>3 DEF PolicyInv, Writers, Status, Moves
    <3>8. Rules'
      BY <3>1, <3>2, <3>3 DEF PolicyInv, Shape, Rules, Whole, Moves
    <3>9. Decided'
      BY <3>1, <3>2, <3>3 DEF PolicyInv, Shape, Decided, Finished, Whole, Moves
    <3> QED BY <3>4, <3>5, <3>6, <3>7, <3>8, <3>9 DEF PolicyInv
  <2> QED BY <2>1, <2>2
<1>6. ASSUME NEW r \in Requests, WriteToolRules(r) PROVE PolicyInv'
  <2>1. CASE request[r].op # "publish"
    <3>1. /\ RequestGoes(r, "done") /\ request[r].at = "wrote_repo"
          /\ request[r].target \in Requests
      BY <1>6, <2>1 DEF WriteToolRules, PolicyInv, Writers
    <3>2. /\ UNCHANGED <<bundle, repoRules, active, reader>>
          /\ toolRules' \in [Requests -> SUBSET Requests]
          /\ \A c \in Requests \ {request[r].target} : toolRules'[c] = toolRules[c]
      BY <1>6, <3>1 DEF WriteToolRules, PolicyInv, Shape
    <3> QED BY <2>1, <3>1, <3>2, DraftStep DEF PolicyInv, Shape
  <2>2. CASE request[r].op = "publish"
    <3>1. /\ request[r].at = "wrote_repo" /\ request[r].target = r /\ Status(r) = "published"
          /\ repoRules[r] = {r} /\ toolRules[r] = {}
      BY <1>6, <2>2 DEF WriteToolRules, PolicyInv, Writers, Rules
    <3>2. /\ toolRules' = [toolRules EXCEPT ![r] = {r}]
          /\ UNCHANGED <<bundle, repoRules, active, reader>>
      BY <1>6, <3>1 DEF WriteToolRules, PolicyInv, Shape
    <3>3. RequestGoes(r, "activating") /\ Moves(r, "activating")
      BY <1>6, <2>2, Going DEF WriteToolRules, PolicyInv
    <3>4. Shape'
      BY <3>2, <3>3, ShapeKept DEF PolicyInv, Shape
    <3>5. Inserted'
      BY <3>1, <3>2, <3>3 DEF PolicyInv, Inserted, Status, Moves
    <3>6. Activated'
      BY <2>2, <3>1, <3>2, <3>3
      DEF PolicyInv, Activated, Activations, Status, ActiveIsPublished, Moves
    <3>7. Writers'
      BY <2>2, <3>1, <3>2, <3>3 DEF PolicyInv, Writers, Status, Moves
    <3>8. Rules'
      BY <3>1, <3>2, <3>3 DEF PolicyInv, Shape, Rules, Whole, Moves
    <3>9. Decided'
      BY <3>1, <3>2, <3>3 DEF PolicyInv, Shape, Decided, Finished, Whole, Moves
    <3> QED BY <3>4, <3>5, <3>6, <3>7, <3>8, <3>9 DEF PolicyInv
  <2> QED BY <2>1, <2>2
<1>7. ASSUME NEW r \in Requests, NEW b \in Requests, PublishDraft(r, b) \/ Rollback(r, b)
      PROVE  PolicyInv'
  <2>1. PICK op \in {"publish_draft", "rollback"} : TakesUp(r, op, b, "activating")
    BY <1>7 DEF PublishDraft, Rollback
  <2> DEFINE rec == [at |-> "activating", op |-> op, target |-> b, version |-> 0]
  <2>2. /\ request[r].at = "new" /\ request' = [request EXCEPT ![r] = rec]
        /\ UNCHANGED <<repoRules, toolRules, active, reader>>
        /\ rec.at = "activating" /\ rec.op = op /\ rec.target = b
        /\ rec \in [at : {"activating"}, op : {"publish_draft", "rollback"}, target : Requests,
                    version : {rec.version}]
    BY <1>7, <2>1 DEF PublishDraft, Rollback, TakesUp
  <2> HIDE DEF rec
  <2>3. /\ DOMAIN bundle' = Requests
        /\ \A c \in Requests : bundle'[c] \in [status : {"absent", "draft", "published"},
                                               version : {bundle'[c].version}]
        /\ bundle'[b].status = "published" /\ Status(b) # "absent"
        /\ \A c \in Requests : c # b => bundle'[c] = bundle[c]
    <3>1. CASE PublishDraft(r, b)
      BY <3>1 DEF PublishDraft, PolicyInv, Shape, Status
    <3>2. CASE Rollback(r, b)
      BY <3>2 DEF Rollback, PolicyInv, Shape, Status
    <3> QED BY <1>7, <3>1, <3>2
  <2>4. Shape'
    BY <2>2, <2>3 DEF PolicyInv, Shape
  <2>5. Inserted'
    BY <2>2, <2>3 DEF PolicyInv, Shape, Inserted, Status
  <2>6. Activated'
    BY <2>2, <2>3 DEF PolicyInv, Shape, Activated, Activations, Status, ActiveIsPublished
  <2>7. Writers'
    BY <2>2, <2>3 DEF PolicyInv, Shape, Inserted, Writers, Status
  <2>8. Rules' /\ Decided'
    BY <2>2, <2>3 DEF PolicyInv, Shape, Inserted, Rules, Decided, Finished, Whole
  <2> QED BY <2>4, <2>5, <2>6, <2>7, <2>8 DEF PolicyInv
<1>8. ASSUME NEW r \in Requests, Activate(r) PROVE PolicyInv'
  <2>1. /\ request[r].at = "activating" /\ UNCHANGED <<bundle, repoRules, toolRules, reader>>
        /\ active' = [bundle |-> request[r].target, by |-> request[r].op]
        /\ Moves(r, "done") /\ request'[r] \in [at : {"done"}, op : Ops,
             target : Requests \cup {NoBundle}, version : {request'[r].version}]
    BY <1>8, Going DEF Activate, PolicyInv
  <2>2. /\ request[r].op \in Activations
        /\ request[r].target \in Requests /\ Status(request[r].target) = "published"
        /\ request[r].op = "publish" => request[r].target = r /\ Whole(r)
    BY <2>1 DEF PolicyInv, Activated, Rules
  <2>3. Shape'
    BY <2>1, <2>2 DEF PolicyInv, Shape, Moves, Ops
  <2>4. Inserted'
    BY <2>1 DEF PolicyInv, Inserted, Status, Moves
  <2>5. Activated'
    BY <2>1, <2>2 DEF PolicyInv, Activated, Status, ActiveIsPublished, Moves
  <2>6. Writers'
    BY <2>1 DEF PolicyInv, Writers, Status, Moves
  <2>7. Rules'
    BY <2>1 DEF PolicyInv, Rules, Whole, Moves
  <2>8. Decided'
    BY <2>1, <2>2 DEF PolicyInv, Decided, Finished, Whole, Moves
  <2> QED BY <2>3, <2>4, <2>5, <2>6, <2>7, <2>8 DEF PolicyInv
<1>9. ASSUME NEW r \in Requests, Interrupted(r) PROVE PolicyInv'
  BY <1>9, Abandoned DEF Interrupted
<1>10. CASE PickActive
  <2>1. /\ active.bundle \in Requests
        /\ reader' = [at |-> "picked", bundle |-> active.bundle, repo |-> {}, by |-> active.by]
        /\ UNCHANGED <<bundle, repoRules, toolRules, active, request>>
    BY <1>10 DEF PickActive, PolicyInv, Shape
  <2>2. Shape' /\ Decided'
    BY <2>1 DEF PolicyInv, Shape, Decided, Finished, Whole
  <2> QED BY <2>1, <2>2
          DEF PolicyInv, Inserted, Activated, Writers, Rules, Status, Whole, ActiveIsPublished
<1>11. CASE ReadRepoRules \/ ReadToolRules
  <2>1. UNCHANGED <<bundle, repoRules, toolRules, active, request>>
    BY <1>11 DEF ReadRepoRules, ReadToolRules
  <2>2. Shape' /\ Decided'
    <3>1. CASE ReadRepoRules
      <4>1. /\ reader'.at = "read_repo" /\ reader'.bundle = reader.bundle
            /\ reader'.repo = repoRules[reader.bundle] /\ reader'.by = reader.by
            /\ reader.at = "picked" /\ reader.bundle \in Requests
            /\ reader' \in [at : {"idle", "picked", "read_repo"}, bundle : Requests \cup {NoBundle},
                            repo : SUBSET Requests, by : Activations]
        BY <3>1 DEF ReadRepoRules, PolicyInv, Shape, Decided
      <4> QED BY <2>1, <4>1 DEF PolicyInv, Shape, Decided, Finished, Whole
    <3>2. CASE ReadToolRules
      BY <3>2 DEF ReadToolRules, NoReader, PolicyInv, Shape, Decided, Finished, Whole, Activations
    <3> QED BY <1>11, <3>1, <3>2
  <2> QED BY <2>1, <2>2
          DEF PolicyInv, Inserted, Activated, Writers, Rules, Status, Whole, ActiveIsPublished
<1>12. CASE UNCHANGED policyVars
  BY <1>12 DEF policyVars, PolicyInv, Shape, Inserted, Activated, Writers, Rules, Decided,
               Finished, Whole, Status, ActiveIsPublished
<1> QED
  BY <1>1, <1>2, <1>3, <1>4, <1>5, <1>6, <1>7, <1>8, <1>9, <1>10, <1>11, <1>12
  DEF PolicyNext, RequestStep

(* Version numbers have no gaps: SELECT max(version) + 1 gives one more than *)
(* the number of bundles, whatever was inserted since by other requests.     *)
Versions == {bundle[b].version : b \in Requests} \ {0}

Numbering ==
  /\ PolicyTypeOK
  /\ \A b \in Requests : bundle[b].version = 0 <=> Status(b) = "absent"
  /\ \A v \in Versions : 1..v \subseteq Versions
  /\ \A r \in Requests :
       request[r].at = "numbered" =>
         request[r].version # 0 /\ 1..(request[r].version - 1) \subseteq Versions

LEMMA NumberingStart == PolicyInit => Numbering
<1> SUFFICES ASSUME PolicyInit PROVE Numbering
  OBVIOUS
<1>1. 0 \in 0..Cardinality(Requests)
  BY FS_CardinalityType, PolicyAssumption
<1>2. PolicyTypeOK
  BY <1>1 DEF PolicyInit, PolicyTypeOK, NewRequest, NoReader, Activations
<1>3. Versions = {}
  BY DEF PolicyInit, Versions
<1> QED BY <1>2, <1>3 DEF PolicyInit, Numbering, Status, NewRequest

(* While a request has no bundle, the next version is at most the number of *)
(* requests.                                                                *)
LEMMA NextVersionBound ==
  ASSUME Numbering, NEW r \in Requests, Status(r) = "absent"
  PROVE  /\ NextVersion \in 1..Cardinality(Requests)
         /\ 1..(NextVersion - 1) \subseteq Versions
<1> DEFINE N == Cardinality(Requests)
           K == Cardinality(Versions)
<1>1. N \in Nat /\ Cardinality(Requests \ {r}) = N - 1 /\ IsFiniteSet(Requests \ {r})
  BY FS_CardinalityType, FS_RemoveElement, PolicyAssumption
<1>2. Versions \subseteq 1..N
  BY <1>1 DEF Numbering, PolicyTypeOK, Versions
<1>3. IsFiniteSet(Versions) /\ K \in Nat /\ K =< N - 1
  <2>1. Versions \subseteq {bundle[b].version : b \in Requests \ {r}}
    BY DEF Versions, Numbering
  <2>2. /\ IsFiniteSet({bundle[b].version : b \in Requests \ {r}})
        /\ Cardinality({bundle[b].version : b \in Requests \ {r}}) =< N - 1
    <3>1. [b \in Requests \ {r} |-> bundle[b].version]
            \in Surjection(Requests \ {r}, {bundle[b].version : b \in Requests \ {r}})
      BY DEF Surjection
    <3> QED BY <1>1, <3>1, FS_Surjection
  <2>3. IsFiniteSet(Versions) /\ K =< Cardinality({bundle[b].version : b \in Requests \ {r}})
    BY <2>1, <2>2, FS_Subset
  <2> QED BY <1>1, <2>2, <2>3, FS_CardinalityType
<1>4. \A v \in Versions : v \in 1..K
  <2> SUFFICES ASSUME NEW v \in Versions PROVE v =< K
    BY <1>2, <1>3
  <2>1. v \in Nat /\ 1..v \subseteq Versions
    BY <1>2 DEF Numbering
  <2>2. Cardinality(1..v) = v
    BY <2>1, FS_Interval
  <2>3. Cardinality(1..v) =< K
    BY <1>3, <2>1, FS_Subset
  <2> QED BY <2>2, <2>3
<1>5. Versions = 1..K
  <2>1. IsFiniteSet(1..K) /\ Cardinality(1..K) = K
    BY <1>3, FS_Interval
  <2>2. Versions \subseteq 1..K
    BY <1>4
  <2> QED BY <2>1, <2>2, FS_Subset
<1>6. {bundle[b].version : b \in Requests} = 0..K
  <2>1. bundle[r].version = 0
    BY DEF Numbering
  <2>2. {bundle[b].version : b \in Requests} = Versions \cup {0}
    BY <2>1 DEF Versions
  <2>3. 0..K = 1..K \cup {0}
    BY <1>3
  <2> QED BY <1>5, <2>2, <2>3
<1>7. NextVersion = K + 1
  <2> DEFINE Next(v) == v - 1 \in 0..K /\ \A w \in 0..K : w < v
  <2>1. NextVersion = CHOOSE v \in 1..N + 1 : Next(v)
    BY <1>6 DEF NextVersion
  <2>2. K + 1 \in 1..N + 1 /\ Next(K + 1)
    BY <1>1, <1>3
  <2>3. \A v \in 1..N + 1 : Next(v) => v = K + 1
    BY <1>1, <1>3
  <2> HIDE DEF Next
  <2> QED BY <2>1, <2>2, <2>3
<1> QED BY <1>1, <1>3, <1>5, <1>7

(* A request goes on to another place, or takes up a bundle.                *)
RequestRecord ==
  [at : {"new", "numbered", "checked", "cleared_repo", "cleared", "wrote_repo", "activating",
         "done"},
   op : {"none", "publish", "create_draft", "update_draft", "publish_draft", "rollback"},
   target : Requests \cup {NoBundle}, version : 0..Cardinality(Requests)]

LEMMA GoesOn ==
  ASSUME Numbering, NEW r \in Requests, NEW at, RequestGoes(r, at),
         at \in {"cleared_repo", "cleared", "wrote_repo", "activating", "done"}
  PROVE  /\ request' \in [Requests -> RequestRecord]
         /\ \A q \in Requests : request'[q].at = "numbered" =>
              request[q].at = "numbered" /\ request'[q].version = request[q].version
<1>1. request \in [Requests -> RequestRecord]
  BY DEF Numbering, PolicyTypeOK, RequestRecord
<1>2. request' = [request EXCEPT ![r] = [request[r] EXCEPT !.at = at]]
  BY <1>1 DEF RequestGoes
<1>3. [request[r] EXCEPT !.at = at] \in RequestRecord /\ [request[r] EXCEPT !.at = at].at = at
  BY <1>1 DEF RequestRecord
<1> QED BY <1>1, <1>2, <1>3

LEMMA TakesOn ==
  ASSUME Numbering, NEW r \in Requests, NEW b \in Requests, NEW at, NEW op, TakesUp(r, op, b, at),
         at \in {"checked", "activating"}, op \in {"update_draft", "publish_draft", "rollback"}
  PROVE  /\ request' \in [Requests -> RequestRecord]
         /\ \A q \in Requests : request'[q].at = "numbered" =>
              request[q].at = "numbered" /\ request'[q].version = request[q].version
<1> DEFINE rec == [at |-> at, op |-> op, target |-> b, version |-> 0]
<1>1. request \in [Requests -> RequestRecord] /\ request' = [request EXCEPT ![r] = rec]
  BY DEF Numbering, PolicyTypeOK, RequestRecord, TakesUp
<1>2. 0 \in 0..Cardinality(Requests)
  BY FS_CardinalityType, PolicyAssumption
<1>3. rec \in RequestRecord /\ rec.at # "numbered"
  BY <1>2 DEF RequestRecord
<1> HIDE DEF rec
<1> QED BY <1>1, <1>3

LEMMA NumberingStep == PolicyInv /\ Numbering /\ [PolicyNext]_policyVars => Numbering'
<1> SUFFICES ASSUME PolicyInv, Numbering, [PolicyNext]_policyVars PROVE Numbering'
  OBVIOUS
<1> DEFINE N == Cardinality(Requests)
<1>1. N \in Nat /\ 0 \in 0..N
  BY FS_CardinalityType, PolicyAssumption
<1> HIDE DEF N
<1>2. ASSUME UNCHANGED bundle, PolicyTypeOK',
             \A q \in Requests : request'[q].at = "numbered" =>
               request[q].at = "numbered" /\ request'[q].version = request[q].version
      PROVE  Numbering'
  BY <1>2 DEF Numbering, Versions, Status
<1>3. ASSUME NEW r \in Requests, NEW op \in {"publish", "create_draft"}, NumberBundle(r, op)
      PROVE  Numbering'
  <2>1. Status(r) = "absent"
    BY <1>3 DEF NumberBundle, PolicyInv, Inserted
  <2>2. NextVersion \in 1..N /\ 1..(NextVersion - 1) \subseteq Versions
    BY <2>1, NextVersionBound DEF N
  <2>3. PolicyTypeOK'
    BY <1>1, <1>3, <2>2 DEF NumberBundle, Numbering, PolicyTypeOK, N
  <2>4. \A q \in Requests : request'[q].at = "numbered" =>
          request'[q].version # 0 /\ 1..(request'[q].version - 1) \subseteq Versions
    BY <1>1, <1>3, <2>2 DEF NumberBundle, Numbering, PolicyTypeOK
  <2> QED BY <1>3, <2>3, <2>4 DEF NumberBundle, Numbering, Versions, Status
<1>4. ASSUME NEW r \in Requests, InsertBundle(r) PROVE Numbering'
  <2> DEFINE n == request[r].version
             rec == [status |-> IF request[r].op = "publish" THEN "published" ELSE "draft",
                     version |-> n]
  <2>1. PICK at \in {"cleared", "done"} : RequestGoes(r, at)
    BY <1>4 DEF InsertBundle
  <2>2. /\ request' \in [Requests -> RequestRecord]
        /\ \A q \in Requests : request'[q].at = "numbered" =>
             request[q].at = "numbered" /\ request'[q].version = request[q].version
    BY <2>1, GoesOn
  <2>3. UNCHANGED <<repoRules, toolRules, active, reader>> /\ request[r].at = "numbered"
    BY <1>4 DEF InsertBundle
  <2>4. CASE UNCHANGED bundle
    <3>1. PolicyTypeOK'
      BY <2>2, <2>3, <2>4 DEF Numbering, PolicyTypeOK, RequestRecord
    <3> QED BY <1>2, <2>2, <2>4, <3>1
  <2>5. CASE bundle' = [bundle EXCEPT ![r] = rec]
    <3>1. n \in 0..N /\ n # 0 /\ 1..(n - 1) \subseteq Versions
      BY <2>3 DEF Numbering, PolicyTypeOK, N
    <3>2. /\ rec.version = n /\ rec.status # "absent"
          /\ rec \in [status : {"absent", "draft", "published"}, version : 0..N]
      BY <3>1
    <3> HIDE DEF n, rec
    <3>3. bundle' \in [Requests -> [status : {"absent", "draft", "published"}, version : 0..N]]
      BY <2>5, <3>2 DEF Numbering, PolicyTypeOK, N
    <3>4. PolicyTypeOK'
      BY <2>2, <2>3, <3>3 DEF Numbering, PolicyTypeOK, RequestRecord, N
    <3>5. bundle'[r] = rec /\ \A b \in Requests \ {r} : bundle'[b] = bundle[b]
      BY <2>5 DEF Numbering, PolicyTypeOK
    <3>6. bundle[r].version = 0
      BY <2>3 DEF PolicyInv, Inserted, Numbering
    <3>7. Versions' = Versions \cup {n}
      BY <3>1, <3>2, <3>5, <3>6 DEF Versions
    <3>8. \A v \in Versions' : 1..v \subseteq Versions'
      <4> SUFFICES ASSUME NEW v \in Versions', NEW w \in 1..v PROVE w \in Versions'
        OBVIOUS
      <4>1. CASE v = n
        BY <1>1, <3>1, <3>7, <4>1
      <4>2. CASE v # n
        BY <3>7, <4>2 DEF Numbering
      <4> QED BY <4>1, <4>2
    <3>9. \A q \in Requests : request'[q].at = "numbered" =>
            request'[q].version # 0 /\ 1..(request'[q].version - 1) \subseteq Versions'
      BY <2>2, <3>7 DEF Numbering
    <3>10. \A b \in Requests : bundle'[b].version = 0 <=> bundle'[b].status = "absent"
      BY <3>1, <3>2, <3>5 DEF Numbering, Status
    <3> QED BY <3>4, <3>8, <3>9, <3>10 DEF Numbering, Status
  <2> QED BY <1>4, <2>4, <2>5 DEF InsertBundle
<1>5. ASSUME NEW r \in Requests, NEW b \in Requests, PublishDraft(r, b) PROVE Numbering'
  <2>1. PolicyTypeOK'
    BY <1>1, <1>5 DEF PublishDraft, TakesUp, Numbering, PolicyTypeOK, N
  <2>2. Versions' = Versions
    BY <1>5 DEF PublishDraft, Versions, Numbering, PolicyTypeOK
  <2>3. \A c \in Requests : bundle'[c].version = 0 <=> bundle'[c].status = "absent"
    BY <1>5 DEF PublishDraft, Numbering, PolicyTypeOK, Status
  <2> QED BY <1>5, <2>1, <2>2, <2>3 DEF PublishDraft, TakesUp, Numbering, PolicyTypeOK, Status
<1>6. ASSUME NEW r \in Requests, NEW b \in Requests, CheckDraft(r, b) \/ Rollback(r, b)
      PROVE  Numbering'
  <2>1. /\ request' \in [Requests -> RequestRecord]
        /\ \A q \in Requests : request'[q].at = "numbered" =>
             request[q].at = "numbered" /\ request'[q].version = request[q].version
    BY <1>6, TakesOn DEF CheckDraft, Rollback
  <2>2. UNCHANGED <<bundle, repoRules, toolRules, active, reader>>
    BY <1>6 DEF CheckDraft, Rollback
  <2>3. PolicyTypeOK'
    BY <2>1, <2>2 DEF Numbering, PolicyTypeOK, RequestRecord
  <2> QED BY <1>2, <2>1, <2>2, <2>3
<1>7. ASSUME NEW r \in Requests,
             ClearRepoRules(r) \/ ClearToolRules(r) \/ WriteRepoRules(r) \/ WriteToolRules(r)
             \/ Activate(r) \/ Interrupted(r)
      PROVE  Numbering'
  <2>1. \E at \in {"cleared_repo", "cleared", "wrote_repo", "activating", "done"} :
          RequestGoes(r, at)
    BY <1>7 DEF ClearRepoRules, ClearToolRules, WriteRepoRules, WriteToolRules, Activate, Interrupted
  <2>2. /\ request' \in [Requests -> RequestRecord]
        /\ \A q \in Requests : request'[q].at = "numbered" =>
             request[q].at = "numbered" /\ request'[q].version = request[q].version
    BY <2>1, GoesOn
  <2>3. repoRules \in [Requests -> SUBSET Requests] /\ toolRules \in [Requests -> SUBSET Requests]
    BY DEF Numbering, PolicyTypeOK
  <2>4. /\ repoRules' \in [Requests -> SUBSET Requests] /\ toolRules' \in [Requests -> SUBSET Requests]
        /\ UNCHANGED <<bundle, reader>>
    BY <1>7, <2>3 DEF ClearRepoRules, ClearToolRules, WriteRepoRules, WriteToolRules, Activate,
                      Interrupted
  <2>5. active' \in [bundle : Requests \cup {NoBundle}, by : Activations]
    <3>1. active \in [bundle : Requests \cup {NoBundle}, by : Activations]
      BY DEF Numbering, PolicyTypeOK
    <3> QED
      BY <1>7, <3>1 DEF ClearRepoRules, ClearToolRules, WriteRepoRules, WriteToolRules, Activate,
                        Interrupted, PolicyInv, Activated
  <2>6. PolicyTypeOK'
    BY <2>2, <2>4, <2>5 DEF Numbering, PolicyTypeOK, RequestRecord
  <2> QED BY <1>2, <2>2, <2>4, <2>6
<1>8. CASE PickActive \/ ReadRepoRules \/ ReadToolRules
  <2>1. /\ reader \in [at : {"idle", "picked", "read_repo"}, bundle : Requests \cup {NoBundle},
                       repo : SUBSET Requests, by : Activations]
        /\ active \in [bundle : Requests \cup {NoBundle}, by : Activations]
        /\ repoRules \in [Requests -> SUBSET Requests]
    BY DEF Numbering, PolicyTypeOK
  <2>2. UNCHANGED <<bundle, repoRules, toolRules, active, request>>
    BY <1>8 DEF PickActive, ReadRepoRules, ReadToolRules
  <2>3. reader' \in [at : {"idle", "picked", "read_repo"}, bundle : Requests \cup {NoBundle},
                     repo : SUBSET Requests, by : Activations]
    <3>1. CASE PickActive
      BY <2>1, <3>1 DEF PickActive
    <3>2. CASE ReadRepoRules
      <4>1. reader.bundle \in Requests
        BY <3>2 DEF ReadRepoRules, PolicyInv, Decided
      <4> QED BY <2>1, <3>2, <4>1 DEF ReadRepoRules
    <3>3. CASE ReadToolRules
      BY <3>3 DEF ReadToolRules, NoReader, Activations
    <3> QED BY <1>8, <3>1, <3>2, <3>3
  <2>4. PolicyTypeOK'
    BY <2>2, <2>3 DEF Numbering, PolicyTypeOK
  <2> QED BY <1>2, <2>2, <2>4
<1>9. CASE UNCHANGED policyVars
  BY <1>2, <1>9 DEF policyVars, Numbering, PolicyTypeOK
<1> QED
  BY <1>3, <1>4, <1>5, <1>6, <1>7, <1>8, <1>9 DEF PolicyNext, RequestStep

LEMMA PolicyPromises == PolicyInv => ActiveIsPublished /\ PublishedBundleIsWhole
BY DEF PolicyInv, Activated, Decided, Finished, Whole, PublishedBundleIsWhole

LEMMA PolicyInvariant == PolicySpec => [](PolicyInv /\ Numbering)
BY PolicyStart, PolicyStep, NumberingStart, NumberingStep, PTL DEF PolicySpec

(* The types, with version numbers that no overlap of requests takes past   *)
(* the number of bundles (SELECT max(version) + 1 and the INSERT after it). *)
THEOREM PolicyTypes == PolicySpec => []PolicyTypeOK
BY PolicyInvariant, PTL DEF Numbering

(* The pointer never names a draft or a bundle that is not there.           *)
THEOREM PointerSafety == PolicySpec => []ActiveIsPublished
BY PolicyInvariant, PolicyPromises, PTL

(* A decision on a bundle of publish_policy_bundle has all of its rules.    *)
THEOREM DecisionSafety == PolicySpec => []PublishedBundleIsWhole
BY PolicyInvariant, PolicyPromises, PTL
=============================================================================
