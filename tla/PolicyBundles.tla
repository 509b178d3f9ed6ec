--------------------------- MODULE PolicyBundles ----------------------------
(***************************************************************************)
(* The versions of one tenant's tool policy and the pointer to the active  *)
(* one (shared/policy_bundle_store.py).  The store runs its SQL on an      *)
(* autocommit connection: every statement of a request is an action, and a *)
(* request may stop after any of them.  A bundle is named by the request   *)
(* that inserted it, and a rule by the request that wrote it: the rules a  *)
(* request brings are one row of each of the two rule tables.              *)
(***************************************************************************)
EXTENDS Integers, FiniteSets

CONSTANTS
  Requests,   \* administrators' requests, each made once
  NoBundle    \* no active policy

ASSUME PolicyAssumption == IsFiniteSet(Requests) /\ NoBundle \notin Requests

VARIABLES
  bundle,     \* policy_bundles: [status, version]
  repoRules,  \* policy_repo_rules by bundle: the requests whose rules are there
  toolRules,  \* policy_tool_rules likewise
  active,     \* tenant_active_policy: [bundle, by], by: history, the operation
  request,    \* [at, op, target, version]
  reader      \* load_active_policies_from_pg: [at, bundle, repo, by]

policyVars == <<bundle, repoRules, toolRules, active, request, reader>>

NewRequest == [at |-> "new", op |-> "none", target |-> NoBundle, version |-> 0]
NoReader == [at |-> "idle", bundle |-> NoBundle, repo |-> {}, by |-> "nobody"]

Activations == {"nobody", "publish", "publish_draft", "rollback"}

PolicyTypeOK ==
  /\ bundle \in [Requests -> [status : {"absent", "draft", "published"},
                              version : 0..Cardinality(Requests)]]
  /\ repoRules \in [Requests -> SUBSET Requests] /\ toolRules \in [Requests -> SUBSET Requests]
  /\ active \in [bundle : Requests \cup {NoBundle},
                 by : Activations]
  /\ request \in [Requests -> [at : {"new", "numbered", "checked", "cleared_repo", "cleared",
                                     "wrote_repo", "activating", "done"},
                               op : {"none", "publish", "create_draft", "update_draft",
                                     "publish_draft", "rollback"},
                               target : Requests \cup {NoBundle},
                               version : 0..Cardinality(Requests)]]
  /\ reader \in [at : {"idle", "picked", "read_repo"}, bundle : Requests \cup {NoBundle},
                 repo : SUBSET Requests, by : Activations]

PolicyInit ==
  /\ bundle = [r \in Requests |-> [status |-> "absent", version |-> 0]]
  /\ repoRules = [r \in Requests |-> {}] /\ toolRules = [r \in Requests |-> {}]
  /\ active = [bundle |-> NoBundle, by |-> "nobody"]
  /\ request = [r \in Requests |-> NewRequest]
  /\ reader = NoReader

RequestGoes(r, at) == request' = [request EXCEPT ![r].at = at]
TakesUp(r, op, b, at) ==
  request' = [request EXCEPT ![r] = [at |-> at, op |-> op, target |-> b, version |-> 0]]

(***************************************************************************)
(* publish_policy_bundle and create_policy_draft: SELECT max(version) + 1, *)
(* INSERT the bundle (a version taken meanwhile fails the UNIQUE           *)
(* constraint), then the rules.                                            *)
(***************************************************************************)
NextVersion ==
  LET versions == {bundle[b].version : b \in Requests}
  IN  CHOOSE v \in 1..Cardinality(Requests) + 1 : v - 1 \in versions /\ \A w \in versions : w < v

NumberBundle(r, op) ==
  /\ request[r].at = "new"
  /\ request' = [request EXCEPT ![r] =
       [at |-> "numbered", op |-> op, target |-> r, version |-> NextVersion]]
  /\ UNCHANGED <<bundle, repoRules, toolRules, active, reader>>

\* Mutant: publish_policy_bundle points to the bundle before it writes the rules.
InsertAndActivate(r) ==
  /\ request[r].at = "numbered"
  /\ IF \E b \in Requests : bundle[b].version = request[r].version
     THEN RequestGoes(r, "done") /\ UNCHANGED bundle
     ELSE /\ RequestGoes(r, IF request[r].op = "publish" THEN "activating" ELSE "cleared")
          /\ bundle' = [bundle EXCEPT ![r] =
               [status |-> IF request[r].op = "publish" THEN "published" ELSE "draft",
                version |-> request[r].version]]
  /\ UNCHANGED <<repoRules, toolRules, active, reader>>

InsertBundle(r) ==
  /\ request[r].at = "numbered"
  /\ IF \E b \in Requests : bundle[b].version = request[r].version
     THEN RequestGoes(r, "done") /\ UNCHANGED bundle
     ELSE /\ RequestGoes(r, "cleared")
          /\ bundle' = [bundle EXCEPT ![r] =
               [status |-> IF request[r].op = "publish" THEN "published" ELSE "draft",
                version |-> request[r].version]]
  /\ UNCHANGED <<repoRules, toolRules, active, reader>>

(***************************************************************************)
(* update_policy_draft: the check that it is a draft, the two DELETEs, and *)
(* the new rules; nothing looks at the status again.                       *)
(***************************************************************************)
CheckDraft(r, b) ==
  /\ request[r].at = "new"
  /\ bundle[b].status = "draft"
  /\ TakesUp(r, "update_draft", b, "checked")
  /\ UNCHANGED <<bundle, repoRules, toolRules, active, reader>>

ClearRepoRules(r) ==
  /\ request[r].at = "checked"
  /\ repoRules' = [repoRules EXCEPT ![request[r].target] = {}]
  /\ RequestGoes(r, "cleared_repo")
  /\ UNCHANGED <<bundle, toolRules, active, reader>>

ClearToolRules(r) ==
  /\ request[r].at = "cleared_repo"
  /\ toolRules' = [toolRules EXCEPT ![request[r].target] = {}]
  /\ RequestGoes(r, "cleared")
  /\ UNCHANGED <<bundle, repoRules, active, reader>>

\* _insert_bundle_rules.
WriteRepoRules(r) ==
  /\ request[r].at = "cleared"
  /\ repoRules' = [repoRules EXCEPT ![request[r].target] = @ \cup {r}]
  /\ RequestGoes(r, "wrote_repo")
  /\ UNCHANGED <<bundle, toolRules, active, reader>>

WriteToolRules(r) ==
  /\ request[r].at = "wrote_repo"
  /\ toolRules' = [toolRules EXCEPT ![request[r].target] = @ \cup {r}]
  /\ RequestGoes(r, IF request[r].op = "publish" THEN "activating" ELSE "done")
  /\ UNCHANGED <<bundle, repoRules, active, reader>>

(***************************************************************************)
(* publish_policy_draft and rollback_policy_bundle up to the pointer.      *)
(***************************************************************************)
PublishDraft(r, b) ==
  /\ request[r].at = "new"
  /\ bundle[b].status = "draft"
  /\ bundle' = [bundle EXCEPT ![b].status = "published"]
  /\ TakesUp(r, "publish_draft", b, "activating")
  /\ UNCHANGED <<repoRules, toolRules, active, reader>>

\* Mutant: any version can be rolled back to.
RollbackToAny(r, b) ==
  /\ request[r].at = "new"
  /\ bundle[b].status # "absent"
  /\ TakesUp(r, "rollback", b, "activating")
  /\ UNCHANGED <<bundle, repoRules, toolRules, active, reader>>

Rollback(r, b) ==
  /\ request[r].at = "new"
  /\ bundle[b].status = "published"
  /\ TakesUp(r, "rollback", b, "activating")
  /\ UNCHANGED <<bundle, repoRules, toolRules, active, reader>>

\* The upsert of tenant_active_policy.
Activate(r) ==
  /\ request[r].at = "activating"
  /\ active' = [bundle |-> request[r].target, by |-> request[r].op]
  /\ RequestGoes(r, "done")
  /\ UNCHANGED <<bundle, repoRules, toolRules, reader>>

\* The process or the connection goes: what was committed stays.
Interrupted(r) ==
  /\ request[r].at \notin {"new", "done"}
  /\ RequestGoes(r, "done")
  /\ UNCHANGED <<bundle, repoRules, toolRules, active, reader>>

(***************************************************************************)
(* load_active_policies_from_pg, at the start of a policy decision: three  *)
(* SELECTs; the decision uses what they returned together.                 *)
(***************************************************************************)
PickActive ==
  /\ reader.at = "idle"
  /\ active.bundle # NoBundle /\ bundle[active.bundle].status = "published"
  /\ reader' = [at |-> "picked", bundle |-> active.bundle, repo |-> {}, by |-> active.by]
  /\ UNCHANGED <<bundle, repoRules, toolRules, active, request>>

ReadRepoRules ==
  /\ reader.at = "picked"
  /\ reader' = [reader EXCEPT !.at = "read_repo", !.repo = repoRules[reader.bundle]]
  /\ UNCHANGED <<bundle, repoRules, toolRules, active, request>>

ReadToolRules ==
  /\ reader.at = "read_repo"
  /\ reader' = NoReader
  /\ UNCHANGED <<bundle, repoRules, toolRules, active, request>>

RequestStep(r) ==
  \/ \E op \in {"publish", "create_draft"} : NumberBundle(r, op)
  \/ InsertBundle(r) \/ WriteRepoRules(r) \/ WriteToolRules(r)
  \/ ClearRepoRules(r) \/ ClearToolRules(r)
  \/ \E b \in Requests : CheckDraft(r, b) \/ PublishDraft(r, b) \/ Rollback(r, b)
  \/ Activate(r) \/ Interrupted(r)

PolicyNext ==
  \/ \E r \in Requests : RequestStep(r)
  \/ PickActive \/ ReadRepoRules \/ ReadToolRules

PolicySpec == PolicyInit /\ [][PolicyNext]_policyVars

-----------------------------------------------------------------------------
(* The pointer never names a draft or a bundle that is not there, in any   *)
(* order of publications, rollbacks and requests that stop half way: the   *)
(* loader finds a policy as soon as one was ever activated.                *)
ActiveIsPublished == active.bundle # NoBundle => bundle[active.bundle].status = "published"

(* A decision never mixes or misses rules when the active bundle came from *)
(* publish_policy_bundle: it points to the bundle last, and no other       *)
(* request writes to a bundle that was never a draft.                      *)
PublishedBundleIsWhole ==
  /\ active.by = "publish" =>
       repoRules[active.bundle] = {active.bundle} /\ toolRules[active.bundle] = {active.bundle}
  /\ reader.at = "read_repo" /\ reader.by = "publish" =>
       reader.repo = {reader.bundle} /\ toolRules[reader.bundle] = {reader.bundle}
=============================================================================
