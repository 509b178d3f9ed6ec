----------------------------- MODULE WorkItems ------------------------------
(***************************************************************************)
(* Work items (work_queue.py): the status of each, the items that block    *)
(* it, and every route that writes them.  A route reads rows and then      *)
(* writes one, in statements of their own (autocommit); only PATCH with    *)
(* status in_progress asks for the blockers, one read each.                *)
(*                                                                         *)
(* Titles, sessions, comments, watchers, templates and webhooks are left   *)
(* out, and so are work_item_events and the audit trail: nothing that      *)
(* decides on a status reads them.                                         *)
(***************************************************************************)
EXTENDS FiniteSets

CONSTANTS
  WorkIds,       \* ids of work items, given out or not yet
  Blockable,     \* those a request names blockers for
  Blockers,      \* the ids it names: any string is taken, known or not
  ItemStatuses,  \* statuses a request asks for
  Requesters,    \* requests that read before they write
  NoItemId       \* a requester that has not come

ASSUME WorkAssumption ==
  /\ Blockable \subseteq WorkIds /\ Blockers \subseteq WorkIds
  /\ ItemStatuses \subseteq {"open", "in_progress", "review", "done", "cancelled"}
  /\ NoItemId \notin WorkIds

VARIABLES
  itemStatus,  \* "absent" until the row is there
  blockedBy,   \* blocked_by of each row
  asking,     \* [kind, item, unread]: what a requester does with what it read
  overtaken   \* history: items that may block a checked item since its PATCH asked

workVars == <<itemStatus, blockedBy, asking, overtaken>>

NotAsking == [kind |-> "none", item |-> NoItemId, unread |-> {}]

WorkTypeOK ==
  /\ itemStatus \in [WorkIds -> {"absent", "open", "in_progress", "review", "done", "cancelled"}]
  /\ blockedBy \in [WorkIds -> SUBSET Blockers]
  /\ asking \in [Requesters -> [kind : {"none", "patch", "claim", "reopen"},
                                 item : WorkIds \cup {NoItemId}, unread : SUBSET Blockers]]
  /\ overtaken \in [Requesters -> SUBSET Blockers]

WorkInit ==
  /\ itemStatus = [i \in WorkIds |-> "absent"]
  /\ blockedBy = [i \in WorkIds |-> {}]
  /\ asking = [r \in Requesters |-> NotAsking]
  /\ overtaken = [r \in Requesters |-> {}]

Exists(i) == itemStatus[i] # "absent"

(***************************************************************************)
(* A blocker blocks until it is done or cancelled, and not before it is    *)
(* there.                                                                  *)
(***************************************************************************)
Unblocking == {"absent", "done", "cancelled"}
Blocks(b) == itemStatus[b] \notin Unblocking

(***************************************************************************)
(* The UPDATE (or INSERT) of one row: status s and blockers bs of item i.  *)
(* A requester's reads of i, or of the blockers of i, are out of date.     *)
(***************************************************************************)
Names(i) == {blockedBy[i]} \cup IF i \in Blockable THEN SUBSET Blockers ELSE {}

Overtake(i, s, bs) ==
  [r \in Requesters |->
    IF asking[r].kind # "patch" THEN {}
    ELSE overtaken[r] \cup (((IF s \in Unblocking THEN {} ELSE {i} \cap Blockers)
                        \cup (IF asking[r].item = i THEN bs \ blockedBy[i] ELSE {}))
                       \ asking[r].unread)]

WriteRow(i, s, bs) ==
  /\ itemStatus' = [itemStatus EXCEPT ![i] = s]
  /\ blockedBy' = [blockedBy EXCEPT ![i] = bs]

Write(i, s, bs) ==
  /\ WriteRow(i, s, bs)
  /\ overtaken' = Overtake(i, s, bs)
  /\ UNCHANGED asking

\* create_work_item, from every route that opens one.
CreateItem(i) ==
  /\ ~Exists(i)
  /\ \E bs \in Names(i) : Write(i, "open", bs)

\* PATCH with any status but in_progress, or with blockers alone.
PatchItem(i) ==
  /\ Exists(i)
  /\ \E s \in (ItemStatuses \ {"in_progress"}) \cup {itemStatus[i]}, bs \in Names(i) :
       Write(i, s, bs)

\* POST /work: in progress from whatever it was, with a session.
Work(i) ==
  /\ Exists(i) /\ "in_progress" \in ItemStatuses
  /\ Write(i, "in_progress", blockedBy[i])

\* The agent's update_work_item.
UpdateTool(i) ==
  /\ Exists(i)
  /\ \E s \in ItemStatuses : Write(i, s, blockedBy[i])

(***************************************************************************)
(* Routes that read the row first.                                         *)
(***************************************************************************)
Reads(r, kind, i, unread) ==
  /\ asking[r] = NotAsking
  /\ asking' = [asking EXCEPT ![r] = [kind |-> kind, item |-> i, unread |-> unread]]
  /\ overtaken' = [overtaken EXCEPT ![r] = {}]
  /\ UNCHANGED <<itemStatus, blockedBy>>

Leaves(r) ==
  /\ asking' = [asking EXCEPT ![r] = NotAsking]
  /\ overtaken' = [overtaken EXCEPT ![r] = {}]

\* PATCH with in_progress: the row, then each blocker, then the UPDATE,
\* which may name other blockers than those that were read.
ReadItem(r, i) == Exists(i) /\ "in_progress" \in ItemStatuses /\ Reads(r, "patch", i, blockedBy[i])

\* Mutant: the first blocker decides.
ReadOneBlocker(r, b) ==
  /\ b \in asking[r].unread /\ ~Blocks(b)
  /\ asking' = [asking EXCEPT ![r].unread = {}]
  /\ UNCHANGED <<itemStatus, blockedBy, overtaken>>

ReadBlocker(r, b) ==
  /\ b \in asking[r].unread /\ ~Blocks(b)
  /\ asking' = [asking EXCEPT ![r].unread = @ \ {b}]
  /\ UNCHANGED <<itemStatus, blockedBy, overtaken>>

RefuseBlocked(r, b) ==
  /\ b \in asking[r].unread /\ Blocks(b)
  /\ Leaves(r)
  /\ UNCHANGED <<itemStatus, blockedBy>>

\* The request's own UPDATE, after which it is no longer a reader.
WriteAndLeave(r, i, s, bs) ==
  /\ WriteRow(i, s, bs)
  /\ asking' = [asking EXCEPT ![r] = NotAsking]
  /\ overtaken' = [Overtake(i, s, bs) EXCEPT ![r] = {}]

StartChecked(r) ==
  /\ asking[r].kind = "patch" /\ asking[r].unread = {}
  /\ \E bs \in Names(asking[r].item) : WriteAndLeave(r, asking[r].item, "in_progress", bs)

\* The agent's claim_work_item: only an open item, but the UPDATE asks no more.
ReadOpen(r, i) == itemStatus[i] = "open" /\ Reads(r, "claim", i, {})

Claimed(r) ==
  /\ asking[r].kind = "claim"
  /\ WriteAndLeave(r, asking[r].item, "in_progress", blockedBy[asking[r].item])

\* A denial reopens the item of its approval, if it found it closed.
ReadClosed(r, i) == itemStatus[i] \in {"done", "cancelled"} /\ Reads(r, "reopen", i, {})

Reopen(r) ==
  /\ asking[r].kind = "reopen"
  /\ WriteAndLeave(r, asking[r].item, "open", blockedBy[asking[r].item])

WorkNext ==
  \/ \E i \in WorkIds : CreateItem(i) \/ PatchItem(i) \/ Work(i) \/ UpdateTool(i)
  \/ \E r \in Requesters :
       \/ \E i \in WorkIds : ReadItem(r, i) \/ ReadOpen(r, i) \/ ReadClosed(r, i)
       \/ \E b \in Blockers : ReadBlocker(r, b) \/ RefuseBlocked(r, b)
       \/ StartChecked(r) \/ Claimed(r) \/ Reopen(r)

WorkSpec == WorkInit /\ [][WorkNext]_workVars

-----------------------------------------------------------------------------
(* A PATCH that may start an item has seen each of its blockers ended or   *)
(* not there: one that blocks all the same came to do so after the read,   *)
(* being created, reopened or named meanwhile (ui_work_items_patch).       *)
BlockersWereEnded ==
  \A r \in Requesters : asking[r].kind = "patch" =>
    \A b \in blockedBy[asking[r].item] \ (asking[r].unread \cup overtaken[r]) :
      itemStatus[b] \in {"absent", "done", "cancelled"}
=============================================================================
