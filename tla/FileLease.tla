----------------------------- MODULE FileLease ------------------------------
(***************************************************************************)
(* The lease a work item takes on its workspace path at the start of a     *)
(* turn (FileLeaseStep of context_engine/steps/gather/file_lease.py): one  *)
(* entry of _lease_store, in the memory of one backend process.  The step  *)
(* has no await, so a turn's whole step is one action.  What a turn is     *)
(* told goes into its prompt ("Workspace locked for this WI").             *)
(***************************************************************************)
EXTENDS FiniteSets

CONSTANTS
  Items,     \* work items with the same workspace path
  NoItem     \* no entry for the path

ASSUME LeaseAssumption == NoItem \notin Items

VARIABLES
  entry,     \* work_item_id of the entry for the path
  stale,     \* the entry's claimed_at is older than _LEASE_TIMEOUT_S
  locked,    \* items told within the last _LEASE_TIMEOUT_S that the path is theirs
  unclaimed  \* history: items whose last such turn met a stale entry

leaseVars == <<entry, stale, locked, unclaimed>>

LeaseTypeOK ==
  /\ entry \in Items \cup {NoItem} /\ stale \in BOOLEAN
  /\ locked \subseteq Items /\ unclaimed \subseteq locked

LeaseInit == entry = NoItem /\ stale = FALSE /\ locked = {} /\ unclaimed = {}

Told(i) == locked' = locked \cup {i}

\* Mutant: whoever comes last has the path.
ClaimAnyway(i) ==
  /\ entry # i /\ ~stale
  /\ entry' = i /\ stale' = FALSE
  /\ Told(i) /\ unclaimed' = unclaimed \ {i}

(***************************************************************************)
(* FileLeaseStep.run.  A stale entry is popped first, and what follows     *)
(* renews the popped record: the turn is told that the path is locked for  *)
(* it, but no entry stays in the table.                                    *)
(***************************************************************************)
Claim(i) ==
  /\ entry = NoItem
  /\ entry' = i /\ stale' = FALSE
  /\ Told(i) /\ unclaimed' = unclaimed \ {i}

Renew(i) ==
  /\ entry = i /\ ~stale
  /\ Told(i) /\ unclaimed' = unclaimed \ {i}
  /\ UNCHANGED <<entry, stale>>

ReleaseStale(i) ==
  /\ entry # NoItem /\ stale
  /\ entry' = NoItem /\ stale' = FALSE
  /\ Told(i) /\ unclaimed' = unclaimed \cup {i}

Conflict(i) ==
  /\ entry \notin {i, NoItem} /\ ~stale
  /\ locked' = locked \ {i} /\ unclaimed' = unclaimed \ {i}
  /\ UNCHANGED <<entry, stale>>

\* Half an hour passes since the last turn of i that was told so.
Lapse(i) ==
  /\ i \in locked
  /\ locked' = locked \ {i} /\ unclaimed' = unclaimed \ {i}
  /\ stale' = (stale \/ entry = i)
  /\ UNCHANGED entry

LeaseNext == \E i \in Items : Claim(i) \/ Renew(i) \/ ReleaseStale(i) \/ Conflict(i) \/ Lapse(i)

LeaseSpec == LeaseInit /\ [][LeaseNext]_leaseVars

-----------------------------------------------------------------------------
(* An item told that the path is locked for it has the entry, unless the   *)
(* turn that told it so met a stale one: a lease in time is never lost to  *)
(* another item, nor kept by one that has lapsed (FileLeaseStep.run).      *)
LockedItemHasEntry ==
  /\ \A i \in locked \ unclaimed : entry = i /\ ~stale
  /\ entry \in locked => ~stale

(* "o backend impede que dois agentes modifiquem o mesmo ficheiro          *)
(* simultaneamente" (README.md:137): at most one work item is told that    *)
(* the path is locked for it.                                              *)
OneItemLocked == \A i, j \in locked : i = j
=============================================================================
