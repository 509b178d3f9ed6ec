------------------------------ MODULE Backend -------------------------------
(***************************************************************************)
(* The parts of a backend that keep their state to themselves:             *)
(* they share no variable and meet only in calls that succeed or fail,     *)
(* which each part models for its callers.  The behaviours of all of them  *)
(* together are therefore those of each, and an instance runs them one at  *)
(* a time: `focus` is the part that moves.                                 *)
(***************************************************************************)
EXTENDS ConnPool, LlmGateway, SiemOutbox, FileLease, AgentTree, PolicyBundles, WorkItems, Turns

CONSTANT Parts    \* the parts of this instance

VARIABLE focus

backendVars == <<poolVars, gatewayVars, outboxVars, leaseVars, treeVars, policyVars,
                 workVars, turnsVars, focus>>

BackendInit ==
  /\ focus \in Parts
  /\ PoolInit /\ GatewayInit /\ OutboxInit /\ LeaseInit
  /\ TreeInit /\ PolicyInit /\ WorkInit /\ TurnsInit

PoolMoves ==
  /\ focus = "pool" /\ PoolNext
  /\ UNCHANGED <<gatewayVars, outboxVars, leaseVars, treeVars,
                 policyVars, workVars, turnsVars, focus>>

GatewayMoves ==
  /\ focus = "gateway" /\ GatewayNext
  /\ UNCHANGED <<poolVars, outboxVars, leaseVars, treeVars,
                 policyVars, workVars, turnsVars, focus>>

OutboxMoves ==
  /\ focus = "outbox" /\ OutboxNext
  /\ UNCHANGED <<poolVars, gatewayVars, leaseVars, treeVars,
                 policyVars, workVars, turnsVars, focus>>

LeaseMoves ==
  /\ focus = "lease" /\ LeaseNext
  /\ UNCHANGED <<poolVars, gatewayVars, outboxVars, treeVars,
                 policyVars, workVars, turnsVars, focus>>

TreeMoves ==
  /\ focus = "tree" /\ TreeNext
  /\ UNCHANGED <<poolVars, gatewayVars, outboxVars, leaseVars,
                 policyVars, workVars, turnsVars, focus>>

PolicyMoves ==
  /\ focus = "policy" /\ PolicyNext
  /\ UNCHANGED <<poolVars, gatewayVars, outboxVars, leaseVars,
                 treeVars, workVars, turnsVars, focus>>

WorkMoves ==
  /\ focus = "work" /\ WorkNext
  /\ UNCHANGED <<poolVars, gatewayVars, outboxVars, leaseVars,
                 treeVars, policyVars, turnsVars, focus>>

TurnsMoves ==
  /\ focus = "turns" /\ TurnsNext
  /\ UNCHANGED <<poolVars, gatewayVars, outboxVars, leaseVars,
                 treeVars, policyVars, workVars, focus>>

BackendNext ==
  \/ PoolMoves \/ GatewayMoves \/ OutboxMoves \/ LeaseMoves
  \/ TreeMoves \/ PolicyMoves \/ WorkMoves \/ TurnsMoves

(***************************************************************************)
(* Each part's own fairness, when it is the one that moves.                *)
(***************************************************************************)
BackendFairness ==
  /\ \A k \in Callers : WF_gatewayVars(focus = "gateway" /\ CallerStep(k))
  /\ WF_gatewayVars(focus = "gateway" /\ NextHour)
  /\ WF_gatewayVars(focus = "gateway" /\ RecoveryTimePasses)
  /\ \A p \in Processors : WF_outboxVars(focus = "outbox" /\ ProcessorStep(p))
  /\ \A e \in Events : WF_outboxVars(focus = "outbox" /\ BackoffPasses(e))
  /\ WF_treeVars(focus = "tree" /\ Execute)
  /\ \A t \in TurnIds : WF_turnsVars(focus = "turns" /\ TurnGoesOn(t))

BackendSpec == BackendInit /\ [][BackendNext]_backendVars /\ BackendFairness

-----------------------------------------------------------------------------
(* Every part's state stays in its type: counts of slots, probes, attempts *)
(* and rounds within their limits, and no row refers to one that is gone.  *)
BackendTypeOK ==
  /\ PoolTypeOK /\ GatewayTypeOK /\ OutboxTypeOK /\ LeaseTypeOK
  /\ TreeTypeOK /\ PolicyTypeOK /\ WorkTypeOK /\ TurnsTypeOK
=============================================================================
