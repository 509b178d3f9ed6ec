----------------------------- MODULE LlmGateway -----------------------------
(***************************************************************************)
(* The way of a model call out of one backend process: call_llm            *)
(* (clients.py) checks the tenant's hourly quota (tenant_quota.py), goes   *)
(* through the process's circuit breaker (shared/openrouter_resilience.py) *)
(* and adds the tokens it used to the tenant's row.                        *)
(*                                                                         *)
(* Callers are threads; each section under the breaker's lock and each SQL *)
(* statement is one action.  The retries inside a call                     *)
(* (execute_with_http_retries) are part of the call: it answers or fails.  *)
(***************************************************************************)
EXTENDS Integers, FiniteSets

CONSTANTS
  Callers,            \* threads in call_llm
  FailureThreshold,   \* failure_threshold
  ProbeMax,           \* half_open_max_requests
  TokenLimit,         \* CENTRAL_QUOTA_PER_TENANT_PER_HOUR
  MaxCost,            \* bound: tokens of one call
  MaxReported         \* bound: tokens clients report in one hour

ASSUME GatewayAssumption ==
  /\ FailureThreshold \in Nat \ {0} /\ ProbeMax \in Nat \ {0}
  /\ TokenLimit \in Nat \ {0} /\ MaxCost \in Nat /\ MaxReported \in Nat
  /\ IsFiniteSet(Callers)

VARIABLES
  circuit,     \* _state
  failures,    \* _failure_count, counted up to FailureThreshold
  probes,      \* _half_open_count
  probing,     \* history: callers a half-open circuit has let through
  cooled,      \* recovery_timeout has passed since _last_failure_time
  upstream,    \* "flaky": a call may fail; "healthy": calls begun from now on succeed
  usage,       \* tokens in the tenant's row of this hour
  reported,    \* those of them that clients reported (inference-complete)
  caller       \* "idle", "admitted", "doomed" (calling since before the upstream
               \* healed), "calling", "answered"

breakerVars == <<circuit, failures, probes, probing, cooled>>
quotaVars == <<usage, reported>>
gatewayVars == <<breakerVars, upstream, quotaVars, caller>>

InFlight == {k \in Callers : caller[k] # "idle"}
CallerGoes(k, at) == caller' = [caller EXCEPT ![k] = at]

GatewayTypeOK ==
  /\ circuit \in {"closed", "open", "half_open"}
  /\ failures \in 0..FailureThreshold
  /\ probes \in 0..ProbeMax
  /\ probing \subseteq Callers
  /\ cooled \in BOOLEAN
  /\ upstream \in {"flaky", "healthy"}
  /\ usage \in Nat /\ reported \in 0..MaxReported
  /\ caller \in [Callers -> {"idle", "admitted", "doomed", "calling", "answered"}]

GatewayInit ==
  /\ circuit = "closed" /\ failures = 0 /\ probes = 0 /\ probing = {} /\ cooled = FALSE
  /\ upstream = "flaky"
  /\ usage = 0 /\ reported = 0
  /\ caller = [k \in Callers |-> "idle"]

\* Mutant: a call starts with the limit reached.
CheckQuotaAtLimit(k) ==
  /\ caller[k] = "idle"
  /\ usage =< TokenLimit
  /\ CallerGoes(k, "admitted")
  /\ UNCHANGED <<breakerVars, upstream, quotaVars>>

(***************************************************************************)
(* check_quota: a call starts while the row is below the limit.            *)
(***************************************************************************)
CheckQuota(k) ==
  /\ caller[k] = "idle"
  /\ usage < TokenLimit
  /\ CallerGoes(k, "admitted")
  /\ UNCHANGED <<breakerVars, upstream, quotaVars>>

(***************************************************************************)
(* CircuitBreaker.call up to fn(): an open circuit whose recovery time has *)
(* passed becomes half open; a call that may not go on raises              *)
(* CircuitOpenError.                                                       *)
(***************************************************************************)
Recovers == circuit = "open" /\ cooled

MayCall ==
  CASE circuit = "closed"    -> TRUE
    [] circuit = "open"      -> cooled
    [] circuit = "half_open" -> probes < ProbeMax

Enter(k) ==
  /\ caller[k] = "admitted"
  /\ circuit' = IF Recovers THEN "half_open" ELSE circuit
  /\ probes' = IF Recovers THEN 0 ELSE probes
  /\ probing' = IF Recovers THEN {k}
                ELSE IF circuit = "half_open" /\ MayCall THEN probing \cup {k} ELSE probing
  /\ CallerGoes(k, IF ~MayCall THEN "idle"
                   ELSE IF upstream = "flaky" THEN "doomed" ELSE "calling")
  /\ UNCHANGED <<failures, cooled, upstream, quotaVars>>

(***************************************************************************)
(* fn() returned: _on_success.                                             *)
(***************************************************************************)
Succeed(k) ==
  /\ caller[k] \in {"doomed", "calling"}
  /\ circuit' = IF circuit = "half_open" THEN "closed" ELSE circuit
  /\ failures' = 0 /\ probing' = {}
  /\ CallerGoes(k, "answered")
  /\ UNCHANGED <<probes, cooled, upstream, quotaVars>>

\* Mutant: a failed probe is counted and leaves the circuit half open.
FailKeepsProbing(k) ==
  /\ caller[k] = "doomed"
  /\ LET counted == IF failures < FailureThreshold THEN failures + 1 ELSE failures
     IN  /\ failures' = counted
         /\ circuit' = IF circuit = "closed" /\ counted = FailureThreshold THEN "open" ELSE circuit
         /\ probes' = IF circuit = "half_open" THEN probes + 1 ELSE probes
  /\ cooled' = FALSE
  /\ CallerGoes(k, "idle")
  /\ UNCHANGED <<probing, upstream, quotaVars>>

(***************************************************************************)
(* fn() raised, in whatever state the circuit is by then: _on_failure.     *)
(***************************************************************************)
Fail(k) ==
  /\ caller[k] = "doomed"
  /\ LET counted == IF failures < FailureThreshold THEN failures + 1 ELSE failures
         opens == circuit = "half_open" \/ (circuit = "closed" /\ counted = FailureThreshold)
     IN  /\ failures' = counted
         /\ circuit' = IF opens THEN "open" ELSE circuit
         /\ probes' = IF circuit = "half_open" THEN probes + 1 ELSE probes
  /\ cooled' = FALSE /\ probing' = {}
  /\ CallerGoes(k, "idle")
  /\ UNCHANGED <<upstream, quotaVars>>

(***************************************************************************)
(* increment_usage, one UPDATE that adds; a failure of it is swallowed.    *)
(***************************************************************************)
Count(k, cost) ==
  /\ caller[k] = "answered"
  /\ usage' = usage + cost
  /\ CallerGoes(k, "idle")
  /\ UNCHANGED <<breakerVars, upstream, reported>>

(***************************************************************************)
(* POST /connector/inference-complete: a client adds the tokens of a call  *)
(* it made itself, which no quota check preceded.                          *)
(***************************************************************************)
ReportUsage ==
  /\ reported < MaxReported
  /\ usage' = usage + 1 /\ reported' = reported + 1
  /\ UNCHANGED <<breakerVars, upstream, caller>>

\* The row of the next hour starts at zero.
NextHour ==
  /\ usage > 0
  /\ usage' = 0 /\ reported' = 0
  /\ UNCHANGED <<breakerVars, upstream, caller>>

RecoveryTimePasses ==
  /\ circuit = "open" /\ ~cooled
  /\ cooled' = TRUE
  /\ UNCHANGED <<circuit, failures, probes, probing, upstream, quotaVars, caller>>

UpstreamHeals ==
  /\ upstream = "flaky"
  /\ upstream' = "healthy"
  /\ UNCHANGED <<breakerVars, quotaVars, caller>>

CallerStep(k) ==
  \/ CheckQuota(k) \/ Enter(k)
  \/ Succeed(k) \/ Fail(k)
  \/ \E cost \in 0..MaxCost : Count(k, cost)

GatewayNext ==
  \/ \E k \in Callers : CallerStep(k)
  \/ ReportUsage \/ NextHour \/ RecoveryTimePasses \/ UpstreamHeals

(***************************************************************************)
(* Threads run, clocks advance, and the backend keeps being asked.         *)
(***************************************************************************)
GatewayFairness ==
  /\ \A k \in Callers : WF_gatewayVars(CallerStep(k))
  /\ WF_gatewayVars(NextHour)
  /\ WF_gatewayVars(RecoveryTimePasses)

GatewaySpec == GatewayInit /\ [][GatewayNext]_gatewayVars /\ GatewayFairness

-----------------------------------------------------------------------------
(* However many calls were already past check_quota when the row reached   *)
(* the limit, an hour overshoots it by at most what those calls and the    *)
(* clients' own reports add: tokens are added by one UPDATE each and       *)
(* checked before the call, not reserved.                                  *)
QuotaOvershoot ==
  usage + MaxCost * Cardinality(InFlight)
    =< TokenLimit - 1 + MaxCost * Cardinality(Callers) + reported

(* A half-open circuit lets through at most the calls that its setting     *)
(* names ("half_open_max_requests: int = 1  # probe requests in half_open"). *)
(* The code does not keep this: CircuitBreaker.call compares the limit with *)
(* a count that only a failed probe raises, which opens the circuit again. *)
ProbesWithinLimit == circuit = "half_open" => Cardinality(probing) =< ProbeMax

(* Once the upstream serves again the circuit closes for good, whatever    *)
(* old calls still fail after that (_on_failure of a call begun before).   *)
CircuitRecovers == upstream = "healthy" ~> [](circuit = "closed")
=============================================================================
