--------------------------- MODULE BackendProofs ----------------------------
(* Proofs of the invariants of the gateway, the outbox, the lease, the work *)
(* queue and the agent tree, each for its own specification and for any     *)
(* number of callers, processors, work items, requests and nodes; and of    *)
(* all the invariants for the composition.                                  *)
EXTENDS Backend, ConnPoolProofs, PolicyBundlesProofs, TurnsProofs

-----------------------------------------------------------------------------
(* The lease: an item that was told so has the entry.                       *)

LeaseInv == LeaseTypeOK /\ LockedItemHasEntry

LEMMA LeaseStart == LeaseInit => LeaseInv
BY LeaseAssumption DEF LeaseInit, LeaseInv, LeaseTypeOK, LockedItemHasEntry

LEMMA LeaseStep == LeaseInv /\ [LeaseNext]_leaseVars => LeaseInv'
<1> SUFFICES ASSUME LeaseInv, [LeaseNext]_leaseVars PROVE LeaseInv'
  OBVIOUS
<1> USE LeaseAssumption DEF LeaseInv, LeaseTypeOK, LockedItemHasEntry
<1>1. ASSUME NEW i \in Items, Claim(i) PROVE LeaseInv'
  BY <1>1 DEF Claim, Told
<1>6. ASSUME NEW i \in Items, Renew(i) PROVE LeaseInv'
  BY <1>6 DEF Renew, Told
<1>2. ASSUME NEW i \in Items, ReleaseStale(i) PROVE LeaseInv'
  BY <1>2 DEF ReleaseStale, Told
<1>3. ASSUME NEW i \in Items, Conflict(i) PROVE LeaseInv'
  BY <1>3 DEF Conflict
<1>4. ASSUME NEW i \in Items, Lapse(i) PROVE LeaseInv'
  BY <1>4 DEF Lapse
<1>5. CASE UNCHANGED leaseVars
  BY <1>5 DEF leaseVars
<1> QED BY <1>1, <1>2, <1>3, <1>4, <1>5, <1>6 DEF LeaseNext

(* A lease in time is never lost to another item (FileLeaseStep.run).       *)
THEOREM LeaseSafety == LeaseSpec => []LockedItemHasEntry
BY LeaseStart, LeaseStep, PTL DEF LeaseSpec, LeaseInv

-----------------------------------------------------------------------------
(* The gateway: breaker and quota.                                          *)

(* The breaker's counts stay within their limits because a half-open        *)
(* circuit has room for a failed probe: Enter resets the count, and the     *)
(* failure that fills it opens the circuit (_on_failure).                   *)
ProbeRoom == circuit = "half_open" => probes < ProbeMax
GatewayInv == GatewayTypeOK /\ ProbeRoom

LEMMA GatewayStep == GatewayInv /\ [GatewayNext]_gatewayVars => GatewayInv'
<1> SUFFICES ASSUME GatewayInv, [GatewayNext]_gatewayVars PROVE GatewayInv'
  OBVIOUS
<1> USE GatewayAssumption
    DEF GatewayInv, GatewayTypeOK, ProbeRoom, breakerVars, quotaVars, CallerGoes
<1>1. ASSUME NEW k \in Callers, CheckQuota(k) PROVE GatewayInv'
  BY <1>1 DEF CheckQuota
<1>2. ASSUME NEW k \in Callers, Enter(k) PROVE GatewayInv'
  <2>1. \E at \in {"idle", "doomed", "calling"} : caller' = [caller EXCEPT ![k] = at]
    BY <1>2 DEF Enter
  <2>2. \/ circuit' = "half_open" /\ probes' = 0
        \/ circuit' = circuit /\ probes' = probes
    BY <1>2 DEF Enter
  <2> QED BY <1>2, <2>1, <2>2 DEF Enter
<1>3. ASSUME NEW k \in Callers, Succeed(k) PROVE GatewayInv'
  BY <1>3 DEF Succeed
<1>4. ASSUME NEW k \in Callers, Fail(k) PROVE GatewayInv'
  <2>1. failures' \in 0..FailureThreshold
    BY <1>4 DEF Fail
  <2>2. CASE circuit = "half_open"
    <3>1. circuit' = "open" /\ probes' = probes + 1 /\ probes + 1 \in 0..ProbeMax
      BY <1>4, <2>2 DEF Fail
    <3> QED BY <1>4, <2>1, <3>1 DEF Fail
  <2>3. CASE circuit # "half_open"
    BY <1>4, <2>1, <2>3 DEF Fail
  <2> QED BY <2>2, <2>3
<1>5. ASSUME NEW k \in Callers, NEW cost \in 0..MaxCost, Count(k, cost) PROVE GatewayInv'
  BY <1>5 DEF Count
<1>6. CASE ReportUsage
  BY <1>6 DEF ReportUsage
<1>7. CASE NextHour
  BY <1>7 DEF NextHour
<1>8. CASE RecoveryTimePasses \/ UpstreamHeals
  BY <1>8 DEF RecoveryTimePasses, UpstreamHeals
<1>9. CASE UNCHANGED gatewayVars
  BY <1>9 DEF gatewayVars
<1> QED BY <1>1, <1>2, <1>3, <1>4, <1>5, <1>6, <1>7, <1>8, <1>9 DEF GatewayNext, CallerStep

LEMMA GatewayStart == GatewayInit => GatewayInv
<1> SUFFICES ASSUME GatewayInit PROVE GatewayInv
  OBVIOUS
<1>1. 0 \in 0..FailureThreshold /\ 0 \in 0..ProbeMax /\ 0 \in 0..MaxReported
  BY GatewayAssumption
<1> QED BY <1>1 DEF GatewayInit, GatewayInv, GatewayTypeOK, ProbeRoom

(* The callers in flight are finitely many, and one step moves one of them. *)
LEMMA InFlightFinite ==
  /\ IsFiniteSet(InFlight) /\ Cardinality(InFlight) \in Nat
  /\ Cardinality(Callers) \in Nat /\ Cardinality(InFlight) =< Cardinality(Callers)
BY FS_Subset, FS_CardinalityType, GatewayAssumption, InFlight \subseteq Callers DEF InFlight

LEMMA Product == ASSUME NEW m \in Nat, NEW a \in Nat, NEW b \in Nat, a =< b
                 PROVE  m * a \in Nat /\ m * b \in Nat /\ m * a =< m * b
<1>1. PICK d \in Nat : b = a + d
  BY b - a \in Nat
<1>2. m * b = m * a + m * d /\ m * d \in Nat /\ m * a \in Nat
  BY <1>1
<1> QED BY <1>1, <1>2

LEMMA QuotaStart == GatewayInit => QuotaOvershoot
<1> SUFFICES ASSUME GatewayInit PROVE QuotaOvershoot
  OBVIOUS
<1>1. InFlight = {}
  BY DEF GatewayInit, InFlight
<1>2. Cardinality(InFlight) = 0
  BY <1>1, FS_EmptySet
<1>3. MaxCost * Cardinality(Callers) \in Nat /\ MaxCost * 0 = 0
  BY InFlightFinite, GatewayAssumption, Product
<1> QED BY <1>2, <1>3, GatewayAssumption DEF QuotaOvershoot, GatewayInit

(* The tokens in the row, plus what the calls in flight may still add,      *)
(* never exceed the bound.                                                  *)
LEMMA QuotaStep == GatewayInv /\ QuotaOvershoot /\ [GatewayNext]_gatewayVars => QuotaOvershoot'
<1> SUFFICES ASSUME GatewayInv, QuotaOvershoot, [GatewayNext]_gatewayVars
             PROVE  QuotaOvershoot'
  OBVIOUS
<1> DEFINE here == MaxCost * Cardinality(InFlight)
           all == MaxCost * Cardinality(Callers)
<1>1. /\ here \in Nat /\ all \in Nat /\ here =< all
      /\ here' \in Nat /\ here' =< all
  <2>1. Cardinality(InFlight)' \in Nat /\ Cardinality(InFlight)' =< Cardinality(Callers)
    BY FS_Subset, FS_CardinalityType, GatewayAssumption, InFlight' \subseteq Callers DEF InFlight
  <2> QED BY InFlightFinite, <2>1, Product, GatewayAssumption
<1>2. usage \in Nat /\ reported \in Nat /\ TokenLimit \in Nat
  BY GatewayAssumption DEF GatewayInv, GatewayTypeOK
<1>3. usage + here =< TokenLimit - 1 + all + reported
  BY DEF QuotaOvershoot
<1>4. ASSUME InFlight' \subseteq InFlight PROVE here' =< here
  <2>1. Cardinality(InFlight)' \in Nat /\ Cardinality(InFlight)' =< Cardinality(InFlight)
    BY <1>4, FS_Subset, FS_CardinalityType, InFlightFinite, GatewayAssumption
  <2> QED BY <2>1, InFlightFinite, Product, GatewayAssumption
<1>5. SUFFICES usage' + here' =< TokenLimit - 1 + all + reported'
  BY DEF QuotaOvershoot
<1> USE DEF breakerVars, quotaVars, CallerGoes
<1>6. ASSUME NEW k \in Callers, CheckQuota(k)
      PROVE  usage' + here' =< TokenLimit - 1 + all + reported'
  <2>1. usage =< TokenLimit - 1 /\ usage' = usage /\ reported' = reported
    BY <1>6, <1>2 DEF CheckQuota
  <2> QED BY <1>1, <1>2, <2>1
<1>7. ASSUME usage' = usage, reported' = reported, InFlight' \subseteq InFlight
      PROVE  usage' + here' =< TokenLimit - 1 + all + reported'
  <2>1. here' =< here
    BY <1>4, <1>7
  <2> QED BY <1>1, <1>2, <1>3, <1>7, <2>1
<1>8. ASSUME NEW k \in Callers, Enter(k) \/ Succeed(k) \/ Fail(k)
      PROVE  InFlight' \subseteq InFlight /\ usage' = usage /\ reported' = reported
  BY <1>8 DEF Enter, Succeed, Fail, InFlight, GatewayInv, GatewayTypeOK
<1>9. ASSUME NEW k \in Callers, NEW cost \in 0..MaxCost, Count(k, cost)
      PROVE  usage' + here' =< TokenLimit - 1 + all + reported'
  <2>1. usage' = usage + cost /\ reported' = reported
    BY <1>9 DEF Count
  <2>2. k \in InFlight /\ InFlight' = InFlight \ {k}
    BY <1>9 DEF Count, InFlight, GatewayInv, GatewayTypeOK
  <2>3. Cardinality(InFlight)' = Cardinality(InFlight) - 1
    BY <2>2, FS_RemoveElement, InFlightFinite
  <2>4. here' = here - MaxCost
    BY <2>3, InFlightFinite, GatewayAssumption
  <2>5. cost \in Nat /\ cost =< MaxCost /\ MaxCost \in Nat
    BY GatewayAssumption
  <2> QED BY <1>1, <1>2, <1>3, <2>1, <2>4, <2>5
<1>10. ASSUME ReportUsage PROVE usage' + here' =< TokenLimit - 1 + all + reported'
  <2>1. usage' = usage + 1 /\ reported' = reported + 1 /\ InFlight' = InFlight
    BY <1>10 DEF ReportUsage, InFlight
  <2>2. here' =< here
    BY <2>1, <1>4
  <2> QED BY <1>1, <1>2, <1>3, <2>1, <2>2
<1>11. ASSUME NextHour PROVE usage' + here' =< TokenLimit - 1 + all + reported'
  <2>1. usage' = 0 /\ reported' = 0 /\ TokenLimit >= 1
    BY <1>11, GatewayAssumption DEF NextHour
  <2> QED BY <1>1, <1>2, <2>1
<1>12. ASSUME RecoveryTimePasses \/ UpstreamHeals \/ UNCHANGED gatewayVars
       PROVE  InFlight' \subseteq InFlight /\ usage' = usage /\ reported' = reported
  BY <1>12 DEF RecoveryTimePasses, UpstreamHeals, gatewayVars, InFlight
<1> QED
  BY <1>6, <1>7, <1>8, <1>9, <1>10, <1>11, <1>12 DEF GatewayNext, CallerStep

(* An hour overshoots the limit by what the calls in flight and the         *)
(* clients' reports add.                                                    *)
THEOREM QuotaSafety == GatewaySpec => []QuotaOvershoot
BY GatewayStart, GatewayStep, QuotaStart, QuotaStep, PTL DEF GatewaySpec

-----------------------------------------------------------------------------
(* The outbox: attempts, dead letters and deliveries.                       *)

(* What a processor holds: the counts it SELECTed are not ahead of the      *)
(* refusals, and the post it has made is recorded as accepted or as one     *)
(* refusal more.                                                            *)
BatchesAreBehind ==
  \A p \in Processors :
    /\ \A e \in DOMAIN processor[p].batch : processor[p].batch[e] =< refused[e]
    /\ \A e \in processor[p].event :
         IF processor[p].ok THEN e \in accepted ELSE processor[p].batch[e] + 1 =< refused[e]

\* What a SELECT returns: of pending rows, which have an attempt left.
Batches == UNION {[D -> 0..MaxAttempts - 1] : D \in SUBSET Events}

OutboxInv ==
  /\ row \in [Events -> [status : Statuses, attempts : 0..MaxAttempts, due : BOOLEAN]]
  /\ \A e \in Events : row[e].status = "pending" => row[e].attempts < MaxAttempts
  /\ processor \in [Processors -> [at : {"idle", "batch", "posted"}, batch : Batches,
                                   event : SUBSET Events, ok : BOOLEAN]]
  /\ \A p \in Processors : processor[p].event \subseteq DOMAIN processor[p].batch
  /\ \A p \in Processors : processor[p].at # "posted" => processor[p].event = {}
  /\ refused \in [Events -> Nat] /\ accepted \subseteq Events
  /\ OutboxTellsTheTruth /\ BatchesAreBehind

LEMMA BatchesType ==
  ASSUME NEW b \in Batches
  PROVE  DOMAIN b \subseteq Events /\ \A e \in DOMAIN b : b[e] \in 0..MaxAttempts - 1
BY DEF Batches

LEMMA BatchOf ==
  ASSUME NEW D \in SUBSET Events, NEW b \in [D -> 0..MaxAttempts - 1] PROVE b \in Batches
BY DEF Batches

LEMMA RestingType ==
  /\ NoBatch \in Batches /\ DOMAIN NoBatch = {}
  /\ Resting \in [at : {"idle", "batch", "posted"}, batch : Batches, event : SUBSET Events,
                  ok : BOOLEAN]
  /\ Resting.at = "idle" /\ Resting.batch = NoBatch /\ Resting.event = {} /\ Resting.ok = FALSE
<1>1. NoBatch \in [{} -> 0..MaxAttempts - 1] /\ DOMAIN NoBatch = {}
  BY DEF NoBatch
<1>2. NoBatch \in Batches
  BY <1>1, BatchOf
<1> QED BY <1>1, <1>2 DEF Resting

LEMMA OutboxStart == OutboxInit => OutboxInv
<1> SUFFICES ASSUME OutboxInit PROVE OutboxInv
  OBVIOUS
<1>1. 0 \in 0..MaxAttempts /\ 0 < MaxAttempts
  BY OutboxAssumption
<1>2. row \in [Events -> [status : Statuses, attempts : 0..MaxAttempts, due : BOOLEAN]]
  BY <1>1 DEF OutboxInit, Statuses
<1>3. \A e \in Events : row[e].status = "absent" /\ row[e].attempts = 0
  BY DEF OutboxInit
<1>4. /\ processor \in [Processors -> [at : {"idle", "batch", "posted"}, batch : Batches,
                                       event : SUBSET Events, ok : BOOLEAN]]
      /\ \A p \in Processors : processor[p].event = {} /\ DOMAIN processor[p].batch = {}
  BY RestingType DEF OutboxInit
<1>5. refused \in [Events -> Nat] /\ \A e \in Events : refused[e] = 0
  BY DEF OutboxInit
<1> QED BY <1>1, <1>2, <1>3, <1>4, <1>5 DEF OutboxInit, OutboxInv, OutboxTellsTheTruth, BatchesAreBehind

LEMMA OutboxStep == OutboxInv /\ [OutboxNext]_outboxVars => OutboxInv'
<1> SUFFICES ASSUME OutboxInv, [OutboxNext]_outboxVars PROVE OutboxInv'
  OBVIOUS
<1>1. ASSUME NEW e \in Events, Enqueue(e) \/ BackoffPasses(e) PROVE OutboxInv'
  <2>1. /\ row' \in [Events -> [status : Statuses, attempts : 0..MaxAttempts, due : BOOLEAN]]
        /\ \A f \in Events \ {e} : row'[f] = row[f]
        /\ \/ row'[e].status = "pending" /\ row'[e].attempts = 0
           \/ row'[e].status = row[e].status /\ row'[e].attempts = row[e].attempts
    <3>1. CASE Enqueue(e)
      BY <3>1, OutboxAssumption DEF Enqueue, OutboxInv, Statuses
    <3>2. CASE BackoffPasses(e)
      BY <3>2 DEF BackoffPasses, OutboxInv
    <3> QED BY <1>1, <3>1, <3>2
  <2>2. UNCHANGED <<processor, accepted, refused>>
    BY <1>1 DEF Enqueue, BackoffPasses
  <2>3. \A f \in Events : 0 =< refused[f]
    BY DEF OutboxInv
  <2>4. OutboxTellsTheTruth'
    BY <2>1, <2>2, <2>3 DEF OutboxInv, OutboxTellsTheTruth
  <2>5. BatchesAreBehind'
    BY <2>2 DEF OutboxInv, BatchesAreBehind
  <2> QED BY <2>1, <2>2, <2>4, <2>5, OutboxAssumption DEF OutboxInv
<1>2. ASSUME NEW p \in Processors, SelectDue(p) PROVE OutboxInv'
  <2> DEFINE read == [e \in DueRows |-> row[e].attempts]
  <2>1. /\ processor' = [processor EXCEPT ![p].at = "batch", ![p].batch = read]
        /\ processor[p].at = "idle" /\ processor[p].event = {}
        /\ UNCHANGED <<row, accepted, refused>>
    BY <1>2 DEF SelectDue, OutboxInv
  <2>2. /\ DueRows \subseteq Events /\ DOMAIN read = DueRows
        /\ read \in [DueRows -> 0..MaxAttempts - 1]
        /\ \A e \in DOMAIN read : read[e] =< refused[e]
    BY OutboxAssumption DEF DueRows, OutboxInv, OutboxTellsTheTruth
  <2>3. read \in Batches
    BY <2>2, BatchOf
  <2> HIDE DEF read
  <2>4. /\ processor' \in [Processors -> [at : {"idle", "batch", "posted"}, batch : Batches,
                                          event : SUBSET Events, ok : BOOLEAN]]
        /\ processor'[p].event = {} /\ processor'[p].batch = read
        /\ \A q \in Processors \ {p} : processor'[q] = processor[q]
    BY <2>1, <2>3 DEF OutboxInv
  <2>5. BatchesAreBehind'
    BY <2>1, <2>2, <2>4 DEF OutboxInv, BatchesAreBehind
  <2> QED BY <2>1, <2>4, <2>5 DEF OutboxInv, OutboxTellsTheTruth
<1>3. ASSUME NEW p \in Processors, NEW e \in Events, NEW ok \in BOOLEAN, Post(p, e, ok)
      PROVE  OutboxInv'
  <2>1. /\ e \in DOMAIN processor[p].batch
        /\ processor' = [processor EXCEPT ![p].at = "posted", ![p].event = {e}, ![p].ok = ok]
        /\ UNCHANGED row
    BY <1>3 DEF Post
  <2>2. /\ processor' \in [Processors -> [at : {"idle", "batch", "posted"}, batch : Batches,
                                          event : SUBSET Events, ok : BOOLEAN]]
        /\ processor'[p].at = "posted" /\ processor'[p].event = {e} /\ processor'[p].ok = ok
        /\ processor'[p].batch = processor[p].batch
        /\ \A q \in Processors \ {p} : processor'[q] = processor[q]
    BY <2>1 DEF OutboxInv
  <2>3. processor[p].batch[e] \in Nat /\ processor[p].batch[e] =< refused[e] /\ refused[e] \in Nat
    BY <2>1, BatchesType, OutboxAssumption DEF OutboxInv, BatchesAreBehind
  <2>4. /\ accepted' \subseteq Events /\ accepted \subseteq accepted'
        /\ refused' \in [Events -> Nat] /\ \A f \in Events : refused[f] =< refused'[f]
        /\ IF ok THEN e \in accepted' ELSE processor[p].batch[e] + 1 =< refused'[e]
    BY <1>3, <2>3 DEF Post, OutboxInv
  <2>5. \A q \in Processors : \A f \in DOMAIN processor[q].batch :
          f \in Events /\ processor[q].batch[f] \in Nat
    BY BatchesType, OutboxAssumption DEF OutboxInv
  <2>6. \A f \in Events : refused[f] \in Nat /\ refused'[f] \in Nat
    BY <2>4 DEF OutboxInv
  <2>7. OutboxTellsTheTruth'
    BY <2>1, <2>4, <2>6, OutboxAssumption DEF OutboxInv, OutboxTellsTheTruth
  <2>8. ASSUME NEW q \in Processors
        PROVE  /\ \A f \in DOMAIN processor'[q].batch : processor'[q].batch[f] =< refused'[f]
               /\ \A f \in processor'[q].event :
                    IF processor'[q].ok THEN f \in accepted'
                                        ELSE processor'[q].batch[f] + 1 =< refused'[f]
    <3>1. /\ \A f \in DOMAIN processor[q].batch : processor[q].batch[f] =< refused'[f]
          /\ \A f \in processor[q].event :
               IF processor[q].ok THEN f \in accepted'
                                  ELSE processor[q].batch[f] + 1 =< refused'[f]
      BY <2>4, <2>5, <2>6 DEF OutboxInv, BatchesAreBehind
    <3>2. CASE q = p
      BY <2>2, <2>4, <3>1, <3>2
    <3>3. CASE q # p
      BY <2>2, <3>1, <3>3
    <3> QED BY <3>2, <3>3
  <2>9. BatchesAreBehind'
    BY <2>8 DEF BatchesAreBehind
  <2> QED BY <2>1, <2>2, <2>4, <2>7, <2>9 DEF OutboxInv
<1>4. ASSUME NEW p \in Processors, NEW e \in Events, Settle(p, e) PROVE OutboxInv'
  <2> DEFINE seen == processor[p].batch[e]
             rest == Without(processor[p].batch, e)
             after == Outcome(row[e], processor[p].ok, seen)
  <2>1. /\ row' = [row EXCEPT ![e] = after]
        /\ UNCHANGED <<accepted, refused>>
    BY <1>4 DEF Settle, OutboxInv
  <2>2. /\ seen \in 0..MaxAttempts - 1
        /\ IF processor[p].ok THEN e \in accepted ELSE seen + 1 =< refused[e]
        /\ processor[p].ok \in BOOLEAN
    BY <1>4, BatchesType DEF Settle, OutboxInv, BatchesAreBehind
  <2>3. /\ after \in [status : Statuses, attempts : 0..MaxAttempts, due : BOOLEAN]
        /\ after.attempts =< refused[e]
        /\ after.status = "pending" => after.attempts < MaxAttempts
        /\ after.status = "dead" => refused[e] >= MaxAttempts
        /\ after.status = "delivered" => e \in accepted
    <3>1. /\ row[e] \in [status : Statuses, attempts : 0..MaxAttempts, due : BOOLEAN]
          /\ row[e].attempts =< refused[e] /\ refused[e] \in Nat
          /\ row[e].status = "dead" => refused[e] >= MaxAttempts
          /\ row[e].status = "delivered" => e \in accepted
      BY DEF OutboxInv, OutboxTellsTheTruth
    <3>2. CASE processor[p].ok
      <4>1. after = [row[e] EXCEPT !.status = "delivered"]
        BY <3>2 DEF Outcome
      <4> QED BY <2>2, <3>1, <3>2, <4>1 DEF Statuses
    <3>3. CASE ~processor[p].ok /\ seen + 1 >= MaxAttempts
      <4>1. after = [row[e] EXCEPT !.status = "dead", !.attempts = seen + 1]
        BY <3>3 DEF Outcome
      <4>2. seen + 1 \in 0..MaxAttempts /\ seen + 1 =< refused[e] /\ refused[e] >= MaxAttempts
        BY <2>2, <3>1, <3>3, OutboxAssumption
      <4> HIDE DEF after, seen
      <4> QED BY <3>1, <4>1, <4>2 DEF Statuses
    <3>4. CASE ~processor[p].ok /\ ~(seen + 1 >= MaxAttempts)
      <4>1. after = [row[e] EXCEPT !.attempts = seen + 1, !.due = FALSE]
        BY <3>4 DEF Outcome
      <4>2. seen + 1 \in 0..MaxAttempts /\ seen + 1 =< refused[e] /\ seen + 1 < MaxAttempts
        BY <2>2, <3>1, <3>4, OutboxAssumption
      <4> HIDE DEF after, seen
      <4> QED BY <3>1, <4>1, <4>2
    <3> QED BY <2>2, <3>2, <3>3, <3>4
  <2>4. /\ rest \in Batches /\ DOMAIN rest \subseteq DOMAIN processor[p].batch
        /\ \A f \in DOMAIN rest : rest[f] = processor[p].batch[f]
    <3>1. /\ DOMAIN processor[p].batch \ {e} \subseteq Events
          /\ rest \in [DOMAIN processor[p].batch \ {e} -> 0..MaxAttempts - 1]
      BY BatchesType DEF Without, OutboxInv
    <3> QED BY <3>1, BatchOf DEF Without
  <2>5. /\ processor' \in [Processors -> [at : {"idle", "batch", "posted"}, batch : Batches,
                                          event : SUBSET Events, ok : BOOLEAN]]
        /\ processor'[p].event = {} /\ processor'[p].batch \in {NoBatch, rest}
        /\ \A q \in Processors \ {p} : processor'[q] = processor[q]
    <3> DEFINE next == IF rest = NoBatch THEN Resting
                       ELSE [Resting EXCEPT !.at = "batch", !.batch = rest]
    <3>1. processor' = [processor EXCEPT ![p] = next]
      BY <1>4 DEF Settle
    <3>2. /\ next \in [at : {"idle", "batch", "posted"}, batch : Batches,
                       event : SUBSET Events, ok : BOOLEAN]
          /\ next.event = {} /\ next.batch \in {NoBatch, rest}
      BY <2>4, RestingType
    <3> HIDE DEF next
    <3> QED BY <3>1, <3>2 DEF OutboxInv
  <2> HIDE DEF after, rest, seen
  <2>6. OutboxTellsTheTruth'
    BY <2>1, <2>3 DEF OutboxInv, OutboxTellsTheTruth
  <2>7. BatchesAreBehind'
    <3>1. ASSUME NEW q \in Processors
          PROVE  /\ \A f \in DOMAIN processor'[q].batch : processor'[q].batch[f] =< refused[f]
                 /\ \A f \in processor'[q].event :
                      IF processor'[q].ok THEN f \in accepted
                                          ELSE processor'[q].batch[f] + 1 =< refused[f]
      <4>1. CASE q # p
        BY <2>5, <4>1 DEF OutboxInv, BatchesAreBehind
      <4>2. CASE q = p /\ processor'[p].batch = rest
        BY <2>4, <2>5, <4>2 DEF OutboxInv, BatchesAreBehind
      <4>3. CASE q = p /\ processor'[p].batch = NoBatch
        BY <2>5, <4>3, RestingType
      <4> QED BY <2>5, <4>1, <4>2, <4>3
    <3> QED BY <2>1, <3>1 DEF BatchesAreBehind
  <2>8. /\ row' \in [Events -> [status : Statuses, attempts : 0..MaxAttempts, due : BOOLEAN]]
        /\ \A f \in Events : row'[f].status = "pending" => row'[f].attempts < MaxAttempts
    BY <2>1, <2>3 DEF OutboxInv
  <2> QED BY <2>1, <2>5, <2>6, <2>7, <2>8 DEF OutboxInv
<1>5. ASSUME NEW p \in Processors, ProcessorDies(p) PROVE OutboxInv'
  <2>1. /\ processor' = [processor EXCEPT ![p] = Resting]
        /\ UNCHANGED <<row, accepted, refused>>
    BY <1>5 DEF ProcessorDies
  <2> QED BY <2>1, RestingType DEF OutboxInv, OutboxTellsTheTruth, BatchesAreBehind
<1>6. CASE UNCHANGED outboxVars
  BY <1>6 DEF outboxVars, OutboxInv, OutboxTellsTheTruth, BatchesAreBehind
<1> QED BY <1>1, <1>2, <1>3, <1>4, <1>5, <1>6 DEF OutboxNext, ProcessorStep

LEMMA OutboxTyped == OutboxInv /\ deaths \in 0..MaxDeaths => OutboxTypeOK
<1> SUFFICES ASSUME OutboxInv, deaths \in 0..MaxDeaths PROVE OutboxTypeOK
  OBVIOUS
<1>1. ASSUME NEW p \in Processors
      PROVE  /\ processor[p].at \in {"idle", "batch", "posted"}
             /\ DOMAIN processor[p].batch \subseteq Events
             /\ \A e \in DOMAIN processor[p].batch : processor[p].batch[e] \in 0..MaxAttempts
             /\ processor[p].event \subseteq DOMAIN processor[p].batch
             /\ processor[p].ok \in BOOLEAN
  <2>1. /\ processor[p].at \in {"idle", "batch", "posted"} /\ processor[p].batch \in Batches
        /\ processor[p].event \subseteq DOMAIN processor[p].batch /\ processor[p].ok \in BOOLEAN
    BY DEF OutboxInv
  <2>2. \A n \in 0..MaxAttempts - 1 : n \in 0..MaxAttempts
    BY OutboxAssumption
  <2> QED BY <2>1, <2>2, BatchesType
<1> QED BY <1>1 DEF OutboxInv, OutboxTypeOK

LEMMA DeathsKept == deaths \in 0..MaxDeaths /\ [OutboxNext]_outboxVars => deaths' \in 0..MaxDeaths
<1> SUFFICES ASSUME deaths \in 0..MaxDeaths, [OutboxNext]_outboxVars PROVE deaths' \in 0..MaxDeaths
  OBVIOUS
<1>1. ASSUME NEW p \in Processors, ProcessorDies(p) PROVE deaths' \in 0..MaxDeaths
  BY <1>1, OutboxAssumption DEF ProcessorDies
<1>2. ASSUME NEW p \in Processors, ProcessorStep(p) PROVE deaths' = deaths
  BY <1>2 DEF ProcessorStep, SelectDue, Settle, Post
<1>3. ASSUME NEW e \in Events, Enqueue(e) \/ BackoffPasses(e) PROVE deaths' = deaths
  BY <1>3 DEF Enqueue, BackoffPasses
<1>4. CASE UNCHANGED outboxVars
  BY <1>4 DEF outboxVars
<1> QED BY <1>1, <1>2, <1>3, <1>4 DEF OutboxNext

(* The row tells the truth about the posts, for any number of processors.   *)
THEOREM OutboxSafety == OutboxSpec => []OutboxTellsTheTruth
BY OutboxStart, OutboxStep, PTL DEF OutboxSpec, OutboxInv

-----------------------------------------------------------------------------
(* The work queue.                                                          *)

(* A requester that came has an item; the type invariant says which rows.   *)
WorkInv ==
  /\ WorkTypeOK
  /\ \A r \in Requesters : asking[r].kind # "none" => asking[r].item \in WorkIds
  /\ BlockersWereEnded

(* One UPDATE of a row leaves every other PATCH's reads true, or overtaken. *)
LEMMA WriteStep ==
  ASSUME WorkInv, NEW i \in WorkIds,
         NEW s \in {"open", "in_progress", "review", "done", "cancelled"},
         NEW bs \in SUBSET Blockers, WriteRow(i, s, bs), NEW r \in Requesters,
         asking[r].kind = "patch",
         NEW b \in blockedBy'[asking[r].item] \ (asking[r].unread \cup Overtake(i, s, bs)[r])
  PROVE  itemStatus'[b] \in {"absent", "done", "cancelled"}
<1>1. asking[r].item \in WorkIds /\ b \in Blockers /\ b \in WorkIds
  BY WorkAssumption DEF WorkInv, WorkTypeOK, WriteRow
<1>2. b \notin overtaken[r] /\ (b = i => s \in Unblocking)
      /\ (asking[r].item = i => b \notin bs \ blockedBy[i])
  BY <1>1 DEF Overtake
<1>3. b \in blockedBy[asking[r].item]
  <2>1. CASE asking[r].item = i
    BY <1>1, <1>2, <2>1 DEF WriteRow, WorkInv, WorkTypeOK
  <2>2. CASE asking[r].item # i
    BY <1>1, <2>2 DEF WriteRow, WorkInv, WorkTypeOK
  <2> QED BY <2>1, <2>2
<1>4. itemStatus[b] \in {"absent", "done", "cancelled"}
  BY <1>2, <1>3 DEF WorkInv, BlockersWereEnded
<1>5. CASE b = i
  BY <1>1, <1>2, <1>5 DEF WriteRow, WorkInv, WorkTypeOK, Unblocking
<1>6. CASE b # i
  BY <1>1, <1>4, <1>6 DEF WriteRow, WorkInv, WorkTypeOK
<1> QED BY <1>5, <1>6

LEMMA RowTyped ==
  ASSUME WorkInv, NEW i \in WorkIds,
         NEW s \in {"open", "in_progress", "review", "done", "cancelled"},
         NEW bs \in SUBSET Blockers, WriteRow(i, s, bs)
  PROVE  /\ itemStatus' \in [WorkIds -> {"absent", "open", "in_progress", "review", "done", "cancelled"}]
         /\ blockedBy' \in [WorkIds -> SUBSET Blockers]
         /\ Overtake(i, s, bs) \in [Requesters -> SUBSET Blockers]
<1>1. itemStatus' \in [WorkIds -> {"absent", "open", "in_progress", "review", "done", "cancelled"}]
  BY DEF WorkInv, WorkTypeOK, WriteRow
<1>2. blockedBy' \in [WorkIds -> SUBSET Blockers]
  BY DEF WorkInv, WorkTypeOK, WriteRow
<1>3. ASSUME NEW r \in Requesters PROVE overtaken[r] \subseteq Blockers
  BY <1>3 DEF WorkInv, WorkTypeOK
<1>4. Overtake(i, s, bs) \in [Requesters -> SUBSET Blockers]
  BY <1>3 DEF Overtake
<1> QED BY <1>1, <1>2, <1>4

(* An UPDATE by a route that read nothing before it.                        *)
LEMMA PlainWrite ==
  ASSUME WorkInv, NEW i \in WorkIds,
         NEW s \in {"open", "in_progress", "review", "done", "cancelled"},
         NEW bs \in SUBSET Blockers, Write(i, s, bs)
  PROVE  WorkInv'
<1>1. WriteRow(i, s, bs) /\ overtaken' = Overtake(i, s, bs) /\ asking' = asking
  BY DEF Write
<1>2. WorkTypeOK'
  BY <1>1, RowTyped DEF WorkInv, WorkTypeOK
<1>3. BlockersWereEnded'
  BY <1>1, WriteStep DEF BlockersWereEnded
<1> QED BY <1>1, <1>2, <1>3 DEF WorkInv

(* The UPDATE of a requester, which then leaves.                            *)
LEMMA LastWrite ==
  ASSUME WorkInv, NEW q \in Requesters, NEW i \in WorkIds,
         NEW s \in {"open", "in_progress", "review", "done", "cancelled"},
         NEW bs \in SUBSET Blockers, WriteAndLeave(q, i, s, bs)
  PROVE  WorkInv'
<1>1. WriteRow(i, s, bs) /\ overtaken' = [Overtake(i, s, bs) EXCEPT ![q] = {}]
      /\ asking' = [asking EXCEPT ![q] = NotAsking]
  BY DEF WriteAndLeave
<1>2. WorkTypeOK'
  <2>1. overtaken' \in [Requesters -> SUBSET Blockers]
    BY <1>1, RowTyped
  <2>2. asking' \in [Requesters -> [kind : {"none", "patch", "claim", "reopen"},
                                    item : WorkIds \cup {NoItemId}, unread : SUBSET Blockers]]
    BY <1>1 DEF WorkInv, WorkTypeOK, NotAsking
  <2> QED BY <1>1, <2>1, <2>2, RowTyped DEF WorkTypeOK
<1>3. \A r \in Requesters : r # q => asking'[r] = asking[r] /\ overtaken'[r] = Overtake(i, s, bs)[r]
  BY <1>1, RowTyped DEF WorkInv, WorkTypeOK
<1>4. asking'[q] = NotAsking
  BY <1>1 DEF WorkInv, WorkTypeOK
<1>5. BlockersWereEnded'
  BY <1>1, <1>3, <1>4, WriteStep DEF BlockersWereEnded, NotAsking
<1> QED BY <1>2, <1>3, <1>4, <1>5 DEF WorkInv, NotAsking

(* A route that reads first: what a PATCH has yet to read excuses it.       *)
LEMMA ReadsStep ==
  ASSUME WorkInv, NEW r \in Requesters, NEW i \in WorkIds,
         NEW kind \in {"patch", "claim", "reopen"},
         NEW unread \in SUBSET Blockers, kind = "patch" => unread = blockedBy[i],
         Reads(r, kind, i, unread)
  PROVE  WorkInv'
  BY DEF WorkInv, WorkTypeOK, Reads, BlockersWereEnded

LEMMA WorkStart == WorkInit => WorkInv
BY DEF WorkInit, WorkInv, WorkTypeOK, BlockersWereEnded, NotAsking

LEMMA WorkStep == WorkInv /\ [WorkNext]_workVars => WorkInv'
<1> SUFFICES ASSUME WorkInv, [WorkNext]_workVars PROVE WorkInv'
  OBVIOUS
<1> USE WorkAssumption
<1>t. /\ \A i \in WorkIds : Names(i) \subseteq SUBSET Blockers /\ blockedBy[i] \in SUBSET Blockers
      /\ \A r \in Requesters : asking[r].kind # "none" => asking[r].item \in WorkIds
  BY DEF WorkInv, WorkTypeOK, Names
<1>1. ASSUME NEW i \in WorkIds, CreateItem(i) PROVE WorkInv'
  BY <1>1, <1>t, PlainWrite DEF CreateItem
<1>2. ASSUME NEW i \in WorkIds, PatchItem(i) PROVE WorkInv'
  <2>1. \A s \in (ItemStatuses \ {"in_progress"}) \cup {itemStatus[i]} :
          s \in {"open", "in_progress", "review", "done", "cancelled"}
    BY <1>2 DEF PatchItem, Exists, WorkInv, WorkTypeOK
  <2> QED BY <1>2, <1>t, <2>1, PlainWrite DEF PatchItem
<1>3. ASSUME NEW i \in WorkIds, Work(i) PROVE WorkInv'
  BY <1>3, <1>t, PlainWrite DEF Work
<1>4. ASSUME NEW i \in WorkIds, UpdateTool(i) PROVE WorkInv'
  BY <1>4, <1>t, PlainWrite DEF UpdateTool
<1>5. ASSUME NEW r \in Requesters, NEW i \in WorkIds, ReadItem(r, i) PROVE WorkInv'
  BY <1>5, <1>t, ReadsStep DEF ReadItem
<1>6. ASSUME NEW r \in Requesters, NEW i \in WorkIds, ReadOpen(r, i) \/ ReadClosed(r, i)
      PROVE WorkInv'
  BY <1>6, <1>t, ReadsStep DEF ReadOpen, ReadClosed
<1>7. ASSUME NEW r \in Requesters, NEW b \in Blockers, ReadBlocker(r, b) PROVE WorkInv'
  BY <1>7 DEF ReadBlocker, Blocks, Unblocking, WorkInv, WorkTypeOK, BlockersWereEnded
<1>8. ASSUME NEW r \in Requesters, NEW b \in Blockers, RefuseBlocked(r, b) PROVE WorkInv'
  BY <1>8 DEF RefuseBlocked, Leaves, NotAsking, WorkInv, WorkTypeOK, BlockersWereEnded
<1>9. ASSUME NEW r \in Requesters, StartChecked(r) PROVE WorkInv'
  BY <1>9, <1>t, LastWrite DEF StartChecked
<1>10. ASSUME NEW r \in Requesters, Claimed(r) PROVE WorkInv'
  BY <1>10, <1>t, LastWrite DEF Claimed
<1>11. ASSUME NEW r \in Requesters, Reopen(r) PROVE WorkInv'
  BY <1>11, <1>t, LastWrite DEF Reopen
<1>12. CASE UNCHANGED workVars
  BY <1>12 DEF workVars, WorkInv, WorkTypeOK, BlockersWereEnded
<1> QED
  BY <1>1, <1>2, <1>3, <1>4, <1>5, <1>6, <1>7, <1>8, <1>9, <1>10, <1>11, <1>12 DEF WorkNext

(* A PATCH that may start an item saw its blockers ended or not there,      *)
(* whatever the other routes write meanwhile (ui_work_items_patch).         *)
THEOREM BlockerSafety == WorkSpec => []BlockersWereEnded
BY WorkStart, WorkStep, PTL DEF WorkSpec, WorkInv

-----------------------------------------------------------------------------
(* The agent tree.                                                          *)

LEMMA ReachHolds ==
  ASSUME NEW f \in [Nodes -> SUBSET Nodes], NEW n \in Nodes
  PROVE  n \in ReachFrom(f, n) /\ ReachFrom(f, n) \subseteq Nodes /\ Closed(f, ReachFrom(f, n))
<1>1. ASSUME NEW m \in ReachFrom(f, n), NEW c \in f[m] PROVE c \in ReachFrom(f, n)
  <2>1. m \in Nodes /\ c \in Nodes
    BY <1>1 DEF ReachFrom
  <2>2. ASSUME NEW S \in SUBSET Nodes, n \in S, Closed(f, S) PROVE c \in S
    <3>1. m \in S
      BY <1>1, <2>2 DEF ReachFrom
    <3> QED BY <1>1, <2>2, <3>1 DEF Closed
  <2> QED BY <2>1, <2>2 DEF ReachFrom
<1>2. Closed(f, ReachFrom(f, n))
  BY <1>1 DEF Closed
<1> QED BY <1>2 DEF ReachFrom

LEMMA ReachIsLeast ==
  ASSUME NEW f, NEW n, NEW S \in SUBSET Nodes, n \in S, Closed(f, S) PROVE ReachFrom(f, n) \subseteq S
BY DEF ReachFrom

(* What a set of nodes leads to, all together, is led out of by none. *)
LEMMA UnionsClosed ==
  ASSUME NEW f \in [Nodes -> SUBSET Nodes], NEW M \in SUBSET Nodes
  PROVE  LET S == UNION {ReachFrom(f, m) : m \in M} IN M \subseteq S /\ S \subseteq Nodes /\ Closed(f, S)
<1>1. \A m \in M : m \in ReachFrom(f, m) /\ ReachFrom(f, m) \subseteq Nodes /\ Closed(f, ReachFrom(f, m))
  BY ReachHolds
<1> QED BY <1>1 DEF Closed

LEMMA NestedReach ==
  ASSUME NEW f \in [Nodes -> SUBSET Nodes], NEW n \in Nodes, NEW m \in ReachFrom(f, n)
  PROVE  ReachFrom(f, m) \subseteq ReachFrom(f, n)
<1>1. ReachFrom(f, n) \in SUBSET Nodes /\ Closed(f, ReachFrom(f, n))
  BY ReachHolds
<1> QED BY <1>1, ReachIsLeast

(* What is below some rows, as the foreign key cascades. *)
LEMMA BelowRows ==
  ASSUME nodes \subseteq Nodes, NEW M \in SUBSET Nodes
  PROVE  LET S == UNION {Below(m) : m \in M} IN M \subseteq S /\ S \subseteq Nodes /\ Closed(ChildRows, S)
<1>1. ChildRows \in [Nodes -> SUBSET Nodes]
  BY DEF ChildRows, Children
<1>2. \A m : Below(m) = ReachFrom(ChildRows, m)
  BY DEF Below
<1> QED BY <1>1, <1>2, UnionsClosed

(* A node is the child of one only. *)
Forest(f) == \A n, p, m \in Nodes : m \in f[n] /\ m \in f[p] => n = p

(* A node that is met below another was met through its parent. *)
LEMMA ParentReached ==
  ASSUME NEW f \in [Nodes -> SUBSET Nodes], Forest(f), NEW m \in Nodes, NEW n \in Nodes, NEW c \in f[n],
         c \in ReachFrom(f, m), c # m
  PROVE  n \in ReachFrom(f, m)
<1> SUFFICES ASSUME n \notin ReachFrom(f, m) PROVE FALSE
  OBVIOUS
<1>1. m \in ReachFrom(f, m) /\ ReachFrom(f, m) \subseteq Nodes /\ Closed(f, ReachFrom(f, m))
  BY ReachHolds
<1>2. PICK S : S = ReachFrom(f, m) \ {c}
  OBVIOUS
<1>3. m \in S /\ S \in SUBSET Nodes
  BY <1>1, <1>2
<1>4. ASSUME NEW x \in S PROVE f[x] \subseteq S
  <2>1. x \in Nodes /\ f[x] \subseteq ReachFrom(f, m) /\ x # n
    BY <1>1, <1>2, <1>4 DEF Closed
  <2>2. c \notin f[x]
    BY <1>1, <2>1 DEF Forest
  <2> QED BY <1>2, <2>1, <2>2
<1>5. Closed(f, S)
  BY <1>4 DEF Closed
<1> QED BY <1>2, <1>3, <1>5, ReachIsLeast

(* What a node without a cycle leads to has none either: a cycle is left through *)
(* no parent, for a node has one only.                                           *)
LEMMA NoCycleBelow ==
  ASSUME NEW f \in [Nodes -> SUBSET Nodes], Forest(f), NEW r \in Nodes, ~OnCycle(f, r)
  PROVE  \A n \in ReachFrom(f, r) : ~OnCycle(f, n)
<1>1. r \in ReachFrom(f, r) /\ ReachFrom(f, r) \subseteq Nodes /\ Closed(f, ReachFrom(f, r))
  BY ReachHolds
<1>2. PICK Q : Q = {n \in ReachFrom(f, r) : ~OnCycle(f, n)}
  OBVIOUS
<1>3. ASSUME NEW n \in Q, NEW c \in f[n], OnCycle(f, c) PROVE FALSE
  <2>1. n \in Nodes /\ c \in Nodes /\ ~OnCycle(f, n)
    BY <1>1, <1>2, <1>3
  <2>2. PICK m \in f[c] : c \in ReachFrom(f, m)
    BY <1>3 DEF OnCycle
  <2>3. m \in Nodes
    BY <2>1, <2>2
  <2>4. CASE c = m
    <3>1. c = n
      BY <2>1, <2>2, <2>4 DEF Forest
    <3> QED BY <1>3, <2>1, <3>1
  <2>5. CASE c # m
    <3>1. n \in ReachFrom(f, m)
      BY <2>1, <2>2, <2>3, <2>5, ParentReached
    <3>2. m \in ReachFrom(f, c)
      BY <2>1, <2>2, ReachHolds DEF Closed
    <3>3. n \in ReachFrom(f, c)
      BY <2>1, <3>1, <3>2, NestedReach
    <3> QED BY <1>3, <2>1, <3>3 DEF OnCycle
  <2> QED BY <2>4, <2>5
<1>4. r \in Q /\ Q \in SUBSET Nodes /\ Closed(f, Q)
  BY <1>1, <1>2, <1>3 DEF Closed
<1> QED BY <1>2, <1>4, ReachIsLeast

(* Among nodes without cycles there is one with none of its children: one with *)
(* as little below it as any.                                                  *)
LEMMA LowestNode ==
  ASSUME NEW f \in [Nodes -> SUBSET Nodes], NEW W \in SUBSET Nodes, W # {}, \A n \in W : ~OnCycle(f, n)
  PROVE  \E n \in W : f[n] \cap W = {}
<1>1. PICK B : B = {ReachFrom(f, n) : n \in W}
  OBVIOUS
<1>2. \A n \in W : n \in ReachFrom(f, n) /\ ReachFrom(f, n) \in SUBSET Nodes /\ Closed(f, ReachFrom(f, n))
  BY ReachHolds
<1>3. B # {} /\ B \subseteq SUBSET Nodes
  BY <1>1, <1>2
<1>4. IsWellFoundedOn(StrictSubsetOrdering(Nodes), SUBSET Nodes)
  <2>1. IsFiniteSet(Nodes)
    BY TreeAssumption
  <2> QED BY <2>1, FS_StrictSubsetOrderingWellFounded, FS_FiniteSubsetsOfFinite
<1>5. PICK x \in B : \A y \in B : ~(<<y, x>> \in StrictSubsetOrdering(Nodes))
  BY <1>3, <1>4, WFMin
<1>6. PICK n \in W : x = ReachFrom(f, n)
  BY <1>1
<1>7. ASSUME NEW m \in f[n] \cap W PROVE FALSE
  <2>1. m \in ReachFrom(f, n) /\ n \in Nodes
    BY <1>2 DEF Closed
  <2>2. ReachFrom(f, m) \subseteq ReachFrom(f, n)
    BY <2>1, NestedReach
  <2>3. n \in ReachFrom(f, n) /\ n \notin ReachFrom(f, m)
    BY <1>2, <1>7 DEF OnCycle
  <2>4. <<ReachFrom(f, m), ReachFrom(f, n)>> \in StrictSubsetOrdering(Nodes)
    BY <1>2, <2>2, <2>3 DEF StrictSubsetOrdering
  <2> QED BY <1>1, <1>5, <1>6, <2>4
<1> QED BY <1>7

(* The rows.  A parent_id is that of a row; while a node is being deleted, the *)
(* rows of its tree that hang from it were put there after its children had    *)
(* moved.                                                                      *)
RowsOnly == \A n \in Nodes \ nodes : parent[n] = NoNode
LateChildren ==
  deletion.at = "moved" /\ deletion.up # deletion.node => TreeChildren(deletion.node) \subseteq moved

(* The run.  A node is submitted by its parent when that one starts to wait.   *)
(* Where the root is on no cycle, what lies below it does not hold it, and any *)
(* part of that has a node with no child in the part.                          *)
RunningLeaves == \A n \in Nodes : task[n] = "running" => kids[n] = {}
NotYetSubmitted ==
  \A n \in Nodes : task[n] \in {"none", "queued", "running"} =>
    \A m \in kids[n] \ {root} : task[m] = "none"
Reached(S) ==
  /\ root \notin S /\ kids[root] \subseteq S
  /\ \A n \in S : kids[n] \subseteq S
  /\ \A n \in Nodes \ {root} : task[n] # "none" => n \in S
Founded(S) == \A W \in SUBSET S : W # {} => \E n \in W : kids[n] \cap W = {}
Grounded == \E S \in SUBSET Nodes : Reached(S) /\ Founded(S)
RootAbove ==
  run = "running" =>
    /\ root \in Nodes
    /\ ~OnCycle(kids, root) => again = 0 /\ Grounded
Rests == run = "idle" => again = 0 /\ \A n \in Nodes : task[n] = "none"

RowsInv == RowsOnly /\ LateChildren
RunInv == /\ Forest(kids) /\ RunningLeaves /\ NotYetSubmitted /\ RootAbove /\ Rests
          /\ AggregatesComplete
TreeInv == TreeTypeOK /\ RowsInv /\ RunInv

LEMMA TreeStart == TreeInit => TreeInv
<1> SUFFICES ASSUME TreeInit PROVE TreeInv
  OBVIOUS
<1> USE TreeAssumption DEF TreeInit
<1>1. TreeTypeOK
  BY DEF TreeTypeOK, NoDeletion
<1>2. RowsInv
  BY DEF RowsInv, RowsOnly, LateChildren, NoDeletion
<1>3. RunInv
  BY DEF RunInv, Forest, RunningLeaves, NotYetSubmitted, RootAbove, Rests, AggregatesComplete
<1> QED BY <1>1, <1>2, <1>3 DEF TreeInv

(* A row that is created or changed has a parent that is there. *)
LEMMA AttachStep ==
  ASSUME TreeInv, NEW n \in Nodes, NEW p \in Nodes \cup {NoNode}, Attach(n, p),
         UNCHANGED <<deletion, runVars>>
  PROVE  TreeTypeOK' /\ RowsInv'
<1> USE TreeAssumption DEF TreeInv, TreeTypeOK, RowsInv
<1>1. TreeTypeOK'
  BY DEF Attach, runVars
<1>2. RowsOnly'
  BY DEF Attach, RowsOnly
<1>3. LateChildren'
  <2> SUFFICES ASSUME deletion.at = "moved", deletion.up # deletion.node,
                      NEW m \in TreeChildren(deletion.node)'
               PROVE  m \in moved'
    BY DEF LateChildren
  <2>1. CASE m = n
    BY <2>1 DEF Attach, Children, TreeChildren
  <2>2. CASE m # n
    BY <2>2 DEF Attach, Children, TreeChildren, TreeOf, LateChildren
  <2> QED BY <2>1, <2>2
<1> QED BY <1>1, <1>2, <1>3

(* With a row goes everything that refers to it. *)
LEMMA RemoveStep ==
  ASSUME TreeInv, NEW gone \in SUBSET Nodes, Closed(ChildRows, gone), Removes(gone), UNCHANGED runVars,
         \/ deletion' = NoDeletion /\ moved' = {}
         \/ deletion' = deletion /\ moved' = moved \ gone
  PROVE  TreeTypeOK' /\ RowsInv'
<1> USE TreeAssumption DEF TreeInv, TreeTypeOK, RowsInv
<1>1. ASSUME NEW n \in Nodes \ gone PROVE parent[n] \in (nodes \ gone) \cup {NoNode}
  <2> SUFFICES ASSUME parent[n] \in gone PROVE FALSE
    OBVIOUS
  <2>1. parent[n] \in nodes /\ parent[n] \in Nodes /\ n \in nodes
    BY DEF RowsOnly
  <2>2. n \in ChildRows[parent[n]]
    BY <2>1 DEF ChildRows, Children
  <2> QED BY <1>1, <2>2 DEF Closed
<1>2. parent' \in [Nodes -> nodes' \cup {NoNode}]
  BY <1>1 DEF Removes
<1>3. TreeTypeOK'
  BY <1>2 DEF Removes, runVars, NoDeletion
<1>4. RowsOnly'
  BY DEF Removes, RowsOnly
<1>5. LateChildren'
  BY DEF Removes, LateChildren, NoDeletion, Children, TreeChildren, TreeOf
<1> QED BY <1>3, <1>4, <1>5

(* The requests that edit rows. *)
LEMMA EditStep == TreeInv /\ Edit => TreeInv'
<1> SUFFICES ASSUME TreeInv, Edit PROVE TreeInv'
  OBVIOUS
<1>1. UNCHANGED runVars /\ run = "idle"
  BY DEF Edit, CreateNode, UpdateNode, DeleteReads, DeleteMoves, DeleteRemoves, DeleteTree
<1>2. RunInv'
  BY <1>1 DEF TreeInv, RunInv, Forest, RunningLeaves, NotYetSubmitted, RootAbove, Rests,
              AggregatesComplete, runVars
<1>3. ASSUME NEW n \in Nodes, NEW p \in Nodes \cup {NoNode}, CreateNode(n, p) \/ UpdateNode(n, p)
      PROVE  TreeTypeOK' /\ RowsInv'
  BY <1>3, AttachStep DEF CreateNode, UpdateNode
<1>4. ASSUME NEW n \in Nodes, DeleteReads(n) PROVE TreeTypeOK' /\ RowsInv'
  BY <1>4 DEF DeleteReads, TreeInv, TreeTypeOK, RowsInv, RowsOnly, LateChildren, runVars
<1>5. ASSUME DeleteMoves PROVE TreeTypeOK' /\ RowsInv'
  <2>1. /\ TreeTypeOK /\ RowsOnly /\ LateChildren
        /\ UNCHANGED <<nodes, moved, run, root, kids, task, again>>
    BY <1>5 DEF DeleteMoves, TreeInv, RowsInv, runVars
  <2>2. CASE deletion' = NoDeletion /\ parent' = parent
    <3>1. TreeTypeOK'
      BY <2>1, <2>2 DEF TreeTypeOK, NoDeletion
    <3>2. RowsOnly' /\ LateChildren'
      BY <2>1, <2>2 DEF RowsOnly, LateChildren, NoDeletion
    <3> QED BY <3>1, <3>2 DEF RowsInv
  <2>3. CASE /\ deletion' = [deletion EXCEPT !.at = "moved"]
             /\ parent' = [n \in Nodes |-> IF n \in TreeChildren(deletion.node) THEN deletion.up
                                           ELSE parent[n]]
             /\ TreeChildren(deletion.node) # {} => deletion.up \in nodes \cup {NoNode}
    <3>1. TreeTypeOK'
      BY <2>1, <2>3 DEF TreeTypeOK
    <3>2. RowsOnly'
      BY <2>1, <2>3 DEF RowsOnly, TreeChildren, Children
    <3>3. deletion'.up = deletion.up /\ deletion'.node = deletion.node
      BY <2>1, <2>3 DEF TreeTypeOK
    <3>4. ASSUME deletion.up # deletion.node, NEW m \in nodes, m \in TreeOf(deletion.node)
          PROVE  parent'[m] # deletion.node
      BY <2>1, <2>3, <3>4 DEF TreeChildren, Children, TreeTypeOK
    <3>5. LateChildren'
      BY <2>1, <3>3, <3>4 DEF LateChildren, TreeChildren, TreeOf, Children
    <3> QED BY <3>1, <3>2, <3>5 DEF RowsInv
  <2> QED BY <1>5, <2>2, <2>3 DEF DeleteMoves
<1>6. ASSUME DeleteRemoves PROVE TreeTypeOK' /\ RowsInv'
  <2>1. CASE deletion.node \in nodes
    <3>1. PICK gone : gone = Below(deletion.node)
      OBVIOUS
    <3>2. gone \in SUBSET Nodes /\ Closed(ChildRows, gone)
      <4>1. nodes \subseteq Nodes /\ ChildRows \in [Nodes -> SUBSET Nodes]
        BY DEF TreeInv, TreeTypeOK, ChildRows, Children
      <4> QED BY <2>1, <3>1, <4>1, ReachHolds DEF Below
    <3>3. Removes(gone) /\ deletion' = NoDeletion /\ moved' = {}
      BY <1>6, <2>1, <3>1 DEF DeleteRemoves, Removes
    <3>4. UNCHANGED runVars
      BY <1>1
    <3> QED BY <3>2, <3>3, <3>4, RemoveStep
  <2>2. CASE deletion.node \notin nodes
    <3>1. /\ TreeTypeOK /\ RowsOnly /\ deletion' = NoDeletion /\ moved' = {}
          /\ UNCHANGED <<nodes, parent, run, root, kids, task, again>>
      BY <1>6, <2>2 DEF DeleteRemoves, TreeInv, RowsInv, runVars
    <3>2. TreeTypeOK'
      BY <3>1 DEF TreeTypeOK, NoDeletion
    <3>3. RowsOnly' /\ LateChildren'
      BY <3>1 DEF RowsOnly, LateChildren, NoDeletion
    <3> QED BY <3>2, <3>3 DEF RowsInv
  <2> QED BY <2>1, <2>2
<1>7. ASSUME NEW T \in Trees, DeleteTree(T) PROVE TreeTypeOK' /\ RowsInv'
  <2>1. PICK gone : gone = UNION {Below(n) : n \in nodes \cap T}
    OBVIOUS
  <2>2. gone \in SUBSET Nodes /\ Closed(ChildRows, gone)
    <3>1. nodes \subseteq Nodes /\ nodes \cap T \in SUBSET Nodes
      BY DEF TreeInv, TreeTypeOK
    <3> QED BY <2>1, <3>1, BelowRows
  <2>3. Removes(gone) /\ deletion' = deletion /\ moved' = moved \ gone
    BY <1>7, <2>1 DEF DeleteTree
  <2> QED BY <1>1, <2>2, <2>3, RemoveStep
<1>8. TreeTypeOK' /\ RowsInv'
  BY <1>3, <1>4, <1>5, <1>6, <1>7 DEF Edit
<1> QED BY <1>2, <1>8 DEF TreeInv

(* The runner takes its snapshot.  Without a cycle, what lies below the root's *)
(* children is a set that the run does not leave.                              *)
LEMMA SnapshotStep == \A T \in Trees : TreeInv /\ RunTree(T) => TreeInv'
<1> SUFFICES ASSUME NEW T \in Trees, TreeInv, RunTree(T) PROVE TreeInv'
  OBVIOUS
<1>1. /\ TreeTypeOK /\ RowsInv /\ UNCHANGED rowVars /\ again' = 0 /\ run' = "running"
      /\ kids' = [n \in Nodes |-> IF n \in T THEN TreeChildren(n) ELSE {}]
  BY DEF TreeInv, RunInv, Rests, RunTree
<1>2. PICK r \in RootChoices(T) :
        /\ root' = r
        /\ task' = [n \in Nodes |->
             IF n = r THEN IF TreeChildren(r) = {} THEN "running" ELSE "waiting"
             ELSE IF n \in TreeChildren(r) THEN "queued" ELSE "none"]
  BY DEF RunTree
<1>3. r \in Nodes /\ r \in T
  BY <1>1 DEF TreeTypeOK, RootChoices
<1>4. /\ kids' \in [Nodes -> SUBSET Nodes] /\ kids'[r] = TreeChildren(r)
      /\ \A n \in Nodes : kids'[n] \subseteq Children(n)
  BY <1>1, <1>3 DEF TreeTypeOK, TreeChildren, Children
<1>5. /\ kids'[r] = {} => task'[r] = "running"
      /\ kids'[r] # {} => task'[r] = "waiting"
      /\ \A n \in Nodes \ {r} : task'[n] = IF n \in kids'[r] THEN "queued" ELSE "none"
  BY <1>2, <1>3, <1>4
<1>6. RowsInv'
  BY <1>1 DEF rowVars, RowsInv, RowsOnly, LateChildren, TreeChildren, Children
<1>7. TreeTypeOK'
  BY <1>1, <1>2, <1>3, <1>4, TreeAssumption DEF rowVars, TreeTypeOK
<1>8. Forest(kids')
  BY <1>4 DEF Forest, Children
<1>9. AggregatesComplete' /\ Rests'
  BY <1>1, <1>2, <1>4 DEF AggregatesComplete, Rests
<1>10. RunningLeaves'
  BY <1>2, <1>5 DEF RunningLeaves
<1>11. NotYetSubmitted'
  <2> SUFFICES ASSUME NEW n \in Nodes, task'[n] \in {"none", "queued", "running"},
                      NEW m \in kids'[n] \ {root'}
               PROVE  task'[m] = "none"
    BY DEF NotYetSubmitted
  <2>1. m \in Nodes /\ m # r
    BY <1>2, <1>4
  <2>2. n # r
    BY <1>5, <2>1
  <2>3. m \notin kids'[r]
    BY <1>3, <1>8, <2>1, <2>2 DEF Forest
  <2> QED BY <1>5, <2>1, <2>3
<1>12. RootAbove'
  <2>1. SUFFICES ASSUME ~OnCycle(kids', r) PROVE Grounded'
    BY <1>1, <1>2, <1>3 DEF RootAbove
  <2>2. PICK S : S = UNION {ReachFrom(kids', m) : m \in kids'[r]}
    OBVIOUS
  <2>3. r \notin S
    BY <2>1, <2>2 DEF OnCycle
  <2>4. kids'[r] \in SUBSET Nodes
    BY <1>3, <1>4
  <2>5. kids'[r] \subseteq S /\ S \subseteq Nodes /\ Closed(kids', S)
    BY <1>4, <2>2, <2>4, UnionsClosed
  <2>6. kids'[r] \subseteq ReachFrom(kids', r)
    BY <1>3, <1>4, ReachHolds DEF Closed
  <2>7. S \subseteq ReachFrom(kids', r)
    BY <1>3, <1>4, <2>2, <2>6, NestedReach
  <2>8. \A n \in S : ~OnCycle(kids', n)
    BY <1>3, <1>4, <1>8, <2>1, <2>7, NoCycleBelow
  <2>9. Reached(S)'
    BY <1>2, <1>3, <1>5, <2>3, <2>5 DEF Reached, Closed
  <2>10. Founded(S)'
    BY <1>4, <2>5, <2>8, LowestNode DEF Founded
  <2> QED BY <2>5, <2>9, <2>10 DEF Grounded
<1> QED BY <1>6, <1>7, <1>8, <1>9, <1>10, <1>11, <1>12 DEF TreeInv, RunInv

(* A step of the running tree leaves the rows and the snapshot alone. *)
LEMMA RunningStep ==
  ASSUME TreeInv, task' \in [Nodes -> {"none", "queued", "running", "waiting", "done"}],
         run = "running", UNCHANGED <<rowVars, run, root, kids, again>>
  PROVE  TreeTypeOK' /\ RowsInv' /\ Forest(kids') /\ Rests'
BY DEF TreeInv, TreeTypeOK, RowsInv, RowsOnly, LateChildren, TreeChildren, Children, RunInv, Rests, rowVars

(* And what lies below the root stays what it is, as long as only that has tasks. *)
LEMMA GroundedStep ==
  ASSUME TreeInv, run = "running", UNCHANGED <<run, root, kids, again>>,
         NEW n \in Nodes, task[n] # "none",
         \A m \in Nodes : task'[m] # "none" => task[m] # "none" \/ m \in kids[n]
  PROVE  RootAbove'
<1> SUFFICES ASSUME ~OnCycle(kids, root) PROVE Grounded'
  BY DEF TreeInv, RunInv, RootAbove
<1>1. PICK S \in SUBSET Nodes : Reached(S) /\ Founded(S)
  BY DEF TreeInv, RunInv, RootAbove, Grounded
<1>2. kids[n] \subseteq S
  BY <1>1 DEF Reached
<1>3. Reached(S)' /\ Founded(S)'
  BY <1>1, <1>2 DEF Reached, Founded
<1> QED BY <1>3 DEF Grounded

LEMMA StartStep == \A n \in Nodes : TreeInv /\ StartTask(n) => TreeInv'
<1> SUFFICES ASSUME NEW n \in Nodes, TreeInv, StartTask(n) PROVE TreeInv'
  OBVIOUS
<1>1. /\ TreeTypeOK /\ Forest(kids) /\ RunningLeaves /\ NotYetSubmitted /\ AggregatesComplete
      /\ run = "running" /\ task[n] = "queued" /\ UNCHANGED <<rowVars, run, root, kids, again>>
  BY DEF TreeInv, RunInv, StartTask, Starts
<1>2. /\ task'[n] = IF kids[n] = {} THEN "running" ELSE "waiting"
      /\ \A m \in Nodes \ {n} : task'[m] = IF m \in kids[n] \ {root} THEN "queued" ELSE task[m]
      /\ task' \in [Nodes -> {"none", "queued", "running", "waiting", "done"}]
  BY <1>1 DEF StartTask, Starts, TreeTypeOK
<1>3. TreeTypeOK' /\ RowsInv' /\ Forest(kids') /\ Rests'
  BY <1>1, <1>2, RunningStep
<1>4. RootAbove'
  BY <1>1, <1>2, GroundedStep
<1>5. RunningLeaves'
  BY <1>1, <1>2 DEF RunningLeaves
<1>6. \A x \in Nodes \ {n} : \A m \in kids[x] : m \in Nodes /\ m \notin kids[n]
  BY <1>1 DEF Forest, TreeTypeOK
<1>7. NotYetSubmitted'
  <2> SUFFICES ASSUME NEW x \in Nodes, task'[x] \in {"none", "queued", "running"},
                      NEW m \in kids[x] \ {root}
               PROVE  task'[m] = "none"
    BY <1>1 DEF NotYetSubmitted
  <2>1. x # n
    BY <1>2
  <2>2. task[x] \in {"none", "queued", "running"}
    BY <1>1, <1>2, <2>1 DEF NotYetSubmitted
  <2>3. task[m] = "none"
    BY <1>1, <2>2 DEF NotYetSubmitted
  <2> QED BY <1>1, <1>2, <1>6, <2>1, <2>3
<1>8. AggregatesComplete'
  BY <1>1, <1>2, <1>6 DEF AggregatesComplete
<1> QED BY <1>3, <1>4, <1>5, <1>7, <1>8 DEF TreeInv, RunInv

(* A node that ran has its result: a leaf the model's answer, an inner node *)
(* the results of its children.                                             *)
LEMMA ResultStep == \A n \in Nodes : TreeInv /\ (LeafAnswers(n) \/ Aggregate(n)) => TreeInv'
<1> SUFFICES ASSUME NEW n \in Nodes, TreeInv, LeafAnswers(n) \/ Aggregate(n) PROVE TreeInv'
  OBVIOUS
<1>1. /\ TreeTypeOK /\ RunningLeaves /\ NotYetSubmitted /\ AggregatesComplete
      /\ run = "running" /\ task[n] \in {"running", "waiting"}
      /\ UNCHANGED <<rowVars, run, root, kids, again>>
  BY DEF TreeInv, RunInv, LeafAnswers, Aggregate
<1>2. /\ task'[n] = "done" /\ \A m \in Nodes \ {n} : task'[m] = task[m]
      /\ task' \in [Nodes -> {"none", "queued", "running", "waiting", "done"}]
  BY <1>1 DEF LeafAnswers, Aggregate, TreeTypeOK
<1>3. \A m \in kids[n] : task[m] = "done"
  BY <1>1 DEF LeafAnswers, Aggregate, RunningLeaves
<1>4. TreeTypeOK' /\ RowsInv' /\ Forest(kids') /\ Rests'
  BY <1>1, <1>2, RunningStep
<1>5. RootAbove'
  BY <1>1, <1>2, GroundedStep
<1>6. RunningLeaves'
  BY <1>1, <1>2 DEF RunningLeaves
<1>7. NotYetSubmitted'
  BY <1>1, <1>2 DEF NotYetSubmitted, TreeTypeOK
<1>8. AggregatesComplete'
  BY <1>1, <1>2, <1>3 DEF AggregatesComplete, TreeTypeOK
<1> QED BY <1>4, <1>5, <1>6, <1>7, <1>8 DEF TreeInv, RunInv

(* Nodes come round again below a root that is on a cycle only. *)
LEMMA RevisitOnCycle == TreeInv /\ Revisit => OnCycle(kids, root)
<1> SUFFICES ASSUME TreeInv, Revisit, ~OnCycle(kids, root) PROVE FALSE
  OBVIOUS
<1>1. PICK S \in SUBSET Nodes : Reached(S)
  BY DEF TreeInv, RunInv, RootAbove, Grounded, Revisit
<1> QED BY <1>1 DEF Reached, Revisit

LEMMA RevisitStep == TreeInv /\ Revisit => TreeInv'
<1> SUFFICES ASSUME TreeInv, Revisit PROVE TreeInv'
  OBVIOUS
<1>1. /\ run = "running" /\ UNCHANGED <<rowVars, run, root, kids, task>>
      /\ again' = again + 1 /\ Cardinality(Busy) + again < TreeWorkers
  BY DEF Revisit
<1>2. again' \in 0..TreeWorkers
  <2>1. again \in 0..TreeWorkers /\ Cardinality(Busy) \in Nat
    BY TreeAssumption, FS_Subset, FS_CardinalityType DEF Busy, TreeInv, TreeTypeOK
  <2> QED BY <1>1, <2>1, TreeAssumption
<1>3. OnCycle(kids, root)
  BY RevisitOnCycle
<1> QED BY <1>1, <1>2, <1>3 DEF TreeInv, TreeTypeOK, RowsInv, RowsOnly, LateChildren, TreeChildren, Children,
      RunInv, RunningLeaves, NotYetSubmitted, RootAbove, Rests, AggregatesComplete, rowVars

LEMMA TreeStep == TreeInv /\ [TreeNext]_treeVars => TreeInv'
<1> SUFFICES ASSUME TreeInv, [TreeNext]_treeVars PROVE TreeInv'
  OBVIOUS
<1>1. CASE TreeDone
  BY <1>1 DEF TreeDone, TreeInv, TreeTypeOK, RowsInv, RowsOnly, LateChildren, TreeChildren, Children, RunInv,
              Forest, RunningLeaves, NotYetSubmitted, RootAbove, Rests, AggregatesComplete, rowVars
<1>2. CASE NextRequest
  <2>1. again' \in 0..TreeWorkers
    BY <1>2, TreeAssumption DEF NextRequest
  <2> QED BY <1>2, <2>1
    DEF NextRequest, TreeInv, TreeTypeOK, RowsInv, RowsOnly, LateChildren, TreeChildren, Children, RunInv,
        Forest, RunningLeaves, NotYetSubmitted, RootAbove, Rests, AggregatesComplete, rowVars
<1>3. CASE UNCHANGED treeVars
  <2>1. Grounded => Grounded'
    BY <1>3 DEF treeVars, runVars, Grounded, Reached, Founded
  <2> QED BY <1>3, <2>1
    DEF treeVars, TreeInv, TreeTypeOK, RowsInv, RowsOnly, LateChildren, TreeChildren, Children, RunInv,
        Forest, RunningLeaves, NotYetSubmitted, RootAbove, Rests, AggregatesComplete, rowVars, runVars
<1> QED
  BY <1>1, <1>2, <1>3, EditStep, SnapshotStep, StartStep, RevisitStep, ResultStep DEF TreeNext, Execute

LEMMA KeepsStep ==
  TreeInv /\ [TreeNext]_treeVars =>
    [DeleteRemoves /\ deletion.up # deletion.node =>
       LET foreign == Children(deletion.node) \ TreeOf(deletion.node)
       IN  nodes \ nodes' \subseteq
             {deletion.node} \cup UNION {Below(m) : m \in moved \cup foreign}]_treeVars
<1> SUFFICES ASSUME TreeInv, DeleteRemoves, deletion.up # deletion.node
             PROVE  nodes \ nodes' \subseteq {deletion.node} \cup
                      UNION {Below(m) : m \in moved \cup (Children(deletion.node) \ TreeOf(deletion.node))}
  OBVIOUS
<1>1. CASE deletion.node \in nodes
  <2>1. PICK M : M = moved \cup (Children(deletion.node) \ TreeOf(deletion.node))
    OBVIOUS
  <2>2. nodes \subseteq Nodes /\ M \in SUBSET Nodes /\ Children(deletion.node) \subseteq M
    BY <2>1 DEF TreeInv, TreeTypeOK, RowsInv, LateChildren, TreeChildren, Children, DeleteRemoves
  <2>3. PICK U : U = UNION {Below(m) : m \in M}
    OBVIOUS
  <2>4. M \subseteq U /\ U \subseteq Nodes /\ Closed(ChildRows, U)
    BY <2>2, <2>3, BelowRows
  <2>5. Closed(ChildRows, {deletion.node} \cup U) /\ {deletion.node} \cup U \in SUBSET Nodes
    BY <1>1, <2>2, <2>4 DEF Closed, ChildRows
  <2>6. Below(deletion.node) \subseteq {deletion.node} \cup U
    BY <2>5, ReachIsLeast DEF Below
  <2> QED BY <1>1, <2>1, <2>3, <2>6 DEF DeleteRemoves, Removes
<1>2. CASE deletion.node \notin nodes
  BY <1>2 DEF DeleteRemoves
<1> QED BY <1>1, <1>2

(* Progress.  A waiting node has children and has submitted them; the root,   *)
(* which no pool thread runs, is never left behind.                           *)
WaitsForKids ==
  \A n \in Nodes : task[n] = "waiting" => kids[n] # {} /\ \A m \in kids[n] : task[m] # "none"
RootRuns == run = "running" => task[root] \in {"running", "waiting", "done"}

LEMMA WaitsStart == TreeInit => WaitsForKids /\ RootRuns
BY DEF TreeInit, WaitsForKids, RootRuns

LEMMA WaitsStep == TreeInv /\ WaitsForKids /\ RootRuns /\ [TreeNext]_treeVars => WaitsForKids' /\ RootRuns'
<1> SUFFICES ASSUME TreeInv, WaitsForKids, RootRuns, [TreeNext]_treeVars PROVE WaitsForKids' /\ RootRuns'
  OBVIOUS
<1>1. TreeTypeOK
  BY DEF TreeInv
<1>2. CASE UNCHANGED runVars
  BY <1>2 DEF WaitsForKids, RootRuns, runVars
<1>3. ASSUME NEW T \in Trees, RunTree(T) PROVE WaitsForKids' /\ RootRuns'
  <2>1. PICK r \in RootChoices(T) :
          /\ root' = r
          /\ task' = [n \in Nodes |->
               IF n = r THEN IF TreeChildren(r) = {} THEN "running" ELSE "waiting"
               ELSE IF n \in TreeChildren(r) THEN "queued" ELSE "none"]
    BY <1>3 DEF RunTree
  <2>2. r \in Nodes /\ kids'[r] = TreeChildren(r) /\ TreeChildren(r) \subseteq Nodes
    BY <1>1, <1>3 DEF RunTree, TreeTypeOK, RootChoices, TreeChildren, Children
  <2>3. RootRuns'
    BY <2>1, <2>2 DEF RootRuns
  <2>4. ASSUME NEW n \in Nodes, task'[n] = "waiting"
        PROVE  kids'[n] # {} /\ \A m \in kids'[n] : task'[m] # "none"
    <3>1. n = r /\ TreeChildren(r) # {}
      BY <2>1, <2>4
    <3> QED BY <2>1, <2>2, <3>1
  <2> QED BY <2>3, <2>4 DEF WaitsForKids
<1>4. ASSUME NEW n \in Nodes, StartTask(n) PROVE WaitsForKids' /\ RootRuns'
  <2>1. /\ task'[n] = IF kids[n] = {} THEN "running" ELSE "waiting"
        /\ \A m \in Nodes \ {n} : task'[m] = IF m \in kids[n] \ {root} THEN "queued" ELSE task[m]
        /\ run = "running" /\ task[n] = "queued" /\ UNCHANGED <<run, root, kids>>
    BY <1>1, <1>4 DEF StartTask, Starts, TreeTypeOK
  <2>2. root \in Nodes /\ root # n /\ task[root] # "none"
    BY <2>1 DEF RootRuns, TreeInv, RunInv, RootAbove
  <2>3. RootRuns'
    BY <2>1, <2>2 DEF RootRuns
  <2>4. \A x \in Nodes : kids[x] \subseteq Nodes
    BY <1>1 DEF TreeTypeOK
  <2>5. WaitsForKids'
    BY <2>1, <2>2, <2>4 DEF WaitsForKids
  <2> QED BY <2>3, <2>5
<1>5. ASSUME NEW n \in Nodes, LeafAnswers(n) \/ Aggregate(n) PROVE WaitsForKids' /\ RootRuns'
  <2>1. task' = [task EXCEPT ![n] = "done"] /\ run = "running" /\ UNCHANGED <<run, root, kids>>
    BY <1>5 DEF LeafAnswers, Aggregate
  <2>2. root \in Nodes
    BY <2>1 DEF TreeInv, RunInv, RootAbove
  <2> QED BY <1>1, <2>1, <2>2 DEF WaitsForKids, RootRuns, TreeTypeOK
<1>6. CASE Revisit \/ TreeDone \/ NextRequest
  BY <1>6 DEF Revisit, TreeDone, NextRequest, WaitsForKids, RootRuns
<1>7. Edit => UNCHANGED runVars
  BY DEF Edit, CreateNode, UpdateNode, DeleteReads, DeleteMoves, DeleteRemoves, DeleteTree
<1> QED
  BY <1>2, <1>3, <1>4, <1>5, <1>6, <1>7 DEF TreeNext, Execute, treeVars

(* Some step of the runner can be taken: one of the guards of Execute holds. *)
TaskCanGoOn ==
  \/ task[root] = "done"
  \/ \E n \in Nodes : task[n] = "running"
  \/ \E n \in Nodes : task[n] = "queued" /\ Cardinality(Busy) + again < TreeWorkers
  \/ \E n \in Nodes : task[n] = "waiting" /\ \A m \in kids[n] : task[m] = "done"

LEMMA NeverStuck ==
  ASSUME TreeInv, WaitsForKids, RootRuns, run = "running", ~OnCycle(kids, root),
         Cardinality(InnerTasks) < TreeWorkers
  PROVE  TaskCanGoOn
<1> SUFFICES ASSUME ~(task[root] = "done"), \A n \in Nodes : task[n] # "running" PROVE TaskCanGoOn
  BY DEF TaskCanGoOn
<1>1. PICK S \in SUBSET Nodes : Reached(S) /\ Founded(S)
  BY DEF TreeInv, RunInv, RootAbove, Grounded
<1>2. root \in Nodes /\ task[root] = "waiting" /\ TreeTypeOK
  BY DEF RootRuns, TreeInv, RunInv, RootAbove
<1>3. PICK W : W = {n \in S : task[n] = "waiting"}
  OBVIOUS
<1>4. PICK n \in W \cup {root} : kids[n] \cap (W \cup {root}) = {}
  <2>1. CASE W = {}
    BY <1>1, <2>1 DEF Reached
  <2>2. CASE W # {}
    <3>1. PICK n \in W : kids[n] \cap W = {}
      BY <1>1, <1>3, <2>2 DEF Founded
    <3> QED BY <1>1, <1>3, <3>1 DEF Reached
  <2> QED BY <2>1, <2>2
<1>5. n \in Nodes /\ task[n] = "waiting" /\ kids[n] \subseteq S
  BY <1>1, <1>2, <1>3, <1>4 DEF Reached
<1>6. \A m \in kids[n] : m \in Nodes /\ task[m] \in {"queued", "done"}
  BY <1>2, <1>3, <1>4, <1>5 DEF WaitsForKids, TreeTypeOK
<1>7. Cardinality(Busy) + again < TreeWorkers
  <2>1. Busy \subseteq InnerTasks /\ InnerTasks \subseteq Nodes
    BY DEF Busy, InnerTasks, WaitsForKids
  <2>2. IsFiniteSet(InnerTasks) /\ IsFiniteSet(Busy)
    BY <2>1, TreeAssumption, FS_Subset
  <2>3. Cardinality(Busy) =< Cardinality(InnerTasks)
    BY <2>1, <2>2, FS_Subset
  <2>4. Cardinality(Busy) \in Nat /\ Cardinality(InnerTasks) \in Nat
    BY <2>2, FS_CardinalityType
  <2>5. again = 0
    BY DEF TreeInv, RunInv, RootAbove
  <2> QED BY <2>3, <2>4, <2>5, TreeAssumption
<1> QED BY <1>5, <1>6, <1>7 DEF TaskCanGoOn

(* How far a node has come. *)
Progress(n) == CASE task[n] = "none" -> 0 [] task[n] = "queued" -> 1
                 [] task[n] = "done" -> 3 [] OTHER -> 2

LEMMA MovesOn ==
  TreeInv /\ [TreeNext]_treeVars =>
    [Execute => /\ again' >= again /\ \A n \in Nodes : Progress(n)' >= Progress(n)
                /\ \/ run' = "ended" \/ again' > again
                   \/ \E n \in Nodes : Progress(n)' > Progress(n)]_treeVars
<1> SUFFICES ASSUME TreeInv, Execute
             PROVE  /\ again' >= again /\ \A n \in Nodes : Progress(n)' >= Progress(n)
                    /\ \/ run' = "ended" \/ again' > again
                       \/ \E n \in Nodes : Progress(n)' > Progress(n)
  OBVIOUS
<1>1. TreeTypeOK /\ NotYetSubmitted
  BY DEF TreeInv, RunInv
<1>2. again \in Nat
  BY <1>1, TreeAssumption DEF TreeTypeOK
<1>3. ASSUME NEW n \in Nodes, StartTask(n)
      PROVE  again' = again /\ Progress(n)' > Progress(n) /\ \A m \in Nodes : Progress(m)' >= Progress(m)
  <2>1. /\ task'[n] \in {"running", "waiting"} /\ task[n] = "queued" /\ again' = again
        /\ \A m \in Nodes \ {n} : task'[m] = IF m \in kids[n] \ {root} THEN "queued" ELSE task[m]
    BY <1>1, <1>3 DEF StartTask, Starts, TreeTypeOK
  <2>2. \A m \in kids[n] \ {root} : task[m] = "none"
    BY <1>1, <2>1 DEF NotYetSubmitted
  <2> QED BY <2>1, <2>2 DEF Progress
<1>4. ASSUME NEW n \in Nodes, LeafAnswers(n) \/ Aggregate(n)
      PROVE  again' = again /\ Progress(n)' > Progress(n) /\ \A m \in Nodes : Progress(m)' >= Progress(m)
  <2>1. /\ task'[n] = "done" /\ task[n] \in {"running", "waiting"} /\ again' = again
        /\ \A m \in Nodes \ {n} : task'[m] = task[m]
    BY <1>1, <1>4 DEF LeafAnswers, Aggregate, TreeTypeOK
  <2> QED BY <2>1 DEF Progress
<1>5. ASSUME Revisit PROVE again' > again /\ \A m \in Nodes : Progress(m)' >= Progress(m)
  BY <1>2, <1>5 DEF Revisit, Progress
<1>6. ASSUME TreeDone PROVE again' = again /\ run' = "ended" /\ \A m \in Nodes : Progress(m)' >= Progress(m)
  BY <1>6 DEF TreeDone, Progress
<1>7. CASE \E n \in Nodes : StartTask(n) \/ LeafAnswers(n) \/ Aggregate(n)
  BY <1>2, <1>3, <1>4, <1>7
<1>8. CASE Revisit
  BY <1>2, <1>5, <1>8 DEF Revisit
<1>9. CASE TreeDone
  BY <1>2, <1>6, <1>9
<1> QED BY <1>7, <1>8, <1>9 DEF Execute

(* A node's result waits for every child's, however the pool orders them    *)
(* (as_completed in _execute_node).                                         *)
THEOREM AggregatesSafety == TreeSpec => []AggregatesComplete
<1>1. TreeInv => AggregatesComplete
  BY DEF TreeInv, RunInv
<1> QED BY <1>1, TreeStart, TreeStep, PTL DEF TreeSpec

(* A DELETE of a node takes along no child that the node had in its tree    *)
(* when the children were moved, unless the node was its own parent: what    *)
(* goes was put below it later, or is of another tree (delete_agent_node).   *)
THEOREM ChildrenSafety == TreeSpec => DeleteKeepsOwnChildren
BY TreeStart, TreeStep, KeepsStep, PTL DEF TreeSpec, DeleteKeepsOwnChildren

(* The pool of a run cannot fill up with nodes that wait, as long as the     *)
(* inner nodes below the root are fewer than its workers and the root is not *)
(* below itself: until the root has its result, some task can take a step    *)
(* (_execute_node, run_tree).                                                *)
THEOREM NoStuckRun ==
  TreeSpec => [](run = "running" /\ ~OnCycle(kids, root) /\ Cardinality(InnerTasks) < TreeWorkers
                   => TaskCanGoOn)
<1>1. TreeInv /\ WaitsForKids /\ RootRuns
        => (run = "running" /\ ~OnCycle(kids, root) /\ Cardinality(InnerTasks) < TreeWorkers
              => TaskCanGoOn)
  BY NeverStuck
<1> QED BY <1>1, TreeStart, TreeStep, WaitsStart, WaitsStep, PTL DEF TreeSpec

(* And each step brings the run nearer to its end, or to a full pool: no node *)
(* falls back and no worker of a cycle is given up, and one node comes        *)
(* further or one more worker is kept, so that a run has at most three steps  *)
(* for a node and one for a worker.                                           *)
THEOREM RunMovesOn ==
  TreeSpec => [][Execute => /\ again' >= again /\ \A n \in Nodes : Progress(n)' >= Progress(n)
                            /\ \/ run' = "ended" \/ again' > again
                               \/ \E n \in Nodes : Progress(n)' > Progress(n)]_treeVars
BY TreeStart, TreeStep, MovesOn, PTL DEF TreeSpec

-----------------------------------------------------------------------------
(* All the parts together: a step of the backend is a step of one part and  *)
(* leaves the others alone, so that each part's invariant holds of it.      *)

BackendInv ==
  /\ PoolInv /\ PoolFlags
  /\ GatewayInv /\ QuotaOvershoot
  /\ OutboxInv /\ deaths \in 0..MaxDeaths
  /\ LeaseInv
  /\ TreeInv
  /\ PolicyInv /\ Numbering
  /\ WorkInv
  /\ SoundAll /\ WithinLimits

LEMMA PartsMove ==
  [BackendNext]_backendVars =>
    /\ [PoolNext]_poolVars /\ [GatewayNext]_gatewayVars
    /\ [OutboxNext]_outboxVars /\ [LeaseNext]_leaseVars
    /\ [TreeNext]_treeVars /\ [PolicyNext]_policyVars
    /\ [WorkNext]_workVars /\ [TurnsNext]_turnsVars
BY DEF BackendNext, PoolMoves, GatewayMoves, OutboxMoves, LeaseMoves, TreeMoves, PolicyMoves,
       WorkMoves, TurnsMoves, backendVars

LEMMA BackendStart == BackendInit => BackendInv
<1>1. deaths = 0 => deaths \in 0..MaxDeaths
  BY OutboxAssumption
<1> QED
  BY <1>1, PoolStart, PoolFlagsStart, GatewayStart, QuotaStart, OutboxStart, LeaseStart, TreeStart,
     PolicyStart, NumberingStart, WorkStart, SoundStart, LimitsStart
  DEF BackendInit, BackendInv, OutboxInit

LEMMA BackendStep == BackendInv /\ [BackendNext]_backendVars => BackendInv'
BY PartsMove, PoolStepKeeps, PoolFlagsKept, GatewayStep, QuotaStep, OutboxStep, DeathsKept, LeaseStep,
   TreeStep, PolicyStep, NumberingStep, WorkStep, SoundStep, LimitsKept
DEF BackendInv

LEMMA BackendAlways == BackendSpec => []BackendInv
BY BackendStart, BackendStep, PTL DEF BackendSpec

(* Every part's counts stay within their limits and its records in their    *)
(* types, for any number of threads, callers, events, requests and turns.   *)
THEOREM TypesSafety == BackendSpec => []BackendTypeOK
<1>1. BackendInv => BackendTypeOK
  <2> SUFFICES ASSUME BackendInv PROVE BackendTypeOK
    OBVIOUS
  <2>1. PoolTypeOK /\ OutboxTypeOK /\ TurnsTypeOK
    BY PoolTyped, OutboxTyped, TurnsTyped DEF BackendInv
  <2>2. GatewayTypeOK /\ LeaseTypeOK /\ TreeTypeOK /\ PolicyTypeOK /\ WorkTypeOK
    BY DEF BackendInv, GatewayInv, LeaseInv, TreeInv, Numbering, WorkInv
  <2> QED BY <2>1, <2>2 DEF BackendTypeOK
<1> QED BY <1>1, BackendAlways, PTL

(* The invariants of the parts, of the specification that TLC runs: what    *)
(* each promises holds whatever the others do.                              *)
THEOREM PartsSafety ==
  BackendSpec => [](/\ PoolNoSharing /\ PoolTenantScoped /\ PoolFallbackUnneeded
                    /\ QuotaOvershoot
                    /\ OutboxTellsTheTruth /\ LockedItemHasEntry /\ AggregatesComplete
                    /\ ActiveIsPublished /\ PublishedBundleIsWhole /\ BlockersWereEnded
                    /\ SlotsAccounted /\ NeverExhausted
                    /\ ErrorMeansNotSaved)
<1>1. BackendInv =>
        /\ PoolNoSharing /\ PoolTenantScoped /\ PoolFallbackUnneeded
        /\ QuotaOvershoot
        /\ OutboxTellsTheTruth /\ LockedItemHasEntry /\ AggregatesComplete
        /\ ActiveIsPublished /\ PublishedBundleIsWhole /\ BlockersWereEnded
        /\ SlotsAccounted /\ NeverExhausted
        /\ ErrorMeansNotSaved
  BY LentProperly, Admission, PolicyPromises, Slotted, InBudget, ErrorsUnsaved
  DEF BackendInv, GatewayInv, OutboxInv, LeaseInv, TreeInv, RunInv, WorkInv
<1> QED BY <1>1, BackendAlways, PTL

(* What no step of the backend may do: a DELETE that takes along rows it    *)
(* had answered to have moved.                                              *)
THEOREM TreeStepsSafety == BackendSpec => DeleteKeepsOwnChildren
<1>1. BackendInv /\ [BackendNext]_backendVars => TreeInv /\ [TreeNext]_treeVars
  BY PartsMove DEF BackendInv
<1>2. BackendInv /\ [BackendNext]_backendVars =>
        [DeleteRemoves /\ deletion.up # deletion.node =>
           LET foreign == Children(deletion.node) \ TreeOf(deletion.node)
           IN  nodes \ nodes' \subseteq
                 {deletion.node} \cup UNION {Below(m) : m \in moved \cup foreign}]_treeVars
  BY <1>1, KeepsStep
<1> QED BY <1>2, BackendAlways, PTL DEF BackendSpec, DeleteKeepsOwnChildren
=============================================================================
