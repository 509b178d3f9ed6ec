-------------------------- MODULE ConnPoolProofs ---------------------------
(* Proofs of the invariants of ConnPool, for any number of threads,         *)
(* tenants, connections and faults.                                         *)
EXTENDS ConnPool, FiniteSetTheorems, TLAPS

ThreadPlaces == {"idle", "waiting", "granted", "open", "inside", "failing", "returned"}
ThreadRecord ==
  [at : ThreadPlaces, tenant : Tenants \cup {NoTenant}, conn : Conns \cup {NoConn}]
Lending == {"open", "inside", "failing"}
Admitted == {"granted", "open", "inside", "failing", "returned"}

(* What a connection and its holder know of each other: every connection in *)
(* use is held by a thread, and by one only; the setting of a session is    *)
(* the tenant of the thread inside.                                         *)
Lent ==
  /\ \A c \in inUse : \E t \in Threads : thread[t].at \in Lending /\ thread[t].conn = c
  /\ \A t \in Threads : thread[t].at \in Lending => thread[t].conn \in inUse
  /\ \A t, u \in Threads :
       thread[t].at \in Lending /\ thread[u].at \in Lending /\ thread[t].conn = thread[u].conn
         => t = u
  /\ PoolTenantScoped

(* The types, but for the range of the semaphore.                           *)
PoolShape ==
  /\ pool \subseteq Conns /\ inUse \subseteq pool
  /\ setting \in [Conns -> Tenants \cup {NoTenant}]
  /\ broken \subseteq Conns
  /\ thread \in [Threads -> ThreadRecord]

(* The semaphore counts the threads that do not have a slot.                *)
Counted == slots = PoolMax - Cardinality(HasSlot) /\ slots \in Nat

PoolInv == PoolShape /\ Lent /\ Counted

USE DEF ThreadPlaces, Lending, Admitted

LEMMA HasSlotFinite ==
  /\ IsFiniteSet(HasSlot) /\ Cardinality(HasSlot) \in Nat
  /\ HasSlot = {t \in Threads : thread[t].at \in Admitted}
BY FS_Subset, FS_CardinalityType, PoolAssumption, HasSlot \subseteq Threads DEF HasSlot

LEMMA PoolStart == PoolInit => PoolInv
<1> SUFFICES ASSUME PoolInit PROVE PoolInv
  OBVIOUS
<1>1. Idle \in ThreadRecord /\ Idle.at = "idle"
  BY DEF Idle, ThreadRecord
<1>2. PoolShape
  BY <1>1 DEF PoolInit, PoolShape
<1>3. Lent
  BY <1>1 DEF PoolInit, Lent, PoolTenantScoped
<1>4. HasSlot = {}
  BY <1>1 DEF PoolInit, HasSlot
<1>5. Counted
  BY <1>4, FS_EmptySet, PoolAssumption DEF PoolInit, Counted
<1> QED BY <1>2, <1>3, <1>5 DEF PoolInv

(* Only thread t moves, to a record r.                                      *)
ThreadMoves(t, r) ==
  /\ thread' \in [Threads -> ThreadRecord]
  /\ thread'[t] = r
  /\ \A u \in Threads : u # t => thread'[u] = thread[u]

LEMMA Setting ==
  ASSUME PoolShape, NEW t \in Threads, NEW r \in ThreadRecord, thread' = [thread EXCEPT ![t] = r]
  PROVE  ThreadMoves(t, r)
BY DEF ThreadMoves, PoolShape

LEMMA ThreadGoes ==
  ASSUME PoolShape, NEW t \in Threads, NEW at \in ThreadPlaces, Goes(t, at)
  PROVE  /\ ThreadMoves(t, thread'[t])
         /\ thread'[t].at = at /\ thread'[t].tenant = thread[t].tenant
         /\ thread'[t].conn = thread[t].conn
BY DEF ThreadMoves, PoolShape, Goes, ThreadRecord

LEMMA IdleRecord == Idle \in ThreadRecord /\ Idle.at = "idle"
BY DEF Idle, ThreadRecord

(* The three ways a step leaves the count.                                  *)
LEMMA SlotTaken ==
  ASSUME PoolInv, NEW t \in Threads, NEW r, ThreadMoves(t, r), slots > 0, slots' = slots - 1,
         thread[t].at \notin Admitted, r.at \in Admitted
  PROVE  Counted'
<1>1. HasSlot' = HasSlot \cup {t} /\ t \notin HasSlot
  BY DEF HasSlot, ThreadMoves
<1>2. Cardinality(HasSlot)' = Cardinality(HasSlot) + 1
  BY <1>1, FS_AddElement, HasSlotFinite
<1> QED BY <1>2, HasSlotFinite, PoolAssumption DEF Counted, PoolInv

LEMMA SlotGiven ==
  ASSUME PoolInv, NEW t \in Threads, NEW r, ThreadMoves(t, r), slots' = slots + 1,
         thread[t].at \in Admitted, r.at \notin Admitted
  PROVE  Counted'
<1>1. HasSlot' = HasSlot \ {t} /\ t \in HasSlot
  BY DEF HasSlot, ThreadMoves
<1>2. Cardinality(HasSlot)' = Cardinality(HasSlot) - 1
  BY <1>1, FS_RemoveElement, HasSlotFinite
<1> QED BY <1>2, HasSlotFinite, PoolAssumption DEF Counted, PoolInv

LEMMA SlotKept ==
  ASSUME PoolInv, NEW t \in Threads, NEW r, ThreadMoves(t, r), slots' = slots,
         thread[t].at \in Admitted <=> r.at \in Admitted
  PROVE  Counted'
<1>1. HasSlot' = HasSlot
  BY DEF HasSlot, ThreadMoves
<1> QED BY <1>1 DEF Counted, PoolInv

(* Connections come and go among those no thread holds.                     *)
ConnsChange ==
  /\ pool' \subseteq Conns /\ inUse \subseteq pool'
  /\ broken' \subseteq Conns
  /\ setting' \in [Conns -> Tenants \cup {NoTenant}]
  /\ \A c \in inUse : setting'[c] = setting[c]

LEMMA ConnectsChange == ASSUME PoolShape, NEW new, Connects(new) PROVE ConnsChange
BY DEF PoolShape, Connects, ConnsChange

LEMMA ReapChange == ASSUME PoolShape, ReapIdle PROVE ConnsChange
BY DEF PoolShape, ReapIdle, ConnsChange, Free

(* A step in which no thread enters, takes or leaves a connection.          *)
LEMMA LentKept ==
  ASSUME PoolInv, NEW t \in Threads, NEW r, ThreadMoves(t, r), inUse' = inUse, ConnsChange,
         \/ thread[t].at \notin Lending /\ r.at \notin Lending
         \/ /\ thread[t].at \in Lending /\ r.at \in Lending /\ r.conn = thread[t].conn
            /\ r.at # "inside"
  PROVE  Lent'
<1>1. \A u \in Threads : thread'[u].at \in Lending <=> thread[u].at \in Lending
  BY DEF ThreadMoves
<1>2. \A u \in Threads : thread[u].at \in Lending => thread'[u].conn = thread[u].conn
  BY DEF ThreadMoves
<1>3. \A c \in inUse : \E u \in Threads : thread'[u].at \in Lending /\ thread'[u].conn = c
  BY <1>1, <1>2 DEF PoolInv, Lent
<1>4. /\ \A u \in Threads : thread'[u].at \in Lending => thread'[u].conn \in inUse
      /\ \A u, v \in Threads :
           thread'[u].at \in Lending /\ thread'[v].at \in Lending /\ thread'[u].conn = thread'[v].conn
             => u = v
  BY <1>1, <1>2 DEF PoolInv, Lent
<1>5. PoolTenantScoped'
  BY DEF PoolInv, Lent, PoolTenantScoped, ConnsChange, ThreadMoves
<1> QED BY <1>3, <1>4, <1>5 DEF Lent

LEMMA Standing == ASSUME PoolShape, UNCHANGED <<pool, inUse, setting, broken>> PROVE ConnsChange
BY DEF PoolShape, ConnsChange

(* No thread moves.                                                         *)
LEMMA ThreadsStay ==
  ASSUME PoolInv, UNCHANGED <<inUse, slots, thread>>, ConnsChange PROVE PoolInv'
<1>1. PoolShape'
  BY DEF PoolInv, PoolShape, ConnsChange
<1>2. PoolTenantScoped'
  BY DEF PoolInv, Lent, PoolTenantScoped, ConnsChange
<1>3. Lent' /\ Counted'
  BY <1>2 DEF PoolInv, Lent, Counted, HasSlot
<1> QED BY <1>1, <1>3 DEF PoolInv

(* A thread takes the connection c, which nobody has.                       *)
LEMMA Takes ==
  ASSUME PoolInv, NEW t \in Threads, NEW c \in Conns, c \notin inUse,
         thread[t].at = "granted", ConnsChange, c \in pool', inUse' = inUse \cup {c},
         thread' = [thread EXCEPT ![t].at = "open", ![t].conn = c], slots' = slots
  PROVE  PoolInv'
<1>1. /\ ThreadMoves(t, thread'[t]) /\ thread'[t].at = "open" /\ thread'[t].conn = c
  BY DEF PoolInv, PoolShape, ThreadMoves, ThreadRecord
<1>2. PoolShape'
  BY <1>1 DEF PoolInv, PoolShape, ConnsChange, ThreadMoves
<1>3. \A d \in inUse' : \E u \in Threads : thread'[u].at \in Lending /\ thread'[u].conn = d
  <2>1. ASSUME NEW d \in inUse
        PROVE  \E u \in Threads : thread'[u].at \in Lending /\ thread'[u].conn = d
    <3>1. PICK u \in Threads : thread[u].at \in Lending /\ thread[u].conn = d
      BY <2>1 DEF PoolInv, Lent
    <3> QED BY <1>1, <3>1 DEF ThreadMoves
  <2> QED BY <1>1, <2>1
<1>4. \A u \in Threads : u # t /\ thread'[u].at \in Lending => thread'[u].conn \in inUse
  BY <1>1 DEF PoolInv, Lent, ThreadMoves
<1>5. \A u, v \in Threads :
        thread'[u].at \in Lending /\ thread'[v].at \in Lending /\ thread'[u].conn = thread'[v].conn
          => u = v
  BY <1>1, <1>4 DEF PoolInv, Lent, ThreadMoves
<1>6. PoolTenantScoped'
  BY <1>1 DEF PoolInv, Lent, PoolTenantScoped, ConnsChange, ThreadMoves
<1>7. Counted'
  BY <1>1, SlotKept
<1>8. ASSUME NEW u \in Threads, thread'[u].at \in Lending PROVE thread'[u].conn \in inUse'
  <2>1. CASE u = t
    BY <1>1, <2>1
  <2>2. CASE u # t
    <3>1. thread'[u].conn \in inUse
      BY <1>4, <1>8, <2>2
    <3> QED BY <3>1
  <2> QED BY <2>1, <2>2
<1>9. Lent'
  BY <1>3, <1>5, <1>6, <1>8 DEF Lent
<1> QED BY <1>2, <1>7, <1>9 DEF PoolInv

LEMMA PoolStepKeeps == PoolInv /\ [PoolNext]_poolVars => PoolInv'
<1> SUFFICES ASSUME PoolInv, [PoolNext]_poolVars PROVE PoolInv'
  OBVIOUS
<1> USE DEF PoolInv
<1>1. ASSUME NEW t \in Threads, PoolWarm(t) \/ PoolWarmFails(t) PROVE PoolInv'
  <2>1. (\E new \in SUBSET (Conns \ pool) : Connects(new)) /\ UNCHANGED <<inUse, slots, thread>>
    BY <1>1 DEF PoolWarm, PoolWarmFails
  <2>2. ConnsChange
    BY <2>1, ConnectsChange
  <2> QED BY <2>1, <2>2, ThreadsStay
<1>2. ASSUME NEW t \in Threads, NEW n \in Tenants, PoolAsk(t, n) PROVE PoolInv'
  <2> DEFINE r == [Idle EXCEPT !.at = "waiting", !.tenant = n]
  <2>1. /\ thread[t].at = "idle" /\ ReapIdle /\ thread' = [thread EXCEPT ![t] = r]
        /\ UNCHANGED <<inUse, slots>>
    BY <1>2 DEF PoolAsk
  <2>2. r \in ThreadRecord /\ r.at = "waiting"
    BY DEF Idle, ThreadRecord
  <2> HIDE DEF r
  <2>3. ThreadMoves(t, r) /\ ConnsChange
    BY <2>1, <2>2, Setting, ReapChange
  <2>4. PoolShape'
    BY <2>1, <2>3 DEF PoolShape, ThreadMoves, ConnsChange
  <2> QED BY <2>1, <2>2, <2>3, <2>4, SlotKept, LentKept
<1>3. ASSUME NEW t \in Threads, PoolAcquire(t) PROVE PoolInv'
  <2>1. /\ thread[t].at = "waiting" /\ slots > 0 /\ slots' = slots - 1 /\ Goes(t, "granted")
        /\ UNCHANGED <<pool, inUse, setting, broken>>
    BY <1>3 DEF PoolAcquire
  <2>2. ThreadMoves(t, thread'[t]) /\ thread'[t].at = "granted"
    BY <2>1, ThreadGoes
  <2>3. PoolShape'
    BY <2>1, <2>2 DEF PoolShape, ThreadMoves
  <2>4. Counted'
    BY <2>1, <2>2, SlotTaken
  <2>5. Lent'
    BY <2>1, <2>2, Standing, LentKept
  <2> QED BY <2>3, <2>4, <2>5
<1>4. ASSUME NEW t \in Threads, PoolExhausted(t) \/ PoolConnectFails(t) \/ PoolRelease(t)
      PROVE  PoolInv'
  <2>1. /\ thread[t].at \in {"waiting", "granted", "returned"}
        /\ slots' = IF thread[t].at = "waiting" THEN slots ELSE slots + 1
        /\ thread' = [thread EXCEPT ![t] = Idle]
        /\ UNCHANGED <<pool, inUse, setting, broken>>
    BY <1>4 DEF PoolExhausted, PoolConnectFails, MayConnect, PoolRelease
  <2>2. ThreadMoves(t, Idle) /\ Idle.at = "idle"
    BY <2>1, Setting, IdleRecord
  <2>3. PoolShape'
    BY <2>1, <2>2 DEF PoolShape, ThreadMoves
  <2>4. Counted'
    <3>1. CASE thread[t].at = "waiting"
      BY <2>1, <2>2, <3>1, SlotKept
    <3>2. CASE thread[t].at # "waiting"
      BY <2>1, <2>2, <3>2, SlotGiven
    <3> QED BY <3>1, <3>2
  <2>5. Lent'
    BY <2>1, <2>2, Standing, LentKept
  <2> QED BY <2>3, <2>4, <2>5
<1>5. ASSUME NEW t \in Threads, PoolCheckOut(t) PROVE PoolInv'
  <2>1. PICK c \in Free :
          /\ inUse' = inUse \cup {c}
          /\ thread' = [thread EXCEPT ![t].at = "open", ![t].conn = c]
    BY <1>5 DEF PoolCheckOut
  <2>2. /\ c \in Conns /\ c \in pool /\ c \notin inUse /\ thread[t].at = "granted"
        /\ UNCHANGED <<pool, slots, setting, broken>>
    BY <1>5 DEF PoolCheckOut, Free, PoolShape
  <2>3. ConnsChange
    BY <2>2 DEF PoolShape, ConnsChange
  <2> QED BY <2>1, <2>2, <2>3, Takes
<1>6. ASSUME NEW t \in Threads, PoolConnect(t) PROVE PoolInv'
  <2>1. PICK c \in Conns \ pool :
          /\ Connects({c}) /\ inUse' = inUse \cup {c}
          /\ thread' = [thread EXCEPT ![t].at = "open", ![t].conn = c]
    BY <1>6 DEF PoolConnect
  <2>2. c \in pool' /\ c \notin inUse /\ thread[t].at = "granted" /\ slots' = slots
    BY <1>6, <2>1 DEF PoolConnect, MayConnect, Connects, PoolShape
  <2> QED BY <2>1, <2>2, ConnectsChange, Takes
<1>7. ASSUME NEW t \in Threads, PoolEnter(t) PROVE PoolInv'
  <2>1. /\ thread[t].at = "open" /\ Goes(t, "inside") /\ UNCHANGED <<pool, inUse, broken, slots>>
        /\ setting' = [setting EXCEPT ![thread[t].conn] = thread[t].tenant]
    BY <1>7 DEF PoolEnter
  <2>2. /\ ThreadMoves(t, thread'[t]) /\ thread'[t].at = "inside"
        /\ thread'[t].tenant = thread[t].tenant /\ thread'[t].conn = thread[t].conn
    BY <2>1, ThreadGoes
  <2>3. thread[t].conn \in Conns /\ thread[t].tenant \in Tenants \cup {NoTenant}
    BY <2>1 DEF PoolShape, Lent, ThreadRecord
  <2>4. PoolShape'
    BY <2>1, <2>2, <2>3 DEF PoolShape, ThreadMoves
  <2>5. Counted'
    BY <2>1, <2>2, SlotKept
  <2>6. \A c \in inUse : \E u \in Threads : thread'[u].at \in Lending /\ thread'[u].conn = c
    <3>1. \A u \in Threads : thread[u].at \in Lending =>
            thread'[u].at \in Lending /\ thread'[u].conn = thread[u].conn
      BY <2>1, <2>2 DEF ThreadMoves
    <3> QED BY <3>1 DEF Lent
  <2>7. /\ \A u \in Threads : thread'[u].at \in Lending => thread'[u].conn \in inUse
        /\ \A u, v \in Threads :
             thread'[u].at \in Lending /\ thread'[v].at \in Lending /\ thread'[u].conn = thread'[v].conn
               => u = v
    BY <2>1, <2>2 DEF Lent, ThreadMoves
  <2>8. PoolTenantScoped'
    <3>1. ASSUME NEW u \in Threads, thread'[u].at = "inside"
          PROVE  setting'[thread'[u].conn] = thread'[u].tenant
      <4>1. CASE u = t
        BY <2>1, <2>2, <2>3, <4>1 DEF PoolShape
      <4>2. CASE u # t
        <5>1. thread[u].at = "inside" /\ thread'[u] = thread[u] /\ thread[u].conn # thread[t].conn
          BY <2>1, <2>2, <3>1, <4>2 DEF ThreadMoves, Lent
        <5>2. thread[u].conn \in Conns /\ setting[thread[u].conn] = thread[u].tenant
          BY <5>1 DEF PoolShape, Lent, PoolTenantScoped
        <5> QED BY <2>1, <5>1, <5>2 DEF PoolShape
      <4> QED BY <4>1, <4>2
    <3> QED BY <3>1 DEF PoolTenantScoped
  <2> QED BY <2>1, <2>4, <2>5, <2>6, <2>7, <2>8 DEF Lent
<1>8. ASSUME NEW t \in Threads, PoolEnterFails(t) PROVE PoolInv'
  <2>1. /\ thread[t].at = "open" /\ Goes(t, "failing")
        /\ UNCHANGED <<pool, inUse, setting, broken, slots>>
    BY <1>8 DEF PoolEnterFails
  <2>2. /\ ThreadMoves(t, thread'[t]) /\ thread'[t].at = "failing"
        /\ thread'[t].conn = thread[t].conn
    BY <2>1, ThreadGoes
  <2>3. PoolShape'
    BY <2>1, <2>2 DEF PoolShape, ThreadMoves
  <2>4. Counted'
    BY <2>1, <2>2, SlotKept
  <2>5. Lent'
    BY <2>1, <2>2, Standing, LentKept
  <2> QED BY <2>3, <2>4, <2>5
<1>9. ASSUME NEW t \in Threads, PoolReturn(t) PROVE PoolInv'
  <2>1. /\ thread[t].at \in Lending /\ inUse' = inUse \ {thread[t].conn} /\ Goes(t, "returned")
        /\ UNCHANGED <<pool, setting, broken, slots>>
    BY <1>9 DEF PoolReturn
  <2>2. ThreadMoves(t, thread'[t]) /\ thread'[t].at = "returned"
    BY <2>1, ThreadGoes
  <2>3. PoolShape'
    BY <2>1, <2>2 DEF PoolShape, ThreadMoves
  <2>4. Counted'
    BY <2>1, <2>2, SlotKept
  <2>5. \A u \in Threads : thread'[u].at \in Lending =>
          u # t /\ thread[u].at \in Lending /\ thread'[u] = thread[u]
    BY <2>2 DEF ThreadMoves
  <2>6. \A c \in inUse' : \E u \in Threads : thread'[u].at \in Lending /\ thread'[u].conn = c
    <3>1. ASSUME NEW c \in inUse, c # thread[t].conn
          PROVE  \E u \in Threads : thread'[u].at \in Lending /\ thread'[u].conn = c
      <4>1. PICK u \in Threads : thread[u].at \in Lending /\ thread[u].conn = c
        BY DEF Lent
      <4> QED BY <2>2, <3>1, <4>1 DEF ThreadMoves
    <3> QED BY <2>1, <3>1
  <2>7. /\ \A u \in Threads : thread'[u].at \in Lending => thread'[u].conn \in inUse'
        /\ \A u, v \in Threads :
             thread'[u].at \in Lending /\ thread'[v].at \in Lending /\ thread'[u].conn = thread'[v].conn
               => u = v
    BY <2>1, <2>5 DEF Lent
  <2>8. PoolTenantScoped'
    BY <2>1, <2>5 DEF Lent, PoolTenantScoped
  <2> QED BY <2>3, <2>4, <2>6, <2>7, <2>8 DEF Lent
<1>10. CASE DatabaseRestarts
  <2>1. ConnsChange /\ UNCHANGED <<inUse, slots, thread>>
    BY <1>10 DEF DatabaseRestarts, PoolShape, ConnsChange
  <2> QED BY <2>1, ThreadsStay
<1>11. CASE UNCHANGED poolVars
  BY <1>11, Standing, ThreadsStay DEF poolVars
<1> QED
  BY <1>1, <1>2, <1>3, <1>4, <1>5, <1>6, <1>7, <1>8, <1>9, <1>10, <1>11 DEF PoolNext, PoolStep

(* The flag and the count of faults, which nothing else depends on.         *)
PoolFlags == warm \in BOOLEAN /\ poolFaults \in 0..PoolFaults

LEMMA PoolFlagsStart == PoolInit => PoolFlags
<1>1. 0 \in 0..PoolFaults
  BY PoolAssumption
<1> QED BY <1>1 DEF PoolInit, PoolFlags

LEMMA PoolFlagsKept == PoolFlags /\ [PoolNext]_poolVars => PoolFlags'
<1> USE DEF PoolFlags
<1>f. ASSUME PoolFlags, Fault PROVE poolFaults' \in 0..PoolFaults
  BY <1>f, PoolAssumption DEF Fault
<1>1. ASSUME PoolFlags, NEW t \in Threads, PoolStep(t) PROVE PoolFlags'
  BY <1>1, <1>f DEF PoolStep, PoolWarm, PoolWarmFails, PoolAsk, PoolAcquire, PoolExhausted, PoolCheckOut,
              PoolConnect, PoolConnectFails, PoolEnter, PoolEnterFails, PoolReturn, PoolRelease
<1>2. ASSUME PoolFlags, DatabaseRestarts \/ UNCHANGED poolVars PROVE PoolFlags'
  BY <1>2, <1>f DEF DatabaseRestarts, poolVars
<1> QED BY <1>1, <1>2 DEF PoolNext

LEMMA PoolTyped == PoolInv /\ PoolFlags => PoolTypeOK
<1> SUFFICES ASSUME PoolInv, PoolFlags PROVE PoolTypeOK
  OBVIOUS
<1>1. slots \in 0..PoolMax
  BY HasSlotFinite, PoolAssumption DEF PoolInv, Counted
<1> QED BY <1>1 DEF PoolInv, PoolShape, PoolFlags, PoolTypeOK, ThreadRecord

(* If no connection is free, each is held by a thread with a slot, and the  *)
(* admitted thread is one thread more.                                      *)
LEMMA Admission == PoolInv => PoolFallbackUnneeded
<1> SUFFICES ASSUME PoolInv, NEW t \in Threads, thread[t].at = "granted", Free = {}
             PROVE  Cardinality(pool) < PoolMax
  BY DEF PoolFallbackUnneeded
<1>1. pool = inUse
  BY DEF PoolInv, PoolShape, Free
<1>2. Holding \subseteq HasSlot \ {t} /\ t \in HasSlot /\ IsFiniteSet(HasSlot \ {t})
  BY HasSlotFinite, FS_RemoveElement DEF Holding, HasSlot
<1>3. Cardinality(HasSlot \ {t}) = Cardinality(HasSlot) - 1
  BY <1>2, HasSlotFinite, FS_RemoveElement
<1>4. IsFiniteSet(Holding) /\ Cardinality(Holding) =< Cardinality(HasSlot) - 1
  BY <1>2, <1>3, FS_Subset
<1>5. [u \in Holding |-> thread[u].conn] \in Surjection(Holding, inUse)
  <2>1. \A u \in Holding : thread[u].conn \in inUse
    BY DEF PoolInv, Lent, Holding
  <2>2. \A c \in inUse : \E u \in Holding : thread[u].conn = c
    BY DEF PoolInv, Lent, Holding
  <2> QED BY <2>1, <2>2 DEF Surjection
<1>6. IsFiniteSet(inUse) /\ Cardinality(inUse) =< Cardinality(Holding)
  BY <1>4, <1>5, FS_Surjection
<1>7. Cardinality(HasSlot) =< PoolMax /\ Cardinality(Holding) \in Nat /\ Cardinality(inUse) \in Nat
  BY <1>4, <1>6, HasSlotFinite, FS_CardinalityType, PoolAssumption DEF PoolInv, Counted
<1> QED BY <1>1, <1>4, <1>6, <1>7, HasSlotFinite, PoolAssumption

LEMMA LentProperly == PoolInv => PoolNoSharing /\ PoolTenantScoped
BY DEF PoolInv, PoolShape, Lent, PoolNoSharing, PoolTenantScoped, Holding

LEMMA PoolInvariant == PoolSpec => [](PoolInv /\ PoolFlags)
BY PoolStart, PoolStepKeeps, PoolFlagsStart, PoolFlagsKept, PTL DEF PoolSpec

(* The semaphore's count stays within the slots there are, and every other  *)
(* variable in its type.                                                    *)
THEOREM PoolTypes == PoolSpec => []PoolTypeOK
BY PoolInvariant, PoolTyped, PTL

(* A connection serves one thread at a time and stays in the pool with it.  *)
THEOREM SharingSafety == PoolSpec => []PoolNoSharing
BY PoolInvariant, LentProperly, PTL

(* Inside its with block a thread works on its own tenant's rows.           *)
THEOREM TenantSafety == PoolSpec => []PoolTenantScoped
BY PoolInvariant, LentProperly, PTL

(* An admitted thread never needs a connection outside the pool.            *)
THEOREM AdmissionSafety == PoolSpec => []PoolFallbackUnneeded
BY PoolInvariant, Admission, PTL
=============================================================================
