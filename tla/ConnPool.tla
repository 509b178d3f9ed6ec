------------------------------ MODULE ConnPool ------------------------------
(***************************************************************************)
(* The PostgreSQL connection pool of one backend process                   *)
(* (shared/pg_pool.py) and the wrapper every caller reaches it through     *)
(* (connect_pg and _PgConnection of shared/pg_tenant.py).                  *)
(*                                                                         *)
(* A semaphore of PoolMax slots admits threads; a lock protects the list   *)
(* of connections.  Each section under the lock is one action.  A          *)
(* connection is autocommit and remembers the app.tenant_id last set on    *)
(* it, which row level security reads, so the wrapper sets it on every     *)
(* use.  The order of the list is abstracted: a thread may take any free   *)
(* connection.                                                             *)
(***************************************************************************)
EXTENDS Integers, FiniteSets

CONSTANTS
  Threads,     \* threads of the process that run SQL
  Tenants,     \* values of app.tenant_id
  NoTenant,    \* the setting of a fresh session
  Conns,       \* identities of server connections, reused once closed
  NoConn,      \* a thread holds no connection
  PoolMin,     \* CENTRAL_PG_POOL_MIN_SIZE
  PoolMax,     \* CENTRAL_PG_POOL_MAX_SIZE, at least PoolMin + 1
  PoolFaults   \* bound: failed connects and database restarts

ASSUME PoolAssumption ==
  /\ PoolMin \in Nat \ {0} /\ PoolMax \in Nat /\ PoolMin < PoolMax
  /\ PoolFaults \in Nat
  /\ IsFiniteSet(Threads) /\ IsFiniteSet(Conns)
  /\ NoTenant \notin Tenants /\ NoConn \notin Conns

VARIABLES
  pool,        \* the connections of _pool
  inUse,       \* those flagged in_use
  warm,        \* _pool_initialized
  slots,       \* value of _pool_sem
  setting,     \* app.tenant_id of each server session
  broken,      \* connections the server has closed
  thread,      \* where each thread is, its tenant and its connection
  poolFaults

poolVars == <<pool, inUse, warm, slots, setting, broken, thread, poolFaults>>

Idle == [at |-> "idle", tenant |-> NoTenant, conn |-> NoConn]
Free == pool \ inUse
Holding == {t \in Threads : thread[t].at \in {"open", "inside", "failing"}}
HasSlot == {t \in Threads : thread[t].at \in {"granted", "open", "inside", "failing", "returned"}}

Goes(t, at) == thread' = [thread EXCEPT ![t].at = at]
Fault == poolFaults < PoolFaults /\ poolFaults' = poolFaults + 1

PoolTypeOK ==
  /\ pool \subseteq Conns /\ inUse \subseteq pool
  /\ warm \in BOOLEAN
  /\ slots \in 0..PoolMax
  /\ setting \in [Conns -> Tenants \cup {NoTenant}]
  /\ broken \subseteq Conns
  /\ thread \in [Threads -> [at : {"idle", "waiting", "granted", "open", "inside", "failing",
                                   "returned"},
                             tenant : Tenants \cup {NoTenant},
                             conn : Conns \cup {NoConn}]]
  /\ poolFaults \in 0..PoolFaults

PoolInit ==
  /\ pool = {} /\ inUse = {} /\ warm = FALSE
  /\ slots = PoolMax
  /\ setting = [c \in Conns |-> NoTenant]
  /\ broken = {}
  /\ thread = [t \in Threads |-> Idle]
  /\ poolFaults = 0

(***************************************************************************)
(* psycopg.connect: sessions start with no tenant set.                     *)
(***************************************************************************)
Connects(new) ==
  /\ new \subseteq Conns \ pool
  /\ pool' = pool \cup new
  /\ setting' = [c \in Conns |-> IF c \in new THEN NoTenant ELSE setting[c]]
  /\ broken' = broken \ new

(***************************************************************************)
(* _ensure_pool by the first thread, which then goes on as PoolAsk.  When  *)
(* a connect fails the exception leaves the earlier connections in the     *)
(* list and the flag unset, so the next attempt adds PoolMin more.         *)
(***************************************************************************)
PoolWarm(t) ==
  /\ thread[t].at = "idle" /\ ~warm
  /\ \E new \in SUBSET (Conns \ pool) : Cardinality(new) = PoolMin /\ Connects(new)
  /\ warm' = TRUE
  /\ UNCHANGED <<inUse, slots, thread, poolFaults>>

PoolWarmFails(t) ==
  /\ thread[t].at = "idle" /\ ~warm
  /\ Fault
  /\ \E new \in SUBSET (Conns \ pool) : Cardinality(new) < PoolMin /\ Connects(new)
  /\ UNCHANGED <<inUse, warm, slots, thread>>

\* Mutant: the reaper does not look at in_use.
ReapAnyOld ==
  \E old \in SUBSET pool :
    LET closed == IF Cardinality(pool) - Cardinality(old) < PoolMin THEN {} ELSE old
    IN  /\ pool' = pool \ closed
        /\ setting' = [c \in Conns |-> IF c \in closed THEN NoTenant ELSE setting[c]]
        /\ broken' = broken \ closed

(***************************************************************************)
(* _reap_idle, when _POOL_CHECK_INTERVAL has passed: close the connections *)
(* that have been idle too long, unless fewer than PoolMin would stay.     *)
(* Clocks are abstracted: any of the free connections may be that old, and *)
(* none when the interval has not passed.                                  *)
(***************************************************************************)
ReapIdle ==
  \E idle \in SUBSET Free :
    LET closed == IF Cardinality(pool) - Cardinality(idle) < PoolMin THEN {} ELSE idle
    IN  /\ pool' = pool \ closed
        /\ setting' = [c \in Conns |-> IF c \in closed THEN NoTenant ELSE setting[c]]
        /\ broken' = broken \ closed

(***************************************************************************)
(* connect_pg for a tenant, up to the semaphore.                           *)
(***************************************************************************)
PoolAsk(t, n) ==
  /\ thread[t].at = "idle" /\ warm
  /\ ReapIdle
  /\ thread' = [thread EXCEPT ![t] = [Idle EXCEPT !.at = "waiting", !.tenant = n]]
  /\ UNCHANGED <<inUse, warm, slots, poolFaults>>

PoolAcquire(t) ==
  /\ thread[t].at = "waiting" /\ slots > 0
  /\ slots' = slots - 1
  /\ Goes(t, "granted")
  /\ UNCHANGED <<pool, inUse, warm, setting, broken, poolFaults>>

\* Five seconds without a slot: pg_pool_exhausted.
PoolExhausted(t) ==
  /\ thread[t].at = "waiting" /\ slots = 0
  /\ thread' = [thread EXCEPT ![t] = Idle]
  /\ UNCHANGED <<pool, inUse, warm, slots, setting, broken, poolFaults>>

PoolCheckOut(t) ==
  /\ thread[t].at = "granted"
  /\ \E c \in Free :
       /\ inUse' = inUse \cup {c}
       /\ thread' = [thread EXCEPT ![t].at = "open", ![t].conn = c]
  /\ UNCHANGED <<pool, warm, slots, setting, broken, poolFaults>>

MayConnect(t) ==
  /\ thread[t].at = "granted"
  /\ Free = {}
  /\ Cardinality(pool) < PoolMax

PoolConnect(t) ==
  /\ MayConnect(t)
  /\ \E c \in Conns \ pool :
       /\ Connects({c})
       /\ inUse' = inUse \cup {c}
       /\ thread' = [thread EXCEPT ![t].at = "open", ![t].conn = c]
  /\ UNCHANGED <<warm, slots, poolFaults>>

\* Mutant: the failed connect gives its slot back twice.
PoolConnectFailsTwice(t) ==
  /\ MayConnect(t)
  /\ Fault
  /\ slots' = slots + 2
  /\ thread' = [thread EXCEPT ![t] = Idle]
  /\ UNCHANGED <<pool, inUse, warm, setting, broken>>

PoolConnectFails(t) ==
  /\ MayConnect(t)
  /\ Fault
  /\ slots' = slots + 1
  /\ thread' = [thread EXCEPT ![t] = Idle]
  /\ UNCHANGED <<pool, inUse, warm, setting, broken>>

\* Mutant: the tenant is set on fresh sessions only.
PoolEnterFresh(t) ==
  /\ thread[t].at = "open" /\ thread[t].conn \notin broken
  /\ setting' = [setting EXCEPT ![thread[t].conn] = IF @ = NoTenant THEN thread[t].tenant ELSE @]
  /\ Goes(t, "inside")
  /\ UNCHANGED <<pool, inUse, warm, slots, broken, poolFaults>>

(***************************************************************************)
(* _PgConnection.__enter__: set_config on the session, which raises when   *)
(* the server has closed it.  The statements of the caller then run, or    *)
(* the unwinding drops the wrapper and so closes the generator of          *)
(* pool_connection; both end in _put_conn.                                 *)
(***************************************************************************)
PoolEnter(t) ==
  /\ thread[t].at = "open" /\ thread[t].conn \notin broken
  /\ setting' = [setting EXCEPT ![thread[t].conn] = thread[t].tenant]
  /\ Goes(t, "inside")
  /\ UNCHANGED <<pool, inUse, warm, slots, broken, poolFaults>>

PoolEnterFails(t) ==
  /\ thread[t].at = "open" /\ thread[t].conn \in broken
  /\ Goes(t, "failing")
  /\ UNCHANGED <<pool, inUse, warm, slots, setting, broken, poolFaults>>

(***************************************************************************)
(* _put_conn: free the connection under the lock, then the semaphore.      *)
(***************************************************************************)
PoolReturn(t) ==
  /\ thread[t].at \in {"inside", "failing"}
  /\ inUse' = inUse \ {thread[t].conn}
  /\ Goes(t, "returned")
  /\ UNCHANGED <<pool, warm, slots, setting, broken, poolFaults>>

PoolRelease(t) ==
  /\ thread[t].at = "returned"
  /\ slots' = slots + 1
  /\ thread' = [thread EXCEPT ![t] = Idle]
  /\ UNCHANGED <<pool, inUse, warm, setting, broken, poolFaults>>

\* The server restarts: every session it had is gone.
DatabaseRestarts ==
  /\ Fault
  /\ pool # {}
  /\ broken' = pool
  /\ UNCHANGED <<pool, inUse, warm, slots, setting, thread>>

PoolStep(t) ==
  \/ PoolWarm(t) \/ PoolWarmFails(t)
  \/ \E n \in Tenants : PoolAsk(t, n)
  \/ PoolAcquire(t) \/ PoolExhausted(t)
  \/ PoolCheckOut(t) \/ PoolConnect(t) \/ PoolConnectFails(t)
  \/ PoolEnter(t) \/ PoolEnterFails(t)
  \/ PoolReturn(t) \/ PoolRelease(t)

PoolNext ==
  \/ \E t \in Threads : PoolStep(t)
  \/ DatabaseRestarts

PoolSpec == PoolInit /\ [][PoolNext]_poolVars

-----------------------------------------------------------------------------
(* A connection serves one thread at a time and is neither lent nor reaped *)
(* while it does: _get_conn, _put_conn and _reap_idle under the lock.      *)
PoolNoSharing ==
  \A t \in Holding :
    /\ thread[t].conn \in pool \cap inUse
    /\ \A u \in Holding \ {t} : thread[u].conn # thread[t].conn

(* Inside its with block a thread reads and writes rows of its own tenant  *)
(* only, whoever used the connection before: row level security sees the   *)
(* app.tenant_id that _PgConnection.__enter__ has set.                     *)
PoolTenantScoped ==
  \A t \in Threads :
    thread[t].at = "inside" => setting[thread[t].conn] = thread[t].tenant

(* A thread admitted by the semaphore finds a free connection or room for  *)
(* one: the connection outside the pool at the end of _get_conn ("Should   *)
(* not happen due to semaphore, but fallback") is never opened.            *)
PoolFallbackUnneeded ==
  \A t \in Threads :
    thread[t].at = "granted" => Free # {} \/ Cardinality(pool) < PoolMax
=============================================================================
