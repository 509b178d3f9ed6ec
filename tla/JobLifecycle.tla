---------------------------- MODULE JobLifecycle ----------------------------
(***************************************************************************)
(* What the creator of a client job may rely on, whatever dispatchers,     *)
(* connectors, daemons and the network do: the job is handed out at most   *)
(* Tries times, a verdict is the outcome of an execution of that job, and  *)
(* a job is abandoned only when no try is left.  It is not promised that a *)
(* verdict is final: while tries are left a job may be opened again.       *)
(***************************************************************************)
EXTENDS Naturals

CONSTANTS
  Work,   \* the jobs
  Tries   \* how often one job may be handed out

VARIABLES
  phase,     \* each job: none, open (queued), out (leased), or its verdict
  attempts,  \* how often it was handed out
  outcomes   \* what executions of it have yielded

lifeVars == <<phase, attempts, outcomes>>

Verdicts == {"succeeded", "failed"}

Init ==
  /\ phase = [w \in Work |-> "none"]
  /\ attempts = [w \in Work |-> 0]
  /\ outcomes = [w \in Work |-> {}]

Submit(w) ==
  /\ phase[w] = "none"
  /\ phase' = [phase EXCEPT ![w] = "open"]
  /\ UNCHANGED <<attempts, outcomes>>

HandOut(w) ==
  /\ phase[w] = "open"
  /\ attempts[w] < Tries
  /\ phase' = [phase EXCEPT ![w] = "out"]
  /\ attempts' = [attempts EXCEPT ![w] = @ + 1]
  /\ UNCHANGED outcomes

(* Whoever was handed the job executes it, perhaps long after it was taken back. *)
Perform(w, v) ==
  /\ attempts[w] > 0
  /\ outcomes' = [outcomes EXCEPT ![w] = @ \cup {v}]
  /\ UNCHANGED <<phase, attempts>>

Conclude(w) ==
  /\ phase[w] \in {"open", "out"}
  /\ \E v \in outcomes[w] : phase' = [phase EXCEPT ![w] = v]
  /\ UNCHANGED <<attempts, outcomes>>

Reopen(w) ==
  /\ phase[w] \in {"out"} \cup Verdicts
  /\ attempts[w] < Tries
  /\ phase' = [phase EXCEPT ![w] = "open"]
  /\ UNCHANGED <<attempts, outcomes>>

Abandon(w) ==
  /\ attempts[w] = Tries
  /\ phase[w] \in {"out"} \cup Verdicts
  /\ phase' = [phase EXCEPT ![w] = "failed"]
  /\ UNCHANGED <<attempts, outcomes>>

Next ==
  \E w \in Work :
    \/ Submit(w) \/ HandOut(w) \/ Conclude(w) \/ Reopen(w) \/ Abandon(w)
    \/ \E v \in Verdicts : Perform(w, v)

Spec == Init /\ [][Next]_lifeVars
=============================================================================
