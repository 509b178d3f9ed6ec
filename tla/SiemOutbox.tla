----------------------------- MODULE SiemOutbox -----------------------------
(***************************************************************************)
(* The outbox of events for the SIEM (shared/siem_outbox.py).  Handlers    *)
(* insert rows; processors (scripts/siem_worker.py every 30 s, and the     *)
(* admin route) drain them: read the rows that are due, post each, and     *)
(* write its outcome back by id.  Nothing claims a row, so two processors  *)
(* may hold the same one and write from the attempts count each of them    *)
(* read.                                                                   *)
(***************************************************************************)
EXTENDS Integers, FiniteSets

CONSTANTS
  Events,        \* rows of siem_outbox
  Processors,    \* callers of process_siem_outbox
  MaxAttempts,   \* MAX_ATTEMPTS
  MaxDeaths      \* bound: processors that die half way through a batch

ASSUME OutboxAssumption == MaxAttempts \in Nat \ {0} /\ MaxDeaths \in Nat

VARIABLES
  row,           \* [status, attempts, due]; due: next_attempt_at has passed
  processor,     \* [batch: attempts as SELECTed, by event; event, ok: the post made]
  accepted,      \* history: events some URL accepted
  refused,       \* history: by event, passes in which every URL failed
  deaths

outboxVars == <<row, processor, accepted, refused, deaths>>

NoBatch == [e \in {} |-> 0]
Resting == [at |-> "idle", batch |-> NoBatch, event |-> {}, ok |-> FALSE]
Without(batch, e) == [f \in DOMAIN batch \ {e} |-> batch[f]]

Statuses == {"absent", "pending", "delivered", "dead"}
Settled(e) == row[e].status \in {"delivered", "dead"}

OutboxTypeOK ==
  /\ row \in [Events -> [status : Statuses, attempts : 0..MaxAttempts, due : BOOLEAN]]
  /\ \A p \in Processors :
       /\ processor[p].at \in {"idle", "batch", "posted"}
       /\ DOMAIN processor[p].batch \subseteq Events
       /\ \A e \in DOMAIN processor[p].batch : processor[p].batch[e] \in 0..MaxAttempts
       /\ processor[p].event \subseteq DOMAIN processor[p].batch
       /\ processor[p].ok \in BOOLEAN
  /\ accepted \subseteq Events
  /\ refused \in [Events -> Nat]
  /\ deaths \in 0..MaxDeaths

OutboxInit ==
  /\ row = [e \in Events |-> [status |-> "absent", attempts |-> 0, due |-> FALSE]]
  /\ processor = [p \in Processors |-> Resting]
  /\ accepted = {} /\ refused = [e \in Events |-> 0]
  /\ deaths = 0

Enqueue(e) ==
  /\ row[e].status = "absent"
  /\ row' = [row EXCEPT ![e] = [status |-> "pending", attempts |-> 0, due |-> TRUE]]
  /\ UNCHANGED <<processor, accepted, refused, deaths>>

\* Mutant: the SELECT leaves out rows with one attempt left.
DueRowsBeforeLast ==
  {e \in Events : row[e].status = "pending" /\ row[e].due /\ row[e].attempts < MaxAttempts - 1}

(***************************************************************************)
(* process_siem_outbox: the SELECT of pending rows that are due, then, row *)
(* by row, the posts and the UPDATE.  The SELECT takes the oldest 50: here *)
(* a batch holds every due row, in any order.                              *)
(***************************************************************************)
DueRows == {e \in Events : row[e].status = "pending" /\ row[e].due}

SelectDue(p) ==
  /\ processor[p].at = "idle"
  /\ DueRows # {}
  /\ processor' = [processor EXCEPT ![p].at = "batch",
                                    ![p].batch = [e \in DueRows |-> row[e].attempts]]
  /\ UNCHANGED <<row, accepted, refused, deaths>>

Post(p, e, ok) ==
  /\ processor[p].at = "batch" /\ e \in DOMAIN processor[p].batch
  /\ processor' = [processor EXCEPT ![p].at = "posted", ![p].event = {e}, ![p].ok = ok]
  /\ accepted' = IF ok THEN accepted \cup {e} ELSE accepted
  /\ refused' = IF ok THEN refused ELSE [refused EXCEPT ![e] = @ + 1]
  /\ UNCHANGED <<row, deaths>>

\* Mutant: one attempt too few.
OutcomeEarly(r, ok, seen) ==
  CASE ok                             -> [r EXCEPT !.status = "delivered"]
    [] ~ok /\ seen + 2 >= MaxAttempts -> [r EXCEPT !.status = "dead", !.attempts = seen + 1]
    [] OTHER                          -> [r EXCEPT !.attempts = seen + 1, !.due = FALSE]

\* What a pass leaves in the row: `seen` is the count its SELECT returned.
Outcome(r, ok, seen) ==
  CASE ok                       -> [r EXCEPT !.status = "delivered"]
    [] ~ok /\ seen + 1 >= MaxAttempts -> [r EXCEPT !.status = "dead", !.attempts = seen + 1]
    [] OTHER                    -> [r EXCEPT !.attempts = seen + 1, !.due = FALSE]

Settle(p, e) ==
  /\ processor[p].at = "posted" /\ processor[p].event = {e}
  /\ row' = [row EXCEPT ![e] = Outcome(@, processor[p].ok, processor[p].batch[e])]
  /\ LET left == Without(processor[p].batch, e)
     IN  processor' = [processor EXCEPT ![p] =
           IF left = NoBatch THEN Resting ELSE [Resting EXCEPT !.at = "batch", !.batch = left]]
  /\ UNCHANGED <<accepted, refused, deaths>>

\* The process ends, or an UPDATE raises: the rest of the batch is left.
ProcessorDies(p) ==
  /\ processor[p].at # "idle" /\ deaths < MaxDeaths
  /\ deaths' = deaths + 1
  /\ processor' = [processor EXCEPT ![p] = Resting]
  /\ UNCHANGED <<row, accepted, refused>>

BackoffPasses(e) ==
  /\ row[e].status = "pending" /\ ~row[e].due
  /\ row' = [row EXCEPT ![e].due = TRUE]
  /\ UNCHANGED <<processor, accepted, refused, deaths>>

ProcessorStep(p) ==
  \/ SelectDue(p)
  \/ \E e \in Events : Settle(p, e) \/ \E ok \in BOOLEAN : Post(p, e, ok)

OutboxNext ==
  \/ \E e \in Events : Enqueue(e) \/ BackoffPasses(e)
  \/ \E p \in Processors : ProcessorStep(p) \/ ProcessorDies(p)

(***************************************************************************)
(* The worker's loop comes round again, and clocks advance.                *)
(***************************************************************************)
OutboxFairness ==
  /\ \A p \in Processors : WF_outboxVars(ProcessorStep(p))
  /\ \A e \in Events : WF_outboxVars(BackoffPasses(e))

OutboxSpec == OutboxInit /\ [][OutboxNext]_outboxVars /\ OutboxFairness

-----------------------------------------------------------------------------
(* The row tells the truth about the posts, for any number of processors   *)
(* working from counts they read earlier: attempts is never ahead of the   *)
(* refusals, a row is dead only after MaxAttempts of them, and delivered   *)
(* only when a URL accepted the event.                                     *)
OutboxTellsTheTruth ==
  \A e \in Events :
    /\ row[e].attempts =< refused[e]
    /\ row[e].status = "dead" => refused[e] >= MaxAttempts
    /\ row[e].status = "delivered" => e \in accepted

(* A processor that overwrites another one's count may set it back, but    *)
(* not for ever: every queued event ends delivered or dead.                *)
EventSettles == \A e \in Events : row[e].status = "pending" ~> Settled(e)
=============================================================================
