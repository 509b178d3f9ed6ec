------------------------------- MODULE Turns --------------------------------
(***************************************************************************)
(* Streamed assistant turns (assistant_text_stream of assistant_routes.py) *)
(* with the tool loop they drive (iter_agent_tool_stream of tools.py), the *)
(* limit of concurrent streams (shared/concurrent_limiter.py), and what a  *)
(* file tool of the client needs: the connector's own requests.            *)
(*                                                                         *)
(* A backend process has one event loop.  The tool loop is synchronous and *)
(* runs on it, so between two events of a stream nothing else runs in that *)
(* process; a file tool that waits for its job (wait_for_job_result) keeps *)
(* the loop for as long as it waits, and the requests of the connector and *)
(* of an approver are served by whichever process has a free loop.         *)
(*                                                                         *)
(* A turn stands at the last event it yielded.  A step runs to the next    *)
(* one, with every effect on the way; only then does the handler ask       *)
(* whether the client is still there.  Runs of token and thinking events   *)
(* are one event.                                                          *)
(***************************************************************************)
EXTENDS Integers, FiniteSets

CONSTANTS
  TurnIds,       \* requests to /assistant/text/stream, of one tenant
  Loops,         \* the backend processes
  StreamLimit,   \* CENTRAL_CONCURRENT_STREAM_LIMIT_PER_TENANT
  MaxTools,      \* AGENT_TOOLS_MAX_EXECUTIONS
  NoLoop,        \* a turn that has not arrived
  Sessions       \* the turns of each chat session (chat_session_id); a turn may be in none

ASSUME TurnsAssumption ==
  /\ IsFiniteSet(TurnIds) /\ NoLoop \notin Loops
  /\ Sessions \subseteq SUBSET TurnIds
  /\ \A S, R \in Sessions : S = R \/ S \cap R = {}
  /\ StreamLimit \in Nat \ {0} /\ MaxTools \in Nat \ {0}

VARIABLES
  turn,       \* [at, loop, agent, round, tools, text, end]
  left,       \* turns whose client has closed the connection
  streams,    \* _active of each process
  job,        \* tool_jobs row of a turn's file tool: "none", "queued", "leased", "done"
  approval,   \* what the turn asked: "none", "pending", "resolved"; "shell" is a
              \* pending record of request_shell, which names the session
  shown,      \* turns whose approval their session's surface shows as pending
  saved       \* turns in the session (append_completed_turn)

turnsVars == <<turn, left, streams, job, approval, shown, saved>>

NewTurn == [at |-> "new", loop |-> NoLoop, agent |-> FALSE, round |-> 0, tools |-> 0,
            text |-> FALSE, end |-> "none"]

Ends == {"none", "rejected", "not_prepared", "not_begun", "cancelled", "error", "broken", "done"}

TurnsTypeOK ==
  /\ turn \in [TurnIds -> [at : {"new", "opening", "model", "proposed", "running", "waiting",
                                 "announced", "replied", "saved", "over"},
                           loop : Loops \cup {NoLoop}, agent : BOOLEAN, text : BOOLEAN, end : Ends,
                           round : 0..MaxTools + 1, tools : 0..MaxTools]]
  /\ left \subseteq TurnIds /\ shown \subseteq TurnIds /\ saved \subseteq TurnIds
  /\ streams \in [Loops -> 0..StreamLimit]
  /\ job \in [TurnIds -> {"none", "queued", "leased", "done"}]
  /\ approval \in [TurnIds -> {"none", "pending", "shell", "resolved"}]

TurnsInit ==
  /\ turn = [t \in TurnIds |-> NewTurn]
  /\ left = {} /\ shown = {} /\ saved = {}
  /\ streams = [l \in Loops |-> 0]
  /\ job = [t \in TurnIds |-> "none"]
  /\ approval = [t \in TurnIds |-> "none"]

(***************************************************************************)
(* A loop is free unless a turn on it waits for a job.                     *)
(***************************************************************************)
IsFree(l) == \A t \in TurnIds : turn[t].loop = l => turn[t].at # "waiting"
SomeLoopFree == \E l \in Loops : IsFree(l)
Stands(t, at) == turn[t].at = at /\ IsFree(turn[t].loop)

InSession(t) == \E S \in Sessions : t \in S
Session(t) == UNION {S \in Sessions : t \in S}

\* concurrent_limiter.release, by the finally of _guarded_gen.
ReleasedStreams(t) ==
  [streams EXCEPT ![turn[t].loop] = IF @ > 0 THEN @ - 1 ELSE 0]

\* What a turn leaves behind when its generator is gone.
Over(r, end) == [NewTurn EXCEPT !.at = "over", !.loop = r.loop, !.end = end]

\* The stream ends: r is the turn's record so far.
EndsWith(t, r, end) ==
  /\ turn' = [turn EXCEPT ![t] = Over(r, end)]
  /\ streams' = ReleasedStreams(t)

\* How a stream ends whose last event is `error`.
ErrorEnd(t) == IF t \in left THEN "cancelled" ELSE "error"

\* Mutant: the slot is given back on the ordinary way out only.
YieldsUnguarded(t, r) ==
  /\ turn' = [turn EXCEPT ![t] = IF t \in left THEN Over(r, "cancelled") ELSE r]
  /\ UNCHANGED streams

\* The next event is ready: it is yielded, or the client is gone.
Yields(t, r) ==
  IF t \in left
  THEN EndsWith(t, r, "cancelled")
  ELSE turn' = [turn EXCEPT ![t] = r] /\ UNCHANGED streams

(***************************************************************************)
(* The handler up to its StreamingResponse, with no await that suspends:   *)
(* the DLP scan and the limit may turn the request away; an exception      *)
(* after acquire leaves the slot counted.                                  *)
(***************************************************************************)
Reject(t, l) ==
  /\ turn[t].at = "new" /\ IsFree(l)
  /\ turn' = [turn EXCEPT ![t] = Over([@ EXCEPT !.loop = l], "rejected")]
  /\ UNCHANGED <<left, streams, job, approval, shown, saved>>

Acquires(t, l) ==
  /\ turn[t].at = "new" /\ IsFree(l)
  /\ streams[l] < StreamLimit
  /\ streams' = [streams EXCEPT ![l] = @ + 1]
  /\ UNCHANGED <<left, job, approval, shown, saved>>

PrepareFails(t, l) ==
  /\ Acquires(t, l)
  /\ turn' = [turn EXCEPT ![t] = Over([@ EXCEPT !.loop = l], "not_prepared")]

Open(t, l, agent) ==
  /\ Acquires(t, l)
  /\ turn' = [turn EXCEPT ![t] = [NewTurn EXCEPT !.at = "opening", !.loop = l, !.agent = agent]]

\* The client is gone before the first chunk: the generator is never started,
\* so its finally is not either.
NeverBegins(t) ==
  /\ Stands(t, "opening") /\ t \in left
  /\ turn' = [turn EXCEPT ![t] = Over(@, "not_begun")]
  /\ UNCHANGED <<left, streams, job, approval, shown, saved>>

\* event_gen: `start`.
Begin(t) ==
  /\ Stands(t, "opening")
  /\ Yields(t, [turn[t] EXCEPT !.at = "model", !.round = 1])
  /\ UNCHANGED <<left, job, approval, shown, saved>>

\* Mutant: the budget is left to the range of the loop.
ProposeToolUnchecked(t, text) ==
  /\ Stands(t, "model") /\ turn[t].agent
  /\ Yields(t, [turn[t] EXCEPT !.at = "proposed", !.text = @ \/ text])
  /\ UNCHANGED <<left, job, approval, shown, saved>>

(***************************************************************************)
(* A round of the model, its JSON repaired if need be.  The answer names a *)
(* tool that may run, with or without text beside it; or it is the reply   *)
(* (final, plain text, the raw answer, or the text that goes with a denied *)
(* tool, which is never empty).                                            *)
(***************************************************************************)
ProposeTool(t, text) ==
  /\ Stands(t, "model") /\ turn[t].agent
  /\ turn[t].tools < MaxTools
  /\ Yields(t, [turn[t] EXCEPT !.at = "proposed", !.text = @ \/ text])
  /\ UNCHANGED <<left, job, approval, shown, saved>>

Reply(t, text) ==
  /\ Stands(t, "model")
  /\ Yields(t, [turn[t] EXCEPT !.at = "replied", !.text = @ \/ text])
  /\ UNCHANGED <<left, job, approval, shown, saved>>

(***************************************************************************)
(* The model's stream breaks: an `error` event; but the tool loop turns    *)
(* the error a model reports (RuntimeError) into the text of the reply.    *)
(***************************************************************************)
ModelFails(t) ==
  /\ Stands(t, "model")
  /\ EndsWith(t, turn[t], ErrorEnd(t))
  /\ UNCHANGED <<left, job, approval, shown, saved>>

ModelErrorBecomesReply(t) ==
  /\ Stands(t, "model") /\ turn[t].agent
  /\ Yields(t, [turn[t] EXCEPT !.at = "replied", !.text = TRUE])
  /\ UNCHANGED <<left, job, approval, shown, saved>>

RunTool(t) ==
  /\ Stands(t, "proposed")
  /\ Yields(t, [turn[t] EXCEPT !.at = "running"])
  /\ UNCHANGED <<left, job, approval, shown, saved>>

(***************************************************************************)
(* dispatch_tool.  After a result the loop goes round again; its range     *)
(* would be exhausted after MaxTools + 1 rounds.                           *)
(***************************************************************************)
AfterTool(r) ==
  IF r.round = MaxTools + 1
  THEN [r EXCEPT !.at = "replied"]
  ELSE [r EXCEPT !.at = "model", !.round = @ + 1]

Ran(t) == [turn[t] EXCEPT !.tools = @ + 1]

ToolReturns(t) ==
  /\ Stands(t, "running")
  /\ Yields(t, AfterTool(Ran(t)))
  /\ UNCHANGED <<left, job, approval, shown, saved>>

\* clarify: the question is put on the surface, and the turn is the reply.
ToolClarifies(t) ==
  /\ Stands(t, "running")
  /\ Yields(t, [Ran(t) EXCEPT !.at = "replied"])
  /\ UNCHANGED <<left, job, approval, shown, saved>>

(***************************************************************************)
(* create_pending, by a tool that changes files or runs a command.  The    *)
(* record exists as soon as the tool has run; one with the status          *)
(* "approval_required" is announced next, the others (request_shell, or an *)
(* approval the model asks for outright) are results like any other.  A    *)
(* turn asks for one approval at most (a bound).                           *)
(***************************************************************************)
Creates(t, kind) ==
  /\ approval[t] = "none" /\ (kind = "shell" => InSession(t))
  /\ approval' = [approval EXCEPT ![t] = kind]

ToolAsksApproval(t) ==
  /\ Stands(t, "running") /\ Creates(t, "pending")
  /\ Yields(t, [Ran(t) EXCEPT !.at = "announced"])
  /\ UNCHANGED <<left, job, shown, saved>>

ToolAsksQuietly(t, kind) ==
  /\ Stands(t, "running") /\ Creates(t, kind)
  /\ Yields(t, AfterTool(Ran(t)))
  /\ UNCHANGED <<left, job, shown, saved>>

(***************************************************************************)
(* register_pending_approval, after the event was yielded; then `status`.  *)
(* The surface keeps one pending approval for each session, the last one   *)
(* registered; a turn without a session registers nothing.  The write can  *)
(* fail (the processes share its temporary file), which no handler of the  *)
(* stream expects.                                                         *)
(***************************************************************************)
RegisterApproval(t) ==
  /\ Stands(t, "announced")
  /\ shown' = IF InSession(t) THEN (shown \ Session(t)) \cup {t} ELSE shown
  /\ Yields(t, [turn[t] EXCEPT !.at = "replied"])
  /\ UNCHANGED <<left, job, approval, saved>>

RegisterRaises(t) ==
  /\ Stands(t, "announced") /\ InSession(t)
  /\ EndsWith(t, turn[t], "broken")
  /\ UNCHANGED <<left, job, approval, shown, saved>>

(***************************************************************************)
(* A tool that does not return: httpx.HTTPError and RuntimeError are an    *)
(* `error` event, of any other exception the client hears nothing.  What   *)
(* the tool created before it raised stays (record_tool_result_event       *)
(* writes a log of its own).                                               *)
(***************************************************************************)
Raises(t, end) ==
  /\ Stands(t, "running")
  /\ EndsWith(t, turn[t], end)
  /\ UNCHANGED approval \/ \E kind \in {"pending", "shell"} : Creates(t, kind)
  /\ UNCHANGED <<left, job, shown, saved>>

ToolFails(t) == Raises(t, ErrorEnd(t))
ToolRaises(t) == Raises(t, "broken")

(***************************************************************************)
(* A file tool of the client: a job is queued and the loop waits for it.   *)
(***************************************************************************)
ToolWaits(t) ==
  /\ Stands(t, "running")
  /\ job' = [job EXCEPT ![t] = "queued"]
  /\ turn' = [turn EXCEPT ![t].at = "waiting"]
  /\ UNCHANGED <<left, streams, approval, shown, saved>>

WaitReturns(t) ==
  /\ turn[t].at = "waiting" /\ job[t] = "done"
  /\ Yields(t, AfterTool(Ran(t)))
  /\ job' = [job EXCEPT ![t] = "none"]
  /\ UNCHANGED <<left, approval, shown, saved>>

\* Mutant: the deadline is a timer of the loop.
WaitTimesOutOnLoop(t) ==
  /\ turn[t].at = "waiting" /\ job[t] # "done"
  /\ IsFree(turn[t].loop)
  /\ Yields(t, AfterTool(Ran(t)))
  /\ UNCHANGED <<left, job, approval, shown, saved>>

\* job_timeout: the job itself stays where it is.
WaitTimesOut(t) ==
  /\ turn[t].at = "waiting" /\ job[t] # "done"
  /\ Yields(t, AfterTool(Ran(t)))
  /\ UNCHANGED <<left, job, approval, shown, saved>>

\* wait_for_job_result cannot read the job: the same two ways out.
WaitBreaks(t) ==
  /\ turn[t].at = "waiting"
  /\ \E end \in {ErrorEnd(t), "broken"} : EndsWith(t, turn[t], end)
  /\ UNCHANGED <<left, job, approval, shown, saved>>

\* The connector's long poll, and its result.
ConnectorPolls(t) ==
  /\ job[t] = "queued" /\ SomeLoopFree
  /\ job' = [job EXCEPT ![t] = "leased"]
  /\ UNCHANGED <<turn, left, streams, approval, shown, saved>>

ConnectorReports(t) ==
  /\ job[t] = "leased" /\ SomeLoopFree
  /\ job' = [job EXCEPT ![t] = "done"]
  /\ UNCHANGED <<turn, left, streams, approval, shown, saved>>

\* Mutant: the turn is saved before the empty reply is noticed.
EmptyReplySaves(t) ==
  /\ Stands(t, "replied") /\ ~turn[t].text
  /\ EndsWith(t, turn[t], ErrorEnd(t))
  /\ saved' = saved \cup {t}
  /\ UNCHANGED <<left, job, approval, shown>>

(***************************************************************************)
(* The end of event_gen.  An empty reply is an error.  Otherwise the turn  *)
(* goes into its session, if it names one and that succeeds, whether or    *)
(* not the client is still there; a failure is ignored.  `done` is an      *)
(* event of its own, with the canvas before it, if the reply holds one.    *)
(***************************************************************************)
EmptyReply(t) ==
  /\ Stands(t, "replied") /\ ~turn[t].text
  /\ EndsWith(t, turn[t], ErrorEnd(t))
  /\ UNCHANGED <<left, job, approval, shown, saved>>

Save(t, saves) ==
  /\ Stands(t, "replied") /\ turn[t].text
  /\ turn' = [turn EXCEPT ![t].at = "saved"]
  /\ saved' = IF saves /\ InSession(t) THEN saved \cup {t} ELSE saved
  /\ UNCHANGED <<left, streams, job, approval, shown>>

Done(t) ==
  /\ Stands(t, "saved")
  /\ EndsWith(t, turn[t], IF t \in left THEN "cancelled" ELSE "done")
  /\ UNCHANGED <<left, job, approval, shown, saved>>

Leave(t) ==
  /\ turn[t].at \notin {"new", "over"} /\ t \notin left
  /\ left' = left \cup {t}
  /\ UNCHANGED <<turn, streams, job, approval, shown, saved>>

(***************************************************************************)
(* Someone resolves the approval.  A record that names its session clears  *)
(* whatever that session's surface shows; every record, itself alone.      *)
(***************************************************************************)
Resolve(t) ==
  /\ approval[t] \in {"pending", "shell"} /\ SomeLoopFree
  /\ approval' = [approval EXCEPT ![t] = "resolved"]
  /\ shown' = shown \ (IF approval[t] = "shell" THEN Session(t) ELSE {t})
  /\ UNCHANGED <<turn, left, streams, job, saved>>

TurnGoesOn(t) ==
  \/ NeverBegins(t) \/ Begin(t)
  \/ \E text \in BOOLEAN : ProposeTool(t, text) \/ Reply(t, text)
  \/ ModelFails(t) \/ ModelErrorBecomesReply(t)
  \/ RunTool(t) \/ ToolReturns(t) \/ ToolClarifies(t) \/ ToolAsksApproval(t)
  \/ \E kind \in {"pending", "shell"} : ToolAsksQuietly(t, kind)
  \/ RegisterApproval(t) \/ RegisterRaises(t) \/ ToolFails(t) \/ ToolRaises(t)
  \/ ToolWaits(t) \/ WaitReturns(t) \/ WaitTimesOut(t)
  \/ EmptyReply(t) \/ Done(t)
  \/ \E saves \in BOOLEAN : Save(t, saves)

TurnStep(t) == TurnGoesOn(t) \/ WaitBreaks(t)

TurnsNext ==
  \E t \in TurnIds :
    \/ TurnStep(t)
    \/ \E l \in Loops : \/ Reject(t, l) \/ PrepareFails(t, l)
                        \/ \E agent \in BOOLEAN : Open(t, l, agent)
    \/ Leave(t) \/ Resolve(t)
    \/ ConnectorPolls(t) \/ ConnectorReports(t)

(***************************************************************************)
(* Each loop keeps scheduling its streams, and the model and the clock of  *)
(* wait_for_job_result answer.  Nothing is assumed of clients, approvers,  *)
(* the connector, or of a wait that breaks off.                            *)
(***************************************************************************)
TurnsFairness == \A t \in TurnIds : WF_turnsVars(TurnGoesOn(t))

TurnsSpec == TurnsInit /\ [][TurnsNext]_turnsVars /\ TurnsFairness

-----------------------------------------------------------------------------
(* The tenant's slots in a process are its streams there, plus the slots   *)
(* of requests that failed or lost their client between acquire and the    *)
(* first event, which nothing gives back: every stream that began returns  *)
(* its slot once, however it ends.                                         *)
Streaming == {t \in TurnIds : turn[t].at \notin {"new", "over"}}
LostSlot == {t \in TurnIds : turn[t].end \in {"not_prepared", "not_begun"}}

SlotsAccounted ==
  \A l \in Loops :
    streams[l] = Cardinality({t \in Streaming \cup LostSlot : turn[t].loop = l})

(* The tool budget ends the loop: after MaxTools tools the next round must *)
(* be the last, so `for _ in range(max_tool_executions + 1)` never runs    *)
(* out and leaves a turn without a reply ("exhausted").                    *)
NeverExhausted ==
  \A t \in TurnIds : turn[t].at \in {"proposed", "running", "waiting"} => turn[t].round =< MaxTools

(* A turn whose client was told `error`, or whose stream broke, is not in  *)
(* the session ("sem `done` nem persistência de sessão"), however far it   *)
(* had come, and stays out of it.                                          *)
ErrorMeansNotSaved ==
  \A t \in TurnIds : turn[t].end \in {"error", "broken"} => t \notin saved

(* "Clear surface waiting_approval when an approval is resolved            *)
(* out-of-band": no turn that is over leaves its session waiting for an    *)
(* approval that has been resolved.  The code does not keep this: the      *)
(* event goes out before the approval is put on the surface, so a quick    *)
(* answer finds nothing to clear (tools.py:3344-3349).                     *)
ResolvedIsCleared ==
  \A t \in TurnIds : turn[t].at = "over" /\ t \in shown => approval[t] # "resolved"

(* Every stream that was opened ends, even when every loop is kept by a    *)
(* turn waiting for a job that only a free loop could bring back: the      *)
(* deadline of wait_for_job_result is what breaks that circle.             *)
StreamEnds == \A t \in TurnIds : turn[t].at = "opening" ~> turn[t].at = "over"
=============================================================================
