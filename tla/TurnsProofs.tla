---------------------------- MODULE TurnsProofs -----------------------------
(* Proofs of the invariants of Turns, for any number of turns, of backend   *)
(* processes and of tools a turn may run.                                   *)
EXTENDS Turns, FiniteSetTheorems, TLAPS

Places == {"new", "opening", "model", "proposed", "running", "waiting", "announced", "replied",
           "saved", "over"}
TurnRecord ==
  [at : Places, loop : Loops \cup {NoLoop}, agent : BOOLEAN, round : 0..MaxTools + 1,
   tools : 0..MaxTools, text : BOOLEAN, end : Ends]

(* What is true of one turn: its record r, and whether it is saved.  The    *)
(* round is one ahead of the tools; what is in the session has had its      *)
(* reply, and is past every error.                                          *)
Sound(r, isSaved) ==
  /\ r \in TurnRecord
  /\ r.at # "new" => r.loop \in Loops
  /\ r.at # "over" => r.end = "none"
  /\ r.at \in {"new", "opening"} => r.tools = 0
  /\ r.at \in {"model", "proposed", "running", "waiting"} => r.round = r.tools + 1
  /\ r.at \in {"proposed", "running", "waiting"} => r.tools < MaxTools
  /\ isSaved => r.at \in {"saved", "over"} /\ r.end \notin {"error", "broken"}

\* A turn that counts in `streams`.
Holds(r) == r.at \notin {"new", "over"} \/ r.end \in {"not_prepared", "not_begun"}
Occupied(l) == {t \in TurnIds : Holds(turn[t]) /\ turn[t].loop = l}

SoundAll ==
  /\ DOMAIN turn = TurnIds
  /\ streams \in [Loops -> Nat]
  /\ \A l \in Loops : streams[l] = Cardinality(Occupied(l))
  /\ \A t \in TurnIds : Sound(turn[t], t \in saved)

LEMMA NewRecord == /\ NewTurn \in TurnRecord /\ NewTurn.at = "new" /\ NewTurn.end = "none"
                   /\ NewTurn.tools = 0
BY TurnsAssumption DEF NewTurn, TurnRecord, Places, Ends

LEMMA SoundStart == TurnsInit => SoundAll
<1> SUFFICES ASSUME TurnsInit PROVE SoundAll
  OBVIOUS
<1>1. \A l \in Loops : Occupied(l) = {}
  BY NewRecord DEF TurnsInit, Occupied, Holds
<1>2. \A l \in Loops : Cardinality(Occupied(l)) = 0
  BY <1>1, FS_EmptySet
<1> QED BY <1>2, NewRecord DEF TurnsInit, SoundAll, Sound

(* Only turn t changes, to the record r.                                    *)
Only(t, r) ==
  /\ DOMAIN turn' = TurnIds /\ turn'[t] = r
  /\ \A u \in TurnIds : u # t => turn'[u] = turn[u]
Beside(t) == \A u \in TurnIds : u # t => (u \in saved' <=> u \in saved)

(* What the step does to the slots: nothing, or it takes one or gives one   *)
(* back for the turn.                                                       *)
Slots(t, r) ==
  \/ /\ streams' = streams
     /\ Holds(r) <=> Holds(turn[t])
     /\ Holds(r) => r.loop = turn[t].loop
  \/ /\ ~Holds(turn[t]) /\ Holds(r) /\ r.loop \in Loops
     /\ streams' = [streams EXCEPT ![r.loop] = @ + 1]
  \/ /\ Holds(turn[t]) /\ ~Holds(r) /\ turn[t].loop \in Loops
     /\ streams' = ReleasedStreams(t)

LEMMA SlotsCounted ==
  ASSUME SoundAll, NEW t \in TurnIds, NEW r, Only(t, r), Slots(t, r)
  PROVE  streams' \in [Loops -> Nat] /\ \A l \in Loops : streams'[l] = Cardinality(Occupied(l)')
<1>1. \A l : IsFiniteSet(Occupied(l)) /\ Cardinality(Occupied(l)) \in Nat
  BY FS_Subset, FS_CardinalityType, TurnsAssumption, \A l : Occupied(l) \subseteq TurnIds
  DEF Occupied
<1>2. CASE /\ streams' = streams
           /\ Holds(r) <=> Holds(turn[t])
           /\ Holds(r) => r.loop = turn[t].loop
  <2>1. ASSUME NEW l \in Loops PROVE Occupied(l)' = Occupied(l)
    BY <1>2 DEF Occupied, Only
  <2> QED BY <1>2, <2>1 DEF SoundAll
<1>3. CASE /\ ~Holds(turn[t]) /\ Holds(r) /\ r.loop \in Loops
           /\ streams' = [streams EXCEPT ![r.loop] = @ + 1]
  <2>1. PICK k \in Loops : k = r.loop
    BY <1>3
  <2>2. /\ streams' \in [Loops -> Nat] /\ streams'[k] = streams[k] + 1
        /\ \A l \in Loops : l # k => streams'[l] = streams[l]
    BY <1>3, <2>1 DEF SoundAll
  <2>3. /\ Occupied(k)' = Occupied(k) \cup {t} /\ t \notin Occupied(k)
        /\ \A l \in Loops : l # k => Occupied(l)' = Occupied(l)
    BY <1>3, <2>1 DEF Occupied, Only
  <2>4. Cardinality(Occupied(k)') = Cardinality(Occupied(k)) + 1
    BY <1>1, <2>3, FS_AddElement
  <2>5. ASSUME NEW l \in Loops PROVE streams'[l] = Cardinality(Occupied(l)')
    BY <2>2, <2>3, <2>4 DEF SoundAll
  <2> QED BY <2>2, <2>5
<1>4. CASE /\ Holds(turn[t]) /\ ~Holds(r) /\ turn[t].loop \in Loops
           /\ streams' = ReleasedStreams(t)
  <2>1. PICK k \in Loops : k = turn[t].loop
    BY <1>4
  <2>2. /\ Occupied(k)' = Occupied(k) \ {t} /\ t \in Occupied(k)
        /\ \A l \in Loops : l # k => Occupied(l)' = Occupied(l)
    BY <1>4, <2>1 DEF Occupied, Only
  <2>3. /\ Cardinality(Occupied(k)') = Cardinality(Occupied(k)) - 1
        /\ Cardinality(Occupied(k)') \in Nat
    BY <1>1, <2>2, FS_RemoveElement, FS_CardinalityType
  <2>4. streams[k] = Cardinality(Occupied(k)) /\ streams[k] > 0
    BY <1>1, <2>1, <2>3 DEF SoundAll
  <2>5. /\ streams' \in [Loops -> Nat] /\ streams'[k] = streams[k] - 1
        /\ \A l \in Loops : l # k => streams'[l] = streams[l]
    BY <1>4, <2>1, <2>4 DEF SoundAll, ReleasedStreams
  <2>6. ASSUME NEW l \in Loops PROVE streams'[l] = Cardinality(Occupied(l)')
    BY <2>2, <2>3, <2>4, <2>5 DEF SoundAll
  <2> QED BY <2>5, <2>6
<1> QED BY <1>2, <1>3, <1>4 DEF Slots

LEMMA OneTurn ==
  ASSUME SoundAll, NEW t \in TurnIds, NEW r, Only(t, r), Beside(t), Slots(t, r),
         Sound(r, t \in saved')
  PROVE  SoundAll'
<1>1. ASSUME NEW u \in TurnIds
      PROVE  Sound(turn'[u], u \in saved')
  <2>1. CASE u = t
    BY <2>1 DEF Only
  <2>2. CASE u # t
    BY <2>2 DEF Only, Beside, SoundAll, Sound
  <2> QED BY <2>1, <2>2
<1> QED BY <1>1, SlotsCounted DEF SoundAll, Only, Beside

LEMMA Overs ==
  ASSUME NEW r \in TurnRecord, NEW end \in Ends
  PROVE  /\ Over(r, end) \in TurnRecord /\ Over(r, end).at = "over" /\ Over(r, end).end = end
         /\ Over(r, end).loop = r.loop
<1>1. NewTurn \in TurnRecord
  BY NewRecord
<1>2. r.loop \in Loops \cup {NoLoop}
  BY DEF TurnRecord
<1> QED BY <1>1, <1>2 DEF Over, TurnRecord, Places

LEMMA YieldStep ==
  ASSUME SoundAll, NEW t \in TurnIds, NEW r, Yields(t, r), Beside(t),
         turn[t].at \notin {"new", "over"}, r.at \notin {"new", "over"}, r.loop = turn[t].loop,
         Sound(r, t \in saved')
  PROVE  SoundAll'
<1>1. CASE turn' = [turn EXCEPT ![t] = r] /\ streams' = streams
  <2>1. Only(t, r) /\ Slots(t, r)
    BY <1>1 DEF Only, SoundAll, Slots, Holds
  <2> QED BY <2>1, OneTurn
<1>2. CASE turn' = [turn EXCEPT ![t] = Over(r, "cancelled")] /\ streams' = ReleasedStreams(t)
  <2>1. Only(t, Over(r, "cancelled")) /\ Slots(t, Over(r, "cancelled"))
    BY <1>2, Overs DEF Only, SoundAll, Sound, Slots, Holds, Ends
  <2>2. Sound(Over(r, "cancelled"), t \in saved')
    BY Overs DEF Sound, Ends
  <2> QED BY <2>1, <2>2, OneTurn
<1> QED BY <1>1, <1>2 DEF Yields, EndsWith

LEMMA EndStep ==
  ASSUME SoundAll, NEW t \in TurnIds, NEW r \in TurnRecord,
         NEW end \in {"cancelled", "error", "broken", "done"},
         EndsWith(t, r, end), Beside(t), turn[t].at \notin {"new", "over"},
         Sound(Over(r, end), t \in saved')
  PROVE  SoundAll'
<1>1. Only(t, Over(r, end)) /\ Slots(t, Over(r, end))
  BY Overs DEF Only, SoundAll, Sound, EndsWith, Slots, Holds, Ends
<1> QED BY <1>1, OneTurn

LEMMA BesideKept ==
  ASSUME NEW t \in TurnIds, UNCHANGED saved PROVE Beside(t)
BY DEF Beside

(* Facts about turn t that every step of it starts from.                    *)
LEMMA Here ==
  ASSUME SoundAll, NEW t \in TurnIds
  PROVE  Sound(turn[t], t \in saved) /\ turn[t] \in TurnRecord
BY DEF SoundAll, Sound

(* A turn that only moves on to another place.                              *)
LEMMA MoveOn ==
  ASSUME NEW r \in TurnRecord, NEW at \in Places
  PROVE  LET s == [r EXCEPT !.at = at]
         IN  /\ s \in TurnRecord /\ s.at = at /\ s.loop = r.loop /\ s.round = r.round
             /\ s.tools = r.tools /\ s.text = r.text /\ s.end = r.end
BY DEF TurnRecord

LEMMA RanRecord ==
  ASSUME SoundAll, NEW t \in TurnIds, turn[t].at \in {"running", "waiting"}
  PROVE  LET r == Ran(t)
         IN  /\ r \in TurnRecord /\ r.at = turn[t].at /\ r.loop = turn[t].loop
             /\ r.round = turn[t].round /\ r.tools = turn[t].tools + 1
             /\ r.text = turn[t].text /\ r.end = turn[t].end
<1>1. turn[t] \in TurnRecord /\ turn[t].tools + 1 \in 0..MaxTools
  BY Here, TurnsAssumption DEF Sound, TurnRecord
<1> QED BY <1>1 DEF Ran, TurnRecord

LEMMA AfterToolRecord ==
  ASSUME SoundAll, NEW t \in TurnIds, turn[t].at \in {"running", "waiting"}
  PROVE  LET r == AfterTool(Ran(t))
         IN  /\ r \in TurnRecord /\ r.at = "model" /\ r.loop = turn[t].loop
             /\ r.round = r.tools + 1 /\ r.end = turn[t].end /\ r.tools = turn[t].tools + 1
<1> DEFINE s == Ran(t)
<1>1. /\ s \in TurnRecord /\ s.round = s.tools /\ s.tools =< MaxTools
      /\ s.loop = turn[t].loop /\ s.end = turn[t].end /\ s.tools = turn[t].tools + 1
  BY Here, RanRecord, TurnsAssumption DEF Sound, TurnRecord
<1> HIDE DEF s
<1>2. s.round # MaxTools + 1 /\ s.round + 1 \in 0..MaxTools + 1
  BY <1>1, TurnsAssumption DEF TurnRecord
<1>3. AfterTool(s) = [s EXCEPT !.at = "model", !.round = @ + 1]
  BY <1>2 DEF AfterTool
<1>4. /\ AfterTool(s) \in TurnRecord /\ AfterTool(s).at = "model" /\ AfterTool(s).loop = s.loop
      /\ AfterTool(s).round = s.round + 1 /\ AfterTool(s).tools = s.tools
      /\ AfterTool(s).end = s.end
  BY <1>1, <1>2, <1>3 DEF TurnRecord, Places
<1> QED BY <1>1, <1>4 DEF s

LEMMA SoundStep == SoundAll /\ [TurnsNext]_turnsVars => SoundAll'
<1> SUFFICES ASSUME SoundAll, [TurnsNext]_turnsVars PROVE SoundAll'
  OBVIOUS
<1> USE TurnsAssumption
<1>1. ASSUME NEW t \in TurnIds, NEW l \in Loops, Reject(t, l) \/ PrepareFails(t, l)
      PROVE  SoundAll'
  <2> DEFINE r == [turn[t] EXCEPT !.loop = l]
  <2>1. /\ turn[t].at = "new" /\ UNCHANGED saved
        /\ \/ turn' = [turn EXCEPT ![t] = Over(r, "rejected")] /\ streams' = streams
           \/ /\ turn' = [turn EXCEPT ![t] = Over(r, "not_prepared")]
              /\ streams' = [streams EXCEPT ![l] = @ + 1]
    BY <1>1 DEF Reject, PrepareFails, Acquires
  <2>2. PICK end \in {"rejected", "not_prepared"} :
          /\ turn' = [turn EXCEPT ![t] = Over(r, end)]
          /\ streams' = IF end = "rejected" THEN streams ELSE [streams EXCEPT ![l] = @ + 1]
    BY <2>1
  <2>3. r \in TurnRecord /\ r.loop = l
    BY Here DEF TurnRecord
  <2> HIDE DEF r
  <2>4. Only(t, Over(r, end))
    BY <2>2 DEF Only, SoundAll
  <2>5. Sound(Over(r, end), t \in saved)
    BY <2>1, <2>3, Overs, Here DEF Sound, Ends
  <2>6. /\ turn[t].end = "none" /\ ~Holds(turn[t])
        /\ Over(r, end).at = "over" /\ Over(r, end).end = end /\ Over(r, end).loop = l
    BY <2>1, <2>3, Overs, Here DEF Sound, Holds, Ends
  <2>7. Slots(t, Over(r, end))
    <3>1. CASE end = "rejected"
      <4>1. ~Holds(Over(r, end))
        BY <2>6, <3>1 DEF Holds
      <4> QED BY <2>2, <2>6, <3>1, <4>1 DEF Slots
    <3>2. CASE end = "not_prepared"
      <4>1. Holds(Over(r, end))
        BY <2>6, <3>2 DEF Holds
      <4> QED BY <2>2, <2>6, <3>2, <4>1 DEF Slots
    <3> QED BY <3>1, <3>2
  <2> QED BY <2>1, <2>4, <2>5, <2>7, BesideKept, OneTurn
<1>2. ASSUME NEW t \in TurnIds, NEW l \in Loops, NEW agent \in BOOLEAN, Open(t, l, agent)
      PROVE  SoundAll'
  <2> DEFINE r == [NewTurn EXCEPT !.at = "opening", !.loop = l, !.agent = agent]
  <2>1. /\ turn[t].at = "new" /\ UNCHANGED saved
        /\ turn' = [turn EXCEPT ![t] = r] /\ streams' = [streams EXCEPT ![l] = @ + 1]
    BY <1>2 DEF Open, Acquires
  <2>2. r \in TurnRecord /\ r.at = "opening" /\ r.loop = l /\ r.tools = 0 /\ r.end = "none"
    BY NewRecord DEF TurnRecord, Places
  <2> HIDE DEF r
  <2>3. Only(t, r) /\ Slots(t, r)
    BY <2>1, <2>2, Here DEF Only, SoundAll, Slots, Holds, Sound
  <2>4. Sound(r, t \in saved)
    BY <2>1, <2>2, Here DEF Sound
  <2> QED BY <2>1, <2>3, <2>4, BesideKept, OneTurn
<1>3. ASSUME NEW t \in TurnIds, NeverBegins(t) PROVE SoundAll'
  <2>1. /\ turn[t].at = "opening" /\ turn' = [turn EXCEPT ![t] = Over(turn[t], "not_begun")]
        /\ UNCHANGED <<streams, saved>>
    BY <1>3 DEF NeverBegins, Stands
  <2>2. Only(t, Over(turn[t], "not_begun")) /\ Slots(t, Over(turn[t], "not_begun"))
    BY <2>1, Overs, Here DEF Only, SoundAll, Slots, Holds, Ends
  <2>3. Sound(Over(turn[t], "not_begun"), t \in saved)
    BY <2>1, Overs, Here DEF Sound, Ends
  <2> QED BY <2>1, <2>2, <2>3, BesideKept, OneTurn
<1>4. ASSUME NEW t \in TurnIds, Begin(t) PROVE SoundAll'
  <2> DEFINE r == [turn[t] EXCEPT !.at = "model", !.round = 1]
  <2>1. turn[t].at = "opening" /\ Yields(t, r) /\ UNCHANGED saved
    BY <1>4 DEF Begin, Stands
  <2>2. /\ r \in TurnRecord /\ r.at = "model" /\ r.loop = turn[t].loop /\ r.round = 1
        /\ r.tools = turn[t].tools /\ r.end = turn[t].end
    <3>1. 1 \in 0..MaxTools + 1
      OBVIOUS
    <3> QED BY <3>1, Here DEF TurnRecord, Places
  <2> HIDE DEF r
  <2>3. Sound(r, t \in saved)
    BY <2>1, <2>2, Here DEF Sound
  <2> QED BY <2>1, <2>2, <2>3, BesideKept, YieldStep
<1>5. ASSUME NEW t \in TurnIds, NEW text \in BOOLEAN, ProposeTool(t, text) \/ Reply(t, text)
      PROVE  SoundAll'
  <2>1. PICK at \in {"proposed", "replied"} :
          /\ Yields(t, [turn[t] EXCEPT !.at = at, !.text = @ \/ text])
          /\ at = "proposed" => turn[t].tools < MaxTools
    BY <1>5 DEF ProposeTool, Reply
  <2> DEFINE r == [turn[t] EXCEPT !.at = at, !.text = @ \/ text]
  <2>2. turn[t].at = "model" /\ UNCHANGED saved
    BY <1>5 DEF ProposeTool, Reply, Stands
  <2>3. /\ r \in TurnRecord /\ r.at = at /\ r.loop = turn[t].loop /\ r.round = turn[t].round
        /\ r.tools = turn[t].tools /\ r.end = turn[t].end
    <3> DEFINE s == turn[t]
    <3>1. s \in TurnRecord
      BY Here
    <3> HIDE DEF s
    <3>2. at \in Places
      BY DEF Places
    <3> DEFINE b == s.text \/ text
    <3>3. b \in BOOLEAN
      OBVIOUS
    <3>4. [turn[t] EXCEPT !.at = at, !.text = @ \/ text] = [s EXCEPT !.at = at, !.text = b]
      BY DEF s
    <3> HIDE DEF b
    <3>5. LET u == [s EXCEPT !.at = at, !.text = b]
          IN  /\ u \in TurnRecord /\ u.at = at /\ u.loop = s.loop /\ u.round = s.round
              /\ u.tools = s.tools /\ u.end = s.end
      BY <3>1, <3>2, <3>3 DEF TurnRecord
    <3> QED BY <3>4, <3>5 DEF s
  <2>4. Yields(t, r)
    BY <2>1
  <2> HIDE DEF r
  <2>5. Sound(r, t \in saved)
    BY <2>1, <2>2, <2>3, Here DEF Sound
  <2> QED BY <2>2, <2>3, <2>4, <2>5, BesideKept, YieldStep
<1>6. ASSUME NEW t \in TurnIds,
             \/ ModelFails(t) \/ RegisterRaises(t) \/ ToolFails(t) \/ ToolRaises(t) \/ WaitBreaks(t)
             \/ EmptyReply(t) \/ Done(t)
      PROVE  SoundAll'
  <2>1. /\ turn[t].at \in {"model", "running", "waiting", "announced", "replied", "saved"}
        /\ UNCHANGED saved
    BY <1>6 DEF ModelFails, RegisterRaises, ToolFails, ToolRaises, WaitBreaks, Raises, ErrorEnd, EmptyReply, Done, Stands
  <2>2. PICK end \in {"cancelled", "error", "broken", "done"} :
          EndsWith(t, turn[t], end) /\ (turn[t].at = "saved" => end \in {"cancelled", "done"})
    BY <1>6 DEF ModelFails, RegisterRaises, ToolFails, ToolRaises, WaitBreaks, Raises, ErrorEnd, EmptyReply, Done, Stands
  <2>3. end \in Ends
    BY DEF Ends
  <2>4. t \in saved => turn[t].at = "saved"
    BY <2>1, Here DEF Sound
  <2>5. Sound(Over(turn[t], end), t \in saved')
    BY <2>1, <2>2, <2>3, <2>4, Overs, Here DEF Sound
  <2> QED BY <2>1, <2>2, <2>5, BesideKept, Here, EndStep
<1>7. ASSUME NEW t \in TurnIds, ModelErrorBecomesReply(t) PROVE SoundAll'
  <2> DEFINE r == [turn[t] EXCEPT !.at = "replied", !.text = TRUE]
  <2>1. turn[t].at = "model" /\ Yields(t, r) /\ UNCHANGED saved
    BY <1>7 DEF ModelErrorBecomesReply, Stands
  <2>2. /\ r \in TurnRecord /\ r.at = "replied" /\ r.loop = turn[t].loop
        /\ r.end = turn[t].end
    <3> DEFINE s == turn[t]
    <3>1. s \in TurnRecord
      BY Here
    <3> HIDE DEF s
    <3>2. LET u == [s EXCEPT !.at = "replied", !.text = TRUE]
          IN  u \in TurnRecord /\ u.at = "replied" /\ u.loop = s.loop /\ u.end = s.end
      BY <3>1 DEF TurnRecord, Places
    <3> QED BY <3>2 DEF s
  <2> HIDE DEF r
  <2>3. Sound(r, t \in saved)
    BY <2>1, <2>2, Here DEF Sound
  <2> QED BY <2>1, <2>2, <2>3, BesideKept, YieldStep
<1>8. ASSUME NEW t \in TurnIds, RunTool(t) PROVE SoundAll'
  <2> DEFINE r == [turn[t] EXCEPT !.at = "running"]
  <2>1. turn[t].at = "proposed" /\ Yields(t, r) /\ UNCHANGED saved
    BY <1>8 DEF RunTool, Stands
  <2>2. /\ r \in TurnRecord /\ r.at = "running" /\ r.loop = turn[t].loop
        /\ r.round = turn[t].round /\ r.tools = turn[t].tools /\ r.end = turn[t].end
    BY Here, MoveOn DEF Places
  <2> HIDE DEF r
  <2>3. Sound(r, t \in saved)
    BY <2>1, <2>2, Here DEF Sound
  <2> QED BY <2>1, <2>2, <2>3, BesideKept, YieldStep
<1>9. ASSUME NEW t \in TurnIds,
             \/ ToolReturns(t) \/ WaitReturns(t) \/ WaitTimesOut(t)
             \/ \E kind \in {"pending", "shell"} : ToolAsksQuietly(t, kind)
      PROVE  SoundAll'
  <2> DEFINE r == AfterTool(Ran(t))
  <2>1. /\ turn[t].at \in {"running", "waiting"} /\ Yields(t, r)
        /\ UNCHANGED saved
    BY <1>9 DEF ToolReturns, WaitReturns, WaitTimesOut, ToolAsksQuietly, Stands
  <2>2. /\ r \in TurnRecord /\ r.at = "model" /\ r.loop = turn[t].loop
        /\ r.round = r.tools + 1 /\ r.end = turn[t].end
    BY <2>1, AfterToolRecord
  <2> HIDE DEF r
  <2>3. Sound(r, t \in saved)
    BY <2>1, <2>2, Here DEF Sound
  <2> QED BY <2>1, <2>2, <2>3, BesideKept, YieldStep
<1>10. ASSUME NEW t \in TurnIds, ToolClarifies(t) \/ ToolAsksApproval(t) PROVE SoundAll'
  <2>1. turn[t].at = "running" /\ UNCHANGED saved
    BY <1>10 DEF ToolClarifies, ToolAsksApproval, Stands
  <2>2. PICK at \in {"replied", "announced"} : Yields(t, [Ran(t) EXCEPT !.at = at])
    BY <1>10 DEF ToolClarifies, ToolAsksApproval
  <2> DEFINE ran == Ran(t)
  <2>6. ran \in TurnRecord /\ ran.loop = turn[t].loop /\ ran.end = turn[t].end
    BY <2>1, RanRecord
  <2>7. Yields(t, [ran EXCEPT !.at = at])
    BY <2>2
  <2> HIDE DEF ran
  <2> DEFINE r == [ran EXCEPT !.at = at]
  <2>3. r \in TurnRecord /\ r.at = at /\ r.loop = turn[t].loop /\ r.end = turn[t].end
    BY <2>6 DEF TurnRecord, Places
  <2>4. Yields(t, r)
    BY <2>7
  <2> HIDE DEF r
  <2>5. Sound(r, t \in saved)
    BY <2>1, <2>3, Here DEF Sound
  <2> QED BY <2>1, <2>3, <2>4, <2>5, BesideKept, YieldStep
<1>12. ASSUME NEW t \in TurnIds, RegisterApproval(t) PROVE SoundAll'
  <2> DEFINE r == [turn[t] EXCEPT !.at = "replied"]
  <2>1. turn[t].at = "announced" /\ Yields(t, r) /\ UNCHANGED saved
    BY <1>12 DEF RegisterApproval, Stands
  <2>2. r \in TurnRecord /\ r.at = "replied" /\ r.loop = turn[t].loop /\ r.end = turn[t].end
    BY Here, MoveOn DEF Places
  <2> HIDE DEF r
  <2>3. Sound(r, t \in saved)
    BY <2>1, <2>2, Here DEF Sound
  <2> QED BY <2>1, <2>2, <2>3, BesideKept, YieldStep
<1>13. ASSUME NEW t \in TurnIds, ToolWaits(t) PROVE SoundAll'
  <2> DEFINE r == [turn[t] EXCEPT !.at = "waiting"]
  <2>1. /\ turn[t].at = "running" /\ turn' = [turn EXCEPT ![t] = r]
        /\ UNCHANGED <<streams, saved>>
    BY <1>13 DEF ToolWaits, Stands, SoundAll
  <2>2. /\ r \in TurnRecord /\ r.at = "waiting" /\ r.loop = turn[t].loop
        /\ r.round = turn[t].round /\ r.tools = turn[t].tools /\ r.end = turn[t].end
    BY Here, MoveOn DEF Places
  <2> HIDE DEF r
  <2>3. Only(t, r) /\ Slots(t, r)
    BY <2>1, <2>2, Here DEF Only, SoundAll, Slots, Holds, Sound
  <2>4. Sound(r, t \in saved)
    BY <2>1, <2>2, Here DEF Sound
  <2> QED BY <2>1, <2>3, <2>4, BesideKept, OneTurn
<1>14. ASSUME NEW t \in TurnIds, NEW saves \in BOOLEAN, Save(t, saves) PROVE SoundAll'
  <2> DEFINE r == [turn[t] EXCEPT !.at = "saved"]
  <2>1. /\ turn[t].at = "replied" /\ turn' = [turn EXCEPT ![t] = r] /\ UNCHANGED streams
        /\ saved' = saved \/ saved' = saved \cup {t}
    BY <1>14 DEF Save, Stands, SoundAll
  <2>2. r \in TurnRecord /\ r.at = "saved" /\ r.loop = turn[t].loop /\ r.end = turn[t].end
    BY Here, MoveOn DEF Places
  <2> HIDE DEF r
  <2>3. Only(t, r) /\ Slots(t, r)
    BY <2>1, <2>2, Here DEF Only, SoundAll, Slots, Holds, Sound
  <2>4. Beside(t) /\ Sound(r, t \in saved')
    BY <2>1, <2>2, Here DEF Sound, Beside
  <2> QED BY <2>3, <2>4, OneTurn
<1>15. ASSUME NEW t \in TurnIds,
              Leave(t) \/ ConnectorPolls(t) \/ ConnectorReports(t) \/ Resolve(t)
       PROVE  SoundAll'
  BY <1>15 DEF Leave, ConnectorPolls, ConnectorReports, Resolve, SoundAll, Sound, Occupied
<1>17. CASE UNCHANGED turnsVars
  BY <1>17 DEF turnsVars, SoundAll, Sound, Occupied
<1>18. ASSUME NEW t \in TurnIds, TurnStep(t) PROVE SoundAll'
  <2>1. CASE \E text \in BOOLEAN : ProposeTool(t, text) \/ Reply(t, text)
    BY <2>1, <1>5
  <2>2. CASE \E saves \in BOOLEAN : Save(t, saves)
    BY <2>2, <1>14
  <2>3. CASE \/ NeverBegins(t) \/ Begin(t) \/ ModelFails(t) \/ ModelErrorBecomesReply(t)
             \/ RunTool(t) \/ ToolReturns(t) \/ ToolClarifies(t) \/ ToolAsksApproval(t)
             \/ \E kind \in {"pending", "shell"} : ToolAsksQuietly(t, kind)
             \/ RegisterApproval(t) \/ RegisterRaises(t) \/ ToolFails(t) \/ ToolRaises(t) \/ WaitBreaks(t)
             \/ ToolWaits(t) \/ WaitReturns(t) \/ WaitTimesOut(t) \/ EmptyReply(t) \/ Done(t)
    BY <2>3, <1>3, <1>4, <1>6, <1>7, <1>8, <1>9, <1>10, <1>12, <1>13
  <2> QED BY <1>18, <2>1, <2>2, <2>3 DEF TurnStep, TurnGoesOn
<1> QED BY <1>1, <1>2, <1>15, <1>17, <1>18 DEF TurnsNext

(* The other variables, and the limit that acquire_concurrent_slot checks.  *)
WithinLimits ==
  /\ turn = [t \in TurnIds |-> turn[t]]
  /\ left \subseteq TurnIds /\ shown \subseteq TurnIds /\ saved \subseteq TurnIds
  /\ streams \in [Loops -> 0..StreamLimit]
  /\ job \in [TurnIds -> {"none", "queued", "leased", "done"}]
  /\ approval \in [TurnIds -> {"none", "pending", "shell", "resolved"}]

LEMMA LimitsStart == TurnsInit => WithinLimits
<1>1. 0 \in 0..StreamLimit
  BY TurnsAssumption
<1> QED BY <1>1 DEF TurnsInit, WithinLimits

LEMMA StreamsReleased ==
  ASSUME WithinLimits, NEW t \in TurnIds PROVE ReleasedStreams(t) \in [Loops -> 0..StreamLimit]
<1>1. \A n \in 0..StreamLimit : (IF n > 0 THEN n - 1 ELSE 0) \in 0..StreamLimit
  BY TurnsAssumption
<1> QED BY <1>1 DEF WithinLimits, ReleasedStreams

LEMMA LimitsKept == WithinLimits /\ [TurnsNext]_turnsVars => WithinLimits'
<1> SUFFICES ASSUME WithinLimits, [TurnsNext]_turnsVars PROVE WithinLimits'
  OBVIOUS
<1>1. ASSUME NEW t \in TurnIds, NEW l \in Loops, Acquires(t, l),
             NEW r, turn' = [turn EXCEPT ![t] = r]
      PROVE  WithinLimits'
  <2>1. streams[l] + 1 \in 0..StreamLimit
    BY <1>1, TurnsAssumption DEF Acquires, WithinLimits
  <2> QED BY <1>1, <2>1 DEF Acquires, WithinLimits
<1>2. ASSUME NEW t \in TurnIds, TurnStep(t) PROVE WithinLimits'
  <2>1. UNCHANGED streams \/ streams' = ReleasedStreams(t)
    BY <1>2 DEF TurnStep, TurnGoesOn, NeverBegins, Begin, ProposeTool, Reply, ModelFails, ModelErrorBecomesReply,
                RunTool, ToolReturns, ToolClarifies, ToolAsksApproval, ToolAsksQuietly,
                RegisterApproval, RegisterRaises, ToolFails, ToolRaises, WaitBreaks, Raises, ErrorEnd, Creates,
                ToolWaits, WaitReturns, WaitTimesOut, EmptyReply, Save, Done, Yields, EndsWith
  <2>2. streams' \in [Loops -> 0..StreamLimit]
    BY <2>1, StreamsReleased DEF WithinLimits
  <2>3. /\ left' = left /\ shown' \subseteq shown \cup {t}
        /\ (saved' = saved \/ saved' = saved \cup {t})
        /\ \/ job' = job
           \/ \E at \in {"queued", "none"} : job' = [job EXCEPT ![t] = at]
        /\ \/ approval' = approval
           \/ \E kind \in {"pending", "shell"} : approval' = [approval EXCEPT ![t] = kind]
    BY <1>2 DEF TurnStep, TurnGoesOn, NeverBegins, Begin, ProposeTool, Reply, ModelFails, ModelErrorBecomesReply,
                RunTool, ToolReturns, ToolClarifies, ToolAsksApproval, ToolAsksQuietly,
                RegisterApproval, RegisterRaises, ToolFails, ToolRaises, WaitBreaks, Raises, ErrorEnd, Creates,
                ToolWaits, WaitReturns, WaitTimesOut, EmptyReply, Save, Done
  <2>4. \E r : turn' = [turn EXCEPT ![t] = r]
    BY <1>2 DEF TurnStep, TurnGoesOn, NeverBegins, Begin, ProposeTool, Reply, ModelFails, ModelErrorBecomesReply,
                RunTool, ToolReturns, ToolClarifies, ToolAsksApproval, ToolAsksQuietly,
                RegisterApproval, RegisterRaises, ToolFails, ToolRaises, WaitBreaks, Raises, ErrorEnd, Creates,
                ToolWaits, WaitReturns, WaitTimesOut, EmptyReply, Save, Done, Yields, EndsWith
  <2> QED BY <2>2, <2>3, <2>4 DEF WithinLimits
<1>3. ASSUME NEW t \in TurnIds, NEW l \in Loops, Reject(t, l) PROVE WithinLimits'
  BY <1>3 DEF Reject, WithinLimits
<1>4. ASSUME NEW t \in TurnIds, Leave(t) \/ Resolve(t) PROVE WithinLimits'
  BY <1>4 DEF Leave, Resolve, WithinLimits
<1>5. ASSUME NEW t \in TurnIds, ConnectorPolls(t) \/ ConnectorReports(t) PROVE WithinLimits'
  BY <1>5 DEF ConnectorPolls, ConnectorReports, WithinLimits
<1>6. CASE UNCHANGED turnsVars
  BY <1>6 DEF turnsVars, WithinLimits
<1> QED BY <1>1, <1>2, <1>3, <1>4, <1>5, <1>6 DEF TurnsNext, PrepareFails, Open

LEMMA TurnsTyped == SoundAll /\ WithinLimits => TurnsTypeOK
<1> SUFFICES ASSUME SoundAll, WithinLimits PROVE TurnsTypeOK
  OBVIOUS
<1>1. \A t \in TurnIds : turn[t] \in TurnRecord
  BY DEF SoundAll, Sound
<1>2. turn \in [TurnIds -> TurnRecord]
  BY <1>1 DEF WithinLimits
<1> QED BY <1>2 DEF SoundAll, WithinLimits, TurnsTypeOK, TurnRecord, Places

LEMMA Slotted == SoundAll => SlotsAccounted
<1> SUFFICES ASSUME SoundAll, NEW l \in Loops
             PROVE  streams[l] = Cardinality({t \in Streaming \cup LostSlot : turn[t].loop = l})
  BY DEF SlotsAccounted
<1>1. {t \in Streaming \cup LostSlot : turn[t].loop = l} = Occupied(l)
  BY DEF Streaming, LostSlot, Occupied, Holds
<1> QED BY <1>1 DEF SoundAll

LEMMA InBudget == SoundAll => NeverExhausted
<1> SUFFICES ASSUME SoundAll, NEW t \in TurnIds, turn[t].at \in {"proposed", "running", "waiting"}
             PROVE  turn[t].round =< MaxTools
  BY DEF NeverExhausted
<1> QED BY Here, TurnsAssumption DEF Sound, TurnRecord

LEMMA ErrorsUnsaved == SoundAll => ErrorMeansNotSaved
BY Here DEF Sound, ErrorMeansNotSaved

LEMMA SoundAlways == TurnsSpec => [](SoundAll /\ WithinLimits)
BY SoundStart, SoundStep, LimitsStart, LimitsKept, PTL DEF TurnsSpec

(* How far a turn has come: each tool takes it once more through the places *)
(* of a round.                                                              *)
Place == [new |-> 0, opening |-> 1, model |-> 2, proposed |-> 3, running |-> 4, waiting |-> 5,
          announced |-> 6, replied |-> 7, saved |-> 8]
Reach(r) == IF r.at = "over" THEN 9 * MaxTools + 9 ELSE 9 * r.tools + Place[r.at]

LEMMA ReachType ==
  ASSUME NEW r \in TurnRecord
  PROVE  /\ r.tools \in Nat /\ Reach(r) \in 0..9 * MaxTools + 9
         /\ r.at # "over" => /\ Place[r.at] \in 0..8 /\ Reach(r) = 9 * r.tools + Place[r.at]
                             /\ Reach(r) < 9 * MaxTools + 9
<1>1. r.tools \in 0..MaxTools /\ r.at \in Places /\ MaxTools \in Nat
  BY TurnsAssumption DEF TurnRecord
<1>2. r.at # "over" => Place[r.at] \in 0..8
  BY <1>1 DEF Place, Places
<1> QED BY <1>1, <1>2 DEF Reach

LEMMA OverIsLast ==
  ASSUME NEW r, NEW end, NEW s \in TurnRecord, s.at # "over"
  PROVE  Reach(s) < Reach(Over(r, end))
<1>1. Over(r, end).at = "over"
  BY DEF Over, NewTurn
<1> QED BY <1>1, ReachType DEF Reach

Advances(t) ==
  /\ Reach(turn[t]) < Reach(turn'[t])
  /\ \A u \in TurnIds \ {t} : turn'[u] = turn[u]

LEMMA YieldAdvances ==
  ASSUME SoundAll, NEW t \in TurnIds, NEW r \in TurnRecord, Yields(t, r), turn[t].at # "over",
         Reach(turn[t]) < Reach(r)
  PROVE  Advances(t)
<1>1. Reach(turn[t]) < Reach(Over(r, "cancelled"))
  BY OverIsLast, Here
<1> QED BY <1>1 DEF Yields, EndsWith, Advances, SoundAll

LEMMA EndAdvances ==
  ASSUME SoundAll, NEW t \in TurnIds, NEW r, NEW end, turn[t].at # "over",
         turn' = [turn EXCEPT ![t] = Over(r, end)]
  PROVE  Advances(t)
<1>1. Reach(turn[t]) < Reach(Over(r, end))
  BY OverIsLast, Here
<1> QED BY <1>1 DEF Advances, SoundAll

(* A step of a turn takes it on: within the round, to the next one with a   *)
(* tool more, or over.                                                      *)
LEMMA StepAdvances == ASSUME SoundAll, NEW t \in TurnIds, TurnStep(t) PROVE Advances(t)
<1> USE TurnsAssumption
<1>1. turn[t] \in TurnRecord
  BY Here
<1>2. ASSUME NEW r \in TurnRecord, Yields(t, r), r.tools = turn[t].tools,
             turn[t].at # "over", r.at # "over", Place[turn[t].at] < Place[r.at]
      PROVE  Advances(t)
  <2>1. Reach(turn[t]) < Reach(r)
    BY <1>1, <1>2, ReachType
  <2> QED BY <1>2, <2>1, YieldAdvances
<1>3. ASSUME NEW r \in TurnRecord, Yields(t, r), r.tools = turn[t].tools + 1,
             turn[t].at \in {"running", "waiting"}, r.at \notin {"new", "opening", "over"}
      PROVE  Advances(t)
  <2>1. Place[turn[t].at] =< 5 /\ Place[r.at] >= 2
    BY <1>1, <1>3 DEF Place, TurnRecord, Places
  <2>2. Reach(turn[t]) < Reach(r)
    BY <1>1, <1>3, <2>1, ReachType
  <2> QED BY <1>3, <2>2, YieldAdvances
<1>4. CASE NeverBegins(t)
  BY <1>4, EndAdvances DEF NeverBegins, Stands
<1>5. CASE Begin(t)
  <2> DEFINE r == [turn[t] EXCEPT !.at = "model", !.round = 1]
  <2>1. r \in TurnRecord /\ r.tools = turn[t].tools /\ r.at = "model"
    <3>1. 1 \in 0..MaxTools + 1
      OBVIOUS
    <3> QED BY <1>1, <3>1 DEF TurnRecord, Places
  <2>2. Yields(t, r) /\ turn[t].at = "opening"
    BY <1>5 DEF Begin, Stands
  <2> HIDE DEF r
  <2>3. Place[turn[t].at] < Place[r.at]
    BY <2>1, <2>2 DEF Place
  <2> QED BY <1>2, <2>1, <2>2, <2>3
<1>6. ASSUME NEW text \in BOOLEAN, ProposeTool(t, text) \/ Reply(t, text) PROVE Advances(t)
  <2>1. PICK at \in {"proposed", "replied"} : Yields(t, [turn[t] EXCEPT !.at = at, !.text = @ \/ text])
    BY <1>6 DEF ProposeTool, Reply
  <2> DEFINE r == [turn[t] EXCEPT !.at = at, !.text = @ \/ text]
  <2>2. r \in TurnRecord /\ r.tools = turn[t].tools /\ r.at = at
    BY <1>1 DEF TurnRecord, Places
  <2>3. Yields(t, r) /\ turn[t].at = "model"
    BY <1>6, <2>1 DEF ProposeTool, Reply, Stands
  <2> HIDE DEF r
  <2>4. Place[turn[t].at] < Place[r.at]
    BY <2>2, <2>3 DEF Place
  <2> QED BY <1>2, <2>2, <2>3, <2>4
<1>7. CASE \/ ModelFails(t) \/ RegisterRaises(t) \/ ToolFails(t) \/ ToolRaises(t) \/ WaitBreaks(t)
           \/ EmptyReply(t) \/ Done(t)
  <2>1. PICK end : turn' = [turn EXCEPT ![t] = Over(turn[t], end)]
    BY <1>7 DEF ModelFails, RegisterRaises, ToolFails, ToolRaises, WaitBreaks, Raises, ErrorEnd, EmptyReply, Done, EndsWith
  <2>2. turn[t].at # "over"
    BY <1>7 DEF ModelFails, RegisterRaises, ToolFails, ToolRaises, WaitBreaks, Raises, ErrorEnd, EmptyReply, Done, Stands
  <2> QED BY <2>1, <2>2, EndAdvances
<1>8. CASE ModelErrorBecomesReply(t)
  <2> DEFINE r == [turn[t] EXCEPT !.at = "replied", !.text = TRUE]
  <2>1. r \in TurnRecord /\ r.tools = turn[t].tools /\ r.at = "replied"
    BY <1>1 DEF TurnRecord, Places
  <2>2. Yields(t, r) /\ turn[t].at = "model"
    BY <1>8 DEF ModelErrorBecomesReply, Stands
  <2> HIDE DEF r
  <2>3. Place[turn[t].at] < Place[r.at]
    BY <2>1, <2>2 DEF Place
  <2> QED BY <1>2, <2>1, <2>2, <2>3
<1>9. CASE RunTool(t) \/ RegisterApproval(t)
  <2>1. PICK at \in {"running", "replied"} :
          /\ Yields(t, [turn[t] EXCEPT !.at = at])
          /\ turn[t].at = IF at = "running" THEN "proposed" ELSE "announced"
    BY <1>9 DEF RunTool, RegisterApproval, Stands
  <2> DEFINE r == [turn[t] EXCEPT !.at = at]
  <2>2. r \in TurnRecord /\ r.tools = turn[t].tools /\ r.at = at
    BY <1>1 DEF TurnRecord, Places
  <2>3. Yields(t, r)
    BY <2>1
  <2> HIDE DEF r
  <2>4. Place[turn[t].at] < Place[r.at] /\ turn[t].at # "over"
    BY <2>1, <2>2 DEF Place
  <2> QED BY <1>2, <2>1, <2>2, <2>3, <2>4
<1>10. CASE \/ ToolReturns(t) \/ WaitReturns(t) \/ WaitTimesOut(t)
            \/ \E kind \in {"pending", "shell"} : ToolAsksQuietly(t, kind)
  <2> DEFINE r == AfterTool(Ran(t))
  <2>1. turn[t].at \in {"running", "waiting"} /\ Yields(t, r)
    BY <1>10 DEF ToolReturns, WaitReturns, WaitTimesOut, ToolAsksQuietly, Stands
  <2>2. r \in TurnRecord /\ r.tools = turn[t].tools + 1 /\ r.at = "model"
    BY <2>1, AfterToolRecord
  <2> HIDE DEF r
  <2> QED BY <1>3, <2>1, <2>2
<1>11. CASE ToolClarifies(t) \/ ToolAsksApproval(t)
  <2> DEFINE ran == Ran(t)
  <2>1. PICK at \in {"replied", "announced"} : Yields(t, [ran EXCEPT !.at = at])
    BY <1>11 DEF ToolClarifies, ToolAsksApproval
  <2>2. turn[t].at = "running"
    BY <1>11 DEF ToolClarifies, ToolAsksApproval, Stands
  <2>3. ran \in TurnRecord /\ ran.tools = turn[t].tools + 1
    BY <2>2, RanRecord
  <2> HIDE DEF ran
  <2> DEFINE r == [ran EXCEPT !.at = at]
  <2>4. r \in TurnRecord /\ r.tools = turn[t].tools + 1 /\ r.at = at
    BY <2>3 DEF TurnRecord, Places
  <2>5. Yields(t, r)
    BY <2>1
  <2> HIDE DEF r
  <2> QED BY <1>3, <2>2, <2>4, <2>5
<1>12. CASE ToolWaits(t)
  <2>1. turn[t].at = "running" /\ turn' = [turn EXCEPT ![t].at = "waiting"]
    BY <1>12 DEF ToolWaits, Stands
  <2>2. turn'[t].tools = turn[t].tools /\ turn'[t].at = "waiting" /\ turn[t].tools \in Nat
    BY <1>1, <2>1, ReachType DEF SoundAll, TurnRecord
  <2>3. Reach(turn[t]) < Reach(turn'[t])
    BY <2>1, <2>2 DEF Reach, Place
  <2> QED BY <2>1, <2>3 DEF Advances, SoundAll
<1>13. ASSUME NEW saves \in BOOLEAN, Save(t, saves) PROVE Advances(t)
  <2>1. turn[t].at = "replied" /\ turn' = [turn EXCEPT ![t].at = "saved"]
    BY <1>13 DEF Save, Stands
  <2>2. turn'[t].tools = turn[t].tools /\ turn'[t].at = "saved" /\ turn[t].tools \in Nat
    BY <1>1, <2>1, ReachType DEF SoundAll, TurnRecord
  <2>3. Reach(turn[t]) < Reach(turn'[t])
    BY <2>1, <2>2 DEF Reach, Place
  <2> QED BY <2>1, <2>3 DEF Advances, SoundAll
<1> QED
  BY <1>4, <1>5, <1>6, <1>7, <1>8, <1>9, <1>10, <1>11, <1>12, <1>13 DEF TurnStep, TurnGoesOn

LEMMA NextAdvances ==
  SoundAll /\ [TurnsNext]_turnsVars =>
    [\A t \in TurnIds : /\ TurnStep(t) => Reach(turn[t]) < Reach(turn'[t])
                        /\ turn'[t] # turn[t] => Reach(turn[t]) < Reach(turn'[t])]_turnsVars
<1> SUFFICES ASSUME SoundAll, TurnsNext, NEW t \in TurnIds
             PROVE  /\ TurnStep(t) => Reach(turn[t]) < Reach(turn'[t])
                    /\ turn'[t] # turn[t] => Reach(turn[t]) < Reach(turn'[t])
  OBVIOUS
<1>1. ASSUME NEW u \in TurnIds, TurnStep(u) PROVE turn'[t] # turn[t] => Reach(turn[t]) < Reach(turn'[t])
  BY <1>1, StepAdvances DEF Advances
<1>2. ASSUME NEW u \in TurnIds, NEW l \in Loops,
             \/ Reject(u, l) \/ PrepareFails(u, l)
             \/ \E agent \in BOOLEAN : Open(u, l, agent)
      PROVE  turn'[t] # turn[t] => Reach(turn[t]) < Reach(turn'[t])
  <2>1. turn[u].at = "new" /\ turn[u].tools = 0 /\ turn[u] \in TurnRecord
    BY <1>2, Here DEF Reject, PrepareFails, Open, Acquires, Sound
  <2>2. PICK r : turn' = [turn EXCEPT ![u] = r] /\ r.at \in {"opening", "over"} /\ r.tools = 0
    <3>1. CASE Reject(u, l) \/ PrepareFails(u, l)
      <4>1. PICK s, end : turn' = [turn EXCEPT ![u] = Over(s, end)]
        BY <3>1 DEF Reject, PrepareFails
      <4>2. Over(s, end).at = "over" /\ Over(s, end).tools = 0
        BY DEF Over, NewTurn
      <4> QED BY <4>1, <4>2
    <3>2. ASSUME NEW agent \in BOOLEAN, Open(u, l, agent)
          PROVE  \E r : turn' = [turn EXCEPT ![u] = r] /\ r.at \in {"opening", "over"} /\ r.tools = 0
      <4> DEFINE s == [NewTurn EXCEPT !.at = "opening", !.loop = l, !.agent = agent]
      <4>1. s.at = "opening" /\ s.tools = 0
        BY DEF NewTurn
      <4>2. turn' = [turn EXCEPT ![u] = s]
        BY <3>2 DEF Open
      <4> HIDE DEF s
      <4> QED BY <4>1, <4>2
    <3> QED BY <1>2, <3>1, <3>2
  <2>3. turn'[u] = r /\ \A v \in TurnIds \ {u} : turn'[v] = turn[v]
    BY <2>2 DEF SoundAll
  <2>4. Reach(turn[u]) < Reach(turn'[u])
    BY <2>1, <2>2, <2>3, TurnsAssumption DEF Reach, Place
  <2> QED BY <2>3, <2>4
<1>3. ASSUME NEW u \in TurnIds, Leave(u) \/ Resolve(u) \/ ConnectorPolls(u) \/ ConnectorReports(u)
      PROVE  turn' = turn
  BY <1>3 DEF Leave, Resolve, ConnectorPolls, ConnectorReports
<1>4. TurnStep(t) => Reach(turn[t]) < Reach(turn'[t])
  BY StepAdvances DEF Advances
<1>5. turn'[t] # turn[t] => Reach(turn[t]) < Reach(turn'[t])
  BY <1>1, <1>2, <1>3 DEF TurnsNext
<1> QED BY <1>4, <1>5

(* The types: no process has more slots taken than the limit, and no turn   *)
(* more rounds than its budget allows.                                      *)
THEOREM TurnsTypes == TurnsSpec => []TurnsTypeOK
BY SoundAlways, TurnsTyped, PTL

(* A process's count is its streams and the slots nothing gives back.       *)
THEOREM SlotSafety == TurnsSpec => []SlotsAccounted
BY SoundAlways, Slotted, PTL

(* The tool budget ends the loop before its range runs out: the round is    *)
(* one ahead of the tools that have run, and no tool runs over the budget.  *)
THEOREM BudgetSafety == TurnsSpec => []NeverExhausted
BY SoundAlways, InBudget, PTL

(* After `error`, or a stream that broke, nothing is saved: not by the turn *)
(* while it ran, and not once it is over (event_gen of                      *)
(* assistant_text_stream).                                                  *)
THEOREM SavedSafety == TurnsSpec => []ErrorMeansNotSaved
BY SoundAlways, ErrorsUnsaved, PTL

(* A turn never comes back to where it has been: each of its steps takes it  *)
(* on, to the next place of the round, to a round with one tool more, or     *)
(* over; and as the budget bounds the tools, no turn has more steps than     *)
(* 9 * MaxTools + 9 (iter_agent_tool_stream).                                *)
THEOREM TurnsAdvance ==
  TurnsSpec =>
    /\ [](\A t \in TurnIds : Reach(turn[t]) \in 0..9 * MaxTools + 9)
    /\ [][\A t \in TurnIds : /\ TurnStep(t) => Reach(turn[t]) < Reach(turn'[t])
                             /\ turn'[t] # turn[t] => Reach(turn[t]) < Reach(turn'[t])]_turnsVars
<1>1. SoundAll => \A t \in TurnIds : Reach(turn[t]) \in 0..9 * MaxTools + 9
  BY Here, ReachType
<1> QED BY <1>1, SoundAlways, NextAdvances, PTL DEF TurnsSpec
=============================================================================
