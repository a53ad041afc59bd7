---------------------------- MODULE AgentProofs ----------------------------
(***************************************************************************)
(* Theorems about Agent, for any number of deliveries, steers, follow-ups, *)
(* hosts, runs, turns, failures and aborts: the mark of a waiting delivery *)
(* is exact and joined is true; an item is in one place and is not         *)
(* forgotten; an abort stops the deliveries it found; the agent implements *)
(* Mailbox, the promise of Deliver and Accept; and the calls of the        *)
(* conversation are answered once and before a model is asked again.       *)
(***************************************************************************)
EXTENDS Agent, TLAPS

-----------------------------------------------------------------------------
(* Lists of entries.                                                       *)

\* The entries of a queue are entries, as many as it has items.
LEMMA EntriesType ==
    ASSUME NEW q \in Seq(Item)
    PROVE  /\ Entries(q) \in Seq(Entry)
           /\ Len(Entries(q)) = Len(q)
           /\ Entries(q) = <<>> <=> q = <<>>
  BY DEF Entries, In, Entry

\* A list of outputs is a list of entries.
LEMMA OutputsType ==
    ASSUME calls \in Nat, NEW S \in SUBSET Nat, NEW outs \in Outputs(S)
    PROVE  outs \in Seq(Entry)
<1>1. PICK t \in UNION {[1..n -> S] : n \in 0..calls} :
          outs = [i \in DOMAIN t |-> Out(t[i])]
  BY DEF Outputs
<1>2. PICK n \in 0..calls : t \in [1..n -> S] BY <1>1
<1>3. \A i \in 1..n : Out(t[i]) \in Entry BY <1>2 DEF Out, Entry
<1> QED BY <1>1, <1>2, <1>3

\* An appended list is not empty.
LEMMA AppendNotEmpty ==
    ASSUME NEW T, NEW s \in Seq(T), NEW e \in T
    PROVE  Append(s, e) \in Seq(T) /\ Append(s, e) # <<>>
<1>1. Append(s, e)[Len(s) + 1] = e /\ Len(Append(s, e)) = Len(s) + 1
  OBVIOUS
<1>2. Len(s) \in Nat /\ Append(s, e) \in Seq(T) OBVIOUS
<1>3. Len(<<>>) = 0 OBVIOUS
<1>4. Len(Append(s, e)) # 0 BY <1>1, <1>2
<1> QED BY <1>2, <1>3, <1>4, Zenon

\* The queued items of a list are items.
LEMMA ItemsOfType ==
    ASSUME NEW s \in Seq(Entry)
    PROVE  ItemsOf(s) \in SUBSET Item
  BY DEF ItemsOf, Entry

\* The items of the entries of a queue are those of the queue.
LEMMA EntriesItems ==
    ASSUME NEW q \in Seq(Item)
    PROVE  ItemsOf(Entries(q)) = Elems(q)
  BY DEF ItemsOf, Entries, In, Elems

\* What appending an element adds.
LEMMA ElemsAppend ==
    ASSUME NEW T, NEW q \in Seq(T), NEW e \in T
    PROVE  Elems(Append(q, e)) = Elems(q) \cup {e}
<1>1. \A i \in DOMAIN q : Append(q, e)[i] = q[i] OBVIOUS
<1>2. DOMAIN Append(q, e) = DOMAIN q \cup {Len(q) + 1} OBVIOUS
<1>3. Append(q, e)[Len(q) + 1] = e OBVIOUS
<1> QED BY <1>1, <1>2, <1>3 DEF Elems

-----------------------------------------------------------------------------
(* Types.                                                                  *)

\* Every variable has its type in the initial states.
LEMMA TypeInit == Init => TypeOK
<1> SUFFICES ASSUME Init PROVE TypeOK
  OBVIOUS
<1>1. FlagsOK BY Zenon DEF Init, FlagsOK
<1>2. AgentOK BY DEF Init, AgentOK, NoEnd, Reasons
<1>3. RunOK BY DEF Init, RunOK, Reasons, PCs
<1>4. CallersOK /\ PastOK BY DEF Init, CallersOK, PastOK, Outcomes
<1> QED BY <1>1, <1>2, <1>3, <1>4 DEF TypeOK

\* What raising an event does to the reports.
LEMMA TypeRaise ==
    ASSUME TypeOK, NEW o, Raise(o) \/ RaiseLast(o)
    PROVE  /\ owed' \in BOOLEAN /\ queuedErr' \in BOOLEAN
           /\ fails' \in Nat /\ skipped' \in BOOLEAN
<1>1. fails' \in Nat BY DEF TypeOK, CallersOK, Raise, RaiseLast
<1>2. queuedErr' \in BOOLEAN BY Zenon DEF Raise, RaiseLast
<1>3. owed' \in BOOLEAN BY Zenon DEF TypeOK, FlagsOK, Raise, RaiseLast
<1>4. skipped' \in BOOLEAN
  BY Zenon DEF TypeOK, FlagsOK, Raise, RaiseLast
<1> QED BY <1>1, <1>2, <1>3, <1>4, Zenon

\* A delivery that is woken is one of those that waited.
LEMMA TypeSignalled ==
    ASSUME TypeOK
    PROVE  /\ Signalled \in [Deliveries -> {"new", "check", "wait", "run", "done"}]
           /\ Finished \in [Deliveries -> {"new", "check", "wait", "run", "done"}]
  BY DEF TypeOK, CallersOK, Signalled, Finished

\* What the drains take.
LEMMA TypeQueues ==
    ASSUME TypeOK
    PROVE  /\ Entries(steer) \in Seq(Entry)
           /\ Entries(LastItems) \in Seq(Entry)
           /\ Entries(steer) = <<>> <=> steer = <<>>
           /\ Elems(steer) \in SUBSET Item /\ QueuedItems \in SUBSET Item
<1>1. steer \in Seq(Item) /\ followUp \in Seq(Item)
  BY DEF TypeOK, AgentOK, Item
<1>2. LastItems \in Seq(Item) BY <1>1 DEF LastItems
<1> QED BY <1>1, <1>2, EntriesType DEF Elems, QueuedItems

\* What a batch appends.
LEMMA TypeBatch ==
    ASSUME TypeOK, NEW S \in SUBSET Nat, NEW next,
           BatchCut(S) \/ BatchDone(S, next)
    PROVE  /\ inbox' \in Seq(Entry)
           /\ BatchCut(S) => reason' = "failure"
           /\ owed' \in BOOLEAN /\ queuedErr' \in BOOLEAN
           /\ pc' = IF inbox' = <<>> THEN after' ELSE "append"
           /\ after' = "ending" \/ after' = next
<1>1. CASE BatchCut(S)
  <2>1. PICK done \in SUBSET S : \E outs \in Outputs(done) : Enter(outs, "ending")
    BY <1>1 DEF BatchCut
  <2>2. PICK outs \in Outputs(done) : Enter(outs, "ending") BY <2>1
  <2>3. done \in SUBSET Nat /\ calls \in Nat BY DEF TypeOK, RunOK
  <2>4. outs \in Seq(Entry) BY <2>2, <2>3, OutputsType
  <2>5. owed' \in BOOLEAN /\ queuedErr' \in BOOLEAN
    BY <1>1, Zenon DEF BatchCut
  <2> QED BY <1>1, <2>2, <2>4, <2>5 DEF Enter, BatchCut
<1>2. CASE BatchDone(S, next)
  <2>1. PICK outs \in Outputs(S) : Enter(outs, next)
    BY <1>2 DEF BatchDone
  <2>2. outs \in Seq(Entry)
    BY <2>1, OutputsType DEF TypeOK, AgentOK, RunOK
  <2>3. owed' \in BOOLEAN /\ queuedErr' \in BOOLEAN
    BY <1>2, Zenon DEF BatchDone, TypeOK, FlagsOK
  <2> QED BY <2>1, <2>2, <2>3 DEF Enter, BatchCut
<1> QED BY <1>1, <1>2

\* Every step of the run keeps the types.
LEMMA TypeRunStep == TypeOK /\ RunStep => TypeOK'
<1> SUFFICES ASSUME TypeOK, RunStep PROVE TypeOK'
  OBVIOUS
<1> USE DEF queueVars, stateVars, flagVars, runVars, pathVars,
            callVars, reportVars, pastVars
<1>1. CASE RunStart
  <2>1. FlagsOK' BY <1>1, TypeRaise, Zenon DEF RunStart, TypeOK, FlagsOK
  <2>2. AgentOK' BY <1>1 DEF RunStart, TypeOK, AgentOK
  <2>3. RunOK'
    BY <1>1 DEF RunStart, TypeOK, RunOK, Enter, Stop, PCs, Reasons
  <2>4. CallersOK' BY <1>1, TypeRaise DEF RunStart, TypeOK, CallersOK
  <2>5. PastOK' BY <1>1 DEF RunStart, TypeOK, PastOK
  <2> QED BY <2>1, <2>2, <2>3, <2>4, <2>5 DEF TypeOK
<1>2. CASE ItemStart
  <2>1. FlagsOK'
    BY <1>2, TypeRaise, Zenon DEF ItemStart, TypeOK, FlagsOK
  <2>2. AgentOK' BY <1>2 DEF ItemStart, TypeOK, AgentOK
  <2>3. RunOK'
    <3>1. inbox # <<>> /\ inbox \in Seq(Entry) /\ working \in Seq(Entry)
      BY <1>2 DEF ItemStart, TypeOK, RunOK
    <3>2. Head(inbox) \in Entry /\ Tail(inbox) \in Seq(Entry) BY <3>1
    <3>3. /\ Append(working, Head(inbox)) \in Seq(Entry)
          /\ Append(working, Head(inbox)) # <<>>
      BY <3>1, <3>2, AppendNotEmpty
    <3>4. /\ working' \in Seq(Entry) /\ inbox' \in Seq(Entry)
          /\ pc' \in {"item_end", "ending"}
          /\ pc' = "item_end" => working' # <<>>
          /\ reason' \in Reasons /\ after' = after
      BY <1>2, <3>1, <3>2, <3>3
         DEF ItemStart, TypeOK, RunOK, Stop, Reasons
    <3> QED BY <1>2, <3>4 DEF ItemStart, TypeOK, RunOK, PCs
  <2>4. CallersOK' BY <1>2, TypeRaise DEF ItemStart, TypeOK, CallersOK
  <2>5. PastOK' BY <1>2 DEF ItemStart, TypeOK, PastOK
  <2> QED BY <2>1, <2>2, <2>3, <2>4, <2>5 DEF TypeOK
<1>3. CASE ItemEnd
  <2>1. FlagsOK' BY <1>3, TypeRaise, Zenon DEF ItemEnd, TypeOK, FlagsOK
  <2>2. AgentOK'
    <3>1. working # <<>> /\ working \in Seq(Entry) /\ transcript \in Seq(Entry)
      BY <1>3 DEF ItemEnd, TypeOK, AgentOK, RunOK
    <3>2. working[Len(working)] \in Entry BY <3>1
    <3>3. Append(transcript, working[Len(working)]) \in Seq(Entry)
      BY <3>1, <3>2
    <3> QED BY <1>3, <3>3 DEF ItemEnd, TypeOK, AgentOK
  <2>3. RunOK'
    BY <1>3 DEF ItemEnd, TypeOK, RunOK, Enter, Stop, PCs, Reasons
  <2>4. CallersOK' BY <1>3, TypeRaise DEF ItemEnd, TypeOK, CallersOK
  <2>5. PastOK' BY <1>3 DEF ItemEnd, TypeOK, PastOK
  <2> QED BY <2>1, <2>2, <2>3, <2>4, <2>5 DEF TypeOK
<1>4. CASE RunDrain
  <2>1. FlagsOK'
    BY <1>4, Zenon DEF RunDrain, TypeOK, FlagsOK, DrainSteer
  <2>2. AgentOK'
    BY <1>4 DEF RunDrain, TypeOK, AgentOK, DrainSteer, Drains
  <2>3. RunOK'
    BY <1>4, TypeQueues DEF RunDrain, TypeOK, RunOK, DrainSteer, Enter, PCs
  <2>4. CallersOK' BY <1>4 DEF RunDrain, TypeOK, CallersOK, DrainSteer
  <2>5. PastOK'
    BY <1>4, TypeQueues DEF RunDrain, TypeOK, PastOK, DrainSteer
  <2> QED BY <2>1, <2>2, <2>3, <2>4, <2>5 DEF TypeOK
<1>5. CASE ApprovedBatch
  <2> approved \in SUBSET Nat
    BY DEF TypeOK, RunOK
  <2> \A S \in SUBSET approved : S \in SUBSET Nat
    OBVIOUS
  <2>1. FlagsOK'
    BY <1>5, TypeBatch, Zenon DEF ApprovedBatch, TypeOK, FlagsOK
  <2>2. AgentOK' BY <1>5 DEF ApprovedBatch, TypeOK, AgentOK
  <2>3. RunOK'
    <3>1. /\ inbox' \in Seq(Entry) /\ reason' \in Reasons
          /\ pc' = IF inbox' = <<>> THEN after' ELSE "append"
          /\ after' \in {"ending", "drain"}
      BY <1>5, TypeBatch DEF ApprovedBatch, TypeOK, RunOK, Reasons
    <3> QED BY <1>5, <3>1 DEF ApprovedBatch, TypeOK, RunOK, PCs
  <2>4. CallersOK' BY <1>5 DEF ApprovedBatch, TypeOK, CallersOK
  <2>5. PastOK' BY <1>5 DEF ApprovedBatch, TypeOK, PastOK
  <2> QED BY <2>1, <2>2, <2>3, <2>4, <2>5 DEF TypeOK
<1>6. CASE RunRefused
  <2>1. FlagsOK' BY <1>6, Zenon DEF RunRefused, TypeOK, FlagsOK
  <2>2. AgentOK' BY <1>6 DEF RunRefused, TypeOK, AgentOK
  <2>3. RunOK' BY <1>6 DEF RunRefused, TypeOK, RunOK, Stop, PCs, Reasons
  <2>4. CallersOK' BY <1>6 DEF RunRefused, TypeOK, CallersOK
  <2>5. PastOK' BY <1>6 DEF RunRefused, TypeOK, PastOK
  <2> QED BY <2>1, <2>2, <2>3, <2>4, <2>5 DEF TypeOK
<1>7. CASE TurnTop
  <2>1. FlagsOK' BY <1>7, Zenon DEF TurnTop, TypeOK, FlagsOK
  <2>2. AgentOK' BY <1>7 DEF TurnTop, TypeOK, AgentOK
  <2>3. RunOK'
    <3>1. <<Prompt>> \in Seq(Entry) /\ <<Prompt>> # <<>>
      BY DEF Prompt, Entry
    <3>2. /\ inbox' \in Seq(Entry) /\ reason' \in Reasons
          /\ pc' \in {"append", "turn_start", "ending"}
          /\ pc' = "append" => inbox' # <<>>
          /\ after' \in {"turn_start", after}
      <4>1. CASE UNCHANGED inbox
        BY <1>7, <4>1 DEF TurnTop, TypeOK, RunOK, Enter, Stop, Reasons
      <4>2. CASE Enter(<<Prompt>>, "turn_start") /\ UNCHANGED reason
        BY <3>1, <4>2 DEF TypeOK, RunOK, Enter
      <4> QED BY <1>7, <4>1, <4>2 DEF TurnTop, Stop
    <3>3. turn' \in Nat BY <1>7 DEF TurnTop, TypeOK, RunOK
    <3> QED BY <1>7, <3>2, <3>3 DEF TurnTop, TypeOK, RunOK, PCs
  <2>4. CallersOK' BY <1>7 DEF TurnTop, TypeOK, CallersOK
  <2>5. PastOK' BY <1>7 DEF TurnTop, TypeOK, PastOK
  <2> QED BY <2>1, <2>2, <2>3, <2>4, <2>5 DEF TypeOK
<1>8. CASE TurnStart
  <2>1. FlagsOK'
    BY <1>8, TypeRaise, Zenon DEF TurnStart, TypeOK, FlagsOK
  <2>2. AgentOK' BY <1>8 DEF TurnStart, TypeOK, AgentOK
  <2>3. RunOK' BY <1>8 DEF TurnStart, TypeOK, RunOK, Stop, PCs, Reasons
  <2>4. CallersOK'
    BY <1>8, TypeRaise, TypeSignalled DEF TurnStart, TypeOK, CallersOK
  <2>5. PastOK'
    BY <1>8, ItemsOfType DEF TurnStart, TypeOK, PastOK, RunOK
  <2> QED BY <2>1, <2>2, <2>3, <2>4, <2>5 DEF TypeOK
<1>16. CASE BuildRefused
  <2>1. FlagsOK'
    BY <1>16, TypeRaise, Zenon DEF BuildRefused, TypeOK, FlagsOK
  <2>2. AgentOK' BY <1>16 DEF BuildRefused, TypeOK, AgentOK
  <2>3. RunOK'
    BY <1>16 DEF BuildRefused, TypeOK, RunOK, Stop, PCs, Reasons
  <2>4. CallersOK'
    BY <1>16, TypeRaise DEF BuildRefused, TypeOK, CallersOK
  <2>5. PastOK' BY <1>16 DEF BuildRefused, TypeOK, PastOK
  <2> QED BY <2>1, <2>2, <2>3, <2>4, <2>5 DEF TypeOK
<1>9. CASE ModelTurn
  <2>1. FlagsOK' BY <1>9, Zenon DEF ModelTurn, TypeOK, FlagsOK
  <2>2. AgentOK' BY <1>9 DEF ModelTurn, TypeOK, AgentOK
  <2>3. RunOK'
    <3>1. calls \in Nat BY DEF TypeOK, RunOK
    <3>2. /\ <<>> \in Seq(Entry) /\ <<Answer>> \in Seq(Entry)
          /\ <<Call(calls + 1)>> \in Seq(Entry)
          /\ <<Call(calls + 1), Out(calls + 1)>> \in Seq(Entry)
      BY <3>1 DEF Answer, Call, Out, Entry
    <3>3. /\ inbox' \in Seq(Entry) /\ reason' \in Reasons
          /\ pc' \in {"append", "ending"} /\ (pc' = "append" => inbox' # <<>>)
          /\ after' \in {"turn_end", "batch", "ending", after}
      BY <1>9, <3>2 DEF ModelTurn, TypeOK, RunOK, Enter, Stop, Reasons
    <3> QED BY <1>9, <3>1, <3>3 DEF ModelTurn, TypeOK, RunOK, PCs
  <2>4. CallersOK' BY <1>9 DEF ModelTurn, TypeOK, CallersOK
  <2>5. PastOK' BY <1>9 DEF ModelTurn, TypeOK, PastOK
  <2> QED BY <2>1, <2>2, <2>3, <2>4, <2>5 DEF TypeOK
<1>10. CASE ToolBatch
  <2> calls \in Nat /\ {calls} \in SUBSET Nat /\ {} \in SUBSET Nat
    BY DEF TypeOK, RunOK
  <2>1. FlagsOK'
    BY <1>10, TypeBatch, Zenon DEF ToolBatch, TypeOK, FlagsOK
  <2>2. AgentOK' BY <1>10 DEF ToolBatch, TypeOK, AgentOK
  <2>3. RunOK'
    <3>1. /\ inbox' \in Seq(Entry) /\ reason' \in Reasons
          /\ pc' = IF inbox' = <<>> THEN after' ELSE "append"
          /\ after' \in {"ending", "turn_end"}
      BY <1>10, TypeBatch DEF ToolBatch, TypeOK, RunOK, Reasons
    <3> QED BY <1>10, <3>1 DEF ToolBatch, TypeOK, RunOK, PCs
  <2>4. CallersOK' BY <1>10 DEF ToolBatch, TypeOK, CallersOK
  <2>5. PastOK' BY <1>10 DEF ToolBatch, TypeOK, PastOK
  <2> QED BY <2>1, <2>2, <2>3, <2>4, <2>5 DEF TypeOK
<1>11. CASE TurnEnd
  <2>1. FlagsOK' BY <1>11, TypeRaise, Zenon DEF TurnEnd, TypeOK, FlagsOK
  <2>2. AgentOK' BY <1>11 DEF TurnEnd, TypeOK, AgentOK
  <2>3. RunOK' BY <1>11 DEF TurnEnd, TypeOK, RunOK, Stop, PCs, Reasons
  <2>4. CallersOK' BY <1>11, TypeRaise DEF TurnEnd, TypeOK, CallersOK
  <2>5. PastOK' BY <1>11 DEF TurnEnd, TypeOK, PastOK
  <2> QED BY <2>1, <2>2, <2>3, <2>4, <2>5 DEF TypeOK
<1>12. CASE TurnDecide
  <2>1. FlagsOK'
    BY <1>12, ZenonT(60)
       DEF TurnDecide, TypeOK, FlagsOK, StopClosing, DrainSteer, DrainLast
  <2>2. AgentOK'
    <3>1. /\ steer' \in {steer, <<>>} /\ followUp' \in {followUp, <<>>}
          /\ drains' \in {drains, drains + 1}
      BY <1>12
         DEF TurnDecide, StopClosing, DrainSteer, DrainLast, Drains
    <3>2. UNCHANGED <<seen, aborts, lastEnd, pending, transcript>>
      BY <1>12 DEF TurnDecide
    <3>3. /\ steer' \in Seq(Deliveries \cup Steers)
          /\ followUp' \in Seq(FollowUps) /\ drains' \in Nat
      <4>1. <<>> \in Seq(Deliveries \cup Steers) /\ <<>> \in Seq(FollowUps)
        OBVIOUS
      <4>2. drains \in Nat => drains + 1 \in Nat OBVIOUS
      <4> QED BY <3>1, <4>1, <4>2, Zenon DEF TypeOK, AgentOK
    <3>4. /\ seen' \in Nat /\ aborts' \in Nat /\ pending' \in SUBSET Nat
          /\ lastEnd' \in [run : Nat, reason : Reasons \ {"failure"}]
          /\ transcript' \in Seq(Entry)
      BY <3>2 DEF TypeOK, AgentOK
    <3> QED BY <3>3, <3>4, Zenon DEF AgentOK
  <2>3. RunOK'
    BY <1>12, TypeQueues
       DEF TurnDecide, TypeOK, RunOK, StopClosing, DrainSteer, DrainLast,
           Enter, Stop, PCs, Reasons
  <2>4. CallersOK'
    BY <1>12, TypeSignalled
       DEF TurnDecide, TypeOK, CallersOK, StopClosing, DrainSteer, DrainLast
  <2>5. PastOK'
    BY <1>12, TypeQueues
       DEF TurnDecide, TypeOK, PastOK, StopClosing, DrainSteer, DrainLast
  <2> QED BY <2>1, <2>2, <2>3, <2>4, <2>5 DEF TypeOK
<1>13. CASE RunEnding
  <2>1. FlagsOK' BY <1>13, Zenon DEF RunEnding, TypeOK, FlagsOK
  <2>2. AgentOK' BY <1>13 DEF RunEnding, TypeOK, AgentOK
  <2>3. RunOK'
    BY <1>13 DEF RunEnding, TypeOK, RunOK, EndReason, PCs, Reasons
  <2>4. CallersOK'
    BY <1>13, TypeSignalled DEF RunEnding, TypeOK, CallersOK
  <2>5. PastOK' BY <1>13 DEF RunEnding, TypeOK, PastOK
  <2> QED BY <2>1, <2>2, <2>3, <2>4, <2>5 DEF TypeOK
<1>14. CASE RunEnd
  <2>1. FlagsOK' BY <1>14, TypeRaise, Zenon DEF RunEnd, TypeOK, FlagsOK
  <2>2. AgentOK'
    <3>1. EndPending \in SUBSET Nat
      BY DEF EndPending, Unanswered, TypeOK, RunOK, Entry
    <3>2. [run |-> run, reason |-> reason]
              \in [run : Nat, reason : Reasons \ {"failure"}]
      BY <1>14 DEF RunEnd, TypeOK, RunOK
    <3> QED BY <1>14, <3>1, <3>2 DEF RunEnd, TypeOK, AgentOK
  <2>3. RunOK' BY <1>14 DEF RunEnd, TypeOK, RunOK, PCs
  <2>4. CallersOK' BY <1>14, TypeRaise DEF RunEnd, TypeOK, CallersOK
  <2>5. PastOK' BY <1>14 DEF RunEnd, TypeOK, PastOK
  <2> QED BY <2>1, <2>2, <2>3, <2>4, <2>5 DEF TypeOK
<1>15. CASE RunFinish
  <2>1. FlagsOK' BY <1>15, Zenon DEF RunFinish, TypeOK, FlagsOK
  <2>2. AgentOK' BY <1>15 DEF RunFinish, TypeOK, AgentOK
  <2>3. RunOK' BY <1>15 DEF RunFinish, TypeOK, RunOK, PCs, Reasons
  <2>4. CallersOK'
    BY <1>15, TypeSignalled DEF RunFinish, TypeOK, CallersOK, Outcomes
  <2>5. PastOK'
    BY <1>15, ItemsOfType DEF RunFinish, TypeOK, PastOK, RunOK
  <2> QED BY <2>1, <2>2, <2>3, <2>4, <2>5 DEF TypeOK
<1> QED BY <1>1, <1>2, <1>3, <1>4, <1>5, <1>6, <1>7, <1>8, <1>9, <1>10, <1>11,
     <1>12, <1>13, <1>14, <1>15, <1>16 DEF RunStep

\* A started run keeps the types, given what it is started with.
LEMMA TypeStart ==
    ASSUME TypeOK, NEW items \in Seq(Entry), NEW approve \in SUBSET Nat,
           NEW refuse \in BOOLEAN, Start(items, approve, refuse),
           raced' \in BOOLEAN, stopped' \in SUBSET Deliveries,
           dpc' \in [Deliveries -> {"new", "check", "wait", "run", "done"}],
           host' \in [Hosts -> [op : {"none", "continue", "resume"},
                                calls : SUBSET Nat]],
           UNCHANGED <<mark, outcome, abortOf, aborts>>
    PROVE  TypeOK'
<1> USE DEF queueVars, pastVars
<1>1. FlagsOK' BY Zenon DEF TypeOK, FlagsOK, Start
<1>2. AgentOK' BY DEF TypeOK, AgentOK, Start
<1>3. RunOK' BY SMTT(60) DEF TypeOK, RunOK, AgentOK, Start, PCs, Reasons
<1>4. CallersOK' /\ PastOK' BY DEF TypeOK, CallersOK, PastOK, Start
<1> QED BY <1>1, <1>2, <1>3, <1>4 DEF TypeOK

\* Every step keeps the types.
LEMMA TypeNext == TypeOK /\ [Next]_vars => TypeOK'
<1> SUFFICES ASSUME TypeOK, [Next]_vars PROVE TypeOK'
  OBVIOUS
<1> USE DEF vars, queueVars, stateVars, flagVars, runVars, pathVars,
            callVars, reportVars, pastVars
<1>1. CASE UNCHANGED vars
  BY <1>1 DEF TypeOK, FlagsOK, AgentOK, RunOK, CallersOK, PastOK
<1>2. CASE HostPrompt
  <2>1. PICK outs \in Outputs(pending) : Start(Append(outs, Prompt), {}, FALSE)
    BY <1>2 DEF HostPrompt
  <2>2. outs \in Seq(Entry)
    BY <2>1, OutputsType DEF TypeOK, AgentOK, RunOK
  <2>3. Append(outs, Prompt) \in Seq(Entry) BY <2>2 DEF Prompt, Entry
  <2>4. raced' \in BOOLEAN
    BY <1>2, Zenon DEF HostPrompt, TypeOK, FlagsOK
  <2>5. UNCHANGED <<mark, outcome, abortOf, aborts, host, dpc, stopped>>
    BY <1>2, <2>1 DEF HostPrompt, Start
  <2> QED BY <2>1, <2>3, <2>4, <2>5, TypeStart DEF TypeOK, CallersOK, PastOK
<1>3. ASSUME NEW h \in Hosts, HostStep(h) PROVE TypeOK'
  <2>1. CASE ContinueLook(h)
    <3>1. FlagsOK' BY <2>1, Zenon DEF ContinueLook, TypeOK, FlagsOK
    <3>2. AgentOK' BY <2>1 DEF ContinueLook, TypeOK, AgentOK
    <3>3. RunOK' BY <2>1 DEF ContinueLook, TypeOK, RunOK
    <3>4. CallersOK' BY <2>1 DEF ContinueLook, TypeOK, CallersOK
    <3>5. PastOK' BY <2>1 DEF ContinueLook, TypeOK, PastOK
    <3> QED BY <3>1, <3>2, <3>3, <3>4, <3>5 DEF TypeOK
  <2>2. CASE ContinueStart(h)
    <3>1. raced' \in BOOLEAN
      BY <2>2, Zenon DEF ContinueStart, TypeOK, FlagsOK
    <3>2. /\ Start(<<>>, {}, FALSE) /\ stopped' = stopped
          /\ UNCHANGED <<mark, outcome, abortOf, aborts, dpc>>
          /\ host' = [host EXCEPT ![h].op = "none"]
      BY <2>2 DEF ContinueStart, Start
    <3>3. <<>> \in Seq(Entry) /\ {} \in SUBSET Nat OBVIOUS
    <3> QED BY <3>1, <3>2, <3>3, TypeStart DEF TypeOK, CallersOK, PastOK
  <2>3. CASE ResumeLook(h)
    <3>1. FlagsOK' BY <2>3, Zenon DEF ResumeLook, TypeOK, FlagsOK
    <3>2. AgentOK' BY <2>3 DEF ResumeLook, TypeOK, AgentOK
    <3>3. RunOK' BY <2>3 DEF ResumeLook, TypeOK, RunOK
    <3>4. CallersOK' BY <2>3 DEF ResumeLook, TypeOK, CallersOK, AgentOK
    <3>5. PastOK' BY <2>3 DEF ResumeLook, TypeOK, PastOK
    <3> QED BY <3>1, <3>2, <3>3, <3>4, <3>5 DEF TypeOK
  <2>4. ASSUME NEW approve \in SUBSET host[h].calls, NEW refuse \in BOOLEAN,
               ResumeStart(h, approve, refuse)
        PROVE  TypeOK'
    <3>1. host[h].calls \in SUBSET Nat /\ approve \in SUBSET Nat
      BY DEF TypeOK, CallersOK
    <3>2. PICK outs \in Outputs(host[h].calls \ approve) :
              Start(outs, approve, refuse)
      BY <2>4 DEF ResumeStart, AnswerOutputs
    <3>3. outs \in Seq(Entry)
      BY <3>1, <3>2, OutputsType DEF TypeOK, AgentOK, RunOK
    <3>4. raced' \in BOOLEAN
      BY <2>4, Zenon DEF ResumeStart, TypeOK, FlagsOK
    <3>5. /\ UNCHANGED <<mark, outcome, abortOf, aborts, dpc, stopped>>
          /\ host' = [host EXCEPT ![h] = [op |-> "none", calls |-> {}]]
      BY <2>4, <3>2 DEF ResumeStart, Start
    <3>6. /\ host' \in [Hosts -> [op : {"none", "continue", "resume"},
                                 calls : SUBSET Nat]]
          /\ dpc' \in [Deliveries -> {"new", "check", "wait", "run", "done"}]
          /\ stopped' \in SUBSET Deliveries
      BY <3>5 DEF TypeOK, CallersOK, PastOK
    <3> QED BY <3>1, <3>2, <3>3, <3>4, <3>5, <3>6, TypeStart
  <2>5. CASE StartRefused(h)
    <3>1. FlagsOK' BY <2>5, Zenon DEF StartRefused, TypeOK, FlagsOK
    <3>2. AgentOK' BY <2>5 DEF StartRefused, TypeOK, AgentOK
    <3>3. RunOK' BY <2>5 DEF StartRefused, TypeOK, RunOK
    <3>4. CallersOK' BY <2>5 DEF StartRefused, TypeOK, CallersOK
    <3>5. PastOK' BY <2>5 DEF StartRefused, TypeOK, PastOK
    <3> QED BY <3>1, <3>2, <3>3, <3>4, <3>5 DEF TypeOK
  <2> QED BY <1>3, <2>1, <2>2, <2>3, <2>4, <2>5 DEF HostStep
<1>4. ASSUME NEW i \in Steers, Steer(i) PROVE TypeOK'
  <2>1. FlagsOK' BY <1>4, Zenon DEF Steer, TypeOK, FlagsOK
  <2>2. AgentOK' BY <1>4 DEF Steer, TypeOK, AgentOK
  <2>3. RunOK' BY <1>4 DEF Steer, TypeOK, RunOK
  <2>4. CallersOK' BY <1>4 DEF Steer, TypeOK, CallersOK
  <2>5. PastOK' BY <1>4 DEF Steer, TypeOK, PastOK
  <2> QED BY <2>1, <2>2, <2>3, <2>4, <2>5 DEF TypeOK
<1>5. ASSUME NEW i \in FollowUps, FollowUp(i) PROVE TypeOK'
  <2>1. FlagsOK' BY <1>5, Zenon DEF FollowUp, TypeOK, FlagsOK
  <2>2. AgentOK' BY <1>5 DEF FollowUp, TypeOK, AgentOK
  <2>3. RunOK' BY <1>5 DEF FollowUp, TypeOK, RunOK
  <2>4. CallersOK' BY <1>5 DEF FollowUp, TypeOK, CallersOK
  <2>5. PastOK' BY <1>5 DEF FollowUp, TypeOK, PastOK
  <2> QED BY <2>1, <2>2, <2>3, <2>4, <2>5 DEF TypeOK
<1>6. ASSUME NEW d \in Deliveries,
             AcceptDelivery(d) \/ AcceptInside(d) \/ DeliveryStep(d)
                 \/ SettleCancelled(d)
      PROVE  TypeOK'
  <2>1. CASE AcceptDelivery(d)
    <3>1. FlagsOK'
      BY <2>1, Zenon DEF AcceptDelivery, TypeOK, FlagsOK, Accept
    <3>2. AgentOK' BY <2>1 DEF AcceptDelivery, TypeOK, AgentOK, Accept
    <3>3. RunOK' BY <2>1 DEF AcceptDelivery, TypeOK, RunOK, Accept
    <3>4. CallersOK'
      BY <2>1 DEF AcceptDelivery, TypeOK, CallersOK, Accept, AgentOK
    <3>5. PastOK' BY <2>1 DEF AcceptDelivery, TypeOK, PastOK, Accept
    <3> QED BY <3>1, <3>2, <3>3, <3>4, <3>5 DEF TypeOK
  <2>2. CASE AcceptInside(d)
    <3>1. FlagsOK'
      BY <2>2, Zenon DEF AcceptInside, TypeOK, FlagsOK, Accept
    <3>2. AgentOK' BY <2>2 DEF AcceptInside, TypeOK, AgentOK, Accept
    <3>3. RunOK' BY <2>2 DEF AcceptInside, TypeOK, RunOK, Accept
    <3>4. CallersOK'
      BY <2>2
         DEF AcceptInside, TypeOK, CallersOK, Accept, AgentOK, Outcomes,
             LeftQueued
    <3>5. PastOK' BY <2>2 DEF AcceptInside, TypeOK, PastOK, Accept
    <3> QED BY <3>1, <3>2, <3>3, <3>4, <3>5 DEF TypeOK
  <2>3. CASE SettleWait(d)
    <3>1. FlagsOK' BY <2>3, Zenon DEF SettleWait, TypeOK, FlagsOK
    <3>2. AgentOK' BY <2>3 DEF SettleWait, TypeOK, AgentOK
    <3>3. RunOK' BY <2>3 DEF SettleWait, TypeOK, RunOK
    <3>4. CallersOK' BY <2>3 DEF SettleWait, TypeOK, CallersOK
    <3>5. PastOK' BY <2>3 DEF SettleWait, TypeOK, PastOK
    <3> QED BY <3>1, <3>2, <3>3, <3>4, <3>5 DEF TypeOK
  <2>4. CASE Settle(d)
    <3>1. FlagsOK' BY <2>4, Zenon DEF Settle, TypeOK, FlagsOK
    <3>2. AgentOK' BY <2>4 DEF Settle, TypeOK, AgentOK
    <3>3. RunOK' BY <2>4 DEF Settle, TypeOK, RunOK
    <3>4. CallersOK'
      BY <2>4
         DEF Settle, TypeOK, CallersOK, IdleOutcome, Refusal, Outcomes,
             LeftQueued
    <3>5. PastOK' BY <2>4 DEF Settle, TypeOK, PastOK
    <3> QED BY <3>1, <3>2, <3>3, <3>4, <3>5 DEF TypeOK
  <2>5. CASE SettleStart(d)
    <3>1. raced' \in BOOLEAN
      BY <2>5, Zenon DEF SettleStart, TypeOK, FlagsOK
    <3>2. /\ Start(<<>>, {}, FALSE) /\ stopped' = stopped
          /\ UNCHANGED <<mark, outcome, abortOf, aborts, host>>
          /\ dpc' = [dpc EXCEPT ![d] = "run"]
      BY <2>5 DEF SettleStart, Start
    <3>3. <<>> \in Seq(Entry) /\ {} \in SUBSET Nat OBVIOUS
    <3> QED BY <3>1, <3>2, <3>3, TypeStart DEF TypeOK, CallersOK, PastOK
  <2>6. CASE SettleCancelled(d)
    <3>1. FlagsOK' BY <2>6, Zenon DEF SettleCancelled, TypeOK, FlagsOK
    <3>2. AgentOK' BY <2>6 DEF SettleCancelled, TypeOK, AgentOK
    <3>3. RunOK' BY <2>6 DEF SettleCancelled, TypeOK, RunOK
    <3>4. CallersOK'
      BY <2>6 DEF SettleCancelled, TypeOK, CallersOK, Outcomes
    <3>5. PastOK' BY <2>6 DEF SettleCancelled, TypeOK, PastOK
    <3> QED BY <3>1, <3>2, <3>3, <3>4, <3>5 DEF TypeOK
  <2> QED BY <1>6, <2>1, <2>2, <2>3, <2>4, <2>5, <2>6 DEF DeliveryStep
<1>7. CASE ReportQueued
  <2>1. FlagsOK' BY <1>7, Zenon DEF ReportQueued, TypeOK, FlagsOK
  <2>2. AgentOK' BY <1>7 DEF ReportQueued, TypeOK, AgentOK
  <2>3. RunOK' BY <1>7 DEF ReportQueued, TypeOK, RunOK
  <2>4. CallersOK' BY <1>7 DEF ReportQueued, TypeOK, CallersOK
  <2>5. PastOK' BY <1>7 DEF ReportQueued, TypeOK, PastOK
  <2> QED BY <2>1, <2>2, <2>3, <2>4, <2>5 DEF TypeOK
<1>8. CASE Abort
  <2>1. FlagsOK' BY <1>8, Zenon DEF Abort, TypeOK, FlagsOK
  <2>2. AgentOK' BY <1>8 DEF Abort, TypeOK, AgentOK
  <2>3. RunOK' BY <1>8 DEF Abort, TypeOK, RunOK
  <2>4. CallersOK' BY <1>8 DEF Abort, TypeOK, CallersOK, RunOK
  <2>5. PastOK' BY <1>8 DEF Abort, TypeOK, PastOK
  <2> QED BY <2>1, <2>2, <2>3, <2>4, <2>5 DEF TypeOK
<1>9. CASE AbortCancel
  <2>1. FlagsOK' BY <1>9, Zenon DEF AbortCancel, TypeOK, FlagsOK
  <2>2. AgentOK' BY <1>9 DEF AbortCancel, TypeOK, AgentOK
  <2>3. RunOK' BY <1>9 DEF AbortCancel, TypeOK, RunOK
  <2>4. CallersOK' BY <1>9 DEF AbortCancel, TypeOK, CallersOK
  <2>5. PastOK' BY <1>9 DEF AbortCancel, TypeOK, PastOK
  <2> QED BY <2>1, <2>2, <2>3, <2>4, <2>5 DEF TypeOK
<1>10. CASE ContextDone
  <2>1. FlagsOK' BY <1>10, Zenon DEF ContextDone, TypeOK, FlagsOK
  <2>2. AgentOK' BY <1>10 DEF ContextDone, TypeOK, AgentOK
  <2>3. RunOK' BY <1>10 DEF ContextDone, TypeOK, RunOK
  <2>4. CallersOK' BY <1>10 DEF ContextDone, TypeOK, CallersOK
  <2>5. PastOK' BY <1>10 DEF ContextDone, TypeOK, PastOK
  <2> QED BY <2>1, <2>2, <2>3, <2>4, <2>5 DEF TypeOK
<1>11. CASE Hold
  <2>1. FlagsOK' BY <1>11, Zenon DEF Hold, TypeOK, FlagsOK
  <2>2. AgentOK' BY <1>11 DEF Hold, TypeOK, AgentOK
  <2>3. RunOK' BY <1>11 DEF Hold, TypeOK, RunOK
  <2>4. CallersOK' BY <1>11 DEF Hold, TypeOK, CallersOK
  <2>5. PastOK' BY <1>11 DEF Hold, TypeOK, PastOK
  <2> QED BY <2>1, <2>2, <2>3, <2>4, <2>5 DEF TypeOK
<1>12. CASE Release
  <2>1. FlagsOK' BY <1>12, Zenon DEF Release, TypeOK, FlagsOK
  <2>2. AgentOK' BY <1>12 DEF Release, TypeOK, AgentOK
  <2>3. RunOK' BY <1>12 DEF Release, TypeOK, RunOK
  <2>4. CallersOK' BY <1>12 DEF Release, TypeOK, CallersOK
  <2>5. PastOK' BY <1>12 DEF Release, TypeOK, PastOK
  <2> QED BY <2>1, <2>2, <2>3, <2>4, <2>5 DEF TypeOK
<1>13. CASE RunStep BY <1>13, TypeRunStep
<1> QED BY <1>1, <1>2, <1>3, <1>4, <1>5, <1>6, <1>7, <1>8, <1>9, <1>10, <1>11,
     <1>12, <1>13 DEF Next

\* Type correctness: in every reachable state of the agent, for any sets of
\* items, callers and any bounds, every variable has its type; in
\* particular a RunEnd is never left with an unresolved failure.
THEOREM TypeCorrect == Spec => []TypeOK
<1>1. Init => TypeOK BY TypeInit
<1>2. TypeOK /\ [Next]_vars => TypeOK' BY TypeNext
<1> QED BY <1>1, <1>2, PTL DEF Spec
-----------------------------------------------------------------------------
(* Deliver's mark.                                                         *)

\* A delivery whose outcome is not decided.
Waiting(d) == dpc[d] \in {"check", "wait"}

\* The mark is exact for every delivery that waits, and it is of the past:
\* without the bound a drain could make an old mark current again.
MarkInv ==
    \A d \in Deliveries : Waiting(d) =>
        /\ mark[d].drains <= drains
        /\ drains = mark[d].drains <=> d \in Elems(steer)

\* The kinds of steps, as far as the steer queue, its drains and the
\* deliveries that wait go.
NoneNew == \A d \in Deliveries : Waiting(d)' => Waiting(d)

Quiet == UNCHANGED <<steer, drains, mark>> /\ NoneNew

Accepts(d) ==
    /\ dpc[d] = "new" /\ steer' = Append(steer, d) /\ UNCHANGED drains
    /\ mark' = [mark EXCEPT ![d] = [drains |-> drains, end |-> lastEnd.run,
                                    aborts |-> aborts]]
    /\ \A e \in Deliveries \ {d} : Waiting(e)' => Waiting(e)

Steered(i) == steer' = Append(steer, i) /\ UNCHANGED <<drains, mark, dpc>>

Drained ==
    /\ steer' = <<>> /\ drains' = Drains /\ UNCHANGED mark /\ NoneNew

\* Waking deliveries adds none.
LEMMA SignalledWaits ==
    ASSUME TypeOK, NEW d \in Deliveries
    PROVE  /\ Signalled[d] \in {"check", "wait"} => Waiting(d)
           /\ Finished[d] \in {"check", "wait"} => Waiting(d)
  BY DEF Signalled, Finished, Waiting, TypeOK, CallersOK

\* Every step of the run is quiet or drains the steer queue.
LEMMA RunStepKinds ==
    ASSUME TypeOK, RunStep
    PROVE  Quiet \/ Drained
<1> USE DEF queueVars, stateVars, flagVars, runVars, pathVars,
            callVars, reportVars, pastVars, Quiet, NoneNew, Waiting
<1>1. CASE RunStart BY <1>1 DEF RunStart
<1>2. CASE ItemStart BY <1>2 DEF ItemStart
<1>3. CASE ItemEnd BY <1>3 DEF ItemEnd
<1>4. CASE RunDrain BY <1>4 DEF RunDrain, DrainSteer, Drained
<1>5. CASE ApprovedBatch BY <1>5 DEF ApprovedBatch
<1>6. CASE RunRefused BY <1>6 DEF RunRefused
<1>7. CASE TurnTop BY <1>7 DEF TurnTop
<1>8. CASE TurnStart BY <1>8, SignalledWaits DEF TurnStart
<1>16. CASE BuildRefused BY <1>16 DEF BuildRefused
<1>9. CASE ModelTurn BY <1>9 DEF ModelTurn
<1>10. CASE ToolBatch BY <1>10 DEF ToolBatch
<1>11. CASE TurnEnd BY <1>11 DEF TurnEnd
<1>12. CASE TurnDecide
  <2>1. UNCHANGED mark BY <1>12 DEF TurnDecide
  <2>2. CASE \E why : StopClosing(why)
    BY <2>1, <2>2, SignalledWaits DEF StopClosing
  <2>3. CASE DrainSteer("top") BY <2>1, <2>3 DEF DrainSteer, Drained
  <2>4. CASE DrainLast("top")
    BY <2>1, <2>4, SignalledWaits DEF DrainLast, Drained
  <2> QED BY <1>12, <2>2, <2>3, <2>4 DEF TurnDecide
<1>13. CASE RunEnding BY <1>13, SignalledWaits DEF RunEnding
<1>14. CASE RunEnd BY <1>14 DEF RunEnd
<1>15. CASE RunFinish BY <1>15, SignalledWaits DEF RunFinish
<1> QED BY <1>1, <1>2, <1>3, <1>4, <1>5, <1>6, <1>7, <1>8, <1>9, <1>10, <1>11,
     <1>12, <1>13, <1>14, <1>15, <1>16 DEF RunStep

\* Every step is of one of the kinds.
LEMMA StepKinds ==
    ASSUME TypeOK, [Next]_vars
    PROVE  \/ Quiet \/ Drained
           \/ \E d \in Deliveries : Accepts(d)
           \/ \E i \in Steers : Steered(i)
<1> USE DEF vars, queueVars, stateVars, flagVars, runVars, pathVars,
            callVars, reportVars, pastVars, Quiet, NoneNew, Waiting
<1>1. CASE UNCHANGED vars BY <1>1
<1>2. CASE HostPrompt BY <1>2 DEF HostPrompt, Start
<1>3. ASSUME NEW h \in Hosts, HostStep(h) PROVE Quiet
  BY <1>3 DEF HostStep, ContinueLook, ContinueStart, ResumeLook, ResumeStart,
              StartRefused, Start
<1>4. ASSUME NEW i \in Steers, Steer(i) PROVE Steered(i)
  BY <1>4 DEF Steer, Steered
<1>5. ASSUME NEW i \in FollowUps, FollowUp(i) PROVE Quiet
  BY <1>5 DEF FollowUp
<1>6. ASSUME NEW d \in Deliveries, AcceptDelivery(d) \/ AcceptInside(d)
      PROVE  Accepts(d)
  BY <1>6 DEF AcceptDelivery, AcceptInside, Accept, Accepts, TypeOK, CallersOK
<1>7. ASSUME NEW d \in Deliveries, DeliveryStep(d) \/ SettleCancelled(d)
      PROVE  Quiet
  BY <1>7 DEF DeliveryStep, SettleWait, Settle, SettleStart, SettleCancelled,
              Start, TypeOK, CallersOK
<1>8. CASE ReportQueued \/ Abort \/ AbortCancel \/ ContextDone \/ Hold \/ Release
  BY <1>8 DEF ReportQueued, Abort, AbortCancel, ContextDone, Hold, Release
<1>9. CASE RunStep BY <1>9, RunStepKinds
<1> QED BY <1>1, <1>2, <1>3, <1>4, <1>5, <1>6, <1>7, <1>8, <1>9 DEF Next

\* No step leaves a mark that does not tell where its item is.
LEMMA MarkNext == TypeOK /\ MarkInv /\ [Next]_vars => MarkInv'
<1> SUFFICES ASSUME TypeOK, MarkInv, [Next]_vars PROVE MarkInv'
  OBVIOUS
<1>t. /\ drains \in Nat /\ steer \in Seq(Deliveries \cup Steers)
      /\ mark \in [Deliveries -> [drains : Nat, end : Nat, aborts : Nat]]
  BY DEF TypeOK, AgentOK, CallersOK
<1>1. CASE Quiet BY <1>1 DEF Quiet, NoneNew, MarkInv, Waiting
<1>2. CASE Drained
  <2>1. Elems(steer') = {} BY <1>2 DEF Drained, Elems
  <2>2. steer = <<>> => Elems(steer) = {} BY DEF Elems
  <2>3. steer # <<>> => drains' = drains + 1 BY <1>2 DEF Drained, Drains
  <2>4. steer = <<>> => drains' = drains BY <1>2 DEF Drained, Drains
  <2> QED
    BY <1>2, <1>t, <2>1, <2>2, <2>3, <2>4 DEF Drained, NoneNew, MarkInv, Waiting
<1>3. ASSUME NEW d \in Deliveries, Accepts(d) PROVE MarkInv'
  <2>1. Elems(steer') = Elems(steer) \cup {d}
    BY <1>3, <1>t, ElemsAppend DEF Accepts
  <2>2. mark'[d].drains = drains /\ drains' = drains
    BY <1>3, <1>t DEF Accepts
  <2>3. \A e \in Deliveries \ {d} : mark'[e] = mark[e]
    BY <1>3, <1>t DEF Accepts
  <2> QED BY <1>3, <1>t, <2>1, <2>2, <2>3 DEF Accepts, MarkInv, Waiting
<1>4. ASSUME NEW i \in Steers, Steered(i) PROVE MarkInv'
  <2>1. Elems(steer') = Elems(steer) \cup {i}
    BY <1>4, <1>t, ElemsAppend DEF Steered
  <2>2. i \notin Deliveries BY ItemAssumption
  <2> QED BY <1>4, <2>1, <2>2 DEF Steered, MarkInv, Waiting
<1> QED BY <1>1, <1>2, <1>3, <1>4, StepKinds

\* For any deliveries, runs, drains and aborts, the count of drains that
\* acceptDelivery marks tells settleDelivery where the item is: it is the
\* current one exactly while the item waits in the steer queue.
THEOREM MarkIsExact == Spec => []MarkTracksItem
<1>1. Init => MarkInv BY DEF Init, MarkInv, Waiting
<1>2. MarkInv => MarkTracksItem BY DEF MarkInv, MarkTracksItem, Waiting
<1> QED BY <1>1, <1>2, TypeInit, TypeNext, MarkNext, PTL DEF Spec
-----------------------------------------------------------------------------
(* Deliver's joined outcome.                                               *)

\* Where the loop has appended all it had to.
Clear == {"drain", "approved", "refuse", "top", "turn_start", "model",
          "batch", "turn_end", "decide"}

\* The run's path: a run is in flight exactly while the runner is
\* somewhere, and what it drained is appended before it goes on.
PathInv ==
    /\ running <=> pc # "idle"
    /\ pc # "idle" => after # "idle"
    /\ pc \in Clear => inbox = <<>>
    /\ pc = "idle" => inbox = <<>> /\ working = <<>>

\* The items that were taken from the queue and are accounted for.
Kept == carried \cup dropped \cup ItemsOf(inbox) \cup ItemsOf(working)
        \cup (IF running THEN {} ELSE ItemsOf(transcript))

\* A drain since the accept took the item; a request since that drain
\* carried it.
TakenInv ==
    /\ seen <= drains
    /\ \A d \in Deliveries : Waiting(d) =>
          /\ mark[d].drains < drains => d \in Kept
          /\ mark[d].drains < seen => d \in carried \cup dropped

\* What appending an entry adds to the items.
LEMMA ItemsAppend ==
    ASSUME NEW s \in Seq(Entry), NEW e \in Entry
    PROVE  /\ ItemsOf(s) \subseteq ItemsOf(Append(s, e))
           /\ e.k = "in" => e.id \in ItemsOf(Append(s, e))
<1>1. \A i \in DOMAIN s : i \in DOMAIN Append(s, e) /\ Append(s, e)[i] = s[i]
  OBVIOUS
<1>2. Len(s) + 1 \in DOMAIN Append(s, e) /\ Append(s, e)[Len(s) + 1] = e
  OBVIOUS
<1> QED BY <1>1, <1>2 DEF ItemsOf

\* The items of a list are those of its head and its tail.
LEMMA ItemsTail ==
    ASSUME NEW s \in Seq(Entry), s # <<>>, NEW i \in ItemsOf(s)
    PROVE  i \in ItemsOf(Tail(s)) \/ (Head(s).k = "in" /\ Head(s).id = i)
<1>1. PICK j \in DOMAIN s : s[j].k = "in" /\ s[j].id = i BY DEF ItemsOf
<1>2. CASE j = 1 BY <1>1, <1>2
<1>3. CASE j # 1
  <2>1. j - 1 \in DOMAIN Tail(s) /\ Tail(s)[j - 1] = s[j] BY <1>1, <1>3
  <2> QED BY <1>1, <2>1 DEF ItemsOf
<1> QED BY <1>2, <1>3

\* The empty list holds no item.
LEMMA ItemsNone == ItemsOf(<<>>) = {}
  BY DEF ItemsOf

\* Every step of the run keeps the path.
LEMMA PathRunStep ==
    ASSUME TypeOK, PathInv, RunStep
    PROVE  PathInv'
<1> USE DEF queueVars, stateVars, flagVars, runVars, pathVars,
            callVars, reportVars, pastVars, PathInv, Clear
<1>1. CASE RunStart BY <1>1 DEF RunStart, Enter, Stop
<1>2. CASE ItemStart BY <1>2 DEF ItemStart, Stop
<1>3. CASE ItemEnd BY <1>3 DEF ItemEnd, Enter, Stop
<1>4. CASE RunDrain BY <1>4 DEF RunDrain, DrainSteer, Enter
<1>5. CASE ApprovedBatch
  BY <1>5 DEF ApprovedBatch, BatchCut, BatchDone, Enter
<1>6. CASE RunRefused BY <1>6 DEF RunRefused, Stop
<1>7. CASE TurnTop BY <1>7 DEF TurnTop, Enter, Stop
<1>16. CASE BuildRefused BY <1>16 DEF BuildRefused, Stop
<1>8. CASE TurnStart BY <1>8 DEF TurnStart, Stop
<1>9. CASE ModelTurn BY <1>9 DEF ModelTurn, Enter, Stop
<1>10. CASE ToolBatch BY <1>10 DEF ToolBatch, BatchCut, BatchDone, Enter
<1>11. CASE TurnEnd BY <1>11 DEF TurnEnd, Stop
<1>12. CASE TurnDecide
  BY <1>12 DEF TurnDecide, StopClosing, DrainSteer, DrainLast, Enter, Stop
<1>13. CASE RunEnding BY <1>13 DEF RunEnding
<1>14. CASE RunEnd BY <1>14 DEF RunEnd
<1>15. CASE RunFinish BY <1>15 DEF RunFinish
<1> QED BY <1>1, <1>2, <1>3, <1>4, <1>5, <1>6, <1>7, <1>8, <1>9, <1>10, <1>11,
     <1>12, <1>13, <1>14, <1>15, <1>16 DEF RunStep

\* Outside the run only a start changes where it is.
LEMMA OtherSteps ==
    ASSUME TypeOK, [Next]_vars, ~RunStep
    PROVE  \/ UNCHANGED <<running, pc, after, inbox, working, transcript,
                          carried, dropped, seen>>
           \/ \E items, approve, refuse : Start(items, approve, refuse)
<1> USE DEF vars, queueVars, stateVars, flagVars, runVars, pathVars,
            callVars, reportVars, pastVars
<1>1. CASE UNCHANGED vars BY <1>1
<1>2. CASE HostPrompt BY <1>2 DEF HostPrompt
<1>3. ASSUME NEW h \in Hosts, HostStep(h)
      PROVE  \/ UNCHANGED <<running, pc, after, inbox, working, transcript,
                            carried, dropped, seen>>
             \/ \E items, approve, refuse : Start(items, approve, refuse)
  BY <1>3 DEF HostStep, ContinueLook, ContinueStart, ResumeLook, ResumeStart,
              StartRefused
<1>4. CASE \E i \in Steers : Steer(i) BY <1>4 DEF Steer
<1>5. CASE \E i \in FollowUps : FollowUp(i) BY <1>5 DEF FollowUp
<1>6. ASSUME NEW d \in Deliveries, AcceptDelivery(d) \/ AcceptInside(d)
                 \/ DeliveryStep(d) \/ SettleCancelled(d)
      PROVE  \/ UNCHANGED <<running, pc, after, inbox, working, transcript,
                            carried, dropped, seen>>
             \/ \E items, approve, refuse : Start(items, approve, refuse)
  BY <1>6 DEF AcceptDelivery, AcceptInside, DeliveryStep, SettleWait, Settle,
              SettleStart, SettleCancelled
<1>7. CASE ReportQueued \/ Abort \/ AbortCancel \/ ContextDone \/ Hold \/ Release
  BY <1>7 DEF ReportQueued, Abort, AbortCancel, ContextDone, Hold, Release
<1> QED BY <1>1, <1>2, <1>3, <1>4, <1>5, <1>6, <1>7 DEF Next

\* Every step keeps the path.
LEMMA PathNext == TypeOK /\ PathInv /\ [Next]_vars => PathInv'
<1> SUFFICES ASSUME TypeOK, PathInv, [Next]_vars PROVE PathInv'
  OBVIOUS
<1>1. CASE RunStep BY <1>1, PathRunStep
<1>2. CASE UNCHANGED <<running, pc, after, inbox, working, transcript,
                       carried, dropped, seen>>
  BY <1>2 DEF PathInv
<1>3. ASSUME NEW items, NEW approve, NEW refuse, Start(items, approve, refuse)
      PROVE  PathInv'
  BY <1>3 DEF Start, PathInv, Clear
<1> QED BY <1>1, <1>2, <1>3, OtherSteps

\* What was accounted for stays so.
Grows ==
    /\ Kept \subseteq Kept' /\ carried \subseteq carried'
    /\ dropped \subseteq dropped'

\* What a step of the run does with what it took, and with what a request
\* has carried.
Keeps ==
    /\ Grows
    /\ steer' # steer => Elems(steer) \subseteq Kept'
    /\ \/ seen' = seen
       \/ seen' = drains /\ UNCHANGED drains /\ Kept \subseteq carried' \cup dropped'

\* A step that leaves the lists alone, or only adds to them.
LEMMA KeptUnchanged ==
    ASSUME UNCHANGED <<inbox, working, transcript, carried, dropped, seen, steer>>,
           running <=> running'
    PROVE  Keeps
  BY DEF Keeps, Grows, Kept

\* Where the loop enters a list, it had none left to append.
LEMMA KeptEnter ==
    ASSUME inbox = <<>>, running, running', UNCHANGED <<working, carried, dropped>>,
           NEW q \in Seq(Item), Enter(Entries(q), after') \/ q = <<>>
    PROVE  Grows /\ Elems(q) \subseteq Kept'
<1>1. ItemsOf(inbox) = {} BY ItemsNone
<1>2. Elems(q) \subseteq Kept'
  <2>1. CASE q = <<>> BY <2>1 DEF Elems
  <2>2. CASE Enter(Entries(q), after')
    BY <2>2, EntriesItems DEF Enter, Kept
  <2> QED BY <2>1, <2>2
<1> QED BY <1>1, <1>2 DEF Grows, Kept

\* Every step of the run accounts for what was taken.
LEMMA KeptRunStep ==
    ASSUME TypeOK, PathInv, RunStep
    PROVE  Keeps
<1> USE DEF queueVars, stateVars, flagVars, runVars, pathVars,
            callVars, reportVars, pastVars
<1>t. /\ inbox \in Seq(Entry) /\ working \in Seq(Entry)
      /\ steer \in Seq(Item) /\ followUp \in Seq(Item)
  BY DEF TypeOK, AgentOK, RunOK, Item
<1>0. ItemsOf(<<>>) = {} BY ItemsNone
<1>1. CASE RunStart BY <1>1, KeptUnchanged DEF RunStart, Enter, Stop
<1>2. CASE ItemStart
  <2>1. CASE UNCHANGED <<inbox, working>>
    BY <1>2, <2>1, KeptUnchanged DEF ItemStart
  <2>2. CASE working' = Append(working, Head(inbox)) /\ inbox' = Tail(inbox)
    <3>1. inbox # <<>> /\ Head(inbox) \in Entry
      BY <1>2, <1>t DEF ItemStart, TypeOK, RunOK
    <3>2. ItemsOf(working) \subseteq ItemsOf(working')
      BY <1>t, <2>2, <3>1, ItemsAppend
    <3>3. ItemsOf(inbox) \subseteq ItemsOf(inbox') \cup ItemsOf(working')
      BY <1>t, <2>2, <3>1, ItemsAppend, ItemsTail
    <3>4. /\ UNCHANGED <<carried, dropped, transcript, seen, steer>>
          /\ running <=> running'
      BY <1>2 DEF ItemStart
    <3> QED BY <3>2, <3>3, <3>4 DEF Keeps, Grows, Kept
  <2> QED BY <1>2, <2>1, <2>2 DEF ItemStart, Stop
<1>3. CASE ItemEnd
  <2>1. UNCHANGED <<inbox, working, carried, dropped, seen, steer>>
    BY <1>3 DEF ItemEnd, Enter, Stop
  <2>2. running /\ running' BY <1>3 DEF ItemEnd, PathInv
  <2> QED BY <2>1, <2>2 DEF Keeps, Grows, Kept
<1>c. ASSUME pc \in Clear PROVE inbox = <<>> /\ running
  BY <1>c DEF PathInv, Clear
<1>4. CASE RunDrain
  <2>1. /\ UNCHANGED <<working, carried, dropped, seen>> /\ running' = running
        /\ Enter(Entries(steer), after')
    BY <1>4 DEF RunDrain, DrainSteer, Enter
  <2>2. inbox = <<>> /\ running BY <1>4, <1>c DEF RunDrain, Clear
  <2> QED BY <1>t, <2>1, <2>2, KeptEnter DEF Keeps
<1>5. CASE ApprovedBatch
  <2>1. /\ UNCHANGED <<working, carried, dropped, seen, steer>> /\ running' = running
    BY <1>5 DEF ApprovedBatch
  <2>2. inbox = <<>> /\ running BY <1>5, <1>c DEF ApprovedBatch, Clear
  <2> QED BY <1>0, <2>1, <2>2 DEF Keeps, Grows, Kept
<1>6. CASE RunRefused BY <1>6, KeptUnchanged DEF RunRefused, Stop
<1>7. CASE TurnTop
  <2>1. /\ UNCHANGED <<working, carried, dropped, seen, steer>>
        /\ running' = running
    BY <1>7 DEF TurnTop
  <2>2. inbox = <<>> /\ running BY <1>7, <1>c DEF TurnTop, Clear
  <2> QED BY <1>0, <2>1, <2>2 DEF Keeps, Grows, Kept
<1>16. CASE BuildRefused BY <1>16, KeptUnchanged DEF BuildRefused, Stop
<1>8. CASE TurnStart
  <2>1. CASE UNCHANGED <<seen, carried>>
    BY <1>8, <2>1, KeptUnchanged DEF TurnStart, Stop
  <2>2. CASE /\ seen' = drains
             /\ carried' = carried \cup ItemsOf(working)
    <3>1. inbox = <<>> /\ running BY <1>8, <1>c DEF TurnStart, Clear
    <3>2. UNCHANGED <<inbox, working, dropped, drains, steer>> /\ running' = running
      BY <1>8 DEF TurnStart, Stop
    <3> QED BY <1>0, <2>2, <3>1, <3>2 DEF Keeps, Grows, Kept
  <2> QED BY <1>8, <2>1, <2>2 DEF TurnStart
<1>9. CASE ModelTurn
  <2>1. /\ UNCHANGED <<working, carried, dropped, seen, steer>> /\ running' = running
    BY <1>9 DEF ModelTurn
  <2>2. inbox = <<>> /\ running BY <1>9, <1>c DEF ModelTurn, Clear
  <2> QED BY <1>0, <2>1, <2>2 DEF Keeps, Grows, Kept
<1>10. CASE ToolBatch
  <2>1. /\ UNCHANGED <<working, carried, dropped, seen, steer>> /\ running' = running
    BY <1>10 DEF ToolBatch
  <2>2. inbox = <<>> /\ running BY <1>10, <1>c DEF ToolBatch, Clear
  <2> QED BY <1>0, <2>1, <2>2 DEF Keeps, Grows, Kept
<1>11. CASE TurnEnd BY <1>11, KeptUnchanged DEF TurnEnd, Stop
<1>12. CASE TurnDecide
  <2>1. /\ UNCHANGED <<working, carried, dropped, seen>> /\ running' = running
    BY <1>12 DEF TurnDecide
  <2>2. inbox = <<>> /\ running BY <1>12, <1>c DEF TurnDecide, Clear
  <2>3. CASE \E why : StopClosing(why)
    BY <1>0, <2>1, <2>2, <2>3 DEF StopClosing, Keeps, Grows, Kept
  <2>4. CASE DrainSteer("top")
    <3>1. Enter(Entries(steer), after') BY <2>4 DEF DrainSteer, Enter
    <3> QED BY <1>t, <2>1, <2>2, <3>1, KeptEnter DEF Keeps
  <2>5. CASE DrainLast("top")
    <3>1. steer \o followUp \in Seq(Item) BY <1>t
    <3>2. Elems(steer) \subseteq Elems(steer \o followUp)
      <4>1. \A i \in DOMAIN steer : /\ i \in DOMAIN (steer \o followUp)
                                    /\ (steer \o followUp)[i] = steer[i]
        BY <1>t
      <4> QED BY <4>1 DEF Elems
    <3>3. CASE steer = <<>> /\ followUp = <<>>
      BY <1>0, <2>1, <2>2, <2>5, <3>3 DEF DrainLast, Keeps, Grows, Kept
    <3>4. CASE ~(steer = <<>> /\ followUp = <<>>)
      <4>1. Enter(Entries(steer \o followUp), after')
        BY <2>5, <3>4 DEF DrainLast, LastItems, Enter
      <4> QED BY <2>1, <2>2, <3>1, <3>2, <4>1, KeptEnter DEF Keeps
    <3> QED BY <3>3, <3>4
  <2> QED BY <1>12, <2>3, <2>4, <2>5 DEF TurnDecide
<1>13. CASE RunEnding BY <1>13, KeptUnchanged DEF RunEnding
<1>14. CASE RunEnd BY <1>14, KeptUnchanged DEF RunEnd
<1>15. CASE RunFinish
  <2>1. /\ UNCHANGED <<transcript, carried, seen, steer>>
        /\ running' = FALSE
        /\ dropped' = dropped \cup
              ((ItemsOf(inbox) \cup ItemsOf(working)) \ ItemsOf(transcript))
    BY <1>15 DEF RunFinish
  <2>2. running BY <1>15 DEF RunFinish, PathInv
  <2> QED BY <2>1, <2>2 DEF Keeps, Grows, Kept
<1> QED BY <1>1, <1>2, <1>3, <1>4, <1>5, <1>6, <1>7, <1>8, <1>9, <1>10, <1>11,
     <1>12, <1>13, <1>14, <1>15, <1>16 DEF RunStep

\* Every step accounts for what was taken.
LEMMA KeptNext ==
    ASSUME TypeOK, PathInv, [Next]_vars
    PROVE  /\ Grows
           /\ Drained => Elems(steer) \subseteq Kept'
           /\ \/ seen' = seen
              \/ /\ seen' = drains /\ UNCHANGED drains
                 /\ Kept \subseteq carried' \cup dropped'
<1>1. CASE RunStep
  <2>1. steer = <<>> => Elems(steer) = {} BY DEF Elems
  <2> QED BY <1>1, <2>1, KeptRunStep DEF Keeps, Drained
<1>2. CASE ~RunStep
  <2>1. Drained => Elems(steer) = {}
    <3>1. CASE steer' = steer BY <3>1 DEF Drained, Elems
    <3>2. ASSUME NEW i \in Item, steer' = Append(steer, i) PROVE ~Drained
      <4>1. steer \in Seq(Item) BY DEF TypeOK, AgentOK, Item
      <4> QED BY <3>2, <4>1, AppendNotEmpty DEF Drained
    <3>3. \/ steer' = steer \/ \E i \in Item : steer' = Append(steer, i)
      BY <1>2 DEF Next, vars, queueVars, HostPrompt, HostStep, ContinueLook,
              ContinueStart, ResumeLook, ResumeStart, StartRefused, Start,
              Steer, FollowUp, AcceptDelivery, AcceptInside, Accept,
              DeliveryStep, SettleWait, Settle, SettleStart, SettleCancelled,
              ReportQueued, Abort, AbortCancel, ContextDone, Hold, Release,
              Item
    <3> QED BY <3>1, <3>2, <3>3
  <2>2. CASE UNCHANGED <<running, pc, after, inbox, working, transcript,
                         carried, dropped, seen>>
    BY <2>1, <2>2 DEF Grows, Kept
  <2>3. ASSUME NEW items, NEW approve, NEW refuse, Start(items, approve, refuse)
        PROVE  Grows /\ seen' = seen
    <3>1. inbox = <<>> /\ working = <<>> /\ ~running /\ running'
      BY <2>3 DEF Start, PathInv
    <3>2. working' = transcript /\ UNCHANGED <<carried, dropped, seen>>
      BY <2>3 DEF Start, pastVars
    <3> QED BY <3>1, <3>2, ItemsNone DEF Grows, Kept
  <2> QED BY <1>2, <2>1, <2>2, <2>3, OtherSteps
<1> QED BY <1>1, <1>2

\* A drain keeps what it took, and a request carries it.
LEMMA TakenNext ==
    TypeOK /\ MarkInv /\ PathInv /\ TakenInv /\ [Next]_vars => TakenInv'
<1> SUFFICES ASSUME TypeOK, MarkInv, PathInv, TakenInv, [Next]_vars
             PROVE  TakenInv'
  OBVIOUS
<1>t. /\ drains \in Nat /\ seen \in Nat
      /\ mark \in [Deliveries -> [drains : Nat, end : Nat, aborts : Nat]]
  BY DEF TypeOK, AgentOK, CallersOK
<1>1. \A d \in Deliveries : Waiting(d)' =>
          \/ /\ Waiting(d) /\ mark'[d] = mark[d]
             /\ mark[d].drains < drains' => d \in Kept'
          \/ mark'[d].drains = drains /\ drains' = drains
  <2>1. CASE Quiet BY <2>1, KeptNext DEF Quiet, NoneNew, TakenInv, Grows
  <2>2. CASE Drained
    <3>1. \A d \in Deliveries : Waiting(d) =>
              mark[d].drains < drains \/ d \in Elems(steer)
      BY <1>t DEF MarkInv
    <3> QED BY <2>2, <3>1, KeptNext DEF Drained, NoneNew, TakenInv, Grows
  <2>3. ASSUME NEW e \in Deliveries, Accepts(e), NEW d \in Deliveries, Waiting(d)'
        PROVE  \/ /\ Waiting(d) /\ mark'[d] = mark[d]
                  /\ mark[d].drains < drains' => d \in Kept'
               \/ mark'[d].drains = drains /\ drains' = drains
    <3>1. CASE d = e BY <1>t, <2>3, <3>1 DEF Accepts
    <3>2. CASE d # e
      BY <1>t, <2>3, <3>2, KeptNext DEF Accepts, TakenInv, Grows
    <3> QED BY <3>1, <3>2
  <2>4. CASE \E i \in Steers : Steered(i)
    BY <2>4, KeptNext DEF Steered, TakenInv, Waiting, Grows
  <2> QED BY <2>1, <2>2, <2>3, <2>4, StepKinds
<1>2. drains <= drains' /\ drains' \in Nat
  <2>1. drains' \in {drains, drains + 1}
    BY StepKinds DEF Quiet, Drained, Drains, Accepts, Steered
  <2> QED BY <1>t, <2>1
<1>3. CASE seen' = seen
  BY <1>t, <1>1, <1>2, <1>3, KeptNext DEF TakenInv, Grows
<1>4. CASE /\ seen' = drains /\ UNCHANGED drains
           /\ Kept \subseteq carried' \cup dropped'
  BY <1>t, <1>1, <1>2, <1>4 DEF TakenInv
<1> QED BY <1>3, <1>4, KeptNext

\* Only a delivery whose item a request has carried comes to be joined.
LEMMA JoinedNext ==
    TypeOK /\ PathInv /\ TakenInv /\ JoinedWasCarried /\ [Next]_vars
        => JoinedWasCarried'
<1> SUFFICES ASSUME TypeOK, PathInv, TakenInv, JoinedWasCarried, [Next]_vars,
                    NEW d \in Deliveries, outcome'[d] = "joined"
             PROVE  d \in carried' \cup dropped'
  BY DEF JoinedWasCarried
<1>1. outcome[d] = "joined" \/ (Waiting(d) /\ Seen(d))
  <2> USE DEF vars, queueVars, stateVars, flagVars, runVars, pathVars,
              callVars, reportVars, pastVars
  <2>t. outcome \in [Deliveries -> Outcomes] BY DEF TypeOK, CallersOK
  <2>1. CASE UNCHANGED outcome BY <2>1
  <2>2. ASSUME NEW e \in Deliveries, AcceptInside(e)
        PROVE  outcome[d] = "joined"
    BY <2>t, <2>2 DEF AcceptInside
  <2>3. ASSUME NEW e \in Deliveries, Settle(e)
        PROVE  outcome[d] = "joined" \/ (Waiting(d) /\ Seen(d))
    <3>1. IdleOutcome(e) # "joined" BY DEF IdleOutcome, Refusal
    <3> QED BY <2>t, <2>3, <3>1 DEF Settle, Waiting
  <2>4. ASSUME NEW e \in Deliveries, SettleCancelled(e)
        PROVE  outcome[d] = "joined"
    BY <2>t, <2>4 DEF SettleCancelled
  <2>5. CASE RunFinish BY <2>t, <2>5 DEF RunFinish
  <2>6. \/ UNCHANGED outcome \/ RunFinish
        \/ \E e \in Deliveries :
              AcceptInside(e) \/ Settle(e) \/ SettleCancelled(e)
    BY DEF Next, RunStep, RunStart, ItemStart, ItemEnd, RunDrain,
           ApprovedBatch, RunRefused, TurnTop, BuildRefused, TurnStart,
           ModelTurn, ToolBatch, TurnEnd, TurnDecide, RunEnding, RunEnd, HostPrompt,
           HostStep, ContinueLook, ContinueStart, ResumeLook, ResumeStart,
           StartRefused, Steer, FollowUp, AcceptDelivery, DeliveryStep,
           SettleWait, SettleStart, ReportQueued, Abort, AbortCancel,
           ContextDone, Hold, Release
  <2> QED BY <2>1, <2>2, <2>3, <2>4, <2>5, <2>6
<1>2. d \in carried \cup dropped
  BY <1>1 DEF TakenInv, Seen, JoinedWasCarried, TypeOK, AgentOK, CallersOK
<1> QED BY <1>2, KeptNext DEF Grows

\* What settleDelivery tells from two counters is true of the item: a
\* delivery that returns joined has had its item in a request, or a failing
\* subscriber made the run lose it, for any interleaving of deliveries,
\* steers, runs, aborts and failures.
THEOREM JoinedIsTrue == Spec => []JoinedWasCarried
<1>1. Init => PathInv BY DEF Init, PathInv, Clear
<1>2. Init => TakenInv BY DEF Init, TakenInv, Waiting
<1>3. Init => MarkInv BY DEF Init, MarkInv, Waiting
<1>4. Init => JoinedWasCarried BY DEF Init, JoinedWasCarried
<1> QED
  BY <1>1, <1>2, <1>3, <1>4, TypeInit, TypeNext, MarkNext, PathNext, TakenNext,
     JoinedNext, PTL DEF Spec

-----------------------------------------------------------------------------
(* The inductive invariants.                                               *)

\* The queued items of a list are distinct.
Distinct(s) == \A i, j \in DOMAIN s : s[i] = s[j] /\ s[i].k = "in" => i = j

\* A list with no item that was queued.
NoItems(s) == \A i \in DOMAIN s : s[i].k # "in"

\* An item is in one place, and the lists of the run and of the agent hold
\* the same ones, but for the entry whose item_end is being raised.
PlaceInv ==
    /\ ItemInOnePlace
    /\ \A d \in Deliveries : dpc[d] = "new" <=> d \notin Whereabouts
    /\ carried \subseteq ItemsOf(working) \cup ItemsOf(transcript) \cup dropped
    /\ running => ItemsOf(transcript) \subseteq ItemsOf(working)
    /\ pc = "item_end" /\ working[Len(working)].k = "in" =>
          working[Len(working)].id \notin ItemsOf(transcript)

\* Nothing that was taken is left out of the agent's transcript, but for
\* the entry whose item_end is being raised.
NoneFailed ==
    /\ ~queuedErr
    /\ pc \in {"ending", "run_end", "finish"} => inbox = <<>>
    /\ running /\ pc # "item_end" => ItemsOf(working) \subseteq ItemsOf(transcript)
    /\ pc = "item_end" =>
          \A i \in DOMAIN working : i < Len(working) /\ working[i].k = "in" =>
              working[i].id \in ItemsOf(transcript)

\* It is so until a subscriber fails.
FailInv == fails = 0 => NoneFailed

\* The reasons of a run that the loop decided to stop.
Stops == {"done", "input_required", "terminated", "halted", "max_turns"}

Appending(next) == pc \in {"append", "item_end"} /\ after \in next

\* Where the loop goes on once it has appended what it had to.
Resumes == {"approved", "refuse", "drain", "top", "turn_start", "batch",
            "turn_end", "ending"}

\* What a run took it has appended, or has yet to, and a request carries it
\* before the loop decides on a stop.
StopInv ==
    /\ pc \in {"run_start", "append", "item_end"} => after \in Resumes
    /\ reason # "none" => \/ pc \in {"ending", "run_end", "finish"}
                          \/ Appending({"ending"})
    /\ reason \in Stops => taken \subseteq carried
    /\ (\/ pc \in {"model", "batch", "turn_end", "decide"}
        \/ Appending({"batch", "turn_end"})) => taken \subseteq carried
    /\ pc \in {"run_start", "approved"} \/ Appending({"approved"}) => taken = {}
    /\ taken \subseteq carried \cup ItemsOf(inbox) \cup ItemsOf(working)

\* An abort that found a delivery waiting is one its mark does not know of.
AbortInv ==
    \A d \in Deliveries :
        /\ Waiting(d) => /\ mark[d].aborts <= aborts
                         /\ d \in stopped => mark[d].aborts < aborts
        /\ d \in stopped => dpc[d] # "new"

\* A delivery is answered when it is done.
AnswerInv == \A d \in Deliveries : dpc[d] # "done" => outcome[d] = "none"

-----------------------------------------------------------------------------
(* Lists of entries and of items.                                          *)

\* An entry is its kind and what it names.
LEMMA EntryIs ==
    ASSUME NEW e \in Entry, NEW f \in Entry, e.k = f.k, e.id = f.id
    PROVE  e = f
  BY DEF Entry

\* What appending an entry does to the items of a list.
LEMMA AppendItems ==
    ASSUME NEW s \in Seq(Entry), NEW e \in Entry
    PROVE  /\ e.k = "in" => ItemsOf(Append(s, e)) = ItemsOf(s) \cup {e.id}
           /\ e.k # "in" => ItemsOf(Append(s, e)) = ItemsOf(s)
           /\ Append(s, e)[Len(Append(s, e))] = e
<1>1. \A i \in DOMAIN s : i \in DOMAIN Append(s, e) /\ Append(s, e)[i] = s[i]
  OBVIOUS
<1>2. /\ Len(s) + 1 \in DOMAIN Append(s, e) /\ Append(s, e)[Len(s) + 1] = e
      /\ Len(Append(s, e)) = Len(s) + 1
  OBVIOUS
<1>3. DOMAIN Append(s, e) = DOMAIN s \cup {Len(s) + 1} OBVIOUS
<1> QED BY <1>1, <1>2, <1>3 DEF ItemsOf

\* Appending an item that a list does not hold leaves its items distinct.
LEMMA AppendDistinct ==
    ASSUME NEW s \in Seq(Entry), NEW e \in Entry, Distinct(s),
           e.k = "in" => e.id \notin ItemsOf(s)
    PROVE  Distinct(Append(s, e))
<1>1. \A i \in DOMAIN s : Append(s, e)[i] = s[i] OBVIOUS
<1>2. Append(s, e)[Len(s) + 1] = e OBVIOUS
<1>3. DOMAIN Append(s, e) = DOMAIN s \cup {Len(s) + 1} OBVIOUS
<1>4. \A i \in DOMAIN s : s[i].k = "in" => s[i] # e BY DEF ItemsOf
<1> QED BY <1>1, <1>2, <1>3, <1>4 DEF Distinct

\* The items of a list without repetition are those of its head, and those
\* of its tail, which does not hold the head's.
LEMMA TailItems ==
    ASSUME NEW s \in Seq(Entry), s # <<>>, Distinct(s)
    PROVE  /\ Head(s) \in Entry /\ Tail(s) \in Seq(Entry)
           /\ Distinct(Tail(s))
           /\ Head(s).k = "in" =>
                /\ ItemsOf(s) = ItemsOf(Tail(s)) \cup {Head(s).id}
                /\ Head(s).id \notin ItemsOf(Tail(s))
           /\ Head(s).k # "in" => ItemsOf(s) = ItemsOf(Tail(s))
<1>1. Len(s) \in Nat /\ Len(s) > 0 /\ DOMAIN s = 1..Len(s) OBVIOUS
<1>2. /\ Tail(s) \in Seq(Entry) /\ DOMAIN Tail(s) = 1..(Len(s) - 1)
      /\ \A i \in DOMAIN Tail(s) : Tail(s)[i] = s[i + 1] /\ i + 1 \in DOMAIN s
  BY <1>1
<1>3. Head(s) = s[1] /\ Head(s) \in Entry BY <1>1
<1>4. Distinct(Tail(s)) BY <1>1, <1>2 DEF Distinct
<1>5. \A i \in DOMAIN s : i # 1 => i - 1 \in DOMAIN Tail(s)
                                   /\ Tail(s)[i - 1] = s[i]
  BY <1>1, <1>2
<1>6. ItemsOf(Tail(s)) \subseteq ItemsOf(s) BY <1>2 DEF ItemsOf
<1>7. Head(s).k = "in" => Head(s).id \in ItemsOf(s)
  BY <1>1, <1>3 DEF ItemsOf
<1>8. \A x \in ItemsOf(s) : x \in ItemsOf(Tail(s))
                            \/ (Head(s).k = "in" /\ Head(s).id = x)
  BY ItemsTail
<1>9. ASSUME Head(s).k = "in", Head(s).id \in ItemsOf(Tail(s)) PROVE FALSE
  <2>1. PICK i \in DOMAIN Tail(s) : Tail(s)[i].k = "in"
                                    /\ Tail(s)[i].id = Head(s).id
    BY <1>9 DEF ItemsOf
  <2>2. Tail(s)[i] = s[i + 1] /\ i + 1 \in DOMAIN s /\ s[i + 1] \in Entry
    BY <1>2, <2>1
  <2>3. s[i + 1] = s[1] BY <1>3, <1>9, <2>1, <2>2, EntryIs
  <2> QED BY <1>1, <1>2, <1>3, <1>9, <2>2, <2>3 DEF Distinct
<1> QED BY <1>2, <1>3, <1>4, <1>6, <1>7, <1>8, <1>9

\* A list with no queued item.
LEMMA NoItemsOf ==
    ASSUME NEW s, NoItems(s)
    PROVE  ItemsOf(s) = {} /\ Distinct(s)
  BY DEF NoItems, ItemsOf, Distinct

\* A list of outputs, with a prompt after it or not, has none.
LEMMA OutputsNone ==
    ASSUME calls \in Nat, NEW S \in SUBSET Nat, NEW outs \in Outputs(S)
    PROVE  NoItems(outs) /\ NoItems(Append(outs, Prompt))
<1>1. PICK t : outs = [i \in DOMAIN t |-> Out(t[i])] BY DEF Outputs
<1>2. NoItems(outs) BY <1>1 DEF NoItems, Out
<1>3. outs \in Seq(Entry) /\ Prompt \in Entry /\ Prompt.k = "prompt"
  BY OutputsType DEF Prompt, Entry
<1>4. /\ \A i \in DOMAIN outs : Append(outs, Prompt)[i] = outs[i]
      /\ Append(outs, Prompt)[Len(outs) + 1] = Prompt
      /\ DOMAIN Append(outs, Prompt) = DOMAIN outs \cup {Len(outs) + 1}
  BY <1>3
<1> QED BY <1>2, <1>3, <1>4 DEF NoItems

\* A queue without repetition.
Once(q) == \A i, j \in DOMAIN q : q[i] = q[j] => i = j

\* The entries of a queue without repetition are distinct.
LEMMA EntriesDistinct ==
    ASSUME NEW q \in Seq(Item), Once(q)
    PROVE  Distinct(Entries(q))
<1>1. DOMAIN Entries(q) = DOMAIN q /\ \A i \in DOMAIN q : Entries(q)[i].id = q[i]
  BY DEF Entries, In
<1> QED BY <1>1 DEF Distinct, Once

\* Appending what a queue does not hold leaves it without repetition.
LEMMA AppendOnce ==
    ASSUME NEW T, NEW q \in Seq(T), NEW e \in T, Once(q), e \notin Elems(q)
    PROVE  Once(Append(q, e))
<1>1. \A i \in DOMAIN q : Append(q, e)[i] = q[i] OBVIOUS
<1>2. Append(q, e)[Len(q) + 1] = e OBVIOUS
<1>3. DOMAIN Append(q, e) = DOMAIN q \cup {Len(q) + 1} OBVIOUS
<1> QED BY <1>1, <1>2, <1>3 DEF Once, Elems

\* What two queues hold, one after the other does.
LEMMA ElemsConcat ==
    ASSUME NEW q \in Seq(Item), NEW r \in Seq(Item)
    PROVE  Elems(q) \cup Elems(r) \subseteq Elems(q \o r)
<1>1. \A i \in DOMAIN q : i \in DOMAIN (q \o r) /\ (q \o r)[i] = q[i]
  OBVIOUS
<1>2. \A i \in DOMAIN r : /\ i + Len(q) \in DOMAIN (q \o r)
                          /\ (q \o r)[i + Len(q)] = r[i]
  OBVIOUS
<1> QED BY <1>1, <1>2 DEF Elems

\* Two queues with nothing in common, one after the other.
LEMMA ConcatOnce ==
    ASSUME NEW q \in Seq(Item), NEW r \in Seq(Item), Once(q), Once(r),
           Elems(q) \cap Elems(r) = {}
    PROVE  /\ q \o r \in Seq(Item) /\ Once(q \o r)
           /\ Elems(q \o r) = Elems(q) \cup Elems(r)
<1>1. /\ Len(q) \in Nat /\ Len(r) \in Nat /\ q \o r \in Seq(Item)
      /\ DOMAIN q = 1..Len(q) /\ DOMAIN r = 1..Len(r)
      /\ DOMAIN (q \o r) = 1..(Len(q) + Len(r))
  OBVIOUS
<1>2. /\ \A i \in DOMAIN q : (q \o r)[i] = q[i] /\ i \in DOMAIN (q \o r)
      /\ \A i \in DOMAIN (q \o r) : i \notin DOMAIN q =>
            i - Len(q) \in DOMAIN r /\ (q \o r)[i] = r[i - Len(q)]
      /\ \A i \in DOMAIN r : /\ i + Len(q) \in DOMAIN (q \o r)
                             /\ (q \o r)[i + Len(q)] = r[i]
  BY <1>1
<1>3. Elems(q \o r) = Elems(q) \cup Elems(r)
  <2> DEFINE c == q \o r
  <2>1. /\ \A i \in DOMAIN q : c[i] = q[i] /\ i \in DOMAIN c
        /\ \A i \in DOMAIN c : i \notin DOMAIN q =>
              i - Len(q) \in DOMAIN r /\ c[i] = r[i - Len(q)]
        /\ \A i \in DOMAIN r : i + Len(q) \in DOMAIN c /\ c[i + Len(q)] = r[i]
    BY <1>2
  <2> HIDE DEF c
  <2>2. Elems(c) \subseteq Elems(q) \cup Elems(r) BY <2>1 DEF Elems
  <2>3. Elems(q) \subseteq Elems(c) /\ Elems(r) \subseteq Elems(c)
    BY <2>1 DEF Elems
  <2>4. Elems(c) = Elems(q) \cup Elems(r) BY <2>2, <2>3
  <2> QED BY <2>4 DEF c
<1>4. \A i \in DOMAIN q, j \in DOMAIN r : q[i] # r[j] BY DEF Elems
<1>5. Once(q \o r)
  <2> SUFFICES ASSUME NEW i \in DOMAIN (q \o r), NEW j \in DOMAIN (q \o r),
                      (q \o r)[i] = (q \o r)[j]
               PROVE  i = j
    BY DEF Once
  <2>1. CASE i \in DOMAIN q /\ j \in DOMAIN q BY <1>2, <2>1 DEF Once
  <2>2. CASE i \notin DOMAIN q /\ j \notin DOMAIN q
    <3>1. i - Len(q) = j - Len(q) BY <1>2, <2>2 DEF Once
    <3> QED BY <1>1, <3>1
  <2>3. CASE i \in DOMAIN q /\ j \notin DOMAIN q BY <1>2, <1>4, <2>3
  <2>4. CASE i \notin DOMAIN q /\ j \in DOMAIN q BY <1>2, <1>4, <2>4
  <2> QED BY <2>1, <2>2, <2>3, <2>4
<1> QED BY <1>1, <1>3, <1>5

-----------------------------------------------------------------------------
(* The kinds of steps, as far as the places of items go.                   *)

SameNew == \A d \in Deliveries : dpc'[d] = "new" <=> dpc[d] = "new"

\* The lists keep their items.
Still ==
    /\ UNCHANGED <<steer, followUp, working, transcript, dropped, carried,
                   running>>
    /\ inbox' = inbox \/ (inbox = <<>> /\ NoItems(inbox'))
    /\ SameNew /\ (pc' = "item_end" => pc = "item_end")

\* An item is queued that was nowhere.
Queues(i) ==
    /\ \/ steer' = Append(steer, i) /\ UNCHANGED followUp
          /\ i \in Deliveries \cup Steers
       \/ followUp' = Append(followUp, i) /\ UNCHANGED steer
          /\ i \in FollowUps
    /\ i \notin Whereabouts
    /\ UNCHANGED <<inbox, working, transcript, dropped, carried, running, pc>>
    /\ \A d \in Deliveries : dpc'[d] = "new" <=> dpc[d] = "new" /\ d # i

\* The loop takes the steer queue, or both.
DrainsInto(q) ==
    /\ inbox = <<>> /\ inbox' = Entries(q) /\ steer' = <<>>
    /\ \/ q = steer /\ UNCHANGED followUp
       \/ q = steer \o followUp /\ followUp' = <<>>
    /\ UNCHANGED <<working, transcript, dropped, carried, running>>
    /\ SameNew /\ pc' # "item_end"

\* A run starts on a copy of the transcript.
Begins ==
    /\ ~running /\ running' /\ working' = transcript /\ NoItems(inbox')
    /\ inbox = <<>> /\ working = <<>>
    /\ UNCHANGED <<steer, followUp, transcript, dropped, carried>>
    /\ SameNew /\ pc' # "item_end"

\* The loop appends an entry, and the agent takes it.
Appends ==
    /\ inbox # <<>> /\ pc' = "item_end" /\ pc # "item_end" /\ running
    /\ working' = Append(working, Head(inbox)) /\ inbox' = Tail(inbox)
    /\ UNCHANGED <<steer, followUp, transcript, dropped, carried, running>>
    /\ SameNew

Takes ==
    /\ pc = "item_end" /\ working # <<>> /\ pc' # "item_end" /\ running
    /\ transcript' = Append(transcript, working[Len(working)])
    /\ UNCHANGED <<steer, followUp, inbox, working, dropped, carried, running>>
    /\ SameNew

\* A request goes out.
Carries ==
    /\ inbox = <<>> /\ running /\ pc # "item_end" /\ pc' # "item_end"
    /\ carried' = carried \cup ItemsOf(working)
    /\ UNCHANGED <<steer, followUp, inbox, working, transcript, dropped,
                   running>>
    /\ SameNew

\* A run is over.
Finishes ==
    /\ running /\ ~running' /\ pc = "finish" /\ pc' # "item_end"
    /\ dropped' = dropped \cup
          ((ItemsOf(inbox) \cup ItemsOf(working)) \ ItemsOf(transcript))
    /\ inbox' = <<>> /\ working' = <<>>
    /\ UNCHANGED <<steer, followUp, transcript, carried>>
    /\ SameNew

PlaceStep ==
    \/ Still \/ (\E i \in Item : Queues(i)) \/ (\E q \in Seq(Item) : DrainsInto(q))
    \/ Begins \/ Appends \/ Takes \/ Carries \/ Finishes

\* Waking deliveries leaves the new ones new.
LEMMA SignalledNew ==
    ASSUME TypeOK, NEW d \in Deliveries
    PROVE  /\ Signalled[d] = "new" <=> dpc[d] = "new"
           /\ Finished[d] = "new" <=> dpc[d] = "new"
  BY DEF Signalled, Finished, TypeOK, CallersOK

\* A batch appends outputs.
LEMMA BatchNone ==
    ASSUME TypeOK, NEW S \in SUBSET Nat,
           BatchCut(S) \/ \E next \in {"drain", "ending", "turn_end"} :
                             BatchDone(S, next)
    PROVE  NoItems(inbox') /\ pc' # "item_end"
<1>1. calls \in Nat BY DEF TypeOK, RunOK
<1>2. CASE BatchCut(S)
  <2>1. PICK done \in SUBSET S : \E outs \in Outputs(done) : Enter(outs, "ending")
    BY <1>2 DEF BatchCut
  <2>2. PICK outs \in Outputs(done) : Enter(outs, "ending") BY <2>1
  <2> QED BY <1>1, <2>2, OutputsNone DEF Enter
<1>3. ASSUME NEW next \in {"drain", "ending", "turn_end"}, BatchDone(S, next)
      PROVE  NoItems(inbox') /\ pc' # "item_end"
  <2>1. PICK outs \in Outputs(S) : Enter(outs, next)
    BY <1>3 DEF BatchDone
  <2> QED BY <1>1, <2>1, OutputsNone DEF Enter
<1> QED BY <1>2, <1>3

\* Every step of the run is of one of the kinds.
LEMMA RunPlaceStep ==
    ASSUME TypeOK, PathInv, RunStep
    PROVE  PlaceStep
<1> USE DEF queueVars, stateVars, flagVars, runVars, pathVars,
            callVars, reportVars, pastVars, PlaceStep
<1>t. /\ inbox \in Seq(Entry) /\ working \in Seq(Entry)
      /\ steer \in Seq(Item) /\ followUp \in Seq(Item)
      /\ after # "item_end"
  BY DEF TypeOK, AgentOK, RunOK, Item
<1>c. ASSUME pc \in Clear PROVE inbox = <<>> /\ running
  BY <1>c DEF PathInv, Clear
<1>d. /\ UNCHANGED dpc => SameNew
      /\ dpc' = Signalled => SameNew
      /\ dpc' = Finished => SameNew
  BY SignalledNew DEF SameNew
<1>1. CASE RunStart BY <1>1, <1>d, <1>t DEF RunStart, Enter, Stop, Still
<1>2. CASE ItemStart
  <2>1. inbox # <<>> /\ running /\ SameNew
    BY <1>2, <1>d DEF ItemStart, TypeOK, RunOK, PathInv
  <2> QED BY <1>2, <2>1 DEF ItemStart, Stop, Still, Appends
<1>3. CASE ItemEnd
  <2>1. working # <<>> /\ running /\ SameNew
    BY <1>3, <1>d DEF ItemEnd, TypeOK, RunOK, PathInv
  <2> QED BY <1>3, <1>t, <2>1 DEF ItemEnd, Enter, Stop, Still, Takes
<1>4. CASE RunDrain
  <2>1. inbox = <<>> /\ SameNew
    BY <1>4, <1>c, <1>d DEF RunDrain, Clear, DrainSteer
  <2>2. DrainsInto(steer)
    BY <1>4, <2>1 DEF RunDrain, DrainSteer, Enter, DrainsInto
  <2> QED BY <1>t, <2>2
<1>5. CASE ApprovedBatch
  <2>1. inbox = <<>> /\ SameNew /\ approved \in SUBSET Nat
    BY <1>5, <1>c, <1>d DEF ApprovedBatch, Clear, TypeOK, RunOK
  <2>2. \A S \in SUBSET approved : S \in SUBSET Nat BY <2>1
  <2>3. NoItems(inbox') /\ pc' # "item_end"
    <3>1. \E S \in SUBSET Nat : \/ BatchCut(S)
                                \/ \E next \in {"drain", "ending", "turn_end"} :
                                      BatchDone(S, next)
      BY <1>5, <2>1, <2>2 DEF ApprovedBatch
    <3> QED BY <3>1, BatchNone
  <2> QED BY <1>5, <2>1, <2>3 DEF ApprovedBatch, Still
<1>6. CASE RunRefused BY <1>6, <1>d DEF RunRefused, Stop, Still
<1>7. CASE TurnTop
  <2>1. inbox = <<>> /\ SameNew BY <1>7, <1>c, <1>d DEF TurnTop, Clear
  <2>2. NoItems(<<Prompt>>) /\ NoItems(<<>>) BY DEF NoItems, Prompt
  <2> QED BY <1>7, <2>1, <2>2 DEF TurnTop, Enter, Stop, Still
<1>8. CASE TurnStart
  <2>1. inbox = <<>> /\ running /\ SameNew
    BY <1>8, <1>c, <1>d DEF TurnStart, Clear
  <2> QED BY <1>8, <2>1 DEF TurnStart, Stop, Still, Carries
<1>16. CASE BuildRefused BY <1>16, <1>d DEF BuildRefused, Stop, Still
<1>9. CASE ModelTurn
  <2>1. inbox = <<>> /\ SameNew BY <1>9, <1>c, <1>d DEF ModelTurn, Clear
  <2>2. /\ NoItems(<<Answer>>) /\ NoItems(<<>>)
        /\ NoItems(<<Call(calls + 1)>>)
        /\ NoItems(<<Call(calls + 1), Out(calls + 1)>>)
    BY DEF NoItems, Answer, Call, Out
  <2>3. NoItems(inbox') /\ pc' # "item_end"
    BY <1>9, <2>2 DEF ModelTurn, Enter
  <2> QED BY <1>9, <2>1, <2>3 DEF ModelTurn, Still
<1>10. CASE ToolBatch
  <2>1. inbox = <<>> /\ SameNew /\ {calls} \in SUBSET Nat /\ {} \in SUBSET Nat
    BY <1>10, <1>c, <1>d DEF ToolBatch, Clear, TypeOK, RunOK
  <2>2. NoItems(inbox') /\ pc' # "item_end"
    <3>1. \E S \in SUBSET Nat : \/ BatchCut(S)
                                \/ \E next \in {"drain", "ending", "turn_end"} :
                                      BatchDone(S, next)
      BY <1>10, <2>1 DEF ToolBatch
    <3> QED BY <3>1, BatchNone
  <2> QED BY <1>10, <2>1, <2>2 DEF ToolBatch, Still
<1>11. CASE TurnEnd BY <1>11, <1>d DEF TurnEnd, Stop, Still
<1>12. CASE TurnDecide
  <2>1. inbox = <<>> BY <1>12, <1>c DEF TurnDecide, Clear
  <2>2. UNCHANGED <<working, transcript, dropped, carried, running>>
    BY <1>12 DEF TurnDecide
  <2>3. CASE \E why : StopClosing(why)
    BY <1>d, <2>2, <2>3 DEF StopClosing, Stop, Still
  <2>4. CASE DrainSteer("top")
    <3>1. DrainsInto(steer)
      BY <1>d, <2>1, <2>2, <2>4 DEF DrainSteer, Enter, DrainsInto
    <3> QED BY <1>t, <3>1
  <2>5. CASE DrainLast("top")
    <3>1. CASE steer = <<>> /\ followUp = <<>>
      BY <1>d, <2>2, <2>5, <3>1 DEF DrainLast, Stop, Still
    <3>2. CASE ~(steer = <<>> /\ followUp = <<>>)
      <4>1. DrainsInto(steer \o followUp)
        BY <1>d, <2>1, <2>2, <2>5, <3>2
           DEF DrainLast, Enter, LastItems, DrainsInto
      <4>2. steer \o followUp \in Seq(Item) BY <1>t
      <4> QED BY <4>1, <4>2
    <3> QED BY <3>1, <3>2
  <2> QED BY <1>12, <2>3, <2>4, <2>5 DEF TurnDecide
<1>13. CASE RunEnding BY <1>13, <1>d DEF RunEnding, Still
<1>14. CASE RunEnd BY <1>14, <1>d DEF RunEnd, Still
<1>15. CASE RunFinish
  <2>1. running BY <1>15 DEF RunFinish, PathInv
  <2> QED BY <1>15, <1>d, <2>1 DEF RunFinish, Finishes
<1> QED BY <1>1, <1>2, <1>3, <1>4, <1>5, <1>6, <1>7, <1>8, <1>9, <1>10, <1>11,
     <1>12, <1>13, <1>14, <1>15, <1>16 DEF RunStep

\* A start gives the run no item: its prompt, or the outputs of calls.
LEMMA StartPlace ==
    ASSUME TypeOK, PathInv, NEW items, NEW approve, NEW refuse,
           Start(items, approve, refuse), NoItems(items), SameNew
    PROVE  Begins
<1> USE DEF queueVars, pastVars
<1>1. inbox = <<>> /\ working = <<>> BY DEF Start, PathInv
<1> QED BY <1>1 DEF Start, Begins

\* Every step is of one of the kinds.
LEMMA PlaceKinds ==
    ASSUME TypeOK, PathInv, PlaceInv, [Next]_vars
    PROVE  PlaceStep
<1> USE DEF vars, queueVars, stateVars, flagVars, runVars, pathVars,
            callVars, reportVars, pastVars, PlaceStep
<1>d. UNCHANGED dpc => SameNew BY DEF SameNew
<1>t. /\ calls \in Nat /\ pending \in SUBSET Nat
      /\ host \in [Hosts -> [op : {"none", "continue", "resume"},
                             calls : SUBSET Nat]]
      /\ dpc \in [Deliveries -> {"new", "check", "wait", "run", "done"}]
  BY DEF TypeOK, RunOK, AgentOK, CallersOK
<1>1. CASE UNCHANGED vars BY <1>1, <1>d DEF Still
<1>2. CASE HostPrompt
  <2>1. PICK outs \in Outputs(pending) : Start(Append(outs, Prompt), {}, FALSE)
    BY <1>2 DEF HostPrompt
  <2>2. NoItems(Append(outs, Prompt)) BY <1>t, OutputsNone
  <2> QED BY <1>2, <1>d, <2>1, <2>2, StartPlace DEF HostPrompt
<1>3. ASSUME NEW h \in Hosts, HostStep(h) PROVE PlaceStep
  <2>1. CASE ContinueLook(h) \/ ResumeLook(h) \/ StartRefused(h)
    BY <1>d, <2>1 DEF ContinueLook, ResumeLook, StartRefused, Still
  <2>2. CASE ContinueStart(h)
    <3>1. NoItems(<<>>) BY DEF NoItems
    <3> QED BY <1>d, <2>2, <3>1, StartPlace DEF ContinueStart
  <2>3. ASSUME NEW approve, NEW refuse, ResumeStart(h, approve, refuse)
        PROVE  PlaceStep
    <3>1. PICK outs \in Outputs(host[h].calls \ approve) :
              Start(outs, approve, refuse)
      BY <2>3 DEF ResumeStart, AnswerOutputs
    <3>2. host[h].calls \ approve \in SUBSET Nat BY <1>t
    <3> QED
      BY <1>d, <1>t, <2>3, <3>1, <3>2, OutputsNone, StartPlace DEF ResumeStart
  <2> QED BY <1>3, <2>1, <2>2, <2>3 DEF HostStep
<1>4. ASSUME NEW i \in Steers, Steer(i) PROVE PlaceStep
  <2>1. i \notin Deliveries /\ i \in Item BY ItemAssumption DEF Item
  <2>2. Queues(i)
    BY <1>4, <2>1 DEF Steer, Fresh, Whereabouts, Held, Queues
  <2> QED BY <2>1, <2>2
<1>5. ASSUME NEW i \in FollowUps, FollowUp(i) PROVE PlaceStep
  <2>1. i \notin Deliveries /\ i \in Item BY ItemAssumption DEF Item
  <2>2. Queues(i)
    BY <1>5, <2>1 DEF FollowUp, Fresh, Whereabouts, Held, Queues
  <2> QED BY <2>1, <2>2
<1>6. ASSUME NEW d \in Deliveries, AcceptDelivery(d) \/ AcceptInside(d)
      PROVE  PlaceStep
  <2>1. d \notin Whereabouts
    BY <1>6 DEF AcceptDelivery, AcceptInside, Accept, PlaceInv
  <2>2. \A e \in Deliveries : dpc'[e] = "new" <=> dpc[e] = "new" /\ e # d
    BY <1>6, <1>t DEF AcceptDelivery, AcceptInside
  <2>3. Queues(d)
    BY <1>6, <2>1, <2>2 DEF AcceptDelivery, AcceptInside, Accept, Queues
  <2> QED BY <2>3 DEF Item
<1>7. ASSUME NEW d \in Deliveries, DeliveryStep(d) \/ SettleCancelled(d)
      PROVE  PlaceStep
  <2>1. SameNew
    BY <1>7, <1>t DEF DeliveryStep, SettleWait, Settle, SettleStart,
                      SettleCancelled, SameNew
  <2>2. CASE SettleStart(d)
    <3>1. NoItems(<<>>) BY DEF NoItems
    <3> QED BY <2>1, <2>2, <3>1, StartPlace DEF SettleStart
  <2>3. CASE SettleWait(d) \/ Settle(d) \/ SettleCancelled(d)
    BY <2>1, <2>3 DEF SettleWait, Settle, SettleCancelled, Still
  <2> QED BY <1>7, <2>2, <2>3 DEF DeliveryStep
<1>8. CASE ReportQueued \/ Abort \/ AbortCancel \/ ContextDone \/ Hold \/ Release
  BY <1>8, <1>d DEF ReportQueued, Abort, AbortCancel, ContextDone, Hold,
                    Release, Still
<1>9. CASE RunStep BY <1>9, RunPlaceStep
<1> QED BY <1>1, <1>2, <1>3, <1>4, <1>5, <1>6, <1>7, <1>8, <1>9 DEF Next

-----------------------------------------------------------------------------
(* Every kind of step keeps each item in one place.                        *)

\* The parts of ItemInOnePlace.
OnePlace ==
    /\ Once(steer) /\ Once(followUp)
    /\ Distinct(inbox) /\ Distinct(working) /\ Distinct(transcript)
    /\ QueuedItems \cap Held = {}
    /\ ItemsOf(inbox) \cap (ItemsOf(working) \cup ItemsOf(transcript)
                            \cup dropped) = {}
    /\ dropped \cap (ItemsOf(working) \cup ItemsOf(transcript)) = {}

\* They are its parts, before a step and after it.
LEMMA OnePlaceIs ==
    /\ ItemInOnePlace <=> OnePlace
    /\ ItemInOnePlace' <=> OnePlace'
<1>1. ItemInOnePlace <=> OnePlace
  BY DEF ItemInOnePlace, OnePlace, Once, Distinct
<1>2. ItemInOnePlace' <=> OnePlace'
  BY DEF ItemInOnePlace, OnePlace, Once, Distinct
<1> QED BY <1>1, <1>2

\* The types of the lists.
ListsOK ==
    /\ inbox \in Seq(Entry) /\ working \in Seq(Entry)
    /\ transcript \in Seq(Entry) /\ steer \in Seq(Item)
    /\ followUp \in Seq(Item) /\ Elems(steer) \cap Elems(followUp) = {}
    /\ Elems(followUp) \cap Deliveries = {}

\* Steered and followed-up items are different ones.
LEMMA ListsType == ASSUME TypeOK PROVE ListsOK
<1>1. /\ steer \in Seq(Deliveries \cup Steers) /\ followUp \in Seq(FollowUps)
  BY DEF TypeOK, AgentOK
<1>2. Elems(steer) \subseteq Deliveries \cup Steers /\ Elems(followUp) \subseteq FollowUps
  BY <1>1 DEF Elems
<1> QED BY <1>1, <1>2, ItemAssumption DEF TypeOK, AgentOK, RunOK, ListsOK, Item

\* A step that moves no item keeps each in its place.
LEMMA PlaceStill ==
    ASSUME ListsOK, PlaceInv, Still
    PROVE  PlaceInv' /\ Whereabouts' = Whereabouts
<1>1. ItemsOf(inbox') = ItemsOf(inbox) /\ (Distinct(inbox) => Distinct(inbox'))
  BY NoItemsOf, ItemsNone DEF Still
<1>2. UNCHANGED <<QueuedItems, Held, Whereabouts>>
  BY <1>1 DEF Still, QueuedItems, Held, Whereabouts
<1>3. OnePlace' BY <1>1, <1>2, OnePlaceIs DEF Still, PlaceInv, OnePlace
<1> QED BY <1>1, <1>2, <1>3, OnePlaceIs DEF Still, SameNew, PlaceInv

\* Queueing an item that was nowhere puts it in the queue alone.
LEMMA PlaceQueues ==
    ASSUME ListsOK, PlaceInv, NEW i \in Item, Queues(i)
    PROVE  PlaceInv' /\ Whereabouts' = Whereabouts \cup {i}
<1>1. i \notin QueuedItems /\ i \notin Held BY DEF Queues, Whereabouts
<1>2. QueuedItems' = QueuedItems \cup {i}
  <2>1. CASE steer' = Append(steer, i) /\ UNCHANGED followUp
    BY <2>1, ElemsAppend DEF QueuedItems, ListsOK
  <2>2. CASE followUp' = Append(followUp, i) /\ UNCHANGED steer
    BY <2>2, ElemsAppend DEF QueuedItems, ListsOK
  <2> QED BY <2>1, <2>2 DEF Queues
<1>3. Held' = Held BY DEF Queues, Held
<1>4. Once(steer) /\ Once(followUp) BY OnePlaceIs DEF PlaceInv, OnePlace
<1>5. Once(steer')
  <2>1. i \notin Elems(steer) BY <1>1 DEF QueuedItems
  <2> QED BY <1>4, <2>1, AppendOnce DEF Queues, ListsOK
<1>6. Once(followUp')
  <2>1. i \notin Elems(followUp) BY <1>1 DEF QueuedItems
  <2> QED BY <1>4, <2>1, AppendOnce DEF Queues, ListsOK
<1>7. OnePlace'
  BY <1>1, <1>2, <1>3, <1>5, <1>6, OnePlaceIs DEF Queues, PlaceInv, OnePlace
<1>8. Whereabouts' = Whereabouts \cup {i} BY <1>2, <1>3 DEF Whereabouts
<1> QED BY <1>7, <1>8, OnePlaceIs DEF Queues, PlaceInv

\* A drain moves what it takes out of the queues into the inbox.
LEMMA PlaceDrains ==
    ASSUME ListsOK, PlaceInv, NEW q \in Seq(Item), DrainsInto(q)
    PROVE  PlaceInv' /\ Whereabouts' = Whereabouts
<1>1. /\ Once(steer) /\ Once(followUp) /\ Distinct(working)
      /\ Distinct(transcript) /\ QueuedItems \cap Held = {}
      /\ dropped \cap (ItemsOf(working) \cup ItemsOf(transcript)) = {}
  BY OnePlaceIs DEF PlaceInv, OnePlace
<1>2. Once(q) BY <1>1, ConcatOnce DEF DrainsInto, ListsOK
<1>3. /\ Distinct(inbox') /\ ItemsOf(inbox') = Elems(q)
  BY <1>2, EntriesDistinct, EntriesItems DEF DrainsInto
<1>4. /\ QueuedItems = Elems(q) \cup QueuedItems'
      /\ Elems(q) \cap QueuedItems' = {}
  <2>1. Elems(<<>>) = {} BY DEF Elems
  <2>2. CASE q = steer /\ UNCHANGED followUp
    BY <2>1, <2>2 DEF DrainsInto, QueuedItems, ListsOK
  <2>3. CASE q = steer \o followUp /\ followUp' = <<>>
    BY ZenonT(60), <1>1, <2>1, <2>3, ConcatOnce DEF DrainsInto, QueuedItems, ListsOK
  <2> QED BY <2>2, <2>3 DEF DrainsInto
<1>5. ItemsOf(inbox) = {} BY ItemsNone DEF DrainsInto
<1>6. /\ Held' = Held \cup Elems(q)
      /\ Held = ItemsOf(working) \cup ItemsOf(transcript) \cup dropped
  BY <1>3, <1>5 DEF DrainsInto, Held
<1>7. Once(steer') /\ Once(followUp') BY <1>1 DEF DrainsInto, Once
<1>8. OnePlace' BY <1>1, <1>3, <1>4, <1>6, <1>7 DEF DrainsInto, OnePlace
<1>9. Whereabouts' = Whereabouts BY <1>4, <1>6 DEF Whereabouts
<1> QED BY <1>8, <1>9, OnePlaceIs DEF DrainsInto, SameNew, PlaceInv

\* A run that starts works on a copy: no item moves.
LEMMA PlaceBegins ==
    ASSUME ListsOK, PlaceInv, Begins
    PROVE  PlaceInv' /\ Whereabouts' = Whereabouts
<1>1. ItemsOf(inbox') = {} /\ Distinct(inbox') /\ ItemsOf(inbox) = {}
      /\ ItemsOf(working) = {} /\ ItemsOf(working') = ItemsOf(transcript)
  BY NoItemsOf, ItemsNone DEF Begins
<1>2. UNCHANGED <<QueuedItems, Held, Whereabouts>>
  BY <1>1 DEF Begins, QueuedItems, Held, Whereabouts
<1>3. OnePlace' BY <1>1, <1>2, OnePlaceIs DEF Begins, PlaceInv, OnePlace
<1> QED BY <1>1, <1>2, <1>3, OnePlaceIs DEF Begins, SameNew, PlaceInv

\* Appending an entry moves its item from the inbox to the run.
LEMMA PlaceAppends ==
    ASSUME ListsOK, PlaceInv, Appends
    PROVE  PlaceInv' /\ Whereabouts' = Whereabouts
<1> DEFINE e == Head(inbox)
           moved == IF e.k = "in" THEN {e.id} ELSE {}
<1>1. /\ Distinct(inbox) /\ Distinct(working)
      /\ ItemsOf(inbox) \cap (ItemsOf(working) \cup ItemsOf(transcript)
                              \cup dropped) = {}
      /\ QueuedItems \cap Held = {}
  BY OnePlaceIs DEF PlaceInv, OnePlace
<1>2. /\ e \in Entry /\ Distinct(inbox')
      /\ ItemsOf(inbox) = ItemsOf(inbox') \cup moved
      /\ moved \cap ItemsOf(inbox') = {}
  BY <1>1, TailItems DEF ListsOK, Appends
<1>3. /\ ItemsOf(working') = ItemsOf(working) \cup moved
      /\ working'[Len(working')] = e
  BY <1>2, AppendItems DEF ListsOK, Appends
<1>4. Distinct(working')
  BY <1>1, <1>2, AppendDistinct DEF ListsOK, Appends
<1> HIDE DEF moved, e
<1>5. UNCHANGED <<QueuedItems, Held, Whereabouts>>
  BY <1>2, <1>3 DEF Appends, QueuedItems, Held, Whereabouts
<1>6. OnePlace'
  BY <1>1, <1>2, <1>3, <1>4, <1>5, OnePlaceIs DEF Appends, PlaceInv, OnePlace
<1>7. e.k = "in" => e.id \notin ItemsOf(transcript)
  BY <1>1, <1>2 DEF moved
<1> QED BY <1>3, <1>5, <1>6, <1>7, OnePlaceIs DEF Appends, SameNew, PlaceInv

\* The agent takes an entry the run holds: the item stays where it is.
LEMMA PlaceTakes ==
    ASSUME ListsOK, PlaceInv, Takes
    PROVE  PlaceInv' /\ Whereabouts' = Whereabouts
<1> DEFINE e == working[Len(working)]
           added == IF e.k = "in" THEN {e.id} ELSE {}
<1>1. /\ Distinct(transcript) /\ OnePlace
  BY OnePlaceIs DEF PlaceInv, OnePlace
<1>2. e \in Entry /\ added \subseteq ItemsOf(working)
  <2>1. Len(working) \in DOMAIN working BY DEF ListsOK, Takes
  <2> QED BY <2>1 DEF ListsOK, ItemsOf
<1>3. ItemsOf(transcript') = ItemsOf(transcript) \cup added
  BY <1>2, AppendItems DEF ListsOK, Takes
<1>4. Distinct(transcript')
  BY <1>1, <1>2, AppendDistinct DEF ListsOK, Takes, PlaceInv
<1> HIDE DEF added, e
<1>5. UNCHANGED <<QueuedItems, Held, Whereabouts>>
  BY <1>2, <1>3 DEF Takes, QueuedItems, Held, Whereabouts
<1>6. OnePlace' BY <1>1, <1>2, <1>3, <1>4, <1>5 DEF Takes, OnePlace
<1> QED BY <1>2, <1>3, <1>5, <1>6, OnePlaceIs DEF Takes, SameNew, PlaceInv

\* A request moves no item between lists.
LEMMA PlaceCarries ==
    ASSUME ListsOK, PlaceInv, Carries
    PROVE  PlaceInv' /\ Whereabouts' = Whereabouts
<1>1. UNCHANGED <<QueuedItems, Held, Whereabouts>>
  BY DEF Carries, QueuedItems, Held, Whereabouts
<1>2. OnePlace' BY <1>1, OnePlaceIs DEF Carries, PlaceInv, OnePlace
<1> QED BY <1>1, <1>2, OnePlaceIs DEF Carries, SameNew, PlaceInv

\* What an ended run held and the agent does not is dropped, and the
\* rest is in the agent's transcript.
LEMMA PlaceFinishes ==
    ASSUME ListsOK, PlaceInv, Finishes
    PROVE  PlaceInv' /\ Whereabouts' = Whereabouts
<1>1. ItemsOf(inbox') = {} /\ ItemsOf(working') = {}
  BY ItemsNone DEF Finishes
<1>2. UNCHANGED <<QueuedItems, Held, Whereabouts>>
  BY <1>1 DEF Finishes, QueuedItems, Held, Whereabouts
<1>3. Distinct(inbox') /\ Distinct(working') BY DEF Finishes, Distinct
<1>4. OnePlace'
  BY <1>1, <1>2, <1>3, OnePlaceIs DEF Finishes, PlaceInv, OnePlace
<1> QED BY <1>1, <1>2, <1>4, OnePlaceIs DEF Finishes, SameNew, PlaceInv

\* Every step keeps each item in one place, and none is forgotten.
LEMMA PlaceNext ==
    ASSUME TypeOK, PathInv, PlaceInv, [Next]_vars
    PROVE  PlaceInv' /\ Whereabouts \subseteq Whereabouts'
  BY ListsType, PlaceKinds, PlaceStill, PlaceQueues, PlaceDrains, PlaceBegins,
     PlaceAppends, PlaceTakes, PlaceCarries, PlaceFinishes DEF PlaceStep

\* No item is anywhere at first.
LEMMA PlaceInit == Init => PlaceInv
<1> SUFFICES ASSUME Init PROVE PlaceInv
  OBVIOUS
<1>1. ItemsOf(<<>>) = {} /\ Elems(<<>>) = {} BY ItemsNone DEF Elems
<1>2. QueuedItems = {} /\ Held = {} /\ Whereabouts = {}
  BY <1>1 DEF Init, QueuedItems, Held, Whereabouts
<1>3. OnePlace BY <1>1, <1>2 DEF Init, OnePlace, Once, Distinct
<1> QED BY <1>1, <1>2, <1>3, OnePlaceIs DEF Init, PlaceInv

-----------------------------------------------------------------------------
(* What a run took, a request carries before the loop decides to stop.     *)

\* Every step of the run keeps it so.
LEMMA StopRunStep ==
    ASSUME TypeOK, PathInv, StopInv, RunStep
    PROVE  StopInv'
<1> USE DEF queueVars, stateVars, flagVars, runVars, pathVars,
            callVars, reportVars, pastVars, StopInv, Appending, Resumes
<1>t. /\ inbox \in Seq(Entry) /\ working \in Seq(Entry)
      /\ steer \in Seq(Item) /\ followUp \in Seq(Item)
      /\ after \in PCs \ {"append", "item_end", "run_end"}
  BY DEF TypeOK, AgentOK, RunOK, Item
<1>c. ASSUME pc \in Clear PROVE inbox = <<>> /\ ItemsOf(inbox) = {}
  BY <1>c, ItemsNone DEF PathInv
<1>1. CASE RunStart BY <1>1, <1>t DEF RunStart, Enter, Stop, Stops, PCs
<1>2. CASE ItemStart
  <2>1. inbox # <<>> BY <1>2 DEF ItemStart, TypeOK, RunOK
  <2>2. ItemsOf(inbox) \cup ItemsOf(working) \subseteq
          ItemsOf(Tail(inbox)) \cup ItemsOf(Append(working, Head(inbox)))
    <3>1. Head(inbox) \in Entry BY <1>t, <2>1
    <3> QED BY <1>t, <2>1, <3>1, ItemsTail, ItemsAppend
  <2>3. \/ /\ inbox' = Tail(inbox) /\ working' = Append(working, Head(inbox))
           /\ pc' = "item_end" /\ UNCHANGED <<after, reason>>
        \/ Stop("failure") /\ UNCHANGED working
    BY <1>2 DEF ItemStart
  <2> QED BY <1>2, <1>t, <2>2, <2>3 DEF ItemStart, Stop, Stops
<1>3. CASE ItemEnd
  <2>1. UNCHANGED <<inbox, after, working, taken, carried>> /\ pc = "item_end"
    BY <1>3 DEF ItemEnd, Enter, Stop
  <2>2. CASE UNCHANGED reason /\ pc' = IF inbox = <<>> THEN after ELSE "append"
    BY <1>t, <2>1, <2>2 DEF PCs, Stops
  <2>3. CASE pc' = "ending" /\ reason' = "failure"
    BY <2>1, <2>3 DEF Stops
  <2> QED BY <1>3, <2>2, <2>3 DEF ItemEnd, Enter, Stop
<1>4. CASE RunDrain
  <2>1. ItemsOf(inbox') = Elems(steer) /\ inbox = <<>> /\ ItemsOf(inbox) = {}
    BY <1>4, <1>c, <1>t, EntriesItems DEF RunDrain, DrainSteer, Enter, Clear
  <2> QED BY <1>4, <2>1 DEF RunDrain, DrainSteer, Enter, Stops
<1>5. CASE ApprovedBatch
  <2>1. taken' = {} /\ taken = {} /\ UNCHANGED carried
    BY <1>5 DEF ApprovedBatch
  <2>2. \/ pc' = "append" /\ after' \in {"ending", "drain"}
        \/ pc' \in {"ending", "drain"}
    BY <1>5 DEF ApprovedBatch, BatchCut, BatchDone, Enter
  <2>3. (reason' = reason /\ reason = "none") \/ after' = "ending"
    BY <1>5 DEF ApprovedBatch, BatchCut, BatchDone, Enter
  <2>4. pc' # "append" => pc' = after'
    BY <1>5 DEF ApprovedBatch, BatchCut, BatchDone, Enter
  <2> QED BY <2>1, <2>2, <2>3, <2>4
<1>6. CASE RunRefused BY <1>6, <1>c DEF RunRefused, Stop, Stops, Clear
<1>7. CASE TurnTop
  BY <1>7, <1>c, ItemsNone DEF TurnTop, Enter, Stop, Stops, Clear
<1>16. CASE BuildRefused BY <1>16 DEF BuildRefused, Stop, Stops
<1>8. CASE TurnStart BY <1>8, <1>c DEF TurnStart, Stop, Stops, Clear
<1>9. CASE ModelTurn BY <1>9 DEF ModelTurn, Enter, Stop, Stops
<1>10. CASE ToolBatch
  <2>1. taken \subseteq carried /\ UNCHANGED <<taken, carried>>
    BY <1>10 DEF ToolBatch
  <2>2. \/ pc' = "append" /\ after' \in {"ending", "turn_end"}
        \/ pc' \in {"ending", "turn_end"}
    BY <1>10 DEF ToolBatch, BatchCut, BatchDone, Enter
  <2>3. (reason' = reason /\ reason = "none") \/ after' = "ending"
    BY <1>10 DEF ToolBatch, BatchCut, BatchDone, Enter
  <2>4. pc' # "append" => pc' = after'
    BY <1>10 DEF ToolBatch, BatchCut, BatchDone, Enter
  <2> QED BY <2>1, <2>2, <2>3, <2>4
<1>11. CASE TurnEnd BY <1>11 DEF TurnEnd, Stop, Stops
<1>12. CASE TurnDecide
  <2>1. taken \subseteq carried /\ UNCHANGED <<carried, working>> /\ reason = "none"
    BY <1>12 DEF TurnDecide
  <2>3. CASE \E why : StopClosing(why)
    BY <2>1, <2>3 DEF StopClosing, Stop
  <2>4. CASE DrainSteer("top")
    <3>1. ItemsOf(inbox') = Elems(steer)
      BY <1>t, <2>4, EntriesItems DEF DrainSteer, Enter
    <3> QED BY <2>1, <2>4, <3>1 DEF DrainSteer, Enter, Stops
  <2>5. CASE DrainLast("top")
    <3>1. CASE steer = <<>> /\ followUp = <<>>
      BY <2>1, <2>5, <3>1 DEF DrainLast, Stop
    <3>2. CASE ~(steer = <<>> /\ followUp = <<>>)
      <4>1. QueuedItems \subseteq ItemsOf(inbox')
        <5>1. steer \o followUp \in Seq(Item)
              /\ QueuedItems \subseteq Elems(steer \o followUp)
          BY <1>t, ElemsConcat DEF QueuedItems
        <5> QED
          BY <2>5, <3>2, <5>1, EntriesItems DEF DrainLast, LastItems, Enter
      <4> QED BY <2>1, <2>5, <3>2, <4>1 DEF DrainLast, Enter, Stops
    <3> QED BY <3>1, <3>2
  <2> QED BY <1>12, <2>3, <2>4, <2>5 DEF TurnDecide
<1>13. CASE RunEnding BY <1>13 DEF RunEnding, EndReason, Stops
<1>14. CASE RunEnd BY <1>14 DEF RunEnd, Stops
<1>15. CASE RunFinish BY <1>15 DEF RunFinish, Stops
<1> QED BY <1>1, <1>2, <1>3, <1>4, <1>5, <1>6, <1>7, <1>8, <1>9, <1>10, <1>11,
     <1>12, <1>13, <1>14, <1>15, <1>16 DEF RunStep

\* Outside the run only a start changes what it took.
LEMMA TakenOther ==
    ASSUME [Next]_vars, ~RunStep
    PROVE  \/ UNCHANGED <<reason, taken, carried, pc, after, inbox, working>>
           \/ \E items, approve, refuse : Start(items, approve, refuse)
<1> USE DEF vars, queueVars, stateVars, flagVars, runVars, pathVars,
            callVars, reportVars, pastVars
<1>1. CASE UNCHANGED vars BY <1>1
<1>2. CASE HostPrompt BY <1>2 DEF HostPrompt
<1>3. ASSUME NEW h \in Hosts, HostStep(h)
      PROVE  \/ UNCHANGED <<reason, taken, carried, pc, after, inbox,
                            working>>
             \/ \E items, approve, refuse : Start(items, approve, refuse)
  <2>1. CASE ContinueLook(h) \/ ResumeLook(h) \/ StartRefused(h)
    BY <2>1 DEF ContinueLook, ResumeLook, StartRefused
  <2>2. CASE ContinueStart(h) BY <2>2 DEF ContinueStart
  <2>3. ASSUME NEW yes, NEW no, ResumeStart(h, yes, no)
        PROVE  \/ UNCHANGED <<reason, taken, carried, pc, after, inbox,
                              working>>
               \/ \E items, approve, refuse : Start(items, approve, refuse)
    BY <2>3 DEF ResumeStart
  <2> QED BY <1>3, <2>1, <2>2, <2>3 DEF HostStep
<1>4. CASE (\E i \in Steers : Steer(i)) \/ (\E i \in FollowUps : FollowUp(i))
  BY <1>4 DEF Steer, FollowUp
<1>5. ASSUME NEW d \in Deliveries, AcceptDelivery(d) \/ AcceptInside(d)
      PROVE  \/ UNCHANGED <<reason, taken, carried, pc, after, inbox,
                            working>>
             \/ \E items, approve, refuse : Start(items, approve, refuse)
  BY <1>5 DEF AcceptDelivery, AcceptInside
<1>6. ASSUME NEW d \in Deliveries, DeliveryStep(d) \/ SettleCancelled(d)
      PROVE  \/ UNCHANGED <<reason, taken, carried, pc, after, inbox,
                            working>>
             \/ \E items, approve, refuse : Start(items, approve, refuse)
  BY <1>6 DEF DeliveryStep, SettleWait, Settle, SettleStart, SettleCancelled
<1>7. CASE Abort \/ AbortCancel \/ ContextDone
  BY <1>7 DEF Abort, AbortCancel, ContextDone
<1>8. CASE ReportQueued \/ Hold \/ Release
  BY <1>8 DEF ReportQueued, Hold, Release
<1> QED BY <1>1, <1>2, <1>3, <1>4, <1>5, <1>6, <1>7, <1>8 DEF Next

\* Every step keeps it so.
LEMMA StopNext ==
    ASSUME TypeOK, PathInv, StopInv, [Next]_vars
    PROVE  StopInv'
<1>1. CASE RunStep BY <1>1, StopRunStep
<1>2. CASE UNCHANGED <<reason, taken, carried, pc, after, inbox, working>>
  BY <1>2 DEF StopInv, Appending
<1>3. ASSUME NEW items, NEW approve, NEW refuse, Start(items, approve, refuse)
      PROVE  StopInv'
  BY <1>3 DEF Start, StopInv, Appending, Stops, Resumes
<1> QED BY <1>1, <1>2, <1>3, TakenOther

\* The queues are kept: an accepted item is in one place, once, and a run
\* that the loop stops has shown the model everything it took.
THEOREM QueuesKept == Spec => []QueueIsKept
<1>1. Init => PathInv BY DEF Init, PathInv, Clear
<1>2. Init => StopInv BY DEF Init, StopInv, Appending, Stops
<1>3. PlaceInv /\ StopInv => QueueIsKept
  BY DEF PlaceInv, StopInv, QueueIsKept, StopLeavesQueue, Stops
<1> QED
  BY <1>1, <1>2, <1>3, TypeInit, TypeNext, PathNext, PlaceInit, PlaceNext,
     StopNext, PTL DEF Spec

-----------------------------------------------------------------------------
(* Nothing is lost until a subscriber fails.                               *)

\* An event that left no failure was taken by everyone.
LEMMA RaisedOk ==
    ASSUME TypeOK, NoneFailed, NEW o, Raise(o), fails' = 0
    PROVE  o = "ok" /\ ~queuedErr'
  BY DEF TypeOK, CallersOK, NoneFailed, Raise

\* The items of a list are its last entry's and those before it.
LEMMA ItemsLast ==
    ASSUME NEW s \in Seq(Entry), s # <<>>, NEW x \in ItemsOf(s)
    PROVE  \/ s[Len(s)].k = "in" /\ s[Len(s)].id = x
           \/ \E i \in DOMAIN s : i < Len(s) /\ s[i].k = "in" /\ s[i].id = x
<1>1. PICK i \in DOMAIN s : s[i].k = "in" /\ s[i].id = x BY DEF ItemsOf
<1>2. i = Len(s) \/ i < Len(s) OBVIOUS
<1> QED BY <1>1, <1>2

\* Every step of the run keeps what it took, while no subscriber fails.
LEMMA FailRunStep ==
    ASSUME TypeOK, PathInv, NoneFailed, RunStep, fails = 0, fails' = 0
    PROVE  NoneFailed'
<1> USE DEF queueVars, stateVars, flagVars, runVars, pathVars,
            callVars, reportVars, pastVars
<1>t. /\ inbox \in Seq(Entry) /\ working \in Seq(Entry)
      /\ transcript \in Seq(Entry)
      /\ after \in PCs \ {"append", "item_end", "run_end"}
  BY DEF TypeOK, AgentOK, RunOK, Item
<1>c. ASSUME pc \in Clear PROVE inbox = <<>>
  BY <1>c DEF PathInv
\* A step that leaves the transcripts alone.
<1>s. ASSUME ~queuedErr', UNCHANGED <<working, transcript, running>>,
             pc # "item_end", pc' # "item_end",
             pc' \in {"ending", "run_end", "finish"} => inbox' = <<>>
      PROVE  NoneFailed'
  BY <1>s DEF NoneFailed
<1>1. CASE RunStart
  <2>1. Raise("ok") /\ Enter(inbox, after) /\ ~queuedErr'
    BY <1>1, RaisedOk DEF RunStart
  <2> QED BY <1>1, <1>s, <1>t, <2>1 DEF RunStart, Enter, PCs
<1>2. CASE ItemStart
  <2>1. /\ ~queuedErr' /\ working' = Append(working, Head(inbox))
        /\ pc' = "item_end" /\ UNCHANGED <<transcript, running>>
    BY <1>2, RaisedOk DEF ItemStart
  <2>2. /\ Len(working') = Len(working) + 1 /\ Len(working) \in Nat
        /\ \A i \in DOMAIN working' : i < Len(working') =>
              i \in DOMAIN working /\ working'[i] = working[i]
    <3>1. Head(inbox) \in Entry
      BY <1>2, <1>t DEF ItemStart, TypeOK, RunOK
    <3> QED BY <1>t, <2>1, <3>1
  <2>3. ItemsOf(working) \subseteq ItemsOf(transcript)
    BY <1>2 DEF ItemStart, NoneFailed, PathInv
  <2>4. \A i \in DOMAIN working : working[i].k = "in" =>
            working[i].id \in ItemsOf(transcript)
    BY <2>3 DEF ItemsOf
  <2> QED BY <2>1, <2>2, <2>4 DEF NoneFailed
<1>3. CASE ItemEnd
  <2>1. /\ ~queuedErr' /\ UNCHANGED working
        /\ transcript' = Append(transcript, working[Len(working)])
        /\ inbox' = inbox /\ pc' = IF inbox = <<>> THEN after ELSE "append"
    BY <1>3, RaisedOk DEF ItemEnd, Enter
  <2>2. working # <<>> /\ working[Len(working)] \in Entry
    BY <1>3, <1>t DEF ItemEnd, TypeOK, RunOK
  <2>3. ItemsOf(working) \subseteq ItemsOf(transcript')
    <3>1. /\ ItemsOf(transcript) \subseteq ItemsOf(transcript')
          /\ working[Len(working)].k = "in" =>
                working[Len(working)].id \in ItemsOf(transcript')
      BY <1>t, <2>1, <2>2, ItemsAppend
    <3>2. \A i \in DOMAIN working : i < Len(working) /\ working[i].k = "in" =>
              working[i].id \in ItemsOf(transcript)
      BY <1>3 DEF ItemEnd, NoneFailed
    <3> QED BY <1>t, <2>2, <3>1, <3>2, ItemsLast
  <2> QED BY <1>t, <2>1, <2>3 DEF NoneFailed, PCs
<1>4. CASE RunDrain
  BY <1>4, <1>s DEF RunDrain, DrainSteer, Enter, NoneFailed
<1>5. CASE ApprovedBatch
  <2>1. ~queuedErr'
    BY <1>5 DEF ApprovedBatch, BatchCut, BatchDone, NoneFailed
  <2>2. pc' = IF inbox' = <<>> THEN after' ELSE "append"
    BY <1>5 DEF ApprovedBatch, BatchCut, BatchDone, Enter
  <2>3. after' \in {"drain", "ending"}
    BY <1>5 DEF ApprovedBatch, BatchCut, BatchDone, Enter
  <2> QED BY <1>5, <1>s, <2>1, <2>2, <2>3 DEF ApprovedBatch
<1>6. CASE RunRefused
  BY <1>6, <1>c, <1>s DEF RunRefused, Stop, Clear, NoneFailed
<1>7. CASE TurnTop
  BY <1>7, <1>c, <1>s DEF TurnTop, Enter, Stop, Clear, NoneFailed
<1>16. CASE BuildRefused
  <2>1. ~queuedErr' BY <1>16, RaisedOk DEF BuildRefused, NoneFailed
  <2>2. pc' = "ending" /\ inbox' = <<>> /\ pc = "turn_start"
    BY <1>16, <1>c DEF BuildRefused, Stop, Clear
  <2> QED BY <1>16, <1>s, <2>1, <2>2 DEF BuildRefused
<1>8. CASE TurnStart
  <2>1. ~queuedErr' /\ pc' = "model" BY <1>8, RaisedOk DEF TurnStart
  <2> QED BY <1>8, <1>s, <2>1 DEF TurnStart
<1>9. CASE ModelTurn
  <2>1. pc' = IF inbox' = <<>> THEN after' ELSE "append"
    BY <1>9 DEF ModelTurn, Enter
  <2>2. after' \in {"turn_end", "batch", "ending"}
    BY <1>9 DEF ModelTurn, Enter
  <2> QED BY <1>9, <1>s, <2>1, <2>2 DEF ModelTurn, NoneFailed
<1>10. CASE ToolBatch
  <2>1. ~queuedErr'
    BY <1>10 DEF ToolBatch, BatchCut, BatchDone, NoneFailed
  <2>2. pc' = IF inbox' = <<>> THEN after' ELSE "append"
    BY <1>10 DEF ToolBatch, BatchCut, BatchDone, Enter
  <2>3. after' \in {"turn_end", "ending"}
    BY <1>10 DEF ToolBatch, BatchCut, BatchDone, Enter
  <2> QED BY <1>10, <1>s, <2>1, <2>2, <2>3 DEF ToolBatch
<1>11. CASE TurnEnd
  <2>1. ~queuedErr' /\ pc' = "decide" BY <1>11, RaisedOk DEF TurnEnd
  <2> QED BY <1>11, <1>s, <2>1 DEF TurnEnd
<1>12. CASE TurnDecide
  <2>1. ~queuedErr' /\ UNCHANGED <<working, transcript, running>>
        /\ pc = "decide"
    BY <1>12 DEF TurnDecide, NoneFailed
  <2>2. inbox = <<>> BY <1>12, <1>c DEF TurnDecide, Clear
  <2>3. CASE \E why : StopClosing(why)
    BY <1>s, <2>1, <2>2, <2>3 DEF StopClosing, Stop
  <2>4. CASE DrainSteer("top") BY <1>s, <2>1, <2>4 DEF DrainSteer, Enter
  <2>5. CASE DrainLast("top")
    BY <1>s, <2>1, <2>2, <2>5 DEF DrainLast, Enter, Stop
  <2> QED BY <1>12, <2>3, <2>4, <2>5 DEF TurnDecide
<1>13. CASE RunEnding BY <1>13, <1>s DEF RunEnding, NoneFailed
<1>14. CASE RunEnd BY <1>14, <1>s DEF RunEnd, RaiseLast, NoneFailed
<1>15. CASE RunFinish BY <1>15 DEF RunFinish, NoneFailed
<1> QED BY <1>1, <1>2, <1>3, <1>4, <1>5, <1>6, <1>7, <1>8, <1>9, <1>10, <1>11,
     <1>12, <1>13, <1>14, <1>15, <1>16 DEF RunStep

\* Outside the run only a report can fail.
LEMMA FailOther ==
    ASSUME [Next]_vars, ~RunStep
    PROVE  \/ UNCHANGED <<fails, queuedErr>> \/ fails' = fails + 1
           \/ \E items, approve, refuse : Start(items, approve, refuse)
<1> USE DEF vars, queueVars, stateVars, flagVars, runVars, pathVars,
            callVars, reportVars, pastVars
<1>1. CASE UNCHANGED vars BY <1>1
<1>2. CASE HostPrompt BY <1>2 DEF HostPrompt
<1>3. ASSUME NEW h \in Hosts, HostStep(h)
      PROVE  \/ UNCHANGED <<fails, queuedErr>> \/ fails' = fails + 1
             \/ \E items, approve, refuse : Start(items, approve, refuse)
  <2>1. CASE ContinueLook(h) \/ ResumeLook(h) \/ StartRefused(h)
    BY <2>1 DEF ContinueLook, ResumeLook, StartRefused
  <2>2. CASE ContinueStart(h) BY <2>2 DEF ContinueStart
  <2>3. ASSUME NEW yes, NEW no, ResumeStart(h, yes, no)
        PROVE  \/ UNCHANGED <<fails, queuedErr>> \/ fails' = fails + 1
               \/ \E items, approve, refuse : Start(items, approve, refuse)
    BY <2>3 DEF ResumeStart
  <2> QED BY <1>3, <2>1, <2>2, <2>3 DEF HostStep
<1>4. CASE (\E i \in Steers : Steer(i)) \/ (\E i \in FollowUps : FollowUp(i))
  BY <1>4 DEF Steer, FollowUp
<1>5. ASSUME NEW d \in Deliveries, AcceptDelivery(d) \/ AcceptInside(d)
      PROVE  \/ UNCHANGED <<fails, queuedErr>> \/ fails' = fails + 1
             \/ \E items, approve, refuse : Start(items, approve, refuse)
  BY <1>5 DEF AcceptDelivery, AcceptInside
<1>6. ASSUME NEW d \in Deliveries, DeliveryStep(d) \/ SettleCancelled(d)
      PROVE  \/ UNCHANGED <<fails, queuedErr>> \/ fails' = fails + 1
             \/ \E items, approve, refuse : Start(items, approve, refuse)
  BY <1>6 DEF DeliveryStep, SettleWait, Settle, SettleStart, SettleCancelled
<1>7. CASE Abort \/ AbortCancel \/ ContextDone
  BY <1>7 DEF Abort, AbortCancel, ContextDone
<1>8. CASE ReportQueued \/ Hold \/ Release
  BY <1>8 DEF ReportQueued, Hold, Release
<1> QED BY <1>1, <1>2, <1>3, <1>4, <1>5, <1>6, <1>7, <1>8 DEF Next

\* The count of failures never falls.
LEMMA FailsGrow ==
    ASSUME TypeOK, [Next]_vars
    PROVE  fails' = fails \/ fails' = fails + 1
<1> USE DEF vars, queueVars, stateVars, flagVars, runVars, pathVars,
            callVars, reportVars, pastVars
<1>1. CASE RunStep
  <2>1. CASE RunStart \/ ItemStart \/ ItemEnd
    BY <2>1 DEF RunStart, ItemStart, ItemEnd, Raise
  <2>2. CASE RunDrain \/ ApprovedBatch \/ RunRefused
    BY <2>2 DEF RunDrain, ApprovedBatch, RunRefused
  <2>3. CASE TurnTop \/ BuildRefused \/ TurnStart
    BY <2>3 DEF TurnTop, BuildRefused, TurnStart, Raise
  <2>4. CASE ModelTurn \/ ToolBatch BY <2>4 DEF ModelTurn, ToolBatch
  <2>5. CASE TurnEnd \/ TurnDecide \/ RunEnding
    BY <2>5 DEF TurnEnd, TurnDecide, RunEnding, Raise
  <2>6. CASE RunEnd \/ RunFinish
    BY <2>6 DEF RunEnd, RunFinish, RaiseLast
  <2> QED BY <1>1, <2>1, <2>2, <2>3, <2>4, <2>5, <2>6 DEF RunStep
<1>2. CASE ~RunStep BY <1>2, FailOther DEF Start
<1> QED BY <1>1, <1>2

\* Every step keeps what was taken, until a subscriber fails.
LEMMA FailNext ==
    ASSUME TypeOK, PathInv, FailInv, [Next]_vars
    PROVE  FailInv'
<1> SUFFICES ASSUME fails' = 0 PROVE NoneFailed'
  BY DEF FailInv
<1>1. fails = 0 /\ NoneFailed
  BY FailsGrow DEF FailInv, TypeOK, CallersOK
<1>2. CASE RunStep BY <1>1, <1>2, FailRunStep
<1>3. ASSUME NEW items, NEW approve, NEW refuse, Start(items, approve, refuse)
      PROVE  NoneFailed'
  BY <1>3 DEF Start, NoneFailed
<1>4. CASE ~RunStep /\ UNCHANGED <<fails, queuedErr>>
  BY <1>1, <1>3, <1>4, OtherSteps DEF NoneFailed
<1> QED BY <1>1, <1>2, <1>3, <1>4, FailOther

\* An item the agent accepted stays somewhere, across drains, ends, aborts
\* and starts, and a run loses one only when a subscriber returned an error.
THEOREM ItemsNotForgotten == Spec => NothingForgotten
<1>1. Init => PathInv BY DEF Init, PathInv, Clear
<1>2. Init => FailInv BY DEF Init, FailInv, NoneFailed
<1>3. ASSUME TypeOK, PathInv, PlaceInv, FailInv, [Next]_vars
      PROVE  /\ Whereabouts \subseteq Whereabouts'
             /\ dropped' # dropped => fails > 0
  <2>1. ASSUME fails = 0, Finishes PROVE dropped' = dropped
    <3>1. inbox = <<>> /\ ItemsOf(working) \subseteq ItemsOf(transcript)
      BY <1>3, <2>1 DEF FailInv, NoneFailed, Finishes
    <3> QED BY <2>1, <3>1, ItemsNone DEF Finishes
  <2>2. fails \in Nat BY <1>3 DEF TypeOK, CallersOK
  <2>3. dropped' = dropped \/ Finishes
    BY <1>3, PlaceKinds DEF PlaceStep, Still, Queues, DrainsInto, Begins,
                            Appends, Takes, Carries
  <2> QED BY <1>3, <2>1, <2>2, <2>3, PlaceNext
<1> QED
  BY <1>1, <1>2, <1>3, TypeInit, TypeNext, PathNext, PlaceInit, PlaceNext,
     FailNext, PTL DEF Spec, NothingForgotten

-----------------------------------------------------------------------------
(* An abort stops the deliveries it found waiting.                         *)

\* Only an abort counts itself and marks deliveries as stopped.
LEMMA AbortStep ==
    ASSUME [Next]_vars
    PROVE  UNCHANGED <<aborts, stopped>> \/ Abort
<1> USE DEF vars, queueVars, stateVars, flagVars, runVars, pathVars,
            callVars, reportVars, pastVars
<1>1. CASE RunStep
  <2>1. CASE RunStart \/ ItemStart \/ ItemEnd
    BY <2>1 DEF RunStart, ItemStart, ItemEnd
  <2>2. CASE RunDrain \/ ApprovedBatch \/ RunRefused
    BY <2>2 DEF RunDrain, ApprovedBatch, RunRefused
  <2>3. CASE TurnTop \/ BuildRefused \/ TurnStart
    BY <2>3 DEF TurnTop, BuildRefused, TurnStart
  <2>4. CASE ModelTurn \/ ToolBatch BY <2>4 DEF ModelTurn, ToolBatch
  <2>5. CASE TurnEnd \/ TurnDecide \/ RunEnding
    BY <2>5 DEF TurnEnd, TurnDecide, RunEnding
  <2>6. CASE RunEnd \/ RunFinish BY <2>6 DEF RunEnd, RunFinish
  <2> QED BY <1>1, <2>1, <2>2, <2>3, <2>4, <2>5, <2>6 DEF RunStep
<1>2. CASE UNCHANGED vars \/ HostPrompt BY <1>2 DEF HostPrompt, Start
<1>3. ASSUME NEW h \in Hosts, HostStep(h)
      PROVE  UNCHANGED <<aborts, stopped>>
  <2>1. CASE ContinueLook(h) \/ ResumeLook(h) \/ StartRefused(h)
    BY <2>1 DEF ContinueLook, ResumeLook, StartRefused
  <2>2. CASE ContinueStart(h) BY <2>2 DEF ContinueStart, Start
  <2>3. ASSUME NEW approve, NEW refuse, ResumeStart(h, approve, refuse)
        PROVE  UNCHANGED <<aborts, stopped>>
    BY <2>3 DEF ResumeStart, Start
  <2> QED BY <1>3, <2>1, <2>2, <2>3 DEF HostStep
<1>4. CASE (\E i \in Steers : Steer(i)) \/ (\E i \in FollowUps : FollowUp(i))
  BY <1>4 DEF Steer, FollowUp
<1>5. ASSUME NEW d \in Deliveries, AcceptDelivery(d) \/ AcceptInside(d)
      PROVE  UNCHANGED <<aborts, stopped>>
  BY <1>5 DEF AcceptDelivery, AcceptInside
<1>6. ASSUME NEW d \in Deliveries, DeliveryStep(d) \/ SettleCancelled(d)
      PROVE  UNCHANGED <<aborts, stopped>>
  BY <1>6 DEF DeliveryStep, SettleWait, Settle, SettleStart, Start,
              SettleCancelled
<1>7. CASE ReportQueued \/ AbortCancel \/ ContextDone \/ Hold \/ Release
  BY <1>7 DEF ReportQueued, AbortCancel, ContextDone, Hold, Release
<1> QED BY <1>1, <1>2, <1>3, <1>4, <1>5, <1>6, <1>7 DEF Next

\* A delivery is new only before it is accepted.
LEMMA NewWas ==
    ASSUME TypeOK, PathInv, PlaceInv, [Next]_vars, NEW d \in Deliveries,
           dpc'[d] = "new"
    PROVE  dpc[d] = "new"
  BY PlaceKinds DEF PlaceStep, Still, Queues, DrainsInto, Begins, Appends,
                    Takes, Carries, Finishes, SameNew

\* Every step keeps the aborts that the marks do not know of.
LEMMA AbortNext ==
    ASSUME TypeOK, PathInv, PlaceInv, AbortInv, [Next]_vars
    PROVE  AbortInv'
<1>t. /\ aborts \in Nat
      /\ mark \in [Deliveries -> [drains : Nat, end : Nat, aborts : Nat]]
  BY DEF TypeOK, AgentOK, CallersOK
<1>1. CASE Abort
  <2>1. aborts' = aborts + 1 /\ UNCHANGED <<dpc, mark>>
        /\ stopped' = stopped \cup {d \in Deliveries :
                          dpc[d] \in {"check", "wait"} /\ d \in Elems(steer)}
    BY <1>1 DEF Abort
  <2> QED BY <1>t, <2>1 DEF AbortInv, Waiting
<1>2. CASE UNCHANGED <<aborts, stopped>>
  <2> SUFFICES ASSUME NEW d \in Deliveries
               PROVE  /\ Waiting(d)' =>
                            /\ mark'[d].aborts <= aborts
                            /\ d \in stopped => mark'[d].aborts < aborts
                      /\ d \in stopped => dpc'[d] # "new"
    BY <1>2 DEF AbortInv
  <2>1. d \in stopped => dpc'[d] # "new" BY NewWas DEF AbortInv
  <2>2. CASE Quiet \/ Drained
    BY <2>1, <2>2 DEF Quiet, Drained, NoneNew, AbortInv
  <2>3. ASSUME NEW i \in Steers, Steered(i)
        PROVE  UNCHANGED <<mark, dpc>>
    BY <2>3 DEF Steered
  <2>4. ASSUME NEW e \in Deliveries, Accepts(e)
        PROVE  Waiting(d)' => /\ mark'[d].aborts <= aborts
                              /\ d \in stopped => mark'[d].aborts < aborts
    <3>1. CASE d = e
      <4>1. d \notin stopped BY <2>4, <3>1 DEF Accepts, AbortInv
      <4>2. mark'[d].aborts = aborts BY <1>t, <2>4, <3>1 DEF Accepts
      <4> QED BY <1>t, <4>1, <4>2
    <3>2. CASE d # e BY <1>t, <2>4, <3>2 DEF Accepts, AbortInv
    <3> QED BY <3>1, <3>2
  <2>5. CASE UNCHANGED <<mark, dpc>> BY <2>1, <2>5 DEF AbortInv, Waiting
  <2> QED BY <2>1, <2>2, <2>3, <2>4, <2>5, StepKinds
<1> QED BY <1>1, <1>2, AbortStep

\* A step of the run only wakes deliveries, or answers the one that started
\* it.
LEMMA WokenBy ==
    ASSUME RunStep
    PROVE  UNCHANGED dpc \/ dpc' = Signalled \/ dpc' = Finished
<1> USE DEF vars, queueVars, stateVars, flagVars, runVars, pathVars,
            callVars, reportVars, pastVars
<1>1. CASE RunStart \/ ItemStart \/ ItemEnd
  BY <1>1 DEF RunStart, ItemStart, ItemEnd
<1>2. CASE RunDrain \/ ApprovedBatch \/ RunRefused
  BY <1>2 DEF RunDrain, DrainSteer, ApprovedBatch, RunRefused
<1>3. CASE TurnTop \/ BuildRefused \/ TurnStart
  BY <1>3 DEF TurnTop, BuildRefused, TurnStart
<1>4. CASE ModelTurn \/ ToolBatch BY <1>4 DEF ModelTurn, ToolBatch
<1>5. CASE TurnEnd \/ TurnDecide \/ RunEnding
  BY <1>5 DEF TurnEnd, TurnDecide, StopClosing, DrainSteer, DrainLast,
              RunEnding
<1>6. CASE RunEnd \/ RunFinish BY <1>6 DEF RunEnd, RunFinish
<1> QED BY <1>1, <1>2, <1>3, <1>4, <1>5, <1>6 DEF RunStep

\* The other steps that move a delivery are its own.
LEMMA DeliveryMoves ==
    ASSUME [Next]_vars, ~RunStep
    PROVE  \/ UNCHANGED dpc
           \/ \E d \in Deliveries :
                 \/ AcceptDelivery(d) \/ AcceptInside(d) \/ SettleCancelled(d)
                 \/ DeliveryStep(d)
<1> USE DEF vars, queueVars, stateVars, flagVars, runVars, pathVars,
            callVars, reportVars, pastVars
<1>1. CASE UNCHANGED vars \/ HostPrompt BY <1>1 DEF HostPrompt
<1>2. ASSUME NEW h \in Hosts, HostStep(h) PROVE UNCHANGED dpc
  BY <1>2 DEF HostStep, ContinueLook, ContinueStart, ResumeLook, ResumeStart,
              StartRefused
<1>3. CASE (\E i \in Steers : Steer(i)) \/ (\E i \in FollowUps : FollowUp(i))
  BY <1>3 DEF Steer, FollowUp
<1>4. CASE ReportQueued \/ Abort \/ AbortCancel \/ ContextDone \/ Hold \/ Release
  BY <1>4 DEF ReportQueued, Abort, AbortCancel, ContextDone, Hold, Release
<1> QED BY <1>1, <1>2, <1>3, <1>4 DEF Next

\* A delivery comes to run only by starting a run.
LEMMA RunsByStart ==
    ASSUME TypeOK, [Next]_vars, NEW d \in Deliveries, dpc'[d] = "run"
    PROVE  dpc[d] = "run" \/ SettleStart(d)
<1> USE DEF vars, queueVars, stateVars, flagVars, runVars, pathVars,
            callVars, reportVars, pastVars
<1>t. dpc \in [Deliveries -> {"new", "check", "wait", "run", "done"}]
  BY DEF TypeOK, CallersOK
<1>1. CASE UNCHANGED dpc BY <1>1
<1>2. CASE dpc' = Signalled \/ dpc' = Finished
  BY <1>2 DEF Signalled, Finished
<1>3. CASE RunStep
  <2>1. UNCHANGED dpc \/ dpc' = Signalled \/ dpc' = Finished
    BY <1>3, WokenBy
  <2> QED BY <1>1, <1>2, <2>1
<1>4. ASSUME NEW e \in Deliveries, AcceptDelivery(e) \/ AcceptInside(e)
                \/ SettleCancelled(e) \/ SettleWait(e) \/ Settle(e)
      PROVE  dpc[d] = "run"
  BY <1>4, <1>t DEF AcceptDelivery, AcceptInside, SettleCancelled, SettleWait,
                    Settle
<1>5. ASSUME NEW e \in Deliveries, SettleStart(e)
      PROVE  dpc[d] = "run" \/ SettleStart(d)
  BY <1>5, <1>t DEF SettleStart
<1>6. \/ UNCHANGED dpc \/ RunStep
      \/ \E e \in Deliveries :
            \/ AcceptDelivery(e) \/ AcceptInside(e) \/ SettleCancelled(e)
            \/ SettleWait(e) \/ Settle(e) \/ SettleStart(e)
  BY DeliveryMoves DEF DeliveryStep
<1> QED BY <1>1, <1>3, <1>4, <1>5, <1>6

\* Once Abort has found a delivery's item in the queue, that delivery starts
\* no run, however many runs, aborts and other deliveries come between.
THEOREM AbortsHold == Spec => AbortStopsDelivery
<1>1. Init => PathInv BY DEF Init, PathInv, Clear
<1>2. Init => AbortInv BY DEF Init, AbortInv, Waiting
<1>3. ASSUME TypeOK, AbortInv, [Next]_vars
      PROVE  \A d \in stopped : dpc'[d] = "run" => dpc[d] = "run"
  <2> SUFFICES ASSUME NEW d \in stopped, dpc'[d] = "run", SettleStart(d)
               PROVE  FALSE
    BY <1>3, RunsByStart DEF TypeOK, PastOK
  <2>1. d \in Deliveries /\ aborts \in Nat /\ mark[d].aborts \in Nat
    BY <1>3 DEF TypeOK, PastOK, AgentOK, CallersOK
  <2>2. aborts = mark[d].aborts
    BY DEF SettleStart, IdleOutcome, Refusal, AbortedSince
  <2>3. mark[d].aborts < aborts
    BY <1>3, <2>1 DEF SettleStart, AbortInv, Waiting
  <2> QED BY <2>1, <2>2, <2>3
<1> QED
  BY <1>1, <1>2, <1>3, TypeInit, TypeNext, PathNext, PlaceInit, PlaceNext,
     AbortNext, PTL DEF Spec, AbortStopsDelivery

-----------------------------------------------------------------------------
(* The agent implements Mailbox.                                           *)

\* A delivered item has a place once its delivery is accepted.
LEMMA PlaceIs ==
    ASSUME ListsOK, PlaceInv, NEW d \in Deliveries
    PROVE  /\ Place[d] \in {"new", "queued", "taken", "carried", "lost"}
           /\ Place[d] = "queued" <=> d \in Elems(steer)
           /\ Place[d] = "new" <=> d \notin Whereabouts
           /\ d \in carried => Place[d] = "carried"
           /\ d \in dropped \ carried => Place[d] = "lost"
           /\ Place[d] = "taken" <=> d \in Held \ (carried \cup dropped)
           /\ d \notin Elems(followUp)
<1>1. carried \cup dropped \subseteq Held BY DEF PlaceInv, Held
<1>2. QueuedItems \cap Held = {} BY OnePlaceIs DEF PlaceInv, OnePlace
<1>3. d \notin Elems(followUp) BY DEF ListsOK
<1>4. Elems(steer) \subseteq QueuedItems /\ Elems(followUp) \subseteq QueuedItems
      /\ QueuedItems = Elems(steer) \cup Elems(followUp)
  BY DEF QueuedItems
<1>5. Whereabouts = QueuedItems \cup Held BY DEF Whereabouts
<1> QED BY <1>1, <1>2, <1>3, <1>4, <1>5 DEF Place

\* A step that leaves the queue, what was carried, what was lost and the
\* items that are somewhere leaves the places.
LEMMA PlaceSame ==
    ASSUME UNCHANGED <<steer, carried, dropped>>, Whereabouts' = Whereabouts
    PROVE  Place' = Place
  BY DEF Place

\* Queueing a delivered item puts it in the mailbox.
LEMMA PlacePut ==
    ASSUME ListsOK, PlaceInv, NEW i \in Item, Queues(i)
    PROVE  /\ i \in Deliveries => /\ Place[i] = "new"
                                  /\ Place' = [Place EXCEPT ![i] = "queued"]
           /\ i \notin Deliveries => Place' = Place
<1>1. Whereabouts' = Whereabouts \cup {i} /\ UNCHANGED <<carried, dropped>>
  BY PlaceQueues DEF Queues
<1>2. CASE i \in Deliveries
  <2>1. steer' = Append(steer, i) BY <1>2, ItemAssumption DEF Queues
  <2>2. Elems(steer') = Elems(steer) \cup {i}
    BY <2>1, ElemsAppend DEF ListsOK
  <2>3. Place[i] = "new" BY <1>2, PlaceIs DEF Queues
  <2>4. Place' = [Place EXCEPT ![i] = "queued"]
    BY <1>1, <1>2, <2>2 DEF Place
  <2> QED BY <1>2, <2>3, <2>4
<1>3. CASE i \notin Deliveries
  <2>1. \A d \in Deliveries : d \in Elems(steer') <=> d \in Elems(steer)
    <3>1. steer' = steer \/ Elems(steer') = Elems(steer) \cup {i}
      BY ZenonT(60), ElemsAppend DEF Queues, ListsOK
    <3> QED BY <1>3, <3>1
  <2> QED BY <1>1, <1>3, <2>1 DEF Place
<1> QED BY <1>2, <1>3

\* A drain takes all that is queued.
LEMMA PlaceTake ==
    ASSUME ListsOK, PlaceInv, NEW q \in Seq(Item), DrainsInto(q)
    PROVE  Place' = [d \in Deliveries |->
                        IF Place[d] = "queued" THEN "taken" ELSE Place[d]]
<1>1. Whereabouts' = Whereabouts /\ UNCHANGED <<carried, dropped>>
  BY PlaceDrains DEF DrainsInto
<1>2. Elems(steer') = {} BY DEF DrainsInto, Elems
<1>3. \A d \in Elems(steer) : d \in Whereabouts /\ d \notin carried \cup dropped
  <2>1. carried \cup dropped \subseteq Held BY DEF PlaceInv, Held
  <2>2. QueuedItems \cap Held = {} BY OnePlaceIs DEF PlaceInv, OnePlace
  <2> QED BY <2>1, <2>2 DEF QueuedItems, Whereabouts
<1> QED BY <1>1, <1>2, <1>3 DEF Place

\* A request carries all that was taken.
LEMMA PlaceCarry ==
    ASSUME ListsOK, PlaceInv, Carries
    PROVE  Place' = [d \in Deliveries |->
                        IF Place[d] = "taken" THEN "carried" ELSE Place[d]]
<1>1. /\ UNCHANGED <<steer, dropped, Whereabouts>>
      /\ carried' = carried \cup ItemsOf(working)
  BY PlaceCarries DEF Carries
<1>2. /\ Held = ItemsOf(working) \cup dropped
      /\ dropped \cap ItemsOf(working) = {}
      /\ QueuedItems \cap Held = {}
  <2>1. ItemsOf(inbox) = {} /\ ItemsOf(transcript) \subseteq ItemsOf(working)
    BY ItemsNone DEF Carries, PlaceInv
  <2>2. OnePlace BY OnePlaceIs DEF PlaceInv
  <2> QED BY <2>1, <2>2 DEF Held, OnePlace
<1>3. \A d \in Deliveries : Place[d] = "taken" <=> d \in ItemsOf(working) \ carried
  BY <1>2, PlaceIs
<1>4. \A d \in ItemsOf(working) : d \notin Elems(steer)
  BY <1>2 DEF QueuedItems
<1> QED BY <1>1, <1>3, <1>4 DEF Place

\* The end of a run loses only what it took.
LEMMA PlaceLose ==
    ASSUME ListsOK, PlaceInv, Finishes
    PROVE  LET S == {d \in Deliveries : Place[d] = "taken" /\ d \in dropped'}
           IN  Place' = [d \in Deliveries |-> IF d \in S THEN "lost" ELSE Place[d]]
<1>1. UNCHANGED <<steer, carried, Whereabouts>> /\ dropped \subseteq dropped'
  BY PlaceFinishes DEF Finishes
<1>2. dropped' \ dropped \subseteq Held BY DEF Finishes, Held
<1>3. QueuedItems \cap Held = {} BY OnePlaceIs DEF PlaceInv, OnePlace
<1>4. \A d \in Deliveries : /\ Place[d] = "taken" => d \notin carried
                            /\ d \in dropped' \ (dropped \cup carried) =>
                                  Place[d] = "taken"
  BY <1>2, PlaceIs
<1>5. \A d \in dropped' \ dropped : d \notin Elems(steer)
  BY <1>2, <1>3 DEF QueuedItems
<1>6. \A d \in Deliveries : Place[d] = "taken" => d \notin Elems(steer)
  BY PlaceIs
<1> QED BY <1>1, <1>4, <1>5, <1>6 DEF Place

\* The steps that answer a delivery.
LEMMA AnswerSteps ==
    ASSUME [Next]_vars
    PROVE  \/ UNCHANGED outcome \/ RunFinish
           \/ \E d \in Deliveries :
                 AcceptInside(d) \/ Settle(d) \/ SettleCancelled(d)
<1> USE DEF vars, queueVars, stateVars, flagVars, runVars, pathVars,
            callVars, reportVars, pastVars
<1>1. CASE RunStep
  <2>1. CASE RunStart \/ ItemStart \/ ItemEnd
    BY <2>1 DEF RunStart, ItemStart, ItemEnd
  <2>2. CASE RunDrain \/ ApprovedBatch \/ RunRefused
    BY <2>2 DEF RunDrain, ApprovedBatch, RunRefused
  <2>3. CASE TurnTop \/ BuildRefused \/ TurnStart
    BY <2>3 DEF TurnTop, BuildRefused, TurnStart
  <2>4. CASE ModelTurn \/ ToolBatch BY <2>4 DEF ModelTurn, ToolBatch
  <2>5. CASE TurnEnd \/ TurnDecide \/ RunEnding
    BY <2>5 DEF TurnEnd, TurnDecide, RunEnding
  <2>6. CASE RunEnd \/ RunFinish BY <2>6 DEF RunEnd
  <2> QED BY <1>1, <2>1, <2>2, <2>3, <2>4, <2>5, <2>6 DEF RunStep
<1>2. CASE UNCHANGED vars \/ HostPrompt BY <1>2 DEF HostPrompt
<1>3. ASSUME NEW h \in Hosts, HostStep(h) PROVE UNCHANGED outcome
  BY <1>3 DEF HostStep, ContinueLook, ContinueStart, ResumeLook, ResumeStart,
              StartRefused
<1>4. CASE (\E i \in Steers : Steer(i)) \/ (\E i \in FollowUps : FollowUp(i))
  BY <1>4 DEF Steer, FollowUp
<1>5. ASSUME NEW d \in Deliveries,
             AcceptDelivery(d) \/ SettleWait(d) \/ SettleStart(d)
      PROVE  UNCHANGED outcome
  BY <1>5 DEF AcceptDelivery, SettleWait, SettleStart
<1>6. CASE ReportQueued \/ Abort \/ AbortCancel \/ ContextDone \/ Hold \/ Release
  BY <1>6 DEF ReportQueued, Abort, AbortCancel, ContextDone, Hold, Release
<1> QED BY <1>1, <1>2, <1>3, <1>4, <1>5, <1>6 DEF Next, DeliveryStep

\* A delivery that is done stays so.
LEMMA DoneStays ==
    ASSUME TypeOK, [Next]_vars, NEW d \in Deliveries, dpc[d] = "done"
    PROVE  dpc'[d] = "done"
<1> USE DEF vars, queueVars, stateVars, flagVars, runVars, pathVars,
            callVars, reportVars, pastVars
<1>t. dpc \in [Deliveries -> {"new", "check", "wait", "run", "done"}]
  BY DEF TypeOK, CallersOK
<1>1. CASE RunStep
  <2>1. UNCHANGED dpc \/ dpc' = Signalled \/ dpc' = Finished
    BY <1>1, WokenBy
  <2> QED BY <2>1 DEF Signalled, Finished
<1>2. ASSUME NEW e \in Deliveries, AcceptDelivery(e) \/ AcceptInside(e)
                \/ SettleCancelled(e) \/ DeliveryStep(e)
      PROVE  dpc'[d] = "done"
  BY <1>2, <1>t DEF AcceptDelivery, AcceptInside, Accept, SettleCancelled,
                    DeliveryStep, SettleWait, Settle, SettleStart
<1>3. \/ UNCHANGED dpc \/ RunStep
      \/ \E e \in Deliveries :
            AcceptDelivery(e) \/ AcceptInside(e) \/ SettleCancelled(e)
            \/ DeliveryStep(e)
  BY DeliveryMoves
<1> QED BY <1>1, <1>2, <1>3

\* Every step answers only deliveries that are then done.
LEMMA AnswerNext ==
    ASSUME TypeOK, AnswerInv, [Next]_vars
    PROVE  AnswerInv'
<1> SUFFICES ASSUME NEW d \in Deliveries, dpc'[d] # "done"
             PROVE  outcome'[d] = "none"
  BY DEF AnswerInv
<1>t. /\ dpc \in [Deliveries -> {"new", "check", "wait", "run", "done"}]
      /\ outcome \in [Deliveries -> Outcomes]
  BY DEF TypeOK, CallersOK
<1>1. outcome[d] = "none" BY DoneStays DEF AnswerInv
<1>2. CASE RunFinish BY <1>1, <1>2 DEF RunFinish, Finished
<1>3. ASSUME NEW e \in Deliveries,
             AcceptInside(e) \/ Settle(e) \/ SettleCancelled(e)
      PROVE  outcome'[d] = "none"
  BY <1>t, <1>1, <1>3 DEF AcceptInside, Settle, SettleCancelled
<1> QED BY <1>1, <1>2, <1>3, AnswerSteps

\* An answer that is settled is true of where the item is.
LEMMA SettleIsTrue ==
    ASSUME TypeOK, PlaceInv, MarkInv, TakenInv, AnswerInv, NEW d \in Deliveries,
           Settle(d)
    PROVE  MB!Settle(d)
<1> DEFINE o == IF Seen(d) THEN "joined" ELSE IdleOutcome(d)
<1>t. /\ outcome \in [Deliveries -> Outcomes] /\ Waiting(d)
      /\ drains \in Nat /\ seen \in Nat /\ mark[d].drains \in Nat
  BY DEF TypeOK, CallersOK, AgentOK, Settle, Waiting
<1>l. ListsOK BY ListsType
<1>1. outcome[d] = "none" /\ outcome' = [outcome EXCEPT ![d] = o] /\ o # "start"
  BY DEF Settle, AnswerInv
<1>2. Place' = Place
  <2>1. UNCHANGED <<steer, followUp, inbox, working, transcript, carried, dropped>>
    BY DEF Settle, queueVars, pathVars, stateVars, pastVars
  <2>2. Whereabouts' = Whereabouts
    BY <2>1 DEF Whereabouts, QueuedItems, Held
  <2> QED BY <2>1, <2>2, PlaceSame
<1>3. /\ o \in LeftQueued \cup {"joined", "taken"}
      /\ Place[d] \in MB!Truth(o)
  <2>1. CASE Seen(d)
    <3>1. d \in carried \cup dropped BY <1>t, <2>1 DEF Seen, TakenInv
    <3>2. Place[d] \in {"carried", "lost"} BY <1>l, <3>1, PlaceIs
    <3> QED BY <2>1, <3>2 DEF MB!Truth
  <2>2. CASE ~Seen(d) /\ drains # mark[d].drains
    <3>1. d \notin Elems(steer) BY <1>t, <2>2 DEF MarkInv
    <3>2. d \in Whereabouts BY <1>t DEF PlaceInv, Waiting
    <3>3. Place[d] \in {"taken", "carried", "lost"}
      BY <1>l, <3>1, <3>2, PlaceIs
    <3>4. o = "taken" BY <2>2 DEF IdleOutcome
    <3> QED BY <3>3, <3>4 DEF MB!Truth
  <2>3. CASE ~Seen(d) /\ drains = mark[d].drains
    <3>1. Place[d] = "queued" BY <1>l, <1>t, <2>3, PlaceIs DEF MarkInv
    <3>2. o \in LeftQueued
      BY <1>1, <2>3 DEF IdleOutcome, Refusal, LeftQueued
    <3>3. MB!Truth(o) = {"queued"} BY <3>2 DEF MB!Truth, LeftQueued
    <3> QED BY <3>1, <3>2, <3>3
  <2> QED BY <2>1, <2>2, <2>3
<1> HIDE DEF o
<1> QED BY <1>1, <1>2, <1>3 DEF MB!Settle, MB!LeftQueued, LeftQueued

\* Every step of the agent is a step of the mailbox, or leaves it alone.
LEMMA MailboxStep ==
    ASSUME TypeOK, PathInv, PlaceInv, MarkInv, TakenInv, AnswerInv, [Next]_vars
    PROVE  [MB!Next]_<<Place, outcome>>
<1>l. ListsOK BY ListsType
<1>t. outcome \in [Deliveries -> Outcomes] BY DEF TypeOK, CallersOK
<1>1. CASE UNCHANGED outcome
  <2>1. CASE Still \/ Begins \/ Appends \/ Takes
    <3>1. UNCHANGED <<steer, carried, dropped>> /\ Whereabouts' = Whereabouts
      BY <1>l, <2>1, PlaceStill, PlaceBegins, PlaceAppends, PlaceTakes
         DEF Still, Begins, Appends, Takes
    <3> QED BY <1>1, <3>1, PlaceSame
  <2>2. ASSUME NEW i \in Item, Queues(i)
        PROVE  [MB!Next]_<<Place, outcome>>
    <3>1. CASE i \in Deliveries
      BY <1>1, <1>l, <2>2, <3>1, PlacePut DEF MB!Next, MB!Put
    <3>2. CASE i \notin Deliveries BY <1>1, <1>l, <2>2, <3>2, PlacePut
    <3> QED BY <3>1, <3>2
  <2>3. ASSUME NEW q \in Seq(Item), DrainsInto(q)
        PROVE  MB!Take
    BY <1>1, <1>l, <2>3, PlaceTake DEF MB!Take, MB!Moved
  <2>4. CASE Carries
    BY <1>1, <1>l, <2>4, PlaceCarry DEF MB!Next, MB!Carry, MB!Moved
  <2>5. CASE Finishes
    <3> DEFINE S == {d \in Deliveries : Place[d] = "taken" /\ d \in dropped'}
    <3>1. Place' = [d \in Deliveries |-> IF d \in S THEN "lost" ELSE Place[d]]
      BY <1>l, <2>5, PlaceLose
    <3>2. S \in SUBSET {d \in Deliveries : Place[d] = "taken"} OBVIOUS
    <3> DEFINE A == {d \in Deliveries : FALSE}
    <3>3. outcome' = [d \in Deliveries |-> IF d \in A THEN "ran" ELSE outcome[d]]
      BY <1>1, <1>t
    <3>4. A \in SUBSET {d \in Deliveries : outcome[d] = "none" /\ Place[d] # "new"}
      OBVIOUS
    <3> HIDE DEF S, A
    <3> QED BY <3>1, <3>2, <3>3, <3>4 DEF MB!Next, MB!EndRun
  <2> QED BY <2>1, <2>2, <2>3, <2>4, <2>5, PlaceKinds DEF PlaceStep, MB!Next
<1>2. CASE RunFinish
  <2>1. running BY <1>2 DEF RunFinish, PathInv
  <2>2. SameNew BY <1>2, SignalledNew DEF RunFinish, SameNew
  <2>3. Finishes
    BY <1>2, <2>1, <2>2 DEF RunFinish, Finishes, queueVars, stateVars
  <2> DEFINE S == {d \in Deliveries : Place[d] = "taken" /\ d \in dropped'}
             A == {d \in Deliveries : dpc[d] = "run"}
  <2>4. Place' = [d \in Deliveries |-> IF d \in S THEN "lost" ELSE Place[d]]
    BY <1>l, <2>3, PlaceLose
  <2>5. S \in SUBSET {d \in Deliveries : Place[d] = "taken"} OBVIOUS
  <2>6. outcome' = [d \in Deliveries |-> IF d \in A THEN "ran" ELSE outcome[d]]
    BY <1>2 DEF RunFinish
  <2>7. A \in SUBSET {d \in Deliveries : outcome[d] = "none" /\ Place[d] # "new"}
    BY <1>l, PlaceIs DEF AnswerInv, PlaceInv
  <2> HIDE DEF S, A
  <2> QED BY <2>4, <2>5, <2>6, <2>7 DEF MB!Next, MB!EndRun
<1>3. ASSUME NEW d \in Deliveries, AcceptInside(d) PROVE MB!Next
  <2>1. Queues(d)
    <3>1. d \notin Whereabouts
      BY <1>3 DEF AcceptInside, Accept, PlaceInv
    <3>2. \A e \in Deliveries : dpc'[e] = "new" <=> dpc[e] = "new" /\ e # d
      BY <1>3 DEF AcceptInside, TypeOK, CallersOK
    <3> QED
      BY <1>3, <3>1, <3>2 DEF AcceptInside, Accept, Queues, stateVars, flagVars,
                              pathVars, pastVars
  <2>2. Place[d] = "new" /\ Place' = [Place EXCEPT ![d] = "queued"]
    BY <1>l, <2>1, PlacePut DEF Item
  <2>3. \E a \in {"joinedInside", "ErrRunning"} :
            outcome' = [outcome EXCEPT ![d] = a]
    BY <1>3 DEF AcceptInside
  <2> QED BY <2>2, <2>3 DEF MB!Next, MB!PutInside
<1>4. ASSUME NEW d \in Deliveries, Settle(d) PROVE MB!Next
  BY <1>4, SettleIsTrue DEF MB!Next
<1>5. ASSUME NEW d \in Deliveries, SettleCancelled(d) PROVE MB!Next
  <2>1. UNCHANGED <<steer, followUp, inbox, working, transcript, carried, dropped>>
    BY <1>5 DEF SettleCancelled, queueVars, pathVars, stateVars, pastVars
  <2>2. Place' = Place
    <3>1. Whereabouts' = Whereabouts
      BY <2>1 DEF Whereabouts, QueuedItems, Held
    <3> QED BY <2>1, <3>1, PlaceSame
  <2>3. outcome[d] = "none" /\ d \in Whereabouts
        /\ outcome' = [outcome EXCEPT ![d] = "cancelled"]
    BY <1>5 DEF SettleCancelled, AnswerInv, PlaceInv
  <2>4. Place[d] \in MB!Truth("cancelled")
    BY <1>l, <2>3, PlaceIs DEF MB!Truth, MB!Places
  <2> QED BY <2>2, <2>3, <2>4 DEF MB!Next, MB!Settle
<1> QED BY <1>1, <1>2, <1>3, <1>4, <1>5, AnswerSteps

\* The agent keeps what Deliver and Accept promise, for any number of
\* deliveries, steers, follow-ups, hosts, runs, failures and aborts: each
\* answer is true of where the item is when it is given, a drain takes all
\* that is queued and a request carries all that was taken.
THEOREM AgentImplementsMailbox == Spec => ImplementsMailbox
<1>1. Init => PathInv /\ TakenInv /\ MarkInv /\ AnswerInv
  BY DEF Init, PathInv, Clear, TakenInv, MarkInv, Waiting, AnswerInv
<1>2. Init => MB!Init
  <2> SUFFICES ASSUME Init PROVE MB!Init
    OBVIOUS
  <2>1. ItemsOf(<<>>) = {} /\ Elems(<<>>) = {} BY ItemsNone DEF Elems
  <2>2. Whereabouts = {}
    BY <2>1 DEF Init, Whereabouts, QueuedItems, Held
  <2> QED BY <2>1, <2>2 DEF Init, MB!Init, Place
<1> QED
  BY <1>1, <1>2, TypeInit, TypeNext, PathNext, PlaceInit, PlaceNext, MarkNext,
     TakenNext, AnswerNext, MailboxStep, PTL DEF Spec, ImplementsMailbox, MB!Spec
-----------------------------------------------------------------------------
(* The conversation: the inductive invariant.                              *)

\* Where the loop is, or goes on once it has appended what it had to.
At == IF pc \in {"run_start", "append", "item_end"} THEN after ELSE pc

\* What the run's transcript comes to with what it has yet to append.
Full == working \o inbox

Conversation == IF running THEN Full ELSE transcript

\* A list that a model can be asked to go on from.
Answerable(t) == t # <<>> /\ t[Len(t)].k \notin {"answer", "call"}

\* No call has two outputs in a list.
OutsOnce(t) == \A i, j \in DOMAIN t : t[i].k = "out" /\ t[i] = t[j] => i = j

\* A list is of calls that were made.
Known(t, n) == \A i \in DOMAIN t : t[i].k \in {"call", "out"} => t[i].id <= n

\* While every event is dispatched, the agent holds what the loop does.
SyncInv ==
    ~skipped =>
        /\ running /\ pc # "item_end" => transcript = working
        /\ pc = "item_end" => working = Append(transcript, working[Len(working)])
        /\ pc = "finish" => pending = Unanswered(working)
        /\ ~running => pending = Unanswered(transcript)

\* A Resume has calls to answer.
HostInv == \A h \in Hosts : host[h].op = "resume" => host[h].calls # {}

\* The calls a conversation leaves open at each point of the loop.
OpenAt(at, t) ==
    /\ at \in {"top", "turn_start"} => Answerable(t) /\ Unanswered(t) = {}
    /\ at = "drain" => Unanswered(t) = {} /\ (steer # <<>> \/ Answerable(t))
    /\ at = "approved" => Unanswered(t) = approved /\ approved # {}
    /\ at = "model" => Unanswered(t) = {}
    /\ at = "batch" => Unanswered(t) = {calls}
    /\ at \in {"turn_end", "decide"} /\ batch # "deferred" => Unanswered(t) = {}
    /\ at \in {"turn_end", "decide"} /\ batch = "answered" => Answerable(t)

\* Unless an event was lost or a look was stale, no call is answered twice,
\* and only those the loop is about to answer are open.
WholeInv ==
    ~skipped /\ ~raced =>
        /\ OutsOnce(Conversation) /\ Known(Conversation, calls)
        /\ OpenAt(At, Full)

-----------------------------------------------------------------------------
(* Lists of entries, and the calls they leave open.                        *)

\* What one list after another holds, and where.
LEMMA CatIs ==
    ASSUME NEW T, NEW s \in Seq(T), NEW t \in Seq(T)
    PROVE  /\ s \o t \in Seq(T) /\ Len(s \o t) = Len(s) + Len(t)
           /\ DOMAIN s = 1..Len(s) /\ DOMAIN t = 1..Len(t)
           /\ Len(s) \in Nat /\ Len(t) \in Nat
           /\ \A i \in DOMAIN s : i \in DOMAIN (s \o t) /\ (s \o t)[i] = s[i]
           /\ \A i \in DOMAIN t : /\ i + Len(s) \in DOMAIN (s \o t)
                                  /\ (s \o t)[i + Len(s)] = t[i]
           /\ \A i \in DOMAIN (s \o t) : i \notin DOMAIN s =>
                 i - Len(s) \in DOMAIN t /\ (s \o t)[i] = t[i - Len(s)]
           /\ Elems(s \o t) = Elems(s) \cup Elems(t)
<1>1. /\ Len(s) \in Nat /\ Len(t) \in Nat /\ s \o t \in Seq(T)
      /\ Len(s \o t) = Len(s) + Len(t)
      /\ DOMAIN s = 1..Len(s) /\ DOMAIN t = 1..Len(t)
      /\ DOMAIN (s \o t) = 1..(Len(s) + Len(t))
  OBVIOUS
<1>2. /\ \A i \in DOMAIN s : i \in DOMAIN (s \o t) /\ (s \o t)[i] = s[i]
      /\ \A i \in DOMAIN t : /\ i + Len(s) \in DOMAIN (s \o t)
                             /\ (s \o t)[i + Len(s)] = t[i]
      /\ \A i \in DOMAIN (s \o t) : i \notin DOMAIN s =>
            i - Len(s) \in DOMAIN t /\ (s \o t)[i] = t[i - Len(s)]
  BY <1>1
<1> DEFINE c == s \o t
<1>3. /\ \A i \in DOMAIN s : i \in DOMAIN c /\ c[i] = s[i]
      /\ \A i \in DOMAIN t : i + Len(s) \in DOMAIN c /\ c[i + Len(s)] = t[i]
      /\ \A i \in DOMAIN c : i \notin DOMAIN s =>
            i - Len(s) \in DOMAIN t /\ c[i] = t[i - Len(s)]
  BY <1>2
<1> HIDE DEF c
<1>4. Elems(c) \subseteq Elems(s) \cup Elems(t) BY <1>3 DEF Elems
<1>5. Elems(s) \subseteq Elems(c) /\ Elems(t) \subseteq Elems(c)
  BY <1>3 DEF Elems
<1>6. Elems(c) = Elems(s) \cup Elems(t) BY <1>4, <1>5
<1> QED BY <1>1, <1>2, <1>6 DEF c

\* The open calls of a list, by what it holds.
LEMMA OpenIs ==
    ASSUME NEW t \in Seq(Entry), NEW c
    PROVE  c \in Unanswered(t) <=> Call(c) \in Elems(t) /\ Out(c) \notin Elems(t)
<1>1. \A i \in DOMAIN t : t[i] \in Entry OBVIOUS
<1>2. ASSUME c \in Unanswered(t)
      PROVE  Call(c) \in Elems(t) /\ Out(c) \notin Elems(t)
  <2>1. PICK i \in DOMAIN t : /\ t[i].k = "call" /\ t[i].id = c
                              /\ \A m \in DOMAIN t : t[m] # Out(c)
    BY <1>2 DEF Unanswered
  <2>2. t[i] = Call(c) BY <1>1, <2>1 DEF Call, Entry
  <2> QED BY <2>1, <2>2 DEF Elems
<1>3. ASSUME Call(c) \in Elems(t), Out(c) \notin Elems(t)
      PROVE  c \in Unanswered(t)
  <2>1. PICK i \in DOMAIN t : t[i] = Call(c) BY <1>3 DEF Elems
  <2>2. t[i].k = "call" /\ t[i].id = c BY <2>1 DEF Call
  <2>3. \A m \in DOMAIN t : t[m] # Out(c) BY <1>3 DEF Elems
  <2> QED BY <2>2, <2>3 DEF Unanswered
<1> QED BY <1>2, <1>3

\* A list that holds no call.
NoCalls(t) == \A i \in DOMAIN t : t[i].k # "call"

\* A list without calls answers the ones it holds the outputs of.
LEMMA OpenCat ==
    ASSUME NEW s \in Seq(Entry), NEW t \in Seq(Entry), NoCalls(t)
    PROVE  Unanswered(s \o t) = {c \in Unanswered(s) : Out(c) \notin Elems(t)}
<1>1. s \o t \in Seq(Entry) /\ Elems(s \o t) = Elems(s) \cup Elems(t)
  BY CatIs
<1>2. \A c : Call(c) \notin Elems(t) BY DEF NoCalls, Elems, Call
<1>3. \A c : c \in Unanswered(s \o t) <=>
             Call(c) \in Elems(s) /\ Out(c) \notin Elems(s) /\ Out(c) \notin Elems(t)
  BY <1>1, <1>2, OpenIs
<1>4. \A c : c \in Unanswered(s) <=> Call(c) \in Elems(s) /\ Out(c) \notin Elems(s)
  BY OpenIs
<1> QED BY <1>3, <1>4

\* A new call is open.
LEMMA OpenCall ==
    ASSUME NEW n \in Nat, NEW s \in Seq(Entry), Known(s, n), Unanswered(s) = {}
    PROVE  Unanswered(s \o <<Call(n + 1)>>) = {n + 1}
<1> DEFINE t == <<Call(n + 1)>>
<1>1. Call(n + 1) \in Entry /\ \A c : Out(c) # Call(n + 1)
  BY DEF Call, Out, Entry
<1>2. t \in Seq(Entry) /\ Elems(t) = {Call(n + 1)} BY <1>1 DEF Elems
<1> HIDE DEF t
<1>3. s \o t \in Seq(Entry) /\ Elems(s \o t) = Elems(s) \cup Elems(t)
  BY <1>2, CatIs
<1>4. Out(n + 1) \notin Elems(s) BY DEF Known, Out, Elems
<1>5. \A c : Call(c) = Call(n + 1) => c = n + 1 BY DEF Call
<1>6. \A c : c \in Unanswered(s \o t) <=>
          /\ Call(c) \in Elems(s) \/ Call(c) = Call(n + 1)
          /\ Out(c) \notin Elems(s)
  BY <1>1, <1>2, <1>3, OpenIs
<1>7. \A c : ~(Call(c) \in Elems(s) /\ Out(c) \notin Elems(s)) BY OpenIs
<1>8. Unanswered(s \o t) = {n + 1} BY <1>4, <1>5, <1>6, <1>7
<1> QED BY <1>8 DEF t

\* Outputs of calls that had none.
LEMMA OutsCat ==
    ASSUME NEW s \in Seq(Entry), NEW t \in Seq(Entry), OutsOnce(s), OutsOnce(t),
           \A e \in Elems(s) \cap Elems(t) : e.k # "out"
    PROVE  OutsOnce(s \o t)
<1>1. \A i \in DOMAIN s, j \in DOMAIN t : s[i].k = "out" => s[i] # t[j]
  BY DEF Elems
<1> DEFINE c == s \o t
<1>2. /\ Len(s) \in Nat /\ DOMAIN s = 1..Len(s) /\ DOMAIN t = 1..Len(t)
      /\ Len(t) \in Nat
      /\ \A i \in DOMAIN s : c[i] = s[i]
      /\ \A i \in DOMAIN c : i \notin DOMAIN s =>
            i - Len(s) \in DOMAIN t /\ c[i] = t[i - Len(s)]
      /\ DOMAIN c = 1..(Len(s) + Len(t))
  BY CatIs
<1> HIDE DEF c
<1> SUFFICES ASSUME NEW i \in DOMAIN c, NEW j \in DOMAIN c,
                    c[i].k = "out", c[i] = c[j]
             PROVE  i = j
  BY DEF OutsOnce, c
<1>3. CASE i \in DOMAIN s /\ j \in DOMAIN s BY <1>2, <1>3 DEF OutsOnce
<1>4. CASE i \notin DOMAIN s /\ j \notin DOMAIN s
  <2>1. i - Len(s) = j - Len(s) BY <1>2, <1>4 DEF OutsOnce
  <2> QED BY <1>2, <2>1
<1>5. CASE i \in DOMAIN s /\ j \notin DOMAIN s BY <1>1, <1>2, <1>5
<1>6. CASE i \notin DOMAIN s /\ j \in DOMAIN s BY <1>1, <1>2, <1>6
<1> QED BY <1>3, <1>4, <1>5, <1>6

\* Calls that were made.
LEMMA KnownCat ==
    ASSUME NEW s \in Seq(Entry), NEW t \in Seq(Entry), NEW n, Known(s, n),
           Known(t, n)
    PROVE  Known(s \o t, n)
<1> DEFINE c == s \o t
<1>1. /\ \A i \in DOMAIN s : c[i] = s[i]
      /\ \A i \in DOMAIN c : i \notin DOMAIN s =>
            i - Len(s) \in DOMAIN t /\ c[i] = t[i - Len(s)]
  BY CatIs
<1> HIDE DEF c
<1>2. Known(c, n) BY <1>1 DEF Known
<1> QED BY <1>2 DEF c

\* The last of two lists is the one a model goes on from.
LEMMA AnswerableCat ==
    ASSUME NEW s \in Seq(Entry), NEW t \in Seq(Entry)
    PROVE  /\ Answerable(t) => Answerable(s \o t)
           /\ t = <<>> => s \o t = s
<1>1. ASSUME Answerable(t) PROVE Answerable(s \o t)
  <2>1. Len(t) \in Nat /\ Len(t) > 0 /\ Len(s) \in Nat
    BY <1>1 DEF Answerable
  <2>2. /\ Len(s \o t) = Len(s) + Len(t)
        /\ (s \o t)[Len(s) + Len(t)] = t[Len(t)]
    BY <2>1
  <2>3. s \o t # <<>> BY <2>1, <2>2
  <2> QED BY <1>1, <2>2, <2>3 DEF Answerable
<1> QED BY <1>1

\* A list with neither calls nor outputs.
Plain(t) == \A i \in DOMAIN t : t[i].k \notin {"call", "out"}

\* Such a list leaves the calls as they were.
LEMMA PlainCat ==
    ASSUME NEW s \in Seq(Entry), NEW t \in Seq(Entry), Plain(t), NEW n,
           OutsOnce(s), Known(s, n)
    PROVE  /\ OutsOnce(s \o t) /\ Known(s \o t, n)
           /\ Unanswered(s \o t) = Unanswered(s)
<1>1. NoCalls(t) /\ OutsOnce(t) /\ Known(t, n)
  BY DEF Plain, NoCalls, OutsOnce, Known
<1>2. \A e \in Elems(t) : e.k # "out" BY DEF Plain, Elems
<1>3. \A c : Out(c) \notin Elems(t) BY <1>2 DEF Out
<1>4. OutsOnce(s \o t) /\ Known(s \o t, n)
  BY <1>1, <1>2, OutsCat, KnownCat
<1>5. Unanswered(s \o t) = {c \in Unanswered(s) : Out(c) \notin Elems(t)}
  BY <1>1, OpenCat
<1> QED BY <1>3, <1>4, <1>5

\* A list of the outputs of a set of calls.
LEMMA OutputsAre ==
    ASSUME calls \in Nat, NEW S \in SUBSET Nat, NEW outs \in Outputs(S)
    PROVE  /\ outs \in Seq(Entry) /\ Elems(outs) = {Out(c) : c \in S}
           /\ OutsOnce(outs) /\ NoCalls(outs)
           /\ S # {} => Answerable(outs)
<1>1. PICK t : /\ t \in UNION {[1..n -> S] : n \in 0..calls}
               /\ \A c \in S : \E i \in DOMAIN t : t[i] = c
               /\ \A i, j \in DOMAIN t : t[i] = t[j] => i = j
               /\ outs = [i \in DOMAIN t |-> Out(t[i])]
  BY DEF Outputs
<1>2. outs \in Seq(Entry) BY OutputsType
<1>3. \A i \in DOMAIN t : t[i] \in S BY <1>1
<1>4. DOMAIN outs = DOMAIN t /\ \A i \in DOMAIN t : outs[i] = Out(t[i])
  BY <1>1
<1>5. Elems(outs) = {Out(c) : c \in S}
  <2>1. Elems(outs) \subseteq {Out(c) : c \in S} BY <1>3, <1>4 DEF Elems
  <2>2. {Out(c) : c \in S} \subseteq Elems(outs) BY <1>1, <1>4 DEF Elems
  <2> QED BY <2>1, <2>2
<1>6. \A c, e : Out(c) = Out(e) => c = e BY DEF Out
<1>7. OutsOnce(outs) BY <1>1, <1>4, <1>6 DEF OutsOnce
<1>8. \A i \in DOMAIN outs : outs[i].k = "out" BY <1>4 DEF Out
<1>9. ASSUME S # {} PROVE Answerable(outs)
  <2>0. PICK i : i \in DOMAIN outs BY <1>1, <1>4, <1>9
  <2>1. outs # <<>> BY <1>2, <2>0
  <2>2. Len(outs) \in DOMAIN outs BY <1>2, <2>1
  <2> QED BY <1>8, <2>1, <2>2 DEF Answerable
<1> QED BY <1>2, <1>5, <1>7, <1>8, <1>9 DEF NoCalls

\* The outputs of open calls close them.
LEMMA OutputsCat ==
    ASSUME calls \in Nat, NEW s \in Seq(Entry), OutsOnce(s), Known(s, calls),
           NEW S \in SUBSET Nat, S \subseteq Unanswered(s), NEW outs \in Outputs(S)
    PROVE  /\ OutsOnce(s \o outs) /\ Known(s \o outs, calls)
           /\ Unanswered(s \o outs) = Unanswered(s) \ S
           /\ S # {} => Answerable(s \o outs)
           /\ outs \in Seq(Entry) /\ s \o outs \in Seq(Entry)
<1>1. /\ outs \in Seq(Entry) /\ Elems(outs) = {Out(c) : c \in S}
      /\ OutsOnce(outs) /\ NoCalls(outs)
      /\ S # {} => Answerable(outs)
  BY OutputsAre
<1>2. \A c \in S : Call(c) \in Elems(s) /\ Out(c) \notin Elems(s)
  BY OpenIs
<1>3. \A c \in S : c <= calls BY <1>2 DEF Known, Elems, Call
<1>4. Known(outs, calls)
  <2>1. \A i \in DOMAIN outs : outs[i] \in {Out(c) : c \in S}
    BY <1>1 DEF Elems
  <2> QED BY <1>3, <2>1 DEF Known, Out
<1>5. OutsOnce(s \o outs) BY <1>1, <1>2, OutsCat
<1>6. \A c, e : Out(c) = Out(e) => c = e BY DEF Out
<1>7. Unanswered(s \o outs) = {c \in Unanswered(s) : Out(c) \notin Elems(outs)}
  BY <1>1, OpenCat
<1>8. Unanswered(s \o outs) = Unanswered(s) \ S BY <1>1, <1>6, <1>7
<1>9. Known(s \o outs, calls) /\ s \o outs \in Seq(Entry)
  BY <1>1, <1>4, KnownCat, CatIs
<1> QED BY <1>1, <1>5, <1>8, <1>9, AnswerableCat

\* The entries of a queue, the host's message and the model's.
LEMMA PlainLists ==
    /\ \A q \in Seq(Item) : /\ Entries(q) \in Seq(Entry) /\ Plain(Entries(q))
                            /\ q # <<>> => Answerable(Entries(q))
                            /\ q = <<>> => Entries(q) = <<>>
    /\ <<Prompt>> \in Seq(Entry) /\ Plain(<<Prompt>>) /\ Answerable(<<Prompt>>)
    /\ <<Answer>> \in Seq(Entry) /\ Plain(<<Answer>>)
    /\ <<>> \in Seq(Entry) /\ Plain(<<>>)
<1>1. ASSUME NEW q \in Seq(Item)
      PROVE  /\ Entries(q) \in Seq(Entry) /\ Plain(Entries(q))
             /\ q # <<>> => Answerable(Entries(q))
             /\ q = <<>> => Entries(q) = <<>>
  <2>1. Entries(q) \in Seq(Entry) BY EntriesType
  <2>2. DOMAIN Entries(q) = DOMAIN q /\ \A i \in DOMAIN q : Entries(q)[i].k = "in"
    BY DEF Entries, In
  <2>3. DOMAIN q = 1..Len(q) /\ DOMAIN Entries(q) = 1..Len(Entries(q))
        /\ Len(q) \in Nat /\ Len(Entries(q)) \in Nat
    BY <2>1
  <2>4. Len(q) = Len(Entries(q)) BY <2>2, <2>3
  <2>5. ASSUME q # <<>> PROVE Answerable(Entries(q))
    <3>1. Len(q) > 0 BY <2>3, <2>5
    <3>2. Entries(q) # <<>> /\ Len(Entries(q)) \in DOMAIN q
      BY <2>3, <2>4, <3>1
    <3> QED BY <2>2, <3>2 DEF Answerable
  <2>6. ASSUME q = <<>> PROVE Entries(q) = <<>> BY <2>1, <2>4, <2>6
  <2> QED BY <2>1, <2>2, <2>5, <2>6 DEF Plain
<1>2. Prompt \in Entry /\ Prompt.k = "prompt" /\ Answer \in Entry /\ Answer.k = "answer"
  BY DEF Prompt, Answer, Entry
<1>3. /\ \A e \in Entry : <<e>> \in Seq(Entry) /\ Len(<<e>>) = 1 /\ <<e>>[1] = e
                          /\ DOMAIN <<e>> = {1} /\ <<e>> # <<>>
      /\ <<>> \in Seq(Entry) /\ DOMAIN <<>> = {}
  OBVIOUS
<1>4. <<Prompt>> \in Seq(Entry) /\ Plain(<<Prompt>>) /\ Answerable(<<Prompt>>)
  BY <1>2, <1>3 DEF Plain, Answerable
<1>5. <<Answer>> \in Seq(Entry) /\ Plain(<<Answer>>)
  BY <1>2, <1>3 DEF Plain
<1>6. <<>> \in Seq(Entry) /\ Plain(<<>>) BY <1>3 DEF Plain
<1> QED BY <1>1, <1>4, <1>5, <1>6

-----------------------------------------------------------------------------
(* The conversation through the steps of a run.                            *)

\* Where nothing is left to append.
LEMMA AtClear ==
    ASSUME TypeOK, PathInv, pc \in Clear
    PROVE  /\ Full = working /\ At = pc /\ Conversation = working
           /\ running /\ inbox = <<>> /\ working \in Seq(Entry)
<1>1. working \in Seq(Entry) /\ inbox = <<>> /\ running
  BY DEF TypeOK, RunOK, PathInv, Clear
<1>2. working \o <<>> = working BY <1>1
<1> QED BY <1>1, <1>2 DEF Full, At, Conversation, Clear

\* Going on with s to append.
LEMMA AtEnter ==
    ASSUME NEW s, NEW next, next \notin {"run_start", "append", "item_end"},
           Enter(s, next), running', UNCHANGED working
    PROVE  Full' = working \o s /\ At' = next /\ Conversation' = working \o s
  BY DEF Enter, Full, At, Conversation

\* What stays of the invariant where no call is made.
Rests ==
    /\ Full' = Full /\ UNCHANGED <<approved, calls, batch>>
    /\ running' = running
    /\ ~running => UNCHANGED transcript
    /\ steer' = steer \/ steer' # <<>>
    /\ At' = At \/ At' \in {"ending", "run_end", "finish"}

\* A look is stale, or an event lost, once and for all.
Taints == (skipped => skipped') /\ (raced => raced')

\* Such a step leaves the conversation whole.
LEMMA WholeRests ==
    ASSUME WholeInv, Rests, Taints
    PROVE  WholeInv'
<1> SUFFICES ASSUME ~skipped', ~raced'
             PROVE  (OutsOnce(Conversation) /\ Known(Conversation, calls)
                     /\ OpenAt(At, Full))'
  BY DEF WholeInv
<1>1. OutsOnce(Conversation) /\ Known(Conversation, calls) /\ OpenAt(At, Full)
  BY DEF WholeInv, Taints
<1>2. Conversation' = Conversation BY DEF Conversation, Rests
<1>3. (OutsOnce(Conversation) /\ Known(Conversation, calls))'
  BY <1>1, <1>2 DEF OutsOnce, Known, Rests
<1>4. CASE At' = At
  <2>1. Unanswered(Full)' = Unanswered(Full) /\ Answerable(Full)' = Answerable(Full)
    BY DEF Rests
  <2>2. UNCHANGED <<approved, calls, batch>> /\ (steer' = steer \/ steer' # <<>>)
    BY DEF Rests
  <2>3. OpenAt(At, Full)' BY <1>1, <1>4, <2>1, <2>2 DEF OpenAt
  <2> QED BY <1>3, <2>3
<1>5. CASE At' \in {"ending", "run_end", "finish"}
  BY <1>3, <1>5 DEF OpenAt
<1> QED BY <1>3, <1>4, <1>5 DEF Rests

\* Appending an entry leaves what the list comes to.
LEMMA AppendHead ==
    ASSUME NEW s \in Seq(Entry), NEW t \in Seq(Entry), t # <<>>
    PROVE  Append(s, Head(t)) \o Tail(t) = s \o t
<1>1. /\ Head(t) \in Entry /\ Tail(t) \in Seq(Entry)
      /\ Append(s, Head(t)) \in Seq(Entry)
      /\ Append(s, Head(t)) \o Tail(t) \in Seq(Entry) /\ s \o t \in Seq(Entry)
      /\ Len(Append(s, Head(t)) \o Tail(t)) = Len(s \o t)
  OBVIOUS
<1>2. \A i \in 1..Len(s \o t) : (Append(s, Head(t)) \o Tail(t))[i] = (s \o t)[i]
  OBVIOUS
<1> QED BY <1>1, <1>2

\* The events of a run, and what ends it, leave the conversation alone.
LEMMA EventsRest ==
    ASSUME TypeOK, PathInv,
           \/ RunStart \/ ItemStart \/ ItemEnd \/ RunRefused \/ BuildRefused
           \/ (TurnStart /\ pc' # "model") \/ (TurnEnd /\ pc' # "decide")
           \/ RunEnding \/ RunEnd
    PROVE  Rests /\ Taints
<1> USE DEF queueVars, stateVars, flagVars, runVars, pathVars,
            callVars, reportVars, pastVars
<1>t. /\ inbox \in Seq(Entry) /\ working \in Seq(Entry)
      /\ after \notin {"append", "item_end"} /\ (pc # "idle" => running)
      /\ pc = "append" => inbox # <<>>
  BY DEF TypeOK, RunOK, PathInv
<1>r. \A o : Raise(o) \/ RaiseLast(o) => (skipped => skipped')
  BY DEF Raise, RaiseLast
<1>1. CASE RunStart
  BY <1>1, <1>t, <1>r DEF RunStart, Enter, Stop, Rests, Taints, Full, At
<1>2. CASE ItemStart
  <2>1. Append(working, Head(inbox)) \o Tail(inbox) = working \o inbox
    BY <1>2, <1>t, AppendHead DEF ItemStart
  <2> QED
    BY <1>2, <1>t, <1>r, <2>1 DEF ItemStart, Stop, Rests, Taints, Full, At
<1>3. CASE ItemEnd
  BY <1>3, <1>t, <1>r DEF ItemEnd, Enter, Stop, Rests, Taints, Full, At
<1>4. CASE RunRefused
  BY <1>4, <1>t DEF RunRefused, Stop, Rests, Taints, Full, At
<1>5. CASE BuildRefused
  BY <1>5, <1>t, <1>r DEF BuildRefused, Stop, Rests, Taints, Full, At
<1>6. CASE TurnStart /\ pc' # "model"
  BY <1>6, <1>t, <1>r DEF TurnStart, Stop, Rests, Taints, Full, At
<1>7. CASE TurnEnd /\ pc' # "decide"
  BY <1>7, <1>t, <1>r DEF TurnEnd, Stop, Rests, Taints, Full, At
<1>8. CASE RunEnding
  BY <1>8, <1>t DEF RunEnding, Rests, Taints, Full, At
<1>9. CASE RunEnd
  BY <1>9, <1>t, <1>r DEF RunEnd, Rests, Taints, Full, At
<1> QED BY <1>1, <1>2, <1>3, <1>4, <1>5, <1>6, <1>7, <1>8, <1>9

\* Part of a list has no more calls and outputs than the list.
LEMMA PartOf ==
    ASSUME NEW s \in Seq(Entry), NEW t \in Seq(Entry), NEW n,
           OutsOnce(s \o t), Known(s \o t, n)
    PROVE  OutsOnce(s) /\ Known(s, n)
<1> DEFINE c == s \o t
<1>1. \A i \in DOMAIN s : i \in DOMAIN c /\ c[i] = s[i] BY CatIs
<1>2. OutsOnce(c) /\ Known(c, n) OBVIOUS
<1> HIDE DEF c
<1> QED BY <1>1, <1>2 DEF OutsOnce, Known

\* What is open at the next point, with s appended.
Becomes(next, s) ==
    /\ OutsOnce(working \o s) /\ Known(working \o s, calls')
    /\ next \in {"top", "turn_start"} =>
          Answerable(working \o s) /\ Unanswered(working \o s) = {}
    /\ next = "drain" =>
          Unanswered(working \o s) = {} /\ Answerable(working \o s)
    /\ next = "batch" => Unanswered(working \o s) = {calls'}
    /\ next = "turn_end" /\ batch' # "deferred" => Unanswered(working \o s) = {}
    /\ next = "turn_end" /\ batch' = "answered" => Answerable(working \o s)

\* Going on with it, the conversation is whole at the next point.
LEMMA WholeEnter ==
    ASSUME TypeOK, running', UNCHANGED working, NEW s,
           NEW next \in {"top", "turn_start", "drain", "batch", "turn_end",
                         "refuse", "ending"},
           Enter(s, next), Becomes(next, s)
    PROVE  WholeInv'
<1>1. Full' = working \o s /\ At' = next /\ Conversation' = working \o s
  BY AtEnter
<1>2. (OutsOnce(Conversation) /\ Known(Conversation, calls))'
  BY <1>1 DEF Becomes
<1>3. /\ Unanswered(Full)' = Unanswered(working \o s)
      /\ Answerable(Full)' = Answerable(working \o s)
  BY <1>1
<1>4. OpenAt(At, Full)' BY <1>1, <1>3 DEF Becomes, OpenAt
<1> QED BY <1>2, <1>4 DEF WholeInv

\* A stop leaves the conversation as it is.
LEMMA StopRests ==
    ASSUME TypeOK, PathInv, pc \in Clear, NEW why, Stop(why),
           UNCHANGED <<working, approved, calls, batch, steer, running, raced>>,
           skipped => skipped'
    PROVE  Rests /\ Taints
  BY AtClear DEF Stop, Rests, Taints, Full, At

\* The first drain of a run: what was steered in comes after the answers.
LEMMA WholeDrain ==
    ASSUME TypeOK, PathInv, WholeInv, RunDrain, ~skipped, ~raced
    PROVE  WholeInv'
<1> USE DEF queueVars, stateVars, flagVars, runVars, pathVars,
            callVars, reportVars, pastVars
<1> DEFINE s == Entries(steer)
           next == IF terminate THEN "refuse" ELSE "top"
<1>0. pc = "drain" /\ pc \in Clear BY DEF RunDrain, Clear
<1>1. Full = working /\ At = "drain" /\ Conversation = working /\ running
      /\ working \in Seq(Entry) /\ calls \in Nat /\ steer \in Seq(Item)
  BY <1>0, AtClear DEF TypeOK, RunOK, AgentOK, Item
<1>2. /\ OutsOnce(working) /\ Known(working, calls) /\ Unanswered(working) = {}
      /\ steer # <<>> \/ Answerable(working)
  BY <1>1 DEF WholeInv, OpenAt
<1>3. s \in Seq(Entry) /\ Plain(s) /\ (steer # <<>> => Answerable(s))
      /\ (steer = <<>> => s = <<>>)
  BY <1>1, PlainLists
<1> HIDE DEF s
<1>4. /\ OutsOnce(working \o s) /\ Known(working \o s, calls)
      /\ Unanswered(working \o s) = {}
  BY <1>1, <1>2, <1>3, PlainCat
<1>5. Answerable(working \o s) BY <1>1, <1>2, <1>3, AnswerableCat
<1>6. calls' = calls /\ running' /\ UNCHANGED working /\ Enter(s, next)
  BY <1>1 DEF RunDrain, DrainSteer, s
<1>7. Becomes(next, s) BY <1>4, <1>5, <1>6 DEF Becomes
<1> QED BY <1>6, <1>7, WholeEnter

\* The batch of the approved calls answers them, or leaves them open as
\* the run ends.
LEMMA WholeApproved ==
    ASSUME TypeOK, PathInv, WholeInv, ApprovedBatch, ~skipped, ~raced
    PROVE  WholeInv'
<1> USE DEF queueVars, stateVars, flagVars, runVars, pathVars,
            callVars, reportVars, pastVars
<1>0. pc = "approved" /\ pc \in Clear BY DEF ApprovedBatch, Clear
<1>1. Full = working /\ At = "approved" /\ Conversation = working /\ running
      /\ working \in Seq(Entry) /\ calls \in Nat /\ approved \in SUBSET Nat
  BY <1>0, AtClear DEF TypeOK, RunOK
<1>2. /\ OutsOnce(working) /\ Known(working, calls)
      /\ Unanswered(working) = approved /\ approved # {}
  BY <1>1 DEF WholeInv, OpenAt
<1>3. calls' = calls /\ running' /\ UNCHANGED working
  BY <1>1 DEF ApprovedBatch
<1>4. ASSUME NEW done \in SUBSET approved, NEW outs \in Outputs(done),
             Enter(outs, "ending")
      PROVE  WholeInv'
  <2>1. OutsOnce(working \o outs) /\ Known(working \o outs, calls)
    BY <1>1, <1>2, OutputsCat
  <2>2. Becomes("ending", outs) BY <1>3, <2>1 DEF Becomes
  <2> QED BY <1>3, <1>4, <2>2, WholeEnter
<1>5. ASSUME NEW outs \in Outputs(approved), Enter(outs, "drain")
      PROVE  WholeInv'
  <2>1. /\ OutsOnce(working \o outs) /\ Known(working \o outs, calls)
        /\ Unanswered(working \o outs) = {} /\ Answerable(working \o outs)
    BY <1>1, <1>2, OutputsCat
  <2>2. Becomes("drain", outs) BY <1>3, <2>1 DEF Becomes
  <2> QED BY <1>3, <1>5, <2>2, WholeEnter
<1> QED BY <1>4, <1>5 DEF ApprovedBatch, BatchCut, BatchDone

\* The head of a turn, where BeforeTurn may append.
LEMMA WholeTop ==
    ASSUME TypeOK, PathInv, WholeInv, TurnTop, ~skipped, ~raced
    PROVE  WholeInv'
<1> USE DEF queueVars, stateVars, flagVars, runVars, pathVars,
            callVars, reportVars, pastVars
<1>0. pc = "top" /\ pc \in Clear BY DEF TurnTop, Clear
<1>1. Full = working /\ At = "top" /\ Conversation = working /\ running
      /\ working \in Seq(Entry) /\ calls \in Nat
      /\ inbox = <<>>
  BY <1>0, AtClear DEF TypeOK, RunOK
<1>2. /\ OutsOnce(working) /\ Known(working, calls)
      /\ Answerable(working) /\ Unanswered(working) = {}
  BY <1>1 DEF WholeInv, OpenAt
<1>3. UNCHANGED <<working, approved, calls, batch, steer, running, raced, skipped>>
  BY DEF TurnTop
<1>4. CASE \E why : Stop(why) BY <1>0, <1>3, <1>4, StopRests, WholeRests
<1>5. CASE Enter(<<Prompt>>, "turn_start")
  <2> DEFINE s == <<Prompt>>
  <2>1. s \in Seq(Entry) /\ Plain(s) /\ Answerable(s) BY PlainLists
  <2> HIDE DEF s
  <2>2. /\ OutsOnce(working \o s) /\ Known(working \o s, calls)
        /\ Unanswered(working \o s) = {} /\ Answerable(working \o s)
    BY <1>1, <1>2, <2>1, PlainCat, AnswerableCat
  <2>3. Becomes("turn_start", s) BY <1>3, <2>2 DEF Becomes
  <2>4. Enter(s, "turn_start") BY <1>5 DEF s
  <2> QED BY <1>1, <1>3, <2>3, <2>4, WholeEnter
<1>6. CASE pc' = "turn_start" /\ UNCHANGED <<inbox, after, reason>>
  <2>2. Full' = Full /\ At' = "turn_start" /\ Conversation' = Conversation
    BY <1>1, <1>3, <1>6 DEF Full, At, Conversation
  <2>3. /\ Unanswered(Full)' = {} /\ Answerable(Full)'
        /\ OutsOnce(Conversation)' /\ Known(Conversation, calls)'
    BY <1>1, <1>2, <1>3, <2>2
  <2> QED BY <2>2, <2>3 DEF WholeInv, OpenAt
<1> QED BY <1>4, <1>5, <1>6 DEF TurnTop

\* A new call, closed or not, is known and has no other output.
LEMMA NewCall ==
    ASSUME NEW n \in Nat, NEW s \in Seq(Entry), OutsOnce(s), Known(s, n),
           NEW t \in {<<Call(n + 1)>>, <<Call(n + 1), Out(n + 1)>>}
    PROVE  OutsOnce(s \o t) /\ Known(s \o t, n + 1)
<1>1. /\ Call(n + 1) \in Entry /\ Out(n + 1) \in Entry
      /\ Call(n + 1).k = "call" /\ Out(n + 1).k = "out"
      /\ Call(n + 1).id = n + 1 /\ Out(n + 1).id = n + 1
  BY DEF Call, Out, Entry
<1>2. /\ t \in Seq(Entry) /\ DOMAIN t \in {{1}, {1, 2}}
      /\ t[1] = Call(n + 1) /\ (2 \in DOMAIN t => t[2] = Out(n + 1))
  <2>1. CASE t = <<Call(n + 1)>> BY <1>1, <2>1
  <2>2. CASE t = <<Call(n + 1), Out(n + 1)>> BY <1>1, <2>2
  <2> QED BY <2>1, <2>2
<1>3. \A i \in DOMAIN t : i \in {1, 2} /\ t[i].id = n + 1 BY <1>1, <1>2
<1>4. Known(t, n + 1) /\ Known(s, n + 1)
  <2>1. \A i \in DOMAIN s : s[i].k \in {"call", "out"} => s[i].id \in Nat
    BY DEF Entry
  <2> QED BY <1>3, <2>1 DEF Known
<1>5. OutsOnce(t) BY <1>1, <1>2 DEF OutsOnce
<1>6. \A e \in Elems(s) \cap Elems(t) : e.k # "out"
  <2> SUFFICES ASSUME NEW i \in DOMAIN s, NEW j \in DOMAIN t, s[i] = t[j],
                      s[i].k = "out"
               PROVE  FALSE
    BY DEF Elems
  <2>1. s[i].id = n + 1 /\ s[i].id <= n BY <1>3 DEF Known
  <2> QED BY <2>1
<1> QED BY <1>2, <1>4, <1>5, <1>6, OutsCat, KnownCat

\* The model's response: an answer, or a call that was never made before.
LEMMA WholeModel ==
    ASSUME TypeOK, PathInv, WholeInv, ModelTurn, ~skipped, ~raced
    PROVE  WholeInv'
<1> USE DEF queueVars, stateVars, flagVars, runVars, pathVars,
            callVars, reportVars, pastVars
<1>0. pc = "model" /\ pc \in Clear BY DEF ModelTurn, Clear
<1>1. Full = working /\ At = "model" /\ Conversation = working /\ running
      /\ working \in Seq(Entry) /\ calls \in Nat
  BY <1>0, AtClear DEF TypeOK, RunOK
<1>2. /\ OutsOnce(working) /\ Known(working, calls) /\ Unanswered(working) = {}
  BY <1>1 DEF WholeInv, OpenAt
<1>3. running' /\ UNCHANGED working BY <1>1 DEF ModelTurn
<1>4. ASSUME NEW s \in {<<>>, <<Answer>>}, UNCHANGED calls,
             NEW next \in {"turn_end", "ending"}, Enter(s, next),
             next = "turn_end" => batch' = "final"
      PROVE  WholeInv'
  <2>1. s \in Seq(Entry) /\ Plain(s) BY PlainLists
  <2>2. /\ OutsOnce(working \o s) /\ Known(working \o s, calls)
        /\ Unanswered(working \o s) = {}
    BY <1>1, <1>2, <2>1, PlainCat
  <2>3. Becomes(next, s) BY <1>4, <2>2 DEF Becomes
  <2> QED BY <1>3, <1>4, <2>3, WholeEnter
<1>5. ASSUME calls' = calls + 1,
             NEW s \in {<<Call(calls + 1)>>, <<Call(calls + 1), Out(calls + 1)>>},
             Enter(s, "ending")
      PROVE  WholeInv'
  <2>1. OutsOnce(working \o s) /\ Known(working \o s, calls + 1)
    BY <1>1, <1>2, NewCall
  <2>2. Becomes("ending", s) BY <1>5, <2>1 DEF Becomes
  <2> QED BY <1>3, <1>5, <2>2, WholeEnter
<1>6. ASSUME calls' = calls + 1, Enter(<<Call(calls + 1)>>, "batch")
      PROVE  WholeInv'
  <2> DEFINE s == <<Call(calls + 1)>>
  <2>1. OutsOnce(working \o s) /\ Known(working \o s, calls + 1)
    BY <1>1, <1>2, NewCall
  <2>2. Unanswered(working \o s) = {calls + 1} BY <1>1, <1>2, OpenCall
  <2>3. Enter(s, "batch") BY <1>6
  <2> HIDE DEF s
  <2>4. Becomes("batch", s) BY <1>6, <2>1, <2>2 DEF Becomes
  <2> QED BY <1>3, <2>3, <2>4, WholeEnter
<1> QED BY <1>4, <1>5, <1>6 DEF ModelTurn

\* The turn's batch answers its call, defers it or is cut.
LEMMA WholeBatch ==
    ASSUME TypeOK, PathInv, WholeInv, ToolBatch, ~skipped, ~raced
    PROVE  WholeInv'
<1> USE DEF queueVars, stateVars, flagVars, runVars, pathVars,
            callVars, reportVars, pastVars
<1>0. pc = "batch" /\ pc \in Clear BY DEF ToolBatch, Clear
<1>1. Full = working /\ At = "batch" /\ Conversation = working /\ running
      /\ working \in Seq(Entry) /\ calls \in Nat /\ {calls} \in SUBSET Nat
  BY <1>0, AtClear DEF TypeOK, RunOK
<1>2. /\ OutsOnce(working) /\ Known(working, calls)
      /\ Unanswered(working) = {calls}
  BY <1>1 DEF WholeInv, OpenAt
<1>3. calls' = calls /\ running' /\ UNCHANGED working
  BY <1>1 DEF ToolBatch
<1>4. ASSUME NEW done \in SUBSET {calls}, NEW outs \in Outputs(done),
             Enter(outs, "ending")
      PROVE  WholeInv'
  <2>1. OutsOnce(working \o outs) /\ Known(working \o outs, calls)
    BY <1>1, <1>2, OutputsCat
  <2>2. Becomes("ending", outs) BY <1>3, <2>1 DEF Becomes
  <2> QED BY <1>3, <1>4, <2>2, WholeEnter
<1>5. ASSUME NEW done \in SUBSET {calls}, NEW outs \in Outputs(done),
             Enter(outs, "turn_end"),
             done = {calls} \/ batch' = "deferred"
      PROVE  WholeInv'
  <2>1. /\ OutsOnce(working \o outs) /\ Known(working \o outs, calls)
        /\ done = {calls} =>
              Unanswered(working \o outs) = {} /\ Answerable(working \o outs)
    BY <1>1, <1>2, OutputsCat
  <2>2. Becomes("turn_end", outs) BY <1>3, <1>5, <2>1 DEF Becomes
  <2> QED BY <1>3, <1>5, <2>2, WholeEnter
<1> QED BY <1>4, <1>5 DEF ToolBatch, BatchCut, BatchDone

\* The request goes out, or the turn's batch is over.
LEMMA WholeTurn ==
    ASSUME TypeOK, PathInv, WholeInv, ~skipped, ~raced,
           (TurnStart /\ pc' = "model") \/ (TurnEnd /\ pc' = "decide")
    PROVE  WholeInv'
<1> USE DEF queueVars, stateVars, flagVars, runVars, pathVars,
            callVars, reportVars, pastVars
<1>0. pc \in {"turn_start", "turn_end"} /\ pc \in Clear
      /\ (pc = "turn_start" => pc' = "model") /\ (pc = "turn_end" => pc' = "decide")
  BY DEF TurnStart, TurnEnd, Clear
<1>1. Full = working /\ At = pc /\ Conversation = working /\ running
      /\ inbox = <<>>
  BY <1>0, AtClear
<1>2. OutsOnce(Conversation) /\ Known(Conversation, calls) /\ OpenAt(At, Full)
  BY DEF WholeInv
<1>3. UNCHANGED <<working, calls, batch, running, inbox>>
  BY DEF TurnStart, TurnEnd, Stop
<1>4. Full' = Full /\ Conversation' = Conversation /\ At' = pc'
  BY <1>0, <1>1, <1>3 DEF Full, Conversation, At
<1>5. /\ OutsOnce(Conversation)' /\ Known(Conversation, calls)'
      /\ Unanswered(Full)' = Unanswered(Full) /\ Answerable(Full)' = Answerable(Full)
  BY <1>2, <1>3, <1>4
<1>6. OpenAt(At, Full)' BY <1>0, <1>1, <1>2, <1>3, <1>4, <1>5 DEF OpenAt
<1> QED BY <1>5, <1>6 DEF WholeInv

\* After the turn the run stops, or goes on with all calls answered and
\* something new to answer.
LEMMA WholeDecide ==
    ASSUME TypeOK, PathInv, WholeInv, TurnDecide, ~skipped, ~raced
    PROVE  WholeInv'
<1> USE DEF queueVars, stateVars, flagVars, runVars, pathVars,
            callVars, reportVars, pastVars
<1>0. pc = "decide" /\ pc \in Clear BY DEF TurnDecide, Clear
<1>1. Full = working /\ At = "decide" /\ Conversation = working /\ running
      /\ working \in Seq(Entry) /\ calls \in Nat
      /\ steer \in Seq(Item) /\ followUp \in Seq(Item)
  BY <1>0, AtClear DEF TypeOK, RunOK, AgentOK, Item
<1>2. /\ OutsOnce(working) /\ Known(working, calls)
      /\ batch # "deferred" => Unanswered(working) = {}
      /\ batch = "answered" => Answerable(working)
  BY <1>1 DEF WholeInv, OpenAt
<1>3. UNCHANGED <<working, approved, calls, batch, running, raced, skipped>>
  BY DEF TurnDecide
<1>4. ASSUME NEW why, Stop(why), UNCHANGED steer PROVE WholeInv'
  BY <1>0, <1>3, <1>4, StopRests, WholeRests
<1>5. ASSUME NEW q \in Seq(Item), Enter(Entries(q), "top"), batch # "deferred",
             q # <<>> \/ batch = "answered"
      PROVE  WholeInv'
  <2> DEFINE s == Entries(q)
  <2>1. s \in Seq(Entry) /\ Plain(s) /\ (q # <<>> => Answerable(s))
        /\ (q = <<>> => s = <<>>)
    BY PlainLists
  <2> HIDE DEF s
  <2>2. /\ OutsOnce(working \o s) /\ Known(working \o s, calls)
        /\ Unanswered(working \o s) = {}
    BY <1>1, <1>2, <1>5, <2>1, PlainCat
  <2>3. Answerable(working \o s)
    BY <1>1, <1>2, <1>5, <2>1, AnswerableCat
  <2>4. Becomes("top", s) BY <1>3, <2>2, <2>3 DEF Becomes
  <2>5. Enter(s, "top") BY <1>5 DEF s
  <2> QED BY <1>1, <1>3, <2>4, <2>5, WholeEnter
<1>6. CASE \E why : StopClosing(why) BY <1>4, <1>6 DEF StopClosing
<1>7. CASE batch = "answered" /\ DrainSteer("top")
  BY <1>1, <1>5, <1>7 DEF DrainSteer
<1>8. CASE batch = "final" /\ DrainLast("top")
  <2>1. CASE steer = <<>> /\ followUp = <<>>
    BY <1>4, <1>8, <2>1 DEF DrainLast
  <2>2. CASE ~(steer = <<>> /\ followUp = <<>>)
    <3>1. LastItems \in Seq(Item) /\ LastItems # <<>>
      BY <1>1, <2>2 DEF LastItems
    <3> QED BY <1>5, <1>8, <2>2, <3>1 DEF DrainLast
  <2> QED BY <2>1, <2>2
<1> QED BY <1>6, <1>7, <1>8 DEF TurnDecide

\* What the agent is left with as the run is over is what the loop had.
LEMMA WholeFinish ==
    ASSUME TypeOK, PathInv, SyncInv, WholeInv, RunFinish, ~skipped, ~raced
    PROVE  WholeInv'
<1> USE DEF queueVars, stateVars, flagVars, runVars, pathVars,
            callVars, reportVars, pastVars
<1>1. running /\ transcript = working /\ pc = "finish"
  BY DEF RunFinish, PathInv, SyncInv
<1>2. /\ working \in Seq(Entry) /\ inbox \in Seq(Entry)
      /\ OutsOnce(working \o inbox) /\ Known(working \o inbox, calls)
  BY <1>1 DEF WholeInv, Conversation, Full, TypeOK, RunOK
<1>3. OutsOnce(working) /\ Known(working, calls) BY <1>2, PartOf
<1>4. Conversation' = working /\ calls' = calls /\ At' = "idle"
  BY <1>1 DEF RunFinish, Conversation, At
<1>5. OutsOnce(Conversation)' /\ Known(Conversation, calls)'
  BY <1>3, <1>4
<1> QED BY <1>4, <1>5 DEF WholeInv, OpenAt

-----------------------------------------------------------------------------
(* The conversation through the starts of runs and the other steps.        *)

\* What a run starts from, and on what.
LEMMA StartsOn ==
    ASSUME TypeOK, PathInv, SyncInv, WholeInv, ~skipped, ~raced,
           NEW items, NEW approve, NEW refuse, Start(items, approve, refuse)
    PROVE  /\ OutsOnce(transcript) /\ Known(transcript, calls)
           /\ pending = Unanswered(transcript) /\ transcript \in Seq(Entry)
           /\ calls \in Nat /\ calls' = calls /\ steer' = steer
           /\ approved' = approve
           /\ Full' = transcript \o items /\ Conversation' = transcript \o items
           /\ At' = CASE approve # {} -> "approved"
                      [] approve = {} /\ refuse -> "refuse"
                      [] OTHER -> "drain"
<1> USE DEF queueVars, pastVars
<1>1. ~running /\ Conversation = transcript BY DEF Start, Conversation
<1>2. OutsOnce(transcript) /\ Known(transcript, calls)
  BY <1>1 DEF WholeInv
<1>3. pending = Unanswered(transcript) BY <1>1 DEF SyncInv
<1>4. transcript \in Seq(Entry) /\ calls \in Nat
  BY DEF TypeOK, AgentOK, RunOK
<1>5. /\ working' = transcript /\ inbox' = items /\ running' /\ pc' = "run_start"
      /\ calls' = calls /\ steer' = steer /\ approved' = approve
      /\ after' = CASE approve # {} -> "approved"
                    [] approve = {} /\ refuse -> "refuse"
                    [] OTHER -> "drain"
  BY DEF Start
<1>6. Full' = transcript \o items /\ Conversation' = transcript \o items
      /\ At' = after'
  BY <1>5 DEF Full, Conversation, At
<1> QED BY <1>2, <1>3, <1>4, <1>5, <1>6

\* A run starts with the conversation whole when no call is left open and
\* there is something to answer, or when the open calls are approved.
LEMMA WholeStart ==
    ASSUME TypeOK, PathInv, SyncInv, WholeInv, ~skipped, ~raced,
           NEW items, NEW approve, NEW refuse, Start(items, approve, refuse),
           OutsOnce(transcript \o items), Known(transcript \o items, calls),
           Unanswered(transcript \o items) = approve,
           approve = {} => steer # <<>> \/ Answerable(transcript \o items)
    PROVE  WholeInv'
<1>1. /\ calls' = calls /\ steer' = steer /\ approved' = approve
      /\ Full' = transcript \o items /\ Conversation' = transcript \o items
      /\ At' \in {"approved", "refuse", "drain"}
      /\ At' = "approved" => approve # {}
      /\ At' = "drain" => approve = {}
  BY StartsOn
<1>2. (OutsOnce(Conversation) /\ Known(Conversation, calls))' BY <1>1
<1>3. /\ Unanswered(Full)' = approve
      /\ Answerable(Full)' = Answerable(transcript \o items)
  BY <1>1
<1>4. OpenAt(At, Full)' BY <1>1, <1>3 DEF OpenAt
<1> QED BY <1>2, <1>4 DEF WholeInv

\* What can be continued can be answered.
LEMMA ContinueIs ==
    ASSUME TypeOK, CanContinue(transcript \o Entries(steer))
    PROVE  steer # <<>> \/ Answerable(transcript)
<1>1. transcript \in Seq(Entry) /\ steer \in Seq(Item)
  BY DEF TypeOK, AgentOK, Item
<1>2. CASE steer = <<>>
  <2>1. transcript \o Entries(steer) = transcript
    BY <1>1, <1>2, PlainLists, AnswerableCat
  <2>2. CanContinue(transcript) BY <2>1
  <2> QED BY <2>2 DEF CanContinue, Answerable
<1> QED BY <1>2

\* Continue, and the run a delivery starts.
LEMMA WholeContinue ==
    ASSUME TypeOK, PathInv, SyncInv, WholeInv, ~skipped, ~raced,
           Start(<<>>, {}, FALSE), pending = {},
           CanContinue(transcript \o Entries(steer))
    PROVE  WholeInv'
<1>1. /\ OutsOnce(transcript) /\ Known(transcript, calls)
      /\ Unanswered(transcript) = {} /\ transcript \in Seq(Entry)
  BY StartsOn
<1>2. transcript \o <<>> = transcript BY <1>1
<1>3. steer # <<>> \/ Answerable(transcript) BY ContinueIs
<1> QED BY <1>1, <1>2, <1>3, WholeStart

\* Prompt.
LEMMA WholePrompt ==
    ASSUME TypeOK, PathInv, SyncInv, WholeInv, ~skipped, ~raced, HostPrompt
    PROVE  WholeInv'
<1>1. PICK outs \in Outputs(pending) : Start(Append(outs, Prompt), {}, FALSE)
  BY DEF HostPrompt
<1>2. /\ OutsOnce(transcript) /\ Known(transcript, calls)
      /\ Unanswered(transcript) = pending /\ transcript \in Seq(Entry)
      /\ calls \in Nat
  BY <1>1, StartsOn
<1>3. pending \in SUBSET Nat BY DEF TypeOK, AgentOK
<1>4. /\ OutsOnce(transcript \o outs) /\ Known(transcript \o outs, calls)
      /\ Unanswered(transcript \o outs) = {}
      /\ outs \in Seq(Entry) /\ transcript \o outs \in Seq(Entry)
  BY <1>2, <1>3, OutputsCat
<1> DEFINE s == transcript \o outs
           t == <<Prompt>>
<1>5. t \in Seq(Entry) /\ Plain(t) /\ Answerable(t) /\ Prompt \in Entry
  BY PlainLists DEF Prompt, Entry
<1>6. transcript \o Append(outs, Prompt) = s \o t BY <1>2, <1>4, <1>5
<1>7. /\ OutsOnce(s) /\ Known(s, calls) /\ Unanswered(s) = {} /\ s \in Seq(Entry)
  BY <1>4
<1> HIDE DEF s, t
<1>8. /\ OutsOnce(s \o t) /\ Known(s \o t, calls) /\ Unanswered(s \o t) = {}
      /\ Answerable(s \o t)
  BY <1>5, <1>7, PlainCat, AnswerableCat
<1> QED BY <1>1, <1>6, <1>8, WholeStart

\* Resume, on a look that is not stale.
LEMMA WholeResume ==
    ASSUME TypeOK, PathInv, SyncInv, WholeInv, HostInv, ~skipped, ~raced', NEW h \in Hosts,
           NEW approve \in SUBSET host[h].calls, NEW refuse \in BOOLEAN,
           ResumeStart(h, approve, refuse)
    PROVE  WholeInv'
<1>0. ~raced /\ pending = host[h].calls /\ host[h].op = "resume"
  BY DEF ResumeStart
<1> DEFINE S == host[h].calls \ approve
<1>1. PICK outs \in Outputs(S) : Start(outs, approve, refuse)
  BY DEF ResumeStart, AnswerOutputs
<1>2. /\ OutsOnce(transcript) /\ Known(transcript, calls)
      /\ Unanswered(transcript) = pending /\ transcript \in Seq(Entry)
      /\ calls \in Nat
  BY <1>0, <1>1, StartsOn
<1>3. S \in SUBSET Nat /\ S \subseteq pending /\ pending \ S = approve
  BY <1>0 DEF TypeOK, AgentOK
<1>4. approve = {} => S # {} BY <1>0 DEF HostInv
<1> HIDE DEF S
<1>5. /\ OutsOnce(transcript \o outs) /\ Known(transcript \o outs, calls)
      /\ Unanswered(transcript \o outs) = approve
      /\ S # {} => Answerable(transcript \o outs)
  BY <1>2, <1>3, OutputsCat
<1> QED BY <1>0, <1>1, <1>4, <1>5, WholeStart

\* The other steps, of hosts, deliveries and subscribers.
LEMMA WholeOther ==
    ASSUME TypeOK, PathInv, SyncInv, WholeInv, HostInv, [Next]_vars, ~RunStep
    PROVE  WholeInv'
<1> USE DEF vars, queueVars, stateVars, flagVars, runVars, pathVars,
            callVars, reportVars, pastVars
<1>t. steer \in Seq(Item) BY DEF TypeOK, AgentOK, Item
<1>a. \A i : Append(steer, i) # <<>> BY <1>t, AppendNotEmpty
<1>s. CASE Rests /\ Taints BY <1>s, WholeRests
<1>k. ASSUME UNCHANGED <<working, inbox, pc, after, approved, calls, batch,
                         running, transcript, skipped, raced>>,
             steer' = steer \/ steer' # <<>>
      PROVE  WholeInv'
  BY <1>k, <1>s DEF Rests, Taints, Full, At
<1>1. CASE UNCHANGED vars BY <1>1, <1>k
<1>2. CASE HostPrompt
  <2>1. UNCHANGED <<skipped, raced>> BY <1>2 DEF HostPrompt, Start
  <2>2. CASE skipped \/ raced BY <2>1, <2>2 DEF WholeInv
  <2> QED BY <1>2, <2>2, WholePrompt
<1>3. ASSUME NEW h \in Hosts, HostStep(h) PROVE WholeInv'
  <2>1. CASE ContinueLook(h) \/ ResumeLook(h) \/ StartRefused(h)
    BY <2>1, <1>k DEF ContinueLook, ResumeLook, StartRefused
  <2>2. CASE ContinueStart(h)
    <3>1. /\ skipped' = skipped /\ Start(<<>>, {}, FALSE) /\ pending = {}
          /\ raced' = (raced \/ ~CanContinue(transcript \o Entries(steer)))
      BY <2>2 DEF ContinueStart, Start
    <3>2. CASE skipped' \/ raced' BY <3>2 DEF WholeInv
    <3>3. CASE ~skipped' /\ ~raced' BY <3>1, <3>3, WholeContinue
    <3> QED BY <3>2, <3>3
  <2>3. ASSUME NEW approve \in SUBSET host[h].calls, NEW refuse \in BOOLEAN,
               ResumeStart(h, approve, refuse)
        PROVE  WholeInv'
    <3>1. skipped' = skipped BY <2>3 DEF ResumeStart, Start
    <3>2. CASE skipped' \/ raced' BY <3>2 DEF WholeInv
    <3>3. CASE ~skipped' /\ ~raced' BY <2>3, <3>1, <3>3, WholeResume
    <3> QED BY <3>2, <3>3
  <2> QED BY <1>3, <2>1, <2>2, <2>3 DEF HostStep
<1>4. CASE \E i \in Steers : Steer(i) BY <1>4, <1>k, <1>a DEF Steer
<1>5. CASE \E i \in FollowUps : FollowUp(i) BY <1>5, <1>k DEF FollowUp
<1>6. ASSUME NEW d \in Deliveries, AcceptDelivery(d) \/ AcceptInside(d)
      PROVE  WholeInv'
  BY <1>6, <1>k, <1>a DEF AcceptDelivery, AcceptInside, Accept
<1>7. ASSUME NEW d \in Deliveries, SettleWait(d) \/ Settle(d) \/ SettleCancelled(d)
      PROVE  WholeInv'
  BY <1>7, <1>k DEF SettleWait, Settle, SettleCancelled
<1>8. ASSUME NEW d \in Deliveries, SettleStart(d) PROVE WholeInv'
  <2>1. /\ UNCHANGED <<skipped, raced>> /\ Start(<<>>, {}, FALSE)
        /\ IdleOutcome(d) = "start"
    BY <1>8 DEF SettleStart, Start
  <2>2. CASE skipped \/ raced BY <2>1, <2>2 DEF WholeInv
  <2>3. pending = {} /\ CanContinue(transcript \o Entries(steer))
    BY <2>1 DEF IdleOutcome, Refusal
  <2> QED BY <2>1, <2>2, <2>3, WholeContinue
<1>9. CASE ReportQueued \/ Abort \/ AbortCancel \/ ContextDone \/ Hold \/ Release
  BY <1>9, <1>k DEF ReportQueued, Abort, AbortCancel, ContextDone, Hold, Release
<1> QED BY <1>1, <1>2, <1>3, <1>4, <1>5, <1>6, <1>7, <1>8, <1>9
  DEF Next, DeliveryStep

\* The conversation is kept whole.
LEMMA WholeNext ==
    ASSUME TypeOK, PathInv, SyncInv, WholeInv, HostInv, [Next]_vars
    PROVE  WholeInv'
<1> USE DEF queueVars, stateVars, flagVars, runVars, pathVars,
            callVars, reportVars, pastVars
<1>1. CASE ~RunStep BY <1>1, WholeOther
<1>2. CASE RunStep
  <2>1. Taints
    BY <1>2 DEF RunStep, RunStart, ItemStart, ItemEnd, RunDrain, ApprovedBatch,
         RunRefused, TurnTop, BuildRefused, TurnStart, ModelTurn, ToolBatch,
         TurnEnd, TurnDecide, RunEnding, RunEnd, RunFinish, Raise, RaiseLast,
         Taints
  <2>2. CASE skipped \/ raced BY <2>1, <2>2 DEF WholeInv, Taints
  <2>3. CASE RunDrain \/ ApprovedBatch \/ TurnTop \/ ModelTurn \/ ToolBatch
             \/ TurnDecide \/ RunFinish
             \/ (TurnStart /\ pc' = "model") \/ (TurnEnd /\ pc' = "decide")
    BY <2>2, <2>3, WholeDrain, WholeApproved, WholeTop, WholeModel, WholeBatch,
       WholeDecide, WholeFinish, WholeTurn
  <2>4. CASE \/ RunStart \/ ItemStart \/ ItemEnd \/ RunRefused \/ BuildRefused
             \/ (TurnStart /\ pc' # "model") \/ (TurnEnd /\ pc' # "decide")
             \/ RunEnding \/ RunEnd
    BY <2>4, EventsRest, WholeRests
  <2> QED BY <1>2, <2>3, <2>4 DEF RunStep
<1> QED BY <1>1, <1>2

-----------------------------------------------------------------------------
(* The agent's transcript and the loop's.                                  *)

\* A step of the run that is no event of an entry and does not end it.
LEMMA SyncStays ==
    ASSUME SyncInv, UNCHANGED <<transcript, working, running>>, running,
           pc # "item_end", pc' \notin {"item_end", "finish"},
           skipped => skipped'
    PROVE  SyncInv'
  BY DEF SyncInv

\* An entry is in the loop's transcript, and then in the agent's.
LEMMA SyncItems ==
    ASSUME TypeOK, PathInv, StopInv, SyncInv, ItemStart \/ ItemEnd
    PROVE  SyncInv'
<1> USE DEF queueVars, stateVars, flagVars, runVars, pathVars,
            callVars, reportVars, pastVars
<1>t. /\ inbox \in Seq(Entry) /\ working \in Seq(Entry)
      /\ transcript \in Seq(Entry) /\ running
      /\ pc = "append" => inbox # <<>>
      /\ pc = "item_end" => after \in Resumes
  BY DEF TypeOK, RunOK, AgentOK, PathInv, StopInv, ItemStart, ItemEnd
<1>r. \A o : Raise(o) => (skipped => skipped') /\ (o = "skipped" => skipped')
  BY DEF Raise
<1> SUFFICES ASSUME ~skipped' PROVE SyncInv'
  BY DEF SyncInv
<1>1. CASE ItemStart
  <2>1. PICK o \in {"ok", "refused", "skipped"} :
           /\ Raise(o)
           /\ IF o = "ok"
              THEN /\ working' = Append(working, Head(inbox))
                   /\ inbox' = Tail(inbox)
                   /\ pc' = "item_end" /\ UNCHANGED <<after, reason>>
              ELSE Stop("failure") /\ UNCHANGED working
    BY <1>1 DEF ItemStart
  <2>2. UNCHANGED <<transcript, running>> /\ pc = "append"
    BY <1>1 DEF ItemStart
  <2>3. ~skipped /\ transcript = working
    BY <1>r, <1>t, <2>1, <2>2 DEF SyncInv
  <2>4. CASE o = "ok"
    <3>1. Head(inbox) \in Entry BY <1>t, <2>2
    <3>2. working' = Append(transcript, Head(inbox)) /\ pc' = "item_end"
      BY <2>1, <2>3, <2>4
    <3>3. Append(transcript, Head(inbox))[Len(Append(transcript, Head(inbox)))]
            = Head(inbox)
      BY <1>t, <3>1
    <3>4. (working = Append(transcript, working[Len(working)]))'
      BY <2>2, <3>2, <3>3
    <3> QED BY <1>t, <2>2, <3>2, <3>4 DEF SyncInv
  <2>5. CASE o # "ok" BY <1>t, <2>1, <2>2, <2>3, <2>5 DEF SyncInv, Stop
  <2> QED BY <2>4, <2>5
<1>2. CASE ItemEnd
  <2>1. PICK o \in {"ok", "refused", "skipped"} :
           /\ Raise(o)
           /\ transcript' = IF o = "skipped" THEN transcript
                            ELSE Append(transcript, working[Len(working)])
           /\ IF o = "ok"
              THEN Enter(inbox, after) /\ UNCHANGED reason
              ELSE Stop("failure")
    BY <1>2 DEF ItemEnd
  <2>2. UNCHANGED <<working, running>> /\ pc = "item_end"
    BY <1>2 DEF ItemEnd
  <2>3. ~skipped /\ o # "skipped" BY <1>r, <2>1
  <2>4. transcript' = working' BY <2>1, <2>2, <2>3 DEF SyncInv
  <2>5. pc' \notin {"item_end", "finish"}
    BY <1>t, <2>1, <2>2 DEF Enter, Stop, Resumes
  <2> QED BY <1>t, <2>2, <2>4, <2>5 DEF SyncInv
<1> QED BY <1>1, <1>2

\* The steps of the run keep the two together.
LEMMA SyncRunStep ==
    ASSUME TypeOK, PathInv, StopInv, SyncInv, RunStep
    PROVE  SyncInv'
<1> USE DEF queueVars, stateVars, flagVars, runVars, pathVars,
            callVars, reportVars, pastVars
<1>t. /\ pc # "idle" => running
      /\ pc = "run_start" => after \in Resumes
  BY DEF PathInv, StopInv
<1>r. \A o : Raise(o) => (skipped => skipped') BY DEF Raise
<1>1. CASE RunStart
  <2>1. UNCHANGED <<transcript, working, running>> /\ (skipped => skipped')
        /\ pc = "run_start"
    BY <1>1, <1>r DEF RunStart
  <2>2. pc' \notin {"item_end", "finish"}
    BY <1>1, <1>t DEF RunStart, Enter, Stop, Resumes
  <2> QED BY <1>t, <2>1, <2>2, SyncStays
<1>2. CASE ItemStart \/ ItemEnd BY <1>2, SyncItems
<1>3. CASE RunDrain \/ ApprovedBatch \/ RunRefused \/ TurnTop \/ ModelTurn
           \/ ToolBatch \/ RunEnding \/ TurnDecide
  <2>1. UNCHANGED <<transcript, working, running, skipped>>
        /\ pc \notin {"idle", "item_end"}
    BY <1>3 DEF RunDrain, ApprovedBatch, RunRefused, TurnTop, ModelTurn,
                ToolBatch, RunEnding, TurnDecide
  <2>2. pc' \notin {"item_end", "finish"}
    BY <1>3 DEF RunDrain, ApprovedBatch, RunRefused, TurnTop, ModelTurn,
                ToolBatch, RunEnding, TurnDecide, DrainSteer, DrainLast, Enter,
                Stop, StopClosing, BatchCut, BatchDone
  <2> QED BY <1>t, <2>1, <2>2, SyncStays
<1>4. CASE BuildRefused \/ TurnStart \/ TurnEnd
  <2>1. UNCHANGED <<transcript, working, running>> /\ (skipped => skipped')
        /\ pc \notin {"idle", "item_end"}
    BY <1>4, <1>r DEF BuildRefused, TurnStart, TurnEnd
  <2>2. pc' \notin {"item_end", "finish"}
    BY <1>4 DEF BuildRefused, TurnStart, TurnEnd, Stop
  <2> QED BY <1>t, <2>1, <2>2, SyncStays
<1>5. CASE RunEnd
  <2>1. PICK o \in {"ok", "refused", "skipped"} :
           /\ RaiseLast(o)
           /\ o # "skipped" => pending' = EndPending
    BY <1>5 DEF RunEnd
  <2>2. (o = "skipped" => skipped') /\ (skipped => skipped')
    BY <2>1 DEF RaiseLast
  <2>3. UNCHANGED <<transcript, working, running>> /\ pc = "run_end"
        /\ pc' = "finish"
    BY <1>5 DEF RunEnd
  <2>4. o # "skipped" => pending' = Unanswered(working)'
    BY <2>1, <2>3 DEF EndPending
  <2> QED BY <1>t, <2>2, <2>3, <2>4 DEF SyncInv
<1>6. CASE RunFinish
  <2>1. UNCHANGED <<transcript, pending, skipped>> /\ pc = "finish" /\ ~running'
        /\ pc' = "idle"
    BY <1>6 DEF RunFinish
  <2>2. ~skipped => pending = Unanswered(transcript)
    BY <1>t, <2>1 DEF SyncInv
  <2>3. Unanswered(transcript)' = Unanswered(transcript) BY <2>1
  <2> QED BY <2>1, <2>2, <2>3 DEF SyncInv
<1> QED BY <1>1, <1>2, <1>3, <1>4, <1>5, <1>6 DEF RunStep

\* The other steps leave both alone, or start a run on a copy.
LEMMA SyncOther ==
    ASSUME TypeOK, PathInv, SyncInv, [Next]_vars, ~RunStep
    PROVE  SyncInv'
<1> USE DEF vars, queueVars, stateVars, flagVars, runVars, pathVars,
            callVars, reportVars, pastVars
<1>k. ASSUME UNCHANGED <<working, pc, running, transcript, pending, skipped>>
      PROVE  SyncInv'
  <2>1. /\ Unanswered(working)' = Unanswered(working)
        /\ Unanswered(transcript)' = Unanswered(transcript)
    BY <1>k
  <2> QED BY <1>k, <2>1 DEF SyncInv
<1>s. ASSUME NEW items, NEW approve, NEW refuse, Start(items, approve, refuse)
      PROVE  SyncInv'
  BY <1>s DEF Start, SyncInv
<1>1. CASE UNCHANGED vars BY <1>1, <1>k
<1>2. CASE HostPrompt BY <1>2, <1>s DEF HostPrompt
<1>3. ASSUME NEW h \in Hosts, HostStep(h) PROVE SyncInv'
  <2>1. CASE ContinueLook(h) \/ ResumeLook(h) \/ StartRefused(h)
    BY <2>1, <1>k DEF ContinueLook, ResumeLook, StartRefused
  <2>2. CASE ContinueStart(h) BY <2>2, <1>s DEF ContinueStart
  <2>3. CASE \E approve \in SUBSET host[h].calls, refuse \in BOOLEAN :
                ResumeStart(h, approve, refuse)
    BY <2>3, <1>s DEF ResumeStart
  <2> QED BY <1>3, <2>1, <2>2, <2>3 DEF HostStep
<1>4. CASE \E i \in Steers : Steer(i) BY <1>4, <1>k DEF Steer
<1>5. CASE \E i \in FollowUps : FollowUp(i) BY <1>5, <1>k DEF FollowUp
<1>6. ASSUME NEW d \in Deliveries, AcceptDelivery(d) \/ AcceptInside(d)
      PROVE  SyncInv'
  BY <1>6, <1>k DEF AcceptDelivery, AcceptInside, Accept
<1>7. ASSUME NEW d \in Deliveries, SettleWait(d) \/ Settle(d) \/ SettleCancelled(d)
      PROVE  SyncInv'
  BY <1>7, <1>k DEF SettleWait, Settle, SettleCancelled
<1>8. ASSUME NEW d \in Deliveries, SettleStart(d) PROVE SyncInv'
  BY <1>8, <1>s DEF SettleStart
<1>9. CASE ReportQueued \/ Abort \/ AbortCancel \/ ContextDone \/ Hold \/ Release
  BY <1>9, <1>k DEF ReportQueued, Abort, AbortCancel, ContextDone, Hold, Release
<1> QED BY <1>1, <1>2, <1>3, <1>4, <1>5, <1>6, <1>7, <1>8, <1>9
  DEF Next, DeliveryStep

\* A Resume looks at calls that are pending.
LEMMA HostNext ==
    ASSUME TypeOK, HostInv, [Next]_vars
    PROVE  HostInv'
<1> USE DEF vars, queueVars, stateVars, flagVars, runVars, pathVars,
            callVars, reportVars, pastVars
<1>1. CASE UNCHANGED host BY <1>1 DEF HostInv
<1>2. ASSUME NEW h \in Hosts, HostStep(h) PROVE HostInv'
  <2>1. \/ host' = [host EXCEPT ![h] = [op |-> "continue", calls |-> {}]]
        \/ host' = [host EXCEPT ![h].op = "none"]
        \/ pending # {}
           /\ host' = [host EXCEPT ![h] = [op |-> "resume", calls |-> pending]]
        \/ host' = [host EXCEPT ![h] = [op |-> "none", calls |-> {}]]
    BY <1>2 DEF HostStep, ContinueLook, ContinueStart, ResumeLook, ResumeStart,
                StartRefused
  <2>2. host \in [Hosts -> [op : {"none", "continue", "resume"}, calls : SUBSET Nat]]
    BY DEF TypeOK, CallersOK
  <2>3. \A g \in Hosts : g # h => host'[g] = host[g] BY <2>1, <2>2
  <2>4. host'[h].op = "resume" => host'[h].calls # {} BY <2>1, <2>2
  <2> QED BY <2>3, <2>4 DEF HostInv
<1>3. CASE RunStep
  BY <1>1, <1>3 DEF RunStep, RunStart, ItemStart, ItemEnd, RunDrain,
       ApprovedBatch, RunRefused, TurnTop, BuildRefused, TurnStart, ModelTurn,
       ToolBatch, TurnEnd, TurnDecide, RunEnding, RunEnd, RunFinish
<1>4. CASE HostPrompt \/ (\E i \in Steers : Steer(i))
           \/ (\E i \in FollowUps : FollowUp(i))
           \/ ReportQueued \/ Abort \/ AbortCancel \/ ContextDone \/ Hold
           \/ Release \/ UNCHANGED vars
  BY <1>1, <1>4 DEF HostPrompt, Steer, FollowUp, ReportQueued, Abort,
       AbortCancel, ContextDone, Hold, Release
<1>5. ASSUME NEW d \in Deliveries,
             AcceptDelivery(d) \/ AcceptInside(d) \/ DeliveryStep(d)
             \/ SettleCancelled(d)
      PROVE  HostInv'
  BY <1>1, <1>5 DEF AcceptDelivery, AcceptInside, Accept, DeliveryStep,
       SettleWait, Settle, SettleStart, SettleCancelled
<1> QED BY <1>2, <1>3, <1>4, <1>5 DEF Next

\* What the invariants say of the conversation.
LEMMA WholeIs ==
    ASSUME TypeOK, PathInv, SyncInv, WholeInv
    PROVE  ConversationIsWhole
<1>t. /\ working \in Seq(Entry) /\ inbox \in Seq(Entry)
      /\ transcript \in Seq(Entry)
  BY DEF TypeOK, RunOK, AgentOK
<1>1. PendingIsUnanswered
  <2>1. ASSUME pc = "item_end", ~skipped
        PROVE  transcript = SubSeq(working, 1, Len(working) - 1)
    <3>1. working = Append(transcript, working[Len(working)]) /\ working # <<>>
      BY <2>1 DEF SyncInv, TypeOK, RunOK
    <3>2. working[Len(working)] \in Entry BY <1>t, <3>1
    <3>3. \A e \in Entry : SubSeq(Append(transcript, e), 1,
                                  Len(Append(transcript, e)) - 1) = transcript
      BY <1>t
    <3> QED BY <3>1, <3>2, <3>3
  <2> QED BY <2>1 DEF PendingIsUnanswered, SyncInv
<1>2. OneOutputPerCall
  <2> SUFFICES ASSUME ~raced, ~skipped PROVE OutsOnce(transcript)
    BY DEF OneOutputPerCall, OutputsDistinct, OutsOnce
  <2>1. OutsOnce(Conversation) /\ Known(Conversation, calls)
    BY DEF WholeInv
  <2>2. CASE ~running BY <2>1, <2>2 DEF Conversation
  <2>3. CASE running
    <3>1. OutsOnce(working) /\ Known(working, calls)
      BY <1>t, <2>1, <2>3, PartOf DEF Conversation, Full
    <3>2. CASE pc # "item_end" BY <2>3, <3>1, <3>2 DEF SyncInv
    <3>3. CASE pc = "item_end"
      <4> DEFINE e == working[Len(working)]
      <4>1. working = Append(transcript, e) /\ working # <<>>
        BY <3>3 DEF SyncInv, TypeOK, RunOK
      <4>2. e \in Entry BY <1>t, <4>1
      <4> HIDE DEF e
      <4>3. \A i \in DOMAIN transcript :
               i \in DOMAIN working /\ working[i] = transcript[i]
        BY <1>t, <4>1, <4>2
      <4> QED BY <3>1, <4>3 DEF OutsOnce
    <3> QED BY <3>2, <3>3
  <2> QED BY <2>2, <2>3
<1>3. ModelHasInput
  <2> SUFFICES ASSUME pc = "turn_start", ~raced, ~skipped
               PROVE  Answerable(working) /\ Unanswered(working) = {}
    BY DEF ModelHasInput, Answerable
  <2>1. Full = working /\ At = "turn_start" BY AtClear DEF Clear
  <2> QED BY <2>1 DEF WholeInv, OpenAt
<1> QED BY <1>1, <1>2, <1>3 DEF ConversationIsWhole

\* The agent of agent.go and the loop of run.go keep the conversation whole
\* through every prompt, continue, resume, abort and failure, for any
\* number of hosts, deliveries, runs and turns: while every event is
\* dispatched the agent holds the loop's transcript and waits for exactly
\* the calls it leaves open; and unless a Continue or a Resume acted on a
\* stale look, no call is answered twice, and a model is asked only with
\* every call answered and something to answer.
THEOREM ConversationKept == Spec => []ConversationIsWhole
<1>1. Init => PathInv /\ StopInv
  BY ItemsNone DEF Init, PathInv, Clear, StopInv, Appending, Stops, Resumes
<1>2. Init => SyncInv /\ HostInv
  BY DEF Init, SyncInv, HostInv, Unanswered
<1>3. Init => WholeInv
  BY DEF Init, WholeInv, OpenAt, At, Conversation, OutsOnce, Known
<1>4. TypeOK /\ PathInv /\ StopInv /\ SyncInv /\ [Next]_vars => SyncInv'
  BY SyncRunStep, SyncOther
<1>5. TypeOK /\ PathInv /\ SyncInv /\ WholeInv /\ HostInv /\ [Next]_vars
      => WholeInv'
  BY WholeNext
<1>6. TypeOK /\ HostInv /\ [Next]_vars => HostInv' BY HostNext
<1>7. TypeOK /\ PathInv /\ SyncInv /\ WholeInv => ConversationIsWhole
  BY WholeIs
<1> QED
  BY <1>1, <1>2, <1>3, <1>4, <1>5, <1>6, <1>7, TypeInit, TypeNext, PathNext,
     StopNext, PTL DEF Spec
============================================================================
