------------------------------ MODULE Subagent ------------------------------
(***************************************************************************)
(* An agent as a tool (tools/agent), recorded by session's Observe and     *)
(* continued by its ChildRecord: one call of the parent, handed over again *)
(* after a crash or an abort, and the child agent it starts, whose session *)
(* decides what the call does the second time.                             *)
(*                                                                         *)
(* The parent's log holds the call's entries.  A child is what its         *)
(* transcript amounts to: the state of each of its calls, whether it       *)
(* answered, and the inputs it took or is owed; `child' is the agent's and *)
(* `stored' the path at the leaf of its session.  Each step of the child   *)
(* is an event that Observe writes before the child goes on, or cannot     *)
(* write, after which the child goes on unrecorded.  The parent's own      *)
(* record and the rule by which a Resume answers a call are module         *)
(* Record's; seeds, prompts, progress and the wording of results are left  *)
(* out.                                                                    *)
(***************************************************************************)
EXTENDS Naturals, Sequences, FiniteSets

CONSTANTS
    Calls, Never,      \* the child's calls; those whose tool may not repeat
    Keys,              \* idempotency keys of the parent's call: 1, 2, ...
    Inputs,            \* inputs a host queues for the child
    Budgets            \* bounds: hand-offs, new keys, crashes, aborts and
                       \* failed writes; and the tool's options ask, detach
None == 0

ASSUME SubagentAssumption ==
    /\ Never \subseteq Calls /\ Keys \subseteq Nat \ {0} /\ 1 \in Keys
    /\ \A b \in Budgets :
          b \in [handoffs : Nat, keys : Nat, crashes : Nat, aborts : Nat,
                fails : Nat, ask : BOOLEAN, detach : BOOLEAN]

VARIABLES
    plog,              \* the parent's entries for the call
    pc, key, out,      \* how far it has come, its key, and its output
    child, queue,      \* the child agent, and the inputs in its queues
    verdict, worked,   \* askLog's view of its calls; tools that have run
    stored,            \* the child's session, at its leaf
    writer, begun,     \* Recorder.runs has the run, and wrote its start
    kept,              \* the writers of earlier runs still in Recorder.runs
    linked,            \* writer.linked of the parent
    goroutine,         \* a detached child's: its channels, and the callback
    ran,               \* history: how often each tool ran under each key
    broken,            \* history: a write of the child's record failed
    budget             \* what is left of the bounds

parent == <<plog, pc, key, out, linked>>
agent == <<child, queue, verdict, worked>>
record == <<stored, writer, begun, kept>>
history == <<ran, broken>>
vars == <<parent, agent, record, goroutine, history, budget>>

NoChild == [op |-> None, run |-> "none", calls |-> [c \in Calls |-> "none"],
            answer |-> FALSE, owed |-> [i \in Inputs |-> 0], taken |-> {}]
NoOutput == [kind |-> "none", op |-> None]
NotDetached == [started |-> FALSE, ended |-> FALSE, looked |-> FALSE,
                told |-> 0]

Init ==
    /\ plog = <<>> /\ pc = "pending" /\ key = None /\ out = NoOutput
    /\ child = NoChild /\ queue = {} /\ worked = {}
    /\ verdict = [c \in Calls |-> "none"]
    /\ stored = NoChild /\ writer = FALSE /\ begun = FALSE /\ kept = 0
    /\ linked = FALSE
    /\ goroutine = NotDetached
    /\ ran = [k \in Keys |-> [c \in Calls |-> 0]] /\ broken = FALSE
    /\ budget \in Budgets

In(c, states) == child.calls[c] \in states
Has(states) == \E c \in Calls : In(c, states)

\* No call of the child is left to decide, run or answer.
Settled == ~Has({"open", "ready", "dispatched"})

Spend(field) ==
    budget[field] > 0 /\ budget' = [budget EXCEPT ![field] = @ - 1]

\* The record after an event that makes the child `new': what the event
\* changes is added to it, which has a gap where an earlier run of the child
\* could not be written, and holds no call whose item is in the gap.
Written(new) ==
    [op |-> new.op, run |-> new.run,
     calls |-> [c \in Calls |->
         IF \/ new.calls[c] = child.calls[c]
            \/ stored.calls[c] = "none" /\ new.calls[c] # "open"
         THEN stored.calls[c] ELSE new.calls[c]],
     answer |-> IF new.answer = child.answer THEN stored.answer ELSE new.answer,
     owed |-> [i \in Inputs |-> IF new.owed[i] = child.owed[i] THEN stored.owed[i]
                                ELSE new.owed[i]],
     taken |-> stored.taken \cup (new.taken \ child.taken)]

\* Observe writes an event of the child that makes it `new', unless a write
\* fails, which ends the record of the run and not the run.
Observed(new) ==
    /\ child' = new /\ UNCHANGED kept
    /\ \/ /\ stored' = IF writer THEN Written(new) ELSE stored
          /\ UNCHANGED <<writer, begun, broken, budget>>
       \/ /\ writer /\ Spend("fails") /\ writer' = FALSE /\ broken' = TRUE
          /\ UNCHANGED <<stored, begun>>

-----------------------------------------------------------------------------
(* The parent's call.                                                      *)

Entry(kind, k) == [kind |-> kind, key |-> k]

\* linkedUnder: an output, or a hand-off under another key, ends what the
\* call did before it.
Resets(e, k) == e.kind = "output" \/ (e.kind = "dispatch" /\ e.key # k)
Since(log, k) ==
    {i \in DOMAIN log : \A j \in i .. Len(log) : ~Resets(log[j], k)}
Those(log, k, e) == {i \in Since(log, k) : log[i] = e}
HandOffs(log, k) == Cardinality(Those(log, k, Entry("dispatch", k)))
                    - Cardinality(Those(log, k, Entry("withdraw", k)))

\* Mutant: a link counts, whichever hand-off it came after.
LinkedEver(log, k) == \E i \in DOMAIN log : log[i] = Entry("link", None)

LinkedUnder(log, k) ==
    \E i \in Those(log, k, Entry("link", None)) :
        HandOffs(SubSeq(log, 1, i), k) > 0

\* The keys the call may be handed over under: that of the dispatch it
\* repeats, or another with other arguments, which is another operation.
KeysFor == {IF key = None THEN 1 ELSE key}
           \cup {k \in Keys : budget.keys > 0 /\ key # None /\ k > key}

\* The parent hands the call over, or withdraws the dispatch it has written.
\* A detached tool has no replay, and its call is not handed over again.
\* Execute starts with nothing asked.
HandOver(k) ==
    /\ pc = "pending" /\ k \in KeysFor
    /\ budget.detach => plog = <<>>
    /\ key' = k /\ verdict' = [c \in Calls |-> "none"] /\ worked' = {}
    /\ \/ /\ plog' = Append(plog, Entry("dispatch", k))
          /\ pc' = IF budget.detach THEN "fresh" ELSE "load"
          /\ budget.handoffs > 0
          /\ budget' = [budget EXCEPT !.handoffs = @ - 1,
                            !.keys = IF k = key \/ key = None THEN @ ELSE @ - 1]
       \/ /\ plog' = plog \o <<Entry("dispatch", k), Entry("withdraw", k)>>
          /\ Spend("aborts") /\ key \in {None, k} /\ pc' = "pending"
    /\ UNCHANGED <<out, linked, child, queue, record, goroutine, history>>

Gives(kind, k) == out' = [kind |-> kind, op |-> k]

\* closeOpenRun: a run that the process cut is ended, and what it is owed
\* stays owed.
Closed(s) == [s EXCEPT !.run = IF @ = "open" THEN "cut" ELSE @]

\* Mutant: the replay rule of the child's tools is not asked.
ReplayedAll(s, c) == "ready"

\* ReplayAnswers: a call that was handed over runs again where its tool
\* says that it may, and has its outcome unknown where not.
Replayed(s, c) == IF c \in Never THEN "done" ELSE "ready"

\* restoredAnswers: calls that never started, and those the policy held
\* where it can ask, go back to the policy.
Restored(s) ==
    [s EXCEPT !.answer = FALSE, !.run = "none",
        !.calls = [c \in Calls |->
            CASE s.calls[c] = "dispatched" -> Replayed(s, c)
              [] s.calls[c] \in {"ready", "held"} -> "open"
              [] OTHER -> s.calls[c]]]

Pending(s) ==
    {c \in Calls : s.calls[c] \in {"open", "ready", "held", "dispatched"}}
Owed(s) == {i \in Inputs : s.owed[i] > 0}

\* recordedEnd: a run that the process cut has an end if it had answered.
HasEnd(s) == Pending(s) = {} /\ Owed(s) = {} /\ (s.run = "cut" => s.answer)

\* What ChildRecord makes of a hand-off: the first one under its key and one
\* whose child has no run start a child; one whose child is not linked fails
\* with the outcome unknown; a child that ended gives its end; one that holds
\* a call nobody can be asked about is left; any other is continued.
Loads(kind) ==
    LET s == Closed(stored) IN
    kind = IF HandOffs(plog, key) <= 1 THEN "fresh"
           ELSE IF ~LinkedUnder(plog, key) THEN "unknown"
           ELSE IF stored.run = "none" THEN "fresh"
           ELSE IF HasEnd(s) THEN "end"
           ELSE IF ~budget.ask /\ \E c \in Calls : s.calls[c] = "held" THEN "held"
           ELSE "restored"

\* The first hand-off under a key and a child without a run start afresh.
LoadFresh ==
    /\ pc = "load" /\ Loads("fresh") /\ pc' = "fresh"
    /\ UNCHANGED <<plog, key, out, linked, agent, record, goroutine, history,
                   budget>>

LoadRecord ==
    LET s == Closed(stored) IN
    /\ pc = "load" /\ ~Loads("fresh")
    /\ stored' = IF Loads("unknown") THEN stored ELSE s
    /\ \/ /\ Loads("unknown") /\ Gives("unknown", key)
          /\ pc' = "output" /\ UNCHANGED <<child, queue>>
       \/ /\ Loads("end") /\ pc' = "toolend" /\ child' = s /\ UNCHANGED queue
          /\ Gives(IF s.answer THEN "answer" ELSE "failed", s.op)
       \/ /\ Loads("held") /\ Gives("input", s.op) /\ pc' = "toolend"
          /\ child' = s /\ queue' = Owed(s)
       \/ /\ Loads("restored") /\ pc' = "create"
          /\ child' = Restored(s) /\ queue' = Owed(s) /\ UNCHANGED out
    /\ begun' = (pc' = "toolend")
    /\ UNCHANGED <<plog, key, linked, verdict, worked, writer, kept, goroutine,
                   history, budget>>

\* The child's record cannot be read, and the call fails.
LoadFails ==
    /\ pc = "load" /\ HandOffs(plog, key) > 1 /\ Spend("fails")
    /\ Gives("failed", key) /\ pc' = "output"
    /\ UNCHANGED <<plog, key, linked, agent, record, goroutine, history>>

\* Execute builds a child that holds nothing, and marks its run a retry.
Afresh ==
    /\ pc = "fresh" /\ pc' = "create"
    /\ child' = [NoChild EXCEPT !.op = key] /\ queue' = {}
    /\ UNCHANGED <<plog, key, out, linked, verdict, worked, record, goroutine,
                   history, budget>>

\* releases: every call pending was held beside calls that were asked about
\* and are answered.
Releases(held) ==
    /\ \A c \in held : verdict[c] = "held"
    /\ \E c \in Calls : verdict[c] \in {"accepted", "declined"}
    /\ \A c \in Calls : verdict[c] # "silent"

Held == {c \in Calls : In(c, {"held"})}

\* Mutant: what was declined is not looked at.
ReleasedAs == "ready"

\* The held calls run where all were accepted, and are refused otherwise.
ReleaseAs == IF \E c \in Calls : verdict[c] = "declined" THEN "done" ELSE "ready"

\* The run starts with the answers to the calls the child holds, which only
\* a run of the release loop has; what ChildRecord handed back is in the path
\* already (takeHandedBack).
TakenUp ==
    [child EXCEPT !.run = "open",
        !.calls = [c \in Calls |-> IF c \in Held THEN ReleaseAs ELSE @[c]]]

\* newChild: the session is made, or opened, at a new root for a retry.
NewChild ==
    /\ pc = "create"
    /\ \/ writer' = TRUE /\ pc' = "link" /\ UNCHANGED <<child, broken, budget>>
       \/ /\ Spend("fails") /\ broken' = TRUE /\ pc' = "run"
          /\ child' = TakenUp /\ UNCHANGED writer
    /\ begun' = FALSE
    /\ goroutine' = [goroutine EXCEPT !.started = pc' = "run"]
    /\ UNCHANGED <<plog, key, out, linked, queue, verdict, worked, stored, kept,
                   ran>>

\* The parent's link, written once; Observe does not look at its error.
Link ==
    \/ /\ ~linked /\ linked' = TRUE /\ UNCHANGED budget
       /\ plog' = Append(plog, Entry("link", None))
    \/ linked /\ UNCHANGED <<plog, linked, budget>>
    \/ ~linked /\ Spend("fails") /\ UNCHANGED <<plog, linked>>

LinkChild ==
    /\ pc = "link" /\ pc' = "start" /\ Link
    /\ UNCHANGED <<key, out, agent, record, goroutine, history>>

\* The run start is written, after the inputs reported before it: at the root
\* of its own or at the place the child was read from, or at the leaf.
StartRun ==
    /\ pc = "start" /\ pc' = "run"
    /\ child' = TakenUp
    /\ \/ /\ stored' = IF child.run = "none" THEN TakenUp ELSE Written(TakenUp)
          /\ begun' = TRUE /\ UNCHANGED <<writer, broken, budget>>
       \/ /\ Spend("fails") /\ writer' = FALSE /\ broken' = TRUE
          /\ UNCHANGED <<stored, begun>>
    /\ goroutine' = [goroutine EXCEPT !.started = TRUE]
    /\ UNCHANGED <<plog, key, out, linked, queue, verdict, worked, kept, ran>>

-----------------------------------------------------------------------------
(* The child's run.                                                        *)

Runs == child.run = "open" /\ (budget.detach \/ pc = "run")
Becomes(c, state) == [child EXCEPT !.calls[c] = state]

\* The model makes a batch of calls, or answers.
CallModel ==
    /\ Runs /\ Settled /\ ~Has({"held"}) /\ ~child.answer
    /\ \/ \E batch \in SUBSET {c \in Calls : In(c, {"none"})} :
             /\ batch # {}
             /\ Observed([child EXCEPT !.calls =
                   [c \in Calls |-> IF c \in batch THEN "open" ELSE @[c]]])
             /\ verdict' = [c \in Calls |-> "none"]
       \/ Observed([child EXCEPT !.answer = TRUE]) /\ UNCHANGED verdict
    /\ UNCHANGED <<parent, queue, worked, goroutine, ran>>

\* The policy allows a call, holds it beside others, or defers it, and the
\* parent's elicitor, where askLog asks it, accepts, declines or is silent.
Decide(c, v) ==
    /\ Runs /\ In(c, {"open"})
    /\ v \in {"accepted", "declined"} => budget.ask
    /\ verdict' = [verdict EXCEPT ![c] = v]
    /\ Observed(Becomes(c, CASE v \in {"allowed", "accepted"} -> "ready"
                             [] v = "declined" -> "done"
                             [] v \in {"held", "silent"} -> "held"))
    /\ UNCHANGED <<parent, queue, worked, goroutine, ran>>

\* The dispatch is written before the tool runs.
Dispatch(c) ==
    /\ Runs /\ In(c, {"ready"}) /\ ~Has({"open"})
    /\ Observed(Becomes(c, "dispatched"))
    /\ UNCHANGED <<parent, queue, verdict, worked, goroutine, ran>>

Work(c) ==
    /\ Runs /\ In(c, {"dispatched"}) /\ c \notin worked
    /\ worked' = worked \cup {c}
    /\ ran' = [ran EXCEPT ![child.op][c] = @ + 1]
    /\ UNCHANGED <<parent, child, queue, verdict, record, goroutine, broken, budget>>

Output(c) ==
    /\ Runs /\ In(c, {"dispatched"}) /\ c \in worked
    /\ Observed(Becomes(c, "done"))
    /\ UNCHANGED <<parent, queue, verdict, worked, goroutine, ran>>

\* A host that WithSpawn gave the child queues an input for it.
Queue(i) ==
    /\ Runs /\ i \notin queue \cup child.taken
    /\ queue' = queue \cup {i}
    /\ Observed([child EXCEPT !.owed[i] = @ + 1])
    /\ UNCHANGED <<parent, verdict, worked, goroutine, ran>>

Take ==
    /\ Runs /\ Settled /\ queue # {}
    /\ Observed([child EXCEPT !.taken = @ \cup queue, !.answer = FALSE,
                     !.owed = [i \in Inputs |-> IF i \in queue THEN @[i] - 1
                                                ELSE @[i]]])
    /\ queue' = {}
    /\ UNCHANGED <<parent, verdict, worked, goroutine, ran>>

\* writer.detached: the call has returned while the child ran.
DetachedRun == budget.detach /\ pc \in {"output", "answered"}

\* The run ends; an abort of the parent's run cuts it.
EndRun(reason) ==
    /\ Runs
    /\ reason = "done" => Settled /\ child.answer
    /\ reason = "input" => Settled /\ Has({"held"})
    /\ IF reason = "aborted" THEN Spend("aborts") ELSE UNCHANGED budget
    /\ child' = [child EXCEPT !.run = reason]
    /\ stored' = IF writer THEN Written([child EXCEPT !.run = reason]) ELSE stored
    /\ writer' = (writer /\ ~DetachedRun)
    /\ UNCHANGED <<begun, kept, broken>>
    /\ IF budget.detach THEN UNCHANGED pc ELSE pc' = "ended"
    /\ UNCHANGED <<plog, key, out, linked, queue, verdict, worked, goroutine,
                   ran>>

-----------------------------------------------------------------------------
(* Execute returns.                                                        *)

\* The child is resumed with the answers to the calls it holds, which is
\* another run: Observe makes a writer of its own for it, and the one of the
\* run that ended stays in Recorder.runs.
Release ==
    /\ pc = "ended" /\ child.run = "input" /\ budget.ask /\ Releases(Held)
    /\ pc' = "create"
    /\ writer' = FALSE /\ kept' = IF writer THEN kept + 1 ELSE kept
    /\ UNCHANGED <<plog, key, out, linked, agent, stored, begun, goroutine,
                   history, budget>>

\* result
Return ==
    /\ pc = "ended" /\ pc' = "toolend"
    /\ ~(child.run = "input" /\ budget.ask /\ Releases(Held))
    /\ Gives(CASE child.run = "done" -> "answer" [] child.run = "input" -> "input"
               [] child.run = "aborted" -> "cut" [] OTHER -> "failed", child.op)
    /\ UNCHANGED <<plog, key, linked, agent, record, goroutine, history, budget>>

\* child, at the tool_end: the writer of the last run is let go, and the link
\* made up for; the items of a run the record has no start of are copied.
ToolEnd ==
    /\ pc = "toolend" /\ ~budget.detach
    /\ pc' = IF out.kind = "cut" THEN "pending" ELSE "output"
    /\ writer' = FALSE
    /\ stored' = IF writer \/ begun THEN stored
                 ELSE [child EXCEPT !.run = stored.run, !.owed = stored.owed]
    /\ Link
    /\ UNCHANGED <<key, out, agent, begun, kept, goroutine, history>>

\* The output is in the parent's log, and the call is over.
AppendOutput ==
    /\ pc = "output" /\ pc' = "answered"
    /\ plog' = Append(plog, Entry("output", None))
    /\ UNCHANGED <<key, out, linked, agent, record, goroutine, history, budget>>

-----------------------------------------------------------------------------
(* A detached child: the call returns when its run has started.            *)

\* The run could not start, or its end is sent; then the callback.
DetachedEnds ==
    /\ budget.detach /\ ~goroutine.ended
    /\ \/ pc = "create" /\ ~goroutine.started /\ pc' = "refused" /\ UNCHANGED goroutine
       \/ /\ child.run \notin {"none", "open"} /\ UNCHANGED pc
          /\ goroutine' = [goroutine EXCEPT !.ended = TRUE]
    /\ UNCHANGED <<plog, key, out, linked, agent, record, history, budget>>

Detach ==
    /\ goroutine.ended /\ goroutine.told = 0
    /\ goroutine' = [goroutine EXCEPT !.told = @ + 1]
    /\ UNCHANGED <<parent, agent, record, history, budget>>

\* detached's select, which looks at the start again where it finds the end.
DetachedReturn ==
    /\ budget.detach /\ ~goroutine.looked /\ pc \in {"run", "refused"}
    /\ goroutine' = [goroutine EXCEPT !.looked = TRUE]
    /\ pc' = IF goroutine.started THEN "toolend" ELSE "output"
    /\ Gives(IF goroutine.started THEN "accepted" ELSE "failed", key)
    /\ UNCHANGED <<plog, key, linked, agent, record, history, budget>>

\* Mutant: the run is marked detached whether or not it has ended.
RunsOnLate == TRUE

\* child finds the run's writer, with the run not yet ended.
RunsOn == child.run = "open"

\* child, at the tool_end of a detached call: the writer stays while the
\* child runs, and Observe lets it go at the run's end.
DetachedToolEnd ==
    /\ pc = "toolend" /\ budget.detach /\ pc' = "output"
    /\ writer' = (writer /\ RunsOn)
    /\ Link
    /\ UNCHANGED <<key, out, agent, stored, begun, kept, goroutine, history>>

-----------------------------------------------------------------------------

\* The process dies; what the agent and the recorder keep in memory is gone.
Crash ==
    /\ Spend("crashes") /\ pc # "answered" /\ ~budget.detach
    /\ pc' = "pending" /\ linked' = FALSE /\ out' = NoOutput
    /\ child' = NoChild /\ queue' = {} /\ worked' = {}
    /\ verdict' = [c \in Calls |-> "none"]
    /\ writer' = FALSE /\ begun' = FALSE /\ kept' = 0
    /\ UNCHANGED <<plog, key, stored, goroutine, history>>

Reasons == {"done", "input", "error", "aborted"}
Verdicts == {"allowed", "accepted", "declined", "held", "silent"}

Next ==
    \/ \E k \in Keys : HandOver(k)
    \/ LoadFresh \/ LoadRecord \/ LoadFails \/ Afresh
    \/ NewChild \/ LinkChild \/ StartRun
    \/ CallModel \/ Take
    \/ \E c \in Calls : Dispatch(c) \/ Work(c) \/ Output(c)
    \/ \E c \in Calls, v \in Verdicts : Decide(c, v)
    \/ \E i \in Inputs : Queue(i)
    \/ \E reason \in Reasons : EndRun(reason)
    \/ Release \/ Return \/ ToolEnd \/ AppendOutput
    \/ DetachedEnds \/ Detach \/ DetachedReturn \/ DetachedToolEnd
    \/ Crash

Spec == Init /\ [][Next]_vars

-----------------------------------------------------------------------------
(* Properties.                                                             *)

\* A tool of the child that may not repeat runs once for each operation of
\* the parent, however often the call is handed over, unless a write of the
\* child's record failed, which does not stop the child.
WorkIsDoneOnce ==
    ~broken => \A k \in Keys, c \in Never : ran[k][c] <= 1

\* The answer a call returns is that of the child its own operation started.
AnswerIsTheCalls == out.kind \in {"answer", "input"} => out.op = key

\* A call that the child's policy held beside others runs only where those
\* it asked the parent about were all accepted.
HeldRunsIfAccepted ==
    \A c \in Calls : verdict[c] = "held" /\ In(c, {"ready", "dispatched"}) =>
        /\ \E d \in Calls : verdict[d] = "accepted"
        /\ \A d \in Calls : verdict[d] \notin {"declined", "silent"}

\* The child's session owes an input once, and owes none that it has taken,
\* so that none is handed back twice.
InputIsOwedOnce ==
    \A i \in Inputs : stored.owed[i] <= (IF i \in stored.taken THEN 0 ELSE 1)

\* Nothing the child was given is done twice, no call and no input, unless a
\* write of the child's record failed.
NothingTwice == WorkIsDoneOnce /\ (~broken => InputIsOwedOnce)

\* The recorder lets go of the writer of a child's run when the run and its
\* call have both ended, in whichever order they do, where it was the last
\* run of its call.  One that the release loop went on from stays, which only
\* a tool that asks the parent leaves behind.
WriterIsLetGo ==
    /\ child.run \in Reasons /\ pc \in {"output", "answered"} => ~writer
    /\ kept > 0 => budget.ask /\ ~budget.detach
=============================================================================
