----------------------------- MODULE ToolBatch -----------------------------
(***************************************************************************)
(* The function calls of one response, through the batches and the runs it *)
(* takes to answer them: preflight, concurrent execution, settling in      *)
(* completion order, outputs in the model's order, the pending list of a   *)
(* run that was cut off, and Resume (run.go, agent.go).                    *)
(*                                                                         *)
(* The loop's goroutine takes one event at a time; every call that runs    *)
(* has a goroutine of the executor's, which raises tool_dispatch and runs  *)
(* the tool.  A hook may fail and a subscriber may refuse each event, the  *)
(* run may be aborted at any time, and the process may die, after which    *)
(* the agent is seeded with the transcript alone (WithTranscript).         *)
(*                                                                         *)
(* Arguments are 0, the call's own, and 1, others.  A key is 0 when it is  *)
(* unknown, n for the one the n-th run makes, and FreshKey for one that an *)
(* answer chooses.  Notes and nested calls are left out.                   *)
(***************************************************************************)
EXTENDS Naturals, Sequences, FiniteSets

CONSTANTS
    MaxParallel,  \* Config.MaxParallelTools
    Plans         \* the instances explored, each with its bounds

\* A plan has the calls 1..n, in the model's order; the calls the executor
\* keeps apart from each, those of its chain, or all where either is a
\* barrier; agenttool.ReplayOf of each call's tool; and, as bounds, whether
\* hooks and answers change arguments and keys (edits), the runs, the one
\* that made the calls included, and how often the process dies.
ASSUME BatchAssumption ==
    /\ MaxParallel \in Nat \ {0}
    /\ \A p \in Plans :
        /\ {p.n, p.runs, p.crashes} \subseteq Nat /\ p.edits \in BOOLEAN
        /\ p.apart \in [1..p.n -> SUBSET (1..p.n)]
        /\ \A b, c \in 1..p.n : b \in p.apart[c] => c \in p.apart[b] /\ b # c
        /\ p.replay \in [1..p.n -> {"safe", "keyed", "never"}]

VARIABLES
    plan,
    run, kind,     \* the run, and whether its batch is a turn's or a Resume's
    phase,         \* where the loop is
    order,         \* the calls of the batch, in its order
    todo,          \* the calls preflight has not reached
    cs,            \* the callState of each call
    undispatched,  \* runner.undispatched
    failed,        \* execute's failed: "no", or whose failure it was
    cancelled,     \* the run's context is done
    left,          \* the outputs still to append
    outs,          \* the outputs in the transcript
    pend,          \* the PendingCall of each call, as the agent keeps it
    crashes,
    starts, ends,  \* tool_start and tool_end events of the batch
    ops            \* history: each call's hand-offs to its tool

batchVars == <<order, todo, cs, undispatched, failed, left, starts, ends>>
limits == <<plan, crashes>>
vars == <<run, kind, phase, batchVars, cancelled, outs, pend, limits, ops>>

Calls == 1..plan.n

FreshKey == plan.runs + run

\* A call that is in no batch.
Outside == [st |-> "outside", reached |-> FALSE, settled |-> FALSE,
            deferred |-> FALSE, cut |-> FALSE, ended |-> FALSE,
            refused |-> FALSE, dispatched |-> FALSE, err |-> "none",
            key |-> 0, args |-> 0, again |-> FALSE]

NotPending == [why |-> "none", key |-> 0, args |-> 0]

Answered(c) == \E i \in DOMAIN outs : outs[i] = c

\* The lists of the calls of S, each once.
Listings(S) ==
    {s \in UNION {[1..n -> S] : n \in 0..plan.n} :
        /\ \A c \in S : \E i \in DOMAIN s : s[i] = c
        /\ \A i, j \in DOMAIN s : s[i] = s[j] => i = j}

\* b is before c in the batch.
Before(b, c) ==
    \E i, j \in DOMAIN order : i < j /\ order[i] = b /\ order[j] = c

\* The one list of the calls of S in the batch's order.
InOrder(S) ==
    {s \in Listings(S) : \A i, j \in DOMAIN s : i < j => Before(s[i], s[j])}

Init ==
    /\ plan \in Plans
    /\ run = 1 /\ kind = "turn" /\ phase = "preflight"
    /\ order = [i \in Calls |-> i] /\ todo = Calls
    /\ cs = [c \in Calls |-> [Outside EXCEPT !.key = 1]]
    /\ undispatched = {} /\ failed = "no" /\ cancelled = FALSE
    /\ left = <<>> /\ outs = <<>>
    /\ pend = [c \in Calls |-> NotPending]
    /\ crashes = 0
    /\ starts = [c \in Calls |-> 0] /\ ends = [c \in Calls |-> 0]
    /\ ops = [c \in Calls |-> <<>>]

-----------------------------------------------------------------------------
(* Preflight: runner.preflightAll, and its twin in approvedBatch.          *)

\* A model turn that fails once its calls are in the transcript has no
\* batch.
TurnCut ==
    /\ kind = "turn" /\ phase = "preflight" /\ todo = Calls
    /\ phase' = "run_end"
    /\ UNCHANGED <<run, kind, batchVars, cancelled, outs, pend, limits,
                   ops>>

\* BeforeToolCall decides a call of a turn, and an approved call that
\* nothing has decided.
Consulted(c) == kind = "turn" \/ pend[c].why = "undispatched"

\* The state of a call whose tool_start is raised: allowed to run, refused
\* (blocked, of an unknown tool, or with arguments that are no object), or
\* deferred.
Prepared(c, args, action) ==
    [cs[c] EXCEPT !.st = "ready", !.reached = TRUE, !.args = args,
                  !.deferred = (action = "defer")]

\* One call: the hook's decision, tool_start and, for a call that will not
\* run, tool_end.  A failure of the hook before tool_start leaves the call
\* out of the batch; any later one leaves it there to be ended.
Preflight(c) ==
    /\ phase = "preflight" /\ c \in todo /\ \A b \in todo : ~Before(b, c)
    /\ todo' = todo \ {c}
    /\ \/ /\ Consulted(c) /\ phase' = "cut"
          /\ cs' = [cs EXCEPT ![c].reached = TRUE]
          /\ UNCHANGED <<starts, ends>>
       \/ \E args \in IF Consulted(c) /\ plan.edits THEN {cs[c].args, 1}
                     ELSE {cs[c].args},
             action \in {"allow", "refuse", "defer"} :
             LET p == Prepared(c, args, action) IN
             /\ action = "defer" => Consulted(c)
             /\ starts' = [starts EXCEPT ![c] = @ + 1]
             /\ \/ \* tool_start is refused
                   /\ phase' = "cut"
                   /\ cs' = [cs EXCEPT ![c] = p] /\ UNCHANGED ends
                \/ /\ action = "allow" /\ phase' = "preflight"
                   /\ cs' = [cs EXCEPT ![c] = p] /\ UNCHANGED ends
                \/ \* tool_end is raised, and taken or refused
                   /\ action # "allow" /\ phase' \in {"preflight", "cut"}
                   /\ cs' = [cs EXCEPT ![c] =
                                [p EXCEPT !.settled = TRUE, !.ended = TRUE]]
                   /\ ends' = [ends EXCEPT ![c] = @ + 1]
                \/ \* the after-call hook fails on the refusal
                   /\ action = "refuse" /\ phase' = "cut"
                   /\ cs' = [cs EXCEPT ![c] = [p EXCEPT !.settled = TRUE]]
                   /\ UNCHANGED ends
    /\ UNCHANGED <<run, kind, order, undispatched, failed, left, cancelled,
                   outs, pend, limits, ops>>

\* The abort check before anything executes.
PreflightDone ==
    /\ phase = "preflight" /\ todo = {}
    /\ phase' = IF cancelled THEN "cut" ELSE "execute"
    /\ UNCHANGED <<run, kind, batchVars, cancelled, outs, pend, limits,
                   ops>>

-----------------------------------------------------------------------------
(* Execution: runner.execute and the executor's goroutines.                *)

\* The batch's own context is done.
Stopped == cancelled \/ failed # "no"

\* The executor's jobs: what preflight left to run.
InBatch(c) == cs[c].st # "outside"
Job(c) == InBatch(c) /\ ~(cs[c].st = "ready" /\ cs[c].settled)
Busy == {c \in Calls : cs[c].st \in {"onstart", "running"}}

\* Executor.Preceding: the jobs whose settling c's dispatch waits for.
After(c) == {p \in plan.apart[c] : Job(p) /\ Before(p, c)}

Executing(c, st) == phase = "execute" /\ Job(c) /\ cs[c].st = st

\* The executor starts a job once the loop has received the results of the
\* jobs it runs after; one whose turn never comes ends with the cancellation.
JobStart(c) ==
    /\ Executing(c, "ready")
    /\ \/ /\ ~Stopped /\ Cardinality(Busy) < MaxParallel
          /\ \A p \in After(c) : cs[p].st \in {"received", "done"}
          /\ cs' = [cs EXCEPT ![c].st = "onstart"]
       \/ /\ Stopped
          /\ cs' = [cs EXCEPT ![c].st = "returned", ![c].err = "cancel"]
    /\ UNCHANGED <<run, kind, phase, order, todo, undispatched, failed, left,
                   starts, ends, cancelled, outs, pend, limits, ops>>

\* Mutant: the dispatch does not wait for the settling.
MayDispatchAtOnce(c) == TRUE

\* OnStart has waited for every call before c to be settled; only a job
\* that waited looks at its context.
MayDispatch(c) ==
    After(c) # {} => ~Stopped /\ \A p \in After(c) : cs[p].st = "done"

\* OnStart raises tool_dispatch.  A subscriber that refuses it stops the
\* job; otherwise the tool has the call.
Dispatch(c) ==
    /\ Executing(c, "onstart") /\ MayDispatch(c)
    /\ \/ /\ cs' = [cs EXCEPT ![c].st = "running", ![c].dispatched = TRUE]
          /\ ops' = [ops EXCEPT ![c] =
                Append(@, [key |-> cs[c].key, args |-> cs[c].args,
                           again |-> cs[c].again])]
       \/ /\ cs' = [cs EXCEPT ![c].st = "returned", ![c].refused = TRUE]
          /\ UNCHANGED ops
    /\ UNCHANGED <<run, kind, phase, order, todo, undispatched, failed, left,
                   starts, ends, cancelled, outs, pend, limits>>

\* A batch cut off while OnStart waits ends the job with the cancellation.
OnStartCut(c) ==
    /\ Executing(c, "onstart") /\ Stopped /\ After(c) # {}
    /\ cs' = [cs EXCEPT ![c].st = "returned", ![c].err = "cancel"]
    /\ UNCHANGED <<run, kind, phase, order, todo, undispatched, failed, left,
                   starts, ends, cancelled, outs, pend, limits, ops>>

\* The tool returns a result or an error of its own, which may be that of a
\* context it cancelled itself, or the batch's cancellation.
ToolReturns(c) ==
    /\ Executing(c, "running")
    /\ \E e \in {"none", "cancel"} :
          cs' = [cs EXCEPT ![c].st = "returned", ![c].err = e]
    /\ UNCHANGED <<run, kind, phase, order, todo, undispatched, failed, left,
                   starts, ends, cancelled, outs, pend, limits, ops>>

Settling == \E c \in Calls : cs[c].st = "received"

\* A running tool's tool_update is refused by a subscriber.
UpdateRefused(c) ==
    /\ Executing(c, "running") /\ ~Settling /\ failed = "no"
    /\ failed' = "consumer"
    /\ UNCHANGED <<run, kind, phase, order, todo, cs, undispatched, left,
                   starts, ends, cancelled, outs, pend, limits, ops>>

\* The loop receives a final event, one at a time, ...
Receive(c) ==
    /\ Executing(c, "returned") /\ ~Settling
    /\ cs' = [cs EXCEPT ![c].st = "received"]
    /\ UNCHANGED <<run, kind, phase, order, todo, undispatched, failed, left,
                   starts, ends, cancelled, outs, pend, limits, ops>>

\* settle and finish: the after-call hook may replace the error, and
\* tool_end is raised; a cancellation of the run's context is a cut.
SettledAs(c, e) ==
    [cs[c] EXCEPT !.st = "done", !.settled = TRUE, !.ended = TRUE, !.err = e,
                  !.cut = (e = "cancel" /\ cancelled)]

\* ... and execute's step judges it before the calls after it may start.
SettleResult(c) ==
    /\ Executing(c, "received")
    /\ \/ \* the dispatch was refused: the tool did not run
          /\ cs[c].refused
          /\ undispatched' = undispatched \cup {c}
          /\ failed' = IF failed = "no" THEN "consumer" ELSE failed
          /\ cs' = [cs EXCEPT ![c].st = "done"] /\ UNCHANGED ends
       \/ \* settled through the hook; tool_end is taken or refused
          /\ ~cs[c].refused
          /\ failed = "no" \/ (failed = "consumer" /\ cs[c].err # "cancel")
          /\ \E e \in {"none", "cancel"} :
                cs' = [cs EXCEPT ![c] = SettledAs(c, e)]
          /\ ends' = [ends EXCEPT ![c] = @ + 1]
          /\ failed' \in IF failed = "no" THEN {"no", "consumer"} ELSE {failed}
          /\ UNCHANGED undispatched
       \/ \* the hook fails
          /\ ~cs[c].refused /\ failed = "no"
          /\ cs' = [cs EXCEPT ![c].st = "done", ![c].settled = TRUE]
          /\ failed' = "hook"
          /\ UNCHANGED <<ends, undispatched>>
       \/ \* the hook fails on a result that came after a consumer's failure
          /\ ~cs[c].refused /\ failed = "consumer" /\ cs[c].err # "cancel"
          /\ cs' = [cs EXCEPT ![c].st = "done", ![c].settled = TRUE,
                              ![c].cut = TRUE, ![c].ended = TRUE]
          /\ ends' = [ends EXCEPT ![c] = @ + 1]
          /\ UNCHANGED <<failed, undispatched>>
       \/ \* cut: left for failBatch to end
          /\ ~cs[c].refused
          /\ failed = "hook" \/ (failed = "consumer" /\ cs[c].err = "cancel")
          /\ cs' = [cs EXCEPT ![c].st = "done"]
          /\ UNCHANGED <<ends, failed, undispatched>>
    /\ UNCHANGED <<run, kind, phase, order, todo, left, starts, cancelled,
                   outs, pend, limits, ops>>

-----------------------------------------------------------------------------
(* The end of a batch, and of the run.                                     *)

\* appendFinished: what has a result of its own, in the batch's order.
Finished(s) == InOrder({c \in Calls :
    /\ s[c].st # "outside" /\ s[c].settled /\ ~s[c].deferred /\ ~s[c].cut
    /\ ~(s[c].err = "cancel" /\ cancelled)})

\* Mutant: the loop waits for every call to be settled.
DrainedSettled == \A c \in Calls : Job(c) => cs[c].settled

\* Every final event has been received and judged.
AllReceived == \A c \in Calls : Job(c) => cs[c].st = "done"

\* The executor has drained: execute returns, to failBatch on a failure, to
\* appendFinished on an abort, or to collect.
Drained ==
    /\ phase = "execute" /\ AllReceived
    /\ phase' = IF failed # "no" THEN "cut" ELSE "append"
    /\ left' \in CASE failed # "no" -> {<<>>}
                   [] failed = "no" /\ cancelled -> Finished(cs)
                   [] OTHER -> InOrder({c \in Calls : InBatch(c)
                                                      /\ ~cs[c].deferred})
    /\ UNCHANGED <<run, kind, order, todo, cs, undispatched, failed, starts,
                   ends, cancelled, outs, pend, limits, ops>>

\* The calls of the batch still owed a tool_end.
Unended == {c \in Calls : InBatch(c) /\ ~cs[c].ended}

\* failBatch and abortBatch: every call that has not ended is ended, cut,
\* whatever the hook and the consumers say, and the finished ones appended.
CutBatch ==
    /\ phase = "cut"
    /\ cs' = [c \in Calls |->
                 IF c \notin Unended THEN cs[c]
                 ELSE [cs[c] EXCEPT !.settled = TRUE, !.cut = TRUE,
                                    !.ended = TRUE]]
    /\ ends' = [c \in Calls |-> ends[c] + (IF c \in Unended THEN 1 ELSE 0)]
    /\ left' \in Finished(cs') /\ phase' = "append"
    /\ UNCHANGED <<run, kind, order, todo, undispatched, failed, starts,
                   cancelled, outs, pend, limits, ops>>

\* appendItems: an output is in once its item_start is taken, whatever a
\* subscriber says of its item_end; either refusal ends the run.
AppendOut ==
    /\ phase \in {"answers", "append"} /\ left # <<>>
    /\ \/ /\ outs' = Append(outs, Head(left)) /\ left' = Tail(left)
          /\ UNCHANGED phase
       \/ /\ outs' \in {outs, Append(outs, Head(left))} /\ left' = <<>>
          /\ phase' = "run_end"
    /\ UNCHANGED <<run, kind, order, todo, cs, undispatched, failed, starts,
                   ends, cancelled, pend, limits, ops>>

\* The outputs are in: a Resume goes on to what it approved, and the run
\* ends once its batch is in (its later turns make other calls).
AppendDone ==
    /\ phase \in {"answers", "append"} /\ left = <<>>
    /\ phase' = IF phase = "answers" /\ todo # {} THEN "preflight"
                ELSE "run_end"
    /\ UNCHANGED <<run, kind, batchVars, cancelled, outs, pend, limits,
                   ops>>

MayHaveRun(p) == p.why \in {"aborted", "unknown"}

\* Mutant: a call this run did not dispatch never started.
PendingOfForgetful(c) ==
    CASE cs[c].deferred -> [why |-> "deferred", key |-> 0, args |-> cs[c].args]
      [] cs[c].dispatched /\ ~cs[c].deferred ->
            [why |-> "aborted", key |-> cs[c].key, args |-> cs[c].args]
      [] OTHER -> [why |-> "undispatched", key |-> 0, args |-> 0]

\* runner.pending: why a call has no output, by what this run did with it
\* and else by what the agent knew.
PendingOf(c) ==
    CASE cs[c].deferred ->
            [why |-> "deferred", key |-> 0, args |-> cs[c].args]
      [] ~cs[c].deferred /\ cs[c].dispatched ->
            [why |-> "aborted", key |-> cs[c].key, args |-> cs[c].args]
      [] ~cs[c].deferred /\ ~cs[c].dispatched /\ MayHaveRun(pend[c]) -> pend[c]
      [] OTHER -> IF c \in undispatched \/ kind = "turn" \/ cs[c].reached
                  THEN [why |-> "undispatched", key |-> 0, args |-> 0]
                  ELSE pend[c]

\* unansweredCalls: the calls the run leaves pending.
Owed(c) == ~Answered(c)

RunEnd ==
    /\ phase = "run_end"
    /\ pend' = [c \in Calls |-> IF Owed(c) THEN PendingOf(c) ELSE NotPending]
    /\ phase' = "idle" /\ cancelled' = FALSE
    /\ order' = <<>> /\ todo' = {} /\ undispatched' = {}
    /\ failed' = "no" /\ left' = <<>>
    /\ cs' = [c \in Calls |-> Outside]
    /\ starts' = [c \in Calls |-> 0] /\ ends' = [c \in Calls |-> 0]
    /\ UNCHANGED <<run, kind, outs, limits, ops>>

-----------------------------------------------------------------------------
(* Resume, abort and crash.                                                *)

\* runAgain: whether a call that may have run is run again without being
\* told to.
RunAgainRule(c, args, key) ==
    \/ plan.replay[c] = "safe"
    \/ /\ plan.replay[c] = "keyed" /\ key # 0
       /\ IF args = pend[c].args THEN key = pend[c].key ELSE key # pend[c].key

\* Mutant: the rule is asked of every call but one that was seeded.
MayApproveSeeded(c, args, key, again) ==
    pend[c].why = "aborted" => again \/ RunAgainRule(c, args, key)

\* Resume's check of an approval.
MayApprove(c, args, key, again) ==
    MayHaveRun(pend[c]) => again \/ RunAgainRule(c, args, key)

Owing == {c \in Calls : pend[c].why # "none"}

\* Agent.Resume: each pending call is answered with an output, or approved
\* with arguments and a key, the answer's or else those it is pending with;
\* a call without a key gets the run's.  The outputs, and the calls of the
\* batch, are in the order of the answers.
Resume(approve) ==
    /\ phase = "idle" /\ run < plan.runs /\ Owing # {} /\ approve \subseteq Owing
    /\ run' = run + 1 /\ kind' = "resume"
    /\ \E args \in [approve -> {0, 1}],
          fresh \in IF plan.edits THEN SUBSET approve ELSE {{}},
          again \in SUBSET {c \in approve : MayHaveRun(pend[c])} :
          LET key(c) == IF c \in fresh THEN FreshKey ELSE pend[c].key IN
          /\ \A c \in approve :
                /\ plan.edits \/ args[c] = pend[c].args
                /\ MayApprove(c, args[c], key(c), c \in again)
          /\ cs' = [c \in Calls |->
                IF c \notin approve THEN Outside
                ELSE [Outside EXCEPT
                         !.args = args[c], !.again = (c \in again),
                         !.key = IF key(c) = 0 THEN run + 1 ELSE key(c)]]
    /\ order' \in Listings(approve) /\ todo' = approve
    /\ left' \in Listings(Owing \ approve)
    /\ phase' = "answers"
    /\ UNCHANGED <<undispatched, failed, starts, ends, cancelled, outs, pend,
                   limits, ops>>

\* The run's context is cancelled.
Abort ==
    /\ phase # "idle" /\ ~cancelled
    /\ cancelled' = TRUE
    /\ UNCHANGED <<run, kind, phase, batchVars, outs, pend, limits, ops>>

\* The process dies.  The agent that follows is seeded with the transcript,
\* and knows of the calls left open that they have no output.
Crash ==
    /\ crashes < plan.crashes /\ crashes' = crashes + 1
    /\ phase' = "idle" /\ cancelled' = FALSE
    /\ pend' = [c \in Calls |-> IF Answered(c) THEN NotPending
                                ELSE [NotPending EXCEPT !.why = "unknown"]]
    /\ order' = <<>> /\ todo' = {} /\ undispatched' = {}
    /\ failed' = "no" /\ left' = <<>>
    /\ cs' = [c \in Calls |-> Outside]
    /\ starts' = [c \in Calls |-> 0] /\ ends' = [c \in Calls |-> 0]
    /\ UNCHANGED <<plan, run, kind, outs, ops>>

-----------------------------------------------------------------------------
LoopStep ==
    \/ TurnCut \/ PreflightDone \/ Drained \/ CutBatch
    \/ AppendOut \/ AppendDone \/ RunEnd
    \/ \E c \in Calls : Preflight(c) \/ Receive(c) \/ SettleResult(c)

JobStep(c) == JobStart(c) \/ Dispatch(c) \/ OnStartCut(c) \/ ToolReturns(c)

Next ==
    \/ LoopStep
    \/ \E c \in Calls : JobStep(c) \/ UpdateRefused(c)
    \/ \E approve \in SUBSET Owing : Resume(approve)
    \/ Abort \/ Crash

\* The loop's goroutine and those of the jobs run when they can, and a tool
\* returns; nothing is assumed of hosts, aborts and crashes.
Fairness ==
    /\ WF_vars(LoopStep)
    /\ \A c \in UNION {1..p.n : p \in Plans} :
            WF_vars(c \in Calls /\ JobStep(c))

Spec == Init /\ [][Next]_vars /\ Fairness

-----------------------------------------------------------------------------
(* Properties.                                                             *)

\* Every tool_start is followed by exactly one tool_end by the time the
\* batch's outputs are appended, however hooks, consumers and aborts end it
\* (failBatch: "no tool_start is left without its tool_end").
StartEndPaired ==
    phase \in {"append", "run_end"} =>
        \A c \in Calls : starts[c] = ends[c] /\ starts[c] <= 1

\* An idle agent tells the calls that may have run from those that did not:
\* one that was handed to its tool, in any run, is ambiguous, with the key
\* and the arguments of its last hand-off; one that was never handed over
\* is not, unless a crash took the agent's memory.
PendingIsSound ==
    phase = "idle" => \A c \in Owing :
        /\ ops[c] # <<>> => MayHaveRun(pend[c])
        /\ MayHaveRun(pend[c]) => ops[c] # <<>> \/ crashes > 0
        /\ pend[c].why = "aborted" =>
              LET op == ops[c][Len(ops[c])] IN
              pend[c].key = op.key /\ pend[c].args = op.args

\* Every call of a batch is accounted for: by its events while the run goes
\* on, and by the pending list once it is over.
CallsAreAccountedFor == StartEndPaired /\ PendingIsSound

\* A tool that may not run twice is handed a call once, through aborts,
\* failures, crashes and resumes, unless an answer says to run it again.
NeverRunsOnce ==
    \A c \in Calls : plan.replay[c] = "never" =>
        \A i \in DOMAIN ops[c] : i > 1 => ops[c][i].again

\* A keyed tool that is handed a call again gets the key of the hand-off
\* before it exactly when it gets its arguments, so it can tell a repeat
\* from a new operation; a crash may hide what the call ran with.
KeyedTellsRepeats ==
    crashes = 0 => \A c \in Calls : plan.replay[c] = "keyed" =>
        \A i \in DOMAIN ops[c] : i > 1 /\ ~ops[c][i].again =>
            (ops[c][i].key = ops[c][i - 1].key
                <=> ops[c][i].args = ops[c][i - 1].args)

\* No call is run again in a way its tool cannot stand.
RunAgainIsSafe == NeverRunsOnce /\ KeyedTellsRepeats

\* A call runs in its turn: it is handed to its tool only once every call
\* before it in its chain has ended, its after-call hook included, and
\* never after one of them failed the batch (Config's chains and
\* agenttool's barriers); and once its output is in the transcript it is
\* neither handed over nor given an output again, by any later Resume.
RunsInTurn ==
    [][\A c \in Calls :
          /\ cs'[c].dispatched /\ ~cs[c].dispatched =>
                \A p \in plan.apart[c] :
                    InBatch(p) /\ Before(p, c) => cs[p].ended
          /\ Answered(c) =>
                /\ ops'[c] = ops[c]
                /\ Cardinality({i \in DOMAIN outs' : outs'[i] = c}) = 1]_vars

\* A run that has a batch ends, whatever fails in it: no call waits for one
\* that will not be settled.
BatchEnds == phase # "idle" ~> phase = "idle"
============================================================================
