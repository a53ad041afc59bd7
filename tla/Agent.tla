------------------------------- MODULE Agent -------------------------------
(***************************************************************************)
(* The stateful agent of agentturn (agent.go) around the skeleton of the   *)
(* loop that a run drives (run.go).                                        *)
(*                                                                         *)
(* Many goroutines call one Agent: hosts prompt, continue, resume, steer   *)
(* and abort it, background work delivers items to it, and at most one run *)
(* is in flight, which drains the queues at the points the loop chooses.   *)
(* Every step below is one critical section of Agent.mu, or one event of   *)
(* the run with what the loop does up to the next one.                     *)
(*                                                                         *)
(* Abstractions.  A turn makes at most one function call, numbered by      *)
(* `calls`; the inside of a tool batch, which module ToolBatch models, and *)
(* the inside of a model call, its stream and its retries, appear here as  *)
(* their outcomes.  Queued reports are the Boolean `owed`.  The reasons of *)
(* pending calls, and notes, are not kept here.                            *)
(***************************************************************************)
EXTENDS Naturals, Sequences, FiniteSets

CONSTANTS
    Deliveries,   \* one item for each Deliver or Accept made
    Steers,       \* the items of Steer, Queue(QueueSteer) and Redeliver
    FollowUps,    \* the items of FollowUp and Queue(QueueFollowUp)
    Mute,         \* the items that no model answers (CanContinue)
    Hosts,        \* goroutines that call Continue and Resume
    HookAppends,  \* whether Config.BeforeTurn appends items
    MaxTurns,     \* Config.MaxTurns
    MaxRuns,      \* bound: a host starts no run once this many have begun
    MaxFailures,  \* bound: how often a subscriber returns an error
    MaxAborts     \* bound: how often Abort is called

Item == Deliveries \cup Steers \cup FollowUps

ASSUME ItemAssumption ==
    /\ Deliveries \cap Steers = {}
    /\ Deliveries \cap FollowUps = {}
    /\ Steers \cap FollowUps = {}
    /\ Mute \subseteq Item

ASSUME ConfigAssumption ==
    /\ HookAppends \in BOOLEAN
    /\ MaxTurns \in Nat \ {0}
    /\ MaxRuns \in Nat
    /\ MaxFailures \in Nat
    /\ MaxAborts \in Nat

VARIABLES
    \* Agent, guarded by mu.
    running, closing, held,
    steer, followUp,      \* the queues
    owed,                 \* Agent.queued is not empty: accepts not reported
    queuedErr,            \* a report outside the run's events failed
    drains, seen, aborts,
    lastEnd, runEnded,
    pending,              \* the calls awaiting outputs
    transcript,
    \* The runner of the run in flight.
    pc, run, turn, calls,
    working,              \* runner.transcript
    inbox,                \* what the loop still has to append
    after,                \* where it goes once inbox is appended
    reason,               \* how the run ends
    approved, terminate,  \* the approvals a Resume brought, and a Refuse
    batch,                \* what the turn's batch came to
    cancelled,            \* the run's context is done
    \* The callers.
    dpc, mark, outcome,   \* Deliver and Accept
    host,                 \* Continue and Resume between their two locks
    abortOf,              \* AbortCause between its lock and its cancel
    \* Bound and history.
    fails,                \* subscriber errors so far
    skipped,              \* an event of a run was never dispatched
    carried,              \* items a request has carried
    taken,                \* items the run in flight drained
    dropped,              \* items a run took that no transcript holds
    stopped,              \* deliveries an Abort found waiting in the queue
    raced                 \* a Continue or a Resume acted on a stale look

queueVars  == <<steer, followUp, drains>>
stateVars  == <<transcript, pending, lastEnd, runEnded>>
flagVars   == <<running, closing, held>>
runVars    == <<run, turn, calls, approved, terminate>>
pathVars   == <<working, inbox, after, reason, batch, taken>>
callVars   == <<mark, outcome, host, abortOf, aborts, raced>>
reportVars == <<owed, queuedErr, fails, skipped>>
pastVars   == <<carried, dropped, stopped>>
vars == <<queueVars, stateVars, flagVars, runVars, pathVars, callVars,
          reportVars, pastVars, pc, seen, cancelled, dpc>>

-----------------------------------------------------------------------------
(* Transcripts: the entries of a conversation, as far as the loop tells    *)
(* them apart.                                                             *)

In(i)   == [k |-> "in", id |-> i]       \* an item that was queued
Prompt  == [k |-> "prompt", id |-> 0]   \* the host's message, or a hook's
Answer  == [k |-> "answer", id |-> 0]   \* the model's message
Call(c) == [k |-> "call", id |-> c]     \* a function_call
Out(c)  == [k |-> "out", id |-> c]      \* its function_call_output

Entry == [k : {"in"}, id : Item]
         \cup [k : {"prompt", "answer", "call", "out"}, id : Nat]

Elems(s) == {s[i] : i \in DOMAIN s}

\* The queued items a list of entries holds.
ItemsOf(s) == {s[i].id : i \in {j \in DOMAIN s : s[j].k = "in"}}

\* The entries of a queue, in order.
Entries(q) == [i \in DOMAIN q |-> In(q[i])]

\* The lists of one output for each of a set of calls; a host may give them
\* in any order.
Outputs(S) ==
    {[i \in DOMAIN s |-> Out(s[i])] :
        s \in {t \in UNION {[1..n -> S] : n \in 0..calls} :
                 /\ \A c \in S : \E i \in DOMAIN t : t[i] = c
                 /\ \A i, j \in DOMAIN t : t[i] = t[j] => i = j}}

\* unansweredCalls: the calls with no output anywhere in the transcript.
Unanswered(t) == {t[i].id : i \in {j \in DOMAIN t :
                     /\ t[j].k = "call"
                     /\ \A m \in DOMAIN t : t[m] # Out(t[j].id)}}

\* CanContinue: the last entry is one a model answers.
CanContinue(t) ==
    /\ t # <<>>
    /\ LET last == t[Len(t)] IN
          \/ last.k \in {"prompt", "out"}
          \/ last.k = "in" /\ last.id \notin Mute

NoEnd == [run |-> 0, reason |-> "none"]

\* How a run ends: its RunEnd.Reason, with RunEnd.Cause where the reason is
\* stopped; "failure" is resolved by RunEnding.
Reasons == {"none", "done", "input_required", "terminated", "halted",
            "max_turns", "guard", "refused", "aborted", "failure", "error"}

\* A delivery's outcomes that promise its item is still queued.
LeftQueued == {"ErrAborted", "ErrInputRequired", "ErrTerminated",
               "ErrCannotContinue", "ErrRunning"}

-----------------------------------------------------------------------------
Init ==
    /\ running = FALSE /\ closing = FALSE /\ held = FALSE
    /\ steer = <<>> /\ followUp = <<>>
    /\ owed = FALSE /\ queuedErr = FALSE
    /\ drains = 0 /\ seen = 0 /\ aborts = 0
    /\ lastEnd = NoEnd /\ runEnded = FALSE
    /\ pending = {} /\ transcript = <<>>
    /\ pc = "idle" /\ run = 0 /\ turn = 0 /\ calls = 0
    /\ working = <<>> /\ inbox = <<>> /\ after = "idle"
    /\ reason = "none" /\ approved = {} /\ terminate = FALSE
    /\ batch = "none" /\ cancelled = FALSE
    /\ dpc = [d \in Deliveries |-> "new"]
    /\ mark = [d \in Deliveries |-> [drains |-> 0, end |-> 0, aborts |-> 0]]
    /\ outcome = [d \in Deliveries |-> "none"]
    /\ host = [h \in Hosts |-> [op |-> "none", calls |-> {}]]
    /\ abortOf = 0
    /\ fails = 0 /\ skipped = FALSE
    /\ carried = {} /\ taken = {} /\ dropped = {} /\ stopped = {}
    /\ raced = FALSE

-----------------------------------------------------------------------------
(* Starting a run: Agent.start with mu held.                               *)

\* signal wakes every delivery that waits on progress.
Signalled == [d \in Deliveries |-> IF dpc[d] = "wait" THEN "check" ELSE dpc[d]]

\* start: the idle check and the mark that it runs are one step.  The run
\* takes over what was pending, and works on a copy of the transcript.
Start(items, approve, refuse) ==
    /\ ~running /\ ~held
    /\ running' = TRUE /\ closing' = FALSE /\ UNCHANGED held
    /\ pending' = {} /\ queuedErr' = FALSE
    /\ run' = run + 1 /\ turn' = 0 /\ cancelled' = FALSE
    /\ working' = transcript /\ inbox' = items /\ taken' = {}
    /\ approved' = approve /\ terminate' = refuse
    /\ after' = CASE approve # {} -> "approved"
                  [] approve = {} /\ refuse -> "refuse"
                  [] OTHER -> "drain"
    /\ pc' = "run_start" /\ reason' = "none" /\ batch' = "none"
    /\ UNCHANGED <<queueVars, transcript, lastEnd, runEnded, calls, owed,
                   fails, skipped, seen, pastVars>>

\* Agent.Prompt: with calls pending, the prompt must open with the output
\* of each of them (answersPending).
HostPrompt ==
    /\ run < MaxRuns
    /\ \E outs \in Outputs(pending) : Start(Append(outs, Prompt), {}, FALSE)
    /\ UNCHANGED <<callVars, dpc>>

\* Agent.Continue looks under one lock ...
ContinueLook(h) ==
    /\ host[h].op = "none" /\ run < MaxRuns
    /\ pending = {} /\ CanContinue(transcript \o Entries(steer))
    /\ host' = [host EXCEPT ![h] = [op |-> "continue", calls |-> {}]]
    /\ UNCHANGED <<queueVars, stateVars, flagVars, runVars, pathVars,
                   reportVars, pastVars, pc, seen, raced, cancelled, dpc,
                   mark, outcome, abortOf, aborts>>

\* ... and starts under another; start refuses a prompt that answers none
\* of the calls pending by then.
ContinueStart(h) ==
    /\ host[h].op = "continue" /\ pending = {}
    /\ Start(<<>>, {}, FALSE)
    /\ raced' = (raced \/ ~CanContinue(transcript \o Entries(steer)))
    /\ host' = [host EXCEPT ![h].op = "none"]
    /\ UNCHANGED <<mark, outcome, abortOf, aborts, dpc>>

\* Agent.Resume checks its answers against a copy of the pending calls ...
ResumeLook(h) ==
    /\ host[h].op = "none" /\ run < MaxRuns
    /\ pending # {}
    /\ host' = [host EXCEPT ![h] = [op |-> "resume", calls |-> pending]]
    /\ UNCHANGED <<queueVars, stateVars, flagVars, runVars, pathVars,
                   reportVars, pastVars, pc, seen, raced, cancelled, dpc,
                   mark, outcome, abortOf, aborts>>

\* The outputs the answers of a Resume bring, beside its approvals.
AnswerOutputs(h, approve) == Outputs(host[h].calls \ approve)

\* ... releases mu, and starts the run, which, resuming, is not checked
\* against the pending calls again: some of the calls are approved and the
\* rest answered with outputs, one of which may be a Refuse.
ResumeStart(h, approve, refuse) ==
    /\ host[h].op = "resume" /\ approve \subseteq host[h].calls
    /\ refuse => approve # host[h].calls
    /\ \E outs \in AnswerOutputs(h, approve) : Start(outs, approve, refuse)
    /\ raced' = (raced \/ pending # host[h].calls)
    /\ host' = [host EXCEPT ![h] = [op |-> "none", calls |-> {}]]
    /\ UNCHANGED <<mark, outcome, abortOf, aborts, dpc>>

\* Either is refused when the agent is not idle, or, for Continue, when a
\* call came to be pending.
StartRefused(h) ==
    /\ host[h].op # "none"
    /\ running \/ held \/ (host[h].op = "continue" /\ pending # {})
    /\ host' = [host EXCEPT ![h] = [op |-> "none", calls |-> {}]]
    /\ UNCHANGED <<queueVars, stateVars, flagVars, runVars, pathVars,
                   reportVars, pastVars, pc, seen, raced, cancelled, dpc,
                   mark, outcome, abortOf, aborts>>

-----------------------------------------------------------------------------
(* Queueing, aborting and holding, by any goroutine.                       *)

QueuedItems == Elems(steer) \cup Elems(followUp)

\* The items the agent has not been handed.
Fresh(i) == i \notin QueuedItems \cup ItemsOf(inbox) \cup ItemsOf(working)
                     \cup ItemsOf(transcript) \cup dropped

\* Agent.Steer, Agent.Redeliver and Agent.Queue with QueueSteer.
Steer(i) ==
    /\ Fresh(i)
    /\ steer' = Append(steer, i) /\ owed' = TRUE
    /\ UNCHANGED <<followUp, drains, stateVars, flagVars, runVars, pathVars,
                   callVars, queuedErr, fails, skipped, pastVars, pc, seen,
                   cancelled, dpc>>

\* Agent.FollowUp and Agent.Queue with QueueFollowUp.
FollowUp(i) ==
    /\ Fresh(i)
    /\ followUp' = Append(followUp, i) /\ owed' = TRUE
    /\ UNCHANGED <<steer, drains, stateVars, flagVars, runVars, pathVars,
                   callVars, queuedErr, fails, skipped, pastVars, pc, seen,
                   cancelled, dpc>>

\* reportQueued and unlockEmit: accepts of a run in flight are reported
\* between its events; a subscriber's error is kept for the next event.
ReportQueued ==
    /\ running /\ ~runEnded /\ owed /\ ~queuedErr
    /\ owed' = FALSE
    /\ \/ UNCHANGED <<queuedErr, fails>>
       \/ fails < MaxFailures /\ fails' = fails + 1 /\ queuedErr' = TRUE
    /\ UNCHANGED <<queueVars, stateVars, flagVars, runVars, pathVars,
                   callVars, skipped, pastVars, pc, seen, cancelled, dpc>>

\* Agent.AbortCause counts the abort and takes the cancel of the run in
\* flight under mu ...
Abort ==
    /\ aborts < MaxAborts /\ abortOf = 0
    /\ aborts' = aborts + 1
    /\ abortOf' = IF running THEN run ELSE 0
    /\ stopped' = stopped \cup {d \in Deliveries :
                      dpc[d] \in {"check", "wait"} /\ d \in Elems(steer)}
    /\ UNCHANGED <<queueVars, stateVars, flagVars, runVars, pathVars,
                   reportVars, carried, dropped, pc, seen, raced, cancelled,
                   dpc, mark, outcome, host>>

\* ... and calls it after the unlock, when that run may have ended.
AbortCancel ==
    /\ abortOf # 0
    /\ abortOf' = 0
    /\ cancelled' = (cancelled \/ (running /\ run = abortOf))
    /\ UNCHANGED <<queueVars, stateVars, flagVars, runVars, pathVars,
                   reportVars, pastVars, pc, seen, raced, dpc, mark, outcome,
                   host, aborts>>

\* The context the run was started on is cancelled by its caller.
ContextDone ==
    /\ running /\ ~cancelled
    /\ cancelled' = TRUE
    /\ UNCHANGED <<queueVars, stateVars, flagVars, runVars, pathVars,
                   callVars, reportVars, pastVars, pc, seen, dpc>>

\* Agent.WhileIdle, around fn.
Hold ==
    /\ ~running /\ ~held
    /\ held' = TRUE
    /\ UNCHANGED <<queueVars, stateVars, running, closing, runVars, pathVars,
                   callVars, reportVars, pastVars, pc, seen, cancelled, dpc>>

Release ==
    /\ held
    /\ held' = FALSE
    /\ UNCHANGED <<queueVars, stateVars, running, closing, runVars, pathVars,
                   callVars, reportVars, pastVars, pc, seen, cancelled, dpc>>

-----------------------------------------------------------------------------
(* Agent.Deliver and Agent.Accept.                                         *)

\* acceptDelivery: the item joins the steer queue, and the mark its outcome
\* is measured from is taken in the same step.
Accept(d) ==
    /\ dpc[d] = "new" /\ ~held
    /\ steer' = Append(steer, d) /\ owed' = TRUE
    /\ mark' = [mark EXCEPT ![d] = [drains |-> drains, end |-> lastEnd.run,
                                    aborts |-> aborts]]

\* A caller outside the run waits for its outcome.
AcceptDelivery(d) ==
    /\ Accept(d)
    /\ dpc' = [dpc EXCEPT ![d] = "check"]
    /\ UNCHANGED <<followUp, drains, stateVars, flagVars, runVars, pathVars,
                   outcome, host, abortOf, aborts, queuedErr, fails, skipped,
                   pastVars, pc, seen, raced, cancelled>>

\* A caller the run waits on is answered at once.
AcceptInside(d) ==
    /\ running
    /\ Accept(d)
    /\ dpc' = [dpc EXCEPT ![d] = "done"]
    /\ outcome' = [outcome EXCEPT ![d] =
                      IF closing THEN "ErrRunning" ELSE "joinedInside"]
    /\ UNCHANGED <<followUp, drains, stateVars, flagVars, runVars, pathVars,
                   host, abortOf, aborts, queuedErr, fails, skipped,
                   pastVars, pc, seen, raced, cancelled>>

\* Mutant: an item accepted since the last request counts as seen.
SeenOffByOne(d) == seen >= mark[d].drains

\* A request went out after the drain that took the item.
Seen(d) == seen > mark[d].drains

\* One pass of settleDelivery's loop that finds a run in flight.
SettleWait(d) ==
    /\ dpc[d] = "check" /\ ~Seen(d) /\ running
    /\ dpc' = [dpc EXCEPT ![d] = "wait"]
    /\ UNCHANGED <<queueVars, stateVars, flagVars, runVars, pathVars,
                   callVars, reportVars, pastVars, pc, seen, cancelled>>

\* Mutant: only a run that ended aborted stops the delivery, as before #312.
AbortedRunSince(d) ==
    lastEnd.run # mark[d].end /\ lastEnd.reason = "aborted"

\* An abort since the accept: of the run in flight, which ended on it
\* without taking the item, or one that found no run to stop.
AbortedSince(d) ==
    \/ lastEnd.run # mark[d].end /\ lastEnd.reason = "aborted"
    \/ aborts # mark[d].aborts

\* Why settleDelivery starts no run for an item still queued, in the order
\* it looks; "start" when it does.
Refusal(d) ==
    IF AbortedSince(d) THEN "ErrAborted"
    ELSE IF pending # {} THEN "ErrInputRequired"
    ELSE IF lastEnd.reason = "terminated" THEN "ErrTerminated"
    ELSE IF ~CanContinue(transcript \o Entries(steer))
         THEN "ErrCannotContinue"
    ELSE IF held THEN "ErrRunning" ELSE "start"

\* Mutant: the drain that took the item is not looked at.
IdleOutcomeUntaken(d) == Refusal(d)

\* What settleDelivery decides with the agent idle.
IdleOutcome(d) == IF drains # mark[d].drains THEN "taken" ELSE Refusal(d)

\* settleDelivery returns without starting a run.
Settle(d) ==
    /\ dpc[d] = "check" /\ (Seen(d) \/ ~running)
    /\ LET o == IF Seen(d) THEN "joined" ELSE IdleOutcome(d) IN
          /\ o # "start"
          /\ outcome' = [outcome EXCEPT ![d] = o]
    /\ dpc' = [dpc EXCEPT ![d] = "done"]
    /\ UNCHANGED <<queueVars, stateVars, flagVars, runVars, pathVars, mark,
                   host, abortOf, aborts, raced, reportVars, pastVars, pc,
                   seen, cancelled>>

\* settleDelivery starts the run that takes the item, under the lock the
\* decision was made under.
SettleStart(d) ==
    /\ dpc[d] = "check" /\ ~Seen(d) /\ ~running
    /\ IdleOutcome(d) = "start"
    /\ Start(<<>>, {}, FALSE)
    /\ dpc' = [dpc EXCEPT ![d] = "run"]
    /\ UNCHANGED callVars

\* Deliver's context ends while it waits.
SettleCancelled(d) ==
    /\ dpc[d] = "wait"
    /\ dpc' = [dpc EXCEPT ![d] = "done"]
    /\ outcome' = [outcome EXCEPT ![d] = "cancelled"]
    /\ UNCHANGED <<queueVars, stateVars, flagVars, runVars, pathVars, mark,
                   host, abortOf, aborts, reportVars, pastVars, pc, seen,
                   raced, cancelled>>

-----------------------------------------------------------------------------
(* Raising an event: Agent.deliver.                                        *)

\* A kept error, or a queued report that fails ahead of the event, ends the
\* delivery before the event is dispatched ("skipped"); a subscriber may
\* refuse the event itself after the agent's state took it ("refused").
Raise(o) ==
    /\ queuedErr' = FALSE
    /\ \/ /\ o = "ok" /\ ~queuedErr
          /\ owed' = FALSE /\ UNCHANGED <<fails, skipped>>
       \/ /\ o = "refused" /\ ~queuedErr /\ fails < MaxFailures
          /\ owed' = FALSE /\ fails' = fails + 1 /\ UNCHANGED skipped
       \/ /\ o = "skipped" /\ queuedErr
          /\ skipped' = TRUE /\ UNCHANGED <<owed, fails>>
       \/ /\ o = "skipped" /\ ~queuedErr /\ owed /\ fails < MaxFailures
          /\ owed' = FALSE /\ fails' = fails + 1 /\ skipped' = TRUE

\* run_end is not stopped by a kept error.
RaiseLast(o) ==
    /\ queuedErr' = FALSE /\ owed' = FALSE
    /\ \/ o = "ok" /\ UNCHANGED <<fails, skipped>>
       \/ /\ o = "refused" /\ fails < MaxFailures
          /\ fails' = fails + 1 /\ UNCHANGED skipped
       \/ /\ o = "skipped" /\ owed /\ fails < MaxFailures
          /\ fails' = fails + 1 /\ skipped' = TRUE

\* The loop appends s, then goes on at next.
Enter(s, next) ==
    /\ inbox' = s /\ after' = next
    /\ pc' = IF s = <<>> THEN next ELSE "append"

\* The loop returns: the run ends with why.
Stop(why) == pc' = "ending" /\ reason' = why /\ UNCHANGED <<inbox, after>>

-----------------------------------------------------------------------------
(* The run: runner.loop and runner.run.                                    *)

RunStart ==
    /\ pc = "run_start"
    /\ \E o \in {"ok", "refused", "skipped"} :
          /\ Raise(o)
          /\ runEnded' = (runEnded /\ o = "skipped")
          /\ IF o = "ok"
             THEN Enter(inbox, after) /\ UNCHANGED reason
             ELSE Stop("failure")
    /\ UNCHANGED <<queueVars, transcript, pending, lastEnd, flagVars,
                   runVars, working, batch, taken, callVars, pastVars, seen,
                   cancelled, dpc>>

\* appendOne up to its item_end: the entry is in the runner's transcript
\* only once every subscriber took its item_start.
ItemStart ==
    /\ pc = "append"
    /\ \E o \in {"ok", "refused", "skipped"} :
          /\ Raise(o)
          /\ IF o = "ok"
             THEN /\ working' = Append(working, Head(inbox))
                  /\ inbox' = Tail(inbox)
                  /\ pc' = "item_end" /\ UNCHANGED <<after, reason>>
             ELSE Stop("failure") /\ UNCHANGED working
    /\ UNCHANGED <<queueVars, stateVars, flagVars, runVars, batch, taken,
                   callVars, pastVars, seen, cancelled, dpc>>

\* The agent's transcript takes the entry as its item_end is dispatched,
\* before the subscribers see it.
ItemEnd ==
    /\ pc = "item_end"
    /\ \E o \in {"ok", "refused", "skipped"} :
          /\ Raise(o)
          /\ transcript' = IF o = "skipped" THEN transcript
                           ELSE Append(transcript, working[Len(working)])
          /\ IF o = "ok"
             THEN Enter(inbox, after) /\ UNCHANGED reason
             ELSE Stop("failure")
    /\ UNCHANGED <<queueVars, pending, lastEnd, runEnded, flagVars, runVars,
                   working, batch, taken, callVars, pastVars, seen,
                   cancelled, dpc>>

\* Mutant: a drain that took items is not counted.
DrainsUncounted == drains

\* A drain is counted when it took something.
Drains == IF steer = <<>> THEN drains ELSE drains + 1

\* takeSteer: the whole queue.
DrainSteer(next) ==
    /\ Enter(Entries(steer), next)
    /\ drains' = Drains
    /\ taken' = taken \cup Elems(steer)
    /\ steer' = <<>> /\ UNCHANGED <<followUp, closing, reason, dpc>>

\* Mutant: the follow-ups are emptied with the steers and not taken.
LastItemsSteered == steer

\* What the last drain takes: the steered items first.
LastItems == steer \o followUp

\* drainLast: both queues, and when both are empty the run is past its
\* last drain in the same step.
DrainLast(next) ==
    IF steer = <<>> /\ followUp = <<>>
    THEN /\ closing' = TRUE /\ dpc' = Signalled
         /\ Stop("done") /\ UNCHANGED <<queueVars, taken>>
    ELSE /\ Enter(Entries(LastItems), next)
         /\ drains' = Drains /\ taken' = taken \cup QueuedItems
         /\ steer' = <<>> /\ followUp' = <<>>
         /\ UNCHANGED <<closing, reason, dpc>>

\* What was steered in while the agent was idle, or during a Resume's
\* batch, joins the run before its first model call.
RunDrain ==
    /\ pc = "drain"
    /\ DrainSteer(IF terminate THEN "refuse" ELSE "top")
    /\ UNCHANGED <<stateVars, running, held, runVars, working, batch,
                   callVars, reportVars, pastVars, seen, cancelled>>

\* A batch ends early on a hook's or a subscriber's failure or on an abort,
\* with the outputs of the calls that finished appended; else it answers
\* every call but the ones it defers.  Raising its events reports what is
\* owed and uses a kept error up.
BatchCut(S) ==
    /\ \E done \in SUBSET S : \E outs \in Outputs(done) : Enter(outs, "ending")
    /\ reason' = "failure"
    /\ queuedErr' = FALSE /\ owed' = FALSE

BatchDone(S, next) ==
    /\ ~queuedErr /\ \E outs \in Outputs(S) : Enter(outs, next)
    /\ owed' = FALSE /\ UNCHANGED queuedErr

\* approvedBatch and what follows it in the loop: a deferral and a
\* terminating result end the run, the latter not over a Refuse.
ApprovedBatch ==
    /\ pc = "approved"
    /\ \/ BatchCut(approved)
       \/ /\ ~cancelled /\ BatchDone(approved, "drain")
          /\ UNCHANGED reason
       \/ /\ ~cancelled /\ reason' = "input_required"
          /\ \E done \in SUBSET approved :
                done # approved /\ BatchDone(done, "ending")
       \/ /\ ~cancelled /\ ~terminate /\ reason' = "terminated"
          /\ BatchDone(approved, "ending")
    /\ UNCHANGED <<queueVars, stateVars, flagVars, runVars, working, batch,
                   taken, callVars, fails, skipped, pastVars, seen,
                   cancelled, dpc>>

\* An answer built with Refuse ends the run before the model is called.
RunRefused ==
    /\ pc = "refuse"
    /\ Stop("refused")
    /\ UNCHANGED <<queueVars, stateVars, flagVars, runVars, working, batch,
                   taken, callVars, reportVars, pastVars, seen, cancelled,
                   dpc>>

\* The head of the turn loop: the abort check, and BeforeTurn, which may
\* append an item, stop the run as a guard or fail.
TurnTop ==
    /\ pc = "top"
    /\ \/ cancelled /\ Stop("aborted") /\ UNCHANGED turn
       \/ /\ ~cancelled /\ turn' = turn + 1
          /\ \/ pc' = "turn_start" /\ UNCHANGED <<inbox, after, reason>>
             \/ /\ HookAppends /\ Enter(<<Prompt>>, "turn_start")
                /\ UNCHANGED reason
             \/ Stop("guard")
             \/ Stop("failure")
    /\ UNCHANGED <<queueVars, stateVars, flagVars, run, calls, approved,
                   terminate, working, batch, taken, callVars, reportVars,
                   pastVars, seen, cancelled, dpc>>

\* The request cannot be built: the transform fails, or BeforeModelCall
\* refuses the call, which is raised as model_blocked, or fails.
BuildRefused ==
    /\ pc = "turn_start"
    /\ \/ Stop("failure") /\ UNCHANGED reportVars
       \/ \E o \in {"ok", "refused", "skipped"} :
             /\ Raise(o)
             /\ IF o = "ok" THEN Stop("guard") ELSE Stop("failure")
    /\ UNCHANGED <<queueVars, stateVars, flagVars, runVars, working, batch,
                   taken, callVars, pastVars, seen, cancelled, dpc>>

\* turn_start: once every subscriber took it, the request goes out with
\* everything drained so far.
TurnStart ==
    /\ pc = "turn_start"
    /\ \E o \in {"ok", "refused", "skipped"} :
          /\ Raise(o)
          /\ IF o = "ok"
             THEN /\ pc' = "model" /\ seen' = drains /\ dpc' = Signalled
                  /\ carried' = carried \cup ItemsOf(working)
                  /\ UNCHANGED <<inbox, after, reason>>
             ELSE Stop("failure") /\ UNCHANGED <<seen, dpc, carried>>
    /\ UNCHANGED <<queueVars, stateVars, flagVars, runVars, working, batch,
                   taken, callVars, dropped, stopped, cancelled>>

\* modelTurn by what it leaves: a final answer; a call to run; what an
\* abort or a failure left of a response that was in the transcript; or
\* what a guard let through, with the calls closed (closeWithheld).
ModelTurn ==
    /\ pc = "model"
    /\ \/ /\ Enter(<<Answer>>, "turn_end") /\ batch' = "final"
          /\ UNCHANGED <<calls, reason>>
       \/ /\ calls' = calls + 1 /\ Enter(<<Call(calls + 1)>>, "batch")
          /\ UNCHANGED <<batch, reason>>
       \/ /\ \E kept \in {<<>>, <<Answer>>} : Enter(kept, "ending")
          /\ reason' \in {"failure", "guard"} /\ UNCHANGED <<calls, batch>>
       \/ /\ calls' = calls + 1 /\ Enter(<<Call(calls + 1)>>, "ending")
          /\ reason' = "failure" /\ UNCHANGED batch
       \/ /\ calls' = calls + 1 /\ reason' = "guard"
          /\ Enter(<<Call(calls + 1), Out(calls + 1)>>, "ending")
          /\ UNCHANGED batch
    /\ UNCHANGED <<queueVars, stateVars, flagVars, run, turn, approved,
                   terminate, working, taken, callVars, reportVars, pastVars,
                   seen, cancelled, dpc>>

\* toolBatch over the turn's call.
ToolBatch ==
    /\ pc = "batch"
    /\ \/ BatchCut({calls}) /\ UNCHANGED batch
       \/ /\ ~cancelled /\ batch' \in {"answered", "terminating"}
          /\ BatchDone({calls}, "turn_end") /\ UNCHANGED reason
       \/ /\ ~cancelled /\ batch' = "deferred"
          /\ BatchDone({}, "turn_end") /\ UNCHANGED reason
    /\ UNCHANGED <<queueVars, stateVars, flagVars, runVars, working, taken,
                   callVars, fails, skipped, pastVars, seen, cancelled, dpc>>

TurnEnd ==
    /\ pc = "turn_end"
    /\ \E o \in {"ok", "refused", "skipped"} :
          /\ Raise(o)
          /\ IF o = "ok"
             THEN pc' = "decide" /\ UNCHANGED <<inbox, after, reason>>
             ELSE Stop("failure")
    /\ UNCHANGED <<queueVars, stateVars, flagVars, runVars, working, batch,
                   taken, callVars, pastVars, seen, cancelled, dpc>>

\* Mutant: a stop takes what is queued with it.
StopDraining(why) ==
    /\ Enter(Entries(steer), "ending") /\ reason' = why
    /\ closing' = TRUE /\ dpc' = Signalled
    /\ drains' = Drains /\ taken' = taken \cup Elems(steer)
    /\ steer' = <<>> /\ UNCHANGED followUp

\* A stop decided after the turn marks the run past its last drain as it
\* is decided (runner.ending).
StopClosing(why) ==
    /\ Stop(why) /\ closing' = TRUE /\ dpc' = Signalled
    /\ UNCHANGED <<queueVars, taken>>

\* What follows turn_end: pending calls, ShouldStopAfterTurn, a terminating
\* result and the turn limit stop the run, in this order, before it drains.
TurnDecide ==
    /\ pc = "decide"
    /\ \/ batch = "deferred" /\ StopClosing("input_required")
       \/ batch # "deferred" /\ StopClosing("halted")
       \/ batch # "deferred" /\ StopClosing("failure")
       \/ batch # "deferred" /\ StopClosing("guard")
       \/ batch = "terminating" /\ StopClosing("terminated")
       \/ /\ batch \in {"answered", "final"} /\ turn >= MaxTurns
          /\ StopClosing(IF batch = "answered" \/ QueuedItems # {}
                         THEN "max_turns" ELSE "done")
       \/ /\ batch = "answered" /\ turn < MaxTurns
          /\ DrainSteer("top")
       \/ /\ batch = "final" /\ turn < MaxTurns
          /\ DrainLast("top")
    /\ UNCHANGED <<stateVars, running, held, runVars, working, batch,
                   callVars, reportVars, pastVars, seen, cancelled>>

\* A failure while the context is done is the abort's.
EndReason ==
    IF reason # "failure" THEN reason
    ELSE IF cancelled THEN "aborted" ELSE "error"

\* runner.run once the loop returned: whatever ended it, nothing is drained
\* from here on.
RunEnding ==
    /\ pc = "ending"
    /\ reason' = EndReason
    /\ closing' = TRUE
    /\ dpc' = IF closing THEN dpc ELSE Signalled
    /\ pc' = "run_end"
    /\ UNCHANGED <<queueVars, stateVars, running, held, runVars, working,
                   inbox, after, batch, taken, callVars, reportVars,
                   pastVars, seen, cancelled>>

\* Mutant: only a run that stopped for input reports pending calls.
EndPendingDeferred ==
    IF reason = "input_required" THEN Unanswered(working) ELSE {}

\* runner.pending: every call left without an output, whatever ended the
\* run.
EndPending == Unanswered(working)

\* run_end: the agent takes the calls left without an output as pending,
\* and the end, when the event is dispatched; the run ends either way.
RunEnd ==
    /\ pc = "run_end"
    /\ \E o \in {"ok", "refused", "skipped"} :
          /\ RaiseLast(o)
          /\ IF o = "skipped"
             THEN UNCHANGED <<pending, lastEnd, runEnded>>
             ELSE /\ pending' = EndPending
                  /\ lastEnd' = [run |-> run, reason |-> reason]
                  /\ runEnded' = TRUE
    /\ pc' = "finish"
    /\ UNCHANGED <<queueVars, transcript, flagVars, runVars, pathVars,
                   callVars, pastVars, seen, cancelled, dpc>>

\* Mutant: the run that ends wakes nobody.
FinishedUnsignalled == [d \in Deliveries |->
    IF dpc[d] = "run" THEN "done" ELSE dpc[d]]

\* The delivery that started the run returns, and the others are woken.
Finished == [d \in Deliveries |->
    IF dpc[d] = "run" THEN "done" ELSE Signalled[d]]

\* The tail of start's function: the agent is idle again.  What the run
\* drained and the agent's transcript does not hold is in no queue either.
RunFinish ==
    /\ pc = "finish"
    /\ running' = FALSE /\ closing' = FALSE /\ pc' = "idle"
    /\ dropped' = dropped \cup
          ((ItemsOf(inbox) \cup ItemsOf(working)) \ ItemsOf(transcript))
    /\ inbox' = <<>> /\ working' = <<>> /\ taken' = {}
    /\ dpc' = Finished
    /\ outcome' = [d \in Deliveries |->
                      IF dpc[d] = "run" THEN "ran" ELSE outcome[d]]
    /\ cancelled' = FALSE /\ after' = "idle" /\ batch' = "none"
    /\ reason' = "none" /\ approved' = {} /\ terminate' = FALSE /\ turn' = 0
    /\ UNCHANGED <<queueVars, stateVars, held, run, calls, mark, host,
                   abortOf, aborts, reportVars, carried, stopped, seen,
                   raced>>

-----------------------------------------------------------------------------
RunStep ==
    \/ RunStart \/ ItemStart \/ ItemEnd \/ RunDrain \/ ApprovedBatch
    \/ RunRefused \/ TurnTop \/ BuildRefused \/ TurnStart \/ ModelTurn
    \/ ToolBatch \/ TurnEnd \/ TurnDecide \/ RunEnding \/ RunEnd \/ RunFinish

DeliveryStep(d) == SettleWait(d) \/ Settle(d) \/ SettleStart(d)

HostStep(h) ==
    \/ ContinueLook(h) \/ ContinueStart(h) \/ ResumeLook(h)
    \/ \E approve \in SUBSET host[h].calls, refuse \in BOOLEAN :
          ResumeStart(h, approve, refuse)
    \/ StartRefused(h)

Next ==
    \/ RunStep
    \/ HostPrompt
    \/ \E h \in Hosts : HostStep(h)
    \/ \E i \in Steers : Steer(i)
    \/ \E i \in FollowUps : FollowUp(i)
    \/ \E d \in Deliveries :
          \/ AcceptDelivery(d) \/ AcceptInside(d)
          \/ DeliveryStep(d) \/ SettleCancelled(d)
    \/ ReportQueued \/ Abort \/ AbortCancel \/ ContextDone
    \/ Hold \/ Release

\* Goroutines that can run do: the one that drives the run, and the one
\* that waits on each delivery.  Nothing is assumed of hosts, of aborts or
\* of how the model and the tools answer.
Fairness ==
    /\ WF_vars(RunStep)
    /\ \A d \in Deliveries : WF_vars(DeliveryStep(d))

Spec == Init /\ [][Next]_vars /\ Fairness

-----------------------------------------------------------------------------
(* Properties.                                                             *)

PCs == {"idle", "run_start", "append", "item_end", "drain", "approved",
        "refuse", "top", "turn_start", "model", "batch", "turn_end",
        "decide", "ending", "run_end", "finish"}

Outcomes == LeftQueued \cup
            {"none", "joined", "joinedInside", "taken", "ran", "cancelled"}

FlagsOK ==
    /\ running \in BOOLEAN /\ closing \in BOOLEAN /\ held \in BOOLEAN
    /\ owed \in BOOLEAN /\ queuedErr \in BOOLEAN /\ runEnded \in BOOLEAN
    /\ terminate \in BOOLEAN /\ cancelled \in BOOLEAN
    /\ skipped \in BOOLEAN /\ raced \in BOOLEAN

AgentOK ==
    /\ steer \in Seq(Deliveries \cup Steers) /\ followUp \in Seq(FollowUps)
    /\ drains \in Nat /\ seen \in Nat /\ aborts \in Nat
    /\ lastEnd \in [run : Nat, reason : Reasons \ {"failure"}]
    /\ pending \in SUBSET Nat /\ transcript \in Seq(Entry)

RunOK ==
    /\ pc \in PCs /\ after \in PCs \ {"append", "item_end", "run_end"}
    /\ run \in Nat /\ turn \in Nat /\ calls \in Nat
    /\ working \in Seq(Entry) /\ (pc = "item_end" => working # <<>>)
    /\ inbox \in Seq(Entry) /\ (pc = "append" => inbox # <<>>)
    /\ reason \in Reasons /\ (pc = "run_end" => reason # "failure")
    /\ approved \in SUBSET Nat
    /\ batch \in {"none", "final", "answered", "terminating", "deferred"}

CallersOK ==
    /\ dpc \in [Deliveries -> {"new", "check", "wait", "run", "done"}]
    /\ mark \in [Deliveries -> [drains : Nat, end : Nat, aborts : Nat]]
    /\ outcome \in [Deliveries -> Outcomes]
    /\ host \in [Hosts -> [op : {"none", "continue", "resume"},
                           calls : SUBSET Nat]]
    /\ abortOf \in Nat /\ fails \in Nat

PastOK ==
    /\ carried \in SUBSET Item /\ dropped \in SUBSET Item
    /\ taken \in SUBSET Item /\ stopped \in SUBSET Deliveries

\* Every variable of the agent, its run and its callers has its type; the
\* loop appends only what is there to append, and a failure is resolved to
\* an abort or an error before run_end carries it.
TypeOK == FlagsOK /\ AgentOK /\ RunOK /\ CallersOK /\ PastOK

\* The items that left the queues: drained and being appended, in a
\* transcript, or lost.
Held == ItemsOf(inbox) \cup ItemsOf(working) \cup ItemsOf(transcript)
        \cup dropped

\* Where an item the agent accepted is.
Whereabouts == QueuedItems \cup Held

\* An accepted item is in one place only, and once: no drain takes it
\* twice, and a run takes none that is still queued.
ItemInOnePlace ==
    /\ \A i, j \in DOMAIN steer : steer[i] = steer[j] => i = j
    /\ \A i, j \in DOMAIN followUp : followUp[i] = followUp[j] => i = j
    /\ \A t \in {inbox, working, transcript} : \A i, j \in DOMAIN t :
          t[i] = t[j] /\ t[i].k = "in" => i = j
    /\ QueuedItems \cap Held = {}
    /\ ItemsOf(inbox) \cap (ItemsOf(working) \cup ItemsOf(transcript)
                            \cup dropped) = {}
    /\ dropped \cap (ItemsOf(working) \cup ItemsOf(transcript)) = {}

\* An item the agent accepted stays somewhere, across drains, ends, aborts
\* and starts (Agent.Abort: "The queues are untouched"), and is lost only
\* when a subscriber returned an error.
NothingForgotten ==
    [][/\ Whereabouts \subseteq Whereabouts'
       /\ dropped' # dropped => fails > 0]_vars

\* Deliver's mark tells where its item is: the count of drains is the one
\* it was accepted at exactly while the item is in the steer queue.
MarkTracksItem ==
    \A d \in Deliveries : dpc[d] \in {"check", "wait"} =>
        (drains = mark[d].drains <=> d \in Elems(steer))

\* Deliver returns joined true only for an item that a request carried
\* ("once the request that follows the drain has gone out"), or that a
\* failing subscriber made the run lose.
JoinedWasCarried ==
    \A d \in Deliveries : outcome[d] = "joined" => d \in carried \cup dropped

\* Where a delivered item is, as Mailbox names it.
Place == [d \in Deliveries |->
    IF d \in Elems(steer) THEN "queued"
    ELSE IF d \in carried THEN "carried"
    ELSE IF d \in dropped THEN "lost"
    ELSE IF d \in Whereabouts THEN "taken" ELSE "new"]

MB == INSTANCE Mailbox WITH place <- Place, answer <- outcome

\* The agent keeps what Deliver and Accept promise: each answer is true of
\* where the item is, a drain takes all that is queued, and a request
\* carries all that was taken.
ImplementsMailbox == MB!Spec

\* Once Abort has found a delivery's item in the queue, that delivery
\* starts no run: the abort is not undone (#312).
AbortStopsDelivery ==
    [][\A d \in stopped : dpc'[d] = "run" => dpc[d] = "run"]_vars

\* Every stop decided after a turn is decided before the queues are
\* drained: a run that ends so has shown the model all it took.
StopLeavesQueue ==
    pc = "run_end" /\ reason \in {"done", "input_required", "terminated",
                                  "halted", "max_turns"}
        => taken \subseteq carried

\* The queues are kept: an item is in one place, and a run that stops takes
\* none of them that it does not show the model.
QueueIsKept == ItemInOnePlace /\ StopLeavesQueue

\* While every event is dispatched, the agent's transcript is the one the
\* loop works on, but for the entry whose item_end is being raised, and an
\* idle agent waits for exactly the calls its transcript leaves open.
PendingIsUnanswered ==
    ~skipped =>
        /\ running => transcript =
              IF pc = "item_end" THEN SubSeq(working, 1, Len(working) - 1)
              ELSE working
        /\ ~running => pending = Unanswered(transcript)

\* No call has two outputs in the conversation.
OutputsDistinct ==
    \A i, j \in DOMAIN transcript :
        transcript[i].k = "out" /\ transcript[i] = transcript[j] => i = j

\* Resume: "Every pending call must have exactly one answer": through
\* prompts that answer, resumes, approvals, aborts and failures no call is
\* answered twice, unless a Resume acted on a look at the pending calls
\* that another run had since made stale.
OneOutputPerCall == ~raced /\ ~skipped => OutputsDistinct

\* The model is called only with something to answer: the conversation
\* never ends with the model's own message or with an open call as
\* turn_start is raised, unless a Continue acted on a stale look.
ModelHasInput ==
    pc = "turn_start" /\ ~raced /\ ~skipped =>
        /\ working # <<>>
        /\ working[Len(working)].k \notin {"answer", "call"}
        /\ Unanswered(working) = {}

\* The conversation is whole, through every way to leave calls open and to
\* answer them: the agent waits for exactly the open calls, none is
\* answered twice, and the model is asked only when all of them are.
ConversationIsWhole ==
    PendingIsUnanswered /\ OneOutputPerCall /\ ModelHasInput

\* A delivery that was accepted is settled, whatever the runs, the aborts
\* and the holds around it: no wake-up of Deliver's wait is lost.
DeliverySettles ==
    \A d \in Deliveries : dpc[d] \in {"check", "wait"} ~> dpc[d] = "done"
=============================================================================
