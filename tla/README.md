# A TLA+ model of agentturn

agentturn is a Go library that runs an agent: a loop that calls a model, runs
the tools the model asks for, and repeats, around a transcript that many
goroutines may add to while it runs. This directory models the parts of it
where order, concurrency and failure matter, checks them with TLC on small
instances, and proves what matters most with TLAPS for every instance.

Paths below are relative to the repository's root; `agent.go:1940` is a line of
the root package.

## 1. Inventory

### 1.1 Components

| Component | State | Operations | Interacts with |
| --- | --- | --- | --- |
| **Agent** (`agent.go`, `control.go`) | under `mu`: `running`, `closing`, `held`, the queues `steer` and `followUp`, `drains`, `seen`, `aborts`, `lastEnd`, `pending`, the transcript, the reports owed for queued items; the event barrier (`emitMu`) | Prompt, Continue, Resume, Steer, FollowUp, Queue, Redeliver, Deliver, Accept, Abort, WhileIdle, Subscribe, the setters of an idle agent | starts one run at a time; the run drains its queues and delivers its events to it |
| **Run loop** (`run.go`, `runner.loop`) | the working transcript, the turn, the items to append, the outcome | one turn after another: hook, request, model call, batch, `turn_end`, the decision to go on | Agent's queues by callbacks; hooks; subscribers through `emit` |
| **Model call** (`run.go`, `modelTurn`, `stream`) | the items of an attempt held until it commits | stream, commit, retry, fold after a context overflow, output guard | the run loop; compaction by `Transform` |
| **Tool batch** (`run.go`, `toolBatch`) | a `callState` per call; what was dispatched, refused and deferred | preflight, dispatch, settle, fail, abort, collect | one goroutine per job (agenttool's executor) and the loop's goroutine; hooks; Resume |
| **Pending calls** (`run.go:1250`, `agent.go:1050`) | why each open call has no output, its key and its arguments | `runner.pending`, Resume, `mayRunAgain`, the merge on a restart | the batch, and the host that answers |
| **Nested calls, notes, call ids** (`run.go`) | a tool's calls of other tools, with the replay of a resumed one; what hooks and people said about a call; the renaming of duplicate ids | `invoke`, `expect`, `holdNotesOf`, `flushNotes`, `renameCalls` | the batch |
| **Questions** (`ask.go`, `control.go`) | the questions open | Ask, Reply, withdrawal, the replay to a new subscriber | tools and hooks that ask; fronts that answer |
| **Hook chain** (`chain.go`), **quarantine** (`quarantine.go`) | none; the items no request may carry | merge of decisions; add, apply, Bind, Merge | the batch; the requests |
| **Compaction** (`compact/`) | the folded prefix and its output, back-off | `Transform`: a fold made outside the lock | the model call |
| **Handoff** (`handoff/`) | the agent that has the conversation | `Team.follow` over runs that end in a transfer | Agent |
| **Session recorder** (`session/`) | a log of entries: what was queued, items, dispatches and ends of calls | subscriber; Resume after a crash | Agent, by events and `WithPending` |
| **Fronts** (`front/a2a`, `front/control`, `front/responses`) | the task or stream that each remote caller has | claim, cancel, steer; event streams and deliveries over HTTP; relayed runs | Agent |
| **Agents as tools** (`tools/agent`, `tools/a2a`) | child runs and remote tasks | call, detach, restore, cancel | the batch; other agents |

`PROJECT.json` lists each of them with the module that models it, or the reason
there is none yet.

### 1.2 What is hard here

- **Two locks for one decision.** Continue and Resume look under `mu`, release
  it and start under it again; Deliver looks, waits on a channel that is
  replaced, and looks again; Abort takes the run's cancel under the lock and
  calls it after.
- **Counters instead of identity.** Deliver does not look for its item: it
  compares `drains` and `seen` with the mark it took, which is right only if
  every drain is counted and every request comes after the appends of the
  drains it counts.
- **Subscribers that fail.** An event that a subscriber refuses ends the run,
  and so does a failed report of a queued item *ahead* of an event, which then
  is never dispatched. The agent's own state changes as its events are
  dispatched, so what it believes depends on which event failed.
- **A batch of goroutines and one loop.** The executor starts a job when the
  result before it is *received*; the loop *settles* it after, hook included;
  an abort, a hook's failure or a consumer's failure may come at any point, and
  every tool_start must still get exactly one tool_end.
- **Calls that may have run.** Whether a call is run again after an abort, a
  failure or a crash, and under which key, is decided from what the agent
  still knows of it.

- **A log that must be enough.** After a crash only the session's entries are
  left. What a write that failed, a rewind or a crash between two entries leaves
  out decides whether a tool runs twice, an input is lost, or a child answers for
  another operation.
- **One conversation, many remote callers.** Messages, cancels and steers of
  several A2A tasks contend for one transcript, over stores saved one after
  another, any of which may fail.
- **Events for those who read slowly or come late.** A delivery holds a barrier
  that others wait for; streams have bounded buffers, questions are replayed to
  whoever attaches while they wait, and connections break at any point.
- **A memory shared without a lock held.** The fold of a transcript is a model
  call made outside the transform's lock, by callers whose transcripts differ,
  while what it folds may be quarantined, trimmed or refused as too long.

The hazards, each at its line and with the properties aimed at it, are in
`PROJECT.json`.

### 1.3 What makes each component correct

- Agent: no accepted item is duplicated or forgotten; what Deliver answers is
  true; an abort is not undone; no waiting delivery sleeps forever; an idle
  agent waits for exactly the open calls; the model is never called with
  nothing to answer.
- Batch: start and end events pair; a chain's calls are handed over only after
  the ones before them are settled; every batch ends.
- Pending calls: the agent knows which open calls may have run; a tool that may
  not run twice does not, and a keyed one can tell a repeat from a new
  operation; an answered call is neither run nor answered again.
- Model call: a retried attempt leaves nothing in the transcript; a call ID
  names one call, from item_start to its output; the calls run are the calls
  the transcript holds; a stop by a guard leaves no call open; an input that
  was refused as too long is not sent again; every turn ends.
- Recorder, calls: memory agrees with the log at every event; a call that may
  have run is never read as one that did not; every hand-off to a tool is in the
  log with its key and arguments.
- Recorder, inputs: what was acknowledged is drained or owed, once, whatever
  crash, run end or rewind comes between.
- A2A executor: no run starts on a task whose cancel has settled it; open calls
  are asked for under the task that waits, and again after a save that failed; a
  steer is taken, owed or refused, and dropped only with its own task; the
  conversation is freed.
- Agents as tools: a call handed over again is answered by its own child, no
  tool of which repeats what it may not; the recorder lets go of the writer of a
  call's last run.
- Questions, barrier, control front: a reply that was taken is what the call
  gets; a waiting question is shown to everyone; an accept or a quarantine is
  reported; a stream is whole until it is cut, and is cut visibly.
- Compaction: a request carries its own transcript, whole; a quarantined item
  leaves with the fold that read it; a recorded hash is that of the request the
  path rebuilds; a fold that failed is not asked for at every turn.
- Planned: a note is said once, after the outputs it is about; a transfer is
  followed at most the bound's number of times.

## 2. Plan

| Order | Module | Models | Status |
| --- | --- | --- | --- |
| 1 | `Agent` | the agent, its callers and the skeleton of the loop | done |
| 2 | `Mailbox` | what Deliver promises; `Agent` implements it | done, checked and proved |
| 3 | `ToolBatch` | a batch, the pending list and Resume, over crashes | done |
| 4 | `AgentProofs` | type correctness, exactness of the mark, truth of `joined`; an item is in one place and is not forgotten; an abort holds; `Agent` implements `Mailbox`; the conversation is whole | done |
| 5 | `ModelTurn`, `ModelTurnProofs` | attempts, held items, commit, retry, fold, guard, call IDs and `renameCalls`; its safety but for `BatchIsAnswer` proved | done |
| 6 | `Record` | the session log's account of calls, over crashes, rewinds and Resume | done |
| 7 | `Inbox` | the recorder's queued inputs and deliveries | done |
| 8 | `Executor` | the A2A executor: claim, cancel, steer, the three stores | done |
| 9 | `Subagent` | an agent as a tool, composed with the record of its child | done |
| 10 | `Control` | the delivery barrier, questions, reports, and front/control's requests and streams | done |
| 11 | `Compaction` | the fold, the quarantine, and the hash the recorder writes of what was sent | done |
| 12 | `ToolBatchProofs` | a never-replayed call runs once; the pending list is sound; calls run in turn | done |
| 13 | `InboxProofs` | what was acknowledged stays on the record; each input is there once, and where the inbox says | done |
| 14 | `ExecutorProofs`, `SubagentProofs` | the safety of the A2A executor and of an agent as a tool | done |
| 15 | `RecordProofs` | the recorder's memory is what the log would give; pending is sound, the record is true, repeats are safe | done |
| 15a | `ControlProofs` | a question is served; accepts and quarantines are reported | done |
| 15b | proofs of `Compaction` | what is sent is whole; a recorded hash is exact | next |
| 16 | `Team` | `Team.follow` over Agent's ends, its bound and the deliveries a stop leaves | later |
| 17 | `Notes`, `Nested` | notes held over cut calls; a tool's calls of other tools and their replay | later |
| 18 | `Relay`, `Remote` | front/responses' relayed run; tools/a2a's remote tasks and their cancels | later |
| 19 | operators | the hook chain against a reference definition | later |

The modules meet where one's inside is another's step. `Agent`'s action
`ModelTurn` is the module of that name, and its action `ToolBatch` likewise.
`Record` and `Subagent` reduce the agent to the events the recorder sees;
`Subagent` takes what a Resume makes of a call from `Record`'s rule.
`Compaction` opens up the building of the request that `ModelTurn` has as
`Build` and `Fold`. `Control` opens up the barrier that `Agent` has as `Raise`.

Abstract specifications worth stating: `Mailbox` (done); a call that is handed
over at most once, which `ToolBatch` and `Record` should implement; a message
that is run, owed or refused, for the A2A executor.

Theorems planned: that a request carries its own transcript, whole
(`SentIsWhole`), and that the batch of a turn is its answer (`BatchIsAnswer`).

## 3. The modules and the code

### 3.1 `Agent`

One step is one critical section of `Agent.mu`, or one event of the run with
what the loop does up to the next.

| Model | Code |
| --- | --- |
| `running`, `closing`, `held`, `steer`, `followUp`, `drains`, `seen`, `aborts`, `pending`, `lastEnd`, `transcript` | fields of `Agent` of the same names |
| `owed`, `queuedErr` | whether `Agent.queued` holds accepts not yet reported; the kept error of a report made between events |
| `pc`, `working`, `inbox`, `after`, `turn`, `reason`, `approved`, `terminate`, `batch` | the runner: where it is, its transcript, what it has to append and where it goes then, how it ends |
| `dpc`, `mark`, `outcome` | each Deliver or Accept: new, looking, waiting, running its own run, done |
| `host` | each goroutine between the two locks of Continue or Resume |
| `abortOf` | AbortCause between its lock and the cancel it calls after |
| `carried`, `taken`, `dropped`, `stopped`, `skipped`, `raced` | history, read by properties only (`dropped` also keeps an item from being queued anew) |

Actions: `HostPrompt`, `ContinueLook`/`ContinueStart`,
`ResumeLook`/`ResumeStart`, `StartRefused`, `Steer`, `FollowUp`,
`ReportQueued`, `Abort`/`AbortCancel`, `ContextDone`, `Hold`/`Release`,
`AcceptDelivery`, `AcceptInside`, `SettleWait`, `Settle`, `SettleStart`,
`SettleCancelled` for the callers; `RunStart`, `ItemStart`, `ItemEnd`,
`RunDrain`, `ApprovedBatch`, `RunRefused`, `TurnTop`, `BuildRefused`,
`TurnStart`, `ModelTurn`, `ToolBatch`, `TurnEnd`, `TurnDecide`, `RunEnding`,
`RunEnd`, `RunFinish` for the run.

`Raise(o)` is Agent.deliver: an event is taken (`ok`), refused by a subscriber
after the agent's own state took it (`refused`), or never dispatched, because a
kept error or a failing report of a queued item came first (`skipped`).

Abstractions: an item is a model value; a transcript entry is one of a queued
item, a prompt, an answer, a call and an output, which is all that CanContinue
and unansweredCalls tell apart. A turn makes at most one call. The inside of a
model call is its outcome: a final answer, a call, or what an abort, a failure
or a guard left. The inside of a batch is `ToolBatch`'s.

### 3.2 `Mailbox`

The promise of Deliver without counters, queues or runs: an item is new,
queued, taken, carried or lost; a drain takes everything queued at once; a
request carries everything taken at once; and the answer given is true of the
place of the item when it is given. `Agent!ImplementsMailbox` is its
specification under the mapping `Place`.

### 3.3 `ToolBatch`

The calls of one response, through as many runs as it takes to answer them.
`cs[c]` is the `callState` of a call: where its job is (`ready`, `onstart`,
`running`, `returned`, `received`, `done`), and the flags the code keeps
(`settled`, `deferred`, `cut`, `ended`, `dispatched`, a refused dispatch). `pend[c]` is
its PendingCall as the agent keeps it between runs; `order` is the order of the
batch, the model's for a turn and that of the answers for a Resume; `ops` is
the history of hand-offs, with the key and the arguments each had.

The executor is agenttool's, which is not part of the repository: it is
modelled from how `execute` and `executor` use it (`Preceding`, `OnStart`, one
final event per job, at most `MaxParallel` jobs at once) and marked external.
A plan's `apart` says which calls it keeps apart: those of one chain, or all
around a barrier.

`Crash` ends the process anywhere. The agent that follows has the transcript
alone (`WithTranscript`), so each open call is pending as unknown. With a
recorder it knows more: that is `Record`.

`plan` is what the system is given: the calls and the replay of each one's tool,
whether arguments may be edited, and how many runs and crashes there may be.
Arguments are the call's own or others; a key is unknown, that of a run, or one
an answer brings. Notes and nested calls are not here.

### 3.4 `ModelTurn`

One turn's call of the model, which `Agent` has as its one action `ModelTurn`:
`outcome` is what that action chooses from. One step is one event of the
response with all that `streamEvent` does for it, or one decision of
`modelTurn`'s loop.

| Model | Code |
| --- | --- |
| `call`, `attempt`, `folded` | the counters and the flag of `modelTurn` |
| `request`, `refused` | which input is in flight, counted as a fold rebuilds it; the inputs the server refused as too long |
| `committed`, `held` | the runner's fields: whether the attempt may no longer be retried, and the items it completed before that |
| `opened`, `callAt`, `callItems`, `decided`, `minted` | the calls of the attempt by opening, by output index and by item ID, and the call IDs decided for them |
| `final` | the terminal response, as the calls it lists |
| `kept`, `outs`, `batch` | what the turn put in the transcript, the calls `closeWithheld` answered, and the calls the turn goes on to run |

Actions: `Build`; `ItemAdded`, `ItemDone`, `MessageRefused` (the output guard
withholds a message or fails), `UpdateFails`, `Terminal`, `StreamEnds`,
`ResponseFailed`, `StreamFails` for the stream; `Fold`, `Wake`, `Drain` for the
loop around it; `Cancel`.

The server is external: a record of the items it answers with and of the
habits that the code's comments say servers differ in. Those are whether all
items share output index 0, on which of the three events an item has its ID
(added, done, the final listing), whether the final listing has one item
per index, and whether the stream names its response before the final event
(`Named`, which a guard's stop looks at). It opens items in their order and may leave out the first events of
the last items and any item's done. It completes the item it last opened at an
index. It may list a call with other arguments than it streamed only if it
names its calls and does not build the listing from the stream.

Abstractions: an item is its position in the answer, which is also its
arguments; a made call ID is a number no model uses, for the code's random
suffix. The contents of requests, the revision of the transcript, transforms
and delays are left out; a fold is whether it changed the input. An error of a
subscriber is not marked as a guard's.

### 3.5 `Record`

What the session recorder (`session/session.go`) writes of a call, keeps in
memory about it, and reads back.

| Model | Code |
| --- | --- |
| `path`, `left` | the log: the entries at its leaf, and the paths that rewinds left |
| `rec`, `run`, `open`, `unsettled` | `writer.calls` (a callRecord each), `writer.run`, `writer.open`, `writer.unsettled` |
| `pend` | the agent's PendingCall of each call, which a Resume is checked against |
| `phase`, `st`, `how`, `failing` | the agent's run, reduced to the events the recorder sees |
| `asking` | the recorded question that a call's tool waits on (`Recorder.Elicitor`) |
| `hands` | history: each hand-off of a call to its tool, with the dispatch it was written as |

One step is one event with the entries it makes the recorder write; any write
may fail, which ends the run as a failing subscriber does. `CrashAndResume` is
the process's end at any entry and the recorder that opens the log after it
(`CallRecordOf`, the pending calls, the answers the log already has). `Rebase`
is a rewind to any entry, of the path at the leaf or of a path left, or the reset
to none; the path it leaves joins `left`, and the entries written after it are of
a branch of their own. After a crash the leaf stays where the last rewind moved
it, and after a reset no new prompt is modelled: what the model follows is one
response's calls. `Ask` and `Told` are a tool's question to a person: it
is written before it is put, and its answer before the tool gets it, so that a
call cut off in between is pending with its question. Arguments are the model's
or others, a key is the run that made it. `OffAt`, `OffPaths`, `OffPath` and
`RanOff` read a dispatch on a path that a rewind left (`dispatchOff`, `callAt`,
`outputAfter`): a withdrawal there is not looked for (`session.go:2181`).

### 3.6 `Inbox`

The inputs a host hands to the agent through the recorder. `path` has queued
entries, the items that drained them, and run ends; `left` are the paths that
rewinds left, to any entry of which a rewind may return; `inbox` is `writer.inbox`;
`agq` and `evq` are the agent's queue and the queued events the recorder has not
seen. `Submit`, `Handover` and `QueueAtAgent` are a host's call before, between
and after the two locks it takes; `Drain`, `RunEnd`, `Requeue`, `Redeliver` and
`Rebase` are the recorder's handlers; `Crash` may come anywhere, `CrashInEnd`
inside runEnd, after the end closed the queued entries and before all of those
still held were written again. An input's content is all the log keeps of it:
two inputs of one content are told apart in memory only.

A run end, a rewind, a submission and a delivery sent again all write the inputs
that have no entry (`Requeued`), and each may fail after some of them; what the
caller then keeps differs, and a failed run end or rewind is reported (`warned`).
`submitted` is history: a message that `Redeliver` is handed counts as new unless
it is one the path owes. Where another caller's input alike is there too, it
counts as new, for the recorder cannot tell which of the two was meant. An input
that the agent holds, and that a return to a branch left writes there anew,
counts as submitted to that branch (section 4.1). `MovedTo` says which inputs keep
their entry on a move: those whose entry both paths share (`Shares`), and
`Rebased` looks for an entry alike that the new branch owes for the others.

### 3.7 `Executor`

The A2A executor (`front/a2a`): the requests of several tasks on one
conversation, each a process of a few steps that the executor's lock, the
stores and the server separate. `busy`, `active`, `mark`, `rt`, `steered`,
`owed` are the executor's fields; `stored`, `escalated`, `waiting` the three
stores, saved one after another with a failure possible at each; `status` and
`listed` what the server tells the caller. `torn` is history: a save or the
status after it was cut short, and no run was saved and no message asked for the
calls since; `dropped` has each steer with the task that had it, `lost` those
whose own redelivery failed or that a restart found in memory. `Claim`, `Check`, `Track`, `Take`,
`EndRun`, `Outstanding`, `Relay`, `Bounded`, `Save`, `Conclude` are Execute's steps;
`Track` hands the steers owed to the agent one by one (`HandedOn`), and goes on
without those it refuses; the status that `Conclude` writes (`FinalStatus`) may
fail. `Steer` is a message to a working task, which the recorder may refuse; `ClaimCancel`, `DropOwed`, `Settle`,
`ConcludeCancel` are Cancel's. `Restart` loses what is in memory. The server
(a2asrv) is external.

### 3.8 `Subagent`

One call to an agent as a tool (`tools/agent`) and the session of its child,
which `Recorder.Observe` writes and ChildRecord reads. `plog` holds the parent's
entries for the call, `child` the child agent, `stored` the child's session at
its leaf, `writer` and `linked` what the recorder keeps of both, `kept` the
writers of the call's earlier runs that are still in `Recorder.runs`, `ran` the
runs of each of the child's tools under each key. `Written` is what an event adds
to the session, which has a gap where an earlier run could not be written. The call is handed over, loads its
record or starts afresh (`LoadRecord`, `LoadFresh`, `LoadFails`, `Afresh`),
runs the child event by event, asks the parent about calls it may not decide
(`Decide`), resumes the child with the calls that the answers release (`Release`,
another run, with a writer of its own), and returns, or is detached and returns while the child
goes on. A crash or an abort may come at any step, after which the call is handed
over again under the same or another key.

### 3.9 `Control`

The human plane. One step is what the code does under `mu`, or one call of one
subscriber. `hold` is the barrier (`emitMu`): the delivery under way, the events
it has still to dispatch and the subscribers to call. Its stages are those of
`deliver`: reports ahead, the event, the reports of what was accepted meanwhile,
the look again as it lets go. `at` is the program counter of each goroutine: the
run, each asking call, each accept that reports itself, each quarantine, each
replay. `asks`, `waiting`, `replays`, `subs`, `queued`, `queuedErr`,
`quarantine`, `quarantineOwed` are fields of `Agent`. `stream` is the handler of
each event stream (`Framed`, `NextFrame`, `FellBehind`, `Overflow`,
`RequestDone`), `req` where the handler of each request is and what it answered;
`spent` is history, that a release of the barrier made all its passes with an
accept from outside still owed. A delivery is here the steer it begins with: how
it is settled is `Agent`'s, and the handler lifts the request's cancellation from
it, so its client has no part in that. A plan is a list of requests with the
questions, streams and faults beside them.

### 3.10 `Compaction`

`compact.Transform`, the building of requests through it, and the recorder's
account of what was sent. `mem` and `fail` are the transform's two memories,
`call[c]` the building of a request of conversation c, cut where the code lets
go of the transform's lock; `log` and `wr` are the session's path and the
recorder's writer, with the fold it holds, the omit settings and the hash of
the call in flight. Main is the recorded conversation; Other is forked from it,
shares the transform, and has a quarantine (`quar[c]`) and failed folds of its
own. `mem` and `fail` also keep, as history, whose they are. `Hook` is a BeforeModelCall hook that quarantines,
`Quarantine(c)` a host's, `Trim` a SetTranscript, `Overflow` a refusal as too
long with the fold it forces. `Omit` is the recorder's: the host names an item
that requests leave out from then on, and the writer settles it before a run's
first entry. `CrashAndResume` seeds agent and writer from the path; `Reopen` is
a process started again between two runs whose agent holds the conversation
whole, from a store beside the record, in which Attach quarantines what the omit
setting says was left out. The items that its writer then read from the path
(`read`) are others than the agent's, and `FoldSplitOf` does not find a fold's
first item among them. `barred` is a history variable: what was quarantined
before a restart and the path's context still shows. A summary is the set of items it read, every item
weighs one token, and a hash of a prefix is the prefix.

## 4. Runs

| Run | Instance | Shows |
| --- | --- | --- |
| `agent_delivery` | two deliveries, one abort, one failing event, holds; every run is started by a delivery | `MarkTracksItem`: the mark is current exactly while the item is queued. `JoinedWasCarried` and `ImplementsMailbox`: every answer is true. `AbortStopsDelivery`: a delivery that an abort found waiting starts no run. `DeliverySettles`: no wake-up is lost |
| `agent_queues` | a delivery, a steer that no model answers, a follow-up and a prompt, two turns, no failure | `QueueIsKept`: an item is in exactly one place, and a stop decided after a turn leaves the queues alone; `NothingForgotten`: with no subscriber failing, no item ever leaves every queue and transcript |
| `agent_resume` | one host, three runs, calls deferred, cut, answered by prompts, outputs, approvals and refusals, one failing event | `ConversationIsWhole`: the agent waits for exactly the open calls, each gets one output, and the model always has something to answer |
| `batch` | four plans: a never-replayed and a keyed call with edits over three runs and a crash, two chained calls over two runs and a crash, three calls with a barrier cut anywhere | `CallsAreAccountedFor`: tool_start and tool_end pair and what is pending is told from what never ran; `RunAgainIsSafe`: no tool repeats what it may not; `RunsInTurn`: no call is handed over before the ones it waits for have ended, nor after it was answered; `BatchEnds`: no dispatch waits for a call that will not be settled |
| `model_turn` | six answers of two or three items (equal, missing and taken call IDs; after reasoning, around a message) with each of 24 habits, and two more of a stream that does not name its response, two attempts and a fold, an abort and failing subscribers anywhere | `NoTraceOfRetried`; `CallIDIsIdentity`: an ID names one call and a call ends under the ID it started with; `BatchIsAnswer`: the calls run are those of the transcript, and no listed call is dropped or taken for another; `WithheldIsClosed`; `TurnEnds` |
| `record` | one and two calls, every decision of a hook, a crash, a failed write, a rewind, up to four runs; two rewinds, which may return to the branch left, over three runs; tools that ask a person, over two crashes | `LiveIsSeeded`: memory is what the log would give; `PendingIsSound`; `RepeatsAreSafe`; `RecordIsTrue` |
| `inbox` | three inputs, two alike, over runs, a crash, one inside a run end, a failed write and a rewind; two rewinds, which may return to the branch left | `AcceptedIsKept`: what was acknowledged stays on the record; `InboxIsExact`: nothing is there more often than it was submitted, and the inbox, the agent and the path agree |
| `executor` | three messages with a cancel, a handoff or a failure; two with two cancels, or with one and a failure or a restart; over two tasks, with steers | `OpenCallsAreAskedFor`; `CanceledDoesNotRun`; `SteerIsServed`; `ConversationFrees` |
| `subagent` | a call handed over up to three times, over crashes, aborts, another key, failed writes, asks, and detached | `NothingTwice`; `AnswerIsTheCalls`; `HeldRunsIfAccepted`; `WriterIsLetGo` |
| `subagent_new_key` | another key between two crashes | refutes `AnswerIsTheCalls` |
| `control` | nine plans of requests, one more accept than a release of the barrier makes passes, a question, streams of one frame's buffer that break, and a failing recorder | `AskIsServed`; `AllIsReported`; `ReportedWhileQuiet`; `StreamIsWhole` |
| `compaction` | fourteen plans: two folds of one transcript with a forked conversation, both of which quarantine or have their folds fail, quarantine by host and hook, refusals, failed folds, trims, omits, crashes, restarts beside a store, a chained transform | `SentIsWhole`; `QuarantineReachesFold`; `HashIsExact`; `BackOffIsKept` |

Each property of a passing run has a mutant in `PROJECT.json`: a definition of
the model changed the way a plausible bug would change the code, under which
TLC refutes the property.

### 4.1 Where code and documentation differ

`subagent_new_key` shows one (the finding in `PROJECT.json`): Observe writes the
parent's link to the child's session before the run start that opens a new root
in it (`session.go:5452`). When a call is run again under another key and the
process dies between the two, the next hand-over follows the link to the path of
the earlier operation and returns what that left.

The others were met while the properties were written. A property below that
carries a reservation carries it for one of these, and is refuted without it.

Runs and calls:

- Two Resumes that both looked before either started put two outputs of one call
  into the transcript (`agent.go:1054`), though every pending call "must have
  exactly one answer" (`agent.go:995`). With a second host in `AgentResume.cfg`,
  TLC refutes `OutputsDistinct`: `~raced` in `OneOutputPerCall`.
- An item drained by a run whose subscriber fails on its item_start is in no
  queue and no transcript (`run.go:1641`), though such a run "has them in its
  transcript unanswered" (`agent.go:1811`). `dropped` keeps such items, and
  `NothingForgotten` allows them only where a subscriber failed.
- The outputs of approved calls are appended in the order of the answers
  (`run.go:3247`), though Resume says "in the calls' transcript order"
  (`agent.go:1033`).
- A call that completes without having been opened, with no item ID, at an index
  that an earlier call had, gets the earlier call's ID (`run.go:2269`), though "A
  call ID names one call" (`run.go:2235`). With `BareReuse = TRUE`,
  TLC refutes `UniqueCallIDs`.
- `~raced` in `ModelHasInput`: a Continue that looked before another run and
  starts after it calls the model on a transcript that ends with the model's
  own message (`agent.go:767`).
- `~skipped` in `PendingIsUnanswered`: a queued report that fails ahead of
  run_end keeps the event from the agent (`agent.go:1386`), which then has no
  pending calls and the last end of an earlier run.
- `crashes = 0` in `KeyedTellsRepeats`: a call pending as unknown is compared
  with the call's own arguments, though a hook may have given it others, so an
  approval that names those others runs the same operation under a new key
  (`agent.go:1156`).
- `appendFinished` tests a settled call's error against the run's context again
  (`run.go:2953`): a tool that returned a cancellation of its own before the
  abort has a tool_end with Cut false and no output. `PendingIsSound` is stated
  of the calls left open, so such a call is covered: it is pending as aborted.
- `ToldApart` in `ListedIsRun`: a call that only the final listing has, and
  that has no call ID or shares it with a completed call, is taken for that
  call where no item ID tells them apart.
- `Named` in `BlockedLeavesNothing`: a guard's refusal on a stream that has sent
  items and not yet named its response has no response to report withheld
  (`run.go:2089`), so the call is reported blocked with those items in the
  transcript, though "Nothing of the answer is in the transcript" there
  (`run.go:1898`). Their calls are closed all the same.
- `Retryable` without `"context"` in `model_turn` and in `RefusedIsNotResent`:
  with a policy that accepts the refusal, an input that no fold could shorten
  is sent again.
- `BatchIsTranscript` is about the set of calls. Calls with indexes of their
  own may complete in another order than they opened; the transcript then has
  them as they completed and the batch as they opened.

The record:

- `c.decided` is set before the decision that rewrites the arguments is appended
  (`session.go:7263`, `7268`), though it is meant to be that of "the last
  decision on the path" (`session.go:1533`). After a failed append the two
  differ. `record` therefore has no failed write where a hook rewrites
  arguments.
- `PendingIsSound` asks for the question of a call that waits on one, and not the
  converse. A question that a cut left open has no answer entry for ever: when
  the call runs again, asks anew and is answered, the old one is the last open
  question on the path (`session.go:3028`), and a rewind to between a question
  and its answer opens it again. PendingCall.Question is then a question that
  the call did not wait on "when its run was cut" (`events.go:863`).
- A call that a hook blocked has its `reject` on the path before its output. When
  the output is not appended (another subscriber refuses its item_start, or the
  append of an earlier output of the batch fails and ends the run), the call is
  pending in the agent as not dispatched (`run.go:1295`). A Resume asks the hook
  again; when it now allows the call, toolDispatch finds the call rejected and
  writes nothing (`session.go:7307`), so the tool runs on a record that says it
  was refused, though "no tool runs after a dispatch the record does not hold"
  (`session.go:7285`). `PendingIsSound` fails there. `record` therefore has no
  hook that blocks beside a refusing subscriber, and a failed write beside one only
  where it is the one call (`RefusalsKept`, section 5).
- A rewind may return to a branch left. Where that branch refused a call (a hook
  blocked it) and another branch ran it, the call is pending as rejected on the
  path that a resume reads, for only the entries of the path say whether a call
  was refused. `RefusedFirst` in `PendingIsSound` and in `RecordIsTrue` allows
  this alone: the refusal was written before any branch ran the call. Nothing is
  run twice by it: a refused call is not run (`RepeatsAreSafe`).
- A return to a branch left writes there the inputs that the agent still holds and
  that the branch does not owe (`session.go:3369`). The branch may hold an item
  that one of them became before the rewind left it: queue an input, let a run
  take it, rewind to its entry, crash and requeue it, and return. The input is
  then there twice, as an item and as an entry owed, for one call of the host.
  `NotTwice` counts what such a return writes as submitted to the branch; without
  that count TLC refutes `InboxIsExact`.
- The release loop of an agent as a tool runs the child again (`agent.go:940` of
  `tools/agent`), and Observe makes that run a writer of its own. A run_end lets go
  only of the writers of detached and spawned runs (`session.go:5481`), and the
  tool_end of the run that the call ended with (`session.go:7824`): the writer of
  each run that the loop went on from stays in `Recorder.runs` while the recorder
  lives. `WriterIsLetGo` is of the last run, and says that only a tool which asks
  its parent leaves others (`kept`).
- A dispatch that another subscriber refused is withdrawn and the call is not
  given to its tool. A rewind to between the two entries makes the call one that
  may have run, with that dispatch's key (`session.go:2415`). When the tool was
  given the call under a later key on the branch left, the rewound session runs
  it again under the first one, which its tool has not seen: TLC refutes
  `RepeatsAreSafe` for a keyed call with one refusal and one rewind. `record`
  therefore has no rewind beside a refusing subscriber (`KeysKept`, section 5).
- A crash inside runEnd, after the end closed the queued entries and before
  those still held are written again (`session.go:7461`), loses deliveries that
  were durably accepted. `AcceptedIsKept` counts those out (`RestartedFrom`).
- A write of a child's record that fails does not stop the child, so a later
  hand-over may repeat what it did: `~broken` in `NothingTwice`.
- `torn` in `HashIsExact`: the writer takes a fold into memory before it appends
  its compaction (`session.go:7702`). When the append fails, later hashes are of
  requests the path does not rebuild.
- `exempt` in `HashIsExact`: after a refusal as too long and a recorded fold, a
  run that ends before the retry is sent writes the hash of the first attempt
  behind the fold (`session.go:7506`).

The fronts:

- The conversation keeps one mark of a cancel. It serves one message and goes
  with any other task's (`executor.go:659`), and the cancel of a second task
  overwrites that of the first: a message of the first that was on its way may
  run after it, though such a message "does not run: the task stays canceled"
  (`doc.go:221`). `moved` in `CanceledDoesNotRun` counts both out. The second was
  met in the proof, whose invariant two cancels break; `executor` has two since.
- `quiet` in `CanceledDoesNotRun`: the mark is in memory only, and a cancel whose
  save fails leaves none, so a restart or a failure between the cancel and the
  message lets the message run.
- A save that fails, a status that is not written or a restart between the two
  leaves the stores with calls that no caller is asked for, until the next run is
  saved or the next message of the conversation is asked for them: `torn` in
  `OpenCallsAreAskedFor`.
- An owed steer whose redelivery fails is dropped with nothing said and the run
  goes on without it (`steer.go:137`), though its caller was told that it was
  accepted. `lost` in `SteerIsServed` has those, and what a restart finds in memory.
- A cancel drops the steers owed (`cancel.go:45`) without waiting for the run
  that is ending, which may record its own after that (`steer.go:208`).
- A frame that finds the buffer full is dropped and the stream marked behind,
  but the subscriber goes on (`handler.go:763`): frames after the dropped one
  are queued as the loop drains, and are sent ahead of the overflow frame. The
  client sees a gap before it is told of one. `PrefixUntilCut` therefore ends
  where the stream falls behind.
- The close of a question ignores the barrier's error (`control.go:324`): with a
  failing report ahead of it no subscriber sees the close, though it "follows
  either way" (`control.go:148`). `AskIsServed` requires no close.
- A prompt that its caller cancels sends an abort (`client.go:183`), which may
  arrive before the prompt does; the run then starts and is not aborted, though
  a "caller that cancels its context aborts the run" (`client.go:44`). The client's
  side of requests is not in the model.
- `spent` in `ReportedWhileQuiet`: a release of the barrier reports accepts at most
  `maxQueuedPasses` times, and what is accepted from outside after that waits for
  the run's next event, as the code says (`quarantine.go:492`), which a long tool
  call puts off.
- The put-to-everyone part of `AskIsServed` is stated while no subscriber has
  failed: one that fails on a question keeps it from those after it.

Compaction:

- `late` in `QuarantineReachesFold`: a fold stores the quarantine's generation as
  it is when the fold returns (`compact.go:956`), so an item quarantined while
  it was being made stays in the summary.
- `crossed` in `QuarantineReachesFold`: the transform compares the generation of the quarantine it is
  given with the one it kept (`compact.go:1070`), as one number. Of two agents
  that share it, each counts its own: where one made or checked a fold at its
  count, and another with the same count and other items quarantined sends it,
  the fold is not looked at again, and a summary of an item that the second
  quarantined goes out.
- `without` in `SentIsWhole`: a fold made under one conversation's quarantine has
  left out its items, and another conversation with the same prefix sends that
  fold in place of its own items, quarantined by it or not.
- `displaced` in `BackOffIsKept`: a transform keeps one failed fold, and that of a
  conversation that shares it displaces the other's, which is then asked for
  again. The code says so, "as each forgets the other's", and in the same
  sentence that a shared transform "never sends one the other's fold or skips a
  fold because the other's failed" (`compact.go:400`): of two conversations
  with a common prefix, as forks are, it does both, for the memories are keyed by
  the prefix.
- `persons = 0` in `QuarantineReachesFold`: a person's message that the fold keeps stays in the fold's
  output, which the next fold reads as it is (`compact.go:905`), quarantined or
  not.
- `barred` keeps only what the path's context still holds: Attach quarantines the
  items its writer has (`omit.go:656`), and an item that a recorded fold covers
  is not among them. An agent seeded whole sends it again, or folds it again,
  though it "leaves out what the record says it left out" (`session.go:5291`).

### 4.2 Bounds

- `MaxRuns`, `MaxTurns`: a property about two runs (a stale look, a call that
  is resumed, an item taken by one run and claimed by another) needs two, and
  `agent_resume` has three so that a call deferred by the second is answered by
  the third. Two turns are enough for a drain between turns.
- `MaxFailures = 1`: the code reacts to the first failure of a run by ending
  it; the second failure of an ending run is ignored by `failBatch`, which
  `ToolBatch` allows without a bound.
- `MaxAborts = 1`: a second abort finds the run cancelled, or finds none, as
  the first may.
- Two deliveries are the least that make a mark of one meet a drain made for
  the other. The theorems on marks and on `joined` hold for any number.
- `MaxAttempts = 2` and one fold, which the code makes at most once, give an
  attempt after a retry, after a fold and after both. Three items are the least
  with two calls that share an ID beside a third, and with a call after a
  message after held reasoning.
- Three calls are the least with two parallel calls and a barrier.
- In `agent_delivery` no host prompts (`MaxRuns = 0`): the deliveries start the
  runs. `agent_queues` has a prompt beside a delivery.
- `ToolBatch`, `Control` and `Compaction` start from any of a set of plans,
  `Record`, `Inbox`, `Executor` and `Subagent` from any of a set of budgets: what
  there is to do and how often each fault may come. One run covers them all. A
  plan has the few requests or faults that meet in one question; each fault
  comes once, or twice where the second finds what the first left (two crashes
  around a hand-over, two failed folds).
- `Buffer = 1` and `MaxQueuedPasses = 2` in `control`: a buffer of one is full
  when a second event comes. The source's constant is four (`quarantine.go:521`);
  two, against three accepts from outside, is the least at which a second pass is
  made for an accept during the first and a third is not.
- Two rewinds in `record` and `inbox`: the second is what returns to the branch
  that the first left. Three messages in `executor` with a failure: one leaves a
  steer owed, the next has its redelivery refused or its save torn, the third
  finds what that left.
- Six or eight items and a budget of two or three in `compaction` give two folds,
  the second over the first's summary.

The configurations of `Agent` and `ModelTurn` check for deadlock. `Agent` never
stops: a hold is always possible. `ModelTurn` stops only once the turn has
returned (`Done`). The others do not check: the system stops when its requests
are answered and its plan or budget is spent.

### 4.3 Fairness

`Agent`: weak fairness of the run's goroutine and of the goroutine of each
delivery. These are goroutines that Go schedules when they can run. The
step of the run includes the model's and the tools' answers, which the code
bounds by the run's context only; so `DeliverySettles` is conditional on a model
and tools that return. Nothing is assumed of hosts, aborts, releases of a hold,
or of the reports of queued items.

`ToolBatch`: weak fairness of the loop's goroutine, and of each job's, which
includes that a tool returns. Nothing is assumed of aborts, crashes, updates
and Resumes.

`ModelTurn`: weak fairness of the loop's own steps (`Build`, `Wake`, `Drain`),
and that a stream which sends nothing more fails. The loop has no timeout: it
relies on the server, the transport or an abort to end a silent stream, so
`TurnEnds` is conditional on that. Nothing is assumed of the server's events.

`Executor`: weak fairness of each request's goroutine, which includes that the
agent's run ends. Nothing is assumed of what is sent, of failures and of a
restart.

`Control`: weak fairness of the steps that need nobody else, together: the
holder of the barrier and those that want it, a stream's handler and the client
that reads it. Nothing is assumed of what is sent, asked, lost or failed, nor
that the run raises another event; so `ReportedWhileQuiet`, which is
`(OutsideOwed /\ ~spent) ~> (~OutsideOwed \/ spent)`, holds of a run that is silent
for good, up to the passes of one release of the barrier.

## 5. Proofs

`AgentProofs` proves, for any sets of items and hosts and any bounds, from
`ItemAssumption` (the kinds of items are disjoint) and `ConfigAssumption` (the
bounds are naturals):

- `TypeCorrect`: `Spec => []TypeOK`. `TypeOK` is inductive. Beside types it
  says that the loop never reads the head of an empty inbox or the last entry of
  an empty transcript, and that a failure is resolved before run_end.
- `MarkIsExact`: `Spec => []MarkTracksItem`. The inductive invariant is
  `MarkInv`: for a waiting delivery, beside the equivalence, its mark is at most
  the counter. Without the bound, a drain could make an old mark current again.
  Every step is one of four kinds (nothing moves, an accept, a steer, a drain;
  `StepKinds`), and the induction is over these.
- `JoinedIsTrue`: `Spec => []JoinedWasCarried`. Two invariants carry it.
  `PathInv`: where the loop decides or sends a request, everything it had to
  append is appended. `TakenInv`: an item whose mark is behind `drains` is in
  the run's hands, in a transcript or lost, and one whose mark is behind `seen`
  was carried or lost. The step that needs both is `TurnStart`, which sets
  `seen` to `drains`: the inbox is empty there, so all that was drained is in
  the transcript the request carries.

`ModelTurnProofs` proves, for any servers, answers and number of attempts, from
`TurnAssumption`:

- `RetryLeavesNoTrace`: `Spec => []NoTraceOfRetried`. The inductive invariant
  `AttemptInv` adds that an attempt which has not committed has put nothing in
  the transcript, and that what it holds is its own. `NoTraceOfRetried` alone is
  not inductive: `Wake` and `Fold` count a new call, and only the first part
  says that there is nothing of the old one.
- `BlockedIsEmpty`: `Spec => []BlockedLeavesNothing`, from the same invariant: a
  call on a stream that named its response is reported as blocked only where
  nothing is committed, and ends there.
- `RefusedIsNotResent`: for a policy whose `Retryable` does not accept the
  refusal as too long, `Spec => []RefusedNotResent`. `RefusedInv` adds that
  refused inputs are numbered up to the one in flight, so a rebuilt one is new.
- `GuardStopIsClosed`: `Spec => []WithheldIsClosed`. `WithheldInv` adds that a
  turn which goes on has not been stopped, so that the step which stops it is the
  one that closes its calls, withheld or blocked.
- `CallIDsAreApart`: `Spec => []CallIDIsIdentity` where `BareReuse` is false, as
  it must be (section 4.1). The inductive invariant `IdentityInv` says of a
  stream that the items it opened are the server's in their order (`OpenedInv`),
  that each call among them has an ID which is decided on and is its alone
  (`OwnInv`), that `callAt` is the last call at each index, with its item ID once
  an event gave it, and `callItems` knows a call by it (`SlotInv`), and that what
  is kept and held are calls it completed, each once (`WrittenInv`). `SlotInv` is
  what `output_item.done` needs to find a call's own ID where an index is
  reused. At the end of the stream, `Completing` is the invariant of the loop
  over the response's list in `renameCalls`.

The two loops of `renameCalls` are recursive functions of the position in the
response's list. That such a function is what its steps make of it, and that an
invariant of a step holds of its result, are proved by the least position that
fails (`LeastNat`, `UpTo`, `PairPassSteps`, `CompletedSteps`): `WFMin` is about a
set, so it can be cited, which the library's induction theorems cannot.

`ToolBatchProofs` proves, for any plan of calls, any hook decisions and any
number of runs and crashes, from `BatchAssumption` (a call is kept apart from
others symmetrically and never from itself, each has a replay rule, and the
bounds are naturals):

- `BatchInvariant`: `Spec => []BatchInv`. `BatchInv` is `TypeOK`; `StateInv`, that
  the state of a call goes with its events and the phase of the loop; `OutsInv`,
  that the calls still to run, and the outputs still to append, have no output
  in the transcript; `KnownInv`, that what the agent knows of a call (ran, may
  have run, never started, with which key and arguments) is what happened to it;
  `ApprovedInv`, that a call which may have run is in a batch only where an
  answer said to run it again, or its rule allows it with the arguments and the
  key it has; and `RunAgainIsSafe`, which is inductive with these.
- `CallsAccountedFor` (`CallsAreAccountedFor`) and `RunAgainSafe`
  (`RunAgainIsSafe`) follow from it. The hard step is a Resume after a crash: the
  count of runs is compared with a pending list that the crash made less exact,
  and `KnownInv` says by how much.
- `CallsRunInTurn`: the action property `RunsInTurn`, from the same invariant.

The second half of `AgentProofs` proves the rest of `Agent`'s safety, from the same
assumptions and invariants:

- `QueuesKept`: `Spec => []QueueIsKept`. `PlaceInv` adds to it that an item is once
  in the list it is in, and that the run's transcript and the agent's hold the
  same ones but for the entry whose item_end is being raised. `StopInv`: what a
  run took is appended, or has yet to be, and a request carries it before the
  loop decides on a stop.
- `ItemsNotForgotten`: the action property `NothingForgotten`. `FailInv` and
  `NoneFailed` say that a run drops an item only after a subscriber's error.
- `AbortsHold`: the action property `AbortStopsDelivery`, from `AbortInv`: an abort
  that found a delivery waiting is one its mark does not know of.
- `AgentImplementsMailbox`: the initial states map to Mailbox's, and every step
  maps to a step or a stutter. `AnswerInv`: a delivery has no answer before it is
  done, so that the step which gives it is the one Mailbox answers in.
- `ConversationKept`: `Spec => []ConversationIsWhole`. The property looks at an idle
  agent and at turn_start; its invariants say what holds at every point between.
  `SyncInv`: the agent's transcript is the loop's but for the entry whose item_end
  is being raised, and after run_end it waits for the calls that one leaves open.
  `WholeInv` is about the transcript with what the loop has yet to append
  (`Full`) and the point it then goes on at (`At`): no call has two outputs, no
  entry names a call not yet made, and the open calls are exactly those the loop
  is about to run (`OpenAt`: none before a model call, the approved ones before
  their batch, the turn's own before its batch). Taking the two together is what
  makes it inductive: appending entry by entry changes neither. The steps that
  need it are the starts, where a Resume whose look is not stale splits the open
  calls into those it answers and those it approves, and the drains, after which
  the last entry must be one to answer. The lemmas on lists say what an appended
  list does to the open calls (`OpenCat`, `OpenCall`, `OutputsCat`).

`ExecutorProofs` proves, for any tasks, messages, cancels and budgets, from
`ExecutorAssumption`, with one inductive invariant, `ExecutorInv`:

- `ShapeInv`: how far a request has come goes with what it carries; `HoldInv`: the
  conversation has one holder at a time; `TaskInv`: a task has one execution at
  a time; `AskInv`: unless a run has taken the stored calls up, the caller of the
  task that is waited on knows them, or is about to be told exactly them, from the
  first run saved or message asked after a save was torn (`torn`); `SteerInv`: nothing is owed while a run is on, so that what `Outstanding` leaves
  overwrites nothing; `LateInv`: a message on its way when a cancel took hold can
  only be refused until the cancel has left its mark, and from then on it meets
  the mark, or the mark has been taken.
- `CallsAskedFor` (`OpenCallsAreAskedFor`) rests on `AskInv`, which is not
  inductive alone: the three stores are saved one after another, and only
  `HoldInv` says that nobody reads them between. `CanceledStayCanceled`
  (`CanceledDoesNotRun`) rests on `LateInv`, `SteersServed` (`SteerIsServed`) on
  `SteerInv`, which also has, of each steer dropped, that its own task was given
  up (`GivenUp`).

`SubagentProofs` proves, for any calls, keys and inputs and any number of
hand-offs, crashes, aborts and failed writes, from `SubagentAssumption` (keys are
positive, the first is one of them), with the invariant `SubagentInv`:

- `PhaseInv`: where the call is goes with its child's run and its writer;
  `LogInv`: the hand-offs under the call's key that the log has, less those
  withdrawn, are at least one while the call is in progress, and nothing ran
  under a key that is not yet used; `OnceInv`: while the record is whole, a tool
  that may not repeat has not run under an operation which may yet run it, and
  the record is the child's while the child runs; `HeldInv`: the verdicts on
  held calls, also of a record that a failed write left behind; `InputInv`: what
  is owed is queued.
- `DoneOnce` (`NothingTwice`): the step that needs most is the load of a record.
  A child starts afresh only where the log has one hand-off, and then `OnceInv`
  says that nothing ran under the key, or where its session has no run. This
  needs what an append does to the number of hand-offs (`HandOffsAppend`,
  `NoHandOffs`).
- `HeldRunOnlyAccepted` (`HeldRunsIfAccepted`), also in the runs that the release
  loop goes on with, recorded or not; and `WriterLetGo` (`WriterIsLetGo`), of the
  writer of the last run and of what the earlier ones leave (`kept`).

`RecordProofs` proves, for any calls, replay rules, hook decisions and budgets:

- `MemoryIsTheRecord`: `Spec => []LiveIsSeeded`, from no assumption. The
  property compares the callRecord in memory, which the handlers change a step
  at a time and which a failed write or a withdrawal puts back, with the one
  `CallRecordOf` would read off the path. It is not inductive. `UndoInv` adds
  what the record keeps for a withdrawal: the last dispatch is the run's own,
  and `before` is what it replaced, so that taking it off leaves what the path
  shows without it. `ResultInv`: after a result nothing is dispatched or
  withdrawn, so a withdrawal never meets one. `BranchInv`: the paths that
  rewinds left hold entries of earlier branches alone, so that growing the path
  makes no dispatch on another branch this one's, and each keeps `ResultInv`, for a
  rewind may return to any of them. `CallInv`: where the agent is with a call says whether the
  run may still withdraw it.
- The argument is of a path and a record rather than of the variables: what each
  kind of entry does to a sound record (`DispatchEntry`, `WithdrawEntry`,
  `ResultEntry`, `OutputEntry`, ...), that a handler which wrote none, one or two
  of its entries keeps what the path shows (`HandlerKeeps`), and that a path cut
  by a rewind seeds a sound record (`SeedSound`, `BranchLeft`). What `Last` chooses
  is proved by `WFMin` (`LastIs`).
- `PendingSound`: `Spec => []PendingIsSound`, under `RefusalsKept`. `SaidInv` is
  what the log says of a call that its tool was given: a dispatch of it is on the
  path or on a path left, a reject on the path is of an earlier branch than every
  hand-off, a result means that the tool had it, an output without a decision is
  its own, and the question it waits on is the last asked. `FirmInv` is the same
  of every path left (`Tells`), and that each hand-off stays a dispatch of the log:
  without it a return to a branch left would be to a path of which nothing is
  known. `HeldInv` is the whole. `GivenInv` ties the agent's side to it: where a dispatch is to be
  withdrawn, the tool had the call under another one, if ever.
- `RecordTrue`: `Spec => []RecordIsTrue`, under `RefusalsKept` and `ArgsKept`.
  `ArgsInv`: the arguments the record has decided are those in force on the path,
  and those of a call that is about to be dispatched. `RanInv`: every hand-off is a
  dispatch of the path or of a path left, with its key and arguments, and the
  dispatch that is to be withdrawn is of none.
- `RepeatsSafe`: `Spec => []RepeatsAreSafe`, under `RefusalsKept`, `ArgsKept` and
  `KeysKept`. `OnceInv`: a call that its tool was given stays pending as one that
  may have run, or is done, and is approved by the rule for those alone.
  `LinesInv` and `KeyInv`: the dispatches in the log, the pending call and the
  approval carry the key and the arguments of the first hand-off.
- `RefusalsStand`: `Spec => []RefusalsHold`, under `RefusalsKept`: no call that the
  record refuses or answers is let run by a later decision. The three above are
  proved of every behaviour that has this (`PendingSoundWhile`, ...), and this of
  every budget that gives it. `RefusedInv` follows such a call to its output, on the
  path and from a path left that a rewind returns to.

The three conditions on `Budgets` are what section 4.1 shows to be needed.
`RefusalsKept`: where a hook blocks calls, no other subscriber refuses an event,
and a write fails only if the response has one call. `ArgsKept`: where a write
may fail, hooks rewrite no arguments. `KeysKept`: where another subscriber may
refuse a dispatch, nothing is rewound. The budgets of `record` satisfy them, so
the run and the theorems are of the same sessions.

`InboxProofs` proves, for any inputs, contents and budgets, from `InboxAssumption`
(inputs are finitely many positive numbers, with a content each), with one
inductive invariant, `IndInv`, whose parts are operators of a path, an inbox and a
queue rather than of the variables:

- `Sound`: an input of the inbox that has an entry has one of its own, which the
  path owes and which holds it (`EntriesOK`); what the agent's queue holds is held
  by the inbox or its event is to come, each input once (`BoxInv`).
- `Fit`: what the path and the inbox hold and owe of each content, beside the
  inputs whose event is to come, was submitted. A count at the path's end is not
  inductive: a rewind goes to any earlier entry, where items are fewer and more
  entries are owed, and what the agent holds is written there anew. So the count
  is of every place a rewind may go to, beside the most that is owed at that place
  or after it, of deliveries and of other inputs apart, for the search of a branch
  tells those two apart (`Fits`). At the path's end, what is owed includes the
  inputs of the inbox that are yet to be written (`Owing`).
- `Kept`: unless a failed write was reported, an input without an entry is declined
  or was queued into the agent itself (`LateOK`), and what was acknowledged is an
  item or an input of the inbox that is written (`AckOK`).
- `LeftOK`: `Fit` of every path left, with nothing in the inbox. It is what a return
  starts from (`ReturnFits`): what the agent holds is added to it, and is counted as
  submitted to that branch. A step of the path at the leaf leaves the others as
  they are, and may only add to what was submitted (`LeftKept`).

`AcceptedKept` (`AcceptedIsKept`) and `InboxExact` (`InboxIsExact`) follow. The long
steps are `Rebase`, where inputs alike take the entries of the branch by their
rank, and `Redeliver`, where an input of the inbox becomes another caller's. What
`InOrder` chooses, that it is increasing and reaches each place once, is proved
from cardinalities. An earlier form of the history in `Redeliver` made `NotTwice`
false with three deliveries alike, two of them with the agent, which is more than
the run has: the proof of that step showed it.

`ControlProofs` proves, for any plans of requests, questions, streams and faults,
any buffer and any bound on the passes of `unlockEmit`, from `PlansOK`:

- `QuestionsAreServed`: `Spec => []AskIsServed`. `BarrierInv` says who holds the
  barrier (`HoldInv`: the goroutine that is at `hold`, with one event of its own
  and reports) and which events a goroutine may raise (`DueInv`). `QuestionInv`
  adds where an asking call is and what Reply made of its question (`AskInv`),
  and, of each stream, what it was called with and what the delivery under way
  will call it with (`Gets`): a question is in neither before its event is
  dispatched, its close in neither until then, and once each, in that order
  (`ShownInv`); while no subscriber has failed, a question that waits is got, or owed
  as a replay, by everyone who subscribes (`ServedInv`). The hard step is a dispatch, which takes the replays
  of all subscribers in one step with its own event: `CallsForIs` says what the
  flattened list of calls holds, each once and the event last for each stream.
- `ReportsAreMade`: `Spec => []AllIsReported`. `ReportsInv` follows a report on its
  way: an item the run has steered, taken or is about to append is still queued,
  or the recorder was told of it or will be by the delivery under way, ahead of
  the item's event (`ReportInv`); a quarantined one was told, is on its way, is
  owed, or belongs to a run whose end is to come or names it (`QuarInv`, and
  `EndInv`: a run that ends has marked it); and while something is owed, somebody
  holds the barrier or has yet to look (`OwedInv`). That last part is why no
  report is stranded: a goroutine that finds the barrier taken may leave, since
  its holder looks again as it lets go. A failing subscriber is outside the
  property, as in the run.

`TypeOK` of `Agent`, `BlockedLeavesNothing`, `RefusedNotResent` and the inductive
invariants are proved and no run repeats them; TLC checked each invariant on the
instance of its run before it was proved.

Only model-checked:

- liveness (`DeliverySettles`, `BatchEnds`, `TurnEnds`, `ConversationFrees`, and
  the liveness parts of `ReportedWhileQuiet` and `StreamIsWhole`), which this prover
  does not reach;
- `AnswerIsTheCalls`, which is false in general (section 4.1) and holds on the
  instance of `subagent`;
- `BatchIsAnswer` of `ModelTurn`, which counts the calls of two sequences that
  are filtered and sorted, and is about what the pairing finds, not only that it
  keeps IDs apart;
- all of `Compaction`, for which no inductive invariant has been worked out yet.

## 6. Not modelled

- Planned (section 2): notes; nested calls and their replay; the chain of hooks;
  the handoff team; the relayed run of front/responses; remote A2A tasks
  (tools/a2a).
- Of the agent: the setters of an idle agent but the trim by SetTranscript; the
  attribution of items; the revision of a transcript and the reasoning of other
  models in a request; items streamed in part.
- Of the recorder: media and sidecars, callees, env entries, moves between
  stores, StartChild, ContinueChild and spawned sessions, copies of another
  session's calls, and earlier formats of the log. The log's own library is
  external: an append is atomic and durable or fails.
- Of the quarantine: Bind and Merge of sets shared between agents, and call IDs
  that a provider uses again.
- Of the A2A front: the minute after which a cancel's mark is dropped,
  artifacts, calls a policy holds beside others, and authentication.
- Of the control front: the client's side of requests other than streams, the
  outcome of a delivery (which is `Agent`'s), the codec, authentication, and the
  reads of state.
- Of compaction: how tokens are estimated and how a summary is worded; an append
  that fails as an omit setting is written.
- The declarations of events, configurations and items, wire codecs, hashing,
  conversion and authentication are data without a protocol of their own and
  stay out.
