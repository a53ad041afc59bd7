------------------------------- MODULE Control -------------------------------
(***************************************************************************)
(* The human plane of an agent: the requests and the event stream that     *)
(* front/control serves over HTTP, and the part of the agent they meet,    *)
(* its delivery barrier (emitMu), the reports of what it accepted and      *)
(* quarantined, and the questions a running call asks and Reply answers.   *)
(*                                                                         *)
(* One run is started by a prompt request.  Every goroutine that delivers  *)
(* events is a process: the run, each asking call, each accept that        *)
(* reports itself, each quarantine, each replay to a new subscriber.  The  *)
(* barrier is `hold', the delivery under way: the events it has still to   *)
(* dispatch and the subscribers it has still to call for the current one.  *)
(* The lock mu is not a variable: what the code does under it is one step. *)
(*                                                                         *)
(* Subscription 0 is an in-process recorder, first in the list, which may  *)
(* fail; the others are the streams one remote client opens, one after     *)
(* another.  Requests are numbered; a queued item, a quarantined one and   *)
(* an answer are named by the request that brought them.  A delivery,      *)
(* which module Agent follows to its outcome, is here the steer it begins  *)
(* with.                                                                   *)
(***************************************************************************)
EXTENDS Integers, Sequences, FiniteSets, SequencesExt

CONSTANTS
    Plans,        \* what a behaviour may hold: records of the fields below
    Buffer,       \* WithEventBuffer: the frames a stream may fall behind
    MaxQueuedPasses  \* maxQueuedPasses of unlockEmit

\* A plan: kinds, the requests and what each asks for; asks, the number of
\* questions; steps, the run's own events; connects, the streams the client
\* opens; losses, the streams that break; fails, the events the recorder
\* fails on.
Kinds == {"prompt", "queue", "inside", "abort", "reply", "quarantine"}

ASSUME PlansOK ==
    \A p \in Plans :
        /\ p.kinds \in Seq(Kinds)
        /\ {p.asks, p.steps, p.connects, p.losses, p.fails} \subseteq Nat

ASSUME BoundsOK == Buffer \in Nat \ {0} /\ MaxQueuedPasses \in Nat \ {0}

VARIABLES
    plan,
    \* the agent, under mu
    running, runEnded, aborted, steer, queued, queuedErr, quarantine,
    quarantineOwed, asks, waiting, replays, subs,
    \* the barrier, the goroutines, the run's own state, the questions'
    hold, at, due, err, passes, taken, steps, reply, cancelled, result,
    \* the streams, and which one the client reads and what it has of it
    stream, cur, seen, opened,
    \* the requests: the handler's place and the answer it wrote
    req,
    \* what happened: the items the recorder was told of as queued and as
    \* quarantined, faults, and whether a release of the barrier gave up
    \* with an accept from outside owed
    reported, told, losses, fails, spent

agentVars == <<running, runEnded, aborted, steer, queued, queuedErr>>
quarVars == <<quarantine, quarantineOwed>>
askVars == <<asks, waiting, replays, subs>>
goVars == <<at, due, err, passes>>
runVars == <<taken, steps>>
questVars == <<reply, cancelled, result>>
streamVars == <<stream, cur, seen, opened>>
pastVars == <<reported, told, losses, fails, spent>>
vars == <<plan, agentVars, quarVars, askVars, hold, goVars, runVars,
          questVars, streamVars, req, pastVars>>

-----------------------------------------------------------------------------
Reqs == DOMAIN plan.kinds
Asks == 1..plan.asks
Streams == 1..plan.connects
Goroutines == {<<"run", 0>>} \cup ({"ask"} \X Asks)
              \cup ({"report", "quarantine"} \X Reqs)
              \cup ({"replay"} \X Streams)

Ev(k, n) == [k |-> k, n |-> n]
NoEvent == Ev("none", 0)
Free == [g |-> <<"none", 0>>]

\* An accept is from outside the subscribers unless the recorder made it.
Outside(r) == plan.kinds[r] # "inside"

\* A stream: the handler's frames and whether they overflowed, its place,
\* what is on the wire, whether the connection is gone; got is what its
\* subscription was called with.
NoStream == [frames |-> <<>>, behind |-> FALSE, h |-> "none", wire |-> <<>>,
             gone |-> FALSE, got |-> <<>>]

NoRequest == [spc |-> "none", resp |-> "none"]

Init ==
    /\ plan \in Plans
    /\ running = FALSE /\ runEnded = FALSE /\ aborted = FALSE
    /\ steer = <<>> /\ queued = <<>> /\ queuedErr = FALSE
    /\ quarantine = {} /\ quarantineOwed = <<>>
    /\ asks = {} /\ waiting = <<>> /\ replays = [s \in Streams |-> <<>>]
    /\ subs = <<0>>
    /\ hold = Free /\ at = [g \in Goroutines |-> "none"]
    /\ due = [g \in Goroutines |-> NoEvent]
    /\ err = [g \in Goroutines |-> FALSE] /\ passes = [g \in Goroutines |-> 0]
    /\ taken = <<>> /\ steps = 0
    /\ reply = [q \in Asks |-> 0] /\ cancelled = [q \in Asks |-> FALSE]
    /\ result = [q \in Asks |-> "none"]
    /\ stream = [s \in Streams |-> NoStream] /\ cur = 0 /\ seen = <<>>
    /\ opened = 0
    /\ req = [r \in Reqs |-> NoRequest]
    /\ reported = {} /\ told = {} /\ losses = 0 /\ fails = 0
    /\ spent = FALSE

-----------------------------------------------------------------------------
(* The delivery barrier.                                                   *)

Reports(items) == [i \in DOMAIN items |-> Ev("queued", items[i])]

\* queuedOwed: a run in flight has accepts to report outside its events.
QueuedOwed == running /\ ~runEnded /\ queued # <<>> /\ ~queuedErr

\* A goroutine that takes the barrier, with the stages it has to do under
\* it; pass says that it is one of unlockEmit's.
Held(g, todo, pass) ==
    [g |-> g, todo |-> todo, stage |-> "none", evs |-> <<>>, calls |-> <<>>,
     list |-> {}, pass |-> pass, err |-> FALSE]

\* deliver: what was accepted is reported first, and a quarantine made while
\* the event was delivered after it; after run_end there is no other event.
DeliverStages(e) ==
    <<"reports", "event", "quarantine">>
    \o (IF e.k = "end" THEN <<"reports">> ELSE <<>>)

\* deliver with the barrier free: a report's error that was kept is the
\* event's, unless the event is run_end.
Enter(g) ==
    /\ at[g] = "enter" /\ hold = Free /\ g[1] # "replay"
    /\ queuedErr' = FALSE /\ passes' = [passes EXCEPT ![g] = 0]
    /\ IF queuedErr /\ due[g].k # "end"
       THEN /\ err' = [err EXCEPT ![g] = TRUE]
            /\ at' = [at EXCEPT ![g] = "recheck"]
            /\ UNCHANGED hold
       ELSE /\ hold' = Held(g, DeliverStages(due[g]), FALSE)
            /\ at' = [at EXCEPT ![g] = "hold"]
            /\ err' = [err EXCEPT ![g] = FALSE]
    /\ UNCHANGED <<plan, running, runEnded, aborted, steer, queued,
                   quarVars, askVars, due, runVars, questVars, streamVars,
                   req, pastVars>>

\* flushReplay: the questions a new subscriber is owed, unless an event has
\* carried them to it.
FlushReplay(s) ==
    LET g == <<"replay", s>> IN
    /\ at[g] = "enter" /\ hold = Free
    /\ hold' = [Held(g, <<>>, FALSE)
                EXCEPT !.calls = [i \in DOMAIN replays[s] |->
                                     <<s, Ev("question", replays[s][i])>>]]
    /\ replays' = [replays EXCEPT ![s] = <<>>]
    /\ at' = [at EXCEPT ![g] = "hold"]
    /\ UNCHANGED <<plan, agentVars, quarVars, asks, waiting, subs, due, err,
                   passes, runVars, questVars, streamVars, req, pastVars>>

\* What a stage has to dispatch: drainQueued's reports, the event itself,
\* flushQuarantine's, and flushQueued's, for a run in flight alone.
Stage(n) ==
    CASE n = "reports" -> Reports(queued)
      [] n = "event" -> <<due[hold.g]>>
      [] n = "quarantine" -> [i \in DOMAIN quarantineOwed |->
                                 Ev("added", quarantineOwed[i])]
      [] n = "flush" -> IF QueuedOwed THEN Reports(queued) ELSE <<>>

\* The stages left that have something to dispatch now.
Rest(todo) ==
    LET some == {i \in DOMAIN todo : Stage(todo[i]) # <<>>}
    IN  IF some = {} THEN <<>> ELSE SubSeq(todo, Min(some), Len(todo))

\* takeReplays and the snapshot of the subscribers: the calls one event
\* makes, each subscriber's owed questions before it.
CallsFor(e) ==
    FlattenSeq([i \in DOMAIN subs |->
        LET s == subs[i]
            owed == IF s = 0 THEN <<>> ELSE replays[s]
        IN  [j \in DOMAIN owed |-> <<s, Ev("question", owed[j])>>]
            \o << <<s, e>> >>])

\* The questions owed left for flushReplay to send again.
TakeNoReplays == replays

TakeReplays == [s \in Streams |-> IF s \in Range(subs) THEN <<>> ELSE replays[s]]

\* dispatch: the state an event moves and the snapshot, one step under mu;
\* a RunEnd's list of quarantined items is taken as the end is marked.
Dispatch(e, evs, todo, stage) ==
    /\ hold' = [hold EXCEPT !.evs = evs, !.todo = todo, !.stage = stage,
                            !.calls = CallsFor(e),
                            !.list = IF e.k = "end" THEN quarantine ELSE @]
    /\ replays' = TakeReplays
    /\ waiting' = CASE e.k = "question" -> Append(waiting, e.n)
                    [] e.k = "closed" -> RemoveFirst(waiting, e.n)
                    [] OTHER -> waiting
    /\ runEnded' = CASE e.k = "start" -> FALSE
                     [] e.k = "end" -> TRUE
                     [] OTHER -> runEnded
    /\ UNCHANGED <<plan, running, aborted, steer, queuedErr, quarantine, asks,
                   subs, goVars, runVars, questVars, streamVars, req, reported,
                   told, losses, fails>>

\* The next event of a stage, or the first of the next stage that has one,
\* what that stage reports taken as it begins.
NextEvent ==
    /\ hold # Free /\ hold.calls = <<>> /\ hold.evs # <<>>
    /\ Dispatch(Head(hold.evs), Tail(hold.evs), hold.todo, hold.stage)
    /\ UNCHANGED <<queued, quarantineOwed, spent>>

NextStage ==
    /\ hold # Free /\ hold.calls = <<>> /\ hold.evs = <<>>
    /\ LET todo == Rest(hold.todo) IN
       /\ todo # <<>>
       /\ LET evs == Stage(Head(todo))
          IN  Dispatch(Head(evs), Tail(evs), Tail(todo), Head(todo))
       /\ IF Head(todo) \in {"reports", "flush"}
          THEN queued' = <<>> /\ spent' = FALSE
          ELSE UNCHANGED <<queued, spent>>
       /\ quarantineOwed' = IF Head(todo) = "quarantine" THEN <<>>
                            ELSE quarantineOwed

\* The recorder takes an event: what it was told of as queued, and as
\* quarantined.
Record(e) ==
    /\ reported' = IF e.k = "queued" THEN reported \cup {e.n} ELSE reported
    /\ told' = told \cup (IF e.k = "end" THEN hold.list
                          ELSE IF e.k = "added" THEN {e.n} ELSE {})
    /\ UNCHANGED stream

\* The handler's subscriber: the frame is queued, or the stream is behind.
Framed(x, e) ==
    IF Len(x.frames) < Buffer
    THEN [x EXCEPT !.got = Append(@, e), !.frames = Append(@, e)]
    ELSE [x EXCEPT !.got = Append(@, e), !.behind = TRUE]

\* dispatch calls a subscriber, without mu.
Call ==
    /\ hold # Free /\ hold.calls # <<>>
    /\ LET s == Head(hold.calls)[1]
           e == Head(hold.calls)[2]
       IN  \/ s = 0 /\ Record(e)
           \/ /\ s # 0 /\ stream' = [stream EXCEPT ![s] = Framed(@, e)]
              /\ UNCHANGED <<reported, told>>
    /\ hold' = [hold EXCEPT !.calls = Tail(@)]
    /\ UNCHANGED <<plan, agentVars, quarVars, askVars, goVars, runVars,
                   questVars, cur, seen, opened, req, losses, fails, spent>>

\* A subscriber's error ends the delivery, those after it not called; on a
\* report made outside the run's events it is kept for the next event.
CallFails ==
    /\ hold # Free /\ hold.calls # <<>> /\ Head(hold.calls)[1] = 0
    /\ fails < plan.fails /\ fails' = fails + 1
    /\ LET kept == hold.stage = "flush" IN
       /\ queuedErr' = (queuedErr \/ kept)
       /\ hold' = [hold EXCEPT !.calls = <<>>, !.evs = <<>>, !.todo = <<>>,
                               !.err = ~kept]
    /\ UNCHANGED <<plan, running, runEnded, aborted, steer, queued,
                   quarVars, askVars, goVars, runVars, questVars, streamVars,
                   req, reported, told, losses, spent>>

\* The barrier is let go.  The goroutine looks again for what came while it
\* held it (unlockEmit), except after a quarantine's report failed there.
Leave ==
    /\ hold # Free
    /\ hold.calls = <<>> /\ hold.evs = <<>> /\ Rest(hold.todo) = <<>>
    /\ hold' = Free
    /\ at' = [at EXCEPT ![hold.g] = IF hold.pass /\ hold.err
                                    THEN "back" ELSE "recheck"]
    /\ err' = [err EXCEPT ![hold.g] =
                  @ \/ (hold.err /\ hold.g[1] \in {"run", "ask"})]
    /\ UNCHANGED <<plan, agentVars, quarVars, askVars, due, passes, runVars,
                   questVars, streamVars, req, pastVars>>

\* A release of the barrier that looks for nothing.
NoPass(g) == FALSE

\* A run in flight owes the report of an item accepted from outside.
OutsideOwed == QueuedOwed /\ \E i \in DOMAIN queued : Outside(queued[i])

\* unlockEmit, after the unlock: a pass for the quarantines owed, and for
\* the accepts of a run in flight, while an accept from outside is owed or
\* it is the first, up to a bound.  What is owed and whether the barrier is
\* free are looked at in one step: a holder that takes it in between looks
\* in its turn as it lets go.
PassOwed(g) ==
    /\ QueuedOwed /\ passes[g] < MaxQueuedPasses
    /\ passes[g] = 0 \/ OutsideOwed

UnlockEmit(g) ==
    /\ at[g] = "recheck"
    /\ IF (quarantineOwed # <<>> \/ PassOwed(g)) /\ hold = Free
       THEN /\ hold' = Held(g, <<"quarantine">> \o
                               (IF PassOwed(g) THEN <<"flush">> ELSE <<>>), TRUE)
            /\ passes' = [passes EXCEPT ![g] = @ + (IF PassOwed(g) THEN 1 ELSE 0)]
            /\ at' = [at EXCEPT ![g] = "hold"] /\ UNCHANGED spent
       ELSE /\ at' = [at EXCEPT ![g] = "back"]
            /\ passes' = [passes EXCEPT ![g] = 0] /\ UNCHANGED hold
            /\ spent' = (spent \/ (OutsideOwed /\ passes[g] = MaxQueuedPasses))
    /\ UNCHANGED <<plan, agentVars, quarVars, askVars, due, err, runVars,
                   questVars, streamVars, req, reported, told, losses, fails>>

\* reportQueued: an accept reports itself when the barrier is free, and
\* otherwise leaves it to the delivery under way.
ReportQueued(r) ==
    LET g == <<"report", r>> IN
    /\ at[g] = "accepted"
    /\ IF QueuedOwed /\ hold = Free
       THEN hold' = Held(g, <<"flush">>, FALSE) /\ at' = [at EXCEPT ![g] = "hold"]
       ELSE at' = [at EXCEPT ![g] = "back"] /\ UNCHANGED hold
    /\ UNCHANGED <<plan, agentVars, quarVars, askVars, due, err, passes,
                   runVars, questVars, streamVars, req, pastVars>>

\* A quarantine that takes the run's end for still to come.
ReportsIdle == ~running

\* Agent.Quarantine: the run's events carry an item quarantined while it is
\* active; another is owed, and reported at once when the barrier is free.
ReportsItself == ~running \/ runEnded

QuarantineAdd(r) ==
    /\ plan.kinds[r] = "quarantine" /\ at[<<"quarantine", r>>] = "none"
    /\ quarantine' = quarantine \cup {r}
    /\ quarantineOwed' = IF ReportsItself THEN Append(quarantineOwed, r)
                         ELSE quarantineOwed
    /\ at' = [at EXCEPT ![<<"quarantine", r>>] =
                 IF ReportsItself THEN "owed" ELSE "back"]
    /\ UNCHANGED <<plan, agentVars, askVars, hold, due, err, passes, runVars,
                   questVars, streamVars, req, pastVars>>

QuarantineReport(r) ==
    LET g == <<"quarantine", r>> IN
    /\ at[g] = "owed"
    /\ IF hold = Free
       THEN /\ hold' = Held(g, <<"quarantine">>, FALSE)
            /\ at' = [at EXCEPT ![g] = "hold"]
       ELSE at' = [at EXCEPT ![g] = "back"] /\ UNCHANGED hold
    /\ UNCHANGED <<plan, agentVars, quarVars, askVars, due, err, passes,
                   runVars, questVars, streamVars, req, pastVars>>

-----------------------------------------------------------------------------
(* The run.                                                                *)

Run == <<"run", 0>>

Raise(g, e) == at' = [at EXCEPT ![g] = "enter"] /\ due' = [due EXCEPT ![g] = e]

RunLeavesAlone ==
    UNCHANGED <<plan, runEnded, queued, queuedErr, quarVars, askVars, hold,
                err, passes, questVars, streamVars, pastVars>>

\* Between two events the run appends what it took, one item_end each, takes
\* what was steered, or raises an event of its own.
Between == at[Run] = "back" /\ due[Run].k # "end"

RunAppends ==
    /\ Between /\ ~err[Run]
    /\ taken # <<>> /\ taken' = Tail(taken)
    /\ Raise(Run, Ev("item", Head(taken)))
    /\ UNCHANGED <<running, aborted, steer, steps, req>> /\ RunLeavesAlone

RunDrains ==
    /\ Between /\ ~err[Run] /\ taken = <<>>
    /\ steer # <<>> /\ taken' = steer /\ steer' = <<>>
    /\ UNCHANGED <<running, aborted, at, due, steps, req>> /\ RunLeavesAlone

RunStep ==
    /\ Between /\ ~err[Run] /\ ~aborted /\ taken = <<>>
    /\ steps < plan.steps /\ steps' = steps + 1
    /\ Raise(Run, Ev("step", steps + 1))
    /\ UNCHANGED <<running, aborted, steer, taken, req>> /\ RunLeavesAlone

\* The run decides to end, past its last drain: it took everything, was
\* aborted, or an event of its failed.
RunEnds ==
    /\ Between
    /\ err[Run] \/ (taken = <<>> /\ (aborted \/ steer = <<>>))
    /\ Raise(Run, Ev("end", 0))
    /\ taken' = <<>>
    /\ UNCHANGED <<running, aborted, steer, steps, req>> /\ RunLeavesAlone

\* The run is over; the prompt's handler writes its end (writeRun).
RunOver ==
    /\ at[Run] = "back" /\ due[Run].k = "end"
    /\ running' = FALSE
    /\ at' = [at EXCEPT ![Run] = "none"]
    /\ due' = [due EXCEPT ![Run] = NoEvent]
    /\ req' = [r \in Reqs |->
                  IF req[r].spc = "running"
                  THEN [req[r] EXCEPT !.spc = "written",
                                      !.resp = IF aborted THEN "aborted" ELSE "end"]
                  ELSE req[r]]
    /\ UNCHANGED <<aborted, steer, runVars>> /\ RunLeavesAlone

-----------------------------------------------------------------------------
(* Questions: Agent.ask and Agent.Reply.                                   *)

Asker(q) == <<"ask", q>>

AskLeavesAlone ==
    UNCHANGED <<plan, agentVars, quarVars, waiting, replays, subs, hold, err,
                passes, runVars, streamVars, req, pastVars>>

\* A call of the run asks: registered for Reply, then delivered.
Ask(q) ==
    /\ at[Asker(q)] = "none" /\ running
    /\ IF cancelled[q]
       THEN /\ at' = [at EXCEPT ![Asker(q)] = "done"]
            /\ result' = [result EXCEPT ![q] = "gone"]
            /\ UNCHANGED <<asks, due>>
       ELSE asks' = asks \cup {q} /\ Raise(Asker(q), Ev("question", q))
            /\ UNCHANGED result
    /\ UNCHANGED <<reply, cancelled>> /\ AskLeavesAlone

\* Delivered, it waits; a subscriber that failed on it gives it up.
Asked(q) ==
    /\ at[Asker(q)] = "back" /\ due[Asker(q)].k = "question"
    /\ at' = [at EXCEPT ![Asker(q)] = IF err[Asker(q)] THEN "giveup" ELSE "wait"]
    /\ UNCHANGED <<asks, due, questVars>> /\ AskLeavesAlone

\* The select of a waiting ask: the reply, or the end of its context, in
\* either order when both are there.
Answered(q) ==
    /\ at[Asker(q)] = "wait" /\ reply[q] # 0
    /\ result' = [result EXCEPT ![q] = "answered"]
    /\ Raise(Asker(q), Ev("closed", q))
    /\ UNCHANGED <<asks, reply, cancelled>> /\ AskLeavesAlone

ContextDone(q) ==
    /\ at[Asker(q)] = "wait" /\ cancelled[q]
    /\ at' = [at EXCEPT ![Asker(q)] = "giveup"]
    /\ UNCHANGED <<asks, due, questVars>> /\ AskLeavesAlone

\* Given up, unless a reply won the race.
GivenUp(q) == IF q \in asks THEN "gone" ELSE "answered"

GiveUp(q) ==
    /\ at[Asker(q)] = "giveup"
    /\ asks' = asks \ {q}
    /\ result' = [result EXCEPT ![q] = GivenUp(q)]
    /\ Raise(Asker(q), Ev("closed", q))
    /\ UNCHANGED <<reply, cancelled>> /\ AskLeavesAlone

\* ask returns once its close was delivered, whatever became of it.
AskReturns(q) ==
    /\ at[Asker(q)] = "back" /\ due[Asker(q)].k = "closed"
    /\ at' = [at EXCEPT ![Asker(q)] = "done"]
    /\ UNCHANGED <<asks, due, questVars>> /\ AskLeavesAlone

-----------------------------------------------------------------------------
(* The requests: Client's methods and the handler's.                       *)

\* A request arrives.
Arrives(r, kind) ==
    /\ plan.kinds[r] = kind /\ req[r].spc = "none"
    /\ UNCHANGED <<plan, runEnded, quarVars, waiting, replays, subs, hold,
                   passes, runVars, result, streamVars, reported, told,
                   losses, fails>>

Answers(r, spc, word) ==
    req' = [req EXCEPT ![r].spc = spc, ![r].resp = word]

\* guard: a request that is not authenticated, or whose principal lacks the
\* scope, and decode: one whose body cannot be read, change nothing.
Refused(r, word) ==
    /\ Arrives(r, "prompt") /\ Answers(r, "written", word)
    /\ UNCHANGED <<agentVars, asks, at, due, err, questVars, spent>>

Guard(r) == Refused(r, "forbidden")

Decode(r) == Refused(r, "malformed")

\* Prompt runs apart from the request's cancellation, and is refused while a
\* run is active.
Prompt(r) ==
    /\ Arrives(r, "prompt")
    /\ IF running
       THEN /\ Answers(r, "written", "busy")
            /\ UNCHANGED <<running, aborted, queuedErr, at, due, err>>
       ELSE /\ running' = TRUE /\ aborted' = FALSE /\ queuedErr' = FALSE
            /\ Raise(Run, Ev("start", 0)) /\ err' = [err EXCEPT ![Run] = FALSE]
            /\ Answers(r, "running", "none")
    /\ UNCHANGED <<steer, queued, asks, reply, cancelled, spent>>

\* queue of the agent: the item is steered and its report owed; the caller
\* goes on to report it.
Enqueue(r) ==
    /\ steer' = Append(steer, r) /\ queued' = Append(queued, r)
    /\ at' = [at EXCEPT ![<<"report", r>>] = "accepted"]
    /\ spent' = FALSE
    /\ UNCHANGED <<running, aborted, queuedErr, asks, due, err, reply, cancelled>>

Queue(r) == Arrives(r, "queue") /\ Enqueue(r) /\ Answers(r, "written", "ok")

\* AbortCause: the run in flight and what it called are cancelled.
Cancels ==
    /\ aborted' = (aborted \/ running)
    /\ cancelled' = [q \in Asks |-> cancelled[q] \/ running]
    /\ UNCHANGED <<running, steer, queued, queuedErr, asks, at, due, err, reply,
                   spent>>

Abort(r) == Arrives(r, "abort") /\ Cancels /\ Answers(r, "written", "ok")

\* Agent.Reply: one reply takes the question; another finds none waiting.
TakeReply(r, q) ==
    IF q \in asks
    THEN asks' = asks \ {q} /\ reply' = [reply EXCEPT ![q] = r]
    ELSE UNCHANGED <<asks, reply>>

Reply(r, q) ==
    /\ Arrives(r, "reply") /\ at[Asker(q)] # "none"
    /\ TakeReply(r, q)
    /\ Answers(r, "written", IF q \in asks THEN "ok" ELSE "noquestion")
    /\ UNCHANGED <<running, aborted, steer, queued, queuedErr, at, due, err,
                   cancelled, spent>>

\* The recorder queues an item while it is called for an event.
AcceptInside(r) ==
    /\ hold # Free /\ hold.calls # <<>> /\ Head(hold.calls)[1] = 0
    /\ Arrives(r, "inside") /\ Answers(r, "written", "ok")
    /\ steer' = Append(steer, r) /\ queued' = Append(queued, r)
    /\ UNCHANGED <<running, aborted, queuedErr, asks, at, due, err, reply,
                   cancelled, spent>>

-----------------------------------------------------------------------------
(* The event stream: the handler's events and the client's follow.         *)

StreamLeavesAlone ==
    UNCHANGED <<plan, agentVars, quarVars, asks, waiting, hold, due, err,
                passes, runVars, questVars, req, reported, told, fails, spent>>

\* A step of a handler that touches its own stream alone.
Handles(s, x) ==
    /\ stream' = [stream EXCEPT ![s] = x]
    /\ UNCHANGED <<cur, seen, opened, losses, subs, replays, at>>
    /\ StreamLeavesAlone

\* Agent.Subscribe owes a newcomer the questions that wait.
Subscribe(s) ==
    /\ subs' = Append(subs, s)
    /\ replays' = [replays EXCEPT ![s] = waiting]
    /\ at' = IF waiting = <<>> THEN at
             ELSE [at EXCEPT ![<<"replay", s>>] = "enter"]

\* GET /events: the client opens a stream, and the handler subscribes.
Connect ==
    LET s == opened + 1 IN
    /\ cur = 0 /\ opened < plan.connects
    /\ opened' = s /\ cur' = s /\ seen' = <<>>
    /\ Subscribe(s)
    /\ stream' = [stream EXCEPT ![s].h = "ready"]
    /\ UNCHANGED losses /\ StreamLeavesAlone

\* The outcomes of a frame written: on a connection that is gone it vanishes
\* or fails.
Written(x, e, next) ==
    IF x.gone THEN {[x EXCEPT !.h = next], [x EXCEPT !.h = "leaving"]}
    ELSE {[x EXCEPT !.h = next, !.wire = Append(@, e)]}

Ready(s) ==
    /\ stream[s].h = "ready"
    /\ \E x \in Written(stream[s], Ev("ready", 0), "loop") : Handles(s, x)

\* The loop's select, in any order of what is ready; a frame taken is
\* followed by those queued behind it (drain).
NextFrame(s) ==
    LET y == stream[s] IN
    /\ y.h \in {"loop", "drain", "cut"} /\ y.frames # <<>>
    /\ \E x \in Written([y EXCEPT !.frames = Tail(@)], Head(y.frames),
                        IF y.h = "loop" THEN "drain" ELSE y.h) : Handles(s, x)

Drained(s) ==
    /\ stream[s].h = "drain" /\ stream[s].frames = <<>>
    /\ Handles(s, [stream[s] EXCEPT !.h = "loop"])

\* A loop that does not look whether the stream fell behind.
FellBehindLate(s) == FALSE

FellBehind(s) ==
    /\ stream[s].h = "loop" /\ stream[s].behind
    /\ Handles(s, [stream[s] EXCEPT !.h = "cut"])

Overflow(s) ==
    /\ stream[s].h = "cut" /\ stream[s].frames = <<>>
    /\ \E x \in Written(stream[s], Ev("overflow", 0), "leaving") : Handles(s, x)

RequestDone(s) ==
    /\ stream[s].h = "loop" /\ stream[s].gone
    /\ Handles(s, [stream[s] EXCEPT !.h = "leaving"])

\* The handler returns: unsubscribed, and what the stream was owed dropped.
Unsubscribe(s) ==
    /\ stream[s].h = "leaving"
    /\ stream' = [stream EXCEPT ![s].h = "ended", ![s].frames = <<>>]
    /\ subs' = RemoveFirst(subs, s)
    /\ replays' = [replays EXCEPT ![s] = <<>>]
    /\ UNCHANGED <<cur, seen, opened, losses, at>> /\ StreamLeavesAlone

LoseStream(s) ==
    /\ cur = s /\ ~stream[s].gone
    /\ losses < plan.losses /\ losses' = losses + 1
    /\ stream' = [stream EXCEPT ![s].gone = TRUE]
    /\ UNCHANGED <<cur, seen, opened, subs, replays, at>> /\ StreamLeavesAlone

\* The client's stream breaks on an overflow or at the connection's end,
\* which is reported before the next is opened (follow).
Breaks == cur' = 0 /\ seen' = <<>>

ReadFrame ==
    /\ cur # 0 /\ stream[cur].wire # <<>>
    /\ LET e == Head(stream[cur].wire) IN
       \/ e.k = "overflow" /\ Breaks
       \/ e.k = "ready" /\ UNCHANGED <<cur, seen>>
       \/ /\ e.k \notin {"overflow", "ready"}
          /\ seen' = Append(seen, e) /\ UNCHANGED cur
    /\ stream' = [stream EXCEPT ![cur].wire = Tail(@)]
    /\ UNCHANGED <<opened, losses, subs, replays, at>> /\ StreamLeavesAlone

StreamBreaks ==
    /\ cur # 0
    /\ \/ stream[cur].gone
       \/ stream[cur].h = "ended" /\ stream[cur].wire = <<>>
    /\ Breaks
    /\ stream' = [stream EXCEPT ![cur].wire = <<>>]
    /\ UNCHANGED <<opened, losses, subs, replays, at>> /\ StreamLeavesAlone

-----------------------------------------------------------------------------
BarrierStep ==
    \/ NextEvent \/ NextStage \/ Call \/ Leave
    \/ \E g \in Goroutines : Enter(g) \/ UnlockEmit(g)
    \/ \E s \in Streams : FlushReplay(s)
    \/ \E r \in Reqs : ReportQueued(r) \/ QuarantineReport(r)

RunNext ==
    RunAppends \/ RunDrains \/ RunStep \/ RunEnds \/ RunOver

AskNext(q) ==
    Asked(q) \/ Answered(q) \/ ContextDone(q) \/ GiveUp(q) \/ AskReturns(q)

Served(r) ==
    \/ Guard(r) \/ Decode(r) \/ Prompt(r) \/ Queue(r) \/ Abort(r)
    \/ \E q \in Asks : Reply(r, q)

StreamStep(s) ==
    \/ Ready(s) \/ NextFrame(s) \/ Drained(s) \/ FellBehind(s) \/ Overflow(s)
    \/ RequestDone(s) \/ Unsubscribe(s)

ClientStep == ReadFrame \/ StreamBreaks

Next ==
    \/ BarrierStep \/ CallFails \/ RunNext
    \/ \E q \in Asks : Ask(q) \/ AskNext(q)
    \/ \E r \in Reqs : Served(r) \/ AcceptInside(r) \/ QuarantineAdd(r)
    \/ Connect \/ ClientStep
    \/ \E s \in Streams : StreamStep(s) \/ LoseStream(s)

\* While a goroutine that needs nobody else can run, one does: the one that
\* holds the barrier and those that want it, a stream's handler, and the
\* client that reads its stream.  Nothing is assumed of
\* what is sent, asked, lost or failed, nor that the run raises another event.
OnItsOwn ==
    \/ BarrierStep \/ ClientStep
    \/ \E s \in Streams : StreamStep(s)

Fairness == WF_vars(OnItsOwn)

Spec == Init /\ [][Next]_vars /\ Fairness

-----------------------------------------------------------------------------
(* Properties.                                                             *)

\* A reply that was taken is what ask returns, whatever ended its context at
\* the same time, and ask returns an answer only when a reply was taken.
ReplyIsKept ==
    \A q \in Asks :
        at[Asker(q)] = "done" => (result[q] = "answered" <=> reply[q] # 0)

Calls(s, e) == {i \in DOMAIN stream[s].got : stream[s].got[i] = e}

\* A question is shown to no subscriber twice, and never after its close;
\* and, while no subscriber has failed, one that waits was shown to every
\* subscriber or is about to be, one that attached while it waited included
\* (a subscriber's error keeps an event from those after it).
QuestionsAreShown ==
    /\ \A s \in Streams, q \in Asks :
          LET shown == Calls(s, Ev("question", q))
              closed == Calls(s, Ev("closed", q))
          IN  /\ Cardinality(shown) <= 1
              /\ \A i \in shown, j \in closed : i < j
    /\ fails = 0 =>
          \A q \in Range(waiting), s \in Range(subs) \ {0} :
              \/ Calls(s, Ev("question", q)) # {}
              \/ q \in Range(replays[s])
              \/ /\ hold # Free
                 /\ <<s, Ev("question", q)>> \in Range(hold.calls)

\* A question is put to everyone who can answer it, once, while no subscriber
\* fails, and its answer is kept whatever fails.
AskIsServed == ReplyIsKept /\ QuestionsAreShown

\* Until its stream is found too far behind, a client has every event its
\* subscription was given up to the last it read, in their order.
PrefixUntilCut ==
    (cur # 0 /\ ~stream[cur].behind) => IsPrefix(seen, stream[cur].got)

\* The recorder is told of an accepted item before the item is appended.
ReportedFirst ==
    (fails = 0 /\ hold # Free) =>
        \A c \in Range(hold.calls) :
            c[1] = 0 /\ c[2].k = "item" => c[2].n \in reported

AtRest ==
    /\ hold = Free /\ ~running
    /\ \A g \in Goroutines : at[g] \in {"none", "back", "wait", "done"}

\* A quarantined item is named on a run_end or reported by itself, whenever
\* it was added: never in neither.
QuarantineIsReported == (AtRest /\ fails = 0) => quarantine \subseteq told

\* No report is lost or late: of an accepted item, or of a quarantined one.
AllIsReported == ReportedFirst /\ QuarantineIsReported

\* An item accepted from outside while a run is in flight is reported
\* without waiting for the run's next event, unless a report failed, or a
\* release of the barrier made all the passes it may and gave up since the
\* last accept from outside (reportQueued, unlockEmit, maxQueuedPasses).
ReportedWhileQuiet == (OutsideOwed /\ ~spent) ~> (~OutsideOwed \/ spent)

\* The client of a stream that fell behind is told: its stream breaks.
OnCutStream == cur # 0 /\ stream[cur].behind

StreamIsCut == OnCutStream ~> ~OnCutStream

\* An event stream is whole until it falls behind, and then it breaks.
StreamIsWhole == []PrefixUntilCut /\ StreamIsCut
=============================================================================
