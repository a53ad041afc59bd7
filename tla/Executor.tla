------------------------------ MODULE Executor ------------------------------
(***************************************************************************)
(* The A2A executor (front/a2a): one conversation that the messages and    *)
(* cancels of several tasks contend for.  A message claims it, runs the    *)
(* agent on what is stored, saves what the run left and frees it before    *)
(* the caller is told; a message to a working task is a steer, handed to   *)
(* the agent that runs; a cancel aborts the run, or settles the calls the  *)
(* task left open.                                                         *)
(*                                                                         *)
(* A transcript is the calls in it that have no output.  What the holder   *)
(* of the conversation does to the stores is one step, since nobody else   *)
(* touches them; a failure may cut it short anywhere.  The A2A server that *)
(* calls the executor (a2asrv) is external: it keeps the status of each    *)
(* task, runs one execution of a task at a time, and lets no message or    *)
(* cancel through to a task that has ended.  Authentication, artifacts,    *)
(* the wording of statuses, calls that a policy holds beside others and    *)
(* the minute after which a cancel's mark is dropped are left out.         *)
(***************************************************************************)
EXTENDS Naturals, FiniteSets

CONSTANTS
    Tasks, Messages, Cancels,   \* tasks, and requests that name one: numbers
    Calls, Own,                 \* function calls; those to the agent's tools
    MaxSteers,                  \* the executor's bound on steers
    Budgets                     \* bounds: the messages, cancels, failures and
                                \* restarts there may be, and maxHandoffs
None == 0

ASSUME ExecutorAssumption ==
    /\ None \notin Tasks /\ Own \subseteq Calls
    /\ Tasks \cup Messages \cup Cancels \cup {MaxSteers} \subseteq Nat
    /\ IsFiniteSet(Messages)
    /\ \A b \in Budgets : /\ b.messages \subseteq Messages
                          /\ b.cancels \subseteq Cancels
                          /\ {b.fails, b.restarts, b.handoffs} \subseteq Nat

VARIABLES
    busy, active,      \* Executor.busy, and the task whose cancel is kept
    mark,              \* Executor.canceled: the task a cancel ended last
    rt,                \* Executor.running of each task: none, open, closed
    steered, queue,    \* running.steered; the steers its agent has not taken
    owed,              \* Executor.owed: a task and its steers
    stored,            \* the conversation: its unanswered calls
    escalated,         \* the EscalationStore: pairs of a task and a call
    waiting,           \* the WaitingStore's task
    torn,              \* history: a save or the status that follows it was
                       \* cut short, and no run was saved and no message
                       \* asked for the calls since
    msg, can,          \* how far each message and cancel has come
    status, listed,    \* the server's: each task's state and calls listed
    used,              \* the calls made so far
    budget,            \* what is left of the bounds
    quiet,             \* history: nothing has failed or was started again
    moved,             \* history: canceled tasks whose mark another took
    taken,             \* history: steers an agent took
    dropped,           \* history: steers dropped, with the task that had them
    lost               \* history: steers the recorder refused as they were
                       \* handed on, or that a restart found in memory

claims == <<busy, active, mark>>
steers == <<rt, steered, queue, owed, taken, dropped, lost>>
stores == <<stored, escalated, waiting, torn>>
server == <<status, listed>>
bounds == <<used, budget, quiet>>
vars == <<claims, steers, stores, msg, can, server, bounds, moved>>

NewMessage == [pc |-> "new", task |-> None, ans |-> {}, reason |-> "none",
               left |-> {}, cut |-> FALSE, werr |-> FALSE, hand |-> 0,
               bounded |-> FALSE]
NewCancel == [pc |-> "new", task |-> None, listed |-> {}, how |-> "none",
              late |-> {}]   \* history: messages on their way as it came
NoneOwed == [task |-> None, steers |-> {}]

Ended == {"completed", "failed", "canceled"}

\* The messages whose Execute is in progress.
Executing(m) == msg[m].pc \notin {"new", "steered", "done"}

Init ==
    /\ busy = FALSE /\ active = None /\ mark = None
    /\ rt = [t \in Tasks |-> "none"] /\ owed = NoneOwed
    /\ steered = [t \in Tasks |-> {}] /\ queue = [t \in Tasks |-> {}]
    /\ stored = {} /\ escalated = {} /\ waiting = None
    /\ msg = [m \in Messages |-> NewMessage]
    /\ can = [k \in Cancels |-> NewCancel]
    /\ status = [t \in Tasks |-> "new"] /\ listed = [t \in Tasks |-> {}]
    /\ used = {} /\ budget \in Budgets /\ quiet = TRUE /\ moved = {}
    /\ taken = {} /\ dropped = {} /\ lost = {} /\ torn = FALSE

Failure ==
    /\ budget.fails > 0 /\ budget' = [budget EXCEPT !.fails = @ - 1]
    /\ quiet' = FALSE

NoFailure == UNCHANGED <<budget, quiet>>

\* A status reaches the server, which keeps a task that has ended as it is.
Told(t, s, calls) ==
    /\ status' = [status EXCEPT ![t] = IF @ \in Ended THEN @ ELSE s]
    /\ listed' = [listed EXCEPT ![t] = IF status[t] \in Ended THEN @
                                       ELSE calls]

-----------------------------------------------------------------------------
(* A message.                                                              *)

\* The next message, in the order in which they come.
Unsent(m) ==
    /\ m \in budget.messages /\ msg[m].pc = "new"
    /\ \A n \in Messages : msg[n].pc = "new" => m <= n

\* What a message brings: a text, or the outputs and approvals that answer
\* the calls the task has listed.
Answers(t) == {{}, listed[t]}

\* The server lets a message through.
Send(m, t) ==
    /\ Unsent(m) /\ status[t] \notin Ended
    /\ status[t] = "new" => \A u \in Tasks : u < t => status[u] # "new"
    /\ rt[t] # "open" /\ \A n \in Messages : msg[n].task = t => ~Executing(n)
    /\ \E ans \in Answers(t) :
          msg' = [msg EXCEPT ![m].pc = "sent", ![m].task = t, ![m].ans = ans]
    /\ status' = [status EXCEPT ![t] = IF @ = "new" THEN "working" ELSE @]
    /\ UNCHANGED <<claims, steers, stores, can, listed, bounds, moved>>

\* deliver: a message to a task whose run is open is handed to its agent,
\* unless that holds as many as it may or its recorder refuses it.
Steer(m, t) ==
    LET room == Cardinality(steered[t] \cap queue[t]) < MaxSteers IN
    /\ Unsent(m) /\ rt[t] = "open"
    /\ \/ /\ room /\ NoFailure
          /\ msg' = [msg EXCEPT ![m].pc = "steered", ![m].task = t]
          /\ queue' = [queue EXCEPT ![t] = @ \cup {m}]
          /\ steered' = [steered EXCEPT ![t] = (@ \cap queue[t]) \cup {m}]
       \/ /\ IF room THEN Failure ELSE NoFailure
          /\ msg' = [msg EXCEPT ![m].pc = "done", ![m].task = t]
          /\ UNCHANGED <<queue, steered>>
    /\ UNCHANGED <<claims, rt, owed, taken, dropped, lost, stores, can, server,
                   used, moved>>

\* Mutant: a mark of the task is not looked at.
MarkedUnread(t) == FALSE

\* claim's look at the mark of the last cancel.
Marked(t) == mark = t

\* The canceled tasks that lose their mark as another task takes its place.
Passed(t) == IF mark \in {None, t} THEN moved ELSE moved \cup {mark}

\* claim
Claim(m) ==
    LET t == msg[m].task IN
    /\ msg[m].pc = "sent"
    /\ IF busy
       THEN /\ msg' = [msg EXCEPT ![m].pc = "done"]
            /\ UNCHANGED <<claims, moved>>
       ELSE /\ mark' = None
            /\ moved' = Passed(t)
            /\ IF Marked(t)
               THEN /\ msg' = [msg EXCEPT ![m].pc = "tell",
                                          ![m].reason = "aborted"]
                    /\ UNCHANGED <<busy, active>>
               ELSE /\ msg' = [msg EXCEPT ![m].pc = "held"]
                    /\ busy' = TRUE /\ active' = t
    /\ UNCHANGED <<steers, stores, can, server, bounds>>

\* Mutant: a refusal keeps the conversation.
FreedKept == UNCHANGED <<busy, active, mark>>

\* claim's release
Freed == busy' = FALSE /\ active' = None /\ UNCHANGED mark

\* Execute returns an error: nothing is told, and the defers run.
Returned(m) == msg' = [msg EXCEPT ![m].pc = "done"]

\* The calls the caller is asked for: closeOwnPending drops those to the
\* agent's own tools that were not put to the caller under this task.
AskedFor(t) == {c \in stored : c \in Own => <<t, c>> \in escalated}

\* checkAnswers: every call asked for is answered, and no other.
CheckAnswers(m) == msg[m].ans = AskedFor(msg[m].task)

\* A message that does not answer is asked for the calls; one that brings
\* outputs where there is no call is refused.
Check(m) ==
    LET t == msg[m].task
        pending == AskedFor(t)
        outputs == msg[m].ans \ Own
    IN
    /\ msg[m].pc = "held"
    /\ \/ /\ Failure /\ Freed /\ Returned(m) /\ UNCHANGED <<waiting, torn>>
       \/ /\ pending = {} /\ outputs # {}
          /\ Freed /\ Returned(m) /\ UNCHANGED <<waiting, torn>> /\ NoFailure
       \/ /\ ~CheckAnswers(m) /\ (pending = {} => outputs = {})
          /\ waiting' = t /\ torn' = FALSE /\ Freed /\ NoFailure
          /\ msg' = [msg EXCEPT ![m].pc = "tell", ![m].reason = "input",
                                ![m].left = pending]
       \/ /\ CheckAnswers(m)
          /\ msg' = [msg EXCEPT ![m].pc = "ready"]
          /\ UNCHANGED <<claims, waiting, torn>> /\ NoFailure
    /\ UNCHANGED <<steers, stored, escalated, can, server, used, moved>>

\* track's loop: the agent is handed what is owed but the refused steers.
HandedOn(t, refused) ==
    /\ steered' = [steered EXCEPT ![t] = owed.steers \ refused]
    /\ queue' = [queue EXCEPT ![t] = owed.steers \ refused]

\* track, which takes what the conversation owes, and the working status,
\* without which nothing runs.  A steer whose redelivery fails is dropped
\* with nothing said, and the run goes on.
Track(m) ==
    LET t == msg[m].task IN
    /\ msg[m].pc = "ready"
    /\ owed' = NoneOwed
    /\ \/ \E refused \in SUBSET owed.steers :
             /\ HandedOn(t, refused)
             /\ lost' = lost \cup refused
             /\ IF refused = {} THEN NoFailure ELSE Failure
             /\ rt' = [rt EXCEPT ![t] = "open"]
             /\ msg' = [msg EXCEPT ![m].pc = "run"]
             /\ Told(t, "working", {})
             /\ UNCHANGED <<claims, dropped>>
       \/ /\ Failure /\ Freed
          /\ msg' = [msg EXCEPT ![m].pc = "done", ![m].werr = TRUE]
          /\ dropped' = dropped \cup (owed.steers \X {t})
          /\ UNCHANGED <<rt, steered, queue, server, lost>>
    /\ UNCHANGED <<taken, stores, can, used, moved>>

\* The agent's run drains what was delivered into it.
Take(m) ==
    LET t == msg[m].task IN
    /\ msg[m].pc \in {"run", "last"} /\ queue[t] # {}
    /\ queue' = [queue EXCEPT ![t] = {}] /\ taken' = taken \cup queue[t]
    /\ UNCHANGED <<claims, rt, steered, owed, dropped, lost, stores, msg, can,
                   server, bounds, moved>>

\* The run ends: done, stopped by a tool that terminates it, waiting for
\* calls it left, failed, or aborted where its context is done.  An event
\* that cannot be written cancels it.
EndRun(m, reason, calls) ==
    /\ msg[m].pc \in {"run", "last"}
    /\ reason = "input" <=> calls # {}
    /\ calls \cap used = {} /\ used' = used \cup calls
    /\ \/ NoFailure /\ (reason = "aborted" => msg[m].cut)
          /\ msg' = [msg EXCEPT ![m].reason = reason, ![m].left = calls,
                        ![m].pc = IF @ = "run" THEN "ended" ELSE "closing"]
       \/ Failure /\ reason \in {"aborted", "input"} /\ msg[m].pc = "run"
          /\ msg' = [msg EXCEPT ![m].reason = reason, ![m].left = calls,
                        ![m].pc = "ended", ![m].werr = TRUE]
    /\ UNCHANGED <<claims, steers, stores, can, server, moved>>

\* outstanding(rt, nil): the task takes no more steers, and those its agent
\* has are dropped with it.
Closed(t, kept) ==
    /\ rt' = [rt EXCEPT ![t] = "closed"]
    /\ queue' = [queue EXCEPT ![t] = {}]
    /\ dropped' = dropped \cup ((queue[t] \ kept) \X {t})
    /\ UNCHANGED <<steered, taken, lost>>

\* Mutant: the queue is looked at where the task has stopped taking steers
\* already, and nobody runs what it finds.
OutstandingLate(m) ==
    /\ Closed(msg[m].task, queue[msg[m].task]) /\ UNCHANGED owed
    /\ msg' = [msg EXCEPT ![m].pc = "save"]

\* outstanding: a steer the run left is taken by a continue, which drains the
\* queue first or fails, if the run ended well, and owed to the next message
\* if it waits for calls.
Outstanding(m) ==
    LET t == msg[m].task
        left == steered[t] \cap queue[t]
    IN
    IF left # {} /\ msg[m].reason \in {"done", "terminated"}
    THEN /\ steered' = [steered EXCEPT ![t] = left]
         /\ \/ /\ msg' = [msg EXCEPT ![m].pc = "run"]
               /\ queue' = [queue EXCEPT ![t] = {}]
               /\ taken' = taken \cup queue[t]
            \/ /\ msg' = [msg EXCEPT ![m].reason = IF msg[m].cut THEN "aborted"
                                                   ELSE "error"]
               /\ UNCHANGED <<queue, taken>>
         /\ UNCHANGED <<rt, owed, dropped, lost>>
    ELSE /\ msg' = [msg EXCEPT ![m].pc = "save"]
         /\ IF left # {} /\ msg[m].reason = "input"
            THEN owed' = [task |-> t, steers |-> left] /\ Closed(t, left)
            ELSE Closed(t, {}) /\ UNCHANGED owed

\* relay's loop, after a run: a handoff goes on with another agent, up to
\* the bound, after which only what was delivered is taken up.
Relay(m) ==
    LET t == msg[m].task IN
    /\ msg[m].pc = "ended"
    /\ \/ /\ msg[m].werr /\ Closed(t, {}) /\ UNCHANGED owed
          /\ msg' = [msg EXCEPT ![m].pc = "save"]
       \/ /\ ~msg[m].werr /\ Outstanding(m)
       \/ /\ msg[m].reason = "terminated" /\ msg[m].hand < budget.handoffs
          /\ \/ msg' = [msg EXCEPT ![m].hand = @ + 1, ![m].pc = "run"]
             \/ msg' = [msg EXCEPT ![m].hand = @ + 1, ![m].reason = "error"]
          /\ UNCHANGED steers
       \/ /\ msg[m].reason = "terminated" /\ msg[m].hand = budget.handoffs
          /\ msg' = [msg EXCEPT ![m].bounded = TRUE,
                        ![m].pc = IF queue[t] # {} THEN "last" ELSE "closing"]
          /\ UNCHANGED steers
    /\ UNCHANGED <<claims, stores, can, server, bounds, moved>>

\* The bound is reached: outstanding(rt, nil).
Bounded(m) ==
    /\ msg[m].pc = "closing"
    /\ msg' = [msg EXCEPT ![m].pc = "save"]
    /\ Closed(msg[m].task, {}) /\ UNCHANGED owed
    /\ UNCHANGED <<claims, stores, can, server, bounds, moved>>

\* persist: calls are kept where the run ended well or waits for them.
Kept(m) == IF msg[m].reason = "input" THEN msg[m].left ELSE {}

\* Mutant: the task is named only where it was not the one waited on.
WaitsOnOther(m) == IF msg[m].reason = "input" /\ waiting = None
                   THEN msg[m].task ELSE waiting

\* The task that the conversation waits on once the run is saved.
WaitsOn(m) == IF msg[m].reason = "input" THEN msg[m].task ELSE None

\* The calls to the agent's own tools that are put to the caller.
PutToCaller(m) == {<<msg[m].task, c>> : c \in Kept(m) \cap Own}

\* persist, SaveEscalated and SaveWaiting, then the release; a failure, or
\* an event that could not be written, returns after the ones before it.
Save(m) ==
    /\ msg[m].pc = "save"
    /\ \/ /\ ~msg[m].werr /\ NoFailure
          /\ stored' = Kept(m) /\ escalated' = PutToCaller(m)
          /\ waiting' = WaitsOn(m) /\ torn' = FALSE
          /\ msg' = [msg EXCEPT ![m].pc = "tell"]
       \/ /\ msg[m].werr /\ NoFailure /\ Returned(m) /\ torn' = TRUE
          /\ stored' = Kept(m) /\ UNCHANGED <<escalated, waiting>>
       \/ /\ Failure /\ Returned(m) /\ torn' = TRUE
          /\ \/ UNCHANGED <<stored, escalated, waiting>>
             \/ stored' = Kept(m) /\ UNCHANGED <<escalated, waiting>>
             \/ stored' = Kept(m) /\ escalated' = PutToCaller(m) /\ UNCHANGED waiting
    /\ Freed
    /\ UNCHANGED <<steers, can, server, used, moved>>

\* inputRequired: the status that asks for the calls the run left.
InputRequired(m) == Told(msg[m].task, "input", msg[m].left)

\* The status that says how the run ended.
FinalStatus(m) ==
    LET t == msg[m].task r == msg[m].reason IN
    CASE r = "input" -> InputRequired(m)
      [] r \in {"done", "terminated"} ->
            Told(t, IF msg[m].bounded THEN "failed" ELSE "completed", {})
      [] r = "aborted" -> Told(t, "canceled", {})
      [] r = "error" -> Told(t, "failed", {})

\* conclude, whose status may not be written, and untrack.
Conclude(m) ==
    LET t == msg[m].task IN
    /\ msg[m].pc = "tell"
    /\ \/ FinalStatus(m) /\ NoFailure /\ UNCHANGED torn
       \/ Failure /\ torn' = (torn \/ waiting = t) /\ UNCHANGED server
    /\ msg' = [msg EXCEPT ![m].pc = "done"]
    /\ rt' = [rt EXCEPT ![t] = "none"]
    /\ UNCHANGED <<claims, steered, queue, owed, taken, dropped, lost, stored,
                   escalated, waiting, can, used, moved>>

-----------------------------------------------------------------------------
(* A cancel.                                                               *)

\* The server lets the next one through, with the task as it has it.
SendCancel(k, t) ==
    /\ k \in budget.cancels /\ can[k].pc = "new"
    /\ \A j \in Cancels : can[j].pc = "new" => k <= j
    /\ status[t] \notin Ended \cup {"new"}
    /\ can' = [can EXCEPT ![k].pc = "sent", ![k].task = t,
                  ![k].listed = IF status[t] = "input" THEN listed[t] ELSE {}]
    /\ UNCHANGED <<claims, steers, stores, msg, server, bounds, moved>>

\* The messages of a task that were let through and have not claimed.
OnTheirWay(t) == {m \in Messages : msg[m].pc = "sent" /\ msg[m].task = t}

Goes(k, how) ==
    can' = [can EXCEPT ![k].pc = "drop", ![k].how = how,
                       ![k].late = OnTheirWay(can[k].task)]

\* claimCancel: the task's run is canceled, or the conversation claimed, or
\* neither, where another task has it.
ClaimCancel(k) ==
    LET t == can[k].task IN
    /\ can[k].pc = "sent"
    /\ \/ /\ active = t
          /\ msg' = [m \in Messages |->
                IF Executing(m) /\ msg[m].task = t /\ msg[m].pc # "sent"
                THEN [msg[m] EXCEPT !.cut = TRUE] ELSE msg[m]]
          /\ Goes(k, "abort")
          /\ UNCHANGED busy
       \/ /\ active # t /\ busy
          /\ Goes(k, "other")
          /\ UNCHANGED <<busy, msg>>
       \/ /\ ~busy /\ busy' = TRUE
          /\ Goes(k, "settle")
          /\ UNCHANGED msg
    /\ UNCHANGED <<active, mark, steers, stores, server, bounds, moved>>

\* dropOwed
DropOwed(k) ==
    /\ can[k].pc = "drop"
    /\ IF owed.task = can[k].task
       THEN /\ owed' = NoneOwed
            /\ dropped' = dropped \cup (owed.steers \X {owed.task})
       ELSE UNCHANGED <<owed, dropped>>
    /\ can' = [can EXCEPT ![k].pc = IF can[k].how = "settle" THEN "settle"
                                    ELSE "tell"]
    /\ UNCHANGED <<claims, rt, steered, queue, taken, lost, stores, msg, server,
                   bounds, moved>>

\* The calls a cancel may settle: all of them where the conversation waits
\* on its task, those its status listed where it waits on none.
Settleable(k) ==
    IF waiting = can[k].task THEN stored
    ELSE IF waiting = None THEN can[k].listed ELSE {}

Others(calls, t) == {e \in calls : e[1] # t}

\* settle: the calls are refused by a run that calls no model, unless the
\* conversation holds others, and the stores forget the task; then the task
\* is marked, in the place of one that was.
Settle(k) ==
    LET t == can[k].task
        mine == Settleable(k)
        pending == {c \in stored : c \in Own => c \in mine}
        settles == pending # {} /\ pending \subseteq mine
    IN
    /\ can[k].pc = "settle"
    /\ \/ /\ NoFailure /\ mark' = t /\ moved' = Passed(t) /\ UNCHANGED busy
          /\ can' = [can EXCEPT ![k].pc = "tell"]
          /\ IF settles
             THEN /\ stored' = {} /\ waiting' = None /\ UNCHANGED torn
                  /\ escalated' = Others(escalated, t)
             ELSE UNCHANGED stores
       \/ /\ Failure /\ busy' = FALSE /\ UNCHANGED <<mark, moved>>
          /\ can' = [can EXCEPT ![k].pc = "done"]
          /\ \/ UNCHANGED stores
             \/ /\ settles /\ stored' = {} /\ UNCHANGED <<waiting, torn>>
                /\ escalated' \in {escalated, Others(escalated, t)}
    /\ UNCHANGED <<active, steers, msg, server, used>>

\* The canceled status, and the release of a conversation it claimed.
ConcludeCancel(k) ==
    /\ can[k].pc = "tell"
    /\ Told(can[k].task, "canceled", {})
    /\ can' = [can EXCEPT ![k].pc = "done"]
    /\ busy' = IF can[k].how = "settle" THEN FALSE ELSE busy
    /\ UNCHANGED <<active, mark, steers, stores, msg, bounds, moved>>

-----------------------------------------------------------------------------

\* The process is started again; the conversation is stored, and the other
\* two stores are, or are not.
Restart ==
    /\ budget.restarts > 0 /\ quiet' = FALSE
    /\ budget' = [budget EXCEPT !.restarts = @ - 1]
    /\ busy' = FALSE /\ active' = None /\ mark' = None
    /\ rt' = [t \in Tasks |-> "none"] /\ owed' = NoneOwed
    /\ lost' = lost \cup owed.steers \cup UNION {queue[t] : t \in Tasks}
    /\ steered' = [t \in Tasks |-> {}] /\ queue' = [t \in Tasks |-> {}]
    /\ waiting' \in {waiting, None} /\ escalated' \in {escalated, {}}
    /\ torn' = TRUE
    /\ msg' = [m \in Messages |-> IF Executing(m)
                                  THEN [msg[m] EXCEPT !.pc = "done"] ELSE msg[m]]
    /\ can' = [k \in Cancels |-> IF can[k].pc = "new" THEN can[k]
                                 ELSE [can[k] EXCEPT !.pc = "done"]]
    /\ UNCHANGED <<stored, server, used, taken, dropped, moved>>

Reasons == {"done", "terminated", "input", "error", "aborted"}

MessageStep(m) ==
    \/ Claim(m) \/ Check(m) \/ Track(m) \/ Take(m) \/ Relay(m) \/ Bounded(m)
    \/ Save(m) \/ Conclude(m)
    \/ \E reason \in Reasons, calls \in SUBSET Calls : EndRun(m, reason, calls)

CancelStep(k) ==
    ClaimCancel(k) \/ DropOwed(k) \/ Settle(k) \/ ConcludeCancel(k)

Next ==
    \/ \E m \in Messages, t \in Tasks : Send(m, t) \/ Steer(m, t)
    \/ \E k \in Cancels, t \in Tasks : SendCancel(k, t)
    \/ \E m \in Messages : MessageStep(m)
    \/ \E k \in Cancels : CancelStep(k)
    \/ Restart

\* A request's goroutine goes on, and a run ends.
Fairness ==
    /\ \A m \in Messages : WF_vars(MessageStep(m))
    /\ \A k \in Cancels : WF_vars(CancelStep(k))

Spec == Init /\ [][Next]_vars /\ Fairness

-----------------------------------------------------------------------------
(* Properties.                                                             *)

\* A conversation that nobody holds has open calls only while it waits on a
\* task, and that task's caller is told of them: the answers it is asked for
\* are the ones a message of the task is checked against, or the task was
\* canceled while its run was ending, or is being told.  A save, or the
\* status after it, that fails or is the last before a restart leaves the
\* stores out of step, and the next run that is saved or the next message
\* that is asked for the calls, of whichever task, puts them right.
OpenCallsAreAskedFor ==
    ~busy /\ ~torn /\ stored # {} =>
        /\ waiting # None
        /\ \/ status[waiting] \in Ended
           \/ status[waiting] = "input" /\ listed[waiting] = AskedFor(waiting)
           \/ \E m \in Messages : msg[m].task = waiting /\ Executing(m)

\* A message that was on its way when a cancel of its task took hold of the
\* conversation runs nothing once the cancel is answered, unless a message
\* or a cancel of another task has taken the conversation, and the one mark
\* it keeps, since.  It is a claim of a process in which nothing has failed:
\* a restart forgets the mark, and a cancel whose save fails leaves none.
CanceledDoesNotRun ==
    \A k \in Cancels, m \in Messages :
        can[k].pc = "done" /\ can[k].how = "settle" /\ m \in can[k].late
        /\ msg[m].pc \in {"ready", "run"} /\ quiet
            => msg[m].task \in moved

\* A run of the task failed, was aborted, was stopped by the bound or could
\* not write an event, or a cancel of the task took hold.
GivenUp(t) ==
    \/ \E m \in Messages :
          /\ msg[m].task = t
          /\ msg[m].reason \in {"aborted", "error"} \/ msg[m].bounded
             \/ msg[m].werr
    \/ \E k \in Cancels : can[k].task = t /\ can[k].how # "none"

\* A steer that was accepted is taken by a run of the task, kept by its
\* agent while the run goes on, or owed to the next message.  It is dropped
\* only with the task that had it, where that one was given up, and lost
\* only where the recorder refuses it as it is handed on to the message
\* that answers, which says nothing of it, or a restart finds it in memory.
SteerIsServed ==
    \A s \in Messages : msg[s].pc = "steered" =>
        \/ s \in taken \cup owed.steers \cup lost
        \/ \E t \in Tasks : s \in queue[t] /\ rt[t] = "open"
        \/ \E t \in Tasks : <<s, t>> \in dropped /\ GivenUp(t)

\* The conversation is never held for good, whatever fails.
ConversationFrees == busy ~> ~busy
=============================================================================
