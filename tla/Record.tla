------------------------------- MODULE Record -------------------------------
(***************************************************************************)
(* The session recorder's account of function calls (session/session.go):  *)
(* what it writes to the log for a call, what it keeps in memory about it, *)
(* and what is read back after a crash or a rewind to decide which calls   *)
(* are pending and how each is answered.                                   *)
(*                                                                         *)
(* The log is a path of entries and the paths a rewind has left.  It is    *)
(* durable; everything else is lost in a crash, save the history of what   *)
(* the tools did.  The log's own library (agentsession) is external.       *)
(*                                                                         *)
(* The agent that raises the events is reduced to what the recorder sees   *)
(* of it; its details are module ToolBatch.  Arguments are 0, the model's, *)
(* and 1, others; a key is 0 when there is none, else the run that made    *)
(* it.  Who decided, copies of another session's calls, nested calls,      *)
(* child sessions and withdrawals of earlier formats are left out.         *)
(***************************************************************************)
EXTENDS Naturals, Sequences, FiniteSets

CONSTANTS
    Calls,    \* function calls, numbered in the model's order
    Replay,   \* agenttool.ReplayOf of each call's tool
    Budgets   \* bounds: which calls are made, how they are decided and with
              \* which arguments, and how many runs, crashes, failed writes,
              \* rewinds, refusals by other subscribers and questions of
              \* tools there are

\* What may be decided of a call at its tool_start: to run it, with a reason
\* or without, to refuse it, or to defer it; "refuse" is the loop's own
\* refusal of a call that it cannot run.
HookDecisions == {"none", "reason", "block", "defer", "refuse"}

ASSUME RecordAssumption ==
    /\ Calls \subseteq Nat /\ IsFiniteSet(Calls)
    /\ Replay \in [Calls -> {"safe", "keyed", "never"}]
    /\ Budgets \subseteq
          [calls : SUBSET Calls, decisions : SUBSET HookDecisions,
           args : SUBSET {0, 1}, runs : Nat, crashes : Nat, fails : Nat,
           rebases : Nat, refusals : Nat, asks : Nat]

VARIABLES
    path, left,   \* the log: the path at its leaf, and the paths left
    rec,          \* writer.calls, the callRecord of each call
    run, open,    \* writer.run (0 for none) and writer.open
    unsettled,    \* writer.unsettled
    phase,        \* what the agent is doing
    st,           \* how far the agent's run has brought each call
    how,          \* with which arguments, key and result
    asking,       \* the question each call's tool waits on: its entry
    failing,      \* a subscriber has failed: the run is being cut off
    pend,         \* the agent's PendingCall of each call
    budget,       \* what is left of the bounds
    nrun,         \* the number of the last run
    hands         \* history: each call's hand-offs to its tool

log    == <<path, left>>
writer == <<rec, run, open, unsettled>>
agent  == <<phase, st, how, asking, failing, pend>>
vars   == <<log, writer, agent, budget, nrun, hands>>

-----------------------------------------------------------------------------
(* The log, as agentsession reads it.                                      *)

\* An entry: its kind, its call, a value (a run, a key, arguments or an
\* output) and the branch it was written on, which with its place on the
\* path is its ID.
Entry(k, c, v) == [k |-> k, c |-> c, v |-> v, b |-> Cardinality(left)]

Decisions == {"hold", "proceed", "reject", "answer"}

Has(p, c, kinds) == \E i \in DOMAIN p : p[i].c = c /\ p[i].k \in kinds

\* The places of a call's entries of some kinds.
At(p, c, kinds) == {i \in DOMAIN p : p[i].c = c /\ p[i].k \in kinds}

Last(S) == CHOOSE i \in S : \A j \in S : j <= i

\* A withdrawal takes the dispatch before it off the path.
Dispatches(p, c) ==
    {i \in At(p, c, {"dispatch"}) :
        \A j \in At(p, c, {"withdraw"}) :
            i < j => \E m \in At(p, c, {"dispatch"}) : i < m /\ m < j}

Dispatched(p, c) == Dispatches(p, c) # {}

\* The latest decision holds the call.
Held(p, c) == LET ds == At(p, c, Decisions) IN
              ds # {} /\ p[Last(ds)].k = "hold"

\* The call's tool returned after its last dispatch.
Returned(p, c) ==
    /\ Dispatched(p, c)
    /\ \E i \in At(p, c, {"result"}) : i > Last(Dispatches(p, c))

\* The arguments in force before place n: those of the last decision that
\* carries any.  A decision's value is 2 when it carries none.
ArgsBefore(p, c, n) ==
    LET ds == {i \in At(p, c, {"hold", "proceed"}) : i < n /\ p[i].v # 2} IN
    IF ds = {} THEN 0 ELSE p[Last(ds)].v

Args(p, c) == ArgsBefore(p, c, Len(p) + 1)
DispatchedArgs(p, c) == ArgsBefore(p, c, Last(Dispatches(p, c)))
KeyOf(p, c) == p[Last(Dispatches(p, c))].v

\* Call.State, for a header that promises dispatch records.
State(p, c) ==
    CASE Has(p, c, {"output"}) -> "completed"
      [] ~Has(p, c, {"output"}) /\ Has(p, c, {"reject"}) -> "rejected"
      [] ~Has(p, c, {"output", "reject"}) /\ Has(p, c, {"answer"}) ->
            "answered"
      [] ~Has(p, c, {"output", "reject", "answer"}) /\ Held(p, c) -> "held"
      [] OTHER -> CASE Returned(p, c) -> "returned"
                    [] Dispatched(p, c) /\ ~Returned(p, c) -> "inflight"
                    [] OTHER -> "neverstarted"

\* Session.OpenRun: the run started last has not ended.
OpenRun(p) ==
    LET rs == {i \in DOMAIN p : p[i].k \in {"start", "end"}} IN
    rs # {} /\ p[Last(rs)].k = "start"

\* The calls without an output that the run now open made, decided or
\* dispatched: what EndRun lists.
OpenCalls(p) ==
    LET s == Last({i \in DOMAIN p : p[i].k = "start"}) IN
    {c \in Calls : /\ \E i \in At(p, c, Decisions \cup {"call", "dispatch"}) :
                         i > s
                   /\ ~Has(p, c, {"output"})}

-----------------------------------------------------------------------------
(* Reading a record.                                                       *)

\* dispatchOff: the places of a path left at which the call was dispatched
\* and that are not on this path.  A withdrawal there is not looked for.
OffAt(p, q, c) ==
    {i \in At(q, c, {"dispatch"}) : i > Len(p) \/ q[i] # p[i]}

OffPaths(p, l, c) == {q \in l : OffAt(p, q, c) # {}}

Off(p, l, c) ==
    /\ Has(p, c, {"call"}) /\ ~Has(p, c, {"output"}) /\ ~Dispatched(p, c)
    /\ OffPaths(p, l, c) # {}

\* callAt: the path to the last such dispatch in the log.
OffPath(p, l, c) ==
    LET ends == {SubSeq(q, 1, Last(OffAt(p, q, c))) : q \in OffPaths(p, l, c)}
        d(q) == q[Len(q)].b
    IN  CHOOSE q \in ends : \A r \in ends :
            d(r) < d(q) \/ (d(r) = d(q) /\ Len(r) <= Len(q))

\* outputAfter: a branch through it holds the output the tool gave, with no
\* answer in between.
RanOff(p, l, c) ==
    LET q == OffPath(p, l, c) IN
    \E r \in l : /\ Len(q) \in Dispatches(r, c) /\ r[Len(q)] = q[Len(q)]
               /\ Has(r, c, {"output"}) /\ ~Has(r, c, {"answer"})

NoRecord == [known |-> FALSE, held |-> FALSE, dispatched |-> FALSE,
             rejected |-> FALSE, ended |-> FALSE, answered |-> FALSE,
             unknown |-> FALSE, drun |-> 0, again |-> FALSE, decided |-> 2,
             result |-> "none", before |-> <<>>]

\* seedCalls and callRecordOf: the callRecord of a call on the path.
CallRecordOf(p, l, c) ==
    IF ~Has(p, c, {"call"}) THEN NoRecord
    ELSE IF Has(p, c, {"output"})
    THEN [NoRecord EXCEPT !.known = TRUE, !.answered = TRUE,
                          !.dispatched = Dispatched(p, c)]
    ELSE [NoRecord EXCEPT
             !.known = TRUE, !.held = Held(p, c),
             !.dispatched = Dispatched(p, c),
             !.rejected = Has(p, c, {"reject"}),
             !.ended = Has(p, c, {"answer"}),
             !.unknown = Off(p, l, c),
             !.decided = IF Args(p, c) = 0 THEN 2 ELSE Args(p, c),
             !.result = IF Returned(p, c) THEN "own" ELSE "none"]

\* openQuestions: the entry of the last question asked under the call that
\* no answer on the path names.
OpenQuestion(p, c) ==
    LET owed == {i \in At(p, c, {"ask"}) :
                    \A j \in At(p, c, {"told"}) : p[j].v # <<p[i].b, i>>}
    IN  IF owed = {} THEN <<>> ELSE <<p[Last(owed)].b, Last(owed)>>

NotPending == [why |-> "none", key |-> 0, args |-> 0, disp |-> FALSE,
               ran |-> FALSE, question |-> <<>>]

\* Mutant: only the path is looked at.
PendingCallHere(p, l, c) ==
    LET s == State(p, c) IN
    [NotPending EXCEPT
        !.why = CASE s = "held" -> "deferred" [] s = "inflight" -> "aborted"
                  [] s = "neverstarted" -> "undispatched" [] OTHER -> s,
        !.disp = s = "held" /\ Dispatched(p, c),
        !.ran = s = "returned",
        !.question = OpenQuestion(p, c),
        !.key = IF Dispatched(p, c) THEN KeyOf(p, c) ELSE 0,
        !.args = IF Dispatched(p, c) THEN DispatchedArgs(p, c)
                 ELSE IF s = "held" THEN Args(p, c) ELSE 0]

\* pendingCalls: what a call on the path without an output is pending as.
PendingCall(p, l, c) ==
    LET s   == State(p, c)
        off == s \in {"held", "neverstarted"} /\ Off(p, l, c)
        q   == IF off THEN OffPath(p, l, c) ELSE p
        why == CASE s = "held" -> "deferred"
                 [] s = "inflight" -> "aborted"
                 [] s = "neverstarted" -> IF off THEN "aborted"
                                          ELSE "undispatched"
                 [] OTHER -> s
        disp == s = "held" /\ (off \/ Dispatched(p, c))
        may == why = "aborted" \/ disp
    IN [why |-> why, disp |-> disp, question |-> OpenQuestion(p, c),
        ran |-> s = "returned" \/ (off /\ RanOff(p, l, c)),
        key |-> IF may THEN KeyOf(q, c) ELSE 0,
        args |-> IF may THEN DispatchedArgs(q, c)
                 ELSE IF s = "held" THEN Args(p, c) ELSE 0]

MayHaveRun(q) == q.why = "aborted" \/ (q.why = "deferred" /\ q.disp)

\* How a call that is in no batch stands in the agent's run: its arguments
\* and key, its output, and whether the run deferred it, gave it to its
\* tool, or was told to run it.
NoWay == [args |-> 0, key |-> 0, out |-> "none", def |-> FALSE,
          hand |-> FALSE, appr |-> FALSE]

\* The calls on a path that have no output.
Unanswered(p) == {c \in Calls : Has(p, c, {"call"}) /\ ~Has(p, c, {"output"})}

\* The agent seeded with a path: its transcript, and its pending calls.
Seeded(p, l) ==
    /\ rec' = [c \in Calls |-> CallRecordOf(p, l, c)]
    /\ run' = 0 /\ open' = {} /\ unsettled' = {}
    /\ pend' = [c \in Calls |-> IF c \in Unanswered(p) THEN PendingCall(p, l, c)
                                ELSE NotPending]
    /\ phase' = "idle" /\ failing' = FALSE
    /\ st' = [c \in Calls |-> IF c \in Unanswered(p) THEN "owed" ELSE "gone"]
    /\ how' = [c \in Calls |-> NoWay] /\ asking' = [c \in Calls |-> <<>>]

-----------------------------------------------------------------------------
(* Writing.  A handler is the list of the entries it appends, each with    *)
(* the call's record once it is written.                                   *)

Step(k, c, v, r) == <<[e |-> Entry(k, c, v), r |-> r]>>

Entries(steps) == [i \in DOMAIN steps |-> steps[i].e]

\* takeUp and close: what the entries written do to writer.open.
OpenAfter(c, es) ==
    LET wrote(kinds) == \E i \in DOMAIN es : es[i].k \in kinds IN
    IF wrote({"output"}) THEN open \ {c}
    ELSE IF wrote(Decisions \cup {"call", "dispatch"}) THEN open \cup {c}
    ELSE open

\* The first n steps of a handler are written, over the record r0.
Written(c, r0, steps, n) ==
    LET es == SubSeq(Entries(steps), 1, n) IN
    /\ path' = path \o es
    /\ rec' = [rec EXCEPT ![c] = IF n = 0 THEN r0 ELSE steps[n].r]
    /\ open' = OpenAfter(c, es)
    /\ UNCHANGED <<left, run>>

\* The handler of an event takes it, ...
Taken(c, r0, steps) == Written(c, r0, steps, Len(steps)) /\ UNCHANGED budget

\* ... one of its appends fails, or another subscriber, called after the
\* recorder, refuses it.
Failed(c, r0, steps) ==
    \/ /\ budget.fails > 0 /\ budget' = [budget EXCEPT !.fails = @ - 1]
       /\ \E n \in 0..(Len(steps) - 1) : Written(c, r0, steps, n)
    \/ /\ budget.refusals > 0 /\ budget' = [budget EXCEPT !.refusals = @ - 1]
       /\ Written(c, r0, steps, Len(steps))

\* An event the recorder refuses by itself, with no entry written.
Refused(c) == UNCHANGED <<log, rec, run, open, budget>>

\* carries: a decision has to write the arguments.
Carries(r, args) == args # 0 \/ (r.decided # 2 /\ args # r.decided)

\* toolStart's refusals: the call is completed, or its tool has returned.
StartRefused(r) == r.known /\ (r.answered \/ r.result # "none")

\* toolStart: the record in memory before anything is written, ...
StartRecord(r, d, args) ==
    IF ~r.known \/ r.rejected \/ r.ended \/ d \in {"block", "defer"} THEN r
    ELSE IF Carries(r, args) \/ r.held \/ d = "reason"
    THEN [r EXCEPT !.again = FALSE,
                   !.decided = IF Carries(r, args) THEN args ELSE @]
    ELSE [r EXCEPT !.again = (r.dispatched /\ r.drun # run), !.held = FALSE]

\* ... and the decision it writes, when something was decided.  d is the
\* hook's decision or the answer's approval: none, a reason for running the
\* call, a refusal, or a deferral.
StartSteps(c, r, d, args) ==
    LET v == IF Carries(r, args) THEN args ELSE 2
        q == [r EXCEPT !.again = FALSE]
    IN
    CASE ~r.known \/ r.rejected \/ r.ended -> <<>>
      [] r.known /\ ~r.rejected /\ ~r.ended /\ d = "block" ->
            IF r.dispatched \/ r.unknown
            THEN Step("answer", c, 0, [q EXCEPT !.held = FALSE,
                                                !.ended = TRUE])
            ELSE Step("reject", c, 0, [q EXCEPT !.held = FALSE,
                                                !.rejected = TRUE])
      [] r.known /\ ~r.rejected /\ ~r.ended /\ d = "defer" ->
            Step("hold", c, v, [q EXCEPT !.held = TRUE,
                                         !.decided = IF v = 2 THEN @ ELSE v])
      [] OTHER -> IF v # 2 \/ r.held \/ d = "reason"
                  THEN Step("proceed", c, v,
                            [StartRecord(r, d, args) EXCEPT !.held = FALSE])
                  ELSE <<>>

\* toolDispatch's refusals: the call is not on the path, completed, or
\* returned.
DispatchRefused(r) ==
    \/ ~r.known
    \/ /\ ~r.rejected /\ ~(r.dispatched /\ r.drun = run)
       /\ r.answered \/ r.result # "none"

\* The record once a dispatch is written, which keeps what it replaced.
DispatchRecord(r) ==
    [r EXCEPT !.again = FALSE, !.dispatched = TRUE, !.drun = run,
              !.unknown = FALSE, !.before = <<r.dispatched, r.unknown, r.drun>>]

\* Mutant: a call that was dispatched before gets no second dispatch.
DispatchStepsOnce(c, r, key) ==
    IF ~r.known \/ r.rejected \/ r.dispatched THEN <<>>
    ELSE Step("dispatch", c, key, DispatchRecord(r))

\* toolDispatch: the proceed of a call that runs again, and the dispatch.
DispatchSteps(c, r, key) ==
    IF ~r.known \/ r.rejected \/ (r.dispatched /\ r.drun = run) THEN <<>>
    ELSE (IF r.again THEN Step("proceed", c, 2, [r EXCEPT !.again = FALSE])
          ELSE <<>>)
         \o Step("dispatch", c, key, DispatchRecord(r))

\* Mutant: the state before the dispatch is not put back.
WithdrawForgets(r) ==
    [r EXCEPT !.dispatched = FALSE, !.drun = 0, !.before = <<>>]

\* callRecord.withdraw
Withdraw(r) ==
    IF r.before = <<>> THEN r
    ELSE [r EXCEPT !.dispatched = r.before[1], !.unknown = r.before[2],
                   !.drun = r.before[3], !.before = <<>>]

\* toolEnd: a withdrawal, or the result of a call that others of its batch
\* keep from being appended.
EndSteps(c, r, withdrawn, ran) ==
    LET mine == r.known /\ r.dispatched /\ r.drun = run IN
    IF withdrawn /\ mine THEN Step("withdraw", c, 0, Withdraw(r))
    ELSE IF ran /\ mine /\ unsettled \ {c} # {}
    THEN Step("result", c, 0, [r EXCEPT !.result = "own"])
    ELSE <<>>

\* itemFrom's refusal: the path has an output for the call.
OutputRefused(r) == r.known /\ r.answered

\* itemFrom, of an output: the tool's own, or one a decision already led
\* to, is written as it is; one given for a call that may have run follows
\* an answer decision, and one for a call that did not run a reject.
OutputSteps(c, r, out) ==
    LET plain == \/ ~r.known \/ r.ended \/ r.rejected
                 \/ r.result = out
                 \/ r.dispatched /\ r.drun # 0 /\ r.drun = run
        ran  == r.dispatched \/ r.unknown
        q    == [r EXCEPT !.held = FALSE, !.ended = @ \/ ran,
                          !.rejected = @ \/ ~ran]
        done(x) == [x EXCEPT !.answered = r.known]
    IN IF plain THEN Step("output", c, out, done(r))
       ELSE Step(IF ran THEN "answer" ELSE "reject", c, 0, q)
            \o Step("output", c, out, done(q))

-----------------------------------------------------------------------------
(* The agent's run.                                                        *)

Made == {c \in budget.calls : st[c] # "new"}
First(S) == CHOOSE c \in S : \A d \in S : c <= d

Init ==
    /\ path = <<>> /\ left = {}
    /\ rec = [c \in Calls |-> NoRecord]
    /\ run = 0 /\ open = {} /\ unsettled = {}
    /\ phase = "idle" /\ failing = FALSE
    /\ st = [c \in Calls |-> "new"] /\ how = [c \in Calls |-> NoWay]
    /\ asking = [c \in Calls |-> <<>>] /\ pend = [c \in Calls |-> NotPending]
    /\ budget \in Budgets /\ nrun = 0
    /\ hands = [c \in Calls |-> <<>>]

\* runStart, for a run that a prompt begins, ...
RunStart ==
    /\ phase = "idle" /\ nrun = 0 /\ budget.runs > 0
    /\ budget' = [budget EXCEPT !.runs = @ - 1]
    /\ nrun' = 1 /\ run' = 1 /\ open' = {} /\ unsettled' = {}
    /\ path' = Append(path, Entry("start", 0, 1))
    /\ phase' = "items"
    /\ UNCHANGED <<left, rec, st, how, asking, failing, pend, hands>>

\* ... and itemFrom, of a call of its response.
CallItem(c) ==
    LET r == [NoRecord EXCEPT !.known = TRUE]
        steps == Step("call", c, 0, r)
    IN
    /\ phase = "items" /\ c = First({d \in budget.calls : st[d] = "new"})
    /\ c \in budget.calls /\ st[c] = "new"
    /\ \/ Taken(c, rec[c], steps) /\ st' = [st EXCEPT ![c] = "todo"]
          /\ phase' = IF Made \cup {c} = budget.calls THEN "start" ELSE phase
       \/ Failed(c, rec[c], steps)
          /\ st' = [d \in Calls |-> IF d = c \/ st[d] = "todo" THEN "owed"
                                    ELSE "gone"]
          /\ phase' = "ending"
    /\ how' = [how EXCEPT ![c].key = run]
    /\ UNCHANGED <<unsettled, asking, failing, pend, nrun, hands>>

\* BeforeToolCall decides a call that nothing has decided; an approval of
\* any other call is the decision.
Consulted(c) == ~how[c].appr \/ pend[c].why = "undispatched"

\* tool_start.  A call of an unknown tool is refused by the loop itself.
ToolStart(c, d, args) ==
    LET r0 == StartRecord(rec[c], d, args)
        steps == StartSteps(c, rec[c], d, args)
        next == CASE d = "block" \/ d = "refuse" -> "refusing"
                  [] d = "defer" -> "deferring"
                  [] OTHER -> "ready"
    IN
    /\ phase = "start" /\ ~failing
    /\ st[c] = "todo" /\ c = First({x \in Calls : st[x] = "todo"})
    /\ \A x \in Calls : st[x] \notin {"refusing", "deferring"}
    /\ IF Consulted(c) THEN TRUE
       ELSE d \in {"none", "reason"} /\ args = how[c].args
    /\ d = "refuse" => args = 0
    /\ unsettled' = unsettled \cup {c}
    /\ how' = [how EXCEPT ![c].args = args, ![c].def = (d = "defer"),
                  ![c].out = IF next = "refusing" THEN "refusal" ELSE "none"]
    /\ st' = [st EXCEPT ![c] = next]
    /\ \/ ~StartRefused(rec[c]) /\ Taken(c, r0, steps) /\ failing' = FALSE
       \/ ~StartRefused(rec[c]) /\ Failed(c, r0, steps) /\ failing' = TRUE
       \/ StartRefused(rec[c]) /\ Refused(c) /\ failing' = TRUE
    /\ UNCHANGED <<phase, asking, pend, nrun, hands>>

\* Every call is decided, or the batch is cut off.
Execute ==
    /\ phase = "start"
    /\ failing \/ \A c \in Calls : st[c] \notin {"todo", "refusing",
                                                 "deferring"}
    /\ phase' = "work"
    /\ st' = [c \in Calls |-> IF st[c] = "todo" THEN "owed" ELSE st[c]]
    /\ UNCHANGED <<log, writer, how, asking, failing, pend, budget, nrun, hands>>

\* The run is aborted.
Abort ==
    /\ phase \in {"start", "work"} /\ ~failing
    /\ failing' = TRUE
    /\ UNCHANGED <<log, writer, phase, st, how, asking, pend, budget, nrun,
                   hands>>

\* tool_dispatch: once every subscriber has taken it the tool has the call.
Dispatch(c) ==
    LET r == rec[c]
        steps == DispatchSteps(c, r, how[c].key)
        at == <<Cardinality(left), Len(path) + Len(steps)>>
    IN
    /\ phase = "work" /\ ~failing /\ st[c] = "ready"
    /\ \/ /\ ~DispatchRefused(r) /\ Taken(c, r, steps)
          /\ st' = [st EXCEPT ![c] = "handed"]
          /\ hands' = [hands EXCEPT ![c] =
                Append(@, [key |-> how[c].key, args |-> how[c].args,
                           at |-> IF steps = <<>> THEN <<>> ELSE at])]
          /\ how' = [how EXCEPT ![c].hand = TRUE]
          /\ UNCHANGED failing
       \/ /\ \/ ~DispatchRefused(r) /\ Failed(c, r, steps)
             \/ DispatchRefused(r) /\ Refused(c)
          /\ st' = [st EXCEPT ![c] = "stopped"] /\ failing' = TRUE
          /\ UNCHANGED <<how, hands>>
    /\ UNCHANGED <<unsettled, phase, asking, pend, nrun>>

\* The tool returns its result, or the run's cancellation.
ToolReturns(c) ==
    /\ st[c] = "handed" /\ asking[c] = <<>>
    /\ \/ how' = [how EXCEPT ![c].out = "own"]
       \/ failing /\ UNCHANGED how
    /\ st' = [st EXCEPT ![c] = "back"]
    /\ UNCHANGED <<log, writer, phase, asking, failing, pend, budget, nrun,
                   hands>>

\* Annotate, from inside a call's tool: an entry under the call, or the
\* failure to write it.
Annotated(c, k, v) ==
    /\ path' = Append(path, Entry(k, c, v))
    /\ UNCHANGED <<left, writer>>

NotWritten ==
    /\ budget.fails > 0 /\ budget' = [budget EXCEPT !.fails = @ - 1]
    /\ UNCHANGED <<log, writer>>

\* Elicitor: the question is written, and then put to a person; one that
\* cannot be written is not asked.
Ask(c) ==
    /\ st[c] = "handed" /\ asking[c] = <<>> /\ budget.asks > 0
    /\ \/ /\ Annotated(c, "ask", 0)
          /\ budget' = [budget EXCEPT !.asks = @ - 1]
          /\ asking' = [asking EXCEPT ![c] =
                           <<Cardinality(left), Len(path) + 1>>]
       \/ NotWritten /\ UNCHANGED asking
    /\ UNCHANGED <<phase, st, how, failing, pend, nrun, hands>>

\* The person answers, or the question is cancelled: that is written, and
\* then returned to the tool, which gets an error when it cannot be.
Told(c) ==
    /\ asking[c] # <<>>
    /\ asking' = [asking EXCEPT ![c] = <<>>]
    /\ \/ Annotated(c, "told", asking[c]) /\ UNCHANGED budget
       \/ NotWritten
    /\ UNCHANGED <<phase, st, how, failing, pend, nrun, hands>>

\* tool_end: of a call refused or deferred at once, of one its tool is done
\* with, and when the batch is cut off of each one not ended.
ToolEnd(c) ==
    LET steps == EndSteps(c, rec[c], st[c] = "stopped",
                          st[c] = "back" /\ how[c].out = "own")
    IN
    /\ \/ st[c] \in {"refusing", "deferring"}
       \/ phase = "work" /\ st[c] \in {"back", "stopped"}
       \/ phase = "work" /\ st[c] = "ready" /\ failing
    /\ st' = [st EXCEPT ![c] = "over"]
    /\ \/ /\ Taken(c, rec[c], steps) /\ UNCHANGED failing
          /\ unsettled' = unsettled \ {c}
       \/ /\ Failed(c, rec[c], steps) /\ failing' = TRUE
          /\ unsettled' = unsettled \ (IF st[c] = "stopped" THEN {} ELSE {c})
    /\ UNCHANGED <<phase, how, asking, pend, nrun, hands>>

\* The batch is drained: the outputs are appended.
Drained ==
    /\ phase = "work"
    /\ \A c \in Calls : st[c] \in {"new", "gone", "owed", "over"}
    /\ phase' = "out"
    /\ UNCHANGED <<log, writer, st, how, asking, failing, pend, budget, nrun,
                   hands>>

\* The outputs still to append: a Resume's answers, or the batch's.
Outs == {c \in Calls : \/ phase = "answers" /\ st[c] = "answer"
                       \/ phase = "out" /\ st[c] = "over"
                          /\ how[c].out # "none"}

\* item_end of an output, in the model's order.  A failure ends the run;
\* the output is in the transcript unless its item_start was refused.
AppendOut(c) ==
    LET steps == OutputSteps(c, rec[c], how[c].out)
        in == [st EXCEPT ![c] = "gone"]
    IN
    /\ Outs # {} /\ c = First(Outs)
    /\ \/ /\ ~OutputRefused(rec[c]) /\ Taken(c, rec[c], steps)
          /\ st' = in /\ UNCHANGED phase
       \/ /\ ~OutputRefused(rec[c]) /\ Failed(c, rec[c], steps)
          /\ st' = in /\ phase' = "ending"
       \/ /\ OutputRefused(rec[c]) /\ Refused(c)
          /\ st' = in /\ phase' = "ending"
       \/ /\ budget.refusals > 0
          /\ budget' = [budget EXCEPT !.refusals = @ - 1]
          /\ phase' = "ending" /\ UNCHANGED <<log, rec, run, open, st>>
    /\ UNCHANGED <<unsettled, how, asking, failing, pend, nrun, hands>>

\* The outputs are in.
OutsDone ==
    /\ phase \in {"answers", "out"} /\ Outs = {}
    /\ phase' = IF phase = "answers" /\ \E c \in Calls : st[c] = "todo"
                THEN "start" ELSE "ending"
    /\ UNCHANGED <<log, writer, st, how, asking, failing, pend, budget, nrun,
                   hands>>

\* runner.pending: what the agent knows of a call the run leaves open.
PendingOf(c) ==
    LET h == how[c] p == pend[c] IN
    CASE h.def -> [NotPending EXCEPT !.why = "deferred", !.args = h.args]
      [] ~h.def /\ h.hand -> [NotPending EXCEPT !.why = "aborted",
                                  !.key = h.key, !.args = h.args]
      [] ~h.def /\ ~h.hand /\ MayHaveRun(p) ->
            IF p.why = "deferred" /\ h.appr
            THEN [p EXCEPT !.why = "aborted", !.disp = FALSE] ELSE p
      [] OTHER -> IF p.why = "none" \/ h.appr
                  THEN [NotPending EXCEPT !.why = "undispatched"] ELSE p

\* runEnd
RunEnd ==
    /\ phase = "ending"
    /\ path' = Append(path, Entry("end", 0, open))
    /\ run' = 0 /\ open' = {} /\ UNCHANGED <<left, rec, unsettled>>
    /\ phase' = "idle" /\ failing' = FALSE
    /\ st' = [c \in Calls |-> IF st[c] \in {"new", "gone"} THEN "gone"
                              ELSE "owed"]
    /\ pend' = [c \in Calls |-> IF st[c] \in {"new", "gone"} THEN NotPending
                                ELSE PendingOf(c)]
    /\ how' = [c \in Calls |-> NoWay]
    /\ UNCHANGED <<asking, budget, nrun, hands>>

-----------------------------------------------------------------------------
(* Resume, crash and rewind.                                               *)

\* replayAnswer's rule: a call that may have run is run again when its tool
\* is safe, or keyed and its key is known.
RunAgain(c) == Replay[c] = "safe" \/ (Replay[c] = "keyed" /\ pend[c].key # 0)

\* Mutant: an approval runs with a key of its run's.
ApprovalFresh(c, args) == [NoWay EXCEPT !.appr = TRUE, !.args = args]

\* An approval runs the call with the key it is pending with, if any.
Approval(c, args) == [NoWay EXCEPT !.appr = TRUE, !.args = args,
                                   !.key = pend[c].key]
Given(out) == [NoWay EXCEPT !.out = out]

\* ReplayAnswers, and what the host decides of a call that is deferred,
\* by the same rule where it may have run.
AnswersTo(c) ==
    LET p == pend[c] IN
    CASE p.why = "undispatched" -> {Approval(c, 0)}
      [] p.why = "answered" -> {Given("unknown")}
      [] p.why = "returned" -> {Given("own")}
      [] p.why = "rejected" -> {Given("refusal")}
      [] p.why = "aborted" ->
            IF p.ran THEN {Given("own")}
            ELSE IF RunAgain(c) THEN {Approval(c, p.args)}
            ELSE {Given("unknown")}
      [] p.why = "deferred" ->
            {Given("host")} \cup
            (IF ~p.disp THEN {Approval(c, a) : a \in {p.args} \cup budget.args}
             ELSE IF RunAgain(c) THEN {Approval(c, p.args)} ELSE {})

Owing == {c \in Calls : st[c] = "owed"}

\* Agent.Resume, by a host that answers every call pending: run_start.
Resume ==
    /\ phase = "idle" /\ Owing # {} /\ budget.runs > 0
    /\ budget' = [budget EXCEPT !.runs = @ - 1]
    /\ nrun' = nrun + 1 /\ run' = nrun + 1 /\ open' = {} /\ unsettled' = {}
    /\ path' = Append(path, Entry("start", 0, nrun + 1))
    /\ phase' = "answers" /\ failing' = FALSE
    /\ \E a \in [Owing -> UNION {AnswersTo(c) : c \in Owing}] :
          /\ \A c \in Owing : a[c] \in AnswersTo(c)
          /\ how' = [c \in Calls |->
                IF c \notin Owing THEN NoWay
                ELSE IF a[c].appr /\ a[c].key = 0
                THEN [a[c] EXCEPT !.key = nrun + 1] ELSE a[c]]
          /\ st' = [c \in Calls |->
                IF c \notin Owing THEN st[c]
                ELSE IF a[c].appr THEN "todo" ELSE "answer"]
    /\ UNCHANGED <<left, rec, asking, pend, hands>>

\* closeOpenRun: a run the path leaves open is ended.
Closed(p, b) ==
    IF OpenRun(p)
    THEN Append(p, [k |-> "end", c |-> 0, v |-> OpenCalls(p), b |-> b])
    ELSE p

\* The process dies, and session.Resume opens the record again.
CrashAndResume ==
    /\ budget.crashes > 0 /\ nrun > 0
    /\ budget' = [budget EXCEPT !.crashes = @ - 1]
    /\ path' = Closed(path, Cardinality(left)) /\ UNCHANGED left
    /\ Seeded(path', left)
    /\ UNCHANGED <<nrun, hands>>

\* Recorder.Rebase to any entry, the n-th of the path p, be it the one at
\* the leaf or one left, or to none, which is the reset; and an agent
\* seeded from there.
Rebase(p, n) ==
    /\ phase = "idle" /\ run = 0 /\ nrun > 0 /\ budget.rebases > 0
    /\ p \in left \cup {path} /\ n \in 0..Len(p)
    /\ budget' = [budget EXCEPT !.rebases = @ - 1]
    /\ left' = left \cup {path}
    /\ path' = Closed(SubSeq(p, 1, n), Cardinality(left'))
    /\ Seeded(path', left')
    /\ UNCHANGED <<nrun, hands>>

Next ==
    \/ RunStart \/ Execute \/ Abort \/ Drained \/ OutsDone \/ RunEnd
    \/ Resume \/ CrashAndResume
    \/ \E p \in left \cup {path} : \E n \in 0..Len(p) : Rebase(p, n)
    \/ \E c \in Calls :
          \/ CallItem(c) \/ Dispatch(c) \/ ToolReturns(c) \/ ToolEnd(c)
          \/ AppendOut(c) \/ Ask(c) \/ Told(c)
          \/ \E d \in budget.decisions, args \in budget.args :
                ToolStart(c, d, args)

Spec == Init /\ [][Next]_vars

-----------------------------------------------------------------------------
(* Properties.                                                             *)

\* What the recorder's memory says of a call is what the path it has
\* written says of it to a recorder that opens the record now, at every
\* event, whatever write failed before; so both write the same decisions.
LiveIsSeeded ==
    /\ \A c \in Calls :
          LET r == rec[c] s == CallRecordOf(path, left, c) IN
          /\ r.known = s.known /\ r.answered = s.answered
          /\ r.known /\ ~r.answered =>
                /\ r.held = s.held /\ r.dispatched = s.dispatched
                /\ r.rejected = s.rejected /\ r.ended = s.ended
                /\ r.unknown = s.unknown /\ r.result = s.result
    /\ run # 0 => open = OpenCalls(path)

\* The call was refused before its tool was given it: each hand-off is on a
\* branch opened since the reject.
RefusedFirst(c) ==
    \A i \in At(path, c, {"reject"}), j \in DOMAIN hands[c] :
        hands[c][j].at # <<>> /\ hands[c][j].at[1] > path[i].b

\* Were the process to die now, no call that its tool was given would be
\* read as one that never started, nor as refused, unless a rewind has gone
\* back to a branch that refused it before another ran it; and one whose
\* tool waits on a person would be read with the question that it waits on,
\* whatever was asked under it before.
PendingIsSound ==
    \A c \in Unanswered(path) : hands[c] # <<>> =>
        LET p == PendingCall(path, left, c) IN
        /\ \/ MayHaveRun(p) \/ p.why \in {"answered", "returned"}
           \/ p.why = "rejected" /\ RefusedFirst(c)
        /\ asking[c] # <<>> => MayHaveRun(p) /\ p.question = asking[c]

\* Over crashes and rewinds, a tool that may not run twice is given a call
\* once, and one that tells repeats by their key is given the same key and
\* the same arguments.
RepeatsAreSafe ==
    \A c \in Calls : \A i, j \in DOMAIN hands[c] : i < j =>
        \/ Replay[c] = "safe"
        \/ /\ Replay[c] = "keyed"
           /\ hands[c][i].key = hands[c][j].key
           /\ hands[c][i].args = hands[c][j].args

\* What the path says of a call is true of it: a call it rejects had not
\* run on any branch when it was rejected, and has not on this one since;
\* and an output that no decision gave is the tool's own.
DecisionsAreTrue ==
    \A c \in Calls :
        /\ RefusedFirst(c)
        /\ \A i \in At(path, c, {"output"}) :
              Has(path, c, {"call"}) /\ ~Has(path, c, {"answer", "reject"})
                 => path[i].v = "own" /\ hands[c] # <<>>

\* Every hand-off of a call to its tool is a dispatch in the log, with the
\* key and the arguments the tool was given.
RanAsRecorded ==
    \A c \in Calls : \A i \in DOMAIN hands[c] :
        LET h == hands[c][i] IN
        /\ h.at # <<>>
        /\ \E p \in left \cup {path} :
              /\ h.at[2] \in Dispatches(p, c)
              /\ p[h.at[2]].b = h.at[1]
              /\ p[h.at[2]].v = h.key
              /\ ArgsBefore(p, c, h.at[2]) = h.args

\* The record is true of the calls: of those that ran and those that did not.
RecordIsTrue == DecisionsAreTrue /\ RanAsRecorded
=============================================================================
