------------------------------- MODULE Inbox -------------------------------
(***************************************************************************)
(* The session recorder's inbox (session/session.go): the inputs a host    *)
(* hands to the agent through the recorder, each written to the log as a   *)
(* queued entry before the agent has it, named by the item that drains it, *)
(* written again after each run end that closes its entry, and handed back *)
(* to the agent of the next process when this one dies.                    *)
(*                                                                         *)
(* An input is [p, x, d]: the item's identity in memory, its content and   *)
(* trigger, which is all the log keeps of it, and whether it is a          *)
(* delivery.  A handler runs under the recorder's lock and is one step,    *)
(* cut short by a failed write or, at a run end, by a crash; a host's call *)
(* lets go of the lock between its entry and the agent's answer.           *)
(***************************************************************************)
EXTENDS Integers, Sequences, FiniteSets

CONSTANTS
    Inputs,     \* the inputs hosts submit, positive numbers
    Content,    \* the content of each
    Delivery,   \* those that are deliveries
    Budgets     \* bounds: which inputs are submitted, and how many runs,
                \* crashes, failed writes and rewinds there are

Contents == {Content[i] : i \in Inputs}

ASSUME InboxAssumption ==
    /\ Inputs \subseteq Nat \ {0} /\ IsFiniteSet(Inputs)
    /\ DOMAIN Content = Inputs /\ Delivery \subseteq Inputs
    /\ \A b \in Budgets :
          /\ b.inputs \subseteq Inputs
          /\ \A f \in {"runs", "crashes", "fails", "rebases"} : b[f] \in Nat

VARIABLES
    path,       \* the log's path
    left,       \* the paths that rewinds left, which the log keeps
    running,    \* a run is open
    inbox,      \* writer.inbox
    agq, evq,   \* the agent's queue, and its queued events not yet seen
    pc,         \* how far each submission has come
    budget,     \* what is left of the bounds
    acked,      \* history: inputs whose acceptance was acknowledged, and
    submitted,  \* inputs submitted, for each content: one that a return to
                \* a branch left writes there anew is submitted to it
    warned      \* history: a run end or a rewind reported that it did not
                \* write all of them

vars == <<path, left, running, inbox, agq, evq, pc, budget, acked, submitted,
          warned>>

-----------------------------------------------------------------------------
(* The log, as agentsession reads it.                                      *)

Queued(in)   == [k |-> "queued", x |-> in.x, d |-> in.d, from |-> 0]
Item(x, from) == [k |-> "item", x |-> x, d |-> FALSE, from |-> from]
Mark(k)      == [k |-> k, x |-> "none", d |-> FALSE, from |-> 0]

\* PendingQueued: the queued entries that no item drained and no run end
\* closed.
PendingQueued(p) ==
    {e \in DOMAIN p :
        /\ p[e].k = "queued"
        /\ \A j \in (e + 1)..Len(p) : p[j].k # "end" /\ p[j].from # e}

OpenRun(p) ==
    \E s \in DOMAIN p : p[s].k = "start" /\ \A j \in s..Len(p) : p[j].k # "end"

\* A set of places, in order.
InOrder(S) ==
    [n \in 1..Cardinality(S) |->
        CHOOSE e \in S : Cardinality({f \in S : f < e}) = n - 1]

-----------------------------------------------------------------------------
(* The writer's handlers, as functions of the inbox.                       *)

InboxItem(i, entry, held) ==
    [p |-> i.p, x |-> i.x, d |-> i.d, entry |-> entry, held |-> held,
     awaiting |-> FALSE, declined |-> FALSE, holder |-> FALSE]

Of(p) == [p |-> p, x |-> Content[p], d |-> p \in Delivery]
Input(in) == [p |-> in.p, x |-> in.x, d |-> in.d]

\* The inputs that no entry on the path holds, in the inbox's order.
Missing(ib) == InOrder({j \in DOMAIN ib : ib[j].entry = 0})

\* requeue: each of them is written, or the first n where a write fails.
Requeued(p, ib, n) == p \o [j \in 1..n |-> Queued(ib[Missing(ib)[j]])]

InboxRequeued(p, ib, n) ==
    [j \in DOMAIN ib |->
        IF \E m \in 1..n : Missing(ib)[m] = j
        THEN [ib[j] EXCEPT !.entry =
                 Len(p) + CHOOSE m \in 1..n : Missing(ib)[m] = j]
        ELSE ib[j]]

\* decline
Declined(ib, ps) ==
    [j \in DOMAIN ib |->
        IF ib[j].p \in ps
        THEN [ib[j] EXCEPT !.held = FALSE, !.awaiting = FALSE,
                           !.declined = TRUE]
        ELSE ib[j]]

Without(ib, j) == SubSeq(ib, 1, j - 1) \o SubSeq(ib, j + 1, Len(ib))

\* The first of the places of a kind, or 0.
FirstOf(S) == IF S = {} THEN 0 ELSE CHOOSE j \in S : \A m \in S : j <= m

\* The inputs of an inbox at these places, in its order; and those the agent
\* holds.
At(ib, S) == [n \in 1..Cardinality(S) |-> ib[InOrder(S)[n]]]

Held(ib) == At(ib, {j \in DOMAIN ib : ib[j].held})

\* endInbox: what the agent does not hold is dropped, and the end has closed
\* the entries of the rest.
EndInbox(ib) ==
    LET held == Held(ib) IN
    [j \in DOMAIN held |-> [held[j] EXCEPT !.entry = 0]]

\* seed, with what the path owes.
SeedInbox(p) ==
    LET es == InOrder(PendingQueued(p)) IN
    [n \in DOMAIN es |->
        InboxItem([p |-> -es[n], x |-> p[es[n]].x, d |-> p[es[n]].d],
                  es[n], FALSE)]

\* Mutant: an open run is closed, and what it owed is not written again.
CloseOpenRunDrops(p, keep) ==
    IF OpenRun(p) THEN Append(p, Mark("end")) ELSE p

\* closeOpenRun: an open run is ended, and what it owed written again.
CloseOpenRun(p, keep) ==
    LET es == InOrder(PendingQueued(p)) IN
    IF ~OpenRun(p) THEN p
    ELSE Append(p, Mark("end")) \o
         (IF keep THEN [n \in DOMAIN es |-> p[es[n]]] ELSE <<>>)

-----------------------------------------------------------------------------

Init ==
    /\ path = <<>> /\ left = {} /\ running = FALSE /\ inbox = <<>>
    /\ agq = <<>> /\ evq = <<>>
    /\ pc = [i \in Inputs |-> "new"]
    /\ budget \in Budgets
    /\ acked = [x \in Contents |-> 0]
    /\ submitted = [x \in Contents |-> 0] /\ warned = FALSE

Spend(f) == budget[f] > 0 /\ budget' = [budget EXCEPT ![f] = @ - 1]

\* The inbox ib is requeued, whole.
Requeues(ib) ==
    LET n == Len(Missing(ib)) IN
    /\ path' = Requeued(path, ib, n)
    /\ inbox' = InboxRequeued(path, ib, n)

\* A write fails after n of them; the callers differ in what they keep.
RequeueFails(ib, n) ==
    /\ Spend("fails")
    /\ path' = Requeued(path, ib, n)

\* Recorder.Queue, Deliver and Accept, up to the agent's turn: the entry is
\* written, or the call fails and the input is taken back, by Queue, or
\* declined, by writeDelivery.
Submit(i) ==
    LET ib == Append(inbox, [InboxItem(Of(i), 0, TRUE) EXCEPT
                                !.awaiting = TRUE])
    IN
    /\ i \in budget.inputs /\ pc[i] = "new"
    /\ submitted' = [submitted EXCEPT ![Content[i]] = @ + 1]
    /\ \/ /\ Requeues(ib) /\ pc' = [pc EXCEPT ![i] = "written"]
          /\ UNCHANGED budget
       \/ \E n \in 0..(Len(Missing(ib)) - 1) :
             LET ib2 == InboxRequeued(path, ib, n) IN
             /\ RequeueFails(ib, n)
             /\ pc' = [pc EXCEPT ![i] = "failed"]
             /\ inbox' = IF i \in Delivery THEN Declined(ib2, {i})
                         ELSE SubSeq(ib2, 1, Len(inbox))
    /\ UNCHANGED <<left, running, agq, evq, acked, warned>>

\* The agent takes the input, and its queued event is owed, or refuses it.
Handover(i) ==
    /\ pc[i] = "written"
    /\ \/ /\ agq' = Append(agq, Of(i)) /\ evq' = Append(evq, Of(i))
          /\ pc' = [pc EXCEPT ![i] = "acked"] /\ UNCHANGED inbox
          /\ acked' = [acked EXCEPT ![Content[i]] = @ + 1]
       \/ /\ inbox' = Declined(inbox, {i})
          /\ pc' = [pc EXCEPT ![i] = "failed"]
          /\ UNCHANGED <<agq, evq, acked>>
    /\ UNCHANGED <<path, left, running, budget, submitted, warned>>

\* A host queues into the agent itself.
QueueAtAgent(i) ==
    /\ i \in budget.inputs /\ pc[i] = "new"
    /\ pc' = [pc EXCEPT ![i] = "direct"]
    /\ agq' = Append(agq, Of(i)) /\ evq' = Append(evq, Of(i))
    /\ submitted' = [submitted EXCEPT ![Content[i]] = @ + 1]
    /\ UNCHANGED <<path, left, running, inbox, budget, acked, warned>>

\* writer.queued: the event of an input the path holds writes nothing.
QueuedEvent ==
    /\ evq # <<>> /\ evq' = Tail(evq)
    /\ LET in == Head(evq)
           j  == FirstOf({m \in DOMAIN inbox :
                             inbox[m].awaiting /\ inbox[m].p = in.p})
           ib == Append(inbox, InboxItem(in, 0, TRUE))
       IN
       \/ /\ j # 0 /\ inbox' = [inbox EXCEPT ![j].awaiting = FALSE]
          /\ UNCHANGED <<path, budget>>
       \/ j = 0 /\ Requeues(ib) /\ UNCHANGED budget
       \/ /\ j = 0
          /\ \E n \in 0..(Len(Missing(ib)) - 1) :
                RequeueFails(ib, n) /\ inbox' = InboxRequeued(path, ib, n)
    /\ UNCHANGED <<left, running, agq, pc, acked, submitted, warned>>

RunStart ==
    /\ ~running /\ Spend("runs")
    /\ running' = TRUE /\ path' = Append(path, Mark("start"))
    /\ UNCHANGED <<left, inbox, agq, evq, pc, acked, submitted, warned>>

\* drained, and itemFrom's append: the turn takes an input whose queued
\* event was seen, and the item names the entry that held it.
Drain ==
    /\ running /\ agq # <<>>
    /\ LET in == Head(agq)
           j  == FirstOf({m \in DOMAIN inbox :
                             inbox[m].held /\ inbox[m].p = in.p})
       IN
       /\ \A m \in DOMAIN evq : evq[m] # in
       /\ agq' = Tail(agq)
       /\ inbox' = IF j = 0 THEN inbox ELSE Without(inbox, j)
       /\ path' = Append(path, Item(in.x, IF j = 0 THEN 0
                                          ELSE inbox[j].entry))
    /\ UNCHANGED <<left, running, evq, pc, budget, acked, submitted, warned>>

\* What the log accounts for of each content: appended, or owed.
Accounted(p) ==
    [x \in Contents |-> Cardinality({e \in DOMAIN p : p[e].x = x /\
                                        (p[e].k = "item"
                                         \/ e \in PendingQueued(p))})]

\* The inputs of an inbox that a run end drops, for each content.
Dropped(ib) ==
    [x \in Contents |-> Cardinality({j \in DOMAIN ib : ib[j].x = x /\
                                        ~ib[j].held /\ ~ib[j].declined})]

Monus(f, g) ==
    [x \in Contents |-> IF f[x] < g[x] THEN 0 ELSE f[x] - g[x]]

\* runEnd: the end, and endInbox.  A failed write is the run's error.
RunEnd ==
    LET ended == Append(path, Mark("end")) ib == EndInbox(inbox)
        n == Len(Missing(ib))
    IN
    /\ running /\ running' = FALSE
    /\ \/ /\ path' = Requeued(ended, ib, n)
          /\ inbox' = InboxRequeued(ended, ib, n) /\ UNCHANGED budget
          /\ UNCHANGED warned
       \/ /\ Spend("fails")
          /\ \E m \in 0..(n - 1) :
                /\ path' = Requeued(ended, ib, m)
                /\ inbox' = InboxRequeued(ended, ib, m)
          /\ warned' = TRUE
    /\ acked' = Monus(acked, Dropped(inbox))
    /\ UNCHANGED <<left, agq, evq, pc, submitted>>

\* The process dies with the log at p, and session.Resume opens it again.
\* lost is history: the inputs accepted that p no longer holds.
RestartedFrom(p, lost) ==
    /\ Spend("crashes")
    /\ path' = CloseOpenRun(p, TRUE)
    /\ inbox' = SeedInbox(path')
    /\ running' = FALSE /\ agq' = <<>> /\ evq' = <<>>
    /\ pc' = [i \in Inputs |-> IF pc[i] = "written" THEN "failed" ELSE pc[i]]
    /\ acked' = Monus(acked, lost)
    /\ UNCHANGED <<left, submitted, warned>>

Crash == RestartedFrom(path, [x \in Contents |-> 0])

\* It dies in runEnd, with m of the entries written again: the end has
\* closed those of the others.
CrashInEnd ==
    LET ended == Append(path, Mark("end")) ib == EndInbox(inbox) IN
    /\ running
    /\ \E m \in 0..(Len(Missing(ib)) - 1) :
          RestartedFrom(Requeued(ended, ib, m),
                        Monus(Accounted(path), Accounted(Requeued(ended, ib, m))))

Owed(in) == ~in.held /\ ~in.declined /\ in.entry # 0

\* Recorder.Requeue: what the path owes is handed to the agent, ...
Requeue ==
    LET owed == At(inbox, {j \in DOMAIN inbox : Owed(inbox[j])}) IN
    /\ owed # <<>>
    /\ inbox' = [j \in DOMAIN inbox |->
          IF Owed(inbox[j])
          THEN [inbox[j] EXCEPT !.held = TRUE, !.awaiting = TRUE,
                                !.holder = TRUE]
          ELSE inbox[j]]
    /\ agq' = agq \o [j \in DOMAIN owed |-> Input(owed[j])]
    /\ evq' = evq \o [j \in DOMAIN owed |-> Input(owed[j])]
    /\ UNCHANGED <<path, left, running, pc, budget, acked, submitted, warned>>

\* The deliveries of that content that are owed and that no turn has taken
\* up, and owedDelivery, the first of them.
OwedDeliveries(x) ==
    {j \in DOMAIN inbox :
        /\ inbox[j].x = x /\ inbox[j].d /\ ~inbox[j].declined
        /\ inbox[j].entry # 0
        /\ inbox[j].held => inbox[j].awaiting}

OwedDelivery(x) == FirstOf(OwedDeliveries(x))

\* Recorder.Redeliver: a message that a front sends, or sends again, is the
\* delivery the path owes, unless the agent has reported it since; one that
\* is not found there is a new input.
Redeliver(i) ==
    LET j == OwedDelivery(Content[i])
        ib == Append(inbox, [InboxItem(Of(i), 0, TRUE) EXCEPT
                                !.awaiting = TRUE, !.holder = TRUE])
        \* history: the input is one that the path owes.  Beside an input
        \* alike of another caller it counts as a new one, which a front
        \* names apart in its trigger.
        same == /\ OwedDeliveries(Content[i]) # {}
                /\ \A m \in OwedDeliveries(Content[i]) :
                      inbox[m].held => inbox[m].holder
    IN
    /\ i \in budget.inputs /\ pc[i] = "new" /\ i \in Delivery
    /\ \/ /\ j # 0 /\ inbox[j].held /\ inbox[j].holder
          /\ pc' = [pc EXCEPT ![i] = "failed"]
          /\ UNCHANGED <<path, inbox, budget>>
       \/ /\ j # 0 /\ ~inbox[j].held /\ pc' = [pc EXCEPT ![i] = "written"]
          /\ inbox' = [inbox EXCEPT ![j].p = i, ![j].held = TRUE,
                                    ![j].awaiting = TRUE, ![j].holder = TRUE]
          /\ UNCHANGED <<path, budget>>
       \/ /\ j # 0 => inbox[j].held /\ ~inbox[j].holder
          /\ Requeues(ib) /\ pc' = [pc EXCEPT ![i] = "written"]
          /\ UNCHANGED budget
       \/ /\ j # 0 => inbox[j].held /\ ~inbox[j].holder
          /\ pc' = [pc EXCEPT ![i] = "failed"]
          /\ \E n \in 0..(Len(Missing(ib)) - 1) :
                /\ RequeueFails(ib, n)
                /\ inbox' = SubSeq(InboxRequeued(path, ib, n), 1, Len(inbox))
    /\ submitted' = [submitted EXCEPT ![Content[i]] = IF same THEN @ ELSE @ + 1]
    /\ acked' = [acked EXCEPT ![Content[i]] =
                    IF j # 0 /\ ~inbox[j].held /\ @ > 0 THEN @ - 1 ELSE @]
    /\ UNCHANGED <<left, running, agq, evq, warned>>

\* Mutant: an input the agent holds is written on every branch it moves to.
RebasedAnew(ib, p) == [j \in DOMAIN ib |-> [ib[j] EXCEPT !.entry = 0]]

\* Rebase's search: an input held keeps an entry that is pending on the
\* branch, or takes the first there that holds the same input and that
\* nobody claims: of several inputs alike the r-th takes the r-th.
Rebased(ib, p) ==
    LET owed == PendingQueued(p)
        free(in) == {e \in owed : /\ p[e].x = in.x /\ p[e].d = in.d
                                  /\ \A j \in DOMAIN ib : ib[j].entry # e}
        rank(j) == Cardinality({m \in 1..j :
                       /\ ib[m].x = ib[j].x /\ ib[m].d = ib[j].d
                       /\ ib[m].entry \notin owed})
    IN [j \in DOMAIN ib |->
          [ib[j] EXCEPT !.entry =
              IF @ \in owed THEN @
              ELSE IF rank(j) > Cardinality(free(ib[j])) THEN 0
              ELSE InOrder(free(ib[j]))[rank(j)]]]

\* The paths p and q hold the same entry at e.  Entries alike, after entries
\* alike, are one: the search gives them to inputs alike.
Shares(p, q, e) ==
    /\ e <= Len(p) /\ e <= Len(q)
    /\ SubSeq(p, 1, e) = SubSeq(q, 1, e)

\* The inbox of the path p, on a move to the path q.
MovedTo(q, p, ib) ==
    [j \in DOMAIN ib |->
        [ib[j] EXCEPT !.entry = IF Shares(p, q, @) THEN @ ELSE 0]]

\* Recorder.Rebase to an entry of the path or of one left, while no run is
\* open, or to a new root: what the agent holds stays with it, and the rest
\* is forgotten.  A failed write is its error.
Rebase(q, n) ==
    LET p == CloseOpenRun(SubSeq(q, 1, n), FALSE)
        ib == Rebased(MovedTo(q, path, Held(inbox)), p)
        m == Len(Missing(ib))
    IN
    /\ ~running /\ budget.rebases > 0
    /\ \/ /\ path' = Requeued(p, ib, m) /\ inbox' = InboxRequeued(p, ib, m)
          /\ budget' = [budget EXCEPT !.rebases = @ - 1]
          /\ UNCHANGED warned
       \/ /\ budget.fails > 0
          /\ budget' = [budget EXCEPT !.rebases = @ - 1, !.fails = @ - 1]
          /\ \E k \in 0..(m - 1) :
                /\ path' = Requeued(p, ib, k)
                /\ inbox' = InboxRequeued(p, ib, k)
          /\ warned' = TRUE
    /\ left' = left \cup {path}
    /\ acked' = [x \in Contents |->
          Cardinality({e \in 1..n : q[e].k = "item" /\ q[e].x = x})
          + Cardinality({j \in DOMAIN ib :
                /\ ib[j].x = x
                /\ ib[j].p > 0 => pc[ib[j].p] # "written"})]
    /\ submitted' = [x \in Contents |->
          IF Shares(path, q, n) THEN submitted[x]
          ELSE submitted[x] + Cardinality({j \in DOMAIN ib :
                                  ib[j].entry = 0 /\ ib[j].x = x})]
    /\ UNCHANGED <<running, agq, evq, pc>>

Next ==
    \/ QueuedEvent \/ RunStart \/ Drain \/ RunEnd \/ Crash
    \/ CrashInEnd \/ Requeue
    \/ \E i \in Inputs : \/ Submit(i) \/ Handover(i) \/ QueueAtAgent(i)
                         \/ Redeliver(i)
    \/ \E q \in left \cup {path} : \E n \in 0..Len(q) : Rebase(q, n)

Spec == Init /\ [][Next]_vars

-----------------------------------------------------------------------------
(* Properties.                                                             *)

\* An input whose acceptance the recorder acknowledged is on the path, as
\* the item that drained it or as a queued entry it still owes, over run
\* ends, crashes and rewinds, unless the host declined it, rewound to before
\* it, or was told that the write failed, or the process died inside runEnd,
\* after the end closed its entry and before it was written again.
AcceptedIsKept == ~warned => \A x \in Contents : acked[x] <= Accounted(path)[x]

\* No input is on the path more often than it was submitted, be it written
\* again by a run end or a rewind, handed back after a crash or sent again,
\* save one that the host holds and takes to a branch it had left, where an
\* item may be what that input became there.
NotTwice == \A x \in Contents : Accounted(path)[x] <= submitted[x]

\* Each input of the inbox has a queued entry of its own on the path, still
\* owed, which holds it, or is to be written; and what the agent holds and
\* has reported is in the inbox.
InboxIsOwed ==
    /\ \A j \in DOMAIN inbox : inbox[j].entry # 0 =>
          /\ inbox[j].entry \in PendingQueued(path)
          /\ path[inbox[j].entry].x = inbox[j].x
          /\ \A m \in DOMAIN inbox : m # j => inbox[m].entry # inbox[j].entry
    /\ \A j \in DOMAIN agq :
          \/ \E m \in DOMAIN evq : evq[m].p = agq[j].p
          \/ \E m \in DOMAIN inbox : inbox[m].p = agq[j].p /\ inbox[m].held

\* The inbox, the agent's queue and the path hold each input once, and the
\* same ones.
InboxIsExact == NotTwice /\ InboxIsOwed
=============================================================================
