--------------------------- MODULE ExecutorProofs ---------------------------
(***************************************************************************)
(* Theorems about Executor, for any number of tasks, messages and cancels, *)
(* of failures and of restarts, and any bounds on steers and handoffs.     *)
(***************************************************************************)
EXTENDS Executor, TLAPS

-----------------------------------------------------------------------------
(* The inductive invariant.                                                *)

MessagePCs == {"new", "sent", "steered", "held", "ready", "run", "ended",
               "last", "closing", "save", "tell", "done"}

MessageState ==
    [pc : MessagePCs, task : Tasks \cup {None}, ans : SUBSET Calls,
     reason : Reasons \cup {"none"}, left : SUBSET Calls, cut : BOOLEAN,
     werr : BOOLEAN, hand : Nat, bounded : BOOLEAN]

CancelState ==
    [pc : {"new", "sent", "drop", "settle", "tell", "done"},
     task : Tasks \cup {None}, listed : SUBSET Calls,
     how : {"none", "abort", "other", "settle"}, late : SUBSET Messages]

TypeOK ==
    /\ busy \in BOOLEAN /\ active \in Tasks \cup {None}
    /\ mark \in Tasks \cup {None} /\ waiting \in Tasks \cup {None}
    /\ rt \in [Tasks -> {"none", "open", "closed"}]
    /\ steered \in [Tasks -> SUBSET Messages]
    /\ queue \in [Tasks -> SUBSET Messages]
    /\ owed \in [task : Tasks \cup {None}, steers : SUBSET Messages]
    /\ stored \in SUBSET Calls
    /\ msg \in [Messages -> MessageState] /\ can \in [Cancels -> CancelState]
    /\ status \in [Tasks -> {"new", "working", "input"} \cup Ended]
    /\ listed \in [Tasks -> SUBSET Calls]
    /\ quiet \in BOOLEAN /\ torn \in BOOLEAN

\* A message holds the conversation from its claim to its release, and its
\* task's run is open for a part of that.
Holds(m) == msg[m].pc \in {"held", "ready", "run", "ended", "last", "closing",
                           "save"}
Runs(m) == msg[m].pc \in {"run", "ended", "last", "closing"}

\* So does a cancel that settles.
CancelHolds(k) == can[k].how = "settle" /\ can[k].pc \in {"drop", "settle", "tell"}

\* How far a request has come goes with what it carries.
ShapeInv ==
    /\ \A m \in Messages :
        /\ msg[m].pc = "new" => msg[m].task = None
        /\ msg[m].pc # "new" => msg[m].task \in Tasks
        /\ msg[m].pc \in {"ended", "closing", "save", "tell"} =>
              msg[m].reason \in Reasons
        /\ msg[m].pc \in {"last", "closing"} => msg[m].bounded
        /\ msg[m].werr => ~quiet
    /\ \A k \in Cancels :
        /\ can[k].pc # "new" => can[k].task \in Tasks
        /\ can[k].pc \in {"new", "sent"} => can[k].how = "none"
        /\ can[k].pc \notin {"new", "sent", "done"} => can[k].how # "none"
        /\ can[k].pc = "settle" => can[k].how = "settle"

\* The conversation has one holder at a time, and active is its task, or
\* nothing where the holder is a cancel.
HoldInv ==
    /\ \A m \in Messages : Holds(m) => busy /\ active = msg[m].task
    /\ \A m, n \in Messages : Holds(m) /\ Holds(n) => m = n
    /\ \A k \in Cancels : CancelHolds(k) => busy /\ active = None
    /\ \A j, k \in Cancels : CancelHolds(j) /\ CancelHolds(k) => j = k
    /\ ~busy => active = None

\* A task has one execution at a time, and takes steers while its run is on.
TaskInv ==
    /\ \A m, n \in Messages :
          Executing(m) /\ Executing(n) /\ msg[m].task = msg[n].task => m = n
    /\ \A m \in Messages : Runs(m) => rt[msg[m].task] = "open"
    /\ \A t \in Tasks : rt[t] = "open" =>
          \E m \in Messages : Runs(m) /\ msg[m].task = t

\* A run of a message that failed or was aborted, for good.
Final(m) == /\ msg[m].reason \in {"aborted", "error"}
            /\ msg[m].pc \in {"save", "tell", "done"}

\* What excuses a steer that was dropped with a task: it was given up.
Excused(t) ==
    \/ \E m \in Messages :
          /\ msg[m].task = t
          /\ Final(m) \/ msg[m].bounded \/ msg[m].werr
    \/ \E k \in Cancels : can[k].task = t /\ can[k].how # "none"

\* Where a steer that was accepted is.
Served(s) ==
    \/ s \in taken \/ s \in owed.steers \/ s \in lost
    \/ \E t \in Tasks : s \in queue[t] /\ rt[t] = "open"
    \/ \E t \in Tasks : <<s, t>> \in dropped /\ Excused(t)

\* Nothing is owed while a run is on: track took it, so that what outstanding
\* leaves overwrites nothing.
SteerInv ==
    /\ \A t \in Tasks : rt[t] = "open" => queue[t] \subseteq steered[t]
    /\ \A m \in Messages : Runs(m) => owed.steers = {}
    /\ \A s \in Messages : msg[s].pc = "steered" => Served(s)

\* A message that was on its way when a cancel of its task took hold can
\* only be refused until the cancel has left its mark, and from then on it
\* meets the mark, or the mark has been taken.
LateInv ==
    quiet => \A k \in Cancels : can[k].how = "settle" =>
        \A m \in can[k].late :
            /\ msg[m].pc # "new" /\ msg[m].task = can[k].task
            /\ can[k].pc \in {"drop", "settle"} => msg[m].pc \in {"sent", "done"}
            /\ can[k].pc \in {"tell", "done"} =>
                  \/ msg[m].task \in moved
                  \/ msg[m].pc = "sent" /\ mark = msg[m].task
                  \/ msg[m].pc \in {"tell", "done"}

\* A message that asks, or is about to.
Asks(m, t) == msg[m].pc = "tell" /\ msg[m].reason = "input" /\ msg[m].task = t

\* The holder has put the stored calls to the agent.
Active(m) == Runs(m) \/ msg[m].pc = "save"

\* Unless a run has taken the stored calls up, the caller of the task that
\* is waited on knows them, or is about to be told exactly them.
AskInv ==
    ~torn /\ stored # {} /\ (\A m \in Messages : ~Active(m)) =>
        /\ waiting \in Tasks
        /\ \/ status[waiting] \in Ended
           \/ status[waiting] = "input" /\ listed[waiting] = AskedFor(waiting)
           \/ \E m \in Messages : Asks(m, waiting)
        /\ \A m \in Messages : Asks(m, waiting) => msg[m].left = AskedFor(waiting)

ExecutorInv == /\ TypeOK /\ ShapeInv /\ HoldInv /\ TaskInv /\ SteerInv
               /\ LateInv /\ AskInv

-----------------------------------------------------------------------------
(* What each step does to the requests, field by field.                    *)

\* What the invariant tells of a message is as it was.
Still(n) ==
    /\ msg'[n].pc = msg[n].pc /\ msg'[n].task = msg[n].task
    /\ msg'[n].reason = msg[n].reason /\ msg'[n].left = msg[n].left
    /\ msg'[n].werr = msg[n].werr /\ msg'[n].bounded = msg[n].bounded

\* No message but m moves.
Moves(m) ==
    /\ msg' \in [Messages -> MessageState]
    /\ \A n \in Messages \ {m} : Still(n)

\* Message m goes to a place, and its task stays.
Goto(m, place) == msg'[m].pc = place /\ msg'[m].task = msg[m].task

\* What is said of how the run ended stays.
SameEnd(m) == msg'[m].reason = msg[m].reason /\ msg'[m].left = msg[m].left

SameFlags(m) == msg'[m].werr = msg[m].werr /\ msg'[m].bounded = msg[m].bounded

\* No cancel but k moves, and its task stays.
CancelMoves(k) ==
    /\ can' \in [Cancels -> CancelState]
    /\ \A j \in Cancels \ {k} : can'[j] = can[j]

\* A message is replaced.
LEMMA Replaced ==
    ASSUME TypeOK, NEW m \in Messages, NEW r \in MessageState,
           msg' = [msg EXCEPT ![m] = r]
    PROVE  Moves(m) /\ msg'[m] = r
  BY DEF TypeOK, Moves, Still

\* A message only goes to another place.
LEMMA GoneTo ==
    ASSUME TypeOK, NEW m \in Messages, NEW p \in MessagePCs,
           msg' = [msg EXCEPT ![m].pc = p]
    PROVE  Moves(m) /\ Goto(m, p) /\ SameEnd(m) /\ SameFlags(m)
<1> DEFINE r == [msg[m] EXCEPT !.pc = p]
<1>1. msg[m] \in MessageState BY DEF TypeOK
<1>2. /\ r \in MessageState /\ r.pc = p /\ r.task = msg[m].task
      /\ r.reason = msg[m].reason /\ r.left = msg[m].left
      /\ r.werr = msg[m].werr /\ r.bounded = msg[m].bounded
  BY <1>1 DEF MessageState
<1>3. msg' = [msg EXCEPT ![m] = r] OBVIOUS
<1> HIDE DEF r
<1>4. Moves(m) /\ msg'[m] = r BY <1>2, <1>3, Replaced
<1> QED BY <1>2, <1>4 DEF Goto, SameEnd, SameFlags

\* A message goes to another place, and how it ended is set.
LEMMA EndedAt ==
    ASSUME TypeOK, NEW m \in Messages, NEW p \in MessagePCs,
           NEW why \in Reasons, NEW calls \in SUBSET Calls,
           msg' = [msg EXCEPT ![m].pc = p, ![m].reason = why, ![m].left = calls]
    PROVE  /\ Moves(m) /\ Goto(m, p) /\ SameFlags(m)
           /\ msg'[m].reason = why /\ msg'[m].left = calls
<1> DEFINE r == [msg[m] EXCEPT !.pc = p, !.reason = why, !.left = calls]
<1>1. msg[m] \in MessageState BY DEF TypeOK
<1>2. /\ r \in MessageState /\ r.pc = p /\ r.task = msg[m].task
      /\ r.reason = why /\ r.left = calls
      /\ r.werr = msg[m].werr /\ r.bounded = msg[m].bounded
  BY <1>1 DEF MessageState
<1>3. msg' = [msg EXCEPT ![m] = r] OBVIOUS
<1> HIDE DEF r
<1>4. Moves(m) /\ msg'[m] = r BY <1>2, <1>3, Replaced
<1> QED BY <1>2, <1>4 DEF Goto, SameFlags

\* A message that is let through.
LEMMA SendFacts ==
    ASSUME TypeOK, NEW m \in Messages, NEW t \in Tasks, Send(m, t)
    PROVE  /\ Moves(m) /\ msg[m].pc = "new" /\ msg'[m].pc = "sent"
           /\ msg'[m].task = t /\ SameEnd(m) /\ SameFlags(m)
           /\ rt[t] # "open"
           /\ \A n \in Messages : msg[n].task = t => ~Executing(n)
           /\ status[t] \notin Ended
           /\ status' = [status EXCEPT ![t] = IF @ = "new" THEN "working" ELSE @]
<1>1. PICK ans \in Answers(t) :
          msg' = [msg EXCEPT ![m].pc = "sent", ![m].task = t, ![m].ans = ans]
  BY DEF Send
<1>2. ans \in SUBSET Calls BY DEF Answers, TypeOK
<1>3. msg[m] \in MessageState /\ \A n \in Messages : msg[n] \in MessageState
  BY DEF TypeOK
<1>4. msg' = [msg EXCEPT ![m] = [msg[m] EXCEPT !.pc = "sent", !.task = t,
                                               !.ans = ans]]
  BY <1>1
<1>5. [msg[m] EXCEPT !.pc = "sent", !.task = t, !.ans = ans] \in MessageState
  BY <1>2, <1>3 DEF MessageState, MessagePCs
<1>6. Moves(m) /\ msg'[m].pc = "sent" /\ msg'[m].task = t /\ SameEnd(m)
      /\ SameFlags(m)
  BY <1>3, <1>4, <1>5 DEF Moves, Still, SameEnd, SameFlags, TypeOK,
                          MessageState
<1> QED BY <1>6 DEF Send, Unsent

\* A message that is handed to the agent, or refused as one too many.
LEMMA SteerFacts ==
    ASSUME TypeOK, NEW m \in Messages, NEW t \in Tasks, Steer(m, t)
    PROVE  /\ Moves(m) /\ msg[m].pc = "new" /\ msg'[m].task = t
           /\ SameEnd(m) /\ SameFlags(m) /\ rt[t] = "open"
           /\ \/ /\ msg'[m].pc = "steered"
                 /\ queue' = [queue EXCEPT ![t] = @ \cup {m}]
                 /\ steered' = [steered EXCEPT ![t] = (@ \cap queue[t]) \cup {m}]
              \/ msg'[m].pc = "done" /\ UNCHANGED <<queue, steered>>
<1>1. ASSUME NEW p \in {"steered", "done"},
             msg' = [msg EXCEPT ![m].pc = p, ![m].task = t]
      PROVE  /\ Moves(m) /\ msg'[m].pc = p /\ msg'[m].task = t
             /\ SameEnd(m) /\ SameFlags(m)
  <2> DEFINE r == [msg[m] EXCEPT !.pc = p, !.task = t]
  <2>1. msg[m] \in MessageState BY DEF TypeOK
  <2>2. /\ r \in MessageState /\ r.pc = p /\ r.task = t
        /\ r.reason = msg[m].reason /\ r.left = msg[m].left
        /\ r.werr = msg[m].werr /\ r.bounded = msg[m].bounded
    BY <2>1 DEF MessageState, MessagePCs
  <2>3. msg' = [msg EXCEPT ![m] = r] BY <1>1
  <2> HIDE DEF r
  <2>4. Moves(m) /\ msg'[m] = r BY <2>2, <2>3, Replaced
  <2> QED BY <2>2, <2>4 DEF SameEnd, SameFlags
<1> QED BY <1>1 DEF Steer, Unsent

\* A claim is refused, meets the mark of its task, or holds.
LEMMA ClaimFacts ==
    ASSUME TypeOK, NEW m \in Messages, Claim(m)
    PROVE  /\ Moves(m) /\ SameFlags(m) /\ msg[m].pc = "sent"
           /\ \/ /\ busy /\ Goto(m, "done") /\ SameEnd(m)
                 /\ UNCHANGED <<busy, active, mark, moved>>
              \/ /\ ~busy /\ mark' = None /\ moved' = Passed(msg[m].task)
                 /\ mark = msg[m].task /\ Goto(m, "tell")
                 /\ msg'[m].reason = "aborted"
                 /\ UNCHANGED <<busy, active>>
              \/ /\ ~busy /\ mark' = None /\ moved' = Passed(msg[m].task)
                 /\ mark # msg[m].task /\ Goto(m, "held") /\ SameEnd(m)
                 /\ busy' = TRUE /\ active' = msg[m].task
<1>1. CASE busy BY <1>1, GoneTo DEF Claim, MessagePCs, claims
<1>2. CASE ~busy /\ mark # msg[m].task
  BY <1>2, GoneTo DEF Claim, MessagePCs, Marked
<1>3. CASE ~busy /\ mark = msg[m].task
  <2> DEFINE r == [msg[m] EXCEPT !.pc = "tell", !.reason = "aborted"]
  <2>1. msg[m] \in MessageState BY DEF TypeOK
  <2>2. /\ r \in MessageState /\ r.pc = "tell" /\ r.task = msg[m].task
        /\ r.reason = "aborted"
        /\ r.werr = msg[m].werr /\ r.bounded = msg[m].bounded
    BY <2>1 DEF MessageState, MessagePCs, Reasons
  <2>3. msg' = [msg EXCEPT ![m] = r] BY <1>3 DEF Claim, Marked
  <2> HIDE DEF r
  <2>4. Moves(m) /\ msg'[m] = r BY <2>2, <2>3, Replaced
  <2> QED BY <1>3, <2>2, <2>4 DEF Claim, Marked, Goto, SameFlags
<1> QED BY <1>1, <1>2, <1>3

\* A message that holds is refused, is asked for the calls, or goes on.
LEMMA CheckFacts ==
    ASSUME TypeOK, NEW m \in Messages, Check(m)
    PROVE  /\ Moves(m) /\ SameFlags(m) /\ msg[m].pc = "held"
           /\ \/ /\ Goto(m, "done") /\ SameEnd(m) /\ Freed
                 /\ UNCHANGED <<waiting, torn>> /\ quiet' \in {quiet, FALSE}
              \/ /\ Goto(m, "tell") /\ Freed /\ waiting' = msg[m].task
                 /\ torn' = FALSE /\ msg'[m].reason = "input"
                 /\ msg'[m].left = AskedFor(msg[m].task) /\ UNCHANGED quiet
              \/ /\ Goto(m, "ready") /\ SameEnd(m)
                 /\ UNCHANGED <<busy, active, mark, waiting, torn, quiet>>
<1>1. CASE Returned(m) /\ Freed /\ UNCHANGED <<waiting, torn>>
           /\ quiet' \in {quiet, FALSE}
  BY <1>1, GoneTo DEF Returned, Check, MessagePCs
<1>2. CASE msg' = [msg EXCEPT ![m].pc = "tell", ![m].reason = "input",
                              ![m].left = AskedFor(msg[m].task)]
           /\ waiting' = msg[m].task /\ torn' = FALSE /\ Freed
           /\ UNCHANGED quiet
  <2>1. AskedFor(msg[m].task) \in SUBSET Calls BY DEF AskedFor, TypeOK
  <2>2. "tell" \in MessagePCs /\ "input" \in Reasons
    BY DEF MessagePCs, Reasons
  <2> DEFINE asked == AskedFor(msg[m].task)
  <2>3. /\ asked \in SUBSET Calls
        /\ msg' = [msg EXCEPT ![m].pc = "tell", ![m].reason = "input",
                              ![m].left = asked]
    BY <1>2, <2>1
  <2> HIDE DEF asked
  <2>4. /\ Moves(m) /\ Goto(m, "tell") /\ SameFlags(m)
        /\ msg'[m].reason = "input" /\ msg'[m].left = asked
    BY <2>2, <2>3, EndedAt
  <2>5. /\ Moves(m) /\ Goto(m, "tell") /\ SameFlags(m)
        /\ msg'[m].reason = "input"
        /\ msg'[m].left = AskedFor(msg[m].task)
    BY <2>4 DEF asked
  <2> QED BY <1>2, <2>5 DEF Check
<1>3. CASE /\ msg' = [msg EXCEPT ![m].pc = "ready"]
           /\ UNCHANGED <<busy, active, mark, waiting, torn, quiet>>
  BY <1>3, GoneTo DEF Check, MessagePCs
<1> QED BY <1>1, <1>2, <1>3 DEF Check, Failure, NoFailure, claims

\* A message whose run starts takes what the conversation owes.
LEMMA TrackFacts ==
    ASSUME TypeOK, NEW m \in Messages, Track(m)
    PROVE  /\ Moves(m) /\ SameEnd(m) /\ msg[m].pc = "ready"
           /\ msg'[m].bounded = msg[m].bounded
           /\ quiet' \in {quiet, FALSE} /\ owed' = NoneOwed
           /\ UNCHANGED <<taken, stored, escalated, waiting, torn>>
           /\ \/ /\ Goto(m, "run") /\ UNCHANGED <<busy, active, mark, dropped>>
                 /\ SameFlags(m)
                 /\ rt' = [rt EXCEPT ![msg[m].task] = "open"]
                 /\ \E refused \in SUBSET owed.steers :
                       HandedOn(msg[m].task, refused) /\ lost' = lost \cup refused
                 /\ Told(msg[m].task, "working", {})
              \/ /\ Goto(m, "done") /\ Freed /\ quiet' = FALSE /\ msg'[m].werr
                 /\ dropped' = dropped \cup (owed.steers \X {msg[m].task})
                 /\ UNCHANGED <<rt, steered, queue, status, listed, lost>>
<1>f. /\ quiet' \in {quiet, FALSE} /\ owed' = NoneOwed
      /\ UNCHANGED <<taken, stored, escalated, waiting, torn>>
  BY DEF Track, Failure, NoFailure, stores
<1>1. CASE /\ msg' = [msg EXCEPT ![m].pc = "done", ![m].werr = TRUE]
           /\ Freed /\ quiet' = FALSE
           /\ dropped' = dropped \cup (owed.steers \X {msg[m].task})
           /\ UNCHANGED <<rt, steered, queue, status, listed, lost>>
  <2> DEFINE r == [msg[m] EXCEPT !.pc = "done", !.werr = TRUE]
  <2>1. msg[m] \in MessageState BY DEF TypeOK
  <2>2. /\ r \in MessageState /\ r.pc = "done" /\ r.task = msg[m].task
        /\ r.reason = msg[m].reason /\ r.left = msg[m].left
        /\ r.werr /\ r.bounded = msg[m].bounded
    BY <2>1 DEF MessageState, MessagePCs
  <2>3. msg' = [msg EXCEPT ![m] = r] BY <1>1
  <2> HIDE DEF r
  <2>4. Moves(m) /\ msg'[m] = r BY <2>2, <2>3, Replaced
  <2>5. msg[m].pc = "ready" BY DEF Track
  <2> QED BY <1>1, <1>f, <2>2, <2>4, <2>5 DEF Goto, SameEnd
<1>2. CASE /\ msg' = [msg EXCEPT ![m].pc = "run"]
           /\ UNCHANGED <<busy, active, mark, dropped>>
           /\ rt' = [rt EXCEPT ![msg[m].task] = "open"]
           /\ \E refused \in SUBSET owed.steers :
                 HandedOn(msg[m].task, refused) /\ lost' = lost \cup refused
           /\ Told(msg[m].task, "working", {})
  <2>1. Moves(m) /\ Goto(m, "run") /\ SameEnd(m) /\ SameFlags(m)
    BY <1>2, GoneTo DEF MessagePCs
  <2>2. msg[m].pc = "ready" /\ msg'[m].bounded = msg[m].bounded
    BY <2>1 DEF Track, SameFlags
  <2> QED BY <1>2, <1>f, <2>1, <2>2
<1> QED BY <1>1, <1>2 DEF Track, Failure, server, claims

\* A run ends.
LEMMA EndRunFacts ==
    ASSUME TypeOK, NEW m \in Messages, NEW why \in Reasons,
           NEW calls \in SUBSET Calls, EndRun(m, why, calls)
    PROVE  /\ Moves(m) /\ msg'[m].reason = why
           /\ msg'[m].bounded = msg[m].bounded
           /\ msg'[m].task = msg[m].task /\ (msg[m].werr => msg'[m].werr)
           /\ \/ /\ SameFlags(m) /\ UNCHANGED quiet
                 /\ \/ msg[m].pc = "run" /\ Goto(m, "ended")
                    \/ msg[m].pc = "last" /\ Goto(m, "closing")
              \/ /\ msg[m].pc = "run" /\ Goto(m, "ended") /\ quiet' = FALSE
<1> DEFINE p == IF msg[m].pc = "run" THEN "ended" ELSE "closing"
<1>1. msg[m] \in MessageState BY DEF TypeOK
<1>2. CASE msg' = [msg EXCEPT ![m].reason = why, ![m].left = calls,
                      ![m].pc = IF @ = "run" THEN "ended" ELSE "closing"]
  <2> DEFINE r == [msg[m] EXCEPT !.reason = why, !.left = calls, !.pc = p]
  <2>1. /\ r \in MessageState /\ r.pc = p /\ r.task = msg[m].task
        /\ r.reason = why /\ r.left = calls
        /\ r.werr = msg[m].werr /\ r.bounded = msg[m].bounded
    BY <1>1 DEF MessageState, MessagePCs
  <2>2. msg' = [msg EXCEPT ![m] = r] BY <1>2
  <2> HIDE DEF r
  <2>3. Moves(m) /\ msg'[m] = r BY <2>1, <2>2, Replaced
  <2> QED BY <2>1, <2>3 DEF EndRun, Goto, SameFlags, Failure, NoFailure
<1>3. CASE msg[m].pc = "run" /\ quiet' = FALSE
           /\ msg' = [msg EXCEPT ![m].reason = why, ![m].left = calls,
                                 ![m].pc = "ended", ![m].werr = TRUE]
  <2> DEFINE r == [msg[m] EXCEPT !.reason = why, !.left = calls,
                                 !.pc = "ended", !.werr = TRUE]
  <2>1. /\ r \in MessageState /\ r.pc = "ended" /\ r.task = msg[m].task
        /\ r.reason = why /\ r.bounded = msg[m].bounded /\ r.werr
    BY <1>1 DEF MessageState, MessagePCs
  <2>2. msg' = [msg EXCEPT ![m] = r] BY <1>3
  <2> HIDE DEF r
  <2>3. Moves(m) /\ msg'[m] = r BY <2>1, <2>2, Replaced
  <2> QED BY <1>3, <2>1, <2>3 DEF Goto
<1> QED BY <1>2, <1>3 DEF EndRun, Failure, NoFailure

\* A run has ended: the steers its agent did not take.
Leftover(m) == steered[msg[m].task] \cap queue[msg[m].task]

\* The ways in which relay goes on after a run: the task is closed, with
\* what it leaves dropped or owed, or a run follows, or the bound is met.
Closes(m) ==
    /\ Goto(m, "save") /\ SameEnd(m) /\ SameFlags(m)
    /\ \/ /\ msg[m].werr \/ Leftover(m) = {}
             \/ msg[m].reason \notin {"done", "terminated", "input"}
          /\ Closed(msg[m].task, {}) /\ UNCHANGED owed
       \/ /\ owed' = [task |-> msg[m].task, steers |-> Leftover(m)]
          /\ Closed(msg[m].task, Leftover(m))

TakesUp(m) ==
    /\ SameFlags(m) /\ UNCHANGED <<rt, owed, dropped, lost>>
    /\ steered' = [steered EXCEPT ![msg[m].task] = Leftover(m)]
    /\ \/ /\ Goto(m, "run") /\ SameEnd(m)
          /\ queue' = [queue EXCEPT ![msg[m].task] = {}]
          /\ taken' = taken \cup queue[msg[m].task]
       \/ /\ Goto(m, "ended") /\ msg'[m].reason \in {"aborted", "error"}
          /\ UNCHANGED <<queue, taken>>

HandsOn(m) ==
    /\ UNCHANGED <<rt, steered, queue, owed, taken, dropped, lost>>
    /\ \/ Goto(m, "run") /\ SameFlags(m)
       \/ Goto(m, "ended") /\ msg'[m].reason = "error" /\ SameFlags(m)
       \/ /\ msg'[m].pc \in {"last", "closing"} /\ SameEnd(m)
          /\ msg'[m].task = msg[m].task /\ msg[m].reason = "terminated"
          /\ msg'[m].bounded /\ msg'[m].werr = msg[m].werr

\* outstanding closes the task or takes up what was left.
LEMMA OutstandingFacts ==
    ASSUME TypeOK, NEW m \in Messages, ~msg[m].werr, msg[m].pc = "ended",
           Outstanding(m)
    PROVE  Moves(m) /\ (Closes(m) \/ TakesUp(m))
<1> DEFINE goesOn == Leftover(m) # {} /\ msg[m].reason \in {"done", "terminated"}
<1>1. CASE goesOn /\ msg' = [msg EXCEPT ![m].pc = "run"]
  <2>1. Moves(m) /\ Goto(m, "run") /\ SameEnd(m) /\ SameFlags(m)
    BY <1>1, GoneTo DEF MessagePCs
  <2>2. msg[m] \in MessageState /\ msg'[m].pc # msg[m].pc
    BY <2>1 DEF Goto, TypeOK
  <2>3. msg' # [msg EXCEPT ![m].reason = IF msg[m].cut THEN "aborted" ELSE "error"]
    BY <2>2 DEF TypeOK, MessageState
  <2> QED BY <1>1, <2>1, <2>3 DEF TakesUp, Outstanding, Leftover
<1>2. CASE goesOn /\ msg' = [msg EXCEPT ![m].reason =
                                IF msg[m].cut THEN "aborted" ELSE "error"]
  <2> DEFINE why == IF msg[m].cut THEN "aborted" ELSE "error"
             r == [msg[m] EXCEPT !.reason = why]
  <2>1. msg[m] \in MessageState BY DEF TypeOK
  <2>2. why \in {"aborted", "error"} OBVIOUS
  <2> HIDE DEF why
  <2>3. /\ r \in MessageState /\ r.pc = "ended" /\ r.task = msg[m].task
        /\ r.reason = why
        /\ r.werr = msg[m].werr /\ r.bounded = msg[m].bounded
    BY <2>1, <2>2 DEF MessageState, Reasons
  <2>4. msg' = [msg EXCEPT ![m] = r] BY <1>2 DEF why
  <2> HIDE DEF r
  <2>5. Moves(m) /\ msg'[m] = r BY <2>3, <2>4, Replaced
  <2>6. msg' # [msg EXCEPT ![m].pc = "run"]
    BY <2>3, <2>5 DEF TypeOK, MessageState
  <2> QED BY <1>2, <2>2, <2>3, <2>5, <2>6
    DEF TakesUp, Outstanding, Leftover, Goto, SameFlags
<1>3. CASE ~goesOn
  <2>1. Moves(m) /\ Goto(m, "save") /\ SameEnd(m) /\ SameFlags(m)
    BY <1>3, GoneTo DEF MessagePCs, Outstanding, Leftover
  <2> QED BY <1>3, <2>1 DEF Closes, Outstanding, Leftover
<1> QED BY <1>1, <1>2, <1>3 DEF Outstanding, Leftover

\* relay's step after a run.
LEMMA RelayFacts ==
    ASSUME TypeOK, NEW m \in Messages, Relay(m)
    PROVE  /\ Moves(m) /\ msg[m].pc = "ended"
           /\ Closes(m) \/ TakesUp(m) \/ HandsOn(m)
<1>1. msg[m] \in MessageState /\ msg[m].pc = "ended"
  BY DEF TypeOK, Relay
<1>2. CASE msg[m].werr /\ Closed(msg[m].task, {}) /\ UNCHANGED owed
           /\ msg' = [msg EXCEPT ![m].pc = "save"]
  BY <1>1, <1>2, GoneTo DEF MessagePCs, Closes
<1>3. CASE ~msg[m].werr /\ Outstanding(m)
  BY <1>1, <1>3, OutstandingFacts
<1>4. CASE /\ msg[m].reason = "terminated"
           /\ msg' = [msg EXCEPT ![m].hand = @ + 1, ![m].pc = "run"]
           /\ UNCHANGED steers
  <2> DEFINE h == msg[m].hand + 1
             r == [msg[m] EXCEPT !.hand = h, !.pc = "run"]
  <2>h. h \in Nat BY <1>1 DEF MessageState
  <2> HIDE DEF h
  <2>1. /\ r \in MessageState /\ r.pc = "run" /\ r.task = msg[m].task
        /\ r.werr = msg[m].werr /\ r.bounded = msg[m].bounded
    BY <1>1, <2>h DEF MessageState, MessagePCs
  <2>2. msg' = [msg EXCEPT ![m] = r] BY <1>4 DEF h
  <2> HIDE DEF r
  <2>3. Moves(m) /\ msg'[m] = r BY <2>1, <2>2, Replaced
  <2> QED BY <1>1, <1>4, <2>1, <2>3 DEF HandsOn, Goto, SameFlags, steers
<1>5. CASE /\ msg[m].reason = "terminated"
           /\ msg' = [msg EXCEPT ![m].hand = @ + 1, ![m].reason = "error"]
           /\ UNCHANGED steers
  <2> DEFINE h == msg[m].hand + 1
             r == [msg[m] EXCEPT !.hand = h, !.reason = "error"]
  <2>h. h \in Nat BY <1>1 DEF MessageState
  <2> HIDE DEF h
  <2>1. /\ r \in MessageState /\ r.pc = "ended" /\ r.task = msg[m].task
        /\ r.reason = "error"
        /\ r.werr = msg[m].werr /\ r.bounded = msg[m].bounded
    BY <1>1, <2>h DEF MessageState, MessagePCs, Reasons
  <2>2. msg' = [msg EXCEPT ![m] = r] BY <1>5 DEF h
  <2> HIDE DEF r
  <2>3. Moves(m) /\ msg'[m] = r BY <2>1, <2>2, Replaced
  <2> QED BY <1>1, <1>5, <2>1, <2>3 DEF HandsOn, Goto, SameFlags, steers
<1>6. CASE /\ msg[m].reason = "terminated"
           /\ msg' = [msg EXCEPT ![m].bounded = TRUE,
                        ![m].pc = IF queue[msg[m].task] # {} THEN "last"
                                  ELSE "closing"]
           /\ UNCHANGED steers
  <2> DEFINE p == IF queue[msg[m].task] # {} THEN "last" ELSE "closing"
             r == [msg[m] EXCEPT !.bounded = TRUE, !.pc = p]
  <2>1. p \in {"last", "closing"} OBVIOUS
  <2> HIDE DEF p
  <2>2. /\ r \in MessageState /\ r.pc = p /\ r.task = msg[m].task
        /\ r.reason = msg[m].reason /\ r.left = msg[m].left
        /\ r.werr = msg[m].werr /\ r.bounded
    BY <1>1, <2>1 DEF MessageState, MessagePCs
  <2>3. msg' = [msg EXCEPT ![m] = r] BY <1>6 DEF p
  <2> HIDE DEF r
  <2>4. Moves(m) /\ msg'[m] = r BY <2>2, <2>3, Replaced
  <2> QED BY <1>1, <1>6, <2>1, <2>2, <2>4 DEF HandsOn, SameEnd, steers
<1> QED BY <1>2, <1>3, <1>4, <1>5, <1>6 DEF Relay

\* The bound is met, and the task closed.
LEMMA BoundedFacts ==
    ASSUME TypeOK, NEW m \in Messages, Bounded(m)
    PROVE  /\ Moves(m) /\ msg[m].pc = "closing" /\ Goto(m, "save")
           /\ SameEnd(m) /\ SameFlags(m)
           /\ Closed(msg[m].task, {}) /\ UNCHANGED owed
  BY GoneTo DEF Bounded, MessagePCs

\* A run is saved, whole or in part.
LEMMA SaveFacts ==
    ASSUME TypeOK, NEW m \in Messages, Save(m)
    PROVE  /\ Moves(m) /\ msg[m].pc = "save" /\ SameEnd(m) /\ SameFlags(m)
           /\ Freed
           /\ \/ /\ Goto(m, "tell") /\ UNCHANGED quiet
                 /\ stored' = Kept(m) /\ escalated' = PutToCaller(m)
                 /\ waiting' = WaitsOn(m) /\ torn' = FALSE
              \/ /\ Goto(m, "done") /\ torn' = TRUE /\ quiet' \in {quiet, FALSE}
                 /\ stored' \in {stored, Kept(m)} /\ UNCHANGED waiting
<1>1. CASE msg' = [msg EXCEPT ![m].pc = "tell"] /\ UNCHANGED quiet
           /\ stored' = Kept(m) /\ escalated' = PutToCaller(m)
           /\ waiting' = WaitsOn(m) /\ torn' = FALSE
  BY <1>1, GoneTo DEF MessagePCs, Save
<1>2. CASE Returned(m) /\ torn' = TRUE /\ quiet' \in {quiet, FALSE}
           /\ stored' \in {stored, Kept(m)} /\ UNCHANGED waiting
  BY <1>2, GoneTo DEF MessagePCs, Save, Returned
<1> QED BY <1>1, <1>2 DEF Save, stores, Failure, NoFailure

\* The caller is told how the run ended.
LEMMA ConcludeFacts ==
    ASSUME TypeOK, ShapeInv, NEW m \in Messages, Conclude(m)
    PROVE  /\ Moves(m) /\ msg[m].pc = "tell" /\ Goto(m, "done")
           /\ SameEnd(m) /\ SameFlags(m)
           /\ rt' = [rt EXCEPT ![msg[m].task] = "none"]
           /\ quiet' \in {quiet, FALSE}
           /\ \/ /\ msg[m].reason = "input" /\ UNCHANGED torn
                 /\ Told(msg[m].task, "input", msg[m].left)
              \/ /\ msg[m].reason # "input" /\ UNCHANGED torn
                 /\ \E s \in Ended : Told(msg[m].task, s, {})
              \/ /\ torn' = (torn \/ waiting = msg[m].task)
                 /\ UNCHANGED <<status, listed>>
<1>1. Moves(m) /\ Goto(m, "done") /\ SameEnd(m) /\ SameFlags(m)
  BY GoneTo DEF Conclude, MessagePCs
<1>2. msg[m].pc = "tell" /\ msg[m].reason \in Reasons
  BY DEF Conclude, ShapeInv
<1>3. /\ rt' = [rt EXCEPT ![msg[m].task] = "none"]
      /\ quiet' \in {quiet, FALSE}
      /\ \/ FinalStatus(m) /\ UNCHANGED torn
         \/ /\ torn' = (torn \/ waiting = msg[m].task)
            /\ UNCHANGED <<status, listed>>
  BY DEF Conclude, Failure, NoFailure, server
<1>4. ASSUME FinalStatus(m)
      PROVE  \/ msg[m].reason = "input" /\ Told(msg[m].task, "input", msg[m].left)
             \/ /\ msg[m].reason # "input"
                /\ \E s \in Ended : Told(msg[m].task, s, {})
  BY <1>2, <1>4 DEF FinalStatus, Reasons, Ended, InputRequired
<1> QED BY <1>1, <1>2, <1>3, <1>4

\* A cancel goes to a place, and what it is stays.
CancelTo(k, p) ==
    /\ can'[k].pc = p /\ can'[k].task = can[k].task
    /\ can'[k].how = can[k].how /\ can'[k].late = can[k].late

\* A cancel only goes to another place.
LEMMA CancelGoneTo ==
    ASSUME TypeOK, NEW k \in Cancels, NEW p \in {"settle", "tell", "done"},
           can' = [can EXCEPT ![k].pc = p]
    PROVE  CancelMoves(k) /\ CancelTo(k, p)
<1> DEFINE r == [can[k] EXCEPT !.pc = p]
<1>1. can[k] \in CancelState BY DEF TypeOK
<1>2. /\ r \in CancelState /\ r.pc = p /\ r.task = can[k].task
      /\ r.how = can[k].how /\ r.late = can[k].late
  BY <1>1 DEF CancelState
<1>3. can' = [can EXCEPT ![k] = r] OBVIOUS
<1> HIDE DEF r
<1> QED BY <1>2, <1>3 DEF CancelMoves, CancelTo, TypeOK

\* A cancel that is let through.
LEMMA SendCancelFacts ==
    ASSUME TypeOK, NEW k \in Cancels, NEW t \in Tasks, SendCancel(k, t)
    PROVE  /\ CancelMoves(k) /\ can[k].pc = "new" /\ can'[k].pc = "sent"
           /\ can'[k].task = t /\ can'[k].how = can[k].how
<1> DEFINE l == IF status[t] = "input" THEN listed[t] ELSE {}
           r == [can[k] EXCEPT !.pc = "sent", !.task = t, !.listed = l]
<1>1. can[k] \in CancelState BY DEF TypeOK
<1>2. l \in SUBSET Calls BY DEF TypeOK
<1>3. can' = [can EXCEPT ![k] = r] /\ can[k].pc = "new"
  BY DEF SendCancel
<1> HIDE DEF l
<1>4. /\ r \in CancelState /\ r.pc = "sent" /\ r.task = t
      /\ r.how = can[k].how
  BY <1>1, <1>2 DEF CancelState
<1> HIDE DEF r
<1> QED BY <1>3, <1>4 DEF CancelMoves, TypeOK

\* A cancel takes hold: it aborts its task's run, or holds a conversation
\* that was free, or neither.
LEMMA ClaimCancelFacts ==
    ASSUME TypeOK, NEW k \in Cancels, ClaimCancel(k)
    PROVE  /\ CancelMoves(k) /\ can[k].pc = "sent" /\ can'[k].pc = "drop"
           /\ can'[k].task = can[k].task
           /\ can'[k].late = OnTheirWay(can[k].task)
           /\ msg' \in [Messages -> MessageState]
           /\ \A n \in Messages : Still(n)
           /\ \/ can'[k].how \in {"abort", "other"} /\ UNCHANGED busy
              \/ can'[k].how = "settle" /\ ~busy /\ busy' = TRUE
<1>1. can[k] \in CancelState /\ OnTheirWay(can[k].task) \in SUBSET Messages
  BY DEF TypeOK, OnTheirWay
<1>2. ASSUME NEW how \in {"abort", "other", "settle"}, Goes(k, how)
      PROVE  /\ CancelMoves(k) /\ can'[k].pc = "drop"
             /\ can'[k].task = can[k].task /\ can'[k].how = how
             /\ can'[k].late = OnTheirWay(can[k].task)
  <2> DEFINE l == OnTheirWay(can[k].task)
             r == [can[k] EXCEPT !.pc = "drop", !.how = how, !.late = l]
  <2>1. can' = [can EXCEPT ![k] = r] BY <1>2 DEF Goes
  <2> HIDE DEF l
  <2>2. l \in SUBSET Messages BY <1>1 DEF l
  <2>3. /\ r \in CancelState /\ r.pc = "drop" /\ r.task = can[k].task
        /\ r.how = how /\ r.late = l
    BY <1>1, <2>2 DEF CancelState
  <2> HIDE DEF r
  <2>4. CancelMoves(k) /\ can'[k] = r
    BY <2>1, <2>3 DEF CancelMoves, TypeOK
  <2> QED BY <2>3, <2>4 DEF l
<1>3. \A n \in Messages : msg[n] \in MessageState BY DEF TypeOK
<1>4. CASE UNCHANGED msg BY <1>2, <1>4 DEF ClaimCancel, Still, TypeOK
<1>5. CASE msg' = [n \in Messages |->
              IF Executing(n) /\ msg[n].task = can[k].task /\ msg[n].pc # "sent"
              THEN [msg[n] EXCEPT !.cut = TRUE] ELSE msg[n]]
  <2>1. ASSUME NEW n \in Messages
        PROVE  msg'[n] \in MessageState /\ Still(n)
    <3> DEFINE r == [msg[n] EXCEPT !.cut = TRUE]
    <3>1. /\ r \in MessageState /\ r.pc = msg[n].pc /\ r.task = msg[n].task
          /\ r.reason = msg[n].reason /\ r.left = msg[n].left
          /\ r.werr = msg[n].werr /\ r.bounded = msg[n].bounded
      BY <1>3 DEF MessageState
    <3>2. msg'[n] \in {msg[n], r} BY <1>5
    <3> HIDE DEF r
    <3> QED BY <1>3, <3>1, <3>2 DEF Still
  <2>2. msg' \in [Messages -> MessageState] /\ \A n \in Messages : Still(n)
    BY <1>5, <2>1
  <2> QED BY <1>2, <2>2 DEF ClaimCancel
<1> QED BY <1>4, <1>5 DEF ClaimCancel

\* What the conversation owes to the canceled task is dropped.
LEMMA DropOwedFacts ==
    ASSUME TypeOK, NEW k \in Cancels, DropOwed(k)
    PROVE  /\ CancelMoves(k) /\ can[k].pc = "drop"
           /\ \/ can[k].how = "settle" /\ CancelTo(k, "settle")
              \/ can[k].how # "settle" /\ CancelTo(k, "tell")
           /\ \/ /\ owed' = NoneOwed
                 /\ dropped' = dropped \cup (owed.steers \X {can[k].task})
              \/ UNCHANGED <<owed, dropped>>
<1> DEFINE p == IF can[k].how = "settle" THEN "settle" ELSE "tell"
<1>1. p \in {"settle", "tell", "done"} /\ can' = [can EXCEPT ![k].pc = p]
  BY DEF DropOwed
<1>2. CancelMoves(k) /\ CancelTo(k, p)
  <2> HIDE DEF p
  <2> QED BY <1>1, CancelGoneTo
<1> QED BY <1>2 DEF DropOwed

\* The calls are settled, and the task marked; or the settling fails.
LEMMA SettleFacts ==
    ASSUME TypeOK, NEW k \in Cancels, Settle(k)
    PROVE  /\ CancelMoves(k) /\ can[k].pc = "settle"
           /\ \/ /\ CancelTo(k, "tell") /\ mark' = can[k].task
                 /\ moved' = Passed(can[k].task) /\ UNCHANGED <<busy, quiet>>
                 /\ UNCHANGED torn
                 /\ \/ stored' = {} /\ waiting' = None
                    \/ UNCHANGED <<stored, escalated, waiting>>
              \/ /\ CancelTo(k, "done") /\ busy' = FALSE /\ quiet' = FALSE
                 /\ UNCHANGED <<mark, moved, waiting, torn>>
                 /\ \/ UNCHANGED <<stored, escalated>>
                    \/ stored' = {}
<1>1. CASE can' = [can EXCEPT ![k].pc = "tell"] /\ NoFailure
           /\ mark' = can[k].task /\ moved' = Passed(can[k].task)
           /\ UNCHANGED busy
           /\ UNCHANGED torn
           /\ \/ stored' = {} /\ waiting' = None
              \/ UNCHANGED stores
  <2>1. CancelMoves(k) /\ CancelTo(k, "tell") BY <1>1, CancelGoneTo
  <2> QED BY <1>1, <2>1 DEF Settle, NoFailure, stores
<1>2. CASE can' = [can EXCEPT ![k].pc = "done"] /\ Failure /\ busy' = FALSE
           /\ UNCHANGED <<mark, moved, waiting, torn>>
           /\ (UNCHANGED <<stored, escalated>> \/ stored' = {})
  <2>1. CancelMoves(k) /\ CancelTo(k, "done") BY <1>2, CancelGoneTo
  <2> QED BY <1>2, <2>1 DEF Settle, Failure
<1> QED BY <1>1, <1>2 DEF Settle, stores

\* The cancel is answered, and lets go of what it holds.
LEMMA ConcludeCancelFacts ==
    ASSUME TypeOK, NEW k \in Cancels, ConcludeCancel(k)
    PROVE  /\ CancelMoves(k) /\ can[k].pc = "tell" /\ CancelTo(k, "done")
           /\ busy' = IF can[k].how = "settle" THEN FALSE ELSE busy
           /\ Told(can[k].task, "canceled", {})
  BY CancelGoneTo DEF ConcludeCancel

\* Nothing is in progress after a restart.
LEMMA RestartFacts ==
    ASSUME TypeOK, Restart
    PROVE  /\ msg' \in [Messages -> MessageState]
           /\ \A n \in Messages :
                 /\ SameFlags(n) /\ SameEnd(n) /\ msg'[n].task = msg[n].task
                 /\ \/ Executing(n) /\ msg'[n].pc = "done"
                    \/ ~Executing(n) /\ msg'[n].pc = msg[n].pc
           /\ can' \in [Cancels -> CancelState]
           /\ \A k \in Cancels :
                 /\ can'[k].task = can[k].task /\ can'[k].how = can[k].how
                 /\ can'[k].late = can[k].late
                 /\ \/ can[k].pc = "new" /\ can'[k].pc = "new"
                    \/ can[k].pc # "new" /\ can'[k].pc = "done"
<1>1. ASSUME NEW n \in Messages
      PROVE  /\ msg'[n] \in MessageState
             /\ SameFlags(n) /\ SameEnd(n) /\ msg'[n].task = msg[n].task
             /\ \/ Executing(n) /\ msg'[n].pc = "done"
                \/ ~Executing(n) /\ msg'[n].pc = msg[n].pc
  <2>1. msg[n] \in MessageState BY DEF TypeOK
  <2>2. CASE ~Executing(n) BY <2>1, <2>2 DEF Restart, SameFlags, SameEnd
  <2>3. CASE Executing(n)
    <3> DEFINE r == [msg[n] EXCEPT !.pc = "done"]
    <3>1. /\ r \in MessageState /\ r.pc = "done" /\ r.task = msg[n].task
          /\ r.reason = msg[n].reason /\ r.left = msg[n].left
          /\ r.werr = msg[n].werr /\ r.bounded = msg[n].bounded
      BY <2>1 DEF MessageState, MessagePCs
    <3>2. msg'[n] = r BY <2>3 DEF Restart
    <3> HIDE DEF r
    <3> QED BY <2>3, <3>1, <3>2 DEF SameFlags, SameEnd
  <2> QED BY <2>2, <2>3
<1>2. ASSUME NEW k \in Cancels
      PROVE  /\ can'[k] \in CancelState
             /\ can'[k].task = can[k].task /\ can'[k].how = can[k].how
             /\ can'[k].late = can[k].late
             /\ \/ can[k].pc = "new" /\ can'[k].pc = "new"
                \/ can[k].pc # "new" /\ can'[k].pc = "done"
  <2>1. can[k] \in CancelState BY DEF TypeOK
  <2>2. CASE can[k].pc = "new" BY <2>1, <2>2 DEF Restart
  <2>3. CASE can[k].pc # "new"
    <3> DEFINE r == [can[k] EXCEPT !.pc = "done"]
    <3>1. /\ r \in CancelState /\ r.pc = "done" /\ r.task = can[k].task
          /\ r.how = can[k].how /\ r.late = can[k].late
      BY <2>1 DEF CancelState
    <3>2. can'[k] = r BY <2>3 DEF Restart
    <3> HIDE DEF r
    <3> QED BY <2>3, <3>1, <3>2
  <2> QED BY <2>2, <2>3
<1>3. /\ msg' = [m \in Messages |-> msg'[m]]
      /\ can' = [k \in Cancels |-> can'[k]]
  BY DEF Restart
<1>4. msg' \in [Messages -> MessageState] /\ can' \in [Cancels -> CancelState]
  BY <1>1, <1>2, <1>3
<1> QED BY <1>1, <1>2, <1>4

-----------------------------------------------------------------------------
(* The types.                                                              *)

\* A status keeps the server's types.
LEMMA ToldTypes ==
    ASSUME TypeOK, NEW t \in Tasks, NEW calls \in SUBSET Calls,
           NEW s \in {"working", "input"} \cup Ended, Told(t, s, calls)
    PROVE  /\ status' \in [Tasks -> {"new", "working", "input"} \cup Ended]
           /\ listed' \in [Tasks -> SUBSET Calls]
  BY DEF TypeOK, Told

\* A task that is closed keeps the types of the steers.
LEMMA ClosedTypes ==
    ASSUME TypeOK, NEW t \in Tasks, NEW kept, Closed(t, kept)
    PROVE  /\ rt' \in [Tasks -> {"none", "open", "closed"}]
           /\ steered' \in [Tasks -> SUBSET Messages]
           /\ queue' \in [Tasks -> SUBSET Messages]
  BY DEF TypeOK, Closed

\* The steps of messages keep the types.
LEMMA MessageTypes ==
    ASSUME TypeOK, ShapeInv, NEW m \in Messages, MessageStep(m)
    PROVE  TypeOK'
<1> USE DEF claims, steers, stores, server, bounds
<1>t. /\ msg[m] \in MessageState
      /\ msg[m].pc # "new" => msg[m].task \in Tasks
  BY DEF TypeOK, ShapeInv
<1>1. CASE Claim(m) BY <1>1, <1>t, ClaimFacts DEF Claim, Moves, TypeOK
<1>2. CASE Check(m)
  <2>1. quiet' \in BOOLEAN BY <1>2 DEF Check, Failure, NoFailure, TypeOK
  <2> QED BY <1>2, <1>t, <2>1, CheckFacts DEF Check, Moves, Freed, TypeOK
<1>3. CASE Track(m)
  <2>1. owed' \in [task : Tasks \cup {None}, steers : SUBSET Messages]
    BY <1>3 DEF Track, NoneOwed
  <2>2. /\ rt' \in [Tasks -> {"none", "open", "closed"}]
        /\ steered' \in [Tasks -> SUBSET Messages]
        /\ queue' \in [Tasks -> SUBSET Messages]
    BY <1>3, <1>t DEF Track, HandedOn, TypeOK
  <2>3. /\ status' \in [Tasks -> {"new", "working", "input"} \cup Ended]
        /\ listed' \in [Tasks -> SUBSET Calls]
    BY ZenonT(60), <1>3, <1>t, ToldTypes DEF Track, TypeOK
  <2> QED BY ZenonT(60), <1>3, <1>t, <2>1, <2>2, <2>3, TrackFacts
       DEF Track, Moves, Freed, TypeOK
<1>4. CASE Take(m) BY <1>4, <1>t DEF Take, TypeOK
<1>5. ASSUME NEW why \in Reasons, NEW calls \in SUBSET Calls, EndRun(m, why, calls)
      PROVE  TypeOK'
  BY ZenonT(60), <1>5, EndRunFacts DEF EndRun, Moves, TypeOK
<1>6. CASE Relay(m)
  <2>1. Moves(m) /\ (Closes(m) \/ TakesUp(m) \/ HandsOn(m)) /\ msg[m].pc = "ended"
    BY <1>6, RelayFacts
  <2>2. Leftover(m) \in SUBSET Messages
    BY <1>t, <2>1 DEF Leftover, TypeOK
  <2>3. CASE Closes(m)
    <3>1. owed' \in [task : Tasks \cup {None}, steers : SUBSET Messages]
      BY <1>t, <2>1, <2>2, <2>3 DEF Closes, TypeOK
    <3> QED BY <1>6, <1>t, <2>1, <2>3, <3>1, ClosedTypes
      DEF Relay, Closes, Moves, TypeOK
  <2>4. CASE TakesUp(m)
    BY <1>6, <1>t, <2>1, <2>2, <2>4 DEF Relay, TakesUp, Moves, TypeOK
  <2>5. CASE HandsOn(m)
    BY <1>6, <2>1, <2>5 DEF Relay, HandsOn, Moves, TypeOK
  <2> QED BY <2>1, <2>3, <2>4, <2>5
<1>7. CASE Bounded(m)
  BY <1>7, <1>t, BoundedFacts, ClosedTypes DEF Bounded, Moves, TypeOK
<1>8. CASE Save(m)
  <2>1. Kept(m) \in SUBSET Calls /\ WaitsOn(m) \in Tasks \cup {None}
    BY <1>t DEF Kept, WaitsOn, MessageState
  <2> QED BY <1>8, <2>1, SaveFacts DEF Save, Moves, Freed, TypeOK
<1>9. CASE Conclude(m)
  <2>1. /\ status' \in [Tasks -> {"new", "working", "input"} \cup Ended]
        /\ listed' \in [Tasks -> SUBSET Calls]
    <3>1. CASE UNCHANGED <<status, listed>> BY <3>1 DEF TypeOK
    <3>2. CASE \E s \in Ended : Told(msg[m].task, s, {})
      BY <1>9, <1>t, <3>2, ToldTypes DEF Conclude
    <3>3. CASE Told(msg[m].task, "input", msg[m].left)
      BY <1>9, <1>t, <3>3, ToldTypes DEF Conclude, MessageState
    <3> QED BY <1>9, <3>1, <3>2, <3>3, ConcludeFacts
  <2>2. quiet' \in BOOLEAN /\ torn' \in BOOLEAN
    BY <1>9 DEF Conclude, Failure, NoFailure, TypeOK
  <2> QED BY <1>9, <1>t, <2>1, <2>2, ConcludeFacts DEF Conclude, Moves, TypeOK
<1> QED BY <1>1, <1>2, <1>3, <1>4, <1>5, <1>6, <1>7, <1>8, <1>9 DEF MessageStep

\* The steps of cancels keep the types.
LEMMA CancelTypes ==
    ASSUME TypeOK, ShapeInv, NEW k \in Cancels, CancelStep(k)
    PROVE  TypeOK'
<1> USE DEF claims, steers, stores, server, bounds
<1>t. /\ can[k] \in CancelState
      /\ can[k].pc # "new" => can[k].task \in Tasks
  BY DEF TypeOK, ShapeInv
<1>1. CASE ClaimCancel(k)
  BY <1>1, ClaimCancelFacts DEF ClaimCancel, CancelMoves, TypeOK
<1>2. CASE DropOwed(k)
  <2>1. owed' \in [task : Tasks \cup {None}, steers : SUBSET Messages]
    BY <1>2 DEF DropOwed, NoneOwed, TypeOK
  <2> QED BY <1>2, <2>1, DropOwedFacts DEF DropOwed, CancelMoves, TypeOK
<1>3. CASE Settle(k)
  BY <1>3, <1>t, SettleFacts DEF Settle, CancelMoves, TypeOK
<1>4. CASE ConcludeCancel(k)
  <2>1. /\ status' \in [Tasks -> {"new", "working", "input"} \cup Ended]
        /\ listed' \in [Tasks -> SUBSET Calls]
    BY <1>4, <1>t, ToldTypes DEF ConcludeCancel, Ended
  <2> QED
    BY <1>4, <2>1, ConcludeCancelFacts DEF ConcludeCancel, CancelMoves, TypeOK
<1> QED BY <1>1, <1>2, <1>3, <1>4 DEF CancelStep

\* So do the others.
LEMMA OtherTypes ==
    ASSUME TypeOK,
           \/ UNCHANGED vars \/ Restart
           \/ \E m \in Messages, t \in Tasks : Send(m, t) \/ Steer(m, t)
           \/ \E k \in Cancels, t \in Tasks : SendCancel(k, t)
    PROVE  TypeOK'
<1> USE DEF claims, steers, stores, server, bounds
<1>1. CASE UNCHANGED vars BY <1>1 DEF vars, TypeOK
<1>2. CASE Restart
  <2>1. owed' \in [task : Tasks \cup {None}, steers : SUBSET Messages]
    BY <1>2 DEF Restart, NoneOwed
  <2> QED BY <1>2, <2>1, RestartFacts DEF Restart, TypeOK
<1>3. ASSUME NEW m \in Messages, NEW t \in Tasks, Send(m, t) PROVE TypeOK'
  BY <1>3, SendFacts DEF Send, Moves, TypeOK
<1>4. ASSUME NEW m \in Messages, NEW t \in Tasks, Steer(m, t) PROVE TypeOK'
  <2>1. /\ steered' \in [Tasks -> SUBSET Messages]
        /\ queue' \in [Tasks -> SUBSET Messages]
    BY <1>4 DEF Steer, TypeOK
  <2>2. quiet' \in BOOLEAN BY <1>4 DEF Steer, Failure, NoFailure, TypeOK
  <2> QED BY SMTT(60), <1>4, <2>1, <2>2, SteerFacts DEF Steer, Moves, TypeOK
<1>5. ASSUME NEW k \in Cancels, NEW t \in Tasks, SendCancel(k, t) PROVE TypeOK'
  BY <1>5, SendCancelFacts DEF SendCancel, CancelMoves, TypeOK
<1> QED BY <1>1, <1>2, <1>3, <1>4, <1>5

-----------------------------------------------------------------------------
(* How far the requests have come.                                         *)

\* What has failed once has failed.
LEMMA QuietStays ==
    ASSUME [Next]_vars PROVE quiet' => quiet
<1> USE DEF bounds, Failure, NoFailure
<1>1. ASSUME NEW m \in Messages, Claim(m) \/ Check(m) \/ Track(m) \/ Take(m)
      PROVE  quiet' => quiet
  BY <1>1 DEF Claim, Check, Track, Take
<1>2. ASSUME NEW m \in Messages, Relay(m) \/ Bounded(m) \/ Save(m) \/ Conclude(m)
      PROVE  quiet' => quiet
  BY <1>2 DEF Relay, Bounded, Save, Conclude
<1>3. ASSUME NEW m \in Messages,
             \E why \in Reasons, calls \in SUBSET Calls : EndRun(m, why, calls)
      PROVE  quiet' => quiet
  BY <1>3 DEF EndRun
<1>4. ASSUME NEW k \in Cancels, CancelStep(k) PROVE quiet' => quiet
  BY <1>4 DEF CancelStep, ClaimCancel, DropOwed, Settle, ConcludeCancel
<1>5. CASE UNCHANGED vars \/ Restart BY <1>5 DEF vars, Restart
<1>6. ASSUME NEW m \in Messages, NEW t \in Tasks, Send(m, t) \/ Steer(m, t)
      PROVE  quiet' => quiet
  BY <1>6 DEF Send, Steer
<1>7. ASSUME NEW k \in Cancels, NEW t \in Tasks, SendCancel(k, t)
      PROVE  quiet' => quiet
  BY <1>7 DEF SendCancel
<1> QED BY <1>1, <1>2, <1>3, <1>4, <1>5, <1>6, <1>7 DEF Next, MessageStep

\* The shape of one message, and of one cancel.
MessageShape(m) ==
    /\ msg[m].pc = "new" => msg[m].task = None
    /\ msg[m].pc # "new" => msg[m].task \in Tasks
    /\ msg[m].pc \in {"ended", "closing", "save", "tell"} =>
          msg[m].reason \in Reasons
    /\ msg[m].pc \in {"last", "closing"} => msg[m].bounded
    /\ msg[m].werr => ~quiet

CancelShape(k) ==
    /\ can[k].pc # "new" => can[k].task \in Tasks
    /\ can[k].pc \in {"new", "sent"} => can[k].how = "none"
    /\ can[k].pc \notin {"new", "sent", "done"} => can[k].how # "none"
    /\ can[k].pc = "settle" => can[k].how = "settle"

\* A message that moves keeps the shape of the others.
LEMMA ShapeOfOne ==
    ASSUME ShapeInv, NEW m \in Messages, Moves(m), UNCHANGED can, quiet' => quiet,
           MessageShape(m)'
    PROVE  ShapeInv'
  BY DEF ShapeInv, Moves, Still, MessageShape

\* So does a cancel.
LEMMA ShapeOfCancel ==
    ASSUME ShapeInv, NEW k \in Cancels, CancelMoves(k), quiet' => quiet,
           UNCHANGED msg \/ \A n \in Messages : Still(n), CancelShape(k)'
    PROVE  ShapeInv'
<1>1. \A j \in Cancels \ {k} : CancelShape(j)'
  BY DEF ShapeInv, CancelShape, CancelMoves
<1>2. \A n \in Messages : MessageShape(n)'
  BY DEF ShapeInv, MessageShape, Still
<1> QED BY <1>1, <1>2 DEF ShapeInv, CancelShape, MessageShape

\* Every step keeps the shape of the requests.
LEMMA ShapeStep ==
    ASSUME TypeOK, ShapeInv, [Next]_vars
    PROVE  ShapeInv'
<1>q. quiet' => quiet BY QuietStays
<1>1. ASSUME NEW m \in Messages, MessageStep(m) PROVE ShapeInv'
  <2>t. MessageShape(m) /\ msg[m] \in MessageState
    BY DEF ShapeInv, MessageShape, TypeOK
  <2>1. CASE Take(m) BY <2>1 DEF Take, ShapeInv, bounds
  <2>2. CASE Claim(m)
    <3>1. MessageShape(m)'
      BY <1>q, <2>2, <2>t, ClaimFacts
      DEF MessageShape, Goto, SameEnd, SameFlags, Reasons
    <3> QED BY <1>q, <2>2, <3>1, ClaimFacts, ShapeOfOne DEF Claim
  <2>3. CASE Check(m)
    <3>1. MessageShape(m)'
      BY <1>q, <2>3, <2>t, CheckFacts
      DEF MessageShape, Goto, SameEnd, SameFlags, Reasons
    <3> QED BY <1>q, <2>3, <3>1, CheckFacts, ShapeOfOne DEF Check
  <2>4. CASE Track(m)
    <3>1. MessageShape(m)'
      BY <1>q, <2>4, <2>t, TrackFacts
      DEF MessageShape, Goto, SameEnd, SameFlags
    <3> QED BY ZenonT(60), <1>q, <2>4, <3>1, TrackFacts, ShapeOfOne DEF Track
  <2>5. ASSUME NEW why \in Reasons, NEW calls \in SUBSET Calls,
               EndRun(m, why, calls)
        PROVE  ShapeInv'
    <3>1. MessageShape(m)'
      BY <1>q, <2>5, <2>t, EndRunFacts DEF MessageShape, Goto, SameFlags
    <3> QED BY <1>q, <2>5, <3>1, EndRunFacts, ShapeOfOne DEF EndRun
  <2>6. CASE Relay(m)
    <3>1. Moves(m) /\ msg[m].pc = "ended" /\ (Closes(m) \/ TakesUp(m) \/ HandsOn(m))
      BY <2>6, RelayFacts
    <3>2. MessageShape(m)'
      BY <1>q, <2>t, <3>1
      DEF MessageShape, Closes, TakesUp, HandsOn, Goto, SameEnd, SameFlags,
          Reasons
    <3> QED BY <1>q, <2>6, <3>1, <3>2, ShapeOfOne DEF Relay
  <2>7. CASE Bounded(m)
    <3>1. MessageShape(m)'
      BY <1>q, <2>7, <2>t, BoundedFacts
      DEF MessageShape, Goto, SameEnd, SameFlags
    <3> QED BY <1>q, <2>7, <3>1, BoundedFacts, ShapeOfOne DEF Bounded
  <2>8. CASE Save(m)
    <3>1. MessageShape(m)'
      BY <1>q, <2>8, <2>t, SaveFacts DEF MessageShape, Goto, SameEnd, SameFlags
    <3> QED BY <1>q, <2>8, <3>1, SaveFacts, ShapeOfOne DEF Save
  <2>9. CASE Conclude(m)
    <3>1. MessageShape(m)'
      BY <1>q, <2>9, <2>t, ConcludeFacts
      DEF MessageShape, Goto, SameEnd, SameFlags
    <3> QED BY <1>q, <2>9, <3>1, ConcludeFacts, ShapeOfOne DEF Conclude
  <2> QED BY <1>1, <2>1, <2>2, <2>3, <2>4, <2>5, <2>6, <2>7, <2>8, <2>9
    DEF MessageStep
<1>2. ASSUME NEW k \in Cancels, CancelStep(k) PROVE ShapeInv'
  <2>t. CancelShape(k) BY DEF ShapeInv, CancelShape
  <2>1. CASE ClaimCancel(k)
    <3>1. CancelShape(k)'
      BY <2>1, <2>t, ClaimCancelFacts DEF CancelShape
    <3> QED BY <1>q, <2>1, <3>1, ClaimCancelFacts, ShapeOfCancel
  <2>2. CASE DropOwed(k)
    <3>1. CancelShape(k)'
      BY <2>2, <2>t, DropOwedFacts DEF CancelShape, CancelTo
    <3> QED BY <1>q, <2>2, <3>1, DropOwedFacts, ShapeOfCancel DEF DropOwed
  <2>3. CASE Settle(k)
    <3>1. CancelShape(k)'
      BY <2>3, <2>t, SettleFacts DEF CancelShape, CancelTo
    <3> QED BY <1>q, <2>3, <3>1, SettleFacts, ShapeOfCancel DEF Settle
  <2>4. CASE ConcludeCancel(k)
    <3>1. CancelShape(k)'
      BY <2>4, <2>t, ConcludeCancelFacts DEF CancelShape, CancelTo
    <3> QED
      BY <1>q, <2>4, <3>1, ConcludeCancelFacts, ShapeOfCancel DEF ConcludeCancel
  <2> QED BY <1>2, <2>1, <2>2, <2>3, <2>4 DEF CancelStep
<1>3. CASE UNCHANGED vars BY <1>3 DEF vars, bounds, ShapeInv
<1>4. CASE Restart
  <2>1. \A n \in Messages : MessageShape(n)'
    BY <1>q, <1>4, RestartFacts
    DEF ShapeInv, MessageShape, SameFlags, SameEnd, Executing
  <2>2. \A k \in Cancels : CancelShape(k)'
    BY <1>4, RestartFacts DEF ShapeInv, CancelShape
  <2> QED BY <2>1, <2>2 DEF ShapeInv, MessageShape, CancelShape
<1>5. ASSUME NEW m \in Messages, NEW t \in Tasks, Send(m, t) PROVE ShapeInv'
  <2>1. MessageShape(m)'
    BY <1>q, <1>5, SendFacts DEF ShapeInv, MessageShape, SameEnd, SameFlags
  <2> QED BY <1>q, <1>5, <2>1, SendFacts, ShapeOfOne DEF Send
<1>6. ASSUME NEW m \in Messages, NEW t \in Tasks, Steer(m, t) PROVE ShapeInv'
  <2>1. MessageShape(m)'
    BY <1>q, <1>6, SteerFacts DEF ShapeInv, MessageShape, SameEnd, SameFlags
  <2> QED BY <1>q, <1>6, <2>1, SteerFacts, ShapeOfOne DEF Steer
<1>7. ASSUME NEW k \in Cancels, NEW t \in Tasks, SendCancel(k, t)
      PROVE  ShapeInv'
  <2>1. CancelShape(k)'
    BY <1>7, SendCancelFacts DEF ShapeInv, CancelShape
  <2> QED BY <1>q, <1>7, <2>1, SendCancelFacts, ShapeOfCancel DEF SendCancel
<1> QED BY <1>1, <1>2, <1>3, <1>4, <1>5, <1>6, <1>7 DEF Next

-----------------------------------------------------------------------------
(* Who holds the conversation, and whose run is on.                        *)

\* A step of the holder that keeps the conversation.
LEMMA HoldKept ==
    ASSUME HoldInv, NEW m \in Messages, Moves(m), UNCHANGED <<busy, active, can>>,
           msg'[m].task = msg[m].task, Holds(m)' => Holds(m)
    PROVE  HoldInv'
  BY DEF HoldInv, Moves, Still, Holds, CancelHolds

\* The holder lets go of it.
LEMMA HoldFreed ==
    ASSUME TypeOK, ShapeInv, HoldInv, NEW m \in Messages, Moves(m), Freed,
           UNCHANGED can, Holds(m), ~Holds(m)'
    PROVE  HoldInv'
<1>1. msg[m].task \in Tasks /\ None \notin Tasks
  BY ExecutorAssumption DEF ShapeInv, Holds
<1>2. \A k \in Cancels : ~CancelHolds(k) BY <1>1 DEF HoldInv
<1>3. \A k \in Cancels : ~CancelHolds(k)' BY <1>2 DEF CancelHolds
<1>4. \A n \in Messages : ~Holds(n)' BY DEF HoldInv, Moves, Still, Holds
<1> QED BY <1>3, <1>4 DEF HoldInv, Freed

\* Every step keeps one holder.
LEMMA HoldStep ==
    ASSUME TypeOK, ShapeInv, HoldInv, [Next]_vars
    PROVE  HoldInv'
<1> USE DEF claims
<1>1. ASSUME NEW m \in Messages, MessageStep(m) PROVE HoldInv'
  <2>1. CASE Take(m) BY <2>1 DEF Take, HoldInv, Holds, CancelHolds
  <2>2. CASE Claim(m)
    <3>1. CASE ~Holds(m)' /\ UNCHANGED <<busy, active>>
      <4>1. msg'[m].task = msg[m].task BY <2>2, ClaimFacts DEF Goto
      <4> QED BY <2>2, <3>1, <4>1, ClaimFacts, HoldKept DEF Claim
    <3>2. CASE ~busy /\ Goto(m, "held") /\ busy' = TRUE /\ active' = msg[m].task
      <4>1. \A n \in Messages \ {m} : ~Holds(n)'
        BY <2>2, <3>2, ClaimFacts DEF HoldInv, Moves, Still, Holds
      <4>2. \A k \in Cancels : ~CancelHolds(k)'
        BY SMTT(60), <2>2, <3>2 DEF Claim, HoldInv, CancelHolds
      <4> QED BY <3>2, <4>1, <4>2 DEF HoldInv, Holds, Goto
    <3> QED BY <2>2, <3>1, <3>2, ClaimFacts DEF Holds, Goto
  <2>3. CASE Check(m)
    <3>1. Moves(m) /\ UNCHANGED can /\ Holds(m)
      BY <2>3, CheckFacts DEF Check, Holds
    <3>2. CASE Freed /\ ~Holds(m)' BY <3>1, <3>2, HoldFreed
    <3>3. CASE UNCHANGED <<busy, active>> /\ msg'[m].task = msg[m].task
      BY <3>1, <3>3, HoldKept
    <3> QED BY <2>3, <3>2, <3>3, CheckFacts DEF Holds, Goto
  <2>4. CASE Track(m)
    <3>1. Moves(m) /\ UNCHANGED can /\ Holds(m)
      BY <2>4, TrackFacts DEF Track, Holds
    <3>2. CASE Freed /\ ~Holds(m)' BY <3>1, <3>2, HoldFreed
    <3>3. CASE UNCHANGED <<busy, active>> /\ msg'[m].task = msg[m].task
      BY <3>1, <3>3, HoldKept
    <3> QED BY <2>4, <3>2, <3>3, TrackFacts DEF Holds, Goto
  <2>5. ASSUME NEW why \in Reasons, NEW calls \in SUBSET Calls,
               EndRun(m, why, calls)
        PROVE  HoldInv'
    <3>1. Moves(m) /\ Holds(m) /\ msg'[m].task = msg[m].task
      BY <2>5, EndRunFacts DEF Holds, Goto
    <3> QED BY <2>5, <3>1, HoldKept DEF EndRun
  <2>6. CASE Relay(m)
    <3>1. Moves(m) /\ Holds(m) BY <2>6, RelayFacts DEF Holds
    <3>2. msg'[m].task = msg[m].task
      BY <2>6, RelayFacts DEF Closes, TakesUp, HandsOn, Goto
    <3> QED BY <2>6, <3>1, <3>2, HoldKept DEF Relay
  <2>7. CASE Bounded(m)
    <3>1. Moves(m) /\ Holds(m) /\ msg'[m].task = msg[m].task
      BY <2>7, BoundedFacts DEF Holds, Goto
    <3> QED BY <2>7, <3>1, HoldKept DEF Bounded
  <2>8. CASE Save(m)
    <3>1. Moves(m) /\ Freed /\ Holds(m) /\ ~Holds(m)'
      BY <2>8, SaveFacts DEF Holds, Goto
    <3> QED BY <2>8, <3>1, HoldFreed DEF Save
  <2>9. CASE Conclude(m)
    <3>1. Moves(m) /\ ~Holds(m)' /\ msg'[m].task = msg[m].task
      BY <2>9, ConcludeFacts DEF Holds, Goto
    <3> QED BY <2>9, <3>1, HoldKept DEF Conclude
  <2> QED BY <1>1, <2>1, <2>2, <2>3, <2>4, <2>5, <2>6, <2>7, <2>8, <2>9
    DEF MessageStep
<1>2. ASSUME NEW k \in Cancels, CancelStep(k) PROVE HoldInv'
  <2>1. CASE ClaimCancel(k)
    <3>1. \A n \in Messages : Holds(n)' = Holds(n) /\ msg'[n].task = msg[n].task
      BY <2>1, ClaimCancelFacts DEF Still, Holds
    <3>2. UNCHANGED active /\ \A j \in Cancels \ {k} : CancelHolds(j)' = CancelHolds(j)
      BY <2>1, ClaimCancelFacts DEF ClaimCancel, CancelMoves, CancelHolds
    <3>3. CASE ~CancelHolds(k)' /\ UNCHANGED busy
      BY <3>1, <3>2, <3>3 DEF HoldInv
    <3>4. CASE ~busy /\ busy' = TRUE BY <3>1, <3>2, <3>4 DEF HoldInv
    <3> QED BY <2>1, <3>3, <3>4, ClaimCancelFacts DEF CancelHolds
  <2>2. CASE DropOwed(k)
    <3>1. \A j \in Cancels : CancelHolds(j)' = CancelHolds(j)
      BY <2>2, DropOwedFacts DEF CancelMoves, CancelHolds, CancelTo
    <3>2. UNCHANGED <<busy, active, msg>> BY <2>2 DEF DropOwed
    <3> QED BY <3>1, <3>2 DEF HoldInv, Holds
  <2>3. CASE Settle(k)
    <3>1. CancelHolds(k) /\ UNCHANGED <<active, msg>>
      BY <2>3 DEF Settle, ShapeInv, CancelHolds
    <3>2. \A j \in Cancels \ {k} : CancelHolds(j)' = CancelHolds(j)
      BY <2>3, SettleFacts DEF CancelMoves, CancelHolds
    <3>3. CASE UNCHANGED busy BY <3>1, <3>2, <3>3 DEF HoldInv, Holds
    <3>4. CASE busy' = FALSE /\ CancelTo(k, "done")
      <4>1. ~CancelHolds(k)' BY <3>4 DEF CancelTo, CancelHolds
      <4>2. \A n \in Messages : ~Holds(n)'
        BY <3>1, ExecutorAssumption DEF HoldInv, Holds, ShapeInv
      <4> QED BY <3>1, <3>2, <3>4, <4>1, <4>2 DEF HoldInv
    <3> QED BY <2>3, <3>3, <3>4, SettleFacts
  <2>4. CASE ConcludeCancel(k)
    <3>1. UNCHANGED <<active, msg>> BY <2>4 DEF ConcludeCancel
    <3>2. \A j \in Cancels \ {k} : CancelHolds(j)' = CancelHolds(j)
      BY <2>4, ConcludeCancelFacts DEF CancelMoves, CancelHolds
    <3>3. ~CancelHolds(k)'
      BY <2>4, ConcludeCancelFacts DEF CancelTo, CancelHolds
    <3>4. CASE can[k].how # "settle"
      <4>1. UNCHANGED busy BY <2>4, <3>4 DEF ConcludeCancel
      <4> QED BY <3>1, <3>2, <3>3, <4>1 DEF HoldInv, Holds
    <3>5. CASE can[k].how = "settle"
      <4>1. CancelHolds(k) /\ busy' = FALSE
        BY <2>4, <3>5 DEF ConcludeCancel, CancelHolds
      <4>2. \A n \in Messages : ~Holds(n)'
        BY <3>1, <4>1, ExecutorAssumption DEF HoldInv, Holds, ShapeInv
      <4> QED BY <3>1, <3>2, <3>3, <4>1, <4>2 DEF HoldInv
    <3> QED BY <3>4, <3>5
  <2> QED BY <1>2, <2>1, <2>2, <2>3, <2>4 DEF CancelStep
<1>3. CASE UNCHANGED vars BY <1>3 DEF vars, HoldInv, Holds, CancelHolds
<1>4. CASE Restart
  <2>1. \A n \in Messages : ~Holds(n)'
    BY SMTT(60), <1>4, RestartFacts DEF Holds, Executing
  <2>2. \A k \in Cancels : ~CancelHolds(k)'
    BY SMTT(60), <1>4, RestartFacts DEF CancelHolds
  <2> QED BY <1>4, <2>1, <2>2 DEF Restart, HoldInv
<1>5. ASSUME NEW m \in Messages, NEW t \in Tasks, Send(m, t) \/ Steer(m, t)
      PROVE  HoldInv'
  <2>1. Moves(m) /\ ~Holds(m)' /\ UNCHANGED <<busy, active, can>>
    BY <1>5, SendFacts, SteerFacts DEF Send, Steer, Holds
  <2> QED BY SMTT(60), <2>1 DEF HoldInv, Moves, Still, Holds, CancelHolds
<1>6. ASSUME NEW k \in Cancels, NEW t \in Tasks, SendCancel(k, t)
      PROVE  HoldInv'
  <2>1. /\ \A j \in Cancels \ {k} : CancelHolds(j)' = CancelHolds(j)
        /\ ~CancelHolds(k)' /\ UNCHANGED <<busy, active, msg>>
    BY ZenonT(60), <1>6, SendCancelFacts DEF CancelMoves, CancelHolds, SendCancel
  <2> QED BY <2>1 DEF HoldInv, Holds
<1> QED BY <1>1, <1>2, <1>3, <1>4, <1>5, <1>6 DEF Next

\* A step that neither starts nor ends a run.
LEMMA TaskKept ==
    ASSUME TaskInv, NEW m \in Messages, Moves(m), UNCHANGED rt,
           msg'[m].task = msg[m].task, Runs(m)' <=> Runs(m),
           Executing(m)' => Executing(m)
    PROVE  TaskInv'
<1>1. \A n \in Messages : /\ Runs(n)' <=> Runs(n)
                          /\ Executing(n)' => Executing(n)
                          /\ msg'[n].task = msg[n].task
  BY DEF Moves, Still, Runs, Executing
<1> QED BY <1>1 DEF TaskInv

\* A step that starts a run.
LEMMA TaskOpened ==
    ASSUME TypeOK, TaskInv, NEW m \in Messages, Moves(m), msg[m].task \in Tasks,
           rt' = [rt EXCEPT ![msg[m].task] = "open"],
           msg'[m].task = msg[m].task, Runs(m)', Executing(m)
    PROVE  TaskInv'
<1>1. \A n \in Messages \ {m} : /\ Runs(n)' <=> Runs(n)
                                /\ Executing(n)' => Executing(n)
                                /\ msg'[n].task = msg[n].task
  BY DEF Moves, Still, Runs, Executing
<1>3. \A n \in Messages : Runs(n)' => rt'[msg'[n].task] = "open"
  BY <1>1 DEF TaskInv, TypeOK
<1>4. \A t \in Tasks : rt'[t] = "open" =>
         \E n \in Messages : Runs(n)' /\ msg'[n].task = t
  BY <1>1 DEF TaskInv, TypeOK
<1> QED BY <1>1, <1>3, <1>4 DEF TaskInv

\* A step that ends one, or forgets that it ended.
LEMMA TaskClosed ==
    ASSUME TypeOK, TaskInv, NEW m \in Messages, Moves(m), msg[m].task \in Tasks,
           NEW r \in {"none", "closed"}, rt' = [rt EXCEPT ![msg[m].task] = r],
           msg'[m].task = msg[m].task, ~Runs(m)', Executing(m)
    PROVE  TaskInv'
<1>1. \A n \in Messages \ {m} : /\ Runs(n)' <=> Runs(n)
                                /\ Executing(n)' => Executing(n)
                                /\ msg'[n].task = msg[n].task
  BY DEF Moves, Still, Runs, Executing
<1>2. \A n \in Messages \ {m} : Runs(n) => msg[n].task # msg[m].task
  BY DEF TaskInv, Runs, Executing
<1>3. \A n \in Messages : Runs(n)' => rt'[msg'[n].task] = "open"
  BY <1>1, <1>2 DEF TaskInv, TypeOK
<1>4. \A t \in Tasks : rt'[t] = "open" =>
         \E n \in Messages : Runs(n)' /\ msg'[n].task = t
  <2> SUFFICES ASSUME NEW t \in Tasks, rt'[t] = "open"
               PROVE  \E n \in Messages : Runs(n)' /\ msg'[n].task = t
    OBVIOUS
  <2>1. t # msg[m].task /\ rt[t] = "open" BY DEF TypeOK
  <2>2. PICK n \in Messages : Runs(n) /\ msg[n].task = t
    BY <2>1 DEF TaskInv
  <2> QED BY <1>1, <2>1, <2>2
<1> QED BY <1>1, <1>3, <1>4 DEF TaskInv

\* Every step keeps one execution of a task.
LEMMA TaskStep ==
    ASSUME TypeOK, ShapeInv, TaskInv, [Next]_vars
    PROVE  TaskInv'
<1> USE DEF steers
<1>1. ASSUME NEW m \in Messages, MessageStep(m) PROVE TaskInv'
  <2>t. msg[m].pc # "new" => msg[m].task \in Tasks BY DEF ShapeInv
  <2>1. CASE Take(m) BY <2>1 DEF Take, TaskInv, Runs, Executing
  <2>2. CASE Claim(m)
    <3>1. /\ Moves(m) /\ msg'[m].task = msg[m].task /\ ~Runs(m) /\ ~Runs(m)'
          /\ Executing(m)
      BY <2>2, ClaimFacts DEF Goto, Runs, Executing
    <3> QED BY <2>2, <3>1, TaskKept DEF Claim
  <2>3. CASE Check(m)
    <3>1. /\ Moves(m) /\ msg'[m].task = msg[m].task /\ ~Runs(m) /\ ~Runs(m)'
          /\ Executing(m)
      BY <2>3, CheckFacts DEF Goto, Runs, Executing
    <3> QED BY <2>3, <3>1, TaskKept DEF Check
  <2>4. CASE Track(m)
    <3>1. /\ Moves(m) /\ msg'[m].task = msg[m].task /\ ~Runs(m) /\ Executing(m)
          /\ msg[m].task \in Tasks
      BY <2>4, <2>t, TrackFacts DEF Goto, Runs, Executing
    <3>2. CASE Goto(m, "run") /\ rt' = [rt EXCEPT ![msg[m].task] = "open"]
      BY <3>1, <3>2, TaskOpened DEF Runs, Goto
    <3>3. CASE Goto(m, "done") /\ UNCHANGED rt
      BY <3>1, <3>3, TaskKept DEF Runs, Goto
    <3> QED BY <2>4, <3>2, <3>3, TrackFacts
  <2>5. ASSUME NEW why \in Reasons, NEW calls \in SUBSET Calls,
               EndRun(m, why, calls)
        PROVE  TaskInv'
    <3>1. /\ Moves(m) /\ msg'[m].task = msg[m].task /\ Runs(m) /\ Runs(m)'
          /\ Executing(m)
      BY <2>5, EndRunFacts DEF Goto, Runs, Executing
    <3> QED BY <2>5, <3>1, TaskKept DEF EndRun
  <2>6. CASE Relay(m)
    <3>1. /\ Moves(m) /\ Runs(m) /\ Executing(m) /\ msg[m].task \in Tasks
          /\ Closes(m) \/ TakesUp(m) \/ HandsOn(m)
      BY <2>6, <2>t, RelayFacts DEF Runs, Executing
    <3>2. CASE Closes(m)
      <4>1. /\ ~Runs(m)' /\ rt' = [rt EXCEPT ![msg[m].task] = "closed"]
            /\ msg'[m].task = msg[m].task
        BY <3>2 DEF Closes, Closed, Goto, Runs
      <4> QED BY <3>1, <4>1, TaskClosed
    <3>3. CASE TakesUp(m) \/ HandsOn(m)
      <4>1. Runs(m)' /\ UNCHANGED rt /\ msg'[m].task = msg[m].task
        BY <3>3 DEF TakesUp, HandsOn, Goto, Runs
      <4> QED BY <3>1, <4>1, TaskKept
    <3> QED BY <3>1, <3>2, <3>3
  <2>7. CASE Bounded(m)
    <3>1. /\ Moves(m) /\ ~Runs(m)' /\ rt' = [rt EXCEPT ![msg[m].task] = "closed"]
          /\ msg'[m].task = msg[m].task /\ Executing(m) /\ msg[m].task \in Tasks
      BY <2>7, <2>t, BoundedFacts DEF Closed, Goto, Runs, Executing
    <3> QED BY <3>1, TaskClosed
  <2>8. CASE Save(m)
    <3>1. /\ Moves(m) /\ msg'[m].task = msg[m].task /\ ~Runs(m) /\ ~Runs(m)'
          /\ Executing(m)
      BY <2>8, SaveFacts DEF Goto, Runs, Executing
    <3> QED BY <2>8, <3>1, TaskKept DEF Save
  <2>9. CASE Conclude(m)
    <3>1. /\ Moves(m) /\ ~Runs(m)' /\ rt' = [rt EXCEPT ![msg[m].task] = "none"]
          /\ msg'[m].task = msg[m].task /\ Executing(m) /\ msg[m].task \in Tasks
      BY <2>9, <2>t, ConcludeFacts DEF Goto, Runs, Executing
    <3> QED BY <3>1, TaskClosed
  <2> QED BY <1>1, <2>1, <2>2, <2>3, <2>4, <2>5, <2>6, <2>7, <2>8, <2>9
    DEF MessageStep
<1>2. ASSUME NEW k \in Cancels, CancelStep(k) PROVE TaskInv'
  <2>1. UNCHANGED rt /\ (UNCHANGED msg \/ \A n \in Messages : Still(n))
    BY <1>2, ClaimCancelFacts
    DEF CancelStep, ClaimCancel, DropOwed, Settle, ConcludeCancel
  <2>2. CASE UNCHANGED msg BY <2>1, <2>2 DEF TaskInv, Runs, Executing
  <2>3. CASE \A n \in Messages : Still(n)
    BY <2>1, <2>3 DEF TaskInv, Runs, Executing, Still
  <2> QED BY <2>1, <2>2, <2>3
<1>3. CASE UNCHANGED vars BY <1>3 DEF vars, TaskInv, Runs, Executing
<1>4. CASE Restart
  <2>1. \A n \in Messages : ~Runs(n)' /\ ~Executing(n)'
    BY <1>4, RestartFacts DEF Runs, Executing
  <2>2. \A t \in Tasks : rt'[t] # "open" BY <1>4 DEF Restart
  <2> QED BY <2>1, <2>2 DEF TaskInv
<1>5. ASSUME NEW m \in Messages, NEW t \in Tasks, Send(m, t) PROVE TaskInv'
  <2>1. \A n \in Messages \ {m} : /\ Runs(n)' <=> Runs(n)
                                  /\ Executing(n)' => Executing(n)
                                  /\ msg'[n].task = msg[n].task
    BY <1>5, SendFacts DEF Moves, Still, Runs, Executing
  <2>2. ~Runs(m) /\ ~Runs(m)' /\ msg'[m].task = t /\ UNCHANGED rt
    BY <1>5, SendFacts DEF Runs, Send
  <2>3. \A n \in Messages : msg[n].task = t => ~Executing(n)
    BY <1>5, SendFacts
  <2> QED BY <2>1, <2>2, <2>3 DEF TaskInv
<1>6. ASSUME NEW m \in Messages, NEW t \in Tasks, Steer(m, t) PROVE TaskInv'
  <2>1. \A n \in Messages \ {m} : /\ Runs(n)' <=> Runs(n)
                                  /\ Executing(n)' => Executing(n)
                                  /\ msg'[n].task = msg[n].task
    BY <1>6, SteerFacts DEF Moves, Still, Runs, Executing
  <2>2. ~Runs(m) /\ ~Runs(m)' /\ ~Executing(m)' /\ UNCHANGED rt
    BY <1>6, SteerFacts DEF Runs, Executing, Steer
  <2> QED BY <2>1, <2>2 DEF TaskInv
<1>7. ASSUME NEW k \in Cancels, NEW t \in Tasks, SendCancel(k, t)
      PROVE  TaskInv'
  BY <1>7 DEF SendCancel, TaskInv, Runs, Executing
<1> QED BY <1>1, <1>2, <1>3, <1>4, <1>5, <1>6, <1>7 DEF Next

-----------------------------------------------------------------------------
(* The steers.                                                             *)

\* What excuses a dropped steer stays: a bound that was met, an event that
\* could not be written, a reason that is final, a cancel that took hold.
Stays(n) ==
    /\ msg[n].bounded => msg'[n].bounded
    /\ msg[n].werr => msg'[n].werr
    /\ Final(n) => Final(n)'
    /\ msg[n].task \in Tasks => msg'[n].task = msg[n].task

\* A message's own steps keep its excuse, and do not make it a steer.
LEMMA FinalStays ==
    ASSUME TypeOK, ShapeInv, [Next]_vars, NEW n \in Messages
    PROVE  Stays(n)
<1> USE DEF Stays, Final
<1>1. ASSUME NEW m \in Messages, MessageStep(m)
      PROVE  Stays(n)
  <2>1. CASE Take(m) BY <2>1 DEF Take
  <2>2. CASE Claim(m)
    BY <2>2, ClaimFacts DEF Moves, Still, SameFlags, Goto
  <2>3. CASE Check(m)
    BY <2>3, CheckFacts DEF Moves, Still, SameFlags, Goto
  <2>4. CASE Track(m)
    BY <2>4, TrackFacts DEF Moves, Still, SameFlags, Goto
  <2>5. ASSUME NEW why \in Reasons, NEW calls \in SUBSET Calls,
               EndRun(m, why, calls)
        PROVE  Stays(n)
    BY <2>5, EndRunFacts DEF Moves, Still
  <2>6. CASE Relay(m)
    BY <2>6, RelayFacts
    DEF Moves, Still, SameFlags, Closes, TakesUp, HandsOn, Goto
  <2>7. CASE Bounded(m)
    BY <2>7, BoundedFacts DEF Moves, Still, SameFlags, Goto
  <2>8. CASE Save(m)
    BY <2>8, SaveFacts DEF Moves, Still, SameFlags, SameEnd, Goto
  <2>9. CASE Conclude(m)
    BY <2>9, ConcludeFacts DEF Moves, Still, SameFlags, SameEnd, Goto
  <2> QED BY <1>1, <2>1, <2>2, <2>3, <2>4, <2>5, <2>6, <2>7, <2>8, <2>9
    DEF MessageStep
<1>2. ASSUME NEW k \in Cancels, CancelStep(k)
      PROVE  Stays(n)
  <2>1. UNCHANGED msg \/ Still(n)
    BY <1>2, ClaimCancelFacts
    DEF CancelStep, ClaimCancel, DropOwed, Settle, ConcludeCancel
  <2> QED BY <2>1 DEF Still
<1>3. CASE UNCHANGED vars BY <1>3 DEF vars
<1>4. CASE Restart
  BY <1>4, RestartFacts DEF SameFlags, SameEnd, Executing
<1>5. ASSUME NEW m \in Messages, NEW t \in Tasks, Send(m, t) \/ Steer(m, t)
      PROVE  Stays(n)
  <2>1. msg[m].pc = "new" => msg[m].task \notin Tasks
    BY ExecutorAssumption DEF ShapeInv
  <2> QED BY <1>5, <2>1, SendFacts, SteerFacts DEF Moves, Still, SameFlags
<1>6. ASSUME NEW k \in Cancels, NEW t \in Tasks, SendCancel(k, t)
      PROVE  Stays(n)
  BY <1>6 DEF SendCancel
<1> QED BY <1>1, <1>2, <1>3, <1>4, <1>5, <1>6 DEF Next

\* How a cancel took hold does not change, nor does its task.
Held(j) == can'[j].how = can[j].how /\ can'[j].task = can[j].task

LEMMA HowStays ==
    ASSUME TypeOK, ShapeInv, [Next]_vars, NEW j \in Cancels, can[j].how # "none"
    PROVE  Held(j)
<1> USE DEF Held
<1>1. ASSUME NEW k \in Cancels, CancelStep(k) PROVE Held(j)
  <2>1. CASE ClaimCancel(k)
    BY ZenonT(60), <2>1, ClaimCancelFacts DEF CancelMoves, ShapeInv
  <2>2. CASE DropOwed(k)
    BY <2>2, DropOwedFacts DEF CancelMoves, CancelTo
  <2>3. CASE Settle(k) BY <2>3, SettleFacts DEF CancelMoves, CancelTo
  <2>4. CASE ConcludeCancel(k)
    BY <2>4, ConcludeCancelFacts DEF CancelMoves, CancelTo
  <2> QED BY <1>1, <2>1, <2>2, <2>3, <2>4 DEF CancelStep
<1>2. CASE UNCHANGED vars BY <1>2 DEF vars
<1>3. CASE Restart BY SMTT(60), <1>3, RestartFacts
<1>4. ASSUME NEW m \in Messages, MessageStep(m) PROVE UNCHANGED can
  BY <1>4 DEF MessageStep, Claim, Check, Track, Take, EndRun, Relay, Bounded,
              Save, Conclude
<1>5. ASSUME NEW m \in Messages, NEW t \in Tasks, Send(m, t) \/ Steer(m, t)
      PROVE  UNCHANGED can
  BY <1>5 DEF Send, Steer
<1>6. ASSUME NEW k \in Cancels, NEW t \in Tasks, SendCancel(k, t)
      PROVE  Held(j)
  BY <1>6, SendCancelFacts DEF CancelMoves, ShapeInv
<1> QED BY <1>1, <1>2, <1>3, <1>4, <1>5, <1>6 DEF Next

\* An excuse stays one.
LEMMA ExcusedStays ==
    ASSUME TypeOK, ShapeInv, [Next]_vars, NEW t \in Tasks, Excused(t)
    PROVE  Excused(t)'
<1>1. ASSUME NEW m \in Messages, msg[m].task = t,
             Final(m) \/ msg[m].bounded \/ msg[m].werr
      PROVE  Excused(t)'
  <2>1. /\ msg'[m].task = t
        /\ Final(m)' \/ msg'[m].bounded \/ msg'[m].werr
    BY <1>1, FinalStays DEF Stays
  <2> QED BY <2>1 DEF Excused
<1>2. ASSUME NEW k \in Cancels, can[k].task = t, can[k].how # "none"
      PROVE  Excused(t)'
  BY <1>2, HowStays DEF Excused, Held
<1>3. CASE \E m \in Messages : /\ msg[m].task = t
                               /\ Final(m) \/ msg[m].bounded \/ msg[m].werr
  BY <1>1, <1>3
<1>4. CASE \E k \in Cancels : can[k].task = t /\ can[k].how # "none"
  BY <1>2, <1>4
<1> QED BY <1>3, <1>4 DEF Excused

\* A steer is served where it is dropped with an excuse.
LEMMA DroppedServed ==
    ASSUME NEW s, NEW t \in Tasks, <<s, t>> \in dropped', Excused(t)'
    PROVE  Served(s)'
  BY DEF Served

\* A steer is still served where nothing took it from its place.
LEMMA StillServed ==
    ASSUME TypeOK, ShapeInv, [Next]_vars, NEW s \in Messages, Served(s),
           taken \subseteq taken', lost \subseteq lost', dropped \subseteq dropped',
           s \in owed.steers => Served(s)',
           \A t \in Tasks : s \in queue[t] /\ rt[t] = "open" => Served(s)'
    PROVE  Served(s)'
<1>1. ASSUME NEW t \in Tasks, <<s, t>> \in dropped, Excused(t) PROVE Served(s)'
  <2>1. Excused(t)' /\ <<s, t>> \in dropped' BY <1>1, ExcusedStays
  <2> QED BY <2>1 DEF Served
<1>2. CASE s \in taken \cup lost BY <1>2 DEF Served
<1> QED BY <1>1, <1>2 DEF Served

\* A step that leaves the steers alone.
LEMMA SteersKept ==
    ASSUME TypeOK, ShapeInv, SteerInv, [Next]_vars, UNCHANGED steers,
           \A n \in Messages : /\ Runs(n)' => Runs(n)
                               /\ msg'[n].pc = "steered" => msg[n].pc = "steered"
    PROVE  SteerInv'
<1>1. UNCHANGED <<rt, steered, queue, owed, taken, dropped, lost>>
  BY DEF steers
<1>2. ASSUME NEW s \in Messages, Served(s) PROVE Served(s)'
  <2>1. /\ s \in owed.steers => Served(s)'
        /\ \A t \in Tasks : s \in queue[t] /\ rt[t] = "open" => Served(s)'
    BY <1>1 DEF Served
  <2> QED BY <1>1, <1>2, <2>1, StillServed
<1> QED BY <1>1, <1>2 DEF SteerInv

\* A task is closed: what its agent has is kept for the next message, or
\* there is an excuse to drop it.
LEMMA SteersClosed ==
    ASSUME TypeOK, ShapeInv, HoldInv, TaskInv, SteerInv, [Next]_vars,
           NEW m \in Messages, Moves(m), Runs(m), Goto(m, "save"),
           NEW t \in Tasks, t = msg[m].task, NEW kept, Closed(t, kept),
           queue[t] \cap kept \subseteq owed'.steers,
           queue[t] \subseteq kept \/ Excused(t)'
    PROVE  SteerInv'
<1>1. \A n \in Messages : ~Runs(n)'
  BY DEF HoldInv, Moves, Still, Runs, Holds, Goto
<1>2. \A u \in Tasks : rt'[u] = "open" =>
         u # t /\ rt[u] = "open" /\ queue'[u] = queue[u] /\ steered'[u] = steered[u]
  BY DEF Closed, TypeOK
<1>3. owed.steers = {} BY DEF SteerInv
<1>4. ASSUME NEW s \in Messages, msg'[s].pc = "steered"
      PROVE  Served(s)'
  <2>1. msg[s].pc = "steered" BY <1>4 DEF Moves, Still, Goto
  <2>2. Served(s) BY <2>1 DEF SteerInv
  <2>3. taken \subseteq taken' /\ lost \subseteq lost' /\ dropped \subseteq dropped'
    BY DEF Closed
  <2>5. ASSUME NEW u \in Tasks, s \in queue[u], rt[u] = "open", u # t
        PROVE  Served(s)'
    <3>1. s \in queue'[u] /\ rt'[u] = "open" BY <2>5 DEF Closed, TypeOK
    <3> QED BY <3>1 DEF Served
  <2>6. CASE s \in queue[t]
    <3>1. CASE s \in kept BY <2>6, <3>1 DEF Served
    <3>2. CASE s \notin kept
      <4>1. <<s, t>> \in dropped' /\ Excused(t)'
        BY <2>6, <3>2 DEF Closed
      <4> QED BY <4>1, DroppedServed
    <3> QED BY <3>1, <3>2
  <2> QED BY <1>3, <2>2, <2>3, <2>5, <2>6, StillServed
<1> QED BY <1>1, <1>2, <1>4 DEF SteerInv

\* The steps of messages serve the steers.
LEMMA SteerMessage ==
    ASSUME TypeOK, ShapeInv, HoldInv, TaskInv, SteerInv, [Next]_vars,
           NEW m \in Messages, MessageStep(m)
    PROVE  SteerInv'
<1>p. PICK t : t = msg[m].task OBVIOUS
<1> USE <1>p
<1>t. msg[m].pc # "new" => t \in Tasks BY DEF ShapeInv
<1>1. CASE Take(m)
  <2>1. t \in Tasks /\ UNCHANGED <<rt, steered, owed, dropped, lost, msg>>
    BY <1>1, <1>t DEF Take
  <2>2. queue' = [queue EXCEPT ![t] = {}] /\ taken' = taken \cup queue[t]
    BY <1>1 DEF Take
  <2>3. ASSUME NEW s \in Messages, Served(s) PROVE Served(s)'
    <3>1. ASSUME NEW u \in Tasks, s \in queue[u], rt[u] = "open", u # t
          PROVE  s \in queue'[u] /\ rt'[u] = "open"
      BY <2>1, <2>2, <3>1 DEF TypeOK
    <3>2. /\ s \in owed.steers => Served(s)'
          /\ \A u \in Tasks : s \in queue[u] /\ rt[u] = "open" => Served(s)'
      BY <2>1, <2>2, <3>1 DEF Served
    <3> QED BY <2>1, <2>2, <2>3, <3>2, StillServed
  <2>4. \A u \in Tasks : queue'[u] \subseteq queue[u] BY <2>2 DEF TypeOK
  <2> QED BY <2>1, <2>3, <2>4 DEF SteerInv, Runs
<1>2. CASE Claim(m)
  <2>1. \A n \in Messages : /\ Runs(n)' => Runs(n)
                            /\ msg'[n].pc = "steered" => msg[n].pc = "steered"
    BY <1>2, ClaimFacts DEF Moves, Still, Runs, Goto
  <2> QED BY <1>2, <2>1, SteersKept DEF Claim
<1>3. CASE Check(m)
  <2>1. \A n \in Messages : /\ Runs(n)' => Runs(n)
                            /\ msg'[n].pc = "steered" => msg[n].pc = "steered"
    BY <1>3, CheckFacts DEF Moves, Still, Runs, Goto
  <2> QED BY <1>3, <2>1, SteersKept DEF Check
<1>4. CASE Track(m)
  <2>1. /\ t \in Tasks /\ Moves(m) /\ owed' = NoneOwed /\ UNCHANGED taken
        /\ msg[m].pc = "ready" /\ owed'.steers = {}
    BY <1>4, <1>t, TrackFacts DEF Track, NoneOwed
  <2>2. rt[t] # "open"
    <3> SUFFICES ASSUME rt[t] = "open" PROVE FALSE
      OBVIOUS
    <3>1. PICK n \in Messages : Runs(n) /\ msg[n].task = t
      BY <2>1 DEF TaskInv
    <3> QED BY <2>1, <3>1 DEF TaskInv, Runs, Executing
  <2>3. ASSUME Goto(m, "run"), UNCHANGED dropped,
               rt' = [rt EXCEPT ![t] = "open"], NEW refused \in SUBSET owed.steers,
               HandedOn(t, refused), lost' = lost \cup refused
        PROVE  SteerInv'
    <3>1. \A u \in Tasks \ {t} : rt'[u] = rt[u] /\ queue'[u] = queue[u]
                                 /\ steered'[u] = steered[u]
      BY <2>3 DEF HandedOn, TypeOK
    <3>2. /\ rt'[t] = "open" /\ queue'[t] = owed.steers \ refused
          /\ steered'[t] = owed.steers \ refused
      BY <2>1, <2>3 DEF HandedOn, TypeOK
    <3>3. ASSUME NEW s \in Messages, Served(s) PROVE Served(s)'
      <4>1. /\ s \in owed.steers => Served(s)'
            /\ \A u \in Tasks : s \in queue[u] /\ rt[u] = "open" => Served(s)'
        BY <2>1, <2>2, <2>3, <3>1, <3>2 DEF Served
      <4> QED BY <2>1, <2>3, <3>3, <4>1, StillServed
    <3>4. \A s \in Messages : msg'[s].pc = "steered" => msg[s].pc = "steered"
      BY <2>1, <2>3 DEF Moves, Still, Goto
    <3> QED BY <2>1, <3>1, <3>2, <3>3, <3>4 DEF SteerInv
  <2>4. CASE /\ Goto(m, "done") /\ msg'[m].werr
             /\ UNCHANGED <<rt, steered, queue, lost>>
             /\ dropped' = dropped \cup (owed.steers \X {t})
    <3>1. Excused(t)' BY <2>4 DEF Excused, Goto
    <3>2. ASSUME NEW s \in Messages, Served(s) PROVE Served(s)'
      <4>1. ASSUME s \in owed.steers PROVE Served(s)'
        <5>1. <<s, t>> \in dropped' BY <2>4, <4>1
        <5> QED BY <2>1, <3>1, <5>1, DroppedServed
      <4>2. \A u \in Tasks : s \in queue[u] /\ rt[u] = "open" => Served(s)'
        BY <2>4 DEF Served
      <4> QED BY <2>1, <2>4, <3>2, <4>1, <4>2, StillServed
    <3>3. \A s \in Messages : msg'[s].pc = "steered" => msg[s].pc = "steered"
      BY <2>1, <2>4 DEF Moves, Still, Goto
    <3> QED BY <2>1, <2>4, <3>2, <3>3 DEF SteerInv
  <2> QED BY <1>4, <2>3, <2>4, TrackFacts
<1>5. ASSUME NEW why \in Reasons, NEW calls \in SUBSET Calls,
             EndRun(m, why, calls)
      PROVE  SteerInv'
  <2>1. \A n \in Messages : /\ Runs(n)' => Runs(n)
                            /\ msg'[n].pc = "steered" => msg[n].pc = "steered"
    BY <1>5, EndRunFacts DEF Moves, Still, Runs, Goto
  <2> QED BY <1>5, <2>1, SteersKept DEF EndRun
<1>6. CASE Relay(m)
  <2>1. /\ Moves(m) /\ Runs(m) /\ t \in Tasks /\ msg[m].reason \in Reasons
        /\ Closes(m) \/ TakesUp(m) \/ HandsOn(m)
    BY <1>6, <1>t, RelayFacts DEF Runs, ShapeInv
  <2>2. rt[t] = "open" /\ queue[t] \subseteq steered[t] /\ owed.steers = {}
    BY <2>1 DEF TaskInv, SteerInv
  <2>3. Leftover(m) = queue[t] BY <2>2 DEF Leftover
  <2>4. CASE Closes(m)
    <3>1. Goto(m, "save") /\ SameEnd(m) /\ SameFlags(m)
      BY <2>4 DEF Closes
    <3>2. CASE /\ Closed(t, {})
               /\ \/ msg[m].werr \/ Leftover(m) = {}
                  \/ msg[m].reason \notin {"done", "terminated", "input"}
      <4>1. queue[t] = {} \/ Excused(t)'
        <5>1. CASE msg[m].werr
          BY <3>1, <5>1 DEF Goto, SameFlags, Excused
        <5>2. CASE msg[m].reason \notin {"done", "terminated", "input"}
          BY <2>1, <3>1, <5>2 DEF Goto, SameEnd, Excused, Final, Reasons
        <5> QED BY <2>3, <3>2, <5>1, <5>2
      <4>2. queue[t] \subseteq {} \/ Excused(t)' BY <4>1
      <4>3. queue[t] \cap {} \subseteq owed'.steers OBVIOUS
      <4> QED BY <2>1, <3>1, <3>2, <4>2, <4>3, SteersClosed
    <3>3. CASE /\ owed' = [task |-> t, steers |-> Leftover(m)]
               /\ Closed(t, Leftover(m))
      <4>1. owed'.steers = queue[t] BY <2>3, <3>3
      <4>2. queue[t] \cap queue[t] \subseteq owed'.steers BY <4>1
      <4> QED BY <2>1, <2>3, <3>1, <3>3, <4>2, SteersClosed
    <3> QED BY <2>4, <3>2, <3>3 DEF Closes
  <2>5. CASE TakesUp(m)
    <3>1. /\ UNCHANGED <<rt, owed, dropped, lost>>
          /\ steered' = [steered EXCEPT ![t] = queue[t]]
          /\ \/ /\ queue' = [queue EXCEPT ![t] = {}]
                /\ taken' = taken \cup queue[t]
             \/ UNCHANGED <<queue, taken>>
      BY <2>3, <2>5 DEF TakesUp
    <3>2. \A n \in Messages : /\ Runs(n)' => Runs(n)
                              /\ msg'[n].pc = "steered" => msg[n].pc = "steered"
      BY <2>1, <2>5 DEF TakesUp, Moves, Still, Runs, Goto
    <3>3. ASSUME NEW s \in Messages, Served(s) PROVE Served(s)'
      <4>1. ASSUME NEW u \in Tasks, s \in queue[u], rt[u] = "open"
            PROVE  s \in taken' \/ s \in queue'[u]
        BY <3>1, <4>1 DEF TypeOK
      <4>2. /\ s \in owed.steers => Served(s)'
            /\ \A u \in Tasks : s \in queue[u] /\ rt[u] = "open" => Served(s)'
        BY <3>1, <4>1 DEF Served
      <4> QED BY <3>1, <3>3, <4>2, StillServed
    <3>4. \A u \in Tasks : rt'[u] = "open" => queue'[u] \subseteq steered'[u]
      BY <2>1, <2>2, <3>1 DEF SteerInv, TypeOK
    <3> QED BY <3>1, <3>2, <3>3, <3>4 DEF SteerInv
  <2>6. CASE HandsOn(m)
    <3>1. \A n \in Messages : /\ Runs(n)' => Runs(n)
                              /\ msg'[n].pc = "steered" => msg[n].pc = "steered"
      BY <2>1, <2>6 DEF HandsOn, Moves, Still, Runs, Goto
    <3> QED BY <2>6, <3>1, SteersKept DEF HandsOn, steers
  <2> QED BY <2>1, <2>4, <2>5, <2>6
<1>7. CASE Bounded(m)
  <2>1. /\ Moves(m) /\ Runs(m) /\ Goto(m, "save") /\ t \in Tasks
        /\ Closed(t, {})
    BY <1>7, <1>t, BoundedFacts DEF Runs
  <2>2. Excused(t)'
    BY <1>7, BoundedFacts DEF ShapeInv, SameFlags, Excused, Goto
  <2>3. queue[t] \cap {} \subseteq owed'.steers OBVIOUS
  <2> QED BY <2>1, <2>2, <2>3, SteersClosed
<1>8. CASE Save(m)
  <2>1. \A n \in Messages : /\ Runs(n)' => Runs(n)
                            /\ msg'[n].pc = "steered" => msg[n].pc = "steered"
    BY <1>8, SaveFacts DEF Moves, Still, Runs, Goto
  <2> QED BY <1>8, <2>1, SteersKept DEF Save
<1>9. CASE Conclude(m)
  <2>1. /\ t \in Tasks
        /\ UNCHANGED <<steered, queue, owed, taken, dropped, lost>>
        /\ rt' = [rt EXCEPT ![t] = "none"] /\ msg[m].pc = "tell"
    BY <1>9, <1>t DEF Conclude
  <2>2. \A n \in Messages : /\ Runs(n)' => Runs(n)
                            /\ msg'[n].pc = "steered" => msg[n].pc = "steered"
    BY <1>9, ConcludeFacts DEF Moves, Still, Runs, Goto
  <2>3. rt[t] # "open"
    <3> SUFFICES ASSUME rt[t] = "open" PROVE FALSE
      OBVIOUS
    <3>1. PICK n \in Messages : Runs(n) /\ msg[n].task = t
      BY <2>1 DEF TaskInv
    <3> QED BY <2>1, <3>1 DEF TaskInv, Runs, Executing
  <2>4. \A u \in Tasks : rt'[u] = "open" <=> rt[u] = "open"
    BY <2>1, <2>3 DEF TypeOK
  <2>5. ASSUME NEW s \in Messages, Served(s) PROVE Served(s)'
    <3>1. /\ s \in owed.steers => Served(s)'
          /\ \A u \in Tasks : s \in queue[u] /\ rt[u] = "open" => Served(s)'
      BY <2>1, <2>4 DEF Served
    <3> QED BY <2>1, <2>5, <3>1, StillServed
  <2> QED BY <2>1, <2>2, <2>4, <2>5 DEF SteerInv
<1> QED BY <1>1, <1>2, <1>3, <1>4, <1>5, <1>6, <1>7, <1>8, <1>9 DEF MessageStep

\* Every step serves the steers.
LEMMA SteerStep ==
    ASSUME TypeOK, ShapeInv, HoldInv, TaskInv, SteerInv, [Next]_vars
    PROVE  SteerInv'
<1>1. ASSUME NEW m \in Messages, MessageStep(m) PROVE SteerInv'
  BY <1>1, SteerMessage
<1>2. ASSUME NEW k \in Cancels, CancelStep(k) PROVE SteerInv'
  <2>1. CASE DropOwed(k)
    <3>1. UNCHANGED <<rt, steered, queue, taken, lost, msg>>
      BY <2>1 DEF DropOwed
    <3>t. PICK t : t = can[k].task OBVIOUS
    <3> USE <3>t
    <3>2. \/ /\ owed'.steers = {}
             /\ dropped' = dropped \cup (owed.steers \X {t})
          \/ UNCHANGED <<owed, dropped>>
      BY <2>1, DropOwedFacts DEF NoneOwed
    <3>3. can[k].how # "none" /\ t \in Tasks
      BY <2>1 DEF DropOwed, ShapeInv
    <3>4. Excused(t)' BY <3>3, HowStays DEF Excused, Held
    <3>5. ASSUME NEW s \in Messages, Served(s) PROVE Served(s)'
      <4>1. \A u \in Tasks : s \in queue[u] /\ rt[u] = "open" => Served(s)'
        BY <3>1 DEF Served
      <4>2. ASSUME s \in owed.steers PROVE Served(s)'
        <5>1. CASE UNCHANGED owed BY <4>2, <5>1 DEF Served
        <5>2. CASE dropped' = dropped \cup (owed.steers \X {t})
          <6>1. <<s, t>> \in dropped' BY <4>2, <5>2
          <6> QED BY <3>3, <3>4, <6>1, DroppedServed
        <5> QED BY <3>2, <5>1, <5>2
      <4>3. dropped \subseteq dropped' BY <3>2
      <4> QED BY <3>1, <3>5, <4>1, <4>2, <4>3, StillServed
    <3> QED BY <3>1, <3>2, <3>5 DEF SteerInv, Runs
  <2>2. CASE ClaimCancel(k) \/ Settle(k) \/ ConcludeCancel(k)
    <3>1. UNCHANGED steers
      BY <2>2 DEF ClaimCancel, Settle, ConcludeCancel
    <3>2. \A n \in Messages : Still(n) \/ UNCHANGED msg
      BY <2>2, ClaimCancelFacts DEF Settle, ConcludeCancel
    <3> QED BY <3>1, <3>2, SteersKept DEF Still, Runs
  <2> QED BY <1>2, <2>1, <2>2 DEF CancelStep
<1>3. CASE UNCHANGED vars BY <1>3, SteersKept DEF vars, Runs
<1>4. CASE Restart
  <2>1. \A n \in Messages : /\ ~Runs(n)'
                            /\ msg'[n].pc = "steered" => msg[n].pc = "steered"
    BY <1>4, RestartFacts DEF Runs, Executing
  <2>2. /\ \A t \in Tasks : rt'[t] # "open"
        /\ lost \cup owed.steers \subseteq lost' /\ UNCHANGED <<taken, dropped>>
        /\ \A t \in Tasks : queue[t] \subseteq lost'
    BY <1>4 DEF Restart
  <2>3. ASSUME NEW s \in Messages, Served(s) PROVE Served(s)'
    <3>1. /\ s \in owed.steers => Served(s)'
          /\ \A u \in Tasks : s \in queue[u] /\ rt[u] = "open" => Served(s)'
      BY <2>2 DEF Served
    <3> QED BY <2>2, <2>3, <3>1, StillServed
  <2> QED BY <2>1, <2>2, <2>3 DEF SteerInv
<1>5. ASSUME NEW m \in Messages, NEW t \in Tasks, Send(m, t) PROVE SteerInv'
  <2>1. \A n \in Messages : /\ Runs(n)' => Runs(n)
                            /\ msg'[n].pc = "steered" => msg[n].pc = "steered"
    BY <1>5, SendFacts DEF Moves, Still, Runs
  <2> QED BY <1>5, <2>1, SteersKept DEF Send
<1>6. ASSUME NEW m \in Messages, NEW t \in Tasks, Steer(m, t) PROVE SteerInv'
  <2>1. UNCHANGED <<rt, owed, taken, dropped, lost>> /\ rt[t] = "open"
    BY <1>6 DEF Steer
  <2>2. \A n \in Messages : Runs(n)' => Runs(n)
    BY <1>6, SteerFacts DEF Moves, Still, Runs
  <2>3. /\ \A u \in Tasks : queue[u] \subseteq queue'[u]
        /\ \A u \in Tasks : rt[u] = "open" => queue'[u] \subseteq steered'[u]
        /\ msg'[m].pc = "steered" => m \in queue'[t]
    BY SMTT(60), <1>6, SteerFacts DEF SteerInv, TypeOK
  <2>4. ASSUME NEW s \in Messages, msg'[s].pc = "steered" PROVE Served(s)'
    <3>1. CASE s = m BY <2>1, <2>3, <2>4, <3>1 DEF Served
    <3>2. CASE s # m
      <4>1. msg[s].pc = "steered"
        BY <1>6, <2>4, <3>2, SteerFacts DEF Moves, Still
      <4>2. Served(s) BY <4>1 DEF SteerInv
      <4>3. /\ s \in owed.steers => Served(s)'
            /\ \A u \in Tasks : s \in queue[u] /\ rt[u] = "open" => Served(s)'
        BY <2>1, <2>3 DEF Served
      <4> QED BY <2>1, <4>2, <4>3, StillServed
    <3> QED BY <3>1, <3>2
  <2> QED BY <2>1, <2>2, <2>3, <2>4 DEF SteerInv
<1>7. ASSUME NEW k \in Cancels, NEW t \in Tasks, SendCancel(k, t)
      PROVE  SteerInv'
  BY <1>7, SteersKept DEF SendCancel, Runs
<1> QED BY <1>1, <1>2, <1>3, <1>4, <1>5, <1>6, <1>7 DEF Next

-----------------------------------------------------------------------------
(* The messages that were on their way when a cancel came.                 *)

\* What LateInv says of one cancel and one message.
Late(k, m) ==
    /\ msg[m].pc # "new" /\ msg[m].task = can[k].task
    /\ can[k].pc \in {"drop", "settle"} => msg[m].pc \in {"sent", "done"}
    /\ can[k].pc \in {"tell", "done"} =>
          \/ msg[m].task \in moved
          \/ msg[m].pc = "sent" /\ mark = msg[m].task
          \/ msg[m].pc \in {"tell", "done"}

\* A task whose mark is taken is noted, and stays so.
LEMMA PassedNotes ==
    ASSUME NEW t
    PROVE  /\ moved \subseteq Passed(t)
           /\ mark # None /\ mark # t => mark \in Passed(t)
  BY DEF Passed

\* A step of another request that leaves the mark alone.
LEMMA LateKept ==
    ASSUME NEW k \in Cancels, NEW m \in Messages, Late(k, m), can'[k] = can[k],
           Still(m), UNCHANGED <<mark, moved>>
    PROVE  Late(k, m)'
  BY DEF Late, Still

\* The steps of messages leave what was late as it should be.
LEMMA LateMessage ==
    ASSUME TypeOK, ShapeInv, HoldInv, TaskInv, NEW x \in Messages, MessageStep(x),
           NEW k \in Cancels, NEW m \in Messages, can[k].how = "settle",
           can[k].pc # "new", Late(k, m)
    PROVE  Late(k, m)'
<1> USE DEF claims
<1>c. UNCHANGED can
  BY DEF MessageStep, Claim, Check, Track, Take, EndRun, Relay, Bounded, Save,
         Conclude
<1>t. msg[m].task \in Tasks /\ None \notin Tasks
  BY ExecutorAssumption DEF Late, ShapeInv
<1>1. CASE Claim(x) /\ x # m
  <2>1. Still(m) /\ msg[x].pc = "sent" BY <1>1, ClaimFacts DEF Moves
  <2>2. CASE UNCHANGED <<mark, moved>> BY <1>c, <2>1, <2>2, LateKept
  <2>3. CASE moved' = Passed(msg[x].task)
    <3>1. moved \subseteq moved' BY <2>3, PassedNotes
    <3>2. ASSUME msg[m].pc = "sent", mark = msg[m].task
          PROVE  msg[m].task \in moved'
      <4>1. msg[x].task # msg[m].task
        BY <1>1, <2>1, <3>2 DEF TaskInv, Executing
      <4> QED BY <1>t, <2>3, <3>2, <4>1, PassedNotes
    <3> QED BY <1>c, <2>1, <3>1, <3>2 DEF Late, Still
  <2> QED BY <1>1, <2>2, <2>3, ClaimFacts
<1>2. CASE Claim(m)
  <2>1. can[k].pc \in {"drop", "settle"} => busy
    BY DEF HoldInv, CancelHolds
  <2>2. moved \subseteq moved' /\ msg[m].pc = "sent" /\ msg'[m].task = msg[m].task
    BY <1>2, ClaimFacts, PassedNotes DEF Goto
  <2>3. CASE busy /\ Goto(m, "done") BY <1>c, <2>2, <2>3 DEF Late, Goto
  <2>4. CASE ~busy /\ Goto(m, "tell")
    BY <1>c, <2>1, <2>2, <2>4 DEF Late, Goto
  <2>5. CASE ~busy /\ mark # msg[m].task /\ Goto(m, "held")
    BY <1>c, <2>1, <2>2, <2>5 DEF Late, Goto
  <2> QED BY <1>2, <2>3, <2>4, <2>5, ClaimFacts
<1>3. CASE ~Claim(x)
  <2>1. UNCHANGED <<mark, moved>>
    BY ZenonT(60), <1>3 DEF MessageStep, Check, Track, Take, EndRun, Relay, Bounded, Save,
                Conclude, Freed
  <2>2. CASE Still(m) BY <1>c, <2>1, <2>2, LateKept
  <2>3. CASE Conclude(x) /\ x = m
    BY <1>c, <2>1, <2>3, ConcludeFacts DEF Late, Goto
  <2>4. CASE Take(x) BY <1>c, <2>1, <2>4 DEF Take, Late
  <2>5. CASE x = m /\ ~Conclude(m) /\ ~Take(m)
    <3>1. msg[m].pc \notin {"new", "sent", "tell", "done"}
      BY <1>3, <2>5 DEF MessageStep, Check, Track, EndRun, Relay, Bounded, Save
    <3>2. can[k].pc \notin {"drop", "settle"} /\ msg[m].pc # "new"
      BY <3>1 DEF Late
    <3>3. msg'[m].task = msg[m].task /\ msg'[m].pc # "new"
      <4>1. CASE Check(m) \/ Track(m)
        BY <4>1, CheckFacts, TrackFacts DEF Goto
      <4>2. ASSUME NEW why \in Reasons, NEW calls \in SUBSET Calls,
                   EndRun(m, why, calls)
            PROVE  msg'[m].task = msg[m].task /\ msg'[m].pc # "new"
        BY <4>2, EndRunFacts DEF Goto
      <4>3. CASE Relay(m)
        BY <4>3, RelayFacts DEF Closes, TakesUp, HandsOn, Goto
      <4>4. CASE Bounded(m) \/ Save(m)
        BY <4>4, BoundedFacts, SaveFacts DEF Goto
      <4> QED BY <1>3, <2>5, <4>1, <4>2, <4>3, <4>4 DEF MessageStep
    <3> QED BY SMTT(60), <1>c, <2>1, <3>1, <3>2, <3>3 DEF Late
  <2>6. x # m => Still(m) \/ Take(x)
    <3> SUFFICES ASSUME x # m, ~Take(x) PROVE Moves(x)
      BY DEF Moves
    <3>1. CASE Check(x) \/ Track(x) \/ Relay(x)
      BY <3>1, CheckFacts, TrackFacts, RelayFacts
    <3>2. CASE Bounded(x) \/ Save(x) \/ Conclude(x)
      BY <3>2, BoundedFacts, SaveFacts, ConcludeFacts
    <3> QED BY <1>3, <3>1, <3>2, EndRunFacts DEF MessageStep
  <2> QED BY SMTT(60), <2>2, <2>3, <2>4, <2>5, <2>6
<1> QED BY SMTT(60), <1>1, <1>2, <1>3

\* So do those of cancels.
LEMMA LateCancel ==
    ASSUME TypeOK, ShapeInv, HoldInv, quiet', NEW j \in Cancels, CancelStep(j),
           NEW k \in Cancels, NEW m \in Messages, can[k].how = "settle",
           can[k].pc # "new", Late(k, m)
    PROVE  Late(k, m)'
<1>t. msg[m].task \in Tasks /\ None \notin Tasks
  BY ExecutorAssumption DEF Late, ShapeInv
<1>1. CASE ClaimCancel(j)
  <2>1. j # k BY <1>1, ClaimCancelFacts DEF ShapeInv
  <2> QED
    BY <1>1, <2>1, ClaimCancelFacts, LateKept DEF ClaimCancel, CancelMoves
<1>2. CASE DropOwed(j)
  <2>1. UNCHANGED <<msg, mark, moved>> BY <1>2 DEF DropOwed, claims
  <2>2. CASE j # k
    BY <1>2, <2>1, <2>2, DropOwedFacts DEF CancelMoves, Late
  <2>3. CASE j = k
    <3>1. CancelTo(k, "settle") /\ can[k].pc = "drop"
      BY <1>2, <2>3, DropOwedFacts
    <3> QED BY <2>1, <3>1 DEF CancelTo, Late
  <2> QED BY <2>2, <2>3
<1>3. CASE Settle(j)
  <2>1. /\ CancelTo(j, "tell") /\ mark' = can[j].task /\ UNCHANGED msg
        /\ moved' = Passed(can[j].task) /\ can[j].pc = "settle"
    BY <1>3, SettleFacts DEF Settle
  <2>2. moved \subseteq moved' BY <2>1, PassedNotes
  <2>3. CASE j = k
    <3>1. msg[m].pc \in {"sent", "done"} /\ msg[m].task = can[k].task
      BY <2>1, <2>3 DEF Late
    <3> QED BY <2>1, <2>3, <3>1 DEF Late, CancelTo
  <2>4. CASE j # k
    <3>1. can[k].pc = can'[k].pc /\ can'[k].task = can[k].task
      BY <1>3, <2>4, SettleFacts DEF CancelMoves
    <3>2. ASSUME msg[m].pc = "sent", mark = msg[m].task
          PROVE  mark' = msg[m].task \/ msg[m].task \in moved'
      BY <1>t, <2>1, <3>2, PassedNotes
    <3> QED BY <2>1, <2>2, <3>1, <3>2 DEF Late
  <2> QED BY <2>3, <2>4
<1>4. CASE ConcludeCancel(j)
  <2>1. UNCHANGED <<msg, mark, moved>> BY <1>4 DEF ConcludeCancel
  <2>2. CASE j # k
    BY <1>4, <2>1, <2>2, ConcludeCancelFacts DEF CancelMoves, Late
  <2>3. CASE j = k
    <3>1. CancelTo(k, "done") /\ can[k].pc = "tell"
      BY <1>4, <2>3, ConcludeCancelFacts
    <3> QED BY <2>1, <3>1 DEF CancelTo, Late
  <2> QED BY <2>2, <2>3
<1> QED BY <1>1, <1>2, <1>3, <1>4 DEF CancelStep

\* Every step leaves what was late as it should be.
LEMMA LateStep ==
    ASSUME TypeOK, ShapeInv, HoldInv, TaskInv, LateInv, [Next]_vars
    PROVE  LateInv'
<1> SUFFICES ASSUME quiet', NEW k \in Cancels, can'[k].how = "settle",
                    NEW m \in can'[k].late
             PROVE  Late(k, m)'
  BY DEF LateInv, Late
<1>q. quiet BY QuietStays
<1>s. can[k] \in CancelState /\ (can[k].pc \in {"new", "sent"} => can[k].how = "none")
  BY SMTT(60) DEF TypeOK, ShapeInv
<1>l. ASSUME can[k].how = "settle", m \in can[k].late
      PROVE  m \in Messages /\ Late(k, m) /\ can[k].pc # "new"
  BY SMTT(60), <1>q, <1>s, <1>l DEF LateInv, Late, CancelState
<1>1. ASSUME NEW x \in Messages, MessageStep(x) PROVE Late(k, m)'
  <2>1. UNCHANGED can
    BY <1>1 DEF MessageStep, Claim, Check, Track, Take, EndRun, Relay, Bounded,
                Save, Conclude
  <2> QED BY SMTT(60), <1>1, <1>l, <2>1, LateMessage
<1>2. ASSUME NEW j \in Cancels, CancelStep(j) PROVE Late(k, m)'
  <2>1. CASE ClaimCancel(k)
    <3>1. /\ m \in OnTheirWay(can[k].task) /\ can'[k].pc = "drop"
          /\ can'[k].task = can[k].task
      BY <2>1, ClaimCancelFacts
    <3>2. m \in Messages /\ msg[m].pc = "sent" /\ msg[m].task = can[k].task
      BY <3>1 DEF OnTheirWay
    <3>3. Still(m) BY <2>1, <3>2, ClaimCancelFacts
    <3> QED BY <3>1, <3>2, <3>3 DEF Late, Still
  <2>2. CASE ~ClaimCancel(k)
    <3>1. can[k].how = "settle" /\ m \in can[k].late
      <4>1. CASE j # k
        <5>1. CancelMoves(j)
          BY <1>2, ClaimCancelFacts, DropOwedFacts, SettleFacts,
             ConcludeCancelFacts DEF CancelStep
        <5> QED BY <4>1, <5>1 DEF CancelMoves
      <4>2. CASE j = k
        BY <1>2, <2>2, <4>2, DropOwedFacts, SettleFacts, ConcludeCancelFacts
        DEF CancelStep, CancelTo
      <4> QED BY <4>1, <4>2
    <3> QED BY <1>2, <1>l, <3>1, LateCancel
  <2> QED BY <2>1, <2>2
<1>3. CASE UNCHANGED vars BY <1>3, <1>l DEF vars, claims, Late
<1>4. CASE Restart BY <1>4 DEF Restart
<1>5. ASSUME NEW x \in Messages, NEW t \in Tasks, Send(x, t) \/ Steer(x, t)
      PROVE  Late(k, m)'
  <2>1. UNCHANGED <<can, mark, moved>> BY <1>5 DEF Send, Steer, claims
  <2>2. m \in Messages /\ Late(k, m) BY <1>l, <2>1
  <2>3. x # m /\ Still(m)
    BY <1>5, <2>2, SendFacts, SteerFacts DEF Moves, Late
  <2> QED BY <2>1, <2>2, <2>3, LateKept
<1>6. ASSUME NEW j \in Cancels, NEW t \in Tasks, SendCancel(j, t)
      PROVE  Late(k, m)'
  <2>1. j # k /\ UNCHANGED <<msg, mark, moved>>
    BY <1>6, <1>s, SendCancelFacts DEF SendCancel, claims
  <2>2. can'[k] = can[k] BY <1>6, <2>1, SendCancelFacts DEF CancelMoves
  <2> QED BY <1>l, <2>1, <2>2 DEF Late
<1> QED BY <1>1, <1>2, <1>3, <1>4, <1>5, <1>6 DEF Next

-----------------------------------------------------------------------------
(* The calls the caller is asked for.                                      *)

\* What the caller knows of a task goes on being true, or the task ends.
KnownStill(t) ==
    \/ status'[t] \in Ended
    \/ /\ status[t] \notin Ended
       /\ status[t] = "input" => status'[t] = "input" /\ listed'[t] = listed[t]

\* A step that neither touches the stores nor asks.
LEMMA AskKept ==
    ASSUME AskInv, torn => torn', UNCHANGED <<stored, escalated, waiting>>,
           \A n \in Messages : /\ Active(n) => Active(n)'
                               /\ Asks(n, waiting)' <=> Asks(n, waiting)
                               /\ Asks(n, waiting) => msg'[n].left = msg[n].left,
           \A t \in Tasks : KnownStill(t)
    PROVE  AskInv'
<1> SUFFICES ASSUME ~torn', stored' # {}, \A n \in Messages : ~Active(n)'
             PROVE  /\ waiting' \in Tasks
                    /\ \/ status'[waiting'] \in Ended
                       \/ status'[waiting'] = "input"
                          /\ listed'[waiting'] = AskedFor(waiting)'
                       \/ \E n \in Messages : Asks(n, waiting)'
                    /\ \A n \in Messages : Asks(n, waiting)' =>
                          msg'[n].left = AskedFor(waiting)'
  BY DEF AskInv
<1>1. AskedFor(waiting)' = AskedFor(waiting) BY DEF AskedFor
<1>2. ~torn /\ stored # {} /\ \A n \in Messages : ~Active(n) OBVIOUS
<1>3. /\ waiting \in Tasks
      /\ \/ status[waiting] \in Ended
         \/ status[waiting] = "input" /\ listed[waiting] = AskedFor(waiting)
         \/ \E n \in Messages : Asks(n, waiting)
      /\ \A n \in Messages : Asks(n, waiting) => msg[n].left = AskedFor(waiting)
  BY <1>2 DEF AskInv
<1>4. KnownStill(waiting) BY <1>3
<1> QED BY <1>1, <1>3, <1>4 DEF KnownStill

\* A step into, or within, a run.
LEMMA AskActive ==
    ASSUME NEW m \in Messages, Active(m)'
    PROVE  AskInv'
  BY DEF AskInv

\* A server that hears nothing.
LEMMA KnownUnheard ==
    ASSUME UNCHANGED <<status, listed>>
    PROVE  \A t \in Tasks : KnownStill(t)
  BY DEF KnownStill

\* A status that ends a task.
LEMMA KnownEnded ==
    ASSUME TypeOK, NEW t \in Tasks, NEW s \in Ended, Told(t, s, {})
    PROVE  /\ \A u \in Tasks : KnownStill(u)
           /\ status'[t] \in Ended
  BY DEF TypeOK, Told, KnownStill

\* The steps of messages ask for what is stored.
LEMMA AskMessage ==
    ASSUME TypeOK, ShapeInv, HoldInv, TaskInv, AskInv, [Next]_vars,
           NEW m \in Messages, MessageStep(m)
    PROVE  AskInv'
<1> USE DEF server, stores
<1>t. (msg[m].pc # "new" => msg[m].task \in Tasks) /\ msg[m] \in MessageState
  BY DEF ShapeInv, TypeOK
<1>1. CASE Take(m)
  <2>1. Active(m)' BY <1>1 DEF Take, Active, Runs
  <2> QED BY <2>1, AskActive
<1>2. CASE Claim(m)
  <2>1. \A n \in Messages : /\ Active(n) => Active(n)'
                            /\ Asks(n, waiting)' <=> Asks(n, waiting)
                            /\ Asks(n, waiting) => msg'[n].left = msg[n].left
    <3>1. ~Active(m) /\ ~Asks(m, waiting) /\ ~Asks(m, waiting)'
      BY <1>2, ClaimFacts DEF Active, Runs, Asks, Goto
    <3>2. UNCHANGED waiting /\ \A n \in Messages \ {m} : Still(n)
      BY <1>2, ClaimFacts DEF Moves, Claim
    <3> QED BY <3>1, <3>2 DEF Still, Active, Runs, Asks
  <2>2. UNCHANGED <<stored, escalated, waiting, torn, status, listed>>
    BY <1>2 DEF Claim
  <2> QED BY <2>1, <2>2, KnownUnheard, AskKept
<1>3. CASE Check(m)
  <2>1. Moves(m) /\ msg[m].pc = "held" /\ msg[m].task \in Tasks
    BY <1>3, <1>t, CheckFacts
  <2>2. UNCHANGED <<stored, escalated, status, listed>>
    BY <1>3 DEF Check
  <2>3. CASE Goto(m, "done") /\ UNCHANGED <<waiting, torn>>
    <3>1. ~Active(m) /\ ~Asks(m, waiting) /\ ~Asks(m, waiting)'
      BY <2>1, <2>3 DEF Active, Runs, Asks, Goto
    <3>2. \A n \in Messages : /\ Active(n) => Active(n)'
                              /\ Asks(n, waiting)' <=> Asks(n, waiting)
                              /\ Asks(n, waiting) => msg'[n].left = msg[n].left
      BY <2>1, <2>3, <3>1 DEF Moves, Still, Active, Runs, Asks
    <3> QED BY <2>2, <2>3, <3>2, KnownUnheard, AskKept
  <2>4. CASE Goto(m, "ready") /\ UNCHANGED <<waiting, torn>>
    <3>1. ~Active(m) /\ ~Asks(m, waiting) /\ ~Asks(m, waiting)'
      BY <2>1, <2>4 DEF Active, Runs, Asks, Goto
    <3>2. \A n \in Messages : /\ Active(n) => Active(n)'
                              /\ Asks(n, waiting)' <=> Asks(n, waiting)
                              /\ Asks(n, waiting) => msg'[n].left = msg[n].left
      BY <2>1, <2>4, <3>1 DEF Moves, Still, Active, Runs, Asks
    <3> QED BY <2>2, <2>4, <3>2, KnownUnheard, AskKept
  <2>5. CASE /\ Goto(m, "tell") /\ waiting' = msg[m].task
             /\ msg'[m].reason = "input"
             /\ msg'[m].left = AskedFor(msg[m].task)
    <3>1. Asks(m, waiting)' /\ msg'[m].left = AskedFor(waiting)'
      BY <2>2, <2>5 DEF Asks, AskedFor, Goto
    <3>2. \A n \in Messages : Asks(n, waiting)' => n = m
      BY <2>1, <2>5 DEF Asks, Moves, Still, Goto, TaskInv, Executing
    <3> QED BY <2>1, <2>5, <3>1, <3>2 DEF AskInv
  <2> QED BY <1>3, <2>3, <2>4, <2>5, CheckFacts
<1>4. CASE Track(m)
  <2>1. CASE Goto(m, "run")
    <3>1. Active(m)' BY <2>1 DEF Active, Runs, Goto
    <3> QED BY <3>1, AskActive
  <2>2. CASE Goto(m, "done") /\ UNCHANGED <<status, listed>>
    <3>1. Moves(m) /\ msg[m].pc = "ready"
          /\ UNCHANGED <<stored, escalated, waiting, torn>>
      BY <1>4, TrackFacts
    <3>2. ~Active(m) /\ ~Asks(m, waiting) /\ ~Asks(m, waiting)'
      BY <2>2, <3>1 DEF Active, Runs, Asks, Goto
    <3>3. \A n \in Messages : /\ Active(n) => Active(n)'
                              /\ Asks(n, waiting)' <=> Asks(n, waiting)
                              /\ Asks(n, waiting) => msg'[n].left = msg[n].left
      BY <3>1, <3>2 DEF Moves, Still, Active, Runs, Asks
    <3> QED BY <2>2, <3>1, <3>3, KnownUnheard, AskKept
  <2> QED BY <1>4, <2>1, <2>2, TrackFacts
<1>5. ASSUME NEW why \in Reasons, NEW calls \in SUBSET Calls,
             EndRun(m, why, calls)
      PROVE  AskInv'
  <2>1. Active(m)' BY <1>5, EndRunFacts DEF Active, Runs, Goto
  <2> QED BY <2>1, AskActive
<1>6. CASE Relay(m)
  <2>1. Active(m)'
    BY <1>6, RelayFacts DEF Closes, TakesUp, HandsOn, Active, Runs, Goto
  <2> QED BY <2>1, AskActive
<1>7. CASE Bounded(m)
  <2>1. Active(m)' BY <1>7, BoundedFacts DEF Active, Runs, Goto
  <2> QED BY <2>1, AskActive
<1>8. CASE Save(m)
  <2>1. /\ Moves(m) /\ msg[m].pc = "save" /\ SameEnd(m) /\ SameFlags(m)
        /\ msg[m].task \in Tasks
    BY <1>8, <1>t, SaveFacts
  <2>2. CASE torn' = TRUE BY <2>2 DEF AskInv
  <2>3. CASE /\ Goto(m, "tell") /\ stored' = Kept(m)
             /\ escalated' = PutToCaller(m) /\ waiting' = WaitsOn(m)
    <3> SUFFICES ASSUME stored' # {} PROVE AskInv'
      BY DEF AskInv
    <3>1. /\ msg[m].reason = "input" /\ stored' = msg[m].left
          /\ waiting' = msg[m].task
      BY <2>3 DEF Kept, WaitsOn
    <3>2. \A c \in stored' \cap Own : <<msg[m].task, c>> \in escalated'
      BY <2>3 DEF PutToCaller
    <3>3. AskedFor(waiting)' = msg[m].left BY <3>1, <3>2 DEF AskedFor
    <3>4. Asks(m, waiting)' /\ msg'[m].left = AskedFor(waiting)'
      BY <2>1, <2>3, <3>1, <3>3 DEF Asks, Goto, SameEnd
    <3>5. \A n \in Messages : Asks(n, waiting)' => n = m
      BY <2>1, <2>3, <3>1 DEF Asks, Moves, Still, Goto, TaskInv, Executing
    <3> QED BY <2>1, <3>1, <3>4, <3>5 DEF AskInv
  <2> QED BY <1>8, <2>2, <2>3, SaveFacts
<1>9. CASE Conclude(m)
  <2>1. /\ Moves(m) /\ msg[m].pc = "tell" /\ Goto(m, "done")
        /\ msg[m].task \in Tasks
    BY <1>9, <1>t, ConcludeFacts
  <2>2. UNCHANGED <<stored, escalated, waiting>> BY <1>9 DEF Conclude
  <2>3. /\ ~Active(m) /\ ~Active(m)' /\ ~Asks(m, waiting)'
        /\ \A n \in Messages \ {m} :
              /\ Active(n) => Active(n)'
              /\ Asks(n, waiting)' <=> Asks(n, waiting)
              /\ Asks(n, waiting) => msg'[n].left = msg[n].left
    BY <2>1, <2>2 DEF Moves, Still, Active, Runs, Asks, Goto
  <2>4. CASE /\ msg[m].reason # "input" /\ UNCHANGED torn
             /\ \E s \in Ended : Told(msg[m].task, s, {})
    <3>1. PICK s \in Ended : Told(msg[m].task, s, {}) BY <2>4
    <3>2. \A t \in Tasks : KnownStill(t) BY <2>1, <3>1, KnownEnded
    <3>3. ~Asks(m, waiting) BY <2>4 DEF Asks
    <3>4. \A n \in Messages :
             /\ Active(n) => Active(n)'
             /\ Asks(n, waiting)' <=> Asks(n, waiting)
             /\ Asks(n, waiting) => msg'[n].left = msg[n].left
      BY <2>3, <3>3
    <3> QED BY <2>2, <2>4, <3>2, <3>4, AskKept
  <2>5. CASE /\ msg[m].reason = "input" /\ UNCHANGED torn
             /\ Told(msg[m].task, "input", msg[m].left)
    <3>1. Told(msg[m].task, "input", msg[m].left) BY <2>5
    <3> SUFFICES ASSUME ~torn', stored' # {}, \A n \in Messages : ~Active(n)'
                 PROVE  /\ waiting \in Tasks
                        /\ \/ status'[waiting] \in Ended
                           \/ status'[waiting] = "input"
                              /\ listed'[waiting] = AskedFor(waiting)
                           \/ \E n \in Messages : Asks(n, waiting)'
                        /\ \A n \in Messages : Asks(n, waiting)' =>
                              msg'[n].left = AskedFor(waiting)
      <4>1. AskedFor(waiting)' = AskedFor(waiting) BY <2>2 DEF AskedFor
      <4> QED BY <2>2, <4>1 DEF AskInv
    <3>2. /\ waiting \in Tasks
          /\ \/ status[waiting] \in Ended
             \/ status[waiting] = "input" /\ listed[waiting] = AskedFor(waiting)
             \/ \E n \in Messages : Asks(n, waiting)
          /\ \A n \in Messages : Asks(n, waiting) => msg[n].left = AskedFor(waiting)
      BY <2>2, <2>3, <2>5 DEF AskInv
    <3>3. CASE msg[m].task # waiting
      <4>1. status'[waiting] = status[waiting] /\ listed'[waiting] = listed[waiting]
        BY <3>1, <3>2, <3>3 DEF Told, TypeOK
      <4>2. ~Asks(m, waiting) BY <3>3 DEF Asks
      <4> QED BY <2>3, <3>2, <4>1, <4>2
    <3>4. CASE msg[m].task = waiting
      <4>1. msg[m].left = AskedFor(waiting)
        BY <2>1, <2>5, <3>2, <3>4 DEF Asks
      <4>2. \/ status'[waiting] \in Ended
            \/ status'[waiting] = "input" /\ listed'[waiting] = msg[m].left
        BY <2>1, <3>1, <3>4 DEF Told, TypeOK
      <4> QED BY <2>3, <3>2, <4>1, <4>2
    <3> QED BY <3>3, <3>4
  <2>6. CASE /\ torn' = (torn \/ waiting = msg[m].task)
             /\ UNCHANGED <<status, listed>>
    <3>1. CASE waiting = msg[m].task BY <2>6, <3>1 DEF AskInv
    <3>2. CASE waiting # msg[m].task
      <4>1. ~Asks(m, waiting) BY <3>2 DEF Asks
      <4> QED BY <2>2, <2>3, <2>6, <4>1, KnownUnheard, AskKept
    <3> QED BY <3>1, <3>2
  <2> QED BY <1>9, <2>4, <2>5, <2>6, ConcludeFacts
<1> QED BY <1>1, <1>2, <1>3, <1>4, <1>5, <1>6, <1>7, <1>8, <1>9 DEF MessageStep

\* Every step asks for what is stored.
LEMMA AskStep ==
    ASSUME TypeOK, ShapeInv, HoldInv, TaskInv, AskInv, [Next]_vars
    PROVE  AskInv'
<1> USE DEF server, stores
<1>1. ASSUME NEW m \in Messages, MessageStep(m) PROVE AskInv'
  BY <1>1, AskMessage
<1>2. ASSUME NEW k \in Cancels, CancelStep(k) PROVE AskInv'
  <2>t. can[k].pc # "new" => can[k].task \in Tasks BY DEF ShapeInv
  <2>1. UNCHANGED msg \/ \A n \in Messages : Still(n)
    BY <1>2, ClaimCancelFacts
    DEF CancelStep, DropOwed, Settle, ConcludeCancel
  <2>2. ASSUME UNCHANGED waiting
        PROVE  \A n \in Messages :
                  /\ Active(n) => Active(n)'
                  /\ Asks(n, waiting)' <=> Asks(n, waiting)
                  /\ Asks(n, waiting) => msg'[n].left = msg[n].left
    BY <2>1, <2>2 DEF Active, Runs, Asks, Still
  <2>3. CASE ClaimCancel(k) \/ DropOwed(k)
    <3>1. UNCHANGED <<stored, escalated, waiting, torn, status, listed>>
      BY <2>3 DEF ClaimCancel, DropOwed
    <3> QED BY <2>2, <3>1, KnownUnheard, AskKept
  <2>4. CASE Settle(k)
    <3>1. CASE UNCHANGED <<stored, escalated, waiting>>
      <4>1. UNCHANGED <<status, listed, torn>>
        BY <2>4, SettleFacts DEF Settle
      <4> QED BY <2>2, <3>1, <4>1, KnownUnheard, AskKept
    <3>2. CASE stored' = {} BY <3>2 DEF AskInv
    <3> QED BY <2>4, <3>1, <3>2, SettleFacts
  <2>5. CASE ConcludeCancel(k)
    <3>1. /\ UNCHANGED <<stored, escalated, waiting, torn>>
          /\ Told(can[k].task, "canceled", {}) /\ can[k].task \in Tasks
      BY <2>5, <2>t DEF ConcludeCancel
    <3>2. \A t \in Tasks : KnownStill(t) BY <3>1, KnownEnded DEF Ended
    <3> QED BY <2>2, <3>1, <3>2, AskKept
  <2> QED BY <1>2, <2>3, <2>4, <2>5 DEF CancelStep
<1>3. CASE UNCHANGED vars
  BY <1>3 DEF vars, bounds, AskInv, Active, Runs, Asks, AskedFor
<1>4. CASE Restart BY <1>4 DEF Restart, AskInv
<1>5. ASSUME NEW m \in Messages, NEW t \in Tasks, Send(m, t) \/ Steer(m, t)
      PROVE  AskInv'
  <2>1. Moves(m) /\ msg[m].pc = "new" /\ msg'[m].pc \in {"sent", "steered", "done"}
    BY <1>5, SendFacts, SteerFacts
  <2>2. UNCHANGED <<stored, escalated, waiting, torn>>
    BY <1>5 DEF Send, Steer
  <2>3. \A n \in Messages :
           /\ Active(n) => Active(n)'
           /\ Asks(n, waiting)' <=> Asks(n, waiting)
           /\ Asks(n, waiting) => msg'[n].left = msg[n].left
    BY <2>1, <2>2 DEF Moves, Still, Active, Runs, Asks
  <2>4. \A u \in Tasks : KnownStill(u)
    BY <1>5 DEF Send, Steer, KnownStill, TypeOK, Ended
  <2> QED BY <2>2, <2>3, <2>4, AskKept
<1>6. ASSUME NEW k \in Cancels, NEW t \in Tasks, SendCancel(k, t)
      PROVE  AskInv'
  BY <1>6 DEF SendCancel, bounds, AskInv, Active, Runs, Asks, AskedFor
<1> QED BY <1>1, <1>2, <1>3, <1>4, <1>5, <1>6 DEF Next

-----------------------------------------------------------------------------
(* The theorems.                                                           *)

\* The invariant holds at the start.
LEMMA ExecutorInit ==
    ASSUME Init
    PROVE  ExecutorInv
<1>1. /\ NewMessage \in MessageState /\ NewMessage.pc = "new"
      /\ NewMessage.task = None /\ ~NewMessage.werr
  BY DEF NewMessage, MessageState, MessagePCs
<1>2. NewCancel \in CancelState /\ NewCancel.pc = "new" /\ NewCancel.how = "none"
  BY DEF NewCancel, CancelState
<1>3. /\ \A m \in Messages : msg[m].pc = "new" /\ msg[m].task = None
                              /\ ~msg[m].werr
      /\ \A k \in Cancels : can[k].pc = "new" /\ can[k].how = "none"
  BY <1>1, <1>2 DEF Init
<1>4. TypeOK BY <1>1, <1>2 DEF Init, TypeOK, NoneOwed
<1>5. ShapeInv BY <1>3 DEF ShapeInv
<1>6. HoldInv BY <1>3 DEF Init, HoldInv, Holds, CancelHolds
<1>7. TaskInv BY <1>3 DEF Init, TaskInv, Runs, Executing
<1>8. SteerInv BY <1>3 DEF Init, SteerInv, Runs
<1>9. LateInv BY <1>3 DEF LateInv
<1>10. AskInv BY DEF Init, AskInv
<1> QED BY <1>4, <1>5, <1>6, <1>7, <1>8, <1>9, <1>10 DEF ExecutorInv

\* The invariant of the executor: the types; one holder of the conversation
\* (claim, release and the cancel that settles); one execution of a task,
\* whose run is open to steers exactly while it goes on; and what becomes of
\* steers, of messages that a cancel overtook, and of the stored calls.
THEOREM ExecutorInvariant == Spec => []ExecutorInv
<1>1. Init => ExecutorInv BY ExecutorInit
<1>2. ExecutorInv /\ [Next]_vars => ExecutorInv'
  <2> SUFFICES ASSUME ExecutorInv, [Next]_vars PROVE ExecutorInv'
    OBVIOUS
  <2>1. TypeOK'
    <3>1. ASSUME NEW m \in Messages, MessageStep(m) PROVE TypeOK'
      BY <3>1, MessageTypes DEF ExecutorInv
    <3>2. ASSUME NEW k \in Cancels, CancelStep(k) PROVE TypeOK'
      BY <3>2, CancelTypes DEF ExecutorInv
    <3> QED BY <3>1, <3>2, OtherTypes DEF ExecutorInv, Next
  <2>2. ShapeInv' BY ShapeStep DEF ExecutorInv
  <2>3. HoldInv' BY HoldStep DEF ExecutorInv
  <2>4. TaskInv' BY TaskStep DEF ExecutorInv
  <2>5. SteerInv' BY SteerStep DEF ExecutorInv
  <2>6. LateInv' BY LateStep DEF ExecutorInv
  <2>7. AskInv' BY AskStep DEF ExecutorInv
  <2> QED BY <2>1, <2>2, <2>3, <2>4, <2>5, <2>6, <2>7 DEF ExecutorInv
<1> QED BY <1>1, <1>2, PTL DEF Spec

\* A conversation that nobody holds has open calls only while it waits on a
\* task whose caller was told exactly of them, or is being told, or whose
\* task has ended: what Save stores, what inputRequired lists and what
\* checkAnswers compares with agree, whatever failed or was started again
\* before the last run that was saved or message that was asked.
THEOREM CallsAskedFor == Spec => []OpenCallsAreAskedFor
<1>1. ExecutorInv => OpenCallsAreAskedFor
  <2> SUFFICES ASSUME ExecutorInv, ~torn, ~busy, stored # {}
               PROVE  /\ waiting # None
                      /\ \/ status[waiting] \in Ended
                         \/ status[waiting] = "input"
                            /\ listed[waiting] = AskedFor(waiting)
                         \/ \E m \in Messages :
                               msg[m].task = waiting /\ Executing(m)
    BY DEF OpenCallsAreAskedFor
  <2>1. \A m \in Messages : ~Active(m)
    BY DEF ExecutorInv, HoldInv, Holds, Runs, Active
  <2>2. /\ waiting \in Tasks
        /\ \/ status[waiting] \in Ended
           \/ status[waiting] = "input" /\ listed[waiting] = AskedFor(waiting)
           \/ \E m \in Messages : Asks(m, waiting)
    BY <2>1 DEF ExecutorInv, AskInv
  <2>3. None \notin Tasks BY ExecutorAssumption
  <2> QED BY <2>2, <2>3 DEF Asks, Executing
<1> QED BY <1>1, ExecutorInvariant, PTL

\* A message that was on its way when a cancel of its task took hold of the
\* conversation runs nothing once the cancel is answered, unless another
\* task has taken the one mark that the executor keeps.
THEOREM CanceledStayCanceled == Spec => []CanceledDoesNotRun
<1>1. ExecutorInv => CanceledDoesNotRun
  <2> SUFFICES ASSUME ExecutorInv, NEW k \in Cancels, NEW m \in Messages,
                      can[k].pc = "done", can[k].how = "settle",
                      m \in can[k].late, msg[m].pc \in {"ready", "run"}, quiet
               PROVE  msg[m].task \in moved
    BY DEF CanceledDoesNotRun
  <2> QED BY DEF ExecutorInv, LateInv
<1> QED BY <1>1, ExecutorInvariant, PTL

\* A steer that deliver accepted is taken by a run of its task, kept by the
\* agent whose run goes on, or owed to the next message; it is dropped only
\* with the task that had it, where a run of that very task failed, was
\* aborted, met the bound or could not write, or a cancel of it took hold,
\* and is lost only where its own redelivery fails or a restart finds it.
THEOREM SteersServed == Spec => []SteerIsServed
<1>1. ExecutorInv => SteerIsServed
  <2> SUFFICES ASSUME ExecutorInv, NEW s \in Messages, msg[s].pc = "steered"
               PROVE  \/ s \in taken \cup owed.steers \cup lost
                      \/ \E t \in Tasks : s \in queue[t] /\ rt[t] = "open"
                      \/ \E t \in Tasks : <<s, t>> \in dropped /\ GivenUp(t)
    BY DEF SteerIsServed
  <2>1. Served(s) BY DEF ExecutorInv, SteerInv
  <2>2. \A t \in Tasks : Excused(t) => GivenUp(t)
    BY DEF Excused, Final, GivenUp
  <2> QED BY <2>1, <2>2 DEF Served
<1> QED BY <1>1, ExecutorInvariant, PTL
=============================================================================
