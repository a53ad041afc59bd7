--------------------------- MODULE SubagentProofs ---------------------------
(***************************************************************************)
(* Theorems about Subagent, for any calls, keys and inputs of the child,   *)
(* and any number of hand-offs, crashes, aborts and failed writes.         *)
(***************************************************************************)
EXTENDS Subagent, FiniteSetTheorems, TLAPS

-----------------------------------------------------------------------------
(* The inductive invariant.                                                *)

Places == {"pending", "load", "fresh", "create", "link", "start", "run",
           "ended", "toolend", "output", "answered", "refused"}

CallStates == {"none", "open", "ready", "held", "dispatched", "done"}

ChildState ==
    [op : Keys \cup {None}, run : {"none", "open", "cut"} \cup Reasons,
     calls : [Calls -> CallStates], answer : BOOLEAN,
     owed : [Inputs -> {0, 1}], taken : SUBSET Inputs]

LogEntry == [kind : {"dispatch", "withdraw", "link", "output"},
             key : Keys \cup {None}]

Budget == [handoffs : Nat, keys : Nat, crashes : Nat, aborts : Nat, fails : Nat,
           ask : BOOLEAN, detach : BOOLEAN]

TypeOK ==
    /\ plog \in Seq(LogEntry) /\ pc \in Places /\ key \in Keys \cup {None}
    /\ child \in ChildState /\ stored \in ChildState
    /\ queue \in SUBSET Inputs /\ worked \in SUBSET Calls
    /\ verdict \in [Calls -> Verdicts \cup {"none"}]
    /\ writer \in BOOLEAN /\ begun \in BOOLEAN /\ linked \in BOOLEAN
    /\ broken \in BOOLEAN /\ kept \in Nat
    /\ goroutine \in [started : BOOLEAN, ended : BOOLEAN, looked : BOOLEAN,
                      told : Nat]
    /\ ran \in [Keys -> [Calls -> Nat]]
    /\ budget \in Budget

\* The first run of a call decides everything anew; one of the release loop
\* has every call but the held ones settled.
First == /\ child.run = "none"
         /\ \A c \in Calls : verdict[c] = "none" /\ child.calls[c] # "held"
Again == /\ child.run = "input" /\ ~budget.detach
         /\ Settled /\ Releases(Held)

\* Where the call is goes with what its child and its record are: a writer
\* is there from newChild to the tool_end, or to the end of a detached run;
\* a run that is open is the one in progress, and is recorded unless a write
\* failed.  The run that is about to start is the first of its call, or one
\* the release loop resumes the child with.
PhaseInv ==
    /\ pc \in {"pending", "load", "fresh", "create", "refused"} => ~writer
    /\ pc \in {"link", "start"} => writer /\ ~begun
    /\ pc \in {"load", "fresh"} => \A c \in Calls : verdict[c] = "none"
    /\ pc \in {"create", "link", "start"} => First \/ Again
    /\ pc \in {"load", "ended"} => ~budget.detach
    /\ pc = "refused" => budget.detach
    /\ pc \in {"run", "ended"} => goroutine.started /\ child.run # "none"
    /\ child.run = "open" =>
          pc = "run" \/ (budget.detach /\ pc \in {"toolend", "output", "answered"})
    /\ pc = "run" /\ ~budget.detach => child.run = "open"
    /\ pc # "pending" => key # None
    /\ pc = "ended" =>
          child.run \in Reasons /\ (child.run = "input" => Settled)
    /\ pc \in {"run", "ended", "toolend"} /\ writer => begun

\* A verdict, and the calls of a batch that was released: none of it is left
\* to decide, and what was asked about was accepted.
Accepted == /\ \E d \in Calls : verdict[d] = "accepted"
            /\ \A d \in Calls : verdict[d] \notin {"declined", "silent"}
Released(calls) ==
    \A c \in Calls :
        verdict[c] = "held" /\ calls[c] \in {"ready", "dispatched"} => Accepted

HeldInv ==
    /\ Released(child.calls)
    /\ child.run = "open" =>
          \A c \in Calls : verdict[c] = "held" /\ In(c, {"ready", "dispatched"}) =>
              ~Has({"open"})

\* What the child is owed is in its queues, and is owed once as long as the
\* record is whole.
OwedOnce(s) == \A i \in Inputs : i \in s.taken => s.owed[i] = 0
Live == budget.detach \/ pc \in {"create", "link", "start", "run", "ended"}
InputInv ==
    /\ ~broken => OwedOnce(child) /\ OwedOnce(stored)
    /\ Live => \A i \in Inputs : i \in queue <=> child.owed[i] = 1

\* The hand-offs of the call under its key that were not withdrawn.
HandedOver == HandOffs(plog, key)
Ran(k) == \E c \in Never : ran[k][c] > 0

LogInv ==
    /\ \A i \in DOMAIN plog :
          /\ plog[i].kind \in {"dispatch", "withdraw"} =>
                plog[i].key # None /\ plog[i].key <= key
          /\ plog[i].kind = "output" => pc = "answered"
    /\ \A k \in Keys : Ran(k) => k <= key
    /\ child.op <= key /\ stored.op <= key
    /\ pc # "answered" =>
          /\ HandedOver \in Nat
          /\ pc # "pending" => HandedOver >= 1

\* A tool that may not repeat has not run under an operation that may yet
\* run it, as long as the record is whole.
NotRunYet(s, states) ==
    /\ s.op \in Keys
    /\ \A c \in Never : s.calls[c] \in states => ran[s.op][c] = 0
Undone == {"none", "open", "ready", "held"}

OnceInv ==
    ~broken =>
        /\ \A k \in Keys, c \in Never : ran[k][c] <= 1
        /\ pc \in {"create", "link", "start"} =>
              /\ NotRunYet(child, Undone \cup {"dispatched"})
              /\ child.run # "none" => stored = child
        /\ pc \in {"run", "ended"} \/ child.run = "open" =>
              /\ writer /\ begun /\ stored = child
              /\ NotRunYet(child, Undone)
              /\ \A c \in Never : In(c, {"dispatched"}) /\ c \notin worked =>
                    ran[child.op][c] = 0
        /\ stored.run # "none" => NotRunYet(stored, Undone)
        /\ stored.run = "none" => \A k \in Keys : ~Ran(k)
        /\ pc = "toolend" /\ ~budget.detach => begun
        /\ pc = "fresh" => ~Ran(key)
        /\ pc = "pending" /\ key # None /\ Ran(key) => HandedOver >= 1
        /\ pc = "load" /\ Ran(key) => HandedOver >= 2

SubagentInv == /\ TypeOK /\ PhaseInv /\ WriterIsLetGo /\ HeldInv /\ InputInv
               /\ LogInv /\ OnceInv

-----------------------------------------------------------------------------
(* What each step does to the child and to its record.                     *)

\* What a step may do to the bounds: the options of the tool stay.
SameOptions == /\ budget' \in Budget /\ budget'.detach = budget.detach
               /\ budget'.ask = budget.ask

\* A bound is spent.
LEMMA SpendFacts ==
    ASSUME TypeOK, NEW f \in {"crashes", "aborts", "fails"}, Spend(f)
    PROVE  SameOptions
<1>1. budget \in Budget BY DEF TypeOK
<1>2. CASE f = "crashes" BY <1>1, <1>2 DEF Spend, Budget, SameOptions
<1>3. CASE f = "aborts" BY <1>1, <1>3 DEF Spend, Budget, SameOptions
<1>4. CASE f = "fails" BY <1>1, <1>4 DEF Spend, Budget, SameOptions
<1> QED BY <1>2, <1>3, <1>4

\* What is added to the record keeps it typed.
LEMMA WrittenType ==
    ASSUME TypeOK, NEW new \in ChildState
    PROVE  /\ Written(new) \in ChildState /\ Written(new).op = new.op
           /\ Written(new).run = new.run
<1> DEFINE calls == [c \in Calls |->
               IF \/ new.calls[c] = child.calls[c]
                  \/ stored.calls[c] = "none" /\ new.calls[c] # "open"
               THEN stored.calls[c] ELSE new.calls[c]]
           answer == IF new.answer = child.answer THEN stored.answer ELSE new.answer
           owed == [i \in Inputs |-> IF new.owed[i] = child.owed[i]
                                     THEN stored.owed[i] ELSE new.owed[i]]
           taken == stored.taken \cup (new.taken \ child.taken)
<1>1. stored \in ChildState BY DEF TypeOK
<1>2. calls \in [Calls -> CallStates] BY <1>1 DEF ChildState
<1>3. owed \in [Inputs -> {0, 1}] BY <1>1 DEF ChildState
<1>4. taken \in SUBSET Inputs BY <1>1 DEF ChildState
<1>5. answer \in BOOLEAN BY <1>1 DEF ChildState
<1>6. Written(new) = [op |-> new.op, run |-> new.run, calls |-> calls,
                      answer |-> answer, owed |-> owed, taken |-> taken]
  BY DEF Written
<1> HIDE DEF calls, answer, owed, taken
<1> QED BY <1>2, <1>3, <1>4, <1>5, <1>6 DEF ChildState

\* A record that was that of the child stays it.
LEMMA WrittenWhole ==
    ASSUME TypeOK, NEW new \in ChildState, stored = child,
           child.taken \subseteq new.taken,
           \A c \in Calls : child.calls[c] = "none" => new.calls[c] \in {"none", "open"}
    PROVE  Written(new) = new
<1> DEFINE calls == [c \in Calls |->
               IF \/ new.calls[c] = child.calls[c]
                  \/ stored.calls[c] = "none" /\ new.calls[c] # "open"
               THEN stored.calls[c] ELSE new.calls[c]]
           answer == IF new.answer = child.answer THEN stored.answer ELSE new.answer
           owed == [i \in Inputs |-> IF new.owed[i] = child.owed[i]
                                     THEN stored.owed[i] ELSE new.owed[i]]
           taken == stored.taken \cup (new.taken \ child.taken)
<1>1. new.calls \in [Calls -> CallStates] /\ new.owed \in [Inputs -> {0, 1}]
  BY DEF ChildState
<1>2. calls = [c \in Calls |-> new.calls[c]] OBVIOUS
<1>3. owed = [i \in Inputs |-> new.owed[i]] OBVIOUS
<1>4. taken = new.taken OBVIOUS
<1>5. answer = new.answer OBVIOUS
<1>6. Written(new) = [op |-> new.op, run |-> new.run, calls |-> calls,
                      answer |-> answer, owed |-> owed, taken |-> taken]
  BY DEF Written
<1> HIDE DEF calls, answer, owed, taken
<1>7. calls = new.calls /\ owed = new.owed BY <1>1, <1>2, <1>3
<1> QED BY <1>4, <1>5, <1>6, <1>7 DEF ChildState

\* The record follows the child, is not kept, or is given up.
Recorded ==
    /\ SameOptions /\ UNCHANGED kept
    /\ \/ writer /\ stored' = Written(child') /\ UNCHANGED <<writer, begun, broken>>
       \/ ~writer /\ UNCHANGED <<stored, writer, begun, broken>>
       \/ /\ writer /\ writer' = FALSE /\ broken' = TRUE
          /\ UNCHANGED <<stored, begun>>

\* An event of the child is written, or is not.
LEMMA ObservedFacts ==
    ASSUME TypeOK, NEW new, Observed(new)
    PROVE  child' = new /\ Recorded
<1>1. CASE Spend("fails") BY <1>1, SpendFacts DEF Observed, Recorded
<1>2. CASE UNCHANGED budget
  BY <1>2 DEF Observed, Recorded, SameOptions, TypeOK
<1> QED BY <1>1, <1>2 DEF Observed

\* The child's run and inputs stay, and only calls change.
OnlyCalls ==
    /\ child' \in ChildState /\ child'.op = child.op /\ child'.run = child.run
    /\ child'.owed = child.owed /\ child'.taken = child.taken

\* A call of the child changes its state.
LEMMA BecomesFacts ==
    ASSUME TypeOK, NEW c \in Calls, NEW st \in CallStates,
           child' = Becomes(c, st)
    PROVE  /\ OnlyCalls /\ child'.calls[c] = st
           /\ \A d \in Calls \ {c} : child'.calls[d] = child.calls[d]
<1> DEFINE calls == [child.calls EXCEPT ![c] = st]
<1>1. child \in ChildState BY DEF TypeOK
<1>2. child' = [child EXCEPT !.calls = calls] BY DEF Becomes
<1>3. /\ calls \in [Calls -> CallStates] /\ calls[c] = st
      /\ \A d \in Calls \ {c} : calls[d] = child.calls[d]
  BY <1>1 DEF ChildState
<1> HIDE DEF calls
<1>4. OnlyCalls /\ child'.calls = calls
  BY <1>1, <1>2, <1>3 DEF ChildState, OnlyCalls
<1> QED BY <1>3, <1>4

\* The model makes calls, with no verdict on any, or answers.
LEMMA CallModelFacts ==
    ASSUME TypeOK, CallModel
    PROVE  /\ OnlyCalls /\ Recorded /\ Runs /\ Settled /\ ~Has({"held"})
           /\ \/ /\ verdict' = [c \in Calls |-> "none"]
                 /\ \A c \in Calls :
                       \/ child.calls[c] = "none" /\ child'.calls[c] = "open"
                       \/ child'.calls[c] = child.calls[c]
              \/ UNCHANGED verdict /\ child'.calls = child.calls
<1>1. child \in ChildState BY DEF TypeOK
<1>2. Runs /\ Settled /\ ~Has({"held"}) BY DEF CallModel
<1>3. ASSUME NEW batch \in SUBSET {c \in Calls : In(c, {"none"})},
             Observed([child EXCEPT !.calls =
                 [c \in Calls |-> IF c \in batch THEN "open" ELSE @[c]]])
      PROVE  /\ OnlyCalls /\ Recorded
             /\ \A c \in Calls :
                     \/ child.calls[c] = "none" /\ child'.calls[c] = "open"
                     \/ child'.calls[c] = child.calls[c]
  <2> DEFINE calls == [c \in Calls |-> IF c \in batch THEN "open"
                                       ELSE child.calls[c]]
  <2>1. child' = [child EXCEPT !.calls = calls] /\ Recorded
    BY <1>3, ObservedFacts
  <2>2. /\ calls \in [Calls -> CallStates]
        /\ \A c \in Calls : \/ child.calls[c] = "none" /\ calls[c] = "open"
                            \/ calls[c] = child.calls[c]
    BY <1>1 DEF ChildState, CallStates, In
  <2> HIDE DEF calls
  <2>3. OnlyCalls /\ child'.calls = calls
    BY <1>1, <2>1, <2>2 DEF ChildState, OnlyCalls
  <2> QED BY <2>1, <2>2, <2>3
<1>4. CASE Observed([child EXCEPT !.answer = TRUE]) /\ UNCHANGED verdict
  <2>1. child' = [child EXCEPT !.answer = TRUE] /\ Recorded
    BY <1>4, ObservedFacts
  <2>2. OnlyCalls /\ child'.calls = child.calls
    BY <1>1, <2>1 DEF ChildState, OnlyCalls
  <2> QED BY <1>2, <1>4, <2>1, <2>2
<1> QED BY <1>2, <1>3, <1>4 DEF CallModel

\* The policy decides on a call.
LEMMA DecideFacts ==
    ASSUME TypeOK, NEW c \in Calls, NEW v \in Verdicts, Decide(c, v)
    PROVE  /\ OnlyCalls /\ Recorded /\ Runs /\ child.calls[c] = "open"
           /\ child'.calls[c] \in {"ready", "done", "held"}
           /\ v = "held" => child'.calls[c] = "held"
           /\ \A d \in Calls \ {c} : child'.calls[d] = child.calls[d]
           /\ verdict' = [verdict EXCEPT ![c] = v]
<1> DEFINE st == CASE v \in {"allowed", "accepted"} -> "ready"
                   [] v = "declined" -> "done"
                   [] v \in {"held", "silent"} -> "held"
<1>1. Observed(Becomes(c, st)) BY DEF Decide
<1>2. st \in {"ready", "done", "held"} /\ (v = "held" => st = "held")
  BY DEF Verdicts
<1> HIDE DEF st
<1>3. child' = Becomes(c, st) /\ Recorded BY <1>1, ObservedFacts
<1>4. st \in CallStates BY <1>2 DEF CallStates
<1>5. /\ OnlyCalls /\ child'.calls[c] = st
      /\ \A d \in Calls \ {c} : child'.calls[d] = child.calls[d]
  BY <1>3, <1>4, BecomesFacts
<1> QED BY <1>2, <1>3, <1>5 DEF Decide, In

\* A call is handed to its tool.
LEMMA DispatchFacts ==
    ASSUME TypeOK, NEW c \in Calls, Dispatch(c)
    PROVE  /\ OnlyCalls /\ Recorded /\ Runs /\ child.calls[c] = "ready"
           /\ child'.calls[c] = "dispatched" /\ ~Has({"open"})
           /\ \A d \in Calls \ {c} : child'.calls[d] = child.calls[d]
           /\ UNCHANGED <<verdict, worked>>
<1>1. Observed(Becomes(c, "dispatched")) /\ "dispatched" \in CallStates
  BY DEF Dispatch, CallStates
<1>2. child' = Becomes(c, "dispatched") /\ Recorded
  BY <1>1, ObservedFacts
<1> QED BY <1>1, <1>2, BecomesFacts DEF Dispatch, In

\* A tool's output is there.
LEMMA OutputFacts ==
    ASSUME TypeOK, NEW c \in Calls, Output(c)
    PROVE  /\ OnlyCalls /\ Recorded /\ Runs /\ child.calls[c] = "dispatched"
           /\ child'.calls[c] = "done" /\ c \in worked
           /\ \A d \in Calls \ {c} : child'.calls[d] = child.calls[d]
           /\ UNCHANGED <<verdict, worked>>
<1>1. Observed(Becomes(c, "done")) /\ "done" \in CallStates
  BY DEF Output, CallStates
<1>2. child' = Becomes(c, "done") /\ Recorded BY <1>1, ObservedFacts
<1> QED BY <1>1, <1>2, BecomesFacts DEF Output, In

\* The child's calls and run stay, and only inputs change.
OnlyInputs ==
    /\ child' \in ChildState /\ child'.op = child.op /\ child'.run = child.run
    /\ child'.calls = child.calls

\* An input is queued.
LEMMA QueueFacts ==
    ASSUME TypeOK, InputInv, NEW i \in Inputs, Queue(i)
    PROVE  /\ OnlyInputs /\ Recorded /\ Runs /\ i \notin child.taken
           /\ child'.taken = child.taken
           /\ child'.owed = [child.owed EXCEPT ![i] = 1]
           /\ queue' = queue \cup {i}
<1> DEFINE owed == [child.owed EXCEPT ![i] = child.owed[i] + 1]
<1>1. child \in ChildState /\ Live BY DEF TypeOK, Queue, Runs, Live
<1>2. i \notin queue /\ i \notin child.taken /\ Runs BY DEF Queue
<1>3. child.owed[i] = 0 BY <1>1, <1>2 DEF InputInv, ChildState
<1>4. child' = [child EXCEPT !.owed = owed] /\ Recorded
  BY ObservedFacts DEF Queue
<1>5. owed = [child.owed EXCEPT ![i] = 1] /\ owed \in [Inputs -> {0, 1}]
  BY <1>1, <1>3 DEF ChildState
<1> HIDE DEF owed
<1>6. OnlyInputs /\ child'.taken = child.taken /\ child'.owed = owed
  BY <1>1, <1>4, <1>5 DEF ChildState, OnlyInputs
<1> QED BY <1>2, <1>4, <1>5, <1>6 DEF Queue

\* The child takes what is queued.
LEMMA TakeFacts ==
    ASSUME TypeOK, InputInv, Take
    PROVE  /\ OnlyInputs /\ Recorded /\ Runs
           /\ child'.taken = child.taken \cup queue
           /\ \A i \in Inputs : child'.owed[i] = 0
           /\ queue' = {}
<1> DEFINE owed == [i \in Inputs |-> IF i \in queue THEN child.owed[i] - 1
                                     ELSE child.owed[i]]
           new == [child EXCEPT !.taken = child.taken \cup queue,
                                !.answer = FALSE, !.owed = owed]
<1>1. child \in ChildState /\ Live /\ Runs /\ queue \in SUBSET Inputs
  BY DEF TypeOK, Take, Runs, Live
<1>2. child' = new /\ Recorded BY ObservedFacts DEF Take
<1>3. \A i \in Inputs : owed[i] = 0 BY <1>1 DEF InputInv, ChildState
<1>4. owed \in [Inputs -> {0, 1}] BY <1>3
<1> HIDE DEF owed
<1>5. /\ new \in ChildState /\ new.op = child.op /\ new.run = child.run
      /\ new.calls = child.calls /\ new.taken = child.taken \cup queue
      /\ new.owed = owed
  BY <1>1, <1>4 DEF ChildState
<1> QED BY <1>1, <1>2, <1>3, <1>5 DEF Take, OnlyInputs

\* Only the child's run changes.
OnlyRun(r) ==
    /\ child' \in ChildState /\ child'.op = child.op /\ child'.run = r
    /\ child'.owed = child.owed /\ child'.taken = child.taken
    /\ child'.calls = child.calls

\* A run changes.
LEMMA RunSet ==
    ASSUME TypeOK, NEW r \in {"none", "open", "cut"} \cup Reasons,
           child' = [child EXCEPT !.run = r]
    PROVE  OnlyRun(r)
  BY DEF TypeOK, ChildState, OnlyRun

\* A run ends.
LEMMA EndRunFacts ==
    ASSUME TypeOK, NEW r \in Reasons, EndRun(r)
    PROVE  /\ OnlyRun(r) /\ Runs /\ SameOptions
           /\ r = "input" => Settled
           /\ stored' = IF writer THEN Written(child') ELSE stored
           /\ writer' = (writer /\ ~DetachedRun)
           /\ UNCHANGED <<begun, kept, broken>>
           /\ IF budget.detach THEN UNCHANGED pc ELSE pc' = "ended"
<1>1. OnlyRun(r) BY RunSet DEF EndRun
<1>2. SameOptions BY SpendFacts DEF EndRun, SameOptions, TypeOK
<1> QED BY <1>1, <1>2 DEF EndRun

\* The run starts, and the calls the child held run or are refused.
TookUp ==
    /\ child' \in ChildState /\ child'.op = child.op
    /\ child'.run = "open" /\ child'.owed = child.owed
    /\ child'.taken = child.taken
    /\ \A c \in Calls :
          \/ In(c, {"held"}) /\ child'.calls[c] = ReleaseAs
          \/ ~In(c, {"held"}) /\ child'.calls[c] = child.calls[c]

\* The child at the start of its run.
LEMMA TakenUpFacts ==
    ASSUME TypeOK, child' = TakenUp
    PROVE  TookUp
<1> DEFINE calls == [c \in Calls |-> IF c \in Held THEN ReleaseAs
                                     ELSE child.calls[c]]
           new == [child EXCEPT !.run = "open", !.calls = calls]
<1>1. child \in ChildState BY DEF TypeOK
<1>2. child' = new BY DEF TakenUp
<1>3. /\ calls \in [Calls -> CallStates]
      /\ \A c \in Calls : \/ In(c, {"held"}) /\ calls[c] = ReleaseAs
                          \/ ~In(c, {"held"}) /\ calls[c] = child.calls[c]
  BY <1>1 DEF ChildState, CallStates, Held, ReleaseAs
<1> HIDE DEF calls
<1>4. /\ new \in ChildState /\ new.op = child.op /\ new.run = "open"
      /\ new.owed = child.owed /\ new.taken = child.taken /\ new.calls = calls
  BY <1>1, <1>3 DEF ChildState
<1> QED BY <1>2, <1>3, <1>4 DEF TookUp

\* The child is resumed, with its record left in Recorder.runs.
LEMMA ReleaseFacts ==
    ASSUME TypeOK, PhaseInv, Release
    PROVE  /\ pc = "ended" /\ pc' = "create" /\ writer' = FALSE
           /\ UNCHANGED <<plog, key, child, queue, verdict, worked, stored, begun,
                          ran, broken, goroutine, budget>>
           /\ Again /\ Again' /\ budget.ask
<1>1. /\ pc = "ended" /\ pc' = "create" /\ writer' = FALSE
      /\ UNCHANGED <<plog, key, child, queue, verdict, worked, stored, begun,
                     ran, broken, goroutine, budget>>
      /\ child.run = "input" /\ budget.ask /\ Releases(Held)
  BY DEF Release, agent, history
<1>2. Again BY <1>1 DEF Again, PhaseInv
<1>3. Again' BY <1>1, <1>2 DEF Again, Settled, Releases, Held, Has, In
<1> QED BY <1>1, <1>2, <1>3

\* The child without a run.
LEMMA NoChildFacts ==
    /\ NoChild \in ChildState /\ NoChild.op = None /\ NoChild.run = "none"
    /\ \A c \in Calls : NoChild.calls[c] = "none"
    /\ \A i \in Inputs : NoChild.owed[i] = 0 /\ NoChild.taken = {}
  BY DEF NoChild, ChildState, CallStates

\* A child is built afresh.
LEMMA AfreshFacts ==
    ASSUME TypeOK, PhaseInv, Afresh
    PROVE  /\ child' \in ChildState /\ child'.op = key /\ child'.run = "none"
           /\ \A c \in Calls : child'.calls[c] = "none"
           /\ \A i \in Inputs : child'.owed[i] = 0 /\ child'.taken = {}
           /\ queue' = {} /\ key \in Keys
<1>1. key \in Keys BY DEF Afresh, PhaseInv, TypeOK
<1>2. child' = [NoChild EXCEPT !.op = key] BY DEF Afresh
<1> QED BY <1>1, <1>2, NoChildFacts DEF Afresh, ChildState

\* The path at the leaf, once a run that the process cut is closed.
LEMMA ClosedFacts ==
    ASSUME TypeOK
    PROVE  /\ Closed(stored) \in ChildState /\ Closed(stored).op = stored.op
           /\ Closed(stored).calls = stored.calls
           /\ Closed(stored).owed = stored.owed
           /\ Closed(stored).taken = stored.taken
           /\ Closed(stored).run # "open"
           /\ Closed(stored).run = "none" <=> stored.run = "none"
<1> DEFINE r == IF stored.run = "open" THEN "cut" ELSE stored.run
<1>1. stored \in ChildState BY DEF TypeOK
<1>2. r \in {"none", "cut"} \cup Reasons /\ (r = "none" <=> stored.run = "none")
  BY <1>1 DEF ChildState
<1>3. r # "open" BY <1>2 DEF Reasons
<1>4. Closed(stored) = [stored EXCEPT !.run = r]
  BY <1>1 DEF Closed, ChildState
<1> HIDE DEF r
<1> QED BY <1>1, <1>2, <1>3, <1>4 DEF ChildState

\* What ChildRecord restores of it.
LEMMA RestoredFacts ==
    ASSUME NEW s \in ChildState
    PROVE  /\ Restored(s) \in ChildState /\ Restored(s).op = s.op
           /\ Restored(s).run = "none" /\ Restored(s).owed = s.owed
           /\ Restored(s).taken = s.taken
           /\ \A c \in Calls :
                 /\ Restored(s).calls[c] # "held"
                 /\ Restored(s).calls[c] \in {"ready", "dispatched"} =>
                       s.calls[c] = "dispatched"
                 /\ c \in Never =>
                       \/ Restored(s).calls[c] = "done"
                       \/ s.calls[c] \in Undone
<1> DEFINE calls == [c \in Calls |->
          CASE s.calls[c] = "dispatched" -> Replayed(s, c)
            [] s.calls[c] \in {"ready", "held"} -> "open"
            [] OTHER -> s.calls[c]]
<1>1. \A c \in Calls : s.calls[c] \in CallStates BY DEF ChildState
<1>2. ASSUME NEW c \in Calls
      PROVE  /\ calls[c] \in CallStates /\ calls[c] # "held"
             /\ calls[c] \in {"ready", "dispatched"} =>
                   s.calls[c] = "dispatched"
             /\ c \in Never => calls[c] = "done" \/ s.calls[c] \in Undone
  <2>1. CASE s.calls[c] = "dispatched" BY <2>1 DEF Replayed, CallStates
  <2>2. CASE s.calls[c] \in {"ready", "held"}
    BY <2>2 DEF CallStates, Undone
  <2>3. CASE s.calls[c] \in {"none", "open", "done"}
    BY <2>3 DEF CallStates, Undone
  <2> QED BY <1>1, <2>1, <2>2, <2>3 DEF CallStates
<1>3. calls \in [Calls -> CallStates] BY <1>2
<1>4. Restored(s) = [s EXCEPT !.answer = FALSE, !.run = "none", !.calls = calls]
  BY DEF Restored
<1> HIDE DEF calls
<1>5. /\ Restored(s) \in ChildState /\ Restored(s).op = s.op
      /\ Restored(s).run = "none" /\ Restored(s).owed = s.owed
      /\ Restored(s).taken = s.taken /\ Restored(s).calls = calls
  BY <1>3, <1>4 DEF ChildState
<1> QED BY <1>2, <1>5

\* ChildRecord loads a child that ran: it is left as it ended, or restored;
\* where the hand-off has no link, nothing is touched.
LEMMA LoadRecordFacts ==
    ASSUME TypeOK, LoadRecord
    PROVE  /\ pc = "load" /\ begun' = (pc' = "toolend")
           /\ \/ pc' = "output" /\ UNCHANGED <<child, queue, stored>>
              \/ /\ pc' = "toolend" /\ stored' = Closed(stored)
                 /\ child' = Closed(stored) /\ stored.run # "none"
              \/ /\ pc' = "create" /\ stored' = Closed(stored)
                 /\ child' = Restored(Closed(stored)) /\ stored.run # "none"
                 /\ queue' = Owed(Closed(stored))
           /\ queue' \in SUBSET Inputs
<1> DEFINE s == Closed(stored)
<1>1. pc = "load" /\ begun' = (pc' = "toolend") /\ queue \in SUBSET Inputs
  BY DEF LoadRecord, TypeOK
<1>2. Owed(s) \in SUBSET Inputs BY DEF Owed
<1>3. CASE Loads("unknown") /\ pc' = "output" /\ UNCHANGED <<child, queue>>
  BY <1>1, <1>3 DEF LoadRecord
<1>4. CASE Loads("end") /\ pc' = "toolend" /\ child' = s /\ UNCHANGED queue
  BY <1>1, <1>4 DEF LoadRecord, Loads
<1>5. CASE Loads("held") /\ pc' = "toolend" /\ child' = s /\ queue' = Owed(s)
  BY <1>1, <1>2, <1>5 DEF LoadRecord, Loads
<1>6. CASE Loads("restored") /\ pc' = "create" /\ child' = Restored(s)
           /\ queue' = Owed(s)
  BY <1>1, <1>2, <1>6 DEF LoadRecord, Loads
<1> QED BY <1>3, <1>4, <1>5, <1>6 DEF LoadRecord

\* The child's session is made, or cannot be.
LEMMA NewChildFacts ==
    ASSUME TypeOK, NewChild
    PROVE  /\ pc = "create" /\ SameOptions /\ begun' = FALSE
           /\ UNCHANGED <<worked, verdict, kept>>
           /\ \/ /\ pc' = "link" /\ writer' = TRUE /\ UNCHANGED <<child, broken>>
              \/ /\ pc' = "run" /\ broken' = TRUE /\ TookUp
                 /\ UNCHANGED writer
           /\ pc' = "run" => goroutine'.started
           /\ goroutine' \in [started : BOOLEAN, ended : BOOLEAN,
                              looked : BOOLEAN, told : Nat]
<1>1. (pc' = "run" => goroutine'.started)
      /\ goroutine' \in [started : BOOLEAN, ended : BOOLEAN, looked : BOOLEAN,
                         told : Nat]
  BY DEF NewChild, TypeOK
<1>2. CASE writer' = TRUE /\ pc' = "link" /\ UNCHANGED <<child, broken, budget>>
  BY <1>1, <1>2 DEF NewChild, SameOptions, TypeOK
<1>3. CASE /\ Spend("fails") /\ broken' = TRUE /\ pc' = "run"
           /\ child' = TakenUp /\ UNCHANGED writer
  BY <1>1, <1>3, SpendFacts, TakenUpFacts DEF NewChild
<1> QED BY <1>2, <1>3 DEF NewChild

\* The run starts, and its start is written or not.
LEMMA StartRunFacts ==
    ASSUME TypeOK, StartRun
    PROVE  /\ pc = "start" /\ pc' = "run" /\ SameOptions /\ TookUp
           /\ UNCHANGED <<worked, verdict, kept>>
           /\ \/ /\ stored' \in ChildState /\ stored'.op = child'.op
                 /\ child.run = "none" \/ stored = child => stored' = child'
                 /\ begun' = TRUE /\ UNCHANGED <<writer, broken>>
              \/ /\ writer' = FALSE /\ broken' = TRUE /\ UNCHANGED <<stored, begun>>
           /\ goroutine'.started
           /\ goroutine' \in [started : BOOLEAN, ended : BOOLEAN,
                              looked : BOOLEAN, told : Nat]
<1>1. goroutine'.started
      /\ goroutine' \in [started : BOOLEAN, ended : BOOLEAN, looked : BOOLEAN,
                         told : Nat]
  BY DEF StartRun, TypeOK
<1>2. TookUp /\ child' = TakenUp BY TakenUpFacts DEF StartRun
<1>3. SameOptions BY SpendFacts DEF StartRun, SameOptions, TypeOK
<1>4. CASE /\ stored' = IF child.run = "none" THEN TakenUp ELSE Written(TakenUp)
           /\ begun' = TRUE /\ UNCHANGED <<writer, broken, budget>>
  <2>1. child' \in ChildState /\ child.taken \subseteq child'.taken
    BY <1>2 DEF TookUp
  <2>2. \A c \in Calls :
           child.calls[c] = "none" => child'.calls[c] \in {"none", "open"}
    BY <1>2 DEF TookUp, In
  <2>3. /\ Written(child') \in ChildState /\ Written(child').op = child'.op
        /\ stored = child => Written(child') = child'
    BY <2>1, <2>2, WrittenType, WrittenWhole
  <2>4. stored' = child' \/ (child.run # "none" /\ stored' = Written(child'))
    BY <1>2, <1>4
  <2>5. /\ stored' \in ChildState /\ stored'.op = child'.op
        /\ child.run = "none" \/ stored = child => stored' = child'
    BY <2>1, <2>3, <2>4
  <2> QED BY <1>1, <1>2, <1>3, <1>4, <2>5 DEF StartRun
<1>5. CASE /\ writer' = FALSE /\ broken' = TRUE /\ UNCHANGED <<stored, begun>>
  BY <1>1, <1>2, <1>3, <1>5 DEF StartRun
<1> QED BY <1>4, <1>5 DEF StartRun

\* The link is written, or there, or lost.
LEMMA LinkFacts ==
    ASSUME TypeOK, Link
    PROVE  /\ SameOptions /\ linked' \in BOOLEAN
           /\ plog' \in {plog, Append(plog, Entry("link", None))}
<1>1. SameOptions BY SpendFacts DEF Link, SameOptions, TypeOK
<1> QED BY <1>1 DEF Link, TypeOK

\* An entry of the parent's log.
LEMMA EntryType ==
    ASSUME NEW kind \in {"dispatch", "withdraw", "link", "output"},
           NEW k \in Keys \cup {None}
    PROVE  /\ Entry(kind, k) \in LogEntry
           /\ Entry(kind, k).kind = kind /\ Entry(kind, k).key = k
  BY DEF Entry, LogEntry

\* The parent hands the call over, or takes the hand-off back.
LEMMA HandOverFacts ==
    ASSUME TypeOK, NEW k \in Keys, HandOver(k)
    PROVE  /\ pc = "pending" /\ key' = k /\ SameOptions
           /\ \A c \in Calls : verdict'[c] = "none"
           /\ \/ key = None \/ k = key \/ (key # None /\ k > key)
           /\ budget.detach => plog = <<>>
           /\ \/ /\ plog' = Append(plog, Entry("dispatch", k))
                 /\ pc' = IF budget.detach THEN "fresh" ELSE "load"
              \/ /\ plog' = Append(Append(plog, Entry("dispatch", k)),
                                   Entry("withdraw", k))
                 /\ key \in {None, k} /\ pc' = "pending"
<1>1. /\ pc = "pending" /\ key' = k /\ (budget.detach => plog = <<>>)
      /\ \A c \in Calls : verdict'[c] = "none"
  BY DEF HandOver
<1>2. key = None \/ k = key \/ (key # None /\ k > key)
  BY DEF HandOver, KeysFor
<1>3. CASE /\ plog' = Append(plog, Entry("dispatch", k))
           /\ pc' = IF budget.detach THEN "fresh" ELSE "load"
           /\ budget.handoffs > 0
           /\ budget' = [budget EXCEPT !.handoffs = @ - 1,
                          !.keys = IF k = key \/ key = None THEN @ ELSE @ - 1]
  <2>1. k = key \/ key = None \/ budget.keys > 0
    BY DEF HandOver, KeysFor
  <2> DEFINE h == budget.handoffs - 1
             n == IF k = key \/ key = None THEN budget.keys ELSE budget.keys - 1
  <2>2. budget \in Budget BY DEF TypeOK
  <2>3. h \in Nat BY <1>3, <2>2 DEF Budget
  <2>4. n \in Nat BY <2>1, <2>2 DEF Budget
  <2>5. budget' = [budget EXCEPT !.handoffs = h, !.keys = n] BY <1>3
  <2> HIDE DEF h, n
  <2>6. SameOptions BY <2>2, <2>3, <2>4, <2>5 DEF SameOptions, Budget
  <2> QED BY <1>1, <1>2, <1>3, <2>6
<1>4. CASE /\ plog' = plog \o <<Entry("dispatch", k), Entry("withdraw", k)>>
           /\ Spend("aborts") /\ key \in {None, k} /\ pc' = "pending"
  <2>1. plog \in Seq(LogEntry) /\ Entry("dispatch", k) \in LogEntry
        /\ Entry("withdraw", k) \in LogEntry
    BY EntryType DEF TypeOK
  <2>2. plog' = Append(Append(plog, Entry("dispatch", k)), Entry("withdraw", k))
    BY <1>4, <2>1
  <2> QED BY <1>1, <1>2, <1>4, <2>2, SpendFacts
<1> QED BY <1>3, <1>4 DEF HandOver

\* Execute has returned, and the writer is let go; a run the record has no
\* start of is copied.
LEMMA ToolEndFacts ==
    ASSUME TypeOK, ToolEnd
    PROVE  /\ pc = "toolend" /\ ~budget.detach /\ pc' \in {"pending", "output"}
           /\ writer' = FALSE /\ Link /\ SameOptions
           /\ \/ (writer \/ begun) /\ UNCHANGED stored
              \/ /\ ~writer /\ ~begun /\ stored' \in ChildState
                 /\ stored'.op = child.op
<1>1. Link /\ SameOptions BY LinkFacts DEF ToolEnd
<1>2. child \in ChildState /\ stored \in ChildState BY DEF TypeOK
<1>3. CASE writer \/ begun BY <1>1, <1>3 DEF ToolEnd
<1>4. CASE ~(writer \/ begun)
  <2>1. stored' = [child EXCEPT !.run = stored.run, !.owed = stored.owed]
    BY <1>4 DEF ToolEnd
  <2> QED BY <1>1, <1>2, <1>4, <2>1 DEF ToolEnd, ChildState
<1> QED BY <1>3, <1>4

-----------------------------------------------------------------------------
(* Type correctness.                                                       *)

\* An event of the child that is typed keeps the record typed.
LEMMA RecordedType ==
    ASSUME TypeOK, Recorded, child' \in ChildState
    PROVE  /\ stored' \in ChildState /\ writer' \in BOOLEAN /\ kept' \in Nat
           /\ begun' \in BOOLEAN /\ broken' \in BOOLEAN /\ budget' \in Budget
  BY WrittenType DEF TypeOK, Recorded, SameOptions

\* The parent's log stays a sequence of entries.
LEMMA LogType ==
    ASSUME TypeOK, NEW kind \in {"dispatch", "withdraw", "link", "output"},
           NEW k \in Keys \cup {None}
    PROVE  Append(plog, Entry(kind, k)) \in Seq(LogEntry)
  BY EntryType DEF TypeOK

\* The link keeps the log typed.
LEMMA LinkType ==
    ASSUME TypeOK, Link
    PROVE  plog' \in Seq(LogEntry) /\ linked' \in BOOLEAN /\ budget' \in Budget
<1>1. Append(plog, Entry("link", None)) \in Seq(LogEntry) BY LogType
<1> QED BY <1>1, LinkFacts DEF TypeOK, SameOptions

\* The history of the tools is typed after a tool has run.
LEMMA WorkFacts ==
    ASSUME TypeOK, NEW c \in Calls, Work(c)
    PROVE  /\ ran' \in [Keys -> [Calls -> Nat]]
           /\ child.op \in Keys => ran'[child.op][c] = ran[child.op][c] + 1
           /\ \A k \in Keys, d \in Calls :
                 k # child.op \/ d # c => ran'[k][d] = ran[k][d]
<1>1. ran \in [Keys -> [Calls -> Nat]] BY DEF TypeOK
<1>2. ran' = [ran EXCEPT ![child.op][c] = @ + 1] BY DEF Work
<1>3. CASE child.op \in Keys BY <1>1, <1>2, <1>3
<1>4. CASE child.op \notin Keys BY <1>1, <1>2, <1>4
<1> QED BY <1>3, <1>4

\* Every step keeps the types.
LEMMA TypeStep ==
    ASSUME SubagentInv, [Next]_vars
    PROVE  TypeOK'
<1> USE DEF SubagentInv
<1>1. ASSUME NEW k \in Keys, HandOver(k)  PROVE TypeOK'
  <2>1. Append(plog, Entry("dispatch", k)) \in Seq(LogEntry)
        /\ Entry("withdraw", k) \in LogEntry
    BY LogType, EntryType
  <2>2. plog' \in Seq(LogEntry) BY <1>1, <2>1, HandOverFacts
  <2>3. pc' \in Places /\ key' \in Keys \cup {None} /\ budget' \in Budget
    BY <1>1, HandOverFacts DEF Places, SameOptions
  <2>4. verdict' \in [Calls -> Verdicts \cup {"none"}] /\ worked' \in SUBSET Calls
    BY <1>1 DEF HandOver
  <2> QED BY <1>1, <2>2, <2>3, <2>4 DEF HandOver, TypeOK, record, history
<1>2. CASE LoadFresh
  BY <1>2 DEF LoadFresh, TypeOK, Places, agent, record, history
<1>3. CASE LoadRecord
  <2>1. /\ child' \in ChildState /\ stored' \in ChildState
        /\ queue' \in SUBSET Inputs /\ pc' \in Places
    BY <1>3, LoadRecordFacts, ClosedFacts, RestoredFacts DEF TypeOK, Places
  <2>2. begun' \in BOOLEAN BY <1>3 DEF LoadRecord
  <2> QED BY <1>3, <2>1, <2>2 DEF LoadRecord, TypeOK, history
<1>4. CASE LoadFails
  <2>1. budget' \in Budget
    BY <1>4, SpendFacts DEF LoadFails, SameOptions
  <2> QED BY <1>4, <2>1 DEF LoadFails, TypeOK, Places, agent, record, history
<1>5. CASE Afresh
  <2>1. child' \in ChildState /\ queue' = {} BY <1>5, AfreshFacts
  <2> QED BY <1>5, <2>1 DEF Afresh, TypeOK, Places, record, history
<1>6. CASE NewChild
  <2>1. /\ child' \in ChildState /\ pc' \in Places /\ writer' \in BOOLEAN
        /\ begun' \in BOOLEAN /\ broken' \in BOOLEAN /\ budget' \in Budget
        /\ goroutine' \in [started : BOOLEAN, ended : BOOLEAN,
                            looked : BOOLEAN, told : Nat]
    BY <1>6, NewChildFacts DEF TypeOK, Places, SameOptions, TookUp
  <2>2. worked' \in SUBSET Calls
        /\ verdict' \in [Calls -> Verdicts \cup {"none"}]
    BY <1>6, NewChildFacts DEF TypeOK
  <2> QED BY <1>6, <2>1, <2>2 DEF NewChild, TypeOK
<1>7. CASE LinkChild
  <2>1. plog' \in Seq(LogEntry) /\ linked' \in BOOLEAN /\ budget' \in Budget
    BY <1>7, LinkType DEF LinkChild
  <2> QED BY <1>7, <2>1 DEF LinkChild, TypeOK, Places, agent, record, history
<1>8. CASE StartRun
  <2>1. /\ child' \in ChildState /\ pc' \in Places /\ writer' \in BOOLEAN
        /\ begun' \in BOOLEAN /\ broken' \in BOOLEAN /\ budget' \in Budget
        /\ stored' \in ChildState
        /\ goroutine' \in [started : BOOLEAN, ended : BOOLEAN,
                            looked : BOOLEAN, told : Nat]
    BY <1>8, StartRunFacts DEF TypeOK, Places, SameOptions, TookUp
  <2> QED BY <1>8, <2>1 DEF StartRun, TypeOK
<1>9. CASE CallModel
  <2>1. child' \in ChildState /\ Recorded
    BY <1>9, CallModelFacts DEF OnlyCalls
  <2>2. verdict' \in [Calls -> Verdicts \cup {"none"}]
    BY <1>9, CallModelFacts DEF TypeOK
  <2> QED BY <1>9, <2>1, <2>2, RecordedType DEF CallModel, TypeOK, parent
<1>10. CASE Take
  <2>1. child' \in ChildState /\ Recorded /\ queue' = {}
    BY <1>10, TakeFacts DEF OnlyInputs
  <2> QED BY <1>10, <2>1, RecordedType DEF Take, TypeOK, parent
<1>11. ASSUME NEW c \in Calls, Dispatch(c)  PROVE TypeOK'
  <2>1. child' \in ChildState /\ Recorded
    BY <1>11, DispatchFacts DEF OnlyCalls
  <2> QED BY <1>11, <2>1, RecordedType DEF Dispatch, TypeOK, parent
<1>12. ASSUME NEW c \in Calls, Work(c)  PROVE TypeOK'
  <2>1. ran' \in [Keys -> [Calls -> Nat]] BY <1>12, WorkFacts
  <2>2. worked' \in SUBSET Calls BY <1>12 DEF Work, TypeOK
  <2> QED BY <1>12, <2>1, <2>2 DEF Work, TypeOK, parent, record
<1>13. ASSUME NEW c \in Calls, Output(c)  PROVE TypeOK'
  <2>1. child' \in ChildState /\ Recorded
    BY <1>13, OutputFacts DEF OnlyCalls
  <2> QED BY <1>13, <2>1, RecordedType DEF Output, TypeOK, parent
<1>14. ASSUME NEW c \in Calls, NEW v \in Verdicts, Decide(c, v)  PROVE TypeOK'
  <2>1. child' \in ChildState /\ Recorded
    BY <1>14, DecideFacts DEF OnlyCalls
  <2>2. verdict' \in [Calls -> Verdicts \cup {"none"}]
    BY <1>14, DecideFacts DEF TypeOK
  <2> QED BY <1>14, <2>1, <2>2, RecordedType DEF Decide, TypeOK, parent
<1>15. ASSUME NEW i \in Inputs, Queue(i)  PROVE TypeOK'
  <2>1. child' \in ChildState /\ Recorded /\ queue' \in SUBSET Inputs
    BY ZenonT(60), <1>15, QueueFacts DEF OnlyInputs, TypeOK
  <2> QED BY <1>15, <2>1, RecordedType DEF Queue, TypeOK, parent
<1>16. ASSUME NEW r \in Reasons, EndRun(r)  PROVE TypeOK'
  <2>1. /\ child' \in ChildState /\ budget' \in Budget /\ pc' \in Places
        /\ UNCHANGED kept
    BY <1>16, EndRunFacts DEF OnlyRun, SameOptions, TypeOK, Places
  <2>2. writer' \in BOOLEAN BY <1>16, EndRunFacts
  <2>3. stored' \in ChildState
    <3>1. Written(child') \in ChildState /\ stored \in ChildState
      BY <2>1, WrittenType DEF TypeOK
    <3> QED BY <1>16, <3>1, EndRunFacts
  <2> QED BY <1>16, <2>1, <2>2, <2>3 DEF EndRun, TypeOK
<1>17. CASE Release
  <2>1. kept' \in Nat BY <1>17 DEF Release, TypeOK
  <2> QED BY <1>17, <2>1, ReleaseFacts DEF Release, TypeOK, Places
<1>18. CASE Return
  BY <1>18 DEF Return, TypeOK, Places, agent, record, history
<1>19. CASE ToolEnd
  <2>1. plog' \in Seq(LogEntry) /\ linked' \in BOOLEAN /\ budget' \in Budget
    BY <1>19, LinkType DEF ToolEnd
  <2>2. stored' \in ChildState /\ writer' \in BOOLEAN /\ pc' \in Places
    BY <1>19, ToolEndFacts DEF TypeOK, Places
  <2> QED BY <1>19, <2>1, <2>2 DEF ToolEnd, TypeOK, agent, history
<1>20. CASE AppendOutput
  <2>1. plog' \in Seq(LogEntry) BY <1>20, LogType DEF AppendOutput
  <2> QED
    BY <1>20, <2>1 DEF AppendOutput, TypeOK, Places, agent, record, history
<1>21. CASE DetachedEnds
  <2>1. goroutine' \in [started : BOOLEAN, ended : BOOLEAN,
                        looked : BOOLEAN, told : Nat]
    BY <1>21 DEF DetachedEnds, TypeOK
  <2>2. pc' \in Places BY <1>21 DEF DetachedEnds, TypeOK, Places
  <2> QED BY <1>21, <2>1, <2>2 DEF DetachedEnds, TypeOK, agent, record, history
<1>22. CASE Detach
  <2>1. goroutine' \in [started : BOOLEAN, ended : BOOLEAN,
                        looked : BOOLEAN, told : Nat]
    <3> DEFINE n == goroutine.told + 1
    <3>1. goroutine' = [goroutine EXCEPT !.told = n] /\ n \in Nat
      BY <1>22 DEF Detach, TypeOK
    <3> HIDE DEF n
    <3> QED BY <3>1 DEF TypeOK
  <2> QED BY <1>22, <2>1 DEF Detach, TypeOK, parent, agent, record, history
<1>23. CASE DetachedReturn
  <2>1. goroutine' \in [started : BOOLEAN, ended : BOOLEAN,
                        looked : BOOLEAN, told : Nat]
    BY <1>23 DEF DetachedReturn, TypeOK
  <2> QED
    BY <1>23, <2>1 DEF DetachedReturn, TypeOK, Places, agent, record, history
<1>24. CASE DetachedToolEnd
  <2>1. plog' \in Seq(LogEntry) /\ linked' \in BOOLEAN /\ budget' \in Budget
    BY <1>24, LinkType DEF DetachedToolEnd
  <2>2. writer' \in BOOLEAN BY <1>24 DEF DetachedToolEnd
  <2> QED
    BY <1>24, <2>1, <2>2 DEF DetachedToolEnd, TypeOK, Places, agent, history
<1>25. CASE Crash
  <2>1. budget' \in Budget BY <1>25, SpendFacts DEF Crash, SameOptions
  <2>2. verdict' \in [Calls -> Verdicts \cup {"none"}] /\ worked' \in SUBSET Calls
    BY <1>25 DEF Crash
  <2> QED BY <1>25, <2>1, <2>2, NoChildFacts DEF Crash, TypeOK, Places, history
<1>26. CASE UNCHANGED vars
  BY <1>26 DEF TypeOK, vars, parent, agent, record, history
<1> QED BY <1>1, <1>2, <1>3, <1>4, <1>5, <1>6, <1>7, <1>8, <1>9, <1>10, <1>11,
     <1>12, <1>13, <1>14, <1>15, <1>16, <1>17, <1>18, <1>19, <1>20, <1>21,
     <1>22, <1>23, <1>24, <1>25, <1>26 DEF Next

-----------------------------------------------------------------------------
(* Where the call is, and the writer.                                      *)

\* The steps of the child's run that Observe sees.
Events ==
    \/ CallModel \/ Take
    \/ \E c \in Calls : Dispatch(c) \/ Output(c)
    \/ \E c \in Calls, v \in Verdicts : Decide(c, v)
    \/ \E i \in Inputs : Queue(i)

\* A call is made before anything else becomes of it, and no input is given
\* back.
Grows ==
    /\ child.taken \subseteq child'.taken
    /\ \A c \in Calls : child.calls[c] = "none" => child'.calls[c] \in {"none", "open"}

\* An event leaves the run, its operation and the parent's call alone.
LEMMA EventFacts ==
    ASSUME SubagentInv, Events
    PROVE  /\ Runs /\ Recorded /\ child'.run = child.run /\ child'.op = child.op
           /\ UNCHANGED <<plog, pc, key, out, linked, goroutine, ran>>
           /\ child' \in ChildState /\ Grows
<1> USE DEF SubagentInv
<1>1. CASE CallModel
  BY <1>1, CallModelFacts DEF OnlyCalls, CallModel, parent, Grows
<1>2. CASE Take BY <1>2, TakeFacts DEF OnlyInputs, Take, parent, Grows
<1>3. ASSUME NEW c \in Calls, Dispatch(c)
      PROVE  /\ Runs /\ Recorded /\ child'.run = child.run /\ child'.op = child.op
             /\ UNCHANGED <<plog, pc, key, out, linked, goroutine, ran>>
             /\ child' \in ChildState /\ Grows
  BY <1>3, DispatchFacts DEF OnlyCalls, Dispatch, parent, Grows
<1>4. ASSUME NEW c \in Calls, Output(c)
      PROVE  /\ Runs /\ Recorded /\ child'.run = child.run /\ child'.op = child.op
             /\ UNCHANGED <<plog, pc, key, out, linked, goroutine, ran>>
             /\ child' \in ChildState /\ Grows
  BY <1>4, OutputFacts DEF OnlyCalls, Output, parent, Grows
<1>5. ASSUME NEW c \in Calls, NEW v \in Verdicts, Decide(c, v)
      PROVE  /\ Runs /\ Recorded /\ child'.run = child.run /\ child'.op = child.op
             /\ UNCHANGED <<plog, pc, key, out, linked, goroutine, ran>>
             /\ child' \in ChildState /\ Grows
  BY <1>5, DecideFacts DEF OnlyCalls, Decide, parent, Grows
<1>6. ASSUME NEW i \in Inputs, Queue(i)
      PROVE  /\ Runs /\ Recorded /\ child'.run = child.run /\ child'.op = child.op
             /\ UNCHANGED <<plog, pc, key, out, linked, goroutine, ran>>
             /\ child' \in ChildState /\ Grows
  BY <1>6, QueueFacts DEF OnlyInputs, Queue, parent, Grows
<1> QED BY <1>1, <1>2, <1>3, <1>4, <1>5, <1>6 DEF Events

\* The run of a child that runs is in progress: the call waits for it, or
\* was detached from it.
LEMMA RunsFacts ==
    ASSUME SubagentInv, Runs
    PROVE  /\ child.run = "open"
           /\ pc = "run" \/ (budget.detach /\ pc \in {"toolend", "output", "answered"})
           /\ ~budget.detach => pc = "run"
  BY DEF SubagentInv, PhaseInv, Runs

\* The clauses of PhaseInv that are about where the call is; the others are
\* about the child's run and its record.
LEMMA StartFrame ==
    ASSUME UNCHANGED <<child, verdict>>, budget'.detach = budget.detach
    PROVE  (First' <=> First) /\ (Again' <=> Again) /\ (Settled' <=> Settled)
  BY DEF First, Again, Settled, Releases, Held, Has, In

\* Every step keeps where the call is with what its child is.
LEMMA PhaseStep ==
    ASSUME SubagentInv, [Next]_vars
    PROVE  PhaseInv'
<1> USE DEF SubagentInv
<1>1. ASSUME NEW k \in Keys, HandOver(k)  PROVE PhaseInv'
  <2>1. k # None BY SubagentAssumption DEF None
  <2> QED BY <1>1, <2>1, HandOverFacts
    DEF PhaseInv, SameOptions, HandOver, agent, record
<1>2. CASE LoadFresh BY <1>2 DEF LoadFresh, PhaseInv, agent, record
<1>3. CASE LoadRecord
  <2>1. child'.run # "open"
    <3>1. child.run # "open" BY <1>3, LoadRecordFacts DEF PhaseInv
    <3> QED BY <1>3, <3>1, LoadRecordFacts, ClosedFacts, RestoredFacts
  <2>2. pc' = "create" => First'
    <3>1. SUFFICES ASSUME pc' = "create"  PROVE First' OBVIOUS
    <3>2. child' = Restored(Closed(stored)) /\ UNCHANGED verdict /\ pc = "load"
      BY <1>3, <3>1, LoadRecordFacts DEF LoadRecord
    <3>3. child'.run = "none" /\ \A c \in Calls : child'.calls[c] # "held"
      BY <3>2, ClosedFacts, RestoredFacts
    <3>4. \A c \in Calls : verdict'[c] = "none" BY <3>2 DEF PhaseInv
    <3> QED BY <3>3, <3>4 DEF First
  <2> QED BY <1>3, <2>1, <2>2, LoadRecordFacts DEF PhaseInv, LoadRecord
<1>4. CASE LoadFails
  <2>1. SameOptions BY <1>4, SpendFacts DEF LoadFails
  <2> QED BY <1>4, <2>1 DEF LoadFails, PhaseInv, SameOptions, agent, record
<1>5. CASE Afresh
  <2>1. First' BY <1>5, AfreshFacts DEF Afresh, PhaseInv, First
  <2> QED BY <1>5, <2>1, AfreshFacts DEF Afresh, PhaseInv, record
<1>6. CASE NewChild
  <2>1. /\ pc = "create" /\ budget'.detach = budget.detach /\ begun' = FALSE
        /\ UNCHANGED key /\ (pc' = "run" => goroutine'.started)
    BY <1>6, NewChildFacts DEF NewChild, SameOptions
  <2>2. \/ pc' = "link" /\ writer' = TRUE /\ UNCHANGED <<child, verdict>>
        \/ pc' = "run" /\ child'.run = "open" /\ writer' = writer
    BY <1>6, NewChildFacts DEF TookUp
  <2>3. CASE pc' = "link" /\ writer' = TRUE /\ UNCHANGED <<child, verdict>>
    <3>1. First' \/ Again' BY <2>1, <2>3, StartFrame DEF PhaseInv
    <3>2. child'.run # "open" BY <3>1 DEF First, Again
    <3> QED BY <2>1, <2>3, <3>1, <3>2 DEF PhaseInv
  <2>4. CASE pc' = "run" /\ child'.run = "open" /\ writer' = writer
    BY <2>1, <2>4 DEF PhaseInv
  <2> QED BY <2>2, <2>3, <2>4
<1>7. CASE LinkChild
  <2>1. SameOptions BY <1>7, LinkFacts DEF LinkChild
  <2>2. First' \/ Again'
    BY <1>7, <2>1, StartFrame DEF LinkChild, PhaseInv, SameOptions, agent
  <2> QED
    BY <1>7, <2>1, <2>2 DEF LinkChild, PhaseInv, SameOptions, agent, record
<1>8. CASE StartRun
  BY <1>8, StartRunFacts DEF StartRun, PhaseInv, SameOptions, TookUp
<1>9. CASE Events
  <2>1. writer' => writer /\ begun' = begun
    BY <1>9, EventFacts DEF Recorded
  <2>2. budget'.detach = budget.detach
    BY <1>9, EventFacts DEF Recorded, SameOptions
  <2>3. /\ child'.run = child.run /\ child.run = "open"
        /\ UNCHANGED <<pc, key, goroutine>>
    BY <1>9, EventFacts, RunsFacts
  <2>4. pc = "run" \/ (budget.detach /\ pc \in {"toolend", "output", "answered"})
    BY <1>9, EventFacts, RunsFacts
  <2> QED BY <2>1, <2>2, <2>3, <2>4 DEF PhaseInv
<1>10. ASSUME NEW c \in Calls, Work(c)  PROVE PhaseInv'
  BY <1>10, StartFrame DEF Work, PhaseInv, parent, record
<1>11. ASSUME NEW r \in Reasons, EndRun(r)  PROVE PhaseInv'
  <2>1. r \notin {"open", "none"} BY DEF Reasons
  <2>2. r = "input" => Settled'
    BY <1>11, EndRunFacts DEF OnlyRun, Settled, Has, In
  <2> QED BY <1>11, <2>1, <2>2, EndRunFacts, RunsFacts
    DEF EndRun, PhaseInv, SameOptions, OnlyRun, DetachedRun
<1>12. CASE Release
  <2>1. /\ pc = "ended" /\ pc' = "create" /\ writer' = FALSE
        /\ UNCHANGED <<key, goroutine, budget, begun, child>>
        /\ Again' /\ child.run = "input"
    BY <1>12, ReleaseFacts DEF Again
  <2> QED BY <2>1 DEF PhaseInv
<1>13. CASE Return BY <1>13 DEF Return, PhaseInv, agent, record
<1>14. CASE ToolEnd
  BY <1>14, ToolEndFacts DEF ToolEnd, PhaseInv, SameOptions, agent
<1>15. CASE AppendOutput
  BY <1>15 DEF AppendOutput, PhaseInv, agent, record
<1>16. CASE DetachedEnds
  BY <1>16, StartFrame DEF DetachedEnds, PhaseInv, agent, record, TypeOK
<1>17. CASE Detach
  BY <1>17, StartFrame DEF Detach, PhaseInv, parent, agent, record, TypeOK
<1>18. CASE DetachedReturn
  BY <1>18 DEF DetachedReturn, PhaseInv, agent, record
<1>19. CASE DetachedToolEnd
  <2>1. SameOptions BY <1>19, LinkFacts DEF DetachedToolEnd
  <2> QED BY <1>19, <2>1 DEF DetachedToolEnd, PhaseInv, SameOptions, agent
<1>20. CASE Crash
  <2>1. SameOptions BY <1>20, SpendFacts DEF Crash
  <2> QED BY <1>20, <2>1, NoChildFacts DEF Crash, PhaseInv, SameOptions
<1>21. CASE UNCHANGED vars
  BY <1>21, StartFrame DEF PhaseInv, vars, parent, agent, record
<1> QED BY <1>1, <1>2, <1>3, <1>4, <1>5, <1>6, <1>7, <1>8, <1>9, <1>10, <1>11,
     <1>12, <1>13, <1>14, <1>15, <1>16, <1>17, <1>18, <1>19, <1>20, <1>21
     DEF Next, Events

\* The writer is let go at the end of the run or of the call, whichever
\* comes second.
LEMMA WriterStep ==
    ASSUME SubagentInv, [Next]_vars
    PROVE  WriterIsLetGo'
<1> USE DEF SubagentInv
<1>1. ASSUME NEW k \in Keys, HandOver(k)  PROVE WriterIsLetGo'
  BY <1>1, HandOverFacts DEF WriterIsLetGo, HandOver, record, SameOptions
<1>2. CASE LoadFresh \/ LoadRecord \/ LoadFails
  <2>1. SameOptions
    BY <1>2, SpendFacts DEF LoadFresh, LoadRecord, LoadFails, SameOptions, TypeOK
  <2> QED
    BY <1>2, <2>1 DEF LoadFresh, LoadRecord, LoadFails, PhaseInv, WriterIsLetGo,
                      record, SameOptions
<1>3. CASE Afresh \/ NewChild \/ LinkChild \/ StartRun
  <2>1. SameOptions
    BY <1>3, NewChildFacts, StartRunFacts, LinkFacts
    DEF Afresh, LinkChild, SameOptions, TypeOK
  <2> QED
    BY <1>3, <2>1 DEF Afresh, NewChild, LinkChild, StartRun, WriterIsLetGo, record,
                      SameOptions
<1>4. CASE Events
  <2>1. child'.run = "open" BY <1>4, EventFacts, RunsFacts
  <2>2. UNCHANGED kept /\ SameOptions BY <1>4, EventFacts DEF Recorded
  <2> QED BY <2>1, <2>2 DEF WriterIsLetGo, Reasons, SameOptions
<1>5. ASSUME NEW c \in Calls, Work(c)  PROVE WriterIsLetGo'
  BY <1>5 DEF Work, WriterIsLetGo, parent, record
<1>6. ASSUME NEW r \in Reasons, EndRun(r)  PROVE WriterIsLetGo'
  BY <1>6, EndRunFacts DEF WriterIsLetGo, DetachedRun, SameOptions
<1>7. CASE Release \/ Return \/ ToolEnd
  <2>1. CASE Release BY <2>1, ReleaseFacts DEF WriterIsLetGo, Again
  <2>2. CASE Return BY <2>2 DEF Return, WriterIsLetGo, record
  <2>3. CASE ToolEnd
    BY <2>3, ToolEndFacts DEF ToolEnd, WriterIsLetGo, SameOptions
  <2> QED BY <1>7, <2>1, <2>2, <2>3
<1>8. CASE AppendOutput
  BY <1>8 DEF AppendOutput, WriterIsLetGo, agent, record
<1>9. CASE DetachedEnds \/ Detach
  BY <1>9 DEF DetachedEnds, Detach, WriterIsLetGo, parent, agent, record
<1>10. CASE DetachedReturn
  BY <1>10 DEF DetachedReturn, WriterIsLetGo, PhaseInv, agent, record
<1>11. CASE DetachedToolEnd
  BY <1>11, LinkFacts
  DEF DetachedToolEnd, WriterIsLetGo, RunsOn, Reasons, agent, SameOptions
<1>12. CASE Crash BY <1>12 DEF Crash, WriterIsLetGo
<1>13. CASE UNCHANGED vars
  BY <1>13 DEF WriterIsLetGo, vars, parent, agent, record
<1> QED BY <1>1, <1>2, <1>3, <1>4, <1>5, <1>6, <1>7, <1>8, <1>9, <1>10, <1>11,
     <1>12, <1>13 DEF Next, Events

-----------------------------------------------------------------------------
(* Inputs.                                                                 *)

\* A record that is whole follows the child through an event, and none is
\* whole again.
LEMMA RecordedWhole ==
    ASSUME SubagentInv, Events, ~broken'
    PROVE  ~broken /\ stored' = child' /\ writer' /\ begun'
<1> USE DEF SubagentInv
<1>1. child.run = "open" /\ Recorded /\ child' \in ChildState /\ Grows
  BY EventFacts, RunsFacts
<1>2. ~broken BY <1>1 DEF Recorded
<1>3. writer /\ begun /\ stored = child BY <1>1, <1>2 DEF OnceInv
<1>4. Written(child') = child' BY <1>1, <1>3, WrittenWhole DEF Grows
<1> QED BY <1>1, <1>2, <1>3, <1>4 DEF Recorded, TypeOK

\* So it does at the run's end.
LEMMA EndedWhole ==
    ASSUME SubagentInv, NEW r \in Reasons, EndRun(r), ~broken'
    PROVE  ~broken /\ stored' = child' /\ writer /\ begun
<1> USE DEF SubagentInv
<1>1. child.run = "open" /\ OnlyRun(r) /\ UNCHANGED <<begun, broken>>
  BY EndRunFacts, RunsFacts
<1>2. writer /\ begun /\ stored = child BY <1>1 DEF OnceInv
<1>3. Written(child') = child' BY <1>1, <1>2, WrittenWhole DEF OnlyRun
<1> QED BY <1>1, <1>2, <1>3, EndRunFacts

\* And at the run's start.
LEMMA StartedWhole ==
    ASSUME SubagentInv, StartRun, ~broken'
    PROVE  ~broken /\ stored' = child' /\ writer' /\ begun'
<1> USE DEF SubagentInv
<1>1. /\ pc = "start" /\ begun' = TRUE /\ UNCHANGED <<writer, broken>>
      /\ child.run = "none" \/ stored = child => stored' = child'
  BY StartRunFacts
<1>2. child.run = "none" \/ stored = child BY <1>1 DEF OnceInv
<1> QED BY <1>1, <1>2 DEF PhaseInv

\* Every step keeps what is owed and what is queued together.
LEMMA InputStep ==
    ASSUME SubagentInv, [Next]_vars
    PROVE  InputInv'
<1> USE DEF SubagentInv
<1>1. ASSUME NEW k \in Keys, HandOver(k)  PROVE InputInv'
  BY <1>1, HandOverFacts
  DEF HandOver, InputInv, Live, SameOptions, record, history
<1>2. CASE LoadFresh \/ LoadFails
  <2>1. SameOptions
    BY <1>2, SpendFacts DEF LoadFresh, LoadFails, SameOptions, TypeOK
  <2> QED BY <1>2, <2>1
    DEF LoadFresh, LoadFails, InputInv, Live, SameOptions, agent, record, history
<1>3. CASE LoadRecord
  <2> DEFINE s == Closed(stored)
  <2>1. /\ ~broken => OwedOnce(child) /\ OwedOnce(stored)
        /\ ~budget'.detach /\ UNCHANGED broken
    BY <1>3, LoadRecordFacts DEF InputInv, PhaseInv, LoadRecord, history
  <2>2. /\ s \in ChildState /\ s.owed = stored.owed /\ s.taken = stored.taken
        /\ Restored(s).owed = stored.owed /\ Restored(s).taken = stored.taken
    BY ClosedFacts, RestoredFacts
  <2>3. ~broken => OwedOnce(s) /\ OwedOnce(Restored(s))
    BY <2>1, <2>2 DEF OwedOnce
  <2> HIDE DEF s
  <2>4. ~broken => OwedOnce(child') /\ OwedOnce(stored')
    BY <1>3, <2>1, <2>3, LoadRecordFacts DEF s
  <2>5. ASSUME pc' = "create"
        PROVE  \A i \in Inputs : i \in queue' <=> child'.owed[i] = 1
    <3>1. queue' = Owed(s) /\ child' = Restored(s)
      BY <1>3, <2>5, LoadRecordFacts DEF s
    <3>2. \A i \in Inputs : s.owed[i] \in {0, 1} BY <2>2 DEF ChildState
    <3> QED BY <2>2, <3>1, <3>2 DEF Owed
  <2>6. pc' \in {"output", "toolend", "create"} BY <1>3, LoadRecordFacts
  <2> QED BY <2>1, <2>4, <2>5, <2>6 DEF InputInv, Live
<1>4. CASE Afresh
  BY <1>4, AfreshFacts DEF Afresh, InputInv, OwedOnce, record, history
<1>5. CASE NewChild
  <2>1. /\ child'.owed = child.owed /\ child'.taken = child.taken
        /\ UNCHANGED <<queue, stored>> /\ pc = "create"
    BY <1>5, NewChildFacts DEF NewChild, TookUp
  <2>2. broken' = broken \/ broken' = TRUE BY <1>5, NewChildFacts
  <2>3. ~broken' => OwedOnce(child') /\ OwedOnce(stored')
    BY <2>1, <2>2 DEF InputInv, OwedOnce
  <2> QED BY <2>1, <2>3 DEF InputInv, Live
<1>6. CASE LinkChild
  <2>1. SameOptions BY <1>6, LinkFacts DEF LinkChild
  <2> QED BY <1>6, <2>1
    DEF LinkChild, InputInv, Live, SameOptions, agent, record, history
<1>7. CASE StartRun
  <2>1. child'.owed = child.owed /\ child'.taken = child.taken /\ UNCHANGED queue
        /\ pc = "start"
    BY <1>7, StartRunFacts DEF TookUp, StartRun
  <2>2. ~broken' => OwedOnce(child') /\ OwedOnce(stored')
    BY <1>7, <2>1, StartedWhole DEF InputInv, OwedOnce
  <2> QED BY <2>1, <2>2 DEF InputInv, Live
<1>8. CASE /\ Events /\ child'.owed = child.owed
           /\ child'.taken = child.taken /\ UNCHANGED <<queue, pc>>
  <2>1. ~broken' => OwedOnce(child') /\ OwedOnce(stored')
    BY <1>8, RecordedWhole DEF InputInv, OwedOnce
  <2> QED BY <1>8, <2>1, EventFacts DEF InputInv, Live, Recorded, SameOptions
<1>9. CASE CallModel
  BY <1>8, <1>9, CallModelFacts DEF OnlyCalls, CallModel, parent, Events
<1>10. CASE Take
  <2>1. OwedOnce(child') BY <1>10, TakeFacts DEF OwedOnce
  <2>2. ~broken' => OwedOnce(stored')
    BY <1>10, <2>1, RecordedWhole DEF Events
  <2> QED BY <1>10, <2>1, <2>2, TakeFacts DEF InputInv
<1>11. ASSUME NEW c \in Calls, Dispatch(c)  PROVE InputInv'
  BY <1>8, <1>11, DispatchFacts DEF OnlyCalls, Dispatch, parent, Events
<1>12. ASSUME NEW c \in Calls, Output(c)  PROVE InputInv'
  BY <1>8, <1>12, OutputFacts DEF OnlyCalls, Output, parent, Events
<1>13. ASSUME NEW c \in Calls, NEW v \in Verdicts, Decide(c, v)  PROVE InputInv'
  BY <1>8, <1>13, DecideFacts DEF OnlyCalls, Decide, parent, Events
<1>14. ASSUME NEW i \in Inputs, Queue(i)  PROVE InputInv'
  <2>1. child \in ChildState /\ Live
    BY <1>14, QueueFacts DEF TypeOK, Runs, Live
  <2>2. ~broken => OwedOnce(child')
    BY <1>14, <2>1, QueueFacts DEF OwedOnce, InputInv, ChildState
  <2>3. ~broken' => OwedOnce(child') /\ OwedOnce(stored')
    BY <1>14, <2>2, RecordedWhole DEF Events
  <2>4. \A j \in Inputs : j \in queue' <=> child'.owed[j] = 1
    BY ZenonT(60), <1>14, <2>1, QueueFacts DEF InputInv, ChildState
  <2> QED BY <2>3, <2>4 DEF InputInv
<1>15. ASSUME NEW c \in Calls, Work(c)  PROVE InputInv'
  BY <1>15 DEF Work, InputInv, Live, parent, record, history
<1>16. ASSUME NEW r \in Reasons, EndRun(r)  PROVE InputInv'
  <2>1. child'.owed = child.owed /\ child'.taken = child.taken /\ UNCHANGED queue
    BY <1>16, EndRunFacts DEF OnlyRun, EndRun
  <2>2. ~broken' => OwedOnce(child') /\ OwedOnce(stored')
    BY <1>16, <2>1, EndedWhole DEF InputInv, OwedOnce
  <2>3. Live BY <1>16, EndRunFacts, RunsFacts DEF Live
  <2> QED BY <2>1, <2>2, <2>3 DEF InputInv
<1>17. CASE Release BY <1>17, ReleaseFacts DEF InputInv, Live, OwedOnce
<1>18. CASE Return
  BY <1>18 DEF Return, InputInv, Live, agent, record, history
<1>19. CASE ToolEnd
  <2>1. ~budget'.detach /\ UNCHANGED <<child, broken>> /\ pc = "toolend"
    BY <1>19, ToolEndFacts DEF SameOptions, ToolEnd, agent, history
  <2>2. ~broken => UNCHANGED stored
    BY <1>19, <2>1, ToolEndFacts DEF OnceInv
  <2> QED BY <1>19, <2>1, <2>2, ToolEndFacts DEF InputInv, Live
<1>20. CASE AppendOutput \/ DetachedEnds \/ Detach \/ DetachedReturn
  BY <1>20 DEF AppendOutput, DetachedEnds, Detach, DetachedReturn, InputInv,
               Live, parent, agent, record, history
<1>21. CASE DetachedToolEnd
  BY <1>21 DEF DetachedToolEnd, InputInv, Live, agent, history
<1>22. CASE Crash
  <2>1. ~budget'.detach BY <1>22, SpendFacts DEF Crash, SameOptions
  <2> QED
    BY <1>22, <2>1, NoChildFacts DEF Crash, InputInv, Live, OwedOnce, history
<1>23. CASE UNCHANGED vars
  BY <1>23 DEF InputInv, Live, vars, parent, agent, record, history
<1> QED BY <1>1, <1>2, <1>3, <1>4, <1>5, <1>6, <1>7, <1>9, <1>10, <1>11, <1>12,
     <1>13, <1>14, <1>15, <1>16, <1>17, <1>18, <1>19, <1>20, <1>21, <1>22,
     <1>23 DEF Next

-----------------------------------------------------------------------------
(* Held calls.                                                             *)

\* An event of the child that leaves the verdicts, and lets a call go on only
\* where none is left to decide.
LEMMA HeldEvent ==
    ASSUME SubagentInv, Runs, UNCHANGED verdict,
           \A c \in Calls :
              /\ child'.calls[c] \in {"ready", "dispatched"} =>
                    child.calls[c] \in {"ready", "dispatched"}
              /\ child'.calls[c] = "open" => child.calls[c] = "open"
    PROVE  HeldInv'
<1> USE DEF SubagentInv
<1>1. Released(child.calls)' BY DEF HeldInv, Released, Accepted
<1>2. child.run = "open" BY RunsFacts
<1>3. ASSUME NEW c \in Calls, verdict'[c] = "held",
             child'.calls[c] \in {"ready", "dispatched"}, NEW d \in Calls
      PROVE  child'.calls[d] # "open"
  <2>1. ~Has({"open"}) BY <1>2, <1>3 DEF HeldInv, In
  <2> QED BY <2>1 DEF Has, In
<1> QED BY <1>1, <1>3 DEF HeldInv, Has, In

\* Where nothing has a verdict, nothing was released.
LEMMA HeldAnew ==
    ASSUME \A c \in Calls : verdict'[c] = "none"
    PROVE  HeldInv'
  BY DEF HeldInv, Released, In

\* A step that leaves the child and the verdicts.
LEMMA HeldFrame ==
    ASSUME HeldInv, UNCHANGED <<child, verdict>>
    PROVE  HeldInv'
  BY DEF HeldInv, Released, Accepted, In, Has

\* A verdict is given on a call while one was still open: no held call has
\* gone on yet.
LEMMA HeldDecide ==
    ASSUME SubagentInv, NEW c \in Calls, NEW v \in Verdicts, Decide(c, v)
    PROVE  HeldInv'
<1> USE DEF SubagentInv
<1>1. child.run = "open" BY DecideFacts, RunsFacts
<1>2. Has({"open"}) /\ In(c, {"open"}) BY DecideFacts DEF Has, In
<1>3. \A d \in Calls \ {c} : verdict'[d] = verdict[d]
  BY DecideFacts DEF TypeOK
<1>4. verdict'[c] = v BY DecideFacts DEF TypeOK
<1>5. \A d \in Calls : ~(verdict'[d] = "held"
                         /\ child'.calls[d] \in {"ready", "dispatched"})
  <2>1. \A d \in Calls \ {c} : ~(verdict[d] = "held"
                                 /\ In(d, {"ready", "dispatched"}))
    BY <1>1, <1>2 DEF HeldInv
  <2> QED BY <1>3, <1>4, <2>1, DecideFacts DEF In
<1> QED BY <1>5 DEF HeldInv, Released, In

\* A run starts: the first of a call with nothing held, one of the release
\* loop with the calls that were held, and nothing left to decide.
LEMMA HeldStart ==
    ASSUME SubagentInv, pc \in {"create", "link", "start"}, TookUp, UNCHANGED verdict
    PROVE  HeldInv'
<1> USE DEF SubagentInv
<1>1. CASE First BY <1>1, HeldAnew DEF First
<1>2. CASE Again
  <2>1. ReleaseAs \in {"ready", "done"} BY DEF ReleaseAs
  <2>2. \A d \in Calls : child'.calls[d] # "open"
    BY <1>2, <2>1 DEF Again, TookUp, Settled, Has, In
  <2>3. ASSUME NEW d \in Calls, verdict[d] = "held",
               child'.calls[d] \in {"ready", "dispatched"}
        PROVE  Accepted
    <3>1. CASE In(d, {"held"})
      <4>1. child'.calls[d] = ReleaseAs BY <3>1 DEF TookUp
      <4>2. \A e \in Calls : verdict[e] # "declined"
        BY <2>3, <4>1 DEF ReleaseAs
      <4> QED BY <1>2, <4>2 DEF Again, Releases, Accepted
    <3>2. CASE ~In(d, {"held"})
      BY <2>3, <3>2 DEF TookUp, HeldInv, Released
    <3> QED BY <3>1, <3>2
  <2>4. Released(child.calls)' BY <2>3 DEF Released, Accepted
  <2> QED BY <2>2, <2>4 DEF HeldInv, Has, In
<1> QED BY <1>1, <1>2 DEF PhaseInv

\* Every step keeps the held calls to what was accepted.
LEMMA HeldStep ==
    ASSUME SubagentInv, [Next]_vars
    PROVE  HeldInv'
<1> USE DEF SubagentInv
<1>1. ASSUME NEW k \in Keys, HandOver(k)  PROVE HeldInv'
  BY <1>1, HandOverFacts, HeldAnew
<1>2. CASE LoadFresh \/ LoadFails \/ LinkChild \/ Release \/ Return \/ ToolEnd
           \/ AppendOutput \/ DetachedEnds \/ Detach \/ DetachedReturn
           \/ DetachedToolEnd
  BY <1>2, HeldFrame
  DEF LoadFresh, LoadFails, LinkChild, Release, Return, ToolEnd, AppendOutput,
      DetachedEnds, Detach, DetachedReturn, DetachedToolEnd, agent
<1>3. CASE LoadRecord \/ Afresh
  <2>1. UNCHANGED verdict /\ pc \in {"load", "fresh"}
    BY <1>3 DEF LoadRecord, Afresh
  <2> QED BY <2>1, HeldAnew DEF PhaseInv
<1>4. CASE NewChild
  <2>1. CASE TookUp BY <1>4, <2>1, NewChildFacts, HeldStart
  <2>2. CASE UNCHANGED child BY <1>4, <2>2, NewChildFacts, HeldFrame
  <2> QED BY <1>4, <2>1, <2>2, NewChildFacts
<1>5. CASE StartRun BY <1>5, StartRunFacts, HeldStart
<1>6. CASE CallModel
  <2>1. CASE UNCHANGED verdict /\ child'.calls = child.calls
    BY <1>6, <2>1, CallModelFacts, HeldEvent
  <2>2. CASE verdict' = [c \in Calls |-> "none"] BY <2>2, HeldAnew
  <2> QED BY <1>6, <2>1, <2>2, CallModelFacts
<1>7. CASE Take BY <1>7, TakeFacts, HeldEvent DEF Take, OnlyInputs
<1>8. ASSUME NEW c \in Calls, Dispatch(c)  PROVE HeldInv'
  BY <1>8, DispatchFacts, HeldEvent DEF Dispatch
<1>9. ASSUME NEW c \in Calls, Work(c)  PROVE HeldInv'
  BY <1>9, HeldFrame DEF Work
<1>10. ASSUME NEW c \in Calls, Output(c)  PROVE HeldInv'
  BY <1>10, OutputFacts, HeldEvent DEF Output
<1>11. ASSUME NEW c \in Calls, NEW v \in Verdicts, Decide(c, v)  PROVE HeldInv'
  BY <1>11, HeldDecide
<1>12. ASSUME NEW i \in Inputs, Queue(i)  PROVE HeldInv'
  BY <1>12, QueueFacts, HeldEvent DEF Queue, OnlyInputs
<1>13. ASSUME NEW r \in Reasons, EndRun(r)  PROVE HeldInv'
  BY <1>13, EndRunFacts, HeldEvent DEF EndRun, OnlyRun
<1>14. CASE Crash BY <1>14, HeldAnew DEF Crash
<1>15. CASE UNCHANGED vars BY <1>15, HeldFrame DEF vars, agent
<1> QED BY <1>1, <1>2, <1>3, <1>4, <1>5, <1>6, <1>7, <1>8, <1>9, <1>10, <1>11,
     <1>12, <1>13, <1>14, <1>15 DEF Next

-----------------------------------------------------------------------------
(* The hand-offs in the parent's log.                                      *)

\* The entries a hand-off counts are among those of the log.
LEMMA ThoseFinite ==
    ASSUME NEW log \in Seq(LogEntry), NEW k, NEW e
    PROVE  /\ IsFiniteSet(Those(log, k, e)) /\ Those(log, k, e) \subseteq 1 .. Len(log)
           /\ Cardinality(Those(log, k, e)) \in Nat
<1>1. Len(log) \in Nat /\ DOMAIN log = 1 .. Len(log) OBVIOUS
<1>2. Those(log, k, e) \subseteq 1 .. Len(log) BY <1>1 DEF Those, Since
<1>3. IsFiniteSet(1 .. Len(log)) BY <1>1, FS_Interval
<1>4. IsFiniteSet(Those(log, k, e)) BY <1>2, <1>3, FS_Subset
<1> QED BY <1>2, <1>4, FS_CardinalityType

\* An entry that ends nothing is added to those since the last hand-off
\* under another key.
LEMMA SinceAppend ==
    ASSUME NEW log \in Seq(LogEntry), NEW e \in LogEntry, NEW k, ~Resets(e, k)
    PROVE  Since(Append(log, e), k) = Since(log, k) \cup {Len(log) + 1}
<1> DEFINE new == Append(log, e)  n == Len(log)
<1>1. /\ n \in Nat /\ DOMAIN log = 1 .. n /\ DOMAIN new = 1 .. n + 1
      /\ Len(new) = n + 1 /\ new[n + 1] = e /\ \A i \in 1 .. n : new[i] = log[i]
  OBVIOUS
<1> HIDE DEF new, n
<1>2. n + 1 \in Since(new, k) BY <1>1 DEF Since
<1>3. ASSUME NEW i \in 1 .. n  PROVE i \in Since(new, k) <=> i \in Since(log, k)
  <2>1. \A j \in i .. n : j \in 1 .. n /\ j \in i .. n + 1 BY <1>1
  <2>2. \A j \in i .. n + 1 : j \in i .. n \/ j = n + 1 BY <1>1
  <2> QED BY <1>1, <2>1, <2>2 DEF Since, n
<1>4. Since(log, k) \subseteq 1 .. n /\ Since(new, k) \subseteq 1 .. n + 1
  BY <1>1 DEF Since
<1>5. 1 .. n + 1 = (1 .. n) \cup {n + 1} BY <1>1
<1>6. Since(new, k) = Since(log, k) \cup {n + 1}
  BY <1>2, <1>3, <1>4, <1>5
<1> QED BY <1>6 DEF new, n

\* So the count of an entry grows by one when it is added.
LEMMA ThoseAppend ==
    ASSUME NEW log \in Seq(LogEntry), NEW e \in LogEntry, NEW k, NEW f,
           ~Resets(e, k)
    PROVE  Cardinality(Those(Append(log, e), k, f)) =
              Cardinality(Those(log, k, f)) + (IF e = f THEN 1 ELSE 0)
<1> DEFINE new == Append(log, e)  n == Len(log)
<1>1. /\ n \in Nat /\ new[n + 1] = e /\ \A i \in 1 .. n : new[i] = log[i]
      /\ DOMAIN log = 1 .. n
  OBVIOUS
<1>2. Since(new, k) = Since(log, k) \cup {n + 1} BY SinceAppend
<1>3. Since(log, k) \subseteq 1 .. n BY <1>1 DEF Since
<1> HIDE DEF new, n
<1>4. Those(new, k, f) = Those(log, k, f) \cup (IF e = f THEN {n + 1} ELSE {})
  BY <1>1, <1>2, <1>3 DEF Those
<1>5. n + 1 \notin Those(log, k, f) BY <1>1, <1>3 DEF Those
<1>6. IsFiniteSet(Those(log, k, f)) /\ Cardinality(Those(log, k, f)) \in Nat
  BY ThoseFinite
<1>7. CASE e = f
  <2>1. Cardinality(Those(log, k, f) \cup {n + 1}) = Cardinality(Those(log, k, f)) + 1
    BY <1>5, <1>6, FS_AddElement
  <2> QED BY <1>4, <1>7, <2>1 DEF new
<1>8. CASE e # f BY <1>4, <1>6, <1>8 DEF new
<1> QED BY <1>7, <1>8

\* What each entry does to the number of hand-offs under a key.
LEMMA HandOffsAppend ==
    ASSUME NEW log \in Seq(LogEntry), NEW k \in Keys \cup {None},
           HandOffs(log, k) \in Nat
    PROVE  /\ HandOffs(Append(log, Entry("dispatch", k)), k) = HandOffs(log, k) + 1
           /\ HandOffs(Append(log, Entry("withdraw", k)), k) = HandOffs(log, k) - 1
           /\ HandOffs(Append(log, Entry("link", None)), k) = HandOffs(log, k)
<1> DEFINE D == Entry("dispatch", k)  W == Entry("withdraw", k)
           L == Entry("link", None)
<1>1. D \in LogEntry /\ W \in LogEntry /\ L \in LogEntry BY EntryType
<1>2. D # W /\ D # L /\ W # L BY EntryType
<1>3. ~Resets(D, k) /\ ~Resets(W, k) /\ ~Resets(L, k)
  BY EntryType DEF Resets
<1> HIDE DEF D, W, L
<1> DEFINE d == Cardinality(Those(log, k, D))  w == Cardinality(Those(log, k, W))
<1>4. d \in Nat /\ w \in Nat /\ HandOffs(log, k) = d - w
  BY ThoseFinite DEF HandOffs, D, W
<1>5. ASSUME NEW e \in LogEntry, ~Resets(e, k)
      PROVE  HandOffs(Append(log, e), k) =
                (d + (IF e = D THEN 1 ELSE 0)) - (w + (IF e = W THEN 1 ELSE 0))
  BY <1>5, ThoseAppend DEF HandOffs, D, W
<1> HIDE DEF d, w
<1>6. HandOffs(Append(log, D), k) = HandOffs(log, k) + 1
  BY <1>1, <1>2, <1>3, <1>4, <1>5
<1>7. HandOffs(Append(log, W), k) = HandOffs(log, k) - 1
  BY <1>1, <1>2, <1>3, <1>4, <1>5
<1>8. HandOffs(Append(log, L), k) = HandOffs(log, k)
  BY <1>1, <1>2, <1>3, <1>4, <1>5
<1> QED BY <1>6, <1>7, <1>8 DEF D, W, L

\* A key that no entry has was handed over under never.
LEMMA NoHandOffs ==
    ASSUME NEW log \in Seq(LogEntry), NEW k \in Keys \cup {None},
           \A i \in DOMAIN log :
              log[i].kind \in {"dispatch", "withdraw"} => log[i].key # k
    PROVE  HandOffs(log, k) = 0
<1>1. Those(log, k, Entry("dispatch", k)) = {}
  BY EntryType DEF Those, Since
<1>2. Those(log, k, Entry("withdraw", k)) = {}
  BY EntryType DEF Those, Since
<1> DEFINE d == Cardinality(Those(log, k, Entry("dispatch", k)))
           w == Cardinality(Those(log, k, Entry("withdraw", k)))
<1>3. d = 0 /\ w = 0 BY <1>1, <1>2, FS_EmptySet
<1>4. HandOffs(log, k) = d - w BY DEF HandOffs
<1> HIDE DEF d, w
<1> QED BY <1>3, <1>4

\* Where neither the log nor the key changes, and no tool runs that was not
\* handed over.
LEMMA LogFrame ==
    ASSUME SubagentInv, UNCHANGED <<plog, key, ran>>,
           pc' = "answered" <=> pc = "answered", pc' # "pending" => pc # "pending",
           child'.op <= key, stored'.op <= key
    PROVE  LogInv'
<1>1. \A k \in Keys : Ran(k)' <=> Ran(k) BY DEF Ran
<1>2. HandedOver' = HandedOver BY DEF HandedOver
<1> QED BY <1>1, <1>2 DEF SubagentInv, LogInv

\* A link leaves the hand-offs as they are.
LEMMA LogLink ==
    ASSUME SubagentInv, Link, UNCHANGED <<key, ran>>, pc \notin {"pending", "answered"},
           pc' # "answered", child'.op <= key, stored'.op <= key
    PROVE  LogInv' /\ HandedOver' = HandedOver
<1> USE DEF SubagentInv
<1> DEFINE L == Entry("link", None)
<1>1. /\ plog \in Seq(LogEntry) /\ L \in LogEntry /\ L.kind = "link"
      /\ key \in Keys \cup {None}
  BY EntryType DEF TypeOK
<1>2. HandedOver \in Nat /\ HandedOver >= 1 BY DEF LogInv
<1>3. HandOffs(Append(plog, L), key) = HandOffs(plog, key)
  BY <1>1, <1>2, HandOffsAppend DEF HandedOver
<1> HIDE DEF L
<1>4. plog' = plog \/ plog' = Append(plog, L) BY LinkFacts DEF L
<1>5. HandedOver' = HandedOver BY <1>3, <1>4 DEF HandedOver
<1>6. \A i \in DOMAIN plog' : plog'[i].kind = "link" \/
         (i \in DOMAIN plog /\ plog'[i] = plog[i])
  BY <1>1, <1>4
<1>7. \A k \in Keys : Ran(k)' <=> Ran(k) BY DEF Ran
<1> QED BY <1>2, <1>5, <1>6, <1>7 DEF LogInv

\* A hand-off under the same key counts as one more, and the first under a
\* key as one; one that is withdrawn does not count.
LEMMA HandOverCounts ==
    ASSUME SubagentInv, NEW k \in Keys, HandOver(k)
    PROVE  /\ pc' # "pending" =>
                 HandedOver' = IF k = key THEN HandedOver + 1 ELSE 1
           /\ pc' = "pending" => HandedOver' = IF k = key THEN HandedOver ELSE 0
           /\ HandedOver \in Nat
           /\ key \in Nat /\ k \in Nat \ {0} /\ key <= k
<1> USE DEF SubagentInv
<1> DEFINE D == Entry("dispatch", k)  W == Entry("withdraw", k)
<1>1. /\ plog \in Seq(LogEntry) /\ D \in LogEntry /\ W \in LogEntry
      /\ key \in Keys \cup {None} /\ key' = k /\ pc = "pending"
  BY EntryType, HandOverFacts DEF TypeOK
<1>2. key \in Nat /\ k \in Nat \ {0} /\ key <= k
  BY <1>1, HandOverFacts, SubagentAssumption DEF None
<1>3. HandedOver \in Nat BY <1>1 DEF LogInv
<1>4. HandOffs(plog, k) = IF k = key THEN HandedOver ELSE 0
  <2>1. CASE k = key BY <2>1 DEF HandedOver
  <2>2. CASE k # key
    <3>1. \A i \in DOMAIN plog :
             plog[i].kind \in {"dispatch", "withdraw"} => plog[i].key # k
      <4>1. \A i \in DOMAIN plog : plog[i] \in LogEntry BY <1>1
      <4>2. \A i \in DOMAIN plog : plog[i].key \in Nat
        <5>1. Keys \cup {None} \subseteq Nat
          BY SubagentAssumption DEF None
        <5> QED BY <4>1, <5>1 DEF LogEntry
      <4> QED BY <1>2, <2>2, <4>2 DEF LogInv
    <3> QED BY <1>1, <2>2, <3>1, NoHandOffs
  <2> QED BY <2>1, <2>2
<1>5. HandOffs(Append(plog, D), k) = HandOffs(plog, k) + 1
  BY <1>1, <1>3, <1>4, HandOffsAppend
<1>6. HandOffs(Append(Append(plog, D), W), k) = HandOffs(plog, k)
  <2>1. Append(plog, D) \in Seq(LogEntry) /\ HandOffs(plog, k) + 1 \in Nat
    BY <1>1, <1>3, <1>4
  <2>2. HandOffs(Append(Append(plog, D), W), k) = HandOffs(Append(plog, D), k) - 1
    BY <1>5, <2>1, HandOffsAppend
  <2> QED BY <1>3, <1>4, <1>5, <2>2
<1>7. HandedOver' = HandOffs(plog', k) BY <1>1 DEF HandedOver
<1> HIDE DEF D, W
<1>8. \/ pc' # "pending" /\ plog' = Append(plog, D)
      \/ pc' = "pending" /\ plog' = Append(Append(plog, D), W)
  BY HandOverFacts DEF D, W
<1>9. CASE pc' # "pending"
  <2>1. HandedOver' = HandOffs(plog, k) + 1 BY <1>5, <1>7, <1>8, <1>9
  <2> QED BY <1>2, <1>3, <1>4, <1>9, <2>1
<1>10. CASE pc' = "pending"
  <2>1. HandedOver' = HandOffs(plog, k) BY <1>6, <1>7, <1>8, <1>10
  <2> QED BY <1>2, <1>3, <1>4, <1>10, <2>1
<1> QED BY <1>9, <1>10

\* Every step keeps the log in step with the call.
LEMMA LogStep ==
    ASSUME SubagentInv, [Next]_vars
    PROVE  LogInv'
<1> USE DEF SubagentInv
<1>a. child.op <= key /\ stored.op <= key BY DEF LogInv
<1>1. ASSUME NEW k \in Keys, HandOver(k)  PROVE LogInv'
  <2> DEFINE D == Entry("dispatch", k)  W == Entry("withdraw", k)
  <2>1. /\ plog \in Seq(LogEntry) /\ D \in LogEntry /\ W \in LogEntry
        /\ D.key = k /\ W.key = k /\ D.kind = "dispatch" /\ W.kind = "withdraw"
        /\ key' = k /\ pc' \in {"pending", "load", "fresh"} /\ pc = "pending"
    BY <1>1, EntryType, HandOverFacts DEF TypeOK
  <2>2. plog' = Append(plog, D) \/ plog' = Append(Append(plog, D), W)
    BY <1>1, HandOverFacts
  <2>3. key \in Nat /\ k \in Nat \ {0} /\ key <= k
    BY <1>1, HandOverCounts
  <2>4. Keys \cup {None} \subseteq Nat BY SubagentAssumption DEF None
  <2> HIDE DEF D, W
  <2>5. ASSUME NEW i \in DOMAIN plog'
        PROVE  plog'[i] = D \/ plog'[i] = W \/ (i \in DOMAIN plog /\ plog'[i] = plog[i])
    BY <2>1, <2>2
  <2>6. ASSUME NEW i \in DOMAIN plog'
        PROVE  /\ plog'[i].kind \in {"dispatch", "withdraw"} =>
                     plog'[i].key # None /\ plog'[i].key <= k
               /\ plog'[i].kind # "output"
    <3>1. CASE plog'[i] = D \/ plog'[i] = W BY <2>1, <2>3, <3>1 DEF None
    <3>2. CASE i \in DOMAIN plog /\ plog'[i] = plog[i]
      <4>1. plog[i] \in LogEntry BY <2>1, <3>2
      <4>2. plog[i].key \in Nat BY <2>4, <4>1 DEF LogEntry
      <4> QED BY <2>1, <2>3, <3>2, <4>2 DEF LogInv
    <3> QED BY <2>5, <3>1, <3>2
  <2>7. \A j \in Keys : Ran(j)' => j <= k
    <3>1. \A j \in Keys : Ran(j)' <=> Ran(j)
      BY <1>1 DEF Ran, HandOver, history
    <3> QED BY <2>3, <2>4, <3>1 DEF LogInv
  <2>8. child'.op <= k /\ stored'.op <= k
    <3>1. UNCHANGED <<child, stored>> BY <1>1 DEF HandOver, record
    <3>2. child.op \in Nat /\ stored.op \in Nat
      BY <2>4 DEF TypeOK, ChildState
    <3> QED BY <1>a, <2>3, <3>1, <3>2
  <2>9. HandedOver' \in Nat /\ (pc' # "pending" => HandedOver' >= 1)
    BY <1>1, HandOverCounts
  <2> QED BY <2>1, <2>6, <2>7, <2>8, <2>9 DEF LogInv
<1>2. CASE LoadFresh \/ LoadFails
  BY <1>2, <1>a, LogFrame DEF LoadFresh, LoadFails, agent, record, history
<1>3. CASE LoadRecord
  <2>1. /\ Closed(stored) \in ChildState /\ Closed(stored).op = stored.op
        /\ Restored(Closed(stored)).op = stored.op
    BY ClosedFacts, RestoredFacts
  <2>2. child'.op <= key /\ stored'.op <= key
    BY <1>3, <1>a, <2>1, LoadRecordFacts
  <2> QED BY <1>3, <2>2, LogFrame, LoadRecordFacts DEF LoadRecord, history
<1>4. CASE Afresh
  <2>1. key \in Nat /\ child'.op = key
    BY <1>4, AfreshFacts, SubagentAssumption
  <2> QED BY <1>4, <1>a, <2>1, LogFrame DEF Afresh, record, history
<1>5. CASE NewChild
  BY <1>5, <1>a, LogFrame, NewChildFacts DEF NewChild, TookUp
<1>6. CASE LinkChild
  BY <1>6, <1>a, LogLink DEF LinkChild, agent, record, history
<1>7. CASE StartRun
  BY <1>7, <1>a, LogFrame, StartRunFacts DEF StartRun, TookUp
<1>8. CASE Events
  <2>1. child'.op = child.op /\ UNCHANGED <<plog, key, ran, pc>>
        /\ stored'.op \in {stored.op, child.op}
    BY <1>8, EventFacts, WrittenType DEF Recorded
  <2> QED BY <1>a, <2>1, LogFrame
<1>9. ASSUME NEW c \in Calls, Work(c)  PROVE LogInv'
  <2>1. UNCHANGED <<plog, key, pc, child, stored>>
    BY <1>9 DEF Work, parent, record
  <2>2. ASSUME NEW k \in Keys, Ran(k)'  PROVE k <= key
    <3>1. CASE k = child.op BY <1>a, <3>1
    <3>2. CASE k # child.op
      <4>1. Ran(k)
        BY <1>9, <2>2, <3>2, WorkFacts, SubagentAssumption DEF Ran
      <4> QED BY <4>1 DEF LogInv
    <3> QED BY <3>1, <3>2
  <2>3. HandedOver' = HandedOver BY <2>1 DEF HandedOver
  <2> QED BY <2>1, <2>2, <2>3 DEF LogInv
<1>10. ASSUME NEW r \in Reasons, EndRun(r)  PROVE LogInv'
  <2>1. child'.op = child.op /\ UNCHANGED <<plog, key, ran>>
        /\ stored'.op \in {stored.op, child.op}
    BY <1>10, EndRunFacts, WrittenType DEF OnlyRun, EndRun
  <2>2. pc # "pending" /\ (pc' = "answered" <=> pc = "answered")
    BY <1>10, EndRunFacts, RunsFacts
  <2> QED BY <1>a, <2>1, <2>2, LogFrame
<1>11. CASE Release BY <1>11, <1>a, ReleaseFacts, LogFrame
<1>12. CASE Return
  BY <1>12, <1>a, LogFrame DEF Return, agent, record, history
<1>13. CASE ToolEnd
  <2>1. UNCHANGED <<key, ran, child>> /\ stored'.op <= key
    BY <1>13, <1>a, ToolEndFacts DEF ToolEnd, agent, history
  <2> QED BY <1>13, <1>a, <2>1, LogLink, ToolEndFacts
<1>14. CASE AppendOutput
  <2> DEFINE O == Entry("output", None)
  <2>1. /\ plog \in Seq(LogEntry) /\ O \in LogEntry /\ O.kind = "output"
        /\ plog' = Append(plog, O) /\ pc' = "answered"
        /\ UNCHANGED <<key, ran, child, stored>>
    BY <1>14, EntryType DEF TypeOK, AppendOutput, agent, record, history
  <2> HIDE DEF O
  <2>2. \A i \in DOMAIN plog' : plog'[i].kind = "output" \/
           (i \in DOMAIN plog /\ plog'[i] = plog[i])
    BY <2>1
  <2>3. \A k \in Keys : Ran(k)' <=> Ran(k) BY <2>1 DEF Ran
  <2> QED BY <1>a, <2>1, <2>2, <2>3 DEF LogInv
<1>15. CASE DetachedEnds \/ Detach \/ DetachedReturn
  <2>1. UNCHANGED <<plog, key, ran, child, stored>>
    BY <1>15
    DEF DetachedEnds, Detach, DetachedReturn, parent, agent, record, history
  <2>2. /\ pc' = "answered" <=> pc = "answered"
        /\ pc' # "pending" => pc # "pending"
    BY <1>15 DEF DetachedEnds, Detach, DetachedReturn, parent
  <2> QED BY <1>a, <2>1, <2>2, LogFrame
<1>16. CASE DetachedToolEnd
  BY <1>16, <1>a, LogLink DEF DetachedToolEnd, agent, history
<1>17. CASE Crash
  <2>1. child'.op <= key
    <3>1. key \in Nat BY SubagentAssumption DEF TypeOK, None
    <3> QED BY <1>17, <3>1, NoChildFacts DEF Crash, None
  <2> QED BY <1>17, <1>a, <2>1, LogFrame DEF Crash, history
<1>18. CASE UNCHANGED vars
  BY <1>18, <1>a, LogFrame DEF vars, parent, agent, record, history
<1> QED BY <1>1, <1>2, <1>3, <1>4, <1>5, <1>6, <1>7, <1>8, <1>9, <1>10, <1>11,
     <1>12, <1>13, <1>14, <1>15, <1>16, <1>17, <1>18 DEF Next, Events

-----------------------------------------------------------------------------
(* What may not repeat.                                                    *)

\* A step of the call that leaves the child, its record and its tools alone.
LEMMA OnceFrame ==
    ASSUME SubagentInv, UNCHANGED <<child, stored, ran, worked, begun, key, broken>>,
           budget'.detach = budget.detach,
           writer' = writer \/ (child.run # "open" /\ pc' \notin {"run", "ended"}),
           pc' \in {"create", "link", "start"} => pc \in {"create", "link", "start"},
           pc' \in {"run", "ended"} => pc \in {"run", "ended"},
           pc' = "toolend" => pc \in {"toolend", "ended"} \/ budget.detach,
           pc' = "fresh" /\ ~broken => ~Ran(key),
           pc' = "pending" /\ ~broken /\ key # None /\ Ran(key) => HandedOver' >= 1,
           pc' = "load" => pc = "load" /\ HandedOver' = HandedOver
    PROVE  OnceInv'
<1>1. \A k : Ran(k)' <=> Ran(k) BY DEF Ran
<1>2. \A S : /\ NotRunYet(child, S)' <=> NotRunYet(child, S)
             /\ NotRunYet(stored, S)' <=> NotRunYet(stored, S)
  BY DEF NotRunYet
<1>3. \A c : In(c, {"dispatched"})' <=> In(c, {"dispatched"}) BY DEF In
<1> QED BY <1>1, <1>2, <1>3 DEF SubagentInv, OnceInv

\* What a run may do to its calls: one that has not run comes from one that
\* has not, and the record is that of the child.
LEMMA OnceRun ==
    ASSUME SubagentInv, UNCHANGED <<ran, worked>>, ~broken' => ~broken,
           child'.op = child.op, child.run = "open" \/ pc \in {"run", "ended"},
           child'.run # "none",
           \A c \in Never :
              /\ child'.calls[c] \in Undone => child.calls[c] \in Undone
              /\ child'.calls[c] = "dispatched" =>
                    child.calls[c] \in {"ready", "dispatched"},
           ~broken' => stored' = child',
           ~broken' => \/ writer' /\ begun'
                       \/ child'.run # "open" /\ pc' \notin {"run", "ended"},
           pc' \in {"run", "ended", "output", "answered"}
              \/ (budget'.detach /\ pc' = "toolend")
    PROVE  OnceInv'
<1> SUFFICES ASSUME ~broken'  PROVE OnceInv'
  BY DEF OnceInv
<1> USE DEF SubagentInv
<1>1. /\ NotRunYet(child, Undone)
      /\ \A c \in Never : In(c, {"dispatched"}) /\ c \notin worked =>
            ran[child.op][c] = 0
  BY DEF OnceInv
<1>2. child'.op \in Keys
      /\ \A c \in Never : child'.calls[c] \in Undone => ran'[child'.op][c] = 0
  BY <1>1 DEF NotRunYet
<1>3. NotRunYet(child, Undone)' /\ NotRunYet(stored, Undone)'
  BY <1>2 DEF NotRunYet
<1>4. \A c \in Never : In(c, {"dispatched"})' /\ c \notin worked' =>
            ran'[child'.op][c] = 0
  BY <1>1 DEF NotRunYet, Undone, In
<1>5. \A k \in Keys, c \in Never : ran'[k][c] <= 1 BY DEF OnceInv
<1>6. stored'.run # "none" OBVIOUS
<1> QED BY <1>3, <1>4, <1>5, <1>6 DEF OnceInv

\* An event of the child.
LEMMA OnceEvent ==
    ASSUME SubagentInv, Events, UNCHANGED worked,
           \A c \in Never :
              /\ child'.calls[c] \in Undone => child.calls[c] \in Undone
              /\ child'.calls[c] = "dispatched" =>
                    child.calls[c] \in {"ready", "dispatched"}
    PROVE  OnceInv'
<1> USE DEF SubagentInv
<1>1. /\ child.run = "open" /\ child'.run = "open" /\ child'.op = child.op
      /\ UNCHANGED <<ran, pc>>
      /\ pc = "run" \/ (budget.detach /\ pc \in {"toolend", "output", "answered"})
  BY EventFacts, RunsFacts
<1>2. budget'.detach = budget.detach
  BY EventFacts DEF Recorded, SameOptions
<1>3. ~broken' => ~broken /\ stored' = child' /\ writer' /\ begun'
  BY RecordedWhole
<1> QED BY <1>1, <1>2, <1>3, OnceRun

\* Every step keeps what may not repeat from running again.
LEMMA OnceStep ==
    ASSUME SubagentInv, [Next]_vars
    PROVE  OnceInv'
<1> USE DEF SubagentInv
<1>1. ASSUME NEW k \in Keys, HandOver(k)  PROVE OnceInv'
  <2>1. UNCHANGED <<child, stored, ran, writer, broken>>
    BY <1>1 DEF HandOver, record, history
  <2>2. /\ pc = "pending" /\ key' = k /\ pc' \in {"pending", "load", "fresh"}
        /\ key \in Nat /\ k \in Nat \ {0} /\ key <= k /\ HandedOver \in Nat
        /\ child.run # "open"
    BY <1>1, HandOverFacts, HandOverCounts DEF PhaseInv
  <2>3. k # key => ~Ran(k) BY <2>2 DEF LogInv
  <2>4. k = key /\ ~broken /\ Ran(k) => HandedOver >= 1
    BY <2>2 DEF OnceInv, None
  <2>5. pc' = "fresh" /\ k = key => HandedOver = 0
    <3>1. SUFFICES ASSUME pc' = "fresh", k = key  PROVE HandedOver = 0
      OBVIOUS
    <3>2. plog = <<>> /\ key \in Keys \cup {None}
      BY <1>1, <3>1, HandOverFacts
    <3>3. plog \in Seq(LogEntry) /\ DOMAIN plog = {} BY <3>2 DEF TypeOK
    <3> QED BY <3>2, <3>3, NoHandOffs DEF HandedOver
  <2>6. \A j : Ran(j)' <=> Ran(j) BY <2>1 DEF Ran
  <2>7. \A S : NotRunYet(stored, S)' <=> NotRunYet(stored, S)
    BY <2>1 DEF NotRunYet
  <2>8. ~broken /\ pc' = "fresh" => ~Ran(k) BY <2>3, <2>4, <2>5
  <2>9. ~broken /\ pc' = "pending" /\ Ran(k) => HandedOver' >= 1
    BY <1>1, <2>2, <2>3, <2>4, HandOverCounts
  <2>10. ~broken /\ pc' = "load" /\ Ran(k) => HandedOver' >= 2
    BY <1>1, <2>2, <2>3, <2>4, HandOverCounts
  <2> QED BY <2>1, <2>2, <2>6, <2>7, <2>8, <2>9, <2>10 DEF OnceInv
<1>2. CASE LoadFresh
  <2>1. /\ UNCHANGED <<child, stored, ran, worked, begun, key, broken, budget, writer>>
        /\ pc = "load" /\ pc' = "fresh"
    BY <1>2 DEF LoadFresh, agent, record, history
  <2>2. HandOffs(plog, key) <= 1 \/ stored.run = "none"
    BY <1>2 DEF LoadFresh, Loads
  <2>3. ~broken => ~Ran(key)
    <3>1. key \in Keys /\ HandedOver \in Nat
      BY <2>1 DEF TypeOK, PhaseInv, LogInv
    <3> QED BY <2>1, <2>2, <3>1 DEF OnceInv, HandedOver
  <2> QED BY <2>1, <2>3, OnceFrame
<1>3. CASE LoadRecord
  <2> DEFINE s == Closed(stored)
  <2>1. /\ s \in ChildState /\ s.op = stored.op /\ s.calls = stored.calls
        /\ s.run = "none" <=> stored.run = "none"
    BY ClosedFacts
  <2>2. /\ Restored(s).op = s.op
        /\ \A c \in Calls : c \in Never =>
              Restored(s).calls[c] = "done" \/ s.calls[c] \in Undone
    BY <2>1, RestoredFacts
  <2>3. UNCHANGED <<ran, broken, key>> /\ pc = "load" /\ child.run # "open"
        /\ pc' \in {"output", "toolend", "create"}
    BY <1>3, LoadRecordFacts DEF LoadRecord, history, PhaseInv
  <2>4. stored' \in {s, stored} /\ (pc' = "create" => child' = Restored(s))
        /\ (pc' = "create" => stored.run # "none" /\ child'.run = "none")
        /\ (pc' = "toolend" => begun')
    BY <1>3, <2>1, LoadRecordFacts, RestoredFacts
  <2>5. child'.run # "open"
    <3>1. s.run # "open" /\ Restored(s).run = "none"
      BY <2>1, ClosedFacts, RestoredFacts
    <3> QED BY <1>3, <2>3, <3>1, LoadRecordFacts
  <2> HIDE DEF s
  <2>6. NotRunYet(stored, Undone) => NotRunYet(stored, Undone)'
    BY <2>1, <2>3, <2>4 DEF NotRunYet
  <2>7. stored'.run = "none" <=> stored.run = "none" BY <2>1, <2>4
  <2>8. \A k : Ran(k)' <=> Ran(k) BY <2>3 DEF Ran
  <2>9. ~broken /\ pc' = "create" =>
           NotRunYet(child, Undone \cup {"dispatched"})'
    <3>1. SUFFICES ASSUME ~broken, pc' = "create"
                   PROVE  NotRunYet(child, Undone \cup {"dispatched"})'
      OBVIOUS
    <3>2. NotRunYet(stored, Undone) /\ child' = Restored(s)
      BY <2>4, <3>1 DEF OnceInv
    <3>3. ASSUME NEW c \in Never, child'.calls[c] \in Undone \cup {"dispatched"}
          PROVE  ran[stored.op][c] = 0
      <4>1. c \in Calls /\ child'.calls[c] # "done"
        BY <3>3, SubagentAssumption DEF Undone
      <4> QED BY <2>1, <2>2, <3>2, <4>1 DEF NotRunYet
    <3> QED BY <2>1, <2>2, <2>3, <3>2, <3>3 DEF NotRunYet
  <2> QED BY <2>3, <2>4, <2>5, <2>6, <2>7, <2>8, <2>9 DEF OnceInv
<1>4. CASE LoadFails
  <2>1. SameOptions BY <1>4, SpendFacts DEF LoadFails
  <2> QED
    BY <1>4, <2>1, OnceFrame DEF LoadFails, SameOptions, agent, record, history
<1>5. CASE Afresh
  <2>1. /\ UNCHANGED <<stored, ran, key, broken>> /\ pc = "fresh" /\ pc' = "create"
        /\ child'.op = key /\ child'.run = "none" /\ key \in Keys
    BY <1>5, AfreshFacts DEF Afresh, record, history
  <2>2. \A c \in Never : ran[key][c] \in Nat
    BY <2>1, SubagentAssumption DEF TypeOK
  <2>3. ~broken => \A c \in Never : ran[key][c] = 0
    BY <2>1, <2>2 DEF OnceInv, Ran
  <2>4. ~broken => NotRunYet(child, Undone \cup {"dispatched"})'
    BY <2>1, <2>3 DEF NotRunYet
  <2>5. \A S : NotRunYet(stored, S)' <=> NotRunYet(stored, S)
    BY <2>1 DEF NotRunYet
  <2>6. \A k : Ran(k)' <=> Ran(k) BY <2>1 DEF Ran
  <2> QED BY <2>1, <2>4, <2>5, <2>6 DEF OnceInv
<1>6. CASE NewChild
  <2>1. CASE broken' BY <2>1 DEF OnceInv
  <2>2. CASE ~broken'
    <3>1. /\ UNCHANGED <<child, stored, ran, key, broken>> /\ pc = "create"
          /\ pc' = "link" /\ child.run # "open"
      BY <1>6, <2>2, NewChildFacts DEF NewChild, PhaseInv, First, Again
    <3>2. \A S : /\ NotRunYet(stored, S)' <=> NotRunYet(stored, S)
                 /\ NotRunYet(child, S)' <=> NotRunYet(child, S)
      BY <3>1 DEF NotRunYet
    <3>3. \A k : Ran(k)' <=> Ran(k) BY <3>1 DEF Ran
    <3> QED BY <3>1, <3>2, <3>3 DEF OnceInv
  <2> QED BY <2>1, <2>2
<1>7. CASE LinkChild
  <2>1. SameOptions BY <1>7, LinkFacts DEF LinkChild
  <2> QED
    BY <1>7, <2>1, OnceFrame DEF LinkChild, SameOptions, agent, record, history
<1>8. CASE StartRun
  <2>1. CASE broken' BY <2>1 DEF OnceInv
  <2>2. CASE ~broken'
    <3>1. /\ pc = "start" /\ pc' = "run" /\ stored' = child' /\ begun' /\ writer'
          /\ child'.op = child.op /\ child'.run = "open" /\ UNCHANGED <<ran, broken>>
      BY <1>8, <2>2, StartRunFacts, StartedWhole DEF TookUp, StartRun
    <3>2. NotRunYet(child, Undone \cup {"dispatched"})
      BY <2>2, <3>1 DEF OnceInv
    <3>a. \A c \in Never : child'.calls[c] \in Undone \cup {"dispatched"} =>
                           child.calls[c] \in Undone \cup {"dispatched"}
      BY <1>8, StartRunFacts, SubagentAssumption DEF TookUp, Undone, In
    <3>3. NotRunYet(child, Undone \cup {"dispatched"})'
      BY <3>1, <3>2, <3>a DEF NotRunYet
    <3>4. NotRunYet(child, Undone)' /\ NotRunYet(stored, Undone)'
      BY <3>1, <3>3 DEF NotRunYet
    <3>5. \A c \in Never : In(c, {"dispatched"})' => ran'[child'.op][c] = 0
      BY <3>3 DEF NotRunYet, In
    <3> QED BY <2>2, <3>1, <3>4, <3>5 DEF OnceInv
  <2> QED BY <2>1, <2>2
<1>9. CASE CallModel
  <2>1. \A c \in Never :
            /\ child'.calls[c] \in Undone => child.calls[c] \in Undone
            /\ child'.calls[c] = "dispatched" =>
                  child.calls[c] \in {"ready", "dispatched"}
    BY <1>9, CallModelFacts, SubagentAssumption DEF Undone
  <2> QED BY <1>9, <2>1, OnceEvent DEF CallModel, Events
<1>10. CASE Take
  BY <1>10, OnceEvent, TakeFacts DEF Take, Events, OnlyInputs
<1>11. ASSUME NEW c \in Calls, Dispatch(c)  PROVE OnceInv'
  <2>1. \A d \in Never :
            /\ child'.calls[d] \in Undone => child.calls[d] \in Undone
            /\ child'.calls[d] = "dispatched" =>
                  child.calls[d] \in {"ready", "dispatched"}
    BY <1>11, DispatchFacts, SubagentAssumption DEF Undone
  <2> QED BY <1>11, <2>1, OnceEvent DEF Dispatch, Events
<1>12. ASSUME NEW c \in Calls, Work(c)  PROVE OnceInv'
  <2>1. SUFFICES ASSUME ~broken'  PROVE OnceInv' BY DEF OnceInv
  <2>2. /\ UNCHANGED <<child, stored, writer, begun, broken, budget, key, pc>>
        /\ In(c, {"dispatched"}) /\ c \notin worked /\ worked' = worked \cup {c}
    BY <1>12 DEF Work, parent, record
  <2>3. /\ child.run = "open" /\ stored = child /\ writer /\ begun
        /\ pc = "run" \/ (budget.detach /\ pc \in {"toolend", "output", "answered"})
        /\ NotRunYet(child, Undone)
        /\ \A d \in Never : In(d, {"dispatched"}) /\ d \notin worked =>
              ran[child.op][d] = 0
        /\ \A k \in Keys, d \in Never : ran[k][d] <= 1
    <3>1. child.run = "open"
          /\ (pc = "run" \/ (budget.detach /\ pc \in {"toolend", "output", "answered"}))
      BY <1>12, RunsFacts DEF Work
    <3> QED BY <2>1, <2>2, <3>1 DEF OnceInv
  <2>4. child.op \in Keys BY <2>3 DEF NotRunYet
  <2>5. \A k \in Keys, d \in Never : ran'[k][d] =
           IF k = child.op /\ d = c THEN 1 ELSE ran[k][d]
    <3>1. c \in Never => ran[child.op][c] = 0 BY <2>2, <2>3
    <3> QED BY <1>12, <2>4, <3>1, WorkFacts, SubagentAssumption
  <2>6. \A k \in Keys, d \in Never : ran'[k][d] <= 1 BY <2>3, <2>5
  <2>7. NotRunYet(child, Undone)' /\ NotRunYet(stored, Undone)'
    BY <2>2, <2>3, <2>4, <2>5 DEF NotRunYet, In, Undone
  <2>8. \A d \in Never : In(d, {"dispatched"})' /\ d \notin worked' =>
              ran'[child'.op][d] = 0
    BY <2>2, <2>3, <2>4, <2>5 DEF In
  <2> QED BY <2>2, <2>3, <2>6, <2>7, <2>8 DEF OnceInv
<1>13. ASSUME NEW c \in Calls, Output(c)  PROVE OnceInv'
  <2>1. \A d \in Never :
            /\ child'.calls[d] \in Undone => child.calls[d] \in Undone
            /\ child'.calls[d] = "dispatched" =>
                  child.calls[d] \in {"ready", "dispatched"}
    BY <1>13, OutputFacts, SubagentAssumption DEF Undone
  <2> QED BY <1>13, <2>1, OnceEvent DEF Output, Events
<1>14. ASSUME NEW c \in Calls, NEW v \in Verdicts, Decide(c, v)  PROVE OnceInv'
  <2>1. \A d \in Never :
            /\ child'.calls[d] \in Undone => child.calls[d] \in Undone
            /\ child'.calls[d] = "dispatched" =>
                  child.calls[d] \in {"ready", "dispatched"}
    BY <1>14, DecideFacts, SubagentAssumption DEF Undone
  <2> QED BY <1>14, <2>1, OnceEvent DEF Decide, Events
<1>15. ASSUME NEW i \in Inputs, Queue(i)  PROVE OnceInv'
  BY <1>15, OnceEvent, QueueFacts DEF Queue, Events, OnlyInputs
<1>16. ASSUME NEW r \in Reasons, EndRun(r)  PROVE OnceInv'
  <2>1. /\ child.run = "open" /\ child'.op = child.op /\ child'.calls = child.calls
        /\ child'.run = r /\ r \notin {"open", "none"}
        /\ UNCHANGED <<ran, worked, broken, begun>>
        /\ writer' = (writer /\ ~DetachedRun)
    BY <1>16, EndRunFacts, RunsFacts DEF OnlyRun, EndRun, Reasons
  <2>2. ~broken' => writer /\ begun /\ stored' = child'
    BY <1>16, EndedWhole
  <2>3. \/ ~budget.detach /\ pc' = "ended"
        \/ budget.detach /\ budget'.detach /\ pc' = pc
           /\ pc \in {"run", "toolend", "output", "answered"}
    BY <1>16, EndRunFacts, RunsFacts DEF SameOptions
  <2>4. DetachedRun => pc' \notin {"run", "ended"}
    BY <2>3 DEF DetachedRun
  <2>5. ~broken' => stored' = child' BY <2>2
  <2>6. ~broken' => \/ writer' /\ begun'
                    \/ child'.run # "open" /\ pc' \notin {"run", "ended"}
    BY <2>1, <2>2, <2>4
  <2> QED BY <2>1, <2>3, <2>5, <2>6, OnceRun
<1>17. CASE Release
  <2>1. /\ pc = "ended" /\ pc' = "create" /\ child.run = "input" /\ Again
        /\ UNCHANGED <<child, stored, ran, broken>>
    BY <1>17, ReleaseFacts DEF Again
  <2>2. SUFFICES ASSUME ~broken'  PROVE OnceInv' BY DEF OnceInv
  <2>3. NotRunYet(child, Undone) /\ stored = child
    BY <2>1, <2>2 DEF OnceInv
  <2>4. \A c \in Never : child.calls[c] # "dispatched"
    BY <2>1, SubagentAssumption DEF Again, Settled, Has, In
  <2>5. NotRunYet(child, Undone \cup {"dispatched"})' /\ NotRunYet(stored, Undone)'
    BY <2>1, <2>3, <2>4 DEF NotRunYet
  <2> QED BY <2>1, <2>2, <2>3, <2>5 DEF OnceInv
<1>18. CASE Return
  BY <1>18, OnceFrame DEF Return, agent, record, history
<1>19. CASE ToolEnd
  <2>1. /\ pc = "toolend" /\ budget'.detach = budget.detach /\ ~budget.detach
        /\ pc' \in {"pending", "output"} /\ child.run # "open"
        /\ UNCHANGED <<child, ran, worked, begun, key, broken>>
    BY <1>19, ToolEndFacts DEF ToolEnd, SameOptions, agent, history, PhaseInv
  <2>2. ~broken => UNCHANGED stored
    BY <1>19, <2>1, ToolEndFacts DEF OnceInv
  <2>3. HandedOver' >= 1
    <3>1. stored'.op <= key /\ child'.op <= key
      BY <1>19, <2>1, ToolEndFacts DEF LogInv
    <3> QED BY <1>19, <2>1, <3>1, ToolEndFacts, LogLink DEF LogInv
  <2>4. CASE broken' BY <2>4 DEF OnceInv
  <2>5. CASE ~broken'
    <3>1. UNCHANGED <<child, stored, ran, worked, begun, key, broken>>
      BY <2>1, <2>2, <2>5
    <3> QED BY <2>1, <2>3, <3>1, OnceFrame
  <2> QED BY <2>4, <2>5
<1>20. CASE AppendOutput
  BY <1>20, OnceFrame DEF AppendOutput, agent, record, history
<1>21. CASE DetachedEnds \/ Detach \/ DetachedReturn
  <2>1. UNCHANGED <<child, stored, ran, worked, begun, key, broken, budget, writer>>
    BY <1>21
    DEF DetachedEnds, Detach, DetachedReturn, parent, agent, record, history
  <2>2. \/ UNCHANGED <<pc, plog>>
        \/ pc' = "refused"
        \/ budget.detach /\ pc' \in {"toolend", "output"}
    BY <1>21 DEF DetachedEnds, Detach, DetachedReturn, parent
  <2>3. CASE UNCHANGED <<pc, plog>>
    <3>1. HandedOver' = HandedOver BY <2>1, <2>3 DEF HandedOver
    <3>2. (pc = "fresh" /\ ~broken => ~Ran(key))
          /\ (pc = "pending" /\ ~broken /\ key # None /\ Ran(key) =>
                 HandedOver >= 1)
      BY DEF OnceInv
    <3> QED BY <2>1, <2>3, <3>1, <3>2, OnceFrame
  <2>4. CASE pc' = "refused" \/ (budget.detach /\ pc' \in {"toolend", "output"})
    BY <2>1, <2>4, OnceFrame
  <2> QED BY <2>2, <2>3, <2>4
<1>22. CASE DetachedToolEnd
  <2>1. /\ UNCHANGED <<child, stored, ran, worked, begun, key, broken>>
        /\ pc' = "output" /\ writer' = (writer /\ RunsOn)
        /\ budget'.detach = budget.detach
    BY <1>22, LinkFacts DEF DetachedToolEnd, agent, history, SameOptions
  <2> QED BY <2>1, OnceFrame DEF RunsOn, TypeOK
<1>23. CASE Crash
  <2>1. /\ UNCHANGED <<stored, ran, key, broken, plog>> /\ pc' = "pending"
        /\ child'.run = "none" /\ pc # "answered"
    BY <1>23, NoChildFacts DEF Crash, history
  <2>2. HandedOver' = HandedOver BY <2>1 DEF HandedOver
  <2>3. ~broken /\ key # None /\ Ran(key) => HandedOver >= 1
    BY <2>1 DEF LogInv, OnceInv
  <2>4. \A S : NotRunYet(stored, S)' <=> NotRunYet(stored, S)
    BY <2>1 DEF NotRunYet
  <2>5. \A k : Ran(k)' <=> Ran(k) BY <2>1 DEF Ran
  <2> QED BY <2>1, <2>2, <2>3, <2>4, <2>5 DEF OnceInv
<1>24. CASE UNCHANGED vars
  <2>1. HandedOver' = HandedOver /\ \A k : Ran(k)' <=> Ran(k)
    BY <1>24 DEF vars, parent, history, HandedOver, Ran
  <2>2. \A S : /\ NotRunYet(stored, S)' <=> NotRunYet(stored, S)
               /\ NotRunYet(child, S)' <=> NotRunYet(child, S)
    BY <1>24 DEF vars, agent, record, history, NotRunYet
  <2> QED
    BY <1>24, <2>1, <2>2 DEF OnceInv, In, vars, parent, agent, record, history
<1> QED BY <1>1, <1>2, <1>3, <1>4, <1>5, <1>6, <1>7, <1>8, <1>9, <1>10, <1>11,
     <1>12, <1>13, <1>14, <1>15, <1>16, <1>17, <1>18, <1>19, <1>20, <1>21,
     <1>22, <1>23, <1>24 DEF Next

-----------------------------------------------------------------------------
(* Theorems.                                                               *)

\* A call that has not been handed over yet.
LEMMA InitInv == ASSUME Init  PROVE SubagentInv
<1> USE DEF Init
<1>1. budget \in Budget BY SubagentAssumption DEF Budget
<1>2. /\ plog = <<>> /\ plog \in Seq(LogEntry) /\ DOMAIN plog = {}
      /\ key \in Keys \cup {None}
  OBVIOUS
<1>3. TypeOK
  BY <1>1, <1>2, NoChildFacts DEF TypeOK, Places, Verdicts, NotDetached
<1>4. PhaseInv BY NoChildFacts DEF PhaseInv
<1>5. WriterIsLetGo BY DEF WriterIsLetGo
<1>6. HeldInv BY NoChildFacts DEF HeldInv, Released
<1>7. InputInv BY NoChildFacts DEF InputInv, OwedOnce
<1>8. HandedOver = 0 BY <1>2, NoHandOffs DEF HandedOver
<1>9. \A k \in Keys : ~Ran(k) BY SubagentAssumption DEF Ran
<1>10. LogInv BY <1>2, <1>8, <1>9, NoChildFacts DEF LogInv, None
<1>11. OnceInv BY <1>9, NoChildFacts, SubagentAssumption DEF OnceInv
<1> QED BY <1>3, <1>4, <1>5, <1>6, <1>7, <1>10, <1>11 DEF SubagentInv

\* The invariant holds in every state, for any calls, keys and inputs and
\* however often the call is handed over, cut or crashed.
THEOREM SubagentInvariant == Spec => []SubagentInv
<1>1. Init => SubagentInv BY InitInv
<1>2. SubagentInv /\ [Next]_vars => SubagentInv'
  BY TypeStep, PhaseStep, WriterStep, HeldStep, InputStep, LogStep, OnceStep
  DEF SubagentInv
<1> QED BY <1>1, <1>2, PTL DEF Spec

\* Observe and child let go of the writer of a call's last run
\* (Recorder.runs) once the run and the call have both ended, in whichever
\* order they end, and the writers of earlier runs stay only where the
\* release loop went on from them, for a tool that asks the parent.
THEOREM WriterLetGo == Spec => []WriterIsLetGo
<1>1. SubagentInv => WriterIsLetGo BY DEF SubagentInv
<1> QED BY <1>1, SubagentInvariant, PTL

\* A call that the child's policy held beside others is released to run only
\* where all that were asked about were accepted (releases, releaseAs), also
\* in the run that goes on from them, recorded or not.
THEOREM HeldRunOnlyAccepted == Spec => []HeldRunsIfAccepted
<1>1. SubagentInv => HeldRunsIfAccepted
  BY DEF SubagentInv, HeldInv, Released, Accepted, HeldRunsIfAccepted, In
<1> QED BY <1>1, SubagentInvariant, PTL

\* As long as the child's record is whole, a tool of the child that may not
\* repeat runs once for each operation of the parent, and the child's session
\* owes an input once, and none that it has taken (ChildRecord,
\* restoredAnswers, takeHandedBack).
THEOREM DoneOnce == Spec => []NothingTwice
<1>1. SubagentInv => WorkIsDoneOnce
  BY DEF SubagentInv, OnceInv, WorkIsDoneOnce
<1>2. SubagentInv /\ ~broken => InputIsOwedOnce
  <2>1. SUFFICES ASSUME SubagentInv, ~broken, NEW i \in Inputs
                 PROVE  stored.owed[i] <= (IF i \in stored.taken THEN 0 ELSE 1)
    BY DEF InputIsOwedOnce
  <2>2. stored.owed[i] \in {0, 1}
    BY <2>1 DEF SubagentInv, TypeOK, ChildState
  <2>3. i \in stored.taken => stored.owed[i] = 0
    BY <2>1 DEF SubagentInv, InputInv, OwedOnce
  <2> QED BY <2>2, <2>3
<1>3. SubagentInv => NothingTwice BY <1>1, <1>2 DEF NothingTwice
<1> QED BY <1>3, SubagentInvariant, PTL
=============================================================================
