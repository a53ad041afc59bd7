-------------------------- MODULE ToolBatchProofs --------------------------
(***************************************************************************)
(* Theorems about ToolBatch, for any plan: any number of calls, of runs    *)
(* and of crashes, any chains and barriers, and any replay class of each   *)
(* tool.                                                                   *)
(***************************************************************************)
EXTENDS ToolBatch, FiniteSetTheorems, TLAPS

-----------------------------------------------------------------------------
(* The inductive invariant.                                                *)

States == {"outside", "ready", "onstart", "running", "returned", "received",
           "done"}

CallState ==
    [st : States, reached : BOOLEAN, settled : BOOLEAN, deferred : BOOLEAN,
     cut : BOOLEAN, ended : BOOLEAN, refused : BOOLEAN, dispatched : BOOLEAN,
     err : {"none", "cancel"}, key : Nat, args : {0, 1}, again : BOOLEAN]

PendingCall ==
    [why : {"none", "unknown", "aborted", "deferred", "undispatched"},
     key : Nat, args : {0, 1}]

HandOff == [key : Nat, args : {0, 1}, again : BOOLEAN]

Phases == {"idle", "answers", "preflight", "execute", "cut", "append",
           "run_end"}

\* A list of calls without repetition.
Once(s) == \A i, j \in DOMAIN s : s[i] = s[j] => i = j

TypeOK ==
    /\ plan \in Plans /\ run \in Nat /\ kind \in {"turn", "resume"}
    /\ phase \in Phases /\ failed \in {"no", "consumer", "hook"}
    /\ cancelled \in BOOLEAN
    /\ todo \in SUBSET Calls /\ undispatched \in SUBSET Calls
    /\ cs \in [Calls -> CallState] /\ pend \in [Calls -> PendingCall]
    /\ order \in Seq(Calls) /\ left \in Seq(Calls) /\ outs \in Seq(Calls)
    /\ crashes \in Nat
    /\ starts \in [Calls -> Nat] /\ ends \in [Calls -> Nat]
    /\ ops \in [Calls -> Seq(HandOff)]

\* Where the states of the calls of a batch go with the phase of the loop,
\* and the events each has had.
StateInv ==
    /\ \A c \in Calls :
        /\ starts[c] = (IF InBatch(c) THEN 1 ELSE 0)
        /\ ends[c] = (IF cs[c].ended THEN 1 ELSE 0)
        /\ c \in todo \/ cs[c].st = "outside" =>
              /\ cs[c].st = "outside" /\ ~cs[c].ended /\ ~cs[c].settled
              /\ ~cs[c].deferred /\ ~cs[c].dispatched
        /\ cs[c].st \in {"ready", "onstart"} => ~cs[c].dispatched
        /\ cs[c].ended => cs[c].settled
        /\ phase \in {"idle", "answers"} => cs[c].st = "outside"
        /\ phase = "preflight" => cs[c].st \in {"outside", "ready"}
        /\ phase \in {"preflight", "execute"} =>
              /\ cs[c].st = "ready" /\ cs[c].settled => cs[c].ended
              /\ cs[c].deferred => cs[c].st = "ready" /\ cs[c].settled
              /\ cs[c].st = "done" /\ failed = "no" => cs[c].ended
              /\ cs[c].st \notin {"ready", "done"} => ~cs[c].ended
        /\ phase \in {"append", "run_end"} /\ InBatch(c) => cs[c].ended
    /\ phase = "execute" => todo = {}

\* An output is in the transcript once: the calls still to run, and the
\* outputs still to append, have none.
OutsInv ==
    /\ Once(outs) /\ Once(left)
    /\ \A i \in DOMAIN left : ~Answered(left[i])
    /\ phase \in {"answers", "preflight", "execute", "cut"} =>
        \A c \in Calls : c \in todo \/ InBatch(c) => ~Answered(c)
    /\ phase = "answers" => \A i \in DOMAIN left : left[i] \notin todo
    /\ phase \notin {"answers", "append"} => left = <<>>
    /\ phase = "idle" => \A c \in Calls : pend[c].why # "none" => ~Answered(c)

LastOp(c) == ops[c][Len(ops[c])]

\* What the agent knows of a call, and what the batch adds to it.
KnownInv ==
    /\ kind = "turn" /\ phase # "idle" =>
          \A c \in Calls : pend[c].why = "none"
    /\ \A c \in Calls :
        /\ ~cs[c].dispatched /\ ~Answered(c) /\ ops[c] # <<>> =>
              MayHaveRun(pend[c])
        /\ MayHaveRun(pend[c]) => ops[c] # <<>> \/ crashes > 0
        /\ pend[c].why = "unknown" => crashes > 0
        /\ pend[c].why = "aborted" /\ ~cs[c].dispatched =>
              /\ ops[c] # <<>>
              /\ pend[c].key = LastOp(c).key /\ pend[c].args = LastOp(c).args
        /\ cs[c].dispatched =>
              /\ ops[c] # <<>>
              /\ cs[c].key = LastOp(c).key /\ cs[c].args = LastOp(c).args
        /\ cs[c].deferred => ops[c] = <<>> /\ ~cs[c].dispatched

\* A call that may have run is in a batch only where an answer said to run
\* it again, or the rule allows it with the arguments and the key it has.
ApprovedInv ==
    \A c \in Calls : (c \in todo \/ InBatch(c)) /\ MayHaveRun(pend[c]) =>
        cs[c].again \/ RunAgainRule(c, cs[c].args, cs[c].key)

BatchInv ==
    TypeOK /\ StateInv /\ OutsInv /\ KnownInv /\ ApprovedInv /\ RunAgainIsSafe

-----------------------------------------------------------------------------
(* Lists and plans.                                                        *)

\* The plan in force is one of those given, with naturals for its bounds.
LEMMA PlanType ==
    ASSUME TypeOK
    PROVE  /\ plan.n \in Nat /\ plan.runs \in Nat /\ plan.crashes \in Nat
           /\ plan.apart \in [Calls -> SUBSET Calls]
           /\ plan.replay \in [Calls -> {"safe", "keyed", "never"}]
  BY BatchAssumption DEF TypeOK, Calls

\* A listing of a set is a list of its elements, each once.
LEMMA ListingType ==
    ASSUME TypeOK, NEW S \in SUBSET Calls, NEW s \in Listings(S)
    PROVE  /\ s \in Seq(Calls) /\ Once(s)
           /\ \A i \in DOMAIN s : s[i] \in S
<1>1. PICK n \in 0..plan.n : s \in [1..n -> S] BY DEF Listings
<1>2. plan.n \in Nat BY PlanType
<1>3. n \in Nat /\ s \in Seq(Calls) BY <1>1, <1>2
<1> QED BY <1>1, <1>3 DEF Listings, Once

\* What appending does to a sequence.
LEMMA AppendProps ==
    ASSUME NEW T, NEW s \in Seq(T), NEW e \in T
    PROVE  /\ Append(s, e) \in Seq(T) /\ Append(s, e) # <<>>
           /\ Len(Append(s, e)) = Len(s) + 1
           /\ DOMAIN Append(s, e) = DOMAIN s \cup {Len(s) + 1}
           /\ Append(s, e)[Len(s) + 1] = e
           /\ \A i \in DOMAIN s : Append(s, e)[i] = s[i]
           /\ \A i \in DOMAIN s : i \in 1..Len(s)
           /\ Len(s) \in Nat
<1>1. Len(Append(s, e)) = Len(s) + 1 /\ Len(s) \in Nat OBVIOUS
<1>2. Append(s, e) # <<>> BY <1>1
<1> QED BY <1>1, <1>2

\* The empty agent knows nothing of a call.
LEMMA OutsideType == Outside \in CallState /\ NotPending \in PendingCall
  BY DEF Outside, CallState, States, NotPending, PendingCall

-----------------------------------------------------------------------------
(* The initial states.                                                     *)

\* The invariant holds of an agent with no batch.
LEMMA InitInv == Init => BatchInv
<1> SUFFICES ASSUME Init PROVE BatchInv
  OBVIOUS
<1>1. plan.n \in Nat /\ Calls = 1..plan.n
  BY BatchAssumption DEF Init, Calls
<1>2. \A c \in Calls : cs[c] \in CallState /\ cs[c] = [Outside EXCEPT !.key = 1]
  BY <1>1 DEF Init, Outside, CallState, States
<1>3. TypeOK
  <2>1. order \in Seq(Calls)
    <3>1. order \in [1..plan.n -> Calls] BY <1>1 DEF Init
    <3> QED BY <1>1, <3>1
  <2>2. cs \in [Calls -> CallState] BY <1>2 DEF Init
  <2>3. pend \in [Calls -> PendingCall] BY OutsideType DEF Init
  <2>4. ops \in [Calls -> Seq(HandOff)] BY DEF Init
  <2>5. left \in Seq(Calls) /\ outs \in Seq(Calls) BY DEF Init
  <2>6. starts \in [Calls -> Nat] /\ ends \in [Calls -> Nat] BY DEF Init
  <2>7. cancelled \in BOOLEAN BY Zenon DEF Init
  <2>8. /\ plan \in Plans /\ run \in Nat /\ kind \in {"turn", "resume"}
        /\ phase \in Phases /\ failed \in {"no", "consumer", "hook"}
        /\ todo \in SUBSET Calls /\ undispatched \in SUBSET Calls
        /\ crashes \in Nat
    BY DEF Init, Phases
  <2> QED BY <2>1, <2>2, <2>3, <2>4, <2>5, <2>6, <2>7, <2>8 DEF TypeOK
<1>4. StateInv BY <1>2 DEF Init, StateInv, InBatch, Outside
<1>5. OutsInv BY DEF Init, OutsInv, Answered, Once, NotPending
<1>6. KnownInv
  BY <1>2 DEF Init, KnownInv, MayHaveRun, Outside, NotPending
<1>7. ApprovedInv BY DEF Init, ApprovedInv, MayHaveRun, NotPending
<1>8. RunAgainIsSafe
  BY DEF Init, RunAgainIsSafe, NeverRunsOnce, KeyedTellsRepeats
<1> QED BY <1>3, <1>4, <1>5, <1>6, <1>7, <1>8 DEF BatchInv

-----------------------------------------------------------------------------
(* The steps: execution.                                                   *)

\* What a move of one call in execution must keep to: the call stays in the
\* batch with what it was prepared with, and its events and its place in
\* the state machine of runner.execute agree.
Moved(c, r, broken) ==
    /\ r \in CallState /\ r.st # "outside"
    /\ r.key = cs[c].key /\ r.args = cs[c].args /\ r.again = cs[c].again
    /\ r.deferred = cs[c].deferred /\ r.dispatched = cs[c].dispatched
    /\ r.st = "ready" => r = cs[c]
    /\ r.st = "onstart" => cs[c].st = "ready"
    /\ r.deferred => r.st = "ready"
    /\ r.ended => r.settled
    /\ r.st = "done" /\ ~broken => r.ended
    /\ r.st \notin {"ready", "done"} => ~r.ended

\* A step of runner.execute or of the executor that moves one call, raises
\* its tool_end or not, and breaks the batch or not, and that hands nothing
\* to a tool, keeps the invariant.
LEMMA CallMoves ==
    ASSUME BatchInv, phase = "execute",
           NEW c \in Calls, cs[c].st # "outside",
           NEW r, cs' = [cs EXCEPT ![c] = r], Moved(c, r, failed' # "no"),
           ends' = [ends EXCEPT ![c] = IF r.ended THEN 1 ELSE 0],
           undispatched' \in SUBSET Calls,
           failed' \in {"no", "consumer", "hook"},
           failed' = "no" => failed = "no",
           UNCHANGED <<run, kind, phase, order, todo, left, starts,
                       cancelled, outs, pend, limits, ops>>
    PROVE  BatchInv'
<1> USE DEF limits
<1>1. /\ Calls' = Calls /\ TypeOK /\ StateInv /\ OutsInv /\ KnownInv
      /\ ApprovedInv /\ RunAgainIsSafe
  BY DEF BatchInv, Calls
<1>2. /\ cs' \in [Calls -> CallState] /\ cs'[c] = r
      /\ \A b \in Calls : b # c => cs'[b] = cs[b]
  BY <1>1 DEF TypeOK, Moved
<1>3. /\ \A b \in Calls : /\ cs'[b].key = cs[b].key
                          /\ cs'[b].args = cs[b].args
                          /\ cs'[b].again = cs[b].again
                          /\ cs'[b].deferred = cs[b].deferred
                          /\ cs'[b].dispatched = cs[b].dispatched
                          /\ InBatch(b)' = InBatch(b)
  BY <1>2, Zenon DEF Moved, InBatch
<1>4. /\ ends' \in [Calls -> Nat]
      /\ \A b \in Calls : ends'[b] = IF b = c THEN (IF r.ended THEN 1 ELSE 0)
                                    ELSE ends[b]
  BY <1>1 DEF TypeOK
<1>5. TypeOK' BY <1>1, <1>2, <1>4 DEF TypeOK
<1>6. StateInv'
  <2>1. \A b \in Calls : b # c => cs'[b] = cs[b] /\ ends'[b] = ends[b]
    BY <1>2, <1>4
  <2>2. phase = "execute" /\ phase' = "execute" /\ todo' = todo /\ starts' = starts
    OBVIOUS
  <2> QED BY <1>1, <1>2, <1>3, <1>4, <2>1, <2>2 DEF StateInv, Moved, InBatch
<1>7. OutsInv' BY <1>1, <1>3 DEF OutsInv, Answered
<1>8. KnownInv' BY <1>1, <1>3 DEF KnownInv, Answered, LastOp
<1>9. ApprovedInv' BY <1>1, <1>3 DEF ApprovedInv, RunAgainRule
<1>10. RunAgainIsSafe'
  BY <1>1 DEF RunAgainIsSafe, NeverRunsOnce, KeyedTellsRepeats
<1> QED BY <1>5, <1>6, <1>7, <1>8, <1>9, <1>10 DEF BatchInv

\* What the invariant says of a job of the executor's.
LEMMA JobFacts ==
    ASSUME BatchInv, NEW c \in Calls, NEW st, Executing(c, st)
    PROVE  /\ phase = "execute" /\ cs[c].st = st /\ cs[c] \in CallState
           /\ st # "outside" /\ ~cs[c].deferred
           /\ st # "done" => ~cs[c].ended
           /\ ends[c] = (IF cs[c].ended THEN 1 ELSE 0)
           /\ ends \in [Calls -> Nat] /\ undispatched \in SUBSET Calls
           /\ failed \in {"no", "consumer", "hook"}
           /\ cs \in [Calls -> CallState]
           /\ cs[c].err \in {"none", "cancel"} /\ cs[c].refused \in BOOLEAN
<1>1. cs[c] \in CallState BY DEF BatchInv, TypeOK
<1>2. cs[c].err \in {"none", "cancel"} /\ cs[c].refused \in BOOLEAN
  BY <1>1 DEF CallState
<1> QED BY <1>1, <1>2 DEF BatchInv, TypeOK, StateInv, Executing, Job, InBatch

\* JobStart, OnStartCut, ToolReturns, Receive and a refused dispatch move a
\* job on and raise nothing.
LEMMA JobMoves ==
    ASSUME BatchInv, NEW c \in Calls, NEW st, st # "done", Executing(c, st),
           NEW to \in {"onstart", "returned", "received"},
           to = "onstart" => st = "ready",
           NEW e \in {"none", "cancel"}, NEW f \in BOOLEAN,
           cs' = [cs EXCEPT ![c] =
                     [cs[c] EXCEPT !.st = to, !.err = e, !.refused = f]],
           UNCHANGED <<run, kind, phase, order, todo, undispatched, failed,
                       left, starts, ends, cancelled, outs, pend, limits, ops>>
    PROVE  BatchInv'
<1> DEFINE r == [cs[c] EXCEPT !.st = to, !.err = e, !.refused = f]
<1>1. /\ phase = "execute" /\ cs[c] \in CallState /\ cs[c].st # "outside"
      /\ ~cs[c].deferred /\ ~cs[c].ended /\ ends \in [Calls -> Nat]
      /\ ends[c] = 0 /\ undispatched \in SUBSET Calls
      /\ failed \in {"no", "consumer", "hook"} /\ cs[c].st = st
  BY JobFacts
<1>2. Moved(c, r, failed' # "no") BY <1>1 DEF Moved, CallState, States
<1>3. ~r.ended BY <1>1 DEF CallState
<1>4. ends' = [ends EXCEPT ![c] = IF r.ended THEN 1 ELSE 0]
  BY <1>1, <1>3
<1> HIDE DEF r
<1> QED BY <1>1, <1>2, <1>4, CallMoves DEF r

\* A job that starts keeps the invariant.
LEMMA JobStartInv ==
    ASSUME BatchInv, NEW c \in Calls, JobStart(c) PROVE BatchInv'
<1>1. Executing(c, "ready") /\ cs[c] \in CallState /\ cs \in [Calls -> CallState]
  BY JobFacts DEF JobStart
<1>2. CASE cs' = [cs EXCEPT ![c].st = "onstart"]
  <2>1. cs' = [cs EXCEPT ![c] = [cs[c] EXCEPT !.st = "onstart",
                            !.err = cs[c].err, !.refused = cs[c].refused]]
    BY <1>1, <1>2 DEF CallState
  <2> QED BY <1>1, <2>1, JobMoves DEF JobStart, CallState
<1>3. CASE cs' = [cs EXCEPT ![c].st = "returned", ![c].err = "cancel"]
  <2>1. cs' = [cs EXCEPT ![c] = [cs[c] EXCEPT !.st = "returned",
                            !.err = "cancel", !.refused = cs[c].refused]]
    BY <1>1, <1>3 DEF CallState
  <2> QED BY <1>1, <2>1, JobMoves DEF JobStart, CallState
<1> QED BY <1>2, <1>3 DEF JobStart

\* So does a job cut off while its OnStart waits.
LEMMA OnStartCutInv ==
    ASSUME BatchInv, NEW c \in Calls, OnStartCut(c) PROVE BatchInv'
<1>1. /\ Executing(c, "onstart") /\ cs[c] \in CallState
      /\ cs \in [Calls -> CallState]
      /\ cs[c].err \in {"none", "cancel"} /\ cs[c].refused \in BOOLEAN
  BY JobFacts DEF OnStartCut
<1>2. cs' = [cs EXCEPT ![c] = [cs[c] EXCEPT !.st = "returned",
                          !.err = "cancel", !.refused = cs[c].refused]]
  BY <1>1 DEF CallState, OnStartCut
<1> QED BY <1>1, <1>2, JobMoves DEF OnStartCut

\* So does a tool that returns.
LEMMA ToolReturnsInv ==
    ASSUME BatchInv, NEW c \in Calls, ToolReturns(c) PROVE BatchInv'
<1>1. /\ Executing(c, "running") /\ cs[c] \in CallState
      /\ cs \in [Calls -> CallState]
  BY JobFacts DEF ToolReturns
<1>2. PICK e \in {"none", "cancel"} :
          cs' = [cs EXCEPT ![c].st = "returned", ![c].err = e]
  BY DEF ToolReturns
<1>3. cs' = [cs EXCEPT ![c] = [cs[c] EXCEPT !.st = "returned", !.err = e,
                                           !.refused = cs[c].refused]]
  BY <1>1, <1>2 DEF CallState
<1> QED BY <1>1, <1>3, JobMoves DEF ToolReturns, CallState

\* So does the batch taking a result off its channel.
LEMMA ReceiveInv ==
    ASSUME BatchInv, NEW c \in Calls, Receive(c) PROVE BatchInv'
<1>1. /\ Executing(c, "returned") /\ cs[c] \in CallState
      /\ cs \in [Calls -> CallState]
      /\ cs[c].err \in {"none", "cancel"} /\ cs[c].refused \in BOOLEAN
  BY JobFacts DEF Receive
<1>2. cs' = [cs EXCEPT ![c] = [cs[c] EXCEPT !.st = "received",
                      !.err = cs[c].err, !.refused = cs[c].refused]]
  BY <1>1 DEF CallState, Receive
<1> QED BY <1>1, <1>2, JobMoves DEF Receive

\* So does an update that a subscriber refuses.
LEMMA UpdateRefusedInv ==
    ASSUME BatchInv, NEW c \in Calls, UpdateRefused(c) PROVE BatchInv'
<1>1. /\ phase = "execute" /\ cs[c].st = "running" /\ cs[c] \in CallState
      /\ ~cs[c].deferred /\ ~cs[c].ended /\ ends[c] = 0
      /\ ends \in [Calls -> Nat] /\ undispatched \in SUBSET Calls
      /\ cs \in [Calls -> CallState]
  BY JobFacts DEF UpdateRefused
<1>2. cs' = [cs EXCEPT ![c] = cs[c]] /\ failed' = "consumer"
  BY <1>1 DEF UpdateRefused
<1>3. Moved(c, cs[c], failed' # "no") BY <1>1, <1>2 DEF Moved
<1>4. ends' = [ends EXCEPT ![c] = IF cs[c].ended THEN 1 ELSE 0]
  BY <1>1 DEF UpdateRefused
<1> QED BY <1>1, <1>2, <1>3, <1>4, CallMoves DEF UpdateRefused

\* So does settling a result.
LEMMA SettleResultInv ==
    ASSUME BatchInv, NEW c \in Calls, SettleResult(c) PROVE BatchInv'
<1>1. /\ phase = "execute" /\ cs[c].st = "received" /\ cs[c] \in CallState
      /\ ~cs[c].deferred /\ ~cs[c].ended /\ ends[c] = 0
      /\ ends \in [Calls -> Nat] /\ undispatched \in SUBSET Calls
      /\ failed \in {"no", "consumer", "hook"}
      /\ cs \in [Calls -> CallState]
  BY JobFacts DEF SettleResult
<1>2. /\ undispatched' \in SUBSET Calls
      /\ failed' \in {"no", "consumer", "hook"}
      /\ failed' = "no" => failed = "no"
  BY <1>1 DEF SettleResult
<1>3. ASSUME NEW r, cs' = [cs EXCEPT ![c] = r],
             Moved(c, r, failed' # "no"),
             ends' = [ends EXCEPT ![c] = IF r.ended THEN 1 ELSE 0]
      PROVE  BatchInv'
  BY <1>1, <1>2, <1>3, CallMoves DEF SettleResult
<1>4. ASSUME cs' = [cs EXCEPT ![c].st = "done"], ends' = ends,
             failed' # "no"
      PROVE  BatchInv'
  <2> DEFINE r == [cs[c] EXCEPT !.st = "done"]
  <2>1. cs' = [cs EXCEPT ![c] = r] /\ ~r.ended
    BY <1>1, <1>4 DEF CallState
  <2>2. Moved(c, r, failed' # "no")
    BY <1>1, <1>4 DEF Moved, CallState, States
  <2>3. ends' = [ends EXCEPT ![c] = IF r.ended THEN 1 ELSE 0]
    BY <1>1, <1>4, <2>1
  <2> QED BY <1>3, <2>1, <2>2, <2>3
<1>5. ASSUME NEW e \in {"none", "cancel"},
             cs' = [cs EXCEPT ![c] = SettledAs(c, e)],
             ends' = [ends EXCEPT ![c] = @ + 1]
      PROVE  BatchInv'
  <2> DEFINE r == SettledAs(c, e)
  <2>1. r.ended BY <1>1 DEF SettledAs, CallState
  <2>2. Moved(c, r, failed' # "no")
    BY ZenonT(60), <1>1 DEF Moved, SettledAs, CallState, States
  <2>3. ends' = [ends EXCEPT ![c] = IF r.ended THEN 1 ELSE 0]
    BY <1>1, <1>5, <2>1
  <2> QED BY <1>3, <1>5, <2>2, <2>3
<1>6. ASSUME cs' = [cs EXCEPT ![c].st = "done", ![c].settled = TRUE],
             ends' = ends, failed' # "no"
      PROVE  BatchInv'
  <2> DEFINE r == [cs[c] EXCEPT !.st = "done", !.settled = TRUE]
  <2>1. cs' = [cs EXCEPT ![c] = r] /\ ~r.ended
    BY <1>1, <1>6 DEF CallState
  <2>2. Moved(c, r, failed' # "no")
    BY <1>1, <1>6 DEF Moved, CallState, States
  <2>3. ends' = [ends EXCEPT ![c] = IF r.ended THEN 1 ELSE 0]
    BY <1>1, <1>6, <2>1
  <2> QED BY <1>3, <2>1, <2>2, <2>3
<1>7. ASSUME cs' = [cs EXCEPT ![c].st = "done", ![c].settled = TRUE,
                              ![c].cut = TRUE, ![c].ended = TRUE],
             ends' = [ends EXCEPT ![c] = @ + 1]
      PROVE  BatchInv'
  <2> DEFINE r == [cs[c] EXCEPT !.st = "done", !.settled = TRUE,
                                !.cut = TRUE, !.ended = TRUE]
  <2>1. cs' = [cs EXCEPT ![c] = r] /\ r.ended
    BY <1>1, <1>7 DEF CallState
  <2>2. Moved(c, r, failed' # "no")
    BY <1>1, <1>7 DEF Moved, CallState, States
  <2>3. ends' = [ends EXCEPT ![c] = IF r.ended THEN 1 ELSE 0]
    BY <1>1, <1>7, <2>1
  <2> QED BY <1>3, <2>1, <2>2, <2>3
<1> QED BY <1>1, <1>4, <1>5, <1>6, <1>7 DEF SettleResult

\* The hand-off of a call to its tool: the call has no output, and where it
\* was handed over before, the agent knew, and the approval was checked.
LEMMA DispatchInv ==
    ASSUME BatchInv, NEW c \in Calls, Dispatch(c) PROVE BatchInv'
<1> USE DEF limits
<1>1. /\ phase = "execute" /\ cs[c].st = "onstart" /\ cs[c] \in CallState
      /\ ~cs[c].deferred /\ ~cs[c].ended /\ ends[c] = 0
      /\ cs \in [Calls -> CallState] /\ Executing(c, "onstart")
      /\ cs[c].err \in {"none", "cancel"} /\ cs[c].refused \in BOOLEAN
  BY JobFacts DEF Dispatch
<1>2. CASE cs' = [cs EXCEPT ![c].st = "returned", ![c].refused = TRUE]
           /\ ops' = ops
  <2>1. cs' = [cs EXCEPT ![c] = [cs[c] EXCEPT !.st = "returned",
                            !.err = cs[c].err, !.refused = TRUE]]
    BY <1>1, <1>2 DEF CallState
  <2> QED BY <1>1, <1>2, <2>1, JobMoves DEF Dispatch
<1> DEFINE h == [key |-> cs[c].key, args |-> cs[c].args,
                 again |-> cs[c].again]
           r == [cs[c] EXCEPT !.st = "running", !.dispatched = TRUE]
<1>3. ASSUME cs' = [cs EXCEPT ![c] = r],
             ops' = [ops EXCEPT ![c] = Append(ops[c], h)]
      PROVE  BatchInv'
  <2>1. /\ Calls' = Calls /\ TypeOK /\ StateInv /\ OutsInv /\ KnownInv
        /\ ApprovedInv /\ RunAgainIsSafe /\ ops[c] \in Seq(HandOff)
        /\ ops \in [Calls -> Seq(HandOff)]
    BY DEF BatchInv, Calls, TypeOK, Dispatch
  <2>2. h \in HandOff /\ r \in CallState
    BY <1>1 DEF CallState, HandOff, States
  <2>3. /\ r.st = "running" /\ r.dispatched /\ ~r.ended /\ ~r.deferred
        /\ r.key = cs[c].key /\ r.args = cs[c].args /\ r.again = cs[c].again
        /\ r.settled = cs[c].settled
    BY <1>1 DEF CallState
  <2>4. h.key = r.key /\ h.args = r.args /\ h.again = r.again BY <2>3
  <2> HIDE DEF h, r
  <2>5. /\ cs' \in [Calls -> CallState] /\ cs'[c] = r
        /\ \A b \in Calls : b # c => cs'[b] = cs[b]
    BY <1>1, <1>3, <2>2
  <2>6. /\ ops' \in [Calls -> Seq(HandOff)] /\ ops'[c] = Append(ops[c], h)
        /\ \A b \in Calls : b # c => ops'[b] = ops[b]
    BY <1>3, <2>1, <2>2
  <2>7. /\ ops'[c] # <<>> /\ Len(ops'[c]) = Len(ops[c]) + 1
        /\ DOMAIN ops'[c] = DOMAIN ops[c] \cup {Len(ops[c]) + 1}
        /\ ops'[c][Len(ops[c]) + 1] = h
        /\ \A i \in DOMAIN ops[c] : ops'[c][i] = ops[c][i]
        /\ Len(ops[c]) \in Nat /\ DOMAIN ops[c] = 1..Len(ops[c])
    BY <2>1, <2>2, <2>6, AppendProps
  <2>8. TypeOK' BY <2>1, <2>5, <2>6 DEF TypeOK, Dispatch
  <2>9. StateInv'
    BY <1>1, <2>1, <2>3, <2>5 DEF StateInv, InBatch, Dispatch
  <2>91. \A b \in Calls : /\ InBatch(b)' <=> InBatch(b)
                          /\ cs'[b].key = cs[b].key
                          /\ cs'[b].args = cs[b].args
                          /\ cs'[b].again = cs[b].again
    BY <1>1, <2>3, <2>5 DEF InBatch
  <2>92. UNCHANGED <<phase, todo, left, outs, pend, plan>>
    BY DEF Dispatch
  <2>10. OutsInv' BY <2>1, <2>91, <2>92 DEF OutsInv, Answered
  <2>11. KnownInv'
    <3>1. LastOp(c)' = h BY <2>7 DEF LastOp
    <3>2. \A b \in Calls : b # c => LastOp(b)' = LastOp(b)
      BY <2>6 DEF LastOp
    <3> QED BY <2>1, <2>3, <2>4, <2>5, <2>6, <2>7, <3>1, <3>2
         DEF KnownInv, Answered, Dispatch
  <2>12. ApprovedInv'
    BY <2>1, <2>91, <2>92 DEF ApprovedInv, RunAgainRule
  <2>13. ops[c] # <<>> =>
            /\ MayHaveRun(pend[c])
            /\ h.again \/ RunAgainRule(c, h.args, h.key)
            /\ crashes = 0 => /\ pend[c].key = LastOp(c).key
                              /\ pend[c].args = LastOp(c).args
    BY <1>1, <2>1, <2>3, <2>4
       DEF StateInv, OutsInv, KnownInv, ApprovedInv, InBatch, MayHaveRun
  <2>14. \A i \in DOMAIN ops'[c] : i > 1 /\ i \notin DOMAIN ops[c] =>
            /\ ops[c] # <<>> /\ i = Len(ops[c]) + 1 /\ ops'[c][i] = h
            /\ ops'[c][i - 1] = LastOp(c)
    BY <2>7 DEF LastOp
  <2>15. \A i \in DOMAIN ops[c] : i > 1 => i - 1 \in DOMAIN ops[c]
    BY <2>7
  <2>16. NeverRunsOnce'
    <3>1. NeverRunsOnce BY <2>1 DEF RunAgainIsSafe
    <3> QED BY <2>1, <2>6, <2>7, <2>13, <2>14, <3>1
         DEF NeverRunsOnce, RunAgainRule, Dispatch
  <2>17. KeyedTellsRepeats'
    <3>1. KeyedTellsRepeats BY <2>1 DEF RunAgainIsSafe
    <3> SUFFICES ASSUME crashes = 0, NEW b \in Calls,
                        plan.replay[b] = "keyed",
                        NEW i \in DOMAIN ops'[b], i > 1, ~ops'[b][i].again
                 PROVE  ops'[b][i].key = ops'[b][i - 1].key
                           <=> ops'[b][i].args = ops'[b][i - 1].args
      BY <2>1 DEF KeyedTellsRepeats, Dispatch
    <3>2. CASE b # c BY SMTT(60), <2>6, <3>1, <3>2 DEF KeyedTellsRepeats
    <3>3. CASE b = c /\ i \in DOMAIN ops[c]
      BY SMTT(60), <2>7, <2>15, <3>1, <3>3 DEF KeyedTellsRepeats
    <3>4. CASE b = c /\ i \notin DOMAIN ops[c]
      BY <2>13, <2>14, <3>4 DEF RunAgainRule
    <3> QED BY <3>2, <3>3, <3>4
  <2> QED BY <2>8, <2>9, <2>10, <2>11, <2>12, <2>16, <2>17
       DEF BatchInv, RunAgainIsSafe
<1>4. CASE /\ cs' = [cs EXCEPT ![c].st = "running", ![c].dispatched = TRUE]
           /\ ops' = [ops EXCEPT ![c] = Append(@, h)]
  <2>1. cs' = [cs EXCEPT ![c] = r] BY <1>1, <1>4 DEF CallState
  <2>2. ops' = [ops EXCEPT ![c] = Append(ops[c], h)] BY <1>4
  <2> QED BY <1>3, <2>1, <2>2
<1> QED BY <1>2, <1>4 DEF Dispatch

-----------------------------------------------------------------------------
(* The steps: preflight.                                                   *)

\* Of a call preflight has not reached, and of what a hook may decide of it:
\* one that BeforeToolCall is consulted about has never been handed over.
LEMMA TodoFacts ==
    ASSUME BatchInv, phase = "preflight", NEW c \in todo
    PROVE  /\ c \in Calls /\ cs[c] \in CallState /\ cs[c].st = "outside"
           /\ ~cs[c].ended /\ ~cs[c].settled /\ ~cs[c].deferred
           /\ ~cs[c].dispatched /\ starts[c] = 0 /\ ends[c] = 0
           /\ Consulted(c) => ops[c] = <<>> /\ ~MayHaveRun(pend[c])
           /\ cs[c].args \in {0, 1}
<1>1. /\ c \in Calls /\ cs[c] \in CallState BY DEF BatchInv, TypeOK
<1>2. /\ cs[c].st = "outside" /\ ~cs[c].ended /\ ~cs[c].settled
      /\ ~cs[c].deferred /\ ~cs[c].dispatched
      /\ starts[c] = 0 /\ ends[c] = 0
  BY <1>1 DEF BatchInv, StateInv, InBatch
<1>3. ~Answered(c) BY <1>1 DEF BatchInv, OutsInv
<1>4. Consulted(c) => ~MayHaveRun(pend[c])
  BY <1>1 DEF BatchInv, KnownInv, Consulted, MayHaveRun
<1>5. Consulted(c) => ops[c] = <<>>
  BY <1>1, <1>2, <1>3, <1>4 DEF BatchInv, KnownInv
<1> QED BY <1>1, <1>2, <1>4, <1>5 DEF CallState

\* A call as preflight leaves it, out of the batch or prepared in it, keeps
\* the invariant.
LEMMA Prepares ==
    ASSUME BatchInv, phase = "preflight", NEW c \in todo, todo' = todo \ {c},
           NEW r \in CallState, cs' = [cs EXCEPT ![c] = r],
           phase' \in {"preflight", "cut"},
           r.st \in {"outside", "ready"}, ~r.dispatched,
           r.st = "outside" => ~r.ended /\ ~r.settled /\ ~r.deferred,
           r.key = cs[c].key, r.again = cs[c].again,
           r.args = cs[c].args \/ Consulted(c),
           r.deferred => Consulted(c),
           r.ended => r.settled,
           phase' = "preflight" => /\ r.settled => r.ended
                                   /\ r.deferred => r.settled,
           starts' = [starts EXCEPT ![c] = IF r.st = "ready" THEN 1 ELSE 0],
           ends' = [ends EXCEPT ![c] = IF r.ended THEN 1 ELSE 0],
           UNCHANGED <<run, kind, order, undispatched, failed, left,
                       cancelled, outs, pend, limits, ops>>
    PROVE  BatchInv'
<1> USE DEF limits
<1>1. /\ Calls' = Calls /\ TypeOK /\ StateInv /\ OutsInv /\ KnownInv
      /\ ApprovedInv /\ RunAgainIsSafe
  BY DEF BatchInv, Calls
<1>2. /\ c \in Calls /\ cs[c].st = "outside" /\ ~cs[c].dispatched
      /\ Consulted(c) => ops[c] = <<>> /\ ~MayHaveRun(pend[c])
  BY TodoFacts
<1>3. /\ cs' \in [Calls -> CallState] /\ cs'[c] = r
      /\ \A b \in Calls : b # c => cs'[b] = cs[b]
  BY <1>1, <1>2 DEF TypeOK
<1>4. /\ starts' \in [Calls -> Nat] /\ ends' \in [Calls -> Nat]
      /\ starts'[c] = (IF r.st = "ready" THEN 1 ELSE 0)
      /\ ends'[c] = (IF r.ended THEN 1 ELSE 0)
      /\ \A b \in Calls : b # c => starts'[b] = starts[b] /\ ends'[b] = ends[b]
  BY <1>1, <1>2 DEF TypeOK
<1>5. TypeOK' BY <1>1, <1>3, <1>4 DEF TypeOK, Phases
<1>6. \A b \in Calls : /\ (b \in todo' \/ InBatch(b)') => b \in todo \/ InBatch(b)
                       /\ b # c => (InBatch(b)' <=> InBatch(b))
                       /\ InBatch(c)' <=> r.st # "outside"
  BY <1>2, <1>3 DEF InBatch
<1>7. StateInv' BY <1>1, <1>2, <1>3, <1>4, <1>6 DEF StateInv, InBatch
<1>8. OutsInv'
  <2>1. left = <<>> BY <1>1 DEF OutsInv
  <2> QED BY <1>1, <1>6, <2>1 DEF OutsInv, Answered, Once
<1>9. KnownInv' BY <1>1, <1>2, <1>3 DEF KnownInv, Answered, LastOp
<1>10. ApprovedInv'
  BY <1>1, <1>2, <1>3, <1>6 DEF ApprovedInv, RunAgainRule
<1>11. RunAgainIsSafe'
  BY SMTT(60), <1>1 DEF RunAgainIsSafe, NeverRunsOnce, KeyedTellsRepeats
<1> QED BY <1>5, <1>7, <1>8, <1>9, <1>10, <1>11 DEF BatchInv

\* So does deciding on a call before it runs, one case for each decision.
LEMMA PreflightInv ==
    ASSUME BatchInv, NEW c \in Calls, Preflight(c) PROVE BatchInv'
<1>1. phase = "preflight" /\ c \in todo /\ todo' = todo \ {c}
  BY DEF Preflight
<1>2. /\ cs[c] \in CallState /\ cs[c].st = "outside"
      /\ ~cs[c].ended /\ ~cs[c].settled /\ ~cs[c].deferred
      /\ ~cs[c].dispatched /\ starts[c] = 0 /\ ends[c] = 0
      /\ cs[c].args \in {0, 1}
  BY <1>1, TodoFacts
<1>3. /\ cs \in [Calls -> CallState] /\ starts \in [Calls -> Nat]
      /\ ends \in [Calls -> Nat]
  BY DEF BatchInv, TypeOK
<1>4. CASE /\ Consulted(c) /\ phase' = "cut"
           /\ cs' = [cs EXCEPT ![c].reached = TRUE]
           /\ UNCHANGED <<starts, ends>>
  <2> DEFINE r == [cs[c] EXCEPT !.reached = TRUE]
  <2>1. /\ cs' = [cs EXCEPT ![c] = r] /\ r \in CallState
        /\ r.st = "outside" /\ ~r.dispatched /\ ~r.ended /\ ~r.settled
        /\ ~r.deferred /\ r.key = cs[c].key /\ r.again = cs[c].again
        /\ r.args = cs[c].args
    BY <1>2, <1>3, <1>4 DEF CallState
  <2>2. /\ starts' = [starts EXCEPT ![c] = IF r.st = "ready" THEN 1 ELSE 0]
        /\ ends' = [ends EXCEPT ![c] = IF r.ended THEN 1 ELSE 0]
    BY <1>2, <1>3, <1>4, <2>1
  <2> HIDE DEF r
  <2> QED BY <1>1, <1>4, <2>1, <2>2, Prepares DEF Preflight
<1>5. ASSUME NEW args \in {0, 1}, NEW action \in {"allow", "refuse", "defer"},
             args = cs[c].args \/ Consulted(c),
             action = "defer" => Consulted(c),
             NEW s \in BOOLEAN, NEW e \in BOOLEAN, e => s,
             phase' \in {"preflight", "cut"},
             phase' = "preflight" => (action = "allow" \/ e) /\ (s => e),
             cs' = [cs EXCEPT ![c] =
                      [Prepared(c, args, action) EXCEPT !.settled = s,
                                                       !.ended = e]],
             starts' = [starts EXCEPT ![c] = @ + 1],
             ends' = IF e THEN [ends EXCEPT ![c] = @ + 1] ELSE ends
      PROVE  BatchInv'
  <2> DEFINE r == [Prepared(c, args, action) EXCEPT !.settled = s,
                                                    !.ended = e]
  <2>1. /\ r \in CallState /\ r.st = "ready" /\ ~r.dispatched
        /\ r.ended = e /\ r.settled = s /\ r.deferred = (action = "defer")
        /\ r.key = cs[c].key /\ r.again = cs[c].again /\ r.args = args
    BY ZenonT(60), <1>2, <1>5 DEF CallState, Prepared, States
  <2>3. cs' = [cs EXCEPT ![c] = r] BY <1>5
  <2> HIDE DEF r
  <2>2. /\ starts' = [starts EXCEPT ![c] = IF r.st = "ready" THEN 1 ELSE 0]
        /\ ends' = [ends EXCEPT ![c] = IF r.ended THEN 1 ELSE 0]
    <3>1. starts' = [starts EXCEPT ![c] = 1] BY <1>2, <1>5
    <3>2. CASE e BY <1>2, <1>5, <2>1, <3>1, <3>2
    <3>3. CASE ~e BY <1>2, <1>3, <1>5, <2>1, <3>1, <3>3
    <3> QED BY <3>2, <3>3
  <2> QED BY <1>1, <1>5, <2>1, <2>2, <2>3, Prepares DEF Preflight
<1>6. ASSUME NEW args \in IF Consulted(c) /\ plan.edits THEN {cs[c].args, 1}
                         ELSE {cs[c].args},
             NEW action \in {"allow", "refuse", "defer"},
             action = "defer" => Consulted(c),
             starts' = [starts EXCEPT ![c] = @ + 1],
             LET p == Prepared(c, args, action) IN
              \/ /\ phase' = "cut"
                 /\ cs' = [cs EXCEPT ![c] = p] /\ UNCHANGED ends
              \/ /\ action = "allow" /\ phase' = "preflight"
                 /\ cs' = [cs EXCEPT ![c] = p] /\ UNCHANGED ends
              \/ /\ action # "allow" /\ phase' \in {"preflight", "cut"}
                 /\ cs' = [cs EXCEPT ![c] =
                              [p EXCEPT !.settled = TRUE, !.ended = TRUE]]
                 /\ ends' = [ends EXCEPT ![c] = @ + 1]
              \/ /\ action = "refuse" /\ phase' = "cut"
                 /\ cs' = [cs EXCEPT ![c] = [p EXCEPT !.settled = TRUE]]
                 /\ UNCHANGED ends
      PROVE  BatchInv'
  <2> DEFINE p == Prepared(c, args, action)
  <2>1. args \in {0, 1} /\ (args = cs[c].args \/ Consulted(c))
    BY <1>2, <1>6
  <2>2. /\ p = [p EXCEPT !.settled = FALSE, !.ended = FALSE]
        /\ [p EXCEPT !.settled = TRUE] =
              [p EXCEPT !.settled = TRUE, !.ended = FALSE]
    BY <1>2 DEF Prepared, CallState
  <2> HIDE DEF p
  <2>3. CASE /\ phase' = "cut" \/ (action = "allow" /\ phase' = "preflight")
             /\ cs' = [cs EXCEPT ![c] = p] /\ UNCHANGED ends
    <3>1. cs' = [cs EXCEPT ![c] = [p EXCEPT !.settled = FALSE, !.ended = FALSE]]
      BY <2>2, <2>3
    <3> QED BY <1>5, <1>6, <2>1, <2>3, <3>1 DEF p
  <2>4. CASE /\ action # "allow" /\ phase' \in {"preflight", "cut"}
             /\ cs' = [cs EXCEPT ![c] =
                          [p EXCEPT !.settled = TRUE, !.ended = TRUE]]
             /\ ends' = [ends EXCEPT ![c] = @ + 1]
    BY <1>5, <1>6, <2>1, <2>4 DEF p
  <2>5. CASE /\ action = "refuse" /\ phase' = "cut"
             /\ cs' = [cs EXCEPT ![c] = [p EXCEPT !.settled = TRUE]]
             /\ UNCHANGED ends
    <3>1. cs' = [cs EXCEPT ![c] = [p EXCEPT !.settled = TRUE, !.ended = FALSE]]
      BY <2>2, <2>5
    <3> QED BY <1>5, <1>6, <2>1, <2>5, <3>1 DEF p
  <2> QED BY <1>6, <2>3, <2>4, <2>5 DEF p
<1> QED BY ZenonT(60), <1>4, <1>6 DEF Preflight

\* A step that only moves the batch on to another phase keeps the invariant.
LEMMA PhaseOnlyInv ==
    ASSUME BatchInv, TurnCut \/ PreflightDone \/ AppendDone \/ Abort
    PROVE  BatchInv'
<1> USE DEF limits, batchVars, TurnCut, PreflightDone, AppendDone, Abort
<1>1. /\ Calls' = Calls /\ TypeOK /\ StateInv /\ OutsInv /\ KnownInv
      /\ ApprovedInv /\ RunAgainIsSafe
  BY DEF BatchInv, Calls
<1>2. UNCHANGED <<plan, run, kind, batchVars, outs, pend, crashes, ops>>
  OBVIOUS
<1>3. TypeOK'
  <2>1. phase' \in Phases BY <1>1 DEF TypeOK, Phases
  <2>2. cancelled' \in BOOLEAN BY <1>1 DEF TypeOK
  <2> QED BY <1>1, <1>2, <2>1, <2>2 DEF TypeOK
<1>4. StateInv' BY <1>1, <1>2 DEF StateInv, InBatch
<1>5. OutsInv'
  <2>1. \A c \in Calls : InBatch(c)' <=> InBatch(c) BY <1>2 DEF InBatch
  <2> QED BY <1>1, <1>2, <2>1 DEF OutsInv, Answered, Once
<1>6. KnownInv'
  <2>1. kind' = kind /\ (phase' # "idle" => phase # "idle") OBVIOUS
  <2> QED BY <1>1, <1>2, <2>1 DEF KnownInv, Answered, LastOp
<1>7. ApprovedInv' BY <1>1, <1>2 DEF ApprovedInv, RunAgainRule, InBatch
<1>8. RunAgainIsSafe'
  BY <1>1, <1>2 DEF RunAgainIsSafe, NeverRunsOnce, KeyedTellsRepeats
<1> QED BY <1>3, <1>4, <1>5, <1>6, <1>7, <1>8 DEF BatchInv

-----------------------------------------------------------------------------
(* The steps: the end of a batch.                                          *)

\* A listing in the batch's order is a listing.
LEMMA InOrderType ==
    ASSUME TypeOK, NEW S \in SUBSET Calls, NEW s \in InOrder(S)
    PROVE  /\ s \in Seq(Calls) /\ Once(s)
           /\ \A i \in DOMAIN s : s[i] \in S
<1>1. s \in Listings(S) BY DEF InOrder
<1> QED BY <1>1, ListingType

\* So does the end of the wait for the jobs.
LEMMA DrainedInv == ASSUME BatchInv, Drained PROVE BatchInv'
<1> USE DEF limits
<1>1. /\ Calls' = Calls /\ TypeOK /\ StateInv /\ OutsInv /\ KnownInv
      /\ ApprovedInv /\ RunAgainIsSafe
  BY DEF BatchInv, Calls, Drained
<1>2. /\ phase = "execute" /\ phase' \in {"cut", "append"}
      /\ phase' = "append" => failed = "no"
      /\ todo = {}
  BY <1>1 DEF Drained, StateInv
<1>3. /\ left' \in Seq(Calls) /\ Once(left')
      /\ \A i \in DOMAIN left' : InBatch(left'[i]) /\ left'[i] \in Calls
      /\ phase' = "cut" => left' = <<>>
  <2>1. CASE failed # "no"
    <3>1. left' = <<>> BY <2>1 DEF Drained
    <3> QED BY <3>1 DEF Once
  <2>2. CASE failed = "no" /\ cancelled
    <3>1. PICK S \in SUBSET Calls :
            /\ \A c \in S : InBatch(c)
            /\ left' \in InOrder(S)
      BY <2>2 DEF Drained, Finished, InBatch
    <3> QED BY <1>1, <1>2, <2>2, <3>1, InOrderType DEF Drained
  <2>3. CASE failed = "no" /\ ~cancelled
    <3>1. PICK S \in SUBSET Calls :
            /\ \A c \in S : InBatch(c)
            /\ left' \in InOrder(S)
      BY <2>3 DEF Drained
    <3> QED BY <1>1, <1>2, <2>3, <3>1, InOrderType DEF Drained
  <2> QED BY <2>1, <2>2, <2>3
<1>4. UNCHANGED <<plan, run, kind, order, todo, cs, undispatched, failed,
                  starts, ends, cancelled, outs, pend, crashes, ops>>
  BY DEF Drained
<1>5. TypeOK' BY <1>1, <1>2, <1>3, <1>4 DEF TypeOK, Phases
<1>6. \A c \in Calls : failed = "no" /\ InBatch(c) => cs[c].ended
  BY <1>1, <1>2 DEF Drained, AllReceived, Job, StateInv
<1>7. StateInv' BY <1>1, <1>2, <1>4, <1>6 DEF StateInv, InBatch
<1>8. OutsInv'
  BY <1>1, <1>2, <1>3, <1>4 DEF OutsInv, Answered, Once, InBatch
<1>9. KnownInv' BY <1>1, <1>2, <1>4 DEF KnownInv, Answered, LastOp
<1>10. ApprovedInv' BY <1>1, <1>4 DEF ApprovedInv, RunAgainRule, InBatch
<1>11. RunAgainIsSafe'
  BY <1>1, <1>4 DEF RunAgainIsSafe, NeverRunsOnce, KeyedTellsRepeats
<1> QED BY <1>5, <1>7, <1>8, <1>9, <1>10, <1>11 DEF BatchInv

\* So does cutting a batch: its calls keep their states.
LEMMA CutBatchInv == ASSUME BatchInv, CutBatch PROVE BatchInv'
<1> USE DEF limits
<1>1. /\ Calls' = Calls /\ TypeOK /\ StateInv /\ OutsInv /\ KnownInv
      /\ ApprovedInv /\ RunAgainIsSafe
  BY DEF BatchInv, Calls, CutBatch
<1>2. phase = "cut" /\ phase' = "append" BY DEF CutBatch
<1>3. UNCHANGED <<plan, run, kind, order, todo, undispatched, failed,
                  starts, cancelled, outs, pend, crashes, ops>>
  BY DEF CutBatch
<1>4. \A c \in Calls : cs'[c] =
          IF InBatch(c) /\ ~cs[c].ended
          THEN [cs[c] EXCEPT !.settled = TRUE, !.cut = TRUE, !.ended = TRUE]
          ELSE cs[c]
  BY DEF CutBatch, Unended
<1> DEFINE Cut(c) ==
          /\ cs'[c] \in CallState /\ cs'[c].st = cs[c].st
          /\ cs'[c].key = cs[c].key /\ cs'[c].args = cs[c].args
          /\ cs'[c].again = cs[c].again /\ cs'[c].deferred = cs[c].deferred
          /\ cs'[c].dispatched = cs[c].dispatched
          /\ InBatch(c) => cs'[c].ended /\ (cs[c].ended \/ cs'[c].settled)
          /\ (InBatch(c) /\ ~cs[c].ended) \/ cs'[c] = cs[c]
<1>5. \A c \in Calls : Cut(c)
  <2> SUFFICES ASSUME NEW c \in Calls PROVE Cut(c)
    OBVIOUS
  <2>1. cs[c] \in CallState BY <1>1 DEF TypeOK
  <2> QED BY ZenonT(60), <1>4, <2>1 DEF CallState
<1>6. /\ cs' \in [Calls -> CallState] /\ ends' \in [Calls -> Nat]
      /\ \A c \in Calls : ends'[c] = IF InBatch(c) /\ ~cs[c].ended
                                    THEN ends[c] + 1 ELSE ends[c]
  <2>1. \A c \in Calls : ends[c] \in Nat BY <1>1 DEF TypeOK
  <2>2. ends' = [c \in Calls |-> ends[c] + (IF c \in Unended THEN 1 ELSE 0)]
    BY DEF CutBatch
  <2>3. cs' = [c \in Calls |-> cs'[c]] BY DEF CutBatch
  <2> QED BY <1>5, <2>1, <2>2, <2>3 DEF Unended
<1>7. /\ left' \in Seq(Calls) /\ Once(left')
      /\ \A i \in DOMAIN left' : InBatch(left'[i]) /\ left'[i] \in Calls
  <2>1. PICK S \in SUBSET Calls :
          /\ \A c \in S : cs'[c].st # "outside"
          /\ left' \in InOrder(S)
    BY DEF CutBatch, Finished
  <2>2. \A c \in S : InBatch(c) BY <1>5, <2>1 DEF InBatch
  <2> QED BY <1>1, <2>1, <2>2, InOrderType
<1>8. TypeOK' BY <1>1, <1>2, <1>3, <1>6, <1>7 DEF TypeOK, Phases
<1>9. \A c \in Calls : InBatch(c)' <=> InBatch(c) BY <1>5 DEF InBatch
<1>10. StateInv'
  BY <1>1, <1>2, <1>3, <1>5, <1>6, <1>9 DEF StateInv, InBatch
<1>11. OutsInv'
  BY <1>1, <1>2, <1>3, <1>7, <1>9 DEF OutsInv, Answered, Once
<1>12. KnownInv'
  BY <1>1, <1>2, <1>3, <1>5 DEF KnownInv, Answered, LastOp
<1>13. ApprovedInv'
  BY <1>1, <1>3, <1>5, <1>9 DEF ApprovedInv, RunAgainRule
<1>14. RunAgainIsSafe'
  BY <1>1, <1>3 DEF RunAgainIsSafe, NeverRunsOnce, KeyedTellsRepeats
<1> QED BY <1>8, <1>10, <1>11, <1>12, <1>13, <1>14 DEF BatchInv

\* The head and the tail of a list without repetition.
LEMMA HeadTail ==
    ASSUME NEW T, NEW s \in Seq(T), s # <<>>, Once(s)
    PROVE  /\ Head(s) \in T /\ Tail(s) \in Seq(T) /\ Once(Tail(s))
           /\ 1 \in DOMAIN s /\ Head(s) = s[1]
           /\ \A i \in DOMAIN Tail(s) :
                /\ i + 1 \in DOMAIN s /\ Tail(s)[i] = s[i + 1]
                /\ Tail(s)[i] # Head(s)
<1>1. Len(s) \in Nat /\ Len(s) > 0 /\ DOMAIN s = 1..Len(s) OBVIOUS
<1>2. Tail(s) \in Seq(T) /\ Len(Tail(s)) = Len(s) - 1 OBVIOUS
<1>3. DOMAIN Tail(s) = 1..(Len(s) - 1) BY <1>1, <1>2
<1>4. \A i \in DOMAIN Tail(s) : Tail(s)[i] = s[i + 1] /\ i + 1 \in DOMAIN s
  BY <1>1, <1>3
<1>5. Head(s) = s[1] /\ Head(s) \in T BY <1>1
<1> QED BY <1>1, <1>2, <1>3, <1>4, <1>5 DEF Once

\* So does appending the next output, which answers its call.
LEMMA AppendOutInv == ASSUME BatchInv, AppendOut PROVE BatchInv'
<1> USE DEF limits
<1>1. /\ Calls' = Calls /\ TypeOK /\ StateInv /\ OutsInv /\ KnownInv
      /\ ApprovedInv /\ RunAgainIsSafe
  BY DEF BatchInv, Calls, AppendOut
<1>2. UNCHANGED <<plan, run, kind, order, todo, cs, undispatched, failed,
                  starts, ends, cancelled, pend, crashes, ops>>
  BY DEF AppendOut
<1>3. /\ phase \in {"answers", "append"}
      /\ phase' \in {phase, "run_end"}
      /\ left # <<>> /\ left \in Seq(Calls) /\ outs \in Seq(Calls)
      /\ Once(left) /\ Once(outs)
  BY <1>1 DEF AppendOut, TypeOK, OutsInv
<1> DEFINE h == Head(left)
<1>4. /\ h \in Calls /\ Tail(left) \in Seq(Calls) /\ Once(Tail(left))
      /\ 1 \in DOMAIN left /\ h = left[1]
      /\ \A i \in DOMAIN Tail(left) :
            /\ i + 1 \in DOMAIN left /\ Tail(left)[i] = left[i + 1]
            /\ Tail(left)[i] # h
  BY <1>3, HeadTail
<1>5. ~Answered(h) /\ (phase = "answers" => h \notin todo)
  BY <1>1, <1>4 DEF OutsInv
<1>6. outs' \in {outs, Append(outs, h)} BY DEF AppendOut
<1>7. /\ left' = <<>> \/ left' = Tail(left)
      /\ left' = <<>> \/ phase' = phase
      /\ phase' = "run_end" => left' = <<>>
  BY <1>3 DEF AppendOut
<1> HIDE DEF h
<1>8. /\ Append(outs, h) \in Seq(Calls)
      /\ DOMAIN Append(outs, h) = DOMAIN outs \cup {Len(outs) + 1}
      /\ Append(outs, h)[Len(outs) + 1] = h
      /\ \A i \in DOMAIN outs : Append(outs, h)[i] = outs[i]
      /\ \A i \in DOMAIN outs : i \in 1..Len(outs)
  BY <1>3, <1>4, AppendProps
<1>9. /\ outs' \in Seq(Calls) /\ Once(outs')
      /\ \A c \in Calls : Answered(c) => Answered(c)'
      /\ \A c \in Calls : Answered(c)' => Answered(c) \/ c = h
  <2>1. CASE outs' = outs BY <1>3, <2>1 DEF Answered
  <2>2. CASE outs' = Append(outs, h)
    <3>1. Once(Append(outs, h)) BY <1>3, <1>5, <1>8 DEF Once, Answered
    <3> QED BY <1>8, <2>2, <3>1 DEF Answered
  <2> QED BY <1>6, <2>1, <2>2
<1>10. left' \in Seq(Calls) /\ Once(left')
  <2>1. CASE left' = <<>> BY <2>1 DEF Once
  <2>2. CASE left' = Tail(left) BY <1>4, <2>2
  <2> QED BY <1>7, <2>1, <2>2
<1>11. TypeOK' BY <1>1, <1>2, <1>3, <1>9, <1>10 DEF TypeOK, Phases
<1>12. StateInv' BY <1>1, <1>2, <1>3 DEF StateInv, InBatch
<1>13. OutsInv'
  <2>1. \A i \in DOMAIN left' :
           /\ \A j \in DOMAIN outs' : outs'[j] # left'[i]
           /\ phase = "answers" => left'[i] \notin todo
    <3>1. CASE left' = <<>> BY <3>1
    <3>2. CASE left' = Tail(left)
      <4> SUFFICES ASSUME NEW i \in DOMAIN left'
                   PROVE  /\ \A j \in DOMAIN outs' : outs'[j] # left'[i]
                          /\ phase = "answers" => left'[i] \notin todo
        OBVIOUS
      <4>1. /\ left'[i] = left[i + 1] /\ i + 1 \in DOMAIN left
            /\ left'[i] # h
        BY <1>4, <3>2
      <4>2. /\ ~Answered(left[i + 1])
            /\ phase = "answers" => left[i + 1] \notin todo
        BY <1>1, <4>1 DEF OutsInv
      <4>3. \A j \in DOMAIN outs' : outs'[j] = h \/ \E k \in DOMAIN outs : outs[k] = outs'[j]
        BY <1>6, <1>8
      <4> QED BY <4>1, <4>2, <4>3 DEF Answered
    <3> QED BY <1>7, <3>1, <3>2
  <2>2. phase' = "answers" =>
           \A c \in Calls : c \in todo' \/ InBatch(c)' => ~Answered(c)'
    <3>1. phase' = "answers" => phase = "answers" BY <1>3
    <3>2. phase = "answers" => \A c \in Calls : ~InBatch(c)
      BY <1>1 DEF StateInv, InBatch
    <3> QED BY <1>1, <1>2, <1>5, <1>9, <3>1, <3>2 DEF OutsInv, InBatch
  <2> QED BY <1>2, <1>3, <1>7, <1>9, <1>10, <2>1, <2>2 DEF OutsInv, Answered
<1>14. KnownInv' BY <1>1, <1>2, <1>3, <1>9 DEF KnownInv, LastOp
<1>15. ApprovedInv' BY <1>1, <1>2 DEF ApprovedInv, RunAgainRule, InBatch
<1>16. RunAgainIsSafe'
  BY <1>1, <1>2 DEF RunAgainIsSafe, NeverRunsOnce, KeyedTellsRepeats
<1> QED BY <1>11, <1>12, <1>13, <1>14, <1>15, <1>16 DEF BatchInv

-----------------------------------------------------------------------------
(* The steps: the end of a run, a crash, and Resume.                       *)

\* A run that is over, or a process that died, leaves no batch.
LEMMA BatchGone ==
    ASSUME BatchInv, phase' = "idle", cs' = [c \in Calls |-> Outside],
           starts' = [c \in Calls |-> 0], ends' = [c \in Calls |-> 0],
           order' = <<>>, todo' = {}, undispatched' = {}, failed' = "no",
           left' = <<>>, cancelled' = FALSE, crashes' \in Nat,
           pend' \in [Calls -> PendingCall],
           \A c \in Calls : pend'[c].why # "none" => ~Answered(c),
           UNCHANGED <<plan, run, kind, outs, ops>>
    PROVE  /\ TypeOK' /\ StateInv' /\ OutsInv' /\ ApprovedInv'
           /\ Calls' = Calls
           /\ \A c \in Calls : ~cs'[c].dispatched /\ ~cs'[c].deferred
<1>1. Calls' = Calls /\ TypeOK /\ OutsInv BY DEF BatchInv, Calls
<1>2. \A c \in Calls : /\ cs'[c] = Outside /\ starts'[c] = 0
                       /\ ends'[c] = 0
  OBVIOUS
<1>3. /\ Outside.st = "outside" /\ ~Outside.ended /\ ~Outside.settled
      /\ ~Outside.deferred /\ ~Outside.dispatched
  BY DEF Outside
<1>4. TypeOK'
  <2>1. cs' \in [Calls -> CallState] BY OutsideType
  <2>2. order' \in Seq(Calls) /\ left' \in Seq(Calls) OBVIOUS
  <2>3. starts' \in [Calls -> Nat] /\ ends' \in [Calls -> Nat] OBVIOUS
  <2>4. cancelled' \in BOOLEAN BY Zenon
  <2>5. /\ phase' \in Phases /\ failed' \in {"no", "consumer", "hook"}
        /\ todo' \in SUBSET Calls /\ undispatched' \in SUBSET Calls
    BY DEF Phases
  <2> QED BY <1>1, <2>1, <2>2, <2>3, <2>4, <2>5 DEF TypeOK
<1>5. StateInv' BY <1>1, <1>2, <1>3 DEF StateInv, InBatch
<1>6. OutsInv' BY <1>1 DEF OutsInv, Answered, Once
<1>7. ApprovedInv' BY <1>1, <1>2, <1>3 DEF ApprovedInv, InBatch
<1> QED BY <1>1, <1>2, <1>3, <1>4, <1>5, <1>6, <1>7

\* runner.pending says of each call what the run, or the runs before it,
\* did with it.
LEMMA RunEndInv == ASSUME BatchInv, RunEnd PROVE BatchInv'
<1> USE DEF limits
<1>1. /\ Calls' = Calls /\ TypeOK /\ StateInv /\ OutsInv /\ KnownInv
      /\ ApprovedInv /\ RunAgainIsSafe
  BY DEF BatchInv, Calls, RunEnd
<1>2. \A c \in Calls : /\ pend'[c] = IF ~Answered(c) THEN PendingOf(c)
                                    ELSE NotPending
                       /\ pend[c] \in PendingCall /\ cs[c] \in CallState
  BY <1>1 DEF RunEnd, Owed, TypeOK
<1> DEFINE Told(c) ==
      /\ PendingOf(c) \in PendingCall
      /\ ops[c] # <<>> /\ ~Answered(c) => MayHaveRun(PendingOf(c))
      /\ MayHaveRun(PendingOf(c)) => ops[c] # <<>> \/ crashes > 0
      /\ PendingOf(c).why = "unknown" => crashes > 0
      /\ PendingOf(c).why = "aborted" =>
            /\ ops[c] # <<>>
            /\ PendingOf(c).key = LastOp(c).key
            /\ PendingOf(c).args = LastOp(c).args
<1>3. ASSUME NEW c \in Calls PROVE Told(c)
  <2>1. /\ cs[c].key \in Nat /\ cs[c].args \in {0, 1}
        /\ cs[c].deferred \in BOOLEAN /\ cs[c].dispatched \in BOOLEAN
    BY <1>2 DEF CallState
  <2>2. CASE cs[c].deferred
    <3>1. PendingOf(c) = [why |-> "deferred", key |-> 0, args |-> cs[c].args]
      BY <2>2 DEF PendingOf
    <3>2. ops[c] = <<>> BY <1>1, <2>2 DEF KnownInv
    <3> QED BY <2>1, <3>1, <3>2 DEF PendingCall, MayHaveRun
  <2>3. CASE ~cs[c].deferred /\ cs[c].dispatched
    <3>1. PendingOf(c) =
            [why |-> "aborted", key |-> cs[c].key, args |-> cs[c].args]
      BY <2>3 DEF PendingOf
    <3>2. /\ ops[c] # <<>> /\ cs[c].key = LastOp(c).key
          /\ cs[c].args = LastOp(c).args
      BY <1>1, <2>3 DEF KnownInv
    <3> QED BY <2>1, <3>1, <3>2 DEF PendingCall, MayHaveRun
  <2>4. CASE ~cs[c].deferred /\ ~cs[c].dispatched /\ MayHaveRun(pend[c])
    <3>1. PendingOf(c) = pend[c] BY <2>4 DEF PendingOf
    <3> QED BY <1>1, <1>2, <2>4, <3>1 DEF KnownInv
  <2>5. CASE ~cs[c].deferred /\ ~cs[c].dispatched /\ ~MayHaveRun(pend[c])
    <3>1. \/ PendingOf(c) = [why |-> "undispatched", key |-> 0, args |-> 0]
          \/ PendingOf(c) = pend[c]
      BY <2>5 DEF PendingOf
    <3>2. ~Answered(c) => ops[c] = <<>> BY <1>1, <2>5 DEF KnownInv
    <3> QED BY <1>2, <2>5, <3>1, <3>2 DEF PendingCall, MayHaveRun
  <2> QED BY <2>1, <2>2, <2>3, <2>4, <2>5
<1> HIDE DEF Told
<1>4. NotPending.why = "none" BY DEF NotPending
<1>5. pend' \in [Calls -> PendingCall]
  <2>1. pend' = [c \in Calls |-> pend'[c]] BY DEF RunEnd
  <2>2. \A c \in Calls : pend'[c] \in PendingCall
    BY <1>2, <1>3, OutsideType DEF Told
  <2> QED BY <2>1, <2>2
<1>6. \A c \in Calls : pend'[c].why # "none" => ~Answered(c)
  BY <1>2, <1>4
<1>7. /\ TypeOK' /\ StateInv' /\ OutsInv' /\ ApprovedInv'
      /\ \A c \in Calls : ~cs'[c].dispatched /\ ~cs'[c].deferred
  <2>1. crashes' \in Nat BY <1>1 DEF RunEnd, TypeOK
  <2> QED BY <1>5, <1>6, <2>1, BatchGone DEF RunEnd
<1>8. KnownInv'
  <2>1. phase' = "idle" /\ UNCHANGED <<outs, ops, crashes>>
    BY DEF RunEnd
  <2> QED BY <1>1, <1>2, <1>3, <1>4, <1>7, <2>1
       DEF KnownInv, Told, Answered, LastOp, MayHaveRun
<1>9. RunAgainIsSafe'
  BY <1>1 DEF RunAgainIsSafe, NeverRunsOnce, KeyedTellsRepeats, RunEnd
<1> QED BY <1>7, <1>8, <1>9 DEF BatchInv

\* A crash leaves the record, and what the approvals say of it.
LEMMA CrashInv == ASSUME BatchInv, Crash PROVE BatchInv'
<1>1. /\ Calls' = Calls /\ TypeOK /\ RunAgainIsSafe
  BY DEF BatchInv, Calls, Crash
<1>2. \A c \in Calls : pend'[c] = IF Answered(c) THEN NotPending
                                 ELSE [NotPending EXCEPT !.why = "unknown"]
  BY DEF Crash
<1>3. \A c \in Calls : /\ pend'[c] \in PendingCall
                       /\ pend'[c].why = IF Answered(c) THEN "none"
                                        ELSE "unknown"
  BY <1>2 DEF NotPending, PendingCall
<1>4. pend' \in [Calls -> PendingCall]
  <2>1. pend' = [c \in Calls |-> pend'[c]] BY DEF Crash
  <2> QED BY <1>3, <2>1
<1>5. crashes' \in Nat /\ crashes' > 0 BY <1>1 DEF Crash, TypeOK
<1>6. /\ TypeOK' /\ StateInv' /\ OutsInv' /\ ApprovedInv'
      /\ \A c \in Calls : ~cs'[c].dispatched /\ ~cs'[c].deferred
  BY <1>3, <1>4, <1>5, BatchGone DEF Crash
<1>7. KnownInv'
  <2>1. phase' = "idle" /\ outs' = outs BY DEF Crash
  <2> QED BY <1>1, <1>3, <1>5, <1>6, <2>1 DEF KnownInv, Answered, MayHaveRun
<1>8. RunAgainIsSafe'
  BY <1>1, <1>5 DEF RunAgainIsSafe, NeverRunsOnce, KeyedTellsRepeats, Crash
<1> QED BY <1>6, <1>7, <1>8 DEF BatchInv

\* A Resume takes up the open calls, those approved and those answered.
LEMMA ResumeInv ==
    ASSUME BatchInv, NEW approve, Resume(approve) PROVE BatchInv'
<1> USE DEF limits
<1>1. /\ Calls' = Calls /\ TypeOK /\ StateInv /\ OutsInv /\ KnownInv
      /\ ApprovedInv /\ RunAgainIsSafe
  BY ZenonT(60) DEF BatchInv, Calls, Resume
<1>2. /\ phase = "idle" /\ phase' = "answers" /\ kind' = "resume"
      /\ run' = run + 1 /\ todo' = approve /\ approve \subseteq Calls
      /\ Owing \subseteq Calls
      /\ \A c \in Owing : ~Answered(c)
      /\ approve \subseteq Owing
  BY ZenonT(60), <1>1 DEF Resume, Owing, OutsInv
<1>3. UNCHANGED <<plan, undispatched, failed, starts, ends, cancelled, outs,
                  pend, crashes, ops>>
  BY DEF Resume
<1>4. PICK args \in [approve -> {0, 1}],
           fresh \in IF plan.edits THEN SUBSET approve ELSE {{}},
           again \in SUBSET {c \in approve : MayHaveRun(pend[c])} :
        LET key(c) == IF c \in fresh THEN FreshKey ELSE pend[c].key IN
        /\ \A c \in approve :
              /\ plan.edits \/ args[c] = pend[c].args
              /\ MayApprove(c, args[c], key(c), c \in again)
        /\ cs' = [c \in Calls |->
              IF c \notin approve THEN Outside
              ELSE [Outside EXCEPT
                       !.args = args[c], !.again = (c \in again),
                       !.key = IF key(c) = 0 THEN run + 1 ELSE key(c)]]
  BY DEF Resume
<1> DEFINE key(c) == IF c \in fresh THEN FreshKey ELSE pend[c].key
<1>5. \A c \in Calls : key(c) \in Nat /\ run + 1 \in Nat
  <2>1. FreshKey \in Nat BY <1>1, PlanType DEF TypeOK, FreshKey
  <2>2. \A c \in Calls : pend[c].key \in Nat
    BY <1>1 DEF TypeOK, PendingCall
  <2> QED BY <1>1, <2>1, <2>2 DEF TypeOK
<1>6. \A c \in Calls : cs'[c] =
          IF c \notin approve THEN Outside
          ELSE [Outside EXCEPT
                   !.args = args[c], !.again = (c \in again),
                   !.key = IF key(c) = 0 THEN run + 1 ELSE key(c)]
  BY <1>4
<1>7. \A c \in approve : MayApprove(c, args[c], key(c), c \in again)
  BY <1>4
<1> HIDE DEF key
<1> DEFINE Ready(c) ==
          /\ cs'[c] \in CallState /\ cs'[c].st = "outside"
          /\ ~cs'[c].ended /\ ~cs'[c].settled /\ ~cs'[c].deferred
          /\ ~cs'[c].dispatched
          /\ c \in approve =>
                /\ cs'[c].args = args[c] /\ cs'[c].again = (c \in again)
                /\ key(c) # 0 => cs'[c].key = key(c)
<1>8. \A c \in Calls : Ready(c)
  <2>1. ASSUME NEW c \in Calls, c \notin approve PROVE Ready(c)
    <3>1. cs'[c] = Outside BY <1>6, <2>1
    <3>2. cs'[c] \in CallState BY <3>1, OutsideType
    <3>3. /\ cs'[c].st = "outside" /\ ~cs'[c].ended /\ ~cs'[c].settled
          /\ ~cs'[c].deferred /\ ~cs'[c].dispatched
      BY <3>1 DEF Outside
    <3> QED BY <2>1, <3>2, <3>3
  <2>2. ASSUME NEW c \in approve PROVE Ready(c)
    <3> DEFINE k == IF key(c) = 0 THEN run + 1 ELSE key(c)
               g == (c \in again)
    <3>1. args[c] \in {0, 1} /\ k \in Nat /\ g \in BOOLEAN BY <1>2, <1>5
    <3>2. cs'[c] = [Outside EXCEPT !.args = args[c], !.again = g, !.key = k]
      BY <1>2, <1>6
    <3>3. key(c) # 0 => k = key(c) OBVIOUS
    <3> HIDE DEF k
    <3>4. cs'[c] \in CallState
      BY ZenonT(60), <3>1, <3>2 DEF Outside, CallState, States
    <3> QED BY <3>2, <3>3, <3>4 DEF Outside
  <2> QED BY <2>1, <2>2
<1>9. cs' \in [Calls -> CallState]
  <2>1. cs' = [c \in Calls |-> cs'[c]] BY <1>4
  <2> QED BY <1>8, <2>1
<1>10. /\ order' \in Seq(Calls)
       /\ left' \in Seq(Calls) /\ Once(left')
       /\ \A i \in DOMAIN left' : left'[i] \in Owing \ approve
  <2>1. order' \in Listings(approve) /\ left' \in Listings(Owing \ approve)
    BY DEF Resume
  <2>2. approve \in SUBSET Calls /\ Owing \ approve \in SUBSET Calls
    BY <1>2
  <2> QED BY <1>1, <2>1, <2>2, ListingType
<1>11. TypeOK' BY <1>1, <1>2, <1>3, <1>9, <1>10 DEF TypeOK, Phases
<1>12. StateInv' BY <1>1, <1>2, <1>3, <1>8 DEF StateInv, InBatch
<1>13. OutsInv'
  BY <1>1, <1>2, <1>3, <1>8, <1>10 DEF OutsInv, Answered, InBatch
<1>14. KnownInv'
  <2>1. \A c \in Calls : ~cs[c].dispatched BY <1>1, <1>2 DEF StateInv
  <2> QED BY <1>1, <1>2, <1>3, <1>8, <2>1 DEF KnownInv, Answered, LastOp
<1>15. ApprovedInv'
  <2> SUFFICES ASSUME NEW c \in approve, MayHaveRun(pend[c])
               PROVE  cs'[c].again \/ RunAgainRule(c, cs'[c].args, cs'[c].key)
    BY <1>1, <1>2, <1>3, <1>8 DEF ApprovedInv, RunAgainRule, InBatch
  <2>1. c \in again \/ RunAgainRule(c, args[c], key(c))
    BY <1>7 DEF MayApprove
  <2> QED BY <1>2, <1>8, <2>1 DEF RunAgainRule
<1>16. RunAgainIsSafe'
  BY <1>1, <1>3 DEF RunAgainIsSafe, NeverRunsOnce, KeyedTellsRepeats
<1> QED BY <1>11, <1>12, <1>13, <1>14, <1>15, <1>16 DEF BatchInv

-----------------------------------------------------------------------------
(* The invariant holds.                                                    *)

\* Every step keeps the invariant.
LEMMA StepInv == ASSUME BatchInv, [Next]_vars PROVE BatchInv'
<1>1. CASE UNCHANGED vars
  BY <1>1 DEF vars, batchVars, limits, BatchInv, TypeOK, StateInv, OutsInv,
              KnownInv, ApprovedInv, RunAgainIsSafe, NeverRunsOnce,
              KeyedTellsRepeats, Calls, InBatch, Answered, LastOp,
              RunAgainRule
<1>2. CASE LoopStep
  BY <1>2, PhaseOnlyInv, DrainedInv, CutBatchInv, AppendOutInv, RunEndInv,
     PreflightInv, ReceiveInv, SettleResultInv DEF LoopStep
<1>3. CASE \E c \in Calls : JobStep(c) \/ UpdateRefused(c)
  BY <1>3, JobStartInv, DispatchInv, OnStartCutInv, ToolReturnsInv,
     UpdateRefusedInv DEF JobStep
<1>4. CASE \E approve \in SUBSET Owing : Resume(approve)
  BY <1>4, ResumeInv
<1>5. CASE Abort BY <1>5, PhaseOnlyInv
<1>6. CASE Crash BY <1>6, CrashInv
<1> QED BY <1>1, <1>2, <1>3, <1>4, <1>5, <1>6 DEF Next

\* BatchInv is an invariant of ToolBatch: its states are typed, the events
\* and the state of each call agree with the phase of the loop, outputs are
\* given once, and what the agent remembers of a call is what was done.
THEOREM BatchInvariant == Spec => []BatchInv
  BY InitInv, StepInv, PTL DEF Spec

\* Every tool_start has its one tool_end when a batch's outputs are appended
\* (failBatch, abortBatch, collect), and the pending list of an idle agent
\* tells the calls that may have run, with the key and the arguments of the
\* last hand-off, from those that did not (runner.pending).
THEOREM CallsAccountedFor == Spec => []CallsAreAccountedFor
<1>1. BatchInv => StartEndPaired
  BY DEF BatchInv, StateInv, StartEndPaired, InBatch
<1>2. BatchInv => PendingIsSound
  <2> SUFFICES ASSUME BatchInv, phase = "idle", NEW c \in Owing
               PROVE  /\ ops[c] # <<>> => MayHaveRun(pend[c])
                      /\ MayHaveRun(pend[c]) => ops[c] # <<>> \/ crashes > 0
                      /\ pend[c].why = "aborted" =>
                            /\ pend[c].key = LastOp(c).key
                            /\ pend[c].args = LastOp(c).args
    BY DEF PendingIsSound, LastOp
  <2>1. c \in Calls /\ ~Answered(c) /\ ~cs[c].dispatched
    BY DEF BatchInv, OutsInv, StateInv, Owing
  <2> QED BY <2>1 DEF BatchInv, KnownInv
<1>3. BatchInv => CallsAreAccountedFor
  BY <1>1, <1>2 DEF CallsAreAccountedFor
<1> QED BY <1>3, BatchInvariant, PTL

\* A tool that may not run twice is handed a call once unless an answer says
\* otherwise, and without a crash a keyed tool gets the key of the hand-off
\* before exactly when it gets its arguments: through aborts, failures of
\* hooks and subscribers, crashes and any number of Resumes.
THEOREM RunAgainSafe == Spec => []RunAgainIsSafe
<1>1. BatchInv => RunAgainIsSafe BY DEF BatchInv
<1> QED BY <1>1, BatchInvariant, PTL

-----------------------------------------------------------------------------
(* Calls run in their turn.                                                *)

\* Only the hand-off of a call marks it dispatched.
LEMMA DispatchedBy ==
    ASSUME BatchInv, Next, NEW c \in Calls, cs'[c].dispatched,
           ~cs[c].dispatched
    PROVE  Dispatch(c)
<1>0. \A b \in Calls : cs[b] \in CallState /\ cs \in [Calls -> CallState]
  BY DEF BatchInv, TypeOK
<1>1. ~Outside.dispatched BY DEF Outside
<1>2. ~(TurnCut \/ PreflightDone \/ AppendDone \/ Abort \/ Drained \/ AppendOut)
  BY DEF TurnCut, PreflightDone, AppendDone, Abort, Drained, AppendOut,
         batchVars
<1>3. ~(RunEnd \/ Crash) BY <1>1 DEF RunEnd, Crash
<1>4. ~CutBatch
  <2> SUFFICES ASSUME CutBatch PROVE FALSE
    OBVIOUS
  <2>1. \/ cs'[c] = cs[c]
        \/ cs'[c] = [cs[c] EXCEPT !.settled = TRUE, !.cut = TRUE, !.ended = TRUE]
    BY DEF CutBatch
  <2> QED BY <1>0, <2>1 DEF CallState
<1>5. ASSUME NEW approve, Resume(approve) PROVE FALSE
  <2>1. PICK args \in [approve -> {0, 1}],
             fresh \in IF plan.edits THEN SUBSET approve ELSE {{}},
             again \in SUBSET {b \in approve : MayHaveRun(pend[b])} :
        LET key(b) == IF b \in fresh THEN FreshKey ELSE pend[b].key IN
        /\ \A b \in approve :
              /\ plan.edits \/ args[b] = pend[b].args
              /\ MayApprove(b, args[b], key(b), b \in again)
        /\ cs' = [b \in Calls |->
              IF b \notin approve THEN Outside
              ELSE [Outside EXCEPT
                       !.args = args[b], !.again = (b \in again),
                       !.key = IF key(b) = 0 THEN run + 1 ELSE key(b)]]
    BY <1>5 DEF Resume
  <2> DEFINE k == IF c \in fresh THEN FreshKey ELSE pend[c].key
             n == IF k = 0 THEN run + 1 ELSE k
             g == (c \in again)
  <2>2. cs'[c] = IF c \notin approve THEN Outside
                 ELSE [Outside EXCEPT !.args = args[c], !.again = g, !.key = n]
    BY <2>1
  <2> HIDE DEF k, n, g
  <2> QED BY SMTT(60), <2>2 DEF Outside
<1>6. ASSUME NEW b \in Calls, NEW r, cs' = [cs EXCEPT ![b] = r],
             b = c => r.dispatched = cs[c].dispatched
      PROVE  FALSE
  BY <1>0, <1>6
<1>7. ASSUME NEW b \in Calls,
             \/ JobStart(b) \/ OnStartCut(b) \/ ToolReturns(b)
             \/ UpdateRefused(b) \/ Receive(b)
      PROVE  FALSE
  <2>1. \/ cs' = cs
        \/ cs' = [cs EXCEPT ![b].st = "onstart"]
        \/ cs' = [cs EXCEPT ![b].st = "received"]
        \/ \E e \in {"none", "cancel"} :
              cs' = [cs EXCEPT ![b].st = "returned", ![b].err = e]
    BY SMTT(60), <1>7 DEF JobStart, OnStartCut, ToolReturns, UpdateRefused, Receive
  <2> QED BY <1>0, <2>1 DEF CallState
<1>8. ASSUME NEW b \in Calls, Preflight(b) PROVE FALSE
  <2>2. CASE cs' = [cs EXCEPT ![b].reached = TRUE]
    BY <1>0, <2>2 DEF CallState
  <2>3. ASSUME NEW args, NEW action,
               LET p == Prepared(b, args, action) IN
               \/ cs' = [cs EXCEPT ![b] = p]
               \/ cs' = [cs EXCEPT ![b] =
                            [p EXCEPT !.settled = TRUE, !.ended = TRUE]]
               \/ cs' = [cs EXCEPT ![b] = [p EXCEPT !.settled = TRUE]]
        PROVE  FALSE
    <3> DEFINE p == Prepared(b, args, action)
    <3>1. /\ p.dispatched = cs[b].dispatched
          /\ [p EXCEPT !.settled = TRUE, !.ended = TRUE].dispatched
                = cs[b].dispatched
          /\ [p EXCEPT !.settled = TRUE].dispatched = cs[b].dispatched
      BY SMTT(60), <1>0 DEF Prepared, CallState
    <3> HIDE DEF p
    <3> QED BY ZenonT(60), <1>6, <2>3, <3>1 DEF p
  <2>4. \/ cs' = [cs EXCEPT ![b].reached = TRUE]
        \/ \E args \in {cs[b].args, 1}, action \in {"allow", "refuse", "defer"} :
              LET p == Prepared(b, args, action) IN
              \/ cs' = [cs EXCEPT ![b] = p]
              \/ cs' = [cs EXCEPT ![b] =
                            [p EXCEPT !.settled = TRUE, !.ended = TRUE]]
              \/ cs' = [cs EXCEPT ![b] = [p EXCEPT !.settled = TRUE]]
    BY <1>8 DEF Preflight
  <2> QED BY ZenonT(60), <2>2, <2>3, <2>4
<1>9. ASSUME NEW b \in Calls, SettleResult(b) PROVE FALSE
  <2>1. \/ cs' = [cs EXCEPT ![b].st = "done"]
        \/ \E e \in {"none", "cancel"} : cs' = [cs EXCEPT ![b] = SettledAs(b, e)]
        \/ cs' = [cs EXCEPT ![b].st = "done", ![b].settled = TRUE]
        \/ cs' = [cs EXCEPT ![b].st = "done", ![b].settled = TRUE,
                            ![b].cut = TRUE, ![b].ended = TRUE]
    BY <1>9 DEF SettleResult
  <2>2. /\ \A e : SettledAs(b, e).dispatched = cs[b].dispatched
        /\ [cs[b] EXCEPT !.st = "done"].dispatched = cs[b].dispatched
        /\ [cs[b] EXCEPT !.st = "done", !.settled = TRUE].dispatched
              = cs[b].dispatched
        /\ [cs[b] EXCEPT !.st = "done", !.settled = TRUE, !.cut = TRUE,
                         !.ended = TRUE].dispatched = cs[b].dispatched
    BY <1>0 DEF SettledAs, CallState
  <2>3. CASE cs' = [cs EXCEPT ![b].st = "done"] BY <1>0, <2>2, <2>3
  <2>4. CASE \E e \in {"none", "cancel"} : cs' = [cs EXCEPT ![b] = SettledAs(b, e)]
    BY <1>0, <2>2, <2>4
  <2>5. CASE cs' = [cs EXCEPT ![b].st = "done", ![b].settled = TRUE]
    BY <1>0, <2>2, <2>5
  <2>6. CASE cs' = [cs EXCEPT ![b].st = "done", ![b].settled = TRUE,
                              ![b].cut = TRUE, ![b].ended = TRUE]
    BY <1>0, <2>2, <2>6
  <2> QED BY <2>1, <2>3, <2>4, <2>5, <2>6
<1>10. ASSUME NEW b \in Calls, Dispatch(b), b # c PROVE FALSE
  BY <1>0, <1>10 DEF Dispatch
<1> QED BY <1>2, <1>3, <1>4, <1>5, <1>7, <1>8, <1>9, <1>10
     DEF Next, LoopStep, JobStep

\* The hand-offs grow by Dispatch alone, and outputs are only added.
LEMMA Grows ==
    ASSUME BatchInv, Next
    PROVE  /\ \A c \in Calls : ops'[c] # ops[c] => Dispatch(c)
           /\ outs' = outs \/ \E h : outs' = Append(outs, h) /\ h \in Calls
<1>1. ops \in [Calls -> Seq(HandOff)] /\ left \in Seq(Calls)
  BY DEF BatchInv, TypeOK
<1>2. ASSUME NEW c \in Calls, Dispatch(c)
      PROVE  outs' = outs /\ \A b \in Calls : b # c => ops'[b] = ops[b]
  BY SMTT(60), <1>1, <1>2 DEF Dispatch
<1>3. AppendOut => /\ ops' = ops
                   /\ outs' = outs \/ outs' = Append(outs, Head(left))
                   /\ Head(left) \in Calls
  BY SMTT(60), <1>1 DEF AppendOut
<1>4. ASSUME ~AppendOut, \A c \in Calls : ~Dispatch(c)
      PROVE  ops' = ops /\ outs' = outs
  BY <1>4 DEF Next, LoopStep, JobStep, TurnCut, PreflightDone, Drained,
              CutBatch, AppendDone, RunEnd, Preflight, Receive,
              SettleResult, JobStart, OnStartCut, ToolReturns,
              UpdateRefused, Resume, Abort, Crash
<1> QED BY <1>2, <1>3, <1>4

\* A call is handed over only when those before it in its chain have ended
\* without failing the batch (Executor.Preceding, OnStart), and one with an
\* output is never handed over nor given an output again.
THEOREM CallsRunInTurn == Spec => RunsInTurn
<1> DEFINE InTurn == \A c \in Calls :
        /\ cs'[c].dispatched /\ ~cs[c].dispatched =>
              \A p \in plan.apart[c] :
                  InBatch(p) /\ Before(p, c) => cs[p].ended
        /\ Answered(c) =>
              /\ ops'[c] = ops[c]
              /\ Cardinality({i \in DOMAIN outs' : outs'[i] = c}) = 1
<1>1. ASSUME BatchInv, BatchInv', [Next]_vars PROVE [InTurn]_vars
  <2> SUFFICES ASSUME Next, NEW c \in Calls
               PROVE  /\ cs'[c].dispatched /\ ~cs[c].dispatched =>
                            \A p \in plan.apart[c] :
                                InBatch(p) /\ Before(p, c) => cs[p].ended
                      /\ Answered(c) =>
                            /\ ops'[c] = ops[c]
                            /\ Cardinality({i \in DOMAIN outs' : outs'[i] = c}) = 1
    BY <1>1
  <2>1. ASSUME cs'[c].dispatched, ~cs[c].dispatched,
               NEW p \in plan.apart[c], InBatch(p), Before(p, c)
        PROVE  cs[p].ended
    <3>1. Dispatch(c) /\ p \in Calls
      BY <1>1, <2>1, DispatchedBy, PlanType DEF BatchInv
    <3>2. phase = "execute" /\ MayDispatch(c) /\ failed \in {"no", "consumer", "hook"}
      BY <1>1, <3>1 DEF Dispatch, Executing, BatchInv, TypeOK
    <3>3. CASE Job(p)
      <4>1. p \in After(c) BY <2>1, <3>3 DEF After
      <4>2. cs[p].st = "done" /\ failed = "no"
        BY <3>2, <4>1 DEF MayDispatch, Stopped
      <4> QED BY <1>1, <3>1, <3>2, <4>2 DEF BatchInv, StateInv
    <3>4. CASE ~Job(p)
      BY <1>1, <2>1, <3>1, <3>2, <3>4 DEF BatchInv, StateInv, Job
    <3> QED BY <3>3, <3>4
  <2>2. ASSUME Answered(c) PROVE ops'[c] = ops[c]
    <3>1. ~Dispatch(c)
      BY <1>1, <2>2 DEF BatchInv, OutsInv, Dispatch, Executing, Job
    <3> QED BY <1>1, <3>1, Grows
  <2>3. ASSUME Answered(c)
        PROVE  Cardinality({i \in DOMAIN outs' : outs'[i] = c}) = 1
    <3>1. PICK i \in DOMAIN outs : outs[i] = c BY <2>3 DEF Answered
    <3>2. i \in DOMAIN outs' /\ outs'[i] = c
      <4>1. outs \in Seq(Calls) BY <1>1 DEF BatchInv, TypeOK
      <4>2. CASE outs' = outs BY <3>1, <4>2
      <4>3. ASSUME NEW h \in Calls, outs' = Append(outs, h)
            PROVE  i \in DOMAIN outs' /\ outs'[i] = c
        BY <3>1, <4>1, <4>3, AppendProps
      <4> QED BY <1>1, <4>2, <4>3, Grows
    <3>3. {j \in DOMAIN outs' : outs'[j] = c} = {i}
      BY <1>1, <3>2 DEF BatchInv, OutsInv, Once
    <3> QED BY <3>3, FS_Singleton
  <2> QED BY <2>1, <2>2, <2>3
<1> QED BY <1>1, BatchInvariant, PTL DEF Spec, RunsInTurn
============================================================================
