--------------------------- MODULE RecordProofs ---------------------------
(***************************************************************************)
(* The record of a session's calls, for any calls, hooks, bounds and       *)
(* faults: memory is the record (MemoryIsTheRecord), a call that ran is    *)
(* not read as one that did not (PendingSound), the record is true of the  *)
(* calls (RecordTrue), and repeats are safe (RepeatsSafe).                 *)
(*                                                                         *)
(* LiveIsSeeded compares the callRecord in memory with the one that a      *)
(* recorder which opens the log now would make.  It is not inductive: a    *)
(* withdrawal puts back what the dispatch it takes off had replaced, so    *)
(* the record has to say what that was (UndoInv), a result ends what may   *)
(* be dispatched (ResultInv), and a dispatch on a path that a rewind left  *)
(* stays off the path that grows in its place (BranchInv).                 *)
(*                                                                         *)
(* Most of the invariant is of a path p, the paths l that were left, the   *)
(* run n and a call's record r, which are the variables' or, between two   *)
(* entries that one handler writes, values of its own.                     *)
(*                                                                         *)
(* On it rest SaidInv, what the log says of a call given to its tool;      *)
(* FirmInv, that every path left still says it, for a rewind may go back   *)
(* to any of them; ArgsInv and HandInv, that each hand-off is a dispatch   *)
(* with the arguments in force; and OnceInv and KeyInv, what a call that   *)
(* ran is pending with.  All of it is of behaviours in which refusals      *)
(* hold, which RefusedInv shows the bounds to give (RefusalsStand).        *)
(***************************************************************************)
EXTENDS Record, FiniteSetTheorems, SequenceTheorems, WellFoundedInduction, TLAPS

\* A callRecord; of the arguments it has decided nothing is asked.
RecordType(r) ==
    [known : BOOLEAN, held : BOOLEAN, dispatched : BOOLEAN, rejected : BOOLEAN,
     ended : BOOLEAN, answered : BOOLEAN, unknown : BOOLEAN, drun : Nat,
     again : BOOLEAN, decided : {r.decided}, result : {"none", "own"},
     before : {<<>>} \cup (BOOLEAN \X BOOLEAN \X Nat)]

IsPath(p) == p \in Seq({p[i] : i \in DOMAIN p})

\* A call whose tool returned is not handed over again, and the hand-over
\* that returned was not withdrawn.
ResultInv(p, c) ==
    \A i \in At(p, c, {"result"}) :
        /\ \A j \in At(p, c, {"dispatch"}) : j < i
        /\ \A j \in At(p, c, {"withdraw"}) : j < i
        /\ \E d \in At(p, c, {"dispatch"}) : \A w \in At(p, c, {"withdraw"}) : w < d

\* Those paths that were left have entries of earlier branches alone.
BranchInv(p, l) ==
    /\ IsPath(p) /\ IsFiniteSet(l)
    /\ \A i \in DOMAIN p : p[i].b \in Nat /\ p[i].b <= Cardinality(l)
    /\ \A q \in l :
          /\ IsPath(q)
          /\ \A i \in DOMAIN q : q[i].b \in Nat /\ q[i].b < Cardinality(l)
          /\ \A c \in Calls : ResultInv(q, c)

\* The call was dispatched on another branch alone.
IsOff(p, l, c) == ~Dispatched(p, c) /\ OffPaths(p, l, c) # {}

\* A record agrees with a path.
AgreeInv(p, l, c, r) ==
    /\ r.known <=> Has(p, c, {"call"})
    /\ r.answered <=> r.known /\ Has(p, c, {"output"})
    /\ r.known /\ ~r.answered =>
          /\ r.held <=> Held(p, c)
          /\ r.dispatched <=> Dispatched(p, c)
          /\ r.rejected <=> Has(p, c, {"reject"})
          /\ r.ended <=> Has(p, c, {"answer"})
          /\ r.unknown <=> IsOff(p, l, c)
          /\ r.result = (IF Has(p, c, {"result"}) THEN "own" ELSE "none")
          /\ r.again => ~r.held

\* Run n has handed the call over.
Mine(r, n) == r.dispatched /\ r.drun = n /\ n # 0

\* The last dispatch is the run's own, and what it replaced is kept.
UndoInv(p, l, n, c, r) ==
    r.known /\ ~r.answered /\ Mine(r, n) =>
        /\ r.before # <<>>
        /\ r.before[1] => r.before[3] # n
        /\ \E m \in At(p, c, {"dispatch"}) :
              /\ \A j \in At(p, c, {"dispatch"}) : j <= m
              /\ \A j \in At(p, c, {"withdraw"}) : j < m
              /\ r.before[1] <=> \E i \in Dispatches(p, c) : i < m
              /\ r.before[2] <=> ~r.before[1] /\ OffPaths(p, l, c) # {}

SoundInv(p, l, n, c, r) ==
    /\ r \in RecordType(r)
    /\ AgreeInv(p, l, c, r) /\ UndoInv(p, l, n, c, r) /\ ResultInv(p, c)

\* While a run is on, its start is on the path, and o lists its open calls.
OpenInv(p, n, o) ==
    n # 0 => /\ \E i \in DOMAIN p : p[i].k = "start"
             /\ o = OpenCalls(p)

\* Where the agent is with a call, and what it has made of it.
CallInv(c) ==
    LET r == rec[c] IN
    /\ st[c] = "new" => /\ left = {} /\ r = NoRecord /\ asking[c] = <<>>
                        /\ \A i \in DOMAIN path :
                              path[i].c = c => path[i].k \in {"start", "end"}
    /\ Mine(r, run) =>
          /\ st[c] \in {"handed", "back", "stopped", "over", "gone"}
          /\ st[c] \in {"handed", "back", "stopped"} =>
                r.known /\ ~r.answered /\ r.result = "none"
    /\ r.drun <= nrun
    /\ r.before # <<>> => r.before[3] <= nrun

RunInv ==
    /\ DOMAIN rec = Calls /\ DOMAIN st = Calls /\ DOMAIN asking = Calls
    /\ nrun \in Nat /\ run \in {0, nrun} /\ (phase = "idle" <=> run = 0)

RecordInv ==
    /\ RunInv /\ BranchInv(path, left) /\ OpenInv(path, run, open)
    /\ \A c \in Calls : CallInv(c) /\ SoundInv(path, left, run, c, rec[c])

-----------------------------------------------------------------------------
(* Places on a path.                                                       *)

\* A set of numbers that is not empty and is bounded has a greatest element,
\* which is what Last chooses.
LEMMA LastIs ==
    ASSUME NEW n \in Nat, NEW S, S \subseteq 1..n, S # {}
    PROVE  Last(S) \in S /\ \A j \in S : j <= Last(S)
<1> DEFINE T == {n - j : j \in S}
<1>0. \A j \in S : j \in Nat /\ n - j \in Nat OBVIOUS
<1>1. T \in SUBSET Nat /\ T # {} BY <1>0, Zenon
<1>2. PICK x \in T : \A y \in T : ~(<<y, x>> \in OpToRel(<, Nat))
  BY <1>1, WFMin, NatLessThanWellFounded, Zenon
<1>3. \A y \in T : ~(y < x) BY <1>1, <1>2 DEF OpToRel
<1>4. PICK i \in S : x = n - i OBVIOUS
<1>5. \A j \in S : n - j \in T OBVIOUS
<1> HIDE DEF T
<1>6. \A j \in S : j <= i BY <1>1, <1>3, <1>4, <1>5
<1> QED BY <1>4, <1>6 DEF Last

\* Path p2 is p with one entry more.
Grown(p, e, p2) == IsPath(p) /\ p2 = Append(p, e)

\* Their entries.
LEMMA Grow ==
    ASSUME NEW p, NEW e, NEW p2, Grown(p, e, p2)
    PROVE  /\ IsPath(p2) /\ Len(p) \in Nat /\ Len(p2) = Len(p) + 1
           /\ DOMAIN p = 1..Len(p) /\ DOMAIN p2 = 1..(Len(p) + 1)
           /\ \A i \in DOMAIN p : p2[i] = p[i]
           /\ p2[Len(p) + 1] = e
<1> DEFINE S == {p[i] : i \in DOMAIN p}
<1>1. p \in Seq(S \cup {e}) /\ e \in S \cup {e} /\ p2 = Append(p, e)
  BY DEF Grown, IsPath
<1> HIDE DEF S
<1>2. /\ Len(p) \in Nat /\ Len(p2) = Len(p) + 1
      /\ DOMAIN p = 1..Len(p) /\ DOMAIN p2 = 1..(Len(p) + 1)
      /\ \A i \in DOMAIN p : p2[i] = p[i]
      /\ p2[Len(p) + 1] = e
      /\ p2 \in Seq(S \cup {e})
  BY <1>1
<1>3. p2 \in Seq({p2[i] : i \in DOMAIN p2}) BY <1>2
<1> QED BY <1>2, <1>3 DEF IsPath

\* The places of a call's entries on it, and what they tell.
LEMMA AtGrow ==
    ASSUME NEW p, NEW e, NEW p2, Grown(p, e, p2), NEW c
    PROVE  \A K :
             /\ At(p, c, K) \subseteq 1..Len(p) /\ At(p2, c, K) \subseteq 1..(Len(p) + 1)
             /\ e.c = c /\ e.k \in K => At(p2, c, K) = At(p, c, K) \cup {Len(p) + 1}
             /\ ~(e.c = c /\ e.k \in K) => At(p2, c, K) = At(p, c, K)
             /\ Has(p2, c, K) <=> Has(p, c, K) \/ (e.c = c /\ e.k \in K)
<1> TAKE K
<1>1. /\ Len(p) \in Nat
      /\ DOMAIN p = 1..Len(p) /\ DOMAIN p2 = 1..(Len(p) + 1)
      /\ \A i \in DOMAIN p : p2[i] = p[i]
      /\ p2[Len(p) + 1] = e
  BY Grow
<1>2. 1..(Len(p) + 1) = (1..Len(p)) \cup {Len(p) + 1} /\ Len(p) + 1 \notin 1..Len(p)
  BY <1>1
<1>3. /\ At(p, c, K) \subseteq 1..Len(p) /\ At(p2, c, K) \subseteq 1..(Len(p) + 1)
  BY <1>1 DEF At
<1>4. At(p2, c, K) = At(p, c, K) \cup (IF e.c = c /\ e.k \in K THEN {Len(p) + 1} ELSE {})
  <2> SUFFICES ASSUME NEW i
               PROVE  i \in At(p2, c, K) <=>
                        i \in At(p, c, K) \/ (e.c = c /\ e.k \in K /\ i = Len(p) + 1)
    OBVIOUS
  <2> QED BY <1>1, <1>2 DEF At
<1>5. \A q : Has(q, c, K) <=> At(q, c, K) # {} BY DEF At, Has
<1> QED BY <1>3, <1>4, <1>5, Zenon

\* An entry that is of another call, or no dispatch and no withdrawal,
\* leaves the call's dispatches.
LEMMA DispatchesKept ==
    ASSUME NEW p, NEW e, NEW p2, Grown(p, e, p2), NEW c,
           e.c = c => e.k \notin {"dispatch", "withdraw"}
    PROVE  Dispatches(p2, c) = Dispatches(p, c)
<1>0. \A K :
        /\ At(p, c, K) \subseteq 1..Len(p)
        /\ e.c = c /\ e.k \in K => At(p2, c, K) = At(p, c, K) \cup {Len(p) + 1}
        /\ ~(e.c = c /\ e.k \in K) => At(p2, c, K) = At(p, c, K)
  BY AtGrow
<1>1. /\ At(p2, c, {"dispatch"}) = At(p, c, {"dispatch"})
      /\ At(p2, c, {"withdraw"}) = At(p, c, {"withdraw"})
  BY <1>0
<1> QED BY <1>1 DEF Dispatches

\* A dispatch is added to them.
LEMMA DispatchesAdded ==
    ASSUME NEW p, NEW e, NEW p2, Grown(p, e, p2), NEW c,
           e.c = c, e.k = "dispatch"
    PROVE  Dispatches(p2, c) = Dispatches(p, c) \cup {Len(p) + 1}
<1>0. \A K :
        /\ At(p, c, K) \subseteq 1..Len(p)
        /\ e.c = c /\ e.k \in K => At(p2, c, K) = At(p, c, K) \cup {Len(p) + 1}
        /\ ~(e.c = c /\ e.k \in K) => At(p2, c, K) = At(p, c, K)
  BY AtGrow
<1>1. /\ At(p2, c, {"dispatch"}) = At(p, c, {"dispatch"}) \cup {Len(p) + 1}
      /\ At(p2, c, {"withdraw"}) = At(p, c, {"withdraw"})
      /\ At(p, c, {"dispatch"}) \subseteq 1..Len(p)
      /\ At(p, c, {"withdraw"}) \subseteq 1..Len(p)
  BY <1>0
<1>2. Len(p) \in Nat BY Grow
<1> SUFFICES ASSUME NEW i
             PROVE  i \in Dispatches(p2, c) <=> i \in Dispatches(p, c) \cup {Len(p) + 1}
  OBVIOUS
<1> QED BY <1>1, <1>2 DEF Dispatches

\* A withdrawal takes the last of them off.
LEMMA DispatchesTaken ==
    ASSUME NEW p, NEW e, NEW p2, Grown(p, e, p2), NEW c,
           e.c = c, e.k = "withdraw",
           NEW m \in At(p, c, {"dispatch"}), \A j \in At(p, c, {"dispatch"}) : j <= m
    PROVE  Dispatches(p2, c) = Dispatches(p, c) \ {m}
<1>0. \A K :
        /\ At(p, c, K) \subseteq 1..Len(p)
        /\ e.c = c /\ e.k \in K => At(p2, c, K) = At(p, c, K) \cup {Len(p) + 1}
        /\ ~(e.c = c /\ e.k \in K) => At(p2, c, K) = At(p, c, K)
  BY SMTT(60), AtGrow
<1>1. /\ At(p2, c, {"dispatch"}) = At(p, c, {"dispatch"})
      /\ At(p2, c, {"withdraw"}) = At(p, c, {"withdraw"}) \cup {Len(p) + 1}
      /\ At(p, c, {"dispatch"}) \subseteq 1..Len(p)
      /\ At(p, c, {"withdraw"}) \subseteq 1..Len(p)
  BY <1>0
<1>2. Len(p) \in Nat BY Grow
<1> SUFFICES ASSUME NEW i
             PROVE  i \in Dispatches(p2, c) <=> i \in Dispatches(p, c) \ {m}
  OBVIOUS
<1>3. CASE i \in At(p, c, {"dispatch"}) /\ i # m
  <2>1. i < m /\ m < Len(p) + 1 BY <1>1, <1>2, <1>3
  <2> QED BY <1>1, <1>3, <2>1 DEF Dispatches
<1>4. CASE i = m
  <2>1. ~ \E j \in At(p, c, {"dispatch"}) : m < j BY <1>1, <1>2
  <2>2. m < Len(p) + 1 BY <1>1, <1>2
  <2> QED BY <1>1, <1>4, <2>1, <2>2 DEF Dispatches
<1> QED BY <1>1, <1>3, <1>4 DEF Dispatches

\* The dispatches on other branches are as far off as they were.
LEMMA OffKept ==
    ASSUME NEW p, NEW e, NEW p2, NEW l, BranchInv(p, l), Grown(p, e, p2), NEW c,
           e.b = Cardinality(l)
    PROVE  /\ \A q \in l : OffAt(p2, q, c) = OffAt(p, q, c)
           /\ OffPaths(p2, l, c) = OffPaths(p, l, c)
<1>1. /\ Len(p) \in Nat /\ Len(p2) = Len(p) + 1
      /\ DOMAIN p = 1..Len(p) /\ DOMAIN p2 = 1..(Len(p) + 1)
      /\ \A i \in DOMAIN p : p2[i] = p[i]
      /\ p2[Len(p) + 1] = e
  BY Grow
<1>2. ASSUME NEW q \in l, NEW i \in At(q, c, {"dispatch"})
      PROVE  (i > Len(p2) \/ q[i] # p2[i]) <=> (i > Len(p) \/ q[i] # p[i])
  <2>2. i \in DOMAIN q /\ DOMAIN q = 1..Len(q) /\ Len(q) \in Nat
    BY <1>2 DEF At, BranchInv, IsPath
  <2>3. q[i].b \in Nat /\ q[i].b < Cardinality(l) /\ Cardinality(l) \in Nat
    BY <2>2, FS_CardinalityType DEF BranchInv
  <2>4. i = Len(p) + 1 => q[i] # p2[i] BY <1>1, <2>3
  <2> QED BY <1>1, <2>2, <2>4
<1>3. \A q \in l : OffAt(p2, q, c) = OffAt(p, q, c) BY <1>2 DEF OffAt
<1> QED BY <1>3 DEF OffPaths

\* The path that grows.
LEMMA BranchGrow ==
    ASSUME NEW p, NEW e, NEW l, BranchInv(p, l), e.b = Cardinality(l)
    PROVE  BranchInv(Append(p, e), l)
<1> DEFINE p2 == Append(p, e)
<1>1. /\ Len(p) \in Nat /\ Len(p2) = Len(p) + 1 /\ IsPath(p2)
      /\ DOMAIN p = 1..Len(p) /\ DOMAIN p2 = 1..(Len(p) + 1)
      /\ \A i \in DOMAIN p : p2[i] = p[i]
      /\ p2[Len(p) + 1] = e
  <2>1. Grown(p, e, p2) BY DEF BranchInv, Grown
  <2> HIDE DEF p2
  <2> QED BY <2>1, Grow
<1> HIDE DEF p2
<1>2. Cardinality(l) \in Nat BY FS_CardinalityType DEF BranchInv
<1>3. \A i \in DOMAIN p2 : p2[i].b \in Nat /\ p2[i].b <= Cardinality(l)
  BY <1>1, <1>2 DEF BranchInv
<1>4. BranchInv(p2, l) BY <1>1, <1>3 DEF BranchInv
<1> QED BY <1>4 DEF p2

\* An entry that decides nothing leaves a hold, and a decision is the hold
\* or ends it.
LEMMA HeldKept ==
    ASSUME NEW p, NEW e, NEW p2, Grown(p, e, p2), NEW c,
           e.c = c => e.k \notin Decisions
    PROVE  Held(p2, c) <=> Held(p, c)
<1>1. /\ At(p2, c, Decisions) = At(p, c, Decisions)
      /\ At(p, c, Decisions) \subseteq 1..Len(p)
  BY AtGrow
<1>2. /\ Len(p) \in Nat /\ DOMAIN p = 1..Len(p)
      /\ \A i \in DOMAIN p : p2[i] = p[i]
  BY Grow
<1>3. At(p, c, Decisions) # {} => Last(At(p, c, Decisions)) \in At(p, c, Decisions)
  BY <1>1, <1>2, LastIs
<1> QED BY <1>1, <1>2, <1>3 DEF Held

\* A decision on the call settles whether it is held.
LEMMA HeldSet ==
    ASSUME NEW p, NEW e, NEW p2, Grown(p, e, p2), NEW c,
           e.c = c, e.k \in Decisions
    PROVE  Held(p2, c) <=> e.k = "hold"
<1> DEFINE D == At(p2, c, Decisions)
           N == Len(p) + 1
<1>1. D = At(p, c, Decisions) \cup {N} /\ D \subseteq 1..N BY AtGrow
<1>2. N \in Nat /\ p2[N] = e BY Grow
<1>3. Held(p2, c) <=> D # {} /\ p2[Last(D)].k = "hold" BY DEF Held
<1> HIDE DEF D, N
<1>4. Last(D) \in D /\ \A j \in D : j <= Last(D) BY <1>1, <1>2, LastIs
<1>5. Last(D) = N BY <1>1, <1>2, <1>4
<1> QED BY <1>1, <1>2, <1>3, <1>5

\* What a path says of a call's dispatches is said by path p2 as well.
SameDispatches(p, p2, l, c) ==
    /\ At(p2, c, {"dispatch"}) = At(p, c, {"dispatch"})
    /\ At(p2, c, {"withdraw"}) = At(p, c, {"withdraw"})
    /\ Dispatches(p2, c) = Dispatches(p, c)
    /\ OffPaths(p2, l, c) = OffPaths(p, l, c)

\* As every entry on the present branch does that neither hands the call
\* over nor withdraws it.
LEMMA KeepDispatches ==
    ASSUME NEW p, NEW e, NEW p2, NEW l, BranchInv(p, l), Grown(p, e, p2), NEW c,
           e.b = Cardinality(l), e.c = c => e.k \notin {"dispatch", "withdraw"}
    PROVE  SameDispatches(p, p2, l, c)
<1>1. /\ At(p2, c, {"dispatch"}) = At(p, c, {"dispatch"})
      /\ At(p2, c, {"withdraw"}) = At(p, c, {"withdraw"})
  <2>1. \A K : ~(e.c = c /\ e.k \in K) => At(p2, c, K) = At(p, c, K)
    BY AtGrow
  <2> QED BY <2>1
<1>2. Dispatches(p2, c) = Dispatches(p, c) BY DispatchesKept
<1>3. OffPaths(p2, l, c) = OffPaths(p, l, c) BY OffKept
<1> QED BY <1>1, <1>2, <1>3 DEF SameDispatches

\* The record keeps what it says of the run's dispatch.
LEMMA UndoKept ==
    ASSUME NEW p, NEW p2, NEW l, NEW n, NEW c, NEW r, NEW r2,
           UndoInv(p, l, n, c, r), SameDispatches(p, p2, l, c),
           r2.known /\ ~r2.answered => r.known /\ ~r.answered,
           r2.dispatched <=> r.dispatched, r2.drun = r.drun, r2.before = r.before
    PROVE  UndoInv(p2, l, n, c, r2)
BY DEF UndoInv, SameDispatches, Mine

\* An entry that is no result, of a call whose dispatches stay as they are.
LEMMA ResultKept ==
    ASSUME NEW p, NEW e, NEW p2, NEW l, NEW c, Grown(p, e, p2),
           SameDispatches(p, p2, l, c), e.c = c => e.k # "result", ResultInv(p, c)
    PROVE  ResultInv(p2, c)
<1>1. At(p2, c, {"result"}) = At(p, c, {"result"})
  <2>1. \A K : ~(e.c = c /\ e.k \in K) => At(p2, c, K) = At(p, c, K)
    BY AtGrow
  <2> QED BY <2>1
<1> QED BY <1>1 DEF ResultInv, SameDispatches

-----------------------------------------------------------------------------
(* One entry, of each kind.                                                *)

\* An entry of another call, or of no weight, changes nothing.
LEMMA OtherEntry ==
    ASSUME NEW p, NEW e, NEW p2, NEW l, NEW n, NEW c, NEW r,
           BranchInv(p, l), Grown(p, e, p2), e.b = Cardinality(l),
           e.c = c => e.k \in {"start", "end", "ask", "told"},
           SoundInv(p, l, n, c, r)
    PROVE  SoundInv(p2, l, n, c, r)
<1>1. SameDispatches(p, p2, l, c) BY KeepDispatches
<1>2. UndoInv(p2, l, n, c, r) BY <1>1, UndoKept DEF SoundInv
<1>3. ResultInv(p2, c) BY <1>1, ResultKept DEF SoundInv
<1>4. AgreeInv(p2, l, c, r)
  <2>1. \A K : Has(p2, c, K) <=> Has(p, c, K) \/ (e.c = c /\ e.k \in K)
    BY AtGrow
  <2>2. \A k \in {"call", "output", "reject", "answer", "result"} :
          Has(p2, c, {k}) <=> Has(p, c, {k})
    BY <2>1
  <2>3. Held(p2, c) <=> Held(p, c) BY HeldKept DEF Decisions
  <2> QED BY <1>1, <2>2, <2>3 DEF SoundInv, AgreeInv, SameDispatches, IsOff, Dispatched
<1> QED BY <1>2, <1>3, <1>4 DEF SoundInv

\* A decision of a call that is open.
LEMMA DecisionEntry ==
    ASSUME NEW p, NEW e, NEW p2, NEW l, NEW n, NEW c, NEW r, NEW r2,
           BranchInv(p, l), Grown(p, e, p2), e.b = Cardinality(l),
           e.c = c, e.k \in Decisions,
           SoundInv(p, l, n, c, r), r.known, ~r.answered,
           r2 \in RecordType(r2), r2.known, ~r2.answered,
           r2.held <=> e.k = "hold",
           r2.rejected <=> r.rejected \/ e.k = "reject",
           r2.ended <=> r.ended \/ e.k = "answer",
           r2.again => ~r2.held,
           r2.dispatched <=> r.dispatched, r2.drun = r.drun, r2.before = r.before,
           r2.unknown <=> r.unknown, r2.result = r.result
    PROVE  SoundInv(p2, l, n, c, r2)
<1>0. e.k \notin {"dispatch", "withdraw", "call", "output", "result"}
  BY DEF Decisions
<1>1. SameDispatches(p, p2, l, c) BY <1>0, KeepDispatches
<1>2. UndoInv(p2, l, n, c, r2) BY <1>1, UndoKept DEF SoundInv
<1>3. ResultInv(p2, c) BY <1>0, <1>1, ResultKept DEF SoundInv
<1>4. AgreeInv(p2, l, c, r2)
  <2>1. \A K : Has(p2, c, K) <=> Has(p, c, K) \/ (e.c = c /\ e.k \in K)
    BY AtGrow
  <2>2. /\ \A k \in {"call", "output", "result"} : Has(p2, c, {k}) <=> Has(p, c, {k})
        /\ \A k \in {"reject", "answer"} :
              Has(p2, c, {k}) <=> Has(p, c, {k}) \/ e.k = k
    BY <1>0, <2>1
  <2>3. Held(p2, c) <=> e.k = "hold" BY HeldSet
  <2> QED BY <1>1, <2>2, <2>3 DEF SoundInv, AgreeInv, SameDispatches, IsOff, Dispatched
<1> QED BY <1>2, <1>3, <1>4 DEF SoundInv

\* A dispatch of a call that the run has not dispatched and that has not
\* returned.
LEMMA DispatchEntry ==
    ASSUME NEW p, NEW e, NEW p2, NEW l, NEW n \in Nat \ {0}, NEW c, NEW r, NEW r2,
           BranchInv(p, l), Grown(p, e, p2), e.b = Cardinality(l),
           e.c = c, e.k = "dispatch",
           SoundInv(p, l, n, c, r), r.known, ~r.answered, r.result = "none",
           ~Mine(r, n),
           r2 \in RecordType(r2), r2.known, ~r2.answered, ~r2.again,
           r2.held <=> r.held, r2.rejected <=> r.rejected, r2.ended <=> r.ended,
           r2.result = r.result, r2.dispatched, ~r2.unknown,
           r2.before = <<r.dispatched, r.unknown, r.drun>>
    PROVE  SoundInv(p2, l, n, c, r2)
<1> DEFINE N == Len(p) + 1
<1>0. \A K :
        /\ At(p, c, K) \subseteq 1..Len(p)
        /\ e.k \in K => At(p2, c, K) = At(p, c, K) \cup {N}
        /\ e.k \notin K => At(p2, c, K) = At(p, c, K)
        /\ Has(p2, c, K) <=> Has(p, c, K) \/ e.k \in K
  <2>1. \A K :
          /\ At(p, c, K) \subseteq 1..Len(p)
          /\ e.c = c /\ e.k \in K => At(p2, c, K) = At(p, c, K) \cup {Len(p) + 1}
          /\ ~(e.c = c /\ e.k \in K) => At(p2, c, K) = At(p, c, K)
          /\ Has(p2, c, K) <=> Has(p, c, K) \/ (e.c = c /\ e.k \in K)
    BY ONLY AtGrow, Grown(p, e, p2)
  <2> QED BY <2>1, Zenon
<1>1. /\ Dispatches(p2, c) = Dispatches(p, c) \cup {N}
      /\ OffPaths(p2, l, c) = OffPaths(p, l, c)
      /\ Len(p) \in Nat
      /\ Dispatches(p, c) \subseteq At(p, c, {"dispatch"})
  BY DispatchesAdded, OffKept, Grow DEF Dispatches
<1>2. /\ At(p2, c, {"dispatch"}) = At(p, c, {"dispatch"}) \cup {N}
      /\ At(p2, c, {"withdraw"}) = At(p, c, {"withdraw"})
      /\ At(p2, c, {"result"}) = At(p, c, {"result"})
      /\ At(p, c, {"dispatch"}) \subseteq 1..Len(p)
      /\ At(p, c, {"withdraw"}) \subseteq 1..Len(p)
      /\ \A k \in {"call", "output", "result", "reject", "answer"} :
            Has(p2, c, {k}) <=> Has(p, c, {k})
  BY <1>0
<1>3. At(p, c, {"result"}) = {} BY DEF SoundInv, AgreeInv, Has, At
<1>4. ResultInv(p2, c) BY <1>2, <1>3 DEF ResultInv
<1>5. AgreeInv(p2, l, c, r2)
  <2>1. Held(p2, c) <=> Held(p, c) BY HeldKept DEF Decisions
  <2>2. Dispatched(p2, c) /\ ~IsOff(p2, l, c)
    BY <1>1 DEF Dispatched, IsOff
  <2> QED BY <1>2, <2>1, <2>2 DEF SoundInv, AgreeInv
<1>6. UndoInv(p2, l, n, c, r2)
  <2>1. /\ r2.before # <<>> /\ r2.before[1] = r.dispatched
        /\ r2.before[2] = r.unknown /\ r2.before[3] = r.drun
    OBVIOUS
  <2>2. r2.before[1] => r2.before[3] # n BY <2>1 DEF Mine
  <2>3. /\ N \in At(p2, c, {"dispatch"})
        /\ \A j \in At(p2, c, {"dispatch"}) : j <= N
        /\ \A j \in At(p2, c, {"withdraw"}) : j < N
    BY <1>1, <1>2
  <2>4. (\E i \in Dispatches(p2, c) : i < N) <=> Dispatched(p, c)
    BY <1>1, <1>2 DEF Dispatched
  <2>5. /\ r.dispatched <=> Dispatched(p, c)
        /\ r.unknown <=> ~Dispatched(p, c) /\ OffPaths(p2, l, c) # {}
    BY <1>1 DEF SoundInv, AgreeInv, IsOff
  <2> QED BY <2>1, <2>2, <2>3, <2>4, <2>5 DEF UndoInv
<1> QED BY <1>4, <1>5, <1>6 DEF SoundInv

\* The withdrawal of the run's dispatch, of a call that has not returned:
\* the record is what it was before that dispatch.
LEMMA WithdrawEntry ==
    ASSUME NEW p, NEW e, NEW p2, NEW l, NEW n, NEW c, NEW r, NEW r2,
           BranchInv(p, l), Grown(p, e, p2), e.b = Cardinality(l),
           e.c = c, e.k = "withdraw",
           SoundInv(p, l, n, c, r), r.known, ~r.answered, r.result = "none",
           Mine(r, n),
           r2 \in RecordType(r2), r2.known, ~r2.answered,
           r2.held <=> r.held, r2.rejected <=> r.rejected, r2.ended <=> r.ended,
           r2.result = r.result, r2.again <=> r.again,
           r2.dispatched <=> r.before[1], r2.unknown <=> r.before[2],
           r2.drun = r.before[3]
    PROVE  SoundInv(p2, l, n, c, r2)
<1>1. \A K : /\ ~(e.c = c /\ e.k \in K) => At(p2, c, K) = At(p, c, K)
             /\ Has(p2, c, K) <=> Has(p, c, K) \/ (e.c = c /\ e.k \in K)
  BY AtGrow
<1>2. /\ At(p2, c, {"result"}) = At(p, c, {"result"})
      /\ \A k \in {"call", "output", "result", "reject", "answer"} :
            Has(p2, c, {k}) <=> Has(p, c, {k})
  BY <1>1
<1>3. At(p, c, {"result"}) = {} BY DEF SoundInv, AgreeInv, Has, At
<1>4. ResultInv(p2, c) BY <1>2, <1>3 DEF ResultInv
<1>5. /\ r.before[1] => r.before[3] # n
      /\ \E m \in At(p, c, {"dispatch"}) :
            /\ \A j \in At(p, c, {"dispatch"}) : j <= m
            /\ r.before[1] <=> \E i \in Dispatches(p, c) : i < m
            /\ r.before[2] <=> ~r.before[1] /\ OffPaths(p, l, c) # {}
  BY DEF SoundInv, UndoInv
<1>6. PICK m \in At(p, c, {"dispatch"}) :
            /\ \A j \in At(p, c, {"dispatch"}) : j <= m
            /\ r.before[1] <=> \E i \in Dispatches(p, c) : i < m
            /\ r.before[2] <=> ~r.before[1] /\ OffPaths(p, l, c) # {}
  BY <1>5
<1>7. Dispatches(p2, c) = Dispatches(p, c) \ {m}
  BY <1>6, DispatchesTaken
<1>8. Dispatched(p2, c) <=> r.before[1]
  <2>1. /\ Dispatches(p, c) \subseteq At(p, c, {"dispatch"})
        /\ At(p, c, {"dispatch"}) \subseteq 1..Len(p) /\ Len(p) \in Nat
    BY AtGrow, Grow DEF Dispatches
  <2>2. \A i \in Dispatches(p, c) : i # m <=> i < m BY <1>6, <2>1
  <2> QED BY <1>6, <1>7, <2>2 DEF Dispatched
<1>9. OffPaths(p2, l, c) = OffPaths(p, l, c) BY OffKept
<1>10. AgreeInv(p2, l, c, r2)
  <2>1. Held(p2, c) <=> Held(p, c) BY HeldKept DEF Decisions
  <2>2. r.before[2] <=> IsOff(p2, l, c) BY <1>6, <1>8, <1>9 DEF IsOff
  <2> QED BY <1>2, <1>8, <2>1, <2>2 DEF SoundInv, AgreeInv
<1>11. UndoInv(p2, l, n, c, r2) BY <1>5 DEF UndoInv, Mine
<1> QED BY <1>4, <1>10, <1>11 DEF SoundInv

\* The result of a call that the run dispatched.
LEMMA ResultEntry ==
    ASSUME NEW p, NEW e, NEW p2, NEW l, NEW n, NEW c, NEW r, NEW r2,
           BranchInv(p, l), Grown(p, e, p2), e.b = Cardinality(l),
           e.c = c, e.k = "result",
           SoundInv(p, l, n, c, r), r.known, ~r.answered, Mine(r, n),
           r2 \in RecordType(r2), r2.known, ~r2.answered,
           r2.held <=> r.held, r2.rejected <=> r.rejected, r2.ended <=> r.ended,
           r2.again <=> r.again, r2.dispatched <=> r.dispatched,
           r2.unknown <=> r.unknown, r2.drun = r.drun, r2.before = r.before,
           r2.result = "own"
    PROVE  SoundInv(p2, l, n, c, r2)
<1>1. SameDispatches(p, p2, l, c) BY KeepDispatches
<1>2. UndoInv(p2, l, n, c, r2) BY <1>1, UndoKept DEF SoundInv
<1>3. \A K : /\ At(p, c, K) \subseteq 1..Len(p)
             /\ e.c = c /\ e.k \in K => At(p2, c, K) = At(p, c, K) \cup {Len(p) + 1}
             /\ Has(p2, c, K) <=> Has(p, c, K) \/ (e.c = c /\ e.k \in K)
  BY AtGrow
<1>4. ResultInv(p2, c)
  <2>1. /\ At(p2, c, {"result"}) = At(p, c, {"result"}) \cup {Len(p) + 1}
        /\ At(p, c, {"dispatch"}) \subseteq 1..Len(p)
        /\ At(p, c, {"withdraw"}) \subseteq 1..Len(p)
        /\ Len(p) \in Nat
    BY <1>3, Grow
  <2>2. \E d \in At(p, c, {"dispatch"}) : \A w \in At(p, c, {"withdraw"}) : w < d
    BY DEF SoundInv, UndoInv
  <2>3. /\ \A j \in At(p, c, {"dispatch"}) : j < Len(p) + 1
        /\ \A j \in At(p, c, {"withdraw"}) : j < Len(p) + 1
    BY <2>1
  <2> QED BY <1>1, <2>1, <2>2, <2>3 DEF SoundInv, ResultInv, SameDispatches
<1>5. AgreeInv(p2, l, c, r2)
  <2>1. /\ \A k \in {"call", "output", "reject", "answer"} :
              Has(p2, c, {k}) <=> Has(p, c, {k})
        /\ Has(p2, c, {"result"})
    BY <1>3
  <2>2. Held(p2, c) <=> Held(p, c) BY HeldKept DEF Decisions
  <2> QED BY <1>1, <2>1, <2>2 DEF SoundInv, AgreeInv, SameDispatches, IsOff, Dispatched
<1> QED BY <1>2, <1>4, <1>5 DEF SoundInv

\* The output of a call, known or not.
LEMMA OutputEntry ==
    ASSUME NEW p, NEW e, NEW p2, NEW l, NEW n, NEW c, NEW r, NEW r2,
           BranchInv(p, l), Grown(p, e, p2), e.b = Cardinality(l),
           e.c = c, e.k = "output", SoundInv(p, l, n, c, r),
           r2 \in RecordType(r2), r2.known <=> r.known, r2.answered <=> r.known
    PROVE  SoundInv(p2, l, n, c, r2)
<1>1. SameDispatches(p, p2, l, c) BY KeepDispatches
<1>2. ResultInv(p2, c) BY <1>1, ResultKept DEF SoundInv
<1>3. \A K : Has(p2, c, K) <=> Has(p, c, K) \/ (e.c = c /\ e.k \in K)
  BY AtGrow
<1>4. Has(p2, c, {"output"}) /\ (Has(p2, c, {"call"}) <=> Has(p, c, {"call"}))
  BY <1>3
<1> QED BY <1>2, <1>4 DEF SoundInv, AgreeInv, UndoInv

\* The call itself, where neither the path nor one that was left has it.
LEMMA CallEntry ==
    ASSUME NEW p, NEW e, NEW p2, NEW n, NEW c,
           BranchInv(p, {}), Grown(p, e, p2), e.b = Cardinality({}),
           e.c = c, e.k = "call",
           \A i \in DOMAIN p : p[i].c = c => p[i].k \in {"start", "end"}
    PROVE  SoundInv(p2, {}, n, c, [NoRecord EXCEPT !.known = TRUE])
<1> DEFINE r == [NoRecord EXCEPT !.known = TRUE]
<1>1. /\ r \in RecordType(r) /\ r.known /\ ~r.answered /\ ~r.dispatched
      /\ ~r.held /\ ~r.rejected /\ ~r.ended /\ ~r.unknown /\ ~r.again
      /\ r.result = "none"
  BY DEF NoRecord, RecordType
<1> HIDE DEF r
<1>2. \A K : /\ "start" \notin K /\ "end" \notin K => At(p, c, K) = {} /\ ~Has(p, c, K)
             /\ ~(e.c = c /\ e.k \in K) => At(p2, c, K) = At(p, c, K)
             /\ Has(p2, c, K) <=> Has(p, c, K) \/ (e.c = c /\ e.k \in K)
  <2>1. \A K : "start" \notin K /\ "end" \notin K => At(p, c, K) = {} /\ ~Has(p, c, K)
    BY DEF At, Has
  <2>2. \A K : /\ ~(e.c = c /\ e.k \in K) => At(p2, c, K) = At(p, c, K)
               /\ Has(p2, c, K) <=> Has(p, c, K) \/ (e.c = c /\ e.k \in K)
    BY AtGrow
  <2> QED BY <2>1, <2>2, Zenon
<1>3. /\ Has(p2, c, {"call"})
      /\ \A k \in {"output", "result", "reject", "answer"} : ~Has(p2, c, {k})
      /\ At(p2, c, {"dispatch"}) = {} /\ At(p2, c, {"result"}) = {}
      /\ At(p2, c, Decisions) = {}
  BY <1>2 DEF Decisions
<1>4. /\ ~Held(p2, c) /\ ~Dispatched(p2, c) /\ OffPaths(p2, {}, c) = {}
  BY <1>3 DEF Held, Dispatched, Dispatches, OffPaths
<1> QED BY <1>1, <1>3, <1>4 DEF r, SoundInv, AgreeInv, UndoInv, ResultInv, IsOff, Mine

-----------------------------------------------------------------------------
(* What a handler writes.                                                  *)

Opens == Decisions \cup {"call", "dispatch"}

\* takeUp and close, of one entry.
OpenNow(o, e) ==
    IF e.k = "output" THEN o \ {e.c}
    ELSE IF e.k \in Opens THEN o \cup {e.c} ELSE o

\* The open calls of a run are those that its entries take up and do not
\* close.
LEMMA OpenGrow ==
    ASSUME NEW p, NEW e, NEW p2, Grown(p, e, p2), e.k # "start",
           \E i \in DOMAIN p : p[i].k = "start",
           e.k \in Opens => e.c \in Calls /\ ~Has(p, e.c, {"output"})
    PROVE  /\ \E i \in DOMAIN p2 : p2[i].k = "start"
           /\ OpenCalls(p2) = OpenNow(OpenCalls(p), e)
<1> DEFINE S == {i \in DOMAIN p : p[i].k = "start"}
           S2 == {i \in DOMAIN p2 : p2[i].k = "start"}
           s == Last(S)
<1>1. /\ Len(p) \in Nat
      /\ DOMAIN p = 1..Len(p) /\ DOMAIN p2 = 1..(Len(p) + 1)
      /\ \A i \in DOMAIN p : p2[i] = p[i]
      /\ p2[Len(p) + 1] = e
  BY Grow
<1>2. S2 = S BY <1>1
<1>3. S # {} /\ S \subseteq 1..Len(p) BY <1>1
<1>4. \A c : c \in OpenCalls(p) <=>
               /\ c \in Calls /\ ~Has(p, c, {"output"})
               /\ \E i \in At(p, c, Opens) : i > s
  BY DEF OpenCalls, Opens
<1>5. \A c : c \in OpenCalls(p2) <=>
               /\ c \in Calls /\ ~Has(p2, c, {"output"})
               /\ \E i \in At(p2, c, Opens) : i > s
  <2>1. \A c : c \in OpenCalls(p2) <=>
               /\ c \in Calls /\ ~Has(p2, c, {"output"})
               /\ \E i \in At(p2, c, Opens) : i > Last(S2)
    BY DEF OpenCalls, Opens
  <2> QED BY <1>2, <2>1
<1>6. \E i \in DOMAIN p2 : p2[i].k = "start" BY <1>2, <1>3
<1> HIDE DEF S, S2
<1>7. s \in S /\ s < Len(p) + 1
  <2>1. s \in S BY <1>1, <1>3, LastIs
  <2> HIDE DEF s
  <2>2. s \in 1..Len(p) BY <1>3, <2>1
  <2> QED BY <1>1, <2>1, <2>2
<1> HIDE DEF s
<1>8. ASSUME NEW c
      PROVE  c \in OpenCalls(p2) <=> c \in OpenNow(OpenCalls(p), e)
  <2>1. \A K :
          /\ e.c = c /\ e.k \in K => At(p2, c, K) = At(p, c, K) \cup {Len(p) + 1}
          /\ ~(e.c = c /\ e.k \in K) => At(p2, c, K) = At(p, c, K)
          /\ Has(p2, c, K) <=> Has(p, c, K) \/ (e.c = c /\ e.k \in K)
    BY AtGrow
  <2>2. /\ Has(p2, c, {"output"}) <=>
              Has(p, c, {"output"}) \/ (e.c = c /\ e.k = "output")
        /\ e.c = c /\ e.k \in Opens =>
              At(p2, c, Opens) = At(p, c, Opens) \cup {Len(p) + 1}
        /\ ~(e.c = c /\ e.k \in Opens) => At(p2, c, Opens) = At(p, c, Opens)
    BY <2>1
  <2>3. "output" \notin Opens BY DEF Opens, Decisions
  <2>4. CASE e.c = c /\ e.k \in Opens
    <3>1. \E i \in At(p2, c, Opens) : i > s BY <1>1, <1>7, <2>2, <2>4
    <3> QED BY <1>5, <2>2, <2>3, <2>4, <3>1 DEF OpenNow
  <2>5. CASE ~(e.c = c /\ e.k \in Opens)
    BY <1>4, <1>5, <2>2, <2>5 DEF OpenNow
  <2> QED BY <2>4, <2>5
<1> QED BY <1>6, <1>8

\* What holds between any two entries.
PathInv(p, l, n, o, f) ==
    /\ BranchInv(p, l) /\ OpenInv(p, n, o)
    /\ \A d \in Calls : SoundInv(p, l, n, d, f[d])

\* The entry e is one of call c, which is written with the record r.
GoodEntry(p, l, n, c, e, r) ==
    /\ e.c = c /\ e.b = Cardinality(l)
    /\ e.k \in Opens \cup {"output", "withdraw", "result"}
    /\ e.k \in Opens => ~Has(p, c, {"output"})
    /\ SoundInv(Append(p, e), l, n, c, r)

\* It keeps what holds.
LEMMA EntryKeeps ==
    ASSUME NEW p, NEW l, NEW n, NEW o, NEW f, PathInv(p, l, n, o, f),
           DOMAIN f = Calls, NEW c \in Calls, NEW e, NEW r,
           GoodEntry(p, l, n, c, e, r)
    PROVE  PathInv(Append(p, e), l, n, OpenNow(o, e), [f EXCEPT ![c] = r])
<1> DEFINE p2 == Append(p, e)
<1>1. Grown(p, e, p2) BY DEF Grown, PathInv, BranchInv
<1>2. BranchInv(p2, l) BY BranchGrow DEF PathInv, GoodEntry
<1>3. SoundInv(p2, l, n, c, r) BY DEF GoodEntry
<1> HIDE DEF p2
<1>4. OpenInv(p2, n, OpenNow(o, e))
  <2>1. e.k # "start" /\ (e.k \in Opens => e.c \in Calls /\ ~Has(p, e.c, {"output"}))
    BY DEF GoodEntry, Opens, Decisions
  <2> QED BY <1>1, <2>1, OpenGrow DEF PathInv, OpenInv
<1>5. ASSUME NEW d \in Calls, d # c PROVE SoundInv(p2, l, n, d, f[d])
  <2>1. e.c # d /\ e.b = Cardinality(l) BY <1>5 DEF GoodEntry
  <2>2. BranchInv(p, l) /\ SoundInv(p, l, n, d, f[d]) BY DEF PathInv
  <2> QED BY <1>1, <2>1, <2>2, OtherEntry
<1>6. \A d \in Calls : SoundInv(p2, l, n, d, [f EXCEPT ![c] = r][d])
  BY <1>3, <1>5
<1>7. PathInv(p2, l, n, OpenNow(o, e), [f EXCEPT ![c] = r])
  BY <1>2, <1>4, <1>6 DEF PathInv
<1> QED BY <1>7 DEF p2

\* The steps of a handler, of which there are two at most, over the record
\* r0: each is good where those before it are written.
GoodSteps(p, l, n, c, r0, steps) ==
    /\ SoundInv(p, l, n, c, r0)
    /\ \/ steps = <<>>
       \/ \E e, r : /\ steps = <<[e |-> e, r |-> r]>>
                    /\ GoodEntry(p, l, n, c, e, r)
       \/ \E e, r, e2, r2 :
             /\ steps = <<[e |-> e, r |-> r], [e |-> e2, r |-> r2]>>
             /\ GoodEntry(p, l, n, c, e, r) /\ e.k # "output"
             /\ GoodEntry(Append(p, e), l, n, c, e2, r2)

\* What is the same of the other calls, and what becomes of this one.
Frame(c, r0, steps) ==
    /\ rec' = [rec EXCEPT ![c] = rec'[c]]
    /\ rec'[c] = r0 \/ \E i \in DOMAIN steps : rec'[c] = steps[i].r
    /\ \A i \in DOMAIN path' :
          path'[i].c # c => i \in DOMAIN path /\ path'[i] = path[i]
    /\ left' = left /\ run' = run

\* The entries of a handler's first step, and of its first two.
LEMMA FirstEntries ==
    ASSUME NEW steps, steps \in Seq({steps[i] : i \in DOMAIN steps})
    PROVE  /\ Len(steps) >= 1 => SubSeq(Entries(steps), 1, 1) = <<steps[1].e>>
           /\ Len(steps) >= 2 =>
                 SubSeq(Entries(steps), 1, 2) = <<steps[1].e, steps[2].e>>
<1> DEFINE q == Entries(steps)
           T == {q[i] : i \in DOMAIN q}
<1>1. /\ Len(steps) \in Nat /\ DOMAIN steps = 1..Len(steps)
      /\ q = [i \in 1..Len(steps) |-> steps[i].e]
  BY DEF Entries
<1>2. q \in [1..Len(steps) -> T] /\ \A i \in 1..Len(steps) : q[i] = steps[i].e
  BY <1>1
<1> HIDE DEF q, T
<1>3. q \in Seq(T) /\ Len(q) = Len(steps) BY <1>1, <1>2
<1>4. ASSUME Len(steps) >= 1 PROVE SubSeq(q, 1, 1) = <<q[1]>>
  <2>1. q[1] \in T BY <1>1, <1>2, <1>4
  <2>2. /\ SubSeq(q, 1, 1) \in Seq(T) /\ Len(SubSeq(q, 1, 1)) = 1
        /\ SubSeq(q, 1, 1)[1] = q[1]
    BY <1>1, <1>3, <1>4, SubSeqProperties
  <2> DEFINE a == SubSeq(q, 1, 1)
             b == <<q[1]>>
  <2>3. b \in Seq(T) /\ Len(b) = 1 /\ b[1] = q[1] BY <2>1
  <2>4. a \in Seq(T) /\ Len(a) = 1 /\ a[1] = q[1] BY <2>2
  <2> HIDE DEF a, b
  <2>5. Len(a) = Len(b) /\ \A i \in 1..Len(a) : a[i] = b[i]
    BY <2>3, <2>4
  <2>6. a = b BY <2>3, <2>4, <2>5, SeqEqual
  <2> QED BY <2>6 DEF a, b
<1>5. ASSUME Len(steps) >= 2 PROVE SubSeq(q, 1, 2) = <<q[1], q[2]>>
  <2>1. q[1] \in T /\ q[2] \in T BY <1>1, <1>2, <1>5
  <2>2. /\ SubSeq(q, 1, 2) \in Seq(T) /\ Len(SubSeq(q, 1, 2)) = 2
        /\ SubSeq(q, 1, 2)[1] = q[1] /\ SubSeq(q, 1, 2)[2] = q[2]
    BY <1>1, <1>3, <1>5, SubSeqProperties
  <2> DEFINE a == SubSeq(q, 1, 2)
             b == <<q[1], q[2]>>
  <2>3. b \in Seq(T) /\ Len(b) = 2 /\ b[1] = q[1] /\ b[2] = q[2] BY <2>1
  <2>4. a \in Seq(T) /\ Len(a) = 2 /\ a[1] = q[1] /\ a[2] = q[2] BY <2>2
  <2> HIDE DEF a, b
  <2>5. Len(a) = Len(b) /\ \A i \in 1..Len(a) : a[i] = b[i]
    BY <2>3, <2>4
  <2>6. a = b BY <2>3, <2>4, <2>5, SeqEqual
  <2> QED BY <2>6 DEF a, b
<1> QED BY <1>1, <1>2, <1>4, <1>5 DEF q

\* A handler that writes none, one or two of its steps keeps what holds.
LEMMA WriteNone ==
    ASSUME NEW c \in Calls, NEW r0, NEW steps, DOMAIN rec = Calls,
           PathInv(path, left, run, open, rec), SoundInv(path, left, run, c, r0),
           Written(c, r0, steps, 0)
    PROVE  /\ PathInv(path, left, run, open, rec)'
           /\ Frame(c, r0, steps) /\ rec'[c] = r0
<1>1. SubSeq(Entries(steps), 1, 0) = <<>> OBVIOUS
<1>2. /\ path' = path \o <<>> /\ rec' = [rec EXCEPT ![c] = r0]
      /\ open' = OpenAfter(c, <<>>) /\ left' = left /\ run' = run
  BY <1>1 DEF Written
<1>3. path' = path BY <1>2 DEF PathInv, BranchInv, IsPath
<1>4. open' = open BY <1>2 DEF OpenAfter
<1>5. PathInv(path', left', run', open', rec')
  BY <1>2, <1>3, <1>4 DEF PathInv
<1>6. Frame(c, r0, steps) /\ rec'[c] = r0 BY <1>2, <1>3 DEF Frame
<1> QED BY <1>5, <1>6

\* A handler that wrote its first entry keeps what the path shows.
LEMMA WriteOne ==
    ASSUME NEW c \in Calls, NEW r0, NEW steps, DOMAIN rec = Calls,
           PathInv(path, left, run, open, rec), NEW e, NEW r,
           steps \in Seq({steps[i] : i \in DOMAIN steps}), Len(steps) >= 1,
           steps[1].e = e, steps[1].r = r, GoodEntry(path, left, run, c, e, r),
           Written(c, r0, steps, 1)
    PROVE  /\ PathInv(path, left, run, open, rec)'
           /\ Frame(c, r0, steps) /\ rec'[c] = r
<1>1. SubSeq(Entries(steps), 1, 1) = <<e>> BY FirstEntries
<1>2. /\ path' = path \o <<e>> /\ rec' = [rec EXCEPT ![c] = r]
      /\ open' = OpenAfter(c, <<e>>) /\ left' = left /\ run' = run
  <2>1. /\ path' = path \o SubSeq(Entries(steps), 1, 1)
        /\ rec' = [rec EXCEPT ![c] = r]
        /\ open' = OpenAfter(c, SubSeq(Entries(steps), 1, 1))
        /\ left' = left /\ run' = run
    BY DEF Written
  <2> QED BY <1>1, <2>1, Zenon
<1>3. path' = Append(path, e) BY <1>2 DEF PathInv, BranchInv, IsPath
<1>4. open' = OpenNow(open, e)
  BY <1>2 DEF OpenAfter, OpenNow, Opens, GoodEntry
<1>5. PathInv(path', left', run', open', rec')
  <2>1. PathInv(Append(path, e), left, run, OpenNow(open, e), [rec EXCEPT ![c] = r])
    BY EntryKeeps
  <2> QED BY <1>2, <1>3, <1>4, <2>1, Zenon
<1>6. Frame(c, r0, steps) /\ rec'[c] = r
  <2>1. Grown(path, e, path') BY <1>3 DEF Grown, PathInv, BranchInv
  <2>2. \A i \in DOMAIN path' :
          path'[i].c # c => i \in DOMAIN path /\ path'[i] = path[i]
    BY <2>1, Grow DEF GoodEntry
  <2>3. 1 \in DOMAIN steps OBVIOUS
  <2> QED BY <1>2, <2>2, <2>3 DEF Frame
<1> QED BY <1>5, <1>6

\* So does one that wrote two, where the second is good after the first.
LEMMA WriteTwo ==
    ASSUME NEW c \in Calls, NEW r0, NEW steps, DOMAIN rec = Calls,
           PathInv(path, left, run, open, rec), NEW e, NEW r, NEW e2, NEW r2,
           steps = <<[e |-> e, r |-> r], [e |-> e2, r |-> r2]>>,
           GoodEntry(path, left, run, c, e, r), e.k # "output",
           GoodEntry(Append(path, e), left, run, c, e2, r2),
           Written(c, r0, steps, 2)
    PROVE  /\ PathInv(path, left, run, open, rec)'
           /\ Frame(c, r0, steps) /\ rec'[c] = r2
<1> DEFINE p1 == Append(path, e)
<1>1. SubSeq(Entries(steps), 1, 2) = <<e, e2>>
  <2>1. /\ steps \in Seq({steps[i] : i \in DOMAIN steps}) /\ Len(steps) = 2
        /\ steps[1].e = e /\ steps[2].e = e2
    OBVIOUS
  <2> QED BY ONLY SMTT(60), <2>1, FirstEntries
<1>2. /\ path' = path \o <<e, e2>> /\ rec' = [rec EXCEPT ![c] = r2]
      /\ open' = OpenAfter(c, <<e, e2>>) /\ left' = left /\ run' = run
  <2>1. /\ path' = path \o SubSeq(Entries(steps), 1, 2)
        /\ rec' = [rec EXCEPT ![c] = r2]
        /\ open' = OpenAfter(c, SubSeq(Entries(steps), 1, 2))
        /\ left' = left /\ run' = run
    <3>1. steps[2].r = r2 OBVIOUS
    <3> QED BY ONLY <3>1, Written(c, r0, steps, 2) DEF Written
  <2> QED BY <1>1, <2>1, Zenon
<1>3. path' = Append(p1, e2) BY <1>2 DEF PathInv, BranchInv, IsPath
<1>4. open' = OpenNow(OpenNow(open, e), e2)
  <2>1. \A K : (\E i \in DOMAIN <<e, e2>> : <<e, e2>>[i].k \in K) <=>
                 e.k \in K \/ e2.k \in K
    OBVIOUS
  <2>2. /\ (\E i \in DOMAIN <<e, e2>> : <<e, e2>>[i].k \in {"output"}) <=>
              e2.k = "output"
        /\ (\E i \in DOMAIN <<e, e2>> :
                <<e, e2>>[i].k \in Decisions \cup {"call", "dispatch"}) <=>
              e.k \in Opens \/ e2.k \in Opens
    BY <2>1 DEF Opens
  <2>3. OpenAfter(c, <<e, e2>>) =
          IF e2.k = "output" THEN open \ {c}
          ELSE IF e.k \in Opens \/ e2.k \in Opens THEN open \cup {c} ELSE open
    BY <2>2, Zenon DEF OpenAfter
  <2>4. e.c = c /\ e2.c = c BY DEF GoodEntry
  <2> QED BY <1>2, <2>3, <2>4 DEF OpenNow
<1>5. PathInv(p1, left, run, OpenNow(open, e), [rec EXCEPT ![c] = r])
  BY EntryKeeps
<1>6. Grown(path, e, p1) BY DEF Grown, PathInv, BranchInv
<1>7. GoodEntry(p1, left, run, c, e2, r2) OBVIOUS
<1> HIDE DEF p1
<1>8. Grown(p1, e2, path') BY <1>3, <1>5 DEF Grown, PathInv, BranchInv
<1>9. PathInv(path', left', run', open', rec')
  <2> DEFINE f == [rec EXCEPT ![c] = r]
  <2>1. DOMAIN f = Calls /\ [f EXCEPT ![c] = r2] = [rec EXCEPT ![c] = r2]
    OBVIOUS
  <2>2. PathInv(Append(p1, e2), left, run, OpenNow(OpenNow(open, e), e2),
                [f EXCEPT ![c] = r2])
    <3> HIDE DEF f
    <3> QED BY <1>5, <1>7, <2>1, EntryKeeps DEF f
  <2> QED BY <1>2, <1>3, <1>4, <2>1, <2>2
<1>10. Frame(c, r0, steps) /\ rec'[c] = r2
  <2>1. \A i \in DOMAIN path' :
          path'[i].c # c => i \in DOMAIN path /\ path'[i] = path[i]
    BY <1>6, <1>7, <1>8, Grow DEF GoodEntry
  <2>2. 2 \in DOMAIN steps /\ steps[2].r = r2 OBVIOUS
  <2> QED BY <1>2, <2>1, <2>2 DEF Frame
<1> QED BY <1>9, <1>10

\* So does the handler of an event, whether it takes the event or fails.
LEMMA HandlerKeeps ==
    ASSUME NEW c \in Calls, NEW r0, NEW steps, DOMAIN rec = Calls,
           PathInv(path, left, run, open, rec),
           GoodSteps(path, left, run, c, r0, steps),
           Taken(c, r0, steps) \/ Failed(c, r0, steps)
    PROVE  PathInv(path, left, run, open, rec)' /\ Frame(c, r0, steps)
<1>0. SoundInv(path, left, run, c, r0) BY DEF GoodSteps
<1>1. CASE steps = <<>>
  <2>1. Len(steps) = 0 /\ 0..(Len(steps) - 1) = {} BY <1>1
  <2>2. Written(c, r0, steps, 0) BY <2>1 DEF Taken, Failed
  <2> QED BY <1>0, <2>2, WriteNone
<1>2. ASSUME NEW e, NEW r, steps = <<[e |-> e, r |-> r]>>,
             GoodEntry(path, left, run, c, e, r)
      PROVE  PathInv(path, left, run, open, rec)' /\ Frame(c, r0, steps)
  <2>1. /\ Len(steps) = 1 /\ 0..(Len(steps) - 1) = {0}
        /\ steps \in Seq({steps[i] : i \in DOMAIN steps})
        /\ steps[1].e = e /\ steps[1].r = r
    BY <1>2
  <2>2. Written(c, r0, steps, 0) \/ Written(c, r0, steps, 1)
    BY ONLY <2>1, Taken(c, r0, steps) \/ Failed(c, r0, steps) DEF Taken, Failed
  <2>3. CASE Written(c, r0, steps, 0) BY <1>0, <2>3, WriteNone
  <2>4. CASE Written(c, r0, steps, 1)
    <3>1. Len(steps) >= 1 BY <2>1
    <3>2. GoodEntry(path, left, run, c, e, r) BY <1>2
    <3> QED BY ONLY <2>1, <2>4, <3>1, <3>2, c \in Calls, DOMAIN rec = Calls,
                    PathInv(path, left, run, open, rec), WriteOne
  <2> QED BY <2>2, <2>3, <2>4
<1>3. ASSUME NEW e, NEW r, NEW e2, NEW r2,
             steps = <<[e |-> e, r |-> r], [e |-> e2, r |-> r2]>>,
             GoodEntry(path, left, run, c, e, r), e.k # "output",
             GoodEntry(Append(path, e), left, run, c, e2, r2)
      PROVE  PathInv(path, left, run, open, rec)' /\ Frame(c, r0, steps)
  <2>1. /\ Len(steps) = 2 /\ 0..(Len(steps) - 1) = {0, 1}
        /\ steps \in Seq({steps[i] : i \in DOMAIN steps})
        /\ steps[1].e = e /\ steps[1].r = r
    BY <1>3
  <2>2. Written(c, r0, steps, 0) \/ Written(c, r0, steps, 1) \/ Written(c, r0, steps, 2)
    BY ONLY <2>1, Taken(c, r0, steps) \/ Failed(c, r0, steps) DEF Taken, Failed
  <2>3. CASE Written(c, r0, steps, 0) BY <1>0, <2>3, WriteNone
  <2>4. CASE Written(c, r0, steps, 1)
    <3>1. Len(steps) >= 1 BY <2>1
    <3>2. GoodEntry(path, left, run, c, e, r) BY <1>3
    <3> QED BY ONLY SMTT(60), <2>1, <2>4, <3>1, <3>2, c \in Calls, DOMAIN rec = Calls,
                    PathInv(path, left, run, open, rec), WriteOne
  <2>5. CASE Written(c, r0, steps, 2) BY <1>3, <2>5, WriteTwo
  <2> QED BY <2>2, <2>3, <2>4, <2>5
<1> QED BY <1>1, <1>2, <1>3 DEF GoodSteps

-----------------------------------------------------------------------------
(* Each handler's steps are good.                                          *)

\* An entry as the recorder makes it.
LEMMA EntryIs ==
    ASSUME NEW k, NEW c, NEW v
    PROVE  /\ Entry(k, c, v).k = k /\ Entry(k, c, v).c = c
           /\ Entry(k, c, v).b = Cardinality(left)
BY DEF Entry

\* The record has not moved with respect to the call's dispatch.
SameHand(r, r2) ==
    /\ r2.dispatched = r.dispatched /\ r2.drun = r.drun /\ r2.before = r.before
    /\ r2.known = r.known /\ r2.answered = r.answered /\ r2.result = r.result

\* toolStart's record.
LEMMA StartRecordSound ==
    ASSUME NEW p, NEW l, NEW c, NEW r, NEW d, NEW args,
           SoundInv(p, l, run, c, r), ~StartRefused(r)
    PROVE  /\ SoundInv(p, l, run, c, StartRecord(r, d, args))
           /\ SameHand(r, StartRecord(r, d, args))
<1> DEFINE r2 == StartRecord(r, d, args)
<1>1. r \in RecordType(r) BY DEF SoundInv
<1>2. /\ r2 \in RecordType(r2) /\ SameHand(r, r2)
      /\ r2.held = r.held /\ r2.rejected = r.rejected /\ r2.ended = r.ended
      /\ r2.unknown = r.unknown
      /\ r2 = r \/ (r2.again => ~r2.held)
  <2>1. CASE r2 = r BY <1>1, <2>1 DEF SameHand
  <2>2. CASE r2 = [r EXCEPT !.again = FALSE,
                       !.decided = IF Carries(r, args) THEN args ELSE @]
    BY <1>1, <2>2 DEF SameHand, RecordType
  <2>3. CASE /\ r2 = [r EXCEPT !.again = (r.dispatched /\ r.drun # run), !.held = FALSE]
             /\ ~r.held
    BY <1>1, <2>3 DEF SameHand, RecordType
  <2> QED BY <2>1, <2>2, <2>3 DEF StartRecord
<1> HIDE DEF r2
<1> QED BY <1>2 DEF SoundInv, AgreeInv, UndoInv, Mine, SameHand, r2

\* A decision's record.
Decides(k, r, r2) ==
    /\ r2 \in RecordType(r2) /\ SameHand(r, r2)
    /\ r2.held <=> k = "hold"
    /\ r2.rejected <=> r.rejected \/ k = "reject"
    /\ r2.ended <=> r.ended \/ k = "answer"
    /\ r2.again => ~r2.held
    /\ r2.unknown = r.unknown

\* A decision may be written for a call that is on the path and unanswered.
LEMMA DecisionGood ==
    ASSUME NEW p, NEW c, NEW r, NEW r2, NEW k \in Decisions, NEW v,
           BranchInv(p, left), SoundInv(p, left, run, c, r),
           r.known, ~r.answered, Decides(k, r, r2)
    PROVE  GoodEntry(p, left, run, c, Entry(k, c, v), r2)
<1> DEFINE e == Entry(k, c, v)
           p2 == Append(p, e)
<1>1. e.k = k /\ e.c = c /\ e.b = Cardinality(left) BY EntryIs
<1>2. Grown(p, e, p2) BY DEF Grown, BranchInv
<1>3. ~Has(p, c, {"output"}) BY DEF SoundInv, AgreeInv
<1>4. e.k \in Opens BY <1>1 DEF Opens
<1> HIDE DEF e, p2
<1>5. SoundInv(p2, left, run, c, r2)
  BY <1>1, <1>2, DecisionEntry DEF Decides, SameHand
<1> QED BY <1>1, <1>3, <1>4, <1>5 DEF GoodEntry, e, p2

\* toolStart writes one decision, or none.
LEMMA StartGood ==
    ASSUME NEW c, NEW r, NEW d, NEW args, BranchInv(path, left),
           SoundInv(path, left, run, c, r), ~StartRefused(r)
    PROVE  LET r0 == StartRecord(r, d, args) steps == StartSteps(c, r, d, args) IN
           /\ GoodSteps(path, left, run, c, r0, steps)
           /\ SameHand(r, r0) /\ \A i \in DOMAIN steps : SameHand(r, steps[i].r)
<1> DEFINE r0 == StartRecord(r, d, args)
           steps == StartSteps(c, r, d, args)
           v == IF Carries(r, args) THEN args ELSE 2
           q == [r EXCEPT !.again = FALSE]
<1>0. SoundInv(path, left, run, c, r0) /\ SameHand(r, r0)
  BY StartRecordSound
<1>1. r \in RecordType(r) /\ r0 \in RecordType(r0) BY <1>0 DEF SoundInv
<1>2. CASE steps = <<>> BY <1>0, <1>2 DEF GoodSteps
<1>3. ASSUME NEW k \in Decisions, NEW w, NEW r2, steps = Step(k, c, w, r2),
             r.known, ~r.answered, Decides(k, r, r2)
      PROVE  /\ GoodSteps(path, left, run, c, r0, steps)
             /\ \A i \in DOMAIN steps : SameHand(r, steps[i].r)
  <2>1. GoodEntry(path, left, run, c, Entry(k, c, w), r2)
    BY <1>3, DecisionGood
  <2>2. steps = <<[e |-> Entry(k, c, w), r |-> r2]>> BY <1>3 DEF Step
  <2> HIDE DEF steps, r0
  <2>3. DOMAIN steps = {1} /\ steps[1].r = r2 BY <2>2
  <2> QED BY <1>0, <1>3, <2>1, <2>2, <2>3 DEF GoodSteps, Decides
<1>4. steps # <<>> => r.known /\ ~r.answered /\ ~r.rejected /\ ~r.ended
  BY <1>1 DEF StartSteps, StartRefused, RecordType
<1>5. CASE steps # <<>> /\ d = "block" /\ (r.dispatched \/ r.unknown)
  <2> DEFINE r2 == [q EXCEPT !.held = FALSE, !.ended = TRUE]
  <2>1. steps = Step("answer", c, 0, r2) BY <1>4, <1>5 DEF StartSteps
  <2>2. Decides("answer", r, r2)
    BY <1>1, <1>4, <1>5 DEF Decides, SameHand, RecordType
  <2> QED BY <1>0, <1>3, <1>4, <1>5, <2>1, <2>2 DEF Decisions
<1>6. CASE steps # <<>> /\ d = "block" /\ ~(r.dispatched \/ r.unknown)
  <2> DEFINE r2 == [q EXCEPT !.held = FALSE, !.rejected = TRUE]
  <2>1. steps = Step("reject", c, 0, r2) BY <1>4, <1>6 DEF StartSteps
  <2>2. Decides("reject", r, r2)
    BY <1>1, <1>4, <1>6 DEF Decides, SameHand, RecordType
  <2> QED BY <1>0, <1>3, <1>4, <1>6, <2>1, <2>2 DEF Decisions
<1>7. CASE steps # <<>> /\ d = "defer"
  <2> DEFINE r2 == [q EXCEPT !.held = TRUE, !.decided = IF v = 2 THEN @ ELSE v]
  <2>1. steps = Step("hold", c, v, r2) BY <1>4, <1>7 DEF StartSteps
  <2>2. Decides("hold", r, r2)
    <3> DEFINE w == IF v = 2 THEN q.decided ELSE v
    <3>1. r2 = [r EXCEPT !.again = FALSE, !.held = TRUE, !.decided = w]
      BY <1>1 DEF RecordType
    <3> HIDE DEF w, r2
    <3> QED BY <1>1, <1>4, <1>7, <3>1 DEF Decides, SameHand, RecordType
  <2> QED BY <1>0, <1>3, <1>4, <1>7, <2>1, <2>2 DEF Decisions
<1>8. CASE steps # <<>> /\ d \notin {"block", "defer"}
  <2> DEFINE r2 == [r0 EXCEPT !.held = FALSE]
  <2>1. steps = Step("proceed", c, v, r2) BY <1>4, <1>8 DEF StartSteps
  <2>2. r0.rejected = r.rejected /\ r0.ended = r.ended /\ r0.unknown = r.unknown
    BY <1>1 DEF StartRecord, RecordType
  <2>3. Decides("proceed", r, r2)
    <3> HIDE DEF r0
    <3> QED BY <1>0, <1>1, <1>4, <2>2 DEF Decides, SameHand, RecordType
  <2> QED BY <1>0, <1>3, <1>4, <1>8, <2>1, <2>3 DEF Decisions
<1> QED BY <1>0, <1>2, <1>5, <1>6, <1>7, <1>8

\* A handler's two steps.
LEMMA TwoSteps ==
    ASSUME NEW a, NEW b
    PROVE  <<a>> \o <<b>> = <<a, b>>
<1> DEFINE T == {a, b}
           x == <<a>>
           y == <<b>>
           s == x \o y
           t == <<a, b>>
<1>1. x \in Seq(T) /\ y \in Seq(T) /\ Len(x) = 1 /\ Len(y) = 1 /\ x[1] = a /\ y[1] = b
  OBVIOUS
<1>2. t \in Seq(T) /\ Len(t) = 2 /\ t[1] = a /\ t[2] = b OBVIOUS
<1> HIDE DEF T, x, y, t
<1>3. s \in Seq(T) /\ Len(s) = 2 /\ s[1] = a /\ s[2] = b
  <2>1. /\ s \in Seq(T) /\ Len(s) = Len(x) + Len(y)
        /\ \A i \in 1..(Len(x) + Len(y)) :
              s[i] = IF i <= Len(x) THEN x[i] ELSE y[i - Len(x)]
    BY <1>1, ConcatProperties
  <2> HIDE DEF s
  <2> QED BY <1>1, <2>1
<1> HIDE DEF s
<1>4. Len(s) = Len(t) /\ \A i \in 1..Len(s) : s[i] = t[i] BY <1>2, <1>3
<1>5. s = t BY <1>2, <1>3, <1>4, SeqEqual
<1> QED BY <1>5 DEF s, t, x, y

\* toolDispatch, of a call that the run has not dispatched, writes a proceed
\* where the call runs again, and a dispatch.
LEMMA DispatchGood ==
    ASSUME NEW c, NEW r, NEW key, BranchInv(path, left), run \in Nat \ {0},
           SoundInv(path, left, run, c, r), ~DispatchRefused(r), ~Mine(r, run)
    PROVE  LET steps == DispatchSteps(c, r, key) IN
           /\ GoodSteps(path, left, run, c, r, steps)
           /\ \A i \in DOMAIN steps :
                 LET x == steps[i].r IN
                 /\ x.known /\ ~x.answered /\ x.result = "none"
                 /\ \/ SameHand(r, x)
                    \/ /\ x.drun = run
                       /\ x.before = <<r.dispatched, r.unknown, r.drun>>
<1> DEFINE steps == DispatchSteps(c, r, key)
           s1 == [r EXCEPT !.again = FALSE]
           s2 == DispatchRecord(r)
           e == Entry("proceed", c, 2)
           e2 == Entry("dispatch", c, key)
<1>1. r \in RecordType(r) BY DEF SoundInv
<1>2. CASE steps = <<>> BY <1>2 DEF GoodSteps
<1>3. CASE steps # <<>>
  <2>1. /\ r.known /\ ~r.answered /\ r.result = "none" /\ ~r.rejected
        /\ steps = (IF r.again THEN Step("proceed", c, 2, s1) ELSE <<>>)
                   \o Step("dispatch", c, key, s2)
    BY <1>1, <1>3 DEF DispatchSteps, DispatchRefused, Mine, RecordType
  <2>2. /\ s2 \in RecordType(s2) /\ s2.known /\ ~s2.answered /\ ~s2.again
        /\ s2.held = r.held /\ s2.rejected = r.rejected /\ s2.ended = r.ended
        /\ s2.result = r.result /\ s2.dispatched /\ ~s2.unknown
        /\ s2.before = <<r.dispatched, r.unknown, r.drun>> /\ s2.drun = run
    BY <1>1, <2>1 DEF DispatchRecord, RecordType
  <2>3. /\ s1 \in RecordType(s1) /\ SameHand(r, s1)
        /\ s1.held = r.held /\ s1.rejected = r.rejected /\ s1.ended = r.ended
        /\ s1.unknown = r.unknown /\ ~s1.again
    BY <1>1 DEF RecordType, SameHand
  <2>4. /\ e2.k = "dispatch" /\ e2.c = c /\ e2.b = Cardinality(left)
    BY EntryIs
  <2>5. ~Has(path, c, {"output"}) /\ (r.again => ~r.held)
    BY <2>1 DEF SoundInv, AgreeInv
  <2> HIDE DEF s1, s2, e, e2, steps
  <2>6. ASSUME NEW p, NEW x, BranchInv(p, left), SoundInv(p, left, run, c, x),
               SameHand(r, x), x.held = r.held, x.rejected = r.rejected,
               x.ended = r.ended, x.unknown = r.unknown, ~Has(p, c, {"output"})
        PROVE  GoodEntry(p, left, run, c, e2, s2)
    <3>1. Grown(p, e2, Append(p, e2)) BY <2>6 DEF Grown, BranchInv
    <3>2. ~Mine(x, run) /\ x.known /\ ~x.answered /\ x.result = "none"
      BY <2>1, <2>6 DEF SameHand, Mine
    <3>3. s2.before = <<x.dispatched, x.unknown, x.drun>>
      BY <2>2, <2>6 DEF SameHand
    <3>4. SoundInv(Append(p, e2), left, run, c, s2)
      BY <2>2, <2>4, <2>6, <3>1, <3>2, <3>3, DispatchEntry DEF SameHand
    <3> QED BY <2>4, <2>6, <3>4 DEF GoodEntry, Opens
  <2>7. CASE ~r.again
    <3>1. steps = <<[e |-> e2, r |-> s2]>> BY <2>1, <2>7 DEF Step, e2
    <3>2. GoodEntry(path, left, run, c, e2, s2)
      BY <2>5, <2>6 DEF SameHand
    <3>3. DOMAIN steps = {1} /\ steps[1].r = s2 BY SMTT(60), <3>1
    <3> QED BY <2>1, <2>2, <3>1, <3>2, <3>3 DEF GoodSteps, steps
  <2>8. CASE r.again
    <3>1. steps = <<[e |-> e, r |-> s1], [e |-> e2, r |-> s2]>>
      <4>1. steps = Step("proceed", c, 2, s1) \o Step("dispatch", c, key, s2)
        BY <2>1, <2>8
      <4> QED BY <4>1, TwoSteps, Zenon DEF Step, e, e2
    <3>2. GoodEntry(path, left, run, c, e, s1)
      <4>1. Decides("proceed", r, s1)
        BY <2>1, <2>3, <2>5, <2>8 DEF Decides
      <4> QED BY <2>1, <4>1, DecisionGood DEF e, Decisions
    <3>3. GoodEntry(Append(path, e), left, run, c, e2, s2)
      <4>1. SoundInv(Append(path, e), left, run, c, s1) /\ e.k = "proceed" /\ e.c = c
            /\ e.b = Cardinality(left)
        BY <3>2, EntryIs DEF GoodEntry, e
      <4>2. BranchInv(Append(path, e), left) BY <4>1, BranchGrow
      <4>3. ~Has(Append(path, e), c, {"output"})
        <5>1. s1.known /\ ~s1.answered BY <2>1, <2>3 DEF SameHand
        <5> QED BY <4>1, <5>1 DEF SoundInv, AgreeInv
      <4> QED BY <2>3, <2>6, <4>1, <4>2, <4>3
    <3>4. DOMAIN steps = {1, 2} /\ steps[1].r = s1 /\ steps[2].r = s2
      BY <3>1
    <3>5. e.k # "output" BY EntryIs DEF e
    <3> QED BY <2>1, <2>2, <2>3, <3>1, <3>2, <3>3, <3>4, <3>5 DEF GoodSteps, SameHand, steps
  <2> QED BY <2>7, <2>8
<1> QED BY <1>2, <1>3

\* toolEnd writes a withdrawal or a result of the run's own dispatch, or
\* nothing.
LEMMA EndGood ==
    ASSUME NEW c, NEW r, NEW withdrawn, NEW ran, BranchInv(path, left),
           SoundInv(path, left, run, c, r),
           withdrawn \/ ran => run # 0,
           Mine(r, run) /\ (withdrawn \/ ran) => ~r.answered /\ r.result = "none"
    PROVE  LET steps == EndSteps(c, r, withdrawn, ran) IN
           /\ GoodSteps(path, left, run, c, r, steps)
           /\ \A i \in DOMAIN steps :
                 LET x == steps[i].r IN
                 /\ x.drun = r.drun \/ (r.before # <<>> /\ x.drun = r.before[3])
                 /\ x.before = r.before \/ x.before = <<>>
<1> DEFINE steps == EndSteps(c, r, withdrawn, ran)
<1>1. r \in RecordType(r) BY DEF SoundInv
<1>2. CASE steps = <<>> BY <1>2 DEF GoodSteps
<1>3. ASSUME NEW k \in {"withdraw", "result"}, NEW x, steps = Step(k, c, 0, x),
             SoundInv(Append(path, Entry(k, c, 0)), left, run, c, x)
      PROVE  GoodSteps(path, left, run, c, r, steps) /\ DOMAIN steps = {1} /\ steps[1].r = x
  <2> DEFINE e == Entry(k, c, 0)
  <2>1. e.k = k /\ e.c = c /\ e.b = Cardinality(left) BY EntryIs
  <2>2. GoodEntry(path, left, run, c, e, x)
    BY <1>3, <2>1 DEF GoodEntry, Opens, Decisions
  <2>3. steps = <<[e |-> e, r |-> x]>> BY <1>3 DEF Step
  <2> HIDE DEF e, steps
  <2> QED BY <2>2, <2>3 DEF GoodSteps
<1>4. CASE withdrawn /\ r.known /\ r.dispatched /\ r.drun = run
  <2> DEFINE x == Withdraw(r)
             e == Entry("withdraw", c, 0)
             p2 == Append(path, e)
  <2>1. Mine(r, run) /\ ~r.answered /\ r.result = "none" /\ run # 0
    BY <1>4 DEF Mine
  <2>2. r.before # <<>> /\ r.before \in BOOLEAN \X BOOLEAN \X Nat
    BY <1>1, <1>4, <2>1 DEF SoundInv, UndoInv, RecordType
  <2>3. x = [r EXCEPT !.dispatched = r.before[1], !.unknown = r.before[2],
                      !.drun = r.before[3], !.before = <<>>]
    BY <2>2 DEF Withdraw
  <2>4. e.k = "withdraw" /\ e.c = c /\ e.b = Cardinality(left)
    BY EntryIs
  <2>5. Grown(path, e, p2) BY DEF Grown, BranchInv
  <2>6. steps = Step("withdraw", c, 0, x) BY <1>4 DEF EndSteps
  <2>7. /\ x \in RecordType(x) /\ x.known /\ ~x.answered
        /\ x.held = r.held /\ x.rejected = r.rejected /\ x.ended = r.ended
        /\ x.result = r.result /\ x.again = r.again
        /\ x.dispatched = r.before[1] /\ x.unknown = r.before[2]
        /\ x.drun = r.before[3] /\ x.before = <<>>
    <3>1. r.before[1] \in BOOLEAN /\ r.before[2] \in BOOLEAN /\ r.before[3] \in Nat
      BY <2>2
    <3> HIDE DEF x
    <3> QED BY <1>1, <1>4, <2>1, <2>3, <3>1 DEF RecordType
  <2>8. SoundInv(p2, left, run, c, x)
    <3> HIDE DEF x, e, p2
    <3> QED BY <1>4, <2>1, <2>4, <2>5, <2>7, WithdrawEntry
  <2>9. GoodSteps(path, left, run, c, r, steps) /\ DOMAIN steps = {1} /\ steps[1].r = x
    BY <1>3, <2>6, <2>8
  <2> HIDE DEF x, steps
  <2> QED BY <2>2, <2>7, <2>9 DEF steps
<1>5. CASE /\ steps # <<>> /\ ~(withdrawn /\ r.known /\ r.dispatched /\ r.drun = run)
  <2> DEFINE x == [r EXCEPT !.result = "own"]
             e == Entry("result", c, 0)
             p2 == Append(path, e)
  <2>1. /\ ran /\ r.known /\ r.dispatched /\ r.drun = run
        /\ steps = Step("result", c, 0, x)
    BY <1>5 DEF EndSteps
  <2>2. Mine(r, run) /\ ~r.answered BY <2>1 DEF Mine
  <2>4. e.k = "result" /\ e.c = c /\ e.b = Cardinality(left) BY EntryIs
  <2>5. Grown(path, e, p2) BY DEF Grown, BranchInv
  <2>7. /\ x \in RecordType(x) /\ x.known /\ ~x.answered
        /\ x.held = r.held /\ x.rejected = r.rejected /\ x.ended = r.ended
        /\ x.again = r.again /\ x.dispatched = r.dispatched /\ x.unknown = r.unknown
        /\ x.drun = r.drun /\ x.before = r.before /\ x.result = "own"
    BY <1>1, <2>1, <2>2 DEF RecordType
  <2>8. SoundInv(p2, left, run, c, x)
    <3> HIDE DEF x, e, p2
    <3> QED BY <2>1, <2>2, <2>4, <2>5, <2>7, ResultEntry
  <2>9. GoodSteps(path, left, run, c, r, steps) /\ DOMAIN steps = {1} /\ steps[1].r = x
    BY <1>3, <2>1, <2>8
  <2> HIDE DEF x, steps
  <2> QED BY <2>7, <2>9 DEF steps
<1> QED BY <1>2, <1>4, <1>5

\* itemFrom, of an output that the path does not have: the output, behind a
\* decision where it is not the tool's own.
LEMMA OutputGood ==
    ASSUME NEW c, NEW r, NEW out, BranchInv(path, left),
           SoundInv(path, left, run, c, r), ~OutputRefused(r)
    PROVE  LET steps == OutputSteps(c, r, out) IN
           /\ GoodSteps(path, left, run, c, r, steps)
           /\ \A i \in DOMAIN steps :
                 LET x == steps[i].r IN
                 /\ x.drun = r.drun /\ x.before = r.before
                 /\ x.dispatched = r.dispatched
<1> DEFINE steps == OutputSteps(c, r, out)
           plain == \/ ~r.known \/ r.ended \/ r.rejected
                    \/ r.result = out
                    \/ r.dispatched /\ r.drun # 0 /\ r.drun = run
           ran == r.dispatched \/ r.unknown
           k == IF ran THEN "answer" ELSE "reject"
           q == [r EXCEPT !.held = FALSE, !.ended = @ \/ ran,
                          !.rejected = @ \/ ~ran]
           e == Entry(k, c, 0)
           e2 == Entry("output", c, out)
<1>1. r \in RecordType(r) /\ (r.known => ~r.answered)
  BY DEF SoundInv, OutputRefused
<1>2. e2.k = "output" /\ e2.c = c /\ e2.b = Cardinality(left) BY EntryIs
<1>3. ASSUME NEW p, NEW x, NEW x2, BranchInv(p, left), SoundInv(p, left, run, c, x),
             x \in RecordType(x), x2 = [x EXCEPT !.answered = r.known], x.known = r.known
      PROVE  /\ GoodEntry(p, left, run, c, e2, x2)
             /\ x2.drun = x.drun /\ x2.before = x.before /\ x2.dispatched = x.dispatched
  <2>1. Grown(p, e2, Append(p, e2)) BY <1>3 DEF Grown, BranchInv
  <2>2. /\ x2 \in RecordType(x2) /\ x2.known = x.known /\ x2.answered = r.known
        /\ x2.drun = x.drun /\ x2.before = x.before /\ x2.dispatched = x.dispatched
    BY <1>1, <1>3 DEF RecordType
  <2> HIDE DEF e2
  <2>3. SoundInv(Append(p, e2), left, run, c, x2)
    BY ZenonT(60), <1>2, <1>3, <2>1, <2>2, OutputEntry
  <2> QED BY <1>2, <2>2, <2>3 DEF GoodEntry, Opens, Decisions
<1>4. CASE plain
  <2> DEFINE x == [r EXCEPT !.answered = r.known]
  <2>1. steps = <<[e |-> e2, r |-> x]>> BY <1>4 DEF OutputSteps, Step
  <2>2. /\ GoodEntry(path, left, run, c, e2, x)
        /\ x.drun = r.drun /\ x.before = r.before /\ x.dispatched = r.dispatched
    BY <1>1, <1>3
  <2> HIDE DEF steps, x, e2
  <2>3. DOMAIN steps = {1} /\ steps[1].r = x BY <2>1
  <2> QED BY <2>1, <2>2, <2>3 DEF GoodSteps, steps
<1>5. CASE ~plain
  <2> DEFINE x == [q EXCEPT !.answered = r.known]
  <2>1. steps = <<[e |-> e, r |-> q], [e |-> e2, r |-> x]>>
    <3>1. steps = Step(k, c, 0, q) \o Step("output", c, out, x)
      BY <1>5, Zenon DEF OutputSteps
    <3> QED BY <3>1, TwoSteps, Zenon DEF Step
  <2>2. /\ q \in RecordType(q) /\ SameHand(r, q) /\ ~q.held /\ q.unknown = r.unknown
        /\ q.ended <=> r.ended \/ ran
        /\ q.rejected <=> r.rejected \/ ~ran
    BY <1>1, <1>5 DEF RecordType, SameHand
  <2>3. k \in Decisions /\ (k = "answer" <=> ran) /\ (k = "reject" <=> ~ran) /\ k # "hold"
    BY DEF Decisions
  <2>4. e.k = k /\ e.c = c /\ e.b = Cardinality(left) BY EntryIs
  <2> HIDE DEF steps, k, q, ran
  <2>5. GoodEntry(path, left, run, c, e, q)
    <3>1. Decides(k, r, q) BY <2>2, <2>3 DEF Decides
    <3> QED BY <1>1, <1>5, <2>3, <3>1, DecisionGood
  <2> HIDE DEF e
  <2>6. /\ GoodEntry(Append(path, e), left, run, c, e2, x)
        /\ x.drun = q.drun /\ x.before = q.before /\ x.dispatched = q.dispatched
    <3>1. SoundInv(Append(path, e), left, run, c, q)
      BY <2>5 DEF GoodEntry
    <3>2. BranchInv(Append(path, e), left) BY <2>4, BranchGrow
    <3> QED BY <1>3, <2>2, <3>1, <3>2 DEF SameHand
  <2>7. e.k # "output" BY <2>3, <2>4 DEF Decisions
  <2> HIDE DEF x, e2
  <2>8. DOMAIN steps = {1, 2} /\ steps[1].r = q /\ steps[2].r = x
    BY <2>1
  <2> QED BY <2>1, <2>2, <2>5, <2>6, <2>7, <2>8 DEF GoodSteps, SameHand, steps
<1> QED BY <1>4, <1>5

\* itemFrom, of a call that the path does not have.
LEMMA CallGood ==
    ASSUME NEW c \in Calls, RecordInv, st[c] = "new"
    PROVE  GoodSteps(path, left, run, c, rec[c],
                     Step("call", c, 0, [NoRecord EXCEPT !.known = TRUE]))
<1> DEFINE r == [NoRecord EXCEPT !.known = TRUE]
           e == Entry("call", c, 0)
           p2 == Append(path, e)
<1>1. /\ left = {} /\ BranchInv(path, {}) /\ SoundInv(path, left, run, c, rec[c])
      /\ \A i \in DOMAIN path : path[i].c = c => path[i].k \in {"start", "end"}
  BY DEF RecordInv, CallInv
<1>2. e.k = "call" /\ e.c = c /\ e.b = Cardinality(left) BY EntryIs
<1>3. Grown(path, e, p2) BY <1>1 DEF Grown, BranchInv
<1>4. ~Has(path, c, {"output"}) BY <1>1 DEF Has
<1>5. Step("call", c, 0, r) = <<[e |-> e, r |-> r]>> BY DEF Step
<1> HIDE DEF e, p2
<1>6. SoundInv(p2, left, run, c, r) BY <1>1, <1>2, <1>3, CallEntry
<1>7. GoodEntry(path, left, run, c, e, r)
  BY <1>2, <1>4, <1>6 DEF GoodEntry, Opens, p2
<1> QED BY <1>1, <1>5, <1>7 DEF GoodSteps

-----------------------------------------------------------------------------
(* A record read back.                                                     *)

\* The tool's return is on the path when its result is.
LEMMA ReturnedIs ==
    ASSUME NEW p, NEW c, IsPath(p), ResultInv(p, c)
    PROVE  Returned(p, c) <=> Has(p, c, {"result"})
<1> DEFINE D == Dispatches(p, c)
<1>1. Len(p) \in Nat /\ DOMAIN p = 1..Len(p) BY DEF IsPath
<1>2. At(p, c, {"result"}) # {} <=> Has(p, c, {"result"}) BY DEF At, Has
<1>3. ASSUME NEW i \in At(p, c, {"result"}) PROVE Returned(p, c)
  <2>1. PICK d \in At(p, c, {"dispatch"}) : \A w \in At(p, c, {"withdraw"}) : w < d
    BY DEF ResultInv
  <2>2. D # {} /\ D \subseteq At(p, c, {"dispatch"}) /\ D \subseteq 1..Len(p)
    <3>1. d \in D
      <4>1. At(p, c, {"dispatch"}) \subseteq 1..Len(p) /\ At(p, c, {"withdraw"}) \subseteq 1..Len(p)
        BY <1>1 DEF At
      <4>2. \A w \in At(p, c, {"withdraw"}) : ~(d < w)
        BY <1>1, <2>1, <4>1
      <4> QED BY <4>2 DEF Dispatches
    <3> QED BY <1>1, <3>1 DEF Dispatches, At
  <2> HIDE DEF D
  <2>3. Last(D) \in D BY <1>1, <2>2, LastIs
  <2>4. i > Last(D)
    <3>1. Last(D) < i BY <2>2, <2>3 DEF ResultInv
    <3>2. Last(D) \in 1..Len(p) /\ i \in 1..Len(p)
      BY <1>1, <2>2, <2>3 DEF At
    <3> QED BY <1>1, <3>1, <3>2
  <2> QED BY <2>2, <2>4 DEF Returned, Dispatched, D
<1>4. Returned(p, c) => At(p, c, {"result"}) # {} BY DEF Returned
<1> QED BY <1>2, <1>3, <1>4

\* The record that a path seeds is sound, with no run on.
LEMMA SeedSound ==
    ASSUME NEW p, NEW l, NEW c, IsPath(p), ResultInv(p, c)
    PROVE  SoundInv(p, l, 0, c, CallRecordOf(p, l, c))
<1> DEFINE r == CallRecordOf(p, l, c)
<1>1. Returned(p, c) <=> Has(p, c, {"result"}) BY ReturnedIs
<1>2. UndoInv(p, l, 0, c, r) BY DEF UndoInv, Mine
<1>3. CASE ~Has(p, c, {"call"})
  <2>1. r = NoRecord BY <1>3 DEF CallRecordOf
  <2>2. r \in RecordType(r) /\ AgreeInv(p, l, c, r)
    BY <1>3, <2>1 DEF NoRecord, RecordType, AgreeInv
  <2> QED BY <1>2, <2>2 DEF SoundInv
<1>4. CASE Has(p, c, {"call"}) /\ Has(p, c, {"output"})
  <2> DEFINE d == Dispatched(p, c)
  <2>1. r = [NoRecord EXCEPT !.known = TRUE, !.answered = TRUE, !.dispatched = d]
    BY <1>4 DEF CallRecordOf
  <2>2. d \in BOOLEAN BY DEF Dispatched
  <2> HIDE DEF d, r
  <2>3. r \in RecordType(r) /\ r.known /\ r.answered
    BY <2>1, <2>2 DEF NoRecord, RecordType
  <2>4. AgreeInv(p, l, c, r) BY <1>4, <2>3 DEF AgreeInv
  <2> QED BY <1>2, <2>3, <2>4 DEF SoundInv, r
<1>5. CASE Has(p, c, {"call"}) /\ ~Has(p, c, {"output"})
  <2> DEFINE a == IF Args(p, c) = 0 THEN 2 ELSE Args(p, c)
             x == IF Returned(p, c) THEN "own" ELSE "none"
             h == Held(p, c)
             d == Dispatched(p, c)
             j == Has(p, c, {"reject"})
             w == Has(p, c, {"answer"})
             u == Off(p, l, c)
  <2>1. r = [NoRecord EXCEPT !.known = TRUE, !.held = h, !.dispatched = d,
                             !.rejected = j, !.ended = w, !.unknown = u,
                             !.decided = a, !.result = x]
    BY <1>5 DEF CallRecordOf
  <2>2. /\ h \in BOOLEAN /\ d \in BOOLEAN /\ j \in BOOLEAN /\ w \in BOOLEAN
        /\ u \in BOOLEAN /\ x \in {"none", "own"}
    BY DEF Dispatched, Held, Has, Off
  <2>3. u <=> IsOff(p, l, c) BY <1>5 DEF Off, IsOff
  <2>4. x = IF Has(p, c, {"result"}) THEN "own" ELSE "none" BY <1>1
  <2> HIDE DEF a, x, r, h, d, j, w, u
  <2>5. /\ r \in RecordType(r) /\ r.known = TRUE /\ r.answered = FALSE /\ r.again = FALSE
        /\ r.held = h /\ r.dispatched = d /\ r.rejected = j /\ r.ended = w
        /\ r.unknown = u /\ r.result = x
    <3>1. r = [known |-> TRUE, held |-> h, dispatched |-> d, rejected |-> j,
               ended |-> w, answered |-> FALSE, unknown |-> u, drun |-> 0,
               again |-> FALSE, decided |-> a, result |-> x, before |-> <<>>]
      BY <2>1 DEF NoRecord
    <3>2. /\ r.known = TRUE /\ r.answered = FALSE /\ r.again = FALSE
          /\ r.held = h /\ r.dispatched = d /\ r.rejected = j /\ r.ended = w
          /\ r.unknown = u /\ r.result = x /\ r.decided = a
      BY <3>1
    <3>3. r \in RecordType(r) BY <2>2, <3>1, <3>2 DEF RecordType
    <3> QED BY <3>2, <3>3
  <2>6. AgreeInv(p, l, c, r)
    <3>1. /\ r.held <=> Held(p, c)
          /\ r.dispatched <=> Dispatched(p, c)
          /\ r.rejected <=> Has(p, c, {"reject"})
          /\ r.ended <=> Has(p, c, {"answer"})
      BY <2>2, <2>5 DEF h, d, j, w
    <3> QED BY <1>5, <2>3, <2>4, <2>5, <3>1 DEF AgreeInv
  <2> QED BY <1>2, <2>5, <2>6 DEF SoundInv, r
<1> QED BY <1>3, <1>4, <1>5

\* The beginning of a path.
LEMMA Cut ==
    ASSUME NEW p, IsPath(p), NEW m \in 0..Len(p)
    PROVE  /\ IsPath(SubSeq(p, 1, m)) /\ Len(SubSeq(p, 1, m)) = m
           /\ DOMAIN SubSeq(p, 1, m) = 1..m /\ DOMAIN p = 1..Len(p) /\ Len(p) \in Nat
           /\ \A i \in 1..m : SubSeq(p, 1, m)[i] = p[i]
<1> DEFINE q == SubSeq(p, 1, m)
           S == {p[i] : i \in DOMAIN p}
<1>1. p \in Seq(S) BY DEF IsPath
<1>2. Len(p) \in Nat /\ DOMAIN p = 1..Len(p) BY <1>1
<1>3. q \in Seq(S) /\ Len(q) = m /\ \A i \in 1..m : q[i] = p[i]
  <2>1. \A i \in 1..m : p[i] \in S BY <1>2
  <2> HIDE DEF S
  <2>2. /\ q \in Seq(S) /\ Len(q) = IF 1 <= m THEN m - 1 + 1 ELSE 0
        /\ \A i \in 1..(m - 1 + 1) : q[i] = p[1 + i - 1]
    BY <1>2, <2>1, SubSeqProperties
  <2> HIDE DEF q
  <2>3. \A i \in 1..m : i \in 1..(m - 1 + 1) /\ 1 + i - 1 = i BY <1>2
  <2> QED BY <1>2, <2>2, <2>3
<1> HIDE DEF q, S
<1>4. DOMAIN q = 1..m /\ q \in Seq({q[i] : i \in DOMAIN q}) BY <1>3
<1> QED BY <1>2, <1>3, <1>4 DEF IsPath, q

\* What a result says of the dispatches holds of a beginning of the path.
LEMMA ResultCut ==
    ASSUME NEW p, NEW c, IsPath(p), NEW m \in 0..Len(p), ResultInv(p, c)
    PROVE  ResultInv(SubSeq(p, 1, m), c)
<1> DEFINE q == SubSeq(p, 1, m)
<1>1. /\ DOMAIN q = 1..m /\ DOMAIN p = 1..Len(p) /\ Len(p) \in Nat
      /\ \A i \in 1..m : q[i] = p[i]
  BY Cut
<1> HIDE DEF q
<1>2. \A K : At(q, c, K) = At(p, c, K) \cap (1..m) BY <1>1 DEF At
<1>3. At(p, c, {"dispatch"}) \subseteq 1..Len(p) BY <1>1 DEF At
<1> SUFFICES ASSUME NEW i \in At(q, c, {"result"})
             PROVE  /\ \A j \in At(q, c, {"dispatch"}) : j < i
                    /\ \A j \in At(q, c, {"withdraw"}) : j < i
                    /\ \E d \in At(q, c, {"dispatch"}) :
                          \A w \in At(q, c, {"withdraw"}) : w < d
  BY DEF ResultInv, q
<1>4. i \in At(p, c, {"result"}) /\ i \in 1..m BY <1>2
<1>5. PICK d \in At(p, c, {"dispatch"}) : \A w \in At(p, c, {"withdraw"}) : w < d
  BY <1>4 DEF ResultInv
<1>6. d < i BY <1>4 DEF ResultInv
<1>7. d \in 1..m BY <1>1, <1>3, <1>4, <1>6
<1> QED BY <1>2, <1>4, <1>5, <1>7 DEF ResultInv

\* A path that a run's end closes, or that has none to close.
LEMMA ClosedIs ==
    ASSUME NEW p, NEW b
    PROVE  \/ Closed(p, b) = p
           \/ \E e : /\ e.k = "end" /\ e.b = b
                     /\ Closed(p, b) = Append(p, e)
<1> DEFINE e == [k |-> "end", c |-> 0, v |-> OpenCalls(p), b |-> b]
<1>1. e.k = "end" /\ e.b = b OBVIOUS
<1>2. Closed(p, b) = p \/ Closed(p, b) = Append(p, e) BY DEF Closed
<1> HIDE DEF e
<1> QED BY <1>1, <1>2

\* Closing a path does not touch a call's results.
LEMMA ResultClosed ==
    ASSUME NEW p, NEW b, NEW c, IsPath(p), ResultInv(p, c)
    PROVE  IsPath(Closed(p, b)) /\ ResultInv(Closed(p, b), c)
<1>1. CASE Closed(p, b) = p BY <1>1
<1>2. ASSUME NEW e, e.k = "end", Closed(p, b) = Append(p, e)
      PROVE  IsPath(Closed(p, b)) /\ ResultInv(Closed(p, b), c)
  <2> DEFINE q == Closed(p, b)
  <2>1. Grown(p, e, q) BY <1>2 DEF Grown
  <2> HIDE DEF q
  <2>2. \A K : ~(e.c = c /\ e.k \in K) => At(q, c, K) = At(p, c, K)
    BY <2>1, AtGrow
  <2>3. \A k \in {"dispatch", "withdraw", "result"} : At(q, c, {k}) = At(p, c, {k})
    BY <1>2, <2>2
  <2>4. IsPath(q) /\ ResultInv(q, c) BY <2>1, <2>3, Grow DEF ResultInv
  <2> QED BY <2>4 DEF q
<1> QED BY <1>1, <1>2, ClosedIs

\* The entries of a path that is left are of earlier branches.
LEMMA LeftOlder ==
    ASSUME NEW p, NEW l, BranchInv(p, l), \A c \in Calls : ResultInv(p, c)
    PROVE  /\ IsFiniteSet(l \cup {p})
           /\ \A x \in l \cup {p} :
                 /\ IsPath(x) /\ \A c \in Calls : ResultInv(x, c)
                 /\ \A i \in DOMAIN x : x[i].b \in Nat /\ x[i].b < Cardinality(l \cup {p})
<1> DEFINE l2 == l \cup {p}
           C == Cardinality(l)
<1>0. IsPath(p) /\ IsFiniteSet(l) /\ C \in Nat
  BY FS_CardinalityType DEF BranchInv
<1>1. /\ \A x \in l2 : IsPath(x) /\ \A c \in Calls : ResultInv(x, c)
      /\ \A x \in l : \A i \in DOMAIN x : x[i].b \in Nat /\ x[i].b < C
      /\ \A i \in DOMAIN p : p[i].b \in Nat /\ p[i].b <= C
  BY <1>0 DEF BranchInv
<1>2. CASE p \in l
  <2>1. l2 = l BY <1>2
  <2> QED BY <1>0, <1>1, <1>2, <2>1
<1>3. CASE p \notin l
  <2>1. IsFiniteSet(l2) /\ Cardinality(l2) = C + 1
    BY <1>0, <1>3, FS_AddElement
  <2> HIDE DEF C
  <2>2. ASSUME NEW x \in l2, NEW i \in DOMAIN x PROVE x[i].b \in Nat /\ x[i].b < C + 1
    <3>1. CASE x \in l
      <4>1. x[i].b \in Nat /\ x[i].b < C BY <1>1, <2>2, <3>1
      <4> QED BY <1>0, <4>1
    <3>2. CASE x = p
      <4>1. x[i].b \in Nat /\ x[i].b <= C BY <1>1, <2>2, <3>2
      <4> QED BY <1>0, <4>1
    <3> QED BY <3>1, <3>2
  <2> QED BY <1>1, <2>1, <2>2
<1> QED BY <1>2, <1>3

\* The beginning of a path, once the path at the leaf is left.
LEMMA BranchCut ==
    ASSUME NEW p, NEW l, BranchInv(p, l), \A c \in Calls : ResultInv(p, c),
           NEW x \in l \cup {p}, NEW m \in 0..Len(x)
    PROVE  /\ BranchInv(SubSeq(x, 1, m), l \cup {p})
           /\ IsPath(x) /\ IsPath(SubSeq(x, 1, m))
           /\ \A c \in Calls : ResultInv(x, c) /\ ResultInv(SubSeq(x, 1, m), c)
<1> DEFINE q == SubSeq(x, 1, m)
           l2 == l \cup {p}
<1>1. /\ IsFiniteSet(l2) /\ IsPath(x)
      /\ \A y \in l2 :
            /\ IsPath(y) /\ \A c \in Calls : ResultInv(y, c)
            /\ \A i \in DOMAIN y : y[i].b \in Nat /\ y[i].b < Cardinality(l2)
      /\ Cardinality(l2) \in Nat
  BY LeftOlder, FS_CardinalityType
<1>2. /\ IsPath(q) /\ DOMAIN q = 1..m /\ DOMAIN x = 1..Len(x) /\ Len(x) \in Nat
      /\ \A i \in 1..m : q[i] = x[i]
  BY <1>1, Cut
<1>3. \A c \in Calls : ResultInv(q, c) BY <1>1, ResultCut
<1> HIDE DEF q, l2
<1>4. \A i \in DOMAIN q : q[i].b \in Nat /\ q[i].b <= Cardinality(l2)
  <2>1. \A i \in DOMAIN q : i \in DOMAIN x /\ q[i] = x[i] BY <1>2
  <2>2. \A i \in DOMAIN x : x[i].b \in Nat /\ x[i].b < Cardinality(l2)
    BY <1>1 DEF l2
  <2> QED BY <1>1, <2>1, <2>2
<1>5. BranchInv(q, l2) BY <1>1, <1>2, <1>4 DEF BranchInv
<1> QED BY <1>1, <1>2, <1>3, <1>5 DEF q, l2

\* The path from any entry on, once the path at the leaf is left.
LEMMA BranchLeft ==
    ASSUME NEW p, NEW l, BranchInv(p, l), \A c \in Calls : ResultInv(p, c),
           NEW x \in l \cup {p}, NEW m \in 0..Len(x)
    PROVE  BranchInv(Closed(SubSeq(x, 1, m), Cardinality(l \cup {p})), l \cup {p})
<1> DEFINE q == SubSeq(x, 1, m)
           l2 == l \cup {p}
<1>1. BranchInv(q, l2) BY BranchCut
<1> HIDE DEF q, l2
<1>2. ASSUME NEW e, e.b = Cardinality(l2) PROVE BranchInv(Append(q, e), l2)
  BY <1>1, <1>2, BranchGrow
<1> QED BY <1>1, <1>2, ClosedIs DEF q, l2

\* The agent and the recorder seeded with a path.
LEMMA SeededKeeps ==
    ASSUME DOMAIN rec = Calls, nrun \in Nat, nrun' = nrun, Seeded(path', left'),
           BranchInv(path, left)', \A c \in Calls : ResultInv(path', c)
    PROVE  RecordInv'
<1>1. /\ rec' = [c \in Calls |-> CallRecordOf(path', left', c)]
      /\ run' = 0 /\ open' = {} /\ phase' = "idle"
      /\ st' = [c \in Calls |-> IF c \in Unanswered(path') THEN "owed" ELSE "gone"]
      /\ asking' = [c \in Calls |-> <<>>]
  BY DEF Seeded
<1>2. ASSUME NEW c \in Calls
      PROVE  SoundInv(path', left', run', c, rec'[c]) /\ CallInv(c)'
  <2>1. rec'[c] = CallRecordOf(path', left', c) /\ st'[c] # "new"
    BY <1>1
  <2>2. SoundInv(path', left', 0, c, CallRecordOf(path', left', c))
    BY SeedSound DEF BranchInv
  <2>3. rec'[c].drun = 0 /\ rec'[c].before = <<>>
    BY <2>1 DEF CallRecordOf, NoRecord
  <2>4. ~Mine(rec'[c], run') BY <1>1 DEF Mine
  <2> QED BY <1>1, <2>1, <2>2, <2>3, <2>4 DEF CallInv
<1>3. RunInv' BY <1>1 DEF RunInv
<1>4. OpenInv(path', run', open') BY <1>1 DEF OpenInv
<1> QED BY <1>2, <1>3, <1>4 DEF RecordInv

-----------------------------------------------------------------------------
(* The actions.                                                            *)

\* A record is as sound in another run that has not dispatched the call.
LEMMA RunChanges ==
    ASSUME NEW p, NEW l, NEW n, NEW n2, NEW c, NEW r, SoundInv(p, l, n, c, r),
           ~Mine(r, n2)
    PROVE  SoundInv(p, l, n2, c, r)
BY DEF SoundInv, UndoInv

\* What RecordInv says of the log.
LEMMA LogOf ==
    ASSUME RecordInv
    PROVE  /\ PathInv(path, left, run, open, rec) /\ BranchInv(path, left)
           /\ DOMAIN rec = Calls /\ nrun \in Nat /\ run \in Nat
           /\ \A c \in Calls : SoundInv(path, left, run, c, rec[c]) /\ CallInv(c)
BY DEF RecordInv, RunInv, PathInv

\* An entry of no call appended, or of a call's questions.
LEMMA Noted ==
    ASSUME RecordInv, NEW e, e.b = Cardinality(left), path' = Append(path, e),
           e.k \in {"end", "ask", "told", "start"}, left' = left, rec' = rec,
           NEW n, \A c \in Calls : Mine(rec[c], n) => n = run
    PROVE  /\ BranchInv(path', left')
           /\ \A c \in Calls : SoundInv(path', left', n, c, rec'[c])
           /\ Grown(path, e, path')
<1>1. Grown(path, e, path') BY LogOf DEF Grown, BranchInv
<1>2. BranchInv(path', left') BY LogOf, BranchGrow
<1>3. ASSUME NEW c \in Calls PROVE SoundInv(path', left', n, c, rec'[c])
  <2>1. SoundInv(path', left, run, c, rec[c]) BY <1>1, LogOf, OtherEntry
  <2> QED BY <2>1, RunChanges
<1> QED BY <1>1, <1>2, <1>3

\* A run starts: the run before it is over, and it has no call open.
LEMMA StartsRun ==
    ASSUME RecordInv, path' = Append(path, Entry("start", 0, nrun + 1)), left' = left,
           rec' = rec, run' = nrun + 1, nrun' = nrun + 1, open' = {}, asking' = asking,
           phase' # "idle", DOMAIN st' = Calls,
           \A c \in Calls : st'[c] = "new" => st[c] = "new"
    PROVE  RecordInv'
<1> DEFINE e == Entry("start", 0, nrun + 1)
<1>1. e.k = "start" /\ e.b = Cardinality(left) /\ path' = Append(path, e)
  BY EntryIs
<1> HIDE DEF e
<1>2. \A c \in Calls : /\ rec[c].drun <= nrun /\ rec[c].drun \in Nat
                       /\ rec[c].before # <<>> => /\ rec[c].before[3] <= nrun
                                                  /\ rec[c].before[3] \in Nat
  BY LogOf DEF CallInv, SoundInv, RecordType
<1>3. nrun \in Nat /\ \A c \in Calls : ~Mine(rec[c], nrun + 1)
  BY <1>2, LogOf DEF Mine
<1>4. /\ BranchInv(path', left')
      /\ \A c \in Calls : SoundInv(path', left', run', c, rec'[c])
      /\ Grown(path, e, path')
  BY <1>1, <1>3, Noted
<1>5. /\ Len(path) \in Nat /\ DOMAIN path = 1..Len(path)
      /\ DOMAIN path' = 1..(Len(path) + 1) /\ path'[Len(path) + 1] = e
      /\ \A i \in DOMAIN path : path'[i] = path[i]
  <2>1. Grown(path, e, path') BY <1>4
  <2> QED BY ONLY <2>1, Grow
<1>6. OpenInv(path', run', open')
  <2> DEFINE S == {i \in DOMAIN path' : path'[i].k = "start"}
             N == Len(path) + 1
  <2>1. N \in S /\ S \subseteq 1..N /\ N \in Nat BY <1>1, <1>5
  <2>2. \A c, K : \A i \in At(path', c, K) : i \in 1..N BY <1>5 DEF At
  <2>3. OpenCalls(path') = {c \in Calls :
           /\ \E i \in At(path', c, Decisions \cup {"call", "dispatch"}) : i > Last(S)
           /\ ~Has(path', c, {"output"})}
    BY DEF OpenCalls
  <2> HIDE DEF S, N
  <2>4. Last(S) = N
    <3>1. Last(S) \in S /\ \A j \in S : j <= Last(S) BY <2>1, LastIs
    <3> DEFINE m == Last(S)
    <3>2. m \in 1..N /\ N <= m BY <2>1, <3>1
    <3> HIDE DEF m
    <3>3. m = N BY <2>1, <3>2
    <3> QED BY <3>3 DEF m
  <2>5. OpenCalls(path') = {}
    <3>1. \A i \in 1..N : ~(i > N) BY <2>1
    <3> QED BY <2>2, <2>3, <2>4, <3>1
  <2> QED BY <2>1, <2>5 DEF OpenInv, S
<1>7. RunInv' BY <1>3 DEF RecordInv, RunInv
<1>8. ASSUME NEW c \in Calls PROVE CallInv(c)'
  <2>1. st'[c] = "new" => /\ left = {} /\ rec[c] = NoRecord /\ asking[c] = <<>>
                          /\ \A i \in DOMAIN path :
                                path[i].c = c => path[i].k \in {"start", "end"}
    BY LogOf DEF CallInv
  <2>2. st'[c] = "new" => \A i \in DOMAIN path' :
                             path'[i].c = c => path'[i].k \in {"start", "end"}
    BY <1>1, <1>5, <2>1
  <2>3. /\ rec[c].drun <= nrun + 1
        /\ rec[c].before # <<>> => rec[c].before[3] <= nrun + 1
    BY <1>2, <1>3
  <2> QED BY <1>3, <2>1, <2>2, <2>3 DEF CallInv
<1> QED BY <1>4, <1>6, <1>7, <1>8 DEF RecordInv

\* A step that leaves log and writer alone.
LEMMA AgentAlone ==
    ASSUME RecordInv, UNCHANGED <<log, rec, run, open, nrun, asking>>, DOMAIN st' = Calls,
           phase' = "idle" <=> phase = "idle",
           \A c \in Calls :
              /\ st'[c] = "new" => st[c] = "new"
              /\ \/ st'[c] = st[c] \/ st'[c] \in {"over", "gone"}
                 \/ st[c] \notin {"handed", "back", "stopped", "over", "gone"}
                 \/ st[c] \in {"handed", "back", "stopped"} /\ st'[c] = "back"
    PROVE  RecordInv'
<1>1. path' = path /\ left' = left /\ rec' = rec /\ run' = run /\ open' = open
      /\ nrun' = nrun /\ asking' = asking
  BY DEF log
<1>2. RunInv' BY <1>1 DEF RecordInv, RunInv
<1>3. ASSUME NEW c \in Calls PROVE CallInv(c)'
  BY <1>1, LogOf DEF CallInv
<1> QED BY <1>1, <1>2, <1>3 DEF RecordInv

\* A step of a handler, of call c.
LEMMA HandlerStep ==
    ASSUME RecordInv, NEW c \in Calls, NEW r0, NEW steps,
           GoodSteps(path, left, run, c, r0, steps),
           Taken(c, r0, steps) \/ Failed(c, r0, steps),
           nrun' = nrun, asking' = asking, DOMAIN st' = Calls,
           phase' = "idle" <=> phase = "idle", st'[c] # "new",
           \A d \in Calls \ {c} :
              /\ st'[d] = "new" => st[d] = "new"
              /\ \/ st'[d] = st[d] \/ st'[d] \in {"over", "gone"}
                 \/ st[d] \notin {"handed", "back", "stopped", "over", "gone"},
           \A r : r = r0 \/ (\E i \in DOMAIN steps : r = steps[i].r) =>
              /\ r.drun <= nrun /\ (r.before # <<>> => r.before[3] <= nrun)
              /\ Mine(r, run) =>
                    /\ st'[c] \in {"handed", "back", "stopped", "over", "gone"}
                    /\ st'[c] \in {"handed", "back", "stopped"} =>
                          r.known /\ ~r.answered /\ r.result = "none"
    PROVE  RecordInv'
<1>1. PathInv(path, left, run, open, rec)' /\ Frame(c, r0, steps)
  BY LogOf, HandlerKeeps
<1>2. left' = left /\ run' = run /\ DOMAIN rec' = Calls
      /\ \A d \in Calls \ {c} : rec'[d] = rec[d]
  BY <1>1, LogOf DEF Frame
<1>3. RunInv' BY <1>2 DEF RecordInv, RunInv
<1>4. CallInv(c)'
  <2> DEFINE r == rec'[c]
  <2>1. r = r0 \/ \E i \in DOMAIN steps : r = steps[i].r
    BY <1>1 DEF Frame
  <2> HIDE DEF r
  <2>2. /\ r.drun <= nrun /\ (r.before # <<>> => r.before[3] <= nrun)
        /\ Mine(r, run) =>
              /\ st'[c] \in {"handed", "back", "stopped", "over", "gone"}
              /\ st'[c] \in {"handed", "back", "stopped"} =>
                    r.known /\ ~r.answered /\ r.result = "none"
    BY <2>1
  <2> QED BY <1>2, <2>2 DEF CallInv, r
<1>5. ASSUME NEW d \in Calls, d # c PROVE CallInv(d)'
  <2>1. CallInv(d) /\ rec'[d] = rec[d] BY <1>2, <1>5, LogOf
  <2>2. st'[d] = "new" => \A i \in DOMAIN path' :
                             path'[i].c = d => path'[i].k \in {"start", "end"}
    <3>1. \A i \in DOMAIN path' :
            path'[i].c # c => i \in DOMAIN path /\ path'[i] = path[i]
      BY <1>1 DEF Frame
    <3> QED BY <1>5, <2>1, <3>1 DEF CallInv
  <2> QED BY <1>2, <1>5, <2>1, <2>2 DEF CallInv
<1> QED BY <1>1, <1>3, <1>4, <1>5 DEF PathInv, RecordInv

\* The initial state.
LEMMA InitRecord == Init => RecordInv
<1> SUFFICES ASSUME Init PROVE RecordInv
  OBVIOUS
<1>1. BranchInv(path, left)
  <2>1. path = <<>> /\ left = {} /\ IsFiniteSet({})
    BY FS_EmptySet DEF Init
  <2> QED BY <2>1 DEF BranchInv, IsPath
<1>2. RunInv /\ OpenInv(path, run, open) BY DEF Init, RunInv, OpenInv
<1>3. ASSUME NEW c \in Calls PROVE CallInv(c) /\ SoundInv(path, left, run, c, rec[c])
  <2>1. /\ path = <<>> /\ left = {} /\ rec[c] = NoRecord /\ run = 0 /\ nrun = 0
        /\ asking[c] = <<>>
    BY DEF Init
  <2>2. NoRecord \in RecordType(NoRecord) /\ ~NoRecord.known /\ ~NoRecord.answered
        /\ NoRecord.drun = 0 /\ NoRecord.before = <<>>
    BY DEF NoRecord, RecordType
  <2>3. \A K : ~Has(path, c, K) /\ At(path, c, K) = {}
    BY <2>1 DEF Has, At
  <2>4. ~Mine(rec[c], run) BY <2>1 DEF Mine
  <2>5. CallInv(c) BY <2>1, <2>2, <2>4 DEF CallInv
  <2>6. SoundInv(path, left, run, c, rec[c])
    BY <2>1, <2>2, <2>3, <2>4 DEF SoundInv, AgreeInv, UndoInv, ResultInv
  <2> QED BY <2>5, <2>6
<1> QED BY <1>1, <1>2, <1>3 DEF RecordInv

\* The agent's steps that the recorder is not called for.
LEMMA AgentKeeps ==
    ASSUME RecordInv,
           Execute \/ Abort \/ Drained \/ OutsDone \/ \E c \in Calls : ToolReturns(c)
    PROVE  RecordInv'
<1>0. DOMAIN st = Calls BY DEF RecordInv, RunInv
<1>1. CASE Execute BY <1>0, <1>1, AgentAlone DEF Execute, log, writer
<1>2. CASE Abort BY <1>0, <1>2, AgentAlone DEF Abort, log, writer
<1>3. CASE Drained BY <1>0, <1>3, AgentAlone DEF Drained, log, writer
<1>4. CASE OutsDone BY <1>0, <1>4, AgentAlone DEF OutsDone, log, writer
<1>5. ASSUME NEW c \in Calls, ToolReturns(c) PROVE RecordInv'
  BY <1>0, <1>5, AgentAlone DEF ToolReturns, log, writer
<1> QED BY <1>1, <1>2, <1>3, <1>4, <1>5

\* The runs' beginnings.
LEMMA RunStartKeeps == ASSUME RecordInv, RunStart PROVE RecordInv'
<1>1. nrun = 0 /\ nrun + 1 = 1 BY DEF RunStart
<1>2. DOMAIN st = Calls BY DEF RecordInv, RunInv
<1> QED BY <1>1, <1>2, StartsRun DEF RunStart

\* A Resume begins a run as the first one does.
LEMMA ResumeKeeps == ASSUME RecordInv, Resume PROVE RecordInv'
<1>1. DOMAIN st = Calls BY DEF RecordInv, RunInv
<1>2. DOMAIN st' = Calls /\ \A c \in Calls : st'[c] = "new" => st[c] = "new"
  BY <1>1 DEF Resume
<1>3. /\ path' = Append(path, Entry("start", 0, nrun + 1)) /\ left' = left
      /\ rec' = rec /\ run' = nrun + 1 /\ nrun' = nrun + 1 /\ open' = {}
      /\ phase' # "idle" /\ asking' = asking
  BY DEF Resume
<1> QED BY <1>2, <1>3, StartsRun

\* A run's end.
LEMMA RunEndKeeps == ASSUME RecordInv, RunEnd PROVE RecordInv'
<1> DEFINE e == Entry("end", 0, open)
<1>1. /\ e.k = "end" /\ e.b = Cardinality(left) /\ path' = Append(path, e)
      /\ left' = left /\ rec' = rec /\ run' = 0 /\ nrun' = nrun
      /\ phase' = "idle" /\ asking' = asking
      /\ st' = [c \in Calls |-> IF st[c] \in {"new", "gone"} THEN "gone" ELSE "owed"]
  BY EntryIs DEF RunEnd
<1> HIDE DEF e
<1>2. \A c \in Calls : ~Mine(rec[c], 0) BY DEF Mine
<1>3. /\ BranchInv(path', left')
      /\ \A c \in Calls : SoundInv(path', left', 0, c, rec'[c])
  BY <1>1, <1>2, Noted
<1>4. RunInv' /\ OpenInv(path', run', open')
  BY <1>1 DEF RecordInv, RunInv, OpenInv
<1>5. ASSUME NEW c \in Calls PROVE CallInv(c)'
  <2>1. st'[c] # "new" /\ CallInv(c) BY <1>1, LogOf
  <2> QED BY <1>1, <1>2, <2>1 DEF CallInv
<1> QED BY <1>1, <1>3, <1>4, <1>5 DEF RecordInv

\* A tool's questions.
LEMMA AskKeeps ==
    ASSUME RecordInv, NEW c \in Calls, Ask(c) \/ Told(c)
    PROVE  RecordInv'
<1>0. /\ DOMAIN st = Calls /\ UNCHANGED <<left, rec, run, open, unsettled, phase, st, nrun>>
      /\ DOMAIN asking = Calls /\ DOMAIN asking' = Calls /\ st[c] # "new"
      /\ \A d \in Calls : d # c => asking'[d] = asking[d]
  <2>1. DOMAIN st = Calls /\ DOMAIN asking = Calls /\ CallInv(c)
    BY DEF RecordInv, RunInv
  <2>2. UNCHANGED <<left, rec, run, open, unsettled, phase, st, nrun>>
    BY DEF Ask, Told, Annotated, NotWritten, writer, log
  <2>3. asking' = asking \/ \E x : asking' = [asking EXCEPT ![c] = x]
    BY DEF Ask, Told
  <2>4. st[c] # "new" BY <2>1 DEF Ask, Told, CallInv
  <2> QED BY <2>1, <2>2, <2>3, <2>4
<1>1. CASE path' = path
  <2>1. ASSUME NEW d \in Calls PROVE CallInv(d)'
    <3>1. CallInv(d) /\ (st[d] = "new" => asking'[d] = <<>>)
      BY <1>0, LogOf DEF CallInv
    <3> QED BY <1>0, <1>1, <3>1 DEF CallInv
  <2>2. RunInv' BY <1>0 DEF RecordInv, RunInv
  <2> QED BY <1>0, <1>1, <2>1, <2>2 DEF RecordInv
<1>2. ASSUME NEW k \in {"ask", "told"}, NEW v, path' = Append(path, Entry(k, c, v))
      PROVE  RecordInv'
  <2> DEFINE e == Entry(k, c, v)
  <2>1. e.k = k /\ e.c = c /\ e.b = Cardinality(left) /\ path' = Append(path, e)
    BY <1>2, EntryIs
  <2> HIDE DEF e
  <2>2. /\ BranchInv(path', left')
        /\ \A d \in Calls : SoundInv(path', left', run, d, rec'[d])
        /\ Grown(path, e, path')
    BY <1>0, <2>1, Noted
  <2>3. OpenInv(path', run', open')
    <3>1. e.k \notin Opens /\ e.k # "start" /\ e.k # "output"
      BY <2>1 DEF Opens, Decisions
    <3>2. OpenNow(OpenCalls(path), e) = OpenCalls(path)
      BY <3>1 DEF OpenNow
    <3> QED BY <1>0, <2>2, <3>1, <3>2, OpenGrow DEF OpenInv, RecordInv
  <2>4. st[c] # "new" BY <1>0
  <2>5. ASSUME NEW d \in Calls PROVE CallInv(d)'
    <3>1. CallInv(d) /\ (st[d] = "new" => asking'[d] = <<>>)
      BY <1>0, LogOf DEF CallInv
    <3>2. /\ DOMAIN path = 1..Len(path) /\ Len(path) \in Nat
          /\ DOMAIN path' = 1..(Len(path) + 1) /\ path'[Len(path) + 1] = e
          /\ \A i \in DOMAIN path : path'[i] = path[i]
      <4>1. Grown(path, e, path') BY <2>2
      <4> QED BY ONLY <4>1, Grow
    <3>3. st[d] = "new" => \A i \in DOMAIN path' :
                              path'[i].c = d => path'[i].k \in {"start", "end"}
      BY <2>1, <2>4, <3>1, <3>2 DEF CallInv
    <3> QED BY <1>0, <3>1, <3>3 DEF CallInv
  <2>6. RunInv' BY <1>0 DEF RecordInv, RunInv
  <2> QED BY <1>0, <2>2, <2>3, <2>5, <2>6 DEF RecordInv
<1>3. \/ path' = path \/ path' = Append(path, Entry("ask", c, 0))
      \/ path' = Append(path, Entry("told", c, asking[c]))
  BY DEF Ask, Told, Annotated, NotWritten, log
<1> QED BY <1>1, <1>2, <1>3

\* What CallInv gives of a record that has not moved.
LEMMA HandIs ==
    ASSUME RecordInv, NEW c \in Calls, NEW r, SameHand(rec[c], r)
    PROVE  /\ r.drun <= nrun /\ (r.before # <<>> => r.before[3] <= nrun)
           /\ Mine(r, run) =>
                 /\ st[c] \in {"handed", "back", "stopped", "over", "gone"}
                 /\ st[c] \in {"handed", "back", "stopped"} =>
                       r.known /\ ~r.answered /\ r.result = "none"
BY LogOf DEF CallInv, SameHand, Mine

\* A call of the response.
LEMMA CallItemKeeps ==
    ASSUME RecordInv, NEW c \in Calls, CallItem(c) PROVE RecordInv'
<1> DEFINE r == [NoRecord EXCEPT !.known = TRUE]
           steps == Step("call", c, 0, r)
<1>1. GoodSteps(path, left, run, c, rec[c], steps) /\ st[c] = "new"
  BY CallGood DEF CallItem
<1>2. Taken(c, rec[c], steps) \/ Failed(c, rec[c], steps)
  BY DEF CallItem
<1>3. rec[c] = NoRecord /\ nrun \in Nat /\ DOMAIN st = Calls
  BY <1>1 DEF RecordInv, CallInv, RunInv
<1>4. /\ phase = "items" /\ phase' # "idle" /\ nrun' = nrun /\ asking' = asking
  BY DEF CallItem
<1>5. /\ DOMAIN st' = Calls /\ st'[c] # "new"
      /\ \A d \in Calls \ {c} :
            st'[d] = st[d] \/ st'[d] = "gone" \/ (st[d] = "todo" /\ st'[d] = "owed")
  <2>1. \/ st' = [st EXCEPT ![c] = "todo"]
        \/ st' = [d \in Calls |-> IF d = c \/ st[d] = "todo" THEN "owed" ELSE "gone"]
    BY DEF CallItem
  <2> QED BY <1>3, <2>1
<1>6. \A x : x = rec[c] \/ (\E i \in DOMAIN steps : x = steps[i].r) =>
        x.drun = 0 /\ x.before = <<>> /\ ~x.dispatched
  BY <1>3 DEF NoRecord, Step
<1> HIDE DEF steps, r
<1>7. \A x : x = rec[c] \/ (\E i \in DOMAIN steps : x = steps[i].r) =>
        x.drun <= nrun /\ x.before = <<>> /\ ~Mine(x, run)
  BY <1>3, <1>6 DEF Mine
<1>8. phase' = "idle" <=> phase = "idle" BY <1>4
<1>9. \A d \in Calls \ {c} :
        /\ st'[d] = "new" => st[d] = "new"
        /\ \/ st'[d] = st[d] \/ st'[d] \in {"over", "gone"}
           \/ st[d] \notin {"handed", "back", "stopped", "over", "gone"}
  BY <1>5
<1> QED BY <1>1, <1>2, <1>4, <1>5, <1>7, <1>8, <1>9, HandlerStep

\* tool_start
LEMMA ToolStartKeeps ==
    ASSUME RecordInv, NEW c \in Calls, NEW d, NEW args, ToolStart(c, d, args)
    PROVE  RecordInv'
<1> DEFINE r0 == StartRecord(rec[c], d, args)
           steps == StartSteps(c, rec[c], d, args)
<1>0. DOMAIN st = Calls BY DEF RecordInv, RunInv
<1>1. /\ st[c] = "todo" /\ nrun' = nrun /\ asking' = asking /\ phase' = phase
      /\ \E x \in {"refusing", "deferring", "ready"} : st' = [st EXCEPT ![c] = x]
  BY DEF ToolStart
<1>2. /\ DOMAIN st' = Calls /\ st'[c] \in {"refusing", "deferring", "ready"}
      /\ \A x \in Calls \ {c} : st'[x] = st[x]
  BY <1>0, <1>1
<1>3. \/ ~StartRefused(rec[c]) /\ (Taken(c, r0, steps) \/ Failed(c, r0, steps))
      \/ Refused(c)
  BY DEF ToolStart
<1>4. CASE Refused(c)
  <2>1. UNCHANGED <<log, rec, run, open, nrun, asking>>
    BY <1>1, <1>4 DEF Refused
  <2>2. \A x \in Calls :
          /\ st'[x] = "new" => st[x] = "new"
          /\ st'[x] = st[x] \/ st[x] = "todo"
    BY <1>1, <1>2
  <2> QED BY <1>1, <1>2, <2>1, <2>2, AgentAlone
<1>5. CASE ~StartRefused(rec[c]) /\ (Taken(c, r0, steps) \/ Failed(c, r0, steps))
  <2>1. /\ GoodSteps(path, left, run, c, r0, steps) /\ SameHand(rec[c], r0)
        /\ \A i \in DOMAIN steps : SameHand(rec[c], steps[i].r)
    BY <1>5, LogOf, StartGood
  <2> HIDE DEF r0, steps
  <2>2. \A x : x = r0 \/ (\E i \in DOMAIN steps : x = steps[i].r) =>
           SameHand(rec[c], x)
    BY <2>1
  <2>3. \A x : x = r0 \/ (\E i \in DOMAIN steps : x = steps[i].r) =>
           /\ x.drun <= nrun /\ (x.before # <<>> => x.before[3] <= nrun)
           /\ ~Mine(x, run)
    <3> TAKE x
    <3> HAVE x = r0 \/ (\E i \in DOMAIN steps : x = steps[i].r)
    <3>1. SameHand(rec[c], x) BY <2>2
    <3> QED BY <1>1, <3>1, HandIs
  <2>4. phase' = "idle" <=> phase = "idle" BY <1>1
  <2>5. st'[c] # "new" BY <1>2
  <2> QED BY <1>1, <1>2, <1>5, <2>1, <2>3, <2>4, <2>5, HandlerStep
<1> QED BY <1>3, <1>4, <1>5

\* tool_dispatch
LEMMA DispatchKeeps ==
    ASSUME RecordInv, NEW c \in Calls, Dispatch(c) PROVE RecordInv'
<1> DEFINE r == rec[c]
           steps == DispatchSteps(c, r, how[c].key)
<1>0. DOMAIN st = Calls /\ nrun \in Nat /\ run \in {0, nrun} /\ run # 0
  BY DEF RecordInv, RunInv, Dispatch
<1>1. /\ st[c] = "ready" /\ nrun' = nrun /\ asking' = asking /\ phase' = phase
      /\ \E x \in {"handed", "stopped"} : st' = [st EXCEPT ![c] = x]
  BY DEF Dispatch
<1>2. /\ DOMAIN st' = Calls /\ st'[c] \in {"handed", "stopped"}
      /\ \A x \in Calls \ {c} : st'[x] = st[x]
  BY <1>0, <1>1
<1>3. \/ ~DispatchRefused(r) /\ (Taken(c, r, steps) \/ Failed(c, r, steps))
      \/ Refused(c)
  BY DEF Dispatch
<1>4. CASE Refused(c)
  <2>1. UNCHANGED <<log, rec, run, open, nrun, asking>>
    BY <1>1, <1>4 DEF Refused
  <2>2. \A x \in Calls :
          /\ st'[x] = "new" => st[x] = "new"
          /\ st'[x] = st[x] \/ st[x] = "ready"
    BY <1>1, <1>2
  <2> QED BY <1>1, <1>2, <2>1, <2>2, AgentAlone
<1>5. CASE ~DispatchRefused(r) /\ (Taken(c, r, steps) \/ Failed(c, r, steps))
  <2>0. /\ ~Mine(r, run) /\ r.drun <= nrun /\ (r.before # <<>> => r.before[3] <= nrun)
        /\ SoundInv(path, left, run, c, r) /\ BranchInv(path, left)
    BY <1>1, LogOf DEF CallInv
  <2>1. /\ GoodSteps(path, left, run, c, r, steps)
        /\ \A i \in DOMAIN steps :
              LET x == steps[i].r IN
              /\ x.known /\ ~x.answered /\ x.result = "none"
              /\ \/ SameHand(r, x)
                 \/ /\ x.drun = run
                    /\ x.before = <<r.dispatched, r.unknown, r.drun>>
    BY <1>0, <1>5, <2>0, DispatchGood
  <2> HIDE DEF r, steps
  <2>2. \A x : x = r \/ (\E i \in DOMAIN steps : x = steps[i].r) =>
           /\ x.drun <= nrun /\ (x.before # <<>> => x.before[3] <= nrun)
           /\ Mine(x, run) => x.known /\ ~x.answered /\ x.result = "none"
    <3> TAKE x
    <3> HAVE x = r \/ (\E i \in DOMAIN steps : x = steps[i].r)
    <3>1. CASE x = r BY <2>0, <3>1
    <3>2. ASSUME NEW i \in DOMAIN steps, x = steps[i].r
          PROVE  /\ x.drun <= nrun /\ (x.before # <<>> => x.before[3] <= nrun)
                 /\ x.known /\ ~x.answered /\ x.result = "none"
      <4>1. /\ x.known /\ ~x.answered /\ x.result = "none"
            /\ \/ SameHand(r, x)
               \/ x.drun = run /\ x.before = <<r.dispatched, r.unknown, r.drun>>
        BY <2>1, <3>2
      <4>2. run <= nrun BY <1>0
      <4>3. CASE SameHand(r, x) BY <2>0, <4>1, <4>3 DEF SameHand
      <4>4. CASE x.drun = run /\ x.before = <<r.dispatched, r.unknown, r.drun>>
        <5>1. x.before[3] = r.drun BY <4>4
        <5> QED BY <2>0, <4>1, <4>2, <4>4, <5>1
      <4> QED BY <4>1, <4>3, <4>4
    <3> QED BY <3>1, <3>2
  <2>3. phase' = "idle" <=> phase = "idle" BY <1>1
  <2>4. st'[c] # "new" BY <1>2
  <2> QED BY <1>1, <1>2, <1>5, <2>1, <2>2, <2>3, <2>4, HandlerStep DEF r
<1> QED BY <1>3, <1>4, <1>5

\* tool_end
LEMMA ToolEndKeeps ==
    ASSUME RecordInv, NEW c \in Calls, ToolEnd(c) PROVE RecordInv'
<1> DEFINE r == rec[c]
           withdrawn == st[c] = "stopped"
           ran == st[c] = "back" /\ how[c].out = "own"
           steps == EndSteps(c, r, withdrawn, ran)
<1>0. DOMAIN st = Calls /\ nrun \in Nat /\ (phase = "idle" <=> run = 0)
  BY DEF RecordInv, RunInv
<1>1. /\ nrun' = nrun /\ asking' = asking /\ phase' = phase
      /\ st' = [st EXCEPT ![c] = "over"]
      /\ Taken(c, r, steps) \/ Failed(c, r, steps)
  BY DEF ToolEnd
<1>2. /\ DOMAIN st' = Calls /\ st'[c] = "over"
      /\ \A x \in Calls \ {c} : st'[x] = st[x]
  BY <1>0, <1>1
<1>3. withdrawn \/ ran => run # 0 BY <1>0 DEF ToolEnd
<1>4. /\ SoundInv(path, left, run, c, r) /\ BranchInv(path, left)
      /\ r.drun <= nrun /\ (r.before # <<>> => r.before[3] <= nrun)
      /\ Mine(r, run) /\ (withdrawn \/ ran) => ~r.answered /\ r.result = "none"
  BY LogOf DEF CallInv
<1>5. /\ GoodSteps(path, left, run, c, r, steps)
      /\ \A i \in DOMAIN steps :
            LET x == steps[i].r IN
            /\ x.drun = r.drun \/ (r.before # <<>> /\ x.drun = r.before[3])
            /\ x.before = r.before \/ x.before = <<>>
  <2> HIDE DEF r, withdrawn, ran
  <2> QED BY <1>3, <1>4, EndGood
<1> HIDE DEF r, steps
<1>6. \A x : x = r \/ (\E i \in DOMAIN steps : x = steps[i].r) =>
         x.drun <= nrun /\ (x.before # <<>> => x.before[3] <= nrun)
  BY <1>4, <1>5
<1>7. (phase' = "idle" <=> phase = "idle") /\ st'[c] # "new" /\ st'[c] = "over"
  BY <1>1, <1>2
<1> QED BY <1>1, <1>2, <1>5, <1>6, <1>7, HandlerStep

\* An output's item_end.
LEMMA AppendOutKeeps ==
    ASSUME RecordInv, NEW c \in Calls, AppendOut(c) PROVE RecordInv'
<1> DEFINE r == rec[c]
           steps == OutputSteps(c, r, how[c].out)
<1>0. DOMAIN st = Calls BY DEF RecordInv, RunInv
<1>1. /\ nrun' = nrun /\ asking' = asking
      /\ phase \in {"answers", "out"} /\ phase' \in {phase, "ending"}
      /\ \/ /\ ~OutputRefused(r) /\ (Taken(c, r, steps) \/ Failed(c, r, steps))
            /\ st' = [st EXCEPT ![c] = "gone"]
         \/ UNCHANGED <<log, rec, run, open>> /\ st' = [st EXCEPT ![c] = "gone"]
         \/ UNCHANGED <<log, rec, run, open, st>>
  BY DEF AppendOut, Outs, Refused
<1>2. phase' = "idle" <=> phase = "idle" BY <1>1
<1>3. CASE UNCHANGED <<log, rec, run, open, st>>
  BY <1>0, <1>1, <1>2, <1>3, AgentAlone
<1>4. ASSUME st' = [st EXCEPT ![c] = "gone"]
      PROVE  /\ DOMAIN st' = Calls /\ st'[c] = "gone"
             /\ \A x \in Calls \ {c} : st'[x] = st[x]
  BY <1>0, <1>4
<1>5. CASE UNCHANGED <<log, rec, run, open>> /\ st' = [st EXCEPT ![c] = "gone"]
  <2>1. /\ DOMAIN st' = Calls
        /\ \A x \in Calls : /\ st'[x] = "new" => st[x] = "new"
                            /\ st'[x] = st[x] \/ st'[x] \in {"over", "gone"}
    BY <1>4, <1>5
  <2> QED BY <1>1, <1>2, <1>5, <2>1, AgentAlone
<1>6. CASE /\ ~OutputRefused(r) /\ (Taken(c, r, steps) \/ Failed(c, r, steps))
           /\ st' = [st EXCEPT ![c] = "gone"]
  <2>1. /\ SoundInv(path, left, run, c, r) /\ BranchInv(path, left)
        /\ r.drun <= nrun /\ (r.before # <<>> => r.before[3] <= nrun)
    BY LogOf DEF CallInv
  <2>2. /\ GoodSteps(path, left, run, c, r, steps)
        /\ \A i \in DOMAIN steps :
              LET x == steps[i].r IN
              /\ x.drun = r.drun /\ x.before = r.before
              /\ x.dispatched = r.dispatched
    BY <1>6, <2>1, OutputGood
  <2> HIDE DEF r, steps
  <2>3. \A x : x = r \/ (\E i \in DOMAIN steps : x = steps[i].r) =>
           x.drun <= nrun /\ (x.before # <<>> => x.before[3] <= nrun)
    BY <2>1, <2>2
  <2>4. st'[c] # "new" /\ st'[c] = "gone" BY <1>4, <1>6
  <2> QED BY <1>1, <1>2, <1>4, <1>6, <2>2, <2>3, <2>4, HandlerStep
<1> QED BY <1>1, <1>3, <1>5, <1>6

\* A crash, after which the record is opened again, ...
LEMMA CrashKeeps == ASSUME RecordInv, CrashAndResume PROVE RecordInv'
<1> DEFINE q == Closed(path, Cardinality(left))
<1>1. /\ path' = q /\ left' = left /\ Seeded(path', left) /\ nrun' = nrun
      /\ DOMAIN rec = Calls /\ nrun \in Nat /\ BranchInv(path, left)
  BY LogOf DEF CrashAndResume
<1>2. \A c \in Calls : ResultInv(q, c)
  BY <1>1, LogOf, ResultClosed DEF SoundInv, BranchInv
<1>3. BranchInv(q, left)
  <2>1. ASSUME NEW e, e.b = Cardinality(left), q = Append(path, e)
        PROVE  BranchInv(q, left)
    BY <1>1, <2>1, BranchGrow
  <2> QED BY <1>1, <2>1, ClosedIs
<1> HIDE DEF q
<1>4. Seeded(path', left') /\ BranchInv(path', left') /\ \A c \in Calls : ResultInv(path', c)
  BY <1>1, <1>2, <1>3
<1> QED BY <1>1, <1>4, SeededKeeps

\* ... and a rewind.
LEMMA RebaseKeeps ==
    ASSUME RecordInv, NEW x, NEW m, Rebase(x, m) PROVE RecordInv'
<1> DEFINE l == left \cup {path}
           q == Closed(SubSeq(x, 1, m), Cardinality(l))
<1>1. /\ path' = q /\ left' = l /\ Seeded(path', left') /\ nrun' = nrun
      /\ DOMAIN rec = Calls /\ nrun \in Nat /\ BranchInv(path, left)
      /\ x \in left \cup {path} /\ m \in 0..Len(x)
  BY LogOf DEF Rebase
<1>2. \A c \in Calls : ResultInv(path, c) BY LogOf DEF SoundInv
<1>3. /\ IsPath(SubSeq(x, 1, m)) /\ \A c \in Calls : ResultInv(SubSeq(x, 1, m), c)
  BY <1>1, <1>2, BranchCut
<1>4. \A c \in Calls : ResultInv(q, c) BY <1>3, ResultClosed
<1>5. BranchInv(q, l) BY <1>1, <1>2, BranchLeft
<1> HIDE DEF q, l
<1>6. Seeded(path', left') /\ BranchInv(path', left') /\ \A c \in Calls : ResultInv(path', c)
  BY <1>1, <1>4, <1>5
<1> QED BY <1>1, <1>6, SeededKeeps

\* A rewind to any entry, or to none.
Rewinds == \E x \in left \cup {path} : \E n \in 0..Len(x) : Rebase(x, n)

-----------------------------------------------------------------------------
(* The theorems.                                                           *)

\* Every step keeps the invariant.
LEMMA NextRecord == RecordInv /\ [Next]_vars => RecordInv'
<1> SUFFICES ASSUME RecordInv, [Next]_vars PROVE RecordInv'
  OBVIOUS
<1>1. CASE UNCHANGED vars
  <2>1. DOMAIN st = Calls BY DEF RecordInv, RunInv
  <2>2. UNCHANGED <<log, rec, run, open, nrun, asking, st, phase>>
    BY <1>1 DEF vars, writer, agent
  <2> QED BY <2>1, <2>2, AgentAlone
<1>2. CASE Next
  <2>1. CASE Execute \/ Abort \/ Drained \/ OutsDone \/ \E c \in Calls : ToolReturns(c)
    BY <2>1, AgentKeeps
  <2>2. CASE RunStart \/ Resume \/ RunEnd \/ CrashAndResume
    BY <2>2, RunStartKeeps, ResumeKeeps, RunEndKeeps, CrashKeeps
  <2>3. CASE Rewinds BY <2>3, RebaseKeeps DEF Rewinds
  <2>4. ASSUME NEW c \in Calls,
               \/ CallItem(c) \/ Dispatch(c) \/ ToolEnd(c) \/ AppendOut(c)
               \/ Ask(c) \/ Told(c)
               \/ \E d \in budget.decisions, args \in budget.args :
                     ToolStart(c, d, args)
        PROVE  RecordInv'
    BY <2>4, CallItemKeeps, DispatchKeeps, ToolEndKeeps, AppendOutKeeps, AskKeeps,
       ToolStartKeeps
  <2> QED BY <1>2, <2>1, <2>2, <2>3, <2>4 DEF Next, Rewinds
<1> QED BY <1>1, <1>2

\* The invariant has what memory and log are compared in.
LEMMA LiveSeeded == RecordInv => LiveIsSeeded
<1> SUFFICES ASSUME RecordInv PROVE LiveIsSeeded
  OBVIOUS
<1>1. run # 0 => open = OpenCalls(path) BY DEF RecordInv, OpenInv
<1>2. ASSUME NEW c \in Calls
      PROVE  LET r == rec[c] s == CallRecordOf(path, left, c) IN
             /\ r.known = s.known /\ r.answered = s.answered
             /\ r.known /\ ~r.answered =>
                   /\ r.held = s.held /\ r.dispatched = s.dispatched
                   /\ r.rejected = s.rejected /\ r.ended = s.ended
                   /\ r.unknown = s.unknown /\ r.result = s.result
  <2> DEFINE r == rec[c]
             s == CallRecordOf(path, left, c)
  <2>1. SoundInv(path, left, run, c, r) /\ IsPath(path)
    BY LogOf DEF BranchInv
  <2>2. SoundInv(path, left, 0, c, s) BY <2>1, SeedSound DEF SoundInv
  <2> HIDE DEF r, s
  <2>3. /\ r \in RecordType(r) /\ s \in RecordType(s)
        /\ AgreeInv(path, left, c, r) /\ AgreeInv(path, left, c, s)
    BY <2>1, <2>2 DEF SoundInv
  <2>4. /\ r.known = s.known /\ r.answered = s.answered
        /\ r.known /\ ~r.answered =>
              /\ r.held = s.held /\ r.dispatched = s.dispatched
              /\ r.rejected = s.rejected /\ r.ended = s.ended
              /\ r.unknown = s.unknown /\ r.result = s.result
    BY <2>3 DEF AgreeInv, RecordType
  <2> QED BY <2>4 DEF r, s
<1> QED BY <1>1, <1>2 DEF LiveIsSeeded

\* At every event, whatever write failed and whatever was rewound before,
\* the recorder's memory of a call is what a recorder that opens the record
\* now would read of it, and the calls it has open are those the path has.
THEOREM MemoryIsTheRecord == Spec => []LiveIsSeeded
<1>1. Init => RecordInv BY InitRecord
<1>2. RecordInv /\ [Next]_vars => RecordInv' BY NextRecord
<1>3. RecordInv => LiveIsSeeded BY LiveSeeded
<1> QED BY <1>1, <1>2, <1>3, PTL DEF Spec

-----------------------------------------------------------------------------
(* What the record says of the calls that their tools were given.          *)

\* An output that no decision gave is the tool's own, of a call it was given.
OutputInv(p, c, hs) ==
    Has(p, c, {"call"}) => \A i \in At(p, c, {"output"}) :
        \/ p[i].v = "own" /\ hs # <<>>
        \/ \E j \in At(p, c, {"answer", "reject"}) : j < i

\* The call's tool waits on the last question asked, if on any.
AskInv(p, c, a) ==
    a # <<>> => \E m \in At(p, c, {"ask"}) :
                   /\ \A j \in At(p, c, {"ask"}) : j <= m
                   /\ a = <<p[m].b, m>>
                   /\ \A j \in At(p, c, {"told"}) : p[j].v # a

\* The call was refused before its tool was given it: each hand-off is on a
\* branch opened since.
RejectInv(p, c, hs) ==
    \A i \in At(p, c, {"reject"}), j \in DOMAIN hs :
        hs[j].at # <<>> /\ hs[j].at[1] > p[i].b

\* What a path, be it one that was left, says of a call that was given to
\* its tool hs times.
Tells(p, c, hs) ==
    /\ RejectInv(p, c, hs)
    /\ Has(p, c, {"result"}) => hs # <<>>
    /\ OutputInv(p, c, hs)
    /\ \A j \in At(p, c, {"told"}) : p[j].v[2] \in 1..(j - 1)

\* What the path p, with the paths l left, says of it where its tool waits
\* on question a.
SaidInv(p, l, c, hs, a) ==
    /\ hs # <<>> => Dispatched(p, c) \/ OffPaths(p, l, c) # {}
    /\ Tells(p, c, hs) /\ AskInv(p, c, a)

\* The entry e may follow p.
Speaks(p, l, c, hs, a, e) ==
    /\ e.k = "reject" => hs = <<>>
    /\ e.k = "result" => hs # <<>>
    /\ e.k = "output" /\ Has(p, c, {"call"}) =>
          (e.v = "own" /\ hs # <<>>) \/ Has(p, c, {"answer", "reject"})
    /\ e.k = "call" => ~Has(p, c, {"output"})
    /\ e.k = "told" => e.v[2] \in 1..Len(p)
    /\ e.k = "withdraw" /\ hs # <<>> =>
          Dispatched(Append(p, e), c) \/ OffPaths(p, l, c) # {}
    /\ e.k \in {"ask", "told"} => a = <<>>

\* A path that grows by such an entry says what it said before.
LEMMA SaidGrow ==
    ASSUME NEW p, NEW l, NEW c, NEW hs, NEW a, NEW e, BranchInv(p, l),
           e.b = Cardinality(l), e.c = c => Speaks(p, l, c, hs, a, e),
           SaidInv(p, l, c, hs, a)
    PROVE  SaidInv(Append(p, e), l, c, hs, a)
<1> DEFINE p2 == Append(p, e)
           N == Len(p) + 1
<1>1. Grown(p, e, p2) BY DEF Grown, BranchInv
<1>2. e.c = c /\ e.k = "withdraw" /\ hs # <<>> => Dispatched(p2, c) \/ OffPaths(p, l, c) # {}
  BY DEF Speaks
<1> HIDE DEF p2
<1>3. /\ Len(p) \in Nat /\ DOMAIN p = 1..Len(p) /\ \A i \in DOMAIN p : p2[i] = p[i]
      /\ p2[N] = e /\ N \notin DOMAIN p
  BY <1>1, Grow
<1>4. \A K : /\ At(p, c, K) \subseteq DOMAIN p
             /\ e.c = c /\ e.k \in K => At(p2, c, K) = At(p, c, K) \cup {N}
             /\ ~(e.c = c /\ e.k \in K) => At(p2, c, K) = At(p, c, K)
             /\ Has(p2, c, K) <=> Has(p, c, K) \/ (e.c = c /\ e.k \in K)
  BY <1>1, <1>3, AtGrow
<1>5. OffPaths(p2, l, c) = OffPaths(p, l, c) BY <1>1, OffKept
<1>6. hs # <<>> => Dispatched(p2, c) \/ OffPaths(p2, l, c) # {}
  <2>1. CASE e.c = c /\ e.k = "withdraw" BY <1>2, <1>5, <2>1
  <2>2. CASE e.c = c /\ e.k = "dispatch"
    BY <1>1, <2>2, DispatchesAdded DEF Dispatched
  <2>3. CASE e.c = c => e.k \notin {"dispatch", "withdraw"}
    BY <1>1, <1>5, <2>3, DispatchesKept DEF Dispatched, SaidInv, Tells
  <2> QED BY <2>1, <2>2, <2>3
<1>7. RejectInv(p2, c, hs) /\ (Has(p2, c, {"result"}) => hs # <<>>)
  <2>1. ASSUME NEW i \in At(p2, c, {"reject"}), NEW j \in DOMAIN hs
        PROVE  hs[j].at # <<>> /\ hs[j].at[1] > p2[i].b
    <3>1. CASE i \in At(p, c, {"reject"})
      <4>1. p2[i] = p[i] BY <1>3, <1>4, <3>1
      <4> QED BY <3>1, <4>1 DEF SaidInv, Tells, RejectInv
    <3>2. CASE i \notin At(p, c, {"reject"})
      <4>1. e.c = c /\ e.k = "reject" BY <1>4, <3>2
      <4>2. hs = <<>> BY <4>1 DEF Speaks
      <4> QED BY <4>2
    <3> QED BY <3>1, <3>2
  <2>2. Has(p2, c, {"result"}) => hs # <<>>
    BY <1>4 DEF SaidInv, Tells, Speaks
  <2> QED BY <2>1, <2>2 DEF RejectInv
<1>8. OutputInv(p2, c, hs)
  <2> SUFFICES ASSUME Has(p2, c, {"call"}), NEW i \in At(p2, c, {"output"})
               PROVE  \/ p2[i].v = "own" /\ hs # <<>>
                      \/ \E j \in At(p2, c, {"answer", "reject"}) : j < i
    BY DEF OutputInv
  <2>0. At(p, c, {"answer", "reject"}) \subseteq At(p2, c, {"answer", "reject"})
    BY <1>4
  <2>1. CASE i \in At(p, c, {"output"})
    <3>1. Has(p, c, {"output"}) /\ i \in DOMAIN p
      BY <1>4, <2>1 DEF Has, At
    <3>2. Has(p, c, {"call"}) BY <1>4, <3>1 DEF Speaks
    <3>3. \/ p[i].v = "own" /\ hs # <<>>
          \/ \E j \in At(p, c, {"answer", "reject"}) : j < i
      BY <2>1, <3>2 DEF SaidInv, Tells, OutputInv
    <3> QED BY <1>3, <2>0, <3>1, <3>3
  <2>2. CASE i \notin At(p, c, {"output"})
    <3>1. i = N /\ e.c = c /\ e.k = "output" BY <1>4, <2>2
    <3>2. Has(p, c, {"call"}) BY <1>4, <3>1
    <3>3. (e.v = "own" /\ hs # <<>>) \/ Has(p, c, {"answer", "reject"})
      BY <3>1, <3>2 DEF Speaks
    <3>4. Has(p, c, {"answer", "reject"}) =>
             \E j \in At(p, c, {"answer", "reject"}) : j < N
      BY <1>3 DEF Has, At
    <3> QED BY <1>3, <2>0, <3>1, <3>3, <3>4
  <2> QED BY <2>1, <2>2
<1>9. ASSUME NEW j \in At(p2, c, {"told"}) PROVE p2[j].v[2] \in 1..(j - 1)
  <2>1. CASE j \in At(p, c, {"told"})
    BY <1>3, <1>4, <2>1 DEF SaidInv, Tells
  <2>2. CASE j \notin At(p, c, {"told"})
    <3>1. j = N /\ e.c = c /\ e.k = "told" BY <1>4, <2>2
    <3> QED BY <1>3, <3>1 DEF Speaks
  <2> QED BY <2>1, <2>2
<1>10. AskInv(p2, c, a)
  <2>1. CASE a = <<>> BY <2>1 DEF AskInv
  <2>2. CASE a # <<>>
    <3>1. /\ At(p2, c, {"ask"}) = At(p, c, {"ask"}) /\ At(p2, c, {"told"}) = At(p, c, {"told"})
          /\ At(p, c, {"ask"}) \subseteq DOMAIN p /\ At(p, c, {"told"}) \subseteq DOMAIN p
      BY <1>4, <2>2 DEF Speaks
    <3>2. \E m \in At(p, c, {"ask"}) :
             /\ \A j \in At(p, c, {"ask"}) : j <= m
             /\ a = <<p[m].b, m>>
             /\ \A j \in At(p, c, {"told"}) : p[j].v # a
      BY <2>2 DEF SaidInv, Tells, AskInv
    <3> QED BY <1>3, <3>1, <3>2 DEF AskInv
  <2> QED BY <2>1, <2>2
<1>11. SaidInv(p2, l, c, hs, a)
  BY <1>6, <1>7, <1>8, <1>9, <1>10 DEF SaidInv, Tells
<1> QED BY <1>11 DEF p2

\* The path once the first n steps of a handler are written.
After(steps, n) == path \o SubSeq(Entries(steps), 1, n)

\* It is the path with their entries appended.
LEMMA AfterIs ==
    ASSUME IsPath(path), NEW steps
    PROVE  /\ After(steps, 0) = path
           /\ \A e, r : steps = <<[e |-> e, r |-> r]>> =>
                 /\ Len(steps) = 1 /\ DOMAIN steps = {1} /\ steps[1].e = e /\ steps[1].r = r
                 /\ After(steps, 1) = Append(path, e)
           /\ \A e, r, e2, r2 :
                 steps = <<[e |-> e, r |-> r], [e |-> e2, r |-> r2]>> =>
                    /\ Len(steps) = 2 /\ DOMAIN steps = {1, 2}
                    /\ steps[1].r = r /\ steps[2].r = r2
                    /\ After(steps, 1) = Append(path, e)
                    /\ After(steps, 2) = Append(Append(path, e), e2)
<1>1. After(steps, 0) = path
  <2>1. SubSeq(Entries(steps), 1, 0) = <<>> OBVIOUS
  <2>2. path \o <<>> = path BY DEF IsPath
  <2> QED BY <2>1, <2>2 DEF After
<1>2. ASSUME NEW e, NEW r, steps = <<[e |-> e, r |-> r]>>
      PROVE  /\ Len(steps) = 1 /\ DOMAIN steps = {1} /\ steps[1].e = e /\ steps[1].r = r
             /\ After(steps, 1) = Append(path, e)
  <2>1. /\ steps \in Seq({steps[i] : i \in DOMAIN steps}) /\ Len(steps) = 1
        /\ DOMAIN steps = {1} /\ steps[1].e = e /\ steps[1].r = r
    BY <1>2
  <2>2. SubSeq(Entries(steps), 1, 1) = <<e>>
    BY ONLY SMTT(60), <2>1, FirstEntries
  <2>3. path \o <<e>> = Append(path, e) BY DEF IsPath
  <2> QED BY <2>1, <2>2, <2>3 DEF After
<1>3. ASSUME NEW e, NEW r, NEW e2, NEW r2,
             steps = <<[e |-> e, r |-> r], [e |-> e2, r |-> r2]>>
      PROVE  /\ Len(steps) = 2 /\ DOMAIN steps = {1, 2}
             /\ steps[1].r = r /\ steps[2].r = r2
             /\ After(steps, 1) = Append(path, e)
             /\ After(steps, 2) = Append(Append(path, e), e2)
  <2>1. /\ steps \in Seq({steps[i] : i \in DOMAIN steps}) /\ Len(steps) = 2
        /\ DOMAIN steps = {1, 2} /\ steps[1].e = e /\ steps[2].e = e2
        /\ steps[1].r = r /\ steps[2].r = r2
    BY <1>3
  <2>2. SubSeq(Entries(steps), 1, 1) = <<e>> /\ SubSeq(Entries(steps), 1, 2) = <<e, e2>>
    BY ONLY SMTT(60), <2>1, FirstEntries
  <2>3. path \o <<e>> = Append(path, e) /\ path \o <<e, e2>> = Append(Append(path, e), e2)
    BY DEF IsPath
  <2> QED BY <2>1, <2>2, <2>3 DEF After
<1> QED BY <1>1, <1>2, <1>3

\* The handler of an event has written n of its steps.
Wrote(c, r0, steps, n) ==
    /\ path' = After(steps, n) /\ left' = left /\ run' = run
    /\ rec' = [rec EXCEPT ![c] = IF n = 0 THEN r0 ELSE steps[n].r]

\* It writes all of them, but where a write fails.
LEMMA HandlerWrote ==
    ASSUME NEW c, NEW r0, NEW steps, Len(steps) \in Nat
    PROVE  /\ Taken(c, r0, steps) => Wrote(c, r0, steps, Len(steps)) /\ budget' = budget
           /\ Failed(c, r0, steps) =>
                 \/ /\ budget.fails > 0 /\ budget' = [budget EXCEPT !.fails = @ - 1]
                    /\ \E n \in 0..(Len(steps) - 1) : Wrote(c, r0, steps, n)
                 \/ /\ budget.refusals > 0 /\ budget' = [budget EXCEPT !.refusals = @ - 1]
                    /\ Wrote(c, r0, steps, Len(steps))
<1>1. \A n : Written(c, r0, steps, n) => Wrote(c, r0, steps, n)
  BY DEF Written, Wrote, After
<1> QED BY <1>1 DEF Taken, Failed

\* So some of them in any case.
LEMMA HandlerWrites ==
    ASSUME NEW c, NEW r0, NEW steps, Len(steps) \in Nat,
           Taken(c, r0, steps) \/ Failed(c, r0, steps)
    PROVE  \E n \in 0..Len(steps) : Wrote(c, r0, steps, n)
<1>1. 0..(Len(steps) - 1) \subseteq 0..Len(steps) /\ Len(steps) \in 0..Len(steps)
  OBVIOUS
<1> QED BY <1>1, HandlerWrote

\* The entries of a handler may be written.
Says(c, hs, a, steps) ==
    \/ steps = <<>>
    \/ \E e, r : /\ steps = <<[e |-> e, r |-> r]>>
                 /\ e.c = c /\ e.b = Cardinality(left) /\ Speaks(path, left, c, hs, a, e)
    \/ \E e, r, e2, r2 :
          /\ steps = <<[e |-> e, r |-> r], [e |-> e2, r |-> r2]>>
          /\ e.c = c /\ e.b = Cardinality(left) /\ Speaks(path, left, c, hs, a, e)
          /\ e2.c = c /\ e2.b = Cardinality(left)
          /\ Speaks(Append(path, e), left, c, hs, a, e2)

SaidAll == \A d \in Calls : SaidInv(path, left, d, hands[d], asking[d])

\* A handler keeps what the path says of any call.
LEMMA SaidHandler ==
    ASSUME BranchInv(path, left), SaidAll, NEW c \in Calls, NEW steps,
           Says(c, hands[c], asking[c], steps), NEW n \in 0..Len(steps), NEW d \in Calls
    PROVE  SaidInv(After(steps, n), left, d, hands[d], asking[d])
<1> DEFINE hs == hands[d]
           a == asking[d]
<1>0. SaidInv(path, left, d, hs, a) /\ IsPath(path) /\ (d = c => hs = hands[c] /\ a = asking[c])
  BY DEF SaidAll, BranchInv
<1> HIDE DEF hs, a
<1>1. CASE steps = <<>> BY <1>0, <1>1, AfterIs DEF hs, a
<1>2. ASSUME NEW e, e.c = c, e.b = Cardinality(left),
             Speaks(path, left, c, hands[c], asking[c], e)
      PROVE  BranchInv(Append(path, e), left) /\ SaidInv(Append(path, e), left, d, hs, a)
  <2>1. e.c = d => Speaks(path, left, d, hs, a, e) BY <1>0, <1>2
  <2>2. SaidInv(Append(path, e), left, d, hs, a)
    BY <1>0, <1>2, <2>1, SaidGrow
  <2> QED BY <1>2, <2>2, BranchGrow
<1>3. ASSUME NEW e, NEW r, steps = <<[e |-> e, r |-> r]>>,
             e.c = c, e.b = Cardinality(left),
             Speaks(path, left, c, hands[c], asking[c], e)
      PROVE  SaidInv(After(steps, n), left, d, hs, a)
  <2>1. /\ Len(steps) = 1 /\ After(steps, 0) = path /\ After(steps, 1) = Append(path, e)
    BY <1>0, <1>3, AfterIs
  <2>2. n = 0 \/ n = 1 BY <2>1
  <2> QED BY <1>0, <1>2, <1>3, <2>1, <2>2
<1>4. ASSUME NEW e, NEW r, NEW e2, NEW r2,
             steps = <<[e |-> e, r |-> r], [e |-> e2, r |-> r2]>>,
             e.c = c, e.b = Cardinality(left),
             Speaks(path, left, c, hands[c], asking[c], e),
             e2.c = c, e2.b = Cardinality(left),
             Speaks(Append(path, e), left, c, hands[c], asking[c], e2)
      PROVE  SaidInv(After(steps, n), left, d, hs, a)
  <2> DEFINE p1 == Append(path, e)
  <2>1. /\ Len(steps) = 2 /\ After(steps, 0) = path /\ After(steps, 1) = p1
        /\ After(steps, 2) = Append(p1, e2)
    BY <1>0, <1>4, AfterIs
  <2>2. BranchInv(p1, left) /\ SaidInv(p1, left, d, hs, a) BY <1>2, <1>4
  <2>3. e2.c = d => Speaks(p1, left, d, hs, a, e2) BY <1>0, <1>4
  <2> HIDE DEF p1
  <2>4. SaidInv(Append(p1, e2), left, d, hs, a)
    BY <1>4, <2>2, <2>3, SaidGrow
  <2>5. n = 0 \/ n = 1 \/ n = 2 BY <2>1
  <2> QED BY <1>0, <2>1, <2>2, <2>4, <2>5
<1> QED BY <1>1, <1>3, <1>4 DEF Says, hs, a

\* How a call stands in a run; of its arguments, key and output nothing is
\* asked.
HowType(h) == [args : {h.args}, key : {h.key}, out : {h.out}, def : BOOLEAN,
               hand : BOOLEAN, appr : BOOLEAN]

\* Where the agent is with a call, and what its tool has had of it: a call
\* that this run dispatched has its tool's output or none, and one whose
\* dispatch is to be withdrawn was given to its tool under another, if ever.
GivenInv(c) ==
    LET r == rec[c] h == how[c] IN
    /\ h \in HowType(h) /\ IsPath(hands[c])
    /\ st[c] = "new" => hands[c] = <<>>
    /\ st[c] = "handed" => /\ Mine(r, run) /\ ~r.rejected /\ ~r.ended /\ hands[c] # <<>>
                           /\ phase = "work"
    /\ asking[c] # <<>> => st[c] = "handed"
    /\ st[c] \in {"ready", "stopped"} => h.out = "none"
    /\ st[c] = "answer" => h.out # "none" /\ phase # "idle"
    /\ st[c] = "ready" => /\ phase \in {"start", "work"}
                          /\ failing = FALSE /\ r.known => ~r.answered
    /\ Mine(r, run) => h.out = "none" \/ (h.out = "own" /\ hands[c] # <<>>)
    /\ Mine(r, run) /\ st[c] = "stopped" /\ hands[c] # <<>> => r.before[1] \/ r.before[2]

TrueInv ==
    /\ DOMAIN how = Calls /\ DOMAIN hands = Calls /\ failing \in BOOLEAN
    /\ SaidAll /\ \A c \in Calls : GivenInv(c)

\* A batch that is being worked on stays so, and cut off if it is.
SameBatch ==
    /\ phase \in {"start", "work"} =>
          \/ phase' = phase \/ phase' = "work"
          \/ \A d \in Calls : st[d] \notin {"ready", "handed"}
    /\ phase # "idle" => phase' # "idle"
    /\ failing' = FALSE => failing = FALSE

\* A call that a step is not about.
LEMMA GivenKept ==
    ASSUME NEW d \in Calls, GivenInv(d), rec'[d] = rec[d], how'[d] = how[d],
           hands'[d] = hands[d], asking'[d] = asking[d], run' = run,
           SameBatch,
           \/ st'[d] = st[d]
           \/ st[d] # "handed" /\ st'[d] \in {"owed", "gone"}
    PROVE  GivenInv(d)'
<1>0. st[d] = "answer" => phase' # "idle" BY DEF GivenInv, SameBatch
<1>1. st[d] = "ready" => phase' \in {"start", "work"}
  BY DEF GivenInv, SameBatch
<1>2. st[d] = "handed" => phase' = "work" BY DEF GivenInv, SameBatch
<1>3. failing' = FALSE => failing = FALSE BY DEF SameBatch
<1>4. st[d] = "ready" => (failing = FALSE /\ rec[d].known => ~rec[d].answered)
  BY DEF GivenInv
<1>5. st[d] = "ready" => (failing' = FALSE /\ rec'[d].known => ~rec'[d].answered)
  BY <1>3, <1>4
<1> QED BY <1>0, <1>1, <1>2, <1>5 DEF GivenInv, Mine

\* A handler of call c, which does not give the call to its tool.
LEMMA TrueHandler ==
    ASSUME RecordInv, TrueInv, NEW c \in Calls, NEW r0, NEW steps,
           Says(c, hands[c], asking[c], steps), Len(steps) \in Nat,
           Taken(c, r0, steps) \/ Failed(c, r0, steps),
           hands' = hands, asking' = asking, DOMAIN how' = Calls,
           SameBatch, failing' \in BOOLEAN,
           \A d \in Calls \ {c} :
              /\ how'[d] = how[d]
              /\ st'[d] = st[d] \/ (st[d] # "handed" /\ st'[d] \in {"owed", "gone"}),
           \A r : r = r0 \/ (\E i \in DOMAIN steps : r = steps[i].r) =>
              (rec'[c] = r /\ run' = run => GivenInv(c)')
    PROVE  TrueInv'
<1>1. BranchInv(path, left) /\ DOMAIN rec = Calls BY LogOf
<1>2. PICK n \in 0..Len(steps) : Wrote(c, r0, steps, n) BY HandlerWrites
<1>3. /\ path' = After(steps, n) /\ left' = left /\ run' = run
      /\ rec' = [rec EXCEPT ![c] = IF n = 0 THEN r0 ELSE steps[n].r]
  BY <1>2 DEF Wrote
<1>4. SaidAll'
  <2>1. ASSUME NEW d \in Calls PROVE SaidInv(path', left', d, hands'[d], asking'[d])
    <3>1. SaidInv(After(steps, n), left, d, hands[d], asking[d])
      BY <1>1, SaidHandler DEF TrueInv
    <3> QED BY <1>3, <3>1
  <2> QED BY <2>1 DEF SaidAll
<1>5. GivenInv(c)'
  <2>1. n = 0 \/ n \in DOMAIN steps
    <3>1. steps = <<>> \/ DOMAIN steps = 1..Len(steps)
      BY <1>1, AfterIs DEF Says, BranchInv
    <3>2. steps = <<>> => Len(steps) = 0 OBVIOUS
    <3> QED BY <3>1, <3>2
  <2>2. rec'[c] = r0 \/ \E i \in DOMAIN steps : rec'[c] = steps[i].r
    BY <1>1, <1>3, <2>1
  <2> QED BY <1>3, <2>2
<1>6. ASSUME NEW d \in Calls, d # c PROVE GivenInv(d)'
  <2>1. rec'[d] = rec[d] /\ GivenInv(d) BY <1>1, <1>3, <1>6 DEF TrueInv
  <2> QED BY <1>3, <1>6, <2>1, GivenKept
<1> QED BY <1>4, <1>5, <1>6 DEF TrueInv

\* A call that no dispatch is recorded of was not given to its tool.
LEMMA NotGiven ==
    ASSUME NEW p, NEW l, NEW n, NEW c, NEW r, NEW hs, NEW a, SoundInv(p, l, n, c, r),
           SaidInv(p, l, c, hs, a), r.known, ~r.answered, ~r.dispatched, ~r.unknown
    PROVE  hs = <<>>
BY DEF SoundInv, AgreeInv, IsOff, SaidInv, Tells

\* What toolStart writes: one decision or none, a rejection of a call that
\* no dispatch is recorded of alone, and the arguments where they are new.
StartWrites(c, r, d, args, steps) ==
    LET v == IF Carries(r, args) THEN args ELSE 2 IN
    \/ /\ steps = <<>>
       /\ r.known /\ ~r.rejected /\ ~r.ended => d \notin {"block", "defer"} /\ v = 2
    \/ \E k \in Decisions : \E w, r2 :
          /\ steps = <<[e |-> Entry(k, c, w), r |-> r2]>>
          /\ r.known /\ ~r.answered /\ ~r.rejected /\ ~r.ended
          /\ k = "reject" => ~r.dispatched /\ ~r.unknown
          /\ IF d = "block" THEN k \in {"reject", "answer"} /\ r2.decided = r.decided
             ELSE /\ k = (IF d = "defer" THEN "hold" ELSE "proceed") /\ w = v
                  /\ r2.decided = (IF v = 2 THEN r.decided ELSE v)

\* toolStart's steps.
LEMMA StartShape ==
    ASSUME NEW c, NEW r, NEW d, NEW args, r \in RecordType(r), ~StartRefused(r),
           args \in {0, 1}
    PROVE  StartWrites(c, r, d, args, StartSteps(c, r, d, args))
<1> DEFINE r0 == StartRecord(r, d, args)
           steps == StartSteps(c, r, d, args)
           v == IF Carries(r, args) THEN args ELSE 2
           q == [r EXCEPT !.again = FALSE]
<1>1. Carries(r, args) <=> v # 2 OBVIOUS
<1>2. CASE steps = <<>>
  <2>1. CASE r.known /\ ~r.rejected /\ ~r.ended
    <3>1. d \notin {"block", "defer"} /\ v = 2
      BY <1>2, <2>1 DEF StartSteps, Step
    <3> QED BY <1>2, <3>1 DEF StartWrites
  <2>2. CASE ~(r.known /\ ~r.rejected /\ ~r.ended)
    BY <1>2, <2>2 DEF StartWrites
  <2> QED BY <2>1, <2>2
<1>3. ASSUME steps # <<>> PROVE r.known /\ ~r.answered /\ ~r.rejected /\ ~r.ended
  BY <1>3 DEF StartSteps, StartRefused, RecordType
<1>4. CASE steps # <<>> /\ d = "block"
  <2> DEFINE k == IF r.dispatched \/ r.unknown THEN "answer" ELSE "reject"
             r2 == IF r.dispatched \/ r.unknown
                   THEN [q EXCEPT !.held = FALSE, !.ended = TRUE]
                   ELSE [q EXCEPT !.held = FALSE, !.rejected = TRUE]
  <2>1. steps = <<[e |-> Entry(k, c, 0), r |-> r2]>>
    BY <1>3, <1>4 DEF StartSteps, Step
  <2>2. r2.decided = r.decided BY DEF RecordType
  <2>3. k \in Decisions /\ k \in {"reject", "answer"}
        /\ (k = "reject" => ~r.dispatched /\ ~r.unknown)
    BY DEF Decisions
  <2> HIDE DEF k, r2, steps
  <2> QED BY <1>3, <1>4, <2>1, <2>2, <2>3 DEF StartWrites, steps
<1>5. CASE steps # <<>> /\ d = "defer"
  <2> DEFINE r2 == [q EXCEPT !.held = TRUE, !.decided = IF v = 2 THEN @ ELSE v]
  <2>1. steps = <<[e |-> Entry("hold", c, v), r |-> r2]>>
    BY <1>3, <1>5 DEF StartSteps, Step
  <2>2. r2.decided = IF v = 2 THEN r.decided ELSE v BY DEF RecordType
  <2> HIDE DEF r2, steps
  <2>3. "hold" \in Decisions BY DEF Decisions
  <2> QED BY <1>3, <1>5, <2>1, <2>2, <2>3 DEF StartWrites, steps
<1>6. CASE steps # <<>> /\ d \notin {"block", "defer"}
  <2> DEFINE r2 == [r0 EXCEPT !.held = FALSE]
  <2>1. /\ steps = <<[e |-> Entry("proceed", c, v), r |-> r2]>>
        /\ v # 2 \/ r.held \/ d = "reason"
    BY <1>3, <1>6 DEF StartSteps, Step
  <2>2. r0 = [r EXCEPT !.again = FALSE, !.decided = IF v # 2 THEN args ELSE @]
    BY <1>1, <1>3, <1>6, <2>1 DEF StartRecord
  <2>3. r2.decided = IF v = 2 THEN r.decided ELSE v
    <3> HIDE DEF v
    <3>1. r2.decided = IF v # 2 THEN args ELSE r.decided
      BY <2>2 DEF RecordType
    <3> QED BY <3>1 DEF v
  <2> HIDE DEF r2, steps
  <2>4. "proceed" \in Decisions BY DEF Decisions
  <2> QED BY <1>3, <1>6, <2>1, <2>3, <2>4 DEF StartWrites, steps
<1> QED BY <1>2, <1>4, <1>5, <1>6

\* What is left of the bounds.
BudgetInv ==
    budget \in [calls : SUBSET Calls, decisions : SUBSET HookDecisions,
                args : SUBSET {0, 1}, runs : Nat, crashes : Nat, fails : Nat,
                rebases : Nat, refusals : Nat, asks : Nat]

\* Bounds are only spent.
Spent ==
    /\ budget'.calls = budget.calls /\ budget'.args = budget.args
    /\ budget'.decisions = budget.decisions
    /\ budget.fails = 0 => budget'.fails = 0
    /\ budget.rebases = 0 => budget'.rebases = 0
    /\ budget.refusals = 0 => budget'.refusals = 0

\* So each step leaves of them what it found, or less.
LEMMA BudgetSpent ==
    ASSUME BudgetInv, [Next]_vars
    PROVE  BudgetInv' /\ Spent
<1>1. ASSUME budget' = budget PROVE BudgetInv' /\ Spent
  BY <1>1 DEF BudgetInv, Spent
<1>2. ASSUME NEW f \in {"runs", "crashes", "fails", "rebases", "refusals", "asks"},
             budget[f] > 0, budget' = [budget EXCEPT ![f] = @ - 1]
      PROVE  BudgetInv' /\ Spent
  <2>1. budget[f] \in Nat /\ budget[f] - 1 \in Nat BY <1>2 DEF BudgetInv
  <2>2. CASE f = "runs" BY <1>2, <2>1, <2>2 DEF BudgetInv, Spent
  <2>3. CASE f = "crashes" BY <1>2, <2>1, <2>3 DEF BudgetInv, Spent
  <2>4. CASE f = "fails" BY <1>2, <2>1, <2>4 DEF BudgetInv, Spent
  <2>5. CASE f = "rebases" BY <1>2, <2>1, <2>5 DEF BudgetInv, Spent
  <2>6. CASE f = "refusals" BY <1>2, <2>1, <2>6 DEF BudgetInv, Spent
  <2>7. CASE f = "asks" BY <1>2, <2>1, <2>7 DEF BudgetInv, Spent
  <2> QED BY <2>2, <2>3, <2>4, <2>5, <2>6, <2>7
<1>3. ASSUME NEW c, NEW r0, NEW steps, Taken(c, r0, steps) \/ Failed(c, r0, steps)
      PROVE  BudgetInv' /\ Spent
  BY <1>1, <1>2, <1>3 DEF Taken, Failed
<1>4. CASE UNCHANGED vars \/ Execute \/ Abort \/ Drained \/ OutsDone \/ RunEnd
  BY <1>1, <1>4 DEF vars, Execute, Abort, Drained, OutsDone, RunEnd
<1>5. CASE RunStart \/ Resume \/ CrashAndResume \/ Rewinds
  BY <1>2, <1>5 DEF RunStart, Resume, CrashAndResume, Rewinds, Rebase
<1>6. ASSUME NEW c \in Calls, ToolReturns(c) \/ Ask(c) \/ Told(c)
      PROVE  BudgetInv' /\ Spent
  BY <1>1, <1>2, <1>6 DEF ToolReturns, Ask, Told, NotWritten
<1>7. ASSUME NEW c \in Calls, CallItem(c) \/ ToolEnd(c)
      PROVE  BudgetInv' /\ Spent
  BY <1>3, <1>7 DEF CallItem, ToolEnd
<1>8. ASSUME NEW c \in Calls, NEW d, NEW args, ToolStart(c, d, args)
      PROVE  BudgetInv' /\ Spent
  BY <1>1, <1>3, <1>8 DEF ToolStart, Refused
<1>9. ASSUME NEW c \in Calls, Dispatch(c) \/ AppendOut(c)
      PROVE  BudgetInv' /\ Spent
  BY <1>1, <1>2, <1>3, <1>9 DEF Dispatch, AppendOut, Refused
<1> QED BY <1>4, <1>5, <1>6, <1>7, <1>8, <1>9 DEF Next, Rewinds

\* A call of the response.
LEMMA CallItemTrue ==
    ASSUME RecordInv, TrueInv, NEW c \in Calls, CallItem(c) PROVE TrueInv'
<1> DEFINE x == [NoRecord EXCEPT !.known = TRUE]
           steps == Step("call", c, 0, x)
           e == Entry("call", c, 0)
<1>1. /\ st[c] = "new" /\ (Taken(c, rec[c], steps) \/ Failed(c, rec[c], steps))
      /\ hands' = hands /\ asking' = asking /\ how' = [how EXCEPT ![c].key = run]
      /\ \/ st' = [st EXCEPT ![c] = "todo"]
         \/ st' = [d \in Calls |-> IF d = c \/ st[d] = "todo" THEN "owed" ELSE "gone"]
      /\ phase = "items" /\ SameBatch /\ failing' \in BOOLEAN
  BY DEF CallItem, SameBatch, TrueInv
<1>2. /\ rec[c] = NoRecord /\ asking[c] = <<>> /\ DOMAIN st = Calls
      /\ \A i \in DOMAIN path : path[i].c = c => path[i].k \in {"start", "end"}
  BY <1>1, LogOf DEF CallInv, RecordInv, RunInv
<1>3. steps = <<[e |-> e, r |-> x]>> /\ e.k = "call" /\ e.c = c /\ e.b = Cardinality(left)
  BY EntryIs DEF Step
<1>4. Says(c, hands[c], asking[c], steps) /\ Len(steps) \in Nat
  <2>1. Speaks(path, left, c, hands[c], asking[c], e)
    BY <1>2, <1>3 DEF Speaks, Has
  <2> HIDE DEF e, x
  <2>2. Len(steps) \in Nat BY <1>3
  <2> QED BY <1>3, <2>1, <2>2 DEF Says
<1>5. \A r : r = rec[c] \/ (\E i \in DOMAIN steps : r = steps[i].r) => ~r.dispatched
  BY <1>2 DEF Step, NoRecord
<1> HIDE DEF steps, e, x
<1>6. GivenInv(c) /\ DOMAIN how = Calls BY DEF TrueInv
<1>7. /\ DOMAIN how' = Calls /\ how'[c] \in HowType(how'[c])
      /\ \A d \in Calls \ {c} : how'[d] = how[d]
  BY <1>1, <1>6 DEF GivenInv, HowType
<1>8. st'[c] \in {"todo", "owed"} BY <1>1, <1>2
<1>9. ASSUME NEW d \in Calls \ {c}
      PROVE  st'[d] = st[d] \/ (st[d] # "handed" /\ st'[d] \in {"owed", "gone"})
  <2>1. CASE st' = [st EXCEPT ![c] = "todo"] BY <1>2, <2>1
  <2>2. CASE st' = [z \in Calls |-> IF z = c \/ st[z] = "todo" THEN "owed" ELSE "gone"]
    <3>1. GivenInv(d) BY DEF TrueInv
    <3>2. st[d] # "handed" BY <1>1, <3>1 DEF GivenInv
    <3> QED BY <2>2, <3>2
  <2> QED BY <1>1, <2>1, <2>2
<1>10. ASSUME NEW r, ~r.dispatched, rec'[c] = r PROVE GivenInv(c)'
  BY <1>1, <1>2, <1>6, <1>7, <1>8, <1>10 DEF GivenInv, Mine
<1> QED BY <1>1, <1>4, <1>5, <1>7, <1>9, <1>10, TrueHandler

\* How a call stands once it is decided.
HowWith(h, a, f, o) == [h EXCEPT !.args = a, !.def = f, !.out = o]

\* It is told apart in what was decided alone.
LEMMA HowDecided ==
    ASSUME NEW h, h \in HowType(h), NEW a, NEW f \in BOOLEAN, NEW o,
           NEW g, g = HowWith(h, a, f, o)
    PROVE  /\ g \in HowType(g) /\ g.args = a /\ g.def = f /\ g.out = o
           /\ g.key = h.key /\ g.hand = h.hand /\ g.appr = h.appr
<1>1. g = [args |-> a, key |-> h.key, out |-> o, def |-> f, hand |-> h.hand, appr |-> h.appr]
  BY DEF HowType, HowWith
<1>2. h.hand \in BOOLEAN /\ h.appr \in BOOLEAN BY DEF HowType
<1>3. /\ g.args = a /\ g.def = f /\ g.out = o
      /\ g.key = h.key /\ g.hand = h.hand /\ g.appr = h.appr
  BY <1>1
<1>4. g \in HowType(g) BY <1>1, <1>2, <1>3 DEF HowType
<1> QED BY <1>3, <1>4

\* tool_start
LEMMA ToolStartTrue ==
    ASSUME RecordInv, TrueInv, NEW c \in Calls, NEW d, NEW args \in {0, 1},
           ToolStart(c, d, args)
    PROVE  TrueInv'
<1> DEFINE r == rec[c]
           r0 == StartRecord(r, d, args)
           steps == StartSteps(c, r, d, args)
           out == how'[c].out
<1>1. /\ st[c] = "todo" /\ hands' = hands /\ asking' = asking /\ phase' = phase
      /\ phase = "start" /\ SameBatch /\ failing' \in BOOLEAN
      /\ \E x \in {"refusing", "deferring", "ready"} : \E o, f :
            /\ st' = [st EXCEPT ![c] = x] /\ (x = "ready" => o = "none")
            /\ f \in BOOLEAN
            /\ how' = [how EXCEPT ![c].args = args, ![c].def = f, ![c].out = o]
  BY DEF ToolStart, SameBatch, TrueInv
<1>2. GivenInv(c) /\ DOMAIN how = Calls /\ DOMAIN st = Calls
  BY DEF TrueInv, RecordInv, RunInv
<1>3. /\ DOMAIN how' = Calls /\ how'[c] \in HowType(how'[c])
      /\ st'[c] \in {"refusing", "deferring", "ready"} /\ (st'[c] = "ready" => out = "none")
      /\ \A x \in Calls \ {c} : how'[x] = how[x] /\ st'[x] = st[x]
  <2>0. PICK x \in {"refusing", "deferring", "ready"} : \E o, f :
            /\ st' = [st EXCEPT ![c] = x] /\ (x = "ready" => o = "none")
            /\ f \in BOOLEAN
            /\ how' = [how EXCEPT ![c].args = args, ![c].def = f, ![c].out = o]
    BY <1>1
  <2>1. PICK o, f :
            /\ st' = [st EXCEPT ![c] = x] /\ (x = "ready" => o = "none")
            /\ f \in BOOLEAN
            /\ how' = [how EXCEPT ![c].args = args, ![c].def = f, ![c].out = o]
    BY <2>0
  <2>2. how[c] \in HowType(how[c]) BY <1>2 DEF GivenInv
  <2>3. how'[c] = [how[c] EXCEPT !.args = args, !.def = f, !.out = o]
    BY <1>2, <2>1
  <2> DEFINE h == how[c]
             g == how'[c]
  <2>4. h \in HowType(h) /\ f \in BOOLEAN /\ g = HowWith(h, args, f, o)
    BY <2>1, <2>2, <2>3 DEF HowWith
  <2> HIDE DEF h, g
  <2>5. g \in HowType(g) /\ g.out = o BY ONLY <2>4, HowDecided
  <2> QED BY <1>2, <2>1, <2>5 DEF g
<1>4. /\ SoundInv(path, left, run, c, r) /\ ~Mine(r, run)
      /\ BranchInv(path, left) /\ DOMAIN rec = Calls
  BY <1>1, LogOf DEF CallInv
<1>5. asking[c] = <<>> BY <1>1, <1>2 DEF GivenInv
<1>6. ASSUME rec'[c].dispatched = r.dispatched, rec'[c].drun = r.drun, run' = run,
             failing' = TRUE \/ (rec'[c].known => ~rec'[c].answered)
      PROVE  GivenInv(c)'
  <2>1. ~Mine(rec'[c], run') BY <1>4, <1>6 DEF Mine
  <2> QED BY <1>1, <1>2, <1>3, <1>5, <1>6, <2>1 DEF GivenInv
<1>7. CASE Refused(c) /\ failing' = TRUE
  <2>1. path' = path /\ left' = left /\ rec' = rec /\ run' = run
    BY <1>7 DEF Refused, log
  <2>2. SaidAll' BY <1>1, <2>1 DEF TrueInv, SaidAll
  <2>3. ASSUME NEW x \in Calls, x # c PROVE GivenInv(x)'
    BY <1>1, <1>3, <2>1, <2>3, GivenKept DEF TrueInv
  <2>4. GivenInv(c)' BY <1>6, <1>7, <2>1
  <2>5. DOMAIN hands' = Calls BY <1>1 DEF TrueInv
  <2> QED BY <1>1, <1>3, <2>2, <2>3, <2>4, <2>5 DEF TrueInv
<1>8. CASE ~StartRefused(r) /\ (Taken(c, r0, steps) \/ Failed(c, r0, steps))
  <2>1. /\ StartWrites(c, r, d, args, steps)
        /\ SameHand(r, r0) /\ \A i \in DOMAIN steps : SameHand(r, steps[i].r)
    BY <1>4, <1>8, StartShape, StartGood DEF SoundInv
  <2> HIDE DEF r0, steps, r
  <2>0. r.known => ~r.answered BY <1>8 DEF StartRefused
  <2>2. Says(c, hands[c], asking[c], steps) /\ Len(steps) \in Nat
    <3>1. CASE steps = <<>> BY <3>1 DEF Says
    <3>2. ASSUME NEW k \in Decisions, NEW w, NEW r2,
                 steps = <<[e |-> Entry(k, c, w), r |-> r2]>>,
                 r.known /\ ~r.answered, k = "reject" => ~r.dispatched /\ ~r.unknown
          PROVE  Says(c, hands[c], asking[c], steps) /\ Len(steps) \in Nat
      <4> DEFINE e == Entry(k, c, w)
      <4>1. e.k = k /\ e.c = c /\ e.b = Cardinality(left) BY EntryIs
      <4>2. SaidInv(path, left, c, hands[c], asking[c])
        BY DEF TrueInv, SaidAll
      <4>3. k = "reject" => hands[c] = <<>>
        BY <1>4, <3>2, <4>2, NotGiven
      <4> HIDE DEF e
      <4>4. Speaks(path, left, c, hands[c], asking[c], e)
        BY <4>1, <4>3 DEF Speaks, Decisions
      <4>5. steps = <<[e |-> e, r |-> r2]>> BY <3>2 DEF e
      <4>6. Len(steps) \in Nat BY <4>5
      <4> QED BY <4>1, <4>4, <4>5, <4>6 DEF Says
    <3> QED BY <2>1, <3>1, <3>2 DEF StartWrites
  <2>3. \A x : x = r0 \/ (\E i \in DOMAIN steps : x = steps[i].r) =>
           (rec'[c] = x /\ run' = run => GivenInv(c)')
    BY <1>6, <2>0, <2>1 DEF SameHand
  <2> QED BY <1>1, <1>3, <1>8, <2>2, <2>3, TrueHandler
<1>9. \/ Refused(c) /\ failing' = TRUE
      \/ (~StartRefused(r) /\ (Taken(c, r0, steps) \/ Failed(c, r0, steps)))
  BY DEF ToolStart
<1> QED BY <1>7, <1>8, <1>9

\* tool_end
LEMMA ToolEndTrue ==
    ASSUME RecordInv, TrueInv, NEW c \in Calls, ToolEnd(c) PROVE TrueInv'
<1> DEFINE r == rec[c]
           withdrawn == st[c] = "stopped"
           ran == st[c] = "back" /\ how[c].out = "own"
           steps == EndSteps(c, r, withdrawn, ran)
           hs == hands[c]
<1>1. /\ hands' = hands /\ asking' = asking /\ phase' = phase /\ how' = how
      /\ st' = [st EXCEPT ![c] = "over"]
      /\ Taken(c, r, steps) \/ Failed(c, r, steps)
      /\ st[c] # "handed" /\ (withdrawn \/ ran => phase = "work") /\ SameBatch
      /\ failing' \in BOOLEAN
  BY DEF ToolEnd, SameBatch, TrueInv
<1>2. GivenInv(c) /\ DOMAIN how = Calls /\ DOMAIN st = Calls
      /\ (phase = "idle" <=> run = 0) /\ SaidInv(path, left, c, hs, asking[c])
  BY DEF TrueInv, RecordInv, RunInv, SaidAll
<1>3. /\ st'[c] = "over" /\ DOMAIN how' = Calls
      /\ \A x \in Calls \ {c} : how'[x] = how[x] /\ st'[x] = st[x]
  BY <1>1, <1>2
<1>4. /\ SoundInv(path, left, run, c, r) /\ CallInv(c)
      /\ BranchInv(path, left) /\ DOMAIN rec = Calls
  BY LogOf
<1>5. ASSUME rec'[c] = r \/ how[c].out = "none" \/ (how[c].out = "own" /\ hs # <<>>), run' = run
      PROVE  GivenInv(c)'
  BY <1>1, <1>2, <1>3, <1>5 DEF GivenInv, Mine
<1>6. CASE steps = <<>>
  <2>1. Says(c, hs, asking[c], steps) /\ Len(steps) \in Nat /\ DOMAIN steps = {}
    BY <1>6 DEF Says
  <2> HIDE DEF steps, r, hs
  <2> QED BY <1>1, <1>3, <1>5, <2>1, TrueHandler DEF hs, r
<1>7. ASSUME NEW k \in {"withdraw", "result"}, NEW x,
             steps = <<[e |-> Entry(k, c, 0), r |-> x]>>,
             k = "withdraw" /\ hs # <<>> =>
                Dispatched(Append(path, Entry(k, c, 0)), c) \/ OffPaths(path, left, c) # {},
             k = "result" => hs # <<>>,
             how[c].out = "none" \/ (how[c].out = "own" /\ hs # <<>>)
      PROVE  TrueInv'
  <2> DEFINE e == Entry(k, c, 0)
  <2>1. e.k = k /\ e.c = c /\ e.b = Cardinality(left) BY EntryIs
  <2>2. Speaks(path, left, c, hs, asking[c], e)
    <3>1. k = "withdraw" /\ hs # <<>> =>
             Dispatched(Append(path, e), c) \/ OffPaths(path, left, c) # {}
      BY <1>7
    <3> HIDE DEF e, hs
    <3> QED BY <1>7, <2>1, <3>1 DEF Speaks
  <2>3. steps = <<[e |-> e, r |-> x]>> BY <1>7
  <2> HIDE DEF e, steps, hs, r
  <2>4. Says(c, hs, asking[c], steps) /\ Len(steps) \in Nat
    BY <2>1, <2>2, <2>3 DEF Says
  <2> QED BY <1>1, <1>3, <1>5, <1>7, <2>4, TrueHandler DEF hs
<1>8. CASE withdrawn /\ Mine(r, run) /\ r.known
  <2>1. steps = <<[e |-> Entry("withdraw", c, 0), r |-> Withdraw(r)]>>
    BY <1>8 DEF EndSteps, Step, Mine
  <2>2. ~r.answered /\ how[c].out = "none"
    BY <1>2, <1>4, <1>8 DEF CallInv, GivenInv
  <2> DEFINE e == Entry("withdraw", c, 0)
             p2 == Append(path, e)
  <2>3. e.k = "withdraw" /\ e.c = c /\ Grown(path, e, p2)
    BY <1>4, EntryIs DEF Grown, BranchInv
  <2>4. hs # <<>> => r.before[1] \/ r.before[2]
    BY <1>2, <1>8 DEF GivenInv
  <2> HIDE DEF e, p2, hs, r
  <2>5. PICK m \in At(path, c, {"dispatch"}) :
              /\ \A j \in At(path, c, {"dispatch"}) : j <= m
              /\ r.before[1] <=> \E i \in Dispatches(path, c) : i < m
              /\ r.before[2] <=> ~r.before[1] /\ OffPaths(path, left, c) # {}
    BY <1>4, <1>8, <2>2 DEF SoundInv, UndoInv
  <2>6. Dispatches(p2, c) = Dispatches(path, c) \ {m}
    BY <2>3, <2>5, DispatchesTaken
  <2>7. m \in Nat BY <1>4, <2>5 DEF At, BranchInv, IsPath
  <2>8. (\E i \in Dispatches(path, c) : i < m) => Dispatched(p2, c)
    BY <2>6, <2>7 DEF Dispatched
  <2>9. hs # <<>> => Dispatched(p2, c) \/ OffPaths(path, left, c) # {}
    BY <2>4, <2>5, <2>8
  <2> QED BY <1>7, <2>1, <2>2, <2>9 DEF e, p2
<1>9. CASE steps # <<>> /\ ~(withdrawn /\ Mine(r, run) /\ r.known)
  <2>0. withdrawn \/ ran => run # 0 BY <1>1, <1>2
  <2>1. /\ steps = <<[e |-> Entry("result", c, 0), r |-> [r EXCEPT !.result = "own"]]>>
        /\ ran /\ Mine(r, run)
    BY <1>9, <2>0 DEF EndSteps, Step, Mine
  <2>2. how[c].out = "own" /\ hs # <<>> BY <1>2, <2>1 DEF GivenInv
  <2> QED BY <1>7, <2>1, <2>2
<1> QED BY <1>6, <1>8, <1>9

\* The first of a set of calls is one of them.
LEMMA FirstIn ==
    ASSUME NEW S, S \subseteq Calls, S # {}
    PROVE  First(S) \in S
<1>1. S \in SUBSET Nat /\ S # {} BY RecordAssumption
<1>2. \E c \in S : \A d \in S : c <= d
  <2>1. PICK x \in S : \A y \in S : ~(<<y, x>> \in OpToRel(<, Nat))
    BY <1>1, WFMin, NatLessThanWellFounded, Zenon
  <2>2. \A y \in S : ~(y < x) BY <1>1, <2>1 DEF OpToRel
  <2>3. \A y \in S : x <= y BY <1>1, <2>2
  <2> QED BY <2>3
<1> QED BY <1>2 DEF First

\* A step that leaves log and writer alone, and gives no call to its tool.
LEMMA TrueAlone ==
    ASSUME TrueInv, UNCHANGED <<log, rec, run, how, asking, hands>>, SameBatch,
           failing' \in BOOLEAN,
           \A d \in Calls : \/ st'[d] = st[d]
                            \/ st[d] # "handed" /\ st'[d] \in {"owed", "gone"}
    PROVE  TrueInv'
<1>1. path' = path /\ left' = left /\ rec' = rec /\ run' = run /\ how' = how
      /\ asking' = asking /\ hands' = hands
  BY DEF log
<1>2. SaidAll' BY <1>1 DEF TrueInv, SaidAll
<1>3. ASSUME NEW d \in Calls PROVE GivenInv(d)'
  BY <1>1, GivenKept DEF TrueInv
<1> QED BY <1>1, <1>2, <1>3 DEF TrueInv

\* What itemFrom writes for an output, of which out says whose it is.
OutputWrites(c, r, out, steps) ==
    \/ \E x : /\ steps = <<[e |-> Entry("output", c, out), r |-> x]>>
              /\ \/ ~r.known \/ r.ended \/ r.rejected \/ r.result = out
                 \/ Mine(r, run)
    \/ \E k \in {"answer", "reject"} : \E x, y :
          /\ steps = <<[e |-> Entry(k, c, 0), r |-> x],
                       [e |-> Entry("output", c, out), r |-> y]>>
          /\ r.known /\ (k = "reject" => ~r.dispatched /\ ~r.unknown)

\* itemFrom's steps.
LEMMA OutputShape ==
    ASSUME NEW c, NEW r, NEW out
    PROVE  OutputWrites(c, r, out, OutputSteps(c, r, out))
<1> DEFINE steps == OutputSteps(c, r, out)
           plain == \/ ~r.known \/ r.ended \/ r.rejected
                    \/ r.result = out
                    \/ r.dispatched /\ r.drun # 0 /\ r.drun = run
           ran == r.dispatched \/ r.unknown
           q == [r EXCEPT !.held = FALSE, !.ended = @ \/ ran, !.rejected = @ \/ ~ran]
           done(x) == [x EXCEPT !.answered = r.known]
           k == IF ran THEN "answer" ELSE "reject"
<1>1. CASE plain
  <2>1. steps = <<[e |-> Entry("output", c, out), r |-> done(r)]>>
    BY <1>1 DEF OutputSteps, Step
  <2>2. ~r.known \/ r.ended \/ r.rejected \/ r.result = out \/ Mine(r, run)
    BY <1>1 DEF Mine
  <2> HIDE DEF steps
  <2> QED BY <2>1, <2>2 DEF OutputWrites, steps
<1>2. CASE ~plain
  <2>1. steps = Step(k, c, 0, q) \o Step("output", c, out, done(q))
    BY <1>2 DEF OutputSteps
  <2> DEFINE x == q
             y == done(q)
  <2>2. steps = <<[e |-> Entry(k, c, 0), r |-> x], [e |-> Entry("output", c, out), r |-> y]>>
    BY <2>1, TwoSteps DEF Step
  <2>3. k \in {"answer", "reject"} /\ r.known /\ (k = "reject" => ~r.dispatched /\ ~r.unknown)
    BY <1>2
  <2> HIDE DEF steps, x, y, k
  <2> QED BY <2>2, <2>3 DEF OutputWrites, steps
<1> QED BY <1>1, <1>2

\* An output's item_end.
LEMMA AppendOutTrue ==
    ASSUME RecordInv, TrueInv, NEW c \in Calls, AppendOut(c) PROVE TrueInv'
<1> DEFINE r == rec[c]
           out == how[c].out
           steps == OutputSteps(c, r, out)
           hs == hands[c]
<1>1. /\ hands' = hands /\ asking' = asking /\ how' = how /\ failing' = failing
      /\ c \in Outs /\ phase \in {"answers", "out"} /\ phase' \in {phase, "ending"}
      /\ \/ /\ ~OutputRefused(r) /\ (Taken(c, r, steps) \/ Failed(c, r, steps))
            /\ st' = [st EXCEPT ![c] = "gone"]
         \/ UNCHANGED <<log, rec, run, open>> /\ st' = [st EXCEPT ![c] = "gone"]
         \/ UNCHANGED <<log, rec, run, open, st>>
  <2>1. c \in Outs
    <3>1. Outs \subseteq Calls /\ Outs # {} /\ c = First(Outs)
      BY DEF Outs, AppendOut
    <3>3. c \in Outs BY <3>1, FirstIn
    <3> QED BY <3>3
  <2> QED BY <2>1 DEF AppendOut, Outs, Refused
<1>2. /\ GivenInv(c) /\ DOMAIN how = Calls /\ DOMAIN st = Calls
      /\ SaidInv(path, left, c, hs, asking[c]) /\ SameBatch /\ failing' \in BOOLEAN
  BY <1>1 DEF TrueInv, RecordInv, RunInv, SaidAll, SameBatch
<1>3. st[c] \in {"answer", "over"} /\ out # "none"
  BY <1>1, <1>2 DEF Outs, GivenInv
<1>4. CASE \/ UNCHANGED <<log, rec, run, open>> /\ st' = [st EXCEPT ![c] = "gone"]
           \/ UNCHANGED <<log, rec, run, open, st>>
  <2>1. \A d \in Calls : \/ st'[d] = st[d]
                         \/ st[d] # "handed" /\ st'[d] \in {"owed", "gone"}
    BY <1>2, <1>3, <1>4
  <2> QED BY <1>1, <1>2, <1>4, <2>1, TrueAlone
<1>5. CASE /\ ~OutputRefused(r) /\ (Taken(c, r, steps) \/ Failed(c, r, steps))
           /\ st' = [st EXCEPT ![c] = "gone"]
  <2>1. /\ SoundInv(path, left, run, c, r) /\ BranchInv(path, left)
        /\ r.known => ~r.answered
    BY <1>5, LogOf DEF OutputRefused
  <2>2. OutputWrites(c, r, out, steps) BY OutputShape
  <2>3. \A i \in DOMAIN steps :
              LET x == steps[i].r IN
              /\ x.drun = r.drun /\ x.before = r.before
              /\ x.dispatched = r.dispatched
    BY <1>5, <2>1, OutputGood
  <2>4. ASSUME rec'[c].drun = r.drun, rec'[c].dispatched = r.dispatched, run' = run
        PROVE  GivenInv(c)'
    <3>1. st'[c] = "gone" BY <1>2, <1>5
    <3>2. asking[c] = <<>> BY <1>2, <1>3 DEF GivenInv
    <3>3. Mine(rec'[c], run') <=> Mine(r, run) BY <2>4 DEF Mine
    <3> QED BY <1>1, <1>2, <3>1, <3>2, <3>3 DEF GivenInv
  <2>5. Says(c, hs, asking[c], steps) /\ Len(steps) \in Nat
    <3> HIDE DEF steps, r, hs, out
    <3> DEFINE e2 == Entry("output", c, out)
    <3>0. e2.k = "output" /\ e2.c = c /\ e2.v = out /\ e2.b = Cardinality(left)
      BY DEF Entry
    <3> HIDE DEF e2
    <3>1. ASSUME NEW x, steps = <<[e |-> e2, r |-> x]>>,
                 ~r.known \/ r.ended \/ r.rejected \/ r.result = out \/ Mine(r, run)
          PROVE  Says(c, hs, asking[c], steps) /\ Len(steps) \in Nat
      <4>1. ASSUME Has(path, c, {"call"})
            PROVE  (out = "own" /\ hs # <<>>) \/ Has(path, c, {"answer", "reject"})
        <5>1. r.known /\ ~r.answered
          BY <2>1, <4>1 DEF SoundInv, AgreeInv
        <5>2. CASE r.ended \/ r.rejected
          <6>1. Has(path, c, {"answer"}) \/ Has(path, c, {"reject"})
            BY <2>1, <5>1, <5>2 DEF SoundInv, AgreeInv
          <6> QED BY <6>1 DEF Has
        <5>3. CASE r.result = out
          BY <1>2, <1>3, <2>1, <5>1, <5>3 DEF SoundInv, AgreeInv, SaidInv, Tells
        <5>4. CASE Mine(r, run)
          BY <1>2, <1>3, <5>4 DEF GivenInv, r, hs, out
        <5> QED BY <3>1, <5>1, <5>2, <5>3, <5>4
      <4>2. Speaks(path, left, c, hs, asking[c], e2)
        BY <3>0, <4>1 DEF Speaks
      <4> QED BY <3>0, <3>1, <4>2 DEF Says
    <3>2. ASSUME NEW k \in {"answer", "reject"}, NEW x, NEW y,
                 steps = <<[e |-> Entry(k, c, 0), r |-> x], [e |-> e2, r |-> y]>>,
                 r.known, k = "reject" => ~r.dispatched /\ ~r.unknown
          PROVE  Says(c, hs, asking[c], steps) /\ Len(steps) \in Nat
      <4> DEFINE e == Entry(k, c, 0)
                 p1 == Append(path, e)
      <4>1. e.k = k /\ e.c = c /\ e.b = Cardinality(left) BY EntryIs
      <4>2. Grown(path, e, p1) BY <2>1 DEF Grown, BranchInv
      <4>3. steps = <<[e |-> e, r |-> x], [e |-> e2, r |-> y]>> BY <3>2
      <4>4. k = "reject" => hs = <<>> BY <1>2, <2>1, <3>2, NotGiven
      <4> HIDE DEF e, p1
      <4>5. Speaks(path, left, c, hs, asking[c], e)
        BY <3>2, <4>1, <4>4 DEF Speaks
      <4>6. Has(p1, c, {"answer", "reject"}) BY <3>2, <4>1, <4>2, AtGrow
      <4>7. Speaks(p1, left, c, hs, asking[c], e2)
        BY <3>0, <4>6 DEF Speaks
      <4>8. Len(steps) \in Nat BY <4>3
      <4> QED BY <3>0, <4>1, <4>3, <4>5, <4>7, <4>8 DEF Says, p1
    <3> QED BY <2>2, <3>1, <3>2 DEF OutputWrites, e2
  <2>6. \A d \in Calls \ {c} : how'[d] = how[d] /\ st'[d] = st[d]
    BY <1>1, <1>2, <1>5
  <2> HIDE DEF steps, r, hs
  <2>7. \A x : x = r \/ (\E i \in DOMAIN steps : x = steps[i].r) =>
           (rec'[c] = x /\ run' = run => GivenInv(c)')
    BY <2>3, <2>4
  <2> QED BY <1>1, <1>2, <1>5, <2>5, <2>6, <2>7, TrueHandler DEF hs
<1> QED BY <1>1, <1>4, <1>5

\* How a call stands once its tool has it.
HowGiven(h) == [h EXCEPT !.hand = TRUE]

\* It is told apart in that alone.
LEMMA HowHanded ==
    ASSUME NEW h, h \in HowType(h), NEW g, g = HowGiven(h)
    PROVE  /\ g \in HowType(g) /\ g.args = h.args /\ g.def = h.def /\ g.out = h.out
           /\ g.key = h.key /\ g.hand = TRUE /\ g.appr = h.appr
<1>1. g = [args |-> h.args, key |-> h.key, out |-> h.out, def |-> h.def,
           hand |-> TRUE, appr |-> h.appr]
  BY DEF HowType, HowGiven
<1>2. h.def \in BOOLEAN /\ h.appr \in BOOLEAN BY DEF HowType
<1>3. /\ g.args = h.args /\ g.def = h.def /\ g.out = h.out
      /\ g.key = h.key /\ g.hand = TRUE /\ g.appr = h.appr
  BY <1>1
<1>4. g \in HowType(g) BY <1>1, <1>2, <1>3 DEF HowType
<1> QED BY <1>3, <1>4

\* What toolDispatch writes for a call that the run has not dispatched.
LEMMA DispatchShape ==
    ASSUME NEW c, NEW r, NEW key, r.known, ~r.rejected, ~Mine(r, run), run # 0
    PROVE  LET steps == DispatchSteps(c, r, key)
               s1 == [r EXCEPT !.again = FALSE]
               s2 == DispatchRecord(r)
               e == Entry("proceed", c, 2)
               e2 == Entry("dispatch", c, key)
           IN  \/ steps = <<[e |-> e2, r |-> s2]>>
               \/ steps = <<[e |-> e, r |-> s1], [e |-> e2, r |-> s2]>>
<1> DEFINE steps == DispatchSteps(c, r, key)
           s1 == [r EXCEPT !.again = FALSE]
           s2 == DispatchRecord(r)
           e == Entry("proceed", c, 2)
           e2 == Entry("dispatch", c, key)
<1>1. steps = (IF r.again THEN Step("proceed", c, 2, s1) ELSE <<>>)
              \o Step("dispatch", c, key, s2)
  BY DEF DispatchSteps, Mine
<1> HIDE DEF steps, s1, s2, e, e2
<1>2. CASE r.again
  <2>1. steps = Step("proceed", c, 2, s1) \o Step("dispatch", c, key, s2)
    BY <1>1, <1>2
  <2>2. steps = <<[e |-> e, r |-> s1], [e |-> e2, r |-> s2]>>
    BY <2>1, TwoSteps, Zenon DEF Step, e, e2
  <2> QED BY <2>2 DEF steps, s1, s2, e, e2
<1>3. CASE ~r.again
  <2>1. steps = <<[e |-> e2, r |-> s2]>> BY <1>1, <1>3 DEF Step, e2
  <2> QED BY <2>1 DEF steps, s1, s2, e, e2
<1> QED BY <1>2, <1>3

\* What is said of a call that is given to its tool.
LEMMA SaidGiven ==
    ASSUME NEW p, NEW l, NEW c, NEW hs, NEW a, NEW hs2, SaidInv(p, l, c, hs, a),
           Dispatched(p, c), ~Has(p, c, {"reject"}), hs2 # <<>>
    PROVE  SaidInv(p, l, c, hs2, a)
<1>1. RejectInv(p, c, hs2) BY DEF RejectInv, At, Has
<1> QED BY <1>1 DEF SaidInv, Tells, OutputInv

\* The calls that BeforeToolCall lets pass are not ones that the record has
\* as refused or answered.
RefusalsHold ==
    \A c \in Calls : st[c] = "ready" => ~Has(path, c, {"reject", "answer"})

\* What is known of a call where it is dispatched.
LEMMA ReadyIs ==
    ASSUME RecordInv, TrueInv, RefusalsHold, NEW c \in Calls, st[c] = "ready",
           phase = "work", ~failing, ~DispatchRefused(rec[c])
    PROVE  LET r == rec[c] IN
           /\ r.known /\ ~r.answered /\ ~r.rejected /\ ~r.ended /\ ~Mine(r, run)
           /\ r.result = "none" /\ run \in Nat \ {0} /\ how[c].out = "none" /\ asking[c] = <<>>
<1> DEFINE r == rec[c]
<1>1. r.known BY DEF DispatchRefused
<1>2. GivenInv(c) /\ failing = FALSE BY DEF TrueInv
<1>3. ~r.answered /\ how[c].out = "none" /\ asking[c] = <<>>
  BY <1>1, <1>2 DEF GivenInv
<1>4. AgreeInv(path, left, c, r) /\ ~Mine(r, run) /\ r \in RecordType(r)
  BY LogOf DEF SoundInv, CallInv
<1>5. run \in Nat /\ run # 0 BY LogOf DEF RecordInv, RunInv
<1>6. ~r.rejected /\ ~r.ended
  <2>1. ~Has(path, c, {"reject"}) /\ ~Has(path, c, {"answer"})
    BY DEF RefusalsHold, Has
  <2> QED BY <1>1, <1>3, <1>4, <2>1 DEF AgreeInv
<1>7. r.result = "none"
  BY <1>1, <1>4, <1>5, <1>6 DEF DispatchRefused, Mine, RecordType
<1> QED BY <1>1, <1>3, <1>4, <1>5, <1>6, <1>7

\* tool_dispatch
LEMMA DispatchTrue ==
    ASSUME RecordInv, TrueInv, RefusalsHold, NEW c \in Calls, Dispatch(c) PROVE TrueInv'
<1> DEFINE r == rec[c]
           steps == DispatchSteps(c, r, how[c].key)
           s1 == [r EXCEPT !.again = FALSE]
           s2 == DispatchRecord(r)
           e == Entry("proceed", c, 2)
           e2 == Entry("dispatch", c, how[c].key)
           hs == hands[c]
<1>1. /\ st[c] = "ready" /\ asking' = asking /\ phase' = phase /\ phase = "work" /\ ~failing
      /\ \/ /\ ~DispatchRefused(r) /\ Taken(c, r, steps) /\ failing' = failing
            /\ st' = [st EXCEPT ![c] = "handed"] /\ how' = [how EXCEPT ![c].hand = TRUE]
            /\ \E h : hands' = [hands EXCEPT ![c] = Append(@, h)]
         \/ /\ (~DispatchRefused(r) /\ Failed(c, r, steps)) \/ (DispatchRefused(r) /\ Refused(c))
            /\ st' = [st EXCEPT ![c] = "stopped"] /\ failing' = TRUE
            /\ how' = how /\ hands' = hands
  BY DEF Dispatch
<1>2. /\ GivenInv(c) /\ DOMAIN how = Calls /\ DOMAIN st = Calls /\ DOMAIN hands = Calls
      /\ DOMAIN rec = Calls /\ BranchInv(path, left) /\ failing \in BOOLEAN
      /\ SoundInv(path, left, run, c, r) /\ SaidInv(path, left, c, hs, asking[c]) /\ ~Mine(r, run)
  BY <1>1, LogOf DEF TrueInv, RecordInv, RunInv, SaidAll, CallInv
<1>3. SameBatch /\ failing' \in BOOLEAN BY <1>1, <1>2 DEF SameBatch
<1>4. RecordInv' BY DispatchKeeps
<1>5. CASE DispatchRefused(r) /\ Refused(c) /\ st' = [st EXCEPT ![c] = "stopped"]
           /\ how' = how /\ hands' = hands
  <2>1. path' = path /\ left' = left /\ rec' = rec /\ run' = run
    BY <1>5 DEF Refused, log
  <2>2. SaidAll' BY <1>1, <1>5, <2>1 DEF TrueInv, SaidAll
  <2>3. ASSUME NEW x \in Calls, x # c PROVE GivenInv(x)'
    BY <1>1, <1>2, <1>3, <1>5, <2>1, <2>3, GivenKept DEF TrueInv
  <2>4. GivenInv(c)' BY <1>1, <1>2, <1>5, <2>1 DEF GivenInv, Mine
  <2> QED BY <1>2, <1>3, <1>5, <2>2, <2>3, <2>4 DEF TrueInv
<1>6. ASSUME ~DispatchRefused(r)
      PROVE  /\ r.known /\ ~r.answered /\ ~r.rejected /\ ~r.ended /\ run \in Nat \ {0}
             /\ asking[c] = <<>> /\ how[c].out = "none"
             /\ \/ steps = <<[e |-> e2, r |-> s2]>>
                \/ steps = <<[e |-> e, r |-> s1], [e |-> e2, r |-> s2]>>
             /\ Says(c, hs, asking[c], steps) /\ Len(steps) \in Nat
             /\ s2.before = <<r.dispatched, r.unknown, r.drun>> /\ s2.dispatched
             /\ s2.drun = run /\ s2.known /\ ~s2.answered /\ ~s2.rejected /\ ~s2.ended
             /\ s1.dispatched = r.dispatched /\ s1.drun = r.drun
             /\ r \in RecordType(r)
  <2>1. /\ r.known /\ ~r.answered /\ ~r.rejected /\ ~r.ended /\ run \in Nat \ {0}
        /\ asking[c] = <<>> /\ how[c].out = "none"
    BY <1>1, <1>6, ReadyIs
  <2>2. \/ steps = <<[e |-> e2, r |-> s2]>>
        \/ steps = <<[e |-> e, r |-> s1], [e |-> e2, r |-> s2]>>
    BY <1>2, <2>1, DispatchShape
  <2>3. r \in RecordType(r) BY <1>2 DEF SoundInv
  <2>4. /\ s2.before = <<r.dispatched, r.unknown, r.drun>> /\ s2.dispatched
        /\ s2.drun = run /\ s2.known /\ ~s2.answered /\ ~s2.rejected /\ ~s2.ended
        /\ s1.dispatched = r.dispatched /\ s1.drun = r.drun
    BY <2>1, <2>3 DEF DispatchRecord, RecordType
  <2>5. /\ e.k = "proceed" /\ e.c = c /\ e.b = Cardinality(left)
        /\ e2.k = "dispatch" /\ e2.c = c /\ e2.b = Cardinality(left)
    BY EntryIs
  <2> HIDE DEF steps, s1, s2, e, e2, r, hs
  <2>6. \A p : Speaks(p, left, c, hs, asking[c], e) /\ Speaks(p, left, c, hs, asking[c], e2)
    BY <2>5 DEF Speaks
  <2>7. Says(c, hs, asking[c], steps) BY <2>2, <2>5, <2>6 DEF Says
  <2>8. Len(steps) \in Nat BY <2>2
  <2> QED BY <2>1, <2>2, <2>3, <2>4, <2>7, <2>8
<1>7. CASE ~DispatchRefused(r) /\ Failed(c, r, steps) /\ st' = [st EXCEPT ![c] = "stopped"]
           /\ how' = how /\ hands' = hands
  <2>1. \A x \in Calls \ {c} : how'[x] = how[x] /\ st'[x] = st[x]
    BY <1>2, <1>7
  <2>2. ASSUME rec'[c] \in {r, s1, s2}, run' = run PROVE GivenInv(c)'
    <3>1. st'[c] = "stopped" BY <1>2, <1>7
    <3>2. rec'[c] # s2 => ~Mine(rec'[c], run')
      BY <1>2, <1>6, <1>7, <2>2 DEF Mine
    <3>3. hs # <<>> => r.dispatched \/ r.unknown
      BY <1>2, <1>6, <1>7, NotGiven
    <3>4. rec'[c] = s2 => rec'[c].before[1] = r.dispatched /\ rec'[c].before[2] = r.unknown
      BY <1>6, <1>7
    <3> HIDE DEF s1, s2, r, hs
    <3> QED BY <1>1, <1>2, <1>6, <1>7, <3>1, <3>2, <3>3, <3>4 DEF GivenInv, hs, r
  <2>3. ASSUME NEW x, x = r \/ (\E i \in DOMAIN steps : x = steps[i].r)
        PROVE  x \in {r, s1, s2}
    <3>1. \/ DOMAIN steps = {1} /\ steps[1].r = s2
          \/ DOMAIN steps = {1, 2} /\ steps[1].r = s1 /\ steps[2].r = s2
      <4> HIDE DEF steps, s1, s2, e, e2, r
      <4> QED BY <1>6, <1>7
    <3> QED BY <2>3, <3>1
  <2> HIDE DEF steps, s1, s2, e, e2, r, hs
  <2>4. \A x : x = r \/ (\E i \in DOMAIN steps : x = steps[i].r) =>
              (rec'[c] = x /\ run' = run => GivenInv(c)')
    BY <2>2, <2>3
  <2>5. DOMAIN how' = Calls /\ Says(c, hands[c], asking[c], steps) /\ Len(steps) \in Nat
    BY <1>2, <1>6, <1>7 DEF hs
  <2> QED BY <1>1, <1>3, <1>7, <2>1, <2>4, <2>5, TrueHandler
<1>8. CASE /\ ~DispatchRefused(r) /\ Taken(c, r, steps)
           /\ st' = [st EXCEPT ![c] = "handed"] /\ how' = [how EXCEPT ![c].hand = TRUE]
           /\ \E h : hands' = [hands EXCEPT ![c] = Append(@, h)]
  <2>1. Says(c, hs, asking[c], steps) /\ Len(steps) \in Nat
    BY <1>6, <1>8
  <2>2. Wrote(c, r, steps, Len(steps)) BY <1>8, <2>1, HandlerWrote
  <2>3. steps # <<>> /\ steps[Len(steps)].r = s2 /\ Len(steps) \in 1..2
    <3>1. IsPath(path) BY <1>2 DEF BranchInv
    <3>2. \/ steps = <<[e |-> e2, r |-> s2]>>
          \/ steps = <<[e |-> e, r |-> s1], [e |-> e2, r |-> s2]>>
      BY <1>6, <1>8
    <3> HIDE DEF steps, s1, s2, e, e2, r
    <3>3. \/ Len(steps) = 1 /\ steps[1].r = s2
          \/ Len(steps) = 2 /\ steps[2].r = s2
      BY <3>1, <3>2, AfterIs
    <3> QED BY <3>3
  <2> HIDE DEF steps, s1, s2, e, e2, r
  <2>4. /\ path' = After(steps, Len(steps)) /\ left' = left /\ run' = run
        /\ rec' = [rec EXCEPT ![c] = s2]
    BY <2>2, <2>3 DEF Wrote
  <2>5. ASSUME NEW d \in Calls PROVE SaidInv(path', left', d, hands[d], asking'[d])
    <3>1. Len(steps) \in 0..Len(steps) BY <2>1
    <3>2. SaidInv(After(steps, Len(steps)), left, d, hands[d], asking[d])
      BY <1>2, <2>1, <3>1, SaidHandler DEF TrueInv, hs
    <3> QED BY <1>1, <2>4, <3>2
  <2>6. /\ IsPath(hands'[c]) /\ hands'[c] # <<>> /\ \A d \in Calls \ {c} : hands'[d] = hands[d]
    <3>1. PICK h : hands' = [hands EXCEPT ![c] = Append(@, h)] BY <1>8
    <3>2. hands'[c] = Append(hands[c], h) /\ IsPath(hands[c])
      BY <1>2, <3>1 DEF GivenInv
    <3>3. Grown(hands[c], h, hands'[c]) BY <3>2 DEF Grown
    <3>4. IsPath(hands'[c]) /\ Len(hands'[c]) = Len(hands[c]) + 1 /\ Len(hands[c]) \in Nat
      BY <3>3, Grow
    <3>5. hands'[c] # <<>> BY <3>4
    <3> QED BY <1>2, <3>1, <3>4, <3>5
  <2>7. rec'[c] = s2 BY <1>2, <2>4
  <2>8. SaidAll'
    <3>1. SoundInv(path', left', run', c, s2)
      BY <1>4, <2>7 DEF RecordInv
    <3>2. Dispatched(path', c) /\ ~Has(path', c, {"reject"})
      BY <1>6, <1>8, <3>1 DEF SoundInv, AgreeInv
    <3>3. SaidInv(path', left', c, hands'[c], asking'[c])
      BY <2>5, <2>6, <3>2, SaidGiven
    <3> QED BY <2>5, <2>6, <3>3 DEF SaidAll
  <2>9. /\ how'[c] \in HowType(how'[c]) /\ how'[c].out = how[c].out
        /\ \A d \in Calls \ {c} : how'[d] = how[d]
    <3>1. /\ how'[c] = HowGiven(how[c]) /\ how[c] \in HowType(how[c])
          /\ \A d \in Calls \ {c} : how'[d] = how[d]
      BY <1>2, <1>8 DEF GivenInv, HowGiven
    <3>2. how'[c] \in HowType(how'[c]) /\ how'[c].out = how[c].out
      BY <3>1, HowHanded
    <3> QED BY <3>1, <3>2
  <2>10. GivenInv(c)'
    <3>1. st'[c] = "handed" /\ asking'[c] = <<>>
      BY <1>1, <1>2, <1>6, <1>8
    <3>2. Mine(s2, run) /\ ~s2.rejected /\ ~s2.ended
      BY <1>6, <1>8 DEF Mine
    <3> QED BY <1>1, <1>6, <1>8, <2>4, <2>6, <2>7, <2>9, <3>1, <3>2 DEF GivenInv
  <2>11. ASSUME NEW d \in Calls, d # c PROVE GivenInv(d)'
    <3>1. rec'[d] = rec[d] /\ st'[d] = st[d] /\ GivenInv(d)
      BY <1>2, <1>8, <2>4, <2>11 DEF TrueInv
    <3> QED BY <1>1, <1>3, <2>4, <2>6, <2>9, <2>11, <3>1, GivenKept
  <2>12. DOMAIN how' = Calls /\ DOMAIN hands' = Calls BY <1>2, <1>8
  <2> QED BY <1>3, <2>8, <2>10, <2>11, <2>12 DEF TrueInv
<1> QED BY <1>1, <1>5, <1>7, <1>8

\* The agent's steps that the recorder is not called for.
LEMMA AgentTrue ==
    ASSUME RecordInv, TrueInv,
           Execute \/ Abort \/ Drained \/ OutsDone \/ \E c \in Calls : ToolReturns(c)
    PROVE  TrueInv'
<1>0. DOMAIN st = Calls /\ DOMAIN how = Calls /\ failing \in BOOLEAN
  BY DEF RecordInv, RunInv, TrueInv
<1>1. CASE Execute \/ Abort \/ OutsDone
  <2>1. UNCHANGED <<log, rec, run, how, asking, hands>> /\ failing' \in BOOLEAN
    BY <1>0, <1>1 DEF Execute, Abort, OutsDone, writer
  <2>2. SameBatch BY <1>1 DEF Execute, Abort, OutsDone, SameBatch
  <2>3. \A d \in Calls : \/ st'[d] = st[d]
                         \/ st[d] # "handed" /\ st'[d] \in {"owed", "gone"}
    BY <1>1 DEF Execute, Abort, OutsDone
  <2> QED BY <2>1, <2>2, <2>3, TrueAlone
<1>2. CASE Drained
  <2>1. UNCHANGED <<log, rec, run, how, asking, hands>> /\ failing' \in BOOLEAN /\ st' = st
    BY <1>0, <1>2 DEF Drained, writer
  <2>2. SameBatch BY <1>2 DEF Drained, SameBatch
  <2> QED BY <2>1, <2>2, TrueAlone
<1>3. ASSUME NEW c \in Calls, ToolReturns(c) PROVE TrueInv'
  <2>1. /\ st[c] = "handed" /\ asking[c] = <<>> /\ st' = [st EXCEPT ![c] = "back"]
        /\ how' = how \/ how' = [how EXCEPT ![c].out = "own"]
        /\ UNCHANGED <<log, rec, run, asking, hands, phase, failing>>
    BY <1>3 DEF ToolReturns, writer
  <2>2. path' = path /\ left' = left /\ rec' = rec /\ run' = run /\ asking' = asking
        /\ hands' = hands /\ phase' = phase /\ failing' = failing /\ SameBatch
    BY <2>1 DEF log, SameBatch
  <2>3. GivenInv(c) /\ DOMAIN hands = Calls BY DEF TrueInv
  <2>4. /\ how'[c] \in HowType(how'[c]) /\ how'[c].out \in {how[c].out, "own"}
        /\ DOMAIN how' = Calls /\ \A d \in Calls \ {c} : how'[d] = how[d] /\ st'[d] = st[d]
    <3>1. how[c] \in HowType(how[c]) BY <2>3 DEF GivenInv
    <3>2. CASE how' = how BY <1>0, <2>1, <3>1, <3>2
    <3>3. CASE how' = [how EXCEPT ![c].out = "own"]
      <4>1. how'[c] = HowWith(how[c], how[c].args, how[c].def, "own") /\ how[c].def \in BOOLEAN
        BY <1>0, <3>1, <3>3 DEF HowWith, HowType
      <4>2. how'[c] \in HowType(how'[c]) /\ how'[c].out = "own"
        BY <3>1, <4>1, HowDecided
      <4> QED BY <1>0, <2>1, <3>3, <4>2
    <3> QED BY <2>1, <3>2, <3>3
  <2>5. GivenInv(c)'
    <3>1. st'[c] = "back" BY <1>0, <2>1
    <3> QED BY <2>1, <2>2, <2>3, <2>4, <3>1 DEF GivenInv
  <2>6. ASSUME NEW d \in Calls, d # c PROVE GivenInv(d)'
    BY <2>2, <2>4, <2>6, GivenKept DEF TrueInv
  <2>7. SaidAll' BY <2>2 DEF TrueInv, SaidAll
  <2> QED BY <1>0, <2>2, <2>3, <2>4, <2>5, <2>6, <2>7 DEF TrueInv
<1> QED BY <1>1, <1>2, <1>3

\* A question asked, or answered.
LEMMA AskTrue ==
    ASSUME RecordInv, TrueInv, NEW c \in Calls, Ask(c) \/ Told(c)
    PROVE  TrueInv'
<1> DEFINE hs == hands[c]
<1>1. /\ left' = left /\ rec' = rec /\ run' = run /\ how' = how /\ hands' = hands
      /\ st' = st /\ phase' = phase /\ failing' = failing
  BY DEF Ask, Told, Annotated, NotWritten, log, writer
<1>2. GivenInv(c) /\ DOMAIN asking = Calls /\ SaidAll /\ BranchInv(path, left)
  BY LogOf DEF TrueInv, RecordInv, RunInv
<1>3. SameBatch /\ failing' \in BOOLEAN BY <1>1 DEF SameBatch, TrueInv
<1>4. st[c] = "handed" BY <1>2 DEF GivenInv, Ask, Told
<1>5. ASSUME \A d \in Calls \ {c} : asking'[d] = asking[d],
             \A d \in Calls : SaidInv(path', left, d, hands[d], asking'[d])
      PROVE  TrueInv'
  <2>1. SaidAll' BY <1>1, <1>5 DEF SaidAll
  <2>2. ASSUME NEW d \in Calls, d # c PROVE GivenInv(d)'
    BY <1>1, <1>3, <1>5, <2>2, GivenKept DEF TrueInv
  <2>3. GivenInv(c)' BY <1>1, <1>2, <1>4 DEF GivenInv
  <2> QED BY <1>1, <1>3, <2>1, <2>2, <2>3 DEF TrueInv
<1>6. ASSUME NEW e, e.c = c, e.b = Cardinality(left), path' = Append(path, e), e.k \in {"ask", "told"},
             e.k = "told" => e.v[2] \in 1..Len(path)
      PROVE  \A d \in Calls : SaidInv(path', left, d, hands[d], IF d = c THEN <<>> ELSE asking[d])
  <2> TAKE d \in Calls
  <2> DEFINE a == IF d = c THEN <<>> ELSE asking[d]
  <2>1. SaidInv(path, left, d, hands[d], a)
    BY <1>2 DEF SaidAll, SaidInv, Tells, AskInv
  <2>2. e.c = d => Speaks(path, left, d, hands[d], a, e)
    BY <1>6 DEF Speaks
  <2> HIDE DEF a
  <2>3. SaidInv(Append(path, e), left, d, hands[d], a)
    BY <1>2, <1>6, <2>1, <2>2, SaidGrow
  <2> QED BY <1>6, <2>3 DEF a
<1>7. CASE path' = path
  <2>0. ASSUME NEW e PROVE path' # Append(path, e)
    <3>1. Grown(path, e, Append(path, e)) BY <1>2 DEF Grown, BranchInv
    <3>2. Len(path) \in Nat /\ Len(Append(path, e)) = Len(path) + 1
      BY <3>1, Grow
    <3> QED BY <1>7, <3>2
  <2>1. \A d \in Calls : asking'[d] = asking[d] \/ (d = c /\ asking'[d] = <<>>)
    <3>1. CASE Ask(c) BY <2>0, <3>1 DEF Ask, Annotated
    <3>2. CASE Told(c) BY <1>2, <3>2 DEF Told
    <3> QED BY <3>1, <3>2
  <2>2. ASSUME NEW d \in Calls PROVE SaidInv(path', left, d, hands[d], asking'[d])
    <3>1. SaidInv(path, left, d, hands[d], asking[d])
      BY <1>2 DEF SaidAll
    <3>2. SaidInv(path, left, d, hands[d], <<>>)
      BY <3>1 DEF SaidInv, Tells, AskInv
    <3> QED BY <1>7, <2>1, <3>1, <3>2
  <2> QED BY <1>5, <2>1, <2>2
<1>8. CASE path' # path /\ Ask(c)
  <2> DEFINE e == Entry("ask", c, 0)
             a == <<Cardinality(left), Len(path) + 1>>
  <2>1. path' = Append(path, e) /\ asking' = [asking EXCEPT ![c] = a] /\ asking[c] = <<>>
    BY <1>8 DEF Ask, Annotated, NotWritten, log
  <2>2. e.k = "ask" /\ e.c = c /\ e.b = Cardinality(left) BY EntryIs
  <2>3. \A d \in Calls : SaidInv(path', left, d, hands[d], IF d = c THEN <<>> ELSE asking[d])
    BY <1>6, <2>1, <2>2
  <2>4. Grown(path, e, path') BY <1>2, <2>1 DEF Grown, BranchInv
  <2> HIDE DEF e
  <2>5. AskInv(path', c, a)
    <3> DEFINE N == Len(path) + 1
    <3>1. /\ At(path', c, {"ask"}) = At(path, c, {"ask"}) \cup {N}
          /\ At(path', c, {"told"}) = At(path, c, {"told"})
          /\ At(path, c, {"ask"}) \subseteq 1..Len(path)
          /\ At(path, c, {"told"}) \subseteq 1..Len(path)
      <4>1. /\ At(path, c, {"ask"}) \subseteq 1..Len(path)
            /\ At(path, c, {"told"}) \subseteq 1..Len(path)
        BY <2>4, AtGrow
      <4> QED BY <2>2, <2>4, <4>1, AtGrow
    <3>2. /\ Len(path) \in Nat /\ path'[N] = e /\ DOMAIN path = 1..Len(path)
          /\ \A i \in DOMAIN path : path'[i] = path[i]
      BY <2>4, Grow
    <3>3. \A j \in At(path', c, {"told"}) : path'[j].v[2] \in 1..(j - 1)
      BY <2>3 DEF SaidInv, Tells
    <3>4. a[2] = N /\ a = <<path'[N].b, N>> /\ N \notin 1..Len(path)
      BY <2>2, <3>2
    <3>5. \A j \in At(path', c, {"told"}) : path'[j].v # a
      <4> TAKE j \in At(path', c, {"told"})
      <4>1. j \in 1..Len(path) /\ path'[j].v[2] \in 1..(j - 1)
        BY <3>1, <3>3
      <4> HIDE DEF a
      <4>2. path'[j].v[2] # a[2] BY <3>2, <3>4, <4>1
      <4> QED BY <4>2
    <3>6. N \in At(path', c, {"ask"}) /\ \A j \in At(path', c, {"ask"}) : j <= N
      BY <3>1, <3>2
    <3> HIDE DEF a, N
    <3> QED BY <3>4, <3>5, <3>6 DEF AskInv
  <2>6. SaidInv(path', left, c, hands[c], a)
    <3>1. SaidInv(path', left, c, hands[c], <<>>) BY <2>3
    <3> HIDE DEF a
    <3> QED BY <2>5, <3>1 DEF SaidInv, Tells
  <2>7. \A d \in Calls : asking'[d] = IF d = c THEN a ELSE asking[d]
    BY <1>2, <2>1
  <2> HIDE DEF a
  <2> QED BY <1>5, <2>3, <2>6, <2>7
<1>9. CASE path' # path /\ Told(c)
  <2> DEFINE e == Entry("told", c, asking[c])
  <2>1. path' = Append(path, e) /\ asking' = [asking EXCEPT ![c] = <<>>] /\ asking[c] # <<>>
    BY <1>9 DEF Told, Annotated, NotWritten, log
  <2>2. e.k = "told" /\ e.c = c /\ e.b = Cardinality(left) /\ e.v = asking[c]
    BY DEF Entry
  <2>3. asking[c][2] \in 1..Len(path)
    <3>1. AskInv(path, c, asking[c]) BY <1>2 DEF SaidAll, SaidInv, Tells
    <3>2. DOMAIN path = 1..Len(path) BY <1>2 DEF BranchInv, IsPath
    <3> QED BY <2>1, <3>1, <3>2 DEF AskInv, At
  <2> HIDE DEF e
  <2>4. \A d \in Calls : SaidInv(path', left, d, hands[d], IF d = c THEN <<>> ELSE asking[d])
    BY <1>6, <2>1, <2>2, <2>3
  <2>5. \A d \in Calls : asking'[d] = IF d = c THEN <<>> ELSE asking[d]
    BY <1>2, <2>1
  <2> QED BY <1>5, <2>4, <2>5
<1> QED BY <1>7, <1>8, <1>9

-----------------------------------------------------------------------------
(* What the agent has a call pending as.                                   *)

Whys == {"none", "deferred", "aborted", "undispatched", "answered", "returned", "rejected"}

\* A pending call; of its key, arguments and question nothing is asked.
PendType(p) ==
    [why : Whys, key : {p.key}, args : {p.args}, disp : BOOLEAN,
     ran : BOOLEAN, question : {p.question}]

\* A call that a run left open is pending.
PendInv ==
    /\ DOMAIN pend = Calls
    /\ \A c \in Calls : /\ pend[c] \in PendType(pend[c])
                        /\ phase = "idle" /\ st[c] = "owed" => pend[c].why # "none"

\* A call that is not pending, and one that a record has pending.
LEMMA PendIs ==
    /\ NotPending \in PendType(NotPending)
    /\ \A p, l : \A c \in Unanswered(p) :
          LET q == PendingCall(p, l, c) IN q \in PendType(q) /\ q.why # "none"
<1>1. NotPending \in PendType(NotPending)
  BY DEF NotPending, PendType, Whys
<1>2. ASSUME NEW p, NEW l, NEW c \in Unanswered(p)
      PROVE  LET q == PendingCall(p, l, c) IN q \in PendType(q) /\ q.why # "none"
  <2> DEFINE s == State(p, c)
             q == PendingCall(p, l, c)
  <2>1. s \in {"rejected", "answered", "held", "returned", "inflight", "neverstarted"}
    BY DEF State, Unanswered, Has
  <2>2. /\ q.why = (CASE s = "held" -> "deferred"
                 [] s = "inflight" -> "aborted"
                 [] s = "neverstarted" -> IF s \in {"held", "neverstarted"} /\ Off(p, l, c)
                                          THEN "aborted" ELSE "undispatched"
                 [] OTHER -> s)
        /\ q.disp \in BOOLEAN /\ q.ran \in BOOLEAN
    BY DEF PendingCall, RanOff
  <2>3. q.why \in Whys \ {"none"}
    <3> HIDE DEF q, s
    <3> QED BY <2>1, <2>2 DEF Whys
  <2>4. q = [why |-> q.why, disp |-> q.disp, question |-> q.question, ran |-> q.ran,
             key |-> q.key, args |-> q.args]
    BY DEF PendingCall
  <2> HIDE DEF q, s
  <2>5. q \in PendType(q) BY <2>2, <2>3, <2>4 DEF PendType
  <2> QED BY <2>3, <2>5 DEF q
<1> QED BY <1>1, <1>2

\* What a Resume may answer to a call.
LEMMA AnswerIs ==
    ASSUME NEW c \in Calls, pend[c] \in PendType(pend[c]), pend[c].why # "none",
           NEW x \in AnswersTo(c)
    PROVE  \/ \E out \in {"unknown", "own", "refusal", "host"} : x = Given(out)
           \/ /\ pend[c].why \in {"undispatched", "aborted", "deferred"}
              /\ \E a \in {0, pend[c].args} \cup budget.args :
                    /\ x = Approval(c, a)
                    /\ MayHaveRun(pend[c]) => RunAgain(c) /\ a = pend[c].args
<1> DEFINE p == pend[c]
<1>1. p.why \in Whys \ {"none"} /\ p.disp \in BOOLEAN BY DEF PendType
<1>2. CASE p.why = "undispatched" BY <1>2 DEF AnswersTo, MayHaveRun
<1>3. CASE p.why \in {"answered", "returned", "rejected"}
  BY <1>3 DEF AnswersTo
<1>4. CASE p.why = "aborted" BY <1>4 DEF AnswersTo, MayHaveRun
<1>5. CASE p.why = "deferred" BY <1>1, <1>5 DEF AnswersTo, MayHaveRun
<1> QED BY <1>1, <1>2, <1>3, <1>4, <1>5 DEF Whys

\* Both kinds of answer say how the call stands in the run.
LEMMA HowAnswered ==
    /\ NoWay \in HowType(NoWay)
    /\ \A out : Given(out) \in HowType(Given(out)) /\ Given(out).out = out /\ ~Given(out).appr
                /\ ~Given(out).hand /\ ~Given(out).def
    /\ \A c, a : /\ Approval(c, a) \in HowType(Approval(c, a)) /\ Approval(c, a).appr
                 /\ Approval(c, a).args = a /\ Approval(c, a).key = pend[c].key
                 /\ ~Approval(c, a).hand /\ ~Approval(c, a).def /\ Approval(c, a).out = "none"
BY DEF NoWay, HowType, Given, Approval

\* How a call stands with the key of a new run.
HowKeyed(h, k) == [h EXCEPT !.key = k]

\* The key alone is changed by it.
LEMMA HowKeyedIs ==
    ASSUME NEW h, h \in HowType(h), NEW k, NEW g, g = HowKeyed(h, k)
    PROVE  /\ g \in HowType(g) /\ g.args = h.args /\ g.def = h.def /\ g.out = h.out
           /\ g.key = k /\ g.hand = h.hand /\ g.appr = h.appr
<1>1. /\ g.args = h.args /\ g.def = h.def /\ g.out = h.out
      /\ g.key = k /\ g.hand = h.hand /\ g.appr = h.appr
  BY DEF HowType, HowKeyed
<1>2. g = [args |-> g.args, key |-> g.key, out |-> g.out, def |-> g.def,
           hand |-> g.hand, appr |-> g.appr]
  BY DEF HowType, HowKeyed
<1>3. g.def \in BOOLEAN /\ g.hand \in BOOLEAN /\ g.appr \in BOOLEAN
  BY <1>1 DEF HowType
<1>4. g \in HowType(g) BY ONLY <1>2, <1>3 DEF HowType
<1> QED BY <1>1, <1>4

\* What an answered call stands as, with the key of the run that begins.
LEMMA ResumeIs ==
    ASSUME PendInv, Resume, NEW c \in Calls
    PROVE  \/ st[c] # "owed" /\ st'[c] = st[c] /\ how'[c] = NoWay
           \/ /\ st[c] = "owed" /\ st'[c] = "answer"
              /\ \E out \in {"unknown", "own", "refusal", "host"} : how'[c] = Given(out)
           \/ /\ st[c] = "owed" /\ st'[c] = "todo"
              /\ pend[c].why \in {"undispatched", "aborted", "deferred"}
              /\ \E a \in {0, pend[c].args} \cup budget.args :
                    /\ how'[c] = HowKeyed(Approval(c, a), IF pend[c].key = 0 THEN nrun + 1 ELSE pend[c].key)
                    /\ MayHaveRun(pend[c]) => RunAgain(c) /\ a = pend[c].args
<1>1. PICK a \in [Owing -> UNION {AnswersTo(d) : d \in Owing}] :
          /\ \A d \in Owing : a[d] \in AnswersTo(d)
          /\ how' = [d \in Calls |->
                IF d \notin Owing THEN NoWay
                ELSE IF a[d].appr /\ a[d].key = 0
                THEN [a[d] EXCEPT !.key = nrun + 1] ELSE a[d]]
          /\ st' = [d \in Calls |->
                IF d \notin Owing THEN st[d]
                ELSE IF a[d].appr THEN "todo" ELSE "answer"]
  BY DEF Resume
<1>2. CASE st[c] # "owed" BY <1>1, <1>2 DEF Owing
<1>3. CASE st[c] = "owed"
  <2> DEFINE x == a[c]
  <2>1. c \in Owing /\ x \in AnswersTo(c) /\ phase = "idle"
    BY <1>1, <1>3 DEF Owing, Resume
  <2>2. /\ how'[c] = (IF x.appr /\ x.key = 0 THEN HowKeyed(x, nrun + 1) ELSE x)
        /\ st'[c] = (IF x.appr THEN "todo" ELSE "answer")
    BY <1>1, <2>1 DEF HowKeyed
  <2>3. pend[c] \in PendType(pend[c]) /\ pend[c].why # "none"
    BY <1>3, <2>1 DEF PendInv
  <2> HIDE DEF x
  <2>4. CASE \E out \in {"unknown", "own", "refusal", "host"} : x = Given(out)
    BY <1>3, <2>2, <2>4, HowAnswered
  <2>5. CASE \E b : x = Approval(c, b)
    <3>1. PICK b \in {0, pend[c].args} \cup budget.args :
             /\ x = Approval(c, b) /\ (MayHaveRun(pend[c]) => RunAgain(c) /\ b = pend[c].args)
             /\ pend[c].why \in {"undispatched", "aborted", "deferred"}
      BY <2>1, <2>3, <2>5, AnswerIs, HowAnswered
    <3>2. x.appr /\ x.key = pend[c].key /\ st'[c] = "todo"
      BY <2>2, <3>1, HowAnswered
    <3>3. x = HowKeyed(x, x.key) BY <3>1 DEF HowKeyed, Approval, NoWay
    <3>4. how'[c] = HowKeyed(Approval(c, b), IF pend[c].key = 0 THEN nrun + 1 ELSE pend[c].key)
      BY <2>2, <3>1, <3>2, <3>3
    <3> QED BY <1>3, <3>1, <3>2, <3>4
  <2> QED BY <2>1, <2>3, <2>4, <2>5, AnswerIs
<1> QED BY <1>2, <1>3

\* A run's start or its end, on the path.
LEMMA SaidNoted ==
    ASSUME NEW p, NEW l, NEW c, NEW hs, NEW a, NEW e, BranchInv(p, l),
           e.b = Cardinality(l), e.k \in {"start", "end"}, SaidInv(p, l, c, hs, a)
    PROVE  SaidInv(Append(p, e), l, c, hs, a)
<1>1. Speaks(p, l, c, hs, a, e) BY DEF Speaks
<1> QED BY <1>1, SaidGrow

\* A run begins.
LEMMA RunStartTrue ==
    ASSUME RecordInv, TrueInv, PendInv, RunStart \/ Resume PROVE TrueInv' /\ PendInv'
<1> DEFINE e == Entry("start", 0, nrun + 1)
<1>1. /\ phase = "idle" /\ phase' \in {"items", "answers"} /\ left' = left /\ rec' = rec
      /\ asking' = asking /\ hands' = hands /\ run' = nrun + 1 /\ pend' = pend
      /\ path' = Append(path, e) /\ failing' \in BOOLEAN /\ DOMAIN how' = Calls
  <2>1. CASE RunStart
    <3>1. nrun = 0 /\ nrun + 1 = 1 BY <2>1 DEF RunStart
    <3> QED BY <2>1, <3>1 DEF RunStart, TrueInv
  <2>2. CASE Resume BY <2>2 DEF Resume
  <2> QED BY <2>1, <2>2
<1>2. e.k = "start" /\ e.b = Cardinality(left) BY EntryIs
<1> HIDE DEF e
<1>3. BranchInv(path, left) /\ nrun \in Nat /\ DOMAIN st = Calls
  BY LogOf DEF RecordInv, RunInv
<1>4. SaidAll' BY <1>1, <1>2, <1>3, SaidNoted DEF TrueInv, SaidAll
<1>5. ASSUME NEW c \in Calls PROVE GivenInv(c)'
  <2>1. ~Mine(rec[c], run')
    <3>1. rec[c].drun <= nrun /\ rec[c].drun \in Nat
      BY LogOf DEF CallInv, SoundInv, RecordType
    <3> QED BY <1>1, <1>3, <3>1 DEF Mine
  <2>2. GivenInv(c) BY DEF TrueInv
  <2>3. st[c] \notin {"handed", "ready", "answer"} /\ asking[c] = <<>>
    BY <1>1, <2>2 DEF GivenInv
  <2>4. /\ st'[c] = st[c] \/ st'[c] = "todo" \/ (st'[c] = "answer" /\ how'[c].out # "none")
        /\ how'[c] \in HowType(how'[c])
        /\ st'[c] = "stopped" => how'[c].out = "none"
    <3>1. CASE RunStart BY <2>2, <3>1 DEF RunStart, GivenInv
    <3>2. CASE Resume
      <4>1. CASE st'[c] = st[c] /\ how'[c] = NoWay
        BY <4>1, HowAnswered DEF NoWay
      <4>2. ASSUME NEW out \in {"unknown", "own", "refusal", "host"}, how'[c] = Given(out),
                   st'[c] = "answer"
            PROVE  how'[c] \in HowType(how'[c]) /\ how'[c].out # "none"
        BY <4>2, HowAnswered
      <4>3. ASSUME NEW a, NEW k, how'[c] = HowKeyed(Approval(c, a), k), st'[c] = "todo"
            PROVE  how'[c] \in HowType(how'[c])
        BY <4>3, HowAnswered, HowKeyedIs
      <4> QED BY <3>2, <4>1, <4>2, <4>3, ResumeIs
    <3> QED BY <3>1, <3>2
  <2> QED BY <1>1, <2>1, <2>2, <2>3, <2>4 DEF GivenInv
<1>6. PendInv' BY <1>1 DEF PendInv
<1>7. DOMAIN hands' = Calls BY <1>1 DEF TrueInv
<1> QED BY <1>1, <1>4, <1>5, <1>6, <1>7 DEF TrueInv

\* What the agent has a call pending as that a run leaves open.
LEMMA PendingOfIs ==
    ASSUME NEW c \in Calls, pend[c] \in PendType(pend[c]), how[c] \in HowType(how[c])
    PROVE  PendingOf(c) \in PendType(PendingOf(c)) /\ PendingOf(c).why # "none"
<1> DEFINE h == how[c]
           p == pend[c]
           x == PendingOf(c)
<1>1. /\ p.why \in Whys /\ p.disp \in BOOLEAN /\ p.ran \in BOOLEAN
      /\ h.def \in BOOLEAN /\ h.hand \in BOOLEAN /\ h.appr \in BOOLEAN
      /\ p = [why |-> p.why, key |-> p.key, args |-> p.args, disp |-> p.disp,
              ran |-> p.ran, question |-> p.question]
  BY DEF PendType, HowType
<1>2. \/ x = [NotPending EXCEPT !.why = "deferred", !.args = h.args]
      \/ x = [NotPending EXCEPT !.why = "aborted", !.key = h.key, !.args = h.args]
      \/ x = [p EXCEPT !.why = "aborted", !.disp = FALSE]
      \/ x = [NotPending EXCEPT !.why = "undispatched"]
      \/ x = p /\ p.why # "none"
  BY DEF PendingOf, MayHaveRun
<1> HIDE DEF x, p, h
<1>3. CASE x = p /\ p.why # "none" BY <1>3 DEF x, p
<1>4. CASE x = [p EXCEPT !.why = "aborted", !.disp = FALSE]
  <2>1. x = [why |-> "aborted", key |-> p.key, args |-> p.args, disp |-> FALSE,
             ran |-> p.ran, question |-> p.question]
    BY <1>1, <1>4
  <2>2. x \in PendType(x) /\ x.why = "aborted"
    BY ONLY <1>1, <2>1 DEF PendType, Whys
  <2> QED BY <2>2 DEF x
<1>5. CASE \/ x = [NotPending EXCEPT !.why = "deferred", !.args = h.args]
           \/ x = [NotPending EXCEPT !.why = "aborted", !.key = h.key, !.args = h.args]
           \/ x = [NotPending EXCEPT !.why = "undispatched"]
  <2>1. x \in PendType(x) /\ x.why # "none"
    BY <1>5 DEF NotPending, PendType, Whys
  <2> QED BY <2>1 DEF x
<1> QED BY <1>2, <1>3, <1>4, <1>5

\* A run's end.
LEMMA RunEndTrue ==
    ASSUME RecordInv, TrueInv, PendInv, RunEnd PROVE TrueInv' /\ PendInv'
<1> DEFINE e == Entry("end", 0, open)
<1>1. /\ e.k = "end" /\ e.b = Cardinality(left) /\ path' = Append(path, e)
      /\ left' = left /\ rec' = rec /\ run' = 0 /\ hands' = hands /\ failing' = FALSE
      /\ phase = "ending" /\ phase' = "idle" /\ asking' = asking
      /\ st' = [c \in Calls |-> IF st[c] \in {"new", "gone"} THEN "gone" ELSE "owed"]
      /\ how' = [c \in Calls |-> NoWay]
      /\ pend' = [c \in Calls |-> IF st[c] \in {"new", "gone"} THEN NotPending
                                  ELSE PendingOf(c)]
  BY EntryIs DEF RunEnd
<1> HIDE DEF e
<1>2. BranchInv(path, left) BY LogOf
<1>3. SaidAll' BY <1>1, <1>2, SaidNoted DEF TrueInv, SaidAll
<1>4. ASSUME NEW c \in Calls PROVE GivenInv(c)'
  <2>1. GivenInv(c) BY DEF TrueInv
  <2>2. asking'[c] = <<>> /\ st'[c] \in {"gone", "owed"} /\ how'[c] = NoWay
        /\ ~Mine(rec'[c], run') /\ IsPath(hands'[c])
    BY <1>1, <2>1 DEF GivenInv, Mine
  <2> QED BY <2>2, HowAnswered DEF GivenInv
<1>5. ASSUME NEW c \in Calls
      PROVE  /\ pend'[c] \in PendType(pend'[c])
             /\ st'[c] = "owed" => pend'[c].why # "none"
  <2>1. PendingOf(c) \in PendType(PendingOf(c)) /\ PendingOf(c).why # "none"
    BY PendingOfIs DEF PendInv, TrueInv, GivenInv
  <2> QED BY <1>1, <2>1, PendIs
<1>6. PendInv' BY <1>1, <1>5 DEF PendInv
<1>7. DOMAIN hands' = Calls /\ DOMAIN how' = Calls BY <1>1 DEF TrueInv
<1> QED BY <1>1, <1>3, <1>4, <1>6, <1>7 DEF TrueInv

\* The path q has the entry whose ID is at.
HasEntry(q, at) == at[2] \in DOMAIN q /\ q[at[2]].b = at[1]

\* A hand-off was recorded at the entry at: some path has it, and on each
\* that does it is a dispatch of the call that was not withdrawn.
AtInv(p, l, c, at) ==
    /\ at \in Nat \X Nat /\ at[1] <= Cardinality(l)
    /\ at[1] = Cardinality(l) => at[2] <= Len(p)
    /\ \E q \in l \cup {p} : HasEntry(q, at)
    /\ \A q \in l \cup {p} : HasEntry(q, at) => at[2] \in Dispatches(q, c)

\* The dispatch that is to be withdrawn is of no hand-off.
StopInv(c) ==
    Mine(rec[c], run) /\ st[c] = "stopped" =>
        \A m \in At(path, c, {"dispatch"}) :
            (\A j \in At(path, c, {"dispatch"}) : j <= m) =>
                \A i \in DOMAIN hands[c] :
                    ~(hands[c][i].at[2] = m /\ hands[c][i].at[1] = path[m].b)

\* What a rewind to any entry rests on: each path that was left still says
\* what is true of the calls, and each hand-off stays a dispatch.
FirmInv ==
    \A c \in Calls :
        /\ StopInv(c)
        /\ \A q \in left : Tells(q, c, hands[c])
        /\ \A i \in DOMAIN hands[c] : AtInv(path, left, c, hands[c][i].at)

\* A dispatch that is not withdrawn, on a beginning of the path.
LEMMA DispatchCut ==
    ASSUME NEW p, IsPath(p), NEW m \in 0..Len(p), NEW c, NEW i \in Dispatches(p, c), i <= m
    PROVE  i \in Dispatches(SubSeq(p, 1, m), c)
<1> DEFINE q == SubSeq(p, 1, m)
<1>1. /\ DOMAIN q = 1..m /\ DOMAIN p = 1..Len(p) /\ Len(p) \in Nat
      /\ \A j \in 1..m : q[j] = p[j]
  BY Cut
<1> HIDE DEF q
<1>2. ASSUME NEW K PROVE At(q, c, K) = {j \in At(p, c, K) : j <= m}
  BY <1>1 DEF At
<1>3. i \in At(p, c, {"dispatch"}) /\ i \in 1..Len(p)
  BY <1>1 DEF Dispatches, At
<1>4. i \in At(q, c, {"dispatch"}) BY <1>2, <1>3
<1>5. ASSUME NEW j \in At(q, c, {"withdraw"}), i < j
      PROVE  \E n \in At(q, c, {"dispatch"}) : i < n /\ n < j
  <2>1. j \in At(p, c, {"withdraw"}) /\ j \in 1..m BY <1>1, <1>2 DEF At
  <2>2. PICK n \in At(p, c, {"dispatch"}) : i < n /\ n < j
    BY <1>5, <2>1 DEF Dispatches
  <2>3. n \in 1..Len(p) BY <1>1 DEF At
  <2> QED BY <1>1, <1>2, <2>1, <2>2, <2>3
<1>6. i \in Dispatches(q, c) BY <1>4, <1>5 DEF Dispatches
<1> QED BY <1>6 DEF q

\* The beginning of a path tells what the path does.
LEMMA TellsCut ==
    ASSUME NEW p, IsPath(p), NEW m \in 0..Len(p), NEW c, NEW hs, Tells(p, c, hs)
    PROVE  Tells(SubSeq(p, 1, m), c, hs)
<1> DEFINE q == SubSeq(p, 1, m)
<1>1. /\ DOMAIN q = 1..m /\ DOMAIN p = 1..Len(p) /\ Len(p) \in Nat
      /\ \A i \in 1..m : q[i] = p[i]
  BY Cut
<1> HIDE DEF q
<1>2. ASSUME NEW K PROVE At(q, c, K) = {i \in At(p, c, K) : i <= m}
  BY <1>1 DEF At
<1>3. ASSUME NEW K, Has(q, c, K) PROVE Has(p, c, K)
  BY <1>1, <1>3 DEF Has
<1>4. RejectInv(q, c, hs)
  <2>1. ASSUME NEW i \in At(q, c, {"reject"}), NEW j \in DOMAIN hs
        PROVE  hs[j].at # <<>> /\ hs[j].at[1] > q[i].b
    <3>1. i \in At(p, c, {"reject"}) /\ q[i] = p[i] BY <1>1, <1>2 DEF At
    <3> QED BY <3>1 DEF Tells, RejectInv
  <2> QED BY <2>1 DEF RejectInv
<1>5. Has(q, c, {"result"}) => hs # <<>> BY <1>3 DEF Tells
<1>6. OutputInv(q, c, hs)
  <2> SUFFICES ASSUME Has(q, c, {"call"}), NEW i \in At(q, c, {"output"})
               PROVE  \/ q[i].v = "own" /\ hs # <<>>
                      \/ \E j \in At(q, c, {"answer", "reject"}) : j < i
    BY DEF OutputInv
  <2>1. i \in At(p, c, {"output"}) /\ i \in 1..m /\ q[i] = p[i] /\ Has(p, c, {"call"})
    BY <1>1, <1>2, <1>3 DEF At
  <2>2. \/ p[i].v = "own" /\ hs # <<>>
        \/ \E j \in At(p, c, {"answer", "reject"}) : j < i
    BY <2>1 DEF Tells, OutputInv
  <2>3. ASSUME NEW j \in At(p, c, {"answer", "reject"}), j < i
        PROVE  j \in At(q, c, {"answer", "reject"})
    <3>1. j \in 1..Len(p) BY <1>1 DEF At
    <3> QED BY <1>1, <1>2, <2>1, <2>3, <3>1
  <2> QED BY <2>1, <2>2, <2>3
<1>7. ASSUME NEW j \in At(q, c, {"told"}) PROVE q[j].v[2] \in 1..(j - 1)
  <2>1. j \in At(p, c, {"told"}) /\ j \in 1..m /\ q[j] = p[j]
    BY <1>1, <1>2 DEF At
  <2> QED BY <2>1 DEF Tells
<1>8. Tells(q, c, hs) BY <1>4, <1>5, <1>6, <1>7 DEF Tells
<1> QED BY <1>8 DEF q

\* The path to any entry says what the paths did, once the one at the leaf
\* is left.
LEMMA SaidCut ==
    ASSUME NEW p, NEW l, NEW x \in l \cup {p}, \A y \in l \cup {p} : IsPath(y),
           NEW m \in 0..Len(x), NEW c, NEW hs, IsPath(hs), Tells(x, c, hs),
           \A i \in DOMAIN hs : AtInv(p, l, c, hs[i].at)
    PROVE  SaidInv(SubSeq(x, 1, m), l \cup {p}, c, hs, <<>>)
<1> DEFINE q == SubSeq(x, 1, m)
           l2 == l \cup {p}
<1>1. /\ Len(q) = m /\ DOMAIN q = 1..m /\ DOMAIN x = 1..Len(x) /\ Len(x) \in Nat
      /\ \A i \in 1..m : q[i] = x[i]
  BY Cut
<1>2. Tells(q, c, hs) BY TellsCut
<1>3. ASSUME hs # <<>> PROVE Dispatched(q, c) \/ OffPaths(q, l2, c) # {}
  <2>1. 1 \in DOMAIN hs BY <1>3 DEF IsPath
  <2> DEFINE at == hs[1].at
  <2>2. AtInv(p, l, c, at) BY <2>1
  <2> HIDE DEF at
  <2>3. PICK y \in l2 : HasEntry(y, at) BY <2>2 DEF AtInv
  <2>4. at[2] \in Dispatches(y, c) /\ at[2] \in Nat
    BY <2>2, <2>3 DEF AtInv
  <2>5. CASE HasEntry(q, at)
    <3>1. at[2] \in 1..m /\ HasEntry(x, at) BY <1>1, <2>5 DEF HasEntry
    <3>2. at[2] \in Dispatches(x, c) BY <2>2, <3>1 DEF AtInv
    <3>3. at[2] \in Dispatches(q, c) BY <3>1, <3>2, DispatchCut
    <3> QED BY <3>3 DEF Dispatched
  <2>6. CASE ~HasEntry(q, at)
    <3>1. at[2] \in At(y, c, {"dispatch"}) /\ at[2] \in DOMAIN y /\ y[at[2]].b = at[1]
      BY <2>3, <2>4 DEF Dispatches, HasEntry
    <3>2. at[2] \in 1..m => q[at[2]] # y[at[2]]
      BY <1>1, <2>6, <3>1 DEF HasEntry
    <3>3. at[2] >= 1
      <4>1. IsPath(y) BY <2>3
      <4>2. DOMAIN y = 1..Len(y) /\ Len(y) \in Nat BY <4>1 DEF IsPath
      <4> QED BY <2>4, <3>1, <4>2
    <3>4. at[2] > Len(q) \/ q[at[2]] # y[at[2]]
      BY <1>1, <2>4, <3>2, <3>3
    <3>5. at[2] \in OffAt(q, y, c) BY <3>1, <3>4 DEF OffAt
    <3> QED BY <2>3, <3>5 DEF OffPaths
  <2> QED BY <2>5, <2>6
<1> HIDE DEF q, l2
<1>4. SaidInv(q, l2, c, hs, <<>>) BY <1>2, <1>3 DEF SaidInv, AskInv
<1> QED BY <1>4 DEF q, l2

\* A path that a run left open, once it is closed.
LEMMA SaidClosed ==
    ASSUME NEW p, NEW l, BranchInv(p, l), NEW b, b = Cardinality(l),
           NEW c, NEW hs, NEW a, SaidInv(p, l, c, hs, a)
    PROVE  SaidInv(Closed(p, b), l, c, hs, a)
<1>1. ASSUME NEW e, e.k = "end", e.b = b PROVE SaidInv(Append(p, e), l, c, hs, a)
  BY <1>1, SaidNoted
<1> QED BY <1>1, ClosedIs

\* The agent seeded with a path knows nothing of its calls but what it says.
LEMMA SeededTrue ==
    ASSUME TrueInv, Seeded(path', left'), hands' = hands,
           \A c \in Calls : SaidInv(path', left', c, hands[c], <<>>)
    PROVE  TrueInv' /\ PendInv'
<1>1. /\ rec' = [c \in Calls |-> CallRecordOf(path', left', c)]
      /\ run' = 0 /\ phase' = "idle" /\ failing' = FALSE
      /\ st' = [c \in Calls |-> IF c \in Unanswered(path') THEN "owed" ELSE "gone"]
      /\ asking' = [c \in Calls |-> <<>>] /\ how' = [c \in Calls |-> NoWay]
      /\ pend' = [c \in Calls |-> IF c \in Unanswered(path')
                                  THEN PendingCall(path', left', c) ELSE NotPending]
  BY DEF Seeded
<1>2. SaidAll' BY <1>1 DEF SaidAll
<1>3. ASSUME NEW c \in Calls PROVE GivenInv(c)'
  <2>1. /\ asking'[c] = <<>> /\ st'[c] \in {"gone", "owed"} /\ how'[c] = NoWay
        /\ ~Mine(rec'[c], run') /\ IsPath(hands'[c])
    BY <1>1 DEF TrueInv, GivenInv, Mine
  <2> QED BY <2>1, HowAnswered DEF GivenInv
<1>4. ASSUME NEW c \in Calls
      PROVE  /\ pend'[c] \in PendType(pend'[c])
             /\ st'[c] = "owed" => pend'[c].why # "none"
  BY <1>1, PendIs
<1>5. PendInv' BY <1>1, <1>4 DEF PendInv
<1>6. DOMAIN hands' = Calls /\ DOMAIN how' = Calls BY <1>1 DEF TrueInv
<1> QED BY <1>1, <1>2, <1>3, <1>5, <1>6 DEF TrueInv

\* A crash, and a rewind.
LEMMA CrashTrue ==
    ASSUME RecordInv, TrueInv, FirmInv, CrashAndResume \/ Rewinds
    PROVE  TrueInv' /\ PendInv'
<1>1. BranchInv(path, left) /\ SaidAll BY LogOf DEF TrueInv
<1>2. CASE CrashAndResume
  <2>1. /\ path' = Closed(path, Cardinality(left)) /\ left' = left
        /\ Seeded(path', left') /\ hands' = hands
    BY <1>2 DEF CrashAndResume
  <2>2. ASSUME NEW c \in Calls PROVE SaidInv(path', left', c, hands[c], <<>>)
    <3>1. SaidInv(path, left, c, hands[c], asking[c])
      BY <1>1 DEF SaidAll
    <3>2. SaidInv(path, left, c, hands[c], <<>>)
      BY <3>1 DEF SaidInv, Tells, AskInv
    <3> QED BY <1>1, <2>1, <3>2, SaidClosed
  <2> QED BY <2>1, <2>2, SeededTrue
<1>3. ASSUME NEW x, NEW m, Rebase(x, m) PROVE TrueInv' /\ PendInv'
  <2> DEFINE q == SubSeq(x, 1, m)
             l == left \cup {path}
  <2>1. /\ path' = Closed(q, Cardinality(l)) /\ left' = l
        /\ Seeded(path', left') /\ hands' = hands /\ x \in l /\ m \in 0..Len(x)
    BY <1>3 DEF Rebase
  <2>2. BranchInv(q, l) /\ \A y \in l : IsPath(y)
    <3>1. \A c \in Calls : ResultInv(path, c) BY LogOf DEF SoundInv
    <3> QED BY <1>1, <2>1, <3>1, BranchCut, LeftOlder
  <2>3. ASSUME NEW c \in Calls PROVE SaidInv(q, l, c, hands[c], <<>>)
    <3>1. Tells(x, c, hands[c])
      BY <1>1, <2>1 DEF SaidAll, SaidInv, FirmInv
    <3>2. IsPath(hands[c]) /\ \A i \in DOMAIN hands[c] : AtInv(path, left, c, hands[c][i].at)
      BY DEF TrueInv, GivenInv, FirmInv
    <3> QED BY <2>1, <2>2, <3>1, <3>2, SaidCut
  <2> HIDE DEF q, l
  <2>4. \A c \in Calls : SaidInv(path', left', c, hands[c], <<>>)
    BY <2>1, <2>2, <2>3, SaidClosed
  <2> QED BY <2>1, <2>4, SeededTrue
<1> QED BY <1>2, <1>3 DEF Rewinds

\* A step that leaves the calls pending as they are.
LEMMA PendKept ==
    ASSUME RecordInv, PendInv,
           \/ UNCHANGED vars
           \/ Execute \/ Abort \/ Drained \/ OutsDone
           \/ \E c \in Calls :
                 \/ CallItem(c) \/ Dispatch(c) \/ ToolReturns(c) \/ ToolEnd(c)
                 \/ AppendOut(c) \/ Ask(c) \/ Told(c)
                 \/ \E d, args : ToolStart(c, d, args)
    PROVE  PendInv'
<1>0. DOMAIN st = Calls BY DEF RecordInv, RunInv
<1>1. ASSUME pend' = pend,
             phase' = "idle" =>
                phase = "idle" /\ \A c \in Calls : st'[c] = "owed" => st[c] = "owed"
      PROVE  PendInv'
  BY <1>1 DEF PendInv
<1>2. CASE UNCHANGED vars BY <1>1, <1>2 DEF vars, agent
<1>3. CASE Execute \/ Abort \/ Drained \/ OutsDone
  BY <1>1, <1>3 DEF Execute, Abort, Drained, OutsDone
<1>4. ASSUME NEW c \in Calls,
             \/ CallItem(c) \/ Dispatch(c) \/ ToolReturns(c) \/ ToolEnd(c)
             \/ AppendOut(c) \/ Ask(c) \/ Told(c)
             \/ \E d, args : ToolStart(c, d, args)
      PROVE  PendInv'
  <2>1. CASE CallItem(c) BY <1>0, <1>1, <2>1 DEF CallItem
  <2>2. CASE Dispatch(c) \/ ToolReturns(c) \/ ToolEnd(c)
    <3>1. pend' = pend /\ phase' = phase
      BY <2>2 DEF Dispatch, ToolReturns, ToolEnd
    <3>2. \A d \in Calls : st'[d] = "owed" => st[d] = "owed"
      BY <1>0, <2>2 DEF Dispatch, ToolReturns, ToolEnd
    <3> QED BY <1>1, <3>1, <3>2
  <2>3. CASE AppendOut(c)
    <3>1. pend' = pend /\ (phase' = phase \/ phase' = "ending")
      BY <2>3 DEF AppendOut
    <3>2. st' = st \/ st' = [st EXCEPT ![c] = "gone"]
      BY <2>3 DEF AppendOut
    <3>3. \A d \in Calls : st'[d] = "owed" => st[d] = "owed"
      BY <1>0, <3>2
    <3> QED BY <1>1, <3>1, <3>3
  <2>4. CASE Ask(c) \/ Told(c) BY <1>1, <2>4 DEF Ask, Told
  <2>5. ASSUME NEW d, NEW args, ToolStart(c, d, args) PROVE PendInv'
    <3>1. phase = "start" /\ phase' = phase /\ pend' = pend
      BY <2>5 DEF ToolStart
    <3> QED BY <1>1, <3>1
  <2> QED BY <1>4, <2>1, <2>2, <2>3, <2>4, <2>5
<1> QED BY <1>2, <1>3, <1>4

\* The initial state.
LEMMA InitTrue == Init => BudgetInv /\ TrueInv /\ PendInv
<1> SUFFICES ASSUME Init PROVE BudgetInv /\ TrueInv /\ PendInv
  OBVIOUS
<1>1. BudgetInv BY RecordAssumption DEF Init, BudgetInv
<1>2. ASSUME NEW c \in Calls PROVE SaidInv(path, left, c, hands[c], asking[c])
  <2>1. \A K : At(path, c, K) = {} /\ ~Has(path, c, K)
    BY DEF Init, At, Has
  <2>2. hands[c] = <<>> /\ asking[c] = <<>> BY DEF Init
  <2> QED BY <2>1, <2>2 DEF SaidInv, Tells, RejectInv, OutputInv, AskInv
<1>3. ASSUME NEW c \in Calls PROVE GivenInv(c)
  <2>1. /\ how[c] = NoWay /\ hands[c] = <<>> /\ asking[c] = <<>> /\ st[c] = "new" /\ run = 0
    BY DEF Init
  <2>2. IsPath(hands[c]) /\ ~Mine(rec[c], run) BY <2>1 DEF IsPath, Mine
  <2> QED BY <2>1, <2>2, HowAnswered DEF GivenInv
<1>4. PendInv BY PendIs DEF Init, PendInv
<1>5. DOMAIN how = Calls /\ DOMAIN hands = Calls /\ failing \in BOOLEAN
  BY DEF Init
<1> QED BY <1>1, <1>2, <1>3, <1>4, <1>5 DEF TrueInv, SaidAll

\* Memory is the record, and the record is true of what the tools were given.
SoundlyInv == RecordInv /\ BudgetInv /\ TrueInv /\ PendInv

\* Every step keeps that, while a refused call is not run.
LEMMA NextSoundly == SoundlyInv /\ FirmInv /\ RefusalsHold /\ [Next]_vars => SoundlyInv'
<1> SUFFICES ASSUME SoundlyInv, FirmInv, RefusalsHold, [Next]_vars PROVE SoundlyInv'
  OBVIOUS
<1>1. RecordInv /\ BudgetInv /\ TrueInv /\ PendInv BY DEF SoundlyInv
<1>2. RecordInv' /\ BudgetInv' BY <1>1, NextRecord, BudgetSpent
<1>3. CASE UNCHANGED vars
  <2>1. UNCHANGED <<log, rec, run, how, asking, hands>> /\ SameBatch /\ st' = st
        /\ failing' = failing
    BY <1>3 DEF vars, writer, agent, SameBatch
  <2>2. failing' \in BOOLEAN BY <1>1, <2>1 DEF TrueInv
  <2>3. TrueInv' BY <1>1, <2>1, <2>2, TrueAlone
  <2> QED BY <1>1, <1>2, <1>3, <2>3, PendKept DEF SoundlyInv
<1>4. CASE Execute \/ Abort \/ Drained \/ OutsDone \/ \E c \in Calls : ToolReturns(c)
  BY <1>1, <1>2, <1>4, AgentTrue, PendKept DEF SoundlyInv
<1>5. CASE RunStart \/ Resume
  BY <1>1, <1>2, <1>5, RunStartTrue DEF SoundlyInv
<1>6. CASE RunEnd BY <1>1, <1>2, <1>6, RunEndTrue DEF SoundlyInv
<1>7. CASE CrashAndResume \/ Rewinds
  BY <1>1, <1>2, <1>7, CrashTrue DEF SoundlyInv
<1>8. ASSUME NEW c \in Calls,
             \/ CallItem(c) \/ Dispatch(c) \/ ToolEnd(c) \/ AppendOut(c)
             \/ Ask(c) \/ Told(c)
      PROVE  SoundlyInv'
  BY <1>1, <1>2, <1>8, CallItemTrue, DispatchTrue, ToolEndTrue, AppendOutTrue, AskTrue,
     PendKept DEF SoundlyInv
<1>9. ASSUME NEW c \in Calls, NEW d \in budget.decisions, NEW args \in budget.args,
             ToolStart(c, d, args)
      PROVE  SoundlyInv'
  <2>1. args \in {0, 1} BY <1>1 DEF BudgetInv
  <2> QED BY <1>1, <1>2, <1>9, <2>1, ToolStartTrue, PendKept DEF SoundlyInv
<1> QED BY <1>3, <1>4, <1>5, <1>6, <1>7, <1>8, <1>9 DEF Next, Rewinds

\* A path on which, or beside which, a call was given to its tool has it
\* pending as one that may have run, or that is done.
LEMMA PendingMay ==
    ASSUME NEW p, NEW l, NEW c \in Unanswered(p), NEW hs, NEW a, SaidInv(p, l, c, hs, a),
           hs # <<>>
    PROVE  LET q == PendingCall(p, l, c) IN
           /\ MayHaveRun(q) \/ q.why \in {"answered", "returned", "rejected"}
           /\ ~Has(p, c, {"answer", "result", "reject"}) => MayHaveRun(q)
<1> DEFINE s == State(p, c)
           q == PendingCall(p, l, c)
<1>1. /\ Has(p, c, {"call"}) /\ ~Has(p, c, {"output"})
      /\ Dispatched(p, c) \/ OffPaths(p, l, c) # {}
  BY DEF SaidInv, Tells, Unanswered
<1>2. ~Dispatched(p, c) => Off(p, l, c) BY <1>1 DEF Off
<1>3. /\ Has(p, c, {"reject"}) <=> Has(p, c, {"output", "reject"})
      /\ Has(p, c, {"answer"}) \/ Has(p, c, {"reject"}) <=>
            Has(p, c, {"output", "reject", "answer"})
      /\ Has(p, c, {"result"}) => Has(p, c, {"answer", "result", "reject"})
      /\ Has(p, c, {"answer"}) => Has(p, c, {"answer", "result", "reject"})
      /\ Has(p, c, {"reject"}) => Has(p, c, {"answer", "result", "reject"})
  BY <1>1 DEF Has
<1>4. Returned(p, c) => Dispatched(p, c) /\ Has(p, c, {"result"})
  BY DEF Returned, Has, At
<1>5. \/ s = "answered" /\ Has(p, c, {"answer"})
      \/ s = "rejected" /\ Has(p, c, {"reject"})
      \/ s = "held"
      \/ s = "returned" /\ Returned(p, c)
      \/ s = "inflight"
      \/ s = "neverstarted" /\ ~Dispatched(p, c)
  BY <1>1, <1>3, <1>4 DEF State
<1>6. /\ s = "answered" => q.why = "answered"
      /\ s = "rejected" => q.why = "rejected"
      /\ s = "returned" => q.why = "returned"
      /\ s = "inflight" => q.why = "aborted"
      /\ s = "held" => /\ q.why = "deferred"
                       /\ q.disp = (Off(p, l, c) \/ Dispatched(p, c))
      /\ s = "neverstarted" /\ Off(p, l, c) => q.why = "aborted"
  <2> HIDE DEF s
  <2> QED BY DEF PendingCall, s
<1> HIDE DEF q, s
<1>7. MayHaveRun(q) \/ q.why \in {"answered", "returned", "rejected"}
  BY <1>2, <1>5, <1>6 DEF MayHaveRun
<1>8. ~Has(p, c, {"answer", "result", "reject"}) => MayHaveRun(q)
  BY <1>2, <1>3, <1>4, <1>5, <1>6 DEF MayHaveRun
<1> QED BY <1>7, <1>8 DEF q

\* The question that a call's tool waits on is the one read.
LEMMA QuestionIs ==
    ASSUME NEW p, IsPath(p), NEW c, NEW a, AskInv(p, c, a), a # <<>>
    PROVE  OpenQuestion(p, c) = a
<1> DEFINE owed == {i \in At(p, c, {"ask"}) :
                      \A j \in At(p, c, {"told"}) : p[j].v # <<p[i].b, i>>}
<1>1. PICK m \in At(p, c, {"ask"}) :
                   /\ \A j \in At(p, c, {"ask"}) : j <= m
                   /\ a = <<p[m].b, m>>
                   /\ \A j \in At(p, c, {"told"}) : p[j].v # a
  BY DEF AskInv
<1>2. /\ m \in owed /\ owed \subseteq At(p, c, {"ask"}) /\ owed \subseteq 1..Len(p)
      /\ Len(p) \in Nat
  BY <1>1 DEF At, IsPath
<1>3. OpenQuestion(p, c) = IF owed = {} THEN <<>> ELSE <<p[Last(owed)].b, Last(owed)>>
  BY DEF OpenQuestion
<1> HIDE DEF owed
<1>4. Last(owed) \in owed /\ m <= Last(owed) BY <1>2, LastIs
<1> DEFINE n == Last(owed)
<1>5. n \in owed /\ m <= n BY <1>4
<1> HIDE DEF n
<1>6. n = m
  <2>1. n \in At(p, c, {"ask"}) /\ n \in 1..Len(p) /\ m \in 1..Len(p)
    BY <1>2, <1>5
  <2>2. n <= m BY <1>1, <2>1
  <2> QED BY <1>2, <1>5, <2>1, <2>2
<1>7. OpenQuestion(p, c) = <<p[n].b, n>> BY <1>2, <1>3 DEF n
<1> QED BY <1>1, <1>6, <1>7

\* Both, of the calls of the path.
LEMMA SoundlyPending == SoundlyInv => PendingIsSound
<1> SUFFICES ASSUME SoundlyInv, NEW c \in Unanswered(path), hands[c] # <<>>
             PROVE  LET p == PendingCall(path, left, c) IN
                    /\ \/ MayHaveRun(p) \/ p.why \in {"answered", "returned"}
                       \/ p.why = "rejected" /\ RefusedFirst(c)
                    /\ asking[c] # <<>> => MayHaveRun(p) /\ p.question = asking[c]
  BY DEF PendingIsSound
<1>1. c \in Calls BY DEF Unanswered
<1>2. RecordInv /\ GivenInv(c) /\ SaidInv(path, left, c, hands[c], asking[c]) /\ IsPath(path)
  BY <1>1, LogOf DEF SoundlyInv, TrueInv, SaidAll, BranchInv
<1> DEFINE p == PendingCall(path, left, c)
<1>3. /\ MayHaveRun(p) \/ p.why \in {"answered", "returned", "rejected"}
      /\ ~Has(path, c, {"answer", "result", "reject"}) => MayHaveRun(p)
  BY <1>2, PendingMay
<1>4. p.question = OpenQuestion(path, c) BY DEF PendingCall
<1> HIDE DEF p
<1>6. RefusedFirst(c)
  BY <1>2 DEF SaidInv, Tells, RejectInv, RefusedFirst
<1>5. ASSUME asking[c] # <<>> PROVE MayHaveRun(p) /\ p.question = asking[c]
  <2>1. st[c] = "handed" /\ Mine(rec[c], run) /\ ~rec[c].rejected /\ ~rec[c].ended
    BY <1>2, <1>5 DEF GivenInv
  <2>2. rec[c].known /\ ~rec[c].answered /\ rec[c].result = "none"
    BY <1>1, <1>2, <2>1, LogOf DEF CallInv
  <2>3. AgreeInv(path, left, c, rec[c])
    BY <1>1, <1>2, LogOf DEF SoundInv
  <2>4. ~Has(path, c, {"answer"}) /\ ~Has(path, c, {"result"}) /\ ~Has(path, c, {"reject"})
    BY <2>1, <2>2, <2>3 DEF AgreeInv
  <2>5. ~Has(path, c, {"answer", "result", "reject"}) BY <2>4 DEF Has
  <2>6. AskInv(path, c, asking[c]) BY <1>2 DEF SaidInv, Tells
  <2>7. OpenQuestion(path, c) = asking[c]
    BY <1>2, <1>5, <2>6, QuestionIs
  <2> QED BY <1>3, <1>4, <2>5, <2>7
<1> QED BY <1>3, <1>5, <1>6 DEF p

\* What the path says of its calls is true.
LEMMA SoundlyTrue == SoundlyInv => DecisionsAreTrue
<1> SUFFICES ASSUME SoundlyInv, NEW c \in Calls
             PROVE  /\ RefusedFirst(c)
                    /\ \A i \in At(path, c, {"output"}) :
                          Has(path, c, {"call"}) /\ ~Has(path, c, {"answer", "reject"})
                             => path[i].v = "own" /\ hands[c] # <<>>
  BY DEF DecisionsAreTrue
<1>1. SaidInv(path, left, c, hands[c], asking[c])
  BY DEF SoundlyInv, TrueInv, SaidAll
<1>2. ASSUME NEW i \in At(path, c, {"output"}), Has(path, c, {"call"}),
             ~Has(path, c, {"answer", "reject"})
      PROVE  path[i].v = "own" /\ hands[c] # <<>>
  BY <1>1, <1>2 DEF SaidInv, Tells, OutputInv, Has, At
<1> QED BY <1>1, <1>2 DEF SaidInv, Tells, RejectInv, RefusedFirst

-----------------------------------------------------------------------------
(* What the tools are given.                                               *)

\* Two ways a call stands in a run that differ in its output alone.
StandsAs(h, g) ==
    /\ g.args = h.args /\ g.key = h.key /\ g.def = h.def
    /\ g.hand = h.hand /\ g.appr = h.appr

\* What a step of a run may do with a call: nothing to what its tool has of
\* it, ...
Stays(d) ==
    /\ hands'[d] = hands[d] /\ StandsAs(how[d], how'[d])
    /\ how'[d] = how[d] \/ st'[d] = "back"
    /\ \/ st'[d] = st[d] \/ st'[d] = "gone"
       \/ st[d] = "todo" /\ st'[d] = "owed"
       \/ st[d] = "handed" /\ st'[d] = "back"
       \/ st[d] = "ready" /\ st'[d] = "stopped"
       \/ st[d] \in {"refusing", "deferring", "back", "stopped", "ready"} /\ st'[d] = "over"

\* ... make it, ...
IsMade(d) ==
    /\ hands'[d] = hands[d] /\ st[d] = "new" /\ st'[d] \in {"todo", "owed"}
    /\ how'[d] = HowKeyed(how[d], run)

\* ... decide it, ...
IsDecided(d) ==
    /\ hands'[d] = hands[d] /\ st[d] = "todo"
    /\ how'[d].def \in BOOLEAN
    /\ how'[d].args \in budget.args /\ (~Consulted(d) => how'[d].args = how[d].args)
    /\ how'[d] = HowWith(how[d], how'[d].args, how'[d].def, how'[d].out)
    /\ st'[d] \in IF how'[d].def THEN {"deferring"} ELSE {"ready", "refusing"}
    /\ st'[d] = "ready" \/ Consulted(d)

\* ... or give it to its tool.
IsGiven(d) ==
    /\ st[d] = "ready" /\ st'[d] = "handed" /\ how'[d] = HowGiven(how[d])
    /\ \E at : hands'[d] = Append(hands[d], [key |-> how[d].key, args |-> how[d].args,
                                             at |-> at])

RunStep(d) ==
    /\ pend'[d] = pend[d]
    /\ phase' = "idle" => phase = "idle" /\ how'[d] = how[d]
    /\ Stays(d) \/ IsMade(d) \/ IsDecided(d) \/ IsGiven(d)

\* An action of a run.
InRun ==
    \/ UNCHANGED vars \/ Execute \/ Abort \/ Drained \/ OutsDone
    \/ \E c \in Calls :
          \/ CallItem(c) \/ Dispatch(c) \/ ToolReturns(c) \/ ToolEnd(c)
          \/ AppendOut(c) \/ Ask(c) \/ Told(c)
          \/ \E d \in budget.decisions, args \in budget.args :
                ToolStart(c, d, args)

\* The others change the run.
LEMMA NextIs ==
    [Next]_vars => \/ InRun \/ RunStart \/ Resume \/ RunEnd
                   \/ CrashAndResume \/ Rewinds
BY DEF Next, InRun, Rewinds

\* They do no more than that.
LEMMA InRunIs ==
    ASSUME RecordInv, TrueInv, InRun, NEW d \in Calls
    PROVE  RunStep(d)
<1>0. DOMAIN st = Calls /\ DOMAIN how = Calls /\ DOMAIN hands = Calls /\ GivenInv(d)
      /\ how[d] \in HowType(how[d])
  BY DEF RecordInv, RunInv, TrueInv, GivenInv
<1>1. ASSUME pend' = pend, how' = how, hands' = hands, phase' = "idle" => phase = "idle",
             \/ st'[d] = st[d] \/ st'[d] = "gone"
             \/ st[d] = "todo" /\ st'[d] = "owed"
             \/ st[d] = "ready" /\ st'[d] = "stopped"
             \/ st[d] \in {"refusing", "deferring", "back", "stopped", "ready"} /\ st'[d] = "over"
      PROVE  RunStep(d)
  BY <1>1 DEF RunStep, Stays, StandsAs
<1>2. CASE UNCHANGED vars BY <1>1, <1>2 DEF vars, agent
<1>3. CASE Execute \/ Abort \/ Drained \/ OutsDone
  <2>1. CASE Execute BY <1>1, <2>1 DEF Execute
  <2>2. CASE Abort BY <1>1, <2>2 DEF Abort
  <2>3. CASE Drained BY <1>1, <2>3 DEF Drained
  <2>4. CASE OutsDone BY <1>1, <2>4 DEF OutsDone
  <2> QED BY <1>3, <2>1, <2>2, <2>3, <2>4
<1>4. ASSUME NEW c \in Calls, CallItem(c) PROVE RunStep(d)
  <2>1. /\ pend' = pend /\ hands' = hands /\ phase = "items" /\ phase' # "idle"
        /\ st[c] = "new" /\ how' = [how EXCEPT ![c].key = run]
        /\ \/ st' = [st EXCEPT ![c] = "todo"]
           \/ st' = [x \in Calls |-> IF x = c \/ st[x] = "todo" THEN "owed" ELSE "gone"]
    BY <1>4 DEF CallItem
  <2>2. CASE d = c BY <1>0, <2>1, <2>2 DEF RunStep, IsMade, HowKeyed
  <2>3. CASE d # c BY <1>0, <2>1, <2>3 DEF RunStep, Stays, StandsAs
  <2> QED BY <2>2, <2>3
<1>5. ASSUME NEW c \in Calls, Dispatch(c) PROVE RunStep(d)
  <2>1. pend' = pend /\ phase' = phase /\ phase = "work" /\ st[c] = "ready"
    BY <1>5 DEF Dispatch
  <2>2. CASE how' = how /\ hands' = hands /\ st' = [st EXCEPT ![c] = "stopped"]
    BY <1>0, <1>1, <2>1, <2>2
  <2>3. ASSUME NEW at, st' = [st EXCEPT ![c] = "handed"], how' = [how EXCEPT ![c].hand = TRUE],
               hands' = [hands EXCEPT ![c] = Append(@, [key |-> how[c].key,
                                                         args |-> how[c].args, at |-> at])]
        PROVE  RunStep(d)
    <3>1. CASE d = c
      BY <1>0, <2>1, <2>3, <3>1 DEF RunStep, IsGiven, HowGiven
    <3>2. CASE d # c
      BY <1>0, <2>1, <2>3, <3>2 DEF RunStep, Stays, StandsAs
    <3> QED BY <3>1, <3>2
  <2> QED BY <1>5, <2>2, <2>3 DEF Dispatch
<1>6. ASSUME NEW c \in Calls, ToolReturns(c) PROVE RunStep(d)
  <2>1. /\ pend' = pend /\ phase' = phase /\ hands' = hands /\ st[c] = "handed"
        /\ st' = [st EXCEPT ![c] = "back"]
        /\ how' = how \/ how' = [how EXCEPT ![c].out = "own"]
    BY <1>6 DEF ToolReturns
  <2>2. CASE d = c
    <3>1. phase = "work" BY <1>0, <2>1, <2>2 DEF GivenInv
    <3>2. StandsAs(how[d], how'[d])
      <4>1. CASE how' = how BY <4>1 DEF StandsAs
      <4>2. CASE how' = [how EXCEPT ![c].out = "own"]
        <5>1. how'[d] = HowWith(how[d], how[d].args, how[d].def, "own") /\ how[d].def \in BOOLEAN
          BY <1>0, <2>2, <4>2 DEF HowWith, HowType
        <5> QED BY <1>0, <5>1, HowDecided DEF StandsAs
      <4> QED BY <2>1, <4>1, <4>2
    <3> QED BY <1>0, <2>1, <2>2, <3>1, <3>2 DEF RunStep, Stays
  <2>3. CASE d # c
    <3>1. how'[d] = how[d] /\ st'[d] = st[d] BY <1>0, <2>1, <2>3
    <3> QED BY <2>1, <3>1 DEF RunStep, Stays, StandsAs
  <2> QED BY <2>2, <2>3
<1>7. ASSUME NEW c \in Calls, ToolEnd(c) PROVE RunStep(d)
  <2>1. /\ pend' = pend /\ phase' = phase /\ hands' = hands /\ how' = how
        /\ st' = [st EXCEPT ![c] = "over"]
        /\ st[c] \in {"refusing", "deferring", "back", "stopped", "ready"}
    BY <1>7 DEF ToolEnd
  <2> QED BY <1>0, <1>1, <2>1
<1>8. ASSUME NEW c \in Calls, AppendOut(c) PROVE RunStep(d)
  <2>1. /\ pend' = pend /\ hands' = hands /\ how' = how
        /\ phase' = phase \/ phase' = "ending"
        /\ st' = st \/ st' = [st EXCEPT ![c] = "gone"]
    BY <1>8 DEF AppendOut
  <2> QED BY <1>0, <1>1, <2>1
<1>9. ASSUME NEW c \in Calls, Ask(c) \/ Told(c) PROVE RunStep(d)
  BY <1>1, <1>9 DEF Ask, Told
<1>10. ASSUME NEW c \in Calls, NEW k \in budget.decisions, NEW args \in budget.args,
              ToolStart(c, k, args)
       PROVE  RunStep(d)
  <2>1. /\ pend' = pend /\ hands' = hands /\ phase = "start" /\ phase' = phase
        /\ st[c] = "todo" /\ (~Consulted(c) => k \in {"none", "reason"} /\ args = how[c].args)
    BY <1>10 DEF ToolStart
  <2>2. PICK o, x :
          /\ how' = [how EXCEPT ![c].args = args, ![c].def = (k = "defer"), ![c].out = o]
          /\ st' = [st EXCEPT ![c] = x]
          /\ x = (CASE k = "block" \/ k = "refuse" -> "refusing"
                  [] k = "defer" -> "deferring"
                  [] OTHER -> "ready")
    BY <1>10 DEF ToolStart
  <2>3. CASE d = c
    <3> DEFINE f == (k = "defer")
    <3>1. how'[d] = HowWith(how[d], args, f, o) /\ f \in BOOLEAN /\ st'[d] = x
      BY <1>0, <2>2, <2>3 DEF HowWith
    <3>2. x \in IF f THEN {"deferring"} ELSE {"ready", "refusing"}
      BY <2>2
    <3>3. x = "ready" \/ Consulted(d) BY <2>1, <2>2, <2>3
    <3> HIDE DEF f
    <3>4. IsDecided(d)
      <4>1. how'[d].args = args /\ how'[d].def = f /\ how'[d].out = o
        BY <1>0, <3>1, HowDecided
      <4>2. hands'[d] = hands[d] /\ st[d] = "todo" /\ (~Consulted(d) => args = how[d].args)
        BY <2>1, <2>3
      <4> QED BY <3>1, <3>2, <3>3, <4>1, <4>2 DEF IsDecided
    <3> QED BY <2>1, <3>4 DEF RunStep
  <2>4. CASE d # c
    <3>1. how'[d] = how[d] /\ st'[d] = st[d] BY <1>0, <2>2, <2>4
    <3> QED BY <2>1, <3>1 DEF RunStep, Stays, StandsAs
  <2> QED BY <2>3, <2>4
<1> QED BY <1>2, <1>3, <1>4, <1>5, <1>6, <1>7, <1>8, <1>9, <1>10 DEF InRun

\* A call that its tool was given is pending as one that may have run, as
\* done, or as refused on this branch, until it is given again, and it is approved by the rule for those.
OnceInv(c) ==
    LET h == how[c] p == pend[c] IN
    /\ st[c] # "gone" /\ ~h.hand /\ hands[c] # <<>> =>
          MayHaveRun(p) \/ p.why \in {"answered", "returned", "rejected"}
    /\ h.appr => /\ p.why \in {"undispatched", "aborted", "deferred"}
                 /\ MayHaveRun(p) => RunAgain(c)
    /\ st[c] \in {"todo", "ready"} => h.appr \/ p.why = "none"
    /\ st[c] = "new" => p = NotPending /\ h = NoWay
    /\ h.hand => st[c] \in {"handed", "back", "over", "gone"}
    /\ h.def => hands[c] = <<>> /\ st[c] \notin {"todo", "ready"}
    /\ phase = "idle" => h = NoWay
    /\ Replay[c] = "never" => Len(hands[c]) <= 1

\* A call that is ready for its tool was not given to it, or may be again.
LEMMA ReadyAgain ==
    ASSUME TrueInv, PendInv, NEW c \in Calls, OnceInv(c), st[c] \in {"todo", "ready"},
           hands[c] # <<>>
    PROVE  MayHaveRun(pend[c]) /\ how[c].appr /\ RunAgain(c) /\ ~Consulted(c)
<1>2. ~how[c].hand BY DEF OnceInv
<1>3. MayHaveRun(pend[c]) \/ pend[c].why \in {"answered", "returned", "rejected"}
  BY <1>2 DEF OnceInv
<1>4. how[c].appr BY <1>3 DEF OnceInv, MayHaveRun
<1>5. pend[c].why \in {"undispatched", "aborted", "deferred"} /\ (MayHaveRun(pend[c]) => RunAgain(c))
  BY <1>4 DEF OnceInv
<1>6. MayHaveRun(pend[c]) BY <1>3, <1>5
<1> QED BY <1>4, <1>5, <1>6 DEF Consulted, MayHaveRun

\* Within a run.
LEMMA OnceInRun ==
    ASSUME TrueInv, PendInv, NEW c \in Calls, OnceInv(c), RunStep(c)
    PROVE  OnceInv(c)'
<1>0. /\ how[c] \in HowType(how[c]) /\ IsPath(hands[c]) /\ (st[c] = "new" => hands[c] = <<>>)
      /\ how[c].hand \in BOOLEAN /\ how[c].appr \in BOOLEAN /\ how[c].def \in BOOLEAN
  BY DEF TrueInv, GivenInv, HowType
<1>1. /\ pend'[c] = pend[c] /\ MayHaveRun(pend'[c]) = MayHaveRun(pend[c])
      /\ RunAgain(c)' = RunAgain(c)
      /\ phase' = "idle" => phase = "idle" /\ how'[c] = how[c]
  BY DEF RunStep, RunAgain
<1>2. CASE Stays(c)
  <2>1. /\ hands'[c] = hands[c] /\ how'[c].hand = how[c].hand /\ how'[c].appr = how[c].appr
        /\ how'[c].def = how[c].def
    BY <1>2 DEF Stays, StandsAs
  <2>2. /\ st'[c] # "gone" => st[c] # "gone"
        /\ st'[c] \in {"todo", "ready"} => st[c] \in {"todo", "ready"}
        /\ st'[c] = "new" => st[c] = "new"
        /\ st[c] \in {"handed", "back", "over", "gone"} =>
              st'[c] \in {"handed", "back", "over", "gone"}
    BY <1>2 DEF Stays
  <2>3. st'[c] = "new" => how'[c] = how[c] BY <1>2 DEF Stays
  <2> QED BY <1>1, <2>1, <2>2, <2>3 DEF OnceInv
<1>3. CASE IsMade(c)
  <2>1. /\ hands'[c] = <<>> /\ st'[c] \in {"todo", "owed"} /\ pend[c] = NotPending
        /\ how[c] = NoWay /\ how'[c] = HowKeyed(NoWay, run)
    BY <1>0, <1>3 DEF IsMade, OnceInv
  <2>2. ~how'[c].appr /\ ~how'[c].hand /\ ~how'[c].def
    BY <2>1 DEF HowKeyed, NoWay
  <2>3. Len(hands'[c]) <= 1 /\ pend[c].why = "none"
    BY <2>1 DEF NotPending
  <2>4. phase' = "idle" => how'[c] = NoWay BY <1>1, <2>1
  <2> QED BY <1>1, <2>1, <2>2, <2>3, <2>4 DEF OnceInv
<1>4. CASE IsDecided(c)
  <2>1. /\ hands'[c] = hands[c] /\ st[c] = "todo" /\ how'[c].def \in BOOLEAN
        /\ how'[c] = HowWith(how[c], how'[c].args, how'[c].def, how'[c].out)
        /\ st'[c] \in {"ready", "refusing", "deferring"}
        /\ how'[c].def => st'[c] = "deferring" /\ Consulted(c)
    BY <1>4 DEF IsDecided
  <2>2. how'[c].hand = how[c].hand /\ how'[c].appr = how[c].appr
    BY <1>0, <2>1, HowDecided
  <2>3. how'[c].def => hands[c] = <<>> BY <2>1, ReadyAgain
  <2>4. phase' = "idle" => how'[c] = NoWay BY <1>1 DEF OnceInv
  <2> QED BY <1>1, <2>1, <2>2, <2>3, <2>4 DEF OnceInv
<1>5. CASE IsGiven(c)
  <2>1. /\ st[c] = "ready" /\ st'[c] = "handed" /\ how'[c] = HowGiven(how[c])
        /\ \E x : hands'[c] = Append(hands[c], x)
    BY <1>5 DEF IsGiven
  <2>2. how'[c].hand = TRUE /\ how'[c].appr = how[c].appr /\ how'[c].def = how[c].def
    BY <1>0, <2>1, HowHanded
  <2>3. ~how'[c].def /\ phase' # "idle"
    <3>1. ~how[c].def /\ ~how[c].hand BY <2>1 DEF OnceInv
    <3> QED BY <1>0, <1>1, <2>2, <3>1
  <2>4. Replay[c] = "never" => Len(hands'[c]) <= 1
    <3>1. Replay[c] = "never" => hands[c] = <<>>
      BY <2>1, ReadyAgain DEF RunAgain
    <3>2. hands[c] = <<>> => Len(hands'[c]) <= 1 BY <2>1
    <3> QED BY <3>1, <3>2
  <2> QED BY <1>1, <2>1, <2>2, <2>3, <2>4 DEF OnceInv
<1> QED BY <1>2, <1>3, <1>4, <1>5 DEF RunStep

\* Where a run begins or ends.
LEMMA OnceRun ==
    ASSUME TrueInv, PendInv, NEW c \in Calls, OnceInv(c), RunStart \/ Resume \/ RunEnd
    PROVE  OnceInv(c)'
<1>0. /\ how[c] \in HowType(how[c]) /\ pend[c] \in PendType(pend[c])
      /\ how[c].hand \in BOOLEAN /\ how[c].appr \in BOOLEAN /\ how[c].def \in BOOLEAN
      /\ pend[c].disp \in BOOLEAN /\ DOMAIN pend = Calls
      /\ (st[c] = "new" => hands[c] = <<>>)
  BY DEF TrueInv, GivenInv, HowType, PendInv, PendType
<1>1. CASE RunStart BY <1>1 DEF RunStart, OnceInv, RunAgain
<1>2. CASE Resume
  <2>1. /\ pend' = pend /\ hands' = hands /\ phase = "idle" /\ phase' # "idle" /\ how[c] = NoWay
        /\ RunAgain(c)' = RunAgain(c)
    BY <1>2 DEF Resume, OnceInv, RunAgain
  <2>2. ~how[c].hand BY <2>1 DEF NoWay
  <2>3. CASE st'[c] = st[c] /\ how'[c] = NoWay BY <2>1, <2>3 DEF OnceInv
  <2>4. ASSUME NEW out, st[c] = "owed", st'[c] = "answer", how'[c] = Given(out) PROVE OnceInv(c)'
    <3>1. ~how'[c].appr /\ ~how'[c].hand /\ ~how'[c].def
      BY <2>4, HowAnswered
    <3> QED BY <2>1, <2>2, <2>4, <3>1 DEF OnceInv
  <2>5. ASSUME NEW a, NEW k, st[c] = "owed", st'[c] = "todo",
               pend[c].why \in {"undispatched", "aborted", "deferred"},
               how'[c] = HowKeyed(Approval(c, a), k), MayHaveRun(pend[c]) => RunAgain(c)
        PROVE  OnceInv(c)'
    <3>1. how'[c].appr /\ ~how'[c].hand /\ ~how'[c].def
      BY <2>5, HowAnswered, HowKeyedIs
    <3> QED BY <2>1, <2>2, <2>5, <3>1 DEF OnceInv
  <2> QED BY <1>2, <2>3, <2>4, <2>5, ResumeIs
<1>3. CASE RunEnd
  <2>1. /\ hands' = hands /\ how'[c] = NoWay
        /\ st'[c] = IF st[c] \in {"new", "gone"} THEN "gone" ELSE "owed"
        /\ pend'[c] = IF st[c] \in {"new", "gone"} THEN NotPending ELSE PendingOf(c)
    BY <1>3 DEF RunEnd
  <2>2. ASSUME st[c] \notin {"new", "gone"}, hands[c] # <<>>
        PROVE  MayHaveRun(PendingOf(c)) \/ PendingOf(c).why \in {"answered", "returned", "rejected"}
    <3> DEFINE h == how[c]
               p == pend[c]
    <3>1. ~h.def BY <2>2 DEF OnceInv
    <3>2. CASE h.hand
      BY <3>1, <3>2 DEF PendingOf, MayHaveRun, NotPending
    <3>3. CASE ~h.hand
      <4>1. MayHaveRun(p) \/ p.why \in {"answered", "returned", "rejected"}
        BY <2>2, <3>3 DEF OnceInv
      <4>2. CASE MayHaveRun(p)
        <5>1. PendingOf(c) = IF p.why = "deferred" /\ h.appr
                             THEN [p EXCEPT !.why = "aborted", !.disp = FALSE] ELSE p
          BY <3>1, <3>3, <4>2 DEF PendingOf
        <5>2. [p EXCEPT !.why = "aborted", !.disp = FALSE].why = "aborted"
          BY <1>0 DEF PendType
        <5> HIDE DEF p
        <5> QED BY <4>2, <5>1, <5>2 DEF MayHaveRun
      <4>3. CASE ~MayHaveRun(p)
        <5>1. p.why \in {"answered", "returned", "rejected"} /\ ~h.appr
          BY <4>1, <4>3 DEF OnceInv
        <5> QED BY <3>1, <3>3, <4>3, <5>1 DEF PendingOf
      <4> QED BY <4>2, <4>3
    <3> QED BY <3>2, <3>3
  <2>3. ~NoWay.appr /\ ~NoWay.hand /\ ~NoWay.def BY DEF NoWay
  <2> QED BY <2>1, <2>2, <2>3 DEF OnceInv
<1> QED BY <1>1, <1>2, <1>3

\* After a crash or a rewind.
LEMMA OnceSeeded ==
    ASSUME NEW c \in Calls, OnceInv(c), Seeded(path', left'), hands' = hands, PendingIsSound'
    PROVE  OnceInv(c)'
<1>1. /\ phase' = "idle" /\ how'[c] = NoWay
      /\ st'[c] = IF c \in Unanswered(path') THEN "owed" ELSE "gone"
      /\ pend'[c] = IF c \in Unanswered(path') THEN PendingCall(path', left', c) ELSE NotPending
  BY DEF Seeded
<1>2. c \in Unanswered(path') /\ hands'[c] # <<>> =>
         MayHaveRun(PendingCall(path', left', c))
         \/ PendingCall(path', left', c).why \in {"answered", "returned", "rejected"}
  BY DEF PendingIsSound
<1>3. ~NoWay.appr /\ ~NoWay.hand /\ ~NoWay.def BY DEF NoWay
<1> QED BY <1>1, <1>2, <1>3 DEF OnceInv

-----------------------------------------------------------------------------
(* What an action of a run writes.                                         *)

\* Path p2 is p with entries of branch b after it.
Longer(p, p2, b) ==
    /\ IsPath(p) /\ IsPath(p2) /\ Len(p) <= Len(p2)
    /\ \A i \in DOMAIN p : p2[i] = p[i]
    /\ \A i \in DOMAIN p2 : i > Len(p) => p2[i].b = b

\* Their places.
LEMMA LongerIs ==
    ASSUME NEW p, NEW p2, NEW b, Longer(p, p2, b)
    PROVE  /\ Len(p) \in Nat /\ Len(p2) \in Nat /\ DOMAIN p = 1..Len(p) /\ DOMAIN p2 = 1..Len(p2)
           /\ \A c, K : At(p, c, K) = {i \in At(p2, c, K) : i <= Len(p)}
<1>1. Len(p) \in Nat /\ Len(p2) \in Nat /\ DOMAIN p = 1..Len(p) /\ DOMAIN p2 = 1..Len(p2)
  BY DEF Longer, IsPath
<1>2. \A i \in 1..Len(p) : i \in 1..Len(p2) /\ p2[i] = p[i]
  BY <1>1 DEF Longer
<1>3. ASSUME NEW c, NEW K PROVE At(p, c, K) = {i \in At(p2, c, K) : i <= Len(p)}
  BY <1>1, <1>2 DEF At
<1> QED BY <1>1, <1>3

\* Any sequence is a path.
LEMMA SeqIsPath ==
    ASSUME NEW T, NEW p \in Seq(T)
    PROVE  IsPath(p)
<1> DEFINE S == {p[i] : i \in DOMAIN p}
<1>1. Len(p) \in Nat /\ DOMAIN p = 1..Len(p) /\ p = [i \in 1..Len(p) |-> p[i]]
  OBVIOUS
<1>2. \A i \in 1..Len(p) : p[i] \in S BY <1>1
<1> HIDE DEF S
<1>3. p \in Seq(S) BY <1>1, <1>2
<1> QED BY <1>3 DEF IsPath, S

\* The path with the first n steps of a handler.
LEMMA AfterLonger ==
    ASSUME IsPath(path), NEW steps, IsPath(steps), NEW n \in 0..Len(steps),
           NEW b, \A i \in DOMAIN steps : steps[i].e.b = b
    PROVE  /\ Longer(path, After(steps, n), b) /\ Len(After(steps, n)) = Len(path) + n
           /\ \A i \in 1..n : After(steps, n)[Len(path) + i] = steps[i].e
<1> DEFINE q == Entries(steps)
           T == {q[i] : i \in DOMAIN q} \cup {path[i] : i \in DOMAIN path}
           s == SubSeq(q, 1, n)
           p2 == path \o s
<1>1. /\ Len(steps) \in Nat /\ DOMAIN steps = 1..Len(steps) /\ n \in Nat /\ n <= Len(steps)
      /\ q = [i \in 1..Len(steps) |-> steps[i].e]
  BY DEF Entries, IsPath
<1>2. q \in [1..Len(steps) -> T] /\ \A i \in 1..Len(steps) : q[i] = steps[i].e
  BY <1>1
<1>3. path \in Seq(T) /\ Len(path) \in Nat /\ DOMAIN path = 1..Len(path)
  BY DEF IsPath
<1> HIDE DEF q, T
<1>4. q \in Seq(T) /\ Len(q) = Len(steps) BY <1>1, <1>2
<1>5. /\ s \in Seq(T) /\ Len(s) = n /\ \A i \in 1..n : s[i] = q[i]
  <2>1. CASE n = 0 BY <2>1
  <2>2. CASE n # 0
    <3>1. 1 \in 1..(Len(q) + 1) /\ n \in (1 - 1)..Len(q)
      BY <1>1, <1>4, <2>2
    <3> QED BY <1>1, <1>4, <3>1, SubSeqProperties
  <2> QED BY <2>1, <2>2
<1> HIDE DEF s
<1>6. /\ p2 \in Seq(T) /\ Len(p2) = Len(path) + n
      /\ \A i \in 1..(Len(path) + n) : p2[i] = IF i <= Len(path) THEN path[i] ELSE s[i - Len(path)]
  BY <1>1, <1>3, <1>5, ConcatProperties
<1> HIDE DEF p2
<1>7. DOMAIN p2 = 1..(Len(path) + n) /\ IsPath(p2)
  <2>1. DOMAIN p2 = 1..Len(p2) BY <1>6
  <2>2. IsPath(p2) BY <1>6, SeqIsPath
  <2> QED BY <1>6, <2>1, <2>2
<1>8. ASSUME NEW i \in 1..n PROVE p2[Len(path) + i] = steps[i].e
  <2>1. Len(path) + i \in 1..(Len(path) + n) /\ ~(Len(path) + i <= Len(path))
        /\ (Len(path) + i) - Len(path) = i
    BY <1>1, <1>3
  <2> DEFINE j == Len(path) + i
  <2>2. j \in 1..(Len(path) + n) /\ ~(j <= Len(path)) /\ j - Len(path) = i /\ i \in 1..Len(steps)
    BY <1>1, <1>3, <2>1
  <2> HIDE DEF j
  <2>3. p2[j] = s[i] BY <1>6, <2>2
  <2>4. s[i] = steps[i].e BY <1>2, <1>5, <2>2
  <2> QED BY <2>3, <2>4 DEF j
<1>9. ASSUME NEW i \in DOMAIN p2, i > Len(path) PROVE p2[i].b = b
  <2>1. i - Len(path) \in 1..n /\ Len(path) + (i - Len(path)) = i
    BY <1>1, <1>3, <1>7, <1>9
  <2> QED BY <1>1, <1>8, <2>1
<1>10. Longer(path, p2, b)
  <2>1. Len(path) <= Len(p2) /\ \A i \in DOMAIN path : p2[i] = path[i]
    BY <1>1, <1>3, <1>6
  <2> QED BY <1>7, <1>9, <2>1 DEF Longer
<1> QED BY <1>6, <1>8, <1>10 DEF p2, After, s, q

\* A handler's write, with the number of its entries that are written.
LEMMA HandlerLog ==
    ASSUME IsPath(path), DOMAIN rec = Calls, NEW c \in Calls, NEW r0, NEW steps, IsPath(steps),
           \A i \in DOMAIN steps : steps[i].e.b = Cardinality(left),
           Taken(c, r0, steps) \/ Failed(c, r0, steps)
    PROVE  \E n \in 0..Len(steps) :
              /\ Longer(path, path', Cardinality(left)) /\ Len(path') = Len(path) + n
              /\ \A i \in 1..n : path'[Len(path) + i] = steps[i].e
              /\ left' = left /\ run' = run
              /\ rec'[c] = (IF n = 0 THEN r0 ELSE steps[n].r)
              /\ \A d \in Calls \ {c} : rec'[d] = rec[d]
              /\ n # Len(steps) => budget.fails > 0 /\ ~Taken(c, r0, steps)
<1>1. Len(steps) \in Nat BY DEF IsPath
<1>2. \E n \in 0..Len(steps) :
         Wrote(c, r0, steps, n) /\ (n # Len(steps) => budget.fails > 0 /\ ~Taken(c, r0, steps))
  <2>1. 0..(Len(steps) - 1) \subseteq 0..Len(steps) /\ Len(steps) \in 0..Len(steps)
    BY <1>1
  <2>2. CASE Taken(c, r0, steps) BY <1>1, <2>1, <2>2, HandlerWrote
  <2>3. CASE ~Taken(c, r0, steps) BY <1>1, <2>1, <2>3, HandlerWrote
  <2> QED BY <2>2, <2>3
<1>3. PICK n \in 0..Len(steps) :
         Wrote(c, r0, steps, n) /\ (n # Len(steps) => budget.fails > 0 /\ ~Taken(c, r0, steps))
  BY <1>2
<1>4. path' = After(steps, n) /\ left' = left /\ run' = run
      /\ rec'[c] = (IF n = 0 THEN r0 ELSE steps[n].r)
      /\ \A d \in Calls \ {c} : rec'[d] = rec[d]
  BY <1>3 DEF Wrote
<1>5. /\ Longer(path, path', Cardinality(left)) /\ Len(path') = Len(path) + n
      /\ \A i \in 1..n : path'[Len(path) + i] = steps[i].e
  BY <1>4, AfterLonger
<1> QED BY <1>3, <1>4, <1>5

\* What a step of a run may write of a call: no arguments, no dispatch and
\* no withdrawal, ...
Quiet(d) ==
    /\ \A i \in DOMAIN path' : i > Len(path) /\ path'[i].c = d =>
          /\ path'[i].k \notin {"dispatch", "withdraw"}
          /\ path'[i].k \in {"hold", "proceed"} => path'[i].v = 2
    /\ rec'[d].decided = rec[d].decided
    /\ rec'[d].known /\ ~rec'[d].answered =>
          (rec[d].known /\ ~rec[d].answered) \/ st[d] = "new"
    /\ Mine(rec'[d], run) /\ st'[d] = "stopped" => Mine(rec[d], run) /\ st[d] = "stopped"

\* ... new arguments, ...
CarriesOver(d) ==
    /\ st[d] = "todo" /\ st'[d] # "stopped" /\ rec[d].known /\ ~rec[d].answered
    /\ how'[d].args \in budget.args /\ Carries(rec[d], how'[d].args)
    /\ rec'[d].decided = how'[d].args
    /\ Len(path') = Len(path) + 1
    /\ LET e == path'[Len(path')] IN
          e.c = d /\ e.k \in {"hold", "proceed"} /\ e.v = how'[d].args

\* ... which may fail to be written, ...
LosesArgs(d) ==
    /\ st[d] = "todo" /\ budget.fails > 0 /\ how'[d].args \in budget.args
    /\ Carries(rec[d], how'[d].args) /\ st'[d] # "stopped"
    /\ \A i \in DOMAIN path' : ~(i > Len(path))

\* ... a dispatch, ...
HandsOver(d) ==
    /\ st[d] = "ready" /\ failing = FALSE /\ st'[d] \in {"handed", "stopped"}
    /\ rec[d].known /\ ~rec[d].answered /\ ~rec[d].rejected /\ ~rec[d].ended
    /\ rec'[d].decided = rec[d].decided
    /\ Len(path') > Len(path) /\ path'[Len(path')] = Entry("dispatch", d, how[d].key)
    /\ \A i \in DOMAIN path' : i > Len(path) /\ i # Len(path') =>
          path'[i].k = "proceed" /\ path'[i].v = 2
    /\ st'[d] = "handed" =>
          hands'[d] = Append(hands[d], [key |-> how[d].key, args |-> how[d].args,
                                        at |-> <<Cardinality(left), Len(path')>>])
    /\ st'[d] = "stopped" => budget.refusals > 0

\* ... or its withdrawal.
Withdraws(d) ==
    /\ st[d] = "stopped" /\ st'[d] = "over" /\ Mine(rec[d], run)
    /\ rec[d].known /\ ~rec[d].answered /\ rec'[d].decided = rec[d].decided
    /\ Len(path') = Len(path) + 1 /\ path'[Len(path')] = Entry("withdraw", d, 0)

\* Why a call is ready for its tool.
GetsReady(d) ==
    st'[d] = "ready" /\ failing' = FALSE /\ rec'[d].known /\ ~rec'[d].rejected /\ ~rec'[d].ended =>
       \/ /\ st[d] = "ready" /\ failing = FALSE /\ rec'[d] = rec[d] /\ Quiet(d)
          /\ how'[d].args = how[d].args
       \/ /\ st[d] = "todo" /\ rec[d].known /\ ~rec[d].answered
          /\ CarriesOver(d) \/ (Quiet(d) /\ ~Carries(rec[d], how'[d].args))

LogStep ==
    /\ left' = left /\ run' = run /\ Longer(path, path', Cardinality(left))
    /\ \A d \in Calls :
          /\ Quiet(d) \/ CarriesOver(d) \/ LosesArgs(d) \/ HandsOver(d) \/ Withdraws(d)
          /\ GetsReady(d)
          /\ IsGiven(d) => HandsOver(d)

\* A call that the step is not about.
LEMMA OtherQuiet ==
    ASSUME NEW d \in Calls, rec'[d] = rec[d], how'[d].args = how[d].args,
           st'[d] \in {"stopped", "ready", "handed"} => st'[d] = st[d],
           failing' = FALSE => failing = FALSE,
           \A i \in DOMAIN path' : i > Len(path) =>
              path'[i].c # d \/ path'[i].k \in {"ask", "told"}
    PROVE  Quiet(d) /\ GetsReady(d) /\ ~IsGiven(d)
<1>1. Quiet(d) BY DEF Quiet
<1>2. ~IsGiven(d) BY DEF IsGiven
<1> QED BY <1>1, <1>2 DEF GetsReady

\* The steps that write nothing of a call's record.
LEMMA AgentLog ==
    ASSUME RecordInv, TrueInv,
           \/ UNCHANGED vars \/ Execute \/ Abort \/ Drained \/ OutsDone
           \/ \E c \in Calls : ToolReturns(c) \/ Ask(c) \/ Told(c)
    PROVE  LogStep
<1>0. /\ BranchInv(path, left) /\ IsPath(path) /\ DOMAIN st = Calls /\ DOMAIN how = Calls
      /\ failing \in BOOLEAN
  BY LogOf DEF RecordInv, RunInv, BranchInv, TrueInv
<1>1. /\ left' = left /\ run' = run /\ rec' = rec /\ (failing' = FALSE => failing = FALSE)
      /\ \/ path' = path
         \/ \E e : path' = Append(path, e) /\ e.k \in {"ask", "told"} /\ e.b = Cardinality(left)
  <2>1. CASE UNCHANGED vars BY <2>1 DEF vars, log, writer, agent
  <2>2. CASE Execute \/ Abort \/ Drained \/ OutsDone \/ \E c \in Calls : ToolReturns(c)
    BY <1>0, <2>2 DEF Execute, Abort, Drained, OutsDone, ToolReturns, log, writer
  <2>3. ASSUME NEW c \in Calls, NEW k \in {"ask", "told"}, NEW v, Annotated(c, k, v)
        PROVE  /\ left' = left /\ run' = run /\ rec' = rec
               /\ \E e : path' = Append(path, e) /\ e.k \in {"ask", "told"} /\ e.b = Cardinality(left)
    BY <2>3, EntryIs DEF Annotated, writer
  <2>4. ASSUME NotWritten PROVE left' = left /\ run' = run /\ rec' = rec /\ path' = path
    BY <2>4 DEF NotWritten, log, writer
  <2>5. CASE \E c \in Calls : Ask(c) \/ Told(c)
    <3>1. failing' = failing BY <2>5 DEF Ask, Told
    <3> QED BY <2>3, <2>4, <2>5, <3>1 DEF Ask, Told
  <2> QED BY <2>1, <2>2, <2>5
<1>2. /\ Longer(path, path', Cardinality(left))
      /\ \A i \in DOMAIN path' : i > Len(path) => path'[i].k \in {"ask", "told"}
  <2>1. CASE path' = path BY <1>0, <2>1 DEF Longer, IsPath
  <2>2. ASSUME NEW e, path' = Append(path, e), e.k \in {"ask", "told"}, e.b = Cardinality(left)
        PROVE  /\ Longer(path, path', Cardinality(left))
               /\ \A i \in DOMAIN path' : i > Len(path) => path'[i].k \in {"ask", "told"}
    <3>1. Grown(path, e, path') BY <1>0, <2>2 DEF Grown
    <3>2. /\ IsPath(path') /\ Len(path) \in Nat /\ Len(path') = Len(path) + 1
          /\ DOMAIN path = 1..Len(path) /\ DOMAIN path' = 1..(Len(path) + 1)
          /\ \A i \in DOMAIN path : path'[i] = path[i]
          /\ path'[Len(path) + 1] = e
      BY <3>1, Grow
    <3>3. \A i \in DOMAIN path' : i > Len(path) => i = Len(path) + 1
      BY <3>2
    <3> QED BY <1>0, <2>2, <3>2, <3>3 DEF Longer
  <2> QED BY <1>1, <2>1, <2>2
<1>3. ASSUME NEW d \in Calls PROVE Quiet(d) /\ GetsReady(d) /\ ~IsGiven(d)
  <2>2. st'[d] \in {"stopped", "ready", "handed"} => st'[d] = st[d]
    <3>1. CASE UNCHANGED vars BY <3>1 DEF vars, agent
    <3>2. CASE Execute \/ Abort \/ Drained \/ OutsDone
      BY <3>2 DEF Execute, Abort, Drained, OutsDone
    <3>3. CASE \E c \in Calls : ToolReturns(c) \/ Ask(c) \/ Told(c)
      BY <1>0, <3>3 DEF ToolReturns, Ask, Told
    <3> QED BY <3>1, <3>2, <3>3
  <2>3. how'[d].args = how[d].args
    <3>1. how' = how \/ \E c \in Calls : how' = [how EXCEPT ![c].out = "own"]
      BY DEF Execute, Abort, Drained, OutsDone, ToolReturns, Ask, Told, vars, agent
    <3>2. how[d] \in HowType(how[d]) BY DEF TrueInv, GivenInv
    <3> QED BY <1>0, <3>1, <3>2 DEF HowType
  <2> QED BY <1>1, <1>2, <2>2, <2>3, OtherQuiet
<1> QED BY <1>1, <1>2, <1>3 DEF LogStep

\* What the first n steps of a handler's write do, which is about call c.
NewOf(c, r0, steps, n) ==
    /\ Longer(path, path', Cardinality(left)) /\ Len(path') = Len(path) + n
    /\ \A i \in DOMAIN path' : i > Len(path) =>
          i - Len(path) \in 1..n /\ path'[i] = steps[i - Len(path)].e
    /\ left' = left /\ run' = run
    /\ rec'[c] = (IF n = 0 THEN r0 ELSE steps[n].r)
    /\ n # Len(steps) => budget.fails > 0 /\ ~Taken(c, r0, steps)
    /\ \A d \in Calls \ {c} : Quiet(d) /\ GetsReady(d) /\ ~IsGiven(d)

\* The entries of a handler are on the branch, and of call c.
StepsOf(c, steps) ==
    /\ IsPath(steps)
    /\ \A i \in DOMAIN steps : steps[i].e.b = Cardinality(left) /\ steps[i].e.c = c

\* The step is about call c alone.
OthersStay(c) ==
    /\ failing' = FALSE => failing = FALSE
    /\ \A d \in Calls \ {c} :
          /\ how'[d].args = how[d].args
          /\ st'[d] \in {"stopped", "ready", "handed"} => st'[d] = st[d]

\* A handler's write, as the step of call c alone.
LEMMA HandlerNew ==
    ASSUME RecordInv, NEW c \in Calls, NEW r0, NEW steps, StepsOf(c, steps),
           Taken(c, r0, steps) \/ Failed(c, r0, steps), OthersStay(c)
    PROVE  \E n \in 0..Len(steps) : NewOf(c, r0, steps, n)
<1> USE DEF StepsOf, OthersStay
<1>0. IsPath(path) /\ DOMAIN rec = Calls BY LogOf DEF BranchInv
<1>1. PICK n \in 0..Len(steps) :
              /\ Longer(path, path', Cardinality(left)) /\ Len(path') = Len(path) + n
              /\ \A i \in 1..n : path'[Len(path) + i] = steps[i].e
              /\ left' = left /\ run' = run
              /\ rec'[c] = (IF n = 0 THEN r0 ELSE steps[n].r)
              /\ \A d \in Calls \ {c} : rec'[d] = rec[d]
              /\ n # Len(steps) => budget.fails > 0 /\ ~Taken(c, r0, steps)
  BY <1>0, HandlerLog
<1>2. Len(path) \in Nat /\ DOMAIN path' = 1..(Len(path) + n) /\ n \in Nat
      /\ Len(steps) \in Nat /\ DOMAIN steps = 1..Len(steps)
  BY <1>1, LongerIs DEF IsPath
<1>3. ASSUME NEW i \in DOMAIN path', i > Len(path)
      PROVE  i - Len(path) \in 1..n /\ path'[i] = steps[i - Len(path)].e
  <2>1. i - Len(path) \in 1..n /\ Len(path) + (i - Len(path)) = i
    BY <1>2, <1>3
  <2> QED BY <1>1, <2>1
<1>4. ASSUME NEW d \in Calls, d # c PROVE Quiet(d) /\ GetsReady(d) /\ ~IsGiven(d)
  <2>1. \A i \in DOMAIN path' : i > Len(path) => path'[i].c = c
    BY <1>2, <1>3
  <2> QED BY <1>1, <1>4, <2>1, OtherQuiet
<1>5. NewOf(c, r0, steps, n) BY <1>1, <1>3, <1>4 DEF NewOf
<1> QED BY <1>5

\* One step, and two.
LEMMA StepsAre ==
    ASSUME NEW steps
    PROVE  /\ steps = <<>> => IsPath(steps) /\ Len(steps) = 0 /\ DOMAIN steps = {}
           /\ \A e, r : steps = <<[e |-> e, r |-> r]>> =>
                 /\ IsPath(steps) /\ Len(steps) = 1 /\ DOMAIN steps = {1}
                 /\ steps[1].e = e /\ steps[1].r = r
           /\ \A e, r, e2, r2 : steps = <<[e |-> e, r |-> r], [e |-> e2, r |-> r2]>> =>
                 /\ IsPath(steps) /\ Len(steps) = 2 /\ DOMAIN steps = {1, 2}
                 /\ steps[1].e = e /\ steps[1].r = r /\ steps[2].e = e2 /\ steps[2].r = r2
<1>1. steps = <<>> => IsPath(steps) /\ Len(steps) = 0 /\ DOMAIN steps = {}
  BY DEF IsPath
<1>2. ASSUME NEW e, NEW r, steps = <<[e |-> e, r |-> r]>>
      PROVE  /\ IsPath(steps) /\ Len(steps) = 1 /\ DOMAIN steps = {1}
             /\ steps[1].e = e /\ steps[1].r = r
  BY <1>2 DEF IsPath
<1>3. ASSUME NEW e, NEW r, NEW e2, NEW r2, steps = <<[e |-> e, r |-> r], [e |-> e2, r |-> r2]>>
      PROVE  /\ IsPath(steps) /\ Len(steps) = 2 /\ DOMAIN steps = {1, 2}
             /\ steps[1].e = e /\ steps[1].r = r /\ steps[2].e = e2 /\ steps[2].r = r2
  BY <1>3 DEF IsPath
<1> QED BY <1>1, <1>2, <1>3

\* itemFrom, of a call.
LEMMA CallItemLog ==
    ASSUME RecordInv, TrueInv, NEW c \in Calls, CallItem(c) PROVE LogStep
<1> DEFINE r == [NoRecord EXCEPT !.known = TRUE]
           e == Entry("call", c, 0)
           steps == Step("call", c, 0, r)
<1>1. /\ Taken(c, rec[c], steps) \/ Failed(c, rec[c], steps)
      /\ failing' = failing /\ hands' = hands /\ how' = [how EXCEPT ![c].key = run]
      /\ st[c] = "new"
      /\ \/ st' = [st EXCEPT ![c] = "todo"]
         \/ st' = [x \in Calls |-> IF x = c \/ st[x] = "todo" THEN "owed" ELSE "gone"]
  BY DEF CallItem
<1>2. /\ e.b = Cardinality(left) /\ e.c = c /\ e.k = "call" /\ steps = <<[e |-> e, r |-> r]>>
      /\ DOMAIN st = Calls /\ DOMAIN how = Calls
  BY EntryIs DEF Step, RecordInv, RunInv, TrueInv
<1>3. rec[c] = NoRecord BY <1>1, LogOf DEF CallInv
<1>4. NoRecord.decided = 2 /\ ~NoRecord.dispatched /\ r.decided = 2 /\ ~r.dispatched
  BY DEF NoRecord
<1> HIDE DEF e, steps, r
<1>5. /\ IsPath(steps) /\ Len(steps) = 1 /\ DOMAIN steps = {1}
      /\ steps[1].e = e /\ steps[1].r = r
  BY ONLY <1>2, StepsAre
<1>6. \A d \in Calls \ {c} : how'[d].args = how[d].args
                             /\ (st'[d] \in {"stopped", "ready", "handed"} => st'[d] = st[d])
  BY <1>1, <1>2
<1>61. StepsOf(c, steps) /\ OthersStay(c)
  BY <1>1, <1>2, <1>5, <1>6 DEF StepsOf, OthersStay
<1>7. PICK n \in 0..Len(steps) : NewOf(c, rec[c], steps, n)
  BY <1>1, <1>61, HandlerNew
<1>71. n \in 0..1 BY ONLY <1>7, <1>5
<1>8. rec'[c].decided = 2 /\ ~rec'[c].dispatched
  BY <1>3, <1>4, <1>5, <1>7, <1>71 DEF NewOf
<1>9. \A i \in DOMAIN path' : i > Len(path) => path'[i].k = "call"
  <2>1. \A j \in 1..n : j = 1 BY <1>71
  <2> QED BY <1>2, <1>5, <1>7, <2>1 DEF NewOf
<1>10. Quiet(c) /\ st'[c] # "ready" /\ ~IsGiven(c)
  BY <1>1, <1>2, <1>3, <1>4, <1>8, <1>9 DEF Quiet, Mine, IsGiven
<1> QED BY <1>7, <1>10 DEF LogStep, GetsReady, NewOf

\* itemFrom, of an output, leaves a call's arguments alone.
LEMMA OutputKeepsArgs ==
    ASSUME NEW c, NEW r, NEW out, r \in RecordType(r)
    PROVE  LET steps == OutputSteps(c, r, out) IN
           \A i \in DOMAIN steps :
              /\ steps[i].r.decided = r.decided /\ steps[i].r.known = r.known
              /\ r.known /\ ~steps[i].r.answered => ~r.answered
<1> DEFINE plain == \/ ~r.known \/ r.ended \/ r.rejected
                    \/ r.result = out
                    \/ r.dispatched /\ r.drun # 0 /\ r.drun = run
           ran == r.dispatched \/ r.unknown
           q == [r EXCEPT !.held = FALSE, !.ended = @ \/ ran, !.rejected = @ \/ ~ran]
           x == [r EXCEPT !.answered = r.known]
           y == [q EXCEPT !.answered = r.known]
           k == IF ran THEN "answer" ELSE "reject"
           steps == OutputSteps(c, r, out)
<1>1. /\ x.decided = r.decided /\ x.known = r.known /\ (r.known /\ ~x.answered => ~r.answered)
      /\ q.decided = r.decided /\ q.known = r.known /\ (r.known /\ ~q.answered => ~r.answered)
      /\ y.decided = r.decided /\ y.known = r.known /\ (r.known /\ ~y.answered => ~r.answered)
  BY DEF RecordType
<1>2. \/ steps = <<[e |-> Entry("output", c, out), r |-> x]>>
      \/ steps = <<[e |-> Entry(k, c, 0), r |-> q], [e |-> Entry("output", c, out), r |-> y]>>
  <2>1. CASE plain BY <2>1 DEF OutputSteps, Step
  <2>2. CASE ~plain
    <3>1. steps = Step(k, c, 0, q) \o Step("output", c, out, y)
      BY <2>2 DEF OutputSteps
    <3> QED BY <3>1, TwoSteps DEF Step
  <2> QED BY <2>1, <2>2
<1> HIDE DEF steps, x, y, q, k
<1>3. ASSUME NEW i \in DOMAIN steps PROVE steps[i].r \in {x, q, y}
  <2> DEFINE e1 == Entry("output", c, out)
             e2 == Entry(k, c, 0)
  <2>1. \/ steps = <<[e |-> e1, r |-> x]>>
        \/ steps = <<[e |-> e2, r |-> q], [e |-> e1, r |-> y]>>
    BY <1>2
  <2> HIDE DEF e1, e2
  <2> QED BY ONLY <2>1, StepsAre, i \in DOMAIN steps
<1> QED BY <1>1, <1>3 DEF steps

\* The outputs' steps are of the call, and none is a dispatch.
LEMMA OutputOf ==
    ASSUME NEW c, NEW r, NEW out
    PROVE  LET steps == OutputSteps(c, r, out) IN
           /\ StepsOf(c, steps) /\ Len(steps) \in 1..2
           /\ \A i \in DOMAIN steps : steps[i].e.k \in {"output", "answer", "reject"}
<1> DEFINE steps == OutputSteps(c, r, out)
           e2 == Entry("output", c, out)
<1>1. OutputWrites(c, r, out, steps) BY OutputShape
<1>2. e2.k = "output" /\ e2.c = c /\ e2.b = Cardinality(left) BY EntryIs
<1> HIDE DEF steps
<1>3. ASSUME NEW x, steps = <<[e |-> e2, r |-> x]>>
      PROVE  /\ StepsOf(c, steps) /\ Len(steps) \in 1..2
             /\ \A i \in DOMAIN steps : steps[i].e.k \in {"output", "answer", "reject"}
  <2> HIDE DEF e2
  <2>1. IsPath(steps) /\ Len(steps) = 1 /\ DOMAIN steps = {1} /\ steps[1].e = e2
    BY ONLY <1>3, StepsAre
  <2> QED BY ONLY <1>2, <2>1 DEF StepsOf
<1>4. ASSUME NEW k \in {"answer", "reject"}, NEW x, NEW y,
             steps = <<[e |-> Entry(k, c, 0), r |-> x], [e |-> e2, r |-> y]>>
      PROVE  /\ StepsOf(c, steps) /\ Len(steps) \in 1..2
             /\ \A i \in DOMAIN steps : steps[i].e.k \in {"output", "answer", "reject"}
  <2> DEFINE e == Entry(k, c, 0)
  <2>0. e.k = k /\ e.c = c /\ e.b = Cardinality(left) BY EntryIs
  <2>1. steps = <<[e |-> e, r |-> x], [e |-> e2, r |-> y]>> BY <1>4
  <2> HIDE DEF e, e2
  <2>2. IsPath(steps) /\ Len(steps) = 2 /\ DOMAIN steps = {1, 2} /\ steps[1].e = e /\ steps[2].e = e2
    BY ONLY <2>1, StepsAre
  <2> QED BY ONLY <1>2, <1>4, <2>0, <2>2 DEF StepsOf
<1> QED BY <1>1, <1>3, <1>4 DEF OutputWrites, steps

\* The record is read off the last step that was written.
ReadsOff(c, r0, steps, n) ==
    /\ n = 0 => rec'[c] = r0
    /\ n # 0 => n \in DOMAIN steps /\ rec'[c] = steps[n].r
    /\ \A i \in DOMAIN path' : i > Len(path) =>
          i - Len(path) \in DOMAIN steps /\ path'[i] = steps[i - Len(path)].e

\* As it is.
LEMMA NewRecord ==
    ASSUME NEW c, NEW r0, NEW steps, StepsOf(c, steps), NEW n \in 0..Len(steps),
           NewOf(c, r0, steps, n)
    PROVE  ReadsOff(c, r0, steps, n)
<1>1. Len(steps) \in Nat /\ DOMAIN steps = 1..Len(steps)
  BY DEF StepsOf, IsPath
<1>2. /\ Longer(path, path', Cardinality(left)) /\ Len(path') = Len(path) + n
      /\ rec'[c] = (IF n = 0 THEN r0 ELSE steps[n].r)
      /\ \A i \in DOMAIN path' : i > Len(path) =>
            i - Len(path) \in 1..n /\ path'[i] = steps[i - Len(path)].e
  BY DEF NewOf
<1>3. \A j \in 1..n : j \in DOMAIN steps BY <1>1
<1>4. n # 0 => n \in 1..n BY <1>1
<1> QED BY <1>2, <1>3, <1>4 DEF ReadsOff

\* An output's item_end.
LEMMA AppendOutLog ==
    ASSUME RecordInv, TrueInv, NEW c \in Calls, AppendOut(c) PROVE LogStep
<1> DEFINE r == rec[c]
           out == how[c].out
           steps == OutputSteps(c, r, out)
<1>0. /\ BranchInv(path, left) /\ IsPath(path) /\ DOMAIN st = Calls /\ DOMAIN how = Calls
      /\ r \in RecordType(r)
  BY LogOf DEF RecordInv, RunInv, BranchInv, TrueInv, SoundInv
<1>1. /\ how' = how /\ failing' = failing /\ hands' = hands
      /\ \/ /\ ~OutputRefused(r) /\ (Taken(c, r, steps) \/ Failed(c, r, steps))
            /\ st' = [st EXCEPT ![c] = "gone"]
         \/ UNCHANGED <<log, rec, run>> /\ (st' = st \/ st' = [st EXCEPT ![c] = "gone"])
  BY DEF AppendOut, Refused
<1>2. \A d \in Calls : st'[d] \in {"stopped", "ready", "handed"} => st'[d] = st[d]
  BY <1>0, <1>1
<1>3. CASE UNCHANGED <<log, rec, run>>
  <2>1. path' = path /\ left' = left /\ rec' = rec /\ run' = run
    BY <1>3 DEF log
  <2>2. Longer(path, path', Cardinality(left)) /\ \A i \in DOMAIN path' : ~(i > Len(path))
    BY <1>0, <2>1 DEF Longer, IsPath
  <2>3. \A d \in Calls : Quiet(d) /\ GetsReady(d) /\ ~IsGiven(d)
    BY <1>1, <1>2, <2>1, <2>2, OtherQuiet
  <2> QED BY <2>1, <2>2, <2>3 DEF LogStep
<1>4. CASE ~OutputRefused(r) /\ (Taken(c, r, steps) \/ Failed(c, r, steps)) /\ st'[c] = "gone"
  <2>1. /\ StepsOf(c, steps) /\ Len(steps) \in 1..2
        /\ \A i \in DOMAIN steps : steps[i].e.k \in {"output", "answer", "reject"}
    BY OutputOf
  <2>2. \A i \in DOMAIN steps :
              /\ steps[i].r.decided = r.decided /\ steps[i].r.known = r.known
              /\ r.known /\ ~steps[i].r.answered => ~r.answered
    BY <1>0, OutputKeepsArgs
  <2> HIDE DEF steps
  <2>3. OthersStay(c) BY <1>1, <1>2 DEF OthersStay
  <2>4. PICK n \in 0..Len(steps) : NewOf(c, r, steps, n)
    BY <1>4, <2>1, <2>3, HandlerNew
  <2>5. ReadsOff(c, r, steps, n) BY <2>1, <2>4, NewRecord
  <2>6. /\ rec'[c].decided = r.decided /\ rec'[c].known = r.known
        /\ r.known /\ ~rec'[c].answered => ~r.answered
    BY <2>2, <2>5 DEF ReadsOff
  <2>7. Quiet(c) BY <1>4, <2>1, <2>5, <2>6 DEF Quiet, ReadsOff
  <2>8. GetsReady(c) /\ ~IsGiven(c) BY <1>4 DEF GetsReady, IsGiven
  <2> QED BY <2>4, <2>7, <2>8 DEF LogStep, NewOf
<1> QED BY <1>0, <1>1, <1>3, <1>4

\* tool_end
LEMMA ToolEndLog ==
    ASSUME RecordInv, TrueInv, NEW c \in Calls, ToolEnd(c) PROVE LogStep
<1> DEFINE r == rec[c]
           withdrawn == st[c] = "stopped"
           ran == st[c] = "back" /\ how[c].out = "own"
           steps == EndSteps(c, r, withdrawn, ran)
<1>1. /\ how' = how /\ hands' = hands /\ st' = [st EXCEPT ![c] = "over"]
      /\ (failing' = FALSE => failing = FALSE)
      /\ Taken(c, r, steps) \/ Failed(c, r, steps)
      /\ withdrawn \/ ran => phase = "work"
  BY DEF ToolEnd
<1>2. /\ DOMAIN st = Calls /\ r \in RecordType(r) /\ CallInv(c) /\ (phase = "idle" <=> run = 0)
  BY LogOf DEF RecordInv, RunInv, SoundInv
<1>3. OthersStay(c) /\ st'[c] = "over" BY <1>1, <1>2 DEF OthersStay
<1>4. GetsReady(c) /\ ~IsGiven(c) BY <1>3 DEF GetsReady, IsGiven
<1>5. \/ steps = <<>>
      \/ /\ steps = <<[e |-> Entry("withdraw", c, 0), r |-> Withdraw(r)]>>
         /\ r.known /\ withdrawn /\ Mine(r, run)
      \/ steps = <<[e |-> Entry("result", c, 0), r |-> [r EXCEPT !.result = "own"]]>>
  <2>0. withdrawn \/ ran => run # 0 BY <1>1, <1>2
  <2> QED BY <2>0 DEF EndSteps, Step, Mine
<1>6. /\ Withdraw(r).decided = r.decided /\ [r EXCEPT !.result = "own"].decided = r.decided
      /\ [r EXCEPT !.result = "own"].known = r.known
      /\ [r EXCEPT !.result = "own"].answered = r.answered
  BY <1>2 DEF RecordType, Withdraw
<1>7. ASSUME StepsOf(c, steps)
      PROVE  \E n \in 0..Len(steps) : NewOf(c, r, steps, n) /\ ReadsOff(c, r, steps, n)
  <2> HIDE DEF steps, r
  <2>1. PICK n \in 0..Len(steps) : NewOf(c, r, steps, n)
    BY <1>1, <1>3, <1>7, HandlerNew DEF r
  <2>2. ReadsOff(c, r, steps, n) BY <1>7, <2>1, NewRecord
  <2> QED BY <2>1, <2>2
<1>8. ASSUME NEW n \in 0..Len(steps), NewOf(c, r, steps, n), Quiet(c) \/ Withdraws(c)
      PROVE  LogStep
  BY <1>4, <1>8 DEF LogStep, NewOf
<1>9. CASE steps = <<>>
  <2> HIDE DEF steps, r
  <2>1. StepsOf(c, steps) /\ DOMAIN steps = {}
    BY <1>9, StepsAre DEF StepsOf
  <2>2. PICK n \in 0..Len(steps) : NewOf(c, r, steps, n) /\ ReadsOff(c, r, steps, n)
    BY <1>7, <2>1
  <2>3. Quiet(c) BY <1>3, <2>1, <2>2 DEF ReadsOff, Quiet, r
  <2> QED BY <1>8, <2>2, <2>3
<1>10. ASSUME NEW e, NEW x, steps = <<[e |-> e, r |-> x]>>, e.b = Cardinality(left), e.c = c
       PROVE  \E n \in 0..1 :
                 /\ NewOf(c, r, steps, n) /\ ReadsOff(c, r, steps, n) /\ Len(steps) = 1
                 /\ rec'[c] = (IF n = 0 THEN r ELSE x)
                 /\ \A i \in DOMAIN path' : i > Len(path) => path'[i] = e /\ i = Len(path) + n
  <2> HIDE DEF steps, r
  <2>1. IsPath(steps) /\ Len(steps) = 1 /\ DOMAIN steps = {1} /\ steps[1].e = e /\ steps[1].r = x
    BY <1>10, StepsAre
  <2>2. StepsOf(c, steps) BY <1>10, <2>1 DEF StepsOf
  <2>3. PICK n \in 0..Len(steps) : NewOf(c, r, steps, n) /\ ReadsOff(c, r, steps, n)
    BY <1>7, <2>2
  <2>4. n \in 0..1 /\ (n = 0 \/ n = 1) BY <2>1
  <2>5. rec'[c] = (IF n = 0 THEN r ELSE x)
    BY <2>1, <2>3, <2>4 DEF ReadsOff
  <2>6. Len(path) \in Nat /\ Len(path') = Len(path) + n /\ DOMAIN path' = 1..Len(path')
    BY <2>3, LongerIs DEF NewOf
  <2>7. ASSUME NEW i \in DOMAIN path', i > Len(path) PROVE path'[i] = e /\ i = Len(path) + n
    <3>1. i = Len(path) + n /\ n = 1 BY <2>4, <2>6, <2>7
    <3>2. i - Len(path) = 1 BY <2>6, <3>1
    <3> QED BY <2>1, <2>3, <2>7, <3>1, <3>2 DEF ReadsOff
  <2> QED BY <2>1, <2>3, <2>4, <2>5, <2>7
<1>11. CASE steps = <<[e |-> Entry("result", c, 0), r |-> [r EXCEPT !.result = "own"]]>>
  <2> DEFINE e == Entry("result", c, 0)
             x == [r EXCEPT !.result = "own"]
  <2>1. e.k = "result" /\ e.c = c /\ e.b = Cardinality(left) BY EntryIs
  <2>2. steps = <<[e |-> e, r |-> x]>> /\ x.decided = r.decided /\ x.known = r.known
        /\ x.answered = r.answered
    BY <1>6, <1>11
  <2> HIDE DEF steps, r, e, x
  <2>3. PICK n \in 0..1 :
                 /\ NewOf(c, r, steps, n) /\ ReadsOff(c, r, steps, n) /\ Len(steps) = 1
                 /\ rec'[c] = (IF n = 0 THEN r ELSE x)
                 /\ \A i \in DOMAIN path' : i > Len(path) => path'[i] = e /\ i = Len(path) + n
    BY <1>10, <2>1, <2>2
  <2>4. Quiet(c) BY <1>3, <2>1, <2>2, <2>3 DEF Quiet, r
  <2> QED BY <1>8, <2>3, <2>4
<1>12. CASE /\ steps = <<[e |-> Entry("withdraw", c, 0), r |-> Withdraw(r)]>>
            /\ r.known /\ withdrawn /\ Mine(r, run)
  <2> DEFINE e == Entry("withdraw", c, 0)
             x == Withdraw(r)
  <2>1. e.k = "withdraw" /\ e.c = c /\ e.b = Cardinality(left)
    BY EntryIs
  <2>2. steps = <<[e |-> e, r |-> x]>> /\ x.decided = r.decided
    BY <1>6, <1>12
  <2>3. ~r.answered BY <1>2, <1>12 DEF CallInv
  <2> HIDE DEF steps, r, x, e
  <2>4. PICK n \in 0..1 :
                 /\ NewOf(c, r, steps, n) /\ ReadsOff(c, r, steps, n) /\ Len(steps) = 1
                 /\ rec'[c] = (IF n = 0 THEN r ELSE x)
                 /\ \A i \in DOMAIN path' : i > Len(path) => path'[i] = e /\ i = Len(path) + n
    BY <1>10, <2>1, <2>2
  <2>5. /\ Longer(path, path', Cardinality(left)) /\ Len(path') = Len(path) + n
        /\ Len(path) \in Nat /\ DOMAIN path' = 1..Len(path')
    BY <2>4, LongerIs DEF NewOf
  <2>6. CASE n = 0
    <3>1. \A i \in DOMAIN path' : ~(i > Len(path)) BY <2>5, <2>6
    <3>2. Quiet(c) BY <1>3, <2>4, <2>6, <3>1 DEF Quiet, r
    <3> QED BY <1>8, <2>4, <3>2
  <2>7. CASE n = 1
    <3>1. Len(path') \in DOMAIN path' /\ Len(path') > Len(path) /\ Len(path') = Len(path) + 1
      BY <2>5, <2>7
    <3>2. path'[Len(path')] = e BY <2>4, <3>1
    <3>3. Withdraws(c)
      BY <1>3, <1>12, <2>2, <2>3, <2>4, <2>7, <3>1, <3>2 DEF Withdraws, r, e
    <3> QED BY <1>8, <2>4, <3>3
  <2> QED BY <2>6, <2>7
<1> QED BY <1>5, <1>9, <1>11, <1>12

\* What a handler of one entry writes.
OneOf(c, r0, steps, e, x, n) ==
    /\ NewOf(c, r0, steps, n) /\ Len(steps) = 1
    /\ rec'[c] = (IF n = 0 THEN r0 ELSE x)
    /\ \A i \in DOMAIN path' : i > Len(path) => path'[i] = e /\ i = Len(path) + n
    /\ n = 1 => Len(path') = Len(path) + 1 /\ path'[Len(path')] = e

\* It is that entry, or nothing.
LEMMA OneNew ==
    ASSUME RecordInv, NEW c \in Calls, NEW r0, NEW steps, NEW e, NEW x,
           steps = <<[e |-> e, r |-> x]>>, e.b = Cardinality(left), e.c = c,
           Taken(c, r0, steps) \/ Failed(c, r0, steps), OthersStay(c)
    PROVE  OneOf(c, r0, steps, e, x, 0) \/ OneOf(c, r0, steps, e, x, 1)
<1>1. IsPath(steps) /\ Len(steps) = 1 /\ DOMAIN steps = {1} /\ steps[1].e = e /\ steps[1].r = x
  BY StepsAre
<1>2. StepsOf(c, steps) BY <1>1 DEF StepsOf
<1>3. PICK n \in 0..Len(steps) : NewOf(c, r0, steps, n)
  BY <1>2, HandlerNew
<1>31. ReadsOff(c, r0, steps, n) BY <1>2, <1>3, NewRecord
<1>4. n = 0 \/ n = 1 BY <1>1
<1>5. rec'[c] = (IF n = 0 THEN r0 ELSE x)
  BY <1>1, <1>31, <1>4 DEF ReadsOff
<1>6. Len(path) \in Nat /\ Len(path') = Len(path) + n /\ DOMAIN path' = 1..Len(path')
  BY <1>3, LongerIs DEF NewOf
<1>7. ASSUME NEW i \in DOMAIN path', i > Len(path) PROVE path'[i] = e /\ i = Len(path) + n
  <2>1. i = Len(path) + n /\ n = 1 BY <1>4, <1>6, <1>7
  <2>2. i - Len(path) = 1 BY <1>6, <2>1
  <2> QED BY <1>1, <1>31, <1>7, <2>1, <2>2 DEF ReadsOff
<1>8. n = 1 => Len(path') \in DOMAIN path' /\ Len(path') > Len(path)
  BY <1>6
<1>9. OneOf(c, r0, steps, e, x, n)
  BY <1>1, <1>3, <1>5, <1>6, <1>7, <1>8 DEF OneOf
<1> QED BY <1>4, <1>9

\* toolStart's record before it is written.
LEMMA StartRecordIs ==
    ASSUME NEW r, r \in RecordType(r), NEW d, NEW args
    PROVE  LET r0 == StartRecord(r, d, args) IN
           /\ r0.known = r.known /\ r0.answered = r.answered
           /\ r0.rejected = r.rejected /\ r0.ended = r.ended
           /\ r0.decided = r.decided \/ Carries(r, args)
<1> DEFINE x == [r EXCEPT !.again = FALSE,
                   !.decided = IF Carries(r, args) THEN args ELSE @]
           y == [r EXCEPT !.again = (r.dispatched /\ r.drun # run), !.held = FALSE]
<1>1. /\ x.known = r.known /\ x.answered = r.answered
      /\ x.rejected = r.rejected /\ x.ended = r.ended
      /\ x.decided = IF Carries(r, args) THEN args ELSE r.decided
  BY DEF RecordType
<1>2. /\ y.known = r.known /\ y.answered = r.answered
      /\ y.rejected = r.rejected /\ y.ended = r.ended
      /\ y.decided = r.decided
  BY DEF RecordType
<1>3. StartRecord(r, d, args) \in {r, x, y} BY DEF StartRecord
<1> HIDE DEF x, y
<1> QED BY <1>1, <1>2, <1>3

\* tool_start
LEMMA ToolStartLog ==
    ASSUME RecordInv, BudgetInv, TrueInv, NEW c \in Calls, NEW d, NEW args \in budget.args,
           ToolStart(c, d, args)
    PROVE  LogStep
<1> DEFINE r == rec[c]
           r0 == StartRecord(r, d, args)
           steps == StartSteps(c, r, d, args)
<1>0. /\ DOMAIN st = Calls /\ DOMAIN how = Calls /\ r \in RecordType(r) /\ IsPath(path)
      /\ failing \in BOOLEAN /\ args \in {0, 1} /\ how[c] \in HowType(how[c])
  BY LogOf DEF RecordInv, RunInv, SoundInv, TrueInv, GivenInv, BudgetInv, BranchInv
<1>1. /\ st[c] = "todo" /\ failing = FALSE /\ hands' = hands
      /\ \E o, f : /\ f \in BOOLEAN
                   /\ how' = [how EXCEPT ![c].args = args, ![c].def = f, ![c].out = o]
      /\ st' = [st EXCEPT ![c] = CASE d = "block" \/ d = "refuse" -> "refusing"
                  [] d = "defer" -> "deferring"
                  [] OTHER -> "ready"]
      /\ \/ ~StartRefused(r) /\ Taken(c, r0, steps) /\ failing' = FALSE
         \/ ~StartRefused(r) /\ Failed(c, r0, steps) /\ failing' = TRUE
         \/ StartRefused(r) /\ Refused(c) /\ failing' = TRUE
  BY <1>0 DEF ToolStart
<1>2. /\ st'[c] \in {"refusing", "deferring", "ready"} /\ (d = "block" => st'[c] = "refusing")
      /\ \A x \in Calls \ {c} : st'[x] = st[x]
  BY <1>0, <1>1
<1>3. how'[c].args = args /\ \A x \in Calls \ {c} : how'[x] = how[x]
  <2>1. PICK o, f : /\ f \in BOOLEAN
                    /\ how' = [how EXCEPT ![c].args = args, ![c].def = f, ![c].out = o]
    BY <1>1
  <2>2. how'[c] = HowWith(how[c], args, f, o) BY <1>0, <2>1 DEF HowWith
  <2> QED BY <1>0, <2>1, <2>2, HowDecided
<1>4. OthersStay(c) BY <1>1, <1>2, <1>3 DEF OthersStay
<1>5. ~IsGiven(c) BY <1>1 DEF IsGiven
<1>6. /\ r0.known = r.known /\ r0.answered = r.answered
      /\ r0.rejected = r.rejected /\ r0.ended = r.ended
      /\ r0.decided = r.decided \/ Carries(r, args)
  BY <1>0, StartRecordIs
<1>7. CASE StartRefused(r) /\ Refused(c) /\ failing' = TRUE
  <2>1. path' = path /\ left' = left /\ rec' = rec /\ run' = run
    BY <1>7 DEF Refused, log
  <2>2. Longer(path, path', Cardinality(left)) /\ \A i \in DOMAIN path' : ~(i > Len(path))
    BY <1>0, <2>1 DEF Longer, IsPath
  <2>3. \A x \in Calls \ {c} : Quiet(x) /\ GetsReady(x) /\ ~IsGiven(x)
    BY <1>4, <2>1, <2>2, OtherQuiet DEF OthersStay
  <2>4. Quiet(c) BY <1>2, <2>1, <2>2 DEF Quiet
  <2>5. GetsReady(c) BY <1>7 DEF GetsReady
  <2> QED BY <1>5, <2>1, <2>2, <2>3, <2>4, <2>5 DEF LogStep
<1> HIDE DEF r0, steps, r
<1>8. ASSUME NEW n \in 0..Len(steps), NewOf(c, r0, steps, n),
             Quiet(c) \/ CarriesOver(c) \/ LosesArgs(c), GetsReady(c)
      PROVE  LogStep
  BY <1>5, <1>8 DEF LogStep, NewOf
<1>9. ASSUME ~StartRefused(r), Taken(c, r0, steps) \/ Failed(c, r0, steps),
             Taken(c, r0, steps) \/ failing' = TRUE
      PROVE  LogStep
  <2>1. StartWrites(c, r, d, args, steps)
    BY <1>0, <1>9, StartShape DEF steps
  <2>2. r.known => ~r.answered BY <1>9 DEF StartRefused
  <2>3. CASE /\ steps = <<>>
             /\ r.known /\ ~r.rejected /\ ~r.ended => ~Carries(r, args)
    <3>1. StepsOf(c, steps) /\ DOMAIN steps = {} /\ Len(steps) = 0
      BY <2>3, StepsAre DEF StepsOf
    <3>2. PICK n \in 0..Len(steps) : NewOf(c, r0, steps, n)
      BY <1>4, <1>9, <3>1, HandlerNew
    <3>3. ReadsOff(c, r0, steps, n) BY <3>1, <3>2, NewRecord
    <3>4. rec'[c] = r0 /\ \A i \in DOMAIN path' : ~(i > Len(path))
      BY <3>1, <3>3 DEF ReadsOff
    <3>5. r0.decided = r.decided
      <4>1. CASE r.known /\ ~r.rejected /\ ~r.ended BY <1>6, <2>3, <4>1
      <4>2. CASE ~(r.known /\ ~r.rejected /\ ~r.ended)
        BY <4>2 DEF StartRecord, r0
      <4> QED BY <4>1, <4>2
    <3>6. Quiet(c) BY <1>2, <1>6, <3>4, <3>5 DEF Quiet, r
    <3>7. GetsReady(c)
      BY <1>1, <1>3, <1>6, <2>2, <2>3, <3>4, <3>6 DEF GetsReady, r
    <3> QED BY <1>8, <3>2, <3>6, <3>7
  <2>4. ASSUME NEW k \in Decisions, NEW w, NEW r2,
               steps = <<[e |-> Entry(k, c, w), r |-> r2]>>,
               r.known, ~r.answered, ~r.rejected, ~r.ended,
               IF d = "block" THEN k \in {"reject", "answer"} /\ r2.decided = r.decided
               ELSE /\ k = (IF d = "defer" THEN "hold" ELSE "proceed")
                    /\ w = (IF Carries(r, args) THEN args ELSE 2)
                    /\ r2.decided = (IF Carries(r, args) THEN args ELSE r.decided)
        PROVE  LogStep
    <3> DEFINE e == Entry(k, c, w)
    <3>1. e.k = k /\ e.c = c /\ e.b = Cardinality(left) /\ e.v = w
      BY DEF Entry
    <3>2. steps = <<[e |-> e, r |-> r2]>> BY <2>4
    <3> HIDE DEF e
    <3>3. OneOf(c, r0, steps, e, r2, 0) \/ OneOf(c, r0, steps, e, r2, 1)
      BY <1>4, <1>9, <3>1, <3>2, OneNew
    <3>4. CASE OneOf(c, r0, steps, e, r2, 0)
      <4>1. /\ NewOf(c, r0, steps, 0) /\ Len(steps) = 1 /\ rec'[c] = r0
            /\ \A i \in DOMAIN path' : i > Len(path) => i = Len(path) + 0
        BY <3>4 DEF OneOf
      <4>2. budget.fails > 0 /\ ~Taken(c, r0, steps) BY <4>1 DEF NewOf
      <4>3. \A i \in DOMAIN path' : ~(i > Len(path))
        <5>1. Len(path) \in Nat BY <4>1, LongerIs DEF NewOf
        <5> QED BY <4>1, <5>1
      <4>4. GetsReady(c) BY <1>9, <4>2 DEF GetsReady
      <4>5. CASE Carries(r, args)
        <5>1. LosesArgs(c)
          BY <1>1, <1>2, <1>3, <4>2, <4>3, <4>5 DEF LosesArgs, r
        <5>2. 0 \in 0..Len(steps) BY <4>1
        <5> QED BY <1>8, <4>1, <4>4, <5>1, <5>2
      <4>6. CASE ~Carries(r, args)
        <5>1. Quiet(c) BY <1>2, <1>6, <4>1, <4>3, <4>6 DEF Quiet, r
        <5>2. 0 \in 0..Len(steps) BY <4>1
        <5> QED BY <1>8, <4>1, <4>4, <5>1, <5>2
      <4> QED BY <4>5, <4>6
    <3>5. CASE OneOf(c, r0, steps, e, r2, 1)
      <4>1. /\ NewOf(c, r0, steps, 1) /\ Len(steps) = 1 /\ rec'[c] = r2
            /\ \A i \in DOMAIN path' : i > Len(path) => path'[i] = e
            /\ Len(path') = Len(path) + 1 /\ path'[Len(path')] = e
        BY <3>5 DEF OneOf
      <4>2. 1 \in 0..Len(steps) BY <4>1
      <4>3. CASE d = "block"
        <5>1. Quiet(c) BY <1>2, <2>4, <3>1, <4>1, <4>3 DEF Quiet, r
        <5>2. GetsReady(c) BY <1>2, <4>3 DEF GetsReady
        <5> QED BY <1>8, <4>1, <4>2, <5>1, <5>2
      <4>4. CASE d # "block" /\ Carries(r, args)
        <5>1. CarriesOver(c)
          BY <1>1, <1>2, <1>3, <2>4, <3>1, <4>1, <4>4 DEF CarriesOver, r
        <5>2. GetsReady(c) BY <1>1, <2>4, <5>1 DEF GetsReady, r
        <5> QED BY <1>8, <4>1, <4>2, <5>1, <5>2
      <4>5. CASE d # "block" /\ ~Carries(r, args)
        <5>1. Quiet(c) BY <1>2, <2>4, <3>1, <4>1, <4>5 DEF Quiet, r
        <5>2. GetsReady(c)
          BY <1>1, <1>3, <2>4, <4>5, <5>1 DEF GetsReady, r
        <5> QED BY <1>8, <4>1, <4>2, <5>1, <5>2
      <4> QED BY <4>3, <4>4, <4>5
    <3> QED BY <3>3, <3>4, <3>5
  <2>5. Carries(r, args) <=> (IF Carries(r, args) THEN args ELSE 2) # 2
    BY <1>0
  <2> QED BY <2>1, <2>3, <2>4, <2>5 DEF StartWrites
<1> QED BY <1>1, <1>7, <1>9 DEF r, r0, steps

\* The steps of a dispatch: the last is the dispatch.
DispatchedBy(c, r, key, steps) ==
    /\ StepsOf(c, steps) /\ Len(steps) \in 1..2
    /\ steps[Len(steps)].e = Entry("dispatch", c, key)
    /\ \A i \in DOMAIN steps :
          /\ steps[i].r.decided = r.decided /\ steps[i].r.known = r.known
          /\ steps[i].r.answered = r.answered
          /\ i # Len(steps) =>
                /\ steps[i].e.k = "proceed" /\ steps[i].e.v = 2
                /\ steps[i].r.dispatched = r.dispatched /\ steps[i].r.drun = r.drun

\* toolDispatch's are.
LEMMA DispatchOf ==
    ASSUME NEW c, NEW r, r \in RecordType(r), NEW key, r.known, ~r.rejected,
           ~Mine(r, run), run # 0
    PROVE  DispatchedBy(c, r, key, DispatchSteps(c, r, key))
<1> DEFINE steps == DispatchSteps(c, r, key)
           s1 == [r EXCEPT !.again = FALSE]
           s2 == DispatchRecord(r)
           e == Entry("proceed", c, 2)
           e2 == Entry("dispatch", c, key)
<1>1. \/ steps = <<[e |-> e2, r |-> s2]>>
      \/ steps = <<[e |-> e, r |-> s1], [e |-> e2, r |-> s2]>>
  BY DispatchShape
<1>2. /\ s1.decided = r.decided /\ s1.known = r.known /\ s1.answered = r.answered
      /\ s1.dispatched = r.dispatched /\ s1.drun = r.drun
  BY DEF RecordType
<1>3. /\ s2.decided = r.decided /\ s2.known = r.known /\ s2.answered = r.answered
  BY DEF RecordType, DispatchRecord
<1>4. /\ e.k = "proceed" /\ e.c = c /\ e.b = Cardinality(left) /\ e.v = 2
      /\ e2.k = "dispatch" /\ e2.c = c /\ e2.b = Cardinality(left)
  BY DEF Entry
<1> HIDE DEF steps, s1, s2, e
<1>5. CASE steps = <<[e |-> e2, r |-> s2]>>
  <2> HIDE DEF e2
  <2>1. IsPath(steps) /\ Len(steps) = 1 /\ DOMAIN steps = {1} /\ steps[1].e = e2 /\ steps[1].r = s2
    BY ONLY <1>5, StepsAre
  <2>2. StepsOf(c, steps) /\ Len(steps) \in 1..2
    BY ONLY <1>4, <2>1 DEF StepsOf
  <2>3. \A i \in DOMAIN steps : i = 1 BY <2>1
  <2>4. steps[Len(steps)].e = Entry("dispatch", c, key) BY <2>1 DEF e2
  <2>5. DispatchedBy(c, r, key, steps)
    BY ONLY <1>3, <2>1, <2>2, <2>3, <2>4 DEF DispatchedBy
  <2> QED BY <2>5 DEF steps
<1>6. CASE steps = <<[e |-> e, r |-> s1], [e |-> e2, r |-> s2]>>
  <2> HIDE DEF e2
  <2>1. /\ IsPath(steps) /\ Len(steps) = 2 /\ DOMAIN steps = {1, 2} /\ steps[1].e = e
        /\ steps[1].r = s1 /\ steps[2].e = e2 /\ steps[2].r = s2
    BY ONLY <1>6, StepsAre
  <2>2. StepsOf(c, steps) /\ Len(steps) \in 1..2
    BY ONLY <1>4, <2>1 DEF StepsOf
  <2>3. \A i \in DOMAIN steps : i = 1 \/ i = 2 BY <2>1
  <2>4. steps[Len(steps)].e = Entry("dispatch", c, key) BY <2>1 DEF e2
  <2>5. DispatchedBy(c, r, key, steps)
    BY ONLY <1>2, <1>3, <1>4, <2>1, <2>2, <2>3, <2>4 DEF DispatchedBy
  <2> QED BY <2>5 DEF steps
<1> QED BY <1>1, <1>5, <1>6 DEF steps

\* tool_dispatch
LEMMA DispatchLog ==
    ASSUME RecordInv, TrueInv, RefusalsHold, NEW c \in Calls, Dispatch(c) PROVE LogStep
<1> DEFINE r == rec[c]
           steps == DispatchSteps(c, r, how[c].key)
           at == <<Cardinality(left), Len(path) + Len(steps)>>
           h == [key |-> how[c].key, args |-> how[c].args,
                 at |-> IF steps = <<>> THEN <<>> ELSE at]
<1>0. /\ DOMAIN st = Calls /\ DOMAIN how = Calls /\ DOMAIN hands = Calls /\ failing \in BOOLEAN
      /\ r \in RecordType(r) /\ IsPath(path) /\ CallInv(c) /\ how[c] \in HowType(how[c])
  BY LogOf DEF RecordInv, RunInv, SoundInv, TrueInv, GivenInv, BranchInv
<1>1. /\ st[c] = "ready" /\ failing = FALSE /\ phase = "work"
      /\ \/ /\ ~DispatchRefused(r) /\ Taken(c, r, steps) /\ st' = [st EXCEPT ![c] = "handed"]
            /\ hands' = [hands EXCEPT ![c] = Append(@, h)]
            /\ how' = [how EXCEPT ![c].hand = TRUE] /\ failing' = failing
         \/ /\ \/ ~DispatchRefused(r) /\ Failed(c, r, steps)
               \/ DispatchRefused(r) /\ Refused(c)
            /\ st' = [st EXCEPT ![c] = "stopped"] /\ failing' = TRUE
            /\ how' = how /\ hands' = hands
  BY <1>0 DEF Dispatch
<1>2. /\ OthersStay(c) /\ st'[c] \in {"handed", "stopped"} /\ ~Mine(r, run)
  <2>1. ~Mine(r, run) BY <1>0, <1>1 DEF CallInv
  <2>2. \A x \in Calls \ {c} : how'[x] = how[x] /\ st'[x] = st[x]
    BY <1>0, <1>1
  <2> QED BY <1>0, <1>1, <2>1, <2>2 DEF OthersStay
<1>3. GetsReady(c) BY <1>2 DEF GetsReady
<1>4. CASE DispatchRefused(r) /\ Refused(c) /\ st' = [st EXCEPT ![c] = "stopped"]
  <2>1. path' = path /\ left' = left /\ rec' = rec /\ run' = run /\ st'[c] = "stopped"
    BY <1>0, <1>4 DEF Refused, log
  <2>2. Longer(path, path', Cardinality(left)) /\ \A i \in DOMAIN path' : ~(i > Len(path))
    BY <1>0, <2>1 DEF Longer, IsPath
  <2>3. \A x \in Calls \ {c} : Quiet(x) /\ GetsReady(x) /\ ~IsGiven(x)
    BY <1>2, <2>1, <2>2, OtherQuiet DEF OthersStay
  <2>4. Quiet(c) /\ ~IsGiven(c) BY <1>2, <2>1, <2>2 DEF Quiet, IsGiven
  <2> QED BY <1>3, <2>1, <2>2, <2>3, <2>4 DEF LogStep
<1>5. CASE /\ ~DispatchRefused(r) /\ (Taken(c, r, steps) \/ Failed(c, r, steps))
           /\ \/ Taken(c, r, steps) /\ st'[c] = "handed" /\ hands'[c] = Append(hands[c], h)
              \/ st'[c] = "stopped" /\ Failed(c, r, steps)
  <2>1. /\ r.known /\ ~r.answered /\ ~r.rejected /\ ~r.ended /\ run # 0
    BY <1>1, <1>5, ReadyIs
  <2>2. DispatchedBy(c, r, how[c].key, steps)
    BY <1>0, <1>2, <2>1, DispatchOf
  <2>3. steps # <<>> /\ Len(steps) \in Nat /\ Len(steps) > 0 /\ StepsOf(c, steps)
        /\ DOMAIN steps = 1..Len(steps)
    <3> HIDE DEF steps
    <3> QED BY <2>2 DEF DispatchedBy, StepsOf, IsPath
  <2> HIDE DEF r, steps, h
  <2>4. PICK n \in 0..Len(steps) : NewOf(c, r, steps, n)
    BY <1>2, <1>5, <2>3, HandlerNew
  <2>5. ReadsOff(c, r, steps, n) BY <2>3, <2>4, NewRecord
  <2>6. /\ Len(path) \in Nat /\ Len(path') = Len(path) + n /\ DOMAIN path' = 1..Len(path')
        /\ n # Len(steps) => ~Taken(c, r, steps)
    BY <2>4, LongerIs DEF NewOf
  <2>7. CASE n = Len(steps)
    <3>1. Len(path') > Len(path) /\ Len(path') \in DOMAIN path' /\ Len(path') - Len(path) = n
      BY <2>3, <2>6, <2>7
    <3>2. path'[Len(path')] = Entry("dispatch", c, how[c].key)
      BY <2>2, <2>5, <2>7, <3>1 DEF ReadsOff, DispatchedBy
    <3>3. rec'[c].decided = r.decided
      BY <2>2, <2>3, <2>5, <2>7 DEF ReadsOff, DispatchedBy
    <3>4. ASSUME NEW i \in DOMAIN path', i > Len(path), i # Len(path')
          PROVE  path'[i].k = "proceed" /\ path'[i].v = 2
      <4>1. i - Len(path) # Len(steps) BY <2>3, <2>6, <2>7, <3>4
      <4> QED BY <2>2, <2>5, <3>4, <4>1 DEF ReadsOff, DispatchedBy
    <3>5. st'[c] = "handed" =>
             hands'[c] = Append(hands[c], [key |-> how[c].key, args |-> how[c].args,
                                           at |-> <<Cardinality(left), Len(path')>>])
      BY <1>5, <2>3, <2>6, <2>7 DEF h
    <3>a. ASSUME st'[c] = "stopped" PROVE budget.refusals > 0
      <4> SUFFICES ASSUME ~(budget.refusals > 0) PROVE FALSE
        OBVIOUS
      <4>1. Failed(c, r, steps) BY <1>5, <3>a
      <4>2. PICK m \in 0..(Len(steps) - 1) : Wrote(c, r, steps, m)
        BY <2>3, <4>1, HandlerWrote
      <4>3. path' = After(steps, m) /\ m \in 0..Len(steps)
        BY <2>3, <4>2 DEF Wrote
      <4>4. Len(path') = Len(path) + m
        BY <1>0, <2>3, <4>3, AfterLonger DEF StepsOf
      <4> QED BY ONLY <2>3, <2>6, <2>7, <4>2, <4>4
    <3>6. HandsOver(c)
      BY <1>1, <1>2, <2>1, <3>1, <3>2, <3>3, <3>4, <3>5, <3>a DEF HandsOver, r
    <3> QED BY <1>3, <2>4, <3>6 DEF LogStep, NewOf
  <2>8. CASE n # Len(steps)
    <3>1. st'[c] = "stopped" /\ ~IsGiven(c)
      <4>1. st'[c] = "stopped" BY <1>5, <2>6, <2>8
      <4> QED BY <4>1 DEF IsGiven
    <3>2. /\ rec'[c].decided = r.decided /\ rec'[c].known = r.known
          /\ rec'[c].answered = r.answered /\ rec'[c].dispatched = r.dispatched
          /\ rec'[c].drun = r.drun
      BY <2>2, <2>5, <2>8 DEF ReadsOff, DispatchedBy
    <3>3. ASSUME NEW i \in DOMAIN path', i > Len(path)
          PROVE  path'[i].k = "proceed" /\ path'[i].v = 2
      <4>1. i - Len(path) # Len(steps)
        <5>1. i \in 1..(Len(path) + n) /\ Len(path) \in Nat
          BY ONLY <2>6, i \in DOMAIN path'
        <5>2. n < Len(steps) /\ n \in Nat /\ Len(steps) \in Nat
          <6>1. Len(steps) \in Nat BY ONLY <2>3
          <6> QED BY ONLY <2>8, <6>1, n \in 0..Len(steps)
        <5> QED BY ONLY <5>1, <5>2
      <4> QED BY <2>2, <2>5, <3>3, <4>1 DEF ReadsOff, DispatchedBy
    <3>4. Quiet(c) BY <1>2, <3>1, <3>2, <3>3 DEF Quiet, Mine, r
    <3> QED BY <1>3, <2>4, <3>1, <3>4 DEF LogStep, NewOf
  <2> QED BY <2>7, <2>8
<1>7. (st' = [st EXCEPT ![c] = "handed"] => st'[c] = "handed" /\ "handed" # "stopped")
      /\ (hands' = [hands EXCEPT ![c] = Append(@, h)] => hands'[c] = Append(hands[c], h))
      /\ (st' = [st EXCEPT ![c] = "stopped"] => st'[c] = "stopped")
  BY <1>0
<1> HIDE DEF h, steps, r
<1> QED BY <1>1, <1>4, <1>5, <1>7

\* An action of a run.
LEMMA InRunLog ==
    ASSUME RecordInv, BudgetInv, TrueInv, RefusalsHold, InRun PROVE LogStep
BY AgentLog, CallItemLog, ToolStartLog, DispatchLog, ToolEndLog, AppendOutLog DEF InRun

-----------------------------------------------------------------------------
(* The arguments that a path has in force.                                 *)

\* The decisions before place n that carry arguments.
ArgsAt(p, c, n) == {i \in At(p, c, {"hold", "proceed"}) : i < n /\ p[i].v # 2}

\* Those of a path, and of one that is longer.
LEMMA ArgsAtIs ==
    ASSUME NEW p, NEW p2, NEW b, Longer(p, p2, b), NEW c, NEW n \in Nat
    PROVE  /\ ArgsAt(p, c, n) \subseteq 1..Len(p)
           /\ ArgsAt(p2, c, n) \subseteq 1..Len(p2)
           /\ ArgsAt(p, c, n) = {i \in ArgsAt(p2, c, n) : i <= Len(p)}
           /\ \A q : ArgsBefore(q, c, n) =
                        IF ArgsAt(q, c, n) = {} THEN 0 ELSE q[Last(ArgsAt(q, c, n))].v
<1>1. /\ Len(p) \in Nat /\ Len(p2) \in Nat /\ DOMAIN p = 1..Len(p) /\ DOMAIN p2 = 1..Len(p2)
      /\ \A K : At(p, c, K) = {i \in At(p2, c, K) : i <= Len(p)}
  BY LongerIs
<1>2. \A i \in 1..Len(p) : p2[i] = p[i] BY <1>1 DEF Longer
<1>3. ArgsAt(p, c, n) \subseteq 1..Len(p) /\ ArgsAt(p2, c, n) \subseteq 1..Len(p2)
  BY <1>1 DEF ArgsAt, At
<1>4. ArgsAt(p, c, n) = {i \in ArgsAt(p2, c, n) : i <= Len(p)}
  <2>1. ASSUME NEW i \in ArgsAt(p, c, n) PROVE i \in ArgsAt(p2, c, n) /\ i <= Len(p)
    BY <1>1, <1>2, <1>3, <2>1 DEF ArgsAt
  <2>2. ASSUME NEW i \in ArgsAt(p2, c, n), i <= Len(p) PROVE i \in ArgsAt(p, c, n)
    <3>1. i \in 1..Len(p) BY <1>1, <1>3, <2>2
    <3> QED BY <1>1, <1>2, <2>2, <3>1 DEF ArgsAt
  <2> QED BY <2>1, <2>2
<1>5. \A q : ArgsBefore(q, c, n) =
                 IF ArgsAt(q, c, n) = {} THEN 0 ELSE q[Last(ArgsAt(q, c, n))].v
  BY DEF ArgsBefore, ArgsAt
<1> QED BY <1>3, <1>4, <1>5

\* What was in force stays so.
LEMMA ArgsLonger ==
    ASSUME NEW p, NEW p2, NEW b, Longer(p, p2, b), NEW c, NEW n \in Nat, n <= Len(p) + 1
    PROVE  ArgsBefore(p2, c, n) = ArgsBefore(p, c, n)
<1> DEFINE S == ArgsAt(p, c, n)
           T == ArgsAt(p2, c, n)
<1>0. Len(p) \in Nat /\ DOMAIN p = 1..Len(p) BY LongerIs
<1>1. /\ S \subseteq 1..Len(p) /\ T \subseteq 1..Len(p2) /\ S = {i \in T : i <= Len(p)}
      /\ ArgsBefore(p, c, n) = (IF S = {} THEN 0 ELSE p[Last(S)].v)
      /\ ArgsBefore(p2, c, n) = (IF T = {} THEN 0 ELSE p2[Last(T)].v)
  BY ArgsAtIs
<1>2. \A i \in T : i \in Nat /\ i < n BY <1>1 DEF ArgsAt
<1> HIDE DEF S, T
<1>3. T = S BY <1>0, <1>1, <1>2
<1>4. S # {} => Last(S) \in S BY <1>0, <1>1, LastIs
<1>5. S # {} => p2[Last(S)] = p[Last(S)] BY <1>0, <1>1, <1>4 DEF Longer
<1>6. CASE S = {} BY ONLY <1>1, <1>3, <1>6
<1>7. CASE S # {} BY ONLY <1>1, <1>3, <1>5, <1>7
<1> QED BY <1>6, <1>7

\* No entry after p gives the call arguments.
NoArgs(p, p2, c) ==
    \A i \in DOMAIN p2 : i > Len(p) /\ p2[i].c = c /\ p2[i].k \in {"hold", "proceed"} =>
        p2[i].v = 2

\* Then those in force at its end are in force after.
LEMMA ArgsSame ==
    ASSUME NEW p, NEW p2, NEW b, Longer(p, p2, b), NEW c, NoArgs(p, p2, c),
           NEW n \in Nat, n > Len(p)
    PROVE  ArgsBefore(p2, c, n) = Args(p, c)
<1> DEFINE N == Len(p) + 1
           S == ArgsAt(p2, c, N)
           T == ArgsAt(p2, c, n)
<1>0. Len(p) \in Nat /\ Len(p2) \in Nat /\ DOMAIN p = 1..Len(p) /\ DOMAIN p2 = 1..Len(p2)
  BY LongerIs
<1>1. N \in Nat /\ N <= Len(p) + 1 BY <1>0
<1>2. ArgsBefore(p2, c, N) = Args(p, c)
  <2>1. ArgsBefore(p2, c, N) = ArgsBefore(p, c, N) BY <1>1, ArgsLonger
  <2> QED BY <2>1 DEF Args
<1>3. /\ T \subseteq 1..Len(p2)
      /\ ArgsBefore(p2, c, N) = (IF S = {} THEN 0 ELSE p2[Last(S)].v)
      /\ ArgsBefore(p2, c, n) = (IF T = {} THEN 0 ELSE p2[Last(T)].v)
  BY <1>1, ArgsAtIs
<1>4. T = S
  <2>1. ASSUME NEW i \in T PROVE i <= Len(p)
    <3>1. i \in DOMAIN p2 /\ p2[i].c = c /\ p2[i].k \in {"hold", "proceed"} /\ p2[i].v # 2
      BY <2>1 DEF ArgsAt, At
    <3>2. ~(i > Len(p)) BY <3>1 DEF NoArgs
    <3> QED BY <1>0, <3>1, <3>2
  <2>2. \A i \in At(p2, c, {"hold", "proceed"}) : i \in Nat
    BY <1>0 DEF At
  <2>3. T \subseteq S BY <1>0, <2>1, <2>2 DEF ArgsAt
  <2>4. S \subseteq T BY <1>0, <2>2 DEF ArgsAt
  <2> QED BY <2>3, <2>4
<1> HIDE DEF S, T, N
<1> QED BY <1>2, <1>3, <1>4

\* A decision that gives arguments puts them in force.
LEMMA ArgsNew ==
    ASSUME NEW p, NEW p2, NEW b, Longer(p, p2, b), NEW c, Len(p2) = Len(p) + 1,
           p2[Len(p2)].c = c, p2[Len(p2)].k \in {"hold", "proceed"}, p2[Len(p2)].v # 2
    PROVE  Args(p2, c) = p2[Len(p2)].v
<1> DEFINE N == Len(p2) + 1
           T == ArgsAt(p2, c, N)
<1>0. Len(p) \in Nat /\ Len(p2) \in Nat /\ DOMAIN p = 1..Len(p) /\ DOMAIN p2 = 1..Len(p2)
      /\ N \in Nat
  BY LongerIs
<1>1. /\ T \subseteq 1..Len(p2)
      /\ Args(p2, c) = (IF T = {} THEN 0 ELSE p2[Last(T)].v)
  BY <1>0, ArgsAtIs DEF Args
<1>2. Len(p2) \in T BY <1>0 DEF ArgsAt, At
<1> HIDE DEF T, N
<1>3. Last(T) \in T /\ \A j \in T : j <= Last(T)
  BY <1>0, <1>1, <1>2, LastIs
<1>4. Last(T) = Len(p2)
  <2>1. Last(T) \in 1..Len(p2) /\ Len(p2) <= Last(T) BY <1>1, <1>2, <1>3
  <2> HIDE DEF Last
  <2> QED BY ONLY <1>0, <2>1
<1>5. T # {} /\ p2[Last(T)].v = p2[Len(p2)].v BY <1>2, <1>4
<1> QED BY ONLY <1>1, <1>5

\* Those in force are none, or ones that a decision gave.
LEMMA ArgsAre ==
    ASSUME NEW p, IsPath(p), NEW c
    PROVE  /\ Args(p, c) # 2
           /\ Args(p, c) # 0 => \E i \in DOMAIN p : p[i].c = c /\ p[i].k \in {"hold", "proceed"}
                                                    /\ p[i].v # 2
<1> DEFINE N == Len(p) + 1
           T == ArgsAt(p, c, N)
<1>0. Len(p) \in Nat /\ DOMAIN p = 1..Len(p) /\ N \in Nat /\ Longer(p, p, 0)
  BY DEF Longer, IsPath
<1>1. /\ T \subseteq 1..Len(p)
      /\ Args(p, c) = (IF T = {} THEN 0 ELSE p[Last(T)].v)
  BY <1>0, ArgsAtIs DEF Args
<1> HIDE DEF N
<1>2. \A i \in T : i \in DOMAIN p /\ p[i].c = c /\ p[i].k \in {"hold", "proceed"} /\ p[i].v # 2
  BY DEF ArgsAt, At
<1> HIDE DEF T
<1>3. T # {} => Last(T) \in T BY <1>0, <1>1, LastIs
<1>4. CASE T = {}
  <2>1. Args(p, c) = 0 BY ONLY <1>1, <1>4
  <2> QED BY <2>1
<1>5. CASE T # {}
  <2>1. Args(p, c) = p[Last(T)].v BY ONLY <1>1, <1>5
  <2> QED BY <1>2, <1>3, <1>5, <2>1
<1> QED BY <1>4, <1>5

\* The hand-off x of a call is a dispatch of path q.
RanAt(q, c, x) ==
    /\ x.at[2] \in Dispatches(q, c) /\ q[x.at[2]].b = x.at[1] /\ q[x.at[2]].v = x.key
    /\ ArgsBefore(q, c, x.at[2]) = x.args

\* A dispatch stays one, unless it is withdrawn.
LEMMA DispatchLonger ==
    ASSUME NEW p, NEW p2, NEW b, Longer(p, p2, b), NEW c, NEW i \in Dispatches(p, c),
           \/ \A j \in DOMAIN p2 : j > Len(p) /\ p2[j].c = c => p2[j].k # "withdraw"
           \/ \E m \in At(p, c, {"dispatch"}) : i < m
    PROVE  i \in Dispatches(p2, c)
<1>0. /\ Len(p) \in Nat /\ Len(p2) \in Nat /\ DOMAIN p = 1..Len(p) /\ DOMAIN p2 = 1..Len(p2)
      /\ \A K : At(p, c, K) = {j \in At(p2, c, K) : j <= Len(p)}
  BY LongerIs
<1>1. i \in At(p, c, {"dispatch"}) /\ i \in 1..Len(p)
  BY <1>0 DEF Dispatches, At
<1>2. i \in At(p2, c, {"dispatch"}) BY <1>0, <1>1
<1>3. ASSUME NEW j \in At(p2, c, {"withdraw"}), i < j
      PROVE  \E m \in At(p2, c, {"dispatch"}) : i < m /\ m < j
  <2>0. j \in DOMAIN p2 /\ j \in Nat /\ p2[j].c = c /\ p2[j].k = "withdraw"
    BY <1>0 DEF At
  <2>1. CASE j <= Len(p)
    <3>1. j \in At(p, c, {"withdraw"}) BY <1>0, <2>1
    <3>2. PICK m \in At(p, c, {"dispatch"}) : i < m /\ m < j
      BY <1>3, <3>1 DEF Dispatches
    <3> QED BY <1>0, <3>2
  <2>2. CASE j > Len(p)
    <3>1. PICK m \in At(p, c, {"dispatch"}) : i < m BY <2>0, <2>2
    <3>2. m \in 1..Len(p) /\ m \in At(p2, c, {"dispatch"})
      BY <1>0 DEF At
    <3> QED BY <1>0, <2>0, <2>2, <3>1, <3>2
  <2> QED BY <1>0, <2>0, <2>1, <2>2
<1> QED BY <1>2, <1>3 DEF Dispatches

\* So does a hand-off.
LEMMA RanLonger ==
    ASSUME NEW p, NEW p2, NEW b, Longer(p, p2, b), NEW c, NEW x, RanAt(p, c, x),
           \/ \A i \in DOMAIN p2 : i > Len(p) /\ p2[i].c = c => p2[i].k # "withdraw"
           \/ \E m \in At(p, c, {"dispatch"}) : x.at[2] < m
    PROVE  RanAt(p2, c, x)
<1> DEFINE i == x.at[2]
<1>0. Len(p) \in Nat /\ DOMAIN p = 1..Len(p) BY LongerIs
<1>1. i \in Dispatches(p, c) /\ i \in 1..Len(p)
  BY <1>0 DEF RanAt, Dispatches, At
<1>2. i \in Nat /\ i <= Len(p) + 1 /\ p2[i] = p[i]
  BY <1>0, <1>1 DEF Longer
<1>3. ArgsBefore(p2, c, i) = ArgsBefore(p, c, i) BY <1>2, ArgsLonger
<1>4. i \in Dispatches(p2, c) BY <1>1, DispatchLonger
<1> QED BY <1>2, <1>3, <1>4 DEF RanAt

-----------------------------------------------------------------------------
(* The calls ran as the log says.                                          *)

\* No decision of a call gives it arguments.
Plain(p) ==
    \A i \in DOMAIN p : p[i].c \in Calls /\ p[i].k \in {"hold", "proceed"} => p[i].v = 2

\* Arguments that a hook gave are not lost by a failed write.
NoneLost ==
    \/ budget.fails = 0
    \/ /\ budget.args \subseteq {0} /\ \A q \in left \cup {path} : Plain(q)
       /\ \A c \in Calls : rec[c].decided = 2

\* The record has the arguments in force, and a call that is about to be
\* dispatched has them.
DecidedInv(c) ==
    LET r == rec[c] IN
    /\ r.known /\ ~r.answered =>
          Args(path, c) = IF r.decided = 2 THEN 0 ELSE r.decided
    /\ st[c] = "ready" /\ failing = FALSE /\ r.known /\ ~r.rejected /\ ~r.ended =>
          Args(path, c) = how[c].args

ArgsInv == NoneLost /\ \A c \in Calls : DecidedInv(c)

\* What of a step of a run gives no arguments.
LEMMA LogNoArgs ==
    ASSUME LogStep, NEW d \in Calls, Quiet(d) \/ HandsOver(d) \/ Withdraws(d)
    PROVE  /\ NoArgs(path, path', d) /\ rec'[d].decided = rec[d].decided
           /\ rec'[d].known /\ ~rec'[d].answered =>
                 (rec[d].known /\ ~rec[d].answered) \/ st[d] = "new"
<1>0. Len(path) \in Nat /\ DOMAIN path' = 1..Len(path') /\ Len(path') \in Nat
  BY LongerIs DEF LogStep
<1>1. CASE Quiet(d) BY <1>1 DEF Quiet, NoArgs
<1>2. CASE HandsOver(d)
  <2>1. path'[Len(path')].k = "dispatch" BY <1>2, EntryIs DEF HandsOver
  <2> QED BY <1>2, <2>1 DEF HandsOver, NoArgs
<1>3. CASE Withdraws(d)
  <2>1. path'[Len(path')].k = "withdraw" /\ Len(path') = Len(path) + 1
    BY <1>3, EntryIs DEF Withdraws
  <2>2. \A i \in DOMAIN path' : i > Len(path) => i = Len(path')
    BY <1>0, <2>1
  <2> QED BY <1>3, <2>1, <2>2 DEF Withdraws, NoArgs
<1> QED BY <1>1, <1>2, <1>3

\* Where writes may fail there are no arguments to lose.
LEMMA NothingToLose ==
    ASSUME NoneLost, budget.fails # 0, NEW d \in Calls
    PROVE  ~CarriesOver(d) /\ ~LosesArgs(d)
BY DEF NoneLost, CarriesOver, LosesArgs, Carries

\* A path without decisions of a call has no arguments for it.
LEMMA ArgsNone ==
    ASSUME NEW p, IsPath(p), NEW c,
           \A i \in DOMAIN p : p[i].c = c /\ p[i].k \in {"hold", "proceed"} => p[i].v = 2
    PROVE  Args(p, c) = 0
BY ArgsAre

\* Within a run.
LEMMA ArgsLog ==
    ASSUME RecordInv, BudgetInv, Spent, ArgsInv, LogStep PROVE ArgsInv'
<1>0. /\ Longer(path, path', Cardinality(left)) /\ NoneLost
      /\ budget.args \subseteq {0, 1} /\ budget.fails \in Nat
  BY DEF LogStep, ArgsInv, BudgetInv
<1>1. ASSUME NEW d \in Calls
      PROVE  Quiet(d) \/ HandsOver(d) \/ Withdraws(d) \/ CarriesOver(d)
  <2>1. LosesArgs(d) => budget.fails # 0 BY <1>0 DEF LosesArgs
  <2> QED BY <1>0, <1>1, <2>1, NothingToLose DEF LogStep
<1>2. Len(path) \in Nat /\ Len(path') \in Nat /\ Len(path') + 1 \in Nat /\ Len(path) <= Len(path')
      /\ DOMAIN path = 1..Len(path) /\ DOMAIN path' = 1..Len(path')
  BY <1>0, LongerIs DEF Longer
<1>3. NoneLost'
  <2>1. CASE budget.fails = 0 BY <2>1 DEF Spent, NoneLost
  <2>2. CASE budget.fails # 0
    <3>1. budget.args \subseteq {0} /\ Plain(path) /\ \A d \in Calls : rec[d].decided = 2
      BY <1>0, <2>2 DEF NoneLost
    <3>11. left' = left /\ \A q \in left : Plain(q)
      BY <1>0, <2>2 DEF NoneLost, LogStep
    <3>2. \A d \in Calls : NoArgs(path, path', d) /\ rec'[d].decided = 2
      BY <1>0, <1>1, <2>2, <3>1, NothingToLose, LogNoArgs
    <3>3. Plain(path')
      <4> SUFFICES ASSUME NEW i \in DOMAIN path', path'[i].c \in Calls,
                          path'[i].k \in {"hold", "proceed"}
                   PROVE  path'[i].v = 2
        BY DEF Plain
      <4>1. CASE i > Len(path) BY <3>2, <4>1 DEF NoArgs
      <4>2. CASE ~(i > Len(path))
        <5>1. i \in DOMAIN path BY <1>2, <4>2
        <5> QED BY <1>0, <3>1, <5>1 DEF Longer, Plain
      <4> QED BY <4>1, <4>2
    <3> QED BY <3>1, <3>11, <3>2, <3>3 DEF NoneLost, Spent
  <2> QED BY <2>1, <2>2
<1>4. ASSUME NEW d \in Calls, Quiet(d) \/ HandsOver(d) \/ Withdraws(d)
      PROVE  /\ Args(path', d) = Args(path, d) /\ rec'[d].decided = rec[d].decided
             /\ rec'[d].known /\ ~rec'[d].answered =>
                   (rec[d].known /\ ~rec[d].answered) \/ st[d] = "new"
  <2>1. NoArgs(path, path', d) BY <1>4, LogNoArgs
  <2>2. Len(path') + 1 > Len(path) BY <1>2
  <2>3. Args(path', d) = Args(path, d)
    BY <1>0, <1>2, <2>1, <2>2, ArgsSame DEF Args
  <2> QED BY <1>4, <2>3, LogNoArgs
<1>5. ASSUME NEW d \in Calls, CarriesOver(d)
      PROVE  Args(path', d) = how'[d].args /\ rec'[d].decided = how'[d].args /\ how'[d].args # 2
  <2>1. how'[d].args # 2 /\ rec'[d].decided = how'[d].args
    BY <1>0, <1>5 DEF CarriesOver
  <2>2. Args(path', d) = path'[Len(path')].v
    BY <1>0, <1>5, <2>1, ArgsNew DEF CarriesOver
  <2> QED BY <1>5, <2>1, <2>2 DEF CarriesOver
<1>6. ASSUME NEW d \in Calls, rec'[d].known, ~rec'[d].answered
      PROVE  Args(path', d) = IF rec'[d].decided = 2 THEN 0 ELSE rec'[d].decided
  <2>1. CASE CarriesOver(d) BY <1>5, <2>1
  <2>2. CASE ~CarriesOver(d) /\ rec[d].known /\ ~rec[d].answered
    <3>1. Args(path, d) = IF rec[d].decided = 2 THEN 0 ELSE rec[d].decided
      BY <2>2 DEF ArgsInv, DecidedInv
    <3> QED BY <1>1, <1>4, <2>2, <3>1
  <2>3. CASE ~CarriesOver(d) /\ st[d] = "new"
    <3>1. CallInv(d) /\ IsPath(path) BY LogOf DEF BranchInv
    <3>2. Args(path, d) = 0 BY <2>3, <3>1, ArgsNone DEF CallInv
    <3>3. rec[d].decided = 2 BY <2>3, <3>1 DEF CallInv, NoRecord
    <3> QED BY <1>1, <1>4, <2>3, <3>2, <3>3
  <2> QED BY <1>1, <1>4, <1>6, <2>1, <2>2, <2>3
<1>7. ASSUME NEW d \in Calls, st'[d] = "ready", failing' = FALSE, rec'[d].known,
             ~rec'[d].rejected, ~rec'[d].ended
      PROVE  Args(path', d) = how'[d].args
  <2>1. \/ /\ st[d] = "ready" /\ failing = FALSE /\ rec'[d] = rec[d] /\ Quiet(d)
           /\ how'[d].args = how[d].args
        \/ /\ st[d] = "todo" /\ rec[d].known /\ ~rec[d].answered
           /\ CarriesOver(d) \/ (Quiet(d) /\ ~Carries(rec[d], how'[d].args))
    BY <1>7 DEF LogStep, GetsReady
  <2>2. CASE /\ st[d] = "ready" /\ failing = FALSE /\ rec'[d] = rec[d] /\ Quiet(d)
             /\ how'[d].args = how[d].args
    BY <1>4, <1>7, <2>2 DEF ArgsInv, DecidedInv
  <2>3. CASE CarriesOver(d) BY <1>5, <2>3
  <2>4. CASE rec[d].known /\ ~rec[d].answered /\ Quiet(d) /\ ~Carries(rec[d], how'[d].args)
    <3>1. Args(path, d) = IF rec[d].decided = 2 THEN 0 ELSE rec[d].decided
      BY <2>4 DEF ArgsInv, DecidedInv
    <3> QED BY <1>4, <2>4, <3>1 DEF Carries
  <2> QED BY <2>1, <2>2, <2>3, <2>4
<1>8. \A d \in Calls : DecidedInv(d)' BY <1>6, <1>7 DEF DecidedInv
<1> QED BY <1>3, <1>8 DEF ArgsInv

\* A path with one more entry.
OneMore(p, e, p2) ==
    /\ Longer(p, p2, e.b) /\ Len(p2) = Len(p) + 1 /\ p2[Len(p2)] = e
    /\ \A i \in DOMAIN p2 : i > Len(p) => p2[i] = e

\* Append makes one.
LEMMA OneLonger ==
    ASSUME NEW p, IsPath(p), NEW e
    PROVE  OneMore(p, e, Append(p, e))
<1> DEFINE p2 == Append(p, e)
<1>1. Grown(p, e, p2) BY DEF Grown
<1>2. /\ IsPath(p2) /\ Len(p) \in Nat /\ Len(p2) = Len(p) + 1
      /\ DOMAIN p = 1..Len(p) /\ DOMAIN p2 = 1..(Len(p) + 1)
      /\ \A i \in DOMAIN p : p2[i] = p[i]
      /\ p2[Len(p) + 1] = e
  BY <1>1, Grow
<1> HIDE DEF p2
<1>3. \A i \in DOMAIN p2 : i > Len(p) => p2[i] = e
  <2>1. \A i \in 1..(Len(p) + 1) : i > Len(p) => i = Len(p) + 1 BY <1>2
  <2> QED BY <1>2, <2>1
<1>4. Len(p) <= Len(p2) BY <1>2
<1> QED BY <1>2, <1>3, <1>4 DEF Longer, OneMore, p2

\* Where a run begins or ends.
LEMMA ArgsNoted ==
    ASSUME RecordInv, ArgsInv, Spent, NEW e, e.k \in {"start", "end"},
           path' = Append(path, e), left' = left, rec' = rec,
           \A c \in Calls : st'[c] # "ready"
    PROVE  ArgsInv'
<1>0. IsPath(path) BY LogOf DEF BranchInv
<1>a. OneMore(path, e, path') BY <1>0, OneLonger
<1>1. /\ Longer(path, path', e.b) /\ Len(path') = Len(path) + 1
      /\ \A i \in DOMAIN path' : i > Len(path) => path'[i] = e
  BY <1>a DEF OneMore
<1>2. /\ Len(path) \in Nat /\ Len(path') \in Nat /\ DOMAIN path = 1..Len(path)
      /\ DOMAIN path' = 1..Len(path')
  BY <1>1, LongerIs
<1>3. \A c \in Calls : NoArgs(path, path', c) BY <1>1 DEF NoArgs
<1>4. Len(path') + 1 \in Nat /\ Len(path') + 1 > Len(path) BY <1>1, <1>2
<1>5. \A c \in Calls : Args(path', c) = Args(path, c)
  BY <1>1, <1>3, <1>4, ArgsSame DEF Args
<1>6. Plain(path) => Plain(path')
  <2> SUFFICES ASSUME Plain(path), NEW i \in DOMAIN path', path'[i].c \in Calls,
                      path'[i].k \in {"hold", "proceed"}
               PROVE  path'[i].v = 2
    BY DEF Plain
  <2>1. ~(i > Len(path)) BY <1>1
  <2>2. i \in DOMAIN path BY <1>2, <2>1
  <2> QED BY <1>1, <2>2 DEF Longer, Plain
<1>7. NoneLost' BY <1>6 DEF ArgsInv, NoneLost, Spent
<1>8. \A c \in Calls : DecidedInv(c)' BY <1>5 DEF ArgsInv, DecidedInv
<1> QED BY <1>7, <1>8 DEF ArgsInv

\* The arguments of a record that is read back.
LEMMA SeedArgs ==
    ASSUME NEW p, NEW l, NEW c
    PROVE  LET r == CallRecordOf(p, l, c) IN
           /\ r.known /\ ~r.answered => r.decided = IF Args(p, c) = 0 THEN 2 ELSE Args(p, c)
           /\ r.decided = 2 \/ r.decided = IF Args(p, c) = 0 THEN 2 ELSE Args(p, c)
<1> DEFINE r == CallRecordOf(p, l, c)
           x == IF Args(p, c) = 0 THEN 2 ELSE Args(p, c)
<1>1. CASE ~Has(p, c, {"call"})
  <2>1. r = NoRecord BY <1>1 DEF CallRecordOf
  <2>2. ~NoRecord.known /\ NoRecord.decided = 2 BY DEF NoRecord
  <2> HIDE DEF r, x
  <2> QED BY ONLY <2>1, <2>2 DEF r, x
<1>2. CASE Has(p, c, {"call"}) /\ Has(p, c, {"output"})
  <2> DEFINE d == Dispatched(p, c)
  <2> HIDE DEF d
  <2>1. r = [NoRecord EXCEPT !.known = TRUE, !.answered = TRUE, !.dispatched = d]
    BY <1>2 DEF CallRecordOf, d
  <2>2. r.answered = TRUE /\ r.decided = 2
    <3> HIDE DEF r
    <3> QED BY ONLY <2>1 DEF NoRecord
  <2> HIDE DEF r, x
  <2> QED BY ONLY <2>2 DEF r, x
<1>3. CASE Has(p, c, {"call"}) /\ ~Has(p, c, {"output"})
  <2> HIDE DEF x
  <2>1. r.decided = x BY <1>3 DEF CallRecordOf, NoRecord, x
  <2> HIDE DEF r
  <2> QED BY ONLY <2>1 DEF r, x
<1> QED BY <1>1, <1>2, <1>3

\* After a crash or a rewind.
LEMMA ArgsSeeded ==
    ASSUME ArgsInv, Spent, IsPath(path'), Seeded(path', left'),
           (\A q \in left \cup {path} : Plain(q)) => \A q \in left' \cup {path'} : Plain(q)
    PROVE  ArgsInv'
<1>1. ASSUME NEW c \in Calls
      PROVE  /\ st'[c] # "ready"
             /\ rec'[c] = CallRecordOf(path', left', c)
  BY DEF Seeded
<1>2. ASSUME NEW c \in Calls
      PROVE  /\ rec'[c].known /\ ~rec'[c].answered =>
                   rec'[c].decided = IF Args(path', c) = 0 THEN 2 ELSE Args(path', c)
             /\ rec'[c].decided = 2 \/
                   rec'[c].decided = IF Args(path', c) = 0 THEN 2 ELSE Args(path', c)
  BY <1>1, <1>2, SeedArgs
<1>3. \A c \in Calls : Args(path', c) # 2 BY ArgsAre
<1>4. \A c \in Calls : DecidedInv(c)' BY <1>1, <1>2, <1>3 DEF DecidedInv
<1>5. Plain(path') => \A c \in Calls : rec'[c].decided = 2
  <2> SUFFICES ASSUME Plain(path'), NEW c \in Calls PROVE rec'[c].decided = 2
    OBVIOUS
  <2>1. Args(path', c) = 0 BY ArgsNone DEF Plain
  <2> QED BY <1>2, <2>1
<1>6. NoneLost' BY <1>5 DEF ArgsInv, NoneLost, Spent
<1> QED BY <1>4, <1>6 DEF ArgsInv

\* A path that a run's end closes.
LEMMA ClosedLonger ==
    ASSUME NEW p, IsPath(p), NEW b, NEW p2, p2 = Closed(p, b)
    PROVE  Longer(p, p2, b) /\ \A i \in DOMAIN p2 : i > Len(p) => p2[i].k = "end"
<1>1. CASE p2 = p
  <2>1. \A i \in DOMAIN p2 : ~(i > Len(p)) BY <1>1 DEF IsPath
  <2>2. Len(p) <= Len(p2) BY <1>1 DEF IsPath
  <2> QED BY <1>1, <2>1, <2>2 DEF Longer
<1>2. ASSUME NEW e, e.k = "end", e.b = b, p2 = Append(p, e)
      PROVE  Longer(p, p2, b) /\ \A i \in DOMAIN p2 : i > Len(p) => p2[i].k = "end"
  <2>1. OneMore(p, e, p2) BY <1>2, OneLonger
  <2> QED BY ONLY <1>2, <2>1 DEF OneMore
<1> QED BY <1>1, <1>2, ClosedIs

\* A path that a run's end closes, and the start of one.
LEMMA PlainClosed ==
    ASSUME NEW p, IsPath(p), Plain(p), NEW b
    PROVE  Plain(Closed(p, b))
<1>1. CASE Closed(p, b) = p BY <1>1
<1>2. ASSUME NEW e, e.k = "end", Closed(p, b) = Append(p, e)
      PROVE  Plain(Closed(p, b))
  <2> DEFINE p2 == Closed(p, b)
  <2>1. Longer(p, p2, e.b) /\ \A i \in DOMAIN p2 : i > Len(p) => p2[i] = e
    BY <1>2, OneLonger DEF OneMore
  <2>2. DOMAIN p = 1..Len(p) /\ DOMAIN p2 = 1..Len(p2) /\ Len(p) \in Nat /\ Len(p2) \in Nat
    BY <2>1, LongerIs
  <2> HIDE DEF p2
  <2>3. ASSUME NEW i \in DOMAIN p2, p2[i].c \in Calls, p2[i].k \in {"hold", "proceed"}
        PROVE  p2[i].v = 2
    <3>1. ~(i > Len(p)) BY <1>2, <2>1, <2>3
    <3>2. i \in DOMAIN p BY <2>2, <3>1
    <3> QED BY <2>1, <2>3, <3>2 DEF Longer, Plain
  <2> QED BY <2>3 DEF Plain, p2
<1> QED BY <1>1, <1>2, ClosedIs

\* And a path that is cut.
LEMMA PlainCut ==
    ASSUME NEW p, IsPath(p), Plain(p), NEW m \in 0..Len(p)
    PROVE  Plain(SubSeq(p, 1, m))
<1>1. /\ DOMAIN SubSeq(p, 1, m) = 1..m /\ DOMAIN p = 1..Len(p) /\ Len(p) \in Nat
      /\ \A i \in 1..m : SubSeq(p, 1, m)[i] = p[i]
  BY Cut
<1>2. \A i \in 1..m : i \in DOMAIN p BY <1>1
<1> QED BY <1>1, <1>2 DEF Plain

\* Where the record is opened again.
LEMMA ArgsReopened ==
    ASSUME RecordInv, ArgsInv, Spent, CrashAndResume \/ Rewinds
    PROVE  ArgsInv'
<1>0. IsPath(path) /\ BranchInv(path, left) BY LogOf DEF BranchInv
<1>1. CASE CrashAndResume
  <2>1. path' = Closed(path, Cardinality(left)) /\ left' = left /\ Seeded(path', left')
    BY <1>1 DEF CrashAndResume
  <2>2. IsPath(path') BY <1>0, <2>1, ClosedLonger DEF Longer
  <2>3. Plain(path) => Plain(path') BY <1>0, <2>1, PlainClosed
  <2> QED BY <2>1, <2>2, <2>3, ArgsSeeded
<1>2. ASSUME NEW x, NEW n, Rebase(x, n) PROVE ArgsInv'
  <2> DEFINE q == SubSeq(x, 1, n)
             l == left \cup {path}
             b == Cardinality(l)
  <2>1. /\ x \in l /\ n \in 0..Len(x) /\ left' = l /\ path' = Closed(q, b)
        /\ Seeded(path', left')
    BY <1>2 DEF Rebase
  <2>2. IsPath(x) /\ IsPath(q) /\ BranchInv(Closed(q, b), l)
    <3>1. \A c \in Calls : ResultInv(path, c) BY LogOf DEF SoundInv
    <3> QED BY <1>0, <2>1, <3>1, BranchCut, BranchLeft
  <2>3. Plain(x) => Plain(q) BY <2>1, <2>2, PlainCut
  <2> HIDE DEF q, b, l
  <2>5. IsPath(path') BY <2>1, <2>2 DEF BranchInv
  <2>6. Plain(x) => Plain(path') BY <2>1, <2>2, <2>3, PlainClosed
  <2> QED BY <2>1, <2>5, <2>6, ArgsSeeded DEF l
<1> QED BY <1>1, <1>2 DEF Rewinds

\* Every step keeps the arguments.
LEMMA NextArgs ==
    ASSUME SoundlyInv, RefusalsHold, ArgsInv, [Next]_vars PROVE ArgsInv'
<1>0. RecordInv /\ BudgetInv /\ TrueInv /\ PendInv BY DEF SoundlyInv
<1>1. Spent BY <1>0, BudgetSpent
<1>2. CASE InRun BY <1>0, <1>1, <1>2, InRunLog, ArgsLog
<1>3. CASE RunStart
  <2>1. /\ path' = Append(path, Entry("start", 0, 1)) /\ rec' = rec /\ st' = st /\ phase = "idle"
        /\ left' = left
    BY <1>3 DEF RunStart
  <2>2. \A c \in Calls : st'[c] # "ready"
    BY <1>0, <2>1 DEF TrueInv, GivenInv
  <2>3. Entry("start", 0, 1).k = "start" BY EntryIs
  <2> QED BY <1>0, <1>1, <2>1, <2>2, <2>3, ArgsNoted
<1>4. CASE Resume
  <2>1. /\ path' = Append(path, Entry("start", 0, nrun + 1)) /\ rec' = rec /\ phase = "idle"
        /\ left' = left
    BY <1>4 DEF Resume
  <2>2. \A c \in Calls : st'[c] = st[c] \/ st'[c] \in {"answer", "todo"}
    BY <1>0, <1>4, ResumeIs
  <2>3. \A c \in Calls : st'[c] # "ready"
    BY <1>0, <2>1, <2>2 DEF TrueInv, GivenInv
  <2>4. Entry("start", 0, nrun + 1).k = "start" BY EntryIs
  <2> QED BY <1>0, <1>1, <2>1, <2>3, <2>4, ArgsNoted
<1>5. CASE RunEnd
  <2>1. /\ path' = Append(path, Entry("end", 0, open)) /\ rec' = rec /\ left' = left
        /\ \A c \in Calls : st'[c] # "ready"
    BY <1>5 DEF RunEnd
  <2>2. Entry("end", 0, open).k = "end" BY EntryIs
  <2> QED BY <1>0, <1>1, <2>1, <2>2, ArgsNoted
<1>6. CASE CrashAndResume \/ Rewinds BY <1>0, <1>1, <1>6, ArgsReopened
<1> QED BY <1>2, <1>3, <1>4, <1>5, <1>6, NextIs

\* Where a write fails no hook gives a call other arguments than the model's.
ArgsKept == \A b \in Budgets : b.fails = 0 \/ b.args \subseteq {0}

\* Nothing is decided at first.
LEMMA InitArgs ==
    ASSUME ArgsKept, Init PROVE ArgsInv
<1>1. /\ path = <<>> /\ left = {} /\ budget \in Budgets
      /\ \A c \in Calls : rec[c] = NoRecord /\ st[c] = "new"
  BY DEF Init
<1>2. NoRecord.decided = 2 /\ ~NoRecord.known BY DEF NoRecord
<1>3. Plain(path) BY <1>1 DEF Plain
<1>4. NoneLost BY <1>1, <1>2, <1>3 DEF NoneLost, ArgsKept
<1> QED BY <1>1, <1>2, <1>4 DEF ArgsInv, DecidedInv

-----------------------------------------------------------------------------
(* What a rewind to any entry finds.                                       *)

\* The entry of a hand-off, on a path that grows.
LEMMA AtLonger ==
    ASSUME NEW p, NEW p2, NEW l, Longer(p, p2, Cardinality(l)), NEW c, NEW at,
           AtInv(p, l, c, at),
           \/ \A i \in DOMAIN p2 : i > Len(p) /\ p2[i].c = c => p2[i].k # "withdraw"
           \/ HasEntry(p, at) => \E m \in At(p, c, {"dispatch"}) : at[2] < m
    PROVE  AtInv(p2, l, c, at)
<1>1. /\ Len(p) \in Nat /\ Len(p2) \in Nat /\ DOMAIN p = 1..Len(p) /\ DOMAIN p2 = 1..Len(p2)
      /\ Len(p) <= Len(p2)
  BY LongerIs DEF Longer
<1>2. at[2] \in Nat /\ (at[1] = Cardinality(l) => at[2] <= Len(p))
  BY DEF AtInv
<1>3. HasEntry(p2, at) <=> HasEntry(p, at)
  <2>1. CASE at[2] > Len(p) BY <1>1, <1>2, <2>1 DEF HasEntry, Longer
  <2>2. CASE ~(at[2] > Len(p))
    <3>1. at[2] \in DOMAIN p2 <=> at[2] \in DOMAIN p BY <1>1, <1>2, <2>2
    <3> QED BY <3>1 DEF HasEntry, Longer
  <2> QED BY <2>1, <2>2
<1>4. HasEntry(p2, at) => at[2] \in Dispatches(p2, c)
  <2> SUFFICES ASSUME HasEntry(p2, at) PROVE at[2] \in Dispatches(p2, c)
    OBVIOUS
  <2>1. HasEntry(p, at) /\ at[2] \in Dispatches(p, c) BY <1>3 DEF AtInv
  <2> QED BY <2>1, DispatchLonger
<1>5. \E q \in l \cup {p2} : HasEntry(q, at) BY <1>3 DEF AtInv
<1>6. \A q \in l \cup {p2} : HasEntry(q, at) => at[2] \in Dispatches(q, c)
  BY <1>4 DEF AtInv
<1>7. at[1] = Cardinality(l) => at[2] <= Len(p2) BY <1>1, <1>2
<1> QED BY <1>5, <1>6, <1>7 DEF AtInv

\* On a branch that is begun.
LEMMA AtCut ==
    ASSUME NEW p, NEW l, BranchInv(p, l), \A d \in Calls : ResultInv(p, d),
           NEW x \in l \cup {p}, NEW m \in 0..Len(x), NEW c, NEW at, AtInv(p, l, c, at)
    PROVE  AtInv(SubSeq(x, 1, m), l \cup {p}, c, at)
<1> DEFINE q == SubSeq(x, 1, m)
           l2 == l \cup {p}
<1>1. /\ IsFiniteSet(l2) /\ IsPath(x)
      /\ \A y \in l2 : \A i \in DOMAIN y : y[i].b \in Nat /\ y[i].b < Cardinality(l2)
  BY LeftOlder
<1>2. Cardinality(l2) \in Nat BY <1>1, FS_CardinalityType
<1>3. PICK y \in l2 : HasEntry(y, at) BY DEF AtInv
<1>4. at \in Nat \X Nat /\ at[1] < Cardinality(l2)
  BY <1>1, <1>3 DEF AtInv, HasEntry
<1>5. HasEntry(q, at) => at[2] \in Dispatches(q, c)
  <2> SUFFICES ASSUME HasEntry(q, at) PROVE at[2] \in Dispatches(q, c)
    OBVIOUS
  <2>1. /\ DOMAIN q = 1..m /\ DOMAIN x = 1..Len(x) /\ Len(x) \in Nat
        /\ \A i \in 1..m : q[i] = x[i]
    BY <1>1, Cut
  <2> HIDE DEF q
  <2>2. at[2] \in 1..m /\ HasEntry(x, at) BY <2>1 DEF HasEntry
  <2>3. at[2] \in Dispatches(x, c) BY <2>2 DEF AtInv
  <2> QED BY <1>1, <2>2, <2>3, DispatchCut DEF q
<1> HIDE DEF q, l2
<1>6. \A z \in l2 \cup {q} : HasEntry(z, at) => at[2] \in Dispatches(z, c)
  BY <1>5 DEF AtInv, l2
<1>7. at[1] <= Cardinality(l2) /\ at[1] # Cardinality(l2) BY <1>2, <1>4
<1>8. AtInv(q, l2, c, at) BY <1>3, <1>4, <1>6, <1>7 DEF AtInv
<1> QED BY <1>8 DEF q, l2

\* What a step of a run writes of a call without withdrawing it.
LEMMA NoWithdraw ==
    ASSUME LogStep, NEW c \in Calls, ~Withdraws(c)
    PROVE  \A j \in DOMAIN path' : j > Len(path) /\ path'[j].c = c => path'[j].k # "withdraw"
<1>0. /\ Longer(path, path', Cardinality(left))
      /\ Quiet(c) \/ CarriesOver(c) \/ LosesArgs(c) \/ HandsOver(c)
  BY DEF LogStep
<1>1. Len(path) \in Nat /\ Len(path') \in Nat /\ DOMAIN path' = 1..Len(path')
  BY <1>0, LongerIs
<1>2. CASE Quiet(c) BY <1>2 DEF Quiet
<1>3. CASE HandsOver(c)
  <2>1. path'[Len(path')].k = "dispatch" BY <1>3, EntryIs DEF HandsOver
  <2> QED BY <1>3, <2>1 DEF HandsOver
<1>4. CASE CarriesOver(c)
  <2>1. path'[Len(path')].k \in {"hold", "proceed"} /\ Len(path') = Len(path) + 1
    BY <1>4 DEF CarriesOver
  <2>2. \A j \in DOMAIN path' : j > Len(path) => j = Len(path')
    BY <1>1, <2>1
  <2> QED BY <2>1, <2>2
<1>5. CASE LosesArgs(c) BY <1>5 DEF LosesArgs
<1> QED BY <1>0, <1>2, <1>3, <1>4, <1>5

\* A dispatch that is withdrawn is after those of the hand-offs.
LEMMA StoppedLast ==
    ASSUME RecordInv, FirmInv, LogStep, NEW c \in Calls, Withdraws(c),
           NEW i \in DOMAIN hands[c]
    PROVE  \E m \in At(path, c, {"dispatch"}) :
              \A j \in At(path, c, {"dispatch"}) :
                 hands[c][i].at[2] = j /\ path[j].b = hands[c][i].at[1] => j < m
<1> DEFINE at == hands[c][i].at
<1>0. Len(path) \in Nat /\ DOMAIN path = 1..Len(path)
  BY LongerIs DEF LogStep
<1>1. Mine(rec[c], run) /\ st[c] = "stopped" /\ rec[c].known /\ ~rec[c].answered
  BY DEF Withdraws
<1>2. UndoInv(path, left, run, c, rec[c]) BY LogOf DEF SoundInv
<1>3. PICK m \in At(path, c, {"dispatch"}) : \A j \in At(path, c, {"dispatch"}) : j <= m
  BY <1>1, <1>2 DEF UndoInv
<1>4. ~(at[2] = m /\ at[1] = path[m].b)
  BY <1>1, <1>3 DEF FirmInv, StopInv
<1> HIDE DEF at
<1>5. ASSUME NEW j \in At(path, c, {"dispatch"}), at[2] = j, path[j].b = at[1]
      PROVE  j < m
  <2>1. j \in Nat /\ m \in Nat /\ j <= m /\ j # m
    BY <1>0, <1>3, <1>4, <1>5 DEF At
  <2> QED BY <2>1
<1> QED BY <1>5 DEF at

\* Within a run, what was handed over before stays so.
LEMMA AtStays ==
    ASSUME RecordInv, FirmInv, LogStep, NEW c \in Calls, NEW i \in DOMAIN hands[c]
    PROVE  AtInv(path', left, c, hands[c][i].at)
<1> DEFINE at == hands[c][i].at
<1>0. Longer(path, path', Cardinality(left)) /\ AtInv(path, left, c, at)
  BY DEF LogStep, FirmInv
<1>1. CASE Withdraws(c)
  <2>1. PICK m \in At(path, c, {"dispatch"}) :
              \A j \in At(path, c, {"dispatch"}) : at[2] = j /\ path[j].b = at[1] => j < m
    BY <1>1, StoppedLast
  <2> HIDE DEF at
  <2>2. HasEntry(path, at) => at[2] < m
    BY <1>0, <2>1 DEF AtInv, HasEntry, Dispatches
  <2>3. AtInv(path', left, c, at) BY <1>0, <2>2, AtLonger
  <2> QED BY <2>3 DEF at
<1>2. CASE ~Withdraws(c)
  <2>1. \A j \in DOMAIN path' : j > Len(path) /\ path'[j].c = c => path'[j].k # "withdraw"
    BY <1>2, NoWithdraw
  <2> HIDE DEF at
  <2>2. AtInv(path', left, c, at) BY <1>0, <2>1, AtLonger
  <2> QED BY <2>2 DEF at
<1> QED BY <1>1, <1>2

\* A call is handed over with the dispatch written before.
LEMMA AtOver ==
    ASSUME RecordInv, LogStep, NEW c \in Calls, HandsOver(c)
    PROVE  AtInv(path', left, c, <<Cardinality(left), Len(path')>>)
<1> DEFINE at == <<Cardinality(left), Len(path')>>
           n == Len(path')
<1>0. /\ Longer(path, path', Cardinality(left)) /\ IsFiniteSet(left) /\ BranchInv(path, left)
  BY LogOf DEF LogStep, BranchInv
<1>1. /\ Len(path) \in Nat /\ n \in Nat /\ DOMAIN path = 1..Len(path) /\ DOMAIN path' = 1..n
      /\ Cardinality(left) \in Nat
  BY <1>0, LongerIs, FS_CardinalityType
<1>2. n > Len(path) /\ path'[n].k = "dispatch" /\ path'[n].c = c
      /\ path'[n].b = Cardinality(left)
  BY EntryIs DEF HandsOver
<1>3. n \in Dispatches(path', c)
  <2>1. n \in At(path', c, {"dispatch"}) BY <1>1, <1>2 DEF At
  <2>2. \A j \in At(path', c, {"withdraw"}) : ~(n < j) BY <1>1 DEF At
  <2> QED BY <2>1, <2>2 DEF Dispatches
<1>4. at \in Nat \X Nat /\ at[1] = Cardinality(left) /\ at[2] = n
  BY <1>1
<1> HIDE DEF at, n
<1>5. HasEntry(path', at) BY <1>1, <1>2, <1>4 DEF HasEntry
<1>6. ASSUME NEW q \in left PROVE ~HasEntry(q, at)
  BY <1>0, <1>1, <1>4 DEF HasEntry, BranchInv
<1>7. AtInv(path', left, c, at)
  BY <1>1, <1>3, <1>4, <1>5, <1>6 DEF AtInv, n
<1> QED BY <1>7 DEF at, n

\* The dispatch of a call that is stopped is of no hand-off.
LEMMA StopStep ==
    ASSUME RecordInv, FirmInv, LogStep, NEW c \in Calls, hands'[c] = hands[c]
    PROVE  StopInv(c)'
<1>0. Longer(path, path', Cardinality(left)) /\ left' = left /\ run' = run
  BY DEF LogStep
<1>1. Quiet(c) \/ HandsOver(c) \/ Withdraws(c) \/ CarriesOver(c) \/ LosesArgs(c)
  BY DEF LogStep
<1>2. /\ Len(path) \in Nat /\ Len(path') \in Nat /\ DOMAIN path = 1..Len(path)
      /\ DOMAIN path' = 1..Len(path')
      /\ At(path, c, {"dispatch"}) = {i \in At(path', c, {"dispatch"}) : i <= Len(path)}
  BY <1>0, LongerIs
<1> SUFFICES ASSUME Mine(rec'[c], run), st'[c] = "stopped",
                    NEW m \in At(path', c, {"dispatch"}),
                    \A j \in At(path', c, {"dispatch"}) : j <= m,
                    NEW i \in DOMAIN hands[c]
             PROVE  ~(hands[c][i].at[2] = m /\ hands[c][i].at[1] = path'[m].b)
  BY <1>0 DEF StopInv
<1>3. CASE Quiet(c)
  <2>1. Mine(rec[c], run) /\ st[c] = "stopped" BY <1>3 DEF Quiet
  <2>2. \A j \in At(path', c, {"dispatch"}) : j <= Len(path)
    <3>1. ASSUME NEW j \in At(path', c, {"dispatch"}) PROVE ~(j > Len(path))
      BY <1>3, <3>1 DEF Quiet, At
    <3> QED BY <1>2, <3>1 DEF At
  <2>3. At(path, c, {"dispatch"}) = At(path', c, {"dispatch"}) /\ path'[m] = path[m]
    <3>1. m \in DOMAIN path BY <1>2, <2>2 DEF At
    <3> QED BY <1>0, <1>2, <2>2, <3>1 DEF Longer
  <2> QED BY <2>1, <2>3 DEF FirmInv, StopInv
<1>4. CASE HandsOver(c)
  <2> DEFINE n == Len(path')
             at == hands[c][i].at
  <2>1. n > Len(path) /\ path'[n].k = "dispatch" /\ path'[n].c = c
        /\ path'[n].b = Cardinality(left)
    BY <1>4, EntryIs DEF HandsOver
  <2>2. n \in At(path', c, {"dispatch"}) BY <1>2, <2>1 DEF At
  <2>3. m = n
    <3>1. m \in 1..n /\ n <= m BY <1>2, <2>2 DEF At
    <3> QED BY <1>2, <3>1
  <2>4. AtInv(path, left, c, at) BY DEF FirmInv
  <2> HIDE DEF n, at
  <2>5. at[1] = Cardinality(left) => at[2] <= Len(path) /\ at[2] \in Nat
    BY <2>4 DEF AtInv
  <2>6. ~(at[2] = n /\ at[1] = Cardinality(left))
    BY <1>2, <2>1, <2>5 DEF n
  <2> QED BY <2>1, <2>3, <2>6 DEF at
<1>5. CASE Withdraws(c) \/ CarriesOver(c) \/ LosesArgs(c)
  BY <1>5 DEF Withdraws, CarriesOver, LosesArgs
<1> QED BY <1>1, <1>3, <1>4, <1>5

\* What a path that was left tells of a call given to its tool once more.
LEMMA TellsGiven ==
    ASSUME RecordInv, NEW q \in left, NEW c, NEW hs, NEW hs2, NEW x,
           OneMore(hs, x, hs2), NEW n, x.at = <<Cardinality(left), n>>, Tells(q, c, hs)
    PROVE  Tells(q, c, hs2)
<1>0. BranchInv(path, left) BY LogOf
<1>1. /\ Len(hs) \in Nat /\ Len(hs2) \in Nat /\ DOMAIN hs = 1..Len(hs)
      /\ DOMAIN hs2 = 1..Len(hs2) /\ Len(hs2) = Len(hs) + 1
      /\ \A i \in DOMAIN hs2 : i > Len(hs) => hs2[i] = x
      /\ \A i \in DOMAIN hs : hs2[i] = hs[i]
  BY LongerIs DEF OneMore, Longer
<1>2. hs2 # <<>> BY <1>1
<1>3. x.at # <<>> /\ x.at[1] = Cardinality(left)
  <2>1. Len(<<Cardinality(left), n>>) = 2 /\ Len(<<>>) = 0 OBVIOUS
  <2>2. <<Cardinality(left), n>>[1] = Cardinality(left) OBVIOUS
  <2> QED BY <2>1, <2>2
<1>4. ASSUME NEW i \in At(q, c, {"reject"}), NEW j \in DOMAIN hs2
      PROVE  hs2[j].at # <<>> /\ hs2[j].at[1] > q[i].b
  <2>1. CASE j \in DOMAIN hs
    <3>1. hs2[j] = hs[j] BY <1>1, <2>1
    <3> QED BY <2>1, <3>1 DEF Tells, RejectInv
  <2>2. CASE j \notin DOMAIN hs
    <3>1. hs2[j] = x BY <1>1, <2>2
    <3>2. q[i].b \in Nat /\ q[i].b < Cardinality(left) /\ Cardinality(left) \in Nat
      BY <1>0, FS_CardinalityType DEF BranchInv, At
    <3> QED BY <1>3, <3>1, <3>2
  <2> QED BY <2>1, <2>2
<1> QED BY <1>2, <1>4 DEF Tells, RejectInv, OutputInv

\* Within a run.
LEMMA FirmLog ==
    ASSUME RecordInv, TrueInv, FirmInv, LogStep, \A d \in Calls : RunStep(d)
    PROVE  FirmInv'
<1> SUFFICES ASSUME NEW c \in Calls
             PROVE  /\ StopInv(c)'
                    /\ \A q \in left' : Tells(q, c, hands'[c])
                    /\ \A i \in DOMAIN hands'[c] : AtInv(path', left', c, hands'[c][i].at)
  BY DEF FirmInv
<1>0. left' = left BY DEF LogStep
<1>1. CASE hands'[c] = hands[c]
  <2>1. \A q \in left : Tells(q, c, hands[c]) BY DEF FirmInv
  <2> QED BY <1>0, <1>1, <2>1, AtStays, StopStep
<1>2. CASE IsGiven(c)
  <2> DEFINE x == [key |-> how[c].key, args |-> how[c].args,
                   at |-> <<Cardinality(left), Len(path')>>]
             hs == hands[c]
  <2>1. HandsOver(c) /\ st'[c] = "handed" BY <1>2 DEF LogStep, IsGiven
  <2>2. hands'[c] = Append(hs, x) /\ x.at = <<Cardinality(left), Len(path')>>
    BY <2>1 DEF HandsOver
  <2>3. AtInv(path', left, c, x.at) BY <2>1, AtOver
  <2>4. IsPath(hs) /\ \A q \in left : Tells(q, c, hs)
    BY DEF TrueInv, GivenInv, FirmInv
  <2>5. \A i \in DOMAIN hs : AtInv(path', left, c, hs[i].at) BY AtStays
  <2> HIDE DEF x, hs
  <2>6. OneMore(hs, x, hands'[c]) BY <2>2, <2>4, OneLonger
  <2>7. DOMAIN hs = 1..Len(hs) /\ DOMAIN hands'[c] = 1..Len(hands'[c]) /\ Len(hs) \in Nat
        /\ Len(hands'[c]) \in Nat
    BY <2>6, LongerIs DEF OneMore
  <2>8. ASSUME NEW i \in DOMAIN hands'[c] PROVE AtInv(path', left, c, hands'[c][i].at)
    <3>1. CASE i > Len(hs) BY <2>3, <2>6, <3>1 DEF OneMore
    <3>2. CASE ~(i > Len(hs))
      <4>1. i \in DOMAIN hs BY <2>7, <3>2
      <4>2. hands'[c][i] = hs[i] BY <2>6, <4>1 DEF OneMore, Longer
      <4> QED BY <2>5, <4>1, <4>2
    <3> QED BY <3>1, <3>2
  <2>9. StopInv(c)' BY <2>1 DEF StopInv
  <2>10. \A q \in left : Tells(q, c, hands'[c])
    BY <2>2, <2>4, <2>6, TellsGiven
  <2> QED BY <1>0, <2>8, <2>9, <2>10
<1> QED BY <1>1, <1>2 DEF RunStep, Stays, IsMade, IsDecided

\* Where a run begins or ends, or the record is opened again.
LEMMA FirmNoted ==
    ASSUME FirmInv, Longer(path, path', Cardinality(left)), left' = left, hands' = hands,
           \A i \in DOMAIN path' : i > Len(path) => path'[i].k \in {"start", "end"},
           \A c \in Calls : ~Mine(rec'[c], run')
    PROVE  FirmInv'
<1> SUFFICES ASSUME NEW c \in Calls
             PROVE  /\ StopInv(c)'
                    /\ \A q \in left : Tells(q, c, hands[c])
                    /\ \A i \in DOMAIN hands[c] : AtInv(path', left, c, hands[c][i].at)
  BY DEF FirmInv
<1>1. StopInv(c)' BY DEF StopInv
<1>2. ASSUME NEW i \in DOMAIN hands[c] PROVE AtInv(path', left, c, hands[c][i].at)
  <2> DEFINE at == hands[c][i].at
  <2>1. AtInv(path, left, c, at) BY DEF FirmInv
  <2> HIDE DEF at
  <2>2. \A j \in DOMAIN path' : j > Len(path) /\ path'[j].c = c => path'[j].k # "withdraw"
    OBVIOUS
  <2>3. AtInv(path', left, c, at) BY <2>1, <2>2, AtLonger
  <2> QED BY <2>3 DEF at
<1>3. \A q \in left : Tells(q, c, hands[c]) BY DEF FirmInv
<1> QED BY <1>1, <1>2, <1>3

\* How a run that starts or ends leaves the log.
LEMMA NotedIs ==
    ASSUME RecordInv, RunStart \/ Resume \/ RunEnd
    PROVE  /\ Longer(path, path', Cardinality(left)) /\ left' = left /\ hands' = hands
           /\ \A i \in DOMAIN path' : i > Len(path) => path'[i].k \in {"start", "end"}
           /\ \A c \in Calls : ~Mine(rec'[c], run')
<1>0. IsPath(path) /\ nrun \in Nat BY LogOf DEF BranchInv
<1>1. PICK k, v :
         /\ k \in {"start", "end"}
         /\ path' = Append(path, Entry(k, 0, v)) /\ left' = left /\ hands' = hands /\ rec' = rec
         /\ run' = 0 \/ run' = nrun + 1
  BY DEF RunStart, Resume, RunEnd
<1> DEFINE e == Entry(k, 0, v)
<1>2. e.k \in {"start", "end"} /\ e.b = Cardinality(left)
  BY <1>1, EntryIs
<1> HIDE DEF e
<1>3. OneMore(path, e, path') BY <1>0, <1>1, OneLonger DEF e
<1>4. /\ Longer(path, path', Cardinality(left))
      /\ \A i \in DOMAIN path' : i > Len(path) => path'[i].k \in {"start", "end"}
  BY <1>2, <1>3 DEF OneMore
<1>5. ASSUME NEW c \in Calls PROVE ~Mine(rec'[c], run')
  <2>1. rec[c].drun <= nrun /\ rec[c].drun \in Nat
    BY LogOf DEF CallInv, SoundInv, RecordType
  <2>2. run' = nrun + 1 => rec[c].drun # run' BY <1>0, <2>1
  <2> QED BY <1>1, <2>2 DEF Mine
<1> QED BY <1>1, <1>4, <1>5

\* And a crash.
LEMMA CrashIs ==
    ASSUME RecordInv, CrashAndResume
    PROVE  /\ Longer(path, path', Cardinality(left)) /\ left' = left /\ hands' = hands
           /\ \A i \in DOMAIN path' : i > Len(path) => path'[i].k \in {"start", "end"}
           /\ \A c \in Calls : ~Mine(rec'[c], run')
<1>1. path' = Closed(path, Cardinality(left)) /\ left' = left /\ hands' = hands /\ run' = 0
  BY DEF CrashAndResume, Seeded
<1>2. IsPath(path) BY LogOf DEF BranchInv
<1>3. /\ Longer(path, path', Cardinality(left))
      /\ \A i \in DOMAIN path' : i > Len(path) => path'[i].k = "end"
  BY <1>1, <1>2, ClosedLonger
<1>4. \A c \in Calls : ~Mine(rec'[c], run') BY <1>1 DEF Mine
<1> QED BY <1>1, <1>3, <1>4

\* How a rewind leaves it.
LEMMA RewindIs ==
    ASSUME RecordInv, NEW x, NEW m, Rebase(x, m)
    PROVE  LET q == SubSeq(x, 1, m)
               l == left \cup {path}
           IN /\ BranchInv(path, left) /\ \A c \in Calls : ResultInv(path, c)
              /\ x \in l /\ m \in 0..Len(x) /\ IsPath(x) /\ IsPath(q)
              /\ left' = l /\ hands' = hands /\ run' = 0
              /\ Longer(q, path', Cardinality(l))
              /\ \A i \in DOMAIN path' : i > Len(q) => path'[i].k = "end"
<1> DEFINE q == SubSeq(x, 1, m)
           l == left \cup {path}
<1>1. /\ path' = Closed(q, Cardinality(l)) /\ left' = l /\ hands' = hands /\ run' = 0
      /\ x \in l /\ m \in 0..Len(x)
  BY DEF Rebase, Seeded
<1>2. BranchInv(path, left) /\ \A c \in Calls : ResultInv(path, c)
  BY LogOf DEF SoundInv
<1>3. IsPath(x) /\ IsPath(q) BY <1>1, <1>2, BranchCut
<1> HIDE DEF q, l
<1>4. /\ Longer(q, path', Cardinality(l))
      /\ \A i \in DOMAIN path' : i > Len(q) => path'[i].k = "end"
  BY <1>1, <1>3, ClosedLonger
<1> QED BY <1>1, <1>2, <1>3, <1>4 DEF q, l

\* After a rewind.
LEMMA FirmRewound ==
    ASSUME RecordInv, TrueInv, FirmInv, NEW x, NEW m, Rebase(x, m) PROVE FirmInv'
<1> DEFINE q == SubSeq(x, 1, m)
           l == left \cup {path}
<1>1. /\ BranchInv(path, left) /\ \A c \in Calls : ResultInv(path, c)
      /\ x \in l /\ m \in 0..Len(x) /\ left' = l /\ hands' = hands /\ run' = 0
      /\ Longer(q, path', Cardinality(l))
      /\ \A i \in DOMAIN path' : i > Len(q) => path'[i].k = "end"
  BY RewindIs
<1> SUFFICES ASSUME NEW c \in Calls
             PROVE  /\ StopInv(c)'
                    /\ \A y \in l : Tells(y, c, hands[c])
                    /\ \A i \in DOMAIN hands[c] : AtInv(path', l, c, hands[c][i].at)
  BY <1>1 DEF FirmInv
<1>2. StopInv(c)' BY <1>1 DEF StopInv, Mine
<1>3. \A y \in l : Tells(y, c, hands[c])
  BY DEF FirmInv, TrueInv, SaidAll, SaidInv
<1>4. ASSUME NEW i \in DOMAIN hands[c] PROVE AtInv(path', l, c, hands[c][i].at)
  <2> DEFINE at == hands[c][i].at
  <2>1. AtInv(path, left, c, at) BY DEF FirmInv
  <2> HIDE DEF at
  <2>2. AtInv(q, l, c, at) BY <1>1, <2>1, AtCut
  <2> HIDE DEF q, l
  <2>3. \A j \in DOMAIN path' : j > Len(q) /\ path'[j].c = c => path'[j].k # "withdraw"
    BY <1>1
  <2>4. AtInv(path', l, c, at) BY <1>1, <2>2, <2>3, AtLonger
  <2> QED BY <2>4 DEF at
<1> QED BY <1>2, <1>3, <1>4

\* Every step keeps it.
LEMMA NextFirm ==
    ASSUME SoundlyInv, FirmInv, RefusalsHold, [Next]_vars PROVE FirmInv'
<1>0. RecordInv /\ BudgetInv /\ TrueInv BY DEF SoundlyInv
<1>1. CASE InRun BY <1>0, <1>1, InRunLog, InRunIs, FirmLog
<1>2. CASE RunStart \/ Resume \/ RunEnd
  BY <1>0, <1>2, NotedIs, FirmNoted
<1>3. CASE CrashAndResume BY <1>0, <1>3, CrashIs, FirmNoted
<1>4. CASE Rewinds BY <1>0, <1>4, FirmRewound DEF Rewinds
<1> QED BY <1>1, <1>2, <1>3, <1>4, NextIs

\* What a rewind to any entry leaves true.
HeldInv == SoundlyInv /\ FirmInv

\* It is at the start, ...
LEMMA InitHeld == Init => HeldInv
<1> SUFFICES ASSUME Init PROVE HeldInv
  OBVIOUS
<1>1. SoundlyInv BY InitRecord, InitTrue DEF SoundlyInv
<1>2. left = {} /\ run = 0 /\ \A c \in Calls : hands[c] = <<>>
  BY DEF Init
<1>3. FirmInv BY <1>2 DEF FirmInv, StopInv, Mine
<1> QED BY <1>1, <1>3 DEF HeldInv

\* ... and after every step.
LEMMA NextHeld == HeldInv /\ RefusalsHold /\ [Next]_vars => HeldInv'
BY NextSoundly, NextFirm DEF HeldInv

\* A behaviour in which no call that the path refused, or answered, is let
\* run by a later decision has PendingIsSound.
LEMMA PendingSoundWhile == Spec /\ []RefusalsHold => []PendingIsSound
<1>1. HeldInv => PendingIsSound BY SoundlyPending DEF HeldInv
<1> QED BY <1>1, InitHeld, NextHeld, PTL DEF Spec

-----------------------------------------------------------------------------
(* Every hand-off of a call is a dispatch in the log.                      *)

\* The hand-off x of call c is a dispatch of the log, written at its place.
HandInv(p, l, c, x) ==
    /\ x.at \in Nat \X Nat /\ x.at[1] <= Cardinality(l)
    /\ x.at[1] = Cardinality(l) => x.at[2] <= Len(p)
    /\ \E q \in l \cup {p} : RanAt(q, c, x)

RanInv ==
    \A c \in Calls : \A i \in DOMAIN hands[c] : HandInv(path, left, c, hands[c][i])

\* On a path that grows.
LEMMA HandLonger ==
    ASSUME NEW p, NEW p2, NEW l, Longer(p, p2, Cardinality(l)), NEW c, NEW x, HandInv(p, l, c, x),
           \/ \A i \in DOMAIN p2 : i > Len(p) /\ p2[i].c = c => p2[i].k # "withdraw"
           \/ RanAt(p, c, x) => \E m \in At(p, c, {"dispatch"}) : x.at[2] < m
    PROVE  HandInv(p2, l, c, x)
<1>1. PICK q \in l \cup {p} : RanAt(q, c, x) BY DEF HandInv
<1>2. \E r \in l \cup {p2} : RanAt(r, c, x)
  <2>1. CASE q = p BY <1>1, <2>1, RanLonger
  <2> QED BY <1>1, <2>1
<1>3. Len(p) \in Nat /\ Len(p2) \in Nat /\ Len(p) <= Len(p2)
  BY LongerIs DEF Longer
<1>4. x.at[2] \in Nat BY DEF HandInv
<1>5. x.at[1] = Cardinality(l) => x.at[2] <= Len(p2)
  BY <1>3, <1>4 DEF HandInv
<1> QED BY <1>2, <1>5 DEF HandInv

\* On a branch that is begun.
LEMMA HandCut ==
    ASSUME NEW p, NEW l, BranchInv(p, l), \A d \in Calls : ResultInv(p, d),
           NEW y, NEW c, NEW x, HandInv(p, l, c, x)
    PROVE  HandInv(y, l \cup {p}, c, x)
<1> DEFINE l2 == l \cup {p}
<1>1. /\ IsFiniteSet(l2) /\ \A q \in l2 : IsPath(q)
      /\ \A q \in l2 : \A i \in DOMAIN q : q[i].b \in Nat /\ q[i].b < Cardinality(l2)
  BY LeftOlder
<1>2. Cardinality(l2) \in Nat /\ x.at \in Nat \X Nat
  BY <1>1, FS_CardinalityType DEF HandInv
<1>3. PICK q \in l2 : RanAt(q, c, x) BY DEF HandInv
<1>4. x.at[2] \in DOMAIN q /\ q[x.at[2]].b = x.at[1]
  BY <1>3 DEF RanAt, Dispatches, At
<1>5. x.at[1] < Cardinality(l2) BY <1>1, <1>4
<1>6. x.at[1] <= Cardinality(l2) /\ x.at[1] # Cardinality(l2)
  BY <1>2, <1>5
<1> HIDE DEF l2
<1>7. HandInv(y, l2, c, x) BY <1>2, <1>3, <1>6 DEF HandInv
<1> QED BY <1>7 DEF l2

\* The arguments that a call is handed over with are those in force.
LEMMA HandArgs ==
    ASSUME RecordInv, ArgsInv, LogStep, NEW c \in Calls, HandsOver(c)
    PROVE  ArgsBefore(path', c, Len(path')) = how[c].args
<1>0. Longer(path, path', Cardinality(left)) /\ Len(path') \in Nat /\ Len(path') > Len(path)
  BY LongerIs DEF LogStep, HandsOver
<1>1. NoArgs(path, path', c) BY LogNoArgs
<1>2. ArgsBefore(path', c, Len(path')) = Args(path, c)
  BY <1>0, <1>1, ArgsSame
<1>3. Args(path, c) = how[c].args BY DEF ArgsInv, DecidedInv, HandsOver
<1> QED BY <1>2, <1>3

\* Within a run: a call is handed over with the dispatch written before.
LEMMA HandOver ==
    ASSUME RecordInv, ArgsInv, LogStep, NEW c \in Calls, HandsOver(c)
    PROVE  HandInv(path', left, c, [key |-> how[c].key, args |-> how[c].args,
                                    at |-> <<Cardinality(left), Len(path')>>])
<1> DEFINE x == [key |-> how[c].key, args |-> how[c].args,
                 at |-> <<Cardinality(left), Len(path')>>]
           n == Len(path')
<1>0. /\ Longer(path, path', Cardinality(left)) /\ IsFiniteSet(left)
  BY LogOf DEF LogStep, BranchInv
<1>1. /\ Len(path) \in Nat /\ n \in Nat /\ DOMAIN path = 1..Len(path) /\ DOMAIN path' = 1..n
      /\ Cardinality(left) \in Nat
  BY <1>0, LongerIs, FS_CardinalityType
<1>2. n > Len(path) /\ path'[n].k = "dispatch" /\ path'[n].c = c /\ path'[n].v = how[c].key
      /\ path'[n].b = Cardinality(left)
  BY EntryIs DEF HandsOver, Entry
<1>3. n \in Dispatches(path', c)
  <2>1. n \in At(path', c, {"dispatch"}) BY <1>1, <1>2 DEF At
  <2>2. \A j \in At(path', c, {"withdraw"}) : ~(n < j) BY <1>1 DEF At
  <2> QED BY <2>1, <2>2 DEF Dispatches
<1>4. ArgsBefore(path', c, n) = how[c].args BY HandArgs
<1>5. /\ x.at \in Nat \X Nat /\ x.at[1] = Cardinality(left) /\ x.at[2] = n
      /\ x.key = how[c].key /\ x.args = how[c].args
  BY <1>1
<1> HIDE DEF x, n
<1>6. RanAt(path', c, x) BY <1>2, <1>3, <1>4, <1>5 DEF RanAt
<1>7. HandInv(path', left, c, x) BY <1>1, <1>5, <1>6 DEF HandInv, n
<1> QED BY <1>7 DEF x

\* What was handed over before stays so.
LEMMA HandsStay ==
    ASSUME RecordInv, FirmInv, RanInv, LogStep, NEW c \in Calls, NEW i \in DOMAIN hands[c]
    PROVE  HandInv(path', left, c, hands[c][i])
<1> DEFINE x == hands[c][i]
<1>0. Longer(path, path', Cardinality(left)) /\ HandInv(path, left, c, x)
  BY DEF LogStep, RanInv
<1>1. CASE Withdraws(c)
  <2>1. PICK m \in At(path, c, {"dispatch"}) :
              \A j \in At(path, c, {"dispatch"}) :
                 x.at[2] = j /\ path[j].b = x.at[1] => j < m
    BY <1>1, StoppedLast
  <2> HIDE DEF x
  <2>2. RanAt(path, c, x) => x.at[2] < m BY <2>1 DEF RanAt, Dispatches
  <2>3. HandInv(path', left, c, x) BY <1>0, <2>1, <2>2, HandLonger
  <2> QED BY <2>3 DEF x
<1>2. CASE ~Withdraws(c)
  <2>1. \A j \in DOMAIN path' : j > Len(path) /\ path'[j].c = c => path'[j].k # "withdraw"
    BY <1>2, NoWithdraw
  <2> HIDE DEF x
  <2>2. HandInv(path', left, c, x) BY <1>0, <2>1, HandLonger
  <2> QED BY <2>2 DEF x
<1> QED BY <1>1, <1>2

\* Within a run.
LEMMA RanLog ==
    ASSUME RecordInv, TrueInv, FirmInv, ArgsInv, RanInv, LogStep,
           \A d \in Calls : RunStep(d)
    PROVE  RanInv'
<1> SUFFICES ASSUME NEW c \in Calls
             PROVE  \A i \in DOMAIN hands'[c] : HandInv(path', left', c, hands'[c][i])
  BY DEF RanInv
<1>0. left' = left BY DEF LogStep
<1>1. CASE hands'[c] = hands[c] BY <1>0, <1>1, HandsStay
<1>2. CASE IsGiven(c)
  <2> DEFINE x == [key |-> how[c].key, args |-> how[c].args,
                   at |-> <<Cardinality(left), Len(path')>>]
             hs == hands[c]
  <2>1. HandsOver(c) /\ st'[c] = "handed" BY <1>2 DEF LogStep, IsGiven
  <2>2. hands'[c] = Append(hs, x) BY <2>1 DEF HandsOver
  <2>3. HandInv(path', left, c, x) BY <2>1, HandOver
  <2>4. IsPath(hs) BY DEF TrueInv, GivenInv
  <2>5. \A i \in DOMAIN hs : HandInv(path', left, c, hs[i]) BY HandsStay
  <2> HIDE DEF x, hs
  <2>6. OneMore(hs, x, hands'[c]) BY <2>2, <2>4, OneLonger
  <2>7. DOMAIN hs = 1..Len(hs) /\ DOMAIN hands'[c] = 1..Len(hands'[c]) /\ Len(hs) \in Nat
        /\ Len(hands'[c]) \in Nat
    BY <2>6, LongerIs DEF OneMore
  <2>8. ASSUME NEW i \in DOMAIN hands'[c] PROVE HandInv(path', left, c, hands'[c][i])
    <3>1. CASE i > Len(hs) BY <2>3, <2>6, <3>1 DEF OneMore
    <3>2. CASE ~(i > Len(hs))
      <4>1. i \in DOMAIN hs BY <2>7, <3>2
      <4> QED BY <2>5, <2>6, <4>1 DEF OneMore, Longer
    <3> QED BY <3>1, <3>2
  <2> QED BY <1>0, <2>8
<1> QED BY <1>1, <1>2 DEF RunStep, Stays, IsMade, IsDecided

\* Where a run begins or ends, or the record is opened again.
LEMMA RanNoted ==
    ASSUME RanInv, Longer(path, path', Cardinality(left)), left' = left, hands' = hands,
           \A i \in DOMAIN path' : i > Len(path) => path'[i].k \in {"start", "end"}
    PROVE  RanInv'
<1> SUFFICES ASSUME NEW c \in Calls, NEW i \in DOMAIN hands[c]
             PROVE  HandInv(path', left, c, hands[c][i])
  BY DEF RanInv
<1> DEFINE x == hands[c][i]
<1>1. HandInv(path, left, c, x) BY DEF RanInv
<1> HIDE DEF x
<1>2. \A j \in DOMAIN path' : j > Len(path) /\ path'[j].c = c => path'[j].k # "withdraw"
  OBVIOUS
<1>3. HandInv(path', left, c, x) BY <1>1, <1>2, HandLonger
<1> QED BY <1>3 DEF x

\* After a rewind.
LEMMA RanRewound ==
    ASSUME RecordInv, RanInv, NEW x, NEW m, Rebase(x, m) PROVE RanInv'
<1> DEFINE q == SubSeq(x, 1, m)
           l == left \cup {path}
<1>1. /\ BranchInv(path, left) /\ \A c \in Calls : ResultInv(path, c)
      /\ x \in l /\ m \in 0..Len(x) /\ left' = l /\ hands' = hands
      /\ Longer(q, path', Cardinality(l))
      /\ \A i \in DOMAIN path' : i > Len(q) => path'[i].k = "end"
  BY RewindIs
<1> SUFFICES ASSUME NEW c \in Calls, NEW i \in DOMAIN hands[c]
             PROVE  HandInv(path', l, c, hands[c][i])
  BY <1>1 DEF RanInv
<1> DEFINE y == hands[c][i]
<1>2. HandInv(path, left, c, y) BY DEF RanInv
<1> HIDE DEF y
<1>3. HandInv(q, l, c, y) BY <1>1, <1>2, HandCut
<1> HIDE DEF q, l
<1>4. \A j \in DOMAIN path' : j > Len(q) /\ path'[j].c = c => path'[j].k # "withdraw"
  BY <1>1
<1>5. HandInv(path', l, c, y) BY <1>1, <1>3, <1>4, HandLonger
<1> QED BY <1>5 DEF y

\* Every step keeps the hand-offs in the log.
LEMMA NextRan ==
    ASSUME HeldInv, RefusalsHold, ArgsInv, RanInv, [Next]_vars PROVE RanInv'
<1>0. RecordInv /\ BudgetInv /\ TrueInv /\ FirmInv
  BY DEF HeldInv, SoundlyInv
<1>1. CASE InRun BY <1>0, <1>1, InRunLog, InRunIs, RanLog
<1>2. CASE RunStart \/ Resume \/ RunEnd BY <1>0, <1>2, NotedIs, RanNoted
<1>3. CASE CrashAndResume BY <1>0, <1>3, CrashIs, RanNoted
<1>4. CASE Rewinds BY <1>0, <1>4, RanRewound DEF Rewinds
<1> QED BY <1>1, <1>2, <1>3, <1>4, NextIs

\* So the calls ran as the log says.
LEMMA RanRecorded == RanInv => RanAsRecorded
<1> SUFFICES ASSUME RanInv, NEW c \in Calls, NEW i \in DOMAIN hands[c]
             PROVE  LET h == hands[c][i] IN
                    /\ h.at # <<>>
                    /\ \E p \in left \cup {path} :
                          /\ h.at[2] \in Dispatches(p, c)
                          /\ p[h.at[2]].b = h.at[1]
                          /\ p[h.at[2]].v = h.key
                          /\ ArgsBefore(p, c, h.at[2]) = h.args
  BY DEF RanAsRecorded
<1> DEFINE h == hands[c][i]
<1>1. HandInv(path, left, c, h) BY DEF RanInv
<1> HIDE DEF h
<1>2. h.at \in Nat \X Nat /\ \E p \in left \cup {path} : RanAt(p, c, h)
  BY <1>1 DEF HandInv
<1>3. h.at # <<>>
  <2>1. PICK m \in Nat, n \in Nat : h.at = <<m, n>> BY <1>2
  <2>2. Len(<<m, n>>) = 2 /\ Len(<<>>) = 0 OBVIOUS
  <2> QED BY <2>1, <2>2
<1> QED BY <1>2, <1>3 DEF RanAt, h

\* And RecordIsTrue, where hooks and failed writes do not lose arguments.
LEMMA RecordTrueWhile ==
    ASSUME ArgsKept PROVE Spec /\ []RefusalsHold => []RecordIsTrue
<1> DEFINE I == HeldInv /\ ArgsInv /\ RanInv
<1>1. Init => I
  <2> SUFFICES ASSUME Init PROVE I
    OBVIOUS
  <2>1. HeldInv BY InitHeld
  <2>2. ArgsInv BY InitArgs
  <2>3. RanInv BY DEF Init, RanInv
  <2> QED BY <2>1, <2>2, <2>3
<1>2. I /\ RefusalsHold /\ [Next]_vars => I'
  BY NextHeld, NextArgs, NextRan DEF HeldInv
<1>3. I => RecordIsTrue
  BY SoundlyTrue, RanRecorded DEF RecordIsTrue, HeldInv
<1> HIDE DEF I
<1> QED BY <1>1, <1>2, <1>3, PTL DEF Spec

-----------------------------------------------------------------------------
(* What a tool that tells repeats by their key is given.                   *)

\* A key and arguments are those of the first hand-off.
Alike(hs, k, a) == hs # <<>> /\ k = hs[1].key /\ a = hs[1].args

\* Those of the dispatches of a path from place n are.
AlikeFrom(q, c, hs, n) ==
    \A i \in At(q, c, {"dispatch"}) : i >= n => Alike(hs, q[i].v, ArgsBefore(q, c, i))

\* The dispatches in the log are: all of them where each was handed over,
\* and else, on the one path there is, those since the first hand-off.
LinesInv(c) ==
    \/ /\ budget.refusals = 0
       /\ \A q \in left \cup {path} : AlikeFrom(q, c, hands[c], 0)
    \/ /\ budget.rebases = 0 /\ left = {}
       /\ hands[c] # <<>> => AlikeFrom(path, c, hands[c], hands[c][1].at[2])

\* The hand-offs of a call are alike, and so is what it is pending with, or
\* about to be given with.
KeyInv(c) ==
    LET hs == hands[c] h == how[c] p == pend[c] IN
    /\ \A i \in DOMAIN hs : Alike(hs, hs[i].key, hs[i].args)
    /\ hs # <<>> /\ st[c] # "gone" =>
          /\ MayHaveRun(p) /\ ~h.hand => Alike(hs, p.key, p.args)
          /\ h.hand \/ st[c] \in {"todo", "ready"} => Alike(hs, h.key, h.args)

\* The first hand-off stays the first.
LEMMA HandsGrow ==
    ASSUME NEW hs, IsPath(hs), NEW x, NEW h2, h2 = Append(hs, x)
    PROVE  /\ h2 # <<>> /\ DOMAIN h2 = DOMAIN hs \cup {Len(hs) + 1} /\ h2[Len(hs) + 1] = x
           /\ \A i \in DOMAIN hs : h2[i] = hs[i]
           /\ h2[1] = IF hs = <<>> THEN x ELSE hs[1]
<1>1. Grown(hs, x, h2) BY DEF Grown
<1>2. /\ Len(hs) \in Nat /\ Len(h2) = Len(hs) + 1 /\ DOMAIN hs = 1..Len(hs)
      /\ DOMAIN h2 = 1..(Len(hs) + 1) /\ \A i \in DOMAIN hs : h2[i] = hs[i]
      /\ h2[Len(hs) + 1] = x
  BY <1>1, Grow
<1>3. h2 # <<>> /\ DOMAIN h2 = DOMAIN hs \cup {Len(hs) + 1} BY <1>2
<1>4. hs = <<>> => h2[1] = x BY <1>2
<1>5. hs # <<>> => 1 \in DOMAIN hs BY <1>2 DEF IsPath
<1> QED BY <1>2, <1>3, <1>4, <1>5

\* On a path that grows, with no dispatch of the call.
LEMMA AlikeLonger ==
    ASSUME NEW p, NEW p2, NEW b, Longer(p, p2, b), NEW c, NEW hs, NEW n,
           \A i \in DOMAIN p2 : i > Len(p) /\ p2[i].c = c => p2[i].k # "dispatch",
           AlikeFrom(p, c, hs, n)
    PROVE  AlikeFrom(p2, c, hs, n)
<1> SUFFICES ASSUME NEW i \in At(p2, c, {"dispatch"}), i >= n
             PROVE  Alike(hs, p2[i].v, ArgsBefore(p2, c, i))
  BY DEF AlikeFrom
<1>1. /\ Len(p) \in Nat /\ Len(p2) \in Nat /\ DOMAIN p = 1..Len(p) /\ DOMAIN p2 = 1..Len(p2)
      /\ At(p, c, {"dispatch"}) = {j \in At(p2, c, {"dispatch"}) : j <= Len(p)}
  BY LongerIs
<1>2. i \in 1..Len(p2) /\ i <= Len(p) BY <1>1 DEF At
<1>3. i \in At(p, c, {"dispatch"}) /\ i \in 1..Len(p) BY <1>1, <1>2
<1>4. p2[i] = p[i] /\ i \in Nat /\ i <= Len(p) + 1
  BY <1>1, <1>3 DEF Longer
<1>5. ArgsBefore(p2, c, i) = ArgsBefore(p, c, i) BY <1>4, ArgsLonger
<1>6. Alike(hs, p[i].v, ArgsBefore(p, c, i)) BY <1>3 DEF AlikeFrom
<1> QED BY <1>4, <1>5, <1>6

\* On the start of a path.
LEMMA ArgsCut ==
    ASSUME NEW p, IsPath(p), NEW m \in 0..Len(p), NEW c, NEW n \in 1..m
    PROVE  ArgsBefore(SubSeq(p, 1, m), c, n) = ArgsBefore(p, c, n)
<1> DEFINE q == SubSeq(p, 1, m)
           S == ArgsAt(q, c, n)
           T == ArgsAt(p, c, n)
<1>1. /\ DOMAIN q = 1..m /\ DOMAIN p = 1..Len(p) /\ Len(p) \in Nat
      /\ \A i \in 1..m : q[i] = p[i]
  BY Cut
<1> HIDE DEF q
<1>2. S = T
  <2>1. \A i \in S : i \in T BY <1>1 DEF ArgsAt, At
  <2>2. \A i \in T : i \in S BY <1>1 DEF ArgsAt, At
  <2> QED BY <2>1, <2>2
<1>3. S \subseteq 1..m BY <1>1 DEF ArgsAt, At
<1>4. /\ ArgsBefore(q, c, n) = (IF S = {} THEN 0 ELSE q[Last(S)].v)
      /\ ArgsBefore(p, c, n) = (IF T = {} THEN 0 ELSE p[Last(T)].v)
  BY DEF ArgsBefore, ArgsAt
<1> HIDE DEF S, T
<1>a. m \in Nat BY <1>1
<1>5. S # {} => Last(S) \in 1..m BY <1>3, <1>a, LastIs
<1>6. ArgsBefore(q, c, n) = ArgsBefore(p, c, n)
  BY <1>1, <1>2, <1>4, <1>5
<1> QED BY <1>6 DEF q

\* And on a path that is cut.
LEMMA AlikeCut ==
    ASSUME NEW p, IsPath(p), NEW m \in 0..Len(p), NEW c, NEW hs, AlikeFrom(p, c, hs, 0)
    PROVE  AlikeFrom(SubSeq(p, 1, m), c, hs, 0)
<1> DEFINE q == SubSeq(p, 1, m)
<1>1. /\ DOMAIN q = 1..m /\ DOMAIN p = 1..Len(p) /\ Len(p) \in Nat
      /\ \A i \in 1..m : q[i] = p[i]
  BY Cut
<1>2. \A i \in 1..m : ArgsBefore(q, c, i) = ArgsBefore(p, c, i)
  BY ArgsCut
<1> HIDE DEF q
<1> SUFFICES ASSUME NEW i \in At(q, c, {"dispatch"})
             PROVE  Alike(hs, q[i].v, ArgsBefore(q, c, i))
  BY DEF AlikeFrom, q
<1>3. i \in 1..m /\ i \in At(p, c, {"dispatch"}) /\ i >= 0
  BY <1>1 DEF At
<1> QED BY <1>1, <1>2, <1>3 DEF AlikeFrom

\* Within a run: where nothing is handed over.
LEMMA LinesKept ==
    ASSUME BudgetInv, Spent, ArgsInv, LogStep, NEW c \in Calls, LinesInv(c), ~HandsOver(c),
           hands'[c] = hands[c]
    PROVE  LinesInv(c)'
<1>0. /\ Longer(path, path', Cardinality(left)) /\ NoneLost /\ left' = left
      /\ budget.fails \in Nat
  BY DEF LogStep, ArgsInv, BudgetInv
<1>1. Quiet(c) \/ Withdraws(c) \/ CarriesOver(c)
  <2>1. LosesArgs(c) => budget.fails # 0 BY <1>0 DEF LosesArgs
  <2> QED BY <1>0, <2>1, NothingToLose DEF LogStep
<1>2. Len(path) \in Nat /\ Len(path') \in Nat /\ DOMAIN path' = 1..Len(path')
  BY <1>0, LongerIs
<1>3. \A i \in DOMAIN path' : i > Len(path) /\ path'[i].c = c => path'[i].k # "dispatch"
  <2>1. CASE Quiet(c) BY <2>1 DEF Quiet
  <2>2. CASE Withdraws(c) \/ CarriesOver(c)
    <3>1. path'[Len(path')].k \in {"hold", "proceed", "withdraw"} /\ Len(path') = Len(path) + 1
      BY <2>2, EntryIs DEF CarriesOver, Withdraws
    <3>2. \A j \in DOMAIN path' : j > Len(path) => j = Len(path')
      BY <1>2, <3>1
    <3> QED BY <3>1, <3>2
  <2> QED BY <1>1, <2>1, <2>2
<1>4. \A n : AlikeFrom(path, c, hands[c], n) => AlikeFrom(path', c, hands[c], n)
  BY <1>0, <1>3, AlikeLonger
<1>5. CASE /\ budget.refusals = 0
           /\ \A q \in left \cup {path} : AlikeFrom(q, c, hands[c], 0)
  BY <1>0, <1>4, <1>5 DEF LinesInv, Spent
<1>6. CASE /\ budget.rebases = 0 /\ left = {}
           /\ hands[c] # <<>> => AlikeFrom(path, c, hands[c], hands[c][1].at[2])
  BY <1>0, <1>4, <1>6 DEF LinesInv, Spent
<1> QED BY <1>5, <1>6 DEF LinesInv

\* A dispatch is alike when the call was handed over before.
LEMMA AlikeOver ==
    ASSUME RecordInv, ArgsInv, LogStep, NEW c \in Calls, HandsOver(c), NEW hs, NEW h2,
           \A k, a : Alike(hs, k, a) => Alike(h2, k, a), Alike(h2, how[c].key, how[c].args),
           NEW n, AlikeFrom(path, c, hs, n) \/ n = Len(path')
    PROVE  AlikeFrom(path', c, h2, n)
<1> DEFINE m == Len(path')
<1>0. Longer(path, path', Cardinality(left)) BY DEF LogStep
<1>1. /\ Len(path) \in Nat /\ m \in Nat /\ DOMAIN path = 1..Len(path) /\ DOMAIN path' = 1..m
      /\ At(path, c, {"dispatch"}) = {j \in At(path', c, {"dispatch"}) : j <= Len(path)}
  BY <1>0, LongerIs
<1>2. m > Len(path) /\ path'[m].v = how[c].key BY DEF HandsOver, Entry
<1>3. ArgsBefore(path', c, m) = how[c].args BY HandArgs
<1>4. \A i \in DOMAIN path' : i > Len(path) /\ path'[i].k = "dispatch" => i = m
  BY DEF HandsOver
<1> HIDE DEF m
<1> SUFFICES ASSUME NEW i \in At(path', c, {"dispatch"}), i >= n
             PROVE  Alike(h2, path'[i].v, ArgsBefore(path', c, i))
  BY DEF AlikeFrom
<1>5. i \in 1..m /\ path'[i].k = "dispatch" BY <1>1 DEF At
<1>6. CASE i = m BY <1>2, <1>3, <1>6
<1>7. CASE i # m
  <2>1. i <= Len(path) /\ i \in 1..Len(path) /\ i < m
    BY <1>1, <1>4, <1>5, <1>7
  <2>2. i \in At(path, c, {"dispatch"}) /\ n # m BY <1>1, <2>1
  <2>3. Alike(hs, path[i].v, ArgsBefore(path, c, i))
    BY <2>2 DEF AlikeFrom, m
  <2>4. path'[i] = path[i] /\ i <= Len(path) + 1 /\ i \in Nat
    BY <1>0, <1>1, <2>1 DEF Longer
  <2>5. ArgsBefore(path', c, i) = ArgsBefore(path, c, i)
    BY <1>0, <2>4, ArgsLonger
  <2> QED BY <2>3, <2>4, <2>5
<1> QED BY <1>6, <1>7

\* Where a call is handed over.
LEMMA LinesOver ==
    ASSUME RecordInv, BudgetInv, TrueInv, Spent, ArgsInv, LogStep, NEW c \in Calls, LinesInv(c),
           KeyInv(c), HandsOver(c), RunStep(c)
    PROVE  LinesInv(c)'
<1> DEFINE hs == hands[c]
           x == [key |-> how[c].key, args |-> how[c].args,
                 at |-> <<Cardinality(left), Len(path')>>]
<1>0. /\ IsPath(hs) /\ left' = left /\ budget.refusals \in Nat /\ st[c] = "ready"
  BY DEF TrueInv, GivenInv, LogStep, BudgetInv, HandsOver
<1>1. hs # <<>> => Alike(hs, how[c].key, how[c].args) BY <1>0 DEF KeyInv
<1>2. CASE st'[c] = "handed"
  <2>1. hands'[c] = Append(hs, x) BY <1>2 DEF HandsOver
  <2>2. x.key = how[c].key /\ x.args = how[c].args /\ x.at[2] = Len(path')
    OBVIOUS
  <2> DEFINE h2 == hands'[c]
  <2> HIDE DEF hs, x, h2
  <2>3. h2 # <<>> /\ h2[1] = IF hs = <<>> THEN x ELSE hs[1]
    BY <1>0, <2>1, HandsGrow DEF h2
  <2>4. \A k, a : Alike(hs, k, a) => Alike(h2, k, a) BY <2>3 DEF Alike
  <2>5. Alike(h2, how[c].key, how[c].args)
    BY <1>1, <2>2, <2>3, <2>4 DEF Alike
  <2>6. \A n : AlikeFrom(path, c, hs, n) \/ n = Len(path') => AlikeFrom(path', c, h2, n)
    BY <2>4, <2>5, AlikeOver
  <2>7. \A q, n : AlikeFrom(q, c, hs, n) => AlikeFrom(q, c, h2, n)
    BY <2>4 DEF AlikeFrom
  <2>8. CASE /\ budget.refusals = 0
             /\ \A q \in left \cup {path} : AlikeFrom(q, c, hs, 0)
    <3>1. \A q \in left \cup {path'} : AlikeFrom(q, c, h2, 0)
      BY <2>6, <2>7, <2>8
    <3> QED BY <1>0, <2>8, <3>1 DEF LinesInv, Spent, h2
  <2>9. CASE /\ budget.rebases = 0 /\ left = {}
             /\ hs # <<>> => AlikeFrom(path, c, hs, hs[1].at[2])
    <3>1. AlikeFrom(path', c, h2, h2[1].at[2])
      <4>1. CASE hs = <<>> BY <2>2, <2>3, <2>6, <4>1
      <4>2. CASE hs # <<>> BY <2>3, <2>6, <2>9, <4>2
      <4> QED BY <4>1, <4>2
    <3> QED BY <1>0, <2>9, <3>1 DEF LinesInv, Spent, h2
  <2> QED BY <2>8, <2>9 DEF LinesInv, hs
<1>3. CASE st'[c] = "stopped"
  <2>1. budget.refusals # 0 BY <1>0, <1>3 DEF HandsOver
  <2>2. hands'[c] = hs
    BY <1>0, <1>3 DEF RunStep, Stays, IsMade, IsDecided, IsGiven
  <2> HIDE DEF hs
  <2>3. /\ budget.rebases = 0 /\ left = {}
        /\ hs # <<>> => AlikeFrom(path, c, hs, hs[1].at[2])
    BY <2>1 DEF LinesInv, hs
  <2>4. hs # <<>> => AlikeFrom(path', c, hs, hs[1].at[2])
    BY <1>1, <2>3, AlikeOver
  <2> QED BY <1>0, <2>2, <2>3, <2>4 DEF LinesInv, Spent
<1> QED BY <1>2, <1>3 DEF HandsOver

\* What a call is given with, within a run.
LEMMA KeyInRun ==
    ASSUME TrueInv, PendInv, NEW c \in Calls, OnceInv(c), KeyInv(c), RunStep(c)
    PROVE  KeyInv(c)'
<1> DEFINE hs == hands[c]
<1>0. /\ how[c] \in HowType(how[c]) /\ IsPath(hs) /\ (st[c] = "new" => hs = <<>>)
      /\ how[c].hand \in BOOLEAN /\ pend'[c] = pend[c]
      /\ MayHaveRun(pend'[c]) = MayHaveRun(pend[c])
  BY DEF TrueInv, GivenInv, HowType, RunStep
<1>1. CASE Stays(c)
  <2>1. /\ hands'[c] = hs /\ how'[c].hand = how[c].hand /\ how'[c].key = how[c].key
        /\ how'[c].args = how[c].args
    BY <1>1 DEF Stays, StandsAs
  <2>2. /\ st'[c] # "gone" => st[c] # "gone"
        /\ st'[c] \in {"todo", "ready"} => st[c] \in {"todo", "ready"}
    BY <1>1 DEF Stays
  <2> QED BY <1>0, <2>1, <2>2 DEF KeyInv
<1>2. CASE IsMade(c)
  <2>1. hands'[c] = <<>> BY <1>0, <1>2 DEF IsMade
  <2> QED BY <2>1 DEF KeyInv
<1>3. CASE IsDecided(c)
  <2>1. /\ hands'[c] = hs /\ st[c] = "todo" /\ how'[c].def \in BOOLEAN
        /\ how'[c] = HowWith(how[c], how'[c].args, how'[c].def, how'[c].out)
        /\ (~Consulted(c) => how'[c].args = how[c].args)
    BY <1>3 DEF IsDecided
  <2>2. how'[c].hand = how[c].hand /\ how'[c].key = how[c].key
    BY <1>0, <2>1, HowDecided
  <2>3. hs # <<>> => how'[c].args = how[c].args BY <2>1, ReadyAgain
  <2> QED BY <1>0, <2>1, <2>2, <2>3 DEF KeyInv
<1>4. CASE IsGiven(c)
  <2>1. /\ st[c] = "ready" /\ st'[c] = "handed" /\ how'[c] = HowGiven(how[c])
    BY <1>4 DEF IsGiven
  <2>2. PICK x : /\ hands'[c] = Append(hs, x) /\ x.key = how[c].key /\ x.args = how[c].args
    BY <1>4 DEF IsGiven
  <2>3. how'[c].hand = TRUE /\ how'[c].key = how[c].key /\ how'[c].args = how[c].args
    BY <1>0, <2>1, HowHanded
  <2> DEFINE h2 == hands'[c]
  <2>4. hs # <<>> => Alike(hs, how[c].key, how[c].args)
    BY <2>1 DEF KeyInv
  <2>5. \A i \in DOMAIN hs : Alike(hs, hs[i].key, hs[i].args)
    BY DEF KeyInv
  <2> HIDE DEF hs, h2
  <2>6. /\ h2 # <<>> /\ DOMAIN h2 = DOMAIN hs \cup {Len(hs) + 1} /\ h2[Len(hs) + 1] = x
        /\ \A i \in DOMAIN hs : h2[i] = hs[i]
        /\ h2[1] = IF hs = <<>> THEN x ELSE hs[1]
    BY <1>0, <2>2, HandsGrow DEF h2
  <2>7. \A k, a : Alike(hs, k, a) => Alike(h2, k, a) BY <2>6 DEF Alike
  <2>8. Alike(h2, how[c].key, how[c].args)
    BY <2>2, <2>4, <2>6, <2>7 DEF Alike
  <2>9. \A i \in DOMAIN h2 : Alike(h2, h2[i].key, h2[i].args)
    BY <2>2, <2>5, <2>6, <2>7, <2>8
  <2> QED BY <2>3, <2>8, <2>9 DEF KeyInv, h2
<1> QED BY <1>1, <1>2, <1>3, <1>4 DEF RunStep

\* Where a run begins or ends.
LEMMA KeyRun ==
    ASSUME TrueInv, PendInv, NEW c \in Calls, Replay[c] = "keyed", OnceInv(c), KeyInv(c),
           RunStart \/ Resume \/ RunEnd
    PROVE  KeyInv(c)'
<1> DEFINE hs == hands[c]
<1>0. /\ how[c] \in HowType(how[c]) /\ pend[c] \in PendType(pend[c])
      /\ how[c].hand \in BOOLEAN /\ how[c].appr \in BOOLEAN /\ how[c].def \in BOOLEAN
      /\ pend[c].disp \in BOOLEAN /\ DOMAIN pend = Calls
      /\ (st[c] = "new" => hs = <<>>)
  BY DEF TrueInv, GivenInv, HowType, PendInv, PendType
<1>1. CASE RunStart BY <1>1 DEF RunStart, KeyInv
<1>2. CASE Resume
  <2>1. /\ pend' = pend /\ hands' = hands /\ phase = "idle" /\ how[c] = NoWay
        /\ MayHaveRun(pend'[c]) = MayHaveRun(pend[c])
    BY <1>2 DEF Resume, OnceInv
  <2>2. ~how[c].hand BY <2>1 DEF NoWay
  <2>3. CASE st'[c] = st[c] /\ how'[c] = NoWay BY <2>1, <2>3 DEF KeyInv
  <2>4. ASSUME NEW out, st[c] = "owed", st'[c] = "answer", how'[c] = Given(out) PROVE KeyInv(c)'
    <3>1. ~how'[c].hand BY <2>4, HowAnswered
    <3> QED BY <2>1, <2>2, <2>4, <3>1 DEF KeyInv
  <2>5. ASSUME NEW a, st[c] = "owed", st'[c] = "todo",
               pend[c].why \in {"undispatched", "aborted", "deferred"},
               how'[c] = HowKeyed(Approval(c, a), IF pend[c].key = 0 THEN nrun + 1 ELSE pend[c].key),
               MayHaveRun(pend[c]) => RunAgain(c) /\ a = pend[c].args
        PROVE  KeyInv(c)'
    <3> DEFINE k == IF pend[c].key = 0 THEN nrun + 1 ELSE pend[c].key
    <3> HIDE DEF k
    <3>0. how'[c] = HowKeyed(Approval(c, a), k) BY <2>5 DEF k
    <3>1. ~how'[c].hand /\ how'[c].key = k /\ how'[c].args = a
      BY <3>0, HowAnswered, HowKeyedIs
    <3>2. hs # <<>> => MayHaveRun(pend[c]) BY <2>2, <2>5 DEF OnceInv
    <3>3. hs # <<>> => k = pend[c].key /\ a = pend[c].args
      BY <2>5, <3>2 DEF RunAgain, k
    <3>4. hs # <<>> => Alike(hs, k, a)
      BY <2>2, <2>5, <3>2, <3>3 DEF KeyInv
    <3>5. \A i \in DOMAIN hs : Alike(hs, hs[i].key, hs[i].args)
      BY DEF KeyInv
    <3>6. hs # <<>> => (MayHaveRun(pend'[c]) => Alike(hs, pend'[c].key, pend'[c].args))
      BY <2>1, <2>2, <2>5 DEF KeyInv
    <3> QED BY <2>1, <3>1, <3>4, <3>5, <3>6 DEF KeyInv
  <2> QED BY <1>2, <2>3, <2>4, <2>5, ResumeIs
<1>3. CASE RunEnd
  <2>1. /\ hands' = hands /\ how'[c] = NoWay
        /\ st'[c] = IF st[c] \in {"new", "gone"} THEN "gone" ELSE "owed"
        /\ pend'[c] = IF st[c] \in {"new", "gone"} THEN NotPending ELSE PendingOf(c)
    BY <1>3 DEF RunEnd
  <2>2. ASSUME st[c] \notin {"new", "gone"}, hs # <<>>, MayHaveRun(PendingOf(c))
        PROVE  Alike(hs, PendingOf(c).key, PendingOf(c).args)
    <3> DEFINE h == how[c]
               p == pend[c]
    <3>1. ~h.def BY <2>2 DEF OnceInv
    <3>2. CASE h.hand
      <4>1. PendingOf(c) = [NotPending EXCEPT !.why = "aborted", !.key = h.key, !.args = h.args]
        BY <3>1, <3>2 DEF PendingOf
      <4>2. PendingOf(c).key = h.key /\ PendingOf(c).args = h.args
        BY <4>1 DEF NotPending
      <4>3. Alike(hs, h.key, h.args) BY <2>2, <3>2 DEF KeyInv
      <4> QED BY <4>2, <4>3
    <3>3. CASE ~h.hand
      <4>1. MayHaveRun(p) \/ p.why \in {"answered", "returned", "rejected"}
        BY <2>2, <3>3 DEF OnceInv
      <4>2. CASE MayHaveRun(p)
        <5>1. PendingOf(c) = IF p.why = "deferred" /\ h.appr
                             THEN [p EXCEPT !.why = "aborted", !.disp = FALSE] ELSE p
          BY <3>1, <3>3, <4>2 DEF PendingOf
        <5>2. /\ [p EXCEPT !.why = "aborted", !.disp = FALSE].key = p.key
              /\ [p EXCEPT !.why = "aborted", !.disp = FALSE].args = p.args
          BY <1>0 DEF PendType
        <5>3. Alike(hs, p.key, p.args) BY <2>2, <3>3, <4>2 DEF KeyInv
        <5> HIDE DEF p, h, hs
        <5> QED BY <5>1, <5>2, <5>3
      <4>3. CASE ~MayHaveRun(p)
        <5>1. p.why \in {"answered", "returned", "rejected"} /\ ~h.appr
          BY <4>1, <4>3 DEF OnceInv
        <5>2. PendingOf(c) = p BY <3>1, <3>3, <4>3, <5>1 DEF PendingOf
        <5> QED BY <2>2, <4>3, <5>2
      <4> QED BY <4>2, <4>3
    <3> QED BY <3>2, <3>3
  <2>3. ~NoWay.hand BY DEF NoWay
  <2>4. \A i \in DOMAIN hs : Alike(hs, hs[i].key, hs[i].args)
    BY DEF KeyInv
  <2> QED BY <1>0, <2>1, <2>2, <2>3, <2>4 DEF KeyInv
<1> QED BY <1>1, <1>2, <1>3

\* The log, where a run begins or ends, or the record is opened again after
\* a crash.
LEMMA LinesNoted ==
    ASSUME Spent, NEW c \in Calls, LinesInv(c), NEW b, Longer(path, path', b), left' = left,
           hands' = hands,
           \A i \in DOMAIN path' : i > Len(path) => path'[i].k \in {"start", "end"}
    PROVE  LinesInv(c)'
<1>1. \A i \in DOMAIN path' : i > Len(path) /\ path'[i].c = c => path'[i].k # "dispatch"
  OBVIOUS
<1>2. \A n : AlikeFrom(path, c, hands[c], n) => AlikeFrom(path', c, hands[c], n)
  BY <1>1, AlikeLonger
<1>3. CASE /\ budget.refusals = 0
           /\ \A q \in left \cup {path} : AlikeFrom(q, c, hands[c], 0)
  BY <1>2, <1>3 DEF LinesInv, Spent
<1>4. CASE /\ budget.rebases = 0 /\ left = {}
           /\ hands[c] # <<>> => AlikeFrom(path, c, hands[c], hands[c][1].at[2])
  BY <1>2, <1>4 DEF LinesInv, Spent
<1> QED BY <1>3, <1>4 DEF LinesInv

\* Paths are no longer than n.
Bounded(l, n) == n \in Nat /\ \A q \in l : Len(q) <= n

BoundInv == \E n : Bounded(left, n)

\* The path to the last dispatch on a branch left is one to such a dispatch.
LEMMA OffPathIs ==
    ASSUME NEW p, NEW l, BranchInv(p, l), NEW n, Bounded(l, n), NEW c, OffPaths(p, l, c) # {}
    PROVE  \E q \in OffPaths(p, l, c) : OffPath(p, l, c) = SubSeq(q, 1, Last(OffAt(p, q, c)))
<1> DEFINE part(q) == SubSeq(q, 1, Last(OffAt(p, q, c)))
           ends == {part(q) : q \in OffPaths(p, l, c)}
           d(r) == r[Len(r)].b
           C == Cardinality(l)
<1>0. C \in Nat /\ n \in Nat
  BY FS_CardinalityType DEF BranchInv, Bounded
<1>1. ASSUME NEW q \in OffPaths(p, l, c)
      PROVE  /\ Len(part(q)) \in 1..n /\ d(part(q)) \in 0..C
  <2>1. q \in l /\ IsPath(q) /\ OffAt(p, q, c) # {} /\ Len(q) <= n
    BY DEF OffPaths, BranchInv, Bounded
  <2>2. Len(q) \in Nat /\ DOMAIN q = 1..Len(q) /\ OffAt(p, q, c) \subseteq 1..Len(q)
    BY <2>1 DEF IsPath, OffAt, At
  <2> DEFINE m == Last(OffAt(p, q, c))
  <2>3. m \in OffAt(p, q, c) BY <2>1, <2>2, LastIs
  <2>4. m \in 1..Len(q) BY <2>2, <2>3
  <2> HIDE DEF m
  <2>5. Len(SubSeq(q, 1, m)) = m /\ SubSeq(q, 1, m)[m] = q[m]
    <3>1. m \in 1..m BY <2>2, <2>4
    <3> QED BY <2>1, <2>4, <3>1, Cut
  <2>6. q[m].b \in Nat /\ q[m].b < C BY <2>1, <2>2, <2>4 DEF BranchInv
  <2>7. Len(part(q)) = m /\ d(part(q)) = q[m].b BY <2>5 DEF m
  <2> HIDE DEF part
  <2> QED BY ONLY <1>0, <2>1, <2>2, <2>4, <2>6, <2>7
<1>2. \A r \in ends : Len(r) \in 1..n /\ d(r) \in 0..C BY <1>1
<1>3. ends # {} OBVIOUS
<1> HIDE DEF ends
<1>4. PICK r \in ends : \A s \in ends : d(s) <= d(r)
  <2> DEFINE D == {d(r) + 1 : r \in ends}
  <2>1. D \subseteq 1..(C + 1) /\ D # {} /\ C + 1 \in Nat
    BY <1>0, <1>2, <1>3
  <2>2. Last(D) \in D /\ \A j \in D : j <= Last(D)
    <3> HIDE DEF D
    <3> QED BY <2>1, LastIs
  <2>3. PICK r \in ends : Last(D) = d(r) + 1 BY <2>2
  <2>4. ASSUME NEW s \in ends PROVE d(s) <= d(r)
    <3>1. d(s) + 1 <= d(r) + 1 BY <2>2, <2>3
    <3>2. d(s) \in 0..C /\ d(r) \in 0..C BY <1>2
    <3> HIDE DEF d
    <3> QED BY ONLY <1>0, <3>1, <3>2
  <2> QED BY <2>4
<1>5. PICK t \in ends : d(t) = d(r) /\ \A s \in ends : d(s) = d(r) => Len(s) <= Len(t)
  <2> DEFINE E == {Len(s) : s \in {u \in ends : d(u) = d(r)}}
  <2>1. E \subseteq 1..n /\ E # {} BY <1>2, <1>4
  <2>2. Last(E) \in E /\ \A j \in E : j <= Last(E)
    <3> HIDE DEF E
    <3> QED BY <1>0, <2>1, LastIs
  <2>3. PICK t \in ends : d(t) = d(r) /\ Last(E) = Len(t) BY <2>2
  <2> QED BY <2>2, <2>3
<1>6. \A s \in ends : d(s) < d(t) \/ (d(s) = d(t) /\ Len(s) <= Len(t))
  <2> SUFFICES ASSUME NEW s \in ends, d(s) # d(r) PROVE d(s) < d(r)
    BY <1>5
  <2>1. d(s) <= d(r) /\ d(s) \in 0..C /\ d(r) \in 0..C BY <1>2, <1>4
  <2> HIDE DEF d
  <2> QED BY ONLY <1>0, <2>1, d(s) # d(r)
<1>7. OffPath(p, l, c) = CHOOSE q \in ends :
         \A s \in ends : d(s) < d(q) \/ (d(s) = d(q) /\ Len(s) <= Len(q))
  BY DEF OffPath, ends
<1>8. OffPath(p, l, c) \in ends
  <2> HIDE DEF d
  <2> QED BY <1>6, <1>7
<1> QED BY <1>8 DEF ends

\* It is read with the key and the arguments of that dispatch, ...
LEMMA OffAlike ==
    ASSUME NEW p, NEW l, BranchInv(p, l), NEW n, Bounded(l, n), NEW c, OffPaths(p, l, c) # {},
           NEW hs, \A q \in l : AlikeFrom(q, c, hs, 0)
    PROVE  LET q == OffPath(p, l, c) IN Alike(hs, KeyOf(q, c), DispatchedArgs(q, c))
<1>1. PICK q \in OffPaths(p, l, c) : OffPath(p, l, c) = SubSeq(q, 1, Last(OffAt(p, q, c)))
  BY OffPathIs
<1> DEFINE m == Last(OffAt(p, q, c))
           r == SubSeq(q, 1, m)
<1>2. q \in l /\ IsPath(q) /\ OffAt(p, q, c) # {}
  BY DEF OffPaths, BranchInv
<1>3. Len(q) \in Nat /\ DOMAIN q = 1..Len(q) /\ OffAt(p, q, c) \subseteq 1..Len(q)
  BY <1>2 DEF IsPath, OffAt, At
<1>4. m \in OffAt(p, q, c) BY <1>2, <1>3, LastIs
<1>5. m \in 1..Len(q) /\ m \in At(q, c, {"dispatch"}) /\ m \in Nat /\ m \in 1..m
  BY <1>3, <1>4 DEF OffAt
<1> HIDE DEF m
<1>6. DOMAIN r = 1..m /\ \A i \in 1..m : r[i] = q[i] BY <1>2, <1>5, Cut
<1>7. ArgsBefore(r, c, m) = ArgsBefore(q, c, m) BY <1>2, <1>5, ArgsCut
<1> HIDE DEF r
<1>8. Last(Dispatches(r, c)) = m
  <2>1. m \in Dispatches(r, c)
    <3>1. m \in At(r, c, {"dispatch"}) BY <1>5, <1>6 DEF At
    <3>2. \A j \in At(r, c, {"withdraw"}) : ~(m < j)
      BY <1>5, <1>6 DEF At
    <3> QED BY <3>1, <3>2 DEF Dispatches
  <2>2. Dispatches(r, c) \subseteq 1..m BY <1>6 DEF Dispatches, At
  <2>3. Last(Dispatches(r, c)) \in Dispatches(r, c) /\ m <= Last(Dispatches(r, c))
    BY <1>5, <2>1, <2>2, LastIs
  <2>4. Last(Dispatches(r, c)) \in 1..m BY <2>2, <2>3
  <2> QED BY ONLY <1>5, <2>3, <2>4
<1>9. Alike(hs, q[m].v, ArgsBefore(q, c, m)) BY <1>2, <1>5 DEF AlikeFrom
<1>10. KeyOf(r, c) = q[m].v /\ DispatchedArgs(r, c) = ArgsBefore(q, c, m)
  BY <1>5, <1>6, <1>7, <1>8 DEF KeyOf, DispatchedArgs
<1> QED BY <1>1, <1>9, <1>10 DEF r, m

\* ... or of the path's last dispatch.
LEMMA HereAlike ==
    ASSUME NEW p, IsPath(p), NEW c, NEW hs, NEW n \in Nat, AlikeFrom(p, c, hs, n),
           \E i \in Dispatches(p, c) : i >= n
    PROVE  Alike(hs, KeyOf(p, c), DispatchedArgs(p, c))
<1> DEFINE S == Dispatches(p, c)
<1>1. Len(p) \in Nat /\ S \subseteq 1..Len(p) /\ S \subseteq At(p, c, {"dispatch"})
  BY DEF IsPath, Dispatches, At
<1>2. PICK i \in S : i >= n OBVIOUS
<1> HIDE DEF S
<1>3. Last(S) \in S /\ i <= Last(S) BY <1>1, <1>2, LastIs
<1>4. Last(S) >= n
  <2>1. Last(S) \in 1..Len(p) /\ i \in 1..Len(p) BY <1>1, <1>3
  <2> QED BY ONLY <1>1, <1>2, <1>3, <2>1, n \in Nat
<1>5. Alike(hs, p[Last(S)].v, ArgsBefore(p, c, Last(S)))
  BY <1>1, <1>3, <1>4 DEF AlikeFrom
<1> QED BY <1>5 DEF KeyOf, DispatchedArgs, S

\* A call that may have run is pending with one of these.
LEMMA PendingAlike ==
    ASSUME NEW p, NEW l, NEW c, MayHaveRun(PendingCall(p, l, c)), NEW hs,
           Dispatched(p, c) => Alike(hs, KeyOf(p, c), DispatchedArgs(p, c)),
           OffPaths(p, l, c) # {} =>
              LET q == OffPath(p, l, c) IN Alike(hs, KeyOf(q, c), DispatchedArgs(q, c))
    PROVE  Alike(hs, PendingCall(p, l, c).key, PendingCall(p, l, c).args)
<1> DEFINE s == State(p, c)
           off == s \in {"held", "neverstarted"} /\ Off(p, l, c)
           q == IF off THEN OffPath(p, l, c) ELSE p
           why == CASE s = "held" -> "deferred"
                    [] s = "inflight" -> "aborted"
                    [] s = "neverstarted" -> IF off THEN "aborted" ELSE "undispatched"
                    [] OTHER -> s
           disp == s = "held" /\ (off \/ Dispatched(p, c))
           may == why = "aborted" \/ disp
           x == PendingCall(p, l, c)
<1>1. /\ x.why = why /\ x.disp = disp /\ x.key = (IF may THEN KeyOf(q, c) ELSE 0)
      /\ x.args = (IF may THEN DispatchedArgs(q, c) ELSE IF s = "held" THEN Args(p, c) ELSE 0)
  BY DEF PendingCall
<1>2. s = "inflight" => Dispatched(p, c) BY DEF State
<1>3. s \in {"completed", "rejected", "answered", "held", "returned", "inflight", "neverstarted"}
  BY DEF State
<1>4. off => OffPaths(p, l, c) # {} BY DEF Off
<1> HIDE DEF s, off
<1>5. may /\ (off \/ Dispatched(p, c))
  <2>1. why = "aborted" \/ (why = "deferred" /\ disp)
    <3> HIDE DEF why, disp, x
    <3> QED BY <1>1 DEF MayHaveRun, x
  <2> QED BY <1>2, <1>3, <2>1
<1> HIDE DEF may
<1>6. x.key = KeyOf(q, c) /\ x.args = DispatchedArgs(q, c) BY <1>1, <1>5
<1>7. Alike(hs, KeyOf(q, c), DispatchedArgs(q, c)) BY <1>4, <1>5
<1> HIDE DEF q
<1> QED BY <1>6, <1>7 DEF x

\* After a crash or a rewind.
LEMMA KeySeeded ==
    ASSUME BranchInv(path', left'), RanInv', BoundInv', NEW c \in Calls, LinesInv(c)',
           KeyInv(c), IsPath(hands[c]), Seeded(path', left'), hands' = hands
    PROVE  KeyInv(c)'
<1> DEFINE hs == hands[c]
<1>1. /\ how'[c] = NoWay
      /\ st'[c] = IF c \in Unanswered(path') THEN "owed" ELSE "gone"
      /\ pend'[c] = IF c \in Unanswered(path') THEN PendingCall(path', left', c) ELSE NotPending
  BY DEF Seeded
<1>2. \A i \in DOMAIN hs : Alike(hs, hs[i].key, hs[i].args)
  BY DEF KeyInv
<1>3. PICK n : Bounded(left', n) BY DEF BoundInv
<1>4. ASSUME hs # <<>>, c \in Unanswered(path'), MayHaveRun(PendingCall(path', left', c))
      PROVE  Alike(hs, PendingCall(path', left', c).key, PendingCall(path', left', c).args)
  <2>1. CASE \A q \in left' \cup {path'} : AlikeFrom(q, c, hs, 0)
    <3>1. Dispatched(path', c) => Alike(hs, KeyOf(path', c), DispatchedArgs(path', c))
      <4> SUFFICES ASSUME Dispatched(path', c)
                   PROVE  Alike(hs, KeyOf(path', c), DispatchedArgs(path', c))
        OBVIOUS
      <4>1. IsPath(path') BY DEF BranchInv
      <4>2. \E i \in Dispatches(path', c) : i >= 0
        BY <4>1 DEF Dispatched, Dispatches, At, IsPath
      <4>3. AlikeFrom(path', c, hs, 0) /\ 0 \in Nat BY <2>1
      <4> HIDE DEF hs
      <4> QED BY <4>1, <4>2, <4>3, HereAlike
    <3>2. OffPaths(path', left', c) # {} =>
             LET q == OffPath(path', left', c) IN Alike(hs, KeyOf(q, c), DispatchedArgs(q, c))
      BY <1>3, <2>1, OffAlike
    <3> HIDE DEF hs
    <3> QED BY <1>4, <3>1, <3>2, PendingAlike
  <2>2. CASE left' = {} /\ AlikeFrom(path', c, hs, hs[1].at[2])
    <3>1. 1 \in DOMAIN hs BY <1>4 DEF IsPath
    <3>2. HandInv(path', left', c, hs[1]) BY <3>1 DEF RanInv
    <3>3. hs[1].at[2] \in Nat /\ hs[1].at[2] \in Dispatches(path', c)
      BY <2>2, <3>2 DEF HandInv, RanAt
    <3>4. Alike(hs, KeyOf(path', c), DispatchedArgs(path', c))
      <4>1. IsPath(path') BY DEF BranchInv
      <4> DEFINE m == hs[1].at[2]
      <4>2. m \in Nat /\ (\E i \in Dispatches(path', c) : i >= m) /\ AlikeFrom(path', c, hs, m)
        BY <2>2, <3>3
      <4> HIDE DEF m, hs
      <4> QED BY <4>1, <4>2, HereAlike
    <3>5. OffPaths(path', left', c) = {} BY <2>2 DEF OffPaths
    <3> HIDE DEF hs
    <3> QED BY <1>4, <3>4, <3>5, PendingAlike
  <2> QED BY <1>4, <2>1, <2>2 DEF LinesInv
<1>5. ~NoWay.hand BY DEF NoWay
<1>6. st'[c] \notin {"todo", "ready"} BY <1>1
<1> QED BY <1>1, <1>2, <1>4, <1>5, <1>6 DEF KeyInv

\* The log after a rewind.
LEMMA LinesRebase ==
    ASSUME RecordInv, Spent, NEW x, NEW n, Rebase(x, n), NEW c \in Calls, LinesInv(c)
    PROVE  LinesInv(c)'
<1> DEFINE q == SubSeq(x, 1, n)
           l == left \cup {path}
<1>1. /\ x \in l /\ n \in 0..Len(x) /\ IsPath(x) /\ left' = l /\ hands' = hands
      /\ Longer(q, path', Cardinality(l))
      /\ \A i \in DOMAIN path' : i > Len(q) => path'[i].k = "end"
  BY RewindIs
<1>2. budget.rebases > 0 BY DEF Rebase
<1>3. budget.refusals = 0 /\ \A r \in l : AlikeFrom(r, c, hands[c], 0)
  BY <1>2 DEF LinesInv
<1>4. AlikeFrom(q, c, hands[c], 0) BY <1>1, <1>3, AlikeCut
<1> HIDE DEF q, l
<1>5. \A i \in DOMAIN path' : i > Len(q) /\ path'[i].c = c => path'[i].k # "dispatch"
  BY <1>1
<1>6. AlikeFrom(path', c, hands[c], 0) BY <1>1, <1>4, <1>5, AlikeLonger
<1>7. \A r \in l \cup {path'} : AlikeFrom(r, c, hands[c], 0)
  BY <1>3, <1>6
<1>8. budget'.refusals = 0 BY <1>3 DEF Spent
<1> QED BY <1>1, <1>7, <1>8 DEF LinesInv

\* The paths left are no longer than some number.
LEMMA BoundNext ==
    ASSUME RecordInv, BoundInv, [Next]_vars
    PROVE  BoundInv'
<1>1. PICK m : Bounded(left, m) BY DEF BoundInv
<1>2. left' = left \/ left' = left \cup {path}
  <2>1. CASE InRun
    <3>1. CASE UNCHANGED vars \/ Execute \/ Abort \/ Drained \/ OutsDone
      BY <3>1 DEF vars, log, Execute, Abort, Drained, OutsDone
    <3>2. ASSUME NEW c \in Calls, CallItem(c) \/ Dispatch(c) \/ ToolReturns(c) \/ ToolEnd(c)
          PROVE  left' = left
      BY <3>2 DEF CallItem, Dispatch, ToolReturns, ToolEnd, Taken, Failed, Refused, Written, log
    <3>3. ASSUME NEW c \in Calls, AppendOut(c) \/ Ask(c) \/ Told(c)
          PROVE  left' = left
      BY <3>3 DEF AppendOut, Ask, Told, Annotated, NotWritten, Taken, Failed, Refused, Written,
                  log
    <3>4. ASSUME NEW c \in Calls, NEW d, NEW args, ToolStart(c, d, args)
          PROVE  left' = left
      BY <3>4 DEF ToolStart, Taken, Failed, Refused, Written, log
    <3> QED BY <2>1, <3>1, <3>2, <3>3, <3>4 DEF InRun
  <2>2. CASE RunStart \/ Resume \/ RunEnd \/ CrashAndResume
    BY <2>2 DEF RunStart, Resume, RunEnd, CrashAndResume
  <2>3. ASSUME NEW x, NEW n, Rebase(x, n) PROVE left' = left \cup {path}
    BY <2>3 DEF Rebase
  <2> QED BY <2>1, <2>2, <2>3, NextIs DEF Rewinds
<1>3. IsPath(path) /\ \A r \in left : IsPath(r) BY LogOf DEF BranchInv
<1>4. Len(path) \in Nat /\ \A r \in left : Len(r) \in Nat
  BY <1>3 DEF IsPath
<1>5. CASE m <= Len(path)
  <2>1. \A r \in left \cup {path} : Len(r) <= Len(path)
    BY <1>1, <1>4, <1>5 DEF Bounded
  <2> QED BY <1>2, <1>4, <2>1 DEF BoundInv, Bounded
<1>6. CASE Len(path) <= m BY <1>1, <1>2, <1>6 DEF BoundInv, Bounded
<1> QED BY <1>1, <1>4, <1>5, <1>6 DEF Bounded

\* Where a dispatch may be refused by another subscriber nothing is rewound.
KeysKept == \A b \in Budgets : b.refusals = 0 \/ b.rebases = 0

\* The calls of tools that tell repeats by their key.
KeyedInv == \A c \in Calls : Replay[c] = "keyed" => LinesInv(c) /\ KeyInv(c)
OnceAll == \A c \in Calls : OnceInv(c)

\* What the proof of RepeatsAreSafe keeps.
RepeatInv == HeldInv /\ ArgsInv /\ RanInv /\ BoundInv /\ OnceAll /\ KeyedInv

\* Every step keeps that.
LEMMA NextOnce ==
    ASSUME SoundlyInv, PendingIsSound', OnceAll, [Next]_vars PROVE OnceAll'
<1> SUFFICES ASSUME NEW c \in Calls PROVE OnceInv(c)'
  BY DEF OnceAll
<1>0. RecordInv /\ TrueInv /\ PendInv /\ OnceInv(c)
  BY DEF SoundlyInv, OnceAll
<1>1. CASE InRun BY <1>0, <1>1, InRunIs, OnceInRun
<1>2. CASE RunStart \/ Resume \/ RunEnd BY <1>0, <1>2, OnceRun
<1>3. CASE CrashAndResume \/ Rewinds
  <2>1. Seeded(path', left') /\ hands' = hands
    BY <1>3 DEF CrashAndResume, Rewinds, Rebase
  <2> QED BY <1>0, <2>1, OnceSeeded
<1> QED BY <1>1, <1>2, <1>3, NextIs

\* Every step keeps what a keyed call's dispatches carry.
LEMMA NextKeyed ==
    ASSUME RepeatInv, RefusalsHold, [Next]_vars, RecordInv', RanInv', BoundInv' PROVE KeyedInv'
<1> SUFFICES ASSUME NEW c \in Calls, Replay[c] = "keyed" PROVE LinesInv(c)' /\ KeyInv(c)'
  BY DEF KeyedInv
<1>0. /\ RecordInv /\ BudgetInv /\ TrueInv /\ PendInv /\ ArgsInv /\ RanInv /\ OnceInv(c)
      /\ LinesInv(c) /\ KeyInv(c)
  BY DEF RepeatInv, HeldInv, SoundlyInv, OnceAll, KeyedInv
<1>1. Spent /\ IsPath(path) BY <1>0, BudgetSpent, LogOf DEF BranchInv
<1>2. CASE InRun
  <2>1. LogStep /\ RunStep(c) BY <1>0, <1>2, InRunLog, InRunIs
  <2>2. KeyInv(c)' BY <1>0, <2>1, KeyInRun
  <2>3. CASE HandsOver(c) BY <1>0, <1>1, <2>1, <2>2, <2>3, LinesOver
  <2>4. CASE ~HandsOver(c)
    <3>1. hands'[c] = hands[c]
      BY <2>1, <2>4 DEF LogStep, RunStep, Stays, IsMade, IsDecided
    <3> QED BY <1>0, <1>1, <2>1, <2>2, <2>4, <3>1, LinesKept
  <2> QED BY <2>3, <2>4
<1>3. CASE RunStart \/ Resume \/ RunEnd
  <2>1. PICK k, v :
           /\ k \in {"start", "end"}
           /\ path' = Append(path, Entry(k, 0, v)) /\ left' = left /\ hands' = hands
    BY <1>3 DEF RunStart, Resume, RunEnd
  <2> DEFINE e == Entry(k, 0, v)
  <2>2. e.k \in {"start", "end"} BY <2>1, EntryIs
  <2> HIDE DEF e
  <2>3. OneMore(path, e, path') BY <1>1, <2>1, OneLonger DEF e
  <2>4. /\ Longer(path, path', e.b)
        /\ \A i \in DOMAIN path' : i > Len(path) => path'[i].k \in {"start", "end"}
    BY <2>2, <2>3 DEF OneMore
  <2>5. LinesInv(c)' BY <1>0, <1>1, <2>1, <2>4, LinesNoted
  <2> QED BY <1>0, <1>3, <2>5, KeyRun
<1>4. CASE CrashAndResume \/ Rewinds
  <2>1. Seeded(path', left') /\ hands' = hands
    BY <1>4 DEF CrashAndResume, Rewinds, Rebase
  <2>2. BranchInv(path', left') /\ IsPath(hands[c])
    BY <1>0 DEF RecordInv, TrueInv, GivenInv
  <2>3. LinesInv(c)'
    <3>1. CASE CrashAndResume
      <4>1. path' = Closed(path, Cardinality(left)) /\ left' = left
        BY <3>1 DEF CrashAndResume
      <4>2. /\ Longer(path, path', Cardinality(left))
            /\ \A i \in DOMAIN path' : i > Len(path) => path'[i].k = "end"
        BY <1>1, <4>1, ClosedLonger
      <4> QED BY <1>0, <1>1, <2>1, <4>1, <4>2, LinesNoted
    <3> QED BY <1>0, <1>1, <1>4, <3>1, LinesRebase DEF Rewinds
  <2> QED BY <1>0, <2>1, <2>2, <2>3, KeySeeded
<1> QED BY <1>2, <1>3, <1>4, NextIs

\* Every step keeps the invariant, where refusals hold.
LEMMA NextRepeat ==
    RepeatInv /\ RefusalsHold /\ PendingIsSound' /\ [Next]_vars => RepeatInv'
<1> SUFFICES ASSUME RepeatInv, RefusalsHold, PendingIsSound', [Next]_vars PROVE RepeatInv'
  OBVIOUS
<1>1. HeldInv /\ SoundlyInv /\ ArgsInv /\ RanInv /\ BoundInv /\ OnceAll
  BY DEF RepeatInv, HeldInv
<1>2. HeldInv' /\ ArgsInv' /\ RanInv'
  BY <1>1, NextHeld, NextArgs, NextRan
<1>3. BoundInv' /\ OnceAll'
  BY <1>1, <1>2, BoundNext, NextOnce DEF SoundlyInv
<1>4. RecordInv' BY <1>2 DEF HeldInv, SoundlyInv
<1>5. KeyedInv' BY <1>2, <1>3, <1>4, NextKeyed
<1> QED BY <1>2, <1>3, <1>5 DEF RepeatInv

\* It holds at the start.
LEMMA InitRepeat == ASSUME ArgsKept, KeysKept, Init PROVE RepeatInv
<1>0. /\ path = <<>> /\ left = {} /\ budget \in Budgets /\ phase = "idle"
      /\ \A c \in Calls : /\ hands[c] = <<>> /\ how[c] = NoWay /\ st[c] = "new"
                          /\ pend[c] = NotPending
  BY DEF Init
<1>1. HeldInv BY InitHeld
<1>2. ArgsInv BY InitArgs
<1>3. RanInv BY <1>0 DEF RanInv
<1>4. BoundInv
  <2>1. Bounded(left, 0) BY <1>0 DEF Bounded
  <2> QED BY <2>1 DEF BoundInv
<1>5. OnceAll
  <2>1. /\ ~NoWay.appr /\ ~NoWay.hand /\ ~NoWay.def /\ Len(<<>>) = 0
    BY DEF NoWay
  <2> QED BY <1>0, <2>1 DEF OnceAll, OnceInv
<1>6. KeyedInv
  <2> SUFFICES ASSUME NEW c \in Calls PROVE LinesInv(c) /\ KeyInv(c)
    BY DEF KeyedInv
  <2>1. AlikeFrom(path, c, hands[c], 0) BY <1>0 DEF AlikeFrom, At
  <2>2. budget.refusals = 0 \/ budget.rebases = 0 BY <1>0 DEF KeysKept
  <2> QED BY <1>0, <2>1, <2>2 DEF LinesInv, KeyInv
<1> QED BY <1>1, <1>2, <1>3, <1>4, <1>5, <1>6 DEF RepeatInv

\* A call whose tool may not run twice is given to it once, and one whose
\* tool tells repeats by their key is given to it with one key.
LEMMA RepeatsAre == RepeatInv => RepeatsAreSafe
<1> SUFFICES ASSUME RepeatInv, NEW c \in Calls, NEW i \in DOMAIN hands[c],
                    NEW j \in DOMAIN hands[c], i < j, Replay[c] # "safe"
             PROVE  /\ Replay[c] = "keyed"
                    /\ hands[c][i].key = hands[c][j].key
                    /\ hands[c][i].args = hands[c][j].args
  BY DEF RepeatsAreSafe
<1>1. Replay[c] \in {"safe", "keyed", "never"} BY RecordAssumption
<1>2. DOMAIN hands[c] = 1..Len(hands[c]) /\ Len(hands[c]) \in Nat
  BY DEF RepeatInv, HeldInv, SoundlyInv, TrueInv, GivenInv, IsPath
<1>3. Len(hands[c]) > 1 BY <1>2
<1>4. Replay[c] # "never" BY <1>2, <1>3 DEF RepeatInv, OnceAll, OnceInv
<1>5. Alike(hands[c], hands[c][i].key, hands[c][i].args)
      /\ Alike(hands[c], hands[c][j].key, hands[c][j].args)
  BY <1>1, <1>4 DEF RepeatInv, KeyedInv, KeyInv
<1> QED BY <1>1, <1>4, <1>5 DEF Alike

\* And RepeatsAreSafe, where refused dispatches are not rewound to.
LEMMA RepeatsSafeWhile ==
    ASSUME ArgsKept, KeysKept PROVE Spec /\ []RefusalsHold => []RepeatsAreSafe
<1>1. Init => RepeatInv BY InitRepeat
<1>2. RepeatInv /\ RefusalsHold /\ PendingIsSound' /\ [Next]_vars => RepeatInv'
  BY NextRepeat
<1>3. RepeatInv => RepeatsAreSafe BY RepeatsAre
<1>4. Spec /\ []RefusalsHold => []PendingIsSound BY PendingSoundWhile
<1> QED BY <1>1, <1>2, <1>3, <1>4, PTL DEF Spec

-----------------------------------------------------------------------------
(* Refusals hold where a run that blocks a call is not cut off between its *)
(* decision and its output by a failure at another call or subscriber.     *)

\* What a step of a run adds to the path about call d: an output of a call
\* that is then done, and a refusal of one that is, or that a hook blocks.
Adds(d) ==
    \A i \in DOMAIN path' : i > Len(path) /\ path'[i].c = d =>
        /\ path'[i].k = "call" => d \in budget.calls
        /\ path'[i].k = "output" => st'[d] = "gone"
        /\ path'[i].k \in {"reject", "answer"} =>
              \/ st'[d] = "gone"
              \/ /\ st'[d] = "refusing" /\ how'[d].out = "refusal"
                 /\ "block" \in budget.decisions /\ phase' = "start"

\* The entries that a handler adds are among its steps'.
LEMMA HandlerAdds ==
    ASSUME RecordInv, NEW c \in Calls, NEW r0, NEW steps, StepsOf(c, steps),
           Taken(c, r0, steps) \/ Failed(c, r0, steps)
    PROVE  \A i \in DOMAIN path' : i > Len(path) =>
              \E j \in DOMAIN steps : path'[i] = steps[j].e /\ path'[i].c = c
<1>0. IsPath(path) /\ DOMAIN rec = Calls BY LogOf DEF BranchInv
<1>a. IsPath(steps) /\ \A i \in DOMAIN steps : steps[i].e.b = Cardinality(left)
  BY DEF StepsOf
<1>1. PICK n \in 0..Len(steps) :
              /\ Longer(path, path', Cardinality(left)) /\ Len(path') = Len(path) + n
              /\ \A i \in 1..n : path'[Len(path) + i] = steps[i].e
              /\ left' = left /\ run' = run
              /\ rec'[c] = (IF n = 0 THEN r0 ELSE steps[n].r)
              /\ \A d \in Calls \ {c} : rec'[d] = rec[d]
              /\ n # Len(steps) => budget.fails > 0 /\ ~Taken(c, r0, steps)
  BY <1>0, <1>a, HandlerLog
<1>2. Len(path) \in Nat /\ DOMAIN path' = 1..(Len(path) + n) /\ n \in Nat
      /\ Len(steps) \in Nat /\ DOMAIN steps = 1..Len(steps)
  BY <1>1, LongerIs DEF StepsOf, IsPath
<1> SUFFICES ASSUME NEW i \in DOMAIN path', i > Len(path)
             PROVE  \E j \in DOMAIN steps : path'[i] = steps[j].e /\ path'[i].c = c
  OBVIOUS
<1> DEFINE j == i - Len(path)
<1>3. j \in 1..n /\ Len(path) + j = i /\ j \in DOMAIN steps BY <1>2
<1> HIDE DEF j
<1> QED BY <1>1, <1>3 DEF StepsOf

\* Nothing is added.
LEMMA NoneAdded ==
    ASSUME IsPath(path), path' = path, NEW d PROVE Adds(d)
<1>1. \A i \in DOMAIN path' : ~(i > Len(path)) BY DEF IsPath
<1> QED BY <1>1 DEF Adds

\* The actions of the agent alone, and the questions.
LEMMA AgentAdds ==
    ASSUME RecordInv,
           \/ UNCHANGED vars \/ Execute \/ Abort \/ Drained \/ OutsDone
           \/ \E c \in Calls : ToolReturns(c) \/ Ask(c) \/ Told(c),
           NEW d \in Calls
    PROVE  Adds(d)
<1>0. IsPath(path) BY LogOf DEF BranchInv
<1>1. CASE path' = path BY <1>0, <1>1, NoneAdded
<1>2. ASSUME NEW e, e.k \in {"ask", "told"}, path' = Append(path, e) PROVE Adds(d)
  <2>1. \A i \in DOMAIN path' : i > Len(path) => path'[i] = e
    BY <1>0, <1>2, OneLonger DEF OneMore
  <2> QED BY <1>2, <2>1 DEF Adds
<1>3. CASE UNCHANGED vars \/ Execute \/ Abort \/ Drained \/ OutsDone
  BY <1>1, <1>3 DEF vars, log, Execute, Abort, Drained, OutsDone
<1>4. ASSUME NEW c \in Calls, ToolReturns(c) PROVE Adds(d)
  BY <1>1, <1>4 DEF ToolReturns, log
<1>5. ASSUME NEW c \in Calls, Ask(c) \/ Told(c) PROVE Adds(d)
  <2>1. path' = path \/ \E k \in {"ask", "told"}, v \in {0, asking[c]} :
                           path' = Append(path, Entry(k, c, v))
    BY <1>5 DEF Ask, Told, Annotated, NotWritten, log
  <2> QED BY <1>1, <1>2, <2>1, EntryIs
<1> QED BY <1>3, <1>4, <1>5

\* A call of the response.
LEMMA CallItemAdds ==
    ASSUME RecordInv, NEW c \in Calls, CallItem(c), NEW d \in Calls PROVE Adds(d)
<1> DEFINE x == [NoRecord EXCEPT !.known = TRUE]
           e == Entry("call", c, 0)
           steps == Step("call", c, 0, x)
<1>1. c \in budget.calls /\ (Taken(c, rec[c], steps) \/ Failed(c, rec[c], steps))
  BY DEF CallItem
<1>2. IsPath(steps) /\ DOMAIN steps = {1} /\ steps[1].e = e
  BY StepsAre DEF Step
<1>3. e.k = "call" /\ e.c = c /\ e.b = Cardinality(left) BY EntryIs
<1> HIDE DEF steps, e
<1>5. StepsOf(c, steps) BY <1>2, <1>3 DEF StepsOf
<1>4. \A i \in DOMAIN path' : i > Len(path) => path'[i] = e
  BY <1>1, <1>2, <1>5, HandlerAdds
<1> QED BY <1>1, <1>3, <1>4 DEF Adds

\* An output.
LEMMA AppendOutAdds ==
    ASSUME RecordInv, NEW c \in Calls, AppendOut(c), NEW d \in Calls PROVE Adds(d)
<1> DEFINE r == rec[c]
           steps == OutputSteps(c, r, how[c].out)
<1>0. IsPath(path) /\ DOMAIN st = Calls
  BY LogOf DEF BranchInv, RecordInv, RunInv
<1>1. \/ (Taken(c, r, steps) \/ Failed(c, r, steps)) /\ st' = [st EXCEPT ![c] = "gone"]
      \/ path' = path
  BY DEF AppendOut, Refused, log
<1>2. CASE path' = path BY <1>0, <1>2, NoneAdded
<1>3. CASE (Taken(c, r, steps) \/ Failed(c, r, steps)) /\ st' = [st EXCEPT ![c] = "gone"]
  <2>1. StepsOf(c, steps) /\ \A i \in DOMAIN steps : steps[i].e.k \in {"output", "answer", "reject"}
    BY OutputOf
  <2> HIDE DEF steps, r
  <2>2. \A i \in DOMAIN path' : i > Len(path) =>
           path'[i].c = c /\ path'[i].k \in {"output", "answer", "reject"}
    BY <1>3, <2>1, HandlerAdds
  <2> QED BY <1>0, <1>3, <2>2 DEF Adds
<1> QED BY <1>1, <1>2, <1>3

\* The end of a call in its batch.
LEMMA ToolEndAdds ==
    ASSUME RecordInv, NEW c \in Calls, ToolEnd(c), NEW d \in Calls PROVE Adds(d)
<1> DEFINE r == rec[c]
           steps == EndSteps(c, r, st[c] = "stopped", st[c] = "back" /\ how[c].out = "own")
<1>1. Taken(c, r, steps) \/ Failed(c, r, steps) BY DEF ToolEnd
<1>2. steps = <<>> \/ \E k \in {"withdraw", "result"} : \E x :
                         steps = <<[e |-> Entry(k, c, 0), r |-> x]>>
  BY DEF EndSteps, Step
<1>3. StepsOf(c, steps) /\ \A i \in DOMAIN steps : steps[i].e.k \in {"withdraw", "result"}
  <2> HIDE DEF steps
  <2> QED BY <1>2, StepsAre, EntryIs DEF StepsOf
<1> HIDE DEF steps, r
<1>4. \A i \in DOMAIN path' : i > Len(path) => path'[i].k \in {"withdraw", "result"}
  BY <1>1, <1>3, HandlerAdds
<1> QED BY <1>4 DEF Adds

\* The decision of a call.
LEMMA ToolStartAdds ==
    ASSUME RecordInv, TrueInv, NEW c \in Calls, NEW k \in budget.decisions, NEW args \in {0, 1},
           ToolStart(c, k, args), NEW d \in Calls
    PROVE  Adds(d)
<1> DEFINE r == rec[c]
           r0 == StartRecord(r, k, args)
           steps == StartSteps(c, r, k, args)
<1>0. IsPath(path) /\ DOMAIN st = Calls /\ DOMAIN how = Calls /\ r \in RecordType(r)
      /\ how[c] \in HowType(how[c])
  BY LogOf DEF BranchInv, RecordInv, RunInv, SoundInv, TrueInv, GivenInv
<1>1. /\ \/ ~StartRefused(r) /\ (Taken(c, r0, steps) \/ Failed(c, r0, steps))
         \/ path' = path
      /\ phase' = "start"
  BY DEF ToolStart, Refused, log
<1>2. CASE path' = path BY <1>0, <1>2, NoneAdded
<1>3. CASE ~StartRefused(r) /\ (Taken(c, r0, steps) \/ Failed(c, r0, steps))
  <2>1. StartWrites(c, r, k, args, steps) BY <1>0, <1>3, StartShape
  <2> HIDE DEF steps, r0, r
  <2>2. steps = <<>> \/ \E x \in Decisions : \E w, r2 :
           /\ steps = <<[e |-> Entry(x, c, w), r |-> r2]>>
           /\ x \in {"reject", "answer"} => k = "block"
    BY <2>1 DEF StartWrites
  <2>3. StepsOf(c, steps) /\ \A i \in DOMAIN steps :
           /\ steps[i].e.k \in Decisions
           /\ steps[i].e.k \in {"reject", "answer"} => k = "block"
    BY <2>2, StepsAre, EntryIs DEF StepsOf
  <2>4. \A i \in DOMAIN path' : i > Len(path) =>
           /\ path'[i].c = c /\ path'[i].k \in Decisions
           /\ path'[i].k \in {"reject", "answer"} => k = "block"
    BY <1>3, <2>3, HandlerAdds
  <2>5. k = "block" => st'[c] = "refusing" /\ how'[c].out = "refusal"
    <3> SUFFICES ASSUME k = "block" PROVE st'[c] = "refusing" /\ how'[c].out = "refusal"
      OBVIOUS
    <3>1. /\ st' = [st EXCEPT ![c] = "refusing"]
          /\ how' = [how EXCEPT ![c].args = args, ![c].def = FALSE, ![c].out = "refusal"]
      BY DEF ToolStart
    <3>2. how'[c] = HowWith(how[c], args, FALSE, "refusal")
      BY <1>0, <3>1 DEF HowWith
    <3> QED BY <1>0, <3>1, <3>2, HowDecided
  <2> QED BY <1>1, <2>4, <2>5 DEF Adds, Decisions
<1> QED BY <1>1, <1>2, <1>3

\* The hand-off of a call to its tool.
LEMMA DispatchAdds ==
    ASSUME RecordInv, TrueInv, RefusalsHold, NEW c \in Calls, Dispatch(c), NEW d \in Calls
    PROVE  Adds(d)
<1> DEFINE r == rec[c]
           steps == DispatchSteps(c, r, how[c].key)
<1>0. IsPath(path) /\ r \in RecordType(r)
  BY LogOf DEF BranchInv, SoundInv
<1>1. /\ st[c] = "ready" /\ phase = "work" /\ ~failing
      /\ \/ ~DispatchRefused(r) /\ (Taken(c, r, steps) \/ Failed(c, r, steps))
         \/ path' = path
  BY DEF Dispatch, Refused, log
<1>2. CASE path' = path BY <1>0, <1>2, NoneAdded
<1>3. CASE ~DispatchRefused(r) /\ (Taken(c, r, steps) \/ Failed(c, r, steps))
  <2>1. r.known /\ ~r.rejected /\ ~Mine(r, run) /\ run # 0
    BY <1>1, <1>3, ReadyIs
  <2>2. DispatchedBy(c, r, how[c].key, steps) BY <1>0, <2>1, DispatchOf
  <2> HIDE DEF steps, r
  <2>3. StepsOf(c, steps) /\ \A i \in DOMAIN steps : steps[i].e.k \in {"dispatch", "proceed"}
    BY <2>2, EntryIs DEF DispatchedBy
  <2>4. \A i \in DOMAIN path' : i > Len(path) => path'[i].k \in {"dispatch", "proceed"}
    BY <1>3, <2>3, HandlerAdds
  <2> QED BY <2>4 DEF Adds
<1> QED BY <1>1, <1>2, <1>3

\* Any action of a run.
LEMMA InRunAdds ==
    ASSUME RecordInv, BudgetInv, TrueInv, RefusalsHold, InRun, NEW d \in Calls PROVE Adds(d)
<1>1. budget.args \subseteq {0, 1} BY DEF BudgetInv
<1> QED BY <1>1, AgentAdds, CallItemAdds, ToolStartAdds, DispatchAdds, ToolEndAdds, AppendOutAdds
        DEF InRun

\* The bounds allow no failure that cuts off a batch with a blocked call.
Undisturbed ==
    "block" \in budget.decisions =>
        /\ budget.refusals = 0
        /\ budget.fails = 0 \/ \A c, d \in budget.calls : c = d

\* A call that the path refuses or answers is done, pending as such, or on
\* its way to its output.
RefusedInv(c) ==
    LET h == how[c] p == pend[c] IN
    /\ Has(path, c, {"output"}) => st[c] = "gone"
    /\ Has(path, c, {"call"}) \/ st[c] \notin {"new", "gone"} => c \in budget.calls
    /\ \A q \in left : Has(q, c, {"call"}) => c \in budget.calls
    /\ Has(path, c, {"reject", "answer"}) =>
          \/ st[c] = "gone"
          \/ /\ st[c] \in {"owed", "answer"} /\ p.why \in {"rejected", "answered"}
             /\ ~h.def /\ ~h.hand /\ ~h.appr
          \/ /\ st[c] \in {"refusing", "over"} /\ h.out = "refusal"
             /\ "block" \in budget.decisions
             /\ phase \in {"start", "work"} \/ (phase = "out" /\ st[c] = "over")

RefusedAll == Undisturbed /\ \A c \in Calls : RefusedInv(c)

\* So none is ready for its tool.
LEMMA RefusedHold == RefusedAll => RefusalsHold
BY DEF RefusedAll, RefusedInv, RefusalsHold

\* The bounds stay such.
LEMMA StaysUndisturbed ==
    ASSUME Undisturbed, BudgetInv, [Next]_vars PROVE Undisturbed'
<1>1. Spent BY BudgetSpent
<1> QED BY <1>1 DEF Undisturbed, Spent

\* What a path that has grown says of a call.
LEMMA HasLonger ==
    ASSUME NEW p, NEW p2, NEW b, Longer(p, p2, b), NEW c, NEW K, Has(p2, c, K), ~Has(p, c, K)
    PROVE  \E i \in DOMAIN p2 : i > Len(p) /\ p2[i].c = c /\ p2[i].k \in K
<1>1. PICK i \in DOMAIN p2 : p2[i].c = c /\ p2[i].k \in K BY DEF Has
<1>2. Len(p) \in Nat /\ DOMAIN p = 1..Len(p) /\ DOMAIN p2 = 1..Len(p2) /\ Len(p2) \in Nat
  BY LongerIs
<1>3. i \notin DOMAIN p BY <1>1 DEF Has, Longer
<1>4. i > Len(p) BY <1>2, <1>3
<1> QED BY <1>1, <1>4

\* A call that is made is one of the response's.
LEMMA MadeOf ==
    ASSUME RecordInv, InRun, NEW d \in Calls, st[d] = "new", st'[d] \notin {"new", "gone"}
    PROVE  d \in budget.calls
<1>0. DOMAIN st = Calls BY DEF RecordInv, RunInv
<1>1. CASE st'[d] = st[d] BY <1>1
<1>2. CASE UNCHANGED vars \/ Execute \/ Abort \/ Drained \/ OutsDone
  BY <1>1, <1>2 DEF vars, agent, Execute, Abort, Drained, OutsDone
<1>3. ASSUME NEW c \in Calls, CallItem(c) PROVE d \in budget.calls
  <2>1. /\ c \in budget.calls
        /\ \/ st' = [st EXCEPT ![c] = "todo"]
           \/ st' = [x \in Calls |-> IF x = c \/ st[x] = "todo" THEN "owed" ELSE "gone"]
    BY <1>3 DEF CallItem
  <2> QED BY <1>0, <2>1
<1>4. ASSUME NEW c \in Calls, st[c] # "new", \E x : st' = [st EXCEPT ![c] = x]
      PROVE  d \in budget.calls
  BY <1>0, <1>4
<1>5. ASSUME NEW c \in Calls, ToolReturns(c) \/ Ask(c) \/ Told(c) PROVE d \in budget.calls
  BY <1>1, <1>4, <1>5 DEF ToolReturns, Ask, Told
<1>6. ASSUME NEW c \in Calls, Dispatch(c) PROVE d \in budget.calls
  BY <1>4, <1>6 DEF Dispatch
<1>7. ASSUME NEW c \in Calls, ToolEnd(c) PROVE d \in budget.calls
  BY <1>4, <1>7 DEF ToolEnd
<1>8. ASSUME NEW c \in Calls, AppendOut(c) PROVE d \in budget.calls
  <2>1. st' = st \/ st' = [st EXCEPT ![c] = "gone"]
    BY <1>8 DEF AppendOut
  <2> QED BY <1>0, <2>1
<1>9. ASSUME NEW c \in Calls, NEW k, NEW args, ToolStart(c, k, args) PROVE d \in budget.calls
  BY <1>4, <1>9 DEF ToolStart
<1> QED BY <1>2, <1>3, <1>5, <1>6, <1>7, <1>8, <1>9 DEF InRun

\* An output is appended of a call that has none.
LEMMA OutOnce ==
    ASSUME RecordInv, NEW c \in Calls, RefusedInv(c), st[c] # "gone" PROVE ~OutputRefused(rec[c])
<1>1. AgreeInv(path, left, c, rec[c]) BY LogOf DEF SoundInv
<1> QED BY <1>1 DEF AgreeInv, OutputRefused, RefusedInv

\* Nothing cuts off a batch between the refusal of a call that a hook blocks
\* and its output.
LEMMA GoesOut ==
    ASSUME RecordInv, BudgetInv, TrueInv, RefusedAll, InRun, NEW c \in Calls,
           st[c] \in {"refusing", "over"}, how[c].out = "refusal", "block" \in budget.decisions,
           phase \in {"start", "work"} \/ (phase = "out" /\ st[c] = "over"),
           st'[c] \in {"refusing", "over"}
    PROVE  phase' \in {"start", "work"} \/ (phase' = "out" /\ st'[c] = "over")
<1>0. RunStep(c) /\ DOMAIN st = Calls BY InRunIs DEF RecordInv, RunInv
<1>1. CASE phase' = phase
  <2>1. st[c] = "over" => st'[c] = "over"
    BY <1>0 DEF RunStep, Stays, IsMade, IsDecided, IsGiven
  <2> QED BY <1>1, <2>1
<1>2. CASE UNCHANGED vars \/ Abort \/ \E x \in Calls : ToolReturns(x) \/ Ask(x) \/ Told(x)
  BY <1>1, <1>2 DEF vars, agent, Abort, ToolReturns, Ask, Told
<1>3. CASE Execute BY <1>3 DEF Execute
<1>4. CASE Drained BY <1>4 DEF Drained
<1>5. CASE OutsDone BY <1>5 DEF OutsDone, Outs
<1>6. ASSUME NEW x \in Calls, CallItem(x) PROVE FALSE
  BY <1>6 DEF CallItem
<1>7. ASSUME NEW x \in Calls, Dispatch(x) \/ ToolEnd(x) PROVE phase' = phase
  BY <1>7 DEF Dispatch, ToolEnd
<1>9. ASSUME NEW x \in Calls, NEW k, NEW a, ToolStart(x, k, a) PROVE phase' = phase
  BY <1>9 DEF ToolStart
<1>8. ASSUME NEW x \in Calls, AppendOut(x) PROVE phase' = phase
  <2>1. Outs # {} /\ x = First(Outs) /\ Outs \subseteq Calls
    BY <1>8 DEF AppendOut, Outs
  <2>2. x \in Outs BY <2>1, FirstIn
  <2>3. phase = "out" /\ st[x] = "over" BY <2>2 DEF Outs
  <2>4. budget.refusals = 0 /\ budget.fails \in Nat
        /\ (budget.fails = 0 \/ \A y, z \in budget.calls : y = z)
    BY DEF RefusedAll, Undisturbed, BudgetInv
  <2>5. x \in budget.calls /\ c \in budget.calls /\ ~OutputRefused(rec[x])
    <3>1. RefusedInv(x) /\ RefusedInv(c) BY DEF RefusedAll
    <3>2. x \in budget.calls /\ c \in budget.calls
      BY <2>3, <3>1 DEF RefusedInv
    <3> QED BY <2>3, <3>1, <3>2, OutOnce
  <2>6. \/ phase' = phase
        \/ /\ st' = [st EXCEPT ![x] = "gone"] /\ budget.fails > 0
        \/ budget.refusals > 0
    BY <1>8, <2>5 DEF AppendOut, Failed
  <2>7. ASSUME st' = [st EXCEPT ![x] = "gone"], budget.fails > 0 PROVE FALSE
    <3>1. x = c BY <2>4, <2>5, <2>7
    <3> QED BY <1>0, <2>7, <3>1
  <2> QED BY <2>4, <2>6, <2>7
<1> QED BY <1>1, <1>2, <1>3, <1>4, <1>5, <1>6, <1>7, <1>8, <1>9 DEF InRun

\* An action of a run.
LEMMA RefusedInRun ==
    ASSUME RecordInv, BudgetInv, TrueInv, RefusedAll, [Next]_vars, InRun, NEW c \in Calls
    PROVE  RefusedInv(c)'
<1> DEFINE K == {"reject", "answer"}
<1>0. /\ RunStep(c) /\ RefusedInv(c) /\ Adds(c) /\ RefusalsHold
      /\ Longer(path, path', Cardinality(left)) /\ left' = left
      /\ budget'.calls = budget.calls /\ budget'.decisions = budget.decisions
  <2>1. RefusalsHold BY RefusedHold
  <2>2. LogStep BY <2>1, InRunLog
  <2>3. Spent BY BudgetSpent
  <2> QED BY <2>1, <2>2, <2>3, InRunIs, InRunAdds DEF RefusedAll, LogStep, Spent
<1>1. st[c] = "gone" => st'[c] = "gone"
  BY <1>0 DEF RunStep, Stays, IsMade, IsDecided, IsGiven
<1>2. Has(path', c, {"output"}) => st'[c] = "gone"
  <2>1. CASE Has(path, c, {"output"}) BY <1>0, <1>1, <2>1 DEF RefusedInv
  <2>2. ASSUME ~Has(path, c, {"output"}), Has(path', c, {"output"}) PROVE st'[c] = "gone"
    BY <1>0, <2>2, HasLonger DEF Adds
  <2> QED BY <2>1, <2>2
<1>3. Has(path', c, {"call"}) => c \in budget.calls
  <2>1. CASE Has(path, c, {"call"}) BY <1>0, <2>1 DEF RefusedInv
  <2>2. ASSUME ~Has(path, c, {"call"}), Has(path', c, {"call"}) PROVE c \in budget.calls
    BY <1>0, <2>2, HasLonger DEF Adds
  <2> QED BY <2>1, <2>2
<1>4. st'[c] \notin {"new", "gone"} => c \in budget.calls
  BY <1>0, <1>1, MadeOf DEF RefusedInv
<1>5. ASSUME Has(path', c, K), st'[c] # "gone"
      PROVE  \/ /\ st'[c] \in {"owed", "answer"} /\ pend'[c].why \in {"rejected", "answered"}
                /\ ~how'[c].def /\ ~how'[c].hand /\ ~how'[c].appr
             \/ /\ st'[c] \in {"refusing", "over"} /\ how'[c].out = "refusal"
                /\ "block" \in budget.decisions
                /\ phase' \in {"start", "work"} \/ (phase' = "out" /\ st'[c] = "over")
  <2>1. CASE ~Has(path, c, K) BY <1>0, <1>5, <2>1, HasLonger DEF Adds
  <2>2. CASE Has(path, c, K) /\ st[c] \in {"owed", "answer"}
    <3>1. /\ pend[c].why \in {"rejected", "answered"}
          /\ ~how[c].def /\ ~how[c].hand /\ ~how[c].appr
      BY <1>0, <2>2 DEF RefusedInv
    <3>2. st'[c] = st[c] /\ pend'[c] = pend[c] /\ StandsAs(how[c], how'[c])
      BY <1>0, <1>5, <2>2 DEF RunStep, Stays, IsMade, IsDecided, IsGiven
    <3> QED BY <2>2, <3>1, <3>2 DEF StandsAs
  <2>3. CASE Has(path, c, K) /\ st[c] \notin {"owed", "answer"}
    <3>1. /\ st[c] \in {"refusing", "over"} /\ how[c].out = "refusal"
          /\ "block" \in budget.decisions
          /\ phase \in {"start", "work"} \/ (phase = "out" /\ st[c] = "over")
      BY <1>0, <1>1, <1>5, <2>3 DEF RefusedInv
    <3>2. st'[c] \in {"refusing", "over"} /\ how'[c] = how[c]
      BY <1>0, <1>5, <3>1 DEF RunStep, Stays, IsMade, IsDecided, IsGiven
    <3> QED BY <3>1, <3>2, GoesOut
  <2> QED BY <2>1, <2>2, <2>3
<1> QED BY <1>0, <1>2, <1>3, <1>4, <1>5 DEF RefusedInv

\* A run that starts or ends adds nothing about a call.
LEMMA RunAdds ==
    ASSUME RecordInv, RunStart \/ Resume \/ RunEnd, NEW c, NEW K,
           "start" \notin K, "end" \notin K, Has(path', c, K)
    PROVE  Has(path, c, K)
<1>1. IsPath(path) BY LogOf DEF BranchInv
<1>2. PICK k, v : k \in {"start", "end"} /\ path' = Append(path, Entry(k, 0, v))
  BY DEF RunStart, Resume, RunEnd
<1> DEFINE e == Entry(k, 0, v)
<1>3. e.k \in {"start", "end"} BY <1>2, EntryIs
<1> HIDE DEF e
<1>4. OneMore(path, e, path') BY <1>1, <1>2, OneLonger DEF e
<1>5. Longer(path, path', e.b) /\ \A i \in DOMAIN path' : i > Len(path) => path'[i].k \notin K
  BY <1>3, <1>4 DEF OneMore
<1> QED BY <1>5, HasLonger

\* A run that starts or ends.
LEMMA RefusedRun ==
    ASSUME RecordInv, BudgetInv, TrueInv, PendInv, RefusedAll, [Next]_vars,
           RunStart \/ Resume \/ RunEnd, NEW c \in Calls
    PROVE  RefusedInv(c)'
<1>0. /\ RefusedInv(c) /\ pend[c] \in PendType(pend[c])
      /\ budget'.calls = budget.calls /\ left' = left
      /\ (st[c] = "answer" => phase # "idle")
  <2>1. Spent BY BudgetSpent
  <2>2. left' = left BY DEF RunStart, Resume, RunEnd
  <2> QED BY <2>1, <2>2 DEF RefusedAll, Spent, PendInv, TrueInv, GivenInv
<1>1. /\ Has(path', c, {"output"}) => Has(path, c, {"output"})
      /\ Has(path', c, {"call"}) => Has(path, c, {"call"})
      /\ Has(path', c, {"reject", "answer"}) => Has(path, c, {"reject", "answer"})
  BY RunAdds
<1>2. CASE RunStart
  <2>1. st' = st /\ pend' = pend /\ how' = how /\ phase = "idle"
    BY <1>2 DEF RunStart
  <2> QED BY <1>0, <1>1, <2>1 DEF RefusedInv
<1>3. CASE Resume
  <2>1. phase = "idle" /\ pend' = pend BY <1>3 DEF Resume
  <2>2. CASE st[c] # "owed" /\ st'[c] = st[c] /\ how'[c] = NoWay
    BY <1>0, <1>1, <2>1, <2>2 DEF RefusedInv
  <2>3. ASSUME NEW out, st[c] = "owed", st'[c] = "answer", how'[c] = Given(out)
        PROVE  RefusedInv(c)'
    <3>1. ~how'[c].def /\ ~how'[c].hand /\ ~how'[c].appr
      BY <2>3, HowAnswered
    <3> QED BY <1>0, <1>1, <2>1, <2>3, <3>1 DEF RefusedInv
  <2>4. CASE /\ st[c] = "owed" /\ st'[c] = "todo"
             /\ pend[c].why \in {"undispatched", "aborted", "deferred"}
    <3>1. ~Has(path, c, {"reject", "answer"})
      BY <1>0, <2>4 DEF RefusedInv
    <3> QED BY <1>0, <1>1, <2>1, <2>4, <3>1 DEF RefusedInv
  <2> QED BY <1>3, <2>2, <2>3, <2>4, ResumeIs
<1>4. CASE RunEnd
  <2>1. /\ phase = "ending"
        /\ st'[c] = IF st[c] \in {"new", "gone"} THEN "gone" ELSE "owed"
        /\ pend'[c] = IF st[c] \in {"new", "gone"} THEN NotPending ELSE PendingOf(c)
        /\ how'[c] = NoWay
    BY <1>4 DEF RunEnd
  <2>2. ASSUME Has(path, c, {"reject", "answer"}), st[c] \notin {"new", "gone"}
        PROVE  pend'[c].why \in {"rejected", "answered"}
    <3>1. /\ pend[c].why \in {"rejected", "answered"}
          /\ ~how[c].def /\ ~how[c].hand /\ ~how[c].appr
      BY <1>0, <2>1, <2>2 DEF RefusedInv
    <3>2. ~MayHaveRun(pend[c]) BY <3>1 DEF MayHaveRun
    <3>3. PendingOf(c) = pend[c] BY <3>1, <3>2 DEF PendingOf
    <3> QED BY <2>1, <2>2, <3>1, <3>3
  <2>3. ~NoWay.def /\ ~NoWay.hand /\ ~NoWay.appr BY DEF NoWay
  <2> QED BY <1>0, <1>1, <2>1, <2>2, <2>3 DEF RefusedInv
<1> QED BY <1>2, <1>3, <1>4

\* A call that a path refuses or answers is pending as such.
LEMMA RefusedPending ==
    ASSUME NEW p, NEW l, NEW c \in Unanswered(p), Has(p, c, {"reject", "answer"})
    PROVE  PendingCall(p, l, c).why \in {"rejected", "answered"}
<1> DEFINE s == State(p, c)
<1>1. ~Has(p, c, {"output"}) /\ (Has(p, c, {"reject"}) \/ Has(p, c, {"answer"}))
  BY DEF Unanswered, Has
<1>2. /\ Has(p, c, {"output", "reject"}) <=> Has(p, c, {"reject"})
      /\ Has(p, c, {"output", "reject", "answer"})
  BY <1>1 DEF Has
<1>3. CASE Has(p, c, {"reject"})
  <2>1. s = "rejected" BY <1>1, <1>2, <1>3 DEF State
  <2> HIDE DEF s
  <2> QED BY <2>1 DEF PendingCall, s
<1>4. CASE ~Has(p, c, {"reject"})
  <2>1. s = "answered" BY <1>1, <1>2, <1>4 DEF State
  <2> HIDE DEF s
  <2> QED BY <2>1 DEF PendingCall, s
<1> QED BY <1>3, <1>4

\* A record that is opened again, on the path or after a rewind.
LEMMA RefusedReopened ==
    ASSUME RecordInv, BudgetInv, RefusedAll, [Next]_vars,
           CrashAndResume \/ Rewinds, NEW c \in Calls
    PROVE  RefusedInv(c)'
<1>0. /\ RefusedInv(c) /\ budget'.calls = budget.calls /\ IsPath(path)
  <2>1. Spent BY BudgetSpent
  <2> QED BY <2>1, LogOf DEF RefusedAll, Spent, BranchInv
<1>1. Seeded(path', left') BY DEF CrashAndResume, Rewinds, Rebase
<1>2. /\ st'[c] = IF c \in Unanswered(path') THEN "owed" ELSE "gone"
      /\ pend'[c] = IF c \in Unanswered(path') THEN PendingCall(path', left', c) ELSE NotPending
      /\ how'[c] = NoWay
  BY <1>1 DEF Seeded
<1>3. /\ Has(path', c, {"call"}) => c \in budget.calls
      /\ \A y \in left' : Has(y, c, {"call"}) => c \in budget.calls
  <2>0. \A y \in left \cup {path} : Has(y, c, {"call"}) => c \in budget.calls
    BY <1>0 DEF RefusedInv
  <2>1. ASSUME NEW q, NEW b, Longer(q, path', b),
               \A i \in DOMAIN path' : i > Len(q) => path'[i].k = "end", Has(path', c, {"call"})
        PROVE  Has(q, c, {"call"})
    BY <2>1, HasLonger
  <2>2. CASE CrashAndResume
    <3>1. path' = Closed(path, Cardinality(left)) /\ left' = left
      BY <2>2 DEF CrashAndResume
    <3>2. /\ Longer(path, path', Cardinality(left))
          /\ \A i \in DOMAIN path' : i > Len(path) => path'[i].k = "end"
      BY <1>0, <3>1, ClosedLonger
    <3> QED BY <2>0, <2>1, <3>1, <3>2
  <2>3. ASSUME NEW x, NEW n, Rebase(x, n)
        PROVE  /\ Has(path', c, {"call"}) => c \in budget.calls
               /\ \A y \in left' : Has(y, c, {"call"}) => c \in budget.calls
    <3> DEFINE q == SubSeq(x, 1, n)
               l == left \cup {path}
    <3>1. /\ x \in l /\ n \in 0..Len(x) /\ IsPath(x) /\ left' = l
          /\ Longer(q, path', Cardinality(l))
          /\ \A i \in DOMAIN path' : i > Len(q) => path'[i].k = "end"
      BY <2>3, RewindIs
    <3>2. DOMAIN q = 1..n /\ DOMAIN x = 1..Len(x) /\ Len(x) \in Nat
          /\ \A i \in 1..n : q[i] = x[i]
      BY <3>1, Cut
    <3> HIDE DEF q
    <3>3. Has(path', c, {"call"}) => Has(q, c, {"call"}) BY <2>1, <3>1
    <3>4. \A i \in 1..n : i \in DOMAIN x BY <3>1, <3>2
    <3>5. Has(q, c, {"call"}) => Has(x, c, {"call"})
      BY <3>2, <3>4 DEF Has
    <3> QED BY <2>0, <3>1, <3>3, <3>5
  <2> QED BY <2>2, <2>3 DEF Rewinds
<1>4. ASSUME c \in Unanswered(path'), Has(path', c, {"reject", "answer"})
      PROVE  pend'[c].why \in {"rejected", "answered"}
  BY <1>2, <1>4, RefusedPending
<1>5. ~NoWay.def /\ ~NoWay.hand /\ ~NoWay.appr BY DEF NoWay
<1>6. Has(path', c, {"output"}) \/ ~Has(path', c, {"call"}) => c \notin Unanswered(path')
  BY DEF Unanswered
<1> QED BY <1>0, <1>2, <1>3, <1>4, <1>5, <1>6 DEF RefusedInv

\* Every step.
LEMMA NextRefused ==
    HeldInv /\ RefusedAll /\ [Next]_vars => HeldInv' /\ RefusedAll'
<1> SUFFICES ASSUME HeldInv, RefusedAll, [Next]_vars PROVE HeldInv' /\ RefusedAll'
  OBVIOUS
<1>1. RecordInv /\ BudgetInv /\ TrueInv /\ PendInv /\ Undisturbed
  BY DEF HeldInv, SoundlyInv, RefusedAll
<1>2. HeldInv' BY RefusedHold, NextHeld
<1>3. ASSUME NEW c \in Calls PROVE RefusedInv(c)'
  BY <1>1, NextIs, RefusedInRun, RefusedRun, RefusedReopened
<1> QED BY <1>1, <1>2, <1>3, StaysUndisturbed DEF RefusedAll

\* Where a hook may block a call no other subscriber refuses its output, and
\* a write fails only where it is the one call of the response.
RefusalsKept ==
    \A b \in Budgets : "block" \in b.decisions =>
        /\ b.refusals = 0
        /\ b.fails = 0 \/ \A c, d \in b.calls : c = d

\* The start.
LEMMA InitRefused == ASSUME RefusalsKept, Init PROVE HeldInv /\ RefusedAll
<1>1. HeldInv BY InitHeld
<1>2. Undisturbed BY DEF Init, RefusalsKept, Undisturbed
<1>3. ASSUME NEW c \in Calls PROVE RefusedInv(c)
  <2>1. path = <<>> /\ left = {} /\ st[c] = "new" BY DEF Init
  <2>2. \A K : ~Has(path, c, K) BY <2>1 DEF Has
  <2> QED BY <2>1, <2>2 DEF RefusedInv
<1> QED BY <1>1, <1>2, <1>3 DEF RefusedAll

\* A call that the record has as refused or answered is not let run by a
\* later decision: toolStart and toolDispatch write nothing of such a call
\* (session.go:7183, 7307), so a tool that got it would run unrecorded.
THEOREM RefusalsStand == ASSUME RefusalsKept PROVE Spec => []RefusalsHold
<1>1. Init => HeldInv /\ RefusedAll BY InitRefused
<1>2. HeldInv /\ RefusedAll /\ [Next]_vars => HeldInv' /\ RefusedAll'
  BY NextRefused
<1>3. RefusedAll => RefusalsHold BY RefusedHold
<1> QED BY <1>1, <1>2, <1>3, PTL DEF Spec

\* Were the process to die at any point of a run, whatever write failed and
\* whatever was rewound before, the record would have no call that its tool
\* was given as one that never started, nor as refused, save one that the
\* path refused before another branch ran it; and a call whose tool waits on
\* a person with the question it waits on.
THEOREM PendingSound == ASSUME RefusalsKept PROVE Spec => []PendingIsSound
BY RefusalsStand, PendingSoundWhile, PTL

\* Whatever crashes, rewinds and failing subscribers a session goes through,
\* the log is true of its calls: one that it rejects had run on no branch
\* when it was rejected and has not on that branch since, an output that no
\* decision gave is the tool's own, and every hand-off of a call to its tool
\* is a dispatch in it, with the key and the arguments that the tool was
\* given.  Writes may fail as well, in a session whose hooks give no
\* arguments of their own.
THEOREM RecordTrue == ASSUME RefusalsKept, ArgsKept PROVE Spec => []RecordIsTrue
BY RefusalsStand, RecordTrueWhile, PTL

\* Over crashes, rewinds and failing subscribers, a call of a tool that may
\* not run twice is given to it once, and one of a tool that tells repeats
\* by their key is given to it with the same key and the same arguments
\* every time.  Where a write may fail the hooks give no arguments of their
\* own, and where another subscriber may refuse a dispatch nothing is
\* rewound.
THEOREM RepeatsSafe ==
    ASSUME RefusalsKept, ArgsKept, KeysKept PROVE Spec => []RepeatsAreSafe
BY RefusalsStand, RepeatsSafeWhile, PTL
=============================================================================
