--------------------------- MODULE ControlProofs ---------------------------
(***************************************************************************)
(* What the agent promises whoever watches it, for any requests, questions *)
(* and streams and any faults between them: a question is put to everyone  *)
(* who can answer it, once, and its answer kept; and an accepted item and  *)
(* a quarantined one are reported, the first before it is appended.        *)
(*                                                                         *)
(* Neither is inductive.  The first needs to know, of a question's two     *)
(* events, which one the asking goroutine has yet to dispatch (Pending);   *)
(* the second where the report of an item is on its way (Told), and that   *)
(* somebody still looks at what is owed (OwedInv).                         *)
(***************************************************************************)
EXTENDS Control, FiniteSetTheorems, SequenceTheorems, WellFoundedInduction, TLAPS

EventKinds == {"none", "start", "step", "item", "end", "question", "closed",
               "queued", "added", "ready", "overflow"}
Events == [k : EventKinds, n : Nat]
Places == {"none", "enter", "hold", "recheck", "back", "wait", "giveup", "done",
           "accepted", "owed"}
StageNames == {"reports", "event", "quarantine", "flush"}

Holds == [g : Goroutines, todo : Seq(StageNames), stage : StageNames \cup {"none"},
          evs : Seq(Events), calls : Seq(Nat \X Events), list : SUBSET Reqs,
          pass : BOOLEAN, err : BOOLEAN]

StreamRecs == [frames : Seq(Events), behind : BOOLEAN, wire : Seq(Events),
               h : {"none", "ready", "loop", "drain", "cut", "leaving", "ended"},
               gone : BOOLEAN, got : Seq(Events)]

HandlerPlaces == {"none", "running", "written"}
Words == {"none", "aborted", "busy", "ok", "forbidden", "malformed", "noquestion", "end"}
ReqRecs == [spc : HandlerPlaces, resp : Words]

\* The types of what the proofs read.
TypeInv ==
    /\ plan \in Plans
    /\ {running, runEnded, queuedErr} \subseteq BOOLEAN
    /\ steer \in Seq(Reqs) /\ queued \in Seq(Reqs) /\ taken \in Seq(Reqs)
    /\ quarantine \subseteq Reqs /\ quarantineOwed \in Seq(Reqs)
    /\ asks \subseteq Asks /\ waiting \in Seq(Asks)
    /\ replays \in [Streams -> Seq(Asks)]
    /\ opened \in Nat /\ opened <= plan.connects /\ subs \in Seq(0..opened)
    /\ hold \in Holds \cup {Free}
    /\ at \in [Goroutines -> Places] /\ due \in [Goroutines -> Events]
    /\ err \in [Goroutines -> BOOLEAN] /\ passes \in [Goroutines -> Nat]
    /\ steps \in Nat /\ fails \in Nat
    /\ reply \in [Asks -> {0} \cup Reqs] /\ cancelled \in [Asks -> BOOLEAN]
    /\ result \in [Asks -> {"none", "gone", "answered"}]
    /\ stream \in [Streams -> StreamRecs] /\ cur \in {0} \cup Streams
    /\ seen \in Seq(Events) /\ req \in [Reqs -> ReqRecs]

\* The barrier is held by the goroutine that says so; a delivery has one
\* event, and the others it dispatches are reports.  A goroutine that was
\* not started is nowhere.
HoldInv ==
    /\ hold # Free => at[hold.g] = "hold"
    /\ \A g \in Goroutines : at[g] = "hold" => hold # Free /\ hold.g = g
    /\ hold # Free =>
          /\ \A i, j \in DOMAIN hold.todo :
                hold.todo[i] = "event" /\ hold.todo[j] = "event" => i = j
          /\ \A i \in DOMAIN hold.evs : hold.evs[i].k \in {"queued", "added"}
          /\ \A i \in DOMAIN hold.calls : hold.calls[i][1] \in {0} \cup Streams
    /\ \A r \in Reqs : req[r].spc = "none" => at[<<"report", r>>] = "none"
    /\ \A s \in Streams : s > opened => at[<<"replay", s>>] = "none"
    /\ running <=> at[Run] # "none"

\* Which events a goroutine may have to deliver.
DueInv ==
    \A g \in Goroutines :
        /\ due[g].k \in {"question", "closed"} => g[1] = "ask" /\ due[g].n = g[2]
        /\ due[g].k \in {"item", "start", "end"} => g = Run

-----------------------------------------------------------------------------
(* Questions.                                                              *)

\* Goroutine g has still to dispatch its event.
ToDispatch(g) ==
    \/ at[g] = "enter"
    \/ hold # Free /\ hold.g = g /\ \E i \in DOMAIN hold.todo : hold.todo[i] = "event"

\* The event k of question q has still to be dispatched.
Pending(q, k) == due[Asker(q)] = Ev(k, q) /\ ToDispatch(Asker(q))

\* Where an asking call is, and what Reply has made of its question.
AskInv(q) ==
    LET a == at[Asker(q)] d == due[Asker(q)] IN
    /\ a \in {"none", "enter", "hold", "recheck", "back", "wait", "giveup", "done"}
    /\ a = "none" => q \notin asks /\ reply[q] = 0 /\ d = NoEvent
    /\ q \in asks => reply[q] = 0 /\ d = Ev("question", q)
    /\ a \notin {"none", "done"} => d \in {Ev("question", q), Ev("closed", q)}
    /\ a \in {"wait", "giveup"} => d = Ev("question", q)
    /\ a \notin {"none", "done"} /\ d = Ev("question", q) => q \in asks \/ reply[q] # 0
    /\ a = "done" \/ d = Ev("closed", q) =>
          q \notin asks /\ (result[q] = "answered" <=> reply[q] # 0)

\* The places of an event among the calls of a stream that are to come.
Coming(s, e) ==
    IF hold = Free THEN {}
    ELSE {i \in DOMAIN hold.calls : hold.calls[i] = <<s, e>>}

\* Stream s was or will be called with e.
Gets(s, e) == Calls(s, e) # {} \/ Coming(s, e) # {}

\* A question is put to a stream once, and before its close.
Once(S, T) == (\A i, j \in S : i = j) /\ (\A i \in S, j \in T : i < j)

ShownInv(q) ==
    LET Q == Ev("question", q) C == Ev("closed", q) d == due[Asker(q)] IN
    /\ at[Asker(q)] = "none" \/ Pending(q, "question") =>
          /\ \A i \in DOMAIN waiting : waiting[i] # q
          /\ \A s \in Streams : ~Gets(s, Q)
    /\ d # C \/ Pending(q, "closed") => \A s \in Streams : ~Gets(s, C)
    /\ (\E i \in DOMAIN waiting : waiting[i] = q) => \A s \in Streams : ~Gets(s, C)
    /\ \A s \in Streams :
          /\ Once(Calls(s, Q), Calls(s, C)) /\ Once(Coming(s, Q), Coming(s, C))
          /\ Coming(s, Q) # {} => Calls(s, Q) = {} /\ Calls(s, C) = {}
          /\ (\E i \in DOMAIN replays[s] : replays[s][i] = q) =>
                /\ ~Gets(s, Q) /\ \E i \in DOMAIN waiting : waiting[i] = q

\* A question that waits is shown, or owed, to each who subscribes.
ServedInv ==
    fails = 0 =>
        \A i \in DOMAIN waiting, j \in DOMAIN subs : subs[j] # 0 =>
            \/ Gets(subs[j], Ev("question", waiting[i]))
            \/ \E k \in DOMAIN replays[subs[j]] : replays[subs[j]][k] = waiting[i]

\* The subscribers, the recorder among them, and what they are owed.
SubsInv ==
    /\ \A i, j \in DOMAIN subs : subs[i] = subs[j] => i = j
    /\ \E i \in DOMAIN subs : subs[i] = 0
    /\ \A i, j \in DOMAIN waiting : waiting[i] = waiting[j] => i = j
    /\ \A s \in Streams :
          /\ \A i, j \in DOMAIN replays[s] : replays[s][i] = replays[s][j] => i = j
          /\ replays[s] # <<>> => \E i \in DOMAIN subs : subs[i] = s
          /\ s > opened => /\ stream[s].got = <<>>
                           /\ hold # Free =>
                                 \A i \in DOMAIN hold.calls : hold.calls[i][1] # s

-----------------------------------------------------------------------------
(* Reports.                                                                *)

\* The recorder was told of an item as k, or will be.
Coming0(k, r) ==
    hold # Free /\ \/ \E i \in DOMAIN hold.calls : hold.calls[i] = <<0, Ev(k, r)>>
                   \/ \E i \in DOMAIN hold.evs : hold.evs[i] = Ev(k, r)

Told(r) == r \in reported \/ Coming0("queued", r)

IsQueued(r) == \E i \in DOMAIN queued : queued[i] = r

\* What the run has to append is reported, or will be by the delivery that
\* appends it.
ReportInv ==
    fails = 0 =>
        /\ \A i \in DOMAIN steer : IsQueued(steer[i]) \/ Told(steer[i])
        /\ \A i \in DOMAIN taken : IsQueued(taken[i]) \/ Told(taken[i])
        /\ due[Run].k = "item" => IsQueued(due[Run].n) \/ Told(due[Run].n)
        /\ hold # Free /\ hold.g = Run /\ due[Run].k = "item" =>
              \A i \in DOMAIN hold.todo : hold.todo[i] = "event" =>
                 \/ Told(due[Run].n)
                 \/ \E j \in DOMAIN hold.todo : j < i /\ hold.todo[j] = "reports"
        /\ hold # Free =>
              \A i \in DOMAIN hold.calls : hold.calls[i][1] = 0 /\ hold.calls[i][2].k = "item"
                 => hold.calls[i][2].n \in reported

\* A run that ends has marked its end.
EndInv == fails = 0 /\ due[Run].k = "end" /\ ~ToDispatch(Run) => runEnded

\* A quarantined item was told, is owed, or is one of the run's, whose end
\* names it.
QuarInv ==
    fails = 0 =>
        \A n \in quarantine :
            \/ n \in told \/ Coming0("added", n)
            \/ \E i \in DOMAIN quarantineOwed : quarantineOwed[i] = n
            \/ running /\ ~runEnded
            \/ /\ hold # Free /\ n \in hold.list
               /\ \E i \in DOMAIN hold.calls :
                     hold.calls[i][1] = 0 /\ hold.calls[i][2].k = "end"

\* Somebody looks at what is owed.
OwedInv ==
    fails = 0 =>
        /\ hold # Free => ~hold.err
        /\ quarantineOwed # <<>> =>
              hold # Free \/ \E g \in Goroutines : at[g] \in {"recheck", "owed"}

BarrierInv == TypeInv /\ HoldInv /\ DueInv
QuestionInv ==
    /\ SubsInv /\ ServedInv /\ \A q \in Asks : AskInv(q) /\ ShownInv(q)
ReportsInv == ReportInv /\ EndInv /\ QuarInv /\ OwedInv
-----------------------------------------------------------------------------
(* Sequences.                                                              *)

\* The least number of a set, which is what Min chooses.
LEMMA MinIs ==
    ASSUME NEW T \in SUBSET Nat, T # {}
    PROVE  Min(T) \in T /\ \A y \in T : Min(T) <= y
<1>1. PICK x \in T : \A y \in T : ~(<<y, x>> \in OpToRel(<, Nat))
  BY WFMin, NatLessThanWellFounded, Zenon
<1>2. \A y \in T : ~(y < x) BY <1>1 DEF OpToRel
<1>3. \A y \in T : x <= y BY <1>2
<1> QED BY <1>3 DEF Min

\* A set that holds 1, and the next of each number it holds, up to n.
LEMMA UpTo ==
    ASSUME NEW S, NEW n \in Nat, 1 \in S,
           \A m \in 1..n : m \in S /\ m < n => m + 1 \in S
    PROVE  1..n \subseteq S
<1> SUFFICES ASSUME (1..n) \ S # {} PROVE FALSE
  OBVIOUS
<1> DEFINE T == (1..n) \ S
<1>1. T \in SUBSET Nat /\ T # {} OBVIOUS
<1> HIDE DEF T
<1>2. PICK x \in T : \A y \in T : x <= y BY <1>1, MinIs
<1> USE DEF T
<1>3. x # 1 /\ x - 1 \in 1..n /\ x - 1 \in S BY <1>2
<1> QED BY <1>2, <1>3

\* No element of s is there twice.
Apart(s) == \A i, j \in DOMAIN s : s[i] = s[j] => i = j

In(e, s) == \E i \in DOMAIN s : s[i] = e

\* What RemoveFirst leaves of a sequence, and of one where nothing is twice.
LEMMA RemoveFirstIs ==
    ASSUME NEW S, NEW s \in Seq(S), NEW e
    PROVE  LET t == RemoveFirst(s, e) IN
           /\ t \in Seq(S) /\ \A x : In(x, t) => In(x, s)
           /\ Apart(s) => Apart(t) /\ \A x : In(x, t) <=> In(x, s) /\ x # e
<1> DEFINE I == {i \in 1..Len(s) : s[i] = e}
           m == Min(I)
           t == SubSeq(s, 1, m - 1) \o SubSeq(s, m + 1, Len(s))
<1>1. CASE I = {}
  <2>1. RemoveFirst(s, e) = s BY <1>1 DEF RemoveFirst
  <2>2. ~In(e, s) BY <1>1 DEF In
  <2> QED BY <2>1, <2>2 DEF In
<1>2. CASE I # {}
  <2>1. RemoveFirst(s, e) = t
    BY <1>2 DEF RemoveFirst, RemoveAt, SelectInSeq
  <2>2. m \in 1..Len(s) /\ s[m] = e
    <3>1. I \in SUBSET Nat OBVIOUS
    <3>2. Min(I) \in I BY <1>2, <3>1, MinIs
    <3> QED BY <3>2
  <2> HIDE DEF I, m
  <2>3. /\ t \in Seq(S) /\ Len(t) = Len(s) - 1 /\ DOMAIN t = 1..(Len(s) - 1)
        /\ \A i \in 1..(Len(s) - 1) : t[i] = IF i < m THEN s[i] ELSE s[i + 1]
    <3> DEFINE a == SubSeq(s, 1, m - 1)
               b == SubSeq(s, m + 1, Len(s))
    <3>1. /\ a \in Seq(S) /\ Len(a) = m - 1
          /\ \A i \in 1..(m - 1) : a[i] = s[i]
      BY <2>2
    <3>2. /\ b \in Seq(S) /\ Len(b) = Len(s) - m
          /\ \A i \in 1..(Len(s) - m) : b[i] = s[i + m]
      BY <2>2
    <3>3. t = a \o b OBVIOUS
    <3> HIDE DEF a, b, t
    <3>4. t \in Seq(S) /\ Len(t) = Len(a) + Len(b) BY <3>1, <3>2, <3>3
    <3>5. \A i \in 1..(Len(a) + Len(b)) :
             t[i] = IF i <= Len(a) THEN a[i] ELSE b[i - Len(a)]
      BY <3>1, <3>2, <3>3
    <3>6. ASSUME NEW i \in 1..(Len(s) - 1)
          PROVE  t[i] = IF i < m THEN s[i] ELSE s[i + 1]
      <4>1. CASE i < m
        <5>1. i \in 1..(m - 1) /\ i <= Len(a) /\ i \in 1..(Len(a) + Len(b))
          BY <2>2, <3>1, <3>2, <4>1
        <5> QED BY <3>1, <3>5, <4>1, <5>1
      <4>2. CASE i >= m
        <5>1. i - (m - 1) \in 1..(Len(s) - m) /\ i - (m - 1) + m = i + 1
          BY <2>2, <4>2
        <5> QED BY <2>2, <3>1, <3>2, <3>5, <4>2, <5>1
      <4> QED BY <2>2, <4>1, <4>2
    <3> QED BY <2>2, <3>1, <3>2, <3>4, <3>6
  <2> HIDE DEF t
  <2>4. DOMAIN s = 1..Len(s) /\ Len(s) \in Nat OBVIOUS
  <2>5. ASSUME Apart(s), NEW i \in DOMAIN t, NEW j \in DOMAIN t, t[i] = t[j] PROVE i = j
    <3>1. i \in 1..(Len(s) - 1) /\ j \in 1..(Len(s) - 1) /\ Len(s) \in Nat /\ m \in Nat
      BY <2>2, <2>3, <2>4, <2>5
    <3> DEFINE a == IF i < m THEN i ELSE i + 1
               b == IF j < m THEN j ELSE j + 1
    <3>2. a \in DOMAIN s /\ b \in DOMAIN s /\ t[i] = s[a] /\ t[j] = s[b]
      BY <2>3, <2>4, <3>1
    <3>3. a = b => i = j BY <3>1
    <3> HIDE DEF a, b
    <3> QED BY <2>5, <3>2, <3>3 DEF Apart
  <2>a. \A x : In(x, t) => In(x, s) BY SMTT(60), <2>2, <2>3, <2>4 DEF In
  <2>6. ASSUME NEW x, Apart(s) PROVE In(x, t) <=> In(x, s) /\ x # e
    <3>1. ASSUME In(x, t) PROVE In(x, s) /\ x # e
      BY <2>2, <2>3, <2>4, <2>6, <3>1 DEF In, Apart
    <3>2. ASSUME NEW i \in DOMAIN s, s[i] = x, x # e PROVE In(x, t)
      <4>1. CASE i < m BY <2>2, <2>3, <2>4, <3>2, <4>1 DEF In
      <4>2. CASE i > m
        <5>1. i - 1 \in DOMAIN t /\ t[i - 1] = x
          BY <2>2, <2>3, <2>4, <3>2, <4>2
        <5> QED BY <5>1 DEF In
      <4> QED BY <2>2, <2>4, <3>2, <4>1, <4>2
    <3> QED BY <3>1, <3>2 DEF In
  <2>7. Apart(s) => Apart(t) BY SMTT(60), <2>5 DEF Apart
  <2> QED BY <2>1, <2>3, <2>6, <2>7, <2>a
<1> QED BY <1>1, <1>2

\* FlattenSeq is what its steps make of it.
LEMMA FlattenSteps ==
    ASSUME NEW B, Len(B) \in Nat, Len(B) # 0
    PROVE  \E f : /\ f = [i \in 1..Len(B) |->
                             IF i = 1 THEN B[i] ELSE f[i - 1] \o B[i]]
                  /\ FlattenSeq(B) = f[Len(B)]
<1> DEFINE Steps(f, m) ==
              f = [i \in 1..m |-> IF i = 1 THEN B[i] ELSE f[i - 1] \o B[i]]
           S == {m \in 1..Len(B) : \E f : Steps(f, m)}
<1>1. 1 \in S
  <2> DEFINE f == [i \in 1..1 |-> B[i]]
  <2>1. f = [i \in 1..1 |-> IF i = 1 THEN B[i] ELSE f[i - 1] \o B[i]]
    OBVIOUS
  <2> HIDE DEF f
  <2>2. (\E g : Steps(g, 1)) /\ 1 \in 1..Len(B) BY <2>1
  <2> HIDE DEF Steps
  <2> QED BY <2>2
<1>2. ASSUME NEW m \in 1..Len(B), m \in S, m < Len(B) PROVE m + 1 \in S
  <2>1. PICK f : Steps(f, m) BY <1>2
  <2> DEFINE g == [i \in 1..(m + 1) |-> IF i = m + 1 THEN f[m] \o B[i] ELSE f[i]]
  <2>2. \A i \in 1..m : f[i] = IF i = 1 THEN B[i] ELSE f[i - 1] \o B[i]
    BY <2>1
  <2>3. \A i \in 1..(m + 1) : g[i] = IF i = 1 THEN B[i] ELSE g[i - 1] \o B[i]
    <3> SUFFICES ASSUME NEW i \in 1..(m + 1)
                 PROVE  g[i] = IF i = 1 THEN B[i] ELSE g[i - 1] \o B[i]
      OBVIOUS
    <3>1. CASE i = m + 1
      <4>1. i # 1 /\ i - 1 = m /\ g[i - 1] = f[m] BY <3>1
      <4> QED BY <3>1, <4>1
    <3>2. CASE i # m + 1
      <4>1. i \in 1..m /\ g[i] = f[i] BY <3>2
      <4>2. i # 1 => i - 1 \in 1..(m + 1) /\ i - 1 # m + 1 /\ g[i - 1] = f[i - 1]
        BY <4>1
      <4> QED BY <2>2, <4>1, <4>2
    <3> QED BY <3>1, <3>2
  <2>4. g = [i \in 1..(m + 1) |-> g[i]] OBVIOUS
  <2> HIDE DEF g
  <2>5. g = [i \in 1..(m + 1) |-> IF i = 1 THEN B[i] ELSE g[i - 1] \o B[i]]
    BY <2>3, <2>4
  <2>6. \E h : Steps(h, m + 1) BY <2>5
  <2>7. m + 1 \in 1..Len(B) BY <1>2
  <2> HIDE DEF Steps
  <2> QED BY <2>6, <2>7
<1>3. Len(B) \in S
  <2> HIDE DEF S
  <2>1. 1..Len(B) \subseteq S BY SMTT(60), <1>1, <1>2, UpTo
  <2> QED BY <2>1
<1>4. PICK f : Steps(f, Len(B)) BY <1>3
<1> DEFINE h == CHOOSE f0 : f0 = [i \in 1..Len(B) |->
                                    IF i = 1 THEN B[i] ELSE f0[i - 1] \o B[i]]
<1>5. h = [i \in 1..Len(B) |-> IF i = 1 THEN B[i] ELSE h[i - 1] \o B[i]]
  BY <1>4
<1>6. FlattenSeq(B) = h[Len(B)] BY DEF FlattenSeq
<1> QED BY <1>5, <1>6

\* Blocks in which nothing is twice, and that share nothing, in x one after
\* the other, up to block n: x has what they have, each once and in order.
Flat(B, T, n, x) ==
    /\ x \in Seq(T)
    /\ \A i \in DOMAIN x : \E b \in 1..n : In(x[i], B[b])
    /\ \A b \in 1..n : \A k \in DOMAIN B[b] : In(B[b][k], x)
    /\ Apart(x)
    /\ \A b \in 1..n : \A k, l \in DOMAIN B[b] : \A i, j \in DOMAIN x :
          x[i] = B[b][k] /\ x[j] = B[b][l] /\ k < l => i < j

\* Two sequences one after the other.
LEMMA Joined ==
    ASSUME NEW T, NEW s \in Seq(T), NEW t \in Seq(T)
    PROVE  /\ s \o t \in Seq(T) /\ Len(s) \in Nat /\ Len(t) \in Nat
           /\ DOMAIN s = 1..Len(s) /\ DOMAIN t = 1..Len(t)
           /\ DOMAIN (s \o t) = 1..(Len(s) + Len(t))
           /\ \A i \in DOMAIN s : (s \o t)[i] = s[i]
           /\ \A i \in DOMAIN t : (s \o t)[Len(s) + i] = t[i]
           /\ \A i \in DOMAIN (s \o t) :
                 \/ i \in DOMAIN s
                 \/ i > Len(s) /\ i - Len(s) \in DOMAIN t /\ (s \o t)[i] = t[i - Len(s)]
OBVIOUS

\* One block more.
LEMMA FlatNext ==
    ASSUME NEW B, NEW T, NEW n \in Nat, NEW x, n > 0,
           \A b \in 1..(n + 1) : B[b] \in Seq(T) /\ Apart(B[b]),
           \A a, b \in 1..(n + 1) : \A k \in DOMAIN B[a] : In(B[a][k], B[b]) => a = b,
           Flat(B, T, n, x)
    PROVE  Flat(B, T, n + 1, x \o B[n + 1])
<1> DEFINE y == B[n + 1]
           z == x \o y
<1>1. x \in Seq(T) /\ y \in Seq(T) /\ Apart(x) /\ Apart(y) BY DEF Flat
<1>2. /\ z \in Seq(T) /\ Len(x) \in Nat /\ Len(y) \in Nat
      /\ DOMAIN x = 1..Len(x) /\ DOMAIN y = 1..Len(y)
      /\ DOMAIN z = 1..(Len(x) + Len(y))
      /\ \A i \in DOMAIN x : z[i] = x[i]
      /\ \A i \in DOMAIN y : z[Len(x) + i] = y[i]
      /\ \A i \in DOMAIN z :
            \/ i \in DOMAIN x
            \/ i > Len(x) /\ i - Len(x) \in DOMAIN y /\ z[i] = y[i - Len(x)]
  BY SMTT(60), <1>1, Joined
<1> HIDE DEF y, z
<1>3. \A i \in DOMAIN x : ~In(x[i], y)
  <2> SUFFICES ASSUME NEW i \in DOMAIN x, In(x[i], y) PROVE FALSE
    OBVIOUS
  <2>1. PICK b \in 1..n : In(x[i], B[b]) BY DEF Flat
  <2>2. PICK k \in DOMAIN B[b] : B[b][k] = x[i] BY <2>1 DEF In
  <2>3. n + 1 \in 1..(n + 1) /\ b \in 1..(n + 1) /\ b # n + 1 OBVIOUS
  <2> QED BY <2>2, <2>3 DEF y
<1>4. \A i \in DOMAIN z : \E b \in 1..(n + 1) : In(z[i], B[b])
  <2> SUFFICES ASSUME NEW i \in DOMAIN z PROVE \E b \in 1..(n + 1) : In(z[i], B[b])
    OBVIOUS
  <2>1. CASE i \in DOMAIN x
    <3>1. PICK b \in 1..n : In(x[i], B[b]) BY <2>1 DEF Flat
    <3>2. b \in 1..(n + 1) OBVIOUS
    <3> QED BY <1>2, <2>1, <3>1, <3>2
  <2>2. CASE i \notin DOMAIN x
    <3>1. In(z[i], y) BY <1>2, <2>2 DEF In
    <3>2. n + 1 \in 1..(n + 1) OBVIOUS
    <3> QED BY <3>1, <3>2 DEF y
  <2> QED BY <2>1, <2>2
<1>5. \A b \in 1..(n + 1) : \A k \in DOMAIN B[b] : In(B[b][k], z)
  <2> SUFFICES ASSUME NEW b \in 1..(n + 1), NEW k \in DOMAIN B[b] PROVE In(B[b][k], z)
    OBVIOUS
  <2>1. CASE b = n + 1
    <3>1. Len(x) + k \in DOMAIN z /\ z[Len(x) + k] = B[b][k]
      BY SMTT(60), <1>2, <2>1 DEF y
    <3> QED BY <3>1 DEF In
  <2>2. CASE b # n + 1
    <3>1. b \in 1..n BY <2>2
    <3>2. PICK i \in DOMAIN x : x[i] = B[b][k] BY <3>1 DEF Flat, In
    <3>3. i \in DOMAIN z /\ z[i] = B[b][k] BY <1>2, <3>2
    <3> QED BY <3>3 DEF In
  <2> QED BY <2>1, <2>2
<1>6. Apart(z)
  <2> SUFFICES ASSUME NEW i \in DOMAIN z, NEW j \in DOMAIN z, z[i] = z[j] PROVE i = j
    BY DEF Apart
  <2>1. CASE i \in DOMAIN x /\ j \in DOMAIN x
    BY <1>1, <1>2, <2>1 DEF Apart
  <2>2. CASE i \notin DOMAIN x /\ j \notin DOMAIN x
    BY <1>1, <1>2, <2>2 DEF Apart
  <2>3. CASE i \in DOMAIN x /\ j \notin DOMAIN x
    BY <1>2, <1>3, <2>3 DEF In
  <2>4. CASE i \notin DOMAIN x /\ j \in DOMAIN x
    BY <1>2, <1>3, <2>4 DEF In
  <2> QED BY <2>1, <2>2, <2>3, <2>4
<1>7. ASSUME NEW b \in 1..(n + 1), NEW k \in DOMAIN B[b], NEW l \in DOMAIN B[b],
             NEW i \in DOMAIN z, NEW j \in DOMAIN z,
             z[i] = B[b][k], z[j] = B[b][l], k < l
      PROVE  i < j
  <2>1. CASE b = n + 1
    <3>0. In(z[i], y) /\ In(z[j], y) BY <1>7, <2>1 DEF In, y
    <3>1. i \notin DOMAIN x /\ j \notin DOMAIN x BY <1>2, <1>3, <3>0
    <3>2. i - Len(x) = k /\ j - Len(x) = l
      BY ZenonT(60), <1>1, <1>2, <1>7, <2>1, <3>1 DEF Apart, y
    <3> QED BY <1>2, <1>7, <3>1, <3>2
  <2>2. CASE b # n + 1
    <3>1. b \in 1..n BY <2>2
    <3>2. PICK u \in DOMAIN x, v \in DOMAIN x : x[u] = B[b][k] /\ x[v] = B[b][l]
      BY <3>1 DEF Flat, In
    <3>3. i = u /\ j = v BY SMTT(60), <1>2, <1>6, <1>7, <3>2 DEF Apart
    <3> QED BY <1>7, <3>1, <3>2, <3>3 DEF Flat
  <2> QED BY <2>1, <2>2
<1> QED BY ZenonT(60), <1>2, <1>4, <1>5, <1>6, <1>7 DEF Flat, y, z

\* The calls that event e makes on subscriber i: its owed questions, and e.
Block(e, i) ==
    LET owed == IF subs[i] = 0 THEN <<>> ELSE replays[subs[i]]
    IN  [j \in DOMAIN owed |-> <<subs[i], Ev("question", owed[j])>>]
        \o << <<subs[i], e>> >>

\* The event is not one of the questions owed.
NotOwed(e) ==
    \A s \in Streams : \A k \in DOMAIN replays[s] : e # Ev("question", replays[s][k])

\* The calls that event e makes: each subscriber's owed questions, each
\* once, and then e.
CallsOf(e, x) ==
    /\ x \in Seq(Nat \X Events) /\ Apart(x)
    /\ \A i \in DOMAIN x : \E j \in DOMAIN subs :
          /\ x[i][1] = subs[j]
          /\ \/ x[i][2] = e
             \/ /\ subs[j] \in Streams
                /\ \E k \in DOMAIN replays[subs[j]] :
                      x[i][2] = Ev("question", replays[subs[j]][k])
    /\ \A j \in DOMAIN subs :
          /\ In(<<subs[j], e>>, x)
          /\ subs[j] \in Streams =>
                \A k \in DOMAIN replays[subs[j]] :
                   In(<<subs[j], Ev("question", replays[subs[j]][k])>>, x)
    /\ \A i, j \in DOMAIN x : x[i][1] = x[j][1] /\ x[j][2] = e /\ i # j => i < j

\* One subscriber's.
LEMMA BlockIs ==
    ASSUME TypeInv, SubsInv, NEW e \in Events, NotOwed(e), NEW i \in DOMAIN subs
    PROVE  LET b == Block(e, i)
               owed == IF subs[i] = 0 THEN <<>> ELSE replays[subs[i]]
               n == Len(owed)
           IN  /\ n \in Nat /\ b \in Seq(Nat \X Events) /\ DOMAIN b = 1..(n + 1)
               /\ b[n + 1] = <<subs[i], e>>
               /\ owed \in Seq(Asks) /\ DOMAIN owed = 1..n
               /\ \A j \in 1..n : b[j] = <<subs[i], Ev("question", owed[j])>>
               /\ Apart(b) /\ \A j \in DOMAIN b : b[j][1] = subs[i]
               /\ subs[i] # 0 => subs[i] \in Streams
<1> DEFINE owed == IF subs[i] = 0 THEN <<>> ELSE replays[subs[i]]
           n == Len(owed)
           q == [j \in DOMAIN owed |-> <<subs[i], Ev("question", owed[j])>>]
           b == q \o << <<subs[i], e>> >>
           T == Nat \X Events
<1>0. Block(e, i) = b BY DEF Block
<1>1. subs[i] \in Nat /\ (subs[i] # 0 => subs[i] \in Streams)
  <2>1. subs \in Seq(0..opened) /\ opened \in Nat /\ opened <= plan.connects
    BY DEF TypeInv
  <2>2. subs[i] \in 0..opened BY <2>1
  <2>3. plan.connects \in Nat BY PlansOK DEF TypeInv
  <2> QED BY <2>1, <2>2, <2>3 DEF Streams
<1>2. owed \in Seq(Asks) /\ Asks \subseteq Nat
  <2>1. plan.asks \in Nat BY PlansOK DEF TypeInv
  <2>2. Asks \subseteq Nat BY <2>1 DEF Asks
  <2>3. replays \in [Streams -> Seq(Asks)] BY DEF TypeInv
  <2>4. <<>> \in Seq(Asks) OBVIOUS
  <2> QED BY <1>1, <2>2, <2>3, <2>4
<1>3. Apart(owed) BY <1>1 DEF SubsInv, Apart
<1>4. \A j \in DOMAIN owed : e # Ev("question", owed[j])
  BY <1>1 DEF NotOwed
<1> HIDE DEF owed
<1>5. n \in Nat /\ DOMAIN owed = 1..n BY <1>2
<1>6. q \in Seq(T) /\ Len(q) = n
  <2>1. \A j \in 1..n : owed[j] \in Asks BY <1>2, <1>5
  <2>2. ASSUME NEW j \in 1..n PROVE <<subs[i], Ev("question", owed[j])>> \in T
    <3>1. owed[j] \in Nat BY <1>2, <2>1
    <3>2. Ev("question", owed[j]) \in Events
      BY <3>1 DEF Ev, Events, EventKinds
    <3> QED BY <1>1, <3>2
  <2> QED BY <1>5, <2>2
<1>7. <<subs[i], e>> \in T BY <1>1
<1>8. /\ b \in Seq(T) /\ DOMAIN b = 1..(n + 1)
      /\ \A j \in 1..n : b[j] = q[j]
      /\ b[n + 1] = <<subs[i], e>>
  <2> HIDE DEF q, T, n
  <2>1. << <<subs[i], e>> >> \in Seq(T) /\ Len(<< <<subs[i], e>> >>) = 1
    BY <1>7
  <2> QED BY <1>5, <1>6, <2>1
<1>9. \A j \in 1..n : b[j] = <<subs[i], Ev("question", owed[j])>>
  BY <1>5, <1>8
<1> HIDE DEF b, q
<1>10. Apart(b)
  <2> SUFFICES ASSUME NEW j \in 1..(n + 1), NEW k \in 1..(n + 1), b[j] = b[k]
               PROVE  j = k
    BY <1>8 DEF Apart
  <2>1. CASE j = n + 1 /\ k = n + 1 BY <2>1
  <2>2. CASE j # n + 1 /\ k # n + 1
    <3>1. j \in 1..n /\ k \in 1..n BY <1>5, <2>2
    <3>2. Ev("question", owed[j]) = Ev("question", owed[k])
      BY <1>9, <3>1
    <3>3. owed[j] = owed[k] BY <3>2 DEF Ev
    <3> QED BY <1>3, <1>5, <3>1, <3>3 DEF Apart
  <2>3. CASE j # n + 1 /\ k = n + 1
    <3>1. j \in 1..n BY <1>5, <2>3
    <3> QED BY <1>4, <1>5, <1>8, <1>9, <2>3, <3>1
  <2>4. CASE j = n + 1 /\ k # n + 1
    <3>1. k \in 1..n BY <1>5, <2>4
    <3> QED BY <1>4, <1>5, <1>8, <1>9, <2>4, <3>1
  <2> QED BY <2>1, <2>2, <2>3, <2>4
<1>11. \A j \in DOMAIN b : b[j][1] = subs[i]
  <2> SUFFICES ASSUME NEW j \in 1..(n + 1) PROVE b[j][1] = subs[i]
    BY <1>8
  <2>1. CASE j = n + 1 BY <1>8, <2>1
  <2>2. CASE j # n + 1
    <3>1. j \in 1..n BY <1>5, <2>2
    <3> QED BY <1>9, <3>1
  <2> QED BY <2>1, <2>2
<1> QED BY <1>0, <1>1, <1>2, <1>5, <1>8, <1>9, <1>10, <1>11 DEF owed

\* The blocks of all subscribers, one after the other.
LEMMA CallsForFlat ==
    ASSUME TypeInv, SubsInv, NEW e \in Events, NotOwed(e)
    PROVE  LET B == [i \in DOMAIN subs |-> Block(e, i)] IN
           /\ Len(subs) \in Nat /\ DOMAIN subs = 1..Len(subs)
           /\ Flat(B, Nat \X Events, Len(subs), CallsFor(e))
<1> DEFINE B == [i \in DOMAIN subs |-> Block(e, i)]
           T == Nat \X Events
           N == Len(subs)
<1>1. N \in Nat /\ DOMAIN subs = 1..N /\ N # 0
  <2>1. subs \in Seq(0..opened) BY DEF TypeInv
  <2>2. PICK i \in DOMAIN subs : subs[i] = 0 BY DEF SubsInv
  <2> QED BY <2>1, <2>2
<1>2. CallsFor(e) = FlattenSeq(B) BY DEF CallsFor, Block
<1>3. Len(B) = N BY <1>1
<1>4. \A b \in 1..N : B[b] \in Seq(T) /\ Apart(B[b])
  <2> SUFFICES ASSUME NEW b \in 1..N PROVE B[b] \in Seq(T) /\ Apart(B[b])
    OBVIOUS
  <2>1. b \in DOMAIN subs /\ B[b] = Block(e, b) BY <1>1
  <2> HIDE DEF B
  <2> QED BY <2>1, BlockIs
<1>5. \A a, b \in 1..N : \A k \in DOMAIN B[a] : In(B[a][k], B[b]) => a = b
  <2> SUFFICES ASSUME NEW a \in 1..N, NEW b \in 1..N, NEW k \in DOMAIN B[a],
                      In(B[a][k], B[b])
               PROVE  a = b
    OBVIOUS
  <2>1. a \in DOMAIN subs /\ B[a] = Block(e, a) /\ b \in DOMAIN subs /\ B[b] = Block(e, b)
    BY <1>1
  <2> HIDE DEF B
  <2>2. PICK l \in DOMAIN B[b] : B[b][l] = B[a][k] BY DEF In
  <2>3. B[a][k][1] = subs[a] /\ B[b][l][1] = subs[b]
    BY SMTT(60), <2>1, BlockIs
  <2> QED BY <2>1, <2>2, <2>3 DEF SubsInv
<1> HIDE DEF B
<1>6. PICK f : /\ f = [i \in 1..Len(B) |-> IF i = 1 THEN B[i] ELSE f[i - 1] \o B[i]]
               /\ FlattenSeq(B) = f[Len(B)]
  BY <1>1, <1>3, FlattenSteps
<1>7. \A i \in 1..N : f[i] = IF i = 1 THEN B[i] ELSE f[i - 1] \o B[i]
  BY <1>3, <1>6
<1> DEFINE S == {n \in 1..N : Flat(B, T, n, f[n])}
<1>8. 1 \in S
  <2>1. 1 \in 1..N /\ f[1] = B[1] /\ B[1] \in Seq(T) /\ Apart(B[1])
    BY <1>1, <1>4, <1>7
  <2>2. \A b \in 1..1 : b = 1 OBVIOUS
  <2>3. \A i \in DOMAIN B[1] : In(B[1][i], B[1]) BY DEF In
  <2>4. Flat(B, T, 1, B[1]) BY <2>1, <2>2, <2>3 DEF Flat, Apart
  <2> QED BY <2>1, <2>4
<1>9. ASSUME NEW m \in 1..N, m \in S, m < N PROVE m + 1 \in S
  <2>1. Flat(B, T, m, f[m]) BY <1>9
  <2>2. m \in Nat /\ m > 0 /\ m + 1 \in 1..N /\ m + 1 # 1 /\ m + 1 - 1 = m
    BY <1>1, <1>9
  <2>3. f[m + 1] = f[m] \o B[m + 1]
    <3> DEFINE k == m + 1
    <3>1. k \in 1..N /\ k # 1 /\ k - 1 = m BY <2>2
    <3> HIDE DEF k
    <3>2. f[k] = f[k - 1] \o B[k] BY <1>7, <3>1
    <3>3. f[k] = f[m] \o B[k] BY <3>1, <3>2
    <3> QED BY <3>3 DEF k
  <2>4. \A b \in 1..(m + 1) : b \in 1..N BY <1>1, <2>2
  <2>5. Flat(B, T, m + 1, f[m] \o B[m + 1])
    <3> HIDE DEF T, S
    <3> QED BY <1>4, <1>5, <2>1, <2>2, <2>4, FlatNext
  <2> HIDE DEF T
  <2> QED BY <2>2, <2>3, <2>5
<1>10. N \in S
  <2> HIDE DEF S
  <2>1. 1..N \subseteq S BY <1>1, <1>8, <1>9, UpTo
  <2> QED BY <1>1, <2>1
<1>11. Flat(B, T, N, CallsFor(e))
  <2>1. Flat(B, T, N, f[N]) BY <1>10
  <2> QED BY <1>2, <1>3, <1>6, <2>1
<1> QED BY <1>1, <1>11 DEF B

\* What an event's dispatch calls.
LEMMA CallsForIs ==
    ASSUME TypeInv, SubsInv, NEW e \in Events, NotOwed(e)
    PROVE  CallsOf(e, CallsFor(e))
<1> DEFINE B == [i \in DOMAIN subs |-> Block(e, i)]
           N == Len(subs)
           T == Nat \X Events
           x == CallsFor(e)
           Owed(i) == IF subs[i] = 0 THEN <<>> ELSE replays[subs[i]]
<1>1. N \in Nat /\ DOMAIN subs = 1..N /\ Flat(B, T, N, x)
  BY CallsForFlat
<1>2. ASSUME NEW b \in 1..N
      PROVE  LET n == Len(Owed(b)) IN
             /\ n \in Nat /\ DOMAIN B[b] = 1..(n + 1) /\ B[b][n + 1] = <<subs[b], e>>
             /\ DOMAIN Owed(b) = 1..n
             /\ \A j \in 1..n : B[b][j] = <<subs[b], Ev("question", Owed(b)[j])>>
             /\ \A j \in DOMAIN B[b] : B[b][j][1] = subs[b]
             /\ subs[b] # 0 => subs[b] \in Streams
  <2>1. b \in DOMAIN subs /\ B[b] = Block(e, b) BY <1>1
  <2> HIDE DEF B
  <2> QED BY SMTT(60), <2>1, BlockIs
<1>3. \A s \in Streams : s # 0
  <2>1. plan.connects \in Nat BY PlansOK DEF TypeInv
  <2> QED BY <2>1 DEF Streams
<1> HIDE DEF B, x
<1>4. x \in Seq(T) /\ Apart(x) BY <1>1 DEF Flat
<1>5. ASSUME NEW i \in DOMAIN x
      PROVE  \E j \in DOMAIN subs :
                /\ x[i][1] = subs[j]
                /\ \/ x[i][2] = e
                   \/ /\ subs[j] \in Streams
                      /\ \E k \in DOMAIN replays[subs[j]] :
                            x[i][2] = Ev("question", replays[subs[j]][k])
  <2>1. PICK b \in 1..N : In(x[i], B[b]) BY <1>1 DEF Flat
  <2>2. PICK k \in DOMAIN B[b] : B[b][k] = x[i] BY <2>1 DEF In
  <2>3. b \in DOMAIN subs /\ x[i][1] = subs[b] BY <1>1, <1>2, <2>2
  <2>4. CASE k = Len(Owed(b)) + 1
    <3>1. x[i] = <<subs[b], e>> BY <1>2, <2>2, <2>4
    <3> QED BY <2>3, <3>1
  <2>5. CASE k # Len(Owed(b)) + 1
    <3> DEFINE n == Len(Owed(b))
    <3>1. n \in Nat /\ k \in 1..(n + 1) BY <1>2
    <3> HIDE DEF n
    <3>2. k \in 1..n BY <2>5, <3>1 DEF n
    <3>3. x[i] = <<subs[b], Ev("question", Owed(b)[k])>> /\ k \in DOMAIN Owed(b)
      BY <1>2, <2>2, <3>2 DEF n
    <3>4. subs[b] # 0 BY <3>3
    <3> QED BY <1>2, <2>3, <3>3, <3>4
  <2> QED BY <2>4, <2>5
<1>6. ASSUME NEW j \in DOMAIN subs
      PROVE  /\ In(<<subs[j], e>>, x)
             /\ subs[j] \in Streams =>
                   \A k \in DOMAIN replays[subs[j]] :
                      In(<<subs[j], Ev("question", replays[subs[j]][k])>>, x)
  <2>1. j \in 1..N BY <1>1
  <2>2. \A k \in DOMAIN B[j] : In(B[j][k], x) BY <1>1, <2>1 DEF Flat
  <2>3. In(<<subs[j], e>>, x)
    <3> DEFINE n == Len(Owed(j))
    <3>1. n \in Nat /\ DOMAIN B[j] = 1..(n + 1) /\ B[j][n + 1] = <<subs[j], e>>
      BY <1>2, <2>1
    <3> HIDE DEF n
    <3>2. n + 1 \in DOMAIN B[j] BY <3>1
    <3> QED BY <2>2, <3>1, <3>2
  <2>4. ASSUME subs[j] \in Streams, NEW k \in DOMAIN replays[subs[j]]
        PROVE  In(<<subs[j], Ev("question", replays[subs[j]][k])>>, x)
    <3>1. Owed(j) = replays[subs[j]] BY <1>3, <2>4
    <3> DEFINE n == Len(replays[subs[j]])
    <3>2. /\ n \in Nat /\ DOMAIN B[j] = 1..(n + 1) /\ DOMAIN replays[subs[j]] = 1..n
          /\ \A l \in 1..n : B[j][l] = <<subs[j], Ev("question", replays[subs[j]][l])>>
      BY <1>2, <2>1, <3>1
    <3> HIDE DEF n
    <3>3. k \in 1..n /\ k \in DOMAIN B[j] BY <3>2
    <3> QED BY <2>2, <3>2, <3>3
  <2> QED BY <2>3, <2>4
<1>7. ASSUME NEW i \in DOMAIN x, NEW j \in DOMAIN x, x[i][1] = x[j][1], x[j][2] = e, i # j
      PROVE  i < j
  <2>a. PICK b \in 1..N : In(x[i], B[b]) BY <1>1 DEF Flat
  <2>1. PICK k \in DOMAIN B[b] : B[b][k] = x[i] BY <2>a DEF In
  <2>b. PICK c \in 1..N : In(x[j], B[c]) BY <1>1 DEF Flat
  <2>2. PICK l \in DOMAIN B[c] : B[c][l] = x[j] BY <2>b DEF In
  <2>3. b = c
    <3>1. subs[b] = subs[c] BY <1>2, <1>7, <2>1, <2>2
    <3> QED BY <1>1, <3>1 DEF SubsInv
  <2> DEFINE n == Len(Owed(b))
  <2>4. /\ n \in Nat /\ DOMAIN B[b] = 1..(n + 1) /\ B[b][n + 1] = <<subs[b], e>>
        /\ x[j][1] = subs[b]
    BY ZenonT(60), <1>2, <2>2, <2>3
  <2>5. x[j] = <<x[j][1], x[j][2]>> BY <1>4
  <2> HIDE DEF n
  <2>6. B[b][n + 1] = x[j] /\ n + 1 \in DOMAIN B[b] BY <1>7, <2>4, <2>5
  <2>7. k # n + 1 BY <1>4, <1>7, <2>1, <2>6 DEF Apart
  <2>8. k < n + 1 BY <2>1, <2>4, <2>7
  <2> QED BY <1>1, <2>1, <2>6, <2>8 DEF Flat
<1> QED BY <1>4, <1>5, <1>6, <1>7 DEF CallsOf, x

-----------------------------------------------------------------------------
(* Types.                                                                  *)

\* What is left of a list of stages, from the first that has something.
LEMMA RestIs ==
    ASSUME NEW todo \in Seq(StageNames)
    PROVE  \/ /\ Rest(todo) = <<>>
              /\ \A i \in DOMAIN todo : Stage(todo[i]) = <<>>
           \/ /\ Rest(todo) # <<>>
              /\ \E m \in DOMAIN todo :
                 /\ Stage(todo[m]) # <<>>
                 /\ \A j \in DOMAIN todo : j < m => Stage(todo[j]) = <<>>
                 /\ Head(Rest(todo)) = todo[m]
                 /\ Tail(Rest(todo)) \in Seq(StageNames)
                 /\ DOMAIN Tail(Rest(todo)) = 1..(Len(todo) - m)
                 /\ \A i \in 1..(Len(todo) - m) : Tail(Rest(todo))[i] = todo[m + i]
<1> DEFINE some == {i \in DOMAIN todo : Stage(todo[i]) # <<>>}
           m == Min(some)
           t == SubSeq(todo, m, Len(todo))
<1>1. CASE some = {} BY <1>1 DEF Rest
<1>2. CASE some # {}
  <2>1. Rest(todo) = t BY <1>2 DEF Rest
  <2>2. some \in SUBSET Nat OBVIOUS
  <2> HIDE DEF some
  <2>3. m \in some /\ \A y \in some : m <= y BY <1>2, <2>2, MinIs
  <2> HIDE DEF m
  <2>4. m \in DOMAIN todo /\ Stage(todo[m]) # <<>> BY <2>3 DEF some
  <2>5. \A j \in DOMAIN todo : j < m => Stage(todo[j]) = <<>>
    BY <2>3, <2>4 DEF some
  <2>6. /\ t \in Seq(StageNames) /\ Len(t) = Len(todo) - m + 1 /\ Len(todo) - m \in Nat
        /\ \A i \in 1..(Len(todo) - m + 1) : t[i] = todo[m + i - 1]
    BY <2>4
  <2> HIDE DEF t
  <2>7. t # <<>> /\ Head(t) = t[1] /\ t[1] = todo[m] BY <2>4, <2>6
  <2>8. /\ Tail(t) \in Seq(StageNames) /\ DOMAIN Tail(t) = 1..(Len(todo) - m)
        /\ \A i \in 1..(Len(todo) - m) : Tail(t)[i] = t[i + 1]
    BY <2>6, <2>7
  <2>9. \A i \in 1..(Len(todo) - m) : Tail(t)[i] = todo[m + i]
    BY <2>4, <2>6, <2>8
  <2> QED BY <2>1, <2>4, <2>5, <2>7, <2>8, <2>9
<1> QED BY <1>1, <1>2

\* Sets of the plan, which no step changes.
Fixed == /\ plan' = plan /\ Reqs' = Reqs /\ Asks' = Asks /\ Streams' = Streams
         /\ Goroutines' = Goroutines /\ Holds' = Holds

\* The plan's numbers, and the goroutines it gives.
LEMMA PlanIs ==
    ASSUME TypeInv
    PROVE  /\ plan.asks \in Nat /\ plan.connects \in Nat /\ plan.kinds \in Seq(Kinds)
           /\ Reqs \subseteq Nat \ {0} /\ Asks \subseteq Nat \ {0}
           /\ Streams \subseteq Nat \ {0}
           /\ Run \in Goroutines /\ \A q \in Asks : Asker(q) \in Goroutines
           /\ \A r \in Reqs : <<"report", r>> \in Goroutines
                              /\ <<"quarantine", r>> \in Goroutines
           /\ \A s \in Streams : <<"replay", s>> \in Goroutines
           /\ Free \notin Holds
<1>1. plan.asks \in Nat /\ plan.connects \in Nat /\ plan.kinds \in Seq(Kinds)
  BY PlansOK DEF TypeInv
<1>2. Reqs \subseteq Nat \ {0} /\ Asks \subseteq Nat \ {0} /\ Streams \subseteq Nat \ {0}
  BY <1>1 DEF Reqs, Asks, Streams
<1>3. /\ Run \in Goroutines /\ \A q \in Asks : Asker(q) \in Goroutines
      /\ \A r \in Reqs : <<"report", r>> \in Goroutines
                         /\ <<"quarantine", r>> \in Goroutines
      /\ \A s \in Streams : <<"replay", s>> \in Goroutines
  BY DEF Goroutines, Run, Asker
<1>4. <<"none", 0>> \notin Goroutines BY DEF Goroutines
<1>5. Free \notin Holds BY <1>4 DEF Free, Holds
<1> QED BY <1>1, <1>2, <1>3, <1>5

\* A step that leaves the plan leaves its sets.
LEMMA PlanFixed == ASSUME plan' = plan PROVE Fixed
BY DEF Fixed, Reqs, Asks, Streams, Goroutines, Holds

\* A goroutine that takes the barrier.
LEMMA HeldIs ==
    ASSUME NEW g \in Goroutines, NEW todo \in Seq(StageNames), NEW pass \in BOOLEAN
    PROVE  LET h == Held(g, todo, pass) IN
           /\ h \in Holds /\ h.g = g /\ h.todo = todo /\ h.evs = <<>> /\ h.calls = <<>>
           /\ h.list = {} /\ h.pass = pass /\ ~h.err
<1>1. <<>> \in Seq(Events) /\ <<>> \in Seq(Nat \X Events) /\ {} \in SUBSET Reqs
  OBVIOUS
<1> QED BY <1>1 DEF Held, Holds

\* The stages of a delivery: what is owed is reported before its event.
LEMMA StagesAre ==
    ASSUME NEW e
    PROVE  LET d == DeliverStages(e) IN
           /\ d \in Seq(StageNames) /\ 1 \in DOMAIN d /\ d[1] = "reports"
           /\ \A i \in DOMAIN d : d[i] = "event" <=> i = 2
           /\ 2 \in DOMAIN d
<1> DEFINE a == <<"reports", "event", "quarantine">>
           b == IF e.k = "end" THEN <<"reports">> ELSE <<>>
<1>1. DeliverStages(e) = a \o b BY DEF DeliverStages
<1>2. a \in Seq(StageNames) /\ Len(a) = 3 /\ a[1] = "reports" /\ a[2] = "event" /\ a[3] = "quarantine"
  BY DEF StageNames
<1>3. b \in Seq(StageNames) /\ \A i \in DOMAIN b : b[i] = "reports"
  <2>1. CASE e.k = "end" BY <2>1 DEF StageNames
  <2>2. CASE e.k # "end" BY <2>2
  <2> QED BY <2>1, <2>2
<1> HIDE DEF a, b
<1>4. /\ a \o b \in Seq(StageNames) /\ Len(b) \in Nat
      /\ DOMAIN a = 1..3 /\ DOMAIN b = 1..Len(b)
      /\ DOMAIN (a \o b) = 1..(3 + Len(b))
      /\ \A i \in DOMAIN a : (a \o b)[i] = a[i]
      /\ \A i \in DOMAIN (a \o b) :
            \/ i \in DOMAIN a
            \/ i > 3 /\ i - 3 \in DOMAIN b /\ (a \o b)[i] = b[i - 3]
  BY SMTT(60), <1>2, <1>3, Joined
<1>5. ASSUME NEW i \in DOMAIN (a \o b) PROVE (a \o b)[i] = "event" <=> i = 2
  <2>1. CASE i > 3 BY <1>3, <1>4, <2>1
  <2>2. CASE ~(i > 3)
    <3>1. i = 1 \/ i = 2 \/ i = 3 BY <1>4, <2>2
    <3> QED BY <1>2, <1>4, <3>1
  <2> QED BY <2>1, <2>2
<1> QED BY <1>1, <1>2, <1>4, <1>5

\* What a dispatch of event e leaves alone and moves, whichever it is.
Dispatches(e) ==
    /\ e \in Events /\ NotOwed(e)
    /\ hold \in Holds /\ hold' \in Holds /\ hold.calls = <<>>
    /\ hold'.g = hold.g /\ hold'.pass = hold.pass /\ hold'.err = hold.err
    /\ hold'.list = (IF e.k = "end" THEN quarantine ELSE hold.list)
    /\ CallsOf(e, hold'.calls)
    /\ replays' = TakeReplays
    /\ waiting' = CASE e.k = "question" -> Append(waiting, e.n)
                    [] e.k = "closed" -> RemoveFirst(waiting, e.n)
                    [] OTHER -> waiting
    /\ runEnded' = CASE e.k = "start" -> FALSE
                     [] e.k = "end" -> TRUE
                     [] OTHER -> runEnded
    /\ UNCHANGED <<plan, running, aborted, steer, queuedErr, quarantine, asks,
                   subs, goVars, runVars, questVars, streamVars, req,
                   reported, told, losses, fails>>

\* It is the next of a list.
NextInList(e) ==
    /\ e.k \in {"queued", "added"}
    /\ \A x : In(x, hold.evs) <=> x = e \/ In(x, hold'.evs)
    /\ hold'.todo = hold.todo /\ UNCHANGED <<queued, quarantineOwed>>

\* It is the first of the stage at m, those before having nothing.
FirstOfStage(e, m) ==
    /\ hold.evs = <<>> /\ m \in DOMAIN hold.todo
    /\ \A j \in DOMAIN hold.todo : j < m =>
          hold.todo[j] # "event" /\ (hold.todo[j] = "reports" => queued = <<>>)
    /\ DOMAIN hold'.todo = 1..(Len(hold.todo) - m)
    /\ \A i \in 1..(Len(hold.todo) - m) : hold'.todo[i] = hold.todo[m + i]
    /\ \/ /\ hold.todo[m] = "event" /\ e = due[hold.g] /\ hold'.evs = <<>>
          /\ UNCHANGED <<queued, quarantineOwed>>
       \/ /\ hold.todo[m] \in {"reports", "flush"}
          /\ \A x : x = e \/ In(x, hold'.evs) <=>
                    \E i \in DOMAIN queued : x = Ev("queued", queued[i])
          /\ queued' = <<>> /\ UNCHANGED quarantineOwed
       \/ /\ hold.todo[m] = "quarantine"
          /\ \A x : x = e \/ In(x, hold'.evs) <=>
                    \E i \in DOMAIN quarantineOwed : x = Ev("added", quarantineOwed[i])
          /\ quarantineOwed' = <<>> /\ UNCHANGED queued

\* The first of a list, and the rest of it.
LEMMA HeadTail ==
    ASSUME NEW T, NEW s \in Seq(T), s # <<>>
    PROVE  /\ Head(s) \in T /\ Tail(s) \in Seq(T)
           /\ \A x : In(x, s) <=> x = Head(s) \/ In(x, Tail(s))
<1>1. /\ Head(s) \in T /\ Tail(s) \in Seq(T) /\ Len(s) \in Nat \ {0}
      /\ Head(s) = s[1] /\ DOMAIN s = 1..Len(s) /\ DOMAIN Tail(s) = 1..(Len(s) - 1)
      /\ \A i \in 1..(Len(s) - 1) : Tail(s)[i] = s[i + 1]
  OBVIOUS
<1>2. ASSUME NEW i \in DOMAIN s, s[i] # Head(s) PROVE In(s[i], Tail(s))
  <2>1. i - 1 \in 1..(Len(s) - 1) /\ i - 1 + 1 = i BY <1>1, <1>2
  <2>2. Tail(s)[i - 1] = s[i] BY <1>1, <2>1
  <2> QED BY <1>1, <2>1, <2>2 DEF In
<1>3. ASSUME NEW i \in DOMAIN Tail(s) PROVE In(Tail(s)[i], s)
  <2>1. i + 1 \in DOMAIN s /\ Tail(s)[i] = s[i + 1] BY <1>1
  <2> QED BY <2>1 DEF In
<1>4. In(Head(s), s) BY <1>1 DEF In
<1> QED BY <1>1, <1>2, <1>3, <1>4 DEF In

\* An event that is dispatched is not a question a stream is owed.
LEMMA EventNotOwed ==
    ASSUME TypeInv, \A q \in Asks : ShownInv(q), NEW e,
           \A q \in Asks : e = Ev("question", q) => Pending(q, "question")
    PROVE  NotOwed(e)
<1> SUFFICES ASSUME NEW s \in Streams, NEW k \in DOMAIN replays[s],
                    e = Ev("question", replays[s][k])
             PROVE  FALSE
  BY DEF NotOwed
<1> DEFINE q == replays[s][k]
<1>1. q \in Asks BY DEF TypeInv
<1>2. Pending(q, "question") BY <1>1
<1>3. \E i \in DOMAIN waiting : waiting[i] = q BY <1>1 DEF ShownInv
<1> QED BY <1>1, <1>2, <1>3 DEF ShownInv

\* NextEvent and NextStage dispatch.
LEMMA DispatchIs ==
    ASSUME TypeInv, SubsInv, HoldInv, NEW e \in Events, NotOwed(e),
           NEW evs \in Seq(Events), NEW todo \in Seq(StageNames),
           NEW stage \in StageNames \cup {"none"},
           hold # Free, hold.calls = <<>>, Dispatch(e, evs, todo, stage)
    PROVE  Dispatches(e) /\ hold'.evs = evs /\ hold'.todo = todo
<1>1. hold \in Holds BY DEF TypeInv
<1>2. CallsOf(e, CallsFor(e)) /\ CallsFor(e) \in Seq(Nat \X Events)
  BY CallsForIs DEF CallsOf
<1>3. quarantine \in SUBSET Reqs BY DEF TypeInv
<1>4. /\ hold' = [hold EXCEPT !.evs = evs, !.todo = todo, !.stage = stage,
                            !.calls = CallsFor(e),
                            !.list = IF e.k = "end" THEN quarantine ELSE @]
  BY DEF Dispatch
<1>5. /\ hold' \in Holds' /\ hold'.g = hold.g /\ hold'.pass = hold.pass /\ hold'.err = hold.err
      /\ hold'.list = (IF e.k = "end" THEN quarantine ELSE hold.list)
      /\ hold'.calls = CallsFor(e) /\ hold'.evs = evs /\ hold'.todo = todo
  <2>1. Fixed BY PlanFixed DEF Dispatch
  <2> QED BY <1>1, <1>2, <1>3, <1>4, <2>1 DEF Holds, Fixed
<1>6. Fixed BY PlanFixed DEF Dispatch
<1> QED BY <1>1, <1>2, <1>5, <1>6 DEF Dispatches, Dispatch, Fixed

\* NextEvent dispatches the next event of a list.
LEMMA NextEventIs ==
    ASSUME TypeInv, SubsInv, HoldInv, NextEvent
    PROVE  \E e \in Events : Dispatches(e) /\ NextInList(e)
<1> DEFINE e == Head(hold.evs)
<1>1. hold \in Holds /\ hold # Free /\ hold.calls = <<>> /\ hold.evs # <<>>
  BY DEF TypeInv, NextEvent
<1>2. hold.evs \in Seq(Events) /\ hold.todo \in Seq(StageNames)
      /\ hold.stage \in StageNames \cup {"none"}
  BY <1>1 DEF Holds
<1>3. /\ e \in Events /\ Tail(hold.evs) \in Seq(Events)
      /\ \A x : In(x, hold.evs) <=> x = e \/ In(x, Tail(hold.evs))
  BY <1>1, <1>2, HeadTail
<1>4. e.k \in {"queued", "added"} BY <1>1, <1>3 DEF HoldInv, In
<1>5. NotOwed(e) BY <1>4 DEF NotOwed, Ev
<1>6. Dispatches(e) /\ hold'.evs = Tail(hold.evs) /\ hold'.todo = hold.todo
  BY <1>1, <1>2, <1>3, <1>5, DispatchIs DEF NextEvent
<1>7. NextInList(e) BY <1>3, <1>4, <1>6 DEF NextInList, NextEvent
<1> QED BY <1>3, <1>6, <1>7

\* What a stage has to dispatch.
LEMMA StageIs ==
    ASSUME TypeInv, hold \in Holds, NEW n \in StageNames
    PROVE  /\ Stage(n) \in Seq(Events)
           /\ n = "event" => Stage(n) = <<due[hold.g]>>
           /\ n = "reports" => (Stage(n) = <<>> => queued = <<>>)
           /\ n \in {"reports", "flush"} /\ Stage(n) # <<>> =>
                 \A x : In(x, Stage(n)) <=>
                        \E i \in DOMAIN queued : x = Ev("queued", queued[i])
           /\ n = "quarantine" =>
                 \A x : In(x, Stage(n)) <=>
                        \E i \in DOMAIN quarantineOwed : x = Ev("added", quarantineOwed[i])
<1>1. Reqs \subseteq Nat /\ queued \in Seq(Reqs) /\ quarantineOwed \in Seq(Reqs)
  BY PlanIs DEF TypeInv
<1>2. CASE n = "event"
  <2>1. Stage(n) = <<due[hold.g]>> BY <1>2 DEF Stage
  <2>2. due[hold.g] \in Events BY DEF TypeInv, Holds
  <2>3. <<due[hold.g]>> \in Seq(Events) BY <2>2
  <2> QED BY <1>2, <2>1, <2>3
<1> DEFINE R == [i \in DOMAIN queued |-> Ev("queued", queued[i])]
           A == [i \in DOMAIN quarantineOwed |-> Ev("added", quarantineOwed[i])]
<1>3. R \in Seq(Events) /\ (R = <<>> => queued = <<>>)
      /\ \A x : In(x, R) <=> \E i \in DOMAIN queued : x = Ev("queued", queued[i])
  <2>0. \A i \in DOMAIN queued : queued[i] \in Reqs BY <1>1
  <2>a. \A i \in DOMAIN queued : queued[i] \in Nat BY <1>1, <2>0
  <2>1. \A i \in DOMAIN queued : Ev("queued", queued[i]) \in Events
    BY <2>a DEF Ev, Events, EventKinds
  <2>2. R \in Seq(Events) /\ (R = <<>> => queued = <<>>) BY <1>1, <2>1
  <2> QED BY <2>2 DEF In
<1>4. A \in Seq(Events)
      /\ \A x : In(x, A) <=>
             \E i \in DOMAIN quarantineOwed : x = Ev("added", quarantineOwed[i])
  <2>0. \A i \in DOMAIN quarantineOwed : quarantineOwed[i] \in Reqs
    BY <1>1
  <2>a. \A i \in DOMAIN quarantineOwed : quarantineOwed[i] \in Nat
    BY <1>1, <2>0
  <2>1. \A i \in DOMAIN quarantineOwed : Ev("added", quarantineOwed[i]) \in Events
    BY <2>a DEF Ev, Events, EventKinds
  <2>2. A \in Seq(Events) BY <1>1, <2>1
  <2> QED BY <2>2 DEF In
<1>5. CASE n = "reports"
  <2>1. Stage(n) = R BY <1>5 DEF Stage, Reports
  <2> QED BY <1>3, <1>5, <2>1
<1>6. CASE n = "flush"
  <2>1. Stage(n) = R \/ Stage(n) = <<>> BY <1>6 DEF Stage, Reports
  <2>2. <<>> \in Seq(Events) OBVIOUS
  <2> QED BY <1>3, <1>6, <2>1, <2>2
<1>7. CASE n = "quarantine"
  <2>1. Stage(n) = A BY <1>7 DEF Stage
  <2> QED BY <1>4, <1>7, <2>1
<1> QED BY <1>2, <1>5, <1>6, <1>7 DEF StageNames

\* NextStage dispatches the first event of a stage.
LEMMA NextStageIs ==
    ASSUME TypeInv, SubsInv, HoldInv, DueInv, \A q \in Asks : ShownInv(q), NextStage
    PROVE  \E e \in Events : Dispatches(e) /\ \E m \in Nat : FirstOfStage(e, m)
<1> DEFINE todo == Rest(hold.todo)
           evs == Stage(Head(todo))
           e == Head(evs)
<1>1. /\ hold \in Holds /\ hold # Free /\ hold.calls = <<>> /\ hold.evs = <<>> /\ todo # <<>>
      /\ Dispatch(e, Tail(evs), Tail(todo), Head(todo))
      /\ queued' = IF Head(todo) \in {"reports", "flush"} THEN <<>> ELSE queued
      /\ quarantineOwed' = IF Head(todo) = "quarantine" THEN <<>> ELSE quarantineOwed
  BY DEF TypeInv, NextStage
<1>2. hold.todo \in Seq(StageNames) BY <1>1 DEF Holds
<1>3. PICK m \in DOMAIN hold.todo :
                 /\ Stage(hold.todo[m]) # <<>>
                 /\ \A j \in DOMAIN hold.todo : j < m => Stage(hold.todo[j]) = <<>>
                 /\ Head(todo) = hold.todo[m]
                 /\ Tail(todo) \in Seq(StageNames)
                 /\ DOMAIN Tail(todo) = 1..(Len(hold.todo) - m)
                 /\ \A i \in 1..(Len(hold.todo) - m) : Tail(todo)[i] = hold.todo[m + i]
  BY <1>1, <1>2, RestIs
<1>4. hold.todo[m] \in StageNames /\ \A j \in DOMAIN hold.todo : hold.todo[j] \in StageNames
  BY <1>2, <1>3
<1> DEFINE t == hold.todo[m]
<1> HIDE DEF todo
<1>5. /\ evs \in Seq(Events) /\ evs # <<>>
      /\ t = "event" => evs = <<due[hold.g]>>
      /\ t \in {"reports", "flush"} =>
            \A x : In(x, evs) <=> \E i \in DOMAIN queued : x = Ev("queued", queued[i])
      /\ t = "quarantine" =>
            \A x : In(x, evs) <=>
                   \E i \in DOMAIN quarantineOwed : x = Ev("added", quarantineOwed[i])
  BY <1>1, <1>3, <1>4, StageIs
<1>6. ASSUME NEW j \in DOMAIN hold.todo, j < m
      PROVE  hold.todo[j] # "event" /\ (hold.todo[j] = "reports" => queued = <<>>)
  <2>1. Stage(hold.todo[j]) = <<>> BY <1>3, <1>6
  <2>2. hold.todo[j] = "event" => Stage(hold.todo[j]) # <<>>
    <3>1. <<due[hold.g]>> # <<>> OBVIOUS
    <3> QED BY <1>1, <1>4, <3>1, StageIs
  <2>3. hold.todo[j] = "reports" => queued = <<>>
    BY <1>1, <1>4, <2>1, StageIs
  <2> QED BY <2>1, <2>2, <2>3
<1> HIDE DEF evs
<1>7. e \in Events /\ Tail(evs) \in Seq(Events) /\ \A x : In(x, evs) <=> x = e \/ In(x, Tail(evs))
  BY <1>5, HeadTail
<1>8. \A q \in Asks : e = Ev("question", q) => Pending(q, "question")
  <2> SUFFICES ASSUME NEW q \in Asks, e = Ev("question", q) PROVE Pending(q, "question")
    OBVIOUS
  <2>1. e.k = "question" /\ e.n = q BY DEF Ev
  <2>2. t = "event"
    <3>1. In(e, evs) BY <1>7
    <3>2. t \in {"reports", "flush", "quarantine"} => e.k \in {"queued", "added"}
      BY <1>5, <3>1 DEF Ev
    <3> QED BY <1>4, <2>1, <3>2 DEF StageNames
  <2>3. e = due[hold.g] BY <1>5, <2>2
  <2>4. hold.g \in Goroutines BY <1>1 DEF Holds
  <2>5. hold.g[1] = "ask" /\ hold.g[2] = q
    BY <2>1, <2>3, <2>4 DEF DueInv
  <2>6. hold.g = Asker(q) BY <2>4, <2>5 DEF Goroutines, Asker
  <2> QED BY <1>1, <1>3, <2>2, <2>3, <2>6 DEF Pending, ToDispatch
<1>9. NotOwed(e) BY <1>8, EventNotOwed
<1>10. Dispatches(e) /\ hold'.evs = Tail(evs) /\ hold'.todo = Tail(todo)
  <2>1. Head(todo) \in StageNames \cup {"none"} BY <1>3, <1>4
  <2> HIDE DEF e
  <2> QED BY <1>1, <1>3, <1>7, <1>9, <2>1, DispatchIs
<1>11. t = "event" => e = due[hold.g] /\ Tail(evs) = <<>>
  <2>1. \A x : Head(<<x>>) = x /\ Tail(<<x>>) = <<>> OBVIOUS
  <2> QED BY <1>5, <2>1
<1>12. FirstOfStage(e, m)
  <2>1. \/ /\ t = "event" /\ e = due[hold.g] /\ hold'.evs = <<>>
           /\ UNCHANGED <<queued, quarantineOwed>>
        \/ /\ t \in {"reports", "flush"}
           /\ \A x : x = e \/ In(x, hold'.evs) <=>
                     \E i \in DOMAIN queued : x = Ev("queued", queued[i])
           /\ queued' = <<>> /\ UNCHANGED quarantineOwed
        \/ /\ t = "quarantine"
           /\ \A x : x = e \/ In(x, hold'.evs) <=>
                     \E i \in DOMAIN quarantineOwed : x = Ev("added", quarantineOwed[i])
           /\ quarantineOwed' = <<>> /\ UNCHANGED queued
    <3>1. CASE t = "event" BY <1>1, <1>3, <1>10, <1>11, <3>1
    <3>2. CASE t \in {"reports", "flush"}
      BY <1>1, <1>3, <1>5, <1>7, <1>10, <3>2
    <3>3. CASE t = "quarantine"
      <4>1. quarantineOwed' = <<>> /\ queued' = queued
        BY <1>1, <1>3, <3>3
      <4> QED BY <1>5, <1>7, <1>10, <3>3, <4>1
    <3> QED BY <1>4, <3>1, <3>2, <3>3 DEF StageNames
  <2> QED BY <1>1, <1>3, <1>6, <1>10, <2>1 DEF FirstOfStage
<1>13. m \in Nat BY <1>2, <1>3
<1> QED BY <1>7, <1>10, <1>12, <1>13

-----------------------------------------------------------------------------
(* Types, step by step.                                                    *)

\* A step that none of the invariants looks at: of the requests, of their
\* callers, of a stream's handler or of its client.
Quiet ==
    /\ UNCHANGED <<plan, running, runEnded, queued, queuedErr, quarantine,
                   quarantineOwed, asks, waiting, replays, subs, hold, at, due,
                   err, passes, taken, steps, reply, result, opened, reported,
                   told, fails>>
    /\ cancelled' \in [Asks -> BOOLEAN] /\ stream' \in [Streams -> StreamRecs]
    /\ \A s \in Streams : stream'[s].got = stream[s].got
    /\ cur' \in {0} \cup Streams /\ seen' \in Seq(Events) /\ req' \in [Reqs -> ReqRecs]
    /\ \A r \in Reqs : req'[r].spc = "none" => req[r].spc = "none"
    /\ steer' \in Seq(Reqs) /\ \A x : In(x, steer') => In(x, steer)

\* A quiet step keeps the types.
LEMMA QuietType == ASSUME TypeInv, Quiet PROVE TypeInv'
<1>1. Fixed BY PlanFixed DEF Quiet
<1> QED BY <1>1 DEF Quiet, TypeInv, Fixed

\* The steps of a request that are quiet.
QuietReq(r) == Guard(r) \/ Decode(r) \/ Abort(r)

\* What a handler writes is a request's answer.
LEMMA AnswersType ==
    ASSUME req \in [Reqs -> ReqRecs], NEW r \in Reqs, NEW spc \in HandlerPlaces,
           NEW word \in Words, Answers(r, spc, word)
    PROVE  req' \in [Reqs -> ReqRecs]
<1> DEFINE x == [req[r] EXCEPT !.spc = spc, !.resp = word]
<1>1. req' = [req EXCEPT ![r] = x] BY DEF Answers
<1>2. x \in ReqRecs BY DEF ReqRecs
<1> QED BY <1>1, <1>2

\* A request that queues, starts, answers and asks nothing is quiet.
LEMMA QuietReqIs == ASSUME TypeInv, NEW r \in Reqs, QuietReq(r) PROVE Quiet
<1> DEFINE Same == /\ cancelled \in [Asks -> BOOLEAN] /\ stream \in [Streams -> StreamRecs]
                   /\ cur \in {0} \cup Streams /\ seen \in Seq(Events)
                   /\ steer \in Seq(Reqs)
           Answered1(x) == req' = [req EXCEPT ![r] = x] /\ x \in ReqRecs
                           /\ (x.spc = "none" => req[r].spc = "none")
<1>1. Same /\ req \in [Reqs -> ReqRecs] /\ req[r] \in ReqRecs
  BY DEF TypeInv
<1>a. \E x : Answered1(x)
  <2>1. ASSUME NEW spc \in HandlerPlaces, NEW word \in Words, spc # "none",
               Answers(r, spc, word)
        PROVE  \E x : Answered1(x)
    <3> DEFINE x == [req[r] EXCEPT !.spc = spc, !.resp = word]
    <3>1. req' = [req EXCEPT ![r] = x] BY <2>1 DEF Answers
    <3>2. x \in ReqRecs /\ x.spc # "none" BY <1>1, <2>1 DEF ReqRecs
    <3> QED BY <3>1, <3>2
  <2>2. CASE Guard(r) \/ Decode(r) \/ Abort(r)
    BY <2>1, <2>2 DEF Guard, Decode, Refused, Abort, HandlerPlaces, Words
  <2> QED BY <2>2 DEF QuietReq
<1>b. /\ req' \in [Reqs -> ReqRecs]
      /\ \A t \in Reqs : req'[t].spc = "none" => req[t].spc = "none"
  BY <1>1, <1>a
<1> HIDE DEF Answered1
<1>2. CASE Guard(r) \/ Decode(r)
  BY <1>1, <1>2, <1>b DEF Quiet, Guard, Decode, Refused, Arrives, agentVars, quarVars,
      runVars, questVars, streamVars
<1>3. CASE Abort(r)
  <2>1. cancelled' \in [Asks -> BOOLEAN]
    <3>1. running \in BOOLEAN BY DEF TypeInv
    <3> QED BY <1>1, <1>3, <3>1 DEF Abort, Cancels
  <2> QED BY <1>1, <1>3, <1>b, <2>1 DEF Quiet, Abort, Cancels, Arrives, quarVars, runVars,
      streamVars
<1> QED BY <1>2, <1>3 DEF QuietReq

\* The steps of a stream that are quiet.
QuietStream(s) ==
    \/ Ready(s) \/ NextFrame(s) \/ Drained(s) \/ FellBehind(s) \/ Overflow(s)
    \/ RequestDone(s) \/ LoseStream(s)

\* A stream's own steps, its leaving apart, are quiet.
LEMMA QuietStreamIs == ASSUME TypeInv, NEW s \in Streams, QuietStream(s) PROVE Quiet
<1> DEFINE y == stream[s]
<1>1. /\ cancelled \in [Asks -> BOOLEAN] /\ stream \in [Streams -> StreamRecs]
      /\ cur \in {0} \cup Streams /\ seen \in Seq(Events) /\ req \in [Reqs -> ReqRecs]
      /\ steer \in Seq(Reqs) /\ y \in StreamRecs
  BY DEF TypeInv
<1>2. PICK x : stream' = [stream EXCEPT ![s] = x] /\ x \in StreamRecs /\ x.got = y.got
  <2>1. CASE LoseStream(s)
    <3> DEFINE x == [y EXCEPT !.gone = TRUE]
    <3>1. stream' = [stream EXCEPT ![s] = x] BY <2>1 DEF LoseStream
    <3>2. x \in StreamRecs /\ x.got = y.got BY <1>1 DEF StreamRecs
    <3> QED BY <3>1, <3>2
  <2>2. ASSUME NEW z \in StreamRecs, NEW e \in Events,
               NEW next \in {"loop", "drain", "cut", "leaving"}, NEW x \in Written(z, e, next)
        PROVE  x \in StreamRecs /\ x.got = z.got
    <3>1. \/ x = [z EXCEPT !.h = next] \/ x = [z EXCEPT !.h = "leaving"]
          \/ x = [z EXCEPT !.h = next, !.wire = Append(@, e)]
      BY <2>2 DEF Written
    <3>2. Append(z.wire, e) \in Seq(Events) BY <2>2 DEF StreamRecs
    <3> QED BY <2>2, <3>1, <3>2 DEF StreamRecs
  <2>3. CASE Ready(s) \/ Overflow(s)
    <3>1. Ev("ready", 0) \in Events /\ Ev("overflow", 0) \in Events
      BY DEF Ev, Events, EventKinds
    <3> QED BY <1>1, <2>2, <2>3, <3>1 DEF Ready, Overflow, Handles
  <2>4. CASE NextFrame(s)
    <3> DEFINE z == [y EXCEPT !.frames = Tail(@)]
               next == IF y.h = "loop" THEN "drain" ELSE y.h
    <3>1. PICK x \in Written(z, Head(y.frames), next) : stream' = [stream EXCEPT ![s] = x]
      BY <2>4 DEF NextFrame, Handles
    <3>2. y.frames \in Seq(Events) /\ y.frames # <<>> /\ y.h \in {"loop", "drain", "cut"}
      BY <1>1, <2>4 DEF NextFrame, StreamRecs
    <3>3. Head(y.frames) \in Events /\ Tail(y.frames) \in Seq(Events)
      BY <3>2
    <3>4. z \in StreamRecs /\ z.got = y.got BY <1>1, <3>3 DEF StreamRecs
    <3>5. next \in {"loop", "drain", "cut", "leaving"} BY <3>2
    <3> HIDE DEF z, next
    <3>6. x \in StreamRecs /\ x.got = z.got
      BY <2>2, <3>1, <3>3, <3>4, <3>5
    <3> QED BY <3>1, <3>4, <3>6
  <2>5. CASE Drained(s) \/ FellBehind(s) \/ RequestDone(s)
    <3>1. PICK h \in {"loop", "cut", "leaving"} : stream' = [stream EXCEPT ![s] = [y EXCEPT !.h = h]]
      BY <2>5 DEF Drained, FellBehind, RequestDone, Handles
    <3> DEFINE x == [y EXCEPT !.h = h]
    <3>2. x \in StreamRecs /\ x.got = y.got BY <1>1 DEF StreamRecs
    <3> QED BY <3>1, <3>2
  <2> QED BY <2>1, <2>3, <2>4, <2>5 DEF QuietStream
<1>3. stream' \in [Streams -> StreamRecs] /\ \A t \in Streams : stream'[t].got = stream[t].got
  BY <1>1, <1>2
<1>4. /\ cur' = cur /\ seen' = seen /\ req' = req /\ steer' = steer /\ cancelled' = cancelled
      /\ UNCHANGED <<plan, running, runEnded, queued, queuedErr, quarantine,
                   quarantineOwed, asks, waiting, replays, subs, hold, at, due,
                   err, passes, taken, steps, reply, result, opened, reported,
                   told, fails>>
  <2>1. CASE LoseStream(s)
    BY <2>1 DEF LoseStream, StreamLeavesAlone, agentVars, quarVars, runVars, questVars
  <2>2. CASE ~LoseStream(s)
    <3>1. \E z : Handles(s, z)
      BY <2>2 DEF QuietStream, Ready, NextFrame, Drained, FellBehind, Overflow, RequestDone
    <3> QED BY <3>1 DEF Handles, StreamLeavesAlone, agentVars, quarVars, runVars, questVars
  <2> QED BY <2>1, <2>2
<1> QED BY <1>1, <1>3, <1>4 DEF Quiet

\* So are the client's.
LEMMA QuietClientIs == ASSUME TypeInv, ClientStep PROVE Quiet
<1>1. /\ cancelled \in [Asks -> BOOLEAN] /\ stream \in [Streams -> StreamRecs]
      /\ cur \in Streams /\ seen \in Seq(Events) /\ req \in [Reqs -> ReqRecs]
      /\ steer \in Seq(Reqs) /\ stream[cur] \in StreamRecs
  BY DEF TypeInv, ClientStep, ReadFrame, StreamBreaks
<1>2. /\ cur' \in {0} \cup Streams /\ seen' \in Seq(Events)
      /\ \E w \in Seq(Events) : stream' = [stream EXCEPT ![cur].wire = w]
  <2>1. CASE ReadFrame
    <3>1. stream[cur].wire \in Seq(Events) /\ stream[cur].wire # <<>>
      BY <1>1, <2>1 DEF ReadFrame, StreamRecs
    <3>2. Head(stream[cur].wire) \in Events /\ Tail(stream[cur].wire) \in Seq(Events)
      BY <3>1
    <3>3. stream' = [stream EXCEPT ![cur].wire = Tail(stream[cur].wire)]
      BY <2>1 DEF ReadFrame
    <3>4. cur' \in {0, cur} /\ (seen' = <<>> \/ seen' = seen \/ seen' = Append(seen, Head(stream[cur].wire)))
      BY <2>1 DEF ReadFrame, Breaks
    <3>5. seen' \in Seq(Events)
      <4>1. Append(seen, Head(stream[cur].wire)) \in Seq(Events) /\ <<>> \in Seq(Events)
        BY <1>1, <3>2
      <4> QED BY <1>1, <3>4, <4>1
    <3> QED BY <1>1, <3>2, <3>3, <3>4, <3>5
  <2>2. CASE StreamBreaks
    <3>1. <<>> \in Seq(Events) OBVIOUS
    <3> QED BY <2>2, <3>1 DEF StreamBreaks, Breaks
  <2> QED BY <2>1, <2>2 DEF ClientStep
<1>3. stream' \in [Streams -> StreamRecs] /\ \A t \in Streams : stream'[t].got = stream[t].got
  <2>1. PICK w \in Seq(Events) : stream' = [stream EXCEPT ![cur].wire = w]
    BY <1>2
  <2> DEFINE x == [stream[cur] EXCEPT !.wire = w]
  <2>2. x \in StreamRecs /\ x.got = stream[cur].got
    BY <1>1 DEF StreamRecs
  <2>3. stream' = [stream EXCEPT ![cur] = x] BY <2>1
  <2> HIDE DEF x
  <2> QED BY <1>1, <2>2, <2>3
<1>4. /\ req' = req /\ steer' = steer /\ cancelled' = cancelled
      /\ UNCHANGED <<plan, running, runEnded, queued, queuedErr, quarantine,
                   quarantineOwed, asks, waiting, replays, subs, hold, at, due,
                   err, passes, taken, steps, reply, result, opened, reported,
                   told, fails>>
  BY DEF ClientStep, ReadFrame, StreamBreaks, StreamLeavesAlone, agentVars, quarVars,
      runVars, questVars
<1> QED BY <1>1, <1>2, <1>3, <1>4 DEF Quiet

\* The goroutines that take the barrier, and the one that lets it go.
LEMMA TakeType ==
    ASSUME TypeInv,
           \/ Leave \/ \E g \in Goroutines : Enter(g) \/ UnlockEmit(g)
           \/ \E r \in Reqs : ReportQueued(r) \/ QuarantineReport(r)
    PROVE  TypeInv'
<1> USE DEF Places
<1>1. Fixed
  BY PlanFixed DEF Leave, Enter, UnlockEmit, ReportQueued, QuarantineReport
<1>2. CASE Leave
  <2>1. hold.g \in Goroutines /\ hold.err \in BOOLEAN
    BY <1>2 DEF Leave, TypeInv, Holds
  <2> QED BY <1>1, <1>2, <2>1 DEF Leave, TypeInv, Fixed, agentVars, quarVars, askVars,
      runVars, questVars, streamVars, pastVars
<1>3. ASSUME NEW g \in Goroutines, Enter(g) PROVE TypeInv'
  <2>1. hold' \in Holds \cup {Free}
    <3>1. DeliverStages(due[g]) \in Seq(StageNames) BY StagesAre
    <3>2. Held(g, DeliverStages(due[g]), FALSE) \in Holds
      BY <3>1, HeldIs
    <3> QED BY <1>3, <3>2 DEF Enter, TypeInv
  <2> QED BY <1>1, <1>3, <2>1 DEF Enter, TypeInv, Fixed, quarVars, askVars, runVars,
      questVars, streamVars, pastVars
<1>4. ASSUME NEW g \in Goroutines, UnlockEmit(g) PROVE TypeInv'
  <2> DEFINE todo == <<"quarantine">> \o (IF PassOwed(g) THEN <<"flush">> ELSE <<>>)
  <2>1. hold' \in Holds \cup {Free}
    <3>1. <<"quarantine">> \in Seq(StageNames) /\ <<"flush">> \in Seq(StageNames)
          /\ <<>> \in Seq(StageNames)
      BY DEF StageNames
    <3>2. todo \in Seq(StageNames) BY <3>1
    <3>3. Held(g, todo, TRUE) \in Holds BY <3>2, HeldIs
    <3> QED BY <1>4, <3>3 DEF UnlockEmit, TypeInv
  <2>2. passes' \in [Goroutines -> Nat]
    <3>1. passes \in [Goroutines -> Nat] /\ passes[g] + 1 \in Nat /\ passes[g] + 0 \in Nat
      BY DEF TypeInv
    <3>2. PICK n \in Nat : passes' = [passes EXCEPT ![g] = n]
      <4>1. CASE PassOwed(g) BY <1>4, <3>1, <4>1 DEF UnlockEmit
      <4>2. CASE ~PassOwed(g) BY <1>4, <3>1, <4>2 DEF UnlockEmit
      <4> QED BY <4>1, <4>2
    <3> QED BY <3>1, <3>2
  <2> QED BY <1>1, <1>4, <2>1, <2>2 DEF UnlockEmit, TypeInv, Fixed, agentVars, quarVars,
      askVars, runVars, questVars, streamVars, pastVars
<1>5. ASSUME NEW r \in Reqs, ReportQueued(r) \/ QuarantineReport(r) PROVE TypeInv'
  <2>1. <<"report", r>> \in Goroutines /\ <<"quarantine", r>> \in Goroutines
    BY PlanIs
  <2>2. hold' \in Holds \cup {Free}
    <3>1. <<"quarantine">> \in Seq(StageNames) /\ <<"flush">> \in Seq(StageNames)
      BY DEF StageNames
    <3>2. /\ Held(<<"report", r>>, <<"flush">>, FALSE) \in Holds
          /\ Held(<<"quarantine", r>>, <<"quarantine">>, FALSE) \in Holds
      BY <2>1, <3>1, HeldIs
    <3> QED BY <1>5, <3>2 DEF ReportQueued, QuarantineReport, TypeInv
  <2> QED BY ZenonT(60), <1>1, <1>5, <2>1, <2>2 DEF ReportQueued, QuarantineReport, TypeInv, Fixed,
      agentVars, quarVars, askVars, runVars, questVars, streamVars, pastVars
<1> QED BY <1>2, <1>3, <1>4, <1>5

\* The calls of a new subscriber's owed questions.
LEMMA FlushIs ==
    ASSUME TypeInv, NEW s \in Streams, FlushReplay(s)
    PROVE  /\ hold = Free /\ hold' \in Holds /\ hold'.g = <<"replay", s>>
           /\ hold'.todo = <<>> /\ hold'.evs = <<>> /\ hold'.list = {} /\ ~hold'.err
           /\ DOMAIN hold'.calls = DOMAIN replays[s]
           /\ \A i \in DOMAIN replays[s] :
                 hold'.calls[i] = <<s, Ev("question", replays[s][i])>>
<1> DEFINE c == [i \in DOMAIN replays[s] |-> <<s, Ev("question", replays[s][i])>>]
           h == Held(<<"replay", s>>, <<>>, FALSE)
<1>1. hold = Free /\ hold' = [h EXCEPT !.calls = c] BY DEF FlushReplay
<1>2. replays[s] \in Seq(Asks) /\ Asks \subseteq Nat /\ s \in Nat /\ <<"replay", s>> \in Goroutines
  BY PlanIs DEF TypeInv
<1>3. c \in Seq(Nat \X Events)
  <2>1. \A i \in DOMAIN replays[s] : replays[s][i] \in Asks BY <1>2
  <2>2. \A i \in DOMAIN replays[s] : Ev("question", replays[s][i]) \in Events
    BY <1>2, <2>1 DEF Ev, Events, EventKinds
  <2>3. \A i \in DOMAIN replays[s] : <<s, Ev("question", replays[s][i])>> \in Nat \X Events
    BY <1>2, <2>2
  <2>4. Len(replays[s]) \in Nat /\ DOMAIN replays[s] = 1..Len(replays[s])
    BY <1>2
  <2> QED BY ONLY <2>3, <2>4
<1>4. /\ h \in Holds /\ h.g = <<"replay", s>> /\ h.todo = <<>> /\ h.evs = <<>>
      /\ h.list = {} /\ ~h.err
  <2>1. <<>> \in Seq(StageNames) OBVIOUS
  <2> QED BY <1>2, <2>1, HeldIs
<1> HIDE DEF h
<1>5. hold' \in Holds /\ hold'.g = <<"replay", s>> /\ hold'.todo = <<>>
      /\ hold'.evs = <<>> /\ hold'.list = {} /\ ~hold'.err /\ hold'.calls = c
  <2> HIDE DEF c
  <2> QED BY <1>1, <1>3, <1>4 DEF Holds
<1> QED BY <1>1, <1>5

\* flushReplay keeps the types.
LEMMA FlushType ==
    ASSUME TypeInv, NEW s \in Streams, FlushReplay(s) PROVE TypeInv'
<1>1. Fixed BY PlanFixed DEF FlushReplay
<1>2. hold' \in Holds BY FlushIs
<1>3. replays' \in [Streams -> Seq(Asks)] /\ at' \in [Goroutines -> Places]
  <2>1. <<>> \in Seq(Asks) /\ "hold" \in Places BY DEF Places
  <2> QED BY <2>1 DEF FlushReplay, TypeInv
<1> QED BY <1>1, <1>2, <1>3 DEF FlushReplay, TypeInv, Fixed, agentVars, quarVars, runVars,
    questVars, streamVars, pastVars

\* A call of a subscriber, and one that fails.
LEMMA CallIs ==
    ASSUME TypeInv, Call
    PROVE  LET c == Head(hold.calls) IN
           /\ hold # Free /\ hold \in Holds /\ hold' \in Holds /\ hold.calls # <<>>
           /\ hold.calls \in Seq(Nat \X Events) /\ c \in Nat \X Events
           /\ hold'.g = hold.g /\ hold'.todo = hold.todo /\ hold'.evs = hold.evs
           /\ hold'.list = hold.list /\ hold'.pass = hold.pass /\ hold'.err = hold.err
           /\ hold'.calls = Tail(hold.calls)
           /\ DOMAIN hold'.calls = 1..(Len(hold.calls) - 1)
           /\ \A i \in 1..(Len(hold.calls) - 1) : hold'.calls[i] = hold.calls[i + 1]
           /\ c = hold.calls[1] /\ Len(hold.calls) \in Nat \ {0}
           /\ DOMAIN hold.calls = 1..Len(hold.calls)
<1>1. hold # Free /\ hold \in Holds /\ hold.calls # <<>> /\ hold' = [hold EXCEPT !.calls = Tail(@)]
  BY DEF Call, TypeInv
<1>2. hold.calls \in Seq(Nat \X Events) BY <1>1 DEF Holds
<1>3. /\ Tail(hold.calls) \in Seq(Nat \X Events) /\ Head(hold.calls) \in Nat \X Events
      /\ DOMAIN Tail(hold.calls) = 1..(Len(hold.calls) - 1)
      /\ \A i \in 1..(Len(hold.calls) - 1) : Tail(hold.calls)[i] = hold.calls[i + 1]
      /\ Head(hold.calls) = hold.calls[1] /\ Len(hold.calls) \in Nat \ {0}
      /\ DOMAIN hold.calls = 1..Len(hold.calls)
  <2> DEFINE s == hold.calls
             T == Nat \X Events
  <2>1. s \in Seq(T) /\ s # <<>> BY <1>1, <1>2
  <2> HIDE DEF s, T
  <2>2. /\ Tail(s) \in Seq(T) /\ Head(s) \in T
        /\ DOMAIN Tail(s) = 1..(Len(s) - 1)
        /\ \A i \in 1..(Len(s) - 1) : Tail(s)[i] = s[i + 1]
        /\ Head(s) = s[1] /\ Len(s) \in Nat \ {0}
        /\ DOMAIN s = 1..Len(s)
    BY <2>1
  <2> QED BY <2>2 DEF s, T
<1>4. /\ hold' \in Holds /\ hold'.calls = Tail(hold.calls)
      /\ hold'.g = hold.g /\ hold'.todo = hold.todo /\ hold'.evs = hold.evs
      /\ hold'.list = hold.list /\ hold'.pass = hold.pass /\ hold'.err = hold.err
  BY <1>1, <1>3 DEF Holds
<1> QED BY <1>1, <1>2, <1>3, <1>4

\* A call keeps them.
LEMMA CallType ==
    ASSUME TypeInv, HoldInv, Call
    PROVE  TypeInv'
<1>1. Fixed BY PlanFixed DEF Call
<1> DEFINE c == Head(hold.calls)
<1>2. /\ hold' \in Holds /\ c \in Nat \X Events /\ c[1] \in {0} \cup Streams
  <2>1. c = hold.calls[1] /\ 1 \in DOMAIN hold.calls BY CallIs
  <2> QED BY <2>1, CallIs DEF HoldInv
<1>3. stream' \in [Streams -> StreamRecs]
  <2>1. CASE stream' = stream BY <2>1 DEF TypeInv
  <2>2. CASE c[1] # 0 /\ stream' = [stream EXCEPT ![c[1]] = Framed(@, c[2])]
    <3>1. stream[c[1]] \in StreamRecs /\ c[2] \in Events /\ c[1] \in Streams
      BY <1>2, <2>2 DEF TypeInv
    <3>2. ASSUME NEW x \in StreamRecs, NEW e \in Events PROVE Framed(x, e) \in StreamRecs
      <4>1. Append(x.got, e) \in Seq(Events) /\ Append(x.frames, e) \in Seq(Events)
        BY DEF StreamRecs
      <4> QED BY <4>1 DEF StreamRecs, Framed
    <3>3. Framed(stream[c[1]], c[2]) \in StreamRecs BY <3>1, <3>2
    <3> QED BY <2>2, <3>1, <3>3 DEF TypeInv
  <2> QED BY <2>1, <2>2 DEF Call, Record
<1> QED BY <1>1, <1>2, <1>3 DEF Call, TypeInv, Fixed, agentVars, quarVars, askVars, goVars,
    runVars, questVars

\* What a call that fails leaves of the delivery: nothing to dispatch.
LEMMA FailIs ==
    ASSUME TypeInv, CallFails
    PROVE  /\ hold # Free /\ hold \in Holds /\ hold' \in Holds /\ hold'.g = hold.g
           /\ hold'.calls = <<>> /\ hold'.evs = <<>> /\ hold'.todo = <<>>
           /\ fails' \in Nat /\ fails' # 0 /\ hold'.pass = hold.pass
<1> DEFINE b == ~(hold.stage = "flush")
<1>1. hold # Free /\ hold \in Holds /\ fails' = fails + 1 /\ fails \in Nat
      /\ hold' = [hold EXCEPT !.calls = <<>>, !.evs = <<>>, !.todo = <<>>, !.err = b]
      /\ b \in BOOLEAN
  BY DEF CallFails, TypeInv
<1> HIDE DEF b
<1>2. <<>> \in Seq(Nat \X Events) /\ <<>> \in Seq(Events) /\ <<>> \in Seq(StageNames)
  OBVIOUS
<1>3. hold' \in Holds BY <1>1, <1>2 DEF Holds
<1>4. /\ hold'.g = hold.g /\ hold'.calls = <<>> /\ hold'.evs = <<>> /\ hold'.todo = <<>>
      /\ hold'.pass = hold.pass
  BY <1>1 DEF Holds
<1> QED BY <1>1, <1>3, <1>4

\* A call that fails keeps the types.
LEMMA FailType == ASSUME TypeInv, CallFails PROVE TypeInv'
<1>1. Fixed BY PlanFixed DEF CallFails
<1>2. hold' \in Holds /\ fails' \in Nat BY FailIs
<1>3. queuedErr' \in BOOLEAN BY DEF CallFails, TypeInv
<1> QED BY <1>1, <1>2, <1>3 DEF CallFails, TypeInv, Fixed, quarVars, askVars, goVars,
    runVars, questVars, streamVars

\* A dispatch, of the next of a list or the first of a stage.
Dispatched(e) ==
    Dispatches(e) /\ (NextInList(e) \/ \E m \in Nat : FirstOfStage(e, m))

\* A question's event that is dispatched is its asker's, which has then no
\* other to dispatch.
LEMMA AskersEvent ==
    ASSUME TypeInv, HoldInv, DueInv, NEW e \in Events, Dispatched(e)
    PROVE  /\ e.k \notin {"queued", "added"} => e = due[hold.g] /\ hold'.evs = <<>>
           /\ e.k \notin {"queued", "added"} =>
                 /\ \E i \in DOMAIN hold.todo : hold.todo[i] = "event"
                 /\ \A i \in DOMAIN hold'.todo : hold'.todo[i] # "event"
           /\ e.k \in {"question", "closed"} =>
                 /\ e.n \in Asks /\ hold.g = Asker(e.n) /\ e = Ev(e.k, e.n)
                 /\ due[Asker(e.n)] = e /\ Pending(e.n, e.k)
<1>1. hold \in Holds /\ hold # Free /\ hold.g \in Goroutines /\ hold.todo \in Seq(StageNames)
  BY PlanIs DEF Dispatched, Dispatches, Holds
<1>2. CASE e.k \in {"queued", "added"} BY <1>2
<1>3. CASE e.k \notin {"queued", "added"}
  <2>1. PICK m \in Nat : FirstOfStage(e, m)
    BY <1>3 DEF Dispatched, NextInList
  <2>2. hold.todo[m] = "event" /\ e = due[hold.g] /\ hold'.evs = <<>> /\ m \in DOMAIN hold.todo
    <3>1. hold.todo[m] \in {"reports", "flush"} => e.k = "queued"
      BY <2>1 DEF FirstOfStage, Ev
    <3>2. hold.todo[m] = "quarantine" => e.k = "added"
      BY <2>1 DEF FirstOfStage, Ev
    <3> QED BY <1>3, <2>1, <3>1, <3>2 DEF FirstOfStage
  <2>3. ASSUME NEW i \in DOMAIN hold'.todo PROVE hold'.todo[i] # "event"
    <3> DEFINE n == m + i
    <3>1. i \in 1..(Len(hold.todo) - m) /\ hold'.todo[i] = hold.todo[n]
      BY <2>1, <2>3 DEF FirstOfStage
    <3>2. n \in DOMAIN hold.todo /\ n # m BY <1>1, <2>2, <3>1
    <3> HIDE DEF n
    <3> QED BY <1>1, <2>2, <3>1, <3>2 DEF HoldInv
  <2>4. CASE e.k \in {"question", "closed"}
    <3>1. hold.g[1] = "ask" /\ e.n = hold.g[2]
      BY <1>1, <2>2, <2>4 DEF DueInv
    <3>2. e.n \in Asks /\ hold.g = Asker(e.n)
      BY <1>1, <3>1 DEF Goroutines, Asker
    <3>3. e = Ev(e.k, e.n) BY DEF Events, Ev
    <3> QED BY <1>1, <1>3, <2>2, <2>3, <3>2, <3>3 DEF Pending, ToDispatch
  <2> QED BY <1>3, <2>2, <2>3, <2>4
<1> QED BY <1>2, <1>3

\* A dispatch keeps them.
LEMMA DispatchType ==
    ASSUME TypeInv, HoldInv, DueInv, NEW e \in Events, Dispatched(e)
    PROVE  TypeInv'
<1>1. Fixed BY PlanFixed DEF Dispatched, Dispatches
<1>2. hold' \in Holds BY DEF Dispatched, Dispatches
<1>3. waiting' \in Seq(Asks)
  <2>1. waiting \in Seq(Asks) BY DEF TypeInv
  <2>2. CASE e.k = "question"
    <3>1. e.n \in Asks BY <2>2, AskersEvent
    <3>2. waiting' = Append(waiting, e.n)
      BY <2>2 DEF Dispatched, Dispatches
    <3> QED BY <2>1, <3>1, <3>2
  <2>3. CASE e.k = "closed"
    <3>1. waiting' = RemoveFirst(waiting, e.n)
      BY <2>3 DEF Dispatched, Dispatches
    <3> QED BY <2>1, <3>1, RemoveFirstIs
  <2> QED BY <2>1, <2>2, <2>3 DEF Dispatched, Dispatches
<1>4. replays' \in [Streams -> Seq(Asks)]
  <2>1. <<>> \in Seq(Asks) OBVIOUS
  <2>2. replays' = TakeReplays /\ replays \in [Streams -> Seq(Asks)]
    BY DEF Dispatched, Dispatches, TypeInv
  <2> QED BY <2>1, <2>2 DEF TakeReplays
<1>5. queued' \in Seq(Reqs) /\ quarantineOwed' \in Seq(Reqs)
  <2>1. <<>> \in Seq(Reqs) /\ queued \in Seq(Reqs) /\ quarantineOwed \in Seq(Reqs)
    BY DEF TypeInv
  <2>2. queued' \in {queued, <<>>} /\ quarantineOwed' \in {quarantineOwed, <<>>}
    BY DEF Dispatched, NextInList, FirstOfStage
  <2> QED BY <2>1, <2>2
<1>6. runEnded' \in BOOLEAN BY DEF Dispatched, Dispatches, TypeInv
<1> QED BY <1>1, <1>2, <1>3, <1>4, <1>5, <1>6 DEF Dispatched, Dispatches, TypeInv, Fixed,
    goVars, runVars, questVars, streamVars, pastVars

\* An item quarantined keeps them.
LEMMA QuarantineType ==
    ASSUME TypeInv, NEW r \in Reqs, QuarantineAdd(r) PROVE TypeInv'
<1>1. Fixed BY PlanFixed DEF QuarantineAdd
<1>2. /\ quarantineOwed' \in Seq(Reqs) /\ quarantine' \subseteq Reqs
      /\ at' \in [Goroutines -> Places]
  <2>1. quarantineOwed \in Seq(Reqs) /\ Append(quarantineOwed, r) \in Seq(Reqs)
    BY DEF TypeInv
  <2>2. quarantineOwed' \in Seq(Reqs) BY <2>1 DEF QuarantineAdd
  <2> QED BY <2>2 DEF QuarantineAdd, TypeInv, Places
<1> QED BY <1>1, <1>2 DEF QuarantineAdd, TypeInv, Fixed, agentVars, askVars, runVars,
    questVars, streamVars, pastVars

\* The run's own steps keep them.
LEMMA RunType == ASSUME TypeInv, RunNext PROVE TypeInv'
<1>1. Fixed
  BY PlanFixed DEF RunNext, RunAppends, RunDrains, RunStep, RunEnds, RunOver, RunLeavesAlone
<1>2. /\ Run \in Goroutines /\ Reqs \subseteq Nat /\ taken \in Seq(Reqs) /\ steer \in Seq(Reqs)
      /\ steps \in Nat /\ at \in [Goroutines -> Places] /\ due \in [Goroutines -> Events]
      /\ req \in [Reqs -> ReqRecs] /\ running \in BOOLEAN /\ <<>> \in Seq(Reqs)
  BY SMTT(60), PlanIs DEF TypeInv
<1>3. ASSUME NEW e \in Events, Raise(Run, e)
      PROVE  at' \in [Goroutines -> Places] /\ due' \in [Goroutines -> Events]
  BY <1>2, <1>3 DEF Raise, Places
<1>4. /\ at' \in [Goroutines -> Places] /\ due' \in [Goroutines -> Events]
      /\ taken' \in Seq(Reqs) /\ steer' \in Seq(Reqs) /\ steps' \in Nat
      /\ running' \in BOOLEAN /\ req' \in [Reqs -> ReqRecs]
  <2>1. CASE RunAppends
    <3>1. taken # <<>> BY <2>1 DEF RunAppends
    <3>2. Head(taken) \in Reqs /\ Tail(taken) \in Seq(Reqs)
      BY <1>2, <3>1
    <3>3. Ev("item", Head(taken)) \in Events
      BY <1>2, <3>2 DEF Ev, Events, EventKinds
    <3> QED BY <1>2, <1>3, <2>1, <3>2, <3>3 DEF RunAppends
  <2>2. CASE RunDrains BY <1>2, <2>2 DEF RunDrains
  <2>3. CASE RunStep
    <3>1. Ev("step", steps + 1) \in Events
      BY <1>2 DEF Ev, Events, EventKinds
    <3> QED BY <1>2, <1>3, <2>3, <3>1 DEF RunStep
  <2>4. CASE RunEnds
    <3>1. Ev("end", 0) \in Events BY DEF Ev, Events, EventKinds
    <3> QED BY <1>2, <1>3, <2>4, <3>1 DEF RunEnds
  <2>5. CASE RunOver
    <3>1. NoEvent \in Events BY DEF NoEvent, Ev, Events, EventKinds
    <3>2. at' \in [Goroutines -> Places] /\ due' \in [Goroutines -> Events]
      BY <1>2, <2>5, <3>1 DEF RunOver, Places
    <3>3. \A r \in Reqs : req[r] \in ReqRecs /\
             [req[r] EXCEPT !.spc = "written",
                            !.resp = IF aborted THEN "aborted" ELSE "end"] \in ReqRecs
      BY <1>2 DEF ReqRecs, HandlerPlaces, Words
    <3>4. req' \in [Reqs -> ReqRecs] BY <2>5, <3>3 DEF RunOver
    <3> QED BY <1>2, <2>5, <3>2, <3>4 DEF RunOver, runVars
  <2> QED BY <2>1, <2>2, <2>3, <2>4, <2>5 DEF RunNext
<1>5. UNCHANGED <<plan, runEnded, queued, queuedErr, quarVars, askVars, hold,
                  err, passes, questVars, streamVars, pastVars>>
  BY DEF RunNext, RunAppends, RunDrains, RunStep, RunEnds, RunOver, RunLeavesAlone
<1> QED BY <1>1, <1>4, <1>5 DEF TypeInv, Fixed, quarVars, askVars, questVars, streamVars,
    pastVars

\* An asking call's steps keep them.
LEMMA AskType ==
    ASSUME TypeInv, NEW q \in Asks, Ask(q) \/ AskNext(q) PROVE TypeInv'
<1>1. Fixed
  BY PlanFixed DEF Ask, AskNext, Asked, Answered, ContextDone, GiveUp, AskReturns,
      AskLeavesAlone
<1>2. /\ Asker(q) \in Goroutines /\ Asks \subseteq Nat
      /\ at \in [Goroutines -> Places] /\ due \in [Goroutines -> Events]
      /\ asks \subseteq Asks /\ result \in [Asks -> {"none", "gone", "answered"}]
  BY PlanIs DEF TypeInv
<1>3. ASSUME NEW e \in Events, Raise(Asker(q), e)
      PROVE  at' \in [Goroutines -> Places] /\ due' \in [Goroutines -> Events]
  BY <1>2, <1>3 DEF Raise, Places
<1>4. Ev("question", q) \in Events /\ Ev("closed", q) \in Events
  BY <1>2 DEF Ev, Events, EventKinds
<1>5. /\ at' \in [Goroutines -> Places] /\ due' \in [Goroutines -> Events]
      /\ asks' \subseteq Asks /\ result' \in [Asks -> {"none", "gone", "answered"}]
      /\ UNCHANGED <<reply, cancelled>>
  <2>1. CASE Ask(q) BY <1>2, <1>3, <1>4, <2>1 DEF Ask, Places
  <2>2. CASE Asked(q) \/ ContextDone(q) \/ AskReturns(q)
    BY <1>2, <2>2 DEF Asked, ContextDone, AskReturns, Places, questVars
  <2>3. CASE Answered(q) BY <1>2, <1>3, <1>4, <2>3 DEF Answered
  <2>4. CASE GiveUp(q) BY <1>2, <1>3, <1>4, <2>4 DEF GiveUp, GivenUp
  <2> QED BY <2>1, <2>2, <2>3, <2>4 DEF AskNext
<1>6. AskLeavesAlone
  BY DEF Ask, AskNext, Asked, Answered, ContextDone, GiveUp, AskReturns
<1> QED BY <1>1, <1>5, <1>6 DEF TypeInv, Fixed, AskLeavesAlone, agentVars, quarVars, runVars,
    streamVars, pastVars

\* The requests that change what the invariants look at.
LEMMA RequestType ==
    ASSUME TypeInv, NEW r \in Reqs,
           \/ Prompt(r) \/ Queue(r) \/ AcceptInside(r)
           \/ \E q \in Asks : Reply(r, q)
    PROVE  TypeInv'
<1>1. /\ Run \in Goroutines /\ <<"report", r>> \in Goroutines
      /\ at \in [Goroutines -> Places] /\ due \in [Goroutines -> Events]
      /\ req \in [Reqs -> ReqRecs] /\ steer \in Seq(Reqs) /\ queued \in Seq(Reqs)
      /\ err \in [Goroutines -> BOOLEAN] /\ running \in BOOLEAN /\ queuedErr \in BOOLEAN
      /\ asks \subseteq Asks /\ reply \in [Asks -> {0} \cup Reqs]
  BY PlanIs DEF TypeInv
<1>a. Append(steer, r) \in Seq(Reqs) /\ Append(queued, r) \in Seq(Reqs)
  BY <1>1
<1>b. req' \in [Reqs -> ReqRecs]
  <2>1. \E spc \in HandlerPlaces, word \in Words : Answers(r, spc, word)
    BY DEF Prompt, Queue, AcceptInside, Reply, HandlerPlaces, Words
  <2> QED BY <1>1, <2>1, AnswersType
<1>2. UNCHANGED <<plan, runEnded, quarVars, waiting, replays, subs, hold,
                  passes, runVars, result, streamVars, reported, told,
                  losses, fails>>
  BY DEF Prompt, Queue, AcceptInside, Reply, Arrives
<1>3. Fixed BY <1>2, PlanFixed
<1>4. /\ at' \in [Goroutines -> Places] /\ due' \in [Goroutines -> Events]
      /\ req' \in [Reqs -> ReqRecs] /\ steer' \in Seq(Reqs) /\ queued' \in Seq(Reqs)
      /\ err' \in [Goroutines -> BOOLEAN] /\ running' \in BOOLEAN /\ queuedErr' \in BOOLEAN
      /\ asks' \subseteq Asks /\ reply' \in [Asks -> {0} \cup Reqs]
      /\ UNCHANGED cancelled
  <2>1. CASE Prompt(r)
    <3>1. Ev("start", 0) \in Events BY DEF Ev, Events, EventKinds
    <3> QED BY <1>1, <1>b, <2>1, <3>1 DEF Prompt, Raise, Places
  <2>2. CASE Queue(r)
    <3>1. Enqueue(r) BY <2>2 DEF Queue
    <3> QED BY <1>1, <1>a, <1>b, <3>1 DEF Enqueue, Places
  <2>3. CASE AcceptInside(r) BY <1>1, <1>a, <1>b, <2>3 DEF AcceptInside
  <2>4. CASE \E q \in Asks : Reply(r, q)
    <3>1. PICK q \in Asks : Reply(r, q) BY <2>4
    <3>2. asks' \subseteq Asks /\ reply' \in [Asks -> {0} \cup Reqs]
      BY <1>1, <3>1 DEF Reply, TakeReply
    <3> QED BY <1>1, <1>b, <3>1, <3>2 DEF Reply
  <2> QED BY <2>1, <2>2, <2>3, <2>4
<1> QED BY <1>2, <1>3, <1>4 DEF TypeInv, Fixed, quarVars, runVars, streamVars

\* A sequence over a set is one over a larger set.
LEMMA Widened == ASSUME NEW S, NEW T, S \subseteq T, NEW x \in Seq(S) PROVE x \in Seq(T)
<1>1. Len(x) \in Nat /\ x \in [1..Len(x) -> S] OBVIOUS
<1>2. x \in [1..Len(x) -> T] BY <1>1
<1> QED BY <1>1, <1>2

\* A stream that subscribes keeps them.
LEMMA ConnectType == ASSUME TypeInv, Connect PROVE TypeInv'
<1> DEFINE s == opened + 1
<1>1. Fixed BY PlanFixed DEF Connect, StreamLeavesAlone
<1>2. s \in Streams /\ opened \in Nat /\ opened' = s /\ s <= plan.connects
  BY SMTT(60), PlanIs DEF Connect, TypeInv, Streams
<1>3. subs' \in Seq(0..s)
  <2>1. subs \in Seq(0..opened) BY DEF TypeInv
  <2>2. 0..opened \subseteq 0..s /\ s \in 0..s BY <1>2
  <2>3. subs \in Seq(0..s) BY <2>1, <2>2, Widened
  <2>4. subs' = Append(subs, s) BY DEF Connect, Subscribe
  <2> QED BY <2>2, <2>3, <2>4
<1>4. /\ stream' \in [Streams -> StreamRecs] /\ replays' \in [Streams -> Seq(Asks)]
      /\ at' \in [Goroutines -> Places]
  <2> DEFINE x == [stream[s] EXCEPT !.h = "ready"]
  <2>1. stream' = [stream EXCEPT ![s] = x] /\ replays' = [replays EXCEPT ![s] = waiting]
    BY DEF Connect, Subscribe
  <2>2. x \in StreamRecs BY ZenonT(60), <1>2 DEF TypeInv, StreamRecs
  <2>3. <<"replay", s>> \in Goroutines BY <1>2, PlanIs
  <2>4. at' \in [Goroutines -> Places]
    BY <2>3 DEF Connect, Subscribe, TypeInv, Places
  <2> HIDE DEF x, s
  <2> QED BY <1>2, <2>1, <2>2, <2>4 DEF TypeInv
<1>5. seen' \in Seq(Events) /\ cur' \in {0} \cup Streams
  BY <1>2 DEF Connect
<1> HIDE DEF s
<1> QED BY SMTT(60), <1>1, <1>2, <1>3, <1>4, <1>5 DEF Connect, TypeInv, Fixed, StreamLeavesAlone,
    agentVars, quarVars, runVars, questVars

\* A stream that leaves keeps them.
LEMMA UnsubscribeType == ASSUME TypeInv, NEW s \in Streams, Unsubscribe(s) PROVE TypeInv'
<1>1. Fixed BY PlanFixed DEF Unsubscribe, StreamLeavesAlone
<1>2. subs' \in Seq(0..opened)
  <2>1. subs \in Seq(0..opened) BY DEF TypeInv
  <2>2. subs' = RemoveFirst(subs, s) BY DEF Unsubscribe
  <2> QED BY <2>1, <2>2, RemoveFirstIs
<1>3. /\ stream' \in [Streams -> StreamRecs] /\ replays' \in [Streams -> Seq(Asks)]
  <2> DEFINE x == [stream[s] EXCEPT !.h = "ended", !.frames = <<>>]
  <2>1. stream' = [stream EXCEPT ![s] = x] /\ replays' = [replays EXCEPT ![s] = <<>>]
    BY DEF Unsubscribe
  <2>2. x \in StreamRecs /\ <<>> \in Seq(Asks)
    <3>1. stream[s] \in StreamRecs /\ <<>> \in Seq(Events)
      BY DEF TypeInv
    <3>2. x \in StreamRecs BY <3>1 DEF StreamRecs
    <3> QED BY <3>2
  <2> HIDE DEF x
  <2> QED BY <2>1, <2>2 DEF TypeInv
<1> QED BY <1>1, <1>2, <1>3 DEF Unsubscribe, TypeInv, Fixed, StreamLeavesAlone, agentVars,
    quarVars, runVars, questVars

-----------------------------------------------------------------------------
(* The barrier, step by step.                                              *)

\* A step that leaves the barrier alone.
LEMMA HoldKept ==
    ASSUME TypeInv, HoldInv, Fixed, hold' = hold,
           \A g \in Goroutines : at'[g] = "hold" <=> at[g] = "hold",
           \A r \in Reqs : req'[r].spc = "none" =>
                req[r].spc = "none" /\ at'[<<"report", r>>] = at[<<"report", r>>],
           \A s \in Streams : s > opened' =>
                s > opened /\ at'[<<"replay", s>>] = at[<<"replay", s>>],
           running' <=> at'[Run] # "none"
    PROVE  HoldInv'
<1>1. hold # Free => hold.g \in Goroutines BY DEF TypeInv, Holds
<1> QED BY <1>1 DEF HoldInv, Fixed

\* A step that takes the barrier.
LEMMA HoldTaken ==
    ASSUME TypeInv, HoldInv, Fixed, NEW g \in Goroutines, hold = Free, hold' \in Holds,
           hold'.g = g, at[g] # "none", at' = [at EXCEPT ![g] = "hold"],
           hold'.evs = <<>>, UNCHANGED <<req, opened, running>>,
           \A i \in DOMAIN hold'.calls : hold'.calls[i][1] \in {0} \cup Streams,
           \A i, j \in DOMAIN hold'.todo :
                hold'.todo[i] = "event" /\ hold'.todo[j] = "event" => i = j
    PROVE  HoldInv'
<1>1. /\ hold' # Free /\ at \in [Goroutines -> Places] /\ Run \in Goroutines
      /\ \A r \in Reqs : <<"report", r>> \in Goroutines
      /\ \A s \in Streams : <<"replay", s>> \in Goroutines
  BY PlanIs DEF TypeInv
<1>2. \A h \in Goroutines : at'[h] = IF h = g THEN "hold" ELSE at[h]
  BY <1>1
<1>3. \A h \in Goroutines : at'[h] = "hold" => h = g BY <1>2 DEF HoldInv
<1>4. \A h \in Goroutines : at'[h] = "none" <=> at[h] = "none" BY <1>2
<1>5. (hold' # Free => at'[hold'.g] = "hold")
      /\ \A h \in Goroutines : at'[h] = "hold" => hold' # Free /\ hold'.g = h
  BY <1>1, <1>2, <1>3
<1>6. /\ \A r \in Reqs : req'[r].spc = "none" => at'[<<"report", r>>] = "none"
      /\ \A s \in Streams : s > opened' => at'[<<"replay", s>>] = "none"
      /\ running' <=> at'[Run] # "none"
  BY <1>1, <1>4 DEF HoldInv
<1>7. \A i \in DOMAIN hold'.evs : hold'.evs[i].k \in {"queued", "added"}
  OBVIOUS
<1> QED BY <1>5, <1>6, <1>7 DEF HoldInv, Fixed

\* The stages of a pass of unlockEmit.
LEMMA PassStages ==
    ASSUME NEW p \in BOOLEAN
    PROVE  LET todo == <<"quarantine">> \o (IF p THEN <<"flush">> ELSE <<>>) IN
           todo \in Seq(StageNames) /\ \A i \in DOMAIN todo : todo[i] # "event"
<1> DEFINE a == <<"quarantine">>
           b == IF p THEN <<"flush">> ELSE <<>>
<1>1. a \in Seq(StageNames) /\ \A i \in DOMAIN a : a[i] # "event"
  BY DEF StageNames
<1>2. b \in Seq(StageNames) /\ \A i \in DOMAIN b : b[i] # "event"
  <2>1. CASE p BY <2>1 DEF StageNames
  <2>2. CASE ~p BY <2>2
  <2> QED BY <2>1, <2>2
<1> HIDE DEF a, b
<1>3. /\ a \o b \in Seq(StageNames)
      /\ \A i \in DOMAIN a : (a \o b)[i] = a[i]
      /\ \A i \in DOMAIN (a \o b) :
            \/ i \in DOMAIN a
            \/ i - Len(a) \in DOMAIN b /\ (a \o b)[i] = b[i - Len(a)]
  BY <1>1, <1>2, Joined
<1>4. \A i \in DOMAIN (a \o b) : (a \o b)[i] # "event"
  BY <1>1, <1>2, <1>3
<1> QED BY <1>3, <1>4 DEF a, b

\* The barrier is taken, or passed by, by one goroutine.
LEMMA TakeHold ==
    ASSUME TypeInv, HoldInv,
           \/ \E g \in Goroutines : Enter(g) \/ UnlockEmit(g)
           \/ \E r \in Reqs : ReportQueued(r) \/ QuarantineReport(r)
    PROVE  HoldInv'
<1>1. Fixed /\ UNCHANGED <<req, opened, running>>
  BY PlanFixed DEF Enter, UnlockEmit, ReportQueued, QuarantineReport, streamVars, agentVars
<1>2. at \in [Goroutines -> Places] /\ Run \in Goroutines
      /\ \A r \in Reqs : <<"report", r>> \in Goroutines /\ <<"quarantine", r>> \in Goroutines
      /\ \A s \in Streams : <<"replay", s>> \in Goroutines
  BY PlanIs DEF TypeInv
\* It finds the barrier held, or nothing to do.
<1>3. ASSUME NEW g \in Goroutines, NEW x \in {"recheck", "back"}, hold' = hold,
             at[g] \in {"enter", "recheck", "accepted", "owed"}, at' = [at EXCEPT ![g] = x]
      PROVE  HoldInv'
  <2>1. \A h \in Goroutines : at'[h] = IF h = g THEN x ELSE at[h]
    BY <1>2, <1>3
  <2>2. \A h \in Goroutines : (at'[h] = "hold" <=> at[h] = "hold")
                              /\ (at'[h] = "none" <=> at[h] = "none")
    BY <1>3, <2>1
  <2>3. \A r \in Reqs : req'[r].spc = "none" => at'[<<"report", r>>] = at[<<"report", r>>]
    BY <1>1, <1>2, <2>2 DEF HoldInv
  <2>4. \A s \in Streams : s > opened' => at'[<<"replay", s>>] = at[<<"replay", s>>]
    <3> SUFFICES ASSUME NEW s \in Streams, s > opened'
                 PROVE  at'[<<"replay", s>>] = at[<<"replay", s>>]
      OBVIOUS
    <3>1. s > opened BY <1>1
    <3>2. at[<<"replay", s>>] = "none" BY <3>1 DEF HoldInv
    <3>3. <<"replay", s>> \in Goroutines BY PlanIs
    <3> QED BY <2>2, <3>2, <3>3
  <2>5. running' <=> at'[Run] # "none" BY <1>1, <1>2, <2>2 DEF HoldInv
  <2> QED BY <1>1, <1>3, <2>2, <2>3, <2>4, <2>5, HoldKept
<1>4. ASSUME NEW g \in Goroutines, NEW todo \in Seq(StageNames), NEW pass \in BOOLEAN,
             hold = Free, hold' = Held(g, todo, pass), at[g] # "none",
             at' = [at EXCEPT ![g] = "hold"],
             \A i, j \in DOMAIN todo : todo[i] = "event" /\ todo[j] = "event" => i = j
      PROVE  HoldInv'
  <2>1. /\ hold' \in Holds /\ hold'.g = g /\ hold'.todo = todo /\ hold'.evs = <<>>
        /\ hold'.calls = <<>>
    BY <1>4, HeldIs
  <2>2. \A i \in DOMAIN hold'.calls : hold'.calls[i][1] \in {0} \cup Streams
    BY <2>1
  <2> QED BY <1>1, <1>4, <2>1, <2>2, HoldTaken
<1>5. ASSUME NEW g \in Goroutines, Enter(g) PROVE HoldInv'
  <2>1. CASE queuedErr /\ due[g].k # "end" BY <1>3, <1>5, <2>1 DEF Enter
  <2>2. CASE ~(queuedErr /\ due[g].k # "end")
    <3> DEFINE d == DeliverStages(due[g])
    <3>1. d \in Seq(StageNames) /\ \A i \in DOMAIN d : d[i] = "event" <=> i = 2
      BY StagesAre
    <3>2. hold = Free /\ hold' = Held(g, d, FALSE) /\ at[g] = "enter" /\ at' = [at EXCEPT ![g] = "hold"]
      BY <1>5, <2>2 DEF Enter
    <3> HIDE DEF d
    <3>3. \A i, j \in DOMAIN d : d[i] = "event" /\ d[j] = "event" => i = j
      BY <3>1
    <3>4. at[g] # "none" BY <3>2
    <3> QED BY <1>4, <3>1, <3>2, <3>3, <3>4
  <2> QED BY <2>1, <2>2
<1>6. ASSUME NEW g \in Goroutines, UnlockEmit(g) PROVE HoldInv'
  <2> DEFINE owed == (quarantineOwed # <<>> \/ PassOwed(g)) /\ hold = Free
             todo == <<"quarantine">> \o (IF PassOwed(g) THEN <<"flush">> ELSE <<>>)
  <2>1. CASE ~owed BY <1>3, <1>6, <2>1 DEF UnlockEmit
  <2>2. CASE owed
    <3>1. todo \in Seq(StageNames) /\ \A i \in DOMAIN todo : todo[i] # "event"
      BY PassStages
    <3>2. hold = Free /\ hold' = Held(g, todo, TRUE) /\ at[g] = "recheck" /\ at' = [at EXCEPT ![g] = "hold"]
      BY <1>6, <2>2 DEF UnlockEmit
    <3> HIDE DEF todo
    <3>3. at[g] # "none" /\ \A i, j \in DOMAIN todo : todo[i] = "event" /\ todo[j] = "event" => i = j
      BY <3>1, <3>2
    <3> QED BY <1>4, <3>1, <3>2, <3>3
  <2> QED BY <2>1, <2>2
<1>7. ASSUME NEW r \in Reqs, ReportQueued(r) PROVE HoldInv'
  <2> DEFINE g == <<"report", r>>
  <2>1. CASE QueuedOwed /\ hold = Free
    <3> DEFINE todo == <<"flush">>
    <3>1. todo \in Seq(StageNames) /\ \A i \in DOMAIN todo : todo[i] # "event"
      BY DEF StageNames
    <3>2. hold' = Held(g, todo, FALSE) /\ at[g] = "accepted" /\ at' = [at EXCEPT ![g] = "hold"]
      BY <1>7, <2>1 DEF ReportQueued
    <3> HIDE DEF todo, g
    <3>3. g \in Goroutines BY <1>2 DEF g
    <3> QED BY <1>4, <2>1, <3>1, <3>2, <3>3
  <2>2. CASE ~(QueuedOwed /\ hold = Free)
    BY <1>2, <1>3, <1>7, <2>2 DEF ReportQueued
  <2> QED BY <2>1, <2>2
<1>8. ASSUME NEW r \in Reqs, QuarantineReport(r) PROVE HoldInv'
  <2> DEFINE g == <<"quarantine", r>>
  <2>1. CASE hold = Free
    <3> DEFINE todo == <<"quarantine">>
    <3>1. todo \in Seq(StageNames) /\ \A i \in DOMAIN todo : todo[i] # "event"
      BY DEF StageNames
    <3>2. hold' = Held(g, todo, FALSE) /\ at[g] = "owed" /\ at' = [at EXCEPT ![g] = "hold"]
      BY <1>8, <2>1 DEF QuarantineReport
    <3> HIDE DEF todo, g
    <3>3. g \in Goroutines BY <1>2 DEF g
    <3> QED BY <1>4, <2>1, <3>1, <3>2, <3>3
  <2>2. CASE hold # Free BY <1>2, <1>3, <1>8, <2>2 DEF QuarantineReport
  <2> QED BY <2>1, <2>2
<1> QED BY <1>5, <1>6, <1>7, <1>8

\* flushReplay takes it.
LEMMA FlushHold ==
    ASSUME TypeInv, HoldInv, NEW s \in Streams, FlushReplay(s) PROVE HoldInv'
<1> DEFINE g == <<"replay", s>>
<1>1. Fixed /\ UNCHANGED <<req, opened, running>>
  BY PlanFixed DEF FlushReplay, streamVars, agentVars
<1>2. g \in Goroutines /\ at[g] = "enter" /\ at' = [at EXCEPT ![g] = "hold"]
  BY PlanIs DEF FlushReplay
<1>3. /\ hold = Free /\ hold' \in Holds /\ hold'.g = g
      /\ hold'.todo = <<>> /\ hold'.evs = <<>>
      /\ DOMAIN hold'.calls = DOMAIN replays[s]
      /\ \A i \in DOMAIN replays[s] : hold'.calls[i] = <<s, Ev("question", replays[s][i])>>
  BY FlushIs
<1>4. \A i \in DOMAIN hold'.calls : hold'.calls[i][1] \in {0} \cup Streams
  BY <1>3
<1>5. \A i, j \in DOMAIN hold'.todo : hold'.todo[i] = "event" /\ hold'.todo[j] = "event" => i = j
  BY <1>3
<1> HIDE DEF g
<1> QED BY <1>1, <1>2, <1>3, <1>4, <1>5, HoldTaken

\* The holder alone lets the barrier go.
LEMMA LeaveHold == ASSUME TypeInv, HoldInv, Leave PROVE HoldInv'
<1> DEFINE g == hold.g
           x == IF hold.pass /\ hold.err THEN "back" ELSE "recheck"
<1>1. Fixed /\ UNCHANGED <<req, opened, running>>
  BY PlanFixed DEF Leave, streamVars, agentVars
<1>2. /\ g \in Goroutines /\ at[g] = "hold" /\ at' = [at EXCEPT ![g] = x] /\ hold' = Free
      /\ at \in [Goroutines -> Places] /\ hold # Free
  BY DEF Leave, TypeInv, Holds, HoldInv
<1>3. x \in {"back", "recheck"} OBVIOUS
<1> HIDE DEF x
<1>4. \A h \in Goroutines : at'[h] = IF h = g THEN x ELSE at[h] BY <1>2
<1>5. \A h \in Goroutines : at'[h] # "hold" /\ (at'[h] = "none" <=> at[h] = "none")
  BY <1>2, <1>3, <1>4 DEF HoldInv
<1>6. Run \in Goroutines
      /\ \A r \in Reqs : <<"report", r>> \in Goroutines
      /\ \A s \in Streams : <<"replay", s>> \in Goroutines
  BY PlanIs
<1>7. /\ \A r \in Reqs : req'[r].spc = "none" => at'[<<"report", r>>] = "none"
      /\ \A s \in Streams : s > opened' => at'[<<"replay", s>>] = "none"
      /\ running' <=> at'[Run] # "none"
  <2>1. ASSUME NEW r \in Reqs, req'[r].spc = "none" PROVE at'[<<"report", r>>] = "none"
    <3>1. at[<<"report", r>>] = "none" /\ <<"report", r>> \in Goroutines
      BY <1>1, <1>6, <2>1 DEF HoldInv
    <3> QED BY <1>5, <3>1
  <2>2. ASSUME NEW s \in Streams, s > opened' PROVE at'[<<"replay", s>>] = "none"
    <3>0. s > opened BY <1>1, <2>2
    <3>1. at[<<"replay", s>>] = "none" BY <3>0 DEF HoldInv
    <3>2. <<"replay", s>> \in Goroutines BY PlanIs
    <3> QED BY <1>5, <3>1, <3>2
  <2>3. running' <=> at'[Run] # "none" BY <1>1, <1>5, <1>6 DEF HoldInv
  <2> QED BY <2>1, <2>2, <2>3
<1>8. (hold' # Free => at'[hold'.g] = "hold")
      /\ \A h \in Goroutines : at'[h] = "hold" => hold' # Free /\ hold'.g = h
  BY <1>2, <1>5
<1>9. hold' = Free BY <1>2
<1> HIDE DEF g
<1> QED BY <1>1, <1>7, <1>8, <1>9 DEF HoldInv, Fixed

\* What the holder does under the barrier.
LEMMA HolderHold ==
    ASSUME TypeInv, HoldInv, Fixed, hold \in Holds, hold' \in Holds, hold'.g = hold.g,
           UNCHANGED <<req, opened, running, at>>,
           \A i \in DOMAIN hold'.evs : hold'.evs[i].k \in {"queued", "added"},
           \A i \in DOMAIN hold'.calls : hold'.calls[i][1] \in {0} \cup Streams,
           \A i, j \in DOMAIN hold'.todo :
                hold'.todo[i] = "event" /\ hold'.todo[j] = "event" => i = j
    PROVE  HoldInv'
<1>1. hold # Free /\ hold' # Free BY PlanIs
<1>2. (hold' # Free => at'[hold'.g] = "hold")
      /\ \A h \in Goroutines : at'[h] = "hold" => hold' # Free /\ hold'.g = h
  BY <1>1 DEF HoldInv
<1>3. /\ \A r \in Reqs : req'[r].spc = "none" => at'[<<"report", r>>] = "none"
      /\ \A s \in Streams : s > opened' => at'[<<"replay", s>>] = "none"
      /\ running' <=> at'[Run] # "none"
  BY DEF HoldInv
<1> QED BY <1>2, <1>3 DEF HoldInv, Fixed

\* A call, failing or not, is the holder's.
LEMMA CallHold == ASSUME TypeInv, HoldInv, Call \/ CallFails PROVE HoldInv'
<1>1. Fixed /\ UNCHANGED <<req, opened, running, at>>
  BY PlanFixed DEF Call, CallFails, streamVars, agentVars, goVars
<1>2. hold # Free /\ hold \in Holds /\ hold' \in Holds /\ hold'.g = hold.g
  BY CallIs, FailIs
<1>3. /\ \A i \in DOMAIN hold'.evs : hold'.evs[i].k \in {"queued", "added"}
      /\ \A i, j \in DOMAIN hold'.todo :
                hold'.todo[i] = "event" /\ hold'.todo[j] = "event" => i = j
  <2>1. CASE Call
    <3>1. hold'.evs = hold.evs /\ hold'.todo = hold.todo BY <2>1, CallIs
    <3> QED BY <1>2, <3>1 DEF HoldInv
  <2>2. CASE CallFails
    <3>1. hold'.evs = <<>> /\ hold'.todo = <<>> BY <2>2, FailIs
    <3> QED BY <3>1
  <2> QED BY <2>1, <2>2
<1>4. ASSUME NEW i \in DOMAIN hold'.calls PROVE hold'.calls[i][1] \in {0} \cup Streams
  <2>1. CASE Call
    <3>1. /\ DOMAIN hold'.calls = 1..(Len(hold.calls) - 1)
          /\ hold'.calls[i] = hold.calls[i + 1]
          /\ DOMAIN hold.calls = 1..Len(hold.calls) /\ Len(hold.calls) \in Nat \ {0}
      BY <1>4, <2>1, CallIs
    <3> DEFINE k == i + 1
    <3>2. k \in DOMAIN hold.calls /\ hold'.calls[i] = hold.calls[k]
      BY <3>1
    <3> HIDE DEF k
    <3> QED BY <1>2, <3>2 DEF HoldInv
  <2>2. CASE CallFails BY <1>4, <2>2, FailIs
  <2> QED BY <2>1, <2>2
<1> QED BY <1>1, <1>2, <1>3, <1>4, HolderHold

\* A dispatch is the holder's, and dispatches its event once.
LEMMA DispatchHold ==
    ASSUME TypeInv, HoldInv, NEW e \in Events, Dispatched(e) PROVE HoldInv'
<1>1. /\ Fixed /\ UNCHANGED <<req, opened, running, at>>
      /\ hold \in Holds /\ hold' \in Holds /\ hold'.g = hold.g
  BY PlanFixed DEF Dispatched, Dispatches, streamVars, goVars
<1>2. hold.todo \in Seq(StageNames) /\ hold # Free
  BY <1>1, PlanIs DEF Holds
<1>3. \A i \in DOMAIN hold'.evs : hold'.evs[i].k \in {"queued", "added"}
  <2> SUFFICES ASSUME NEW i \in DOMAIN hold'.evs PROVE hold'.evs[i].k \in {"queued", "added"}
    OBVIOUS
  <2>1. In(hold'.evs[i], hold'.evs) BY DEF In
  <2>2. CASE NextInList(e)
    <3>1. In(hold'.evs[i], hold.evs) BY <2>1, <2>2 DEF NextInList
    <3> QED BY <1>2, <3>1 DEF In, HoldInv
  <2>3. CASE \E m \in Nat : FirstOfStage(e, m)
    <3>1. PICK m \in Nat : FirstOfStage(e, m) BY <2>3
    <3> QED BY <2>1, <3>1 DEF FirstOfStage, Ev
  <2> QED BY <2>2, <2>3 DEF Dispatched
<1>4. \A i \in DOMAIN hold'.calls : hold'.calls[i][1] \in {0} \cup Streams
  <2> SUFFICES ASSUME NEW i \in DOMAIN hold'.calls PROVE hold'.calls[i][1] \in {0} \cup Streams
    OBVIOUS
  <2>1. PICK j \in DOMAIN subs : hold'.calls[i][1] = subs[j]
    BY DEF Dispatched, Dispatches, CallsOf
  <2>2. subs[j] \in 0..opened /\ opened <= plan.connects /\ opened \in Nat
    BY DEF TypeInv
  <2>3. plan.connects \in Nat BY PlanIs
  <2> QED BY <2>1, <2>2, <2>3 DEF Streams
<1>5. ASSUME NEW i \in DOMAIN hold'.todo, NEW j \in DOMAIN hold'.todo,
             hold'.todo[i] = "event", hold'.todo[j] = "event"
      PROVE  i = j
  <2>1. CASE NextInList(e) BY <1>2, <1>5, <2>1 DEF NextInList, HoldInv
  <2>2. CASE \E m \in Nat : FirstOfStage(e, m)
    <3>1. PICK m \in Nat : FirstOfStage(e, m) BY <2>2
    <3> DEFINE a == m + i
               b == m + j
    <3>2. /\ m \in DOMAIN hold.todo /\ i \in 1..(Len(hold.todo) - m)
          /\ j \in 1..(Len(hold.todo) - m)
          /\ hold'.todo[i] = hold.todo[a] /\ hold'.todo[j] = hold.todo[b]
      BY <1>5, <3>1 DEF FirstOfStage
    <3>3. a \in DOMAIN hold.todo /\ b \in DOMAIN hold.todo /\ (a = b => i = j)
      BY SMTT(60), <1>2, <3>2
    <3> HIDE DEF a, b
    <3> QED BY <1>2, <1>5, <3>2, <3>3 DEF HoldInv
  <2> QED BY <2>1, <2>2 DEF Dispatched
<1> QED BY <1>1, <1>3, <1>4, <1>5, HolderHold

\* A step that moves goroutine g alone, which does not hold the barrier, and
\* was started.
LEMMA MoveHold ==
    ASSUME TypeInv, HoldInv, Fixed, UNCHANGED <<hold, opened>>, NEW g \in Goroutines,
           NEW x \in Places, at' = [at EXCEPT ![g] = x], at[g] # "hold", x # "hold",
           g[1] \notin {"report", "replay"},
           \A r \in Reqs : req'[r].spc = "none" => req[r].spc = "none",
           running' <=> at'[Run] # "none"
    PROVE  HoldInv'
<1>1. at \in [Goroutines -> Places] BY DEF TypeInv
<1>2. \A h \in Goroutines : at'[h] = IF h = g THEN x ELSE at[h] BY <1>1
<1>3. \A h \in Goroutines : at'[h] = "hold" <=> at[h] = "hold" BY <1>2
<1>4. ASSUME NEW r \in Reqs PROVE at'[<<"report", r>>] = at[<<"report", r>>]
  <2>1. <<"report", r>> \in Goroutines BY PlanIs
  <2>2. <<"report", r>>[1] = "report" OBVIOUS
  <2> QED BY <1>2, <2>1, <2>2
<1>5. ASSUME NEW s \in Streams PROVE at'[<<"replay", s>>] = at[<<"replay", s>>]
  <2>1. <<"replay", s>> \in Goroutines /\ <<"replay", s>> # g BY PlanIs
  <2> QED BY <1>2, <2>1
<1> QED BY <1>3, <1>4, <1>5, HoldKept

\* A quiet step leaves the barrier.
LEMMA QuietHold == ASSUME TypeInv, HoldInv, Quiet PROVE HoldInv'
<1>1. Fixed BY PlanFixed DEF Quiet
<1>2. UNCHANGED <<hold, at, opened, running>>
      /\ \A r \in Reqs : req'[r].spc = "none" => req[r].spc = "none"
  BY DEF Quiet
<1>3. running' <=> at'[Run] # "none" BY <1>2 DEF HoldInv
<1> QED BY <1>1, <1>2, <1>3, HoldKept

\* An item quarantined leaves the barrier.
LEMMA QuarantineHold ==
    ASSUME TypeInv, HoldInv, NEW r \in Reqs, QuarantineAdd(r) PROVE HoldInv'
<1> DEFINE g == <<"quarantine", r>>
           x == IF ReportsItself THEN "owed" ELSE "back"
<1>1. Fixed /\ UNCHANGED <<hold, opened, req, running>>
  BY PlanFixed DEF QuarantineAdd, streamVars, agentVars
<1>2. g \in Goroutines /\ g # Run /\ Run \in Goroutines /\ g[1] \notin {"report", "replay"}
  BY PlanIs DEF Run
<1>3. at' = [at EXCEPT ![g] = x] /\ at[g] = "none" /\ at \in [Goroutines -> Places]
  BY DEF QuarantineAdd, TypeInv
<1>4. x \in Places /\ x # "hold" BY DEF Places
<1> HIDE DEF x, g
<1>5. at'[Run] = at[Run] BY <1>2, <1>3
<1>6. running' <=> at'[Run] # "none" BY <1>1, <1>5 DEF HoldInv
<1> QED BY <1>1, <1>2, <1>3, <1>4, <1>6, MoveHold

\* The run steps while it does not hold the barrier, and ends once.
LEMMA RunHold == ASSUME TypeInv, HoldInv, RunNext PROVE HoldInv'
<1>1. Fixed /\ UNCHANGED <<hold, opened>>
  BY PlanFixed DEF RunNext, RunAppends, RunDrains, RunStep, RunEnds, RunOver, RunLeavesAlone,
      streamVars
<1>2. Run \in Goroutines /\ Run[1] = "run" /\ at[Run] = "back" /\ at \in [Goroutines -> Places]
  BY PlanIs DEF Run, RunNext, RunAppends, RunDrains, RunStep, RunEnds, RunOver, Between, TypeInv
<1>3. running BY <1>2 DEF HoldInv
<1>4. \A r \in Reqs : req'[r].spc = "none" => req[r].spc = "none"
  <2>1. CASE RunOver
    <3> SUFFICES ASSUME NEW r \in Reqs, req'[r].spc = "none" PROVE req[r].spc = "none"
      OBVIOUS
    <3>1. req[r] \in ReqRecs BY DEF TypeInv
    <3>2. req'[r] = req[r] \/ req'[r] = [req[r] EXCEPT !.spc = "written",
                                      !.resp = IF aborted THEN "aborted" ELSE "end"]
      BY <2>1 DEF RunOver
    <3> QED BY <3>1, <3>2 DEF ReqRecs
  <2>2. CASE ~RunOver
    BY <2>2 DEF RunNext, RunAppends, RunDrains, RunStep, RunEnds
  <2> QED BY <2>1, <2>2
<1>5. CASE RunDrains
  <2>1. at' = at /\ running' = running BY <1>5 DEF RunDrains
  <2> QED BY <1>1, <1>2, <1>3, <1>4, <2>1, HoldKept
<1>6. CASE RunAppends \/ RunStep \/ RunEnds
  <2>1. at' = [at EXCEPT ![Run] = "enter"] /\ running' = running
    BY <1>6 DEF RunAppends, RunStep, RunEnds, Raise
  <2>2. "enter" \in Places /\ at'[Run] = "enter"
    BY <1>2, <2>1 DEF Places
  <2> QED BY <1>1, <1>2, <1>3, <1>4, <2>1, <2>2, MoveHold
<1>7. CASE RunOver
  <2>1. at' = [at EXCEPT ![Run] = "none"] /\ running' = FALSE
    BY <1>7 DEF RunOver
  <2>2. "none" \in Places /\ at'[Run] = "none" BY <1>2, <2>1 DEF Places
  <2> QED BY <1>1, <1>2, <1>4, <2>1, <2>2, MoveHold
<1> QED BY <1>5, <1>6, <1>7 DEF RunNext

\* An asking call steps while it does not hold it.
LEMMA AskHold ==
    ASSUME TypeInv, HoldInv, NEW q \in Asks, Ask(q) \/ AskNext(q) PROVE HoldInv'
<1> DEFINE g == Asker(q)
<1>1. Fixed /\ UNCHANGED <<hold, opened, req, running>>
  BY PlanFixed DEF Ask, AskNext, Asked, Answered, ContextDone, GiveUp, AskReturns,
      AskLeavesAlone, streamVars, agentVars
<1>2. /\ g \in Goroutines /\ g # Run /\ Run \in Goroutines /\ g[1] \notin {"report", "replay"}
      /\ at \in [Goroutines -> Places]
  BY PlanIs DEF Run, Asker, TypeInv
<1>3. at[g] # "hold" /\ \E x \in Places : x # "hold" /\ at' = [at EXCEPT ![g] = x]
  BY DEF Ask, AskNext, Asked, Answered, ContextDone, GiveUp, AskReturns, Raise, Places
<1> HIDE DEF g
<1>4. at'[Run] = at[Run] BY <1>2, <1>3
<1>5. running' <=> at'[Run] # "none" BY <1>1, <1>4 DEF HoldInv
<1> QED BY <1>1, <1>2, <1>3, <1>5, MoveHold

\* A request starts the goroutine of its report, or the run, and no other.
LEMMA RequestHold ==
    ASSUME TypeInv, HoldInv, NEW r \in Reqs,
           \/ Prompt(r) \/ Queue(r) \/ AcceptInside(r)
           \/ \E q \in Asks : Reply(r, q)
    PROVE  HoldInv'
<1>1. Fixed /\ UNCHANGED <<hold, opened>> /\ req[r].spc = "none"
  BY PlanFixed DEF Prompt, Queue, AcceptInside, Reply, Arrives, streamVars
<1>2. /\ Run \in Goroutines /\ <<"report", r>> \in Goroutines /\ <<"report", r>> # Run
      /\ at \in [Goroutines -> Places] /\ req \in [Reqs -> ReqRecs]
  BY PlanIs DEF Run, TypeInv
<1>3. req'[r].spc # "none" /\ \A t \in Reqs : t # r => req'[t] = req[t]
  <2>1. PICK spc \in HandlerPlaces, word \in Words : spc # "none" /\ Answers(r, spc, word)
    BY DEF Prompt, Queue, AcceptInside, Reply, HandlerPlaces, Words
  <2> DEFINE x == [req[r] EXCEPT !.spc = spc, !.resp = word]
  <2>2. req' = [req EXCEPT ![r] = x] BY <2>1 DEF Answers
  <2>3. x.spc = spc BY <1>2 DEF ReqRecs
  <2> HIDE DEF x
  <2> QED BY <1>2, <2>1, <2>2, <2>3
<1>4. CASE at' = at /\ running' = running
  <2>1. running' <=> at'[Run] # "none" BY <1>4 DEF HoldInv
  <2> QED BY <1>1, <1>3, <1>4, <2>1, HoldKept
<1>5. CASE at' = [at EXCEPT ![<<"report", r>>] = "accepted"] /\ running' = running
  <2> DEFINE g == <<"report", r>>
  <2>1. at[g] = "none" BY <1>1 DEF HoldInv
  <2>2. \A h \in Goroutines : at'[h] = IF h = g THEN "accepted" ELSE at[h]
    BY <1>2, <1>5
  <2>3. \A h \in Goroutines : at'[h] = "hold" <=> at[h] = "hold"
    BY <2>1, <2>2
  <2>4. running' <=> at'[Run] # "none" BY <1>2, <1>5, <2>2 DEF HoldInv
  <2>5. ASSUME NEW t \in Reqs, req'[t].spc = "none"
        PROVE  req[t].spc = "none" /\ at'[<<"report", t>>] = at[<<"report", t>>]
    <3>1. t # r /\ req'[t] = req[t] BY <1>3, <2>5
    <3>2. <<"report", t>> \in Goroutines /\ <<"report", t>> # g
      BY <3>1, PlanIs
    <3> QED BY <2>2, <2>5, <3>1, <3>2
  <2>6. ASSUME NEW s \in Streams PROVE at'[<<"replay", s>>] = at[<<"replay", s>>]
    <3>1. <<"replay", s>> \in Goroutines /\ <<"replay", s>> # g
      BY PlanIs
    <3> QED BY <2>2, <3>1
  <2> HIDE DEF g
  <2> QED BY <1>1, <2>3, <2>4, <2>5, <2>6, HoldKept
<1>6. CASE Prompt(r) /\ ~running
  <2>1. at' = [at EXCEPT ![Run] = "enter"] /\ running' = TRUE
    BY <1>6 DEF Prompt, Raise
  <2>2. "enter" \in Places /\ at'[Run] = "enter" /\ at[Run] = "none" /\ Run[1] = "run"
    BY <1>2, <1>6, <2>1 DEF Places, HoldInv, Run
  <2> QED BY <1>1, <1>2, <1>3, <2>1, <2>2, MoveHold
<1> QED BY <1>4, <1>5, <1>6 DEF Prompt, Queue, AcceptInside, Reply, Enqueue

\* A stream that subscribes starts the goroutine of its replay.
LEMMA SubsHold ==
    ASSUME TypeInv, HoldInv, Connect \/ \E s \in Streams : Unsubscribe(s) PROVE HoldInv'
<1>1. Fixed /\ UNCHANGED <<hold, req, running>>
  BY PlanFixed DEF Connect, Unsubscribe, StreamLeavesAlone, agentVars
<1>2. CASE Connect
  <2> DEFINE s == opened + 1
             g == <<"replay", s>>
  <2>1. /\ opened' = s /\ opened \in Nat /\ s \in Streams
        /\ at' = at \/ at' = [at EXCEPT ![g] = "enter"]
        /\ at \in [Goroutines -> Places]
    <3>1. opened' = s /\ (at' = at \/ at' = [at EXCEPT ![g] = "enter"]) /\ opened < plan.connects
      BY <1>2 DEF Connect, Subscribe
    <3>2. opened \in Nat /\ plan.connects \in Nat /\ at \in [Goroutines -> Places]
      BY PlanIs DEF TypeInv
    <3>3. s \in Streams BY <3>1, <3>2 DEF Streams
    <3> QED BY <3>1, <3>2, <3>3
  <2>2. at[g] = "none" /\ g \in Goroutines /\ g # Run /\ Run \in Goroutines
    <3>1. s > opened BY <2>1
    <3>2. at[g] = "none" BY <2>1, <3>1 DEF HoldInv
    <3>3. g \in Goroutines /\ Run \in Goroutines BY <2>1, PlanIs
    <3> QED BY <3>2, <3>3 DEF Run
  <2>3. \A h \in Goroutines : h # g => at'[h] = at[h] BY <2>1
  <2>4. at'[g] # "hold" BY <2>1, <2>2
  <2>5. \A h \in Goroutines : at'[h] = "hold" <=> at[h] = "hold"
    BY <2>2, <2>3, <2>4
  <2>6. running' <=> at'[Run] # "none" BY <1>1, <2>2, <2>3 DEF HoldInv
  <2>7. ASSUME NEW r \in Reqs PROVE at'[<<"report", r>>] = at[<<"report", r>>]
    <3>1. <<"report", r>> \in Goroutines /\ <<"report", r>> # g
      BY PlanIs
    <3> QED BY <2>3, <3>1
  <2>8. ASSUME NEW t \in Streams, t > opened'
        PROVE  t > opened /\ at'[<<"replay", t>>] = at[<<"replay", t>>]
    <3>1. t \in Nat /\ t > s BY <2>1, <2>8, PlanIs
    <3>2. t > opened /\ t # s BY <2>1, <3>1
    <3>3. <<"replay", t>> \in Goroutines /\ <<"replay", t>> # g
      BY <3>2, PlanIs
    <3> QED BY <2>3, <3>2, <3>3
  <2> HIDE DEF s, g
  <2> QED BY <1>1, <2>5, <2>6, <2>7, <2>8, HoldKept
<1>3. CASE \E s \in Streams : Unsubscribe(s)
  <2>1. UNCHANGED <<at, opened>> BY <1>3 DEF Unsubscribe
  <2>2. running' <=> at'[Run] # "none" BY <1>1, <2>1 DEF HoldInv
  <2> QED BY <1>1, <2>1, <2>2, HoldKept
<1> QED BY <1>2, <1>3

\* Who raises which event.
LEMMA DueKept == ASSUME DueInv, Fixed, due' = due PROVE DueInv'
BY DEF DueInv, Fixed

\* A goroutine raises an event of its own kind.
LEMMA DueRaised ==
    ASSUME TypeInv, DueInv, Fixed, NEW g \in Goroutines, NEW e, due' = [due EXCEPT ![g] = e],
           e.k \in {"question", "closed"} => g[1] = "ask" /\ e.n = g[2],
           e.k \in {"item", "start", "end"} => g = Run
    PROVE  DueInv'
<1>1. \A h \in Goroutines : due'[h] = IF h = g THEN e ELSE due[h]
  BY DEF TypeInv
<1> QED BY <1>1 DEF DueInv, Fixed

\* The run and the asking calls raise their own events, and no others.
LEMMA RaiseDue ==
    ASSUME TypeInv, DueInv,
           \/ RunNext \/ \E q \in Asks : Ask(q) \/ AskNext(q)
           \/ \E r \in Reqs : \/ Prompt(r) \/ Queue(r)
                              \/ AcceptInside(r) \/ \E q \in Asks : Reply(r, q)
    PROVE  DueInv'
<1>1. Run \in Goroutines /\ \A q \in Asks : Asker(q) \in Goroutines
  BY PlanIs
<1>2. CASE RunNext
  <2>1. Fixed
    BY <1>2, PlanFixed DEF RunNext, RunAppends, RunDrains, RunStep, RunEnds, RunOver,
        RunLeavesAlone
  <2>2. due' = due \/ \E k \in {"item", "step", "end", "none"} : \E n : due' = [due EXCEPT ![Run] = Ev(k, n)]
    BY <1>2 DEF RunNext, RunAppends, RunDrains, RunStep, RunEnds, RunOver, Raise, NoEvent
  <2>3. ASSUME NEW k \in {"item", "step", "end", "none"}, NEW n, due' = [due EXCEPT ![Run] = Ev(k, n)]
        PROVE  DueInv'
    <3> DEFINE e == Ev(k, n)
    <3>1. e.k = k BY DEF Ev
    <3> HIDE DEF e
    <3>2. due' = [due EXCEPT ![Run] = e] BY <2>3 DEF e
    <3> QED BY <1>1, <2>1, <3>1, <3>2, DueRaised
  <2> QED BY <2>1, <2>2, <2>3, DueKept
<1>3. ASSUME NEW q \in Asks, Ask(q) \/ AskNext(q) PROVE DueInv'
  <2>1. Fixed
    BY <1>3, PlanFixed DEF Ask, AskNext, Asked, Answered, ContextDone, GiveUp, AskReturns,
        AskLeavesAlone
  <2>2. due' = due \/ \E k \in {"question", "closed"} : due' = [due EXCEPT ![Asker(q)] = Ev(k, q)]
    BY <1>3 DEF Ask, AskNext, Asked, Answered, ContextDone, GiveUp, AskReturns, Raise
  <2>3. ASSUME NEW k \in {"question", "closed"}, due' = [due EXCEPT ![Asker(q)] = Ev(k, q)]
        PROVE  DueInv'
    <3> DEFINE e == Ev(k, q)
               g == Asker(q)
    <3>1. e.k = k /\ e.n = q /\ g[1] = "ask" /\ g[2] = q /\ g \in Goroutines
      BY <1>1 DEF Ev, Asker
    <3> HIDE DEF e, g
    <3>2. due' = [due EXCEPT ![g] = e] BY <2>3 DEF e, g
    <3> QED BY <2>1, <3>1, <3>2, DueRaised
  <2> QED BY <2>1, <2>2, <2>3, DueKept
<1>4. ASSUME NEW r \in Reqs,
             \/ Prompt(r) \/ Queue(r)
             \/ AcceptInside(r) \/ \E q \in Asks : Reply(r, q)
      PROVE  DueInv'
  <2>1. Fixed
    BY <1>4, PlanFixed DEF Prompt, Queue, AcceptInside, Reply, Arrives
  <2>2. due' = due \/ due' = [due EXCEPT ![Run] = Ev("start", 0)]
    BY <1>4 DEF Prompt, Queue, AcceptInside, Reply, Enqueue, Raise
  <2>3. CASE due' = [due EXCEPT ![Run] = Ev("start", 0)]
    <3> DEFINE e == Ev("start", 0)
    <3>1. e.k = "start" BY DEF Ev
    <3> HIDE DEF e
    <3>2. due' = [due EXCEPT ![Run] = e] BY <2>3 DEF e
    <3> QED BY <1>1, <2>1, <3>1, <3>2, DueRaised
  <2> QED BY <2>1, <2>2, <2>3, DueKept
<1> QED BY <1>2, <1>3, <1>4

-----------------------------------------------------------------------------
(* Questions: what became of a reply.                                      *)

\* A step that is not the asking call's own, and takes no reply.
LEMMA AskKept ==
    ASSUME NEW q \in Asks, AskInv(q), due'[Asker(q)] = due[Asker(q)],
           q \in asks' <=> q \in asks, reply'[q] = reply[q], result'[q] = result[q],
           \/ at'[Asker(q)] = at[Asker(q)]
           \/ /\ at[Asker(q)] \in {"enter", "hold", "recheck"}
              /\ at'[Asker(q)] \in {"hold", "recheck", "back"}
    PROVE  AskInv(q)'
<1> DEFINE a == at[Asker(q)]
           b == at'[Asker(q)]
           d == due[Asker(q)]
<1>1. /\ b = "none" <=> a = "none"
      /\ b = "done" <=> a = "done"
      /\ b \in {"wait", "giveup"} => a = b
      /\ a = b \/ b \in {"hold", "recheck", "back"}
  OBVIOUS
<1>2. Asker(q)' = Asker(q) /\ due'[Asker(q)] = d BY DEF Asker
<1> QED BY <1>1, <1>2 DEF AskInv, NoEvent, Ev

\* The steps of the barrier, of the run and of the streams.
Others ==
    \/ Quiet \/ Call \/ CallFails \/ Leave \/ RunNext \/ Connect
    \/ \E e \in Events : Dispatched(e)
    \/ \E g \in Goroutines : Enter(g) \/ UnlockEmit(g)
    \/ \E r \in Reqs : \/ ReportQueued(r) \/ QuarantineReport(r) \/ QuarantineAdd(r)
                       \/ Prompt(r) \/ Queue(r)
                       \/ AcceptInside(r)
    \/ \E s \in Streams : FlushReplay(s) \/ Unsubscribe(s)

\* What they leave of an asking call.
LEMMA OthersLeave ==
    ASSUME TypeInv, HoldInv, NEW q \in Asks, Others
    PROVE  LET A == Asker(q) IN
           /\ UNCHANGED <<asks, reply, result>> /\ due'[A] = due[A]
           /\ \/ at'[A] = at[A]
              \/ at[A] \in {"enter", "hold", "recheck"} /\ at'[A] \in {"hold", "recheck", "back"}
<1> DEFINE A == Asker(q)
<1>1. /\ at \in [Goroutines -> Places] /\ due \in [Goroutines -> Events]
      /\ A \in Goroutines /\ A # Run
      /\ \A r \in Reqs : <<"report", r>> # A /\ <<"quarantine", r>> # A
      /\ \A s : <<"replay", s>> # A
  BY SMTT(60), PlanIs DEF TypeInv, Asker, Run
<1>2. UNCHANGED <<asks, reply, result>>
  BY ZenonT(60) DEF Others, Quiet, Call, CallFails, Leave, RunNext, RunAppends, RunDrains, RunStep,
      RunEnds, RunOver, RunLeavesAlone, Connect, StreamLeavesAlone, Dispatched, Dispatches,
      Enter, UnlockEmit, ReportQueued, QuarantineReport, QuarantineAdd, Prompt, Queue, AcceptInside, Enqueue, Arrives, FlushReplay, Unsubscribe, askVars,
      questVars
<1>3. due'[A] = due[A]
  <2>1. due' = due \/ \E e : due' = [due EXCEPT ![Run] = e]
    BY DEF Others, Quiet, Call, CallFails, Leave, RunNext, RunAppends, RunDrains, RunStep,
        RunEnds, RunOver, RunLeavesAlone, Connect, StreamLeavesAlone, Dispatched, Dispatches,
        Enter, UnlockEmit, ReportQueued, QuarantineReport, QuarantineAdd, Prompt, Queue, AcceptInside, Enqueue, Arrives, FlushReplay, Unsubscribe, goVars, Raise
  <2> QED BY SMTT(60), <1>1, <2>1
<1>4. \/ at'[A] = at[A]
      \/ at[A] \in {"enter", "hold", "recheck"} /\ at'[A] \in {"hold", "recheck", "back"}
  <2>1. CASE Leave
    <3>1. hold.g \in Goroutines /\ at[hold.g] = "hold"
      BY <2>1 DEF Leave, TypeInv, Holds, HoldInv
    <3>2. \E x \in {"recheck", "back"} : at' = [at EXCEPT ![hold.g] = x]
      BY <2>1 DEF Leave
    <3> QED BY <1>1, <3>1, <3>2
  <2>2. ASSUME NEW g \in Goroutines, Enter(g) \/ UnlockEmit(g) PROVE <1>4!:
    <3>1. at[g] \in {"enter", "recheck"}
          /\ \E x \in {"hold", "recheck", "back"} : at' = [at EXCEPT ![g] = x]
      BY <2>2 DEF Enter, UnlockEmit
    <3> QED BY <1>1, <3>1
  <2>3. CASE \/ Quiet \/ Call \/ CallFails \/ RunNext \/ Connect
             \/ \E e \in Events : Dispatched(e)
             \/ \E r \in Reqs : \/ ReportQueued(r) \/ QuarantineReport(r) \/ QuarantineAdd(r)
                                \/ Prompt(r) \/ Queue(r)
                                \/ AcceptInside(r)
             \/ \E s \in Streams : FlushReplay(s) \/ Unsubscribe(s)
    <3>1. at' = at \/ \E g, x : /\ at' = [at EXCEPT ![g] = x]
                                /\ \/ g = Run \/ \E s : g = <<"replay", s>>
                                   \/ \E r \in Reqs : g = <<"report", r>> \/ g = <<"quarantine", r>>
      <4>1. CASE Quiet \/ Call \/ CallFails \/ (\E e \in Events : Dispatched(e)) \/ \E s \in Streams : Unsubscribe(s)
        BY <4>1 DEF Quiet, Call, CallFails, Dispatched, Dispatches, Unsubscribe, goVars
      <4>2. CASE RunNext
        BY <4>2 DEF RunNext, RunAppends, RunDrains, RunStep, RunEnds, RunOver,
            RunLeavesAlone, Raise
      <4>3. CASE Connect
        <5> DEFINE n == opened + 1
        <5>1. at' = at \/ at' = [at EXCEPT ![<<"replay", n>>] = "enter"]
          BY <4>3 DEF Connect, Subscribe
        <5> HIDE DEF n
        <5> QED BY <5>1
      <4>a. CASE \E s \in Streams : FlushReplay(s)
        <5>1. PICK s \in Streams : FlushReplay(s) BY <4>a
        <5>2. at' = [at EXCEPT ![<<"replay", s>>] = "hold"]
          BY <5>1 DEF FlushReplay
        <5> QED BY <5>2
      <4>4. CASE \E r \in Reqs : \/ ReportQueued(r) \/ QuarantineReport(r) \/ QuarantineAdd(r)
        BY <4>4 DEF ReportQueued, QuarantineReport, QuarantineAdd
      <4>5. CASE \E r \in Reqs : \/ Prompt(r) \/ Queue(r)
                                 \/ AcceptInside(r)
        BY <4>5 DEF Prompt, Queue, AcceptInside, Enqueue, Raise
      <4> QED BY <2>3, <4>1, <4>2, <4>3, <4>4, <4>5, <4>a
    <3> QED BY <1>1, <3>1
  <2> QED BY <2>1, <2>2, <2>3 DEF Others
<1> QED BY <1>2, <1>3, <1>4

\* The steps of the barrier, the run and the streams keep where a question is.
LEMMA OthersAsk ==
    ASSUME TypeInv, HoldInv, NEW q \in Asks, AskInv(q), Others PROVE AskInv(q)'
BY OthersLeave, AskKept

\* A reply that is taken.
LEMMA ReplyAsk ==
    ASSUME TypeInv, NEW q \in Asks, AskInv(q), NEW p \in Asks, NEW r \in Reqs, Reply(r, p)
    PROVE  AskInv(q)'
<1>1. /\ reply \in [Asks -> {0} \cup Reqs] /\ r # 0
      /\ UNCHANGED <<at, due, result>> /\ TakeReply(r, p)
  BY PlanIs DEF Reply, Arrives, TypeInv
<1>2. CASE q = p /\ q \in asks
  <2>1. q \notin asks' /\ reply'[q] = r BY <1>1, <1>2 DEF TakeReply
  <2>2. due[Asker(q)] = Ev("question", q) /\ at[Asker(q)] # "done" /\ at[Asker(q)] # "none"
    BY <1>2 DEF AskInv
  <2>3. Ev("question", q) # Ev("closed", q) BY DEF Ev
  <2> QED BY <1>1, <2>1, <2>2, <2>3 DEF AskInv, Asker
<1>3. CASE ~(q = p /\ q \in asks)
  <2>1. (q \in asks' <=> q \in asks) /\ reply'[q] = reply[q]
    BY <1>1, <1>3 DEF TakeReply
  <2> QED BY <1>1, <2>1, AskKept
<1> QED BY <1>2, <1>3

\* The asking call's own steps.
LEMMA AskAsk ==
    ASSUME TypeInv, NEW q \in Asks, AskInv(q), NEW p \in Asks, Ask(p) \/ AskNext(p)
    PROVE  AskInv(q)'
<1> DEFINE A == Asker(q)
<1>1. /\ at \in [Goroutines -> Places] /\ due \in [Goroutines -> Events]
      /\ A \in Goroutines /\ Asker(p) \in Goroutines /\ A' = A
      /\ result \in [Asks -> {"none", "gone", "answered"}]
  BY PlanIs DEF TypeInv, Asker
<1>2. reply' = reply
  BY DEF Ask, AskNext, Asked, Answered, ContextDone, GiveUp, AskReturns, questVars
<1>3. CASE p # q
  <2>1. Asker(p) # A BY <1>3 DEF Asker
  <2>2. /\ \E x : at' = [at EXCEPT ![Asker(p)] = x]
        /\ due' = due \/ \E e : due' = [due EXCEPT ![Asker(p)] = e]
        /\ result' = result \/ \E z : result' = [result EXCEPT ![p] = z]
        /\ asks' = asks \/ asks' = asks \cup {p} \/ asks' = asks \ {p}
    BY DEF Ask, AskNext, Asked, Answered, ContextDone, GiveUp, AskReturns, questVars, Raise
  <2>3. at'[A] = at[A] BY <1>1, <2>1, <2>2
  <2>4. due'[A] = due[A] BY <1>1, <2>1, <2>2
  <2>5. result'[q] = result[q] BY <1>1, <1>3, <2>2
  <2>6. q \in asks' <=> q \in asks BY <1>3, <2>2
  <2> QED BY <1>2, <2>3, <2>4, <2>5, <2>6, AskKept
<1>4. Ev("question", q) # Ev("closed", q) /\ Ev("question", q) # NoEvent
      /\ Ev("closed", q) # NoEvent /\ Ev("question", q).k = "question" /\ Ev("closed", q).k = "closed"
  BY DEF Ev, NoEvent
<1>5. CASE p = q /\ Ask(q)
  <2>1. at[A] = "none" /\ q \notin asks /\ reply[q] = 0 /\ due[A] = NoEvent
    BY <1>5 DEF Ask, AskInv
  <2>2. CASE cancelled[q]
    <3>1. at'[A] = "done" /\ result'[q] = "gone" /\ asks' = asks /\ due' = due
      BY <1>1, <1>5, <2>2 DEF Ask
    <3> QED BY <1>1, <1>2, <1>4, <2>1, <3>1 DEF AskInv
  <2>3. CASE ~cancelled[q]
    <3>1. at'[A] = "enter" /\ due'[A] = Ev("question", q) /\ q \in asks'
      BY <1>1, <1>5, <2>3 DEF Ask, Raise
    <3> QED BY <1>1, <1>2, <1>4, <2>1, <3>1 DEF AskInv
  <2> QED BY <2>2, <2>3
<1>6. CASE p = q /\ (Asked(q) \/ ContextDone(q))
  <2>1. /\ at[A] \in {"back", "wait"} /\ (due[A].k = "question" \/ at[A] = "wait")
        /\ at'[A] \in {"wait", "giveup"} /\ asks' = asks /\ due' = due /\ result' = result
    BY <1>1, <1>6 DEF Asked, ContextDone, questVars
  <2>2. at[A] \in {"back", "wait"} /\ due[A] = Ev("question", q)
    BY <1>4, <1>6, <2>1 DEF AskInv, Asked, ContextDone
  <2> QED BY <1>1, <1>2, <1>4, <2>1, <2>2 DEF AskInv
<1>7. CASE p = q /\ Answered(q)
  <2>1. at[A] = "wait" /\ reply[q] # 0 BY <1>7 DEF Answered
  <2>2. /\ result'[q] = "answered" /\ at'[A] = "enter" /\ due'[A] = Ev("closed", q) /\ asks' = asks
    BY <1>1, <1>7 DEF Answered, Raise
  <2>3. q \notin asks BY <2>1 DEF AskInv
  <2> QED BY <1>1, <1>2, <1>4, <2>1, <2>2, <2>3 DEF AskInv
<1>8. CASE p = q /\ GiveUp(q)
  <2>1. at[A] = "giveup" BY <1>8 DEF GiveUp
  <2>2. /\ result'[q] = GivenUp(q) /\ at'[A] = "enter" /\ due'[A] = Ev("closed", q)
        /\ q \notin asks'
    BY <1>1, <1>8 DEF GiveUp, Raise
  <2>3. GivenUp(q) = "answered" <=> reply[q] # 0
    BY <2>1 DEF AskInv, GivenUp
  <2> QED BY <1>1, <1>2, <1>4, <2>1, <2>2, <2>3 DEF AskInv
<1>9. CASE p = q /\ AskReturns(q)
  <2>1. /\ at[A] = "back" /\ due[A].k = "closed"
        /\ at'[A] = "done" /\ asks' = asks /\ due' = due /\ result' = result
    BY <1>1, <1>9 DEF AskReturns, questVars
  <2>2. due[A] = Ev("closed", q) BY <1>4, <2>1 DEF AskInv
  <2> QED BY <1>1, <1>2, <1>4, <2>1, <2>2 DEF AskInv
<1> QED BY <1>3, <1>5, <1>6, <1>7, <1>8, <1>9 DEF AskNext

-----------------------------------------------------------------------------
(* Questions: who is shown what.                                           *)

\* The calls to come are those there were, or none; none is dropped unless a
\* subscriber failed.
CallsKept ==
    /\ hold' # Free => \/ hold'.calls = <<>>
                       \/ hold # Free /\ hold'.calls = hold.calls
    /\ fails' = 0 =>
          /\ fails = 0
          /\ hold # Free => \/ hold.calls = <<>>
                            \/ hold' # Free /\ hold'.calls = hold.calls

\* A step that neither dispatches nor calls nor subscribes.
Frozen ==
    /\ UNCHANGED <<waiting, replays, subs, opened>>
    /\ \A s \in Streams : stream'[s].got = stream[s].got
    /\ CallsKept
    /\ \A q \in Asks :
          /\ at'[Asker(q)] = "none" \/ Pending(q, "question")' =>
                at[Asker(q)] = "none" \/ Pending(q, "question")
          /\ due'[Asker(q)] # Ev("closed", q) \/ Pending(q, "closed")' =>
                due[Asker(q)] # Ev("closed", q) \/ Pending(q, "closed")

\* What each stream gets is then as it was.
LEMMA FrozenCalls ==
    ASSUME TypeInv, Frozen, NEW s \in Streams, NEW e
    PROVE  /\ Calls(s, e)' = Calls(s, e) /\ Coming(s, e)' \subseteq Coming(s, e)
           /\ (fails' = 0 => Coming(s, e)' = Coming(s, e))
           /\ Gets(s, e)' => Gets(s, e)
           /\ (fails' = 0 => (Gets(s, e)' <=> Gets(s, e)))
<1>1. Calls(s, e)' = Calls(s, e) BY DEF Frozen, Calls
<1>2. Coming(s, e)' \subseteq Coming(s, e) /\ (fails' = 0 => Coming(s, e)' = Coming(s, e))
  <2>1. CallsKept BY DEF Frozen
  <2>2. CASE hold' = Free
    <3>1. Coming(s, e)' = {} BY <2>2 DEF Coming
    <3>2. ASSUME fails' = 0 PROVE Coming(s, e) = {}
      <4>1. CASE hold = Free BY <4>1 DEF Coming
      <4>2. CASE hold # Free
        <5>1. hold.calls = <<>> BY <2>1, <2>2, <3>2, <4>2 DEF CallsKept
        <5> QED BY <5>1 DEF Coming
      <4> QED BY <4>1, <4>2
    <3> QED BY <3>1, <3>2
  <2>3. CASE hold' # Free
    <3>1. Coming(s, e)' = {i \in DOMAIN hold'.calls : hold'.calls[i] = <<s, e>>}
      BY <2>3 DEF Coming
    <3>2. CASE hold # Free /\ hold'.calls = hold.calls
      BY <3>1, <3>2 DEF Coming
    <3>3. CASE hold'.calls = <<>> /\ ~(hold # Free /\ hold'.calls = hold.calls)
      <4>1. Coming(s, e)' = {} BY <3>1, <3>3
      <4>2. ASSUME fails' = 0 PROVE Coming(s, e) = {}
        <5>1. hold = Free \/ hold.calls = <<>>
          BY <2>1, <3>3, <4>2 DEF CallsKept
        <5> QED BY <5>1 DEF Coming
      <4> QED BY <4>1, <4>2
    <3> QED BY <2>1, <2>3, <3>2, <3>3 DEF CallsKept
  <2> QED BY <2>2, <2>3
<1> QED BY <1>1, <1>2 DEF Gets

\* A step that leaves the calls, what waits and what is owed keeps how
\* often a question was shown.
LEMMA FrozenShown ==
    ASSUME TypeInv, Fixed, Frozen, NEW q \in Asks, ShownInv(q)
    PROVE  ShownInv(q)'
<1> DEFINE Q == Ev("question", q)
           C == Ev("closed", q)
<1>1. \A s \in Streams : \A e : /\ Calls(s, e)' = Calls(s, e)
                                /\ Coming(s, e)' \subseteq Coming(s, e)
                                /\ Gets(s, e)' => Gets(s, e)
  BY FrozenCalls
<1>2. UNCHANGED <<waiting, replays>> BY DEF Frozen
<1>3. /\ at'[Asker(q)] = "none" \/ Pending(q, "question")' =>
            at[Asker(q)] = "none" \/ Pending(q, "question")
      /\ due'[Asker(q)] # C \/ Pending(q, "closed")' =>
            due[Asker(q)] # C \/ Pending(q, "closed")
  BY DEF Frozen
<1>4. Asker(q)' = Asker(q) /\ Q' = Q /\ C' = C BY DEF Asker, Ev
<1> HIDE DEF Q, C
<1>5. /\ at[Asker(q)] = "none" \/ Pending(q, "question") =>
          /\ \A i \in DOMAIN waiting : waiting[i] # q
          /\ \A s \in Streams : ~Gets(s, Q)
      /\ due[Asker(q)] # C \/ Pending(q, "closed") => \A s \in Streams : ~Gets(s, C)
      /\ (\E i \in DOMAIN waiting : waiting[i] = q) => \A s \in Streams : ~Gets(s, C)
      /\ \A s \in Streams :
          /\ Once(Calls(s, Q), Calls(s, C)) /\ Once(Coming(s, Q), Coming(s, C))
          /\ Coming(s, Q) # {} => Calls(s, Q) = {} /\ Calls(s, C) = {}
          /\ (\E i \in DOMAIN replays[s] : replays[s][i] = q) =>
                /\ ~Gets(s, Q) /\ \E i \in DOMAIN waiting : waiting[i] = q
  BY DEF ShownInv, Q, C
<1>6. /\ at'[Asker(q)] = "none" \/ Pending(q, "question")' =>
          /\ \A i \in DOMAIN waiting' : waiting'[i] # q
          /\ \A s \in Streams : ~Gets(s, Q)'
      /\ due'[Asker(q)] # C \/ Pending(q, "closed")' => \A s \in Streams : ~Gets(s, C)'
      /\ (\E i \in DOMAIN waiting' : waiting'[i] = q) => \A s \in Streams : ~Gets(s, C)'
  BY <1>1, <1>2, <1>3, <1>5
<1>7. ASSUME NEW s \in Streams
      PROVE  /\ Once(Calls(s, Q), Calls(s, C))' /\ Once(Coming(s, Q), Coming(s, C))'
             /\ Coming(s, Q)' # {} => Calls(s, Q)' = {} /\ Calls(s, C)' = {}
             /\ (\E i \in DOMAIN replays'[s] : replays'[s][i] = q) =>
                   /\ ~Gets(s, Q)' /\ \E i \in DOMAIN waiting' : waiting'[i] = q
  <2>1. /\ Calls(s, Q)' = Calls(s, Q) /\ Calls(s, C)' = Calls(s, C)
        /\ Coming(s, Q)' \subseteq Coming(s, Q) /\ Coming(s, C)' \subseteq Coming(s, C)
        /\ Gets(s, Q)' => Gets(s, Q)
    BY <1>1
  <2>2. Once(Calls(s, Q), Calls(s, C))' /\ Once(Coming(s, Q), Coming(s, C))'
    BY <1>4, <1>5, <2>1 DEF Once
  <2> QED BY <1>2, <1>5, <2>1, <2>2
<1> QED BY <1>4, <1>6, <1>7 DEF ShownInv, Fixed, Q, C

\* It keeps to whom.
LEMMA FrozenServed ==
    ASSUME TypeInv, Fixed, Frozen, ServedInv PROVE ServedInv'
<1> SUFFICES ASSUME fails' = 0, NEW i \in DOMAIN waiting', NEW j \in DOMAIN subs', subs'[j] # 0
             PROVE  \/ Gets(subs[j], Ev("question", waiting[i]))'
                    \/ \E k \in DOMAIN replays'[subs'[j]] : replays'[subs'[j]][k] = waiting'[i]
  BY DEF ServedInv
<1>1. UNCHANGED <<waiting, replays, subs>> /\ fails = 0
  BY DEF Frozen, CallsKept
<1>2. subs[j] \in Streams
  <2>1. subs[j] \in 0..opened /\ opened <= plan.connects /\ opened \in Nat
    BY <1>1 DEF TypeInv
  <2>2. plan.connects \in Nat BY PlanIs
  <2> QED BY <1>1, <2>1, <2>2 DEF Streams
<1>3. Gets(subs[j], Ev("question", waiting[i])) \/
      \E k \in DOMAIN replays[subs[j]] : replays[subs[j]][k] = waiting[i]
  BY <1>1 DEF ServedInv
<1>4. ASSUME NEW s, NEW x, s \in Streams, s = subs[j], x = waiting[i], Gets(s, Ev("question", x))
      PROVE  Gets(subs[j], Ev("question", waiting[i]))'
  <2>1. Gets(s, Ev("question", x))' BY <1>4, FrozenCalls
  <2>2. subs'[j] = s /\ waiting'[i] = x BY <1>1, <1>4
  <2> QED BY <2>1, <2>2 DEF Gets, Calls, Coming, Ev
<1> QED BY <1>1, <1>2, <1>3, <1>4

\* It keeps who subscribes.
LEMMA FrozenSubs == ASSUME TypeInv, Fixed, Frozen, SubsInv PROVE SubsInv'
<1>1. UNCHANGED <<waiting, replays, subs, opened>>
      /\ \A s \in Streams : stream'[s].got = stream[s].got
  BY DEF Frozen
<1>2. ASSUME NEW s \in Streams, s > opened, hold' # Free, NEW i \in DOMAIN hold'.calls
      PROVE  hold'.calls[i][1] # s
  BY <1>2 DEF Frozen, CallsKept, SubsInv
<1> QED BY <1>1, <1>2 DEF SubsInv, Fixed

\* It keeps all that is known of the questions.
LEMMA FrozenQuestions ==
    ASSUME TypeInv, Fixed, Frozen, SubsInv, ServedInv, \A q \in Asks : ShownInv(q)
    PROVE  SubsInv' /\ ServedInv' /\ (\A q \in Asks : ShownInv(q))'
<1>1. \A q \in Asks : ShownInv(q)' BY FrozenShown
<1> QED BY <1>1, FrozenServed, FrozenSubs DEF Fixed

\* An asking call that is left where it is, or moves on with the barrier.
LEMMA StillFrozen ==
    ASSUME NEW q \in Asks, due'[Asker(q)] = due[Asker(q)],
           at'[Asker(q)] = "none" => at[Asker(q)] = "none",
           ToDispatch(Asker(q))' => ToDispatch(Asker(q))
    PROVE  /\ at'[Asker(q)] = "none" \/ Pending(q, "question")' =>
                 at[Asker(q)] = "none" \/ Pending(q, "question")
           /\ due'[Asker(q)] # Ev("closed", q) \/ Pending(q, "closed")' =>
                 due[Asker(q)] # Ev("closed", q) \/ Pending(q, "closed")
<1>1. Asker(q)' = Asker(q) BY DEF Asker
<1>2. \A k : Pending(q, k)' => Pending(q, k) BY <1>1 DEF Pending, Ev
<1> QED BY <1>2

\* The steps of others that neither dispatch nor call nor subscribe.
Aside ==
    \/ Quiet \/ CallFails \/ Leave \/ RunNext
    \/ \E g \in Goroutines : Enter(g) \/ UnlockEmit(g)
    \/ \E r \in Reqs : \/ ReportQueued(r) \/ QuarantineReport(r) \/ QuarantineAdd(r)
                       \/ Prompt(r) \/ Queue(r)
                       \/ AcceptInside(r)

\* What they make of the barrier.
LEMMA AsideHold ==
    ASSUME TypeInv, HoldInv, Aside
    PROVE  \/ hold' = hold /\ fails' = fails
           \/ hold' = Free /\ hold # Free /\ hold.calls = <<>> /\ fails' = fails
           \/ /\ hold' # Free /\ hold'.calls = <<>> /\ fails' # 0
              /\ \A i \in DOMAIN hold'.todo : hold'.todo[i] # "event"
           \/ /\ hold = Free /\ hold' # Free /\ hold'.calls = <<>> /\ fails' = fails
              /\ \/ at[hold'.g] = "enter"
                 \/ \A i \in DOMAIN hold'.todo : hold'.todo[i] # "event"
<1>1. CASE CallFails
  <2>1. hold' \in Holds /\ hold'.calls = <<>> /\ fails' # 0 /\ hold'.todo = <<>>
    BY <1>1, FailIs
  <2>2. hold' # Free BY <2>1, PlanIs
  <2> QED BY <2>1, <2>2
<1>2. CASE Leave BY <1>2 DEF Leave, pastVars
<1>a. ASSUME NEW g \in Goroutines, NEW todo \in Seq(StageNames), NEW pass \in BOOLEAN,
             hold' = Held(g, todo, pass)
      PROVE  hold' # Free /\ hold'.calls = <<>> /\ hold'.g = g /\ hold'.todo = todo
  <2>1. hold' \in Holds /\ hold'.calls = <<>> /\ hold'.g = g /\ hold'.todo = todo
    BY <1>a, HeldIs
  <2> QED BY <2>1, PlanIs
<1>3. ASSUME NEW g \in Goroutines, Enter(g)
      PROVE  \/ hold' = hold /\ fails' = fails
             \/ /\ hold = Free /\ hold' # Free /\ hold'.calls = <<>> /\ fails' = fails
                /\ at[hold'.g] = "enter"
  <2>1. DeliverStages(due[g]) \in Seq(StageNames) BY StagesAre
  <2>2. fails' = fails /\ at[g] = "enter" /\ hold = Free
        /\ (hold' = hold \/ hold' = Held(g, DeliverStages(due[g]), FALSE))
    BY <1>3 DEF Enter, pastVars
  <2> QED BY <1>a, <2>1, <2>2
<1>4. ASSUME NEW g \in Goroutines, UnlockEmit(g)
      PROVE  \/ hold' = hold /\ fails' = fails
             \/ /\ hold = Free /\ hold' # Free /\ hold'.calls = <<>> /\ fails' = fails
                /\ \A i \in DOMAIN hold'.todo : hold'.todo[i] # "event"
  <2> DEFINE p == PassOwed(g)
             todo == <<"quarantine">> \o (IF p THEN <<"flush">> ELSE <<>>)
  <2>1. todo \in Seq(StageNames) /\ \A i \in DOMAIN todo : todo[i] # "event"
    BY PassStages
  <2> HIDE DEF todo
  <2>2. fails' = fails /\ (hold' = hold \/ (hold = Free /\ hold' = Held(g, todo, TRUE)))
    <3>1. fails' = fails BY <1>4 DEF UnlockEmit, pastVars
    <3>2. CASE (quarantineOwed # <<>> \/ PassOwed(g)) /\ hold = Free
      <4>1. hold' = Held(g, todo, TRUE)
        BY <1>4, <3>2 DEF UnlockEmit, todo
      <4> QED BY <3>1, <3>2, <4>1
    <3>3. CASE ~((quarantineOwed # <<>> \/ PassOwed(g)) /\ hold = Free)
      <4>1. hold' = hold BY <1>4, <3>3 DEF UnlockEmit
      <4> QED BY <3>1, <4>1
    <3> QED BY <3>2, <3>3
  <2> QED BY <1>a, <2>1, <2>2
<1>5. ASSUME NEW r \in Reqs, ReportQueued(r) \/ QuarantineReport(r)
      PROVE  \/ hold' = hold /\ fails' = fails
             \/ /\ hold = Free /\ hold' # Free /\ hold'.calls = <<>> /\ fails' = fails
                /\ \A i \in DOMAIN hold'.todo : hold'.todo[i] # "event"
  <2> DEFINE f == <<"flush">>
             d == <<"quarantine">>
             g == <<"report", r>>
             h == <<"quarantine", r>>
  <2>1. /\ f \in Seq(StageNames) /\ \A i \in DOMAIN f : f[i] # "event"
        /\ d \in Seq(StageNames) /\ \A i \in DOMAIN d : d[i] # "event"
    BY DEF StageNames
  <2>2. g \in Goroutines /\ h \in Goroutines BY PlanIs
  <2>3. fails' = fails /\ \/ hold' = hold
                          \/ hold = Free /\ hold' = Held(g, f, FALSE)
                          \/ hold = Free /\ hold' = Held(h, d, FALSE)
    BY <1>5 DEF ReportQueued, QuarantineReport, pastVars
  <2> HIDE DEF f, d, g, h
  <2> QED BY <1>a, <2>1, <2>2, <2>3
<1>6. CASE Quiet BY <1>6 DEF Quiet
<1>7. CASE RunNext
  BY <1>7 DEF RunNext, RunAppends, RunDrains, RunStep, RunEnds, RunOver, RunLeavesAlone,
      pastVars
<1>8. ASSUME NEW r \in Reqs, \/ QuarantineAdd(r) \/ Prompt(r) \/ Queue(r) \/ AcceptInside(r)
      PROVE  hold' = hold /\ fails' = fails
  BY SMTT(60), <1>8 DEF QuarantineAdd, Prompt, Queue, AcceptInside, Arrives, pastVars
<1> QED BY <1>1, <1>2, <1>3, <1>4, <1>5, <1>6, <1>7, <1>8 DEF Aside

\* The steps aside from the questions are such.
LEMMA AsideFrozen == ASSUME TypeInv, HoldInv, Aside PROVE Frozen /\ Fixed
<1>1. Fixed
  BY ZenonT(60), PlanFixed DEF Aside, Quiet, CallFails, Leave, RunNext, RunAppends, RunDrains, RunStep,
      RunEnds, RunOver, RunLeavesAlone, Enter, UnlockEmit, ReportQueued, QuarantineReport,
      QuarantineAdd, Prompt, Queue, AcceptInside, Arrives
<1>2. UNCHANGED <<waiting, replays, subs, opened>>
      /\ \A s \in Streams : stream'[s].got = stream[s].got
  BY DEF Aside, Quiet, CallFails, Leave, RunNext, RunAppends, RunDrains, RunStep, RunEnds,
      RunOver, RunLeavesAlone, Enter, UnlockEmit, ReportQueued, QuarantineReport,
      QuarantineAdd, Prompt, Queue, AcceptInside, Enqueue, Arrives, askVars,
      streamVars
<1>3. CallsKept BY AsideHold DEF CallsKept
<1>4. ASSUME NEW q \in Asks
      PROVE  /\ due'[Asker(q)] = due[Asker(q)]
             /\ at'[Asker(q)] = "none" => at[Asker(q)] = "none"
             /\ ToDispatch(Asker(q))' => ToDispatch(Asker(q))
  <2> DEFINE A == Asker(q)
  <2>1. /\ due'[A] = due[A]
        /\ \/ at'[A] = at[A]
           \/ at[A] \in {"enter", "hold", "recheck"} /\ at'[A] \in {"hold", "recheck", "back"}
    BY OthersLeave DEF Others, Aside
  <2>2. Asker(q)' = A BY DEF Asker
  <2>3. ASSUME hold' # Free, hold'.g = A, NEW i \in DOMAIN hold'.todo, hold'.todo[i] = "event"
        PROVE  ToDispatch(A)
    <3> HIDE DEF A
    <3> QED BY <2>3, AsideHold DEF ToDispatch
  <2>4. ToDispatch(Asker(q))' => ToDispatch(Asker(q))
    <3>1. ASSUME at'[A] = "enter" PROVE at[A] = "enter" BY <2>1, <3>1
    <3> QED BY <2>2, <2>3, <3>1 DEF ToDispatch
  <2> QED BY <2>1, <2>4
<1>5. \A q \in Asks :
          /\ at'[Asker(q)] = "none" \/ Pending(q, "question")' =>
                at[Asker(q)] = "none" \/ Pending(q, "question")
          /\ due'[Asker(q)] # Ev("closed", q) \/ Pending(q, "closed")' =>
                due[Asker(q)] # Ev("closed", q) \/ Pending(q, "closed")
  BY <1>4, StillFrozen
<1> QED BY SMTT(60), <1>1, <1>2, <1>3, <1>5 DEF Frozen

\* So are an asking call's own, and the answers': they dispatch nothing.
LEMMA AskFrozen ==
    ASSUME TypeInv, HoldInv, \A q \in Asks : AskInv(q), NEW p \in Asks,
           Ask(p) \/ AskNext(p) \/ \E r \in Reqs : Reply(r, p)
    PROVE  Frozen /\ Fixed
<1>1. Fixed
  BY PlanFixed DEF Ask, AskNext, Asked, Answered, ContextDone, GiveUp, AskReturns,
      AskLeavesAlone, Reply, Arrives
<1>2. /\ UNCHANGED <<waiting, replays, subs, opened, hold, fails>>
      /\ \A s \in Streams : stream'[s].got = stream[s].got
  BY DEF Ask, AskNext, Asked, Answered, ContextDone, GiveUp, AskReturns, AskLeavesAlone,
      Reply, Arrives, streamVars, pastVars
<1>3. CallsKept BY <1>2 DEF CallsKept
<1>4. ASSUME NEW q \in Asks
      PROVE  /\ at'[Asker(q)] = "none" \/ Pending(q, "question")' =>
                   at[Asker(q)] = "none" \/ Pending(q, "question")
             /\ due'[Asker(q)] # Ev("closed", q) \/ Pending(q, "closed")' =>
                   due[Asker(q)] # Ev("closed", q) \/ Pending(q, "closed")
  <2> DEFINE A == Asker(q)
  <2>1. /\ at \in [Goroutines -> Places] /\ due \in [Goroutines -> Events]
        /\ A \in Goroutines /\ Asker(p) \in Goroutines /\ Asker(q)' = A
    BY PlanIs DEF TypeInv, Asker
  <2>2. CASE at'[A] = at[A] /\ due'[A] = due[A]
    <3>1. ToDispatch(Asker(q))' => ToDispatch(Asker(q))
      BY <1>2, <2>1, <2>2 DEF ToDispatch
    <3> QED BY <2>2, <3>1, StillFrozen
  <2>3. CASE ~(at'[A] = at[A] /\ due'[A] = due[A])
    <3>1. p = q
      <4>1. ASSUME p # q PROVE FALSE
        <5>1. Asker(p) # A BY <4>1 DEF Asker
        <5>2. /\ at' = at \/ \E x : at' = [at EXCEPT ![Asker(p)] = x]
              /\ due' = due \/ \E e : due' = [due EXCEPT ![Asker(p)] = e]
          BY DEF Ask, AskNext, Asked, Answered, ContextDone, GiveUp, AskReturns, Raise, Reply
        <5> QED BY <2>1, <2>3, <5>1, <5>2
      <4> QED BY <4>1
    <3>2. CASE Ask(q)
      <4>1. at[A] = "none" /\ due[A] = NoEvent BY <3>2 DEF Ask, AskInv
      <4>2. NoEvent # Ev("closed", q) BY DEF NoEvent, Ev
      <4> QED BY <4>1, <4>2
    <3>3. CASE Answered(q) \/ GiveUp(q)
      <4>1. at'[A] = "enter" /\ due'[A] = Ev("closed", q) /\ at[A] \in {"wait", "giveup"}
        BY <2>1, <3>3 DEF Answered, GiveUp, Raise
      <4>2. due[A] = Ev("question", q) BY <4>1 DEF AskInv
      <4>3. Ev("question", q) # Ev("closed", q) BY DEF Ev
      <4>4. ~Pending(q, "question")' BY <2>1, <4>1, <4>3 DEF Pending, Ev
      <4> QED BY <4>1, <4>2, <4>3, <4>4
    <3>4. CASE Asked(q) \/ ContextDone(q) \/ AskReturns(q)
      <4>1. at'[A] \in {"wait", "giveup", "done"} /\ due' = due
        BY <2>1, <3>4 DEF Asked, ContextDone, AskReturns
      <4>2. ToDispatch(Asker(q))' => ToDispatch(Asker(q))
        BY <1>2, <2>1, <4>1 DEF ToDispatch
      <4> QED BY <4>1, <4>2, StillFrozen
    <3>5. CASE \E r \in Reqs : Reply(r, p) BY <2>3, <3>5 DEF Reply
    <3> QED BY <3>1, <3>2, <3>3, <3>4, <3>5 DEF AskNext
  <2> QED BY <2>2, <2>3
<1> QED BY <1>1, <1>2, <1>3, <1>4 DEF Frozen

\* A call moves an event from what a stream is to get to what it got.
LEMMA CallMoves ==
    ASSUME TypeInv, Call, NEW s \in Streams, NEW e
    PROVE  LET c == Head(hold.calls) n == Len(stream[s].got) IN
           /\ n \in Nat /\ Calls(s, e) \subseteq 1..n
           /\ Calls(s, e)' = IF c = <<s, e>> THEN Calls(s, e) \cup {n + 1} ELSE Calls(s, e)
           /\ c = <<s, e>> => 1 \in Coming(s, e)
           /\ \A i \in Coming(s, e)' : i \in Nat \ {0} /\ i + 1 \in Coming(s, e)
           /\ Gets(s, e)' <=> Gets(s, e)
<1> DEFINE c == Head(hold.calls)
           g == stream[s].got
           n == Len(g)
<1>1. /\ hold # Free /\ hold' # Free /\ c \in Nat \X Events /\ c = hold.calls[1]
      /\ DOMAIN hold'.calls = 1..(Len(hold.calls) - 1)
      /\ \A i \in 1..(Len(hold.calls) - 1) : hold'.calls[i] = hold.calls[i + 1]
      /\ Len(hold.calls) \in Nat \ {0} /\ DOMAIN hold.calls = 1..Len(hold.calls)
  BY CallIs, PlanIs
<1>2. g \in Seq(Events) /\ stream \in [Streams -> StreamRecs] /\ stream[s] \in StreamRecs
  BY DEF TypeInv, StreamRecs
<1>3. n \in Nat /\ DOMAIN g = 1..n BY <1>2
<1>4. s # 0 BY PlanIs
<1>5. ASSUME c[1] = s
      PROVE  Calls(s, e)' = IF c = <<s, e>> THEN Calls(s, e) \cup {n + 1} ELSE Calls(s, e)
  <2>1. stream' = [stream EXCEPT ![s] = Framed(@, c[2])]
    BY <1>4, <1>5 DEF Call, Record
  <2>2. stream'[s] = Framed(stream[s], c[2]) BY <1>2, <2>1
  <2>3. stream'[s].got = Append(g, c[2])
    BY <1>2, <2>2 DEF Framed, StreamRecs
  <2>4. c = <<s, c[2]>> /\ c[2] \in Events BY <1>1, <1>5
  <2> DEFINE g2 == stream'[s].got
  <2>5. DOMAIN g2 = 1..(n + 1) /\ g2[n + 1] = c[2] /\ \A i \in 1..n : g2[i] = g[i]
    BY <1>2, <1>3, <2>3, <2>4
  <2>6. Calls(s, e)' = {i \in DOMAIN g2 : g2[i] = e} /\ Calls(s, e) = {i \in DOMAIN g : g[i] = e}
    BY DEF Calls
  <2>7. c = <<s, e>> <=> c[2] = e BY <2>4
  <2> HIDE DEF g, g2, n
  <2>8. Calls(s, e)' = IF c[2] = e THEN Calls(s, e) \cup {n + 1} ELSE Calls(s, e)
    BY <1>3, <2>5, <2>6
  <2> QED BY <2>7, <2>8
<1>6. ASSUME c[1] # s
      PROVE  Calls(s, e)' = IF c = <<s, e>> THEN Calls(s, e) \cup {n + 1} ELSE Calls(s, e)
  <2>1. stream'[s] = stream[s] BY <1>2, <1>6 DEF Call, Record
  <2>2. c # <<s, e>> BY <1>6
  <2> QED BY <2>1, <2>2 DEF Calls
<1>7. Calls(s, e) \subseteq 1..n BY <1>3 DEF Calls
<1>8. Calls(s, e)' = IF c = <<s, e>> THEN Calls(s, e) \cup {n + 1} ELSE Calls(s, e)
  BY <1>5, <1>6
<1>9. /\ Coming(s, e) = {i \in DOMAIN hold.calls : hold.calls[i] = <<s, e>>}
      /\ Coming(s, e)' = {i \in DOMAIN hold'.calls : hold'.calls[i] = <<s, e>>}
  BY <1>1 DEF Coming
<1>10. c = <<s, e>> => 1 \in Coming(s, e) BY <1>1, <1>9
<1>11. \A i \in Coming(s, e)' : i \in Nat \ {0} /\ i + 1 \in Coming(s, e)
  BY <1>1, <1>9
<1>12. ASSUME NEW i \in Coming(s, e), i # 1 PROVE i - 1 \in Coming(s, e)'
  <2> DEFINE j == i - 1
  <2>1. j \in 1..(Len(hold.calls) - 1) /\ j + 1 = i /\ hold.calls[i] = <<s, e>>
    BY <1>1, <1>9, <1>12
  <2> HIDE DEF j
  <2>2. hold'.calls[j] = hold.calls[i] BY <1>1, <2>1
  <2>3. j \in Coming(s, e)' BY <1>1, <1>9, <2>1, <2>2
  <2> QED BY <2>3 DEF j
<1>13. 1 \in Coming(s, e) => c = <<s, e>> BY <1>1, <1>9
<1> HIDE DEF c, n
<1>14. Gets(s, e)' <=> Gets(s, e)
  BY <1>8, <1>10, <1>11, <1>12, <1>13 DEF Gets
<1> QED BY <1>3, <1>7, <1>8, <1>10, <1>11, <1>14 DEF c, n

\* A call shows a question where it was to be shown.
LEMMA CallQuestions ==
    ASSUME TypeInv, SubsInv, ServedInv, \A q \in Asks : ShownInv(q), Call
    PROVE  SubsInv' /\ ServedInv' /\ (\A q \in Asks : ShownInv(q))'
<1>1. Fixed /\ UNCHANGED <<waiting, replays, subs, opened, at, due, fails>>
  BY PlanFixed DEF Call, askVars, goVars, pastVars
<1>2. /\ hold # Free /\ hold' # Free /\ hold'.g = hold.g /\ hold'.todo = hold.todo
      /\ DOMAIN hold'.calls = 1..(Len(hold.calls) - 1)
      /\ \A i \in 1..(Len(hold.calls) - 1) : hold'.calls[i] = hold.calls[i + 1]
      /\ Len(hold.calls) \in Nat \ {0} /\ DOMAIN hold.calls = 1..Len(hold.calls)
      /\ Head(hold.calls) = hold.calls[1]
  BY CallIs, PlanIs
<1>3. SubsInv'
  <2>1. ASSUME NEW s \in Streams, s > opened PROVE stream'[s].got = <<>>
    <3>1. Head(hold.calls)[1] # s BY <1>2, <2>1 DEF SubsInv
    <3>2. stream'[s] = stream[s] BY <3>1 DEF Call, Record, TypeInv
    <3> QED BY <2>1, <3>2 DEF SubsInv
  <2>2. ASSUME NEW s \in Streams, s > opened, NEW i \in DOMAIN hold'.calls
        PROVE  hold'.calls[i][1] # s
    <3>1. i + 1 \in DOMAIN hold.calls /\ hold'.calls[i] = hold.calls[i + 1]
      BY <1>2
    <3> DEFINE j == i + 1
    <3>2. j \in DOMAIN hold.calls /\ hold'.calls[i] = hold.calls[j]
      BY <3>1
    <3> HIDE DEF j
    <3> QED BY <1>2, <2>2, <3>2 DEF SubsInv
  <2> QED BY <1>1, <2>1, <2>2 DEF SubsInv, Fixed
<1>4. \A s \in Streams : \A e : Gets(s, e)' <=> Gets(s, e) BY CallMoves
<1>5. ServedInv'
  <2> SUFFICES ASSUME fails' = 0, NEW i \in DOMAIN waiting', NEW j \in DOMAIN subs', subs'[j] # 0
               PROVE  \/ Gets(subs[j], Ev("question", waiting[i]))'
                      \/ \E k \in DOMAIN replays'[subs'[j]] : replays'[subs'[j]][k] = waiting'[i]
    BY DEF ServedInv
  <2>1. subs[j] \in Streams
    <3>1. subs[j] \in 0..opened /\ opened <= plan.connects /\ opened \in Nat
      BY <1>1 DEF TypeInv
    <3>2. plan.connects \in Nat BY PlanIs
    <3> QED BY <1>1, <3>1, <3>2 DEF Streams
  <2>2. \/ Gets(subs[j], Ev("question", waiting[i]))
        \/ \E k \in DOMAIN replays[subs[j]] : replays[subs[j]][k] = waiting[i]
    BY <1>1 DEF ServedInv
  <2>3. ASSUME NEW s, NEW x, s \in Streams, s = subs[j], x = waiting[i], Gets(s, Ev("question", x))
        PROVE  Gets(subs[j], Ev("question", waiting[i]))'
    <3>1. Gets(s, Ev("question", x))' BY <1>4, <2>3
    <3>2. subs'[j] = s /\ waiting'[i] = x BY <1>1, <2>3
    <3> QED BY <3>1, <3>2 DEF Gets, Calls, Coming, Ev
  <2> QED BY <1>1, <2>1, <2>2, <2>3
<1>6. ASSUME NEW q \in Asks PROVE ShownInv(q)'
  <2> DEFINE Q == Ev("question", q)
             C == Ev("closed", q)
             c == Head(hold.calls)
  <2>1. /\ at[Asker(q)] = "none" \/ Pending(q, "question") =>
            /\ \A i \in DOMAIN waiting : waiting[i] # q
            /\ \A s \in Streams : ~Gets(s, Q)
        /\ due[Asker(q)] # C \/ Pending(q, "closed") => \A s \in Streams : ~Gets(s, C)
        /\ (\E i \in DOMAIN waiting : waiting[i] = q) => \A s \in Streams : ~Gets(s, C)
        /\ \A s \in Streams :
            /\ Once(Calls(s, Q), Calls(s, C)) /\ Once(Coming(s, Q), Coming(s, C))
            /\ Coming(s, Q) # {} => Calls(s, Q) = {} /\ Calls(s, C) = {}
            /\ (\E i \in DOMAIN replays[s] : replays[s][i] = q) =>
                  /\ ~Gets(s, Q) /\ \E i \in DOMAIN waiting : waiting[i] = q
    BY DEF ShownInv
  <2>2. Asker(q)' = Asker(q) /\ Q' = Q /\ C' = C /\ Q # C
    BY DEF Asker, Ev
  <2>3. \A k : Pending(q, k)' => Pending(q, k)
    BY <1>1, <1>2, <2>2 DEF Pending, ToDispatch, Ev
  <2> HIDE DEF Q, C, c
  <2>4. /\ at'[Asker(q)] = "none" \/ Pending(q, "question")' =>
            /\ \A i \in DOMAIN waiting' : waiting'[i] # q
            /\ \A s \in Streams : ~Gets(s, Q)'
        /\ due'[Asker(q)] # C \/ Pending(q, "closed")' => \A s \in Streams : ~Gets(s, C)'
        /\ (\E i \in DOMAIN waiting' : waiting'[i] = q) => \A s \in Streams : ~Gets(s, C)'
    BY <1>1, <1>4, <2>1, <2>3
  <2>5. ASSUME NEW s \in Streams
        PROVE  /\ Once(Calls(s, Q), Calls(s, C))' /\ Once(Coming(s, Q), Coming(s, C))'
               /\ Coming(s, Q)' # {} => Calls(s, Q)' = {} /\ Calls(s, C)' = {}
               /\ (\E i \in DOMAIN replays'[s] : replays'[s][i] = q) =>
                     /\ ~Gets(s, Q)' /\ \E i \in DOMAIN waiting' : waiting'[i] = q
    <3> DEFINE n == Len(stream[s].got)
               SQ == Calls(s, Q)
               SC == Calls(s, C)
               KQ == Coming(s, Q)
               KC == Coming(s, C)
    <3>1. /\ n \in Nat /\ SQ \subseteq 1..n
          /\ SQ' = IF c = <<s, Q>> THEN SQ \cup {n + 1} ELSE SQ
          /\ (c = <<s, Q>> => 1 \in KQ)
          /\ \A i \in KQ' : i \in Nat \ {0} /\ i + 1 \in KQ
      BY CallMoves DEF c
    <3>2. /\ SC \subseteq 1..n
          /\ SC' = IF c = <<s, C>> THEN SC \cup {n + 1} ELSE SC
          /\ (c = <<s, C>> => 1 \in KC)
          /\ \A i \in KC' : i \in Nat \ {0} /\ i + 1 \in KC
      BY CallMoves DEF c
    <3>3. /\ \A i, j \in SQ : i = j
          /\ \A i \in SQ, j \in SC : i < j
          /\ \A i, j \in KQ : i = j
          /\ \A i \in KQ, j \in KC : i < j
          /\ KQ # {} => SQ = {} /\ SC = {}
      BY <2>1 DEF Once
    <3>4. c = <<s, Q>> => c # <<s, C>> BY <2>2
    <3> HIDE DEF n, SQ, SC, KQ, KC
    <3>5. /\ \A i, j \in SQ' : i = j
          /\ \A i \in SQ', j \in SC' : i < j
      BY <3>1, <3>2, <3>3, <3>4
    <3>6. /\ \A i, j \in KQ' : i = j
          /\ \A i \in KQ', j \in KC' : i < j
      <4>1. \A i, j \in KQ' : i = j BY <3>1, <3>3
      <4>2. ASSUME NEW i \in KQ', NEW j \in KC' PROVE i < j
        <5>1. i \in Nat /\ j \in Nat /\ i + 1 \in KQ /\ j + 1 \in KC
          BY <3>1, <3>2
        <5>2. i + 1 < j + 1 BY <3>3, <5>1
        <5> QED BY <5>1, <5>2
      <4> QED BY <4>1, <4>2
    <3>7. KQ' # {} => SQ' = {} /\ SC' = {}
      <4> SUFFICES ASSUME NEW i \in KQ' PROVE SQ' = {} /\ SC' = {}
        OBVIOUS
      <4>1. i \in Nat \ {0} /\ i + 1 \in KQ BY <3>1
      <4>2. c # <<s, Q>> BY <3>1, <3>3, <4>1
      <4>3. c # <<s, C>> BY <3>2, <3>3, <4>1
      <4> QED BY <3>1, <3>2, <3>3, <4>1, <4>2, <4>3
    <3>8. (\E i \in DOMAIN replays'[s] : replays'[s][i] = q) =>
                     /\ ~Gets(s, Q)' /\ \E i \in DOMAIN waiting' : waiting'[i] = q
      BY <1>1, <1>4, <2>1
    <3> QED BY <2>2, <3>5, <3>6, <3>7, <3>8 DEF Once, SQ, SC, KQ, KC
  <2> QED BY <1>1, <2>2, <2>4, <2>5 DEF ShownInv, Fixed, Q, C
<1> QED BY <1>1, <1>3, <1>5, <1>6 DEF Fixed

\* A question that is neither asked nor closed by the step: a stream that is
\* to get it was to, or is owed it.
LEMMA ShownStep ==
    ASSUME Fixed, NEW q \in Asks, ShownInv(q),
           at'[Asker(q)] = "none" => at[Asker(q)] = "none", due'[Asker(q)] = due[Asker(q)],
           \A k \in {"question", "closed"} : Pending(q, k)' => Pending(q, k),
           In(q, waiting') => In(q, waiting),
           \A s \in Streams :
              /\ \A e : Calls(s, e)' = Calls(s, e)
              /\ Once(Coming(s, Ev("question", q)), Coming(s, Ev("closed", q)))'
              /\ Coming(s, Ev("closed", q))' # {} => Coming(s, Ev("closed", q)) # {}
              /\ Coming(s, Ev("question", q))' # {} =>
                    Coming(s, Ev("question", q)) # {} \/ In(q, replays[s])
              /\ In(q, replays'[s]) =>
                    /\ Coming(s, Ev("question", q))' = {} /\ Calls(s, Ev("question", q)) = {}
                    /\ In(q, waiting')
    PROVE  ShownInv(q)'
<1> DEFINE Q == Ev("question", q)
           C == Ev("closed", q)
<1>1. /\ at[Asker(q)] = "none" \/ Pending(q, "question") =>
          /\ \A i \in DOMAIN waiting : waiting[i] # q
          /\ \A s \in Streams : ~Gets(s, Q)
      /\ due[Asker(q)] # C \/ Pending(q, "closed") => \A s \in Streams : ~Gets(s, C)
      /\ In(q, waiting) => \A s \in Streams : ~Gets(s, C)
      /\ \A s \in Streams :
          /\ Once(Calls(s, Q), Calls(s, C))
          /\ Coming(s, Q) # {} => Calls(s, Q) = {} /\ Calls(s, C) = {}
          /\ In(q, replays[s]) => ~Gets(s, Q) /\ In(q, waiting)
  BY DEF ShownInv, In
<1>2. Asker(q)' = Asker(q) /\ Q' = Q /\ C' = C BY DEF Asker, Ev
<1>3. \A s \in Streams :
         /\ Calls(s, Q)' = Calls(s, Q) /\ Calls(s, C)' = Calls(s, C)
         /\ Once(Coming(s, Q), Coming(s, C))'
         /\ Coming(s, C)' # {} => Coming(s, C) # {}
         /\ Coming(s, Q)' # {} => Coming(s, Q) # {} \/ In(q, replays[s])
         /\ In(q, replays'[s]) => Coming(s, Q)' = {} /\ Calls(s, Q) = {} /\ In(q, waiting')
  OBVIOUS
<1> HIDE DEF Q, C
<1>4. ASSUME NEW s \in Streams
      PROVE  /\ Gets(s, C)' => Gets(s, C)
             /\ Gets(s, Q)' => Gets(s, Q) \/ In(q, replays[s])
  BY <1>2, <1>3 DEF Gets
<1>5. ASSUME at'[Asker(q)] = "none" \/ Pending(q, "question")'
      PROVE  (\A i \in DOMAIN waiting' : waiting'[i] # q) /\ (\A s \in Streams : ~Gets(s, Q)')
  <2>1. at[Asker(q)] = "none" \/ Pending(q, "question") BY <1>5
  <2>2. ~In(q, waiting) /\ \A s \in Streams : ~Gets(s, Q)
    BY <1>1, <2>1 DEF In
  <2>3. ~In(q, waiting') BY <2>2
  <2> QED BY <1>1, <1>4, <2>2, <2>3 DEF In
<1>6. due'[Asker(q)] # C \/ Pending(q, "closed")' => \A s \in Streams : ~Gets(s, C)'
  BY <1>1, <1>4
<1>7. (\E i \in DOMAIN waiting' : waiting'[i] = q) => \A s \in Streams : ~Gets(s, C)'
  BY <1>1, <1>4 DEF In
<1>8. ASSUME NEW s \in Streams
      PROVE  /\ Once(Calls(s, Q), Calls(s, C))' /\ Once(Coming(s, Q), Coming(s, C))'
             /\ Coming(s, Q)' # {} => Calls(s, Q)' = {} /\ Calls(s, C)' = {}
             /\ (\E i \in DOMAIN replays'[s] : replays'[s][i] = q) =>
                   /\ ~Gets(s, Q)' /\ \E i \in DOMAIN waiting' : waiting'[i] = q
  <2>1. Once(Calls(s, Q), Calls(s, C))' BY <1>1, <1>2, <1>3 DEF Once
  <2>2. Coming(s, Q)' # {} => Calls(s, Q)' = {} /\ Calls(s, C)' = {}
    BY <1>1, <1>3 DEF Gets
  <2>3. In(q, replays'[s]) => ~Gets(s, Q)' /\ In(q, waiting')
    BY <1>2, <1>3 DEF Gets
  <2> QED BY <1>3, <2>1, <2>2, <2>3 DEF In
<1> QED BY <1>2, <1>5, <1>6, <1>7, <1>8 DEF ShownInv, Fixed, Q, C

\* Whoever subscribes is one of the streams.
LEMMA SubsAre ==
    ASSUME TypeInv, NEW j \in DOMAIN subs
    PROVE  subs[j] \in Nat /\ subs[j] <= opened /\ (subs[j] # 0 => subs[j] \in Streams)
<1>1. subs[j] \in 0..opened /\ opened <= plan.connects /\ opened \in Nat
  BY DEF TypeInv
<1>2. plan.connects \in Nat BY PlanIs
<1> QED BY <1>1, <1>2 DEF Streams

\* Served, from one stream and one question to all of them.
LEMMA ServedStep ==
    ASSUME \A j \in DOMAIN subs' : subs'[j] # 0 => subs'[j] \in Streams,
           fails' = fails,
           \A x : \A s \in Streams :
              fails = 0 /\ In(x, waiting') /\ In(s, subs') =>
                 Gets(s, Ev("question", x))' \/ In(x, replays'[s])
    PROVE  ServedInv'
<1> SUFFICES ASSUME fails' = 0, NEW i \in DOMAIN waiting', NEW j \in DOMAIN subs', subs'[j] # 0
             PROVE  \/ Gets(subs[j], Ev("question", waiting[i]))'
                    \/ \E k \in DOMAIN replays'[subs'[j]] : replays'[subs'[j]][k] = waiting'[i]
  BY DEF ServedInv
<1>1. ASSUME NEW s, NEW x, s = subs'[j], x = waiting'[i]
      PROVE  \/ Gets(subs[j], Ev("question", waiting[i]))'
             \/ \E k \in DOMAIN replays'[subs'[j]] : replays'[subs'[j]][k] = waiting'[i]
  <2>1. s \in Streams /\ In(x, waiting') /\ In(s, subs') BY <1>1 DEF In
  <2>2. Gets(s, Ev("question", x))' \/ In(x, replays'[s]) BY <2>1
  <2>3. CASE Gets(s, Ev("question", x))'
    BY <1>1, <2>3 DEF Gets, Calls, Coming, Ev
  <2> QED BY <1>1, <2>2, <2>3 DEF In
<1> QED BY <1>1

\* ServedInv, of one question and one subscriber.
LEMMA ServedIs ==
    ASSUME ServedInv, fails = 0, NEW s \in Streams, NEW x, In(x, waiting), In(s, subs), s # 0
    PROVE  Gets(s, Ev("question", x)) \/ In(x, replays[s])
<1>1. PICK i \in DOMAIN waiting : waiting[i] = x BY DEF In
<1>2. PICK j \in DOMAIN subs : subs[j] = s BY DEF In
<1>3. \/ Gets(subs[j], Ev("question", waiting[i]))
      \/ \E k \in DOMAIN replays[subs[j]] : replays[subs[j]][k] = waiting[i]
  BY <1>2 DEF ServedInv
<1> QED BY <1>1, <1>2, <1>3 DEF In

\* The questions that are owed are sent.
LEMMA FlushQuestions ==
    ASSUME TypeInv, SubsInv, ServedInv, \A q \in Asks : ShownInv(q),
           NEW s \in Streams, FlushReplay(s)
    PROVE  SubsInv' /\ ServedInv' /\ (\A q \in Asks : ShownInv(q))'
<1>1. Fixed /\ UNCHANGED <<waiting, subs, opened, due, fails, stream>>
  BY PlanFixed DEF FlushReplay, streamVars, pastVars
<1>2. /\ hold = Free /\ hold' # Free /\ hold'.todo = <<>>
      /\ DOMAIN hold'.calls = DOMAIN replays[s]
      /\ \A i \in DOMAIN replays[s] : hold'.calls[i] = <<s, Ev("question", replays[s][i])>>
  BY FlushIs, PlanIs
<1>3. /\ replays \in [Streams -> Seq(Asks)] /\ at \in [Goroutines -> Places]
      /\ replays' = [replays EXCEPT ![s] = <<>>]
      /\ at' = [at EXCEPT ![<<"replay", s>>] = "hold"]
  BY DEF TypeInv, FlushReplay
<1>4. replays'[s] = <<>> /\ \A t \in Streams : t # s => replays'[t] = replays[t]
  BY <1>3
<1>5. \A t \in Streams : \A e : /\ Calls(t, e)' = Calls(t, e) /\ Coming(t, e) = {}
                                /\ (Gets(t, e) <=> Calls(t, e) # {})
  BY <1>1, <1>2 DEF Calls, Coming, Gets
<1>6. ASSUME NEW t \in Streams, NEW q
      PROVE  /\ Coming(t, Ev("closed", q))' = {}
             /\ t # s => Coming(t, Ev("question", q))' = {}
             /\ t = s => Coming(t, Ev("question", q))' = {i \in DOMAIN replays[s] : replays[s][i] = q}
  <2>1. \A e : Coming(t, e)' = {i \in DOMAIN hold'.calls : hold'.calls[i] = <<t, e>>}
    BY <1>2 DEF Coming
  <2>2. \A i \in DOMAIN replays[s] :
           /\ hold'.calls[i] # <<t, Ev("closed", q)>>
           /\ t # s => hold'.calls[i] # <<t, Ev("question", q)>>
           /\ t = s => (hold'.calls[i] = <<t, Ev("question", q)>> <=> replays[s][i] = q)
    <3>1. /\ \A x, y : Ev("question", x) # Ev("closed", y)
          /\ \A x, y : Ev("question", x) = Ev("question", y) <=> x = y
      BY DEF Ev
    <3> QED BY <1>2, <3>1
  <2>3. Coming(t, Ev("closed", q))' = {i \in DOMAIN replays[s] : hold'.calls[i] = <<t, Ev("closed", q)>>}
        /\ Coming(t, Ev("question", q))' = {i \in DOMAIN replays[s] : hold'.calls[i] = <<t, Ev("question", q)>>}
    BY <1>2, <2>1 DEF Ev
  <2> QED BY <2>2, <2>3
<1>7. SubsInv'
  <2>1. ASSUME NEW t \in Streams, t > opened, NEW i \in DOMAIN hold'.calls
        PROVE  hold'.calls[i][1] # t
    <3>1. replays[s] # <<>> /\ hold'.calls[i][1] = s BY <1>2
    <3>2. PICK j \in DOMAIN subs : subs[j] = s BY <3>1 DEF SubsInv
    <3>3. s <= opened /\ opened \in Nat /\ s \in Nat
      BY <3>2, SubsAre DEF TypeInv
    <3> QED BY <2>1, <3>1, <3>3
  <2>2. \A t \in Streams : replays'[t] = replays[t] \/ replays'[t] = <<>>
    BY <1>4
  <2> QED BY <1>1, <2>1, <2>2 DEF SubsInv, Fixed
<1>8. ServedInv'
  <2>1. ASSUME NEW x, NEW t \in Streams, fails = 0, In(x, waiting'), In(t, subs')
        PROVE  Gets(t, Ev("question", x))' \/ In(x, replays'[t])
    <3>1. In(x, waiting) /\ In(t, subs) /\ t # 0 BY <1>1, <2>1, PlanIs
    <3>2. Gets(t, Ev("question", x)) \/ In(x, replays[t])
      BY <2>1, <3>1, ServedIs
    <3>3. CASE Gets(t, Ev("question", x))
      <4>1. Calls(t, Ev("question", x))' # {} BY <1>5, <3>3
      <4> QED BY <4>1 DEF Gets
    <3>4. CASE In(x, replays[t]) /\ t # s BY <1>4, <3>4
    <3>5. CASE In(x, replays[t]) /\ t = s
      <4>1. Coming(t, Ev("question", x))' # {} BY <1>6, <3>5 DEF In
      <4> QED BY <4>1 DEF Gets
    <3> QED BY <3>2, <3>3, <3>4, <3>5
  <2>2. \A j \in DOMAIN subs' : subs'[j] # 0 => subs'[j] \in Streams
    BY <1>1, SubsAre
  <2> QED BY <1>1, <2>1, <2>2, ServedStep
<1>9. ASSUME NEW q \in Asks PROVE ShownInv(q)'
  <2> DEFINE A == Asker(q)
  <2>1. A \in Goroutines /\ A # <<"replay", s>> /\ Asker(q)' = A
    BY PlanIs DEF Asker
  <2>2. at'[A] = at[A] BY <1>3, <2>1
  <2>3. \A k \in {"question", "closed"} : Pending(q, k)' => Pending(q, k)
    BY <1>1, <1>2, <2>1, <2>2 DEF Pending, ToDispatch, Ev
  <2>4. ASSUME NEW t \in Streams
        PROVE  /\ \A e : Calls(t, e)' = Calls(t, e)
               /\ Once(Coming(t, Ev("question", q)), Coming(t, Ev("closed", q)))'
               /\ Coming(t, Ev("closed", q))' # {} => Coming(t, Ev("closed", q)) # {}
               /\ Coming(t, Ev("question", q))' # {} =>
                     Coming(t, Ev("question", q)) # {} \/ In(q, replays[t])
               /\ In(q, replays'[t]) =>
                     /\ Coming(t, Ev("question", q))' = {} /\ Calls(t, Ev("question", q)) = {}
                     /\ In(q, waiting')
    <3> DEFINE K == Coming(t, Ev("question", q))'
               L == Coming(t, Ev("closed", q))'
    <3>1. L = {} /\ \A i, j \in K : i = j BY <1>6 DEF SubsInv
    <3>2. Once(Coming(t, Ev("question", q)), Coming(t, Ev("closed", q)))'
      <4>1. L = {} /\ \A i, j \in K : i = j BY <3>1
      <4> QED BY <4>1 DEF Once
    <3>3. K # {} => In(q, replays[t]) BY <1>6 DEF In
    <3>4. In(q, replays'[t]) => t # s /\ In(q, replays[t])
      BY <1>4 DEF In
    <3>5. In(q, replays[t]) => ~Gets(t, Ev("question", q)) /\ In(q, waiting)
      BY DEF ShownInv, In
    <3> QED BY <1>1, <1>5, <1>6, <3>2, <3>3, <3>4, <3>5
  <2> QED BY <1>1, <2>2, <2>3, <2>4, ShownStep
<1> QED BY <1>1, <1>7, <1>8, <1>9 DEF Fixed

\* A newcomer is owed the questions that wait; one that leaves, nothing.
LEMMA SubsQuestions ==
    ASSUME TypeInv, HoldInv, SubsInv, ServedInv, \A q \in Asks : ShownInv(q),
           Connect \/ \E s \in Streams : Unsubscribe(s)
    PROVE  SubsInv' /\ ServedInv' /\ (\A q \in Asks : ShownInv(q))'
<1>1. Fixed /\ UNCHANGED <<waiting, hold, due, fails>>
  BY PlanFixed DEF Connect, Unsubscribe, StreamLeavesAlone
<1>2. /\ replays \in [Streams -> Seq(Asks)] /\ at \in [Goroutines -> Places]
      /\ stream \in [Streams -> StreamRecs] /\ waiting \in Seq(Asks)
      /\ opened \in Nat /\ subs \in Seq(0..opened)
  BY DEF TypeInv
<1>3. \A t \in Streams : stream'[t].got = stream[t].got
  <2>2. CASE Connect
    <3>1. opened + 1 \in Streams
      <4>1. plan.connects \in Nat BY PlanIs
      <4>2. opened < plan.connects BY <2>2 DEF Connect
      <4> QED BY <1>2, <4>1, <4>2 DEF Streams
    <3>2. stream' = [stream EXCEPT ![opened + 1].h = "ready"]
      BY <2>2 DEF Connect
    <3> DEFINE s == opened + 1
    <3>3. s \in Streams /\ stream' = [stream EXCEPT ![s].h = "ready"]
      BY <3>1, <3>2
    <3> HIDE DEF s
    <3> QED BY <1>2, <3>3 DEF StreamRecs
  <2>3. ASSUME NEW s \in Streams, Unsubscribe(s)
        PROVE  \A t \in Streams : stream'[t].got = stream[t].got
    <3>1. stream' = [stream EXCEPT ![s].h = "ended", ![s].frames = <<>>]
      BY <2>3 DEF Unsubscribe
    <3> QED BY <1>2, <3>1 DEF StreamRecs
  <2> QED BY <2>2, <2>3
<1>4. \A t \in Streams : \A e : /\ Calls(t, e)' = Calls(t, e) /\ Coming(t, e)' = Coming(t, e)
                                /\ (Gets(t, e)' <=> Gets(t, e))
  BY <1>1, <1>3 DEF Calls, Coming, Gets
\* What the step makes of the subscribers and of what they are owed.
<1> DEFINE Owed == \A t \in Streams : \A q \in Asks : In(q, replays'[t]) =>
                      \/ In(q, replays[t])
                      \/ In(q, waiting) /\ ~Gets(t, Ev("question", q))
           Now == \A x : \A t \in Streams : In(x, waiting) /\ In(t, subs') =>
                     \/ In(t, subs) /\ replays'[t] = replays[t]
                     \/ In(x, replays'[t])
<1>5. ASSUME SubsInv', Owed, Now,
             \A j \in DOMAIN subs' : subs'[j] # 0 => subs'[j] \in Streams,
             \A q \in Asks : at'[Asker(q)] = at[Asker(q)]
      PROVE  SubsInv' /\ ServedInv' /\ (\A q \in Asks : ShownInv(q))'
  <2>1. ServedInv'
    <3>1. ASSUME NEW x, NEW t \in Streams, fails = 0, In(x, waiting'), In(t, subs')
          PROVE  Gets(t, Ev("question", x))' \/ In(x, replays'[t])
      <4>1. In(x, waiting) /\ t # 0 BY <1>1, <3>1, PlanIs
      <4>2. CASE In(t, subs) /\ replays'[t] = replays[t]
        BY <1>4, <3>1, <4>1, <4>2, ServedIs
      <4> QED BY <1>5, <3>1, <4>1, <4>2
    <3> QED BY <1>1, <1>5, <3>1, ServedStep
  <2>2. ASSUME NEW q \in Asks PROVE ShownInv(q)'
    <3>1. Asker(q)' = Asker(q) BY DEF Asker
    <3>2. \A k \in {"question", "closed"} : Pending(q, k)' => Pending(q, k)
      BY <1>1, <1>5, <3>1 DEF Pending, ToDispatch, Ev
    <3>3. ASSUME NEW t \in Streams
          PROVE  /\ \A e : Calls(t, e)' = Calls(t, e)
                 /\ Once(Coming(t, Ev("question", q)), Coming(t, Ev("closed", q)))'
                 /\ Coming(t, Ev("closed", q))' # {} => Coming(t, Ev("closed", q)) # {}
                 /\ Coming(t, Ev("question", q))' # {} =>
                       Coming(t, Ev("question", q)) # {} \/ In(q, replays[t])
                 /\ In(q, replays'[t]) =>
                       /\ Coming(t, Ev("question", q))' = {} /\ Calls(t, Ev("question", q)) = {}
                       /\ In(q, waiting')
      <4>1. Once(Coming(t, Ev("question", q)), Coming(t, Ev("closed", q)))'
        <5>1. Once(Coming(t, Ev("question", q)), Coming(t, Ev("closed", q)))
          BY DEF ShownInv
        <5> QED BY <1>4, <5>1 DEF Once
      <4>2. In(q, replays[t]) => ~Gets(t, Ev("question", q)) /\ In(q, waiting)
        BY DEF ShownInv, In
      <4>3. In(q, replays'[t]) => ~Gets(t, Ev("question", q)) /\ In(q, waiting)
        BY <1>5, <4>2
      <4> QED BY <1>1, <1>4, <4>1, <4>3 DEF Gets
    <3> QED BY <1>1, <1>5, <3>2, <3>3, ShownStep
  <2> QED BY <1>1, <1>5, <2>1, <2>2 DEF Fixed
<1>6. CASE Connect
  <2> DEFINE s == opened + 1
             g == <<"replay", s>>
  <2>1. /\ s \in Streams /\ opened' = s /\ subs' = Append(subs, s)
        /\ replays' = [replays EXCEPT ![s] = waiting]
        /\ at' = at \/ at' = [at EXCEPT ![g] = "enter"]
    <3>1. plan.connects \in Nat BY PlanIs
    <3>2. opened < plan.connects BY <1>6 DEF Connect
    <3>3. opened + 1 \in Streams BY <1>2, <3>1, <3>2 DEF Streams
    <3> QED BY <1>6, <3>3 DEF Connect, Subscribe
  <2>2. s > opened /\ s \in Nat BY <1>2
  <2>3. \A j \in DOMAIN subs : subs[j] # s BY <1>2, <2>2, SubsAre
  <2>4. \A q \in Asks : at'[Asker(q)] = at[Asker(q)]
    <3>1. \A q \in Asks : Asker(q) \in Goroutines /\ Asker(q) # g
      BY PlanIs DEF Asker
    <3> HIDE DEF g
    <3> QED BY <1>2, <2>1, <3>1
  <2> HIDE DEF s, g
  <2>5. replays'[s] = waiting /\ \A t \in Streams : t # s => replays'[t] = replays[t]
    BY <1>2, <2>1
  <2>6. /\ DOMAIN subs' = 1..(Len(subs) + 1) /\ subs'[Len(subs) + 1] = s
        /\ DOMAIN subs = 1..Len(subs) /\ Len(subs) \in Nat
        /\ \A i \in 1..Len(subs) : subs'[i] = subs[i]
    BY <1>2, <2>1
  <2>7. \A t : In(t, subs') <=> In(t, subs) \/ t = s BY <2>6 DEF In
  <2>8. ASSUME NEW i \in DOMAIN subs', NEW j \in DOMAIN subs', subs'[i] = subs'[j] PROVE i = j
    BY <2>3, <2>6, <2>8 DEF SubsInv
  <2>9. In(0, subs) /\ \A t \in Streams : replays[t] # <<>> => In(t, subs)
    BY DEF SubsInv, In
  <2>10. In(0, subs') /\ \A t \in Streams : replays'[t] # <<>> => In(t, subs')
    BY <2>5, <2>7, <2>9
  <2>11. \A t \in Streams : \A i, j \in DOMAIN replays'[t] : replays'[t][i] = replays'[t][j] => i = j
    BY <2>5 DEF SubsInv
  <2>12. \A t \in Streams : t > opened' => t > opened
    <3>1. \A t \in Streams : t \in Nat BY PlanIs
    <3> QED BY <1>2, <2>1, <2>2, <3>1
  <2>13. SubsInv'
    BY <1>1, <1>3, <2>8, <2>10, <2>11, <2>12 DEF SubsInv, Fixed, In
  <2>14. \A e : ~Gets(s, e)
    <3>1. stream[s].got = <<>> /\ (hold # Free => \A i \in DOMAIN hold.calls : hold.calls[i][1] # s)
      BY <2>1, <2>2 DEF SubsInv
    <3>2. \A e : Calls(s, e) = {} BY <3>1 DEF Calls
    <3>3. \A e : Coming(s, e) = {} BY <3>1 DEF Coming
    <3> QED BY <3>2, <3>3 DEF Gets
  <2>15. Owed /\ Now BY <2>5, <2>7, <2>14
  <2>16. \A j \in DOMAIN subs' : subs'[j] # 0 => subs'[j] \in Streams
    <3>1. \A j \in DOMAIN subs : subs[j] # 0 => subs[j] \in Streams
      BY SubsAre
    <3> QED BY <2>1, <2>6, <3>1
  <2> HIDE DEF Owed, Now
  <2> QED BY <1>5, <2>4, <2>13, <2>15, <2>16
<1>7. ASSUME NEW s \in Streams, Unsubscribe(s)
      PROVE  SubsInv' /\ ServedInv' /\ (\A q \in Asks : ShownInv(q))'
  <2>1. /\ subs' = RemoveFirst(subs, s) /\ opened' = opened /\ at' = at
        /\ replays' = [replays EXCEPT ![s] = <<>>]
    BY <1>7 DEF Unsubscribe
  <2>2. Apart(subs) /\ In(0, subs) /\ s # 0
    BY PlanIs DEF SubsInv, Apart, In
  <2>3. /\ subs' \in Seq(0..opened) /\ Apart(subs')
        /\ \A t : In(t, subs') <=> In(t, subs) /\ t # s
    BY <1>2, <2>1, <2>2, RemoveFirstIs
  <2>4. replays'[s] = <<>> /\ \A t \in Streams : t # s => replays'[t] = replays[t]
    BY <1>2, <2>1
  <2>5. In(0, subs') /\ \A t \in Streams : replays'[t] # <<>> => In(t, subs')
    <3>1. \A t \in Streams : replays[t] # <<>> => In(t, subs)
      BY DEF SubsInv, In
    <3> QED BY <2>2, <2>3, <2>4, <3>1
  <2>6. \A t \in Streams : \A i, j \in DOMAIN replays'[t] : replays'[t][i] = replays'[t][j] => i = j
    BY <2>4 DEF SubsInv
  <2>7. SubsInv'
    BY <1>1, <1>3, <2>1, <2>3, <2>5, <2>6 DEF SubsInv, Fixed, Apart, In
  <2>8. Owed /\ Now BY <2>3, <2>4 DEF In
  <2>9. \A j \in DOMAIN subs' : subs'[j] # 0 => subs'[j] \in Streams
    <3>1. \A j \in DOMAIN subs : subs[j] # 0 => subs[j] \in Streams
      BY SubsAre
    <3> QED BY <2>3, <3>1 DEF In
  <2> HIDE DEF Owed, Now
  <2> QED BY <1>5, <2>1, <2>7, <2>8, <2>9
<1> QED BY <1>6, <1>7

\* What a stream is to get from a dispatch.
LEMMA DispatchGives ==
    ASSUME TypeInv, NEW e \in Events, Dispatches(e), NEW s \in Streams, NEW x
    PROVE  /\ Coming(s, x) = {} /\ Calls(s, x)' = Calls(s, x)
           /\ (Gets(s, x) <=> Calls(s, x) # {})
           /\ \A i, j \in Coming(s, x)' : i = j
           /\ Coming(s, x)' # {} =>
                 In(s, subs) /\ (x = e \/ \E k \in DOMAIN replays[s] : x = Ev("question", replays[s][k]))
           /\ In(s, subs) /\ x = e => Coming(s, x)' # {}
           /\ In(s, subs) /\ (\E k \in DOMAIN replays[s] : x = Ev("question", replays[s][k])) =>
                 Coming(s, x)' # {}
           /\ x # e => \A i \in Coming(s, x)', j \in Coming(s, e)' : i < j
<1> DEFINE c == hold'.calls
<1>1. hold # Free /\ hold' # Free /\ hold.calls = <<>> /\ stream' = stream /\ subs' = subs
  BY PlanIs DEF Dispatches, streamVars
<1>2. Coming(s, x) = {} /\ Calls(s, x)' = Calls(s, x)
  BY <1>1 DEF Coming, Calls
<1>3. \A y : Coming(s, y)' = {i \in DOMAIN c : c[i] = <<s, y>>}
  BY <1>1 DEF Coming
<1>4. CallsOf(e, c) BY DEF Dispatches
<1> HIDE DEF c
<1>5. \A i, j \in Coming(s, x)' : i = j BY <1>3, <1>4 DEF CallsOf, Apart
<1>6. ASSUME NEW i \in Coming(s, x)'
      PROVE  In(s, subs) /\ (x = e \/ \E k \in DOMAIN replays[s] : x = Ev("question", replays[s][k]))
  <2>1. i \in DOMAIN c /\ c[i] = <<s, x>> BY <1>3
  <2>2. c[i][1] = s /\ c[i][2] = x BY <2>1
  <2>3. PICK j \in DOMAIN subs :
           /\ c[i][1] = subs[j]
           /\ \/ c[i][2] = e
              \/ /\ subs[j] \in Streams
                 /\ \E k \in DOMAIN replays[subs[j]] : c[i][2] = Ev("question", replays[subs[j]][k])
    BY <1>4, <2>1 DEF CallsOf
  <2> QED BY <2>2, <2>3 DEF In
<1>7. ASSUME In(s, subs)
      PROVE  /\ x = e => Coming(s, x)' # {}
             /\ (\E k \in DOMAIN replays[s] : x = Ev("question", replays[s][k])) =>
                   Coming(s, x)' # {}
  <2>1. PICK j \in DOMAIN subs : subs[j] = s BY <1>7 DEF In
  <2>2. /\ In(<<s, e>>, c)
        /\ \A k \in DOMAIN replays[s] : In(<<s, Ev("question", replays[s][k])>>, c)
    BY <1>4, <2>1 DEF CallsOf
  <2>3. In(<<s, x>>, c) => Coming(s, x)' # {} BY <1>3 DEF In
  <2> QED BY <2>2, <2>3
<1>8. ASSUME x # e, NEW i \in Coming(s, x)', NEW j \in Coming(s, e)' PROVE i < j
  <2>1. i \in DOMAIN c /\ j \in DOMAIN c /\ c[i] = <<s, x>> /\ c[j] = <<s, e>>
    BY <1>3
  <2>2. c[i][1] = c[j][1] /\ c[j][2] = e /\ i # j BY <1>8, <2>1
  <2> QED BY <1>4, <2>1, <2>2 DEF CallsOf
<1>9. Gets(s, x) <=> Calls(s, x) # {} BY <1>2 DEF Gets
<1> QED BY <1>2, <1>5, <1>6, <1>7, <1>8, <1>9

\* What a dispatch makes of the questions that wait, and of what is owed.
LEMMA DispatchWaits ==
    ASSUME TypeInv, HoldInv, DueInv, SubsInv, \A q \in Asks : ShownInv(q), NEW e \in Events, Dispatched(e)
    PROVE  /\ \A s \in Streams : replays'[s] = <<>>
           /\ waiting' \in Seq(Asks) /\ Apart(waiting')
           /\ e.k = "question" => ~In(e.n, waiting) /\ \A x : In(x, waiting') <=> In(x, waiting) \/ x = e.n
           /\ e.k = "closed" => \A x : In(x, waiting') <=> In(x, waiting) /\ x # e.n
           /\ e.k \notin {"question", "closed"} => waiting' = waiting
<1>1. Dispatches(e) /\ waiting \in Seq(Asks) /\ Apart(waiting)
  BY DEF Dispatched, TypeInv, SubsInv, Apart
<1>2. ASSUME NEW s \in Streams PROVE replays'[s] = <<>>
  <2>1. replays'[s] = IF s \in Range(subs) THEN <<>> ELSE replays[s]
    BY <1>1 DEF Dispatches, TakeReplays
  <2>2. replays[s] # <<>> => s \in Range(subs) BY DEF SubsInv, Range
  <2> QED BY <2>1, <2>2
<1>3. CASE e.k = "question"
  <2>1. e.n \in Asks /\ Pending(e.n, "question") BY <1>3, AskersEvent
  <2>2. ~In(e.n, waiting) BY <2>1 DEF ShownInv, In
  <2>3. waiting' = Append(waiting, e.n) BY <1>1, <1>3 DEF Dispatches
  <2>4. /\ waiting' \in Seq(Asks) /\ DOMAIN waiting' = 1..(Len(waiting) + 1)
        /\ Len(waiting) \in Nat /\ DOMAIN waiting = 1..Len(waiting)
        /\ waiting'[Len(waiting) + 1] = e.n
        /\ \A i \in 1..Len(waiting) : waiting'[i] = waiting[i]
    BY <1>1, <2>1, <2>3
  <2>5. \A x : In(x, waiting') <=> In(x, waiting) \/ x = e.n
    BY <2>4 DEF In
  <2>6. ASSUME NEW i \in DOMAIN waiting', NEW j \in DOMAIN waiting', waiting'[i] = waiting'[j]
        PROVE  i = j
    BY <1>1, <2>2, <2>4, <2>6 DEF Apart, In
  <2> QED BY <1>2, <1>3, <2>2, <2>4, <2>5, <2>6 DEF Apart
<1>4. CASE e.k = "closed"
  <2>1. waiting' = RemoveFirst(waiting, e.n)
    BY <1>1, <1>4 DEF Dispatches
  <2>2. waiting' \in Seq(Asks) /\ Apart(waiting') /\ \A x : In(x, waiting') <=> In(x, waiting) /\ x # e.n
    BY <1>1, <2>1, RemoveFirstIs
  <2> QED BY <1>2, <1>4, <2>2
<1>5. CASE e.k \notin {"question", "closed"}
  <2>1. waiting' = waiting BY <1>1, <1>5 DEF Dispatches
  <2> QED BY <1>1, <1>2, <1>5, <2>1
<1> QED BY <1>3, <1>4, <1>5

\* A dispatch shows a question to all who subscribe, and what they are owed
\* first; a close takes it from what waits.
LEMMA DispatchQuestions ==
    ASSUME TypeInv, HoldInv, DueInv, SubsInv, ServedInv, \A q \in Asks : ShownInv(q),
           NEW e \in Events, Dispatched(e)
    PROVE  SubsInv' /\ ServedInv' /\ (\A q \in Asks : ShownInv(q))'
<1>1. Dispatches(e) /\ Fixed /\ UNCHANGED <<subs, at, due, stream, opened, fails>>
  BY PlanFixed DEF Dispatched, Dispatches, goVars, streamVars, pastVars
<1>2. /\ \A s \in Streams : replays'[s] = <<>>
      /\ waiting' \in Seq(Asks) /\ Apart(waiting')
      /\ e.k = "question" => ~In(e.n, waiting) /\ \A x : In(x, waiting') <=> In(x, waiting) \/ x = e.n
      /\ e.k = "closed" => \A x : In(x, waiting') <=> In(x, waiting) /\ x # e.n
      /\ e.k \notin {"question", "closed"} => waiting' = waiting
  BY DispatchWaits
<1>3. \A s \in Streams : \A x :
           /\ Coming(s, x) = {} /\ Calls(s, x)' = Calls(s, x)
           /\ (Gets(s, x) <=> Calls(s, x) # {})
           /\ \A i, j \in Coming(s, x)' : i = j
           /\ Coming(s, x)' # {} =>
                 In(s, subs) /\ (x = e \/ \E k \in DOMAIN replays[s] : x = Ev("question", replays[s][k]))
           /\ In(s, subs) /\ x = e => Coming(s, x)' # {}
           /\ In(s, subs) /\ (\E k \in DOMAIN replays[s] : x = Ev("question", replays[s][k])) =>
                 Coming(s, x)' # {}
           /\ x # e => \A i \in Coming(s, x)', j \in Coming(s, e)' : i < j
  BY <1>1, DispatchGives
<1>4. hold # Free /\ hold' # Free /\ hold \in Holds /\ hold'.g = hold.g /\ hold.g \in Goroutines
  BY <1>1, PlanIs DEF Dispatches, Holds
<1>5. SubsInv'
  <2>1. ASSUME NEW s \in Streams, s > opened, NEW i \in DOMAIN hold'.calls
        PROVE  hold'.calls[i][1] # s
    <3>1. PICK j \in DOMAIN subs : hold'.calls[i][1] = subs[j]
      BY <1>1 DEF Dispatches, CallsOf
    <3>2. subs[j] \in Nat /\ subs[j] <= opened /\ opened \in Nat /\ s \in Nat
      BY SubsAre, PlanIs DEF TypeInv
    <3> QED BY <2>1, <3>1, <3>2
  <2>2. \A i, j \in DOMAIN waiting' : waiting'[i] = waiting'[j] => i = j
    BY <1>2 DEF Apart
  <2>3. \A s \in Streams : \A i, j \in DOMAIN replays'[s] : i = j
    BY <1>2
  <2> QED BY <1>1, <1>2, <2>1, <2>2, <2>3 DEF SubsInv, Fixed
<1>6. ServedInv'
  <2>1. ASSUME NEW x, NEW s \in Streams, fails = 0, In(x, waiting'), In(s, subs')
        PROVE  Gets(s, Ev("question", x))' \/ In(x, replays'[s])
    <3>1. In(s, subs) /\ s # 0 BY <1>1, <2>1, PlanIs
    <3>2. CASE In(x, waiting)
      <4>1. Gets(s, Ev("question", x)) \/ In(x, replays[s])
        BY <2>1, <3>1, <3>2, ServedIs
      <4>2. CASE Gets(s, Ev("question", x))
        <5>1. Calls(s, Ev("question", x))' # {} BY <1>3, <4>2
        <5> QED BY <5>1 DEF Gets
      <4>3. CASE In(x, replays[s])
        <5>1. Coming(s, Ev("question", x))' # {}
          BY <1>3, <3>1, <4>3 DEF In
        <5> QED BY <5>1 DEF Gets
      <4> QED BY <4>1, <4>2, <4>3
    <3>3. CASE ~In(x, waiting)
      <4>1. e.k = "question" /\ x = e.n BY <1>2, <2>1, <3>3
      <4>2. e = Ev("question", x) BY <4>1, AskersEvent
      <4>3. Coming(s, Ev("question", x))' # {} BY <1>3, <3>1, <4>2
      <4> QED BY <4>3 DEF Gets
    <3> QED BY <3>2, <3>3
  <2>2. \A j \in DOMAIN subs' : subs'[j] # 0 => subs'[j] \in Streams
    BY <1>1, SubsAre
  <2> QED BY <1>1, <2>1, <2>2, ServedStep
<1>7. ASSUME NEW q \in Asks PROVE ShownInv(q)'
  <2> DEFINE A == Asker(q)
             Q == Ev("question", q)
             C == Ev("closed", q)
  <2>1. Asker(q)' = A /\ Q' = Q /\ C' = C /\ Q # C /\ A \in Goroutines
    BY PlanIs DEF Asker, Ev
  <2>2. ToDispatch(A)' => ToDispatch(A)
    <3>1. ASSUME NEW i \in DOMAIN hold'.todo, hold'.todo[i] = "event"
          PROVE  \E j \in DOMAIN hold.todo : hold.todo[j] = "event"
      <4>1. CASE NextInList(e) BY <3>1, <4>1 DEF NextInList
      <4>2. ASSUME NEW m \in Nat, FirstOfStage(e, m)
            PROVE  \E j \in DOMAIN hold.todo : hold.todo[j] = "event"
        <5>1. /\ DOMAIN hold'.todo = 1..(Len(hold.todo) - m) /\ m \in DOMAIN hold.todo
              /\ \A k \in 1..(Len(hold.todo) - m) : hold'.todo[k] = hold.todo[m + k]
          BY <4>2 DEF FirstOfStage
        <5>2. DOMAIN hold.todo = 1..Len(hold.todo) /\ Len(hold.todo) \in Nat
          BY <1>4 DEF Holds
        <5> DEFINE j == m + i
        <5>3. j \in DOMAIN hold.todo /\ hold.todo[j] = "event"
          BY <3>1, <5>1, <5>2
        <5> QED BY <5>3
      <4> QED BY <4>1, <4>2 DEF Dispatched
    <3> QED BY <1>1, <1>4, <2>1, <3>1 DEF ToDispatch
  <2>3. \A k \in {"question", "closed"} : Pending(q, k)' => Pending(q, k)
    BY <1>1, <2>1, <2>2 DEF Pending, Ev
  <2>4. \A s \in Streams : In(q, replays[s]) =>
           /\ ~Gets(s, Q) /\ ~Gets(s, C) /\ In(q, waiting)
    BY DEF ShownInv, In
  <2>5. \A x : Q = Ev("question", x) <=> x = q BY DEF Ev
  <2>6. \A x : C # Ev("question", x) BY DEF Ev
  <2>7. CASE e \notin {Q, C}
    <3>1. In(q, waiting') => In(q, waiting)
      <4>1. e.k = "question" => e = Ev("question", e.n) BY AskersEvent
      <4> QED BY <1>2, <2>7, <4>1
    <3>2. ASSUME NEW s \in Streams
          PROVE  /\ \A x : Calls(s, x)' = Calls(s, x)
                 /\ Once(Coming(s, Q), Coming(s, C))'
                 /\ Coming(s, C)' # {} => Coming(s, C) # {}
                 /\ Coming(s, Q)' # {} => Coming(s, Q) # {} \/ In(q, replays[s])
                 /\ In(q, replays'[s]) =>
                       /\ Coming(s, Q)' = {} /\ Calls(s, Q) = {} /\ In(q, waiting')
      <4>1. Coming(s, C)' = {} /\ \A i, j \in Coming(s, Q)' : i = j
        BY <1>3, <2>6, <2>7
      <4>2. Once(Coming(s, Q), Coming(s, C))' BY <2>1, <4>1 DEF Once
      <4>3. Coming(s, Q)' # {} => In(q, replays[s])
        BY <1>3, <2>5, <2>7 DEF In
      <4>4. ~In(q, replays'[s]) BY <1>2 DEF In
      <4> QED BY <1>3, <4>1, <4>2, <4>3, <4>4
    <3> QED BY <1>1, <2>3, <3>1, <3>2, ShownStep
  <2>8. CASE e \in {Q, C}
    <3>1. /\ hold.g = A /\ due[A] = e /\ at[A] = "hold"
          /\ \A i \in DOMAIN hold'.todo : hold'.todo[i] # "event"
          /\ e = Q => Pending(q, "question")
          /\ e = C => Pending(q, "closed")
      <4>1. e.k \in {"question", "closed"} /\ e.n = q /\ (e = Q <=> e.k = "question") /\ (e = C <=> e.k = "closed")
        BY <2>8 DEF Ev
      <4>2. hold.g = A /\ due[A] = e /\ Pending(q, e.k) /\ \A i \in DOMAIN hold'.todo : hold'.todo[i] # "event"
        BY <4>1, AskersEvent
      <4>3. at[A] = "hold" BY <1>4, <4>2 DEF HoldInv
      <4> QED BY <4>1, <4>2, <4>3
    <3>2. ~ToDispatch(A)' BY <1>1, <2>1, <3>1 DEF ToDispatch
    <3>3. /\ at'[A] # "none" /\ \A k \in {"question", "closed"} : ~Pending(q, k)'
      BY <1>1, <2>1, <3>1, <3>2 DEF Pending
    <3>4. /\ e = Q => \A s \in Streams : ~Gets(s, Q) /\ ~Gets(s, C)
          /\ e = C => \A s \in Streams : ~Gets(s, C)
          /\ \A s \in Streams : Once(Calls(s, Q), Calls(s, C))
      BY <2>1, <3>1 DEF ShownInv
    <3>5. /\ e = C => ~In(q, waiting')
      <4>1. ASSUME e = C PROVE e.k = "closed" /\ e.n = q BY <4>1 DEF Ev
      <4> QED BY <1>2, <4>1
    <3>6. ASSUME NEW s \in Streams
          PROVE  /\ Once(Calls(s, Q), Calls(s, C))' /\ Once(Coming(s, Q), Coming(s, C))'
                 /\ Coming(s, Q)' # {} => Calls(s, Q)' = {} /\ Calls(s, C)' = {}
                 /\ ~In(q, replays'[s])
                 /\ e = Q => ~Gets(s, C)'
      <4>1. Once(Calls(s, Q), Calls(s, C))' BY <1>3, <2>1, <3>4 DEF Once
      <4>2. \A i, j \in Coming(s, Q)' : i = j BY <1>3
      <4>3. e = Q => Coming(s, C)' = {} BY <1>3, <2>1, <2>6
      <4>4. e = C => \A i \in Coming(s, Q)', j \in Coming(s, C)' : i < j
        BY <1>3, <2>1
      <4>5. Once(Coming(s, Q), Coming(s, C))'
        BY <2>1, <2>8, <4>2, <4>3, <4>4 DEF Once
      <4>6. Coming(s, Q)' # {} /\ e = C => In(q, replays[s])
        BY <1>3, <2>1, <2>5 DEF In
      <4>7. Coming(s, Q)' # {} => Calls(s, Q)' = {} /\ Calls(s, C)' = {}
        BY <1>3, <2>4, <2>8, <3>4, <4>6
      <4>8. e = Q => ~Gets(s, C)' BY <1>3, <2>1, <3>4, <4>3 DEF Gets
      <4>9. ~In(q, replays'[s]) BY <1>2 DEF In
      <4> QED BY <4>1, <4>5, <4>7, <4>8, <4>9
    <3>7. e = Q => \A s \in Streams : ~Gets(s, C)' BY <3>6
    <3>8. (\E i \in DOMAIN waiting' : waiting'[i] = q) => \A s \in Streams : ~Gets(s, C)'
      BY <2>8, <3>5, <3>7 DEF In
    <3>9. due'[A] # C => \A s \in Streams : ~Gets(s, C)'
      BY <1>1, <2>8, <3>1, <3>7
    <3> HIDE DEF A, Q, C
    <3> QED BY <1>1, <2>1, <3>3, <3>6, <3>8, <3>9 DEF ShownInv, Fixed, In, A, Q, C
  <2> QED BY <2>7, <2>8
<1> QED BY <1>1, <1>5, <1>6, <1>7 DEF Fixed

-----------------------------------------------------------------------------
(* Questions: the invariant, and what it gives.                            *)

\* The steps of the asking calls, and of those that answer them.
Questions ==
    \E p \in Asks : Ask(p) \/ AskNext(p) \/ \E r \in Reqs : Reply(r, p)

\* Every step is one of the two kinds; one that changes nothing is quiet.
LEMMA StepIs ==
    ASSUME BarrierInv, QuestionInv, [Next]_vars
    PROVE  Others \/ Questions
<1> USE DEF BarrierInv, QuestionInv
<1>1. CASE UNCHANGED vars
  <2>1. UNCHANGED <<plan, running, runEnded, queued, queuedErr, quarantine,
                    quarantineOwed, asks, waiting, replays, subs, hold, at, due,
                    err, passes, taken, steps, reply, result, opened, reported,
                    told, fails, cancelled, stream, cur, seen, req, steer>>
    BY <1>1 DEF vars, agentVars, quarVars, askVars, goVars, runVars, questVars, streamVars,
        pastVars
  <2>2. Quiet BY <2>1 DEF Quiet, TypeInv
  <2> QED BY <2>2 DEF Others
<1>2. CASE BarrierStep
  <2>1. CASE NextEvent
    <3>1. \E e \in Events : Dispatched(e)
      BY <2>1, NextEventIs DEF Dispatched
    <3> QED BY <3>1 DEF Others
  <2>2. CASE NextStage
    <3>1. \E e \in Events : Dispatched(e)
      BY <2>2, NextStageIs DEF Dispatched
    <3> QED BY <3>1 DEF Others
  <2> QED BY <1>2, <2>1, <2>2 DEF BarrierStep, Others
<1>3. CASE CallFails \/ RunNext \/ Connect BY <1>3 DEF Others
<1>4. CASE ClientStep BY <1>4, QuietClientIs DEF Others
<1>5. ASSUME NEW s \in Streams, StreamStep(s) \/ LoseStream(s) PROVE Others
  <2>1. CASE Unsubscribe(s) BY <2>1 DEF Others
  <2>2. CASE ~Unsubscribe(s)
    <3>1. QuietStream(s) BY <1>5, <2>2 DEF StreamStep, QuietStream
    <3> QED BY <3>1, QuietStreamIs DEF Others
  <2> QED BY <2>1, <2>2
<1>6. ASSUME NEW q \in Asks, Ask(q) \/ AskNext(q) PROVE Questions
  BY <1>6 DEF Questions
<1>7. ASSUME NEW r \in Reqs, Served(r) \/ AcceptInside(r) \/ QuarantineAdd(r)
      PROVE  Others \/ Questions
  <2>1. CASE QuietReq(r) BY <2>1, QuietReqIs DEF Others
  <2>2. CASE \/ Prompt(r) \/ Queue(r) \/ AcceptInside(r)
             \/ QuarantineAdd(r)
    BY <2>2 DEF Others
  <2>3. CASE \E q \in Asks : Reply(r, q) BY SMTT(60), <2>3 DEF Questions
  <2> QED BY <1>7, <2>1, <2>2, <2>3 DEF Served, QuietReq
<1> QED BY <1>1, <1>2, <1>3, <1>4, <1>5, <1>6, <1>7 DEF Next

\* No step changes the plan.
LEMMA StepFixed == ASSUME Others \/ Questions PROVE Fixed
<1>1. plan' = plan
  <2>1. CASE Others
    BY <2>1 DEF Others, Quiet, Call, CallFails, Leave, RunNext, RunAppends, RunDrains,
        RunStep, RunEnds, RunOver, RunLeavesAlone, Connect, StreamLeavesAlone, Dispatched,
        Dispatches, Enter, UnlockEmit, ReportQueued, QuarantineReport, QuarantineAdd, Prompt,
        Queue, AcceptInside, Arrives, FlushReplay, Unsubscribe
  <2>2. CASE Questions
    BY <2>2 DEF Questions, Ask, AskNext, Asked, Answered, ContextDone, GiveUp, AskReturns,
        AskLeavesAlone, Reply, Arrives
  <2> QED BY SMTT(60), <2>1, <2>2
<1> QED BY SMTT(60), <1>1, PlanFixed

\* Every step keeps the types, the barrier and the events raised.
LEMMA BarrierStepInv ==
    ASSUME BarrierInv, QuestionInv, Others \/ Questions
    PROVE  BarrierInv'
<1>1. TypeInv /\ HoldInv /\ DueInv /\ SubsInv
  BY DEF BarrierInv, QuestionInv
<1>2. TypeInv'
  <2>1. CASE \/ Leave \/ \E g \in Goroutines : Enter(g) \/ UnlockEmit(g)
             \/ \E r \in Reqs : ReportQueued(r) \/ QuarantineReport(r)
    BY <1>1, <2>1, TakeType
  <2>2. CASE Quiet \/ Call \/ CallFails \/ RunNext \/ Connect
    BY <1>1, <2>2, QuietType, CallType, FailType, RunType, ConnectType
  <2>3. CASE \E e \in Events : Dispatched(e) BY <1>1, <2>3, DispatchType
  <2>4. CASE \E r \in Reqs : QuarantineAdd(r)
    BY <1>1, <2>4, QuarantineType
  <2>5. CASE \E r \in Reqs : \/ Prompt(r) \/ Queue(r)
                             \/ AcceptInside(r) \/ \E q \in Asks : Reply(r, q)
    BY <1>1, <2>5, RequestType
  <2>6. CASE \E s \in Streams : FlushReplay(s) \/ Unsubscribe(s)
    BY <1>1, <2>6, FlushType, UnsubscribeType
  <2>7. CASE \E q \in Asks : Ask(q) \/ AskNext(q) BY <1>1, <2>7, AskType
  <2> QED BY <2>1, <2>2, <2>3, <2>4, <2>5, <2>6, <2>7 DEF Others, Questions
<1>3. HoldInv'
  <2>1. CASE \/ \E g \in Goroutines : Enter(g) \/ UnlockEmit(g)
             \/ \E r \in Reqs : ReportQueued(r) \/ QuarantineReport(r)
    BY <1>1, <2>1, TakeHold
  <2>2. CASE Quiet \/ Leave \/ Call \/ CallFails \/ RunNext
    BY <1>1, <2>2, QuietHold, LeaveHold, CallHold, RunHold
  <2>3. CASE \E e \in Events : Dispatched(e) BY <1>1, <2>3, DispatchHold
  <2>4. CASE \E r \in Reqs : QuarantineAdd(r)
    BY <1>1, <2>4, QuarantineHold
  <2>5. CASE \E r \in Reqs : \/ Prompt(r) \/ Queue(r)
                             \/ AcceptInside(r) \/ \E q \in Asks : Reply(r, q)
    BY <1>1, <2>5, RequestHold
  <2>6. CASE \E s \in Streams : FlushReplay(s) BY <1>1, <2>6, FlushHold
  <2>7. CASE Connect \/ \E s \in Streams : Unsubscribe(s)
    BY <1>1, <2>7, SubsHold
  <2>8. CASE \E q \in Asks : Ask(q) \/ AskNext(q) BY <1>1, <2>8, AskHold
  <2> QED BY <2>1, <2>2, <2>3, <2>4, <2>5, <2>6, <2>7, <2>8 DEF Others, Questions
<1>4. DueInv'
  <2>1. CASE \/ RunNext \/ \E q \in Asks : Ask(q) \/ AskNext(q)
             \/ \E r \in Reqs : \/ Prompt(r) \/ Queue(r)
                                \/ AcceptInside(r) \/ \E q \in Asks : Reply(r, q)
    BY <1>1, <2>1, RaiseDue
  <2>2. CASE \/ Quiet \/ Call \/ CallFails \/ Leave \/ Connect
             \/ \E e \in Events : Dispatched(e)
             \/ \E g \in Goroutines : Enter(g) \/ UnlockEmit(g)
             \/ \E r \in Reqs : ReportQueued(r) \/ QuarantineReport(r) \/ QuarantineAdd(r)
             \/ \E s \in Streams : FlushReplay(s) \/ Unsubscribe(s)
    <3>1. due' = due /\ plan' = plan
      BY <2>2 DEF Quiet, Call, CallFails, Leave, Connect, StreamLeavesAlone, Dispatched,
          Dispatches, Enter, UnlockEmit, ReportQueued, QuarantineReport, QuarantineAdd,
          FlushReplay, Unsubscribe, goVars
    <3> QED BY <1>1, <3>1, PlanFixed, DueKept
  <2> QED BY <2>1, <2>2 DEF Others, Questions
<1> QED BY <1>2, <1>3, <1>4 DEF BarrierInv

\* Every step keeps what is known of the questions.
LEMMA QuestionStepInv ==
    ASSUME BarrierInv, QuestionInv, Others \/ Questions
    PROVE  QuestionInv'
<1>1. /\ TypeInv /\ HoldInv /\ DueInv /\ SubsInv /\ ServedInv
      /\ (\A q \in Asks : ShownInv(q)) /\ (\A q \in Asks : AskInv(q))
  BY DEF BarrierInv, QuestionInv
<1>2. Asks' = Asks BY StepFixed DEF Fixed
<1>3. \A q \in Asks : AskInv(q)'
  <2>1. CASE Others BY <1>1, <2>1, OthersAsk
  <2>2. CASE Questions
    <3>1. PICK p \in Asks : Ask(p) \/ AskNext(p) \/ \E r \in Reqs : Reply(r, p)
      BY <2>2 DEF Questions
    <3> QED BY <1>1, <3>1, AskAsk, ReplyAsk
  <2> QED BY <2>1, <2>2
<1>4. SubsInv' /\ ServedInv' /\ (\A q \in Asks : ShownInv(q))'
  <2>1. ASSUME Frozen, Fixed PROVE SubsInv' /\ ServedInv' /\ (\A q \in Asks : ShownInv(q))'
    BY <1>1, <2>1, FrozenQuestions
  <2>2. CASE Aside BY <1>1, <2>1, <2>2, AsideFrozen
  <2>3. CASE Questions BY <1>1, <2>1, <2>3, AskFrozen DEF Questions
  <2>4. CASE Call BY <1>1, <2>4, CallQuestions
  <2>5. CASE \E e \in Events : Dispatched(e)
    BY <1>1, <2>5, DispatchQuestions
  <2>6. CASE \E s \in Streams : FlushReplay(s)
    BY <1>1, <2>6, FlushQuestions
  <2>7. CASE Connect \/ \E s \in Streams : Unsubscribe(s)
    BY <1>1, <2>7, SubsQuestions
  <2> QED BY <2>2, <2>3, <2>4, <2>5, <2>6, <2>7 DEF Others, Aside
<1>5. (\A q \in Asks : AskInv(q))' BY <1>2, <1>3
<1> QED BY <1>4, <1>5 DEF QuestionInv

\* Nothing is asked and nobody but the recorder subscribes.
LEMMA QuestionInit == ASSUME Init PROVE BarrierInv /\ QuestionInv
<1> USE DEF Init
<1>1. plan \in Plans /\ plan.asks \in Nat /\ plan.connects \in Nat /\ plan.kinds \in Seq(Kinds)
  BY PlansOK
<1>2. TypeInv
  <2>1. /\ subs \in Seq(0..opened) /\ opened \in Nat /\ opened <= plan.connects
        /\ <<>> \in Seq(Reqs) /\ <<>> \in Seq(Asks) /\ <<>> \in Seq(Events)
    BY <1>1
  <2>2. /\ at \in [Goroutines -> Places] /\ due \in [Goroutines -> Events]
        /\ err \in [Goroutines -> BOOLEAN] /\ passes \in [Goroutines -> Nat]
    <3>1. NoEvent \in Events /\ "none" \in Places
      BY DEF NoEvent, Ev, Events, EventKinds, Places
    <3> QED BY <3>1
  <2>3. NoStream \in StreamRecs /\ NoRequest \in ReqRecs
    <3>1. NoStream \in StreamRecs BY <2>1 DEF NoStream, StreamRecs
    <3>2. NoRequest \in ReqRecs
      BY DEF NoRequest, ReqRecs, HandlerPlaces, Words
    <3> QED BY <3>1, <3>2
  <2>4. stream \in [Streams -> StreamRecs] /\ req \in [Reqs -> ReqRecs]
    BY <2>3
  <2> QED BY <2>1, <2>2, <2>4 DEF TypeInv
<1>3. /\ Run \in Goroutines /\ \A q \in Asks : Asker(q) \in Goroutines
      /\ \A r \in Reqs : <<"report", r>> \in Goroutines
      /\ \A s \in Streams : <<"replay", s>> \in Goroutines
  BY <1>2, PlanIs
<1>4. HoldInv BY <1>3 DEF HoldInv
<1>5. DueInv BY DEF DueInv, NoEvent, Ev
<1>6. \A s \in Streams : \A e : Calls(s, e) = {} /\ Coming(s, e) = {} /\ ~Gets(s, e)
  BY DEF Calls, Coming, Gets, NoStream
<1>7. SubsInv
  <2>1. DOMAIN subs = {1} /\ subs[1] = 0 /\ waiting = <<>> /\ \A s \in Streams : replays[s] = <<>>
    OBVIOUS
  <2>2. \A s \in Streams : stream[s].got = <<>> BY DEF NoStream
  <2> QED BY <2>1, <2>2 DEF SubsInv
<1>8. ServedInv BY DEF ServedInv
<1>9. ASSUME NEW q \in Asks PROVE AskInv(q) /\ ShownInv(q)
  <2>1. at[Asker(q)] = "none" /\ due[Asker(q)] = NoEvent /\ q \notin asks /\ reply[q] = 0
    BY <1>3, <1>9
  <2>2. NoEvent # Ev("closed", q) /\ NoEvent # Ev("question", q)
    BY DEF NoEvent, Ev
  <2>3. AskInv(q) BY <2>1, <2>2 DEF AskInv
  <2>4. waiting = <<>> /\ \A s \in Streams : replays[s] = <<>> OBVIOUS
  <2>5. ShownInv(q) BY <1>6, <2>4 DEF ShownInv, Once
  <2> QED BY <2>3, <2>5
<1> QED BY <1>2, <1>4, <1>5, <1>7, <1>8, <1>9 DEF BarrierInv, QuestionInv

\* What is known of the questions is that they are served.
LEMMA AskIs == ASSUME BarrierInv, QuestionInv PROVE AskIsServed
<1>1. /\ TypeInv /\ SubsInv /\ ServedInv
      /\ (\A q \in Asks : ShownInv(q)) /\ (\A q \in Asks : AskInv(q))
  BY DEF BarrierInv, QuestionInv
<1>2. ReplyIsKept BY <1>1 DEF ReplyIsKept, AskInv
<1>3. ASSUME NEW s \in Streams, NEW q \in Asks
      PROVE  LET shown == Calls(s, Ev("question", q))
                 closed == Calls(s, Ev("closed", q))
             IN  /\ Cardinality(shown) <= 1
                 /\ \A i \in shown, j \in closed : i < j
  <2> DEFINE shown == Calls(s, Ev("question", q))
             closed == Calls(s, Ev("closed", q))
  <2>1. Once(shown, closed) BY <1>1 DEF ShownInv
  <2> HIDE DEF shown, closed
  <2>2. CASE shown = {}
    <3>1. Cardinality(shown) = 0 BY <2>2, FS_EmptySet
    <3> QED BY <2>1, <3>1 DEF Once, shown, closed
  <2>3. CASE shown # {}
    <3>1. PICK i \in shown : TRUE BY <2>3
    <3>2. shown = {i} BY <2>1, <3>1 DEF Once
    <3>3. Cardinality(shown) = 1 BY <3>2, FS_Singleton
    <3> QED BY <2>1, <3>3 DEF Once, shown, closed
  <2> QED BY <2>2, <2>3
<1>4. ASSUME fails = 0, NEW q \in Range(waiting), NEW s \in Range(subs) \ {0}
      PROVE  \/ Calls(s, Ev("question", q)) # {}
             \/ q \in Range(replays[s])
             \/ /\ hold # Free
                /\ <<s, Ev("question", q)>> \in Range(hold.calls)
  <2>1. In(q, waiting) /\ In(s, subs) /\ s # 0 BY DEF Range, In
  <2>2. s \in Streams BY <1>1, <2>1, SubsAre DEF In
  <2>3. Gets(s, Ev("question", q)) \/ In(q, replays[s])
    BY <1>1, <1>4, <2>1, <2>2, ServedIs
  <2>4. CASE In(q, replays[s]) BY <2>4 DEF Range, In
  <2>5. CASE Coming(s, Ev("question", q)) # {} BY <2>5 DEF Coming, Range
  <2> QED BY <2>3, <2>4, <2>5 DEF Gets
<1> QED BY <1>2, <1>3, <1>4 DEF AskIsServed, QuestionsAreShown

\* A question is put to no subscriber twice and never after its close, and
\* the reply Agent.Reply takes is the one ask returns, whatever fails; while
\* no subscriber has failed, one that waits is put to every subscriber, one
\* that attaches while it waits included (ask, Reply, Subscribe, takeReplays
\* and flushReplay of agent.go): for any requests, questions and streams, any
\* buffer and any bound on the passes.
THEOREM QuestionsAreServed == Spec => []AskIsServed
<1> DEFINE I == BarrierInv /\ QuestionInv
<1>1. Init => I BY QuestionInit
<1>2. I /\ [Next]_vars => I'
  <2> SUFFICES ASSUME BarrierInv, QuestionInv, [Next]_vars PROVE BarrierInv' /\ QuestionInv'
    OBVIOUS
  <2>1. Others \/ Questions BY StepIs
  <2> QED BY <2>1, BarrierStepInv, QuestionStepInv
<1>3. I => AskIsServed BY AskIs
<1> HIDE DEF I
<1> QED BY <1>1, <1>2, <1>3, PTL DEF Spec

-----------------------------------------------------------------------------
(* Reports: the barrier taken and let go.                                  *)

\* Goroutine g takes the barrier, and has then nobody to call but a stream
\* it owes questions; a run's end is among what it has to deliver.
Takes(g) ==
    /\ hold = Free /\ hold' \in Holds /\ hold'.g = g /\ hold'.evs = <<>> /\ ~hold'.err
    /\ \A i \in DOMAIN hold'.calls : hold'.calls[i][1] # 0
    /\ \A i \in DOMAIN hold'.todo : hold'.todo[i] = "event" =>
          \E j \in DOMAIN hold'.todo : j < i /\ hold'.todo[j] = "reports"
    /\ at[g] = "enter" /\ due[g].k = "end" =>
          \E i \in DOMAIN hold'.todo : hold'.todo[i] = "event"
    /\ at' = [at EXCEPT ![g] = "hold"]

\* It goes on without: it had a kept error to return, or nothing to do.
Passes(g, x) ==
    /\ hold' = hold /\ at' = [at EXCEPT ![g] = x]
    /\ at[g] = "enter" => due[g].k # "end" /\ x = "recheck"
    /\ at[g] \in {"recheck", "owed"} => quarantineOwed = <<>> \/ hold # Free

\* It lets it go, with all its stages done.
LetsGo ==
    /\ hold # Free /\ hold.calls = <<>> /\ hold.evs = <<>> /\ hold' = Free
    /\ \A i \in DOMAIN hold.todo : hold.todo[i] # "event"
    /\ \E x : at' = [at EXCEPT ![hold.g] = x] /\ (hold.err \/ x = "recheck")

Barrier ==
    /\ UNCHANGED <<fails, running, runEnded, queued, quarantine, quarantineOwed, steer,
                   taken, due, reported, told>>
    /\ LetsGo \/ \E g \in Goroutines : Takes(g) \/ \E x : Passes(g, x)

\* The steps that take the barrier, pass it by or let it go.
LEMMA BarrierIs ==
    ASSUME TypeInv, HoldInv, DueInv,
           \/ Leave \/ \E g \in Goroutines : Enter(g) \/ UnlockEmit(g)
           \/ \E r \in Reqs : ReportQueued(r) \/ QuarantineReport(r)
           \/ \E s \in Streams : FlushReplay(s)
    PROVE  Barrier
<1>1. UNCHANGED <<fails, running, runEnded, queued, quarantine, quarantineOwed, steer,
                  taken, due, reported, told>>
  BY DEF Leave, Enter, UnlockEmit, ReportQueued, QuarantineReport, FlushReplay, agentVars,
      quarVars, runVars, pastVars
<1>2. ASSUME NEW g \in Goroutines, NEW todo \in Seq(StageNames), NEW pass \in BOOLEAN,
             hold = Free, hold' = Held(g, todo, pass), at' = [at EXCEPT ![g] = "hold"],
             \A i \in DOMAIN todo : todo[i] = "event" =>
                \E j \in DOMAIN todo : j < i /\ todo[j] = "reports",
             at[g] = "enter" => \E i \in DOMAIN todo : todo[i] = "event"
      PROVE  Takes(g)
  <2>1. /\ hold' \in Holds /\ hold'.g = g /\ hold'.todo = todo /\ hold'.evs = <<>>
        /\ hold'.calls = <<>> /\ ~hold'.err
    BY <1>2, HeldIs
  <2> QED BY <1>2, <2>1 DEF Takes
<1>3. ASSUME Leave PROVE LetsGo
  <2> DEFINE x == IF hold.pass /\ hold.err THEN "back" ELSE "recheck"
  <2>1. /\ hold # Free /\ hold.calls = <<>> /\ hold.evs = <<>> /\ hold' = Free
        /\ Rest(hold.todo) = <<>> /\ at' = [at EXCEPT ![hold.g] = x] /\ hold \in Holds
    BY <1>3 DEF Leave, TypeInv
  <2>2. hold.todo \in Seq(StageNames) BY <2>1 DEF Holds
  <2>3. \A i \in DOMAIN hold.todo : Stage(hold.todo[i]) = <<>>
    BY <2>1, <2>2, RestIs
  <2>4. Stage("event") # <<>> BY DEF Stage
  <2>5. hold.err \/ x = "recheck" OBVIOUS
  <2> QED BY <2>1, <2>3, <2>4, <2>5 DEF LetsGo
<1>4. ASSUME NEW g \in Goroutines, Enter(g) PROVE Takes(g) \/ \E x : Passes(g, x)
  <2>1. CASE queuedErr /\ due[g].k # "end"
    <3>1. Passes(g, "recheck") BY <1>4, <2>1 DEF Enter, Passes
    <3> QED BY <3>1
  <2>2. CASE ~(queuedErr /\ due[g].k # "end")
    <3> DEFINE d == DeliverStages(due[g])
    <3>1. /\ d \in Seq(StageNames) /\ 1 \in DOMAIN d /\ d[1] = "reports" /\ 2 \in DOMAIN d
          /\ \A i \in DOMAIN d : d[i] = "event" <=> i = 2
      BY StagesAre
    <3>2. hold = Free /\ hold' = Held(g, d, FALSE) /\ at' = [at EXCEPT ![g] = "hold"]
      BY <1>4, <2>2 DEF Enter
    <3> HIDE DEF d
    <3>3. \A i \in DOMAIN d : d[i] = "event" => \E j \in DOMAIN d : j < i /\ d[j] = "reports"
      BY <3>1
    <3> QED BY <1>2, <3>1, <3>2, <3>3
  <2> QED BY <2>1, <2>2
<1>5. ASSUME NEW g \in Goroutines, UnlockEmit(g) PROVE Takes(g) \/ \E x : Passes(g, x)
  <2> DEFINE p == PassOwed(g)
             owed == (quarantineOwed # <<>> \/ p) /\ hold = Free
             todo == <<"quarantine">> \o (IF p THEN <<"flush">> ELSE <<>>)
  <2>0. at[g] = "recheck" BY <1>5 DEF UnlockEmit
  <2>1. CASE ~owed
    <3>1. hold' = hold /\ at' = [at EXCEPT ![g] = "back"]
      BY <1>5, <2>1 DEF UnlockEmit
    <3>2. quarantineOwed = <<>> \/ hold # Free BY <2>1
    <3>3. Passes(g, "back") BY <2>0, <3>1, <3>2 DEF Passes
    <3> QED BY <3>3
  <2>2. CASE owed
    <3>1. todo \in Seq(StageNames) /\ \A i \in DOMAIN todo : todo[i] # "event"
      BY PassStages
    <3>2. hold = Free /\ hold' = Held(g, todo, TRUE) /\ at' = [at EXCEPT ![g] = "hold"]
      BY <1>5, <2>2 DEF UnlockEmit
    <3> HIDE DEF todo
    <3> QED BY <1>2, <2>0, <3>1, <3>2
  <2> QED BY <2>1, <2>2
<1>6. ASSUME NEW r \in Reqs, ReportQueued(r) PROVE Barrier
  <2> DEFINE g == <<"report", r>>
             todo == <<"flush">>
  <2>1. g \in Goroutines /\ at[g] = "accepted"
    BY <1>6, PlanIs DEF ReportQueued
  <2>2. CASE QueuedOwed /\ hold = Free
    <3>1. todo \in Seq(StageNames) /\ \A i \in DOMAIN todo : todo[i] # "event"
      BY DEF StageNames
    <3>2. hold' = Held(g, todo, FALSE) /\ at' = [at EXCEPT ![g] = "hold"]
      BY <1>6, <2>2 DEF ReportQueued
    <3> HIDE DEF todo, g
    <3>3. Takes(g) BY <1>2, <2>1, <2>2, <3>1, <3>2
    <3> QED BY <1>1, <2>1, <3>3 DEF Barrier
  <2>3. CASE ~(QueuedOwed /\ hold = Free)
    <3>1. Passes(g, "back") BY <1>6, <2>1, <2>3 DEF ReportQueued, Passes
    <3> HIDE DEF g
    <3> QED BY <1>1, <2>1, <3>1 DEF Barrier
  <2> QED BY <2>2, <2>3
<1>7. ASSUME NEW r \in Reqs, QuarantineReport(r) PROVE Barrier
  <2> DEFINE g == <<"quarantine", r>>
             todo == <<"quarantine">>
  <2>1. g \in Goroutines /\ at[g] = "owed"
    BY <1>7, PlanIs DEF QuarantineReport
  <2>2. CASE hold = Free
    <3>1. todo \in Seq(StageNames) /\ \A i \in DOMAIN todo : todo[i] # "event"
      BY DEF StageNames
    <3>2. hold' = Held(g, todo, FALSE) /\ at' = [at EXCEPT ![g] = "hold"]
      BY <1>7, <2>2 DEF QuarantineReport
    <3> HIDE DEF todo, g
    <3>3. Takes(g) BY <1>2, <2>1, <2>2, <3>1, <3>2
    <3> QED BY <1>1, <2>1, <3>3 DEF Barrier
  <2>3. CASE hold # Free
    <3>1. Passes(g, "back")
      BY <1>7, <2>1, <2>3 DEF QuarantineReport, Passes
    <3> HIDE DEF g
    <3> QED BY <1>1, <2>1, <3>1 DEF Barrier
  <2> QED BY <2>2, <2>3
<1>8. ASSUME NEW s \in Streams, FlushReplay(s) PROVE Barrier
  <2> DEFINE g == <<"replay", s>>
  <2>1. g \in Goroutines BY PlanIs
  <2>2. at' = [at EXCEPT ![g] = "hold"] BY <1>8 DEF FlushReplay
  <2>3. /\ hold = Free /\ hold' \in Holds /\ hold'.g = g
        /\ hold'.todo = <<>> /\ hold'.evs = <<>> /\ ~hold'.err
        /\ DOMAIN hold'.calls = DOMAIN replays[s]
        /\ \A i \in DOMAIN replays[s] : hold'.calls[i] = <<s, Ev("question", replays[s][i])>>
    BY <1>8, FlushIs
  <2>4. \A i \in DOMAIN hold'.calls : hold'.calls[i][1] # 0
    <3>1. s # 0 BY PlanIs
    <3> QED BY <2>3, <3>1
  <2>5. due[g].k # "end" BY <2>1 DEF DueInv, Run
  <2> HIDE DEF g
  <2>6. Takes(g) BY <2>2, <2>3, <2>4, <2>5 DEF Takes
  <2> QED BY <1>1, <2>1, <2>6 DEF Barrier
<1> QED BY <1>1, <1>3, <1>4, <1>5, <1>6, <1>7, <1>8 DEF Barrier

\* Nothing that is told, or on its way, is lost as the barrier changes hands.
LEMMA BarrierReports ==
    ASSUME TypeInv, HoldInv, ReportsInv, Fixed, Barrier PROVE ReportsInv'
<1>1. UNCHANGED <<fails, running, runEnded, queued, quarantine, quarantineOwed, steer,
                  taken, due, reported, told>>
  BY DEF Barrier
<1>2. ReportInv /\ EndInv /\ QuarInv /\ OwedInv BY DEF ReportsInv
<1>3. at \in [Goroutines -> Places] /\ Run \in Goroutines /\ Run' = Run
      /\ (hold # Free => hold \in Holds /\ hold.g \in Goroutines)
  BY PlanIs DEF TypeInv, Run, Holds
\* What is on its way, before and after.
<1> DEFINE Idle == /\ hold # Free => hold.calls = <<>> /\ hold.evs = <<>>
                   /\ hold' # Free => /\ hold'.evs = <<>> /\ ~hold'.err
                                      /\ \A i \in DOMAIN hold'.calls : hold'.calls[i][1] # 0
           Order == hold' # Free =>
                      \A i \in DOMAIN hold'.todo : hold'.todo[i] = "event" =>
                         \E j \in DOMAIN hold'.todo : j < i /\ hold'.todo[j] = "reports"
<1>4. hold' = hold \/ (Idle /\ Order)
  <2>1. CASE LetsGo BY <2>1 DEF LetsGo
  <2>2. ASSUME NEW g \in Goroutines, Takes(g) PROVE Idle /\ Order
    BY <2>2 DEF Takes
  <2>3. ASSUME NEW g \in Goroutines, NEW x, Passes(g, x) PROVE hold' = hold
    BY <2>3 DEF Passes
  <2> QED BY <2>1, <2>2, <2>3 DEF Barrier
<1>5. \A k : \A r : Coming0(k, r)' <=> Coming0(k, r)
  <2>1. CASE hold' = hold BY <2>1 DEF Coming0, Ev
  <2>2. CASE Idle
    <3>1. \A k : \A r : ~Coming0(k, r) BY <2>2 DEF Coming0
    <3>2. \A k : \A r : ~Coming0(k, r)' BY <2>2 DEF Coming0
    <3> QED BY <3>1, <3>2
  <2> QED BY <1>4, <2>1, <2>2
<1>6. \A r : (Told(r)' <=> Told(r)) /\ (IsQueued(r)' <=> IsQueued(r))
  BY <1>1, <1>5 DEF Told, IsQueued
<1>7. ReportInv'
  <2> SUFFICES ASSUME fails' = 0
               PROVE  /\ \A i \in DOMAIN steer' : IsQueued(steer[i])' \/ Told(steer[i])'
                      /\ \A i \in DOMAIN taken' : IsQueued(taken[i])' \/ Told(taken[i])'
                      /\ (due[Run].k = "item" => IsQueued(due[Run].n) \/ Told(due[Run].n))'
                      /\ (hold # Free /\ hold.g = Run /\ due[Run].k = "item" =>
                            \A i \in DOMAIN hold.todo : hold.todo[i] = "event" =>
                               \/ Told(due[Run].n)
                               \/ \E j \in DOMAIN hold.todo : j < i /\ hold.todo[j] = "reports")'
                      /\ (hold # Free =>
                            \A i \in DOMAIN hold.calls : hold.calls[i][1] = 0 /\ hold.calls[i][2].k = "item"
                               => hold.calls[i][2].n \in reported)'
    BY DEF ReportInv
  <2>1. fails = 0 BY <1>1
  <2>2. \A r : IsQueued(r) \/ Told(r) => IsQueued(r)' \/ Told(r)'
    BY <1>6
  <2>3. CASE hold' = hold
    BY <1>1, <1>2, <1>3, <2>1, <2>3 DEF ReportInv, Told, IsQueued, Coming0, Ev
  <2>4. CASE Idle /\ Order
    <3>1. /\ \A i \in DOMAIN steer' : IsQueued(steer[i])' \/ Told(steer[i])'
          /\ \A i \in DOMAIN taken' : IsQueued(taken[i])' \/ Told(taken[i])'
          /\ (due[Run].k = "item" => IsQueued(due[Run].n) \/ Told(due[Run].n))'
      <4>1. \A r : (r \in reported \/ IsQueued(r)) <=> (IsQueued(r) \/ Told(r))
        BY <2>4 DEF Told, Coming0
      <4>2. /\ \A i \in DOMAIN steer : steer[i] \in reported \/ IsQueued(steer[i])
            /\ \A i \in DOMAIN taken : taken[i] \in reported \/ IsQueued(taken[i])
            /\ due[Run].k = "item" => due[Run].n \in reported \/ IsQueued(due[Run].n)
        BY <1>2, <2>1, <4>1 DEF ReportInv
      <4> QED BY <1>1, <1>3, <4>2 DEF Told, IsQueued
    <3>2. (hold # Free /\ hold.g = Run /\ due[Run].k = "item" =>
             \A i \in DOMAIN hold.todo : hold.todo[i] = "event" =>
                \/ Told(due[Run].n)
                \/ \E j \in DOMAIN hold.todo : j < i /\ hold.todo[j] = "reports")'
      BY <2>4
    <3>3. (hold # Free =>
             \A i \in DOMAIN hold.calls : hold.calls[i][1] = 0 /\ hold.calls[i][2].k = "item"
                => hold.calls[i][2].n \in reported)'
      BY <2>4
    <3> QED BY <3>1, <3>2, <3>3
  <2> QED BY <1>4, <2>3, <2>4
<1>8. EndInv'
  <2>1. ASSUME due[Run].k = "end", ToDispatch(Run) PROVE ToDispatch(Run)'
    <3>1. CASE LetsGo
      <4>1. PICK x : at' = [at EXCEPT ![hold.g] = x] /\ hold # Free
                     /\ \A i \in DOMAIN hold.todo : hold.todo[i] # "event"
        BY <3>1 DEF LetsGo
      <4>2. at[Run] = "enter" BY <2>1, <4>1 DEF ToDispatch
      <4>3. hold.g # Run BY <4>1, <4>2 DEF HoldInv
      <4>4. at'[Run] = "enter" BY <1>3, <4>1, <4>2, <4>3
      <4> QED BY <1>3, <4>4 DEF ToDispatch
    <3>2. ASSUME NEW g \in Goroutines, Takes(g) PROVE ToDispatch(Run)'
      <4>1. at[Run] = "enter" /\ hold' # Free /\ hold'.g = g /\ at' = [at EXCEPT ![g] = "hold"]
        BY <2>1, <3>2, PlanIs DEF ToDispatch, Takes
      <4>2. CASE g = Run
        BY <1>3, <2>1, <3>2, <4>1, <4>2 DEF ToDispatch, Takes
      <4>3. CASE g # Run
        <5>1. at'[Run] = "enter" BY <1>3, <4>1, <4>3
        <5> QED BY <1>3, <5>1 DEF ToDispatch
      <4> QED BY <4>2, <4>3
    <3>3. ASSUME NEW g \in Goroutines, NEW x, Passes(g, x) PROVE ToDispatch(Run)'
      <4>1. hold' = hold /\ at' = [at EXCEPT ![g] = x] /\ (at[g] = "enter" => g # Run)
        BY <2>1, <3>3 DEF Passes
      <4>2. CASE at[Run] = "enter"
        <5>1. at'[Run] = "enter" BY <1>3, <4>1, <4>2
        <5> QED BY <1>3, <5>1 DEF ToDispatch
      <4>3. CASE at[Run] # "enter"
        BY <1>3, <2>1, <4>1, <4>3 DEF ToDispatch
      <4> QED BY <4>2, <4>3
    <3> QED BY <3>1, <3>2, <3>3 DEF Barrier
  <2> QED BY <1>1, <1>2, <1>3, <2>1 DEF EndInv
<1>9. QuarInv'
  <2> SUFFICES ASSUME fails' = 0, NEW n \in quarantine'
               PROVE  \/ n \in told' \/ Coming0("added", n)'
                      \/ \E i \in DOMAIN quarantineOwed' : quarantineOwed'[i] = n
                      \/ running' /\ ~runEnded'
                      \/ /\ hold' # Free /\ n \in hold'.list
                         /\ \E i \in DOMAIN hold'.calls :
                               hold'.calls[i][1] = 0 /\ hold'.calls[i][2].k = "end"
    BY DEF QuarInv
  <2>1. \/ n \in told \/ Coming0("added", n)
        \/ \E i \in DOMAIN quarantineOwed : quarantineOwed[i] = n
        \/ running /\ ~runEnded
        \/ /\ hold # Free /\ n \in hold.list
           /\ \E i \in DOMAIN hold.calls : hold.calls[i][1] = 0 /\ hold.calls[i][2].k = "end"
    BY <1>1, <1>2 DEF QuarInv
  <2>2. hold' # hold => hold = Free \/ hold.calls = <<>> BY <1>4
  <2> HIDE DEF Idle, Order
  <2> QED BY <1>1, <1>5, <2>1, <2>2
<1>10. OwedInv'
  <2> SUFFICES ASSUME fails' = 0
               PROVE  /\ hold' # Free => ~hold'.err
                      /\ quarantineOwed' # <<>> =>
                            hold' # Free \/ \E g \in Goroutines' : at'[g] \in {"recheck", "owed"}
    BY DEF OwedInv
  <2>1. fails = 0 BY <1>1
  <2>2. hold' # Free => ~hold'.err BY <1>2, <1>4, <2>1 DEF OwedInv
  <2>3. ASSUME quarantineOwed # <<>>, hold' = Free
        PROVE  \E g \in Goroutines : at'[g] \in {"recheck", "owed"}
    <3>1. CASE LetsGo
      <4>1. PICK x : at' = [at EXCEPT ![hold.g] = x] /\ (hold.err \/ x = "recheck") /\ hold # Free
        BY <3>1 DEF LetsGo
      <4>2. x = "recheck" BY <1>2, <2>1, <4>1 DEF OwedInv
      <4>3. at'[hold.g] = "recheck" BY <1>3, <4>1, <4>2
      <4> QED BY <1>3, <4>1, <4>3
    <3>2. ASSUME NEW g \in Goroutines, Takes(g) PROVE FALSE
      BY <2>3, <3>2, PlanIs DEF Takes
    <3>3. ASSUME NEW g \in Goroutines, NEW x, Passes(g, x)
          PROVE  \E h \in Goroutines : at'[h] \in {"recheck", "owed"}
      <4>1. hold = Free /\ at' = [at EXCEPT ![g] = x]
        BY <2>3, <3>3 DEF Passes
      <4>2. PICK h \in Goroutines : at[h] \in {"recheck", "owed"}
        BY <1>2, <2>1, <2>3, <4>1 DEF OwedInv
      <4>3. h # g BY <2>3, <3>3, <4>1, <4>2 DEF Passes
      <4>4. at'[h] = at[h] BY <1>3, <4>1, <4>3
      <4> QED BY <4>2, <4>4
    <3> QED BY <3>1, <3>2, <3>3 DEF Barrier
  <2>4. Goroutines' = Goroutines BY DEF Fixed
  <2> QED BY <1>1, <2>2, <2>3, <2>4
<1> QED BY <1>7, <1>8, <1>9, <1>10 DEF ReportsInv

-----------------------------------------------------------------------------
(* Reports: the steps that leave the barrier as it is.                     *)

\* What is accepted is queued, what the run takes was steered and what it
\* appends it took; what is quarantined is owed, or the run's; who looks at
\* what is owed still does.
Still ==
    /\ UNCHANGED <<hold, fails, reported, told, runEnded>>
    /\ \A x : /\ In(x, queued) => In(x, queued')
              /\ In(x, steer') => In(x, steer) \/ In(x, queued')
              /\ In(x, taken') => In(x, taken) \/ In(x, steer)
              /\ In(x, quarantineOwed) => In(x, quarantineOwed')
              /\ x \in quarantine' =>
                    x \in quarantine \/ In(x, quarantineOwed') \/ (running' /\ ~runEnded)
    /\ \/ due'[Run] = due[Run] /\ (at[Run] = "enter" => at'[Run] = "enter")
       \/ /\ at[Run] # "hold"
          /\ due'[Run].k = "item" => In(due'[Run].n, taken)
          /\ due'[Run].k = "end" => at'[Run] = "enter"
    /\ fails = 0 /\ running /\ ~runEnded => running'
    /\ quarantineOwed' # quarantineOwed => \E g \in Goroutines : at'[g] = "owed"
    /\ \A g \in Goroutines : at[g] \in {"recheck", "owed"} => at'[g] = at[g]

\* Such a step keeps what is reported, or is to be.
LEMMA StillReports ==
    ASSUME TypeInv, HoldInv, ReportsInv, Fixed, Still PROVE ReportsInv'
<1>1. UNCHANGED <<hold, fails, reported, told, runEnded>> /\ Run' = Run
  BY DEF Still, Run
<1>2. ReportInv /\ EndInv /\ QuarInv /\ OwedInv BY DEF ReportsInv
<1>3. \A k : \A r : Coming0(k, r)' <=> Coming0(k, r)
  BY <1>1 DEF Coming0, Ev
<1>4. \A r : Told(r) <=> r \in reported \/ Coming0("queued", r)
  BY DEF Told
<1>5. \A r : Told(r)' <=> r \in reported \/ Coming0("queued", r)
  BY <1>1, <1>3 DEF Told
<1> DEFINE Known(r) == In(r, queued) \/ r \in reported \/ Coming0("queued", r)
           Known2(r) == In(r, queued') \/ r \in reported \/ Coming0("queued", r)
<1>6. fails = 0 => /\ \A x : In(x, steer) \/ In(x, taken) => Known(x)
                   /\ due[Run].k = "item" => Known(due[Run].n)
  BY <1>2, <1>4 DEF ReportInv, IsQueued, In
<1>7. fails = 0 => /\ \A x : In(x, steer') \/ In(x, taken') => Known2(x)
                   /\ due'[Run].k = "item" => Known2(due'[Run].n)
  BY <1>6 DEF Still
<1>8. ReportInv'
  <2>1. ASSUME fails = 0
        PROVE  /\ \A i \in DOMAIN steer' : IsQueued(steer[i])' \/ Told(steer[i])'
               /\ \A i \in DOMAIN taken' : IsQueued(taken[i])' \/ Told(taken[i])'
               /\ (due[Run].k = "item" => IsQueued(due[Run].n) \/ Told(due[Run].n))'
    <3>1. ASSUME NEW i \in DOMAIN steer' PROVE IsQueued(steer[i])' \/ Told(steer[i])'
      <4>1. Known2(steer'[i]) BY <1>7, <2>1 DEF In
      <4> QED BY <1>1, <4>1 DEF IsQueued, Told, Coming0, In, Ev
    <3>2. ASSUME NEW i \in DOMAIN taken' PROVE IsQueued(taken[i])' \/ Told(taken[i])'
      <4>1. Known2(taken'[i]) BY <1>7, <2>1 DEF In
      <4> QED BY <1>1, <4>1 DEF IsQueued, Told, Coming0, In, Ev
    <3>3. (due[Run].k = "item" => IsQueued(due[Run].n) \/ Told(due[Run].n))'
      <4>1. due'[Run].k = "item" => Known2(due'[Run].n) BY <1>7, <2>1
      <4> QED BY <1>1, <4>1 DEF IsQueued, Told, Coming0, In, Ev
    <3> QED BY <3>1, <3>2, <3>3
  <2>2. ASSUME fails = 0
        PROVE  (hold # Free /\ hold.g = Run /\ due[Run].k = "item" =>
                  \A i \in DOMAIN hold.todo : hold.todo[i] = "event" =>
                     \/ Told(due[Run].n)
                     \/ \E j \in DOMAIN hold.todo : j < i /\ hold.todo[j] = "reports")'
    <3>1. hold # Free /\ hold.g = Run => due'[Run] = due[Run]
      BY DEF Still, HoldInv
    <3>2. hold # Free /\ hold.g = Run /\ due[Run].k = "item" =>
             \A i \in DOMAIN hold.todo : hold.todo[i] = "event" =>
                \/ due[Run].n \in reported \/ Coming0("queued", due[Run].n)
                \/ \E j \in DOMAIN hold.todo : j < i /\ hold.todo[j] = "reports"
      BY <1>2, <1>4, <2>2 DEF ReportInv
    <3>3. hold # Free /\ hold.g = Run =>
             (due[Run].n \in reported \/ Coming0("queued", due[Run].n) => Told(due[Run].n)')
      BY <1>1, <3>1 DEF Told, Coming0, Ev
    <3> QED BY <1>1, <3>1, <3>2, <3>3
  <2>3. ASSUME fails = 0
        PROVE  (hold # Free =>
                  \A i \in DOMAIN hold.calls : hold.calls[i][1] = 0 /\ hold.calls[i][2].k = "item"
                     => hold.calls[i][2].n \in reported)'
    BY <1>1, <1>2, <2>3 DEF ReportInv
  <2> QED BY <1>1, <2>1, <2>2, <2>3 DEF ReportInv
<1>9. EndInv'
  <2> SUFFICES ASSUME fails = 0, due'[Run].k = "end", ~ToDispatch(Run)' PROVE runEnded
    BY <1>1 DEF EndInv
  <2>1. at'[Run] # "enter" BY <1>1 DEF ToDispatch
  <2>2. due'[Run] = due[Run] /\ at[Run] # "enter" BY <2>1 DEF Still
  <2>3. ~ToDispatch(Run) BY <1>1, <2>2 DEF ToDispatch
  <2> QED BY <1>2, <2>2, <2>3 DEF EndInv
<1>10. QuarInv'
  <2> SUFFICES ASSUME fails = 0, NEW n \in quarantine'
               PROVE  \/ n \in told' \/ Coming0("added", n)'
                      \/ \E i \in DOMAIN quarantineOwed' : quarantineOwed'[i] = n
                      \/ running' /\ ~runEnded'
                      \/ /\ hold' # Free /\ n \in hold'.list
                         /\ \E i \in DOMAIN hold'.calls :
                               hold'.calls[i][1] = 0 /\ hold'.calls[i][2].k = "end"
    BY <1>1 DEF QuarInv
  <2>1. CASE n \in quarantine
    <3>1. \/ n \in told \/ Coming0("added", n) \/ In(n, quarantineOwed)
          \/ running /\ ~runEnded
          \/ /\ hold # Free /\ n \in hold.list
             /\ \E i \in DOMAIN hold.calls : hold.calls[i][1] = 0 /\ hold.calls[i][2].k = "end"
      BY <1>2, <2>1 DEF QuarInv, In
    <3>2. /\ In(n, quarantineOwed) => In(n, quarantineOwed')
          /\ running /\ ~runEnded => running'
      BY DEF Still
    <3> QED BY <1>1, <1>3, <3>1, <3>2 DEF In
  <2>2. CASE n \notin quarantine
    <3>1. In(n, quarantineOwed') \/ (running' /\ ~runEnded)
      BY <2>2 DEF Still
    <3> QED BY <1>1, <3>1 DEF In
  <2> QED BY <2>1, <2>2
<1>11. OwedInv'
  <2>1. ASSUME fails = 0, quarantineOwed' # <<>>, hold = Free
        PROVE  \E g \in Goroutines : at'[g] \in {"recheck", "owed"}
    <3>1. CASE quarantineOwed' # quarantineOwed BY <3>1 DEF Still
    <3>2. CASE quarantineOwed' = quarantineOwed
      <4>1. PICK g \in Goroutines : at[g] \in {"recheck", "owed"}
        BY <1>2, <2>1, <3>2 DEF OwedInv
      <4> QED BY <4>1 DEF Still
    <3> QED BY <3>1, <3>2
  <2>2. fails = 0 /\ hold # Free => ~hold.err BY <1>2 DEF OwedInv
  <2> QED BY <1>1, <2>1, <2>2 DEF OwedInv, Fixed
<1> QED BY <1>8, <1>9, <1>10, <1>11 DEF ReportsInv

\* What is in a sequence with one more.
LEMMA AppendIs ==
    ASSUME NEW T, NEW s \in Seq(T), NEW y \in T
    PROVE  \A x : In(x, Append(s, y)) <=> In(x, s) \/ x = y
<1>1. /\ DOMAIN Append(s, y) = 1..(Len(s) + 1) /\ Len(s) \in Nat /\ DOMAIN s = 1..Len(s)
      /\ Append(s, y)[Len(s) + 1] = y /\ \A i \in 1..Len(s) : Append(s, y)[i] = s[i]
  OBVIOUS
<1> QED BY <1>1 DEF In

\* The steps of an asking call, of the streams and of the requests that
\* neither start a run nor bring an item.
LEMMA PlainStill ==
    ASSUME TypeInv, HoldInv,
           \/ Quiet \/ Connect \/ (\E s \in Streams : Unsubscribe(s)) \/ Questions
    PROVE  Still
<1>1. at \in [Goroutines -> Places] /\ due \in [Goroutines -> Events] /\ Run \in Goroutines
  BY PlanIs DEF TypeInv
<1>2. /\ UNCHANGED <<hold, fails, reported, told, runEnded, running, queued, taken,
                     quarantine, quarantineOwed>>
      /\ \A x : In(x, steer') => In(x, steer)
  BY DEF Quiet, Connect, Unsubscribe, StreamLeavesAlone, Questions, Ask, AskNext, Asked,
      Answered, ContextDone, GiveUp, AskReturns, AskLeavesAlone, Reply, Arrives, agentVars,
      quarVars, runVars, pastVars
<1>3. \A g \in Goroutines : at'[g] = at[g] \/ (g # Run /\ at[g] \notin {"recheck", "owed"})
  <2>1. CASE Quiet \/ \E s \in Streams : Unsubscribe(s)
    BY <2>1 DEF Quiet, Unsubscribe
  <2>2. CASE Connect
    <3> DEFINE s == opened + 1
               h == <<"replay", s>>
    <3>1. at' = at \/ at' = [at EXCEPT ![h] = "enter"]
      BY <2>2 DEF Connect, Subscribe
    <3>2. s \in Streams /\ s > opened
      <4>1. plan.connects \in Nat /\ opened \in Nat
        BY PlanIs DEF TypeInv
      <4>2. opened < plan.connects BY <2>2 DEF Connect
      <4> QED BY <4>1, <4>2 DEF Streams
    <3> HIDE DEF s
    <3>3. at[h] = "none" /\ h # Run BY <3>2 DEF HoldInv, Run
    <3> HIDE DEF h
    <3> QED BY <1>1, <3>1, <3>3
  <2>3. ASSUME NEW p \in Asks, Ask(p) \/ AskNext(p) \/ \E r \in Reqs : Reply(r, p)
        PROVE  \A g \in Goroutines : at'[g] = at[g] \/ (g # Run /\ at[g] \notin {"recheck", "owed"})
    <3> DEFINE h == Asker(p)
    <3>1. /\ at' = at \/ \E x : at' = [at EXCEPT ![h] = x]
          /\ at' = at \/ at[h] \notin {"recheck", "owed"}
      BY <2>3 DEF Ask, AskNext, Asked, Answered, ContextDone, GiveUp, AskReturns, Raise, Reply
    <3>2. h # Run BY DEF Asker, Run
    <3> HIDE DEF h
    <3> QED BY <1>1, <3>1, <3>2
  <2> QED BY <2>1, <2>2, <2>3 DEF Questions
<1>4. due'[Run] = due[Run]
  <2>1. CASE Quiet \/ Connect \/ \E s \in Streams : Unsubscribe(s)
    BY <2>1 DEF Quiet, Connect, Unsubscribe, StreamLeavesAlone
  <2>2. ASSUME NEW p \in Asks, Ask(p) \/ AskNext(p) \/ \E r \in Reqs : Reply(r, p)
        PROVE  due'[Run] = due[Run]
    <3>1. due' = due \/ \E e : due' = [due EXCEPT ![Asker(p)] = e]
      BY <2>2 DEF Ask, AskNext, Asked, Answered, ContextDone, GiveUp, AskReturns, Raise, Reply
    <3>2. Asker(p) # Run BY DEF Asker, Run
    <3> QED BY <1>1, <3>1, <3>2
  <2> QED BY <2>1, <2>2 DEF Questions
<1>5. (at[Run] = "enter" => at'[Run] = "enter")
      /\ \A g \in Goroutines : at[g] \in {"recheck", "owed"} => at'[g] = at[g]
  BY <1>1, <1>3
<1> QED BY <1>2, <1>4, <1>5 DEF Still

\* An item is accepted: steered, and its report owed.
LEMMA AcceptStill ==
    ASSUME TypeInv, HoldInv, NEW r \in Reqs,
           Queue(r) \/ AcceptInside(r)
    PROVE  Still
<1> DEFINE h == <<"report", r>>
<1>1. /\ at \in [Goroutines -> Places] /\ steer \in Seq(Reqs) /\ queued \in Seq(Reqs)
      /\ h # Run /\ Run \in Goroutines
  BY PlanIs DEF TypeInv, Run
<1>2. /\ UNCHANGED <<hold, fails, reported, told, runEnded, running, taken,
                     quarantine, quarantineOwed, due>>
      /\ steer' = Append(steer, r) /\ queued' = Append(queued, r)
      /\ at' = at \/ at' = [at EXCEPT ![h] = "accepted"]
      /\ req[r].spc = "none"
  BY DEF Queue, AcceptInside, Enqueue, Arrives, quarVars, runVars
<1>3. at[h] = "none" BY <1>2 DEF HoldInv
<1> HIDE DEF h
<1>4. \A g \in Goroutines : at'[g] = at[g] \/ g = h BY <1>1, <1>2
<1>5. (at[Run] = "enter" => at'[Run] = "enter")
      /\ \A g \in Goroutines : at[g] \in {"recheck", "owed"} => at'[g] = at[g]
  BY <1>1, <1>3, <1>4
<1>6. \A x : (In(x, queued') <=> In(x, queued) \/ x = r) /\ (In(x, steer') <=> In(x, steer) \/ x = r)
  BY <1>1, <1>2, AppendIs
<1> QED BY <1>2, <1>5, <1>6 DEF Still

\* A run is started.
LEMMA PromptStill ==
    ASSUME TypeInv, HoldInv, NEW r \in Reqs, Prompt(r) PROVE Still
<1>1. /\ UNCHANGED <<hold, fails, reported, told, runEnded, taken, steer, queued,
                     quarantine, quarantineOwed>>
  BY DEF Prompt, Arrives, quarVars, runVars
<1>2. at \in [Goroutines -> Places] /\ due \in [Goroutines -> Events] /\ Run \in Goroutines
  BY PlanIs DEF TypeInv
<1>3. CASE running
  <2>1. UNCHANGED <<running, at, due>> BY <1>3 DEF Prompt
  <2> QED BY <1>1, <2>1 DEF Still
<1>4. CASE ~running
  <2>1. running' = TRUE /\ at' = [at EXCEPT ![Run] = "enter"] /\ due' = [due EXCEPT ![Run] = Ev("start", 0)]
    BY <1>4 DEF Prompt, Raise
  <2>2. at[Run] = "none" BY <1>4 DEF HoldInv
  <2>3. due'[Run].k = "start" BY <1>2, <2>1 DEF Ev
  <2>4. \A g \in Goroutines : at[g] \in {"recheck", "owed"} => at'[g] = at[g]
    BY <1>2, <2>1, <2>2
  <2> QED BY <1>1, <2>1, <2>2, <2>3, <2>4 DEF Still
<1> QED BY <1>3, <1>4

\* The run takes what was steered, appends it, steps or ends; one that is
\* over has marked its end.
LEMMA RunStill ==
    ASSUME TypeInv, HoldInv, ReportsInv, RunNext PROVE Still
<1>1. /\ UNCHANGED <<hold, fails, reported, told, runEnded, queued, quarantine, quarantineOwed>>
  BY DEF RunNext, RunAppends, RunDrains, RunStep, RunEnds, RunOver, RunLeavesAlone, quarVars,
      pastVars
<1>2. /\ at \in [Goroutines -> Places] /\ due \in [Goroutines -> Events] /\ Run \in Goroutines
      /\ taken \in Seq(Reqs) /\ steer \in Seq(Reqs)
  BY PlanIs DEF TypeInv
<1>3. at[Run] = "back"
  BY DEF RunNext, RunAppends, RunDrains, RunStep, RunEnds, RunOver, Between
<1>4. \A x : /\ In(x, steer') => In(x, steer)
             /\ In(x, taken') => In(x, taken) \/ In(x, steer)
  <2>1. \A x : ~In(x, <<>>) BY DEF In
  <2>2. CASE RunAppends
    <3>1. taken # <<>> /\ taken' = Tail(taken) /\ steer' = steer
      BY <2>2 DEF RunAppends
    <3> QED BY <1>2, <3>1, HeadTail
  <2>3. CASE RunDrains BY <2>1, <2>3 DEF RunDrains
  <2>4. CASE RunStep \/ RunEnds \/ RunOver
    BY <2>1, <2>4 DEF RunStep, RunEnds, RunOver, runVars
  <2> QED BY <2>2, <2>3, <2>4 DEF RunNext
<1>5. \/ due'[Run] = due[Run]
      \/ /\ due'[Run].k = "item" => In(due'[Run].n, taken)
         /\ due'[Run].k = "end" => at'[Run] = "enter"
  <2>1. CASE RunAppends
    <3>1. taken # <<>> /\ due' = [due EXCEPT ![Run] = Ev("item", Head(taken))]
      BY <2>1 DEF RunAppends, Raise
    <3>2. due'[Run] = Ev("item", Head(taken)) BY <1>2, <3>1
    <3>3. In(Head(taken), taken) BY <1>2, <3>1, HeadTail
    <3> QED BY <3>2, <3>3 DEF Ev
  <2>2. CASE RunDrains BY <2>2 DEF RunDrains
  <2>3. CASE RunStep \/ RunEnds \/ RunOver
    <3>1. /\ due'[Run] \in {Ev("step", steps + 1), Ev("end", 0), NoEvent}
          /\ due'[Run] = Ev("end", 0) => at'[Run] = "enter"
      <4>1. CASE RunStep
        <5>1. due'[Run] = Ev("step", steps + 1)
          BY <1>2, <4>1 DEF RunStep, Raise
        <5>2. due'[Run] # Ev("end", 0) BY <5>1 DEF Ev
        <5> QED BY <5>1, <5>2
      <4>2. CASE RunEnds BY <1>2, <4>2 DEF RunEnds, Raise
      <4>3. CASE RunOver
        <5>1. due'[Run] = NoEvent BY <1>2, <4>3 DEF RunOver
        <5>2. due'[Run] # Ev("end", 0) BY <5>1 DEF Ev, NoEvent
        <5> QED BY <5>1, <5>2
      <4> QED BY <2>3, <4>1, <4>2, <4>3
    <3>2. due'[Run].k # "item" /\ (due'[Run].k = "end" => due'[Run] = Ev("end", 0))
      BY <3>1 DEF Ev, NoEvent
    <3> QED BY <3>1, <3>2
  <2> QED BY <2>1, <2>2, <2>3 DEF RunNext
<1>6. fails = 0 /\ running /\ ~runEnded => running'
  <2>1. CASE RunOver
    <3>1. due[Run].k = "end" /\ ~ToDispatch(Run)
      BY <1>3, <2>1 DEF RunOver, ToDispatch, HoldInv
    <3> QED BY <3>1 DEF ReportsInv, EndInv
  <2>2. CASE ~RunOver
    BY <2>2 DEF RunNext, RunAppends, RunDrains, RunStep, RunEnds
  <2> QED BY <2>1, <2>2
<1>7. \A g \in Goroutines : at[g] \in {"recheck", "owed"} => at'[g] = at[g]
  <2>1. at' = at \/ \E x : at' = [at EXCEPT ![Run] = x]
    BY DEF RunNext, RunAppends, RunDrains, RunStep, RunEnds, RunOver, Raise
  <2> QED BY <1>2, <1>3, <2>1
<1> QED BY <1>1, <1>3, <1>4, <1>5, <1>6, <1>7 DEF Still

\* An item is quarantined: the run's end will name it, or it is owed.
LEMMA QuarantineStill ==
    ASSUME TypeInv, HoldInv, NEW r \in Reqs, QuarantineAdd(r) PROVE Still
<1> DEFINE h == <<"quarantine", r>>
           x0 == IF ReportsItself THEN "owed" ELSE "back"
<1>1. /\ at \in [Goroutines -> Places] /\ quarantineOwed \in Seq(Reqs)
      /\ h # Run /\ h \in Goroutines /\ Run \in Goroutines
  BY PlanIs DEF TypeInv, Run
<1>2. /\ UNCHANGED <<hold, fails, reported, told, runEnded, running, steer, queued, taken, due>>
      /\ quarantine' = quarantine \cup {r}
      /\ quarantineOwed' = IF ReportsItself THEN Append(quarantineOwed, r) ELSE quarantineOwed
      /\ at[h] = "none" /\ at' = [at EXCEPT ![h] = x0]
  BY DEF QuarantineAdd, agentVars, runVars, pastVars
<1> HIDE DEF h
<1>3. \A g \in Goroutines : at'[g] = IF g = h THEN x0 ELSE at[g]
  BY <1>1, <1>2
<1>4. (at[Run] = "enter" => at'[Run] = "enter")
      /\ \A g \in Goroutines : at[g] \in {"recheck", "owed"} => at'[g] = at[g]
  BY <1>1, <1>2, <1>3
<1>5. CASE ReportsItself
  <2>1. quarantineOwed' = Append(quarantineOwed, r) BY <1>2, <1>5
  <2>2. \A x : In(x, quarantineOwed') <=> In(x, quarantineOwed) \/ x = r
    BY <1>1, <2>1, AppendIs
  <2>3. at'[h] = "owed" BY <1>1, <1>3, <1>5
  <2> QED BY <1>1, <1>2, <1>4, <2>2, <2>3 DEF Still
<1>6. CASE ~ReportsItself
  <2>1. quarantineOwed' = quarantineOwed /\ running /\ ~runEnded
    BY <1>2, <1>6 DEF ReportsItself
  <2> QED BY <1>2, <1>4, <2>1 DEF Still
<1> QED BY <1>5, <1>6

-----------------------------------------------------------------------------
(* Reports: the calls and the dispatches.                                  *)

\* What is on its way to the recorder.
LEMMA ComingIs ==
    ASSUME hold # Free, NEW k, NEW r
    PROVE  Coming0(k, r) <=> In(<<0, Ev(k, r)>>, hold.calls) \/ In(Ev(k, r), hold.evs)
BY DEF Coming0, In

\* The recorder is told of what a call carries.
LEMMA CallReports == ASSUME TypeInv, HoldInv, ReportsInv, Call PROVE ReportsInv'
<1> DEFINE c == Head(hold.calls)
<1>1. /\ hold # Free /\ hold' # Free /\ hold \in Holds /\ hold.g \in Goroutines
      /\ hold'.g = hold.g /\ hold'.todo = hold.todo /\ hold'.evs = hold.evs
      /\ hold'.list = hold.list /\ hold'.err = hold.err
  BY CallIs, PlanIs DEF Holds
<1>2. \A x : In(x, hold.calls) <=> x = c \/ In(x, hold'.calls)
  <2>1. hold.calls \in Seq(Nat \X Events) /\ hold.calls # <<>> /\ hold'.calls = Tail(hold.calls)
    BY CallIs
  <2> QED BY <2>1, HeadTail
<1>3. /\ Fixed /\ Run' = Run
      /\ UNCHANGED <<fails, running, runEnded, queued, quarantine, quarantineOwed, steer,
                     taken, due, at>>
  BY PlanFixed DEF Call, agentVars, quarVars, goVars, runVars, Run
<1>4. reported \subseteq reported' /\ told \subseteq told'
  BY DEF Call, Record
<1>5. c[1] = 0 => /\ c[2].k = "queued" => c[2].n \in reported'
                  /\ c[2].k = "added" => c[2].n \in told'
                  /\ c[2].k = "end" => hold.list \subseteq told'
  BY DEF Call, Record
<1>6. \A r : /\ c = <<0, Ev("queued", r)>> => r \in reported'
             /\ c = <<0, Ev("added", r)>> => r \in told'
  BY <1>5 DEF Ev
<1>7. \A k : \A r : /\ Coming0(k, r) <=> In(<<0, Ev(k, r)>>, hold.calls) \/ In(Ev(k, r), hold.evs)
                    /\ Coming0(k, r)' <=> In(<<0, Ev(k, r)>>, hold'.calls) \/ In(Ev(k, r), hold'.evs)
  <2>1. \A k : \A r : Coming0(k, r) <=> In(<<0, Ev(k, r)>>, hold.calls) \/ In(Ev(k, r), hold.evs)
    BY <1>1, ComingIs
  <2>2. \A k : \A r : Coming0(k, r)' <=> In(<<0, Ev(k, r)>>, hold'.calls) \/ In(Ev(k, r), hold'.evs)
    BY <1>1 DEF Coming0, In, Ev
  <2> QED BY <2>1, <2>2
<1> HIDE DEF c
<1>8. \A r : /\ r \in reported \/ Coming0("queued", r) => r \in reported' \/ Coming0("queued", r)'
             /\ r \in told \/ Coming0("added", r) => r \in told' \/ Coming0("added", r)'
  BY <1>1, <1>2, <1>4, <1>6, <1>7
<1>9. ReportInv /\ EndInv /\ QuarInv /\ OwedInv BY DEF ReportsInv
<1>10. \A i \in DOMAIN hold'.calls : In(hold'.calls[i], hold.calls)
  BY <1>2 DEF In
<1>11. ReportInv'
  <2>1. ASSUME fails = 0
        PROVE  /\ \A i \in DOMAIN steer' : IsQueued(steer[i])' \/ Told(steer[i])'
               /\ \A i \in DOMAIN taken' : IsQueued(taken[i])' \/ Told(taken[i])'
               /\ (due[Run].k = "item" => IsQueued(due[Run].n) \/ Told(due[Run].n))'
    BY <1>3, <1>8, <1>9, <2>1 DEF ReportInv, IsQueued, Told
  <2>2. ASSUME fails = 0
        PROVE  (hold # Free /\ hold.g = Run /\ due[Run].k = "item" =>
                  \A i \in DOMAIN hold.todo : hold.todo[i] = "event" =>
                     \/ Told(due[Run].n)
                     \/ \E j \in DOMAIN hold.todo : j < i /\ hold.todo[j] = "reports")'
    BY <1>1, <1>3, <1>8, <1>9, <2>2 DEF ReportInv, Told
  <2>3. ASSUME fails = 0, NEW i \in DOMAIN hold'.calls, hold'.calls[i][1] = 0, hold'.calls[i][2].k = "item"
        PROVE  hold'.calls[i][2].n \in reported'
    <3>1. PICK j \in DOMAIN hold.calls : hold.calls[j] = hold'.calls[i]
      BY <1>10, <2>3 DEF In
    <3> QED BY <1>1, <1>4, <1>9, <2>3, <3>1 DEF ReportInv
  <2> QED BY <1>3, <2>1, <2>2, <2>3 DEF ReportInv
<1>12. EndInv' BY <1>1, <1>3, <1>9 DEF EndInv, ToDispatch
<1>13. QuarInv'
  <2> SUFFICES ASSUME fails = 0, NEW n \in quarantine
               PROVE  \/ n \in told' \/ Coming0("added", n)'
                      \/ \E i \in DOMAIN quarantineOwed' : quarantineOwed'[i] = n
                      \/ running' /\ ~runEnded'
                      \/ /\ hold' # Free /\ n \in hold'.list
                         /\ \E i \in DOMAIN hold'.calls :
                               hold'.calls[i][1] = 0 /\ hold'.calls[i][2].k = "end"
    BY <1>3 DEF QuarInv
  <2>1. ASSUME n \in hold.list, NEW i \in DOMAIN hold.calls, hold.calls[i][1] = 0,
               hold.calls[i][2].k = "end"
        PROVE  \/ n \in told'
               \/ \E j \in DOMAIN hold'.calls : hold'.calls[j][1] = 0 /\ hold'.calls[j][2].k = "end"
    <3>1. hold.calls[i] = c \/ In(hold.calls[i], hold'.calls)
      BY <1>2 DEF In
    <3>2. CASE hold.calls[i] = c BY <1>5, <2>1, <3>2
    <3>3. CASE In(hold.calls[i], hold'.calls)
      <4>1. PICK j \in DOMAIN hold'.calls : hold'.calls[j] = hold.calls[i]
        BY <3>3 DEF In
      <4> QED BY <2>1, <4>1
    <3> QED BY <3>1, <3>2, <3>3
  <2>2. \/ n \in told \/ Coming0("added", n)
        \/ \E i \in DOMAIN quarantineOwed : quarantineOwed[i] = n
        \/ running /\ ~runEnded
        \/ /\ hold # Free /\ n \in hold.list
           /\ \E i \in DOMAIN hold.calls : hold.calls[i][1] = 0 /\ hold.calls[i][2].k = "end"
    BY <1>9 DEF QuarInv
  <2>3. n \in told \/ Coming0("added", n) => n \in told' \/ Coming0("added", n)'
    BY <1>8
  <2> QED BY <1>1, <1>3, <2>1, <2>2, <2>3
<1>14. OwedInv' BY <1>1, <1>3, <1>9 DEF OwedInv
<1> QED BY <1>11, <1>12, <1>13, <1>14 DEF ReportsInv

\* A dispatch calls the recorder with its event alone.
LEMMA DispatchTells ==
    ASSUME TypeInv, SubsInv, NEW e \in Events, Dispatches(e)
    PROVE  /\ In(<<0, e>>, hold'.calls)
           /\ \A i \in DOMAIN hold'.calls : hold'.calls[i][1] = 0 => hold'.calls[i][2] = e
<1>1. CallsOf(e, hold'.calls) /\ 0 \notin Streams
  BY PlanIs DEF Dispatches
<1>2. PICK j \in DOMAIN subs : subs[j] = 0 BY DEF SubsInv
<1>3. In(<<0, e>>, hold'.calls) BY <1>1, <1>2 DEF CallsOf
<1>4. ASSUME NEW i \in DOMAIN hold'.calls, hold'.calls[i][1] = 0 PROVE hold'.calls[i][2] = e
  BY <1>1, <1>4 DEF CallsOf
<1> QED BY <1>3, <1>4

\* What the recorder was to be told it still is, and what was owed to it.
LEMMA DispatchKeeps ==
    ASSUME TypeInv, SubsInv, NEW e \in Events, Dispatched(e)
    PROVE  /\ \A r : Told(r) => Told(r)'
           /\ \A r : IsQueued(r) => IsQueued(r)' \/ Told(r)'
           /\ \A n : /\ n \in told \/ Coming0("added", n) => n \in told' \/ Coming0("added", n)'
                     /\ In(n, quarantineOwed) => In(n, quarantineOwed') \/ Coming0("added", n)'
           /\ hold.evs = <<>> => \A r : Told(r) => r \in reported
<1>1. Dispatches(e) /\ hold # Free /\ hold' # Free /\ hold.calls = <<>>
      /\ UNCHANGED <<reported, told>>
  BY PlanIs DEF Dispatched, Dispatches, pastVars
<1>2. In(<<0, e>>, hold'.calls) BY <1>1, DispatchTells
<1>3. \A k : \A r : /\ Coming0(k, r) <=> In(Ev(k, r), hold.evs)
                    /\ Ev(k, r) = e \/ In(Ev(k, r), hold'.evs) => Coming0(k, r)'
  <2>1. \A k : \A r : Coming0(k, r) <=> In(Ev(k, r), hold.evs)
    BY <1>1 DEF Coming0, In
  <2>2. \A k : \A r : Coming0(k, r)' <=> In(<<0, Ev(k, r)>>, hold'.calls) \/ In(Ev(k, r), hold'.evs)
    BY <1>1 DEF Coming0, In, Ev
  <2> QED BY <1>2, <2>1, <2>2
<1>4. \A k : \A r : Coming0(k, r) => Coming0(k, r)'
  <2>1. CASE NextInList(e)
    <3>1. \A x : In(x, hold.evs) => x = e \/ In(x, hold'.evs)
      BY <2>1 DEF NextInList
    <3> QED BY <1>3, <3>1
  <2>2. CASE hold.evs = <<>> BY <1>3, <2>2 DEF In
  <2> QED BY <2>1, <2>2 DEF Dispatched, FirstOfStage
<1>5. /\ \A r : IsQueued(r) => IsQueued(r)' \/ Coming0("queued", r)'
      /\ \A n : In(n, quarantineOwed) => In(n, quarantineOwed') \/ Coming0("added", n)'
  <2>1. CASE queued' = queued /\ quarantineOwed' = quarantineOwed
    BY <2>1 DEF IsQueued
  <2>2. CASE /\ \A x : x = e \/ In(x, hold'.evs) <=>
                       \E i \in DOMAIN queued : x = Ev("queued", queued[i])
             /\ quarantineOwed' = quarantineOwed
    <3>1. ASSUME NEW r, IsQueued(r) PROVE Coming0("queued", r)'
      <4>1. Ev("queued", r) = e \/ In(Ev("queued", r), hold'.evs)
        BY <2>2, <3>1 DEF IsQueued
      <4> QED BY <1>3, <4>1
    <3> QED BY <2>2, <3>1
  <2>3. CASE /\ \A x : x = e \/ In(x, hold'.evs) <=>
                       \E i \in DOMAIN quarantineOwed : x = Ev("added", quarantineOwed[i])
             /\ queued' = queued
    <3>1. ASSUME NEW n, In(n, quarantineOwed) PROVE Coming0("added", n)'
      <4>1. Ev("added", n) = e \/ In(Ev("added", n), hold'.evs)
        BY <2>3, <3>1 DEF In
      <4> QED BY <1>3, <4>1
    <3> QED BY <2>3, <3>1 DEF IsQueued
  <2> QED BY <2>1, <2>2, <2>3 DEF Dispatched, NextInList, FirstOfStage
<1>6. hold.evs = <<>> => \A r : Told(r) => r \in reported
  BY <1>3 DEF Told, In
<1> QED BY <1>1, <1>4, <1>5, <1>6 DEF Told

\* An event is dispatched: an item the run appends after the reports of
\* what was accepted, and a run's end with the list of what is quarantined.
LEMMA DispatchReports ==
    ASSUME TypeInv, HoldInv, DueInv, SubsInv, ReportsInv, NEW e \in Events, Dispatched(e)
    PROVE  ReportsInv'
<1>1. /\ Dispatches(e) /\ Fixed /\ Run' = Run /\ hold # Free /\ hold' # Free
      /\ hold.g \in Goroutines /\ hold'.g = hold.g /\ hold'.err = hold.err
      /\ hold.calls = <<>> /\ hold.todo \in Seq(StageNames)
      /\ UNCHANGED <<fails, running, quarantine, steer, taken, due, at, reported, told>>
  BY PlanIs, PlanFixed DEF Dispatched, Dispatches, Holds, goVars, runVars, pastVars, Run
<1>2. ReportInv /\ EndInv /\ QuarInv /\ OwedInv BY DEF ReportsInv
<1>3. /\ \A r : Told(r) => Told(r)'
      /\ \A r : IsQueued(r) => IsQueued(r)' \/ Told(r)'
      /\ \A n : /\ n \in told \/ Coming0("added", n) => n \in told' \/ Coming0("added", n)'
                /\ In(n, quarantineOwed) => In(n, quarantineOwed') \/ Coming0("added", n)'
      /\ hold.evs = <<>> => \A r : Told(r) => r \in reported
  BY DispatchKeeps
<1>4. /\ In(<<0, e>>, hold'.calls)
      /\ \A i \in DOMAIN hold'.calls : hold'.calls[i][1] = 0 => hold'.calls[i][2] = e
  BY <1>1, DispatchTells
\* An event that is no report is the holder's own.
<1>5. e.k \notin {"queued", "added"} => e = due[hold.g] BY AskersEvent
<1>6. e.k \in {"item", "start", "end"} => hold.g = Run /\ e = due[Run]
  BY <1>1, <1>5 DEF DueInv
\* What is told once the reports before a stage are done.
<1>7. ASSUME fails = 0, hold.g = Run, due[Run].k = "item", NEW m \in Nat, FirstOfStage(e, m),
             NEW n \in DOMAIN hold.todo, m <= n, hold.todo[n] = "event"
      PROVE  \/ Told(due[Run].n)
             \/ \E j \in DOMAIN hold.todo : m <= j /\ j < n /\ hold.todo[j] = "reports"
  <2>1. \/ Told(due[Run].n)
        \/ \E j \in DOMAIN hold.todo : j < n /\ hold.todo[j] = "reports"
    BY <1>1, <1>2, <1>7 DEF ReportInv
  <2>2. ASSUME NEW j \in DOMAIN hold.todo, j < m, hold.todo[j] = "reports"
        PROVE  Told(due[Run].n)
    <3>1. queued = <<>> BY <1>7, <2>2 DEF FirstOfStage
    <3>2. IsQueued(due[Run].n) \/ Told(due[Run].n)
      BY <1>2, <1>7 DEF ReportInv
    <3> QED BY <3>1, <3>2 DEF IsQueued
  <2>3. DOMAIN hold.todo \subseteq Nat BY <1>1
  <2> QED BY <2>1, <2>2, <2>3
<1>8. ASSUME fails = 0
      PROVE  /\ \A i \in DOMAIN steer' : IsQueued(steer[i])' \/ Told(steer[i])'
             /\ \A i \in DOMAIN taken' : IsQueued(taken[i])' \/ Told(taken[i])'
             /\ (due[Run].k = "item" => IsQueued(due[Run].n) \/ Told(due[Run].n))'
  <2>1. /\ \A i \in DOMAIN steer : IsQueued(steer[i]) \/ Told(steer[i])
        /\ \A i \in DOMAIN taken : IsQueued(taken[i]) \/ Told(taken[i])
        /\ due[Run].k = "item" => IsQueued(due[Run].n) \/ Told(due[Run].n)
    BY <1>2, <1>8 DEF ReportInv
  <2>2. \A r : IsQueued(r) \/ Told(r) =>
                  \/ \E i \in DOMAIN queued' : queued'[i] = r
                  \/ r \in reported' \/ Coming0("queued", r)'
    BY <1>3 DEF IsQueued, Told
  <2> QED BY <1>1, <2>1, <2>2 DEF IsQueued, Told
<1>9. ASSUME fails = 0, hold.g = Run, due[Run].k = "item", NEW i \in DOMAIN hold'.todo,
             hold'.todo[i] = "event"
      PROVE  \/ Told(due[Run].n)'
             \/ \E j \in DOMAIN hold'.todo : j < i /\ hold'.todo[j] = "reports"
  <2>1. ASSUME Told(due[Run].n) PROVE Told(due[Run].n)'
    <3>1. \A r : Told(r) =>
                   \/ r \in reported' \/ In(Ev("queued", r), hold'.evs)
                   \/ In(<<0, Ev("queued", r)>>, hold'.calls)
      BY <1>3 DEF Told, Coming0, In, Ev
    <3> QED BY <1>1, <2>1, <3>1 DEF Told, Coming0, In, Ev
  <2>2. CASE NextInList(e)
    <3>1. hold'.todo = hold.todo BY <2>2 DEF NextInList
    <3>2. \/ Told(due[Run].n)
          \/ \E j \in DOMAIN hold.todo : j < i /\ hold.todo[j] = "reports"
      BY <1>1, <1>2, <1>9, <3>1 DEF ReportInv
    <3> QED BY <2>1, <3>1, <3>2
  <2>3. ASSUME NEW m \in Nat, FirstOfStage(e, m)
        PROVE  \/ Told(due[Run].n)'
               \/ \E j \in DOMAIN hold'.todo : j < i /\ hold'.todo[j] = "reports"
    <3> DEFINE n == m + i
    <3>1. /\ m \in DOMAIN hold.todo /\ DOMAIN hold'.todo = 1..(Len(hold.todo) - m)
          /\ i \in 1..(Len(hold.todo) - m) /\ hold'.todo[i] = hold.todo[n]
      BY <1>9, <2>3 DEF FirstOfStage
    <3>2. n \in DOMAIN hold.todo /\ m <= n /\ n \in Nat /\ i \in Nat
      BY <1>1, <3>1
    <3> HIDE DEF n
    <3>3. \/ Told(due[Run].n)
          \/ \E j \in DOMAIN hold.todo : m <= j /\ j < n /\ hold.todo[j] = "reports"
      BY <1>7, <1>9, <2>3, <3>1, <3>2
    <3>4. ASSUME NEW j \in DOMAIN hold.todo, m <= j, j < n, hold.todo[j] = "reports"
          PROVE  \/ Told(due[Run].n)'
                 \/ \E k \in DOMAIN hold'.todo : k < i /\ hold'.todo[k] = "reports"
      <4>1. CASE j = m
        <5>1. queued' = <<>> BY <2>3, <3>4, <4>1 DEF FirstOfStage
        <5>2. (IsQueued(due[Run].n) \/ Told(due[Run].n))'
          BY <1>1, <1>8, <1>9
        <5> QED BY <5>1, <5>2 DEF IsQueued
      <4>2. CASE j # m
        <5> DEFINE k == j - m
        <5>1. j \in Nat /\ j <= Len(hold.todo) /\ Len(hold.todo) \in Nat
          BY <1>1
        <5>2. k \in 1..(Len(hold.todo) - m) /\ m + k = j /\ k < i
          BY <3>2, <3>4, <4>2, <5>1 DEF n
        <5> HIDE DEF k
        <5>3. hold'.todo[k] = hold.todo[j]
          BY <2>3, <5>2 DEF FirstOfStage
        <5> QED BY <3>1, <3>4, <5>2, <5>3
      <4> QED BY <4>1, <4>2
    <3> QED BY <2>1, <3>3, <3>4
  <2> QED BY <2>2, <2>3 DEF Dispatched
<1>10. ASSUME fails = 0, e.k = "item" PROVE e.n \in reported
  <2>1. hold.g = Run /\ e = due[Run] BY <1>6, <1>10
  <2>2. PICK m \in Nat : FirstOfStage(e, m)
    BY <1>10 DEF Dispatched, NextInList
  <2>3. hold.evs = <<>> /\ m \in DOMAIN hold.todo /\ hold.todo[m] = "event"
    <3>1. hold.todo[m] \in {"reports", "flush"} => e.k = "queued"
      BY <2>2 DEF FirstOfStage, Ev
    <3>2. hold.todo[m] = "quarantine" => e.k = "added"
      BY <2>2 DEF FirstOfStage, Ev
    <3> QED BY <1>10, <2>2, <3>1, <3>2 DEF FirstOfStage
  <2>4. Told(due[Run].n)
    <3>1. due[Run].k = "item" /\ m <= m /\ \A j \in DOMAIN hold.todo : ~(m <= j /\ j < m)
      BY <1>1, <1>10, <2>1
    <3> QED BY <1>7, <1>10, <2>1, <2>2, <2>3, <3>1
  <2> QED BY <1>3, <2>1, <2>3, <2>4
<1>11. ReportInv'
  <2>1. fails = 0 =>
          (hold # Free /\ hold.g = Run /\ due[Run].k = "item" =>
             \A i \in DOMAIN hold.todo : hold.todo[i] = "event" =>
                \/ Told(due[Run].n)
                \/ \E j \in DOMAIN hold.todo : j < i /\ hold.todo[j] = "reports")'
    BY <1>1, <1>9
  <2>2. fails = 0 =>
          (hold # Free =>
             \A i \in DOMAIN hold.calls : hold.calls[i][1] = 0 /\ hold.calls[i][2].k = "item"
                => hold.calls[i][2].n \in reported)'
    BY <1>1, <1>4, <1>10
  <2> QED BY <1>1, <1>8, <2>1, <2>2 DEF ReportInv
<1>12. EndInv'
  <2> SUFFICES ASSUME fails = 0, due[Run].k = "end", ~ToDispatch(Run)' PROVE runEnded'
    BY <1>1 DEF EndInv
  <2>1. e.k = "end" => runEnded' BY <1>1 DEF Dispatches
  <2>2. CASE ~ToDispatch(Run)
    <3>1. runEnded /\ e.k # "start" BY <1>2, <1>6, <2>2 DEF EndInv
    <3> QED BY <1>1, <2>1, <3>1 DEF Dispatches
  <2>3. CASE ToDispatch(Run)
    <3>1. hold.g = Run /\ at[Run] # "enter" BY <1>1, <2>3 DEF ToDispatch
    <3>2. PICK a \in DOMAIN hold.todo : hold.todo[a] = "event"
      BY <2>3, <3>1 DEF ToDispatch
    <3>3. \A i \in DOMAIN hold'.todo : hold'.todo[i] # "event"
      BY <1>1, <3>1 DEF ToDispatch
    <3>4. ~NextInList(e) BY <3>2, <3>3 DEF NextInList
    <3>5. PICK m \in Nat : FirstOfStage(e, m) BY <3>4 DEF Dispatched
    <3>6. a \in Nat /\ a <= Len(hold.todo) /\ Len(hold.todo) \in Nat
      BY <1>1
    <3>7. ~(a < m) BY <3>2, <3>5 DEF FirstOfStage
    <3>8. ~(a > m)
      <4> SUFFICES ASSUME a > m PROVE FALSE
        OBVIOUS
      <4> DEFINE k == a - m
      <4>1. k \in 1..(Len(hold.todo) - m) /\ m + k = a BY <3>6
      <4> HIDE DEF k
      <4>2. hold'.todo[k] = hold.todo[a] /\ k \in DOMAIN hold'.todo
        BY <3>5, <4>1 DEF FirstOfStage
      <4> QED BY <3>2, <3>3, <4>2
    <3>9. a = m BY <3>6, <3>7, <3>8
    <3>10. e = due[Run] BY <3>1, <3>2, <3>5, <3>9 DEF FirstOfStage
    <3> QED BY <2>1, <3>10
  <2> QED BY <2>2, <2>3
<1>13. QuarInv'
  <2> SUFFICES ASSUME fails = 0, NEW n \in quarantine
               PROVE  \/ n \in told' \/ Coming0("added", n)'
                      \/ In(n, quarantineOwed')
                      \/ running' /\ ~runEnded'
                      \/ /\ hold' # Free /\ n \in hold'.list
                         /\ \E i \in DOMAIN hold'.calls :
                               hold'.calls[i][1] = 0 /\ hold'.calls[i][2].k = "end"
    BY <1>1 DEF QuarInv, In
  <2>1. CASE e.k = "end"
    <3>1. n \in hold'.list BY <1>1, <2>1 DEF Dispatches
    <3>2. PICK i \in DOMAIN hold'.calls : hold'.calls[i] = <<0, e>>
      BY <1>4 DEF In
    <3>3. hold'.calls[i][1] = 0 /\ hold'.calls[i][2].k = "end"
      BY <2>1, <3>2
    <3> QED BY <1>1, <3>1, <3>3
  <2>2. CASE e.k = "start"
    <3>1. hold.g = Run /\ at[Run] = "hold"
      BY <1>1, <1>6, <2>2 DEF HoldInv
    <3>2. running /\ ~runEnded'
      BY <1>1, <2>2, <3>1 DEF HoldInv, Dispatches
    <3> QED BY <1>1, <3>2
  <2>3. CASE e.k \notin {"start", "end"}
    <3>1. runEnded' = runEnded BY <1>1, <2>3 DEF Dispatches
    <3>2. n \in told \/ Coming0("added", n) \/ In(n, quarantineOwed) \/ (running /\ ~runEnded)
      BY <1>1, <1>2 DEF QuarInv, In
    <3> QED BY <1>1, <1>3, <3>1, <3>2
  <2> QED BY <2>1, <2>2, <2>3
<1>14. OwedInv' BY <1>1, <1>2 DEF OwedInv
<1> QED BY <1>11, <1>12, <1>13, <1>14 DEF ReportsInv

-----------------------------------------------------------------------------
(* Reports: the invariant, and what it gives.                              *)

\* Every step keeps what is reported, or is to be; one that fails is outside
\* what is promised.
LEMMA ReportsStepInv ==
    ASSUME BarrierInv, QuestionInv, ReportsInv, Others \/ Questions
    PROVE  ReportsInv'
<1>1. TypeInv /\ HoldInv /\ DueInv /\ SubsInv /\ Fixed
  BY StepFixed DEF BarrierInv, QuestionInv
<1>2. CASE Still BY <1>1, <1>2, StillReports
<1>3. CASE \/ Leave \/ \E g \in Goroutines : Enter(g) \/ UnlockEmit(g)
           \/ \E r \in Reqs : ReportQueued(r) \/ QuarantineReport(r)
           \/ \E s \in Streams : FlushReplay(s)
  <2>1. Barrier BY <1>1, <1>3, BarrierIs
  <2> QED BY <1>1, <2>1, BarrierReports
<1>4. CASE Call BY <1>1, <1>4, CallReports
<1>5. CASE CallFails
  <2>1. fails' # 0 BY <1>1, <1>5, FailIs
  <2> QED BY <2>1 DEF ReportsInv, ReportInv, EndInv, QuarInv, OwedInv
<1>6. CASE \E e \in Events : Dispatched(e)
  BY <1>1, <1>6, DispatchReports
<1>7. CASE \/ Quiet \/ Connect \/ (\E s \in Streams : Unsubscribe(s)) \/ Questions
  BY <1>1, <1>2, <1>7, PlainStill
<1>8. CASE RunNext BY <1>1, <1>2, <1>8, RunStill
<1>9. ASSUME NEW r \in Reqs,
             \/ QuarantineAdd(r) \/ Prompt(r) \/ Queue(r)
             \/ AcceptInside(r)
      PROVE  ReportsInv'
  BY <1>1, <1>2, <1>9, QuarantineStill, PromptStill, AcceptStill
<1> QED BY <1>3, <1>4, <1>5, <1>6, <1>7, <1>8, <1>9 DEF Others

\* Nothing is accepted and nothing quarantined.
LEMMA ReportsInit == ASSUME Init PROVE ReportsInv
<1>1. /\ steer = <<>> /\ taken = <<>> /\ hold = Free /\ quarantine = {}
      /\ quarantineOwed = <<>> /\ Run \in Goroutines /\ due[Run] = NoEvent
  BY DEF Init, Run, Goroutines
<1>2. due[Run].k \notin {"item", "end"} BY <1>1 DEF NoEvent, Ev
<1> QED BY <1>1, <1>2 DEF ReportsInv, ReportInv, EndInv, QuarInv, OwedInv

\* Whoever rests has nothing on its way and nothing owed.
LEMMA ReportsIs == ASSUME ReportsInv PROVE AllIsReported
<1>1. ReportInv /\ QuarInv /\ OwedInv BY DEF ReportsInv
<1>2. ReportedFirst
  <2> SUFFICES ASSUME fails = 0, hold # Free, NEW c \in Range(hold.calls),
                      c[1] = 0, c[2].k = "item"
               PROVE  c[2].n \in reported
    BY DEF ReportedFirst
  <2>1. PICK i \in DOMAIN hold.calls : hold.calls[i] = c BY DEF Range
  <2> QED BY <1>1, <2>1 DEF ReportInv
<1>3. QuarantineIsReported
  <2> SUFFICES ASSUME AtRest, fails = 0, NEW n \in quarantine PROVE n \in told
    BY DEF QuarantineIsReported
  <2>1. hold = Free /\ ~running /\ quarantineOwed = <<>>
    BY <1>1 DEF AtRest, OwedInv
  <2>2. ~Coming0("added", n) /\ DOMAIN quarantineOwed = {}
    BY <2>1 DEF Coming0
  <2> QED BY <1>1, <2>1, <2>2 DEF QuarInv
<1> QED BY <1>2, <1>3 DEF AllIsReported

\* The recorder is told of an accepted item before it is called with the
\* item, whichever goroutine comes to report it, and of a quarantined one by
\* the end of the run it came in or by a report of its own (deliver,
\* drainQueued, flushQueued, unlockEmit and Quarantine of agent.go): for any
\* requests, questions and streams, and any bound on the passes.
THEOREM ReportsAreMade == Spec => []AllIsReported
<1> DEFINE I == BarrierInv /\ QuestionInv /\ ReportsInv
<1>1. Init => I BY QuestionInit, ReportsInit
<1>2. I /\ [Next]_vars => I'
  <2> SUFFICES ASSUME BarrierInv, QuestionInv, ReportsInv, [Next]_vars
               PROVE  BarrierInv' /\ QuestionInv' /\ ReportsInv'
    OBVIOUS
  <2>1. Others \/ Questions BY StepIs
  <2> QED BY <2>1, BarrierStepInv, QuestionStepInv, ReportsStepInv
<1>3. I => AllIsReported BY ReportsIs
<1> HIDE DEF I
<1> QED BY <1>1, <1>2, <1>3, PTL DEF Spec
=============================================================================
