---------------------------- MODULE InboxProofs ----------------------------
(***************************************************************************)
(* Proofs about Inbox.                                                     *)
(***************************************************************************)
EXTENDS Inbox, FiniteSetTheorems, FunctionTheorems, WellFoundedInduction,
        TLAPS

-----------------------------------------------------------------------------
(* Places in order, and sequences given by a function.                     *)

\* The least number of a set.
LEMMA LeastNat ==
    ASSUME NEW T \in SUBSET Nat, T # {}
    PROVE  \E x \in T : \A y \in T : x <= y
<1>1. PICK x \in T : \A y \in T : ~(<<y, x>> \in OpToRel(<, Nat))
  BY WFMin, NatLessThanWellFounded, Zenon
<1>2. \A y \in T : ~(y < x) BY <1>1 DEF OpToRel
<1> QED BY <1>2

\* A function on 1..n is a sequence.
LEMMA SeqOf ==
    ASSUME NEW S, NEW n \in Nat, NEW f \in [1..n -> S]
    PROVE  f \in Seq(S) /\ Len(f) = n /\ DOMAIN f = 1..n
  OBVIOUS

\* One sequence after another.
LEMMA Joined ==
    ASSUME NEW S, NEW q \in Seq(S), NEW w \in Seq(S)
    PROVE  /\ q \o w \in Seq(S) /\ Len(q \o w) = Len(q) + Len(w)
           /\ DOMAIN (q \o w) = 1..(Len(q) + Len(w))
           /\ DOMAIN q = 1..Len(q) /\ DOMAIN w = 1..Len(w)
           /\ Len(q) \in Nat /\ Len(w) \in Nat
           /\ \A a \in 1..Len(q) : (q \o w)[a] = q[a]
           /\ \A a \in 1..Len(w) : (q \o w)[Len(q) + a] = w[a]
           /\ \A a \in 1..(Len(q) + Len(w)) : a \notin 1..Len(q) =>
                 a - Len(q) \in 1..Len(w) /\ (q \o w)[a] = w[a - Len(q)]
<1>1. /\ q \o w \in Seq(S) /\ Len(q \o w) = Len(q) + Len(w)
      /\ DOMAIN (q \o w) = 1..(Len(q) + Len(w))
      /\ DOMAIN q = 1..Len(q) /\ DOMAIN w = 1..Len(w)
      /\ Len(q) \in Nat /\ Len(w) \in Nat
  OBVIOUS
<1>2. \A a \in 1..Len(q) : (q \o w)[a] = q[a] OBVIOUS
<1>3. \A a \in 1..Len(w) : (q \o w)[Len(q) + a] = w[a] OBVIOUS
<1>4. ASSUME NEW a \in 1..(Len(q) + Len(w)), a \notin 1..Len(q)
      PROVE  a - Len(q) \in 1..Len(w) /\ (q \o w)[a] = w[a - Len(q)]
  BY <1>1, <1>4
<1> QED BY <1>1, <1>2, <1>3, <1>4

\* The first of a set of places is one of them.
LEMMA FirstOfIs ==
    ASSUME NEW S \in SUBSET (Nat \ {0})
    PROVE  /\ S = {} <=> FirstOf(S) = 0
           /\ S # {} => FirstOf(S) \in S
<1>1. CASE S = {} BY <1>1 DEF FirstOf
<1>2. CASE S # {}
  <2>1. S \in SUBSET Nat OBVIOUS
  <2>2. \E j \in S : \A m \in S : j <= m BY <1>2, <2>1, LeastNat
  <2>3. FirstOf(S) = CHOOSE j \in S : \A m \in S : j <= m
    BY <1>2 DEF FirstOf
  <2>4. FirstOf(S) \in S BY <2>2, <2>3
  <2> QED BY <1>2, <2>4
<1> QED BY <1>1, <1>2

\* InOrder lists a finite set of places, each once.
LEMMA InOrderLists ==
    ASSUME NEW S \in SUBSET Nat, IsFiniteSet(S)
    PROVE  /\ Cardinality(S) \in Nat
           /\ InOrder(S) \in [1..Cardinality(S) -> S]
           /\ InOrder(S) \in Seq(S) /\ Len(InOrder(S)) = Cardinality(S)
           /\ DOMAIN InOrder(S) = 1..Cardinality(S)
           /\ \A a, b \in 1..Cardinality(S) :
                 InOrder(S)[a] = InOrder(S)[b] => a = b
           /\ \A e \in S : \E a \in 1..Cardinality(S) : InOrder(S)[a] = e
<1> DEFINE n == Cardinality(S)
           below(e) == {f \in S : f < e}
           rank == [e \in S |-> Cardinality(below(e))]
           o == InOrder(S)
<1>1. n \in Nat BY FS_CardinalityType
<1>2. ASSUME NEW e \in S
      PROVE  /\ IsFiniteSet(below(e)) /\ Cardinality(below(e)) \in Nat
             /\ Cardinality(below(e)) < n
  <2>1. IsFiniteSet(below(e)) /\ IsFiniteSet(S \ {e})
        /\ Cardinality(S \ {e}) = n - 1
    BY FS_Subset, FS_RemoveElement
  <2>2. below(e) \in SUBSET (S \ {e}) OBVIOUS
  <2>3. Cardinality(below(e)) <= n - 1 BY <2>1, <2>2, FS_Subset
  <2>4. Cardinality(below(e)) \in Nat BY <2>1, FS_CardinalityType
  <2> QED BY <1>1, <2>1, <2>3, <2>4
<1>3. ASSUME NEW e \in S, NEW f \in S, e < f
      PROVE  Cardinality(below(e)) < Cardinality(below(f))
  <2>0. e \in Nat /\ f \in Nat /\ ~(e < e) OBVIOUS
  <2>a. \A g \in Nat : g < e => g < f BY <1>3, <2>0
  <2>1. below(e) \cup {e} \in SUBSET below(f) /\ e \notin below(e)
    BY <1>3, <2>0, <2>a
  <2>2. Cardinality(below(e) \cup {e}) = Cardinality(below(e)) + 1
    BY <1>2, <2>1, FS_AddElement
  <2>3. Cardinality(below(e) \cup {e}) <= Cardinality(below(f))
    BY <1>2, <2>1, FS_Subset
  <2> QED BY <1>2, <2>2, <2>3
<1>4. rank \in [S -> 0..(n - 1)] BY <1>1, <1>2
<1>5. \A e, f \in S : rank[e] = rank[f] => e = f
  <2> SUFFICES ASSUME NEW e \in S, NEW f \in S, e # f
               PROVE  Cardinality(below(e)) # Cardinality(below(f))
    OBVIOUS
  <2>1. e < f \/ f < e OBVIOUS
  <2>2. Cardinality(below(e)) \in Nat /\ Cardinality(below(f)) \in Nat
    BY <1>2
  <2> QED BY <1>3, <2>1, <2>2
<1>6. rank \in Injection(S, 0..(n - 1)) BY <1>4, <1>5, Fun_IsInj
<1>7. IsFiniteSet(0..(n - 1)) /\ Cardinality(0..(n - 1)) = n
  <2>1. 0 \in Int /\ n - 1 \in Int BY <1>1
  <2>2. /\ IsFiniteSet(0..(n - 1))
        /\ Cardinality(0..(n - 1)) = IF 0 > n - 1 THEN 0 ELSE n - 1 - 0 + 1
    BY <2>1, FS_Interval
  <2> QED BY <1>1, <2>2
<1>8. rank \in Surjection(S, 0..(n - 1)) BY <1>6, <1>7, FS_Injection
<1>9. \A k \in 0..(n - 1) : \E e \in S : Cardinality(below(e)) = k
  BY <1>8, Fun_IsSurj DEF Surjection
<1>10. ASSUME NEW a \in 1..n
       PROVE  o[a] \in S /\ Cardinality(below(o[a])) = a - 1
  <2>1. a - 1 \in 0..(n - 1) BY <1>1
  <2>2. \E e \in S : Cardinality({f \in S : f < e}) = a - 1
    BY <1>9, <2>1
  <2>3. o[a] = CHOOSE e \in S : Cardinality({f \in S : f < e}) = a - 1
    BY DEF InOrder
  <2> QED BY <2>2, <2>3
<1>11. DOMAIN o = 1..n BY DEF InOrder
<1>12. o \in [1..n -> S] BY <1>10, <1>11 DEF InOrder
<1>13. \A a, b \in 1..n : o[a] = o[b] => a = b
  <2> TAKE a, b \in 1..n
  <2>1. /\ Cardinality(below(o[a])) = a - 1
        /\ Cardinality(below(o[b])) = b - 1
    BY <1>10
  <2> HIDE DEF below, o, n
  <2>2. o[a] = o[b] => a - 1 = b - 1 BY <2>1
  <2> QED BY <1>1, <2>2
<1>14. ASSUME NEW e \in S PROVE \E a \in 1..n : o[a] = e
  <2>1. Cardinality(below(e)) + 1 \in 1..n BY <1>1, <1>2
  <2>2. /\ o[Cardinality(below(e)) + 1] \in S
        /\ Cardinality(below(o[Cardinality(below(e)) + 1])) = Cardinality(below(e))
    BY <1>2, <1>10, <2>1
  <2> QED BY <1>5, <2>1, <2>2
<1>15. o \in Seq(S) /\ Len(o) = n BY <1>1, <1>12, SeqOf
<1> QED BY <1>1, <1>11, <1>12, <1>13, <1>14, <1>15

-----------------------------------------------------------------------------
(* The types, and what the requeue writes.                                 *)

Kinds == {"queued", "item", "start", "end"}

Entries == [k : Kinds, x : Contents \cup {"none"}, d : BOOLEAN, from : Nat]

Ins == [p : Int, x : Contents, d : BOOLEAN]

BoxItems == [p : Int, x : Contents, d : BOOLEAN, entry : Nat, held : BOOLEAN,
             awaiting : BOOLEAN, declined : BOOLEAN, holder : BOOLEAN]

Pcs == {"new", "written", "failed", "acked", "direct"}

\* Two records of the inbox are of the same input in the same state, the
\* entry aside.
SameInput(a, b) ==
    /\ a.p = b.p /\ a.x = b.x /\ a.d = b.d /\ a.held = b.held
    /\ a.awaiting = b.awaiting /\ a.declined = b.declined
    /\ a.holder = b.holder

\* An input of the inbox with another entry.
LEMMA EntryChanged ==
    ASSUME NEW a \in BoxItems, NEW n \in Nat
    PROVE  LET b == [a EXCEPT !.entry = n] IN
           b \in BoxItems /\ SameInput(a, b) /\ b.entry = n
  BY DEF BoxItems, SameInput

\* The path p2 is p with queued entries after it, each the new one of an
\* input of the inbox ib that had none, and ib2 is ib with them.
Writes(p, ib, p2, ib2) ==
    /\ p2 \in Seq(Entries) /\ Len(p) <= Len(p2)
    /\ \A e \in 1..Len(p) : p2[e] = p[e]
    /\ ib2 \in Seq(BoxItems) /\ Len(ib2) = Len(ib)
    /\ \A j \in 1..Len(ib) :
          /\ SameInput(ib[j], ib2[j])
          /\ ib[j].entry # 0 => ib2[j].entry = ib[j].entry
          /\ ib[j].entry = 0 =>
                \/ ib2[j].entry = 0
                \/ ib2[j].entry \in (Len(p) + 1)..Len(p2)
    /\ \A e \in (Len(p) + 1)..Len(p2) :
          \E j \in 1..Len(ib) :
             /\ ib[j].entry = 0 /\ ib2[j].entry = e
             /\ p2[e] = Queued(ib[j])
             /\ \A m \in 1..Len(ib) : ib2[m].entry = e => m = j

\* The places of the inbox that Missing lists.
LEMMA MissingLists ==
    ASSUME NEW ib \in Seq(BoxItems)
    PROVE  /\ Len(Missing(ib)) \in Nat
           /\ \A a \in 1..Len(Missing(ib)) :
                 /\ Missing(ib)[a] \in 1..Len(ib)
                 /\ ib[Missing(ib)[a]].entry = 0
           /\ \A a, b \in 1..Len(Missing(ib)) :
                 Missing(ib)[a] = Missing(ib)[b] => a = b
           /\ \A j \in 1..Len(ib) : ib[j].entry = 0 =>
                 \E a \in 1..Len(Missing(ib)) : Missing(ib)[a] = j
<1> DEFINE S == {j \in DOMAIN ib : ib[j].entry = 0}
<1>1. DOMAIN ib = 1..Len(ib) /\ Len(ib) \in Nat OBVIOUS
<1>2. S \in SUBSET Nat /\ IsFiniteSet(S)
  <2>1. IsFiniteSet(1..Len(ib)) BY <1>1, FS_Interval
  <2>2. S \in SUBSET (1..Len(ib)) BY <1>1
  <2> QED BY <1>1, <2>1, <2>2, FS_Subset
<1>3. Missing(ib) = InOrder(S) BY DEF Missing
<1>4. /\ Cardinality(S) \in Nat
      /\ InOrder(S) \in [1..Cardinality(S) -> S]
      /\ Len(InOrder(S)) = Cardinality(S)
      /\ \A a, b \in 1..Cardinality(S) :
            InOrder(S)[a] = InOrder(S)[b] => a = b
      /\ \A e \in S : \E a \in 1..Cardinality(S) : InOrder(S)[a] = e
  BY <1>2, InOrderLists
<1>5. \A a \in 1..Cardinality(S) : InOrder(S)[a] \in S BY <1>4
<1> QED BY <1>1, <1>3, <1>4, <1>5

\* requeue, whole or cut short by a failed write, writes entries for inputs
\* that had none.
LEMMA RequeueWrites ==
    ASSUME NEW p \in Seq(Entries), NEW ib \in Seq(BoxItems),
           NEW n \in 0..Len(Missing(ib)),
           \A j \in 1..Len(ib) : ib[j].entry <= Len(p)
    PROVE  /\ Writes(p, ib, Requeued(p, ib, n), InboxRequeued(p, ib, n))
           /\ n = Len(Missing(ib)) =>
                 \A j \in 1..Len(ib) : InboxRequeued(p, ib, n)[j].entry # 0
<1> DEFINE o == Missing(ib)
           w == [j \in 1..n |-> Queued(ib[o[j]])]
           p2 == Requeued(p, ib, n)
           ib2 == InboxRequeued(p, ib, n)
<1>1. /\ Len(o) \in Nat /\ n \in Nat /\ n <= Len(o)
      /\ \A a \in 1..Len(o) : o[a] \in 1..Len(ib) /\ ib[o[a]].entry = 0
      /\ \A a, b \in 1..Len(o) : o[a] = o[b] => a = b
      /\ \A j \in 1..Len(ib) : ib[j].entry = 0 =>
                 \E a \in 1..Len(o) : o[a] = j
  BY MissingLists
<1> HIDE DEF o
<1>2. \A a \in 1..n : a \in 1..Len(o) /\ o[a] \in 1..Len(ib) BY <1>1
<1>3. Len(p) \in Nat /\ DOMAIN p = 1..Len(p) /\ Len(ib) \in Nat
      /\ DOMAIN ib = 1..Len(ib) /\ \A j \in 1..Len(ib) : ib[j] \in BoxItems
  OBVIOUS
<1>4. \A j \in 1..Len(ib) : Queued(ib[j]) \in Entries
  BY <1>3 DEF Queued, BoxItems, Entries, Kinds
<1>5. w \in Seq(Entries) /\ Len(w) = n
  <2>1. w \in [1..n -> Entries] BY <1>2, <1>4
  <2> QED BY <1>1, <2>1, SeqOf
<1>6. p2 = p \o w BY DEF Requeued, o
<1>7. /\ p2 \in Seq(Entries) /\ Len(p2) = Len(p) + n
      /\ \A e \in 1..Len(p) : p2[e] = p[e]
      /\ \A k \in 1..n : p2[Len(p) + k] = Queued(ib[o[k]])
  <2>1. p2 \in Seq(Entries) /\ Len(p2) = Len(p) + n BY <1>3, <1>5, <1>6
  <2>2. \A e \in 1..Len(p) : p2[e] = p[e] BY <1>3, <1>5, <1>6
  <2>3. ASSUME NEW k \in 1..n PROVE p2[Len(p) + k] = Queued(ib[o[k]])
    <3>1. p2[Len(p) + k] = w[k] BY <1>1, <1>3, <1>5, <1>6
    <3> QED BY <3>1
  <2> QED BY <2>1, <2>2, <2>3
<1>8. ASSUME NEW j \in 1..Len(ib), NEW k \in 1..n, o[k] = j
      PROVE  ib2[j] = [ib[j] EXCEPT !.entry = Len(p) + k]
  <2>1. (CHOOSE m \in 1..n : o[m] = j) = k BY <1>1, <1>2, <1>8
  <2>2. \E m \in 1..n : o[m] = j BY <1>8
  <2> QED BY <1>3, <2>1, <2>2 DEF InboxRequeued, o
<1>9. ASSUME NEW j \in 1..Len(ib), ~ \E k \in 1..n : o[k] = j
      PROVE  ib2[j] = ib[j]
  BY <1>3, <1>9 DEF InboxRequeued, o
<1>10. ASSUME NEW j \in 1..Len(ib)
       PROVE  /\ ib2[j] \in BoxItems /\ SameInput(ib[j], ib2[j])
              /\ ib[j].entry # 0 => ib2[j].entry = ib[j].entry
              /\ ib[j].entry = 0 => \/ ib2[j].entry = 0
                                    \/ ib2[j].entry \in (Len(p) + 1)..Len(p2)
              /\ n = Len(o) => ib2[j].entry # 0
  <2>1. CASE \E k \in 1..n : o[k] = j
    <3>1. PICK k \in 1..n : o[k] = j BY <2>1
    <3>2. ib2[j] = [ib[j] EXCEPT !.entry = Len(p) + k] BY <1>8, <3>1
    <3>3. ib[j].entry = 0 /\ ib[j] \in BoxItems
      BY <1>1, <1>2, <1>3, <3>1
    <3>4. k \in Nat /\ k # 0 /\ k <= n BY <1>1
    <3> HIDE DEF ib2, p2
    <3>5. ib2[j] \in BoxItems /\ SameInput(ib[j], ib2[j])
          /\ ib2[j].entry = Len(p) + k
      <4>1. Len(p) + k \in Nat BY <1>3, <3>4
      <4> DEFINE b == [ib[j] EXCEPT !.entry = Len(p) + k]
      <4>2. b \in BoxItems /\ SameInput(ib[j], b) /\ b.entry = Len(p) + k
        BY <3>3, <4>1, EntryChanged
      <4> QED BY <3>2, <4>2
    <3>6. Len(p) + k \in (Len(p) + 1)..Len(p2) /\ Len(p) + k # 0
      BY <1>1, <1>3, <1>7, <3>4
    <3> QED BY <3>3, <3>5, <3>6
  <2>2. CASE ~ \E k \in 1..n : o[k] = j
    <3>1. ib2[j] = ib[j] BY <1>9, <2>2
    <3>2. n = Len(o) => ib[j].entry # 0 BY <1>1, <2>2
    <3> QED BY <1>3, <3>1, <3>2 DEF SameInput
  <2> QED BY <2>1, <2>2
<1>11. ib2 \in Seq(BoxItems) /\ Len(ib2) = Len(ib)
  <2>2. ib2 = [j \in 1..Len(ib) |-> ib2[j]] BY <1>3 DEF InboxRequeued
  <2> HIDE DEF ib2
  <2>3. ib2 \in [1..Len(ib) -> BoxItems] BY <1>10, <2>2
  <2> QED BY <1>3, <2>3, SeqOf
<1>12. ASSUME NEW e \in (Len(p) + 1)..Len(p2)
       PROVE  \E j \in 1..Len(ib) :
                 /\ ib[j].entry = 0 /\ ib2[j].entry = e
                 /\ p2[e] = Queued(ib[j])
                 /\ \A m \in 1..Len(ib) : ib2[m].entry = e => m = j
  <2> DEFINE k == e - Len(p)
  <2>1. k \in 1..n /\ e = Len(p) + k /\ e # 0 /\ e \notin 1..Len(p)
    BY <1>1, <1>3, <1>7
  <2>2. o[k] \in 1..Len(ib) /\ ib[o[k]].entry = 0 BY <1>1, <1>2, <2>1
  <2>3. p2[e] = Queued(ib[o[k]]) BY <1>7, <2>1
  <2>4. ib2[o[k]] = [ib[o[k]] EXCEPT !.entry = Len(p) + k]
    BY <1>8, <2>1, <2>2
  <2>5. ib2[o[k]].entry = e BY <1>3, <2>1, <2>2, <2>4 DEF BoxItems
  <2>6. ASSUME NEW m \in 1..Len(ib), ib2[m].entry = e
        PROVE  m = o[k]
    <3>1. CASE \E l \in 1..n : o[l] = m
      <4>1. PICK l \in 1..n : o[l] = m BY <3>1
      <4>2. ib2[m] = [ib[m] EXCEPT !.entry = Len(p) + l] BY <1>8, <4>1
      <4>3. ib2[m].entry = Len(p) + l BY <1>3, <4>2 DEF BoxItems
      <4> QED BY <1>1, <1>3, <2>1, <2>6, <4>1, <4>3
    <3>2. CASE ~ \E l \in 1..n : o[l] = m
      <4>1. ib[m].entry = e BY <1>9, <2>6, <3>2
      <4> QED BY <1>1, <1>3, <2>1, <2>6, <4>1
    <3> QED BY <3>1, <3>2
  <2> QED BY <2>2, <2>3, <2>5, <2>6
<1> QED BY <1>3, <1>7, <1>10, <1>11, <1>12 DEF Writes, o

-----------------------------------------------------------------------------
(* The entries of the inbox.                                               *)

\* Only an item names an entry it drains, and an entry or an item holds an
\* input's content.
PathOK(p) ==
    \A e \in DOMAIN p :
       /\ p[e].k # "item" => p[e].from = 0
       /\ p[e].k \in {"queued", "item"} => p[e].x \in Contents

\* An input of the inbox that has an entry has one of its own that the path
\* owes and that holds it.
EntriesOK(p, ib) ==
    \A j \in DOMAIN ib : ib[j].entry # 0 =>
       /\ ib[j].entry \in PendingQueued(p)
       /\ p[ib[j].entry].x = ib[j].x
       /\ p[ib[j].entry].d = ib[j].d
       /\ \A m \in DOMAIN ib : m # j => ib[m].entry # ib[j].entry

\* The entries of the inbox are on the path.
LEMMA EntriesOnPath ==
    ASSUME NEW p \in Seq(Entries), NEW ib \in Seq(BoxItems), EntriesOK(p, ib)
    PROVE  \A j \in 1..Len(ib) : ib[j].entry \in Nat /\ ib[j].entry <= Len(p)
<1> TAKE j \in 1..Len(ib)
<1>1. ib[j].entry \in Nat
  <2>1. ib[j] \in BoxItems OBVIOUS
  <2> QED BY <2>1 DEF BoxItems
<1>2. ib[j].entry # 0 => ib[j].entry \in DOMAIN p
  BY DEF EntriesOK, PendingQueued
<1>3. DOMAIN p = 1..Len(p) /\ Len(p) \in Nat OBVIOUS
<1> QED BY <1>1, <1>2, <1>3

\* What is owed stays owed when the path grows by entries that end no run
\* and drain nothing of it.
LEMMA PendingKept ==
    ASSUME NEW p \in Seq(Entries), NEW p2 \in Seq(Entries),
           Len(p) <= Len(p2),
           \A e \in 1..Len(p) : p2[e] = p[e],
           NEW g \in PendingQueued(p),
           \A e \in (Len(p) + 1)..Len(p2) : p2[e].k # "end" /\ p2[e].from # g
    PROVE  g \in PendingQueued(p2) /\ p2[g] = p[g]
<1>1. /\ DOMAIN p = 1..Len(p) /\ DOMAIN p2 = 1..Len(p2)
      /\ Len(p) \in Nat /\ Len(p2) \in Nat
  OBVIOUS
<1>2. /\ g \in 1..Len(p) /\ p[g].k = "queued"
      /\ \A j \in (g + 1)..Len(p) : p[j].k # "end" /\ p[j].from # g
  BY <1>1 DEF PendingQueued
<1>3. g \in 1..Len(p2) /\ p2[g] = p[g] BY <1>1, <1>2
<1>4. ASSUME NEW j \in (g + 1)..Len(p2)
      PROVE  p2[j].k # "end" /\ p2[j].from # g
  <2>1. j \in (g + 1)..Len(p) \/ j \in (Len(p) + 1)..Len(p2)
    BY <1>1, <1>2
  <2>2. j \in (g + 1)..Len(p) => j \in 1..Len(p) BY <1>1, <1>2
  <2> QED BY <1>2, <2>1, <2>2
<1> QED BY <1>1, <1>2, <1>3, <1>4 DEF PendingQueued

\* What requeue writes keeps the path's shape and each input's entry.
LEMMA WritesEntries ==
    ASSUME NEW p \in Seq(Entries), NEW ib \in Seq(BoxItems), NEW p2, NEW ib2,
           Writes(p, ib, p2, ib2), PathOK(p), EntriesOK(p, ib)
    PROVE  PathOK(p2) /\ EntriesOK(p2, ib2)
<1>1. /\ p2 \in Seq(Entries) /\ Len(p) <= Len(p2)
      /\ \A e \in 1..Len(p) : p2[e] = p[e]
      /\ ib2 \in Seq(BoxItems) /\ Len(ib2) = Len(ib)
  BY DEF Writes
<1>2. /\ DOMAIN p = 1..Len(p) /\ DOMAIN p2 = 1..Len(p2)
      /\ Len(p) \in Nat /\ Len(p2) \in Nat /\ Len(ib) \in Nat
      /\ DOMAIN ib = 1..Len(ib) /\ DOMAIN ib2 = 1..Len(ib)
      /\ \A j \in 1..Len(ib) : ib[j] \in BoxItems
  BY <1>1
<1>3. ASSUME NEW e \in (Len(p) + 1)..Len(p2)
      PROVE  /\ p2[e].k = "queued" /\ p2[e].from = 0 /\ p2[e].x \in Contents
             /\ \E j \in 1..Len(ib) :
                  /\ ib[j].entry = 0 /\ ib2[j].entry = e
                  /\ p2[e].x = ib[j].x /\ p2[e].d = ib[j].d
                  /\ \A m \in 1..Len(ib) : ib2[m].entry = e => m = j
  <2>1. PICK j \in 1..Len(ib) :
             /\ ib[j].entry = 0 /\ ib2[j].entry = e
             /\ p2[e] = Queued(ib[j])
             /\ \A m \in 1..Len(ib) : ib2[m].entry = e => m = j
    BY DEF Writes
  <2>2. /\ Queued(ib[j]).k = "queued" /\ Queued(ib[j]).from = 0
        /\ Queued(ib[j]).x = ib[j].x /\ Queued(ib[j]).d = ib[j].d
    BY DEF Queued
  <2>3. ib[j].x \in Contents BY <1>2 DEF BoxItems
  <2> QED BY <2>1, <2>2, <2>3
<1>4. PathOK(p2)
  <2> SUFFICES ASSUME NEW e \in 1..Len(p2)
               PROVE  /\ p2[e].k # "item" => p2[e].from = 0
                      /\ p2[e].k \in {"queued", "item"} => p2[e].x \in Contents
    BY <1>2 DEF PathOK
  <2>1. CASE e \in 1..Len(p) BY <1>1, <1>2, <2>1 DEF PathOK
  <2>2. CASE e \in (Len(p) + 1)..Len(p2) BY <1>3, <2>2
  <2> QED BY <1>2, <2>1, <2>2
<1>5. \A g \in PendingQueued(p) : g \in PendingQueued(p2) /\ p2[g] = p[g]
  <2> TAKE g \in PendingQueued(p)
  <2>1. g \in Nat /\ g # 0 BY <1>2 DEF PendingQueued
  <2>2. \A e \in (Len(p) + 1)..Len(p2) : p2[e].k # "end" /\ p2[e].from # g
    BY <1>3, <2>1
  <2> QED BY <1>1, <2>2, PendingKept
<1>6. \A e \in (Len(p) + 1)..Len(p2) : e \in PendingQueued(p2)
  <2> TAKE e \in (Len(p) + 1)..Len(p2)
  <2>1. e \in 1..Len(p2) /\ e # 0 /\ p2[e].k = "queued" BY <1>2, <1>3
  <2>2. \A j \in (e + 1)..Len(p2) : p2[j].k # "end" /\ p2[j].from # e
    <3> TAKE j \in (e + 1)..Len(p2)
    <3>1. j \in (Len(p) + 1)..Len(p2) BY <1>2
    <3> QED BY <1>3, <2>1, <3>1
  <2> QED BY <1>2, <2>1, <2>2 DEF PendingQueued
<1>7. ASSUME NEW j \in 1..Len(ib), ib2[j].entry # 0
      PROVE  /\ ib2[j].entry \in PendingQueued(p2)
             /\ p2[ib2[j].entry].x = ib2[j].x
             /\ p2[ib2[j].entry].d = ib2[j].d
             /\ \A m \in 1..Len(ib) : m # j => ib2[m].entry # ib2[j].entry
  <2>1. /\ ib2[j].x = ib[j].x /\ ib2[j].d = ib[j].d
        /\ ib[j].entry # 0 => ib2[j].entry = ib[j].entry
        /\ ib[j].entry = 0 => \/ ib2[j].entry = 0
                              \/ ib2[j].entry \in (Len(p) + 1)..Len(p2)
    BY DEF Writes, SameInput
  <2>2. CASE ib[j].entry # 0
    <3>1. /\ ib[j].entry \in PendingQueued(p)
          /\ p[ib[j].entry].x = ib[j].x /\ p[ib[j].entry].d = ib[j].d
          /\ \A m \in 1..Len(ib) : m # j => ib[m].entry # ib[j].entry
      BY <1>2, <2>2 DEF EntriesOK
    <3>2. ib[j].entry \in 1..Len(p) BY <1>2, <3>1 DEF PendingQueued
    <3>3. ASSUME NEW m \in 1..Len(ib), m # j
          PROVE  ib2[m].entry # ib2[j].entry
      <4>1. /\ ib[m].entry # 0 => ib2[m].entry = ib[m].entry
            /\ ib[m].entry = 0 => \/ ib2[m].entry = 0
                                  \/ ib2[m].entry \in (Len(p) + 1)..Len(p2)
        BY DEF Writes
      <4> QED BY <1>2, <2>1, <2>2, <3>1, <3>2, <3>3, <4>1
    <3> QED BY <1>5, <2>1, <2>2, <3>1, <3>3
  <2>3. CASE ib[j].entry = 0
    <3>1. ib2[j].entry \in (Len(p) + 1)..Len(p2) BY <1>7, <2>1, <2>3
    <3>2. PICK l \in 1..Len(ib) :
                  /\ ib2[l].entry = ib2[j].entry
                  /\ p2[ib2[j].entry].x = ib[l].x /\ p2[ib2[j].entry].d = ib[l].d
                  /\ \A m \in 1..Len(ib) : ib2[m].entry = ib2[j].entry => m = l
      BY <1>3, <3>1
    <3>3. l = j BY <3>2
    <3> QED BY <1>6, <2>1, <3>1, <3>2, <3>3
  <2> QED BY <2>2, <2>3
<1>8. EntriesOK(p2, ib2) BY <1>2, <1>7 DEF EntriesOK
<1> QED BY <1>4, <1>8

\* So does an inbox made of inputs of another, each at most once, with the
\* entry they had there or none.
LEMMA EntriesOfSome ==
    ASSUME NEW p, NEW ib \in Seq(BoxItems), NEW ib2 \in Seq(BoxItems),
           EntriesOK(p, ib), NEW f \in [1..Len(ib2) -> 1..Len(ib)],
           \A a, b \in 1..Len(ib2) : f[a] = f[b] => a = b,
           \A j \in 1..Len(ib2) :
              ib2[j].entry # 0 => /\ ib2[j].entry = ib[f[j]].entry
                                  /\ ib2[j].x = ib[f[j]].x
                                  /\ ib2[j].d = ib[f[j]].d
    PROVE  EntriesOK(p, ib2)
<1>1. /\ DOMAIN ib = 1..Len(ib) /\ DOMAIN ib2 = 1..Len(ib2) OBVIOUS
<1> SUFFICES ASSUME NEW j \in 1..Len(ib2), ib2[j].entry # 0
             PROVE  /\ ib2[j].entry \in PendingQueued(p)
                    /\ p[ib2[j].entry].x = ib2[j].x
                    /\ p[ib2[j].entry].d = ib2[j].d
                    /\ \A m \in 1..Len(ib2) : m # j =>
                          ib2[m].entry # ib2[j].entry
  BY <1>1 DEF EntriesOK
<1>2. f[j] \in 1..Len(ib) OBVIOUS
<1>3. /\ ib[f[j]].entry \in PendingQueued(p)
      /\ p[ib[f[j]].entry].x = ib[f[j]].x
      /\ p[ib[f[j]].entry].d = ib[f[j]].d
      /\ \A m \in 1..Len(ib) : m # f[j] => ib[m].entry # ib[f[j]].entry
  BY <1>1, <1>2 DEF EntriesOK
<1>4. ASSUME NEW m \in 1..Len(ib2), m # j, ib2[m].entry = ib2[j].entry
      PROVE  FALSE
  <2>1. f[m] \in 1..Len(ib) /\ f[m] # f[j] BY <1>4
  <2>2. ib[f[m]].entry = ib[f[j]].entry BY <1>4
  <2> QED BY <1>3, <2>1, <2>2
<1> QED BY <1>3, <1>4

\* An inbox with one input more, which has no entry.
LEMMA EntriesAppend ==
    ASSUME NEW p, NEW ib \in Seq(BoxItems), NEW in \in BoxItems,
           EntriesOK(p, ib), in.entry = 0
    PROVE  EntriesOK(p, Append(ib, in))
<1> DEFINE ib2 == Append(ib, in)
<1>1. /\ DOMAIN ib = 1..Len(ib) /\ Len(ib) \in Nat
      /\ DOMAIN ib2 = 1..(Len(ib) + 1)
      /\ \A j \in 1..Len(ib) : ib2[j] = ib[j]
      /\ ib2[Len(ib) + 1] = in
  OBVIOUS
<1> HIDE DEF ib2
<1> QED BY <1>1 DEF EntriesOK

-----------------------------------------------------------------------------
(* The inbox and the agent's queue.                                        *)

\* The state of an input of the inbox, beside its submission's.
InputOK(in, c) ==
    /\ in.awaiting => in.held
    /\ in.held => ~in.declined
    /\ ~in.held /\ ~in.declined => in.p < 0
    /\ in.p # 0
    /\ in.p > 0 =>
          /\ in.p \in Inputs /\ in.x = Content[in.p] /\ c[in.p] # "new"
          /\ in.held => c[in.p] \in {"written", "acked", "direct"}
          /\ in.awaiting => c[in.p] \in {"written", "acked"}
          /\ in.held /\ ~in.awaiting => c[in.p] \in {"acked", "direct"}

\* Each input is there once.
Distinct(q) == \A a, b \in DOMAIN q : q[a].p = q[b].p => a = b

\* An input whose entry was written and which the agent has not answered for
\* is held, and its event is to come.
WrittenOK(ib, c) ==
    \A i \in Inputs : c[i] = "written" =>
       \E j \in DOMAIN ib : ib[j].p = i /\ ib[j].held /\ ib[j].awaiting

\* An input's queued event is to come.
Coming(ev, p) == \E m \in DOMAIN ev : ev[m].p = p

\* An input of the agent's queue that the recorder has not seen yet.
Unseen(in, ib, c, ev) ==
    /\ Coming(ev, in.p) /\ in.p > 0 /\ c[in.p] = "direct"
    /\ \A j \in DOMAIN ib : ib[j].p # in.p

\* One that is held in the inbox, and awaits its event if that is to come.
HeldIn(in, ib, ev) ==
    \E j \in DOMAIN ib :
       /\ ib[j].p = in.p /\ ib[j].x = in.x /\ ib[j].held
       /\ ib[j].awaiting <=> Coming(ev, in.p)

QueueOK(ib, c, ag, ev) ==
    \A a \in DOMAIN ag :
       /\ ag[a].p > 0 => /\ ag[a].p \in Inputs /\ ag[a].x = Content[ag[a].p]
                         /\ c[ag[a].p] \in {"acked", "direct"}
       /\ Unseen(ag[a], ib, c, ev) \/ HeldIn(ag[a], ib, ev)

\* The events to come are of inputs in the agent's queue.
EventsOK(ag, ev) == \A m \in DOMAIN ev : \E a \in DOMAIN ag : ag[a] = ev[m]

BoxInv(ib, c, ag, ev) ==
    /\ \A j \in DOMAIN ib : InputOK(ib[j], c)
    /\ Distinct(ib) /\ Distinct(ag) /\ Distinct(ev)
    /\ WrittenOK(ib, c) /\ QueueOK(ib, c, ag, ev) /\ EventsOK(ag, ev)

\* It is kept by an inbox made of inputs of another, each once and all that
\* are held among them, whatever their entries.
LEMMA BoxOfHeld ==
    ASSUME NEW ib \in Seq(BoxItems), NEW ib2 \in Seq(BoxItems),
           NEW c, NEW ag, NEW ev, BoxInv(ib, c, ag, ev),
           NEW f \in [1..Len(ib2) -> 1..Len(ib)],
           \A a, b \in 1..Len(ib2) : f[a] = f[b] => a = b,
           \A j \in 1..Len(ib2) : SameInput(ib[f[j]], ib2[j]),
           \A j \in 1..Len(ib) : ib[j].held => \E m \in 1..Len(ib2) : f[m] = j
    PROVE  BoxInv(ib2, c, ag, ev)
<1>1. DOMAIN ib = 1..Len(ib) /\ DOMAIN ib2 = 1..Len(ib2) OBVIOUS
<1>2. \A j \in 1..Len(ib2) : f[j] \in 1..Len(ib) OBVIOUS
<1>3. \A j \in DOMAIN ib2 : InputOK(ib2[j], c)
  <2> SUFFICES ASSUME NEW j \in 1..Len(ib2) PROVE InputOK(ib2[j], c)
    BY <1>1
  <2>1. InputOK(ib[f[j]], c) BY <1>1, <1>2 DEF BoxInv
  <2> QED BY <2>1 DEF InputOK, SameInput
<1>4. Distinct(ib2)
  <2> SUFFICES ASSUME NEW a \in 1..Len(ib2), NEW b \in 1..Len(ib2),
                      ib2[a].p = ib2[b].p
               PROVE  a = b
    BY <1>1 DEF Distinct
  <2>1. ib[f[a]].p = ib[f[b]].p BY DEF SameInput
  <2>2. f[a] = f[b] BY <1>1, <1>2, <2>1 DEF BoxInv, Distinct
  <2> QED BY <2>2
<1>5. ASSUME NEW j \in 1..Len(ib), ib[j].held
      PROVE  \E m \in 1..Len(ib2) : SameInput(ib[j], ib2[m])
  BY <1>5
<1>6. WrittenOK(ib2, c)
  <2> SUFFICES ASSUME NEW i \in Inputs, c[i] = "written"
               PROVE  \E j \in 1..Len(ib2) :
                         ib2[j].p = i /\ ib2[j].held /\ ib2[j].awaiting
    BY <1>1 DEF WrittenOK
  <2>1. PICK j \in 1..Len(ib) : ib[j].p = i /\ ib[j].held /\ ib[j].awaiting
    BY <1>1 DEF BoxInv, WrittenOK
  <2>2. PICK m \in 1..Len(ib2) : SameInput(ib[j], ib2[m]) BY <1>5, <2>1
  <2> QED BY <2>1, <2>2 DEF SameInput
<1>7. QueueOK(ib2, c, ag, ev)
  <2> SUFFICES ASSUME NEW a \in DOMAIN ag
               PROVE  Unseen(ag[a], ib2, c, ev) \/ HeldIn(ag[a], ib2, ev)
    BY DEF BoxInv, QueueOK
  <2>1. Unseen(ag[a], ib, c, ev) \/ HeldIn(ag[a], ib, ev)
    BY DEF BoxInv, QueueOK
  <2>2. CASE Unseen(ag[a], ib, c, ev)
    <3>1. \A j \in 1..Len(ib2) : ib2[j].p # ag[a].p
      BY <1>1, <1>2, <2>2 DEF Unseen, SameInput
    <3> QED BY <1>1, <2>2, <3>1 DEF Unseen
  <2>3. CASE HeldIn(ag[a], ib, ev)
    <3>1. PICK j \in 1..Len(ib) :
             /\ ib[j].p = ag[a].p /\ ib[j].x = ag[a].x /\ ib[j].held
             /\ ib[j].awaiting <=> Coming(ev, ag[a].p)
      BY <1>1, <2>3 DEF HeldIn
    <3>2. PICK m \in 1..Len(ib2) : SameInput(ib[j], ib2[m])
      BY <1>5, <3>1
    <3>3. HeldIn(ag[a], ib2, ev)
      BY <1>1, <3>1, <3>2 DEF HeldIn, SameInput
    <3> QED BY <3>3
  <2> QED BY <2>1, <2>2, <2>3
<1> QED BY <1>3, <1>4, <1>6, <1>7 DEF BoxInv

\* What requeue writes keeps the invariant of the inbox.
LEMMA WritesBox ==
    ASSUME NEW ib \in Seq(BoxItems), NEW p, NEW p2, NEW ib2,
           NEW c, NEW ag, NEW ev, BoxInv(ib, c, ag, ev),
           Writes(p, ib, p2, ib2)
    PROVE  BoxInv(ib2, c, ag, ev)
<1> DEFINE f == [j \in 1..Len(ib2) |-> j]
<1>1. ib2 \in Seq(BoxItems) /\ Len(ib2) = Len(ib)
      /\ \A j \in 1..Len(ib) : SameInput(ib[j], ib2[j])
  BY DEF Writes
<1>2. f \in [1..Len(ib2) -> 1..Len(ib)] BY <1>1
<1>3. \A j \in 1..Len(ib2) : f[j] = j OBVIOUS
<1> HIDE DEF f
<1> QED BY <1>1, <1>2, <1>3, BoxOfHeld

\* So does a submission that fails before anything was written.
LEMMA BoxFailed ==
    ASSUME NEW ib, NEW c \in [Inputs -> Pcs], NEW ag, NEW ev,
           BoxInv(ib, c, ag, ev), NEW i \in Inputs, c[i] = "new"
    PROVE  BoxInv(ib, [c EXCEPT ![i] = "failed"], ag, ev)
<1> DEFINE c2 == [c EXCEPT ![i] = "failed"]
<1>1. \A j \in Inputs : j # i => c2[j] = c[j] OBVIOUS
<1>2. c2[i] = "failed" OBVIOUS
<1> HIDE DEF c2
<1>3. \A j \in DOMAIN ib : InputOK(ib[j], c2)
  <2> SUFFICES ASSUME NEW j \in DOMAIN ib PROVE InputOK(ib[j], c2)
    OBVIOUS
  <2>1. InputOK(ib[j], c) BY DEF BoxInv
  <2>2. ib[j].p > 0 => c2[ib[j].p] = c[ib[j].p]
    BY <1>1, <2>1 DEF InputOK
  <2> QED BY <2>1, <2>2 DEF InputOK
<1>4. WrittenOK(ib, c2)
  <2> SUFFICES ASSUME NEW j \in Inputs, c2[j] = "written"
               PROVE  \E m \in DOMAIN ib :
                         ib[m].p = j /\ ib[m].held /\ ib[m].awaiting
    BY DEF WrittenOK
  <2>1. c[j] = "written" BY <1>1, <1>2
  <2> QED BY <2>1 DEF BoxInv, WrittenOK
<1>5. QueueOK(ib, c2, ag, ev)
  <2> SUFFICES ASSUME NEW a \in DOMAIN ag
               PROVE  /\ ag[a].p > 0 => /\ ag[a].p \in Inputs
                                        /\ ag[a].x = Content[ag[a].p]
                                        /\ c2[ag[a].p] \in {"acked", "direct"}
                      /\ Unseen(ag[a], ib, c2, ev) \/ HeldIn(ag[a], ib, ev)
    BY DEF QueueOK
  <2>1. /\ ag[a].p > 0 => /\ ag[a].p \in Inputs
                          /\ ag[a].x = Content[ag[a].p]
                          /\ c[ag[a].p] \in {"acked", "direct"}
        /\ Unseen(ag[a], ib, c, ev) \/ HeldIn(ag[a], ib, ev)
    BY DEF BoxInv, QueueOK
  <2>2. ag[a].p > 0 => c2[ag[a].p] = c[ag[a].p] BY <1>1, <2>1
  <2>3. Unseen(ag[a], ib, c, ev) => Unseen(ag[a], ib, c2, ev)
    BY <2>2 DEF Unseen
  <2> QED BY <2>1, <2>2, <2>3
<1>6. BoxInv(ib, c2, ag, ev) BY <1>3, <1>4, <1>5 DEF BoxInv
<1> QED BY <1>6 DEF c2

\* A submission's new input is held, and awaits its event.
LEMMA BoxSubmitted ==
    ASSUME NEW ib \in Seq(BoxItems), NEW c \in [Inputs -> Pcs], NEW ag, NEW ev,
           BoxInv(ib, c, ag, ev), NEW i \in Inputs, c[i] = "new",
           NEW in \in BoxItems, in.p = i, in.x = Content[i],
           in.held, in.awaiting, ~in.declined
    PROVE  BoxInv(Append(ib, in), [c EXCEPT ![i] = "written"], ag, ev)
<1> DEFINE c2 == [c EXCEPT ![i] = "written"]
           ib2 == Append(ib, in)
<1>1. (\A j \in Inputs : j # i => c2[j] = c[j]) /\ c2[i] = "written"
  OBVIOUS
<1>2. /\ DOMAIN ib = 1..Len(ib) /\ Len(ib) \in Nat
      /\ DOMAIN ib2 = 1..(Len(ib) + 1)
      /\ \A j \in 1..Len(ib) : ib2[j] = ib[j]
      /\ ib2[Len(ib) + 1] = in
  OBVIOUS
<1>3. i \in Nat /\ i # 0 /\ i > 0 BY InboxAssumption
<1> HIDE DEF c2, ib2
<1>4. \A j \in 1..Len(ib) : InputOK(ib[j], c) BY <1>2 DEF BoxInv
<1>5. \A j \in 1..Len(ib) : ib[j].p # i BY <1>3, <1>4 DEF InputOK
<1>6. ASSUME NEW j \in DOMAIN ib2 PROVE InputOK(ib2[j], c2)
  <2>1. CASE j = Len(ib) + 1
    <3>1. ib2[j] = in BY <1>2, <2>1
    <3> QED BY <1>1, <1>3, <3>1 DEF InputOK
  <2>2. CASE j \in 1..Len(ib)
    <3>1. ib2[j] = ib[j] /\ InputOK(ib[j], c) BY <1>2, <1>4, <2>2
    <3>2. ib[j].p > 0 => c2[ib[j].p] = c[ib[j].p]
      BY <1>1, <1>5, <2>2, <3>1 DEF InputOK
    <3> QED BY <3>1, <3>2 DEF InputOK
  <2> QED BY <1>2, <2>1, <2>2
<1>7. Distinct(ib2)
  <2> SUFFICES ASSUME NEW a \in 1..(Len(ib) + 1), NEW b \in 1..(Len(ib) + 1),
                      ib2[a].p = ib2[b].p
               PROVE  a = b
    BY <1>2 DEF Distinct
  <2>1. a \in 1..Len(ib) /\ b \in 1..Len(ib) => a = b
    BY <1>2 DEF BoxInv, Distinct
  <2> QED BY <1>2, <1>5, <2>1
<1>8. WrittenOK(ib2, c2)
  <2> SUFFICES ASSUME NEW j \in Inputs, c2[j] = "written"
               PROVE  \E m \in 1..(Len(ib) + 1) :
                         ib2[m].p = j /\ ib2[m].held /\ ib2[m].awaiting
    BY <1>2 DEF WrittenOK
  <2>1. CASE j = i
    <3>1. Len(ib) + 1 \in 1..(Len(ib) + 1) BY <1>2
    <3> QED BY <1>2, <2>1, <3>1
  <2>2. CASE j # i
    <3>1. PICK m \in 1..Len(ib) : ib[m].p = j /\ ib[m].held /\ ib[m].awaiting
      BY <1>1, <1>2, <2>2 DEF BoxInv, WrittenOK
    <3>2. m \in 1..(Len(ib) + 1) /\ ib2[m] = ib[m] BY <1>2
    <3> QED BY <3>1, <3>2
  <2> QED BY <2>1, <2>2
<1>9. QueueOK(ib2, c2, ag, ev)
  <2> SUFFICES ASSUME NEW a \in DOMAIN ag
               PROVE  /\ ag[a].p > 0 => /\ ag[a].p \in Inputs
                                        /\ ag[a].x = Content[ag[a].p]
                                        /\ c2[ag[a].p] \in {"acked", "direct"}
                      /\ Unseen(ag[a], ib2, c2, ev) \/ HeldIn(ag[a], ib2, ev)
    BY DEF QueueOK
  <2>1. /\ ag[a].p > 0 => /\ ag[a].p \in Inputs
                          /\ ag[a].x = Content[ag[a].p]
                          /\ c[ag[a].p] \in {"acked", "direct"}
        /\ Unseen(ag[a], ib, c, ev) \/ HeldIn(ag[a], ib, ev)
    BY DEF BoxInv, QueueOK
  <2>2. ag[a].p > 0 => c2[ag[a].p] = c[ag[a].p] /\ ag[a].p # i
    BY <1>1, <2>1
  <2>3. Unseen(ag[a], ib, c, ev) => Unseen(ag[a], ib2, c2, ev)
    BY <1>2, <2>2 DEF Unseen
  <2>4. HeldIn(ag[a], ib, ev) => HeldIn(ag[a], ib2, ev)
    <3> SUFFICES ASSUME NEW j \in 1..Len(ib),
             ib[j].p = ag[a].p, ib[j].x = ag[a].x, ib[j].held,
             ib[j].awaiting <=> Coming(ev, ag[a].p)
           PROVE HeldIn(ag[a], ib2, ev)
      BY <1>2 DEF HeldIn
    <3>1. j \in 1..(Len(ib) + 1) /\ ib2[j] = ib[j] BY <1>2
    <3> QED BY <1>2, <3>1 DEF HeldIn
  <2> QED BY <2>1, <2>2, <2>3, <2>4
<1>10. BoxInv(ib2, c2, ag, ev) BY <1>6, <1>7, <1>8, <1>9 DEF BoxInv
<1> QED BY <1>10 DEF c2, ib2

\* The host's decline of an input the agent did not take.
LEMMA BoxDeclined ==
    ASSUME NEW ib \in Seq(BoxItems), NEW c \in [Inputs -> Pcs], NEW ag, NEW ev,
           BoxInv(ib, c, ag, ev), NEW i \in Inputs, c[i] = "written"
    PROVE  /\ Declined(ib, {i}) \in Seq(BoxItems)
           /\ Len(Declined(ib, {i})) = Len(ib)
           /\ \A j \in 1..Len(ib) :
                 LET in == Declined(ib, {i})[j] IN
                 /\ in.entry = ib[j].entry /\ in.x = ib[j].x
                 /\ in.d = ib[j].d /\ in.p = ib[j].p
                 /\ IF in.p = i THEN in.declined
                    ELSE in.declined = ib[j].declined
           /\ BoxInv(Declined(ib, {i}), [c EXCEPT ![i] = "failed"], ag, ev)
<1> DEFINE c2 == [c EXCEPT ![i] = "failed"]
           ib2 == Declined(ib, {i})
<1>1. (\A j \in Inputs : j # i => c2[j] = c[j]) /\ c2[i] = "failed"
  OBVIOUS
<1>2. /\ DOMAIN ib = 1..Len(ib) /\ Len(ib) \in Nat
      /\ \A j \in 1..Len(ib) : ib[j] \in BoxItems
  OBVIOUS
<1>3. i \in Nat /\ i # 0 /\ i > 0 BY InboxAssumption
<1>4. ASSUME NEW j \in 1..Len(ib)
      PROVE  /\ ib2[j] \in BoxItems
             /\ ib2[j].entry = ib[j].entry /\ ib2[j].x = ib[j].x
             /\ ib2[j].d = ib[j].d /\ ib2[j].p = ib[j].p
             /\ ib[j].p # i => ib2[j] = ib[j]
             /\ ib[j].p = i => ib2[j].declined /\ ~ib2[j].held
                               /\ ~ib2[j].awaiting
  <2>1. ib2[j] = IF ib[j].p \in {i}
                 THEN [ib[j] EXCEPT !.held = FALSE, !.awaiting = FALSE,
                                    !.declined = TRUE]
                 ELSE ib[j]
    BY <1>2 DEF Declined
  <2> HIDE DEF ib2
  <2> QED BY <1>2, <2>1 DEF BoxItems
<1>5. ib2 \in Seq(BoxItems) /\ Len(ib2) = Len(ib) /\ DOMAIN ib2 = 1..Len(ib)
  <2>1. ib2 = [j \in 1..Len(ib) |-> ib2[j]] BY <1>2 DEF Declined
  <2> HIDE DEF ib2
  <2>2. ib2 \in [1..Len(ib) -> BoxItems] BY <1>4, <2>1
  <2> QED BY <1>2, <2>2, SeqOf
<1> HIDE DEF c2, ib2
<1>6. \A j \in 1..Len(ib) : InputOK(ib[j], c) BY <1>2 DEF BoxInv
<1>7. ASSUME NEW j \in DOMAIN ib2 PROVE InputOK(ib2[j], c2)
  <2>0. j \in 1..Len(ib) /\ InputOK(ib[j], c) BY <1>5, <1>6
  <2>1. CASE ib[j].p = i BY <1>1, <1>3, <1>4, <2>0, <2>1 DEF InputOK
  <2>2. CASE ib[j].p # i
    <3>1. ib2[j] = ib[j] BY <1>4, <2>0, <2>2
    <3>2. ib[j].p > 0 => c2[ib[j].p] = c[ib[j].p]
      BY <1>1, <2>0, <2>2 DEF InputOK
    <3> QED BY <2>0, <3>1, <3>2 DEF InputOK
  <2> QED BY <2>1, <2>2
<1>8. Distinct(ib2) BY <1>2, <1>4, <1>5 DEF BoxInv, Distinct
<1>9. WrittenOK(ib2, c2)
  <2> SUFFICES ASSUME NEW j \in Inputs, c2[j] = "written"
               PROVE  \E m \in 1..Len(ib) :
                         ib2[m].p = j /\ ib2[m].held /\ ib2[m].awaiting
    BY <1>5 DEF WrittenOK
  <2>1. j # i /\ c[j] = "written" BY <1>1
  <2>2. PICK m \in 1..Len(ib) : ib[m].p = j /\ ib[m].held /\ ib[m].awaiting
    BY <1>2, <2>1 DEF BoxInv, WrittenOK
  <2> QED BY <1>4, <2>1, <2>2
<1>10. QueueOK(ib2, c2, ag, ev)
  <2> SUFFICES ASSUME NEW a \in DOMAIN ag
               PROVE  /\ ag[a].p > 0 => /\ ag[a].p \in Inputs
                                        /\ ag[a].x = Content[ag[a].p]
                                        /\ c2[ag[a].p] \in {"acked", "direct"}
                      /\ Unseen(ag[a], ib2, c2, ev) \/ HeldIn(ag[a], ib2, ev)
    BY DEF QueueOK
  <2>1. /\ ag[a].p > 0 => /\ ag[a].p \in Inputs
                          /\ ag[a].x = Content[ag[a].p]
                          /\ c[ag[a].p] \in {"acked", "direct"}
        /\ Unseen(ag[a], ib, c, ev) \/ HeldIn(ag[a], ib, ev)
    BY DEF BoxInv, QueueOK
  <2>2. ag[a].p # i /\ (ag[a].p > 0 => c2[ag[a].p] = c[ag[a].p])
    BY <1>1, <1>3, <2>1
  <2>3. Unseen(ag[a], ib, c, ev) => Unseen(ag[a], ib2, c2, ev)
    BY <1>2, <1>4, <1>5, <2>2 DEF Unseen
  <2>4. HeldIn(ag[a], ib, ev) => HeldIn(ag[a], ib2, ev)
    <3> SUFFICES ASSUME NEW j \in 1..Len(ib),
             ib[j].p = ag[a].p, ib[j].x = ag[a].x, ib[j].held,
             ib[j].awaiting <=> Coming(ev, ag[a].p)
           PROVE HeldIn(ag[a], ib2, ev)
      BY <1>2 DEF HeldIn
    <3>1. ib2[j] = ib[j] BY <1>4, <2>2
    <3> QED BY <1>5, <3>1 DEF HeldIn
  <2> QED BY <2>1, <2>2, <2>3, <2>4
<1>11. BoxInv(ib2, c2, ag, ev) BY <1>7, <1>8, <1>9, <1>10 DEF BoxInv
<1> QED BY <1>4, <1>5, <1>11 DEF c2, ib2

\* The events to come, with one more.
LEMMA ComingAppend ==
    ASSUME NEW ev \in Seq(Ins), NEW in \in Ins, NEW p
    PROVE  Coming(Append(ev, in), p) <=> Coming(ev, p) \/ p = in.p
<1> DEFINE ev2 == Append(ev, in)
<1>1. /\ DOMAIN ev = 1..Len(ev) /\ Len(ev) \in Nat
      /\ DOMAIN ev2 = 1..(Len(ev) + 1)
      /\ \A j \in 1..Len(ev) : ev2[j] = ev[j]
      /\ ev2[Len(ev) + 1] = in
      /\ Len(ev) + 1 \in 1..(Len(ev) + 1)
  OBVIOUS
<1> HIDE DEF ev2
<1>2. Coming(ev2, p) <=> Coming(ev, p) \/ p = in.p BY <1>1 DEF Coming
<1> QED BY <1>2 DEF ev2

\* Distinct inputs, with one that is not among them.
LEMMA DistinctAppend ==
    ASSUME NEW S, NEW q \in Seq(S), NEW in \in S, Distinct(q),
           \A a \in 1..Len(q) : q[a].p # in.p
    PROVE  Distinct(Append(q, in))
<1> DEFINE q2 == Append(q, in)
<1>1. /\ DOMAIN q = 1..Len(q) /\ Len(q) \in Nat
      /\ DOMAIN q2 = 1..(Len(q) + 1)
      /\ \A j \in 1..Len(q) : q2[j] = q[j]
      /\ q2[Len(q) + 1] = in
  OBVIOUS
<1> HIDE DEF q2
<1>2. Distinct(q2) BY <1>1 DEF Distinct
<1> QED BY <1>2 DEF q2

\* The events of an agent's queue, with one more input in both.
LEMMA EventsAppend ==
    ASSUME NEW ag \in Seq(Ins), NEW ev \in Seq(Ins), NEW in \in Ins,
           EventsOK(ag, ev)
    PROVE  EventsOK(Append(ag, in), Append(ev, in))
<1> DEFINE ag2 == Append(ag, in)
           ev2 == Append(ev, in)
<1>1. /\ DOMAIN ag = 1..Len(ag) /\ Len(ag) \in Nat
      /\ DOMAIN ag2 = 1..(Len(ag) + 1)
      /\ \A j \in 1..Len(ag) : ag2[j] = ag[j] /\ j \in 1..(Len(ag) + 1)
      /\ ag2[Len(ag) + 1] = in /\ Len(ag) + 1 \in 1..(Len(ag) + 1)
  OBVIOUS
<1>2. /\ DOMAIN ev = 1..Len(ev) /\ Len(ev) \in Nat
      /\ DOMAIN ev2 = 1..(Len(ev) + 1)
      /\ \A j \in 1..Len(ev) : ev2[j] = ev[j]
      /\ ev2[Len(ev) + 1] = in
  OBVIOUS
<1> HIDE DEF ag2, ev2
<1>3. ASSUME NEW m \in 1..(Len(ev) + 1)
      PROVE  \E a \in 1..(Len(ag) + 1) : ag2[a] = ev2[m]
  <2>1. CASE m = Len(ev) + 1 BY <1>1, <1>2, <2>1
  <2>2. CASE m \in 1..Len(ev)
    <3>1. PICK a \in 1..Len(ag) : ag[a] = ev[m]
      BY <1>1, <1>2, <2>2 DEF EventsOK
    <3>2. a \in 1..(Len(ag) + 1) /\ ag2[a] = ev2[m]
      BY <1>1, <1>2, <2>2, <3>1
    <3> QED BY <3>2
  <2> QED BY <1>2, <2>1, <2>2
<1>4. EventsOK(ag2, ev2) BY <1>1, <1>2, <1>3 DEF EventsOK
<1> QED BY <1>4 DEF ag2, ev2

\* The agent takes an input, through the recorder or from the host itself.
LEMMA BoxTaken ==
    ASSUME NEW ib \in Seq(BoxItems), NEW c \in [Inputs -> Pcs],
           NEW ag \in Seq(Ins), NEW ev \in Seq(Ins),
           BoxInv(ib, c, ag, ev), NEW i \in Inputs, NEW v,
           \/ c[i] = "written" /\ v = "acked"
           \/ c[i] = "new" /\ v = "direct"
    PROVE  /\ Of(i) \in Ins
           /\ BoxInv(ib, [c EXCEPT ![i] = v], Append(ag, Of(i)),
                     Append(ev, Of(i)))
<1> DEFINE c2 == [c EXCEPT ![i] = v]
           ag2 == Append(ag, Of(i))
           ev2 == Append(ev, Of(i))
<1>0. Of(i) \in Ins /\ Of(i).p = i /\ Of(i).x = Content[i]
  <2>1. i \in Int /\ Content[i] \in Contents
    BY InboxAssumption DEF Contents
  <2> QED BY <2>1 DEF Of, Ins
<1>1. (\A j \in Inputs : j # i => c2[j] = c[j]) /\ c2[i] = v OBVIOUS
<1>2. /\ DOMAIN ag = 1..Len(ag) /\ Len(ag) \in Nat
      /\ DOMAIN ag2 = 1..(Len(ag) + 1)
      /\ \A j \in 1..Len(ag) : ag2[j] = ag[j]
      /\ ag2[Len(ag) + 1] = Of(i)
  BY <1>0
<1>3. i \in Nat /\ i # 0 /\ i > 0 BY InboxAssumption
<1>4. DOMAIN ib = 1..Len(ib) /\ Len(ib) \in Nat
      /\ DOMAIN ev = 1..Len(ev)
  OBVIOUS
<1>5. \A p : Coming(ev2, p) <=> Coming(ev, p) \/ p = i
  BY <1>0, ComingAppend
<1>6. EventsOK(ag2, ev2) BY <1>0, EventsAppend DEF BoxInv
<1>7. \A a \in 1..Len(ag) : ag[a].p # i
  BY <1>2, <1>3 DEF BoxInv, QueueOK
<1>8. \A m \in 1..Len(ev) : ev[m].p # i
  BY <1>2, <1>4, <1>7 DEF BoxInv, EventsOK
<1>9. Distinct(ag2) /\ Distinct(ev2)
  BY <1>0, <1>7, <1>8, DistinctAppend DEF BoxInv
<1> HIDE DEF c2, ag2, ev2
<1>10. ASSUME NEW j \in DOMAIN ib PROVE InputOK(ib[j], c2)
  <2>1. InputOK(ib[j], c) BY DEF BoxInv
  <2>2. CASE ib[j].p # i
    <3>1. ib[j].p > 0 => c2[ib[j].p] = c[ib[j].p]
      BY <1>1, <2>1, <2>2 DEF InputOK
    <3> QED BY <2>1, <3>1 DEF InputOK
  <2>3. CASE ib[j].p = i
    <3>1. c[i] = "written" /\ v = "acked"
      BY <1>3, <2>1, <2>3 DEF InputOK
    <3>2. PICK m \in DOMAIN ib : ib[m].p = i /\ ib[m].held /\ ib[m].awaiting
      BY <3>1 DEF BoxInv, WrittenOK
    <3>3. m = j BY <2>3, <3>2 DEF BoxInv, Distinct
    <3> QED BY <1>1, <2>1, <2>3, <3>1, <3>2, <3>3 DEF InputOK
  <2> QED BY <2>2, <2>3
<1>11. WrittenOK(ib, c2)
  <2> SUFFICES ASSUME NEW j \in Inputs, c2[j] = "written"
               PROVE  \E m \in DOMAIN ib :
                         ib[m].p = j /\ ib[m].held /\ ib[m].awaiting
    BY DEF WrittenOK
  <2>1. c[j] = "written" BY <1>1
  <2> QED BY <2>1 DEF BoxInv, WrittenOK
<1>12. QueueOK(ib, c2, ag2, ev2)
  <2> SUFFICES ASSUME NEW a \in 1..(Len(ag) + 1)
               PROVE  /\ ag2[a].p > 0 => /\ ag2[a].p \in Inputs
                                         /\ ag2[a].x = Content[ag2[a].p]
                                         /\ c2[ag2[a].p] \in {"acked", "direct"}
                      /\ Unseen(ag2[a], ib, c2, ev2) \/ HeldIn(ag2[a], ib, ev2)
    BY <1>2 DEF QueueOK
  <2>1. CASE a \in 1..Len(ag)
    <3>1. /\ ag[a].p > 0 => /\ ag[a].p \in Inputs
                            /\ ag[a].x = Content[ag[a].p]
                            /\ c[ag[a].p] \in {"acked", "direct"}
          /\ Unseen(ag[a], ib, c, ev) \/ HeldIn(ag[a], ib, ev)
      BY <1>2, <2>1 DEF BoxInv, QueueOK
    <3>2. ag[a].p > 0 => c2[ag[a].p] = c[ag[a].p]
      BY <1>1, <1>7, <2>1, <3>1
    <3>3. Coming(ev2, ag[a].p) <=> Coming(ev, ag[a].p)
      BY <1>5, <1>7, <2>1
    <3>4. ag2[a] = ag[a] BY <1>2, <2>1
    <3>5. Unseen(ag[a], ib, c, ev) => Unseen(ag[a], ib, c2, ev2)
      BY <3>2, <3>3 DEF Unseen
    <3>6. HeldIn(ag[a], ib, ev) => HeldIn(ag[a], ib, ev2)
      BY <3>3 DEF HeldIn
    <3> QED BY <3>1, <3>2, <3>4, <3>5, <3>6
  <2>2. CASE a = Len(ag) + 1
    <3>1. ag2[a] = Of(i) /\ ag2[a].p = i /\ ag2[a].x = Content[i]
      BY <1>0, <1>2, <2>2
    <3>2. Coming(ev2, i) BY <1>5
    <3>3. CASE c[i] = "written" /\ v = "acked"
      <4>1. PICK m \in DOMAIN ib : ib[m].p = i /\ ib[m].held /\ ib[m].awaiting
        BY <3>3 DEF BoxInv, WrittenOK
      <4>2. ib[m].x = Content[i] BY <1>3, <4>1 DEF BoxInv, InputOK
      <4>3. HeldIn(ag2[a], ib, ev2) BY <3>1, <3>2, <4>1, <4>2 DEF HeldIn
      <4> QED BY <1>1, <3>1, <3>3, <4>3
    <3>4. CASE c[i] = "new" /\ v = "direct"
      <4>1. \A j \in DOMAIN ib : ib[j].p # i
        BY <1>3, <3>4 DEF BoxInv, InputOK
      <4>2. Unseen(ag2[a], ib, c2, ev2)
        BY <1>1, <1>3, <3>1, <3>2, <3>4, <4>1 DEF Unseen
      <4> QED BY <1>1, <3>1, <3>4, <4>2
    <3> QED BY <3>3, <3>4
  <2> QED BY <1>2, <2>1, <2>2
<1>13. BoxInv(ib, c2, ag2, ev2)
  BY <1>6, <1>9, <1>10, <1>11, <1>12 DEF BoxInv
<1> QED BY <1>0, <1>13 DEF c2, ag2, ev2

\* The tail of a sequence.
LEMMA TailIs ==
    ASSUME NEW S, NEW q \in Seq(S), q # <<>>
    PROVE  /\ Tail(q) \in Seq(S) /\ Len(q) \in Nat \ {0}
           /\ Len(Tail(q)) = Len(q) - 1 /\ DOMAIN q = 1..Len(q)
           /\ DOMAIN Tail(q) = 1..(Len(q) - 1)
           /\ Head(q) = q[1] /\ 1 \in DOMAIN q /\ Head(q) \in S
           /\ \A m \in 1..(Len(q) - 1) : Tail(q)[m] = q[m + 1]
           /\ Distinct(q) => Distinct(Tail(q))
<1>1. /\ Tail(q) \in Seq(S) /\ Len(q) \in Nat \ {0}
      /\ Len(Tail(q)) = Len(q) - 1 /\ DOMAIN q = 1..Len(q)
      /\ DOMAIN Tail(q) = 1..(Len(q) - 1)
      /\ Head(q) = q[1] /\ 1 \in DOMAIN q /\ Head(q) \in S
  OBVIOUS
<1>2. \A m \in 1..(Len(q) - 1) : Tail(q)[m] = q[m + 1] OBVIOUS
<1>3. ASSUME Distinct(q) PROVE Distinct(Tail(q))
  <2> SUFFICES ASSUME NEW a \in 1..(Len(q) - 1), NEW b \in 1..(Len(q) - 1),
                      Tail(q)[a].p = Tail(q)[b].p
               PROVE  a = b
    BY <1>1 DEF Distinct
  <2>1. q[a + 1].p = q[b + 1].p /\ a + 1 \in DOMAIN q /\ b + 1 \in DOMAIN q
    BY <1>1, <1>2
  <2>2. a + 1 = b + 1 BY <1>3, <2>1 DEF Distinct
  <2> QED BY <2>2
<1> QED BY <1>1, <1>2, <1>3

\* The events to come after the first of them.
LEMMA ComingTail ==
    ASSUME NEW ev \in Seq(Ins), ev # <<>>, Distinct(ev), NEW p
    PROVE  Coming(Tail(ev), p) <=> Coming(ev, p) /\ p # Head(ev).p
<1>1. /\ Len(ev) \in Nat \ {0} /\ DOMAIN ev = 1..Len(ev)
      /\ DOMAIN Tail(ev) = 1..(Len(ev) - 1)
      /\ Head(ev) = ev[1] /\ 1 \in DOMAIN ev
      /\ \A m \in 1..(Len(ev) - 1) : Tail(ev)[m] = ev[m + 1]
  BY TailIs
<1>2. ASSUME Coming(Tail(ev), p) PROVE Coming(ev, p) /\ p # Head(ev).p
  <2>1. PICK m \in 1..(Len(ev) - 1) : Tail(ev)[m].p = p
    BY <1>1, <1>2 DEF Coming
  <2>2. m + 1 \in DOMAIN ev /\ m + 1 # 1 /\ ev[m + 1].p = p
    BY <1>1, <2>1
  <2> QED BY <1>1, <2>2 DEF Coming, Distinct
<1>3. ASSUME Coming(ev, p), p # Head(ev).p PROVE Coming(Tail(ev), p)
  <2>1. PICK m \in 1..Len(ev) : ev[m].p = p BY <1>1, <1>3 DEF Coming
  <2>2. m # 1 BY <1>1, <1>3, <2>1
  <2>3. m - 1 \in 1..(Len(ev) - 1) /\ (m - 1) + 1 = m BY <1>1, <2>2
  <2>4. Tail(ev)[m - 1] = ev[m] BY <1>1, <2>3
  <2> QED BY <1>1, <2>1, <2>3, <2>4 DEF Coming
<1> QED BY <1>2, <1>3

\* The events to come are of the agent's inputs, after the first of them.
LEMMA EventsTail ==
    ASSUME NEW ag, NEW ev \in Seq(Ins), ev # <<>>, EventsOK(ag, ev)
    PROVE  EventsOK(ag, Tail(ev))
<1>1. /\ Len(ev) \in Nat \ {0} /\ DOMAIN ev = 1..Len(ev)
      /\ DOMAIN Tail(ev) = 1..(Len(ev) - 1)
      /\ \A m \in 1..(Len(ev) - 1) : Tail(ev)[m] = ev[m + 1]
  BY TailIs
<1> SUFFICES ASSUME NEW m \in 1..(Len(ev) - 1)
             PROVE  \E a \in DOMAIN ag : ag[a] = Tail(ev)[m]
  BY <1>1 DEF EventsOK
<1>2. m + 1 \in DOMAIN ev /\ Tail(ev)[m] = ev[m + 1] BY <1>1
<1> QED BY <1>2 DEF EventsOK

\* The queued event of an input that the inbox holds.
LEMMA BoxReported ==
    ASSUME NEW ib \in Seq(BoxItems), NEW c \in [Inputs -> Pcs],
           NEW ag \in Seq(Ins), NEW ev \in Seq(Ins), ev # <<>>,
           BoxInv(ib, c, ag, ev), NEW j \in 1..Len(ib),
           ib[j].awaiting, ib[j].p = Head(ev).p
    PROVE  LET ib2 == [ib EXCEPT ![j].awaiting = FALSE] IN
           /\ ib2 \in Seq(BoxItems) /\ Len(ib2) = Len(ib)
           /\ \A m \in 1..Len(ib) :
                 /\ ib2[m].p = ib[m].p /\ ib2[m].x = ib[m].x
                 /\ ib2[m].d = ib[m].d /\ ib2[m].entry = ib[m].entry
                 /\ ib2[m].declined = ib[m].declined
           /\ BoxInv(ib2, c, ag, Tail(ev))
<1> DEFINE ib2 == [ib EXCEPT ![j].awaiting = FALSE]
           ev2 == Tail(ev)
<1>1. /\ DOMAIN ib = 1..Len(ib) /\ Len(ib) \in Nat
      /\ \A m \in 1..Len(ib) : ib[m] \in BoxItems
      /\ DOMAIN ag = 1..Len(ag) /\ \A a \in 1..Len(ag) : ag[a] \in Ins
  OBVIOUS
<1>2. ib2[j] = [ib[j] EXCEPT !.awaiting = FALSE]
      /\ \A m \in 1..Len(ib) : m # j => ib2[m] = ib[m]
  BY <1>1
<1>3. /\ ib2[j] \in BoxItems /\ ib2[j].p = ib[j].p /\ ib2[j].x = ib[j].x
      /\ ib2[j].d = ib[j].d /\ ib2[j].entry = ib[j].entry
      /\ ib2[j].declined = ib[j].declined /\ ib2[j].held = ib[j].held
      /\ ib2[j].awaiting = FALSE
  <2> HIDE DEF ib2
  <2>1. ib[j] \in BoxItems BY <1>1
  <2> QED BY <1>2, <2>1 DEF BoxItems
<1>4. ib2 \in Seq(BoxItems) /\ Len(ib2) = Len(ib) /\ DOMAIN ib2 = 1..Len(ib)
  <2>1. ib2 = [m \in 1..Len(ib) |-> ib2[m]] BY <1>1
  <2> HIDE DEF ib2
  <2>2. ib2 \in [1..Len(ib) -> BoxItems] BY <1>1, <1>2, <1>3, <2>1
  <2> QED BY <1>1, <2>2, SeqOf
<1> HIDE DEF ib2
<1>5. \A p : Coming(ev2, p) <=> Coming(ev, p) /\ p # Head(ev).p
  BY ComingTail DEF BoxInv
<1>6. /\ DOMAIN ev2 = 1..(Len(ev) - 1) /\ DOMAIN ev = 1..Len(ev)
      /\ Len(ev) \in Nat \ {0} /\ Distinct(ev2)
      /\ Head(ev) = ev[1] /\ 1 \in DOMAIN ev
      /\ \A m \in 1..(Len(ev) - 1) : ev2[m] = ev[m + 1]
  BY TailIs DEF BoxInv
<1>7. EventsOK(ag, ev2) BY EventsTail DEF BoxInv
<1> HIDE DEF ev2
<1>8. \A m \in 1..Len(ib) : m # j => ib[m].p # ib[j].p
  BY <1>1 DEF BoxInv, Distinct
<1>9. ASSUME NEW m \in DOMAIN ib2 PROVE InputOK(ib2[m], c)
  <2>1. m \in 1..Len(ib) /\ InputOK(ib[m], c) BY <1>1, <1>4 DEF BoxInv
  <2>2. CASE m # j BY <1>2, <2>1, <2>2
  <2>3. CASE m = j
    <3>1. PICK a \in DOMAIN ag : ag[a] = ev[1]
      BY <1>6 DEF BoxInv, EventsOK
    <3>2. ag[a].p = ib[j].p BY <1>6, <3>1
    <3>3. ib[j].p > 0 => c[ib[j].p] \in {"acked", "direct"}
      BY <3>2 DEF BoxInv, QueueOK
    <3> QED BY <1>3, <2>1, <2>3, <3>3 DEF InputOK
  <2> QED BY <2>2, <2>3
<1>10. Distinct(ib2)
  <2>1. \A m \in 1..Len(ib) : ib2[m].p = ib[m].p BY <1>2, <1>3
  <2> QED BY <1>1, <1>4, <2>1 DEF BoxInv, Distinct
<1>11. WrittenOK(ib2, c)
  <2> SUFFICES ASSUME NEW i \in Inputs, c[i] = "written"
               PROVE  \E m \in 1..Len(ib) :
                         ib2[m].p = i /\ ib2[m].held /\ ib2[m].awaiting
    BY <1>4 DEF WrittenOK
  <2>1. PICK m \in 1..Len(ib) : ib[m].p = i /\ ib[m].held /\ ib[m].awaiting
    BY <1>1 DEF BoxInv, WrittenOK
  <2>2. m # j
    <3>1. PICK a \in DOMAIN ag : ag[a] = ev[1]
      BY <1>6 DEF BoxInv, EventsOK
    <3>2. ag[a].p = ib[j].p BY <1>6, <3>1
    <3>3. ib[j].p > 0 => c[ib[j].p] \in {"acked", "direct"}
      BY <3>2 DEF BoxInv, QueueOK
    <3>4. i > 0 BY InboxAssumption
    <3> QED BY <2>1, <3>3, <3>4
  <2> QED BY <1>2, <2>1, <2>2
<1>12. QueueOK(ib2, c, ag, ev2)
  <2> SUFFICES ASSUME NEW a \in DOMAIN ag
               PROVE  Unseen(ag[a], ib2, c, ev2) \/ HeldIn(ag[a], ib2, ev2)
    BY DEF BoxInv, QueueOK
  <2>1. Unseen(ag[a], ib, c, ev) \/ HeldIn(ag[a], ib, ev)
    BY DEF BoxInv, QueueOK
  <2>2. CASE Unseen(ag[a], ib, c, ev)
    <3>1. ag[a].p # ib[j].p /\ Coming(ev2, ag[a].p)
      BY <1>1, <1>5, <2>2 DEF Unseen
    <3>2. \A m \in 1..Len(ib) : ib2[m].p # ag[a].p
      <4>1. \A m \in 1..Len(ib) : ib2[m].p = ib[m].p BY <1>2, <1>3
      <4>2. \A m \in 1..Len(ib) : ib[m].p # ag[a].p
        BY <1>1, <2>2 DEF Unseen
      <4> QED BY <4>1, <4>2
    <3> QED BY <1>4, <2>2, <3>1, <3>2 DEF Unseen
  <2>3. CASE HeldIn(ag[a], ib, ev)
    <3>1. PICK m \in 1..Len(ib) :
             /\ ib[m].p = ag[a].p /\ ib[m].x = ag[a].x /\ ib[m].held
             /\ ib[m].awaiting <=> Coming(ev, ag[a].p)
      BY <1>1, <2>3 DEF HeldIn
    <3>2. CASE m = j
      <4>1. ~Coming(ev2, ag[a].p) BY <1>5, <3>1, <3>2
      <4>2. HeldIn(ag[a], ib2, ev2)
        BY <1>3, <1>4, <3>1, <3>2, <4>1 DEF HeldIn
      <4> QED BY <4>2
    <3>3. CASE m # j
      <4>1. Coming(ev2, ag[a].p) <=> Coming(ev, ag[a].p)
        BY <1>5, <1>8, <3>1, <3>3
      <4>2. HeldIn(ag[a], ib2, ev2)
        BY <1>2, <1>4, <3>1, <3>3, <4>1 DEF HeldIn
      <4> QED BY <4>2
    <3> QED BY <3>2, <3>3
  <2> QED BY <2>1, <2>2, <2>3
<1>13. BoxInv(ib2, c, ag, ev2)
  BY <1>6, <1>7, <1>9, <1>10, <1>11, <1>12 DEF BoxInv
<1>14. \A m \in 1..Len(ib) :
          /\ ib2[m].p = ib[m].p /\ ib2[m].x = ib[m].x
          /\ ib2[m].d = ib[m].d /\ ib2[m].entry = ib[m].entry
          /\ ib2[m].declined = ib[m].declined
  BY <1>2, <1>3
<1> QED BY <1>4, <1>13, <1>14 DEF ib2, ev2

\* The queued event of an input that it does not: the host queued it into
\* the agent itself, and now the inbox holds it.
LEMMA BoxFound ==
    ASSUME NEW ib \in Seq(BoxItems), NEW c \in [Inputs -> Pcs],
           NEW ag \in Seq(Ins), NEW ev \in Seq(Ins), ev # <<>>,
           BoxInv(ib, c, ag, ev),
           \A j \in 1..Len(ib) : ~(ib[j].awaiting /\ ib[j].p = Head(ev).p)
    PROVE  LET in == InboxItem(Head(ev), 0, TRUE) IN
           /\ in \in BoxItems /\ in.entry = 0 /\ ~in.declined
           /\ in.p = Head(ev).p /\ in.x = Head(ev).x /\ in.d = Head(ev).d
           /\ in.p \in Inputs /\ in.p > 0 /\ c[in.p] = "direct"
           /\ BoxInv(Append(ib, in), c, ag, Tail(ev))
<1> DEFINE in == InboxItem(Head(ev), 0, TRUE)
           ib2 == Append(ib, in)
           ev2 == Tail(ev)
<1>1. /\ DOMAIN ib = 1..Len(ib) /\ Len(ib) \in Nat
      /\ DOMAIN ag = 1..Len(ag)
  OBVIOUS
<1>2. /\ DOMAIN ev2 = 1..(Len(ev) - 1) /\ DOMAIN ev = 1..Len(ev)
      /\ Len(ev) \in Nat \ {0} /\ Distinct(ev2) /\ Head(ev) \in Ins
      /\ Head(ev) = ev[1] /\ 1 \in DOMAIN ev
      /\ \A m \in 1..(Len(ev) - 1) : ev2[m] = ev[m + 1]
  BY TailIs DEF BoxInv
<1>3. /\ in \in BoxItems /\ in.entry = 0 /\ in.held /\ ~in.awaiting
      /\ ~in.declined
      /\ in.p = Head(ev).p /\ in.x = Head(ev).x /\ in.d = Head(ev).d
  BY <1>2 DEF InboxItem, BoxItems, Ins
<1>4. \A p : Coming(ev2, p) <=> Coming(ev, p) /\ p # Head(ev).p
  BY ComingTail DEF BoxInv
<1>5. EventsOK(ag, ev2) BY EventsTail DEF BoxInv
<1>6. PICK a0 \in DOMAIN ag : ag[a0] = Head(ev)
  BY <1>2 DEF BoxInv, EventsOK
<1>7. Unseen(Head(ev), ib, c, ev)
  <2>1. Coming(ev, Head(ev).p) BY <1>2 DEF Coming
  <2>2. ~HeldIn(Head(ev), ib, ev) BY <1>1, <2>1 DEF HeldIn
  <2> QED BY <1>6, <2>2 DEF BoxInv, QueueOK
<1>8. /\ in.p \in Inputs /\ in.p > 0 /\ in.x = Content[in.p]
      /\ c[in.p] = "direct" /\ \A j \in 1..Len(ib) : ib[j].p # in.p
  BY <1>1, <1>3, <1>6, <1>7 DEF Unseen, BoxInv, QueueOK
<1>9. /\ DOMAIN ib2 = 1..(Len(ib) + 1)
      /\ \A j \in 1..Len(ib) : ib2[j] = ib[j]
      /\ ib2[Len(ib) + 1] = in
  <2> HIDE DEF in
  <2> QED BY <1>1, <1>3
<1>10. Distinct(ib2) BY <1>3, <1>8, DistinctAppend DEF BoxInv
<1> HIDE DEF in, ib2, ev2
<1>11. ASSUME NEW j \in DOMAIN ib2 PROVE InputOK(ib2[j], c)
  <2>1. CASE j \in 1..Len(ib) BY <1>1, <1>9, <2>1 DEF BoxInv
  <2>2. CASE j = Len(ib) + 1
    <3>1. ib2[j] = in BY <1>9, <2>2
    <3> QED BY <1>3, <1>8, <3>1 DEF InputOK
  <2> QED BY <1>1, <1>9, <2>1, <2>2
<1>12. WrittenOK(ib2, c)
  <2> SUFFICES ASSUME NEW i \in Inputs, c[i] = "written"
               PROVE  \E m \in 1..(Len(ib) + 1) :
                         ib2[m].p = i /\ ib2[m].held /\ ib2[m].awaiting
    BY <1>9 DEF WrittenOK
  <2>1. PICK m \in 1..Len(ib) : ib[m].p = i /\ ib[m].held /\ ib[m].awaiting
    BY <1>1 DEF BoxInv, WrittenOK
  <2>2. m \in 1..(Len(ib) + 1) /\ ib2[m] = ib[m] BY <1>1, <1>9
  <2> QED BY <2>1, <2>2
<1>13. QueueOK(ib2, c, ag, ev2)
  <2> SUFFICES ASSUME NEW a \in DOMAIN ag
               PROVE  Unseen(ag[a], ib2, c, ev2) \/ HeldIn(ag[a], ib2, ev2)
    BY DEF BoxInv, QueueOK
  <2>1. Unseen(ag[a], ib, c, ev) \/ HeldIn(ag[a], ib, ev)
    BY DEF BoxInv, QueueOK
  <2>2. CASE ag[a].p = Head(ev).p
    <3>1. a = a0 BY <1>6, <2>2 DEF BoxInv, Distinct
    <3>2. ~Coming(ev2, ag[a].p) BY <1>4, <2>2
    <3>3. Len(ib) + 1 \in 1..(Len(ib) + 1) BY <1>1
    <3>4. HeldIn(ag[a], ib2, ev2)
      BY <1>3, <1>6, <1>9, <3>1, <3>2, <3>3 DEF HeldIn
    <3> QED BY <3>4
  <2>3. CASE ag[a].p # Head(ev).p
    <3>1. Coming(ev2, ag[a].p) <=> Coming(ev, ag[a].p) BY <1>4, <2>3
    <3>2. CASE Unseen(ag[a], ib, c, ev)
      <4>1. \A m \in 1..(Len(ib) + 1) : ib2[m].p # ag[a].p
        BY <1>1, <1>3, <1>9, <2>3, <3>2 DEF Unseen
      <4> QED BY <1>9, <3>1, <3>2, <4>1 DEF Unseen
    <3>3. CASE HeldIn(ag[a], ib, ev)
      <4>1. PICK m \in 1..Len(ib) :
             /\ ib[m].p = ag[a].p /\ ib[m].x = ag[a].x /\ ib[m].held
             /\ ib[m].awaiting <=> Coming(ev, ag[a].p)
        BY <1>1, <3>3 DEF HeldIn
      <4>2. m \in DOMAIN ib2 /\ ib2[m] = ib[m] BY <1>1, <1>9
      <4>3. HeldIn(ag[a], ib2, ev2) BY <3>1, <4>1, <4>2 DEF HeldIn
      <4> QED BY <4>3
    <3> QED BY <2>1, <3>2, <3>3
  <2> QED BY <2>2, <2>3
<1>14. BoxInv(ib2, c, ag, ev2)
  BY <1>2, <1>5, <1>10, <1>11, <1>12, <1>13 DEF BoxInv
<1> QED BY <1>3, <1>8, <1>14 DEF in, ib2, ev2

\* The inputs of an inbox at some places.
LEMMA AtIs ==
    ASSUME NEW ib \in Seq(BoxItems), NEW S \in SUBSET (1..Len(ib))
    PROVE  /\ IsFiniteSet(S) /\ Cardinality(S) \in Nat
           /\ At(ib, S) \in Seq(BoxItems) /\ Len(At(ib, S)) = Cardinality(S)
           /\ DOMAIN At(ib, S) = 1..Cardinality(S)
           /\ InOrder(S) \in [1..Cardinality(S) -> 1..Len(ib)]
           /\ \A n \in 1..Cardinality(S) :
                 InOrder(S)[n] \in S /\ At(ib, S)[n] = ib[InOrder(S)[n]]
           /\ \A a, b \in 1..Cardinality(S) :
                 InOrder(S)[a] = InOrder(S)[b] => a = b
           /\ \A e \in S : \E a \in 1..Cardinality(S) : InOrder(S)[a] = e
<1>1. Len(ib) \in Nat /\ \A j \in 1..Len(ib) : ib[j] \in BoxItems
  OBVIOUS
<1>2. S \in SUBSET Nat /\ IsFiniteSet(S)
  <2>1. IsFiniteSet(1..Len(ib)) BY <1>1, FS_Interval
  <2>2. IsFiniteSet(S) BY <2>1, FS_Subset
  <2>3. S \in SUBSET Nat BY <1>1
  <2> QED BY <2>2, <2>3
<1>3. /\ Cardinality(S) \in Nat
      /\ InOrder(S) \in [1..Cardinality(S) -> S]
      /\ \A a, b \in 1..Cardinality(S) :
            InOrder(S)[a] = InOrder(S)[b] => a = b
      /\ \A e \in S : \E a \in 1..Cardinality(S) : InOrder(S)[a] = e
  BY <1>2, InOrderLists
<1>4. \A n \in 1..Cardinality(S) : InOrder(S)[n] \in S BY <1>3
<1>5. \A n \in 1..Cardinality(S) : At(ib, S)[n] = ib[InOrder(S)[n]]
  BY DEF At
<1>6. At(ib, S) \in [1..Cardinality(S) -> BoxItems] BY <1>1, <1>4 DEF At
<1>7. At(ib, S) \in Seq(BoxItems) /\ Len(At(ib, S)) = Cardinality(S)
      /\ DOMAIN At(ib, S) = 1..Cardinality(S)
  BY <1>3, <1>6, SeqOf
<1>8. InOrder(S) \in [1..Cardinality(S) -> 1..Len(ib)] BY <1>3
<1> QED BY <1>2, <1>3, <1>4, <1>5, <1>7, <1>8

\* One sequence of inputs after another.
LEMMA ConcatIs ==
    ASSUME NEW q \in Seq(Ins), NEW w \in Seq(Ins)
    PROVE  /\ q \o w \in Seq(Ins) /\ Len(q \o w) = Len(q) + Len(w)
           /\ DOMAIN (q \o w) = 1..(Len(q) + Len(w))
           /\ DOMAIN q = 1..Len(q) /\ DOMAIN w = 1..Len(w)
           /\ Len(q) \in Nat /\ Len(w) \in Nat
           /\ \A a \in 1..Len(q) : (q \o w)[a] = q[a]
           /\ \A a \in 1..Len(w) : (q \o w)[Len(q) + a] = w[a]
           /\ \A a \in 1..(Len(q) + Len(w)) : a \notin 1..Len(q) =>
                 a - Len(q) \in 1..Len(w) /\ (q \o w)[a] = w[a - Len(q)]
  BY Joined

\* Requeue hands the agent inputs of the inbox that nobody holds.
LEMMA BoxHandedBack ==
    ASSUME NEW ib \in Seq(BoxItems), NEW c \in [Inputs -> Pcs],
           NEW ag \in Seq(Ins), NEW ev \in Seq(Ins),
           BoxInv(ib, c, ag, ev)
    PROVE  LET owed == At(ib, {j \in DOMAIN ib : Owed(ib[j])})
               w == [j \in DOMAIN owed |-> Input(owed[j])]
               ib2 == [j \in DOMAIN ib |->
                         IF Owed(ib[j])
                         THEN [ib[j] EXCEPT !.held = TRUE, !.awaiting = TRUE,
                                            !.holder = TRUE]
                         ELSE ib[j]]
           IN /\ ib2 \in Seq(BoxItems) /\ Len(ib2) = Len(ib)
              /\ \A j \in 1..Len(ib) :
                    /\ ib2[j].entry = ib[j].entry /\ ib2[j].x = ib[j].x
                    /\ ib2[j].d = ib[j].d /\ ib2[j].p = ib[j].p
                    /\ ib2[j].declined = ib[j].declined
              /\ w \in Seq(Ins) /\ (\A m \in 1..Len(w) : w[m].p < 0)
              /\ BoxInv(ib2, c, ag \o w, ev \o w)
<1> DEFINE S == {j \in DOMAIN ib : Owed(ib[j])}
           owed == At(ib, S)
           w == [j \in DOMAIN owed |-> Input(owed[j])]
           ib2 == [j \in DOMAIN ib |->
                         IF Owed(ib[j])
                         THEN [ib[j] EXCEPT !.held = TRUE, !.awaiting = TRUE,
                                            !.holder = TRUE]
                         ELSE ib[j]]
           n == Cardinality(S)
           f == InOrder(S)
<1>1. /\ DOMAIN ib = 1..Len(ib) /\ Len(ib) \in Nat
      /\ \A j \in 1..Len(ib) : ib[j] \in BoxItems
  OBVIOUS
<1>2. S \in SUBSET (1..Len(ib)) BY <1>1
<1>3. /\ n \in Nat /\ DOMAIN owed = 1..n
      /\ \A m \in 1..n : f[m] \in S /\ owed[m] = ib[f[m]]
      /\ \A a, b \in 1..n : f[a] = f[b] => a = b
      /\ \A e \in S : \E a \in 1..n : f[a] = e
  <2> HIDE DEF S
  <2> QED BY <1>2, AtIs
<1> HIDE DEF owed, n, f
<1>4. \A m \in 1..n : w[m] = Input(ib[f[m]]) /\ w[m] \in Ins
                      /\ w[m].p = ib[f[m]].p /\ w[m].x = ib[f[m]].x
  <2> TAKE m \in 1..n
  <2>1. f[m] \in 1..Len(ib) /\ ib[f[m]] \in BoxItems BY <1>1, <1>2, <1>3
  <2>2. w[m] = Input(ib[f[m]]) BY <1>3
  <2> QED BY <2>1, <2>2 DEF Input, Ins, BoxItems
<1>5. w \in Seq(Ins) /\ Len(w) = n
  <2>1. w \in [1..n -> Ins] BY <1>3, <1>4
  <2> QED BY <1>3, <2>1, SeqOf
<1>6. \A j \in 1..Len(ib) : InputOK(ib[j], c) BY <1>1 DEF BoxInv
<1>7. ASSUME NEW j \in 1..Len(ib)
      PROVE  /\ ib2[j] \in BoxItems
             /\ ib2[j].entry = ib[j].entry /\ ib2[j].x = ib[j].x
             /\ ib2[j].d = ib[j].d /\ ib2[j].p = ib[j].p
             /\ ib2[j].declined = ib[j].declined
             /\ j \notin S => ib2[j] = ib[j]
             /\ j \in S => ib2[j].held /\ ib2[j].awaiting
  <2>1. ib2[j] = IF Owed(ib[j])
                 THEN [ib[j] EXCEPT !.held = TRUE, !.awaiting = TRUE,
                                    !.holder = TRUE]
                 ELSE ib[j]
    BY <1>1
  <2>2. j \in S <=> Owed(ib[j]) BY <1>1
  <2> HIDE DEF ib2, S
  <2> QED BY <1>1, <2>1, <2>2 DEF BoxItems
<1>8. ib2 \in Seq(BoxItems) /\ Len(ib2) = Len(ib) /\ DOMAIN ib2 = 1..Len(ib)
  <2>1. ib2 = [j \in 1..Len(ib) |-> ib2[j]] BY <1>1
  <2> HIDE DEF ib2
  <2>2. ib2 \in [1..Len(ib) -> BoxItems] BY <1>7, <2>1
  <2> QED BY <1>1, <2>2, SeqOf
<1>9. \A j \in S : j \in 1..Len(ib) /\ ~ib[j].held /\ ~ib[j].declined
                   /\ ib[j].p < 0
  <2> TAKE j \in S
  <2>1. j \in 1..Len(ib) /\ ~ib[j].held /\ ~ib[j].declined
    BY <1>1 DEF Owed
  <2> QED BY <1>6, <2>1 DEF InputOK
<1> HIDE DEF w, ib2, S
<1>10. \A m \in 1..n : w[m].p < 0
  <2> TAKE m \in 1..n
  <2>1. f[m] \in S /\ w[m].p = ib[f[m]].p BY <1>3, <1>4
  <2>2. ib[f[m]].p < 0 BY ONLY <1>9, <2>1
  <2> QED BY ONLY <2>1, <2>2
<1> DEFINE ag2 == ag \o w
           ev2 == ev \o w
<1>11. /\ DOMAIN ag2 = 1..(Len(ag) + n) /\ DOMAIN ag = 1..Len(ag)
       /\ Len(ag) \in Nat
       /\ \A a \in 1..Len(ag) : ag2[a] = ag[a]
       /\ \A a \in 1..n : ag2[Len(ag) + a] = w[a]
       /\ \A a \in 1..(Len(ag) + n) : a \notin 1..Len(ag) =>
             a - Len(ag) \in 1..n /\ ag2[a] = w[a - Len(ag)]
  BY <1>5, ConcatIs
<1>12. /\ DOMAIN ev2 = 1..(Len(ev) + n) /\ DOMAIN ev = 1..Len(ev)
       /\ Len(ev) \in Nat
       /\ \A a \in 1..Len(ev) : ev2[a] = ev[a]
       /\ \A a \in 1..n : ev2[Len(ev) + a] = w[a]
       /\ \A a \in 1..(Len(ev) + n) : a \notin 1..Len(ev) =>
             a - Len(ev) \in 1..n /\ ev2[a] = w[a - Len(ev)]
  BY <1>5, ConcatIs
<1> HIDE DEF ag2, ev2
<1>13. ASSUME NEW a \in 1..Len(ag), NEW m \in 1..n
       PROVE  ag[a].p # w[m].p
  <2> SUFFICES ASSUME ag[a].p = w[m].p PROVE FALSE
    OBVIOUS
  <2>1. f[m] \in 1..Len(ib) /\ ib[f[m]].p = ag[a].p /\ ~ib[f[m]].held
    BY <1>3, <1>4, <1>9
  <2>2. Unseen(ag[a], ib, c, ev) \/ HeldIn(ag[a], ib, ev)
    BY <1>11 DEF BoxInv, QueueOK
  <2>3. ~Unseen(ag[a], ib, c, ev) BY <1>1, <2>1 DEF Unseen
  <2>4. PICK j \in 1..Len(ib) : ib[j].p = ag[a].p /\ ib[j].held
    BY <1>1, <2>2, <2>3 DEF HeldIn
  <2>5. j = f[m] BY <1>1, <2>1, <2>4 DEF BoxInv, Distinct
  <2> QED BY <2>1, <2>4, <2>5
<1>14. ASSUME NEW a \in 1..Len(ev), NEW m \in 1..n
       PROVE  ev[a].p # w[m].p
  <2>1. PICK b \in 1..Len(ag) : ag[b] = ev[a]
    BY <1>11, <1>12 DEF BoxInv, EventsOK
  <2> QED BY <1>13, <2>1
<1>15. \A a, b \in 1..n : w[a].p = w[b].p => a = b
  <2> SUFFICES ASSUME NEW a \in 1..n, NEW b \in 1..n, w[a].p = w[b].p
               PROVE  a = b
    OBVIOUS
  <2>1. f[a] \in 1..Len(ib) /\ f[b] \in 1..Len(ib) /\ ib[f[a]].p = ib[f[b]].p
    BY <1>3, <1>4, <1>9
  <2>2. f[a] = f[b] BY <1>1, <2>1 DEF BoxInv, Distinct
  <2> QED BY <1>3, <2>2
<1>16. Distinct(ag2)
  <2> SUFFICES ASSUME NEW a \in 1..(Len(ag) + n), NEW b \in 1..(Len(ag) + n),
                      ag2[a].p = ag2[b].p
               PROVE  a = b
    BY <1>11 DEF Distinct
  <2>1. CASE a \in 1..Len(ag) /\ b \in 1..Len(ag)
    BY <1>11, <2>1, SMTT(30) DEF BoxInv, Distinct
  <2>2. CASE a \in 1..Len(ag) /\ b \notin 1..Len(ag)
    BY <1>11, <1>13, <2>2
  <2>3. CASE a \notin 1..Len(ag) /\ b \in 1..Len(ag)
    BY <1>11, <1>13, <2>3
  <2>4. CASE a \notin 1..Len(ag) /\ b \notin 1..Len(ag)
    <3>1. a - Len(ag) = b - Len(ag) BY <1>11, <1>15, <2>4
    <3> QED BY <1>11, <3>1
  <2> QED BY <2>1, <2>2, <2>3, <2>4
<1>17. Distinct(ev2)
  <2> SUFFICES ASSUME NEW a \in 1..(Len(ev) + n), NEW b \in 1..(Len(ev) + n),
                      ev2[a].p = ev2[b].p
               PROVE  a = b
    BY <1>12 DEF Distinct
  <2>1. CASE a \in 1..Len(ev) /\ b \in 1..Len(ev)
    BY <1>12, <2>1 DEF BoxInv, Distinct
  <2>2. CASE a \in 1..Len(ev) /\ b \notin 1..Len(ev)
    BY <1>12, <1>14, <2>2, SMTT(30)
  <2>3. CASE a \notin 1..Len(ev) /\ b \in 1..Len(ev)
    BY <1>12, <1>14, <2>3
  <2>4. CASE a \notin 1..Len(ev) /\ b \notin 1..Len(ev)
    <3>1. a - Len(ev) = b - Len(ev) BY <1>12, <1>15, <2>4
    <3> QED BY <1>12, <3>1
  <2> QED BY <2>1, <2>2, <2>3, <2>4
<1>18. EventsOK(ag2, ev2)
  <2> SUFFICES ASSUME NEW m \in 1..(Len(ev) + n)
               PROVE  \E a \in 1..(Len(ag) + n) : ag2[a] = ev2[m]
    BY <1>11, <1>12 DEF EventsOK
  <2>1. CASE m \in 1..Len(ev)
    <3>1. PICK a \in 1..Len(ag) : ag[a] = ev[m]
      BY <1>11, <1>12, <2>1 DEF BoxInv, EventsOK
    <3>2. a \in 1..(Len(ag) + n) BY <1>3, <1>11
    <3> QED BY <1>11, <1>12, <2>1, <3>1, <3>2
  <2>2. CASE m \notin 1..Len(ev)
    <3>1. m - Len(ev) \in 1..n /\ ev2[m] = w[m - Len(ev)] BY <1>12, <2>2
    <3>2. Len(ag) + (m - Len(ev)) \in 1..(Len(ag) + n)
      BY <1>3, <1>11, <1>12, <3>1
    <3> QED BY <1>11, <3>1, <3>2
  <2> QED BY <2>1, <2>2
<1>19. \A p : (\A m \in 1..n : w[m].p # p) =>
          (Coming(ev2, p) <=> Coming(ev, p))
  <2> SUFFICES ASSUME NEW p, \A m \in 1..n : w[m].p # p
               PROVE  Coming(ev2, p) <=> Coming(ev, p)
    OBVIOUS
  <2>1. ASSUME Coming(ev2, p) PROVE Coming(ev, p)
    <3>1. PICK m \in 1..(Len(ev) + n) : ev2[m].p = p
      BY <1>12, <2>1 DEF Coming
    <3>2. m \in 1..Len(ev) BY <1>12, <3>1
    <3> QED BY <1>12, <3>1, <3>2 DEF Coming
  <2>2. ASSUME Coming(ev, p) PROVE Coming(ev2, p)
    <3>1. PICK m \in 1..Len(ev) : ev[m].p = p BY <1>12, <2>2 DEF Coming
    <3>2. m \in 1..(Len(ev) + n) BY <1>3, <1>12
    <3> QED BY <1>12, <3>1, <3>2 DEF Coming
  <2> QED BY <2>1, <2>2
<1>20. ASSUME NEW j \in DOMAIN ib2 PROVE InputOK(ib2[j], c)
  <2>1. j \in 1..Len(ib) /\ InputOK(ib[j], c) BY <1>6, <1>8
  <2>2. CASE j \in S
    <3>1. ib[j].p \in Int /\ ib[j].p < 0 /\ ~(ib[j].p > 0)
      BY <1>1, <1>9, <2>2 DEF BoxItems
    <3> QED BY <1>7, <1>9, <2>1, <2>2, <3>1 DEF InputOK
  <2>3. CASE j \notin S BY <1>7, <2>1, <2>3
  <2> QED BY <2>2, <2>3
<1>21. Distinct(ib2) BY <1>1, <1>7, <1>8 DEF BoxInv, Distinct
<1>22. WrittenOK(ib2, c)
  <2> SUFFICES ASSUME NEW i \in Inputs, c[i] = "written"
               PROVE  \E m \in 1..Len(ib) :
                         ib2[m].p = i /\ ib2[m].held /\ ib2[m].awaiting
    BY <1>8 DEF WrittenOK
  <2>1. PICK m \in 1..Len(ib) : ib[m].p = i /\ ib[m].held /\ ib[m].awaiting
    BY <1>1 DEF BoxInv, WrittenOK
  <2>2. m \notin S BY <1>9, <2>1
  <2> QED BY <1>7, <2>1, <2>2
<1>23. QueueOK(ib2, c, ag2, ev2)
  <2> SUFFICES ASSUME NEW a \in 1..(Len(ag) + n)
               PROVE  /\ ag2[a].p > 0 => /\ ag2[a].p \in Inputs
                                         /\ ag2[a].x = Content[ag2[a].p]
                                         /\ c[ag2[a].p] \in {"acked", "direct"}
                      /\ Unseen(ag2[a], ib2, c, ev2) \/ HeldIn(ag2[a], ib2, ev2)
    BY <1>11 DEF QueueOK
  <2>1. CASE a \in 1..Len(ag)
    <3>1. /\ ag[a].p > 0 => /\ ag[a].p \in Inputs
                            /\ ag[a].x = Content[ag[a].p]
                            /\ c[ag[a].p] \in {"acked", "direct"}
          /\ Unseen(ag[a], ib, c, ev) \/ HeldIn(ag[a], ib, ev)
      BY <1>11, <2>1 DEF BoxInv, QueueOK
    <3>2. Coming(ev2, ag[a].p) <=> Coming(ev, ag[a].p)
      BY <1>13, <1>19, <2>1
    <3>3. ag2[a] = ag[a] BY <1>11, <2>1
    <3>4. Unseen(ag[a], ib, c, ev) => Unseen(ag[a], ib2, c, ev2)
      BY <1>1, <1>7, <1>8, <3>2 DEF Unseen
    <3>5. HeldIn(ag[a], ib, ev) => HeldIn(ag[a], ib2, ev2)
      <4> SUFFICES ASSUME NEW j \in 1..Len(ib),
             ib[j].p = ag[a].p, ib[j].x = ag[a].x, ib[j].held,
             ib[j].awaiting <=> Coming(ev, ag[a].p)
             PROVE HeldIn(ag[a], ib2, ev2)
        BY <1>1 DEF HeldIn
      <4>1. j \notin S BY <1>9
      <4>2. ib2[j] = ib[j] BY <1>7, <4>1
      <4> QED BY <1>8, <3>2, <4>2 DEF HeldIn
    <3> QED BY <3>1, <3>3, <3>4, <3>5
  <2>2. CASE a \notin 1..Len(ag)
    <3> DEFINE m == a - Len(ag)
    <3>1. m \in 1..n /\ ag2[a] = w[m] BY <1>11, <2>2
    <3> HIDE DEF m
    <3>2. /\ f[m] \in S /\ f[m] \in 1..Len(ib)
          /\ ib2[f[m]].p = w[m].p /\ ib2[f[m]].x = w[m].x
          /\ ib2[f[m]].held /\ ib2[f[m]].awaiting
      <4>1. f[m] \in S BY <1>3, <3>1
      <4>2. f[m] \in 1..Len(ib) BY <1>9, <4>1
      <4>3. w[m].p = ib[f[m]].p /\ w[m].x = ib[f[m]].x BY <1>4, <3>1
      <4>4. /\ ib2[f[m]].p = ib[f[m]].p /\ ib2[f[m]].x = ib[f[m]].x
            /\ ib2[f[m]].held /\ ib2[f[m]].awaiting
        BY <1>7, <4>1, <4>2
      <4> QED BY <4>1, <4>2, <4>3, <4>4
    <3>3. Coming(ev2, w[m].p)
      <4>1. Len(ev) + m \in 1..(Len(ev) + n) /\ ev2[Len(ev) + m] = w[m]
        BY <1>3, <1>12, <3>1
      <4> QED BY <1>12, <4>1 DEF Coming
    <3>4. HeldIn(ag2[a], ib2, ev2) BY <1>8, <3>1, <3>2, <3>3 DEF HeldIn
    <3>5. ~(ag2[a].p > 0)
      <4>1. w[m].p < 0 /\ w[m].p \in Int BY <1>4, <1>10, <3>1 DEF Ins
      <4> QED BY <3>1, <4>1
    <3> QED BY <3>4, <3>5
  <2> QED BY <2>1, <2>2
<1>24. BoxInv(ib2, c, ag2, ev2)
  BY <1>16, <1>17, <1>18, <1>20, <1>21, <1>22, <1>23 DEF BoxInv
<1> QED BY <1>5, <1>7, <1>8, <1>10, <1>24 DEF ib2, w, ag2, ev2, owed, S

\* An inbox without one of its inputs.
LEMMA WithoutIs ==
    ASSUME NEW ib \in Seq(BoxItems), NEW j \in 1..Len(ib)
    PROVE  LET ib2 == Without(ib, j)
               f == [m \in 1..(Len(ib) - 1) |-> IF m < j THEN m ELSE m + 1]
           IN /\ ib2 \in Seq(BoxItems) /\ Len(ib2) = Len(ib) - 1
              /\ DOMAIN ib2 = 1..(Len(ib) - 1)
              /\ f \in [1..(Len(ib) - 1) -> 1..Len(ib)]
              /\ \A m \in 1..(Len(ib) - 1) : f[m] # j /\ ib2[m] = ib[f[m]]
              /\ \A a, b \in 1..(Len(ib) - 1) : f[a] = f[b] => a = b
              /\ \A m \in 1..Len(ib) : m # j =>
                    \E a \in 1..(Len(ib) - 1) : f[a] = m
<1> DEFINE f == [m \in 1..(Len(ib) - 1) |-> IF m < j THEN m ELSE m + 1]
           s1 == SubSeq(ib, 1, j - 1)
           s2 == SubSeq(ib, j + 1, Len(ib))
           ib2 == Without(ib, j)
<1>1. Len(ib) \in Nat /\ j \in Nat /\ 1 <= j /\ j <= Len(ib) OBVIOUS
<1>2. /\ s1 \in Seq(BoxItems) /\ Len(s1) = j - 1
      /\ \A m \in 1..(j - 1) : s1[m] = ib[m]
  <2>1. \A m \in 1..(j - 1) : ib[m] \in BoxItems BY <1>1
  <2> QED BY <1>1, <2>1
<1>3. /\ s2 \in Seq(BoxItems) /\ Len(s2) = Len(ib) - j
      /\ \A m \in 1..(Len(ib) - j) : s2[m] = ib[j + m]
  <2>1. \A m \in (j + 1)..Len(ib) : ib[m] \in BoxItems BY <1>1
  <2> QED BY <1>1, <2>1
<1>4. ib2 = s1 \o s2 BY DEF Without
<1> HIDE DEF s1, s2
<1>5. ib2 \in Seq(BoxItems) /\ Len(ib2) = Len(ib) - 1
  <2>1. s1 \o s2 \in Seq(BoxItems) /\ Len(s1 \o s2) = Len(s1) + Len(s2)
    BY <1>2, <1>3, Joined
  <2>2. (j - 1) + (Len(ib) - j) = Len(ib) - 1 BY <1>1
  <2> HIDE DEF ib2
  <2> QED BY <1>2, <1>3, <1>4, <2>1, <2>2
<1>6. ASSUME NEW m \in 1..(Len(ib) - 1)
      PROVE  f[m] \in 1..Len(ib) /\ f[m] # j /\ ib2[m] = ib[f[m]]
  <2>1. CASE m < j
    <3>1. m \in 1..(j - 1) /\ f[m] = m BY <1>1, <2>1
    <3>2. ib2[m] = s1[m] BY <1>1, <1>2, <1>3, <1>4, <3>1
    <3> QED BY <1>1, <1>2, <2>1, <3>1, <3>2
  <2>2. CASE ~(m < j)
    <3>1. m - (j - 1) \in 1..(Len(ib) - j) /\ f[m] = m + 1
          /\ m + 1 = j + (m - (j - 1))
      BY <1>1, <2>2
    <3>2. ib2[m] = s2[m - (j - 1)] BY <1>1, <1>2, <1>3, <1>4, <3>1
    <3> QED BY <1>1, <1>3, <2>2, <3>1, <3>2
  <2> QED BY <2>1, <2>2
<1>7. \A a, b \in 1..(Len(ib) - 1) : f[a] = f[b] => a = b BY <1>1
<1>8. ASSUME NEW m \in 1..Len(ib), m # j
      PROVE  \E a \in 1..(Len(ib) - 1) : f[a] = m
  <2>1. CASE m < j
    <3>1. m \in 1..(Len(ib) - 1) /\ f[m] = m BY <1>1, <2>1
    <3> QED BY <3>1
  <2>2. CASE m > j
    <3>1. m - 1 \in 1..(Len(ib) - 1) /\ ~(m - 1 < j) BY <1>1, <2>2
    <3>2. f[m - 1] = m BY <1>1, <3>1
    <3> QED BY <3>1, <3>2
  <2> QED BY <1>1, <1>8, <2>1, <2>2
<1>9. f \in [1..(Len(ib) - 1) -> 1..Len(ib)] BY <1>6
<1>10. DOMAIN ib2 = 1..(Len(ib) - 1) BY <1>1, <1>5
<1> HIDE DEF ib2
<1>11. \A m \in 1..(Len(ib) - 1) : f[m] # j /\ ib2[m] = ib[f[m]] BY <1>6
<1> QED BY <1>5, <1>7, <1>8, <1>9, <1>10, <1>11 DEF ib2

\* The turn takes the first input of the agent's queue, whose event the
\* recorder has seen: it is held in the inbox.
LEMMA BoxDrained ==
    ASSUME NEW ib \in Seq(BoxItems), NEW c \in [Inputs -> Pcs],
           NEW ag \in Seq(Ins), NEW ev \in Seq(Ins), ag # <<>>,
           BoxInv(ib, c, ag, ev),
           \A m \in DOMAIN ev : ev[m] # Head(ag)
    PROVE  LET j == FirstOf({m \in DOMAIN ib :
                              ib[m].held /\ ib[m].p = Head(ag).p}) IN
           /\ j # 0 /\ j \in 1..Len(ib) /\ ib[j].held
           /\ ib[j].p = Head(ag).p /\ ib[j].x = Head(ag).x
           /\ ib[j].p > 0 => c[ib[j].p] # "written"
           /\ BoxInv(Without(ib, j), c, Tail(ag), ev)
<1> DEFINE S == {m \in DOMAIN ib : ib[m].held /\ ib[m].p = Head(ag).p}
           j == FirstOf(S)
           ag2 == Tail(ag)
<1>1. /\ DOMAIN ib = 1..Len(ib) /\ Len(ib) \in Nat /\ DOMAIN ev = 1..Len(ev)
  OBVIOUS
<1>2. /\ ag2 \in Seq(Ins) /\ Len(ag) \in Nat \ {0}
      /\ DOMAIN ag = 1..Len(ag) /\ DOMAIN ag2 = 1..(Len(ag) - 1)
      /\ Head(ag) = ag[1] /\ 1 \in DOMAIN ag
      /\ \A m \in 1..(Len(ag) - 1) : ag2[m] = ag[m + 1]
      /\ Distinct(ag2)
  BY TailIs DEF BoxInv
<1>3. ~Coming(ev, ag[1].p)
  <2> SUFFICES ASSUME NEW m \in DOMAIN ev, ev[m].p = ag[1].p PROVE FALSE
    BY DEF Coming
  <2>1. PICK a \in DOMAIN ag : ag[a] = ev[m] BY DEF BoxInv, EventsOK
  <2>2. a = 1 BY <1>2, <2>1 DEF BoxInv, Distinct
  <2> QED BY <1>2, <2>1, <2>2
<1>4. HeldIn(ag[1], ib, ev) BY <1>2, <1>3 DEF BoxInv, QueueOK, Unseen
<1>5. PICK j0 \in 1..Len(ib) : /\ ib[j0].p = ag[1].p /\ ib[j0].x = ag[1].x
                              /\ ib[j0].held /\ ~ib[j0].awaiting
  BY <1>1, <1>3, <1>4 DEF HeldIn
<1>6. S \in SUBSET (Nat \ {0}) /\ j0 \in S BY <1>1, <1>2, <1>5
<1>7. j \in S BY <1>6, FirstOfIs
<1>8. j = j0 BY <1>2, <1>5, <1>7 DEF BoxInv, Distinct
<1> HIDE DEF j, S
<1>9. j \in 1..Len(ib) /\ j # 0 BY <1>1, <1>5, <1>8
<1> DEFINE ib2 == Without(ib, j)
           f == [m \in 1..(Len(ib) - 1) |-> IF m < j THEN m ELSE m + 1]
<1>10. /\ ib2 \in Seq(BoxItems) /\ Len(ib2) = Len(ib) - 1
       /\ DOMAIN ib2 = 1..(Len(ib) - 1)
       /\ f \in [1..(Len(ib) - 1) -> 1..Len(ib)]
       /\ \A m \in 1..(Len(ib) - 1) : f[m] # j /\ ib2[m] = ib[f[m]]
       /\ \A a, b \in 1..(Len(ib) - 1) : f[a] = f[b] => a = b
       /\ \A m \in 1..Len(ib) : m # j =>
             \E a \in 1..(Len(ib) - 1) : f[a] = m
  BY <1>9, WithoutIs, SMTT(30)
<1> HIDE DEF f, ib2
<1>11. ASSUME NEW m \in DOMAIN ib2
       PROVE  m \in 1..(Len(ib) - 1) /\ f[m] \in 1..Len(ib) /\ f[m] # j
              /\ ib2[m] = ib[f[m]]
  BY <1>10
<1>12. \A m \in DOMAIN ib2 : InputOK(ib2[m], c)
  BY <1>1, <1>11 DEF BoxInv
<1>13. Distinct(ib2)
  <2> SUFFICES ASSUME NEW a \in DOMAIN ib2, NEW b \in DOMAIN ib2,
                      ib2[a].p = ib2[b].p
               PROVE  a = b
    BY DEF Distinct
  <2>1. f[a] = f[b] BY <1>1, <1>11 DEF BoxInv, Distinct
  <2> QED BY <1>10, <2>1
<1>14. ASSUME NEW m \in 1..Len(ib), m # j
       PROVE  \E a \in DOMAIN ib2 : ib2[a] = ib[m]
  BY <1>10, <1>14
<1>15. WrittenOK(ib2, c)
  <2> SUFFICES ASSUME NEW i \in Inputs, c[i] = "written"
               PROVE  \E m \in DOMAIN ib2 :
                         ib2[m].p = i /\ ib2[m].held /\ ib2[m].awaiting
    BY DEF WrittenOK
  <2>1. PICK m \in 1..Len(ib) : ib[m].p = i /\ ib[m].held /\ ib[m].awaiting
    BY <1>1 DEF BoxInv, WrittenOK
  <2>2. m # j BY <1>5, <1>8, <2>1
  <2> QED BY <1>14, <2>1, <2>2
<1>16. ASSUME NEW a \in DOMAIN ag2
       PROVE  /\ a + 1 \in DOMAIN ag /\ ag2[a] = ag[a + 1]
              /\ ag[a + 1].p # ag[1].p
  <2>1. a \in 1..(Len(ag) - 1) /\ a + 1 \in DOMAIN ag /\ a + 1 # 1
    BY <1>2
  <2> QED BY <1>2, <2>1 DEF BoxInv, Distinct
<1>17. QueueOK(ib2, c, ag2, ev)
  <2> SUFFICES ASSUME NEW a \in DOMAIN ag2
               PROVE  /\ ag2[a].p > 0 => /\ ag2[a].p \in Inputs
                                         /\ ag2[a].x = Content[ag2[a].p]
                                         /\ c[ag2[a].p] \in {"acked", "direct"}
                      /\ Unseen(ag2[a], ib2, c, ev) \/ HeldIn(ag2[a], ib2, ev)
    BY DEF QueueOK
  <2> DEFINE g == ag[a + 1]
  <2>1. a + 1 \in DOMAIN ag /\ ag2[a] = g /\ g.p # ag[1].p BY <1>16
  <2>2. /\ g.p > 0 => /\ g.p \in Inputs /\ g.x = Content[g.p]
                      /\ c[g.p] \in {"acked", "direct"}
        /\ Unseen(g, ib, c, ev) \/ HeldIn(g, ib, ev)
    BY <2>1 DEF BoxInv, QueueOK
  <2> HIDE DEF g
  <2>3. Unseen(g, ib, c, ev) => Unseen(g, ib2, c, ev)
    BY <1>1, <1>11 DEF Unseen
  <2>4. HeldIn(g, ib, ev) => HeldIn(g, ib2, ev)
    <3> SUFFICES ASSUME NEW m \in 1..Len(ib),
             ib[m].p = g.p, ib[m].x = g.x, ib[m].held,
             ib[m].awaiting <=> Coming(ev, g.p)
           PROVE HeldIn(g, ib2, ev)
      BY <1>1 DEF HeldIn
    <3>1. m # j BY <1>5, <1>8, <2>1
    <3>2. PICK b \in DOMAIN ib2 : ib2[b] = ib[m] BY <1>14, <3>1
    <3> QED BY <3>2 DEF HeldIn
  <2> QED BY <2>1, <2>2, <2>3, <2>4
<1>18. EventsOK(ag2, ev)
  <2> SUFFICES ASSUME NEW m \in DOMAIN ev
               PROVE  \E a \in DOMAIN ag2 : ag2[a] = ev[m]
    BY DEF EventsOK
  <2>1. PICK a \in DOMAIN ag : ag[a] = ev[m] BY DEF BoxInv, EventsOK
  <2>2. a # 1 BY <1>3, <2>1 DEF Coming
  <2>3. a - 1 \in 1..(Len(ag) - 1) /\ (a - 1) + 1 = a BY <1>2, <2>2
  <2>4. ag2[a - 1] = ag[a] BY <1>2, <2>3
  <2> QED BY <1>2, <2>1, <2>3, <2>4
<1>19. BoxInv(ib2, c, ag2, ev)
  BY <1>2, <1>12, <1>13, <1>15, <1>17, <1>18 DEF BoxInv
<1>20. ib[j].p > 0 => c[ib[j].p] # "written"
  BY <1>2, <1>5, <1>8 DEF BoxInv, QueueOK
<1> QED BY <1>2, <1>5, <1>8, <1>9, <1>19, <1>20 DEF j, S, ib2, ag2

\* A message sent again is an input of the inbox that nobody holds.
LEMMA BoxRedelivered ==
    ASSUME NEW ib \in Seq(BoxItems), NEW c \in [Inputs -> Pcs],
           NEW ag, NEW ev, BoxInv(ib, c, ag, ev),
           NEW i \in Inputs, c[i] = "new", NEW j \in 1..Len(ib),
           ~ib[j].held, ~ib[j].declined, ib[j].x = Content[i]
    PROVE  LET ib2 == [ib EXCEPT ![j].p = i, ![j].held = TRUE,
                                 ![j].awaiting = TRUE, ![j].holder = TRUE]
           IN /\ ib2 \in Seq(BoxItems) /\ Len(ib2) = Len(ib)
              /\ \A m \in 1..Len(ib) :
                    /\ ib2[m].entry = ib[m].entry /\ ib2[m].x = ib[m].x
                    /\ ib2[m].d = ib[m].d
                    /\ ib2[m].p = IF m = j THEN i ELSE ib[m].p
                    /\ ib2[m].declined = ib[m].declined
              /\ BoxInv(ib2, [c EXCEPT ![i] = "written"], ag, ev)
<1> DEFINE ib2 == [ib EXCEPT ![j].p = i, ![j].held = TRUE,
                             ![j].awaiting = TRUE, ![j].holder = TRUE]
           c2 == [c EXCEPT ![i] = "written"]
<1>1. /\ DOMAIN ib = 1..Len(ib) /\ Len(ib) \in Nat
      /\ \A m \in 1..Len(ib) : ib[m] \in BoxItems
  OBVIOUS
<1>2. i \in Int /\ i > 0 /\ i # 0 BY InboxAssumption
<1>3. /\ ib2[j] = [ib[j] EXCEPT !.p = i, !.held = TRUE, !.awaiting = TRUE,
                                !.holder = TRUE]
      /\ \A m \in 1..Len(ib) : m # j => ib2[m] = ib[m]
  BY <1>1
<1>4. /\ ib2[j] \in BoxItems /\ ib2[j].p = i /\ ib2[j].x = ib[j].x
      /\ ib2[j].d = ib[j].d /\ ib2[j].entry = ib[j].entry
      /\ ib2[j].declined = ib[j].declined /\ ib2[j].held
      /\ ib2[j].awaiting
  <2> HIDE DEF ib2
  <2>1. ib[j] \in BoxItems BY <1>1
  <2> QED BY <1>2, <1>3, <2>1 DEF BoxItems
<1>5. ib2 \in Seq(BoxItems) /\ Len(ib2) = Len(ib) /\ DOMAIN ib2 = 1..Len(ib)
  <2>1. ib2 = [m \in 1..Len(ib) |-> ib2[m]] BY <1>1
  <2> HIDE DEF ib2
  <2>2. ib2 \in [1..Len(ib) -> BoxItems] BY <1>1, <1>3, <1>4, <2>1
  <2> QED BY <1>1, <2>2, SeqOf
<1>6. (\A k \in Inputs : k # i => c2[k] = c[k]) /\ c2[i] = "written"
  OBVIOUS
<1> HIDE DEF ib2, c2
<1>7. \A m \in 1..Len(ib) : InputOK(ib[m], c) /\ ib[m].p # i
  BY <1>1, <1>2 DEF BoxInv, InputOK
<1>8. ASSUME NEW m \in DOMAIN ib2 PROVE InputOK(ib2[m], c2)
  <2>1. m \in 1..Len(ib) /\ InputOK(ib[m], c) BY <1>5, <1>7
  <2>2. CASE m = j BY <1>2, <1>4, <1>6, <2>2 DEF InputOK
  <2>3. CASE m # j
    <3>1. ib2[m] = ib[m] BY <1>3, <2>1, <2>3
    <3>2. ib[m].p > 0 => c2[ib[m].p] = c[ib[m].p]
      BY <1>6, <1>7, <2>1 DEF InputOK
    <3> QED BY <2>1, <3>1, <3>2 DEF InputOK
  <2> QED BY <2>2, <2>3
<1>9. Distinct(ib2)
  <2> SUFFICES ASSUME NEW a \in 1..Len(ib), NEW b \in 1..Len(ib),
                      ib2[a].p = ib2[b].p
               PROVE  a = b
    BY <1>5 DEF Distinct
  <2>1. a # j /\ b # j => a = b BY <1>1, <1>3 DEF BoxInv, Distinct
  <2> QED BY <1>3, <1>4, <1>7, <2>1
<1>10. WrittenOK(ib2, c2)
  <2> SUFFICES ASSUME NEW k \in Inputs, c2[k] = "written"
               PROVE  \E m \in 1..Len(ib) :
                         ib2[m].p = k /\ ib2[m].held /\ ib2[m].awaiting
    BY <1>5 DEF WrittenOK
  <2>1. CASE k = i BY <1>4, <2>1
  <2>2. CASE k # i
    <3>1. PICK m \in 1..Len(ib) : ib[m].p = k /\ ib[m].held /\ ib[m].awaiting
      BY <1>1, <1>6, <2>2 DEF BoxInv, WrittenOK
    <3>2. m # j BY <3>1
    <3> QED BY <1>3, <3>1, <3>2
  <2> QED BY <2>1, <2>2
<1>12. QueueOK(ib2, c2, ag, ev)
  <2> SUFFICES ASSUME NEW a \in DOMAIN ag
               PROVE  /\ ag[a].p > 0 => /\ ag[a].p \in Inputs
                                        /\ ag[a].x = Content[ag[a].p]
                                        /\ c2[ag[a].p] \in {"acked", "direct"}
                      /\ Unseen(ag[a], ib2, c2, ev) \/ HeldIn(ag[a], ib2, ev)
    BY DEF QueueOK
  <2>1. /\ ag[a].p > 0 => /\ ag[a].p \in Inputs
                          /\ ag[a].x = Content[ag[a].p]
                          /\ c[ag[a].p] \in {"acked", "direct"}
        /\ Unseen(ag[a], ib, c, ev) \/ HeldIn(ag[a], ib, ev)
    BY DEF BoxInv, QueueOK
  <2>2. ag[a].p > 0 => c2[ag[a].p] = c[ag[a].p] BY <1>6, <2>1
  <2>3. ag[a].p # i BY <1>2, <2>1
  <2>4. Unseen(ag[a], ib, c, ev) => Unseen(ag[a], ib2, c2, ev)
    <3> SUFFICES ASSUME Unseen(ag[a], ib, c, ev)
                 PROVE  Unseen(ag[a], ib2, c2, ev)
      OBVIOUS
    <3>0. \A m \in 1..Len(ib) : ib[m].p # ag[a].p BY <1>1 DEF Unseen
    <3>1. ASSUME NEW m \in 1..Len(ib) PROVE ib2[m].p # ag[a].p
      BY <1>3, <1>4, <2>3, <3>0
    <3> QED BY <1>5, <2>2, <3>1 DEF Unseen
  <2>5. HeldIn(ag[a], ib, ev) => HeldIn(ag[a], ib2, ev)
    <3> SUFFICES ASSUME NEW m \in 1..Len(ib),
             ib[m].p = ag[a].p, ib[m].x = ag[a].x, ib[m].held,
             ib[m].awaiting <=> Coming(ev, ag[a].p)
           PROVE HeldIn(ag[a], ib2, ev)
      BY <1>1 DEF HeldIn
    <3>1. m # j OBVIOUS
    <3>2. ib2[m] = ib[m] BY <1>3, <3>1
    <3> QED BY <1>5, <3>2 DEF HeldIn
  <2> QED BY <2>1, <2>2, <2>4, <2>5
<1>13. BoxInv(ib2, c2, ag, ev) BY <1>8, <1>9, <1>10, <1>12 DEF BoxInv
<1>14. \A m \in 1..Len(ib) :
          /\ ib2[m].entry = ib[m].entry /\ ib2[m].x = ib[m].x
          /\ ib2[m].d = ib[m].d
          /\ ib2[m].p = IF m = j THEN i ELSE ib[m].p
          /\ ib2[m].declined = ib[m].declined
  BY <1>3, <1>4
<1> QED BY <1>5, <1>13, <1>14 DEF ib2, c2

-----------------------------------------------------------------------------
(* The path, as the handlers change it.                                    *)

\* One entry more.
LEMMA AppendPath ==
    ASSUME NEW p \in Seq(Entries), NEW en \in Entries, PathOK(p),
           en.k # "item" => en.from = 0,
           en.k \in {"queued", "item"} => en.x \in Contents
    PROVE  LET q == Append(p, en) IN
           /\ q \in Seq(Entries) /\ Len(q) = Len(p) + 1 /\ Len(p) \in Nat
           /\ DOMAIN p = 1..Len(p) /\ DOMAIN q = 1..(Len(p) + 1)
           /\ \A e \in 1..Len(p) : q[e] = p[e]
           /\ q[Len(p) + 1] = en
           /\ PathOK(q)
<1> DEFINE q == Append(p, en)
<1>1. /\ q \in Seq(Entries) /\ Len(q) = Len(p) + 1 /\ Len(p) \in Nat
      /\ DOMAIN p = 1..Len(p) /\ DOMAIN q = 1..(Len(p) + 1)
      /\ \A e \in 1..Len(p) : q[e] = p[e]
      /\ q[Len(p) + 1] = en
  OBVIOUS
<1> HIDE DEF q
<1>2. PathOK(q)
  <2> SUFFICES ASSUME NEW e \in 1..(Len(p) + 1)
               PROVE  /\ q[e].k # "item" => q[e].from = 0
                      /\ q[e].k \in {"queued", "item"} => q[e].x \in Contents
    BY <1>1 DEF PathOK
  <2>1. CASE e \in 1..Len(p) BY <1>1, <2>1 DEF PathOK
  <2>2. CASE e = Len(p) + 1 BY <1>1, <2>2
  <2> QED BY <1>1, <2>1, <2>2
<1> QED BY <1>1, <1>2 DEF q

\* The marks of a run, and an item, are entries.
LEMMA MarkIs ==
    ASSUME NEW k \in {"start", "end"}
    PROVE  /\ Mark(k) \in Entries /\ Mark(k).k = k /\ Mark(k).from = 0
           /\ Mark(k).x = "none"
  BY DEF Mark, Entries, Kinds

\* The item a turn appends is an entry of the log.
LEMMA ItemIs ==
    ASSUME NEW x \in Contents, NEW g \in Nat
    PROVE  /\ Item(x, g) \in Entries /\ Item(x, g).k = "item"
           /\ Item(x, g).x = x /\ Item(x, g).from = g
  BY DEF Item, Entries, Kinds

\* What a path owes.
LEMMA PendingIs ==
    ASSUME NEW p \in Seq(Entries)
    PROVE  /\ PendingQueued(p) \in SUBSET (1..Len(p))
           /\ PendingQueued(p) \in SUBSET Nat
           /\ IsFiniteSet(PendingQueued(p))
           /\ \A g \in PendingQueued(p) :
                 /\ g \in Nat /\ g # 0 /\ g \in 1..Len(p)
                 /\ p[g] \in Entries /\ p[g].k = "queued"
<1>1. Len(p) \in Nat /\ DOMAIN p = 1..Len(p)
      /\ \A e \in 1..Len(p) : p[e] \in Entries
  OBVIOUS
<1>2. IsFiniteSet(1..Len(p)) BY <1>1, FS_Interval
<1>3. PendingQueued(p) \in SUBSET (1..Len(p)) BY <1>1 DEF PendingQueued
<1>4. IsFiniteSet(PendingQueued(p)) BY <1>2, <1>3, FS_Subset
<1>5. \A g \in PendingQueued(p) : p[g].k = "queued" BY DEF PendingQueued
<1> QED BY <1>1, <1>3, <1>4, <1>5

\* A run starts, and what is owed stays so.
LEMMA StartKeeps ==
    ASSUME NEW p \in Seq(Entries), NEW ib \in Seq(BoxItems), PathOK(p),
           EntriesOK(p, ib)
    PROVE  LET q == Append(p, Mark("start")) IN
           q \in Seq(Entries) /\ PathOK(q) /\ EntriesOK(q, ib)
<1> DEFINE q == Append(p, Mark("start"))
<1>0. /\ Mark("start") \in Entries /\ Mark("start").k = "start"
      /\ Mark("start").from = 0
  BY MarkIs
<1>1. /\ q \in Seq(Entries) /\ Len(q) = Len(p) + 1 /\ Len(p) \in Nat
      /\ \A e \in 1..Len(p) : q[e] = p[e]
      /\ q[Len(p) + 1] = Mark("start") /\ PathOK(q)
  BY <1>0, AppendPath
<1> HIDE DEF q
<1>2. ASSUME NEW g \in PendingQueued(p)
      PROVE  g \in PendingQueued(q) /\ q[g] = p[g]
  <2>1. g # 0 BY PendingIs
  <2>2. \A e \in (Len(p) + 1)..Len(q) : q[e].k # "end" /\ q[e].from # g
    BY <1>0, <1>1, <2>1
  <2> QED BY <1>1, <2>2, PendingKept
<1>3. EntriesOK(q, ib) BY <1>2 DEF EntriesOK
<1> QED BY <1>1, <1>3 DEF q

\* An item drains the entry of an input, which leaves the inbox.
LEMMA DrainKeeps ==
    ASSUME NEW p \in Seq(Entries), NEW ib \in Seq(BoxItems), PathOK(p),
           EntriesOK(p, ib), NEW j \in 1..Len(ib)
    PROVE  LET q == Append(p, Item(ib[j].x, ib[j].entry)) IN
           /\ q \in Seq(Entries) /\ PathOK(q)
           /\ EntriesOK(q, Without(ib, j))
<1> DEFINE en == Item(ib[j].x, ib[j].entry)
           q == Append(p, en)
           ib2 == Without(ib, j)
           f == [m \in 1..(Len(ib) - 1) |-> IF m < j THEN m ELSE m + 1]
<1>0. ib[j] \in BoxItems /\ DOMAIN ib = 1..Len(ib) OBVIOUS
<1>1. ib[j].x \in Contents /\ ib[j].entry \in Nat BY <1>0 DEF BoxItems
<1>2. en \in Entries /\ en.k = "item" /\ en.x = ib[j].x
      /\ en.from = ib[j].entry
  BY <1>1, ItemIs
<1> HIDE DEF en
<1>3. /\ q \in Seq(Entries) /\ Len(q) = Len(p) + 1 /\ Len(p) \in Nat
      /\ \A e \in 1..Len(p) : q[e] = p[e]
      /\ q[Len(p) + 1] = en /\ PathOK(q)
  BY <1>1, <1>2, AppendPath
<1>4. /\ ib2 \in Seq(BoxItems) /\ DOMAIN ib2 = 1..(Len(ib) - 1)
      /\ Len(ib2) = Len(ib) - 1
      /\ f \in [1..(Len(ib) - 1) -> 1..Len(ib)]
      /\ \A m \in 1..(Len(ib) - 1) : f[m] # j /\ ib2[m] = ib[f[m]]
      /\ \A a, b \in 1..(Len(ib) - 1) : f[a] = f[b] => a = b
  BY WithoutIs
<1> HIDE DEF q, ib2, f
<1>5. ASSUME NEW g \in PendingQueued(p), g # ib[j].entry
      PROVE  g \in PendingQueued(q) /\ q[g] = p[g]
  <2>1. \A e \in (Len(p) + 1)..Len(q) : q[e].k # "end" /\ q[e].from # g
    BY <1>2, <1>3, <1>5
  <2> QED BY <1>3, <2>1, PendingKept, SMTT(30)
<1>6. EntriesOK(p, ib2)
  <2>1. f \in [1..Len(ib2) -> 1..Len(ib)]
        /\ \A a, b \in 1..Len(ib2) : f[a] = f[b] => a = b
    BY <1>4
  <2>2. \A m \in 1..Len(ib2) : ib2[m] = ib[f[m]] BY <1>4
  <2> QED BY <1>4, <2>1, <2>2, EntriesOfSome
<1>7. ASSUME NEW m \in DOMAIN ib2, ib2[m].entry # 0
      PROVE  ib2[m].entry # ib[j].entry
  <2>1. f[m] \in 1..Len(ib) /\ f[m] # j /\ ib2[m] = ib[f[m]] BY <1>4
  <2> QED BY <1>0, <1>7, <2>1 DEF EntriesOK
<1>8. EntriesOK(q, ib2)
  <2> SUFFICES ASSUME NEW m \in DOMAIN ib2, ib2[m].entry # 0
               PROVE  /\ ib2[m].entry \in PendingQueued(q)
                      /\ q[ib2[m].entry].x = ib2[m].x
                      /\ q[ib2[m].entry].d = ib2[m].d
                      /\ \A l \in DOMAIN ib2 : l # m =>
                            ib2[l].entry # ib2[m].entry
    BY DEF EntriesOK
  <2>1. /\ ib2[m].entry \in PendingQueued(p)
        /\ p[ib2[m].entry].x = ib2[m].x
        /\ p[ib2[m].entry].d = ib2[m].d
        /\ \A l \in DOMAIN ib2 : l # m => ib2[l].entry # ib2[m].entry
    BY <1>6 DEF EntriesOK
  <2>2. ib2[m].entry \in PendingQueued(q)
        /\ q[ib2[m].entry] = p[ib2[m].entry]
    BY <1>5, <1>7, <2>1
  <2> QED BY <2>1, <2>2
<1> QED BY <1>3, <1>8 DEF q, ib2, en

\* What is left of an inbox when a run ends.
LEMMA EndInboxIs ==
    ASSUME NEW ib \in Seq(BoxItems)
    PROVE  LET S == {j \in DOMAIN ib : ib[j].held}
               ib2 == EndInbox(ib)
           IN /\ ib2 \in Seq(BoxItems) /\ Len(ib2) = Cardinality(S)
              /\ Cardinality(S) \in Nat
              /\ DOMAIN ib2 = 1..Len(ib2)
              /\ InOrder(S) \in [1..Len(ib2) -> 1..Len(ib)]
              /\ \A a, b \in 1..Len(ib2) :
                    InOrder(S)[a] = InOrder(S)[b] => a = b
              /\ \A n \in 1..Len(ib2) :
                    /\ SameInput(ib[InOrder(S)[n]], ib2[n])
                    /\ ib2[n].entry = 0 /\ ib2[n].held
              /\ \A j \in 1..Len(ib) : ib[j].held =>
                    \E n \in 1..Len(ib2) : InOrder(S)[n] = j
<1> DEFINE S == {j \in DOMAIN ib : ib[j].held}
           o == InOrder(S)
           h == At(ib, S)
           ib2 == EndInbox(ib)
<1>0. DOMAIN ib = 1..Len(ib) OBVIOUS
<1>1. S \in SUBSET (1..Len(ib)) /\ \A j \in S : ib[j].held BY <1>0
<1> HIDE DEF S
<1>2. /\ Cardinality(S) \in Nat
      /\ h \in Seq(BoxItems) /\ Len(h) = Cardinality(S)
      /\ DOMAIN h = 1..Cardinality(S)
      /\ o \in [1..Cardinality(S) -> 1..Len(ib)]
      /\ \A n \in 1..Cardinality(S) : o[n] \in S /\ h[n] = ib[o[n]]
      /\ \A a, b \in 1..Cardinality(S) : o[a] = o[b] => a = b
      /\ \A e \in S : \E a \in 1..Cardinality(S) : o[a] = e
  BY <1>1, AtIs
<1>3. Held(ib) = h BY DEF Held, S
<1>4. ib2 = [j \in 1..Cardinality(S) |-> [h[j] EXCEPT !.entry = 0]]
  BY <1>2, <1>3 DEF EndInbox
<1> HIDE DEF ib2, h, o
<1>5. ASSUME NEW n \in 1..Cardinality(S)
      PROVE  /\ ib2[n] \in BoxItems /\ SameInput(ib[o[n]], ib2[n])
             /\ ib2[n].entry = 0 /\ ib2[n].held
  <2>1. h[n] \in BoxItems /\ h[n] = ib[o[n]] /\ o[n] \in S BY <1>2
  <2>2. ib2[n] = [h[n] EXCEPT !.entry = 0] BY <1>4
  <2> DEFINE b == [h[n] EXCEPT !.entry = 0]
  <2>3. b \in BoxItems /\ SameInput(h[n], b) /\ b.entry = 0
    BY <2>1, EntryChanged
  <2>4. ib[o[n]].held BY <1>1, <2>1
  <2> QED BY <2>1, <2>2, <2>3, <2>4 DEF SameInput
<1>6. ib2 \in [1..Cardinality(S) -> BoxItems] BY <1>4, <1>5
<1>7. ib2 \in Seq(BoxItems) /\ Len(ib2) = Cardinality(S)
      /\ DOMAIN ib2 = 1..Cardinality(S)
  BY <1>2, <1>6, SeqOf
<1>8. \A j \in 1..Len(ib) : ib[j].held => j \in S BY <1>0 DEF S
<1> QED BY <1>2, <1>5, <1>7, <1>8 DEF ib2, o, S

\* The path q is p, its run ended, with n of the entries it owed again after
\* the end.
Closes(p, q, n) ==
    /\ Len(q) = Len(p) + 1 + n /\ q[Len(p) + 1] = Mark("end")
    /\ \A a \in 1..n : q[Len(p) + 1 + a] = p[InOrder(PendingQueued(p))[a]]

\* closeOpenRun leaves the path, or closes it.
LEMMA RunClosed ==
    ASSUME NEW p \in Seq(Entries), PathOK(p), NEW keep \in BOOLEAN
    PROVE  LET q == CloseOpenRun(p, keep)
               n == IF keep THEN Cardinality(PendingQueued(p)) ELSE 0
           IN /\ q \in Seq(Entries) /\ PathOK(q) /\ Len(p) <= Len(q)
              /\ \A e \in 1..Len(p) : q[e] = p[e]
              /\ q = p \/ Closes(p, q, n)
<1> DEFINE o == InOrder(PendingQueued(p))
           N == Cardinality(PendingQueued(p))
           n == IF keep THEN N ELSE 0
           q == CloseOpenRun(p, keep)
<1>1. CASE ~OpenRun(p)
  <2>1. q = p BY <1>1 DEF CloseOpenRun
  <2> QED BY <2>1
<1>2. CASE OpenRun(p)
  <2> DEFINE ended == Append(p, Mark("end"))
             w == [a \in 1..n |-> p[o[a]]]
  <2>1. /\ N \in Nat /\ o \in [1..N -> PendingQueued(p)]
        /\ DOMAIN o = 1..N
    BY PendingIs, InOrderLists
  <2>2. n \in Nat /\ n <= N BY <2>1
  <2>3. q = ended \o w
    <3>1. CASE keep
      <4>1. w = [a \in DOMAIN o |-> p[o[a]]] BY <2>1, <3>1
      <4> QED BY <1>2, <3>1, <4>1 DEF CloseOpenRun
    <3>2. CASE ~keep
      <4>1. w = <<>> BY <3>2
      <4> QED BY <1>2, <3>2, <4>1 DEF CloseOpenRun
    <3> QED BY <3>1, <3>2
  <2>4. /\ Mark("end") \in Entries /\ Mark("end").k = "end"
        /\ Mark("end").from = 0
    BY MarkIs
  <2>5. /\ ended \in Seq(Entries) /\ Len(ended) = Len(p) + 1
        /\ Len(p) \in Nat /\ DOMAIN p = 1..Len(p)
        /\ \A e \in 1..Len(p) : ended[e] = p[e]
        /\ ended[Len(p) + 1] = Mark("end") /\ PathOK(ended)
        /\ DOMAIN ended = 1..(Len(p) + 1)
    BY <2>4, AppendPath
  <2> HIDE DEF ended, o, N, n
  <2>6. ASSUME NEW a \in 1..n
        PROVE  /\ o[a] \in 1..Len(p) /\ p[o[a]] \in Entries
               /\ p[o[a]].k = "queued" /\ p[o[a]].from = 0
               /\ p[o[a]].x \in Contents
    <3>1. a \in 1..N BY <2>1, <2>2
    <3>2. o[a] \in PendingQueued(p) BY <2>1, <3>1
    <3>3. o[a] \in 1..Len(p) /\ p[o[a]] \in Entries /\ p[o[a]].k = "queued"
      BY <3>2, PendingIs
    <3> QED BY <2>5, <3>3 DEF PathOK
  <2>7. w \in Seq(Entries) /\ Len(w) = n
    <3>1. w \in [1..n -> Entries] BY <2>6
    <3> QED BY <2>2, <3>1, SeqOf
  <2>8. \A a \in 1..n : w[a] = p[o[a]] OBVIOUS
  <2> HIDE DEF w, q
  <2>9. /\ q \in Seq(Entries) /\ Len(q) = (Len(p) + 1) + n
        /\ \A e \in 1..(Len(p) + 1) : q[e] = ended[e]
        /\ \A a \in 1..n : q[(Len(p) + 1) + a] = w[a]
        /\ DOMAIN q = 1..((Len(p) + 1) + n)
    <3>0. ended \in Seq(Entries) /\ w \in Seq(Entries) BY <2>5, <2>7
    <3>1. /\ ended \o w \in Seq(Entries)
          /\ Len(ended \o w) = Len(ended) + Len(w)
          /\ DOMAIN (ended \o w) = 1..(Len(ended) + Len(w))
          /\ \A e \in 1..Len(ended) : (ended \o w)[e] = ended[e]
          /\ \A a \in 1..Len(w) : (ended \o w)[Len(ended) + a] = w[a]
      BY ONLY <3>0, Joined
    <3> QED BY <2>3, <2>5, <2>7, <3>1
  <2>10. \A e \in 1..Len(p) : q[e] = p[e] BY <2>5, <2>9
  <2>11. Len(p) <= Len(q) BY <2>2, <2>5, <2>9
  <2>12. Closes(p, q, n) BY <2>5, <2>8, <2>9 DEF Closes, o
  <2>13. PathOK(q)
    <3> SUFFICES ASSUME NEW e \in 1..((Len(p) + 1) + n)
                 PROVE  /\ q[e].k # "item" => q[e].from = 0
                        /\ q[e].k \in {"queued", "item"} => q[e].x \in Contents
      BY <2>9 DEF PathOK
    <3>1. CASE e \in 1..(Len(p) + 1) BY <2>5, <2>9, <3>1 DEF PathOK
    <3>2. CASE e \notin 1..(Len(p) + 1)
      <4>1. e - (Len(p) + 1) \in 1..n BY <2>2, <2>5, <3>2
      <4>2. q[e] = p[o[e - (Len(p) + 1)]]
        <5>1. e = (Len(p) + 1) + (e - (Len(p) + 1)) BY <2>5
        <5> QED BY <2>8, <2>9, <4>1, <5>1
      <4> QED BY <2>6, <4>1, <4>2
    <3> QED BY <3>1, <3>2
  <2> QED BY <2>9, <2>10, <2>11, <2>12, <2>13 DEF q, n, N
<1> QED BY <1>1, <1>2

\* What an end before them leaves owed is what follows it.
LEMMA ClosedPending ==
    ASSUME NEW p \in Seq(Entries), NEW q \in Seq(Entries), NEW n \in Nat,
           PathOK(q), Closes(p, q, n), n <= Cardinality(PendingQueued(p))
    PROVE  /\ PendingQueued(q) = (Len(p) + 2)..Len(q)
           /\ \A e \in (Len(p) + 2)..Len(q) : q[e].k = "queued"
<1> DEFINE o == InOrder(PendingQueued(p))
           N == Cardinality(PendingQueued(p))
<1>1. /\ Len(p) \in Nat /\ Len(q) = Len(p) + 1 + n /\ Len(q) \in Nat
      /\ DOMAIN q = 1..Len(q) /\ DOMAIN p = 1..Len(p)
      /\ q[Len(p) + 1] = Mark("end")
  BY DEF Closes
<1>2. N \in Nat /\ o \in [1..N -> PendingQueued(p)]
  BY PendingIs, InOrderLists
<1>3. q[Len(p) + 1].k = "end" BY <1>1, MarkIs
<1>4. ASSUME NEW e \in (Len(p) + 2)..Len(q)
      PROVE  q[e].k = "queued" /\ e \in 1..Len(q)
  <2> DEFINE a == e - (Len(p) + 1)
  <2>1. a \in 1..n /\ a \in 1..N /\ e = Len(p) + 1 + a BY <1>1, <1>2
  <2>2. o[a] \in PendingQueued(p) BY <1>2, <2>1
  <2>3. q[e] = p[o[a]] BY <2>1 DEF Closes
  <2>4. p[o[a]].k = "queued" BY <2>2, PendingIs
  <2> QED BY <1>1, <2>3, <2>4
<1> HIDE DEF o, N
<1>5. ASSUME NEW e \in PendingQueued(q) PROVE e \in (Len(p) + 2)..Len(q)
  <2>1. /\ e \in 1..Len(q) /\ q[e].k = "queued"
        /\ \A j \in (e + 1)..Len(q) : q[j].k # "end"
    BY <1>1 DEF PendingQueued
  <2>2. e # Len(p) + 1 BY <1>3, <2>1
  <2>3. ~(e < Len(p) + 1)
    <3> SUFFICES ASSUME e < Len(p) + 1 PROVE FALSE
      OBVIOUS
    <3>1. Len(p) + 1 \in (e + 1)..Len(q) BY <1>1, <2>1
    <3> QED BY <1>3, <2>1, <3>1
  <2> QED BY <1>1, <2>1, <2>2, <2>3
<1>6. ASSUME NEW e \in (Len(p) + 2)..Len(q) PROVE e \in PendingQueued(q)
  <2>1. e \in 1..Len(q) /\ q[e].k = "queued" /\ e # 0 BY <1>1, <1>4
  <2>2. ASSUME NEW j \in (e + 1)..Len(q)
        PROVE  q[j].k # "end" /\ q[j].from # e
    <3>1. j \in (Len(p) + 2)..Len(q) BY <1>1
    <3>2. q[j].k = "queued" /\ j \in 1..Len(q) BY <1>4, <3>1
    <3>3. q[j].from = 0 BY <1>1, <3>2 DEF PathOK
    <3> QED BY <2>1, <3>2, <3>3
  <2> QED BY <1>1, <2>1, <2>2 DEF PendingQueued
<1> QED BY <1>4, <1>5, <1>6

\* The inbox of a process that opens the log again.
LEMMA SeedIs ==
    ASSUME NEW p \in Seq(Entries), PathOK(p)
    PROVE  LET ib == SeedInbox(p)
               o == InOrder(PendingQueued(p))
               N == Cardinality(PendingQueued(p))
           IN /\ ib \in Seq(BoxItems) /\ Len(ib) = N /\ DOMAIN ib = 1..N
              /\ \A n \in 1..N :
                    /\ o[n] \in PendingQueued(p) /\ o[n] \in Nat \ {0}
                    /\ ib[n].p = -o[n] /\ ib[n].entry = o[n]
                    /\ ib[n].x = p[o[n]].x /\ ib[n].d = p[o[n]].d
                    /\ ~ib[n].held /\ ~ib[n].awaiting /\ ~ib[n].declined
              /\ EntriesOK(p, ib)
              /\ \A c \in [Inputs -> Pcs] :
                    (\A i \in Inputs : c[i] # "written") =>
                       BoxInv(ib, c, <<>>, <<>>)
<1> DEFINE o == InOrder(PendingQueued(p))
           N == Cardinality(PendingQueued(p))
           ib == SeedInbox(p)
<1>1. /\ N \in Nat /\ o \in [1..N -> PendingQueued(p)] /\ DOMAIN o = 1..N
      /\ \A a, b \in 1..N : o[a] = o[b] => a = b
  BY PendingIs, InOrderLists
<1>2. ib = [n \in 1..N |->
              InboxItem([p |-> -o[n], x |-> p[o[n]].x, d |-> p[o[n]].d],
                        o[n], FALSE)]
  BY <1>1 DEF SeedInbox
<1>3. DOMAIN p = 1..Len(p) OBVIOUS
<1> HIDE DEF o, N, ib
<1>4. ASSUME NEW n \in 1..N
      PROVE  /\ o[n] \in PendingQueued(p) /\ o[n] \in Nat \ {0}
             /\ p[o[n]].x \in Contents /\ p[o[n]].d \in BOOLEAN
  <2>1. o[n] \in PendingQueued(p) BY <1>1
  <2>2. o[n] \in Nat \ {0} /\ o[n] \in 1..Len(p) /\ p[o[n]] \in Entries
        /\ p[o[n]].k = "queued"
    BY <2>1, PendingIs
  <2>3. p[o[n]].x \in Contents BY <1>3, <2>2 DEF PathOK
  <2>4. p[o[n]].d \in BOOLEAN BY <2>2 DEF Entries
  <2> QED BY <2>1, <2>2, <2>3, <2>4
<1>5. ASSUME NEW n \in 1..N
      PROVE  /\ ib[n] \in BoxItems
             /\ ib[n].p = -o[n] /\ ib[n].entry = o[n]
             /\ ib[n].x = p[o[n]].x /\ ib[n].d = p[o[n]].d
             /\ ~ib[n].held /\ ~ib[n].awaiting /\ ~ib[n].declined
  <2>1. ib[n] = InboxItem([p |-> -o[n], x |-> p[o[n]].x, d |-> p[o[n]].d],
                          o[n], FALSE)
    BY <1>2
  <2>2. -o[n] \in Int /\ o[n] \in Nat BY <1>4
  <2> QED BY <1>4, <2>1, <2>2 DEF InboxItem, BoxItems
<1>6. ib \in [1..N -> BoxItems] BY <1>2, <1>5
<1>7. ib \in Seq(BoxItems) /\ Len(ib) = N /\ DOMAIN ib = 1..N
  BY <1>1, <1>6, SeqOf
<1>8. EntriesOK(p, ib)
  <2> SUFFICES ASSUME NEW n \in 1..N
               PROVE  /\ ib[n].entry \in PendingQueued(p)
                      /\ p[ib[n].entry].x = ib[n].x
                      /\ p[ib[n].entry].d = ib[n].d
                      /\ \A m \in 1..N : m # n =>
                            ib[m].entry # ib[n].entry
    BY <1>7 DEF EntriesOK
  <2>1. \A m \in 1..N : ib[m].entry = o[m] BY <1>5
  <2> QED BY <1>1, <1>4, <1>5, <2>1
<1>9. ASSUME NEW c \in [Inputs -> Pcs], \A i \in Inputs : c[i] # "written"
      PROVE  BoxInv(ib, c, <<>>, <<>>)
  <2>1. ASSUME NEW n \in DOMAIN ib PROVE InputOK(ib[n], c)
    <3>1. ib[n].p = -o[n] /\ o[n] \in Nat \ {0} BY <1>4, <1>5, <1>7
    <3>2. ib[n].p < 0 /\ ib[n].p # 0 /\ ~(ib[n].p > 0) BY <3>1
    <3> QED BY <1>5, <1>7, <3>2 DEF InputOK
  <2>2. Distinct(ib)
    <3> SUFFICES ASSUME NEW a \in 1..N, NEW b \in 1..N, ib[a].p = ib[b].p
                 PROVE  a = b
      BY <1>7 DEF Distinct
    <3>1. -o[a] = -o[b] /\ o[a] \in Nat /\ o[b] \in Nat BY <1>4, <1>5
    <3>2. o[a] = o[b] BY <3>1
    <3> QED BY <1>1, <3>2
  <2>3. WrittenOK(ib, c) BY <1>9 DEF WrittenOK
  <2>4. QueueOK(ib, c, <<>>, <<>>) /\ EventsOK(<<>>, <<>>)
        /\ Distinct(<<>>)
    BY DEF QueueOK, EventsOK, Distinct
  <2> QED BY <2>1, <2>2, <2>3, <2>4 DEF BoxInv
<1> QED BY <1>4, <1>5, <1>7, <1>8, <1>9 DEF ib, o, N

\* The path up to an entry.
LEMMA PrefixIs ==
    ASSUME NEW p \in Seq(Entries), PathOK(p), NEW n \in 0..Len(p)
    PROVE  LET q == SubSeq(p, 1, n) IN
           /\ q \in Seq(Entries) /\ Len(q) = n /\ PathOK(q)
           /\ DOMAIN q = 1..n
           /\ \A e \in 1..n : q[e] = p[e]
<1> DEFINE q == SubSeq(p, 1, n)
<1>1. Len(p) \in Nat /\ DOMAIN p = 1..Len(p) /\ n \in Nat /\ n <= Len(p)
      /\ \A e \in 1..n : p[e] \in Entries
  OBVIOUS
<1>2. /\ q \in Seq(Entries) /\ Len(q) = n /\ DOMAIN q = 1..n
      /\ \A e \in 1..n : q[e] = p[e]
  BY <1>1
<1> HIDE DEF q
<1>3. PathOK(q) BY <1>1, <1>2 DEF PathOK
<1> QED BY <1>2, <1>3 DEF q

\* The path a rewind starts from owes only what the old one held there.
LEMMA RewoundIs ==
    ASSUME NEW p \in Seq(Entries), PathOK(p), NEW n \in 0..Len(p)
    PROVE  LET s == SubSeq(p, 1, n)
               q == CloseOpenRun(s, FALSE)
           IN /\ q \in Seq(Entries) /\ PathOK(q) /\ n <= Len(q)
              /\ \A e \in 1..n : q[e] = p[e]
              /\ \A e \in (n + 1)..Len(q) : q[e].k = "end"
              /\ PendingQueued(q) = PendingQueued(s) \/ PendingQueued(q) = {}
              /\ \A e \in PendingQueued(q) : e \in 1..n /\ q[e] = p[e]
<1> DEFINE s == SubSeq(p, 1, n)
           q == CloseOpenRun(s, FALSE)
<1>1. /\ s \in Seq(Entries) /\ Len(s) = n /\ PathOK(s) /\ n \in Nat
      /\ \A e \in 1..n : s[e] = p[e]
  BY PrefixIs
<1> HIDE DEF s
<1>2. /\ q \in Seq(Entries) /\ PathOK(q) /\ n <= Len(q)
      /\ \A e \in 1..n : q[e] = s[e]
      /\ q = s \/ Closes(s, q, 0)
  BY <1>1, RunClosed
<1> HIDE DEF q
<1>3. CASE q = s
  <2>1. \A e \in PendingQueued(s) : e \in 1..n BY <1>1, PendingIs
  <2>2. \A e \in (n + 1)..Len(q) : q[e].k = "end" BY <1>1, <1>3
  <2>3. \A e \in PendingQueued(q) : e \in 1..n /\ q[e] = p[e]
    BY <1>1, <1>3, <2>1
  <2>4. \A e \in 1..n : q[e] = p[e] BY <1>1, <1>3
  <2> QED BY <1>2, <1>3, <2>2, <2>3, <2>4 DEF q, s
<1>4. CASE Closes(s, q, 0)
  <2>1. Cardinality(PendingQueued(s)) \in Nat
    BY <1>1, PendingIs, InOrderLists
  <2>2. PendingQueued(q) = (n + 2)..Len(q) /\ Len(q) = n + 1
        /\ q[n + 1] = Mark("end")
    BY <1>1, <1>2, <1>4, <2>1, ClosedPending DEF Closes
  <2>3. PendingQueued(q) = {} BY <1>1, <2>2
  <2>4. \A e \in (n + 1)..Len(q) : q[e].k = "end" BY <1>1, <2>2, MarkIs
  <2> QED BY <1>1, <1>2, <2>3, <2>4 DEF q, s
<1> QED BY <1>2, <1>3, <1>4

\* The rank of a place among some.
RankIn(M, j) == Cardinality({m \in 1..j : m \in M})

\* Ranks number the members of a set of places, each differently.
LEMMA RankIs ==
    ASSUME NEW n \in Nat, NEW M \in SUBSET (1..n)
    PROVE  /\ IsFiniteSet(M) /\ Cardinality(M) \in Nat
           /\ \A j \in M : RankIn(M, j) \in 1..Cardinality(M)
           /\ \A j, k \in M : RankIn(M, j) = RankIn(M, k) => j = k
<1> DEFINE low(j) == {m \in 1..j : m \in M}
<1>1. IsFiniteSet(M) /\ Cardinality(M) \in Nat
  <2>1. IsFiniteSet(1..n) BY FS_Interval
  <2> QED BY <2>1, FS_Subset, FS_CardinalityType
<1>2. ASSUME NEW j \in M
      PROVE  /\ low(j) \in SUBSET M /\ IsFiniteSet(low(j)) /\ j \in low(j)
             /\ Cardinality(low(j)) \in 1..Cardinality(M)
  <2>1. j \in Nat /\ j \in 1..j OBVIOUS
  <2>2. low(j) \in SUBSET M /\ j \in low(j) BY <2>1
  <2>3. IsFiniteSet(low(j)) /\ Cardinality(low(j)) <= Cardinality(M)
        /\ Cardinality(low(j)) \in Nat
    BY <1>1, <2>2, FS_Subset, FS_CardinalityType
  <2>4. Cardinality(low(j)) # 0 BY <2>2, <2>3, FS_EmptySet
  <2> HIDE DEF low
  <2> QED BY <1>1, <2>2, <2>3, <2>4
<1>3. ASSUME NEW j \in M, NEW k \in M, j < k
      PROVE  Cardinality(low(j)) < Cardinality(low(k))
  <2>1. j \in Nat /\ k \in Nat OBVIOUS
  <2>2. low(j) \in SUBSET low(k) /\ k \in low(k) /\ k \notin low(j)
    BY <1>3, <2>1
  <2>3. low(j) \in SUBSET (low(k) \ {k}) BY <2>2
  <2>4. IsFiniteSet(low(k) \ {k})
        /\ Cardinality(low(k) \ {k}) = Cardinality(low(k)) - 1
    BY <1>2, <2>2, FS_RemoveElement
  <2>5. Cardinality(low(j)) <= Cardinality(low(k)) - 1
    BY <2>3, <2>4, FS_Subset
  <2>6. Cardinality(low(j)) \in Nat /\ Cardinality(low(k)) \in Nat
    BY <1>1, <1>2
  <2> QED BY <2>5, <2>6
<1>4. ASSUME NEW j \in M, NEW k \in M, RankIn(M, j) = RankIn(M, k)
      PROVE  j = k
  <2>1. j < k \/ k < j \/ j = k OBVIOUS
  <2>2. Cardinality(low(j)) = Cardinality(low(k)) BY <1>4 DEF RankIn
  <2>3. Cardinality(low(j)) \in Nat /\ Cardinality(low(k)) \in Nat
    BY <1>1, <1>2
  <2> QED BY <1>3, <2>1, <2>2, <2>3
<1> QED BY <1>1, <1>2, <1>4 DEF RankIn

\* The entries a path owes that hold an input alike and that no input of the
\* inbox claims, and the inputs alike that have no entry there.
FreeOf(ib, p, x, d) ==
    {e \in PendingQueued(p) : /\ p[e].x = x /\ p[e].d = d
                              /\ \A j \in DOMAIN ib : ib[j].entry # e}

LackOf(ib, p, x, d) ==
    {m \in DOMAIN ib : /\ ib[m].x = x /\ ib[m].d = d
                       /\ ib[m].entry \notin PendingQueued(p)}

\* The entries of an inbox on a path are its own.
Claims(ib, p) ==
    \A j \in DOMAIN ib : ib[j].entry \in PendingQueued(p) =>
       /\ p[ib[j].entry].x = ib[j].x /\ p[ib[j].entry].d = ib[j].d
       /\ \A m \in DOMAIN ib : m # j => ib[m].entry # ib[j].entry

\* What Rebase's search gives each input.
LEMMA RebasedIs ==
    ASSUME NEW ib \in Seq(BoxItems), NEW p \in Seq(Entries), Claims(ib, p)
    PROVE  LET ib2 == Rebased(ib, p) IN
           /\ ib2 \in Seq(BoxItems) /\ Len(ib2) = Len(ib)
           /\ \A j \in 1..Len(ib) :
                 LET M == LackOf(ib, p, ib[j].x, ib[j].d)
                     F == FreeOf(ib, p, ib[j].x, ib[j].d)
                 IN /\ SameInput(ib[j], ib2[j])
                    /\ ib[j].entry \in PendingQueued(p) =>
                          ib2[j].entry = ib[j].entry
                    /\ ib[j].entry \notin PendingQueued(p) =>
                          /\ j \in M
                          /\ RankIn(M, j) > Cardinality(F) =>
                                ib2[j].entry = 0
                          /\ ~(RankIn(M, j) > Cardinality(F)) =>
                                /\ ib2[j].entry \in F
                                /\ ib2[j].entry = InOrder(F)[RankIn(M, j)]
           /\ EntriesOK(p, ib2)
<1> DEFINE owed == PendingQueued(p)
           M(j) == LackOf(ib, p, ib[j].x, ib[j].d)
           F(j) == FreeOf(ib, p, ib[j].x, ib[j].d)
           E(j) == IF ib[j].entry \in owed THEN ib[j].entry
                   ELSE IF RankIn(M(j), j) > Cardinality(F(j)) THEN 0
                   ELSE InOrder(F(j))[RankIn(M(j), j)]
           ib2 == Rebased(ib, p)
<1>1. /\ DOMAIN ib = 1..Len(ib) /\ Len(ib) \in Nat
      /\ \A j \in 1..Len(ib) : ib[j] \in BoxItems
  OBVIOUS
<1>2. ASSUME NEW j \in 1..Len(ib)
      PROVE  ib2[j] = [ib[j] EXCEPT !.entry = E(j)]
  <2>1. \A m \in 1..j : m \in DOMAIN ib BY <1>1
  <2>2. {m \in 1..j : /\ ib[m].x = ib[j].x /\ ib[m].d = ib[j].d
                      /\ ib[m].entry \notin PendingQueued(p)}
         = {m \in 1..j : m \in M(j)}
    BY <2>1 DEF LackOf
  <2>3. F(j) = {e \in PendingQueued(p) :
                  /\ p[e].x = ib[j].x /\ p[e].d = ib[j].d
                  /\ \A l \in DOMAIN ib : ib[l].entry # e}
    BY DEF FreeOf
  <2> QED BY <1>1, <2>2, <2>3 DEF Rebased, RankIn
<1>3. owed \in SUBSET Nat /\ IsFiniteSet(owed) /\ 0 \notin owed
  BY PendingIs
<1>4. ASSUME NEW j \in 1..Len(ib)
      PROVE  /\ F(j) \in SUBSET owed /\ F(j) \in SUBSET Nat
             /\ Cardinality(F(j)) \in Nat
             /\ InOrder(F(j)) \in [1..Cardinality(F(j)) -> F(j)]
             /\ \A a, b \in 1..Cardinality(F(j)) :
                   InOrder(F(j))[a] = InOrder(F(j))[b] => a = b
             /\ M(j) \in SUBSET (1..Len(ib))
             /\ Cardinality(M(j)) \in Nat
             /\ \A l \in M(j) : RankIn(M(j), l) \in 1..Cardinality(M(j))
             /\ \A k, l \in M(j) :
                   RankIn(M(j), k) = RankIn(M(j), l) => k = l
             /\ ib[j].entry \notin owed => j \in M(j)
  <2>1. F(j) \in SUBSET owed BY DEF FreeOf
  <2>2. F(j) \in SUBSET Nat /\ IsFiniteSet(F(j))
    BY <1>3, <2>1, FS_Subset
  <2>3. M(j) \in SUBSET (1..Len(ib)) BY <1>1 DEF LackOf
  <2>4. ib[j].entry \notin owed => j \in M(j) BY <1>1 DEF LackOf
  <2> HIDE DEF F, M
  <2>5. /\ Cardinality(F(j)) \in Nat
        /\ InOrder(F(j)) \in [1..Cardinality(F(j)) -> F(j)]
        /\ \A a, b \in 1..Cardinality(F(j)) :
              InOrder(F(j))[a] = InOrder(F(j))[b] => a = b
    BY <2>2, InOrderLists
  <2>6. /\ Cardinality(M(j)) \in Nat
        /\ \A l \in M(j) : RankIn(M(j), l) \in 1..Cardinality(M(j))
        /\ \A k, l \in M(j) : RankIn(M(j), k) = RankIn(M(j), l) => k = l
    BY <1>1, <2>3, RankIs
  <2> QED BY <2>1, <2>2, <2>3, <2>4, <2>5, <2>6
<1>5. ASSUME NEW j \in 1..Len(ib), ib[j].entry \notin owed,
             ~(RankIn(M(j), j) > Cardinality(F(j)))
      PROVE  /\ E(j) \in F(j) /\ E(j) = InOrder(F(j))[RankIn(M(j), j)]
             /\ RankIn(M(j), j) \in 1..Cardinality(F(j))
  <2> HIDE DEF M, F
  <2>1. RankIn(M(j), j) \in Nat \ {0} BY <1>4, <1>5
  <2>2. RankIn(M(j), j) \in 1..Cardinality(F(j)) BY <1>4, <1>5, <2>1
  <2>3. InOrder(F(j))[RankIn(M(j), j)] \in F(j) BY <1>4, <2>2
  <2> QED BY <1>5, <2>2, <2>3
<1>6. ASSUME NEW j \in 1..Len(ib)
      PROVE  E(j) \in Nat /\ (E(j) # 0 => E(j) \in owed)
  <2>1. CASE ib[j].entry \in owed BY <1>3, <2>1
  <2>2. CASE ib[j].entry \notin owed
    <3>1. CASE RankIn(M(j), j) > Cardinality(F(j)) BY <2>2, <3>1
    <3>2. CASE ~(RankIn(M(j), j) > Cardinality(F(j)))
      <4>1. E(j) \in F(j) BY <1>5, <2>2, <3>2
      <4> HIDE DEF E, F
      <4> QED BY <1>3, <1>4, <4>1
    <3> QED BY <3>1, <3>2
  <2> QED BY <2>1, <2>2
<1>7. ASSUME NEW j \in 1..Len(ib)
      PROVE  ib2[j] \in BoxItems /\ SameInput(ib[j], ib2[j])
             /\ ib2[j].entry = E(j)
  <2> DEFINE b == [ib[j] EXCEPT !.entry = E(j)]
  <2> HIDE DEF E, ib2
  <2>1. b \in BoxItems /\ SameInput(ib[j], b) /\ b.entry = E(j)
    BY <1>1, <1>6, EntryChanged
  <2> QED BY <1>2, <2>1
<1>8. ib2 \in Seq(BoxItems) /\ Len(ib2) = Len(ib) /\ DOMAIN ib2 = 1..Len(ib)
  <2>1. ib2 = [j \in 1..Len(ib) |-> ib2[j]] BY <1>1 DEF Rebased
  <2> HIDE DEF ib2
  <2>2. ib2 \in [1..Len(ib) -> BoxItems] BY <1>7, <2>1
  <2> QED BY <1>1, <2>2, SeqOf
<1>9. ASSUME NEW j \in 1..Len(ib), ib[j].entry \notin owed, E(j) # 0
      PROVE  /\ E(j) \in F(j) /\ E(j) = InOrder(F(j))[RankIn(M(j), j)]
             /\ RankIn(M(j), j) \in 1..Cardinality(F(j))
             /\ p[E(j)].x = ib[j].x /\ p[E(j)].d = ib[j].d
             /\ \A m \in 1..Len(ib) : ib[m].entry # E(j)
  <2>1. ~(RankIn(M(j), j) > Cardinality(F(j))) BY <1>9
  <2>2. /\ E(j) \in F(j) /\ E(j) = InOrder(F(j))[RankIn(M(j), j)]
        /\ RankIn(M(j), j) \in 1..Cardinality(F(j))
    BY <1>5, <1>9, <2>1
  <2> HIDE DEF E, M
  <2> QED BY <1>1, <2>2 DEF FreeOf
<1>10. ASSUME NEW j \in 1..Len(ib), NEW m \in 1..Len(ib), E(j) = E(m),
              E(j) # 0
       PROVE  j = m
  <2>1. CASE ib[j].entry \in owed /\ ib[m].entry \in owed
    <3>1. ib[j].entry = ib[m].entry BY <1>10, <2>1
    <3> QED BY <1>1, <2>1, <3>1 DEF Claims
  <2>2. CASE ib[j].entry \in owed /\ ib[m].entry \notin owed
    <3>1. E(j) = ib[j].entry BY <2>2
    <3> HIDE DEF E
    <3> QED BY <1>9, <1>10, <2>2, <3>1
  <2>3. CASE ib[j].entry \notin owed /\ ib[m].entry \in owed
    <3>1. E(m) = ib[m].entry BY <2>3
    <3> HIDE DEF E
    <3> QED BY <1>9, <1>10, <2>3, <3>1
  <2>4. CASE ib[j].entry \notin owed /\ ib[m].entry \notin owed
    <3> HIDE DEF E
    <3>1. /\ E(j) = InOrder(F(j))[RankIn(M(j), j)]
          /\ RankIn(M(j), j) \in 1..Cardinality(F(j))
          /\ p[E(j)].x = ib[j].x /\ p[E(j)].d = ib[j].d
      BY <1>9, <1>10, <2>4
    <3>2. /\ E(m) = InOrder(F(m))[RankIn(M(m), m)]
          /\ RankIn(M(m), m) \in 1..Cardinality(F(m))
          /\ p[E(m)].x = ib[m].x /\ p[E(m)].d = ib[m].d
      BY <1>9, <1>10, <2>4
    <3>3. ib[m].x = ib[j].x /\ ib[m].d = ib[j].d BY <1>10, <3>1, <3>2
    <3>4. F(m) = F(j) /\ M(m) = M(j) BY <3>3
    <3> HIDE DEF F, M
    <3>5. RankIn(M(j), j) = RankIn(M(j), m)
      BY <1>4, <1>10, <3>1, <3>2, <3>4
    <3>6. j \in M(j) /\ m \in M(j) BY <1>4, <2>4, <3>4
    <3> QED BY <1>4, <3>5, <3>6
  <2> QED BY <2>1, <2>2, <2>3, <2>4
<1>11. ASSUME NEW j \in 1..Len(ib), E(j) # 0
       PROVE  p[E(j)].x = ib[j].x /\ p[E(j)].d = ib[j].d
  <2>1. CASE ib[j].entry \in owed
    <3>1. E(j) = ib[j].entry BY <2>1
    <3> QED BY <1>1, <2>1, <3>1 DEF Claims
  <2>2. CASE ib[j].entry \notin owed BY <1>9, <1>11, <2>2
  <2> QED BY <2>1, <2>2
<1>12. EntriesOK(p, ib2)
  <2> HIDE DEF E, ib2
  <2> SUFFICES ASSUME NEW j \in 1..Len(ib), ib2[j].entry # 0
               PROVE  /\ ib2[j].entry \in PendingQueued(p)
                      /\ p[ib2[j].entry].x = ib2[j].x
                      /\ p[ib2[j].entry].d = ib2[j].d
                      /\ \A m \in 1..Len(ib) : m # j =>
                            ib2[m].entry # ib2[j].entry
    BY <1>8 DEF EntriesOK
  <2>1. ib2[j].entry = E(j) /\ ib2[j].x = ib[j].x /\ ib2[j].d = ib[j].d
    BY <1>7 DEF SameInput
  <2>2. E(j) \in owed BY <1>6, <2>1
  <2>3. p[E(j)].x = ib[j].x /\ p[E(j)].d = ib[j].d BY <1>11, <2>1
  <2>4. ASSUME NEW m \in 1..Len(ib), m # j PROVE ib2[m].entry # ib2[j].entry
    <3>1. ib2[m].entry = E(m) BY <1>7
    <3> QED BY <1>10, <2>1, <2>4, <3>1
  <2> QED BY <2>1, <2>2, <2>3, <2>4
<1>13. ASSUME NEW j \in 1..Len(ib)
       PROVE  /\ SameInput(ib[j], ib2[j])
              /\ ib[j].entry \in PendingQueued(p) => ib2[j].entry = ib[j].entry
              /\ ib[j].entry \notin PendingQueued(p) =>
                    /\ j \in M(j)
                    /\ RankIn(M(j), j) > Cardinality(F(j)) => ib2[j].entry = 0
                    /\ ~(RankIn(M(j), j) > Cardinality(F(j))) =>
                          /\ ib2[j].entry \in F(j)
                          /\ ib2[j].entry = InOrder(F(j))[RankIn(M(j), j)]
  <2> HIDE DEF ib2, M, F
  <2>1. SameInput(ib[j], ib2[j]) /\ ib2[j].entry = E(j) BY <1>7
  <2>2. ib[j].entry \in owed => E(j) = ib[j].entry OBVIOUS
  <2>3. ib[j].entry \notin owed =>
           /\ RankIn(M(j), j) > Cardinality(F(j)) => E(j) = 0
           /\ ~(RankIn(M(j), j) > Cardinality(F(j))) =>
                 E(j) \in F(j) /\ E(j) = InOrder(F(j))[RankIn(M(j), j)]
    BY <1>5
  <2> QED BY <1>4, <2>1, <2>2, <2>3
<1> QED BY <1>8, <1>12, <1>13

-----------------------------------------------------------------------------
(* Counting.                                                               *)

\* A finite set has no more members than one it maps into, each to another.
LEMMA NoMore ==
    ASSUME NEW S, NEW T, IsFiniteSet(T), NEW f \in [S -> T],
           \A a, b \in S : f[a] = f[b] => a = b
    PROVE  /\ IsFiniteSet(S) /\ Cardinality(S) <= Cardinality(T)
           /\ Cardinality(S) \in Nat /\ Cardinality(T) \in Nat
<1>1. f \in Injection(S, T) BY Fun_IsInj
<1>2. IsFiniteSet(S) /\ Cardinality(S) <= Cardinality(T)
  BY <1>1, FS_Injection
<1> QED BY <1>2, FS_CardinalityType

\* A set has no more members than a set it is part of.
LEMMA PartOf ==
    ASSUME NEW T, IsFiniteSet(T), NEW S \in SUBSET T
    PROVE  /\ IsFiniteSet(S) /\ Cardinality(S) <= Cardinality(T)
           /\ Cardinality(S) \in Nat /\ Cardinality(T) \in Nat
  BY FS_Subset, FS_CardinalityType

\* A set has no more members than two that cover it have together.
LEMMA Covered ==
    ASSUME NEW S, NEW T, NEW U, IsFiniteSet(T), IsFiniteSet(U),
           S \subseteq T \cup U
    PROVE  /\ IsFiniteSet(S) /\ Cardinality(S) \in Nat
           /\ Cardinality(T) \in Nat /\ Cardinality(U) \in Nat
           /\ Cardinality(S) <= Cardinality(T) + Cardinality(U)
<1>1. /\ IsFiniteSet(T \cup U)
      /\ Cardinality(T \cup U)
           = Cardinality(T) + Cardinality(U) - Cardinality(T \cap U)
  BY FS_Union
<1>2. IsFiniteSet(T \cap U) BY FS_Subset
<1>3. /\ Cardinality(T) \in Nat /\ Cardinality(U) \in Nat
      /\ Cardinality(T \cap U) \in Nat /\ Cardinality(T \cup U) \in Nat
  BY <1>1, <1>2, FS_CardinalityType
<1>4. IsFiniteSet(S) /\ Cardinality(S) <= Cardinality(T \cup U)
      /\ Cardinality(S) \in Nat
  BY <1>1, PartOf
<1> QED BY <1>1, <1>3, <1>4

\* Two sets apart within a third.
LEMMA Apart ==
    ASSUME NEW S, NEW T, NEW U, IsFiniteSet(U), S \cup T \subseteq U,
           S \cap T = {}
    PROVE  /\ Cardinality(S) \in Nat /\ Cardinality(T) \in Nat
           /\ Cardinality(U) \in Nat
           /\ Cardinality(S) + Cardinality(T) <= Cardinality(U)
<1>1. IsFiniteSet(S) /\ IsFiniteSet(T) /\ IsFiniteSet(S \cup T)
  BY FS_Subset
<1>2. Cardinality(S \cup T)
        = Cardinality(S) + Cardinality(T) - Cardinality(S \cap T)
  BY <1>1, FS_Union
<1>3. Cardinality(S \cap T) = 0 BY FS_EmptySet
<1>4. /\ Cardinality(S) \in Nat /\ Cardinality(T) \in Nat
      /\ Cardinality(U) \in Nat /\ Cardinality(S \cup T) \in Nat
  BY <1>1, FS_CardinalityType
<1>5. Cardinality(S \cup T) <= Cardinality(U) BY PartOf
<1> QED BY <1>2, <1>3, <1>4, <1>5

\* The items of a content among the first n entries of a path.
ItemsAt(p, n, x) == {e \in 1..n : p[e].k = "item" /\ p[e].x = x}

\* What the first n entries owe of a content, deliveries or not.
PendAt(p, n, x, d) ==
    {e \in 1..n : /\ p[e].k = "queued" /\ p[e].x = x /\ p[e].d = d
                  /\ \A j \in (e + 1)..n : p[j].k # "end" /\ p[j].from # e}

\* The inputs of an inbox that have no entry, and all.
LackingOf(ib, x, d) ==
    {j \in DOMAIN ib : ib[j].entry = 0 /\ ib[j].x = x /\ ib[j].d = d}

InBox(ib, x, d) == {j \in DOMAIN ib : ib[j].x = x /\ ib[j].d = d}

\* What the path and the inbox owe between them.
Owing(p, ib, x, d) ==
    Cardinality(PendAt(p, Len(p), x, d)) + Cardinality(LackingOf(ib, x, d))

\* The items and the entries owed at a place of the path are finitely many.
LEMMA PathCounts ==
    ASSUME NEW n \in Nat, NEW p, NEW x, NEW d
    PROVE  /\ IsFiniteSet(ItemsAt(p, n, x)) /\ IsFiniteSet(PendAt(p, n, x, d))
           /\ Cardinality(ItemsAt(p, n, x)) \in Nat
           /\ Cardinality(PendAt(p, n, x, d)) \in Nat
<1>1. IsFiniteSet(1..n) BY FS_Interval
<1>2. ItemsAt(p, n, x) \in SUBSET (1..n) /\ PendAt(p, n, x, d) \in SUBSET (1..n)
  BY DEF ItemsAt, PendAt
<1> QED BY <1>1, <1>2, PartOf

\* The inputs of an inbox, and those of a content, are finitely many.
LEMMA BoxCounts ==
    ASSUME NEW ib \in Seq(BoxItems), NEW x, NEW d
    PROVE  /\ IsFiniteSet(LackingOf(ib, x, d)) /\ IsFiniteSet(InBox(ib, x, d))
           /\ Cardinality(LackingOf(ib, x, d)) \in Nat
           /\ Cardinality(InBox(ib, x, d)) \in Nat
           /\ IsFiniteSet(DOMAIN ib) /\ DOMAIN ib = 1..Len(ib)
           /\ Len(ib) \in Nat
<1>1. DOMAIN ib = 1..Len(ib) /\ Len(ib) \in Nat OBVIOUS
<1>2. IsFiniteSet(DOMAIN ib) BY <1>1, FS_Interval
<1>3. LackingOf(ib, x, d) \in SUBSET DOMAIN ib /\ InBox(ib, x, d) \in SUBSET DOMAIN ib
  BY DEF LackingOf, InBox
<1> QED BY <1>1, <1>2, <1>3, PartOf

\* What is owed of a content is a number, and so are its two parts.
LEMMA OwingIs ==
    ASSUME NEW p \in Seq(Entries), NEW ib \in Seq(BoxItems), NEW x, NEW d
    PROVE  /\ Owing(p, ib, x, d) \in Nat
           /\ Cardinality(PendAt(p, Len(p), x, d)) <= Owing(p, ib, x, d)
           /\ Owing(p, ib, x, d) = Cardinality(PendAt(p, Len(p), x, d))
                                   + Cardinality(LackingOf(ib, x, d))
<1>1. Cardinality(PendAt(p, Len(p), x, d)) \in Nat BY PathCounts
<1>2. Cardinality(LackingOf(ib, x, d)) \in Nat BY BoxCounts
<1> QED BY <1>1, <1>2 DEF Owing

\* What is owed at the end of a path.
LEMMA PendAtEnd ==
    ASSUME NEW p \in Seq(Entries), NEW x, NEW d
    PROVE  PendAt(p, Len(p), x, d)
             = {e \in PendingQueued(p) : p[e].x = x /\ p[e].d = d}
<1>1. DOMAIN p = 1..Len(p) OBVIOUS
<1> QED BY <1>1 DEF PendAt, PendingQueued

\* Paths alike up to n hold the same there.
LEMMA SameUpTo ==
    ASSUME NEW p, NEW q, NEW n \in Nat, \A e \in 1..n : q[e] = p[e],
           NEW x, NEW d, NEW m \in 0..n
    PROVE  /\ ItemsAt(q, m, x) = ItemsAt(p, m, x)
           /\ PendAt(q, m, x, d) = PendAt(p, m, x, d)
<1>1. \A e \in 1..m : e \in 1..n OBVIOUS
<1>2. ItemsAt(q, m, x) = ItemsAt(p, m, x) BY <1>1 DEF ItemsAt
<1>3. \A e \in 1..m : \A j \in (e + 1)..m : j \in 1..n OBVIOUS
<1>4. PendAt(q, m, x, d) = PendAt(p, m, x, d) BY <1>1, <1>3 DEF PendAt
<1> QED BY <1>2, <1>4

\* Entries that neither end a run nor drain anything only add to what is
\* owed.
LEMMA PendGrows ==
    ASSUME NEW q, NEW n \in Nat, NEW m \in Nat, n <= m,
           \A e \in (n + 1)..m : q[e].k # "end" /\ q[e].from = 0,
           NEW x, NEW d
    PROVE  PendAt(q, n, x, d) \subseteq PendAt(q, m, x, d)
<1> SUFFICES ASSUME NEW e \in PendAt(q, n, x, d)
             PROVE  e \in PendAt(q, m, x, d)
  OBVIOUS
<1>1. /\ e \in 1..n /\ q[e].k = "queued" /\ q[e].x = x /\ q[e].d = d
      /\ \A j \in (e + 1)..n : q[j].k # "end" /\ q[j].from # e
  BY DEF PendAt
<1>2. e \in 1..m /\ e # 0 BY <1>1
<1>3. ASSUME NEW j \in (e + 1)..m PROVE q[j].k # "end" /\ q[j].from # e
  <2>1. j \in (e + 1)..n \/ j \in (n + 1)..m BY <1>1
  <2> QED BY <1>1, <1>2, <2>1
<1> QED BY <1>1, <1>2, <1>3 DEF PendAt

-----------------------------------------------------------------------------
(* No input twice.  A rewind may go back to any entry, and keeps what the  *)
(* agent holds: so what the path holds up to any m, with what it owed at   *)
(* any later point, or owes now, must not exceed what was submitted.       *)

\* Whether an input is a delivery.
AsDelivery == TRUE
AsQueued == FALSE

\* What is owed at a point of the path, c being what is owed now.
Level(p, c, n, x, d) ==
    IF n = Len(p) THEN c ELSE Cardinality(PendAt(p, n, x, d))

Fits(p, x, cT, cF, s) ==
    \A m, n1, n2 \in 0..Len(p) : m <= n1 /\ m <= n2 =>
       Cardinality(ItemsAt(p, m, x)) + Level(p, cT, n1, x, AsDelivery)
          + Level(p, cF, n2, x, AsQueued) <= s

\* What a place of the path owes is a number.
LEMMA LevelIs ==
    ASSUME NEW p \in Seq(Entries), NEW c \in Nat, NEW n \in 0..Len(p), NEW x,
           NEW d
    PROVE  Level(p, c, n, x, d) \in Nat
<1>1. n \in Nat OBVIOUS
<1>2. Cardinality(PendAt(p, n, x, d)) \in Nat BY <1>1, PathCounts
<1> QED BY <1>2 DEF Level

\* More may be owed of a content when more was submitted.
LEMMA FitsMore ==
    ASSUME NEW p \in Seq(Entries), NEW x, NEW cT \in Nat, NEW cF \in Nat,
           NEW s \in Int, Fits(p, x, cT, cF, s),
           NEW cT2 \in Nat, NEW cF2 \in Nat, NEW s2 \in Int,
           NEW a \in Nat, NEW b \in Nat,
           cT2 <= cT + a, cF2 <= cF + b, s + a + b <= s2
    PROVE  Fits(p, x, cT2, cF2, s2)
<1> SUFFICES ASSUME NEW m \in 0..Len(p), NEW n1 \in 0..Len(p),
                    NEW n2 \in 0..Len(p), m <= n1, m <= n2
             PROVE  Cardinality(ItemsAt(p, m, x)) + Level(p, cT2, n1, x, AsDelivery)
                      + Level(p, cF2, n2, x, AsQueued) <= s2
  BY DEF Fits
<1>1. Cardinality(ItemsAt(p, m, x)) \in Nat
  <2>1. m \in Nat OBVIOUS
  <2> QED BY <2>1, PathCounts
<1>2. /\ Level(p, cT, n1, x, AsDelivery) \in Nat /\ Level(p, cF, n2, x, AsQueued) \in Nat
      /\ Level(p, cT2, n1, x, AsDelivery) \in Nat
      /\ Level(p, cF2, n2, x, AsQueued) \in Nat
  BY LevelIs
<1>3. Level(p, cT2, n1, x, AsDelivery) <= Level(p, cT, n1, x, AsDelivery) + a
  <2>1. CASE n1 = Len(p) BY <2>1 DEF Level
  <2>2. CASE n1 # Len(p)
    <3>1. Level(p, cT2, n1, x, AsDelivery) = Level(p, cT, n1, x, AsDelivery)
      BY <2>2 DEF Level
    <3> QED BY <1>2, <3>1
  <2> QED BY <2>1, <2>2
<1>4. Level(p, cF2, n2, x, AsQueued) <= Level(p, cF, n2, x, AsQueued) + b
  <2>1. CASE n2 = Len(p) BY <2>1 DEF Level
  <2>2. CASE n2 # Len(p)
    <3>1. Level(p, cF2, n2, x, AsQueued) = Level(p, cF, n2, x, AsQueued)
      BY <2>2 DEF Level
    <3> QED BY <1>2, <3>1
  <2> QED BY <2>1, <2>2
<1>5. Cardinality(ItemsAt(p, m, x)) + Level(p, cT, n1, x, AsDelivery)
        + Level(p, cF, n2, x, AsQueued) <= s
  BY DEF Fits
<1> DEFINE i  == Cardinality(ItemsAt(p, m, x))
           l1 == Level(p, cT, n1, x, AsDelivery)
           l2 == Level(p, cF, n2, x, AsQueued)
           k1 == Level(p, cT2, n1, x, AsDelivery)
           k2 == Level(p, cF2, n2, x, AsQueued)
<1>6. /\ i \in Nat /\ l1 \in Nat /\ l2 \in Nat /\ k1 \in Nat /\ k2 \in Nat
      /\ k1 <= l1 + a /\ k2 <= l2 + b /\ i + l1 + l2 <= s
  BY <1>1, <1>2, <1>3, <1>4, <1>5
<1>7. SUFFICES i + k1 + k2 <= s2 OBVIOUS
<1> HIDE DEF i, l1, l2, k1, k2
<1> QED BY <1>6

\* A path that goes on from another's first k entries, with no item, and
\* never owes more than the other did at some point from there.
LEMMA FitsOn ==
    ASSUME NEW p \in Seq(Entries), NEW q \in Seq(Entries), NEW x,
           NEW cT \in Nat, NEW cF \in Nat, NEW s \in Int,
           Fits(p, x, cT, cF, s),
           NEW cT2 \in Nat, NEW cF2 \in Nat,
           NEW k \in 0..Len(p), k <= Len(q),
           \A e \in 1..k : q[e] = p[e],
           \A e \in (k + 1)..Len(q) : q[e].k # "item",
           NEW aT \in k..Len(p), NEW aF \in k..Len(p),
           \A n \in k..Len(q) :
              /\ Level(q, cT2, n, x, AsDelivery) <= Level(p, cT, aT, x, AsDelivery)
              /\ Level(q, cF2, n, x, AsQueued) <= Level(p, cF, aF, x, AsQueued)
    PROVE  Fits(q, x, cT2, cF2, s)
<1>1. Len(p) \in Nat /\ Len(q) \in Nat /\ k \in Nat OBVIOUS
<1> SUFFICES ASSUME NEW m \in 0..Len(q), NEW n1 \in 0..Len(q),
                    NEW n2 \in 0..Len(q), m <= n1, m <= n2
             PROVE  Cardinality(ItemsAt(q, m, x)) + Level(q, cT2, n1, x, AsDelivery)
                      + Level(q, cF2, n2, x, AsQueued) <= s
  BY DEF Fits
<1> DEFINE m2 == IF m < k THEN m ELSE k
<1>2. m2 \in 0..k /\ m2 \in 0..Len(p) /\ m2 <= m BY <1>1
<1>a. ItemsAt(q, m, x) = ItemsAt(q, m2, x)
  <2>1. CASE m < k BY <2>1
  <2>2. CASE ~(m < k)
    <3>1. \A e \in 1..m : e \in 1..k \/ e \in (k + 1)..Len(q) BY <1>1
    <3>2. \A e \in 1..k : e \in 1..m BY <1>1, <2>2
    <3> QED BY <2>2, <3>1, <3>2 DEF ItemsAt
  <2> QED BY <2>1, <2>2
<1> HIDE DEF m2
<1>3. ItemsAt(q, m, x) = ItemsAt(p, m2, x)
  <2>1. \A e \in 1..k : q[e] = p[e] OBVIOUS
  <2>2. \A e \in 1..m2 : q[e] = p[e] BY <1>1, <1>2, <2>1
  <2>3. ItemsAt(q, m2, x) = ItemsAt(p, m2, x) BY <2>2 DEF ItemsAt
  <2> QED BY <1>a, <2>3
<1>4. ASSUME NEW n \in 0..(k - 1), NEW c, NEW c2, NEW d
      PROVE  Level(q, c2, n, x, d) = Level(p, c, n, x, d)
  <2>1. n \in 0..k /\ n # Len(p) /\ n # Len(q) BY <1>1
  <2>2. PendAt(q, n, x, d) = PendAt(p, n, x, d)
    <3>1. \A e \in 1..k : q[e] = p[e] OBVIOUS
    <3> QED BY ONLY <1>1, <2>1, <3>1, SameUpTo, SMTT(30)
  <2> QED BY <2>1, <2>2 DEF Level
<1>5. \E b \in 0..Len(p) :
         m2 <= b /\ Level(q, cT2, n1, x, AsDelivery) <= Level(p, cT, b, x, AsDelivery)
  <2>1. CASE n1 < k
    <3>1. n1 \in 0..(k - 1) /\ n1 \in 0..Len(p) /\ m2 <= n1
      BY <1>1, <1>2, <2>1
    <3>2. Level(q, cT2, n1, x, AsDelivery) = Level(p, cT, n1, x, AsDelivery)
      BY <1>4, <3>1
    <3>3. Level(p, cT, n1, x, AsDelivery) \in Nat BY <3>1, LevelIs
    <3> QED BY <3>1, <3>2, <3>3
  <2>2. CASE ~(n1 < k)
    <3>1. n1 \in k..Len(q) /\ aT \in 0..Len(p) /\ m2 <= aT
      BY <1>1, <1>2, <2>2
    <3> QED BY <3>1
  <2> QED BY <2>1, <2>2
<1>6. \E b \in 0..Len(p) :
         m2 <= b /\ Level(q, cF2, n2, x, AsQueued) <= Level(p, cF, b, x, AsQueued)
  <2>1. CASE n2 < k
    <3>1. n2 \in 0..(k - 1) /\ n2 \in 0..Len(p) /\ m2 <= n2
      BY <1>1, <1>2, <2>1
    <3>2. Level(q, cF2, n2, x, AsQueued) = Level(p, cF, n2, x, AsQueued)
      BY <1>4, <3>1
    <3>3. Level(p, cF, n2, x, AsQueued) \in Nat BY <3>1, LevelIs
    <3> QED BY <3>1, <3>2, <3>3
  <2>2. CASE ~(n2 < k)
    <3>1. n2 \in k..Len(q) /\ aF \in 0..Len(p) /\ m2 <= aF
      BY <1>1, <1>2, <2>2
    <3> QED BY <3>1
  <2> QED BY <2>1, <2>2
<1>7. PICK b1 \in 0..Len(p) :
         m2 <= b1 /\ Level(q, cT2, n1, x, AsDelivery) <= Level(p, cT, b1, x, AsDelivery)
  BY <1>5
<1>8. PICK b2 \in 0..Len(p) :
         m2 <= b2 /\ Level(q, cF2, n2, x, AsQueued) <= Level(p, cF, b2, x, AsQueued)
  BY <1>6
<1>9. Cardinality(ItemsAt(p, m2, x)) + Level(p, cT, b1, x, AsDelivery)
        + Level(p, cF, b2, x, AsQueued) <= s
  BY <1>2, <1>7, <1>8 DEF Fits
<1>10. /\ Level(q, cT2, n1, x, AsDelivery) \in Nat
       /\ Level(q, cF2, n2, x, AsQueued) \in Nat
       /\ Level(p, cT, b1, x, AsDelivery) \in Nat
       /\ Level(p, cF, b2, x, AsQueued) \in Nat
  BY LevelIs
<1>11. Cardinality(ItemsAt(p, m2, x)) \in Nat
  <2>1. m2 \in Nat BY <1>1, <1>2
  <2> QED BY ONLY <2>1, PathCounts
<1> DEFINE i  == Cardinality(ItemsAt(p, m2, x))
           l1 == Level(p, cT, b1, x, AsDelivery)
           l2 == Level(p, cF, b2, x, AsQueued)
           k1 == Level(q, cT2, n1, x, AsDelivery)
           k2 == Level(q, cF2, n2, x, AsQueued)
<1>12. /\ i \in Nat /\ l1 \in Nat /\ l2 \in Nat /\ k1 \in Nat /\ k2 \in Nat
       /\ k1 <= l1 /\ k2 <= l2 /\ i + l1 + l2 <= s
  BY <1>7, <1>8, <1>9, <1>10, <1>11
<1>13. SUFFICES i + k1 + k2 <= s BY <1>3
<1> HIDE DEF i, l1, l2, k1, k2
<1> QED BY <1>12

\* What is owed of each content fits.
FitsAll(p, ib, x, s) ==
    Fits(p, x, Owing(p, ib, x, AsDelivery), Owing(p, ib, x, AsQueued), s)

\* A path that only grows, with no item, and never owes more.
LEMMA FitsGrown ==
    ASSUME NEW p \in Seq(Entries), NEW q \in Seq(Entries),
           NEW ib \in Seq(BoxItems), NEW ib2 \in Seq(BoxItems),
           NEW x, NEW s \in Int, FitsAll(p, ib, x, s),
           Len(p) <= Len(q), \A e \in 1..Len(p) : q[e] = p[e],
           \A e \in (Len(p) + 1)..Len(q) : q[e].k # "item",
           \A d \in {AsDelivery, AsQueued} : \A n \in Len(p)..Len(q) :
              Level(q, Owing(q, ib2, x, d), n, x, d) <= Owing(p, ib, x, d)
    PROVE  FitsAll(q, ib2, x, s)
<1>1. Len(p) \in Nat /\ Len(p) \in 0..Len(p) /\ Len(p) \in Len(p)..Len(p)
  OBVIOUS
<1>2. \A d \in {AsDelivery, AsQueued} : /\ Owing(p, ib, x, d) \in Nat
                         /\ Owing(q, ib2, x, d) \in Nat
  BY OwingIs
<1>3. \A d \in {AsDelivery, AsQueued} :
         Level(p, Owing(p, ib, x, d), Len(p), x, d) = Owing(p, ib, x, d)
  BY DEF Level
<1> DEFINE cT == Owing(p, ib, x, AsDelivery)
           cF == Owing(p, ib, x, AsQueued)
           cT2 == Owing(q, ib2, x, AsDelivery)
           cF2 == Owing(q, ib2, x, AsQueued)
           N == Len(p)
<1>4. /\ cT \in Nat /\ cF \in Nat /\ cT2 \in Nat /\ cF2 \in Nat
      /\ Fits(p, x, cT, cF, s)
      /\ \A n \in N..Len(q) :
            /\ Level(q, cT2, n, x, AsDelivery) <= Level(p, cT, N, x, AsDelivery)
            /\ Level(q, cF2, n, x, AsQueued) <= Level(p, cF, N, x, AsQueued)
  BY <1>2, <1>3 DEF FitsAll
<1>5. /\ N \in 0..Len(p) /\ N \in N..Len(p) /\ N <= Len(q)
      /\ (\A e \in 1..N : q[e] = p[e])
      /\ (\A e \in (N + 1)..Len(q) : q[e].k # "item")
  BY <1>1
<1> HIDE DEF cT, cF, cT2, cF2, N
<1>6. Fits(q, x, cT2, cF2, s) BY <1>4, <1>5, FitsOn
<1> QED BY <1>6 DEF FitsAll, cT2, cF2

\* A requeue writes what was lacking.
LEMMA WritesOwing ==
    ASSUME NEW p \in Seq(Entries), NEW ib \in Seq(BoxItems), NEW q, NEW ib2,
           Writes(p, ib, q, ib2), NEW x, NEW d
    PROVE  Owing(q, ib2, x, d) <= Owing(p, ib, x, d)
<1>1. /\ q \in Seq(Entries) /\ Len(p) <= Len(q)
      /\ \A e \in 1..Len(p) : q[e] = p[e]
      /\ ib2 \in Seq(BoxItems) /\ Len(ib2) = Len(ib)
      /\ Len(p) \in Nat /\ Len(q) \in Nat
      /\ DOMAIN ib = 1..Len(ib) /\ DOMAIN ib2 = 1..Len(ib)
  BY DEF Writes
<1> DEFINE P == PendAt(p, Len(p), x, d)
           Q == PendAt(q, Len(q), x, d)
           L == LackingOf(ib, x, d)
           L2 == LackingOf(ib2, x, d)
           W == {e \in (Len(p) + 1)..Len(q) : q[e].x = x /\ q[e].d = d}
           J == {j \in L : ib2[j].entry # 0}
<1>2. Q \subseteq P \cup W
  <2> SUFFICES ASSUME NEW e \in Q PROVE e \in P \cup W
    OBVIOUS
  <2>1. /\ e \in 1..Len(q) /\ q[e].k = "queued" /\ q[e].x = x /\ q[e].d = d
        /\ \A j \in (e + 1)..Len(q) : q[j].k # "end" /\ q[j].from # e
    BY DEF PendAt
  <2>2. CASE e \in 1..Len(p)
    <3>1. \A j \in (e + 1)..Len(p) : p[j].k # "end" /\ p[j].from # e
      <4> TAKE j \in (e + 1)..Len(p)
      <4>1. j \in (e + 1)..Len(q) /\ j \in 1..Len(p) BY <1>1, <2>2
      <4> QED BY <1>1, <2>1, <4>1
    <3>2. p[e] = q[e] BY <1>1, <2>2
    <3> QED BY <2>1, <2>2, <3>1, <3>2 DEF PendAt
  <2>3. CASE e \notin 1..Len(p) BY <1>1, <2>1, <2>3
  <2> QED BY <2>2, <2>3
<1>3. ASSUME NEW j \in L2 PROVE j \in L /\ j \notin J
  <2>1. j \in 1..Len(ib) /\ ib2[j].entry = 0 /\ ib2[j].x = x /\ ib2[j].d = d
    BY <1>1 DEF LackingOf
  <2>2. SameInput(ib[j], ib2[j]) /\ (ib[j].entry # 0 => ib2[j].entry = ib[j].entry)
    BY <2>1 DEF Writes
  <2> QED BY <1>1, <2>1, <2>2 DEF LackingOf, SameInput
<1>4. ASSUME NEW e \in W PROVE \E j \in J : ib2[j].entry = e
  <2>1. e \in (Len(p) + 1)..Len(q) /\ q[e].x = x /\ q[e].d = d OBVIOUS
  <2>2. PICK j \in 1..Len(ib) : /\ ib[j].entry = 0 /\ ib2[j].entry = e
                               /\ q[e] = Queued(ib[j])
    BY <2>1 DEF Writes
  <2>3. ib[j].x = x /\ ib[j].d = d BY <2>1, <2>2 DEF Queued
  <2>4. e # 0 BY <1>1, <2>1
  <2> QED BY <1>1, <2>2, <2>3, <2>4 DEF LackingOf
<1>5. IsFiniteSet(P) /\ IsFiniteSet(Q) BY <1>1, PathCounts
<1>6. IsFiniteSet(L) /\ IsFiniteSet(L2) /\ J \in SUBSET L
  BY <1>1, BoxCounts
<1>7. IsFiniteSet(J) BY <1>6, FS_Subset
<1>8. Cardinality(W) <= Cardinality(J) /\ IsFiniteSet(W)
  <2> HIDE DEF W, J
  <2> DEFINE f == [e \in W |-> CHOOSE j \in J : ib2[j].entry = e]
  <2>1. \A e \in W : f[e] \in J /\ ib2[f[e]].entry = e BY <1>4
  <2>2. f \in [W -> J] BY <2>1
  <2>3. \A a, b \in W : f[a] = f[b] => a = b BY <2>1
  <2> HIDE DEF f
  <2> QED BY <1>7, <2>2, <2>3, NoMore
<1>9. L2 \cup J \subseteq L /\ L2 \cap J = {} BY <1>3
<1> HIDE DEF P, Q, L, L2, W, J
<1>10. Cardinality(Q) <= Cardinality(P) + Cardinality(W)
       /\ Cardinality(P) \in Nat /\ Cardinality(W) \in Nat
       /\ Cardinality(Q) \in Nat
  BY <1>2, <1>5, <1>8, Covered
<1>11. Cardinality(L2) + Cardinality(J) <= Cardinality(L)
       /\ Cardinality(L2) \in Nat /\ Cardinality(J) \in Nat
       /\ Cardinality(L) \in Nat
  BY <1>6, <1>9, Apart
<1>12. Cardinality(Q) + Cardinality(L2) <= Cardinality(P) + Cardinality(L)
  BY <1>8, <1>10, <1>11
<1> QED BY <1>12 DEF Owing, P, Q, L, L2

\* What fits the submissions still does when inputs that lacked an entry are
\* written.
LEMMA WritesFits ==
    ASSUME NEW p \in Seq(Entries), NEW ib \in Seq(BoxItems), NEW q, NEW ib2,
           Writes(p, ib, q, ib2), NEW x, NEW s \in Int, FitsAll(p, ib, x, s)
    PROVE  FitsAll(q, ib2, x, s)
<1>1. /\ q \in Seq(Entries) /\ Len(p) <= Len(q)
      /\ \A e \in 1..Len(p) : q[e] = p[e]
      /\ ib2 \in Seq(BoxItems) /\ Len(p) \in Nat /\ Len(q) \in Nat
  BY DEF Writes
<1>2. ASSUME NEW e \in (Len(p) + 1)..Len(q)
      PROVE  q[e].k = "queued" /\ q[e].from = 0
  <2>1. \E j \in 1..Len(ib) : q[e] = Queued(ib[j]) BY DEF Writes
  <2> QED BY <2>1 DEF Queued
<1>3. ASSUME NEW d \in {AsDelivery, AsQueued}, NEW n \in Len(p)..Len(q)
      PROVE  Level(q, Owing(q, ib2, x, d), n, x, d) <= Owing(p, ib, x, d)
  <2>1. /\ Owing(q, ib2, x, d) <= Owing(p, ib, x, d)
        /\ Owing(q, ib2, x, d) \in Nat /\ Owing(p, ib, x, d) \in Nat
        /\ Cardinality(PendAt(q, Len(q), x, d)) <= Owing(q, ib2, x, d)
    BY <1>1, WritesOwing, OwingIs
  <2>2. Cardinality(PendAt(q, n, x, d)) <= Cardinality(PendAt(q, Len(q), x, d))
        /\ Cardinality(PendAt(q, n, x, d)) \in Nat
        /\ Cardinality(PendAt(q, Len(q), x, d)) \in Nat
    <3>1. n \in Nat /\ n <= Len(q) BY <1>1
    <3>2. \A e \in (n + 1)..Len(q) : q[e].k # "end" /\ q[e].from = 0
      <4> TAKE e \in (n + 1)..Len(q)
      <4>1. e \in (Len(p) + 1)..Len(q) BY <1>1
      <4> QED BY <1>2, <4>1
    <3>3. PendAt(q, n, x, d) \subseteq PendAt(q, Len(q), x, d)
      BY <1>1, <3>1, <3>2, PendGrows
    <3>4. IsFiniteSet(PendAt(q, Len(q), x, d)) BY <1>1, PathCounts
    <3> QED BY <3>3, <3>4, PartOf
  <2> QED BY <2>1, <2>2 DEF Level
<1>4. \A e \in (Len(p) + 1)..Len(q) : q[e].k # "item" BY <1>2
<1> QED BY <1>1, <1>3, <1>4, FitsGrown

\* A run starts.
LEMMA StartFits ==
    ASSUME NEW p \in Seq(Entries), NEW ib \in Seq(BoxItems), PathOK(p),
           NEW x, NEW s \in Int, FitsAll(p, ib, x, s)
    PROVE  FitsAll(Append(p, Mark("start")), ib, x, s)
<1> DEFINE q == Append(p, Mark("start"))
           N == Len(p)
<1>0. /\ Mark("start") \in Entries /\ Mark("start").k = "start"
      /\ Mark("start").from = 0
  BY MarkIs
<1>1. /\ q \in Seq(Entries) /\ Len(q) = N + 1 /\ N \in Nat
      /\ \A e \in 1..N : q[e] = p[e]
      /\ q[N + 1] = Mark("start")
  BY <1>0, AppendPath
<1> HIDE DEF q
<1>2. ASSUME NEW d
      PROVE  /\ PendAt(q, N, x, d) = PendAt(p, N, x, d)
             /\ PendAt(q, N + 1, x, d) = PendAt(p, N, x, d)
  <2>1. \A e \in 1..N : \A j \in (e + 1)..N : j \in 1..N BY <1>1
  <2>2. PendAt(q, N, x, d) = PendAt(p, N, x, d) BY <1>1, <2>1 DEF PendAt
  <2>3. PendAt(q, N, x, d) \subseteq PendAt(q, N + 1, x, d)
    <3>1. \A e \in (N + 1)..(N + 1) : q[e].k # "end" /\ q[e].from = 0
      BY <1>0, <1>1
    <3> QED BY <1>1, <3>1, PendGrows
  <2>4. PendAt(q, N + 1, x, d) \subseteq PendAt(q, N, x, d)
    <3> SUFFICES ASSUME NEW e \in PendAt(q, N + 1, x, d)
                 PROVE  e \in PendAt(q, N, x, d)
      OBVIOUS
    <3>1. /\ e \in 1..(N + 1) /\ q[e].k = "queued" /\ q[e].x = x /\ q[e].d = d
          /\ \A j \in (e + 1)..(N + 1) : q[j].k # "end" /\ q[j].from # e
      BY DEF PendAt
    <3>2. e \in 1..N BY <1>0, <1>1, <3>1
    <3>3. \A j \in (e + 1)..N : j \in (e + 1)..(N + 1) BY <1>1, <3>2
    <3> QED BY <3>1, <3>2, <3>3 DEF PendAt
  <2> QED BY <2>2, <2>3, <2>4
<1>3. ASSUME NEW d \in {AsDelivery, AsQueued}, NEW n \in N..Len(q)
      PROVE  Level(q, Owing(q, ib, x, d), n, x, d) <= Owing(p, ib, x, d)
  <2>1. Owing(q, ib, x, d) = Owing(p, ib, x, d) BY <1>1, <1>2 DEF Owing
  <2>2. /\ Owing(p, ib, x, d) \in Nat
        /\ Cardinality(PendAt(p, N, x, d)) <= Owing(p, ib, x, d)
    BY OwingIs
  <2>3. n = N \/ n = Len(q) BY <1>1
  <2> HIDE DEF N
  <2>4. CASE n = Len(q) BY <2>1, <2>2, <2>4 DEF Level
  <2>5. CASE n = N
    <3>1. n # Len(q) BY <1>1, <2>5
    <3> QED BY <1>2, <2>2, <2>5, <3>1 DEF Level
  <2> QED BY <2>3, <2>4, <2>5
<1>4. \A e \in (N + 1)..Len(q) : q[e].k # "item" BY <1>0, <1>1
<1>5. N <= Len(q) BY <1>1
<1>6. FitsAll(q, ib, x, s) BY <1>1, <1>3, <1>4, <1>5, FitsGrown
<1> QED BY <1>6 DEF q

\* The inputs of the inbox are owed.
LEMMA InBoxOwing ==
    ASSUME NEW p \in Seq(Entries), NEW ib \in Seq(BoxItems),
           EntriesOK(p, ib), NEW x, NEW d
    PROVE  Cardinality(InBox(ib, x, d)) <= Owing(p, ib, x, d)
<1> DEFINE B == InBox(ib, x, d)
           L == LackingOf(ib, x, d)
           P == PendAt(p, Len(p), x, d)
           K == {j \in B : ib[j].entry # 0}
<1>1. IsFiniteSet(B) /\ IsFiniteSet(L) BY BoxCounts
<1>2. IsFiniteSet(P) BY PathCounts
<1>3. B \subseteq K \cup L BY DEF InBox, LackingOf
<1>4. ASSUME NEW j \in K PROVE ib[j].entry \in P
  <2>1. j \in DOMAIN ib /\ ib[j].entry # 0 /\ ib[j].x = x /\ ib[j].d = d
    BY DEF InBox
  <2>2. /\ ib[j].entry \in PendingQueued(p) /\ p[ib[j].entry].x = x
        /\ p[ib[j].entry].d = d
    BY <2>1 DEF EntriesOK
  <2> QED BY <2>2, PendAtEnd
<1>5. \A a, b \in K : ib[a].entry = ib[b].entry => a = b
  BY DEF EntriesOK, InBox
<1> HIDE DEF K, P
<1>6. IsFiniteSet(K) /\ Cardinality(K) <= Cardinality(P)
      /\ Cardinality(K) \in Nat /\ Cardinality(P) \in Nat
  <2> DEFINE f == [j \in K |-> ib[j].entry]
  <2>1. f \in [K -> P] /\ \A a, b \in K : f[a] = f[b] => a = b
    BY <1>4, <1>5
  <2> HIDE DEF f
  <2> QED BY <1>2, <2>1, NoMore
<1> HIDE DEF B, L
<1>7. Cardinality(B) <= Cardinality(K) + Cardinality(L)
      /\ Cardinality(L) \in Nat /\ Cardinality(B) \in Nat
  BY <1>1, <1>3, <1>6, Covered
<1>8. Cardinality(B) <= Cardinality(P) + Cardinality(L) BY <1>6, <1>7
<1> QED BY <1>8 DEF Owing, B, P, L

\* A run ends: what the agent holds is to be written again.
LEMMA EndFits ==
    ASSUME NEW p \in Seq(Entries), NEW ib \in Seq(BoxItems), PathOK(p),
           EntriesOK(p, ib), NEW x, NEW s \in Int, FitsAll(p, ib, x, s)
    PROVE  FitsAll(Append(p, Mark("end")), EndInbox(ib), x, s)
<1> DEFINE q == Append(p, Mark("end"))
           N == Len(p)
           ib2 == EndInbox(ib)
           o == InOrder({j \in DOMAIN ib : ib[j].held})
<1>0. /\ Mark("end") \in Entries /\ Mark("end").k = "end"
      /\ Mark("end").from = 0
  BY MarkIs
<1>1. /\ q \in Seq(Entries) /\ Len(q) = N + 1 /\ N \in Nat
      /\ \A e \in 1..N : q[e] = p[e]
      /\ q[N + 1] = Mark("end")
  BY <1>0, AppendPath
<1>2. /\ ib2 \in Seq(BoxItems) /\ DOMAIN ib2 = 1..Len(ib2)
      /\ o \in [1..Len(ib2) -> 1..Len(ib)]
      /\ \A a, b \in 1..Len(ib2) : o[a] = o[b] => a = b
      /\ \A n \in 1..Len(ib2) : SameInput(ib[o[n]], ib2[n])
  BY EndInboxIs
<1> HIDE DEF q, ib2, o
<1>3. ASSUME NEW d PROVE PendAt(q, N + 1, x, d) = {}
  <2> SUFFICES ASSUME NEW e \in PendAt(q, N + 1, x, d) PROVE FALSE
    OBVIOUS
  <2>1. /\ e \in 1..(N + 1) /\ q[e].k = "queued"
        /\ \A j \in (e + 1)..(N + 1) : q[j].k # "end"
    BY DEF PendAt
  <2>2. e # N + 1 BY <1>0, <1>1, <2>1
  <2>3. N + 1 \in (e + 1)..(N + 1) BY <1>1, <2>1, <2>2
  <2> QED BY <1>0, <1>1, <2>1, <2>3
<1>4. ASSUME NEW d
      PROVE  Cardinality(LackingOf(ib2, x, d)) <= Cardinality(InBox(ib, x, d))
             /\ Cardinality(LackingOf(ib2, x, d)) \in Nat
             /\ Cardinality(InBox(ib, x, d)) \in Nat
  <2> DEFINE L == LackingOf(ib2, x, d)
             B == InBox(ib, x, d)
             f == [n \in L |-> o[n]]
  <2>1. ASSUME NEW n \in L PROVE n \in 1..Len(ib2) /\ o[n] \in B
    <3>1. n \in 1..Len(ib2) /\ ib2[n].x = x /\ ib2[n].d = d
      BY <1>2 DEF LackingOf
    <3>2. o[n] \in 1..Len(ib) /\ ib[o[n]].x = x /\ ib[o[n]].d = d
      BY <1>2, <3>1 DEF SameInput
    <3> QED BY <3>1, <3>2 DEF InBox
  <2> HIDE DEF L, B
  <2>2. f \in [L -> B] /\ \A a, b \in L : f[a] = f[b] => a = b
    BY <1>2, <2>1
  <2>3. IsFiniteSet(B) BY BoxCounts DEF B
  <2> HIDE DEF f
  <2> QED BY <2>2, <2>3, NoMore DEF L, B
<1>5. ASSUME NEW d \in {AsDelivery, AsQueued}, NEW n \in N..Len(q)
      PROVE  Level(q, Owing(q, ib2, x, d), n, x, d) <= Owing(p, ib, x, d)
  <2>1. /\ Owing(p, ib, x, d) \in Nat
        /\ Cardinality(PendAt(p, N, x, d)) <= Owing(p, ib, x, d)
    BY OwingIs
  <2>2. CASE n = N
    <3>1. n # Len(q) BY <1>1, <2>2
    <3>2. PendAt(q, N, x, d) = PendAt(p, N, x, d)
      <4>1. \A e \in 1..N : \A j \in (e + 1)..N : j \in 1..N BY <1>1
      <4> QED BY <1>1, <4>1 DEF PendAt
    <3> QED BY <2>1, <2>2, <3>1, <3>2 DEF Level
  <2>3. CASE n = Len(q)
    <3>1. Cardinality(PendAt(q, Len(q), x, d)) = 0
      BY <1>1, <1>3, FS_EmptySet
    <3>2. Owing(q, ib2, x, d) = Cardinality(LackingOf(ib2, x, d))
      BY <1>4, <3>1 DEF Owing
    <3>3. Cardinality(InBox(ib, x, d)) <= Owing(p, ib, x, d)
      BY InBoxOwing
    <3>4. Owing(q, ib2, x, d) <= Owing(p, ib, x, d)
      BY <1>4, <2>1, <3>2, <3>3
    <3> QED BY <2>3, <3>4 DEF Level
  <2> QED BY <1>1, <2>2, <2>3
<1>6. \A e \in (N + 1)..Len(q) : q[e].k # "item" BY <1>0, <1>1
<1>7. N <= Len(q) BY <1>1
<1>8. FitsAll(q, ib2, x, s) BY <1>1, <1>2, <1>5, <1>6, <1>7, FitsGrown
<1> QED BY <1>8 DEF q, ib2

\* What a closed path owes at any point after the end, it owed before.
LEMMA ClosedPendAt ==
    ASSUME NEW p \in Seq(Entries), NEW q \in Seq(Entries), NEW x, NEW d,
           Closes(p, q, Cardinality(PendingQueued(p))),
           NEW n \in (Len(p) + 1)..Len(q)
    PROVE  /\ Cardinality(PendAt(q, n, x, d))
                <= Cardinality(PendAt(p, Len(p), x, d))
           /\ Cardinality(PendAt(q, n, x, d)) \in Nat
           /\ Cardinality(PendAt(p, Len(p), x, d)) \in Nat
<1> DEFINE N == Cardinality(PendingQueued(p))
           o == InOrder(PendingQueued(p))
           P == PendAt(p, Len(p), x, d)
           Q == PendAt(q, n, x, d)
           f == [e \in Q |-> o[e - (Len(p) + 1)]]
<1>1. /\ N \in Nat /\ o \in [1..N -> PendingQueued(p)]
      /\ \A a, b \in 1..N : o[a] = o[b] => a = b
  BY PendingIs, InOrderLists
<1>2. /\ Len(p) \in Nat /\ Len(q) = Len(p) + 1 + N
      /\ q[Len(p) + 1] = Mark("end")
      /\ \A a \in 1..N : q[Len(p) + 1 + a] = p[o[a]]
  BY DEF Closes
<1>3. Mark("end").k = "end" BY MarkIs
<1> HIDE DEF o, N
<1>4. ASSUME NEW e \in Q
      PROVE  /\ e \in Nat /\ e - (Len(p) + 1) \in 1..N
             /\ o[e - (Len(p) + 1)] \in P
  <2>1. /\ e \in 1..n /\ q[e].k = "queued" /\ q[e].x = x /\ q[e].d = d
        /\ \A j \in (e + 1)..n : q[j].k # "end"
    BY DEF PendAt
  <2>2. e # Len(p) + 1 BY <1>2, <1>3, <2>1
  <2>3. ~(e < Len(p) + 1)
    <3> SUFFICES ASSUME e < Len(p) + 1 PROVE FALSE
      OBVIOUS
    <3>1. Len(p) + 1 \in (e + 1)..n BY <1>2, <2>1
    <3> QED BY <1>2, <1>3, <2>1, <3>1
  <2> DEFINE a == e - (Len(p) + 1)
  <2>4. a \in 1..N /\ e = Len(p) + 1 + a /\ e \in Nat
    BY <1>1, <1>2, <2>1, <2>2, <2>3
  <2>5. q[e] = p[o[a]] /\ o[a] \in PendingQueued(p) BY <1>1, <1>2, <2>4
  <2> QED BY <2>1, <2>4, <2>5, PendAtEnd
<1>5. IsFiniteSet(P) BY <1>2, PathCounts
<1> HIDE DEF P, Q
<1>6. f \in [Q -> P] BY <1>4
<1>7. ASSUME NEW a \in Q, NEW b \in Q, f[a] = f[b] PROVE a = b
  <2>1. a - (Len(p) + 1) = b - (Len(p) + 1) BY <1>1, <1>4, <1>7
  <2> QED BY <1>2, <1>4, <2>1
<1> HIDE DEF f
<1>8. Cardinality(Q) <= Cardinality(P) /\ Cardinality(Q) \in Nat
      /\ Cardinality(P) \in Nat
  <2>1. \A a, b \in Q : f[a] = f[b] => a = b BY <1>7
  <2> QED BY ONLY <1>5, <1>6, <2>1, NoMore, SMTT(30)
<1> QED BY <1>8 DEF P, Q

\* The next process owes what this one's path did.
LEMMA SeedFits ==
    ASSUME NEW p \in Seq(Entries), NEW ib \in Seq(BoxItems), PathOK(p),
           NEW x, NEW s \in Int, FitsAll(p, ib, x, s)
    PROVE  LET q == CloseOpenRun(p, TRUE) IN FitsAll(q, SeedInbox(q), x, s)
<1> DEFINE q == CloseOpenRun(p, TRUE)
           N == Len(p)
           ib2 == SeedInbox(q)
<1>1. /\ q \in Seq(Entries) /\ PathOK(q) /\ N <= Len(q)
      /\ \A e \in 1..N : q[e] = p[e]
      /\ q = p \/ Closes(p, q, Cardinality(PendingQueued(p)))
  BY RunClosed
<1> HIDE DEF q
<1>2. /\ ib2 \in Seq(BoxItems) /\ DOMAIN ib2 = 1..Len(ib2)
      /\ \A n \in 1..Len(ib2) : ib2[n].entry # 0
  BY <1>1, SeedIs
<1> HIDE DEF ib2
<1>3. N \in Nat /\ Len(q) \in Nat BY <1>1
<1>4. ASSUME NEW d
      PROVE  Owing(q, ib2, x, d) = Cardinality(PendAt(q, Len(q), x, d))
  <2>1. LackingOf(ib2, x, d) = {} BY <1>2 DEF LackingOf
  <2>2. Cardinality(LackingOf(ib2, x, d)) = 0 BY <2>1, FS_EmptySet
  <2>3. Cardinality(PendAt(q, Len(q), x, d)) \in Nat BY <1>3, PathCounts
  <2> QED BY <2>2, <2>3 DEF Owing
<1>5. ASSUME NEW d \in {AsDelivery, AsQueued}, NEW n \in N..Len(q)
      PROVE  Level(q, Owing(q, ib2, x, d), n, x, d) <= Owing(p, ib, x, d)
  <2>1. /\ Owing(p, ib, x, d) \in Nat
        /\ Cardinality(PendAt(p, N, x, d)) <= Owing(p, ib, x, d)
    BY OwingIs
  <2>2. Level(q, Owing(q, ib2, x, d), n, x, d) = Cardinality(PendAt(q, n, x, d))
    BY <1>4 DEF Level
  <2>3. CASE n = N
    <3>1. PendAt(q, N, x, d) = PendAt(p, N, x, d)
      <4>1. \A e \in 1..N : \A j \in (e + 1)..N : j \in 1..N BY <1>3
      <4> QED BY <1>1, <4>1 DEF PendAt
    <3> QED BY <2>1, <2>2, <2>3, <3>1
  <2>4. CASE n # N
    <3>1. n \in (N + 1)..Len(q) BY <1>3, <2>4
    <3>2. q # p BY <1>3, <3>1
    <3>3. /\ Cardinality(PendAt(q, n, x, d)) <= Cardinality(PendAt(p, N, x, d))
          /\ Cardinality(PendAt(q, n, x, d)) \in Nat
          /\ Cardinality(PendAt(p, N, x, d)) \in Nat
      BY <1>1, <3>1, <3>2, ClosedPendAt
    <3> HIDE DEF N
    <3> QED BY <2>1, <2>2, <3>3
  <2> QED BY <2>3, <2>4
<1>6. \A e \in (N + 1)..Len(q) : q[e].k # "item"
  <2> TAKE e \in (N + 1)..Len(q)
  <2>1. q # p BY <1>3
  <2>2. Closes(p, q, Cardinality(PendingQueued(p))) BY <1>1, <2>1
  <2>3. Cardinality(PendingQueued(p)) \in Nat BY PendingIs, InOrderLists
  <2>4. \A j \in (N + 2)..Len(q) : q[j].k = "queued"
    BY <1>1, <2>2, <2>3, ClosedPending
  <2>5. q[N + 1].k = "end" BY <2>2, MarkIs DEF Closes
  <2>6. e = N + 1 \/ e \in (N + 2)..Len(q) BY <1>3
  <2> QED BY <2>4, <2>5, <2>6
<1>7. FitsAll(q, ib2, x, s) BY <1>1, <1>2, <1>5, <1>6, FitsGrown
<1> QED BY <1>7 DEF q, ib2

\* What Rebase's search leaves lacking, beside what the path owes: no more
\* than the path owes, or than the inbox holds.
LEMMA RebasedOwing ==
    ASSUME NEW ib \in Seq(BoxItems), NEW p \in Seq(Entries), Claims(ib, p),
           NEW x, NEW d
    PROVE  \/ Owing(p, Rebased(ib, p), x, d)
                <= Cardinality(PendAt(p, Len(p), x, d))
           \/ Owing(p, Rebased(ib, p), x, d) <= Cardinality(InBox(ib, x, d))
<1> DEFINE ib2 == Rebased(ib, p)
           owed == PendingQueued(p)
           P == PendAt(p, Len(p), x, d)
           B == InBox(ib, x, d)
           K == {j \in B : ib[j].entry \in owed}
           M == LackOf(ib, p, x, d)
           F == FreeOf(ib, p, x, d)
           L == LackingOf(ib2, x, d)
           cF == Cardinality(F)
           cM == Cardinality(M)
<1>1. DOMAIN ib = 1..Len(ib) /\ Len(ib) \in Nat OBVIOUS
<1>2. /\ ib2 \in Seq(BoxItems) /\ Len(ib2) = Len(ib)
      /\ \A j \in 1..Len(ib) :
            /\ SameInput(ib[j], ib2[j])
            /\ ib[j].entry \in owed => ib2[j].entry = ib[j].entry
            /\ /\ ib[j].entry \notin owed
               /\ ~(RankIn(LackOf(ib, p, ib[j].x, ib[j].d), j)
                      > Cardinality(FreeOf(ib, p, ib[j].x, ib[j].d)))
               => ib2[j].entry \in FreeOf(ib, p, ib[j].x, ib[j].d)
  BY RebasedIs
<1>3. DOMAIN ib2 = 1..Len(ib) BY <1>2
<1>4. 0 \notin owed /\ IsFiniteSet(owed) BY PendingIs
<1> HIDE DEF ib2
<1>5. ASSUME NEW j \in L PROVE j \in M /\ RankIn(M, j) > cF
  <2>1. j \in 1..Len(ib) /\ ib2[j].entry = 0 /\ ib2[j].x = x /\ ib2[j].d = d
    BY <1>3 DEF LackingOf
  <2>2. ib[j].x = x /\ ib[j].d = d BY <1>2, <2>1 DEF SameInput
  <2>3. ib[j].entry \notin owed BY <1>2, <1>4, <2>1
  <2>4. j \in M BY <1>1, <2>1, <2>2, <2>3 DEF LackOf
  <2>5. FreeOf(ib, p, x, d) \subseteq owed BY DEF FreeOf
  <2>6. ~(RankIn(M, j) > cF) => ib2[j].entry \in F
    BY <1>2, <2>1, <2>2, <2>3
  <2> QED BY <1>4, <2>1, <2>4, <2>5, <2>6
<1>6. M \in SUBSET (1..Len(ib)) /\ F \in SUBSET owed
  BY <1>1 DEF LackOf, FreeOf
<1>7. IsFiniteSet(F) /\ cF \in Nat BY <1>4, <1>6, PartOf
<1>8. /\ IsFiniteSet(M) /\ cM \in Nat
      /\ \A j \in M : RankIn(M, j) \in 1..cM
      /\ \A j, k \in M : RankIn(M, j) = RankIn(M, k) => j = k
  BY <1>1, <1>6, RankIs
<1>9. IsFiniteSet(P) /\ IsFiniteSet(B) /\ Cardinality(P) \in Nat
      /\ Cardinality(B) \in Nat
  BY PathCounts, BoxCounts
<1>10. K \cup M \subseteq B /\ K \cap M = {} /\ K \in SUBSET B
  BY DEF InBox, LackOf
<1>11. P \subseteq F \cup {e \in P : \E j \in K : ib[j].entry = e}
  <2> SUFFICES ASSUME NEW e \in P, e \notin F
               PROVE  \E j \in K : ib[j].entry = e
    OBVIOUS
  <2>1. e \in owed /\ p[e].x = x /\ p[e].d = d BY PendAtEnd
  <2>2. PICK j \in DOMAIN ib : ib[j].entry = e BY <2>1 DEF FreeOf
  <2>3. ib[j].x = x /\ ib[j].d = d BY <2>1, <2>2 DEF Claims
  <2> QED BY <2>1, <2>2, <2>3 DEF InBox
<1> DEFINE T == {e \in P : \E j \in K : ib[j].entry = e}
<1>12. IsFiniteSet(K) /\ Cardinality(K) \in Nat BY <1>9, <1>10, PartOf
<1> HIDE DEF P, K, M, F, L, B
<1>13. IsFiniteSet(T) /\ Cardinality(T) <= Cardinality(K)
       /\ Cardinality(T) \in Nat
  <2> DEFINE f == [e \in T |-> CHOOSE j \in K : ib[j].entry = e]
  <2>1. \A e \in T : f[e] \in K /\ ib[f[e]].entry = e OBVIOUS
  <2> HIDE DEF T
  <2>2. f \in [T -> K] BY <2>1
  <2>3. \A a, b \in T : f[a] = f[b] => a = b BY <2>1
  <2> HIDE DEF f
  <2> QED BY ONLY <1>12, <2>2, <2>3, NoMore
<1> HIDE DEF T
<1>14. Cardinality(P) <= cF + Cardinality(K)
  <2>1. Cardinality(P) <= cF + Cardinality(T)
    BY <1>7, <1>11, <1>13, Covered DEF T
  <2> HIDE DEF cF
  <2> QED BY <1>7, <1>9, <1>12, <1>13, <2>1
<1>15. Cardinality(K) + cM <= Cardinality(B) BY <1>9, <1>10, Apart
<1> HIDE DEF cM, cF
<1>16. /\ Cardinality(L) \in Nat
       /\ cM <= cF => Cardinality(L) = 0
       /\ cM > cF => Cardinality(L) <= cM - cF
  <2> DEFINE R == (cF + 1)..cM
             f == [j \in L |-> RankIn(M, j)]
  <2>1. IsFiniteSet(R)
        /\ Cardinality(R) = IF cF + 1 > cM THEN 0 ELSE cM - (cF + 1) + 1
    <3>1. cF + 1 \in Int /\ cM \in Int BY <1>7, <1>8
    <3> QED BY <3>1, FS_Interval
  <2>2. ASSUME NEW j \in L PROVE j \in M /\ RankIn(M, j) \in R
    BY <1>5, <1>7, <1>8
  <2> HIDE DEF R
  <2>3. f \in [L -> R] /\ \A a, b \in L : f[a] = f[b] => a = b
    BY <1>8, <2>2
  <2> HIDE DEF f
  <2>4. Cardinality(L) <= Cardinality(R) /\ Cardinality(L) \in Nat
    BY ONLY <2>1, <2>3, NoMore
  <2> QED BY <1>7, <1>8, <2>1, <2>4
<1>17. Owing(p, ib2, x, d) = Cardinality(P) + Cardinality(L)
  BY DEF Owing, P, L
<1>18. \/ Owing(p, ib2, x, d) <= Cardinality(P)
       \/ Owing(p, ib2, x, d) <= Cardinality(B)
  BY <1>7, <1>8, <1>9, <1>12, <1>14, <1>15, <1>16, <1>17
<1> QED BY <1>18 DEF P, B, ib2

\* What is held is in the inbox.
LEMMA HeldIs ==
    ASSUME NEW ib \in Seq(BoxItems)
    PROVE  LET o == InOrder({j \in DOMAIN ib : ib[j].held})
               h == Held(ib)
           IN /\ h \in Seq(BoxItems) /\ DOMAIN h = 1..Len(h) /\ Len(h) \in Nat
              /\ o \in [1..Len(h) -> 1..Len(ib)]
              /\ \A n \in 1..Len(h) : h[n] = ib[o[n]] /\ h[n].held
              /\ \A a, b \in 1..Len(h) : o[a] = o[b] => a = b
              /\ \A j \in 1..Len(ib) : ib[j].held =>
                    \E a \in 1..Len(h) : o[a] = j
<1> DEFINE S == {j \in DOMAIN ib : ib[j].held}
           h == Held(ib)
           o == InOrder(S)
<1>0. DOMAIN ib = 1..Len(ib) OBVIOUS
<1>1. S \in SUBSET (1..Len(ib)) /\ \A j \in S : ib[j].held BY <1>0
<1>2. \A j \in 1..Len(ib) : ib[j].held => j \in S BY <1>0
<1> HIDE DEF S
<1>3. /\ Cardinality(S) \in Nat
      /\ At(ib, S) \in Seq(BoxItems) /\ Len(At(ib, S)) = Cardinality(S)
      /\ DOMAIN At(ib, S) = 1..Cardinality(S)
      /\ o \in [1..Cardinality(S) -> 1..Len(ib)]
      /\ \A n \in 1..Cardinality(S) : o[n] \in S /\ At(ib, S)[n] = ib[o[n]]
      /\ \A a, b \in 1..Cardinality(S) : o[a] = o[b] => a = b
      /\ \A e \in S : \E a \in 1..Cardinality(S) : o[a] = e
  BY <1>1, AtIs
<1>4. h = At(ib, S) BY DEF Held, S
<1> HIDE DEF h, o
<1>5. /\ h \in Seq(BoxItems) /\ DOMAIN h = 1..Len(h) /\ Len(h) \in Nat
      /\ Len(h) = Cardinality(S)
  BY <1>3, <1>4
<1>6. \A n \in 1..Len(h) : h[n] = ib[o[n]] /\ h[n].held
  BY <1>1, <1>3, <1>4, <1>5
<1>7. /\ o \in [1..Len(h) -> 1..Len(ib)]
      /\ \A a, b \in 1..Len(h) : o[a] = o[b] => a = b
      /\ \A j \in 1..Len(ib) : ib[j].held => \E a \in 1..Len(h) : o[a] = j
  BY <1>2, <1>3, <1>5
<1> QED BY <1>5, <1>6, <1>7 DEF h, o, S

\* A move to a path keeps the inputs, each with its entry where the path
\* has it.
LEMMA MovedIs ==
    ASSUME NEW p, NEW q, NEW h \in Seq(BoxItems)
    PROVE  LET h2 == MovedTo(q, p, h) IN
           /\ h2 \in Seq(BoxItems) /\ Len(h2) = Len(h)
           /\ \A a \in 1..Len(h) :
                 /\ SameInput(h[a], h2[a])
                 /\ h2[a].entry # 0 =>
                       h2[a].entry = h[a].entry /\ Shares(p, q, h[a].entry)
<1> DEFINE h2 == MovedTo(q, p, h)
           E(a) == IF Shares(p, q, h[a].entry) THEN h[a].entry ELSE 0
<1>1. /\ DOMAIN h = 1..Len(h) /\ Len(h) \in Nat
      /\ \A a \in 1..Len(h) : h[a] \in BoxItems
  OBVIOUS
<1>2. ASSUME NEW a \in 1..Len(h)
      PROVE  /\ h2[a] = [h[a] EXCEPT !.entry = E(a)] /\ E(a) \in Nat
  <2>1. h[a].entry \in Nat BY <1>1 DEF BoxItems
  <2> QED BY <1>1, <2>1 DEF MovedTo
<1>4. h2 = [a \in 1..Len(h) |-> h2[a]] BY <1>1 DEF MovedTo
<1> HIDE DEF h2
<1>5. ASSUME NEW a \in 1..Len(h)
      PROVE  /\ h2[a] \in BoxItems /\ SameInput(h[a], h2[a])
             /\ h2[a].entry = E(a)
  <2>1. h[a] \in BoxItems /\ h2[a] = [h[a] EXCEPT !.entry = E(a)] /\ E(a) \in Nat
    BY <1>1, <1>2
  <2> HIDE DEF E
  <2> QED BY <2>1, EntryChanged
<1>6. h2 \in Seq(BoxItems) /\ Len(h2) = Len(h)
  <2>1. h2 \in [1..Len(h) -> BoxItems] BY <1>4, <1>5
  <2> QED BY <1>1, <2>1, SeqOf
<1> QED BY <1>5, <1>6 DEF h2

\* Its entries on the path a rewind starts from are its own.
LEMMA HeldClaims ==
    ASSUME NEW p \in Seq(Entries), NEW ib \in Seq(BoxItems), EntriesOK(p, ib),
           NEW p0 \in Seq(Entries), PathOK(p0), NEW n \in 0..Len(p0)
    PROVE  Claims(MovedTo(p0, p, Held(ib)), CloseOpenRun(SubSeq(p0, 1, n), FALSE))
<1> DEFINE q == CloseOpenRun(SubSeq(p0, 1, n), FALSE)
           o == InOrder({j \in DOMAIN ib : ib[j].held})
           g == Held(ib)
           h == MovedTo(p0, p, g)
<1>1. q \in Seq(Entries) /\ \A e \in PendingQueued(q) : e \in 1..n /\ q[e] = p0[e]
  BY RewoundIs
<1>2. /\ g \in Seq(BoxItems) /\ o \in [1..Len(g) -> 1..Len(ib)]
      /\ \A a \in 1..Len(g) : g[a] = ib[o[a]]
      /\ \A a, b \in 1..Len(g) : o[a] = o[b] => a = b
  BY HeldIs
<1> HIDE DEF q, o, g
<1>3. /\ h \in Seq(BoxItems) /\ Len(h) = Len(g)
      /\ \A a \in 1..Len(g) :
            /\ SameInput(g[a], h[a])
            /\ h[a].entry # 0 =>
                  h[a].entry = g[a].entry /\ Shares(p, p0, g[a].entry)
  BY <1>2, MovedIs
<1> HIDE DEF h
<1>4. DOMAIN ib = 1..Len(ib) /\ DOMAIN h = 1..Len(h) BY <1>3
<1> SUFFICES ASSUME NEW a \in 1..Len(h), h[a].entry \in PendingQueued(q)
             PROVE  /\ q[h[a].entry].x = h[a].x /\ q[h[a].entry].d = h[a].d
                    /\ \A b \in 1..Len(h) : b # a => h[b].entry # h[a].entry
  BY <1>4 DEF Claims, q, h, g
<1> DEFINE e == h[a].entry
<1>5. e # 0 /\ e \in 1..n /\ q[e] = p0[e] BY <1>1, PendingIs
<1>6. e = ib[o[a]].entry /\ Shares(p, p0, e) /\ o[a] \in 1..Len(ib)
  BY <1>2, <1>3, <1>5
<1>7. h[a].x = ib[o[a]].x /\ h[a].d = ib[o[a]].d
  BY <1>2, <1>3 DEF SameInput
<1> HIDE DEF e
<1>8. p0[e] = p[e]
  <2>1. e <= Len(p) /\ e <= Len(p0) /\ SubSeq(p, 1, e) = SubSeq(p0, 1, e)
    BY <1>6 DEF Shares
  <2>2. e \in 0..Len(p) /\ e \in 0..Len(p0) /\ e \in 1..e BY <1>5, <2>1
  <2>3. SubSeq(p, 1, e)[e] = p[e] /\ SubSeq(p0, 1, e)[e] = p0[e] BY <2>2
  <2> QED BY <2>1, <2>3
<1>9. /\ p[e].x = h[a].x /\ p[e].d = h[a].d
      /\ \A m \in 1..Len(ib) : m # o[a] => ib[m].entry # e
  BY <1>4, <1>5, <1>6, <1>7 DEF EntriesOK
<1>10. ASSUME NEW b \in 1..Len(h), b # a PROVE h[b].entry # e
  <2>1. o[b] \in 1..Len(ib) /\ g[b] = ib[o[b]] /\ o[b] # o[a]
    BY <1>2, <1>3, <1>10
  <2> QED BY <1>3, <1>5, <1>9, <2>1
<1> QED BY <1>5, <1>8, <1>9, <1>10 DEF e

\* A rewind to an entry of the path.
LEMMA RewindFits ==
    ASSUME NEW p \in Seq(Entries), NEW ib \in Seq(BoxItems), PathOK(p),
           EntriesOK(p, ib), NEW p0 \in Seq(Entries), PathOK(p0),
           NEW k \in 0..Len(p0), Shares(p, p0, k),
           NEW x, NEW s \in Int, FitsAll(p, ib, x, s)
    PROVE  LET q == CloseOpenRun(SubSeq(p0, 1, k), FALSE) IN
           FitsAll(q, Rebased(MovedTo(p0, p, Held(ib)), q), x, s)
<1> DEFINE pre == SubSeq(p0, 1, k)
           q == CloseOpenRun(pre, FALSE)
           h == MovedTo(p0, p, Held(ib))
           o == InOrder({j \in DOMAIN ib : ib[j].held})
           ib2 == Rebased(h, q)
<1>1. Len(p) \in Nat /\ k \in Nat /\ k \in 0..Len(p) BY DEF Shares
<1>0. pre = SubSeq(p, 1, k) BY DEF Shares
<1>2. /\ q \in Seq(Entries) /\ PathOK(q) /\ k <= Len(q)
      /\ \A e \in 1..k : q[e] = p[e]
      /\ \A e \in (k + 1)..Len(q) : q[e].k = "end"
      /\ PendingQueued(q) = PendingQueued(pre) \/ PendingQueued(q) = {}
  <2>1. LET t == SubSeq(p, 1, k)
            u == CloseOpenRun(t, FALSE)
        IN /\ u \in Seq(Entries) /\ PathOK(u) /\ k <= Len(u)
           /\ \A e \in 1..k : u[e] = p[e]
           /\ \A e \in (k + 1)..Len(u) : u[e].k = "end"
           /\ PendingQueued(u) = PendingQueued(t) \/ PendingQueued(u) = {}
    BY <1>1, RewoundIs
  <2> QED BY <1>0, <2>1
<1>3. Claims(h, q) BY <1>1, HeldClaims
<1>5. /\ h \in Seq(BoxItems) /\ DOMAIN h = 1..Len(h)
      /\ o \in [1..Len(h) -> 1..Len(ib)]
      /\ \A a \in 1..Len(h) : h[a].x = ib[o[a]].x /\ h[a].d = ib[o[a]].d
      /\ \A a, b \in 1..Len(h) : o[a] = o[b] => a = b
  <2> DEFINE g == Held(ib)
  <2>1. /\ g \in Seq(BoxItems) /\ o \in [1..Len(g) -> 1..Len(ib)]
        /\ \A a \in 1..Len(g) : g[a] = ib[o[a]]
        /\ \A a, b \in 1..Len(g) : o[a] = o[b] => a = b
    BY HeldIs
  <2> HIDE DEF g, o
  <2>2. /\ h \in Seq(BoxItems) /\ Len(h) = Len(g)
        /\ \A a \in 1..Len(g) : SameInput(g[a], h[a])
    BY <2>1, MovedIs DEF g
  <2> HIDE DEF h
  <2>3. DOMAIN h = 1..Len(h) BY <2>2
  <2> QED BY <2>1, <2>2, <2>3 DEF SameInput
<1>6. ib2 \in Seq(BoxItems) BY <1>2, <1>3, <1>5, RebasedIs
<1> HIDE DEF pre, q, h, o
<1>7. ASSUME NEW d
      PROVE  /\ Cardinality(PendAt(p, k, x, d)) \in Nat
             /\ Cardinality(PendAt(q, Len(q), x, d)) \in Nat
             /\ Cardinality(PendAt(q, Len(q), x, d))
                  <= Cardinality(PendAt(p, k, x, d))
             /\ PendAt(q, k, x, d) = PendAt(p, k, x, d)
             /\ \A n \in k..Len(q) :
                   Cardinality(PendAt(q, n, x, d)) \in Nat
                   /\ Cardinality(PendAt(q, n, x, d))
                        <= Cardinality(PendAt(p, k, x, d))
  <2>1. Cardinality(PendAt(p, k, x, d)) \in Nat
        /\ IsFiniteSet(PendAt(p, k, x, d))
    BY <1>1, PathCounts
  <2>2. ASSUME NEW n \in k..Len(q)
        PROVE  PendAt(q, n, x, d) \subseteq PendAt(p, k, x, d)
    <3> SUFFICES ASSUME NEW e \in PendAt(q, n, x, d)
                 PROVE  e \in PendAt(p, k, x, d)
      OBVIOUS
    <3>1. /\ e \in 1..n /\ q[e].k = "queued" /\ q[e].x = x /\ q[e].d = d
          /\ \A j \in (e + 1)..n : q[j].k # "end" /\ q[j].from # e
      BY DEF PendAt
    <3>2. e \in 1..k
      <4>1. e \in 1..k \/ e \in (k + 1)..Len(q) BY <1>1, <3>1
      <4> QED BY <1>2, <3>1, <4>1
    <3>3. ASSUME NEW j \in (e + 1)..k PROVE p[j].k # "end" /\ p[j].from # e
      <4>1. j \in (e + 1)..n /\ j \in 1..k BY <1>1, <3>2
      <4> QED BY <1>2, <3>1, <4>1
    <3>4. p[e] = q[e] BY <1>2, <3>2
    <3> QED BY <3>1, <3>2, <3>3, <3>4 DEF PendAt
  <2>3. PendAt(q, k, x, d) = PendAt(p, k, x, d)
    <3>1. \A e \in 1..k : \A j \in (e + 1)..k : j \in 1..k BY <1>1
    <3> QED BY <1>2, <3>1 DEF PendAt
  <2>4. ASSUME NEW n \in k..Len(q)
        PROVE  /\ Cardinality(PendAt(q, n, x, d)) \in Nat
               /\ Cardinality(PendAt(q, n, x, d))
                    <= Cardinality(PendAt(p, k, x, d))
    BY <2>1, <2>2, PartOf
  <2>5. Len(q) \in k..Len(q) BY <1>1, <1>2
  <2> QED BY <2>1, <2>3, <2>4, <2>5
<1>8. ASSUME NEW d
      PROVE  /\ Owing(q, ib2, x, d) \in Nat /\ Owing(p, ib, x, d) \in Nat
             /\ \/ Owing(q, ib2, x, d) <= Cardinality(PendAt(p, k, x, d))
                \/ Owing(q, ib2, x, d) <= Owing(p, ib, x, d)
  <2>1. Owing(q, ib2, x, d) \in Nat /\ Owing(p, ib, x, d) \in Nat
    BY <1>2, <1>6, OwingIs
  <2>2. \/ Owing(q, ib2, x, d) <= Cardinality(PendAt(q, Len(q), x, d))
        \/ Owing(q, ib2, x, d) <= Cardinality(InBox(h, x, d))
    BY <1>2, <1>3, <1>5, RebasedOwing
  <2>3. Cardinality(InBox(ib, x, d)) <= Owing(p, ib, x, d) BY InBoxOwing
  <2>4. Cardinality(InBox(h, x, d)) <= Cardinality(InBox(ib, x, d))
        /\ Cardinality(InBox(h, x, d)) \in Nat
        /\ Cardinality(InBox(ib, x, d)) \in Nat
    <3> DEFINE S == InBox(h, x, d)
               T == InBox(ib, x, d)
               f == [a \in S |-> o[a]]
    <3>1. ASSUME NEW a \in S PROVE a \in 1..Len(h) /\ o[a] \in T
      <4>1. a \in 1..Len(h) /\ h[a].x = x /\ h[a].d = d
        BY <1>5 DEF InBox
      <4>2. o[a] \in DOMAIN ib BY <1>5, <4>1
      <4>3. h[a].x = ib[o[a]].x /\ h[a].d = ib[o[a]].d BY <1>5, <4>1
      <4> QED BY <4>1, <4>2, <4>3 DEF InBox
    <3>2. IsFiniteSet(T) BY BoxCounts
    <3> HIDE DEF S, T
    <3>3. f \in [S -> T] /\ \A a, b \in S : f[a] = f[b] => a = b
      BY <1>5, <3>1
    <3> HIDE DEF f
    <3>4. Cardinality(S) <= Cardinality(T) /\ Cardinality(S) \in Nat
          /\ Cardinality(T) \in Nat
      <4>1. IsFiniteSet(T) BY <3>2
      <4>2. f \in [S -> T] BY <3>3
      <4>3. \A a, b \in S : f[a] = f[b] => a = b BY <3>3
      <4>4. Cardinality(S) <= Cardinality(T) BY <4>1, <4>2, <4>3, NoMore
      <4>5. Cardinality(S) \in Nat BY <4>1, <4>2, <4>3, NoMore
      <4>6. Cardinality(T) \in Nat BY <4>1, FS_CardinalityType
      <4> QED BY <4>4, <4>5, <4>6
    <3> QED BY <3>4 DEF S, T
  <2> QED BY <1>7, <2>1, <2>2, <2>3, <2>4
<1> HIDE DEF ib2
<1>9. ASSUME NEW d
      PROVE  \E a \in k..Len(p) : \A n \in k..Len(q) :
                Level(q, Owing(q, ib2, x, d), n, x, d)
                  <= Level(p, Owing(p, ib, x, d), a, x, d)
  <2> DEFINE c == Owing(p, ib, x, d)
             c2 == Owing(q, ib2, x, d)
             P == Cardinality(PendAt(p, k, x, d))
  <2>1. c \in Nat /\ c2 \in Nat /\ P \in Nat /\ (c2 <= P \/ c2 <= c)
    BY <1>7, <1>8
  <2>2. /\ k # Len(p) => Level(p, c, k, x, d) = P
        /\ Level(p, c, Len(p), x, d) = c
    BY <1>1 DEF Level
  <2>7. k = Len(p) => P <= c BY OwingIs
  <2>3. ASSUME NEW n \in k..Len(q)
        PROVE  /\ Level(q, c2, n, x, d) \in Nat
               /\ Level(q, c2, n, x, d) = c2 \/ Level(q, c2, n, x, d) <= P
    <3>1. /\ Cardinality(PendAt(q, n, x, d)) \in Nat
          /\ Cardinality(PendAt(q, n, x, d)) <= P
      BY <1>7
    <3> HIDE DEF c2, P
    <3> QED BY <2>1, <3>1 DEF Level
  <2>4. k \in k..Len(p) /\ Len(p) \in k..Len(p) BY <1>1
  <2> HIDE DEF c, c2, P
  <2>5. CASE P >= c /\ k # Len(p)
    <3>1. \A n \in k..Len(q) : Level(q, c2, n, x, d) <= Level(p, c, k, x, d)
      BY <2>1, <2>2, <2>3, <2>5
    <3> QED BY <2>4, <3>1 DEF c, c2
  <2>6. CASE ~(P >= c) \/ k = Len(p)
    <3>1. P <= c BY <2>1, <2>6, <2>7
    <3>2. c2 <= c BY <2>1, <3>1
    <3>3. \A n \in k..Len(q) : Level(q, c2, n, x, d) <= c
      BY <2>1, <2>3, <3>1, <3>2
    <3>4. \A n \in k..Len(q) : Level(q, c2, n, x, d) <= Level(p, c, Len(p), x, d)
      BY <2>2, <3>3
    <3> QED BY <2>4, <3>4 DEF c, c2
  <2> QED BY <2>5, <2>6
<1>10. PICK aT \in k..Len(p) : \A n \in k..Len(q) :
          Level(q, Owing(q, ib2, x, AsDelivery), n, x, AsDelivery)
            <= Level(p, Owing(p, ib, x, AsDelivery), aT, x, AsDelivery)
  BY <1>9
<1>11. PICK aF \in k..Len(p) : \A n \in k..Len(q) :
          Level(q, Owing(q, ib2, x, AsQueued), n, x, AsQueued)
            <= Level(p, Owing(p, ib, x, AsQueued), aF, x, AsQueued)
  BY <1>9
<1>12. \A e \in (k + 1)..Len(q) : q[e].k # "item" BY <1>2
<1> DEFINE cT == Owing(p, ib, x, AsDelivery)
           cF == Owing(p, ib, x, AsQueued)
           cT2 == Owing(q, ib2, x, AsDelivery)
           cF2 == Owing(q, ib2, x, AsQueued)
<1>13. /\ cT \in Nat /\ cF \in Nat /\ cT2 \in Nat /\ cF2 \in Nat
       /\ Fits(p, x, cT, cF, s)
       /\ \A n \in k..Len(q) :
             /\ Level(q, cT2, n, x, AsDelivery) <= Level(p, cT, aT, x, AsDelivery)
             /\ Level(q, cF2, n, x, AsQueued) <= Level(p, cF, aF, x, AsQueued)
  BY <1>8, <1>10, <1>11 DEF FitsAll
<1> HIDE DEF cT, cF, cT2, cF2
<1>14. Fits(q, x, cT2, cF2, s) BY <1>1, <1>2, <1>12, <1>13, FitsOn
<1> QED BY <1>14 DEF FitsAll, cT2, cF2, q, pre, ib2, h

\* A return to a branch left: what is lacking there is submitted to it.
LEMMA ReturnFits ==
    ASSUME NEW p0 \in Seq(Entries), PathOK(p0), NEW k \in 0..Len(p0),
           NEW x, NEW s \in Int, FitsAll(p0, <<>>, x, s),
           NEW ib \in Seq(BoxItems)
    PROVE  LET q == CloseOpenRun(SubSeq(p0, 1, k), FALSE) IN
           FitsAll(q, ib, x, s + Cardinality({j \in DOMAIN ib :
                                    ib[j].entry = 0 /\ ib[j].x = x}))
<1> DEFINE q == CloseOpenRun(SubSeq(p0, 1, k), FALSE)
           L == {j \in DOMAIN ib : ib[j].entry = 0 /\ ib[j].x = x}
           g == Held(<<>>)
           h == MovedTo(p0, p0, g)
           ib0 == Rebased(h, q)
           LT == LackingOf(ib, x, AsDelivery)
           LF == LackingOf(ib, x, AsQueued)
<1>1. <<>> \in Seq(BoxItems) /\ Len(<<>>) = 0 /\ DOMAIN <<>> = {}
  OBVIOUS
<1>2. EntriesOK(p0, <<>>) BY <1>1 DEF EntriesOK
<1>3. Shares(p0, p0, k) BY DEF Shares
<1>4. FitsAll(q, ib0, x, s) BY <1>1, <1>2, <1>3, RewindFits
<1>5. Claims(h, q) BY <1>1, <1>2, HeldClaims
<1>6. q \in Seq(Entries) BY RewoundIs
<1>7. g \in Seq(BoxItems) /\ Len(g) = 0
  <2>1. /\ g \in Seq(BoxItems) /\ Len(g) \in Nat
        /\ InOrder({j \in DOMAIN <<>> : <<>>[j].held}) \in [1..Len(g) -> 1..0]
    BY <1>1, HeldIs
  <2> HIDE DEF g
  <2>2. ASSUME Len(g) # 0 PROVE FALSE
    <3>1. 1 \in 1..Len(g) BY <2>1, <2>2
    <3>2. \A a \in 1..Len(g) :
             InOrder({j \in DOMAIN <<>> : <<>>[j].held})[a] \in 1..0
      BY <2>1
    <3> QED BY <3>1, <3>2
  <2> QED BY <2>1, <2>2
<1> HIDE DEF g
<1>8. h \in Seq(BoxItems) /\ Len(h) = 0 BY <1>7, MovedIs
<1> HIDE DEF h, q
<1>9. ib0 \in Seq(BoxItems) /\ Len(ib0) = 0
  BY <1>5, <1>6, <1>8, RebasedIs
<1> HIDE DEF ib0
<1>10. ASSUME NEW d
       PROVE  Owing(q, ib0, x, d) = Cardinality(PendAt(q, Len(q), x, d))
  <2>1. LackingOf(ib0, x, d) = {} BY <1>9 DEF LackingOf
  <2>2. Cardinality(LackingOf(ib0, x, d)) = 0 BY <2>1, FS_EmptySet
  <2>3. Cardinality(PendAt(q, Len(q), x, d)) \in Nat BY <1>6, PathCounts
  <2> QED BY <2>2, <2>3 DEF Owing
<1>11. /\ Cardinality(LT) \in Nat /\ Cardinality(LF) \in Nat
       /\ IsFiniteSet(LT) /\ IsFiniteSet(LF)
  BY BoxCounts
<1>12. IsFiniteSet(L) /\ Cardinality(L) \in Nat
  <2>1. IsFiniteSet(DOMAIN ib) BY BoxCounts
  <2>2. L \in SUBSET DOMAIN ib OBVIOUS
  <2> HIDE DEF L
  <2> QED BY <2>1, <2>2, PartOf
<1>13. LT \cup LF \subseteq L /\ LT \cap LF = {}
  BY DEF LackingOf, AsDelivery, AsQueued
<1> HIDE DEF L, LT, LF
<1>14. Cardinality(LT) + Cardinality(LF) <= Cardinality(L)
  BY <1>12, <1>13, Apart
<1> DEFINE cT == Owing(q, ib0, x, AsDelivery)
           cF == Owing(q, ib0, x, AsQueued)
           cT2 == Owing(q, ib, x, AsDelivery)
           cF2 == Owing(q, ib, x, AsQueued)
           a == Cardinality(LT)
           b == Cardinality(LF)
           s2 == s + Cardinality(L)
<1>15. /\ cT \in Nat /\ cF \in Nat /\ cT2 \in Nat /\ cF2 \in Nat
  BY <1>6, <1>9, OwingIs
<1>16. cT2 = cT + a /\ cF2 = cF + b BY <1>10 DEF Owing, LT, LF
<1>17. Fits(q, x, cT, cF, s) BY <1>4 DEF FitsAll
<1>18. a \in Nat /\ b \in Nat /\ s2 \in Int /\ s + a + b <= s2
  BY <1>11, <1>12, <1>14
<1> HIDE DEF cT, cF, cT2, cF2, a, b, s2
<1>19. cT2 <= cT + a /\ cF2 <= cF + b BY <1>15, <1>16, <1>18
<1>20. Fits(q, x, cT2, cF2, s2)
  BY <1>6, <1>15, <1>17, <1>18, <1>19, FitsMore
<1> QED BY <1>20 DEF FitsAll, cT2, cF2, s2, q, L

\* A turn takes an input: one less is owed.
LEMMA DrainOwing ==
    ASSUME NEW p \in Seq(Entries), NEW ib \in Seq(BoxItems), PathOK(p),
           EntriesOK(p, ib), NEW j \in 1..Len(ib), NEW x, NEW d
    PROVE  LET q == Append(p, Item(ib[j].x, ib[j].entry))
               ib2 == Without(ib, j)
           IN /\ Owing(q, ib2, x, d) <= Owing(p, ib, x, d)
              /\ ib[j].x = x /\ ib[j].d = d =>
                    Owing(q, ib2, x, d) + 1 <= Owing(p, ib, x, d)
<1> DEFINE en == Item(ib[j].x, ib[j].entry)
           q == Append(p, en)
           ib2 == Without(ib, j)
           f == [m \in 1..(Len(ib) - 1) |-> IF m < j THEN m ELSE m + 1]
           g == ib[j].entry
           P == PendAt(p, Len(p), x, d)
           Q == PendAt(q, Len(q), x, d)
           L == LackingOf(ib, x, d)
           L2 == LackingOf(ib2, x, d)
<1>0. ib[j] \in BoxItems /\ DOMAIN ib = 1..Len(ib) OBVIOUS
<1>1. ib[j].x \in Contents /\ g \in Nat BY <1>0 DEF BoxItems
<1>2. en \in Entries /\ en.k = "item" /\ en.x = ib[j].x /\ en.from = g
  BY <1>1, ItemIs
<1> HIDE DEF en
<1>3. /\ q \in Seq(Entries) /\ Len(q) = Len(p) + 1 /\ Len(p) \in Nat
      /\ \A e \in 1..Len(p) : q[e] = p[e]
      /\ q[Len(p) + 1] = en
  BY <1>1, <1>2, AppendPath
<1>4. /\ ib2 \in Seq(BoxItems) /\ DOMAIN ib2 = 1..(Len(ib) - 1)
      /\ f \in [1..(Len(ib) - 1) -> 1..Len(ib)]
      /\ \A m \in 1..(Len(ib) - 1) : f[m] # j /\ ib2[m] = ib[f[m]]
      /\ \A a, b \in 1..(Len(ib) - 1) : f[a] = f[b] => a = b
  BY WithoutIs
<1> HIDE DEF q, ib2, f
<1>5. ASSUME NEW e \in Q PROVE e \in P /\ e # g
  <2>1. /\ e \in 1..(Len(p) + 1) /\ q[e].k = "queued" /\ q[e].x = x
        /\ q[e].d = d
        /\ \A l \in (e + 1)..(Len(p) + 1) : q[l].k # "end" /\ q[l].from # e
    BY <1>3 DEF PendAt
  <2>2. e \in 1..Len(p) BY <1>2, <1>3, <2>1
  <2>3. Len(p) + 1 \in (e + 1)..(Len(p) + 1) BY <1>3, <2>2
  <2>4. e # g BY <1>2, <1>3, <2>1, <2>3
  <2>5. ASSUME NEW l \in (e + 1)..Len(p) PROVE p[l].k # "end" /\ p[l].from # e
    <3>1. l \in (e + 1)..(Len(p) + 1) /\ l \in 1..Len(p) BY <1>3, <2>2
    <3> QED BY <1>3, <2>1, <3>1
  <2>6. p[e] = q[e] BY <1>3, <2>2
  <2> QED BY <2>1, <2>2, <2>4, <2>5, <2>6 DEF PendAt
<1>6. IsFiniteSet(P) /\ Cardinality(P) \in Nat BY <1>3, PathCounts
<1>7. IsFiniteSet(L) /\ Cardinality(L) \in Nat BY BoxCounts
<1>8. ASSUME NEW m \in L2 PROVE m \in 1..(Len(ib) - 1) /\ f[m] \in L \ {j}
  <2>1. m \in 1..(Len(ib) - 1) /\ ib2[m].entry = 0 /\ ib2[m].x = x
        /\ ib2[m].d = d
    BY <1>4 DEF LackingOf
  <2>2. f[m] \in DOMAIN ib /\ f[m] # j /\ ib2[m] = ib[f[m]]
    BY <1>0, <1>4, <2>1
  <2> QED BY <2>1, <2>2 DEF LackingOf
<1>9. ib[j].x = x /\ ib[j].d = d => IF g = 0 THEN j \in L ELSE g \in P
  <2> SUFFICES ASSUME ib[j].x = x, ib[j].d = d
               PROVE  IF g = 0 THEN j \in L ELSE g \in P
    OBVIOUS
  <2>1. g = 0 => j \in L BY <1>0 DEF LackingOf
  <2>2. g # 0 => g \in PendingQueued(p) /\ p[g].x = x /\ p[g].d = d
    BY <1>0 DEF EntriesOK
  <2> QED BY <2>1, <2>2, PendAtEnd
<1>10. Q \in SUBSET (P \ {g}) BY <1>5
<1> HIDE DEF P, Q, L, L2, g
<1>11. /\ IsFiniteSet(P \ {g})
       /\ Cardinality(P \ {g})
            = IF g \in P THEN Cardinality(P) - 1 ELSE Cardinality(P)
  BY <1>6, FS_RemoveElement
<1>12. /\ IsFiniteSet(L \ {j})
       /\ Cardinality(L \ {j})
            = IF j \in L THEN Cardinality(L) - 1 ELSE Cardinality(L)
  BY <1>7, FS_RemoveElement
<1>13. Cardinality(Q) <= Cardinality(P \ {g}) /\ Cardinality(Q) \in Nat
  BY <1>10, <1>11, PartOf
<1>14. Cardinality(L2) <= Cardinality(L \ {j}) /\ Cardinality(L2) \in Nat
  <2> DEFINE h == [m \in L2 |-> f[m]]
             T == L \ {j}
  <2>1. h \in [L2 -> T] BY <1>8
  <2>2. \A a, b \in L2 : h[a] = h[b] => a = b BY <1>4, <1>8
  <2>3. IsFiniteSet(T) BY <1>12
  <2> HIDE DEF h, T
  <2>4. Cardinality(L2) <= Cardinality(T) /\ Cardinality(L2) \in Nat
    BY ONLY <2>1, <2>2, <2>3, NoMore
  <2> QED BY <2>4 DEF T
<1>15. Cardinality(Q) + Cardinality(L2) <= Cardinality(P) + Cardinality(L)
  BY <1>6, <1>7, <1>11, <1>12, <1>13, <1>14
<1>16. ib[j].x = x /\ ib[j].d = d =>
          Cardinality(Q) + Cardinality(L2) + 1 <= Cardinality(P) + Cardinality(L)
  BY <1>6, <1>7, <1>9, <1>11, <1>12, <1>13, <1>14
<1> QED BY <1>15, <1>16 DEF Owing, P, Q, L, L2, q, ib2, en

\* What fits the submissions still does when an item drains an entry.
LEMMA DrainFits ==
    ASSUME NEW p \in Seq(Entries), NEW ib \in Seq(BoxItems), PathOK(p),
           EntriesOK(p, ib), NEW j \in 1..Len(ib), NEW x, NEW s \in Int,
           FitsAll(p, ib, x, s)
    PROVE  FitsAll(Append(p, Item(ib[j].x, ib[j].entry)), Without(ib, j), x, s)
<1> DEFINE en == Item(ib[j].x, ib[j].entry)
           q == Append(p, en)
           ib2 == Without(ib, j)
           N == Len(p)
           cT == Owing(p, ib, x, AsDelivery)
           cF == Owing(p, ib, x, AsQueued)
           cT2 == Owing(q, ib2, x, AsDelivery)
           cF2 == Owing(q, ib2, x, AsQueued)
<1>0. ib[j] \in BoxItems OBVIOUS
<1>1. ib[j].x \in Contents /\ ib[j].entry \in Nat /\ ib[j].d \in BOOLEAN
  BY <1>0 DEF BoxItems
<1>2. en \in Entries /\ en.k = "item" /\ en.x = ib[j].x BY <1>1, ItemIs
<1>a. /\ cT2 <= cT
      /\ ib[j].x = x /\ ib[j].d = AsDelivery => cT2 + 1 <= cT
  BY DrainOwing
<1>b. /\ cF2 <= cF
      /\ ib[j].x = x /\ ib[j].d = AsQueued => cF2 + 1 <= cF
  BY DrainOwing
<1> HIDE DEF en
<1>3. /\ q \in Seq(Entries) /\ Len(q) = N + 1 /\ N \in Nat
      /\ \A e \in 1..N : q[e] = p[e]
      /\ q[N + 1] = en
  BY <1>1, <1>2, AppendPath
<1>4. ib2 \in Seq(BoxItems) BY WithoutIs
<1> HIDE DEF q, ib2
<1>5. /\ cT \in Nat /\ cF \in Nat /\ cT2 \in Nat /\ cF2 \in Nat
      /\ Cardinality(PendAt(p, N, x, AsDelivery)) <= cT
      /\ Cardinality(PendAt(p, N, x, AsQueued)) <= cF
  BY <1>3, <1>4, OwingIs
<1>6. Fits(p, x, cT, cF, s) BY DEF FitsAll
<1>7. ib[j].x = x => cT2 + cF2 + 1 <= cT + cF
  <2>1. ib[j].d = AsDelivery \/ ib[j].d = AsQueued
    BY <1>1 DEF AsDelivery, AsQueued
  <2> HIDE DEF cT, cF, cT2, cF2
  <2> QED BY <1>a, <1>b, <1>5, <2>1
<1> HIDE DEF cT, cF, cT2, cF2
<1>8. \A m \in 0..N : /\ ItemsAt(q, m, x) = ItemsAt(p, m, x)
                      /\ \A d \in {AsDelivery, AsQueued} :
                            PendAt(q, m, x, d) = PendAt(p, m, x, d)
  <2> TAKE m \in 0..N
  <2>1. \A e \in 1..m : e \in 1..N /\ \A l \in (e + 1)..m : l \in 1..N
    BY <1>3
  <2>2. ItemsAt(q, m, x) = ItemsAt(p, m, x) BY <1>3, <2>1 DEF ItemsAt
  <2>3. \A d \in {AsDelivery, AsQueued} : PendAt(q, m, x, d) = PendAt(p, m, x, d)
    BY <1>3, <2>1 DEF PendAt
  <2> QED BY <2>2, <2>3
<1>9. /\ Cardinality(ItemsAt(p, N, x)) \in Nat
      /\ Cardinality(ItemsAt(q, N + 1, x)) \in Nat
      /\ Cardinality(ItemsAt(q, N + 1, x))
           <= Cardinality(ItemsAt(p, N, x)) + (IF ib[j].x = x THEN 1 ELSE 0)
  <2> DEFINE I == ItemsAt(p, N, x)
             I2 == ItemsAt(q, N + 1, x)
  <2>1. IsFiniteSet(I) /\ Cardinality(I) \in Nat BY <1>3, PathCounts
  <2>2. \A e \in I2 : e \in I \/ (e = N + 1 /\ ib[j].x = x)
    <3> TAKE e \in I2
    <3>1. e \in 1..(N + 1) /\ q[e].k = "item" /\ q[e].x = x
      BY DEF ItemsAt
    <3>2. CASE e \in 1..N BY <1>3, <3>1, <3>2 DEF ItemsAt
    <3>3. CASE e = N + 1 BY <1>2, <1>3, <3>1, <3>3
    <3> QED BY <1>3, <3>1, <3>2, <3>3
  <2> HIDE DEF I, I2
  <2>3. CASE ib[j].x = x
    <3>1. I2 \subseteq I \cup {N + 1} BY <2>2
    <3>2. IsFiniteSet({N + 1}) /\ Cardinality({N + 1}) = 1
      BY FS_Singleton
    <3>3. Cardinality(I2) <= Cardinality(I) + Cardinality({N + 1})
          /\ Cardinality(I2) \in Nat
      BY <2>1, <3>1, <3>2, Covered
    <3> QED BY <2>1, <2>3, <3>2, <3>3 DEF I, I2
  <2>4. CASE ib[j].x # x
    <3>1. I2 \in SUBSET I BY <2>2, <2>4
    <3>2. Cardinality(I2) <= Cardinality(I) /\ Cardinality(I2) \in Nat
      BY <2>1, <3>1, PartOf
    <3> QED BY <2>1, <2>4, <3>2 DEF I, I2
  <2> QED BY <2>3, <2>4
<1>10. ASSUME NEW n \in 0..(N + 1)
       PROVE  \E b \in 0..N :
                 /\ n <= N => n <= b
                 /\ n = N + 1 => b = N
                 /\ Level(q, cT2, n, x, AsDelivery) \in Nat
                 /\ Level(p, cT, b, x, AsDelivery) \in Nat
                 /\ Level(q, cT2, n, x, AsDelivery)
                      <= Level(p, cT, b, x, AsDelivery)
  <2>0. Level(p, cT, N, x, AsDelivery) = cT BY DEF Level
  <2>1. CASE n = N + 1
    <3>1. Level(q, cT2, n, x, AsDelivery) = cT2 /\ N \in 0..N
      BY <1>3, <2>1 DEF Level
    <3> QED BY <1>3, <1>5, <1>a, <2>0, <2>1, <3>1 DEF cT, cT2
  <2>2. CASE n = N
    <3>1. Level(q, cT2, n, x, AsDelivery)
            = Cardinality(PendAt(q, n, x, AsDelivery))
      BY <1>3, <2>2 DEF Level
    <3>2. n \in 0..N /\ n \in Nat BY <1>3, <2>2
    <3>3. PendAt(q, n, x, AsDelivery) = PendAt(p, n, x, AsDelivery)
          /\ Cardinality(PendAt(p, n, x, AsDelivery)) \in Nat
      BY <1>8, <3>2, PathCounts
    <3> QED BY <1>5, <2>0, <2>2, <3>1, <3>2, <3>3
  <2>3. CASE n < N
    <3>1. n \in 0..N /\ n \in Nat /\ n # N /\ n # N + 1 BY <1>3, <2>3
    <3>2. /\ Level(q, cT2, n, x, AsDelivery)
               = Cardinality(PendAt(q, n, x, AsDelivery))
          /\ Level(p, cT, n, x, AsDelivery)
               = Cardinality(PendAt(p, n, x, AsDelivery))
      BY <1>3, <3>1 DEF Level
    <3>3. PendAt(q, n, x, AsDelivery) = PendAt(p, n, x, AsDelivery)
          /\ Cardinality(PendAt(p, n, x, AsDelivery)) \in Nat
      BY <1>8, <3>1, PathCounts
    <3> QED BY <3>1, <3>2, <3>3
  <2> QED BY <1>3, <2>1, <2>2, <2>3
<1>11. ASSUME NEW n \in 0..(N + 1)
       PROVE  \E b \in 0..N :
                 /\ n <= N => n <= b
                 /\ n = N + 1 => b = N
                 /\ Level(q, cF2, n, x, AsQueued) \in Nat
                 /\ Level(p, cF, b, x, AsQueued) \in Nat
                 /\ Level(q, cF2, n, x, AsQueued)
                      <= Level(p, cF, b, x, AsQueued)
  <2>0. Level(p, cF, N, x, AsQueued) = cF BY DEF Level
  <2>1. CASE n = N + 1
    <3>1. Level(q, cF2, n, x, AsQueued) = cF2 /\ N \in 0..N
      BY <1>3, <2>1 DEF Level
    <3> QED BY <1>3, <1>5, <1>b, <2>0, <2>1, <3>1 DEF cF, cF2
  <2>2. CASE n = N
    <3>1. Level(q, cF2, n, x, AsQueued)
            = Cardinality(PendAt(q, n, x, AsQueued))
      BY <1>3, <2>2 DEF Level
    <3>2. n \in 0..N /\ n \in Nat BY <1>3, <2>2
    <3>3. PendAt(q, n, x, AsQueued) = PendAt(p, n, x, AsQueued)
          /\ Cardinality(PendAt(p, n, x, AsQueued)) \in Nat
      BY <1>8, <3>2, PathCounts
    <3> QED BY <1>5, <2>0, <2>2, <3>1, <3>2, <3>3
  <2>3. CASE n < N
    <3>1. n \in 0..N /\ n \in Nat /\ n # N /\ n # N + 1 BY <1>3, <2>3
    <3>2. /\ Level(q, cF2, n, x, AsQueued)
               = Cardinality(PendAt(q, n, x, AsQueued))
          /\ Level(p, cF, n, x, AsQueued)
               = Cardinality(PendAt(p, n, x, AsQueued))
      BY <1>3, <3>1 DEF Level
    <3>3. PendAt(q, n, x, AsQueued) = PendAt(p, n, x, AsQueued)
          /\ Cardinality(PendAt(p, n, x, AsQueued)) \in Nat
      BY <1>8, <3>1, PathCounts
    <3> QED BY <3>1, <3>2, <3>3
  <2> QED BY <1>3, <2>1, <2>2, <2>3
<1>12. ASSUME NEW m \in 0..(N + 1), NEW n1 \in 0..(N + 1),
              NEW n2 \in 0..(N + 1), m <= n1, m <= n2
       PROVE  Cardinality(ItemsAt(q, m, x)) + Level(q, cT2, n1, x, AsDelivery)
                + Level(q, cF2, n2, x, AsQueued) <= s
  <2>1. CASE m = N + 1
    <3>1. n1 = N + 1 /\ n2 = N + 1 BY <1>3, <1>12, <2>1
    <3>2. Level(q, cT2, n1, x, AsDelivery) = cT2
          /\ Level(q, cF2, n2, x, AsQueued) = cF2
      BY <1>3, <3>1 DEF Level
    <3>3. Cardinality(ItemsAt(p, N, x)) + cT + cF <= s
      <4>1. Level(p, cT, N, x, AsDelivery) = cT /\ Level(p, cF, N, x, AsQueued) = cF
        BY DEF Level
      <4>2. N \in 0..Len(p) BY <1>3
      <4> QED BY <1>3, <1>6, <4>1, <4>2 DEF Fits
    <3> DEFINE i == Cardinality(ItemsAt(p, N, x))
               i2 == Cardinality(ItemsAt(q, N + 1, x))
    <3>4. i \in Nat /\ i2 \in Nat /\ i2 <= i + (IF ib[j].x = x THEN 1 ELSE 0)
          /\ i + cT + cF <= s
      BY <1>9, <3>3
    <3> HIDE DEF i, i2
    <3>5. i2 + cT2 + cF2 <= s
      <4>1. /\ cT \in Nat /\ cF \in Nat /\ cT2 \in Nat /\ cF2 \in Nat
            /\ cT2 <= cT /\ cF2 <= cF
        BY <1>5, <1>a, <1>b
      <4>2. CASE ib[j].x = x
        <5>1. i2 <= i + 1 /\ cT2 + cF2 + 1 <= cT + cF
          BY <1>7, <3>4, <4>2
        <5> QED BY ONLY s \in Int, <3>4, <4>1, <5>1
      <4>3. CASE ib[j].x # x
        <5>1. i2 <= i BY <3>4, <4>3
        <5> QED BY ONLY s \in Int, <3>4, <4>1, <5>1
      <4> QED BY <4>2, <4>3
    <3> QED BY <2>1, <3>2, <3>5 DEF i2
  <2>2. CASE m # N + 1
    <3>1. m \in 0..N BY <1>3, <2>2
    <3>2. PICK b1 \in 0..N :
                 /\ n1 <= N => n1 <= b1
                 /\ n1 = N + 1 => b1 = N
                 /\ Level(q, cT2, n1, x, AsDelivery) \in Nat
                 /\ Level(p, cT, b1, x, AsDelivery) \in Nat
                 /\ Level(q, cT2, n1, x, AsDelivery)
                      <= Level(p, cT, b1, x, AsDelivery)
      BY <1>10
    <3>3. PICK b2 \in 0..N :
                 /\ n2 <= N => n2 <= b2
                 /\ n2 = N + 1 => b2 = N
                 /\ Level(q, cF2, n2, x, AsQueued) \in Nat
                 /\ Level(p, cF, b2, x, AsQueued) \in Nat
                 /\ Level(q, cF2, n2, x, AsQueued)
                      <= Level(p, cF, b2, x, AsQueued)
      BY <1>11
    <3>4. m <= b1 /\ m <= b2 BY <1>3, <1>12, <3>1, <3>2, <3>3
    <3>5. Cardinality(ItemsAt(p, m, x)) + Level(p, cT, b1, x, AsDelivery)
            + Level(p, cF, b2, x, AsQueued) <= s
      BY <1>6, <3>1, <3>4 DEF Fits
    <3>6. ItemsAt(q, m, x) = ItemsAt(p, m, x)
          /\ Cardinality(ItemsAt(p, m, x)) \in Nat
      BY <1>3, <1>8, <3>1, PathCounts
    <3> DEFINE i == Cardinality(ItemsAt(p, m, x))
               l1 == Level(p, cT, b1, x, AsDelivery)
               l2 == Level(p, cF, b2, x, AsQueued)
               k1 == Level(q, cT2, n1, x, AsDelivery)
               k2 == Level(q, cF2, n2, x, AsQueued)
    <3>7. /\ i \in Nat /\ l1 \in Nat /\ l2 \in Nat /\ k1 \in Nat /\ k2 \in Nat
          /\ k1 <= l1 /\ k2 <= l2 /\ i + l1 + l2 <= s
      BY <3>2, <3>3, <3>5, <3>6
    <3>8. SUFFICES i + k1 + k2 <= s BY <3>6
    <3> HIDE DEF i, l1, l2, k1, k2
    <3> QED BY <3>7
  <2> QED BY <2>1, <2>2
<1>13. Fits(q, x, cT2, cF2, s) BY <1>3, <1>12 DEF Fits
<1> QED BY <1>13 DEF FitsAll, q, ib2, cT2, cF2, en

\* One input more in the inbox.
LEMMA FitsAppend ==
    ASSUME NEW p \in Seq(Entries), NEW ib \in Seq(BoxItems),
           NEW in \in BoxItems, NEW x, NEW s \in Int, FitsAll(p, ib, x, s),
           NEW s2 \in Int, s + (IF in.x = x THEN 1 ELSE 0) <= s2
    PROVE  FitsAll(p, Append(ib, in), x, s2)
<1> DEFINE ib2 == Append(ib, in)
<1>1. /\ DOMAIN ib = 1..Len(ib) /\ Len(ib) \in Nat
      /\ ib2 \in Seq(BoxItems) /\ DOMAIN ib2 = 1..(Len(ib) + 1)
      /\ \A j \in 1..Len(ib) : ib2[j] = ib[j]
      /\ ib2[Len(ib) + 1] = in
  OBVIOUS
<1> HIDE DEF ib2
<1>2. ASSUME NEW d
      PROVE  /\ Owing(p, ib, x, d) \in Nat /\ Owing(p, ib2, x, d) \in Nat
             /\ Owing(p, ib2, x, d) <= Owing(p, ib, x, d)
                   + (IF in.x = x /\ in.d = d THEN 1 ELSE 0)
  <2> DEFINE L == LackingOf(ib, x, d)
             L2 == LackingOf(ib2, x, d)
             P == PendAt(p, Len(p), x, d)
             n == Len(ib) + 1
  <2>1. Owing(p, ib, x, d) \in Nat /\ Owing(p, ib2, x, d) \in Nat
    BY <1>1, OwingIs
  <2>2. \A j \in L2 : j \in L \/ (j = n /\ in.x = x /\ in.d = d)
    <3> TAKE j \in L2
    <3>1. j \in 1..n /\ ib2[j].entry = 0 /\ ib2[j].x = x /\ ib2[j].d = d
      BY <1>1 DEF LackingOf
    <3>2. j \in 1..Len(ib) \/ j = n BY <1>1, <3>1
    <3> QED BY <1>1, <3>1, <3>2 DEF LackingOf
  <2>3. IsFiniteSet(L) /\ Cardinality(L) \in Nat /\ Cardinality(L2) \in Nat
    BY <1>1, BoxCounts
  <2>4. Cardinality(P) \in Nat BY PathCounts
  <2> HIDE DEF L, L2, P
  <2>5. Cardinality(L2) <= Cardinality(L)
                             + (IF in.x = x /\ in.d = d THEN 1 ELSE 0)
    <3>1. CASE in.x = x /\ in.d = d
      <4>1. L2 \subseteq L \cup {n} BY <2>2
      <4>2. IsFiniteSet({n}) /\ Cardinality({n}) = 1 BY FS_Singleton
      <4>3. Cardinality(L2) <= Cardinality(L) + Cardinality({n})
        BY <2>3, <4>1, <4>2, Covered
      <4> QED BY <3>1, <4>2, <4>3
    <3>2. CASE ~(in.x = x /\ in.d = d)
      <4>1. L2 \in SUBSET L BY <2>2, <3>2
      <4>2. Cardinality(L2) <= Cardinality(L) BY <2>3, <4>1, PartOf
      <4> QED BY <2>3, <3>2, <4>2
    <3> QED BY <3>1, <3>2
  <2>6. /\ Owing(p, ib, x, d) = Cardinality(P) + Cardinality(L)
        /\ Owing(p, ib2, x, d) = Cardinality(P) + Cardinality(L2)
    BY DEF Owing, P, L, L2
  <2> QED BY <2>1, <2>3, <2>4, <2>5, <2>6
<1> DEFINE cT == Owing(p, ib, x, AsDelivery)
           cF == Owing(p, ib, x, AsQueued)
           cT2 == Owing(p, ib2, x, AsDelivery)
           cF2 == Owing(p, ib2, x, AsQueued)
           a == IF in.x = x /\ in.d = AsDelivery THEN 1 ELSE 0
           b == IF in.x = x /\ in.d = AsQueued THEN 1 ELSE 0
<1>3. /\ cT \in Nat /\ cF \in Nat /\ cT2 \in Nat /\ cF2 \in Nat
      /\ cT2 <= cT + a /\ cF2 <= cF + b /\ Fits(p, x, cT, cF, s)
  BY <1>2 DEF FitsAll
<1>4. a \in Nat /\ b \in Nat /\ s + a + b <= s2
  <2>1. AsDelivery # AsQueued BY DEF AsDelivery, AsQueued
  <2> QED BY <2>1
<1> HIDE DEF cT, cF, cT2, cF2, a, b
<1>5. Fits(p, x, cT2, cF2, s2) BY <1>3, <1>4, FitsMore
<1> QED BY <1>5 DEF FitsAll, cT2, cF2, ib2

\* Fewer inputs in the inbox, or the same with other marks.
LEMMA FitsFewer ==
    ASSUME NEW p \in Seq(Entries), NEW ib \in Seq(BoxItems),
           NEW ib2 \in Seq(BoxItems), Len(ib2) <= Len(ib),
           \A j \in 1..Len(ib2) :
              /\ ib2[j].entry = ib[j].entry
              /\ ib2[j].x = ib[j].x /\ ib2[j].d = ib[j].d,
           NEW x, NEW s \in Int, FitsAll(p, ib, x, s),
           NEW s2 \in Int, s <= s2
    PROVE  FitsAll(p, ib2, x, s2)
<1>1. /\ DOMAIN ib = 1..Len(ib) /\ Len(ib) \in Nat
      /\ DOMAIN ib2 = 1..Len(ib2) /\ Len(ib2) \in Nat
      /\ \A j \in 1..Len(ib2) : j \in 1..Len(ib)
  OBVIOUS
<1>2. ASSUME NEW d
      PROVE  /\ Owing(p, ib, x, d) \in Nat /\ Owing(p, ib2, x, d) \in Nat
             /\ Owing(p, ib2, x, d) <= Owing(p, ib, x, d)
  <2> DEFINE L == LackingOf(ib, x, d)
             L2 == LackingOf(ib2, x, d)
             P == PendAt(p, Len(p), x, d)
  <2>1. Owing(p, ib, x, d) \in Nat /\ Owing(p, ib2, x, d) \in Nat
    BY OwingIs
  <2>2. L2 \in SUBSET L BY <1>1 DEF LackingOf
  <2>3. IsFiniteSet(L) BY BoxCounts
  <2>4. Cardinality(P) \in Nat BY PathCounts
  <2>5. /\ Owing(p, ib, x, d) = Cardinality(P) + Cardinality(L)
        /\ Owing(p, ib2, x, d) = Cardinality(P) + Cardinality(L2)
    BY DEF Owing
  <2> HIDE DEF L, L2, P
  <2>6. Cardinality(L2) <= Cardinality(L) /\ Cardinality(L2) \in Nat
        /\ Cardinality(L) \in Nat
    BY <2>2, <2>3, PartOf
  <2> QED BY <2>1, <2>4, <2>5, <2>6
<1> DEFINE cT == Owing(p, ib, x, AsDelivery)
           cF == Owing(p, ib, x, AsQueued)
           cT2 == Owing(p, ib2, x, AsDelivery)
           cF2 == Owing(p, ib2, x, AsQueued)
<1>3. /\ cT \in Nat /\ cF \in Nat /\ cT2 \in Nat /\ cF2 \in Nat
      /\ cT2 <= cT /\ cF2 <= cF /\ Fits(p, x, cT, cF, s)
  BY <1>2 DEF FitsAll
<1> HIDE DEF cT, cF, cT2, cF2
<1>4. cT2 <= cT + 0 /\ cF2 <= cF + 0 /\ s + 0 + 0 <= s2 BY <1>3
<1>5. Fits(p, x, cT2, cF2, s2) BY <1>3, <1>4, FitsMore
<1> QED BY <1>5 DEF FitsAll, cT2, cF2

\* What fits is not on the path too often.
LEMMA FitsAccounted ==
    ASSUME NEW p \in Seq(Entries), NEW ib \in Seq(BoxItems),
           NEW x \in Contents, NEW s \in Int, FitsAll(p, ib, x, s)
    PROVE  Accounted(p)[x] <= s
<1> DEFINE S == {e \in DOMAIN p : p[e].x = x /\
                    (p[e].k = "item" \/ e \in PendingQueued(p))}
           I == ItemsAt(p, Len(p), x)
           T == PendAt(p, Len(p), x, AsDelivery)
           U == PendAt(p, Len(p), x, AsQueued)
           cT == Owing(p, ib, x, AsDelivery)
           cF == Owing(p, ib, x, AsQueued)
<1>1. DOMAIN p = 1..Len(p) /\ Len(p) \in Nat OBVIOUS
<1>2. Accounted(p)[x] = Cardinality(S) BY DEF Accounted
<1>3. S \subseteq I \cup (T \cup U)
  <2> SUFFICES ASSUME NEW e \in S PROVE e \in I \cup (T \cup U)
    OBVIOUS
  <2>1. CASE p[e].k = "item" BY <1>1, <2>1 DEF ItemsAt
  <2>2. CASE e \in PendingQueued(p)
    <3>1. p[e] \in Entries BY <1>1
    <3>2. p[e].d = AsDelivery \/ p[e].d = AsQueued
      BY <3>1 DEF Entries, AsDelivery, AsQueued
    <3> QED BY <2>2, <3>2, PendAtEnd
  <2> QED BY <2>1, <2>2
<1>4. IsFiniteSet(I) /\ IsFiniteSet(T) /\ IsFiniteSet(U)
  BY <1>1, PathCounts
<1>5. Cardinality(T) <= cT /\ Cardinality(U) <= cF /\ cT \in Nat /\ cF \in Nat
  BY OwingIs
<1>6. Cardinality(I) + cT + cF <= s
  <2>1. /\ Level(p, cT, Len(p), x, AsDelivery) = cT
        /\ Level(p, cF, Len(p), x, AsQueued) = cF
    BY DEF Level
  <2>2. Len(p) \in 0..Len(p) /\ Len(p) <= Len(p) BY <1>1
  <2> HIDE DEF cT, cF
  <2>3. Fits(p, x, cT, cF, s) BY DEF FitsAll, cT, cF
  <2> QED BY <2>1, <2>2, <2>3 DEF Fits
<1> HIDE DEF S, I, T, U, cT, cF
<1>7. /\ IsFiniteSet(T \cup U) /\ Cardinality(T) \in Nat
      /\ Cardinality(U) \in Nat /\ Cardinality(T \cup U) \in Nat
      /\ Cardinality(T \cup U) <= Cardinality(T) + Cardinality(U)
  BY <1>4, Covered
<1>8. Cardinality(S) <= Cardinality(I) + Cardinality(T \cup U)
      /\ Cardinality(S) \in Nat /\ Cardinality(I) \in Nat
  BY <1>3, <1>4, <1>7, Covered
<1> QED BY <1>2, <1>5, <1>6, <1>7, <1>8

\* The queued events to come of inputs that a host queued into the agent
\* itself: they were submitted, and the path does not owe them yet.
DirectOf(ev, c, x) ==
    {m \in DOMAIN ev : ev[m].p > 0 /\ c[ev[m].p] = "direct" /\ ev[m].x = x}

\* The events to come of inputs queued at the agent are finitely many.
LEMMA DirectCounts ==
    ASSUME NEW ev \in Seq(Ins), NEW c, NEW x
    PROVE  /\ IsFiniteSet(DirectOf(ev, c, x)) /\ DOMAIN ev = 1..Len(ev)
           /\ Cardinality(DirectOf(ev, c, x)) \in Nat
<1>1. DOMAIN ev = 1..Len(ev) /\ Len(ev) \in Nat OBVIOUS
<1>2. IsFiniteSet(DOMAIN ev) BY <1>1, FS_Interval
<1>3. DirectOf(ev, c, x) \in SUBSET DOMAIN ev BY DEF DirectOf
<1> QED BY <1>1, <1>2, <1>3, PartOf

\* An event to come is of an input the agent has.
LEMMA EventIs ==
    ASSUME NEW ib, NEW c, NEW ag, NEW ev, BoxInv(ib, c, ag, ev),
           NEW m \in DOMAIN ev, ev[m].p > 0
    PROVE  /\ ev[m].p \in Inputs /\ ev[m].x = Content[ev[m].p]
           /\ c[ev[m].p] \in {"acked", "direct"}
<1>1. PICK a \in DOMAIN ag : ag[a] = ev[m] BY DEF BoxInv, EventsOK
<1> QED BY <1>1 DEF BoxInv, QueueOK

\* A submission that moves on without becoming one of them.
LEMMA DirectKept ==
    ASSUME NEW ib, NEW c \in [Inputs -> Pcs], NEW ag, NEW ev \in Seq(Ins),
           BoxInv(ib, c, ag, ev), NEW i \in Inputs, NEW v, v # "direct",
           NEW x
    PROVE  Cardinality(DirectOf(ev, [c EXCEPT ![i] = v], x))
             <= Cardinality(DirectOf(ev, c, x))
<1> DEFINE c2 == [c EXCEPT ![i] = v]
<1>1. \A m \in DOMAIN ev : ev[m].p > 0 => ev[m].p \in Inputs BY EventIs
<1>2. \A k \in Inputs : c2[k] = "direct" => c[k] = "direct" OBVIOUS
<1> HIDE DEF c2
<1>3. DirectOf(ev, c2, x) \in SUBSET DirectOf(ev, c, x)
  BY <1>1, <1>2 DEF DirectOf
<1>4. IsFiniteSet(DirectOf(ev, c, x)) BY DirectCounts
<1>5. Cardinality(DirectOf(ev, c2, x)) <= Cardinality(DirectOf(ev, c, x))
  BY <1>3, <1>4, PartOf
<1> QED BY <1>5 DEF c2

\* The agent takes an input.
LEMMA DirectTaken ==
    ASSUME NEW ib, NEW c \in [Inputs -> Pcs], NEW ag, NEW ev \in Seq(Ins),
           BoxInv(ib, c, ag, ev), NEW i \in Inputs, Of(i) \in Ins, NEW v,
           \/ c[i] = "written" /\ v = "acked"
           \/ c[i] = "new" /\ v = "direct",
           NEW x
    PROVE  LET c2 == [c EXCEPT ![i] = v] IN
           Cardinality(DirectOf(Append(ev, Of(i)), c2, x))
             <= Cardinality(DirectOf(ev, c, x))
                + (IF v = "direct" /\ Content[i] = x THEN 1 ELSE 0)
<1> DEFINE c2 == [c EXCEPT ![i] = v]
           ev2 == Append(ev, Of(i))
           S == DirectOf(ev, c, x)
           S2 == DirectOf(ev2, c2, x)
           n == Len(ev) + 1
<1>1. /\ DOMAIN ev = 1..Len(ev) /\ Len(ev) \in Nat /\ DOMAIN ev2 = 1..n
      /\ \A m \in 1..Len(ev) : ev2[m] = ev[m]
      /\ ev2[n] = Of(i)
  OBVIOUS
<1>2. \A m \in DOMAIN ev : ev[m].p > 0 => ev[m].p \in Inputs
                              /\ c[ev[m].p] \in {"acked", "direct"}
  BY EventIs
<1>3. c2[i] = v /\ \A k \in Inputs : k # i => c2[k] = c[k] OBVIOUS
<1>4. Of(i).p = i /\ Of(i).x = Content[i] BY DEF Of
<1> HIDE DEF c2, ev2
<1>5. \A m \in S2 : m \in S \/ (m = n /\ v = "direct" /\ Content[i] = x)
  <2> TAKE m \in S2
  <2>1. m \in 1..n /\ ev2[m].p > 0 /\ c2[ev2[m].p] = "direct" /\ ev2[m].x = x
    BY <1>1 DEF DirectOf
  <2>2. CASE m \in 1..Len(ev)
    <3>1. ev[m].p \in Inputs /\ c[ev[m].p] \in {"acked", "direct"}
      BY <1>1, <1>2, <2>1, <2>2
    <3>2. ev[m].p # i BY <3>1
    <3> QED BY <1>1, <1>3, <2>1, <2>2, <3>1, <3>2 DEF DirectOf
  <2>3. CASE m = n BY <1>1, <1>3, <1>4, <2>1, <2>3
  <2> QED BY <1>1, <2>1, <2>2, <2>3
<1>6. IsFiniteSet(S) /\ Cardinality(S) \in Nat BY DirectCounts
<1> HIDE DEF S, S2
<1>7. CASE v = "direct" /\ Content[i] = x
  <2>1. S2 \subseteq S \cup {n} BY <1>5
  <2>2. IsFiniteSet({n}) /\ Cardinality({n}) = 1 BY FS_Singleton
  <2>3. Cardinality(S2) <= Cardinality(S) + Cardinality({n})
    BY <1>6, <2>1, <2>2, Covered
  <2> QED BY <1>7, <2>2, <2>3 DEF S, S2, c2, ev2
<1>8. CASE ~(v = "direct" /\ Content[i] = x)
  <2>1. S2 \in SUBSET S BY <1>5, <1>8
  <2>2. Cardinality(S2) <= Cardinality(S) BY <1>6, <2>1, PartOf
  <2>3. Cardinality(S2) <= Cardinality(S) + 0 BY <1>6, <2>2
  <2> QED BY <1>8, <2>3 DEF S, S2, c2, ev2
<1> QED BY <1>7, <1>8

\* The first event is seen.
LEMMA DirectSeen ==
    ASSUME NEW ev \in Seq(Ins), ev # <<>>, NEW c, NEW x
    PROVE  Cardinality(DirectOf(Tail(ev), c, x))
             + (IF Head(ev).p > 0 /\ c[Head(ev).p] = "direct" /\ Head(ev).x = x
                THEN 1 ELSE 0)
             <= Cardinality(DirectOf(ev, c, x))
<1> DEFINE ev2 == Tail(ev)
           S == DirectOf(ev, c, x)
           S2 == DirectOf(ev2, c, x)
           f == [m \in S2 |-> m + 1]
           T == S \ {1}
<1>1. /\ ev2 \in Seq(Ins) /\ Len(ev) \in Nat \ {0}
      /\ DOMAIN ev = 1..Len(ev) /\ DOMAIN ev2 = 1..(Len(ev) - 1)
      /\ \A m \in 1..(Len(ev) - 1) : ev2[m] = ev[m + 1]
      /\ Head(ev) = ev[1] /\ 1 \in DOMAIN ev
  OBVIOUS
<1> HIDE DEF ev2
<1>2. ASSUME NEW m \in S2 PROVE m + 1 \in T /\ m \in Nat
  <2>1. /\ m \in 1..(Len(ev) - 1) /\ ev2[m].p > 0
        /\ c[ev2[m].p] = "direct" /\ ev2[m].x = x
    BY <1>1 DEF DirectOf
  <2>2. m + 1 \in DOMAIN ev /\ ev2[m] = ev[m + 1] /\ m + 1 # 1 /\ m \in Nat
    BY <1>1, <2>1
  <2> QED BY <2>1, <2>2 DEF DirectOf
<1>3. IsFiniteSet(S) /\ Cardinality(S) \in Nat BY DirectCounts
<1>4. Head(ev).p > 0 /\ c[Head(ev).p] = "direct" /\ Head(ev).x = x => 1 \in S
  BY <1>1 DEF DirectOf
<1> HIDE DEF S, S2
<1>5. /\ IsFiniteSet(T)
      /\ Cardinality(T) = IF 1 \in S THEN Cardinality(S) - 1 ELSE Cardinality(S)
  BY <1>3, FS_RemoveElement
<1> HIDE DEF T
<1>6. f \in [S2 -> T] BY <1>2
<1>7. \A a, b \in S2 : f[a] = f[b] => a = b BY <1>2
<1> HIDE DEF f
<1>8. Cardinality(S2) <= Cardinality(T) /\ Cardinality(S2) \in Nat
  BY ONLY <1>5, <1>6, <1>7, NoMore
<1>9. Cardinality(S2)
         + (IF Head(ev).p > 0 /\ c[Head(ev).p] = "direct" /\ Head(ev).x = x
            THEN 1 ELSE 0) <= Cardinality(S)
  BY <1>3, <1>4, <1>5, <1>8
<1> QED BY <1>9 DEF S, S2, ev2

\* Events of inputs that are no host's add none.
LEMMA DirectHandedBack ==
    ASSUME NEW ev \in Seq(Ins), NEW w \in Seq(Ins),
           \A m \in 1..Len(w) : w[m].p < 0, NEW c, NEW x
    PROVE  Cardinality(DirectOf(ev \o w, c, x))
             <= Cardinality(DirectOf(ev, c, x))
<1> DEFINE ev2 == ev \o w
<1>1. /\ ev2 \in Seq(Ins) /\ DOMAIN ev2 = 1..(Len(ev) + Len(w))
      /\ DOMAIN ev = 1..Len(ev)
      /\ \A a \in 1..Len(ev) : ev2[a] = ev[a]
      /\ \A a \in 1..(Len(ev) + Len(w)) : a \notin 1..Len(ev) =>
            a - Len(ev) \in 1..Len(w) /\ ev2[a] = w[a - Len(ev)]
  BY ConcatIs
<1> HIDE DEF ev2
<1>2. \A a \in 1..Len(w) : w[a].p \in Int
  <2> TAKE a \in 1..Len(w)
  <2>1. w[a] \in Ins OBVIOUS
  <2> QED BY <2>1 DEF Ins
<1>3. DirectOf(ev2, c, x) \in SUBSET DirectOf(ev, c, x)
  <2> SUFFICES ASSUME NEW a \in DirectOf(ev2, c, x)
               PROVE  a \in DirectOf(ev, c, x)
    OBVIOUS
  <2>1. /\ a \in 1..(Len(ev) + Len(w)) /\ ev2[a].p > 0
        /\ c[ev2[a].p] = "direct" /\ ev2[a].x = x
    BY <1>1 DEF DirectOf
  <2>2. a \in 1..Len(ev)
    <3> SUFFICES ASSUME a \notin 1..Len(ev) PROVE FALSE
      OBVIOUS
    <3>1. a - Len(ev) \in 1..Len(w) /\ ev2[a] = w[a - Len(ev)]
      BY <1>1, <2>1
    <3>2. w[a - Len(ev)].p < 0 /\ w[a - Len(ev)].p \in Int BY <1>2, <3>1
    <3> QED BY <2>1, <3>1, <3>2
  <2> QED BY <1>1, <2>1, <2>2 DEF DirectOf
<1>4. IsFiniteSet(DirectOf(ev, c, x)) BY DirectCounts
<1>5. Cardinality(DirectOf(ev2, c, x)) <= Cardinality(DirectOf(ev, c, x))
  BY <1>3, <1>4, PartOf
<1> QED BY <1>5 DEF ev2

-----------------------------------------------------------------------------
(* What the path accounts for of the inputs accepted: the items, and the   *)
(* entries of the inputs of the inbox whose caller has its answer.         *)

\* The inputs of an inbox that are written, and not by a call that is still
\* to be answered.
KeptOf(ib, c, x) ==
    {j \in DOMAIN ib : /\ ib[j].x = x /\ ~ib[j].declined /\ ib[j].entry # 0
                       /\ ib[j].p > 0 => c[ib[j].p] # "written"}

\* An input that has no entry is declined, or a host queued it into the agent
\* itself.
LateOK(ib, c) ==
    \A j \in DOMAIN ib : ib[j].entry = 0 =>
       ib[j].declined \/ (ib[j].p > 0 /\ c[ib[j].p] = "direct")

\* The inputs accepted are items, or in the inbox and written.
AckOK(p, ib, c, a) ==
    \A x \in Contents :
       a[x] <= Cardinality(ItemsAt(p, Len(p), x)) + Cardinality(KeptOf(ib, c, x))

\* The queued entries that the path owes of a content.
OwedOf(p, x) == {e \in PendingQueued(p) : p[e].x = x}

\* The inputs the recorder answers for are finitely many.
LEMMA KeptCounts ==
    ASSUME NEW ib \in Seq(BoxItems), NEW c, NEW x
    PROVE  /\ IsFiniteSet(KeptOf(ib, c, x)) /\ DOMAIN ib = 1..Len(ib)
           /\ Cardinality(KeptOf(ib, c, x)) \in Nat
<1>1. IsFiniteSet(DOMAIN ib) /\ DOMAIN ib = 1..Len(ib) BY BoxCounts
<1>2. KeptOf(ib, c, x) \in SUBSET DOMAIN ib BY DEF KeptOf
<1> QED BY <1>1, <1>2, PartOf

\* What the path accounts for is its items and what it owes.
LEMMA AccountedIs ==
    ASSUME NEW p \in Seq(Entries), NEW x \in Contents
    PROVE  /\ IsFiniteSet(OwedOf(p, x)) /\ Cardinality(OwedOf(p, x)) \in Nat
           /\ Accounted(p)[x] \in Nat
           /\ Cardinality(ItemsAt(p, Len(p), x)) \in Nat
           /\ Accounted(p)[x] = Cardinality(ItemsAt(p, Len(p), x))
                                + Cardinality(OwedOf(p, x))
<1> DEFINE I == ItemsAt(p, Len(p), x)
           O == OwedOf(p, x)
           A == {e \in DOMAIN p : p[e].x = x /\
                    (p[e].k = "item" \/ e \in PendingQueued(p))}
<1>1. Len(p) \in Nat /\ DOMAIN p = 1..Len(p) OBVIOUS
<1>2. IsFiniteSet(I) /\ Cardinality(I) \in Nat BY <1>1, PathCounts
<1>3. IsFiniteSet(PendingQueued(p)) /\ PendingQueued(p) \in SUBSET (1..Len(p))
  BY PendingIs
<1>4. \A g \in PendingQueued(p) : p[g].k = "queued" BY PendingIs
<1>5. O \in SUBSET PendingQueued(p) BY DEF OwedOf
<1>6. IsFiniteSet(O) /\ Cardinality(O) \in Nat BY <1>3, <1>5, PartOf
<1>7. A = I \cup O BY <1>1, <1>3 DEF ItemsAt, OwedOf
<1>8. I \cap O = {} BY <1>4 DEF ItemsAt, OwedOf
<1>9. IsFiniteSet(A) BY <1>2, <1>6, <1>7, FS_Union
<1>10. Cardinality(I) + Cardinality(O) <= Cardinality(A) /\ Cardinality(A) \in Nat
  BY <1>7, <1>8, <1>9, Apart
<1>11. Cardinality(A) <= Cardinality(I) + Cardinality(O)
  BY <1>2, <1>6, <1>7, Covered
<1>12. Accounted(p)[x] = Cardinality(A) BY DEF Accounted
<1> HIDE DEF I, O, A
<1>13. Cardinality(A) = Cardinality(I) + Cardinality(O)
  BY <1>2, <1>6, <1>10, <1>11
<1> QED BY <1>2, <1>6, <1>10, <1>12, <1>13 DEF I, O

\* So an input accepted is on the path.
LEMMA AckAccounted ==
    ASSUME NEW p \in Seq(Entries), NEW ib \in Seq(BoxItems), EntriesOK(p, ib),
           NEW c, NEW a, AckOK(p, ib, c, a), NEW x \in Contents, a[x] \in Nat
    PROVE  a[x] <= Accounted(p)[x]
<1> DEFINE K == KeptOf(ib, c, x)
           O == OwedOf(p, x)
           f == [j \in K |-> ib[j].entry]
<1>1. IsFiniteSet(O) /\ Cardinality(O) \in Nat BY AccountedIs
<1>2. f \in [K -> O] BY DEF KeptOf, OwedOf, EntriesOK
<1>3. \A i, j \in K : f[i] = f[j] => i = j BY DEF KeptOf, EntriesOK
<1>4. Cardinality(K) <= Cardinality(O) /\ Cardinality(K) \in Nat
  <2> HIDE DEF K, O, f
  <2> QED BY ONLY <1>1, <1>2, <1>3, NoMore
<1>5. a[x] <= Cardinality(ItemsAt(p, Len(p), x)) + Cardinality(K)
  BY DEF AckOK
<1>6. /\ Accounted(p)[x] = Cardinality(ItemsAt(p, Len(p), x)) + Cardinality(O)
      /\ Cardinality(ItemsAt(p, Len(p), x)) \in Nat
  BY AccountedIs
<1> HIDE DEF K, O
<1> QED BY <1>1, <1>4, <1>5, <1>6

\* What seed makes of a path keeps all that the path accounts for.
LEMMA SeedKeeps ==
    ASSUME NEW p \in Seq(Entries), PathOK(p), NEW c, NEW x \in Contents
    PROVE  /\ Accounted(p)[x] <= Cardinality(ItemsAt(p, Len(p), x))
                                 + Cardinality(KeptOf(SeedInbox(p), c, x))
           /\ LateOK(SeedInbox(p), c)
<1> DEFINE ib == SeedInbox(p)
           o == InOrder(PendingQueued(p))
           N == Cardinality(PendingQueued(p))
           O == OwedOf(p, x)
           K == KeptOf(ib, c, x)
           f == [e \in O |-> CHOOSE n \in 1..N : o[n] = e]
<1>1. /\ ib \in Seq(BoxItems) /\ DOMAIN ib = 1..N
      /\ \A n \in 1..N :
            /\ o[n] \in PendingQueued(p) /\ o[n] \in Nat \ {0}
            /\ ib[n].p = -o[n] /\ ib[n].entry = o[n] /\ ib[n].x = p[o[n]].x
            /\ ~ib[n].declined
  BY SeedIs
<1>2. \A e \in PendingQueued(p) : \E n \in 1..N : o[n] = e
  BY PendingIs, InOrderLists
<1>3. \A e \in O : f[e] \in 1..N /\ o[f[e]] = e BY <1>2 DEF OwedOf
<1>4. \A n \in 1..N : p[o[n]].x = x => n \in K BY <1>1 DEF KeptOf
<1>5. f \in [O -> K]
  <2>1. \A e \in O : f[e] \in K BY <1>3, <1>4 DEF OwedOf
  <2> QED BY <2>1
<1>6. \A e, g \in O : f[e] = f[g] => e = g BY <1>3
<1>7. IsFiniteSet(K) /\ Cardinality(K) \in Nat BY <1>1, KeptCounts
<1>8. Cardinality(O) <= Cardinality(K)
  <2> HIDE DEF O, K, f
  <2> QED BY ONLY <1>5, <1>6, <1>7, NoMore
<1>9. /\ Accounted(p)[x] = Cardinality(ItemsAt(p, Len(p), x)) + Cardinality(O)
      /\ Cardinality(ItemsAt(p, Len(p), x)) \in Nat /\ Cardinality(O) \in Nat
  BY AccountedIs
<1>10. LateOK(ib, c) BY <1>1 DEF LateOK
<1>11. Accounted(p)[x] <= Cardinality(ItemsAt(p, Len(p), x)) + Cardinality(K)
  <2> HIDE DEF O, K, ib
  <2> QED BY <1>7, <1>8, <1>9
<1> QED BY <1>10, <1>11

\* A path that another continues has no more items.
LEMMA ItemsKept ==
    ASSUME NEW p \in Seq(Entries), NEW q \in Seq(Entries), NEW n \in 0..Len(p),
           n <= Len(q), \A e \in 1..n : q[e] = p[e], NEW x
    PROVE  /\ Cardinality(ItemsAt(p, n, x)) <= Cardinality(ItemsAt(q, Len(q), x))
           /\ Cardinality(ItemsAt(p, n, x)) \in Nat
           /\ Cardinality(ItemsAt(q, Len(q), x)) \in Nat
<1>1. ItemsAt(p, n, x) \in SUBSET ItemsAt(q, Len(q), x) BY DEF ItemsAt
<1>2. IsFiniteSet(ItemsAt(q, Len(q), x)) BY PathCounts
<1> QED BY <1>1, <1>2, PartOf

\* closeOpenRun, which writes again what the run owed, loses nothing.
LEMMA CloseKeeps ==
    ASSUME NEW p \in Seq(Entries), PathOK(p), NEW x \in Contents
    PROVE  Accounted(p)[x] <= Accounted(CloseOpenRun(p, TRUE))[x]
<1> DEFINE q == CloseOpenRun(p, TRUE)
           N == Cardinality(PendingQueued(p))
           o == InOrder(PendingQueued(p))
           f == [e \in OwedOf(p, x) |-> Len(p) + 1 + CHOOSE n \in 1..N : o[n] = e]
<1>1. /\ q \in Seq(Entries) /\ PathOK(q) /\ Len(p) <= Len(q)
      /\ \A e \in 1..Len(p) : q[e] = p[e]
      /\ q = p \/ Closes(p, q, N)
  BY RunClosed
<1>a. N \in Nat /\ \A e \in PendingQueued(p) : \E n \in 1..N : o[n] = e
  BY PendingIs, InOrderLists
<1>b. N <= Cardinality(PendingQueued(p)) BY <1>a
<1>c. \A n \in Nat : Closes(p, q, n) =>
         /\ Len(q) = Len(p) + 1 + n
         /\ \A a \in 1..n : q[Len(p) + 1 + a] = p[o[a]]
  BY DEF Closes
<1>d. Len(p) \in Nat OBVIOUS
<1> SUFFICES Accounted(p)[x] <= Accounted(q)[x]
  OBVIOUS
<1> HIDE DEF q, N, o
<1>2. CASE q = p
  <2>1. Accounted(p)[x] \in Nat BY AccountedIs
  <2> QED BY <1>2, <2>1
<1>3. CASE Closes(p, q, N)
  <2>1. N \in Nat /\ \A e \in PendingQueued(p) : \E n \in 1..N : o[n] = e
    BY <1>a
  <2>2. \A e \in OwedOf(p, x) : \E n \in 1..N : f[e] = Len(p) + 1 + n /\ o[n] = e
    BY <2>1 DEF OwedOf
  <2>3. PendingQueued(q) = (Len(p) + 2)..Len(q)
    BY <1>1, <1>3, <1>a, <1>b, ClosedPending
  <2>4. Len(q) = Len(p) + 1 + N /\ Len(p) \in Nat
    BY <1>3, <1>a, <1>c, <1>d
  <2>5. \A n \in 1..N : q[Len(p) + 1 + n] = p[o[n]] BY <1>3, <1>a, <1>c
  <2>6. \A e \in OwedOf(p, x) : f[e] \in OwedOf(q, x)
    <3> SUFFICES ASSUME NEW e \in OwedOf(p, x) PROVE f[e] \in OwedOf(q, x)
      OBVIOUS
    <3>1. PICK n \in 1..N : f[e] = Len(p) + 1 + n /\ o[n] = e BY <2>2
    <3>2. Len(p) + 1 + n \in (Len(p) + 2)..Len(q) BY <2>1, <2>4
    <3>3. p[e].x = x BY DEF OwedOf
    <3> QED BY <2>3, <2>5, <3>1, <3>2, <3>3 DEF OwedOf
  <2>7. f \in [OwedOf(p, x) -> OwedOf(q, x)] BY <2>6
  <2>8. \A e, g \in OwedOf(p, x) : f[e] = f[g] => e = g
    <3> SUFFICES ASSUME NEW e \in OwedOf(p, x), NEW g \in OwedOf(p, x),
                        f[e] = f[g]
                 PROVE  e = g
      OBVIOUS
    <3> HIDE DEF f, o, N
    <3>1. PICK n \in 1..N : f[e] = Len(p) + 1 + n /\ o[n] = e BY <2>2
    <3>2. PICK m \in 1..N : f[g] = Len(p) + 1 + m /\ o[m] = g BY <2>2
    <3>3. Len(p) + 1 + n = Len(p) + 1 + m BY <3>1, <3>2
    <3>4. n \in Nat /\ m \in Nat BY <1>a
    <3>5. n = m BY ONLY <1>d, <3>3, <3>4
    <3> QED BY <3>1, <3>2, <3>5
  <2>9. IsFiniteSet(OwedOf(q, x)) BY <1>1, AccountedIs
  <2>10. Cardinality(OwedOf(p, x)) <= Cardinality(OwedOf(q, x))
    <3> HIDE DEF f
    <3> QED BY ONLY <2>7, <2>8, <2>9, NoMore
  <2>11. Cardinality(ItemsAt(p, Len(p), x)) <= Cardinality(ItemsAt(q, Len(q), x))
    <3>1. Len(p) \in 0..Len(p) BY <2>4
    <3> QED BY <1>1, <3>1, ItemsKept
  <2>12. /\ Accounted(p)[x] = Cardinality(ItemsAt(p, Len(p), x))
                              + Cardinality(OwedOf(p, x))
         /\ Cardinality(ItemsAt(p, Len(p), x)) \in Nat
         /\ Cardinality(OwedOf(p, x)) \in Nat
    BY AccountedIs
  <2>13. /\ Accounted(q)[x] = Cardinality(ItemsAt(q, Len(q), x))
                              + Cardinality(OwedOf(q, x))
         /\ Cardinality(ItemsAt(q, Len(q), x)) \in Nat
         /\ Cardinality(OwedOf(q, x)) \in Nat
    BY <1>1, AccountedIs
  <2> QED BY <2>10, <2>11, <2>12, <2>13
<1> QED BY <1>1, <1>2, <1>3

\* A path continues another.
Continues(p, q) == Len(p) <= Len(q) /\ \A e \in 1..Len(p) : q[e] = p[e]

\* The inputs kept stay, each at its place.
Keeps(ib, c, ib2, c2) ==
    /\ Len(ib) <= Len(ib2)
    /\ \A j \in 1..Len(ib) :
          /\ ib2[j].x = ib[j].x
          /\ ib[j].entry # 0 => ib2[j].entry # 0
          /\ (ib[j].p > 0 => c[ib[j].p] # "written") /\ ~ib[j].declined
             => (ib2[j].p > 0 => c2[ib2[j].p] # "written") /\ ~ib2[j].declined

\* Then what was accepted is kept.
LEMMA AckMore ==
    ASSUME NEW p \in Seq(Entries), NEW q \in Seq(Entries), Continues(p, q),
           NEW ib \in Seq(BoxItems), NEW ib2 \in Seq(BoxItems),
           NEW c, NEW c2, Keeps(ib, c, ib2, c2),
           NEW a \in [Contents -> Nat], AckOK(p, ib, c, a)
    PROVE  AckOK(q, ib2, c2, a)
<1> SUFFICES ASSUME NEW x \in Contents
             PROVE  a[x] <= Cardinality(ItemsAt(q, Len(q), x))
                            + Cardinality(KeptOf(ib2, c2, x))
  BY DEF AckOK
<1>1. KeptOf(ib, c, x) \in SUBSET KeptOf(ib2, c2, x)
  <2>1. DOMAIN ib = 1..Len(ib) /\ DOMAIN ib2 = 1..Len(ib2) OBVIOUS
  <2>2. \A j \in 1..Len(ib) : j \in 1..Len(ib2) BY DEF Keeps
  <2> SUFFICES ASSUME NEW j \in KeptOf(ib, c, x)
               PROVE  j \in KeptOf(ib2, c2, x)
    OBVIOUS
  <2>3. /\ j \in 1..Len(ib) /\ ib[j].x = x /\ ~ib[j].declined
        /\ ib[j].entry # 0 /\ (ib[j].p > 0 => c[ib[j].p] # "written")
    BY <2>1 DEF KeptOf
  <2> QED BY <2>1, <2>2, <2>3 DEF KeptOf, Keeps
<1>2. IsFiniteSet(KeptOf(ib2, c2, x)) BY KeptCounts
<1>3. /\ Cardinality(KeptOf(ib, c, x)) <= Cardinality(KeptOf(ib2, c2, x))
      /\ Cardinality(KeptOf(ib, c, x)) \in Nat
      /\ Cardinality(KeptOf(ib2, c2, x)) \in Nat
  BY <1>1, <1>2, PartOf
<1>4. /\ Cardinality(ItemsAt(p, Len(p), x)) <= Cardinality(ItemsAt(q, Len(q), x))
      /\ Cardinality(ItemsAt(p, Len(p), x)) \in Nat
      /\ Cardinality(ItemsAt(q, Len(q), x)) \in Nat
  <2>1. Len(p) \in 0..Len(p) OBVIOUS
  <2> QED BY <2>1, ItemsKept DEF Continues
<1>5. a[x] <= Cardinality(ItemsAt(p, Len(p), x)) + Cardinality(KeptOf(ib, c, x))
  BY DEF AckOK
<1>6. a[x] \in Nat OBVIOUS
<1> DEFINE i == Cardinality(ItemsAt(p, Len(p), x))
           i2 == Cardinality(ItemsAt(q, Len(q), x))
           k == Cardinality(KeptOf(ib, c, x))
           k2 == Cardinality(KeptOf(ib2, c2, x))
           n == a[x]
<1>7. n <= i + k /\ i <= i2 /\ k <= k2 BY <1>3, <1>4, <1>5
<1>8. n \in Nat /\ i \in Nat /\ i2 \in Nat /\ k \in Nat /\ k2 \in Nat
  BY <1>3, <1>4, <1>6
<1> HIDE DEF i, i2, k, k2, n
<1>9. n <= i2 + k2 BY ONLY <1>7, <1>8
<1> QED BY <1>9 DEF i2, k2, n

\* A drained input, which was kept, is an item.
LEMMA DrainAck ==
    ASSUME NEW p \in Seq(Entries), PathOK(p), NEW ib \in Seq(BoxItems),
           NEW j \in 1..Len(ib), NEW c, NEW a \in [Contents -> Nat],
           LateOK(ib, c), AckOK(p, ib, c, a)
    PROVE  /\ AckOK(Append(p, Item(ib[j].x, ib[j].entry)), Without(ib, j), c, a)
           /\ LateOK(Without(ib, j), c)
<1> DEFINE q == Append(p, Item(ib[j].x, ib[j].entry))
           ib2 == Without(ib, j)
           f == [m \in 1..(Len(ib) - 1) |-> IF m < j THEN m ELSE m + 1]
<1>1. /\ ib2 \in Seq(BoxItems) /\ Len(ib2) = Len(ib) - 1
      /\ DOMAIN ib2 = 1..(Len(ib) - 1)
      /\ f \in [1..(Len(ib) - 1) -> 1..Len(ib)]
      /\ \A m \in 1..(Len(ib) - 1) : f[m] # j /\ ib2[m] = ib[f[m]]
      /\ \A u, v \in 1..(Len(ib) - 1) : f[u] = f[v] => u = v
      /\ \A m \in 1..Len(ib) : m # j => \E u \in 1..(Len(ib) - 1) : f[u] = m
  BY WithoutIs
<1>2. DOMAIN ib = 1..Len(ib) /\ Len(ib) \in Nat OBVIOUS
<1>3. ib[j] \in BoxItems BY <1>2
<1>4. ib[j].x \in Contents /\ ib[j].entry \in Nat BY <1>3 DEF BoxItems
<1>5. /\ Item(ib[j].x, ib[j].entry) \in Entries
      /\ Item(ib[j].x, ib[j].entry).k = "item"
      /\ Item(ib[j].x, ib[j].entry).x = ib[j].x
  BY <1>4, ItemIs
<1>6. /\ q \in Seq(Entries) /\ Len(q) = Len(p) + 1 /\ Len(p) \in Nat
      /\ \A e \in 1..Len(p) : q[e] = p[e]
      /\ q[Len(p) + 1] = Item(ib[j].x, ib[j].entry)
  BY <1>4, <1>5, AppendPath
<1> HIDE DEF q, ib2, f
<1>7. LateOK(ib2, c) BY <1>1, <1>2 DEF LateOK
<1>8. ASSUME NEW x \in Contents
      PROVE  a[x] <= Cardinality(ItemsAt(q, Len(q), x))
                     + Cardinality(KeptOf(ib2, c, x))
  <2> DEFINE K == KeptOf(ib, c, x)
             K2 == KeptOf(ib2, c, x)
             R == K \ {j}
             g == [m \in R |-> CHOOSE u \in 1..(Len(ib) - 1) : f[u] = m]
  <2>1. \A m \in R : g[m] \in 1..(Len(ib) - 1) /\ f[g[m]] = m
    BY <1>1, <1>2 DEF KeptOf
  <2>2. \A m \in R : g[m] \in K2
    <3> SUFFICES ASSUME NEW m \in R PROVE g[m] \in K2
      OBVIOUS
    <3>1. g[m] \in 1..(Len(ib) - 1) /\ ib2[g[m]] = ib[m] BY <1>1, <2>1
    <3> QED BY <1>1, <3>1 DEF KeptOf
  <2>3. g \in [R -> K2] BY <2>2
  <2>4. \A u, v \in R : g[u] = g[v] => u = v BY <2>1
  <2>5. IsFiniteSet(K2) /\ Cardinality(K2) \in Nat BY <1>1, KeptCounts
  <2>6. IsFiniteSet(R) /\ Cardinality(R) <= Cardinality(K2) /\ Cardinality(R) \in Nat
    <3> HIDE DEF g, R, K2
    <3> QED BY ONLY <2>3, <2>4, <2>5, NoMore
  <2> DEFINE I == ItemsAt(p, Len(p), x)
             I2 == ItemsAt(q, Len(q), x)
  <2>7. IsFiniteSet(I2) /\ IsFiniteSet(I) /\ Cardinality(I) \in Nat
        /\ Cardinality(I2) \in Nat
    <3>1. Len(p) \in Nat /\ Len(q) \in Nat BY <1>6
    <3> QED BY <3>1, PathCounts
  <2>8. a[x] <= Cardinality(I) + Cardinality(K) /\ a[x] \in Nat
    BY DEF AckOK
  <2>9. CASE ib[j].x = x
    <3>1. IsFiniteSet({j}) /\ Cardinality({j}) = 1 BY FS_Singleton
    <3>2. K \subseteq R \cup {j} OBVIOUS
    <3>3. Cardinality(K) <= Cardinality(R) + 1 /\ Cardinality(K) \in Nat
      <4> HIDE DEF K, R
      <4> QED BY <2>6, <3>1, <3>2, Covered
    <3>4. I \cup {Len(p) + 1} \subseteq I2 /\ I \cap {Len(p) + 1} = {}
      BY <1>5, <1>6, <2>9 DEF ItemsAt
    <3>5. Cardinality({Len(p) + 1}) = 1 BY FS_Singleton
    <3>6. Cardinality(I) + 1 <= Cardinality(I2)
      <4> HIDE DEF I, I2
      <4> QED BY <2>7, <3>4, <3>5, Apart
    <3> HIDE DEF K, R, I, I2, K2
    <3>7. a[x] <= Cardinality(I2) + Cardinality(K2)
      BY <2>5, <2>6, <2>7, <2>8, <3>3, <3>6
    <3> QED BY <3>7 DEF I2, K2
  <2>10. CASE ib[j].x # x
    <3>1. K = R BY <2>10 DEF KeptOf
    <3>2. I \in SUBSET I2 BY <1>6 DEF ItemsAt
    <3>3. Cardinality(I) <= Cardinality(I2)
      <4> HIDE DEF I, I2
      <4> QED BY <2>7, <3>2, PartOf
    <3> HIDE DEF K, R, I, I2, K2
    <3>4. a[x] <= Cardinality(I2) + Cardinality(K2)
      BY <2>5, <2>6, <2>7, <2>8, <3>1, <3>3
    <3> QED BY <3>4 DEF I2, K2
  <2> QED BY <2>9, <2>10
<1>9. AckOK(q, ib2, c, a) BY <1>8 DEF AckOK
<1> QED BY <1>7, <1>9 DEF q, ib2

\* At a run end, what the agent holds is written again, and the rest is
\* dropped.
LEMMA EndAck ==
    ASSUME NEW p \in Seq(Entries), PathOK(p), NEW ib \in Seq(BoxItems), NEW c,
           NEW a \in [Contents -> Nat], AckOK(p, ib, c, a), NEW q, NEW ib2,
           Writes(Append(p, Mark("end")), EndInbox(ib), q, ib2),
           \A j \in 1..Len(ib2) : ib2[j].entry # 0
    PROVE  /\ AckOK(q, ib2, c, Monus(a, Dropped(ib)))
           /\ LateOK(ib2, c)
           /\ Monus(a, Dropped(ib)) \in [Contents -> Nat]
<1> DEFINE S == {j \in DOMAIN ib : ib[j].held}
           o == InOrder(S)
           en == Append(p, Mark("end"))
           eb == EndInbox(ib)
<1>1. /\ en \in Seq(Entries) /\ Len(en) = Len(p) + 1 /\ Len(p) \in Nat
      /\ \A e \in 1..Len(p) : en[e] = p[e]
  BY MarkIs, AppendPath
<1>2. /\ eb \in Seq(BoxItems)
      /\ \A n \in 1..Len(eb) : SameInput(ib[o[n]], eb[n])
      /\ \A j \in 1..Len(ib) : ib[j].held => \E n \in 1..Len(eb) : o[n] = j
  BY EndInboxIs
<1> HIDE DEF en, eb, o
<1>3. /\ q \in Seq(Entries) /\ Len(en) <= Len(q)
      /\ \A e \in 1..Len(en) : q[e] = en[e]
      /\ ib2 \in Seq(BoxItems) /\ Len(ib2) = Len(eb)
      /\ \A n \in 1..Len(eb) : SameInput(eb[n], ib2[n])
  BY DEF Writes, en, eb
<1>4. DOMAIN ib2 = 1..Len(ib2) /\ DOMAIN ib = 1..Len(ib) BY <1>3
<1>5. LateOK(ib2, c) BY <1>4 DEF LateOK
<1>6. \A n \in 1..Len(eb) : SameInput(ib[o[n]], ib2[n])
  BY <1>2, <1>3 DEF SameInput
<1>7. ASSUME NEW x \in Contents
      PROVE  /\ Monus(a, Dropped(ib))[x] \in Nat
             /\ Monus(a, Dropped(ib))[x]
                  <= Cardinality(ItemsAt(q, Len(q), x))
                     + Cardinality(KeptOf(ib2, c, x))
  <2> DEFINE K == KeptOf(ib, c, x)
             H == {j \in K : ib[j].held}
             D == {j \in DOMAIN ib : ib[j].x = x /\ ~ib[j].held /\ ~ib[j].declined}
             K2 == KeptOf(ib2, c, x)
             g == [j \in H |-> CHOOSE n \in 1..Len(eb) : o[n] = j]
  <2>1. \A j \in H : g[j] \in 1..Len(eb) /\ o[g[j]] = j
    BY <1>2, <1>4 DEF KeptOf
  <2>2. \A j \in H : g[j] \in K2
    <3> SUFFICES ASSUME NEW j \in H PROVE g[j] \in K2
      OBVIOUS
    <3>1. g[j] \in 1..Len(ib2) /\ SameInput(ib[j], ib2[g[j]])
      BY <1>3, <1>6, <2>1
    <3>2. ib2[g[j]].entry # 0 BY <3>1
    <3>3. /\ ib[j].x = x /\ ~ib[j].declined
          /\ ib[j].p > 0 => c[ib[j].p] # "written"
      BY DEF KeptOf
    <3> HIDE DEF g, H
    <3> QED BY <1>4, <3>1, <3>2, <3>3 DEF KeptOf, SameInput
  <2>3. g \in [H -> K2] BY <2>2
  <2>4. \A u, v \in H : g[u] = g[v] => u = v BY <2>1
  <2>5. IsFiniteSet(K2) /\ Cardinality(K2) \in Nat BY <1>3, KeptCounts
  <2>6. IsFiniteSet(H) /\ Cardinality(H) <= Cardinality(K2) /\ Cardinality(H) \in Nat
    <3> HIDE DEF g, H, K2
    <3> QED BY ONLY <2>3, <2>4, <2>5, NoMore
  <2>7. IsFiniteSet(D)
    <3>1. IsFiniteSet(DOMAIN ib) BY BoxCounts
    <3>2. D \in SUBSET DOMAIN ib OBVIOUS
    <3> QED BY <3>1, <3>2, PartOf
  <2>8. K \subseteq H \cup D BY DEF KeptOf
  <2>9. /\ Cardinality(K) \in Nat /\ Cardinality(D) \in Nat
        /\ Cardinality(K) <= Cardinality(H) + Cardinality(D)
    <3> HIDE DEF H, D, K
    <3> QED BY <2>6, <2>7, <2>8, Covered
  <2>10. Dropped(ib)[x] = Cardinality(D) BY DEF Dropped
  <2>11. Monus(a, Dropped(ib))[x] =
           IF a[x] < Cardinality(D) THEN 0 ELSE a[x] - Cardinality(D)
    BY <2>10 DEF Monus
  <2>12. a[x] \in Nat /\ a[x] <= Cardinality(ItemsAt(p, Len(p), x)) + Cardinality(K)
    BY DEF AckOK
  <2>13. /\ Cardinality(ItemsAt(p, Len(p), x)) <= Cardinality(ItemsAt(q, Len(q), x))
         /\ Cardinality(ItemsAt(p, Len(p), x)) \in Nat
         /\ Cardinality(ItemsAt(q, Len(q), x)) \in Nat
    <3>1. Len(p) \in 0..Len(p) /\ Len(p) <= Len(q)
          /\ \A e \in 1..Len(p) : q[e] = p[e]
      BY <1>1, <1>3
    <3> QED BY <1>3, <3>1, ItemsKept
  <2> HIDE DEF K, H, D, K2
  <2> DEFINE i == Cardinality(ItemsAt(p, Len(p), x))
             i2 == Cardinality(ItemsAt(q, Len(q), x))
             k == Cardinality(K)
             h == Cardinality(H)
             dd == Cardinality(D)
             k2 == Cardinality(K2)
             n == a[x]
             n2 == Monus(a, Dropped(ib))[x]
  <2>14. /\ n2 = IF n < dd THEN 0 ELSE n - dd
         /\ n <= i + k /\ i <= i2 /\ k <= h + dd /\ h <= k2
    BY <2>6, <2>9, <2>11, <2>12, <2>13
  <2>15. /\ n \in Nat /\ i \in Nat /\ i2 \in Nat /\ k \in Nat /\ h \in Nat
         /\ dd \in Nat /\ k2 \in Nat
    BY <2>5, <2>6, <2>9, <2>12, <2>13
  <2> HIDE DEF i, i2, k, h, dd, k2, n, n2
  <2>16. n2 \in Nat /\ n2 <= i2 + k2 BY ONLY <2>14, <2>15
  <2> QED BY <2>16 DEF n2, i2, k2, K2
<1>8. Monus(a, Dropped(ib)) \in [Contents -> Nat]
  <2>1. DOMAIN Monus(a, Dropped(ib)) = Contents
        /\ Monus(a, Dropped(ib))
             = [x \in Contents |-> Monus(a, Dropped(ib))[x]]
    BY DEF Monus
  <2> QED BY <1>7, <2>1
<1> QED BY <1>5, <1>7, <1>8 DEF AckOK

\* What a restart seeds keeps what the log at the crash accounts for, however
\* much was accepted and is there no more.
LEMMA SeedAck ==
    ASSUME NEW p \in Seq(Entries), PathOK(p), NEW c, NEW a \in [Contents -> Nat],
           NEW l \in [Contents -> Nat],
           \A x \in Contents : a[x] <= Accounted(p)[x] + l[x]
    PROVE  LET q == CloseOpenRun(p, TRUE) IN
           /\ AckOK(q, SeedInbox(q), c, Monus(a, l))
           /\ LateOK(SeedInbox(q), c)
           /\ Monus(a, l) \in [Contents -> Nat]
<1> DEFINE q == CloseOpenRun(p, TRUE)
<1>1. q \in Seq(Entries) /\ PathOK(q) BY RunClosed
<1>2. ASSUME NEW x \in Contents
      PROVE  /\ Monus(a, l)[x] \in Nat
             /\ Monus(a, l)[x]
                  <= Cardinality(ItemsAt(q, Len(q), x))
                     + Cardinality(KeptOf(SeedInbox(q), c, x))
             /\ LateOK(SeedInbox(q), c)
  <2>1. Accounted(p)[x] <= Accounted(q)[x] BY CloseKeeps
  <2> HIDE DEF q
  <2>2. /\ Accounted(q)[x] <= Cardinality(ItemsAt(q, Len(q), x))
                              + Cardinality(KeptOf(SeedInbox(q), c, x))
        /\ LateOK(SeedInbox(q), c)
    BY <1>1, SeedKeeps
  <2>3. Accounted(p)[x] \in Nat /\ Accounted(q)[x] \in Nat
        /\ Cardinality(ItemsAt(q, Len(q), x)) \in Nat
    BY <1>1, AccountedIs
  <2>4. Cardinality(KeptOf(SeedInbox(q), c, x)) \in Nat
    <3>1. SeedInbox(q) \in Seq(BoxItems) BY <1>1, SeedIs
    <3> QED BY <3>1, KeptCounts
  <2>5. a[x] \in Nat /\ l[x] \in Nat /\ a[x] <= Accounted(p)[x] + l[x]
    OBVIOUS
  <2>6. Monus(a, l)[x] = IF a[x] < l[x] THEN 0 ELSE a[x] - l[x]
    BY DEF Monus
  <2> DEFINE n == a[x]
             m == l[x]
             n2 == Monus(a, l)[x]
             u == Accounted(p)[x]
             v == Accounted(q)[x]
             i == Cardinality(ItemsAt(q, Len(q), x))
             k == Cardinality(KeptOf(SeedInbox(q), c, x))
  <2>7. /\ n \in Nat /\ m \in Nat /\ u \in Nat /\ v \in Nat /\ i \in Nat
        /\ k \in Nat /\ n <= u + m /\ u <= v /\ v <= i + k
        /\ n2 = IF n < m THEN 0 ELSE n - m
    BY <2>1, <2>2, <2>3, <2>4, <2>5, <2>6
  <2> HIDE DEF n, m, n2, u, v, i, k
  <2>8. n2 \in Nat /\ n2 <= i + k BY ONLY <2>7
  <2> QED BY <2>2, <2>8 DEF n2, i, k
<1>3. Monus(a, l) \in [Contents -> Nat]
  <2>1. Monus(a, l) = [x \in Contents |-> Monus(a, l)[x]] BY DEF Monus
  <2> QED BY <1>2, <2>1
<1>4. LateOK(SeedInbox(q), c)
  <2>1. /\ DOMAIN SeedInbox(q) = 1..Cardinality(PendingQueued(q))
        /\ \A n \in 1..Cardinality(PendingQueued(q)) :
              LET o == InOrder(PendingQueued(q)) IN
              o[n] \in Nat \ {0} /\ SeedInbox(q)[n].entry = o[n]
    <3> HIDE DEF q
    <3> QED BY <1>1, SeedIs
  <2> HIDE DEF q
  <2> QED BY <2>1 DEF LateOK
<1> HIDE DEF q
<1>5. AckOK(q, SeedInbox(q), c, Monus(a, l)) BY <1>2 DEF AckOK
<1> QED BY <1>3, <1>4, <1>5 DEF q

\* The agent takes an input whose entry was written, and its acceptance is
\* acknowledged.
LEMMA TakenAck ==
    ASSUME NEW p, NEW ib \in Seq(BoxItems), NEW c \in [Inputs -> Pcs], NEW ag,
           NEW ev, BoxInv(ib, c, ag, ev), NEW i \in Inputs, c[i] = "written",
           NEW a \in [Contents -> Nat], LateOK(ib, c), AckOK(p, ib, c, a),
           Len(p) \in Nat
    PROVE  LET c2 == [c EXCEPT ![i] = "acked"]
               a2 == [a EXCEPT ![Content[i]] = @ + 1]
           IN LateOK(ib, c2) /\ AckOK(p, ib, c2, a2) /\ a2 \in [Contents -> Nat]
<1> DEFINE c2 == [c EXCEPT ![i] = "acked"]
           a2 == [a EXCEPT ![Content[i]] = @ + 1]
<1>1. c2[i] = "acked" /\ \A k \in Inputs : k # i => c2[k] = c[k] OBVIOUS
<1>2. \A j \in DOMAIN ib : InputOK(ib[j], c) BY DEF BoxInv
<1>3. \A j \in DOMAIN ib : ib[j].p > 0 =>
         ib[j].p \in Inputs /\ ib[j].x = Content[ib[j].p]
  BY <1>2 DEF InputOK
<1>4. PICK j \in DOMAIN ib : ib[j].p = i /\ ib[j].held
  BY DEF BoxInv, WrittenOK
<1>5. ~ib[j].declined BY <1>2, <1>4 DEF InputOK
<1>6. i > 0 BY InboxAssumption
<1>7. ib[j].entry # 0 /\ ib[j].x = Content[i]
  BY <1>3, <1>4, <1>5, <1>6 DEF LateOK
<1>8. LateOK(ib, c2)
  <2> SUFFICES ASSUME NEW m \in DOMAIN ib, ib[m].entry = 0
               PROVE  ib[m].declined \/ (ib[m].p > 0 /\ c2[ib[m].p] = "direct")
    BY DEF LateOK
  <2>1. CASE ib[m].declined BY <2>1
  <2>2. CASE ib[m].p > 0 /\ c[ib[m].p] = "direct"
    <3>1. ib[m].p # i /\ ib[m].p \in Inputs BY <1>3, <2>2
    <3> QED BY <1>1, <2>2, <3>1
  <2> QED BY <2>1, <2>2 DEF LateOK
<1>9. Content[i] \in Contents BY DEF Contents
<1>10. a2 \in [Contents -> Nat] /\ a2[Content[i]] = a[Content[i]] + 1
       /\ \A x \in Contents : x # Content[i] => a2[x] = a[x]
  BY <1>9
<1> HIDE DEF c2, a2
<1>11. ASSUME NEW x \in Contents
       PROVE  a2[x] <= Cardinality(ItemsAt(p, Len(p), x))
                       + Cardinality(KeptOf(ib, c2, x))
  <2> DEFINE K == KeptOf(ib, c, x)
             K2 == KeptOf(ib, c2, x)
             n == Cardinality(ItemsAt(p, Len(p), x))
  <2>1. K \in SUBSET K2 BY <1>1, <1>3 DEF KeptOf
  <2>2. IsFiniteSet(K2) /\ Cardinality(K2) \in Nat BY KeptCounts
  <2>3. Cardinality(K) <= Cardinality(K2) /\ Cardinality(K) \in Nat
    <3> HIDE DEF K, K2
    <3> QED BY <2>1, <2>2, PartOf
  <2>4. n \in Nat BY PathCounts
  <2>5. a[x] \in Nat /\ a[x] <= n + Cardinality(K) BY DEF AckOK
  <2>6. CASE x # Content[i]
    <3>1. a2[x] = a[x] BY <1>10, <2>6
    <3> HIDE DEF n, K, K2
    <3>2. a2[x] <= n + Cardinality(K2) BY <2>2, <2>3, <2>4, <2>5, <3>1
    <3> QED BY <3>2 DEF n, K2
  <2>7. CASE x = Content[i]
    <3>1. a2[x] = a[x] + 1 BY <1>10, <2>7
    <3>2. j \in K2 /\ j \notin K
      BY <1>1, <1>4, <1>5, <1>6, <1>7, <2>7 DEF KeptOf
    <3>3. K \cup {j} \subseteq K2 /\ K \cap {j} = {} BY <2>1, <3>2
    <3>4. Cardinality({j}) = 1 BY FS_Singleton
    <3>5. Cardinality(K) + 1 <= Cardinality(K2)
      <4> HIDE DEF K, K2
      <4> QED BY <2>2, <3>3, <3>4, Apart
    <3> HIDE DEF n, K, K2
    <3>6. a2[x] <= n + Cardinality(K2)
      BY <2>2, <2>3, <2>4, <2>5, <3>1, <3>5
    <3> QED BY <3>6 DEF n, K2
  <2> QED BY <2>6, <2>7
<1> QED BY <1>8, <1>10, <1>11 DEF AckOK, c2, a2

\* The input at place j is now the call i's, and the others stay.
Retakes(ib, ib2, i, j) ==
    /\ Len(ib2) = Len(ib)
    /\ \A m \in 1..Len(ib) :
          /\ ib2[m].entry = ib[m].entry /\ ib2[m].x = ib[m].x
          /\ ib2[m].p = IF m = j THEN i ELSE ib[m].p
          /\ ib2[m].declined = ib[m].declined

\* While that call is written the recorder answers for one input fewer.
Retaken(p, ib2, c, a, i) ==
    LET c2 == [c EXCEPT ![i] = "written"]
        a2 == [a EXCEPT ![Content[i]] = IF @ > 0 THEN @ - 1 ELSE @]
    IN LateOK(ib2, c2) /\ AckOK(p, ib2, c2, a2) /\ a2 \in [Contents -> Nat]

\* An input that the path owed of a dead process is sent again: until the
\* agent has taken it, one fewer is accepted.
LEMMA RedeliverAck ==
    ASSUME NEW p, Len(p) \in Nat,
           NEW ib \in Seq(BoxItems), NEW ib2 \in Seq(BoxItems),
           NEW c \in [Inputs -> Pcs], NEW ag, NEW ev, BoxInv(ib, c, ag, ev),
           NEW i \in Inputs, c[i] = "new", NEW j \in 1..Len(ib),
           ib[j].entry # 0, ib[j].x = Content[i], Retakes(ib, ib2, i, j),
           NEW a \in [Contents -> Nat], LateOK(ib, c), AckOK(p, ib, c, a)
    PROVE  Retaken(p, ib2, c, a, i)
<1> USE DEF Retakes
<1> DEFINE c2 == [c EXCEPT ![i] = "written"]
           a2 == [a EXCEPT ![Content[i]] = IF @ > 0 THEN @ - 1 ELSE @]
<1>1. c2[i] = "written" /\ \A k \in Inputs : k # i => c2[k] = c[k]
  OBVIOUS
<1>2. DOMAIN ib = 1..Len(ib) /\ DOMAIN ib2 = 1..Len(ib) OBVIOUS
<1>3. \A m \in 1..Len(ib) : ib[m].p > 0 => ib[m].p \in Inputs /\ ib[m].p # i
  BY <1>2 DEF BoxInv, InputOK
<1>4. \A m \in 1..Len(ib) : m # j /\ ib2[m].p > 0 =>
         c2[ib2[m].p] = c[ib[m].p] /\ ib2[m].p = ib[m].p
  BY <1>1, <1>3
<1>5. LateOK(ib2, c2)
  <2> SUFFICES ASSUME NEW m \in 1..Len(ib), ib2[m].entry = 0
               PROVE  ib2[m].declined \/ (ib2[m].p > 0 /\ c2[ib2[m].p] = "direct")
    BY <1>2 DEF LateOK
  <2>1. m # j /\ ib[m].entry = 0 OBVIOUS
  <2>2. ib[m].declined \/ (ib[m].p > 0 /\ c[ib[m].p] = "direct")
    BY <1>2, <2>1 DEF LateOK
  <2> QED BY <1>4, <2>1, <2>2
<1>6. Content[i] \in Contents BY DEF Contents
<1>7. a[Content[i]] \in Nat BY <1>6
<1>8. /\ a2[Content[i]] = IF a[Content[i]] > 0 THEN a[Content[i]] - 1
                          ELSE a[Content[i]]
      /\ \A x \in Contents : x # Content[i] => a2[x] = a[x]
      /\ DOMAIN a2 = Contents
  BY <1>6
<1>9. a2 \in [Contents -> Nat]
  <2>1. \A x \in Contents : a2[x] \in Nat
    <3> SUFFICES ASSUME NEW x \in Contents PROVE a2[x] \in Nat
      OBVIOUS
    <3> HIDE DEF a2
    <3>1. CASE x = Content[i] BY <1>7, <1>8, <3>1
    <3>2. CASE x # Content[i] BY <1>8, <3>2
    <3> QED BY <3>1, <3>2
  <2>2. a2 = [x \in Contents |-> a2[x]] OBVIOUS
  <2> HIDE DEF a2
  <2> QED BY <2>1, <2>2
<1> HIDE DEF c2, a2
<1>10. ASSUME NEW x \in Contents
       PROVE  a2[x] <= Cardinality(ItemsAt(p, Len(p), x))
                       + Cardinality(KeptOf(ib2, c2, x))
  <2> DEFINE K == KeptOf(ib, c, x)
             K2 == KeptOf(ib2, c2, x)
             n == Cardinality(ItemsAt(p, Len(p), x))
  <2>1. K \ {j} \subseteq K2
    <3> SUFFICES ASSUME NEW m \in K, m # j PROVE m \in K2
      OBVIOUS
    <3>1. /\ m \in 1..Len(ib) /\ ib[m].x = x /\ ~ib[m].declined
          /\ ib[m].entry # 0 /\ (ib[m].p > 0 => c[ib[m].p] # "written")
      BY <1>2 DEF KeptOf
    <3>2. ib2[m].x = x /\ ~ib2[m].declined /\ ib2[m].entry # 0 BY <3>1
    <3>3. ib2[m].p > 0 => c2[ib2[m].p] # "written" BY <1>4, <3>1
    <3> QED BY <1>2, <3>1, <3>2, <3>3 DEF KeptOf
  <2>2. IsFiniteSet(K2) /\ Cardinality(K2) \in Nat BY KeptCounts
  <2>3. n \in Nat BY PathCounts
  <2>4. a[x] \in Nat /\ a[x] <= n + Cardinality(K) BY DEF AckOK
  <2>5. CASE x # Content[i]
    <3>1. a2[x] = a[x] BY <1>8, <2>5
    <3>2. K \in SUBSET K2 BY <2>1, <2>5 DEF KeptOf
    <3>3. Cardinality(K) <= Cardinality(K2) /\ Cardinality(K) \in Nat
      <4> HIDE DEF K, K2
      <4> QED BY <2>2, <3>2, PartOf
    <3> HIDE DEF n, K, K2
    <3>4. a2[x] <= n + Cardinality(K2) BY <2>2, <2>3, <2>4, <3>1, <3>3
    <3> QED BY <3>4 DEF n, K2
  <2>6. CASE x = Content[i]
    <3>1. a2[x] = IF a[x] > 0 THEN a[x] - 1 ELSE a[x] BY <1>8, <2>6
    <3>2. K \subseteq K2 \cup {j} BY <2>1
    <3>3. IsFiniteSet({j}) /\ Cardinality({j}) = 1 BY FS_Singleton
    <3>4. Cardinality(K) <= Cardinality(K2) + 1 /\ Cardinality(K) \in Nat
      <4> HIDE DEF K, K2
      <4> QED BY <2>2, <3>2, <3>3, Covered
    <3> HIDE DEF n, K, K2
    <3>5. a2[x] <= n + Cardinality(K2) BY <2>2, <2>3, <2>4, <3>1, <3>4
    <3> QED BY <3>5 DEF n, K2
  <2> QED BY <2>5, <2>6
<1> QED BY <1>5, <1>9, <1>10 DEF AckOK, c2, a2, Retaken

\* A rewind leaves the path's first n entries and the inputs held, each with
\* an entry on the branch.
Rewinds(p, q, n, ib, ib2) ==
    /\ n <= Len(q) /\ \A e \in 1..n : q[e] = p[e]
    /\ Len(ib2) = Len(ib)
    /\ \A j \in 1..Len(ib) :
          SameInput(ib[j], ib2[j]) /\ ib2[j].entry # 0 /\ ~ib[j].declined

\* What a rewind counts as accepted: the items of the branch, and the inputs
\* held whose call was answered.
AckedAt(p, n, ib, c) ==
    [x \in Contents |->
        Cardinality({e \in 1..n : p[e].k = "item" /\ p[e].x = x})
        + Cardinality({j \in DOMAIN ib :
              /\ ib[j].x = x
              /\ ib[j].p > 0 => c[ib[j].p] # "written"})]

\* After a rewind the items that remain and the inputs the agent holds are
\* what the recorder still answers for.
LEMMA RewindAck ==
    ASSUME NEW p \in Seq(Entries), NEW q \in Seq(Entries), NEW n \in 0..Len(p),
           NEW ib \in Seq(BoxItems), NEW ib2 \in Seq(BoxItems),
           Rewinds(p, q, n, ib, ib2), NEW c, NEW a0,
           a0 = AckedAt(p, n, ib, c)
    PROVE  LateOK(ib2, c) /\ AckOK(q, ib2, c, a0)
<1> DEFINE B(x) == {j \in DOMAIN ib : /\ ib[j].x = x
                                      /\ ib[j].p > 0 => c[ib[j].p] # "written"}
           a == [x \in Contents |->
                  Cardinality({e \in 1..n : p[e].k = "item" /\ p[e].x = x})
                  + Cardinality(B(x))]
<1>0. /\ n <= Len(q) /\ \A e \in 1..n : q[e] = p[e]
      /\ Len(ib2) = Len(ib)
      /\ \A j \in 1..Len(ib) :
            SameInput(ib[j], ib2[j]) /\ ib2[j].entry # 0 /\ ~ib[j].declined
  BY DEF Rewinds
<1>1. DOMAIN ib = 1..Len(ib) /\ DOMAIN ib2 = 1..Len(ib) BY <1>0
<1>2. LateOK(ib2, c) BY <1>0, <1>1 DEF LateOK
<1>3. ASSUME NEW x \in Contents
      PROVE  /\ a[x] \in Nat
             /\ a[x] <= Cardinality(ItemsAt(q, Len(q), x))
                        + Cardinality(KeptOf(ib2, c, x))
  <2>1. B(x) \in SUBSET KeptOf(ib2, c, x)
    BY <1>0, <1>1 DEF KeptOf, SameInput
  <2>2. IsFiniteSet(KeptOf(ib2, c, x)) BY KeptCounts
  <2>3. /\ Cardinality(B(x)) <= Cardinality(KeptOf(ib2, c, x))
        /\ Cardinality(B(x)) \in Nat /\ Cardinality(KeptOf(ib2, c, x)) \in Nat
    <3> HIDE DEF B
    <3> QED BY <2>1, <2>2, PartOf
  <2>4. /\ Cardinality(ItemsAt(p, n, x)) <= Cardinality(ItemsAt(q, Len(q), x))
        /\ Cardinality(ItemsAt(p, n, x)) \in Nat
        /\ Cardinality(ItemsAt(q, Len(q), x)) \in Nat
    BY <1>0, ItemsKept
  <2>5. a[x] = Cardinality(ItemsAt(p, n, x)) + Cardinality(B(x))
    BY DEF ItemsAt
  <2> HIDE DEF a, B
  <2> QED BY <2>3, <2>4, <2>5
<1>4. a0 = a BY DEF AckedAt
<1>5. AckOK(q, ib2, c, a)
  <2> HIDE DEF a
  <2> QED BY <1>3 DEF AckOK
<1> HIDE DEF a
<1> QED BY <1>2, <1>4, <1>5

-----------------------------------------------------------------------------
(* The invariant.                                                          *)

\* The path, the inbox and the agent's queue agree.
Sound(p, ib, c, ag, ev) ==
    /\ p \in Seq(Entries) /\ ib \in Seq(BoxItems)
    /\ c \in [Inputs -> Pcs] /\ ag \in Seq(Ins) /\ ev \in Seq(Ins)
    /\ PathOK(p) /\ EntriesOK(p, ib) /\ BoxInv(ib, c, ag, ev)

\* What the path and the inbox hold and owe of each content was submitted,
\* beside the inputs whose first sign is an event to come.
Fit(p, ib, c, ev, s) ==
    \A x \in Contents :
       FitsAll(p, ib, x, s[x] - Cardinality(DirectOf(ev, c, x)))

\* What was accepted is kept.
Kept(p, ib, c, a) == LateOK(ib, c) /\ AckOK(p, ib, c, a)

Inv ==
    /\ Sound(path, inbox, pc, agq, evq)
    /\ acked \in [Contents -> Nat] /\ submitted \in [Contents -> Nat]
    /\ warned \in BOOLEAN
    /\ Fit(path, inbox, pc, evq, submitted)
    /\ ~warned => Kept(path, inbox, pc, acked)

\* Each path left is one that a return may go on from: what it holds and
\* owed at any point was submitted.
LeftOK(L, c, ev, s) ==
    \A q \in L : q \in Seq(Entries) /\ PathOK(q) /\ Fit(q, <<>>, c, ev, s)

IndInv == Inv /\ LeftOK(left, pc, evq, submitted)

\* A requeue, whole or cut short.
LEMMA Requeuing ==
    ASSUME NEW p, NEW ib, NEW c, NEW ag, NEW ev, Sound(p, ib, c, ag, ev),
           NEW n \in 0..Len(Missing(ib))
    PROVE  LET p2 == Requeued(p, ib, n)
               ib2 == InboxRequeued(p, ib, n)
           IN /\ Sound(p2, ib2, c, ag, ev)
              /\ Writes(p, ib, p2, ib2)
              /\ n = Len(Missing(ib)) => \A j \in 1..Len(ib) : ib2[j].entry # 0
<1> DEFINE p2 == Requeued(p, ib, n)
           ib2 == InboxRequeued(p, ib, n)
<1>1. /\ p \in Seq(Entries) /\ ib \in Seq(BoxItems)
      /\ c \in [Inputs -> Pcs] /\ ag \in Seq(Ins) /\ ev \in Seq(Ins)
      /\ PathOK(p) /\ EntriesOK(p, ib) /\ BoxInv(ib, c, ag, ev)
  BY DEF Sound
<1>2. \A j \in 1..Len(ib) : ib[j].entry <= Len(p) BY <1>1, EntriesOnPath
<1>3. /\ Writes(p, ib, p2, ib2)
      /\ n = Len(Missing(ib)) => \A j \in 1..Len(ib) : ib2[j].entry # 0
  BY <1>1, <1>2, RequeueWrites
<1> HIDE DEF p2, ib2
<1>4. PathOK(p2) /\ EntriesOK(p2, ib2) BY <1>1, <1>3, WritesEntries
<1>5. BoxInv(ib2, c, ag, ev) BY <1>1, <1>3, WritesBox
<1>6. p2 \in Seq(Entries) /\ ib2 \in Seq(BoxItems) BY <1>3 DEF Writes
<1>7. Sound(p2, ib2, c, ag, ev) BY <1>1, <1>4, <1>5, <1>6 DEF Sound
<1> QED BY <1>3, <1>7 DEF p2, ib2

\* What is owed is a whole number.
LEMMA RoomIs ==
    ASSUME NEW ev \in Seq(Ins), NEW c, NEW s \in [Contents -> Nat],
           NEW x \in Contents
    PROVE  /\ s[x] \in Nat /\ Cardinality(DirectOf(ev, c, x)) \in Nat
           /\ s[x] - Cardinality(DirectOf(ev, c, x)) \in Int
<1>1. s[x] \in Nat OBVIOUS
<1>2. Cardinality(DirectOf(ev, c, x)) \in Nat BY DirectCounts
<1> QED BY <1>1, <1>2

\* Writes keep the fit.
LEMMA WritesFit ==
    ASSUME NEW p \in Seq(Entries), NEW ib \in Seq(BoxItems), NEW q, NEW ib2,
           Writes(p, ib, q, ib2), NEW c, NEW ev \in Seq(Ins),
           NEW s \in [Contents -> Nat], Fit(p, ib, c, ev, s)
    PROVE  Fit(q, ib2, c, ev, s)
<1> SUFFICES ASSUME NEW x \in Contents
             PROVE  FitsAll(q, ib2, x, s[x] - Cardinality(DirectOf(ev, c, x)))
  BY DEF Fit
<1> DEFINE r == s[x] - Cardinality(DirectOf(ev, c, x))
<1>1. r \in Int BY RoomIs
<1>2. FitsAll(p, ib, x, r) BY DEF Fit
<1> HIDE DEF r
<1>3. FitsAll(q, ib2, x, r) BY <1>1, <1>2, WritesFits
<1> QED BY <1>3 DEF r

\* The inputs of an inbox are those of another, at the same places.
Leaves(ib, ib2) ==
    /\ Len(ib2) <= Len(ib)
    /\ \A j \in 1..Len(ib2) : /\ ib2[j].entry = ib[j].entry
                              /\ ib2[j].x = ib[j].x /\ ib2[j].d = ib[j].d

\* There is no less room for what is submitted, beside the events to come.
Spares(c, ev, s, c2, ev2, s2) ==
    \A x \in Contents : s[x] + Cardinality(DirectOf(ev2, c2, x))
                          <= s2[x] + Cardinality(DirectOf(ev, c, x))

\* The fit is kept by an inbox with no other inputs, and no less room.
LEMMA FitFewer ==
    ASSUME NEW p \in Seq(Entries), NEW ib \in Seq(BoxItems),
           NEW ib2 \in Seq(BoxItems), Leaves(ib, ib2),
           NEW c, NEW c2, NEW ev \in Seq(Ins), NEW ev2 \in Seq(Ins),
           NEW s \in [Contents -> Nat], NEW s2 \in [Contents -> Nat],
           Fit(p, ib, c, ev, s), Spares(c, ev, s, c2, ev2, s2)
    PROVE  Fit(p, ib2, c2, ev2, s2)
<1> SUFFICES ASSUME NEW x \in Contents
             PROVE  FitsAll(p, ib2, x, s2[x] - Cardinality(DirectOf(ev2, c2, x)))
  BY DEF Fit
<1> DEFINE r == s[x] - Cardinality(DirectOf(ev, c, x))
           r2 == s2[x] - Cardinality(DirectOf(ev2, c2, x))
<1>1. /\ s[x] \in Nat /\ Cardinality(DirectOf(ev, c, x)) \in Nat
      /\ s2[x] \in Nat /\ Cardinality(DirectOf(ev2, c2, x)) \in Nat
  BY RoomIs
<1>2. s[x] + Cardinality(DirectOf(ev2, c2, x))
        <= s2[x] + Cardinality(DirectOf(ev, c, x))
  BY DEF Spares
<1>3. r \in Int /\ r2 \in Int /\ r <= r2 BY ONLY <1>1, <1>2
<1>4. FitsAll(p, ib, x, r) BY DEF Fit
<1> HIDE DEF r, r2
<1>5. FitsAll(p, ib2, x, r2) BY <1>3, <1>4, FitsFewer DEF Leaves
<1> QED BY <1>5 DEF r2

\* The paths left are as they were, where there is no less room.
LEMMA LeftKept ==
    ASSUME NEW L, NEW c, NEW c2, NEW ev \in Seq(Ins), NEW ev2 \in Seq(Ins),
           NEW s \in [Contents -> Nat], NEW s2 \in [Contents -> Nat],
           LeftOK(L, c, ev, s), Spares(c, ev, s, c2, ev2, s2)
    PROVE  LeftOK(L, c2, ev2, s2)
<1> SUFFICES ASSUME NEW q \in L
             PROVE  q \in Seq(Entries) /\ PathOK(q) /\ Fit(q, <<>>, c2, ev2, s2)
  BY DEF LeftOK
<1>1. q \in Seq(Entries) /\ PathOK(q) /\ Fit(q, <<>>, c, ev, s)
  BY DEF LeftOK
<1>2. <<>> \in Seq(BoxItems) /\ Leaves(<<>>, <<>>) BY DEF Leaves
<1>3. Fit(q, <<>>, c2, ev2, s2) BY <1>1, <1>2, FitFewer
<1> QED BY <1>1, <1>3

\* There is room for an input of content y more.
SparesOne(y, c, ev, s, c2, ev2, s2) ==
    \A x \in Contents :
       s[x] + Cardinality(DirectOf(ev2, c2, x)) + (IF y = x THEN 1 ELSE 0)
         <= s2[x] + Cardinality(DirectOf(ev, c, x))

\* The fit is kept by an input more that was submitted, or seen, with it.
LEMMA FitAppend ==
    ASSUME NEW p \in Seq(Entries), NEW ib \in Seq(BoxItems),
           NEW in \in BoxItems,
           NEW c, NEW c2, NEW ev \in Seq(Ins), NEW ev2 \in Seq(Ins),
           NEW s \in [Contents -> Nat], NEW s2 \in [Contents -> Nat],
           Fit(p, ib, c, ev, s), SparesOne(in.x, c, ev, s, c2, ev2, s2)
    PROVE  Fit(p, Append(ib, in), c2, ev2, s2)
<1> SUFFICES ASSUME NEW x \in Contents
             PROVE  FitsAll(p, Append(ib, in), x,
                            s2[x] - Cardinality(DirectOf(ev2, c2, x)))
  BY DEF Fit
<1> DEFINE r == s[x] - Cardinality(DirectOf(ev, c, x))
           r2 == s2[x] - Cardinality(DirectOf(ev2, c2, x))
           o == IF in.x = x THEN 1 ELSE 0
<1>1. /\ s[x] \in Nat /\ Cardinality(DirectOf(ev, c, x)) \in Nat
      /\ s2[x] \in Nat /\ Cardinality(DirectOf(ev2, c2, x)) \in Nat
  BY RoomIs
<1>2. s[x] + Cardinality(DirectOf(ev2, c2, x)) + o
        <= s2[x] + Cardinality(DirectOf(ev, c, x))
  BY DEF SparesOne
<1>3. o \in Nat OBVIOUS
<1>4. r \in Int /\ r2 \in Int /\ r + o <= r2
  <2> HIDE DEF o
  <2> QED BY ONLY <1>1, <1>2, <1>3, SMTT(30)
<1>5. FitsAll(p, ib, x, r) BY DEF Fit
<1> HIDE DEF r, r2
<1>6. FitsAll(p, Append(ib, in), x, r2) BY <1>4, <1>5, FitsAppend
<1> QED BY <1>6 DEF r2

\* One more input of a content was submitted.
LEMMA OneMore ==
    ASSUME NEW s \in [Contents -> Nat], NEW x \in Contents
    PROVE  LET s2 == [s EXCEPT ![x] = @ + 1] IN
           /\ s2 \in [Contents -> Nat]
           /\ \A y \in Contents : s2[y] = s[y] + (IF x = y THEN 1 ELSE 0)
  OBVIOUS

\* An input added to the inbox by a call, and a requeue after it.
Submits(p, ib, c, ag, ev, s, i, in, n) ==
    LET ib1 == Append(ib, in)
        p2 == Requeued(p, ib1, n)
        ib2 == InboxRequeued(p, ib1, n)
        c2 == [c EXCEPT ![i] = "written"]
        s2 == [s EXCEPT ![Content[i]] = @ + 1]
    IN /\ Sound(p2, ib2, c2, ag, ev) /\ Fit(p2, ib2, c2, ev, s2)
       /\ s2 \in [Contents -> Nat]
       /\ Len(p) <= Len(p2) /\ \A e \in 1..Len(p) : p2[e] = p[e]
       /\ Len(ib2) = Len(ib) + 1
       /\ \A j \in 1..Len(ib) :
             /\ SameInput(ib[j], ib2[j])
             /\ ib[j].entry # 0 => ib2[j].entry = ib[j].entry
       /\ ib2[Len(ib) + 1].p = i
       /\ n = Len(Missing(ib1)) => \A j \in 1..Len(ib2) : ib2[j].entry # 0

\* A call that adds its input and writes the first n entries lacking leaves
\* the log, the inbox and the counts in agreement.
LEMMA Submitting ==
    ASSUME NEW p, NEW ib, NEW c, NEW ag, NEW ev, Sound(p, ib, c, ag, ev),
           NEW s \in [Contents -> Nat], Fit(p, ib, c, ev, s),
           NEW i \in Inputs, c[i] = "new", NEW in \in BoxItems, in.p = i,
           in.x = Content[i], in.entry = 0, in.held, in.awaiting, ~in.declined,
           NEW n \in 0..Len(Missing(Append(ib, in)))
    PROVE  Submits(p, ib, c, ag, ev, s, i, in, n)
<1> DEFINE ib1 == Append(ib, in)
           p2 == Requeued(p, ib1, n)
           ib2 == InboxRequeued(p, ib1, n)
           c2 == [c EXCEPT ![i] = "written"]
           s2 == [s EXCEPT ![Content[i]] = @ + 1]
<1>1. /\ p \in Seq(Entries) /\ ib \in Seq(BoxItems)
      /\ c \in [Inputs -> Pcs] /\ ag \in Seq(Ins) /\ ev \in Seq(Ins)
      /\ PathOK(p) /\ EntriesOK(p, ib) /\ BoxInv(ib, c, ag, ev)
  BY DEF Sound
<1>2. BoxInv(ib1, c2, ag, ev) BY <1>1, BoxSubmitted
<1>3. EntriesOK(p, ib1) BY <1>1, EntriesAppend
<1>4. /\ ib1 \in Seq(BoxItems) /\ Len(ib1) = Len(ib) + 1 /\ Len(ib) \in Nat
      /\ ib1[Len(ib) + 1] = in /\ \A j \in 1..Len(ib) : ib1[j] = ib[j]
  BY <1>1
<1>5. c2 \in [Inputs -> Pcs] BY <1>1 DEF Pcs
<1>6. Sound(p, ib1, c2, ag, ev)
  BY <1>1, <1>2, <1>3, <1>4, <1>5 DEF Sound
<1>7. Content[i] \in Contents BY DEF Contents
<1>8. /\ s2 \in [Contents -> Nat]
      /\ \A y \in Contents : s2[y] = s[y] + (IF Content[i] = y THEN 1 ELSE 0)
  BY <1>7, OneMore
<1>9. SparesOne(in.x, c, ev, s, c2, ev, s2)
  <2> SUFFICES ASSUME NEW x \in Contents
               PROVE  s[x] + Cardinality(DirectOf(ev, c2, x))
                            + (IF in.x = x THEN 1 ELSE 0)
                             <= s2[x] + Cardinality(DirectOf(ev, c, x))
    BY DEF SparesOne
  <2>1. Cardinality(DirectOf(ev, c2, x)) <= Cardinality(DirectOf(ev, c, x))
    BY <1>1, DirectKept
  <2>2. /\ s[x] \in Nat /\ Cardinality(DirectOf(ev, c, x)) \in Nat
        /\ Cardinality(DirectOf(ev, c2, x)) \in Nat
    BY <1>1, RoomIs
  <2>3. s2[x] = s[x] + (IF in.x = x THEN 1 ELSE 0) BY <1>8
  <2>4. (IF in.x = x THEN 1 ELSE 0) \in Nat OBVIOUS
  <2> HIDE DEF s2, c2
  <2> DEFINE o == IF in.x = x THEN 1 ELSE 0
  <2>5. s2[x] = s[x] + o /\ o \in Nat BY <2>3, <2>4
  <2> HIDE DEF o
  <2>6. s[x] + Cardinality(DirectOf(ev, c2, x)) + o
           <= s2[x] + Cardinality(DirectOf(ev, c, x))
    BY ONLY <2>1, <2>2, <2>5
  <2> QED BY <2>6 DEF o
<1>10. Fit(p, ib1, c2, ev, s2)
  <2> HIDE DEF c2, s2
  <2> QED BY <1>1, <1>8, <1>9, FitAppend
<1> HIDE DEF ib1, c2, s2
<1>11. /\ Sound(p2, ib2, c2, ag, ev) /\ Writes(p, ib1, p2, ib2)
       /\ n = Len(Missing(ib1)) => \A j \in 1..Len(ib1) : ib2[j].entry # 0
  <2>1. n \in 0..Len(Missing(ib1)) BY DEF ib1
  <2> QED BY <1>6, <2>1, Requeuing
<1> HIDE DEF p2, ib2
<1>12. Fit(p2, ib2, c2, ev, s2)
  BY <1>1, <1>4, <1>8, <1>10, <1>11, WritesFit
<1>13. /\ Len(p) <= Len(p2) /\ \A e \in 1..Len(p) : p2[e] = p[e]
       /\ Len(ib2) = Len(ib1)
       /\ \A j \in 1..Len(ib1) :
             /\ SameInput(ib1[j], ib2[j])
             /\ ib1[j].entry # 0 => ib2[j].entry = ib1[j].entry
  BY <1>11 DEF Writes
<1>14. \A j \in 1..Len(ib) : j \in 1..Len(ib1) /\ ib1[j] = ib[j] BY <1>4
<1>15. ib2[Len(ib) + 1].p = i
  <2>1. Len(ib) + 1 \in 1..Len(ib1) BY <1>4
  <2> QED BY <1>4, <1>13, <2>1 DEF SameInput
<1>16. /\ Len(ib2) = Len(ib) + 1
       /\ \A j \in 1..Len(ib) :
             /\ SameInput(ib[j], ib2[j])
             /\ ib[j].entry # 0 => ib2[j].entry = ib[j].entry
       /\ n = Len(Missing(ib1)) => \A j \in 1..Len(ib2) : ib2[j].entry # 0
  BY <1>4, <1>11, <1>13, <1>14
<1>17. Len(p) <= Len(p2) /\ \A e \in 1..Len(p) : p2[e] = p[e] BY <1>13
<1> QED BY <1>8, <1>11, <1>12, <1>15, <1>16, <1>17
        DEF Submits, ib1, p2, ib2, c2, s2

\* An input not yet submitted is not in the inbox.
LEMMA NotThere ==
    ASSUME NEW p, NEW ib, NEW c, NEW ag, NEW ev, Sound(p, ib, c, ag, ev),
           NEW i \in Inputs, c[i] = "new"
    PROVE  /\ DOMAIN ib = 1..Len(ib)
           /\ \A j \in 1..Len(ib) : ib[j].p > 0 =>
                 ib[j].p \in Inputs /\ ib[j].p # i
<1>1. DOMAIN ib = 1..Len(ib) BY DEF Sound
<1>2. \A j \in DOMAIN ib : InputOK(ib[j], c) BY DEF Sound, BoxInv
<1> QED BY <1>1, <1>2 DEF InputOK

\* A call changes the state of one input, which is not in the inbox, and
\* what is there keeps its entries, or takes one: what was kept is.
LEMMA AckCalled ==
    ASSUME NEW p, NEW ib, NEW c, NEW ag, NEW ev, Sound(p, ib, c, ag, ev),
           NEW i \in Inputs, c[i] = "new", NEW v,
           NEW q \in Seq(Entries), Continues(p, q),
           NEW ib2 \in Seq(BoxItems), Len(ib) <= Len(ib2),
           \A j \in 1..Len(ib) :
              /\ ib2[j].p = ib[j].p /\ ib2[j].x = ib[j].x
              /\ ib2[j].declined = ib[j].declined
              /\ ib[j].entry # 0 => ib2[j].entry # 0,
           \A j \in 1..Len(ib2) : j \notin 1..Len(ib) =>
              ib2[j].entry # 0 \/ ib2[j].declined,
           NEW a \in [Contents -> Nat], Kept(p, ib, c, a)
    PROVE  Kept(q, ib2, [c EXCEPT ![i] = v], a)
<1> DEFINE c2 == [c EXCEPT ![i] = v]
<1>1. /\ p \in Seq(Entries) /\ ib \in Seq(BoxItems) /\ c \in [Inputs -> Pcs]
      /\ LateOK(ib, c) /\ AckOK(p, ib, c, a)
  BY DEF Sound, Kept
<1>2. /\ DOMAIN ib = 1..Len(ib) /\ DOMAIN ib2 = 1..Len(ib2)
      /\ \A j \in 1..Len(ib) : ib[j].p > 0 =>
            ib[j].p \in Inputs /\ ib[j].p # i
  BY NotThere
<1>3. \A j \in 1..Len(ib) : ib[j].p > 0 => c2[ib2[j].p] = c[ib[j].p]
  BY <1>1, <1>2
<1> HIDE DEF c2
<1>4. AckOK(q, ib2, c2, a)
  <2>1. Keeps(ib, c, ib2, c2) BY <1>3 DEF Keeps
  <2> QED BY <1>1, <2>1, AckMore
<1>5. LateOK(ib2, c2)
  <2> SUFFICES ASSUME NEW j \in 1..Len(ib2), ib2[j].entry = 0
               PROVE  ib2[j].declined \/ (ib2[j].p > 0 /\ c2[ib2[j].p] = "direct")
    BY <1>2 DEF LateOK
  <2>1. CASE j \notin 1..Len(ib) BY <2>1
  <2>2. CASE j \in 1..Len(ib)
    <3>1. ib[j].entry = 0 BY <2>2
    <3>2. ib[j].declined \/ (ib[j].p > 0 /\ c[ib[j].p] = "direct")
      BY <1>1, <1>2, <2>2, <3>1 DEF LateOK
    <3> QED BY <1>3, <2>2, <3>2
  <2> QED BY <2>1, <2>2
<1> QED BY <1>4, <1>5 DEF Kept, c2

\* An inbox made of inputs of another at the same places, all that are held
\* among them.
LEMMA EntriesAtPlaces ==
    ASSUME NEW p, NEW ib \in Seq(BoxItems), NEW ib2 \in Seq(BoxItems),
           EntriesOK(p, ib), Len(ib2) <= Len(ib),
           \A j \in 1..Len(ib2) :
              /\ ib2[j].entry = ib[j].entry
              /\ ib2[j].x = ib[j].x /\ ib2[j].d = ib[j].d
    PROVE  EntriesOK(p, ib2)
<1> DEFINE f == [j \in 1..Len(ib2) |-> j]
<1>1. f \in [1..Len(ib2) -> 1..Len(ib)] OBVIOUS
<1>2. \A a, b \in 1..Len(ib2) : f[a] = f[b] => a = b OBVIOUS
<1>3. \A j \in 1..Len(ib2) : f[j] = j OBVIOUS
<1> HIDE DEF f
<1>4. \A j \in 1..Len(ib2) :
         ib2[j].entry # 0 => /\ ib2[j].entry = ib[f[j]].entry
                             /\ ib2[j].x = ib[f[j]].x
                             /\ ib2[j].d = ib[f[j]].d
  BY <1>3
<1> QED BY ONLY ib \in Seq(BoxItems), ib2 \in Seq(BoxItems), EntriesOK(p, ib),
                <1>1, <1>2, <1>4, EntriesOfSome

\* A call whose write fails takes its input back.
TakesBack(p2, ib, ib2, c, ag, ev, i) ==
    LET ib3 == SubSeq(ib2, 1, Len(ib)) IN
    /\ Sound(p2, ib3, [c EXCEPT ![i] = "failed"], ag, ev)
    /\ Len(ib3) = Len(ib) /\ \A j \in 1..Len(ib) : ib3[j] = ib2[j]

\* Queue takes its input back out of the inbox after a failed write: the rest
\* agrees as before.
LEMMA TakenBack ==
    ASSUME NEW p, NEW ib, NEW c, NEW ag, NEW ev, Sound(p, ib, c, ag, ev),
           NEW i \in Inputs, c[i] = "new",
           NEW p2, NEW ib2, NEW c2, Sound(p2, ib2, c2, ag, ev),
           c2 = [c EXCEPT ![i] = "written"],
           Len(ib2) = Len(ib) + 1,
           \A j \in 1..Len(ib) : SameInput(ib[j], ib2[j])
    PROVE  TakesBack(p2, ib, ib2, c, ag, ev, i)
<1> DEFINE ib3 == SubSeq(ib2, 1, Len(ib))
           c3 == [c EXCEPT ![i] = "failed"]
           f == [j \in 1..Len(ib) |-> j]
<1>1. /\ p2 \in Seq(Entries) /\ ib2 \in Seq(BoxItems) /\ ib \in Seq(BoxItems)
      /\ ag \in Seq(Ins) /\ ev \in Seq(Ins) /\ c \in [Inputs -> Pcs]
      /\ PathOK(p2) /\ EntriesOK(p2, ib2) /\ BoxInv(ib, c, ag, ev)
  BY DEF Sound
<1>2. Len(ib) \in Nat BY <1>1
<1>3. ib3 \in Seq(BoxItems) /\ Len(ib3) = Len(ib)
      /\ \A j \in 1..Len(ib) : ib3[j] = ib2[j]
  BY <1>1, <1>2
<1>4. c3 \in [Inputs -> Pcs] BY <1>1 DEF Pcs
<1> HIDE DEF ib3
<1>5. EntriesOK(p2, ib3)
  <2>1. Len(ib3) <= Len(ib2) BY <1>2, <1>3
  <2>2. \A j \in 1..Len(ib3) : ib3[j] = ib2[j] BY <1>3
  <2> QED BY <1>1, <1>3, <2>1, <2>2, EntriesAtPlaces
<1>6. BoxInv(ib3, c, ag, ev)
  <2>1. f \in [1..Len(ib3) -> 1..Len(ib)] /\ \A j \in 1..Len(ib) : f[j] = j
    BY <1>3
  <2>2. \A u, v \in 1..Len(ib3) : f[u] = f[v] => u = v BY <1>3
  <2>3. \A j \in 1..Len(ib3) : SameInput(ib[f[j]], ib3[j]) BY <1>3
  <2>4. \A j \in 1..Len(ib) : ib[j].held => \E m \in 1..Len(ib3) : f[m] = j
    BY <1>3, <2>1
  <2> HIDE DEF f
  <2> QED BY <1>1, <1>3, <2>1, <2>2, <2>3, <2>4, BoxOfHeld
<1>7. BoxInv(ib3, c3, ag, ev) BY <1>1, <1>6, BoxFailed
<1>8. Sound(p2, ib3, c3, ag, ev)
  <2> HIDE DEF c3
  <2> QED BY <1>1, <1>3, <1>4, <1>5, <1>7 DEF Sound
<1> QED BY <1>3, <1>8 DEF TakesBack, ib3

\* A delivery's call whose write fails declines its input, and so does one
\* that the agent refuses.
Declines(p, ib, c, ag, ev, i) ==
    LET ib2 == Declined(ib, {i}) IN
    /\ Sound(p, ib2, [c EXCEPT ![i] = "failed"], ag, ev)
    /\ Len(ib2) = Len(ib)
    /\ \A j \in 1..Len(ib) :
          /\ ib2[j].entry = ib[j].entry /\ ib2[j].x = ib[j].x
          /\ ib2[j].d = ib[j].d /\ ib2[j].p = ib[j].p
          /\ IF ib2[j].p = i THEN ib2[j].declined
             ELSE ib2[j].declined = ib[j].declined

\* An input the agent refuses, or whose write failed, is declined where it
\* is: it is kept for the entry it may have, and the agent has not got it.
LEMMA Declining ==
    ASSUME NEW p, NEW ib, NEW c, NEW ag, NEW ev, Sound(p, ib, c, ag, ev),
           NEW i \in Inputs, c[i] = "written"
    PROVE  Declines(p, ib, c, ag, ev, i)
<1> DEFINE ib2 == Declined(ib, {i})
           c2 == [c EXCEPT ![i] = "failed"]
<1>1. /\ p \in Seq(Entries) /\ ib \in Seq(BoxItems)
      /\ ag \in Seq(Ins) /\ ev \in Seq(Ins) /\ c \in [Inputs -> Pcs]
      /\ PathOK(p) /\ EntriesOK(p, ib) /\ BoxInv(ib, c, ag, ev)
  BY DEF Sound
<1>2. /\ ib2 \in Seq(BoxItems) /\ Len(ib2) = Len(ib)
      /\ \A j \in 1..Len(ib) :
            /\ ib2[j].entry = ib[j].entry /\ ib2[j].x = ib[j].x
            /\ ib2[j].d = ib[j].d /\ ib2[j].p = ib[j].p
            /\ IF ib2[j].p = i THEN ib2[j].declined
               ELSE ib2[j].declined = ib[j].declined
      /\ BoxInv(ib2, c2, ag, ev)
  <2>1. /\ ib2 \in Seq(BoxItems)
        /\ Len(ib2) = Len(ib)
        /\ \A j \in 1..Len(ib) :
              LET in == ib2[j] IN
              /\ in.entry = ib[j].entry /\ in.x = ib[j].x
              /\ in.d = ib[j].d /\ in.p = ib[j].p
              /\ IF in.p = i THEN in.declined
                 ELSE in.declined = ib[j].declined
        /\ BoxInv(ib2, c2, ag, ev)
    BY <1>1, BoxDeclined, Zenon
  <2> HIDE DEF ib2, c2
  <2> QED BY <2>1, Zenon
<1>3. c2 \in [Inputs -> Pcs] BY <1>1 DEF Pcs
<1> HIDE DEF ib2, c2
<1>4. EntriesOK(p, ib2)
  <2>1. Len(ib2) <= Len(ib) BY <1>1, <1>2
  <2> QED BY <1>1, <1>2, <2>1, EntriesAtPlaces
<1>5. Sound(p, ib2, c2, ag, ev) BY <1>1, <1>2, <1>3, <1>4 DEF Sound
<1> QED BY <1>2, <1>5, Zenon DEF Declines, ib2, c2

-----------------------------------------------------------------------------
(* Each step keeps the invariant.                                          *)

\* The input that a call adds to the inbox.
LEMMA CallsInput ==
    ASSUME NEW i \in Inputs, NEW in,
           \/ in = [InboxItem(Of(i), 0, TRUE) EXCEPT !.awaiting = TRUE]
           \/ in = [InboxItem(Of(i), 0, TRUE) EXCEPT
                       !.awaiting = TRUE, !.holder = TRUE]
    PROVE  /\ in \in BoxItems /\ in.p = i /\ in.x = Content[i] /\ in.entry = 0
           /\ in.held /\ in.awaiting /\ ~in.declined
<1> DEFINE r == InboxItem(Of(i), 0, TRUE)
<1>1. i \in Int BY InboxAssumption
<1>2. Content[i] \in Contents BY DEF Contents
<1>3. Of(i).p = i /\ Of(i).x = Content[i] /\ Of(i).d \in BOOLEAN
  BY DEF Of
<1>4. r \in BoxItems BY <1>1, <1>2, <1>3 DEF InboxItem, BoxItems
<1>5. /\ r.p = i /\ r.x = Content[i] /\ r.entry = 0 /\ r.held = TRUE
      /\ r.declined = FALSE
  BY <1>3 DEF InboxItem
<1> HIDE DEF r
<1>6. in \in BoxItems BY <1>4 DEF BoxItems, r
<1>7. /\ in.p = r.p /\ in.x = r.x /\ in.entry = r.entry /\ in.held = r.held
      /\ in.declined = r.declined /\ in.awaiting = TRUE
  BY <1>4 DEF BoxItems, r
<1> QED BY <1>5, <1>6, <1>7

\* What a call leaves that adds its input and whose write succeeds or fails,
\* for Submit and Redeliver.
LEMMA CallStep ==
    ASSUME Inv, NEW i \in Inputs, pc[i] = "new", NEW in \in BoxItems,
           in.p = i, in.x = Content[i], in.entry = 0, in.held, in.awaiting,
           ~in.declined, NEW n \in 0..Len(Missing(Append(inbox, in))),
           path' = Requeued(path, Append(inbox, in), n),
           submitted' = [submitted EXCEPT ![Content[i]] = @ + 1],
           UNCHANGED <<agq, evq, acked, warned>>,
           \/ /\ n = Len(Missing(Append(inbox, in)))
              /\ inbox' = InboxRequeued(path, Append(inbox, in), n)
              /\ pc' = [pc EXCEPT ![i] = "written"]
           \/ /\ inbox' \in {Declined(InboxRequeued(path, Append(inbox, in), n), {i}),
                             SubSeq(InboxRequeued(path, Append(inbox, in), n),
                                    1, Len(inbox))}
              /\ pc' = [pc EXCEPT ![i] = "failed"]
    PROVE  Inv'
<1> DEFINE ib2 == InboxRequeued(path, Append(inbox, in), n)
           c2 == [pc EXCEPT ![i] = "written"]
           c3 == [pc EXCEPT ![i] = "failed"]
           whole == n = Len(Missing(Append(inbox, in)))
<1>1. /\ Sound(path, inbox, pc, agq, evq) /\ submitted \in [Contents -> Nat]
      /\ acked \in [Contents -> Nat] /\ warned \in BOOLEAN
      /\ Fit(path, inbox, pc, evq, submitted)
      /\ ~warned => Kept(path, inbox, pc, acked)
  BY DEF Inv
<1>2. /\ Sound(path', ib2, c2, agq, evq) /\ Fit(path', ib2, c2, evq, submitted')
      /\ submitted' \in [Contents -> Nat]
      /\ Len(path) <= Len(path') /\ \A e \in 1..Len(path) : path'[e] = path[e]
      /\ Len(ib2) = Len(inbox) + 1
      /\ \A j \in 1..Len(inbox) :
            /\ SameInput(inbox[j], ib2[j])
            /\ inbox[j].entry # 0 => ib2[j].entry = inbox[j].entry
      /\ ib2[Len(inbox) + 1].p = i
      /\ whole => \A j \in 1..Len(ib2) : ib2[j].entry # 0
  <2> DEFINE p2 == Requeued(path, Append(inbox, in), n)
             s2 == [submitted EXCEPT ![Content[i]] = @ + 1]
  <2>1. /\ Sound(p2, ib2, c2, agq, evq) /\ Fit(p2, ib2, c2, evq, s2)
        /\ s2 \in [Contents -> Nat]
        /\ Len(path) <= Len(p2) /\ \A e \in 1..Len(path) : p2[e] = path[e]
        /\ Len(ib2) = Len(inbox) + 1
        /\ \A j \in 1..Len(inbox) :
              /\ SameInput(inbox[j], ib2[j])
              /\ inbox[j].entry # 0 => ib2[j].entry = inbox[j].entry
        /\ ib2[Len(inbox) + 1].p = i
        /\ whole => \A j \in 1..Len(ib2) : ib2[j].entry # 0
    <3>1. Submits(path, inbox, pc, agq, evq, submitted, i, in, n)
      BY <1>1, Submitting
    <3> QED BY <3>1 DEF Submits
  <2>2. path' = p2 /\ submitted' = s2 OBVIOUS
  <2> HIDE DEF p2, s2, ib2, c2, whole
  <2> QED BY ONLY <2>1, <2>2
<1>3. /\ pc \in [Inputs -> Pcs] /\ path' \in Seq(Entries) /\ ib2 \in Seq(BoxItems)
      /\ inbox \in Seq(BoxItems) /\ Len(inbox) \in Nat /\ evq \in Seq(Ins)
  BY <1>1, <1>2 DEF Sound
<1>4. /\ agq' = agq /\ evq' = evq /\ acked' = acked /\ warned' = warned
  OBVIOUS
<1>5. \A j \in 1..Len(inbox) : j \in 1..Len(ib2) BY <1>2, <1>3
<1> HIDE DEF ib2
<1>6. CASE whole /\ inbox' = ib2 /\ pc' = c2
  <2>1. ~warned => Kept(path', ib2, c2, acked)
    <3> SUFFICES ASSUME ~warned PROVE Kept(path', ib2, c2, acked)
      OBVIOUS
    <3>1. Kept(path, inbox, pc, acked) BY <1>1
    <3>2. \A j \in 1..Len(inbox) :
             /\ ib2[j].p = inbox[j].p /\ ib2[j].x = inbox[j].x
             /\ ib2[j].declined = inbox[j].declined
             /\ inbox[j].entry # 0 => ib2[j].entry # 0
      BY <1>2 DEF SameInput
    <3>3. \A j \in 1..Len(ib2) : j \notin 1..Len(inbox) =>
             ib2[j].entry # 0 \/ ib2[j].declined
      BY <1>2, <1>6
    <3>4. Len(inbox) <= Len(ib2) BY <1>2, <1>3
    <3> HIDE DEF whole
    <3>5. Continues(path, path') BY <1>2 DEF Continues
    <3> QED BY <1>1, <1>2, <1>3, <3>1, <3>2, <3>3, <3>4, <3>5, AckCalled
  <2> HIDE DEF c2, whole
  <2> QED BY <1>1, <1>2, <1>4, <1>6, <2>1 DEF Inv
<1>7. CASE inbox' \in {Declined(ib2, {i}), SubSeq(ib2, 1, Len(inbox))} /\ pc' = c3
  <2>1. c2 \in [Inputs -> Pcs] /\ c2[i] = "written"
        /\ [c2 EXCEPT ![i] = "failed"] = c3
    BY <1>3 DEF Pcs
  <2>2. /\ Sound(path', inbox', c3, agq, evq) /\ Len(inbox') <= Len(ib2)
        /\ \A j \in 1..Len(inbox') :
              /\ inbox'[j].entry = ib2[j].entry
              /\ inbox'[j].x = ib2[j].x /\ inbox'[j].d = ib2[j].d
        /\ Len(inbox) <= Len(inbox')
        /\ \A j \in 1..Len(inbox) :
              /\ inbox'[j].p = inbox[j].p /\ inbox'[j].x = inbox[j].x
              /\ inbox'[j].declined = inbox[j].declined
              /\ inbox[j].entry # 0 => inbox'[j].entry # 0
        /\ \A j \in 1..Len(inbox') : j \notin 1..Len(inbox) =>
              inbox'[j].entry # 0 \/ inbox'[j].declined
    <3>1. CASE inbox' = Declined(ib2, {i})
      <4>1. /\ Sound(path', inbox', [c2 EXCEPT ![i] = "failed"], agq, evq)
            /\ Len(inbox') = Len(ib2)
            /\ \A j \in 1..Len(ib2) :
                  /\ inbox'[j].entry = ib2[j].entry /\ inbox'[j].x = ib2[j].x
                  /\ inbox'[j].d = ib2[j].d /\ inbox'[j].p = ib2[j].p
                  /\ IF inbox'[j].p = i THEN inbox'[j].declined
                     ELSE inbox'[j].declined = ib2[j].declined
        <5> DEFINE ib3 == Declined(ib2, {i})
        <5>1. Sound(path', ib2, c2, agq, evq) /\ c2[i] = "written"
          BY <1>2, <2>1
        <5> HIDE DEF c2
        <5>2. /\ Sound(path', ib3, [c2 EXCEPT ![i] = "failed"], agq, evq)
              /\ Len(ib3) = Len(ib2)
              /\ \A j \in 1..Len(ib2) :
                    /\ ib3[j].entry = ib2[j].entry /\ ib3[j].x = ib2[j].x
                    /\ ib3[j].d = ib2[j].d /\ ib3[j].p = ib2[j].p
                    /\ IF ib3[j].p = i THEN ib3[j].declined
                       ELSE ib3[j].declined = ib2[j].declined
          <6>1. Declines(path', ib2, c2, agq, evq, i) BY <5>1, Declining
          <6> QED BY ONLY <6>1, Zenon DEF Declines
        <5>3. inbox' = ib3 BY <3>1
        <5> HIDE DEF ib3
        <5> QED BY ONLY <5>2, <5>3
      <4>2. \A j \in 1..Len(inbox) : inbox[j].p # i
        <5>1. i > 0 BY InboxAssumption
        <5> QED BY <1>1, <5>1, NotThere
      <4>3. ASSUME NEW j \in 1..Len(inbox)
            PROVE  /\ inbox'[j].p = inbox[j].p /\ inbox'[j].x = inbox[j].x
                   /\ inbox'[j].declined = inbox[j].declined
                   /\ inbox[j].entry # 0 => inbox'[j].entry # 0
        <5>1. j \in 1..Len(ib2) /\ SameInput(inbox[j], ib2[j])
              /\ (inbox[j].entry # 0 => ib2[j].entry = inbox[j].entry)
          BY <1>2, <1>5
        <5>2. inbox'[j].p = inbox[j].p /\ inbox'[j].p # i
              /\ inbox'[j].x = inbox[j].x
          BY <4>1, <4>2, <5>1 DEF SameInput
        <5>3. inbox'[j].declined = ib2[j].declined BY <4>1, <5>1, <5>2
        <5>4. inbox[j].entry # 0 => inbox'[j].entry # 0 BY <4>1, <5>1
        <5>5. inbox'[j].declined = inbox[j].declined
          BY <5>1, <5>3 DEF SameInput
        <5> QED BY <5>2, <5>4, <5>5
      <4>4. \A j \in 1..Len(inbox') : j \notin 1..Len(inbox) =>
               inbox'[j].declined
        <5> SUFFICES ASSUME NEW j \in 1..Len(inbox'), j \notin 1..Len(inbox)
                     PROVE  inbox'[j].declined
          OBVIOUS
        <5>1. j = Len(inbox) + 1 /\ j \in 1..Len(ib2)
          BY <1>2, <1>3, <4>1
        <5>2. inbox'[j].p = i BY <1>2, <4>1, <5>1
        <5> QED BY <4>1, <5>1, <5>2
      <4>5. Len(inbox') <= Len(ib2) /\ Len(inbox) <= Len(inbox')
        BY <1>2, <1>3, <4>1
      <4> HIDE DEF c2, c3
      <4> QED BY <2>1, <4>1, <4>3, <4>4, <4>5
    <3>2. CASE inbox' = SubSeq(ib2, 1, Len(inbox))
      <4>1. /\ Sound(path', inbox', c3, agq, evq) /\ Len(inbox') = Len(inbox)
            /\ \A j \in 1..Len(inbox) : inbox'[j] = ib2[j]
        <5> DEFINE ib3 == SubSeq(ib2, 1, Len(inbox))
        <5>1. /\ Sound(path', ib2, c2, agq, evq) /\ Len(ib2) = Len(inbox) + 1
              /\ \A j \in 1..Len(inbox) : SameInput(inbox[j], ib2[j])
          BY <1>2
        <5>2. c2 = [pc EXCEPT ![i] = "written"] OBVIOUS
        <5> HIDE DEF c2
        <5>3. /\ Sound(path', ib3, c3, agq, evq) /\ Len(ib3) = Len(inbox)
              /\ \A j \in 1..Len(inbox) : ib3[j] = ib2[j]
          <6>1. TakesBack(path', inbox, ib2, pc, agq, evq, i)
            BY <1>1, <5>1, <5>2, TakenBack
          <6> QED BY <6>1 DEF TakesBack
        <5>4. inbox' = ib3 BY <3>2
        <5> HIDE DEF ib3, c3
        <5> QED BY ONLY <5>3, <5>4
      <4>2. Len(inbox') <= Len(ib2) /\ Len(inbox) <= Len(inbox')
        BY <1>2, <1>3, <4>1
      <4>3. \A j \in 1..Len(inbox) :
              /\ inbox'[j].p = inbox[j].p /\ inbox'[j].x = inbox[j].x
              /\ inbox'[j].declined = inbox[j].declined
              /\ inbox[j].entry # 0 => inbox'[j].entry # 0
        BY <1>2, <4>1 DEF SameInput
      <4> HIDE DEF c3
      <4> QED BY <4>1, <4>2, <4>3
    <3> QED BY <1>7, <3>1, <3>2
  <2>3. inbox' \in Seq(BoxItems) BY <2>2 DEF Sound
  <2>4. Fit(path', inbox', c3, evq, submitted')
    <3>1. Spares(c2, evq, submitted', c3, evq, submitted')
      <4> SUFFICES ASSUME NEW x \in Contents
                   PROVE  submitted'[x] + Cardinality(DirectOf(evq, c3, x))
                          <= submitted'[x] + Cardinality(DirectOf(evq, c2, x))
        BY DEF Spares
      <4>1. BoxInv(ib2, c2, agq, evq) BY <1>2 DEF Sound
      <4>2. Cardinality(DirectOf(evq, c3, x)) <= Cardinality(DirectOf(evq, c2, x))
        <5> HIDE DEF c2, c3
        <5> QED BY <1>3, <2>1, <4>1, DirectKept
      <4>3. submitted'[x] \in Nat /\ Cardinality(DirectOf(evq, c3, x)) \in Nat
            /\ Cardinality(DirectOf(evq, c2, x)) \in Nat
        BY <1>2, <1>3, RoomIs
      <4> HIDE DEF c2, c3
      <4> QED BY ONLY <4>2, <4>3
    <3> HIDE DEF c2, c3
    <3>2. Fit(path', ib2, c2, evq, submitted') /\ submitted' \in [Contents -> Nat]
      BY <1>2
    <3>3. Leaves(ib2, inbox') BY <2>2 DEF Leaves
    <3>4. path' \in Seq(Entries) /\ ib2 \in Seq(BoxItems) /\ evq \in Seq(Ins)
      BY <1>3
    <3> QED BY ONLY <2>3, <3>1, <3>2, <3>3, <3>4, FitFewer
  <2>5. ~warned => Kept(path', inbox', c3, acked)
    <3> SUFFICES ASSUME ~warned PROVE Kept(path', inbox', c3, acked)
      OBVIOUS
    <3>1. Kept(path, inbox, pc, acked) BY <1>1
    <3>2. Continues(path, path') BY <1>2 DEF Continues
    <3> QED BY <1>1, <1>2, <1>3, <2>2, <2>3, <3>1, <3>2, AckCalled
  <2> HIDE DEF c3
  <2> QED BY <1>1, <1>2, <1>4, <1>7, <2>2, <2>4, <2>5 DEF Inv
<1> QED BY <1>6, <1>7 DEF ib2

\* Recorder.Queue, Deliver and Accept, up to the agent's turn.
LEMMA SubmitStep ==
    ASSUME Inv, NEW i \in Inputs, Submit(i)
    PROVE  Inv'
<1> DEFINE in == [InboxItem(Of(i), 0, TRUE) EXCEPT !.awaiting = TRUE]
           ib == Append(inbox, in)
<1>2. /\ in \in BoxItems /\ in.p = i /\ in.x = Content[i] /\ in.entry = 0
      /\ in.held /\ in.awaiting /\ ~in.declined
  BY CallsInput
<1>3. /\ pc[i] = "new" /\ UNCHANGED <<agq, evq, acked, warned>>
      /\ submitted' = [submitted EXCEPT ![Content[i]] = @ + 1]
  BY DEF Submit
<1>4. \/ /\ path' = Requeued(path, ib, Len(Missing(ib)))
         /\ inbox' = InboxRequeued(path, ib, Len(Missing(ib)))
         /\ pc' = [pc EXCEPT ![i] = "written"]
      \/ \E n \in 0..(Len(Missing(ib)) - 1) :
            /\ path' = Requeued(path, ib, n)
            /\ pc' = [pc EXCEPT ![i] = "failed"]
            /\ inbox' \in {Declined(InboxRequeued(path, ib, n), {i}),
                           SubSeq(InboxRequeued(path, ib, n), 1, Len(inbox))}
  BY DEF Submit, Requeues, RequeueFails
<1>5. Len(Missing(ib)) \in Nat
  <2>1. inbox \in Seq(BoxItems) BY DEF Inv, Sound
  <2>2. ib \in Seq(BoxItems)
    <3> HIDE DEF in
    <3> QED BY <1>2, <2>1
  <2> HIDE DEF ib
  <2> QED BY <2>2, MissingLists
<1> HIDE DEF in
<1>6. CASE /\ path' = Requeued(path, ib, Len(Missing(ib)))
           /\ inbox' = InboxRequeued(path, ib, Len(Missing(ib)))
           /\ pc' = [pc EXCEPT ![i] = "written"]
  <2>1. Len(Missing(ib)) \in 0..Len(Missing(ib)) BY <1>5
  <2> QED BY <1>2, <1>3, <1>6, <2>1, CallStep
<1>7. CASE \E n \in 0..(Len(Missing(ib)) - 1) :
            /\ path' = Requeued(path, ib, n)
            /\ pc' = [pc EXCEPT ![i] = "failed"]
            /\ inbox' \in {Declined(InboxRequeued(path, ib, n), {i}),
                           SubSeq(InboxRequeued(path, ib, n), 1, Len(inbox))}
  <2>1. PICK n \in 0..(Len(Missing(ib)) - 1) :
            /\ path' = Requeued(path, ib, n)
            /\ pc' = [pc EXCEPT ![i] = "failed"]
            /\ inbox' \in {Declined(InboxRequeued(path, ib, n), {i}),
                           SubSeq(InboxRequeued(path, ib, n), 1, Len(inbox))}
    BY <1>7
  <2>2. n \in 0..Len(Missing(ib)) BY <1>5
  <2> QED BY <1>2, <1>3, <2>1, <2>2, CallStep
<1> QED BY <1>4, <1>6, <1>7

\* What a step that leaves the events to come and the counts leaves room for.
LEMMA SparesCalled ==
    ASSUME NEW ib, NEW c \in [Inputs -> Pcs], NEW ag, NEW ev \in Seq(Ins),
           BoxInv(ib, c, ag, ev), NEW i \in Inputs, NEW v, v # "direct",
           NEW s \in [Contents -> Nat]
    PROVE  Spares(c, ev, s, [c EXCEPT ![i] = v], ev, s)
<1> DEFINE c2 == [c EXCEPT ![i] = v]
<1> SUFFICES ASSUME NEW x \in Contents
             PROVE  s[x] + Cardinality(DirectOf(ev, c2, x))
                      <= s[x] + Cardinality(DirectOf(ev, c, x))
  BY DEF Spares
<1>1. Cardinality(DirectOf(ev, c2, x)) <= Cardinality(DirectOf(ev, c, x))
  BY DirectKept
<1>2. /\ s[x] \in Nat /\ Cardinality(DirectOf(ev, c, x)) \in Nat
      /\ Cardinality(DirectOf(ev, c2, x)) \in Nat
  BY RoomIs
<1> HIDE DEF c2
<1> QED BY ONLY <1>1, <1>2

\* The inbox as it is.
LEMMA LeavesIt ==
    ASSUME NEW ib \in Seq(BoxItems)
    PROVE  Leaves(ib, ib)
  BY DEF Leaves

\* The agent takes an input, from a call or from a host.
Takes(p, ib, c, ag, ev, s2, i, v) ==
    /\ Sound(p, ib, [c EXCEPT ![i] = v], Append(ag, Of(i)), Append(ev, Of(i)))
    /\ Fit(p, ib, [c EXCEPT ![i] = v], Append(ev, Of(i)), s2)

\* The agent takes an input, a written one or one queued at it directly, and
\* its event is owed.
LEMMA TakenFit ==
    ASSUME NEW p, NEW ib, NEW c, NEW ag, NEW ev, Sound(p, ib, c, ag, ev),
           NEW i \in Inputs, NEW v,
           \/ c[i] = "written" /\ v = "acked"
           \/ c[i] = "new" /\ v = "direct",
           NEW s \in [Contents -> Nat], NEW s2 \in [Contents -> Nat],
           \A x \in Contents :
              s2[x] = s[x] + (IF v = "direct" /\ Content[i] = x THEN 1 ELSE 0),
           Fit(p, ib, c, ev, s)
    PROVE  Takes(p, ib, c, ag, ev, s2, i, v)
<1> DEFINE c2 == [c EXCEPT ![i] = v]
           ag2 == Append(ag, Of(i))
           ev2 == Append(ev, Of(i))
<1>1. /\ p \in Seq(Entries) /\ ib \in Seq(BoxItems)
      /\ c \in [Inputs -> Pcs] /\ ag \in Seq(Ins) /\ ev \in Seq(Ins)
      /\ PathOK(p) /\ EntriesOK(p, ib) /\ BoxInv(ib, c, ag, ev)
  BY DEF Sound
<1>2. Of(i) \in Ins /\ BoxInv(ib, c2, ag2, ev2) BY <1>1, BoxTaken
<1>3. ag2 \in Seq(Ins) /\ ev2 \in Seq(Ins) /\ c2 \in [Inputs -> Pcs]
  BY <1>1, <1>2 DEF Pcs
<1>4. Spares(c, ev, s, c2, ev2, s2)
  <2> SUFFICES ASSUME NEW x \in Contents
               PROVE  s[x] + Cardinality(DirectOf(ev2, c2, x))
                        <= s2[x] + Cardinality(DirectOf(ev, c, x))
    BY DEF Spares
  <2> DEFINE o == IF v = "direct" /\ Content[i] = x THEN 1 ELSE 0
  <2>1. Cardinality(DirectOf(ev2, c2, x)) <= Cardinality(DirectOf(ev, c, x)) + o
    BY <1>1, <1>2, DirectTaken
  <2>2. s2[x] = s[x] + o /\ o \in Nat OBVIOUS
  <2>3. /\ s[x] \in Nat /\ Cardinality(DirectOf(ev, c, x)) \in Nat
        /\ Cardinality(DirectOf(ev2, c2, x)) \in Nat
    <3> HIDE DEF c2, ev2
    <3> QED BY <1>1, <1>3, RoomIs
  <2> HIDE DEF o, c2, ev2
  <2> QED BY ONLY <2>1, <2>2, <2>3
<1> HIDE DEF c2, ag2, ev2
<1>5. Leaves(ib, ib) BY <1>1, LeavesIt
<1>6. Fit(p, ib, c2, ev2, s2) BY <1>1, <1>3, <1>4, <1>5, FitFewer
<1>7. Sound(p, ib, c2, ag2, ev2) BY <1>1, <1>2, <1>3 DEF Sound
<1> QED BY <1>6, <1>7 DEF Takes, c2, ag2, ev2

\* Handover: the agent takes the input of a call, or refuses it.
LEMMA HandoverStep ==
    ASSUME Inv, NEW i \in Inputs, Handover(i)
    PROVE  Inv'
<1>1. /\ Sound(path, inbox, pc, agq, evq) /\ submitted \in [Contents -> Nat]
      /\ acked \in [Contents -> Nat] /\ warned \in BOOLEAN
      /\ Fit(path, inbox, pc, evq, submitted)
      /\ ~warned => Kept(path, inbox, pc, acked)
  BY DEF Inv
<1>2. /\ path \in Seq(Entries) /\ inbox \in Seq(BoxItems) /\ Len(path) \in Nat
      /\ pc \in [Inputs -> Pcs] /\ agq \in Seq(Ins) /\ evq \in Seq(Ins)
      /\ BoxInv(inbox, pc, agq, evq)
  BY <1>1 DEF Sound
<1>3. /\ pc[i] = "written" /\ path' = path /\ submitted' = submitted
      /\ warned' = warned
  BY DEF Handover
<1>4. CASE /\ agq' = Append(agq, Of(i)) /\ evq' = Append(evq, Of(i))
           /\ pc' = [pc EXCEPT ![i] = "acked"] /\ inbox' = inbox
           /\ acked' = [acked EXCEPT ![Content[i]] = @ + 1]
  <2>1. \A x \in Contents : submitted[x] = submitted[x]
           + (IF "acked" = "direct" /\ Content[i] = x THEN 1 ELSE 0)
    BY <1>1
  <2>2. /\ Sound(path, inbox, pc', agq', evq')
        /\ Fit(path, inbox, pc', evq', submitted)
    <3>1. Takes(path, inbox, pc, agq, evq, submitted, i, "acked")
      BY <1>1, <1>3, <1>4, <2>1, TakenFit
    <3> QED BY <1>4, <3>1 DEF Takes
  <2>3. acked' \in [Contents -> Nat]
    <3>1. Content[i] \in Contents BY DEF Contents
    <3> QED BY <1>1, <1>4, <3>1, OneMore
  <2>4. ~warned => Kept(path, inbox, pc', acked')
    <3> SUFFICES ASSUME ~warned PROVE Kept(path, inbox, pc', acked')
      OBVIOUS
    <3>1. LateOK(inbox, pc) /\ AckOK(path, inbox, pc, acked)
      BY <1>1 DEF Kept
    <3> QED BY <1>1, <1>2, <1>3, <1>4, <3>1, TakenAck DEF Kept
  <2> QED BY <1>1, <1>3, <1>4, <2>2, <2>3, <2>4 DEF Inv
<1>5. CASE /\ inbox' = Declined(inbox, {i})
           /\ pc' = [pc EXCEPT ![i] = "failed"]
           /\ agq' = agq /\ evq' = evq /\ acked' = acked
  <2>1. Declines(path, inbox, pc, agq, evq, i) BY <1>1, <1>3, Declining
  <2>2. /\ Sound(path, inbox', pc', agq, evq) /\ Len(inbox') = Len(inbox)
        /\ \A j \in 1..Len(inbox) :
              /\ inbox'[j].entry = inbox[j].entry /\ inbox'[j].x = inbox[j].x
              /\ inbox'[j].d = inbox[j].d /\ inbox'[j].p = inbox[j].p
              /\ IF inbox'[j].p = i THEN inbox'[j].declined
                 ELSE inbox'[j].declined = inbox[j].declined
    <3> DEFINE ib2 == Declined(inbox, {i})
    <3>1. /\ Sound(path, ib2, pc', agq, evq) /\ Len(ib2) = Len(inbox)
          /\ \A j \in 1..Len(inbox) :
              /\ ib2[j].entry = inbox[j].entry /\ ib2[j].x = inbox[j].x
              /\ ib2[j].d = inbox[j].d /\ ib2[j].p = inbox[j].p
              /\ IF ib2[j].p = i THEN ib2[j].declined
                 ELSE ib2[j].declined = inbox[j].declined
      <4>1. pc' = [pc EXCEPT ![i] = "failed"] BY <1>5
      <4> QED BY ONLY <2>1, <4>1, Zenon DEF Declines
    <3>2. inbox' = ib2 BY <1>5
    <3> HIDE DEF ib2
    <3> QED BY ONLY <3>1, <3>2
  <2>3. inbox' \in Seq(BoxItems) /\ Leaves(inbox, inbox')
    <3>1. inbox' \in Seq(BoxItems) /\ Len(inbox') <= Len(inbox)
      BY <1>2, <2>2 DEF Sound
    <3> QED BY <2>2, <3>1 DEF Leaves
  <2>4. Spares(pc, evq, submitted, pc', evq, submitted)
    BY <1>1, <1>2, <1>5, SparesCalled
  <2>5. Fit(path, inbox', pc', evq, submitted)
    <3> QED BY <1>1, <1>2, <2>3, <2>4, FitFewer
  <2>6. ~warned => Kept(path, inbox', pc', acked)
    <3> SUFFICES ASSUME ~warned PROVE Kept(path, inbox', pc', acked)
      OBVIOUS
    <3>1. LateOK(inbox, pc) /\ AckOK(path, inbox, pc, acked)
      BY <1>1 DEF Kept
    <3>2. DOMAIN inbox = 1..Len(inbox) /\ DOMAIN inbox' = 1..Len(inbox)
      BY <1>2, <2>2, <2>3
    <3>3. \A j \in 1..Len(inbox) : inbox[j].p > 0 => inbox[j].p \in Inputs
      BY <1>2, <3>2 DEF BoxInv, InputOK
    <3>4. \A k \in Inputs : pc'[k] = IF k = i THEN "failed" ELSE pc[k]
      BY <1>2, <1>5
    <3>5. LateOK(inbox', pc')
      <4> SUFFICES ASSUME NEW j \in 1..Len(inbox), inbox'[j].entry = 0
                   PROVE  \/ inbox'[j].declined
                          \/ inbox'[j].p > 0 /\ pc'[inbox'[j].p] = "direct"
        BY <3>2 DEF LateOK
      <4>1. CASE inbox[j].p = i BY <2>2, <4>1
      <4>2. CASE inbox[j].p # i
        <5>1. \/ inbox[j].declined
              \/ inbox[j].p > 0 /\ pc[inbox[j].p] = "direct"
          BY <2>2, <3>1, <3>2 DEF LateOK
        <5>2. inbox'[j].declined = inbox[j].declined /\ inbox'[j].p = inbox[j].p
          BY <2>2, <4>2
        <5> QED BY <3>3, <3>4, <4>2, <5>1, <5>2
      <4> QED BY <4>1, <4>2
    <3>6. Keeps(inbox, pc, inbox', pc')
      <4> SUFFICES ASSUME NEW j \in 1..Len(inbox)
                   PROVE  /\ inbox'[j].x = inbox[j].x
                          /\ inbox[j].entry # 0 => inbox'[j].entry # 0
                          /\ (inbox[j].p > 0 => pc[inbox[j].p] # "written")
                               /\ ~inbox[j].declined
                             => (inbox'[j].p > 0 => pc'[inbox'[j].p] # "written")
                                /\ ~inbox'[j].declined
        BY <1>2, <2>2 DEF Keeps
      <4>1. i > 0 BY InboxAssumption
      <4>2. CASE inbox[j].p = i BY <1>3, <2>2, <4>1, <4>2
      <4>3. CASE inbox[j].p # i
        <5>1. inbox'[j].declined = inbox[j].declined /\ inbox'[j].p = inbox[j].p
          BY <2>2, <4>3
        <5> QED BY <2>2, <3>3, <3>4, <4>3, <5>1
      <4> QED BY <4>2, <4>3
    <3>7. Continues(path, path) BY <1>2 DEF Continues
    <3>8. AckOK(path, inbox', pc', acked)
      BY <1>1, <1>2, <2>3, <3>1, <3>6, <3>7, AckMore
    <3> QED BY <3>5, <3>8 DEF Kept
  <2> QED BY <1>1, <1>3, <1>5, <2>2, <2>5, <2>6 DEF Inv
<1> QED BY <1>4, <1>5 DEF Handover

\* A host queues into the agent itself.
LEMMA QueueAtAgentStep ==
    ASSUME Inv, NEW i \in Inputs, QueueAtAgent(i)
    PROVE  Inv'
<1>1. /\ Sound(path, inbox, pc, agq, evq) /\ submitted \in [Contents -> Nat]
      /\ acked \in [Contents -> Nat] /\ warned \in BOOLEAN
      /\ Fit(path, inbox, pc, evq, submitted)
      /\ ~warned => Kept(path, inbox, pc, acked)
  BY DEF Inv
<1>2. /\ pc[i] = "new" /\ path' = path /\ inbox' = inbox /\ acked' = acked
      /\ warned' = warned /\ pc' = [pc EXCEPT ![i] = "direct"]
      /\ agq' = Append(agq, Of(i)) /\ evq' = Append(evq, Of(i))
      /\ submitted' = [submitted EXCEPT ![Content[i]] = @ + 1]
  BY DEF QueueAtAgent
<1>3. Content[i] \in Contents BY DEF Contents
<1>4. /\ submitted' \in [Contents -> Nat]
      /\ \A x \in Contents : submitted'[x] = submitted[x]
           + (IF Content[i] = x THEN 1 ELSE 0)
  BY <1>1, <1>2, <1>3, OneMore
<1>5. PICK v : v = "direct" OBVIOUS
<1>a. \A x \in Contents : submitted'[x] = submitted[x]
           + (IF v = "direct" /\ Content[i] = x THEN 1 ELSE 0)
  BY <1>4, <1>5
<1>b. pc[i] = "new" /\ pc' = [pc EXCEPT ![i] = v] BY <1>2, <1>5
<1>6. /\ Sound(path, inbox, pc', agq', evq')
      /\ Fit(path, inbox, pc', evq', submitted')
  <2>1. Takes(path, inbox, pc, agq, evq, submitted', i, v)
    BY <1>1, <1>4, <1>5, <1>a, <1>b, TakenFit
  <2> QED BY <1>2, <1>b, <2>1 DEF Takes
<1>7. ~warned => Kept(path, inbox, pc', acked)
  <2> SUFFICES ASSUME ~warned PROVE Kept(path, inbox, pc', acked)
    OBVIOUS
  <2>1. path \in Seq(Entries) /\ inbox \in Seq(BoxItems)
        /\ Len(path) <= Len(path) /\ Len(inbox) <= Len(inbox)
    BY <1>1 DEF Sound
  <2>2. Kept(path, inbox, pc, acked) BY <1>1
  <2>3. \A j \in 1..Len(inbox) :
           /\ inbox[j].p = inbox[j].p /\ inbox[j].x = inbox[j].x
           /\ inbox[j].declined = inbox[j].declined
           /\ inbox[j].entry # 0 => inbox[j].entry # 0
    OBVIOUS
  <2>4. Kept(path, inbox, [pc EXCEPT ![i] = "direct"], acked)
    <3>1. Continues(path, path) BY <2>1 DEF Continues
    <3> QED BY <1>1, <1>2, <2>1, <2>2, <2>3, <3>1, AckCalled
  <2> QED BY <1>2, <2>4
<1> QED BY <1>1, <1>2, <1>4, <1>6, <1>7 DEF Inv

\* The event of an input that awaits it.
LEMMA ReportedStep ==
    ASSUME Inv, evq # <<>>, evq' = Tail(evq), NEW j \in 1..Len(inbox),
           inbox[j].awaiting, inbox[j].p = Head(evq).p,
           inbox' = [inbox EXCEPT ![j].awaiting = FALSE],
           UNCHANGED <<path, agq, pc, acked, submitted, warned>>
    PROVE  Inv'
<1>1. /\ Sound(path, inbox, pc, agq, evq) /\ submitted \in [Contents -> Nat]
      /\ acked \in [Contents -> Nat] /\ warned \in BOOLEAN
      /\ Fit(path, inbox, pc, evq, submitted)
      /\ ~warned => Kept(path, inbox, pc, acked)
  BY DEF Inv
<1>2. /\ path \in Seq(Entries) /\ inbox \in Seq(BoxItems)
      /\ pc \in [Inputs -> Pcs] /\ agq \in Seq(Ins) /\ evq \in Seq(Ins)
      /\ PathOK(path) /\ EntriesOK(path, inbox) /\ BoxInv(inbox, pc, agq, evq)
  BY <1>1 DEF Sound
<1>3. /\ path' = path /\ agq' = agq /\ pc' = pc /\ acked' = acked
      /\ submitted' = submitted /\ warned' = warned
  OBVIOUS
<1>4. /\ inbox' \in Seq(BoxItems) /\ Len(inbox') = Len(inbox)
      /\ \A m \in 1..Len(inbox) :
            /\ inbox'[m].p = inbox[m].p /\ inbox'[m].x = inbox[m].x
            /\ inbox'[m].d = inbox[m].d /\ inbox'[m].entry = inbox[m].entry
            /\ inbox'[m].declined = inbox[m].declined
      /\ BoxInv(inbox', pc, agq, Tail(evq))
  <2> DEFINE ib2 == [inbox EXCEPT ![j].awaiting = FALSE]
  <2>1. /\ ib2 \in Seq(BoxItems) /\ Len(ib2) = Len(inbox)
        /\ \A m \in 1..Len(inbox) :
              /\ ib2[m].p = inbox[m].p /\ ib2[m].x = inbox[m].x
              /\ ib2[m].d = inbox[m].d /\ ib2[m].entry = inbox[m].entry
              /\ ib2[m].declined = inbox[m].declined
        /\ BoxInv(ib2, pc, agq, Tail(evq))
    BY <1>2, BoxReported
  <2>2. inbox' = ib2 OBVIOUS
  <2> HIDE DEF ib2
  <2> QED BY ONLY <2>1, <2>2
<1>5. Len(inbox') <= Len(inbox) /\ Len(inbox) <= Len(inbox')
      /\ Len(path) <= Len(path)
  BY <1>2, <1>4
<1>6. Leaves(inbox, inbox') BY <1>4, <1>5 DEF Leaves
<1>7. EntriesOK(path, inbox')
  BY <1>2, <1>4, <1>6, EntriesAtPlaces DEF Leaves
<1>8. Tail(evq) \in Seq(Ins) BY <1>2, TailIs
<1>9. Sound(path, inbox', pc, agq, Tail(evq))
  BY <1>2, <1>4, <1>7, <1>8 DEF Sound
<1>10. Spares(pc, evq, submitted, pc, Tail(evq), submitted)
  <2> SUFFICES ASSUME NEW x \in Contents
               PROVE  submitted[x] + Cardinality(DirectOf(Tail(evq), pc, x))
                        <= submitted[x] + Cardinality(DirectOf(evq, pc, x))
    BY DEF Spares
  <2> DEFINE o == IF Head(evq).p > 0 /\ pc[Head(evq).p] = "direct"
                     /\ Head(evq).x = x
                  THEN 1 ELSE 0
  <2>1. Cardinality(DirectOf(Tail(evq), pc, x)) + o
          <= Cardinality(DirectOf(evq, pc, x))
    BY <1>2, DirectSeen
  <2>2. /\ submitted[x] \in Nat /\ Cardinality(DirectOf(evq, pc, x)) \in Nat
        /\ Cardinality(DirectOf(Tail(evq), pc, x)) \in Nat
    BY <1>1, <1>2, <1>8, RoomIs
  <2>3. o \in Nat OBVIOUS
  <2> HIDE DEF o
  <2> QED BY ONLY <2>1, <2>2, <2>3
<1>11. Fit(path, inbox', pc, Tail(evq), submitted)
  BY <1>1, <1>2, <1>4, <1>6, <1>8, <1>10, FitFewer
<1>12. ~warned => Kept(path, inbox', pc, acked)
  <2> SUFFICES ASSUME ~warned PROVE Kept(path, inbox', pc, acked)
    OBVIOUS
  <2>1. LateOK(inbox, pc) /\ AckOK(path, inbox, pc, acked)
    BY <1>1 DEF Kept
  <2>2. DOMAIN inbox = 1..Len(inbox) /\ DOMAIN inbox' = 1..Len(inbox)
    BY <1>2, <1>4
  <2>3. LateOK(inbox', pc) BY <1>4, <2>1, <2>2 DEF LateOK
  <2>4. Keeps(inbox, pc, inbox', pc) /\ Continues(path, path)
    BY <1>4, <1>5 DEF Keeps, Continues
  <2>5. AckOK(path, inbox', pc, acked)
    <3>1. /\ path \in Seq(Entries) /\ inbox \in Seq(BoxItems)
          /\ inbox' \in Seq(BoxItems) /\ acked \in [Contents -> Nat]
      BY <1>1, <1>2, <1>4
    <3> QED BY ONLY <3>1, <2>1, <2>4, AckMore
  <2> QED BY <2>3, <2>5 DEF Kept
<1> QED BY <1>1, <1>3, <1>9, <1>11, <1>12 DEF Inv

\* The event of an input that nothing in the inbox awaits: a host queued it
\* into the agent itself, and it is written now.
LEMMA FoundStep ==
    ASSUME Inv, evq # <<>>, evq' = Tail(evq),
           \A j \in 1..Len(inbox) :
              ~(inbox[j].awaiting /\ inbox[j].p = Head(evq).p),
           NEW n \in 0..Len(Missing(Append(inbox, InboxItem(Head(evq), 0, TRUE)))),
           path' = Requeued(path, Append(inbox, InboxItem(Head(evq), 0, TRUE)), n),
           inbox' = InboxRequeued(path,
                      Append(inbox, InboxItem(Head(evq), 0, TRUE)), n),
           UNCHANGED <<agq, pc, acked, submitted, warned>>
    PROVE  Inv'
<1> DEFINE in == InboxItem(Head(evq), 0, TRUE)
           ib == Append(inbox, in)
           ev2 == Tail(evq)
<1>1. /\ Sound(path, inbox, pc, agq, evq) /\ submitted \in [Contents -> Nat]
      /\ acked \in [Contents -> Nat] /\ warned \in BOOLEAN
      /\ Fit(path, inbox, pc, evq, submitted)
      /\ ~warned => Kept(path, inbox, pc, acked)
  BY DEF Inv
<1>2. /\ path \in Seq(Entries) /\ inbox \in Seq(BoxItems)
      /\ pc \in [Inputs -> Pcs] /\ agq \in Seq(Ins) /\ evq \in Seq(Ins)
      /\ PathOK(path) /\ EntriesOK(path, inbox) /\ BoxInv(inbox, pc, agq, evq)
      /\ Len(inbox) \in Nat
  BY <1>1 DEF Sound
<1>3. /\ agq' = agq /\ pc' = pc /\ acked' = acked
      /\ submitted' = submitted /\ warned' = warned
  OBVIOUS
<1>4. /\ in \in BoxItems /\ in.entry = 0 /\ ~in.declined
      /\ in.p = Head(evq).p /\ in.x = Head(evq).x
      /\ in.p \in Inputs /\ in.p > 0 /\ pc[in.p] = "direct"
      /\ BoxInv(ib, pc, agq, ev2)
  BY <1>2, BoxFound
<1>5. ev2 \in Seq(Ins) BY <1>2, TailIs
<1>6. /\ n \in 0..Len(Missing(ib)) /\ path' = Requeued(path, ib, n)
      /\ inbox' = InboxRequeued(path, ib, n) /\ evq' = ev2
  OBVIOUS
<1> HIDE DEF in, ev2
<1>7. /\ ib \in Seq(BoxItems) /\ Len(ib) = Len(inbox) + 1
      /\ ib[Len(inbox) + 1] = in /\ \A j \in 1..Len(inbox) : ib[j] = inbox[j]
  BY <1>2, <1>4
<1>8. EntriesOK(path, ib) BY <1>2, <1>4, EntriesAppend
<1>9. SparesOne(in.x, pc, evq, submitted, pc, ev2, submitted)
  <2> SUFFICES ASSUME NEW x \in Contents
               PROVE  submitted[x] + Cardinality(DirectOf(ev2, pc, x))
                        + (IF in.x = x THEN 1 ELSE 0)
                        <= submitted[x] + Cardinality(DirectOf(evq, pc, x))
    BY DEF SparesOne
  <2> DEFINE o == IF in.x = x THEN 1 ELSE 0
  <2>1. Cardinality(DirectOf(ev2, pc, x))
          + (IF Head(evq).p > 0 /\ pc[Head(evq).p] = "direct" /\ Head(evq).x = x
             THEN 1 ELSE 0)
          <= Cardinality(DirectOf(evq, pc, x))
    BY <1>2, DirectSeen DEF ev2
  <2>2. (IF Head(evq).p > 0 /\ pc[Head(evq).p] = "direct" /\ Head(evq).x = x
             THEN 1 ELSE 0) = o
    BY <1>4
  <2>3. /\ submitted[x] \in Nat /\ Cardinality(DirectOf(evq, pc, x)) \in Nat
        /\ Cardinality(DirectOf(ev2, pc, x)) \in Nat
    BY <1>1, <1>2, <1>5, RoomIs
  <2>4. o \in Nat OBVIOUS
  <2>5. Cardinality(DirectOf(ev2, pc, x)) + o <= Cardinality(DirectOf(evq, pc, x))
    BY <2>1, <2>2
  <2>6. submitted[x] + Cardinality(DirectOf(ev2, pc, x)) + o
          <= submitted[x] + Cardinality(DirectOf(evq, pc, x))
    <3> HIDE DEF o
    <3> QED BY ONLY <2>3, <2>4, <2>5
  <2> QED BY <2>6
<1>10. Fit(path, ib, pc, ev2, submitted)
  BY <1>1, <1>2, <1>4, <1>5, <1>9, FitAppend
<1>11. Sound(path, ib, pc, agq, ev2)
  BY <1>2, <1>4, <1>5, <1>7, <1>8 DEF Sound
<1> HIDE DEF ib
<1>12. /\ Sound(path', inbox', pc, agq, ev2) /\ Writes(path, ib, path', inbox')
       /\ n = Len(Missing(ib)) => \A j \in 1..Len(ib) : inbox'[j].entry # 0
  <2>1. LET p2 == Requeued(path, ib, n)
            ib2 == InboxRequeued(path, ib, n)
        IN /\ Sound(p2, ib2, pc, agq, ev2) /\ Writes(path, ib, p2, ib2)
           /\ n = Len(Missing(ib)) => \A j \in 1..Len(ib) : ib2[j].entry # 0
    BY <1>6, <1>11, Requeuing
  <2> QED BY <1>6, <2>1
<1>13. Fit(path', inbox', pc, ev2, submitted)
  BY ONLY <1>1, <1>2, <1>5, <1>7, <1>10, <1>12, WritesFit
<1>14. /\ path' \in Seq(Entries) /\ Continues(path, path')
       /\ inbox' \in Seq(BoxItems) /\ Len(inbox') = Len(ib)
       /\ \A j \in 1..Len(ib) :
             /\ SameInput(ib[j], inbox'[j])
             /\ ib[j].entry # 0 => inbox'[j].entry = ib[j].entry
  BY <1>12 DEF Writes, Continues
<1>15. ~warned => Kept(path', inbox', pc, acked)
  <2> SUFFICES ASSUME ~warned PROVE Kept(path', inbox', pc, acked)
    OBVIOUS
  <2>1. LateOK(inbox, pc) /\ AckOK(path, inbox, pc, acked)
    BY <1>1 DEF Kept
  <2>2. \A j \in 1..Len(inbox) :
           /\ j \in 1..Len(ib) /\ SameInput(inbox[j], inbox'[j])
           /\ inbox[j].entry # 0 => inbox'[j].entry = inbox[j].entry
    <3> SUFFICES ASSUME NEW j \in 1..Len(inbox)
                 PROVE  /\ j \in 1..Len(ib) /\ SameInput(inbox[j], inbox'[j])
                        /\ inbox[j].entry # 0 =>
                              inbox'[j].entry = inbox[j].entry
      OBVIOUS
    <3>1. ib[j] = inbox[j] BY <1>7
    <3>2. j \in 1..Len(ib) BY ONLY j \in 1..Len(inbox), <1>2, <1>7
    <3>3. /\ SameInput(ib[j], inbox'[j])
          /\ ib[j].entry # 0 => inbox'[j].entry = ib[j].entry
      BY ONLY <1>14, <3>2
    <3> QED BY ONLY <3>1, <3>2, <3>3
  <2>3. Keeps(inbox, pc, inbox', pc)
    <3>1. Len(inbox) <= Len(inbox') BY ONLY <1>2, <1>7, <1>14
    <3> QED BY <2>2, <3>1 DEF Keeps, SameInput
  <2>4. AckOK(path', inbox', pc, acked)
    BY ONLY <1>1, <1>2, <1>14, <2>1, <2>3, AckMore
  <2>5. DOMAIN inbox = 1..Len(inbox) /\ DOMAIN inbox' = 1..(Len(inbox) + 1)
    BY ONLY <1>2, <1>7, <1>14
  <2>6. LateOK(inbox', pc)
    <3> SUFFICES ASSUME NEW j \in 1..(Len(inbox) + 1), inbox'[j].entry = 0
                 PROVE  \/ inbox'[j].declined
                        \/ inbox'[j].p > 0 /\ pc[inbox'[j].p] = "direct"
      BY <2>5 DEF LateOK
    <3>1. CASE j \in 1..Len(inbox)
      <4>1. inbox[j].entry = 0 BY <2>2, <3>1
      <4>2. inbox[j].declined \/ (inbox[j].p > 0 /\ pc[inbox[j].p] = "direct")
        BY <2>1, <2>5, <3>1, <4>1 DEF LateOK
      <4>3. inbox'[j].declined = inbox[j].declined /\ inbox'[j].p = inbox[j].p
        BY <2>2, <3>1 DEF SameInput
      <4> QED BY <4>2, <4>3
    <3>2. CASE j \notin 1..Len(inbox)
      <4>1. j = Len(inbox) + 1 /\ j \in 1..Len(ib) BY <1>2, <1>7, <3>2
      <4>2. inbox'[j].p = in.p BY <1>7, <1>14, <4>1 DEF SameInput
      <4> QED BY <1>4, <4>2
    <3> QED BY <3>1, <3>2
  <2> QED BY <2>4, <2>6 DEF Kept
<1> QED BY ONLY <1>1, <1>3, <1>6, <1>12, <1>13, <1>15 DEF Inv

\* writer.queued: an event of an input awaited, or of one the path lacks.
LEMMA QueuedEventStep ==
    ASSUME Inv, QueuedEvent
    PROVE  Inv'
<1> DEFINE S == {m \in DOMAIN inbox :
                    inbox[m].awaiting /\ inbox[m].p = Head(evq).p}
           ib == Append(inbox, InboxItem(Head(evq), 0, TRUE))
<1>1. /\ evq # <<>> /\ evq' = Tail(evq)
      /\ UNCHANGED <<agq, pc, acked, submitted, warned>>
  BY DEF QueuedEvent
<1>2. /\ inbox \in Seq(BoxItems) /\ evq \in Seq(Ins) /\ agq \in Seq(Ins)
      /\ pc \in [Inputs -> Pcs] /\ BoxInv(inbox, pc, agq, evq)
      /\ DOMAIN inbox = 1..Len(inbox)
  BY DEF Inv, Sound
<1>3. S \in SUBSET (Nat \ {0}) BY <1>2
<1>5. FirstOf(S) # 0 => FirstOf(S) \in S BY <1>3, FirstOfIs
<1>6. \/ /\ FirstOf(S) # 0 /\ path' = path
         /\ inbox' = [inbox EXCEPT ![FirstOf(S)].awaiting = FALSE]
      \/ /\ FirstOf(S) = 0 /\ path' = Requeued(path, ib, Len(Missing(ib)))
         /\ inbox' = InboxRequeued(path, ib, Len(Missing(ib)))
      \/ /\ FirstOf(S) = 0
         /\ \E n \in 0..(Len(Missing(ib)) - 1) :
               /\ path' = Requeued(path, ib, n)
               /\ inbox' = InboxRequeued(path, ib, n)
  BY DEF QueuedEvent, Requeues, RequeueFails
<1>7. CASE /\ FirstOf(S) # 0 /\ path' = path
           /\ inbox' = [inbox EXCEPT ![FirstOf(S)].awaiting = FALSE]
  <2> DEFINE j == FirstOf(S)
  <2>1. j \in 1..Len(inbox) /\ inbox[j].awaiting /\ inbox[j].p = Head(evq).p
    BY <1>2, <1>5, <1>7
  <2>2. inbox' = [inbox EXCEPT ![j].awaiting = FALSE]
        /\ UNCHANGED <<path, agq, pc, acked, submitted, warned>>
    BY <1>1, <1>7
  <2> HIDE DEF j, S
  <2> QED BY <1>1, <2>1, <2>2, ReportedStep
<1>8. ASSUME FirstOf(S) = 0, NEW n \in 0..Len(Missing(ib)),
             path' = Requeued(path, ib, n), inbox' = InboxRequeued(path, ib, n)
      PROVE  Inv'
  <2>1. \A j \in 1..Len(inbox) :
           ~(inbox[j].awaiting /\ inbox[j].p = Head(evq).p)
    <3>1. S = {} BY <1>3, <1>8, FirstOfIs
    <3> QED BY <1>2, <3>1
  <2> QED BY <1>1, <1>8, <2>1, FoundStep
<1>9. Len(Missing(ib)) \in Nat
  <2>1. InboxItem(Head(evq), 0, TRUE) \in BoxItems
    <3>1. Head(evq) \in Ins BY <1>1, <1>2, TailIs
    <3> QED BY <3>1 DEF Ins, InboxItem, BoxItems
  <2>2. ib \in Seq(BoxItems)
    <3>1. ASSUME NEW q \in Seq(BoxItems), NEW e \in BoxItems
          PROVE  Append(q, e) \in Seq(BoxItems)
      OBVIOUS
    <3> QED BY ONLY <1>2, <2>1, <3>1
  <2> HIDE DEF ib
  <2> QED BY <2>2, MissingLists
<1> HIDE DEF ib, S
<1>10. CASE /\ FirstOf(S) = 0 /\ path' = Requeued(path, ib, Len(Missing(ib)))
            /\ inbox' = InboxRequeued(path, ib, Len(Missing(ib)))
  <2>1. Len(Missing(ib)) \in 0..Len(Missing(ib)) BY <1>9
  <2> QED BY <1>8, <1>10, <2>1
<1>11. CASE /\ FirstOf(S) = 0
            /\ \E n \in 0..(Len(Missing(ib)) - 1) :
                  /\ path' = Requeued(path, ib, n)
                  /\ inbox' = InboxRequeued(path, ib, n)
  <2>1. PICK n \in 0..(Len(Missing(ib)) - 1) :
                  /\ path' = Requeued(path, ib, n)
                  /\ inbox' = InboxRequeued(path, ib, n)
    BY <1>11
  <2>2. n \in 0..Len(Missing(ib)) BY <1>9
  <2> QED BY <1>8, <1>11, <2>1, <2>2
<1> QED BY <1>6, <1>7, <1>10, <1>11

\* A run starts.
LEMMA RunStartStep ==
    ASSUME Inv, RunStart
    PROVE  Inv'
<1>1. /\ Sound(path, inbox, pc, agq, evq) /\ submitted \in [Contents -> Nat]
      /\ acked \in [Contents -> Nat] /\ warned \in BOOLEAN
      /\ Fit(path, inbox, pc, evq, submitted)
      /\ ~warned => Kept(path, inbox, pc, acked)
  BY DEF Inv
<1>2. /\ path \in Seq(Entries) /\ inbox \in Seq(BoxItems)
      /\ pc \in [Inputs -> Pcs] /\ agq \in Seq(Ins) /\ evq \in Seq(Ins)
      /\ PathOK(path) /\ EntriesOK(path, inbox) /\ BoxInv(inbox, pc, agq, evq)
  BY <1>1 DEF Sound
<1>3. /\ agq' = agq /\ evq' = evq /\ pc' = pc /\ acked' = acked
      /\ inbox' = inbox /\ submitted' = submitted /\ warned' = warned
      /\ path' = Append(path, Mark("start"))
  BY DEF RunStart
<1>4. path' \in Seq(Entries) /\ PathOK(path') /\ EntriesOK(path', inbox)
  BY <1>2, <1>3, StartKeeps
<1>5. Sound(path', inbox, pc, agq, evq) BY <1>2, <1>4 DEF Sound
<1>6. Fit(path', inbox, pc, evq, submitted)
  <2> SUFFICES ASSUME NEW x \in Contents
               PROVE  FitsAll(path', inbox, x,
                         submitted[x] - Cardinality(DirectOf(evq, pc, x)))
    BY DEF Fit
  <2> DEFINE r == submitted[x] - Cardinality(DirectOf(evq, pc, x))
  <2>1. r \in Int BY <1>1, <1>2, RoomIs
  <2>2. FitsAll(path, inbox, x, r) BY <1>1 DEF Fit
  <2> HIDE DEF r
  <2>3. FitsAll(path', inbox, x, r) BY <1>2, <1>3, <2>1, <2>2, StartFits
  <2> QED BY <2>3 DEF r
<1>7. ~warned => Kept(path', inbox, pc, acked)
  <2> SUFFICES ASSUME ~warned PROVE Kept(path', inbox, pc, acked)
    OBVIOUS
  <2>1. LateOK(inbox, pc) /\ AckOK(path, inbox, pc, acked)
    BY <1>1 DEF Kept
  <2>2. Continues(path, path')
    <3>1. /\ Len(path') = Len(path) + 1 /\ Len(path) \in Nat
          /\ \A e \in 1..Len(path) : path'[e] = path[e]
      BY <1>2, <1>3, MarkIs, AppendPath
    <3> QED BY <3>1 DEF Continues
  <2>3. Keeps(inbox, pc, inbox, pc) BY <1>2 DEF Keeps
  <2>4. AckOK(path', inbox, pc, acked)
    BY <1>1, <1>2, <1>4, <2>1, <2>2, <2>3, AckMore
  <2> QED BY <2>1, <2>4 DEF Kept
<1> QED BY <1>1, <1>3, <1>5, <1>6, <1>7 DEF Inv

\* drained and itemFrom: a turn takes an input.
LEMMA DrainStep ==
    ASSUME Inv, Drain
    PROVE  Inv'
<1> DEFINE j == FirstOf({m \in DOMAIN inbox :
                            inbox[m].held /\ inbox[m].p = Head(agq).p})
<1>1. /\ Sound(path, inbox, pc, agq, evq) /\ submitted \in [Contents -> Nat]
      /\ acked \in [Contents -> Nat] /\ warned \in BOOLEAN
      /\ Fit(path, inbox, pc, evq, submitted)
      /\ ~warned => Kept(path, inbox, pc, acked)
  BY DEF Inv
<1>2. /\ path \in Seq(Entries) /\ inbox \in Seq(BoxItems)
      /\ pc \in [Inputs -> Pcs] /\ agq \in Seq(Ins) /\ evq \in Seq(Ins)
      /\ PathOK(path) /\ EntriesOK(path, inbox) /\ BoxInv(inbox, pc, agq, evq)
  BY <1>1 DEF Sound
<1>3. /\ evq' = evq /\ pc' = pc /\ acked' = acked
      /\ submitted' = submitted /\ warned' = warned
      /\ agq # <<>> /\ agq' = Tail(agq) /\ \A m \in DOMAIN evq : evq[m] # Head(agq)
      /\ inbox' = IF j = 0 THEN inbox ELSE Without(inbox, j)
      /\ path' = Append(path, Item(Head(agq).x, IF j = 0 THEN 0
                                                ELSE inbox[j].entry))
  BY DEF Drain
<1>4. /\ j # 0 /\ j \in 1..Len(inbox) /\ inbox[j].x = Head(agq).x
      /\ BoxInv(Without(inbox, j), pc, Tail(agq), evq)
  BY <1>2, <1>3, BoxDrained
<1>5. /\ inbox' = Without(inbox, j)
      /\ path' = Append(path, Item(inbox[j].x, inbox[j].entry))
  BY <1>3, <1>4
<1> HIDE DEF j
<1>6. /\ path' \in Seq(Entries) /\ PathOK(path') /\ EntriesOK(path', inbox')
  BY <1>2, <1>4, <1>5, DrainKeeps
<1>7. inbox' \in Seq(BoxItems) BY <1>2, <1>4, <1>5, WithoutIs
<1>8. Tail(agq) \in Seq(Ins) BY <1>2, <1>3, TailIs
<1>9. Sound(path', inbox', pc, agq', evq)
  BY <1>2, <1>3, <1>4, <1>5, <1>6, <1>7, <1>8 DEF Sound
<1>10. Fit(path', inbox', pc, evq, submitted)
  <2> SUFFICES ASSUME NEW x \in Contents
               PROVE  FitsAll(path', inbox', x,
                         submitted[x] - Cardinality(DirectOf(evq, pc, x)))
    BY DEF Fit
  <2> DEFINE r == submitted[x] - Cardinality(DirectOf(evq, pc, x))
  <2>1. r \in Int BY <1>1, <1>2, RoomIs
  <2>2. FitsAll(path, inbox, x, r) BY <1>1 DEF Fit
  <2> HIDE DEF r
  <2>3. FitsAll(path', inbox', x, r)
    BY <1>2, <1>4, <1>5, <2>1, <2>2, DrainFits
  <2> QED BY <2>3 DEF r
<1>11. ~warned => Kept(path', inbox', pc, acked)
  <2> SUFFICES ASSUME ~warned PROVE Kept(path', inbox', pc, acked)
    OBVIOUS
  <2>1. LateOK(inbox, pc) /\ AckOK(path, inbox, pc, acked)
    BY <1>1 DEF Kept
  <2>2. /\ AckOK(Append(path, Item(inbox[j].x, inbox[j].entry)),
                 Without(inbox, j), pc, acked)
        /\ LateOK(Without(inbox, j), pc)
    BY <1>1, <1>2, <1>4, <2>1, DrainAck
  <2> QED BY <1>5, <2>2 DEF Kept
<1> QED BY <1>1, <1>3, <1>9, <1>10, <1>11 DEF Inv

\* The end of a run, before what the agent holds is written again.
LEMMA Ending ==
    ASSUME NEW p, NEW ib, NEW c, NEW ag, NEW ev, Sound(p, ib, c, ag, ev),
           NEW s \in [Contents -> Nat], Fit(p, ib, c, ev, s)
    PROVE  /\ Sound(Append(p, Mark("end")), EndInbox(ib), c, ag, ev)
           /\ Fit(Append(p, Mark("end")), EndInbox(ib), c, ev, s)
<1> DEFINE q == Append(p, Mark("end"))
           eb == EndInbox(ib)
           S == {j \in DOMAIN ib : ib[j].held}
           o == InOrder(S)
<1>1. /\ p \in Seq(Entries) /\ ib \in Seq(BoxItems)
      /\ c \in [Inputs -> Pcs] /\ ag \in Seq(Ins) /\ ev \in Seq(Ins)
      /\ PathOK(p) /\ EntriesOK(p, ib) /\ BoxInv(ib, c, ag, ev)
  BY DEF Sound
<1>2. q \in Seq(Entries) /\ PathOK(q) BY <1>1, MarkIs, AppendPath
<1>3. /\ eb \in Seq(BoxItems) /\ DOMAIN eb = 1..Len(eb)
      /\ o \in [1..Len(eb) -> 1..Len(ib)]
      /\ \A a, b \in 1..Len(eb) : o[a] = o[b] => a = b
      /\ \A n \in 1..Len(eb) : SameInput(ib[o[n]], eb[n]) /\ eb[n].entry = 0
      /\ \A j \in 1..Len(ib) : ib[j].held => \E n \in 1..Len(eb) : o[n] = j
  BY <1>1, EndInboxIs
<1> HIDE DEF q, eb, o
<1>4. EntriesOK(q, eb) BY <1>3 DEF EntriesOK
<1>5. BoxInv(eb, c, ag, ev) BY <1>1, <1>3, BoxOfHeld
<1>6. Sound(q, eb, c, ag, ev) BY <1>1, <1>2, <1>3, <1>4, <1>5 DEF Sound
<1>7. Fit(q, eb, c, ev, s)
  <2> SUFFICES ASSUME NEW x \in Contents
               PROVE  FitsAll(q, eb, x, s[x] - Cardinality(DirectOf(ev, c, x)))
    BY DEF Fit
  <2> DEFINE r == s[x] - Cardinality(DirectOf(ev, c, x))
  <2>1. r \in Int BY <1>1, RoomIs
  <2>2. FitsAll(p, ib, x, r) BY DEF Fit
  <2> HIDE DEF r
  <2>3. FitsAll(q, eb, x, r) BY <1>1, <2>1, <2>2, EndFits DEF q, eb
  <2> QED BY <2>3 DEF r
<1> QED BY <1>6, <1>7 DEF q, eb

\* Then it is, all of it or the first of them.
EndsAt(p, ib, c, ag, ev, s, n) ==
    LET ended == Append(p, Mark("end"))
        eb == EndInbox(ib)
        p2 == Requeued(ended, eb, n)
        ib2 == InboxRequeued(ended, eb, n)
    IN /\ Sound(p2, ib2, c, ag, ev) /\ Fit(p2, ib2, c, ev, s)
       /\ Writes(ended, eb, p2, ib2)
       /\ n = Len(Missing(eb)) => \A j \in 1..Len(ib2) : ib2[j].entry # 0

\* A run's end, with n of the inputs held written again, leaves the log, the
\* inbox and the counts in agreement.
LEMMA Ended ==
    ASSUME NEW p, NEW ib, NEW c, NEW ag, NEW ev, Sound(p, ib, c, ag, ev),
           NEW s \in [Contents -> Nat], Fit(p, ib, c, ev, s),
           NEW n \in 0..Len(Missing(EndInbox(ib)))
    PROVE  EndsAt(p, ib, c, ag, ev, s, n)
<1> DEFINE q == Append(p, Mark("end"))
           eb == EndInbox(ib)
           p2 == Requeued(q, eb, n)
           ib2 == InboxRequeued(q, eb, n)
<1>1. Sound(q, eb, c, ag, ev) /\ Fit(q, eb, c, ev, s) BY Ending
<1>2. n \in 0..Len(Missing(eb)) OBVIOUS
<1> HIDE DEF q, eb
<1>3. /\ Sound(p2, ib2, c, ag, ev) /\ Writes(q, eb, p2, ib2)
      /\ n = Len(Missing(eb)) => \A j \in 1..Len(eb) : ib2[j].entry # 0
  BY <1>1, <1>2, Requeuing
<1> HIDE DEF p2, ib2
<1>4. q \in Seq(Entries) /\ eb \in Seq(BoxItems) /\ ev \in Seq(Ins)
  BY <1>1 DEF Sound
<1>5. Fit(p2, ib2, c, ev, s) BY <1>1, <1>3, <1>4, WritesFit
<1>6. Len(ib2) = Len(eb) BY <1>3 DEF Writes
<1> QED BY <1>3, <1>5, <1>6 DEF EndsAt, q, eb, p2, ib2

\* runEnd: the run's end, whole or cut short by a failed write.
LEMMA RunEndStep ==
    ASSUME Inv, RunEnd
    PROVE  Inv'
<1> DEFINE ended == Append(path, Mark("end"))
           eb == EndInbox(inbox)
           n == Len(Missing(eb))
<1>1. /\ Sound(path, inbox, pc, agq, evq) /\ submitted \in [Contents -> Nat]
      /\ acked \in [Contents -> Nat] /\ warned \in BOOLEAN
      /\ Fit(path, inbox, pc, evq, submitted)
      /\ ~warned => Kept(path, inbox, pc, acked)
  BY DEF Inv
<1>2. /\ path \in Seq(Entries) /\ inbox \in Seq(BoxItems) /\ PathOK(path)
  BY <1>1 DEF Sound
<1>3. /\ agq' = agq /\ evq' = evq /\ pc' = pc /\ submitted' = submitted
      /\ acked' = Monus(acked, Dropped(inbox))
      /\ \/ /\ path' = Requeued(ended, eb, n)
            /\ inbox' = InboxRequeued(ended, eb, n) /\ warned' = warned
         \/ /\ \E m \in 0..(n - 1) :
                  /\ path' = Requeued(ended, eb, m)
                  /\ inbox' = InboxRequeued(ended, eb, m)
            /\ warned' = TRUE
  BY DEF RunEnd
<1>4. n \in Nat
  <2>1. eb \in Seq(BoxItems) BY <1>2, EndInboxIs
  <2> HIDE DEF eb
  <2> QED BY <2>1, MissingLists
<1>5. acked' \in [Contents -> Nat]
  <2>1. \A x \in Contents : Dropped(inbox)[x] \in Nat
    <3> SUFFICES ASSUME NEW x \in Contents PROVE Dropped(inbox)[x] \in Nat
      OBVIOUS
    <3> DEFINE D == {j \in DOMAIN inbox : inbox[j].x = x /\
                        ~inbox[j].held /\ ~inbox[j].declined}
    <3>1. IsFiniteSet(DOMAIN inbox) BY <1>2, BoxCounts
    <3>2. D \in SUBSET DOMAIN inbox OBVIOUS
    <3>3. Cardinality(D) \in Nat BY <3>1, <3>2, PartOf
    <3> QED BY <3>3 DEF Dropped
  <2>2. \A x \in Contents : acked[x] \in Nat BY <1>1
  <2> DEFINE f == [x \in Contents |-> IF acked[x] < Dropped(inbox)[x] THEN 0
                                      ELSE acked[x] - Dropped(inbox)[x]]
  <2>3. f \in [Contents -> Nat] BY <2>1, <2>2
  <2>4. acked' = f BY <1>3 DEF Monus
  <2> HIDE DEF f
  <2> QED BY <2>3, <2>4
<1>6. ASSUME NEW m \in 0..n, path' = Requeued(ended, eb, m),
             inbox' = InboxRequeued(ended, eb, m), warned' \in BOOLEAN,
             ~warned' => m = n /\ ~warned
      PROVE  Inv'
  <2>1. EndsAt(path, inbox, pc, agq, evq, submitted, m)
    BY <1>1, <1>6, Ended
  <2>2. /\ Sound(path', inbox', pc, agq, evq)
        /\ Fit(path', inbox', pc, evq, submitted)
        /\ Writes(ended, eb, path', inbox')
        /\ m = n => \A j \in 1..Len(inbox') : inbox'[j].entry # 0
    <3> DEFINE p2 == Requeued(ended, eb, m)
               ib2 == InboxRequeued(ended, eb, m)
    <3>1. /\ Sound(p2, ib2, pc, agq, evq) /\ Fit(p2, ib2, pc, evq, submitted)
          /\ Writes(ended, eb, p2, ib2)
          /\ m = n => \A j \in 1..Len(ib2) : ib2[j].entry # 0
      BY ONLY <2>1 DEF EndsAt
    <3>2. path' = p2 /\ inbox' = ib2 BY <1>6
    <3> HIDE DEF p2, ib2, ended, eb, n
    <3> QED BY ONLY <3>1, <3>2
  <2>3. ~warned' => Kept(path', inbox', pc, acked')
    <3> SUFFICES ASSUME ~warned' PROVE Kept(path', inbox', pc, acked')
      OBVIOUS
    <3>1. ~warned /\ \A j \in 1..Len(inbox') : inbox'[j].entry # 0
      BY <1>6, <2>2
    <3>2. AckOK(path, inbox, pc, acked) BY <1>1, <3>1 DEF Kept
    <3>3. Writes(ended, eb, path', inbox') BY <2>2
    <3>4. /\ AckOK(path', inbox', pc, Monus(acked, Dropped(inbox)))
          /\ LateOK(inbox', pc)
      BY ONLY <1>1, <1>2, <3>1, <3>2, <3>3, EndAck
    <3>5. acked' = Monus(acked, Dropped(inbox)) BY <1>3
    <3> QED BY ONLY <3>4, <3>5 DEF Kept
  <2>4. /\ agq' = agq /\ evq' = evq /\ pc' = pc /\ submitted' = submitted
    BY <1>3
  <2> QED BY ONLY <1>1, <1>5, <1>6, <2>2, <2>3, <2>4 DEF Inv
<1> HIDE DEF n, eb, ended
<1>7. CASE /\ path' = Requeued(ended, eb, n)
           /\ inbox' = InboxRequeued(ended, eb, n) /\ warned' = warned
  <2>1. n \in 0..n BY <1>4
  <2> QED BY <1>1, <1>6, <1>7, <2>1
<1>8. CASE /\ \E m \in 0..(n - 1) :
                 /\ path' = Requeued(ended, eb, m)
                 /\ inbox' = InboxRequeued(ended, eb, m)
           /\ warned' = TRUE
  <2>1. PICK m \in 0..(n - 1) :
                 /\ path' = Requeued(ended, eb, m)
                 /\ inbox' = InboxRequeued(ended, eb, m)
    BY <1>8
  <2>2. m \in 0..n BY <1>4
  <2> QED BY <1>6, <1>8, <2>1, <2>2
<1> QED BY <1>3, <1>7, <1>8

\* The process dies, and the session is opened again from the log at p.
LEMMA RestartStep ==
    ASSUME Inv, NEW p, NEW ib, Sound(p, ib, pc, agq, evq),
           Fit(p, ib, pc, evq, submitted), NEW l \in [Contents -> Nat],
           ~warned => \A x \in Contents : acked[x] <= Accounted(p)[x] + l[x],
           RestartedFrom(p, l)
    PROVE  Inv'
<1> DEFINE q == CloseOpenRun(p, TRUE)
<1>1. /\ submitted \in [Contents -> Nat]
      /\ acked \in [Contents -> Nat] /\ warned \in BOOLEAN
  BY DEF Inv
<1>2. /\ p \in Seq(Entries) /\ ib \in Seq(BoxItems) /\ PathOK(p)
      /\ pc \in [Inputs -> Pcs] /\ evq \in Seq(Ins)
  BY DEF Sound
<1>3. /\ path' = q /\ inbox' = SeedInbox(q) /\ agq' = <<>> /\ evq' = <<>>
      /\ pc' = [i \in Inputs |-> IF pc[i] = "written" THEN "failed" ELSE pc[i]]
      /\ acked' = Monus(acked, l) /\ submitted' = submitted /\ warned' = warned
  BY DEF RestartedFrom
<1>4. pc' \in [Inputs -> Pcs] /\ \A i \in Inputs : pc'[i] # "written"
  BY <1>2, <1>3 DEF Pcs
<1>5. q \in Seq(Entries) /\ PathOK(q) BY <1>2, RunClosed
<1>6. /\ SeedInbox(q) \in Seq(BoxItems) /\ EntriesOK(q, SeedInbox(q))
      /\ BoxInv(SeedInbox(q), pc', <<>>, <<>>)
  <2> HIDE DEF q
  <2> QED BY <1>4, <1>5, SeedIs
<1>7. Sound(path', inbox', pc', agq', evq')
  <2>1. <<>> \in Seq(Ins) OBVIOUS
  <2> HIDE DEF q
  <2> QED BY <1>3, <1>4, <1>5, <1>6, <2>1 DEF Sound
<1>8. Fit(path', inbox', pc', evq', submitted)
  <2>1. ASSUME NEW x \in Contents
        PROVE  FitsAll(q, SeedInbox(q), x,
                       submitted[x] - Cardinality(DirectOf(evq, pc, x)))
    <3> DEFINE r == submitted[x] - Cardinality(DirectOf(evq, pc, x))
    <3>1. r \in Int BY <1>1, <1>2, RoomIs
    <3>2. FitsAll(p, ib, x, r) BY DEF Fit
    <3> HIDE DEF r
    <3>3. FitsAll(q, SeedInbox(q), x, r) BY <1>2, <3>1, <3>2, SeedFits
    <3> QED BY <3>3 DEF r
  <2>2. Fit(q, SeedInbox(q), pc, evq, submitted)
    <3> HIDE DEF q
    <3> QED BY <2>1 DEF Fit
  <2>3. <<>> \in Seq(Ins) /\ evq' = <<>> BY <1>3
  <2>4. Spares(pc, evq, submitted, pc', evq', submitted)
    <3> SUFFICES ASSUME NEW x \in Contents
                 PROVE  submitted[x] + Cardinality(DirectOf(evq', pc', x))
                          <= submitted[x] + Cardinality(DirectOf(evq, pc, x))
      BY DEF Spares
    <3>1. DirectOf(evq', pc', x) = {} BY <2>3 DEF DirectOf
    <3>2. Cardinality(DirectOf(evq', pc', x)) = 0 BY <3>1, FS_EmptySet
    <3>3. /\ submitted[x] \in Nat /\ Cardinality(DirectOf(evq, pc, x)) \in Nat
      BY <1>1, <1>2, RoomIs
    <3> QED BY ONLY <3>2, <3>3
  <2>5. Leaves(SeedInbox(q), SeedInbox(q))
    <3> HIDE DEF q
    <3> QED BY <1>6, LeavesIt
  <2>6. Fit(q, SeedInbox(q), pc', evq', submitted)
    <3> HIDE DEF q
    <3>1. evq' \in Seq(Ins) BY <2>3
    <3> QED BY ONLY <1>1, <1>2, <1>5, <1>6, <2>2, <2>4, <2>5, <3>1, FitFewer
  <2> QED BY <1>3, <2>6
<1>9. acked' \in [Contents -> Nat]
  <2>1. \A x \in Contents : acked[x] \in Nat /\ l[x] \in Nat BY <1>1
  <2> DEFINE f == [x \in Contents |-> IF acked[x] < l[x] THEN 0
                                      ELSE acked[x] - l[x]]
  <2>2. f \in [Contents -> Nat] BY <2>1
  <2>3. acked' = f BY <1>3 DEF Monus
  <2> HIDE DEF f
  <2> QED BY <2>2, <2>3
<1>10. ~warned => Kept(path', inbox', pc', acked')
  <2> SUFFICES ASSUME ~warned PROVE Kept(path', inbox', pc', acked')
    OBVIOUS
  <2>1. \A x \in Contents : acked[x] <= Accounted(p)[x] + l[x] OBVIOUS
  <2>2. /\ AckOK(q, SeedInbox(q), pc', Monus(acked, l))
        /\ LateOK(SeedInbox(q), pc')
    BY <1>1, <1>2, <2>1, SeedAck
  <2> HIDE DEF q
  <2> QED BY <1>3, <2>2 DEF Kept
<1> HIDE DEF q
<1>11. submitted' = submitted /\ warned' = warned BY <1>3
<1> QED BY ONLY <1>1, <1>7, <1>8, <1>9, <1>10, <1>11 DEF Inv

\* The process dies between two steps.
LEMMA CrashStep ==
    ASSUME Inv, Crash
    PROVE  Inv'
<1> DEFINE l == [x \in Contents |-> 0]
<1>1. /\ Sound(path, inbox, pc, agq, evq) /\ acked \in [Contents -> Nat]
      /\ Fit(path, inbox, pc, evq, submitted)
      /\ ~warned => Kept(path, inbox, pc, acked)
  BY DEF Inv
<1>2. l \in [Contents -> Nat] /\ \A x \in Contents : l[x] = 0 OBVIOUS
<1>3. RestartedFrom(path, l) BY DEF Crash
<1> HIDE DEF l
<1>4. ~warned => \A x \in Contents : acked[x] <= Accounted(path)[x] + l[x]
  <2> SUFFICES ASSUME ~warned, NEW x \in Contents
               PROVE  acked[x] <= Accounted(path)[x] + l[x]
    OBVIOUS
  <2>1. path \in Seq(Entries) /\ inbox \in Seq(BoxItems) /\ EntriesOK(path, inbox)
    BY <1>1 DEF Sound
  <2>2. AckOK(path, inbox, pc, acked) /\ acked[x] \in Nat
    BY <1>1 DEF Kept
  <2>3. acked[x] <= Accounted(path)[x] BY <2>1, <2>2, AckAccounted
  <2>4. Accounted(path)[x] \in Nat BY <2>1, AccountedIs
  <2> QED BY <1>2, <2>2, <2>3, <2>4
<1> QED BY <1>1, <1>2, <1>3, <1>4, RestartStep

\* It dies inside runEnd.
LEMMA CrashInEndStep ==
    ASSUME Inv, CrashInEnd
    PROVE  Inv'
<1> DEFINE ended == Append(path, Mark("end"))
           eb == EndInbox(inbox)
           n == Len(Missing(eb))
<1>1. /\ Sound(path, inbox, pc, agq, evq) /\ acked \in [Contents -> Nat]
      /\ Fit(path, inbox, pc, evq, submitted) /\ submitted \in [Contents -> Nat]
      /\ ~warned => Kept(path, inbox, pc, acked)
  BY DEF Inv
<1>2. path \in Seq(Entries) /\ inbox \in Seq(BoxItems) /\ EntriesOK(path, inbox)
  BY <1>1 DEF Sound
<1>3. PICK m \in 0..(n - 1) :
         RestartedFrom(Requeued(ended, eb, m),
            Monus(Accounted(path), Accounted(Requeued(ended, eb, m))))
  BY DEF CrashInEnd
<1>4. m \in 0..n
  <2>1. eb \in Seq(BoxItems) BY <1>2, EndInboxIs
  <2>2. n \in Nat
    <3> HIDE DEF eb
    <3> QED BY <2>1, MissingLists
  <2> HIDE DEF n
  <2> QED BY <2>2
<1> DEFINE r == Requeued(ended, eb, m)
           rb == InboxRequeued(ended, eb, m)
           l == Monus(Accounted(path), Accounted(r))
<1>5. EndsAt(path, inbox, pc, agq, evq, submitted, m)
  BY <1>1, <1>4, Ended
<1>6. Sound(r, rb, pc, agq, evq) /\ Fit(r, rb, pc, evq, submitted)
  BY ONLY <1>5 DEF EndsAt
<1>7. r \in Seq(Entries)
  <2> HIDE DEF r, rb
  <2> QED BY <1>6 DEF Sound
<1>8. RestartedFrom(r, l) BY <1>3
<1> HIDE DEF r, rb
<1>9. \A x \in Contents :
         /\ Accounted(path)[x] \in Nat /\ Accounted(r)[x] \in Nat
         /\ l[x] = IF Accounted(path)[x] < Accounted(r)[x] THEN 0
                   ELSE Accounted(path)[x] - Accounted(r)[x]
  BY <1>2, <1>7, AccountedIs DEF Monus
<1>10. l \in [Contents -> Nat]
  <2>1. \A x \in Contents : l[x] \in Nat
    <3> HIDE DEF l
    <3> QED BY <1>9
  <2>2. l = [x \in Contents |-> l[x]] BY DEF Monus
  <2> HIDE DEF l
  <2> QED BY <2>1, <2>2
<1> HIDE DEF l
<1>11. ~warned => \A x \in Contents : acked[x] <= Accounted(r)[x] + l[x]
  <2> SUFFICES ASSUME ~warned, NEW x \in Contents
               PROVE  acked[x] <= Accounted(r)[x] + l[x]
    OBVIOUS
  <2>1. AckOK(path, inbox, pc, acked) /\ acked[x] \in Nat
    BY <1>1 DEF Kept
  <2>2. acked[x] <= Accounted(path)[x] BY <1>2, <2>1, AckAccounted
  <2> QED BY <1>9, <2>1, <2>2
<1> QED BY <1>1, <1>6, <1>8, <1>10, <1>11, RestartStep

\* Recorder.Requeue hands what the path owes to the agent.
LEMMA RequeueStep ==
    ASSUME Inv, Requeue
    PROVE  Inv'
<1> DEFINE owed == At(inbox, {j \in DOMAIN inbox : Owed(inbox[j])})
           w == [j \in DOMAIN owed |-> Input(owed[j])]
           ib2 == [j \in DOMAIN inbox |->
                     IF Owed(inbox[j])
                     THEN [inbox[j] EXCEPT !.held = TRUE, !.awaiting = TRUE,
                                           !.holder = TRUE]
                     ELSE inbox[j]]
<1>1. /\ Sound(path, inbox, pc, agq, evq) /\ submitted \in [Contents -> Nat]
      /\ acked \in [Contents -> Nat] /\ warned \in BOOLEAN
      /\ Fit(path, inbox, pc, evq, submitted)
      /\ ~warned => Kept(path, inbox, pc, acked)
  BY DEF Inv
<1>2. /\ path \in Seq(Entries) /\ inbox \in Seq(BoxItems)
      /\ pc \in [Inputs -> Pcs] /\ agq \in Seq(Ins) /\ evq \in Seq(Ins)
      /\ PathOK(path) /\ EntriesOK(path, inbox) /\ BoxInv(inbox, pc, agq, evq)
  BY <1>1 DEF Sound
<1>3. /\ inbox' = ib2 /\ agq' = agq \o w /\ evq' = evq \o w
      /\ path' = path /\ pc' = pc /\ acked' = acked /\ submitted' = submitted
      /\ warned' = warned
  BY DEF Requeue
<1>4. /\ ib2 \in Seq(BoxItems) /\ Len(ib2) = Len(inbox)
      /\ \A j \in 1..Len(inbox) :
            /\ ib2[j].entry = inbox[j].entry /\ ib2[j].x = inbox[j].x
            /\ ib2[j].d = inbox[j].d /\ ib2[j].p = inbox[j].p
            /\ ib2[j].declined = inbox[j].declined
      /\ w \in Seq(Ins) /\ (\A m \in 1..Len(w) : w[m].p < 0)
      /\ BoxInv(ib2, pc, agq \o w, evq \o w)
  BY <1>2, BoxHandedBack
<1> HIDE DEF ib2, w
<1>5. Leaves(inbox, ib2) /\ Keeps(inbox, pc, ib2, pc)
  <2>1. Len(ib2) <= Len(inbox) /\ Len(inbox) <= Len(ib2) BY <1>2, <1>4
  <2> QED BY <1>4, <2>1 DEF Leaves, Keeps
<1>6. EntriesOK(path, ib2)
  BY <1>2, <1>4, <1>5, EntriesAtPlaces DEF Leaves
<1>7. agq \o w \in Seq(Ins) /\ evq \o w \in Seq(Ins)
  BY <1>2, <1>4, ConcatIs
<1>8. Sound(path, ib2, pc, agq \o w, evq \o w)
  BY <1>2, <1>4, <1>6, <1>7 DEF Sound
<1>9. Spares(pc, evq, submitted, pc, evq \o w, submitted)
  <2> SUFFICES ASSUME NEW x \in Contents
               PROVE  submitted[x] + Cardinality(DirectOf(evq \o w, pc, x))
                        <= submitted[x] + Cardinality(DirectOf(evq, pc, x))
    BY DEF Spares
  <2>1. Cardinality(DirectOf(evq \o w, pc, x)) <= Cardinality(DirectOf(evq, pc, x))
    BY <1>2, <1>4, DirectHandedBack
  <2>2. /\ submitted[x] \in Nat /\ Cardinality(DirectOf(evq, pc, x)) \in Nat
        /\ Cardinality(DirectOf(evq \o w, pc, x)) \in Nat
    BY <1>1, <1>2, <1>7, RoomIs
  <2> QED BY ONLY <2>1, <2>2
<1>10. Fit(path, ib2, pc, evq \o w, submitted)
  BY ONLY <1>1, <1>2, <1>4, <1>5, <1>7, <1>9, FitFewer
<1>11. ~warned => Kept(path, ib2, pc, acked)
  <2> SUFFICES ASSUME ~warned PROVE Kept(path, ib2, pc, acked)
    OBVIOUS
  <2>1. LateOK(inbox, pc) /\ AckOK(path, inbox, pc, acked)
    BY <1>1 DEF Kept
  <2>2. DOMAIN inbox = 1..Len(inbox) /\ DOMAIN ib2 = 1..Len(inbox)
    BY <1>2, <1>4
  <2>3. LateOK(ib2, pc) BY <1>4, <2>1, <2>2 DEF LateOK
  <2>4. Continues(path, path) BY <1>2 DEF Continues
  <2>5. AckOK(path, ib2, pc, acked)
    BY ONLY <1>1, <1>2, <1>4, <1>5, <2>1, <2>4, AckMore
  <2> QED BY <2>3, <2>5 DEF Kept
<1> QED BY ONLY <1>1, <1>3, <1>8, <1>10, <1>11 DEF Inv

\* Recorder.Rebase to an entry of the path or of one left, whole or cut
\* short by a failed write.
LEMMA RebaseStep ==
    ASSUME Inv, LeftOK(left, pc, evq, submitted),
           NEW p0 \in left \cup {path}, NEW n \in 0..Len(p0), Rebase(p0, n)
    PROVE  Inv' /\ LeftOK(left', pc', evq', submitted')
<1> DEFINE p == CloseOpenRun(SubSeq(p0, 1, n), FALSE)
           gb == Held(inbox)
           hb == MovedTo(p0, path, gb)
           ib == Rebased(hb, p)
           m == Len(Missing(ib))
<1>1. /\ Sound(path, inbox, pc, agq, evq) /\ submitted \in [Contents -> Nat]
      /\ acked \in [Contents -> Nat] /\ warned \in BOOLEAN
      /\ Fit(path, inbox, pc, evq, submitted)
      /\ ~warned => Kept(path, inbox, pc, acked)
  BY DEF Inv
<1>2. /\ path \in Seq(Entries) /\ inbox \in Seq(BoxItems) /\ Len(path) \in Nat
      /\ pc \in [Inputs -> Pcs] /\ agq \in Seq(Ins) /\ evq \in Seq(Ins)
      /\ PathOK(path) /\ EntriesOK(path, inbox) /\ BoxInv(inbox, pc, agq, evq)
  BY <1>1 DEF Sound
<1>3. /\ \/ /\ path' = Requeued(p, ib, m) /\ inbox' = InboxRequeued(p, ib, m)
            /\ warned' = warned
         \/ /\ \E k \in 0..(m - 1) :
                  /\ path' = Requeued(p, ib, k)
                  /\ inbox' = InboxRequeued(p, ib, k)
            /\ warned' = TRUE
      /\ acked' = [x \in Contents |->
            Cardinality({e \in 1..n : p0[e].k = "item" /\ p0[e].x = x})
            + Cardinality({j \in DOMAIN ib :
                  /\ ib[j].x = x
                  /\ ib[j].p > 0 => pc[ib[j].p] # "written"})]
      /\ agq' = agq /\ evq' = evq /\ pc' = pc /\ left' = left \cup {path}
      /\ submitted' = [x \in Contents |->
            IF Shares(path, p0, n) THEN submitted[x]
            ELSE submitted[x] + Cardinality({j \in DOMAIN ib :
                                    ib[j].entry = 0 /\ ib[j].x = x})]
  BY DEF Rebase
<1>g. agq' = agq /\ evq' = evq /\ pc' = pc BY <1>3
<1>a. /\ p0 \in Seq(Entries) /\ PathOK(p0)
      /\ p0 # path => Fit(p0, <<>>, pc, evq, submitted)
  BY <1>2 DEF LeftOK
<1>4. /\ p \in Seq(Entries) /\ PathOK(p) /\ n <= Len(p)
      /\ \A e \in 1..n : p[e] = p0[e]
  BY <1>a, RewoundIs
<1>5. Claims(hb, p) BY <1>2, <1>a, HeldClaims
<1>b. gb \in Seq(BoxItems) /\ \A j \in 1..Len(gb) : gb[j].held
  BY <1>2, HeldIs
<1>c. /\ hb \in Seq(BoxItems) /\ Len(hb) = Len(gb)
      /\ \A j \in 1..Len(gb) : SameInput(gb[j], hb[j])
  <2> HIDE DEF gb
  <2> QED BY <1>b, MovedIs
<1>6. /\ hb \in Seq(BoxItems) /\ Len(hb) \in Nat
      /\ \A j \in 1..Len(hb) : hb[j].held
  <2> HIDE DEF hb, gb
  <2> QED BY <1>b, <1>c DEF SameInput
<1>7. BoxInv(hb, pc, agq, evq)
  <2> DEFINE o == InOrder({j \in DOMAIN inbox : inbox[j].held})
  <2>0. /\ o \in [1..Len(gb) -> 1..Len(inbox)]
        /\ \A j \in 1..Len(gb) : gb[j] = inbox[o[j]]
        /\ \A a, b \in 1..Len(gb) : o[a] = o[b] => a = b
        /\ \A j \in 1..Len(inbox) : inbox[j].held => \E a \in 1..Len(gb) : o[a] = j
    BY <1>2, HeldIs
  <2> HIDE DEF o, hb, gb
  <2>1. /\ o \in [1..Len(hb) -> 1..Len(inbox)]
        /\ \A a, b \in 1..Len(hb) : o[a] = o[b] => a = b
        /\ \A j \in 1..Len(inbox) : inbox[j].held => \E a \in 1..Len(hb) : o[a] = j
    BY <1>c, <2>0
  <2>2. \A j \in 1..Len(hb) : SameInput(inbox[o[j]], hb[j])
    BY <1>c, <2>0
  <2>3. \A j \in 1..Len(inbox) : inbox[j].held => \E a \in 1..Len(hb) : o[a] = j
    BY <2>1
  <2>4. \A a, b \in 1..Len(hb) : o[a] = o[b] => a = b BY <2>1
  <2>5. inbox \in Seq(BoxItems) /\ hb \in Seq(BoxItems) BY <1>2, <1>6
  <2>6. o \in [1..Len(hb) -> 1..Len(inbox)] /\ BoxInv(inbox, pc, agq, evq)
    BY <1>2, <2>1
  <2> QED BY ONLY <2>2, <2>3, <2>4, <2>5, <2>6, BoxOfHeld
<1>9. /\ ib \in Seq(BoxItems) /\ Len(ib) = Len(hb)
      /\ \A j \in 1..Len(hb) : SameInput(hb[j], ib[j])
      /\ EntriesOK(p, ib)
  <2> HIDE DEF p, hb
  <2> QED BY <1>4, <1>5, <1>6, RebasedIs
<1> DEFINE L(x) == {j \in DOMAIN ib : ib[j].entry = 0 /\ ib[j].x = x}
<1>d. ASSUME NEW x \in Contents
      PROVE  /\ submitted[x] \in Nat /\ Cardinality(L(x)) \in Nat
             /\ submitted'[x] = IF Shares(path, p0, n) THEN submitted[x]
                                ELSE submitted[x] + Cardinality(L(x))
  <2>1. IsFiniteSet(DOMAIN ib) /\ L(x) \in SUBSET DOMAIN ib
    <3> HIDE DEF ib
    <3> QED BY <1>9, BoxCounts
  <2>2. Cardinality(L(x)) \in Nat
    <3> HIDE DEF L
    <3> QED BY <2>1, PartOf
  <2> QED BY <1>1, <1>3, <2>2
<1>e. submitted' \in [Contents -> Nat]
  <2> HIDE DEF L
  <2>1. \A x \in Contents : submitted'[x] \in Nat BY <1>d
  <2>2. submitted' = [x \in Contents |-> submitted'[x]] BY <1>3
  <2> QED BY ONLY <2>1, <2>2
<1>f. Spares(pc, evq, submitted, pc, evq, submitted')
  <2> SUFFICES ASSUME NEW x \in Contents
               PROVE  submitted[x] + Cardinality(DirectOf(evq, pc, x))
                        <= submitted'[x] + Cardinality(DirectOf(evq, pc, x))
    BY DEF Spares
  <2> HIDE DEF L
  <2>1. Cardinality(DirectOf(evq, pc, x)) \in Nat BY <1>1, <1>2, RoomIs
  <2> QED BY <1>d, <2>1
<1>8. Fit(p, ib, pc, evq, submitted')
  <2> SUFFICES ASSUME NEW x \in Contents
               PROVE  FitsAll(p, ib, x,
                              submitted'[x] - Cardinality(DirectOf(evq, pc, x)))
    BY DEF Fit
  <2> DEFINE r == submitted[x] - Cardinality(DirectOf(evq, pc, x))
             r2 == submitted'[x] - Cardinality(DirectOf(evq, pc, x))
  <2>1. r \in Int BY <1>1, <1>2, RoomIs
  <2>2. FitsAll(path, inbox, x, r) BY <1>1 DEF Fit
  <2>3. p0 # path => FitsAll(p0, <<>>, x, r) BY <1>a DEF Fit
  <2>4. CASE Shares(path, p0, n)
    <3>1. r2 = r BY <1>d, <2>4
    <3> HIDE DEF r, r2
    <3>2. FitsAll(p, ib, x, r)
      BY <1>2, <1>a, <2>1, <2>2, <2>4, RewindFits
    <3> QED BY <3>1, <3>2 DEF r2
  <2>5. CASE ~Shares(path, p0, n)
    <3>1. p0 # path BY <1>2, <2>5 DEF Shares
    <3>2. r2 = r + Cardinality(L(x))
      <4>1. Cardinality(DirectOf(evq, pc, x)) \in Nat
        BY <1>1, <1>2, RoomIs
      <4> HIDE DEF L
      <4> QED BY <1>d, <2>5, <4>1
    <3> HIDE DEF r, r2
    <3>3. FitsAll(p, ib, x, r + Cardinality(L(x)))
      <4> HIDE DEF ib
      <4> QED BY <1>9, <1>a, <2>1, <2>3, <3>1, ReturnFits
    <3> HIDE DEF L
    <3> QED BY <3>2, <3>3 DEF r2
  <2> QED BY <2>4, <2>5
<1> HIDE DEF p, hb, gb, L
<1> HIDE DEF ib
<1>10. BoxInv(ib, pc, agq, evq)
  <2> DEFINE f == [j \in 1..Len(ib) |-> j]
  <2>1. /\ f \in [1..Len(ib) -> 1..Len(hb)]
        /\ \A a, b \in 1..Len(ib) : f[a] = f[b] => a = b
        /\ \A j \in 1..Len(ib) : f[j] = j
    BY <1>9
  <2> HIDE DEF f
  <2>2. /\ \A j \in 1..Len(ib) : SameInput(hb[f[j]], ib[j])
        /\ \A j \in 1..Len(hb) : hb[j].held => \E a \in 1..Len(ib) : f[a] = j
    BY <1>9, <2>1
  <2> QED BY <1>6, <1>7, <1>9, <2>1, <2>2, BoxOfHeld
<1>11. Sound(p, ib, pc, agq, evq) BY <1>2, <1>4, <1>9, <1>10 DEF Sound
<1>12. m \in Nat BY <1>9, MissingLists
<1>13. \A j \in 1..Len(ib) : ~ib[j].declined
  <2>1. \A j \in 1..Len(ib) : ib[j].held BY <1>6, <1>9 DEF SameInput
  <2>2. DOMAIN ib = 1..Len(ib) BY <1>9
  <2> QED BY <1>10, <2>1, <2>2 DEF BoxInv, InputOK
<1>14. ASSUME NEW k \in 0..m, path' = Requeued(p, ib, k),
              inbox' = InboxRequeued(p, ib, k)
       PROVE  /\ Sound(path', inbox', pc, agq, evq)
              /\ Fit(path', inbox', pc, evq, submitted')
              /\ Writes(p, ib, path', inbox')
              /\ k = m => \A j \in 1..Len(ib) : inbox'[j].entry # 0
  <2> DEFINE p2 == Requeued(p, ib, k)
             ib2 == InboxRequeued(p, ib, k)
  <2>1. /\ Sound(p2, ib2, pc, agq, evq) /\ Writes(p, ib, p2, ib2)
        /\ k = m => \A j \in 1..Len(ib) : ib2[j].entry # 0
    BY <1>11, Requeuing
  <2>2. path' = p2 /\ inbox' = ib2 BY <1>14
  <2> HIDE DEF p2, ib2
  <2>3. Fit(p2, ib2, pc, evq, submitted')
    BY ONLY <1>2, <1>4, <1>8, <1>9, <1>e, <2>1, WritesFit
  <2> QED BY ONLY <2>1, <2>2, <2>3
<1>15. acked' \in [Contents -> Nat]
  <2> DEFINE I(x) == {e \in 1..n : p0[e].k = "item" /\ p0[e].x = x}
             B(x) == {j \in DOMAIN ib : /\ ib[j].x = x
                                        /\ ib[j].p > 0 => pc[ib[j].p] # "written"}
  <2>1. ASSUME NEW x \in Contents
        PROVE  Cardinality(I(x)) \in Nat /\ Cardinality(B(x)) \in Nat
    <3>1. IsFiniteSet(1..n) /\ IsFiniteSet(DOMAIN ib)
      BY <1>9, FS_Interval, BoxCounts
    <3>2. I(x) \in SUBSET (1..n) /\ B(x) \in SUBSET DOMAIN ib OBVIOUS
    <3> HIDE DEF I, B
    <3> QED BY <3>1, <3>2, PartOf
  <2>2. acked' = [x \in Contents |-> Cardinality(I(x)) + Cardinality(B(x))]
    BY <1>3
  <2> HIDE DEF I, B
  <2>3. \A x \in Contents : Cardinality(I(x)) + Cardinality(B(x)) \in Nat
    BY <2>1
  <2> QED BY ONLY <2>2, <2>3
<1>16. ASSUME path' = Requeued(p, ib, m), inbox' = InboxRequeued(p, ib, m),
              warned' = warned
       PROVE  Inv'
  <2>1. /\ Sound(path', inbox', pc, agq, evq)
        /\ Fit(path', inbox', pc, evq, submitted')
        /\ Writes(p, ib, path', inbox')
        /\ \A j \in 1..Len(ib) : inbox'[j].entry # 0
    <3>1. m \in 0..m BY <1>12
    <3> QED BY <1>14, <1>16, <3>1
  <2>2. /\ path' \in Seq(Entries) /\ n <= Len(path')
        /\ \A e \in 1..n : path'[e] = p0[e]
    <3>1. path' \in Seq(Entries) /\ Len(p) <= Len(path')
          /\ \A e \in 1..Len(p) : path'[e] = p[e]
      BY <2>1 DEF Writes
    <3> QED BY <1>4, <3>1
  <2>3. /\ inbox' \in Seq(BoxItems) /\ Len(inbox') = Len(ib)
        /\ \A j \in 1..Len(ib) :
              /\ SameInput(ib[j], inbox'[j]) /\ inbox'[j].entry # 0
              /\ ~ib[j].declined
    BY <1>13, <2>1 DEF Writes
  <2>4. Kept(path', inbox', pc, acked')
    <3>1. Rewinds(p0, path', n, ib, inbox') BY <2>2, <2>3 DEF Rewinds
    <3>2. acked' = AckedAt(p0, n, ib, pc) BY <1>3 DEF AckedAt
    <3>3. LateOK(inbox', pc) /\ AckOK(path', inbox', pc, acked')
      BY ONLY n \in 0..Len(p0), <1>a, <1>9, <2>2, <2>3, <3>1, <3>2, RewindAck
    <3> QED BY ONLY <3>3 DEF Kept
  <2>5. warned' \in BOOLEAN BY <1>1, <1>16
  <2> QED BY ONLY <1>e, <1>g, <1>15, <2>1, <2>4, <2>5 DEF Inv
<1>17. ASSUME \E k \in 0..(m - 1) :
                 /\ path' = Requeued(p, ib, k)
                 /\ inbox' = InboxRequeued(p, ib, k),
              warned' = TRUE
       PROVE  Inv'
  <2>1. PICK k \in 0..(m - 1) :
                  /\ path' = Requeued(p, ib, k)
                  /\ inbox' = InboxRequeued(p, ib, k)
    BY <1>17
  <2>2. k \in 0..m
    <3> HIDE DEF m
    <3> QED BY <1>12
  <2>3. /\ Sound(path', inbox', pc, agq, evq)
        /\ Fit(path', inbox', pc, evq, submitted')
    BY <1>14, <2>1, <2>2
  <2>4. warned' = TRUE BY <1>17
  <2> QED BY ONLY <1>e, <1>g, <1>15, <2>3, <2>4 DEF Inv
<1>18. Inv' BY <1>3, <1>16, <1>17
<1>19. LeftOK(left, pc, evq, submitted')
  BY <1>1, <1>2, <1>e, <1>f, LeftKept
<1>20. Fit(path, <<>>, pc, evq, submitted')
  <2>1. Leaves(inbox, <<>>) /\ <<>> \in Seq(BoxItems) BY <1>2 DEF Leaves
  <2> QED BY <1>1, <1>2, <1>e, <1>f, <2>1, FitFewer
<1>21. LeftOK(left', pc, evq, submitted')
  BY <1>2, <1>3, <1>19, <1>20 DEF LeftOK
<1> QED BY <1>3, <1>18, <1>21

\* Recorder.Redeliver of an input that the caller of the same message holds
\* already.
LEMMA RedeliverHeld ==
    ASSUME Inv, NEW i \in Inputs, pc[i] = "new",
           pc' = [pc EXCEPT ![i] = "failed"],
           UNCHANGED <<path, inbox, agq, evq, acked, warned>>,
           submitted' \in [Contents -> Nat],
           \A x \in Contents : submitted[x] <= submitted'[x]
    PROVE  Inv'
<1> DEFINE c2 == [pc EXCEPT ![i] = "failed"]
<1>1. /\ Sound(path, inbox, pc, agq, evq) /\ submitted \in [Contents -> Nat]
      /\ acked \in [Contents -> Nat] /\ warned \in BOOLEAN
      /\ Fit(path, inbox, pc, evq, submitted)
      /\ ~warned => Kept(path, inbox, pc, acked)
  BY DEF Inv
<1>2. /\ path \in Seq(Entries) /\ inbox \in Seq(BoxItems)
      /\ pc \in [Inputs -> Pcs] /\ agq \in Seq(Ins) /\ evq \in Seq(Ins)
      /\ PathOK(path) /\ EntriesOK(path, inbox) /\ BoxInv(inbox, pc, agq, evq)
  BY <1>1 DEF Sound
<1>3. BoxInv(inbox, c2, agq, evq) /\ c2 \in [Inputs -> Pcs]
  <2>1. "failed" \in Pcs BY DEF Pcs
  <2> QED BY <1>2, <2>1, BoxFailed
<1>4. Spares(pc, evq, submitted, c2, evq, submitted)
  <2>1. "failed" # "direct" OBVIOUS
  <2> QED BY ONLY <1>1, <1>2, i \in Inputs, <2>1, SparesCalled
<1> HIDE DEF c2
<1>5. Sound(path, inbox, c2, agq, evq) BY <1>2, <1>3 DEF Sound
<1>6. Spares(pc, evq, submitted, c2, evq, submitted')
  <2> SUFFICES ASSUME NEW x \in Contents
               PROVE  submitted[x] + Cardinality(DirectOf(evq, c2, x))
                        <= submitted'[x] + Cardinality(DirectOf(evq, pc, x))
    BY DEF Spares
  <2>1. submitted[x] + Cardinality(DirectOf(evq, c2, x))
          <= submitted[x] + Cardinality(DirectOf(evq, pc, x))
    BY <1>4 DEF Spares
  <2>2. /\ Cardinality(DirectOf(evq, c2, x)) \in Nat
        /\ Cardinality(DirectOf(evq, pc, x)) \in Nat
        /\ submitted[x] \in Nat /\ submitted'[x] \in Nat
        /\ submitted[x] <= submitted'[x]
    BY <1>1, <1>2, <1>3, RoomIs
  <2> QED BY ONLY <2>1, <2>2
<1>7. Leaves(inbox, inbox) /\ Continues(path, path)
  BY <1>2 DEF Leaves, Continues
<1>8. Fit(path, inbox, c2, evq, submitted')
  BY ONLY <1>1, <1>2, <1>6, <1>7, submitted' \in [Contents -> Nat], FitFewer
<1>9. ~warned => Kept(path, inbox, c2, acked)
  <2> SUFFICES ASSUME ~warned PROVE Kept(path, inbox, c2, acked)
    OBVIOUS
  <2>1. Kept(path, inbox, pc, acked) BY <1>1
  <2>2. /\ Len(inbox) <= Len(inbox)
        /\ \A j \in 1..Len(inbox) :
              /\ inbox[j].p = inbox[j].p /\ inbox[j].x = inbox[j].x
              /\ inbox[j].declined = inbox[j].declined
              /\ inbox[j].entry # 0 => inbox[j].entry # 0
        /\ \A j \in 1..Len(inbox) : j \notin 1..Len(inbox) =>
              inbox[j].entry # 0 \/ inbox[j].declined
    BY <1>2
  <2>3. Kept(path, inbox, [pc EXCEPT ![i] = "failed"], acked)
    BY ONLY <1>1, <1>2, <1>7, <2>1, <2>2, i \in Inputs, pc[i] = "new", AckCalled
  <2> QED BY <2>3 DEF c2
<1>10. pc' = c2 BY DEF c2
<1> QED BY ONLY <1>1, <1>5, <1>8, <1>9, <1>10, submitted' \in [Contents -> Nat],
                UNCHANGED <<path, inbox, agq, evq, acked, warned>> DEF Inv

\* The delivery at place j is the call i's: the invariant's parts hold of
\* it, and what the path answers for is one fewer until the agent has it.
Redelivers(p, ib, c, ag, ev, i, j, ib2) ==
    /\ ib2 \in Seq(BoxItems)
    /\ Sound(p, ib2, [c EXCEPT ![i] = "written"], ag, ev)
    /\ Leaves(ib, ib2)
    /\ \A a \in [Contents -> Nat] : Kept(p, ib, c, a) =>
          LET a2 == [a EXCEPT ![Content[i]] = IF @ > 0 THEN @ - 1 ELSE @]
          IN  Kept(p, ib2, [c EXCEPT ![i] = "written"], a2)

\* A delivery that the path owes and the agent has not got is taken up by
\* the caller that sends it again, at the entry it has.
LEMMA RedeliveredSound ==
    ASSUME NEW p, NEW ib, NEW c, NEW ag, NEW ev, Sound(p, ib, c, ag, ev),
           NEW i \in Inputs, c[i] = "new", NEW j \in 1..Len(ib),
           ~ib[j].held, ~ib[j].declined, ib[j].x = Content[i], ib[j].entry # 0,
           NEW ib2,
           ib2 = [ib EXCEPT ![j].p = i, ![j].held = TRUE,
                            ![j].awaiting = TRUE, ![j].holder = TRUE]
    PROVE  Redelivers(p, ib, c, ag, ev, i, j, ib2)
<1> DEFINE c2 == [c EXCEPT ![i] = "written"]
<1>1. /\ p \in Seq(Entries) /\ ib \in Seq(BoxItems) /\ Len(p) \in Nat
      /\ c \in [Inputs -> Pcs] /\ ag \in Seq(Ins) /\ ev \in Seq(Ins)
      /\ PathOK(p) /\ EntriesOK(p, ib) /\ BoxInv(ib, c, ag, ev)
  BY DEF Sound
<1>2. /\ ib2 \in Seq(BoxItems) /\ Len(ib2) = Len(ib)
      /\ \A m \in 1..Len(ib) :
            /\ ib2[m].entry = ib[m].entry /\ ib2[m].x = ib[m].x
            /\ ib2[m].d = ib[m].d
            /\ ib2[m].p = IF m = j THEN i ELSE ib[m].p
            /\ ib2[m].declined = ib[m].declined
      /\ BoxInv(ib2, c2, ag, ev)
  <2> DEFINE e == [ib EXCEPT ![j].p = i, ![j].held = TRUE,
                             ![j].awaiting = TRUE, ![j].holder = TRUE]
  <2>1. /\ e \in Seq(BoxItems) /\ Len(e) = Len(ib)
        /\ \A m \in 1..Len(ib) :
              /\ e[m].entry = ib[m].entry /\ e[m].x = ib[m].x
              /\ e[m].d = ib[m].d
              /\ e[m].p = IF m = j THEN i ELSE ib[m].p
              /\ e[m].declined = ib[m].declined
        /\ BoxInv(e, c2, ag, ev)
    BY ONLY <1>1, i \in Inputs, c[i] = "new", j \in 1..Len(ib), ~ib[j].held,
            ~ib[j].declined, ib[j].x = Content[i], BoxRedelivered
  <2>2. ib2 = e OBVIOUS
  <2> HIDE DEF e, c2
  <2> QED BY ONLY <2>1, <2>2
<1>3. Leaves(ib, ib2)
  <2>1. Len(ib2) <= Len(ib) BY <1>1, <1>2
  <2> QED BY ONLY <1>2, <2>1 DEF Leaves
<1>4. EntriesOK(p, ib2)
  BY ONLY <1>1, <1>2, <1>3, EntriesAtPlaces DEF Leaves
<1>5. c2 \in [Inputs -> Pcs] BY <1>1 DEF Pcs
<1>6. Sound(p, ib2, c2, ag, ev)
  <2> HIDE DEF c2
  <2> QED BY ONLY <1>1, <1>2, <1>4, <1>5 DEF Sound
<1>7. ASSUME NEW a \in [Contents -> Nat], Kept(p, ib, c, a)
      PROVE  Kept(p, ib2, c2, [a EXCEPT ![Content[i]] = IF @ > 0 THEN @ - 1 ELSE @])
  <2> DEFINE a2 == [a EXCEPT ![Content[i]] = IF @ > 0 THEN @ - 1 ELSE @]
  <2>1. LateOK(ib, c) /\ AckOK(p, ib, c, a) BY <1>7 DEF Kept
  <2>2. Retakes(ib, ib2, i, j) BY <1>2 DEF Retakes
  <2>4. Retaken(p, ib2, c, a, i)
    BY ONLY <1>1, <1>2, <2>1, <2>2, i \in Inputs, c[i] = "new", j \in 1..Len(ib),
            ib[j].x = Content[i], ib[j].entry # 0, a \in [Contents -> Nat],
            RedeliverAck
  <2>5. LateOK(ib2, c2) /\ AckOK(p, ib2, c2, a2) BY <2>4 DEF Retaken
  <2> HIDE DEF a2, c2
  <2>3. Kept(p, ib2, c2, a2) BY ONLY <2>5 DEF Kept
  <2> QED BY <2>3 DEF a2
<1> QED BY <1>2, <1>3, <1>6, <1>7 DEF Redelivers

\* Recorder.Redeliver of a delivery that the path owes.
LEMMA RedeliverOwed ==
    ASSUME Inv, NEW i \in Inputs, pc[i] = "new", NEW j \in 1..Len(inbox),
           ~inbox[j].held, ~inbox[j].declined, inbox[j].x = Content[i],
           inbox[j].entry # 0,
           pc' = [pc EXCEPT ![i] = "written"],
           inbox' = [inbox EXCEPT ![j].p = i, ![j].held = TRUE,
                                  ![j].awaiting = TRUE, ![j].holder = TRUE],
           acked' = [acked EXCEPT ![Content[i]] = IF @ > 0 THEN @ - 1 ELSE @],
           UNCHANGED <<path, agq, evq, warned>>,
           submitted' \in [Contents -> Nat],
           \A x \in Contents : submitted[x] <= submitted'[x]
    PROVE  Inv'
<1> DEFINE c2 == [pc EXCEPT ![i] = "written"]
           ib2 == [inbox EXCEPT ![j].p = i, ![j].held = TRUE,
                                ![j].awaiting = TRUE, ![j].holder = TRUE]
           a2 == [acked EXCEPT ![Content[i]] = IF @ > 0 THEN @ - 1 ELSE @]
<1>1. /\ Sound(path, inbox, pc, agq, evq) /\ submitted \in [Contents -> Nat]
      /\ acked \in [Contents -> Nat] /\ warned \in BOOLEAN
      /\ Fit(path, inbox, pc, evq, submitted)
      /\ ~warned => Kept(path, inbox, pc, acked)
  BY DEF Inv
<1>2. /\ path \in Seq(Entries) /\ inbox \in Seq(BoxItems)
      /\ pc \in [Inputs -> Pcs] /\ agq \in Seq(Ins) /\ evq \in Seq(Ins)
      /\ BoxInv(inbox, pc, agq, evq)
  BY <1>1 DEF Sound
<1>3. Redelivers(path, inbox, pc, agq, evq, i, j, ib2)
  BY <1>1, RedeliveredSound
<1>4. /\ pc' = c2 /\ inbox' = ib2 /\ acked' = a2 /\ path' = path
      /\ agq' = agq /\ evq' = evq /\ warned' = warned
  OBVIOUS
<1>5. Spares(pc, evq, submitted, c2, evq, submitted)
  <2>1. "written" # "direct" OBVIOUS
  <2> QED BY ONLY <1>1, <1>2, i \in Inputs, <2>1, SparesCalled
<1>6. a2 \in [Contents -> Nat]
  <2>1. ASSUME NEW k \in Nat
        PROVE  (IF k > 0 THEN k - 1 ELSE k) \in Nat
    OBVIOUS
  <2>2. acked \in [Contents -> Nat] BY <1>1
  <2> QED BY ONLY <2>1, <2>2
<1>7. /\ ib2 \in Seq(BoxItems) /\ Sound(path, ib2, c2, agq, evq)
      /\ Leaves(inbox, ib2)
      /\ Kept(path, inbox, pc, acked) => Kept(path, ib2, c2, a2)
  BY <1>1, <1>3 DEF Redelivers
<1> HIDE DEF c2, ib2, a2
<1>8. Spares(pc, evq, submitted, c2, evq, submitted')
  <2> SUFFICES ASSUME NEW x \in Contents
               PROVE  submitted[x] + Cardinality(DirectOf(evq, c2, x))
                        <= submitted'[x] + Cardinality(DirectOf(evq, pc, x))
    BY DEF Spares
  <2>1. submitted[x] + Cardinality(DirectOf(evq, c2, x))
          <= submitted[x] + Cardinality(DirectOf(evq, pc, x))
    BY <1>5 DEF Spares
  <2>2. /\ Cardinality(DirectOf(evq, c2, x)) \in Nat
        /\ Cardinality(DirectOf(evq, pc, x)) \in Nat
        /\ submitted[x] \in Nat /\ submitted'[x] \in Nat
        /\ submitted[x] <= submitted'[x]
    BY <1>1, <1>2, RoomIs
  <2> QED BY ONLY <2>1, <2>2
<1>9. Fit(path, ib2, c2, evq, submitted')
  BY ONLY <1>1, <1>2, <1>7, <1>8, submitted' \in [Contents -> Nat], FitFewer
<1> QED BY ONLY <1>1, <1>4, <1>6, <1>7, <1>9, submitted' \in [Contents -> Nat]
     DEF Inv

\* Recorder.Redeliver: the delivery owed, or a new input.
LEMMA RedeliverStep ==
    ASSUME Inv, NEW i \in Inputs, Redeliver(i)
    PROVE  Inv'
<1> DEFINE in == [InboxItem(Of(i), 0, TRUE) EXCEPT
                     !.awaiting = TRUE, !.holder = TRUE]
           ib == Append(inbox, in)
           S == OwedDeliveries(Content[i])
           j == OwedDelivery(Content[i])
           same == S # {} /\ \A m \in S : inbox[m].held => inbox[m].holder
<1>1. /\ inbox \in Seq(BoxItems) /\ submitted \in [Contents -> Nat]
      /\ acked \in [Contents -> Nat]
  BY DEF Inv, Sound
<1>2. /\ in \in BoxItems /\ in.p = i /\ in.x = Content[i] /\ in.entry = 0
      /\ in.held /\ in.awaiting /\ ~in.declined
  BY CallsInput
<1>3. /\ pc[i] = "new" /\ UNCHANGED <<agq, evq, warned>>
      /\ submitted' = [submitted EXCEPT ![Content[i]] = IF same THEN @ ELSE @ + 1]
      /\ acked' = [acked EXCEPT ![Content[i]] =
                      IF j # 0 /\ ~inbox[j].held /\ @ > 0 THEN @ - 1 ELSE @]
  BY DEF Redeliver
<1>4. \/ /\ j # 0 /\ inbox[j].held /\ inbox[j].holder
         /\ pc' = [pc EXCEPT ![i] = "failed"] /\ UNCHANGED <<path, inbox>>
      \/ /\ j # 0 /\ ~inbox[j].held /\ pc' = [pc EXCEPT ![i] = "written"]
         /\ inbox' = [inbox EXCEPT ![j].p = i, ![j].held = TRUE,
                                   ![j].awaiting = TRUE, ![j].holder = TRUE]
         /\ UNCHANGED path
      \/ /\ j # 0 => inbox[j].held /\ ~inbox[j].holder
         /\ path' = Requeued(path, ib, Len(Missing(ib)))
         /\ inbox' = InboxRequeued(path, ib, Len(Missing(ib)))
         /\ pc' = [pc EXCEPT ![i] = "written"]
      \/ /\ j # 0 => inbox[j].held /\ ~inbox[j].holder
         /\ pc' = [pc EXCEPT ![i] = "failed"]
         /\ \E n \in 0..(Len(Missing(ib)) - 1) :
               /\ path' = Requeued(path, ib, n)
               /\ inbox' = SubSeq(InboxRequeued(path, ib, n), 1, Len(inbox))
  BY DEF Redeliver, Requeues, RequeueFails
<1>5. /\ S = {} <=> j = 0
      /\ j # 0 => j \in S
  <2>1. S \in SUBSET (Nat \ {0}) BY <1>1 DEF OwedDeliveries
  <2> HIDE DEF S
  <2>2. /\ S = {} <=> FirstOf(S) = 0
        /\ S # {} => FirstOf(S) \in S
    BY <2>1, FirstOfIs
  <2> QED BY <2>2 DEF S, OwedDelivery
<1>6. j # 0 => /\ j \in 1..Len(inbox) /\ inbox[j].x = Content[i]
               /\ ~inbox[j].declined /\ inbox[j].entry # 0
  BY <1>1, <1>5 DEF OwedDeliveries
<1>7. Content[i] \in Contents BY DEF Contents
<1>8. Len(Missing(ib)) \in Nat
  <2>1. ib \in Seq(BoxItems)
    <3> HIDE DEF in
    <3> QED BY <1>1, <1>2
  <2> HIDE DEF ib
  <2> QED BY <2>1, MissingLists
<1> HIDE DEF in, S, j
<1>9. /\ submitted' \in [Contents -> Nat]
      /\ \A x \in Contents : submitted[x] <= submitted'[x]
  <2>1. submitted' = IF same THEN submitted
                     ELSE [submitted EXCEPT ![Content[i]] = @ + 1]
    <3> HIDE DEF same
    <3>1. CASE same BY <1>1, <1>3, <1>7, <3>1
    <3>2. CASE ~same BY <1>1, <1>3, <1>7, <3>2
    <3> QED BY <3>1, <3>2
  <2> HIDE DEF same
  <2> QED BY <1>1, <1>7, <2>1
<1>10. (j # 0 => inbox[j].held) => acked' = acked
  <2> HAVE j # 0 => inbox[j].held
  <2>1. acked' = [acked EXCEPT ![Content[i]] = acked[Content[i]]]
    BY <1>1, <1>3, <1>7
  <2> QED BY <1>1, <1>7, <2>1
<1>11. CASE /\ j # 0 /\ inbox[j].held /\ inbox[j].holder
            /\ pc' = [pc EXCEPT ![i] = "failed"] /\ UNCHANGED <<path, inbox>>
  <2>1. UNCHANGED <<path, inbox, agq, evq, acked, warned>>
    BY <1>3, <1>10, <1>11
  <2>2. pc' = [pc EXCEPT ![i] = "failed"] /\ pc[i] = "new"
    BY <1>3, <1>11
  <2> QED BY ONLY Inv, i \in Inputs, <1>9, <2>1, <2>2, RedeliverHeld
<1>12. CASE /\ j # 0 /\ ~inbox[j].held /\ pc' = [pc EXCEPT ![i] = "written"]
            /\ inbox' = [inbox EXCEPT ![j].p = i, ![j].held = TRUE,
                                      ![j].awaiting = TRUE, ![j].holder = TRUE]
            /\ UNCHANGED path
  <2>1. acked' = [acked EXCEPT ![Content[i]] = IF @ > 0 THEN @ - 1 ELSE @]
    BY <1>1, <1>3, <1>7, <1>12
  <2>2. /\ j \in 1..Len(inbox) /\ ~inbox[j].held /\ ~inbox[j].declined
        /\ inbox[j].x = Content[i] /\ inbox[j].entry # 0 /\ pc[i] = "new"
    BY <1>3, <1>6, <1>12
  <2>3. UNCHANGED <<path, agq, evq, warned>> BY <1>3, <1>12
  <2> QED BY ONLY Inv, i \in Inputs, <1>9, <1>12, <2>1, <2>2, <2>3, RedeliverOwed
<1>13. (j # 0 => inbox[j].held /\ ~inbox[j].holder) =>
          /\ submitted' = [submitted EXCEPT ![Content[i]] = @ + 1]
          /\ UNCHANGED <<agq, evq, acked, warned>>
  <2> HAVE j # 0 => inbox[j].held /\ ~inbox[j].holder
  <2>1. ~same BY <1>5
  <2> HIDE DEF same
  <2> QED BY <1>3, <1>10, <2>1
<1>14. CASE /\ j # 0 => inbox[j].held /\ ~inbox[j].holder
            /\ path' = Requeued(path, ib, Len(Missing(ib)))
            /\ inbox' = InboxRequeued(path, ib, Len(Missing(ib)))
            /\ pc' = [pc EXCEPT ![i] = "written"]
  <2>1. Len(Missing(ib)) \in 0..Len(Missing(ib)) BY <1>8
  <2> QED BY <1>2, <1>3, <1>13, <1>14, <2>1, CallStep
<1>15. CASE /\ j # 0 => inbox[j].held /\ ~inbox[j].holder
            /\ pc' = [pc EXCEPT ![i] = "failed"]
            /\ \E n \in 0..(Len(Missing(ib)) - 1) :
                  /\ path' = Requeued(path, ib, n)
                  /\ inbox' = SubSeq(InboxRequeued(path, ib, n), 1, Len(inbox))
  <2>1. PICK n \in 0..(Len(Missing(ib)) - 1) :
            /\ path' = Requeued(path, ib, n)
            /\ inbox' = SubSeq(InboxRequeued(path, ib, n), 1, Len(inbox))
    BY <1>15
  <2>2. n \in 0..Len(Missing(ib)) BY <1>8
  <2>3. /\ inbox' \in {Declined(InboxRequeued(path, ib, n), {i}),
                       SubSeq(InboxRequeued(path, ib, n), 1, Len(inbox))}
        /\ pc' = [pc EXCEPT ![i] = "failed"]
    BY <1>15, <2>1
  <2> QED BY <1>2, <1>3, <1>13, <1>15, <2>1, <2>2, <2>3, CallStep
<1> QED BY <1>4, <1>11, <1>12, <1>14, <1>15

-----------------------------------------------------------------------------
(* The theorems.                                                           *)

\* An empty log, an empty inbox and no call made.
LEMMA InitInv == Init => Inv
<1> SUFFICES ASSUME Init PROVE Inv
  OBVIOUS
<1>1. /\ path = <<>> /\ inbox = <<>> /\ agq = <<>> /\ evq = <<>>
      /\ pc = [i \in Inputs |-> "new"] /\ warned = FALSE
      /\ acked = [x \in Contents |-> 0] /\ submitted = [x \in Contents |-> 0]
  BY DEF Init
<1>2. /\ path \in Seq(Entries) /\ inbox \in Seq(BoxItems)
      /\ agq \in Seq(Ins) /\ evq \in Seq(Ins)
      /\ Len(path) = 0 /\ DOMAIN path = {} /\ DOMAIN inbox = {}
      /\ DOMAIN agq = {} /\ DOMAIN evq = {}
  BY <1>1
<1>3. /\ pc \in [Inputs -> Pcs] /\ \A i \in Inputs : pc[i] = "new"
  BY <1>1 DEF Pcs
<1>4. Sound(path, inbox, pc, agq, evq)
  <2>1. PathOK(path) /\ EntriesOK(path, inbox)
    BY <1>2 DEF PathOK, EntriesOK
  <2>2. BoxInv(inbox, pc, agq, evq)
    BY <1>2, <1>3 DEF BoxInv, Distinct, WrittenOK, QueueOK, EventsOK
  <2> QED BY <1>2, <1>3, <2>1, <2>2 DEF Sound
<1>5. acked \in [Contents -> Nat] /\ submitted \in [Contents -> Nat]
  BY <1>1
<1>6. ASSUME NEW x \in Contents
      PROVE  /\ acked[x] = 0 /\ submitted[x] = 0
             /\ Cardinality(DirectOf(evq, pc, x)) = 0
             /\ Cardinality(KeptOf(inbox, pc, x)) = 0
             /\ Cardinality(ItemsAt(path, 0, x)) = 0
             /\ \A d \in BOOLEAN : /\ Cardinality(PendAt(path, 0, x, d)) = 0
                                   /\ Cardinality(LackingOf(inbox, x, d)) = 0
  <2>1. /\ DirectOf(evq, pc, x) = {} /\ KeptOf(inbox, pc, x) = {}
        /\ ItemsAt(path, 0, x) = {}
        /\ \A d \in BOOLEAN : PendAt(path, 0, x, d) = {} /\ LackingOf(inbox, x, d) = {}
    BY <1>2 DEF DirectOf, KeptOf, ItemsAt, PendAt, LackingOf
  <2>2. Cardinality({}) = 0 BY FS_EmptySet
  <2>3. acked[x] = 0 /\ submitted[x] = 0 BY <1>1
  <2> QED BY <2>1, <2>2, <2>3
<1>7. Fit(path, inbox, pc, evq, submitted)
  <2> SUFFICES ASSUME NEW x \in Contents
               PROVE  FitsAll(path, inbox, x,
                              submitted[x] - Cardinality(DirectOf(evq, pc, x)))
    BY DEF Fit
  <2>1. submitted[x] - Cardinality(DirectOf(evq, pc, x)) = 0 BY <1>6
  <2>2. Owing(path, inbox, x, AsDelivery) = 0 /\ Owing(path, inbox, x, AsQueued) = 0
    <3>1. AsDelivery \in BOOLEAN /\ AsQueued \in BOOLEAN
      BY DEF AsDelivery, AsQueued
    <3>2. ASSUME NEW d \in BOOLEAN PROVE Owing(path, inbox, x, d) = 0
      <4>1. /\ Cardinality(PendAt(path, 0, x, d)) = 0
            /\ Cardinality(LackingOf(inbox, x, d)) = 0
        BY <1>6
      <4>2. Len(path) = 0 BY <1>2
      <4> QED BY ONLY <4>1, <4>2 DEF Owing
    <3> QED BY ONLY <3>1, <3>2
  <2>3. \A m \in 0..Len(path) : m = 0 /\ m = Len(path) BY <1>2
  <2>4. Cardinality(ItemsAt(path, 0, x)) = 0 BY <1>6
  <2>5. Fits(path, x, 0, 0, 0) BY <1>2, <2>3, <2>4 DEF Fits, Level
  <2> QED BY <2>1, <2>2, <2>5 DEF FitsAll
<1>8. Kept(path, inbox, pc, acked)
  <2>1. LateOK(inbox, pc) BY <1>2 DEF LateOK
  <2>2. AckOK(path, inbox, pc, acked) BY <1>2, <1>6 DEF AckOK
  <2> QED BY <2>1, <2>2 DEF Kept
<1>9. warned \in BOOLEAN BY <1>1
<1> QED BY <1>4, <1>5, <1>7, <1>8, <1>9 DEF Inv

\* No step but a rewind changes the paths left, or leaves less room for what
\* they hold.
Stays == /\ left' = left
         /\ \A x \in Contents :
               submitted[x] + Cardinality(DirectOf(evq', pc', x))
                 <= submitted'[x] + Cardinality(DirectOf(evq, pc, x))

\* A call that moves on, its event seen or to come, as it was.
LEMMA CallStays ==
    ASSUME Inv, NEW i \in Inputs, NEW v, v # "direct",
           pc' = [pc EXCEPT ![i] = v], evq' = evq, left' = left,
           \A x \in Contents : submitted'[x] \in Nat /\ submitted[x] <= submitted'[x]
    PROVE  Stays
<1>1. /\ BoxInv(inbox, pc, agq, evq) /\ pc \in [Inputs -> Pcs]
      /\ evq \in Seq(Ins) /\ submitted \in [Contents -> Nat]
  BY DEF Inv, Sound
<1> SUFFICES ASSUME NEW x \in Contents
             PROVE  submitted[x] + Cardinality(DirectOf(evq', pc', x))
                      <= submitted'[x] + Cardinality(DirectOf(evq, pc, x))
  BY DEF Stays
<1> DEFINE c2 == [pc EXCEPT ![i] = v]
<1>2. Cardinality(DirectOf(evq, c2, x)) <= Cardinality(DirectOf(evq, pc, x))
  BY <1>1, DirectKept
<1>3. /\ Cardinality(DirectOf(evq, c2, x)) \in Nat
      /\ Cardinality(DirectOf(evq, pc, x)) \in Nat
      /\ submitted[x] \in Nat /\ submitted'[x] \in Nat
      /\ submitted[x] <= submitted'[x]
  BY <1>1, DirectCounts
<1>4. evq' = evq /\ pc' = c2 OBVIOUS
<1> HIDE DEF c2
<1>5. DirectOf(evq', pc', x) = DirectOf(evq, c2, x) BY <1>4
<1> QED BY ONLY <1>2, <1>3, <1>5

\* The agent takes an input of a call, or one that a host queues there.
LEMMA TakenStays ==
    ASSUME Inv, NEW i \in Inputs, NEW v,
           \/ pc[i] = "written" /\ v = "acked"
           \/ pc[i] = "new" /\ v = "direct",
           pc' = [pc EXCEPT ![i] = v], evq' = Append(evq, Of(i)), left' = left,
           \A x \in Contents : submitted'[x]
             = submitted[x] + (IF v = "direct" /\ Content[i] = x THEN 1 ELSE 0)
    PROVE  Stays
<1>1. /\ BoxInv(inbox, pc, agq, evq) /\ pc \in [Inputs -> Pcs]
      /\ evq \in Seq(Ins) /\ submitted \in [Contents -> Nat]
  BY DEF Inv, Sound
<1>2. Of(i) \in Ins
  <2>1. i \in Int /\ Content[i] \in Contents
    BY InboxAssumption DEF Contents
  <2> QED BY <2>1 DEF Of, Ins
<1> SUFFICES ASSUME NEW x \in Contents
             PROVE  submitted[x] + Cardinality(DirectOf(evq', pc', x))
                      <= submitted'[x] + Cardinality(DirectOf(evq, pc, x))
  BY DEF Stays
<1> DEFINE c2 == [pc EXCEPT ![i] = v]
           ev2 == Append(evq, Of(i))
           o == IF v = "direct" /\ Content[i] = x THEN 1 ELSE 0
<1>3. Cardinality(DirectOf(ev2, c2, x)) <= Cardinality(DirectOf(evq, pc, x)) + o
  BY <1>1, <1>2, DirectTaken
<1>4. ev2 \in Seq(Ins) BY <1>1, <1>2
<1>5. evq' = ev2 /\ pc' = c2 /\ submitted'[x] = submitted[x] + o OBVIOUS
<1>6. o \in Nat OBVIOUS
<1> HIDE DEF c2, ev2, o
<1>7. /\ Cardinality(DirectOf(ev2, c2, x)) \in Nat
      /\ Cardinality(DirectOf(evq, pc, x)) \in Nat
      /\ submitted[x] \in Nat
  BY <1>1, <1>4, DirectCounts
<1>8. DirectOf(evq', pc', x) = DirectOf(ev2, c2, x) BY <1>5
<1> QED BY ONLY <1>3, <1>5, <1>6, <1>7, <1>8

\* The process dies: no event is to come.
LEMMA RestartStays ==
    ASSUME Inv, NEW p, NEW l, RestartedFrom(p, l)
    PROVE  Stays
<1>1. evq \in Seq(Ins) /\ submitted \in [Contents -> Nat]
  BY DEF Inv, Sound
<1>2. evq' = <<>> /\ submitted' = submitted /\ left' = left
  BY DEF RestartedFrom
<1> SUFFICES ASSUME NEW x \in Contents
             PROVE  submitted[x] + Cardinality(DirectOf(evq', pc', x))
                      <= submitted'[x] + Cardinality(DirectOf(evq, pc, x))
  BY <1>2 DEF Stays
<1>3. DirectOf(evq', pc', x) = {} BY <1>2 DEF DirectOf
<1>4. Cardinality(DirectOf(evq', pc', x)) = 0 BY <1>3, FS_EmptySet
<1>5. submitted[x] \in Nat /\ Cardinality(DirectOf(evq, pc, x)) \in Nat
  BY <1>1, RoomIs
<1> QED BY ONLY <1>2, <1>4, <1>5

\* An event is seen.
LEMMA SeenStays ==
    ASSUME Inv, QueuedEvent
    PROVE  Stays
<1>1. evq \in Seq(Ins) /\ submitted \in [Contents -> Nat]
  BY DEF Inv, Sound
<1>2. /\ evq # <<>> /\ evq' = Tail(evq) /\ pc' = pc /\ submitted' = submitted
      /\ left' = left
  BY DEF QueuedEvent
<1> SUFFICES ASSUME NEW x \in Contents
             PROVE  submitted[x] + Cardinality(DirectOf(evq', pc', x))
                      <= submitted'[x] + Cardinality(DirectOf(evq, pc, x))
  BY <1>2 DEF Stays
<1> DEFINE o == IF Head(evq).p > 0 /\ pc[Head(evq).p] = "direct" /\ Head(evq).x = x
                THEN 1 ELSE 0
<1>3. Cardinality(DirectOf(Tail(evq), pc, x)) + o
        <= Cardinality(DirectOf(evq, pc, x))
  BY <1>1, <1>2, DirectSeen
<1>4. o \in Nat OBVIOUS
<1>5. Tail(evq) \in Seq(Ins) BY <1>1, <1>2
<1> HIDE DEF o
<1>6. /\ submitted[x] \in Nat /\ Cardinality(DirectOf(evq, pc, x)) \in Nat
      /\ Cardinality(DirectOf(Tail(evq), pc, x)) \in Nat
  BY <1>1, <1>5, RoomIs
<1>7. DirectOf(evq', pc', x) = DirectOf(Tail(evq), pc, x) BY <1>2
<1> QED BY ONLY <1>2, <1>3, <1>4, <1>6, <1>7

\* What the path owes is handed to the agent.
LEMMA HandedBackStays ==
    ASSUME Inv, Requeue
    PROVE  Stays
<1> DEFINE owed == At(inbox, {j \in DOMAIN inbox : Owed(inbox[j])})
           w == [j \in DOMAIN owed |-> Input(owed[j])]
<1>1. /\ inbox \in Seq(BoxItems) /\ evq \in Seq(Ins) /\ path \in Seq(Entries)
      /\ pc \in [Inputs -> Pcs] /\ agq \in Seq(Ins)
      /\ submitted \in [Contents -> Nat] /\ BoxInv(inbox, pc, agq, evq)
  BY DEF Inv, Sound
<1>2. evq' = evq \o w /\ pc' = pc /\ submitted' = submitted /\ left' = left
  BY DEF Requeue
<1>3. w \in Seq(Ins) /\ \A m \in 1..Len(w) : w[m].p < 0
  BY <1>1, BoxHandedBack
<1> HIDE DEF w
<1> SUFFICES ASSUME NEW x \in Contents
             PROVE  submitted[x] + Cardinality(DirectOf(evq', pc', x))
                      <= submitted'[x] + Cardinality(DirectOf(evq, pc, x))
  BY <1>2 DEF Stays
<1>4. Cardinality(DirectOf(evq \o w, pc, x)) <= Cardinality(DirectOf(evq, pc, x))
  BY <1>1, <1>3, DirectHandedBack
<1>5. evq \o w \in Seq(Ins) BY <1>1, <1>3, ConcatIs
<1>6. /\ submitted[x] \in Nat /\ Cardinality(DirectOf(evq, pc, x)) \in Nat
      /\ Cardinality(DirectOf(evq \o w, pc, x)) \in Nat
  BY <1>1, <1>5, RoomIs
<1>7. DirectOf(evq', pc', x) = DirectOf(evq \o w, pc, x) BY <1>2
<1> QED BY ONLY <1>2, <1>4, <1>6, <1>7

\* A step that is none of these.
LEMMA OtherStays ==
    ASSUME Inv, UNCHANGED <<left, evq, pc, submitted>>
    PROVE  Stays
<1>1. evq \in Seq(Ins) /\ submitted \in [Contents -> Nat]
  BY DEF Inv, Sound
<1> SUFFICES ASSUME NEW x \in Contents
             PROVE  submitted[x] + Cardinality(DirectOf(evq', pc', x))
                      <= submitted'[x] + Cardinality(DirectOf(evq, pc, x))
  BY DEF Stays
<1>2. submitted[x] \in Nat /\ Cardinality(DirectOf(evq, pc, x)) \in Nat
  BY <1>1, RoomIs
<1> QED BY <1>2

\* What a submission counts.
LEMMA SubmitStays ==
    ASSUME Inv, NEW i \in Inputs, Submit(i) \/ Redeliver(i)
    PROVE  Stays
<1>1. submitted \in [Contents -> Nat] /\ Content[i] \in Contents
  BY DEF Inv, Contents
<1>2. /\ evq' = evq /\ left' = left
      /\ \E v \in {"written", "failed"} : pc' = [pc EXCEPT ![i] = v]
  BY DEF Submit, Redeliver, Requeues, RequeueFails
<1>3. PICK v \in {"written", "failed"} : pc' = [pc EXCEPT ![i] = v]
  BY <1>2
<1>4. \E y \in {submitted[Content[i]], submitted[Content[i]] + 1} :
         submitted' = [submitted EXCEPT ![Content[i]] = y]
  <2>1. CASE Submit(i) BY <1>1, <2>1 DEF Submit
  <2>2. CASE Redeliver(i) BY <1>1, <2>2 DEF Redeliver
  <2> QED BY <2>1, <2>2
<1>5. \A x \in Contents : submitted'[x] \in Nat /\ submitted[x] <= submitted'[x]
  BY <1>1, <1>4
<1>6. v # "direct" BY <1>3
<1> QED BY <1>2, <1>3, <1>5, <1>6, CallStays

\* Each action keeps the invariant, and so does a step that changes nothing.
LEMMA NextInv == IndInv /\ [Next]_vars => IndInv'
<1> SUFFICES ASSUME Inv, LeftOK(left, pc, evq, submitted), [Next]_vars
             PROVE  Inv' /\ LeftOK(left', pc', evq', submitted')
  BY DEF IndInv
<1>0. ASSUME Inv', Stays PROVE LeftOK(left', pc', evq', submitted')
  <2>1. /\ evq \in Seq(Ins) /\ submitted \in [Contents -> Nat]
        /\ evq' \in Seq(Ins) /\ submitted' \in [Contents -> Nat]
    BY <1>0 DEF Inv, Sound
  <2>2. Spares(pc, evq, submitted, pc', evq', submitted') /\ left' = left
    BY <1>0 DEF Stays, Spares
  <2>3. LeftOK(left, pc', evq', submitted') BY <2>1, <2>2, LeftKept
  <2> QED BY <2>2, <2>3
<1>1. CASE QueuedEvent BY <1>0, <1>1, QueuedEventStep, SeenStays
<1>2. CASE RunStart
  <2>1. UNCHANGED <<left, evq, pc, submitted>> BY <1>2 DEF RunStart
  <2> QED BY <1>0, <1>2, <2>1, RunStartStep, OtherStays
<1>3. CASE Drain
  <2>1. UNCHANGED <<left, evq, pc, submitted>> BY <1>3 DEF Drain
  <2> QED BY <1>0, <1>3, <2>1, DrainStep, OtherStays
<1>4. CASE RunEnd
  <2>1. UNCHANGED <<left, evq, pc, submitted>> BY <1>4 DEF RunEnd
  <2> QED BY <1>0, <1>4, <2>1, RunEndStep, OtherStays
<1>5. CASE Crash
  <2>1. \E p, l : RestartedFrom(p, l) BY <1>5 DEF Crash
  <2> QED BY <1>0, <1>5, <2>1, CrashStep, RestartStays
<1>6. CASE CrashInEnd
  <2>1. \E p, l : RestartedFrom(p, l) BY <1>6 DEF CrashInEnd
  <2> QED BY <1>0, <1>6, <2>1, CrashInEndStep, RestartStays
<1>7. CASE Requeue BY <1>0, <1>7, RequeueStep, HandedBackStays
<1>8. ASSUME NEW i \in Inputs, Submit(i)
      PROVE  Inv' /\ LeftOK(left', pc', evq', submitted')
  BY <1>0, <1>8, SubmitStep, SubmitStays
<1>9. ASSUME NEW i \in Inputs, Handover(i)
      PROVE  Inv' /\ LeftOK(left', pc', evq', submitted')
  <2>1. /\ left' = left /\ submitted' = submitted /\ pc[i] = "written"
        /\ \/ evq' = Append(evq, Of(i)) /\ pc' = [pc EXCEPT ![i] = "acked"]
           \/ evq' = evq /\ pc' = [pc EXCEPT ![i] = "failed"]
    BY <1>9 DEF Handover
  <2>2. \A x \in Contents : submitted[x] \in Nat BY DEF Inv
  <2>3. CASE evq' = Append(evq, Of(i)) /\ pc' = [pc EXCEPT ![i] = "acked"]
    <3>1. PICK v : v = "acked" OBVIOUS
    <3>2. \A x \in Contents : submitted'[x]
             = submitted[x] + (IF v = "direct" /\ Content[i] = x THEN 1 ELSE 0)
      BY <2>1, <2>2, <3>1
    <3>3. Stays BY <2>1, <2>3, <3>1, <3>2, TakenStays
    <3> QED BY <1>0, <1>9, <3>3, HandoverStep
  <2>4. CASE evq' = evq /\ pc' = [pc EXCEPT ![i] = "failed"]
    <3>1. \A x \in Contents : submitted'[x] \in Nat /\ submitted[x] <= submitted'[x]
      BY <2>1, <2>2
    <3>2. PICK v : v = "failed" OBVIOUS
    <3>3. v # "direct" /\ evq' = evq /\ pc' = [pc EXCEPT ![i] = v] /\ left' = left
      BY <2>1, <2>4, <3>2
    <3>4. Stays BY ONLY Inv, i \in Inputs, <3>1, <3>3, CallStays
    <3> QED BY <1>0, <1>9, <3>4, HandoverStep
  <2> QED BY <2>1, <2>3, <2>4
<1>10. ASSUME NEW i \in Inputs, QueueAtAgent(i)
       PROVE  Inv' /\ LeftOK(left', pc', evq', submitted')
  <2>1. PICK v : v = "direct" OBVIOUS
  <2>2. /\ left' = left /\ pc[i] = "new" /\ evq' = Append(evq, Of(i))
        /\ pc' = [pc EXCEPT ![i] = v]
        /\ submitted' = [submitted EXCEPT ![Content[i]] = @ + 1]
    BY <1>10, <2>1 DEF QueueAtAgent
  <2>3. submitted \in [Contents -> Nat] /\ Content[i] \in Contents
    BY DEF Inv, Contents
  <2>4. \A x \in Contents : submitted'[x]
           = submitted[x] + (IF v = "direct" /\ Content[i] = x THEN 1 ELSE 0)
    BY <2>1, <2>2, <2>3, OneMore
  <2>6. \/ pc[i] = "written" /\ v = "acked"
        \/ pc[i] = "new" /\ v = "direct"
    BY <2>1, <2>2
  <2>7. evq' = Append(evq, Of(i)) /\ pc' = [pc EXCEPT ![i] = v] /\ left' = left
    BY <2>2
  <2>5. Stays BY ONLY Inv, i \in Inputs, <2>4, <2>6, <2>7, TakenStays
  <2> QED BY <1>0, <1>10, <2>5, QueueAtAgentStep
<1>11. ASSUME NEW i \in Inputs, Redeliver(i)
       PROVE  Inv' /\ LeftOK(left', pc', evq', submitted')
  BY <1>0, <1>11, RedeliverStep, SubmitStays
<1>12. ASSUME NEW q \in left \cup {path}, NEW n \in 0..Len(q), Rebase(q, n)
       PROVE  Inv' /\ LeftOK(left', pc', evq', submitted')
  BY <1>12, RebaseStep
<1>13. CASE UNCHANGED vars
  <2>1. Inv' BY <1>13 DEF Inv, vars
  <2>2. UNCHANGED <<left, evq, pc, submitted>> BY <1>13 DEF vars
  <2> QED BY <1>0, <2>1, <2>2, OtherStays
<1> QED BY <1>1, <1>2, <1>3, <1>4, <1>5, <1>6, <1>7, <1>8, <1>9, <1>10, <1>11,
           <1>12, <1>13 DEF Next

\* The inductive invariant holds of every behaviour.
LEMMA InvHolds == Spec => []Inv
<1>1. Init => IndInv
  <2>1. Init => LeftOK(left, pc, evq, submitted) BY DEF Init, LeftOK
  <2> QED BY <2>1, InitInv DEF IndInv
<1>2. IndInv => Inv BY DEF IndInv
<1> QED BY <1>1, <1>2, NextInv, PTL DEF Spec

\* The invariant's count of what was accepted is what AcceptedIsKept bounds.
LEMMA InvAccepted == Inv => AcceptedIsKept
<1> SUFFICES ASSUME Inv, ~warned, NEW x \in Contents
             PROVE  acked[x] <= Accounted(path)[x]
  BY DEF AcceptedIsKept
<1>1. /\ path \in Seq(Entries) /\ inbox \in Seq(BoxItems)
      /\ EntriesOK(path, inbox) /\ AckOK(path, inbox, pc, acked)
      /\ acked[x] \in Nat
  BY DEF Inv, Sound, Kept
<1> QED BY <1>1, AckAccounted

\* The invariant's count of what is on the path is what NotTwice bounds.
LEMMA InvNotTwice == Inv => NotTwice
<1> SUFFICES ASSUME Inv, NEW x \in Contents
             PROVE  Accounted(path)[x] <= submitted[x]
  BY DEF NotTwice
<1> DEFINE s == submitted[x] - Cardinality(DirectOf(evq, pc, x))
<1>1. /\ path \in Seq(Entries) /\ inbox \in Seq(BoxItems) /\ evq \in Seq(Ins)
      /\ submitted \in [Contents -> Nat] /\ FitsAll(path, inbox, x, s)
  BY DEF Inv, Sound, Fit
<1>2. s \in Int /\ submitted[x] \in Nat /\ s <= submitted[x]
  <2>1. submitted[x] \in Nat /\ Cardinality(DirectOf(evq, pc, x)) \in Nat
    BY <1>1, RoomIs
  <2> QED BY <2>1
<1> HIDE DEF s
<1>3. Accounted(path)[x] <= s BY <1>1, <1>2, FitsAccounted
<1>4. Accounted(path)[x] \in Int
  <2>1. Accounted(path)[x] \in Nat BY <1>1, AccountedIs
  <2> QED BY <2>1
<1> QED BY ONLY <1>2, <1>3, <1>4

\* The invariant relates each input to its own entry, and the queue to the
\* inbox.
LEMMA InvOwed == Inv => InboxIsOwed
<1> SUFFICES ASSUME Inv PROVE InboxIsOwed
  OBVIOUS
<1>1. EntriesOK(path, inbox) /\ QueueOK(inbox, pc, agq, evq)
  BY DEF Inv, Sound, BoxInv
<1>2. \A j \in DOMAIN agq :
         \/ \E m \in DOMAIN evq : evq[m].p = agq[j].p
         \/ \E m \in DOMAIN inbox : inbox[m].p = agq[j].p /\ inbox[m].held
  BY <1>1 DEF QueueOK, Unseen, HeldIn, Coming
<1> QED BY <1>1, <1>2 DEF InboxIsOwed, EntriesOK

\* An input whose acceptance the recorder acknowledged is on the path, as
\* an item or as an entry still owed, whatever calls, run ends, rewinds and
\* crashes come after, until a host declines it, rewinds to before it or is
\* told that a write failed.
THEOREM AcceptedKept == Spec => []AcceptedIsKept
<1> QED BY InvHolds, InvAccepted, PTL

\* No input is on the path more often than it was submitted, a return to a
\* branch left counting as a submission of what it writes there; each input
\* of the inbox has an entry of its own, and what the agent holds and has
\* reported is in the inbox.
THEOREM InboxExact == Spec => []InboxIsExact
<1>1. Inv => InboxIsExact BY InvNotTwice, InvOwed DEF InboxIsExact
<1> QED BY <1>1, InvHolds, PTL
=============================================================================
