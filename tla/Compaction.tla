----------------------------- MODULE Compaction -----------------------------
(***************************************************************************)
(* A transcript that outgrows its budget, and the record of what was sent  *)
(* in its place: compact.Transform, which folds the older part of the      *)
(* transcript into a summary and remembers one fold and one failed fold;   *)
(* the loop that builds each request through it under the quarantine; and  *)
(* the recorder's writer, which keeps the fold as a compaction entry and   *)
(* hashes a request only when the stored path rebuilds it.                 *)
(*                                                                         *)
(* One Transform serves the agent's own conversation, Main, and a          *)
(* conversation forked from it, Other, whose calls run beside Main's: the  *)
(* fold's own model call is made with the transform's lock let go.         *)
(*                                                                         *)
(* An item is [k, n, c, of]: its kind, its name, the call it makes or      *)
(* answers, and the items whose content it carries, which is itself for    *)
(* all but a summary.  Every item weighs one token, so an estimate is a    *)
(* length.  A hash of a prefix is the prefix.                              *)
(***************************************************************************)
EXTENDS Integers, Sequences, FiniteSets, SequencesExt, TLC

CONSTANT Plans
\* A plan bounds one behaviour: the options of the transform (keep, min,
\* budget, persons), whether a transform chained before it adds a reminder
\* (chained), how many items Main makes (items), and how often each thing
\* the program does not choose may happen.

ASSUME PlansAreBounded ==
    \A p \in Plans :
        /\ {p.keep, p.min, p.budget, p.persons, p.items} \subseteq Nat
        /\ {p.forks, p.quars, p.hooks, p.trims, p.asks, p.refusals, p.bad,
            p.fails, p.crashes, p.omits, p.reopens} \subseteq Nat
        /\ p.keep > 0
        /\ p.chained \in BOOLEAN

VARIABLES
    plan,   \* what is left of the plan
    tr,     \* tr[c]: the working transcript of conversation c
    made,   \* how many items were ever made
    quar,   \* quar[c]: the items c's agent has quarantined
    mem,    \* the remembered fold: prefixLen and prefixHash, prefixGen, output;
            \* history: whose generation it is, whether the output was sent on
            \* under another's, and what was quarantined when it was made
    next,   \* FoldNext asked the next call to fold
    fail,   \* the fold that failed: failLen and failHash, failTokens; history:
            \* whose it is
    call,   \* call[c]: where the building of c's request stands
    log,    \* the entries of the session's path
    wr,     \* the recorder's writer
    barred, \* history: items quarantined, over restarts that can know of it
    late,   \* late[c]: history: items quarantined while c's fold was being made
    torn    \* history: the writer holds a compaction it could not write

vars == <<plan, tr, made, quar, mem, next, fail, call, log, wr, barred, late,
          torn>>

Main == "main"
Other == "other"

-----------------------------------------------------------------------------
(* Items and requests. *)

Item(k, n, c) == [k |-> k, n |-> n, c |-> c, of |-> {n}]

\* What a chained transform adds behind the transcript.
Reminder == Item("reminder", 100, 0)

\* The items whose content s carries.
Content(s) == UNION {s[i].of : i \in DOMAIN s}

\* A function call output sent with a text in its place.
Placeholder(e) == [e EXCEPT !.k = "placeholder", !.of = {}]

IsOutput(e) == e.k \in {"output", "placeholder"}

\* quarantine.has: e is quarantined, or answers a quarantined call.
Has(q, e) == e.n \in q \/ (IsOutput(e) /\ e.c \in q)

\* What is left of s without the items drop names and the answers to its
\* calls, each output hide names sent as a placeholder.
Shaped(s, drop, hide) ==
    LET left == SelectSeq(s, LAMBDA e :
                    ~(e.n \in drop \/ (IsOutput(e) /\ e.c \in drop)))
    IN  [i \in DOMAIN left |->
            IF left[i].n \in hide THEN Placeholder(left[i]) ELSE left[i]]

Outputs(c) == {n \in quar[c] : \E i \in DOMAIN tr[c] :
                                  tr[c][i].n = n /\ IsOutput(tr[c][i])}

\* quarantine.apply
Apply(c, s) == Shaped(s, quar[c] \ Outputs(c), Outputs(c))

\* The generation a view of the quarantine reports: it grows by one with
\* each item, and a view is the live set.  Each agent counts its own.
Generation(c) == Cardinality(quar[c])

Held(c, e) == Has(quar[c], e)

\* The transcript the compact transform is given.
Given(c) == IF c = Main /\ plan.chained THEN Append(tr[c], Reminder) ELSE tr[c]

Prefix(s, n) == SubSeq(s, 1, n)
From(s, n) == SubSeq(s, n + 1, Len(s))

-----------------------------------------------------------------------------
(* compact.Transform *)

NoMem == [pre |-> <<>>, gen |-> 0, out |-> <<>>, by |-> Main, crossed |-> FALSE,
          without |-> {}]
NoFail == [pre |-> <<>>, tokens |-> 0, by |-> Main]

NeverSince(c) == FALSE

\* The quarantine has grown to reach the prefix the fold stands for.
QuarantinedSince(c) ==
    /\ Generation(c) # mem.gen
    /\ \E i \in DOMAIN mem.pre : Held(c, mem.pre[i])

\* view: the memory as a call with c's transcript leaves it, forgotten
\* when it is another transcript's or holds what is quarantined.
Viewed(c) ==
    IF mem.pre # <<>> /\ IsPrefix(mem.pre, Given(c)) /\ ~QuarantinedSince(c)
        THEN IF Generation(c) = mem.gen
                 THEN [mem EXCEPT !.crossed = @ \/ (mem.by # c /\ quar[c] # {})]
                 ELSE [mem EXCEPT !.gen = Generation(c), !.by = c, !.crossed = FALSE]
        ELSE NoMem

\* join: a fold's output followed by the items after its prefix.
Join(m, s) == m.out \o From(s, Len(m.pre))

\* split: keepLast items from the end, moved earlier so that no output in
\* the kept tail leaves its call behind.
Split(s) ==
    LET together(n) ==
            \A i \in (n + 1)..Len(s), j \in 1..n :
                ~(IsOutput(s[i]) /\ s[j].k = "call" /\ s[j].c = s[i].c)
        cuts == {n \in 0..Len(s) : n <= Len(s) - plan.keep /\ together(n)}
    IN  IF cuts = {} THEN 0 ELSE Max(cuts)

\* backOff: s still opens with the prefix whose fold failed, and has not
\* grown enough to ask again.
BackOff(s, split, tokens) ==
    /\ fail.pre # <<>>
    /\ IsPrefix(fail.pre, s)
    /\ split < Len(fail.pre) + plan.keep
    /\ tokens < fail.tokens + Max({plan.budget \div 4, 1})

FoldInputAlone(c, m, split) ==
    Apply(c, SubSeq(Given(c), Len(m.pre) + 1, split))

\* What is sent to be folded: the previous fold's output and the items
\* after it, less what the quarantine leaves out.
FoldInput(c, m, split) ==
    m.out \o Apply(c, SubSeq(Given(c), Len(m.pre) + 1, split))

\* The summary of input, from the fold's model call.
Summary(input) == [k |-> "summary", n |-> 0, c |-> 0, of |-> Content(input)]

\* pinned: the newest of the person's own messages in the prefix, as many
\* as the person total lets through, in their order.
Pinned(pre) ==
    LET total == Min({plan.persons, plan.budget \div 2})
        own == SelectSeq(pre, LAMBDA e : e.k = "user")
    IN  From(own, Max({Len(own) - total, 0}))

-----------------------------------------------------------------------------
(* The stored path, as agentsession reads it. *)

NoOmit == [items |-> {}, outs |-> {}]

\* The position of the last entry of path of this type, or 0.
LastOf(path, type) ==
    LET at == {i \in DOMAIN path : path[i].t = type}
    IN  IF at = {} THEN 0 ELSE Max(at)

\* The omit setting in force at the end of path.
OmitAt(path) ==
    LET p == LastOf(path, "config")
    IN  IF p = 0 THEN NoOmit ELSE path[p].omit

\* The summary and pins of the last compaction on path.
HeadAt(path) ==
    LET p == LastOf(path, "fold") IN IF p = 0 THEN <<>> ELSE path[p].head

\* The items on path from the last compaction's first kept one.
ItemsAt(path) ==
    LET entries == SelectSeq(path, LAMBDA e : e.t = "item")
        all == [i \in DOMAIN entries |-> entries[i].e]
        p == LastOf(path, "fold")
    IN  IF p = 0 THEN all
        ELSE From(all, (CHOOSE i \in DOMAIN all : all[i].n = path[p].first) - 1)

\* The input path rebuilds for the next request.
ContextAt(path) ==
    HeadAt(path) \o Shaped(ItemsAt(path), OmitAt(path).items, OmitAt(path).outs)

\* Some omit setting has path rebuild sent.
Describable(path, sent) ==
    LET items == ItemsAt(path)
        drop == {items[i].n : i \in DOMAIN items}
                    \ {sent[i].n : i \in DOMAIN sent}
        hide == {sent[i].n : i \in {j \in DOMAIN sent : sent[j].k = "placeholder"}}
    IN  sent = HeadAt(path) \o Shaped(items, drop, hide)

-----------------------------------------------------------------------------
(* The writer. *)

\* values are the items it wrote, the first folded of them a compaction's
\* the path was seeded with, and the first read of them decoded from the
\* path beside the agent's own; fold is the last it recorded, from its split
\* on; settle is the omit setting held since turn_start, pending whether
\* the request in flight has a hash.
NewWriter == [values |-> <<>>, folded |-> 0, read |-> 0, split |-> 0, head |-> <<>>,
              omit |-> NoOmit, wrote |-> FALSE, held |-> FALSE,
              settle |-> NoOmit, pending |-> FALSE]

Kept(w) == From(w.values, w.split)

\* How many of the items kept are a compaction's, which no omit reaches.
KeptFolded(w) == Max({w.folded - w.split, 0})

\* rebuild: the input the path rebuilds under omit, as the writer knows it.
Rebuild(w, omit) ==
    w.head \o Prefix(Kept(w), KeptFolded(w))
           \o Shaped(From(Kept(w), KeptFolded(w)), omit.items, omit.outs)

\* describeOver: base with the items kept that were not sent left out, and
\* the outputs sent as a text.
DescribeOver(w, sent, base) ==
    LET reached == From(Kept(w), KeptFolded(w))
        names == {reached[i].n : i \in DOMAIN reached}
    IN  [items |-> base.items \cup (names \ {sent[i].n : i \in DOMAIN sent}),
         outs |-> base.outs \cup
            {sent[i].n : i \in {j \in DOMAIN sent :
                                    sent[j].k = "placeholder" /\ sent[j].n \in names}}]

\* quarantineOver: base with every item the writer holds that q, the
\* quarantine, holds.
QuarantineOver(w, base, q) ==
    LET at == {i \in DOMAIN w.values : i > w.folded}
        outs == {w.values[i].n : i \in {j \in at : /\ IsOutput(w.values[j])
                                                   /\ w.values[j].n \in q
                                                   /\ w.values[j].c \notin q}}
        held == {w.values[i].n : i \in {j \in at : Has(q, w.values[j])}}
    IN  [items |-> base.items \cup (held \ outs), outs |-> base.outs \cup outs]

\* hash: whether the request has one, and the omit setting its settle
\* writes.
Hash(w, sent) ==
    LET over == DescribeOver(w, sent, w.omit)
        afresh == DescribeOver(w, sent, NoOmit)
    IN  CASE Rebuild(w, w.omit) = sent -> [ok |-> TRUE, omit |-> w.omit]
          [] Rebuild(w, w.omit) # sent /\ Rebuild(w, over) = sent ->
                [ok |-> TRUE, omit |-> over]
          [] Rebuild(w, w.omit) # sent /\ Rebuild(w, over) # sent
                /\ Rebuild(w, afresh) = sent -> [ok |-> TRUE, omit |-> afresh]
          [] OTHER -> [ok |-> FALSE, omit |-> QuarantineOver(w, w.omit, quar[Main])]

HoldInForce(w, sent) ==
    LET h == Hash(w, sent)
    IN  [w EXCEPT !.held = TRUE, !.settle = w.omit, !.pending = h.ok]

\* turnStart, retry: the settle is held until an entry is written.
Hold(w, sent) ==
    LET h == Hash(w, sent)
    IN  [w EXCEPT !.held = TRUE, !.settle = h.omit, !.pending = h.ok]

Config(omit) == [t |-> "config", omit |-> omit]

\* settle: the writer with omit in force, and the entry that puts it there
\* when it moved or is the first.  The other settings are not told apart.
Settle(w, omit) ==
    [w |-> [w EXCEPT !.omit = omit, !.wrote = TRUE, !.held = FALSE],
     log |-> IF ~w.wrote \/ omit # w.omit THEN <<Config(omit)>> ELSE <<>>]

\* runStart: the settings are written before the first item under them.
Started(w) == IF w.wrote THEN [w |-> w, log |-> <<>>] ELSE Settle(w, w.omit)

\* flush: the settle held since turn_start, if any.
Flush(w) == IF w.held THEN Settle(w, w.settle) ELSE [w |-> w, log |-> <<>>]

\* recordQuarantine: what q holds, when the omit in force does not say it.
RecordQuarantine(w, q) ==
    IF w.wrote THEN Settle(w, QuarantineOver(w, w.omit, q))
               ELSE [w |-> w, log |-> <<>>]

\* The writer writes entries, of items, after what it held and, for a run
\* that ends, before what it quarantined.
Write(entries, items, ends) ==
    LET f == Flush(wr)
        w == [f.w EXCEPT !.values = @ \o items, !.pending = FALSE]
        r == IF ends THEN RecordQuarantine(w, quar[Main]) ELSE [w |-> w, log |-> <<>>]
    IN  /\ log' = log \o f.log \o entries \o r.log
        /\ wr' = r.w

ItemEntries(items) == [i \in DOMAIN items |-> [t |-> "item", e |-> items[i]]]

\* The response entry of the call in flight, after the items it produced.
\* exempt is history: HashIsExact is known not to hold of it.
Response(sent, items, ok) ==
    [t |-> "response", hash |-> ok, sent |-> sent, outs |-> Len(items),
     exempt |-> torn \/ call[Main].overtaken]

\* foldSplitOf: the place of the first kept item among the items written:
\* the fold's own index, or the one place the item is at, or -1.  It is
\* the item itself that is looked for, and not one decoded to the same.
FoldSplitOf(w, split, first) ==
    LET at == {i \in DOMAIN w.values : i > w.read /\ w.values[i] = first}
    IN  IF split + 1 \in at THEN split
        ELSE IF Cardinality(at) = 1 THEN (CHOOSE i \in at : TRUE) - 1 ELSE -1

-----------------------------------------------------------------------------
(* The loop. *)

Idle == [at |-> "rest", out |-> <<>>, split |-> 0, input |-> <<>>,
         prev |-> <<>>, tokens |-> 0, forced |-> FALSE, again |-> TRUE,
         retry |-> FALSE, sent |-> <<>>, spared |-> {}, overtaken |-> FALSE,
         crossed |-> FALSE, without |-> {}, displaced |-> FALSE]

Init ==
    /\ plan \in Plans
    /\ tr = [c \in {Main, Other} |-> <<>>]
    /\ made = 0
    /\ quar = [c \in {Main, Other} |-> {}]
    /\ mem = NoMem
    /\ next = FALSE
    /\ fail = NoFail
    /\ call = [c \in {Main, Other} |-> Idle]
    /\ log = <<>>
    /\ wr = NewWriter
    /\ barred = {}
    /\ late = [c \in {Main, Other} |-> {}]
    /\ torn = FALSE

Left(field) == plan[field] > 0
Use(field) == plan' = [plan EXCEPT ![field] = @ - 1]

At(c, at) == call[c].at = at
Go(c, at) == call' = [call EXCEPT ![c].at = at]

\* A person's message starts a run of the agent.
Prompt ==
    /\ At(Main, "rest")
    /\ made < plan.items
    /\ made' = made + 1
    /\ LET new == <<Item("user", made', 0)>>
           s == Started(wr)
       IN  /\ tr' = [tr EXCEPT ![Main] = @ \o new]
           /\ log' = log \o s.log \o ItemEntries(new)
           /\ wr' = [s.w EXCEPT !.values = @ \o new]
    /\ call' = [call EXCEPT ![Main] = [Idle EXCEPT !.at = "build"]]
    /\ UNCHANGED <<plan, quar, mem, next, fail, barred, late, torn>>

\* A run begins on a copy of the agent's transcript, with the same
\* transform and a quarantine of its own.
Fork ==
    /\ Left("forks")
    /\ Use("forks")
    /\ At(Other, "rest")
    /\ made' = made + 1
    /\ tr' = [tr EXCEPT ![Other] = Append(tr[Main], Item("user", made', 0))]
    /\ call' = [call EXCEPT ![Other] = [Idle EXCEPT !.at = "build"]]
    /\ quar' = [quar EXCEPT ![Other] = {}]
    /\ late' = [late EXCEPT ![Other] = {}]
    /\ UNCHANGED <<mem, next, fail, log, wr, barred, torn>>

\* Transform, until it answers or lets the lock go to make a fold.
Transform(c) ==
    LET s == Given(c)
        forced == next \/ call[c].retry
        m == Viewed(c)
        view == Join(m, s)
        split == Split(s)
        input == FoldInput(c, m, split)
        folds == /\ Len(view) > plan.budget \/ forced
                 /\ split > Len(m.pre)
                 /\ forced \/ ~BackOff(s, split, Len(view))
                 /\ Len(input) > 0 /\ Len(input) >= plan.min
    IN  /\ At(c, "build")
        /\ next' = FALSE
        /\ mem' = m
        /\ call' = [call EXCEPT ![c] =
                [@ EXCEPT !.at = IF folds THEN "folding" ELSE "built",
                          !.out = view, !.split = split, !.input = input,
                          !.prev = m.pre, !.tokens = Len(view),
                          !.forced = forced, !.spared = {},
                          !.crossed = m.crossed, !.without = m.without,
                          !.displaced = fail.by # c]]
        /\ UNCHANGED <<plan, tr, made, quar, fail, log, wr, barred, late, torn>>

\* The fold was made: it is remembered and answers the call, unless the
\* memory moved meanwhile, which then stands and answers it.
FoldMade(c) ==
    LET s == Given(c)
        pre == Prefix(s, call[c].split)
        moved == mem.pre # call[c].prev
        m == IF moved THEN Viewed(c)
             ELSE [pre |-> pre, gen |-> Generation(c),
                   out |-> <<Summary(call[c].input)>> \o Pinned(pre),
                   by |-> c, crossed |-> call[c].crossed,
                   without |-> call[c].without \cup quar[c]]
    IN  /\ At(c, "folding")
        /\ mem' = m
        /\ call' = [call EXCEPT ![c].at = IF moved THEN "built" ELSE "folded",
                                ![c].out = Join(m, s), ![c].crossed = m.crossed,
                                ![c].without = m.without]
        /\ UNCHANGED <<plan, tr, made, quar, next, fail, log, wr, barred, late, torn>>

\* The recorder's Fold for a fold that was applied: fold, then the
\* compaction entry naming the first kept item, or the record that the
\* path cannot place it.  A compaction that is not written fails the
\* transform, and so the run.
ReportFold ==
    LET s == Given(Main)
        split == call[Main].split
        first == s[split + 1]
        at == FoldSplitOf(wr, split, first)
        head == Prefix(call[Main].out, Len(call[Main].out) - (Len(s) - split))
        entry == [t |-> "fold", first |-> wr.values[at + 1].n, head |-> head]
    IN  /\ At(Main, "folded")
        /\ \/ /\ at < 0
              /\ log' = Append(log, [t |-> "unplaced"])
              /\ Go(Main, "built")
              /\ UNCHANGED <<plan, wr, torn>>
           \/ /\ at >= 0
              /\ log' = Append(log, entry)
              /\ wr' = [wr EXCEPT !.split = at, !.head = head]
              /\ call' = [call EXCEPT ![Main].at = "built",
                                      ![Main].overtaken = wr.held]
              /\ UNCHANGED <<plan, torn>>
           \/ /\ at >= 0
              /\ Left("fails")
              /\ Use("fails")
              /\ wr' = [wr EXCEPT !.split = at, !.head = head]
              /\ torn' = TRUE
              /\ Go(Main, "failed")
              /\ UNCHANGED log
    /\ UNCHANGED <<tr, made, quar, mem, next, fail, barred, late>>

\* Another conversation's fold is reported to its own session.
ReportOther ==
    /\ At(Other, "folded")
    /\ Go(Other, "built")
    /\ UNCHANGED <<plan, tr, made, quar, mem, next, fail, log, wr, barred, late, torn>>

\* The fold failed with nothing to send in the prefix's place, twice: it is
\* reported, then remembered, and the transcript is sent unfolded.
FoldUseless(c) ==
    LET failed == [pre |-> Prefix(Given(c), call[c].split),
                   tokens |-> call[c].tokens, by |-> c]
    IN  /\ At(c, "folding")
        /\ Left("bad")
        /\ Use("bad")
        /\ fail' = failed
        /\ log' = IF c = Main THEN Append(log, [t |-> "failed"] @@ failed) ELSE log
        /\ Go(c, "built")
        /\ UNCHANGED <<tr, made, quar, mem, next, wr, barred, late, torn>>

\* The fold's call failed, or was cut off: reported without its prefix,
\* and the run fails.
FoldFails(c) ==
    /\ At(c, "folding")
    /\ Left("bad")
    /\ Use("bad")
    /\ Go(c, "failed")
    /\ UNCHANGED <<tr, made, quar, mem, next, fail, log, wr, barred, late, torn>>

\* foldedAway: an item the quarantine holds is not among what the
\* transform returned.
FoldedAway(q, out) ==
    \E i \in DOMAIN tr[Main] :
        /\ Has(q, tr[Main][i])
        /\ tr[Main][i] \notin Range(out)

\* quarantine.add
Add(c, n) ==
    /\ n > 0 /\ n \notin quar[c]
    /\ quar' = [quar EXCEPT ![c] = @ \cup {n}]
    /\ barred' = IF c = Main THEN barred \cup {n} ELSE barred

\* BeforeModelCall quarantines an item of the transcript: the request is
\* built once more when the item may be in what the transform returned.
Hook ==
    /\ At(Main, "built")
    /\ Left("hooks")
    /\ Use("hooks")
    /\ \E i \in DOMAIN tr[Main] :
        LET n == tr[Main][i].n
        IN  /\ Add(Main, n)
            /\ call' = [call EXCEPT ![Main] =
                    IF call[Main].again /\ FoldedAway(quar'[Main], call[Main].out)
                        THEN [@ EXCEPT !.at = "build", !.again = FALSE]
                        ELSE [@ EXCEPT !.spared = @ \cup {n}]]
    /\ UNCHANGED <<tr, made, mem, next, fail, log, wr, late, torn>>

\* BeforeModelCall refuses the request: blocked.  A guard's refusal is no
\* response.
Blocked ==
    LET sent == Apply(Main, call[Main].out)
        f == Flush(wr)
        h == Hash(f.w, sent)
        b == Settle(f.w, h.omit)
        r == RecordQuarantine([b.w EXCEPT !.pending = FALSE], quar[Main])
    IN  /\ At(Main, "built")
        /\ Left("refusals")
        /\ Use("refusals")
        /\ \E guard \in BOOLEAN :
            log' = log \o f.log \o b.log
                       \o (IF guard THEN <<>> ELSE <<Response(sent, <<>>, h.ok)>>)
                       \o r.log
        /\ wr' = r.w
        /\ Go(Main, "rest")
        /\ UNCHANGED <<tr, made, quar, mem, next, fail, barred, late, torn>>

\* The request goes out: turn_start, or model_retry for one rebuilt after
\* the server refused it, which is never sent again unchanged.
Send(c) ==
    LET sent == Apply(c, call[c].out)
        same == call[c].retry /\ sent = call[c].sent
    IN  /\ At(c, "built")
        /\ call' = [call EXCEPT ![c].at = IF same THEN "failed" ELSE "sent",
                                ![c].sent = sent,
                                ![c].overtaken = @ /\ same]
        /\ wr' = IF c = Main /\ ~same THEN Hold(wr, sent) ELSE wr
        /\ UNCHANGED <<plan, tr, made, quar, mem, next, fail, log, barred, late, torn>>

\* The model answers, with a text that ends the run or with a call whose
\* output the loop appends before it asks again.
Answer(c) ==
    /\ At(c, "sent")
    /\ made < plan.items
    /\ \E calls \in BOOLEAN :
        LET text == <<Item("text", made + 1, 0)>>
            fc == <<Item("call", made + 1, made + 1)>>
            out == <<Item("output", made + 2, made + 1)>>
            items == IF calls THEN fc ELSE text
            all == IF calls THEN fc \o out ELSE text
            entries == Append(ItemEntries(items),
                              Response(call[c].sent, items, wr.pending))
                       \o IF calls THEN ItemEntries(out) ELSE <<>>
        IN  /\ tr' = [tr EXCEPT ![c] = @ \o all]
            /\ made' = made + Len(all)
            /\ call' = [call EXCEPT ![c] =
                        [Idle EXCEPT !.at = IF calls THEN "build" ELSE "rest"]]
            /\ IF c = Main THEN Write(entries, all, ~calls)
                           ELSE UNCHANGED <<log, wr>>
    /\ UNCHANGED <<plan, quar, mem, next, fail, barred, late, torn>>

\* The server refuses the request as longer than the model's window: it is
\* rebuilt once, with a fold asked for.
Overflow(c) ==
    /\ At(c, "sent")
    /\ Left("refusals")
    /\ Use("refusals")
    /\ call' = [call EXCEPT ![c].at = IF call[c].retry THEN "failed" ELSE "build",
                            ![c].retry = TRUE, ![c].again = TRUE]
    /\ UNCHANGED <<tr, made, quar, mem, next, fail, log, wr, barred, late, torn>>

\* The call fails otherwise, past the retries of the policy.
ModelFails(c) ==
    /\ At(c, "sent")
    /\ Left("refusals")
    /\ Use("refusals")
    /\ Go(c, "failed")
    /\ UNCHANGED <<tr, made, quar, mem, next, fail, log, wr, barred, late, torn>>

\* The run ends with an error: runEnd, and before it endInFlight, which
\* writes the call in flight as a failed response.
RunFails(c) ==
    /\ At(c, "failed")
    /\ IF c # Main THEN UNCHANGED <<log, wr>>
       ELSE Write(IF wr.held THEN <<Response(call[c].sent, <<>>, wr.pending)>> ELSE <<>>,
                  <<>>, TRUE)
    /\ Go(c, "rest")
    /\ UNCHANGED <<plan, tr, made, quar, mem, next, fail, barred, late, torn>>

-----------------------------------------------------------------------------
(* The host. *)

\* FoldNext
FoldNext ==
    /\ Left("asks")
    /\ Use("asks")
    /\ next' = TRUE
    /\ UNCHANGED <<tr, made, quar, mem, fail, call, log, wr, barred, late, torn>>

\* Agent.Quarantine, from any goroutine: recorded at once when no run is
\* active, and by the run's next request or its end otherwise.
Quarantine(c) ==
    /\ Left("quars")
    /\ Use("quars")
    /\ \E i \in DOMAIN tr[c] :
        LET n == tr[c][i].n
        IN  /\ Add(c, n)
            /\ late' = [late EXCEPT ![c] = IF At(c, "folding") THEN @ \cup {n} ELSE @]
            /\ call' = [call EXCEPT ![c].spared = @ \cup {n}]
    /\ LET r == RecordQuarantine(wr, quar'[Main])
       IN  IF c = Main /\ At(Main, "rest") THEN log' = log \o r.log /\ wr' = r.w
                                           ELSE UNCHANGED <<log, wr>>
    /\ UNCHANGED <<tr, made, mem, next, fail, torn>>

\* Agent.SetTranscript between runs: the host trims a message.
Trim ==
    /\ At(Main, "rest")
    /\ Left("trims")
    /\ Use("trims")
    /\ \E i \in DOMAIN tr[Main] :
        /\ tr[Main][i].k \in {"user", "text"}
        /\ tr' = [tr EXCEPT ![Main] = RemoveAt(@, i)]
    /\ UNCHANGED <<made, quar, mem, next, fail, call, log, wr, barred, late, torn>>

\* Omit: the host names an item that requests are to leave out from here
\* on, trimmed or not, while no model call is in flight.
Omit ==
    /\ Left("omits")
    /\ Use("omits")
    /\ ~wr.held
    /\ \E i \in DOMAIN wr.values :
        LET n == wr.values[i].n
            omit == [wr.omit EXCEPT !.items = @ \cup {n}]
        IN  /\ i > Max({wr.split, wr.folded})
            /\ n \notin wr.omit.items
            /\ wr' = [wr EXCEPT !.omit = omit]
            /\ log' = Append(log, Config(omit))
    /\ UNCHANGED <<tr, made, quar, mem, next, fail, call, barred, late, torn>>

\* LastFailedFold: the last failed fold on the path that names its prefix.
FailedFold(path) ==
    LET p == LastOf(path, "failed")
    IN  IF p = 0 THEN NoFail
        ELSE [pre |-> path[p].pre, tokens |-> path[p].tokens, by |-> Main]

\* seedCompact, CompactOptions: what the new transform backs off from.
NothingSeeded(path) == NoFail

SeedCompact(path) == FailedFold(path)

\* seed: the writer at the path's leaf, with the items omit leaves out.
Seed(path) ==
    [NewWriter EXCEPT !.values = HeadAt(path) \o ItemsAt(path),
                      !.folded = Len(HeadAt(path)),
                      !.omit = OmitAt(path),
                      !.wrote = LastOf(path, "config") > 0]

\* The items the record says are left out, which its context still holds.
Recorded(path) ==
    {ItemsAt(path)[i].n : i \in DOMAIN ItemsAt(path)}
        \cap (OmitAt(path).items \cup OmitAt(path).outs)

\* The process dies and another resumes the session: its agent holds the
\* context at the leaf, its transform nothing but the fold that failed.
CrashAndResume ==
    /\ Left("crashes")
    /\ Use("crashes")
    /\ tr' = [c \in {Main, Other} |-> IF c = Main THEN ContextAt(log) ELSE <<>>]
    /\ quar' = [c \in {Main, Other} |-> {}]
    /\ mem' = NoMem
    /\ next' = FALSE
    /\ fail' = SeedCompact(log)
    /\ call' = [c \in {Main, Other} |-> Idle]
    /\ wr' = Seed(log)
    /\ late' = [c \in {Main, Other} |-> {}]
    /\ torn' = FALSE
    /\ barred' = barred \cap Recorded(log)
    /\ UNCHANGED <<made, log>>

\* quarantinedIn, bindQuarantine: the items of t that the writer wrote and
\* the omit in force leaves out, or sends as a placeholder.
QuarantinedIn(w, t) ==
    {w.values[j].n : j \in {i \in DOMAIN w.values : /\ i > w.folded
                                                   /\ w.values[i] \in Range(t)}}
        \cap (w.omit.items \cup w.omit.outs)

\* Attach, by a process that was started again between two runs: its agent
\* holds the conversation whole, from a store kept beside the record, and
\* what the record says is quarantined is quarantined in it.
Reopen ==
    /\ At(Main, "rest")
    /\ Left("reopens")
    /\ Use("reopens")
    /\ wr' = [Seed(log) EXCEPT !.read = Len(Seed(log).values)]
    /\ quar' = [c \in {Main, Other} |->
                   IF c = Main THEN QuarantinedIn(wr', tr[Main]) ELSE {}]
    /\ barred' = barred \cap Recorded(log)
    /\ tr' = [tr EXCEPT ![Other] = <<>>]
    /\ mem' = NoMem
    /\ next' = FALSE
    /\ fail' = SeedCompact(log)
    /\ call' = [c \in {Main, Other} |-> Idle]
    /\ late' = [c \in {Main, Other} |-> {}]
    /\ torn' = FALSE
    /\ UNCHANGED <<made, log>>

-----------------------------------------------------------------------------

Next ==
    \/ Prompt \/ Fork
    \/ \E c \in {Main, Other} :
        \/ Transform(c) \/ FoldMade(c) \/ FoldUseless(c) \/ FoldFails(c)
        \/ Send(c) \/ Answer(c) \/ Overflow(c)
        \/ ModelFails(c) \/ RunFails(c) \/ Quarantine(c)
    \/ ReportFold \/ ReportOther \/ Hook \/ Blocked
    \/ FoldNext \/ Trim \/ Omit \/ CrashAndResume \/ Reopen

Spec == Init /\ [][Next]_vars

-----------------------------------------------------------------------------
(* Properties. *)

\* What a request carries is its own transcript, whole: nothing of another
\* conversation, and every item of this one that is not quarantined, by it
\* or by the conversation that made the fold it sends, verbatim or in a
\* summary, however often the transcript was folded, by whichever caller;
\* and no output goes without its call.
SentIsWhole ==
    \A c \in {Main, Other} : At(c, "sent") =>
        LET s == Given(c)
            sent == call[c].sent
            missing == {i \in DOMAIN s : ~(s[i].of \subseteq Content(sent))}
        IN  /\ Content(sent) \subseteq Content(s)
            /\ \A i \in missing : \E j \in DOMAIN s :
                    /\ Has(quar[c] \cup call[c].without, s[j])
                    /\ s[i].of \subseteq s[j].of
            /\ \A i \in DOMAIN sent : IsOutput(sent[i]) =>
                    \E j \in 1..(i - 1) : sent[j].k = "call" /\ sent[j].c = sent[i].c

\* Neither the summary request nor the request of a conversation carries,
\* in a summary or out of it, an item that it had quarantined before the
\* request was built: a fold that read the item, this conversation's or
\* another's, is not sent again, but made again without it.  Left out: an
\* item quarantined while a fold of it was being made, the person's messages
\* a fold keeps, and a fold last checked against the other conversation's
\* quarantine when both had grown to the same count, which prefixGen does
\* not tell apart.
QuarantineReachesFold ==
    \A c \in {Main, Other} :
        LET all == quar[c] \cup IF c = Main THEN barred ELSE {}
            firm == all \ (late[c] \cup call[c].spared)
            none(s) == plan.persons = 0 /\ ~call[c].crossed =>
                            Content(s) \cap firm = {}
        IN  /\ At(c, "folding") => none(call[c].input)
            /\ At(c, "sent") => none(call[c].sent)

\* A response carries a request hash only when the path before it rebuilds
\* the request that was sent, item for item, through every fold, trim,
\* quarantine and resume; and it goes without one only when no omit setting
\* would have the path rebuild it.  Left out: after a compaction could not
\* be written, and a call refused as too long whose run ends between the
\* fold made for its retry and the retry.
HashIsExact ==
    LET p == LastOf(log, "response")
        before == Prefix(log, p - 1 - log[p].outs)
    IN  (p > 0 /\ ~log[p].exempt) =>
            IF log[p].hash THEN log[p].sent = ContextAt(before)
            ELSE ~Describable(before, log[p].sent)

\* A fold nobody asked for is not asked about again, in this process or in
\* one that resumes the session, while the transcript opens with the
\* prefix whose fold failed and has not grown.  Left out: when the one
\* failed fold the transform remembers is another conversation's.
BackOffIsKept ==
    LET f == FailedFold(log)
        s == Given(Main)
    IN  (/\ At(Main, "folding") /\ ~call[Main].forced /\ ~call[Main].displaced
         /\ f.pre # <<>> /\ IsPrefix(f.pre, s)) =>
            \/ call[Main].split >= Len(f.pre) + plan.keep
            \/ call[Main].tokens >= f.tokens + Max({plan.budget \div 4, 1})

=============================================================================
