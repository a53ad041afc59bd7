---------------------------- MODULE MCCompaction ----------------------------
(* Small plans for the compaction model. *)
EXTENDS Compaction

\* Two folds of a transcript of eight items, and nothing else.
Nothing == [keep |-> 1, min |-> 2, budget |-> 3, persons |-> 0, items |-> 8,
            chained |-> FALSE, forks |-> 0, quars |-> 0, hooks |-> 0,
            trims |-> 0, omits |-> 0, reopens |-> 0, asks |-> 0, refusals |-> 0, bad |-> 0, fails |-> 0,
            crashes |-> 0]

\* Two folds within six items.
Tight == [Nothing EXCEPT !.budget = 2, !.items = 6]

PlansValue ==
    {\* another conversation folds with the same transform
     [Nothing EXCEPT !.forks = 1, !.persons = 1, !.bad = 1],
     [Tight EXCEPT !.keep = 2, !.min = 1, !.forks = 1, !.bad = 2, !.trims = 2],
     [Tight EXCEPT !.items = 4, !.forks = 1, !.quars = 2],
     \* the host and a guard quarantine what was folded
     [Tight EXCEPT !.quars = 2],
     [Tight EXCEPT !.quars = 1, !.hooks = 1, !.bad = 1],
     \* the server refuses a request as too long
     [Nothing EXCEPT !.items = 6, !.min = 1, !.hooks = 1, !.refusals = 2],
     [Nothing EXCEPT !.fails = 1, !.asks = 1, !.refusals = 1],
     \* the process dies and the session is resumed
     [Nothing EXCEPT !.trims = 1, !.crashes = 1, !.quars = 1, !.persons = 1],
     [Nothing EXCEPT !.bad = 2, !.crashes = 1, !.asks = 1],
     [Tight EXCEPT !.keep = 2, !.bad = 2, !.crashes = 1, !.trims = 1],
     \* another starts on the conversation kept whole beside the record
     [Tight EXCEPT !.quars = 1, !.reopens = 1, !.omits = 1],
     [Tight EXCEPT !.bad = 1, !.reopens = 1, !.trims = 1],
     \* the recorder and the transform count other items
     [Nothing EXCEPT !.chained = TRUE, !.crashes = 1],
     [Nothing EXCEPT !.keep = 2, !.trims = 1, !.omits = 1, !.asks = 1]}
=============================================================================
