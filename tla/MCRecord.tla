----------------------------- MODULE MCRecord -----------------------------
(***************************************************************************)
(* Model-checking instances of Record.                                     *)
(***************************************************************************)
EXTENDS Record

\* The first call's tool may not run twice, the second's tells repeats.
NeverThenKeyed == [c \in Calls |-> IF c = 1 THEN "never" ELSE "keyed"]

Bound(calls, ds, args, runs, crashes, fails, rebases, refusals, asks) ==
    [calls |-> calls, decisions |-> ds, args |-> args, runs |-> runs,
     crashes |-> crashes, fails |-> fails, rebases |-> rebases,
     refusals |-> refusals, asks |-> asks]

\* One call with every fault, save a failed write where a hook rewrites
\* arguments; two calls with fewer faults; and tools that ask.
Faults == {Bound({1}, HookDecisions, {0}, 4, 1, 1, 1, 0, 0),
           Bound({2}, HookDecisions, {0}, 4, 1, 1, 1, 0, 0),
           Bound({2}, HookDecisions, {0, 1}, 3, 1, 0, 1, 0, 0),
           Bound({2}, {"none", "defer", "refuse"}, {0}, 3, 1, 0, 0, 1, 0),
           Bound({1, 2}, {"none", "block"}, {0}, 2, 1, 0, 0, 0, 0),
           Bound({1, 2}, {"none", "refuse"}, {0}, 2, 1, 1, 0, 0, 0),
           Bound({1, 2}, {"none", "defer"}, {0}, 2, 1, 0, 1, 0, 0),
           Bound({2}, {"none"}, {0}, 3, 2, 1, 0, 0, 3),
           Bound({2}, {"none"}, {0}, 3, 1, 0, 1, 0, 2),
           Bound({1}, {"none", "block"}, {0}, 3, 0, 0, 2, 0, 0),
           Bound({2}, {"none", "block", "defer"}, {0}, 3, 0, 1, 2, 0, 0),
           Bound({1, 2}, {"none"}, {0}, 2, 1, 0, 0, 0, 2)}
============================================================================
