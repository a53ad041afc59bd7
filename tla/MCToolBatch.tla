---------------------------- MODULE MCToolBatch ----------------------------
(***************************************************************************)
(* Model-checking instances of ToolBatch.                                  *)
(***************************************************************************)
EXTENDS ToolBatch

Plan(n, apart, replay, edits, runs, deaths) ==
    [n |-> n, apart |-> apart, replay |-> replay, edits |-> edits,
     runs |-> runs, crashes |-> deaths]

Alone == [c \in 1..1 |-> {}]
OneChain == [c \in 1..2 |-> (1..2) \ {c}]
LastBarrier == [c \in 1..3 |-> IF c = 3 THEN 1..2 ELSE {3}]

\* One call, whose tool may not run twice or is keyed, over three runs and
\* a crash; two chained calls over two runs and a crash; and three calls,
\* the last of them a barrier, cut off anywhere.
PlansValue ==
    {Plan(1, Alone, [c \in 1..1 |-> "never"], TRUE, 3, 1),
     Plan(1, Alone, [c \in 1..1 |-> "keyed"], TRUE, 3, 1),
     Plan(2, OneChain, <<"never", "keyed">>, FALSE, 2, 1),
     Plan(3, LastBarrier, <<"safe", "never", "never">>, TRUE, 1, 0)}
============================================================================
