------------------------------ MODULE MCInbox ------------------------------
(***************************************************************************)
(* Model-checking instances of Inbox: a queued input and two deliveries of *)
(* the same content.                                                       *)
(***************************************************************************)
EXTENDS Inbox

TwoAlike == [i \in Inputs |-> IF i = 1 THEN "a" ELSE "b"]

Bound(inputs, runs, crashes, fails, rebases) ==
    [inputs |-> inputs, runs |-> runs, crashes |-> crashes, fails |-> fails,
     rebases |-> rebases]

\* The last two return to a branch left.
Faults == {Bound({1, 2}, 2, 1, 0, 1), Bound({2, 3}, 2, 1, 1, 0),
           Bound({2, 3}, 1, 1, 1, 1),
           Bound({1, 2, 3}, 1, 1, 0, 0), Bound({2, 3}, 1, 1, 0, 2),
           Bound({1}, 2, 1, 1, 2)}
============================================================================
