----------------------------- MODULE MCExecutor -----------------------------
(***************************************************************************)
(* Model-checking instances of Executor.                                   *)
(***************************************************************************)
EXTENDS Executor

Bound(messages, cancels, fails, restarts, handoffs) ==
    [messages |-> messages, cancels |-> cancels, fails |-> fails,
     restarts |-> restarts, handoffs |-> handoffs]

\* A cancel against three messages, two against two, two messages with a
\* cancel and a fault, and three with a failure, as many as it takes for a
\* steer that is owed to be refused or a torn save to be put right.
Faults == {Bound({1, 2, 3}, {1}, 0, 0, 0), Bound({1, 2, 3}, {}, 0, 0, 1),
           Bound({1, 2}, {1, 2}, 0, 0, 0),
           Bound({1, 2}, {1}, 1, 0, 0), Bound({1, 2}, {1}, 0, 1, 0),
           Bound({1, 2, 3}, {}, 1, 0, 0)}
============================================================================
