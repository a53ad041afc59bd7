------------------------------ MODULE MCControl ------------------------------
(***************************************************************************)
(* Bounds for Control: each plan is a small set of requests, questions and *)
(* streams, and the faults between them.                                   *)
(***************************************************************************)
EXTENDS Control

Plan(kinds, qs, st, con, los, fl) ==
    [kinds |-> kinds, asks |-> qs, steps |-> st, connects |-> con,
     losses |-> los, fails |-> fl]

MCPlans == {
    \* accepts from outside and from inside an event
    Plan(<<"prompt", "queue", "inside", "queue">>, 0, 0, 0, 0, 0),
    \* one accept more than a release of the barrier makes passes
    Plan(<<"prompt", "queue", "queue", "queue">>, 0, 0, 0, 0, 0),
    \* a recorder that fails on a report, an event or a question
    Plan(<<"prompt", "queue", "inside">>, 0, 0, 0, 0, 1),
    Plan(<<"prompt", "queue", "reply">>, 1, 0, 0, 0, 1),
    \* a quarantine around the ends of two runs
    Plan(<<"prompt", "prompt", "quarantine">>, 0, 0, 0, 0, 1),
    \* two replies and an abort race for a question
    Plan(<<"prompt", "reply", "reply", "abort">>, 1, 0, 0, 0, 1),
    \* a question and a stream opened while it waits, or before
    Plan(<<"prompt", "reply">>, 1, 0, 1, 0, 0),
    \* streams that fall behind or break, and are opened again
    Plan(<<"prompt">>, 0, 1, 1, 1, 0),
    Plan(<<"prompt">>, 0, 0, 2, 1, 0)}
==============================================================================
