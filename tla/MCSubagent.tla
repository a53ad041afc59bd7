----------------------------- MODULE MCSubagent -----------------------------
(***************************************************************************)
(* Model-checking instances of Subagent.                                   *)
(***************************************************************************)
EXTENDS Subagent

Bound(handoffs, keys, crashes, aborts, fails, ask, detach) ==
    [handoffs |-> handoffs, keys |-> keys, crashes |-> crashes,
     aborts |-> aborts, fails |-> fails, ask |-> ask, detach |-> detach]

\* Three hand-offs over two crashes or aborts, another key after one of
\* them, a write that fails, and a detached child.
Faults == {Bound(3, 0, 2, 0, 0, TRUE, FALSE), Bound(3, 0, 1, 1, 0, FALSE, FALSE),
           Bound(3, 1, 1, 1, 0, FALSE, FALSE), Bound(2, 0, 1, 0, 2, TRUE, FALSE),
           Bound(1, 0, 0, 1, 2, FALSE, TRUE)}

\* Another key, between two crashes.
KeyBetweenCrashes == {Bound(3, 1, 2, 0, 0, FALSE, FALSE)}
=============================================================================
