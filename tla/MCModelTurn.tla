---------------------------- MODULE MCModelTurn ----------------------------
(* Instances of ModelTurn for TLC. *)
EXTENDS ModelTurn

\* Answers: calls with their own, equal, missing and taken call IDs, after
\* reasoning or before a message.
Call(cid) == [kind |-> "call", cid |-> cid]
Reason == [kind |-> "reason", cid |-> 0]
Message == [kind |-> "message", cid |-> 0]
Answers == {<<Reason, Call(1), Call(2)>>, <<Call(1), Call(1), Call(2)>>,
            <<Call(0), Call(0)>>, <<Call(3), Call(3)>>,
            <<Call(1), Message>>, <<Reason, Message, Call(3)>>}

\* Every habit of a server, with each of the answers.  Whether the stream
\* names its response matters to a guard's stop alone, which looks at no
\* other habit: it varies where the items have their IDs on every event.
MCServers ==
    {s \in [out : Answers, one : BOOLEAN, added : BOOLEAN, done : BOOLEAN,
            listed : BOOLEAN, perIndex : BOOLEAN, names : BOOLEAN] :
        /\ s.perIndex => s.one
        /\ s.names \/ (s.added /\ s.done /\ s.listed /\ ~s.perIndex)}

MCTaken == {3}
=============================================================================
