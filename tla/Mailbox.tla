------------------------------ MODULE Mailbox ------------------------------
(***************************************************************************)
(* What Agent.Deliver and Agent.Accept promise of an item, without the     *)
(* counters, queues and runs by which the agent keeps the promise: the     *)
(* item is queued, a run takes everything queued at once, a request        *)
(* carries everything taken at once, and the answer given for a delivery   *)
(* is true of where its item is when it is given.                          *)
(***************************************************************************)
CONSTANT Deliveries

VARIABLES place, answer

Places == {"new", "queued", "taken", "carried", "lost"}

\* The errors of Deliver that leave the item queued for the next run.
LeftQueued == {"ErrAborted", "ErrInputRequired", "ErrTerminated",
               "ErrCannotContinue", "ErrRunning"}

Init ==
    /\ place = [d \in Deliveries |-> "new"]
    /\ answer = [d \in Deliveries |-> "none"]

\* The places after every delivery in `from` has moved to `to`.
Moved(from, to) ==
    [d \in Deliveries |-> IF place[d] = from THEN to ELSE place[d]]

Put(d) ==
    /\ place[d] = "new"
    /\ place' = [place EXCEPT ![d] = "queued"]
    /\ UNCHANGED answer

\* A caller inside the run is answered as its item is queued.
PutInside(d) ==
    /\ place[d] = "new"
    /\ place' = [place EXCEPT ![d] = "queued"]
    /\ \E a \in {"joinedInside", "ErrRunning"} :
          answer' = [answer EXCEPT ![d] = a]

Take == place' = Moved("queued", "taken") /\ UNCHANGED answer

Carry == place' = Moved("taken", "carried") /\ UNCHANGED answer

\* A run ends: what it took and could not keep is lost, and the delivery
\* that started it is answered with its end.
EndRun ==
    /\ \E S \in SUBSET {d \in Deliveries : place[d] = "taken"} :
          place' = [d \in Deliveries |-> IF d \in S THEN "lost" ELSE place[d]]
    /\ \E A \in SUBSET {d \in Deliveries : answer[d] = "none"
                                           /\ place[d] # "new"} :
          answer' = [d \in Deliveries |-> IF d \in A THEN "ran" ELSE answer[d]]

\* What must be true of the place of an item when its delivery is answered.
Truth(a) ==
    CASE a = "joined" -> {"carried", "lost"}
      [] a = "taken" -> {"taken", "carried", "lost"}
      [] a = "cancelled" -> Places \ {"new"}
      [] OTHER -> {"queued"}

Settle(d) ==
    /\ answer[d] = "none"
    /\ \E a \in LeftQueued \cup {"joined", "taken", "cancelled"} :
          place[d] \in Truth(a) /\ answer' = [answer EXCEPT ![d] = a]
    /\ UNCHANGED place

Next ==
    \/ \E d \in Deliveries : Put(d) \/ PutInside(d) \/ Settle(d)
    \/ Take \/ Carry \/ EndRun

Spec == Init /\ [][Next]_<<place, answer>>
============================================================================
