----------------------------- MODULE ModelTurn -----------------------------
(***************************************************************************)
(* One model turn of the loop: runner.modelTurn and what it calls (run.go).*)
(* A request is sent, the response's events are read one by one, items     *)
(* that complete before the answer begins are held back, a failed attempt  *)
(* is retried while nothing of it is in the transcript, each function call *)
(* gets a call ID that names no other call, an output guard may withhold a *)
(* message, and the calls of the completed response are matched with those *)
(* the transcript took.                                                    *)
(*                                                                         *)
(* The server (external) is a record of the items it answers with and of   *)
(* the habits in which servers differ: whether each item has an output     *)
(* index of its own or all share index 0, on which events an item ID is    *)
(* given, whether its last event lists one item per index, and whether its *)
(* first events name the response.  An item is its position in that        *)
(* answer, which also stands for its arguments and is its item ID where    *)
(* one is given.  0 is "none" for every kind of ID.  The text of items,    *)
(* transforms, hooks' requests and delays are left out.                    *)
(***************************************************************************)
EXTENDS Naturals, Sequences, FiniteSets

CONSTANTS
    Servers,      \* the servers the turn may meet
    LastID,       \* the call IDs of the models are 0..LastID
    Taken,        \* call IDs in the transcript, or reserved, at the start
    MaxAttempts,  \* Retry.MaxAttempts
    Retryable,    \* the errors Retry.Retryable accepts
    BareReuse     \* whether a server may complete a call that it never
                  \* opened at an index another call had, with no item ID

Kinds == {"reason", "message", "call"}
Errors == {"transient", "final", "context", "guard"}

Server == [out : Seq([kind : Kinds, cid : 0..LastID]), one : BOOLEAN,
           added : BOOLEAN, done : BOOLEAN, listed : BOOLEAN,
           perIndex : BOOLEAN, names : BOOLEAN]

ASSUME TurnAssumption ==
    /\ LastID \in Nat /\ MaxAttempts \in Nat
    /\ Taken \subseteq 1..LastID
    /\ Retryable \subseteq Errors \ {"guard"}
    /\ Servers \subseteq Server
    /\ BareReuse \in BOOLEAN

VARIABLES
    srv,        \* the server
    phase,      \* where the turn is
    outcome,    \* what modelTurn returned
    cancelled,  \* the run's context is done
    call,       \* the calls made, as model_retry numbers them
    attempt,    \* the calls that the retry policy counts
    folded,     \* modelTurn's folded
    request,    \* the input in flight, numbered as it is rebuilt
    refused,    \* history: the inputs refused as too long
    kept,       \* the transcript since the turn started
    outs,       \* the calls of kept that closeWithheld answered
    batch,      \* the function calls of the response the turn acts on
    blocked,    \* a model_blocked was raised
    broken,     \* a subscriber failed
    final,      \* the terminal response: none, failed, or what it lists
    committed, held, opened, callAt, callItems, decided,  \* of the attempt
    minted      \* how many call IDs the loop made in the attempt

streamVars == <<final, committed, held, opened, callAt, callItems, decided,
                minted>>
vars == <<srv, phase, outcome, cancelled, call, attempt, folded, request,
          refused, kept, outs, batch, blocked, broken, streamVars>>

Items == 1..Len(srv.out)
Kind(i) == srv.out[i].kind
Index(i) == IF srv.one THEN 1 ELSE i
Indexes == Items
Given(i, where) == IF where THEN i ELSE 0

NoSlot == [id |-> 0, item |-> 0]
None == [status |-> "none", list |-> <<>>]

Init ==
    /\ srv \in Servers
    /\ phase = "build" /\ outcome = "none" /\ cancelled = FALSE
    /\ call = 0 /\ attempt = 1 /\ folded = FALSE
    /\ request = 1 /\ refused = {}
    /\ kept = <<>> /\ outs = {} /\ batch = <<>>
    /\ blocked = FALSE /\ broken = FALSE
    /\ final = None /\ committed = FALSE /\ held = <<>> /\ opened = <<>>
    /\ callAt = [x \in Indexes |-> NoSlot]
    /\ callItems = [i \in Items |-> 0]
    /\ decided = {} /\ minted = 0

\* modelTurn returns.
Finish(o) == phase' = "done" /\ outcome' = o

\* Mutant: the items the failed attempt held are still held.
StartStreamHeld ==
    /\ phase' = "stream" /\ call' = call + 1
    /\ final' = None /\ committed' = FALSE /\ opened' = <<>>
    /\ callAt' = [x \in Indexes |-> NoSlot]
    /\ callItems' = [i \in Items |-> 0]
    /\ decided' = {} /\ minted' = 0
    /\ UNCHANGED held

\* The beginning of stream: what an earlier attempt left is forgotten.
StartStream ==
    /\ phase' = "stream" /\ call' = call + 1
    /\ final' = None /\ committed' = FALSE /\ held' = <<>> /\ opened' = <<>>
    /\ callAt' = [x \in Indexes |-> NoSlot]
    /\ callItems' = [i \in Items |-> 0]
    /\ decided' = {} /\ minted' = 0

\* The request is built: a hook or the transform fails, BeforeModelCall
\* refuses the call as a guard, or turn_start is raised and the request is
\* sent.
Build ==
    /\ phase = "build"
    /\ \/ StartStream /\ UNCHANGED <<outcome, blocked, broken>>
       \/ Finish("failed") /\ broken' \in BOOLEAN
          /\ UNCHANGED <<blocked, call, streamVars>>
       \/ /\ blocked' = TRUE /\ broken' \in BOOLEAN
          /\ Finish(IF broken' THEN "failed" ELSE "guard")
          /\ UNCHANGED <<call, streamVars>>
    /\ UNCHANGED <<srv, cancelled, attempt, folded, request, refused, kept,
                   outs, batch>>

-----------------------------------------------------------------------------
(* Call IDs: decideCallID, decidedCallID, callIDTaken.                     *)

\* Mutant: only the transcript and the reservations are looked at, as if
\* no call of the attempt was held.
CallIDTakenUndecided(id, ids) ==
    \/ id = 0 \/ id \in Taken
    \/ \E k \in DOMAIN kept : kept[k].kind = "call" /\ kept[k].id = id

CallIDTaken(id, ids) ==
    \/ id = 0 \/ id \in Taken \/ id \in ids
    \/ \E k \in DOMAIN kept : kept[k].kind = "call" /\ kept[k].id = id

\* The ID of a call the model calls cid, where ids are decided and n IDs
\* are made.  A made ID names no other call: its suffix is random.
Decided(cid, ids, n) == IF CallIDTaken(cid, ids) THEN LastID + n + 1 ELSE cid
Made(cid, ids, n) == IF CallIDTaken(cid, ids) THEN n + 1 ELSE n

\* decidedCallID of a call with the given item ID at index x: 0 for none.
DecidedCallID(item, x) ==
    IF item # 0 /\ callItems[item] # 0 THEN callItems[item]
    ELSE IF item # 0 /\ callAt[x].item # 0 THEN 0
    ELSE callAt[x].id

\* decideCallID of item i, which carries the given item ID.
DecideCallID(i, item) ==
    LET id == Decided(srv.out[i].cid, decided, minted)
    IN  /\ callAt' = [callAt EXCEPT ![Index(i)] = [id |-> id, item |-> item]]
        /\ callItems' = IF item = 0 THEN callItems
                        ELSE [callItems EXCEPT ![item] = id]
        /\ decided' = decided \cup {id}
        /\ minted' = Made(srv.out[i].cid, decided, minted)

-----------------------------------------------------------------------------
(* The stream: stream and streamEvent.                                     *)

\* An item of the transcript, with the number of the call that made it.
Entry(i, id) == [kind |-> Kind(i), of |-> i, id |-> id, by |-> call]

\* openedItem; "id" is the call ID its item_start carried, "as" the one it
\* is done under, and "of", the item, is history.
Opened(i, item, cid, isCall, id) ==
    [of |-> i, index |-> Index(i), item |-> item, cid |-> cid,
     call |-> isCall, id |-> id, done |-> FALSE, as |-> 0, late |-> FALSE]

Started == {opened[k].of : k \in DOMAIN opened}

\* The server sends the first events of its items in their order; it may
\* leave out those of the last items, and any item's output_item.done.
NextItem(i) == Started = 1..(i - 1)

\* flushHeld raises an item_end for each item, and stops at the first that
\* a subscriber fails.
Flushed(n) == kept' = kept \o SubSeq(held, 1, n) /\ held' = <<>>
Flush(ok) == IF ok THEN Flushed(Len(held))
             ELSE \E n \in 1..Len(held) : Flushed(n)

\* output_item.added: a message or a function call commits the attempt.
ItemAdded(i) ==
    LET isCall == Kind(i) = "call"
        item == Given(i, srv.added)
        commits == ~committed /\ Kind(i) # "reason"
    IN  /\ phase = "stream" /\ final = None
        /\ NextItem(i)
        /\ IF isCall THEN DecideCallID(i, item)
           ELSE UNCHANGED <<callAt, callItems, decided, minted>>
        /\ opened' = Append(opened,
               IF isCall THEN Opened(i, item, srv.out[i].cid, TRUE,
                                     callAt'[Index(i)].id)
               ELSE Opened(i, 0, 0, FALSE, 0))
        /\ \/ \* item_start
              /\ IF commits THEN Flush(TRUE) ELSE UNCHANGED <<kept, held>>
              /\ committed' = (committed \/ commits)
              /\ UNCHANGED <<phase, outcome, broken>>
           \/ \* a subscriber failed item_start, or an item_end before it
              /\ \E ok \in BOOLEAN :
                    IF commits THEN Flush(ok) ELSE UNCHANGED <<kept, held>>
              /\ committed' = TRUE /\ broken' = TRUE
              /\ Finish(IF cancelled THEN "aborted" ELSE "failed")
        /\ UNCHANGED <<srv, cancelled, call, attempt, folded, request,
                       refused, outs, batch, blocked, final>>

\* openedAt: the item that last opened at the index and is not done, or a
\* new one.
OpenAt(x) == {k \in DOMAIN opened : opened[k].index = x /\ ~opened[k].done}
Self(x) ==
    IF OpenAt(x) = {} THEN Len(opened) + 1
    ELSE CHOOSE k \in OpenAt(x) : \A j \in OpenAt(x) : j <= k

\* The server completes an item that it opened, the last at its index, or
\* one of which it sent nothing before.
Completes(i) ==
    \/ /\ \A j \in Started : Index(j) = Index(i) => j <= i
       /\ \E k \in OpenAt(Index(i)) : opened[k].of = i
    \/ /\ NextItem(i) /\ OpenAt(Index(i)) = {}
       /\ \/ BareReuse \/ srv.done \/ Kind(i) # "call"
          \/ callAt[Index(i)] = NoSlot

\* The call IDs as a done call leaves them.
DoneCallID(i, item) ==
    LET x == Index(i)
        id == DecidedCallID(item, x)
    IN  IF id = 0 THEN DecideCallID(i, item)
        ELSE /\ IF item # 0 /\ callAt[x].item = 0
                THEN /\ callAt' = [callAt EXCEPT ![x] = [id |-> id, item |-> item]]
                     /\ callItems' = [callItems EXCEPT ![item] = id]
                ELSE UNCHANGED <<callAt, callItems>>
             /\ UNCHANGED <<decided, minted>>

\* withCallID after DoneCallID.
DoneID(i, item) ==
    IF DecidedCallID(item, Index(i)) # 0 THEN DecidedCallID(item, Index(i))
    ELSE Decided(srv.out[i].cid, decided, minted)

\* The entry of opened for a done item.
DoneEntry(i, item, id) ==
    LET k == Self(Index(i))
        o == IF k \in DOMAIN opened THEN opened[k]
             ELSE Opened(i, 0, 0, FALSE, 0)
    IN  [o EXCEPT !.done = TRUE, !.as = id,
                  !.cid = IF Kind(i) = "call" THEN srv.out[i].cid ELSE @,
                  !.item = IF Kind(i) = "call" /\ item # 0 THEN item ELSE @]

\* output_item.done, of an item the output guard lets pass or replaces:
\* it is held, or appended with its item_end.
ItemDone(i) ==
    LET isCall == Kind(i) = "call"
        item == Given(i, srv.done)
        id == IF isCall THEN DoneID(i, item) ELSE 0
        k == Self(Index(i))
    IN  /\ phase = "stream" /\ final = None /\ Completes(i)
        /\ IF isCall THEN DoneCallID(i, item)
           ELSE UNCHANGED <<callAt, callItems, decided, minted>>
        /\ opened' = [n \in DOMAIN opened \cup {k} |->
                         IF n = k THEN DoneEntry(i, item, id) ELSE opened[n]]
        /\ \/ /\ ~committed /\ held' = Append(held, Entry(i, id))
              /\ UNCHANGED <<kept, committed, phase, outcome, broken>>
           \/ /\ committed /\ kept' = Append(kept, Entry(i, id))
              /\ broken' \in BOOLEAN
              /\ IF broken' THEN Finish(IF cancelled THEN "aborted" ELSE "failed")
                 ELSE UNCHANGED <<phase, outcome>>
              /\ UNCHANGED <<held, committed>>
        /\ UNCHANGED <<srv, cancelled, call, attempt, folded, request,
                       refused, outs, batch, blocked, final>>

\* output_item.done of a message the output guard withholds, or fails on.
MessageRefused(i) ==
    /\ phase = "stream" /\ final = None /\ Completes(i)
    /\ Kind(i) = "message"
    /\ opened' = IF Self(Index(i)) \in DOMAIN opened THEN opened
                 ELSE Append(opened, Opened(i, 0, 0, FALSE, 0))
    /\ committed' = TRUE
    /\ \/ phase' = "drain" /\ UNCHANGED outcome
       \/ Finish(IF cancelled THEN "aborted" ELSE "failed")
    /\ UNCHANGED <<srv, cancelled, call, attempt, folded, request, refused,
                   kept, outs, batch, blocked, broken, final, held, callAt,
                   callItems, decided, minted>>

\* A subscriber fails an item_update.
UpdateFails ==
    /\ phase = "stream" /\ final = None /\ \E k \in DOMAIN opened : ~opened[k].done
    /\ committed' = TRUE /\ broken' = TRUE
    /\ Finish(IF cancelled THEN "aborted" ELSE "failed")
    /\ UNCHANGED <<srv, cancelled, call, attempt, folded, request, refused,
                   kept, outs, batch, blocked, final, held, opened, callAt,
                   callItems, decided, minted>>

\* The one list of the positions of S in their order.
Ascending(S) ==
    {q \in UNION {[1..n -> S] : n \in 0..Cardinality(S)} :
        /\ \A k \in S : \E n \in DOMAIN q : q[n] = k
        /\ \A m, n \in DOMAIN q : m < n => q[m] < q[n]}

\* What the terminal response lists: the items up to one the server may
\* have sent nothing of, or, built from the stream, the last item at each
\* index.  A server that names its calls and does not build the response
\* from the stream may give one call's arguments otherwise than it did.
Listings ==
    LET whole == {1..n : n \in {m \in 0..Len(srv.out) : Started \subseteq 1..m}}
        last == {{n} : n \in {m \in Started : Started = 1..m}}
        listed == IF srv.one /\ srv.perIndex /\ Started # {} THEN last ELSE whole
    IN  UNION {Ascending({i \in l : Kind(i) = "call"}) : l \in listed}

Terminal ==
    /\ phase = "stream" /\ final = None
    /\ \E status \in {"failed", "whole"}, l \in Listings, odd \in 0..Len(srv.out) :
          /\ odd # 0 => /\ ~srv.perIndex /\ srv.out[odd].cid # 0
                        /\ \E k \in DOMAIN l : l[k] = odd
          /\ final' = [status |-> status,
                       list |-> [k \in DOMAIN l |->
                          [of |-> l[k], item |-> Given(l[k], srv.listed),
                           cid |-> srv.out[l[k]].cid, same |-> l[k] # odd]]]
    /\ UNCHANGED <<srv, phase, outcome, cancelled, call, attempt, folded,
                   request, refused, kept, outs, batch, blocked, broken,
                   committed, held, opened, callAt, callItems, decided, minted>>

-----------------------------------------------------------------------------
(* The completed response: renameCalls and appendFromResponse.             *)

\* The calls of the attempt, completed or only opened, as positions in
\* opened.
OpenedCalls ==
    {k \in DOMAIN opened :
        IF opened[k].done THEN Kind(opened[k].of) = "call" ELSE opened[k].call}

\* A call of the response that is not paired yet is paired with the first
\* free call of the attempt that matches it.
Pair(q, n, calls, match) ==
    LET free == {k \in calls : /\ \A m \in DOMAIN q : q[m] # k
                               /\ <<n, k>> \in match}
    IN  IF q[n] # 0 \/ free = {} THEN q
        ELSE [q EXCEPT ![n] = CHOOSE k \in free : \A j \in free : k <= j]

\* One pass over the calls of the response.
PairPass(p, calls, match) ==
    LET after[n \in 0..Len(p)] ==
            IF n = 0 THEN p ELSE Pair(after[n - 1], n, calls, match)
    IN  after[Len(p)]

\* How a listed call may match a call of the attempt.
ByOrder(list) == (DOMAIN list) \X (DOMAIN opened)
SameItem(list) == {m \in ByOrder(list) : /\ list[m[1]].item # 0
                                         /\ list[m[1]].item = opened[m[2]].item}
SameID(list) == {m \in ByOrder(list) : list[m[1]].cid = opened[m[2]].cid}
NamedID(list) == {m \in SameID(list) : list[m[1]].cid # 0}
SameCall(list) == {m \in SameID(list) : /\ opened[m[2]].done /\ list[m[1]].same
                                        /\ list[m[1]].of = opened[m[2]].of}

\* By item ID, by call ID and arguments, by call ID, by order; a completed
\* call goes before one that was never completed.
Paired(list) ==
    LET calls == OpenedCalls
        done == {k \in calls : opened[k].done}
        p0 == [n \in DOMAIN list |-> 0]
        p1 == PairPass(p0, done, SameItem(list))
        p2 == PairPass(p1, calls \ done, SameItem(list))
        p3 == PairPass(p2, done, SameCall(list))
        p4 == PairPass(p3, calls, NamedID(list))
        p5 == PairPass(p4, done, ByOrder(list))
    IN  PairPass(p5, calls \ done, ByOrder(list))

\* A listed call that the response completes: the stream opened it and did
\* not complete it, or never opened it.
Complete(s, n, l) ==
    LET k == s.at[n]
        id == Decided(l.cid, s.decided, s.minted)
    IN  IF k = 0
        THEN [opened |-> Append(s.opened,
                 [Opened(l.of, l.item, l.cid, TRUE, id)
                  EXCEPT !.done = TRUE, !.as = id, !.late = TRUE]),
              decided |-> s.decided \cup {id},
              minted |-> Made(l.cid, s.decided, s.minted),
              at |-> [s.at EXCEPT ![n] = Len(s.opened) + 1]]
        ELSE IF s.opened[k].done THEN s
        ELSE [s EXCEPT !.opened[k] =
                 [@ EXCEPT !.done = TRUE, !.as = s.opened[k].id,
                           !.late = TRUE, !.of = l.of]]

\* The calls the response completes, one listed call after the other.
Completed(list) ==
    LET start == [opened |-> opened, decided |-> decided, minted |-> minted,
                  at |-> Paired(list)]
        after[n \in 0..Len(list)] ==
            IF n = 0 THEN start ELSE Complete(after[n - 1], n, list[n])
    IN  after[Len(list)]

\* A call's place in the transcript.
Rank(s, k) == IF s.opened[k].late THEN Len(s.opened) + k ELSE k

\* Mutant: the listed calls are run, whatever else the transcript holds.
RenameListed(s) ==
    [n \in DOMAIN s.at |-> [of |-> s.opened[s.at[n]].of,
                            id |-> s.opened[s.at[n]].as]]

\* The calls of the response the turn acts on: as the response lists them,
\* unless it leaves out a completed call or lists them in another order
\* than the transcript's, where the transcript's take their place.
RenameCalls(s) ==
    LET all == {k \in DOMAIN s.opened :
                   s.opened[k].done /\ Kind(s.opened[k].of) = "call"}
        listed == {s.at[n] : n \in DOMAIN s.at}
        outOfOrder == \E n \in 2..Len(s.at) :
                         Rank(s, s.at[n]) < Rank(s, s.at[n - 1])
        Positions == [k \in DOMAIN s.opened |-> k]
        early == SelectSeq(Positions, LAMBDA k : k \in all /\ ~s.opened[k].late)
        late == SelectSeq(Positions, LAMBDA k : k \in all /\ s.opened[k].late)
        order == IF ~(all \subseteq listed) \/ outOfOrder THEN early \o late
                 ELSE s.at
    IN  [n \in DOMAIN order |-> [of |-> s.opened[order[n]].of,
                                 id |-> s.opened[order[n]].as]]

Late(s) == {k \in DOMAIN s.opened : s.opened[k].late}

\* The entries appendFromResponse adds, in the order the calls opened.
FromResponse(s, late) ==
    [n \in DOMAIN late |-> Entry(s.opened[late[n]].of, s.opened[late[n]].as)]

\* The stream ends after its terminal response: what is held is flushed,
\* the calls only the response completed are appended, and response_end is
\* raised.  A subscriber may fail any of these events.
StreamEnds ==
    /\ phase = "stream" /\ final.status = "whole"
    /\ LET s == Completed(final.list)
       IN  /\ opened' = s.opened /\ decided' = s.decided /\ minted' = s.minted
           /\ \E late \in Ascending(Late(s)) :
                 LET more == held \o FromResponse(s, late)
                 IN  \/ /\ kept' = kept \o more
                        /\ batch' = RenameCalls(s)
                        /\ Finish("answered") /\ UNCHANGED broken
                     \/ /\ \E n \in 0..Len(more) :
                              /\ n = 0 => more = <<>>
                              /\ kept' = kept \o SubSeq(more, 1, n)
                        /\ broken' = TRUE /\ UNCHANGED batch
                        /\ Finish(IF cancelled THEN "aborted" ELSE "failed")
    /\ held' = <<>> /\ committed' = TRUE
    /\ UNCHANGED <<srv, cancelled, call, attempt, folded, request, refused,
                   outs, blocked, final, callAt, callItems>>

\* The response arrived failed: nothing held is kept, response_end is
\* raised and the run ends with its error.
ResponseFailed ==
    /\ phase = "stream" /\ final.status = "failed"
    /\ broken' \in BOOLEAN /\ committed' = TRUE
    /\ Finish(IF cancelled THEN "aborted" ELSE "failed")
    /\ UNCHANGED <<srv, cancelled, call, attempt, folded, request, refused,
                   kept, outs, batch, blocked, final, held, opened, callAt,
                   callItems, decided, minted>>

-----------------------------------------------------------------------------
(* An attempt that failed: the rest of modelTurn.                          *)

KeptCalls == {k \in DOMAIN kept : kept[k].kind = "call"}

\* Mutant: the calls of a withheld response are left as they are.
CloseNothing == UNCHANGED <<outs, broken>> /\ Finish("guard")

\* closeWithheld: an output for each call the turn added, or for those
\* before the one whose item events a subscriber failed.
CloseWithheld ==
    \/ /\ outs' = {kept[k].id : k \in KeptCalls}
       /\ UNCHANGED broken
       /\ Finish("guard")
    \/ /\ \E n \in KeptCalls : outs' = {kept[k].id : k \in KeptCalls \cap 1..n}
       /\ broken' = TRUE
       /\ Finish("failed")

\* A guard's stop: response_end, marked withheld, and the calls are closed.
Withhold ==
    \/ CloseWithheld /\ UNCHANGED blocked
    \/ Finish("failed") /\ broken' = TRUE /\ UNCHANGED <<outs, blocked>>

\* guardedResponse: the stream has named the response it is of.
Named == srv.names \/ final # None

\* The model refused the call as a guard: withheld where the attempt had
\* committed and there is a response to report, and blocked otherwise.
GuardStop ==
    \/ committed /\ Named /\ Withhold
    \/ /\ ~(committed /\ Named) /\ blocked' = TRUE
       /\ \/ CloseWithheld
          \/ Finish("failed") /\ broken' = TRUE /\ UNCHANGED outs

MayRetry(err) == ~committed /\ attempt < MaxAttempts /\ err \in Retryable

\* The policy refuses another attempt, or model_retry is raised and the
\* turn waits.
RetryOrFail(err) ==
    \/ ~MayRetry(err) /\ Finish("failed") /\ UNCHANGED broken
    \/ /\ MayRetry(err)
       /\ \/ phase' = "wait" /\ UNCHANGED <<outcome, broken>>
          \/ Finish("failed") /\ broken' = TRUE

\* The stream fails, by a transport error, an error event or a cut.
StreamFails(err) ==
    /\ phase = "stream"
    /\ refused' = IF err = "context" THEN refused \cup {request} ELSE refused
    /\ IF cancelled THEN Finish("aborted") /\ UNCHANGED <<outs, blocked, broken>>
       ELSE IF err = "guard" THEN GuardStop
       ELSE RetryOrFail(err) /\ UNCHANGED <<outs, blocked>>
    /\ ~(err = "context" /\ ~cancelled /\ ~committed /\ ~folded)
    /\ UNCHANGED <<srv, cancelled, call, attempt, folded, request, kept,
                   batch, streamVars>>

\* The request was longer than the model's window: it is rebuilt once with
\* a fold asked for, and sent where the fold changed it, whatever the retry
\* policy says.
Fold ==
    /\ phase = "stream" /\ ~cancelled /\ ~committed /\ ~folded
    /\ folded' = TRUE /\ refused' = refused \cup {request}
    /\ \/ \* the fold changed the input
          request' = request + 1 /\ StartStream
          /\ UNCHANGED <<outcome, blocked, broken>>
       \/ \* it did not
          RetryOrFail("context")
          /\ UNCHANGED <<request, blocked, call, streamVars>>
       \/ \* the transform or a hook failed, or model_retry did
          Finish("failed") /\ broken' \in BOOLEAN
          /\ UNCHANGED <<request, blocked, call, streamVars>>
       \/ \* BeforeModelCall refused the rebuilt request
          blocked' = TRUE /\ broken' \in BOOLEAN
          /\ Finish(IF broken' THEN "failed" ELSE "guard")
          /\ UNCHANGED <<request, call, streamVars>>
    /\ UNCHANGED <<srv, cancelled, attempt, kept, outs, batch>>

\* Mutant: the attempt that starts is not counted.
WakeUncounted ==
    /\ phase = "wait"
    /\ \/ /\ ~cancelled /\ phase' = "stream"
          /\ final' = None /\ committed' = FALSE /\ held' = <<>>
          /\ opened' = <<>> /\ callAt' = [x \in Indexes |-> NoSlot]
          /\ callItems' = [i \in Items |-> 0]
          /\ decided' = {} /\ minted' = 0 /\ UNCHANGED outcome
       \/ cancelled /\ Finish("aborted") /\ UNCHANGED streamVars
    /\ UNCHANGED <<srv, cancelled, folded, request, refused, kept, outs,
                   batch, blocked, broken, call, attempt>>

\* The delay is over, or was cut short.
Wake ==
    /\ phase = "wait"
    /\ \/ ~cancelled /\ StartStream /\ attempt' = attempt + 1
          /\ UNCHANGED outcome
       \/ cancelled /\ Finish("aborted")
          /\ UNCHANGED <<call, attempt, streamVars>>
    /\ UNCHANGED <<srv, cancelled, folded, request, refused, kept, outs,
                   batch, blocked, broken>>

\* The rest of a response of which a message is withheld is read, to its
\* end or to an error.
Drain ==
    /\ phase = "drain" /\ Withhold
    /\ UNCHANGED <<srv, cancelled, call, attempt, folded, request, refused,
                   kept, batch, streamVars>>

\* The run is aborted.
Cancel ==
    /\ phase # "done" /\ ~cancelled /\ cancelled' = TRUE
    /\ UNCHANGED <<srv, phase, outcome, call, attempt, folded, request,
                   refused, kept, outs, batch, blocked, broken, streamVars>>

Done == phase = "done" /\ UNCHANGED vars

Step ==
    \/ Build \/ UpdateFails \/ Terminal \/ StreamEnds \/ ResponseFailed
    \/ Fold \/ Wake \/ Drain
    \/ \E i \in Items : ItemAdded(i) \/ ItemDone(i) \/ MessageRefused(i)
    \/ \E err \in Errors : StreamFails(err)

Next == Step \/ Cancel \/ Done

\* The loop takes its own steps, and a stream that sends nothing more is
\* cut: by the server, by the transport, or by an abort.
Spec ==
    /\ Init /\ [][Next]_vars
    /\ WF_vars(Build) /\ WF_vars(Wake) /\ WF_vars(Drain)
    /\ WF_vars(\E err \in Errors : StreamFails(err))

-----------------------------------------------------------------------------
(* Properties.                                                             *)

KeptEntry == [kind : Kinds, of : Nat \ {0}, id : Nat, by : Nat]
OpenedEntry == [of : Items, index : Indexes, item : {0} \cup Items,
                cid : 0..LastID, call : BOOLEAN, id : Nat, done : BOOLEAN,
                as : Nat, late : BOOLEAN]

\* The type of the turn's state.
TypeOK ==
    /\ srv \in Servers
    /\ phase \in {"build", "stream", "drain", "wait", "done"}
    /\ outcome \in {"none", "answered", "guard", "aborted", "failed"}
    /\ {cancelled, folded, blocked, broken, committed} \subseteq BOOLEAN
    /\ {call, attempt, request, minted} \subseteq Nat
    /\ refused \subseteq 1..request /\ outs \subseteq Nat
    /\ kept \in Seq(KeptEntry) /\ held \in Seq(KeptEntry)
    /\ opened \in Seq(OpenedEntry)
    /\ batch \in Seq([of : Items, id : Nat])
    /\ callAt \in [Indexes -> [id : Nat, item : {0} \cup Items]]
    /\ callItems \in [Items -> Nat] /\ decided \subseteq Nat

\* A retried attempt leaves no trace: whatever the turn put in the
\* transcript is of the call in flight, though an attempt may have
\* completed items before it failed (held, and commitsAttempt).
NoTraceOfRetried == \A k \in DOMAIN kept : kept[k].by = call

\* A call ID names one call: no two calls the turn keeps share one, and
\* none has one that the transcript or a reservation took (decideCallID).
UniqueCallIDs ==
    \A k \in KeptCalls :
        /\ kept[k].id \notin Taken \cup {0}
        /\ \A j \in KeptCalls : kept[j].id = kept[k].id => j = k

\* A call completes under the ID its item_start carried, however the stream
\* reuses indexes and wherever it leaves item IDs out (decidedCallID).
IDIsStable ==
    \A k \in DOMAIN opened :
        opened[k].call /\ opened[k].done => opened[k].as = opened[k].id

\* A call has one ID of its own from its item_start to its output.
CallIDIsIdentity == UniqueCallIDs /\ IDIsStable

\* The batch runs the calls that the transcript holds, each once, under the
\* ID and with the arguments it holds it by (renameCalls).
BatchIsTranscript ==
    outcome = "answered" =>
        /\ {[of |-> kept[k].of, id |-> kept[k].id] : k \in KeptCalls} =
              {batch[n] : n \in DOMAIN batch}
        /\ Len(batch) = Cardinality(KeptCalls)
        /\ \A m, n \in DOMAIN batch : batch[m].of = batch[n].of => m = n

\* A call is told from the server's others by an item ID, or by a call ID
\* that no other of its calls has.
ToldApart(i) ==
    \/ srv.listed /\ srv.added /\ srv.done
    \/ /\ srv.out[i].cid # 0
       /\ \A j \in Items \ {i} : srv.out[j].cid # srv.out[i].cid

\* Every call that a response lists is run, with its own arguments, where
\* it can be told apart: none is taken for another call, and none that only
\* the response completes is dropped (renameCalls, appendFromResponse).
ListedIsRun ==
    outcome = "answered" =>
        \A l \in DOMAIN final.list :
            ToldApart(final.list[l].of) =>
                \E n \in DOMAIN batch : batch[n].of = final.list[l].of

\* What runs is what the model answered, as the transcript holds it.
BatchIsAnswer == BatchIsTranscript /\ ListedIsRun

\* A turn that a guard stopped leaves no call without an output, so the
\* transcript can start the next run (closeWithheld).
WithheldIsClosed ==
    outcome = "guard" => \A k \in KeptCalls : kept[k].id \in outs

\* A call that is reported blocked left nothing in the transcript, unless
\* its stream never named the response that could be reported withheld
\* (modelTurn's ModelBlocked and guardedResponse).
BlockedLeavesNothing == blocked /\ Named => kept = <<>>

\* An input the server refused as too long is not sent again (modelTurn's
\* fold).
RefusedNotResent == phase \in {"stream", "wait"} => request \notin refused

\* The turn ends: attempts, folds and waits do not go on for ever
\* (modelTurn's loop).
TurnEnds == <>(phase = "done")
=============================================================================
