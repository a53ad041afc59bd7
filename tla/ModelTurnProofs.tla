-------------------------- MODULE ModelTurnProofs --------------------------
(***************************************************************************)
(* What a model turn leaves in the transcript, proved for every server,    *)
(* every retry policy and any number of items and attempts.                *)
(*                                                                         *)
(* NoTraceOfRetried and BlockedLeavesNothing are not inductive: both rest  *)
(* on what committed means, that an attempt which has not committed has    *)
(* put nothing in the transcript, and on the held items being those of the *)
(* attempt in flight.  AttemptInv says so.                                 *)
(*                                                                         *)
(* CallIDIsIdentity rests on what the loop remembers of a stream:          *)
(* IdentityInv says that each call of it has an ID of its own, that callAt *)
(* is the last call at each index, and that what is kept and held are      *)
(* calls it completed.  The calls that only the response completes are     *)
(* taken by induction over its list, as the least number that fails        *)
(* (LeastNat and UpTo).                                                    *)
(***************************************************************************)
EXTENDS ModelTurn, SequenceTheorems, WellFoundedInduction, TLAPS

\* A sequence of entries that are all of call c.
Stamped(s, c) ==
    /\ s \in Seq({s[k] : k \in DOMAIN s})
    /\ \A k \in DOMAIN s : s[k].by = c

\* What a turn has written, by where its attempt is.
AttemptInv ==
    /\ call \in Nat
    /\ committed \in BOOLEAN
    /\ Stamped(kept, call) /\ Stamped(held, call)
    /\ ~committed => kept = <<>>
    /\ phase \in {"build", "wait"} => ~committed
    /\ blocked => (Named => kept = <<>>) /\ phase = "done"

-----------------------------------------------------------------------------
(* Sequences of entries.                                                   *)

\* A sequence is one of its own elements.
LEMMA SeqOfElements ==
    ASSUME NEW S, NEW s \in Seq(S)
    PROVE  s \in Seq({s[k] : k \in DOMAIN s})
<1> DEFINE R == {s[k] : k \in DOMAIN s}
<1>1. PICK n \in Nat : s \in [1..n -> S] BY SeqDef
<1>2. s \in [1..n -> R] BY <1>1
<1> QED BY SMTT(60), <1>2, SeqDef

\* The empty transcript is of any call (stream resets what is held).
LEMMA StampedEmpty == ASSUME NEW c PROVE Stamped(<<>>, c)
BY DEF Stamped

\* Appending an entry of the call keeps the sequence its own (streamEvent).
LEMMA StampedAppend ==
    ASSUME NEW c, NEW s, Stamped(s, c), NEW e, e.by = c
    PROVE  Stamped(Append(s, e), c)
<1> DEFINE t == Append(s, e)
           S == {s[k] : k \in DOMAIN s} \cup {e}
<1>1. s \in Seq(S) BY DEF Stamped
<1>2. t \in Seq(S) /\ Len(t) = Len(s) + 1 /\ Len(s) \in Nat BY <1>1
<1>3. \A k \in DOMAIN t : t[k] = IF k = Len(s) + 1 THEN e ELSE s[k]
  BY <1>1, <1>2
<1>4. \A k \in DOMAIN t : t[k].by = c BY <1>1, <1>2, <1>3 DEF Stamped
<1>5. t \in Seq({t[k] : k \in DOMAIN t}) BY <1>2, SeqOfElements
<1> QED BY <1>4, <1>5 DEF Stamped

\* So does another sequence of the call's entries (flushHeld).
LEMMA StampedConcat ==
    ASSUME NEW c, NEW s, Stamped(s, c), NEW t, Stamped(t, c)
    PROVE  Stamped(s \o t, c)
<1> DEFINE u == s \o t
           S == {s[k] : k \in DOMAIN s} \cup {t[k] : k \in DOMAIN t}
<1>1. s \in Seq(S) /\ t \in Seq(S) BY DEF Stamped
<1>2. u \in Seq(S) /\ Len(u) = Len(s) + Len(t)
      /\ Len(s) \in Nat /\ Len(t) \in Nat
  BY <1>1
<1>3. \A k \in DOMAIN u : u[k] = IF k <= Len(s) THEN s[k] ELSE t[k - Len(s)]
  BY <1>1, <1>2
<1>4. \A k \in DOMAIN u : u[k].by = c BY <1>1, <1>2, <1>3 DEF Stamped
<1>5. u \in Seq({u[k] : k \in DOMAIN u}) BY <1>2, SeqOfElements
<1> QED BY <1>4, <1>5 DEF Stamped

\* And a first part of one, where a subscriber failed (flushHeld).
LEMMA StampedSubSeq ==
    ASSUME NEW c, NEW s, Stamped(s, c), NEW n \in 0..Len(s)
    PROVE  Stamped(SubSeq(s, 1, n), c)
<1> DEFINE u == SubSeq(s, 1, n)
           S == {s[k] : k \in DOMAIN s}
<1>1. s \in Seq(S) /\ Len(s) \in Nat BY DEF Stamped
<1>2. u \in Seq(S) /\ Len(u) = n BY <1>1
<1>3. \A k \in DOMAIN u : u[k] = s[k] /\ k \in DOMAIN s BY <1>1, <1>2
<1>4. \A k \in DOMAIN u : u[k].by = c BY <1>3 DEF Stamped
<1>5. u \in Seq({u[k] : k \in DOMAIN u}) BY <1>2, SeqOfElements
<1> QED BY <1>4, <1>5 DEF Stamped

\* The calls that only the response completed are entries of the call
\* (appendFromResponse).
LEMMA StampedLate ==
    ASSUME NEW s, NEW late \in Ascending(Late(s))
    PROVE  Stamped(FromResponse(s, late), call)
<1> DEFINE u == FromResponse(s, late)
<1>1. PICK n \in 0..Cardinality(Late(s)) : late \in [1..n -> Late(s)]
  BY DEF Ascending
<1>2. n \in Nat /\ DOMAIN late = 1..n BY <1>1
<1>3. DOMAIN u = 1..n /\ \A k \in 1..n : u[k].by = call
  BY <1>2 DEF FromResponse, Entry
<1>4. u = [k \in 1..n |-> u[k]] BY <1>2, <1>3 DEF FromResponse
<1>5. u \in [1..n -> {u[k] : k \in DOMAIN u}] BY <1>3, <1>4
<1>6. u \in Seq({u[k] : k \in DOMAIN u}) BY <1>2, <1>5, SeqDef
<1> QED BY <1>3, <1>6 DEF Stamped

-----------------------------------------------------------------------------
(* The invariant.                                                          *)

\* A new attempt begins with nothing held and nothing kept (stream).
LEMMA NewAttempt ==
    ASSUME AttemptInv, kept = <<>>, ~blocked, StartStream,
           UNCHANGED <<kept, blocked>>
    PROVE  AttemptInv'
<1>1. Stamped(kept', call') /\ Stamped(held', call')
  BY StampedEmpty DEF StartStream
<1>2. phase' = "stream" /\ call' = call + 1 /\ committed' = FALSE
  BY DEF StartStream
<1>3. call' \in Nat BY <1>2 DEF AttemptInv
<1>4. ~blocked' /\ kept' = <<>> OBVIOUS
<1> QED BY <1>1, <1>2, <1>3, <1>4 DEF AttemptInv

\* A step that writes nothing and does not begin to wait for a retry keeps
\* what the attempt wrote, committed or not.
LEMMA NothingWritten ==
    ASSUME AttemptInv, UNCHANGED <<call, kept, held>>,
           committed' \in BOOLEAN, committed => committed',
           phase' \in {"build", "wait"} => ~committed',
           blocked' => (Named' => kept = <<>>) /\ phase' = "done"
    PROVE  AttemptInv'
<1>1. Stamped(kept', call') /\ Stamped(held', call') BY DEF AttemptInv
<1> QED BY <1>1 DEF AttemptInv

\* A turn starts with nothing written (modelTurn).
LEMMA InitAttempt == Init => AttemptInv
<1> SUFFICES ASSUME Init PROVE AttemptInv
  OBVIOUS
<1>1. Stamped(kept, call) /\ Stamped(held, call)
  BY StampedEmpty DEF Init
<1> QED BY <1>1 DEF Init, AttemptInv

\* Flushing appends entries of the call, all or the first of them
\* (flushHeld).
LEMMA FlushWrites ==
    ASSUME AttemptInv, NEW ok \in BOOLEAN, Flush(ok), call' = call
    PROVE  Stamped(kept', call') /\ Stamped(held', call')
<1>1. Len(held) \in Nat BY DEF AttemptInv, Stamped
<1>2. PICK n \in 0..Len(held) : Flushed(n) BY <1>1 DEF Flush
<1>3. Stamped(SubSeq(held, 1, n), call) BY StampedSubSeq DEF AttemptInv
<1>4. Stamped(kept \o SubSeq(held, 1, n), call)
  BY <1>3, StampedConcat DEF AttemptInv
<1> QED BY <1>2, <1>4, StampedEmpty DEF Flushed

\* Every step of a turn keeps the invariant.
LEMMA NextAttempt == AttemptInv /\ [Next]_vars => AttemptInv'
<1> SUFFICES ASSUME AttemptInv, [Next]_vars PROVE AttemptInv'
  OBVIOUS
<1>1. CASE Build
  <2>1. kept = <<>> /\ ~blocked /\ ~committed
    BY <1>1 DEF Build, AttemptInv
  <2>2. CASE StartStream
    <3>1. UNCHANGED <<kept, blocked>>
      BY <1>1, <2>2 DEF Build, StartStream, Finish
    <3> QED BY <2>1, <2>2, <3>1, NewAttempt
  <2>3. CASE UNCHANGED <<call, streamVars>>
    <3>1. phase' = "done" /\ UNCHANGED <<kept, held, call, committed>>
      BY <1>1, <2>3 DEF Build, Finish, streamVars, StartStream, AttemptInv
    <3> QED BY <2>1, <3>1, NothingWritten DEF AttemptInv
  <2> QED BY <1>1, <2>2, <2>3 DEF Build
<1>2. ASSUME NEW i \in Items, ItemAdded(i) PROVE AttemptInv'
  <2> DEFINE commits == ~committed /\ Kind(i) # "reason"
  <2>1. /\ call' = call /\ ~blocked /\ blocked' = blocked
        /\ phase = "stream" /\ phase' \in {"stream", "done"}
        /\ committed' \in BOOLEAN /\ (committed \/ commits => committed')
    BY <1>2 DEF ItemAdded, AttemptInv, Finish
  <2>2. CASE commits
    <3>1. PICK ok \in BOOLEAN : Flush(ok) BY <1>2, <2>2 DEF ItemAdded
    <3>2. Stamped(kept', call') /\ Stamped(held', call')
      BY <2>1, <3>1, FlushWrites
    <3> QED BY <2>1, <2>2, <3>2 DEF AttemptInv
  <2>3. CASE ~commits
    <3>1. UNCHANGED <<kept, held>> BY <1>2, <2>3 DEF ItemAdded
    <3> QED BY <2>1, <3>1, NothingWritten DEF AttemptInv
  <2> QED BY <2>2, <2>3
<1>3. ASSUME NEW i \in Items, ItemDone(i) PROVE AttemptInv'
  <2>1. /\ call' = call /\ ~blocked /\ blocked' = blocked
        /\ phase = "stream" /\ phase' \in {"stream", "done"}
        /\ committed' = committed
    BY <1>3 DEF ItemDone, AttemptInv, Finish
  <2>2. CASE ~committed
    <3>1. PICK id : held' = Append(held, Entry(i, id)) /\ kept' = kept
      BY <1>3, <2>2 DEF ItemDone
    <3>2. Entry(i, id).by = call BY DEF Entry
    <3>3. Stamped(held', call') /\ Stamped(kept', call')
      BY <2>1, <3>1, <3>2, StampedAppend DEF AttemptInv
    <3> QED BY <2>1, <2>2, <3>1, <3>3 DEF AttemptInv
  <2>3. CASE committed
    <3>1. PICK id : kept' = Append(kept, Entry(i, id)) /\ held' = held
      BY <1>3, <2>3 DEF ItemDone
    <3>2. Entry(i, id).by = call BY DEF Entry
    <3>3. Stamped(held', call') /\ Stamped(kept', call')
      BY <2>1, <3>1, <3>2, StampedAppend DEF AttemptInv
    <3> QED BY <2>1, <2>3, <3>3 DEF AttemptInv
  <2> QED BY <2>2, <2>3
<1>4. ASSUME NEW i \in Items, MessageRefused(i) PROVE AttemptInv'
  BY <1>4, NothingWritten DEF MessageRefused, Finish, AttemptInv
<1>5. CASE UpdateFails
  BY <1>5, NothingWritten DEF UpdateFails, Finish, AttemptInv
<1>6. CASE Terminal BY <1>6, NothingWritten DEF Terminal, AttemptInv
<1>7. CASE StreamEnds
  <2> DEFINE s == Completed(final.list)
  <2>1. /\ call' = call /\ ~blocked /\ blocked' = blocked
        /\ held' = <<>> /\ committed' = TRUE /\ phase' = "done"
    BY <1>7 DEF StreamEnds, AttemptInv, Finish
  <2>2. PICK late \in Ascending(Late(s)) :
          LET more == held \o FromResponse(s, late)
          IN  \/ kept' = kept \o more
              \/ \E n \in 0..Len(more) : kept' = kept \o SubSeq(more, 1, n)
    BY <1>7 DEF StreamEnds
  <2> DEFINE more == held \o FromResponse(s, late)
  <2>3. Stamped(more, call) BY StampedLate, StampedConcat DEF AttemptInv
  <2>4. Stamped(kept', call')
    <3>1. CASE kept' = kept \o more
      BY <2>1, <2>3, <3>1, StampedConcat DEF AttemptInv
    <3>2. ASSUME NEW n \in 0..Len(more), kept' = kept \o SubSeq(more, 1, n)
          PROVE  Stamped(kept', call')
      BY <2>1, <2>3, <3>2, StampedSubSeq, StampedConcat DEF AttemptInv
    <3> QED BY <2>2, <3>1, <3>2
  <2>5. Stamped(held', call') BY <2>1, StampedEmpty
  <2> QED BY <2>1, <2>4, <2>5 DEF AttemptInv
<1>8. CASE ResponseFailed
  BY <1>8, NothingWritten DEF ResponseFailed, Finish, AttemptInv
<1>9. CASE Fold
  <2>1. kept = <<>> /\ ~blocked /\ ~committed
    BY <1>9 DEF Fold, AttemptInv
  <2>2. CASE StartStream
    <3>1. UNCHANGED <<kept, blocked>>
      BY <1>9, <2>2 DEF Fold, RetryOrFail, StartStream, Finish
    <3> QED BY <2>1, <2>2, <3>1, NewAttempt
  <2>3. CASE UNCHANGED <<call, streamVars>>
    <3>1. UNCHANGED <<kept, held, call, committed>>
      BY <1>9, <2>3 DEF Fold, streamVars
    <3>2. phase' \in {"wait", "done"} /\ (blocked' => phase' = "done")
      BY <1>9, <2>1, <2>3 DEF Fold, RetryOrFail, Finish, StartStream, AttemptInv
    <3> QED BY <2>1, <3>1, <3>2, NothingWritten DEF AttemptInv
  <2> QED BY <1>9, <2>2, <2>3 DEF Fold
<1>10. CASE Wake
  <2>1. kept = <<>> /\ ~blocked /\ ~committed
    BY <1>10 DEF Wake, AttemptInv
  <2>2. CASE StartStream BY <1>10, <2>1, <2>2, NewAttempt DEF Wake
  <2>3. CASE UNCHANGED <<call, streamVars>>
    BY <1>10, <2>1, <2>3, NothingWritten DEF Wake, Finish, streamVars, AttemptInv
  <2> QED BY <1>10, <2>2, <2>3 DEF Wake
<1>11. CASE Drain
  <2>1. ~blocked /\ phase' = "done" /\ blocked' = blocked
    BY <1>11 DEF Drain, Withhold, CloseWithheld, Finish, AttemptInv
  <2> QED BY <1>11, <2>1, NothingWritten DEF Drain, streamVars, AttemptInv
<1>12. ASSUME NEW err \in Errors, StreamFails(err) PROVE AttemptInv'
  <2>1. UNCHANGED <<call, kept, held, committed>>
    BY <1>12 DEF StreamFails, streamVars
  <2>2. phase' = "wait" => ~committed
    BY <1>12 DEF StreamFails, GuardStop, Withhold, CloseWithheld, Finish,
                 RetryOrFail, MayRetry
  <2>3. phase' # "build"
    BY <1>12 DEF StreamFails, GuardStop, Withhold, CloseWithheld, Finish,
                 RetryOrFail
  <2>4. blocked' => (Named => kept = <<>>) /\ phase' = "done"
    BY <1>12 DEF StreamFails, GuardStop, Withhold, CloseWithheld, Finish,
                 AttemptInv
  <2>5. Named' = Named BY <1>12 DEF StreamFails, Named, streamVars
  <2> QED BY <2>1, <2>2, <2>3, <2>4, <2>5, NothingWritten DEF AttemptInv
<1>13. CASE Cancel
  BY <1>13, NothingWritten DEF Cancel, streamVars, AttemptInv, Named
<1>14. CASE UNCHANGED vars
  BY <1>14, NothingWritten DEF vars, streamVars, AttemptInv, Named
<1> QED BY <1>1, <1>2, <1>3, <1>4, <1>5, <1>6, <1>7, <1>8, <1>9, <1>10, <1>11,
     <1>12, <1>13, <1>14 DEF Next, Step, Done

\* Whatever the turn has in the transcript is of the call in flight, for
\* any server and any retry policy: no retried attempt leaves a trace
\* (stream's committed and held, modelTurn's retry).
THEOREM RetryLeavesNoTrace == Spec => []NoTraceOfRetried
<1>1. AttemptInv => NoTraceOfRetried
  BY DEF AttemptInv, Stamped, NoTraceOfRetried
<1> QED BY InitAttempt, NextAttempt, <1>1, PTL DEF Spec

\* A call that is reported blocked left nothing in the transcript, whatever
\* the stream had sent before the refusal, if it named the response
\* (modelTurn's ModelBlocked and guardedResponse).
THEOREM BlockedIsEmpty == Spec => []BlockedLeavesNothing
<1>1. AttemptInv => BlockedLeavesNothing
  BY DEF AttemptInv, BlockedLeavesNothing
<1> QED BY InitAttempt, NextAttempt, <1>1, PTL DEF Spec

-----------------------------------------------------------------------------
(* A refused input.                                                        *)

\* The input in flight was not refused; those that were came before it.
RefusedInv ==
    /\ request \in Nat \ {0}
    /\ refused \subseteq 1..request
    /\ phase \in {"build", "stream", "wait"} => request \notin refused

\* Every step keeps it, if the retry policy does not accept the refusal.
LEMMA NextRefused ==
    ASSUME "context" \notin Retryable, RefusedInv, [Next]_vars
    PROVE  RefusedInv'
<1> USE DEF RefusedInv
<1>1. CASE Build BY <1>1 DEF Build, StartStream, Finish
<1>2. ASSUME NEW i \in Items, ItemAdded(i) PROVE RefusedInv'
  BY <1>2 DEF ItemAdded, Finish
<1>3. ASSUME NEW i \in Items, ItemDone(i) PROVE RefusedInv'
  BY <1>3 DEF ItemDone, Finish
<1>4. ASSUME NEW i \in Items, MessageRefused(i) PROVE RefusedInv'
  BY <1>4 DEF MessageRefused, Finish
<1>5. CASE UpdateFails \/ Terminal \/ StreamEnds \/ ResponseFailed
  <2>1. UNCHANGED <<request, refused>> /\ phase' \in {"stream", "done"}
        /\ phase = "stream"
    BY <1>5 DEF UpdateFails, Terminal, StreamEnds, ResponseFailed, Finish
  <2> QED BY <2>1
<1>6. CASE Fold
  <2>1. refused' = refused \cup {request} /\ phase = "stream"
    BY <1>6 DEF Fold
  <2>2. \/ request' = request + 1
        \/ request' = request /\ phase' = "done"
    BY <1>6 DEF Fold, RetryOrFail, MayRetry, Finish
  <2>3. refused' \subseteq 1..request' /\ request' \in Nat \ {0}
    BY <2>1, <2>2
  <2>4. request' = request + 1 => request' \notin refused' BY <2>1
  <2> QED BY <2>2, <2>3, <2>4
<1>7. CASE Wake BY <1>7 DEF Wake, StartStream, Finish
<1>8. CASE Drain BY <1>8 DEF Drain, Withhold, CloseWithheld, Finish
<1>9. ASSUME NEW err \in Errors, StreamFails(err) PROVE RefusedInv'
  <2>1. request' = request /\ phase = "stream" BY <1>9 DEF StreamFails
  <2>2. CASE err = "context"
    <3>1. refused' = refused \cup {request}
      BY <1>9, <2>2 DEF StreamFails
    <3>2. phase' = "done"
      BY <1>9, <2>2 DEF StreamFails, RetryOrFail, MayRetry, Finish
    <3>3. refused' \subseteq 1..request' BY <2>1, <3>1
    <3> QED BY <2>1, <3>2, <3>3
  <2>3. CASE err # "context" BY <1>9, <2>1, <2>3 DEF StreamFails
  <2> QED BY <2>2, <2>3
<1>10. CASE Cancel BY <1>10 DEF Cancel
<1>11. CASE UNCHANGED vars BY <1>11 DEF vars
<1> QED BY <1>1, <1>2, <1>3, <1>4, <1>5, <1>6, <1>7, <1>8, <1>9, <1>10, <1>11
     DEF Next, Step, Done

\* An input the server refused as too long is never sent again, where the
\* retry policy does not accept that refusal, as the default one does not
\* (modelTurn's fold, DefaultRetryable).
THEOREM RefusedIsNotResent ==
    ASSUME "context" \notin Retryable
    PROVE  Spec => []RefusedNotResent
<1>1. Init => RefusedInv BY DEF Init, RefusedInv
<1>2. RefusedInv /\ [Next]_vars => RefusedInv' BY NextRefused
<1>3. RefusedInv => RefusedNotResent BY DEF RefusedInv, RefusedNotResent
<1> QED BY <1>1, <1>2, <1>3, PTL DEF Spec

-----------------------------------------------------------------------------
(* A turn that a guard stopped.                                            *)

\* A turn that goes on was not stopped, and one a guard stopped is closed.
WithheldInv ==
    /\ phase # "done" => outcome # "guard"
    /\ WithheldIsClosed

\* A step that does not end with a guard's stop keeps it.
LEMMA NotStopped ==
    ASSUME outcome' # "guard"
    PROVE  WithheldInv'
BY DEF WithheldInv, WithheldIsClosed

\* Nor is there anything to close where nothing was written (modelTurn, of
\* a call that BeforeModelCall refused).
LEMMA NothingToClose ==
    ASSUME phase' = "done", kept' = <<>>
    PROVE  WithheldInv'
BY DEF WithheldInv, WithheldIsClosed, KeptCalls

\* A stop that answers every call of the turn closes it; one that a
\* subscriber cut short is no guard's stop (closeWithheld).
LEMMA ClosesAll ==
    ASSUME CloseWithheld, kept' = kept
    PROVE  WithheldInv'
<1>1. CASE outcome' = "guard"
  <2>1. outs' = {kept[k].id : k \in KeptCalls} /\ phase' = "done"
    BY <1>1 DEF CloseWithheld, Finish
  <2>2. KeptCalls' = KeptCalls BY DEF KeptCalls
  <2>3. \A k \in KeptCalls' : kept'[k].id \in outs' BY <2>1, <2>2
  <2> QED BY <2>1, <2>3 DEF WithheldInv, WithheldIsClosed
<1>2. CASE outcome' # "guard" BY <1>2, NotStopped
<1> QED BY <1>1, <1>2

\* Every step of a turn keeps it.
LEMMA NextWithheld ==
    ASSUME AttemptInv, WithheldInv, [Next]_vars
    PROVE  WithheldInv'
<1>1. CASE Build
  <2>1. kept' = <<>> /\ outcome # "guard"
    BY <1>1 DEF Build, AttemptInv, WithheldInv
  <2>2. phase' = "done" \/ outcome' = outcome BY <1>1 DEF Build, Finish
  <2> QED BY <2>1, <2>2, NotStopped, NothingToClose
<1>2. ASSUME NEW i \in Items, ItemAdded(i) \/ ItemDone(i) \/ MessageRefused(i)
      PROVE  WithheldInv'
  <2>1. outcome # "guard"
    BY <1>2 DEF ItemAdded, ItemDone, MessageRefused, WithheldInv
  <2>2. outcome' \in {outcome, "aborted", "failed"}
    BY <1>2 DEF ItemAdded, ItemDone, MessageRefused, Finish
  <2> QED BY <2>1, <2>2, NotStopped
<1>3. CASE UpdateFails \/ Terminal \/ StreamEnds \/ ResponseFailed
  <2>1. outcome # "guard"
    BY <1>3 DEF UpdateFails, Terminal, StreamEnds, ResponseFailed, WithheldInv
  <2>2. outcome' \in {outcome, "answered", "aborted", "failed"}
    BY <1>3 DEF UpdateFails, Terminal, StreamEnds, ResponseFailed, Finish
  <2> QED BY <2>1, <2>2, NotStopped
<1>4. CASE Fold
  <2>1. kept' = <<>> /\ outcome # "guard"
    BY <1>4 DEF Fold, AttemptInv, WithheldInv
  <2>2. phase' = "done" \/ outcome' = outcome
    BY <1>4 DEF Fold, RetryOrFail, Finish
  <2> QED BY <2>1, <2>2, NotStopped, NothingToClose
<1>5. CASE Wake
  <2>1. outcome # "guard" BY <1>5 DEF Wake, WithheldInv
  <2>2. outcome' \in {outcome, "aborted"} BY <1>5 DEF Wake, Finish
  <2> QED BY <2>1, <2>2, NotStopped
<1>6. CASE Drain
  <2>1. kept' = kept /\ (CloseWithheld \/ outcome' = "failed")
    BY <1>6 DEF Drain, Withhold, Finish
  <2> QED BY <2>1, ClosesAll, NotStopped
<1>7. ASSUME NEW err \in Errors, StreamFails(err) PROVE WithheldInv'
  <2>1. kept' = kept /\ outcome # "guard"
    BY <1>7 DEF StreamFails, WithheldInv
  <2>2. CloseWithheld \/ outcome' \in {outcome, "aborted", "failed"}
    BY <1>7 DEF StreamFails, GuardStop, Withhold, RetryOrFail, Finish
  <2> QED BY <2>1, <2>2, ClosesAll, NotStopped
<1>8. CASE Cancel
  <2>1. outcome' = outcome /\ outcome # "guard"
    BY <1>8 DEF Cancel, WithheldInv
  <2> QED BY <2>1, NotStopped
<1>9. CASE UNCHANGED vars
  <2>1. UNCHANGED <<phase, outcome, kept, outs>> BY <1>9 DEF vars
  <2> QED BY <2>1 DEF WithheldInv, WithheldIsClosed, KeptCalls
<1> QED BY <1>1, <1>2, <1>3, <1>4, <1>5, <1>6, <1>7, <1>8, <1>9
     DEF Next, Step, Done

\* A turn that a guard stopped leaves no call without an output, whatever
\* the server sent before the stop and however often it was retried, so
\* the transcript can start the next run (closeWithheld).
THEOREM GuardStopIsClosed == Spec => []WithheldIsClosed
<1>1. Init => WithheldInv BY DEF Init, WithheldInv, WithheldIsClosed
<1>2. AttemptInv /\ WithheldInv /\ [Next]_vars => WithheldInv'
  BY NextWithheld
<1>3. WithheldInv => WithheldIsClosed BY DEF WithheldInv
<1> QED BY InitAttempt, NextAttempt, <1>1, <1>2, <1>3, PTL DEF Spec

-----------------------------------------------------------------------------
(* Call IDs.                                                               *)

IsCall(k) == srv.out[k].kind = "call"

\* The ID that the call of an opened entry goes by.
IDOf(o) == IF o.call THEN o.id ELSE o.as

\* The IDs of the calls of a transcript, and whether no two share one.
IDs(q) == {q[k].id : k \in {j \in DOMAIN q : q[j].kind = "call"}}

Apart(q) ==
    \A j, k \in DOMAIN q :
        q[j].kind = "call" /\ q[k].kind = "call" /\ q[j].id = q[k].id => j = k

\* An ID that was decided on names no call of the transcript before the
\* turn, and none that is made later, where n are made.
GoodID(id, n) == id \in Nat \ (Taken \cup {0}) /\ id <= LastID + n

\* The items a stream opened are those it answers with, in their order.
OpenedInv ==
    /\ opened \in Seq(OpenedEntry) /\ Len(opened) <= Len(srv.out)
    /\ \A k \in DOMAIN opened :
          /\ opened[k].of = k /\ opened[k].index = Index(k) /\ ~opened[k].late
          /\ opened[k].call => IsCall(k)
          /\ IsCall(k) => opened[k].call \/ opened[k].done

\* Each call of the stream has an ID of its own.
OwnInv ==
    /\ minted \in Nat
    /\ \A id \in decided : GoodID(id, minted)
    /\ \A k \in DOMAIN opened : IsCall(k) =>
          /\ IDOf(opened[k]) \in decided
          /\ \A j \in DOMAIN opened :
                IsCall(j) /\ IDOf(opened[j]) = IDOf(opened[k]) => j = k

\* The calls opened at an index.
CallsAt(x) == {k \in DOMAIN opened : IsCall(k) /\ Index(k) = x}

\* callAt is call k, the last that opened at the index, and has its item ID
\* once an event gave it.
SlotIs(x, k) ==
    /\ \A j \in CallsAt(x) : j <= k
    /\ callAt[x].id = IDOf(opened[k])
    /\ callAt[x].item # 0 => callAt[x].item = k /\ callItems[k] = IDOf(opened[k])
    /\ srv.done /\ opened[k].done => callAt[x].item # 0

\* callAt holds the last call at each index, and callItems knows a call by
\* its item ID.
SlotInv ==
    /\ callAt \in [Indexes -> [id : Nat, item : {0} \cup Items]]
    /\ callItems \in [Items -> Nat]
    /\ \A x \in Indexes :
          /\ CallsAt(x) = {} => callAt[x] = NoSlot
          /\ CallsAt(x) # {} => \E k \in CallsAt(x) : SlotIs(x, k)
    /\ \A i \in Items : callItems[i] # 0 =>
          i \in DOMAIN opened /\ IsCall(i) /\ callItems[i] = IDOf(opened[i])

\* The IDs of the calls that the stream completed.
DoneIDs ==
    {opened[k].as : k \in {j \in DOMAIN opened : IsCall(j) /\ opened[j].done}}

\* What is kept and held are calls that the stream completed, each once.
WrittenInv ==
    /\ Apart(kept) /\ Apart(held) /\ IDs(kept) \cap IDs(held) = {}
    /\ IDs(kept) \cup IDs(held) \subseteq DoneIDs

\* The last response lists items of the server.
ListedCall == [of : Items, item : {0} \cup Items, cid : 0..LastID, same : BOOLEAN]
ListInv == final.list \in Seq(ListedCall)

StreamInv ==
    /\ OpenedInv /\ OwnInv /\ SlotInv /\ WrittenInv /\ ListInv

IdentityInv ==
    /\ srv \in Servers
    /\ CallIDIsIdentity
    /\ phase = "stream" => StreamInv

\* The least number of a set: what the induction on a list rests on.
LEMMA LeastNat ==
    ASSUME NEW T \in SUBSET Nat, T # {}
    PROVE  \E x \in T : \A y \in T : x <= y
<1>1. PICK x \in T : \A y \in T : ~(<<y, x>> \in OpToRel(<, Nat))
  BY WFMin, NatLessThanWellFounded, Zenon
<1>2. \A y \in T : ~(y < x) BY <1>1 DEF OpToRel
<1> QED BY <1>2

\* A set that holds 0, and the next of each number it holds, up to n.
LEMMA UpTo ==
    ASSUME NEW S, NEW n \in Nat, 0 \in S,
           \A m \in 0..n : m \in S /\ m < n => m + 1 \in S
    PROVE  0..n \subseteq S
<1> SUFFICES ASSUME (0..n) \ S # {} PROVE FALSE
  OBVIOUS
<1> DEFINE T == (0..n) \ S
<1>1. T \in SUBSET Nat /\ T # {} OBVIOUS
<1> HIDE DEF T
<1>2. PICK x \in T : \A y \in T : x <= y BY <1>1, LeastNat
<1> USE DEF T
<1>3. x # 0 /\ x - 1 \in 0..n /\ x - 1 \in S BY <1>2
<1> QED BY <1>2, <1>3

\* A sequence with one element more.
LEMMA Appended ==
    ASSUME NEW S, NEW s \in Seq(S), NEW e \in S
    PROVE  LET t == Append(s, e) IN
           /\ t \in Seq(S) /\ Len(t) = Len(s) + 1 /\ Len(s) \in Nat
           /\ DOMAIN s = 1..Len(s) /\ DOMAIN t = 1..Len(t)
           /\ DOMAIN t = DOMAIN s \cup {Len(s) + 1}
           /\ Len(s) + 1 \notin DOMAIN s
           /\ t[Len(s) + 1] = e /\ \A k \in DOMAIN s : t[k] = s[k]
<1> DEFINE t == Append(s, e)
<1>1. /\ t \in Seq(S) /\ Len(t) = Len(s) + 1 /\ Len(s) \in Nat
      /\ DOMAIN s = 1..Len(s) /\ DOMAIN t = 1..Len(t)
  OBVIOUS
<1>2. DOMAIN t = DOMAIN s \cup {Len(s) + 1} /\ Len(s) + 1 \notin DOMAIN s
  BY <1>1
<1>3. t[Len(s) + 1] = e /\ \A k \in DOMAIN s : t[k] = s[k] OBVIOUS
<1> QED BY <1>1, <1>2, <1>3

\* The IDs of two transcripts that share none, one after the other.
LEMMA ApartConcat ==
    ASSUME NEW S, NEW p \in Seq(S), NEW q \in Seq(S),
           Apart(p), Apart(q), IDs(p) \cap IDs(q) = {}
    PROVE  Apart(p \o q) /\ IDs(p \o q) = IDs(p) \cup IDs(q)
<1> DEFINE u == p \o q
           IsC(s, k) == s[k].kind = "call"
<1>1. /\ Len(p) \in Nat /\ Len(q) \in Nat /\ u \in Seq(S)
      /\ Len(u) = Len(p) + Len(q)
      /\ DOMAIN p = 1..Len(p) /\ DOMAIN q = 1..Len(q) /\ DOMAIN u = 1..Len(u)
  OBVIOUS
<1>2. \A k \in DOMAIN u :
         \/ k \in DOMAIN p /\ u[k] = p[k]
         \/ k - Len(p) \in DOMAIN q /\ u[k] = q[k - Len(p)]
  BY <1>1
<1>3. \A k \in DOMAIN p : k \in DOMAIN u /\ u[k] = p[k] BY <1>1
<1>4. \A k \in DOMAIN q : k + Len(p) \in DOMAIN u /\ u[k + Len(p)] = q[k]
  BY <1>1
<1>5. IDs(u) = IDs(p) \cup IDs(q)
  <2>1. \A x \in IDs(u) : x \in IDs(p) \cup IDs(q) BY <1>2 DEF IDs
  <2>2. \A x \in IDs(p) : x \in IDs(u) BY <1>3 DEF IDs
  <2>3. \A x \in IDs(q) : x \in IDs(u) BY <1>4 DEF IDs
  <2> QED BY <2>1, <2>2, <2>3
<1>6. Apart(u)
  <2> SUFFICES ASSUME NEW j \in DOMAIN u, NEW k \in DOMAIN u,
                      u[j].kind = "call", u[k].kind = "call", u[j].id = u[k].id
               PROVE  j = k
    BY DEF Apart
  <2>1. CASE j \in DOMAIN p /\ u[j] = p[j] /\ k \in DOMAIN p /\ u[k] = p[k]
    BY <2>1 DEF Apart
  <2>2. CASE /\ j - Len(p) \in DOMAIN q /\ u[j] = q[j - Len(p)]
             /\ k - Len(p) \in DOMAIN q /\ u[k] = q[k - Len(p)]
    <3>1. j - Len(p) = k - Len(p) BY <2>2 DEF Apart
    <3> QED BY <3>1, <1>1
  <2>3. CASE /\ j \in DOMAIN p /\ u[j] = p[j]
             /\ k - Len(p) \in DOMAIN q /\ u[k] = q[k - Len(p)]
    BY <2>3 DEF IDs
  <2>4. CASE /\ k \in DOMAIN p /\ u[k] = p[k]
             /\ j - Len(p) \in DOMAIN q /\ u[j] = q[j - Len(p)]
    BY <2>4 DEF IDs
  <2> QED BY <1>2, <2>1, <2>2, <2>3, <2>4
<1> QED BY <1>5, <1>6

\* A first part of a transcript.
LEMMA ApartSubSeq ==
    ASSUME NEW S, NEW p \in Seq(S), Apart(p), NEW n \in 0..Len(p)
    PROVE  /\ SubSeq(p, 1, n) \in Seq(S)
           /\ Apart(SubSeq(p, 1, n)) /\ IDs(SubSeq(p, 1, n)) \subseteq IDs(p)
<1> DEFINE u == SubSeq(p, 1, n)
<1>1. u \in Seq(S) /\ DOMAIN u = 1..n /\ DOMAIN p = 1..Len(p) /\ Len(p) \in Nat
  OBVIOUS
<1>2. \A k \in DOMAIN u : u[k] = p[k] /\ k \in DOMAIN p BY <1>1
<1>3. Apart(u) BY <1>2 DEF Apart
<1>4. IDs(u) \subseteq IDs(p) BY <1>2 DEF IDs
<1> QED BY <1>1, <1>3, <1>4

\* A transcript with one entry more.
LEMMA ApartAppend ==
    ASSUME NEW S, NEW p \in Seq(S), Apart(p), NEW e,
           e.kind = "call" => e.id \notin IDs(p)
    PROVE  /\ Apart(Append(p, e))
           /\ IDs(Append(p, e)) =
                 IDs(p) \cup (IF e.kind = "call" THEN {e.id} ELSE {})
<1> DEFINE R == S \cup {e}
           t == Append(p, e)
<1>1. p \in Seq(R) /\ e \in R OBVIOUS
<1>2. /\ DOMAIN t = DOMAIN p \cup {Len(p) + 1} /\ Len(p) + 1 \notin DOMAIN p
      /\ t[Len(p) + 1] = e /\ \A k \in DOMAIN p : t[k] = p[k]
  BY <1>1, Appended
<1> HIDE DEF t
<1>3. Apart(t) BY <1>2 DEF Apart, IDs
<1>4. IDs(t) = IDs(p) \cup (IF e.kind = "call" THEN {e.id} ELSE {})
  BY <1>2 DEF IDs
<1> QED BY <1>3, <1>4 DEF t

\* The empty transcript.
LEMMA ApartEmpty == Apart(<<>>) /\ IDs(<<>>) = {}
BY DEF Apart, IDs

\* UniqueCallIDs, of the IDs of a transcript.
LEMMA UniqueIs ==
    UniqueCallIDs <=> Apart(kept) /\ IDs(kept) \cap (Taken \cup {0}) = {}
BY DEF UniqueCallIDs, Apart, IDs, KeptCalls

\* An ID that is decided on is new, and stays apart from those to come
\* (decideCallID).
LEMMA FreshID ==
    ASSUME NEW cid \in 0..LastID, NEW ids, NEW n \in Nat,
           \A id \in ids : GoodID(id, n)
    PROVE  LET d == Decided(cid, ids, n)
               m == Made(cid, ids, n)
           IN  /\ m \in Nat /\ d \notin ids
               /\ \A id \in ids \cup {d} : GoodID(id, m)
<1> USE TurnAssumption
<1>1. CASE CallIDTaken(cid, ids) BY <1>1 DEF Decided, Made, GoodID
<1>2. CASE ~CallIDTaken(cid, ids)
  BY <1>2 DEF Decided, Made, GoodID, CallIDTaken
<1> QED BY <1>1, <1>2

\* What a server answers with.
LEMMA ServerFacts ==
    ASSUME srv \in Servers
    PROVE  /\ Len(srv.out) \in Nat /\ Items = 1..Len(srv.out)
           /\ Indexes = Items /\ Items \subseteq Nat \ {0}
           /\ \A i \in Items : /\ Index(i) \in Indexes /\ Kind(i) \in Kinds
                               /\ srv.out[i].cid \in 0..LastID
                               /\ IsCall(i) <=> Kind(i) = "call"
<1>1. srv \in Server BY TurnAssumption
<1>2. srv.out \in Seq([kind : Kinds, cid : 0..LastID])
  BY <1>1 DEF Server
<1>3. Len(srv.out) \in Nat /\ DOMAIN srv.out = 1..Len(srv.out) BY <1>2
<1> DEFINE R == [kind : Kinds, cid : 0..LastID]
<1>4. \A i \in 1..Len(srv.out) : srv.out[i] \in R
  <2> HIDE DEF R
  <2>1. srv.out \in Seq(R) BY <1>2 DEF R
  <2> QED BY <2>1
<1>5. Items = 1..Len(srv.out) /\ Indexes = Items /\ Items \subseteq Nat \ {0}
  BY <1>3 DEF Items, Indexes
<1>6. ASSUME NEW i \in Items
      PROVE  /\ Index(i) \in Indexes /\ Kind(i) \in Kinds
             /\ srv.out[i].cid \in 0..LastID
             /\ IsCall(i) <=> Kind(i) = "call"
  <2>1. Index(i) \in Indexes BY <1>3, <1>5 DEF Index
  <2>2. srv.out[i] \in R BY <1>4, <1>5
  <2>3. Kind(i) \in Kinds /\ srv.out[i].cid \in 0..LastID
    BY <2>2 DEF Kind
  <2> QED BY <2>1, <2>3 DEF Kind, IsCall
<1> QED BY <1>3, <1>5, <1>6

\* The items that were opened are the first, and the next is one more.
LEMMA StartedIs ==
    ASSUME srv \in Servers, OpenedInv
    PROVE  /\ Started = DOMAIN opened /\ DOMAIN opened = 1..Len(opened)
           /\ Len(opened) \in Nat /\ DOMAIN opened \subseteq Items
           /\ \A i \in Items : NextItem(i) <=> i = Len(opened) + 1
<1>1. /\ DOMAIN opened = 1..Len(opened) /\ Len(opened) \in Nat
      /\ Len(opened) <= Len(srv.out)
  BY DEF OpenedInv
<1>2. Started = DOMAIN opened BY ZenonT(60) DEF Started, OpenedInv
<1>3. DOMAIN opened \subseteq Items BY <1>1, ServerFacts
<1>4. ASSUME NEW i \in Items PROVE NextItem(i) <=> i = Len(opened) + 1
  <2>1. i \in Nat \ {0} BY ServerFacts
  <2>2. CASE 1..Len(opened) = 1..(i - 1)
    <3>1. Len(opened) \in 1..(i - 1) \/ Len(opened) = 0
      <4>1. Len(opened) \in 1..Len(opened) \/ Len(opened) = 0 BY <1>1
      <4> QED BY <2>2, <4>1
    <3>2. i - 1 \in 1..Len(opened) \/ i - 1 = 0 BY <2>1, <2>2
    <3>3. Len(opened) = 0 => i - 1 = 0 BY <1>1, <2>1, <3>2
    <3>4. i - 1 = 0 => Len(opened) = 0 BY <1>1, <2>1, <3>1
    <3> QED BY <1>1, <1>2, <2>1, <2>2, <3>1, <3>2, <3>3, <3>4 DEF NextItem
  <2>3. CASE 1..Len(opened) # 1..(i - 1)
    <3>1. i # Len(opened) + 1 BY <1>1, <2>1, <2>3
    <3> QED BY <1>1, <1>2, <2>3, <3>1 DEF NextItem
  <2> QED BY <2>2, <2>3
<1> QED BY <1>1, <1>2, <1>3, <1>4

\* An item that is no call is opened, or left out of the stream until it is
\* done: no ID moves (streamEvent).
LEMMA NewOther ==
    ASSUME srv \in Servers, OpenedInv, OwnInv, SlotInv,
           NEW i \in Items, i = Len(opened) + 1, ~IsCall(i),
           NEW e \in OpenedEntry, e.of = i, e.index = Index(i), ~e.late, ~e.call,
           opened' = Append(opened, e),
           UNCHANGED <<srv, callAt, callItems, decided, minted>>
    PROVE  OpenedInv' /\ OwnInv' /\ SlotInv'
<1>1. /\ opened' \in Seq(OpenedEntry) /\ DOMAIN opened' = DOMAIN opened \cup {i}
      /\ Len(opened') = i
      /\ i \notin DOMAIN opened /\ opened'[i] = e
      /\ \A k \in DOMAIN opened : opened'[k] = opened[k]
  BY Appended DEF OpenedInv
<1>2. i <= Len(srv.out) BY ServerFacts
<1>3. OpenedEntry' = OpenedEntry /\ \A k : IsCall(k)' = IsCall(k) /\ Index(k)' = Index(k)
  BY DEF OpenedEntry, IsCall, Index, Items, Indexes
<1>4. OpenedInv' BY <1>1, <1>2, <1>3 DEF OpenedInv
<1>5. OwnInv' BY <1>1, <1>3 DEF OwnInv, IDOf, GoodID
<1>6. \A x : CallsAt(x)' = CallsAt(x) BY <1>1, <1>3 DEF CallsAt
<1>7. SlotInv'
  <2>1. Items' = Items /\ Indexes' = Indexes BY DEF Items, Indexes
  <2>2. ASSUME NEW x \in Indexes, NEW k \in CallsAt(x), SlotIs(x, k)
        PROVE  SlotIs(x, k)'
    <3>1. k \in DOMAIN opened BY DEF CallsAt
    <3> QED BY <1>1, <1>6, <2>2, <3>1 DEF SlotIs, IDOf
  <2>3. \A k \in Items : callItems[k] # 0 =>
           k \in DOMAIN opened' /\ IsCall(k)' /\ callItems[k] = IDOf(opened'[k])
    BY <1>1, <1>3 DEF SlotInv
  <2> QED BY <1>6, <2>1, <2>2, <2>3 DEF SlotInv
<1> QED BY <1>4, <1>5, <1>7

\* A call is opened, or done though it was never opened, and gets an ID of
\* its own (decideCallID).
LEMMA NewCall ==
    ASSUME srv \in Servers, OpenedInv, OwnInv, SlotInv,
           NEW i \in Items, i = Len(opened) + 1, IsCall(i),
           NEW item \in {0, i}, DecideCallID(i, item),
           NEW e \in OpenedEntry, e.of = i, e.index = Index(i), ~e.late,
           e.call \/ e.done, IDOf(e) = Decided(srv.out[i].cid, decided, minted),
           srv.done /\ e.done => item # 0,
           opened' = Append(opened, e), srv' = srv
    PROVE  OpenedInv' /\ OwnInv' /\ SlotInv'
<1> DEFINE id == Decided(srv.out[i].cid, decided, minted)
           m == Made(srv.out[i].cid, decided, minted)
<1>x. PICK x0 : x0 = Index(i) OBVIOUS
<1>1. /\ opened' \in Seq(OpenedEntry) /\ DOMAIN opened' = DOMAIN opened \cup {i}
      /\ Len(opened') = i
      /\ i \notin DOMAIN opened /\ opened'[i] = e
      /\ \A k \in DOMAIN opened : opened'[k] = opened[k]
  BY Appended DEF OpenedInv
<1>2. /\ i <= Len(srv.out) /\ srv.out[i].cid \in 0..LastID /\ x0 \in Indexes
      /\ Items \subseteq Nat /\ i \in Nat \ {0}
  BY <1>x, ServerFacts
<1>3. OpenedEntry' = OpenedEntry /\ \A k : IsCall(k)' = IsCall(k) /\ Index(k)' = Index(k)
  BY DEF OpenedEntry, IsCall, Index, Items, Indexes
<1>4. OpenedInv' BY <1>1, <1>2, <1>3 DEF OpenedInv
<1>5. /\ callAt' = [callAt EXCEPT ![x0] = [id |-> id, item |-> item]]
      /\ callItems' = IF item = 0 THEN callItems ELSE [callItems EXCEPT ![item] = id]
      /\ decided' = decided \cup {id} /\ minted' = m
  BY <1>x DEF DecideCallID
<1>6. m \in Nat /\ id \notin decided /\ \A d \in decided \cup {id} : GoodID(d, m)
  BY <1>2, FreshID DEF OwnInv
<1> HIDE DEF id, m
<1>7. id \in Nat BY <1>6 DEF GoodID
<1>8. IDOf(e) = id BY DEF id
<1>9. OwnInv'
  <2>1. \A d \in decided' : GoodID(d, minted') BY <1>5, <1>6
  <2>2. \A k \in DOMAIN opened' : IsCall(k) => IDOf(opened'[k]) \in decided'
    BY <1>1, <1>5, <1>8 DEF OwnInv
  <2>3. ASSUME NEW j \in DOMAIN opened', NEW k \in DOMAIN opened',
               IsCall(j), IsCall(k), IDOf(opened'[j]) = IDOf(opened'[k])
        PROVE  j = k
    <3>1. CASE j = i /\ k # i BY <1>1, <1>6, <1>8, <2>3, <3>1 DEF OwnInv
    <3>2. CASE j # i /\ k = i BY <1>1, <1>6, <1>8, <2>3, <3>2 DEF OwnInv
    <3>3. CASE j # i /\ k # i BY <1>1, <2>3, <3>3 DEF OwnInv
    <3> QED BY <3>1, <3>2, <3>3
  <2> QED BY <1>3, <1>5, <1>6, <2>1, <2>2, <2>3 DEF OwnInv, GoodID, IDOf
<1>10. CallsAt(x0)' = CallsAt(x0) \cup {i} /\ \A x : x # x0 => CallsAt(x)' = CallsAt(x)
  BY <1>x, <1>1, <1>3 DEF CallsAt
<1>11. /\ callAt' \in [Indexes -> [id : Nat, item : {0} \cup Items]]
       /\ callItems' \in [Items -> Nat]
  BY <1>2, <1>5, <1>7 DEF SlotInv
<1>12. /\ callAt'[x0] = [id |-> id, item |-> item]
       /\ \A x \in Indexes : x # x0 => callAt'[x] = callAt[x]
       /\ \A k \in Items : k # i => callItems'[k] = callItems[k]
       /\ item # 0 => callItems'[i] = id
       /\ item = 0 => callItems' = callItems
  BY <1>2, <1>5 DEF SlotInv
<1>13. SlotInv'
  <2>1. Items' = Items /\ Indexes' = Indexes BY DEF Items, Indexes
  <2>2. ASSUME NEW x \in Indexes, x # x0, NEW k \in CallsAt(x), SlotIs(x, k)
        PROVE  SlotIs(x, k)'
    <3>1. k \in DOMAIN opened /\ k # i /\ k \in Items
      BY <1>1, StartedIs DEF CallsAt
    <3> QED BY <1>1, <1>10, <1>12, <2>2, <3>1 DEF SlotIs, IDOf
  <2>3. SlotIs(x0, i)' /\ i \in CallsAt(x0)'
    <3>1. \A j \in CallsAt(x0)' : j <= i
      BY <1>2, <1>10, StartedIs DEF CallsAt
    <3> QED BY <1>1, <1>8, <1>10, <1>12, <3>1 DEF SlotIs
  <2>4. \A x \in Indexes : x # x0 /\ CallsAt(x)' # {} =>
           \E k \in CallsAt(x)' : SlotIs(x, k)'
    BY <1>10, <2>2 DEF SlotInv
  <2>5. \A x \in Indexes : x # x0 /\ CallsAt(x)' = {} => callAt'[x] = NoSlot
    BY <1>10, <1>12 DEF SlotInv
  <2>6. ASSUME NEW k \in Items, callItems'[k] # 0
        PROVE  k \in DOMAIN opened' /\ IsCall(k)' /\ callItems'[k] = IDOf(opened'[k])
    <3>1. CASE k = i /\ item # 0 BY <1>1, <1>3, <1>8, <1>12, <3>1
    <3>2. CASE k # i BY <1>1, <1>3, <1>12, <2>6, <3>2 DEF SlotInv
    <3>3. CASE k = i /\ item = 0 BY <1>1, <1>12, <2>6, <3>3 DEF SlotInv
    <3> QED BY <3>1, <3>2, <3>3
  <2>7. \A x \in Indexes' :
          /\ CallsAt(x)' = {} => callAt'[x] = NoSlot
          /\ CallsAt(x)' # {} => \E k \in CallsAt(x)' : SlotIs(x, k)'
    BY <2>1, <2>3, <2>4, <2>5
  <2> QED BY <1>11, <2>1, <2>6, <2>7 DEF SlotInv
<1> QED BY <1>4, <1>9, <1>13

\* An item that was opened is done: a call keeps its ID, and an item ID that
\* the event gives is known from then on (streamEvent).
LEMMA DoneOpened ==
    ASSUME srv \in Servers, OpenedInv, OwnInv, SlotInv,
           NEW i \in DOMAIN opened, NEW e \in OpenedEntry,
           e.of = i, e.index = Index(i), ~e.late, e.done,
           e.call = opened[i].call, IsCall(i) => IDOf(e) = IDOf(opened[i]),
           opened' = [opened EXCEPT ![i] = e], UNCHANGED <<srv, decided, minted>>,
           \/ UNCHANGED <<callAt, callItems>>
           \/ /\ IsCall(i)
              /\ callAt' = [callAt EXCEPT ![Index(i)] =
                               [id |-> IDOf(opened[i]), item |-> i]]
              /\ callItems' = [callItems EXCEPT ![i] = IDOf(opened[i])],
           IsCall(i) => /\ \A j \in CallsAt(Index(i)) : j <= i
                        /\ srv.done => callAt'[Index(i)].item # 0
    PROVE  OpenedInv' /\ OwnInv' /\ SlotInv'
<1>x. PICK x0 : x0 = Index(i) OBVIOUS
<1>1. /\ opened' \in Seq(OpenedEntry) /\ DOMAIN opened' = DOMAIN opened
      /\ Len(opened') = Len(opened) /\ opened'[i] = e
      /\ \A k \in DOMAIN opened : k # i => opened'[k] = opened[k]
  BY DEF OpenedInv
<1>2. i \in Items /\ i \in Nat \ {0} /\ x0 \in Indexes /\ Items \subseteq Nat
  BY <1>x, ServerFacts, StartedIs
<1>3. /\ OpenedEntry' = OpenedEntry /\ Items' = Items /\ Indexes' = Indexes
      /\ \A k : IsCall(k)' = IsCall(k) /\ Index(k)' = Index(k)
  BY DEF OpenedEntry, IsCall, Index, Items, Indexes
<1>4. OpenedInv' BY <1>1, <1>3 DEF OpenedInv
<1>5. \A k \in DOMAIN opened : IsCall(k) => IDOf(opened'[k]) = IDOf(opened[k])
  BY <1>1
<1>6. OwnInv' BY <1>1, <1>3, <1>5 DEF OwnInv, GoodID
<1>7. \A x : CallsAt(x)' = CallsAt(x) BY <1>1, <1>3 DEF CallsAt
<1>8. IsCall(i) => IDOf(opened[i]) \in Nat \ {0} BY DEF OwnInv, GoodID
<1>9. /\ callAt' \in [Indexes -> [id : Nat, item : {0} \cup Items]]
      /\ callItems' \in [Items -> Nat]
  BY <1>2, <1>8 DEF SlotInv
<1>10. \A x \in Indexes : x # x0 \/ ~IsCall(i) => callAt'[x] = callAt[x]
  BY <1>x DEF SlotInv
<1>11. \A k \in Items : k # i => callItems'[k] = callItems[k]
  BY DEF SlotInv
<1>12. ASSUME NEW x \in Indexes, NEW k \in CallsAt(x), SlotIs(x, k)
       PROVE  SlotIs(x, k)'
  <2>1. k \in DOMAIN opened /\ IsCall(k) /\ Index(k) = x /\ k \in Items
    BY StartedIs DEF CallsAt
  <2>2. CASE k # i
    <3>1. IsCall(i) => x # x0
      <4> SUFFICES ASSUME IsCall(i), x = x0 PROVE FALSE
        OBVIOUS
      <4>1. i \in CallsAt(x) BY <1>x DEF CallsAt
      <4>2. i <= k /\ k <= i BY <1>x, <1>12, <4>1 DEF SlotIs
      <4> QED BY <1>2, <2>1, <2>2, <4>2
    <3>2. callAt'[x] = callAt[x] /\ callItems'[k] = callItems[k] /\ opened'[k] = opened[k]
      BY <1>1, <1>10, <1>11, <2>1, <2>2, <3>1
    <3> QED BY <1>7, <1>12, <3>2 DEF SlotIs
  <2>3. CASE k = i
    <3>1. IsCall(i) /\ x = x0 /\ IDOf(opened'[i]) = IDOf(opened[i])
      BY <1>x, <1>5, <2>1, <2>3
    <3>2. CASE UNCHANGED <<callAt, callItems>>
      <4>1. srv.done => callAt'[x].item # 0 BY <1>x, <3>1
      <4>2. /\ \A j \in CallsAt(x)' : j <= k
            /\ callAt'[x].id = IDOf(opened'[k])
            /\ callAt'[x].item # 0 => callAt'[x].item = k /\ callItems'[k] = IDOf(opened'[k])
        BY <1>7, <1>12, <2>3, <3>1, <3>2 DEF SlotIs
      <4> QED BY <4>1, <4>2 DEF SlotIs
    <3>3. CASE /\ callAt' = [callAt EXCEPT ![Index(i)] =
                                [id |-> IDOf(opened[i]), item |-> i]]
               /\ callItems' = [callItems EXCEPT ![i] = IDOf(opened[i])]
      <4>1. callAt'[x] = [id |-> IDOf(opened[i]), item |-> i]
            /\ callItems'[i] = IDOf(opened[i])
        BY <1>x, <1>2, <3>1, <3>3 DEF SlotInv
      <4>2. \A j \in CallsAt(x)' : j <= k BY <1>7, <1>12 DEF SlotIs
      <4> QED BY <1>2, <2>3, <3>1, <4>1, <4>2 DEF SlotIs
    <3> QED BY <3>2, <3>3
  <2> QED BY <2>2, <2>3
<1>13. ASSUME NEW k \in Items, callItems'[k] # 0
       PROVE  k \in DOMAIN opened' /\ IsCall(k)' /\ callItems'[k] = IDOf(opened'[k])
  <2>1. CASE callItems'[k] = callItems[k]
    BY <1>1, <1>3, <1>5, <1>13, <2>1 DEF SlotInv
  <2>2. CASE callItems'[k] # callItems[k]
    <3>1. k = i /\ IsCall(i) /\ callItems'[i] = IDOf(opened[i])
      BY <1>11, <2>2 DEF SlotInv
    <3> QED BY <1>1, <1>3, <1>5, <3>1
  <2> QED BY <2>1, <2>2
<1>14. \A x \in Indexes : CallsAt(x)' = {} => callAt'[x] = NoSlot
  <2> SUFFICES ASSUME NEW x \in Indexes, CallsAt(x)' = {} PROVE callAt'[x] = NoSlot
    OBVIOUS
  <2>1. CallsAt(x) = {} /\ callAt[x] = NoSlot BY <1>7 DEF SlotInv
  <2>2. x # x0 \/ ~IsCall(i) BY <1>x, <2>1 DEF CallsAt
  <2> QED BY <1>10, <2>1, <2>2
<1>15. \A x \in Indexes : CallsAt(x)' # {} => \E k \in CallsAt(x)' : SlotIs(x, k)'
  BY <1>7, <1>12 DEF SlotInv
<1>16. SlotInv' BY <1>3, <1>9, <1>13, <1>14, <1>15 DEF SlotInv
<1> QED BY <1>4, <1>6, <1>16

\* The entry that a done event finds: the item's own, or a new one
\* (openedAt).
LEMMA SelfIs ==
    ASSUME srv \in Servers, OpenedInv, NEW i \in Items, Completes(i)
    PROVE  /\ Self(Index(i)) = i
           /\ \/ /\ i \in DOMAIN opened /\ ~opened[i].done
                 /\ \A j \in DOMAIN opened : Index(j) = Index(i) => j <= i
              \/ /\ i = Len(opened) + 1
                 /\ \A j \in DOMAIN opened : Index(j) = Index(i) => opened[j].done
                 /\ \/ BareReuse \/ srv.done \/ ~IsCall(i)
                    \/ callAt[Index(i)] = NoSlot
<1> DEFINE x == Index(i)
<1>1. /\ Started = DOMAIN opened /\ DOMAIN opened = 1..Len(opened)
      /\ DOMAIN opened \subseteq Nat /\ (NextItem(i) <=> i = Len(opened) + 1)
  BY StartedIs
<1>2. \A k \in DOMAIN opened : opened[k].of = k /\ opened[k].index = Index(k)
  BY DEF OpenedInv
<1>3. OpenAt(x) = {k \in DOMAIN opened : Index(k) = x /\ ~opened[k].done}
  BY <1>2 DEF OpenAt
<1>4. CASE /\ \A j \in Started : Index(j) = x => j <= i
           /\ \E k \in OpenAt(x) : opened[k].of = i
  <2>1. i \in OpenAt(x) /\ \A j \in OpenAt(x) : j <= i
    BY <1>1, <1>2, <1>3, <1>4
  <2>2. i \in Nat /\ OpenAt(x) \subseteq Nat BY <1>1, <1>3, <2>1
  <2>3. \A k \in OpenAt(x) : (\A j \in OpenAt(x) : j <= k) => k = i
    BY <2>1, <2>2
  <2>4. (CHOOSE k \in OpenAt(x) : \A j \in OpenAt(x) : j <= k) = i
    BY <2>1, <2>3
  <2>5. Self(x) = i BY <2>1, <2>4 DEF Self
  <2> QED BY <1>1, <1>3, <1>4, <2>1, <2>5
<1>5. CASE /\ NextItem(i) /\ OpenAt(x) = {}
           /\ \/ BareReuse \/ srv.done \/ Kind(i) # "call" \/ callAt[x] = NoSlot
  <2>1. Self(x) = i BY <1>1, <1>5 DEF Self
  <2>2. \A j \in DOMAIN opened : Index(j) = x => opened[j].done
    BY <1>3, <1>5
  <2> QED BY <1>1, <1>5, <2>1, <2>2 DEF Kind, IsCall
<1> QED BY <1>4, <1>5 DEF Completes

\* The ID that a call is done under: the one it was opened with, or none,
\* where it was never opened (decidedCallID).
LEMMA DoneUnder ==
    ASSUME srv \in Servers, OpenedInv, OwnInv, SlotInv, ~BareReuse,
           NEW i \in Items, Completes(i), IsCall(i)
    PROVE  LET id == DecidedCallID(Given(i, srv.done), Index(i))
           IN  /\ i \in DOMAIN opened => id = opened[i].id /\ opened[i].call /\ id # 0
               /\ i \notin DOMAIN opened => id = 0
<1> DEFINE item == Given(i, srv.done)
           x == Index(i)
<1>1. x \in Indexes /\ i \in Nat \ {0} /\ item \in {0, i} /\ (item # 0 <=> srv.done)
  BY ServerFacts DEF Given
<1>2. CASE i \in DOMAIN opened
  <2>1. /\ ~opened[i].done
        /\ \A j \in DOMAIN opened : Index(j) = x => j <= i
    BY <1>2, SelfIs, StartedIs
  <2>2. opened[i].call /\ IDOf(opened[i]) = opened[i].id
    BY <1>2, <2>1 DEF OpenedInv, IDOf
  <2>3. opened[i].id # 0 BY <1>2, <2>2 DEF OwnInv, GoodID
  <2>4. i \in CallsAt(x) BY <1>2 DEF CallsAt
  <2>5. PICK k \in CallsAt(x) : SlotIs(x, k) BY <1>1, <2>4 DEF SlotInv
  <2>6. k = i BY <1>1, <2>1, <2>4, <2>5, StartedIs DEF SlotIs, CallsAt
  <2>7. /\ callAt[x].id = opened[i].id
        /\ callAt[x].item # 0 => callItems[i] = opened[i].id
    BY <2>2, <2>5, <2>6 DEF SlotIs
  <2>8. callItems[i] # 0 => callItems[i] = opened[i].id
    BY <2>2 DEF SlotInv
  <2> QED BY <1>1, <1>2, <2>2, <2>3, <2>7, <2>8 DEF DecidedCallID
<1>3. CASE i \notin DOMAIN opened
  <2>1. /\ \A j \in DOMAIN opened : Index(j) = x => opened[j].done
        /\ srv.done \/ callAt[x] = NoSlot
    BY <1>3, SelfIs
  <2>2. callItems[i] = 0 BY <1>3 DEF SlotInv
  <2>3. CASE CallsAt(x) = {} \/ callAt[x] = NoSlot
    <3>1. callAt[x].id = 0 BY <1>1, <2>3 DEF SlotInv, NoSlot
    <3> QED BY <1>1, <1>3, <2>2, <3>1 DEF DecidedCallID
  <2>4. CASE CallsAt(x) # {} /\ callAt[x] # NoSlot
    <3>1. PICK k \in CallsAt(x) : SlotIs(x, k) BY <1>1, <2>4 DEF SlotInv
    <3>2. callAt[x].item # 0 BY <2>1, <2>4, <3>1 DEF SlotIs, CallsAt
    <3> QED BY <1>1, <1>3, <2>1, <2>2, <2>4, <3>2 DEF DecidedCallID
  <2> QED BY <2>3, <2>4
<1> QED BY <1>2, <1>3

\* The IDs of the calls that were done are those the calls go by.
LEMMA DoneAreOwn ==
    ASSUME OpenedInv, OwnInv, IDIsStable
    PROVE  /\ DoneIDs = {IDOf(opened[k]) : k \in
                            {j \in DOMAIN opened : IsCall(j) /\ opened[j].done}}
           /\ DoneIDs \subseteq decided
           /\ DoneIDs \cap (Taken \cup {0}) = {}
<1>1. \A k \in DOMAIN opened : IsCall(k) /\ opened[k].done =>
         opened[k].as = IDOf(opened[k])
  BY DEF IDIsStable, IDOf
<1>2. DoneIDs = {IDOf(opened[k]) : k \in
                    {j \in DOMAIN opened : IsCall(j) /\ opened[j].done}}
  BY <1>1 DEF DoneIDs
<1>3. DoneIDs \subseteq decided BY <1>2 DEF OwnInv
<1>4. DoneIDs \cap (Taken \cup {0}) = {} BY <1>3 DEF OwnInv, GoodID
<1> QED BY <1>2, <1>3, <1>4

\* What is flushed was held, and no call of it was kept before (flushHeld).
LEMMA FlushApart ==
    ASSUME AttemptInv, WrittenInv, NEW ok \in BOOLEAN, Flush(ok)
    PROVE  /\ Apart(kept') /\ held' = <<>>
           /\ IDs(kept') \subseteq DoneIDs
<1> DEFINE S == {kept[k] : k \in DOMAIN kept} \cup {held[k] : k \in DOMAIN held}
<1>1. kept \in Seq(S) /\ held \in Seq(S) /\ Len(held) \in Nat
  BY DEF AttemptInv, Stamped
<1>2. PICK n \in 0..Len(held) : Flushed(n) BY <1>1 DEF Flush
<1> DEFINE u == SubSeq(held, 1, n)
<1> HIDE DEF S
<1>3. u \in Seq(S) /\ Apart(u) /\ IDs(u) \subseteq IDs(held)
  BY <1>1, ApartSubSeq DEF WrittenInv
<1> HIDE DEF u
<1>4. IDs(kept) \cap IDs(u) = {} BY <1>3 DEF WrittenInv
<1>5. Apart(kept \o u) /\ IDs(kept \o u) = IDs(kept) \cup IDs(u)
  BY <1>1, <1>3, <1>4, ApartConcat DEF WrittenInv
<1>6. kept' = kept \o u /\ held' = <<>> BY <1>2 DEF Flushed, u
<1> QED BY <1>3, <1>5, <1>6 DEF WrittenInv

\* What was written stays apart, whatever opens.
LEMMA WrittenStays ==
    ASSUME WrittenInv, DoneIDs \subseteq DoneIDs',
           \/ UNCHANGED <<kept, held>>
           \/ Apart(kept') /\ held' = <<>> /\ IDs(kept') \subseteq DoneIDs
    PROVE  WrittenInv'
BY ApartEmpty DEF WrittenInv

\* output_item.added keeps the invariant.
LEMMA AddedIdentity ==
    ASSUME AttemptInv, IdentityInv, NEW i \in Items, ItemAdded(i)
    PROVE  IdentityInv'
<1> DEFINE item == Given(i, srv.added)
           commits == ~committed /\ Kind(i) # "reason"
           cid == srv.out[i].cid
           id == Decided(cid, decided, minted)
<1>1. /\ srv \in Servers /\ OpenedInv /\ OwnInv /\ SlotInv /\ WrittenInv
      /\ ListInv /\ IDIsStable
  BY DEF IdentityInv, StreamInv, ItemAdded, CallIDIsIdentity
<1>2. i = Len(opened) + 1 /\ srv' = srv /\ final' = final
  BY <1>1, StartedIs DEF ItemAdded
<1>3. /\ item \in {0, i} /\ cid \in 0..LastID /\ Index(i) \in Indexes
      /\ i \in Nat \ {0} /\ (Kind(i) = "call" <=> IsCall(i))
  BY <1>1, ServerFacts DEF Given
<1> DEFINE Opens == /\ DOMAIN opened' = DOMAIN opened \cup {i} /\ i \notin DOMAIN opened
                    /\ ~opened'[i].done
                    /\ \A k \in DOMAIN opened : opened'[k] = opened[k]
<1>4. ASSUME IsCall(i) PROVE OpenedInv' /\ OwnInv' /\ SlotInv' /\ Opens
  <2> DEFINE e == Opened(i, item, cid, TRUE, id)
  <2>1. DecideCallID(i, item) /\ callAt'[Index(i)].id = id
    <3>1. DecideCallID(i, item) BY <1>3, <1>4 DEF ItemAdded
    <3> QED BY <1>1, <1>3, <3>1 DEF DecideCallID, SlotInv
  <2>2. opened' = Append(opened, e) BY <1>3, <1>4, <2>1 DEF ItemAdded
  <2>3. id \in Nat BY <1>1, <1>3, FreshID DEF OwnInv, GoodID
  <2>4. /\ e \in OpenedEntry /\ e.of = i /\ e.index = Index(i) /\ ~e.late
        /\ e.call /\ ~e.done /\ IDOf(e) = id
    BY <1>3, <2>3 DEF Opened, OpenedEntry, IDOf
  <2> HIDE DEF e, item
  <2>5. OpenedInv' /\ OwnInv' /\ SlotInv'
    BY <1>1, <1>2, <1>3, <1>4, <2>1, <2>2, <2>4, NewCall
  <2>6. /\ DOMAIN opened' = DOMAIN opened \cup {i} /\ i \notin DOMAIN opened
        /\ opened'[i] = e /\ \A k \in DOMAIN opened : opened'[k] = opened[k]
    BY <1>1, <1>2, <2>2, <2>4, Appended DEF OpenedInv
  <2> QED BY <2>4, <2>5, <2>6
<1>5. ASSUME ~IsCall(i) PROVE OpenedInv' /\ OwnInv' /\ SlotInv' /\ Opens
  <2> DEFINE e == Opened(i, 0, 0, FALSE, 0)
  <2>1. UNCHANGED <<callAt, callItems, decided, minted>> /\ opened' = Append(opened, e)
    BY <1>3, <1>5 DEF ItemAdded
  <2>2. /\ e \in OpenedEntry /\ e.of = i /\ e.index = Index(i) /\ ~e.late
        /\ ~e.call /\ ~e.done
    BY <1>3, TurnAssumption DEF Opened, OpenedEntry
  <2> HIDE DEF e
  <2>3. OpenedInv' /\ OwnInv' /\ SlotInv'
    BY <1>1, <1>2, <1>5, <2>1, <2>2, NewOther
  <2>4. /\ DOMAIN opened' = DOMAIN opened \cup {i} /\ i \notin DOMAIN opened
        /\ opened'[i] = e /\ \A k \in DOMAIN opened : opened'[k] = opened[k]
    BY <1>1, <1>2, <2>1, <2>2, Appended DEF OpenedInv
  <2> QED BY <2>2, <2>3, <2>4
<1>6. OpenedInv' /\ OwnInv' /\ SlotInv' /\ Opens BY <1>4, <1>5
<1>7. IDIsStable' BY <1>1, <1>6 DEF IDIsStable
<1>8. DoneIDs' = DoneIDs
  <2>1. \A k : IsCall(k)' = IsCall(k) BY <1>2 DEF IsCall
  <2> QED BY <1>6, <2>1 DEF DoneIDs
<1>9. WrittenInv'
  <2>1. UNCHANGED <<kept, held>> \/ \E ok \in BOOLEAN : Flush(ok)
    BY DEF ItemAdded
  <2>2. \/ UNCHANGED <<kept, held>>
        \/ Apart(kept') /\ held' = <<>> /\ IDs(kept') \subseteq DoneIDs
    BY <1>1, <2>1, FlushApart
  <2> QED BY <1>1, <1>8, <2>2, WrittenStays
<1>10. UniqueCallIDs'
  <2>1. DoneIDs \cap (Taken \cup {0}) = {} BY <1>1, DoneAreOwn
  <2>2. Apart(kept') /\ IDs(kept') \cap (Taken \cup {0}) = {}
    BY <1>8, <1>9, <2>1 DEF WrittenInv
  <2>3. Apart(kept)' /\ (IDs(kept) \cap (Taken \cup {0}) = {})'
    BY <2>2 DEF Apart, IDs
  <2> QED BY <2>3, UniqueIs, PTL
<1>11. ListInv' BY <1>1, <1>2 DEF ListInv, ListedCall, Items
<1> QED BY <1>1, <1>2, <1>6, <1>7, <1>9, <1>10, <1>11
        DEF IdentityInv, StreamInv, CallIDIsIdentity

\* UniqueCallIDs, one step on.
LEMMA UniqueNext ==
    ASSUME Apart(kept'), IDs(kept') \cap (Taken \cup {0}) = {}
    PROVE  UniqueCallIDs'
BY DEF UniqueCallIDs, Apart, IDs, KeptCalls

\* What output_item.done does to the IDs: the call is done under an ID that
\* no call was done under before.
LEMMA DoneFacts ==
    ASSUME srv \in Servers, OpenedInv, OwnInv, SlotInv, IDIsStable, ~BareReuse,
           NEW i \in Items, ItemDone(i)
    PROVE  LET id == DoneID(i, Given(i, srv.done)) IN
           /\ OpenedInv' /\ OwnInv' /\ SlotInv' /\ IDIsStable'
           /\ IsCall(i) => id \notin DoneIDs /\ DoneIDs' = DoneIDs \cup {id}
           /\ ~IsCall(i) => DoneIDs' = DoneIDs
<1> DEFINE item == Given(i, srv.done)
           cid == srv.out[i].cid
           call0 == IF IsCall(i) THEN DoneID(i, item) ELSE 0
           e == DoneEntry(i, item, call0)
<1>1. Completes(i) /\ srv' = srv BY DEF ItemDone
<1>2. /\ item \in {0, i} /\ (item # 0 <=> srv.done) /\ cid \in 0..LastID
      /\ Index(i) \in Indexes /\ i \in Nat \ {0} /\ (Kind(i) = "call" <=> IsCall(i))
  BY ServerFacts DEF Given
<1>3. Self(Index(i)) = i BY <1>1, SelfIs
<1>4. opened' = [n \in DOMAIN opened \cup {i} |-> IF n = i THEN e ELSE opened[n]]
  BY <1>2, <1>3 DEF ItemDone
<1>5. /\ IsCall(i) => DoneCallID(i, item)
      /\ ~IsCall(i) => UNCHANGED <<callAt, callItems, decided, minted>>
  BY <1>2 DEF ItemDone
<1>6. \A k : IsCall(k)' = IsCall(k) BY <1>1 DEF IsCall
<1>7. DOMAIN opened = 1..Len(opened) /\ Len(opened) \in Nat /\ DOMAIN opened \subseteq Items
  BY StartedIs
<1>8. \A k \in DOMAIN opened : opened[k] \in OpenedEntry
  BY DEF OpenedInv
<1>9. CASE i \in DOMAIN opened
  <2>1. /\ ~opened[i].done
        /\ \A j \in DOMAIN opened : Index(j) = Index(i) => j <= i
    BY <1>1, <1>7, <1>9, SelfIs
  <2>2. opened[i] \in OpenedEntry /\ opened[i].of = i /\ opened[i].index = Index(i)
        /\ ~opened[i].late
    BY <1>8, <1>9 DEF OpenedInv
  <2>3. IsCall(i) => /\ opened[i].call /\ DoneID(i, item) = opened[i].id
                     /\ DecidedCallID(item, Index(i)) = opened[i].id
                     /\ opened[i].id # 0
    BY <1>1, <1>9, DoneUnder DEF DoneID
  <2>4. call0 \in Nat BY <2>2, <2>3 DEF OpenedEntry
  <2>5. e = [opened[i] EXCEPT !.done = TRUE, !.as = call0,
                !.cid = IF Kind(i) = "call" THEN cid ELSE @,
                !.item = IF Kind(i) = "call" /\ item # 0 THEN item ELSE @]
    BY <1>3, <1>9 DEF DoneEntry
  <2>6. /\ e \in OpenedEntry /\ e.of = i /\ e.index = Index(i) /\ ~e.late
        /\ e.done /\ e.call = opened[i].call /\ e.id = opened[i].id
        /\ e.as = call0
    <3> HIDE DEF call0, item, cid, e
    <3> QED BY <1>2, <2>2, <2>4, <2>5 DEF OpenedEntry
  <2>7. IsCall(i) => IDOf(e) = IDOf(opened[i]) /\ e.as = opened[i].id
    BY <2>3, <2>6 DEF IDOf
  <2>8. opened' = [opened EXCEPT ![i] = e]
    <3> HIDE DEF e
    <3>1. DOMAIN opened \cup {i} = DOMAIN opened BY <1>9
    <3>2. opened = [n \in DOMAIN opened |-> opened[n]] BY DEF OpenedInv
    <3> QED BY <1>4, <3>1, <3>2
  <2>9. IsCall(i) => /\ UNCHANGED <<decided, minted>>
                     /\ \/ UNCHANGED <<callAt, callItems>> /\ (srv.done => callAt[Index(i)].item # 0)
                        \/ /\ callAt' = [callAt EXCEPT ![Index(i)] =
                                            [id |-> opened[i].id, item |-> i]]
                           /\ callItems' = [callItems EXCEPT ![i] = opened[i].id]
    BY <1>2, <1>5, <2>3 DEF DoneCallID
  <2>10. IsCall(i) => IDOf(opened[i]) = opened[i].id BY <2>3 DEF IDOf
  <2>11. IsCall(i) => callAt' \in [Indexes -> [id : Nat, item : {0} \cup Items]] /\
                      (srv.done => callAt'[Index(i)].item # 0)
    BY <1>2, <2>2, <2>9 DEF SlotInv, OpenedEntry
  <2>12. \A j \in CallsAt(Index(i)) : j <= i BY <2>1 DEF CallsAt
  <2> HIDE DEF e, item, call0, cid
  <2>13. OpenedInv' /\ OwnInv' /\ SlotInv'
    <3>1. UNCHANGED <<srv, decided, minted>> BY <1>1, <1>5, <2>9
    <3>2. \/ UNCHANGED <<callAt, callItems>>
          \/ /\ IsCall(i)
             /\ callAt' = [callAt EXCEPT ![Index(i)] =
                              [id |-> IDOf(opened[i]), item |-> i]]
             /\ callItems' = [callItems EXCEPT ![i] = IDOf(opened[i])]
      BY <1>5, <2>9, <2>10
    <3> QED BY <1>9, <2>6, <2>7, <2>8, <2>11, <2>12, <3>1, <3>2, DoneOpened
  <2>14. /\ DOMAIN opened' = DOMAIN opened /\ opened'[i] = e
         /\ \A k \in DOMAIN opened : k # i => opened'[k] = opened[k]
    BY <1>9, <2>8
  <2>15. IDIsStable'
    <3>1. opened[i].call => IsCall(i) BY <1>9 DEF OpenedInv
    <3> QED BY <2>6, <2>7, <2>14, <3>1 DEF IDIsStable
  <2>16. IsCall(i) => DoneID(i, item) \notin DoneIDs
    <3>1. DoneIDs = {IDOf(opened[k]) : k \in
                        {j \in DOMAIN opened : IsCall(j) /\ opened[j].done}}
      BY DoneAreOwn
    <3> QED BY <1>9, <2>1, <2>3, <2>10, <3>1 DEF OwnInv
  <2>17. /\ IsCall(i) => DoneIDs' = DoneIDs \cup {DoneID(i, item)}
         /\ ~IsCall(i) => DoneIDs' = DoneIDs
    BY <1>6, <1>9, <2>1, <2>3, <2>6, <2>7, <2>14 DEF DoneIDs
  <2> QED BY <2>13, <2>15, <2>16, <2>17 DEF item
<1>10. CASE i \notin DOMAIN opened
  <2>1. i = Len(opened) + 1 BY <1>1, <1>10, SelfIs
  <2>2. e = [Opened(i, 0, 0, FALSE, 0) EXCEPT !.done = TRUE, !.as = call0,
                !.cid = IF Kind(i) = "call" THEN cid ELSE @,
                !.item = IF Kind(i) = "call" /\ item # 0 THEN item ELSE @]
    BY <1>3, <1>10 DEF DoneEntry
  <2>3. IsCall(i) => /\ DecidedCallID(item, Index(i)) = 0
                     /\ DoneID(i, item) = Decided(cid, decided, minted)
                     /\ DecideCallID(i, item)
    BY <1>1, <1>5, <1>10, DoneUnder DEF DoneID, DoneCallID
  <2>4. IsCall(i) => DoneID(i, item) \in Nat /\ DoneID(i, item) \notin decided
    BY <1>2, <2>3, FreshID DEF OwnInv, GoodID
  <2>5. call0 \in Nat BY <2>4
  <2>6. /\ e \in OpenedEntry /\ e.of = i /\ e.index = Index(i) /\ ~e.late
        /\ e.done /\ ~e.call /\ e.as = call0
    <3> HIDE DEF call0, item, cid, e
    <3> DEFINE o == Opened(i, 0, 0, FALSE, 0)
    <3>1. 0 \in 0..LastID BY TurnAssumption
    <3>2. /\ o \in OpenedEntry /\ o.of = i /\ o.index = Index(i) /\ ~o.late
          /\ ~o.call
      BY <1>2, <3>1 DEF OpenedEntry, Opened
    <3> HIDE DEF o
    <3>3. e = [o EXCEPT !.done = TRUE, !.as = call0,
                  !.cid = IF Kind(i) = "call" THEN cid ELSE @,
                  !.item = IF Kind(i) = "call" /\ item # 0 THEN item ELSE @]
      BY <2>2 DEF o
    <3> QED BY <1>2, <2>5, <3>2, <3>3 DEF OpenedEntry
  <2>7. IDOf(e) = call0 BY <2>6 DEF IDOf
  <2>8. opened' = Append(opened, e)
    <3> HIDE DEF e
    <3>1. DOMAIN opened \cup {i} = 1..(Len(opened) + 1) BY <1>7, <2>1
    <3> DEFINE t == Append(opened, e)
    <3>2. /\ t \in Seq(OpenedEntry) /\ DOMAIN t = 1..(Len(opened) + 1)
          /\ t[i] = e /\ \A k \in DOMAIN opened : t[k] = opened[k]
      BY <2>1, <2>6, Appended DEF OpenedInv
    <3> HIDE DEF t
    <3>3. t = [n \in DOMAIN t |-> t[n]] BY <3>2
    <3>4. t = [n \in 1..(Len(opened) + 1) |-> IF n = i THEN e ELSE opened[n]]
      BY <1>7, <2>1, <3>2, <3>3
    <3> USE DEF t
    <3> QED BY <1>4, <3>1, <3>4
  <2> HIDE DEF e, item, cid
  <2>9. OpenedInv' /\ OwnInv' /\ SlotInv'
    <3>1. CASE IsCall(i)
      BY <1>1, <1>2, <2>1, <2>3, <2>6, <2>7, <2>8, <3>1, NewCall DEF cid
    <3>2. CASE ~IsCall(i)
      BY <1>1, <1>5, <2>1, <2>6, <2>8, <3>2, NewOther
    <3> QED BY <3>1, <3>2
  <2>10. /\ DOMAIN opened' = DOMAIN opened \cup {i}
         /\ opened'[i] = e /\ \A k \in DOMAIN opened : opened'[k] = opened[k]
    BY <2>1, <2>6, <2>8, Appended DEF OpenedInv
  <2>11. IDIsStable' BY <2>6, <2>10 DEF IDIsStable
  <2>12. IsCall(i) => DoneID(i, item) \notin DoneIDs BY <2>4, DoneAreOwn
  <2>13. /\ IsCall(i) => DoneIDs' = DoneIDs \cup {DoneID(i, item)}
         /\ ~IsCall(i) => DoneIDs' = DoneIDs
    BY <1>6, <1>10, <2>6, <2>10 DEF DoneIDs
  <2> QED BY <2>9, <2>11, <2>12, <2>13 DEF item
<1> QED BY <1>9, <1>10

\* output_item.done keeps the invariant.
LEMMA DoneIdentity ==
    ASSUME AttemptInv, IdentityInv, ~BareReuse, NEW i \in Items, ItemDone(i)
    PROVE  IdentityInv'
<1> DEFINE id == DoneID(i, Given(i, srv.done))
<1>1. /\ srv \in Servers /\ OpenedInv /\ OwnInv /\ SlotInv /\ WrittenInv
      /\ ListInv /\ IDIsStable
  BY DEF IdentityInv, StreamInv, ItemDone, CallIDIsIdentity
<1>2. /\ OpenedInv' /\ OwnInv' /\ SlotInv' /\ IDIsStable'
      /\ IsCall(i) => id \notin DoneIDs /\ DoneIDs' = DoneIDs \cup {id}
      /\ ~IsCall(i) => DoneIDs' = DoneIDs
  BY <1>1, DoneFacts
<1>3. PICK e : /\ e.kind = Kind(i) /\ (IsCall(i) => e.id = id)
               /\ \/ held' = Append(held, e) /\ kept' = kept
                  \/ kept' = Append(kept, e) /\ held' = held
  <2> DEFINE e == Entry(i, IF IsCall(i) THEN id ELSE 0)
  <2>1. e.kind = Kind(i) /\ (IsCall(i) => e.id = id) BY DEF Entry
  <2>2. \/ held' = Append(held, e) /\ kept' = kept
        \/ kept' = Append(kept, e) /\ held' = held
    BY DEF ItemDone, IsCall, Kind
  <2> QED BY <2>1, <2>2
<1> HIDE DEF id
<1>4. e.kind = "call" <=> IsCall(i) BY <1>3 DEF IsCall, Kind
<1>5. e.kind = "call" => e.id \notin IDs(kept) \cup IDs(held)
  BY <1>1, <1>2, <1>3, <1>4 DEF WrittenInv
<1>6. WrittenInv'
  <2>1. CASE held' = Append(held, e) /\ kept' = kept
    <3>1. /\ Apart(held')
          /\ IDs(held') = IDs(held) \cup (IF e.kind = "call" THEN {e.id} ELSE {})
      BY <1>1, <1>5, <2>1, ApartAppend DEF WrittenInv, AttemptInv, Stamped
    <3>2. IDs(kept') \cap IDs(held') = {} /\ IDs(kept') \cup IDs(held') \subseteq DoneIDs'
      BY <1>1, <1>2, <1>3, <1>4, <1>5, <2>1, <3>1 DEF WrittenInv
    <3> QED BY <1>1, <2>1, <3>1, <3>2 DEF WrittenInv
  <2>2. CASE kept' = Append(kept, e) /\ held' = held
    <3>1. /\ Apart(kept')
          /\ IDs(kept') = IDs(kept) \cup (IF e.kind = "call" THEN {e.id} ELSE {})
      BY <1>1, <1>5, <2>2, ApartAppend DEF WrittenInv, AttemptInv, Stamped
    <3>2. IDs(kept') \cap IDs(held') = {} /\ IDs(kept') \cup IDs(held') \subseteq DoneIDs'
      BY <1>1, <1>2, <1>3, <1>4, <1>5, <2>2, <3>1 DEF WrittenInv
    <3> QED BY <1>1, <2>2, <3>1, <3>2 DEF WrittenInv
  <2> QED BY <1>3, <2>1, <2>2
<1>7. UniqueCallIDs'
  <2>1. (DoneIDs \cap (Taken \cup {0}) = {})' BY <1>2, DoneAreOwn, PTL
  <2> QED BY <1>6, <2>1, UniqueNext DEF WrittenInv
<1>8. srv' = srv /\ ListInv'
  BY <1>1 DEF ItemDone, ListInv, ListedCall, Items
<1> QED BY <1>1, <1>2, <1>6, <1>7, <1>8 DEF IdentityInv, StreamInv, CallIDIsIdentity

-----------------------------------------------------------------------------
(* The calls of the response, one after the other.                         *)

\* A pass over the calls of the response is what its steps make of it.
LEMMA PairPassSteps ==
    ASSUME NEW p, Len(p) \in Nat, NEW calls, NEW match
    PROVE  \E f : /\ f = [n \in 0..Len(p) |->
                             IF n = 0 THEN p ELSE Pair(f[n - 1], n, calls, match)]
                  /\ PairPass(p, calls, match) = f[Len(p)]
<1> DEFINE Steps(f, m) ==
              f = [n \in 0..m |-> IF n = 0 THEN p ELSE Pair(f[n - 1], n, calls, match)]
           S == {m \in 0..Len(p) : \E f : Steps(f, m)}
<1>1. 0 \in S
  <2> DEFINE f == [n \in 0..0 |-> p]
  <2>1. f = [n \in 0..0 |-> IF n = 0 THEN p ELSE Pair(f[n - 1], n, calls, match)]
    OBVIOUS
  <2> HIDE DEF f
  <2>2. \E g : Steps(g, 0) BY <2>1
  <2> QED BY <2>2
<1>2. ASSUME NEW m \in 0..Len(p), m \in S, m < Len(p) PROVE m + 1 \in S
  <2>1. PICK f : Steps(f, m) BY <1>2
  <2> DEFINE g == [n \in 0..(m + 1) |-> IF n = m + 1 THEN Pair(f[m], n, calls, match)
                                        ELSE f[n]]
  <2>2. \A n \in 0..m : f[n] = IF n = 0 THEN p ELSE Pair(f[n - 1], n, calls, match)
    BY <2>1
  <2>3. \A n \in 0..(m + 1) :
           g[n] = IF n = 0 THEN p ELSE Pair(g[n - 1], n, calls, match)
    <3> SUFFICES ASSUME NEW n \in 0..(m + 1)
                 PROVE  g[n] = IF n = 0 THEN p ELSE Pair(g[n - 1], n, calls, match)
      OBVIOUS
    <3>1. CASE n = m + 1
      <4>1. n # 0 /\ n - 1 = m /\ g[n - 1] = f[m] BY <3>1
      <4> QED BY <3>1, <4>1
    <3>2. CASE n # m + 1
      <4>1. n \in 0..m /\ g[n] = f[n] BY <3>2
      <4>2. n # 0 => n - 1 \in 0..(m + 1) /\ n - 1 # m + 1 /\ g[n - 1] = f[n - 1]
        BY <4>1
      <4> QED BY <2>2, <4>1, <4>2
    <3> QED BY <3>1, <3>2
  <2>4. g = [n \in 0..(m + 1) |-> g[n]] OBVIOUS
  <2> HIDE DEF g
  <2>5. Steps(g, m + 1) BY <2>3, <2>4
  <2>6. (\E a : Steps(a, m + 1)) /\ m + 1 \in 0..Len(p) BY <1>2, <2>5
  <2> QED BY <2>6
<1> HIDE DEF S
<1>3. Len(p) \in S
  <2>1. \A m \in 0..Len(p) : m \in S /\ m < Len(p) => m + 1 \in S
    BY <1>2
  <2>2. 0..Len(p) \subseteq S BY <1>1, <2>1, UpTo
  <2> QED BY <2>2
<1>4. \E f : Steps(f, Len(p)) BY <1>3 DEF S
<1> DEFINE h == CHOOSE f : Steps(f, Len(p))
<1>5. Steps(h, Len(p)) BY <1>4
<1>6. PairPass(p, calls, match) = h[Len(p)] BY DEF PairPass
<1> QED BY <1>5, <1>6

\* A call is paired with one of the calls looked at, or stays as it is.
LEMMA PairType ==
    ASSUME NEW L \in Nat, NEW C \in SUBSET Nat, NEW q \in [1..L -> {0} \cup C],
           NEW n \in 1..L, NEW calls \in SUBSET C, NEW match
    PROVE  Pair(q, n, calls, match) \in [1..L -> {0} \cup C]
<1> DEFINE free == {k \in calls : /\ \A m \in DOMAIN q : q[m] # k
                                  /\ <<n, k>> \in match}
           first == CHOOSE k \in free : \A j \in free : k <= j
<1>1. free \in SUBSET Nat /\ free \subseteq C OBVIOUS
<1>2. ASSUME free # {} PROVE first \in C
  <2> HIDE DEF free
  <2>1. \E k \in free : \A j \in free : k <= j BY <1>1, <1>2, LeastNat
  <2>2. first \in free BY <2>1
  <2> QED BY <1>1, <2>2
<1>3. Pair(q, n, calls, match) = IF q[n] # 0 \/ free = {} THEN q
                                 ELSE [q EXCEPT ![n] = first]
  BY DEF Pair
<1> HIDE DEF free, first
<1> QED BY <1>2, <1>3

\* So is a pass.
LEMMA PairPassType ==
    ASSUME NEW L \in Nat, NEW C \in SUBSET Nat, NEW p \in [1..L -> {0} \cup C],
           NEW calls \in SUBSET C, NEW match
    PROVE  PairPass(p, calls, match) \in [1..L -> {0} \cup C]
<1> DEFINE T == [1..L -> {0} \cup C]
<1>1. Len(p) = L
  <2>1. p \in Seq({0} \cup C) /\ DOMAIN p = 1..L BY SeqDef
  <2> QED BY <2>1
<1>2. PICK f : /\ f = [n \in 0..Len(p) |->
                          IF n = 0 THEN p ELSE Pair(f[n - 1], n, calls, match)]
               /\ PairPass(p, calls, match) = f[Len(p)]
  <2>1. Len(p) \in Nat BY <1>1
  <2> QED BY <2>1, PairPassSteps
<1>3. /\ PairPass(p, calls, match) = f[L]
      /\ \A n \in 0..L : f[n] = IF n = 0 THEN p ELSE Pair(f[n - 1], n, calls, match)
  BY <1>1, <1>2
<1> DEFINE S == {n \in 0..L : f[n] \in T}
<1>4. 0 \in S BY <1>3
<1>5. ASSUME NEW m \in 0..L, m \in S, m < L PROVE m + 1 \in S
  <2>1. m + 1 \in 1..L /\ m + 1 \in 0..L /\ (m + 1) - 1 = m /\ m + 1 # 0
    BY <1>5
  <2>2. f[m + 1] = Pair(f[m], m + 1, calls, match) BY <1>3, <2>1
  <2>3. f[m] \in T BY <1>5
  <2>4. PICK q \in [1..L -> {0} \cup C], n \in 1..L : q = f[m] /\ n = m + 1
    BY <2>1, <2>3
  <2>5. Pair(q, n, calls, match) \in [1..L -> {0} \cup C] BY PairType
  <2>6. f[m + 1] \in T BY <2>2, <2>4, <2>5
  <2> QED BY <2>1, <2>6
<1> HIDE DEF S
<1>6. 0..L \subseteq S BY <1>4, <1>5, UpTo
<1>7. L \in S BY <1>6
<1> QED BY <1>3, <1>7 DEF S

\* A listed call is paired with a call of the attempt, or with none
\* (renameCalls).
LEMMA PairedType ==
    ASSUME OpenedInv, NEW S, NEW list \in Seq(S)
    PROVE  Paired(list) \in [DOMAIN list -> {0} \cup OpenedCalls]
<1> DEFINE calls == OpenedCalls
           done == {k \in calls : opened[k].done}
           p0 == [n \in DOMAIN list |-> 0]
           p1 == PairPass(p0, done, SameItem(list))
           p2 == PairPass(p1, calls \ done, SameItem(list))
           p3 == PairPass(p2, done, SameCall(list))
           p4 == PairPass(p3, calls, NamedID(list))
           p5 == PairPass(p4, done, ByOrder(list))
           p6 == PairPass(p5, calls \ done, ByOrder(list))
           L == Len(list)
           T == [1..L -> {0} \cup calls]
<1>1. L \in Nat /\ DOMAIN list = 1..L OBVIOUS
<1>2. calls \in SUBSET Nat /\ done \in SUBSET calls /\ calls \ done \in SUBSET calls
  BY DEF OpenedCalls, OpenedInv
<1>3. Paired(list) = p6 BY DEF Paired
<1>4. p0 \in T BY <1>1
<1> HIDE DEF calls, done, L, p0
<1>5. p1 \in T BY <1>1, <1>2, <1>4, PairPassType
<1> HIDE DEF p1
<1>6. p2 \in T BY <1>1, <1>2, <1>5, PairPassType
<1> HIDE DEF p2
<1>7. p3 \in T BY <1>1, <1>2, <1>6, PairPassType
<1> HIDE DEF p3
<1>8. p4 \in T BY <1>1, <1>2, <1>7, PairPassType
<1> HIDE DEF p4
<1>9. p5 \in T BY <1>1, <1>2, <1>8, PairPassType
<1> HIDE DEF p5
<1>10. p6 \in T BY <1>1, <1>2, <1>9, PairPassType
<1> HIDE DEF p6
<1> QED BY <1>1, <1>3, <1>10 DEF calls

\* The calls the response completes are what its steps make of them.
LEMMA CompletedSteps ==
    ASSUME NEW list, Len(list) \in Nat
    PROVE  LET start == [opened |-> opened, decided |-> decided, minted |-> minted,
                         at |-> Paired(list)]
           IN  \E f : /\ f = [n \in 0..Len(list) |->
                                 IF n = 0 THEN start
                                 ELSE Complete(f[n - 1], n, list[n])]
                      /\ Completed(list) = f[Len(list)]
<1> DEFINE start == [opened |-> opened, decided |-> decided, minted |-> minted,
                     at |-> Paired(list)]
           Steps(f, m) ==
              f = [n \in 0..m |-> IF n = 0 THEN start ELSE Complete(f[n - 1], n, list[n])]
           S == {m \in 0..Len(list) : \E f : Steps(f, m)}
<1>6. Completed(list) = (CHOOSE f : Steps(f, Len(list)))[Len(list)]
  BY DEF Completed
<1> HIDE DEF start
<1>1. 0 \in S
  <2> DEFINE f == [n \in 0..0 |-> start]
  <2>1. f = [n \in 0..0 |-> IF n = 0 THEN start ELSE Complete(f[n - 1], n, list[n])]
    OBVIOUS
  <2> HIDE DEF f
  <2>2. \E g : Steps(g, 0) BY <2>1
  <2> QED BY <2>2
<1>2. ASSUME NEW m \in 0..Len(list), m \in S, m < Len(list) PROVE m + 1 \in S
  <2>1. PICK f : Steps(f, m) BY <1>2
  <2> DEFINE g == [n \in 0..(m + 1) |-> IF n = m + 1 THEN Complete(f[m], n, list[n])
                                        ELSE f[n]]
  <2>2. \A n \in 0..m : f[n] = IF n = 0 THEN start ELSE Complete(f[n - 1], n, list[n])
    BY <2>1
  <2>3. \A n \in 0..(m + 1) :
           g[n] = IF n = 0 THEN start ELSE Complete(g[n - 1], n, list[n])
    <3> SUFFICES ASSUME NEW n \in 0..(m + 1)
                 PROVE  g[n] = IF n = 0 THEN start ELSE Complete(g[n - 1], n, list[n])
      OBVIOUS
    <3>1. CASE n = m + 1
      <4>1. n # 0 /\ n - 1 = m /\ g[n - 1] = f[m] BY <3>1
      <4> QED BY <3>1, <4>1
    <3>2. CASE n # m + 1
      <4>1. n \in 0..m /\ g[n] = f[n] BY <3>2
      <4>2. n # 0 => n - 1 \in 0..(m + 1) /\ n - 1 # m + 1 /\ g[n - 1] = f[n - 1]
        BY <4>1
      <4> QED BY <2>2, <4>1, <4>2
    <3> QED BY <3>1, <3>2
  <2>4. g = [n \in 0..(m + 1) |-> g[n]] OBVIOUS
  <2> HIDE DEF g
  <2>5. Steps(g, m + 1) BY <2>3, <2>4
  <2>6. (\E a : Steps(a, m + 1)) /\ m + 1 \in 0..Len(list) BY <1>2, <2>5
  <2> QED BY <2>6
<1> HIDE DEF S
<1>3. Len(list) \in S
  <2>1. \A m \in 0..Len(list) : m \in S /\ m < Len(list) => m + 1 \in S
    BY <1>2
  <2>2. 0..Len(list) \subseteq S BY <1>1, <2>1, UpTo
  <2> QED BY <2>2
<1>4. \E f : Steps(f, Len(list)) BY <1>3 DEF S
<1> DEFINE h == CHOOSE f : Steps(f, Len(list))
<1>5. Steps(h, Len(list)) BY <1>4
<1> QED BY <1>5, <1>6 DEF start

\* A call of the attempt, as the response completes it.
CallIn(s, k) == s.opened[k].call \/ (k \in DOMAIN opened /\ IsCall(k))

\* The calls of the attempt while the response completes them, n of which it
\* lists: each has an ID of its own, and what the stream completed is left
\* as it was.
CompletingType(s, n) ==
    s \in [opened : Seq(OpenedEntry), decided : SUBSET Nat, minted : Nat,
           at : [1..n -> Nat]]

CompletingAt(s, n) ==
    \A m \in 1..n : s.at[m] # 0 =>
       /\ s.at[m] \in DOMAIN s.opened
       /\ s.opened[s.at[m]].done \/ s.opened[s.at[m]].call

CompletingIDs(s) ==
    /\ \A id \in s.decided : GoodID(id, s.minted)
    /\ \A k \in DOMAIN s.opened : CallIn(s, k) =>
          /\ IDOf(s.opened[k]) \in s.decided
          /\ \A j \in DOMAIN s.opened :
                CallIn(s, j) /\ IDOf(s.opened[j]) = IDOf(s.opened[k]) => j = k

CompletingOpened(s) ==
    /\ DOMAIN opened \subseteq DOMAIN s.opened
    /\ \A k \in DOMAIN s.opened :
          LET o == s.opened[k] IN
          /\ o.late => o.call /\ o.done
          /\ o.call /\ o.done => o.as = o.id
          /\ k \in DOMAIN opened /\ opened[k].done => o = opened[k]

Completing(s, n) ==
    /\ CompletingType(s, n) /\ CompletingAt(s, n)
    /\ CompletingIDs(s) /\ CompletingOpened(s)

\* A call that the stream never opened is completed under an ID of its own.
LEMMA CompleteNew ==
    ASSUME srv \in Servers, OpenedInv, NEW s, NEW L \in Nat, Completing(s, L),
           NEW n \in 1..L, NEW l \in ListedCall, s.at[n] = 0
    PROVE  Completing(Complete(s, n, l), L)
<1> DEFINE id == Decided(l.cid, s.decided, s.minted)
           m == Made(l.cid, s.decided, s.minted)
           e == [Opened(l.of, l.item, l.cid, TRUE, id)
                 EXCEPT !.done = TRUE, !.as = id, !.late = TRUE]
           r == Complete(s, n, l)
<1>1. /\ s.opened \in Seq(OpenedEntry) /\ s.decided \in SUBSET Nat
      /\ s.minted \in Nat /\ s.at \in [1..L -> Nat]
  BY DEF Completing, CompletingType
<1>2. /\ l.of \in Items /\ l.item \in {0} \cup Items /\ l.cid \in 0..LastID
      /\ Index(l.of) \in Indexes
  BY ServerFacts DEF ListedCall
<1>3. m \in Nat /\ id \notin s.decided /\ \A d \in s.decided \cup {id} : GoodID(d, m)
  BY <1>1, <1>2, FreshID DEF Completing, CompletingIDs
<1>4. r = [opened |-> Append(s.opened, e), decided |-> s.decided \cup {id},
           minted |-> m, at |-> [s.at EXCEPT ![n] = Len(s.opened) + 1]]
  BY DEF Complete
<1> HIDE DEF id, m
<1>5. id \in Nat BY <1>3 DEF GoodID
<1>6. e \in OpenedEntry /\ e.call /\ e.done /\ e.late /\ e.as = id /\ e.id = id
  BY <1>2, <1>5 DEF Opened, OpenedEntry
<1> HIDE DEF e, r
<1>7. IDOf(e) = id BY <1>6 DEF IDOf
<1> DEFINE N == Len(s.opened) + 1
<1>8. /\ r.opened \in Seq(OpenedEntry) /\ DOMAIN r.opened = DOMAIN s.opened \cup {N}
      /\ N \notin DOMAIN s.opened /\ N \in Nat \ {0}
      /\ r.opened[N] = e /\ \A k \in DOMAIN s.opened : r.opened[k] = s.opened[k]
  BY <1>1, <1>4, <1>6, Appended
<1>9. /\ r.decided = s.decided \cup {id} /\ r.minted = m
      /\ r.at = [s.at EXCEPT ![n] = N]
  BY <1>4
<1> HIDE DEF N
<1>10. CompletingType(r, L)
  <2>1. r.at \in [1..L -> Nat] /\ r.decided \in SUBSET Nat /\ r.minted \in Nat
    BY SMTT(60), <1>1, <1>3, <1>5, <1>8, <1>9
  <2>2. r = [opened |-> r.opened, decided |-> r.decided, minted |-> r.minted,
             at |-> r.at]
    BY <1>4
  <2> QED BY <1>8, <2>1, <2>2 DEF CompletingType
<1>11. CompletingAt(r, L)
  <2>1. \A j \in 1..L : r.at[j] = IF j = n THEN N ELSE s.at[j]
    BY <1>1, <1>9
  <2> QED BY SMTT(60), <1>6, <1>8, <2>1 DEF Completing, CompletingAt
<1>12. \A k \in DOMAIN s.opened : CallIn(r, k) <=> CallIn(s, k)
  BY <1>8 DEF CallIn
<1>13. CompletingIDs(r)
  <2>1. \A d \in r.decided : GoodID(d, r.minted) BY <1>3, <1>9
  <2>2. \A k \in DOMAIN r.opened : CallIn(r, k) => IDOf(r.opened[k]) \in r.decided
    BY <1>7, <1>8, <1>9, <1>12 DEF Completing, CompletingIDs
  <2>3. \A k \in DOMAIN s.opened : CallIn(s, k) => IDOf(s.opened[k]) # id
    BY <1>3 DEF Completing, CompletingIDs
  <2>4. ASSUME NEW j \in DOMAIN r.opened, NEW k \in DOMAIN r.opened, CallIn(r, j),
               CallIn(r, k), IDOf(r.opened[j]) = IDOf(r.opened[k])
        PROVE  j = k
    <3>1. CASE j = N /\ k # N BY <1>7, <1>8, <1>12, <2>3, <2>4, <3>1
    <3>2. CASE j # N /\ k = N BY <1>7, <1>8, <1>12, <2>3, <2>4, <3>2
    <3>3. CASE j # N /\ k # N
      <4>1. j \in DOMAIN s.opened /\ k \in DOMAIN s.opened BY <1>8, <3>3
      <4> QED BY <1>8, <1>12, <2>4, <4>1 DEF Completing, CompletingIDs
    <3> QED BY <3>1, <3>2, <3>3
  <2> QED BY <2>1, <2>2, <2>4 DEF CompletingIDs
<1>14. CompletingOpened(r)
  BY <1>6, <1>8 DEF Completing, CompletingOpened
<1> QED BY <1>10, <1>11, <1>13, <1>14 DEF Completing, r

\* A call that the stream opened and did not complete keeps its ID.
LEMMA CompleteOpened ==
    ASSUME OpenedInv, NEW s, NEW L \in Nat, Completing(s, L),
           NEW n \in 1..L, NEW l \in ListedCall, s.at[n] # 0,
           ~s.opened[s.at[n]].done
    PROVE  Completing(Complete(s, n, l), L)
<1> DEFINE k0 == s.at[n]
           e == [s.opened[k0] EXCEPT !.done = TRUE, !.as = s.opened[k0].id,
                                     !.late = TRUE, !.of = l.of]
           r == Complete(s, n, l)
<1>1. /\ s.opened \in Seq(OpenedEntry) /\ s.decided \in SUBSET Nat
      /\ s.minted \in Nat /\ s.at \in [1..L -> Nat]
      /\ s = [opened |-> s.opened, decided |-> s.decided, minted |-> s.minted,
              at |-> s.at]
  BY DEF Completing, CompletingType
<1>2. r = [s EXCEPT !.opened[k0] = e] BY DEF Complete
<1>3. k0 \in DOMAIN s.opened /\ s.opened[k0].call /\ s.opened[k0] \in OpenedEntry
  BY <1>1 DEF Completing, CompletingAt
<1>4. l.of \in Items BY DEF ListedCall
<1> HIDE DEF k0
<1>5. /\ e \in OpenedEntry /\ e.call /\ e.done /\ e.as = e.id
      /\ e.id = s.opened[k0].id
  BY <1>3, <1>4 DEF OpenedEntry
<1>6. IDOf(e) = IDOf(s.opened[k0]) BY <1>3, <1>5 DEF IDOf
<1> HIDE DEF e, r
<1>7. r = [opened |-> [s.opened EXCEPT ![k0] = e], decided |-> s.decided,
           minted |-> s.minted, at |-> s.at]
  <2>1. PICK so, sd, sm, sa : s = [opened |-> so, decided |-> sd, minted |-> sm, at |-> sa]
    BY <1>1
  <2> QED BY <1>2, <2>1
<1>8. /\ r.opened \in Seq(OpenedEntry) /\ DOMAIN r.opened = DOMAIN s.opened
      /\ r.opened[k0] = e
      /\ \A k \in DOMAIN s.opened : k # k0 => r.opened[k] = s.opened[k]
      /\ r.decided = s.decided /\ r.minted = s.minted /\ r.at = s.at
  <2>1. r.opened = [s.opened EXCEPT ![k0] = e] BY <1>7
  <2>2. [s.opened EXCEPT ![k0] = e] \in Seq(OpenedEntry)
    BY <1>1, <1>3, <1>5
  <2> QED BY <1>3, <1>7, <2>1, <2>2
<1>9. CompletingType(r, L) BY <1>1, <1>7, <1>8 DEF CompletingType
<1>10. CompletingAt(r, L)
  BY SMTT(60), <1>5, <1>8 DEF Completing, CompletingAt
<1>11. \A k \in DOMAIN s.opened : /\ CallIn(r, k) <=> CallIn(s, k)
                                  /\ IDOf(r.opened[k]) = IDOf(s.opened[k])
  BY <1>3, <1>5, <1>6, <1>8 DEF CallIn
<1>12. CompletingIDs(r) BY <1>8, <1>11 DEF Completing, CompletingIDs
<1>13. CompletingOpened(r)
  <2>1. k0 \in DOMAIN opened => ~opened[k0].done
    BY <1>3 DEF Completing, CompletingOpened, k0
  <2> QED BY SMTT(60), <1>3, <1>5, <1>8, <2>1 DEF Completing, CompletingOpened
<1> QED BY <1>9, <1>10, <1>12, <1>13 DEF Completing, r

\* The calls after the whole response: still each with an ID of its own
\* (renameCalls).
LEMMA CompletedIs ==
    ASSUME srv \in Servers, OpenedInv, OwnInv, IDIsStable,
           NEW list \in Seq(ListedCall)
    PROVE  Completing(Completed(list), Len(list))
<1> DEFINE start == [opened |-> opened, decided |-> decided, minted |-> minted,
                     at |-> Paired(list)]
           L == Len(list)
<1>1. L \in Nat /\ DOMAIN list = 1..L OBVIOUS
<1>2. Paired(list) \in [1..L -> {0} \cup OpenedCalls]
  BY <1>1, PairedType
<1>3. Completing(start, L)
  <2>1. /\ start.opened = opened /\ start.decided = decided
        /\ start.minted = minted /\ start.at = Paired(list)
    OBVIOUS
  <2>2. OpenedCalls \subseteq Nat BY DEF OpenedCalls, OpenedInv
  <2>3. decided \subseteq Nat BY DEF OwnInv, GoodID
  <2>4. CompletingType(start, L)
    <3>1. opened \in Seq(OpenedEntry) /\ minted \in Nat
      BY DEF OpenedInv, OwnInv
    <3>2. Paired(list) \in [1..L -> Nat]
      <4> DEFINE p == Paired(list)
                 C == {0} \cup OpenedCalls
      <4>1. p \in [1..L -> C] /\ C \subseteq Nat BY <1>2, <2>2
      <4> HIDE DEF p, C
      <4>2. p \in [1..L -> Nat] BY <4>1
      <4> QED BY <4>2 DEF p
    <3> QED BY <2>3, <3>1, <3>2 DEF CompletingType
  <2> HIDE DEF start
  <2>5. CompletingAt(start, L)
    BY <1>2, <2>1 DEF CompletingAt, OpenedCalls
  <2>6. \A k \in DOMAIN opened : CallIn(start, k) <=> IsCall(k)
    BY <2>1 DEF CallIn, OpenedInv
  <2>7. CompletingIDs(start) BY <2>1, <2>6 DEF CompletingIDs, OwnInv
  <2>8. CompletingOpened(start)
    BY <2>1 DEF CompletingOpened, OpenedInv, IDIsStable
  <2> QED BY <2>4, <2>5, <2>7, <2>8 DEF Completing
<1>4. PICK f : /\ f = [n \in 0..Len(list) |->
                          IF n = 0 THEN start ELSE Complete(f[n - 1], n, list[n])]
               /\ Completed(list) = f[Len(list)]
  BY <1>1, CompletedSteps
<1> HIDE DEF start
<1>5. /\ Completed(list) = f[L]
      /\ \A n \in 0..L : f[n] = IF n = 0 THEN start ELSE Complete(f[n - 1], n, list[n])
  BY <1>4
<1> DEFINE S == {n \in 0..L : Completing(f[n], L)}
<1>6. 0 \in S BY <1>1, <1>3, <1>5
<1>7. ASSUME NEW m \in 0..L, m \in S, m < L PROVE m + 1 \in S
  <2>1. m + 1 \in 1..L /\ m + 1 \in 0..L /\ (m + 1) - 1 = m /\ m + 1 # 0
    BY <1>1, <1>7
  <2>2. f[m + 1] = Complete(f[m], m + 1, list[m + 1]) BY <1>5, <2>1
  <2> DEFINE s == f[m]
  <2>3. PICK n \in 1..L, l \in ListedCall : n = m + 1 /\ l = list[m + 1]
    BY <1>1, <2>1
  <2>4. Completing(s, L) BY <1>7
  <2>5. f[m + 1] = Complete(s, n, l) BY <2>2, <2>3
  <2> HIDE DEF s
  <2>6. Completing(Complete(s, n, l), L)
    <3>1. CASE s.at[n] = 0 BY <1>1, <2>4, <3>1, CompleteNew
    <3>2. CASE s.at[n] # 0 /\ ~s.opened[s.at[n]].done
      BY <1>1, <2>4, <3>2, CompleteOpened
    <3>3. CASE s.at[n] # 0 /\ s.opened[s.at[n]].done
      <4>1. Complete(s, n, l) = s BY <3>3 DEF Complete
      <4> QED BY <2>4, <4>1
    <3> QED BY <3>1, <3>2, <3>3
  <2> QED BY <2>1, <2>5, <2>6
<1> HIDE DEF S
<1>8. 0..L \subseteq S BY <1>1, <1>6, <1>7, UpTo
<1>9. L \in S BY <1>1, <1>8
<1> QED BY <1>5, <1>9 DEF S

\* The calls that the response completes share no ID, and none with a call
\* that the stream completed (appendFromResponse).
LEMMA LateApart ==
    ASSUME OpenedInv, IDIsStable, NEW s, NEW L, Completing(s, L),
           NEW late \in Ascending(Late(s))
    PROVE  LET u == FromResponse(s, late) IN
           /\ Apart(u) /\ IDs(u) \cap DoneIDs = {}
           /\ IDs(u) \cup DoneIDs \subseteq s.decided
<1> DEFINE u == FromResponse(s, late)
           isLate == Late(s)
<1>1. PICK n \in 0..Cardinality(isLate) : late \in [1..n -> isLate]
  BY DEF Ascending
<1>2. \A j, k \in 1..n : j < k => late[j] < late[k]
  BY <1>1 DEF Ascending
<1>3. \A k \in isLate : /\ k \in DOMAIN s.opened /\ k \in Nat
                        /\ s.opened[k].late /\ s.opened[k].call
                        /\ s.opened[k].as = IDOf(s.opened[k])
  BY DEF Late, Completing, CompletingType, CompletingOpened, IDOf
<1> HIDE DEF isLate
<1>4. \A j, k \in 1..n : late[j] = late[k] => j = k
  <2> SUFFICES ASSUME NEW j \in 1..n, NEW k \in 1..n, late[j] = late[k], j # k
               PROVE  FALSE
    OBVIOUS
  <2>1. late[j] \in Nat /\ late[k] \in Nat /\ j \in Int /\ k \in Int
    BY <1>1, <1>3
  <2>2. j < k \/ k < j BY <2>1
  <2> QED BY <1>2, <2>1, <2>2
<1>5. DOMAIN u = 1..n /\ \A k \in 1..n : u[k].id = s.opened[late[k]].as
  BY <1>1 DEF FromResponse, Entry
<1>6. \A k \in 1..n : /\ late[k] \in DOMAIN s.opened /\ CallIn(s, late[k])
                      /\ s.opened[late[k]].late
                      /\ u[k].id = IDOf(s.opened[late[k]])
  BY <1>1, <1>3, <1>5 DEF CallIn
<1>7. \A j, k \in 1..n : u[j].id = u[k].id => j = k
  BY <1>4, <1>6 DEF Completing, CompletingIDs
<1> HIDE DEF u
<1>8. Apart(u) BY <1>5, <1>7 DEF Apart
<1>9. ASSUME NEW id \in DoneIDs
      PROVE  \E j \in DOMAIN s.opened : /\ CallIn(s, j) /\ ~s.opened[j].late
                                        /\ id = IDOf(s.opened[j])
  <2>1. PICK j \in DOMAIN opened : IsCall(j) /\ opened[j].done /\ id = opened[j].as
    BY <1>9 DEF DoneIDs
  <2>2. s.opened[j] = opened[j] /\ j \in DOMAIN s.opened
    BY <2>1 DEF Completing, CompletingOpened
  <2>3. ~opened[j].late /\ id = IDOf(opened[j])
    BY <2>1 DEF OpenedInv, IDIsStable, IDOf
  <2> QED BY <2>1, <2>2, <2>3 DEF CallIn
<1>10. \A id \in IDs(u) : \E k \in 1..n : id = u[k].id BY <1>5 DEF IDs
<1>11. IDs(u) \cap DoneIDs = {}
  <2> SUFFICES ASSUME NEW id \in IDs(u), id \in DoneIDs PROVE FALSE
    OBVIOUS
  <2>1. PICK k \in 1..n : id = u[k].id BY <1>10
  <2>2. PICK j \in DOMAIN s.opened : /\ CallIn(s, j) /\ ~s.opened[j].late
                                     /\ id = IDOf(s.opened[j])
    BY <1>9
  <2>3. j = late[k] BY <1>6, <2>1, <2>2 DEF Completing, CompletingIDs
  <2> QED BY <1>6, <2>2, <2>3
<1>12. IDs(u) \cup DoneIDs \subseteq s.decided
  BY <1>6, <1>9, <1>10 DEF Completing, CompletingIDs
<1> QED BY <1>8, <1>11, <1>12 DEF u

\* The end of the stream keeps the invariant.
LEMMA EndsIdentity ==
    ASSUME AttemptInv, IdentityInv, StreamEnds
    PROVE  IdentityInv'
<1> DEFINE list == final.list
           s == Completed(list)
           L == Len(list)
<1>1. /\ srv \in Servers /\ OpenedInv /\ OwnInv /\ WrittenInv /\ IDIsStable
      /\ list \in Seq(ListedCall)
  BY DEF IdentityInv, StreamInv, ListInv, StreamEnds, CallIDIsIdentity
<1> HIDE DEF list
<1>2. Completing(s, L) BY <1>1, CompletedIs
<1>3. opened' = s.opened /\ srv' = srv /\ phase' = "done"
  BY DEF StreamEnds, Finish, list
<1>4. PICK late \in Ascending(Late(s)) :
         LET more == held \o FromResponse(s, late) IN
         \/ kept' = kept \o more
         \/ \E n \in 0..Len(more) : kept' = kept \o SubSeq(more, 1, n)
  BY DEF StreamEnds, list
<1> HIDE DEF s
<1> DEFINE u == FromResponse(s, late)
           more == held \o u
<1>5. /\ Apart(u) /\ IDs(u) \cap DoneIDs = {}
      /\ IDs(u) \cup DoneIDs \subseteq s.decided
  BY <1>1, <1>2, LateApart
<1>6. Stamped(u, call) BY StampedLate
<1>7. PICK S : kept \in Seq(S) /\ held \in Seq(S) /\ u \in Seq(S)
  <2> DEFINE S == {kept[k] : k \in DOMAIN kept} \cup {held[k] : k \in DOMAIN held}
                     \cup {u[k] : k \in DOMAIN u}
  <2> HIDE DEF u
  <2>1. kept \in Seq(S) /\ held \in Seq(S) /\ u \in Seq(S)
    BY <1>6 DEF AttemptInv, Stamped
  <2> QED BY <2>1
<1> HIDE DEF u
<1>8. Apart(more) /\ IDs(more) = IDs(held) \cup IDs(u)
  <2>1. IDs(held) \cap IDs(u) = {} BY <1>1, <1>5 DEF WrittenInv
  <2> QED BY <1>1, <1>5, <1>7, <2>1, ApartConcat DEF WrittenInv
<1>9. more \in Seq(S) /\ Len(more) \in Nat BY <1>7
<1>10. PICK m \in Seq(S) : /\ Apart(m) /\ IDs(m) \subseteq IDs(more)
                           /\ kept' = kept \o m
  <2>1. CASE kept' = kept \o more BY <1>8, <1>9, <2>1
  <2>2. ASSUME NEW n \in 0..Len(more), kept' = kept \o SubSeq(more, 1, n)
        PROVE  \E m \in Seq(S) : /\ Apart(m) /\ IDs(m) \subseteq IDs(more)
                                 /\ kept' = kept \o m
    <3> HIDE DEF more
    <3>1. /\ SubSeq(more, 1, n) \in Seq(S) /\ Apart(SubSeq(more, 1, n))
          /\ IDs(SubSeq(more, 1, n)) \subseteq IDs(more)
      BY <1>8, <1>9, ApartSubSeq
    <3> QED BY <2>2, <3>1
  <2> QED BY <1>4, <2>1, <2>2 DEF u
<1> HIDE DEF more
<1>11. Apart(kept') /\ IDs(kept') \subseteq s.decided
  <2>1. IDs(kept) \cap IDs(m) = {} /\ IDs(kept) \cup IDs(m) \subseteq s.decided
    BY <1>1, <1>5, <1>8, <1>10 DEF WrittenInv
  <2>2. Apart(kept \o m) /\ IDs(kept \o m) = IDs(kept) \cup IDs(m)
    BY <1>1, <1>7, <1>10, <2>1, ApartConcat DEF WrittenInv
  <2> QED BY <1>10, <2>1, <2>2
<1>12. IDs(kept') \cap (Taken \cup {0}) = {}
  BY <1>2, <1>11 DEF Completing, CompletingIDs, GoodID
<1>13. UniqueCallIDs' BY <1>11, <1>12, UniqueNext
<1>14. IDIsStable'
  BY <1>2, <1>3 DEF Completing, CompletingOpened, IDIsStable
<1> QED BY <1>1, <1>3, <1>13, <1>14 DEF IdentityInv, CallIDIsIdentity

\* Where the attempt's IDs and the transcript do not change, what is said of
\* them does not.
LEMMA Same ==
    ASSUME UNCHANGED <<srv, kept, held, opened, callAt, callItems, decided, minted>>
    PROVE  /\ OpenedInv' = OpenedInv /\ OwnInv' = OwnInv /\ SlotInv' = SlotInv
           /\ WrittenInv' = WrittenInv /\ CallIDIsIdentity' = CallIDIsIdentity
<1>1. /\ Items' = Items /\ Indexes' = Indexes /\ OpenedEntry' = OpenedEntry
      /\ \A k : IsCall(k)' = IsCall(k) /\ Index(k)' = Index(k)
      /\ \A x : CallsAt(x)' = CallsAt(x)
      /\ \A x, k : SlotIs(x, k)' = SlotIs(x, k)
  BY DEF Items, Indexes, OpenedEntry, IsCall, Index, CallsAt, SlotIs
<1>2. OpenedInv' = OpenedInv BY <1>1 DEF OpenedInv
<1>3. OwnInv' = OwnInv BY <1>1 DEF OwnInv, GoodID, IDOf
<1>4. SlotInv' = SlotInv BY <1>1 DEF SlotInv
<1>5. DoneIDs' = DoneIDs BY <1>1 DEF DoneIDs
<1>6. WrittenInv' = WrittenInv BY <1>5 DEF WrittenInv
<1>7. CallIDIsIdentity' = CallIDIsIdentity
  BY DEF CallIDIsIdentity, UniqueCallIDs, IDIsStable, KeptCalls
<1> QED BY <1>2, <1>3, <1>4, <1>6, <1>7

\* The terminal response lists items of the server.
LEMMA TerminalIdentity ==
    ASSUME IdentityInv, Terminal
    PROVE  IdentityInv'
<1>1. srv \in Servers /\ StreamInv /\ CallIDIsIdentity
  BY DEF IdentityInv, Terminal
<1>2. PICK l \in Listings, odd \in 0..Len(srv.out) :
         final'.list = [k \in DOMAIN l |->
                          [of |-> l[k], item |-> Given(l[k], srv.listed),
                           cid |-> srv.out[l[k]].cid, same |-> l[k] # odd]]
  BY DEF Terminal
<1>3. PICK T \in SUBSET Items : l \in Ascending(T)
  <2> DEFINE whole == {1..n : n \in {m \in 0..Len(srv.out) : Started \subseteq 1..m}}
             last == {{n} : n \in {m \in Started : Started = 1..m}}
  <2>1. PICK t \in whole \cup last : l \in Ascending({i \in t : Kind(i) = "call"})
    BY <1>2 DEF Listings
  <2>2. Started \subseteq Items /\ Items = 1..Len(srv.out) /\ Len(srv.out) \in Nat
    BY <1>1, StartedIs, ServerFacts DEF StreamInv
  <2>3. t \subseteq Items
    <3>1. CASE t \in whole BY <2>2, <3>1
    <3>2. CASE t \in last BY <2>2, <3>2
    <3> QED BY <2>1, <3>1, <3>2
  <2> QED BY <2>1, <2>3
<1>4. PICK n \in 0..Cardinality(T) : l \in [1..n -> T]
  BY <1>3 DEF Ascending
<1>5. n \in Nat /\ DOMAIN l = 1..n /\ \A k \in 1..n : l[k] \in Items
  BY <1>3, <1>4
<1> DEFINE q == final'.list
<1>6. q \in [1..n -> ListedCall]
  <2>1. ASSUME NEW k \in 1..n
        PROVE  [of |-> l[k], item |-> Given(l[k], srv.listed),
                cid |-> srv.out[l[k]].cid, same |-> l[k] # odd] \in ListedCall
    <3>1. /\ l[k] \in Items /\ srv.out[l[k]].cid \in 0..LastID
          /\ Given(l[k], srv.listed) \in {0} \cup Items
      BY <1>1, <1>5, ServerFacts DEF Given
    <3> QED BY <3>1 DEF ListedCall
  <2> QED BY <1>2, <1>5, <2>1
<1>7. q \in Seq(ListedCall)
  <2> HIDE DEF q
  <2> QED BY <1>5, <1>6, SeqDef
<1>8. UNCHANGED <<srv, kept, held, opened, callAt, callItems, decided, minted>>
  BY DEF Terminal
<1>9. ListInv' BY <1>7, <1>8 DEF ListInv, ListedCall, Items
<1>10. OpenedInv' /\ OwnInv' /\ SlotInv' /\ WrittenInv'
  BY <1>1, <1>8, Same DEF StreamInv
<1>11. CallIDIsIdentity' BY <1>1, <1>8, Same
<1> QED BY <1>1, <1>8, <1>9, <1>10, <1>11 DEF IdentityInv, StreamInv

\* An attempt begins with no call (stream).
LEMMA StartIdentity ==
    ASSUME srv \in Servers, kept = <<>>, StartStream, UNCHANGED <<srv, kept>>
    PROVE  IdentityInv'
<1>1. /\ opened' = <<>> /\ held' = <<>> /\ decided' = {} /\ minted' = 0
      /\ final' = None /\ callAt' = [x \in Indexes |-> NoSlot]
      /\ callItems' = [i \in Items |-> 0]
  BY DEF StartStream
<1>2. Items' = Items /\ Indexes' = Indexes /\ Len(srv'.out) \in Nat
  BY ServerFacts DEF Items, Indexes
<1>3. OpenedInv' /\ OwnInv' /\ IDIsStable' /\ \A x : CallsAt(x)' = {}
  BY <1>1, <1>2 DEF OpenedInv, OwnInv, IDIsStable, CallsAt
<1>4. SlotInv'
  <2>1. /\ callAt' \in [Indexes -> [id : Nat, item : {0} \cup Items]]
        /\ callItems' \in [Items -> Nat]
    BY <1>1 DEF NoSlot
  <2>2. \A x \in Indexes : callAt'[x] = NoSlot BY <1>1
  <2>3. \A i \in Items : callItems'[i] = 0 BY <1>1
  <2> QED BY <1>2, <1>3, <2>1, <2>2, <2>3 DEF SlotInv
<1>5. WrittenInv' /\ UniqueCallIDs'
  <2>1. Apart(kept') /\ Apart(held') /\ IDs(kept') = {} /\ IDs(held') = {}
    BY <1>1, ApartEmpty
  <2> QED BY <2>1, UniqueNext DEF WrittenInv
<1>6. ListInv' BY <1>1 DEF ListInv, None
<1> QED BY <1>3, <1>4, <1>5, <1>6 DEF IdentityInv, StreamInv, CallIDIsIdentity

\* Where the stream is over and its calls are left as they are, so are their
\* IDs.
LEMMA OverIdentity ==
    ASSUME IdentityInv, UNCHANGED <<srv, kept, opened>>, phase' # "stream"
    PROVE  IdentityInv'
<1>1. CallIDIsIdentity'
  BY DEF IdentityInv, CallIDIsIdentity, UniqueCallIDs, IDIsStable, KeptCalls
<1> QED BY <1>1 DEF IdentityInv

\* A message the output guard refuses leaves the calls' IDs alone.
LEMMA RefusedIdentity ==
    ASSUME IdentityInv, NEW i \in Items, MessageRefused(i)
    PROVE  IdentityInv'
<1>1. /\ srv \in Servers /\ OpenedInv /\ UniqueCallIDs /\ IDIsStable
      /\ srv' = srv /\ kept' = kept /\ phase' # "stream"
  BY DEF IdentityInv, StreamInv, CallIDIsIdentity, MessageRefused, Finish
<1> DEFINE e == Opened(i, 0, 0, FALSE, 0)
<1>2. CASE opened' = opened BY <1>1, <1>2, OverIdentity
<1>3. CASE opened' = Append(opened, e)
  <2>1. e \in OpenedEntry /\ ~e.call
    BY <1>1, ServerFacts, TurnAssumption DEF Opened, OpenedEntry
  <2> HIDE DEF e
  <2>2. /\ DOMAIN opened' = DOMAIN opened \cup {Len(opened) + 1}
        /\ opened'[Len(opened) + 1] = e
        /\ \A k \in DOMAIN opened : opened'[k] = opened[k]
    BY <1>1, <1>3, <2>1, Appended DEF OpenedInv
  <2>3. IDIsStable' BY <1>1, <2>1, <2>2 DEF IDIsStable
  <2>4. UniqueCallIDs' BY <1>1 DEF UniqueCallIDs, KeptCalls
  <2> QED BY <1>1, <2>3, <2>4 DEF IdentityInv, CallIDIsIdentity
<1> QED BY <1>2, <1>3 DEF MessageRefused

\* Every step keeps the calls' IDs apart.
LEMMA NextIdentity ==
    ASSUME AttemptInv, IdentityInv, ~BareReuse, [Next]_vars
    PROVE  IdentityInv'
<1>0. srv \in Servers BY DEF IdentityInv
<1>1. CASE Build
  <2>1. CASE StartStream
    <3>1. kept = <<>> /\ UNCHANGED <<srv, kept>>
      BY <1>1 DEF Build, AttemptInv
    <3> QED BY <1>0, <2>1, <3>1, StartIdentity
  <2>2. CASE ~StartStream
    BY <1>1, <2>2, OverIdentity DEF Build, Finish, streamVars
  <2> QED BY <2>1, <2>2
<1>2. CASE UpdateFails BY <1>2, OverIdentity DEF UpdateFails, Finish
<1>3. CASE Terminal BY <1>3, TerminalIdentity
<1>4. CASE StreamEnds BY <1>4, EndsIdentity
<1>5. CASE ResponseFailed
  BY <1>5, OverIdentity DEF ResponseFailed, Finish
<1>6. CASE Fold
  <2>1. CASE StartStream
    <3>1. kept = <<>> /\ UNCHANGED <<srv, kept>>
      BY <1>6 DEF Fold, AttemptInv
    <3> QED BY <1>0, <2>1, <3>1, StartIdentity
  <2>2. CASE ~StartStream
    BY <1>6, <2>2, OverIdentity DEF Fold, RetryOrFail, Finish, streamVars
  <2> QED BY <2>1, <2>2
<1>7. CASE Wake
  <2>1. CASE StartStream
    <3>1. kept = <<>> /\ UNCHANGED <<srv, kept>>
      BY <1>7 DEF Wake, AttemptInv
    <3> QED BY <1>0, <2>1, <3>1, StartIdentity
  <2>2. CASE ~StartStream
    BY <1>7, <2>2, OverIdentity DEF Wake, Finish, streamVars
  <2> QED BY <2>1, <2>2
<1>8. CASE Drain
  BY <1>8, OverIdentity DEF Drain, Withhold, CloseWithheld, Finish, streamVars
<1>9. ASSUME NEW i \in Items, ItemAdded(i) \/ ItemDone(i) \/ MessageRefused(i)
      PROVE  IdentityInv'
  BY <1>9, AddedIdentity, DoneIdentity, RefusedIdentity
<1>10. ASSUME NEW err \in Errors, StreamFails(err) PROVE IdentityInv'
  BY <1>10, OverIdentity
     DEF StreamFails, GuardStop, Withhold, CloseWithheld, RetryOrFail, Finish, streamVars
<1>11. CASE Cancel \/ Done \/ UNCHANGED vars
  <2>1. /\ UNCHANGED <<srv, kept, held, opened, callAt, callItems, decided, minted>>
        /\ UNCHANGED <<final, phase>>
    BY <1>11 DEF Cancel, Done, vars, streamVars
  <2>2. ListInv' = ListInv BY <2>1 DEF ListInv, ListedCall, Items
  <2> QED BY <2>1, <2>2, Same DEF IdentityInv, StreamInv
<1> QED BY <1>1, <1>2, <1>3, <1>4, <1>5, <1>6, <1>7, <1>8, <1>9, <1>10, <1>11
        DEF Next, Step

\* A call has one ID of its own from its item_start to its output: no two
\* calls the turn keeps share one, none has one that was taken before the
\* turn, and each completes under the ID its item_start carried, for every
\* server that gives an item ID where it completes, at an index a call had, a
\* call that it never opened (decideCallID, decidedCallID, renameCalls).
THEOREM CallIDsAreApart ==
    ASSUME ~BareReuse
    PROVE  Spec => []CallIDIsIdentity
<1>1. Init => IdentityInv
  <2> SUFFICES ASSUME Init PROVE IdentityInv
    OBVIOUS
  <2>1. kept = <<>> /\ opened = <<>> /\ srv \in Servers /\ phase # "stream"
    BY DEF Init
  <2> QED BY <2>1 DEF IdentityInv, CallIDIsIdentity, UniqueCallIDs, IDIsStable, KeptCalls
<1>2. AttemptInv /\ IdentityInv /\ [Next]_vars => IdentityInv'
  BY NextIdentity
<1>3. IdentityInv => CallIDIsIdentity BY DEF IdentityInv
<1> QED BY InitAttempt, NextAttempt, <1>1, <1>2, <1>3, PTL DEF Spec
=============================================================================
