-------------------------- MODULE IdempotencyProofs --------------------------
(* Proofs about Idempotency, for every set of requests, processes and bodies. *)
EXTENDS Idempotency, TLAPS

\* The row belongs to whoever executes, and is not expired.
OwnerHasRow ==
    \A r \in Requests : Owns(r) =>
        rec # NoRec /\ rec.st = "PROCESSING" /\ rec.by = r /\ rec.live /\ rec.hash = Body[r]

\* The mutation is in the database between the handler's end and the completion.
EffectOfOwner ==
    \A r \in Requests :
        /\ pc[r] \in {"handler", "release", "fail"} => effect = None
        /\ pc[r] = "complete" => effect = r

\* What the row says agrees with what was executed.
RowTellsEffect ==
    /\ effect # None => rec # NoRec /\ rec.st # "FAILED"
    /\ rec # NoRec /\ rec.st = "COMPLETED" =>
           effect = rec.resp /\ (rec.resp \in Requests => Body[rec.resp] = rec.hash)

\* A request about to purge has seen an expired row.
PurgesExpired ==
    \A r \in Requests : pc[r] = "purge" => seen[r] # NoRec /\ ~ seen[r].live

\* An answer ends a request.
AnswerEnds == \A r \in Requests : answer[r] # None => pc[r] = "done"

IInv ==
    TypeOK /\ OwnerHasRow /\ EffectOfOwner /\ RowTellsEffect /\ PurgesExpired
    /\ AnswerEnds /\ AnswersMatchBody

Points == {"idle", "joined", "create", "read", "purge", "reclaim", "wait", "handler",
           "complete", "release", "fail", "done", "lost"}

\* Every record value is told apart from the absence of a row.
LEMMA NoRecIsNoRow == NoRec \notin RecType
  BY DEF NoRec, RecType

\* A claim is a row (claimIdempotency creates it PROCESSING, unexpired).
LEMMA ClaimIsRow ==
  ASSUME NEW r \in Requests
  PROVE  /\ Claimed(r) \in RecType /\ Claimed(r) # NoRec
         /\ Claimed(r).st = "PROCESSING" /\ Claimed(r).by = r /\ Claimed(r).live
         /\ Claimed(r).hash = Body[r] /\ Claimed(r).resp = None
  BY IdempotencyConstants DEF Claimed, RecType, NoRec

\* Settling answers the request and those who joined it, and nobody else.
LEMMA SettleEffect ==
  ASSUME TypeOK, NEW r \in Requests, NEW a \in Requests \cup {Old} \cup Refusals,
         pc[r] \notin {"idle", "done", "lost"}, Settle(r, a)
  PROVE  /\ pc' \in [Requests -> Points]
         /\ inFlight' \in [Procs -> [Bodies -> Requests \cup {None}]]
         /\ answer' \in [Requests -> Requests \cup {Old, None} \cup Refusals]
         /\ pc'[r] = "done"
         /\ \A s \in Requests : \/ pc'[s] = pc[s] /\ answer'[s] = answer[s]
                                \/ /\ pc'[s] = "done" /\ answer'[s] = a /\ Body[s] = Body[r]
                                   /\ s = r \/ pc[s] = "joined"
<1> DEFINE all == {r} \cup Followers(r)
<1>1. pc' = [s \in Requests |-> IF s \in all THEN "done" ELSE pc[s]]
      /\ answer' = [s \in Requests |-> IF s \in all THEN a ELSE answer[s]]
      /\ inFlight' = [inFlight EXCEPT ![Home[r]][Body[r]] = IF @ = r THEN None ELSE @]
  BY DEF Settle
<1>2. inFlight' \in [Procs -> [Bodies -> Requests \cup {None}]]
  BY <1>1, IdempotencyConstants DEF TypeOK
<1>3. \A s \in all : Body[s] = Body[r] /\ (s = r \/ pc[s] = "joined")
  BY DEF Followers
<1> QED BY <1>1, <1>2, <1>3 DEF TypeOK, Points

\* The invariant holds at the start, with or without a row of the migration.
LEMMA InvInit == Init => IInv
<1> SUFFICES ASSUME Init PROVE IInv
  OBVIOUS
<1> USE IdempotencyConstants
<1>1. Backfill \in RecType /\ Backfill # NoRec /\ Backfill.st = "COMPLETED"
      /\ Backfill.resp = Old /\ Backfill.hash = Old
  BY DEF Backfill, RecType, NoRec
<1>2. TypeOK
  BY <1>1, NoRecIsNoRow DEF Init, TypeOK
<1>3. OwnerHasRow /\ EffectOfOwner /\ PurgesExpired /\ AnswerEnds /\ AnswersMatchBody
  BY DEF Init, OwnerHasRow, EffectOfOwner, PurgesExpired, AnswerEnds, AnswersMatchBody, Owns
<1>4. RowTellsEffect
  BY <1>1 DEF Init, RowTellsEffect
<1> QED BY <1>2, <1>3, <1>4 DEF IInv

\* An answer given while the row stays as it is keeps the invariant.
LEMMA SettleKeeps ==
  ASSUME IInv, NEW r \in Requests, NEW a \in Requests \cup {Old} \cup Refusals,
         pc[r] \notin {"idle", "done", "lost"}, Settle(r, a), UNCHANGED <<rec, seen, effect, slow>>, ~ slow,
         spent' \in [{"faults", "expiries"} -> Nat],
         a \in Requests => Body[a] = Body[r]
  PROVE  IInv'
<1> USE DEF IInv
<1>1. TypeOK'
  BY SettleEffect DEF TypeOK, Points
<1>2. \A s \in Requests : pc'[s] # pc[s] => pc'[s] = "done"
  BY SettleEffect
<1>3. OwnerHasRow' /\ EffectOfOwner' /\ PurgesExpired' /\ RowTellsEffect'
  BY <1>2 DEF OwnerHasRow, EffectOfOwner, PurgesExpired, RowTellsEffect, Owns
<1>4. AnswerEnds' /\ AnswersMatchBody'
  BY SettleEffect DEF AnswerEnds, AnswersMatchBody
<1> QED BY <1>1, <1>3, <1>4

\* A request that moves on without an answer, the row unchanged, keeps it too.
LEMMA MoveKeeps ==
  ASSUME IInv, NEW r \in Requests, NEW at \in Points \ {"purge"},
         pc' = [pc EXCEPT ![r] = at], pc[r] # "done",
         at \in {"handler", "complete", "release", "fail"} =>
             Owns(r) /\ (at = "complete" => pc[r] = "complete")
                   /\ (at # "complete" => pc[r] = "handler"),
         UNCHANGED <<rec, answer, effect, spent, slow>>, ~ slow,
         seen' \in [Requests -> RecType \cup {NoRec}],
         \A s \in Requests \ {r} : seen'[s] = seen[s],
         inFlight' \in [Procs -> [Bodies -> Requests \cup {None}]]
  PROVE  IInv'
<1> USE DEF IInv
<1>1. TypeOK'
  BY DEF TypeOK, Points
<1>2. OwnerHasRow' /\ EffectOfOwner' /\ PurgesExpired' /\ RowTellsEffect'
  BY DEF TypeOK, OwnerHasRow, EffectOfOwner, PurgesExpired, RowTellsEffect, Owns
<1>3. AnswerEnds' /\ AnswersMatchBody'
  BY DEF TypeOK, AnswerEnds, AnswersMatchBody
<1> QED BY <1>1, <1>2, <1>3

\* Whoever claims a row that nobody owned keeps it.
LEMMA ClaimKeeps ==
  ASSUME IInv, NEW r \in Requests, pc[r] \in {"create", "reclaim"},
         rec = NoRec \/ rec.st = "FAILED",
         rec' = Claimed(r), Goto(r, "handler"), UNCHANGED <<seen, effect, spent, slow>>, ~ slow
  PROVE  IInv'
<1> USE DEF IInv, Goto
<1>1. effect = None
  BY DEF RowTellsEffect
<1>2. \A s \in Requests : ~ Owns(s)
  BY DEF OwnerHasRow
<1>3. TypeOK'
  BY ClaimIsRow DEF TypeOK
<1>4. OwnerHasRow' /\ EffectOfOwner'
  BY <1>1, <1>2, ClaimIsRow DEF OwnerHasRow, EffectOfOwner, Owns, TypeOK
<1>5. RowTellsEffect' /\ PurgesExpired' /\ AnswerEnds' /\ AnswersMatchBody'
  BY <1>1, ClaimIsRow DEF RowTellsEffect, PurgesExpired, AnswerEnds, AnswersMatchBody, TypeOK
<1> QED BY <1>3, <1>4, <1>5

\* Requests before the handler: arrival, claim, look-ups, purge, wait.
LEMMA LookupStep ==
  ASSUME IInv, ~ slow, slow' = slow, NEW r \in Requests,
         \/ Arrive(r) \/ Create(r) \/ Read(r) \/ Purge(r) \/ Reclaim(r) \/ Look(r) \/ WaitTimesOut(r)
  PROVE  IInv'
<1> USE DEF IInv
<1>r. spent \in [{"faults", "expiries"} -> Nat]
  BY DEF TypeOK
<1>1. CASE Arrive(r)
  <2>1. PICK at \in {"joined", "create"} : pc' = [pc EXCEPT ![r] = at]
    BY <1>1 DEF Arrive
  <2>2. inFlight' \in [Procs -> [Bodies -> Requests \cup {None}]]
    <3>1. Home[r] \in Procs /\ Body[r] \in Bodies
      BY IdempotencyConstants
    <3>2. inFlight \in [Procs -> [Bodies -> Requests \cup {None}]]
      BY DEF TypeOK
    <3>3. inFlight' = inFlight \/ inFlight' = [inFlight EXCEPT ![Home[r]][Body[r]] = r]
      BY <1>1 DEF Arrive
    <3> QED BY <3>1, <3>2, <3>3
  <2>3. UNCHANGED <<rec, seen, answer, effect, spent>> /\ pc[r] = "idle"
    BY <1>1 DEF Arrive
  <2> QED BY <2>1, <2>2, <2>3, MoveKeeps DEF TypeOK, Points
<1>2. CASE Create(r)
  <2>1. CASE rec = NoRec
    BY <1>2, <2>1, ClaimKeeps DEF Create
  <2>2. CASE rec # NoRec
    BY <1>2, <2>2, MoveKeeps DEF Create, Goto, TypeOK, Points
  <2> QED BY <2>1, <2>2
<1>3. CASE Read(r)
  <2>1. CASE rec = NoRec
    BY <1>3, <2>1, MoveKeeps DEF Read, Goto, TypeOK, Points
  <2>2. CASE rec # NoRec /\ ~ rec.live
    <3>1. Goto(r, "purge") /\ seen' = [seen EXCEPT ![r] = rec] /\ pc[r] = "read"
          /\ UNCHANGED <<rec, effect, spent>>
      BY <1>3, <2>2 DEF Read
    <3>2. TypeOK'
      BY <2>2, <3>1 DEF Goto, TypeOK
    <3> QED BY <2>2, <3>1, <3>2 DEF Goto, TypeOK, OwnerHasRow, EffectOfOwner, RowTellsEffect,
          PurgesExpired, AnswerEnds, AnswersMatchBody, Owns
  <2>3. CASE rec # NoRec /\ rec.live
    <3>1. CASE Settle(r, "MISMATCH")
      BY <1>3, <2>3, <3>1, <1>r, SettleKeeps, IdempotencyConstants DEF Read, Refusals
    <3>2. CASE Matches(r) /\ rec.st = "COMPLETED" /\ Settle(r, rec.resp)
      <4>1. rec.resp \in Requests \cup {Old}
        BY <2>3, <3>2 DEF TypeOK, RecType
      <4>2. rec.resp \in Requests => Body[rec.resp] = Body[r]
        BY <2>3, <3>2, IdempotencyConstants DEF RowTellsEffect, Matches
      <4>3. UNCHANGED <<rec, seen, effect, spent>> /\ pc[r] = "read"
        BY <1>3, <2>3 DEF Read
      <4> QED BY <3>2, <4>1, <4>2, <4>3, <1>r, SettleKeeps
    <3>3. CASE Goto(r, "wait") \/ Goto(r, "reclaim")
      BY <1>3, <2>3, <3>3, MoveKeeps DEF Read, Goto, TypeOK, Points
    <3> QED BY <1>3, <2>3, <3>1, <3>2, <3>3 DEF Read
  <2> QED BY <2>1, <2>2, <2>3
<1>4. CASE Purge(r)
  <2>1. Goto(r, "create") /\ seen' = [seen EXCEPT ![r] = NoRec] /\ UNCHANGED spent /\ pc[r] = "purge"
    BY <1>4 DEF Purge
  <2>2. CASE SameRow(r)
    <3>1. rec' = NoRec /\ effect' = None
      BY <1>4, <2>2 DEF Purge
    <3>2. rec # NoRec /\ ~ rec.live
      BY <2>1, <2>2 DEF PurgesExpired, SameRow
    <3>3. \A s \in Requests : ~ Owns(s)
      BY <3>2 DEF OwnerHasRow
    <3> QED BY <2>1, <3>1, <3>3 DEF Goto, TypeOK, OwnerHasRow, EffectOfOwner, RowTellsEffect,
          PurgesExpired, AnswerEnds, AnswersMatchBody, Owns
  <2>3. CASE ~ SameRow(r)
    <3>1. UNCHANGED <<rec, answer, effect, spent, inFlight>> /\ pc' = [pc EXCEPT ![r] = "create"]
      BY <1>4, <2>1, <2>3 DEF Purge, Goto
    <3>2. seen' \in [Requests -> RecType \cup {NoRec}] /\ \A s \in Requests \ {r} : seen'[s] = seen[s]
      BY <2>1 DEF TypeOK
    <3>3. inFlight' \in [Procs -> [Bodies -> Requests \cup {None}]]
      BY <3>1 DEF TypeOK
    <3> QED BY <2>1, <3>1, <3>2, <3>3, MoveKeeps DEF Points
  <2> QED BY <2>2, <2>3
<1>5. CASE Reclaim(r)
  <2>1. CASE StillFailed(r)
    BY <1>5, <2>1, ClaimKeeps DEF Reclaim, StillFailed
  <2>2. CASE ~ StillFailed(r)
    BY <1>5, <2>2, MoveKeeps DEF Reclaim, Goto, TypeOK, Points
  <2> QED BY <2>1, <2>2
<1>6. CASE Look(r)
  <2>0. UNCHANGED <<rec, seen, effect, spent>> /\ pc[r] = "wait"
    BY <1>6 DEF Look
  <2>1. CASE Settle(r, "IN_PROGRESS") \/ Settle(r, "MISMATCH")
    BY <2>0, <2>1, <1>r, SettleKeeps, IdempotencyConstants DEF Refusals
  <2>2. CASE rec # NoRec /\ Matches(r) /\ rec.st = "COMPLETED" /\ Settle(r, rec.resp)
    <3>1. rec.resp \in Requests \cup {Old}
      BY <2>2 DEF TypeOK, RecType
    <3>2. rec.resp \in Requests => Body[rec.resp] = Body[r]
      BY <2>2, IdempotencyConstants DEF RowTellsEffect, Matches
    <3> QED BY <2>0, <2>2, <3>1, <3>2, <1>r, SettleKeeps
  <2> QED BY <1>6, <2>1, <2>2 DEF Look
<1>7. CASE WaitTimesOut(r)
  BY <1>7, <1>r, SettleKeeps, IdempotencyConstants DEF WaitTimesOut, Refusals
<1> QED BY <1>1, <1>2, <1>3, <1>4, <1>5, <1>6, <1>7

\* The handler's end and the three ways the record is settled after it.
LEMMA HandlerStep ==
  ASSUME IInv, ~ slow, slow' = slow, NEW r \in Requests,
         \/ HandlerSucceeds(r) \/ HandlerFails(r) \/ Complete(r) \/ Release(r) \/ Fail(r)
  PROVE  IInv'
<1> USE DEF IInv
<1>r. spent \in [{"faults", "expiries"} -> Nat]
  BY DEF TypeOK
<1>0. Owns(r) /\ rec # NoRec /\ rec.st = "PROCESSING" /\ rec.by = r /\ rec.hash = Body[r] /\ rec \in RecType
      /\ \A s \in Requests : Owns(s) => s = r
  BY DEF OwnerHasRow, Owns, HandlerSucceeds, HandlerFails, Complete, Release, Fail, TypeOK
<1>1. CASE HandlerSucceeds(r)
  <2>1. pc[r] = "handler" /\ pc' = [pc EXCEPT ![r] = "complete"] /\ effect' = r
        /\ UNCHANGED <<rec, seen, spent, inFlight, answer>>
    BY <1>1 DEF HandlerSucceeds, Goto
  <2>2. TypeOK'
    BY <2>1 DEF TypeOK
  <2>3. OwnerHasRow' /\ EffectOfOwner'
    BY <1>0, <2>1 DEF OwnerHasRow, EffectOfOwner, Owns, TypeOK
  <2>4. RowTellsEffect' /\ PurgesExpired' /\ AnswerEnds' /\ AnswersMatchBody'
    BY <1>0, <2>1 DEF RowTellsEffect, PurgesExpired, AnswerEnds, AnswersMatchBody, TypeOK
  <2> QED BY <2>2, <2>3, <2>4
<1>2. CASE HandlerFails(r)
  BY <1>2, <1>0, MoveKeeps DEF HandlerFails, Goto, TypeOK, Points
<1>3. CASE Complete(r)
  <2>1. /\ pc[r] = "complete" /\ effect = r /\ UNCHANGED <<seen, effect, spent>>
        /\ rec' = [rec EXCEPT !.st = "COMPLETED", !.resp = r] /\ Settle(r, r)
    BY <1>0, <1>3 DEF Complete, EffectOfOwner
  <2>2. rec' \in RecType /\ rec'.st = "COMPLETED" /\ rec'.resp = r /\ rec'.hash = Body[r]
    BY <1>0, <2>1 DEF RecType
  <2>3. \A s \in Requests : ~ Owns(s)'
    BY <1>0, <2>1, SettleEffect DEF Owns
  <2>4. TypeOK'
    <3>1. rec' \in RecType \cup {NoRec} /\ (rec' # NoRec => (rec'.st = "COMPLETED") = (rec'.resp # None))
      BY <2>2, IdempotencyConstants
    <3>2. /\ pc' \in [Requests -> Points]
          /\ inFlight' \in [Procs -> [Bodies -> Requests \cup {None}]]
          /\ answer' \in [Requests -> Requests \cup {Old, None} \cup Refusals]
      BY <2>1, SettleEffect
    <3> QED BY <2>1, <3>1, <3>2 DEF TypeOK, Points
  <2>5. OwnerHasRow' /\ EffectOfOwner'
    BY <2>3 DEF OwnerHasRow, EffectOfOwner, Owns
  <2>6. RowTellsEffect'
    BY <2>1, <2>2, NoRecIsNoRow DEF RowTellsEffect
  <2>7. PurgesExpired' /\ AnswerEnds' /\ AnswersMatchBody'
    BY <2>1, SettleEffect DEF PurgesExpired, AnswerEnds, AnswersMatchBody
  <2> QED BY <2>4, <2>5, <2>6, <2>7
<1>4. CASE Release(r) \/ Fail(r)
  <2>1. PICK a \in {"REJECTED", "ERROR"} : Settle(r, a)
    BY <1>4 DEF Release, Fail
  <2>2. effect = None /\ pc[r] \in {"release", "fail"} /\ UNCHANGED <<seen, effect, spent>>
    BY <1>4 DEF Release, Fail, EffectOfOwner
  <2>3. rec' = NoRec \/ (rec' \in RecType /\ rec'.st = "FAILED" /\ rec'.resp = rec.resp)
    <3>1. rec' = NoRec \/ rec' = [rec EXCEPT !.st = "FAILED"]
      BY <1>0, <1>4 DEF Release, Fail, InProcess
    <3>2. CASE rec' = [rec EXCEPT !.st = "FAILED"]
      BY <1>0, <3>2 DEF RecType
    <3> QED BY <3>1, <3>2
  <2>4. a \in Refusals /\ a \notin Requests
    BY IdempotencyConstants DEF Refusals
  <2>5. \A s \in Requests : ~ Owns(s)'
    BY <1>0, <2>1, <2>2, <2>4, SettleEffect DEF Owns
  <2>6. TypeOK'
    <3>1. rec' \in RecType \cup {NoRec} /\ (rec' # NoRec => (rec'.st = "COMPLETED") = (rec'.resp # None))
      BY <1>0, <2>3 DEF TypeOK
    <3>2. /\ pc' \in [Requests -> Points]
          /\ inFlight' \in [Procs -> [Bodies -> Requests \cup {None}]]
          /\ answer' \in [Requests -> Requests \cup {Old, None} \cup Refusals]
      BY <2>1, <2>2, <2>4, SettleEffect
    <3> QED BY <2>2, <3>1, <3>2 DEF TypeOK, Points
  <2>7. OwnerHasRow' /\ EffectOfOwner'
    BY <2>5 DEF OwnerHasRow, EffectOfOwner, Owns
  <2>8. RowTellsEffect'
    BY <2>2, <2>3 DEF RowTellsEffect
  <2>9. PurgesExpired' /\ AnswerEnds' /\ AnswersMatchBody'
    BY <2>1, <2>2, <2>4, SettleEffect DEF PurgesExpired, AnswerEnds, AnswersMatchBody
  <2> QED BY <2>6, <2>7, <2>8, <2>9
<1> QED BY <1>1, <1>2, <1>3, <1>4

\* Failing statements, expiry and crashes.
LEMMA FaultStep ==
  ASSUME IInv, ~ slow, slow' = slow,
         \/ Expire \/ (\E r \in Requests : DbError(r)) \/ (\E p \in Procs : Crash(p))
  PROVE  IInv'
<1> USE DEF IInv
<1>s. \A what \in {"faults", "expiries"} :
          spent' = [spent EXCEPT ![what] = @ + 1] =>
              spent' \in [{"faults", "expiries"} -> Nat]
  BY DEF TypeOK
<1>1. CASE Expire
  <2>1. /\ rec \in RecType /\ rec # NoRec /\ rec' = [rec EXCEPT !.live = FALSE]
        /\ \A r \in Requests : ~ Owns(r)
        /\ UNCHANGED <<pc, seen, inFlight, answer, effect>>
        /\ spent' \in [{"faults", "expiries"} -> Nat]
    BY <1>1, <1>s DEF Expire, Spend, TypeOK
  <2>2. /\ rec' \in RecType /\ rec'.st = rec.st /\ rec'.resp = rec.resp /\ rec'.by = rec.by
        /\ rec'.hash = rec.hash
    BY <2>1 DEF RecType
  <2>3. TypeOK'
    BY <2>1, <2>2 DEF TypeOK
  <2>4. OwnerHasRow' /\ EffectOfOwner' /\ PurgesExpired' /\ AnswerEnds' /\ AnswersMatchBody'
    BY <2>1 DEF OwnerHasRow, EffectOfOwner, PurgesExpired, AnswerEnds, AnswersMatchBody, Owns
  <2>5. RowTellsEffect'
    BY <2>1, <2>2, NoRecIsNoRow DEF RowTellsEffect
  <2> QED BY <2>3, <2>4, <2>5
<1>2. ASSUME NEW r \in Requests, DbError(r) PROVE IInv'
  <2>1. Settle(r, "ERROR") /\ UNCHANGED <<rec, seen, effect>> /\ pc[r] \notin {"idle", "done", "lost"}
    BY <1>2 DEF DbError, AfterDbError
  <2>2. spent' \in [{"faults", "expiries"} -> Nat]
    BY <1>2, <1>s DEF DbError, Spend
  <2>3. "ERROR" \in Refusals /\ "ERROR" \notin Requests
    BY IdempotencyConstants DEF Refusals
  <2> QED BY <2>1, <2>2, <2>3, SettleKeeps
<1>3. ASSUME NEW p \in Procs, Crash(p) PROVE IInv'
  <2>1. /\ pc' \in [Requests -> Points] /\ UNCHANGED <<rec, seen, answer, effect>>
        /\ \A s \in Requests : pc'[s] = pc[s] \/ (pc'[s] = "lost" /\ pc[s] # "done")
        /\ inFlight' \in [Procs -> [Bodies -> Requests \cup {None}]]
        /\ spent' \in [{"faults", "expiries"} -> Nat]
    BY <1>3, <1>s DEF Crash, Spend, TypeOK, Points
  <2>2. TypeOK'
    BY <2>1 DEF TypeOK, Points
  <2> QED BY <2>1, <2>2 DEF OwnerHasRow, EffectOfOwner, RowTellsEffect, PurgesExpired, AnswerEnds,
        AnswersMatchBody, Owns
<1> QED BY <1>1, <1>2, <1>3

\* While no handler outlives its record the invariant holds.
Safe == slow \/ IInv

\* Whether handlers are slow does not change, and the invariant is inductive
\* when they are not.
LEMMA SafeStep == Safe /\ [Next]_vars => Safe'
<1> SUFFICES ASSUME Safe, [Next]_vars PROVE Safe'
  OBVIOUS
<1>1. slow' = slow
  BY DEF Next, vars
<1>2. CASE slow
  BY <1>1, <1>2 DEF Safe
<1>3. CASE ~ slow /\ UNCHANGED vars
  BY <1>3 DEF Safe, vars, IInv, TypeOK, OwnerHasRow, EffectOfOwner, RowTellsEffect, PurgesExpired,
     AnswerEnds, AnswersMatchBody, Owns
<1>4. CASE ~ slow /\ Next
  BY <1>1, <1>4, LookupStep, HandlerStep, FaultStep DEF Safe, Next, Serve
<1> QED BY <1>2, <1>3, <1>4

\* The invariant holds in every reachable state.
LEMMA Invariant == Spec => []Safe
<1>1. Init => Safe
  BY InvInit DEF Safe
<1> QED BY <1>1, SafeStep, PTL DEF Spec

\* Two requests never execute a key at once, in however many processes
\* (claimIdempotency), as long as no handler outlives its record.
THEOREM OneOwnerTheorem == Spec => []OneOwner
<1>1. Safe => OneOwner
  BY DEF Safe, IInv, OwnerHasRow, OneOwner
<1> QED BY Invariant, <1>1, PTL

\* Nobody is told of an execution for another body (waitForInProgressReplay and
\* claimIdempotency compare the hash), rows of the migration aside.
THEOREM AnswersMatchBodyTheorem == Spec => []AnswersMatchBody
<1>1. Safe => AnswersMatchBody
  BY DEF Safe, IInv, AnswersMatchBody
<1> QED BY Invariant, <1>1, PTL

\* Slow handlers or not, every step keeps the types.
LEMMA TypeStep == TypeOK /\ [Next]_vars => TypeOK'
<1> SUFFICES ASSUME TypeOK, [Next]_vars PROVE TypeOK'
  OBVIOUS
<1> USE DEF Goto
<1>0. slow' = slow /\ slow \in BOOLEAN /\ spent \in [{"faults", "expiries"} -> Nat]
  BY DEF Next, vars, TypeOK
<1>a. \A r \in Requests, a \in Requests \cup {Old} \cup Refusals :
          pc[r] \notin {"idle", "done", "lost"} /\ Settle(r, a) =>
              /\ pc' \in [Requests -> Points]
              /\ inFlight' \in [Procs -> [Bodies -> Requests \cup {None}]]
              /\ answer' \in [Requests -> Requests \cup {Old, None} \cup Refusals]
  BY SettleEffect
<1>b. \A a \in {"MISMATCH", "IN_PROGRESS", "REJECTED", "ERROR"} : a \in Refusals
  BY DEF Refusals
<1>c. rec # NoRec /\ rec.st = "COMPLETED" => rec.resp \in Requests \cup {Old}
  BY DEF TypeOK, RecType
<1>1. CASE UNCHANGED vars
  BY <1>1 DEF vars, TypeOK
<1>2. ASSUME NEW r \in Requests, Arrive(r) PROVE TypeOK'
  <2>1. Home[r] \in Procs /\ Body[r] \in Bodies /\ inFlight \in [Procs -> [Bodies -> Requests \cup {None}]]
    BY IdempotencyConstants DEF TypeOK
  <2>2. inFlight' = inFlight \/ inFlight' = [inFlight EXCEPT ![Home[r]][Body[r]] = r]
    BY <1>2 DEF Arrive
  <2>3. inFlight' \in [Procs -> [Bodies -> Requests \cup {None}]]
    BY <2>1, <2>2
  <2> QED BY <1>0, <1>2, <2>3 DEF Arrive, TypeOK
<1>3. ASSUME NEW r \in Requests, Create(r) \/ Reclaim(r) PROVE TypeOK'
  BY <1>0, <1>3, ClaimIsRow DEF Create, Reclaim, TypeOK
<1>4. ASSUME NEW r \in Requests, Read(r) PROVE TypeOK'
  BY <1>0, <1>4, <1>a, <1>b, <1>c DEF Read, TypeOK, Points
<1>5. ASSUME NEW r \in Requests, Look(r) \/ WaitTimesOut(r) PROVE TypeOK'
  BY <1>0, <1>5, <1>a, <1>b, <1>c DEF Look, WaitTimesOut, TypeOK, Points
<1>6. ASSUME NEW r \in Requests, Purge(r) \/ HandlerSucceeds(r) \/ HandlerFails(r) PROVE TypeOK'
  BY <1>0, <1>6 DEF Purge, HandlerSucceeds, HandlerFails, TypeOK
<1>7. ASSUME NEW r \in Requests, Complete(r) PROVE TypeOK'
  <2>1. CASE rec = NoRec
    BY <1>0, <1>7, <1>a, <1>b, <2>1 DEF Complete, TypeOK, Points
  <2>2. CASE rec # NoRec
    <3>1. rec' = [rec EXCEPT !.st = "COMPLETED", !.resp = r] /\ rec \in RecType
      BY <1>7, <2>2 DEF Complete, TypeOK
    <3>2. rec' \in RecType /\ rec'.st = "COMPLETED" /\ rec'.resp = r
      BY <3>1 DEF RecType
    <3> QED BY <1>0, <1>7, <1>a, <2>2, <3>2, IdempotencyConstants DEF Complete, TypeOK, Points
  <2> QED BY <2>1, <2>2
<1>8. ASSUME NEW r \in Requests, Release(r) \/ Fail(r) PROVE TypeOK'
  <2>1. PICK a \in {"REJECTED", "ERROR"} : Settle(r, a) /\ pc[r] \in {"release", "fail"}
    BY <1>8 DEF Release, Fail
  <2>2. \/ rec' \in {rec, NoRec}
        \/ rec \in RecType /\ rec.st = "PROCESSING" /\ rec' = [rec EXCEPT !.st = "FAILED"]
    BY <1>8 DEF Release, Fail, InProcess, TypeOK
  <2>3. rec' \in {rec, NoRec} \/ (rec' \in RecType /\ rec'.st = "FAILED" /\ rec'.resp = None)
    BY <2>2 DEF RecType, TypeOK, NoRec
  <2> QED BY <1>0, <1>8, <1>a, <1>b, <2>1, <2>3 DEF Release, Fail, TypeOK, Points
<1>9. ASSUME NEW r \in Requests, DbError(r) PROVE TypeOK'
  BY <1>0, <1>9, <1>a, <1>b DEF DbError, AfterDbError, Spend, TypeOK, Points
<1>10. CASE Expire
  <2>1. rec \in RecType /\ rec' = [rec EXCEPT !.live = FALSE]
    BY <1>10 DEF Expire, TypeOK
  <2>2. rec' \in RecType /\ rec'.st = rec.st /\ rec'.resp = rec.resp
    BY <2>1 DEF RecType
  <2> QED BY <1>0, <1>10, <2>1, <2>2 DEF Expire, Spend, TypeOK
<1>11. ASSUME NEW p \in Procs, Crash(p) PROVE TypeOK'
  BY <1>0, <1>11 DEF Crash, Spend, TypeOK
<1> QED BY <1>1, <1>2, <1>3, <1>4, <1>5, <1>6, <1>7, <1>8, <1>9, <1>10, <1>11 DEF Next, Serve

\* Rows, requests and the map keep their shape, and a row is completed exactly
\* when it has an answer.
THEOREM TypeTheorem == Spec => []TypeOK
<1>1. Init => TypeOK
  BY InvInit DEF IInv
<1> QED BY <1>1, TypeStep, PTL DEF Spec

\* Telling of the execution the row remembers is a step of the abstract key.
LEMMA TellRefines ==
  ASSUME IInv, ~ slow, slow' = slow, NEW r \in Requests, pc[r] \notin {"idle", "done", "lost"}, effect # None,
         Settle(r, effect), UNCHANGED effect
  PROVE  Key!Tell
<1>1. effect \in Requests \cup {Old}
  BY DEF IInv, TypeOK
<1>2. \A s \in Requests : \/ answer'[s] = answer[s]
                          \/ answer[s] = None /\ answer'[s] = effect
  <2>1. \A s \in Requests : \/ answer'[s] = answer[s]
                            \/ answer'[s] = effect /\ (s = r \/ pc[s] = "joined")
    BY <1>1, SettleEffect DEF IInv
  <2> QED BY <2>1 DEF IInv, AnswerEnds
<1> QED BY <1>1, <1>2, IdempotencyConstants DEF Key!Tell, Told, Counted

\* A refusal tells nobody of an execution.
LEMMA RefuseRefines ==
  ASSUME IInv, ~ slow, slow' = slow, NEW r \in Requests, pc[r] \notin {"idle", "done", "lost"},
         NEW a \in Refusals, Settle(r, a)
  PROVE  Told' = Told
<1>1. \A s \in Requests : \/ answer'[s] = answer[s]
                          \/ answer[s] = None /\ answer'[s] = a
  <2>1. \A s \in Requests : \/ answer'[s] = answer[s]
                            \/ answer'[s] = a /\ (s = r \/ pc[s] = "joined")
    BY SettleEffect DEF IInv
  <2> QED BY <2>1 DEF IInv, AnswerEnds
<1> QED BY <1>1, IdempotencyConstants DEF Told

\* Every step of a request maps to a step of the key, or to none.
LEMMA ServeRefines ==
  ASSUME IInv, ~ slow, slow' = slow, NEW r \in Requests, Arrive(r) \/ Serve(r)
  PROVE  Key!Next \/ UNCHANGED <<Counted, Told>>
<1> USE DEF Goto, Counted
<1>a. "MISMATCH" \in Refusals /\ "IN_PROGRESS" \in Refusals /\ "REJECTED" \in Refusals /\ "ERROR" \in Refusals
  BY DEF Refusals
<1>1. CASE Arrive(r) \/ Create(r) \/ Reclaim(r) \/ HandlerFails(r)
  BY <1>1 DEF Arrive, Create, Reclaim, HandlerFails, Told
<1>2. CASE Read(r)
  <2>1. CASE rec # NoRec /\ rec.st = "COMPLETED" /\ Settle(r, rec.resp) /\ rec.live
    <3>1. effect = rec.resp /\ effect # None
      BY <2>1 DEF IInv, RowTellsEffect, TypeOK
    <3> QED BY <1>2, <2>1, <3>1, TellRefines DEF Read, Key!Next
  <2>2. CASE Settle(r, "MISMATCH")
    BY <1>2, <1>a, <2>2, RefuseRefines DEF Read
  <2>3. CASE UNCHANGED answer
    BY <1>2, <2>3 DEF Read, Told
  <2> QED BY <1>2, <2>1, <2>2, <2>3 DEF Read
<1>3. CASE Purge(r)
  BY <1>3 DEF Purge, Key!Next, Key!Forget, Told
<1>4. CASE Look(r)
  <2>1. CASE rec # NoRec /\ rec.st = "COMPLETED" /\ Settle(r, rec.resp)
    <3>1. effect = rec.resp /\ effect # None
      BY <2>1 DEF IInv, RowTellsEffect, TypeOK
    <3> QED BY <1>4, <2>1, <3>1, TellRefines DEF Look, Key!Next
  <2>2. CASE Settle(r, "MISMATCH") \/ Settle(r, "IN_PROGRESS")
    BY <1>4, <1>a, <2>2, RefuseRefines DEF Look
  <2> QED BY <1>4, <2>1, <2>2 DEF Look
<1>5. CASE WaitTimesOut(r) \/ Release(r) \/ Fail(r)
  BY <1>5, <1>a, RefuseRefines DEF WaitTimesOut, Release, Fail
<1>6. CASE HandlerSucceeds(r)
  BY <1>6 DEF HandlerSucceeds, IInv, EffectOfOwner, Key!Next, Key!Execute, Told
<1>7. CASE Complete(r)
  <2>1. rec # NoRec /\ effect = r /\ pc[r] = "complete"
    BY <1>7 DEF Complete, IInv, OwnerHasRow, EffectOfOwner, Owns
  <2> QED BY <1>7, <2>1, TellRefines, IdempotencyConstants DEF Complete, Key!Next
<1> QED BY <1>1, <1>2, <1>3, <1>4, <1>5, <1>6, <1>7 DEF Serve

\* A key keeps its promise: while its record stands no second execution of it
\* counts, and every replay tells of the one that did (claim, complete, replay).
THEOREM OncePerKeyTheorem == Spec => OncePerKeySpec
<1>1. Init => Key!Init
  BY IdempotencyConstants DEF Init, Key!Init, Told, Counted, NoRec, Backfill
<1>2. Safe /\ [Next]_vars => [Key!Next]_<<Counted, Told>>
  <2> SUFFICES ASSUME Safe, [Next]_vars PROVE Key!Next \/ UNCHANGED <<Counted, Told>>
    OBVIOUS
  <2>0. slow' = slow
    BY DEF Next, vars
  <2>1. CASE slow
    BY <2>0, <2>1 DEF Told, Counted
  <2>2. CASE UNCHANGED vars
    BY <2>2 DEF vars, Told, Counted
  <2>3. CASE ~ slow /\ Next
    <3>1. ASSUME NEW r \in Requests, DbError(r) PROVE UNCHANGED <<Counted, Told>>
      BY <2>0, <2>3, <3>1, RefuseRefines DEF DbError, Refusals, Safe, Counted
    <3>2. CASE Expire \/ \E p \in Procs : Crash(p)
      BY <2>0, <3>2 DEF Expire, Crash, Told, Counted
    <3> QED BY <2>0, <2>3, <3>1, <3>2, ServeRefines DEF Next, Safe
  <2> QED BY <2>1, <2>2, <2>3
<1> QED BY Invariant, <1>1, <1>2, PTL DEF Spec, OncePerKeySpec, Key!Spec
=============================================================================
