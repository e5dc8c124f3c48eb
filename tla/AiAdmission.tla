---------------------------- MODULE AiAdmission ----------------------------
(***************************************************************************)
(* Admission of requests to the local GPU models in one process of Core,   *)
(* with the three routes that pass through it (chat, completion, the help  *)
(* assistant) and the Stop button of chat.  One step is one callback of    *)
(* the event loop: what runs between two awaits, with the microtasks it    *)
(* settles.                                                                *)
(***************************************************************************)
EXTENDS Naturals, Sequences, FiniteSets

CONSTANTS
    Requests,       \* requests for a local model, each sent once
    Chats,          \* turns of /api/chat: a Stop handle and a cloud fallback
    Assistants,     \* answers of the help assistant: no abort signal
    Max,            \* AI_MAX_INFLIGHT (0 would switch the gate off)
    HoldLimit       \* whether AI_ADMISSION_MAX_HOLD_MS is positive

ASSUME AdmissionConstants ==
    /\ Chats \subseteq Requests /\ Assistants \subseteq Requests \ Chats
    /\ IsFiniteSet(Requests)
    /\ Max \in Nat \ {0} /\ HoldLimit \in BOOLEAN

VARIABLES
    inflight,       \* the counter of the gate
    waiters,        \* its queue
    pc,             \* where each request is
    slot,           \* its release function: "none", "held", or "gone" (released)
    aborted,        \* its abort signal
    active,         \* activeChatCancellations
    pending         \* pendingChatCancellations

vars == <<inflight, waiters, pc, slot, aborted, active, pending>>

Init ==
    /\ inflight = 0 /\ waiters = <<>>
    /\ pc = [r \in Requests |-> "idle"] /\ slot = [r \in Requests |-> "none"]
    /\ aborted = [r \in Requests |-> FALSE]
    /\ active = {} /\ pending = {}

-----------------------------------------------------------------------------
(* The gate.                                                               *)

\* The queue without its i-th waiter (splice).
Spliced(i) ==
    [k \in 1 .. Len(waiters) - 1 |-> IF k < i THEN waiters[k] ELSE waiters[k + 1]]
LeaveQueue(r) == \E i \in 1 .. Len(waiters) : waiters[i] = r /\ waiters' = Spliced(i)

Freed == IF inflight > 0 THEN inflight - 1 ELSE 0

\* Mutant: the slot goes to the last who came.
MutReleaseLifo(r, next) ==
    /\ slot[r] = "held"
    /\ \/ /\ waiters = <<>> /\ inflight' = Freed /\ UNCHANGED waiters
          /\ slot' = [slot EXCEPT ![r] = "gone"] /\ pc' = [pc EXCEPT ![r] = next]
       \/ /\ waiters # <<>> /\ inflight' = Freed + 1
          /\ waiters' = SubSeq(waiters, 1, Len(waiters) - 1)
          /\ slot' = [slot EXCEPT ![r] = "gone", ![waiters[Len(waiters)]] = "held"]
          /\ pc' = [pc EXCEPT ![r] = next, ![waiters[Len(waiters)]] = "call"]
\* releaseSlot, with the hand-over to the first waiter; r goes on to next.
ReleaseSlot(r, next) ==
    /\ slot[r] = "held"
    /\ \/ /\ waiters = <<>> /\ inflight' = Freed /\ UNCHANGED waiters
          /\ slot' = [slot EXCEPT ![r] = "gone"] /\ pc' = [pc EXCEPT ![r] = next]
       \/ /\ waiters # <<>> /\ inflight' = Freed + 1
          /\ waiters' = Tail(waiters)
          /\ slot' = [slot EXCEPT ![r] = "gone", ![Head(waiters)] = "held"]
          /\ pc' = [pc EXCEPT ![r] = next, ![Head(waiters)] = "call"]

\* Mutant: a second release frees a second slot.
MutRelease(r, next) ==
    \/ ReleaseSlot(r, next)
    \/ /\ slot[r] = "gone" /\ inflight' = Freed
       /\ pc' = [pc EXCEPT ![r] = next] /\ UNCHANGED <<waiters, slot>>
    \/ slot[r] = "none" /\ pc' = [pc EXCEPT ![r] = next] /\ UNCHANGED <<inflight, waiters, slot>>
\* The release function of holdSlot: the first call frees, another does nothing.
Release(r, next) ==
    \/ ReleaseSlot(r, next)
    \/ slot[r] # "held" /\ pc' = [pc EXCEPT ![r] = next] /\ UNCHANGED <<inflight, waiters, slot>>

\* acquireAiAdmission, of a request that is not aborted
Acquire(r) ==
    \/ /\ inflight < Max /\ inflight' = inflight + 1 /\ UNCHANGED waiters
       /\ slot' = [slot EXCEPT ![r] = "held"] /\ pc' = [pc EXCEPT ![r] = "call"]
    \/ /\ inflight >= Max /\ waiters' = Append(waiters, r) /\ UNCHANGED <<inflight, slot>>
       /\ pc' = [pc EXCEPT ![r] = "queued"]

\* Mutant: routes without a Stop button register a handle too.
MutHandle(r) == {r}
Handle(r) == {r} \cap Chats
\* registerActiveChatCancellation takes a Stop that came first; then the request
\* asks for its slot, and only one aborted before is refused at once.
Arrive(r) ==
    LET gone == aborted[r] \/ r \in pending IN
    /\ pc[r] = "idle"
    /\ pending' = pending \ {r} /\ aborted' = [aborted EXCEPT ![r] = gone]
    /\ \/ /\ gone /\ pc' = [pc EXCEPT ![r] = "done"]
          /\ UNCHANGED <<inflight, waiters, slot, active>>
       \/ ~ gone /\ Acquire(r) /\ active' = active \cup Handle(r)

\* Mutant: the wait timer leaves its waiter in the queue.
MutWaitTimesOut(r) ==
    /\ pc[r] = "queued"
    /\ pc' = [pc EXCEPT ![r] = IF r \in Chats THEN "turnedAway" ELSE "done"]
    /\ UNCHANGED <<inflight, waiters, slot, aborted, active, pending>>
\* The wait timer of a waiter.
WaitTimesOut(r) ==
    /\ pc[r] = "queued" /\ LeaveQueue(r)
    /\ pc' = [pc EXCEPT ![r] = IF r \in Chats THEN "turnedAway" ELSE "done"]
    /\ UNCHANGED <<inflight, slot, aborted, active, pending>>

\* Mutant: a response body is trusted to release its own slot.
MutHeldTooLong(r) == slot[r] = "held" /\ pc[r] \in {"call", "done"}
HeldTooLong(r) == slot[r] = "held"
\* The hold timer: the slot is taken back, the request runs on.
Reclaim(r) ==
    /\ HoldLimit /\ HeldTooLong(r) /\ ReleaseSlot(r, pc[r])
    /\ UNCHANGED <<aborted, active, pending>>

-----------------------------------------------------------------------------
(* What a request does with its slot.                                      *)

\* Chat: the Bedrock fallback takes a turn that was turned away, or a 503.
Overflow(r) ==
    /\ pc[r] = "turnedAway" /\ pc' = [pc EXCEPT ![r] = "call"]
    /\ UNCHANGED <<inflight, waiters, slot, aborted, active, pending>>
NoOverflow(r) ==
    /\ pc[r] = "turnedAway" /\ pc' = [pc EXCEPT ![r] = "done"]
    /\ active' = active \ {r}
    /\ UNCHANGED <<inflight, waiters, slot, aborted, pending>>
\* Reading the fallback's settings throws: no handler drops the Stop handle.
OverflowThrows(r) ==
    /\ pc[r] = "turnedAway" /\ pc' = [pc EXCEPT ![r] = "done"]
    /\ UNCHANGED <<inflight, waiters, slot, aborted, active, pending>>

\* Mutant: the release before the fallback drops the Stop handle as well.
MutKeepCancellation(r) == active \ {r}
\* releaseAdmission(true)
KeepCancellation(r) == active
\* Chat: no host is left, the slot is released and the turn goes on in the cloud.
FleetOverflow(r) ==
    /\ r \in Chats /\ pc[r] = "call" /\ slot[r] = "held" /\ Release(r, "call")
    /\ active' = KeepCancellation(r)
    /\ UNCHANGED <<aborted, pending>>

\* The call ends without a body to stream: an answer, an error or an abort.
CallEnds(r) ==
    /\ pc[r] = "call" /\ Release(r, "done") /\ active' = active \ {r}
    /\ UNCHANGED <<aborted, pending>>

\* withAdmissionRelease takes the slot over.
Respond(r) ==
    /\ pc[r] = "call" /\ r \notin Assistants /\ pc' = [pc EXCEPT ![r] = "stream"]
    /\ UNCHANGED <<inflight, waiters, slot, aborted, active, pending>>

\* The body ends, or the abort cancels it: the provider's stream is cancelled ...
StreamEnds(r) ==
    /\ pc[r] = "stream" /\ pc' = [pc EXCEPT ![r] = "cancelling"]
    /\ UNCHANGED <<inflight, waiters, slot, aborted, active, pending>>

\* Mutant: the slot of a stream is released by a variable already cleared.
MutCancelled(r) ==
    /\ pc[r] = "cancelling" /\ pc' = [pc EXCEPT ![r] = "done"] /\ active' = active \ {r}
    /\ UNCHANGED <<inflight, waiters, slot, aborted, pending>>
\* ... and the slot is released when the provider has answered that.
Cancelled(r) ==
    /\ pc[r] = "cancelling" /\ Release(r, "done") /\ active' = active \ {r}
    /\ UNCHANGED <<aborted, pending>>

-----------------------------------------------------------------------------
(* Aborts.                                                                 *)

\* Mutant: the abort of a waiter does not take it out of the queue.
MutAbort(r) ==
    /\ aborted' = [aborted EXCEPT ![r] = TRUE]
    /\ UNCHANGED <<inflight, slot, pc, waiters>>
\* The signal fires: a waiter leaves the queue, others find out by themselves.
Abort(r) ==
    /\ aborted' = [aborted EXCEPT ![r] = TRUE]
    /\ \/ pc[r] = "queued" /\ LeaveQueue(r) /\ pc' = [pc EXCEPT ![r] = "done"]
       \/ pc[r] # "queued" /\ UNCHANGED <<waiters, pc>>
    /\ UNCHANGED <<inflight, slot>>

\* The client hangs up, or the deadline of a completion passes.
Disconnect(r) ==
    /\ pc[r] # "done" /\ ~ aborted[r] /\ r \notin Assistants /\ Abort(r)
    /\ active' = IF pc[r] = "queued" THEN active \ {r} ELSE active
    /\ UNCHANGED pending

\* POST /api/chat/cancel
Stop(r) ==
    /\ r \in Chats
    /\ \/ r \in active /\ active' = active \ {r} /\ Abort(r) /\ UNCHANGED pending
       \/ /\ r \notin active \cup pending /\ pending' = pending \cup {r}
          /\ UNCHANGED <<inflight, waiters, pc, slot, aborted, active>>

\* A Stop that found no turn is forgotten, by age or to make room.
ForgetStop(r) ==
    /\ r \in pending /\ pending' = pending \ {r}
    /\ UNCHANGED <<inflight, waiters, pc, slot, aborted, active>>

-----------------------------------------------------------------------------
Turn(r) ==
    \/ Overflow(r) \/ NoOverflow(r) \/ OverflowThrows(r) \/ FleetOverflow(r)
    \/ CallEnds(r) \/ Respond(r) \/ StreamEnds(r) \/ Cancelled(r)

Next ==
    \/ \E r \in Requests : Arrive(r) \/ WaitTimesOut(r) \/ Reclaim(r) \/ Turn(r)
                           \/ Disconnect(r)
    \/ \E r \in Chats : Stop(r) \/ ForgetStop(r)

Spec == Init /\ [][Next]_vars

\* Timers fire.  Nothing else is sure to happen: a provider may hang, and so may
\* the cancellation of its stream.
Fairness == \A r \in Requests : WF_vars(WaitTimesOut(r)) /\ WF_vars(Reclaim(r))

LiveSpec == Spec /\ Fairness

-----------------------------------------------------------------------------
(* Properties.                                                             *)

Holders == {r \in Requests : slot[r] = "held"}
Queued == {r \in Requests : pc[r] = "queued"}

\* Every variable has its type.
TypeOK ==
    /\ inflight \in Nat /\ waiters \in Seq(Requests)
    /\ pc \in [Requests -> {"idle", "queued", "turnedAway", "call", "stream",
                            "cancelling", "done"}]
    /\ slot \in [Requests -> {"none", "held", "gone"}]
    /\ aborted \in [Requests -> BOOLEAN]
    /\ active \subseteq Chats /\ pending \subseteq Chats

\* The counter counts the slots held, however often each is released, and
\* nobody waits while one is free.
SlotsCounted ==
    /\ inflight = Cardinality(Holders) /\ inflight <= Max
    /\ waiters # <<>> => inflight = Max

\* A request that is over holds no slot, on whatever path it ended.
DoneHoldsNothing == \A r \in Requests : pc[r] = "done" => slot[r] # "held"

\* The gate is first come, first served: a slot goes to the first waiter, or to
\* a newcomer while nobody waits.
FirstComeFirstServed ==
    [][\A r \in Requests : slot[r] = "none" /\ slot'[r] = "held" =>
          waiters = <<>> \/ r = Head(waiters)]_vars

\* A client that is gone is given no slot.
NoSlotForTheGone ==
    [][\A r \in Requests : slot[r] = "none" /\ slot'[r] = "held" => ~ aborted[r]]_vars

\* While a chat turn lives, Stop finds it: none is put aside as a Stop of no turn
\* unless the turn is being aborted already.
StopFindsLiveTurn ==
    \A r \in Chats : r \in pending /\ pc[r] \notin {"idle", "done"} => aborted[r]

Gate == INSTANCE SlotGate WITH holding <- Holders, waiting <- Queued

\* What callers are promised: the gate with its queue, timers, aborts and
\* reclaimed slots implements SlotGate.
GateSpec == Gate!Spec

\* Every waiter is answered and every slot comes back, even if all providers
\* hang.
GateLives == Gate!NoOneStays
=============================================================================
