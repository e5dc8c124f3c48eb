------------------------- MODULE AiAdmissionProofs -------------------------
(***************************************************************************)
(* The gate counts its slots, serves in order and implements SlotGate, for *)
(* any requests, any number of slots and whatever hangs: the counter and   *)
(* the queue agree with what each request holds and waits for.             *)
(***************************************************************************)
EXTENDS AiAdmission, FiniteSetTheorems, TLAPS

\* The queue lists the waiting requests, each once.
QueueOK ==
    /\ \A i \in 1 .. Len(waiters) : pc[waiters[i]] = "queued"
    /\ \A i, k \in 1 .. Len(waiters) : waiters[i] = waiters[k] => i = k
    /\ \A r \in Requests : pc[r] = "queued" => \E i \in 1 .. Len(waiters) : waiters[i] = r

\* A request gets its slot when it stops waiting, and has none when it is over.
PhaseOK ==
    \A r \in Requests : /\ pc[r] \in {"idle", "queued", "turnedAway"} => slot[r] = "none"
                        /\ pc[r] = "done" => slot[r] # "held"

\* A live turn can be stopped or is stopped; who waits is not aborted.
StopOK ==
    \A r \in Requests :
        /\ pc[r] = "queued" => ~ aborted[r]
        /\ r \in Chats /\ pc[r] \notin {"idle", "done"} => r \in active \/ aborted[r]
        /\ r \in pending /\ pc[r] \notin {"idle", "done"} => aborted[r]

Inv == TypeOK /\ SlotsCounted /\ QueueOK /\ PhaseOK /\ StopOK

\* The part of it that is about the gate.
GateType ==
    /\ inflight \in Nat /\ waiters \in Seq(Requests)
    /\ pc \in [Requests -> {"idle", "queued", "turnedAway", "call", "stream",
                            "cancelling", "done"}]
    /\ slot \in [Requests -> {"none", "held", "gone"}]
GateOK == GateType /\ SlotsCounted /\ QueueOK /\ PhaseOK

\* What both action properties say of one step.
Served ==
    \A r \in Requests : slot[r] = "none" /\ slot'[r] = "held" =>
        (waiters = <<>> \/ r = Head(waiters)) /\ ~ aborted[r]

\* Where a request that has had its turn at the gate is.
Past == {"turnedAway", "call", "stream", "cancelling", "done"}

-----------------------------------------------------------------------------
(* Queues and counts.                                                      *)

\* The queue without its first waiter (waiters.shift).
LEMMA TailFacts ==
    ASSUME NEW S, NEW q \in Seq(S), q # <<>>
    PROVE  /\ Len(q) \in Nat \ {0} /\ Head(q) = q[1] /\ q[1] \in S
           /\ Tail(q) \in Seq(S) /\ Len(Tail(q)) = Len(q) - 1
           /\ \A i \in 1 .. Len(q) - 1 : Tail(q)[i] = q[i + 1]
OBVIOUS

\* The queue with a newcomer at its end (waiters.push).
LEMMA AppendFacts ==
    ASSUME NEW S, NEW q \in Seq(S), NEW x \in S
    PROVE  /\ Append(q, x) \in Seq(S) /\ Len(Append(q, x)) = Len(q) + 1 /\ Len(q) \in Nat
           /\ \A i \in 1 .. Len(q) : Append(q, x)[i] = q[i]
           /\ Append(q, x)[Len(q) + 1] = x /\ Append(q, x) # <<>>
OBVIOUS

\* The queue without one waiter, wherever it stands (waiters.splice).
LEMMA SplicedFacts ==
    ASSUME TypeOK, NEW i \in 1 .. Len(waiters)
    PROVE  /\ Len(waiters) \in Nat /\ Spliced(i) \in Seq(Requests)
           /\ Len(Spliced(i)) = Len(waiters) - 1
           /\ \A k \in 1 .. Len(waiters) - 1 :
                 Spliced(i)[k] = IF k < i THEN waiters[k] ELSE waiters[k + 1]
<1>1. waiters \in Seq(Requests) /\ Len(waiters) \in Nat
  BY DEF TypeOK
<1>2. \A k \in 1 .. Len(waiters) : waiters[k] \in Requests
  BY <1>1
<1>3. Len(waiters) - 1 \in Nat
  BY <1>1
<1>4. Spliced(i) \in [1 .. Len(waiters) - 1 -> Requests]
  BY <1>1, <1>2 DEF Spliced
<1>5. Spliced(i) \in Seq(Requests) /\ Len(Spliced(i)) = Len(waiters) - 1
  BY <1>3, <1>4
<1> QED
  BY <1>1, <1>5 DEF Spliced

\* The holders are finitely many, so they can be counted.
LEMMA HoldersFinite ==
    ASSUME AdmissionConstants, NEW h \in [Requests -> {"none", "held", "gone"}]
    PROVE  /\ IsFiniteSet({r \in Requests : h[r] = "held"})
           /\ Cardinality({r \in Requests : h[r] = "held"}) \in Nat
BY FS_Subset, FS_CardinalityType DEF AdmissionConstants

\* The abstract gate counts as this module does.
LEMMA SameCount ==
    Gate!Cardinality(Holders) = Cardinality(Holders)
BY DEF Gate!Cardinality, Cardinality

-----------------------------------------------------------------------------
(* The four things a step can do to the gate.                              *)

\* Nobody comes, waits, leaves: one request goes on after its turn.
LEMMA GoesOn ==
    ASSUME Inv, NEW r \in Requests, NEW p \in Past, pc[r] \in Past,
           pc' = [pc EXCEPT ![r] = p], UNCHANGED <<inflight, waiters, slot>>,
           slot[r] # "none" => p # "turnedAway", slot[r] = "held" => p # "done"
    PROVE  GateOK' /\ Served /\ UNCHANGED <<Holders, Queued>>
<1>1. SlotsCounted' /\ UNCHANGED Holders
  BY DEF Inv, SlotsCounted, Holders
<1>2. \A s \in Requests : pc'[s] = "queued" <=> pc[s] = "queued"
  BY DEF Inv, TypeOK, Past
<1>3. \A i \in 1 .. Len(waiters) : waiters[i] \in Requests
  BY DEF Inv, TypeOK
<1>4. QueueOK'
  BY <1>2, <1>3 DEF Inv, QueueOK
<1>5. PhaseOK'
  BY DEF Inv, TypeOK, PhaseOK, Past
<1>6. GateType' /\ Served
  BY DEF Inv, TypeOK, GateType, Past, Served
<1> QED
  BY <1>1, <1>2, <1>4, <1>5, <1>6 DEF GateOK, Queued

\* A newcomer finds a free slot.
LEMMA Admits ==
    ASSUME AdmissionConstants, Inv, NEW r \in Requests, pc[r] = "idle", inflight < Max,
           inflight' = inflight + 1, UNCHANGED waiters,
           slot' = [slot EXCEPT ![r] = "held"], pc' = [pc EXCEPT ![r] = "call"]
    PROVE  GateOK' /\ waiters = <<>> /\ Gate!Admit(r)
<1>1. waiters = <<>> /\ slot[r] = "none" /\ r \notin Holders /\ r \notin Queued
  BY AdmissionConstants DEF Inv, SlotsCounted, PhaseOK, Holders, Queued, AdmissionConstants
<1>2. Holders' = Holders \cup {r}
  BY DEF Holders, Inv, TypeOK
<1>3. Cardinality(Holders') = Cardinality(Holders) + 1
  BY <1>1, <1>2, HoldersFinite, FS_AddElement DEF Inv, TypeOK, Holders
<1>4. inflight = Cardinality(Holders) /\ inflight \in Nat /\ Max \in Nat
  BY AdmissionConstants DEF Inv, TypeOK, SlotsCounted, AdmissionConstants
<1>5. SlotsCounted'
  BY <1>1, <1>3, <1>4 DEF SlotsCounted
<1>6. \A s \in Requests : pc'[s] = "queued" <=> pc[s] = "queued"
  BY DEF Inv, TypeOK
<1>7. Queued = {} /\ Queued' = {}
  BY <1>1, <1>6 DEF Inv, QueueOK, Queued
<1>8. QueueOK'
  BY <1>1, <1>6 DEF Inv, QueueOK
<1>9. PhaseOK'
  BY DEF Inv, TypeOK, PhaseOK
<1>10. GateType'
  BY <1>4 DEF Inv, TypeOK, GateType
<1>11. Gate!Admit(r)
  BY <1>1, <1>2, <1>4, <1>7, SameCount DEF Gate!Admit
<1> QED
  BY <1>1, <1>5, <1>8, <1>9, <1>10, <1>11 DEF GateOK

\* A newcomer finds none.
LEMMA Waits ==
    ASSUME AdmissionConstants, Inv, NEW r \in Requests, pc[r] = "idle", inflight >= Max,
           waiters' = Append(waiters, r), UNCHANGED <<inflight, slot>>,
           pc' = [pc EXCEPT ![r] = "queued"]
    PROVE  GateOK' /\ Gate!Wait(r)
<1>1. /\ waiters' \in Seq(Requests) /\ Len(waiters') = Len(waiters) + 1 /\ Len(waiters) \in Nat
      /\ \A i \in 1 .. Len(waiters) : waiters'[i] = waiters[i] /\ waiters[i] \in Requests
      /\ waiters'[Len(waiters) + 1] = r
  BY AppendFacts DEF Inv, TypeOK
<1>2. /\ inflight = Max /\ Cardinality(Holders) = Max /\ Holders' = Holders
  BY AdmissionConstants DEF Inv, TypeOK, SlotsCounted, Holders, AdmissionConstants
<1>3. SlotsCounted'
  BY <1>2, AdmissionConstants DEF Inv, SlotsCounted, AdmissionConstants
<1>4. r \notin Holders /\ r \notin Queued /\ Queued' = Queued \cup {r}
  BY DEF Inv, TypeOK, PhaseOK, Holders, Queued
<1>5. \A i \in 1 .. Len(waiters') : i \in 1 .. Len(waiters) \/ i = Len(waiters) + 1
  BY <1>1
<1>6. \A i \in 1 .. Len(waiters) : waiters[i] # r
  BY DEF Inv, QueueOK
<1>7. QueueOK'
  <2>1. \A i \in 1 .. Len(waiters') : pc'[waiters'[i]] = "queued"
    BY <1>1, <1>5 DEF Inv, TypeOK, QueueOK
  <2>2. \A i, k \in 1 .. Len(waiters') : waiters'[i] = waiters'[k] => i = k
    BY <1>1, <1>5, <1>6 DEF Inv, QueueOK
  <2>3. \A s \in Requests : pc'[s] = "queued" => \E i \in 1 .. Len(waiters') : waiters'[i] = s
    <3> SUFFICES ASSUME NEW s \in Requests, pc'[s] = "queued"
                 PROVE  \E i \in 1 .. Len(waiters') : waiters'[i] = s
      OBVIOUS
    <3>1. CASE s = r
      BY <1>1, <3>1
    <3>2. CASE s # r
      <4>1. PICK i \in 1 .. Len(waiters) : waiters[i] = s
        BY <3>2 DEF Inv, TypeOK, QueueOK
      <4> QED
        BY <1>1, <4>1
    <3> QED
      BY <3>1, <3>2
  <2> QED
    BY <2>1, <2>2, <2>3 DEF QueueOK
<1>8. PhaseOK'
  BY DEF Inv, TypeOK, PhaseOK
<1>9. GateType'
  BY <1>1 DEF Inv, TypeOK, GateType
<1>10. Gate!Wait(r)
  BY <1>2, <1>4, SameCount DEF Gate!Wait
<1> QED
  BY <1>3, <1>7, <1>8, <1>9, <1>10 DEF GateOK

\* A waiter leaves the queue without a slot.
LEMMA GivesUp ==
    ASSUME AdmissionConstants, Inv, NEW r \in Requests, pc[r] = "queued", LeaveQueue(r),
           UNCHANGED <<inflight, slot>>, NEW p \in {"turnedAway", "done"},
           pc' = [pc EXCEPT ![r] = p]
    PROVE  GateOK' /\ Served /\ Gate!GiveUp(r)
<1>1. PICK i \in 1 .. Len(waiters) : waiters[i] = r /\ waiters' = Spliced(i)
  BY DEF LeaveQueue
<1>2. /\ Len(waiters) \in Nat /\ waiters' \in Seq(Requests) /\ Len(waiters') = Len(waiters) - 1
      /\ \A k \in 1 .. Len(waiters) - 1 :
            waiters'[k] = IF k < i THEN waiters[k] ELSE waiters[k + 1]
  BY <1>1, SplicedFacts DEF Inv
<1>3. waiters # <<>>
  BY <1>1
<1>4. SlotsCounted' /\ Holders' = Holders
  BY <1>3 DEF Inv, SlotsCounted, Holders
<1>5. Queued' = Queued \ {r} /\ r \in Queued
  BY DEF Inv, TypeOK, Queued
<1>6. \A k \in 1 .. Len(waiters') :
          \E m \in 1 .. Len(waiters) : /\ waiters'[k] = waiters[m] /\ m # i
                                       /\ m = IF k < i THEN k ELSE k + 1
  BY <1>1, <1>2
<1>7. \A k \in 1 .. Len(waiters') : waiters'[k] \in Requests /\ pc'[waiters'[k]] = "queued"
  <2> TAKE k \in 1 .. Len(waiters')
  <2>1. PICK m \in 1 .. Len(waiters) : waiters'[k] = waiters[m] /\ m # i
    BY <1>6
  <2>2. waiters[m] # r /\ waiters[m] \in Requests /\ pc[waiters[m]] = "queued"
    BY <1>1, <2>1 DEF Inv, TypeOK, QueueOK
  <2> QED
    BY <2>1, <2>2 DEF Inv, TypeOK
<1>8. \A k, l \in 1 .. Len(waiters') : waiters'[k] = waiters'[l] => k = l
  <2> SUFFICES ASSUME NEW k \in 1 .. Len(waiters'), NEW l \in 1 .. Len(waiters'),
                      waiters'[k] = waiters'[l]
               PROVE  k = l
    OBVIOUS
  <2>1. PICK m \in 1 .. Len(waiters) : waiters'[k] = waiters[m] /\ m = IF k < i THEN k ELSE k + 1
    BY <1>6
  <2>2. PICK n \in 1 .. Len(waiters) : waiters'[l] = waiters[n] /\ n = IF l < i THEN l ELSE l + 1
    BY <1>6
  <2>3. waiters[m] = waiters[n]
    BY <2>1, <2>2
  <2>4. m = n
    BY <2>3 DEF Inv, QueueOK
  <2> QED
    BY <1>1, <1>2, <2>1, <2>2, <2>4
<1>9. \A s \in Requests : pc'[s] = "queued" => \E k \in 1 .. Len(waiters') : waiters'[k] = s
  <2> SUFFICES ASSUME NEW s \in Requests, pc'[s] = "queued"
               PROVE  \E k \in 1 .. Len(waiters') : waiters'[k] = s
    OBVIOUS
  <2>1. s # r /\ pc[s] = "queued"
    BY DEF Inv, TypeOK
  <2>2. PICK m \in 1 .. Len(waiters) : waiters[m] = s
    BY <2>1 DEF Inv, QueueOK
  <2>3. m # i
    BY <1>1, <2>1, <2>2
  <2>4. CASE m < i
    BY <1>1, <1>2, <2>2, <2>4
  <2>5. CASE m > i
    <3>1. m - 1 \in 1 .. Len(waiters') /\ ~ (m - 1 < i)
      BY <1>1, <1>2, <2>5
    <3>2. waiters'[m - 1] = waiters[m]
      BY <1>1, <1>2, <3>1
    <3> QED
      BY <2>2, <3>1, <3>2
  <2> QED
    BY <1>1, <2>3, <2>4, <2>5
<1>10. QueueOK'
  BY <1>7, <1>8, <1>9 DEF QueueOK
<1>11. PhaseOK'
  BY DEF Inv, TypeOK, PhaseOK
<1>12. GateType' /\ Served
  BY <1>2 DEF Inv, TypeOK, GateType, Served
<1>13. Gate!GiveUp(r)
  BY <1>4, <1>5 DEF Gate!GiveUp
<1> QED
  BY <1>4, <1>10, <1>11, <1>12, <1>13 DEF GateOK

\* A slot comes back, and goes to the first waiter if there is one.
LEMMA HandsOver ==
    ASSUME AdmissionConstants, Inv, NEW r \in Requests,
           NEW p \in {"call", "stream", "cancelling", "done"}, ReleaseSlot(r, p)
    PROVE  /\ GateOK' /\ Served /\ Gate!Leave(r) /\ pc[r] \in Past /\ pc'[r] = p
           /\ \A s \in Requests \ {r} : pc'[s] = pc[s] \/ (pc[s] = "queued" /\ pc'[s] = "call")
<1>1. slot[r] = "held" /\ r \in Holders /\ pc[r] \in Past /\ pc[r] # "queued"
  BY DEF ReleaseSlot, Inv, TypeOK, PhaseOK, Past, Holders
<1>2. /\ IsFiniteSet(Holders) /\ Cardinality(Holders) \in Nat
      /\ inflight = Cardinality(Holders) /\ inflight <= Max /\ Max \in Nat
  BY HoldersFinite DEF Inv, TypeOK, SlotsCounted, Holders, AdmissionConstants
<1>3. /\ Cardinality(Holders \ {r}) = Cardinality(Holders) - 1
      /\ IsFiniteSet(Holders \ {r}) /\ Cardinality(Holders \ {r}) \in Nat
  BY <1>1, <1>2, FS_RemoveElement, FS_CardinalityType
<1>4. Freed = inflight - 1 /\ inflight > 0
  BY <1>2, <1>3 DEF Freed
<1>5. CASE waiters = <<>>
  <2>1. /\ inflight' = inflight - 1 /\ UNCHANGED waiters
        /\ slot' = [slot EXCEPT ![r] = "gone"] /\ pc' = [pc EXCEPT ![r] = p]
    BY <1>4, <1>5 DEF ReleaseSlot
  <2>2. Holders' = Holders \ {r}
    BY <2>1 DEF Holders, Inv, TypeOK
  <2>3. SlotsCounted'
    BY <1>2, <1>3, <1>5, <2>1, <2>2 DEF SlotsCounted
  <2>4. Queued = {}
    BY <1>5 DEF Inv, QueueOK, Queued
  <2>5. Queued' = {}
    BY <2>1, <2>4 DEF Inv, TypeOK, Queued
  <2>6. QueueOK'
    BY <1>5, <2>1, <2>5 DEF QueueOK, Queued
  <2>7. PhaseOK'
    BY <2>1 DEF Inv, TypeOK, PhaseOK
  <2>8. GateType' /\ Served
    BY <1>2, <1>4, <2>1 DEF Inv, TypeOK, GateType, Served
  <2>9. Gate!Leave(r)
    BY <1>1, <2>2, <2>4, <2>5 DEF Gate!Leave
  <2>10. pc'[r] = p /\ \A s \in Requests \ {r} : pc'[s] = pc[s]
    BY <2>1 DEF Inv, TypeOK
  <2>11. GateOK'
    BY <2>3, <2>6, <2>7, <2>8 DEF GateOK
  <2> QED
    BY <1>1, <2>8, <2>9, <2>10, <2>11
<1>6. CASE waiters # <<>>
  <2> DEFINE h == Head(waiters)
  <2>1. /\ Len(waiters) \in Nat \ {0} /\ h = waiters[1] /\ h \in Requests
        /\ Tail(waiters) \in Seq(Requests) /\ Len(Tail(waiters)) = Len(waiters) - 1
        /\ \A i \in 1 .. Len(waiters) - 1 : Tail(waiters)[i] = waiters[i + 1]
    BY <1>6, TailFacts DEF Inv, TypeOK
  <2>2. pc[h] = "queued" /\ h # r
    BY <1>1, <2>1 DEF Inv, QueueOK
  <2>3. slot[h] = "none" /\ h \notin Holders /\ ~ aborted[h]
    BY <2>1, <2>2 DEF Inv, PhaseOK, StopOK, Holders
  <2>4. /\ inflight' = inflight /\ waiters' = Tail(waiters)
        /\ slot' = [slot EXCEPT ![r] = "gone", ![h] = "held"]
        /\ pc' = [pc EXCEPT ![r] = p, ![h] = "call"]
    BY <1>2, <1>4, <1>6 DEF ReleaseSlot
  <2> HIDE DEF h
  <2>5. /\ slot'[r] = "gone" /\ slot'[h] = "held" /\ pc'[r] = p /\ pc'[h] = "call"
        /\ \A s \in Requests \ {r, h} : slot'[s] = slot[s] /\ pc'[s] = pc[s]
    BY <2>1, <2>2, <2>4 DEF Inv, TypeOK
  <2>6. Holders' = (Holders \ {r}) \cup {h}
    BY <2>1, <2>2, <2>5 DEF Holders
  <2>7. Cardinality(Holders') = Cardinality(Holders)
    <3>1. h \notin Holders \ {r}
      BY <2>3
    <3>2. Cardinality((Holders \ {r}) \cup {h}) = Cardinality(Holders \ {r}) + 1
      BY <1>3, <3>1, FS_AddElement
    <3> QED
      BY <1>2, <1>3, <2>6, <3>2
  <2>8. SlotsCounted'
    BY <1>2, <1>6, <2>4, <2>7 DEF Inv, SlotsCounted
  <2>9. Queued' = Queued \ {h} /\ h \in Queued
    BY <1>1, <2>1, <2>2, <2>5 DEF Queued
  <2>10. \A i \in 1 .. Len(waiters') :
             waiters'[i] = waiters[i + 1] /\ i + 1 \in 1 .. Len(waiters) /\ i + 1 # 1
    BY <2>1, <2>4
  <2>11. \A i \in 1 .. Len(waiters') : pc'[waiters'[i]] = "queued"
    <3> TAKE i \in 1 .. Len(waiters')
    <3>1. /\ waiters'[i] = waiters[i + 1] /\ i + 1 \in 1 .. Len(waiters) /\ i + 1 # 1
          /\ 1 \in 1 .. Len(waiters)
      BY <2>1, <2>10
    <3>2. waiters[i + 1] \in Requests /\ pc[waiters[i + 1]] = "queued" /\ waiters[i + 1] # h
      BY <2>1, <3>1 DEF Inv, TypeOK, QueueOK
    <3> QED
      BY <1>1, <2>5, <3>1, <3>2
  <2>12. \A i, k \in 1 .. Len(waiters') : waiters'[i] = waiters'[k] => i = k
    <3> SUFFICES ASSUME NEW i \in 1 .. Len(waiters'), NEW k \in 1 .. Len(waiters'),
                        waiters'[i] = waiters'[k]
                 PROVE  i = k
      OBVIOUS
    <3>1. waiters[i + 1] = waiters[k + 1]
      BY <2>10
    <3>2. i + 1 = k + 1
      BY <2>10, <3>1 DEF Inv, QueueOK
    <3> QED
      BY <2>1, <2>4, <3>2
  <2>13. \A s \in Requests : pc'[s] = "queued" => \E i \in 1 .. Len(waiters') : waiters'[i] = s
    <3> SUFFICES ASSUME NEW s \in Requests, pc'[s] = "queued"
                 PROVE  \E i \in 1 .. Len(waiters') : waiters'[i] = s
      OBVIOUS
    <3>1. s # h /\ pc[s] = "queued"
      BY <2>1, <2>5
    <3>2. PICK m \in 1 .. Len(waiters) : waiters[m] = s
      BY <3>1 DEF Inv, QueueOK
    <3>3. m # 1
      BY <2>1, <3>1, <3>2
    <3>4. m - 1 \in 1 .. Len(waiters') /\ m - 1 \in 1 .. Len(waiters) - 1 /\ (m - 1) + 1 = m
      BY <2>1, <2>4, <3>3
    <3>5. waiters'[m - 1] = waiters[m]
      BY <2>1, <2>4, <3>4
    <3> QED
      BY <3>2, <3>4, <3>5
  <2>14. QueueOK'
    BY <2>11, <2>12, <2>13 DEF QueueOK
  <2>15. PhaseOK'
    BY <2>1, <2>5 DEF Inv, PhaseOK
  <2>16. GateType'
    BY <2>1, <2>4 DEF Inv, TypeOK, GateType
  <2>17. Served
    BY <2>3, <2>5 DEF Served, h
  <2>18. Gate!Leave(r)
    BY <1>1, <2>6, <2>9 DEF Gate!Leave
  <2>19. \A s \in Requests \ {r} : pc'[s] = pc[s] \/ (pc[s] = "queued" /\ pc'[s] = "call")
    <3> TAKE s \in Requests \ {r}
    <3>1. CASE s = h
      BY <2>2, <2>5, <3>1
    <3>2. CASE s # h
      <4>1. s \in Requests \ {r, h}
        BY <3>2
      <4> QED
        BY <2>5, <4>1
    <3> QED
      BY <3>1, <3>2
  <2>20. GateOK'
    BY <2>8, <2>14, <2>15, <2>16 DEF GateOK
  <2> QED
    BY <1>1, <2>5, <2>17, <2>18, <2>19, <2>20
<1> QED
  BY <1>5, <1>6

-----------------------------------------------------------------------------
(* Each action.                                                            *)

\* What is shown of a step: the invariant stays, slots are handed out in order
\* and the gate makes a step or none.
Good == Inv' /\ Served /\ [Gate!Next]_<<Holders, Queued>>

\* A turn that goes on, ends, or is handed a slot can still be stopped.
LEMMA StopStays ==
    ASSUME Inv, NEW r \in Requests, pc[r] \notin {"idle", "done"}, pc'[r] \notin {"idle", "queued"},
           UNCHANGED <<aborted, pending>>,
           \A s \in Requests \ {r} : pc'[s] = pc[s] \/ (pc[s] = "queued" /\ pc'[s] = "call"),
           \/ UNCHANGED active
           \/ active' = active \ {r} /\ pc'[r] = "done"
    PROVE  StopOK'
<1> SUFFICES ASSUME NEW s \in Requests
             PROVE  /\ pc'[s] = "queued" => ~ aborted[s]
                    /\ s \in Chats /\ pc'[s] \notin {"idle", "done"} => s \in active' \/ aborted[s]
                    /\ s \in pending /\ pc'[s] \notin {"idle", "done"} => aborted[s]
  BY DEF StopOK
<1>1. /\ pc[s] = "queued" => ~ aborted[s]
      /\ s \in Chats /\ pc[s] \notin {"idle", "done"} => s \in active \/ aborted[s]
      /\ s \in pending /\ pc[s] \notin {"idle", "done"} => aborted[s]
  BY DEF Inv, StopOK
<1>2. CASE s = r
  <2>1. CASE pc'[r] = "done"
    BY <1>2, <2>1
  <2>2. CASE pc'[r] # "done"
    <3>1. UNCHANGED active
      BY <2>2
    <3> QED
      BY <1>1, <1>2, <2>2, <3>1
  <2> QED
    BY <2>1, <2>2
<1>3. CASE s # r
  <2>1. s \in active => s \in active'
    BY <1>3
  <2>2. pc'[s] = pc[s] \/ (pc[s] = "queued" /\ pc'[s] = "call")
    BY <1>3
  <2> QED
    BY <1>1, <2>1, <2>2
<1> QED
  BY <1>2, <1>3

\* A request arrives and is admitted, queued, or ends at once: its Stop or its
\* abort came first.
LEMMA ArriveGood ==
    ASSUME AdmissionConstants, Inv, NEW r \in Requests, Arrive(r)
    PROVE  Good
<1> DEFINE gone == aborted[r] \/ r \in pending
<1>1. /\ pc[r] = "idle" /\ slot[r] = "none" /\ pending' = pending \ {r}
      /\ aborted' = [aborted EXCEPT ![r] = gone]
  BY DEF Arrive, Inv, PhaseOK
<1>2. aborted'[r] = gone /\ \A s \in Requests \ {r} : aborted'[s] = aborted[s]
  BY <1>1 DEF Inv, TypeOK
<1>3. aborted' \in [Requests -> BOOLEAN] /\ pending' \subseteq Chats
  BY <1>1 DEF Inv, TypeOK
<1>4. CASE gone
  <2>1. pc' = [pc EXCEPT ![r] = "done"] /\ UNCHANGED <<inflight, waiters, slot, active>>
    BY <1>4 DEF Arrive
  <2>2. pc'[r] = "done" /\ \A s \in Requests \ {r} : pc'[s] = pc[s]
    BY <2>1 DEF Inv, TypeOK
  <2>3. \A s \in Requests : pc'[s] = "queued" <=> pc[s] = "queued"
    BY <1>1, <2>2
  <2>4. UNCHANGED <<Holders, Queued>> /\ Served
    BY <2>1, <2>3 DEF Holders, Queued, Served
  <2>5. SlotsCounted' /\ PhaseOK'
    BY <1>1, <2>1, <2>2 DEF Inv, SlotsCounted, Holders, PhaseOK
  <2>6. QueueOK'
    BY <2>1, <2>3 DEF Inv, TypeOK, QueueOK
  <2>7. TypeOK'
    BY <1>3, <2>1 DEF Inv, TypeOK
  <2>8. StopOK'
    BY <1>1, <1>2, <2>1, <2>2 DEF Inv, StopOK
  <2> QED
    BY <2>4, <2>5, <2>6, <2>7, <2>8 DEF Good, Inv
<1>5. CASE ~ gone
  <2>1. Acquire(r) /\ active' = active \cup Handle(r) /\ ~ aborted[r] /\ r \notin pending
    BY <1>5 DEF Arrive
  <2>2. active' \subseteq Chats /\ active \subseteq active' /\ (r \in Chats => r \in active')
    BY <2>1 DEF Handle, Inv, TypeOK
  <2>3. CASE inflight < Max
    <3>1. /\ inflight' = inflight + 1 /\ UNCHANGED waiters
          /\ slot' = [slot EXCEPT ![r] = "held"] /\ pc' = [pc EXCEPT ![r] = "call"]
      BY <2>1, <2>3, AdmissionConstants DEF Acquire, Inv, TypeOK, AdmissionConstants
    <3>2. GateOK' /\ waiters = <<>> /\ Gate!Admit(r)
      BY <1>1, <2>3, <3>1, Admits
    <3>3. Served
      BY <2>1, <3>1, <3>2 DEF Served, Inv, TypeOK
    <3>4. TypeOK'
      BY <1>3, <2>2, <3>2 DEF TypeOK, GateOK, GateType
    <3>5. pc'[r] = "call" /\ \A s \in Requests \ {r} : pc'[s] = pc[s]
      BY <3>1 DEF Inv, TypeOK
    <3>6. StopOK'
      BY <1>1, <1>2, <2>1, <2>2, <3>5 DEF Inv, StopOK
    <3> QED
      BY <3>2, <3>3, <3>4, <3>6 DEF Good, Inv, GateOK, Gate!Next
  <2>4. CASE inflight >= Max
    <3>1. /\ waiters' = Append(waiters, r) /\ UNCHANGED <<inflight, slot>>
          /\ pc' = [pc EXCEPT ![r] = "queued"]
      BY <2>1, <2>4, AdmissionConstants DEF Acquire, Inv, TypeOK, AdmissionConstants
    <3>2. GateOK' /\ Gate!Wait(r)
      BY <1>1, <2>4, <3>1, Waits
    <3>3. Served
      BY <3>1 DEF Served
    <3>4. TypeOK'
      BY <1>3, <2>2, <3>2 DEF TypeOK, GateOK, GateType
    <3>5. pc'[r] = "queued" /\ \A s \in Requests \ {r} : pc'[s] = pc[s]
      BY <3>1 DEF Inv, TypeOK
    <3>6. StopOK'
      BY <1>1, <1>2, <2>1, <2>2, <3>5 DEF Inv, StopOK
    <3> QED
      BY <3>2, <3>3, <3>4, <3>6 DEF Good, Inv, GateOK, Gate!Next
  <2> QED
    BY <2>3, <2>4, AdmissionConstants DEF Inv, TypeOK, AdmissionConstants
<1> QED
  BY <1>4, <1>5

\* A waiter gives up after its timeout.
LEMMA WaitTimesOutGood ==
    ASSUME AdmissionConstants, Inv, NEW r \in Requests, WaitTimesOut(r)
    PROVE  Good
<1> DEFINE p == IF r \in Chats THEN "turnedAway" ELSE "done"
<1>1. /\ pc[r] = "queued" /\ LeaveQueue(r) /\ pc' = [pc EXCEPT ![r] = p]
      /\ UNCHANGED <<inflight, slot, aborted, active, pending>>
  BY DEF WaitTimesOut
<1>2. p \in {"turnedAway", "done"}
  OBVIOUS
<1> HIDE DEF p
<1>3. GateOK' /\ Served /\ Gate!GiveUp(r)
  BY <1>1, <1>2, GivesUp
<1>4. pc'[r] = p /\ \A s \in Requests \ {r} : pc'[s] = pc[s]
  BY <1>1 DEF Inv, TypeOK
<1>5. StopOK'
  BY <1>1, <1>2, <1>4, StopStays
<1>6. TypeOK'
  BY <1>1, <1>3 DEF Inv, TypeOK, GateOK, GateType
<1> QED
  BY <1>3, <1>5, <1>6 DEF Good, Inv, GateOK, Gate!Next

\* A step that hands the slot over, and may end the turn.
LEMMA HandOverGood ==
    ASSUME AdmissionConstants, Inv, NEW r \in Requests,
           NEW p \in {"call", "stream", "cancelling", "done"}, ReleaseSlot(r, p),
           UNCHANGED <<aborted, pending>>,
           \/ UNCHANGED active
           \/ active' = active \ {r} /\ p = "done"
    PROVE  Good
<1>1. /\ GateOK' /\ Served /\ Gate!Leave(r) /\ pc[r] \in Past /\ pc'[r] = p
      /\ \A s \in Requests \ {r} : pc'[s] = pc[s] \/ (pc[s] = "queued" /\ pc'[s] = "call")
  BY HandsOver
<1>2. slot[r] = "held" /\ pc[r] # "done" /\ pc[r] # "idle"
  BY <1>1 DEF ReleaseSlot, Inv, PhaseOK, Past
<1>3. StopOK'
  BY <1>1, <1>2, StopStays
<1>4. TypeOK'
  BY <1>1 DEF Inv, TypeOK, GateOK, GateType
<1> QED
  BY <1>1, <1>3, <1>4 DEF Good, Inv, GateOK, Gate!Next

\* A step of a turn that leaves the gate alone.
LEMMA GoesOnGood ==
    ASSUME Inv, NEW r \in Requests, NEW p \in Past, pc[r] \in Past \ {"done"},
           pc' = [pc EXCEPT ![r] = p], UNCHANGED <<inflight, waiters, slot, aborted, pending>>,
           p # "turnedAway", slot[r] = "held" => p # "done",
           \/ UNCHANGED active
           \/ active' = active \ {r} /\ p = "done"
    PROVE  Good
<1>1. GateOK' /\ Served /\ UNCHANGED <<Holders, Queued>>
  BY GoesOn
<1>2. pc'[r] = p /\ \A s \in Requests \ {r} : pc'[s] = pc[s]
  BY DEF Inv, TypeOK
<1>3. StopOK'
  BY <1>2, StopStays DEF Past
<1>4. TypeOK'
  BY <1>1 DEF Inv, TypeOK, GateOK, GateType
<1> QED
  BY <1>1, <1>3, <1>4 DEF Good, Inv, GateOK

\* A release, of a slot still held or of one already gone.
LEMMA ReleaseGood ==
    ASSUME AdmissionConstants, Inv, NEW r \in Requests, NEW p \in {"call", "done"},
           pc[r] \in {"call", "cancelling"}, Release(r, p), UNCHANGED <<aborted, pending>>,
           \/ UNCHANGED active
           \/ active' = active \ {r} /\ p = "done"
    PROVE  Good
<1>1. CASE ReleaseSlot(r, p)
  BY <1>1, HandOverGood
<1>2. CASE slot[r] # "held" /\ pc' = [pc EXCEPT ![r] = p] /\ UNCHANGED <<inflight, waiters, slot>>
  BY <1>2, GoesOnGood DEF Past
<1> QED
  BY <1>1, <1>2 DEF Release

\* Every step of a turn that has its slot.
LEMMA TurnGood ==
    ASSUME AdmissionConstants, Inv, NEW r \in Requests, Turn(r)
    PROVE  Good
<1>1. CASE Overflow(r)
  BY <1>1, GoesOnGood DEF Overflow, Past
<1>2. pc[r] = "turnedAway" => slot[r] # "held"
  BY DEF Inv, PhaseOK
<1>3. CASE NoOverflow(r)
  BY <1>2, <1>3, GoesOnGood DEF NoOverflow, Past
<1>4. CASE OverflowThrows(r)
  BY <1>2, <1>4, GoesOnGood DEF OverflowThrows, Past
<1>5. CASE FleetOverflow(r)
  BY <1>5, ReleaseGood DEF FleetOverflow, KeepCancellation
<1>6. CASE CallEnds(r)
  BY <1>6, ReleaseGood DEF CallEnds
<1>7. CASE Respond(r)
  BY <1>7, GoesOnGood DEF Respond, Past
<1>8. CASE StreamEnds(r)
  BY <1>8, GoesOnGood DEF StreamEnds, Past
<1>9. CASE Cancelled(r)
  BY <1>9, ReleaseGood DEF Cancelled
<1> QED
  BY <1>1, <1>3, <1>4, <1>5, <1>6, <1>7, <1>8, <1>9 DEF Turn

\* The slot of a turn that never released it is taken back.
LEMMA ReclaimGood ==
    ASSUME AdmissionConstants, Inv, NEW r \in Requests, Reclaim(r)
    PROVE  Good
<1>1. ReleaseSlot(r, pc[r]) /\ slot[r] = "held" /\ UNCHANGED <<aborted, active, pending>>
  BY DEF Reclaim, HeldTooLong
<1>2. pc[r] \in {"call", "stream", "cancelling", "done"}
  BY <1>1 DEF Inv, TypeOK, PhaseOK
<1> QED
  BY <1>1, <1>2, HandOverGood

\* An abort, by the client or by Stop.
LEMMA AbortGood ==
    ASSUME AdmissionConstants, Inv, NEW r \in Requests, Abort(r), UNCHANGED pending,
           active' \subseteq active, active \ {r} \subseteq active'
    PROVE  Good
<1>1. aborted' = [aborted EXCEPT ![r] = TRUE] /\ UNCHANGED <<inflight, slot>>
  BY DEF Abort
<1>2. aborted'[r] /\ \A s \in Requests \ {r} : aborted'[s] = aborted[s]
  BY <1>1 DEF Inv, TypeOK
<1>3. aborted' \in [Requests -> BOOLEAN] /\ active' \subseteq Chats /\ pending' \subseteq Chats
  BY <1>1 DEF Inv, TypeOK
<1>4. CASE pc[r] = "queued" /\ LeaveQueue(r) /\ pc' = [pc EXCEPT ![r] = "done"]
  <2>1. GateOK' /\ Served /\ Gate!GiveUp(r)
    BY <1>1, <1>4, GivesUp
  <2>2. pc'[r] = "done" /\ \A s \in Requests \ {r} : pc'[s] = pc[s]
    BY <1>4 DEF Inv, TypeOK
  <2>3. StopOK'
    BY <1>2, <2>2 DEF Inv, StopOK
  <2>4. TypeOK'
    BY <1>3, <2>1 DEF TypeOK, GateOK, GateType
  <2> QED
    BY <2>1, <2>3, <2>4 DEF Good, Inv, GateOK, Gate!Next
<1>5. CASE pc[r] # "queued" /\ UNCHANGED <<waiters, pc>>
  <2>1. UNCHANGED <<Holders, Queued>> /\ Served
    BY <1>1, <1>5 DEF Holders, Queued, Served
  <2>2. SlotsCounted' /\ QueueOK' /\ PhaseOK'
    BY <1>1, <1>5 DEF Inv, SlotsCounted, Holders, QueueOK, PhaseOK
  <2>3. StopOK'
    BY <1>2, <1>5 DEF Inv, StopOK
  <2>4. TypeOK'
    BY <1>1, <1>3, <1>5 DEF Inv, TypeOK
  <2> QED
    BY <2>1, <2>2, <2>3, <2>4 DEF Good, Inv
<1> QED
  BY <1>4, <1>5 DEF Abort

\* The client of a request goes away.
LEMMA DisconnectGood ==
    ASSUME AdmissionConstants, Inv, NEW r \in Requests, Disconnect(r)
    PROVE  Good
<1>1. Abort(r) /\ UNCHANGED pending /\ active' \subseteq active /\ active \ {r} \subseteq active'
  BY DEF Disconnect
<1> QED
  BY <1>1, AbortGood

\* Only the Stops put aside change, for turns that are aborted or not there.
LEMMA PendingGood ==
    ASSUME Inv, UNCHANGED <<inflight, waiters, pc, slot, aborted, active>>, pending' \subseteq Chats,
           \A s \in pending' \ pending : s \notin active
    PROVE  Good
<1>1. UNCHANGED <<Holders, Queued>> /\ Served
  BY DEF Holders, Queued, Served
<1>2. SlotsCounted' /\ QueueOK' /\ PhaseOK' /\ TypeOK'
  BY DEF Inv, SlotsCounted, Holders, QueueOK, PhaseOK, TypeOK
<1>3. StopOK'
  BY DEF Inv, StopOK
<1> QED
  BY <1>1, <1>2, <1>3 DEF Good, Inv

\* The Stop route, for a turn it finds and for one not yet there.
LEMMA StopGood ==
    ASSUME AdmissionConstants, Inv, NEW r \in Chats, Stop(r)
    PROVE  Good
<1>1. CASE r \in active /\ active' = active \ {r} /\ Abort(r) /\ UNCHANGED pending
  <2>1. r \in Requests /\ active' \subseteq active /\ active \ {r} \subseteq active'
    BY <1>1, AdmissionConstants DEF AdmissionConstants
  <2> QED
    BY <1>1, <2>1, AbortGood
<1>2. CASE /\ r \notin active \cup pending /\ pending' = pending \cup {r}
           /\ UNCHANGED <<inflight, waiters, pc, slot, aborted, active>>
  <2>1. pending' \subseteq Chats /\ \A s \in pending' \ pending : s \notin active
    BY <1>2 DEF Inv, TypeOK
  <2> QED
    BY <1>2, <2>1, PendingGood
<1> QED
  BY <1>1, <1>2 DEF Stop

\* A Stop put aside expires.
LEMMA ForgetStopGood ==
    ASSUME Inv, NEW r \in Chats, ForgetStop(r)
    PROVE  Good
<1>1. pending' \subseteq Chats /\ pending' \subseteq pending
  BY DEF ForgetStop, Inv, TypeOK
<1> QED
  BY <1>1, PendingGood DEF ForgetStop

\* A step that changes nothing.
LEMMA StutterGood ==
    ASSUME Inv, UNCHANGED vars
    PROVE  Good
<1>1. pending' \subseteq Chats
  BY DEF Inv, TypeOK, vars
<1> QED
  BY <1>1, PendingGood DEF vars

\* Every step keeps the invariant, the order of service and the abstract gate.
LEMMA StepGood ==
    ASSUME AdmissionConstants, Inv, [Next]_vars
    PROVE  Good
<1>1. ASSUME NEW r \in Requests, Arrive(r) \/ WaitTimesOut(r) \/ Reclaim(r) \/ Turn(r) \/ Disconnect(r)
      PROVE  Good
  BY <1>1, ArriveGood, WaitTimesOutGood, ReclaimGood, TurnGood, DisconnectGood
<1>2. ASSUME NEW r \in Chats, Stop(r) \/ ForgetStop(r)
      PROVE  Good
  BY <1>2, StopGood, ForgetStopGood
<1> QED
  BY <1>1, <1>2, StutterGood DEF Next

\* At first the gate is empty.
LEMMA InitGood ==
    ASSUME AdmissionConstants, Init
    PROVE  Inv /\ Gate!Init
<1>1. Holders = {} /\ Queued = {}
  BY DEF Init, Holders, Queued
<1>2. Cardinality(Holders) = 0 /\ Max \in Nat
  BY <1>1, FS_EmptySet DEF AdmissionConstants
<1>3. SlotsCounted
  BY <1>2 DEF Init, SlotsCounted
<1>4. TypeOK
  BY DEF Init, TypeOK
<1>5. QueueOK /\ PhaseOK /\ StopOK
  BY DEF Init, QueueOK, PhaseOK, StopOK
<1> QED
  BY <1>1, <1>3, <1>4, <1>5 DEF Inv, Gate!Init

-----------------------------------------------------------------------------
(* Theorems.                                                               *)

\* The inductive invariant holds in every reachable state.
LEMMA InvAlways == Spec => []Inv
<1>1. Init => Inv
  BY AdmissionConstants, InitGood
<1>2. Inv /\ [Next]_vars => Inv'
  BY AdmissionConstants, StepGood DEF Good
<1> QED
  BY <1>1, <1>2, PTL DEF Spec

\* The counter never goes below zero and the queue holds requests only, whatever order
\* releases, timers and aborts come in (admission.server.ts).
THEOREM TypeTheorem == Spec => []TypeOK
<1>1. Inv => TypeOK
  BY DEF Inv
<1> QED
  BY <1>1, InvAlways, PTL

\* The counter of the gate is the number of slots held, never over Max, and a
\* request waits only while it is Max.
THEOREM SlotsCountedTheorem == Spec => []SlotsCounted
<1>1. Inv => SlotsCounted
  BY DEF Inv
<1> QED
  BY <1>1, InvAlways, PTL

\* On no path does a request end with a slot.
THEOREM DoneHoldsNothingTheorem == Spec => []DoneHoldsNothing
<1>1. Inv => DoneHoldsNothing
  BY DEF Inv, PhaseOK, DoneHoldsNothing
<1> QED
  BY <1>1, InvAlways, PTL

\* Stop finds every chat turn that lives and is not aborted.
THEOREM StopTheorem == Spec => []StopFindsLiveTurn
<1>1. AdmissionConstants /\ Inv => StopFindsLiveTurn
  BY DEF Inv, StopOK, StopFindsLiveTurn, AdmissionConstants
<1> QED
  BY <1>1, AdmissionConstants, InvAlways, PTL

\* Slots are handed out in the order of arrival.
THEOREM OrderTheorem == Spec => FirstComeFirstServed
<1>1. Inv /\ [Next]_vars =>
        [\A r \in Requests : slot[r] = "none" /\ slot'[r] = "held" =>
            waiters = <<>> \/ r = Head(waiters)]_vars
  BY AdmissionConstants, StepGood DEF Good, Served
<1> QED
  BY <1>1, InvAlways, PTL DEF Spec, FirstComeFirstServed

\* No slot is handed to a request that is aborted.
THEOREM NoSlotForTheGoneTheorem == Spec => NoSlotForTheGone
<1>1. Inv /\ [Next]_vars =>
        [\A r \in Requests : slot[r] = "none" /\ slot'[r] = "held" => ~ aborted[r]]_vars
  BY AdmissionConstants, StepGood DEF Good, Served
<1> QED
  BY <1>1, InvAlways, PTL DEF Spec, NoSlotForTheGone

\* The gate implements SlotGate.
THEOREM GateTheorem == Spec => GateSpec
<1>1. Init => Gate!Init
  BY AdmissionConstants, InitGood
<1>2. Inv /\ [Next]_vars => [Gate!Next]_<<Holders, Queued>>
  BY AdmissionConstants, StepGood DEF Good
<1> QED
  BY <1>1, <1>2, InvAlways, PTL DEF Spec, GateSpec, Gate!Spec
=============================================================================
