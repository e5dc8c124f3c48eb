------------------------------ MODULE SlotGate ------------------------------
(***************************************************************************)
(* What the admission of local-model requests promises: at most Max hold a *)
(* slot, one that comes while a slot is free does not wait, and a slot     *)
(* that is given back goes straight to one of those who wait.              *)
(***************************************************************************)
EXTENDS Naturals, FiniteSets

CONSTANTS Requests, Max

VARIABLES holding, waiting

Init == holding = {} /\ waiting = {}

Admit(r) ==
    /\ r \notin holding \cup waiting /\ waiting = {} /\ Cardinality(holding) < Max
    /\ holding' = holding \cup {r} /\ UNCHANGED waiting

Wait(r) ==
    /\ r \notin holding \cup waiting /\ Cardinality(holding) = Max
    /\ waiting' = waiting \cup {r} /\ UNCHANGED holding

\* Turned away, or gone by itself.
GiveUp(r) ==
    /\ r \in waiting
    /\ waiting' = waiting \ {r} /\ UNCHANGED holding

Leave(r) ==
    /\ r \in holding
    /\ \/ waiting = {} /\ holding' = holding \ {r} /\ UNCHANGED waiting
       \/ \E n \in waiting : /\ holding' = (holding \ {r}) \cup {n}
                             /\ waiting' = waiting \ {n}

Next == \E r \in Requests : Admit(r) \/ Wait(r) \/ GiveUp(r) \/ Leave(r)

Spec == Init /\ [][Next]_<<holding, waiting>>

\* Nobody waits for ever, and nobody keeps a slot for ever.
NoOneStays ==
    \A r \in Requests : /\ WF_<<holding, waiting>>(GiveUp(r))
                        /\ WF_<<holding, waiting>>(Leave(r))

LiveSpec == Spec /\ NoOneStays
=============================================================================
