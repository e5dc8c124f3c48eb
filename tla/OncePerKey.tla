----------------------------- MODULE OncePerKey -----------------------------
(***************************************************************************)
(* What an idempotency key promises: while the key is remembered, one      *)
(* execution at most counts, and whoever is told of an execution is told   *)
(* of that one.                                                            *)
(***************************************************************************)
CONSTANTS Requests, Old, None

VARIABLES
    counted,    \* the execution remembered, one from before the start included
    told        \* request -> the execution it was told of

Init == counted \in {None, Old} /\ told = [r \in Requests |-> None]

Execute(r) == counted = None /\ counted' = r /\ UNCHANGED told

Tell ==
    /\ counted # None
    /\ \A r \in Requests : told'[r] \in {told[r], counted} /\ (told[r] # None => told'[r] = told[r])
    /\ UNCHANGED counted

Forget == counted' = None /\ UNCHANGED told

Next == (\E r \in Requests : Execute(r)) \/ Tell \/ Forget

Spec == Init /\ [][Next]_<<counted, told>>
=============================================================================
