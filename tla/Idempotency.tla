----------------------------- MODULE Idempotency -----------------------------
(***************************************************************************)
(* withIdempotency: the record of one key (per route and actor), requests  *)
(* that carry the key in several server processes, the map of requests in  *)
(* flight in each process, retries, expiry and crashes.                    *)
(***************************************************************************)
EXTENDS Naturals

CONSTANTS
    Requests,       \* attempts of clients, retries included
    Procs, Bodies,
    Home,           \* request -> the process that serves it
    Body,           \* request -> what it asks for
    Old,            \* the execution behind a record of the backfill migration
    None,
    MaxFaults, MaxExpiries

\* What a request is told instead of the answer of an execution.
Refusals == {"MISMATCH", "IN_PROGRESS", "REJECTED", "ERROR"}

ASSUME IdempotencyConstants ==
    /\ Refusals \cap (Requests \cup {Old, None}) = {}
    /\ Home \in [Requests -> Procs] /\ Body \in [Requests -> Bodies]
    /\ None \notin Requests \cup Bodies \cup {Old}
    /\ Old \notin Requests \cup Bodies
    /\ MaxFaults \in Nat /\ MaxExpiries \in Nat

VARIABLES
    rec,        \* the row: status, body hash, claimant, answer, not yet expired
    pc, seen,   \* where a request stands, and the row as it read it
    inFlight,   \* process and body -> the request that executes for both
    answer,
    effect,     \* the execution the key stands for since the row was created
    slow,       \* whether handlers may outlive their record, in this behaviour
    spent       \* what the environment has done

vars == <<rec, pc, seen, inFlight, answer, effect, slow, spent>>

RecType == [st : {"PROCESSING", "COMPLETED", "FAILED"}, hash : Bodies \cup {Old},
            by : Requests \cup {Old}, resp : Requests \cup {Old, None}, live : BOOLEAN]
NoRec == [st |-> "none"]

\* A row of the backfill migration answers every body.
Backfill == [st |-> "COMPLETED", hash |-> Old, by |-> Old, resp |-> Old, live |-> TRUE]

Init ==
    /\ rec \in {NoRec, Backfill} /\ effect = (IF rec = NoRec THEN None ELSE Old)
    /\ pc = [r \in Requests |-> "idle"] /\ seen = [r \in Requests |-> NoRec]
    /\ inFlight = [p \in Procs |-> [b \in Bodies |-> None]]
    /\ answer = [r \in Requests |-> None]
    /\ slow \in BOOLEAN /\ spent = [faults |-> 0, expiries |-> 0]

Spend(what, bound) == spent[what] < bound /\ spent' = [spent EXCEPT ![what] = @ + 1]

Followers(r) == {s \in Requests : pc[s] = "joined" /\ Home[s] = Home[r] /\ Body[s] = Body[r]}

\* The shared promise settles: its map entry goes, all who joined are answered.
Settle(r, a) ==
    LET all == {r} \cup Followers(r) IN
    /\ pc' = [s \in Requests |-> IF s \in all THEN "done" ELSE pc[s]]
    /\ answer' = [s \in Requests |-> IF s \in all THEN a ELSE answer[s]]
    /\ inFlight' = [inFlight EXCEPT ![Home[r]][Body[r]] = IF @ = r THEN None ELSE @]

Goto(r, at) == pc' = [pc EXCEPT ![r] = at] /\ UNCHANGED <<inFlight, answer>>

------------------------------------------------------------------------------
(* withIdempotency and claimIdempotency.                                    *)

Joins(r) == inFlight[Home[r]][Body[r]] # None

Arrive(r) ==
    /\ pc[r] = "idle" /\ UNCHANGED <<rec, seen, answer, effect, spent>>
    /\ \/ Joins(r) /\ pc' = [pc EXCEPT ![r] = "joined"] /\ UNCHANGED inFlight
       \/ /\ ~ Joins(r) /\ pc' = [pc EXCEPT ![r] = "create"]
          /\ inFlight' = [inFlight EXCEPT ![Home[r]][Body[r]] = r]

Claimed(r) == [st |-> "PROCESSING", hash |-> Body[r], by |-> r, resp |-> None, live |-> TRUE]

Create(r) ==
    /\ pc[r] = "create" /\ UNCHANGED <<seen, effect, spent>>
    /\ \/ rec = NoRec /\ rec' = Claimed(r) /\ Goto(r, "handler")
       \/ rec # NoRec /\ UNCHANGED rec /\ Goto(r, "read")

\* Mutant: the body is not compared.
MutMatches(r) == TRUE
Matches(r) == rec.hash \in {Old, Body[r]}

Read(r) ==
    /\ pc[r] = "read" /\ UNCHANGED <<rec, effect, spent>>
    /\ \/ rec = NoRec /\ Goto(r, "create") /\ UNCHANGED seen
       \/ /\ rec # NoRec /\ ~ rec.live
          /\ seen' = [seen EXCEPT ![r] = rec] /\ Goto(r, "purge")
       \/ /\ rec # NoRec /\ rec.live /\ UNCHANGED seen
          /\ \/ ~ Matches(r) /\ Settle(r, "MISMATCH")
             \/ Matches(r) /\ rec.st = "COMPLETED" /\ Settle(r, rec.resp)
             \/ Matches(r) /\ rec.st = "PROCESSING" /\ Goto(r, "wait")
             \/ Matches(r) /\ rec.st = "FAILED" /\ Goto(r, "reclaim")

\* Mutant: the delete names only the key.
MutSameRow(r) == rec # NoRec
\* The delete repeats the status, the hash and the clock reading of the lookup;
\* only the claim the lookup saw had expired by then.
SameRow(r) ==
    /\ rec # NoRec /\ rec.st = seen[r].st /\ rec.hash = seen[r].hash
    /\ rec.by = seen[r].by /\ rec.live = seen[r].live

Purge(r) ==
    /\ pc[r] = "purge" /\ Goto(r, "create")
    /\ rec' = IF SameRow(r) THEN NoRec ELSE rec
    /\ effect' = IF SameRow(r) THEN None ELSE effect
    /\ seen' = [seen EXCEPT ![r] = NoRec] /\ UNCHANGED spent

StillFailed(r) == rec # NoRec /\ rec.st = "FAILED" /\ rec.hash = Body[r]

Reclaim(r) ==
    /\ pc[r] = "reclaim" /\ UNCHANGED <<seen, effect, spent>>
    /\ \/ StillFailed(r) /\ rec' = Claimed(r) /\ Goto(r, "handler")
       \/ ~ StillFailed(r) /\ UNCHANGED rec /\ Goto(r, "create")

\* Mutant: the wait has no deadline.
MutWaitTimesOut(r) == FALSE
WaitTimesOut(r) ==
    /\ pc[r] = "wait" /\ Settle(r, "IN_PROGRESS") /\ UNCHANGED <<rec, seen, effect, spent>>

\* waitForInProgressReplay: one look at the row; expiry is not looked at.
Look(r) ==
    /\ pc[r] = "wait" /\ UNCHANGED <<rec, seen, effect, spent>>
    /\ \/ rec = NoRec /\ Settle(r, "IN_PROGRESS")
       \/ rec # NoRec /\ ~ Matches(r) /\ Settle(r, "MISMATCH")
       \/ rec # NoRec /\ Matches(r) /\ rec.st = "COMPLETED" /\ Settle(r, rec.resp)
       \/ rec # NoRec /\ Matches(r) /\ rec.st = "FAILED" /\ Settle(r, "IN_PROGRESS")

------------------------------------------------------------------------------
(* executeIdempotentRequest: the handler and what follows it.               *)

\* The handler answers 2xx: its mutation is in the database.
HandlerSucceeds(r) ==
    /\ pc[r] = "handler" /\ Goto(r, "complete") /\ effect' = r
    /\ UNCHANGED <<rec, seen, spent>>
\* It answers anything else, or throws, and has changed nothing.
HandlerFails(r) ==
    /\ pc[r] = "handler" /\ (Goto(r, "release") \/ Goto(r, "fail"))
    /\ UNCHANGED <<rec, seen, effect, spent>>

\* The completion is addressed by key; without a row the update throws.
Complete(r) ==
    /\ pc[r] = "complete" /\ UNCHANGED <<seen, effect, spent>>
    /\ \/ /\ rec # NoRec /\ rec' = [rec EXCEPT !.st = "COMPLETED", !.resp = r]
          /\ Settle(r, r)
       \/ rec = NoRec /\ UNCHANGED rec /\ Settle(r, "ERROR")

InProcess == rec # NoRec /\ rec.st = "PROCESSING"
Release(r) ==
    /\ pc[r] = "release" /\ Settle(r, "REJECTED") /\ UNCHANGED <<seen, effect, spent>>
    /\ rec' = IF InProcess THEN NoRec ELSE rec
Fail(r) ==
    /\ pc[r] = "fail" /\ Settle(r, "ERROR") /\ UNCHANGED <<seen, effect, spent>>
    /\ rec' = IF InProcess THEN [rec EXCEPT !.st = "FAILED"] ELSE rec

\* Mutant: a completion that cannot be written gives the key back.
MutAfterDbError(r) == IF pc[r] = "complete" THEN NoRec ELSE rec
AfterDbError(r) == rec
\* A statement of r throws.  A completion that cannot be written keeps the claim.
DbError(r) ==
    /\ pc[r] \in {"create", "read", "purge", "reclaim", "wait", "complete", "release", "fail"}
    /\ Spend("faults", MaxFaults) /\ rec' = AfterDbError(r)
    /\ Settle(r, "ERROR") /\ UNCHANGED <<seen, effect>>

------------------------------------------------------------------------------
(* Time and crashes.                                                        *)

Owns(r) == pc[r] \in {"handler", "complete", "release", "fail"}

\* A record lasts a day, from the claim on.
Expire ==
    /\ rec # NoRec /\ rec.live /\ Spend("expiries", MaxExpiries)
    /\ slow \/ \A r \in Requests : ~ Owns(r)
    /\ rec' = [rec EXCEPT !.live = FALSE]
    /\ UNCHANGED <<pc, seen, inFlight, answer, effect>>

\* A process dies with its requests and its map.
Crash(p) ==
    /\ Spend("faults", MaxFaults)
    /\ pc' = [r \in Requests |-> IF Home[r] = p /\ pc[r] \notin {"idle", "done"} THEN "lost" ELSE pc[r]]
    /\ inFlight' = [inFlight EXCEPT ![p] = [b \in Bodies |-> None]]
    /\ UNCHANGED <<rec, seen, answer, effect>>

Serve(r) ==
    \/ Create(r) \/ Read(r) \/ Purge(r) \/ Reclaim(r) \/ Look(r) \/ WaitTimesOut(r)
    \/ HandlerSucceeds(r) \/ HandlerFails(r) \/ Complete(r) \/ Release(r) \/ Fail(r)

Next ==
    /\ UNCHANGED slow
    /\ \/ \E r \in Requests : Arrive(r) \/ Serve(r) \/ DbError(r)
       \/ Expire \/ \E p \in Procs : Crash(p)

Spec == Init /\ [][Next]_vars

\* Statements return, timers fire and handlers end: while a request can go on,
\* some request does.
LiveSpec == Spec /\ WF_vars(UNCHANGED slow /\ \E r \in Requests : Serve(r))

------------------------------------------------------------------------------
TypeOK ==
    /\ rec \in RecType \cup {NoRec}
    /\ rec # NoRec => (rec.st = "COMPLETED") = (rec.resp # None)
    /\ pc \in [Requests -> {"idle", "joined", "create", "read", "purge", "reclaim", "wait", "handler",
                            "complete", "release", "fail", "done", "lost"}]
    /\ seen \in [Requests -> RecType \cup {NoRec}]
    /\ inFlight \in [Procs -> [Bodies -> Requests \cup {None}]]
    /\ answer \in [Requests -> Requests \cup {Old, None} \cup Refusals]
    /\ effect \in Requests \cup {Old, None} /\ slow \in BOOLEAN
    /\ spent \in [{"faults", "expiries"} -> Nat]

\* Two requests never execute the key at the same time, in whatever processes,
\* as long as no handler outlives its record.
OneOwner ==
    ~ slow => \A r, s \in Requests : Owns(r) /\ Owns(s) => r = s

\* No request is told of an execution for another body, unless the record is
\* one of the migration, whose body is not known (and no handler was slow).
AnswersMatchBody ==
    ~ slow => \A r \in Requests : answer[r] \in Requests => Body[answer[r]] = Body[r]

\* A key promises OncePerKey: no second execution counts while the row is
\* there, and every replay tells of the one that did.  Nothing is promised when
\* handlers outlive their records.
Counted == IF slow THEN None ELSE effect
Told == [r \in Requests |-> IF ~ slow /\ answer[r] \in Requests \cup {Old} THEN answer[r] ELSE None]
Key == INSTANCE OncePerKey WITH counted <- Counted, told <- Told
OncePerKeySpec == Key!Spec

\* Every request is answered, unless its process dies.
Answered ==
    \A r \in Requests : pc[r] \in {"create", "joined"} ~> pc[r] \in {"done", "lost"}
=============================================================================
