----------------------------- MODULE ReEmbedJobs -----------------------------
(***************************************************************************)
(* The re-embedding of one course: start requests that create, join or     *)
(* recycle its job under the course lock, workers that claim the job's     *)
(* lease and re-embed every material behind it, status reads that resume,  *)
(* leases that lapse, failing statements and crashes.                      *)
(***************************************************************************)
EXTENDS Naturals, Sequences, FiniteSets

CONSTANTS
    Ids, Requests, Keys, Mats, None,
    MaxStarts,      \* start requests in a behaviour
    MaxClaims,      \* claims in a behaviour
    MaxFaults       \* failing statements, provider errors and crashes

ASSUME ReEmbedConstants ==
    /\ None \notin Ids \cup Requests \cup Keys /\ Mats # {} /\ IsFiniteSet(Mats)
    /\ MaxStarts \in Nat /\ MaxClaims \in Nat /\ MaxFaults \in Nat

\* A claim makes a new owner token: the n-th claim is worker n.
Workers == 1..MaxClaims

VARIABLES
    row,        \* the jobs of the course
    lock,       \* the start request that holds the course row
    marked,     \* the worker that recorded the course as embedded last
    mat,        \* each material, and the worker whose vectors it has
    wk, claims, \* the workers, and how many there have been
    req, starts, \* the start requests under way, and how many there have been
    faults

vars == <<row, lock, marked, mat, wk, claims, req, starts, faults>>

Active == {"PENDING", "RUNNING"}
NoRow == [st |-> "none", key |-> None, owner |-> 0, lease |-> "none",
          aged |-> FALSE, replayed |-> TRUE, done |-> 0]
Idle == [at |-> "none", row |-> None, owns |-> FALSE, lost |-> FALSE,
         m |-> [x \in Mats |-> "wait"], q |-> <<>>]
NewReq == [at |-> "idle", key |-> None, row |-> None, plan |-> "none", made |-> FALSE, active |-> FALSE]

Init ==
    /\ row = [i \in Ids |-> NoRow] /\ lock = None /\ marked = 0
    /\ mat = [m \in Mats |-> [st |-> "READY", by |-> 0]]
    /\ wk = [w \in Workers |-> Idle] /\ claims = 0
    /\ req = [s \in Requests |-> NewReq] /\ starts = 0 /\ faults = 0

Fault == faults < MaxFaults /\ faults' = faults + 1

\* Whose transaction has the job's row locked (assertReEmbedLeaseInTransaction).
Marking(i) == {w \in Workers : wk[w].at = "mark" /\ wk[w].row = i}
Free(i) == Marking(i) = {}

Exists(i) == row[i].st \notin {"none", "deleted"}
ActiveRows == {i \in Ids : row[i].st \in Active}

Stale(x) == \/ x.st = "RUNNING" /\ x.lease = "past"
            \/ x.st = "PENDING" /\ x.aged

------------------------------------------------------------------------------
(* acquireReEmbedJob: one transaction that locks the course row, reads, and *)
(* writes a job row by its id.                                              *)

Plan(i, k, byKey) ==
    IF row[i].st \in Active
    THEN IF Stale(row[i]) THEN "recycle"
         ELSE IF ~ byKey /\ k # None /\ row[i].key = None THEN "attach" ELSE "return"
    ELSE IF row[i].replayed THEN "return" ELSE "recycle"

Lock(s, k) ==
    /\ req[s].at \in {"idle", "answered"} /\ lock = None /\ lock' = s
    /\ starts < MaxStarts /\ starts' = starts + 1
    /\ LET byKey == {i \in Ids : k # None /\ row[i].key = k}
           found == IF byKey # {} THEN byKey ELSE ActiveRows IN
       \/ /\ found = {}
          /\ req' = [req EXCEPT ![s] = [NewReq EXCEPT !.at = "locked", !.key = k, !.plan = "create"]]
       \/ \E i \in found :
             req' = [req EXCEPT ![s] = [NewReq EXCEPT !.at = "locked", !.key = k, !.row = i,
                         !.plan = Plan(i, k, byKey # {}), !.active = row[i].st \in Active]]
    /\ UNCHANGED <<row, marked, mat, wk, claims, faults>>

\* The request goes on with job i, made by it or not.  One that is over, with an
\* error or an answer, may be followed by another.
GoOn(s, at, i, made) ==
    req' = [req EXCEPT ![s] = [NewReq EXCEPT !.at = at, !.row = i, !.made = made]]
Goto(s, at) == GoOn(s, at, req[s].row, req[s].made)
GiveUp(s) == GoOn(s, "idle", None, FALSE)

\* Mutant: the partial unique index is missing.
MutIndexAllows(i) == TRUE
IndexAllows(i) == \A j \in ActiveRows : j = i

Create(s, i) ==
    /\ req[s].at = "locked" /\ req[s].plan = "create" /\ row[i].st = "none" /\ IndexAllows(i)
    /\ row' = [row EXCEPT ![i] = [NoRow EXCEPT !.st = "PENDING", !.key = req[s].key]]
    /\ lock' = None /\ GoOn(s, "claim", i, TRUE)
    /\ UNCHANGED <<marked, mat, wk, claims, starts, faults>>

\* FAILED and then PENDING again, by id, whatever the row has become since it
\* was read; a row without a key takes the request's.
Recycle(s) ==
    LET i == req[s].row IN
    /\ req[s].at = "locked" /\ req[s].plan = "recycle" /\ Free(i)
    /\ Exists(i) /\ IndexAllows(i)
    /\ row' = [row EXCEPT ![i] = [@ EXCEPT !.st = "PENDING", !.owner = 0, !.lease = "none", !.done = 0,
                  !.replayed = TRUE, !.key = IF row[i].key = None THEN req[s].key ELSE row[i].key]]
    /\ lock' = None /\ GoOn(s, "claim", i, TRUE)
    /\ UNCHANGED <<marked, mat, wk, claims, starts, faults>>

Attach(s) ==
    LET i == req[s].row IN
    /\ req[s].at = "locked" /\ req[s].plan = "attach" /\ Free(i) /\ Exists(i)
    /\ row' = [row EXCEPT ![i].key = req[s].key]
    /\ lock' = None /\ Goto(s, "claim")
    /\ UNCHANGED <<marked, mat, wk, claims, starts, faults>>

Return(s) ==
    /\ req[s].at = "locked" /\ req[s].plan = "return"
    /\ lock' = None /\ Goto(s, IF req[s].active THEN "claim" ELSE "answered")
    /\ UNCHANGED <<row, marked, mat, wk, claims, starts, faults>>

\* The row has been deleted, or another job is active: the write is refused.
AcquireFails(s) ==
    /\ req[s].at = "locked" /\ req[s].plan \in {"recycle", "attach"}
    /\ \/ ~ Exists(req[s].row)
       \/ req[s].plan = "recycle" /\ ~ IndexAllows(req[s].row)
    /\ lock' = None /\ GiveUp(s)
    /\ UNCHANGED <<row, marked, mat, wk, claims, starts, faults>>

\* Lock order: the request waits for the job's row, the worker that records the
\* course as embedded waits for the course row.  PostgreSQL aborts one of them.
Deadlock(s, w) ==
    /\ lock = s /\ req[s].plan \in {"recycle", "attach"} /\ w \in Marking(req[s].row)
    /\ \/ lock' = None /\ GiveUp(s) /\ UNCHANGED wk
       \/ wk' = [wk EXCEPT ![w].at = "error"] /\ UNCHANGED <<lock, req>>
    /\ UNCHANGED <<row, marked, mat, claims, starts, faults>>

------------------------------------------------------------------------------
(* claimReEmbedJob and the end of startOrResumeReEmbedJob.                  *)

\* Mutant: a lease that lapsed is not taken over.
MutClaimable(i) == row[i].st = "PENDING"
Claimable(i) == row[i].st = "PENDING" \/ (row[i].st = "RUNNING" /\ row[i].lease = "past")

Claim(i, at) ==
    /\ claims < MaxClaims /\ claims' = claims + 1
    /\ row' = [row EXCEPT ![i] = [@ EXCEPT !.st = "RUNNING", !.owner = claims + 1, !.lease = "live"]]
    /\ wk' = [wk EXCEPT ![claims + 1] = [Idle EXCEPT !.at = at, !.row = i, !.owns = TRUE, !.q = <<0>>]]

StartClaims(s) ==
    LET i == req[s].row IN
    /\ req[s].at = "claim" /\ Free(i) /\ UNCHANGED <<lock, marked, mat, starts, faults>>
    /\ \/ Claimable(i) /\ Claim(i, "start") /\ Goto(s, "answered")
       \/ ~ Claimable(i) /\ Goto(s, "check") /\ UNCHANGED <<row, wk, claims>>

\* The claim, or the read after it, fails: a lease may be left with no worker.
ClaimFails(s) ==
    LET i == req[s].row IN
    /\ req[s].at = "claim" /\ Fault
    /\ IF req[s].made THEN Goto(s, "compensate") ELSE GiveUp(s)
    /\ \/ UNCHANGED <<row, wk, claims>>
       \/ Free(i) /\ Claimable(i) /\ Claim(i, "end")
    /\ UNCHANGED <<lock, marked, mat, starts>>

\* Mutant: only a missing row counts as unclaimed.
MutUnclaimed(s) == req[s].made /\ ~ Exists(req[s].row)
\* Nobody claimed the row this request made.
Unclaimed(s) == req[s].made /\ (~ Exists(req[s].row) \/ row[req[s].row].st = "PENDING")

Check(s) ==
    /\ req[s].at = "check" /\ Goto(s, IF Unclaimed(s) THEN "compensate" ELSE "answered")
    /\ UNCHANGED <<row, lock, marked, mat, wk, claims, starts, faults>>

Compensate(s) ==
    LET i == req[s].row IN
    /\ req[s].at = "compensate" /\ Free(i) /\ GiveUp(s)
    /\ row' = IF row[i].st = "PENDING" THEN [row EXCEPT ![i] = [NoRow EXCEPT !.st = "deleted"]] ELSE row
    /\ UNCHANGED <<lock, marked, mat, wk, claims, starts, faults>>

CompensateFails(s) ==
    /\ req[s].at = "compensate" /\ Fault /\ GiveUp(s)
    /\ UNCHANGED <<row, lock, marked, mat, wk, claims, starts>>

RequestDies(s) ==
    /\ req[s].at \in {"locked", "claim", "check", "compensate"} /\ Fault /\ GiveUp(s)
    /\ lock' = IF lock = s THEN None ELSE lock
    /\ UNCHANGED <<row, marked, mat, wk, claims, starts>>

\* A status read of an active job tries to claim it.
Poll(i) ==
    /\ Claimable(i) /\ Free(i) /\ Claim(i, "start")
    /\ UNCHANGED <<lock, marked, mat, req, starts, faults>>

------------------------------------------------------------------------------
(* reEmbedCourseMaterials: the materials of one worker, side by side.       *)

\* Mutant: the fence does not name the owner.
MutFenced(w) == row[wk[w].row].st = "RUNNING" /\ row[wk[w].row].lease = "live"
\* The statement is still fenced by the job's row: status, owner and lease.
Fenced(w) ==
    row[wk[w].row].st = "RUNNING" /\ row[wk[w].row].owner = w /\ row[wk[w].row].lease = "live"
CanContinue(w) == wk[w].owns /\ ~ wk[w].lost

Step(w, m, to) == wk' = [wk EXCEPT ![w].m[m] = to]
Oks(w) == Cardinality({m \in Mats : wk[w].m[m] = "ok"})

\* Mutant: the newest count is written first.
MutEnqueue(q, n) == <<n>> \o q
Enqueue(q, n) == Append(q, n)

\* A material is through: a snapshot of the counts is queued to be written.
Report(w, m, to) ==
    wk' = [wk EXCEPT ![w].m[m] = to, ![w].q = Enqueue(@, Oks(w) + (IF to = "ok" THEN 1 ELSE 0))]

MatOnly == UNCHANGED <<row, lock, marked, claims, req, starts>>

BeginMaterial(w, m) ==
    /\ wk[w].at = "run" /\ wk[w].m[m] = "wait" /\ MatOnly /\ UNCHANGED faults
    /\ \/ CanContinue(w) /\ Fenced(w) /\ Step(w, m, "embed") /\ mat' = [mat EXCEPT ![m].st = "PROCESSING"]
       \/ ~ (CanContinue(w) /\ Fenced(w)) /\ Step(w, m, "stopped") /\ UNCHANGED mat

WriteChunks(w, m) ==
    /\ wk[w].at = "run" /\ wk[w].m[m] = "embed" /\ MatOnly /\ UNCHANGED faults
    /\ \/ CanContinue(w) /\ Fenced(w) /\ Step(w, m, "written") /\ mat' = [mat EXCEPT ![m].by = w]
       \/ ~ (CanContinue(w) /\ Fenced(w)) /\ Step(w, m, "stopped") /\ UNCHANGED mat

MakeReady(w, m) ==
    /\ wk[w].at = "run" /\ wk[w].m[m] = "written" /\ MatOnly /\ UNCHANGED faults
    /\ \/ CanContinue(w) /\ Fenced(w) /\ Report(w, m, "ok") /\ mat' = [mat EXCEPT ![m].st = "READY"]
       \/ ~ (CanContinue(w) /\ Fenced(w)) /\ Step(w, m, "stopped") /\ UNCHANGED mat

\* The provider, or a statement, fails.
MaterialFails(w, m) ==
    /\ wk[w].at = "run" /\ wk[w].m[m] \in {"wait", "embed", "written"} /\ Fault
    /\ Step(w, m, IF CanContinue(w) THEN "failing" ELSE "stopped") /\ MatOnly /\ UNCHANGED mat

RecordFailure(w, m) ==
    /\ wk[w].at = "run" /\ wk[w].m[m] = "failing" /\ MatOnly
    /\ \/ Fenced(w) /\ Report(w, m, "bad") /\ mat' = [mat EXCEPT ![m].st = "FAILED"] /\ UNCHANGED faults
       \/ ~ Fenced(w) /\ Step(w, m, "stopped") /\ UNCHANGED <<mat, faults>>
       \/ Report(w, m, "bad") /\ Fault /\ UNCHANGED mat

------------------------------------------------------------------------------
(* executeClaimedReEmbedJob: progress, heartbeat and the end.               *)

Alive(w) == wk[w].at \notin {"none", "end"}
Lose(r) == [r EXCEPT !.owns = FALSE, !.lost = TRUE]

\* Progress writes of one worker are queued; one that succeeds sets ownsLease.
WriteProgress(w) ==
    LET n == Head(wk[w].q)
        rest == [wk[w] EXCEPT !.at = "run", !.q = Tail(@)] IN
    /\ wk[w].at \in {"start", "run"} /\ wk[w].q # <<>> /\ Free(wk[w].row)
    /\ \/ /\ Fenced(w) /\ UNCHANGED faults
          /\ row' = [row EXCEPT ![wk[w].row].done = n]
          /\ wk' = [wk EXCEPT ![w] = [rest EXCEPT !.owns = TRUE]]
       \/ ~ Fenced(w) /\ UNCHANGED <<row, faults>> /\ wk' = [wk EXCEPT ![w] = Lose(rest)]
       \/ Fault /\ UNCHANGED row /\ wk' = [wk EXCEPT ![w] = Lose(rest)]
    /\ UNCHANGED <<lock, marked, mat, claims, req, starts>>

\* A renewal that does not find the lease, or fails.
BeatLoses(w) ==
    /\ wk[w].at \in {"start", "run", "final", "error"} /\ wk[w].owns
    /\ \/ ~ Fenced(w) /\ Free(wk[w].row) /\ UNCHANGED faults
       \/ Fault
    /\ wk' = [wk EXCEPT ![w] = Lose(@)] /\ UNCHANGED <<row, lock, marked, mat, claims, req, starts>>

Settled(w) == wk[w].at = "run" /\ wk[w].q = <<>> /\ \A m \in Mats : wk[w].m[m] \in {"ok", "bad", "stopped"}
\* Mutant: one material is enough.
MutAllOk(w) == \E m \in Mats : wk[w].m[m] = "ok"
AllOk(w) == \A m \in Mats : wk[w].m[m] = "ok"
At(w, at) == wk' = [wk EXCEPT ![w].at = at] /\ UNCHANGED <<row, lock, marked, mat, claims, req, starts, faults>>

Ends(w) ==
    /\ Settled(w)
    /\ \/ (\E m \in Mats : wk[w].m[m] = "stopped") /\ At(w, "error")
       \/ ~ AllOk(w) /\ (\A m \in Mats : wk[w].m[m] # "stopped") /\ At(w, "final")
       \/ AllOk(w) /\ At(w, IF CanContinue(w) /\ Fenced(w) THEN "mark" ELSE "error")

\* The course row is written while the job's row stays locked.
MarkCourse(w) ==
    /\ wk[w].at = "mark" /\ lock = None
    /\ marked' = IF Fenced(w) THEN w ELSE marked
    /\ wk' = [wk EXCEPT ![w].at = IF Fenced(w) THEN "final" ELSE "error"]
    /\ UNCHANGED <<row, lock, mat, claims, req, starts, faults>>

\* The transaction of the course row, or the last write, fails.
EndFails(w) ==
    /\ wk[w].at \in {"mark", "final"} /\ Fault /\ wk' = [wk EXCEPT ![w].at = "error"]
    /\ UNCHANGED <<row, lock, marked, mat, claims, req, starts>>

EndRow(x, st) == [x EXCEPT !.st = st, !.owner = 0, !.lease = "none"]

Finalize(w) ==
    LET i == wk[w].row IN
    /\ wk[w].at = "final" /\ Free(i)
    /\ \/ ~ wk[w].owns /\ At(w, "error")
       \/ /\ wk[w].owns /\ wk' = [wk EXCEPT ![w] = [Idle EXCEPT !.at = "end"]]
          /\ row' = IF Fenced(w)
                    THEN [row EXCEPT ![i] = [EndRow(@, IF AllOk(w) THEN "COMPLETED" ELSE "PARTIAL")
                                                EXCEPT !.done = Oks(w)]]
                    ELSE row
          /\ UNCHANGED <<lock, marked, mat, claims, req, starts, faults>>

\* FAILED, unless the lease is known to be lost.
FailJob(w) ==
    LET i == wk[w].row IN
    /\ wk[w].at = "error" /\ Free(i) /\ wk' = [wk EXCEPT ![w] = [Idle EXCEPT !.at = "end"]]
    /\ row' = IF ~ wk[w].lost /\ Fenced(w) THEN [row EXCEPT ![i] = EndRow(@, "FAILED")] ELSE row
    /\ UNCHANGED <<lock, marked, mat, claims, req, starts, faults>>

WorkerDies(w) ==
    /\ Alive(w) /\ Fault /\ wk' = [wk EXCEPT ![w] = [Idle EXCEPT !.at = "end"]]
    /\ UNCHANGED <<row, lock, marked, mat, claims, req, starts>>

------------------------------------------------------------------------------
(* Time.                                                                    *)

Lapse(i) ==
    /\ row[i].lease = "live" /\ row' = [row EXCEPT ![i].lease = "past"]
    /\ UNCHANGED <<lock, marked, mat, wk, claims, req, starts, faults>>
\* Five minutes after its creation a job that is PENDING counts as stale.
GrowsOld(i) ==
    /\ row[i].st = "PENDING" /\ ~ row[i].aged /\ row' = [row EXCEPT ![i].aged = TRUE]
    /\ UNCHANGED <<lock, marked, mat, wk, claims, req, starts, faults>>
\* A day after its end a job no longer answers for its key.
ReplayEnds(i) ==
    /\ Exists(i) /\ row[i].st \notin Active /\ row[i].replayed
    /\ row' = [row EXCEPT ![i].replayed = FALSE]
    /\ UNCHANGED <<lock, marked, mat, wk, claims, req, starts, faults>>

Acquire(s) ==
    \/ (\E i \in Ids : Create(s, i)) \/ Recycle(s) \/ Attach(s) \/ Return(s) \/ AcquireFails(s)
Start(s) == Acquire(s) \/ StartClaims(s) \/ Check(s) \/ Compensate(s)
Work(w) ==
    \/ \E m \in Mats : BeginMaterial(w, m) \/ WriteChunks(w, m) \/ MakeReady(w, m) \/ RecordFailure(w, m)
    \/ WriteProgress(w) \/ Ends(w) \/ MarkCourse(w) \/ Finalize(w) \/ FailJob(w)

Next ==
    \/ \E s \in Requests :
          \/ \E k \in Keys \cup {None} : Lock(s, k)
          \/ Start(s) \/ ClaimFails(s) \/ CompensateFails(s) \/ RequestDies(s)
          \/ \E w \in Workers : Deadlock(s, w)
    \/ \E w \in Workers :
          Work(w) \/ (\E m \in Mats : MaterialFails(w, m)) \/ BeatLoses(w) \/ EndFails(w) \/ WorkerDies(w)
    \/ \E i \in Ids : Poll(i) \/ Lapse(i) \/ GrowsOld(i) \/ ReplayEnds(i)

Spec == Init /\ [][Next]_vars

\* Requests and workers go on, clients read the status of an active job again
\* and again, a deadlock is resolved and a dead worker's lease runs out.
LiveSpec ==
    /\ Spec
    /\ \A s \in Requests : WF_vars(Start(s) \/ \E w \in Workers : Deadlock(s, w))
    /\ \A w \in Workers : WF_vars(Work(w))
    /\ \A i \in Ids : WF_vars(Poll(i)) /\ WF_vars(Lapse(i) /\ ~ (row[i].owner \in Workers /\ Alive(row[i].owner)))

------------------------------------------------------------------------------
RowType == [st : {"none", "deleted", "PENDING", "RUNNING", "COMPLETED", "PARTIAL", "FAILED"},
            key : Keys \cup {None}, owner : {0} \cup Workers, lease : {"none", "live", "past"},
            aged : BOOLEAN, replayed : BOOLEAN, done : Nat]
WorkerType == [at : {"none", "start", "run", "mark", "final", "error", "end"}, row : Ids \cup {None},
               owns : BOOLEAN, lost : BOOLEAN,
               m : [Mats -> {"wait", "embed", "written", "failing", "ok", "bad", "stopped"}], q : Seq(Nat)]
ReqType == [at : {"idle", "locked", "claim", "check", "compensate", "answered"},
            key : Keys \cup {None}, row : Ids \cup {None}, made : BOOLEAN, active : BOOLEAN,
            plan : {"none", "create", "recycle", "attach", "return"}]
TypeOK ==
    /\ row \in [Ids -> RowType] /\ \A i \in Ids : (row[i].st = "RUNNING") = (row[i].owner # 0)
    /\ lock \in Requests \cup {None} /\ marked \in {0} \cup Workers
    /\ mat \in [Mats -> [st : {"READY", "PROCESSING", "FAILED"}, by : {0} \cup Workers]]
    /\ wk \in [Workers -> WorkerType] /\ claims \in 0..MaxClaims
    /\ req \in [Requests -> ReqType] /\ starts \in 0..MaxStarts /\ faults \in 0..MaxFaults

\* A course has one active job at most.
OneActive == \A i, j \in ActiveRows : i = j

\* A worker whose lease a later one has taken never overwrites the later one's
\* vectors, whichever jobs they work for.
NewestRunWins == [][\A m \in Mats : mat'[m].by >= mat[m].by]_vars

\* When the course is recorded as embedded, every material has the vectors of
\* the run that records it.
MarkedIsIndexed ==
    [][marked' # marked => \A m \in Mats : mat[m] = [st |-> "READY", by |-> marked']]_vars

\* Once the worker of a job has reported that it starts, the progress shown
\* never goes back while the job is its own.
ProgressGrows ==
    [][\A i \in Ids : row[i].owner # 0 /\ row'[i].owner = row[i].owner /\ wk[row[i].owner].at # "start"
          => row'[i].done >= row[i].done]_vars

\* A start that made the job is not answered while nobody has claimed it.
StartedIsScheduled ==
    [][\A s \in Requests : req[s].made /\ req[s].at # "answered" /\ req'[s].at = "answered"
          => row'[req[s].row].st \notin {"none", "deleted", "PENDING"}]_vars

\* A job whose status is read ends, unless its workers lose it again and again:
\* then every claim there may be has been made, and no lease is left.
JobEnds ==
    \A i \in Ids : i \in ActiveRows ~> (i \notin ActiveRows \/ (claims = MaxClaims /\ row[i].lease # "live"))
=============================================================================
