------------------------------ MODULE CronRuns ------------------------------
(***************************************************************************)
(* The execution lease of a Core cron run: the rows of cron_job_runs, the  *)
(* acquisition transaction, the heartbeat of the process that executes a   *)
(* run, the kill of a child whose lease is gone, the fenced terminal write *)
(* and the hand-over of administrator-triggered rows to the cron worker.   *)
(*                                                                         *)
(* Time is relative: `lease[r]` is what is left of the row's lease on the  *)
(* database clock (0: leaseExpiresAt <= now), and `hb`, `kill` and `poll`  *)
(* are what is left on the process's own timers.  Tick takes one unit from *)
(* each.  A row's leaseOwner is a fresh UUID written with the row and      *)
(* never again, so "the caller holds the owner token of row r" is the same *)
(* as "the caller executes r", and the model has no separate token.        *)
(***************************************************************************)
EXTENDS Integers, FiniteSets

CONSTANTS
    Runs,           \* ids a run can get (the bound on rows)
    Jobs,           \* names of KNOWN_CRON_JOBS
    ScriptJobs,     \* those with execution SCRIPT; the others are CORE
    Web,            \* Core web replicas with the web scheduler enabled
    Worker,         \* the dedicated cron worker
    Crashable,      \* processes that may crash
    Lease,          \* CRON_RUN_LEASE_MS
    Beat,           \* heartbeat interval, max(5 s, Lease / 3)
    Grace,          \* CRON_CHILD_KILL_GRACE_MS
    Poll,           \* the worker's reconcile interval
    Manual,         \* trigger sources of an administrator's run
    Timely,         \* TRUE: a live process runs its timers when they are due
    None

Hosts == Web \cup {Worker}
Sources == {"SCHEDULE"} \cup Manual
Terminal == {"SUCCESS", "ERROR"}

ASSUME CronConstants ==
    /\ ScriptJobs \subseteq Jobs
    /\ Worker \notin Web
    /\ Crashable \subseteq Hosts
    /\ Lease \in Nat \ {0} /\ Beat \in Nat \ {0} /\ Grace \in Nat \ {0} /\ Poll \in Nat \ {0}
    /\ Timely \in BOOLEAN
    /\ "SCHEDULE" \notin Manual
    /\ None \notin Jobs \cup Hosts

VARIABLES
    job, src, status, lease,    \* the rows
    phase,      \* what the process executing the run is doing
    host,       \* which process that is
    hb,         \* time to its next renewal, while beating
    beating,    \* its heartbeat timer is armed
    kill,       \* time to SIGKILL, in phase "term"
    result,     \* the outcome it will record
    tx,         \* startCronRun's transaction in progress, per job
    up, claimed, poll   \* live processes; the worker's claimed set and timer

rowVars == <<job, src, status, lease>>
execVars == <<phase, host, hb, beating, kill, result>>
vars == <<rowVars, execVars, tx, up, claimed, poll>>

NoTx == [stage |-> "none", host |-> None, src |-> "SCHEDULE", reap |-> {}]

Init ==
    /\ job = [r \in Runs |-> None] /\ src = [r \in Runs |-> "SCHEDULE"]
    /\ status = [r \in Runs |-> "NONE"] /\ lease = [r \in Runs |-> 0]
    /\ phase = [r \in Runs |-> "idle"] /\ host = [r \in Runs |-> None]
    /\ hb = [r \in Runs |-> 0] /\ beating = [r \in Runs |-> FALSE]
    /\ kill = [r \in Runs |-> 0] /\ result = [r \in Runs |-> "ERROR"]
    /\ tx = [j \in Jobs |-> NoTx]
    /\ up = Hosts /\ claimed = {} /\ poll = 0

-----------------------------------------------------------------------------
(* The rows.                                                               *)

Running(r) == status[r] = "RUNNING"
Expired(r) == Running(r) /\ lease[r] = 0
\* The fence of renewCronRunLease and finishCronRun.
Held(r) == Running(r) /\ lease[r] > 0

\* reapExpiredCronRunsWithDb: every run of R that is expired becomes ERROR.
StatusAfterReap(R) == [r \in Runs |-> IF r \in R /\ Expired(r) THEN "ERROR" ELSE status[r]]

\* Which process may trigger a run of job j, and from where.  CORE jobs are
\* scheduled by the worker alone; a web replica only records a manual run.
MayStart(h, j, s) ==
    IF s = "SCHEDULE" THEN h = Worker \/ j \in ScriptJobs ELSE h \in Web

\* Mutant: the start reaps nothing.
MutBeginStart(j, h, s) ==
    /\ h \in up /\ MayStart(h, j, s)
    /\ tx[j].stage = "none"
    /\ tx' = [tx EXCEPT ![j] = [stage |-> "find", host |-> h, src |-> s, reap |-> {}]]
    /\ UNCHANGED <<rowVars, execVars, up, claimed, poll>>

\* startCronRun takes the job's advisory lock and reaps.  The reap is seen by
\* others only when the transaction commits; until then tx holds it.
BeginStart(j, h, s) ==
    /\ h \in up /\ MayStart(h, j, s)
    /\ tx[j].stage = "none"
    /\ tx' = [tx EXCEPT ![j] = [stage |-> "find", host |-> h, src |-> s,
                                reap |-> {r \in Runs : job[r] = j /\ Expired(r)}]]
    /\ UNCHANGED <<rowVars, execVars, up, claimed, poll>>

\* A live run is found: the caller gets its id and starts nothing.
FoundRunning(j) ==
    /\ tx[j].stage = "find"
    /\ \E r \in Runs : job[r] = j /\ Held(r)
    /\ status' = StatusAfterReap(tx[j].reap)
    /\ tx' = [tx EXCEPT ![j] = NoTx]
    /\ UNCHANGED <<job, src, lease, execVars, up, claimed, poll>>

FoundNothing(j) ==
    /\ tx[j].stage = "find"
    /\ ~ \E r \in Runs : job[r] = j /\ Held(r)
    /\ tx' = [tx EXCEPT ![j].stage = "insert"]
    /\ UNCHANGED <<rowVars, execVars, up, claimed, poll>>

\* Mutant: the advisory lock alone, without the index.
MutUniqueViolation(j) == FALSE

\* The partial unique index cron_job_runs_one_running_per_jobName.
UniqueViolation(j) ==
    \E r \in Runs \ tx[j].reap : job[r] = j /\ Running(r)

\* triggerCronJobAsync: process h starts executing the runs of D.
Execute(D, h) ==
    /\ phase' = [r \in Runs |-> IF r \in D THEN "work" ELSE phase[r]]
    /\ host' = [r \in Runs |-> IF r \in D THEN h ELSE host[r]]
    /\ hb' = [r \in Runs |-> IF r \in D THEN Beat ELSE hb[r]]
    /\ beating' = [r \in Runs |-> r \in D \/ beating[r]]
    /\ UNCHANGED <<kill, result>>

\* The process that won the row executes it; a manual row is only recorded.
Insert(j, r) ==
    /\ tx[j].stage = "insert" /\ ~ UniqueViolation(j)
    /\ status[r] = "NONE"
    /\ job' = [job EXCEPT ![r] = j]
    /\ src' = [src EXCEPT ![r] = tx[j].src]
    /\ status' = [StatusAfterReap(tx[j].reap) EXCEPT ![r] = "RUNNING"]
    /\ lease' = [lease EXCEPT ![r] = Lease]
    /\ Execute(IF tx[j].src = "SCHEDULE" THEN {r} ELSE {}, tx[j].host)
    /\ tx' = [tx EXCEPT ![j] = NoTx]
    /\ UNCHANGED <<up, claimed, poll>>

RollBack(j) ==
    /\ tx' = [tx EXCEPT ![j] = NoTx]
    /\ UNCHANGED <<rowVars, execVars, up, claimed, poll>>

IndexRejects(j) == tx[j].stage = "insert" /\ UniqueViolation(j) /\ RollBack(j)

StartFails(j) == tx[j].stage \in {"find", "insert"} /\ RollBack(j)

\* Bound: no id is left for another row; only the reap takes effect.
InsertOutOfIds(j) ==
    /\ tx[j].stage = "insert" /\ ~ UniqueViolation(j)
    /\ \A r \in Runs : status[r] # "NONE"
    /\ status' = StatusAfterReap(tx[j].reap)
    /\ tx' = [tx EXCEPT ![j] = NoTx]
    /\ UNCHANGED <<job, src, lease, execVars, up, claimed, poll>>

-----------------------------------------------------------------------------
(* The process executing a run.                                            *)

\* dispatchManualCronRuns: the worker starts every recorded manual row that it
\* has not started before in its own lifetime.
Dispatchable == {r \in Runs : Running(r) /\ src[r] \in Manual /\ r \notin claimed}

\* Mutant: the worker does not remember what it started.
MutDispatch ==
    /\ Worker \in up /\ poll = 0
    /\ LET D == {r \in Runs : Running(r) /\ src[r] \in Manual}
       IN  Execute(D, Worker) /\ claimed' = claimed \cup D
    /\ poll' = Poll
    /\ UNCHANGED <<rowVars, tx, up>>

Dispatch ==
    /\ Worker \in up /\ poll = 0
    /\ Execute(Dispatchable, Worker)
    /\ claimed' = claimed \cup Dispatchable
    /\ poll' = Poll
    /\ UNCHANGED <<rowVars, tx, up>>

Executing(r) == phase[r] \in {"work", "term", "aborted"}
BeatDue(r) == Executing(r) /\ beating[r] /\ hb[r] = 0

\* Mutant: the lease is extended from its old end.
MutRenewOk(r) ==
    /\ BeatDue(r) /\ Held(r)
    /\ lease' = [lease EXCEPT ![r] = @ + Lease]
    /\ hb' = [hb EXCEPT ![r] = Beat]
    /\ UNCHANGED <<job, src, status, phase, host, beating, kill, result, tx, up, claimed, poll>>

\* A renewal the database confirms.
RenewOk(r) ==
    /\ BeatDue(r) /\ Held(r)
    /\ lease' = [lease EXCEPT ![r] = Lease]
    /\ hb' = [hb EXCEPT ![r] = Beat]
    /\ UNCHANGED <<job, src, status, phase, host, beating, kill, result, tx, up, claimed, poll>>

\* Mutant: a child is not killed; only the signal aborts, as a handler's does.
MutRenewLost(r, renewed) ==
    /\ BeatDue(r)
    /\ renewed => Held(r)
    /\ lease' = IF renewed THEN [lease EXCEPT ![r] = Lease] ELSE lease
    /\ beating' = [beating EXCEPT ![r] = FALSE]
    /\ phase' = [phase EXCEPT ![r] = "aborted"]
    /\ UNCHANGED <<job, src, status, host, hb, kill, result, tx, up, claimed, poll>>

\* A renewal it does not confirm: the fence rejects it, or the query fails
\* (`renewed`: after it took effect).  The heartbeat stops; a child gets
\* SIGTERM, unless it already did, and a CORE handler only sees its signal abort.
RenewLost(r, renewed) ==
    /\ BeatDue(r)
    /\ renewed => Held(r)
    /\ lease' = IF renewed THEN [lease EXCEPT ![r] = Lease] ELSE lease
    /\ beating' = [beating EXCEPT ![r] = FALSE]
    /\ IF job[r] \in ScriptJobs
         THEN /\ phase' = [phase EXCEPT ![r] = "term"]
              /\ kill' = IF phase[r] = "work" THEN [kill EXCEPT ![r] = Grace] ELSE kill
         ELSE /\ phase' = [phase EXCEPT ![r] = "aborted"]
              /\ UNCHANGED kill
    /\ UNCHANGED <<job, src, status, host, hb, result, tx, up, claimed, poll>>

\* The child wrote more than CRON_OUTPUT_MAX_BYTES.  Its heartbeat goes on.
Terminate(r) ==
    /\ phase[r] = "work" /\ job[r] \in ScriptJobs
    /\ phase' = [phase EXCEPT ![r] = "term"]
    /\ kill' = [kill EXCEPT ![r] = Grace]
    /\ UNCHANGED <<rowVars, host, hb, beating, result, tx, up, claimed, poll>>

\* The child closes, or the handler settles.  A child that was told to stop
\* records ERROR whatever its exit code.
Exit(r, res) ==
    /\ Executing(r)
    /\ phase[r] = "term" => res = "ERROR"
    /\ phase' = [phase EXCEPT ![r] = "finishing"]
    /\ beating' = [beating EXCEPT ![r] = FALSE]
    /\ hb' = [hb EXCEPT ![r] = 0]
    /\ kill' = [kill EXCEPT ![r] = 0]
    /\ result' = [result EXCEPT ![r] = res]
    /\ UNCHANGED <<rowVars, host, tx, up, claimed, poll>>

\* Mutant: the terminal write by id alone.
MutRecord(r) ==
    /\ status' = [status EXCEPT ![r] = result[r]]
    /\ lease' = [lease EXCEPT ![r] = 0]

\* finishCronRun's statement: fenced on the live lease.
Record(r) ==
    IF Held(r)
      THEN /\ status' = [status EXCEPT ![r] = result[r]]
           /\ lease' = [lease EXCEPT ![r] = 0]
      ELSE UNCHANGED <<status, lease>>

\* The process is done with the run.
Gone(r) ==
    /\ phase' = [phase EXCEPT ![r] = "idle"]
    /\ host' = [host EXCEPT ![r] = None]
    /\ result' = [result EXCEPT ![r] = "ERROR"]

Finish(r) ==
    /\ phase[r] = "finishing"
    /\ Record(r) /\ Gone(r)
    /\ UNCHANGED <<job, src, hb, beating, kill, tx, up, claimed, poll>>

\* The terminal write throws (`applied`: after it took effect).  A child's is
\* logged and given up; a CORE handler's success is then recorded as a failure.
FinishFails(r, applied) ==
    /\ phase[r] = "finishing"
    /\ IF applied THEN Record(r) ELSE UNCHANGED <<status, lease>>
    /\ IF job[r] \notin ScriptJobs /\ result[r] = "SUCCESS"
         THEN result' = [result EXCEPT ![r] = "ERROR"] /\ UNCHANGED <<phase, host>>
         ELSE Gone(r)
    /\ UNCHANGED <<job, src, hb, beating, kill, tx, up, claimed, poll>>

-----------------------------------------------------------------------------
(* Processes and time.                                                     *)

\* A process dies with everything it was doing, its children included (systemd
\* kills the control group).  Its transactions roll back; its rows stay RUNNING.
Crash(h) ==
    /\ h \in up \cap Crashable
    /\ up' = up \ {h}
    /\ phase' = [r \in Runs |-> IF host[r] = h THEN "crashed" ELSE phase[r]]
    /\ host' = [r \in Runs |-> IF host[r] = h THEN None ELSE host[r]]
    /\ hb' = [r \in Runs |-> IF host[r] = h THEN 0 ELSE hb[r]]
    /\ beating' = [r \in Runs |-> beating[r] /\ host[r] # h]
    /\ kill' = [r \in Runs |-> IF host[r] = h THEN 0 ELSE kill[r]]
    /\ result' = [r \in Runs |-> IF host[r] = h THEN "ERROR" ELSE result[r]]
    /\ tx' = [j \in Jobs |-> IF tx[j].host = h THEN NoTx ELSE tx[j]]
    /\ claimed' = IF h = Worker THEN {} ELSE claimed
    /\ poll' = IF h = Worker THEN 0 ELSE poll
    /\ UNCHANGED rowVars

\* A web replica reaps as its scheduler starts; the worker reconciles at once.
Boot(h) ==
    /\ h \in Hosts \ up
    /\ up' = up \cup {h}
    /\ status' = IF h \in Web THEN StatusAfterReap(Runs) ELSE status
    /\ UNCHANGED <<job, src, lease, execVars, tx, claimed, poll>>

Down(n) == IF n > 0 THEN n - 1 ELSE 0

\* A live process that runs its timers on time leaves none due.
NothingDue ==
    /\ \A r \in Runs : ~ BeatDue(r) /\ ~ (phase[r] = "term" /\ kill[r] = 0)
    /\ Worker \in up => poll > 0

Tick ==
    /\ Timely => NothingDue
    /\ lease' = [r \in Runs |-> Down(lease[r])]
    /\ hb' = [r \in Runs |-> Down(hb[r])]
    /\ kill' = [r \in Runs |-> Down(kill[r])]
    /\ poll' = Down(poll)
    /\ UNCHANGED <<job, src, status, phase, host, beating, result, tx, up, claimed>>

StartStep(j) ==
    \/ \E h \in Hosts, s \in Sources : BeginStart(j, h, s)
    \/ FoundRunning(j) \/ FoundNothing(j)
    \/ \E r \in Runs : Insert(j, r)
    \/ IndexRejects(j) \/ StartFails(j) \/ InsertOutOfIds(j)

ExecStep(r) ==
    \/ RenewOk(r)
    \/ \E b \in BOOLEAN : RenewLost(r, b)
    \/ Terminate(r)
    \/ \E res \in Terminal : Exit(r, res)
    \/ Finish(r)
    \/ \E b \in BOOLEAN : FinishFails(r, b)

Next ==
    \/ \E j \in Jobs : StartStep(j)
    \/ Dispatch
    \/ \E r \in Runs : ExecStep(r)
    \/ \E h \in Hosts : Crash(h) \/ Boot(h)
    \/ Tick

Spec == Init /\ [][Next]_vars

-----------------------------------------------------------------------------
(* Fairness: time passes; node-cron fires a job's timer on every live       *)
(* scheduler again and again and pg_advisory_xact_lock queues its waiters,  *)
(* so a start that keeps being possible happens (strong), and its database  *)
(* statements do not fail every time (strong); a handler or child ends (a   *)
(* child has a 10-minute timeout) and a terminal write is tried.  Nothing   *)
(* is assumed of crashes, restarts, renewals or manual triggers.            *)
Fairness ==
    /\ WF_vars(Tick) /\ WF_vars(Dispatch)
    /\ \A j \in Jobs :
         /\ \A h \in Hosts \ Crashable : SF_vars(BeginStart(j, h, "SCHEDULE"))
         /\ SF_vars(FoundRunning(j)) /\ SF_vars(FoundNothing(j))
         /\ SF_vars(IndexRejects(j) \/ InsertOutOfIds(j) \/ \E r \in Runs : Insert(j, r))
    /\ \A r \in Runs :
         /\ WF_vars(\E res \in Terminal : Exit(r, res))
         /\ WF_vars(Finish(r) \/ FinishFails(r, FALSE))

LiveSpec == Spec /\ Fairness

TypeOK ==
    /\ job \in [Runs -> Jobs \cup {None}] /\ src \in [Runs -> Sources]
    /\ status \in [Runs -> {"NONE", "RUNNING"} \cup Terminal]
    /\ lease \in [Runs -> 0..Lease]
    /\ phase \in [Runs -> {"idle", "work", "term", "aborted", "finishing", "crashed"}]
    /\ host \in [Runs -> Hosts \cup {None}]
    /\ hb \in [Runs -> 0..Beat] /\ beating \in [Runs -> BOOLEAN]
    /\ kill \in [Runs -> 0..Grace] /\ result \in [Runs -> Terminal]
    /\ tx \in [Jobs -> [stage : {"none", "find", "insert"}, host : Hosts \cup {None},
                        src : Sources, reap : SUBSET Runs]]
    /\ up \subseteq Hosts /\ claimed \subseteq Runs /\ poll \in 0..Poll

\* One RUNNING row per job, whatever starters, reapers and crashes do: the
\* promise of the acquisition transaction and of the partial unique index.
OneRunningPerJob ==
    \A r, s \in Runs : Running(r) /\ Running(s) /\ job[r] = job[s] => r = s

\* A row that is SUCCESS or ERROR is audit history: no late heartbeat, late
\* completion, reaper or dispatcher changes its outcome or gives it a lease
\* ("An old process cannot renew or finish a run", docs/CRON_JOBS.md).
HistoryIsFinal ==
    [][\A r \in Runs : status[r] \in Terminal =>
          status'[r] = status[r] /\ lease'[r] <= lease[r]]_vars

\* Two children of one job never run at the same time, not even while one is
\* being terminated: the reason a lost lease kills the child.
ScriptsNeverOverlap ==
    \A r, s \in Runs : Executing(r) /\ Executing(s) /\ job[r] = job[s]
                        /\ job[r] \in ScriptJobs => r = s

\* An in-process handler cannot be killed, but two of one job never run unless
\* all but one of them have had their signal aborted.
NoUnwarnedOverlap ==
    \A r, s \in Runs : phase[r] = "work" /\ phase[s] = "work" /\ job[r] = job[s] => r = s

\* A run whose process is gone does not hold its job for ever: unless a process
\* crashes again and again, its lease runs out and the next start reaps it.
CrashesEnd == \A h \in Crashable : <>[](h \in up) \/ <>[](h \notin up)
NoRunStaysRunning == CrashesEnd => \A r \in Runs : Running(r) ~> ~ Running(r)
=============================================================================
