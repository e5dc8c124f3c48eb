--------------------------- MODULE CronRunsProofs ---------------------------
(* Proofs about CronRuns, for every set of runs, jobs and processes.        *)
EXTENDS CronRuns, TLAPS

(***************************************************************************)
(* What holds of the rows whatever the timers do.                          *)
(***************************************************************************)

\* What a transaction in progress is about to reap has really expired.
ReapIsExpired ==
    \A j \in Jobs : \A r \in tx[j].reap : lease[r] = 0 /\ status[r] # "NONE"

RowInv == TypeOK /\ ReapIsExpired /\ OneRunningPerJob

\* Every variable keeps its type: in particular no lease or timer goes below 0
\* or above its configured length.
LEMMA TypeInit == Init => TypeOK
  BY CronConstants DEF Init, TypeOK, NoTx, Hosts, Sources, Terminal

\* Reaping yields statuses, and touches no row that is not expired.
LEMMA ReapType ==
  ASSUME TypeOK, NEW R
  PROVE  /\ StatusAfterReap(R) \in [Runs -> {"NONE", "RUNNING"} \cup Terminal]
         /\ \A r \in Runs : ~ Expired(r) => StatusAfterReap(R)[r] = status[r]
         /\ \A r \in Runs : StatusAfterReap(R)[r] = "RUNNING" => Running(r)
         /\ \A r \in Runs : StatusAfterReap(R)[r] = "NONE" <=> status[r] = "NONE"
         /\ \A r \in R \cap Runs : Expired(r) => StatusAfterReap(R)[r] = "ERROR"
  BY DEF TypeOK, StatusAfterReap, Terminal, Expired, Running

ExecType ==
    /\ phase \in [Runs -> {"idle", "work", "term", "aborted", "finishing", "crashed"}]
    /\ host \in [Runs -> Hosts \cup {None}]
    /\ hb \in [Runs -> 0..Beat] /\ beating \in [Runs -> BOOLEAN]
    /\ kill \in [Runs -> 0..Grace] /\ result \in [Runs -> Terminal]

\* The handlers keep their types when a run is dispatched (triggerCronJobAsync).
LEMMA ExecuteType ==
  ASSUME TypeOK, NEW D, NEW h \in Hosts \cup {None}, Execute(D, h)
  PROVE  ExecType'
<1>1. Beat \in 0..Beat
  BY CronConstants
<1> QED BY <1>1 DEF TypeOK, ExecType, Execute

\* Every step keeps the types.
LEMMA TypeStep == TypeOK /\ [Next]_vars => TypeOK'
<1> SUFFICES ASSUME TypeOK, [Next]_vars PROVE TypeOK'
  OBVIOUS
<1> USE CronConstants DEF TypeOK, Sources, Terminal
<1>1. ASSUME NEW j \in Jobs, StartStep(j) PROVE TypeOK'
  <2>1. ASSUME NEW h \in Hosts, NEW s \in Sources, BeginStart(j, h, s) PROVE TypeOK'
    BY <2>1 DEF BeginStart, rowVars, execVars
  <2>2. CASE FoundRunning(j)
    BY <2>2 DEF FoundRunning, StatusAfterReap, NoTx, execVars
  <2>3. CASE FoundNothing(j)
    BY <2>3 DEF FoundNothing, rowVars, execVars
  <2>4. ASSUME NEW r \in Runs, Insert(j, r) PROVE TypeOK'
    <3>1. tx[j].host \in Hosts \cup {None} /\ tx[j].src \in Sources
      OBVIOUS
    <3>2. /\ job' \in [Runs -> Jobs \cup {None}] /\ src' \in [Runs -> Sources]
          /\ status' \in [Runs -> {"NONE", "RUNNING"} \cup Terminal]
          /\ lease' \in [Runs -> 0..Lease]
      BY <2>4, <3>1, ReapType DEF Insert
    <3> QED BY <2>4, <3>1, <3>2, ExecuteType DEF Insert, ExecType, NoTx
  <2>5. CASE IndexRejects(j) \/ StartFails(j)
    BY <2>5 DEF IndexRejects, StartFails, RollBack, NoTx, rowVars, execVars
  <2>6. CASE InsertOutOfIds(j)
    BY <2>6 DEF InsertOutOfIds, StatusAfterReap, NoTx, execVars
  <2> QED BY <1>1, <2>1, <2>2, <2>3, <2>4, <2>5, <2>6 DEF StartStep
<1>2. CASE Dispatch
  <2>1. ExecType'
    BY <1>2, ExecuteType DEF Dispatch
  <2> QED BY <1>2, <2>1 DEF Dispatch, Dispatchable, ExecType, rowVars
<1>3. ASSUME NEW r \in Runs, ExecStep(r) PROVE TypeOK'
  <2>1. CASE RenewOk(r)
    BY <2>1 DEF RenewOk
  <2>2. ASSUME NEW b \in BOOLEAN, RenewLost(r, b) PROVE TypeOK'
    BY <2>2 DEF RenewLost
  <2>3. CASE Terminate(r)
    BY <2>3 DEF Terminate, rowVars
  <2>4. ASSUME NEW res \in Terminal, Exit(r, res) PROVE TypeOK'
    BY <2>4 DEF Exit, rowVars
  <2>5. CASE Finish(r)
    BY <2>5 DEF Finish, Record, Gone
  <2>6. ASSUME NEW b \in BOOLEAN, FinishFails(r, b) PROVE TypeOK'
    <3>1. status' \in [Runs -> {"NONE", "RUNNING"} \cup Terminal] /\ lease' \in [Runs -> 0..Lease]
      BY <2>6 DEF FinishFails, Record
    <3>2. /\ phase' \in [Runs -> {"idle", "work", "term", "aborted", "finishing", "crashed"}]
          /\ host' \in [Runs -> Hosts \cup {None}] /\ result' \in [Runs -> Terminal]
      BY <2>6 DEF FinishFails, Gone
    <3>3. UNCHANGED <<job, src, hb, beating, kill, tx, up, claimed, poll>>
      BY <2>6 DEF FinishFails
    <3> QED BY <3>1, <3>2, <3>3
  <2> QED BY <1>3, <2>1, <2>2, <2>3, <2>4, <2>5, <2>6 DEF ExecStep
<1>4. ASSUME NEW h \in Hosts, Crash(h) PROVE TypeOK'
  BY <1>4 DEF Crash, NoTx, rowVars
<1>5. ASSUME NEW h \in Hosts, Boot(h) PROVE TypeOK'
  BY <1>5 DEF Boot, StatusAfterReap, execVars
<1>6. CASE Tick
  BY <1>6 DEF Tick, Down
<1>7. CASE UNCHANGED vars
  BY <1>7 DEF vars, rowVars, execVars
<1> QED BY <1>1, <1>2, <1>3, <1>4, <1>5, <1>6, <1>7 DEF Next

\* Apart from an insert and the start of a transaction, a step leaves every
\* transaction or drops it, makes no row RUNNING, renews only live leases and
\* uses no fresh id.
Falls ==
    /\ \A j \in Jobs : tx'[j].reap \in {{}, tx[j].reap}
    /\ \A r \in Runs : /\ Running(r)' => Running(r)
                       /\ (status'[r] = "NONE") = (status[r] = "NONE")
                       /\ job'[r] = job[r]
                       /\ lease[r] = 0 => lease'[r] = 0

\* Such a step keeps at most one row RUNNING per job.
LEMMA FallsKeepsRowInv ==
  ASSUME RowInv, TypeOK', Falls
  PROVE  RowInv'
<1>1. ASSUME NEW j \in Jobs, NEW r \in tx'[j].reap PROVE lease'[r] = 0 /\ status'[r] # "NONE"
  <2>1. r \in tx[j].reap
    BY <1>1 DEF Falls
  <2>2. r \in Runs
    BY <2>1 DEF RowInv, TypeOK
  <2> QED BY <2>1, <2>2 DEF RowInv, ReapIsExpired, Falls
<1>2. OneRunningPerJob'
  BY DEF RowInv, OneRunningPerJob, Falls
<1> QED BY <1>1, <1>2 DEF RowInv, ReapIsExpired

\* Every step but the start of a transaction and its insert is of that kind.
LEMMA MostStepsFall ==
  ASSUME TypeOK, [Next]_vars
  PROVE  \/ Falls
         \/ \E j \in Jobs, h \in Hosts, s \in Sources : BeginStart(j, h, s)
         \/ \E j \in Jobs, r \in Runs : Insert(j, r)
<1> USE DEF TypeOK, Falls, Running, NoTx
<1>1. ASSUME NEW j \in Jobs, FoundRunning(j) \/ InsertOutOfIds(j) PROVE Falls
  BY <1>1, ReapType DEF FoundRunning, InsertOutOfIds
<1>2. ASSUME NEW j \in Jobs, FoundNothing(j) \/ IndexRejects(j) \/ StartFails(j) PROVE Falls
  BY <1>2 DEF FoundNothing, IndexRejects, StartFails, RollBack, rowVars
<1>3. CASE Dispatch
  BY <1>3 DEF Dispatch, rowVars
<1>4. ASSUME NEW r \in Runs, RenewOk(r) PROVE Falls
  BY <1>4 DEF RenewOk, Held
<1>5. ASSUME NEW r \in Runs, NEW b \in BOOLEAN, RenewLost(r, b) PROVE Falls
  BY <1>5 DEF RenewLost, Held
<1>6. ASSUME NEW r \in Runs, NEW res \in Terminal, Terminate(r) \/ Exit(r, res) PROVE Falls
  BY <1>6 DEF Terminate, Exit, rowVars
<1>7. ASSUME NEW r \in Runs, NEW b \in BOOLEAN, Finish(r) \/ FinishFails(r, b) PROVE Falls
  BY <1>7 DEF Finish, FinishFails, Record, Held, Terminal
<1>8. ASSUME NEW h \in Hosts, Crash(h) PROVE Falls
  BY <1>8 DEF Crash, rowVars
<1>9. ASSUME NEW h \in Hosts, Boot(h) PROVE Falls
  BY <1>9, ReapType DEF Boot
<1>10. CASE Tick
  BY <1>10 DEF Tick, Down
<1>11. CASE UNCHANGED vars
  BY <1>11 DEF vars, rowVars
<1> QED
  BY <1>1, <1>2, <1>3, <1>4, <1>5, <1>6, <1>7, <1>8, <1>9, <1>10, <1>11
     DEF Next, StartStep, ExecStep

\* No run exists at first.
LEMMA RowInvInit == Init => RowInv
  BY TypeInit DEF Init, RowInv, ReapIsExpired, OneRunningPerJob, Running, NoTx

\* The insert is where a second RUNNING row could appear: what it reaps is
\* expired, and the unique index excludes every other RUNNING row of the job.
LEMMA RowInvStep == RowInv /\ [Next]_vars => RowInv'
<1> SUFFICES ASSUME RowInv, [Next]_vars PROVE RowInv'
  OBVIOUS
<1>1. TypeOK /\ TypeOK'
  BY TypeStep DEF RowInv
<1>2. ASSUME NEW j \in Jobs, NEW h \in Hosts, NEW s \in Sources, BeginStart(j, h, s)
      PROVE  RowInv'
  BY <1>1, <1>2 DEF BeginStart, RowInv, ReapIsExpired, OneRunningPerJob, Running, Expired,
                    TypeOK, rowVars
<1>3. ASSUME NEW j \in Jobs, NEW r \in Runs, Insert(j, r) PROVE RowInv'
  <2> DEFINE S == StatusAfterReap(tx[j].reap)
  <2>1. /\ job' = [job EXCEPT ![r] = j] /\ lease' = [lease EXCEPT ![r] = Lease]
        /\ status' = [S EXCEPT ![r] = "RUNNING"] /\ tx' = [tx EXCEPT ![j] = NoTx]
        /\ status[r] = "NONE" /\ ~ UniqueViolation(j)
    BY <1>3 DEF Insert
  <2>2. \A q \in Runs : /\ S[q] = "RUNNING" => Running(q)
                        /\ S[q] = "NONE" <=> status[q] = "NONE"
    BY <1>1, ReapType
  <2>3. \A q \in Runs : job[q] = j => S[q] # "RUNNING"
    <3> SUFFICES ASSUME NEW q \in Runs, job[q] = j, S[q] = "RUNNING" PROVE FALSE
      OBVIOUS
    <3>1. Running(q) /\ q \in tx[j].reap
      BY <2>1, <2>2 DEF UniqueViolation
    <3>2. Expired(q)
      BY <3>1 DEF RowInv, ReapIsExpired, Expired
    <3> QED BY <1>1, <3>1, <3>2, ReapType
  <2>4. ReapIsExpired'
    <3> SUFFICES ASSUME NEW k \in Jobs, NEW q \in tx'[k].reap
                 PROVE  lease'[q] = 0 /\ status'[q] # "NONE"
      BY DEF ReapIsExpired
    <3>1. k # j /\ q \in tx[k].reap /\ q \in Runs
      BY <1>1, <2>1 DEF NoTx, TypeOK
    <3>2. q # r
      BY <2>1, <3>1 DEF RowInv, ReapIsExpired
    <3>3. S \in [Runs -> {"NONE", "RUNNING"} \cup Terminal]
      BY <1>1, ReapType
    <3> QED BY <1>1, <2>1, <2>2, <3>1, <3>2, <3>3 DEF RowInv, ReapIsExpired, TypeOK
  <2>5. OneRunningPerJob'
    <3>1. S \in [Runs -> {"NONE", "RUNNING"} \cup Terminal]
      BY <1>1, ReapType
    <3> QED BY <1>1, <2>1, <2>2, <2>3, <3>1 DEF RowInv, OneRunningPerJob, Running, TypeOK
  <2> QED BY <1>1, <2>4, <2>5 DEF RowInv
<1> QED BY <1>1, <1>2, <1>3, MostStepsFall, FallsKeepsRowInv

\* At most one RUNNING row per job, whatever crashes, stalls and restarts do to
\* the processes that start, renew and reap runs (startCronRun).
THEOREM RunningIsUnique == Spec => []RowInv
<1> QED BY RowInvInit, RowInvStep, PTL DEF Spec

\* Rows, executions, transactions and timers stay well formed: no timer or lease
\* ever passes its configured length.
THEOREM TypeTheorem == Spec => []TypeOK
<1> QED BY TypeInit, TypeStep, PTL DEF Spec

\* The part of it the runs check: the partial unique index of the cron rows lets
\* no second RUNNING row of a job in.
THEOREM OneRunningTheorem == Spec => [](TypeOK /\ OneRunningPerJob)
<1>1. RowInv => TypeOK /\ OneRunningPerJob
  BY DEF RowInv
<1> QED BY RunningIsUnique, <1>1, PTL

(***************************************************************************)
(* What the timers add: a process that runs its timers when they are due   *)
(* and a lease long enough for the slowest way to a renewal.               *)
(***************************************************************************)

\* The first renewal comes Beat after a scheduled run starts, and a child that
\* is told to stop has Grace left.
OnTime == Timely /\ Beat + Grace < Lease

\* The lease of a run that is executed outlives its next renewal by the time it
\* takes to kill the child.
LeaseCovers(r) ==
    /\ phase[r] = "work" => Running(r) /\ beating[r]
    /\ phase[r] = "term" => Running(r) /\ lease[r] > kill[r]
    /\ beating[r] => phase[r] \in {"work", "term"} /\ lease[r] > hb[r] + Grace
    /\ phase[r] = "aborted" => job[r] \notin ScriptJobs
    /\ status[r] = "NONE" => phase[r] = "idle" /\ host[r] = None

\* A run in "work" or "term" is beyond the reach of a reaper.
LEMMA CoveredRunsAreHeld ==
  ASSUME TypeOK, NEW r \in Runs, LeaseCovers(r), phase[r] \in {"work", "term"}
  PROVE  Running(r) /\ lease[r] > 0 /\ ~ Expired(r) /\ Held(r)
<1>1. lease[r] \in Nat /\ hb[r] \in Nat /\ kill[r] \in Nat /\ Grace \in Nat
  BY CronConstants DEF TypeOK
<1>2. Running(r) /\ lease[r] > 0
  BY <1>1 DEF LeaseCovers
<1> QED BY <1>2 DEF Expired, Held

\* Reaping, recording and time aside, what a step needs to keep of a run it
\* does not touch.
Undisturbed(r) ==
    /\ phase'[r] = phase[r] /\ host'[r] = host[r] /\ hb'[r] = hb[r]
    /\ beating'[r] = beating[r] /\ kill'[r] = kill[r]
    /\ job'[r] = job[r] /\ src'[r] = src[r] /\ lease'[r] = lease[r]
    /\ Running(r)' => Running(r)
    /\ Running(r) /\ lease[r] > 0 => Running(r)'
    /\ (status'[r] = "NONE") = (status[r] = "NONE")

\* What covers a run still covers it after a step that leaves the run alone.
LEMMA UndisturbedKeeps ==
  ASSUME TypeOK, NEW r \in Runs, LeaseCovers(r), Undisturbed(r)
  PROVE  LeaseCovers(r)'
<1>1. phase[r] \in {"work", "term"} => Running(r)'
  BY CoveredRunsAreHeld DEF Undisturbed
<1> QED BY <1>1 DEF LeaseCovers, Undisturbed

\* A step of the acquisition transaction other than the insert of r leaves r
\* alone: it reaps expired rows only.
LEMMA StartUndisturbs ==
  ASSUME TypeOK, NEW j \in Jobs, StartStep(j), NEW r \in Runs, ~ Insert(j, r)
  PROVE  Undisturbed(r)
<1> USE DEF TypeOK
<1>1. ASSUME NEW h \in Hosts, NEW s \in Sources, BeginStart(j, h, s) PROVE Undisturbed(r)
  BY <1>1 DEF BeginStart, Undisturbed, Running, rowVars, execVars
<1>2. CASE FoundNothing(j) \/ IndexRejects(j) \/ StartFails(j)
  BY <1>2 DEF FoundNothing, IndexRejects, StartFails, RollBack, Undisturbed, Running,
              rowVars, execVars
<1>3. CASE FoundRunning(j) \/ InsertOutOfIds(j)
  BY <1>3, ReapType DEF FoundRunning, InsertOutOfIds, Undisturbed, Running, Expired, execVars
<1>4. ASSUME NEW q \in Runs, Insert(j, q) PROVE Undisturbed(r)
  <2>1. q # r
    BY <1>4
  <2> QED BY <1>4, <2>1, ReapType DEF Insert, Undisturbed, Execute, Running, Expired
<1> QED BY <1>1, <1>2, <1>3, <1>4 DEF StartStep

\* A run begins with a full lease, and a process that executes it at once with
\* a full heartbeat.
LEMMA CoverInsert ==
  ASSUME OnTime, TypeOK, NEW j \in Jobs, NEW r \in Runs, Insert(j, r), LeaseCovers(r)
  PROVE  LeaseCovers(r)' /\ lease'[r] = Lease
<1> USE DEF TypeOK
<1> DEFINE S == StatusAfterReap(tx[j].reap)
<1>1. /\ lease' = [lease EXCEPT ![r] = Lease] /\ status' = [S EXCEPT ![r] = "RUNNING"]
      /\ Execute(IF tx[j].src = "SCHEDULE" THEN {r} ELSE {}, tx[j].host)
      /\ status[r] = "NONE"
  BY DEF Insert
<1>2. phase[r] = "idle" /\ ~ beating[r]
  BY <1>1 DEF LeaseCovers
<1>3. Running(r)' /\ lease'[r] = Lease /\ status'[r] = "RUNNING"
  BY <1>1, ReapType DEF Running
<1>4. \/ phase'[r] = "work" /\ beating'[r] /\ hb'[r] = Beat
      \/ phase'[r] = "idle" /\ beating'[r] = FALSE
  BY <1>1, <1>2 DEF Execute
<1>5. Lease > Beat + Grace
  BY CronConstants DEF OnTime
<1> QED BY <1>3, <1>4, <1>5 DEF LeaseCovers

\* The process executing q leaves every other run alone.
LEMMA ExecUndisturbs ==
  ASSUME TypeOK, NEW q \in Runs, ExecStep(q), NEW r \in Runs \ {q}
  PROVE  Undisturbed(r)
<1> USE DEF TypeOK
<1>1. ASSUME NEW b \in BOOLEAN, RenewOk(q) \/ RenewLost(q, b) PROVE Undisturbed(r)
  BY <1>1 DEF RenewOk, RenewLost, Undisturbed, Running
<1>2. ASSUME NEW res \in Terminal, Terminate(q) \/ Exit(q, res) PROVE Undisturbed(r)
  BY <1>2 DEF Terminate, Exit, Undisturbed, Running, rowVars
<1>3. ASSUME NEW b \in BOOLEAN, Finish(q) \/ FinishFails(q, b) PROVE Undisturbed(r)
  BY <1>3 DEF Finish, FinishFails, Record, Gone, Undisturbed, Running
<1> QED BY <1>1, <1>2, <1>3 DEF ExecStep

\* Renewals, their losses, the kill and the end of a child keep the lease ahead
\* of the handler, and a row that is still RUNNING loses none of its lease.
LEMMA CoverExec ==
  ASSUME OnTime, TypeOK, TypeOK', NEW r \in Runs, ExecStep(r), LeaseCovers(r)
  PROVE  LeaseCovers(r)' /\ (Running(r)' => Running(r) /\ lease'[r] >= lease[r])
<1> USE DEF TypeOK
<1>n. Beat + Grace < Lease /\ lease[r] \in 0..Lease /\ 0..Lease \subseteq Int
  BY CronConstants DEF OnTime
<1>1. CASE RenewOk(r)
  BY <1>1, <1>n, CronConstants DEF RenewOk, LeaseCovers, Running, Held, BeatDue
<1>2. ASSUME NEW b \in BOOLEAN, RenewLost(r, b)
      PROVE  LeaseCovers(r)' /\ (Running(r)' => Running(r) /\ lease'[r] >= lease[r])
  <2>1. phase[r] \in {"work", "term"} /\ beating[r] /\ hb[r] = 0
    BY <1>2 DEF RenewLost, BeatDue, LeaseCovers
  <2>2. Running(r) /\ lease[r] > Grace /\ lease'[r] >= lease[r]
    BY <1>2, <2>1, CronConstants DEF RenewLost, LeaseCovers
  <2>3. status' = status /\ job' = job /\ host' = host /\ beating'[r] = FALSE
    BY <1>2 DEF RenewLost
  <2>4. status[r] = "RUNNING" /\ Running(r)'
    BY <2>2, <2>3 DEF Running
  <2>5. CASE job[r] \in ScriptJobs
    <3>1. phase'[r] = "term" /\ kill'[r] \in 0..Grace
      BY <1>2, <2>5 DEF RenewLost
    <3>2. lease'[r] > kill'[r]
      BY <2>2, <3>1, CronConstants
    <3> QED BY <2>2, <2>3, <2>4, <3>1, <3>2 DEF LeaseCovers
  <2>6. CASE job[r] \notin ScriptJobs
    BY <1>2, <2>2, <2>3, <2>4, <2>6 DEF RenewLost, LeaseCovers
  <2> QED BY <2>5, <2>6
<1>3. CASE Terminate(r)
  <2>1. Running(r) /\ lease[r] > Grace
    BY <1>3, CronConstants DEF Terminate, LeaseCovers
  <2> QED BY <1>3, <2>1, <1>n DEF Terminate, LeaseCovers, Running, rowVars
<1>4. ASSUME NEW res \in Terminal, Exit(r, res)
      PROVE  LeaseCovers(r)' /\ (Running(r)' => Running(r) /\ lease'[r] >= lease[r])
  BY <1>4, <1>n DEF Exit, Executing, LeaseCovers, Running, rowVars
<1>5. ASSUME NEW b \in BOOLEAN, Finish(r) \/ FinishFails(r, b)
      PROVE  LeaseCovers(r)' /\ (Running(r)' => Running(r) /\ lease'[r] >= lease[r])
  <2>1. /\ phase[r] = "finishing" /\ phase'[r] \in {"finishing", "idle"}
        /\ beating' = beating /\ job' = job
    BY <1>5 DEF Finish, FinishFails, Gone
  <2>2. \/ UNCHANGED <<status, lease>>
        \/ Held(r) /\ status'[r] = result[r]
    BY <1>5 DEF Finish, FinishFails, Record
  <2>3. status'[r] # "NONE" /\ (Running(r)' => status[r] = "RUNNING" /\ lease'[r] = lease[r])
    BY <2>1, <2>2 DEF LeaseCovers, Terminal, Held, Running
  <2> QED BY <1>n, <2>1, <2>3 DEF LeaseCovers, Running
<1> QED BY <1>1, <1>2, <1>3, <1>4, <1>5 DEF ExecStep

\* A process that dies takes its handlers with it; one that boots reaps expired
\* rows only.
LEMMA CoverCrashBoot ==
  ASSUME TypeOK, NEW h \in Hosts, Crash(h) \/ Boot(h), NEW r \in Runs, LeaseCovers(r)
  PROVE  LeaseCovers(r)'
<1> USE DEF TypeOK
<1>1. CASE Crash(h) /\ host[r] = h
  <2>1. h # None
    BY CronConstants
  <2>2. phase'[r] = "crashed" /\ beating'[r] = FALSE /\ status[r] # "NONE"
    BY <1>1, <2>1 DEF Crash, LeaseCovers
  <2> QED BY <1>1, <2>2 DEF Crash, LeaseCovers, Running, rowVars
<1>2. CASE Crash(h) /\ host[r] # h
  <2>1. Undisturbed(r)
    BY <1>2 DEF Crash, Undisturbed, Running, rowVars
  <2> QED BY <2>1, UndisturbedKeeps
<1>3. CASE Boot(h)
  <2>1. Undisturbed(r)
    BY <1>3, ReapType DEF Boot, Undisturbed, Running, Expired, execVars
  <2> QED BY <2>1, UndisturbedKeeps
<1> QED BY <1>1, <1>2, <1>3

\* Every timer of a covered run is positive when time passes, so the lease and
\* the timer lose the same unit.
LEMMA CoverTick ==
  ASSUME OnTime, TypeOK, Tick, NEW r \in Runs, LeaseCovers(r)
  PROVE  LeaseCovers(r)'
<1> USE DEF TypeOK
<1>1. /\ NothingDue /\ UNCHANGED <<job, status, phase, host, beating>>
      /\ lease'[r] = Down(lease[r]) /\ hb'[r] = Down(hb[r]) /\ kill'[r] = Down(kill[r])
  BY DEF Tick, OnTime
<1>2. lease[r] \in Nat /\ hb[r] \in Nat /\ kill[r] \in Nat /\ Grace \in Nat
  BY CronConstants
<1>3. phase[r] = "term" => kill[r] > 0
  BY <1>1, <1>2 DEF NothingDue
<1>4. beating[r] => hb[r] > 0
  BY <1>1, <1>2 DEF NothingDue, BeatDue, Executing, LeaseCovers
<1>5. phase[r] = "term" => lease'[r] > kill'[r]
  BY <1>1, <1>2, <1>3 DEF Down, LeaseCovers
<1>6. beating[r] => lease'[r] > hb'[r] + Grace
  BY <1>1, <1>2, <1>4 DEF Down, LeaseCovers
<1> QED BY <1>1, <1>5, <1>6 DEF LeaseCovers, Running

\* A covered run stays covered, unless it is the worker's reconciliation that
\* starts to execute it.
LEMMA CoverStep ==
  ASSUME OnTime, TypeOK, TypeOK', [Next]_vars, NEW r \in Runs, LeaseCovers(r),
         Dispatch => r \notin Dispatchable
  PROVE  LeaseCovers(r)'
<1>1. ASSUME NEW j \in Jobs, StartStep(j) PROVE LeaseCovers(r)'
  BY <1>1, StartUndisturbs, UndisturbedKeeps, CoverInsert
<1>2. CASE Dispatch
  <2>1. Undisturbed(r)
    BY <1>2 DEF Dispatch, Execute, Undisturbed, Running, rowVars, TypeOK
  <2> QED BY <2>1, UndisturbedKeeps
<1>3. ASSUME NEW q \in Runs, ExecStep(q) PROVE LeaseCovers(r)'
  BY <1>3, ExecUndisturbs, UndisturbedKeeps, CoverExec
<1>4. CASE UNCHANGED vars
  <2>1. Undisturbed(r)
    BY <1>4 DEF vars, rowVars, execVars, Undisturbed, Running
  <2> QED BY <2>1, UndisturbedKeeps
<1> QED BY <1>1, <1>2, <1>3, <1>4, CoverCrashBoot, CoverTick DEF Next

(***************************************************************************)
(* The scheduled runs: they are executed by the process that inserts them, *)
(* so neither the worker's crashes nor its reconcile interval matter.      *)
(***************************************************************************)

ScheduledInv ==
    \A r \in Runs : /\ src[r] = "SCHEDULE" => LeaseCovers(r)
                    /\ status[r] = "NONE" => src[r] = "SCHEDULE"

\* Every scheduled run stays covered whoever crashes, and an id that is not used
\* yet is covered as one.
LEMMA ScheduledStep == OnTime /\ TypeOK /\ ScheduledInv /\ [Next]_vars => ScheduledInv'
<1> SUFFICES ASSUME OnTime, TypeOK, ScheduledInv, [Next]_vars, NEW r \in Runs
             PROVE  /\ src'[r] = "SCHEDULE" => LeaseCovers(r)'
                    /\ status'[r] = "NONE" => src'[r] = "SCHEDULE"
  BY DEF ScheduledInv
<1> USE DEF TypeOK
<1>1. \/ src'[r] = src[r] /\ (status'[r] = "NONE" => status[r] = "NONE")
      \/ status[r] = "NONE" /\ status'[r] = "RUNNING"
  <2>1. ASSUME NEW j \in Jobs, StartStep(j), ~ Insert(j, r)
        PROVE  src'[r] = src[r] /\ (status'[r] = "NONE" => status[r] = "NONE")
    BY <2>1, StartUndisturbs DEF Undisturbed
  <2>2. ASSUME NEW j \in Jobs, Insert(j, r) PROVE status[r] = "NONE" /\ status'[r] = "RUNNING"
    BY <2>2, ReapType DEF Insert
  <2>3. ASSUME NEW q \in Runs, ExecStep(q)
        PROVE  src'[r] = src[r] /\ (status'[r] = "NONE" => status[r] = "NONE")
    BY <2>3 DEF ExecStep, RenewOk, RenewLost, Terminate, Exit, Finish, FinishFails, Record,
                Terminal, rowVars
  <2>4. ASSUME NEW h \in Hosts, Crash(h) \/ Boot(h)
        PROVE  src'[r] = src[r] /\ (status'[r] = "NONE" => status[r] = "NONE")
    BY <2>4, ReapType DEF Crash, Boot, rowVars
  <2>5. CASE Dispatch \/ Tick \/ UNCHANGED vars
    BY <2>5 DEF Dispatch, Tick, vars, rowVars
  <2> QED BY <2>1, <2>2, <2>3, <2>4, <2>5 DEF Next
<1>2. src'[r] = "SCHEDULE" => LeaseCovers(r)
  BY <1>1 DEF ScheduledInv
<1>3. ASSUME src'[r] = "SCHEDULE", Dispatch PROVE r \notin Dispatchable
  BY <1>3, CronConstants DEF Dispatch, Dispatchable, rowVars
<1>4. src'[r] = "SCHEDULE" => LeaseCovers(r)'
  BY <1>2, <1>3, TypeStep, CoverStep
<1> QED BY <1>1, <1>4 DEF ScheduledInv

\* Two runs of one job that the schedules started, and what of them may not
\* happen at once.
ScheduledOverlap(r, s) ==
    /\ src[r] = "SCHEDULE" /\ src[s] = "SCHEDULE" /\ job[r] = job[s]
    /\ \/ Executing(r) /\ Executing(s) /\ job[r] \in ScriptJobs
       \/ phase[r] = "work" /\ phase[s] = "work"

\* However often any process crashes, the cron worker included, and however long
\* manual rows wait, two scheduled runs of a job never have two children at once
\* nor two handlers that were not told to stop (triggerCronJobAsync).
THEOREM ScheduledRunsTheorem ==
  ASSUME OnTime
  PROVE  Spec => [](\A r, s \in Runs : ScheduledOverlap(r, s) => r = s)
<1>1. Init => ScheduledInv
  BY DEF Init, ScheduledInv, LeaseCovers
<1>2. RowInv /\ ScheduledInv /\ [Next]_vars => ScheduledInv'
  BY ScheduledStep DEF RowInv
<1>3. RowInv /\ ScheduledInv => \A r, s \in Runs : ScheduledOverlap(r, s) => r = s
  BY DEF RowInv, OneRunningPerJob, ScheduledInv, LeaseCovers, ScheduledOverlap, Executing
<1> QED BY <1>1, <1>2, <1>3, RunningIsUnique, PTL DEF Spec

\* So where nobody triggers a run by hand, no two children of a job ever overlap.
THEOREM UntriggeredTheorem ==
  ASSUME OnTime, Manual = {}
  PROVE  Spec => [](ScriptsNeverOverlap /\ NoUnwarnedOverlap)
<1>1. TypeOK /\ (\A r, s \in Runs : ScheduledOverlap(r, s) => r = s)
      => ScriptsNeverOverlap /\ NoUnwarnedOverlap
  BY DEF TypeOK, Sources, ScheduledOverlap, ScriptsNeverOverlap, NoUnwarnedOverlap
<1> QED BY <1>1, ScheduledRunsTheorem, TypeTheorem, PTL

(***************************************************************************)
(* The rows that wait for the worker.                                      *)
(***************************************************************************)

\* A manual row waits up to Poll for the worker, the first renewal comes Beat
\* later, and a child that is told to stop has Grace left.
TimelyCron == Timely /\ Worker \notin Crashable /\ Poll + Beat + Grace < Lease

\* A manual row that waits for the worker has used up no more of its lease than
\* the worker has of its reconcile interval.
LeaseWaits(r) == r \in Dispatchable => lease[r] >= Lease - Poll + poll

ExclusionInv ==
    /\ Worker \in up
    /\ \A r \in Runs : LeaseCovers(r) /\ LeaseWaits(r)

\* At first the worker is up and no run exists to be covered.
LEMMA ExclusionInit == TimelyCron /\ Init => ExclusionInv
  BY CronConstants DEF Init, ExclusionInv, LeaseCovers, LeaseWaits, Dispatchable, Running,
                       Hosts, TimelyCron

\* A row just started has waited at most one poll.
LEMMA WaitedLittle == \A q \in 0..Poll : Lease >= Lease - Poll + q
  BY CronConstants

\* A row that waits keeps its lease through every step but the passing of time
\* and the reconciliation that ends the wait.
LEMMA WaitStep ==
  ASSUME TimelyCron, TypeOK, TypeOK', ExclusionInv, [Next]_vars, NEW r \in Runs
  PROVE  LeaseWaits(r)'
<1> USE DEF TypeOK
<1>0. LeaseCovers(r) /\ LeaseWaits(r) /\ OnTime
  BY CronConstants DEF ExclusionInv, TimelyCron, OnTime
<1>1. ASSUME src'[r] = src[r], Running(r)' => Running(r) /\ lease'[r] >= lease[r],
             UNCHANGED <<claimed, poll>>
      PROVE  LeaseWaits(r)'
  <2>1. r \in Dispatchable' => r \in Dispatchable /\ lease'[r] >= lease[r]
    BY <1>1 DEF Dispatchable
  <2> QED BY <1>0, <1>1, <2>1, CronConstants DEF LeaseWaits
<1>2. ASSUME Undisturbed(r), UNCHANGED <<claimed, poll>> PROVE LeaseWaits(r)'
  BY <1>1, <1>2, CronConstants DEF Undisturbed
<1>3. ASSUME NEW j \in Jobs, StartStep(j) PROVE LeaseWaits(r)'
  <2>1. UNCHANGED <<claimed, poll>>
    BY <1>3 DEF StartStep, BeginStart, FoundRunning, FoundNothing, Insert, IndexRejects,
                StartFails, RollBack, InsertOutOfIds
  <2>2. CASE Insert(j, r)
    <3>1. lease'[r] = Lease /\ Lease >= Lease - Poll + poll'
      BY <1>0, <2>2, CoverInsert, WaitedLittle
    <3> QED BY <3>1 DEF LeaseWaits
  <2> QED BY <1>2, <1>3, <2>1, <2>2, StartUndisturbs
<1>4. CASE Dispatch
  <2>1. claimed' = claimed \cup Dispatchable /\ UNCHANGED rowVars
    BY <1>4 DEF Dispatch
  <2> QED BY <2>1 DEF LeaseWaits, Dispatchable, Running, rowVars
<1>5. ASSUME NEW q \in Runs, ExecStep(q) PROVE LeaseWaits(r)'
  <2>1. UNCHANGED <<src, claimed, poll>>
    BY <1>5 DEF ExecStep, RenewOk, RenewLost, Terminate, Exit, Finish, FinishFails, rowVars
  <2>2. CASE q = r
    BY <1>0, <1>1, <1>5, <2>1, <2>2, CoverExec
  <2> QED BY <1>2, <1>5, <2>1, <2>2, ExecUndisturbs
<1>6. ASSUME NEW h \in Hosts, Crash(h) PROVE LeaseWaits(r)'
  <2>1. h # Worker
    BY <1>6 DEF Crash, TimelyCron
  <2> QED BY <1>1, <1>6, <2>1, CronConstants DEF Crash, Running, rowVars
<1>7. ASSUME NEW h \in Hosts, Boot(h) PROVE LeaseWaits(r)'
  <2>1. Undisturbed(r)
    BY <1>7, ReapType DEF Boot, Undisturbed, Running, Expired, execVars
  <2> QED BY <1>2, <1>7, <2>1 DEF Boot
<1>8. CASE Tick
  <2>1. /\ poll > 0 /\ UNCHANGED <<src, status, claimed>>
        /\ poll' = Down(poll) /\ lease'[r] = Down(lease[r])
    BY <1>8, CronConstants DEF Tick, TimelyCron, NothingDue, ExclusionInv
  <2>2. poll \in Nat /\ poll' = poll - 1 /\ lease[r] \in Nat
    BY <2>1, CronConstants DEF Down
  <2>3. r \in Dispatchable' => r \in Dispatchable
    BY <2>1 DEF Dispatchable, Running
  <2>4. ASSUME r \in Dispatchable PROVE lease'[r] >= Lease - Poll + poll'
    <3>1. lease[r] >= Lease - Poll + poll /\ Lease - Poll > 0
      BY <1>0, <2>4, CronConstants DEF LeaseWaits, TimelyCron
    <3>2. lease'[r] = lease[r] - 1
      BY <2>1, <2>2, <3>1, CronConstants DEF Down
    <3> QED BY <2>2, <3>1, <3>2, CronConstants
  <2> QED BY <2>3, <2>4 DEF LeaseWaits
<1>9. CASE UNCHANGED vars
  BY <1>1, <1>9, CronConstants DEF vars, rowVars, Running
<1> QED BY <1>3, <1>4, <1>5, <1>6, <1>7, <1>8, <1>9 DEF Next

\* The handler of a row begins with the lease its wait in the queue left it.
LEMMA CoverDispatch ==
  ASSUME TimelyCron, TypeOK, ExclusionInv, Dispatch, NEW r \in Dispatchable
  PROVE  LeaseCovers(r)'
<1> USE DEF TypeOK
<1>1. /\ Execute(Dispatchable, Worker) /\ UNCHANGED rowVars /\ poll = 0
      /\ r \in Runs /\ LeaseWaits(r)
  BY DEF Dispatch, Dispatchable, ExclusionInv
<1>2. /\ Running(r)' /\ status'[r] = "RUNNING" /\ lease'[r] = lease[r]
      /\ phase'[r] = "work" /\ beating'[r] /\ hb'[r] = Beat
  BY <1>1 DEF Execute, Dispatchable, Running, rowVars
<1>3. lease[r] >= Lease - Poll
  BY <1>1, CronConstants DEF LeaseWaits
<1>4. lease'[r] > hb'[r] + Grace
  <2>1. Lease - Poll > Beat + Grace /\ lease[r] \in Int
    BY <1>1, CronConstants DEF TimelyCron
  <2> QED BY <1>2, <1>3, <2>1, CronConstants
<1> QED BY <1>2, <1>4 DEF LeaseCovers

\* Under TimelyCron every step keeps the lease of a run ahead of its handler.
LEMMA ExclusionStep == TimelyCron /\ TypeOK /\ ExclusionInv /\ [Next]_vars => ExclusionInv'
<1> SUFFICES ASSUME TimelyCron, TypeOK, ExclusionInv, [Next]_vars PROVE ExclusionInv'
  OBVIOUS
<1>1. TypeOK' /\ OnTime
  BY TypeStep, CronConstants DEF TimelyCron, OnTime
<1>2. Worker \in up'
  <2>1. ASSUME NEW j \in Jobs, StartStep(j) PROVE up' = up
    BY <2>1 DEF StartStep, BeginStart, FoundRunning, FoundNothing, Insert, IndexRejects,
                StartFails, RollBack, InsertOutOfIds
  <2>2. ASSUME NEW q \in Runs, ExecStep(q) PROVE up' = up
    BY <2>2 DEF ExecStep, RenewOk, RenewLost, Terminate, Exit, Finish, FinishFails
  <2>3. ASSUME NEW h \in Hosts, Crash(h) \/ Boot(h) PROVE Worker \in up'
    BY <2>3 DEF Crash, Boot, TimelyCron, ExclusionInv
  <2> QED BY <2>1, <2>2, <2>3 DEF Next, Dispatch, Tick, vars, ExclusionInv
<1>3. ASSUME NEW r \in Runs PROVE LeaseCovers(r)' /\ LeaseWaits(r)'
  BY <1>1, CoverStep, CoverDispatch, WaitStep DEF ExclusionInv
<1> QED BY <1>2, <1>3 DEF ExclusionInv

\* Two executions that matter are of RUNNING rows, and those are unique per job.
LEMMA ExclusionFromInv == RowInv /\ ExclusionInv => ScriptsNeverOverlap /\ NoUnwarnedOverlap
  BY DEF RowInv, OneRunningPerJob, ExclusionInv, LeaseCovers, ScriptsNeverOverlap,
         NoUnwarnedOverlap, Executing

\* With timers that fire when due and Poll + Beat + Grace < Lease, no two
\* children of a job ever run at once and no two handlers run unwarned: the
\* database lease excludes double execution (triggerCronJobAsync).
THEOREM ExclusionTheorem ==
  ASSUME TimelyCron
  PROVE  Spec => [](ScriptsNeverOverlap /\ NoUnwarnedOverlap)
<1>1. Init => ExclusionInv
  BY ExclusionInit
<1>2. RowInv /\ ExclusionInv /\ [Next]_vars => ExclusionInv'
  BY ExclusionStep DEF RowInv
<1> QED BY <1>1, <1>2, RunningIsUnique, ExclusionFromInv, PTL DEF Spec

\* In particular a Core handler, which cannot be killed, has been told to stop before
\* the next run of its job begins (the abort signal of triggerCronJobAsync).
THEOREM UnwarnedTheorem ==
  ASSUME TimelyCron
  PROVE  Spec => []NoUnwarnedOverlap
BY ExclusionTheorem, PTL

(***************************************************************************)
(* What the worker remembers of its dispatches.                            *)
(***************************************************************************)

\* Some process is executing r, or about to record its outcome.
Busy(r) == phase[r] \in {"work", "term", "aborted", "finishing"}

\* A reconciliation touches no run that a process is executing.
DispatchSparesBusy ==
    [][Dispatch => \A r \in Runs : Busy(r) =>
          UNCHANGED <<phase[r], host[r], hb[r], beating[r]>>]_vars

\* A manual run is executed by the worker alone, which remembers that it is.
WorkerKnows(r) ==
    /\ status[r] = "NONE" => phase[r] = "idle" /\ host[r] = None
    /\ Busy(r) /\ src[r] \in Manual => host[r] = Worker /\ r \in claimed

WorkerInv == \A r \in Runs : WorkerKnows(r)

\* The memory outlives every run it is about: a crash of the worker ends both.
LEMMA WorkerStep == TypeOK /\ WorkerInv /\ [Next]_vars => WorkerInv'
<1> SUFFICES ASSUME TypeOK, WorkerInv, [Next]_vars, NEW r \in Runs
             PROVE  WorkerKnows(r)'
  BY DEF WorkerInv
<1> USE DEF TypeOK, WorkerKnows
<1>0. ASSUME Undisturbed(r), claimed \subseteq claimed' PROVE WorkerKnows(r)'
  BY <1>0 DEF Undisturbed, WorkerInv, Busy
<1>1. ASSUME NEW j \in Jobs, StartStep(j), ~ Insert(j, r) PROVE WorkerKnows(r)'
  <2>1. UNCHANGED claimed
    BY <1>1 DEF StartStep, BeginStart, FoundRunning, FoundNothing, Insert, IndexRejects,
                StartFails, RollBack, InsertOutOfIds
  <2> QED BY <1>0, <1>1, <2>1, StartUndisturbs
<1>2. ASSUME NEW j \in Jobs, Insert(j, r) PROVE WorkerKnows(r)'
  <2>1. /\ status'[r] = "RUNNING" /\ src'[r] = tx[j].src /\ phase[r] = "idle"
        /\ phase'[r] = IF tx[j].src = "SCHEDULE" THEN "work" ELSE phase[r]
    BY <1>2, ReapType DEF Insert, Execute, WorkerInv
  <2> QED BY <2>1, CronConstants DEF Busy
<1>3. CASE Dispatch
  BY <1>3, CronConstants DEF Dispatch, Execute, Dispatchable, Running, Busy, WorkerInv, rowVars
<1>4. ASSUME NEW q \in Runs, ExecStep(q) PROVE WorkerKnows(r)'
  <2>1. UNCHANGED <<src, claimed>>
    BY <1>4 DEF ExecStep, RenewOk, RenewLost, Terminate, Exit, Finish, FinishFails, rowVars
  <2>2. CASE q = r
    <3>1. Busy(r) /\ status[r] # "NONE"
      BY <1>4, <2>2 DEF ExecStep, RenewOk, RenewLost, BeatDue, Terminate, Exit, Executing,
                        Finish, FinishFails, Busy, WorkerInv
    <3>2. status'[r] # "NONE"
      BY <1>4, <2>2, <3>1 DEF ExecStep, RenewOk, RenewLost, Terminate, Exit, Finish,
                              FinishFails, Record, Terminal, rowVars
    <3>3. host'[r] = host[r] \/ phase'[r] = "idle"
      BY <1>4, <2>2 DEF ExecStep, RenewOk, RenewLost, Terminate, Exit, Finish, FinishFails, Gone
    <3> QED BY <2>1, <3>1, <3>2, <3>3 DEF Busy, WorkerInv
  <2> QED BY <1>0, <1>4, <2>1, <2>2, ExecUndisturbs
<1>5. ASSUME NEW h \in Hosts, Crash(h) PROVE WorkerKnows(r)'
  <2>1. UNCHANGED rowVars /\ h # None
    BY <1>5, CronConstants DEF Crash
  <2> QED BY <1>5, <2>1 DEF Crash, Busy, WorkerInv, rowVars
<1>6. ASSUME NEW h \in Hosts, Boot(h) PROVE WorkerKnows(r)'
  BY <1>6, ReapType DEF Boot, execVars, Busy, WorkerInv
<1>7. CASE Tick
  BY <1>7 DEF Tick, Busy, WorkerInv
<1>8. CASE UNCHANGED vars
  BY <1>8 DEF vars, rowVars, execVars, Busy, WorkerInv
<1> QED BY <1>1, <1>2, <1>3, <1>4, <1>5, <1>6, <1>7, <1>8 DEF Next

\* The worker keeps what it dispatched in its memory alone, and that is enough: with
\* any crashes and any timers it never starts a run that is being executed, by
\* itself before a restart or by anybody (dispatchManualCronRuns).
THEOREM DispatchTheorem == Spec => DispatchSparesBusy
<1>1. Init => WorkerInv
  BY DEF Init, WorkerInv, WorkerKnows, Busy
<1>2. TypeOK /\ WorkerInv /\ [Next]_vars => [Dispatch => \A r \in Runs : Busy(r) =>
                       UNCHANGED <<phase[r], host[r], hb[r], beating[r]>>]_vars
  <2> SUFFICES ASSUME WorkerInv, TypeOK, Dispatch, NEW r \in Runs, Busy(r)
               PROVE  UNCHANGED <<phase[r], host[r], hb[r], beating[r]>>
    OBVIOUS
  <2>1. r \notin Dispatchable
    BY DEF WorkerInv, WorkerKnows, Dispatchable
  <2> QED BY <2>1 DEF Dispatch, Execute, TypeOK
<1>3. TypeOK /\ WorkerInv /\ [Next]_vars => WorkerInv'
  BY WorkerStep
<1> QED BY <1>1, <1>2, <1>3, TypeTheorem, PTL DEF Spec, DispatchSparesBusy

\* Terminal rows are final (finishCronRun, renewCronRunLease, the reaper).
THEOREM HistoryTheorem == Spec => HistoryIsFinal
<1> DEFINE Final == \A r \in Runs : status[r] \in Terminal =>
                       status'[r] = status[r] /\ lease'[r] <= lease[r]
<1>1. TypeOK /\ [Next]_vars => [Final]_vars
  <2> SUFFICES ASSUME TypeOK, Next, NEW r \in Runs, status[r] \in Terminal
               PROVE  status'[r] = status[r] /\ lease'[r] <= lease[r]
    OBVIOUS
  <2> USE DEF TypeOK
  <2>1. ~ Running(r) /\ status[r] # "NONE" /\ lease[r] \in Nat
    BY CronConstants DEF Running, Terminal
  <2>2. ASSUME NEW j \in Jobs, StartStep(j) PROVE status'[r] = status[r] /\ lease'[r] = lease[r]
    <3>1. ASSUME NEW h \in Hosts, NEW s \in Sources, BeginStart(j, h, s)
          PROVE  status'[r] = status[r] /\ lease'[r] = lease[r]
      BY <3>1 DEF BeginStart, rowVars
    <3>2. CASE FoundRunning(j) \/ InsertOutOfIds(j)
      BY <2>1, <3>2, ReapType DEF FoundRunning, InsertOutOfIds, Expired
    <3>3. CASE FoundNothing(j) \/ IndexRejects(j) \/ StartFails(j)
      BY <3>3 DEF FoundNothing, IndexRejects, StartFails, RollBack, rowVars
    <3>4. ASSUME NEW q \in Runs, Insert(j, q) PROVE status'[r] = status[r] /\ lease'[r] = lease[r]
      BY <2>1, <3>4, ReapType DEF Insert, Expired
    <3> QED BY <2>2, <3>1, <3>2, <3>3, <3>4 DEF StartStep
  <2>3. ASSUME NEW q \in Runs, ExecStep(q) PROVE status'[r] = status[r] /\ lease'[r] = lease[r]
    <3>1. ASSUME NEW b \in BOOLEAN, RenewOk(q) \/ RenewLost(q, b) PROVE status'[r] = status[r] /\ lease'[r] = lease[r]
      BY <2>1, <3>1 DEF RenewOk, RenewLost, Held, Running
    <3>2. ASSUME NEW res \in Terminal, Terminate(q) \/ Exit(q, res) PROVE status'[r] = status[r] /\ lease'[r] = lease[r]
      BY <3>2 DEF Terminate, Exit, rowVars
    <3>3. ASSUME NEW b \in BOOLEAN, Finish(q) \/ FinishFails(q, b) PROVE status'[r] = status[r] /\ lease'[r] = lease[r]
      BY <2>1, <3>3 DEF Finish, FinishFails, Record, Held, Running
    <3> QED BY <2>3, <3>1, <3>2, <3>3 DEF ExecStep
  <2>4. ASSUME NEW h \in Hosts, Crash(h) \/ Boot(h) PROVE status'[r] = status[r] /\ lease'[r] = lease[r]
    BY <2>1, <2>4, ReapType DEF Crash, Boot, Expired, rowVars
  <2>5. CASE Dispatch
    BY <2>1, <2>5 DEF Dispatch, rowVars
  <2>6. CASE Tick
    BY <2>1, <2>6 DEF Tick, Down
  <2> QED BY <2>1, <2>2, <2>3, <2>4, <2>5, <2>6 DEF Next
<1> QED BY <1>1, OneRunningTheorem, PTL DEF Spec, HistoryIsFinal
=============================================================================
