-------------------------- MODULE ReEmbedJobsProofs --------------------------
(* Proofs about ReEmbedJobs, for every set of jobs, start requests, keys and *)
(* materials, and every number of claims, starts and faults.                 *)
EXTENDS ReEmbedJobs, FiniteSetTheorems, SequenceTheorems, TLAPS

\* A request past the choice of its job, and a worker, have a job.
Placed ==
    /\ \A s \in Requests : req[s].at \in {"claim", "check", "compensate"}
                           \/ req[s].plan \in {"recycle", "attach", "return"} => req[s].row \in Ids
    /\ \A w \in Workers : Alive(w) => wk[w].row \in Ids

\* A job that runs is the last claim's.
LatestOwns == \A i \in Ids : row[i].st = "RUNNING" => row[i].owner = claims

\* No vectors are newer than the last claim.
VectorsKnown == \A m \in Mats : mat[m].by <= claims

\* What the last claim has written is still there.
LatestStands ==
    \A w \in Workers : w = claims =>
        \A m \in Mats : /\ wk[w].m[m] = "written" => mat[m].by = w
                        /\ wk[w].m[m] = "ok" => mat[m] = [st |-> "READY", by |-> w]

\* Only a worker with every material indexed records the course.
MarkersDone == \A w \in Workers : wk[w].at = "mark" => \A m \in Mats : wk[w].m[m] = "ok"

\* A request that holds the course row has not made a job yet.
HoldersEmpty == \A s \in Requests : req[s].at = "locked" => ~ req[s].made

IInv ==
    TypeOK /\ Placed /\ OneActive /\ LatestOwns /\ VectorsKnown /\ LatestStands /\ MarkersDone
    /\ HoldersEmpty

Phases == {"wait", "embed", "written", "failing", "ok", "bad", "stopped"}

------------------------------------------------------------------------------
(* Types of what the actions write.                                          *)

\* A fresh worker, and a request that has not started, are well formed.
LEMMA FreshTypes ==
  ASSUME NEW i \in Ids \cup {None}, NEW at \in {"start", "end"},
         NEW rat \in {"idle", "locked", "claim", "check", "compensate", "answered"}, NEW made \in BOOLEAN
  PROVE  /\ [Idle EXCEPT !.at = at, !.row = i, !.owns = TRUE, !.q = <<0>>] \in WorkerType
         /\ [Idle EXCEPT !.at = "end"] \in WorkerType /\ Idle \in WorkerType
         /\ [NewReq EXCEPT !.at = rat, !.row = i, !.made = made] \in ReqType /\ NewReq \in ReqType
         /\ NoRow \in RowType
<1>1. <<0>> \in Seq(Nat) /\ <<>> \in Seq(Nat)
  OBVIOUS
<1>2. Idle \in WorkerType /\ [Idle EXCEPT !.at = "end"] \in WorkerType
  BY <1>1 DEF Idle, WorkerType
<1>3. [Idle EXCEPT !.at = at, !.row = i, !.owns = TRUE, !.q = <<0>>] \in WorkerType
  BY <1>1 DEF Idle, WorkerType
<1>4. NewReq \in ReqType /\ [NewReq EXCEPT !.at = rat, !.row = i, !.made = made] \in ReqType
  BY DEF NewReq, ReqType
<1>5. NoRow \in RowType
  BY DEF NoRow, RowType
<1> QED BY <1>2, <1>3, <1>4, <1>5

\* A request that goes on is well formed, and has the job it is given.
LEMMA GoOnType ==
  ASSUME TypeOK, NEW s \in Requests, NEW i \in Ids \cup {None}, NEW made \in BOOLEAN,
         NEW at \in {"idle", "locked", "claim", "check", "compensate", "answered"}, GoOn(s, at, i, made)
  PROVE  /\ req' \in [Requests -> ReqType]
         /\ req'[s].at = at /\ req'[s].row = i /\ req'[s].made = made /\ req'[s].plan = "none"
         /\ \A t \in Requests \ {s} : req'[t] = req[t]
<1>1. [NewReq EXCEPT !.at = at, !.row = i, !.made = made] \in ReqType
  BY FreshTypes
<1>2. req' = [req EXCEPT ![s] = [NewReq EXCEPT !.at = at, !.row = i, !.made = made]]
  BY DEF GoOn
<1> QED BY <1>1, <1>2 DEF TypeOK, NewReq

\* A claim makes the next worker and gives it the job.
LEMMA ClaimType ==
  ASSUME TypeOK, NEW i \in Ids, NEW at \in {"start", "end"}, Claim(i, at)
  PROVE  /\ row' \in [Ids -> RowType] /\ wk' \in [Workers -> WorkerType] /\ claims' \in 0..MaxClaims
         /\ claims' = claims + 1 /\ claims' \in Workers
         /\ row'[i].st = "RUNNING" /\ row'[i].owner = claims' /\ \A j \in Ids \ {i} : row'[j] = row[j]
         /\ wk'[claims'].at = at /\ wk'[claims'].row = i /\ \A m \in Mats : wk'[claims'].m[m] = "wait"
         /\ \A w \in Workers \ {claims'} : wk'[w] = wk[w]
<1>1. claims' = claims + 1 /\ claims' \in Workers /\ claims' \in 0..MaxClaims
  BY ReEmbedConstants DEF Claim, TypeOK, Workers
<1>2. row[i] \in RowType
  BY DEF TypeOK
<1>3. [row[i] EXCEPT !.st = "RUNNING", !.owner = claims + 1, !.lease = "live"] \in RowType
  BY <1>1, <1>2 DEF RowType
<1>4. [Idle EXCEPT !.at = at, !.row = i, !.owns = TRUE, !.q = <<0>>] \in WorkerType
  BY FreshTypes
<1>5. /\ row' = [row EXCEPT ![i] = [@ EXCEPT !.st = "RUNNING", !.owner = claims + 1, !.lease = "live"]]
      /\ wk' = [wk EXCEPT ![claims'] = [Idle EXCEPT !.at = at, !.row = i, !.owns = TRUE, !.q = <<0>>]]
  BY DEF Claim
<1>6. row' \in [Ids -> RowType] /\ row'[i].st = "RUNNING" /\ row'[i].owner = claims'
      /\ \A j \in Ids \ {i} : row'[j] = row[j]
  BY <1>1, <1>2, <1>3, <1>5 DEF TypeOK, RowType
<1>7. wk' \in [Workers -> WorkerType] /\ \A w \in Workers \ {claims'} : wk'[w] = wk[w]
  BY <1>1, <1>4, <1>5 DEF TypeOK
<1>8. wk'[claims'].at = at /\ wk'[claims'].row = i /\ \A m \in Mats : wk'[claims'].m[m] = "wait"
  BY <1>1, <1>5 DEF TypeOK, Idle
<1> QED BY <1>1, <1>6, <1>7, <1>8

\* The count of a worker's indexed materials is a number.
LEMMA OksType == ASSUME NEW w PROVE Oks(w) \in Nat
<1>1. IsFiniteSet({m \in Mats : wk[w].m[m] = "ok"})
  BY ReEmbedConstants, FS_Subset
<1> QED BY <1>1, FS_CardinalityType DEF Oks

\* A material that moves on moves alone, and its worker stays well formed.
LEMMA MaterialType ==
  ASSUME TypeOK, NEW w \in Workers, NEW m \in Mats, NEW to \in Phases, Step(w, m, to) \/ Report(w, m, to)
  PROVE  /\ wk' \in [Workers -> WorkerType]
         /\ wk'[w].m[m] = to /\ wk'[w].at = wk[w].at /\ wk'[w].row = wk[w].row
         /\ \A x \in Mats \ {m} : wk'[w].m[x] = wk[w].m[x]
         /\ \A v \in Workers \ {w} : wk'[v] = wk[v]
<1>1. wk[w] \in WorkerType
  BY DEF TypeOK
<1>2. [wk[w].m EXCEPT ![m] = to] \in [Mats -> Phases]
  BY <1>1 DEF WorkerType, Phases
<1>3. CASE Step(w, m, to)
  <2> DEFINE r == [wk[w] EXCEPT !.m = [@ EXCEPT ![m] = to]]
  <2>1. wk' = [wk EXCEPT ![w] = r]
    BY <1>3 DEF Step
  <2>2. r \in WorkerType
    BY <1>1, <1>2 DEF WorkerType, Phases
  <2>3. r.m = [wk[w].m EXCEPT ![m] = to] /\ r.at = wk[w].at /\ r.row = wk[w].row
    BY <1>1 DEF WorkerType
  <2> HIDE DEF r
  <2> QED BY <1>1, <1>2, <2>1, <2>2, <2>3 DEF TypeOK, WorkerType
<1>4. CASE Report(w, m, to)
  <2> DEFINE n == Oks(w) + (IF to = "ok" THEN 1 ELSE 0)
             r == [wk[w] EXCEPT !.m = [@ EXCEPT ![m] = to], !.q = Append(@, n)]
  <2>1. wk' = [wk EXCEPT ![w] = r]
    BY <1>4 DEF Report, Enqueue
  <2>2. n \in Nat
    BY OksType
  <2>3. Append(wk[w].q, n) \in Seq(Nat)
    BY <1>1, <2>2, AppendProperties DEF WorkerType
  <2>4. r \in WorkerType
    BY <1>1, <1>2, <2>3 DEF WorkerType, Phases
  <2>5. r.m = [wk[w].m EXCEPT ![m] = to] /\ r.at = wk[w].at /\ r.row = wk[w].row
    BY <1>1 DEF WorkerType
  <2> HIDE DEF r
  <2> QED BY <1>1, <1>2, <2>1, <2>4, <2>5 DEF TypeOK, WorkerType
<1> QED BY <1>3, <1>4

------------------------------------------------------------------------------
(* Steps that create no job and write no vectors.                            *)

\* No row becomes active or changes the owner it runs for.
Quiet == \A i \in Ids : row'[i].st \in Active =>
             /\ row[i].st \in Active
             /\ row'[i].st = "RUNNING" => row[i].st = "RUNNING" /\ row'[i].owner = row[i].owner

\* A step that leaves the materials alone and no worker newly through keeps the
\* parts of the invariant that are not types.
LEMMA QuietKeeps ==
  ASSUME IInv, Quiet, mat' = mat, claims' = claims,
         \A w \in Workers, m \in Mats : wk'[w].m[m] \in {"written", "ok"} => wk'[w].m[m] = wk[w].m[m],
         MarkersDone', HoldersEmpty', TypeOK', Placed'
  PROVE  IInv'
<1>1. OneActive' /\ LatestOwns'
  BY DEF IInv, Quiet, OneActive, ActiveRows, LatestOwns, Active
<1>2. VectorsKnown' /\ LatestStands'
  BY DEF IInv, VectorsKnown, LatestStands
<1> QED BY <1>1, <1>2 DEF IInv

\* A row rewritten with a well-formed value keeps the types.
LEMMA RowTypes ==
  ASSUME TypeOK, NEW i \in Ids, NEW x \in RowType, (x.st = "RUNNING") = (x.owner # 0),
         row' = [row EXCEPT ![i] = x]
  PROVE  /\ row' \in [Ids -> RowType] /\ \A j \in Ids : (row'[j].st = "RUNNING") = (row'[j].owner # 0)
         /\ row'[i] = x /\ \A j \in Ids \ {i} : row'[j] = row[j]
  BY DEF TypeOK

\* A request's step that touches no row and no worker.
LEMMA RequestKeeps ==
  ASSUME IInv, NEW s \in Requests, NEW r \in ReqType,
         req' = [req EXCEPT ![s] = r], r.at = "locked" => ~ r.made,
         r.at \in {"claim", "check", "compensate"} \/ r.plan \in {"recycle", "attach", "return"} => r.row \in Ids,
         lock' \in Requests \cup {None}, starts' \in 0..MaxStarts, faults' \in 0..MaxFaults,
         Quiet, row' \in [Ids -> RowType], \A i \in Ids : (row'[i].st = "RUNNING") = (row'[i].owner # 0),
         UNCHANGED <<marked, mat, wk, claims>>
  PROVE  IInv'
<1>1. TypeOK'
  BY DEF IInv, TypeOK
<1>2. Placed' /\ MarkersDone' /\ HoldersEmpty'
  BY DEF IInv, Placed, MarkersDone, HoldersEmpty, TypeOK, Alive
<1> QED BY <1>1, <1>2, QuietKeeps DEF IInv

\* A worker's step outside its materials.
LEMMA WorkerKeeps ==
  ASSUME IInv, NEW w \in Workers, NEW r \in WorkerType,
         wk' = [wk EXCEPT ![w] = r], r.m \in {wk[w].m, Idle.m},
         r.at \notin {"none", "end"} => Alive(w) /\ r.row = wk[w].row,
         r.at = "mark" => \A m \in Mats : r.m[m] = "ok",
         faults' \in 0..MaxFaults, marked' \in {0} \cup Workers,
         Quiet, row' \in [Ids -> RowType], \A i \in Ids : (row'[i].st = "RUNNING") = (row'[i].owner # 0),
         UNCHANGED <<lock, mat, claims, req, starts>>
  PROVE  IInv'
<1>1. TypeOK'
  BY DEF IInv, TypeOK
<1>2. Placed' /\ MarkersDone' /\ HoldersEmpty'
  BY DEF IInv, Placed, MarkersDone, HoldersEmpty, TypeOK, Alive
<1>3. ASSUME NEW v \in Workers, NEW m \in Mats, wk'[v].m[m] \in {"written", "ok"}
      PROVE  wk'[v].m[m] = wk[v].m[m]
  <2>1. Idle.m[m] = "wait"
    BY DEF Idle
  <2> QED BY <1>3, <2>1 DEF IInv, TypeOK
<1> QED BY <1>1, <1>2, <1>3, QuietKeeps DEF IInv

\* Rows that stay as they are are quiet and well formed.
LEMMA SameRows ==
  ASSUME TypeOK, row' = row
  PROVE  Quiet /\ row' \in [Ids -> RowType] /\ \A i \in Ids : (row'[i].st = "RUNNING") = (row'[i].owner # 0)
  BY DEF TypeOK, Quiet

\* A fault is counted.
LEMMA FaultType == TypeOK /\ (Fault \/ UNCHANGED faults) => faults' \in 0..MaxFaults
  BY ReEmbedConstants DEF TypeOK, Fault

\* The invariant holds at the start.
LEMMA InvInit == Init => IInv
<1> SUFFICES ASSUME Init PROVE IInv
  OBVIOUS
<1>1. Idle \in WorkerType /\ NewReq \in ReqType /\ NoRow \in RowType
  BY FreshTypes DEF Idle, WorkerType, NewReq, ReqType, NoRow, RowType
<1>2. TypeOK
  BY <1>1, ReEmbedConstants DEF Init, TypeOK, NoRow
<1>3. Placed /\ HoldersEmpty
  BY DEF Init, Placed, HoldersEmpty, Alive, Idle, NewReq
<1>4. OneActive /\ LatestOwns
  BY DEF Init, OneActive, ActiveRows, LatestOwns, NoRow, Active
<1>5. VectorsKnown /\ LatestStands /\ MarkersDone
  BY DEF Init, VectorsKnown, LatestStands, MarkersDone, Idle, Workers
<1> QED BY <1>2, <1>3, <1>4, <1>5 DEF IInv

------------------------------------------------------------------------------
(* The actions.                                                              *)

\* A claim keeps the invariant: the job is the only active one, and the new
\* worker has written nothing (claimReEmbedJob).
LEMMA ClaimKeeps ==
  ASSUME IInv, NEW i \in Ids, NEW at \in {"start", "end"}, Claimable(i), Claim(i, at),
         req' \in [Requests -> ReqType], HoldersEmpty',
         \A s \in Requests : req'[s].at \in {"claim", "check", "compensate"}
                           \/ req'[s].plan \in {"recycle", "attach", "return"} => req'[s].row \in Ids,
         faults' \in 0..MaxFaults, UNCHANGED <<lock, marked, mat, starts>>
  PROVE  IInv'
<1>1. TypeOK
  BY DEF IInv
<1>2. TypeOK'
  <2>1. \A j \in Ids : (row'[j].st = "RUNNING") = (row'[j].owner # 0)
    BY <1>1, ClaimType DEF TypeOK, Workers
  <2> QED BY <1>1, <2>1, ClaimType DEF TypeOK
<1>3. Placed' /\ MarkersDone'
  BY <1>1, ClaimType DEF IInv, Placed, MarkersDone, Alive
<1>4. ActiveRows = {i}
  BY DEF IInv, Claimable, ActiveRows, Active, OneActive
<1>5. OneActive' /\ LatestOwns'
  BY <1>1, <1>4, ClaimType DEF OneActive, LatestOwns, ActiveRows, Active
<1>6. VectorsKnown'
  <2>1. claims' = claims + 1 /\ \A m \in Mats : mat[m].by \in Nat /\ mat[m].by <= claims
    BY <1>1, ClaimType DEF IInv, TypeOK, VectorsKnown, Workers
  <2> QED BY <1>1, <2>1 DEF VectorsKnown, TypeOK
<1>7. LatestStands'
  BY <1>1, ClaimType DEF LatestStands
<1> QED BY <1>2, <1>3, <1>5, <1>6, <1>7 DEF IInv

\* A job that is new or new again keeps the invariant: no other one is active
\* (the insert and the recycle of acquireReEmbedJob).
LEMMA NewJobKeeps ==
  ASSUME IInv, NEW s \in Requests, NEW i \in Ids, NEW x \in RowType, x.st = "PENDING", x.owner = 0,
         IndexAllows(i), row' = [row EXCEPT ![i] = x], lock' = None, GoOn(s, "claim", i, TRUE),
         UNCHANGED <<marked, mat, wk, claims, starts, faults>>
  PROVE  IInv'
<1>1. TypeOK /\ Placed
  BY DEF IInv
<1>2. TypeOK'
  BY <1>1, RowTypes, GoOnType DEF TypeOK
<1>6. /\ req'[s].at = "claim" /\ req'[s].row = i /\ req'[s].plan = "none"
      /\ \A t \in Requests \ {s} : req'[t] = req[t]
  BY <1>1, GoOnType
<1>3. Placed' /\ MarkersDone' /\ HoldersEmpty'
  BY <1>1, <1>6 DEF IInv, Placed, MarkersDone, HoldersEmpty, Alive
<1>4. OneActive' /\ LatestOwns'
  BY <1>1, RowTypes DEF IInv, IndexAllows, OneActive, ActiveRows, Active, LatestOwns
<1>5. VectorsKnown' /\ LatestStands'
  BY DEF IInv, VectorsKnown, LatestStands
<1> QED BY <1>2, <1>3, <1>4, <1>5 DEF IInv

\* A fenced statement of a material comes from the last claim's worker, so it
\* disturbs nothing a later one has written.
LEMMA MaterialKeeps ==
  ASSUME IInv, NEW w \in Workers, NEW m \in Mats, NEW to \in Phases, Step(w, m, to) \/ Report(w, m, to),
         wk[w].at = "run",
         \/ mat' = mat /\ to \notin {"written", "ok"}
         \/ Fenced(w) /\ \E x \in [st : {"READY", "PROCESSING", "FAILED"}, by : {0} \cup Workers] :
               /\ mat' = [mat EXCEPT ![m] = x] /\ x.by <= claims
               /\ to = "written" => x.by = w
               /\ to = "ok" => x = [st |-> "READY", by |-> w],
         faults' \in 0..MaxFaults, UNCHANGED <<row, lock, marked, claims, req, starts>>
  PROVE  IInv'
<1>1. TypeOK /\ Placed
  BY DEF IInv
<1>2. TypeOK'
  BY <1>1, MaterialType DEF TypeOK
<1>3. Placed' /\ MarkersDone' /\ HoldersEmpty'
  BY <1>1, MaterialType DEF IInv, Placed, MarkersDone, HoldersEmpty, Alive
<1>4. OneActive' /\ LatestOwns'
  BY DEF IInv, OneActive, LatestOwns, ActiveRows
<1>5. wk[w].row \in Ids
  BY <1>1 DEF Placed, Alive
<1>6. Fenced(w) => w = claims
  BY <1>5 DEF IInv, Fenced, LatestOwns
<1>7. VectorsKnown'
  BY <1>1 DEF IInv, VectorsKnown, TypeOK, Fenced
<1>8. LatestStands'
  <2> SUFFICES ASSUME NEW v \in Workers, v = claims, NEW x \in Mats
               PROVE  /\ wk'[v].m[x] = "written" => mat'[x].by = v
                      /\ wk'[v].m[x] = "ok" => mat'[x] = [st |-> "READY", by |-> v]
    BY DEF LatestStands
  <2>1. CASE x # m
    BY <1>1, <2>1, MaterialType DEF IInv, LatestStands, TypeOK
  <2>2. CASE x = m /\ v = w
    BY <1>1, <2>2, MaterialType DEF TypeOK
  <2>3. CASE x = m /\ v # w
    BY <1>1, <1>6, <2>3, MaterialType DEF IInv, LatestStands, TypeOK
  <2> QED BY <2>1, <2>2, <2>3
<1> QED BY <1>2, <1>3, <1>4, <1>7, <1>8 DEF IInv

\* Taking the course row and reading the jobs.
LEMMA LockKeeps == ASSUME IInv, NEW s \in Requests, NEW k \in Keys \cup {None}, Lock(s, k) PROVE IInv'
<1>1. TypeOK
  BY DEF IInv
<1>2. PICK r \in ReqType : /\ req' = [req EXCEPT ![s] = r] /\ ~ r.made /\ r.at = "locked"
                           /\ r.plan \in {"recycle", "attach", "return"} => r.row \in Ids
  <2> DEFINE byKey == {i \in Ids : k # None /\ row[i].key = k}
             found == IF byKey # {} THEN byKey ELSE ActiveRows
             r1 == [NewReq EXCEPT !.at = "locked", !.key = k, !.plan = "create"]
             r2(i) == [NewReq EXCEPT !.at = "locked", !.key = k, !.row = i,
                         !.plan = Plan(i, k, byKey # {}), !.active = row[i].st \in Active]
  <2>1. found \subseteq Ids
    BY DEF ActiveRows
  <2>2. CASE req' = [req EXCEPT ![s] = r1]
    <3>1. r1 \in ReqType /\ ~ r1.made /\ r1.at = "locked" /\ r1.plan = "create"
      BY DEF NewReq, ReqType
    <3> QED BY <2>2, <3>1
  <2>3. CASE \E i \in found : req' = [req EXCEPT ![s] = r2(i)]
    <3>1. PICK i \in found : req' = [req EXCEPT ![s] = r2(i)]
      BY <2>3
    <3>2. i \in Ids /\ Plan(i, k, byKey # {}) \in {"return", "recycle", "attach"}
          /\ (row[i].st \in Active) \in BOOLEAN
      BY <2>1 DEF Plan
    <3>3. r2(i) \in ReqType /\ ~ r2(i).made /\ r2(i).at = "locked" /\ r2(i).row = i
      BY <3>2 DEF NewReq, ReqType
    <3> QED BY <3>1, <3>2, <3>3
  <2> QED BY <2>2, <2>3 DEF Lock
<1>3. lock' = s /\ starts < MaxStarts /\ starts' = starts + 1
      /\ row' = row /\ faults' = faults /\ UNCHANGED <<marked, mat, wk, claims>>
  BY DEF Lock
<1>4. faults' \in 0..MaxFaults /\ starts' \in 0..MaxStarts /\ lock' \in Requests \cup {None}
  BY <1>1, <1>3, ReEmbedConstants DEF TypeOK
<1>5. Quiet /\ row' \in [Ids -> RowType] /\ \A i \in Ids : (row'[i].st = "RUNNING") = (row'[i].owner # 0)
  BY <1>1, <1>3, SameRows
<1>6. r.at = "locked" => ~ r.made
  BY <1>2
<1>7. r.at \in {"claim", "check", "compensate"} \/ r.plan \in {"recycle", "attach", "return"} => r.row \in Ids
  BY <1>2
<1>8. req' = [req EXCEPT ![s] = r]
  BY <1>2
<1> QED BY <1>3, <1>4, <1>5, <1>6, <1>7, <1>8, RequestKeeps

\* A request that goes on, with the rows quiet, keeps the invariant.
LEMMA GoOnKeeps ==
  ASSUME IInv, NEW s \in Requests, NEW i \in Ids \cup {None}, NEW made \in BOOLEAN,
         NEW at \in {"idle", "claim", "check", "compensate", "answered"}, GoOn(s, at, i, made),
         at \in {"claim", "check", "compensate"} => i \in Ids,
         lock' \in Requests \cup {None}, Fault \/ UNCHANGED faults,
         Quiet, row' \in [Ids -> RowType], \A j \in Ids : (row'[j].st = "RUNNING") = (row'[j].owner # 0),
         UNCHANGED <<marked, mat, wk, claims, starts>>
  PROVE  IInv'
<1> DEFINE r == [NewReq EXCEPT !.at = at, !.row = i, !.made = made]
<1>1. r \in ReqType /\ req' = [req EXCEPT ![s] = r]
  BY FreshTypes DEF GoOn
<1>2. r.at = at /\ r.row = i /\ r.plan = "none"
  BY DEF NewReq
<1>3. faults' \in 0..MaxFaults /\ starts' \in 0..MaxStarts
  BY FaultType DEF IInv, TypeOK
<1> HIDE DEF r
<1> QED BY <1>1, <1>2, <1>3, RequestKeeps

\* What a request that goes on with its own job hands to GoOnKeeps.
LEMMA OwnJob ==
  ASSUME IInv, NEW s \in Requests
  PROVE  /\ req[s].row \in Ids \cup {None} /\ req[s].made \in BOOLEAN
         /\ req[s].at \in {"claim", "check", "compensate"} => req[s].row \in Ids
         /\ req[s].plan \in {"recycle", "attach", "return"} => req[s].row \in Ids
  BY DEF IInv, Placed, TypeOK, ReqType

\* The transaction of acquireReEmbedJob ends.
LEMMA AcquireKeeps == ASSUME IInv, NEW s \in Requests, Acquire(s) PROVE IInv'
<1>1. TypeOK /\ OneActive
  BY DEF IInv
<1>2. CASE \E i \in Ids : Create(s, i)
  <2>1. PICK i \in Ids : Create(s, i)
    BY <1>2
  <2> DEFINE x == [NoRow EXCEPT !.st = "PENDING", !.key = req[s].key]
  <2>2. req[s].key \in Keys \cup {None}
    BY <1>1 DEF TypeOK, ReqType
  <2>3. x \in RowType /\ x.st = "PENDING" /\ x.owner = 0
    BY <2>2 DEF NoRow, RowType
  <2> QED BY <2>1, <2>3, NewJobKeeps DEF Create
<1>3. CASE Recycle(s)
  <2> DEFINE i == req[s].row
             key == IF row[i].key = None THEN req[s].key ELSE row[i].key
             x == [row[i] EXCEPT !.st = "PENDING", !.owner = 0, !.lease = "none", !.done = 0,
                                 !.replayed = TRUE, !.key = key]
  <2>1. i \in Ids
    BY <1>3, OwnJob DEF Recycle
  <2>2. row[i] \in RowType /\ req[s].key \in Keys \cup {None}
    BY <1>1, <2>1 DEF TypeOK, ReqType
  <2>3. x \in RowType /\ x.st = "PENDING" /\ x.owner = 0
    BY <2>2 DEF RowType
  <2>4. row' = [row EXCEPT ![i] = x]
    BY <1>3, <1>1 DEF Recycle, TypeOK
  <2> QED BY <1>3, <2>1, <2>3, <2>4, NewJobKeeps DEF Recycle
<1>4. CASE Attach(s)
  <2> DEFINE i == req[s].row
             x == [row[i] EXCEPT !.key = req[s].key]
  <2>1. i \in Ids
    BY <1>4, OwnJob DEF Attach
  <2>2. row[i] \in RowType /\ req[s].key \in Keys \cup {None}
    BY <1>1, <2>1 DEF TypeOK, ReqType
  <2>3. x \in RowType /\ x.st = row[i].st /\ x.owner = row[i].owner
    BY <2>2 DEF RowType
  <2>4. row' = [row EXCEPT ![i] = x] /\ (x.st = "RUNNING") = (x.owner # 0)
    BY <1>4, <2>1, <2>3, <1>1 DEF Attach, TypeOK
  <2>5. Quiet
    BY <1>1, <2>1, <2>3, <2>4, RowTypes DEF Quiet, Active
  <2>6. row' \in [Ids -> RowType] /\ \A j \in Ids : (row'[j].st = "RUNNING") = (row'[j].owner # 0)
    BY <1>1, <2>1, <2>3, <2>4, RowTypes
  <2>7. GoOn(s, "claim", i, req[s].made) /\ lock' = None /\ UNCHANGED <<marked, mat, wk, claims, starts, faults>>
    BY <1>4 DEF Attach, Goto
  <2>8. req[s].made \in BOOLEAN
    BY OwnJob
  <2> QED BY <2>1, <2>5, <2>6, <2>7, <2>8, GoOnKeeps
<1>5. CASE Return(s)
  <2>1. req[s].row \in Ids
    BY <1>5, OwnJob DEF Return
  <2> QED BY <1>1, <1>5, <2>1, OwnJob, SameRows, GoOnKeeps DEF Return, Goto
<1>6. CASE AcquireFails(s)
  BY <1>1, <1>6, SameRows, GoOnKeeps DEF AcquireFails, GiveUp
<1> QED BY <1>2, <1>3, <1>4, <1>5, <1>6 DEF Acquire

\* The claim by the request that made or found the job, and what follows it.
LEMMA StartKeeps ==
  ASSUME IInv, NEW s \in Requests,
         StartClaims(s) \/ ClaimFails(s) \/ Check(s) \/ Compensate(s) \/ CompensateFails(s) \/ RequestDies(s)
  PROVE  IInv'
<1>1. TypeOK
  BY DEF IInv
<1> DEFINE i == req[s].row
<1>2. ASSUME NEW at \in {"start", "end"}, NEW rat \in {"idle", "compensate", "answered"},
             NEW j \in Ids \cup {None}, NEW made \in BOOLEAN, rat = "compensate" => j \in Ids,
             i \in Ids, Claimable(i), Claim(i, at), GoOn(s, rat, j, made), Fault \/ UNCHANGED faults,
             UNCHANGED <<lock, marked, mat, starts>>
      PROVE  IInv'
  <2>1. req' \in [Requests -> ReqType] /\ req'[s].at = rat /\ req'[s].row = j /\ req'[s].plan = "none"
        /\ \A t \in Requests \ {s} : req'[t] = req[t]
    BY <1>1, <1>2, GoOnType
  <2>2. HoldersEmpty' /\ \A t \in Requests : req'[t].at \in {"claim", "check", "compensate"}
                           \/ req'[t].plan \in {"recycle", "attach", "return"} => req'[t].row \in Ids
    BY <1>2, <2>1 DEF IInv, HoldersEmpty, Placed
  <2> QED BY <1>1, <1>2, <2>1, <2>2, ClaimKeeps, FaultType
<1>3. CASE StartClaims(s)
  <2>1. i \in Ids /\ req[s].made \in BOOLEAN
    BY <1>3, OwnJob DEF StartClaims
  <2>2. CASE Claimable(i) /\ Claim(i, "start") /\ Goto(s, "answered")
    BY <1>2, <1>3, <2>1, <2>2 DEF StartClaims, Goto
  <2>3. CASE Goto(s, "check") /\ UNCHANGED <<row, wk, claims>>
    BY <1>1, <1>3, <2>1, <2>3, SameRows, GoOnKeeps DEF StartClaims, Goto, IInv, TypeOK
  <2> QED BY <1>3, <2>2, <2>3 DEF StartClaims
<1>4. CASE ClaimFails(s)
  <2>1. i \in Ids /\ req[s].made \in BOOLEAN
    BY <1>4, OwnJob DEF ClaimFails
  <2>2. PICK rat \in {"idle", "compensate"}, j \in Ids \cup {None}, made \in BOOLEAN :
           GoOn(s, rat, j, made) /\ (rat = "compensate" => j \in Ids)
    BY <1>4, <2>1 DEF ClaimFails, Goto, GiveUp
  <2>3. CASE UNCHANGED <<row, wk, claims>>
    BY <1>1, <1>4, <2>2, <2>3, SameRows, GoOnKeeps DEF ClaimFails, IInv, TypeOK
  <2>4. CASE Claimable(i) /\ Claim(i, "end")
    BY <1>2, <1>4, <2>1, <2>2, <2>4 DEF ClaimFails
  <2> QED BY <1>4, <2>3, <2>4 DEF ClaimFails
<1>5. CASE Check(s)
  <2>1. i \in Ids /\ req[s].made \in BOOLEAN
    BY <1>5, OwnJob DEF Check
  <2> QED BY <1>1, <1>5, <2>1, SameRows, GoOnKeeps DEF Check, Goto, IInv, TypeOK
<1>6. CASE Compensate(s)
  <2>1. i \in Ids
    BY <1>6, OwnJob DEF Compensate
  <2> DEFINE x == [NoRow EXCEPT !.st = "deleted"]
  <2>2. CASE row' = [row EXCEPT ![i] = x]
    <3>1. x \in RowType /\ x.st = "deleted" /\ x.owner = 0
      BY DEF NoRow, RowType
    <3>2. Quiet
      BY <1>1, <2>1, <2>2, <3>1, RowTypes DEF Quiet, Active
    <3> QED BY <1>1, <1>6, <2>1, <2>2, <3>1, <3>2, RowTypes, GoOnKeeps DEF Compensate, GiveUp, IInv, TypeOK
  <2>3. CASE row' = row
    BY <1>1, <1>6, <2>3, SameRows, GoOnKeeps DEF Compensate, GiveUp, IInv, TypeOK
  <2> QED BY <1>6, <2>2, <2>3 DEF Compensate
<1>7. CASE CompensateFails(s) \/ RequestDies(s)
  <2>1. row' = row /\ GiveUp(s) /\ Fault /\ lock' \in Requests \cup {None}
        /\ UNCHANGED <<marked, mat, wk, claims, starts>>
    BY <1>1, <1>7 DEF CompensateFails, RequestDies, TypeOK
  <2> QED BY <1>1, <2>1, SameRows, GoOnKeeps DEF GiveUp
<1> QED BY <1>3, <1>4, <1>5, <1>6, <1>7

\* A statement about a material, fenced or refused.
LEMMA MaterialStep ==
  ASSUME IInv, NEW w \in Workers, NEW m \in Mats,
         BeginMaterial(w, m) \/ WriteChunks(w, m) \/ MakeReady(w, m) \/ MaterialFails(w, m) \/ RecordFailure(w, m)
  PROVE  IInv'
<1> DEFINE MatType == [st : {"READY", "PROCESSING", "FAILED"}, by : {0} \cup Workers]
<1>1. TypeOK /\ Placed /\ VectorsKnown /\ LatestOwns /\ LatestStands
  BY DEF IInv
<1>2. mat[m] \in MatType /\ mat[m].by <= claims
  BY <1>1 DEF TypeOK, VectorsKnown
<1>3. faults' \in 0..MaxFaults /\ wk[w].at = "run" /\ UNCHANGED <<row, lock, marked, claims, req, starts>>
  BY <1>1, FaultType DEF BeginMaterial, WriteChunks, MakeReady, MaterialFails, RecordFailure, MatOnly
<1>4. Fenced(w) => w = claims
  BY <1>1, <1>3 DEF Fenced, LatestOwns, Placed, Alive
<1>5. ASSUME NEW to \in {"stopped", "failing", "bad"}, Step(w, m, to) \/ Report(w, m, to), mat' = mat
      PROVE  IInv'
  BY <1>3, <1>5, MaterialKeeps DEF Phases
<1>6. ASSUME NEW to \in Phases, Step(w, m, to) \/ Report(w, m, to), Fenced(w), NEW x \in MatType,
             mat' = [mat EXCEPT ![m] = x], x.by <= claims,
             to = "written" => x.by = w, to = "ok" => x = [st |-> "READY", by |-> w]
      PROVE  IInv'
  BY <1>3, <1>6, MaterialKeeps
<1>7. CASE BeginMaterial(w, m)
  <2>1. CASE Fenced(w) /\ Step(w, m, "embed") /\ mat' = [mat EXCEPT ![m].st = "PROCESSING"]
    <3> DEFINE x == [mat[m] EXCEPT !.st = "PROCESSING"]
    <3>1. x \in MatType /\ x.by <= claims /\ mat' = [mat EXCEPT ![m] = x]
      BY <1>1, <1>2, <2>1 DEF TypeOK
    <3> QED BY <1>6, <2>1, <3>1 DEF Phases
  <2> QED BY <1>5, <1>7, <2>1 DEF BeginMaterial
<1>8. CASE WriteChunks(w, m)
  <2>1. CASE Fenced(w) /\ Step(w, m, "written") /\ mat' = [mat EXCEPT ![m].by = w]
    <3> DEFINE x == [mat[m] EXCEPT !.by = w]
    <3>1. x \in MatType /\ x.by = w /\ w <= claims /\ mat' = [mat EXCEPT ![m] = x]
      BY <1>1, <1>2, <1>4, <2>1 DEF TypeOK, Workers
    <3> QED BY <1>6, <2>1, <3>1 DEF Phases
  <2> QED BY <1>5, <1>8, <2>1 DEF WriteChunks
<1>9. CASE MakeReady(w, m)
  <2>1. CASE Fenced(w) /\ Report(w, m, "ok") /\ mat' = [mat EXCEPT ![m].st = "READY"]
    <3> DEFINE x == [mat[m] EXCEPT !.st = "READY"]
    <3>1. mat[m].by = w
      BY <1>1, <1>4, <1>9, <2>1 DEF MakeReady, LatestStands
    <3>2. x \in MatType /\ x.by <= claims /\ mat' = [mat EXCEPT ![m] = x] /\ x = [st |-> "READY", by |-> w]
      BY <1>1, <1>2, <2>1, <3>1 DEF TypeOK
    <3> QED BY <1>6, <2>1, <3>2 DEF Phases
  <2> QED BY <1>5, <1>9, <2>1 DEF MakeReady
<1>10. CASE MaterialFails(w, m)
  BY <1>5, <1>10 DEF MaterialFails
<1>11. CASE RecordFailure(w, m)
  <2>1. CASE Fenced(w) /\ Report(w, m, "bad") /\ mat' = [mat EXCEPT ![m].st = "FAILED"]
    <3> DEFINE x == [mat[m] EXCEPT !.st = "FAILED"]
    <3>1. x \in MatType /\ x.by <= claims /\ mat' = [mat EXCEPT ![m] = x]
      BY <1>1, <1>2, <2>1 DEF TypeOK
    <3> QED BY <1>6, <2>1, <3>1 DEF Phases
  <2> QED BY <1>5, <1>11, <2>1 DEF RecordFailure
<1> QED BY <1>7, <1>8, <1>9, <1>10, <1>11

\* The rest of a worker's life: progress, renewals, the end, a crash.
LEMMA WorkerStep ==
  ASSUME IInv, NEW w \in Workers,
         WriteProgress(w) \/ BeatLoses(w) \/ Ends(w) \/ MarkCourse(w) \/ EndFails(w)
         \/ Finalize(w) \/ FailJob(w) \/ WorkerDies(w)
  PROVE  IInv'
<1>1. TypeOK /\ Placed /\ MarkersDone
  BY DEF IInv
<1>2. wk[w] \in WorkerType
  BY <1>1 DEF TypeOK
<1> DEFINE i == wk[w].row
           dead == [Idle EXCEPT !.at = "end"]
           Rows == Quiet /\ row' \in [Ids -> RowType] /\ \A j \in Ids : (row'[j].st = "RUNNING") = (row'[j].owner # 0)
<1>3. ASSUME NEW r \in WorkerType, wk' = [wk EXCEPT ![w] = r], r.m \in {wk[w].m, Idle.m},
             r.at \notin {"none", "end"} => Alive(w) /\ r.row = wk[w].row,
             r.at = "mark" => \A m \in Mats : r.m[m] = "ok", Fault \/ UNCHANGED faults,
             marked' \in {0} \cup Workers, Rows, UNCHANGED <<lock, mat, claims, req, starts>>
      PROVE  IInv'
  BY <1>1, <1>3, FaultType, WorkerKeeps
<1>4. row' = row => Rows
  BY <1>1, SameRows
<1>5. dead \in WorkerType /\ dead.at = "end" /\ dead.m = Idle.m
  BY FreshTypes DEF Idle
<1>6. marked \in {0} \cup Workers
  BY <1>1 DEF TypeOK
<1>7. ASSUME NEW at \in {"mark", "final", "error"}, wk' = [wk EXCEPT ![w].at = at],
             at = "mark" => AllOk(w), Alive(w), Fault \/ UNCHANGED faults, marked' \in {0} \cup Workers,
             UNCHANGED <<row, lock, mat, claims, req, starts>>
      PROVE  IInv'
  <2> DEFINE r == [wk[w] EXCEPT !.at = at]
  <2>1. r \in WorkerType /\ r.m = wk[w].m /\ r.row = wk[w].row /\ r.at = at
    BY <1>2 DEF WorkerType
  <2>2. wk' = [wk EXCEPT ![w] = r]
    BY <1>1, <1>7 DEF TypeOK
  <2> HIDE DEF r
  <2>3. r.at = "mark" => \A m \in Mats : r.m[m] = "ok"
    BY <1>7, <2>1 DEF AllOk
  <2>4. r.at # "start" /\ r.at \in {"mark", "final", "error"}
    BY <2>1
  <2> HIDE DEF Rows
  <2> QED BY <1>3, <1>4, <1>7, <2>1, <2>2, <2>3, <2>4
<1>8. ASSUME NEW x \in RowType, x.st \notin Active \/ (x.st = row[i].st /\ x.owner = row[i].owner),
             (x.st = "RUNNING") = (x.owner # 0), row' = [row EXCEPT ![i] = x], i \in Ids
      PROVE  Rows
  <2>1. row' \in [Ids -> RowType] /\ (\A j \in Ids : (row'[j].st = "RUNNING") = (row'[j].owner # 0))
        /\ row'[i] = x /\ \A j \in Ids \ {i} : row'[j] = row[j]
    BY <1>1, <1>8, RowTypes
  <2>2. Quiet
    BY <1>8, <2>1 DEF Quiet
  <2> QED BY <2>1, <2>2
<1>9. CASE WriteProgress(w)
  <2> DEFINE n == Head(wk[w].q)
             rest == [wk[w] EXCEPT !.at = "run", !.q = Tail(@)]
             good == [rest EXCEPT !.owns = TRUE]
  <2>1. Alive(w) /\ i \in Ids /\ wk[w].q # <<>> /\ wk[w].q \in Seq(Nat)
    BY <1>1, <1>2, <1>9 DEF WriteProgress, Alive, Placed, WorkerType
  <2>2. n \in Nat /\ Tail(wk[w].q) \in Seq(Nat)
    BY <2>1, HeadTailProperties
  <2>3. rest \in WorkerType /\ rest.m = wk[w].m /\ rest.row = i /\ rest.at = "run"
    BY <1>2, <2>2 DEF WorkerType
  <2>4. /\ good \in WorkerType /\ good.m = wk[w].m /\ good.row = i /\ good.at = "run"
        /\ Lose(rest) \in WorkerType /\ Lose(rest).m = wk[w].m /\ Lose(rest).row = i /\ Lose(rest).at = "run"
    <3> HIDE DEF rest
    <3> QED BY <2>3 DEF WorkerType, Lose
  <2>5. UNCHANGED <<lock, marked, mat, claims, req, starts>> /\ (Fault \/ UNCHANGED faults)
    BY <1>9 DEF WriteProgress
  <2>6. CASE row' = [row EXCEPT ![i].done = n] /\ wk' = [wk EXCEPT ![w] = good]
    <3> DEFINE x == [row[i] EXCEPT !.done = n]
    <3>1. row[i] \in RowType
      BY <1>1, <2>1 DEF TypeOK
    <3>2. x \in RowType /\ x.st = row[i].st /\ x.owner = row[i].owner
      BY <2>2, <3>1 DEF RowType
    <3>3. row' = [row EXCEPT ![i] = x] /\ (x.st = "RUNNING") = (x.owner # 0)
      BY <1>1, <2>1, <2>6, <3>2 DEF TypeOK
    <3>4. Rows
      BY <1>8, <2>1, <3>2, <3>3
    <3> HIDE DEF good, Rows
    <3> QED BY <1>3, <1>6, <2>1, <2>4, <2>5, <2>6, <3>4
  <2>7. CASE row' = row /\ wk' = [wk EXCEPT ![w] = Lose(rest)]
    <3> HIDE DEF rest, Rows
    <3> QED BY <1>3, <1>4, <1>6, <2>1, <2>4, <2>5, <2>7
  <2> QED BY <1>9, <2>6, <2>7 DEF WriteProgress
<1>10. CASE BeatLoses(w)
  <2>1. Lose(wk[w]) \in WorkerType /\ Lose(wk[w]).m = wk[w].m /\ Lose(wk[w]).row = i
        /\ Lose(wk[w]).at = wk[w].at
    BY <1>2 DEF WorkerType, Lose
  <2>2. Alive(w) /\ wk[w].at # "mark" /\ wk' = [wk EXCEPT ![w] = Lose(wk[w])]
    BY <1>10 DEF BeatLoses, Alive
  <2> HIDE DEF Rows
  <2> QED BY <1>3, <1>4, <1>6, <1>10, <2>1, <2>2 DEF BeatLoses
<1>11. CASE Ends(w)
  <2>1. PICK at \in {"mark", "final", "error"} : At(w, at) /\ (at = "mark" => AllOk(w))
    BY <1>11 DEF Ends
  <2>2. Alive(w)
    BY <1>11 DEF Ends, Settled, Alive
  <2> HIDE DEF Rows
  <2> QED BY <1>6, <1>7, <2>1, <2>2 DEF At
<1>12. CASE MarkCourse(w)
  <2>1. marked' \in {0} \cup Workers /\ Alive(w)
    BY <1>6, <1>12 DEF MarkCourse, Alive
  <2> HIDE DEF Rows
  <2> QED BY <1>7, <1>12, <2>1 DEF MarkCourse
<1>13. CASE EndFails(w)
  <2>1. Alive(w)
    BY <1>13 DEF EndFails, Alive
  <2> HIDE DEF Rows
  <2> QED BY <1>6, <1>7, <1>13, <2>1 DEF EndFails
<1>14. ASSUME NEW st \in {"COMPLETED", "PARTIAL", "FAILED"}, NEW n \in Nat, Fenced(w), i \in Ids,
              row' = [row EXCEPT ![i] = EndRow(row[i], st)]
              \/ row' = [row EXCEPT ![i] = [EndRow(row[i], st) EXCEPT !.done = n]]
       PROVE  Rows
  <2> DEFINE e == EndRow(row[i], st)
             f == [e EXCEPT !.done = n]
  <2>1. row[i] \in RowType
    BY <1>1, <1>14 DEF TypeOK
  <2>2. e \in RowType /\ e.st = st /\ e.owner = 0
    BY <2>1 DEF RowType, EndRow
  <2>3. f \in RowType /\ f.st = st /\ f.owner = 0
    <3> HIDE DEF e
    <3> QED BY <2>2 DEF RowType
  <2>4. st \notin Active /\ st # "RUNNING"
    BY DEF Active
  <2> HIDE DEF e, f, Rows
  <2>5. row' = [row EXCEPT ![i] = e] \/ row' = [row EXCEPT ![i] = f]
    BY <1>14 DEF e, f
  <2> QED BY <1>8, <1>14, <2>2, <2>3, <2>4, <2>5
<1>15. ASSUME wk' = [wk EXCEPT ![w] = dead], Rows, Fault \/ UNCHANGED faults,
              UNCHANGED <<lock, marked, mat, claims, req, starts>>
       PROVE  IInv'
  <2> HIDE DEF Rows, dead
  <2> QED BY <1>3, <1>5, <1>6, <1>15
<1>16. CASE Finalize(w)
  <2>1. Alive(w) /\ i \in Ids
    BY <1>1, <1>16 DEF Finalize, Alive, Placed
  <2>2. CASE At(w, "error")
    <3> HIDE DEF Rows
    <3> QED BY <1>6, <1>7, <2>1, <2>2 DEF At
  <2>3. CASE wk[w].owns
    <3>1. PICK st \in {"COMPLETED", "PARTIAL", "FAILED"} :
             row' = IF Fenced(w) THEN [row EXCEPT ![i] = [EndRow(@, st) EXCEPT !.done = Oks(w)]] ELSE row
      BY <1>16, <2>3 DEF Finalize
    <3>2. Oks(w) \in Nat
      BY OksType
    <3>3. Rows
      <4> HIDE DEF Rows
      <4> QED BY <1>4, <1>14, <2>1, <3>1, <3>2
    <3> HIDE DEF Rows
    <3> QED BY <1>15, <1>16, <2>3, <3>3 DEF Finalize
  <2> QED BY <1>16, <2>2, <2>3 DEF Finalize
<1>17. CASE FailJob(w)
  <2>1. i \in Ids
    BY <1>1, <1>17 DEF FailJob, Alive, Placed
  <2>2. Rows
    <3> HIDE DEF Rows
    <3>1. row' = row \/ (Fenced(w) /\ row' = [row EXCEPT ![i] = EndRow(row[i], "FAILED")])
      BY <1>17 DEF FailJob
    <3> QED BY <1>4, <1>14, <2>1, <3>1
  <2> HIDE DEF Rows
  <2> QED BY <1>15, <1>17, <2>2 DEF FailJob
<1>18. CASE WorkerDies(w)
  <2> HIDE DEF Rows
  <2> QED BY <1>4, <1>15, <1>18 DEF WorkerDies
<1> QED BY <1>9, <1>10, <1>11, <1>12, <1>13, <1>16, <1>17, <1>18

\* A deadlock of the two row locks ends one of the two transactions.
LEMMA DeadlockStep == ASSUME IInv, NEW s \in Requests, NEW w \in Workers, Deadlock(s, w) PROVE IInv'
<1>1. TypeOK
  BY DEF IInv
<1>2. CASE lock' = None /\ GiveUp(s) /\ UNCHANGED wk
  BY <1>1, <1>2, SameRows, GoOnKeeps DEF Deadlock, GiveUp
<1>3. CASE wk' = [wk EXCEPT ![w].at = "error"] /\ UNCHANGED <<lock, req>>
  <2> DEFINE r == [wk[w] EXCEPT !.at = "error"]
  <2>4. wk[w] \in WorkerType
    BY <1>1 DEF TypeOK
  <2>1. r \in WorkerType /\ r.m = wk[w].m /\ r.row = wk[w].row /\ r.at = "error"
    BY <2>4 DEF WorkerType
  <2>2. wk' = [wk EXCEPT ![w] = r] /\ Alive(w)
    BY <1>1, <1>3 DEF TypeOK, Deadlock, Marking, Alive
  <2>3. faults' \in 0..MaxFaults /\ marked' \in {0} \cup Workers /\ row' = row
        /\ UNCHANGED <<lock, mat, claims, req, starts>>
    BY <1>1, <1>3 DEF Deadlock, TypeOK
  <2> HIDE DEF r
  <2> QED BY <1>1, <2>1, <2>2, <2>3, SameRows, WorkerKeeps
<1> QED BY <1>2, <1>3 DEF Deadlock

\* Time, and the status reads that resume a job.
LEMMA JobStep ==
  ASSUME IInv, NEW i \in Ids, Poll(i) \/ Lapse(i) \/ GrowsOld(i) \/ ReplayEnds(i)
  PROVE  IInv'
<1>1. TypeOK /\ Placed /\ MarkersDone /\ HoldersEmpty /\ row[i] \in RowType
  BY DEF IInv, TypeOK
<1>2. CASE Poll(i)
  <2>1. faults' \in 0..MaxFaults /\ req' \in [Requests -> ReqType] /\ HoldersEmpty'
    BY <1>1, <1>2 DEF Poll, TypeOK, HoldersEmpty
  <2>2. \A s \in Requests : req'[s].at \in {"claim", "check", "compensate"}
                           \/ req'[s].plan \in {"recycle", "attach", "return"} => req'[s].row \in Ids
    BY <1>1, <1>2 DEF Poll, Placed
  <2> QED BY <1>2, <2>1, <2>2, ClaimKeeps DEF Poll
<1>3. CASE Lapse(i) \/ GrowsOld(i) \/ ReplayEnds(i)
  <2>1. PICK x \in RowType : row' = [row EXCEPT ![i] = x] /\ x.st = row[i].st /\ x.owner = row[i].owner
    <3> DEFINE a == [row[i] EXCEPT !.lease = "past"]
               b == [row[i] EXCEPT !.aged = TRUE]
               c == [row[i] EXCEPT !.replayed = FALSE]
    <3>1. \A x \in {a, b, c} : x \in RowType /\ x.st = row[i].st /\ x.owner = row[i].owner
      BY <1>1 DEF RowType
    <3>2. \E x \in {a, b, c} : row' = [row EXCEPT ![i] = x]
      BY <1>1, <1>3 DEF Lapse, GrowsOld, ReplayEnds, TypeOK
    <3> HIDE DEF a, b, c
    <3> QED BY <3>1, <3>2
  <2>2. UNCHANGED <<lock, marked, mat, wk, claims, req, starts, faults>>
    BY <1>3 DEF Lapse, GrowsOld, ReplayEnds
  <2>3. (x.st = "RUNNING") = (x.owner # 0)
    BY <1>1, <2>1 DEF TypeOK
  <2>4. /\ row' \in [Ids -> RowType] /\ \A j \in Ids : (row'[j].st = "RUNNING") = (row'[j].owner # 0)
        /\ row'[i] = x /\ \A j \in Ids \ {i} : row'[j] = row[j]
    BY <1>1, <2>1, <2>3, RowTypes
  <2>5. Quiet
    BY <2>1, <2>4 DEF Quiet
  <2>6. TypeOK' /\ Placed' /\ MarkersDone' /\ HoldersEmpty'
    BY <1>1, <2>2, <2>4 DEF TypeOK, Placed, MarkersDone, HoldersEmpty, Alive
  <2> QED BY <2>2, <2>5, <2>6, QuietKeeps
<1> QED BY <1>2, <1>3

\* Every step keeps the invariant.
LEMMA InvStep == IInv /\ [Next]_vars => IInv'
<1> SUFFICES ASSUME IInv, [Next]_vars PROVE IInv'
  OBVIOUS
<1>1. CASE UNCHANGED vars
  <2>1. UNCHANGED <<row, lock, marked, mat, wk, claims, req, starts, faults>>
    BY <1>1 DEF vars
  <2>2. TypeOK' /\ Placed' /\ MarkersDone' /\ HoldersEmpty'
    BY <2>1 DEF IInv, TypeOK, Placed, MarkersDone, HoldersEmpty, Alive
  <2> QED BY <2>1, <2>2, SameRows, QuietKeeps DEF IInv
<1>2. ASSUME NEW s \in Requests, NEW k \in Keys \cup {None}, Lock(s, k) PROVE IInv'
  BY <1>2, LockKeeps
<1>3. ASSUME NEW s \in Requests, Start(s) \/ ClaimFails(s) \/ CompensateFails(s) \/ RequestDies(s) PROVE IInv'
  BY <1>3, AcquireKeeps, StartKeeps DEF Start
<1>4. ASSUME NEW s \in Requests, NEW w \in Workers, Deadlock(s, w) PROVE IInv'
  BY <1>4, DeadlockStep
<1>5. ASSUME NEW w \in Workers,
             Work(w) \/ (\E m \in Mats : MaterialFails(w, m)) \/ BeatLoses(w) \/ EndFails(w) \/ WorkerDies(w)
      PROVE  IInv'
  BY <1>5, MaterialStep, WorkerStep DEF Work
<1>6. ASSUME NEW i \in Ids, Poll(i) \/ Lapse(i) \/ GrowsOld(i) \/ ReplayEnds(i) PROVE IInv'
  BY <1>6, JobStep
<1> QED BY <1>1, <1>2, <1>3, <1>4, <1>5, <1>6 DEF Next

\* IInv holds in every reachable state.
THEOREM InvTheorem == Spec => []IInv
<1> QED BY InvInit, InvStep, PTL DEF Spec

\* The records of jobs, workers and start requests stay well formed.
THEOREM TypeTheorem == Spec => []TypeOK
<1>1. IInv => TypeOK
  BY DEF IInv
<1> QED BY <1>1, InvTheorem, PTL

\* A course never has two jobs that are pending or running, however starts,
\* recycles, claims and failures interleave.
THEOREM OneActiveTheorem == Spec => []OneActive
<1>1. IInv => OneActive
  BY DEF IInv
<1> QED BY <1>1, InvTheorem, PTL

\* A step that changes what a material has is a fenced statement, and comes
\* from the last claim's worker.
LEMMA NewestStep == IInv /\ [Next]_vars => [\A m \in Mats : mat'[m].by >= mat[m].by]_vars
<1> SUFFICES ASSUME IInv, [Next]_vars, NEW m \in Mats PROVE mat'[m].by >= mat[m].by
  BY DEF vars
<1>1. mat[m].by \in Nat /\ mat[m].by <= claims /\ TypeOK
  BY DEF IInv, TypeOK, Workers, VectorsKnown
<1>2. CASE mat' = mat
  BY <1>1, <1>2
<1>3. ASSUME NEW w \in Workers, NEW x \in Mats,
             BeginMaterial(w, x) \/ WriteChunks(w, x) \/ MakeReady(w, x) \/ RecordFailure(w, x), mat' # mat
      PROVE  mat'[m].by >= mat[m].by
  <2>1. Fenced(w) /\ wk[w].at = "run"
    BY <1>3 DEF BeginMaterial, WriteChunks, MakeReady, RecordFailure
  <2>2. w = claims
    BY <2>1 DEF IInv, Fenced, LatestOwns, Placed, Alive
  <2>3. \/ \E st : mat' = [mat EXCEPT ![x].st = st]
        \/ mat' = [mat EXCEPT ![x].by = w]
    BY <1>3 DEF BeginMaterial, WriteChunks, MakeReady, RecordFailure
  <2>4. mat'[m].by \in {mat[m].by, claims}
    BY <1>1, <2>2, <2>3 DEF TypeOK
  <2> QED BY <1>1, <2>2, <2>4 DEF Workers
<1>4. ASSUME Next
      PROVE  \/ mat' = mat
             \/ \E w \in Workers, x \in Mats :
                    BeginMaterial(w, x) \/ WriteChunks(w, x) \/ MakeReady(w, x) \/ RecordFailure(w, x)
  <2>1. ASSUME NEW s \in Requests,
               \/ \E k \in Keys \cup {None} : Lock(s, k)
               \/ Start(s) \/ ClaimFails(s) \/ CompensateFails(s) \/ RequestDies(s)
               \/ \E w \in Workers : Deadlock(s, w)
        PROVE  mat' = mat
    <3>1. CASE Acquire(s) \/ AcquireFails(s) \/ \E k \in Keys \cup {None} : Lock(s, k)
      BY <3>1 DEF Lock, Acquire, Create, Recycle, Attach, Return, AcquireFails
    <3>2. CASE StartClaims(s) \/ Check(s) \/ Compensate(s)
      BY <3>2 DEF StartClaims, Check, Compensate
    <3>3. CASE ClaimFails(s) \/ CompensateFails(s) \/ RequestDies(s) \/ \E w \in Workers : Deadlock(s, w)
      BY <3>3 DEF ClaimFails, CompensateFails, RequestDies, Deadlock
    <3> QED BY <2>1, <3>1, <3>2, <3>3 DEF Start
  <2>2. ASSUME NEW w \in Workers, NEW x \in Mats, MaterialFails(w, x) PROVE mat' = mat
    BY <2>2 DEF MaterialFails
  <2>3. ASSUME NEW w \in Workers,
               \/ WriteProgress(w) \/ Ends(w) \/ MarkCourse(w) \/ Finalize(w) \/ FailJob(w)
               \/ BeatLoses(w) \/ EndFails(w) \/ WorkerDies(w)
        PROVE  mat' = mat
    <3>1. CASE WriteProgress(w) \/ Ends(w) \/ MarkCourse(w)
      BY <3>1 DEF WriteProgress, Ends, At, MarkCourse
    <3>2. CASE Finalize(w) \/ FailJob(w)
      BY <3>2 DEF Finalize, FailJob, At
    <3>3. CASE BeatLoses(w) \/ EndFails(w) \/ WorkerDies(w)
      BY <3>3 DEF BeatLoses, EndFails, WorkerDies
    <3> QED BY <2>3, <3>1, <3>2, <3>3
  <2>4. ASSUME NEW i \in Ids, Poll(i) \/ Lapse(i) \/ GrowsOld(i) \/ ReplayEnds(i) PROVE mat' = mat
    BY <2>4 DEF Poll, Lapse, GrowsOld, ReplayEnds
  <2> QED BY <1>4, <2>1, <2>2, <2>3, <2>4 DEF Next, Work
<1> QED BY <1>2, <1>3, <1>4 DEF vars

\* An expired worker never overwrites the vectors of a newer run, even when the
\* two work for different jobs of the course (EMBEDDINGS.md states it).
THEOREM NewestRunTheorem == Spec => NewestRunWins
<1>1. IInv /\ [Next]_vars => [\A m \in Mats : mat'[m].by >= mat[m].by]_vars
  BY NewestStep
<1> QED BY <1>1, InvTheorem, PTL DEF Spec, NewestRunWins

\* The course is recorded by the last claim's worker, with every material its own.
LEMMA MarkStep ==
  IInv /\ [Next]_vars => [marked' # marked => \A m \in Mats : mat[m] = [st |-> "READY", by |-> marked']]_vars
<1> SUFFICES ASSUME IInv, [Next]_vars, marked' # marked, NEW m \in Mats
             PROVE  mat[m] = [st |-> "READY", by |-> marked']
  OBVIOUS
<1>1. ASSUME NEW x \in Requests, NEW k \in Keys \cup {None},
             Lock(x, k) \/ Start(x) \/ ClaimFails(x) \/ CompensateFails(x) \/ RequestDies(x)
             \/ \E v \in Workers : Deadlock(x, v)
      PROVE  marked' = marked
  BY <1>1 DEF Lock, Start, Acquire, Create, Recycle, Attach, Return, AcquireFails, StartClaims, Check,
              Compensate, ClaimFails, CompensateFails, RequestDies, Deadlock
<1>2. ASSUME NEW v \in Workers,
             Work(v) \/ (\E x \in Mats : MaterialFails(v, x)) \/ BeatLoses(v) \/ EndFails(v) \/ WorkerDies(v)
      PROVE  marked' = marked \/ MarkCourse(v)
  BY <1>2 DEF Work, MaterialFails, WriteProgress, Ends, At, Finalize, FailJob, BeatLoses, EndFails, WorkerDies,
              BeginMaterial, WriteChunks, MakeReady, RecordFailure, MatOnly
<1>3. ASSUME NEW i \in Ids, Poll(i) \/ Lapse(i) \/ GrowsOld(i) \/ ReplayEnds(i) PROVE marked' = marked
  BY <1>3 DEF Poll, Lapse, GrowsOld, ReplayEnds
<1>4. PICK w \in Workers : MarkCourse(w)
  BY <1>1, <1>2, <1>3 DEF Next, vars
<1>5. Fenced(w) /\ marked' = w /\ wk[w].at = "mark"
  BY <1>4 DEF MarkCourse
<1>6. w = claims
  BY <1>5 DEF IInv, Fenced, LatestOwns, Placed, Alive
<1> QED BY <1>5, <1>6 DEF IInv, MarkersDone, LatestStands

\* When the course is recorded as embedded, every material is READY with the
\* vectors of the run that records it.
THEOREM MarkedTheorem == Spec => MarkedIsIndexed
<1>1. IInv /\ [Next]_vars => [marked' # marked => \A m \in Mats : mat[m] = [st |-> "READY", by |-> marked']]_vars
  BY MarkStep
<1> QED BY <1>1, InvTheorem, PTL DEF Spec, MarkedIsIndexed

------------------------------------------------------------------------------
(* Progress.                                                                 *)

Indexed(x) == {m \in Mats : x.m[m] = "ok"}

\* The reports a worker has queued are in order, and none is ahead of its work.
Reports(x) ==
    \A a, b \in 1..Len(x.q) : /\ x.q[a] <= Cardinality(Indexed(x))
                              /\ a <= b => x.q[a] <= x.q[b]

\* A worker that has not reported yet that it starts.
Starting(x) == x.q = <<0>> /\ \A m \in Mats : x.m[m] = "wait"

\* One that could not: it knows, begins nothing and reports nothing.
Mute(x) == x.lost /\ x.q = <<>> /\ \A m \in Mats : x.m[m] \in {"wait", "stopped"}

\* What a job shows is behind the work of its worker and all it will still report.
Shown(x, d) == d <= Cardinality(Indexed(x)) /\ \A a \in 1..Len(x.q) : d <= x.q[a]

ProgressOf(w, x, R) ==
    x.at \notin {"none", "end"} =>
        /\ Reports(x)
        /\ x.at = "start" => Starting(x)
        /\ x.at # "start" /\ R[x.row].owner = w => Mute(x) \/ Shown(x, R[x.row].done)

ProgressInv == \A w \in Workers : ProgressOf(w, wk[w], row)

\* No row changes hands, and none shows anything else.
RowsStay == \A i \in Ids : row'[i].owner # 0 => row'[i].owner = row[i].owner /\ row'[i].done = row[i].done

\* Worker v and the row it works for stay as they are, or the row is taken from it.
LEMMA OthersProgress ==
  ASSUME IInv, ProgressInv, NEW v \in Workers, wk'[v] = wk[v],
         \A i \in Ids : row'[i].owner = v => row[i].owner = v /\ row'[i].done = row[i].done
  PROVE  ProgressOf(v, wk'[v], row')
<1>1. wk[v].at \notin {"none", "end"} => wk[v].row \in Ids
  BY DEF IInv, Placed, Alive
<1>2. ProgressOf(v, wk[v], row)
  BY DEF ProgressInv
<1> QED BY <1>1, <1>2 DEF ProgressOf

\* A step of one worker, w, which becomes x.
LEMMA OneProgress ==
  ASSUME IInv, ProgressInv, NEW w \in Workers, NEW x, wk' = [wk EXCEPT ![w] = x],
         \A v \in Workers \ {w}, i \in Ids :
             row'[i].owner = v => row[i].owner = v /\ row'[i].done = row[i].done,
         ProgressOf(w, x, row')
  PROVE  ProgressInv'
<1>1. wk \in [Workers -> WorkerType]
  BY DEF IInv, TypeOK
<1>2. wk'[w] = x /\ \A v \in Workers \ {w} : wk'[v] = wk[v]
  BY <1>1
<1>3. ASSUME NEW v \in Workers PROVE ProgressOf(v, wk'[v], row')
  BY <1>2, OthersProgress
<1> QED BY <1>3 DEF ProgressInv

\* A step that no worker and no row's progress takes part in.
LEMMA QuietProgress ==
  ASSUME IInv, ProgressInv, wk' = wk, RowsStay
  PROVE  ProgressInv'
<1>1. \A v \in Workers : v # 0
  BY DEF Workers
<1>2. ASSUME NEW v \in Workers PROVE ProgressOf(v, wk'[v], row')
  BY <1>1, OthersProgress DEF RowsStay
<1> QED BY <1>2 DEF ProgressInv

\* A claim: the new worker has reported nothing and has its first report queued.
LEMMA ClaimProgress ==
  ASSUME IInv, ProgressInv, NEW i \in Ids, NEW at \in {"start", "end"}, Claim(i, at)
  PROVE  ProgressInv'
<1> DEFINE x == [Idle EXCEPT !.at = at, !.row = i, !.owns = TRUE, !.q = <<0>>]
<1>1. claims + 1 \in Workers /\ wk' = [wk EXCEPT ![claims + 1] = x]
  BY ReEmbedConstants DEF Claim, IInv, TypeOK, Workers
<1>2. TypeOK
  BY DEF IInv
<1>3. \A v \in Workers \ {claims + 1}, j \in Ids :
          row'[j].owner = v => row[j].owner = v /\ row'[j].done = row[j].done
  BY <1>2, ClaimType
<1>4. x.q = <<0>> /\ x.at = at /\ \A m \in Mats : x.m[m] = "wait"
  BY DEF Idle
<1>5. Indexed(x) = {}
  BY <1>4 DEF Indexed
<1> HIDE DEF x
<1>6. Reports(x)
  <2>1. Cardinality(Indexed(x)) = 0
    BY <1>5, FS_EmptySet
  <2>2. Len(x.q) = 1 /\ x.q[1] = 0
    BY <1>4
  <2> QED BY <2>1, <2>2 DEF Reports
<1>7. ProgressOf(claims + 1, x, row')
  BY <1>4, <1>6 DEF ProgressOf, Starting
<1> QED BY <1>1, <1>3, <1>7, OneProgress

\* One more material through is one more indexed.
LEMMA OneMore ==
  ASSUME NEW x, NEW y, NEW m \in Mats, x.m[m] # "ok", \A k \in Mats \ {m} : y.m[k] = x.m[k]
  PROVE  /\ Cardinality(Indexed(x)) \in Nat
         /\ Cardinality(Indexed(y)) = Cardinality(Indexed(x)) + (IF y.m[m] = "ok" THEN 1 ELSE 0)
<1>1. IsFiniteSet(Indexed(x)) /\ m \notin Indexed(x)
  BY ReEmbedConstants, FS_Subset DEF Indexed
<1>2. Cardinality(Indexed(x)) \in Nat
  BY <1>1, FS_CardinalityType
<1>3. CASE y.m[m] = "ok"
  <2>1. Indexed(y) = Indexed(x) \cup {m}
    BY <1>3 DEF Indexed
  <2>2. Cardinality(Indexed(y)) = Cardinality(Indexed(x)) + 1
    BY <1>1, <2>1, FS_AddElement
  <2> QED BY <1>2, <1>3, <2>2
<1>4. CASE y.m[m] # "ok"
  <2>1. Indexed(y) = Indexed(x)
    BY <1>4 DEF Indexed
  <2> QED BY <1>2, <1>4, <2>1
<1> QED BY <1>3, <1>4

\* A report that is appended last is behind none before it (enqueueProgress).
LEMMA ReportKeeps ==
  ASSUME NEW x, NEW y, NEW n \in Nat, x.q \in Seq(Nat), y.q = Append(x.q, n),
         Cardinality(Indexed(x)) \in Nat, n = Cardinality(Indexed(y)), Cardinality(Indexed(x)) <= n,
         Reports(x)
  PROVE  /\ Reports(y)
         /\ \A d \in Nat : Shown(x, d) => Shown(y, d)
<1>1. /\ Len(x.q) \in Nat /\ Len(y.q) = Len(x.q) + 1 /\ y.q[Len(x.q) + 1] = n
      /\ \A a \in 1..Len(x.q) : y.q[a] = x.q[a] /\ x.q[a] \in Nat
  OBVIOUS
<1>2. \A a \in 1..Len(y.q) : y.q[a] \in Nat /\ y.q[a] <= n
  BY <1>1 DEF Reports
<1>3. \A a, b \in 1..Len(y.q) : a <= b => y.q[a] <= y.q[b]
  BY <1>1, <1>2 DEF Reports
<1>4. Reports(y)
  BY <1>2, <1>3 DEF Reports
<1>5. ASSUME NEW d \in Nat, Shown(x, d) PROVE Shown(y, d)
  <2>1. d <= n
    BY <1>5 DEF Shown
  <2>2. \A a \in 1..Len(y.q) : d <= y.q[a]
    BY <1>1, <1>5, <2>1 DEF Shown
  <2> QED BY <2>1, <2>2 DEF Shown
<1> QED BY <1>4, <1>5

\* A statement about a material.
LEMMA MaterialProgress ==
  ASSUME IInv, ProgressInv, NEW w \in Workers, NEW m \in Mats,
         BeginMaterial(w, m) \/ WriteChunks(w, m) \/ MakeReady(w, m) \/ MaterialFails(w, m) \/ RecordFailure(w, m)
  PROVE  ProgressInv'
<1> DEFINE x == wk[w]
           y == wk'[w]
<1>1. TypeOK /\ x \in WorkerType /\ x.at = "run" /\ row' = row /\ x.row \in Ids
  BY DEF IInv, TypeOK, Placed, Alive, BeginMaterial, WriteChunks, MakeReady, MaterialFails, RecordFailure, MatOnly
<1>2. ProgressOf(w, x, row)
  BY DEF ProgressInv
<1>3. x.m[m] \in {"wait", "embed", "written", "failing"}
  BY DEF BeginMaterial, WriteChunks, MakeReady, MaterialFails, RecordFailure
<1>4. PICK to \in Phases : (Step(w, m, to) /\ to # "ok") \/ Report(w, m, to)
  BY DEF BeginMaterial, WriteChunks, MakeReady, MaterialFails, RecordFailure, Phases
<1>5. /\ wk' \in [Workers -> WorkerType] /\ y.m[m] = to /\ y.at = "run" /\ y.row = x.row
      /\ \A k \in Mats \ {m} : y.m[k] = x.m[k]
      /\ \A v \in Workers \ {w} : wk'[v] = wk[v]
  BY <1>1, <1>4, MaterialType
<1>6. row[x.row].done \in Nat
  BY <1>1 DEF TypeOK, RowType
<1>7. /\ Cardinality(Indexed(x)) \in Nat
      /\ Cardinality(Indexed(y)) = Cardinality(Indexed(x)) + (IF to = "ok" THEN 1 ELSE 0)
  BY <1>3, <1>5, OneMore
<1>8. Reports(x) /\ (row[x.row].owner = w => Mute(x) \/ Shown(x, row[x.row].done))
  BY <1>1, <1>2 DEF ProgressOf
<1>9. CASE Step(w, m, to) /\ to # "ok"
  <2>1. y.q = x.q /\ y.lost = x.lost
    BY <1>1, <1>9 DEF Step, TypeOK, WorkerType
  <2>2. Mute(x) => to = "stopped"
    <3>1. Mute(x) => ~ CanContinue(w) /\ x.m[m] = "wait"
      BY <1>3 DEF Mute, CanContinue
    <3>2. ~ CanContinue(w) /\ x.m[m] = "wait" => Step(w, m, "stopped")
      BY DEF BeginMaterial, WriteChunks, MakeReady, MaterialFails, RecordFailure
    <3>3. Step(w, m, "stopped") => to = "stopped"
      BY <1>1, <1>5, MaterialType DEF Phases
    <3> QED BY <3>1, <3>2, <3>3
  <2>3. Mute(x) => Mute(y)
    BY <1>5, <2>1, <2>2 DEF Mute
  <2>4. Reports(y) /\ (Shown(x, row[x.row].done) => Shown(y, row[x.row].done))
    BY <1>7, <1>8, <1>9, <2>1 DEF Reports, Shown
  <2>5. ProgressOf(w, y, row')
    BY <1>1, <1>5, <1>8, <2>3, <2>4 DEF ProgressOf
  <2> HIDE DEF x, y
  <2>6. wk' = [wk EXCEPT ![w] = y]
    BY <1>1, <1>5 DEF y, TypeOK
  <2> QED BY <1>1, <2>5, <2>6, OneProgress
<1>10. CASE Report(w, m, to)
  <2> DEFINE n == Oks(w) + (IF to = "ok" THEN 1 ELSE 0)
  <2>1. n = Cardinality(Indexed(y)) /\ n \in Nat /\ Cardinality(Indexed(x)) <= n
    BY <1>7 DEF Oks, Indexed
  <2>2. y.q = Append(x.q, n)
    BY <1>1, <1>10 DEF Report, Enqueue, TypeOK, WorkerType
  <2>3. x.q \in Seq(Nat)
    BY <1>1 DEF WorkerType
  <2>4. ~ Mute(x)
    <3>1. x.m[m] \in {"written", "failing"}
      <4>1. ~ (\E t \in Phases : Step(w, m, t))
        <5>1. y.q # x.q
          BY <2>1, <2>2, <2>3
        <5>2. ASSUME NEW t \in Phases, Step(w, m, t) PROVE y.q = x.q
          BY <1>1, <5>2 DEF Step, TypeOK, WorkerType
        <5> QED BY <5>1, <5>2
      <4>2. \A t \in {"embed", "stopped", "written", "failing"} : t \in Phases
        BY DEF Phases
      <4> QED BY <4>1, <4>2 DEF BeginMaterial, WriteChunks, MakeReady, MaterialFails, RecordFailure
    <3> QED BY <3>1 DEF Mute
  <2> HIDE DEF n, x, y
  <2>5. Reports(y) /\ (Shown(x, row[x.row].done) => Shown(y, row[x.row].done))
    BY <1>6, <1>7, <1>8, <2>1, <2>2, <2>3, ReportKeeps
  <2>6. ProgressOf(w, y, row')
    BY <1>1, <1>5, <1>8, <2>4, <2>5 DEF ProgressOf
  <2>7. wk' = [wk EXCEPT ![w] = y]
    BY <1>1, <1>5 DEF y, TypeOK
  <2> QED BY <1>1, <2>6, <2>7, OneProgress
<1> QED BY <1>4, <1>9, <1>10

\* A worker that reports nothing and indexes nothing, and the row it may leave.
LEMMA SilentProgress ==
  ASSUME IInv, ProgressInv, NEW w \in Workers, NEW x, wk' = [wk EXCEPT ![w] = x],
         wk[w].at # "start", x.at # "start", x.at \notin {"none", "end"} => Alive(w) /\ x.row = wk[w].row,
         x.at \notin {"none", "end"} => x.q = wk[w].q /\ x.m = wk[w].m /\ (wk[w].lost => x.lost),
         RowsStay
  PROVE  ProgressInv'
<1>1. ProgressOf(w, wk[w], row) /\ w # 0
  BY DEF ProgressInv, Workers
<1>2. \A v \in Workers, i \in Ids : row'[i].owner = v => row[i].owner = v /\ row'[i].done = row[i].done
  BY DEF RowsStay, Workers
<1>3. CASE x.at \in {"none", "end"}
  <2>1. ProgressOf(w, x, row')
    BY <1>3 DEF ProgressOf
  <2> QED BY <1>2, <2>1, OneProgress
<1>4. CASE x.at \notin {"none", "end"}
  <2>1. Alive(w) /\ wk[w].row \in Ids /\ x.row = wk[w].row
    BY <1>4 DEF IInv, Placed
  <2>2. Indexed(x) = Indexed(wk[w])
    BY <1>4 DEF Indexed
  <2>3. Reports(x)
    BY <1>1, <1>4, <2>1, <2>2 DEF ProgressOf, Reports, Alive
  <2>4. (Mute(wk[w]) => Mute(x)) /\ \A d : Shown(wk[w], d) => Shown(x, d)
    BY <1>4, <2>2 DEF Mute, Shown
  <2>5. ProgressOf(w, x, row')
    BY <1>1, <1>2, <2>1, <2>3, <2>4 DEF ProgressOf, Alive
  <2> QED BY <1>2, <2>5, OneProgress
<1> QED BY <1>3, <1>4

\* The first report of the queue is the smallest: writing it leaves the row behind
\* the rest of the queue, and is never a step back.
LEMMA WriteProgressStep ==
  ASSUME IInv, ProgressInv, NEW w \in Workers, WriteProgress(w)
  PROVE  /\ ProgressInv'
         /\ \A i \in Ids : row[i].owner # 0 /\ row'[i].owner = row[i].owner /\ wk[row[i].owner].at # "start"
                => row'[i].done >= row[i].done
<1> DEFINE x == wk[w]
           i == x.row
           n == Head(x.q)
           rest == [x EXCEPT !.at = "run", !.q = Tail(@)]
           y == wk'[w]
<1>1. TypeOK /\ x \in WorkerType /\ x.at \in {"start", "run"} /\ x.q # <<>> /\ i \in Ids /\ w # 0
  BY DEF IInv, TypeOK, WriteProgress, Placed, Alive, Workers
<1>2. ProgressOf(w, x, row)
  BY DEF ProgressInv
<1>3. x.q \in Seq(Nat) /\ row[i].done \in Nat /\ row \in [Ids -> RowType]
  BY <1>1 DEF TypeOK, WorkerType, RowType
<1>4. /\ Len(x.q) \in Nat \ {0} /\ Len(Tail(x.q)) = Len(x.q) - 1 /\ n = x.q[1] /\ n \in Nat
      /\ Tail(x.q) \in Seq(Nat) /\ \A a \in 1..Len(Tail(x.q)) : Tail(x.q)[a] = x.q[a + 1]
  BY <1>1, <1>3, HeadTailProperties
<1>5. Reports(x) /\ (x.at = "start" => Starting(x))
      /\ (x.at # "start" /\ row[i].owner = w => Shown(x, row[i].done))
  BY <1>1, <1>2 DEF ProgressOf, Mute
<1>6. PICK z : /\ wk' = [wk EXCEPT ![w] = z] /\ z.at = "run" /\ z.row = i /\ z.q = Tail(x.q) /\ z.m = x.m
               /\ \/ row' = [row EXCEPT ![i].done = n] /\ Fenced(w)
                  \/ row' = row /\ z.lost
  <2>1. rest.at = "run" /\ rest.row = i /\ rest.q = Tail(x.q) /\ rest.m = x.m /\ rest \in WorkerType
    BY <1>1, <1>3, <1>4 DEF WorkerType
  <2>2. \A u \in {[rest EXCEPT !.owns = TRUE], Lose(rest)} :
            u.at = "run" /\ u.row = i /\ u.q = Tail(x.q) /\ u.m = x.m
    <3> HIDE DEF rest
    <3> QED BY <2>1 DEF Lose, WorkerType
  <2>3. Lose(rest).lost
    <3> HIDE DEF rest
    <3> QED BY <2>1 DEF Lose, WorkerType
  <2> QED BY <2>2, <2>3 DEF WriteProgress
<1>7. Indexed(z) = Indexed(x)
  BY <1>6 DEF Indexed
<1>13. Fenced(w) => row[i].owner = w
  BY DEF Fenced
<1> HIDE DEF n, rest, y
<1>11. \A a \in 1..Len(z.q) : a + 1 \in 1..Len(x.q) /\ 1 <= a + 1 /\ z.q[a] = x.q[a + 1]
  BY <1>4, <1>6
<1>12. 1 \in 1..Len(x.q)
  BY <1>4
<1>8. Reports(z)
  <2> SUFFICES ASSUME NEW a \in 1..Len(z.q), NEW b \in 1..Len(z.q)
               PROVE  z.q[a] <= Cardinality(Indexed(z)) /\ (a <= b => z.q[a] <= z.q[b])
    BY DEF Reports
  <2>1. a + 1 \in 1..Len(x.q) /\ b + 1 \in 1..Len(x.q) /\ (a <= b => a + 1 <= b + 1)
    BY <1>11
  <2> QED BY <1>5, <1>7, <1>11, <2>1 DEF Reports
<1>9. CASE row' = [row EXCEPT ![i].done = n] /\ Fenced(w)
  <2>1. row'[i].done = n /\ row'[i].owner = w /\ row[i].owner = w /\ \A j \in Ids \ {i} : row'[j] = row[j]
    BY <1>1, <1>3, <1>9, <1>13 DEF RowType
  <2>2. Shown(z, n)
    BY <1>4, <1>5, <1>7, <1>11, <1>12 DEF Reports, Shown
  <2>3. ProgressOf(w, z, row')
    BY <1>6, <1>8, <2>1, <2>2 DEF ProgressOf
  <2>4. ProgressInv'
    BY <1>6, <2>1, <2>3, OneProgress
  <2>5. x.at # "start" => row'[i].done >= row[i].done
    BY <1>3, <1>4, <1>5, <2>1 DEF Shown
  <2>6. \A j \in Ids \ {i} : row'[j].done >= row[j].done
    BY <1>3, <2>1 DEF RowType
  <2> QED BY <2>1, <2>4, <2>5, <2>6
<1>10. CASE row' = row /\ z.lost
  <2>1. ASSUME x.at = "start" PROVE Mute(z)
    <3>1. x.q = <<0>> /\ \A m \in Mats : x.m[m] = "wait"
      BY <1>5, <2>1 DEF Starting
    <3>2. z.q = <<>>
      BY <1>6, <3>1
    <3>3. \A m \in Mats : z.m[m] = "wait"
      BY <1>6, <3>1
    <3> QED BY <1>10, <3>2, <3>3 DEF Mute
  <2>2. x.at # "start" /\ row[i].owner = w => Shown(z, row[i].done)
    BY <1>5, <1>7, <1>11 DEF Shown
  <2>3. ProgressOf(w, z, row')
    BY <1>6, <1>8, <1>10, <2>1, <2>2 DEF ProgressOf
  <2>4. ProgressInv'
    BY <1>6, <1>10, <2>3, OneProgress
  <2>5. \A j \in Ids : row'[j].done >= row[j].done
    BY <1>3, <1>10 DEF RowType
  <2> QED BY <2>4, <2>5
<1> QED BY <1>6, <1>9, <1>10

\* Rows that stay, or that their worker leaves, show no less.
LEMMA RowsStayGrow ==
  ASSUME TypeOK, RowsStay
  PROVE  \A i \in Ids : row[i].owner # 0 /\ row'[i].owner = row[i].owner => row'[i].done >= row[i].done
<1>1. \A i \in Ids : row[i].done \in Nat
  BY DEF TypeOK, RowType
<1> QED BY <1>1 DEF RowsStay

\* The end of a worker: its row keeps what it shows, or has no owner any more.
LEMMA EndProgress ==
  ASSUME IInv, ProgressInv, NEW w \in Workers,
         Ends(w) \/ MarkCourse(w) \/ EndFails(w) \/ Finalize(w) \/ FailJob(w) \/ WorkerDies(w) \/ BeatLoses(w)
  PROVE  ProgressInv' /\ RowsStay
<1> DEFINE x == wk[w]
           i == x.row
           dead == [Idle EXCEPT !.at = "end"]
<1>1. TypeOK /\ x \in WorkerType /\ Alive(w) /\ i \in Ids /\ row \in [Ids -> RowType]
      /\ ProgressOf(w, x, row) /\ w # 0
  BY DEF IInv, TypeOK, Placed, Alive, ProgressInv, Workers, Ends, Settled, MarkCourse, EndFails, Finalize,
         FailJob, WorkerDies, BeatLoses
<1>2. row' = row => RowsStay
  BY DEF RowsStay
<1>3. ASSUME NEW st, NEW d, row' \in {row, [row EXCEPT ![i] = EndRow(@, st)],
                                      [row EXCEPT ![i] = [EndRow(@, st) EXCEPT !.done = d]]}
      PROVE  RowsStay
  <2>1. row[i] \in RowType
    BY <1>1
  <2>2. EndRow(row[i], st).owner = 0 /\ [EndRow(row[i], st) EXCEPT !.done = d].owner = 0
    BY <2>1 DEF EndRow, RowType
  <2>3. row' = row \/ (row'[i].owner = 0 /\ \A j \in Ids \ {i} : row'[j] = row[j])
    BY <1>1, <1>3, <2>2
  <2> QED BY <2>3 DEF RowsStay
<1>4. dead.at = "end"
  BY DEF Idle
<1>5. CASE (Ends(w) \/ MarkCourse(w) \/ EndFails(w) \/ (Finalize(w) /\ At(w, "error")))
  <2>1. PICK at \in {"mark", "final", "error"} : wk' = [wk EXCEPT ![w].at = at]
    BY <1>5 DEF Ends, MarkCourse, EndFails, At
  <2>2. row' = row /\ x.at # "start"
    BY <1>5 DEF Ends, Settled, MarkCourse, EndFails, Finalize, At
  <2> DEFINE y == [x EXCEPT !.at = at]
  <2>3. y.at = at /\ y.row = i /\ y.q = x.q /\ y.m = x.m /\ y.lost = x.lost /\ wk' = [wk EXCEPT ![w] = y]
    BY <1>1, <2>1 DEF WorkerType, TypeOK
  <2> HIDE DEF y
  <2> QED BY <1>1, <1>2, <2>2, <2>3, SilentProgress
<1>6. CASE BeatLoses(w)
  <2> DEFINE y == Lose(x)
  <2>1. y.at = x.at /\ y.row = i /\ y.q = x.q /\ y.m = x.m /\ y.lost /\ wk' = [wk EXCEPT ![w] = y] /\ row' = row
    BY <1>1, <1>6 DEF Lose, WorkerType, BeatLoses, TypeOK
  <2> HIDE DEF y
  <2>2. CASE x.at # "start"
    BY <1>1, <1>2, <2>1, <2>2, SilentProgress
  <2>3. CASE x.at = "start"
    <3>1. Reports(y) /\ Starting(y)
      BY <1>1, <2>1, <2>3 DEF ProgressOf, Reports, Starting, Indexed
    <3>2. ProgressOf(w, y, row')
      BY <2>1, <2>3, <3>1 DEF ProgressOf
    <3> QED BY <1>2, <2>1, <3>2, OneProgress
  <2> QED BY <2>2, <2>3
<1>7. ASSUME wk' = [wk EXCEPT ![w] = dead], RowsStay PROVE ProgressInv'
  <2>1. ProgressOf(w, dead, row')
    BY <1>4 DEF ProgressOf
  <2>2. \A v \in Workers \ {w}, j \in Ids : row'[j].owner = v => row[j].owner = v /\ row'[j].done = row[j].done
    BY <1>7 DEF RowsStay, Workers
  <2> HIDE DEF dead
  <2> QED BY <1>7, <2>1, <2>2, OneProgress
<1>8. CASE FailJob(w) \/ WorkerDies(w) \/ (Finalize(w) /\ ~ At(w, "error"))
  <2>1. wk' = [wk EXCEPT ![w] = dead]
    BY <1>8 DEF FailJob, WorkerDies, Finalize
  <2>2. FailJob(w) => RowsStay
    BY <1>2, <1>3 DEF FailJob
  <2>3. WorkerDies(w) => RowsStay
    BY <1>2 DEF WorkerDies
  <2>4. ASSUME Finalize(w), ~ At(w, "error") PROVE RowsStay
    <3>1. \E st : row' \in {row, [row EXCEPT ![i] = [EndRow(@, st) EXCEPT !.done = Oks(w)]]}
      BY <2>4 DEF Finalize
    <3> QED BY <1>3, <3>1
  <2> QED BY <1>7, <1>8, <2>1, <2>2, <2>3, <2>4
<1> QED BY <1>5, <1>6, <1>8

\* A start request hands a job to nobody but the worker of its claim.
LEMMA RequestProgress ==
  ASSUME IInv, ProgressInv, NEW s \in Requests,
         \/ \E k \in Keys \cup {None} : Lock(s, k)
         \/ Start(s) \/ ClaimFails(s) \/ CompensateFails(s) \/ RequestDies(s)
  PROVE  \/ \E i \in Ids, at \in {"start", "end"} : Claim(i, at)
         \/ wk' = wk /\ RowsStay
<1> DEFINE i == req[s].row
<1>1. TypeOK /\ row \in [Ids -> RowType]
  BY DEF IInv, TypeOK
<1>2. row' = row => RowsStay
  BY DEF RowsStay
<1>3. ASSUME NEW j \in Ids, NEW x, row' = [row EXCEPT ![j] = x],
             x.owner = 0 \/ (x.owner = row[j].owner /\ x.done = row[j].done)
      PROVE  RowsStay
  BY <1>1, <1>3 DEF RowsStay
<1>4. CASE \E j \in Ids : Create(s, j)
  <2>1. PICK j \in Ids : Create(s, j)
    BY <1>4
  <2>2. [NoRow EXCEPT !.st = "PENDING", !.key = req[s].key].owner = 0
    BY DEF NoRow
  <2> QED BY <1>3, <2>1, <2>2 DEF Create
<1>5. CASE Recycle(s)
  <2> DEFINE x == [row[i] EXCEPT !.st = "PENDING", !.owner = 0, !.lease = "none", !.done = 0,
                     !.replayed = TRUE, !.key = IF row[i].key = None THEN req[s].key ELSE row[i].key]
  <2>1. i \in Ids /\ row[i] \in RowType
    BY <1>1, <1>5, OwnJob DEF Recycle
  <2>2. x.owner = 0 /\ row' = [row EXCEPT ![i] = x]
    BY <1>1, <1>5, <2>1 DEF Recycle, RowType
  <2> HIDE DEF x
  <2> QED BY <1>3, <1>5, <2>1, <2>2 DEF Recycle
<1>6. CASE Attach(s)
  <2> DEFINE x == [row[i] EXCEPT !.key = req[s].key]
  <2>1. i \in Ids /\ row[i] \in RowType
    BY <1>1, <1>6, OwnJob DEF Attach
  <2>2. x.owner = row[i].owner /\ x.done = row[i].done /\ row' = [row EXCEPT ![i] = x]
    BY <1>1, <1>6, <2>1 DEF Attach, RowType
  <2> HIDE DEF x
  <2> QED BY <1>3, <1>6, <2>1, <2>2 DEF Attach
<1>7. CASE Compensate(s)
  <2>1. i \in Ids
    BY <1>7, OwnJob DEF Compensate
  <2>2. [NoRow EXCEPT !.st = "deleted"].owner = 0
    BY DEF NoRow
  <2> QED BY <1>2, <1>3, <1>7, <2>1, <2>2 DEF Compensate
<1>8. CASE (\E k \in Keys \cup {None} : Lock(s, k)) \/ Return(s) \/ AcquireFails(s) \/ Check(s)
           \/ CompensateFails(s) \/ RequestDies(s)
  BY <1>2, <1>8 DEF Lock, Return, AcquireFails, Check, CompensateFails, RequestDies
<1>9. CASE StartClaims(s) \/ ClaimFails(s)
  <2>1. i \in Ids
    BY <1>9, OwnJob DEF StartClaims, ClaimFails
  <2> QED BY <1>2, <1>9, <2>1 DEF StartClaims, ClaimFails
<1> QED BY <1>4, <1>5, <1>6, <1>7, <1>8, <1>9 DEF Start, Acquire

\* A claim gives a job to another worker than it had.
LEMMA ClaimChangesHands ==
  ASSUME IInv, NEW j \in Ids, NEW at \in {"start", "end"}, Claim(j, at)
  PROVE  \A i \in Ids : row'[i].owner = row[i].owner => row'[i].done >= row[i].done
<1>1. TypeOK
  BY DEF IInv
<1>2. /\ row'[j].owner = claims' /\ claims' = claims + 1 /\ claims \in Nat
      /\ \A i \in Ids \ {j} : row'[i] = row[i]
  BY <1>1, ClaimType DEF TypeOK
<1>3. row[j].owner # claims + 1
  BY <1>1, <1>2 DEF IInv, TypeOK, LatestOwns
<1>4. \A i \in Ids : row[i].done \in Nat
  BY <1>1 DEF TypeOK, RowType
<1> QED BY <1>2, <1>3, <1>4

\* Every step keeps the progress behind what is queued, and none takes it back.
LEMMA ProgressStep ==
  ASSUME IInv, ProgressInv, Next
  PROVE  /\ ProgressInv'
         /\ \A i \in Ids : row[i].owner # 0 /\ row'[i].owner = row[i].owner /\ wk[row[i].owner].at # "start"
                => row'[i].done >= row[i].done
<1> DEFINE Grows == \A i \in Ids : row[i].owner # 0 /\ row'[i].owner = row[i].owner
                                   /\ wk[row[i].owner].at # "start" => row'[i].done >= row[i].done
<1>1. TypeOK /\ row \in [Ids -> RowType] /\ wk \in [Workers -> WorkerType]
  BY DEF IInv, TypeOK
<1>2. ASSUME NEW i \in Ids, NEW at \in {"start", "end"}, Claim(i, at) PROVE ProgressInv' /\ Grows
  BY <1>2, ClaimProgress, ClaimChangesHands
<1>3. ASSUME RowsStay PROVE Grows
  BY <1>1, <1>3, RowsStayGrow
<1>4. ASSUME NEW s \in Requests,
             \/ \E k \in Keys \cup {None} : Lock(s, k)
             \/ Start(s) \/ ClaimFails(s) \/ CompensateFails(s) \/ RequestDies(s)
      PROVE  ProgressInv' /\ Grows
  <2> HIDE DEF Grows
  <2> QED BY <1>2, <1>3, <1>4, RequestProgress, QuietProgress
<1>5. ASSUME NEW s \in Requests, NEW w \in Workers, Deadlock(s, w) PROVE ProgressInv' /\ Grows
  <2>1. RowsStay
    BY <1>5 DEF Deadlock, RowsStay
  <2>2. CASE wk' = wk
    BY <1>3, <2>1, <2>2, QuietProgress
  <2>3. CASE wk' = [wk EXCEPT ![w].at = "error"]
    <3> DEFINE y == [wk[w] EXCEPT !.at = "error"]
    <3>1. /\ y.at = "error" /\ y.row = wk[w].row /\ y.q = wk[w].q /\ y.m = wk[w].m /\ y.lost = wk[w].lost
          /\ wk' = [wk EXCEPT ![w] = y] /\ wk[w].at = "mark" /\ Alive(w)
      BY <1>1, <1>5, <2>3 DEF WorkerType, Deadlock, Marking, Alive
    <3> HIDE DEF y
    <3> QED BY <1>3, <2>1, <3>1, SilentProgress
  <2> QED BY <1>5, <2>2, <2>3 DEF Deadlock
<1>6. ASSUME NEW w \in Workers,
             Work(w) \/ (\E m \in Mats : MaterialFails(w, m)) \/ BeatLoses(w) \/ EndFails(w) \/ WorkerDies(w)
      PROVE  ProgressInv' /\ Grows
  <2>1. ASSUME NEW m \in Mats,
               BeginMaterial(w, m) \/ WriteChunks(w, m) \/ MakeReady(w, m) \/ MaterialFails(w, m)
               \/ RecordFailure(w, m)
        PROVE  ProgressInv' /\ Grows
    <3>1. RowsStay
      BY <2>1 DEF RowsStay, BeginMaterial, WriteChunks, MakeReady, MaterialFails, RecordFailure, MatOnly
    <3> QED BY <1>3, <2>1, <3>1, MaterialProgress
  <2>2. CASE WriteProgress(w)
    BY <2>2, WriteProgressStep
  <2>3. CASE Ends(w) \/ MarkCourse(w) \/ EndFails(w) \/ Finalize(w) \/ FailJob(w) \/ WorkerDies(w) \/ BeatLoses(w)
    BY <1>3, <2>3, EndProgress
  <2> HIDE DEF Grows
  <2> QED BY <1>6, <2>1, <2>2, <2>3 DEF Work
<1>7. ASSUME NEW i \in Ids, Poll(i) \/ Lapse(i) \/ GrowsOld(i) \/ ReplayEnds(i) PROVE ProgressInv' /\ Grows
  <2>1. CASE Poll(i)
    BY <1>2, <2>1 DEF Poll
  <2>2. CASE Lapse(i) \/ GrowsOld(i) \/ ReplayEnds(i)
    <3>1. RowsStay /\ wk' = wk
      BY <1>1, <2>2 DEF Lapse, GrowsOld, ReplayEnds, RowsStay, RowType
    <3> QED BY <1>3, <3>1, QuietProgress
  <2> QED BY <1>7, <2>1, <2>2
<1> HIDE DEF Grows
<1>8. ProgressInv' /\ Grows
  BY <1>4, <1>5, <1>6, <1>7 DEF Next
<1> QED BY <1>8 DEF Grows

\* The progress of every job is behind its worker's queue and work, at first and
\* after every step.
LEMMA ProgressInit == Init => ProgressInv
  BY DEF Init, ProgressInv, ProgressOf, Idle

LEMMA ProgressKept == IInv /\ ProgressInv /\ [Next]_vars => ProgressInv'
<1>1. IInv /\ ProgressInv /\ UNCHANGED vars => ProgressInv'
  BY QuietProgress DEF vars, RowsStay
<1> QED BY <1>1, ProgressStep

\* The progress of a job, once its worker has reported that it starts, never goes
\* back while the job is that worker's: reports are queued in the order of the
\* counts, written in that order, and a worker whose first report failed writes
\* no other (executeClaimedReEmbedJob).
THEOREM ProgressTheorem == Spec => ProgressGrows
<1> DEFINE Grows == \A i \in Ids : row[i].owner # 0 /\ row'[i].owner = row[i].owner
                                   /\ wk[row[i].owner].at # "start" => row'[i].done >= row[i].done
<1>1. IInv /\ ProgressInv /\ [Next]_vars => [Grows]_vars
  BY ProgressStep
<1> QED BY <1>1, ProgressInit, ProgressKept, InvTheorem, PTL DEF Spec, ProgressGrows

------------------------------------------------------------------------------
(* What a job says of the materials.                                         *)

\* The materials that have the vectors of worker w and are READY.
IndexedBy(w) == {m \in Mats : mat[m] = [st |-> "READY", by |-> w]}

\* A job that ends without failing says how many materials its worker indexed, and
\* COMPLETED when that is all of them.
OutcomeIsTrue ==
    [][\A i \in Ids : row[i].st = "RUNNING" /\ row'[i].st \in {"COMPLETED", "PARTIAL"} =>
          /\ row'[i].done = Cardinality(IndexedBy(row[i].owner))
          /\ row'[i].st = "COMPLETED" <=> IndexedBy(row[i].owner) = Mats]_vars

\* The progress a running job writes is never ahead of the materials.
ReportIsTrue ==
    [][\A i \in Ids : row'[i].owner # 0 /\ row'[i].done # row[i].done =>
          row'[i].done <= Cardinality(IndexedBy(row[i].owner))]_vars

\* What the last claim's worker has not indexed does not pass for indexed by it.
TruthOf(w) ==
    w = claims /\ Alive(w) => \A m \in Mats :
        /\ wk[w].m[m] \in {"embed", "written"} => mat[m].st = "PROCESSING"
        /\ wk[w].m[m] \in {"wait", "embed"} => mat[m].by # w
        /\ wk[w].m[m] # "ok" => mat[m] # [st |-> "READY", by |-> w]

TruthInv == \A w \in Workers : TruthOf(w)

\* A step that no material takes part in.
LEMMA TruthSame ==
  ASSUME TruthInv, UNCHANGED <<mat, claims>>,
         \A w \in Workers : Alive(w)' => Alive(w) /\ wk'[w].m = wk[w].m
  PROVE  TruthInv'
  BY DEF TruthInv, TruthOf

\* A claim's worker begins with vectors that are all older.
LEMMA TruthClaim ==
  ASSUME IInv, NEW i \in Ids, NEW at \in {"start", "end"}, Claim(i, at), mat' = mat
  PROVE  TruthInv'
<1>1. TypeOK /\ claims' = claims + 1 /\ claims \in Nat /\ \A m \in Mats : wk'[claims'].m[m] = "wait"
  BY ClaimType DEF IInv, TypeOK
<1>2. \A m \in Mats : mat'[m].by # claims'
  BY <1>1 DEF IInv, TypeOK, VectorsKnown, Workers
<1> QED BY <1>1, <1>2 DEF TruthInv, TruthOf

\* A statement about a material: fenced, it is the last claim's and moves the
\* material with its own record of it; refused, it only stops the worker.
LEMMA TruthMaterial ==
  ASSUME IInv, TruthInv, NEW w \in Workers, NEW m \in Mats,
         BeginMaterial(w, m) \/ WriteChunks(w, m) \/ MakeReady(w, m) \/ MaterialFails(w, m) \/ RecordFailure(w, m)
  PROVE  TruthInv'
<1> DEFINE MatType == [st : {"READY", "PROCESSING", "FAILED"}, by : {0} \cup Workers]
<1>1. TypeOK /\ wk[w].at = "run" /\ Alive(w) /\ wk[w].row \in Ids /\ claims' = claims
  BY DEF IInv, TypeOK, Placed, Alive, BeginMaterial, WriteChunks, MakeReady, MaterialFails, RecordFailure, MatOnly
<1>2. Fenced(w) => w = claims
  BY <1>1 DEF IInv, Fenced, LatestOwns
<1>3. ASSUME NEW to \in Phases, Step(w, m, to) \/ Report(w, m, to),
             NEW x \in MatType, mat' = [mat EXCEPT ![m] = x], x = mat[m] \/ w = claims,
             w = claims => /\ to \in {"embed", "written"} => x.st = "PROCESSING"
                           /\ to \in {"wait", "embed"} => x.by # w
                           /\ to # "ok" => x # [st |-> "READY", by |-> w]
      PROVE  TruthInv'
  <2>1. /\ wk'[w].m[m] = to /\ wk'[w].at = wk[w].at
        /\ \A k \in Mats \ {m} : wk'[w].m[k] = wk[w].m[k] /\ mat'[k] = mat[k]
        /\ \A v \in Workers \ {w} : wk'[v] = wk[v]
        /\ mat'[m] = x
    BY <1>1, <1>3, MaterialType DEF TypeOK
  <2>2. TruthOf(w)'
    BY <1>1, <1>3, <2>1 DEF TruthInv, TruthOf, Alive
  <2>3. ASSUME NEW v \in Workers \ {w} PROVE TruthOf(v)'
    <3>1. v = claims => mat' = mat
      BY <1>1, <1>3 DEF TypeOK
    <3> QED BY <1>1, <2>1, <3>1 DEF TruthInv, TruthOf, Alive
  <2> QED BY <2>2, <2>3 DEF TruthInv
<1>4. mat[m] \in MatType /\ mat = [mat EXCEPT ![m] = mat[m]]
  BY <1>1 DEF TypeOK
<1>5. w = claims => /\ wk[w].m[m] \in {"embed", "written"} => mat[m].st = "PROCESSING"
                    /\ wk[w].m[m] \in {"wait", "embed"} => mat[m].by # w
                    /\ wk[w].m[m] # "ok" => mat[m] # [st |-> "READY", by |-> w]
  BY <1>1 DEF TruthInv, TruthOf
<1>6. ASSUME NEW to \in {"stopped", "failing", "bad"}, Step(w, m, to) \/ Report(w, m, to), mat' = mat,
             wk[w].m[m] # "ok"
      PROVE  TruthInv'
  <2>1. to \in Phases
    BY DEF Phases
  <2> HIDE DEF MatType
  <2> QED BY <1>3, <1>4, <1>5, <1>6, <2>1
<1>7. CASE BeginMaterial(w, m)
  <2>1. CASE Fenced(w) /\ Step(w, m, "embed") /\ mat' = [mat EXCEPT ![m].st = "PROCESSING"]
    <3> DEFINE x == [mat[m] EXCEPT !.st = "PROCESSING"]
    <3>1. x \in MatType /\ mat' = [mat EXCEPT ![m] = x] /\ x.st = "PROCESSING" /\ x.by = mat[m].by
      BY <1>1, <1>4, <2>1 DEF TypeOK
    <3>2. x # [st |-> "READY", by |-> w] /\ (w = claims => x.by # w)
      BY <1>5, <1>7, <3>1 DEF BeginMaterial
    <3> QED BY <1>2, <1>3, <2>1, <3>1, <3>2 DEF Phases
  <2> QED BY <1>6, <1>7, <2>1 DEF BeginMaterial
<1>8. CASE WriteChunks(w, m)
  <2>1. CASE Fenced(w) /\ Step(w, m, "written") /\ mat' = [mat EXCEPT ![m].by = w]
    <3> DEFINE x == [mat[m] EXCEPT !.by = w]
    <3>1. x \in MatType /\ mat' = [mat EXCEPT ![m] = x] /\ x.st = mat[m].st
      BY <1>1, <1>4, <2>1 DEF TypeOK
    <3>2. x.st = "PROCESSING" /\ x # [st |-> "READY", by |-> w]
      BY <1>2, <1>5, <1>8, <2>1, <3>1 DEF WriteChunks
    <3> QED BY <1>2, <1>3, <2>1, <3>1, <3>2 DEF Phases
  <2> QED BY <1>6, <1>8, <2>1 DEF WriteChunks
<1>9. CASE MakeReady(w, m)
  <2>1. CASE Fenced(w) /\ Report(w, m, "ok") /\ mat' = [mat EXCEPT ![m].st = "READY"]
    <3> DEFINE x == [mat[m] EXCEPT !.st = "READY"]
    <3>1. x \in MatType /\ mat' = [mat EXCEPT ![m] = x]
      BY <1>1, <1>4, <2>1 DEF TypeOK
    <3> QED BY <1>2, <1>3, <2>1, <3>1 DEF Phases
  <2> QED BY <1>6, <1>9, <2>1 DEF MakeReady
<1>10. CASE MaterialFails(w, m)
  BY <1>6, <1>10 DEF MaterialFails
<1>11. CASE RecordFailure(w, m)
  <2>1. CASE Fenced(w) /\ Report(w, m, "bad") /\ mat' = [mat EXCEPT ![m].st = "FAILED"]
    <3> DEFINE x == [mat[m] EXCEPT !.st = "FAILED"]
    <3>1. x \in MatType /\ mat' = [mat EXCEPT ![m] = x] /\ x.st = "FAILED"
      BY <1>1, <1>4, <2>1 DEF TypeOK
    <3>2. x # [st |-> "READY", by |-> w]
      BY <3>1
    <3> QED BY <1>2, <1>3, <2>1, <3>1, <3>2 DEF Phases
  <2> QED BY <1>6, <1>11, <2>1 DEF RecordFailure
<1> QED BY <1>7, <1>8, <1>9, <1>10, <1>11

\* A start request claims a job for a new worker, or leaves the workers alone.
LEMMA RequestClaims ==
  ASSUME IInv, NEW s \in Requests,
         \/ \E k \in Keys \cup {None} : Lock(s, k)
         \/ Start(s) \/ ClaimFails(s) \/ CompensateFails(s) \/ RequestDies(s)
  PROVE  mat' = mat /\ (UNCHANGED <<wk, claims>> \/ \E i \in Ids, at \in {"start", "end"} : Claim(i, at))
<1>1. CASE StartClaims(s) \/ ClaimFails(s)
  <2>1. req[s].row \in Ids
    BY <1>1, OwnJob DEF StartClaims, ClaimFails
  <2> QED BY <1>1, <2>1 DEF StartClaims, ClaimFails
<1>2. CASE ~ StartClaims(s) /\ ~ ClaimFails(s)
  BY <1>2 DEF Lock, Start, Acquire, Create, Recycle, Attach, Return, AcquireFails, Check, Compensate,
              CompensateFails, RequestDies
<1> QED BY <1>1, <1>2

\* Apart from the materials a worker's steps keep its record of them, or end it.
LEMMA WorkerKeepsRecord ==
  ASSUME TypeOK, NEW w \in Workers,
         WriteProgress(w) \/ BeatLoses(w) \/ Ends(w) \/ MarkCourse(w) \/ EndFails(w)
         \/ Finalize(w) \/ FailJob(w) \/ WorkerDies(w) \/ \E s \in Requests : Deadlock(s, w)
  PROVE  /\ UNCHANGED <<mat, claims>>
         /\ \A v \in Workers : Alive(v)' => Alive(v) /\ wk'[v].m = wk[v].m
<1>1. wk[w] \in WorkerType /\ wk \in [Workers -> WorkerType]
  BY DEF TypeOK
<1>2. UNCHANGED <<mat, claims>>
  BY DEF WriteProgress, BeatLoses, Ends, At, MarkCourse, EndFails, Finalize, FailJob, WorkerDies, Deadlock
<1>3. ASSUME NEW x, wk' = [wk EXCEPT ![w] = x], x.at = "end" \/ (Alive(w) /\ x.m = wk[w].m)
      PROVE  \A v \in Workers : Alive(v)' => Alive(v) /\ wk'[v].m = wk[v].m
  BY <1>1, <1>3 DEF Alive
<1>4. CASE WriteProgress(w)
  <2> DEFINE rest == [wk[w] EXCEPT !.at = "run", !.q = Tail(@)]
  <2>1. rest.m = wk[w].m /\ [rest EXCEPT !.owns = TRUE].m = wk[w].m /\ Lose(rest).m = wk[w].m
    BY <1>1 DEF WorkerType, Lose
  <2>2. Alive(w) /\ \E x \in {[rest EXCEPT !.owns = TRUE], Lose(rest)} : wk' = [wk EXCEPT ![w] = x]
    BY <1>4 DEF WriteProgress, Alive
  <2> HIDE DEF rest
  <2> QED BY <1>2, <1>3, <2>1, <2>2
<1>5. CASE BeatLoses(w)
  <2>1. Lose(wk[w]).m = wk[w].m /\ Alive(w) /\ wk' = [wk EXCEPT ![w] = Lose(wk[w])]
    BY <1>1, <1>5 DEF WorkerType, Lose, BeatLoses, Alive
  <2> QED BY <1>2, <1>3, <2>1
<1>6. ASSUME NEW at, wk' = [wk EXCEPT ![w].at = at], Alive(w)
      PROVE  \A v \in Workers : Alive(v)' => Alive(v) /\ wk'[v].m = wk[v].m
  <2> DEFINE x == [wk[w] EXCEPT !.at = at]
  <2>1. x.m = wk[w].m /\ wk' = [wk EXCEPT ![w] = x]
    BY <1>1, <1>6 DEF WorkerType
  <2> HIDE DEF x
  <2> QED BY <1>3, <1>6, <2>1
<1>7. CASE wk' = wk
  BY <1>2, <1>7 DEF Alive
<1>8. CASE (\E s \in Requests : Deadlock(s, w)) \/ Ends(w) \/ MarkCourse(w) \/ EndFails(w) \/ (Finalize(w) /\ At(w, "error"))
  <2>1. Alive(w) /\ (wk' = wk \/ \E at : wk' = [wk EXCEPT ![w].at = at])
    BY <1>8 DEF Deadlock, Marking, Ends, Settled, At, MarkCourse, EndFails, Finalize, Alive
  <2> QED BY <1>2, <1>6, <1>7, <2>1
<1>9. CASE FailJob(w) \/ WorkerDies(w) \/ (Finalize(w) /\ ~ At(w, "error"))
  <2>1. wk' = [wk EXCEPT ![w] = [Idle EXCEPT !.at = "end"]]
    BY <1>9 DEF FailJob, WorkerDies, Finalize
  <2>2. [Idle EXCEPT !.at = "end"].at = "end"
    BY DEF Idle
  <2> QED BY <1>2, <1>3, <2>1, <2>2
<1> QED BY <1>4, <1>5, <1>8, <1>9

\* Every step keeps the last claim's record true.
LEMMA TruthStep == IInv /\ TruthInv /\ [Next]_vars => TruthInv'
<1> SUFFICES ASSUME IInv, TruthInv, [Next]_vars PROVE TruthInv'
  OBVIOUS
<1>1. CASE UNCHANGED vars
  BY <1>1, TruthSame DEF vars, Alive
<1>2. ASSUME NEW s \in Requests,
             \/ \E k \in Keys \cup {None} : Lock(s, k)
             \/ Start(s) \/ ClaimFails(s) \/ CompensateFails(s) \/ RequestDies(s)
      PROVE  TruthInv'
  <2>1. CASE UNCHANGED <<wk, claims, mat>>
    BY <2>1, TruthSame DEF Alive
  <2> QED BY <1>2, <2>1, RequestClaims, TruthClaim
<1>3. ASSUME NEW w \in Workers,
             WriteProgress(w) \/ BeatLoses(w) \/ Ends(w) \/ MarkCourse(w) \/ EndFails(w)
             \/ Finalize(w) \/ FailJob(w) \/ WorkerDies(w) \/ \E s \in Requests : Deadlock(s, w)
      PROVE  TruthInv'
  <2>1. TypeOK
    BY DEF IInv
  <2> QED BY <1>3, <2>1, WorkerKeepsRecord, TruthSame
<1>4. ASSUME NEW i \in Ids, Poll(i) \/ Lapse(i) \/ GrowsOld(i) \/ ReplayEnds(i) PROVE TruthInv'
  <2>1. CASE Poll(i)
    BY <2>1, TruthClaim DEF Poll
  <2>2. CASE Lapse(i) \/ GrowsOld(i) \/ ReplayEnds(i)
    BY <2>2, TruthSame DEF Lapse, GrowsOld, ReplayEnds, Alive
  <2> QED BY <1>4, <2>1, <2>2
<1> QED BY <1>1, <1>2, <1>3, <1>4, TruthMaterial DEF Next, Work

\* What a worker has counted as indexed is what the materials say, while its
\* statements pass the fence.
LEMMA RecordIsTrue ==
  ASSUME IInv, TruthInv, NEW w \in Workers, Alive(w), Fenced(w)
  PROVE  IndexedBy(w) = Indexed(wk[w])
<1>1. wk[w].row \in Ids /\ w = claims
  BY DEF IInv, Placed, Fenced, LatestOwns
<1> QED BY <1>1 DEF IInv, LatestStands, TruthInv, TruthOf, IndexedBy, Indexed

\* Only Finalize ends a job as COMPLETED or PARTIAL.
LEMMA OnlyFinalizeEnds ==
  ASSUME IInv, Next, NEW i \in Ids, row[i].st = "RUNNING", row'[i].st \in {"COMPLETED", "PARTIAL"}
  PROVE  \E w \in Workers : Finalize(w) /\ wk[w].row = i /\ Fenced(w)
<1>1. TypeOK /\ row \in [Ids -> RowType]
  BY DEF IInv, TypeOK
<1>2. row' # row
  OBVIOUS
<1>3. ASSUME NEW j \in Ids, NEW x, row' = [row EXCEPT ![j] = x],
             x.st = row[j].st \/ x.st \notin {"COMPLETED", "PARTIAL"}
      PROVE  FALSE
  BY <1>1, <1>3
<1>4. ASSUME NEW j \in Ids, NEW at \in {"start", "end"}, Claim(j, at) PROVE FALSE
  BY <1>1, <1>4, ClaimType
<1>5. ASSUME NEW s \in Requests,
             \/ \E k \in Keys \cup {None} : Lock(s, k)
             \/ Start(s) \/ ClaimFails(s) \/ CompensateFails(s) \/ RequestDies(s)
             \/ \E w \in Workers : Deadlock(s, w)
      PROVE  FALSE
  <2> DEFINE q == req[s].row
  <2>1. ASSUME NEW j \in Ids, Create(s, j) PROVE FALSE
    <3>1. [NoRow EXCEPT !.st = "PENDING", !.key = req[s].key].st = "PENDING"
      BY DEF NoRow
    <3> QED BY <1>3, <2>1, <3>1 DEF Create
  <2>2. CASE Recycle(s)
    <3>1. q \in Ids
      BY <2>2, OwnJob DEF Recycle
    <3>2. row'[q].st = "PENDING" /\ \A j \in Ids \ {q} : row'[j] = row[j]
      BY <1>1, <2>2, <3>1 DEF Recycle, RowType
    <3> QED BY <3>1, <3>2
  <2>3. CASE Attach(s)
    <3>1. q \in Ids
      BY <2>3, OwnJob DEF Attach
    <3>2. row'[q].st = row[q].st /\ \A j \in Ids \ {q} : row'[j] = row[j]
      BY <1>1, <2>3, <3>1 DEF Attach, RowType
    <3> QED BY <3>1, <3>2
  <2>4. CASE Compensate(s)
    <3>1. q \in Ids /\ [NoRow EXCEPT !.st = "deleted"].st = "deleted"
      BY <2>4, OwnJob DEF Compensate, NoRow
    <3> QED BY <1>2, <1>3, <2>4, <3>1 DEF Compensate
  <2>5. CASE StartClaims(s) \/ ClaimFails(s)
    <3>1. q \in Ids
      BY <2>5, OwnJob DEF StartClaims, ClaimFails
    <3> QED BY <1>2, <1>4, <2>5, <3>1 DEF StartClaims, ClaimFails
  <2> QED BY <1>2, <1>5, <2>1, <2>2, <2>3, <2>4, <2>5
             DEF Lock, Start, Acquire, Return, AcquireFails, Check, CompensateFails, RequestDies, Deadlock
<1>6. ASSUME NEW w \in Workers, WriteProgress(w) \/ FailJob(w) PROVE FALSE
  <2> DEFINE j == wk[w].row
  <2>1. j \in Ids /\ row[j] \in RowType
    BY <1>1, <1>6 DEF IInv, Placed, Alive, WriteProgress, FailJob
  <2>2. row'[j].st \in {row[j].st, "FAILED"} /\ \A k \in Ids \ {j} : row'[k] = row[k]
    <3>1. CASE WriteProgress(w)
      <4>1. row' = [row EXCEPT ![j].done = Head(wk[w].q)]
        BY <1>2, <3>1 DEF WriteProgress
      <4> QED BY <1>1, <2>1, <4>1 DEF RowType
    <3>2. CASE FailJob(w)
      <4>1. row' = [row EXCEPT ![j] = EndRow(row[j], "FAILED")]
        BY <1>2, <3>2 DEF FailJob
      <4> QED BY <1>1, <2>1, <4>1 DEF EndRow, RowType
    <3> QED BY <1>6, <3>1, <3>2
  <2> QED BY <2>1, <2>2
<1>7. ASSUME NEW w \in Workers, NEW m \in Mats,
             BeginMaterial(w, m) \/ WriteChunks(w, m) \/ MakeReady(w, m) \/ RecordFailure(w, m) \/ MaterialFails(w, m)
      PROVE  FALSE
  BY <1>2, <1>7 DEF BeginMaterial, WriteChunks, MakeReady, RecordFailure, MaterialFails, MatOnly
<1>8. ASSUME NEW w \in Workers, Ends(w) \/ MarkCourse(w) \/ BeatLoses(w) \/ EndFails(w) \/ WorkerDies(w)
      PROVE  FALSE
  BY <1>2, <1>8 DEF Ends, At, MarkCourse, BeatLoses, EndFails, WorkerDies
<1>9. ASSUME NEW j \in Ids, Poll(j) \/ Lapse(j) \/ GrowsOld(j) \/ ReplayEnds(j) PROVE FALSE
  <2>1. CASE Poll(j)
    BY <1>4, <2>1 DEF Poll
  <2>2. CASE Lapse(j) \/ GrowsOld(j) \/ ReplayEnds(j)
    <3>1. row'[j].st = row[j].st /\ \A k \in Ids \ {j} : row'[k] = row[k]
      BY <1>1, <2>2 DEF Lapse, GrowsOld, ReplayEnds, RowType
    <3> QED BY <3>1
  <2> QED BY <1>9, <2>1, <2>2
<1>10. PICK w \in Workers : Finalize(w)
  BY <1>5, <1>6, <1>7, <1>8, <1>9 DEF Next, Work
<1>11. wk[w].row \in Ids /\ Fenced(w) /\ \A k \in Ids \ {wk[w].row} : row'[k] = row[k]
  BY <1>1, <1>2, <1>10 DEF Finalize, At, IInv, Placed, Alive
<1> QED BY <1>10, <1>11

\* The final write of a job: what it counts are the materials its worker indexed,
\* nobody has indexed or disturbed one since, and COMPLETED means all of them.
LEMMA OutcomeStep ==
  ASSUME IInv, TruthInv, Next, NEW i \in Ids, row[i].st = "RUNNING", row'[i].st \in {"COMPLETED", "PARTIAL"}
  PROVE  /\ row'[i].done = Cardinality(IndexedBy(row[i].owner))
         /\ row'[i].st = "COMPLETED" <=> IndexedBy(row[i].owner) = Mats
<1>1. PICK w \in Workers : Finalize(w) /\ wk[w].row = i /\ Fenced(w)
  BY OnlyFinalizeEnds
<1>2. row[i].owner = w /\ Alive(w) /\ row[i] \in RowType /\ row \in [Ids -> RowType]
  BY <1>1 DEF Fenced, Finalize, Alive, IInv, TypeOK
<1>3. IndexedBy(w) = {m \in Mats : wk[w].m[m] = "ok"}
  BY <1>1, <1>2, RecordIsTrue DEF Indexed
<1>4. row' = [row EXCEPT ![i] = [EndRow(@, IF AllOk(w) THEN "COMPLETED" ELSE "PARTIAL")
                                    EXCEPT !.done = Oks(w)]]
  BY <1>1 DEF Finalize, At
<1>5. row'[i].done = Oks(w) /\ row'[i].st = IF AllOk(w) THEN "COMPLETED" ELSE "PARTIAL"
  BY <1>2, <1>4 DEF EndRow, RowType
<1>6. AllOk(w) <=> IndexedBy(w) = Mats
  BY <1>3 DEF AllOk
<1> QED BY <1>2, <1>3, <1>5, <1>6 DEF Oks

LEMMA TruthInit == Init => TruthInv
  BY DEF Init, TruthInv, TruthOf, Workers

\* What a finished job says of the course is true: COMPLETED when every material is
\* READY with the vectors of its run, otherwise PARTIAL, and as many done as there
\* are such materials (executeClaimedReEmbedJob's last statement).
THEOREM OutcomeTheorem == Spec => OutcomeIsTrue
<1> DEFINE True == \A i \in Ids : row[i].st = "RUNNING" /\ row'[i].st \in {"COMPLETED", "PARTIAL"} =>
                      /\ row'[i].done = Cardinality(IndexedBy(row[i].owner))
                      /\ row'[i].st = "COMPLETED" <=> IndexedBy(row[i].owner) = Mats
<1>1. IInv /\ TruthInv /\ [Next]_vars => [True]_vars
  BY OutcomeStep
<1> QED BY <1>1, TruthInit, TruthStep, InvTheorem, PTL DEF Spec, OutcomeIsTrue

\* The progress shown while a job runs is never ahead of the materials: no report
\* counts one that is not READY with the vectors of the run (enqueueProgress).
THEOREM ReportTheorem == Spec => ReportIsTrue
<1> DEFINE True == \A i \in Ids : row'[i].owner # 0 /\ row'[i].done # row[i].done =>
                      row'[i].done <= Cardinality(IndexedBy(row[i].owner))
<1>1. ASSUME IInv, ProgressInv, TruthInv, Next, NEW i \in Ids, row'[i].owner # 0, row'[i].done # row[i].done
      PROVE  row'[i].done <= Cardinality(IndexedBy(row[i].owner))
  <2>1. ~ RowsStay
    BY <1>1 DEF RowsStay
  <2>2. ASSUME NEW j \in Ids, NEW at \in {"start", "end"}, Claim(j, at) PROVE FALSE
    <3>1. row' = [row EXCEPT ![j] = [@ EXCEPT !.st = "RUNNING", !.owner = claims + 1, !.lease = "live"]]
          /\ row \in [Ids -> RowType]
      BY <1>1, <2>2 DEF Claim, IInv, TypeOK
    <3> QED BY <1>1, <3>1 DEF RowType
  <2>3. PICK w \in Workers : WriteProgress(w)
    <3>1. ASSUME NEW s \in Requests, \E k \in Keys \cup {None} : Lock(s, k)
                                     \/ Start(s) \/ ClaimFails(s) \/ CompensateFails(s) \/ RequestDies(s)
          PROVE  FALSE
      BY <1>1, <2>1, <2>2, <3>1, RequestProgress
    <3>2. row' # row
      BY <1>1
    <3>3. ASSUME NEW j \in Ids, Poll(j) \/ Lapse(j) \/ GrowsOld(j) \/ ReplayEnds(j) PROVE FALSE
      <4>1. CASE Poll(j)
        BY <2>2, <4>1 DEF Poll
      <4>2. CASE Lapse(j) \/ GrowsOld(j) \/ ReplayEnds(j)
        <5>1. row \in [Ids -> RowType]
          BY <1>1 DEF IInv, TypeOK
        <5> QED BY <2>1, <4>2, <5>1 DEF Lapse, GrowsOld, ReplayEnds, RowsStay, RowType
      <4> QED BY <3>3, <4>1, <4>2
    <3>4. ASSUME NEW w \in Workers, Work(w) \/ (\E m \in Mats : MaterialFails(w, m)) \/ BeatLoses(w)
                                    \/ EndFails(w) \/ WorkerDies(w)
          PROVE  WriteProgress(w)
      <4>1. ASSUME NEW m \in Mats, BeginMaterial(w, m) \/ WriteChunks(w, m) \/ MakeReady(w, m)
                                   \/ RecordFailure(w, m) \/ MaterialFails(w, m)
            PROVE  FALSE
        BY <3>2, <4>1 DEF BeginMaterial, WriteChunks, MakeReady, RecordFailure, MaterialFails, MatOnly
      <4> QED BY <1>1, <2>1, <3>4, <4>1, EndProgress DEF Work
    <3>5. ASSUME NEW s \in Requests, NEW w \in Workers, Deadlock(s, w) PROVE FALSE
      BY <3>2, <3>5 DEF Deadlock
    <3> QED BY <1>1, <3>1, <3>3, <3>4, <3>5 DEF Next
  <2> DEFINE n == Head(wk[w].q)
  <2>4. row' = [row EXCEPT ![wk[w].row].done = n] /\ Fenced(w)
    BY <1>1, <2>3 DEF WriteProgress
  <2>5. /\ Alive(w) /\ wk[w].row = i /\ row[i].owner = w /\ row'[i].done = n
    <3>1. row \in [Ids -> RowType] /\ Alive(w) /\ wk[w].row \in Ids
      BY <1>1, <2>3 DEF IInv, TypeOK, Placed, Alive, WriteProgress
    <3>2. wk[w].row = i
      BY <1>1, <2>4, <3>1 DEF RowType
    <3> QED BY <2>4, <3>1, <3>2 DEF Fenced, RowType
  <2>6. n <= Cardinality(Indexed(wk[w]))
    <3>1. wk[w].q \in Seq(Nat) /\ wk[w].q # <<>> /\ Reports(wk[w])
      BY <1>1, <2>3, <2>5 DEF IInv, TypeOK, WorkerType, WriteProgress, ProgressInv, ProgressOf, Alive
    <3>2. n = wk[w].q[1] /\ 1 \in 1..Len(wk[w].q)
      BY <3>1
    <3> QED BY <3>1, <3>2 DEF Reports
  <2> QED BY <1>1, <2>4, <2>5, <2>6, RecordIsTrue
<1>2. IInv /\ ProgressInv /\ TruthInv /\ [Next]_vars => [True]_vars
  BY <1>1
<1> QED BY <1>2, TruthInit, TruthStep, ProgressInit, ProgressKept, InvTheorem, PTL DEF Spec, ReportIsTrue

------------------------------------------------------------------------------
(* Starts.                                                                   *)

\* A request is answered with a job it made when it, or somebody, has claimed it.
LEMMA ScheduleStep ==
  IInv /\ [Next]_vars =>
    [\A s \in Requests : req[s].made /\ req[s].at # "answered" /\ req'[s].at = "answered"
        => row'[req[s].row].st \notin {"none", "deleted", "PENDING"}]_vars
<1> SUFFICES ASSUME IInv, [Next]_vars, NEW s \in Requests,
                    req[s].made, req[s].at # "answered", req'[s].at = "answered"
             PROVE  row'[req[s].row].st \notin {"none", "deleted", "PENDING"}
  BY DEF vars
<1>1. TypeOK /\ req[s].at # "locked"
  BY DEF IInv, HoldersEmpty
<1>2. req' # req
  OBVIOUS
<1>3. ASSUME NEW t \in Requests, t # s, \E at, i, made : GoOn(t, at, i, made) PROVE FALSE
  BY <1>1, <1>3 DEF GoOn, TypeOK
<1>4. ASSUME NEW t \in Requests, NEW k \in Keys \cup {None}, Lock(t, k) PROVE FALSE
  <2>1. \E r : req' = [req EXCEPT ![t] = r] /\ r.at = "locked"
    <3> DEFINE byKey == {i \in Ids : k # None /\ row[i].key = k}
               found == IF byKey # {} THEN byKey ELSE ActiveRows
               r1 == [NewReq EXCEPT !.at = "locked", !.key = k, !.plan = "create"]
               r2(i) == [NewReq EXCEPT !.at = "locked", !.key = k, !.row = i,
                           !.plan = Plan(i, k, byKey # {}), !.active = row[i].st \in Active]
    <3>1. req' = [req EXCEPT ![t] = r1] \/ \E i \in found : req' = [req EXCEPT ![t] = r2(i)]
      BY <1>4 DEF Lock
    <3>2. r1.at = "locked" /\ \A i : r2(i).at = "locked"
      BY DEF NewReq
    <3> HIDE DEF r1, r2, found
    <3> QED BY <3>1, <3>2
  <2> QED BY <1>1, <2>1 DEF TypeOK
<1>5. ASSUME NEW at, NEW i, NEW made, GoOn(s, at, i, made) PROVE at = "answered"
  BY <1>1, <1>5 DEF GoOn, TypeOK, NewReq
<1>6. ASSUME NEW t \in Requests, t # s,
             Start(t) \/ ClaimFails(t) \/ CompensateFails(t) \/ RequestDies(t) \/ \E w \in Workers : Deadlock(t, w)
      PROVE  FALSE
  <2>1. req' = req \/ \E at, i, made : GoOn(t, at, i, made)
    BY <1>6 DEF Start, Acquire, Create, Recycle, Attach, Return, AcquireFails, StartClaims, Check, Compensate,
                ClaimFails, CompensateFails, RequestDies, Deadlock, Goto, GiveUp
  <2> QED BY <1>2, <1>3, <1>6, <2>1
<1>7. CASE StartClaims(s)
  <2>1. req[s].row \in Ids
    BY <1>7, OwnJob DEF StartClaims
  <2>2. ~ Goto(s, "check")
    BY <1>5 DEF Goto
  <2>3. Claim(req[s].row, "start")
    BY <1>7, <2>2 DEF StartClaims
  <2> QED BY <1>1, <2>1, <2>3, ClaimType
<1>8. CASE Check(s)
  <2>1. ~ Unclaimed(s)
    BY <1>5, <1>8 DEF Check, Goto
  <2> QED BY <1>8, <2>1 DEF Check, Unclaimed, Exists
<1>9. CASE ClaimFails(s) \/ Compensate(s) \/ CompensateFails(s) \/ RequestDies(s)
  BY <1>5, <1>9 DEF ClaimFails, Compensate, CompensateFails, RequestDies, Goto, GiveUp
<1>10. CASE \E w \in Workers : Deadlock(s, w)
  BY <1>2, <1>5, <1>10 DEF Deadlock, GiveUp
<1>11. ~ Acquire(s)
  BY <1>1 DEF Acquire, Create, Recycle, Attach, Return, AcquireFails
<1>12. ASSUME NEW w \in Workers,
             Work(w) \/ (\E m \in Mats : MaterialFails(w, m)) \/ BeatLoses(w) \/ EndFails(w) \/ WorkerDies(w)
       PROVE  FALSE
  BY <1>2, <1>12 DEF Work, MaterialFails, WriteProgress, Ends, At, MarkCourse, Finalize, FailJob, BeatLoses,
                     EndFails, WorkerDies, BeginMaterial, WriteChunks, MakeReady, RecordFailure, MatOnly
<1>13. ASSUME NEW i \in Ids, Poll(i) \/ Lapse(i) \/ GrowsOld(i) \/ ReplayEnds(i) PROVE FALSE
  BY <1>2, <1>13 DEF Poll, Lapse, GrowsOld, ReplayEnds
<1>14. PICK t \in Requests : Start(t) \/ ClaimFails(t) \/ CompensateFails(t) \/ RequestDies(t)
                           \/ \E w \in Workers : Deadlock(t, w)
  BY <1>2, <1>4, <1>12, <1>13 DEF Next, vars
<1> QED BY <1>6, <1>7, <1>8, <1>9, <1>10, <1>11, <1>14 DEF Start

\* A start request is never answered with a job of its own that nobody has
\* claimed yet (the promise of startOrResumeReEmbedJob).
THEOREM ScheduledTheorem == Spec => StartedIsScheduled
<1>1. IInv /\ [Next]_vars =>
        [\A s \in Requests : req[s].made /\ req[s].at # "answered" /\ req'[s].at = "answered"
            => row'[req[s].row].st \notin {"none", "deleted", "PENDING"}]_vars
  BY ScheduleStep
<1> QED BY <1>1, InvTheorem, PTL DEF Spec, StartedIsScheduled
=============================================================================
