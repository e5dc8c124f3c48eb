---------------------- MODULE MaterialExtractionProofs ----------------------
(***************************************************************************)
(* What holds of the material rows whatever the leases do: READY rows and  *)
(* success receipts are backed by the chunks of the right text.  Nothing   *)
(* is assumed of Slow, MayReupload or the bounds, so the theorems cover    *)
(* workers that outlive their lease, two workers on a row, sweeps that act *)
(* on an old scan and failed writes.                                       *)
(***************************************************************************)
EXTENDS MaterialExtraction, TLAPS

\* Row r of M holds an upload of file f, promoted or not.
Of(M, r, f) == M[r].sum = f \/ M[r].sum = Text[f]

\* What is true of a row: its text and its chunks are those of its checksum,
\* its bytes are of its file, and a receipt names the row of its file's text.
RowGood(M, r) ==
    /\ M[r].st = "none" <=> M[r].sum = None
    /\ M[r].sum \in Texts => M[r].text = M[r].sum
    /\ M[r].sum \notin Texts => M[r].text = None /\ M[r].chunks = None
    /\ M[r].chunks \in {None, M[r].sum}
    /\ M[r].st = "READY" => M[r].sum \in Texts /\ M[r].chunks = M[r].sum
    /\ M[r].blob # None => Of(M, r, M[r].blob)
    /\ M[r].res # "none" =>
          M[r].dup \in Rows /\ M[r].sum \in Files /\ M[M[r].dup].sum = Text[M[r].sum]
    /\ M[r].res = "RESTORED" /\ ~ M[r].reason => M[M[r].dup].chunks = M[M[r].dup].sum

\* The unique index on (courseId, checksum).
SumsUnique(M) ==
    \A r, s \in Rows : M[r].sum = M[s].sum /\ M[r].sum # None => r = s

\* What a job relies on: its rows are stored, its file is the file of its row,
\* its text the text of its file and of its target, and a target it is about to
\* report as READY has its chunks.
JobGood(M, b) ==
    /\ b.doomed \subseteq b.batch /\ \A r \in b.batch : M[r].sum # None
    /\ b.home = "resweep" => \A r \in b.batch : M[r].sum \in Texts
    /\ b.pc \in Idle => b.home = b.pc /\ b.row = None /\ b.target = None /\ b.file = None
    /\ b.pc \in Busy => /\ b.row \in Rows /\ M[b.row].sum # None
                       /\ b.target \in Rows /\ M[b.target].sum # None
    /\ b.file # None => Of(M, b.row, b.file)
    /\ b.file # None /\ b.text # None => b.text = Text[b.file]
    /\ b.pc \in {"claim", "extract", "reclaim"} => b.file # None /\ b.target = b.row
    /\ b.pc = "reprocess" => b.target = b.row
    /\ b.pc = "promote" => b.file # None /\ b.target = b.row /\ b.text \in Texts
    /\ b.pc \in {"restore", "retry", "receipt", "embed", "ready", "restored", "failReceipt",
                 "reprocess"} => b.text \in Texts /\ M[b.target].sum = b.text
    /\ b.target # b.row => b.file # None /\ b.text \in Texts /\ M[b.target].sum = b.text
    /\ b.pc \in {"receipt", "restored", "failReceipt"} => b.target # b.row
    /\ b.pc \in {"ready", "restored"} => M[b.target].chunks = b.text

IndInv ==
    /\ TypeOK
    /\ \A r \in Rows : RowGood(mat, r)
    /\ SumsUnique(mat)
    /\ \A j \in Jobs : JobGood(mat, job[j])

\* How a row may change: its checksum only from the pending one of a file to
\* that of the file's text, its chunks not at all once there.
Grows(m, n) ==
    /\ m.sum # None => n.sum = m.sum \/ (m.sum \in Files /\ n.sum = Text[m.sum])
    /\ m.chunks # None => n.chunks = m.chunks

-----------------------------------------------------------------------------
(* A step that changes one row keeps every other row and every job good.   *)

\* A step that changes one row keeps every other row good.
LEMMA RowsStay ==
    ASSUME MaterialConstants, NEW M \in [Rows -> RowType], NEW r \in Rows, NEW m \in RowType,
           \A s \in Rows : RowGood(M, s), SumsUnique(M), Grows(M[r], m),
           \A s \in Rows \ {r} : m.sum # None => M[s].sum # m.sum,
           RowGood([M EXCEPT ![r] = m], r)
    PROVE  /\ [M EXCEPT ![r] = m] \in [Rows -> RowType]
           /\ \A s \in Rows : RowGood([M EXCEPT ![r] = m], s)
           /\ SumsUnique([M EXCEPT ![r] = m])
<1> DEFINE N == [M EXCEPT ![r] = m]
<1>1. N \in [Rows -> RowType] /\ N[r] = m /\ \A s \in Rows \ {r} : N[s] = M[s]
  OBVIOUS
<1>2. SumsUnique(N)
  BY <1>1 DEF SumsUnique
<1>3. ASSUME NEW s \in Rows, s # r PROVE RowGood(N, s)
  <2> HIDE DEF N
  <2>1. N[s] = M[s] /\ RowGood(M, s)
    BY <1>1, <1>3
  <2>2. \A d \in Rows : M[d].sum \in Texts => N[d].sum = M[d].sum
    BY <1>1, MaterialConstants DEF Grows, MaterialConstants
  <2>3. \A d \in Rows : M[d].chunks # None => N[d].chunks = M[d].chunks
    BY <1>1 DEF Grows
  <2>4. M[s].res # "none" => M[s].dup \in Rows /\ M[s].sum \in Files
                             /\ N[M[s].dup].sum = Text[M[s].sum] /\ M[M[s].dup].sum \in Texts
    BY <2>1, <2>2, MaterialConstants DEF RowGood, MaterialConstants
  <2>5. M[s].res = "RESTORED" /\ ~ M[s].reason => N[M[s].dup].chunks = N[M[s].dup].sum
    <3> SUFFICES ASSUME M[s].res = "RESTORED", ~ M[s].reason
                 PROVE  N[M[s].dup].chunks = N[M[s].dup].sum
      OBVIOUS
    <3>1. M[M[s].dup].chunks = M[M[s].dup].sum /\ M[s].dup \in Rows /\ M[M[s].dup].sum \in Texts
      BY <2>1, <2>4 DEF RowGood
    <3> QED
      BY <3>1, <2>2, <2>3, MaterialConstants DEF MaterialConstants
  <2> QED
    BY <2>1, <2>4, <2>5 DEF RowGood, Of
<1> QED
  BY <1>1, <1>2, <1>3

\* A step that changes one row keeps what the jobs know of it.
LEMMA JobsStay ==
    ASSUME MaterialConstants, NEW M \in [Rows -> RowType], NEW r \in Rows, NEW m \in RowType,
           Grows(M[r], m), NEW b \in JobType, JobGood(M, b)
    PROVE  JobGood([M EXCEPT ![r] = m], b)
<1> DEFINE N == [M EXCEPT ![r] = m]
<1>1. N[r] = m /\ \A s \in Rows \ {r} : N[s] = M[s]
  OBVIOUS
<1> HIDE DEF N
<1>2. \A d \in Rows : M[d].sum \in Texts => N[d].sum = M[d].sum
  BY <1>1 DEF Grows, MaterialConstants
<1>3. \A d \in Rows : M[d].chunks # None => N[d].chunks = M[d].chunks
  BY <1>1 DEF Grows
<1>4. b.file # None => b.row \in Rows
  BY DEF JobGood, JobType
<1>5. b.file # None => Of(N, b.row, b.file)
  <2> SUFFICES ASSUME b.file # None PROVE Of(N, b.row, b.file)
    OBVIOUS
  <2>1. b.file \in Files /\ Text[b.file] \in Texts
    BY DEF JobType, MaterialConstants
  <2>2. CASE M[b.row].sum = b.file
    BY <2>1, <2>2, <1>1, <1>4, MaterialConstants DEF Grows, Of, MaterialConstants
  <2>3. CASE M[b.row].sum = Text[b.file]
    BY <2>1, <2>3, <1>2, <1>4 DEF Of
  <2> QED
    BY <2>2, <2>3 DEF JobGood, Of
<1>6. M[b.target].sum = b.text /\ b.text \in Texts /\ b.target \in Rows => N[b.target].sum = b.text
  BY <1>2
<1>7. M[b.target].chunks = b.text /\ b.text \in Texts /\ b.target \in Rows => N[b.target].chunks = b.text
  BY <1>3, MaterialConstants DEF MaterialConstants
<1>8. b.target # b.row => b.target \in Rows
  BY DEF JobGood, JobType
<1>9. b.pc \in {"restore", "retry", "receipt", "embed", "ready", "restored", "failReceipt",
                "reprocess"} => b.target \in Rows
  BY DEF JobGood, Busy
<1>10. b.pc \in {"ready", "restored"} => N[b.target].chunks = b.text
  BY <1>7, <1>9 DEF JobGood
<1>11. b.pc \in {"restore", "retry", "receipt", "embed", "ready", "restored", "failReceipt",
                 "reprocess"} => b.text \in Texts /\ N[b.target].sum = b.text
  BY <1>6, <1>9 DEF JobGood
<1>12. b.target # b.row => b.file # None /\ b.text \in Texts /\ N[b.target].sum = b.text
  BY <1>6, <1>8 DEF JobGood
<1>13. \A d \in Rows : M[d].sum # None => N[d].sum # None
  BY <1>1, MaterialConstants DEF Grows, MaterialConstants
<1>14. /\ \A s \in b.batch : N[s].sum # None
       /\ b.home = "resweep" => \A s \in b.batch : N[s].sum \in Texts
       /\ b.pc \in Busy => b.row \in Rows /\ N[b.row].sum # None
                          /\ b.target \in Rows /\ N[b.target].sum # None
  BY <1>2, <1>13 DEF JobGood, JobType
<1> QED
  BY <1>5, <1>10, <1>11, <1>12, <1>14 DEF JobGood, N

SpentType == [{"uploads", "deaths", "deletes", "errors"} -> Nat]

\* A step of job j on row r, given what it makes of both.
LEMMA StepGood ==
    ASSUME MaterialConstants, IndInv, spent' \in SpentType,
           NEW r \in Rows, NEW m \in RowType, mat' = [mat EXCEPT ![r] = m],
           NEW j \in Jobs, NEW b \in JobType, job' = [job EXCEPT ![j] = b],
           Grows(mat[r], m),
           m.sum = mat[r].sum \/ \A s \in Rows \ {r} : m.sum # None => mat[s].sum # m.sum,
           RowGood(mat', r), JobGood(mat', b)
    PROVE  IndInv'
<1>1. \A s \in Rows \ {r} : m.sum # None => mat[s].sum # m.sum
  BY DEF IndInv, SumsUnique
<1>2. /\ mat' \in [Rows -> RowType] /\ \A s \in Rows : RowGood(mat', s) /\ SumsUnique(mat')
  BY <1>1, RowsStay DEF IndInv, TypeOK
<1>3. ASSUME NEW k \in Jobs PROVE JobGood(mat', job'[k])
  <2>1. k # j => job'[k] = job[k] /\ job[k] \in JobType /\ JobGood(mat, job[k])
    BY DEF IndInv, TypeOK
  <2>2. k # j => JobGood(mat', job'[k])
    BY <2>1, JobsStay DEF IndInv, TypeOK
  <2> QED
    BY <2>2 DEF IndInv, TypeOK
<1>4. job' \in [Jobs -> JobType]
  BY DEF IndInv, TypeOK
<1>5. \A k \in Jobs : job'[k].doomed \subseteq job'[k].batch
  BY <1>3 DEF JobGood
<1> QED
  BY <1>2, <1>3, <1>4, <1>5 DEF IndInv, TypeOK, SpentType

\* A step of a job that writes nothing.
LEMMA JobStepGood ==
    ASSUME IndInv, mat' = mat, spent' \in SpentType,
           NEW j \in Jobs, NEW b \in JobType, job' = [job EXCEPT ![j] = b], JobGood(mat, b)
    PROVE  IndInv'
<1>1. job' \in [Jobs -> JobType] /\ \A k \in Jobs : JobGood(mat', job'[k])
  BY DEF IndInv, TypeOK
<1> QED
  BY <1>1 DEF IndInv, TypeOK, SpentType, JobGood, RowGood, SumsUnique, Of

\* A step that changes no job and, of a row, neither its checksum nor its chunks.
LEMMA RowStepGood ==
    ASSUME MaterialConstants, IndInv, job' = job, spent' \in SpentType,
           NEW r \in Rows, NEW m \in RowType, mat' = [mat EXCEPT ![r] = m],
           Grows(mat[r], m), m.sum = mat[r].sum, RowGood(mat', r)
    PROVE  IndInv'
<1>1. \A s \in Rows \ {r} : m.sum # None => mat[s].sum # m.sum
  BY DEF IndInv, SumsUnique
<1>2. /\ mat' \in [Rows -> RowType] /\ \A s \in Rows : RowGood(mat', s) /\ SumsUnique(mat')
  BY <1>1, RowsStay DEF IndInv, TypeOK
<1>3. \A k \in Jobs : JobGood(mat', job'[k])
  BY JobsStay DEF IndInv, TypeOK
<1> QED
  BY <1>2, <1>3 DEF IndInv, TypeOK, SpentType

\* The record Finish gives a job.
LEMMA FinishedGood ==
    ASSUME IndInv, NEW j \in Jobs
    PROVE  Finished(j) \in JobType /\ JobGood(mat, Finished(j))
BY DEF IndInv, TypeOK, JobType, JobGood, Finished, NoJob, Idle, Busy

\* Spending from a budget keeps the budgets typed.
LEMMA SpentStays ==
    ASSUME IndInv, NEW what \in {"uploads", "deaths", "deletes", "errors"}, NEW bound,
           Spend(what, bound)
    PROVE  spent' \in SpentType
BY DEF IndInv, TypeOK, Spend, SpentType

\* What a job in hand knows, spelled out once.
LEMMA JobKnows ==
    ASSUME IndInv, NEW j \in Jobs
    PROVE  job[j] \in JobType /\ JobGood(mat, job[j])
BY DEF IndInv, TypeOK

\* What a row in the table satisfies, spelled out once.
LEMMA RowKnows ==
    ASSUME IndInv, NEW r \in Rows
    PROVE  mat[r] \in RowType /\ RowGood(mat, r)
BY DEF IndInv, TypeOK

-----------------------------------------------------------------------------
(* Steps of a job that write no row.                                       *)

\* A job that ends without a write.
LEMMA FinishStep ==
    ASSUME IndInv, NEW j \in Jobs, UNCHANGED mat, spent' \in SpentType, Finish(j)
    PROVE  IndInv'
BY FinishedGood, JobStepGood DEF Finish

\* A job that goes on with the row and the text it has.
LEMMA GoStep ==
    ASSUME IndInv, NEW j \in Jobs, UNCHANGED mat, spent' \in SpentType,
           NEW p \in Busy, Go(j, p), JobGood(mat, [job[j] EXCEPT !.pc = p])
    PROVE  IndInv'
<1>1. [job[j] EXCEPT !.pc = p] \in JobType
  BY JobKnows DEF JobType
<1>2. job' = [job EXCEPT ![j] = [job[j] EXCEPT !.pc = p]]
  BY DEF Go
<1> QED
  BY <1>1, <1>2, JobStepGood

\* The lookups of an upload, by checksum and for a target to restore.
LEMMA LookupGood ==
    ASSUME MaterialConstants, IndInv, NEW j \in Jobs, ExtractAndLookup(j)
    PROVE  IndInv'
<1>1. PICK t : t = Text[job[j].file]
  OBVIOUS
<1>2. mat' = mat /\ spent' \in SpentType /\ job[j].pc = "extract"
  BY DEF ExtractAndLookup, IndInv, TypeOK, SpentType
<1>3. /\ job[j].row \in Rows /\ job[j].file \in Files /\ t \in Texts /\ job[j].target = job[j].row
      /\ Of(mat, job[j].row, job[j].file) /\ job[j].doomed \subseteq job[j].batch
      /\ mat[job[j].row].sum # None /\ \A s \in job[j].batch : mat[s].sum # None /\ t # None
      /\ job[j].home = "resweep" => \A s \in job[j].batch : mat[s].sum \in Texts
  BY <1>1, <1>2, JobKnows DEF JobType, JobGood, Busy, MaterialConstants
<1>4. ASSUME NEW d \in Rows, NEW pc \in {"promote", "restore", "receipt"},
             pc = "promote" <=> d = job[j].row, d # job[j].row => mat[d].sum = t,
             job' = [job EXCEPT ![j] = [job[j] EXCEPT !.text = t, !.pc = pc, !.target = d]]
      PROVE  IndInv'
  <2> DEFINE b == [job[j] EXCEPT !.text = t, !.pc = pc, !.target = d]
  <2>1. b \in JobType
    <3>1. job[j] \in JobType /\ t \in Texts \cup {None} /\ d \in Rows \cup {None}
          /\ pc \in Idle \cup Busy
      BY <1>3, JobKnows DEF Busy
    <3> QED
      BY <3>1 DEF JobType
  <2>2. /\ b.pc = pc /\ b.text = t /\ b.target = d /\ b.row = job[j].row /\ b.file = job[j].file
        /\ b.doomed = job[j].doomed /\ b.batch = job[j].batch /\ b.home = job[j].home
    BY JobKnows DEF JobType
  <2> HIDE DEF b
  <2>3. JobGood(mat, b)
    BY <1>1, <1>3, <1>4, <2>2 DEF JobGood, Idle, Busy
  <2> QED
    BY <1>2, <1>4, <2>1, <2>3, JobStepGood DEF b
<1>5. \A pc, d : [job EXCEPT ![j].text = t, ![j].pc = pc, ![j].target = d]
                  = [job EXCEPT ![j] = [job[j] EXCEPT !.text = t, !.pc = pc, !.target = d]]
  BY JobKnows DEF JobType, IndInv, TypeOK
<1>6. \/ Finish(j)
      \/ job' = [job EXCEPT ![j].text = t, ![j].pc = "promote", ![j].target = job[j].row]
      \/ \E d \in Rows \ {job[j].row}, pc \in {"restore", "receipt"} :
            mat[d].sum = t /\ job' = [job EXCEPT ![j].text = t, ![j].pc = pc, ![j].target = d]
  BY <1>1 DEF ExtractAndLookup
<1>7. CASE Finish(j)
  BY <1>2, <1>7, FinishStep
<1>8. CASE job' = [job EXCEPT ![j].text = t, ![j].pc = "promote", ![j].target = job[j].row]
  <2>1. job' = [job EXCEPT ![j] = [job[j] EXCEPT !.text = t, !.pc = "promote",
                                                 !.target = job[j].row]]
    BY <1>5, <1>8
  <2> QED
    BY <1>3, <1>4, <2>1
<1>9. ASSUME NEW d \in Rows \ {job[j].row}, NEW pc \in {"restore", "receipt"}, mat[d].sum = t,
             job' = [job EXCEPT ![j].text = t, ![j].pc = pc, ![j].target = d]
      PROVE  IndInv'
  <2>1. job' = [job EXCEPT ![j] = [job[j] EXCEPT !.text = t, !.pc = pc, !.target = d]]
    BY <1>5, <1>9
  <2> QED
    BY <1>4, <1>9, <2>1
<1> QED
  BY <1>6, <1>7, <1>8, <1>9

\* The promotion refused by the unique index: the run turns to the row that has
\* the text.
LEMMA PromoteLosesGood ==
    ASSUME MaterialConstants, IndInv, NEW j \in Jobs, PromoteLoses(j)
    PROVE  IndInv'
<1>7. job \in [Jobs -> JobType] /\ job[j] \in JobType
  BY DEF IndInv, TypeOK
<1>1. PICK d \in Rows \ {job[j].row} :
          /\ mat[d].sum = job[j].text
          /\ job' = [job EXCEPT ![j] = [job[j] EXCEPT !.target = d, !.pc = "receipt"]]
  BY <1>7 DEF PromoteLoses
<1>2. mat' = mat /\ spent' \in SpentType /\ job[j].pc = "promote"
  BY DEF PromoteLoses, IndInv, TypeOK, SpentType
<1>3. mat[d].sum # None
  BY <1>1, <1>2, JobKnows DEF JobGood, MaterialConstants
<1> DEFINE b == [job[j] EXCEPT !.target = d, !.pc = "receipt"]
<1>4. b \in JobType
  BY <1>7 DEF JobType, Busy
<1>5. /\ b.pc = "receipt" /\ b.target = d /\ b.text = job[j].text /\ b.row = job[j].row
      /\ b.file = job[j].file /\ b.batch = job[j].batch /\ b.doomed = job[j].doomed
      /\ b.home = job[j].home
  BY JobKnows DEF JobType
<1> HIDE DEF b
<1>6. JobGood(mat, b)
  BY <1>1, <1>2, <1>3, <1>5, JobKnows DEF JobGood, Idle, Busy
<1> QED
  BY <1>1, <1>2, <1>4, <1>6, JobStepGood DEF b

\* A database call of a job throws.
LEMMA DbErrorGood ==
    ASSUME IndInv, NEW j \in Jobs, DbError(j)
    PROVE  IndInv'
<1>1. mat' = mat /\ spent' \in SpentType
  BY SpentStays DEF DbError
<1>2. CASE /\ job[j].pc \in {"restore", "retry", "promote", "receipt", "restored"}
           /\ job' = [job EXCEPT ![j].pc = "fail", ![j].target = job[j].row]
  <2> DEFINE b == [job[j] EXCEPT !.pc = "fail", !.target = job[j].row]
  <2>1. job' = [job EXCEPT ![j] = b]
    BY <1>2
  <2>2. b \in JobType /\ JobGood(mat, b)
    <3>1. job[j] \in JobType /\ JobGood(mat, job[j])
      BY JobKnows
    <3>2. /\ b \in JobType /\ b.pc = "fail" /\ b.row = job[j].row /\ b.target = job[j].row
          /\ b.home = job[j].home /\ b.batch = job[j].batch /\ b.doomed = job[j].doomed
          /\ b.file = job[j].file /\ b.text = job[j].text
      BY <3>1 DEF JobType, Busy
    <3> HIDE DEF b
    <3> QED
      BY <1>2, <3>1, <3>2 DEF JobGood, Idle, Busy
  <2> QED
    BY <1>1, <2>1, <2>2, JobStepGood
<1>3. CASE job[j].pc = "ready" /\ Go(j, "fail")
  <2>1. JobGood(mat, [job[j] EXCEPT !.pc = "fail"])
    BY <1>3, JobKnows DEF JobType, JobGood, Idle, Busy
  <2> QED
    BY <1>1, <1>3, <2>1, GoStep DEF Busy
<1> QED
  BY <1>2, <1>3 DEF DbError

\* The extraction or the embedding fails; a failed write of releaseForRetry.
LEMMA FailuresGood ==
    ASSUME IndInv, NEW j \in Jobs,
           ExtractFails(j) \/ EmbedFails(j) \/ ExtractBusyUnwritten(j)
    PROVE  IndInv'
<1>1. CASE ExtractFails(j) \/ EmbedFails(j)
  <2>1. mat' = mat /\ spent' \in SpentType /\ job[j].pc \in {"extract", "embed"} /\ Go(j, "fail")
    BY <1>1 DEF ExtractFails, EmbedFails, IndInv, TypeOK, SpentType
  <2>2. JobGood(mat, [job[j] EXCEPT !.pc = "fail"])
    BY <2>1, JobKnows DEF JobType, JobGood, Idle, Busy
  <2> QED
    BY <2>1, <2>2, GoStep DEF Busy
<1>2. CASE ExtractBusyUnwritten(j)
  BY <1>2, SpentStays, FinishStep DEF ExtractBusyUnwritten
<1> QED
  BY <1>1, <1>2

\* Requests that only read, a death, and the sweeper but for its claim.
LEMMA RequestReadsGood ==
    ASSUME MaterialConstants, IndInv, NEW j \in Jobs, NEW r \in Rows,
           (\E f \in Files : UploadConflicts(j, f, r)) \/ ReprocessReads(j, r)
    PROVE  IndInv'
<1>1. ASSUME NEW f \in Files, UploadConflicts(j, f, r) PROVE IndInv'
  <2> DEFINE b == [NoJob EXCEPT !.pc = "reclaim", !.row = r, !.target = r, !.file = f]
  <2>1. b \in JobType /\ JobGood(mat, b)
    BY <1>1, MaterialConstants
    DEF UploadConflicts, JobType, JobGood, NoJob, Idle, Busy, Of, MaterialConstants
  <2> QED
    BY <1>1, <2>1, SpentStays, JobStepGood DEF UploadConflicts
<1>2. CASE ReprocessReads(j, r)
  <2> DEFINE b == [NoJob EXCEPT !.pc = "reprocess", !.row = r, !.target = r,
                                !.text = mat[r].text]
  <2>1. mat[r].text \in Texts /\ mat[r].sum = mat[r].text
    BY <1>2, RowKnows DEF ReprocessReads, RowType, RowGood
  <2>2. b \in JobType /\ JobGood(mat, b)
    BY <2>1 DEF JobType, JobGood, NoJob, Idle, Busy
  <2>3. spent' \in SpentType
    BY <1>2 DEF ReprocessReads, IndInv, TypeOK, SpentType
  <2> QED
    BY <1>2, <2>2, <2>3, JobStepGood DEF ReprocessReads
<1> QED
  BY <1>1, <1>2

\* A process dies with the jobs it ran.
LEMMA DieGood ==
    ASSUME IndInv, NEW j \in Jobs, Die(j)
    PROVE  IndInv'
<1>1. NoJob \in JobType /\ JobGood(mat, NoJob)
  BY DEF NoJob, JobType, JobGood, Idle, Busy
<1> QED
  BY <1>1, SpentStays, JobStepGood DEF Die

-----------------------------------------------------------------------------
(* Steps that write a row but neither its checksum, its text nor its       *)
(* chunks.                                                                 *)

\* What such a write may do to a good row.
Touches(r, m) ==
    /\ m \in RowType
    /\ m.sum = mat[r].sum /\ m.text = mat[r].text /\ m.chunks = mat[r].chunks
    /\ m.dup = mat[r].dup /\ m.res = mat[r].res
    /\ m.blob = mat[r].blob \/ m.blob = None
    /\ m.st # "none"
    /\ m.st = "READY" => mat[r].st = "READY" \/ (m.sum \in Texts /\ m.chunks = m.sum)
    /\ m.reason \/ m.reason = mat[r].reason \/ m.sum \in Texts

\* A write that leaves checksum, text and chunks alone keeps the rows good.
LEMMA TouchGood ==
    ASSUME MaterialConstants, IndInv, NEW r \in Rows, mat[r].sum # None, NEW m, Touches(r, m)
    PROVE  m \in RowType /\ Grows(mat[r], m) /\ RowGood([mat EXCEPT ![r] = m], r)
<1> DEFINE N == [mat EXCEPT ![r] = m]
<1>1. N[r] = m /\ \A s \in Rows \ {r} : N[s] = mat[s]
  BY DEF IndInv, TypeOK
<1>2. \A d \in Rows : N[d].sum = mat[d].sum /\ N[d].chunks = mat[d].chunks
  BY <1>1 DEF Touches
<1>3. m.res = "RESTORED" /\ ~ m.reason => mat[r].res = "RESTORED" /\ ~ mat[r].reason
  BY RowKnows, MaterialConstants DEF Touches, RowGood, MaterialConstants
<1> HIDE DEF N
<1>4. RowGood(N, r)
  BY <1>1, <1>2, <1>3, RowKnows DEF Touches, RowGood, Of
<1> QED
  BY <1>4 DEF Touches, Grows, N

\* The same write by no job.
LEMMA TouchRowStep ==
    ASSUME MaterialConstants, IndInv, NEW r \in Rows, mat[r].sum # None, NEW m, Touches(r, m),
           mat' = [mat EXCEPT ![r] = m], UNCHANGED job, spent' \in SpentType
    PROVE  IndInv'
BY TouchGood, RowStepGood DEF Touches

\* The same write by a job, which goes on as some good record.
LEMMA TouchStep ==
    ASSUME MaterialConstants, IndInv, NEW r \in Rows, mat[r].sum # None, NEW m, Touches(r, m),
           mat' = [mat EXCEPT ![r] = m], spent' \in SpentType,
           NEW j \in Jobs, NEW b \in JobType, JobGood(mat, b), job' = [job EXCEPT ![j] = b]
    PROVE  IndInv'
<1>1. m \in RowType /\ Grows(mat[r], m) /\ RowGood(mat', r) /\ m.sum = mat[r].sum
  BY TouchGood DEF Touches
<1>2. JobGood(mat', b)
  BY <1>1, JobsStay DEF IndInv, TypeOK
<1> QED
  BY <1>1, <1>2, StepGood

\* The two ways such a step ends.
LEMMA TouchFinish ==
    ASSUME MaterialConstants, IndInv, NEW r \in Rows, mat[r].sum # None, NEW m, Touches(r, m),
           mat' = [mat EXCEPT ![r] = m], spent' \in SpentType, NEW j \in Jobs, Finish(j)
    PROVE  IndInv'
BY TouchStep, FinishedGood DEF Finish

\* ... that goes on to its next statement ...
LEMMA TouchGo ==
    ASSUME MaterialConstants, IndInv, NEW r \in Rows, mat[r].sum # None, NEW m, Touches(r, m),
           mat' = [mat EXCEPT ![r] = m], spent' \in SpentType, NEW j \in Jobs, NEW p \in Busy,
           Go(j, p), JobGood(mat, [job[j] EXCEPT !.pc = p])
    PROVE  IndInv'
<1>1. [job[j] EXCEPT !.pc = p] \in JobType
  BY JobKnows DEF JobType
<1> QED
  BY <1>1, TouchStep DEF Go

\* The rows of a job at work are stored.
LEMMA JobRows ==
    ASSUME IndInv, NEW j \in Jobs, job[j].pc \in Busy
    PROVE  /\ job[j].row \in Rows /\ mat[job[j].row].sum # None
           /\ job[j].target \in Rows /\ mat[job[j].target].sum # None
BY JobKnows DEF JobGood

\* A row stored or in PROCESSING has a checksum.
LEMMA StoredRow ==
    ASSUME IndInv, NEW r \in Rows, Stored(r) \/ Processing(r)
    PROVE  mat[r].sum # None
BY RowKnows DEF RowGood, Stored, Processing

\* The writes of this kind, as records: a new state, a lease, a lost blob ...
LEMMA SettleTouches ==
    ASSUME IndInv, NEW r \in Rows, NEW st \in {"PROCESSING", "READY", "FAILED"},
           NEW re \in BOOLEAN, NEW le \in {"none", "live", "past"},
           st = "READY" => mat[r].sum \in Texts /\ mat[r].chunks = mat[r].sum,
           re \/ mat[r].sum \in Texts
    PROVE  Touches(r, [mat[r] EXCEPT !.st = st, !.reason = re, !.lease = le])
<1> DEFINE m == [mat[r] EXCEPT !.st = st, !.reason = re, !.lease = le]
<1>5. mat[r] \in RowType
  BY RowKnows
<1>1. m \in RowType
  BY <1>5, ZenonT(60) DEF RowType
<1>2. m.reason = re
  BY <1>5 DEF RowType
<1>3. /\ m.sum = mat[r].sum /\ m.text = mat[r].text /\ m.chunks = mat[r].chunks
      /\ m.dup = mat[r].dup /\ m.res = mat[r].res /\ m.blob = mat[r].blob /\ m.st = st
  BY RowKnows DEF RowType
<1> HIDE DEF m
<1>4. m.reason \/ m.sum \in Texts
  BY <1>2, <1>3
<1> QED
  BY <1>1, <1>3, <1>4 DEF Touches, m

\* ... a failure, which may have been a sweep's ...
LEMMA FailTouches ==
    ASSUME IndInv, NEW r \in Rows, NEW tk \in BOOLEAN
    PROVE  Touches(r, [mat[r] EXCEPT !.st = "FAILED", !.reason = TRUE, !.lease = "none",
                                     !.taken = tk])
<1> DEFINE m == [mat[r] EXCEPT !.st = "FAILED", !.reason = TRUE, !.lease = "none",
                               !.taken = tk]
<1>1. m \in RowType
  BY RowKnows DEF RowType
<1>2. /\ m.sum = mat[r].sum /\ m.text = mat[r].text /\ m.chunks = mat[r].chunks
      /\ m.dup = mat[r].dup /\ m.res = mat[r].res /\ m.blob = mat[r].blob
      /\ m.st = "FAILED" /\ m.reason = TRUE
  BY RowKnows DEF RowType
<1> HIDE DEF m
<1> QED
  BY <1>1, <1>2 DEF Touches, m

\* ... a claim, a renewal, a row given back.
LEMMA LeaseTouches ==
    ASSUME IndInv, NEW r \in Rows, Stored(r), NEW le \in {"live", "past", "unclaimed"},
           NEW n \in Nat
    PROVE  /\ Touches(r, [mat[r] EXCEPT !.lease = le])
           /\ Touches(r, [mat[r] EXCEPT !.lease = le, !.tries = n])
           /\ Touches(r, [mat[r] EXCEPT !.del = TRUE])
           /\ Touches(r, [mat[r] EXCEPT !.blob = None])
<1>1. mat[r] \in RowType
  BY RowKnows
<1>2. ASSUME NEW m \in RowType, m.sum = mat[r].sum, m.text = mat[r].text,
             m.chunks = mat[r].chunks, m.dup = mat[r].dup, m.res = mat[r].res,
             m.blob \in {mat[r].blob, None}, m.st = mat[r].st, m.reason = mat[r].reason
      PROVE  Touches(r, m)
  BY <1>2 DEF Touches, Stored
<1>3. Touches(r, [mat[r] EXCEPT !.lease = le])
  <2> DEFINE m == [mat[r] EXCEPT !.lease = le]
  <2>1. /\ m \in RowType /\ m.sum = mat[r].sum /\ m.text = mat[r].text
        /\ m.chunks = mat[r].chunks /\ m.dup = mat[r].dup /\ m.res = mat[r].res
        /\ m.blob = mat[r].blob /\ m.st = mat[r].st /\ m.reason = mat[r].reason
    BY <1>1 DEF RowType
  <2> QED
    BY <1>2, <2>1
<1>4. Touches(r, [mat[r] EXCEPT !.lease = le, !.tries = n])
  <2> DEFINE m == [mat[r] EXCEPT !.lease = le, !.tries = n]
  <2>1. /\ m \in RowType /\ m.sum = mat[r].sum /\ m.text = mat[r].text
        /\ m.chunks = mat[r].chunks /\ m.dup = mat[r].dup /\ m.res = mat[r].res
        /\ m.blob = mat[r].blob /\ m.st = mat[r].st /\ m.reason = mat[r].reason
    BY <1>1, ZenonT(60) DEF RowType
  <2> QED
    BY <1>2, <2>1
<1>5. Touches(r, [mat[r] EXCEPT !.del = TRUE])
  <2> DEFINE m == [mat[r] EXCEPT !.del = TRUE]
  <2>1. /\ m \in RowType /\ m.sum = mat[r].sum /\ m.text = mat[r].text
        /\ m.chunks = mat[r].chunks /\ m.dup = mat[r].dup /\ m.res = mat[r].res
        /\ m.blob = mat[r].blob /\ m.st = mat[r].st /\ m.reason = mat[r].reason
    BY <1>1 DEF RowType
  <2> QED
    BY <1>2, <2>1
<1>6. Touches(r, [mat[r] EXCEPT !.blob = None])
  <2> DEFINE m == [mat[r] EXCEPT !.blob = None]
  <2>1. /\ m \in RowType /\ m.sum = mat[r].sum /\ m.text = mat[r].text
        /\ m.chunks = mat[r].chunks /\ m.dup = mat[r].dup /\ m.res = mat[r].res
        /\ m.blob = None /\ m.st = mat[r].st /\ m.reason = mat[r].reason
    BY <1>1 DEF RowType
  <2> QED
    BY <1>2, <2>1
<1> QED
  BY <1>3, <1>4, <1>5, <1>6

\* Time, deletes and renewals.
LEMMA RowStepsGood ==
    ASSUME MaterialConstants, IndInv, NEW r \in Rows,
           Delete(r) \/ LeaseLapses(r) \/ GoesUnclaimed(r)
           \/ \E j \in Jobs : Renew(j) /\ r = job[j].target
    PROVE  IndInv'
<1>1. CASE Delete(r)
  <2>1. mat' = [mat EXCEPT ![r] = [mat[r] EXCEPT !.del = TRUE]] /\ UNCHANGED job /\ Stored(r)
    BY <1>1 DEF Delete
  <2>2. spent' \in SpentType
    BY <1>1, SpentStays DEF Delete
  <2> QED
    BY <2>1, <2>2, StoredRow, LeaseTouches, TouchRowStep
<1>2. ASSUME NEW l \in {"past", "unclaimed", "live"}, Processing(r),
             mat' = [mat EXCEPT ![r].lease = l], UNCHANGED <<job, spent>>
      PROVE  IndInv'
  <2>1. mat' = [mat EXCEPT ![r] = [mat[r] EXCEPT !.lease = l]] /\ Stored(r)
    BY <1>2 DEF Stored, Processing
  <2>2. spent' \in SpentType
    BY <1>2 DEF IndInv, TypeOK, SpentType
  <2>3. Touches(r, [mat[r] EXCEPT !.lease = l])
    BY <2>1, LeaseTouches
  <2> QED
    BY <1>2, <2>1, <2>2, <2>3, StoredRow, TouchRowStep
<1> QED
  BY <1>1, <1>2 DEF LeaseLapses, GoesUnclaimed, Renew

-----------------------------------------------------------------------------
(* The steps of a run that write such a row.                               *)

\* reprocessMaterial takes the row it read, if it is still FAILED.
LEMMA ReprocessGood ==
    ASSUME MaterialConstants, IndInv, NEW j \in Jobs, ReprocessClaims(j)
    PROVE  IndInv'
<1> DEFINE r == job[j].row
           m == [mat[r] EXCEPT !.st = "PROCESSING", !.reason = FALSE, !.lease = "live"]
<1>1. spent' \in SpentType /\ job[j].pc = "reprocess"
  BY DEF ReprocessClaims, IndInv, TypeOK, SpentType
<1>2. r \in Rows /\ mat[r].sum # None /\ mat[r].sum \in Texts
  BY <1>1, JobKnows DEF Busy, JobGood
<1>3. CASE Finish(j) /\ UNCHANGED mat
  BY <1>1, <1>3, FinishStep
<1>4. CASE Go(j, "embed") /\ mat' = [mat EXCEPT ![r].st = "PROCESSING", ![r].reason = FALSE,
                                                ![r].lease = "live"]
  <2>1. Touches(r, m)
    BY <1>2, SettleTouches
  <2>2. mat' = [mat EXCEPT ![r] = m]
    BY <1>2, <1>4 DEF IndInv, TypeOK
  <2>3. JobGood(mat, [job[j] EXCEPT !.pc = "embed"])
    BY <1>1, JobKnows DEF JobType, JobGood, Idle, Busy
  <2> QED
    BY <1>1, <1>2, <1>4, <2>1, <2>2, <2>3, TouchGo DEF Busy
<1> QED
  BY <1>3, <1>4 DEF ReprocessClaims

\* claimExtraction, and a run that gives its row back.
LEMMA ClaimGood ==
    ASSUME MaterialConstants, IndInv, NEW j \in Jobs, Claim(j)
    PROVE  IndInv'
<1> DEFINE r == job[j].row
           m == [mat[r] EXCEPT !.lease = "live", !.tries = @ + 1]
<1>1. spent' \in SpentType /\ job[j].pc = "claim"
  BY DEF Claim, IndInv, TypeOK, SpentType
<1>2. r \in Rows /\ mat[r].sum # None
  BY <1>1, JobKnows DEF Busy, JobGood
<1>3. CASE Finish(j) /\ UNCHANGED mat
  BY <1>1, <1>3, FinishStep
<1>4. CASE /\ Claimable(r) /\ Go(j, "extract")
           /\ mat' = [mat EXCEPT ![r].lease = "live", ![r].tries = @ + 1]
  <2>1. mat[r].tries + 1 \in Nat /\ Stored(r)
    BY <1>2, <1>4, RowKnows DEF RowType, Claimable, Processing, Stored
  <2>2. Touches(r, m)
    BY <1>2, <2>1, LeaseTouches
  <2>3. mat' = [mat EXCEPT ![r] = m]
    BY <1>2, <1>4 DEF IndInv, TypeOK
  <2>4. JobGood(mat, [job[j] EXCEPT !.pc = "extract"])
    BY <1>1, JobKnows DEF JobType, JobGood, Idle, Busy
  <2> QED
    BY <1>1, <1>2, <1>4, <2>2, <2>3, <2>4, TouchGo DEF Busy
<1> QED
  BY <1>3, <1>4 DEF Claim

\* A run the embedding service turns away gives its row back.
LEMMA ExtractBusyGood ==
    ASSUME MaterialConstants, IndInv, NEW j \in Jobs, ExtractBusy(j)
    PROVE  IndInv'
<1> DEFINE r == job[j].row
<1>1. spent' \in SpentType /\ job[j].pc = "extract"
  BY DEF ExtractBusy, IndInv, TypeOK, SpentType
<1>2. r \in Rows /\ mat[r].sum # None
  BY <1>1, JobKnows DEF Busy, JobGood
<1>3. Touches(r, Released(r))
  BY <1>2, SettleTouches DEF Released
<1> QED
  BY <1>1, <1>2, <1>3, TouchFinish DEF ExtractBusy

\* The last write of a run: READY, after the chunks are in.
LEMMA ReadyGood ==
    ASSUME MaterialConstants, IndInv, NEW j \in Jobs, Ready(j)
    PROVE  IndInv'
<1> DEFINE r == job[j].target
           m == [mat[r] EXCEPT !.st = "READY", !.reason = FALSE, !.lease = "none"]
<1>1. spent' \in SpentType /\ job[j].pc = "ready"
  BY DEF Ready, IndInv, TypeOK, SpentType
<1>2. /\ r \in Rows /\ mat[r].sum # None /\ mat[r].sum \in Texts
      /\ mat[r].chunks = mat[r].sum
  BY <1>1, JobKnows DEF Busy, JobGood
<1>3. Touches(r, m)
  BY <1>2, SettleTouches
<1>4. mat' = [mat EXCEPT ![r] = m]
  BY <1>2 DEF Ready, IndInv, TypeOK
<1>5. CASE Restoring(j) /\ Go(j, "restored")
  <2>1. JobGood(mat, [job[j] EXCEPT !.pc = "restored"])
    BY <1>1, <1>5, JobKnows DEF JobType, JobGood, Idle, Busy, Restoring
  <2> QED
    BY <1>1, <1>2, <1>3, <1>4, <1>5, <2>1, TouchGo DEF Busy
<1>6. CASE Go(j, "discard")
  <2>1. JobGood(mat, [job[j] EXCEPT !.pc = "discard"])
    BY <1>1, JobKnows DEF JobType, JobGood, Idle, Busy
  <2> QED
    BY <1>1, <1>2, <1>3, <1>4, <1>6, <2>1, TouchGo DEF Busy
<1>7. CASE Finish(j)
  BY <1>1, <1>2, <1>3, <1>4, <1>7, TouchFinish
<1> QED
  BY <1>5, <1>6, <1>7 DEF Ready

\* What a failure writes: FAILED, and whether a sweep took the row from a worker.
LEMMA FailWrites ==
    ASSUME IndInv, NEW j \in Jobs, Fail(j)
    PROVE  \/ UNCHANGED mat /\ Spend("errors", MaxDbErrors)
           \/ \E tk \in BOOLEAN :
                 /\ tk = (mat[job[j].target].taken
                            \/ (job[j].pc = "abandon" /\ mat[job[j].target].lease = "live"))
                 /\ mat' = [mat EXCEPT ![job[j].target] =
                       [@ EXCEPT !.st = "FAILED", !.reason = TRUE, !.lease = "none",
                                 !.taken = tk]]
<1> DEFINE r == job[j].target
           tk == mat[r].taken \/ (job[j].pc = "abandon" /\ mat[r].lease = "live")
<1>1. r \in Rows /\ mat \in [Rows -> RowType] /\ mat[r].taken \in BOOLEAN
  BY JobKnows, RowKnows DEF Fail, JobGood, Busy, IndInv, TypeOK, RowType
<1>2. tk \in BOOLEAN
  BY <1>1
<1>3. CASE mat' = [mat EXCEPT ![r].st = "FAILED", ![r].reason = TRUE, ![r].lease = "none",
                              ![r].taken = tk]
  BY <1>1, <1>2, <1>3
<1>4. \/ UNCHANGED mat /\ Spend("errors", MaxDbErrors)
      \/ mat' = [mat EXCEPT ![r].st = "FAILED", ![r].reason = TRUE, ![r].lease = "none",
                            ![r].taken = tk]
  BY <1>1, Zenon DEF Fail
<1> QED
  BY <1>3, <1>4

\* A run that fails settles its row FAILED.
LEMMA FailGood ==
    ASSUME MaterialConstants, IndInv, NEW j \in Jobs, Fail(j)
    PROVE  IndInv'
<1> DEFINE r == job[j].target
           m(tk) == [mat[r] EXCEPT !.st = "FAILED", !.reason = TRUE, !.lease = "none",
                                   !.taken = tk]
<1>1. spent' \in SpentType /\ job[j].pc \in {"fail", "abandon"} /\ Go(j, "discard")
  BY SpentStays DEF Fail, IndInv, TypeOK, SpentType
<1>2. r \in Rows /\ mat[r].sum # None
  BY <1>1, JobKnows DEF Busy, JobGood
<1>3. JobGood(mat, [job[j] EXCEPT !.pc = "discard"])
  BY <1>1, JobKnows DEF JobType, JobGood, Idle, Busy
<1>4. CASE UNCHANGED mat
  BY <1>1, <1>3, <1>4, GoStep DEF Busy
<1>5. ASSUME NEW tk \in BOOLEAN, mat' = [mat EXCEPT ![r] = m(tk)] PROVE IndInv'
  <2>1. Touches(r, m(tk))
    BY <1>2, FailTouches
  <2> HIDE DEF m
  <2> QED
    BY <1>1, <1>2, <1>3, <1>5, <2>1, TouchGo DEF Busy
<1>6. UNCHANGED mat \/ \E tk \in BOOLEAN : mat' = [mat EXCEPT ![r] = m(tk)]
  BY <1>2, FailWrites DEF IndInv, TypeOK
<1> HIDE DEF m
<1> QED
  BY <1>4, <1>5, <1>6

\* A run discards the blob of the row it lost.
LEMMA DiscardGood ==
    ASSUME MaterialConstants, IndInv, NEW j \in Jobs, Discard(j)
    PROVE  IndInv'
<1> DEFINE r == job[j].target
           m == [mat[r] EXCEPT !.blob = None]
<1>1. spent' \in SpentType /\ job[j].pc = "discard"
  BY SpentStays DEF Discard, IndInv, TypeOK, SpentType
<1>2. r \in Rows /\ mat[r].sum # None /\ Stored(r)
  BY <1>1, JobKnows, RowKnows DEF Busy, JobGood, RowGood, Stored
<1>3. mat' = mat \/ mat' = [mat EXCEPT ![r] = m]
  BY <1>2 DEF Discard, IndInv, TypeOK
<1>4. Touches(r, m)
  BY <1>2, LeaseTouches
<1>5. CASE Finish(j)
  BY <1>1, <1>2, <1>3, <1>4, <1>5, FinishStep, TouchFinish
<1>6. CASE AfterDiscard(j) # "free" /\ Go(j, AfterDiscard(j))
  <2>1. Go(j, "failReceipt") /\ job[j].target # job[j].row
    BY <1>6 DEF AfterDiscard, Restoring
  <2>2. JobGood(mat, [job[j] EXCEPT !.pc = "failReceipt"])
    BY <1>1, <2>1, JobKnows DEF JobType, JobGood, Idle, Busy
  <2> QED
    BY <1>1, <1>2, <1>3, <1>4, <2>1, <2>2, GoStep, TouchGo DEF Busy
<1> QED
  BY <1>5, <1>6 DEF Discard

-----------------------------------------------------------------------------
(* The steps that give a row a checksum, a text, chunks or a receipt.      *)

\* A new upload: its checksum is of bytes no row has.
LEMMA UploadGood ==
    ASSUME MaterialConstants, IndInv, NEW j \in Jobs, NEW r \in Rows, NEW f \in Files,
           UploadCreates(j, f, r)
    PROVE  IndInv'
<1> DEFINE m == [NoRow EXCEPT !.st = "PROCESSING", !.sum = f, !.blob = f]
           b == [NoJob EXCEPT !.pc = "claim", !.row = r, !.target = r, !.file = f]
<1>1. /\ mat' = [mat EXCEPT ![r] = m] /\ job' = [job EXCEPT ![j] = b]
      /\ mat[r].st = "none" /\ \A s \in Rows : mat[s].sum # f
  BY DEF UploadCreates, Stored
<1>2. spent' \in SpentType
  BY SpentStays DEF UploadCreates
<1>3. mat[r].sum = None /\ mat[r].chunks = None
  BY <1>1, RowKnows, MaterialConstants DEF RowGood, MaterialConstants
<1>4. /\ m \in RowType /\ m.st = "PROCESSING" /\ m.sum = f /\ m.text = None /\ m.chunks = None
      /\ m.blob = f /\ m.res = "none"
  BY DEF NoRow, RowType
<1>5. b \in JobType
  BY DEF NoJob, JobType, Idle, Busy
<1>6. /\ b.pc = "claim" /\ b.row = r /\ b.target = r /\ b.file = f /\ b.text = None
      /\ b.batch = {} /\ b.doomed = {} /\ b.home = "free"
  BY DEF NoJob
<1> HIDE DEF m, b
<1>7. mat'[r] = m
  BY <1>1 DEF IndInv, TypeOK
<1>8. f # None /\ f \notin Texts
  BY MaterialConstants DEF MaterialConstants
<1>9. RowGood(mat', r)
  BY <1>4, <1>7, <1>8 DEF RowGood, Of
<1>10. JobGood(mat', b)
  BY <1>4, <1>6, <1>7, <1>8 DEF JobGood, Of, Idle, Busy
<1>11. Grows(mat[r], m)
  BY <1>3 DEF Grows
<1> QED
  BY <1>1, <1>2, <1>4, <1>5, <1>9, <1>10, <1>11, StepGood

\* A row that is reclaimed has the pending checksum of the file, so no text yet.
LEMMA ReclaimGood ==
    ASSUME MaterialConstants, IndInv, NEW j \in Jobs, Reclaim(j)
    PROVE  IndInv'
<1> DEFINE r == job[j].row
           f == job[j].file
           m == [mat[r] EXCEPT
                    !.st = "PROCESSING", !.text = None, !.lease = "none", !.tries = 0,
                    !.del = FALSE, !.dup = None, !.res = "none", !.reason = FALSE, !.blob = f]
           b == [job[j] EXCEPT !.pc = "claim"]
<1>1. spent' \in SpentType /\ job[j].pc = "reclaim"
  BY DEF Reclaim, IndInv, TypeOK, SpentType
<1>2. r \in Rows /\ mat[r].sum # None /\ f \in Files /\ f \notin Texts /\ f # None
  BY <1>1, JobKnows, MaterialConstants DEF Busy, JobGood, JobType, MaterialConstants
<1>3. CASE Finish(j) /\ UNCHANGED mat
  BY <1>1, <1>3, FinishStep
<1>4. CASE Reclaimable(r, f) /\ Go(j, "claim") /\ mat' = [mat EXCEPT ![r] = m]
  <2>1. mat[r].sum = f /\ mat[r].text = None /\ mat[r].chunks = None
    BY <1>2, <1>4, RowKnows DEF Reclaimable, RowGood
  <2>2. m \in RowType
    <3>1. mat[r] \in RowType /\ f \in Files
      BY <1>2, RowKnows
    <3> QED
      BY <3>1 DEF RowType
  <2>3. /\ m.st = "PROCESSING" /\ m.sum = f /\ m.text = None /\ m.chunks = None
        /\ m.blob = f /\ m.res = "none"
    BY <1>2, <2>1, RowKnows DEF RowType
  <2>4. mat'[r] = m
    BY <1>2, <1>4 DEF IndInv, TypeOK
  <2> HIDE DEF m
  <2>5. RowGood(mat', r)
    BY <1>2, <2>3, <2>4 DEF RowGood, Of
  <2>6. Grows(mat[r], m) /\ m.sum = mat[r].sum
    BY <2>1, <2>3 DEF Grows
  <2>7. b \in JobType /\ JobGood(mat, b)
    BY <1>1, JobKnows DEF JobType, JobGood, Idle, Busy
  <2>8. JobGood(mat', b)
    BY <1>2, <1>4, <2>2, <2>6, <2>7, JobsStay DEF IndInv, TypeOK
  <2> QED
    BY <1>1, <1>2, <1>4, <2>2, <2>5, <2>6, <2>7, <2>8, StepGood DEF Go
<1> QED
  BY <1>3, <1>4 DEF Reclaim

\* Both statements of claimRestoreTarget, with or without the soft delete.
LEMMA RestoreGood ==
    ASSUME MaterialConstants, IndInv, NEW j \in Jobs, RestoreClaims(j) \/ RetryClaims(j)
    PROVE  IndInv'
<1> DEFINE d == job[j].target
           b == [job[j] EXCEPT !.pc = "embed"]
<1>1. spent' \in SpentType /\ job[j].pc \in {"restore", "retry"}
  BY DEF RestoreClaims, RetryClaims, IndInv, TypeOK, SpentType
<1>2. /\ d \in Rows /\ mat[d].sum # None /\ job[j].text \in Texts
      /\ mat[d].sum = job[j].text /\ mat[d].text = job[j].text /\ job[j].text \notin Files
  BY <1>1, JobKnows, RowKnows, MaterialConstants DEF Busy, JobGood, RowGood, MaterialConstants
<1>3. JobGood(mat, b) /\ b \in JobType /\ JobGood(mat, [job[j] EXCEPT !.pc = "retry"])
  BY <1>1, JobKnows DEF JobType, JobGood, Idle, Busy
<1>4. CASE Go(j, "retry") /\ UNCHANGED mat
  BY <1>1, <1>3, <1>4, GoStep DEF Busy
<1>5. CASE Finish(j) /\ UNCHANGED mat
  BY <1>1, <1>5, FinishStep
<1>6. ASSUME NEW m \in RowType, m.sum = mat[d].sum, m.text = mat[d].text,
             m.chunks = mat[d].chunks, m.st = "PROCESSING", m.res = "none",
             m.blob = mat[d].blob, Go(j, "embed"), mat' = [mat EXCEPT ![d] = m]
      PROVE  IndInv'
  <2>1. mat'[d] = m
    BY <1>2, <1>6 DEF IndInv, TypeOK
  <2>2. RowGood(mat', d)
    BY <1>2, <1>6, <2>1, RowKnows DEF RowGood, Of
  <2>3. Grows(mat[d], m)
    BY <1>6 DEF Grows
  <2>4. JobGood(mat', b)
    BY <1>2, <1>3, <1>6, <2>3, JobsStay DEF IndInv, TypeOK
  <2>5. job' = [job EXCEPT ![j] = b]
    BY <1>6 DEF Go
  <2> QED
    BY <1>1, <1>2, <1>3, <1>6, <2>2, <2>3, <2>4, <2>5, StepGood
<1>7. mat[d] \in RowType /\ job[j].text \in Texts
  BY <1>2, RowKnows
<1>8. CASE Go(j, "embed") /\ mat' = [mat EXCEPT ![d] = [Restored(j, d) EXCEPT !.del = FALSE]]
  <2> DEFINE m == [Restored(j, d) EXCEPT !.del = FALSE]
  <2>1. m \in RowType
    BY <1>7 DEF RowType, Restored
  <2>2. /\ m.sum = mat[d].sum /\ m.text = job[j].text /\ m.chunks = mat[d].chunks
        /\ m.st = "PROCESSING" /\ m.res = "none" /\ m.blob = mat[d].blob
    BY <1>7 DEF RowType, Restored
  <2> HIDE DEF m
  <2> QED
    BY <1>2, <1>6, <1>8, <2>1, <2>2 DEF m
<1>9. CASE Go(j, "embed") /\ mat' = [mat EXCEPT ![d] = Restored(j, d)]
  <2> DEFINE m == Restored(j, d)
  <2>1. m \in RowType
    BY <1>7 DEF RowType, Restored
  <2>2. /\ m.sum = mat[d].sum /\ m.text = job[j].text /\ m.chunks = mat[d].chunks
        /\ m.st = "PROCESSING" /\ m.res = "none" /\ m.blob = mat[d].blob
    BY <1>7 DEF RowType, Restored
  <2> HIDE DEF m
  <2> QED
    BY <1>2, <1>6, <1>9, <2>1, <2>2 DEF m
<1> QED
  BY <1>4, <1>5, <1>8, <1>9 DEF RestoreClaims, RetryClaims

\* The promotion: the unique index lets it through only if it is the one row of
\* its text, and its checksum was its file's, or the promoted one already.
LEMMA PromoteGood ==
    ASSUME MaterialConstants, IndInv, NEW j \in Jobs, Promote(j)
    PROVE  IndInv'
<1> DEFINE r == job[j].row
           t == job[j].text
           f == job[j].file
           m == [mat[r] EXCEPT !.sum = t, !.text = t, !.reason = FALSE]
           b == [job[j] EXCEPT !.pc = "embed"]
<1>1. spent' \in SpentType /\ job[j].pc = "promote" /\ Go(j, "embed")
  BY DEF Promote, IndInv, TypeOK, SpentType
<1>2. /\ r \in Rows /\ mat[r].sum # None /\ t \in Texts /\ f \in Files /\ t = Text[f]
      /\ job[j].target = r /\ Of(mat, r, f) /\ t # None /\ t \notin Files
  BY <1>1, JobKnows, MaterialConstants DEF Busy, JobGood, JobType, MaterialConstants
<1>3. mat' = [mat EXCEPT ![r] = m] /\ \A d \in Rows \ {r} : mat[d].sum # t
  BY <1>2 DEF Promote, IndInv, TypeOK
<1>4. mat[r] \in RowType /\ RowGood(mat, r)
  BY <1>2, RowKnows
<1>5. m \in RowType
  BY <1>2, <1>4 DEF RowType
<1>6. /\ m.sum = t /\ m.text = t /\ m.chunks = mat[r].chunks /\ m.st = mat[r].st
      /\ m.res = mat[r].res /\ m.dup = mat[r].dup /\ m.blob = mat[r].blob
  BY <1>4 DEF RowType
<1>7. mat'[r] = m /\ \A s \in Rows \ {r} : mat'[s] = mat[s]
  BY <1>2, <1>3 DEF IndInv, TypeOK
<1>8. mat[r].sum = f => mat[r].text = None /\ mat[r].chunks = None
  BY <1>2, <1>4, MaterialConstants DEF RowGood, MaterialConstants
<1>9. mat[r].sum \in Files => mat[r].sum = f
  BY <1>2 DEF Of
<1>10. mat[r].res = "none"
  <2> SUFFICES ASSUME mat[r].res # "none" PROVE FALSE
    OBVIOUS
  <2>1. mat[r].dup \in Rows /\ mat[r].sum = f /\ mat[mat[r].dup].sum = t
    BY <1>2, <1>4, <1>9 DEF RowGood
  <2>2. mat[r].dup # r
    BY <1>2, <2>1
  <2> QED
    BY <1>3, <2>1, <2>2
<1>11. mat[r].st # "none" /\ (mat[r].st = "READY" => mat[r].sum = t /\ mat[r].chunks = t)
  BY <1>2, <1>4, MaterialConstants DEF RowGood, Of, MaterialConstants
<1>12. mat[r].chunks \in {None, t}
  BY <1>2, <1>4, <1>8 DEF RowGood, Of
<1>13. mat[r].blob # None => Text[mat[r].blob] = t \/ mat[r].blob = t
  BY <1>2, <1>4, MaterialConstants DEF RowGood, Of, RowType, MaterialConstants
<1> HIDE DEF m
<1>14. RowGood(mat', r)
  BY <1>2, <1>6, <1>7, <1>10, <1>11, <1>12, <1>13 DEF RowGood, Of
<1>15. Grows(mat[r], m)
  BY <1>2, <1>6 DEF Grows, Of
<1>21. job[j] \in JobType
  BY JobKnows
<1>16. b \in JobType
  BY <1>21 DEF JobType, Busy
<1>17. /\ b.pc = "embed" /\ b.row = r /\ b.target = r /\ b.file = f /\ b.text = t
       /\ b.batch = job[j].batch /\ b.doomed = job[j].doomed /\ b.home = job[j].home
  BY <1>2, JobKnows DEF JobType
<1>22. /\ job[j].doomed \subseteq job[j].batch /\ job[j].batch \subseteq Rows
       /\ \A s \in job[j].batch : mat[s].sum # None
       /\ job[j].home = "resweep" => \A s \in job[j].batch : mat[s].sum \in Texts
  BY <1>21, JobKnows DEF JobGood, JobType
<1>18. /\ job[j].doomed \subseteq job[j].batch
       /\ \A s \in job[j].batch : s \in Rows /\ mat'[s].sum # None
       /\ job[j].home = "resweep" => \A s \in job[j].batch : mat'[s].sum \in Texts
  <2>1. t \in Texts /\ t # None
    BY <1>2, MaterialConstants DEF MaterialConstants
  <2> QED
    BY <1>6, <1>7, <1>22, <2>1
<1>19. f # None
  BY <1>2, MaterialConstants DEF MaterialConstants
<1> HIDE DEF b
<1>20. JobGood(mat', b)
  BY <1>2, <1>6, <1>7, <1>17, <1>18, <1>19 DEF JobGood, Of, Idle, Busy
<1> QED
  BY <1>1, <1>2, <1>3, <1>5, <1>6, <1>14, <1>15, <1>16, <1>20, StepGood DEF Go, b

\* The chunks of the job's text go to the row of that text.
LEMMA EmbedGood ==
    ASSUME MaterialConstants, IndInv, NEW j \in Jobs, Embed(j)
    PROVE  IndInv'
<1> DEFINE r == job[j].target
           t == job[j].text
           m == [mat[r] EXCEPT !.chunks = t]
           b == [job[j] EXCEPT !.pc = "ready"]
<1>1. spent' \in SpentType /\ job[j].pc = "embed" /\ Go(j, "ready")
  BY DEF Embed, IndInv, TypeOK, SpentType
<1>2. r \in Rows /\ t \in Texts /\ mat[r].sum = t /\ mat[r].sum # None
  BY <1>1, JobKnows DEF Busy, JobGood
<1>3. mat' = [mat EXCEPT ![r] = m]
  BY <1>2 DEF Embed, IndInv, TypeOK
<1>4. mat[r] \in RowType /\ RowGood(mat, r)
  BY <1>2, RowKnows
<1>5. /\ m \in RowType /\ m.sum = t /\ m.text = mat[r].text /\ m.chunks = t
      /\ m.st = mat[r].st /\ m.res = mat[r].res /\ m.dup = mat[r].dup /\ m.blob = mat[r].blob
  BY <1>2, <1>4 DEF RowType
<1>6. mat'[r] = m
  BY <1>2, <1>3 DEF IndInv, TypeOK
<1>7. mat[r].res = "none"
  BY <1>2, <1>4, MaterialConstants DEF RowGood, MaterialConstants
<1> HIDE DEF m
<1>8. RowGood(mat', r)
  BY <1>2, <1>4, <1>5, <1>6, <1>7 DEF RowGood, Of
<1>9. Grows(mat[r], m)
  BY <1>2, <1>4, <1>5 DEF Grows, RowGood
<1>10. JobGood(mat', job[j])
  BY <1>2, <1>3, <1>5, <1>9, JobKnows, JobsStay DEF IndInv, TypeOK
<1>11. b \in JobType /\ JobGood(mat', b)
  <2>1. b \in JobType
    BY JobKnows DEF JobType, Busy
  <2>2. /\ b.pc = "ready" /\ b.row = job[j].row /\ b.target = r /\ b.file = job[j].file
        /\ b.text = t /\ b.batch = job[j].batch /\ b.doomed = job[j].doomed
        /\ b.home = job[j].home
    BY JobKnows DEF JobType
  <2>3. mat'[r].chunks = t
    BY <1>5, <1>6
  <2> HIDE DEF b
  <2>4. JobGood(mat', b)
    BY <1>1, <1>10, <2>2, <2>3 DEF JobGood, Idle, Busy
  <2> QED
    BY <2>1, <2>4
<1> QED
  BY <1>1, <1>2, <1>3, <1>5, <1>8, <1>9, <1>11, StepGood DEF Go

\* What is known of a row about to become a receipt: it still has the checksum of
\* its bytes, for the row of its text is another one.
LEMMA ReceiptRow ==
    ASSUME MaterialConstants, IndInv, NEW j \in Jobs,
           job[j].pc \in {"receipt", "restored", "failReceipt"}
    PROVE  /\ job[j].row \in Rows /\ job[j].target \in Rows /\ job[j].target # job[j].row
           /\ mat[job[j].row].sum \in Files /\ mat[job[j].row].sum # None
           /\ mat[job[j].target].sum = Text[mat[job[j].row].sum]
           /\ job[j].pc = "restored" => mat[job[j].target].chunks = mat[job[j].target].sum
<1> DEFINE r == job[j].row
           d == job[j].target
           f == job[j].file
<1>1. /\ r \in Rows /\ d \in Rows /\ d # r /\ f \in Files /\ job[j].text = Text[f]
      /\ mat[d].sum = Text[f] /\ mat[r].sum # None /\ Of(mat, r, f)
      /\ job[j].pc = "restored" => mat[d].chunks = job[j].text
  BY JobKnows, MaterialConstants DEF JobGood, JobType, Busy, MaterialConstants
<1>2. mat[r].sum # Text[f]
  BY <1>1 DEF IndInv, SumsUnique
<1>3. mat[r].sum = f
  BY <1>1, <1>2 DEF Of
<1> QED
  BY <1>1, <1>3

\* A duplicate becomes the receipt of the material that has its text.
LEMMA ReceiptGood ==
    ASSUME MaterialConstants, IndInv, NEW j \in Jobs, MarkReceipt(j) \/ FailReceipt(j)
    PROVE  IndInv'
<1> DEFINE r == job[j].row
           d == job[j].target
           b == [job[j] EXCEPT !.pc = "discard", !.target = r]
<1>1. spent' \in SpentType /\ job[j].pc \in {"receipt", "restored", "failReceipt"}
  BY SpentStays DEF MarkReceipt, FailReceipt, IndInv, TypeOK, SpentType
<1>2. /\ r \in Rows /\ d \in Rows /\ d # r /\ mat[r].sum \in Files /\ mat[r].sum # None
      /\ mat[d].sum = Text[mat[r].sum]
      /\ job[j].pc = "restored" => mat[d].chunks = mat[d].sum
  BY <1>1, ReceiptRow
<1>3. mat[r] \in RowType /\ RowGood(mat, r)
  BY <1>2, RowKnows
<1>4. b \in JobType /\ JobGood(mat, b)
  <2>1. b \in JobType
    <3>1. job[j] \in JobType /\ r \in Rows \cup {None} /\ "discard" \in Idle \cup Busy
      BY <1>2, JobKnows DEF Busy
    <3> QED
      BY <3>1 DEF JobType
  <2>2. /\ b.pc = "discard" /\ b.row = r /\ b.target = r /\ b.file = job[j].file
        /\ b.text = job[j].text /\ b.batch = job[j].batch /\ b.doomed = job[j].doomed
        /\ b.home = job[j].home
    BY JobKnows DEF JobType
  <2> HIDE DEF b
  <2>3. JobGood(mat, b)
    BY <1>2, <2>2, JobKnows DEF JobGood, Idle, Busy
  <2> QED
    BY <2>1, <2>3
<1>5. ASSUME NEW m \in RowType, m.sum = mat[r].sum, m.text = mat[r].text,
             m.chunks = mat[r].chunks, m.blob = mat[r].blob, m.st = "FAILED", m.dup = d,
             m.res = "RESTORED" /\ ~ m.reason => job[j].pc = "restored",
             mat' = [mat EXCEPT ![r] = m],
             job' = [job EXCEPT ![j].pc = "discard", ![j].target = r]
      PROVE  IndInv'
  <2>1. mat'[r] = m /\ mat'[d] = mat[d]
    BY <1>2, <1>5 DEF IndInv, TypeOK
  <2>2. RowGood(mat', r)
    BY <1>2, <1>3, <1>5, <2>1 DEF RowGood, Of
  <2>3. Grows(mat[r], m)
    BY <1>5 DEF Grows
  <2>4. JobGood(mat', b)
    BY <1>2, <1>4, <1>5, <2>3, JobsStay DEF IndInv, TypeOK
  <2>5. job' = [job EXCEPT ![j] = b]
    BY <1>5 DEF IndInv, TypeOK
  <2> QED
    BY <1>1, <1>2, <1>4, <1>5, <2>2, <2>3, <2>4, <2>5, StepGood
<1>6. CASE MarkReceipt(j)
  <2> DEFINE m(x) == [mat[r] EXCEPT !.st = "FAILED", !.dup = d, !.lease = "none", !.res = x]
  <2>1. PICK x \in {"EXISTING", "RESTORED"} :
            /\ x = "RESTORED" => job[j].pc = "restored"
            /\ mat' = [mat EXCEPT ![r] = m(x)]
    BY <1>2, <1>6 DEF MarkReceipt, IndInv, TypeOK
  <2>2. /\ m(x) \in RowType /\ m(x).sum = mat[r].sum /\ m(x).text = mat[r].text
        /\ m(x).chunks = mat[r].chunks /\ m(x).blob = mat[r].blob /\ m(x).st = "FAILED"
        /\ m(x).dup = d /\ m(x).res = x
    BY <1>2, <1>3 DEF RowType
  <2> HIDE DEF m
  <2> QED
    BY <1>5, <1>6, <2>1, <2>2 DEF MarkReceipt
<1>7. CASE FailReceipt(j)
  <2> DEFINE m == [mat[r] EXCEPT !.st = "FAILED", !.dup = d, !.res = "RESTORED",
                                 !.reason = TRUE, !.lease = "none"]
  <2>1. CASE UNCHANGED mat /\ Finish(j)
    BY <1>1, <2>1, FinishStep
  <2>2. CASE /\ mat' = [mat EXCEPT ![r].st = "FAILED", ![r].dup = d, ![r].res = "RESTORED",
                                    ![r].reason = TRUE, ![r].lease = "none"]
             /\ job' = [job EXCEPT ![j].pc = "discard", ![j].target = r]
    <3>1. mat' = [mat EXCEPT ![r] = m]
      BY <1>2, <2>2 DEF IndInv, TypeOK
    <3>2. /\ m \in RowType /\ m.sum = mat[r].sum /\ m.text = mat[r].text
          /\ m.chunks = mat[r].chunks /\ m.blob = mat[r].blob /\ m.st = "FAILED"
          /\ m.dup = d /\ m.res = "RESTORED" /\ m.reason
      BY <1>2, <1>3 DEF RowType
    <3> HIDE DEF m
    <3> QED
      BY <1>5, <2>2, <3>1, <3>2
  <2> QED
    BY <1>7, <2>1, <2>2 DEF FailReceipt
<1> QED
  BY <1>6, <1>7

-----------------------------------------------------------------------------
(* The sweeper.                                                            *)

\* A scan selects stored rows only, and dooms only what it selects.
LEMMA ScanGood ==
    ASSUME IndInv, NEW s \in Sweepers, SweepScans(s) \/ ReembedScans(s) \/ SweepEnds(s)
    PROVE  IndInv'
<1>1. mat' = mat /\ spent' \in SpentType /\ s \in Jobs
  BY DEF SweepScans, ReembedScans, SweepEnds, IndInv, TypeOK, SpentType, Jobs
<1>2. /\ StrandedUploads \subseteq Rows /\ Doomed \subseteq StrandedUploads
      /\ StrandedReembeds \subseteq Rows
  BY DEF StrandedUploads, Doomed, StrandedReembeds
<1>3. /\ \A r \in StrandedUploads \cup StrandedReembeds : mat[r].sum # None
      /\ \A r \in StrandedReembeds : mat[r].sum \in Texts
  BY StoredRow, RowKnows DEF StrandedUploads, StrandedReembeds, RowGood
<1>4. CASE SweepScans(s)
  <2> DEFINE b == [NoJob EXCEPT !.pc = "sweep", !.home = "sweep",
                                !.batch = StrandedUploads, !.doomed = Doomed]
  <2>1. b \in JobType /\ JobGood(mat, b)
    BY <1>2, <1>3 DEF NoJob, JobType, JobGood, Idle, Busy
  <2> QED
    BY <1>1, <1>4, <2>1, JobStepGood DEF SweepScans
<1>5. CASE ReembedScans(s)
  <2> DEFINE b == [NoJob EXCEPT !.pc = "resweep", !.home = "resweep",
                                !.batch = StrandedReembeds]
  <2>1. b \in JobType /\ JobGood(mat, b)
    BY <1>2, <1>3 DEF NoJob, JobType, JobGood, Idle, Busy
  <2> QED
    BY <1>1, <1>5, <2>1, JobStepGood DEF ReembedScans
<1>6. CASE SweepEnds(s)
  <2>1. NoJob \in JobType /\ JobGood(mat, NoJob)
    BY DEF NoJob, JobType, JobGood, Idle, Busy
  <2> QED
    BY <1>1, <1>6, <2>1, JobStepGood DEF SweepEnds
<1> QED
  BY <1>4, <1>5, <1>6

\* The next row of either batch.
LEMMA TakeGood ==
    ASSUME MaterialConstants, IndInv, NEW s \in Sweepers, NEW r \in Rows,
           SweepTakes(s, r) \/ ReembedTakes(s, r)
    PROVE  IndInv'
<1> DEFINE old == job[s].batch \ {r}
           dead == job[s].doomed \ {r}
<1>1. s \in Jobs /\ spent' \in SpentType /\ r \in job[s].batch
  BY DEF SweepTakes, ReembedTakes, IndInv, TypeOK, SpentType, Jobs
<1>2. /\ mat[r].sum # None /\ mat[r] \in RowType /\ RowGood(mat, r)
      /\ old \subseteq Rows /\ dead \subseteq old /\ \A q \in old : mat[q].sum # None
      /\ mat[r].blob \in Files \cup {None} /\ mat[r].text \in Texts \cup {None}
  BY <1>1, JobKnows, RowKnows DEF JobGood, JobType, RowType
<1>3. CASE SweepTakes(s, r)
  <2> DEFINE rest == [NoJob EXCEPT !.pc = "sweep", !.home = "sweep", !.batch = old,
                                   !.doomed = dead]
             work == [rest EXCEPT !.row = r, !.target = r]
             left == [work EXCEPT !.pc = "abandon"]
             again == [work EXCEPT !.pc = "claim", !.file = mat[r].blob]
  <2>1. mat' = mat
    BY <1>3 DEF SweepTakes
  <2>2. rest \in JobType /\ JobGood(mat, rest)
    BY <1>2 DEF NoJob, JobType, JobGood, Idle, Busy
  <2>3. left \in JobType /\ JobGood(mat, left)
    BY <1>2 DEF NoJob, JobType, JobGood, Idle, Busy
  <2>4. ASSUME mat[r].blob # None PROVE again \in JobType /\ JobGood(mat, again)
    <3>1. Of(mat, r, mat[r].blob)
      BY <1>2, <2>4 DEF RowGood
    <3>2. again \in JobType
      BY <1>2 DEF NoJob, JobType, Idle, Busy
    <3>3. /\ again.pc = "claim" /\ again.row = r /\ again.target = r /\ again.text = None
          /\ again.file = mat[r].blob /\ again.batch = old /\ again.doomed = dead
          /\ again.home = "sweep"
      BY DEF NoJob
    <3> HIDE DEF again
    <3> QED
      BY <1>2, <2>4, <3>1, <3>2, <3>3 DEF JobGood, Idle, Busy
  <2>5. \/ job' = [job EXCEPT ![s] = rest]
        \/ job' = [job EXCEPT ![s] = left]
        \/ mat[r].blob # None /\ job' = [job EXCEPT ![s] = again]
    BY <1>3 DEF SweepTakes
  <2> HIDE DEF rest, left, again
  <2> QED
    BY <1>1, <2>1, <2>2, <2>3, <2>4, <2>5, JobStepGood
<1>4. CASE ReembedTakes(s, r)
  <2> DEFINE rest == [NoJob EXCEPT !.pc = "resweep", !.home = "resweep", !.batch = old]
             b == [rest EXCEPT !.pc = "embed", !.row = r, !.target = r, !.text = mat[r].text]
  <2>1. \A q \in job[s].batch : mat[q].sum \in Texts
    BY <1>1, <1>4, JobKnows DEF ReembedTakes, JobGood, Idle
  <2>2. CASE UNCHANGED mat /\ job' = [job EXCEPT ![s] = rest]
    <3>1. rest \in JobType /\ JobGood(mat, rest)
      BY <1>2, <2>1 DEF NoJob, JobType, JobGood, Idle, Busy
    <3> HIDE DEF rest
    <3> QED
      BY <1>1, <2>2, <3>1, JobStepGood
  <2>3. CASE /\ Processing(r) /\ mat' = [mat EXCEPT ![r].lease = "live"]
             /\ job' = [job EXCEPT ![s] = b]
    <3>1. mat[r].sum \in Texts /\ mat[r].text = mat[r].sum
      BY <1>1, <1>2, <2>1 DEF RowGood
    <3>2. mat' = [mat EXCEPT ![r] = [mat[r] EXCEPT !.lease = "live"]] /\ Stored(r)
      BY <2>3 DEF Processing, Stored
    <3>3. b \in JobType
      BY <1>2, <3>1 DEF NoJob, JobType, Idle, Busy
    <3>4. /\ b.pc = "embed" /\ b.row = r /\ b.target = r /\ b.file = None
          /\ b.text = mat[r].text /\ b.batch = old /\ b.doomed = {}
      BY DEF NoJob
    <3> HIDE DEF b
    <3>5. JobGood(mat, b)
      BY <1>2, <2>1, <3>1, <3>4 DEF JobGood, Idle, Busy
    <3> QED
      BY <1>1, <1>2, <2>3, <3>2, <3>3, <3>5, LeaseTouches, TouchStep
  <2> QED
    BY <1>4, <2>2, <2>3 DEF ReembedTakes
<1> QED
  BY <1>3, <1>4

-----------------------------------------------------------------------------
(* The theorems.                                                           *)

\* The initial state satisfies the inductive invariant.
LEMMA InitInd == MaterialConstants /\ Init => IndInv
<1> SUFFICES ASSUME MaterialConstants, Init PROVE IndInv
  OBVIOUS
<1>1. NoRow \in RowType /\ NoJob \in JobType
  BY DEF NoRow, NoJob, RowType, JobType, Idle
<1>2. TypeOK
  BY <1>1 DEF Init, TypeOK, NoJob
<1>3. \A r \in Rows : RowGood(mat, r)
  BY MaterialConstants DEF Init, RowGood, NoRow, MaterialConstants
<1>4. SumsUnique(mat)
  BY DEF Init, SumsUnique, NoRow
<1>5. \A j \in Jobs : JobGood(mat, job[j])
  BY DEF Init, JobGood, NoJob, Idle, Busy
<1> QED
  BY <1>2, <1>3, <1>4, <1>5 DEF IndInv

\* Every statement of a job keeps the inductive invariant.
LEMMA WorkGood ==
    ASSUME MaterialConstants, IndInv, NEW j \in Jobs, Work(j)
    PROVE  IndInv'
BY ReclaimGood, ReprocessGood, ClaimGood, ExtractBusyGood, FailuresGood, LookupGood, RestoreGood,
   PromoteGood, PromoteLosesGood, EmbedGood, ReadyGood, FailGood, DiscardGood, ReceiptGood,
   DbErrorGood
DEF Work

\* Every step keeps the inductive invariant.
LEMMA NextInd == MaterialConstants /\ IndInv /\ [Next]_vars => IndInv'
<1> SUFFICES ASSUME MaterialConstants, IndInv, [Next]_vars PROVE IndInv'
  OBVIOUS
<1>1. CASE UNCHANGED vars
  <2>1. mat' = mat /\ job' = job /\ spent' = spent
    BY <1>1 DEF vars
  <2>2. TypeOK'
    BY <2>1 DEF IndInv, TypeOK
  <2>3. SumsUnique(mat') /\ \A r \in Rows : RowGood(mat', r)
    BY <2>1 DEF IndInv
  <2>4. \A j \in Jobs : JobGood(mat', job'[j])
    BY <2>1 DEF IndInv
  <2> QED
    BY <2>2, <2>3, <2>4 DEF IndInv
<1>2. ASSUME NEW j \in Requests, Request(j) PROVE IndInv'
  <2>1. j \in Jobs
    BY DEF Jobs
  <2>2. PICK r \in Rows : \/ \E f \in Files : UploadCreates(j, f, r) \/ UploadConflicts(j, f, r)
                          \/ ReprocessReads(j, r)
    BY <1>2 DEF Request
  <2>3. ASSUME NEW f \in Files, UploadCreates(j, f, r) PROVE IndInv'
    BY <2>1, <2>3, UploadGood
  <2>4. ASSUME NEW f \in Files, UploadConflicts(j, f, r) PROVE IndInv'
    BY <2>1, <2>4, RequestReadsGood
  <2>5. CASE ReprocessReads(j, r)
    BY <2>1, <2>5, RequestReadsGood
  <2> QED
    BY <2>2, <2>3, <2>4, <2>5
<1>3. ASSUME NEW s \in Sweepers, Sweep(s) PROVE IndInv'
  <2>1. CASE SweepScans(s) \/ ReembedScans(s) \/ SweepEnds(s)
    BY <2>1, ScanGood
  <2>2. ASSUME NEW r \in Rows, SweepTakes(s, r) \/ ReembedTakes(s, r) PROVE IndInv'
    BY <2>2, TakeGood
  <2> QED
    BY <1>3, <2>1, <2>2 DEF Sweep, SweepGoesOn
<1>4. ASSUME NEW j \in Jobs, Work(j) \/ Die(j) PROVE IndInv'
  BY <1>4, WorkGood, DieGood
<1>5. ASSUME NEW j \in Jobs, Renew(j) PROVE IndInv'
  <2>1. job[j].target \in Rows
    BY <1>5, JobRows DEF Renew, Busy
  <2> QED
    BY <1>5, <2>1, RowStepsGood
<1>6. ASSUME NEW r \in Rows, Delete(r) \/ LeaseLapses(r) \/ GoesUnclaimed(r) PROVE IndInv'
  BY <1>6, RowStepsGood
<1> QED
  BY <1>1, <1>2, <1>3, <1>4, <1>5, <1>6 DEF Next

\* The inductive invariant implies both safety properties of the index.
LEMMA IndIndexed == MaterialConstants /\ IndInv => ReadyIsIndexed /\ RestoredIsIndexed
<1> SUFFICES ASSUME MaterialConstants, IndInv PROVE ReadyIsIndexed /\ RestoredIsIndexed
  OBVIOUS
<1>1. ReadyIsIndexed
  BY RowKnows DEF ReadyIsIndexed, RowGood
<1>2. RestoredIsIndexed
  BY RowKnows DEF RestoredIsIndexed, RowGood
<1> QED
  BY <1>1, <1>2

\* The rows and the jobs always have their types, and a sweep gives up only rows
\* its scan selected.
THEOREM TypeTheorem == Spec => []TypeOK
<1>1. Init => IndInv
  BY InitInd, MaterialConstants
<1>2. IndInv /\ [Next]_vars => IndInv'
  BY NextInd, MaterialConstants
<1>3. IndInv => TypeOK
  BY DEF IndInv
<1> QED
  BY <1>1, <1>2, <1>3, PTL DEF Spec

\* Whatever jobs, crashes, lapses, re-uploads and failed writes there are, a
\* material that is READY has the chunks of the text its checksum stands for.
THEOREM ReadyTheorem == Spec => []ReadyIsIndexed
<1>1. Init => IndInv
  BY InitInd, MaterialConstants
<1>2. IndInv /\ [Next]_vars => IndInv'
  BY NextInd, MaterialConstants
<1>3. IndInv => ReadyIsIndexed
  BY IndIndexed, MaterialConstants
<1> QED
  BY <1>1, <1>2, <1>3, PTL DEF Spec

\* Under the same conditions a receipt shown as restored, without a reason,
\* points at a material that has the chunks of the text the two share.
THEOREM RestoredTheorem == Spec => []RestoredIsIndexed
<1>1. Init => IndInv
  BY InitInd, MaterialConstants
<1>2. IndInv /\ [Next]_vars => IndInv'
  BY NextInd, MaterialConstants
<1>3. IndInv => RestoredIsIndexed
  BY IndIndexed, MaterialConstants
<1> QED
  BY <1>1, <1>2, <1>3, PTL DEF Spec
=============================================================================
