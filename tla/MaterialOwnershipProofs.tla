---------------------- MODULE MaterialOwnershipProofs ----------------------
(***************************************************************************)
(* What the leases of material rows achieve: one job at a time works on a  *)
(* row and the bytes stay as long as they are needed, unless a sweep fails *)
(* the row from under a worker (mat[r].taken), and a file is tried a       *)
(* bounded number of times.  The theorems hold for any number of rows,     *)
(* requests, sweeps under way at once, crashes and deletions.              *)
(***************************************************************************)
EXTENDS MaterialExtractionProofs, FiniteSetTheorems

\* Job record b works on row r, or will write r when its restore of another row is over.
Owned(b, r) ==
    \/ b.row = r /\ b.pc \in {"extract", "promote", "restore", "retry", "receipt"}
    \/ b.target = r /\ b.pc \in {"embed", "ready", "fail"}
    \/ b.row = r /\ b.target # b.row

\* A row as its worker needs it; of one taken by a sweep nothing is said.
Held(m) == m.taken \/ (m.st = "PROCESSING" /\ m.lease = "live")

Shape(j, b) ==
    /\ b.pc \in {"claim", "abandon"} => b.row \notin b.batch /\ b.target = b.row
    /\ j \in Requests => b.home = "free" /\ b.batch = {} /\ b.pc # "abandon"
    /\ b.pc = "reclaim" => MayReupload /\ b.batch = {}

OwnInv ==
    /\ \A j \in Jobs : Shape(j, job[j])
    /\ \A j \in Jobs, r \in Rows : Owned(job[j], r) => Held(mat[r])
    /\ \A j, k \in Jobs, r \in Rows :
           Owned(job[j], r) /\ Owned(job[k], r) => mat[r].taken \/ j = k

\* A row that still needs its bytes.
Raw(m) == m.st = "PROCESSING" /\ m.sum \in Files /\ ~ m.taken

\* The bytes of a row go only when its text is known or it is no longer PROCESSING.
DropInv ==
    /\ \A j \in Jobs : job[j].pc = "discard" => ~ Raw(mat[job[j].target])
    /\ \A r \in Rows : Raw(mat[r]) => mat[r].blob # None

-----------------------------------------------------------------------------
(* What a step of one job, and of one row, has to show.                    *)

\* Only j owns row r.
OnlyBy(j, r) == \A k \in Jobs : Owned(job[k], r) => k = j

\* A step of job j: what others own is as it was, and what j now owns is held and
\* was its own before, or nobody's, or has been taken.
LEMMA OwnStep ==
    ASSUME OwnInv, job \in [Jobs -> JobType], NEW j \in Jobs, NEW b, job' = [job EXCEPT ![j] = b],
           Shape(j, b),
           \A s \in Rows : mat[s].taken => mat'[s].taken \/ OnlyBy(j, s),
           \A s \in Rows : Owned(b, s) => Held(mat'[s]) /\ (mat'[s].taken \/ OnlyBy(j, s)),
           \A k \in Jobs \ {j}, s \in Rows : Owned(job[k], s) => Held(mat'[s])
    PROVE  OwnInv'
<1>1. job'[j] = b /\ \A k \in Jobs : k # j => job'[k] = job[k]
  OBVIOUS
<1>2. \A k \in Jobs : Shape(k, job'[k])
  BY <1>1 DEF OwnInv
<1>3. \A k \in Jobs, r \in Rows : Owned(job'[k], r) => Held(mat'[r])
  BY <1>1
<1>4. ASSUME NEW i \in Jobs, NEW k \in Jobs, NEW r \in Rows,
             Owned(job'[i], r), Owned(job'[k], r), ~ mat'[r].taken
      PROVE  i = k
  <2>1. CASE i = j \/ k = j
    BY <1>1, <1>4, <2>1 DEF OnlyBy
  <2>2. CASE i # j /\ k # j
    BY <1>1, <1>4, <2>2 DEF OwnInv, OnlyBy
  <2> QED
    BY <2>1, <2>2
<1> QED
  BY <1>2, <1>3, <1>4 DEF OwnInv

\* A step of a job that writes no row and takes nothing new.
LEMMA QuietStep ==
    ASSUME OwnInv, job \in [Jobs -> JobType], mat' = mat,
           NEW j \in Jobs, NEW b, job' = [job EXCEPT ![j] = b], Shape(j, b),
           \A s \in Rows : Owned(b, s) => Owned(job[j], s)
    PROVE  OwnInv'
<1>1. \A s \in Rows : Owned(b, s) => Held(mat'[s]) /\ (mat'[s].taken \/ OnlyBy(j, s))
  BY DEF OwnInv, OnlyBy
<1>2. /\ \A s \in Rows : mat[s].taken => mat'[s].taken
      /\ \A k \in Jobs \ {j}, s \in Rows : Owned(job[k], s) => Held(mat'[s])
  BY DEF OwnInv
<1> QED
  BY <1>1, <1>2, OwnStep

\* A write of a row that others do not own, unless it is taken from them.
LEMMA WriteStep ==
    ASSUME OwnInv, job \in [Jobs -> JobType], mat \in [Rows -> RowType],
           NEW r \in Rows, NEW m, mat' = [mat EXCEPT ![r] = m],
           NEW j \in Jobs, NEW b, job' = [job EXCEPT ![j] = b], Shape(j, b),
           m.taken \/ OnlyBy(j, r),
           \A s \in Rows \ {r} : Owned(b, s) => Owned(job[j], s),
           Owned(b, r) => Held(m)
    PROVE  OwnInv'
<1>1. mat'[r] = m /\ \A s \in Rows \ {r} : mat'[s] = mat[s]
  OBVIOUS
<1>2. \A s \in Rows : mat[s].taken => mat'[s].taken \/ OnlyBy(j, s)
  BY <1>1
<1>3. \A s \in Rows : Owned(b, s) => Held(mat'[s]) /\ (mat'[s].taken \/ OnlyBy(j, s))
  BY <1>1 DEF OwnInv, OnlyBy
<1>4. \A k \in Jobs \ {j}, s \in Rows : Owned(job[k], s) => Held(mat'[s])
  BY <1>1 DEF OwnInv, OnlyBy, Held
<1> QED
  BY <1>2, <1>3, <1>4, OwnStep

\* A write of a row by no job, which keeps what its owner relies on.
LEMMA RowWrite ==
    ASSUME OwnInv, job' = job, mat \in [Rows -> RowType],
           NEW r \in Rows, NEW m, mat' = [mat EXCEPT ![r] = m],
           mat[r].taken => m.taken, \A k \in Jobs : Owned(job[k], r) => Held(m)
    PROVE  OwnInv'
<1>1. mat'[r] = m /\ \A s \in Rows \ {r} : mat'[s] = mat[s]
  OBVIOUS
<1>2. \A k \in Jobs, s \in Rows : Owned(job[k], s) => Held(mat'[s])
  BY <1>1 DEF OwnInv
<1>3. \A s \in Rows : mat[s].taken => mat'[s].taken
  BY <1>1
<1> QED
  BY <1>2, <1>3 DEF OwnInv

\* Nobody works on a row that is not PROCESSING or whose lease is not live, unless it was
\* taken; and nobody at all on one that is not stored.
LEMMA Nobody ==
    ASSUME IndInv, OwnInv, NEW r \in Rows, NEW j
    PROVE  /\ ~ Processing(r) \/ mat[r].lease # "live" => mat[r].taken \/ OnlyBy(j, r)
           /\ ~ Stored(r) => OnlyBy(j, r)
<1>1. ~ Processing(r) \/ mat[r].lease # "live" => mat[r].taken \/ OnlyBy(j, r)
  BY DEF OwnInv, Held, Processing, OnlyBy
<1>2. ASSUME ~ Stored(r), NEW k \in Jobs PROVE ~ Owned(job[k], r)
  <2>1. mat[r].sum = None
    BY <1>2, RowKnows DEF RowGood, Stored
  <2>2. CASE job[k].pc \in Busy
    BY <2>1, <2>2, JobRows DEF Owned
  <2>3. CASE job[k].pc \notin Busy
    <3>1. job[k].pc \in Idle /\ job[k].row = None /\ job[k].target = None
      BY <2>3, JobKnows DEF JobType, JobGood
    <3> QED
      BY <2>3, <3>1 DEF Owned, Busy
  <2> QED
    BY <2>2, <2>3
<1> QED
  BY <1>1, <1>2 DEF OnlyBy

\* What belongs to one job belongs to no other.
LEMMA Alone ==
    ASSUME OwnInv, NEW r \in Rows, NEW j \in Jobs, Owned(job[j], r)
    PROVE  mat[r].taken \/ OnlyBy(j, r)
BY DEF OwnInv, OnlyBy

\* The record Finish gives a job owns nothing.
LEMMA FinishedOwns ==
    ASSUME IndInv, OwnInv, NEW j \in Jobs
    PROVE  Shape(j, Finished(j)) /\ \A s \in Rows : ~ Owned(Finished(j), s)
<1>1. None \notin Rows
  BY MaterialConstants DEF MaterialConstants
<1>2. /\ Finished(j).row = None /\ Finished(j).target = None
      /\ Finished(j).home = job[j].home /\ Finished(j).batch = job[j].batch
      /\ Finished(j).pc = job[j].home /\ job[j].home \in Idle
  BY DEF Finished, NoJob, IndInv, TypeOK, JobType
<1>3. Finished(j).pc \notin Busy
  BY <1>2 DEF Idle, Busy
<1> HIDE DEF Finished
<1> QED
  BY <1>1, <1>2, <1>3 DEF Owned, Shape, OwnInv, Busy

\* A job that ends without a write.
LEMMA FinishQuiet ==
    ASSUME IndInv, OwnInv, NEW j \in Jobs, UNCHANGED mat, Finish(j)
    PROVE  OwnInv'
BY FinishedOwns, QuietStep DEF Finish, IndInv, TypeOK

-----------------------------------------------------------------------------
(* Steps that write no row.                                                *)

\* A job that turns to statement p with the rows it has.
LEMMA GoQuiet ==
    ASSUME IndInv, OwnInv, NEW j \in Jobs, UNCHANGED mat, NEW p, Go(j, p),
           p \notin {"claim", "abandon", "reclaim"},
           \A s \in Rows : Owned([job[j] EXCEPT !.pc = p], s) => Owned(job[j], s)
    PROVE  OwnInv'
<1> DEFINE b == [job[j] EXCEPT !.pc = p]
<1>1. job' = [job EXCEPT ![j] = b] /\ job \in [Jobs -> JobType]
  BY DEF Go, IndInv, TypeOK
<1>2. b.pc = p /\ b.home = job[j].home /\ b.batch = job[j].batch
  BY JobKnows DEF JobType
<1> HIDE DEF b
<1>3. Shape(j, b)
  BY <1>2 DEF OwnInv, Shape
<1> QED
  BY <1>1, <1>3, QuietStep DEF b

\* Failures that are not written, the look-up, the lost promotion and statements that throw.
LEMMA QuietOwn ==
    ASSUME IndInv, OwnInv, NEW j \in Jobs,
           \/ ExtractFails(j) \/ EmbedFails(j) \/ ExtractBusyUnwritten(j)
           \/ ExtractAndLookup(j) \/ PromoteLoses(j) \/ DbError(j)
    PROVE  OwnInv'
<1>1. ASSUME NEW pc, NEW d, NEW t, mat' = mat,
             pc \notin {"claim", "abandon", "reclaim"},
             job' = [job EXCEPT ![j] = [job[j] EXCEPT !.pc = pc, !.target = d, !.text = t]],
             \A s \in Rows : Owned([job[j] EXCEPT !.pc = pc, !.target = d, !.text = t], s)
                               => Owned(job[j], s)
      PROVE  OwnInv'
  <2> DEFINE b == [job[j] EXCEPT !.pc = pc, !.target = d, !.text = t]
  <2>1. b.pc = pc /\ b.home = job[j].home /\ b.batch = job[j].batch
    BY JobKnows DEF JobType
  <2> HIDE DEF b
  <2>2. Shape(j, b)
    BY <1>1, <2>1 DEF OwnInv, Shape
  <2> QED
    BY <1>1, <2>2, QuietStep DEF b, IndInv, TypeOK
<1>2. CASE ExtractFails(j) \/ EmbedFails(j)
  <2>1. Go(j, "fail") /\ mat' = mat /\ job[j].pc \in {"extract", "embed"}
    BY <1>2 DEF ExtractFails, EmbedFails
  <2>2. job[j].pc = "extract" => job[j].target = job[j].row
    BY JobKnows DEF JobGood
  <2>3. \A s \in Rows : Owned([job[j] EXCEPT !.pc = "fail"], s) => Owned(job[j], s)
    BY <2>1, <2>2, JobKnows DEF JobType, Owned
  <2> QED
    BY <2>1, <2>3, GoQuiet
<1>3. CASE ExtractBusyUnwritten(j)
  BY <1>3, FinishQuiet DEF ExtractBusyUnwritten
<1>4. CASE ExtractAndLookup(j)
  <2> DEFINE t == Text[job[j].file]
  <2>1. CASE Finish(j)
    BY <1>4, <2>1, FinishQuiet DEF ExtractAndLookup
  <2>2. CASE \E pc \in {"promote", "restore", "receipt"}, d \in Rows :
               job' = [job EXCEPT ![j].text = t, ![j].pc = pc, ![j].target = d]
    <3>1. PICK pc \in {"promote", "restore", "receipt"}, d \in Rows :
               job' = [job EXCEPT ![j].text = t, ![j].pc = pc, ![j].target = d]
      BY <2>2
    <3>2. job' = [job EXCEPT ![j] = [job[j] EXCEPT !.pc = pc, !.target = d, !.text = t]]
      BY <3>1, JobKnows DEF JobType, IndInv, TypeOK
    <3>3. \A s \in Rows : Owned([job[j] EXCEPT !.pc = pc, !.target = d, !.text = t], s)
                             => Owned(job[j], s)
      BY <1>4, JobKnows DEF ExtractAndLookup, JobType, Owned
    <3> QED
      BY <1>1, <1>4, <3>2, <3>3 DEF ExtractAndLookup
  <2>3. job[j].row \in Rows
    BY <1>4, JobKnows DEF ExtractAndLookup, JobGood, Busy
  <2> QED
    BY <1>4, <2>1, <2>2, <2>3 DEF ExtractAndLookup
<1>5. CASE PromoteLoses(j)
  <2>1. PICK d \in Rows : job' = [job EXCEPT ![j].target = d, ![j].pc = "receipt"]
    BY <1>5 DEF PromoteLoses
  <2>2. job' = [job EXCEPT ![j] = [job[j] EXCEPT !.pc = "receipt", !.target = d,
                                                 !.text = job[j].text]]
    BY <2>1, JobKnows DEF JobType, IndInv, TypeOK
  <2>3. \A s \in Rows : Owned([job[j] EXCEPT !.pc = "receipt", !.target = d,
                                             !.text = job[j].text], s) => Owned(job[j], s)
    BY <1>5, JobKnows DEF PromoteLoses, JobType, Owned
  <2> QED
    BY <1>1, <1>5, <2>2, <2>3 DEF PromoteLoses
<1>6. CASE DbError(j)
  <2>1. CASE /\ job[j].pc \in {"restore", "retry", "promote", "receipt", "restored"}
             /\ job' = [job EXCEPT ![j].pc = "fail", ![j].target = job[j].row]
    <3>1. job' = [job EXCEPT ![j] = [job[j] EXCEPT !.pc = "fail", !.target = job[j].row,
                                                   !.text = job[j].text]]
      BY <2>1, JobKnows DEF JobType, IndInv, TypeOK
    <3>2. job[j].pc = "restored" => job[j].target # job[j].row
      BY JobKnows DEF JobGood
    <3>3. \A s \in Rows : Owned([job[j] EXCEPT !.pc = "fail", !.target = job[j].row,
                                               !.text = job[j].text], s) => Owned(job[j], s)
      BY <2>1, <3>2, JobKnows DEF JobType, Owned
    <3> QED
      BY <1>1, <1>6, <3>1, <3>3 DEF DbError
  <2>2. CASE job[j].pc = "ready" /\ Go(j, "fail")
    <3>1. \A s \in Rows : Owned([job[j] EXCEPT !.pc = "fail"], s) => Owned(job[j], s)
      BY <2>2, JobKnows DEF JobType, Owned
    <3> QED
      BY <1>6, <2>2, <3>1, GoQuiet DEF DbError
  <2> QED
    BY <1>6, <2>1, <2>2 DEF DbError
<1> QED
  BY <1>2, <1>3, <1>4, <1>5, <1>6

\* A dead job owns nothing.
LEMMA DieOwn ==
    ASSUME IndInv, OwnInv, NEW j \in Jobs, Die(j)
    PROVE  OwnInv'
<1>1. NoJob.pc = "free" /\ NoJob.row = None /\ NoJob.target = None /\ NoJob.batch = {}
      /\ NoJob.home = "free" /\ None \notin Rows
  BY MaterialConstants DEF NoJob, MaterialConstants
<1> HIDE DEF NoJob
<1>2. Shape(j, NoJob) /\ \A s \in Rows : ~ Owned(NoJob, s)
  BY <1>1 DEF Shape, Owned
<1> QED
  BY <1>2, QuietStep DEF Die, IndInv, TypeOK

-----------------------------------------------------------------------------
(* Steps that take a row.                                                  *)

\* A job that takes row r by a write that leaves it PROCESSING under a live lease, when
\* nobody else has it.
LEMMA TakeStep ==
    ASSUME IndInv, OwnInv, NEW j \in Jobs, NEW b, job' = [job EXCEPT ![j] = b],
           NEW r \in Rows, NEW m, mat' = [mat EXCEPT ![r] = m], Held(m),
           m.taken \/ OnlyBy(j, r),
           b.pc \notin {"claim", "abandon", "reclaim"},
           b.home = job[j].home, b.batch \subseteq job[j].batch,
           \A s \in Rows \ {r} : Owned(b, s) => Owned(job[j], s)
    PROVE  OwnInv'
<1>1. Shape(j, b)
  BY DEF OwnInv, Shape
<1> QED
  BY <1>1, WriteStep DEF IndInv, TypeOK

\* An upload creates its row.
LEMMA UploadOwn ==
    ASSUME MaterialConstants, IndInv, OwnInv, NEW j \in Requests, NEW r \in Rows, NEW f \in Files,
           UploadCreates(j, f, r)
    PROVE  OwnInv'
<1> DEFINE m == [NoRow EXCEPT !.st = "PROCESSING", !.sum = f, !.blob = f]
           b == [NoJob EXCEPT !.pc = "claim", !.row = r, !.target = r, !.file = f]
<1>1. /\ mat' = [mat EXCEPT ![r] = m] /\ job' = [job EXCEPT ![j] = b] /\ ~ Stored(r)
      /\ j \in Jobs
  BY DEF UploadCreates, Jobs
<1>2. b.pc = "claim" /\ b.row = r /\ b.target = r /\ b.home = "free" /\ b.batch = {}
  BY DEF NoJob
<1> HIDE DEF m, b
<1>3. Shape(j, b) /\ \A s \in Rows : ~ Owned(b, s)
  BY <1>2 DEF Shape, Owned
<1>4. OnlyBy(j, r)
  BY <1>1, Nobody
<1> QED
  BY <1>1, <1>3, <1>4, WriteStep DEF IndInv, TypeOK

\* reprocessMaterial takes a FAILED row; claimExtraction one without a live lease.
LEMMA ClaimsOwn ==
    ASSUME MaterialConstants, IndInv, OwnInv, NEW j \in Jobs, ReprocessClaims(j) \/ Claim(j)
    PROVE  OwnInv'
<1> DEFINE r == job[j].row
<1>1. /\ r \in Rows /\ mat[r] \in RowType /\ job[j].target = r /\ job[j] \in JobType
  BY JobKnows, RowKnows DEF ReprocessClaims, Claim, JobGood, Busy
<1>2. ASSUME NEW p, Go(j, p), p \in {"embed", "extract"}, NEW m, Held(m),
             mat' = [mat EXCEPT ![r] = m], m.taken = mat[r].taken,
             ~ Processing(r) \/ mat[r].lease # "live"
      PROVE  OwnInv'
  <2> DEFINE b == [job[j] EXCEPT !.pc = p]
  <2>1. /\ job' = [job EXCEPT ![j] = b] /\ b.pc = p /\ b.home = job[j].home
        /\ b.batch = job[j].batch /\ b.row = r /\ b.target = r
    BY <1>1, <1>2 DEF Go, JobType
  <2> HIDE DEF b
  <2>2. \A s \in Rows \ {r} : ~ Owned(b, s)
    BY <2>1 DEF Owned
  <2>3. m.taken \/ OnlyBy(j, r)
    BY <1>1, <1>2, Nobody
  <2> QED
    BY <1>1, <1>2, <2>1, <2>2, <2>3, TakeStep
<1>3. CASE ReprocessClaims(j)
  <2> DEFINE m == [mat[r] EXCEPT !.st = "PROCESSING", !.reason = FALSE, !.lease = "live"]
  <2>1. CASE UNCHANGED mat /\ Finish(j)
    BY <2>1, FinishQuiet
  <2>2. CASE mat[r].st = "FAILED" /\ Go(j, "embed") /\
             mat' = [mat EXCEPT ![r].st = "PROCESSING", ![r].reason = FALSE, ![r].lease = "live"]
    <3>1. mat' = [mat EXCEPT ![r] = m] /\ Held(m) /\ m.taken = mat[r].taken
      BY <1>1, <2>2 DEF IndInv, TypeOK, RowType, Held
    <3> HIDE DEF m
    <3> QED
      BY <1>1, <1>2, <2>2, <3>1 DEF Processing
  <2> QED
    BY <1>3, <2>1, <2>2 DEF ReprocessClaims
<1>4. CASE Claim(j)
  <2> DEFINE m == [mat[r] EXCEPT !.lease = "live", !.tries = @ + 1]
  <2>1. CASE UNCHANGED mat /\ Finish(j)
    BY <2>1, FinishQuiet
  <2>2. CASE Claimable(r) /\ Go(j, "extract") /\
             mat' = [mat EXCEPT ![r].lease = "live", ![r].tries = @ + 1]
    <3>1. mat' = [mat EXCEPT ![r] = m] /\ Held(m) /\ m.taken = mat[r].taken
      BY <1>1, <2>2 DEF IndInv, TypeOK, RowType, Held, Claimable, Processing
    <3> HIDE DEF m
    <3> QED
      BY <1>1, <1>2, <2>2, <3>1 DEF Claimable
  <2> QED
    BY <1>4, <2>1, <2>2 DEF Claim
<1> QED
  BY <1>3, <1>4

\* claimRestoreTarget takes a row that is settled or whose lease is past.
LEMMA RestoreOwn ==
    ASSUME MaterialConstants, IndInv, OwnInv, NEW j \in Jobs, RestoreClaims(j) \/ RetryClaims(j)
    PROVE  OwnInv'
<1> DEFINE d == job[j].target
<1>1. /\ d \in Rows /\ mat[d] \in RowType /\ job[j].pc \in {"restore", "retry"}
      /\ job[j].row \in Rows /\ mat[d].sum \in Texts /\ job[j] \in JobType
  BY JobKnows, RowKnows DEF RestoreClaims, RetryClaims, JobGood, Busy
<1>2. CASE UNCHANGED mat /\ Finish(j)
  BY <1>2, FinishQuiet
<1>3. CASE UNCHANGED mat /\ Go(j, "retry")
  <2>1. \A s \in Rows : Owned([job[j] EXCEPT !.pc = "retry"], s) => Owned(job[j], s)
    BY <1>1 DEF JobType, Owned
  <2> QED
    BY <1>3, <2>1, GoQuiet
<1>4. ASSUME NEW m, m \in {Restored(j, d), [Restored(j, d) EXCEPT !.del = FALSE]},
             mat' = [mat EXCEPT ![d] = m], Go(j, "embed"),
             ~ Processing(d) \/ mat[d].lease # "live"
      PROVE  OwnInv'
  <2> DEFINE b == [job[j] EXCEPT !.pc = "embed"]
  <2>1. Held(m) /\ m.taken = mat[d].taken
    <3>1. /\ Restored(j, d).st = "PROCESSING" /\ Restored(j, d).lease = "live"
          /\ Restored(j, d).taken = mat[d].taken
          /\ [Restored(j, d) EXCEPT !.del = FALSE].st = "PROCESSING"
          /\ [Restored(j, d) EXCEPT !.del = FALSE].lease = "live"
          /\ [Restored(j, d) EXCEPT !.del = FALSE].taken = mat[d].taken
      BY <1>1 DEF Restored, RowType
    <3> QED
      BY <1>4, <3>1 DEF Held
  <2>2. m.taken \/ OnlyBy(j, d)
    BY <1>1, <1>4, <2>1, Nobody
  <2>3. /\ job' = [job EXCEPT ![j] = b] /\ b.pc = "embed" /\ b.home = job[j].home
        /\ b.batch = job[j].batch /\ b.row = job[j].row /\ b.target = d
    BY <1>1, <1>4 DEF Go, JobType
  <2> HIDE DEF b
  <2>4. \A s \in Rows \ {d} : Owned(b, s) => Owned(job[j], s)
    BY <1>1, <2>3 DEF Owned
  <2> QED
    BY <1>1, <1>4, <2>1, <2>2, <2>3, <2>4, TakeStep
<1> QED
  BY <1>2, <1>3, <1>4 DEF RestoreClaims, RetryClaims, Restorable, Lapsed, Processing

-----------------------------------------------------------------------------
(* Steps on a row the job has.                                             *)

\* Job j writes the row it works on and takes nothing new.
LEMMA OwnerWrites ==
    ASSUME MaterialConstants, IndInv, OwnInv, NEW j \in Jobs, NEW b, job' = [job EXCEPT ![j] = b],
           NEW r \in Rows, NEW m, mat' = [mat EXCEPT ![r] = m], Owned(job[j], r), Shape(j, b),
           \A s \in Rows : Owned(b, s) => Owned(job[j], s),
           mat[r].taken => m.taken, Owned(b, r) => Held(m)
    PROVE  OwnInv'
<1>1. m.taken \/ OnlyBy(j, r)
  BY Alone
<1> QED
  BY <1>1, WriteStep DEF IndInv, TypeOK

\* The same, when j goes on to statement p with the rows it has.
LEMMA OwnerGoes ==
    ASSUME MaterialConstants, IndInv, OwnInv, NEW j \in Jobs, NEW p, Go(j, p),
           p \notin {"claim", "abandon", "reclaim"},
           NEW r \in Rows, NEW m, mat' = [mat EXCEPT ![r] = m], Owned(job[j], r),
           \A s \in Rows : Owned([job[j] EXCEPT !.pc = p], s) => Owned(job[j], s),
           mat[r].taken => m.taken, Owned([job[j] EXCEPT !.pc = p], r) => Held(m)
    PROVE  OwnInv'
<1> DEFINE b == [job[j] EXCEPT !.pc = p]
<1>1. job' = [job EXCEPT ![j] = b]
  BY DEF Go
<1>2. b.pc = p /\ b.home = job[j].home /\ b.batch = job[j].batch
  BY JobKnows DEF JobType
<1> HIDE DEF b
<1>3. Shape(j, b)
  BY <1>2 DEF OwnInv, Shape
<1> QED
  BY <1>1, <1>3, OwnerWrites DEF b

\* The promotion and the chunks leave the row held; a busy extractor gives it back.
LEMMA RunOwn ==
    ASSUME MaterialConstants, IndInv, OwnInv, NEW j \in Jobs,
           ExtractBusy(j) \/ Promote(j) \/ Embed(j)
    PROVE  OwnInv'
<1>1. CASE ExtractBusy(j)
  <2>1. job[j].row \in Rows /\ Owned(job[j], job[j].row)
    BY <1>1, JobKnows DEF ExtractBusy, JobGood, Busy, Owned
  <2>2. Released(job[j].row).taken = mat[job[j].row].taken
    BY <2>1, RowKnows DEF Released, RowType
  <2> QED
    BY <1>1, <2>1, <2>2, FinishedOwns, OwnerWrites DEF ExtractBusy, Finish
<1>2. CASE Promote(j)
  <2> DEFINE r == job[j].row
             m == [mat[r] EXCEPT !.sum = job[j].text, !.text = job[j].text, !.reason = FALSE]
  <2>1. r \in Rows /\ Owned(job[j], r) /\ mat[r] \in RowType /\ job[j].target = r
    BY <1>2, JobKnows, RowKnows DEF Promote, JobGood, Busy, Owned
  <2>2. mat' = [mat EXCEPT ![r] = m] /\ Go(j, "embed") /\ job[j].pc = "promote"
    BY <1>2, <2>1 DEF Promote, IndInv, TypeOK
  <2>3. m.st = mat[r].st /\ m.lease = mat[r].lease /\ m.taken = mat[r].taken
    BY <2>1 DEF RowType
  <2>4. Held(m)
    BY <2>1, <2>3 DEF OwnInv, Held
  <2>5. \A s \in Rows : Owned([job[j] EXCEPT !.pc = "embed"], s) => Owned(job[j], s)
    BY <2>1, <2>2, JobKnows DEF JobType, Owned
  <2> HIDE DEF m
  <2> QED
    BY <2>1, <2>2, <2>3, <2>4, <2>5, OwnerGoes
<1>3. CASE Embed(j)
  <2> DEFINE r == job[j].target
             m == [mat[r] EXCEPT !.chunks = job[j].text]
  <2>1. r \in Rows /\ Owned(job[j], r) /\ mat[r] \in RowType
    BY <1>3, JobKnows, RowKnows DEF Embed, JobGood, Busy, Owned
  <2>2. mat' = [mat EXCEPT ![r] = m] /\ Go(j, "ready") /\ job[j].pc = "embed"
    BY <1>3, <2>1 DEF Embed, IndInv, TypeOK
  <2>3. m.st = mat[r].st /\ m.lease = mat[r].lease /\ m.taken = mat[r].taken
    BY <2>1 DEF RowType
  <2>4. Held(m)
    BY <2>1, <2>3 DEF OwnInv, Held
  <2>5. \A s \in Rows : Owned([job[j] EXCEPT !.pc = "ready"], s) => Owned(job[j], s)
    BY <2>2, JobKnows DEF JobType, Owned
  <2> HIDE DEF m
  <2> QED
    BY <2>1, <2>2, <2>3, <2>4, <2>5, OwnerGoes
<1> QED
  BY <1>1, <1>2, <1>3

\* READY and FAILED end the work on the target; a restored one leaves the job its own row.
LEMMA SettleOwn ==
    ASSUME MaterialConstants, IndInv, OwnInv, NEW j \in Jobs, Ready(j) \/ Fail(j)
    PROVE  OwnInv'
<1> DEFINE r == job[j].target
<1>1. r \in Rows /\ mat[r] \in RowType /\ job[j] \in JobType /\ job \in [Jobs -> JobType]
      /\ mat \in [Rows -> RowType]
  BY JobKnows, RowKnows DEF Ready, Fail, JobGood, Busy, IndInv, TypeOK
<1>2. ASSUME NEW p \in {"restored", "discard"}, job[j].pc \in {"ready", "fail"},
             p = "restored" => Restoring(j)
      PROVE  /\ \A s \in Rows : Owned([job[j] EXCEPT !.pc = p], s) => Owned(job[j], s)
             /\ ~ Owned([job[j] EXCEPT !.pc = p], r)
  BY <1>1, <1>2 DEF JobType, Owned, Restoring
<1>3. CASE Ready(j)
  <2> DEFINE m == [mat[r] EXCEPT !.st = "READY", !.reason = FALSE, !.lease = "none"]
  <2>1. /\ mat' = [mat EXCEPT ![r] = m] /\ Owned(job[j], r) /\ job[j].pc = "ready"
        /\ m.taken = mat[r].taken
    BY <1>1, <1>3 DEF Ready, Owned, RowType
  <2> HIDE DEF m
  <2>2. CASE Restoring(j) /\ Go(j, "restored")
    BY <1>1, <1>2, <2>1, <2>2, OwnerGoes
  <2>3. CASE Go(j, "discard")
    BY <1>1, <1>2, <2>1, <2>3, OwnerGoes
  <2>4. CASE Finish(j)
    BY <1>1, <2>1, <2>4, FinishedOwns, OwnerWrites DEF Finish
  <2> QED
    BY <1>3, <2>2, <2>3, <2>4 DEF Ready
<1> DEFINE f(tk) == [mat[r] EXCEPT !.st = "FAILED", !.reason = TRUE, !.lease = "none",
                                   !.taken = tk]
<1>6. \A tk \in BOOLEAN : f(tk).taken = tk
  BY <1>1 DEF RowType
<1>7. ASSUME Fail(j)
      PROVE  \/ UNCHANGED mat
             \/ \E tk \in BOOLEAN :
                   /\ tk = (mat[r].taken \/ (job[j].pc = "abandon" /\ mat[r].lease = "live"))
                   /\ mat' = [mat EXCEPT ![r] = f(tk)]
  BY <1>1, <1>7, FailWrites
<1> HIDE DEF f
<1>4. CASE Fail(j) /\ job[j].pc = "fail"
  <2>1. Owned(job[j], r) /\ Go(j, "discard")
    BY <1>1, <1>4 DEF Fail, Owned
  <2>2. ASSUME NEW tk \in BOOLEAN, mat[r].taken => tk, mat' = [mat EXCEPT ![r] = f(tk)]
        PROVE  OwnInv'
    BY <1>1, <1>2, <1>4, <1>6, <2>1, <2>2, OwnerGoes
  <2>3. CASE UNCHANGED mat
    BY <1>1, <1>2, <1>4, <2>1, <2>3, GoQuiet
  <2> QED
    BY <1>4, <1>7, <2>2, <2>3
<1>5. CASE Fail(j) /\ job[j].pc = "abandon"
  <2> DEFINE b == [job[j] EXCEPT !.pc = "discard"]
  <2>1. job' = [job EXCEPT ![j] = b] /\ job[j].row = r
    BY <1>1, <1>5 DEF Fail, Go, OwnInv, Shape
  <2>2. /\ b.pc = "discard" /\ b.row = r /\ b.target = r /\ b.batch = job[j].batch
        /\ b.home = job[j].home
    BY <1>1, <2>1 DEF JobType
  <2> HIDE DEF b
  <2>3. Shape(j, b) /\ \A s \in Rows : ~ Owned(b, s)
    BY <2>1, <2>2 DEF OwnInv, Shape, Owned
  <2>4. ASSUME NEW tk \in BOOLEAN, mat' = [mat EXCEPT ![r] = f(tk)],
               tk = (mat[r].taken \/ (job[j].pc = "abandon" /\ mat[r].lease = "live"))
        PROVE  OwnInv'
    <3>1. f(tk).taken \/ OnlyBy(j, r)
      BY <1>1, <1>5, <1>6, <2>4, Nobody
    <3> QED
      BY <1>1, <2>1, <2>3, <2>4, <3>1, WriteStep
  <2>5. CASE UNCHANGED mat
    BY <1>1, <2>1, <2>3, <2>5, QuietStep
  <2> QED
    BY <1>5, <1>7, <2>4, <2>5
<1> QED
  BY <1>3, <1>4, <1>5 DEF Fail

\* The bytes of a row are nobody's claim on it.
LEMMA DiscardOwn ==
    ASSUME MaterialConstants, IndInv, OwnInv, NEW j \in Jobs, Discard(j)
    PROVE  OwnInv'
<1> DEFINE r == job[j].target
<1>1. r \in Rows /\ mat \in [Rows -> RowType] /\ job \in [Jobs -> JobType] /\ job[j].pc = "discard"
  BY JobKnows DEF Discard, JobGood, Busy, IndInv, TypeOK
<1>2. \A s \in Rows : /\ mat'[s].st = mat[s].st /\ mat'[s].lease = mat[s].lease
                      /\ mat'[s].taken = mat[s].taken
  BY <1>1 DEF Discard, RowType
<1>3. \A s \in Rows : Held(mat'[s]) <=> Held(mat[s])
  BY <1>2 DEF Held
<1>4. ASSUME NEW b, job' = [job EXCEPT ![j] = b], Shape(j, b),
             \A s \in Rows : Owned(b, s) => Owned(job[j], s)
      PROVE  OwnInv'
  <2>1. \A s \in Rows : Owned(b, s) => Held(mat'[s]) /\ (mat'[s].taken \/ OnlyBy(j, s))
    BY <1>2, <1>3, <1>4 DEF OwnInv, OnlyBy
  <2>2. \A k \in Jobs \ {j}, s \in Rows : Owned(job[k], s) => Held(mat'[s])
    BY <1>3 DEF OwnInv
  <2> QED
    BY <1>1, <1>2, <1>4, <2>1, <2>2, OwnStep
<1>5. CASE Finish(j)
  BY <1>4, <1>5, FinishedOwns DEF Finish
<1>6. CASE AfterDiscard(j) # "free" /\ Go(j, AfterDiscard(j))
  <2> DEFINE b == [job[j] EXCEPT !.pc = "failReceipt"]
  <2>1. job' = [job EXCEPT ![j] = b] /\ b.pc = "failReceipt" /\ b.home = job[j].home
        /\ b.batch = job[j].batch /\ b.row = job[j].row /\ b.target = job[j].target
    BY <1>6, JobKnows DEF AfterDiscard, Go, JobType
  <2> HIDE DEF b
  <2>2. Shape(j, b) /\ \A s \in Rows : Owned(b, s) => Owned(job[j], s)
    BY <2>1 DEF OwnInv, Shape, Owned
  <2> QED
    BY <1>4, <2>1, <2>2
<1> QED
  BY <1>5, <1>6 DEF Discard

\* What the two writes of a receipt do: a FAILED row, whose bytes are discarded next.
LEMMA ReceiptWrites ==
    ASSUME IndInv, NEW j \in Jobs, MarkReceipt(j) \/ FailReceipt(j)
    PROVE  \/ UNCHANGED mat /\ Finish(j)
           \/ /\ \E m : /\ mat' = [mat EXCEPT ![job[j].row] = m]
                       /\ m.st = "FAILED" /\ m.tries = mat[job[j].row].tries
                       /\ m.taken = mat[job[j].row].taken
              /\ job' = [job EXCEPT ![j].pc = "discard", ![j].target = job[j].row]
<1> DEFINE r == job[j].row
           f == [mat[r] EXCEPT !.st = "FAILED"]
           g(res) == [f EXCEPT !.dup = job[j].target, !.lease = "none", !.res = res]
           h == [f EXCEPT !.dup = job[j].target, !.res = "RESTORED", !.reason = TRUE,
                          !.lease = "none"]
<1>1. r \in Rows /\ mat \in [Rows -> RowType] /\ mat[r] \in RowType
  BY JobKnows DEF MarkReceipt, FailReceipt, JobGood, Busy, IndInv, TypeOK
<1>2. /\ \A res : g(res).st = "FAILED" /\ g(res).tries = mat[r].tries
                   /\ g(res).taken = mat[r].taken
      /\ h.st = "FAILED" /\ h.tries = mat[r].tries /\ h.taken = mat[r].taken
  BY <1>1 DEF RowType
<1>3. CASE MarkReceipt(j)
  <2> DEFINE res == IF job[j].pc = "restored" THEN "RESTORED" ELSE "EXISTING"
  <2>1. mat' = [mat EXCEPT ![r] = g(res)]
    BY <1>1, <1>3, Zenon DEF MarkReceipt
  <2>2. job' = [job EXCEPT ![j].pc = "discard", ![j].target = r]
    BY <1>3 DEF MarkReceipt
  <2> HIDE DEF g, h, res
  <2> QED
    BY <1>2, <2>1, <2>2
<1>4. CASE FailReceipt(j)
  <2>1. \/ /\ mat' = [mat EXCEPT ![r] = h]
           /\ job' = [job EXCEPT ![j].pc = "discard", ![j].target = r]
        \/ UNCHANGED mat /\ Finish(j)
    BY <1>1, <1>4, Zenon DEF FailReceipt
  <2> HIDE DEF g, h
  <2> QED
    BY <1>2, <2>1
<1> QED
  BY <1>3, <1>4

\* A receipt is written on the job's own row, which it then has no more.
LEMMA ReceiptOwn ==
    ASSUME MaterialConstants, IndInv, OwnInv, NEW j \in Jobs, MarkReceipt(j) \/ FailReceipt(j)
    PROVE  OwnInv'
<1> DEFINE r == job[j].row
           b == [job[j] EXCEPT !.pc = "discard", !.target = r]
<1>1. r \in Rows /\ mat \in [Rows -> RowType] /\ job[j] \in JobType /\ Owned(job[j], r)
  BY JobKnows DEF MarkReceipt, FailReceipt, JobGood, Busy, IndInv, TypeOK, Owned
<1>2. /\ b.pc = "discard" /\ b.row = r /\ b.target = r /\ b.home = job[j].home
      /\ b.batch = job[j].batch
  BY <1>1 DEF JobType
<1>3. CASE UNCHANGED mat /\ Finish(j)
  BY <1>3, FinishQuiet
<1>4. ASSUME NEW m, mat' = [mat EXCEPT ![r] = m], job' = [job EXCEPT ![j] = b],
             m.taken = mat[r].taken
      PROVE  OwnInv'
  <2> HIDE DEF b
  <2>1. Shape(j, b) /\ \A s \in Rows : ~ Owned(b, s)
    BY <1>2 DEF OwnInv, Shape, Owned
  <2> QED
    BY <1>1, <1>4, <2>1, OwnerWrites
<1>5. job' = [job EXCEPT ![j].pc = "discard", ![j].target = r] => job' = [job EXCEPT ![j] = b]
  BY <1>1 DEF IndInv, TypeOK, JobType
<1> HIDE DEF b
<1>6. \/ UNCHANGED mat /\ Finish(j)
      \/ /\ \E m : mat' = [mat EXCEPT ![r] = m] /\ m.taken = mat[r].taken
         /\ job' = [job EXCEPT ![j].pc = "discard", ![j].target = r]
  BY ReceiptWrites
<1> QED
  BY <1>3, <1>4, <1>5, <1>6

-----------------------------------------------------------------------------
(* The sweeper, time and requests that only read.                          *)

\* The scans take nothing.
LEMMA ScanOwn ==
    ASSUME MaterialConstants, IndInv, OwnInv, NEW s \in Sweepers,
           SweepScans(s) \/ ReembedScans(s) \/ SweepEnds(s)
    PROVE  OwnInv'
<1>1. /\ s \in Jobs /\ s \notin Requests /\ job \in [Jobs -> JobType] /\ None \notin Rows
      /\ mat' = mat
  BY MaterialConstants
  DEF Jobs, MaterialConstants, IndInv, TypeOK, SweepScans, ReembedScans, SweepEnds
<1> DEFINE a == [NoJob EXCEPT !.pc = "sweep", !.home = "sweep", !.batch = StrandedUploads,
                              !.doomed = Doomed]
           b == [NoJob EXCEPT !.pc = "resweep", !.home = "resweep", !.batch = StrandedReembeds]
<1>2. job' \in {[job EXCEPT ![s] = a], [job EXCEPT ![s] = b], [job EXCEPT ![s] = NoJob]}
  BY DEF SweepScans, ReembedScans, SweepEnds
<1>3. /\ a.pc = "sweep" /\ a.row = None /\ a.target = None
      /\ b.pc = "resweep" /\ b.row = None /\ b.target = None
      /\ NoJob.pc = "free" /\ NoJob.row = None /\ NoJob.target = None
  BY DEF NoJob
<1> HIDE DEF a, b, NoJob
<1>4. ASSUME NEW c \in {a, b, NoJob} PROVE Shape(s, c) /\ \A r \in Rows : ~ Owned(c, r)
  BY <1>1, <1>3 DEF Shape, Owned
<1> QED
  BY <1>1, <1>2, <1>4, QuietStep

\* The sweep turns to a row of its batch, or takes one whose re-embedding is stranded.
LEMMA TakeOwn ==
    ASSUME MaterialConstants, IndInv, OwnInv, NEW s \in Sweepers, NEW r \in Rows,
           SweepTakes(s, r) \/ ReembedTakes(s, r)
    PROVE  OwnInv'
<1>1. /\ s \in Jobs /\ s \notin Requests /\ job \in [Jobs -> JobType]
      /\ None \notin Rows /\ r \in job[s].batch
  BY MaterialConstants DEF Jobs, MaterialConstants, IndInv, TypeOK, SweepTakes, ReembedTakes
<1>2. CASE SweepTakes(s, r)
  <2>1. mat' = mat
    BY <1>2 DEF SweepTakes
  <2> DEFINE rest == [NoJob EXCEPT !.pc = "sweep", !.home = "sweep", !.batch = job[s].batch \ {r},
                                   !.doomed = job[s].doomed \ {r}]
             work == [rest EXCEPT !.row = r, !.target = r]
             left == [work EXCEPT !.pc = "abandon"]
             again == [work EXCEPT !.pc = "claim", !.file = mat[r].blob]
  <2>2. \/ job' = [job EXCEPT ![s] = rest] \/ job' = [job EXCEPT ![s] = left]
        \/ job' = [job EXCEPT ![s] = again]
    BY <1>2 DEF SweepTakes
  <2>3. /\ rest.pc = "sweep" /\ rest.row = None /\ rest.target = None
        /\ left.pc = "abandon" /\ left.row = r /\ left.target = r
        /\ again.pc = "claim" /\ again.row = r /\ again.target = r
        /\ \A b \in {rest, left, again} : b.home = "sweep" /\ b.batch = job[s].batch \ {r}
    BY DEF NoJob
  <2> HIDE DEF rest, left, again
  <2>4. ASSUME NEW b \in {rest, left, again}
        PROVE  Shape(s, b) /\ \A q \in Rows : ~ Owned(b, q)
    BY <1>1, <2>1, <2>3, <2>4 DEF Shape, Owned
  <2> QED
    BY <1>1, <2>1, <2>2, <2>4, QuietStep
<1>3. CASE ReembedTakes(s, r)
  <2>1. job[s].home = "resweep" /\ mat[r].sum \in Texts /\ mat[r] \in RowType
    BY <1>1, <1>3, JobKnows, RowKnows DEF ReembedTakes, JobGood, Idle
  <2> DEFINE rest == [NoJob EXCEPT !.pc = "resweep", !.home = "resweep",
                                   !.batch = job[s].batch \ {r}]
             b == [rest EXCEPT !.pc = "embed", !.row = r, !.target = r, !.text = mat[r].text]
             m == [mat[r] EXCEPT !.lease = "live"]
  <2>2. CASE mat' = mat /\ job' = [job EXCEPT ![s] = rest]
    <3>1. rest.pc = "resweep" /\ rest.row = None /\ rest.target = None /\ rest.home = "resweep"
      BY DEF NoJob
    <3> HIDE DEF rest
    <3>2. Shape(s, rest) /\ \A q \in Rows : ~ Owned(rest, q)
      BY <1>1, <3>1 DEF Shape, Owned
    <3> QED
      BY <1>1, <2>2, <3>2, QuietStep
  <2>3. CASE /\ Processing(r) /\ Lapsed(r) /\ mat' = [mat EXCEPT ![r].lease = "live"]
             /\ job' = [job EXCEPT ![s] = b]
    <3>1. mat' = [mat EXCEPT ![r] = m] /\ Held(m) /\ m.taken = mat[r].taken
      BY <2>1, <2>3 DEF RowType, Held, Processing
    <3>2. /\ b.pc = "embed" /\ b.row = r /\ b.target = r /\ b.home = job[s].home
          /\ b.batch \subseteq job[s].batch /\ r \notin b.batch
      BY <2>1 DEF NoJob
    <3> HIDE DEF b, m
    <3>3. m.taken \/ OnlyBy(s, r)
      BY <2>3, <3>1, Nobody DEF Lapsed
    <3>4. \A q \in Rows \ {r} : ~ Owned(b, q)
      BY <3>2 DEF Owned
    <3> QED
      BY <1>1, <2>3, <3>1, <3>2, <3>3, <3>4, TakeStep
  <2> QED
    BY <1>3, <2>2, <2>3 DEF ReembedTakes
<1> QED
  BY <1>2, <1>3

\* Leases lapse only where nobody works, and neither a deletion nor a renewal takes anything
\* from anybody.
LEMMA RowOwn ==
    ASSUME MaterialConstants, Slow = {}, IndInv, OwnInv, NEW r \in Rows,
           Delete(r) \/ LeaseLapses(r) \/ GoesUnclaimed(r)
           \/ \E j \in Jobs : Renew(j) /\ r = job[j].target
    PROVE  OwnInv'
<1>1. mat \in [Rows -> RowType] /\ mat[r] \in RowType /\ job' = job
  BY DEF IndInv, TypeOK, Delete, LeaseLapses, GoesUnclaimed, Renew
<1>2. CASE Delete(r)
  <2> DEFINE m == [mat[r] EXCEPT !.del = TRUE]
  <2>1. /\ mat' = [mat EXCEPT ![r] = m] /\ m.st = mat[r].st /\ m.lease = mat[r].lease
        /\ m.taken = mat[r].taken
    BY <1>1, <1>2 DEF Delete, RowType
  <2> HIDE DEF m
  <2>2. Held(m) <=> Held(mat[r])
    BY <2>1 DEF Held
  <2> QED
    BY <1>1, <2>1, <2>2, RowWrite DEF OwnInv
<1>3. ASSUME NEW l, mat' = [mat EXCEPT ![r].lease = l],
             \A k \in Jobs : Owned(job[k], r) => mat[r].taken \/ (Processing(r) /\ l = "live")
      PROVE  OwnInv'
  <2> DEFINE m == [mat[r] EXCEPT !.lease = l]
  <2>1. /\ mat' = [mat EXCEPT ![r] = m] /\ m.st = mat[r].st /\ m.lease = l
        /\ m.taken = mat[r].taken
    BY <1>1, <1>3 DEF RowType
  <2> HIDE DEF m
  <2>2. \A k \in Jobs : Owned(job[k], r) => Held(m)
    BY <1>3, <2>1 DEF Held, Processing
  <2> QED
    BY <1>1, <2>1, <2>2, RowWrite
<1>4. CASE LeaseLapses(r)
  <2>1. \A k \in Jobs : ~ Owned(job[k], r)
    BY <1>4 DEF LeaseLapses, Covered, Owned, Extracts, Embeds, Awaits, Restoring
  <2> QED
    BY <1>3, <1>4, <2>1 DEF LeaseLapses
<1>5. CASE GoesUnclaimed(r)
  <2>1. \A k \in Jobs : Owned(job[k], r) => mat[r].taken
    BY <1>5 DEF GoesUnclaimed, OwnInv, Held
  <2> QED
    BY <1>3, <1>5, <2>1 DEF GoesUnclaimed
<1>6. ASSUME NEW j \in Jobs, Renew(j), r = job[j].target PROVE OwnInv'
  BY <1>3, <1>6 DEF Renew
<1> QED
  BY <1>2, <1>4, <1>5, <1>6

\* A reprocess, and an upload that meets its checksum, read their row.
LEMMA ReadOwn ==
    ASSUME MaterialConstants, IndInv, OwnInv, NEW j \in Requests, NEW r \in Rows,
           (\E f \in Files : UploadConflicts(j, f, r)) \/ ReprocessReads(j, r)
    PROVE  OwnInv'
<1>1. mat' = mat /\ j \in Jobs /\ job \in [Jobs -> JobType]
  BY DEF UploadConflicts, ReprocessReads, Jobs, IndInv, TypeOK
<1>2. ASSUME NEW b, job' = [job EXCEPT ![j] = b], b.pc \in {"reprocess", "reclaim"},
             b.row = r, b.target = r, b.home = "free", b.batch = {},
             b.pc = "reclaim" => MayReupload
      PROVE  OwnInv'
  <2>1. Shape(j, b) /\ \A s \in Rows : ~ Owned(b, s)
    BY <1>2 DEF Shape, Owned
  <2> QED
    BY <1>1, <1>2, <2>1, QuietStep
<1>3. CASE ReprocessReads(j, r)
  <2> DEFINE b == [NoJob EXCEPT !.pc = "reprocess", !.row = r, !.target = r, !.text = mat[r].text]
  <2>1. /\ b.pc = "reprocess" /\ b.row = r /\ b.target = r /\ b.home = "free" /\ b.batch = {}
        /\ job' = [job EXCEPT ![j] = b]
    BY <1>3 DEF NoJob, ReprocessReads
  <2> HIDE DEF b
  <2> QED
    BY <1>2, <2>1
<1>4. ASSUME NEW f \in Files, UploadConflicts(j, f, r) PROVE OwnInv'
  <2> DEFINE b == [NoJob EXCEPT !.pc = "reclaim", !.row = r, !.target = r, !.file = f]
  <2>1. /\ b.pc = "reclaim" /\ b.row = r /\ b.target = r /\ b.home = "free" /\ b.batch = {}
        /\ job' = [job EXCEPT ![j] = b] /\ MayReupload
    BY <1>4 DEF NoJob, UploadConflicts
  <2> HIDE DEF b
  <2> QED
    BY <1>2, <2>1
<1> QED
  BY <1>3, <1>4

\* An upload reclaims its row when it is settled or its lease is past, so from no worker.
LEMMA ReclaimOwn ==
    ASSUME MaterialConstants, IndInv, OwnInv, NEW j \in Jobs, Reclaim(j)
    PROVE  OwnInv'
<1> DEFINE r == job[j].row
           b == [job[j] EXCEPT !.pc = "claim"]
<1>1. /\ r \in Rows /\ mat \in [Rows -> RowType] /\ job[j].target = r /\ job[j] \in JobType
      /\ job \in [Jobs -> JobType] /\ mat[r] \in RowType
  BY JobKnows DEF Reclaim, JobGood, Busy, IndInv, TypeOK, OwnInv, Shape
<1>2. CASE ~ Reclaimable(r, job[j].file)
  BY <1>2, FinishQuiet DEF Reclaim
<1>3. CASE Reclaimable(r, job[j].file)
  <2> DEFINE m == [mat[r] EXCEPT
                !.st = "PROCESSING", !.text = None, !.lease = "none", !.tries = 0,
                !.del = FALSE, !.dup = None, !.res = "none", !.reason = FALSE,
                !.blob = job[j].file]
  <2>1. mat' = [mat EXCEPT ![r] = m] /\ job' = [job EXCEPT ![j] = b]
    BY <1>3 DEF Reclaim, Go
  <2>6. m.taken = mat[r].taken
    BY <1>1 DEF RowType
  <2>2. b.pc = "claim" /\ b.row = r /\ b.target = r /\ b.home = job[j].home
        /\ b.batch = job[j].batch
    BY <1>1 DEF JobType
  <2>3. b.batch = {}
    BY <2>2 DEF Reclaim, OwnInv, Shape
  <2> HIDE DEF b, m
  <2>4. Shape(j, b) /\ \A s \in Rows : ~ Owned(b, s)
    BY <1>1, <2>2, <2>3 DEF OwnInv, Shape, Owned
  <2>5. m.taken \/ OnlyBy(j, r)
    BY <1>1, <1>3, <2>6, Nobody DEF Reclaimable, Lapsed
  <2> QED
    BY <1>1, <2>1, <2>4, <2>5, WriteStep
<1> QED
  BY <1>2, <1>3

-----------------------------------------------------------------------------
(* One worker per row.                                                     *)

\* There are no jobs and no rows at the start.
LEMMA InitOwn == Init => OwnInv /\ DropInv
<1> SUFFICES ASSUME Init PROVE OwnInv /\ DropInv
  OBVIOUS
<1>1. /\ \A j \in Jobs : job[j] = NoJob
      /\ \A r \in Rows : mat[r] = NoRow
      /\ NoJob.pc = "free" /\ NoJob.row = None /\ NoJob.target = None /\ NoJob.home = "free"
      /\ NoJob.batch = {} /\ NoRow.st = "none" /\ None \notin Rows
  BY MaterialConstants DEF Init, NoJob, NoRow, MaterialConstants
<1> HIDE DEF NoJob, NoRow
<1>2. \A j \in Jobs : /\ Shape(j, job[j])
                      /\ \A r \in Rows : ~ Owned(job[j], r)
  BY <1>1 DEF Shape, Owned
<1>3. DropInv
  BY <1>1 DEF DropInv, Raw
<1> QED
  BY <1>2, <1>3 DEF OwnInv

\* While leases lapse only for dead workers, a step keeps the ownership of rows.
LEMMA NextOwn ==
    ASSUME MaterialConstants, Slow = {}, IndInv, OwnInv, [Next]_vars
    PROVE  OwnInv'
<1>1. CASE UNCHANGED vars
  BY <1>1 DEF vars, OwnInv
<1>2. ASSUME NEW j \in Requests, Request(j) PROVE OwnInv'
  BY <1>2, UploadOwn, ReadOwn DEF Request
<1>3. ASSUME NEW s \in Sweepers, Sweep(s) PROVE OwnInv'
  BY <1>3, ScanOwn, TakeOwn DEF Sweep, SweepGoesOn
<1>4. ASSUME NEW j \in Jobs, Work(j) PROVE OwnInv'
  BY <1>4, ReclaimOwn, ClaimsOwn, RunOwn, QuietOwn, RestoreOwn, SettleOwn, DiscardOwn, ReceiptOwn
  DEF Work
<1>5. ASSUME NEW j \in Jobs, Die(j) PROVE OwnInv'
  BY <1>5, DieOwn
<1>6. ASSUME NEW j \in Jobs, Renew(j) PROVE OwnInv'
  <2>1. job[j].target \in Rows
    BY <1>6, JobRows DEF Renew, Busy
  <2> QED
    BY <1>6, <2>1, RowOwn
<1>7. ASSUME NEW r \in Rows, Delete(r) \/ LeaseLapses(r) \/ GoesUnclaimed(r) PROVE OwnInv'
  BY <1>7, RowOwn
<1> QED
  BY <1>1, <1>2, <1>3, <1>4, <1>5, <1>6, <1>7 DEF Next

\* While leases lapse only for dead workers, two jobs work on one row only if a sweep has
\* failed that row under a live lease, on what an old scan read.  Any number of sweeps is under
\* way, any bytes are uploaded again, anything crashes and any statement fails.
THEOREM OwnershipTheorem ==
    ASSUME Slow = {}
    PROVE  Spec => []OneWorkerPerRow
<1>1. Init => IndInv /\ OwnInv
  BY InitInd, InitOwn, MaterialConstants
<1>2. IndInv /\ OwnInv /\ [Next]_vars => (IndInv /\ OwnInv)'
  BY NextInd, NextOwn, MaterialConstants
<1>3. OwnInv => OneWorkerPerRow
  BY DEF OwnInv, OneWorkerPerRow, Holds, Extracts, Embeds, Owned
<1> QED
  BY <1>1, <1>2, <1>3, PTL DEF Spec

-----------------------------------------------------------------------------
(* The bytes of an upload whose text is not known.                         *)

\* A run that embeds works on a row whose text is known: it is not Raw.
LEMMA TargetHasText ==
    ASSUME IndInv, NEW j \in Jobs, job[j].pc \in {"reprocess", "restore", "retry"}
    PROVE  /\ job[j].target \in Rows /\ mat[job[j].target] \in RowType
           /\ mat[job[j].target].sum \in Texts
           /\ job[j].pc = "reprocess" => job[j].target = job[j].row
<1>1. JobGood(mat, job[j]) /\ job[j].pc \in Busy /\ mat \in [Rows -> RowType]
  BY JobKnows DEF Busy, IndInv, TypeOK
<1> QED
  BY <1>1 DEF JobGood

\* A write by job j that makes no row Raw and takes the bytes of none.
LEMMA DropWrite ==
    ASSUME DropInv, job \in [Jobs -> JobType], mat \in [Rows -> RowType], IndInv,
           NEW j \in Jobs, NEW b, job' = [job EXCEPT ![j] = b],
           NEW r \in Rows, NEW m, mat' = [mat EXCEPT ![r] = m],
           Raw(m) => Raw(mat[r]) /\ m.blob # None,
           b.pc = "discard" => b.target = r /\ ~ Raw(m)
    PROVE  DropInv'
<1>1. \A s \in Rows : Raw(mat'[s]) => Raw(mat[s]) /\ mat'[s].blob # None
  BY DEF DropInv, Raw
<1>2. ASSUME NEW k \in Jobs, job'[k].pc = "discard"
      PROVE  job'[k].target \in Rows /\ ~ Raw(mat'[job'[k].target])
  <2>1. k # j => job'[k] = job[k] /\ job[k].target \in Rows /\ ~ Raw(mat[job[k].target])
    BY <1>2, JobRows DEF DropInv, Raw, Busy
  <2> QED
    BY <1>1, <1>2, <2>1
<1> QED
  BY <1>1, <1>2 DEF DropInv, Raw

\* A step of job j that writes nothing and is not the discard of a row it has not settled.
LEMMA DropQuiet ==
    ASSUME DropInv, job \in [Jobs -> JobType], mat' = mat,
           NEW j \in Jobs, NEW b, job' = [job EXCEPT ![j] = b], b.pc # "discard"
    PROVE  DropInv'
BY DEF DropInv, Raw

\* The record Finish gives a job, and that of a job that goes on, are no discards.
LEMMA Onward ==
    ASSUME IndInv, NEW j \in Jobs
    PROVE  /\ Finish(j) => \E b : job' = [job EXCEPT ![j] = b] /\ b.pc # "discard"
           /\ \A p : Go(j, p) /\ p # "discard" =>
                  \E b : job' = [job EXCEPT ![j] = b] /\ b.pc # "discard"
<1>1. Finished(j).pc # "discard"
  BY FinishedGood DEF JobGood, JobType, Idle, Busy, Finished, NoJob, IndInv, TypeOK
<1>2. \A p : [job[j] EXCEPT !.pc = p].pc = p
  BY JobKnows DEF JobType
<1> QED
  BY <1>1, <1>2 DEF Finish, Go

\* Claims and the steps of a run, up to its last write.
LEMMA RunDrop ==
    ASSUME MaterialConstants, IndInv, OwnInv, DropInv, NEW j \in Jobs,
           \/ ReprocessClaims(j) \/ Claim(j) \/ ExtractBusy(j) \/ Promote(j) \/ Embed(j)
           \/ RestoreClaims(j) \/ RetryClaims(j)
    PROVE  DropInv'
<1>1. job \in [Jobs -> JobType] /\ mat \in [Rows -> RowType] /\ Files \cap Texts = {}
  BY DEF IndInv, TypeOK, MaterialConstants
<1>2. ASSUME NEW r \in Rows, NEW m, mat' = [mat EXCEPT ![r] = m],
             Raw(m) => Raw(mat[r]) /\ m.blob # None,
             Finish(j) \/ \E p : Go(j, p) /\ p # "discard"
      PROVE  DropInv'
  BY <1>1, <1>2, Onward, DropWrite
<1>3. ASSUME UNCHANGED mat, Finish(j) \/ \E p : Go(j, p) /\ p # "discard" PROVE DropInv'
  BY <1>1, <1>3, Onward, DropQuiet
<1>4. \A r \in Rows : Raw(mat[r]) => mat[r].blob # None
  BY DEF DropInv, Raw
<1>5. CASE ReprocessClaims(j)
  <2> DEFINE r == job[j].row
             m == [mat[r] EXCEPT !.st = "PROCESSING", !.reason = FALSE, !.lease = "live"]
  <2>5. r \in Rows /\ mat[r] \in RowType /\ mat[r].sum \in Texts
    BY <1>5, TargetHasText DEF ReprocessClaims
  <2>1. r \in Rows /\ mat[r].sum \in Texts /\ m.sum = mat[r].sum
    BY <2>5 DEF RowType
  <2>2. ~ Raw(m)
    BY <1>1, <2>1 DEF Raw
  <2>3. mat' = [mat EXCEPT ![r] = m] \/ UNCHANGED mat
    BY <1>1, <1>5, <2>1 DEF ReprocessClaims
  <2>4. Finish(j) \/ Go(j, "embed")
    BY <1>5 DEF ReprocessClaims
  <2> HIDE DEF m
  <2> QED
    BY <1>2, <1>3, <2>1, <2>2, <2>3, <2>4
<1>6. CASE Claim(j)
  <2> DEFINE r == job[j].row
             m == [mat[r] EXCEPT !.lease = "live", !.tries = @ + 1]
  <2>1. /\ r \in Rows /\ m.sum = mat[r].sum /\ m.st = mat[r].st /\ m.blob = mat[r].blob
        /\ m.taken = mat[r].taken
    BY <1>1, <1>6, JobKnows DEF Claim, JobGood, Busy, RowType
  <2>2. Raw(m) => Raw(mat[r]) /\ m.blob # None
    BY <1>4, <2>1 DEF Raw
  <2>3. mat' = [mat EXCEPT ![r] = m] \/ UNCHANGED mat
    BY <1>1, <1>6, <2>1 DEF Claim
  <2>4. Finish(j) \/ Go(j, "extract")
    BY <1>6 DEF Claim
  <2> HIDE DEF m
  <2> QED
    BY <1>2, <1>3, <2>1, <2>2, <2>3, <2>4
<1>7. CASE ExtractBusy(j)
  <2> DEFINE r == job[j].row
             m == Released(r)
  <2>1. /\ r \in Rows /\ m.sum = mat[r].sum /\ m.blob = mat[r].blob
        /\ m.taken = mat[r].taken
    BY <1>1, <1>7, JobKnows DEF ExtractBusy, JobGood, Busy, RowType, Released
  <2>2. mat[r].taken \/ mat[r].st = "PROCESSING"
    BY <1>7, <2>1 DEF ExtractBusy, OwnInv, Owned, Held
  <2>3. Raw(m) => Raw(mat[r]) /\ m.blob # None
    BY <1>4, <2>1, <2>2 DEF Raw
  <2> HIDE DEF m
  <2> QED
    BY <1>2, <1>7, <2>1, <2>3 DEF ExtractBusy, m
<1>8. CASE Promote(j)
  <2> DEFINE r == job[j].row
             m == [mat[r] EXCEPT !.sum = job[j].text, !.text = job[j].text, !.reason = FALSE]
  <2>1. r \in Rows /\ job[j].text \in Texts /\ m.sum = job[j].text
    BY <1>1, <1>8, JobKnows DEF Promote, JobGood, Busy, RowType
  <2>2. ~ Raw(m)
    BY <1>1, <2>1 DEF Raw
  <2>3. mat' = [mat EXCEPT ![r] = m] \/ UNCHANGED mat
    BY <1>1, <1>8, <2>1 DEF Promote
  <2>4. Finish(j) \/ Go(j, "embed")
    BY <1>8 DEF Promote
  <2> HIDE DEF m
  <2> QED
    BY <1>2, <1>3, <2>1, <2>2, <2>3, <2>4
<1>9. CASE Embed(j)
  <2> DEFINE r == job[j].target
             m == [mat[r] EXCEPT !.chunks = job[j].text]
  <2>1. /\ r \in Rows /\ m.sum = mat[r].sum /\ m.st = mat[r].st /\ m.blob = mat[r].blob
        /\ m.taken = mat[r].taken
    BY <1>1, <1>9, JobKnows DEF Embed, JobGood, Busy, RowType
  <2>2. (Raw(m) => Raw(mat[r]) /\ m.blob # None)
    BY <1>4, <2>1 DEF Raw
  <2>3. mat' = [mat EXCEPT ![r] = m] \/ UNCHANGED mat
    BY <1>1, <1>9, <2>1 DEF Embed
  <2>4. Finish(j) \/ Go(j, "ready")
    BY <1>9 DEF Embed
  <2> HIDE DEF m
  <2> QED
    BY <1>2, <1>3, <2>1, <2>2, <2>3, <2>4
<1>10. CASE RestoreClaims(j) \/ RetryClaims(j)
  <2> DEFINE d == job[j].target
             m == Restored(j, d)
             n == [Restored(j, d) EXCEPT !.del = FALSE]
  <2>5. d \in Rows /\ mat[d] \in RowType /\ mat[d].sum \in Texts
    BY <1>10, TargetHasText DEF RestoreClaims, RetryClaims
  <2>1. d \in Rows /\ mat[d].sum \in Texts /\ m.sum = mat[d].sum /\ n.sum = mat[d].sum
    BY <2>5 DEF RowType, Restored
  <2>2. ~ Raw(m) /\ ~ Raw(n)
    BY <1>1, <2>1 DEF Raw
  <2>3. mat' = [mat EXCEPT ![d] = m] \/ mat' = [mat EXCEPT ![d] = n] \/ UNCHANGED mat
    BY <1>10 DEF RestoreClaims, RetryClaims
  <2>4. Finish(j) \/ Go(j, "embed") \/ Go(j, "retry")
    BY <1>10 DEF RestoreClaims, RetryClaims
  <2> HIDE DEF m, n
  <2> QED
    BY <1>2, <1>3, <2>1, <2>2, <2>3, <2>4
<1> QED
  BY <1>5, <1>6, <1>7, <1>8, <1>9, <1>10

\* The bytes go after READY, FAILED or a receipt has been written, where every write succeeds.
LEMMA SettleDrop ==
    ASSUME MaterialConstants, IndInv, OwnInv, DropInv, MaxDbErrors = 0, NEW j \in Jobs,
           Ready(j) \/ Fail(j) \/ Discard(j) \/ MarkReceipt(j) \/ FailReceipt(j)
    PROVE  DropInv'
<1>1. /\ job \in [Jobs -> JobType] /\ mat \in [Rows -> RowType] /\ job[j] \in JobType
      /\ ~ Spend("errors", MaxDbErrors)
  BY DEF IndInv, TypeOK, Spend
<1>2. \A r \in Rows : Raw(mat[r]) => mat[r].blob # None
  BY DEF DropInv, Raw
<1>3. /\ job[j].row \in Rows /\ job[j].target \in Rows
  BY JobRows DEF Ready, Fail, Discard, MarkReceipt, FailReceipt, Busy
<1>4. ASSUME NEW r \in Rows, NEW m, mat' = [mat EXCEPT ![r] = m], ~ Raw(m),
             \/ Finish(j) \/ \E p : Go(j, p) /\ p # "discard"
             \/ r = job[j].target /\ Go(j, "discard")
             \/ job' = [job EXCEPT ![j] = [job[j] EXCEPT !.pc = "discard", !.target = r]]
      PROVE  DropInv'
  <2>1. [job[j] EXCEPT !.pc = "discard"].target = job[j].target
        /\ [job[j] EXCEPT !.pc = "discard", !.target = r].target = r
    BY <1>1 DEF JobType
  <2>2. \E b : job' = [job EXCEPT ![j] = b] /\ (b.pc = "discard" => b.target = r)
    BY <1>4, <2>1, Onward DEF Go
  <2> QED
    BY <1>1, <1>4, <2>2, DropWrite
<1>5. CASE Ready(j)
  <2> DEFINE m == [mat[job[j].target] EXCEPT !.st = "READY", !.reason = FALSE, !.lease = "none"]
  <2>1. ~ Raw(m)
    BY <1>1, <1>3 DEF Raw, RowType
  <2>2. mat' = [mat EXCEPT ![job[j].target] = m]
    BY <1>1, <1>3, <1>5 DEF Ready
  <2>3. Go(j, "restored") \/ Go(j, "discard") \/ Finish(j)
    BY <1>5 DEF Ready
  <2> HIDE DEF m
  <2> QED
    BY <1>3, <1>4, <2>1, <2>2, <2>3
<1>6. CASE Fail(j)
  <2> DEFINE m(tk) == [mat[job[j].target] EXCEPT !.st = "FAILED", !.reason = TRUE,
                                                 !.lease = "none", !.taken = tk]
  <2>1. \A tk \in BOOLEAN : ~ Raw(m(tk))
    BY <1>1, <1>3 DEF Raw, RowType
  <2>2. \E tk \in BOOLEAN : mat' = [mat EXCEPT ![job[j].target] = m(tk)]
    BY <1>1, <1>3, <1>6, FailWrites
  <2> HIDE DEF m
  <2> QED
    BY <1>3, <1>4, <1>6, <2>1, <2>2 DEF Fail
<1>7. CASE Discard(j)
  <2> DEFINE m == [mat[job[j].target] EXCEPT !.blob = None]
  <2>1. ~ Raw(mat[job[j].target])
    BY <1>7 DEF Discard, DropInv
  <2>2. ~ Raw(m)
    BY <1>1, <1>3, <2>1 DEF Raw, RowType
  <2>3. mat' = [mat EXCEPT ![job[j].target] = m]
    BY <1>1, <1>3, <1>7 DEF Discard
  <2>4. Finish(j) \/ Go(j, "failReceipt")
    BY <1>7 DEF Discard, AfterDiscard
  <2> HIDE DEF m
  <2> QED
    BY <1>3, <1>4, <2>2, <2>3, <2>4
<1>8. CASE MarkReceipt(j) \/ FailReceipt(j)
  <2>1. CASE UNCHANGED mat /\ Finish(j)
    BY <1>1, <2>1, Onward, DropQuiet
  <2>2. ASSUME NEW m, m.st = "FAILED", mat' = [mat EXCEPT ![job[j].row] = m],
               job' = [job EXCEPT ![j].pc = "discard", ![j].target = job[j].row]
        PROVE  DropInv'
    <3>1. job' = [job EXCEPT ![j] = [job[j] EXCEPT !.pc = "discard", !.target = job[j].row]]
      BY <1>1, <2>2, Zenon
    <3>2. ~ Raw(m)
      BY <2>2 DEF Raw
    <3> QED
      BY <1>3, <1>4, <2>2, <3>1, <3>2
  <2> QED
    BY <1>8, <2>1, <2>2, ReceiptWrites
<1> QED
  BY <1>5, <1>6, <1>7, <1>8

\* A new upload has its bytes, and no job is discarding those of a row that is not stored.
LEMMA UploadDrop ==
    ASSUME MaterialConstants, IndInv, DropInv, NEW j \in Jobs, NEW r \in Rows, NEW f \in Files,
           UploadCreates(j, f, r)
    PROVE  DropInv'
<1> DEFINE m == [NoRow EXCEPT !.st = "PROCESSING", !.sum = f, !.blob = f]
           b == [NoJob EXCEPT !.pc = "claim", !.row = r, !.target = r, !.file = f]
<1>1. /\ mat' = [mat EXCEPT ![r] = m] /\ job' = [job EXCEPT ![j] = b] /\ mat[r].sum = None
      /\ job \in [Jobs -> JobType] /\ mat \in [Rows -> RowType] /\ f # None
  BY RowKnows, MaterialConstants
  DEF UploadCreates, Stored, RowGood, IndInv, TypeOK, MaterialConstants
<1>2. m.blob = f /\ b.pc = "claim"
  BY DEF NoRow, NoJob
<1> HIDE DEF m, b
<1>3. \A s \in Rows : Raw(mat'[s]) => mat'[s].blob # None
  BY <1>1, <1>2 DEF DropInv, Raw
<1>4. ASSUME NEW k \in Jobs, job'[k].pc = "discard" PROVE ~ Raw(mat'[job'[k].target])
  <2>1. job'[k] = job[k] /\ job[k].target \in Rows /\ job[k].target # r
    BY <1>1, <1>2, <1>4, JobRows DEF Busy
  <2> QED
    BY <1>1, <1>4, <2>1 DEF DropInv, Raw
<1> QED
  BY <1>3, <1>4 DEF DropInv, Raw

\* What no other lemma of this section names: steps that write no row, or of a row its lease
\* or its deletion mark.
LEMMA RestDrop ==
    ASSUME MaterialConstants, ~ MayReupload, IndInv, OwnInv, DropInv,
           \/ \E j \in Jobs : \/ ExtractFails(j) \/ EmbedFails(j) \/ ExtractBusyUnwritten(j)
                              \/ ExtractAndLookup(j) \/ PromoteLoses(j) \/ DbError(j) \/ Die(j)
           \/ \E j \in Requests, r \in Rows :
                 ReprocessReads(j, r) \/ \E f \in Files : UploadConflicts(j, f, r)
           \/ \E s \in Sweepers : \/ SweepScans(s) \/ ReembedScans(s) \/ SweepEnds(s)
                                  \/ \E r \in Rows : SweepTakes(s, r)
    PROVE  DropInv'
<1>1. job \in [Jobs -> JobType] /\ Requests \subseteq Jobs /\ Sweepers \subseteq Jobs
  BY DEF IndInv, TypeOK, Jobs
<1>2. ASSUME NEW j \in Jobs,
             \/ ExtractFails(j) \/ EmbedFails(j) \/ ExtractBusyUnwritten(j)
             \/ ExtractAndLookup(j) \/ PromoteLoses(j) \/ DbError(j) \/ Die(j)
      PROVE  DropInv'
  <2>1. mat' = mat
    BY <1>2 DEF ExtractFails, EmbedFails, ExtractBusyUnwritten, ExtractAndLookup, PromoteLoses,
                DbError, Die
  <2>2. CASE ExtractFails(j) \/ EmbedFails(j) \/ ExtractBusyUnwritten(j)
    BY <1>1, <2>1, <2>2, Onward, DropQuiet DEF ExtractFails, EmbedFails, ExtractBusyUnwritten
  <2>3. CASE ExtractAndLookup(j)
    <3>1. CASE Finish(j)
      BY <1>1, <2>1, <3>1, Onward, DropQuiet
    <3>2. ASSUME NEW pc \in {"promote", "restore", "receipt"}, NEW d, NEW t,
                 job' = [job EXCEPT ![j].text = t, ![j].pc = pc, ![j].target = d]
          PROVE  DropInv'
      <4> DEFINE b == [job[j] EXCEPT !.text = t, !.pc = pc, !.target = d]
      <4>1. job' = [job EXCEPT ![j] = b] /\ b.pc = pc
        BY <1>1, <3>2 DEF JobType
      <4> HIDE DEF b
      <4> QED
        BY <1>1, <2>1, <4>1, DropQuiet
    <3> QED
      BY <2>3, <3>1, <3>2 DEF ExtractAndLookup
  <2>4. CASE PromoteLoses(j) \/ DbError(j)
    <3>1. CASE Go(j, "fail")
      BY <1>1, <2>1, <3>1, Onward, DropQuiet
    <3>2. ASSUME NEW pc \in {"fail", "receipt"}, NEW d,
                 \/ job' = [job EXCEPT ![j].target = d, ![j].pc = pc]
                 \/ job' = [job EXCEPT ![j].pc = pc, ![j].target = d]
          PROVE  DropInv'
      <4> DEFINE b == [job[j] EXCEPT !.pc = pc, !.target = d]
      <4>1. job' = [job EXCEPT ![j] = b]
        BY <1>1, <3>2 DEF JobType
      <4>2. b.pc = pc
        BY <1>1 DEF JobType
      <4> HIDE DEF b
      <4> QED
        BY <1>1, <2>1, <4>1, <4>2, DropQuiet
    <3> QED
      BY <2>4, <3>1, <3>2 DEF PromoteLoses, DbError
  <2>5. CASE Die(j)
    <3>1. NoJob.pc # "discard"
      BY DEF NoJob
    <3> HIDE DEF NoJob
    <3> QED
      BY <1>1, <2>1, <2>5, <3>1, DropQuiet DEF Die
  <2> QED
    BY <1>2, <2>2, <2>3, <2>4, <2>5
<1>3. ASSUME NEW j \in Requests, NEW r \in Rows,
             ReprocessReads(j, r) \/ \E f \in Files : UploadConflicts(j, f, r)
      PROVE  DropInv'
  <2> DEFINE b == [NoJob EXCEPT !.pc = "reprocess", !.row = r, !.target = r, !.text = mat[r].text]
  <2>1. job' = [job EXCEPT ![j] = b] /\ mat' = mat
    BY <1>3 DEF UploadConflicts, ReprocessReads
  <2>2. b.pc # "discard"
    BY DEF NoJob
  <2> HIDE DEF b
  <2> QED
    BY <1>1, <2>1, <2>2, DropQuiet
<1>4. ASSUME NEW s \in Sweepers,
             \/ SweepScans(s) \/ ReembedScans(s) \/ SweepEnds(s)
             \/ \E r \in Rows : SweepTakes(s, r)
      PROVE  DropInv'
  <2>1. mat' = mat /\ job' = [job EXCEPT ![s] = job'[s]]
    BY <1>1, <1>4 DEF SweepScans, ReembedScans, SweepEnds, SweepTakes
  <2>2. job'[s].pc \in {"sweep", "resweep", "free", "abandon", "claim"}
    <3>1. CASE SweepScans(s) \/ ReembedScans(s) \/ SweepEnds(s)
      <4> DEFINE a == [NoJob EXCEPT !.pc = "sweep", !.home = "sweep", !.batch = StrandedUploads,
                                    !.doomed = Doomed]
                 b == [NoJob EXCEPT !.pc = "resweep", !.home = "resweep",
                                    !.batch = StrandedReembeds]
      <4>1. job' \in {[job EXCEPT ![s] = a], [job EXCEPT ![s] = b], [job EXCEPT ![s] = NoJob]}
        BY <3>1 DEF SweepScans, ReembedScans, SweepEnds
      <4>2. a.pc = "sweep" /\ b.pc = "resweep" /\ NoJob.pc = "free"
        BY DEF NoJob
      <4> HIDE DEF a, b
      <4> QED
        BY <1>1, <4>1, <4>2
    <3>2. ASSUME NEW r \in Rows, SweepTakes(s, r)
          PROVE  job'[s].pc \in {"sweep", "abandon", "claim"}
      <4> DEFINE rest == [NoJob EXCEPT !.pc = "sweep", !.home = "sweep",
                                       !.batch = job[s].batch \ {r}, !.doomed = job[s].doomed \ {r}]
                 work == [rest EXCEPT !.row = r, !.target = r]
                 left == [work EXCEPT !.pc = "abandon"]
                 again == [work EXCEPT !.pc = "claim", !.file = mat[r].blob]
      <4>1. job' \in {[job EXCEPT ![s] = rest], [job EXCEPT ![s] = left], [job EXCEPT ![s] = again]}
        BY <3>2 DEF SweepTakes
      <4>2. rest.pc = "sweep" /\ left.pc = "abandon" /\ again.pc = "claim"
        BY DEF NoJob
      <4> HIDE DEF rest, left, again
      <4> QED
        BY <1>1, <4>1, <4>2
    <3> QED
      BY <1>4, <3>1, <3>2
  <2> QED
    BY <1>1, <2>1, <2>2, DropQuiet
<1> QED
  BY <1>2, <1>3, <1>4

\* Leases and deletion marks change neither what a row is nor its bytes.
LEMMA LeaseDrop ==
    ASSUME IndInv, DropInv, NEW r \in Rows,
           \/ Delete(r) \/ LeaseLapses(r) \/ GoesUnclaimed(r)
           \/ \E j \in Jobs : Renew(j) /\ r = job[j].target
           \/ \E s \in Sweepers : ReembedTakes(s, r)
    PROVE  DropInv'
<1>1. job \in [Jobs -> JobType] /\ mat \in [Rows -> RowType] /\ Sweepers \subseteq Jobs
  BY DEF IndInv, TypeOK, Jobs
<1>2. \A s \in Rows : /\ mat'[s].st = mat[s].st /\ mat'[s].sum = mat[s].sum
                      /\ mat'[s].blob = mat[s].blob /\ mat'[s].taken = mat[s].taken
  <2>1. \/ mat' = mat \/ mat' = [mat EXCEPT ![r].del = TRUE]
        \/ \E l : mat' = [mat EXCEPT ![r].lease = l]
    BY DEF Delete, LeaseLapses, GoesUnclaimed, Renew, ReembedTakes
  <2> QED
    BY <1>1, <2>1 DEF RowType
<1>3. \A k \in Jobs : job'[k].pc = "discard" => job'[k] = job[k] /\ job[k].target \in Rows
  <2>1. CASE job' = job
    BY <2>1, JobRows DEF Busy
  <2>2. ASSUME NEW s \in Sweepers, ReembedTakes(s, r)
        PROVE  \A k \in Jobs : job'[k].pc = "discard" => job'[k] = job[k]
    <3> DEFINE rest == [NoJob EXCEPT !.pc = "resweep", !.home = "resweep",
                                     !.batch = job[s].batch \ {r}]
               mine == [rest EXCEPT !.pc = "embed", !.row = r, !.target = r, !.text = mat[r].text]
    <3>1. rest.pc # "discard" /\ mine.pc # "discard"
      BY DEF NoJob
    <3>2. job' = [job EXCEPT ![s] = rest] \/ job' = [job EXCEPT ![s] = mine]
      BY <2>2, Zenon DEF ReembedTakes
    <3>3. s \in Jobs
      BY <1>1
    <3> HIDE DEF rest, mine
    <3> QED
      BY <1>1, <3>1, <3>2, <3>3
  <2> QED
    BY <2>1, <2>2, JobRows DEF Busy, Delete, LeaseLapses, GoesUnclaimed, Renew
<1> QED
  BY <1>2, <1>3 DEF DropInv, Raw

\* Every step keeps the bytes that are needed where writes succeed and none come twice.
LEMMA NextDrop ==
    ASSUME MaterialConstants, ~ MayReupload, MaxDbErrors = 0, IndInv, OwnInv, DropInv, [Next]_vars
    PROVE  DropInv'
<1>1. CASE UNCHANGED vars
  BY <1>1 DEF vars, DropInv, Raw
<1>2. ASSUME NEW j \in Requests, Request(j) PROVE DropInv'
  <2>1. j \in Jobs
    BY DEF Jobs
  <2> QED
    BY <1>2, <2>1, UploadDrop, RestDrop DEF Request
<1>3. ASSUME NEW s \in Sweepers, Sweep(s) PROVE DropInv'
  BY <1>3, RestDrop, LeaseDrop DEF Sweep, SweepGoesOn
<1>4. ASSUME NEW j \in Jobs, Work(j) \/ Die(j) PROVE DropInv'
  <2>1. ~ Reclaim(j)
    BY DEF Reclaim, OwnInv, Shape
  <2> QED
    BY <1>4, <2>1, RunDrop, SettleDrop, RestDrop DEF Work
<1>5. ASSUME NEW j \in Jobs, Renew(j) PROVE DropInv'
  <2>1. job[j].target \in Rows
    BY <1>5, JobRows DEF Renew, Busy
  <2> QED
    BY <1>5, <2>1, LeaseDrop
<1>6. ASSUME NEW r \in Rows, Delete(r) \/ LeaseLapses(r) \/ GoesUnclaimed(r) PROVE DropInv'
  BY <1>6, LeaseDrop
<1> QED
  BY <1>1, <1>2, <1>3, <1>4, <1>5, <1>6 DEF Next

\* A row whose text is not known keeps its bytes unless a sweep fails it under a live lease,
\* whatever crashes and however many sweeps are under way, as long as leases lapse only for
\* dead workers, no statement fails and no bytes come twice.
THEOREM BytesTheorem ==
    ASSUME Slow = {}, ~ MayReupload, MaxDbErrors = 0
    PROVE  Spec => []BytesWhilePending
<1>1. Init => IndInv /\ OwnInv /\ DropInv
  BY InitInd, InitOwn, MaterialConstants
<1>2. IndInv /\ OwnInv /\ DropInv /\ [Next]_vars => (IndInv /\ OwnInv /\ DropInv)'
  BY NextInd, NextOwn, NextDrop, MaterialConstants
<1>3. DropInv => BytesWhilePending
  BY DEF DropInv, Raw, BytesWhilePending, Processing, Pending
<1> QED
  BY <1>1, <1>2, <1>3, PTL DEF Spec

-----------------------------------------------------------------------------
(* The attempts.                                                           *)

\* Job record b has a claim of row r to come: it is about to, or its sweep found r with
\* attempts left and has it still to come.
Claims(b, r) ==
    \/ b.row = r /\ b.pc = "claim"
    \/ b.home = "sweep" /\ r \in b.batch \ b.doomed

\* The jobs of K with a claim of row r to come.
Claimants(K, r) == {k \in K : Claims(job[k], r)}

\* The attempts of row r and the claims of it that K has in hand are fewer than MaxAttempts and
\* one for each of K; or the row was tried once at most, and K has none in hand.
Counted(K, r) ==
    \/ mat[r].tries <= 1 /\ Claimants(K, r) = {}
    \/ mat[r].tries + Cardinality(Claimants(K, r)) <= MaxAttempts - 1 + Cardinality(K)

AttemptInv(K) ==
    /\ \A j \in Jobs : Shape(j, job[j])
    /\ \A r \in Rows : Counted(K, r)

\* Row r is one of the rows job record b acts on.
Has(b, r) == b.row = r \/ b.target = r \/ r \in b.batch

\* An upload nobody has claimed, nor had the time to miss.
Untouched(m) == m.st = "PROCESSING" /\ m.sum \in Files /\ m.lease = "none"

\* The row of a request that is about to claim its upload is untouched, untried and its alone.
FreshInv ==
    \A j \in Requests : job[j].pc = "claim" =>
        /\ Untouched(mat[job[j].row]) /\ mat[job[j].row].tries = 0
        /\ \A k \in Jobs \ {j} : ~ Has(job[k], job[j].row)

\* A part of a finite set of jobs counts no more than the set.
LEMMA ClaimantsCount ==
    ASSUME NEW K, IsFiniteSet(K), NEW S, S \subseteq K
    PROVE  /\ IsFiniteSet(S) /\ Cardinality(S) \in Nat /\ Cardinality(K) \in Nat
           /\ Cardinality(S) <= Cardinality(K)
BY FS_Subset, FS_CardinalityType

\* A step that raises no counter, and whose job turns to no claim of a row without attempts left.
LEMMA CountStep ==
    ASSUME MaterialConstants, IndInv, NEW K, K \subseteq Jobs, IsFiniteSet(K), AttemptInv(K),
           \A s \in Rows : mat'[s].tries \in {mat[s].tries, 0},
           NEW j \in Jobs, NEW b, job' = [job EXCEPT ![j] = b], Shape(j, b),
           \A s \in Rows : Claims(b, s) => Claims(job[j], s) \/ mat'[s].tries < MaxAttempts
    PROVE  AttemptInv(K)'
<1>1. job'[j] = b /\ \A k \in Jobs : k # j => job'[k] = job[k]
  BY DEF IndInv, TypeOK
<1>2. \A k \in Jobs : Shape(k, job'[k])
  BY <1>1 DEF AttemptInv
<1>3. ASSUME NEW r \in Rows PROVE Counted(K, r)'
  <2> DEFINE C == Claimants(K, r)
             D == {k \in K : Claims(job'[k], r)}
  <2>1. /\ MaxAttempts \in Nat \ {0} /\ mat[r].tries \in Nat /\ mat'[r].tries \in Nat
        /\ mat'[r].tries <= mat[r].tries
    BY DEF IndInv, TypeOK, RowType, MaterialConstants
  <2>2. /\ IsFiniteSet(C) /\ Cardinality(C) \in Nat /\ Cardinality(K) \in Nat
        /\ IsFiniteSet(D) /\ Cardinality(D) \in Nat /\ Cardinality(D) <= Cardinality(K)
    BY ClaimantsCount DEF Claimants
  <2>3. CASE mat'[r].tries < MaxAttempts
    <3>1. mat'[r].tries + Cardinality(D) <= MaxAttempts - 1 + Cardinality(K)
      BY <2>1, <2>2, <2>3
    <3> QED
      BY <3>1 DEF Counted, Claimants
  <2>4. CASE ~ (mat'[r].tries < MaxAttempts)
    <3>1. D \subseteq C
      BY <1>1, <2>4 DEF Claimants
    <3>2. Cardinality(D) <= Cardinality(C)
      BY <2>2, <3>1, FS_Subset
    <3>3. \/ mat'[r].tries <= 1 /\ D = {}
          \/ mat'[r].tries + Cardinality(D) <= MaxAttempts - 1 + Cardinality(K)
      <4>1. CASE mat[r].tries <= 1 /\ C = {}
        BY <2>1, <3>1, <4>1
      <4>2. CASE mat[r].tries + Cardinality(C) <= MaxAttempts - 1 + Cardinality(K)
        BY <2>1, <2>2, <3>2, <4>2
      <4> QED
        BY <4>1, <4>2 DEF AttemptInv, Counted
    <3> QED
      BY <3>3 DEF Counted, Claimants
  <2> QED
    BY <2>3, <2>4
<1> QED
  BY <1>2, <1>3 DEF AttemptInv

\* A step of job k on its rows, that turns to no untouched row.
LEMMA FreshStep ==
    ASSUME IndInv, FreshInv, NEW k \in Jobs, NEW b, job' = [job EXCEPT ![k] = b],
           k \in Requests => b.pc # "claim",
           \A s \in Rows : Has(job[k], s) \/ mat'[s] = mat[s],
           \A s \in Rows : Has(b, s) => Has(job[k], s) \/ ~ Untouched(mat[s])
    PROVE  FreshInv'
<1>1. job'[k] = b /\ \A i \in Jobs : i # k => job'[i] = job[i]
  BY DEF IndInv, TypeOK
<1> SUFFICES ASSUME NEW j \in Requests, job'[j].pc = "claim"
             PROVE  /\ Untouched(mat'[job'[j].row]) /\ mat'[job'[j].row].tries = 0
                    /\ \A i \in Jobs \ {j} : ~ Has(job'[i], job'[j].row)
  BY DEF FreshInv, Untouched
<1>2. j # k /\ j \in Jobs /\ job'[j] = job[j]
  BY <1>1 DEF Jobs
<1>3. job[j].row \in Rows
  BY <1>2, JobRows DEF Busy
<1>4. ~ Has(job[k], job[j].row) /\ Untouched(mat[job[j].row]) /\ mat[job[j].row].tries = 0
  BY <1>2 DEF FreshInv
<1>5. mat'[job[j].row] = mat[job[j].row] /\ ~ Has(b, job[j].row)
  BY <1>3, <1>4
<1> QED
  BY <1>1, <1>2, <1>4, <1>5 DEF FreshInv

\* A statement of a run that claims nothing leaves the counters alone, writes only rows of its
\* job, and leaves the job in its sweep, with no rows but its own and one that has its text.
LEMMA WorkOnward ==
    ASSUME MaterialConstants, IndInv, NEW j \in Jobs, Work(j), ~ Claim(j), ~ Reclaim(j)
    PROVE  /\ \A s \in Rows : /\ mat'[s].tries = mat[s].tries
                              /\ Has(job[j], s) \/ mat'[s] = mat[s]
           /\ \E b : /\ job' = [job EXCEPT ![j] = b]
                     /\ b.pc \notin {"claim", "abandon", "reclaim"}
                     /\ b.home = job[j].home /\ b.batch = job[j].batch /\ b.doomed = job[j].doomed
                     /\ \A s \in Rows : Has(b, s) => Has(job[j], s) \/ mat[s].sum \in Texts
<1>1. /\ mat \in [Rows -> RowType] /\ job \in [Jobs -> JobType] /\ job[j] \in JobType
      /\ None \notin Rows
  BY DEF IndInv, TypeOK, MaterialConstants
<1> DEFINE Goal == \E b :
               /\ job' = [job EXCEPT ![j] = b] /\ b.pc \notin {"claim", "abandon", "reclaim"}
               /\ b.home = job[j].home /\ b.batch = job[j].batch /\ b.doomed = job[j].doomed
               /\ \A s \in Rows : Has(b, s) => Has(job[j], s) \/ mat[s].sum \in Texts
           Writes == \A s \in Rows : /\ mat'[s].tries = mat[s].tries
                                     /\ Has(job[j], s) \/ mat'[s] = mat[s]
<1>2. ASSUME Finish(j) PROVE Goal
  <2> DEFINE b == Finished(j)
  <2>1. /\ b.pc \in Idle /\ b.home = job[j].home /\ b.batch = job[j].batch
        /\ b.doomed = job[j].doomed /\ b.row = None /\ b.target = None
    BY <1>1 DEF Finished, NoJob, JobType
  <2>2. job' = [job EXCEPT ![j] = b]
    BY <1>2 DEF Finish
  <2> HIDE DEF b
  <2> QED
    BY <1>1, <2>1, <2>2 DEF Has, Idle
<1>3. ASSUME NEW p, NEW d, NEW t, p \notin {"claim", "abandon", "reclaim"},
             job' = [job EXCEPT ![j] = [job[j] EXCEPT !.pc = p, !.target = d, !.text = t]],
             d \in {job[j].target, job[j].row} \/ (d \in Rows /\ mat[d].sum \in Texts)
      PROVE  Goal
  <2> DEFINE b == [job[j] EXCEPT !.pc = p, !.target = d, !.text = t]
  <2>1. /\ b.pc = p /\ b.home = job[j].home /\ b.batch = job[j].batch
        /\ b.doomed = job[j].doomed /\ b.row = job[j].row /\ b.target = d
    BY <1>1 DEF JobType
  <2> HIDE DEF b
  <2>2. \A s \in Rows : Has(b, s) => Has(job[j], s) \/ mat[s].sum \in Texts
    BY <1>3, <2>1 DEF Has
  <2> QED
    BY <1>3, <2>1, <2>2 DEF b
<1>4. ASSUME NEW p, Go(j, p), p \notin {"claim", "abandon", "reclaim"} PROVE Goal
  <2>1. [job[j] EXCEPT !.pc = p]
            = [job[j] EXCEPT !.pc = p, !.target = job[j].target, !.text = job[j].text]
    BY <1>1 DEF JobType
  <2>2. job' = [job EXCEPT ![j] = [job[j] EXCEPT !.pc = p, !.target = job[j].target,
                                                 !.text = job[j].text]]
    BY <1>4, <2>1 DEF Go
  <2> HIDE DEF Goal
  <2> QED
    BY <1>3, <1>4, <2>2
<1>5. CASE \/ ReprocessClaims(j) \/ ExtractBusy(j) \/ ExtractBusyUnwritten(j) \/ ExtractFails(j)
           \/ Promote(j) \/ Embed(j) \/ EmbedFails(j) \/ Ready(j) \/ Fail(j) \/ Discard(j)
  <2>1. Writes
    <3>1. CASE ReprocessClaims(j) \/ Promote(j) \/ Embed(j)
      BY <1>1, <3>1 DEF ReprocessClaims, Promote, Embed, RowType, Has
    <3>2. CASE ExtractBusy(j)
      <4>1. \A r \in Rows : Released(r).tries = mat[r].tries
        BY <1>1 DEF Released, RowType
      <4> QED
        BY <1>1, <3>2, <4>1 DEF ExtractBusy, Has
    <3>3. CASE ExtractBusyUnwritten(j) \/ ExtractFails(j) \/ EmbedFails(j)
      BY <3>3 DEF ExtractBusyUnwritten, ExtractFails, EmbedFails
    <3>4. CASE Ready(j) \/ Fail(j) \/ Discard(j)
      BY <1>1, <3>4 DEF Ready, Fail, Discard, RowType, Has
    <3> QED
      BY <1>5, <3>1, <3>2, <3>3, <3>4
  <2>2. \/ Finish(j)
        \/ \E p \in {"embed", "fail", "ready", "restored", "discard", "failReceipt"} : Go(j, p)
    BY <1>5 DEF ReprocessClaims, ExtractBusy, ExtractBusyUnwritten, ExtractFails,
       Promote, Embed, EmbedFails, Ready, Fail, Discard, AfterDiscard
  <2> HIDE DEF Goal, Writes
  <2>3. Goal
    BY <1>2, <1>4, <2>2
  <2> QED
    BY <2>1, <2>3 DEF Goal, Writes
<1>6. CASE RestoreClaims(j) \/ RetryClaims(j)
  <2>1. Writes
    <3>1. \A r \in Rows : /\ Restored(j, r).tries = mat[r].tries
                          /\ [Restored(j, r) EXCEPT !.del = FALSE].tries = mat[r].tries
      BY <1>1 DEF Restored, RowType
    <3> QED
      BY <1>1, <1>6, <3>1 DEF RestoreClaims, RetryClaims, Has
  <2>2. Finish(j) \/ \E p \in {"embed", "retry"} : Go(j, p)
    BY <1>6 DEF RestoreClaims, RetryClaims
  <2> HIDE DEF Goal, Writes
  <2>3. Goal
    BY <1>2, <1>4, <2>2
  <2> QED
    BY <2>1, <2>3 DEF Goal, Writes
<1>7. CASE ExtractAndLookup(j)
  <2> DEFINE t == Text[job[j].file]
  <2>1. Writes /\ t \in Texts
    BY <1>1, <1>7, JobKnows DEF ExtractAndLookup, JobGood, JobType, MaterialConstants
  <2>2. \/ Finish(j)
        \/ \E pc \in {"promote", "restore", "receipt"}, d \in Rows :
              /\ job' = [job EXCEPT ![j].text = t, ![j].pc = pc, ![j].target = d]
              /\ d = job[j].row \/ mat[d].sum = t
    <3>1. job[j].row \in Rows
      BY <1>7, JobRows DEF ExtractAndLookup, Busy
    <3> QED
      BY <1>7, <3>1 DEF ExtractAndLookup
  <2>3. ASSUME NEW pc \in {"promote", "restore", "receipt"}, NEW d \in Rows,
               job' = [job EXCEPT ![j].text = t, ![j].pc = pc, ![j].target = d]
        PROVE  job' = [job EXCEPT ![j] = [job[j] EXCEPT !.pc = pc, !.target = d, !.text = t]]
    BY <1>1, <2>3 DEF JobType
  <2> HIDE DEF Goal, Writes, t
  <2>4. Goal
    <3>1. CASE Finish(j)
      BY <1>2, <3>1
    <3>2. ASSUME NEW pc \in {"promote", "restore", "receipt"}, NEW d \in Rows,
                 job' = [job EXCEPT ![j].text = t, ![j].pc = pc, ![j].target = d],
                 d = job[j].row \/ mat[d].sum = t
          PROVE  Goal
      <4>1. job' = [job EXCEPT ![j] = [job[j] EXCEPT !.pc = pc, !.target = d, !.text = t]]
        BY <2>3, <3>2
      <4>2. /\ pc \notin {"claim", "abandon", "reclaim"}
            /\ d \in {job[j].target, job[j].row} \/ (d \in Rows /\ mat[d].sum \in Texts)
        BY <2>1, <3>2
      <4> QED
        BY <1>3, <4>1, <4>2
    <3> QED
      BY <2>2, <3>1, <3>2
  <2> QED
    BY <2>1, <2>4 DEF Goal, Writes
<1>8. CASE PromoteLoses(j) \/ DbError(j) \/ MarkReceipt(j) \/ FailReceipt(j)
  <2>1. Writes
    <3>1. CASE mat' = mat
      BY <3>1
    <3>2. CASE PromoteLoses(j) \/ DbError(j)
      BY <3>2, <3>1 DEF PromoteLoses, DbError
    <3>3. ASSUME NEW m, m.tries = mat[job[j].row].tries, mat' = [mat EXCEPT ![job[j].row] = m]
          PROVE  Writes
      BY <1>1, <3>3 DEF Has
    <3> QED
      BY <1>8, <3>1, <3>2, <3>3, ReceiptWrites
  <2>2. \/ Finish(j) \/ Go(j, "fail")
        \/ \E pc \in {"fail", "receipt", "discard"}, d \in Rows :
              /\ \/ job' = [job EXCEPT ![j].target = d, ![j].pc = pc]
                 \/ job' = [job EXCEPT ![j].pc = pc, ![j].target = d]
              /\ d = job[j].row \/ mat[d].sum \in Texts
    <3>1. CASE PromoteLoses(j)
      <4>1. job[j].text \in Texts
        BY <3>1, JobKnows DEF PromoteLoses, JobGood
      <4> QED
        BY <3>1, <4>1 DEF PromoteLoses
    <3>2. CASE DbError(j) \/ MarkReceipt(j) \/ FailReceipt(j)
      <4>1. Go(j, "fail") \/ job[j].row \in Rows
        BY <3>2, JobRows DEF DbError, MarkReceipt, FailReceipt, Busy
      <4> QED
        BY <3>2, <4>1 DEF DbError, MarkReceipt, FailReceipt
    <3> QED
      BY <1>8, <3>1, <3>2
  <2>3. ASSUME NEW pc \in {"fail", "receipt", "discard"}, NEW d \in Rows,
               \/ job' = [job EXCEPT ![j].target = d, ![j].pc = pc]
               \/ job' = [job EXCEPT ![j].pc = pc, ![j].target = d]
        PROVE  job' = [job EXCEPT ![j] = [job[j] EXCEPT !.pc = pc, !.target = d,
                                                        !.text = job[j].text]]
    BY <1>1, <2>3 DEF JobType
  <2> HIDE DEF Goal, Writes
  <2>4. Goal
    <3>1. CASE Finish(j) \/ Go(j, "fail")
      BY <1>2, <1>4, <3>1
    <3>2. ASSUME NEW pc \in {"fail", "receipt", "discard"}, NEW d \in Rows,
                 \/ job' = [job EXCEPT ![j].target = d, ![j].pc = pc]
                 \/ job' = [job EXCEPT ![j].pc = pc, ![j].target = d],
                 d = job[j].row \/ mat[d].sum \in Texts
          PROVE  Goal
      <4>1. job' = [job EXCEPT ![j] = [job[j] EXCEPT !.pc = pc, !.target = d,
                                                     !.text = job[j].text]]
        BY <2>3, <3>2
      <4>2. /\ pc \notin {"claim", "abandon", "reclaim"}
            /\ d \in {job[j].target, job[j].row} \/ (d \in Rows /\ mat[d].sum \in Texts)
        BY <3>2
      <4> QED
        BY <1>3, <4>1, <4>2
    <3> QED
      BY <2>2, <3>1, <3>2
  <2> QED
    BY <2>1, <2>4 DEF Goal, Writes
<1> QED
  BY <1>5, <1>6, <1>7, <1>8 DEF Work

\* Such a step turns to no claim and to no untouched row.
LEMMA WorkCounts ==
    ASSUME MaterialConstants, IndInv, NEW K, K \subseteq Jobs, IsFiniteSet(K), AttemptInv(K),
           NEW j \in Jobs, Work(j), ~ Claim(j), ~ Reclaim(j)
    PROVE  AttemptInv(K)' /\ (FreshInv => FreshInv')
<1>1. PICK b : /\ job' = [job EXCEPT ![j] = b] /\ b.pc \notin {"claim", "abandon", "reclaim"}
               /\ b.home = job[j].home /\ b.batch = job[j].batch /\ b.doomed = job[j].doomed
               /\ \A s \in Rows : Has(b, s) => Has(job[j], s) \/ mat[s].sum \in Texts
  BY WorkOnward
<1>2. \A s \in Rows : mat'[s].tries = mat[s].tries /\ (Has(job[j], s) \/ mat'[s] = mat[s])
  BY WorkOnward
<1>3. Shape(j, b) /\ \A s \in Rows : Claims(b, s) => Claims(job[j], s)
  BY <1>1 DEF AttemptInv, Shape, Claims
<1>4. \A s \in Rows : mat[s].sum \in Texts => ~ Untouched(mat[s])
  BY DEF Untouched, MaterialConstants
<1>5. AttemptInv(K)'
  BY <1>1, <1>2, <1>3, CountStep
<1>6. ASSUME FreshInv PROVE FreshInv'
  <2>1. \A s \in Rows : Has(b, s) => Has(job[j], s) \/ ~ Untouched(mat[s])
    BY <1>1, <1>4
  <2>2. (\A s \in Rows : Has(job[j], s) \/ mat'[s] = mat[s]) /\ b.pc # "claim"
    BY <1>1, <1>2
  <2> QED
    BY <1>1, <1>6, <2>1, <2>2, FreshStep
<1> QED
  BY <1>5, <1>6

\* The claim spends an attempt that only it was to spend.
LEMMA ClaimCounts ==
    ASSUME MaterialConstants, IndInv, NEW K, K \subseteq Jobs, IsFiniteSet(K), AttemptInv(K),
           NEW j \in Jobs, Claim(j), j \in K \/ (K = Sweepers /\ FreshInv)
    PROVE  AttemptInv(K)' /\ (FreshInv => FreshInv')
<1> DEFINE r == job[j].row
<1>1. /\ r \in Rows /\ mat \in [Rows -> RowType] /\ job \in [Jobs -> JobType]
      /\ mat[r].tries \in Nat /\ MaxAttempts \in Nat \ {0} /\ None \notin Rows
      /\ job[j] \in JobType /\ job[j].pc = "claim" /\ job[j].target = r
  BY JobKnows, RowKnows
  DEF Claim, JobGood, Busy, IndInv, TypeOK, RowType, MaterialConstants
<1>2. CASE UNCHANGED mat /\ Finish(j)
  <2> DEFINE b == Finished(j)
  <2>1. /\ b.pc \in Idle /\ b.home = job[j].home /\ b.batch = job[j].batch
        /\ b.doomed = job[j].doomed /\ b.row = None /\ b.target = None
    BY <1>1 DEF Finished, NoJob, JobType
  <2>2. job' = [job EXCEPT ![j] = b] /\ mat' = mat
    BY <1>2 DEF Finish
  <2> HIDE DEF b
  <2>3. /\ Shape(j, b) /\ b.pc # "claim"
        /\ \A s \in Rows : (Claims(b, s) => Claims(job[j], s)) /\ (Has(b, s) => Has(job[j], s))
    BY <1>1, <2>1 DEF AttemptInv, Shape, Claims, Has, Idle
  <2>4. AttemptInv(K)'
    BY <2>2, <2>3, CountStep
  <2> QED
    BY <2>2, <2>3, <2>4, FreshStep
<1>3. CASE /\ mat' = [mat EXCEPT ![r].lease = "live", ![r].tries = @ + 1] /\ Go(j, "extract")
  <2> DEFINE b == [job[j] EXCEPT !.pc = "extract"]
  <2>1. /\ mat'[r].tries = mat[r].tries + 1
        /\ \A s \in Rows \ {r} : mat'[s] = mat[s]
    BY <1>1, <1>3 DEF RowType
  <2>2. /\ b.pc = "extract" /\ b.home = job[j].home /\ b.row = r /\ b.target = r
        /\ b.batch = job[j].batch /\ b.doomed = job[j].doomed
        /\ job' = [job EXCEPT ![j] = b]
    BY <1>1, <1>3 DEF Go, JobType
  <2> HIDE DEF b
  <2>3. job'[j] = b /\ \A k \in Jobs : k # j => job'[k] = job[k]
    BY <1>1, <2>2
  <2>4. Shape(j, b) /\ ~ Claims(b, r) /\ \A s \in Rows : Claims(b, s) => Claims(job[j], s)
    BY <1>1, <2>2 DEF AttemptInv, Shape, Claims
  <2>5. ASSUME NEW s \in Rows \ {r} PROVE Counted(K, s)'
    <3>1. {k \in K : Claims(job'[k], s)} \subseteq Claimants(K, s)
      BY <2>3, <2>4 DEF Claimants
    <3> DEFINE C == Claimants(K, s)
               D == {k \in K : Claims(job'[k], s)}
    <3>2. /\ IsFiniteSet(C) /\ Cardinality(C) \in Nat /\ Cardinality(D) \in Nat
          /\ Cardinality(D) <= Cardinality(C) /\ Cardinality(K) \in Nat
      BY <3>1, ClaimantsCount DEF Claimants
    <3>3. mat[s].tries \in Nat /\ mat'[s] = mat[s]
      BY <1>1, <2>1 DEF RowType
    <3>4. \/ mat[s].tries <= 1 /\ C = {}
          \/ mat[s].tries + Cardinality(C) <= MaxAttempts - 1 + Cardinality(K)
      BY DEF AttemptInv, Counted
    <3>5. \/ mat'[s].tries <= 1 /\ D = {}
          \/ mat'[s].tries + Cardinality(D) <= MaxAttempts - 1 + Cardinality(K)
      BY <1>1, <3>1, <3>2, <3>3, <3>4
    <3> QED
      BY <3>5 DEF Counted, Claimants
  <2>6. ASSUME NEW q \in Rows, q = r PROVE Counted(K, q)'
    <3> DEFINE C == Claimants(K, q)
               D == {k \in K : Claims(job'[k], q)}
    <3>1. D = C \ {j}
      BY <1>1, <2>6, <2>3, <2>4 DEF Claimants
    <3>2. IsFiniteSet(C) /\ Cardinality(C) \in Nat /\ Cardinality(K) \in Nat
      BY ClaimantsCount DEF Claimants
    <3>3. CASE j \in K
      <4>1. j \in C
        BY <1>1, <2>6, <3>3 DEF Claimants, Claims
      <4>2. Cardinality(D) = Cardinality(C) - 1
        <5> HIDE DEF C, D
        <5>1. Cardinality(C \ {j}) = Cardinality(C) - 1
          BY <3>2, <4>1, FS_RemoveElement
        <5> QED
          BY <3>1, <5>1
      <4>3. mat[q].tries + Cardinality(C) <= MaxAttempts - 1 + Cardinality(K)
        BY <1>1, <2>6, <4>1 DEF AttemptInv, Counted
      <4>4. mat'[q].tries + Cardinality(D) <= MaxAttempts - 1 + Cardinality(K)
        BY <1>1, <2>6, <2>1, <3>2, <4>2, <4>3
      <4> QED
        BY <4>4 DEF Counted, Claimants
    <3>4. CASE j \notin K
      <4>1. j \in Requests /\ K = Sweepers /\ FreshInv
        BY <3>4 DEF Jobs
      <4>2. mat[q].tries = 0 /\ \A k \in Jobs \ {j} : ~ Has(job[k], q)
        BY <1>1, <2>6, <4>1 DEF FreshInv
      <4>3. D = {}
        BY <2>3, <3>1, <3>4, <4>2 DEF Claimants, Claims, Has
      <4>4. mat'[q].tries <= 1
        BY <2>1, <2>6, <4>2
      <4> QED
        BY <4>3, <4>4 DEF Counted, Claimants
    <3> QED
      BY <3>3, <3>4
  <2>7. \A k \in Jobs : Shape(k, job'[k])
    BY <2>3, <2>4 DEF AttemptInv
  <2>8. AttemptInv(K)'
    BY <2>5, <2>6, <2>7 DEF AttemptInv
  <2>9. ASSUME FreshInv PROVE FreshInv'
    <3>1. \A s \in Rows : Has(job[j], s) \/ mat'[s] = mat[s]
      BY <1>1, <2>1 DEF Has
    <3>2. (\A s \in Rows : Has(b, s) => Has(job[j], s)) /\ b.pc # "claim"
      BY <1>1, <2>2 DEF Has
    <3> QED
      BY <2>2, <2>9, <3>1, <3>2, FreshStep
  <2> QED
    BY <2>8, <2>9
<1> QED
  BY <1>2, <1>3 DEF Claim

\* A reclaimed row starts counting again.
LEMMA ReclaimCounts ==
    ASSUME MaterialConstants, IndInv, NEW K, K \subseteq Jobs, IsFiniteSet(K), AttemptInv(K),
           NEW j \in Jobs, Reclaim(j)
    PROVE  AttemptInv(K)' /\ MayReupload
<1> DEFINE r == job[j].row
           b == [job[j] EXCEPT !.pc = "claim"]
<1>1. /\ r \in Rows /\ mat \in [Rows -> RowType] /\ job \in [Jobs -> JobType]
      /\ job[j] \in JobType /\ job[j].target = r /\ job[j].batch = {} /\ MayReupload
      /\ MaxAttempts \in Nat \ {0} /\ mat[r].tries \in Nat /\ None \notin Rows
  BY JobKnows, RowKnows DEF Reclaim, JobGood, Busy, IndInv, TypeOK, AttemptInv, Shape,
     MaterialConstants, RowType
<1>2. CASE UNCHANGED mat /\ Finish(j)
  <2> DEFINE c == Finished(j)
  <2>1. /\ c.pc \in Idle /\ c.home = job[j].home /\ c.batch = {} /\ c.row = None
        /\ job' = [job EXCEPT ![j] = c] /\ mat' = mat
    BY <1>1, <1>2 DEF Finish, Finished, NoJob, JobType
  <2> HIDE DEF c
  <2>2. Shape(j, c) /\ \A s \in Rows : ~ Claims(c, s)
    BY <1>1, <2>1 DEF AttemptInv, Shape, Claims, Idle
  <2>3. AttemptInv(K)'
    BY <2>1, <2>2, CountStep
  <2> QED
    BY <1>1, <2>3
<1>3. CASE Reclaimable(r, job[j].file)
  <2>1. /\ mat' = [mat EXCEPT ![r] = [mat[r] EXCEPT
               !.st = "PROCESSING", !.text = None, !.lease = "none", !.tries = 0, !.del = FALSE,
               !.dup = None, !.res = "none", !.reason = FALSE, !.blob = job[j].file]]
        /\ job' = [job EXCEPT ![j] = b]
    BY <1>3 DEF Reclaim, Go
  <2>2. mat'[r].tries = 0 /\ \A s \in Rows \ {r} : mat'[s] = mat[s]
    BY <1>1, <2>1 DEF RowType
  <2>3. b.pc = "claim" /\ b.row = r /\ b.target = r /\ b.home = job[j].home /\ b.batch = {}
    BY <1>1 DEF JobType
  <2> HIDE DEF b
  <2>4. Shape(j, b) /\ \A s \in Rows : Claims(b, s) => s = r
    BY <1>1, <2>3 DEF AttemptInv, Shape, Claims
  <2>5. mat'[r].tries < MaxAttempts
    BY <1>1, <2>2
  <2>6. \A s \in Rows : mat'[s].tries \in {mat[s].tries, 0}
    BY <2>2
  <2>7. AttemptInv(K)'
    BY <2>1, <2>4, <2>5, <2>6, CountStep
  <2> QED
    BY <1>1, <2>7
<1> QED
  BY <1>2, <1>3 DEF Reclaim

\* An upload counts from none; a reprocess and an upload that meets its checksum only read.
LEMMA RequestCounts ==
    ASSUME MaterialConstants, IndInv, NEW K, K \subseteq Jobs, IsFiniteSet(K), AttemptInv(K),
           NEW j \in Requests, Request(j)
    PROVE  AttemptInv(K)' /\ (FreshInv /\ ~ MayReupload => FreshInv')
<1>1. /\ j \in Jobs /\ mat \in [Rows -> RowType] /\ job \in [Jobs -> JobType]
      /\ MaxAttempts \in Nat \ {0} /\ None \notin Files
  BY DEF Jobs, IndInv, TypeOK, MaterialConstants
<1>2. ASSUME NEW r \in Rows, NEW f \in Files, UploadCreates(j, f, r)
      PROVE  AttemptInv(K)' /\ (FreshInv => FreshInv')
  <2> DEFINE m == [NoRow EXCEPT !.st = "PROCESSING", !.sum = f, !.blob = f]
             b == [NoJob EXCEPT !.pc = "claim", !.row = r, !.target = r, !.file = f]
  <2>1. mat' = [mat EXCEPT ![r] = m] /\ job' = [job EXCEPT ![j] = b] /\ mat[r].sum = None
    BY <1>2, RowKnows DEF UploadCreates, Stored, RowGood
  <2>2. /\ m.tries = 0 /\ m.st = "PROCESSING" /\ m.sum = f /\ m.lease = "none"
        /\ b.pc = "claim" /\ b.row = r /\ b.target = r /\ b.home = "free" /\ b.batch = {}
    BY DEF NoRow, NoJob
  <2> HIDE DEF m, b
  <2>3. mat'[r] = m /\ \A s \in Rows \ {r} : mat'[s] = mat[s]
    BY <1>1, <2>1
  <2>4. Shape(j, b) /\ \A s \in Rows : Claims(b, s) => s = r
    BY <2>2 DEF Shape, Claims
  <2>5. AttemptInv(K)'
    <3>1. \A s \in Rows : mat'[s].tries \in {mat[s].tries, 0}
      BY <2>2, <2>3
    <3>2. mat'[r].tries < MaxAttempts
      BY <1>1, <2>2, <2>3
    <3> QED
      BY <1>1, <2>1, <2>4, <3>1, <3>2, CountStep
  <2>6. ASSUME FreshInv PROVE FreshInv'
    <3>1. \A k \in Jobs : ~ Has(job[k], r)
      <4> SUFFICES ASSUME NEW k \in Jobs, Has(job[k], r) PROVE FALSE
        OBVIOUS
      <4>1. JobGood(mat, job[k]) /\ job[k] \in JobType /\ None \notin Rows
        BY JobKnows DEF MaterialConstants
      <4>2. job[k].pc \in Busy \/ r \in job[k].batch
        BY <4>1 DEF Has, JobGood, JobType
      <4> QED
        BY <2>1, <4>1, <4>2 DEF Has, JobGood
    <3>2. job'[j] = b /\ \A k \in Jobs : k # j => job'[k] = job[k]
      BY <1>1, <2>1
    <3>3. ASSUME NEW i \in Requests, job'[i].pc = "claim"
          PROVE  /\ Untouched(mat'[job'[i].row]) /\ mat'[job'[i].row].tries = 0
                 /\ \A k \in Jobs \ {i} : ~ Has(job'[k], job'[i].row)
      <4>1. CASE i = j
        BY <2>2, <2>3, <3>1, <3>2, <4>1 DEF Untouched
      <4>2. CASE i # j
        <5>1. i \in Jobs /\ job'[i] = job[i] /\ job[i].row \in Rows /\ job[i].row # r
          BY <3>1, <3>2, <3>3, <4>2, JobRows DEF Jobs, Busy, Has
        <5>2. ~ Has(b, job[i].row) /\ mat'[job[i].row] = mat[job[i].row]
          BY <2>2, <2>3, <5>1 DEF Has
        <5> QED
          BY <2>6, <3>2, <3>3, <5>1, <5>2 DEF FreshInv
      <4> QED
        BY <4>1, <4>2
    <3> QED
      BY <3>3 DEF FreshInv, Untouched
  <2> QED
    BY <2>5, <2>6
<1>3. ASSUME NEW r \in Rows, mat' = mat, NEW b, job' = [job EXCEPT ![j] = b],
             b.pc \in {"reprocess", "reclaim"}, b.row = r, b.target = r, b.home = "free",
             b.batch = {}, b.pc = "reclaim" => MayReupload, b.pc = "reprocess" => ~ Processing(r)
      PROVE  AttemptInv(K)' /\ (FreshInv /\ ~ MayReupload => FreshInv')
  <2>1. Shape(j, b) /\ \A s \in Rows : ~ Claims(b, s)
    BY <1>3 DEF Shape, Claims
  <2>2. AttemptInv(K)'
    <3>1. \A s \in Rows : mat'[s].tries \in {mat[s].tries, 0}
      BY <1>3
    <3> QED
      BY <1>1, <1>3, <2>1, <3>1, CountStep
  <2>3. ~ MayReupload => \A s \in Rows : Has(b, s) => ~ Untouched(mat[s])
    BY <1>3 DEF Has, Untouched, Processing
  <2> QED
    BY <1>1, <1>3, <2>2, <2>3, FreshStep
<1>4. ASSUME NEW r \in Rows, NEW f \in Files, UploadConflicts(j, f, r)
      PROVE  AttemptInv(K)' /\ (FreshInv /\ ~ MayReupload => FreshInv')
  <2> DEFINE b == [NoJob EXCEPT !.pc = "reclaim", !.row = r, !.target = r, !.file = f]
  <2>1. /\ b.pc = "reclaim" /\ b.row = r /\ b.target = r /\ b.home = "free" /\ b.batch = {}
        /\ mat' = mat /\ job' = [job EXCEPT ![j] = b] /\ MayReupload
    BY <1>4 DEF NoJob, UploadConflicts
  <2> HIDE DEF b
  <2> QED
    BY <1>3, <2>1
<1>5. ASSUME NEW r \in Rows, ReprocessReads(j, r)
      PROVE  AttemptInv(K)' /\ (FreshInv /\ ~ MayReupload => FreshInv')
  <2> DEFINE b == [NoJob EXCEPT !.pc = "reprocess", !.row = r, !.target = r, !.text = mat[r].text]
  <2>1. /\ b.pc = "reprocess" /\ b.row = r /\ b.target = r /\ b.home = "free" /\ b.batch = {}
        /\ mat' = mat /\ job' = [job EXCEPT ![j] = b] /\ ~ Processing(r)
    BY <1>5 DEF NoJob, ReprocessReads, Processing
  <2> HIDE DEF b
  <2> QED
    BY <1>3, <2>1
<1> QED
  BY <1>2, <1>4, <1>5 DEF Request

\* A scan counts what it finds, finds nothing untouched, and a sweep claims only what had an
\* attempt left when it was found.
LEMMA SweepCounts ==
    ASSUME MaterialConstants, IndInv, NEW K, K \subseteq Jobs, IsFiniteSet(K), AttemptInv(K),
           NEW s \in Sweepers, Sweep(s)
    PROVE  AttemptInv(K)' /\ (FreshInv => FreshInv')
<1>1. /\ s \in Jobs /\ s \notin Requests /\ mat \in [Rows -> RowType] /\ job \in [Jobs -> JobType]
      /\ MaxAttempts \in Nat /\ None \notin Rows /\ \A r \in Rows : mat[r].tries \in Nat
  BY DEF Jobs, IndInv, TypeOK, MaterialConstants, RowType
<1>2. ASSUME NEW b, job' = [job EXCEPT ![s] = b], b.pc # "reclaim",
             \A r \in Rows : mat'[r].tries = mat[r].tries,
             b.pc \in {"claim", "abandon"} => b.row \notin b.batch /\ b.target = b.row,
             \A r \in Rows : Claims(b, r) => Claims(job[s], r) \/ mat[r].tries < MaxAttempts,
             \A r \in Rows : Has(job[s], r) \/ mat'[r] = mat[r],
             \A r \in Rows : Has(b, r) => Has(job[s], r) \/ ~ Untouched(mat[r])
      PROVE  AttemptInv(K)' /\ (FreshInv => FreshInv')
  <2>1. Shape(s, b)
    BY <1>1, <1>2 DEF Shape
  <2>2. AttemptInv(K)'
    <3>1. \A r \in Rows : mat'[r].tries \in {mat[r].tries, 0}
      BY <1>2
    <3>2. \A r \in Rows : Claims(b, r) => Claims(job[s], r) \/ mat'[r].tries < MaxAttempts
      BY <1>2
    <3> QED
      BY <1>1, <1>2, <2>1, <3>1, <3>2, CountStep
  <2> QED
    BY <1>1, <1>2, <2>2, FreshStep
<1>3. CASE SweepScans(s)
  <2> DEFINE b == [NoJob EXCEPT !.pc = "sweep", !.home = "sweep", !.batch = StrandedUploads,
                                !.doomed = Doomed]
  <2>1. /\ job' = [job EXCEPT ![s] = b] /\ mat' = mat /\ b.pc = "sweep" /\ b.row = None
        /\ b.target = None /\ b.batch = StrandedUploads /\ b.doomed = Doomed
    BY <1>3 DEF SweepScans, NoJob
  <2> HIDE DEF b
  <2>2. \A r \in Rows : Claims(b, r) => mat[r].tries < MaxAttempts
    BY <1>1, <2>1 DEF Claims, Doomed, Exhausted
  <2>3. \A r \in Rows : Has(b, r) => ~ Untouched(mat[r])
    BY <1>1, <2>1 DEF Has, StrandedUploads, Untouched
  <2> QED
    BY <1>2, <2>1, <2>2, <2>3
<1>4. ASSUME NEW r \in Rows, SweepTakes(s, r) PROVE AttemptInv(K)' /\ (FreshInv => FreshInv')
  <2> DEFINE rest == [NoJob EXCEPT !.pc = "sweep", !.home = "sweep", !.batch = job[s].batch \ {r},
                                   !.doomed = job[s].doomed \ {r}]
             work == [rest EXCEPT !.row = r, !.target = r]
             left == [work EXCEPT !.pc = "abandon"]
             again == [work EXCEPT !.pc = "claim", !.file = mat[r].blob]
  <2>1. /\ mat' = mat /\ r \in job[s].batch /\ job[s].home = "sweep"
        /\ \/ job' = [job EXCEPT ![s] = rest] \/ job' = [job EXCEPT ![s] = left]
           \/ r \notin job[s].doomed /\ job' = [job EXCEPT ![s] = again]
    BY <1>1, <1>4, JobKnows DEF SweepTakes, JobGood, Idle
  <2>2. /\ rest.pc = "sweep" /\ left.pc = "abandon" /\ again.pc = "claim"
        /\ rest.row = None /\ rest.target = None
        /\ \A b \in {left, again} : b.row = r /\ b.target = r
        /\ \A b \in {rest, left, again} :
               b.batch = job[s].batch \ {r} /\ b.doomed = job[s].doomed \ {r} /\ b.home = "sweep"
    BY DEF NoJob
  <2> HIDE DEF rest, left, again
  <2>3. /\ \A q \in Rows : Claims(rest, q) \/ Claims(left, q) => Claims(job[s], q)
        /\ r \notin job[s].doomed => \A q \in Rows : Claims(again, q) => Claims(job[s], q)
    BY <1>1, <2>1, <2>2 DEF Claims
  <2>4. \A q \in Rows : Has(rest, q) \/ Has(left, q) \/ Has(again, q) => Has(job[s], q)
    BY <1>1, <2>1, <2>2 DEF Has
  <2> QED
    BY <1>2, <2>1, <2>2, <2>3, <2>4
<1>5. ASSUME NEW r \in Rows, ReembedTakes(s, r) PROVE AttemptInv(K)' /\ (FreshInv => FreshInv')
  <2> DEFINE rest == [NoJob EXCEPT !.pc = "resweep", !.home = "resweep",
                                   !.batch = job[s].batch \ {r}]
             b == [rest EXCEPT !.pc = "embed", !.row = r, !.target = r, !.text = mat[r].text]
  <2>1. /\ job' = [job EXCEPT ![s] = rest] \/ job' = [job EXCEPT ![s] = b]
        /\ r \in job[s].batch
    BY <1>5 DEF ReembedTakes
  <2>2. /\ rest.pc = "resweep" /\ rest.home = "resweep" /\ b.pc = "embed" /\ b.home = "resweep"
        /\ rest.row = None /\ rest.target = None /\ b.row = r /\ b.target = r
        /\ rest.batch = job[s].batch \ {r} /\ b.batch = job[s].batch \ {r}
    BY DEF NoJob
  <2>3. \A q \in Rows : mat'[q].tries = mat[q].tries /\ (q = r \/ mat'[q] = mat[q])
    BY <1>1, <1>5 DEF ReembedTakes, RowType
  <2> HIDE DEF rest, b
  <2>4. \A q \in Rows : ~ Claims(rest, q) /\ ~ Claims(b, q)
    BY <2>2 DEF Claims
  <2>5. \A q \in Rows : /\ Has(rest, q) \/ Has(b, q) => Has(job[s], q)
                        /\ Has(job[s], q) \/ mat'[q] = mat[q]
    BY <1>1, <2>1, <2>2, <2>3 DEF Has
  <2> QED
    BY <1>2, <2>1, <2>2, <2>3, <2>4, <2>5
<1>6. CASE ReembedScans(s) \/ SweepEnds(s)
  <2> DEFINE b == [NoJob EXCEPT !.pc = "resweep", !.home = "resweep", !.batch = StrandedReembeds]
  <2>1. mat' = mat /\ (job' = [job EXCEPT ![s] = b] \/ job' = [job EXCEPT ![s] = NoJob])
    BY <1>6 DEF ReembedScans, SweepEnds
  <2>2. /\ b.pc = "resweep" /\ b.home = "resweep" /\ b.row = None /\ b.target = None
        /\ b.batch = StrandedReembeds
        /\ NoJob.pc = "free" /\ NoJob.home = "free" /\ NoJob.row = None /\ NoJob.target = None
        /\ NoJob.batch = {}
    BY DEF NoJob
  <2> HIDE DEF b, NoJob
  <2>3. \A q \in Rows : ~ Claims(b, q) /\ ~ Claims(NoJob, q) /\ ~ Has(NoJob, q)
                        /\ (Has(b, q) => ~ Untouched(mat[q]))
    BY <1>1, <2>2 DEF Claims, Has, StrandedReembeds, Lapsed, Untouched
  <2> QED
    BY <1>2, <2>1, <2>2, <2>3
<1> QED
  BY <1>3, <1>4, <1>5, <1>6 DEF Sweep, SweepGoesOn

\* A dead job claims nothing.
LEMMA DieCounts ==
    ASSUME MaterialConstants, IndInv, NEW K, K \subseteq Jobs, IsFiniteSet(K), AttemptInv(K),
           NEW j \in Jobs, Die(j)
    PROVE  AttemptInv(K)' /\ (FreshInv => FreshInv')
<1>1. /\ NoJob.pc = "free" /\ NoJob.home = "free" /\ NoJob.row = None /\ NoJob.target = None
      /\ NoJob.batch = {} /\ None \notin Rows
  BY DEF NoJob, MaterialConstants
<1>2. mat' = mat /\ job' = [job EXCEPT ![j] = NoJob]
  BY DEF Die
<1> HIDE DEF NoJob
<1>3. Shape(j, NoJob) /\ \A s \in Rows : ~ Claims(NoJob, s) /\ ~ Has(NoJob, s)
  BY <1>1 DEF Shape, Claims, Has
<1>4. AttemptInv(K)'
  BY <1>2, <1>3, CountStep
<1> QED
  BY <1>1, <1>2, <1>3, <1>4, FreshStep

\* Time, deletions and renewals count nothing, and leave an untouched row with its request.
LEMMA RowCounts ==
    ASSUME MaterialConstants, IndInv, NEW K, K \subseteq Jobs, IsFiniteSet(K), AttemptInv(K),
           NEW r \in Rows, Delete(r) \/ LeaseLapses(r) \/ GoesUnclaimed(r)
                           \/ \E j \in Jobs : Renew(j) /\ r = job[j].target
    PROVE  AttemptInv(K)' /\ (FreshInv => FreshInv')
<1>1. job' = job /\ mat \in [Rows -> RowType]
  BY DEF Delete, LeaseLapses, GoesUnclaimed, Renew, IndInv, TypeOK
<1>2. mat' = [mat EXCEPT ![r].del = TRUE] \/ \E l : mat' = [mat EXCEPT ![r].lease = l]
  BY DEF Delete, LeaseLapses, GoesUnclaimed, Renew
<1>3. /\ \A s \in Rows : mat'[s].tries = mat[s].tries
      /\ \A s \in Rows \ {r} : mat'[s] = mat[s]
      /\ mat'[r].st = mat[r].st /\ mat'[r].sum = mat[r].sum
  BY <1>1, <1>2 DEF RowType
<1>4. AttemptInv(K)'
  BY <1>1, <1>3 DEF AttemptInv, Counted, Claimants
<1>5. ASSUME FreshInv PROVE FreshInv'
  <2> SUFFICES ASSUME NEW j \in Requests, job[j].pc = "claim"
               PROVE  Untouched(mat'[job[j].row]) /\ mat'[job[j].row].tries = 0
    BY <1>1, <1>5 DEF FreshInv, Untouched
  <2>1. /\ j \in Jobs /\ job[j].row \in Rows /\ Untouched(mat[job[j].row])
        /\ mat[job[j].row].tries = 0
    BY <1>5, JobRows DEF FreshInv, Jobs, Busy
  <2>2. ASSUME job[j].row = r PROVE mat'[r].lease = mat[r].lease
    <3>1. CASE Delete(r)
      BY <1>1, <3>1 DEF Delete, RowType
    <3>2. ~ LeaseLapses(r)
      BY <2>1, <2>2 DEF LeaseLapses, Untouched
    <3>3. ~ GoesUnclaimed(r)
      BY <2>1, <2>2 DEF GoesUnclaimed
    <3>4. ASSUME NEW k \in Jobs, Renew(k), r = job[k].target PROVE FALSE
      <4>1. k # j /\ Has(job[k], r)
        BY <3>4 DEF Renew, Has
      <4> QED
        BY <1>5, <2>2, <4>1 DEF FreshInv
    <3> QED
      BY <3>1, <3>2, <3>3, <3>4
  <2> QED
    BY <1>3, <2>1, <2>2 DEF Untouched
<1> QED
  BY <1>4, <1>5

\* Every step counts right.
LEMMA NextCounts ==
    ASSUME MaterialConstants, IndInv, NEW K, K \subseteq Jobs, IsFiniteSet(K), AttemptInv(K),
           K = Jobs \/ (K = Sweepers /\ FreshInv /\ ~ MayReupload), [Next]_vars
    PROVE  AttemptInv(K)' /\ (FreshInv /\ ~ MayReupload => FreshInv')
<1>1. CASE UNCHANGED vars
  BY <1>1 DEF vars, AttemptInv, Counted, Claimants, FreshInv, Untouched
<1>2. ASSUME NEW j \in Jobs, Work(j) PROVE AttemptInv(K)' /\ (FreshInv /\ ~ MayReupload => FreshInv')
  BY <1>2, ClaimCounts, ReclaimCounts, WorkCounts
<1>3. ASSUME NEW j \in Jobs, Renew(j)
      PROVE  AttemptInv(K)' /\ (FreshInv /\ ~ MayReupload => FreshInv')
  <2>1. job[j].target \in Rows
    BY <1>3, JobRows DEF Renew, Busy
  <2> QED
    BY <1>3, <2>1, RowCounts
<1> QED
  BY <1>1, <1>2, <1>3, RequestCounts, SweepCounts, DieCounts, RowCounts DEF Next

\* Nothing counts at the start.
LEMMA InitCounts ==
    ASSUME MaterialConstants, Init, NEW K, K \subseteq Jobs
    PROVE  AttemptInv(K) /\ FreshInv
<1>1. /\ NoRow.tries = 0 /\ NoJob.pc = "free" /\ NoJob.home = "free" /\ NoJob.batch = {}
  BY DEF NoRow, NoJob
<1>2. (\A j \in Jobs : job[j] = NoJob) /\ \A r \in Rows : mat[r] = NoRow
  BY DEF Init
<1> HIDE DEF NoJob, NoRow
<1>3. \A j \in Jobs : Shape(j, job[j])
  BY <1>1, <1>2 DEF Shape
<1>4. ASSUME NEW r \in Rows PROVE Counted(K, r)
  <2>1. Claimants(K, r) = {}
    BY <1>1, <1>2 DEF Claimants, Claims
  <2> QED
    BY <1>1, <1>2, <2>1 DEF Counted
<1>5. FreshInv
  BY <1>1, <1>2 DEF FreshInv, Jobs
<1> QED
  BY <1>3, <1>4, <1>5 DEF AttemptInv

\* No file is tried more than n times.
TriedAtMost(n) == \A r \in Rows : mat[r].tries <= n

\* What the count comes to.
LEMMA CountBound ==
    ASSUME MaterialConstants, IndInv, NEW K, IsFiniteSet(K), AttemptInv(K), NEW r \in Rows
    PROVE  mat[r].tries <= 1 \/ mat[r].tries <= MaxAttempts - 1 + Cardinality(K)
<1>1. Claimants(K, r) \subseteq K
  BY DEF Claimants
<1>2. Cardinality(Claimants(K, r)) \in Nat /\ Cardinality(K) \in Nat
  BY <1>1, ClaimantsCount
<1>3. mat[r].tries \in Nat /\ MaxAttempts \in Nat \ {0}
  BY DEF IndInv, TypeOK, RowType, MaterialConstants
<1> QED
  BY <1>2, <1>3 DEF AttemptInv, Counted

\* However long a step outlasts its lease, whatever crashes, however often a busy extractor gives
\* a row back and whatever bytes are uploaded again: a file is tried MAX_EXTRACTION_ATTEMPTS
\* times, and once more at most for each job beside the one that tries it.
THEOREM AttemptsOfAllTheorem ==
    ASSUME IsFiniteSet(Jobs), Jobs # {}
    PROVE  Spec => []TriedAtMost(MaxAttempts - 1 + Cardinality(Jobs))
<1>1. Init => IndInv /\ AttemptInv(Jobs)
  BY InitInd, InitCounts, MaterialConstants
<1>2. IndInv /\ AttemptInv(Jobs) /\ [Next]_vars => (IndInv /\ AttemptInv(Jobs))'
  BY NextInd, NextCounts, MaterialConstants
<1>3. IndInv /\ AttemptInv(Jobs) => TriedAtMost(MaxAttempts - 1 + Cardinality(Jobs))
  <2>1. Cardinality(Jobs) \in Nat \ {0}
    BY FS_CardinalityType, FS_EmptySet
  <2>2. MaxAttempts \in Nat \ {0} /\ (IndInv => \A r \in Rows : mat[r].tries \in Nat)
    BY MaterialConstants DEF IndInv, TypeOK, RowType, MaterialConstants
  <2>3. 1 <= MaxAttempts - 1 + Cardinality(Jobs)
    BY <2>1, <2>2
  <2> QED
    BY <2>1, <2>2, <2>3, CountBound, MaterialConstants DEF TriedAtMost
<1> QED
  BY <1>1, <1>2, <1>3, PTL DEF Spec

\* Where no bytes are uploaded again requests do not count: it is one more at most for each
\* sweep under way, of one instance or of several, beside the first, however many uploads there
\* are and even where steps outlast their leases.
THEOREM AttemptsTheorem ==
    ASSUME ~ MayReupload, IsFiniteSet(Sweepers), Sweepers # {}
    PROVE  Spec => []AttemptsBounded
<1>1. Sweepers \subseteq Jobs
  BY DEF Jobs
<1>2. Init => IndInv /\ AttemptInv(Sweepers) /\ FreshInv
  BY <1>1, InitInd, InitCounts, MaterialConstants
<1>3. IndInv /\ AttemptInv(Sweepers) /\ FreshInv /\ [Next]_vars
          => (IndInv /\ AttemptInv(Sweepers) /\ FreshInv)'
  BY <1>1, NextInd, NextCounts, MaterialConstants
<1>4. IndInv /\ AttemptInv(Sweepers) => AttemptsBounded
  <2>1. Cardinality(Sweepers) \in Nat \ {0}
    BY FS_CardinalityType, FS_EmptySet
  <2>2. MaxAttempts \in Nat \ {0} /\ (IndInv => \A r \in Rows : mat[r].tries \in Nat)
    BY MaterialConstants DEF IndInv, TypeOK, RowType, MaterialConstants
  <2> QED
    BY <2>1, <2>2, CountBound, MaterialConstants DEF AttemptsBounded
<1> QED
  BY <1>2, <1>3, <1>4, PTL DEF Spec

-----------------------------------------------------------------------------
(* What a sweep takes from under a worker.                                 *)

\* A row whose attempts are spent: none is under way unless it is one too many.
Spent(m) ==
    /\ m.sum # None
    /\ \/ m.tries > MaxAttempts
       \/ m.tries = MaxAttempts /\ m.sum \in Files /\ m.lease # "live"

\* Job record b is to give row r up.
Dooms(b, r) == r \in b.doomed \/ (b.pc = "abandon" /\ b.row = r)

CutInv ==
    /\ \A j \in Jobs, r \in Rows : Dooms(job[j], r) => Spent(mat[r])
    /\ OnlyExtraAttemptsAreCut

\* A step after which spent rows are spent and taken ones beyond the ceiling.
Spares ==
    \A s \in Rows : /\ Spent(mat[s]) => Spent(mat'[s])
                    /\ mat'[s].taken => mat'[s].tries > MaxAttempts

\* Such a step of job j, which condemns no row that is not spent.
LEMMA CutStep ==
    ASSUME CutInv, job \in [Jobs -> JobType], Spares,
           NEW j \in Jobs, NEW b, job' = [job EXCEPT ![j] = b],
           \A s \in Rows : Dooms(b, s) => Dooms(job[j], s) \/ Spent(mat'[s])
    PROVE  CutInv'
<1>1. job'[j] = b /\ \A k \in Jobs : k # j => job'[k] = job[k]
  OBVIOUS
<1>2. \A k \in Jobs, s \in Rows : Dooms(job'[k], s) => Spent(mat'[s])
  BY <1>1 DEF CutInv, Spares
<1> QED
  BY <1>2 DEF CutInv, Spares, Spent, OnlyExtraAttemptsAreCut

\* A write that neither gives a lease to a row whose text is not known, unless it counts an
\* attempt, nor takes the row.
LEMMA RowSpares ==
    ASSUME MaterialConstants, IndInv, CutInv, NEW r \in Rows, NEW m, mat' = [mat EXCEPT ![r] = m],
           m.tries \in Nat, m.tries >= mat[r].tries, m.sum = mat[r].sum,
           \/ m.tries > mat[r].tries \/ m.lease # "live"
           \/ mat[r].lease = "live" \/ mat[r].sum \in Texts,
           m.taken => mat[r].taken
    PROVE  Spares
<1>1. /\ mat[r].tries \in Nat /\ MaxAttempts \in Nat /\ Files \cap Texts = {}
      /\ mat'[r] = m /\ \A s \in Rows \ {r} : mat'[s] = mat[s]
  BY DEF IndInv, TypeOK, RowType, MaterialConstants
<1>2. Spent(mat[r]) => Spent(m)
  BY <1>1 DEF Spent
<1>3. m.taken => m.tries > MaxAttempts
  BY <1>1 DEF CutInv, OnlyExtraAttemptsAreCut
<1> QED
  BY <1>1, <1>2, <1>3 DEF Spares, CutInv, OnlyExtraAttemptsAreCut

\* A step that writes no row.
LEMMA QuietSpares == CutInv /\ mat' = mat => Spares
BY DEF Spares, CutInv, OnlyExtraAttemptsAreCut

\* A run that promotes its row has the lease of it, or the row was taken in an attempt past the
\* ceiling: had its attempts been spent before, nobody would be at work.
LEMMA PromoteSpares ==
    ASSUME MaterialConstants, IndInv, OwnInv, CutInv, NEW j \in Jobs, Promote(j)
    PROVE  Spares
<1> DEFINE r == job[j].row
           m == mat'[r]
<1>1. /\ r \in Rows /\ mat[r] \in RowType /\ job[j].text \in Texts /\ None \notin Texts
      /\ MaxAttempts \in Nat
  BY JobKnows, RowKnows DEF Promote, JobGood, Busy, MaterialConstants
<1>2. /\ m.tries = mat[r].tries /\ m.taken = mat[r].taken /\ m.sum = job[j].text
      /\ \A s \in Rows \ {r} : mat'[s] = mat[s]
  BY <1>1 DEF Promote, IndInv, TypeOK, RowType
<1>3. Held(mat[r])
  BY <1>1 DEF OwnInv, Owned, Promote
<1>4. Spent(mat[r]) => mat[r].tries > MaxAttempts
  BY <1>1, <1>3 DEF Held, Spent, CutInv, OnlyExtraAttemptsAreCut
<1>5. Spent(mat[r]) => Spent(m)
  BY <1>1, <1>2, <1>4 DEF Spent
<1> QED
  BY <1>1, <1>2, <1>5 DEF Spares, CutInv, OnlyExtraAttemptsAreCut

\* A sweep that fails a row under a live lease cuts an attempt past the ceiling.
LEMMA FailSpares ==
    ASSUME MaterialConstants, IndInv, OwnInv, CutInv, NEW j \in Jobs, Fail(j)
    PROVE  Spares
<1> DEFINE r == job[j].target
           m(tk) == [mat[r] EXCEPT !.st = "FAILED", !.reason = TRUE, !.lease = "none",
                                   !.taken = tk]
<1>1. /\ r \in Rows /\ mat \in [Rows -> RowType] /\ mat[r] \in RowType /\ MaxAttempts \in Nat
      /\ job[j].pc = "abandon" => job[j].row = r
  BY JobKnows, RowKnows
  DEF Fail, JobGood, Busy, MaterialConstants, IndInv, TypeOK, OwnInv, Shape
<1>2. job[j].pc = "abandon" /\ mat[r].lease = "live" => mat[r].tries > MaxAttempts
  BY <1>1 DEF CutInv, Dooms, Spent
<1>3. ASSUME NEW tk \in BOOLEAN, mat' = [mat EXCEPT ![r] = m(tk)],
             tk => mat[r].taken \/ (job[j].pc = "abandon" /\ mat[r].lease = "live")
      PROVE  Spares
  <2>1. /\ m(tk).tries = mat[r].tries /\ m(tk).sum = mat[r].sum /\ m(tk).lease = "none"
        /\ m(tk).taken = tk
    BY <1>1 DEF RowType
  <2> HIDE DEF m
  <2>2. mat'[r] = m(tk) /\ \A s \in Rows \ {r} : mat'[s] = mat[s]
    BY <1>1, <1>3
  <2>3. mat'[r].taken => mat'[r].tries > MaxAttempts
    BY <1>1, <1>2, <1>3, <2>1, <2>2 DEF CutInv, OnlyExtraAttemptsAreCut
  <2>4. Spent(mat[r]) => Spent(mat'[r])
    BY <2>1, <2>2 DEF Spent
  <2> QED
    BY <1>1, <2>2, <2>3, <2>4 DEF Spares, CutInv, OnlyExtraAttemptsAreCut
<1>4. \/ UNCHANGED mat
      \/ \E tk \in BOOLEAN :
            /\ tk = (mat[r].taken \/ (job[j].pc = "abandon" /\ mat[r].lease = "live"))
            /\ mat' = [mat EXCEPT ![r] = m(tk)]
  BY <1>1, FailWrites
<1> HIDE DEF m
<1> QED
  BY <1>3, <1>4, QuietSpares

\* The claims of a row whose text is known, and of one that spends an attempt.
LEMMA ClaimsSpare ==
    ASSUME MaterialConstants, IndInv, CutInv, NEW j \in Jobs,
           Claim(j) \/ ReprocessClaims(j) \/ RestoreClaims(j) \/ RetryClaims(j)
    PROVE  Spares
<1>1. CASE mat' = mat
  BY <1>1, QuietSpares
<1>2. CASE Claim(j) /\ mat' # mat
  <2> DEFINE r == job[j].row
             m == [mat[r] EXCEPT !.lease = "live", !.tries = @ + 1]
  <2>1. r \in Rows /\ mat \in [Rows -> RowType] /\ mat[r] \in RowType
    BY <1>2, JobKnows DEF Claim, JobGood, Busy, IndInv, TypeOK
  <2>2. mat' = [mat EXCEPT ![r] = m]
    BY <1>2, <2>1 DEF Claim
  <2>3. /\ mat[r].tries \in Nat /\ m.tries = mat[r].tries + 1 /\ m.sum = mat[r].sum
        /\ m.taken = mat[r].taken
    BY <2>1 DEF RowType
  <2> HIDE DEF m
  <2>4. m.tries \in Nat /\ m.tries >= mat[r].tries /\ m.tries > mat[r].tries
    BY <2>3
  <2> QED
    BY <2>1, <2>2, <2>3, <2>4, RowSpares
<1>3. CASE (ReprocessClaims(j) \/ RestoreClaims(j) \/ RetryClaims(j)) /\ mat' # mat
  <2> DEFINE r == job[j].target
             a == [mat[r] EXCEPT !.st = "PROCESSING", !.reason = FALSE, !.lease = "live"]
             b == Restored(j, r)
             c == [Restored(j, r) EXCEPT !.del = FALSE]
  <2>1. /\ r \in Rows /\ mat \in [Rows -> RowType] /\ mat[r] \in RowType /\ mat[r].sum \in Texts
        /\ job[j].pc = "reprocess" => r = job[j].row
    BY <1>3, TargetHasText DEF ReprocessClaims, RestoreClaims, RetryClaims, IndInv, TypeOK
  <2>2. mat' \in {[mat EXCEPT ![r] = a], [mat EXCEPT ![r] = b], [mat EXCEPT ![r] = c]}
    <3>1. CASE ReprocessClaims(j)
      <4> DEFINE q == job[j].row
      <4>1. mat' = [mat EXCEPT ![q].st = "PROCESSING", ![q].reason = FALSE, ![q].lease = "live"]
        BY <1>3, <3>1, Zenon DEF ReprocessClaims
      <4>2. q = r
        BY <2>1, <3>1 DEF ReprocessClaims
      <4>3. mat' = [mat EXCEPT ![r] = a]
        BY <2>1, <4>1, <4>2
      <4> HIDE DEF a
      <4> QED
        BY <4>3
    <3>2. CASE RestoreClaims(j) \/ RetryClaims(j)
      BY <1>3, <3>2, Zenon DEF RestoreClaims, RetryClaims
    <3> QED
      BY <1>3, <3>1, <3>2
  <2>3. \A m \in {a, b, c} :
            m.tries = mat[r].tries /\ m.sum = mat[r].sum /\ m.taken = mat[r].taken
    <3>1. a.tries = mat[r].tries /\ a.sum = mat[r].sum /\ a.taken = mat[r].taken
      BY <2>1 DEF RowType
    <3>2. b.tries = mat[r].tries /\ b.sum = mat[r].sum /\ b.taken = mat[r].taken
      BY <2>1 DEF Restored, RowType
    <3>3. c.tries = b.tries /\ c.sum = b.sum /\ c.taken = b.taken
      BY <2>1 DEF Restored, RowType
    <3> QED
      BY <3>1, <3>2, <3>3
  <2>4. mat[r].tries \in Nat /\ mat[r].tries >= mat[r].tries
    BY <2>1 DEF RowType
  <2> HIDE DEF a, b, c
  <2>5. ASSUME NEW m \in {a, b, c}, mat' = [mat EXCEPT ![r] = m] PROVE Spares
    <3>1. m.tries \in Nat /\ m.tries >= mat[r].tries /\ m.sum = mat[r].sum
          /\ (m.taken => mat[r].taken)
      BY <2>3, <2>4
    <3> QED
      BY <2>1, <2>5, <3>1, RowSpares
  <2> QED
    BY <2>2, <2>5
<1> QED
  BY <1>1, <1>2, <1>3

\* The writes of a run that end its lease or leave it alone.
LEMMA SettleSpares ==
    ASSUME MaterialConstants, IndInv, CutInv, NEW j \in Jobs,
           ExtractBusy(j) \/ Embed(j) \/ Ready(j) \/ Discard(j)
    PROVE  Spares
<1>1. CASE mat' = mat
  BY <1>1, QuietSpares
<1>2. CASE ExtractBusy(j)
  <2> DEFINE r == job[j].row
  <2>1. r \in Rows /\ mat[r] \in RowType
    BY <1>2, JobKnows, RowKnows DEF ExtractBusy, JobGood, Busy
  <2>2. /\ Released(r).tries = mat[r].tries /\ Released(r).sum = mat[r].sum
        /\ Released(r).lease = "past" /\ Released(r).taken = mat[r].taken
        /\ mat[r].tries \in Nat /\ mat[r].tries >= mat[r].tries
    BY <2>1 DEF Released, RowType
  <2>3. mat' = [mat EXCEPT ![r] = Released(r)]
    BY <1>2 DEF ExtractBusy
  <2> QED
    BY <2>1, <2>2, <2>3, RowSpares
<1>3. CASE (Embed(j) \/ Ready(j) \/ Discard(j)) /\ mat' # mat
  <2> DEFINE r == job[j].target
             a == [mat[r] EXCEPT !.chunks = job[j].text]
             b == [mat[r] EXCEPT !.st = "READY", !.reason = FALSE, !.lease = "none"]
             c == [mat[r] EXCEPT !.blob = None]
  <2>1. r \in Rows /\ mat \in [Rows -> RowType] /\ mat[r] \in RowType
    BY <1>3, JobKnows DEF Embed, Ready, Discard, JobGood, Busy, IndInv, TypeOK
  <2>2. mat' \in {[mat EXCEPT ![r] = a], [mat EXCEPT ![r] = b], [mat EXCEPT ![r] = c]}
    <3>1. CASE Embed(j)
      BY <2>1, <3>1 DEF Embed
    <3>2. CASE Ready(j)
      BY <2>1, <3>2 DEF Ready
    <3>3. CASE Discard(j)
      BY <1>3, <2>1, <3>3 DEF Discard
    <3> QED
      BY <1>3, <3>1, <3>2, <3>3
  <2>3. \A m \in {a, b, c} :
            /\ m.tries = mat[r].tries /\ m.sum = mat[r].sum /\ m.taken = mat[r].taken
            /\ m.lease \in {mat[r].lease, "none"}
    <3>1. /\ a.tries = mat[r].tries /\ a.sum = mat[r].sum /\ a.taken = mat[r].taken
          /\ a.lease = mat[r].lease
      BY <2>1 DEF RowType
    <3>2. /\ b.tries = mat[r].tries /\ b.sum = mat[r].sum /\ b.taken = mat[r].taken
          /\ b.lease = "none"
      BY <2>1 DEF RowType
    <3>3. /\ c.tries = mat[r].tries /\ c.sum = mat[r].sum /\ c.taken = mat[r].taken
          /\ c.lease = mat[r].lease
      BY <2>1 DEF RowType
    <3> QED
      BY <3>1, <3>2, <3>3
  <2>4. mat[r].tries \in Nat /\ mat[r].tries >= mat[r].tries
    BY <2>1 DEF RowType
  <2> HIDE DEF a, b, c
  <2>5. ASSUME NEW m \in {a, b, c}, mat' = [mat EXCEPT ![r] = m] PROVE Spares
    <3>1. m.tries \in Nat /\ m.tries >= mat[r].tries /\ m.sum = mat[r].sum
          /\ (m.taken => mat[r].taken) /\ (m.lease # "live" \/ mat[r].lease = "live")
      BY <2>3, <2>4
    <3> QED
      BY <2>1, <2>5, <3>1, RowSpares
  <2> QED
    BY <2>2, <2>5
<1> QED
  BY <1>1, <1>2, <1>3

\* The writes of a receipt, which is a row without a lease or with the one it had.
LEMMA ReceiptSpares ==
    ASSUME MaterialConstants, IndInv, CutInv, NEW j \in Jobs, MarkReceipt(j) \/ FailReceipt(j)
    PROVE  Spares
<1>1. CASE mat' = mat
  BY <1>1, QuietSpares
<1>2. CASE mat' # mat
  <2> DEFINE r == job[j].row
             f == [mat[r] EXCEPT !.st = "FAILED"]
             g(res) == [f EXCEPT !.dup = job[j].target, !.lease = "none", !.res = res]
             h == [f EXCEPT !.dup = job[j].target, !.res = "RESTORED", !.reason = TRUE,
                            !.lease = "none"]
             Like(m) == /\ m.tries = mat[r].tries /\ m.sum = mat[r].sum
                        /\ m.taken = mat[r].taken /\ m.lease = "none"
  <2>1. r \in Rows /\ mat \in [Rows -> RowType] /\ mat[r] \in RowType
    BY JobKnows DEF MarkReceipt, FailReceipt, JobGood, Busy, IndInv, TypeOK
  <2>2. (\A res : Like(g(res))) /\ Like(h)
    BY <2>1 DEF RowType
  <2>3. \E m : Like(m) /\ mat' = [mat EXCEPT ![r] = m]
    <3>1. CASE MarkReceipt(j)
      <4> DEFINE res == IF job[j].pc = "restored" THEN "RESTORED" ELSE "EXISTING"
      <4>1. mat' = [mat EXCEPT ![r] = g(res)]
        BY <2>1, <3>1, Zenon DEF MarkReceipt
      <4> HIDE DEF g, h, res, Like
      <4> QED
        BY <2>2, <4>1
    <3>2. CASE FailReceipt(j)
      <4>1. mat' = [mat EXCEPT ![r] = h]
        BY <1>2, <2>1, <3>2, Zenon DEF FailReceipt
      <4> HIDE DEF g, h, Like
      <4> QED
        BY <2>2, <4>1
    <3> QED
      BY <3>1, <3>2
  <2>4. mat[r].tries \in Nat /\ mat[r].tries >= mat[r].tries
    BY <2>1 DEF RowType
  <2> HIDE DEF g, h
  <2> QED
    BY <2>1, <2>3, <2>4, RowSpares
<1> QED
  BY <1>1, <1>2

\* A statement of a run, where nothing is uploaded again.
LEMMA WorkCuts ==
    ASSUME MaterialConstants, IndInv, OwnInv, CutInv, ~ MayReupload, NEW j \in Jobs, Work(j)
    PROVE  CutInv'
<1>1. Spares
  <2>1. ~ Reclaim(j)
    BY DEF Reclaim, OwnInv, Shape
  <2>2. CASE \/ ExtractBusyUnwritten(j) \/ ExtractFails(j) \/ ExtractAndLookup(j)
             \/ PromoteLoses(j) \/ EmbedFails(j) \/ DbError(j)
    BY <2>2, QuietSpares DEF ExtractBusyUnwritten, ExtractFails, ExtractAndLookup,
       PromoteLoses, EmbedFails, DbError
  <2> QED
    BY <2>1, <2>2, ClaimsSpare, SettleSpares, ReceiptSpares, PromoteSpares, FailSpares DEF Work
<1>2. \E b : /\ job' = [job EXCEPT ![j] = b] /\ b.doomed = job[j].doomed
             /\ b.pc = "abandon" => FALSE
  <2>1. CASE Claim(j)
    <3>1. [job[j] EXCEPT !.pc = "extract"].pc = "extract"
          /\ [job[j] EXCEPT !.pc = "extract"].doomed = job[j].doomed
      BY JobKnows DEF JobType
    <3>2. Finished(j).pc # "abandon" /\ Finished(j).doomed = job[j].doomed
      BY JobKnows DEF Finished, NoJob, JobType, Idle
    <3> HIDE DEF Finished
    <3> QED
      BY <2>1, <3>1, <3>2 DEF Claim, Go, Finish
  <2>2. CASE ~ Claim(j) /\ ~ Reclaim(j)
    BY <2>2, WorkOnward
  <2> QED
    BY <2>1, <2>2 DEF Reclaim, OwnInv, Shape
<1> QED
  BY <1>1, <1>2, CutStep DEF Dooms, IndInv, TypeOK

\* A request condemns nothing, and the row it makes is new.
LEMMA RequestCuts ==
    ASSUME MaterialConstants, IndInv, CutInv, ~ MayReupload, NEW j \in Requests, Request(j)
    PROVE  CutInv'
<1>1. j \in Jobs /\ mat \in [Rows -> RowType] /\ job \in [Jobs -> JobType]
  BY DEF Jobs, IndInv, TypeOK
<1>2. NoJob.doomed = {} /\ NoRow.taken = FALSE
  BY DEF NoJob, NoRow
<1>3. ASSUME NEW r \in Rows, NEW f \in Files, UploadCreates(j, f, r) PROVE CutInv'
  <2> DEFINE m == [NoRow EXCEPT !.st = "PROCESSING", !.sum = f, !.blob = f]
             b == [NoJob EXCEPT !.pc = "claim", !.row = r, !.target = r, !.file = f]
  <2>1. mat' = [mat EXCEPT ![r] = m] /\ job' = [job EXCEPT ![j] = b] /\ mat[r].sum = None
    BY <1>3, RowKnows DEF UploadCreates, Stored, RowGood
  <2>2. m.taken = FALSE /\ b.pc = "claim" /\ b.doomed = {}
    BY DEF NoRow, NoJob
  <2> HIDE DEF m, b
  <2>3. mat'[r] = m /\ \A s \in Rows \ {r} : mat'[s] = mat[s]
    BY <1>1, <2>1
  <2>4. Spares
    BY <2>1, <2>2, <2>3 DEF Spares, Spent, CutInv, OnlyExtraAttemptsAreCut
  <2>5. \A s \in Rows : ~ Dooms(b, s)
    BY <2>2 DEF Dooms
  <2> QED
    BY <1>1, <2>1, <2>4, <2>5, CutStep
<1>4. ASSUME NEW r \in Rows, ReprocessReads(j, r) PROVE CutInv'
  <2> DEFINE b == [NoJob EXCEPT !.pc = "reprocess", !.row = r, !.target = r, !.text = mat[r].text]
  <2>1. mat' = mat /\ job' = [job EXCEPT ![j] = b] /\ b.pc = "reprocess" /\ b.doomed = {}
    BY <1>4 DEF ReprocessReads, NoJob
  <2> HIDE DEF b
  <2>2. \A s \in Rows : ~ Dooms(b, s)
    BY <2>1 DEF Dooms
  <2> QED
    BY <1>1, <2>1, <2>2, QuietSpares, CutStep
<1>5. \A r \in Rows, f \in Files : ~ UploadConflicts(j, f, r)
  BY DEF UploadConflicts
<1> QED
  BY <1>3, <1>4, <1>5 DEF Request

\* A scan condemns rows whose attempts are spent, and gives none a lease but those whose text is
\* known.
LEMMA SweepCuts ==
    ASSUME MaterialConstants, IndInv, CutInv, NEW s \in Sweepers, Sweep(s)
    PROVE  CutInv'
<1>1. s \in Jobs /\ mat \in [Rows -> RowType] /\ job \in [Jobs -> JobType]
  BY DEF Jobs, IndInv, TypeOK
<1>2. CASE SweepScans(s)
  <2> DEFINE b == [NoJob EXCEPT !.pc = "sweep", !.home = "sweep", !.batch = StrandedUploads,
                                !.doomed = Doomed]
  <2>1. job' = [job EXCEPT ![s] = b] /\ mat' = mat /\ b.pc = "sweep" /\ b.doomed = Doomed
    BY <1>2 DEF SweepScans, NoJob
  <2> HIDE DEF b
  <2>2. ASSUME NEW r \in Doomed PROVE Spent(mat[r])
    <3>1. r \in Rows /\ mat[r].sum \in Files /\ mat[r].lease # "live" /\ mat[r].sum # None
      BY MaterialConstants DEF Doomed, StrandedUploads, Pending, MaterialConstants
    <3>2. mat[r].tries \in Nat /\ MaxAttempts \in Nat /\ mat[r].tries >= MaxAttempts
      BY <1>1, <3>1 DEF Doomed, Exhausted, RowType, MaterialConstants
    <3> QED
      BY <3>1, <3>2 DEF Spent
  <2>3. \A r \in Rows : Dooms(b, r) => Spent(mat'[r])
    BY <2>1, <2>2 DEF Dooms
  <2> QED
    BY <1>1, <2>1, <2>3, QuietSpares, CutStep
<1>3. ASSUME NEW r \in Rows, SweepTakes(s, r) PROVE CutInv'
  <2> DEFINE rest == [NoJob EXCEPT !.pc = "sweep", !.home = "sweep", !.batch = job[s].batch \ {r},
                                   !.doomed = job[s].doomed \ {r}]
             work == [rest EXCEPT !.row = r, !.target = r]
             left == [work EXCEPT !.pc = "abandon"]
             again == [work EXCEPT !.pc = "claim", !.file = mat[r].blob]
  <2>1. /\ mat' = mat
        /\ \/ job' = [job EXCEPT ![s] = rest] \/ job' = [job EXCEPT ![s] = again]
           \/ r \in job[s].doomed /\ job' = [job EXCEPT ![s] = left]
    BY <1>3 DEF SweepTakes
  <2>2. /\ rest.pc = "sweep" /\ left.pc = "abandon" /\ again.pc = "claim" /\ left.row = r
        /\ \A b \in {rest, left, again} : b.doomed = job[s].doomed \ {r}
    BY DEF NoJob
  <2> HIDE DEF rest, left, again
  <2>3. /\ \A q \in Rows : Dooms(rest, q) \/ Dooms(again, q) => Dooms(job[s], q)
        /\ r \in job[s].doomed => \A q \in Rows : Dooms(left, q) => Dooms(job[s], q)
    BY <2>2 DEF Dooms
  <2> QED
    BY <1>1, <2>1, <2>3, QuietSpares, CutStep
<1>4. ASSUME NEW r \in Rows, ReembedTakes(s, r) PROVE CutInv'
  <2> DEFINE rest == [NoJob EXCEPT !.pc = "resweep", !.home = "resweep",
                                   !.batch = job[s].batch \ {r}]
             b == [rest EXCEPT !.pc = "embed", !.row = r, !.target = r, !.text = mat[r].text]
             m == [mat[r] EXCEPT !.lease = "live"]
  <2>1. /\ job' = [job EXCEPT ![s] = rest] \/ job' = [job EXCEPT ![s] = b]
        /\ mat' = mat \/ mat' = [mat EXCEPT ![r] = m]
    BY <1>1, <1>4 DEF ReembedTakes
  <2>2. rest.pc = "resweep" /\ b.pc = "embed" /\ rest.doomed = {} /\ b.doomed = {}
    BY DEF NoJob
  <2>3. mat[r].sum \in Texts
    BY <1>1, <1>4, JobKnows DEF ReembedTakes, JobGood, Idle
  <2>4. /\ m.tries = mat[r].tries /\ m.sum = mat[r].sum /\ m.taken = mat[r].taken
        /\ mat[r].tries \in Nat /\ mat[r].tries >= mat[r].tries
    BY <1>1 DEF RowType
  <2> HIDE DEF rest, b, m
  <2>5. Spares
    BY <2>1, <2>3, <2>4, RowSpares, QuietSpares
  <2>6. \A q \in Rows : ~ Dooms(rest, q) /\ ~ Dooms(b, q)
    BY <2>2 DEF Dooms
  <2> QED
    BY <1>1, <2>1, <2>5, <2>6, CutStep
<1>5. CASE ReembedScans(s) \/ SweepEnds(s)
  <2> DEFINE b == [NoJob EXCEPT !.pc = "resweep", !.home = "resweep", !.batch = StrandedReembeds]
  <2>1. mat' = mat /\ (job' = [job EXCEPT ![s] = b] \/ job' = [job EXCEPT ![s] = NoJob])
    BY <1>5 DEF ReembedScans, SweepEnds
  <2>2. b.pc = "resweep" /\ NoJob.pc = "free" /\ b.doomed = {} /\ NoJob.doomed = {}
    BY DEF NoJob
  <2> HIDE DEF b, NoJob
  <2>3. \A q \in Rows : ~ Dooms(b, q) /\ ~ Dooms(NoJob, q)
    BY <2>2 DEF Dooms
  <2> QED
    BY <1>1, <2>1, <2>3, QuietSpares, CutStep
<1> QED
  BY <1>2, <1>3, <1>4, <1>5 DEF Sweep, SweepGoesOn

\* Crashes, time, deletions, and renewals, which only a run that embeds makes.
LEMMA RowCuts ==
    ASSUME MaterialConstants, IndInv, CutInv,
           \/ \E r \in Rows : Delete(r) \/ LeaseLapses(r) \/ GoesUnclaimed(r)
           \/ \E j \in Jobs : Renew(j) \/ Die(j)
    PROVE  CutInv'
<1>1. mat \in [Rows -> RowType] /\ job \in [Jobs -> JobType]
  BY DEF IndInv, TypeOK
<1>2. ASSUME NEW j \in Jobs, Die(j) PROVE CutInv'
  <2>1. NoJob.pc = "free" /\ NoJob.doomed = {}
    BY DEF NoJob
  <2> HIDE DEF NoJob
  <2>2. \A s \in Rows : ~ Dooms(NoJob, s)
    BY <2>1 DEF Dooms
  <2> QED
    BY <1>1, <1>2, <2>2, QuietSpares, CutStep DEF Die
<1>3. ASSUME job' = job, Spares PROVE CutInv'
  BY <1>3 DEF Spares, CutInv, OnlyExtraAttemptsAreCut
<1>4. ASSUME NEW r \in Rows, NEW l, mat' = [mat EXCEPT ![r].lease = l], job' = job,
             l # "live" \/ mat[r].sum \in Texts
      PROVE  CutInv'
  <2> DEFINE m == [mat[r] EXCEPT !.lease = l]
  <2>1. mat' = [mat EXCEPT ![r] = m]
    BY <1>1, <1>4
  <2>2. /\ m.tries = mat[r].tries /\ m.sum = mat[r].sum /\ m.taken = mat[r].taken /\ m.lease = l
        /\ mat[r].tries \in Nat /\ mat[r].tries >= mat[r].tries
    BY <1>1 DEF RowType
  <2> HIDE DEF m
  <2> QED
    BY <1>3, <1>4, <2>1, <2>2, RowSpares
<1>5. ASSUME NEW r \in Rows, Delete(r) PROVE CutInv'
  <2> DEFINE m == [mat[r] EXCEPT !.del = TRUE]
  <2>1. mat' = [mat EXCEPT ![r] = m] /\ job' = job
    BY <1>1, <1>5 DEF Delete
  <2>2. /\ m.tries = mat[r].tries /\ m.sum = mat[r].sum /\ m.taken = mat[r].taken
        /\ m.lease = mat[r].lease
        /\ mat[r].tries \in Nat /\ mat[r].tries >= mat[r].tries
    BY <1>1 DEF RowType
  <2> HIDE DEF m
  <2> QED
    BY <1>3, <2>1, <2>2, RowSpares
<1>6. ASSUME NEW r \in Rows, LeaseLapses(r) \/ GoesUnclaimed(r) PROVE CutInv'
  BY <1>4, <1>6 DEF LeaseLapses, GoesUnclaimed
<1>7. ASSUME NEW j \in Jobs, Renew(j) PROVE CutInv'
  <2>1. job[j].target \in Rows /\ mat[job[j].target].sum \in Texts
    BY <1>7, JobKnows DEF Renew, JobGood, Busy
  <2> QED
    BY <1>4, <1>7, <2>1 DEF Renew
<1> QED
  BY <1>2, <1>5, <1>6, <1>7

\* Every step condemns only what is spent, and takes only what is past the ceiling.
LEMMA NextCut ==
    ASSUME MaterialConstants, IndInv, OwnInv, CutInv, ~ MayReupload, [Next]_vars
    PROVE  CutInv'
<1>1. CASE UNCHANGED vars
  BY <1>1 DEF vars, CutInv, Spent, OnlyExtraAttemptsAreCut
<1> QED
  BY <1>1, WorkCuts, RequestCuts, SweepCuts, RowCuts DEF Next

\* Nothing is condemned at the start.
LEMMA InitCut == Init => CutInv
<1> SUFFICES ASSUME Init PROVE CutInv
  OBVIOUS
<1>1. NoRow.taken = FALSE /\ NoJob.pc = "free" /\ NoJob.doomed = {}
  BY DEF NoRow, NoJob
<1>2. (\A j \in Jobs : job[j] = NoJob) /\ \A r \in Rows : mat[r] = NoRow
  BY DEF Init
<1> HIDE DEF NoRow, NoJob
<1> QED
  BY <1>1, <1>2 DEF CutInv, Dooms, OnlyExtraAttemptsAreCut

\* However many sweeps overlap, of one instance or of several, and however old their batches: when
\* one fails a row under the live lease of its worker, the attempt it cuts short is past
\* MAX_EXTRACTION_ATTEMPTS, if no step outlasts its lease and no bytes are uploaded again.
THEOREM CutTheorem ==
    ASSUME Slow = {}, ~ MayReupload
    PROVE  Spec => []OnlyExtraAttemptsAreCut
<1>1. Init => IndInv /\ OwnInv /\ CutInv
  BY InitInd, InitOwn, InitCut, MaterialConstants
<1>2. IndInv /\ OwnInv /\ CutInv /\ [Next]_vars => (IndInv /\ OwnInv /\ CutInv)'
  BY NextInd, NextOwn, NextCut, MaterialConstants
<1>3. CutInv => OnlyExtraAttemptsAreCut
  BY DEF CutInv
<1> QED
  BY <1>1, <1>2, <1>3, PTL DEF Spec
=============================================================================
