------------------------- MODULE MaterialExtraction -------------------------
(***************************************************************************)
(* The background half of a material upload in Core: the course_materials  *)
(* rows with their raw bytes and chunks, the in-process jobs that extract, *)
(* deduplicate and embed them, the sweeper that resumes what a dead        *)
(* process left behind, and the requests (upload, reprocess, delete) that  *)
(* act on the same rows.  One step is one statement or transaction of the  *)
(* database together with the computation before it.                       *)
(*                                                                         *)
(* A checksum is a member of Files while it is "pending:<hash of bytes>"   *)
(* and of Texts once it is the hash of the extracted text.  A lease is     *)
(* "none" (null), "unclaimed" (null, and the row untouched for a lease     *)
(* period), "live" or "past" (extractionLeaseUntil < now).  All rows are   *)
(* of one course: the unique index is on (courseId, checksum).             *)
(***************************************************************************)
EXTENDS Naturals, FiniteSets

CONSTANTS
    Rows,           \* ids of course_materials rows (the bound on them)
    Files,          \* uploads that differ in their bytes
    Texts,
    Text,           \* what extraction makes of each file
    Requests,       \* slots for jobs a request starts
    Sweepers,       \* slots for sweeps under way at once, in all instances
    MaxAttempts,    \* MAX_EXTRACTION_ATTEMPTS
    Slow,           \* what may outlast a lease: "extract" and "restore", which
                    \* nothing renews, "beat" where the heartbeat itself fails
    MayReupload,    \* users may upload bytes the course already has
    MaxUploads, MaxDeaths, MaxDeletes, MaxDbErrors,     \* bounds
    None

Jobs == Requests \cup Sweepers

ASSUME MaterialConstants ==
    /\ Text \in [Files -> Texts]
    /\ Files \cap Texts = {} /\ Requests \cap Sweepers = {}
    /\ None \notin Files \cup Texts \cup Rows
    /\ MaxAttempts \in Nat \ {0}
    /\ Slow \subseteq {"extract", "restore", "beat"} /\ MayReupload \in BOOLEAN
    /\ {MaxUploads, MaxDeaths, MaxDeletes, MaxDbErrors} \subseteq Nat

VARIABLES
    mat,    \* the rows, each with its blob and its chunks; the field taken is
            \* history, no column: a sweep has failed the row under a live lease
    job,    \* what each in-process job is doing
    spent   \* how much of each bound is used

vars == <<mat, job, spent>>

NoRow == [st |-> "none", sum |-> None, text |-> None, lease |-> "none",
          tries |-> 0, del |-> FALSE, dup |-> None, res |-> "none",
          reason |-> FALSE, blob |-> None, chunks |-> None, taken |-> FALSE]

\* home: where the job goes when its run ends ("free", or a phase of a sweep).
NoJob == [pc |-> "free", home |-> "free", row |-> None, target |-> None,
          file |-> None, text |-> None, batch |-> {}, doomed |-> {}]

Init ==
    /\ mat = [r \in Rows |-> NoRow]
    /\ job = [j \in Jobs |-> NoJob]
    /\ spent = [uploads |-> 0, deaths |-> 0, deletes |-> 0, errors |-> 0]

-----------------------------------------------------------------------------
(* The predicates of the statements' WHERE clauses.                        *)

Stored(r) == mat[r].st # "none"
Processing(r) == mat[r].st = "PROCESSING"
Pending(r) == mat[r].sum \in Files
Lapsed(r) == mat[r].lease = "past"

\* Mutant: the claim does not ask for the lease.
MutClaimable(r) == Processing(r)
\* claimExtraction
Claimable(r) == Processing(r) /\ mat[r].lease # "live"

\* Mutant: the checksum the row was found by is not restated.
MutReclaimable(r, f) == ~ Processing(r) \/ Lapsed(r)
\* reclaimProvisionalRow: file f, row r found a moment ago by its checksum
Reclaimable(r, f) == mat[r].sum = f /\ (~ Processing(r) \/ Lapsed(r))

\* claimRestoreTarget, its first statement
Restorable(r) == \/ mat[r].del /\ ~ Processing(r)
                 \/ Processing(r) /\ Lapsed(r)

\* classifyRestoreTarget
Classify(r) ==
    IF Processing(r)
    THEN CASE mat[r].lease = "live" -> "busy"
           [] Lapsed(r) -> "restore"
           [] OTHER -> "settled"
    ELSE IF mat[r].st = "FAILED" \/ mat[r].del THEN "restore" ELSE "settled"
\* Mutant: whether the lease has run out is not asked.
MutStrandedLive == {r \in Rows : Processing(r) /\ Pending(r) /\ mat[r].blob # None}
\* Mutant: rows nobody ever claimed are not looked for.
MutStrandedUploads ==
    {r \in Rows : Processing(r) /\ Pending(r) /\ Lapsed(r) /\ mat[r].blob # None}

\* The scan of sweepStrandedMaterialExtractions
StrandedUploads ==
    {r \in Rows : Processing(r) /\ Pending(r) /\ mat[r].blob # None
                  /\ mat[r].lease \in {"past", "unclaimed"}}

\* Mutant: as the first scan, the second wants a pending checksum.
MutStrandedReembeds ==
    {r \in Rows : Processing(r) /\ Lapsed(r) /\ Pending(r) /\ mat[r].text # None
                  /\ mat[r].blob = None}

\* The scan of resumeStrandedReembeds
StrandedReembeds ==
    {r \in Rows : Processing(r) /\ Lapsed(r) /\ mat[r].text # None
                  /\ mat[r].blob = None}

\* Mutant: one attempt too many.
MutExhausted(r) == mat[r].tries > MaxAttempts
Exhausted(r) == mat[r].tries >= MaxAttempts

\* Mutant: every exhausted row is given up, selected or not.
MutDoomed == {r \in Rows : Exhausted(r)}
\* The rows of the scan that are out of attempts.
Doomed == {r \in StrandedUploads : Exhausted(r)}

-----------------------------------------------------------------------------
(* Control of a job.                                                       *)

Go(j, pc) == job' = [job EXCEPT ![j].pc = pc]

\* Its run is over: a sweep goes on to the next row of its batch.
Finished(j) ==
    [NoJob EXCEPT !.pc = job[j].home, !.home = job[j].home, !.batch = job[j].batch,
                  !.doomed = job[j].doomed]
Finish(j) == job' = [job EXCEPT ![j] = Finished(j)]

Spend(what, bound) == spent[what] < bound /\ spent' = [spent EXCEPT ![what] = @ + 1]

-----------------------------------------------------------------------------
(* Requests.                                                               *)

\* uploadMaterial: the row and its bytes are one statement.
UploadCreates(j, f, r) ==
    /\ job[j].pc = "free" /\ Spend("uploads", MaxUploads)
    /\ ~ Stored(r) /\ \A s \in Rows : mat[s].sum # f
    /\ mat' = [mat EXCEPT ![r] = [NoRow EXCEPT !.st = "PROCESSING", !.sum = f, !.blob = f]]
    /\ job' = [job EXCEPT ![j] = [NoJob EXCEPT !.pc = "claim", !.row = r, !.target = r,
                                               !.file = f]]

\* The insert meets the unique index, and the row of that checksum is read.
UploadConflicts(j, f, r) ==
    /\ MayReupload
    /\ job[j].pc = "free" /\ Spend("uploads", MaxUploads)
    /\ mat[r].sum = f
    /\ job' = [job EXCEPT ![j] = [NoJob EXCEPT !.pc = "reclaim", !.row = r, !.target = r,
                                               !.file = f]]
    /\ UNCHANGED mat

\* reclaimProvisionalRow: row and bytes in one transaction, or a 409.
Reclaim(j) ==
    LET r == job[j].row f == job[j].file IN
    /\ job[j].pc = "reclaim" /\ UNCHANGED spent
    /\ \/ /\ Reclaimable(r, f)
          /\ mat' = [mat EXCEPT ![r] = [@ EXCEPT
                !.st = "PROCESSING", !.text = None, !.lease = "none", !.tries = 0,
                !.del = FALSE, !.dup = None, !.res = "none", !.reason = FALSE, !.blob = f]]
          /\ Go(j, "claim")
       \/ ~ Reclaimable(r, f) /\ Finish(j) /\ UNCHANGED mat

\* reprocessMaterial: the checks of a row read first ...
ReprocessReads(j, r) ==
    /\ job[j].pc = "free" /\ UNCHANGED <<mat, spent>>
    /\ mat[r].st = "FAILED" /\ ~ mat[r].del /\ mat[r].dup = None /\ mat[r].text # None
    /\ job' = [job EXCEPT ![j] = [NoJob EXCEPT !.pc = "reprocess", !.row = r, !.target = r,
                                               !.text = mat[r].text]]

\* ... and a claim that asks again only for the status.
ReprocessClaims(j) ==
    LET r == job[j].row IN
    /\ job[j].pc = "reprocess" /\ UNCHANGED spent
    /\ \/ /\ mat[r].st = "FAILED"
          /\ mat' = [mat EXCEPT ![r].st = "PROCESSING", ![r].reason = FALSE, ![r].lease = "live"]
          /\ Go(j, "embed")
       \/ mat[r].st # "FAILED" /\ Finish(j) /\ UNCHANGED mat

\* DELETE: a soft delete; it stops no job.
Delete(r) ==
    /\ Stored(r) /\ ~ mat[r].del /\ Spend("deletes", MaxDeletes)
    /\ mat' = [mat EXCEPT ![r].del = TRUE]
    /\ UNCHANGED job

-----------------------------------------------------------------------------
(* A run: extract, deduplicate, embed, settle.                             *)

\* claimExtraction
Claim(j) ==
    LET r == job[j].row IN
    /\ job[j].pc = "claim" /\ UNCHANGED spent
    /\ \/ /\ Claimable(r)
          /\ mat' = [mat EXCEPT ![r].lease = "live", ![r].tries = @ + 1]
          /\ Go(j, "extract")
       \/ ~ Claimable(r) /\ Finish(j) /\ UNCHANGED mat

\* Mutant: the bytes are dropped with the lease.
MutReleased(r) == [mat[r] EXCEPT !.st = "PROCESSING", !.reason = TRUE, !.lease = "past",
                                 !.blob = None]
\* releaseForRetry writes by id, whatever the row has become.
Released(r) == [mat[r] EXCEPT !.st = "PROCESSING", !.reason = TRUE, !.lease = "past"]

\* No extraction slot, or no image model: the row goes back to the sweeper.
ExtractBusy(j) ==
    /\ job[j].pc = "extract" /\ UNCHANGED spent
    /\ mat' = [mat EXCEPT ![job[j].row] = Released(job[j].row)]
    /\ Finish(j)

\* The write of releaseForRetry fails and is swallowed.
ExtractBusyUnwritten(j) ==
    /\ job[j].pc = "extract" /\ Spend("errors", MaxDbErrors)
    /\ Finish(j) /\ UNCHANGED mat

ExtractFails(j) ==
    /\ job[j].pc = "extract" /\ Go(j, "fail") /\ UNCHANGED <<mat, spent>>

\* Extraction ends, and another row of the same text is looked for.
ExtractAndLookup(j) ==
    LET t == Text[job[j].file]
        Then(pc, d) == [job EXCEPT ![j].text = t, ![j].pc = pc, ![j].target = d]
        Same == {d \in Rows \ {job[j].row} : mat[d].sum = t}
    IN
    /\ job[j].pc = "extract" /\ UNCHANGED <<mat, spent>>
    /\ \/ Same = {} /\ job' = Then("promote", job[j].row)
       \/ \E d \in Same :
            \/ Classify(d) = "busy" /\ Finish(j)
            \/ Classify(d) = "restore" /\ job' = Then("restore", d)
            \/ Classify(d) = "settled" /\ job' = Then("receipt", d)

\* The columns both statements of claimRestoreTarget reset.
Restored(j, r) ==
    [mat[r] EXCEPT !.st = "PROCESSING", !.dup = None, !.res = "none", !.reason = FALSE,
                   !.text = job[j].text, !.lease = "live"]

RestoreClaims(j) ==
    LET d == job[j].target IN
    /\ job[j].pc = "restore" /\ UNCHANGED spent
    /\ \/ /\ Restorable(d)
          /\ mat' = [mat EXCEPT ![d] = [Restored(j, d) EXCEPT !.del = FALSE]]
          /\ Go(j, "embed")
       \/ ~ Restorable(d) /\ Go(j, "retry") /\ UNCHANGED mat

\* The second statement of claimRestoreTarget: a live row that is FAILED.
RetryClaims(j) ==
    LET d == job[j].target IN
    /\ job[j].pc = "retry" /\ UNCHANGED spent
    /\ \/ /\ ~ mat[d].del /\ mat[d].st = "FAILED"
          /\ mat' = [mat EXCEPT ![d] = Restored(j, d)]
          /\ Go(j, "embed")
       \/ (mat[d].del \/ mat[d].st # "FAILED") /\ Finish(j) /\ UNCHANGED mat

\* The row takes the text and its checksum.  The write is by id.
Promote(j) ==
    LET r == job[j].row t == job[j].text IN
    /\ job[j].pc = "promote" /\ UNCHANGED spent
    /\ \A d \in Rows \ {r} : mat[d].sum # t
    /\ mat' = [mat EXCEPT ![r].sum = t, ![r].text = t, ![r].reason = FALSE]
    /\ Go(j, "embed")

\* The unique index refuses it: the row becomes a receipt of the winner.
PromoteLoses(j) ==
    /\ job[j].pc = "promote" /\ UNCHANGED <<mat, spent>>
    /\ \E d \in Rows \ {job[j].row} :
          /\ mat[d].sum = job[j].text
          /\ job' = [job EXCEPT ![j].target = d, ![j].pc = "receipt"]

\* withLeaseHeartbeat: a renewal that finds the lease lapsed or taken away.
Renew(j) ==
    LET r == job[j].target IN
    /\ job[j].pc = "embed" /\ Processing(r) /\ mat[r].lease # "live"
    /\ mat' = [mat EXCEPT ![r].lease = "live"]
    /\ UNCHANGED <<job, spent>>

\* processMaterialEmbeddings: one transaction replaces the chunks ...
Embed(j) ==
    /\ job[j].pc = "embed" /\ UNCHANGED spent
    /\ mat' = [mat EXCEPT ![job[j].target].chunks = job[j].text]
    /\ Go(j, "ready")

\* ... or nothing is written.
EmbedFails(j) ==
    /\ job[j].pc = "embed" /\ Go(j, "fail") /\ UNCHANGED <<mat, spent>>

Restoring(j) == job[j].target # job[j].row

\* A reprocess has no bytes to drop and no receipt to settle.
Ready(j) ==
    LET r == job[j].target IN
    /\ job[j].pc = "ready" /\ UNCHANGED spent
    /\ mat' = [mat EXCEPT ![r].st = "READY", ![r].reason = FALSE, ![r].lease = "none"]
    /\ \/ Restoring(j) /\ Go(j, "restored")
       \/ ~ Restoring(j) /\ job[j].file # None /\ Go(j, "discard")
       \/ job[j].file = None /\ Finish(j)

\* failMaterial: its update by id; a failed update is swallowed.
Fail(j) ==
    LET r == job[j].target IN
    /\ job[j].pc \in {"fail", "abandon"}
    /\ \/ /\ mat' = [mat EXCEPT ![r].st = "FAILED", ![r].reason = TRUE, ![r].lease = "none",
                  ![r].taken = @ \/ (job[j].pc = "abandon" /\ mat[r].lease = "live")]
          /\ UNCHANGED spent
       \/ UNCHANGED mat /\ Spend("errors", MaxDbErrors)
    /\ Go(j, "discard")

\* Mutant: a restore that failed falls through to the success receipt.
MutAfterDiscard(j) == IF Restoring(j) THEN "restored" ELSE "free"
AfterDiscard(j) == IF Restoring(j) THEN "failReceipt" ELSE "free"

\* discardUploadBlob: best effort.
Discard(j) ==
    /\ job[j].pc = "discard"
    /\ \/ mat' = [mat EXCEPT ![job[j].target].blob = None] /\ UNCHANGED spent
       \/ UNCHANGED mat /\ Spend("errors", MaxDbErrors)
    /\ \/ AfterDiscard(j) = "free" /\ Finish(j)
       \/ AfterDiscard(j) # "free" /\ Go(j, AfterDiscard(j))

\* markDuplicateReceipt: EXISTING for a settled winner, RESTORED for one this
\* job brought back.  failureCode is left as it is.
MarkReceipt(j) ==
    LET r == job[j].row IN
    /\ job[j].pc \in {"receipt", "restored"} /\ UNCHANGED spent
    /\ mat' = [mat EXCEPT ![r].st = "FAILED", ![r].dup = job[j].target, ![r].lease = "none",
                  ![r].res = IF job[j].pc = "restored" THEN "RESTORED" ELSE "EXISTING"]
    /\ job' = [job EXCEPT ![j].pc = "discard", ![j].target = r]

\* failRestoreReceipt: when the write fails the bytes are kept.
FailReceipt(j) ==
    LET r == job[j].row IN
    /\ job[j].pc = "failReceipt"
    /\ \/ /\ mat' = [mat EXCEPT ![r].st = "FAILED", ![r].dup = job[j].target,
                        ![r].res = "RESTORED", ![r].reason = TRUE, ![r].lease = "none"]
          /\ job' = [job EXCEPT ![j].pc = "discard", ![j].target = r]
          /\ UNCHANGED spent
       \/ UNCHANGED mat /\ Finish(j) /\ Spend("errors", MaxDbErrors)

\* A statement of the finalization throws: the catch fails the row at hand.
DbError(j) ==
    /\ Spend("errors", MaxDbErrors) /\ UNCHANGED mat
    /\ \/ /\ job[j].pc \in {"restore", "retry", "promote", "receipt", "restored"}
          /\ job' = [job EXCEPT ![j].pc = "fail", ![j].target = job[j].row]
       \/ job[j].pc = "ready" /\ Go(j, "fail")

-----------------------------------------------------------------------------
(* The sweeper.  The interval starts a sweep in its instance whatever has   *)
(* become of the earlier ones, there and elsewhere: none waits for another. *)

\* The scan; what it selects of a row is used later as it was then.
SweepScans(s) ==
    /\ job[s].pc = "free" /\ UNCHANGED <<mat, spent>>
    /\ job' = [job EXCEPT ![s] = [NoJob EXCEPT !.pc = "sweep", !.home = "sweep",
                                               !.batch = StrandedUploads, !.doomed = Doomed]]

\* The next row: abandoned, skipped because its bytes are gone, or resumed.
SweepTakes(s, r) ==
    LET rest == [NoJob EXCEPT !.pc = "sweep", !.home = "sweep", !.batch = job[s].batch \ {r},
                              !.doomed = job[s].doomed \ {r}]
        work == [rest EXCEPT !.row = r, !.target = r]
    IN
    /\ job[s].pc = "sweep" /\ r \in job[s].batch /\ UNCHANGED <<mat, spent>>
    /\ \/ r \in job[s].doomed /\ job' = [job EXCEPT ![s] = [work EXCEPT !.pc = "abandon"]]
       \/ /\ r \notin job[s].doomed /\ mat[r].blob = None
          /\ job' = [job EXCEPT ![s] = rest]
       \/ /\ r \notin job[s].doomed /\ mat[r].blob # None
          /\ job' = [job EXCEPT ![s] = [work EXCEPT !.pc = "claim", !.file = mat[r].blob]]

\* resumeStrandedReembeds scans when the first batch is done.
ReembedScans(s) ==
    /\ job[s].pc = "sweep" /\ job[s].batch = {} /\ UNCHANGED <<mat, spent>>
    /\ job' = [job EXCEPT ![s] = [NoJob EXCEPT !.pc = "resweep", !.home = "resweep",
                                               !.batch = StrandedReembeds]]

\* The conditional claim, then the row's text, which no one else rewrites.
ReembedTakes(s, r) ==
    LET rest == [NoJob EXCEPT !.pc = "resweep", !.home = "resweep",
                              !.batch = job[s].batch \ {r}] IN
    /\ job[s].pc = "resweep" /\ r \in job[s].batch /\ UNCHANGED spent
    /\ \/ /\ Processing(r) /\ Lapsed(r)
          /\ mat' = [mat EXCEPT ![r].lease = "live"]
          /\ job' = [job EXCEPT ![s] = [rest EXCEPT !.pc = "embed", !.row = r, !.target = r,
                                                    !.text = mat[r].text]]
       \/ /\ ~ (Processing(r) /\ Lapsed(r))
          /\ job' = [job EXCEPT ![s] = rest] /\ UNCHANGED mat

SweepEnds(s) ==
    /\ job[s].pc = "resweep" /\ job[s].batch = {}
    /\ job' = [job EXCEPT ![s] = NoJob]
    /\ UNCHANGED <<mat, spent>>

-----------------------------------------------------------------------------
(* Time and crashes.                                                       *)

\* Job j works on row r under r's lease: up to the promotion as the claim left
\* it, during the embedding under a heartbeat.
Extracts(j, r) ==
    job[j].row = r /\ job[j].pc \in {"extract", "promote", "restore", "retry", "receipt"}
Embeds(j, r) == job[j].target = r /\ job[j].pc \in {"embed", "ready", "fail"}
Holds(j, r) == Extracts(j, r) \/ Embeds(j, r)
\* Row r is to be the receipt of the restore j runs on another row.
Awaits(j, r) == job[j].row = r /\ Restoring(j) /\ ~ Extracts(j, r)

Covered(r) ==
    \E j \in Jobs : \/ Extracts(j, r) /\ "extract" \notin Slow
                    \/ Embeds(j, r) /\ "beat" \notin Slow
                    \/ Awaits(j, r) /\ "restore" \notin Slow

LeaseLapses(r) ==
    /\ Processing(r) /\ mat[r].lease = "live" /\ ~ Covered(r)
    /\ mat' = [mat EXCEPT ![r].lease = "past"]
    /\ UNCHANGED <<job, spent>>

\* A row nobody claimed for a whole lease period.
GoesUnclaimed(r) ==
    /\ Processing(r) /\ mat[r].lease = "none"
    /\ ~ \E j \in Jobs : job[j].row = r /\ job[j].pc = "claim"
    /\ mat' = [mat EXCEPT ![r].lease = "unclaimed"]
    /\ UNCHANGED <<job, spent>>

\* The process of job j dies.
Die(j) ==
    /\ job[j].pc # "free" /\ Spend("deaths", MaxDeaths)
    /\ job' = [job EXCEPT ![j] = NoJob]
    /\ UNCHANGED mat

Work(j) ==
    \/ Reclaim(j) \/ ReprocessClaims(j) \/ Claim(j)
    \/ ExtractBusy(j) \/ ExtractBusyUnwritten(j) \/ ExtractFails(j) \/ ExtractAndLookup(j)
    \/ RestoreClaims(j) \/ RetryClaims(j) \/ Promote(j) \/ PromoteLoses(j)
    \/ Embed(j) \/ EmbedFails(j) \/ Ready(j)
    \/ Fail(j) \/ Discard(j) \/ MarkReceipt(j) \/ FailReceipt(j) \/ DbError(j)

SweepGoesOn(s) ==
    \/ ReembedScans(s) \/ SweepEnds(s)
    \/ \E r \in Rows : SweepTakes(s, r) \/ ReembedTakes(s, r)

Sweep(s) == SweepScans(s) \/ SweepGoesOn(s)

Request(j) ==
    \E r \in Rows : \/ \E f \in Files : UploadCreates(j, f, r) \/ UploadConflicts(j, f, r)
                    \/ ReprocessReads(j, r)

Next ==
    \/ \E j \in Requests : Request(j)
    \/ \E s \in Sweepers : Sweep(s)
    \/ \E j \in Jobs : Work(j) \/ Renew(j) \/ Die(j)
    \/ \E r \in Rows : Delete(r) \/ LeaseLapses(r) \/ GoesUnclaimed(r)

Spec == Init /\ [][Next]_vars

\* Jobs and sweeps go on, time goes on, and some instance starts sweeps again
\* and again; how many of them are under way at a time is left open.
Fairness ==
    /\ \A j \in Jobs : WF_vars(Work(j))
    /\ \A s \in Sweepers : WF_vars(SweepGoesOn(s))
    /\ WF_vars(\E s \in Sweepers : SweepScans(s))
    /\ \A r \in Rows : WF_vars(LeaseLapses(r)) /\ WF_vars(GoesUnclaimed(r))

LiveSpec == Spec /\ Fairness

-----------------------------------------------------------------------------
(* Properties.                                                             *)

RowType ==
    [st : {"none", "PROCESSING", "READY", "FAILED"}, sum : Files \cup Texts \cup {None},
     text : Texts \cup {None}, lease : {"none", "unclaimed", "live", "past"}, tries : Nat,
     del : BOOLEAN, dup : Rows \cup {None}, res : {"none", "EXISTING", "RESTORED"},
     reason : BOOLEAN, blob : Files \cup {None}, chunks : Texts \cup {None},
     taken : BOOLEAN]

\* Where a job without a row is; where one with a row is.
Idle == {"free", "sweep", "resweep"}
Busy == {"reclaim", "reprocess", "claim", "extract", "promote", "restore", "retry", "receipt",
         "embed", "ready", "restored", "fail", "abandon", "discard", "failReceipt"}

JobType ==
    [pc : Idle \cup Busy, home : Idle, row : Rows \cup {None}, target : Rows \cup {None},
     file : Files \cup {None}, text : Texts \cup {None}, batch : SUBSET Rows,
     doomed : SUBSET Rows]

\* The rows and the jobs have their types, and a sweep gives up only rows it
\* selected.
TypeOK ==
    /\ mat \in [Rows -> RowType]
    /\ job \in [Jobs -> JobType]
    /\ \A j \in Jobs : job[j].doomed \subseteq job[j].batch
    /\ spent \in [{"uploads", "deaths", "deletes", "errors"} -> Nat]

\* No two jobs work on one row under its lease, unless a sweep has failed that
\* row from under a worker: what the conditional claims of claimExtraction,
\* claimRestoreTarget, reclaimProvisionalRow, reprocess and the sweeps are for
\* together, although no write after them is fenced.
OneWorkerPerRow ==
    \A r \in Rows : ~ mat[r].taken =>
        \A j, k \in Jobs : Holds(j, r) /\ Holds(k, r) => j = k

\* A READY material is one that chat can retrieve: it has its text, the checksum
\* of that text, and the chunks of that text, whichever path brought it there.
ReadyIsIndexed ==
    \A r \in Rows : mat[r].st = "READY" =>
        mat[r].text \in Texts /\ mat[r].sum = mat[r].text /\ mat[r].chunks = mat[r].text

\* The bytes of an upload outlive every crash: while its text is not known, a
\* PROCESSING row has something to run again from, unless a sweep has failed it
\* from under a worker.
BytesWhilePending ==
    \A r \in Rows : Processing(r) /\ Pending(r) /\ ~ mat[r].taken => mat[r].blob # None

\* MAX_EXTRACTION_ATTEMPTS is asked for by the scan and not by the claim.  Only
\* sweeps whose batches are older than the last attempt can pass the ceiling, each
\* once: by one for every sweep under way beside the first.
AttemptsBounded == \A r \in Rows : mat[r].tries < MaxAttempts + Cardinality(Sweepers)

\* A receipt the client shows as "restored" points at a material that has the
\* chunks of the text the two share.
RestoredIsIndexed ==
    \A r \in Rows : mat[r].res = "RESTORED" /\ ~ mat[r].reason =>
        mat[mat[r].dup].chunks = mat[mat[r].dup].sum

\* What a sweep takes from under a worker whose lease is live is an attempt past
\* the ceiling: a worker that is entitled to its attempt is left to finish it,
\* however old the batch of the sweep.
OnlyExtraAttemptsAreCut == \A r \in Rows : mat[r].taken => mat[r].tries > MaxAttempts

\* An upload whose text is not known yet does not stay so: it is promoted,
\* becomes a receipt, or fails; unless a sweep took it from under its worker
\* and dropped its bytes.
PendingUploadSettles ==
    \A r \in Rows : (Processing(r) /\ Pending(r))
        ~> \/ ~ (Processing(r) /\ Pending(r))
           \/ mat[r].taken /\ mat[r].blob = None

\* A re-embed without bytes (a retry, or a restore) whose worker died ends.
StrandedReembedSettles ==
    \A r \in Rows : (Processing(r) /\ ~ Pending(r) /\ mat[r].blob = None) ~> ~ Processing(r)

\* Every upload ends READY or FAILED.
EveryUploadSettles == \A r \in Rows : Processing(r) ~> ~ Processing(r)
=============================================================================
