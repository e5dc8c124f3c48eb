# EduAI Core: specifications and proofs

TLA+ models of the concurrent core of EduAI, checked with TLC and, where a
result should hold for every instance, proved with TLAPS. The models are written
from the TypeScript under `apps/core`; `PROJECT.json` maps each definition to
the lines it stands for. Paths below are relative to `apps/core/app/lib` unless
they start with a top-level directory of the repository.

## 1. Inventory

EduAI is a React Router server (Core) on PostgreSQL, usually run as one or more
web replicas plus one cron worker (`eduai-core.service`,
`eduai-cron-worker.service`). It talks to GPU hosts (vLLM, Ollama), to cloud
providers and to Canvas; the AI Tutor and the Question Maker are clients of it
with back ends of their own. There is no shared memory between processes: they
meet in the database, through conditional updates, row and advisory locks and
unique indexes. Inside a process, callbacks interleave at every `await`.

| Part | State it keeps | Operations | Talks to | What is hard | What makes it correct |
|---|---|---|---|---|---|
| Cron runs (`db.cron-jobs`, `cron-scheduler`) | `cron_job_runs` rows with status, owner and lease; per-process heartbeats, children, the set of dispatched ids | start (reap, find, insert), renew, terminate, finish, dispatch, boot | PostgreSQL, child scripts, in-process handlers | leases against crashes and late timers; two schedulers and a worker; late writes | one RUNNING row per job, terminal rows final, children of one job never overlap, no job blocked for ever |
| Material uploads (`materials/extraction-job`, `routes/api/courses.materials.$`) | `course_materials` rows, their raw bytes, chunks; in-process jobs; the batch of every sweep under way | upload, re-upload, reprocess, delete, claim, extract, promote, restore, embed, settle, release, two sweeps | PostgreSQL, extraction slots, embedding provider | writes by id after a conditional claim; deduplication under a unique index; crash between any two statements; sweeps that overlap, each with an old scan | READY means indexed, one worker per row, bytes kept while needed, every upload settles, bounded attempts |
| Admission of local-model requests (`ai/admission`, `ai/active-chat-cancellations`) | a counter and a queue, a release function per slot, Stop handles, Stops that came early | acquire, release, hand over, wait timer, hold timer, abort, stream end, Stop | chat, completion, help assistant, GPU hosts | a slot given to a waiter that is leaving; double and missing releases; providers that hang; Stop before, during, after | the counter is right, first come first served, no slot leaks, Stop finds a live turn |
| Idempotent writes (`idempotency`) | `idempotency_records`; a map of requests in flight | claim, replay, complete, release, fail, expire | all retry-safe POST routes | writes not fenced by owner, expiry under a running handler, two processes | a key executes at most once, a replay returns the first answer |
| Course re-embedding (`ai/re-embed-job`) | `re_embed_jobs` with owner and lease | acquire, claim, progress, renew, finish, recycle | embedding provider, status reads that resume | lease lost inside a material; recycled rows | one active job per course, only the owner writes |
| Topic analysis (`topics/job`) | `ai_jobs` rows claimed by `startedAt` | record, claim, renew, complete, fail, suggest | model calls, materials | completion by id, check-then-create | one runner per batch, outcome of the last owner |
| AI job queue (`queue/*`) | BullMQ jobs and `ai_jobs` rows | enqueue, process, retry, cancel | Redis | redelivery after a crash | each row ends |
| Enrollment (`courses/enrollments`, `courses/tas`) | enrollments, the course's primary instructor | add, change role, deactivate, add and remove a TA, name the head | routes, Canvas, self-enrollment | read outside the lock, then write | at least one active instructor, one row per person |
| Self-enrollment (`courses/self-enrollment`, `pending-self-enrollment`) | links with a count and a cap, pending joins | claim a slot, enroll, hand back, redeem later | enrollment, sign-in | crash between count and enrollment; concurrent redemptions | count never over the cap, no slot lost, JOINED is final |
| Invitations (`invitations/service`) | invitation rows, the accounts they make | create, resend, revoke, accept | e-mail, auth | acceptance is a look-up, a sign-up, a promotion and perhaps a rollback, among registrations and administrators | accepted once, a refused acceptance leaves no account, only the account it made is touched |
| Admin floor (`auth/admin-floor`) | users, the advisory lock `admin-floor` | update and delete a user, by route or in the admin chat | user routes, chat tools | the target is read before the lock; callers that do not ask | at least one active administrator |
| Fleet health (`ai/routing/fleet`) | cached verdicts, ejected hosts, per process | probe, eject, pick | GPU hosts | late probe answers | an ejected host is not picked |
| Daily limits (`chat-daily-limits`) | counters per user | charge, refund by token | chat, admission | overflow after the charge | cloud turns are not counted, no double refund |
| API key grants, question banks, purge, retrieval, Canvas, extensions, UI, scripts | see `PROJECT.json` | | | | |

Every part is listed under `components` in `PROJECT.json` with what is modelled
of it or why it is not, and every behaviour that is hard to test under `hazards`
with its line.

## 2. Modules

| Module | Content |
|---|---|
| `CronRuns` | the lease of a cron run |
| `MCCronRuns` | symmetry for its runs |
| `CronRunsProofs` | its theorems |
| `MaterialExtraction` | the background half of a material upload |
| `MCMaterialExtraction` | constants and symmetry for its runs |
| `MaterialExtractionProofs` | its theorems that need no assumption on leases |
| `MaterialOwnershipProofs` | its theorems on leases: workers, bytes, attempts |
| `SlotGate` | abstract specification: what admission promises |
| `AiAdmission` | the gate, its callers and the Stop button; implements `SlotGate` |
| `MCAiAdmission` | constants of its run |
| `AiAdmissionProofs` | its theorems, the refinement included |
| `OncePerKey` | abstract specification: what an idempotency key promises |
| `Idempotency` | the record of one key, its requests in several processes; implements `OncePerKey` |
| `MCIdempotency` | constants of its run |
| `IdempotencyProofs` | its theorems, the refinement included |
| `ReEmbedJobs` | the re-embedding jobs of one course and their workers |
| `MCReEmbedJobs` | symmetry for its runs |
| `ReEmbedJobsProofs` | its theorems |
| `CourseMembership` | the people of one course, its head, and a capped join link |
| `MCCourseMembership` | symmetry for its runs |
| `CourseMembershipProofs` | its theorems |
| `Accounts` | user accounts, the floor of one active administrator, invitations |
| `MCAccounts` | symmetry for its runs |
| `AccountsProofs` | its theorems |

The components share no state in the code: each has its own tables or its own
process memory, and so the modules are not composed with one another. Within a
module the actors that do interact are composed: web replicas and worker,
requests and sweepers, routes and gate and Stop, start requests and status reads
and workers, enrollment routes and teaching assistants and join links, administrators
and invitations and people who register.

Definitions whose name starts with `Mut` are deliberate bugs. Each is the mutated
form of the definition that follows it, and shows that one of the properties
would catch that bug; no specification uses them.

### 2.1 CronRuns

A row of `cron_job_runs` is `job`, `src`, `status` and `lease`; the process that
executes it is in `host`, `phase`, `hb`, `beating`, `kill` and `result`;
`tx[j]` is the transaction of `startCronRun` that holds job j's advisory lock,
with the reap it has not committed yet. `up`, `claimed` and `poll` are the live
processes and the worker's dispatch loop.

One action is one database statement or one callback: `BeginStart` (lock and
reap), `FoundRunning`/`FoundNothing`, `Insert`/`IndexRejects`/`StartFails`,
`Dispatch`, `RenewOk`/`RenewLost`, `Terminate`, `Exit`, `Finish`/`FinishFails`,
`Crash`, `Boot`, `Tick`.

Abstractions:

- The owner token is a UUID written with the row and never again. Whoever
  executes row r holds r's token, so there is no separate variable for it.
- Time is what is left of each lease and timer. `Timely = FALSE` lets every timer
  be arbitrarily late (a stalled event loop, a paused machine, a hanging query);
  `Timely = TRUE` means that a live process runs its timers when they are due.
- A crash of a process kills its children: all units set
  `KillMode=control-group`. There is one cron worker per environment.
- A child and what it spawns are one thing. That SIGKILL reaches bash alone
  (`db.cron-jobs.server.ts:904`) is outside the model.
- Rows that `infra/cron/lib.sh` writes when a script is started by hand, and job
  settings, are not modelled.
- `Runs` bounds how many rows are ever made; `InsertOutOfIds` is the action that
  the bound adds: the transaction goes through but for the insert.

### 2.2 MaterialExtraction

`mat[r]` is a row of `course_materials` with its status, checksum, text, lease,
attempts, soft-delete mark, receipt (`dup`, `res`), failure reason (`reason`:
whether there is one), stored bytes and chunks. A checksum is a member of
`Files` while it is provisional and of `Texts` once it is a content hash.
`job[j]` is one run in one process: its program counter, the row it was started
for, the row it embeds into (another one during a restore), file and text, and
for a sweep the batch of its scan with the rows it decided to give up.
`mat[r].taken` is history and no column: a sweep has failed the row while a lease on
it was live.

Actions are the statements of the handlers and of the job: `UploadCreates`,
`UploadConflicts` and `Reclaim`, `ReprocessReads`/`Claims`, `Delete`, `Claim`,
`Extract...`, `RestoreClaims`/`RetryClaims`, `Promote`/`PromoteLoses`, `Embed`,
`Ready`, `Fail`, `Discard`, `MarkReceipt`, `FailReceipt`, `DbError`, `Renew`, the
sweeps, `LeaseLapses`, `GoesUnclaimed`, `Die`.

Abstractions:

- A lease is none, unclaimed (null and untouched for a lease period), live or
  past. `Slow` says whose lease may run out while its worker lives: extraction
  and the receipt of a restore, which nothing renews, and embedding, if the
  heartbeat itself fails.
- A member of `Sweepers` is not an instance but a slot for one sweep under way.
  `ensureMaterialSweeperRunning` calls `setInterval(sweep, 5 min)` and looks at no
  earlier sweep (`extraction-job.server.ts:1097-1106`), while one sweep may extract and
  embed twenty files in sequence; so sweeps overlap in one instance as they do in
  several, each with a batch as old as its own scan, and `SweepScans` needs a free slot
  only. How many overlap is the number of slots: two in the runs, any in the proofs.
- `Die(j)` ends one job. A crash of a process is several of these in a row.
- The second sweep takes its own clock reading later than the first; the model
  reads the rows as they are when it scans.
- All rows are of one course, as the unique index is per course. Extraction
  gives each file its text or fails; that a text may be empty is not modelled,
  nor is the hard delete of the purge job or the topic analysis at the end.
- `MaxUploads`, `MaxDeaths`, `MaxDeletes` and `MaxDbErrors` bound how often the
  environment acts; `Rows` and `Requests` bound rows and concurrent requests.

### 2.3 AiAdmission and SlotGate

`inflight` and `waiters` are the module-level variables of `admission.server.ts`;
`slot[r]` is the state of r's release function, `aborted[r]` its signal;
`active` and `pending` are the two maps of `active-chat-cancellations`. `pc[r]` is
where the request stands in its route. One action is one callback of the event
loop together with the microtasks it settles: a promise that a timer or a release
resolves continues in the same step, because nothing else of the process can run
in between.

Chat turns have a Stop handle and a fallback to Bedrock (`Overflow` after a wait
that timed out, `FleetOverflow` when no host is left). Completions have an abort
signal and a deadline. Answers of the help assistant have neither, so no abort
reaches them. `CallEnds` stands for every answer, error or abort that ends a call
without a body to stream; `StreamEnds` and `Cancelled` are the two halves of
`withAdmissionRelease`, between which the provider's stream is cancelled.

Abstractions: each request is sent once; `AI_MAX_INFLIGHT=0`, which switches the
gate off, is left out (`Max > 0`); forgetting a Stop by age and by the limit of
1024 is one action. What a request does after its slot has been reclaimed goes
on: by design more than `Max` calls may then run, and the gate counts slots, not
calls.

`SlotGate` has only the sets of holders and waiters. `AiAdmission` implements it
with `holding <- {r : slot[r] = "held"}` and `waiting <- {r : pc[r] = "queued"}`.
`NoOneStays` is its liveness half.

### 2.4 Idempotency and OncePerKey

`rec` is the row of one key (a key belongs to a route and an actor, so rows of
different keys never meet). `pc[r]` is the statement a request is at, `seen[r]` the row as
it read it, `inFlight` the map of requests in flight of each process. `effect` is
the execution that counts since the row was made; `by` in the row is the claimant,
which the code does not store: completion and release are addressed by key alone,
and the properties compare with it.

The actions are the statements of `claimIdempotency`, `waitForInProgressReplay`,
`completeIdempotency`, `releaseIdempotency` and `failIdempotency`, the handler's
two outcomes, a failing statement, the expiry of the record and the crash of a
process.

Abstractions:

- A handler is one step that counts or does not. What a route does inside is its
  own; a handler that throws is taken to have done nothing.
- A refusal that a route answers with status 200, as the administrator's chat
  tools do with `{ error }` (`agent-tools/idempotent-admin-mutation.server.ts:46`),
  is remembered as an execution; the model calls such an answer one too.
- `slow` says whether handlers may outlive the record's 24 hours. If they do, an
  expired record is claimed again under a running handler and two executions
  count. The properties but `TypeOK` and `Answered` are about the other behaviours.
- A row of the backfill migration (`Old`) answers every body.

`Idempotency` implements `OncePerKey` with `counted <- effect` and `told` the
answers that are executions. `Answered` is liveness: every request that arrives and whose
process lives is answered.

### 2.5 ReEmbedJobs

`row[i]` is a job of the course; a claim makes a fresh owner token, so the n-th
claim is worker n and tokens compare by age. `req[s]` is a start request between
the statements of `startOrResumeReEmbedJob`, `lock` the course row; `wk[w]` is a
worker with the phase of every material and the queue of progress reports it has
not written; `mat[m].by` is the worker whose vectors material m has, and `marked`
the worker that recorded the course as embedded last.

Start requests create, attach, recycle or return (`Plan`), claim, check, and
compensate what could not be scheduled. Status reads (`Poll`) resume a job. The
worker claims materials, writes chunks and statuses in transactions fenced by its
lease, writes progress in order, and records the course and the end of the job.

Abstractions:

- The settings snapshot is left out. A recycled job keeps its old one, and its
  `createdAt`, so a job recycled while PENDING is old again at once; `aged` is
  kept accordingly.
- A snapshot of a job drops the lease, so `claimNeeded` is true for every RUNNING
  job; the claim itself is conditional.
- `Deadlock`: a start locks the course row and then the job's, the record on the
  course the job's and then the course's. PostgreSQL aborts either.
- The sweeper of `MaterialExtraction` may pick up materials that a re-embedding has
  made PROCESSING; the two modules are not composed, and this is not modelled.
- A start that another request was answered with may be deleted by the compensation
  of its maker. `StartedIsScheduled` protects the maker alone.
- `JobEnds` gives up a job whose workers have lost it `MaxClaims` times.

### 2.6 CourseMembership

One course with its rows of `enrollments` (`enr`), `Course.instructorId` (`head`),
a self-enrollment link with its count, and the pending join of each person. Each
request is a process: `req[r].pc` is the statement it is at. `lock` is the request
whose transaction holds the course row; only role changes and removals hold it
across steps, since every other transaction that takes it does all it does between
lock and commit, and is one step that waits for it. An insert waits too, as its
foreign key shares the lock. `told` and `stale` are history.

Additions are `Create`, or `Conflict`, `Look` and `Reactivate`; removals and role
changes `Decide` (lock, read, floor) and `Write` (row and head); `NameHead` and
`WriteHead` are `updateCourse`; a join is `Resolve`, `CheckMember`, `ClaimSlot`, the
steps of the addition, `ReleaseSlot` after a failure, and for a pending join
`Settle`.

Abstractions:

- `stale` becomes true when a request writes, on an earlier read, over the row of
  somebody who has since become an active instructor, or names as head somebody who
  has since been removed. `FloorKept` and `HeadTeaches` hold as long as it is
  false. What it excepts is in the code: `addCourseTA` reads a person's row, somebody
  names them head of the course, the other instructor is demoted (there are two, so
  the floor allows it), and the upsert makes the person a TA: no instructor is left.
  The comment of `instructorFloorViolation` says a course always retains one; the code
  does not keep that promise, and the property is claimed with the exception.
  `addEnrollment` has the same read and write by id
  (`courses/enrollments.server.ts:283-293`).
- Which instructor succeeds a head (the longest-standing one) is any of them.
- Expiry closes a link just as a revocation does. Creation and preview of links,
  publication of the course and the platform role of a person are left out, and so is
  the deletion of an account, which takes its enrollments along.
- A failing statement has not taken effect. A reply that is lost after its commit
  is not modelled: it would hand back the slot of somebody who is enrolled.
- A crash between the claim of a slot and the enrollment spends the slot for nobody;
  `SeatsCounted` counts it as claimed.
- `VerdictSticks` is about racing attempts at one join. A refusal computed before the
  person came back through the link may still settle the join they renewed.

### 2.7 Accounts

`user` are the accounts, `inv` the invitations, `floor` the request whose
transaction holds the advisory lock `admin-floor`. Each request is a process, and
`req[r].pc` the statement it is at; it keeps what it carries, and after its end
what it answered (`out`). `slip` is history: some write took an active administrator
away without having passed the floor.

An update or a deletion is `AdminBegins` (the session), `ReadTarget`, `FloorCheck`
(lock and count), `Update` or `Delete` (write and commit). The `updateUser` tool of the
admin chat reads no target and asks for no floor, and so starts at the write (`blind`).
An invitation is checked, supersedes the pending one and is created in three
statements. An acceptance is `AcceptLooks`, `AcceptChecks` (or `AcceptDrops`),
`AcceptSignsUp`, `AcceptFinds`, `AcceptPromotes` (account and invitation in one
transaction) and, if that fails, `AcceptRollsBack`.

Abstractions:

- A role is `ADMIN` or one that stands for the rest. An address is one somebody may be
  invited under, or `None` for any other; a change of address moves an account to
  `None`. The other fields of an update are left out, and so are the TA
  enrollments that a role change reconciles, but for their refusal.
- An account made by an administrator is a registration and a change after it.
- The confirmation turns of the chat, the mail and the sign-in that follows an
  acceptance change nothing the module keeps.
- Two creations at once leave two live invitations for an address, as the statements
  that supersede and create are two. The model has it; the second acceptance is
  refused, which is what `AnswersStand` asks.
- A crash in the middle of an acceptance, or a rollback that fails, leaves an account
  with the default role; the failure is swallowed (`out = "lost"`).
- `MaxRotations` bounds how often an invitation is sent again, `MaxFaults` the failing
  statements and crashes; each request is used once.

## 3. Runs

Every run is a small instance; the passing ones between them fire every action.

| Run | Shows | Bounds |
|---|---|---|
| `cron_exclusion` | children of one job never overlap; of two Core handlers at most one has not been told to stop | a script and a Core job, two rows, default settings in units of 5 s (lease 60, heartbeat 20, grace 5, reconcile 30); the replica crashes, the worker does not |
| `cron_liveness` | type, one RUNNING row per job, terminal rows final; a run whose process is gone is reaped | two rows of one script job, one replica and the worker, which crashes at will; timers as late as they like |
| `material_settle` | type; but for rows a sweep took from under a worker: one worker per row, bytes while pending, pending uploads settle; such a row was past its attempts; attempts bounded; stranded re-embeds settle | two sweeps at once, one request, two rows, two files of one text, a death, one attempt; leases lapse for dead workers only, no delete, no re-upload, no failing write |
| `material_adverse` | READY is indexed, restored is indexed | every fault at once: lapsing leases, re-uploads, a death, a delete, a failing write, one sweep at a time |
| `material_promoted_crash` | violation: see below | one upload, a death |
| `ai_admission` | type, counts, no leak, Stop, order, no slot for the gone, refinement of `SlotGate`, its liveness | two chat turns, a completion, an assistant answer, two slots |
| `idem` | one owner, answers match the body, refinement of `OncePerKey`, every attempt answered | four attempts of one key in two processes, one with another body; a crash or a failing statement, an expiry |
| `reembed_starts` | one active job, an old worker never overwrites a newer one, no start answered with an unclaimed job | three starts, two at once, one key, two rows, one material, two claims, one fault |
| `reembed_worker` | the course is marked only when all is indexed, progress grows, the job ends | one start, two workers in turn, two materials, one fault |
| `membership` | floor, head, count and cap of the link, a join stays a join | two people, three requests, a cap of one, one fault |
| `accounts` | removals that ask for the floor leave an administrator, answers stay true, an acceptance touches its own account only | two administrators, two new accounts, an address, two invitations, three requests, one fault |
| `admin_floor` | violation: see below | the same with one invitation and without faults |

Why the bounds suffice. Cron rows interact in pairs, a live run and its
successor, and a third adds only a later pair; a second job in
`cron_exclusion` shows that the reap and the lock do not mix jobs, and that a Core
handler, which cannot be killed, is told to stop in time. Material rows interact as a winner and
a receipt, and the conflicts need two jobs, one of which may be a sweep; two
files of one text are the least that deduplicates. In the gate, two slots with
four requests give a queue of two, the least in which order matters, with
requests of each kind on both sides of the gate. `cron_exclusion` is tight: with a
lease of 4 units and reconcile, heartbeat and grace that add up to 4, TLC finds an
overlap.

In `Idempotency` the interference is between an owner and one that waits or
reclaims; the fourth attempt allows a follower in one process next to a waiter in
another. In `ReEmbedJobs` two claims are a worker and its successor, two starts at
once the race of the lock, and a third start the recycling of what they left; the
queue of progress needs two materials. In `CourseMembership` three requests are
the least that loses the floor (one reads, one makes an instructor, one removes
the other), two requests the least that races for the last slot. In `Accounts` two
administrators are the least that remove each other, two invitations the least of
which one supersedes the other, and three requests put an administrator or a
revocation next to two acceptances.

What is assumed where a run does not have everything at once:

- `material_settle` has leases that lapse only for dead workers. A worker that outlives
  its lease breaks `OneWorkerPerRow`, as the writes after the claim are by id.
  `ReadyIsIndexed` and `RestoredIsIndexed` need no such assumption, which is what
  `material_adverse` and the proofs show; that run has one sweep at a time, the proofs
  any number. A second attempt and a delete, with which that run would take too long,
  are left to the proofs of its four safety properties; liveness is checked as stated.
- Sweeps overlap, in one instance as in several: `setInterval` starts one every five
  minutes (`extraction-job.server.ts:1106`), and one may extract and embed twenty files
  in sequence. The model has what comes of it:
  - The ceiling is passed. A and B both read a row one attempt below it; B spends that
    attempt and releases the row as busy, and A claims it once more, since the claim
    (314) does not ask for the attempts that the scan did (908). `AttemptsBounded` says
    by how much.
  - A live row is given up. A reads a row as out of attempts that B has read before and
    claims now; A fails it by id (909) and drops its bytes under B's lease. The comment
    at 1081 says the lease makes the sweeper safe, since a second claim loses; giving
    a row up is no claim. `OnlyExtraAttemptsAreCut` says that only such an extra
    attempt is lost to it, never one the row was entitled to.
  - The row may then be claimed by a retry or a restore while B still writes to it; or
    B releases it by id (190), and it is PROCESSING and pending without bytes, which
    neither scan selects. `OneWorkerPerRow`, `BytesWhilePending` and
    `PendingUploadSettles` except the rows given up like that (`taken`), and show that
    nothing else does it.
- A start that recycles a job while its worker records the course as embedded locks
  course and job in the opposite order, and PostgreSQL aborts one of the two. The action
  (`Deadlock`) fires in `reembed_starts`, which checks safety only; `JobEnds` is checked
  in `reembed_worker`, where one start leaves nobody to hold the course row.
- Re-uploads are in `material_adverse` alone. With one, the bytes of a failed row are
  deleted in a second statement that may hit those of the new upload
  (`extraction-job.server.ts:300`), and the attempts of a row start again at zero:
  `BytesWhilePending` and `AttemptsBounded` are therefore claimed without.
- A row once released as busy keeps that failure code when it becomes an ordinary
  duplicate (`extraction-job.server.ts:156`); the model has it, no property asks.
- A worker that was down dispatches, when it returns, a manual row whose lease ran
  out meanwhile, next to the successor a scheduled start creates
  (`db.cron-jobs.server.ts:985`); `cron_exclusion` has no such crash. Scheduled runs
  do not need that (`ScheduledRunsTheorem`).
- `cron_exclusion` excludes a crash of the worker, and takes the default settings.
  A lease below 52.5 s, which the configuration allows, breaks the condition
  `Poll + Beat + Grace < Lease` of the theorem: a manual row then expires before
  the worker renews it.

### What the violations say

- `material_promoted_crash`: after a crash between the promotion and the discard of
  the bytes no sweep selects the row, which stays PROCESSING.
- `admin_floor`: two administrators deactivate or demote each other in the admin chat,
  whose update never asks for the floor (`admin-mutations.server.ts:420`): no active
  administrator is left. The comment of `auth/admin-floor.server.ts` says the platform
  must always retain one.

## 4. Fairness

- `CronRuns!Fairness`: time passes and the worker's loop runs (weak). A start by a
  process that does not crash, and its transaction's next statement, happen if
  they are possible again and again (strong): node-cron fires for ever,
  `pg_advisory_xact_lock` queues, and not every statement fails. Children have a
  ten-minute timeout, so they end; their terminal write is tried. Nothing is
  assumed of crashes, restarts, renewals or manual triggers; `NoRunStaysRunning`
  is claimed for behaviours in which a process does not crash and restart for
  ever, since a worker that does renews a manual row each time.
- `MaterialExtraction!Fairness`: jobs take their next step, sweeps under way go on, some
  instance starts a sweep again and again (`setInterval`), leases run out. Which slot a
  new sweep takes, and so how many overlap, is left open.
- `AiAdmission!Fairness`: the wait timer and the hold timer fire. Nothing is
  assumed of providers, streams or clients; the liveness shown holds with all of
  them hanging. It needs `AI_ADMISSION_MAX_HOLD_MS > 0`, the default.

- `Idempotency!LiveSpec`: requests take their next step as long as their process
  lives. A wait for another process's answer ends by its own deadline, so nothing
  is assumed of the owner.
- `ReEmbedJobs!LiveSpec`: requests and workers go on, clients read the status of an
  active job again and again (the page polls), the lease of a dead worker runs out,
  a deadlock is resolved. Nothing is assumed of leases of live workers.
- `CourseMembership` and `Accounts` have no liveness: every request is a bounded
  sequence of statements that wait for one lock only, and nothing retries on its own.

## 5. Proofs

All theorems hold for any values of the constants that meet the module's ASSUME.

`CronRunsProofs`. `TypeTheorem`, `OneRunningTheorem` and `HistoryTheorem` need no timing: the
invariant is the type, one RUNNING row per job up to the reap of an open
transaction, and that what is reaped is expired. `ExclusionTheorem` assumes that
timers fire when due, that the worker does not crash and
`Poll + Beat + Grace < Lease`. Its invariant relates clocks: while a run is
beating, what is left of its lease exceeds the time to its next renewal by more
than a grace period; while its child is being terminated, the lease outlasts the
kill timer; a manual row not yet dispatched has enough lease left for the next
reconcile and the first heartbeat. A child that executes therefore holds a live
lease, and two live leases of one job contradict the unique index: neither do two
children of a job run at once (`ScriptsNeverOverlap`), nor two handlers unless the
first was told to stop (`UnwarnedTheorem`).

Only manual rows need the worker to stay up. A run its schedule started is executed
by the process that inserted it, so the first half of the invariant holds of it from
`Beat + Grace < Lease` alone: `ScheduledRunsTheorem` excludes overlaps of scheduled
runs however often the worker crashes and however long manual rows wait, and
`UntriggeredTheorem` is `ScriptsNeverOverlap` where nobody triggers a run by hand.
Of the manual rows `DispatchTheorem` says, with any crashes and any timers, that the
worker never starts one that is still executed: its memory of what it dispatched
(`WorkerInv`) goes only when all it executed goes with it.

`MaterialExtractionProofs`. `ReadyTheorem`, `RestoredTheorem` and `TypeTheorem` use
no assumption on time, fairness or the number of workers: none of the writes by id
is fenced, and the point of the proof is that it does not matter. The invariant
`IndInv` adds to the type: what a row's status and receipt say of its text,
checksum and chunks (`RowGood`), that checksums are unique (`SumsUnique`), and what
each job knows of its row and target at each point of its run (`JobGood`), for
instance that the text it carries is the text of its file and that its target's
checksum is that text from the promotion on. Other jobs never take that knowledge
away, as a content checksum once written is never replaced; each action is shown
to preserve it in a lemma of its own.

`MaterialOwnershipProofs`. `OwnInv` says which rows a job owns: those it works on, and
those it will return to after a restore of another. An owned row is PROCESSING under a
live lease and has one owner, unless it is `taken`; of a taken row nothing is said. A
claim finds no owner, as an owner's lease is live and every claim asks for one that is
not; a write by id of a job is one of an owner's, or of a taken row, or takes it. So
`OwnershipTheorem` is `OneWorkerPerRow` from one assumption, that leases lapse only for
dead workers (`Slow = {}`), for any number of sweeps at once, re-uploads, deletes,
crashes and failing writes. `DropInv` adds what a job about to discard bytes knows: its
row no longer needs them, or is taken. With it, and without re-uploads and failing
writes, which can leave a row in need of bytes that are then dropped,
`BytesTheorem` is `BytesWhilePending`. The exception cannot be had away by counting
sweeps: one instance is enough for two of them.

The attempts are counted apart from that (`AttemptInv`): a claim is made on a row read
below the ceiling, so the ceiling is passed only by claims that were already decided
when the last attempt was spent, one for each job. `AttemptsOfAllTheorem` bounds a
row's attempts by `MaxAttempts - 1` and the number of jobs, with no assumption on
leases or re-uploads; without re-uploads a request claims only a row it has made, so
`AttemptsTheorem` is `AttemptsBounded`: the ceiling, and once more for each sweep under
way beside the first, even for steps that outlast their leases.

`CutTheorem` is `OnlyExtraAttemptsAreCut`, from `Slow = {}` and no re-uploads. A row whose
attempts are spent is one past the ceiling, or at it and at the moment under no live
lease (`Spent`); every row a sweep is to give up is spent (`CutInv`). That is stable: a
claim of such a row counts one more, a renewal and a claim that counts nothing are of
rows whose text is known, and a run that promotes its row still holds the lease
(`OwnInv`). So a row that is found under a live lease when it is given up is past the
ceiling.

`AiAdmissionProofs`. The invariant adds to the type and the count: the queue lists
exactly the waiting requests, each once (`QueueOK`); a slot is granted when
waiting ends and is gone when the request is over (`PhaseOK`); a live turn is
either registered or aborted, and who waits is not aborted (`StopOK`). Each step
does one of five things to the gate (nothing, admit, queue, give up, hand over),
each a lemma that also gives the step of `SlotGate` it implements. From it follow
`TypeTheorem`, `SlotsCountedTheorem`, `DoneHoldsNothingTheorem`, `StopTheorem`, `OrderTheorem`,
`NoSlotForTheGoneTheorem` and the refinement, `GateTheorem`.

`IdempotencyProofs`. `IInv` says that whoever executes has the row it claimed
(`OwnerHasRow`), that an execution that counts is the owner's or the row's
(`EffectOfOwner`), that a completed row tells of it (`RowTellsEffect`), that a
purge meets only what has expired (`PurgesExpired`), and that an answer ends a
request. All but the type are for behaviours without slow handlers, as completion by
key alone needs them. From it follow `OneOwnerTheorem`, `AnswersMatchBodyTheorem`
and, step by step, the refinement `OncePerKeyTheorem`.

`ReEmbedJobsProofs`. `IInv` adds that a running job is the last claim's
(`LatestOwns`), that no vectors are newer than the last claim, that what the last
claim has written still stands (`LatestStands`), and that only a worker with every
material indexed is about to record the course. The conditional claim and the
fence give `NewestRunTheorem` and `MarkedTheorem`; the partial unique index gives
`OneActiveTheorem`; the conditional compensation gives `ScheduledTheorem`.

Three theorems are about what a job says of itself. `ProgressInv` reads the queue of
progress writes: its counts are in order, none is ahead of the work, and what the row
shows is behind all of them, unless the worker's very first report failed, after which
it indexes and reports nothing; hence `ProgressTheorem`. `TruthInv` is the converse of
`LatestStands`: what the last claim's worker has not counted is not READY with its
vectors. Together they make a worker's count the number of materials that are, as long
as its statements pass the fence, so that the final write is true (`OutcomeTheorem`:
COMPLETED when all are, PARTIAL otherwise, and as many done as are) and no progress
shown is ahead of the materials (`ReportTheorem`). TLC agrees with these two on
one job, two materials, two starts, two claims and two faults; no run repeats that.

`CourseMembershipProofs`. `IInv` adds what a request's place says of its fields
(`WellFormed`), that the holder of the course row is the request about to write
(`Held`), and that what it decided still holds when it writes (`Decided`): its user
is an instructor or not as it read, and if it takes that away another instructor
remains. Others cannot disturb that while the row is held, except by a write on an
old read, which is what `stale` excepts. `SeatsTheorem` and `VerdictTheorem` need no
exception.

`AccountsProofs`. The invariant says what a request carries at each of its steps
(`ReqGood`), that an address has one live account (`Unique`), that the lock is held
from the check to the write (`LockInv`), and, without a slip, that there is an
administrator other than the target of a write that was checked (`FloorInv`): every
other removal either waits for the lock or is a slip. For the acceptances: the
account one works on was made by its own sign-up (`MadeInv`), so it is not
self-made (`SelfInv`), and what was answered about an invitation stays true
(`AnswerInv`), since a row never becomes PENDING again. `FloorTheorem`,
`AnswersTheorem` and `SelfTheorem` hold with failing statements and crashes.

Only model-checked: the liveness properties `NoRunStaysRunning`, `PendingUploadSettles`,
`StrandedReembedSettles`, `GateLives`, `Answered` and `JobEnds`, as temporal proofs under
fairness need ENABLED, which is out of the prover's reach. Not proved because they are
false: the properties of the violation runs, and the material properties without the
assumptions named above.

## 6. Plan

Done: the cron leases, the material pipeline, admission, idempotent writes,
re-embedding jobs, course membership, accounts with the admin floor and invitations.
What would follow, in this order:

1. `TopicJobs`: completion and failure by id after a lapsed lease
   (`topics/job.server.ts:408`), two Suggest requests at once (460).
2. The other writers of enrollments (Canvas sync, a restored course,
   `reconcileUserTACourses`) as further actions of `CourseMembership`, which a role
   change of `Accounts` would then call.
3. `FleetHealth`: probes racing ejections in one process; daily limits with refunds
   added to the callers of `AiAdmission`.
4. The job queue, which the deployed configuration does not start.
5. The hard delete of the purge job as an action of
   `MaterialExtraction`, and its composition with `ReEmbedJobs`, whose materials its
   sweeper may pick up.

### Not modelled

Most of the repository is presentation (React components, the design system, the
extensions' front ends), request/response CRUD over single-row statements, prompt
assembly and ranking over embeddings, and shell around external tools. It has no
state that two actors interleave on, so a state machine of it would only restate it.
`PROJECT.json` lists these parts with the reason for each.

Not modelled although it is concurrent: topic analysis jobs, the job queue, daily
limits, API key grants and fleet health. In the last, a probe that fails late
overwrites the verdict of a newer one (`ai/routing/fleet/health.ts:161`).
Of the modelled parts, what is left out is named under the abstractions above.

## 7. Running

    tlc -workers 2 -config cron_exclusion.cfg MCCronRuns
    tlapm CronRunsProofs.tla

and likewise for the runs listed in `PROJECT.json`.
