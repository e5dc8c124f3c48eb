-------------------------- MODULE CourseMembership --------------------------
(***************************************************************************)
(* Who is in one course, and who heads it: additions, role changes,        *)
(* removals, teaching assistants, the naming of the head, and the joins    *)
(* through a self-enrollment link with a cap, at once or when the account  *)
(* is activated.  A request is a process: between two of its statements    *)
(* every other request may run, unless it holds the course row.            *)
(***************************************************************************)
EXTENDS Naturals, FiniteSets

CONSTANTS
    Users, Requests,
    Nobody,         \* no head, no user of a request, no holder of the course row
    Cap,            \* maxRedemptions of the link
    MaxFaults       \* failing statements and crashes

ASSUME MembershipConstants ==
    /\ Nobody \notin Users \cup Requests /\ IsFiniteSet(Requests)
    /\ Cap \in Nat /\ MaxFaults \in Nat

Roles == {"INSTRUCTOR", "TA", "STUDENT"}

VARIABLES
    enr,        \* the enrollment of each user: none, active or removed, and its role
    head,       \* Course.instructorId
    lock,       \* the request whose transaction holds the course row
    link,       \* the self-enrollment link: still open, and its redemptionCount
    pend,       \* the pending join of each user, with its verdict
    req, faults,
    told,       \* history: users whose pending join was settled as joined since it was remembered
    stale       \* history: a request wrote to an instructor's row, or named a head, on an earlier read

vars == <<enr, head, lock, link, pend, req, faults, told, stale>>

Rows == [st : {"none", "active", "removed"}, role : Roles]
NoRow == [st |-> "none", role |-> "STUDENT"]
Teaches(e, u) == e[u].st = "active" /\ e[u].role = "INSTRUCTOR"
Instructors(e) == {u \in Users : Teaches(e, u)}

NewReq == [pc |-> "idle", op |-> "none", user |-> Nobody, role |-> "STUDENT",
           ok |-> FALSE, slot |-> FALSE, out |-> "none"]

\* A course that has an instructor; it may have no head.
Init ==
    /\ enr \in [Users -> {NoRow} \cup [st : {"active", "removed"}, role : {"INSTRUCTOR", "STUDENT"}]]
    /\ Instructors(enr) # {}
    /\ head \in Instructors(enr) \cup {Nobody}
    /\ lock = Nobody
    /\ link = [open |-> TRUE, count |-> 0]
    /\ pend = [u \in Users |-> "none"]
    /\ req = [r \in Requests |-> NewReq] /\ faults = 0
    /\ told = [u \in Users |-> FALSE] /\ stale = FALSE

Fault == faults < MaxFaults /\ faults' = faults + 1
Course == <<enr, head, stale>>
Joins == <<link, pend, told>>

User(r) == req[r].user
Redeems(r) == req[r].op \in {"redeem", "pending"}
Goto(r, p) == req' = [req EXCEPT ![r].pc = p]
Begin(r, o, u, rl, p) ==
    /\ req[r].pc = "idle"
    /\ req' = [req EXCEPT ![r] = [NewReq EXCEPT !.pc = p, !.op = o, !.user = u, !.role = rl]]

\* A request that has ended keeps its slot, and what a redemption answered.
Done(r, o) == req' = [req EXCEPT ![r] = [NewReq EXCEPT !.pc = "done", !.slot = req[r].slot, !.out = o]]

\* The answer of a redemption: redeemOne goes on to write it as the verdict.
Answer(r, o) ==
    IF req[r].op = "pending" THEN req' = [req EXCEPT ![r].pc = "settle", ![r].out = o]
                             ELSE Done(r, o)

\* addEnrollment came back: a redemption keeps its slot for 201 and 409, and gives it back when it threw.
Returned(r, o) ==
    IF ~Redeems(r) THEN Done(r, "none")
    ELSE IF o = "error" THEN Goto(r, "release")
    ELSE Answer(r, o)

(***************************************************************************)
(* addEnrollment: the insert, and the reactivation of a removed row.       *)
(***************************************************************************)

AddEnrollment(r) ==
    /\ \E u \in Users, rl \in Roles : Begin(r, "add", u, rl, "create")
    /\ UNCHANGED <<Course, Joins, lock, faults>>

\* claimPrimaryIfVacant, for an instructor only.
ClaimPrimary(u, rl) == head' = IF rl = "INSTRUCTOR" /\ head = Nobody THEN u ELSE head

\* The insert waits for the course row: an instructor's takes it, the foreign key of the others shares it.
Create(r) ==
    /\ req[r].pc = "create" /\ lock = Nobody
    /\ enr[User(r)].st = "none"
    /\ enr' = [enr EXCEPT ![User(r)] = [st |-> "active", role |-> req[r].role]]
    /\ ClaimPrimary(User(r), req[r].role)
    /\ Returned(r, "joined")
    /\ UNCHANGED <<Joins, lock, faults, stale>>

Conflict(r) ==
    /\ req[r].pc = "create"
    /\ enr[User(r)].st # "none"
    /\ Goto(r, "look")
    /\ UNCHANGED <<Course, Joins, lock, faults>>

\* The read of the existing row takes no lock.
Look(r) ==
    /\ req[r].pc = "look"
    /\ IF enr[User(r)].st = "removed" THEN Goto(r, "reactivate") ELSE Returned(r, "enrolled")
    /\ UNCHANGED <<Course, Joins, lock, faults>>

\* A blind write on a row that another request made an active instructor since it was read.
Overwrites(r, rl) == stale' = (stale \/ (Teaches(enr, User(r)) /\ rl # "INSTRUCTOR"))

\* The update is by id, and only an instructor's takes the course row.
Reactivate(r) ==
    /\ req[r].pc = "reactivate"
    /\ req[r].role = "INSTRUCTOR" => lock = Nobody
    /\ enr' = [enr EXCEPT ![User(r)] = [st |-> "active", role |-> req[r].role]]
    /\ ClaimPrimary(User(r), req[r].role)
    /\ Overwrites(r, req[r].role)
    /\ Returned(r, "joined")
    /\ UNCHANGED <<Joins, lock, faults>>

\* The statement, or the connection, fails before anything is written.
AddFails(r) ==
    /\ req[r].pc \in {"create", "look", "reactivate"}
    /\ Fault
    /\ Returned(r, "error")
    /\ UNCHANGED <<Course, Joins, lock>>

(***************************************************************************)
(* updateEnrollmentRole and deactivateEnrollment, under the course row.    *)
(***************************************************************************)

ChangeRole(r) ==
    /\ \E u \in Users, rl \in Roles : Begin(r, "role", u, rl, "lock")
    /\ UNCHANGED <<Course, Joins, lock, faults>>

Deactivate(r) ==
    /\ \E u \in Users : Begin(r, "remove", u, "STUDENT", "lock")
    /\ UNCHANGED <<Course, Joins, lock, faults>>

\* The request takes the role of instructor away, if its user has it.
Demotes(r) == req[r].op = "remove" \/ req[r].role # "INSTRUCTOR"

\* A transaction that ends, committed or not, gives the course row back.
Unlocked(r) == IF lock = r THEN Nobody ELSE lock

\* Mutant: the course row is not locked.
MutRowFree(r) == TRUE

RowFree(r) == lock = Nobody

\* instructorFloorViolation.
Floor(u) == Teaches(enr, u) /\ Cardinality(Instructors(enr)) <= 1

\* The transaction has the row, reads the enrollment and passes the floor.
Decide(r) ==
    /\ req[r].pc = "lock" /\ RowFree(r)
    /\ enr[User(r)].st # "none"
    /\ ~(Demotes(r) /\ Floor(User(r)))
    /\ lock' = r
    /\ req' = [req EXCEPT ![r].pc = "write", ![r].ok = Teaches(enr, User(r))]
    /\ UNCHANGED <<Course, Joins, faults>>

Refuse(r) ==
    /\ req[r].pc = "lock" /\ RowFree(r)
    /\ enr[User(r)].st = "none" \/ (Demotes(r) /\ Floor(User(r)))
    /\ Done(r, "none")
    /\ UNCHANGED <<Course, Joins, lock, faults>>

\* Mutant: the head is reassigned when its holder is removed, not when demoted.
MutHeadLeaves(r) == req[r].ok /\ req[r].op = "remove" /\ head = User(r)

\* reassignPrimaryIfNeeded runs for the head, on what the transaction had read.
HeadLeaves(r) == req[r].ok /\ Demotes(r) /\ head = User(r)

\* The order in which instructors enrolled is left out: any of them may succeed.
Write(r) ==
    /\ req[r].pc = "write"
    /\ enr' = [enr EXCEPT ![User(r)] = IF req[r].op = "remove" THEN [@ EXCEPT !.st = "removed"]
                                                                ELSE [@ EXCEPT !.role = req[r].role]]
    /\ IF HeadLeaves(r)
         THEN head' \in (IF Instructors(enr') = {} THEN {Nobody} ELSE Instructors(enr'))
         ELSE head' = head
    /\ lock' = Unlocked(r)
    /\ Done(r, "none")
    /\ UNCHANGED <<Joins, faults, stale>>

WriteFails(r) ==
    /\ req[r].pc \in {"lock", "write", "name", "upsert"}
    /\ Fault
    /\ lock' = Unlocked(r)
    /\ Done(r, "none")
    /\ UNCHANGED <<Course, Joins>>

(***************************************************************************)
(* The head named by an administrator, and teaching assistants.            *)
(***************************************************************************)

\* updateCourse compares the new head with the course its access check read.
NameHead(r) ==
    /\ req[r].pc = "idle"
    /\ \E u \in Users :
        req' = [req EXCEPT ![r] = [NewReq EXCEPT !.pc = "name", !.op = "head", !.user = u, !.ok = (u # head)]]
    /\ UNCHANGED <<Course, Joins, lock, faults>>

\* A head that changes is enrolled; both writes commit once the course row is free.
WriteHead(r) ==
    /\ req[r].pc = "name" /\ lock = Nobody
    /\ enr' = IF req[r].ok THEN [enr EXCEPT ![User(r)] = [st |-> "active", role |-> "INSTRUCTOR"]] ELSE enr
    /\ head' = User(r)
    /\ stale' = (stale \/ ~Teaches(enr', User(r)))
    /\ Done(r, "none")
    /\ UNCHANGED <<Joins, lock, faults>>

\* addCourseTA reads the enrollment: an instructor's row, removed or not, and an active TA are refused.
AddTA(r) ==
    /\ \E u \in Users :
        /\ enr[u].st # "none" => enr[u].role # "INSTRUCTOR" /\ ~(enr[u].st = "active" /\ enr[u].role = "TA")
        /\ Begin(r, "ta", u, "TA", "upsert")
    /\ UNCHANGED <<Course, Joins, lock, faults>>

\* The upsert does not look again; only an insert waits for the course row.
Upsert(r) ==
    /\ req[r].pc = "upsert"
    /\ enr[User(r)].st = "none" => lock = Nobody
    /\ enr' = [enr EXCEPT ![User(r)] = [st |-> "active", role |-> "TA"]]
    /\ Overwrites(r, "TA")
    /\ Done(r, "none")
    /\ UNCHANGED <<Joins, head, lock, faults>>

\* removeCourseTA: one conditional statement.
RemoveTA(r) ==
    /\ req[r].pc = "idle"
    /\ Done(r, "none")
    /\ \E u \in Users :
        /\ enr[u] = [st |-> "active", role |-> "TA"]
        /\ enr' = [enr EXCEPT ![u].role = "STUDENT"]
    /\ UNCHANGED <<Joins, head, lock, faults, stale>>

(***************************************************************************)
(* The self-enrollment link.                                               *)
(***************************************************************************)

\* linkUsabilityFailure.
Usable == link.open /\ link.count < Cap

\* The link is resolved once, before the enrollment is read.
Resolve(r, o, u) ==
    /\ req[r].pc = "idle"
    /\ req' = [req EXCEPT ![r] = [NewReq EXCEPT !.pc = "member", !.op = o, !.user = u, !.ok = Usable]]
    /\ UNCHANGED <<Course, Joins, lock, faults>>

Redeem(r) == \E u \in Users : Resolve(r, "redeem", u)
RedeemPending(r) == \E u \in Users : pend[u] = "pending" /\ Resolve(r, "pending", u)

\* A member is told so whatever the link's state; everyone else meets the verdict on what was resolved.
CheckMember(r) ==
    /\ req[r].pc = "member"
    /\ IF enr[User(r)].st = "active" THEN Answer(r, "enrolled")
       ELSE IF ~req[r].ok THEN Answer(r, "refused")
       ELSE Goto(r, "claim")
    /\ UNCHANGED <<Course, Joins, lock, faults>>

\* Mutant: the slot is claimed on the link the redemption resolved.
MutMayClaim(r) == req[r].ok

\* claimRedemptionSlot judges the locked row again.
MayClaim(r) == Usable

ClaimSlot(r) ==
    /\ req[r].pc = "claim"
    /\ IF MayClaim(r)
         THEN /\ link' = [link EXCEPT !.count = @ + 1]
              /\ req' = [req EXCEPT ![r].pc = "create", ![r].slot = TRUE]
         ELSE Answer(r, "refused") /\ UNCHANGED link
    /\ UNCHANGED <<Course, pend, told, lock, faults>>

\* releaseRedemptionSlot.
ReleaseSlot(r) ==
    /\ req[r].pc = "release"
    /\ link' = [link EXCEPT !.count = IF @ > 0 THEN @ - 1 ELSE 0]
    /\ req' = [req EXCEPT ![r] = [NewReq EXCEPT !.pc = "done", !.out = "error"]]
    /\ UNCHANGED <<Course, pend, told, lock, faults>>

\* A redemption fails elsewhere: the join stays pending, and a slot that could not be given back stays spent.
RedeemFails(r) ==
    /\ req[r].pc \in {"member", "claim", "release", "settle"}
    /\ Fault
    /\ Done(r, IF req[r].out = "none" THEN "error" ELSE req[r].out)
    /\ UNCHANGED <<Course, Joins, lock>>

Revoke ==
    /\ link.open
    /\ link' = [link EXCEPT !.open = FALSE]
    /\ UNCHANGED <<Course, pend, told, lock, req, faults>>

\* rememberPendingSelfEnrollment clears an earlier verdict.
Remember(u) ==
    /\ pend' = [pend EXCEPT ![u] = "pending"]
    /\ told' = [told EXCEPT ![u] = FALSE]
    /\ UNCHANGED <<Course, link, lock, req, faults>>

\* Mutant: a refusal settles the join whatever it says.
MutSettles(u, o) == TRUE

\* A join replaces a refusal; a refusal only settles a pending row.
Settles(u, o) == IF o = "refused" THEN pend[u] = "pending" ELSE pend[u] # "JOINED"

\* redeemOne writes the verdict.
Settle(r) ==
    /\ req[r].pc = "settle"
    /\ LET u == User(r)
           o == req[r].out
       IN  /\ pend' = IF Settles(u, o) THEN [pend EXCEPT ![u] = IF o = "refused" THEN "refused" ELSE "JOINED"]
                                       ELSE pend
           /\ told' = [told EXCEPT ![u] = @ \/ o # "refused"]
    /\ Done(r, req[r].out)
    /\ UNCHANGED <<Course, link, lock, faults>>

\* The process dies: its transaction is rolled back, a slot it claimed stays spent.
Dies(r) ==
    /\ req[r].pc \notin {"idle", "done"}
    /\ Fault
    /\ lock' = Unlocked(r)
    /\ Done(r, "none")
    /\ UNCHANGED <<Course, Joins>>

Next ==
    \/ \E r \in Requests :
        \/ AddEnrollment(r) \/ Create(r) \/ Conflict(r) \/ Look(r) \/ Reactivate(r) \/ AddFails(r)
        \/ ChangeRole(r) \/ Deactivate(r) \/ Decide(r) \/ Refuse(r) \/ Write(r) \/ WriteFails(r)
        \/ NameHead(r) \/ WriteHead(r) \/ AddTA(r) \/ Upsert(r) \/ RemoveTA(r)
        \/ Redeem(r) \/ RedeemPending(r) \/ CheckMember(r) \/ ClaimSlot(r) \/ ReleaseSlot(r)
        \/ RedeemFails(r) \/ Settle(r) \/ Dies(r)
    \/ Revoke
    \/ \E u \in Users : Remember(u)

Spec == Init /\ [][Next]_vars

-----------------------------------------------------------------------------

Pcs == {"idle", "create", "look", "reactivate", "lock", "write", "name", "upsert",
        "member", "claim", "release", "settle", "done"}
ReqType == [pc : Pcs, op : {"none", "add", "role", "remove", "head", "ta", "redeem", "pending"},
            user : Users \cup {Nobody}, role : Roles, ok : BOOLEAN, slot : BOOLEAN,
            out : {"none", "joined", "enrolled", "refused", "error"}]

\* Everything has its type, and nobody holds the course row except between a decision and
\* its write, crashes and failures included.
TypeOK ==
    /\ enr \in [Users -> Rows] /\ head \in Users \cup {Nobody}
    /\ lock \in Requests \cup {Nobody} /\ (lock # Nobody => req[lock].pc = "write")
    /\ link \in [open : BOOLEAN, count : Nat] /\ req \in [Requests -> ReqType]
    /\ pend \in [Users -> {"none", "pending", "JOINED", "refused"}]
    /\ faults \in Nat /\ told \in [Users -> BOOLEAN] /\ stale \in BOOLEAN

\* "A course must always retain >= 1 active INSTRUCTOR enrollment" (enrollments.server.ts:112):
\* however removals, demotions and additions of several administrators meet, the course
\* keeps an active instructor, unless a write by id or an upsert, based on a read made
\* before somebody became an instructor, took the role away again.
FloorKept == ~stale => Instructors(enr) # {}

\* With the same exception, and that of a head named again on an old read, the head of the
\* course is an active instructor, whoever is removed, demoted or brought back meanwhile.
HeadTeaches == ~stale /\ head # Nobody => Teaches(enr, head)

Slots == {r \in Requests : req[r].slot}

\* The link's count is the slots claimed and not given back, it never passes the cap, and
\* a redemption that answers "joined" has one, although the slot is claimed in a
\* transaction of its own and given back after failures.
SeatsCounted ==
    /\ link.count = Cardinality(Slots) /\ link.count <= Cap
    /\ \A r \in Requests : req[r].out = "joined" => req[r].slot

\* Once a redemption of a pending join has settled as joined, no racing refusal shows
\* the person anything else until they come back through the link.
VerdictSticks == \A u \in Users : told[u] => pend[u] = "JOINED"
=============================================================================
