----------------------- MODULE CourseMembershipProofs -----------------------
(* Proofs about CourseMembership, for every set of users and requests, every *)
(* cap and every number of faults.                                           *)
EXTENDS CourseMembership, FiniteSetTheorems, TLAPS

Outs == {"none", "joined", "enrolled", "refused", "error"}
Ops == {"none", "add", "role", "remove", "head", "ta", "redeem", "pending"}

\* What a request's place says of its other fields.
WellFormed(x) ==
    /\ x.pc \notin {"idle", "done"} => x.user \in Users
    /\ x.pc \in {"idle", "member", "claim"} => ~x.slot
    /\ x.pc \in {"create", "look", "reactivate"} /\ x.op \in {"redeem", "pending"} => x.slot
    /\ x.pc = "release" => x.slot
    /\ x.pc = "settle" => x.out \in {"joined", "enrolled", "refused"}
    /\ x.pc \notin {"settle", "done"} => x.out = "none"
    /\ x.out = "joined" => x.slot

\* The course row is with the request that is about to write, and no other is.
Held == \A r \in Requests : req[r].pc = "write" <=> lock = r

\* What a transaction decided still holds when it writes.
Decided ==
    ~stale => \A r \in Requests : req[r].pc = "write" =>
        /\ req[r].ok <=> Teaches(enr, User(r))
        /\ Demotes(r) => \E v \in Users \ {User(r)} : Teaches(enr, v)

IInv ==
    /\ TypeOK /\ Held /\ (\A r \in Requests : WellFormed(req[r]))
    /\ FloorKept /\ HeadTeaches /\ Decided /\ SeatsCounted /\ VerdictSticks

------------------------------------------------------------------------------
(* What the steps of a request do to it.                                     *)

\* A request that is replaced by a record leaves the others alone.
LEMMA Replaced ==
  ASSUME req \in [Requests -> ReqType], NEW r \in Requests, NEW x \in ReqType, req' = [req EXCEPT ![r] = x]
  PROVE  req' \in [Requests -> ReqType] /\ req'[r] = x /\ \A q \in Requests \ {r} : req'[q] = req[q]
OBVIOUS

\* Goto changes the place of one request.
LEMMA GotoFields ==
  ASSUME req \in [Requests -> ReqType], NEW r \in Requests, NEW p \in Pcs, Goto(r, p)
  PROVE  /\ req' \in [Requests -> ReqType] /\ \A q \in Requests \ {r} : req'[q] = req[q]
         /\ req'[r].pc = p /\ req'[r].op = req[r].op /\ req'[r].user = req[r].user
         /\ req'[r].role = req[r].role /\ req'[r].ok = req[r].ok /\ req'[r].slot = req[r].slot
         /\ req'[r].out = req[r].out
<1> DEFINE x == [req[r] EXCEPT !.pc = p]
<1>1. req[r] \in ReqType
  OBVIOUS
<1>2. /\ x \in ReqType /\ x.pc = p /\ x.op = req[r].op /\ x.user = req[r].user
      /\ x.role = req[r].role /\ x.ok = req[r].ok /\ x.slot = req[r].slot /\ x.out = req[r].out
  BY <1>1 DEF ReqType
<1>3. req' = [req EXCEPT ![r] = x]
  BY DEF Goto
<1> HIDE DEF x
<1> QED BY <1>2, <1>3, Replaced

\* A request that begins is new but for its place, operation, user, role and flag.
LEMMA NewFields ==
  ASSUME req \in [Requests -> ReqType], NEW r \in Requests, NEW p \in Pcs, NEW o \in Ops, NEW u \in Users,
         NEW rl \in Roles, NEW b \in BOOLEAN,
         req' = [req EXCEPT ![r] = [NewReq EXCEPT !.pc = p, !.op = o, !.user = u, !.role = rl, !.ok = b]]
  PROVE  /\ req' \in [Requests -> ReqType] /\ \A q \in Requests \ {r} : req'[q] = req[q]
         /\ req'[r].pc = p /\ req'[r].op = o /\ req'[r].user = u /\ req'[r].role = rl
         /\ req'[r].ok = b /\ req'[r].slot = FALSE /\ req'[r].out = "none"
<1> DEFINE x == [NewReq EXCEPT !.pc = p, !.op = o, !.user = u, !.role = rl, !.ok = b]
<1>1. /\ x \in ReqType /\ x.pc = p /\ x.op = o /\ x.user = u /\ x.role = rl /\ x.ok = b
      /\ x.slot = FALSE /\ x.out = "none"
  BY DEF NewReq, ReqType, Ops
<1>2. req' = [req EXCEPT ![r] = x]
  OBVIOUS
<1> HIDE DEF x
<1> QED BY <1>1, <1>2, Replaced

\* The same for the ways a request begins.
LEMMA BeginFields ==
  ASSUME req \in [Requests -> ReqType], NEW r \in Requests, NEW p \in Pcs, NEW o \in Ops, NEW u \in Users,
         NEW rl \in Roles, Begin(r, o, u, rl, p)
  PROVE  /\ req' \in [Requests -> ReqType] /\ \A q \in Requests \ {r} : req'[q] = req[q]
         /\ req'[r].pc = p /\ req'[r].op = o /\ req'[r].user = u /\ req'[r].role = rl
         /\ req'[r].slot = FALSE /\ req'[r].out = "none" /\ req[r].pc = "idle"
<1> DEFINE x == [NewReq EXCEPT !.pc = p, !.op = o, !.user = u, !.role = rl]
<1>1. /\ x \in ReqType /\ x.pc = p /\ x.op = o /\ x.user = u /\ x.role = rl
      /\ x.slot = FALSE /\ x.out = "none"
  BY DEF NewReq, ReqType, Ops
<1>2. req' = [req EXCEPT ![r] = x] /\ req[r].pc = "idle"
  BY DEF Begin
<1> HIDE DEF x
<1> QED BY <1>1, <1>2, Replaced

\* A request that ends keeps its slot and an answer.
LEMMA DoneFields ==
  ASSUME req \in [Requests -> ReqType], NEW r \in Requests, NEW o \in Outs, Done(r, o)
  PROVE  /\ req' \in [Requests -> ReqType] /\ \A q \in Requests \ {r} : req'[q] = req[q]
         /\ req'[r].pc = "done" /\ req'[r].slot = req[r].slot /\ req'[r].out = o
<1> DEFINE x == [NewReq EXCEPT !.pc = "done", !.slot = req[r].slot, !.out = o]
<1>1. req[r].slot \in BOOLEAN
  BY DEF ReqType, TypeOK
<1>2. x \in ReqType /\ x.pc = "done" /\ x.slot = req[r].slot /\ x.out = o
  BY <1>1 DEF NewReq, ReqType, Pcs, Outs, Roles
<1>3. req' = [req EXCEPT ![r] = x]
  BY DEF Done
<1> HIDE DEF x
<1> QED BY <1>2, <1>3, Replaced

\* An answered redemption ends, or goes on to write its verdict.
LEMMA AnswerFields ==
  ASSUME req \in [Requests -> ReqType], NEW r \in Requests, NEW o \in Outs, Answer(r, o)
  PROVE  /\ req' \in [Requests -> ReqType] /\ \A q \in Requests \ {r} : req'[q] = req[q]
         /\ req'[r].slot = req[r].slot /\ req'[r].out = o
         /\ \/ req'[r].pc = "done"
            \/ req'[r].pc = "settle" /\ req'[r].user = req[r].user
<1>1. CASE req[r].op = "pending"
  <2> DEFINE x == [req[r] EXCEPT !.pc = "settle", !.out = o]
  <2>1. req[r] \in ReqType
    OBVIOUS
  <2>2. x \in ReqType /\ x.pc = "settle" /\ x.user = req[r].user /\ x.slot = req[r].slot /\ x.out = o
    BY <2>1 DEF ReqType, Pcs, Outs
  <2>3. req' = [req EXCEPT ![r] = x]
    BY <1>1 DEF Answer
  <2> HIDE DEF x
  <2> QED BY <2>2, <2>3, Replaced
<1>2. CASE req[r].op # "pending"
  BY <1>2, DoneFields DEF Answer
<1> QED BY <1>1, <1>2

\* addEnrollment came back: what becomes of the request and its slot.
LEMMA ReturnedFields ==
  ASSUME req \in [Requests -> ReqType], NEW r \in Requests, NEW o \in {"joined", "enrolled", "error"},
         Returned(r, o), WellFormed(req[r]), req[r].pc \in {"create", "look", "reactivate"}
  PROVE  /\ req' \in [Requests -> ReqType] /\ \A q \in Requests \ {r} : req'[q] = req[q]
         /\ req'[r].slot = req[r].slot /\ req'[r].pc \in {"done", "settle", "release"}
         /\ WellFormed(req'[r])
<1>1. CASE ~Redeems(r)
  <2>1. Done(r, "none")
    BY <1>1 DEF Returned
  <2> QED BY <2>1, DoneFields DEF WellFormed, Outs
<1>2. CASE Redeems(r) /\ o = "error"
  <2>1. Goto(r, "release")
    BY <1>2 DEF Returned
  <2> QED BY <1>2, <2>1, GotoFields DEF WellFormed, Pcs, Redeems
<1>3. CASE Redeems(r) /\ o # "error"
  <2>1. Answer(r, o)
    BY <1>3 DEF Returned
  <2> QED BY <1>3, <2>1, AnswerFields DEF WellFormed, Outs, Redeems
<1> QED BY <1>1, <1>2, <1>3

\* The steps of one request.
ReqNext(r) ==
    \/ AddEnrollment(r) \/ Create(r) \/ Conflict(r) \/ Look(r) \/ Reactivate(r) \/ AddFails(r)
    \/ ChangeRole(r) \/ Deactivate(r) \/ Decide(r) \/ Refuse(r) \/ Write(r) \/ WriteFails(r)
    \/ NameHead(r) \/ WriteHead(r) \/ AddTA(r) \/ Upsert(r) \/ RemoveTA(r)
    \/ Redeem(r) \/ RedeemPending(r) \/ CheckMember(r) \/ ClaimSlot(r) \/ ReleaseSlot(r)
    \/ RedeemFails(r) \/ Settle(r) \/ Dies(r)

\* A request stays well formed and alone in its step; it takes the course row by deciding,
\* and gives it back by ending.
LEMMA RequestStep ==
  ASSUME TypeOK, NEW r \in Requests, WellFormed(req[r]), ReqNext(r)
  PROVE  /\ req' \in [Requests -> ReqType] /\ (\A q \in Requests \ {r} : req'[q] = req[q])
         /\ WellFormed(req'[r])
         /\ \/ lock' = lock /\ req[r].pc # "write" /\ req'[r].pc # "write"
            \/ Decide(r) /\ req'[r].pc = "write"
            \/ lock' = Unlocked(r) /\ req'[r].pc = "done"
         /\ \/ req'[r].slot = req[r].slot /\ link'.count = link.count
            \/ ClaimSlot(r) /\ Usable /\ ~req[r].slot /\ req'[r].slot
               /\ link' = [link EXCEPT !.count = @ + 1]
            \/ ReleaseSlot(r) /\ req[r].slot /\ ~req'[r].slot
<1>0. req \in [Requests -> ReqType] /\ req[r] \in ReqType /\ req[r].slot \in BOOLEAN
  BY DEF ReqType, TypeOK
<1>1. CASE AddEnrollment(r)
  <2>1. PICK u \in Users, rl \in Roles : Begin(r, "add", u, rl, "create")
    BY <1>1 DEF AddEnrollment
  <2>2. UNCHANGED <<lock, link>>
    BY <1>1 DEF AddEnrollment, Joins
  <2>3. "create" \in Pcs /\ "add" \in Ops
    BY DEF Pcs, Ops, Roles
  <2>4. /\ req' \in [Requests -> ReqType] /\ (\A q \in Requests \ {r} : req'[q] = req[q])
        /\ req'[r].pc = "create" /\ req'[r].user = u /\ req'[r].slot = FALSE /\ req'[r].out = "none"
        /\ req[r].pc = "idle"
    BY <1>0, <2>1, <2>3, BeginFields
  <2>5. req'[r].op = "add"
    BY <1>0, <2>1 DEF Begin, NewReq
  <2> QED BY <1>0, <2>2, <2>4, <2>5 DEF WellFormed
<1>2. CASE Create(r)
  <2>1. Returned(r, "joined") /\ req[r].pc = "create" /\ UNCHANGED <<lock, link>>
    BY <1>2 DEF Create, Joins
  <2> QED BY <1>0, <2>1, ReturnedFields
<1>3. CASE Conflict(r)
  <2>1. Goto(r, "look") /\ req[r].pc = "create" /\ UNCHANGED <<lock, link>>
    BY <1>3 DEF Conflict, Joins
  <2> QED BY <1>0, <2>1, GotoFields DEF WellFormed, Pcs
<1>4. CASE Look(r)
  <2>1. req[r].pc = "look" /\ UNCHANGED <<lock, link>> /\ (Goto(r, "reactivate") \/ Returned(r, "enrolled"))
    BY <1>4 DEF Look, Joins
  <2>2. CASE Goto(r, "reactivate")
    BY <1>0, <2>1, <2>2, GotoFields DEF WellFormed, Pcs
  <2>3. CASE Returned(r, "enrolled")
    BY <1>0, <2>1, <2>3, ReturnedFields
  <2> QED BY <2>1, <2>2, <2>3
<1>5. CASE Reactivate(r)
  <2>1. Returned(r, "joined") /\ req[r].pc = "reactivate" /\ UNCHANGED <<lock, link>>
    BY <1>5 DEF Reactivate, Joins
  <2> QED BY <1>0, <2>1, ReturnedFields
<1>6. CASE AddFails(r)
  <2>1. Returned(r, "error") /\ req[r].pc \in {"create", "look", "reactivate"} /\ UNCHANGED <<lock, link>>
    BY <1>6 DEF AddFails, Joins
  <2> QED BY <1>0, <2>1, ReturnedFields
<1>7. CASE ChangeRole(r)
  <2>1. PICK u \in Users, rl \in Roles : Begin(r, "role", u, rl, "lock")
    BY <1>7 DEF ChangeRole
  <2>2. UNCHANGED <<lock, link>>
    BY <1>7 DEF ChangeRole, Joins
  <2>3. "lock" \in Pcs /\ "role" \in Ops
    BY DEF Pcs, Ops, Roles
  <2>4. /\ req' \in [Requests -> ReqType] /\ (\A q \in Requests \ {r} : req'[q] = req[q])
        /\ req'[r].pc = "lock" /\ req'[r].user = u /\ req'[r].slot = FALSE /\ req'[r].out = "none"
        /\ req[r].pc = "idle"
    BY <1>0, <2>1, <2>3, BeginFields
  <2> QED BY <1>0, <2>2, <2>4 DEF WellFormed
<1>8. CASE Deactivate(r)
  <2>1. PICK u \in Users : Begin(r, "remove", u, "STUDENT", "lock")
    BY <1>8 DEF Deactivate
  <2>2. UNCHANGED <<lock, link>>
    BY <1>8 DEF Deactivate, Joins
  <2>3. "lock" \in Pcs /\ "remove" \in Ops /\ "STUDENT" \in Roles
    BY DEF Pcs, Ops, Roles
  <2>4. /\ req' \in [Requests -> ReqType] /\ (\A q \in Requests \ {r} : req'[q] = req[q])
        /\ req'[r].pc = "lock" /\ req'[r].user = u /\ req'[r].slot = FALSE /\ req'[r].out = "none"
        /\ req[r].pc = "idle"
    BY <1>0, <2>1, <2>3, BeginFields
  <2> QED BY <1>0, <2>2, <2>4 DEF WellFormed
<1>9. CASE Decide(r)
  <2> DEFINE x == [req[r] EXCEPT !.pc = "write", !.ok = Teaches(enr, User(r))]
  <2>1. /\ x \in ReqType /\ x.pc = "write" /\ x.user = req[r].user /\ x.slot = req[r].slot
        /\ x.out = req[r].out
    BY <1>0 DEF ReqType, Pcs, Teaches
  <2>2. req' = [req EXCEPT ![r] = x] /\ req[r].pc = "lock" /\ UNCHANGED link
    BY <1>9 DEF Decide, Joins
  <2> HIDE DEF x
  <2> QED BY <1>0, <1>9, <2>1, <2>2, Replaced DEF WellFormed
<1>10. CASE Refuse(r)
  <2>1. Done(r, "none") /\ req[r].pc = "lock" /\ UNCHANGED <<lock, link>>
    BY <1>10 DEF Refuse, Joins
  <2> QED BY <1>0, <2>1, DoneFields DEF WellFormed, Outs
<1>11. CASE Write(r)
  <2>1. Done(r, "none") /\ lock' = Unlocked(r) /\ UNCHANGED link
    BY <1>11 DEF Write, Joins
  <2> QED BY <1>0, <2>1, DoneFields DEF WellFormed, Outs
<1>12. CASE WriteFails(r)
  <2>1. Done(r, "none") /\ lock' = Unlocked(r) /\ UNCHANGED link
    BY <1>12 DEF WriteFails, Joins
  <2> QED BY <1>0, <2>1, DoneFields DEF WellFormed, Outs
<1>13. CASE NameHead(r)
  <2>1. PICK u \in Users : req' = [req EXCEPT ![r] =
            [NewReq EXCEPT !.pc = "name", !.op = "head", !.user = u, !.ok = (u # head)]]
    BY <1>13 DEF NameHead
  <2>2. UNCHANGED <<lock, link>> /\ req[r].pc = "idle"
    BY <1>13 DEF NameHead, Joins
  <2> DEFINE x == [NewReq EXCEPT !.pc = "name", !.op = "head", !.user = u, !.ok = (u # head)]
  <2>3. x \in ReqType /\ x.pc = "name" /\ x.user = u /\ x.slot = FALSE /\ x.out = "none"
    BY DEF NewReq, ReqType, Pcs, Roles
  <2>4. req' = [req EXCEPT ![r] = x]
    BY <2>1
  <2> HIDE DEF x
  <2> QED BY <1>0, <2>2, <2>3, <2>4, Replaced DEF WellFormed
<1>14. CASE WriteHead(r)
  <2>1. Done(r, "none") /\ req[r].pc = "name" /\ UNCHANGED <<lock, link>>
    BY <1>14 DEF WriteHead, Joins
  <2> QED BY <1>0, <2>1, DoneFields DEF WellFormed, Outs
<1>15. CASE AddTA(r)
  <2>1. PICK u \in Users : Begin(r, "ta", u, "TA", "upsert")
    BY <1>15 DEF AddTA
  <2>2. UNCHANGED <<lock, link>>
    BY <1>15 DEF AddTA, Joins
  <2>3. "upsert" \in Pcs /\ "ta" \in Ops /\ "TA" \in Roles
    BY DEF Pcs, Ops, Roles
  <2>4. /\ req' \in [Requests -> ReqType] /\ (\A q \in Requests \ {r} : req'[q] = req[q])
        /\ req'[r].pc = "upsert" /\ req'[r].user = u /\ req'[r].slot = FALSE /\ req'[r].out = "none"
        /\ req[r].pc = "idle"
    BY <1>0, <2>1, <2>3, BeginFields
  <2> QED BY <1>0, <2>2, <2>4 DEF WellFormed
<1>16. CASE Upsert(r)
  <2>1. Done(r, "none") /\ req[r].pc = "upsert" /\ UNCHANGED <<lock, link>>
    BY <1>16 DEF Upsert, Joins
  <2> QED BY <1>0, <2>1, DoneFields DEF WellFormed, Outs
<1>17. CASE RemoveTA(r)
  <2>1. Done(r, "none") /\ req[r].pc = "idle" /\ UNCHANGED <<lock, link>>
    BY <1>17 DEF RemoveTA, Joins
  <2> QED BY <1>0, <2>1, DoneFields DEF WellFormed, Outs
<1>18. CASE Redeem(r) \/ RedeemPending(r)
  <2>1. PICK u \in Users, o \in {"redeem", "pending"} : Resolve(r, o, u)
    BY <1>18 DEF Redeem, RedeemPending
  <2> DEFINE x == [NewReq EXCEPT !.pc = "member", !.op = o, !.user = u, !.ok = Usable]
  <2>2. x \in ReqType /\ x.pc = "member" /\ x.user = u /\ x.slot = FALSE /\ x.out = "none"
    BY DEF NewReq, ReqType, Pcs, Roles, Usable
  <2>3. req' = [req EXCEPT ![r] = x] /\ req[r].pc = "idle" /\ UNCHANGED <<lock, link>>
    BY <2>1 DEF Resolve, Joins
  <2> HIDE DEF x
  <2> QED BY <1>0, <2>2, <2>3, Replaced DEF WellFormed
<1>19. CASE CheckMember(r)
  <2>1. req[r].pc = "member" /\ UNCHANGED <<lock, link>>
    BY <1>19 DEF CheckMember, Joins
  <2>2. CASE Goto(r, "claim")
    BY <1>0, <2>1, <2>2, GotoFields DEF WellFormed, Pcs
  <2>3. CASE Answer(r, "enrolled") \/ Answer(r, "refused")
    BY <1>0, <2>1, <2>3, AnswerFields DEF WellFormed, Outs
  <2> QED BY <1>19, <2>2, <2>3 DEF CheckMember
<1>20. CASE ClaimSlot(r)
  <2>1. req[r].pc = "claim" /\ UNCHANGED lock
    BY <1>20 DEF ClaimSlot
  <2>2. CASE MayClaim(r)
    <3> DEFINE x == [req[r] EXCEPT !.pc = "create", !.slot = TRUE]
    <3>1. x \in ReqType /\ x.pc = "create" /\ x.user = req[r].user /\ x.slot /\ x.out = req[r].out
      BY <1>0 DEF ReqType, Pcs
    <3>2. req' = [req EXCEPT ![r] = x] /\ Usable /\ link' = [link EXCEPT !.count = @ + 1]
      BY <1>20, <2>2 DEF ClaimSlot, MayClaim
    <3> HIDE DEF x
    <3>3. req' \in [Requests -> ReqType] /\ req'[r] = x /\ \A q \in Requests \ {r} : req'[q] = req[q]
      BY <1>0, <3>1, <3>2, Replaced
    <3> QED BY <1>20, <2>1, <3>1, <3>2, <3>3 DEF WellFormed
  <2>3. CASE ~MayClaim(r)
    <3>1. Answer(r, "refused") /\ UNCHANGED link
      BY <1>20, <2>3 DEF ClaimSlot
    <3> QED BY <1>0, <2>1, <3>1, AnswerFields DEF WellFormed, Outs
  <2> QED BY <2>2, <2>3
<1>21. CASE ReleaseSlot(r)
  <2> DEFINE x == [NewReq EXCEPT !.pc = "done", !.out = "error"]
  <2>1. x \in ReqType /\ x.pc = "done" /\ x.slot = FALSE /\ x.out = "error"
    BY DEF NewReq, ReqType, Pcs, Roles
  <2>2. req' = [req EXCEPT ![r] = x] /\ req[r].pc = "release" /\ UNCHANGED lock
    BY <1>21 DEF ReleaseSlot
  <2> HIDE DEF x
  <2> QED BY <1>0, <1>21, <2>1, <2>2, Replaced DEF WellFormed
<1>22. CASE RedeemFails(r)
  <2>1. /\ req[r].pc \in {"member", "claim", "release", "settle"} /\ UNCHANGED <<lock, link>>
        /\ Done(r, IF req[r].out = "none" THEN "error" ELSE req[r].out)
    BY <1>22 DEF RedeemFails, Joins
  <2>2. (IF req[r].out = "none" THEN "error" ELSE req[r].out) \in Outs
    BY <1>0 DEF ReqType, Outs
  <2> QED BY <1>0, <2>1, <2>2, DoneFields DEF WellFormed
<1>23. CASE Settle(r)
  <2>1. Done(r, req[r].out) /\ req[r].pc = "settle" /\ UNCHANGED <<lock, link>>
    BY <1>23 DEF Settle
  <2>2. req[r].out \in Outs
    BY <1>0 DEF ReqType, Outs
  <2> QED BY <1>0, <2>1, <2>2, DoneFields DEF WellFormed
<1>24. CASE Dies(r)
  <2>1. Done(r, "none") /\ lock' = Unlocked(r) /\ UNCHANGED link
    BY <1>24 DEF Dies, Joins
  <2> QED BY <1>0, <2>1, DoneFields DEF WellFormed, Outs
<1> QED BY <1>1, <1>2, <1>3, <1>4, <1>5, <1>6, <1>7, <1>8, <1>9, <1>10, <1>11, <1>12, <1>13, <1>14,
           <1>15, <1>16, <1>17, <1>18, <1>19, <1>20, <1>21, <1>22, <1>23, <1>24 DEF ReqNext

------------------------------------------------------------------------------
(* The enrollments and the head.                                             *)

\* The three facts about the course survive a step that takes the role from nobody, gives
\* it to nobody while a decision is open, and names no head who lacks it.
LEMMA Quiet ==
  ASSUME IInv, NEW r \in Requests,
         \A q \in Requests \ {r} : req'[q] = req[q],
         req'[r].pc # "write",
         ~stale' =>
            /\ ~stale
            /\ \A v \in Users : Teaches(enr, v) => Teaches(enr', v)
            /\ lock # Nobody => \A v \in Users : Teaches(enr', v) => Teaches(enr, v)
            /\ head' = head \/ Teaches(enr', head')
  PROVE  FloorKept' /\ HeadTeaches' /\ Decided'
<1>1. FloorKept'
  BY DEF IInv, FloorKept, Instructors
<1>2. HeadTeaches'
  <2>1. head = Nobody \/ head \in Users
    BY DEF IInv, TypeOK
  <2> QED BY <2>1 DEF IInv, HeadTeaches
<1>3. Decided'
  <2> SUFFICES ASSUME ~stale', NEW q \in Requests, req'[q].pc = "write"
               PROVE  /\ req'[q].ok <=> Teaches(enr', req'[q].user)
                      /\ (req'[q].op = "remove" \/ req'[q].role # "INSTRUCTOR")
                            => \E v \in Users \ {req'[q].user} : Teaches(enr', v)
    BY DEF Decided, Demotes, User
  <2>1. q # r /\ req'[q] = req[q]
    OBVIOUS
  <2>2. lock # Nobody /\ req[q].user \in Users
    BY <2>1, MembershipConstants DEF IInv, Held, WellFormed
  <2>3. /\ req[q].ok <=> Teaches(enr, req[q].user)
        /\ (req[q].op = "remove" \/ req[q].role # "INSTRUCTOR")
              => \E v \in Users \ {req[q].user} : Teaches(enr, v)
    BY <2>1 DEF IInv, Decided, Demotes, User
  <2> QED BY <2>1, <2>2, <2>3
<1> QED BY <1>1, <1>2, <1>3

\* A step that leaves the course alone and opens no decision.
LEMMA CourseSame ==
  ASSUME IInv, NEW r \in Requests, \A q \in Requests \ {r} : req'[q] = req[q],
         req'[r].pc # "write", UNCHANGED Course
  PROVE  FloorKept' /\ HeadTeaches' /\ Decided'
BY Quiet DEF Course

\* A user given a role in an otherwise unchanged course.
LEMMA RoleGiven ==
  ASSUME enr \in [Users -> Rows], NEW u \in Users, NEW rl \in Roles,
         enr' = [enr EXCEPT ![u] = [st |-> "active", role |-> rl]]
  PROVE  /\ enr' \in [Users -> Rows] /\ (Teaches(enr', u) <=> rl = "INSTRUCTOR")
         /\ \A v \in Users \ {u} : Teaches(enr', v) <=> Teaches(enr, v)
<1>1. [st |-> "active", role |-> rl] \in Rows
  BY DEF Rows
<1> QED BY <1>1 DEF Teaches

\* If the floor does not stop a request, another user teaches, or its own does not.
LEMMA FloorLeaves ==
  ASSUME IInv, ~stale, NEW u \in Users, ~Floor(u)
  PROVE  \E v \in Users \ {u} : Teaches(enr, v)
<1> SUFFICES ASSUME \A v \in Users \ {u} : ~Teaches(enr, v) PROVE FALSE
  OBVIOUS
<1>1. Instructors(enr) # {}
  BY DEF IInv, FloorKept
<1>2. Instructors(enr) = {u} /\ Teaches(enr, u)
  BY <1>1 DEF Instructors
<1>3. Cardinality({u}) = 1
  BY FS_Singleton
<1> QED BY <1>2, <1>3 DEF Floor


\* What a transaction decides is true when it decides.
LEMMA DecideStep ==
  ASSUME IInv, NEW r \in Requests, Decide(r)
  PROVE  FloorKept' /\ HeadTeaches' /\ Decided'
<1> DEFINE x == [req[r] EXCEPT !.pc = "write", !.ok = Teaches(enr, User(r))]
<1>1. req \in [Requests -> ReqType] /\ req[r] \in ReqType
  BY DEF IInv, TypeOK
<1>2. /\ x.ok = Teaches(enr, req[r].user) /\ x.user = req[r].user /\ x.op = req[r].op
      /\ x.role = req[r].role
  BY <1>1 DEF ReqType, User
<1>3. req' = [req EXCEPT ![r] = x] /\ lock = Nobody /\ req[r].pc = "lock"
      /\ ~(Demotes(r) /\ Floor(User(r))) /\ UNCHANGED <<enr, head, stale>>
  BY DEF Decide, RowFree, Course
<1> HIDE DEF x
<1>4. req'[r] = x /\ \A q \in Requests \ {r} : req'[q] = req[q]
  BY <1>1, <1>3
<1>5. \A q \in Requests : req[q].pc # "write"
  BY <1>3, MembershipConstants DEF IInv, Held
<1>6. FloorKept' /\ HeadTeaches'
  BY <1>3 DEF IInv, FloorKept, HeadTeaches
<1>7. req[r].user \in Users
  BY <1>3 DEF IInv, WellFormed
<1>8. Decided'
  <2> SUFFICES ASSUME ~stale', NEW q \in Requests, req'[q].pc = "write"
               PROVE  /\ req'[q].ok <=> Teaches(enr', req'[q].user)
                      /\ (req'[q].op = "remove" \/ req'[q].role # "INSTRUCTOR")
                            => \E v \in Users \ {req'[q].user} : Teaches(enr', v)
    BY DEF Decided, Demotes, User
  <2>1. q = r
    BY <1>4, <1>5
  <2>2. CASE Demotes(r)
    <3>1. ~Floor(req[r].user)
      BY <1>3, <2>2 DEF User
    <3>2. \E v \in Users \ {req[r].user} : Teaches(enr, v)
      BY <1>3, <1>7, <3>1, FloorLeaves
    <3> QED BY <1>2, <1>3, <1>4, <2>1, <3>2
  <2>3. CASE ~Demotes(r)
    BY <1>2, <1>3, <1>4, <2>1, <2>3 DEF Demotes
  <2> QED BY <2>2, <2>3
<1> QED BY <1>6, <1>8

\* A removal or a role change leaves an instructor, and the head with one.
LEMMA WriteStep ==
  ASSUME IInv, NEW r \in Requests, Write(r)
  PROVE  /\ enr' \in [Users -> Rows] /\ head' \in Users \cup {Nobody}
         /\ FloorKept' /\ HeadTeaches' /\ Decided'
<1> DEFINE u == req[r].user
           y == IF req[r].op = "remove" THEN [enr[u] EXCEPT !.st = "removed"]
                                        ELSE [enr[u] EXCEPT !.role = req[r].role]
<1>1. req \in [Requests -> ReqType] /\ req[r] \in ReqType /\ enr \in [Users -> Rows]
      /\ head \in Users \cup {Nobody}
  BY DEF IInv, TypeOK
<1>2. req[r].pc = "write" /\ enr' = [enr EXCEPT ![u] = y] /\ Done(r, "none") /\ stale' = stale
  BY DEF Write, User
<1>3. u \in Users /\ enr[u] \in Rows
  BY <1>1, <1>2 DEF IInv, WellFormed
<1>4. y \in Rows
  BY <1>1, <1>3 DEF Rows, ReqType
<1>5. Demotes(r) \/ (req[r].op # "remove" /\ req[r].role = "INSTRUCTOR")
  BY DEF Demotes
<1>6. ~Demotes(r) /\ Teaches(enr, u) => y.st = "active" /\ y.role = "INSTRUCTOR"
  BY <1>3 DEF Demotes, Teaches, Rows
<1> HIDE DEF y
<1>7. enr' \in [Users -> Rows] /\ enr'[u] = y /\ \A v \in Users \ {u} : enr'[v] = enr[v]
  BY <1>1, <1>2, <1>3, <1>4
<1>8. (\A v \in Users \ {u} : Teaches(enr', v) <=> Teaches(enr, v))
      /\ (~Demotes(r) /\ Teaches(enr, u) => Teaches(enr', u))
  BY <1>6, <1>7 DEF Teaches
<1>9. ~stale => /\ req[r].ok <=> Teaches(enr, u)
                /\ Demotes(r) => \E v \in Users \ {u} : Teaches(enr, v)
  BY <1>2 DEF IInv, Decided, User
<1>10. ~stale => \E v \in Users : Teaches(enr', v)
  <2>1. CASE Demotes(r)
    BY <1>8, <1>9, <2>1
  <2>2. CASE ~Demotes(r)
    BY <1>3, <1>8, <2>2 DEF IInv, FloorKept, Instructors
  <2> QED BY <2>1, <2>2
<1>11. FloorKept'
  BY <1>2, <1>10 DEF FloorKept, Instructors
<1>12. IF req[r].ok /\ Demotes(r) /\ head = u
         THEN head' \in (IF Instructors(enr') = {} THEN {Nobody} ELSE Instructors(enr'))
         ELSE head' = head
  BY DEF Write, HeadLeaves, User
<1>13. head' \in Users \cup {Nobody}
  BY <1>1, <1>12 DEF Instructors
<1>14. HeadTeaches'
  <2> SUFFICES ASSUME ~stale, head' # Nobody PROVE Teaches(enr', head')
    BY <1>2 DEF HeadTeaches
  <2>1. CASE req[r].ok /\ Demotes(r) /\ head = u
    BY <1>12, <2>1 DEF Instructors
  <2>2. CASE ~(req[r].ok /\ Demotes(r) /\ head = u)
    <3>1. head' = head /\ Teaches(enr, head) /\ head \in Users
      BY <1>1, <1>12, <2>2 DEF IInv, HeadTeaches
    <3> QED BY <1>8, <1>9, <2>2, <3>1
  <2> QED BY <2>1, <2>2
<1>15. Decided'
  <2>1. \A q \in Requests : req'[q].pc # "write"
    BY <1>1, <1>2, DoneFields DEF IInv, Held, Outs
  <2> QED BY <2>1 DEF Decided
<1> QED BY <1>7, <1>11, <1>13, <1>14, <1>15

\* Every step of a request keeps the enrollments and the head well formed and as promised.
LEMMA CourseStep ==
  ASSUME IInv, NEW r \in Requests, ReqNext(r)
  PROVE  /\ enr' \in [Users -> Rows] /\ head' \in Users \cup {Nobody} /\ stale' \in BOOLEAN
         /\ FloorKept' /\ HeadTeaches' /\ Decided'
<1>1. /\ req \in [Requests -> ReqType] /\ req[r] \in ReqType /\ enr \in [Users -> Rows]
      /\ head \in Users \cup {Nobody} /\ stale \in BOOLEAN /\ WellFormed(req[r])
  BY DEF IInv, TypeOK
<1>2. \A q \in Requests \ {r} : req'[q] = req[q]
  BY <1>1, RequestStep DEF IInv
<1>3. ~Decide(r) => req'[r].pc # "write"
  BY <1>1, RequestStep DEF IInv
<1>4. CASE Create(r)
  <2>1. /\ req[r].user \in Users /\ req[r].role \in Roles /\ lock = Nobody /\ stale' = stale
        /\ enr[req[r].user].st = "none"
        /\ enr' = [enr EXCEPT ![req[r].user] = [st |-> "active", role |-> req[r].role]]
    BY <1>1, <1>4 DEF Create, WellFormed, ReqType, User
  <2>2. head' = head \/ (head' = req[r].user /\ req[r].role = "INSTRUCTOR")
    BY <1>4 DEF Create, ClaimPrimary, User
  <2>3. req'[r].pc # "write"
    BY <1>1, <1>3, <1>4 DEF Create, Decide
  <2>4. ~Teaches(enr, req[r].user)
    BY <2>1 DEF Teaches
  <2> QED BY <1>1, <1>2, <2>1, <2>2, <2>3, <2>4, RoleGiven, Quiet
<1>5. CASE Reactivate(r)
  <2>1. /\ req[r].user \in Users /\ req[r].role \in Roles /\ (req[r].role = "INSTRUCTOR" => lock = Nobody)
        /\ enr' = [enr EXCEPT ![req[r].user] = [st |-> "active", role |-> req[r].role]]
    BY <1>1, <1>5 DEF Reactivate, WellFormed, ReqType, User
  <2>2. head' = head \/ (head' = req[r].user /\ req[r].role = "INSTRUCTOR")
    BY <1>5 DEF Reactivate, ClaimPrimary, User
  <2>3. req'[r].pc # "write"
    BY <1>1, <1>3, <1>5 DEF Reactivate, Decide
  <2>4. /\ stale' \in BOOLEAN
        /\ ~stale' => ~stale /\ (Teaches(enr, req[r].user) => req[r].role = "INSTRUCTOR")
    BY <1>1, <1>5 DEF Reactivate, Overwrites, User
  <2> QED BY <1>1, <1>2, <2>1, <2>2, <2>3, <2>4, RoleGiven, Quiet
<1>6. CASE WriteHead(r)
  <2>1. /\ req[r].user \in Users /\ lock = Nobody /\ head' = req[r].user /\ stale' \in BOOLEAN
        /\ ~stale' => ~stale /\ Teaches(enr', req[r].user)
        /\ \/ enr' = enr
           \/ enr' = [enr EXCEPT ![req[r].user] = [st |-> "active", role |-> "INSTRUCTOR"]]
    BY <1>1, <1>6 DEF WriteHead, WellFormed, User
  <2>2. req'[r].pc # "write"
    BY <1>3, <1>6 DEF WriteHead, Decide
  <2>3. /\ enr' \in [Users -> Rows]
        /\ \A v \in Users : Teaches(enr, v) => Teaches(enr', v)
    <3>1. "INSTRUCTOR" \in Roles
      BY DEF Roles
    <3> QED BY <1>1, <2>1, <3>1, RoleGiven
  <2> QED BY <1>1, <1>2, <2>1, <2>2, <2>3, Quiet
<1>7. CASE Upsert(r)
  <2>1. /\ req[r].user \in Users /\ head' = head /\ stale' \in BOOLEAN
        /\ ~stale' => ~stale /\ ~Teaches(enr, req[r].user)
        /\ enr' = [enr EXCEPT ![req[r].user] = [st |-> "active", role |-> "TA"]]
    BY <1>1, <1>7 DEF Upsert, Overwrites, WellFormed, User
  <2>2. req'[r].pc # "write" /\ "TA" \in Roles
    BY <1>3, <1>7 DEF Upsert, Decide, Roles
  <2> QED BY <1>1, <1>2, <2>1, <2>2, RoleGiven, Quiet
<1>8. CASE RemoveTA(r)
  <2>1. PICK u \in Users : enr[u] = [st |-> "active", role |-> "TA"] /\ enr' = [enr EXCEPT ![u].role = "STUDENT"]
    BY <1>8 DEF RemoveTA
  <2>2. enr' = [enr EXCEPT ![u] = [st |-> "active", role |-> "STUDENT"]]
    <3>1. [enr[u] EXCEPT !.role = "STUDENT"] = [st |-> "active", role |-> "STUDENT"]
      BY <2>1
    <3> QED BY <2>1, <3>1
  <2>3. head' = head /\ stale' = stale /\ req'[r].pc # "write" /\ "STUDENT" \in Roles
    BY <1>3, <1>8 DEF RemoveTA, Decide, Roles
  <2>4. ~Teaches(enr, u)
    BY <2>1 DEF Teaches
  <2> QED BY <1>1, <1>2, <2>2, <2>3, <2>4, RoleGiven, Quiet
<1>9. CASE Decide(r)
  BY <1>1, <1>9, DecideStep DEF Decide, Course
<1>10. CASE Write(r)
  BY <1>1, <1>10, WriteStep DEF Write
<1>11. CASE UNCHANGED Course /\ ~Decide(r)
  BY <1>1, <1>2, <1>3, <1>11, CourseSame DEF Course
<1> QED
  <2>1. \/ Create(r) \/ Reactivate(r) \/ WriteHead(r) \/ Upsert(r) \/ RemoveTA(r) \/ Decide(r) \/ Write(r)
        \/ UNCHANGED Course
    BY DEF ReqNext, AddEnrollment, Conflict, Look, AddFails, ChangeRole, Deactivate, Refuse, WriteFails,
           NameHead, AddTA, Redeem, RedeemPending, Resolve, CheckMember, ClaimSlot, ReleaseSlot,
           RedeemFails, Settle, Dies
  <2> QED BY <1>4, <1>5, <1>6, <1>7, <1>8, <1>9, <1>10, <1>11, <2>1

------------------------------------------------------------------------------
(* The link and the pending joins.                                           *)

\* The slots stay counted and under the cap.
LEMMA SeatsStep ==
  ASSUME IInv, NEW r \in Requests, ReqNext(r)
  PROVE  link' \in [open : BOOLEAN, count : Nat] /\ SeatsCounted'
<1>1. /\ req \in [Requests -> ReqType] /\ req[r] \in ReqType /\ WellFormed(req[r])
      /\ link \in [open : BOOLEAN, count : Nat]
  BY DEF IInv, TypeOK
<1>2. /\ req' \in [Requests -> ReqType] /\ WellFormed(req'[r]) /\ (\A q \in Requests \ {r} : req'[q] = req[q])
      /\ \/ req'[r].slot = req[r].slot /\ link'.count = link.count
         \/ ClaimSlot(r) /\ Usable /\ ~req[r].slot /\ req'[r].slot
            /\ link' = [link EXCEPT !.count = @ + 1]
         \/ ReleaseSlot(r) /\ req[r].slot /\ ~req'[r].slot
  BY <1>1, RequestStep DEF IInv
<1>3. \A q \in Requests : req'[q].out = "joined" => req'[q].slot
  BY <1>2 DEF IInv, SeatsCounted, WellFormed
<1>4. IsFiniteSet(Slots) /\ IsFiniteSet(Slots')
  BY MembershipConstants, FS_Subset DEF Slots
<1>5. link.count = Cardinality(Slots) /\ link.count <= Cap /\ link.count \in Nat
  BY <1>1 DEF IInv, SeatsCounted
<1>6. CASE req'[r].slot = req[r].slot /\ link'.count = link.count
  <2>1. Slots' = Slots
    BY <1>2, <1>6 DEF Slots
  <2>2. link' \in [open : BOOLEAN, count : Nat]
    <3>1. CASE ClaimSlot(r)
      BY <1>1, <1>5, <3>1 DEF ClaimSlot
    <3>2. CASE ReleaseSlot(r)
      <4>1. link' = [link EXCEPT !.count = IF link.count > 0 THEN link.count - 1 ELSE 0]
        BY <1>1, <3>2 DEF ReleaseSlot
      <4> QED BY <1>1, <1>5, <4>1
    <3>3. CASE ~ClaimSlot(r) /\ ~ReleaseSlot(r)
      <4>1. link' = link
        BY <3>3 DEF ReqNext, AddEnrollment, Create, Conflict, Look, Reactivate, AddFails, ChangeRole, Deactivate,
             Decide, Refuse, Write, WriteFails, NameHead, WriteHead, AddTA, Upsert, RemoveTA, Redeem,
             RedeemPending, Resolve, CheckMember, RedeemFails, Settle, Dies, Joins
      <4> QED BY <1>1, <4>1
    <3> QED BY <3>1, <3>2, <3>3
  <2> QED BY <1>3, <1>5, <1>6, <2>1, <2>2 DEF SeatsCounted
<1>7. CASE ~req[r].slot /\ req'[r].slot /\ Usable /\ link' = [link EXCEPT !.count = @ + 1]
  <2>1. Slots' = Slots \cup {r} /\ r \notin Slots
    BY <1>2, <1>7 DEF Slots
  <2>2. Cardinality(Slots') = Cardinality(Slots) + 1
    BY <1>4, <2>1, FS_AddElement
  <2>3. link'.count = link.count + 1 /\ link' \in [open : BOOLEAN, count : Nat]
    BY <1>1, <1>5, <1>7
  <2>4. link'.count <= Cap
    BY <1>5, <1>7, <2>3, MembershipConstants DEF Usable
  <2> QED BY <1>3, <1>5, <2>2, <2>3, <2>4 DEF SeatsCounted
<1>8. CASE ReleaseSlot(r) /\ req[r].slot /\ ~req'[r].slot
  <2>1. Slots' = Slots \ {r} /\ r \in Slots
    BY <1>2, <1>8 DEF Slots
  <2>2. Cardinality(Slots') = Cardinality(Slots) - 1 /\ Cardinality(Slots) # 0
    BY <1>4, <2>1, FS_RemoveElement, FS_EmptySet
  <2>3. link.count > 0
    BY <1>5, <2>2
  <2>4. link' = [link EXCEPT !.count = link.count - 1]
    BY <1>1, <1>8, <2>3 DEF ReleaseSlot
  <2>5. link'.count = link.count - 1 /\ link' \in [open : BOOLEAN, count : Nat]
    BY <1>1, <1>5, <2>3, <2>4
  <2>6. link'.count <= Cap
    BY <1>5, <2>5, MembershipConstants
  <2> QED BY <1>3, <1>5, <2>2, <2>5, <2>6 DEF SeatsCounted
<1> QED BY <1>2, <1>6, <1>7, <1>8

\* A verdict of joined is not replaced by a request.
LEMMA VerdictStep ==
  ASSUME IInv, NEW r \in Requests, ReqNext(r)
  PROVE  /\ pend' \in [Users -> {"none", "pending", "JOINED", "refused"}]
         /\ told' \in [Users -> BOOLEAN] /\ VerdictSticks'
<1>1. /\ pend \in [Users -> {"none", "pending", "JOINED", "refused"}] /\ told \in [Users -> BOOLEAN]
      /\ \A u \in Users : told[u] => pend[u] = "JOINED"
  BY DEF IInv, TypeOK, VerdictSticks
<1>2. CASE Settle(r)
  <2> DEFINE u == req[r].user
             o == req[r].out
             v == IF o = "refused" THEN "refused" ELSE "JOINED"
  <2>1. u \in Users
    BY <1>2 DEF Settle, IInv, WellFormed
  <2>2. pend' = (IF Settles(u, o) THEN [pend EXCEPT ![u] = v] ELSE pend)
        /\ told' = [told EXCEPT ![u] = @ \/ o # "refused"]
    BY <1>2 DEF Settle, User
  <2>3. Settles(u, o) <=> (IF o = "refused" THEN pend[u] = "pending" ELSE pend[u] # "JOINED")
    BY DEF Settles
  <2> HIDE DEF u, o
  <2>4. pend' \in [Users -> {"none", "pending", "JOINED", "refused"}] /\ told' \in [Users -> BOOLEAN]
    BY <1>1, <2>1, <2>2
  <2>5. \A w \in Users \ {u} : pend'[w] = pend[w] /\ told'[w] = told[w]
    BY <1>1, <2>2
  <2>6. told'[u] => pend'[u] = "JOINED"
    <3>1. CASE o = "refused"
      BY <1>1, <2>1, <2>2, <2>3, <3>1
    <3>2. CASE o # "refused"
      BY <1>1, <2>1, <2>2, <2>3, <3>2
    <3> QED BY <3>1, <3>2
  <2> QED BY <1>1, <2>4, <2>5, <2>6 DEF VerdictSticks
<1>3. CASE ~Settle(r)
  <2>1. UNCHANGED <<pend, told>>
    BY <1>3 DEF ReqNext, AddEnrollment, Create, Conflict, Look, Reactivate, AddFails, ChangeRole, Deactivate,
             Decide, Refuse, Write, WriteFails, NameHead, WriteHead, AddTA, Upsert, RemoveTA, Redeem,
             RedeemPending, Resolve, CheckMember, ClaimSlot, ReleaseSlot, RedeemFails, Dies, Joins
  <2> QED BY <1>1, <2>1 DEF VerdictSticks
<1> QED BY <1>2, <1>3

------------------------------------------------------------------------------
(* The invariant.                                                            *)

\* The course row has one holder.
LEMMA LockStep ==
  ASSUME IInv, NEW r \in Requests, ReqNext(r)
  PROVE  lock' \in Requests \cup {Nobody} /\ Held' /\ (lock' # Nobody => req'[lock'].pc = "write")
<1>1. /\ req \in [Requests -> ReqType] /\ WellFormed(req[r]) /\ lock \in Requests \cup {Nobody}
      /\ Nobody \notin Requests
  BY MembershipConstants DEF IInv, TypeOK
<1>2. /\ (\A q \in Requests \ {r} : req'[q] = req[q])
      /\ \/ lock' = lock /\ req[r].pc # "write" /\ req'[r].pc # "write"
         \/ Decide(r) /\ req'[r].pc = "write"
         \/ lock' = Unlocked(r) /\ req'[r].pc = "done"
  BY <1>1, RequestStep DEF IInv
<1>3. \A q \in Requests : req[q].pc = "write" <=> lock = q
  BY DEF IInv, Held
<1>4. CASE lock' = lock /\ req[r].pc # "write" /\ req'[r].pc # "write"
  BY <1>1, <1>2, <1>3, <1>4 DEF Held
<1>5. CASE Decide(r) /\ req'[r].pc = "write"
  <2>1. lock = Nobody /\ lock' = r
    BY <1>5 DEF Decide, RowFree
  <2> QED BY <1>1, <1>2, <1>3, <1>5, <2>1 DEF Held
<1>6. CASE lock' = Unlocked(r) /\ req'[r].pc = "done"
  BY <1>1, <1>2, <1>3, <1>6 DEF Held, Unlocked
<1> QED BY <1>2, <1>4, <1>5, <1>6

\* The invariant holds at the start.
LEMMA InvInit == ASSUME Init PROVE IInv
<1>1. NewReq \in ReqType /\ NewReq.pc = "idle" /\ NewReq.slot = FALSE /\ NewReq.out = "none"
  BY DEF NewReq, ReqType, Pcs, Roles
<1>2. \A r \in Requests : req[r] = NewReq
  BY DEF Init
<1>3. req \in [Requests -> ReqType]
  BY <1>1 DEF Init
<1>4. Slots = {}
  BY <1>1, <1>2 DEF Slots
<1>5. SeatsCounted
  BY <1>1, <1>2, <1>4, FS_EmptySet, MembershipConstants DEF Init, SeatsCounted
<1>6. enr \in [Users -> Rows] /\ head \in Users \cup {Nobody}
  BY DEF Init, Rows, NoRow, Roles, Instructors
<1>7. TypeOK
  BY <1>3, <1>6 DEF Init, TypeOK
<1>8. Held /\ \A r \in Requests : WellFormed(req[r])
  BY <1>1, <1>2, MembershipConstants DEF Init, Held, WellFormed
<1>9. FloorKept /\ HeadTeaches /\ Decided /\ VerdictSticks
  BY <1>1, <1>2 DEF Init, FloorKept, HeadTeaches, Decided, VerdictSticks, Instructors
<1> QED BY <1>5, <1>7, <1>8, <1>9 DEF IInv

\* Every step preserves the invariant.
LEMMA InvStep == ASSUME IInv, [Next]_vars PROVE IInv'
<1>1. CASE \E r \in Requests : ReqNext(r)
  <2>1. PICK r \in Requests : ReqNext(r)
    BY <1>1
  <2>2. faults' \in Nat
    <3>1. faults' = faults \/ Fault
      BY <2>1 DEF ReqNext, AddEnrollment, Create, Conflict, Look, Reactivate, AddFails, ChangeRole,
             Deactivate, Decide, Refuse, Write, WriteFails, NameHead, WriteHead, AddTA, Upsert, RemoveTA,
             Redeem, RedeemPending, Resolve, CheckMember, ClaimSlot, ReleaseSlot, RedeemFails, Settle, Dies
    <3>2. faults \in Nat
      BY DEF IInv, TypeOK
    <3> QED BY <3>1, <3>2 DEF Fault
  <2>3. TypeOK /\ WellFormed(req[r])
    BY DEF IInv
  <2>4. /\ req' \in [Requests -> ReqType] /\ WellFormed(req'[r])
        /\ \A q \in Requests \ {r} : req'[q] = req[q]
    BY <2>1, <2>3, RequestStep
  <2>5. \A q \in Requests : WellFormed(req'[q])
    BY <2>4 DEF IInv
  <2>6. TypeOK' /\ Held'
    BY <2>1, <2>2, <2>4, CourseStep, SeatsStep, VerdictStep, LockStep DEF TypeOK
  <2> QED BY <2>1, <2>5, <2>6, CourseStep, SeatsStep, VerdictStep DEF IInv
<1>2. CASE Revoke
  <2>1. link' = [link EXCEPT !.open = FALSE] /\ UNCHANGED <<enr, head, stale, pend, told, lock, req, faults>>
    BY <1>2 DEF Revoke, Course
  <2>2. link' \in [open : BOOLEAN, count : Nat] /\ link'.count = link.count
    BY <2>1 DEF IInv, TypeOK
  <2> QED BY <2>1, <2>2 DEF IInv, TypeOK, Held, FloorKept, HeadTeaches, Decided, Demotes, User, SeatsCounted, Slots,
             VerdictSticks
<1>3. CASE \E u \in Users : Remember(u)
  <2>1. PICK u \in Users : Remember(u)
    BY <1>3
  <2>2. /\ pend' = [pend EXCEPT ![u] = "pending"] /\ told' = [told EXCEPT ![u] = FALSE]
        /\ UNCHANGED <<enr, head, stale, link, lock, req, faults>>
    BY <2>1 DEF Remember, Course
  <2>3. /\ pend' \in [Users -> {"none", "pending", "JOINED", "refused"}]
        /\ told' \in [Users -> BOOLEAN] /\ VerdictSticks'
    BY <2>2 DEF IInv, TypeOK, VerdictSticks
  <2> QED BY <2>2, <2>3 DEF IInv, TypeOK, Held, FloorKept, HeadTeaches, Decided, Demotes, User, SeatsCounted, Slots
<1>4. CASE UNCHANGED vars
  BY <1>4 DEF vars, IInv, TypeOK, Held, FloorKept, HeadTeaches, Decided, Demotes, User, SeatsCounted, Slots,
             VerdictSticks
<1> QED BY <1>1, <1>2, <1>3, <1>4 DEF Next, ReqNext

\* The invariant holds in every reachable state.
THEOREM InvTheorem == Spec => []IInv
<1>1. Init => IInv
  BY InvInit
<1>2. IInv /\ [Next]_vars => IInv'
  BY InvStep
<1> QED BY <1>1, <1>2, PTL DEF Spec

\* Types hold, and the course row is held only between a decision and its write.
THEOREM TypeTheorem == Spec => []TypeOK
<1>1. IInv => TypeOK
  BY DEF IInv
<1> QED BY <1>1, InvTheorem, PTL

\* The course keeps an instructor unless somebody wrote on an old read.
THEOREM FloorTheorem == Spec => []FloorKept
<1>1. IInv => FloorKept
  BY DEF IInv
<1> QED BY <1>1, InvTheorem, PTL

\* The head is an active instructor under the same exception.
THEOREM HeadTheorem == Spec => []HeadTeaches
<1>1. IInv => HeadTeaches
  BY DEF IInv
<1> QED BY <1>1, InvTheorem, PTL

\* The link's slots are counted, capped, and one is spent on every join.
THEOREM SeatsTheorem == Spec => []SeatsCounted
<1>1. IInv => SeatsCounted
  BY DEF IInv
<1> QED BY <1>1, InvTheorem, PTL

\* No racing refusal replaces a join.
THEOREM VerdictTheorem == Spec => []VerdictSticks
<1>1. IInv => VerdictSticks
  BY DEF IInv
<1> QED BY <1>1, InvTheorem, PTL
=============================================================================
