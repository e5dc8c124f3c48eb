------------------------------ MODULE Accounts ------------------------------
(***************************************************************************)
(* User accounts and how they come and go: what administrators do to them  *)
(* (updates, deletions, the updateUser tool of the admin chat), the floor  *)
(* of one active ADMIN, and the invitations that make accounts: created,   *)
(* superseded, resent, revoked, expired and accepted.  A request is a      *)
(* process: between two of its statements every other request may run.     *)
(* A role is ADMIN or one that stands for all the others; an address is one*)
(* somebody may be invited under, or None for every other.                 *)
(***************************************************************************)
EXTENDS Naturals, FiniteSets

CONSTANTS
    Users,          \* ids of users, each used once
    Admins,         \* those there are at the start
    Emails,         \* addresses that have no account at the start
    Links,          \* ids of invitations
    Requests,
    None,
    MaxRotations,   \* times an invitation may be sent again
    MaxFaults       \* failing statements and crashes

ASSUME AccountConstants ==
    /\ Admins \subseteq Users /\ Admins # {}
    /\ None \notin Users \cup Emails \cup Links \cup Requests
    /\ MaxRotations \in Nat /\ MaxFaults \in Nat

VARIABLES
    user,       \* the accounts
    inv,        \* the invitations
    floor,      \* the request whose transaction holds the advisory lock "admin-floor"
    req, faults,
    slip        \* history: a write took an active ADMIN away without the floor check

vars == <<user, inv, floor, req, faults, slip>>

Roles == {"ADMIN", "STUDENT"}
Changes == Roles \cup {"on", "off", "email"}    \* of the role, of isActive, to another address

NoUser == [st |-> "none", email |-> None, role |-> "STUDENT", active |-> TRUE, self |-> FALSE]
NoLink == [st |-> "none", email |-> None, role |-> "STUDENT", token |-> 0, fresh |-> FALSE,
           by |-> None]
NewReq == [pc |-> "idle", op |-> "none", user |-> None, change |-> "on", email |-> None,
           link |-> None, token |-> 0, out |-> "none"]

Init ==
    /\ user = [u \in Users |-> IF u \in Admins THEN [NoUser EXCEPT !.st = "live", !.role = "ADMIN"]
                               ELSE NoUser]
    /\ inv = [i \in Links |-> NoLink]
    /\ floor = None
    /\ req = [r \in Requests |-> NewReq] /\ faults = 0 /\ slip = FALSE

Live(u) == user[u].st = "live"
Administers(x) == x.st = "live" /\ x.role = "ADMIN" /\ x.active
ActiveAdmins == {u \in Users : Administers(user[u])}
Taken(e) == \E u \in Users : Live(u) /\ user[u].email = e
Fresh(u) == user[u].st = "none"

Fault == faults < MaxFaults /\ faults' = faults + 1
Goto(r, p) == req' = [req EXCEPT ![r].pc = p]
\* A request that has ended keeps what it was about and what it answered.
Done(r, o) == req' = [req EXCEPT ![r].pc = "done", ![r].out = o]

\* The end of a transaction gives the advisory lock back.
Unlocks(r) == floor' = IF floor = r THEN None ELSE floor

\* The write of x to account u; a row that went away meanwhile stays away.
Writes(u, x) == user' = IF Live(u) THEN [user EXCEPT ![u] = x] ELSE user
\* The write of r takes an active ADMIN away, and its transaction did not pass the floor.
Slips(r, u, x) == slip' = (slip \/ (Administers(user[u]) /\ ~ Administers(x) /\ req[r].pc # "sure"))

Changed(u, c) == CASE c \in Roles -> [user[u] EXCEPT !.role = c]
                   [] c \in {"on", "off"} -> [user[u] EXCEPT !.active = (c = "on")]
                   [] c = "email" -> [user[u] EXCEPT !.email = None]
Removed(u) == [user[u] EXCEPT !.st = "gone"]

(***************************************************************************)
(* What an administrator does to an account.  The session is read first.   *)
(***************************************************************************)

\* Nobody demotes or deactivates, nor deletes, their own account.  The chat tool reads no
\* target, and an update of neither role nor isActive needs none.
AdminBegins(r) ==
    /\ req[r].pc = "idle"
    /\ \E a \in ActiveAdmins, u \in Users :
         \/ \E c \in Changes, o \in {"patch", "chat"} :
              /\ u = a => c \in {"ADMIN", "on", "email"}
              /\ req' = [req EXCEPT ![r] = [NewReq EXCEPT !.op = o, !.user = u, !.change = c,
                                            !.pc = IF o = "chat" \/ c = "email" THEN "blind"
                                                   ELSE "read"]]
         \/ /\ u # a
            /\ req' = [req EXCEPT ![r] = [NewReq EXCEPT !.op = "delete", !.user = u, !.pc = "read"]]
    /\ UNCHANGED <<user, inv, floor, faults, slip>>

Removes(r) == req[r].op = "delete" \/ req[r].change \in {"STUDENT", "off"}

\* The target is read; only the removal of an active ADMIN, as read, asks for the floor.
ReadTarget(r) ==
    LET u == req[r].user IN
    /\ req[r].pc = "read"
    /\ IF ~ Live(u) THEN Done(r, "missing")
       ELSE Goto(r, IF Administers(user[u]) /\ Removes(r) THEN "floor" ELSE "write")
    /\ UNCHANGED <<user, inv, floor, faults, slip>>

\* Mutant: the count without the advisory lock.
MutFloorFree(r) == TRUE
\* pg_advisory_xact_lock waits for the transaction that holds it.
FloorFree(r) == floor = None

\* adminFloorViolation: the lock, then the count of the other active ADMINs.
FloorCheck(r) ==
    /\ req[r].pc = "floor" /\ FloorFree(r)
    /\ IF ActiveAdmins \ {req[r].user} = {}
       THEN Done(r, "violation") /\ UNCHANGED floor
       ELSE Goto(r, "sure") /\ floor' = r
    /\ UNCHANGED <<user, inv, faults, slip>>

\* The update is by id: a row that is gone is an error.  With a role change, TA courses are
\* reconciled first in the transaction, which may refuse it.
Update(r) ==
    LET u == req[r].user IN
    /\ req[r].op \in {"patch", "chat"} /\ req[r].pc \in {"write", "sure", "blind"}
    /\ \/ /\ Writes(u, Changed(u, req[r].change)) /\ Slips(r, u, Changed(u, req[r].change))
          /\ Done(r, IF Live(u) THEN "written" ELSE "missing")
       \/ /\ req[r].op = "patch" /\ req[r].change \in Roles
          /\ Done(r, "refused") /\ UNCHANGED <<user, slip>>
    /\ Unlocks(r)
    /\ UNCHANGED <<inv, faults>>

\* The accepted user of an invitation is cleared with the account (onDelete: SetNull).
Cleared(u) == [i \in Links |-> IF inv[i].by = u THEN [inv[i] EXCEPT !.by = None] ELSE inv[i]]

\* The account goes, or rows that refer to it keep it.
Delete(r) ==
    LET u == req[r].user IN
    /\ req[r].op = "delete" /\ req[r].pc \in {"write", "sure"}
    /\ \/ /\ Writes(u, Removed(u)) /\ Slips(r, u, Removed(u)) /\ inv' = Cleared(u)
          /\ Done(r, IF Live(u) THEN "written" ELSE "missing")
       \/ Done(r, "refused") /\ UNCHANGED <<user, inv, slip>>
    /\ Unlocks(r) /\ UNCHANGED faults

(***************************************************************************)
(* Invitations.                                                            *)
(***************************************************************************)

InviteBegins(r) ==
    /\ req[r].pc = "idle"
    /\ \E e \in Emails, rl \in Roles :
         req' = [req EXCEPT ![r] = [NewReq EXCEPT !.op = "invite", !.email = e, !.change = rl,
                                                  !.pc = "check"]]
    /\ UNCHANGED <<user, inv, floor, faults, slip>>

InviteChecks(r) ==
    /\ req[r].op = "invite" /\ req[r].pc = "check"
    /\ IF Taken(req[r].email) THEN Done(r, "taken") ELSE Goto(r, "supersede")
    /\ UNCHANGED <<user, inv, floor, faults, slip>>

InviteSupersedes(r) ==
    /\ req[r].pc = "supersede"
    /\ inv' = [i \in Links |-> IF inv[i].st = "PENDING" /\ inv[i].email = req[r].email
                               THEN [inv[i] EXCEPT !.st = "REVOKED"] ELSE inv[i]]
    /\ Goto(r, "create")
    /\ UNCHANGED <<user, floor, faults, slip>>

InviteCreates(r) ==
    /\ req[r].pc = "create"
    /\ \E i \in Links :
         /\ inv[i].st = "none"
         /\ inv' = [inv EXCEPT ![i] = [NoLink EXCEPT !.st = "PENDING", !.email = req[r].email,
                                       !.role = req[r].change, !.fresh = TRUE]]
    /\ Done(r, "created")
    /\ UNCHANGED <<user, floor, faults, slip>>

\* resendInvitation: a PENDING row takes a new token and a new expiry, in one statement.
Resend(i) ==
    /\ inv[i].st = "PENDING" /\ inv[i].token < MaxRotations
    /\ inv' = [inv EXCEPT ![i].token = @ + 1, ![i].fresh = TRUE]
    /\ UNCHANGED <<user, floor, req, faults, slip>>

\* revokeInvitation: conditional on PENDING, which a row never gets back.
Revoke(r, i) ==
    /\ req[r].pc = "idle" /\ inv[i].st = "PENDING"
    /\ inv' = [inv EXCEPT ![i].st = "REVOKED"]
    /\ req' = [req EXCEPT ![r] = [NewReq EXCEPT !.op = "revoke", !.link = i, !.pc = "done",
                                                !.out = "revoked"]]
    /\ UNCHANGED <<user, floor, faults, slip>>

Expire(i) ==
    /\ inv[i].st = "PENDING" /\ inv[i].fresh
    /\ inv' = [inv EXCEPT ![i].fresh = FALSE]
    /\ UNCHANGED <<user, floor, req, faults, slip>>

(***************************************************************************)
(* acceptInvitation.                                                       *)
(***************************************************************************)

\* getInvitationByToken: the row as it is now is what the acceptance goes on with.
AcceptLooks(r) ==
    /\ req[r].pc = "idle"
    /\ \E i \in Links :
         /\ inv[i].st = "PENDING" /\ inv[i].fresh
         /\ req' = [req EXCEPT ![r] = [NewReq EXCEPT !.op = "accept", !.link = i,
                                                     !.token = inv[i].token,
                                                     !.email = inv[i].email, !.pc = "exists"]]
    /\ UNCHANGED <<user, inv, floor, faults, slip>>

AcceptChecks(r) ==
    /\ req[r].pc = "exists"
    /\ Goto(r, IF Taken(req[r].email) THEN "drop" ELSE "signup")
    /\ UNCHANGED <<user, inv, floor, faults, slip>>

\* The address got an account since: the invitation is revoked if it is still PENDING.
AcceptDrops(r) ==
    LET i == req[r].link IN
    /\ req[r].pc = "drop"
    /\ inv' = IF inv[i].st = "PENDING" THEN [inv EXCEPT ![i].st = "REVOKED"] ELSE inv
    /\ Done(r, "refused")
    /\ UNCHANGED <<user, floor, faults, slip>>

SignedUp(u, e, s) ==
    user' = [user EXCEPT ![u] = [NoUser EXCEPT !.st = "live", !.email = e, !.self = s]]

\* Better Auth signs up; for an address that is taken it returns a user that does not exist.
AcceptSignsUp(r) ==
    LET e == req[r].email IN
    /\ req[r].pc = "signup"
    /\ IF Taken(e)
       THEN Goto(r, "found") /\ UNCHANGED user
       ELSE \E u \in Users : /\ Fresh(u) /\ SignedUp(u, e, FALSE)
                             /\ req' = [req EXCEPT ![r].user = u, ![r].pc = "found"]
    /\ UNCHANGED <<inv, floor, faults, slip>>

SignUpFails(r) ==
    /\ req[r].pc = "signup" /\ Fault /\ Done(r, "refused")
    /\ UNCHANGED <<user, inv, floor, slip>>

\* Mutant: whoever has the address now is taken for the account that was made.
MutFound(r) == {u \in Users : Live(u) /\ user[u].email = req[r].email}
\* The account of exactly the id the sign-up returned, if its address is still the invited one.
Found(r) == {u \in Users : u = req[r].user /\ Live(u) /\ user[u].email = req[r].email}

AcceptFinds(r) ==
    /\ req[r].pc = "found"
    /\ \/ Found(r) = {} /\ Done(r, "refused")
       \/ \E u \in Found(r) : req' = [req EXCEPT ![r].user = u, ![r].pc = "promote"]
    /\ UNCHANGED <<user, inv, floor, faults, slip>>

\* Mutant: the invitation is consumed by its token, whatever its status.
MutConsumable(r) ==
    LET x == inv[req[r].link] IN x.token = req[r].token /\ x.fresh
\* The conditions of the consuming update: id, token and expiry as looked up, and PENDING.
Consumable(r) ==
    LET x == inv[req[r].link] IN x.st = "PENDING" /\ x.token = req[r].token /\ x.fresh

\* One transaction promotes the account and consumes the invitation, or neither.
AcceptPromotes(r) ==
    LET u == req[r].user i == req[r].link IN
    /\ req[r].pc = "promote"
    /\ IF Live(u) /\ Consumable(r)
       THEN /\ user' = [user EXCEPT ![u].role = inv[i].role]
            /\ Slips(r, u, [user[u] EXCEPT !.role = inv[i].role])
            /\ inv' = [inv EXCEPT ![i].st = "ACCEPTED", ![i].by = u]
            /\ Done(r, "accepted")
       ELSE Goto(r, "rollback") /\ UNCHANGED <<user, inv, slip>>
    /\ UNCHANGED <<floor, faults>>

PromoteFails(r) ==
    /\ req[r].pc = "promote" /\ Fault /\ Goto(r, "rollback")
    /\ UNCHANGED <<user, inv, floor, slip>>

\* The account the request made is deleted by its id; nobody asks for the floor.
AcceptRollsBack(r) ==
    LET u == req[r].user IN
    /\ req[r].pc = "rollback"
    /\ Writes(u, Removed(u)) /\ Slips(r, u, Removed(u)) /\ inv' = Cleared(u)
    /\ Done(r, "refused")
    /\ UNCHANGED <<floor, faults>>

\* The deletion fails, and the failure is swallowed.
RollBackFails(r) ==
    /\ req[r].pc = "rollback" /\ Fault /\ Done(r, "lost")
    /\ UNCHANGED <<user, inv, floor, slip>>

(***************************************************************************)
(* Everything else.                                                        *)
(***************************************************************************)

\* Somebody signs up by themselves, with the default role.
Register(u, e) ==
    /\ Fresh(u) /\ ~ Taken(e) /\ SignedUp(u, e, TRUE)
    /\ UNCHANGED <<inv, floor, req, faults, slip>>

\* The process of a request dies, and its transaction with it.
Crash(r) ==
    /\ req[r].pc \notin {"idle", "done"} /\ Fault
    /\ Done(r, "lost") /\ Unlocks(r)
    /\ UNCHANGED <<user, inv, slip>>

Administration(r) == AdminBegins(r) \/ ReadTarget(r) \/ FloorCheck(r) \/ Update(r) \/ Delete(r)
Invitation(r) ==
    \/ InviteBegins(r) \/ InviteChecks(r) \/ InviteSupersedes(r) \/ InviteCreates(r)
    \/ \E i \in Links : Revoke(r, i)
Acceptance(r) ==
    \/ AcceptLooks(r) \/ AcceptChecks(r) \/ AcceptDrops(r) \/ AcceptSignsUp(r) \/ SignUpFails(r)
    \/ AcceptFinds(r) \/ AcceptPromotes(r) \/ PromoteFails(r)
    \/ AcceptRollsBack(r) \/ RollBackFails(r)

Next ==
    \/ \E r \in Requests : Administration(r) \/ Invitation(r) \/ Acceptance(r) \/ Crash(r)
    \/ \E i \in Links : Resend(i) \/ Expire(i)
    \/ \E u \in Users, e \in Emails : Register(u, e)

Spec == Init /\ [][Next]_vars

(***************************************************************************)
(* Properties.                                                             *)
(***************************************************************************)

UserType == [st : {"none", "live", "gone"}, email : Emails \cup {None}, role : Roles,
             active : BOOLEAN, self : BOOLEAN]
LinkType == [st : {"none", "PENDING", "ACCEPTED", "REVOKED"}, email : Emails \cup {None},
             role : Roles, token : Nat, fresh : BOOLEAN, by : Users \cup {None}]
ReqType ==
    [pc : {"idle", "read", "floor", "write", "sure", "blind", "check", "supersede", "create",
           "exists", "drop", "signup", "found", "promote", "rollback", "done"},
     op : {"none", "patch", "chat", "delete", "invite", "revoke", "accept"},
     user : Users \cup {None}, change : Changes, email : Emails \cup {None},
     link : Links \cup {None}, token : Nat,
     out : {"none", "missing", "violation", "written", "refused", "taken", "created", "revoked",
            "accepted", "lost"}]

\* Accounts, invitations and requests have their types, no two live accounts share an
\* address, and only a write that was checked holds the advisory lock.
TypeOK ==
    /\ user \in [Users -> UserType] /\ inv \in [Links -> LinkType] /\ req \in [Requests -> ReqType]
    /\ \A u, w \in Users : Live(u) /\ Live(w) /\ user[u].email = user[w].email
                            /\ user[u].email # None => u = w
    /\ floor \in Requests \cup {None} /\ (floor # None => req[floor].pc = "sure")
    /\ faults \in Nat /\ slip \in BOOLEAN

\* AUTH-04: "the platform must always retain >= 1 active ADMIN", for every caller
\* (lib/auth/admin-floor.server.ts).
AdminFloor == ActiveAdmins # {}

\* Crossed updates and deletions that all ask for the floor leave an active ADMIN, whatever
\* else happens between a count and the write it allowed; only a write that took an active
\* ADMIN away without asking can leave none.
FloorGuarded == ~ slip => ActiveAdmins # {}

\* What was answered stays true: an accepted invitation opened the one account of its
\* acceptance, a revoked one opens none, and an acceptance that was refused has left no
\* account under the invited address, although sign-up, promotion and rollback are three steps.
AnswersStand ==
    /\ \A r \in Requests : req[r].out = "revoked" => inv[req[r].link].st = "REVOKED"
    /\ \A r \in Requests : req[r].out = "accepted" =>
          /\ inv[req[r].link].st = "ACCEPTED" /\ inv[req[r].link].by \in {req[r].user, None}
          /\ \A s \in Requests : req[s].out = "accepted" /\ req[s].link = req[r].link => s = r
    /\ \A r \in Requests : req[r].op = "accept" /\ req[r].out = "refused" /\ req[r].user # None
          => ~ (Live(req[r].user) /\ user[req[r].user].email = req[r].email)

\* An acceptance only touches the account its own sign-up made: one that its owner
\* registered meanwhile under the invited address is changed by administrators alone.
SelfMadeIsTheirs ==
    [][\A u \in Users : user[u].self /\ user'[u] # user[u] =>
          \E r \in Requests : req[r].op \in {"patch", "chat", "delete"} /\ req'[r] # req[r]]_vars
=============================================================================
