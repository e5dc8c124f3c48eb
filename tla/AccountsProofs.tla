--------------------------- MODULE AccountsProofs ---------------------------
(***************************************************************************)
(* Theorems about Accounts, for every set of users, addresses, invitations *)
(* and requests, with failing statements and crashes.                      *)
(***************************************************************************)
EXTENDS Accounts, TLAPS

PCs == {"idle", "read", "floor", "write", "sure", "blind", "check", "supersede", "create",
        "exists", "drop", "signup", "found", "promote", "rollback", "done"}
Outs == {"none", "missing", "violation", "written", "refused", "taken", "created", "revoked",
         "accepted", "lost"}

\* What a request carries at each of its steps.
ReqGood(q) ==
    /\ q \in ReqType
    /\ q.pc \in {"read", "floor", "write", "sure", "blind"} =>
          q.op \in {"patch", "chat", "delete"} /\ q.user \in Users
    /\ q.pc \in {"check", "supersede", "create"} =>
          q.op = "invite" /\ q.email \in Emails /\ q.change \in Roles
    /\ q.pc \in {"exists", "drop", "signup", "found", "promote", "rollback"} =>
          q.op = "accept" /\ q.link \in Links
    /\ q.pc \in {"exists", "drop", "signup"} => q.user = None
    /\ q.pc \in {"promote", "rollback"} => q.user \in Users
    /\ q.pc # "done" => q.out = "none"
    /\ q.op = "accept" => q.email \in Emails
    /\ q.out \in {"revoked", "accepted"} => q.link \in Links
    /\ q.out = "accepted" => q.op = "accept" /\ q.user \in Users

\* An address has one live account.
Unique ==
    \A u, w \in Users : Live(u) /\ Live(w) /\ user[u].email = user[w].email
                         /\ user[u].email # None => u = w

TypeInv ==
    /\ user \in [Users -> UserType] /\ inv \in [Links -> LinkType]
    /\ \A i \in Links : inv[i].st # "none" => inv[i].email \in Emails
    /\ req \in [Requests -> ReqType] /\ \A r \in Requests : ReqGood(req[r])
    /\ Unique
    /\ faults \in Nat /\ slip \in BOOLEAN

\* The lock is held from the check to the write.
LockInv == floor \in Requests \cup {None} /\ \A r \in Requests : req[r].pc = "sure" <=> floor = r

\* Without a slip there is an active ADMIN, and another than the target of a write that
\* passed the floor.
FloorInv ==
    ~ slip => /\ ActiveAdmins # {}
              /\ \A r \in Requests : req[r].pc = "sure" => ActiveAdmins \ {req[r].user} # {}

\* An account that an acceptance works on was made by a sign-up of its own.
MadeInv ==
    \A r \in Requests : req[r].op = "accept" /\ req[r].user # None =>
          /\ user[req[r].user].st # "none" /\ ~ user[req[r].user].self
          /\ req[r].out = "refused" => \/ user[req[r].user].st = "gone"
                                       \/ user[req[r].user].email # req[r].email

\* Who has signed up by themselves has signed up.
SelfInv == \A u \in Users : user[u].self => user[u].st # "none"

\* What requests have answered about invitations.
AnswerInv ==
    /\ \A r \in Requests : req[r].out = "revoked" => inv[req[r].link].st = "REVOKED"
    /\ \A r \in Requests : req[r].out = "accepted" =>
          /\ inv[req[r].link].st = "ACCEPTED" /\ inv[req[r].link].by \in {req[r].user, None}
          /\ \A s \in Requests : req[s].out = "accepted" /\ req[s].link = req[r].link => s = r

IndInv == TypeInv /\ LockInv /\ FloorInv /\ MadeInv /\ SelfInv /\ AnswerInv

(***************************************************************************)
(* How a step changes requests, accounts and invitations.                  *)
(***************************************************************************)

Work(r) == Administration(r) \/ Invitation(r) \/ Acceptance(r) \/ Crash(r)

\* An account that was made stays the same person's, and one that went stays away.
Ages(u) ==
    user[u].st # "none" =>
        /\ user'[u].st # "none" /\ (user[u].st = "gone" => user'[u].st = "gone")
        /\ user'[u].self = user[u].self /\ user'[u].email \in {user[u].email, None}

\* An invitation that was decided stays so.
Stays(i) ==
    inv[i].st \in {"ACCEPTED", "REVOKED"} =>
        inv'[i].st = inv[i].st /\ inv'[i].by \in {inv[i].by, None}

\* What a record of a request keeps when its place and its answer change.
LEMMA Moved ==
    ASSUME NEW q \in ReqType, NEW p \in PCs, NEW o \in Outs
    PROVE  /\ [q EXCEPT !.pc = p] \in ReqType
           /\ [q EXCEPT !.pc = p].pc = p /\ [q EXCEPT !.pc = p].op = q.op
           /\ [q EXCEPT !.pc = p].user = q.user /\ [q EXCEPT !.pc = p].email = q.email
           /\ [q EXCEPT !.pc = p].link = q.link /\ [q EXCEPT !.pc = p].out = q.out
           /\ [q EXCEPT !.pc = p].change = q.change
           /\ [q EXCEPT !.pc = "done", !.out = o] \in ReqType
           /\ [q EXCEPT !.pc = "done", !.out = o].pc = "done"
           /\ [q EXCEPT !.pc = "done", !.out = o].op = q.op
           /\ [q EXCEPT !.pc = "done", !.out = o].user = q.user
           /\ [q EXCEPT !.pc = "done", !.out = o].email = q.email
           /\ [q EXCEPT !.pc = "done", !.out = o].link = q.link
           /\ [q EXCEPT !.pc = "done", !.out = o].out = o
<1>1. "done" \in PCs
  BY DEF PCs
<1> DEFINE Ops == {"none", "patch", "chat", "delete", "invite", "revoke", "accept"}
<1>2. ReqType = [pc : PCs, op : Ops, user : Users \cup {None}, change : Changes,
                 email : Emails \cup {None}, link : Links \cup {None}, token : Nat, out : Outs]
  BY DEF ReqType, PCs, Outs
<1> HIDE DEF Ops
<1> QED
  BY <1>1, <1>2

\* A request that works was not done, and changes no other.
LEMMA WorkMoves ==
    ASSUME TypeInv, NEW r \in Requests, Work(r)
    PROVE  req[r].pc # "done" /\ \A s \in Requests \ {r} : req'[s] = req[s]
  BY DEF TypeInv, Work, Administration, Invitation, Acceptance, AdminBegins, ReadTarget, FloorCheck,
         Update, Delete, InviteBegins, InviteChecks, InviteSupersedes, InviteCreates, Revoke,
         AcceptLooks, AcceptChecks, AcceptDrops, AcceptSignsUp, SignUpFails, AcceptFinds,
         AcceptPromotes, PromoteFails, AcceptRollsBack, RollBackFails, Crash, Goto, Done

\* Where a step that only moves a request puts it.
LEMMA GotoGood ==
    ASSUME TypeInv, NEW r \in Requests, NEW p \in PCs, Goto(r, p)
    PROVE  /\ req' = [req EXCEPT ![r] = [req[r] EXCEPT !.pc = p]]
           /\ req' \in [Requests -> ReqType] /\ req'[r].pc = p
           /\ req'[r].op = req[r].op /\ req'[r].user = req[r].user /\ req'[r].out = req[r].out
           /\ req'[r].email = req[r].email /\ req'[r].link = req[r].link
           /\ req'[r].change = req[r].change
<1>1. req' = [req EXCEPT ![r] = [req[r] EXCEPT !.pc = p]]
  BY DEF Goto, TypeInv
<1>2. req[r] \in ReqType /\ "none" \in Outs
  BY DEF TypeInv, Outs
<1> DEFINE q == [req[r] EXCEPT !.pc = p]
<1>3. /\ q \in ReqType /\ q.pc = p /\ q.op = req[r].op /\ q.user = req[r].user
      /\ q.email = req[r].email /\ q.link = req[r].link /\ q.out = req[r].out
      /\ q.change = req[r].change
  BY <1>2, Moved
<1> HIDE DEF q
<1> QED
  BY <1>1, <1>3 DEF TypeInv, q

LEMMA DoneGood ==
    ASSUME TypeInv, NEW r \in Requests, NEW o \in Outs, Done(r, o)
    PROVE  /\ req' \in [Requests -> ReqType] /\ req'[r].pc = "done" /\ req'[r].out = o
           /\ req'[r].op = req[r].op /\ req'[r].user = req[r].user
           /\ req'[r].email = req[r].email /\ req'[r].link = req[r].link
<1> DEFINE q == [req[r] EXCEPT !.pc = "done", !.out = o]
<1>1. req' = [req EXCEPT ![r] = q]
  BY DEF Done, TypeInv
<1>2. req[r] \in ReqType /\ "done" \in PCs
  BY DEF TypeInv, PCs
<1>3. /\ q \in ReqType /\ q.pc = "done" /\ q.op = req[r].op /\ q.user = req[r].user
      /\ q.email = req[r].email /\ q.link = req[r].link /\ q.out = o
  BY <1>2, Moved
<1> HIDE DEF q
<1> QED
  BY <1>1, <1>3 DEF TypeInv

\* A request that ends without having answered an invitation is as good as it was.
LEMMA DoneIsGood ==
    ASSUME TypeInv, NEW r \in Requests, NEW o \in Outs \ {"revoked", "accepted"}, Done(r, o)
    PROVE  req' \in [Requests -> ReqType] /\ ReqGood(req'[r])
<1>1. req' \in [Requests -> ReqType] /\ req'[r] \in ReqType
  BY DoneGood
<1> QED
  BY <1>1, DoneGood DEF TypeInv, ReqGood

\* The same for one that moves on to a step its record is fit for.
LEMMA GotoIsGood ==
    ASSUME TypeInv, NEW r \in Requests, NEW p \in PCs \ {"done"}, Goto(r, p), req[r].pc # "done",
           p \in {"write", "sure", "floor"} => req[r].op \in {"patch", "chat", "delete"} /\ req[r].user \in Users,
           p \in {"read", "blind", "check", "exists"} => FALSE,
           p \in {"supersede", "create"} => req[r].pc \in {"check", "supersede", "create"},
           p \in {"drop", "signup", "found", "promote", "rollback"} =>
               req[r].op = "accept" /\ req[r].link \in Links,
           p \in {"drop", "signup"} => req[r].user = None,
           p \in {"promote", "rollback"} => req[r].user \in Users
    PROVE  req' \in [Requests -> ReqType] /\ ReqGood(req'[r])
<1>1. req' \in [Requests -> ReqType] /\ req'[r] \in ReqType
  BY GotoGood
<1> QED
  BY <1>1, GotoGood DEF TypeInv, ReqGood

\* A request begins fit for its first step.
LEMMA Begins ==
    ASSUME TypeInv, NEW r \in Requests,
           AdminBegins(r) \/ InviteBegins(r) \/ AcceptLooks(r) \/ \E i \in Links : Revoke(r, i)
    PROVE  /\ req' \in [Requests -> ReqType] /\ ReqGood(req'[r])
           /\ req'[r].out = "none" \/ \E i \in Links : Revoke(r, i)
           /\ req'[r].pc \in {"blind", "read", "check", "exists", "done"}
           /\ req'[r].pc = "done" => req'[r].op = "revoke"
<1>1. NewReq \in ReqType
  BY DEF NewReq, ReqType, Changes
<1>2. ASSUME NEW u \in Users, NEW c \in Changes, NEW p \in {"blind", "read"},
             NEW o \in {"patch", "chat"},
             req' = [req EXCEPT ![r] = [NewReq EXCEPT !.op = o, !.user = u, !.change = c, !.pc = p]]
      PROVE  req' \in [Requests -> ReqType] /\ ReqGood(req'[r]) /\ req'[r].out = "none"
             /\ req'[r].pc \in {"blind", "read"}
  <2> DEFINE q == [NewReq EXCEPT !.op = o, !.user = u, !.change = c, !.pc = p]
  <2>1. q \in ReqType /\ q.op = o /\ q.user = u /\ q.pc = p /\ q.out = "none"
    BY DEF NewReq, ReqType
  <2>2. req' = [req EXCEPT ![r] = q]
    BY <1>2
  <2> HIDE DEF q
  <2>3. ReqGood(q)
    BY <2>1 DEF ReqGood
  <2> QED
    BY <2>1, <2>2, <2>3 DEF TypeInv
<1>d. ASSUME NEW u \in Users,
             req' = [req EXCEPT ![r] = [NewReq EXCEPT !.op = "delete", !.user = u, !.pc = "read"]]
      PROVE  req' \in [Requests -> ReqType] /\ ReqGood(req'[r]) /\ req'[r].out = "none"
             /\ req'[r].pc \in {"blind", "read"}
  <2> DEFINE q == [NewReq EXCEPT !.op = "delete", !.user = u, !.pc = "read"]
  <2>1. q \in ReqType /\ q.op = "delete" /\ q.user = u /\ q.pc = "read" /\ q.out = "none"
    BY DEF NewReq, ReqType, Changes
  <2>2. req' = [req EXCEPT ![r] = q]
    BY <1>d
  <2> HIDE DEF q
  <2>3. ReqGood(q)
    BY <2>1 DEF ReqGood
  <2> QED
    BY <2>1, <2>2, <2>3 DEF TypeInv
<1>a. CASE AdminBegins(r)
  <2>1. \/ \E u \in Users, c \in Changes, o \in {"patch", "chat"}, p \in {"blind", "read"} :
             req' = [req EXCEPT ![r] = [NewReq EXCEPT !.op = o, !.user = u, !.change = c, !.pc = p]]
        \/ \E u \in Users :
             req' = [req EXCEPT ![r] = [NewReq EXCEPT !.op = "delete", !.user = u, !.pc = "read"]]
    BY <1>a, Zenon DEF AdminBegins
  <2> QED
    BY <1>2, <1>d, <2>1
<1>3. CASE InviteBegins(r)
  <2>1. PICK e \in Emails, rl \in Roles :
            req' = [req EXCEPT ![r] = [NewReq EXCEPT !.op = "invite", !.email = e, !.change = rl,
                                                     !.pc = "check"]]
    BY <1>3 DEF InviteBegins
  <2> DEFINE q == [NewReq EXCEPT !.op = "invite", !.email = e, !.change = rl, !.pc = "check"]
  <2>2. /\ q \in ReqType /\ q.op = "invite" /\ q.email = e /\ q.pc = "check" /\ q.out = "none"
        /\ q.change = rl
    BY DEF NewReq, ReqType, Changes
  <2>a. req' = [req EXCEPT ![r] = q]
    BY <2>1
  <2> HIDE DEF q
  <2>3. ReqGood(q) /\ req'[r] = q /\ req' \in [Requests -> ReqType]
    BY <2>a, <2>2 DEF TypeInv, ReqGood
  <2> QED
    BY <2>2, <2>3
<1>4. CASE AcceptLooks(r)
  <2>1. PICK i \in Links :
            /\ inv[i].st = "PENDING"
            /\ req' = [req EXCEPT ![r] = [NewReq EXCEPT !.op = "accept", !.link = i,
                                                        !.token = inv[i].token,
                                                        !.email = inv[i].email, !.pc = "exists"]]
    BY <1>4 DEF AcceptLooks
  <2>2. inv[i].token \in Nat /\ inv[i].email \in Emails
    BY <2>1 DEF TypeInv, LinkType
  <2> DEFINE q == [NewReq EXCEPT !.op = "accept", !.link = i, !.token = inv[i].token,
                                 !.email = inv[i].email, !.pc = "exists"]
  <2>3. /\ q \in ReqType /\ q.op = "accept" /\ q.email = inv[i].email /\ q.pc = "exists"
        /\ q.link = i /\ q.user = None /\ q.out = "none"
    BY <2>2 DEF NewReq, ReqType, Changes
  <2>a. req' = [req EXCEPT ![r] = q]
    BY <2>1
  <2> HIDE DEF q
  <2>4. ReqGood(q)
    BY <2>2, <2>3 DEF ReqGood
  <2> QED
    BY <2>a, <2>3, <2>4 DEF TypeInv
<1>5. ASSUME NEW i \in Links, Revoke(r, i)
      PROVE  req' \in [Requests -> ReqType] /\ ReqGood(req'[r]) /\ req'[r].out = "revoked"
             /\ req'[r].pc = "done" /\ req'[r].op = "revoke"
  <2> DEFINE q == [NewReq EXCEPT !.op = "revoke", !.link = i, !.pc = "done", !.out = "revoked"]
  <2>1. req' = [req EXCEPT ![r] = q]
    BY <1>5 DEF Revoke
  <2>2. q \in ReqType /\ q.op = "revoke" /\ q.pc = "done" /\ q.link = i /\ q.out = "revoked"
    BY DEF NewReq, ReqType, Changes
  <2> HIDE DEF q
  <2>3. ReqGood(q) /\ req'[r] = q /\ req' \in [Requests -> ReqType]
    BY <2>1, <2>2 DEF TypeInv, ReqGood
  <2> QED
    BY <2>2, <2>3
<1> QED
  BY <1>a, <1>3, <1>4, <1>5

\* A sign-up, and what it finds, is of an account that exists.
LEMMA NamesUser ==
    ASSUME TypeInv, NEW r \in Requests, NEW u \in Users, NEW p \in {"found", "promote"},
           req[r].op = "accept", req[r].link \in Links, req[r].pc # "done",
           req' = [req EXCEPT ![r].user = u, ![r].pc = p]
    PROVE  /\ req' \in [Requests -> ReqType] /\ ReqGood(req'[r])
           /\ req'[r].user = u /\ req'[r].pc = p /\ req'[r].out = "none"
<1> DEFINE q == [req[r] EXCEPT !.user = u, !.pc = p]
<1>1. req' = [req EXCEPT ![r] = q]
  BY DEF TypeInv
<1>2. req[r] \in ReqType /\ ReqGood(req[r])
  BY DEF TypeInv
<1>3. /\ q \in ReqType /\ q.pc = p /\ q.op = req[r].op /\ q.user = u
      /\ q.email = req[r].email /\ q.link = req[r].link /\ q.out = req[r].out
  BY <1>2 DEF ReqType
<1> HIDE DEF q
<1>4. ReqGood(q)
  BY <1>2, <1>3 DEF ReqGood
<1>5. q.out = "none"
  BY <1>2, <1>3 DEF ReqGood
<1> QED
  BY <1>1, <1>3, <1>4, <1>5 DEF TypeInv

\* An acceptance that promotes answers with its account and its invitation.
LEMMA PromotesGood ==
    ASSUME TypeInv, NEW r \in Requests, AcceptPromotes(r)
    PROVE  /\ req' \in [Requests -> ReqType] /\ ReqGood(req'[r])
           /\ req'[r].link = req[r].link /\ req'[r].user = req[r].user
           /\ req'[r].op = req[r].op /\ req'[r].email = req[r].email
<1>1. req[r].user \in Users /\ req[r].link \in Links /\ req[r].op = "accept" /\ req[r].pc = "promote"
  BY DEF AcceptPromotes, TypeInv, ReqGood
<1>2. CASE Done(r, "accepted")
  <2>1. "accepted" \in Outs
    BY DEF Outs
  <2>2. req' \in [Requests -> ReqType] /\ req'[r] \in ReqType
    BY <1>2, <2>1, DoneGood
  <2> QED
    BY <1>1, <1>2, <2>1, <2>2, DoneGood DEF ReqGood, TypeInv
<1>3. CASE Goto(r, "rollback")
  <2>1. "rollback" \in PCs
    BY DEF PCs
  <2> QED
    BY <1>1, <1>3, <2>1, GotoIsGood, GotoGood
<1> QED
  BY <1>2, <1>3 DEF AcceptPromotes

\* Every step of a request leaves it well formed.
LEMMA WorkGood ==
    ASSUME TypeInv, NEW r \in Requests, Work(r)
    PROVE  req' \in [Requests -> ReqType] /\ ReqGood(req'[r])
<1>1. /\ {"missing", "violation", "written", "refused", "taken", "created", "lost"}
              \subseteq Outs \ {"revoked", "accepted"}
      /\ {"floor", "write", "sure", "supersede", "create", "drop", "signup", "found", "promote",
          "rollback"} \subseteq PCs \ {"done"}
  BY DEF Outs, PCs
<1>2. ReqGood(req[r])
  BY DEF TypeInv
<1>3. CASE \/ AdminBegins(r) \/ InviteBegins(r) \/ AcceptLooks(r)
           \/ \E i \in Links : Revoke(r, i)
  BY <1>3, Begins
<1>4. CASE \/ Update(r) \/ Delete(r) \/ InviteCreates(r) \/ AcceptDrops(r) \/ SignUpFails(r)
           \/ AcceptRollsBack(r) \/ RollBackFails(r) \/ Crash(r)
  <2>1. PICK o \in {"missing", "written", "refused", "created", "lost"} : Done(r, o)
    BY <1>4 DEF Update, Delete, InviteCreates, AcceptDrops, SignUpFails, AcceptRollsBack,
                RollBackFails, Crash
  <2> QED
    BY <1>1, <2>1, DoneIsGood
<1>5. CASE ReadTarget(r) \/ FloorCheck(r)
  <2>1. req[r].pc \in {"read", "floor"}
    BY <1>5 DEF ReadTarget, FloorCheck
  <2>2. \/ \E o \in {"missing", "violation"} : Done(r, o)
        \/ \E p \in {"floor", "write", "sure"} : Goto(r, p)
    BY <1>5 DEF ReadTarget, FloorCheck
  <2>3. ASSUME NEW p \in {"floor", "write", "sure"}, Goto(r, p)
        PROVE  req' \in [Requests -> ReqType] /\ ReqGood(req'[r])
    BY <1>1, <1>2, <2>1, <2>3, GotoIsGood DEF ReqGood
  <2> QED
    BY <1>1, <2>2, <2>3, DoneIsGood
<1>6. CASE InviteChecks(r) \/ InviteSupersedes(r)
  <2>1. req[r].pc \in {"check", "supersede"}
    BY <1>6 DEF InviteChecks, InviteSupersedes
  <2>2. Done(r, "taken") \/ \E p \in {"supersede", "create"} : Goto(r, p)
    BY <1>6 DEF InviteChecks, InviteSupersedes
  <2>3. ASSUME NEW p \in {"supersede", "create"}, Goto(r, p)
        PROVE  req' \in [Requests -> ReqType] /\ ReqGood(req'[r])
    BY <1>1, <2>1, <2>3, GotoIsGood
  <2> QED
    BY <1>1, <2>2, <2>3, DoneIsGood
<1>7. CASE AcceptChecks(r) \/ PromoteFails(r)
  <2>1. req[r].pc \in {"exists", "promote"}
    BY <1>7 DEF AcceptChecks, PromoteFails
  <2>2. \/ req[r].pc = "exists" /\ \E p \in {"drop", "signup"} : Goto(r, p)
        \/ req[r].pc = "promote" /\ Goto(r, "rollback")
    BY <1>7 DEF AcceptChecks, PromoteFails
  <2>3. ASSUME NEW p \in {"drop", "signup"}, req[r].pc = "exists", Goto(r, p)
        PROVE  req' \in [Requests -> ReqType] /\ ReqGood(req'[r])
    BY <1>1, <1>2, <2>3, GotoIsGood DEF ReqGood
  <2>4. ASSUME req[r].pc = "promote", Goto(r, "rollback")
        PROVE  req' \in [Requests -> ReqType] /\ ReqGood(req'[r])
    BY <1>1, <1>2, <2>4, GotoIsGood DEF ReqGood
  <2> QED
    BY <2>2, <2>3, <2>4
<1>8. CASE AcceptSignsUp(r) \/ AcceptFinds(r)
  <2>1. req[r].pc \in {"signup", "found"}
    BY <1>8 DEF AcceptSignsUp, AcceptFinds
  <2>2. \/ Goto(r, "found") \/ Done(r, "refused")
        \/ \E u \in Users, p \in {"found", "promote"} :
               req' = [req EXCEPT ![r].user = u, ![r].pc = p]
    BY <1>8 DEF AcceptSignsUp, AcceptFinds, Found
  <2>3. req[r].op = "accept" /\ req[r].link \in Links
    BY <1>2, <2>1 DEF ReqGood
  <2>4. CASE Goto(r, "found")
    BY <1>1, <2>1, <2>3, <2>4, GotoIsGood
  <2> QED
    BY <1>1, <2>1, <2>2, <2>3, <2>4, DoneIsGood, NamesUser
<1>9. CASE AcceptPromotes(r)
  BY <1>9, PromotesGood
<1> QED
  BY <1>3, <1>4, <1>5, <1>6, <1>7, <1>8, <1>9
     DEF Work, Administration, Invitation, Acceptance

\* A step moves its request, and a sign-up or its look-up ends in nothing but a refusal.
LEMMA WorkPlaces ==
    ASSUME TypeInv, NEW r \in Requests, Work(r)
    PROVE  /\ req[r].pc \in {"write", "sure", "blind"} => req'[r] # req[r]
           /\ AcceptSignsUp(r) \/ AcceptFinds(r) => req'[r].pc # "done" \/ Done(r, "refused")
<1>1. ReqGood(req[r]) /\ {"found"} \subseteq PCs
  BY DEF TypeInv, PCs
<1>2. ASSUME req[r].pc \in {"write", "sure", "blind"} PROVE req'[r] # req[r]
  <2>1. Update(r) \/ Delete(r) \/ Crash(r)
    BY <1>2 DEF Work, Administration, Invitation, Acceptance, AdminBegins, ReadTarget, FloorCheck,
         InviteBegins, InviteChecks, InviteSupersedes, InviteCreates, Revoke,
         AcceptLooks, AcceptChecks, AcceptDrops, AcceptSignsUp, SignUpFails, AcceptFinds,
         AcceptPromotes, PromoteFails, AcceptRollsBack, RollBackFails
  <2>2. \E o \in Outs : Done(r, o)
    BY <2>1 DEF Update, Delete, Crash, Outs
  <2> QED
    BY <1>2, <2>2, DoneGood
<1>3. ASSUME AcceptSignsUp(r) \/ AcceptFinds(r)
      PROVE  req'[r].pc # "done" \/ Done(r, "refused")
  <2>1. req[r].op = "accept" /\ req[r].link \in Links /\ req[r].pc # "done"
    BY <1>1, <1>3 DEF AcceptSignsUp, AcceptFinds, ReqGood
  <2>2. \/ Goto(r, "found") \/ Done(r, "refused")
        \/ \E u \in Users, p \in {"found", "promote"} :
               req' = [req EXCEPT ![r].user = u, ![r].pc = p]
    BY <1>3 DEF AcceptSignsUp, AcceptFinds, Found
  <2>3. ASSUME Goto(r, "found") PROVE req'[r].pc # "done"
    BY <1>1, <2>3, GotoGood
  <2>4. ASSUME NEW u \in Users, NEW p \in {"found", "promote"},
               req' = [req EXCEPT ![r].user = u, ![r].pc = p]
        PROVE  req'[r].pc # "done"
    BY <2>1, <2>4, NamesUser
  <2> QED
    BY <2>2, <2>3, <2>4
<1> QED
  BY <1>2, <1>3

(***************************************************************************)
(* Accounts.                                                               *)
(***************************************************************************)

\* What any write of x to u does to the accounts.
LEMMA WritesKeep ==
    ASSUME TypeInv, NEW u \in Users, NEW x \in UserType, Writes(u, x),
           x.st \in {"live", "gone"}, x.self = user[u].self, x.email \in {user[u].email, None}
    PROVE  /\ user' \in [Users -> UserType] /\ Unique'
           /\ \A w \in Users : Ages(w)
           /\ \A w \in Users : (w # u => user'[w] = user[w]) /\ user'[u] \in {user[u], x}
           /\ user'[u] = x \/ user[u].st # "live"
<1>1. /\ user' \in [Users -> UserType]
      /\ \A w \in Users : (w # u => user'[w] = user[w]) /\ user'[u] \in {user[u], x}
      /\ user'[u] = x \/ user[u].st # "live"
      /\ user[u].st # "live" => user' = user
  BY DEF Writes, TypeInv, Live
<1>2. \A w \in Users : Live(w)' => Live(w) /\ user'[w].email \in {user[w].email, None}
  BY <1>1 DEF Live
<1>3. Unique'
  BY <1>2 DEF Unique, Live, TypeInv
<1>4. \A w \in Users : Ages(w)
  BY <1>1 DEF Ages, Live
<1> QED
  BY <1>1, <1>3, <1>4

\* What a sign-up does to them.
LEMMA SignUpKeeps ==
    ASSUME TypeInv, NEW u \in Users, NEW e \in Emails, NEW b \in BOOLEAN,
           Fresh(u), ~ Taken(e), SignedUp(u, e, b)
    PROVE  /\ user' \in [Users -> UserType] /\ Unique'
           /\ \A w \in Users : Ages(w) /\ (w # u => user'[w] = user[w])
           /\ user'[u].st = "live" /\ user'[u].self = b
<1> DEFINE x == [NoUser EXCEPT !.st = "live", !.email = e, !.self = b]
<1>1. x \in UserType /\ x.st = "live" /\ x.email = e /\ x.self = b
  BY DEF NoUser, UserType, Roles
<1>2. user' = [user EXCEPT ![u] = x]
  BY DEF SignedUp
<1> HIDE DEF x
<1>3. user' \in [Users -> UserType] /\ user'[u] = x /\ \A w \in Users : w # u => user'[w] = user[w]
  BY <1>1, <1>2 DEF TypeInv
<1>4. Unique'
  BY <1>1, <1>3 DEF Unique, Live, Taken, TypeInv
<1>5. \A w \in Users : Ages(w)
  BY <1>1, <1>3 DEF Ages, Fresh
<1> QED
  BY <1>1, <1>3, <1>4, <1>5

\* The records that are written.
LEMMA Written ==
    ASSUME TypeInv, NEW u \in Users
    PROVE  /\ \A c \in Changes : Live(u) =>
                  /\ Changed(u, c) \in UserType /\ Changed(u, c).st = "live"
                  /\ Changed(u, c).self = user[u].self
                  /\ Changed(u, c).email \in {user[u].email, None}
           /\ Removed(u) \in UserType /\ Removed(u).st = "gone" /\ Removed(u).self = user[u].self
           /\ Removed(u).email = user[u].email
<1>1. user[u] \in UserType
  BY DEF TypeInv
<1>2. /\ Removed(u) \in UserType /\ Removed(u).st = "gone" /\ Removed(u).self = user[u].self
      /\ Removed(u).email = user[u].email
  BY <1>1 DEF Removed, UserType
<1>3. ASSUME NEW c \in Changes, Live(u)
      PROVE  /\ Changed(u, c) \in UserType /\ Changed(u, c).st = "live"
             /\ Changed(u, c).self = user[u].self /\ Changed(u, c).email \in {user[u].email, None}
  <2>1. CASE c \in Roles
    BY <1>1, <1>3, <2>1 DEF Changed, UserType, Live
  <2>2. CASE c \in {"on", "off"}
    BY <1>1, <1>3, <2>2 DEF Changed, UserType, Live, Roles
  <2>3. CASE c = "email"
    BY <1>1, <1>3, <2>3 DEF Changed, UserType, Live, Roles
  <2> QED
    BY <2>1, <2>2, <2>3 DEF Changes
<1> QED
  BY <1>2, <1>3

\* The accounts a step of r changes: the one it is about, or one that it makes.
UsersGood(r) ==
    /\ user' \in [Users -> UserType] /\ Unique' /\ slip' \in BOOLEAN
    /\ \A w \in Users : Ages(w)
    /\ \A w \in Users : user'[w] # user[w] =>
          \/ Fresh(w) /\ req[r].pc = "signup" /\ ~ user'[w].self /\ user'[w].st # "none"
          \/ /\ w = req[r].user /\ Live(w)
             /\ req[r].pc \in {"write", "sure", "blind", "promote", "rollback"}
    /\ ~ slip' => /\ ~ slip
                  /\ \A w \in Users : Administers(user[w]) =>
                        Administers(user'[w]) \/ (req[r].pc = "sure" /\ w = req[r].user)

\* A step that writes no account.
LEMMA NoUserStep ==
    ASSUME TypeInv, NEW r \in Requests, UNCHANGED <<user, slip>>
    PROVE  UsersGood(r)
BY DEF UsersGood, TypeInv, Unique, Live, Ages

\* A write of x to the account that r is about.
LEMMA WriteStep ==
    ASSUME TypeInv, NEW r \in Requests, NEW u \in Users, NEW x, u = req[r].user,
           req[r].pc \in {"write", "sure", "blind", "promote", "rollback"},
           Live(u) => /\ x \in UserType /\ x.st \in {"live", "gone"} /\ x.self = user[u].self
                      /\ x.email \in {user[u].email, None},
           Writes(u, x), Slips(r, u, x)
    PROVE  UsersGood(r)
<1>1. CASE ~ Live(u)
  <2>1. user' = user /\ slip' = slip
    BY <1>1 DEF Writes, Slips, Live, Administers, TypeInv
  <2> QED
    BY <2>1, NoUserStep
<1>2. CASE Live(u)
  <2>1. /\ user' \in [Users -> UserType] /\ Unique'
        /\ \A w \in Users : Ages(w)
        /\ \A w \in Users : w # u => user'[w] = user[w]
        /\ user'[u] = x
    BY <1>2, WritesKeep DEF Live
  <2>2. slip' \in BOOLEAN
    BY DEF Slips, TypeInv, Administers
  <2>3. ASSUME ~ slip' PROVE ~ slip /\ ~ (Administers(user[u]) /\ ~ Administers(x) /\ req[r].pc # "sure")
    BY <2>3 DEF Slips
  <2> QED
    BY <1>2, <2>1, <2>2, <2>3 DEF UsersGood
<1> QED
  BY <1>1, <1>2

\* Every step of a request.
LEMMA WorkUsers ==
    ASSUME TypeInv, NEW r \in Requests, Work(r)
    PROVE  UsersGood(r)
<1>1. ReqGood(req[r]) /\ req[r].change \in Changes
  BY DEF TypeInv, ReqType
<1>2. CASE Update(r)
  <2>1. /\ req[r].user \in Users /\ req[r].pc \in {"write", "sure", "blind"}
        /\ \/ UNCHANGED <<user, slip>>
           \/ /\ Writes(req[r].user, Changed(req[r].user, req[r].change))
              /\ Slips(r, req[r].user, Changed(req[r].user, req[r].change))
    BY <1>1, <1>2 DEF Update, ReqGood
  <2> QED
    BY <1>1, <2>1, Written, WriteStep, NoUserStep
<1>3. CASE Delete(r) \/ AcceptRollsBack(r)
  <2>1. /\ req[r].user \in Users /\ req[r].pc \in {"write", "sure", "rollback"}
        /\ \/ UNCHANGED <<user, slip>>
           \/ Writes(req[r].user, Removed(req[r].user)) /\ Slips(r, req[r].user, Removed(req[r].user))
    BY <1>1, <1>3 DEF Delete, AcceptRollsBack, ReqGood
  <2> QED
    BY <2>1, Written, WriteStep, NoUserStep
<1>4. CASE AcceptPromotes(r)
  <2> DEFINE u == req[r].user
             x == [user[u] EXCEPT !.role = inv[req[r].link].role]
  <2>1. /\ u \in Users /\ req[r].pc = "promote" /\ req[r].link \in Links
        /\ \/ UNCHANGED <<user, slip>>
           \/ Live(u) /\ user' = [user EXCEPT ![u] = x] /\ Slips(r, u, x)
    BY <1>1, <1>4 DEF AcceptPromotes, ReqGood, TypeInv
  <2>2. inv[req[r].link].role \in Roles /\ user[u] \in UserType
    BY <2>1 DEF TypeInv, LinkType
  <2>3. x \in UserType /\ x.st = user[u].st /\ x.self = user[u].self /\ x.email = user[u].email
    BY <2>2 DEF UserType
  <2> HIDE DEF x
  <2>4. CASE Live(u) /\ user' = [user EXCEPT ![u] = x] /\ Slips(r, u, x)
    <3>1. Writes(u, x) /\ x.st = "live"
      BY <2>3, <2>4 DEF Writes, Live
    <3> QED
      BY <2>1, <2>3, <2>4, <3>1, WriteStep
  <2> QED
    BY <2>1, <2>4, NoUserStep
<1>5. CASE AcceptSignsUp(r)
  <2>1. /\ req[r].pc = "signup" /\ req[r].email \in Emails /\ slip' = slip
        /\ \/ user' = user
           \/ \E u \in Users : /\ ~ Taken(req[r].email) /\ Fresh(u)
                               /\ SignedUp(u, req[r].email, FALSE)
    BY <1>1, <1>5 DEF AcceptSignsUp, ReqGood
  <2>2. ASSUME NEW u \in Users, ~ Taken(req[r].email), Fresh(u), SignedUp(u, req[r].email, FALSE)
        PROVE  UsersGood(r)
    <3>1. /\ user' \in [Users -> UserType] /\ Unique'
          /\ \A w \in Users : Ages(w) /\ (w # u => user'[w] = user[w])
          /\ user'[u].st = "live" /\ user'[u].self = FALSE
      BY <2>1, <2>2, SignUpKeeps
    <3> QED
      BY <2>1, <2>2, <3>1 DEF UsersGood, TypeInv, Administers, Fresh
  <2> QED
    BY <2>1, <2>2, NoUserStep
<1>6. CASE UNCHANGED <<user, slip>>
  BY <1>6, NoUserStep
<1> QED
  BY <1>2, <1>3, <1>4, <1>5, <1>6
     DEF Work, Administration, Invitation, Acceptance, AdminBegins, ReadTarget, FloorCheck,
         InviteBegins, InviteChecks, InviteSupersedes, InviteCreates, Revoke,
         AcceptLooks, AcceptChecks, AcceptDrops, SignUpFails, AcceptFinds,
         PromoteFails, RollBackFails, Crash

(***************************************************************************)
(* Invitations.                                                            *)
(***************************************************************************)

LinkGood(x) == x \in LinkType /\ (x.st # "none" => x.email \in Emails)

\* One decided stays decided, and none changes from a type.
LinksGood ==
    /\ inv' \in [Links -> LinkType] /\ \A i \in Links : LinkGood(inv'[i])
    /\ \A i \in Links : Stays(i)

\* A step that changes one invitation that is not decided.
LEMMA LinkStep ==
    ASSUME TypeInv, NEW i \in Links, NEW x, inv' = [inv EXCEPT ![i] = x], LinkGood(x),
           inv[i].st \notin {"ACCEPTED", "REVOKED"}
    PROVE  LinksGood
BY DEF TypeInv, LinksGood, LinkGood, Stays

\* The end of an account leaves the invitation it came by as it was decided.
LEMMA ClearsLinks ==
    ASSUME TypeInv, NEW u \in Users, inv' = Cleared(u)
    PROVE  LinksGood
<1>1. ASSUME NEW i \in Links
      PROVE  /\ LinkGood(inv'[i]) /\ inv'[i].st = inv[i].st
             /\ inv'[i].by \in {inv[i].by, None}
  <2>1. inv[i] \in LinkType /\ (inv[i].st # "none" => inv[i].email \in Emails)
    BY DEF TypeInv
  <2>2. inv'[i] = IF inv[i].by = u THEN [inv[i] EXCEPT !.by = None] ELSE inv[i]
    BY DEF Cleared
  <2> QED
    BY <2>1, <2>2 DEF LinkGood, LinkType
<1>2. inv' = [i \in Links |-> inv'[i]]
  BY DEF Cleared
<1>3. inv' \in [Links -> LinkType]
  BY <1>1, <1>2 DEF LinkGood
<1> QED
  BY <1>1, <1>3 DEF LinksGood, Stays

\* A step that leaves the invitations alone.
LEMMA NoLinkStep == ASSUME TypeInv, UNCHANGED inv PROVE LinksGood
BY DEF TypeInv, LinksGood, LinkGood, Stays

\* A revocation, alone or among others.
LEMMA Revoked ==
    ASSUME TypeInv, NEW i \in Links
    PROVE  LinkGood([inv[i] EXCEPT !.st = "REVOKED"]) \/ inv[i].st = "none"
BY DEF TypeInv, LinkGood, LinkType

\* Every step of a request.
LEMMA WorkLinks ==
    ASSUME TypeInv, NEW r \in Requests, Work(r)
    PROVE  LinksGood
<1>1. ReqGood(req[r])
  BY DEF TypeInv
<1>2. CASE InviteSupersedes(r)
  <2> DEFINE x(i) == [inv[i] EXCEPT !.st = "REVOKED"]
             S == {i \in Links : inv[i].st = "PENDING" /\ inv[i].email = req[r].email}
  <2>1. inv' = [i \in Links |-> IF i \in S THEN x(i) ELSE inv[i]]
    BY <1>2 DEF InviteSupersedes
  <2>2. \A i \in S : LinkGood(x(i))
    BY Revoked
  <2>3. \A i \in Links : LinkGood(inv[i])
    BY DEF TypeInv, LinkGood
  <2>4. \A i \in Links : i \notin S => inv'[i] = inv[i]
    BY <2>1
  <2>5. \A i \in S : inv'[i] = x(i) /\ inv[i].st = "PENDING"
    BY <2>1
  <2> HIDE DEF x, S
  <2>6. \A i \in Links : LinkGood(inv'[i])
    BY <2>2, <2>3, <2>4, <2>5
  <2>7. inv' \in [Links -> LinkType]
    BY <2>1, <2>2, <2>3 DEF LinkGood
  <2>8. \A i \in Links : Stays(i)
    BY <2>4, <2>5 DEF Stays
  <2> QED
    BY <2>6, <2>7, <2>8 DEF LinksGood
<1>3. CASE InviteCreates(r)
  <2>1. PICK i \in Links :
            /\ inv[i].st = "none"
            /\ inv' = [inv EXCEPT ![i] = [NoLink EXCEPT !.st = "PENDING", !.email = req[r].email,
                                                        !.role = req[r].change, !.fresh = TRUE]]
    BY <1>3 DEF InviteCreates
  <2>2. req[r].email \in Emails /\ req[r].op = "invite"
    BY <1>1, <1>3 DEF InviteCreates, ReqGood
  <2>3. req[r].change \in Roles
    BY <1>1, <1>3 DEF InviteCreates, ReqGood
  <2> DEFINE x == [NoLink EXCEPT !.st = "PENDING", !.email = req[r].email,
                                 !.role = req[r].change, !.fresh = TRUE]
  <2>4. LinkGood(x)
    BY <2>2, <2>3 DEF LinkGood, LinkType, NoLink
  <2>5. inv' = [inv EXCEPT ![i] = x]
    BY <2>1
  <2> HIDE DEF x
  <2> QED
    BY <2>1, <2>4, <2>5, LinkStep
<1>4. CASE \E i \in Links : Revoke(r, i)
  BY <1>4, Revoked, LinkStep DEF Revoke
<1>5. CASE AcceptDrops(r)
  <2>1. req[r].link \in Links
    BY <1>1, <1>5 DEF AcceptDrops, ReqGood
  <2> QED
    BY <1>5, <2>1, Revoked, LinkStep, NoLinkStep DEF AcceptDrops
<1>6. CASE AcceptPromotes(r)
  <2> DEFINE i == req[r].link
             x == [inv[i] EXCEPT !.st = "ACCEPTED", !.by = req[r].user]
  <2>1. /\ i \in Links /\ req[r].user \in Users
        /\ UNCHANGED inv \/ (inv[i].st = "PENDING" /\ inv' = [inv EXCEPT ![i] = x])
    BY <1>1, <1>6 DEF AcceptPromotes, ReqGood, Consumable, TypeInv
  <2>2. inv[i].st = "PENDING" => LinkGood(x)
    <3>1. inv[i] \in LinkType /\ (inv[i].st # "none" => inv[i].email \in Emails)
      BY <2>1 DEF TypeInv
    <3>2. x \in LinkType /\ x.email = inv[i].email
      BY <2>1, <3>1 DEF LinkType
    <3> QED
      BY <3>1, <3>2 DEF LinkGood
  <2> HIDE DEF x
  <2> QED
    BY <2>1, <2>2, LinkStep, NoLinkStep
<1>7. CASE Delete(r) \/ AcceptRollsBack(r)
  <2>1. req[r].user \in Users
    BY <1>1, <1>7 DEF Delete, AcceptRollsBack, ReqGood
  <2> QED
    BY <1>7, <2>1, ClearsLinks, NoLinkStep DEF Delete, AcceptRollsBack
<1>8. CASE UNCHANGED inv
  BY <1>8, NoLinkStep
<1> QED
  BY <1>2, <1>3, <1>4, <1>5, <1>6, <1>7, <1>8
     DEF Work, Administration, Invitation, Acceptance, AdminBegins, ReadTarget, FloorCheck, Update,
         InviteBegins, InviteChecks, AcceptLooks, AcceptChecks, AcceptSignsUp, SignUpFails,
         AcceptFinds, PromoteFails, RollBackFails, Crash

(***************************************************************************)
(* The steps of no request.                                                *)
(***************************************************************************)

\* A resent or expired invitation is pending as before; a registration makes an account.
LEMMA OtherSteps ==
    ASSUME AccountConstants, TypeInv, SelfInv,
           \/ \E i \in Links : Resend(i) \/ Expire(i)
           \/ \E u \in Users, e \in Emails : Register(u, e)
    PROVE  /\ UNCHANGED <<floor, req, faults, slip>> /\ LinksGood
           /\ user' \in [Users -> UserType] /\ Unique' /\ SelfInv'
           /\ \A w \in Users : Ages(w)
           /\ \A w \in Users : user'[w] # user[w] => ~ user[w].self /\ Fresh(w)
<1>1. CASE \E u \in Users, e \in Emails : Register(u, e)
  <2>1. PICK u \in Users, e \in Emails : Register(u, e)
    BY <1>1
  <2>2. /\ user' \in [Users -> UserType] /\ Unique'
        /\ \A w \in Users : Ages(w) /\ (w # u => user'[w] = user[w])
        /\ user'[u].st = "live" /\ user'[u].self = TRUE
    BY <2>1, SignUpKeeps DEF Register
  <2> QED
    BY <2>1, <2>2, NoLinkStep DEF Register, SelfInv, Fresh
<1>2. ASSUME NEW i \in Links, Resend(i) \/ Expire(i)
      PROVE  /\ UNCHANGED <<user, floor, req, faults, slip>> /\ LinksGood
  <2>1. inv[i] \in LinkType /\ inv[i].st = "PENDING" /\ inv[i].email \in Emails /\ inv[i].token \in Nat
    BY <1>2 DEF TypeInv, LinkType, Resend, Expire
  <2>2. CASE Resend(i)
    <3> DEFINE n == inv[i].token + 1
               x == [inv[i] EXCEPT !.token = n, !.fresh = TRUE]
    <3>a. n \in Nat
      BY <2>1
    <3>b. inv' = [inv EXCEPT ![i] = x]
      BY <2>2 DEF Resend, TypeInv
    <3> HIDE DEF n
    <3>0. x \in LinkType /\ x.st = inv[i].st /\ x.email = inv[i].email
      BY <2>1, <3>a DEF LinkType
    <3>1. LinkGood(x)
      BY <2>1, <3>0 DEF LinkGood
    <3> HIDE DEF x
    <3> QED
      BY <2>1, <2>2, <3>1, <3>b, LinkStep DEF Resend
  <2>3. CASE Expire(i)
    <3> DEFINE x == [inv[i] EXCEPT !.fresh = FALSE]
    <3>1. LinkGood(x)
      BY <2>1 DEF LinkGood, LinkType
    <3>2. inv' = [inv EXCEPT ![i] = x]
      BY <2>3 DEF Expire, TypeInv
    <3> HIDE DEF x
    <3> QED
      BY <2>1, <2>3, <3>1, <3>2, LinkStep DEF Expire
  <2> QED
    BY <1>2, <2>2, <2>3
<1>3. CASE \E i \in Links : Resend(i) \/ Expire(i)
  BY <1>2, <1>3 DEF TypeInv, Unique, Live, Ages, SelfInv
<1> QED
  BY <1>1, <1>3

(***************************************************************************)
(* The invariant holds at the start and is kept.                           *)
(***************************************************************************)

\* The lock, the requests and the faults of a step.
LEMMA WorkLocks ==
    ASSUME AccountConstants, TypeInv, LockInv, NEW r \in Requests, Work(r)
    PROVE  LockInv' /\ faults' \in Nat
<1>1. \A s \in Requests : s # r => req'[s] = req[s]
  BY WorkMoves
<1>a. r # None
  BY DEF AccountConstants
<1>2. CASE FloorCheck(r)
  <2>1. {"violation"} \subseteq Outs /\ {"sure"} \subseteq PCs
    BY DEF Outs, PCs
  <2>2. /\ req[r].pc = "floor" /\ floor = None /\ faults' = faults
        /\ (Done(r, "violation") /\ floor' = floor) \/ (Goto(r, "sure") /\ floor' = r)
    BY <1>2 DEF FloorCheck, FloorFree
  <2>3. (floor' = None /\ req'[r].pc = "done") \/ (floor' = r /\ req'[r].pc = "sure")
    BY <2>1, <2>2, DoneGood, GotoGood
  <2> QED
    BY <1>1, <1>a, <2>2, <2>3 DEF LockInv, TypeInv
<1>3. CASE Update(r) \/ Delete(r) \/ Crash(r)
  <2>1. req'[r].pc = "done" /\ Unlocks(r) /\ faults' \in Nat
    BY <1>3 DEF Update, Delete, Crash, Done, Fault, TypeInv, ReqType
  <2>2. floor' = IF floor = r THEN None ELSE floor
    BY <2>1 DEF Unlocks
  <2> QED
    BY <1>1, <1>a, <2>1, <2>2 DEF LockInv
<1>4. CASE ~ (FloorCheck(r) \/ Update(r) \/ Delete(r) \/ Crash(r))
  <2>1. ASSUME \/ AdminBegins(r) \/ InviteBegins(r) \/ AcceptLooks(r)
               \/ \E i \in Links : Revoke(r, i)
        PROVE  floor' = floor /\ faults' = faults /\ req[r].pc # "sure" /\ req'[r].pc # "sure"
    BY <2>1, Begins DEF AdminBegins, InviteBegins, AcceptLooks, Revoke
  <2>2. ASSUME ReadTarget(r) \/ InviteChecks(r) \/ InviteSupersedes(r) \/ InviteCreates(r)
        PROVE  floor' = floor /\ faults' = faults /\ req[r].pc # "sure" /\ req'[r].pc # "sure"
    BY <2>2 DEF ReadTarget, InviteChecks, InviteSupersedes, InviteCreates, Goto, Done, TypeInv,
                ReqType
  <2>3. ASSUME AcceptChecks(r) \/ AcceptDrops(r) \/ AcceptSignsUp(r) \/ AcceptFinds(r)
        PROVE  floor' = floor /\ faults' = faults /\ req[r].pc # "sure" /\ req'[r].pc # "sure"
    <3>1. /\ floor' = floor /\ faults' = faults /\ req[r].pc # "sure"
          /\ \/ \E p \in {"drop", "signup", "found"} : Goto(r, p)
             \/ Done(r, "refused")
             \/ \E u \in Users, p \in {"found", "promote"} :
                    req' = [req EXCEPT ![r].user = u, ![r].pc = p]
      BY <2>3 DEF AcceptChecks, AcceptDrops, AcceptSignsUp, AcceptFinds, Found
    <3>2. ASSUME NEW u \in Users, NEW p \in {"found", "promote"},
                 req' = [req EXCEPT ![r].user = u, ![r].pc = p]
          PROVE  req'[r].pc = p
      <4>1. req' = [req EXCEPT ![r] = [req[r] EXCEPT !.user = u, !.pc = p]]
        BY <3>2 DEF TypeInv
      <4> QED
        BY <4>1 DEF TypeInv, ReqType
    <3>3. ASSUME NEW p \in {"drop", "signup", "found"}, Goto(r, p)
          PROVE  req'[r].pc = p
      BY <3>3 DEF Goto, TypeInv, ReqType
    <3>4. ASSUME Done(r, "refused")
          PROVE  req'[r].pc = "done"
      BY <3>4 DEF Done, TypeInv, ReqType
    <3> QED
      BY <3>1, <3>2, <3>3, <3>4
  <2>4. ASSUME \/ SignUpFails(r) \/ AcceptPromotes(r) \/ PromoteFails(r)
               \/ AcceptRollsBack(r) \/ RollBackFails(r)
        PROVE  floor' = floor /\ faults' \in Nat /\ req[r].pc # "sure" /\ req'[r].pc # "sure"
    <3>1. /\ floor' = floor /\ faults' \in Nat /\ req[r].pc # "sure"
          /\ Goto(r, "rollback") \/ \E o \in {"refused", "accepted", "lost"} : Done(r, o)
      BY <2>4 DEF SignUpFails, AcceptPromotes, PromoteFails, AcceptRollsBack, RollBackFails,
                  Fault, TypeInv
    <3> QED
      BY <3>1 DEF Goto, Done, TypeInv, ReqType
  <2>5. floor' = floor /\ faults' \in Nat /\ req[r].pc # "sure" /\ req'[r].pc # "sure"
    BY <1>4, <2>1, <2>2, <2>3, <2>4 DEF Work, Administration, Invitation, Acceptance, TypeInv
  <2> QED
    BY <1>1, <2>5 DEF LockInv
<1> QED
  BY <1>2, <1>3, <1>4

LEMMA InitInd == AccountConstants /\ Init => IndInv
<1> SUFFICES ASSUME AccountConstants, Init PROVE IndInv
  OBVIOUS
<1>1. NewReq \in ReqType /\ NewReq.pc = "idle" /\ NewReq.op = "none" /\ NewReq.out = "none"
  BY DEF NewReq, ReqType, Changes
<1>2. ReqGood(NewReq)
  BY <1>1 DEF ReqGood
<1>3. /\ NoUser \in UserType /\ NoUser.st = "none" /\ ~ NoUser.self
      /\ [NoUser EXCEPT !.st = "live", !.role = "ADMIN"] \in UserType
      /\ Administers([NoUser EXCEPT !.st = "live", !.role = "ADMIN"])
      /\ [NoUser EXCEPT !.st = "live", !.role = "ADMIN"].email = None
      /\ ~ [NoUser EXCEPT !.st = "live", !.role = "ADMIN"].self
  BY DEF NoUser, UserType, Administers, Roles
<1>4. NoLink \in LinkType /\ NoLink.st = "none"
  BY DEF NoLink, LinkType, Roles
<1>5. \A r \in Requests : req[r] = NewReq
  BY DEF Init
<1> HIDE DEF NewReq, NoUser, NoLink
<1>6. TypeInv
  BY <1>1, <1>2, <1>3, <1>4 DEF Init, TypeInv, Unique, Live
<1>7. LockInv
  BY <1>1, <1>5 DEF Init, LockInv, AccountConstants
<1>8. FloorInv
  <2>1. ActiveAdmins # {}
    BY <1>3 DEF Init, ActiveAdmins, AccountConstants
  <2> QED
    BY <1>1, <1>5, <2>1 DEF FloorInv
<1>9. MadeInv /\ SelfInv /\ AnswerInv
  BY <1>1, <1>3, <1>5 DEF Init, MadeInv, SelfInv, AnswerInv
<1> QED
  BY <1>6, <1>7, <1>8, <1>9 DEF IndInv

\* What a step of r leaves of the floor.
LEMMA WorkFloor ==
    ASSUME AccountConstants, TypeInv, LockInv, FloorInv, NEW r \in Requests, Work(r)
    PROVE  FloorInv'
<1>1. /\ \A s \in Requests : s # r => req'[s] = req[s]
      /\ \A s \in Requests : req[s].pc = "sure" <=> floor = s
      /\ LockInv'
  BY WorkMoves, WorkLocks DEF LockInv
<1>2. UsersGood(r)
  BY WorkUsers
<1> SUFFICES ASSUME ~ slip'
             PROVE  /\ (ActiveAdmins # {})'
                    /\ \A s \in Requests : req'[s].pc = "sure" => (ActiveAdmins \ {req[s].user} # {})'
  BY DEF FloorInv
<1>3. /\ ~ slip
      /\ \A w \in Users : Administers(user[w]) =>
            Administers(user'[w]) \/ (req[r].pc = "sure" /\ w = req[r].user)
  BY <1>2 DEF UsersGood
<1>4. CASE FloorCheck(r)
  <2>1. user' = user /\ req[r].pc = "floor" /\ floor = None
    BY <1>4 DEF FloorCheck, FloorFree
  <2>2. ActiveAdmins' = ActiveAdmins
    BY <2>1 DEF ActiveAdmins
  <2>3. \A s \in Requests : s # r => req'[s].pc # "sure"
    BY <1>1, <2>1 DEF AccountConstants
  <2>4. CASE Done(r, "violation")
    BY <1>3, <2>2, <2>3, <2>4 DEF FloorInv, Done, TypeInv, ReqType
  <2>5. CASE ActiveAdmins \ {req[r].user} # {} /\ Goto(r, "sure")
    <3>1. req'[r].user = req[r].user
      BY <2>5, GotoGood DEF PCs
    <3> QED
      BY <1>3, <2>2, <2>3, <2>5, <3>1 DEF FloorInv
  <2> QED
    BY <1>4, <2>4, <2>5 DEF FloorCheck
<1>5. CASE ~ FloorCheck(r) /\ req[r].pc = "sure"
  <2>1. req'[r].pc # "sure"
    BY <1>5 DEF Work, Administration, Invitation, Acceptance, AdminBegins, ReadTarget, Update,
         Delete, InviteBegins, InviteChecks, InviteSupersedes, InviteCreates, Revoke,
         AcceptLooks, AcceptChecks, AcceptDrops, AcceptSignsUp, SignUpFails, AcceptFinds,
         AcceptPromotes, PromoteFails, AcceptRollsBack, RollBackFails, Crash, Goto, Done,
         TypeInv, ReqType
  <2>2. \A s \in Requests : req'[s].pc # "sure"
    BY <1>1, <1>5, <2>1
  <2>3. PICK w \in ActiveAdmins : w # req[r].user
    BY <1>3, <1>5 DEF FloorInv
  <2>4. w \in ActiveAdmins'
    BY <1>3, <2>3 DEF ActiveAdmins
  <2> QED
    BY <2>2, <2>4
<1>6. CASE ~ FloorCheck(r) /\ req[r].pc # "sure"
  <2>1. ActiveAdmins \subseteq ActiveAdmins'
    BY <1>3, <1>6 DEF ActiveAdmins
  <2>2. floor' = floor \/ floor' = None
    BY <1>6 DEF Work, Administration, Invitation, Acceptance, AdminBegins, ReadTarget, Update,
         Delete, InviteBegins, InviteChecks, InviteSupersedes, InviteCreates, Revoke,
         AcceptLooks, AcceptChecks, AcceptDrops, AcceptSignsUp, SignUpFails, AcceptFinds,
         AcceptPromotes, PromoteFails, AcceptRollsBack, RollBackFails, Crash, Unlocks
  <2>3. \A s \in Requests : req'[s].pc = "sure" => s # r /\ req[s].pc = "sure"
    BY <1>1, <1>6, <2>2 DEF LockInv, AccountConstants
  <2> QED
    BY <1>1, <1>3, <2>1, <2>3 DEF FloorInv
<1> QED
  BY <1>4, <1>5, <1>6

\* What it leaves of the accounts that acceptances made.
LEMMA WorkMade ==
    ASSUME AccountConstants, TypeInv, MadeInv, SelfInv, NEW r \in Requests, Work(r)
    PROVE  MadeInv' /\ SelfInv'
<1>1. /\ \A s \in Requests : s # r => req'[s] = req[s]
      /\ UsersGood(r) /\ ReqGood(req[r]) /\ ReqGood(req'[r])
      /\ \A s \in Requests : req[s].user \in Users \cup {None} /\ req[s].email \in Emails \cup {None}
  BY WorkMoves, WorkUsers, WorkGood DEF TypeInv, ReqType
<1>2. SelfInv'
  BY <1>1 DEF SelfInv, UsersGood, Ages, Fresh, Live
<1>3. ASSUME NEW s \in Requests, req[s].op = "accept", req[s].user # None
      PROVE  /\ user'[req[s].user].st # "none" /\ ~ user'[req[s].user].self
             /\ req[s].out = "refused" => \/ user'[req[s].user].st = "gone"
                                          \/ user'[req[s].user].email # req[s].email
  <2>1. req[s].user \in Users /\ req[s].email \in Emails /\ req[s].email # None
    BY <1>1, <1>3 DEF TypeInv, ReqGood, AccountConstants
  <2> QED
    BY <1>1, <1>3, <2>1 DEF MadeInv, UsersGood, Ages
<1>4. ASSUME req'[r].op = "accept", req'[r].user # None
      PROVE  /\ user'[req'[r].user].st # "none" /\ ~ user'[req'[r].user].self
             /\ req'[r].out = "refused" => \/ user'[req'[r].user].st = "gone"
                                           \/ user'[req'[r].user].email # req'[r].email
  <2> DEFINE Good(q) == /\ user'[q.user].st # "none" /\ ~ user'[q.user].self
                        /\ q.out = "refused" => \/ user'[q.user].st = "gone"
                                                 \/ user'[q.user].email # q.email
  <2>1. CASE AdminBegins(r) \/ InviteBegins(r) \/ AcceptLooks(r) \/ \E i \in Links : Revoke(r, i)
    <3>1. req'[r].pc \in {"blind", "read", "check", "exists", "done"}
      BY <2>1, Begins
    <3>2. req'[r].pc = "done" => req'[r].op = "revoke"
      BY <2>1, Begins
    <3> QED
      BY <1>1, <1>4, <3>1, <3>2 DEF ReqGood
  <2>2. CASE \/ ReadTarget(r) \/ FloorCheck(r) \/ Update(r) \/ Delete(r)
             \/ InviteChecks(r) \/ InviteSupersedes(r) \/ InviteCreates(r)
    <3>1. req'[r].op = req[r].op
      BY <2>2 DEF ReadTarget, FloorCheck, Update, Delete, InviteChecks, InviteSupersedes,
                  InviteCreates, Goto, Done, TypeInv, ReqType
    <3>2. req[r].pc \in {"read", "floor", "write", "sure", "blind", "check", "supersede", "create"}
      BY <2>2 DEF ReadTarget, FloorCheck, Update, Delete, InviteChecks, InviteSupersedes, InviteCreates
    <3> QED
      BY <1>1, <1>4, <3>1, <3>2 DEF ReqGood
  <2>3. ASSUME NEW p \in PCs, Goto(r, p), req[r].pc # "done"
        PROVE  Good(req'[r])
    <3>1. req'[r].op = req[r].op /\ req'[r].user = req[r].user /\ req'[r].out = "none"
      BY <1>1, <2>3, GotoGood DEF ReqGood
    <3> QED
      BY <1>3, <1>4, <3>1
  <2>4. ASSUME NEW o \in Outs, Done(r, o),
               req[r].user = None \/ o # "refused" \/ user'[req[r].user].st = "gone"
                   \/ user'[req[r].user].email # req[r].email
        PROVE  Good(req'[r])
    <3>1. /\ req'[r].op = req[r].op /\ req'[r].user = req[r].user /\ req'[r].out = o
          /\ req'[r].email = req[r].email
      BY <2>4, DoneGood
    <3> QED
      BY <1>3, <1>4, <2>4, <3>1
  <2>5. {"drop", "signup", "found", "promote", "rollback"} \subseteq PCs
        /\ {"refused", "accepted", "lost"} \subseteq Outs
    BY DEF PCs, Outs
  <2>6. CASE AcceptChecks(r) \/ PromoteFails(r) \/ AcceptPromotes(r) \/ RollBackFails(r) \/ Crash(r)
    <3>1. /\ req[r].pc # "done"
          /\ \/ \E p \in {"drop", "signup", "rollback"} : Goto(r, p)
             \/ \E o \in {"accepted", "lost"} : Done(r, o)
      BY <2>6 DEF AcceptChecks, PromoteFails, AcceptPromotes, RollBackFails, Crash
    <3> QED
      BY <2>3, <2>4, <2>5, <3>1
  <2>7. CASE AcceptDrops(r) \/ SignUpFails(r)
    <3>1. req[r].pc \in {"drop", "signup"} /\ Done(r, "refused")
      BY <2>7 DEF AcceptDrops, SignUpFails
    <3> QED
      BY <1>1, <2>4, <2>5, <3>1 DEF ReqGood
  <2>8. CASE AcceptRollsBack(r)
    <3>1. /\ req[r].user \in Users /\ req[r].op = "accept" /\ Done(r, "refused")
          /\ Writes(req[r].user, Removed(req[r].user))
      BY <1>1, <2>8 DEF AcceptRollsBack, ReqGood
    <3>2. user[req[r].user].st \in {"live", "gone"}
      BY <3>1 DEF MadeInv, TypeInv, UserType, AccountConstants
    <3>3. user'[req[r].user].st = "gone"
      BY <3>1, <3>2 DEF Writes, Removed, Live, TypeInv, UserType
    <3> QED
      BY <2>4, <2>5, <3>1, <3>3
  <2>9. CASE AcceptFinds(r)
    <3>1. req[r].pc = "found" /\ req[r].op = "accept" /\ req[r].link \in Links /\ user' = user
      BY <1>1, <2>9 DEF AcceptFinds, ReqGood
    <3>2. CASE Found(r) = {} /\ Done(r, "refused")
      <4>1. CASE req[r].user = None
        BY <2>4, <2>5, <3>2, <4>1
      <4>2. CASE req[r].user # None
        <5>1. req[r].user \in Users /\ user[req[r].user].st \in {"live", "gone"}
          BY <1>1, <3>1, <4>2 DEF MadeInv, TypeInv, UserType
        <5>2. user'[req[r].user].st = "gone" \/ user'[req[r].user].email # req[r].email
          BY <3>1, <3>2, <5>1 DEF Found, Live
        <5> QED
          BY <2>4, <2>5, <3>2, <5>2
      <4> QED
        BY <4>1, <4>2
    <3>3. CASE \E u \in Found(r) : req' = [req EXCEPT ![r].user = u, ![r].pc = "promote"]
      <4>1. PICK u \in Users : /\ u = req[r].user
                               /\ req' = [req EXCEPT ![r].user = u, ![r].pc = "promote"]
        BY <3>3 DEF Found
      <4>2. req'[r].user = u /\ req'[r].out = "none"
        BY <1>1, <3>1, <4>1, NamesUser
      <4> QED
        BY <1>3, <3>1, <4>1, <4>2 DEF AccountConstants
    <3> QED
      BY <2>9, <3>2, <3>3 DEF AcceptFinds
  <2>10. CASE AcceptSignsUp(r)
    <3>1. req[r].pc = "signup" /\ req[r].op = "accept" /\ req[r].link \in Links
          /\ req[r].email \in Emails
      BY <1>1, <2>10 DEF AcceptSignsUp, ReqGood
    <3>2. CASE Goto(r, "found")
      BY <2>3, <2>5, <3>1, <3>2
    <3>3. CASE \E u \in Users : /\ Fresh(u) /\ ~ Taken(req[r].email)
                                /\ SignedUp(u, req[r].email, FALSE)
                                /\ req' = [req EXCEPT ![r].user = u, ![r].pc = "found"]
      <4>1. PICK u \in Users : /\ Fresh(u) /\ ~ Taken(req[r].email)
                               /\ SignedUp(u, req[r].email, FALSE)
                               /\ req' = [req EXCEPT ![r].user = u, ![r].pc = "found"]
        BY <3>3
      <4>2. req'[r].user = u /\ req'[r].out = "none"
        BY <1>1, <3>1, <4>1, NamesUser
      <4>3. user'[u].st = "live" /\ user'[u].self = FALSE
        BY <3>1, <4>1, SignUpKeeps
      <4> QED
        BY <4>2, <4>3
    <3> QED
      BY <2>10, <3>2, <3>3 DEF AcceptSignsUp
  <2> QED
    BY <2>1, <2>2, <2>6, <2>7, <2>8, <2>9, <2>10 DEF Work, Administration, Invitation, Acceptance
<1> QED
  BY <1>1, <1>2, <1>3, <1>4 DEF MadeInv

\* What it leaves of the answers about invitations.
LEMMA WorkAnswers ==
    ASSUME TypeInv, AnswerInv, NEW r \in Requests, Work(r)
    PROVE  AnswerInv'
<1>1. /\ \A s \in Requests : s # r => req'[s] = req[s]
      /\ LinksGood /\ ReqGood(req[r]) /\ ReqGood(req'[r])
      /\ \A s \in Requests : req[s].out \in {"revoked", "accepted"} => req[s].link \in Links
      /\ req[r].out = "none"
  BY WorkMoves, WorkLinks, WorkGood DEF TypeInv, ReqGood
\* What was answered before still stands.
<1>2. \A s \in Requests : req[s].out = "revoked" => inv'[req[s].link].st = "REVOKED"
  BY <1>1 DEF AnswerInv, LinksGood, Stays
<1>3. \A s \in Requests : req[s].out = "accepted" =>
          /\ inv'[req[s].link].st = "ACCEPTED" /\ inv'[req[s].link].by \in {req[s].user, None}
  BY <1>1 DEF AnswerInv, LinksGood, Stays
<1>4. CASE req'[r].out \notin {"revoked", "accepted"}
  BY <1>1, <1>2, <1>3, <1>4 DEF AnswerInv
<1>5. CASE \E i \in Links : Revoke(r, i)
  <2>1. PICK i \in Links : Revoke(r, i)
    BY <1>5
  <2>2. req'[r].link = i /\ req'[r].out = "revoked" /\ inv'[i].st = "REVOKED"
    BY <2>1 DEF Revoke, NewReq, TypeInv, LinkType
  <2> QED
    BY <1>1, <1>2, <1>3, <2>2 DEF AnswerInv
<1>6. CASE AcceptPromotes(r) /\ Done(r, "accepted")
  <2> DEFINE i == req[r].link
             u == req[r].user
  <2>1. "accepted" \in Outs
    BY DEF Outs
  <2>2. /\ req'[r].out = "accepted" /\ req'[r].link = i /\ req'[r].user = u
        /\ i \in Links
    BY <1>1, <1>6, <2>1, DoneGood DEF AcceptPromotes, ReqGood
  <2>3. CASE /\ inv[i].st = "PENDING"
             /\ inv' = [inv EXCEPT ![i].st = "ACCEPTED", ![i].by = u]
    <3>1. inv' = [inv EXCEPT ![i] = [inv[i] EXCEPT !.st = "ACCEPTED", !.by = u]]
      BY <2>3 DEF TypeInv
    <3>2. inv'[i].st = "ACCEPTED" /\ inv'[i].by = u
      BY <2>2, <3>1 DEF TypeInv, LinkType
    <3>3. \A s \in Requests : req[s].out = "accepted" => req[s].link # i
      BY <2>3 DEF AnswerInv
    <3> QED
      BY <1>1, <1>2, <1>3, <2>2, <3>2, <3>3 DEF AnswerInv
  <2>4. CASE Goto(r, "rollback")
    <3>1. req'[r].pc = "rollback"
      BY <2>4, GotoGood DEF PCs
    <3> QED
      BY <1>1, <2>2, <3>1 DEF ReqGood
  <2> QED
    BY <1>6, <2>3, <2>4 DEF AcceptPromotes, Consumable
<1>7. CASE ~ (AcceptPromotes(r) /\ Done(r, "accepted")) /\ ~ \E i \in Links : Revoke(r, i)
  <2>1. CASE AdminBegins(r) \/ InviteBegins(r) \/ AcceptLooks(r)
    BY <1>4, <1>7, <2>1, Begins
  <2>2. CASE \/ \E p \in PCs : Goto(r, p)
             \/ \E o \in Outs \ {"revoked", "accepted"} : Done(r, o)
    <3>1. req'[r].out \notin {"revoked", "accepted"}
      BY <1>1, <2>2, GotoGood, DoneGood
    <3> QED
      BY <1>4, <3>1
  <2>3. CASE AcceptSignsUp(r) \/ AcceptFinds(r)
    <3>1. req'[r].pc # "done" \/ Done(r, "refused")
      BY <1>1, <2>3, WorkPlaces
    <3>2. "refused" \in Outs \ {"revoked", "accepted"}
      BY DEF Outs
    <3> QED
      BY <1>1, <1>4, <2>2, <3>1, <3>2 DEF ReqGood
  <2>4. ASSUME ~ (AdminBegins(r) \/ InviteBegins(r) \/ AcceptLooks(r)),
               ~ (AcceptSignsUp(r) \/ AcceptFinds(r))
        PROVE  \/ \E p \in PCs : Goto(r, p)
               \/ \E o \in Outs \ {"revoked", "accepted"} : Done(r, o)
    <3>1. /\ {"missing", "violation", "written", "refused", "taken", "created", "lost"}
                  \subseteq Outs \ {"revoked", "accepted"}
          /\ {"floor", "write", "sure", "supersede", "create", "drop", "signup", "rollback"}
                  \subseteq PCs
      BY DEF Outs, PCs
    <3> QED
      BY <1>7, <2>4, <3>1 DEF Work, Administration, Invitation, Acceptance, ReadTarget,
         FloorCheck, Update, Delete, InviteChecks, InviteSupersedes, InviteCreates,
         AcceptChecks, AcceptDrops, SignUpFails, AcceptPromotes, PromoteFails,
         AcceptRollsBack, RollBackFails, Crash
  <2> QED
    BY <2>1, <2>2, <2>3, <2>4
<1> QED
  BY <1>5, <1>6, <1>7

(***************************************************************************)
(* The theorems.                                                           *)
(***************************************************************************)

\* Every step keeps the invariant.
LEMMA NextInd == AccountConstants /\ IndInv /\ [Next]_vars => IndInv'
<1> SUFFICES ASSUME AccountConstants, IndInv, [Next]_vars PROVE IndInv'
  OBVIOUS
<1>1. TypeInv /\ LockInv /\ FloorInv /\ MadeInv /\ SelfInv /\ AnswerInv
  BY DEF IndInv
<1>2. CASE UNCHANGED vars
  BY <1>1, <1>2 DEF vars, IndInv, TypeInv, Unique, Live, LockInv, FloorInv, ActiveAdmins, MadeInv,
                    SelfInv, AnswerInv
<1>3. ASSUME NEW r \in Requests, Work(r) PROVE IndInv'
  <2>1. /\ req' \in [Requests -> ReqType] /\ ReqGood(req'[r])
        /\ \A s \in Requests : s # r => req'[s] = req[s]
    BY <1>1, <1>3, WorkGood, WorkMoves
  <2>2. UsersGood(r) /\ LinksGood /\ LockInv' /\ faults' \in Nat
    BY <1>1, <1>3, WorkUsers, WorkLinks, WorkLocks
  <2>3. TypeInv'
    BY <1>1, <2>1, <2>2 DEF TypeInv, UsersGood, LinksGood, LinkGood
  <2> QED
    BY <1>1, <1>3, <2>2, <2>3, WorkFloor, WorkMade, WorkAnswers DEF IndInv
<1>4. CASE \/ \E i \in Links : Resend(i) \/ Expire(i)
           \/ \E u \in Users, e \in Emails : Register(u, e)
  <2>1. /\ UNCHANGED <<floor, req, faults, slip>> /\ LinksGood
        /\ user' \in [Users -> UserType] /\ Unique' /\ SelfInv'
        /\ \A w \in Users : Ages(w)
        /\ \A w \in Users : user'[w] # user[w] => ~ user[w].self /\ Fresh(w)
    BY <1>1, <1>4, OtherSteps
  <2>2. TypeInv' /\ LockInv'
    BY <1>1, <2>1 DEF TypeInv, LinksGood, LinkGood, LockInv
  <2>3. ActiveAdmins \subseteq ActiveAdmins'
    BY <2>1 DEF ActiveAdmins, Administers, Fresh
  <2>4. FloorInv'
    BY <1>1, <2>1, <2>3 DEF FloorInv
  <2>5. MadeInv'
    <3> SUFFICES ASSUME NEW s \in Requests, req[s].op = "accept", req[s].user # None
                 PROVE  /\ user'[req[s].user].st # "none" /\ ~ user'[req[s].user].self
                        /\ req[s].out = "refused" => \/ user'[req[s].user].st = "gone"
                                                     \/ user'[req[s].user].email # req[s].email
      BY <2>1 DEF MadeInv
    <3>1. req[s].user \in Users /\ user[req[s].user].st # "none"
      BY <1>1 DEF TypeInv, ReqType, MadeInv
    <3>2. user'[req[s].user] = user[req[s].user]
      BY <2>1, <3>1 DEF Fresh
    <3> QED
      BY <1>1, <3>2 DEF MadeInv
  <2>6. AnswerInv'
    <3>1. \A s \in Requests : req[s].out \in {"revoked", "accepted"} => req[s].link \in Links
      BY <1>1 DEF TypeInv, ReqGood
    <3> QED
      BY <1>1, <2>1, <3>1 DEF AnswerInv, LinksGood, Stays
  <2> QED
    BY <2>1, <2>2, <2>4, <2>5, <2>6 DEF IndInv
<1> QED
  BY <1>2, <1>3, <1>4 DEF Next, Work

\* Accounts, invitations and requests stay well formed, no two live accounts share an address,
\* and the advisory lock is held by the one write that passed the floor, if any.
THEOREM TypeTheorem == Spec => []TypeOK
<1>1. IndInv => TypeOK
  BY DEF IndInv, TypeInv, LockInv, Unique, TypeOK
<1> QED
  BY <1>1, InitInd, NextInd, AccountConstants, PTL DEF Spec

\* Crossed removals that ask for the floor leave an active ADMIN.
THEOREM FloorTheorem == Spec => []FloorGuarded
<1>1. IndInv => FloorGuarded
  BY DEF IndInv, FloorInv, FloorGuarded
<1> QED
  BY <1>1, InitInd, NextInd, AccountConstants, PTL DEF Spec

\* What was answered about an invitation stays true.
THEOREM AnswersTheorem == Spec => []AnswersStand
<1>1. IndInv => AnswersStand
  <2> SUFFICES ASSUME IndInv PROVE AnswersStand
    OBVIOUS
  <2>1. AnswerInv /\ MadeInv
    BY DEF IndInv
  <2>2. \A r \in Requests : req[r].op = "accept" /\ req[r].out = "refused" /\ req[r].user # None
            => ~ (Live(req[r].user) /\ user[req[r].user].email = req[r].email)
    BY <2>1 DEF MadeInv, Live
  <2> QED
    BY <2>1, <2>2 DEF AnswerInv, AnswersStand
<1> QED
  BY <1>1, InitInd, NextInd, AccountConstants, PTL DEF Spec

\* Only administrators change an account its owner made.
THEOREM SelfTheorem == Spec => SelfMadeIsTheirs
<1> DEFINE A == \A u \in Users : user[u].self /\ user'[u] # user[u] =>
                    \E r \in Requests : req[r].op \in {"patch", "chat", "delete"} /\ req'[r] # req[r]
<1>1. IndInv /\ [Next]_vars => [A]_vars
  <2> SUFFICES ASSUME IndInv, Next PROVE A
    OBVIOUS
  <2>1. TypeInv /\ MadeInv /\ SelfInv
    BY DEF IndInv
  <2>2. CASE \/ \E i \in Links : Resend(i) \/ Expire(i)
             \/ \E u \in Users, e \in Emails : Register(u, e)
    BY <2>1, <2>2, AccountConstants, OtherSteps
  <2>3. ASSUME NEW r \in Requests, Work(r) PROVE A
    <3>1. UsersGood(r) /\ ReqGood(req[r]) /\ ReqGood(req'[r]) /\ req[r].pc # "done"
      BY <2>1, <2>3, WorkUsers, WorkGood, WorkMoves DEF TypeInv
    <3> SUFFICES ASSUME NEW u \in Users, user[u].self, user'[u] # user[u]
                 PROVE  req[r].op \in {"patch", "chat", "delete"} /\ req'[r] # req[r]
      OBVIOUS
    <3>2. u = req[r].user /\ req[r].pc \in {"write", "sure", "blind", "promote", "rollback"}
      BY <2>1, <3>1 DEF UsersGood, SelfInv, Fresh
    <3>3. u # None
      BY AccountConstants DEF AccountConstants
    <3>4. req[r].pc \in {"write", "sure", "blind"}
      BY <2>1, <3>1, <3>2, <3>3 DEF MadeInv, ReqGood
    <3>5. req[r].op \in {"patch", "chat", "delete"}
      BY <3>1, <3>4 DEF ReqGood
    <3>6. req'[r] # req[r]
      BY <2>1, <2>3, <3>1, <3>4, WorkPlaces
    <3> QED
      BY <3>5, <3>6
  <2> QED
    BY <2>2, <2>3 DEF Next, Work
<1> QED
  BY <1>1, InitInd, NextInd, AccountConstants, PTL DEF Spec, SelfMadeIsTheirs
=============================================================================
