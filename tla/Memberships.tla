---------------------------- MODULE Memberships -----------------------------
(***************************************************************************)
(* The members and invites of one organization: MembershipService and the  *)
(* repositories under it, called by the team routes.  Every repository     *)
(* call is a transaction of its own, so requests interleave between them,  *)
(* and a request may be dropped between two of them (client gone, 30 s     *)
(* timeout).                                                               *)
(***************************************************************************)
EXTENDS Integers, FiniteSets

CONSTANTS
    User, Founder,   \* users; the one who created the organization
    Invite,          \* invites that can be issued
    Request          \* bound: HTTP requests, each made once

ASSUME FounderAssumption == Founder \in User

VARIABLES
    member,   \* role of each user, "none" when there is no live row
    invites,  \* the invites table
    reqs,     \* the requests
    joined,   \* invites through which a membership was inserted, with the request
    overlap   \* history: a request started while another one was open

vars == <<member, invites, reqs, joined, overlap>>

\* "member" stands for developer and viewer, which this code does not tell apart.
Role == {"owner", "admin", "member"}
Op == {"update", "remove", "invite", "revoke", "accept"}

InviteRow == [state : {"unused", "pending", "expired", "accepted", "revoked"},
              email : User, role : Role]
Pc == {"idle", "authorize", "check", "count", "write", "mark", "join", "done"}
Req == [pc : Pc, op : Op, actor : User, target : User, role : Role,
        invite : Invite \cup {"none"}]

TypeOK ==
    /\ member \in [User -> Role \cup {"none"}]
    /\ invites \in [Invite -> InviteRow]
    /\ reqs \in [Request -> Req]
    /\ joined \in SUBSET (Invite \X Request)
    /\ overlap \in BOOLEAN

Call(pc, op, actor, target, role, invite) ==
    [pc |-> pc, op |-> op, actor |-> actor, target |-> target, role |-> role, invite |-> invite]
Blank == Call("idle", "accept", Founder, Founder, "member", "none")
Done == Call("done", "accept", Founder, Founder, "member", "none")

\* The organization may already have other members.
Init ==
    /\ member \in {m \in [User -> Role \cup {"none"}] : m[Founder] = "owner"}
    /\ invites = [i \in Invite |-> [state |-> "unused", email |-> Founder, role |-> "member"]]
    /\ reqs = [r \in Request |-> Blank]
    /\ joined = {}
    /\ overlap = FALSE

Owners == {u \in User : member[u] = "owner"}
CanManage(u) == member[u] \in {"owner", "admin"}
Live(i) == invites[i].state = "pending"
InFlight(r) == reqs[r].pc \notin {"idle", "done"}
Goto(r, pc) == reqs' = [reqs EXCEPT ![r] = IF pc = "done" THEN Done ELSE [reqs[r] EXCEPT !.pc = pc]]

-----------------------------------------------------------------------------
Open(r, request) == reqs' = [reqs EXCEPT ![r] = request]

\* A route is called.  OwnerActor admits owners and admins; accept takes any
\* signed-in user.
Receive(r) ==
    /\ reqs[r].pc = "idle"
    /\ overlap' = (overlap \/ \E s \in Request : InFlight(s))
    /\ \/ \E a, t \in User, role \in Role, op \in {"update", "invite"} :
            CanManage(a) /\ Open(r, Call("authorize", op, a, t, role, "none"))
       \/ \E a, t \in User :
            CanManage(a) /\ Open(r, Call("authorize", "remove", a, t, "member", "none"))
       \/ \E a \in User, i \in Invite :
            CanManage(a) /\ Open(r, Call("authorize", "revoke", a, Founder, "member", i))
       \/ \E u \in User, i \in Invite : Open(r, Call("check", "accept", u, Founder, "member", i))
    /\ UNCHANGED <<member, invites, joined>>

\* require_member_management; then the operation's own first check.
Authorize(r) ==
    /\ reqs[r].pc = "authorize"
    /\ Goto(r, IF \/ ~CanManage(reqs[r].actor)
                  \/ reqs[r].op = "remove" /\ reqs[r].target = reqs[r].actor
               THEN "done"
               ELSE IF reqs[r].op = "update" /\ reqs[r].role # "owner" THEN "check" ELSE "write")
    /\ UNCHANGED <<member, invites, joined, overlap>>

\* update_role: only a demoted owner calls for a count.
CheckTarget(r) ==
    /\ reqs[r].pc = "check" /\ reqs[r].op = "update"
    /\ Goto(r, IF member[reqs[r].target] = "owner" THEN "count" ELSE "write")
    /\ UNCHANGED <<member, invites, joined, overlap>>

\* Mutant of CountOwners: off by one.
CountOwnersLax(r) ==
    /\ reqs[r].pc = "count"
    /\ Goto(r, IF Cardinality(Owners) < 1 THEN "done" ELSE "write")
    /\ UNCHANGED <<member, invites, joined, overlap>>

CountOwners(r) ==
    /\ reqs[r].pc = "count"
    /\ Goto(r, IF Cardinality(Owners) <= 1 THEN "done" ELSE "write")
    /\ UNCHANGED <<member, invites, joined, overlap>>

\* UPDATE ... SET role; 404 when there is no live row.
WriteRole(r) ==
    /\ reqs[r].pc = "write" /\ reqs[r].op = "update"
    /\ member' = [member EXCEPT ![reqs[r].target] = IF @ = "none" THEN @ ELSE reqs[r].role]
    /\ Goto(r, "done")
    /\ UNCHANGED <<invites, joined, overlap>>

Remove(r) ==
    /\ reqs[r].pc = "write" /\ reqs[r].op = "remove"
    /\ member' = [member EXCEPT ![reqs[r].target] = "none"]
    /\ Goto(r, "done")
    /\ UNCHANGED <<invites, joined, overlap>>

\* The partial unique index: neither accepted nor revoked, expired or not.
Invited(u) == \E i \in Invite : invites[i].email = u /\ invites[i].state \in {"pending", "expired"}

\* INSERT; refused (409) while the address is invited.
IssueInvite(r) ==
    /\ reqs[r].pc = "write" /\ reqs[r].op = "invite"
    /\ \/ Invited(reqs[r].target) /\ UNCHANGED invites
       \/ \E i \in Invite :
            /\ ~Invited(reqs[r].target) /\ invites[i].state = "unused"
            /\ invites' = [invites EXCEPT ![i] =
                   [state |-> "pending", email |-> reqs[r].target, role |-> reqs[r].role]]
    /\ Goto(r, "done")
    /\ UNCHANGED <<member, joined, overlap>>

RevokeInvite(r) ==
    LET i == reqs[r].invite IN
    /\ reqs[r].pc = "write" /\ reqs[r].op = "revoke"
    /\ invites' = [invites EXCEPT ![i].state = IF @ \in {"pending", "expired"} THEN "revoked" ELSE @]
    /\ Goto(r, "done")
    /\ UNCHANGED <<member, joined, overlap>>

\* accept_invite: look the token up, check that it is live and addressed to the user.
CheckInvite(r) ==
    /\ reqs[r].pc = "check" /\ reqs[r].op = "accept"
    /\ Goto(r, IF Live(reqs[r].invite) /\ invites[reqs[r].invite].email = reqs[r].actor
               THEN "mark" ELSE "done")
    /\ UNCHANGED <<member, invites, joined, overlap>>

\* Mutant of MarkAccepted: an UPDATE by id alone.
MarkUnconditionally(r) ==
    LET i == reqs[r].invite IN
    /\ reqs[r].pc = "mark"
    /\ invites' = [invites EXCEPT ![i].state = "accepted"]
    /\ Goto(r, "join")
    /\ UNCHANGED <<member, joined, overlap>>

\* The UPDATE repeats the conditions; no row updated is Forbidden.
MarkAccepted(r) ==
    LET i == reqs[r].invite IN
    /\ reqs[r].pc = "mark"
    /\ invites' = IF Live(i) THEN [invites EXCEPT ![i].state = "accepted"] ELSE invites
    /\ Goto(r, IF Live(i) THEN "join" ELSE "done")
    /\ UNCHANGED <<member, joined, overlap>>

\* INSERT ... ON CONFLICT DO UPDATE: the invite's role replaces any other.
Join(r) ==
    LET i == reqs[r].invite IN
    /\ reqs[r].pc = "join"
    /\ member' = [member EXCEPT ![reqs[r].actor] = invites[i].role]
    /\ joined' = joined \cup {<<i, r>>}
    /\ Goto(r, "done")
    /\ UNCHANGED <<invites, overlap>>

\* The handler is dropped between two calls, or the next call fails.
Drop(r) ==
    /\ InFlight(r)
    /\ Goto(r, "done")
    /\ UNCHANGED <<member, invites, joined, overlap>>

Expire(i) ==
    /\ Live(i)
    /\ invites' = [invites EXCEPT ![i].state = "expired"]
    /\ UNCHANGED <<member, reqs, joined, overlap>>

Next ==
    \/ \E r \in Request :
         \/ Receive(r) \/ Authorize(r) \/ CheckTarget(r) \/ CountOwners(r) \/ WriteRole(r)
         \/ Remove(r) \/ IssueInvite(r) \/ RevokeInvite(r)
         \/ CheckInvite(r) \/ MarkAccepted(r) \/ Join(r) \/ Drop(r)
    \/ \E i \in Invite : Expire(i)

Spec == Init /\ [][Next]_vars

-----------------------------------------------------------------------------
\* Request r is about to insert a membership through invite i, or has done so.
Admitted(i, r) == (reqs[r].pc = "join" /\ reqs[r].invite = i) \/ <<i, r>> \in joined

\* accept_invite: a request that joins holds an invite that it alone accepted.
\* Tokens are single-use, and a revoked or expired invite admits nobody, however
\* accepts, revocations and expiry interleave.
InviteAdmitsOnce ==
    \A i \in Invite, r \in Request :
        Admitted(i, r) => /\ invites[i].state = "accepted"
                          /\ \A q \in Request : Admitted(i, q) => q = r

\* Requests that do not overlap: changing a role never takes the last owner.
DemotionKeepsOwner ==
    [][\A r \in Request : ~overlap /\ WriteRole(r) /\ Owners # {} => Owners' # {}]_vars

\* What a request holds on its way: an invite when it accepts or revokes one, and
\* another owner when it demotes one and no request overlapped.
ReqInv(r) ==
    /\ reqs[r].pc \in {"mark", "join"} => reqs[r].op = "accept"
    /\ reqs[r].pc = "count" => reqs[r].op = "update"
    /\ InFlight(r) /\ reqs[r].op \in {"accept", "revoke"} => reqs[r].invite \in Invite
    /\ ~overlap /\ reqs[r].pc = "write" /\ reqs[r].op = "update" /\ reqs[r].role # "owner" =>
         (member[reqs[r].target] = "owner" => \E u \in Owners : u # reqs[r].target)

\* The inductive invariant behind InviteAdmitsOnce and DemotionKeepsOwner: as long
\* as no requests overlapped, one is in flight at most.
Inv ==
    /\ TypeOK
    /\ InviteAdmitsOnce
    /\ \A r \in Request : ReqInv(r)
    /\ ~overlap => \A q, r \in Request : InFlight(q) /\ InFlight(r) => q = r
=============================================================================
