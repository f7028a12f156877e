------------------------ MODULE OrganizationProofs ------------------------
(***************************************************************************)
(* What an organization has: its members and its plan.  Inv of Memberships *)
(* is inductive for any users, invites and requests, so an invite admits   *)
(* once and a demotion keeps an owner.  BillingInv of Billing is           *)
(* inductive for any organizations and any bounds, so a customer is linked *)
(* for good and events that come in order leave their plan.                *)
(***************************************************************************)
EXTENDS Memberships, Billing, FiniteSetTheorems, SequenceTheorems, TLAPS

\* The initial state satisfies Inv: no invite and no request.
LEMMA InitInv == Init => Inv
  <1> SUFFICES ASSUME Init PROVE Inv
    OBVIOUS
  <1>1. invites \in [Invite -> InviteRow]
    BY FounderAssumption DEF Init, InviteRow, Role
  <1>2. reqs \in [Request -> Req] /\ \A r \in Request : reqs[r].pc = "idle"
    BY FounderAssumption DEF Init, Blank, Call, Req, Pc, Op, Role
  <1>3. TypeOK
    BY <1>1, <1>2, Zenon DEF Init, TypeOK
  <1>4. InviteAdmitsOnce
    BY <1>2 DEF Init, InviteAdmitsOnce, Admitted
  <1> QED BY <1>2, <1>3, <1>4 DEF Inv, ReqInv, InFlight

\* What a step of request r must respect to keep Inv: an accepted invite stays
\* accepted, only a request that accepts an invite is newly admitted by it, and
\* r was the one in flight unless requests overlapped.
LEMMA RequestStep ==
  ASSUME Inv, NEW r \in Request, NEW x \in Req, reqs' = [reqs EXCEPT ![r] = x],
         member' \in [User -> Role \cup {"none"}], invites' \in [Invite -> InviteRow],
         joined' \in SUBSET (Invite \X Request), overlap' \in BOOLEAN, ReqInv(r)',
         ~overlap' => ~overlap /\ (InFlight(r) \/ \A q \in Request : ~InFlight(q)),
         \A i \in Invite : invites[i].state = "accepted" => invites'[i].state = "accepted",
         \A i \in Invite, q \in Request : Admitted(i, q)' =>
            \/ Admitted(i, q)
            \/ q = r /\ invites[i].state # "accepted" /\ invites'[i].state = "accepted"
  PROVE  Inv'
  <1>1. TypeOK'
    BY DEF Inv, TypeOK
  <1>2. \A q \in Request \ {r} : reqs'[q] = reqs[q]
    BY DEF Inv, TypeOK
  <1>3. ~overlap' => \A q \in Request \ {r} : ~InFlight(q) /\ ~InFlight(q)'
    BY <1>2 DEF Inv, InFlight
  <1>4. ASSUME NEW q \in Request PROVE ReqInv(q)'
    <2>1. CASE q = r
      BY <2>1
    <2>2. CASE q # r
      <3>1. ReqInv(q) /\ reqs'[q] = reqs[q]
        BY <1>2, <2>2 DEF Inv
      <3>2. ~overlap' => reqs'[q].pc # "write"
        BY <1>3, <2>2 DEF InFlight
      <3> QED BY <3>1, <3>2 DEF ReqInv, InFlight
    <2> QED BY <2>1, <2>2
  <1>5. ~overlap' => \A p, q \in Request : InFlight(p)' /\ InFlight(q)' => p = q
    BY <1>3
  <1>6. InviteAdmitsOnce'
    BY DEF Inv, InviteAdmitsOnce
  <1> QED BY <1>1, <1>4, <1>5, <1>6 DEF Inv

\* A step of request r that does not admit anybody.
LEMMA QuietStep ==
  ASSUME Inv, NEW r \in Request, NEW x \in Req, reqs' = [reqs EXCEPT ![r] = x], x.pc # "join",
         member' \in [User -> Role \cup {"none"}], invites' \in [Invite -> InviteRow],
         joined' = joined, overlap' \in BOOLEAN, ReqInv(r)',
         ~overlap' => ~overlap /\ (InFlight(r) \/ \A q \in Request : ~InFlight(q)),
         \A i \in Invite : invites[i].state = "accepted" => invites'[i].state = "accepted"
  PROVE  Inv'
  <1>1. reqs'[r] = x /\ \A q \in Request \ {r} : reqs'[q] = reqs[q]
    BY DEF Inv, TypeOK
  <1>2. \A i \in Invite, q \in Request : Admitted(i, q)' => Admitted(i, q)
    BY <1>1 DEF Admitted
  <1>3. joined' \in SUBSET (Invite \X Request)
    BY DEF Inv, TypeOK
  <1> QED BY <1>2, <1>3, RequestStep, Zenon

\* The record of a call, and its fields.
LEMMA CallFields ==
  ASSUME NEW pc \in Pc, NEW op \in Op, NEW a \in User, NEW t \in User, NEW o \in Role,
         NEW i \in Invite \cup {"none"}
  PROVE  /\ Call(pc, op, a, t, o, i) \in Req
         /\ Call(pc, op, a, t, o, i).pc = pc /\ Call(pc, op, a, t, o, i).op = op
         /\ Call(pc, op, a, t, o, i).invite = i
  BY DEF Call, Req

\* Goto moves the request named and leaves its inputs, until it is done.
LEMMA GotoMoves ==
  ASSUME Inv, NEW r \in Request, NEW pc \in Pc, Goto(r, pc)
  PROVE  \E x \in Req : /\ reqs' = [reqs EXCEPT ![r] = x] /\ reqs'[r] = x /\ x.pc = pc
                        /\ pc # "done" => /\ x.op = reqs[r].op /\ x.actor = reqs[r].actor
                                          /\ x.target = reqs[r].target /\ x.role = reqs[r].role
                                          /\ x.invite = reqs[r].invite
  <1> DEFINE x == IF pc = "done" THEN Done ELSE [reqs[r] EXCEPT !.pc = pc]
  <1>1. reqs \in [Request -> Req] /\ reqs[r] \in Req
    BY Zenon DEF Inv, TypeOK
  <1>2. Done \in Req /\ Done.pc = "done"
    BY CallFields, FounderAssumption DEF Done, Pc, Op, Role
  <1>3. [reqs[r] EXCEPT !.pc = pc] \in Req
    BY <1>1 DEF Req
  <1>4. x \in Req /\ x.pc = pc
    BY <1>1, <1>2, <1>3 DEF Req
  <1>5. reqs' = [reqs EXCEPT ![r] = x]
    BY DEF Goto
  <1>6. pc # "done" => /\ x.op = reqs[r].op /\ x.actor = reqs[r].actor
                       /\ x.target = reqs[r].target /\ x.role = reqs[r].role
                       /\ x.invite = reqs[r].invite
    BY <1>1 DEF Req
  <1>7. reqs'[r] = x
    BY <1>1, <1>5
  <1> QED BY <1>4, <1>5, <1>6, <1>7, Zenon

\* A request that ends leaves nothing to respect.
LEMMA EndStep ==
  ASSUME Inv, NEW r \in Request, InFlight(r), Goto(r, "done"),
         member' \in [User -> Role \cup {"none"}], invites' \in [Invite -> InviteRow],
         joined' = joined, overlap' = overlap,
         \A i \in Invite : invites[i].state = "accepted" => invites'[i].state = "accepted"
  PROVE  Inv'
  <1>1. PICK x \in Req : reqs' = [reqs EXCEPT ![r] = x] /\ reqs'[r] = x /\ x.pc = "done"
    BY GotoMoves DEF Pc
  <1>2. ReqInv(r)' /\ x.pc # "join"
    BY <1>1 DEF ReqInv, InFlight
  <1>3. overlap' \in BOOLEAN
    BY DEF Inv, TypeOK
  <1> QED BY <1>1, <1>2, <1>3, QuietStep, Zenon

\* Receive: the request has its inputs, and overlaps what is in flight.
LEMMA ReceiveKeeps == ASSUME Inv, NEW r \in Request, Receive(r) PROVE Inv'
  <1> DEFINE Arrived == \E x \in Req :
               /\ reqs' = [reqs EXCEPT ![r] = x] /\ x.pc \in {"authorize", "check"}
               /\ x.op \in {"accept", "revoke"} => x.invite \in Invite
  <1>1. Arrived
    <2>1. ASSUME NEW a \in User, NEW t \in User, NEW o \in Role, NEW op \in {"update", "invite", "remove"},
                 Open(r, Call("authorize", op, a, t, o, "none"))
          PROVE  Arrived
      <3> DEFINE x == Call("authorize", op, a, t, o, "none")
      <3>1. x \in Req /\ x.pc = "authorize" /\ x.op = op
        BY CallFields DEF Pc, Op
      <3>2. reqs' = [reqs EXCEPT ![r] = x]
        BY <2>1 DEF Open
      <3> HIDE DEF x
      <3> QED BY <3>1, <3>2, Zenon
    <2>2. ASSUME NEW a \in User, NEW i \in Invite, NEW pc \in {"authorize", "check"},
                 NEW op \in {"revoke", "accept"}, Open(r, Call(pc, op, a, Founder, "member", i))
          PROVE  Arrived
      <3> DEFINE x == Call(pc, op, a, Founder, "member", i)
      <3> pc \in Pc /\ op \in Op /\ "member" \in Role
        BY DEF Pc, Op, Role
      <3>1. x \in Req /\ x.pc = pc /\ x.op = op /\ x.invite = i
        BY CallFields, FounderAssumption
      <3>2. reqs' = [reqs EXCEPT ![r] = x]
        BY <2>2 DEF Open
      <3> HIDE DEF x
      <3> QED BY <3>1, <3>2, Zenon
    <2>3. "member" \in Role
      BY DEF Role
    <2> HIDE DEF Arrived
    <2> QED BY <2>1, <2>2, <2>3 DEF Receive
  <1>2. PICK x \in Req : /\ reqs' = [reqs EXCEPT ![r] = x] /\ x.pc \in {"authorize", "check"}
                         /\ x.op \in {"accept", "revoke"} => x.invite \in Invite
    BY <1>1, Zenon
  <1>3. reqs'[r] = x
    BY <1>2 DEF Inv, TypeOK
  <1>4. ReqInv(r)' /\ x.pc # "join"
    BY <1>2, <1>3 DEF ReqInv, InFlight
  <1>5. /\ member' = member /\ invites' = invites /\ joined' = joined
        /\ overlap' = (overlap \/ \E s \in Request : InFlight(s))
    BY DEF Receive
  <1>6. overlap' \in BOOLEAN /\ (~overlap' => ~overlap /\ \A q \in Request : ~InFlight(q))
    BY <1>5, Zenon DEF Inv, TypeOK
  <1>7. member' \in [User -> Role \cup {"none"}] /\ invites' \in [Invite -> InviteRow]
    BY <1>5 DEF Inv, TypeOK
  <1> QED BY <1>2, <1>4, <1>5, <1>6, <1>7, QuietStep, Zenon

\* The steps that only move the request: what they checked is what they hold.
LEMMA MoveKeeps ==
  ASSUME Inv, NEW r \in Request,
         Authorize(r) \/ CheckTarget(r) \/ CountOwners(r) \/ CheckInvite(r) \/ Drop(r)
  PROVE  Inv'
  <1>1. InFlight(r) /\ member' = member /\ invites' = invites /\ joined' = joined /\ overlap' = overlap
    BY DEF Authorize, CheckTarget, CountOwners, CheckInvite, Drop, InFlight
  <1>2. /\ member' \in [User -> Role \cup {"none"}] /\ invites' \in [Invite -> InviteRow]
        /\ overlap' \in BOOLEAN /\ reqs[r] \in Req /\ ReqInv(r)
    BY <1>1 DEF Inv, TypeOK
  <1>3. CASE Goto(r, "done")
    BY <1>1, <1>2, <1>3, EndStep, Zenon
  <1> DEFINE Moved(pc) == \E x \in Req :
                            /\ reqs' = [reqs EXCEPT ![r] = x] /\ reqs'[r] = x /\ x.pc = pc
                            /\ x.op = reqs[r].op /\ x.target = reqs[r].target
                            /\ x.role = reqs[r].role /\ x.invite = reqs[r].invite
  <1>4. ASSUME NEW pc \in Pc \ {"done"}, Goto(r, pc) PROVE Moved(pc)
    BY <1>4, GotoMoves
  <1>5. ASSUME NEW pc \in {"check", "count", "write", "mark"}, Moved(pc),
               pc = "count" => reqs[r].op = "update", pc = "mark" => reqs[r].op = "accept",
               pc = "write" /\ reqs[r].op = "update" /\ reqs[r].role # "owner" =>
                 (member[reqs[r].target] = "owner" => \E u \in Owners : u # reqs[r].target)
        PROVE  Inv'
    <2>1. PICK x \in Req : /\ reqs' = [reqs EXCEPT ![r] = x] /\ reqs'[r] = x /\ x.pc = pc
                           /\ x.op = reqs[r].op /\ x.target = reqs[r].target
                           /\ x.role = reqs[r].role /\ x.invite = reqs[r].invite
      BY <1>5, Zenon
    <2>2. Owners' = Owners
      BY <1>1, Zenon DEF Owners
    <2>3. x.pc # "join" /\ (x.pc = "mark" => x.op = "accept") /\ (x.pc = "count" => x.op = "update")
      BY <1>5, <2>1
    <2>4. x.op \in {"accept", "revoke"} => x.invite \in Invite
      BY <1>1, <1>2, <2>1 DEF ReqInv
    <2>5. x.pc = "write" /\ x.op = "update" /\ x.role # "owner" =>
            (member[x.target] = "owner" => \E u \in Owners : u # x.target)
      BY <1>5, <2>1, Zenon
    <2>6. ReqInv(r)'
      BY <1>1, <2>1, <2>2, <2>3, <2>4, <2>5, Zenon DEF ReqInv
    <2> QED BY <1>1, <1>2, <2>1, <2>3, <2>6, QuietStep, Zenon
  <1> HIDE DEF Moved
  <1>6. CASE Authorize(r)
    <2>1. \/ Goto(r, "done")
          \/ Goto(r, "check") /\ reqs[r].op = "update"
          \/ Goto(r, "write") /\ ~(reqs[r].op = "update" /\ reqs[r].role # "owner")
      BY <1>6 DEF Authorize
    <2> QED BY <2>1, <1>3, <1>4, <1>5 DEF Pc
  <1>7. CASE CheckTarget(r)
    <2>1. \/ Goto(r, "count") /\ reqs[r].op = "update"
          \/ Goto(r, "write") /\ member[reqs[r].target] # "owner"
      BY <1>7 DEF CheckTarget
    <2> QED BY <2>1, <1>4, <1>5 DEF Pc
  <1>8. CASE CountOwners(r)
    <2>1. Goto(r, "done") \/ (Goto(r, "write") /\ ~(Cardinality(Owners) <= 1))
      BY <1>8 DEF CountOwners
    <2>2. ASSUME ~(Cardinality(Owners) <= 1), member[reqs[r].target] = "owner"
          PROVE  \E u \in Owners : u # reqs[r].target
      <3>1. reqs[r].target \in Owners
        BY <1>2, <2>2 DEF Req, Owners
      <3>2. Cardinality({reqs[r].target}) = 1
        BY FS_Singleton, Zenon
      <3>3. Owners # {reqs[r].target}
        BY <2>2, <3>2
      <3> QED BY <3>1, <3>3
    <2> QED BY <2>1, <2>2, <1>3, <1>4, <1>5 DEF Pc
  <1>9. CASE CheckInvite(r)
    <2>1. Goto(r, "done") \/ (Goto(r, "mark") /\ reqs[r].op = "accept")
      BY <1>9 DEF CheckInvite
    <2> QED BY <2>1, <1>3, <1>4, <1>5, Zenon DEF Pc
  <1>10. CASE Drop(r)
    BY <1>3, <1>10 DEF Drop
  <1> QED BY <1>6, <1>7, <1>8, <1>9, <1>10, Zenon

\* The writes that end a request: none of them takes an invite out of accepted.
LEMMA WriteKeeps ==
  ASSUME Inv, NEW r \in Request,
         WriteRole(r) \/ Remove(r) \/ IssueInvite(r) \/ RevokeInvite(r)
  PROVE  Inv'
  <1>1. InFlight(r) /\ Goto(r, "done") /\ joined' = joined /\ overlap' = overlap
    BY DEF WriteRole, Remove, IssueInvite, RevokeInvite, InFlight
  <1>2. /\ member \in [User -> Role \cup {"none"}] /\ invites \in [Invite -> InviteRow]
        /\ reqs[r].target \in User /\ reqs[r].role \in Role /\ ReqInv(r)
    BY DEF Inv, TypeOK, Req
  <1>3. member' \in [User -> Role \cup {"none"}]
    BY <1>2 DEF WriteRole, Remove, IssueInvite, RevokeInvite
  <1>4. CASE WriteRole(r) \/ Remove(r)
    <2>1. invites' = invites
      BY <1>4 DEF WriteRole, Remove
    <2> QED BY <1>1, <1>2, <1>3, <2>1, EndStep, Zenon
  <1>5. CASE IssueInvite(r)
    <2>1. CASE invites' = invites
      BY <1>1, <1>2, <1>3, <2>1, EndStep, Zenon
    <2>2. CASE \E i \in Invite :
                 /\ invites[i].state = "unused"
                 /\ invites' = [invites EXCEPT ![i] =
                      [state |-> "pending", email |-> reqs[r].target, role |-> reqs[r].role]]
      <3>1. PICK i \in Invite :
                 /\ invites[i].state = "unused"
                 /\ invites' = [invites EXCEPT ![i] =
                      [state |-> "pending", email |-> reqs[r].target, role |-> reqs[r].role]]
        BY <2>2, Zenon
      <3> DEFINE row == [state |-> "pending", email |-> reqs[r].target, role |-> reqs[r].role]
      <3>2. row \in InviteRow
        BY <1>2 DEF InviteRow
      <3>3. invites' = [invites EXCEPT ![i] = row]
        BY <3>1
      <3> HIDE DEF row
      <3>4. invites' \in [Invite -> InviteRow]
        BY <1>2, <3>2, <3>3
      <3>5. \A j \in Invite : invites[j].state = "accepted" => invites'[j].state = "accepted"
        BY <1>2, <3>1, <3>3
      <3> QED BY <1>1, <1>3, <3>4, <3>5, EndStep
    <2> QED BY <1>5, <2>1, <2>2, Zenon DEF IssueInvite
  <1>6. CASE RevokeInvite(r)
    <2> DEFINE i == reqs[r].invite
               s == IF invites[i].state \in {"pending", "expired"} THEN "revoked" ELSE invites[i].state
               row == [invites[i] EXCEPT !.state = s]
    <2>1. i \in Invite
      BY <1>1, <1>2, <1>6 DEF RevokeInvite, ReqInv
    <2>2. invites[i] \in InviteRow
      BY <1>2, <2>1
    <2>3. row \in InviteRow /\ row.state = s
      BY <2>2 DEF InviteRow
    <2>4. invites' = [invites EXCEPT ![i] = row]
      BY <1>6 DEF RevokeInvite
    <2>5. invites[i].state = "accepted" => s = "accepted"
      OBVIOUS
    <2> HIDE DEF row, s, i
    <2>6. invites' \in [Invite -> InviteRow]
      BY <1>2, <2>3, <2>4, Zenon
    <2>7. \A j \in Invite : invites[j].state = "accepted" => invites'[j].state = "accepted"
      BY <1>2, <2>1, <2>3, <2>4, <2>5
    <2> QED BY <1>1, <1>3, <2>6, <2>7, EndStep, Zenon
  <1> QED BY <1>4, <1>5, <1>6

\* MarkAccepted: the UPDATE accepts a pending invite, which had admitted nobody.
LEMMA MarkKeeps == ASSUME Inv, NEW r \in Request, MarkAccepted(r) PROVE Inv'
  <1> DEFINE i == reqs[r].invite
  <1>1. InFlight(r) /\ reqs[r].op = "accept" /\ i \in Invite /\ reqs[r].pc = "mark"
    BY DEF MarkAccepted, Inv, ReqInv, InFlight
  <1>2. /\ member' = member /\ joined' = joined /\ overlap' = overlap
        /\ Goto(r, IF Live(i) THEN "join" ELSE "done")
    BY DEF MarkAccepted
  <1>3. /\ member' \in [User -> Role \cup {"none"}] /\ joined' \in SUBSET (Invite \X Request)
        /\ overlap' \in BOOLEAN /\ invites \in [Invite -> InviteRow] /\ reqs \in [Request -> Req]
    BY <1>2 DEF Inv, TypeOK
  <1>4. CASE ~Live(i)
    <2>1. invites' = invites /\ Goto(r, "done")
      BY <1>2, <1>4 DEF MarkAccepted
    <2> QED BY <1>1, <1>2, <1>3, <2>1, EndStep
  <1>5. CASE Live(i)
    <2> DEFINE row == [invites[i] EXCEPT !.state = "accepted"]
    <2>1. row \in InviteRow /\ row.state = "accepted"
      BY <1>1, <1>3 DEF InviteRow
    <2>2. invites' = [invites EXCEPT ![i] = row]
      BY <1>5 DEF MarkAccepted
    <2>3. invites[i].state # "accepted"
      BY <1>5 DEF Live
    <2>4. PICK x \in Req : /\ reqs' = [reqs EXCEPT ![r] = x] /\ reqs'[r] = x /\ x.pc = "join"
                           /\ x.op = reqs[r].op /\ x.invite = i
      BY <1>2, <1>5, GotoMoves DEF Pc
    <2> HIDE DEF row, i
    <2>5. /\ invites' \in [Invite -> InviteRow] /\ invites'[i].state = "accepted"
          /\ \A j \in Invite : invites[j].state = "accepted" => invites'[j].state = "accepted"
      BY <1>1, <1>3, <2>1, <2>2, Zenon
    <2>6. ReqInv(r)'
      BY <1>1, <2>4 DEF ReqInv, InFlight
    <2>7. \A q \in Request \ {r} : reqs'[q] = reqs[q]
      BY <1>3, <2>4
    <2>8. \A j \in Invite, q \in Request : Admitted(j, q)' =>
            \/ Admitted(j, q)
            \/ q = r /\ invites[j].state # "accepted" /\ invites'[j].state = "accepted"
      BY <1>2, <2>3, <2>4, <2>5, <2>7 DEF Admitted
    <2> QED BY <1>1, <1>2, <1>3, <2>4, <2>5, <2>6, <2>8, RequestStep, Zenon
  <1> QED BY <1>4, <1>5

\* Join: the request was admitted already.
LEMMA JoinKeeps == ASSUME Inv, NEW r \in Request, Join(r) PROVE Inv'
  <1> DEFINE i == reqs[r].invite
  <1>1. InFlight(r) /\ i \in Invite /\ reqs[r].pc = "join"
    BY DEF Join, Inv, ReqInv, InFlight
  <1>2. /\ invites' = invites /\ overlap' = overlap /\ joined' = joined \cup {<<i, r>>}
        /\ Goto(r, "done") /\ member' = [member EXCEPT ![reqs[r].actor] = invites[i].role]
    BY DEF Join
  <1>3. /\ member \in [User -> Role \cup {"none"}] /\ joined \in SUBSET (Invite \X Request)
        /\ overlap' \in BOOLEAN /\ invites \in [Invite -> InviteRow] /\ reqs \in [Request -> Req]
    BY <1>2 DEF Inv, TypeOK
  <1>4. PICK x \in Req : reqs' = [reqs EXCEPT ![r] = x] /\ reqs'[r] = x /\ x.pc = "done"
    BY <1>2, GotoMoves DEF Pc
  <1>5. Admitted(i, r)
    BY <1>1 DEF Admitted
  <1>6. invites[i].role \in Role
    BY <1>1, <1>3 DEF InviteRow
  <1> HIDE DEF i
  <1>7. member' \in [User -> Role \cup {"none"}] /\ joined' \in SUBSET (Invite \X Request)
    <2>1. member' \in [User -> Role \cup {"none"}]
      BY <1>2, <1>3, <1>6, Zenon
    <2>2. <<i, r>> \in Invite \X Request
      BY <1>1
    <2>3. joined' \in SUBSET (Invite \X Request)
      BY <1>2, <1>3, <2>2
    <2> QED BY <2>1, <2>3
  <1>8. ReqInv(r)'
    BY <1>4 DEF ReqInv, InFlight
  <1>9. \A q \in Request \ {r} : reqs'[q] = reqs[q]
    BY <1>3, <1>4
  <1>10. \A j \in Invite, q \in Request : Admitted(j, q)' => Admitted(j, q)
    <2> SUFFICES ASSUME NEW j \in Invite, NEW q \in Request, Admitted(j, q)' PROVE Admitted(j, q)
      OBVIOUS
    <2>1. CASE <<j, q>> = <<i, r>>
      BY <2>1, <1>5
    <2>2. CASE <<j, q>> # <<i, r>>
      BY <1>2, <1>4, <1>9, <2>2, Zenon DEF Admitted
    <2> QED BY <2>1, <2>2
  <1> QED BY <1>1, <1>2, <1>3, <1>4, <1>7, <1>8, <1>10, RequestStep, Zenon

\* Expire: only a pending invite expires.
LEMMA ExpireKeeps == ASSUME Inv, NEW i \in Invite, Expire(i) PROVE Inv'
  <1> DEFINE row == [invites[i] EXCEPT !.state = "expired"]
  <1>1. /\ invites[i].state = "pending" /\ invites' = [invites EXCEPT ![i] = row]
        /\ member' = member /\ reqs' = reqs /\ joined' = joined /\ overlap' = overlap
    BY DEF Expire, Live
  <1>2. invites \in [Invite -> InviteRow] /\ row \in InviteRow
    BY DEF Inv, TypeOK, InviteRow
  <1> HIDE DEF row
  <1>3. /\ invites' \in [Invite -> InviteRow]
        /\ \A j \in Invite : invites[j].state = "accepted" => invites'[j].state = "accepted"
    BY <1>1, <1>2
  <1>4. TypeOK'
    BY <1>1, <1>3 DEF Inv, TypeOK
  <1>5. InviteAdmitsOnce'
    BY <1>1, <1>3, Zenon DEF Inv, InviteAdmitsOnce, Admitted
  <1>6. \A r \in Request : ReqInv(r)'
    BY <1>1 DEF Inv, ReqInv, InFlight, Owners
  <1> QED BY <1>1, <1>4, <1>5, <1>6 DEF Inv, InFlight

\* Every step keeps Inv.
LEMMA NextInv == Inv /\ [Next]_vars => Inv'
  <1> SUFFICES ASSUME Inv, [Next]_vars PROVE Inv'
    BY Zenon
  <1>1. CASE UNCHANGED vars
    BY <1>1 DEF vars, Inv, TypeOK, InviteAdmitsOnce, Admitted, ReqInv, InFlight, Owners
  <1>2. ASSUME NEW r \in Request,
               \/ Receive(r) \/ Authorize(r) \/ CheckTarget(r) \/ CountOwners(r) \/ WriteRole(r)
               \/ Remove(r) \/ IssueInvite(r) \/ RevokeInvite(r)
               \/ CheckInvite(r) \/ MarkAccepted(r) \/ Join(r) \/ Drop(r)
        PROVE  Inv'
    BY <1>2, ReceiveKeeps, MoveKeeps, WriteKeeps, MarkKeeps, JoinKeeps
  <1> QED BY <1>1, <1>2, ExpireKeeps DEF Next

\* The inductive invariant holds in every reachable state.
THEOREM InvHolds == Spec => []Inv
  BY InitInv, NextInv, PTL DEF Spec

\* accept_invite: an invite admits one request at most, once it is accepted, for
\* any number of requests, users and invites.
THEOREM InvitesAdmitOnce == Spec => []InviteAdmitsOnce
  <1>1. Inv => InviteAdmitsOnce
    BY DEF Inv
  <1> QED BY <1>1, InvHolds, PTL

\* update_role: without overlapping requests, a change of role leaves an owner
\* when there was one.
THEOREM DemotionsKeepOwner == Spec => DemotionKeepsOwner
  <1> DEFINE A == \A r \in Request : ~overlap /\ WriteRole(r) /\ Owners # {} => Owners' # {}
  <1>1. Inv => A
    <2> SUFFICES ASSUME Inv, NEW r \in Request, ~overlap, WriteRole(r), Owners # {}
                 PROVE  Owners' # {}
      OBVIOUS
    <2> DEFINE t == reqs[r].target
    <2>1. t \in User /\ member \in [User -> Role \cup {"none"}] /\ ReqInv(r)
      BY DEF Inv, TypeOK, Req
    <2>2. /\ reqs[r].pc = "write" /\ reqs[r].op = "update"
          /\ member' = [member EXCEPT ![t] = IF member[t] = "none" THEN member[t] ELSE reqs[r].role]
      BY DEF WriteRole
    <2>3. PICK u \in User : member[u] = "owner" /\ (u = t /\ reqs[r].role # "owner" => FALSE)
      BY <2>1, <2>2 DEF ReqInv, Owners
    <2> HIDE DEF t
    <2>4. member'[u] = "owner"
      BY <2>1, <2>2, <2>3
    <2> QED BY <2>4 DEF Owners
  <1>2. [][A]_vars => DemotionKeepsOwner
    BY DEF DemotionKeepsOwner
  <1> HIDE DEF A
  <1> QED BY <1>1, <1>2, InvHolds, PTL

-----------------------------------------------------------------------------
(* Billing *)

\* The records a checkout and a delivery start and end with.
LEMMA BillRows ==
  /\ Unstarted \in CheckoutRow /\ Unstarted.pc = "idle"
         /\ Over \in CheckoutRow /\ Over.pc = "over"
         /\ Free \in DeliveryRow /\ Free.pc = "idle"
         /\ NoCustomer \notin Checkout
  <1>1. "free" \in Plan
    BY DEF Plan
  <1>2. Unstarted \in CheckoutRow /\ Unstarted.pc = "idle"
    BY <1>1 DEF Unstarted, CheckoutRow
  <1>3. Over \in CheckoutRow /\ Over.pc = "over"
    BY <1>2 DEF Over, CheckoutRow
  <1>4. Free \in DeliveryRow /\ Free.pc = "idle"
    BY DEF Free, DeliveryRow
  <1>5. NoCustomer \notin Checkout
    BY BoundsAssumption DEF NoCustomer, Checkout
  <1> QED BY <1>2, <1>3, <1>4, <1>5

\* Billing starts in its invariant: nobody has a customer, nothing was delivered.
LEMMA InitBill ==
  BillingInit => BillingInv
  <1> SUFFICES ASSUME BillingInit PROVE BillingInv
    OBVIOUS
  <1>1. BillingTypeOK
    <2>1. "free" \in Plan /\ <<>> \in Seq(StripeEvent)
      BY DEF Plan
    <2> QED BY <2>1, BillRows DEF BillingInit, BillingTypeOK
  <1>2. \A k \in Checkout : checkouts[k].pc = "idle"
    BY BillRows DEF BillingInit
  <1>3. \A d \in Delivery : deliveries[d].pc = "idle"
    BY BillRows DEF BillingInit
  <1>4. Links
    BY <1>2 DEF BillingInit, Links, CheckoutInv, CustomerInv
  <1>5. Plans
    BY <1>3 DEF BillingInit, Plans, DeliveryInv, PlanInv
  <1> QED BY <1>1, <1>4, <1>5 DEF BillingInv

\* The types of what the rows and the events hold.
LEMMA BillTypes ==
  ASSUME BillingInv
  PROVE  /\ \A o \in Organization : customer[o] # NoCustomer => customer[o] \in Checkout
         /\ Len(events) \in Nat /\ DOMAIN events = 1..Len(events)
         /\ \A e \in DOMAIN events :
              /\ events[e] \in StripeEvent /\ events[e].plan \in Plan
              /\ events[e].customer \in Checkout /\ events[e].org \in Organization
  <1>1. \A o \in Organization : customer[o] # NoCustomer => customer[o] \in Checkout
    BY DEF BillingInv, BillingTypeOK
  <1>2. Len(events) \in Nat /\ DOMAIN events = 1..Len(events)
    BY LenProperties DEF BillingInv, BillingTypeOK
  <1>3. \A e \in DOMAIN events : events[e] \in StripeEvent
    BY <1>2, ElementOfSeq DEF BillingInv, BillingTypeOK
  <1>4. \A e \in DOMAIN events : /\ events[e].plan \in Plan
                                 /\ events[e].customer \in Checkout /\ events[e].org \in Organization
    BY <1>3 DEF StripeEvent
  <1> QED BY <1>1, <1>2, <1>3, <1>4

\* A step of a checkout that neither links nor emits: one that was introduced
\* stays so, and one under way knows the customer of its organization.
LEMMA CheckoutStep ==
  ASSUME BillingInv, NEW k \in Checkout, NEW x \in CheckoutRow,
         checkouts' = [checkouts EXCEPT ![k] = x], UNCHANGED <<customer, events>>,
         x.pc \in {"create", "link", "open", "paid"} =>
           x.org \in Organization /\ (x.known # NoCustomer => customer[x.org] = x.known),
         x.pc = "link" => x.customer = IF x.known # NoCustomer THEN x.known ELSE k,
         checkouts[k].pc \in {"open", "paid"} => x.pc \in {"open", "paid"} /\ x.org = checkouts[k].org
  PROVE  Links' /\ checkouts' \in [Checkout -> CheckoutRow]
  <1>1. /\ checkouts' \in [Checkout -> CheckoutRow] /\ checkouts'[k] = x
        /\ \A j \in Checkout \ {k} : checkouts'[j] = checkouts[j]
    BY DEF BillingInv, BillingTypeOK
  <1>2. \A n \in Checkout, o \in Organization : Introduced(n, o) => Introduced(n, o)'
    BY <1>1 DEF Introduced
  <1>3. \A j \in Checkout : CheckoutInv(j)'
    BY <1>1, Zenon DEF BillingInv, Links, CheckoutInv, Payer
  <1>4. CustomerInv'
    BY <1>2, BillTypes, Zenon DEF CustomerInv, BillingInv, Links
  <1> QED BY <1>1, <1>3, <1>4 DEF Links

\* A step that touches neither the plans nor Stripe's events nor the webhook.
LEMMA PlansKept ==
  ASSUME Plans, UNCHANGED <<plan, events, acked, ignored, deliveries, orderly>>
  PROVE  Plans'
  BY SMTT(30) DEF Plans, DeliveryInv, IsNext, PlanInv, EventsOf

\* The same for the links.
LEMMA LinksKept ==
  ASSUME Links, UNCHANGED <<customer, checkouts, events>>
  PROVE  Links'
  BY Zenon DEF Links, CheckoutInv, Payer, CustomerInv, Introduced

\* set_stripe_customer links the customer of the checkout: an organization that
\* had one keeps it.
LEMMA LinkStep ==
  ASSUME BillingInv, NEW k \in Checkout, SetStripeCustomer(k),
         customer[checkouts[k].org] \in {NoCustomer, checkouts[k].customer}
  PROVE  /\ Links' /\ checkouts' \in [Checkout -> CheckoutRow]
         /\ customer' \in [Organization -> {NoCustomer} \cup Checkout]
         /\ \A o \in Organization : customer[o] # NoCustomer => customer'[o] = customer[o]
  <1> PICK n, g : n = Payer(k) /\ g = checkouts[k].org
    OBVIOUS
  <1> DEFINE c == checkouts[k]
             x == [c EXCEPT !.pc = "open", !.customer = NoCustomer]
  <1>1. c \in CheckoutRow /\ c.pc = "link" /\ g \in Organization /\ c.customer = n
    BY DEF BillingInv, BillingTypeOK, Links, CheckoutInv, SetStripeCustomer
  <1>2. /\ x \in CheckoutRow /\ x.pc = "open" /\ x.org = g /\ x.known = c.known
    BY <1>1, Zenon DEF CheckoutRow
  <1>3. checkouts' = [checkouts EXCEPT ![k] = x] /\ customer' = [customer EXCEPT ![g] = n]
        /\ events' = events
    BY <1>1, Zenon DEF SetStripeCustomer, stripe
  <1>4. n \in Checkout /\ (c.known # NoCustomer => n = c.known /\ n = customer[c.org])
        /\ (c.known = NoCustomer => n = k)
    BY <1>1, BillTypes DEF Payer, BillingInv, Links, CheckoutInv, CheckoutRow
  <1> HIDE DEF x
  <1>5. /\ checkouts' \in [Checkout -> CheckoutRow] /\ checkouts'[k] = x
        /\ \A j \in Checkout \ {k} : checkouts'[j] = checkouts[j]
    BY <1>2, <1>3 DEF BillingInv, BillingTypeOK
  <1>6. /\ customer' \in [Organization -> {NoCustomer} \cup Checkout] /\ customer'[g] = n
        /\ \A o \in Organization \ {g} : customer'[o] = customer[o]
    BY <1>1, <1>3, <1>4, Zenon DEF BillingInv, BillingTypeOK
  <1>7. \A o \in Organization : customer[o] # NoCustomer => customer'[o] = customer[o]
    BY <1>1, <1>6
  <1>8. \A j \in Checkout, o \in Organization : Introduced(j, o) => Introduced(j, o)'
    BY <1>1, <1>5, Zenon DEF Introduced
  <1>9. ASSUME NEW j \in Checkout PROVE CheckoutInv(j)'
    <2>1. CheckoutInv(j)
      BY DEF BillingInv, Links
    <2>2. CASE j = k
      BY <1>1, <1>2, <1>4, <1>5, <1>6, <2>2, Zenon DEF CheckoutInv
    <2>3. CASE j # k
      BY <1>5, <1>7, <2>1, <2>3, Zenon DEF CheckoutInv, Payer
    <2> QED BY <2>2, <2>3, Zenon
  <1>10. Introduced(n, g)'
    <2>1. CASE c.known # NoCustomer
      <3>1. Introduced(n, g)
        BY <1>1, <1>4, <2>1, BillRows, Zenon DEF BillingInv, Links, CustomerInv
      <3> QED BY <1>1, <1>4, <1>8, <3>1, Zenon
    <2>2. CASE c.known = NoCustomer
      BY <1>2, <1>4, <1>5, <2>2, Zenon DEF Introduced
    <2> QED BY <2>1, <2>2, Zenon
  <1>11. CustomerInv'
    <2>1. ASSUME NEW o \in Organization, NEW j, j = customer'[o], j # NoCustomer
          PROVE  Introduced(j, o)'
      <3>1. CASE o = g
        BY <1>6, <1>10, <2>1, <3>1, Zenon
      <3>2. CASE o # g
        <4>1. j = customer[o] /\ j \in Checkout /\ Introduced(j, o)
          BY <1>6, <2>1, <3>2, BillTypes, Zenon DEF BillingInv, Links, CustomerInv
        <4> QED BY <1>8, <4>1, Zenon
      <3> QED BY <3>1, <3>2, Zenon
    <2>2. ASSUME NEW e \in DOMAIN events, NEW v, v = events[e]
          PROVE  Introduced(v.customer, v.org)'
      BY <1>8, <2>2, BillTypes, Zenon DEF BillingInv, Links, CustomerInv
    <2> QED BY <1>3, <2>1, <2>2, Zenon DEF CustomerInv, Introduced
  <1> QED BY <1>5, <1>6, <1>7, <1>9, <1>11, Zenon DEF Links

\* What a step of POST /v1/billing/checkout does to the customers.
LEMMA CheckoutLinks ==
  ASSUME BillingInv, NEW k \in Checkout,
         \/ StartCheckout(k) \/ CreateSession(k) \/ SetStripeCustomer(k) \/ DropCheckout(k)
  PROVE  /\ Links' /\ checkouts' \in [Checkout -> CheckoutRow]
         /\ customer' \in [Organization -> {NoCustomer} \cup Checkout]
         /\ \A o \in Organization : customer[o] # NoCustomer => customer'[o] = customer[o]
         /\ UNCHANGED <<plan, events, acked, ignored, deliveries, orderly>>
  <1> DEFINE c == checkouts[k]
  <1>1. /\ c \in CheckoutRow /\ customer \in [Organization -> {NoCustomer} \cup Checkout]
        /\ CheckoutInv(k)
    BY DEF BillingInv, BillingTypeOK, Links
  <1>2. UNCHANGED <<plan, events, acked, ignored, deliveries, orderly>>
    BY Zenon DEF StartCheckout, CreateSession, SetStripeCustomer, DropCheckout, stripe
  <1>3. CASE StartCheckout(k)
    <2>1. PICK o \in Organization, p \in Plan :
            checkouts' = [checkouts EXCEPT ![k] =
              [pc |-> "create", org |-> o, plan |-> p, known |-> customer[o], customer |-> NoCustomer]]
      BY <1>3, Zenon DEF StartCheckout
    <2>2. c.pc = "idle" /\ customer' = customer
      BY <1>3, BillRows, Zenon DEF StartCheckout
    <2> DEFINE x == [pc |-> "create", org |-> o, plan |-> p, known |-> customer[o], customer |-> NoCustomer]
    <2>3. x \in CheckoutRow /\ x.pc = "create" /\ x.org = o /\ x.known = customer[o]
      BY <1>1, Zenon DEF CheckoutRow
    <2> HIDE DEF x
    <2>4. checkouts' = [checkouts EXCEPT ![k] = x]
      BY <2>1 DEF x
    <2> QED BY <1>1, <1>2, <2>2, <2>3, <2>4, CheckoutStep, Zenon
  <1>4. CASE CreateSession(k)
    <2>1. PICK n \in (IF c.known # NoCustomer THEN {c.known} ELSE {NoCustomer, k}) :
            checkouts' = [checkouts EXCEPT ![k] =
              [c EXCEPT !.customer = n, !.pc = IF n = NoCustomer THEN "open" ELSE "link"]]
      BY <1>4, Zenon DEF CreateSession
    <2> DEFINE x == [c EXCEPT !.customer = n, !.pc = IF n = NoCustomer THEN "open" ELSE "link"]
    <2>2. c.pc = "create" /\ customer' = customer
      BY <1>4, Zenon DEF CreateSession
    <2>3. n \in {NoCustomer} \cup Checkout
      BY <1>1, <2>1 DEF CheckoutRow
    <2>4. /\ x \in CheckoutRow /\ x.org = c.org /\ x.known = c.known /\ x.customer = n
          /\ x.pc = IF n = NoCustomer THEN "open" ELSE "link"
      BY <1>1, <2>3, Zenon DEF CheckoutRow
    <2> HIDE DEF x
    <2>5. checkouts' = [checkouts EXCEPT ![k] = x]
      BY <2>1, Zenon DEF x
    <2>6. x.org \in Organization /\ (x.known # NoCustomer => customer[x.org] = x.known)
      BY <1>1, <2>2, <2>4, Zenon DEF CheckoutInv
    <2>7. x.pc = "link" => x.customer = IF x.known # NoCustomer THEN x.known ELSE k
      BY <2>1, <2>4
    <2> QED BY <1>1, <1>2, <2>2, <2>4, <2>5, <2>6, <2>7, CheckoutStep, Zenon
  <1>5. ASSUME checkouts' = [checkouts EXCEPT ![k] = Over], customer' = customer,
               c.pc \in {"create", "link"}
        PROVE  Links' /\ checkouts' \in [Checkout -> CheckoutRow]
    BY <1>2, <1>5, BillRows, CheckoutStep, Zenon
  <1>6. CASE SetStripeCustomer(k)
    <2>1. CASE customer[c.org] \in {NoCustomer, c.customer}
      BY <1>2, <1>6, <2>1, LinkStep, Zenon
    <2>2. CASE customer[c.org] \notin {NoCustomer, c.customer}
      BY <1>1, <1>2, <1>5, <1>6, <2>2, Zenon DEF SetStripeCustomer
    <2> QED BY <2>1, <2>2, Zenon
  <1>7. CASE DropCheckout(k)
    BY <1>1, <1>2, <1>5, <1>7, Zenon DEF DropCheckout
  <1> QED BY <1>3, <1>4, <1>6, <1>7, Zenon

\* Stripe emits an event: it names the customer of a checkout of its organization.
LEMMA EmitLinks ==
  ASSUME BillingInv, NEW k \in Checkout,
         Pay(k) \/ CancelSubscription(k) \/ OtherEvent(k)
  PROVE  /\ Links' /\ checkouts' \in [Checkout -> CheckoutRow]
         /\ \E v \in StripeEvent : events' = Append(events, v)
         /\ UNCHANGED <<plan, customer, acked, ignored, deliveries, orderly>>
  <1> DEFINE c == checkouts[k]
  <1>1. PICK n, g : n = Payer(k) /\ g = c.org
    OBVIOUS
  <1>2. UNCHANGED <<plan, customer, acked, ignored, deliveries, orderly>>
    BY DEF Pay, CancelSubscription, OtherEvent
  <1>3. /\ c \in CheckoutRow /\ c.pc \in {"open", "paid"} /\ g \in Organization
        /\ c.known # NoCustomer => customer[g] = c.known
    BY <1>1, Zenon DEF BillingInv, BillingTypeOK, Links, CheckoutInv, Pay, CancelSubscription,
                OtherEvent
  <1>4. n \in Checkout /\ Introduced(n, g)
    BY <1>1, <1>3, BillTypes DEF Payer, Introduced, BillingInv, Links, CustomerInv
  <1>5. PICK type \in {"completed", "deleted", "other"}, p \in Plan :
          events' = Append(events, [type |-> type, org |-> g, plan |-> p, customer |-> n])
    <2>1. c.plan \in Plan /\ "free" \in Plan
      BY <1>3 DEF CheckoutRow, Plan
    <2> QED BY <1>1, <2>1, Zenon DEF Pay, CancelSubscription, OtherEvent, Emit
  <1> DEFINE v == [type |-> type, org |-> g, plan |-> p, customer |-> n]
  <1>6. v \in StripeEvent /\ v.customer = n /\ v.org = g
    BY <1>3, <1>4, Zenon DEF StripeEvent
  <1>7. events' = Append(events, v)
    BY <1>5
  <1> HIDE DEF v
  <1>8. PICK x \in CheckoutRow : /\ checkouts' = [checkouts EXCEPT ![k] = x]
                                      /\ x.pc \in {"open", "paid"} /\ x.org = g /\ x.known = c.known
    <2>1. CASE Pay(k)
      <3> DEFINE x == [c EXCEPT !.pc = "paid"]
      <3>1. x \in CheckoutRow /\ x.pc = "paid" /\ x.org = g /\ x.known = c.known
        BY <1>1, <1>3 DEF CheckoutRow
      <3>2. checkouts' = [checkouts EXCEPT ![k] = x]
        BY <2>1 DEF Pay
      <3> HIDE DEF x
      <3> QED BY <3>1, <3>2, Zenon
    <2>2. CASE CancelSubscription(k) \/ OtherEvent(k)
      <3>1. checkouts' = checkouts
        BY <2>2 DEF CancelSubscription, OtherEvent
      <3>2. checkouts = [checkouts EXCEPT ![k] = c]
        BY DEF BillingInv, BillingTypeOK
      <3> QED BY <1>1, <1>3, <3>1, <3>2, Zenon
    <2> QED BY <2>1, <2>2
  <1>9. /\ checkouts' \in [Checkout -> CheckoutRow] /\ checkouts'[k] = x
        /\ \A j \in Checkout \ {k} : checkouts'[j] = checkouts[j]
    BY <1>8 DEF BillingInv, BillingTypeOK
  <1>10. \A j \in Checkout, o \in Organization : Introduced(j, o) => Introduced(j, o)'
    BY <1>1, <1>8, <1>9 DEF Introduced
  <1>11. \A j \in Checkout : CheckoutInv(j)'
    BY <1>2, <1>3, <1>8, <1>9, Zenon DEF BillingInv, Links, CheckoutInv, Payer
  <1>12. CustomerInv'
    <2>1. ASSUME NEW o \in Organization, NEW j, j = customer'[o], j # NoCustomer
          PROVE  Introduced(j, o)'
      BY <1>2, <1>10, <2>1, BillTypes, Zenon DEF BillingInv, Links, CustomerInv
    <2>2. ASSUME NEW e \in DOMAIN events', NEW u, u = events'[e]
          PROVE  Introduced(u.customer, u.org)'
      <3>1. (e \in DOMAIN events /\ u = events[e]) \/ u = v
        BY <1>6, <1>7, <2>2, AppendProperties, BillTypes, SMTT(30) DEF BillingInv, BillingTypeOK
      <3>2. CASE u = v
        BY <1>3, <1>4, <1>6, <1>10, <3>2, Zenon
      <3>3. CASE e \in DOMAIN events /\ u = events[e]
        BY <1>10, <3>3, BillTypes, Zenon DEF BillingInv, Links, CustomerInv
      <3> QED BY <3>1, <3>2, <3>3
    <2> QED BY <2>1, <2>2 DEF CustomerInv, Introduced
  <1> QED BY <1>2, <1>6, <1>7, <1>9, <1>11, <1>12, Zenon DEF Links

\* A new event of Stripe's is not acknowledged, and leaves the plans in order.
LEMMA PlansEmit ==
  ASSUME BillingInv, NEW v \in StripeEvent, events' = Append(events, v),
         UNCHANGED <<plan, acked, ignored, deliveries, orderly>>
  PROVE  Plans' /\ events' \in Seq(StripeEvent) /\ acked' \subseteq DOMAIN events'
  <1>1. /\ events' \in Seq(StripeEvent) /\ DOMAIN events \subseteq DOMAIN events'
        /\ \A e \in DOMAIN events : events'[e] = events[e]
    BY AppendProperties, BillTypes, LenProperties DEF BillingInv, BillingTypeOK
  <1>2. acked \subseteq DOMAIN events /\ acked' \subseteq DOMAIN events'
    BY <1>1, Zenon DEF BillingInv, BillingTypeOK
  <1>3. ASSUME NEW d \in Delivery PROVE DeliveryInv(d)'
    BY <1>1 DEF BillingInv, Plans, DeliveryInv, IsNext
  <1>4. ASSUME NEW o \in Organization PROVE PlanInv(o)'
    <2>1. \A e \in DOMAIN events : e \in EventsOf(o) <=> e \in EventsOf(o)'
      BY <1>1, Zenon DEF EventsOf
    <2>2. EventsOf(o)' \cap acked' = EventsOf(o) \cap acked
      BY <1>2, <2>1, Zenon DEF EventsOf
    <2>3. \A n \in EventsOf(o) : n \in EventsOf(o)' /\ events'[n] = events[n]
      BY <1>1, <2>1, Zenon DEF EventsOf
    <2> QED BY <2>2, <2>3, Zenon DEF BillingInv, Plans, PlanInv, IsNext
  <1> QED BY <1>1, <1>2, <1>3, <1>4, Zenon DEF BillingInv, Plans

\* A step of a delivery that writes no plan and acknowledges nothing.
LEMMA DeliveryStep ==
  ASSUME BillingInv, NEW d \in Delivery, NEW x \in DeliveryRow,
         deliveries' = [deliveries EXCEPT ![d] = x], UNCHANGED <<plan, events, acked>>,
         ignored \subseteq ignored', orderly' => orderly,
         orderly' /\ x.pc # "idle" =>
           deliveries[d].pc # "idle" \/ \A y \in Delivery : deliveries[y].pc = "idle",
         x.pc # "idle" =>
           /\ x.event \in DOMAIN events
           /\ x.pc = "find" => events[x.event].type # "completed"
           /\ x.pc = "plan" => events[x.event].type # "other" /\ x.org = events[x.event].org
           /\ orderly' => IsNext(x.event)
           /\ (orderly' /\ x.pc \in {"append", "answer"} /\ events[x.event].type # "other"
                 /\ x.event \notin ignored') => plan[events[x.event].org] = events[x.event].plan
  PROVE  Plans' /\ deliveries' \in [Delivery -> DeliveryRow]
  <1>1. /\ deliveries' \in [Delivery -> DeliveryRow] /\ deliveries'[d] = x
        /\ \A y \in Delivery \ {d} : deliveries'[y] = deliveries[y]
    BY Zenon DEF BillingInv, BillingTypeOK
  <1>2. ASSUME NEW y \in Delivery PROVE DeliveryInv(y)'
    <2>1. CASE y = d
      BY <1>1, <2>1, Zenon DEF DeliveryInv, IsNext
    <2>2. CASE y # d
      <3>1. DeliveryInv(y) /\ deliveries'[y] = deliveries[y]
        BY <1>1, <2>2, Zenon DEF BillingInv, Plans
      <3> QED BY <3>1, SMTT(30) DEF DeliveryInv, IsNext
    <2> QED BY <2>1, <2>2, Zenon
  <1>3. orderly' => \A y, z \in Delivery : deliveries'[y].pc # "idle" /\ deliveries'[z].pc # "idle" => y = z
    BY <1>1, Zenon DEF BillingInv, Plans
  <1>4. orderly' => \A e \in acked' : \A f \in 1..(e - 1) : f \in acked'
    BY Zenon DEF BillingInv, Plans
  <1>5. ASSUME NEW o \in Organization PROVE PlanInv(o)'
    <2>1. EventsOf(o)' = EventsOf(o)
      BY Zenon DEF EventsOf
    <2>2. PlanInv(o)
      BY DEF BillingInv, Plans
    <2> QED BY <2>1, <2>2, Zenon DEF PlanInv, IsNext
  <1> QED BY <1>1, <1>2, <1>3, <1>4, <1>5, Zenon DEF Plans

\* A delivery arrives.
LEMMA DeliverPlans ==
  ASSUME BillingInv, NEW d \in Delivery, NEW e \in Event, Deliver(d, e)
  PROVE  Plans' /\ deliveries' \in [Delivery -> DeliveryRow]
  <1> DEFINE x == IF events[e].type = "completed" THEN [event |-> e, org |-> events[e].org, pc |-> "plan"]
                  ELSE [event |-> e, org |-> NoOrganization, pc |-> "find"]
  <1>1. e \in DOMAIN events /\ events[e].org \in Organization
    BY BillTypes, Zenon DEF Deliver
  <1>2. x \in DeliveryRow /\ x.event = e
        /\ x.pc = (IF events[e].type = "completed" THEN "plan" ELSE "find")
        /\ (events[e].type = "completed" => x.org = events[e].org)
    BY <1>1 DEF DeliveryRow
  <1>3. deliveries' = [deliveries EXCEPT ![d] = x] /\ UNCHANGED <<plan, events, acked, ignored>>
    BY Zenon DEF Deliver, stripe
  <1>4. orderly' => /\ orderly /\ \A y \in Delivery : deliveries[y] = Free
                    /\ IsNext(e)
    BY Zenon DEF Deliver, IsNext
  <1> HIDE DEF x
  <1> QED BY <1>1, <1>2, <1>3, <1>4, BillRows, DeliveryStep, Zenon

\* org_for_customer finds the organization of the event, or none.
LEMMA FindPlans ==
  ASSUME BillingInv, NEW d \in Delivery, FindOrganization(d)
  PROVE  Plans' /\ deliveries' \in [Delivery -> DeliveryRow]
  <1> DEFINE r == deliveries[d]
             e == r.event
             o == Owner(events[e].customer)
             dismissed == events[e].type = "deleted" /\ o = NoOrganization
             pc == IF dismissed THEN "answer" ELSE IF events[e].type = "deleted" THEN "plan" ELSE "append"
             x == [r EXCEPT !.org = o, !.pc = pc]
  <1>1. /\ r \in DeliveryRow /\ r.pc = "find" /\ e \in DOMAIN events
        /\ events[e].type # "completed"
        /\ orderly => IsNext(e)
    BY Zenon DEF BillingInv, BillingTypeOK, Plans, DeliveryInv, FindOrganization
  <1>2. o \in {NoOrganization, events[e].org} /\ events[e].org \in Organization
    <2>1. \A p \in Organization : customer[p] = events[e].customer => p = events[e].org
      BY <1>1, BillRows, BillTypes, SMTT(30) DEF BillingInv, Links, CustomerInv, Introduced
    <2>2. events[e].org \in Organization
      BY <1>1, BillTypes
    <2> QED BY <2>1, <2>2, Zenon DEF Owner
  <1>3. /\ deliveries' = [deliveries EXCEPT ![d] = x] /\ UNCHANGED <<plan, events, acked, orderly>>
        /\ ignored' = IF dismissed THEN ignored \cup {e} ELSE ignored
    BY DEF FindOrganization, stripe
  <1>4. events[e].type \in {"completed", "deleted", "other"}
    BY <1>1, BillTypes, Zenon DEF StripeEvent
  <1>5. PICK c \in {"answer", "plan", "append"} : c = pc
    OBVIOUS
  <1> DEFINE z == [r EXCEPT !.org = o, !.pc = c]
  <1> HIDE DEF o
  <1>6. z \in DeliveryRow /\ z.event = e /\ z.org = o /\ z.pc = c /\ x = z
    BY <1>1, <1>2, <1>5, Zenon DEF DeliveryRow
  <1> HIDE DEF x, z
  <1>7. CASE dismissed
    BY <1>1, <1>3, <1>5, <1>6, <1>7, DeliveryStep, Zenon
  <1>8. CASE ~dismissed /\ events[e].type = "deleted"
    BY <1>1, <1>2, <1>3, <1>5, <1>6, <1>8, DeliveryStep, Zenon
  <1>9. CASE events[e].type = "other"
    BY <1>1, <1>3, <1>5, <1>6, <1>9, DeliveryStep, Zenon
  <1> QED BY <1>1, <1>4, <1>7, <1>8, <1>9, Zenon

\* append_event, and a delivery that fails.
LEMMA AppendPlans ==
  ASSUME BillingInv, NEW d \in Delivery, AppendEvent(d) \/ DropDelivery(d)
  PROVE  Plans' /\ deliveries' \in [Delivery -> DeliveryRow]
  <1> DEFINE r == deliveries[d]
  <1>1. r \in DeliveryRow /\ DeliveryInv(d)
    BY DEF BillingInv, BillingTypeOK, Plans
  <1>2. UNCHANGED <<plan, events, acked, ignored, orderly>>
    BY DEF AppendEvent, DropDelivery, stripe
  <1>3. CASE AppendEvent(d)
    <2> DEFINE x == [r EXCEPT !.pc = "answer"]
    <2>1. x \in DeliveryRow /\ x.pc = "answer" /\ x.event = r.event
      BY <1>1 DEF DeliveryRow
    <2>2. deliveries' = [deliveries EXCEPT ![d] = x] /\ r.pc = "append"
      BY <1>3, Zenon DEF AppendEvent
    <2> HIDE DEF x
    <2>3. /\ x.event \in DOMAIN events /\ (orderly => IsNext(x.event))
          /\ (orderly /\ events[x.event].type # "other" /\ x.event \notin ignored) =>
                plan[events[x.event].org] = events[x.event].plan
      BY <1>1, <2>1, <2>2 DEF DeliveryInv
    <2> QED BY <1>2, <2>1, <2>2, <2>3, DeliveryStep, Zenon
  <1>4. CASE DropDelivery(d)
    <2>1. deliveries' = [deliveries EXCEPT ![d] = Free]
      BY <1>4, Zenon DEF DropDelivery
    <2> QED BY <1>2, <2>1, BillRows, DeliveryStep, Zenon
  <1> QED BY <1>3, <1>4

\* update_plan writes the plan of the next event, for the event's organization.
LEMMA UpdatePlans ==
  ASSUME BillingInv, NEW d \in Delivery, UpdatePlan(d)
  PROVE  /\ Plans' /\ deliveries' \in [Delivery -> DeliveryRow]
         /\ plan' \in [Organization -> Plan]
  <1> DEFINE r == deliveries[d]
             x == [r EXCEPT !.pc = "append", !.org = NoOrganization]
  <1>1. PICK e, v : e = r.event /\ v = events[e]
    OBVIOUS
  <1>2. /\ r \in DeliveryRow /\ r.pc = "plan" /\ e \in DOMAIN events /\ v.type # "other"
        /\ r.org = v.org /\ (orderly => IsNext(e))
    BY <1>1, Zenon DEF BillingInv, BillingTypeOK, Plans, DeliveryInv, UpdatePlan
  <1>3. v.org \in Organization /\ v.plan \in Plan
    BY <1>1, <1>2, BillTypes
  <1>4. x \in DeliveryRow /\ x.pc = "append" /\ x.event = e
    BY <1>1, <1>2, Zenon DEF DeliveryRow
  <1>5. /\ deliveries' = [deliveries EXCEPT ![d] = x] /\ plan' = [plan EXCEPT ![v.org] = v.plan]
        /\ UNCHANGED <<events, acked, ignored, orderly>>
    BY <1>1, <1>2, Zenon DEF UpdatePlan, stripe
  <1> HIDE DEF x
  <1>6. /\ deliveries' \in [Delivery -> DeliveryRow] /\ deliveries'[d] = x
        /\ \A y \in Delivery \ {d} : deliveries'[y] = deliveries[y]
    BY <1>4, <1>5, Zenon DEF BillingInv, BillingTypeOK
  <1>7. /\ plan' \in [Organization -> Plan] /\ plan'[v.org] = v.plan
        /\ \A o \in Organization \ {v.org} : plan'[o] = plan[o]
    BY <1>3, <1>5 DEF BillingInv, BillingTypeOK
  <1>8. ASSUME NEW y \in Delivery PROVE DeliveryInv(y)'
    <2>1. CASE y = d
      BY <1>1, <1>2, <1>4, <1>5, <1>6, <1>7, <2>1, Zenon DEF DeliveryInv, IsNext
    <2>2. CASE y # d
      <3>1. DeliveryInv(y) /\ deliveries'[y] = deliveries[y]
        BY <1>6, <2>2, Zenon DEF BillingInv, Plans
      <3>2. orderly => deliveries[y].pc = "idle"
        BY <1>2, <2>2, Zenon DEF BillingInv, Plans
      <3> QED BY <1>5, <3>1, <3>2, Zenon DEF DeliveryInv
    <2> QED BY <2>1, <2>2, Zenon
  <1>9. orderly' => \A y, z \in Delivery : deliveries'[y].pc # "idle" /\ deliveries'[z].pc # "idle" => y = z
    BY <1>2, <1>4, <1>5, <1>6, Zenon DEF BillingInv, Plans
  <1>10. orderly' => \A a \in acked' : \A f \in 1..(a - 1) : f \in acked'
    BY <1>5 DEF BillingInv, Plans
  <1>11. ASSUME NEW o \in Organization PROVE PlanInv(o)'
    <2>1. EventsOf(o)' = EventsOf(o)
      BY <1>5 DEF EventsOf
    <2>2. PlanInv(o)
      BY Zenon DEF BillingInv, Plans
    <2>3. CASE o # v.org
      BY <1>5, <1>7, <2>1, <2>2, <2>3, Zenon DEF PlanInv, IsNext
    <2>4. CASE o = v.org
      <3>1. e \in EventsOf(o)
        BY <1>1, <1>2, <2>4, Zenon DEF EventsOf
      <3>2. orderly' => e \in EventsOf(o)' /\ IsNext(e)' /\ plan'[o] = events'[e].plan
        BY <1>1, <1>2, <1>5, <1>7, <2>1, <2>4, <3>1, Zenon DEF IsNext
      <3> QED BY <1>5, <2>1, <2>2, <3>2, Zenon DEF PlanInv
    <2> QED BY <2>3, <2>4
  <1> QED BY <1>6, <1>7, <1>8, <1>9, <1>10, <1>11, Zenon DEF Plans

\* The 200: the event becomes the last acknowledged one, and its plan is written.
LEMMA AnswerPlans ==
  ASSUME BillingInv, NEW d \in Delivery, Answer(d)
  PROVE  /\ Plans' /\ deliveries' \in [Delivery -> DeliveryRow]
         /\ acked' \subseteq DOMAIN events'
  <1> DEFINE r == deliveries[d]
  <1>1. PICK e, v : e = r.event /\ v = events[e]
    BY Zenon
  <1>2. /\ r.pc = "answer" /\ e \in DOMAIN events /\ (orderly => IsNext(e))
        /\ orderly /\ v.type # "other" /\ e \notin ignored => plan[v.org] = v.plan
    BY <1>1, Zenon DEF BillingInv, BillingTypeOK, Plans, DeliveryInv, Answer
  <1>3. /\ deliveries' = [deliveries EXCEPT ![d] = Free] /\ acked' = acked \cup {e}
        /\ UNCHANGED <<plan, events, ignored, orderly>>
    BY <1>1 DEF Answer, stripe
  <1>4. /\ deliveries' \in [Delivery -> DeliveryRow] /\ deliveries'[d].pc = "idle"
        /\ \A y \in Delivery \ {d} : deliveries'[y] = deliveries[y]
    BY <1>3, BillRows DEF BillingInv, BillingTypeOK
  <1>5. acked \subseteq DOMAIN events /\ acked' \subseteq DOMAIN events'
    BY <1>2, <1>3 DEF BillingInv, BillingTypeOK
  <1>6. DOMAIN events \subseteq Nat \ {0}
    BY BillTypes
  <1>7. ASSUME NEW y \in Delivery PROVE DeliveryInv(y)'
    <2>1. CASE y = d
      BY <1>4, <2>1 DEF DeliveryInv
    <2>2. CASE y # d
      <3>1. DeliveryInv(y) /\ deliveries'[y] = deliveries[y]
        BY <1>4, <2>2 DEF BillingInv, Plans
      <3>2. orderly => deliveries[y].pc = "idle"
        BY <1>2, <2>2, Zenon DEF BillingInv, Plans
      <3> QED BY <1>3, <3>1, <3>2, Zenon DEF DeliveryInv
    <2> QED BY <2>1, <2>2, Zenon
  <1>8. orderly' => \A y, z \in Delivery : deliveries'[y].pc # "idle" /\ deliveries'[z].pc # "idle" => y = z
    BY <1>3, <1>4, Zenon DEF BillingInv, Plans
  <1>9. orderly' => \A a \in acked' : \A f \in 1..(a - 1) : f \in acked'
    BY <1>2, <1>3, Zenon DEF BillingInv, Plans, IsNext
  <1>10. orderly => \A a \in acked : a <= e
    <2> SUFFICES ASSUME orderly, NEW a \in acked, ~(a <= e) PROVE FALSE
      BY <1>2, <1>5, <1>6, Zenon
    <2>1. e \in 1..(a - 1)
      BY <1>2, <1>5, <1>6
    <2> QED BY <1>2, <2>1, Zenon DEF BillingInv, Plans, IsNext
  <1>11. ASSUME NEW o \in Organization PROVE PlanInv(o)'
    <2>1. EventsOf(o)' = EventsOf(o) /\ EventsOf(o) \subseteq DOMAIN events
      BY <1>3, Zenon DEF EventsOf
    <2>2. PlanInv(o)
      BY Zenon DEF BillingInv, Plans
    <2>3. CASE e \in EventsOf(o)
      <3>1. v.org = o /\ v.type # "other"
        BY <1>1, <2>3, Zenon DEF EventsOf
      <3>2. orderly /\ e \notin ignored => plan[o] = v.plan
        BY <1>2, <3>1, Zenon
      <3>3. orderly => \A f \in acked' : f <= e
        BY <1>2, <1>3, <1>6, <1>10
      <3> QED BY <1>1, <1>3, <2>1, <2>3, <3>2, <3>3, Zenon DEF PlanInv
    <2>4. CASE e \notin EventsOf(o)
      <3>1. EventsOf(o)' \cap acked' = EventsOf(o) \cap acked
        BY <1>3, <2>1, <2>4, Zenon
      <3>2. \A n \in EventsOf(o) : IsNext(n) => IsNext(n)'
        BY <1>3, <2>4, Zenon DEF IsNext
      <3> QED BY <1>3, <2>1, <2>2, <3>1, <3>2, Zenon DEF PlanInv
    <2> QED BY <2>3, <2>4, Zenon
  <1> QED BY <1>4, <1>5, <1>7, <1>8, <1>9, <1>11, Zenon DEF Plans

\* The step of Billing: the invariant, and that a customer once set stays.
LEMMA BillStep ==
  ASSUME BillingInv, [BillingNext]_billingVars
  PROVE  BillingInv' /\ \A o \in Organization : customer[o] # NoCustomer => customer'[o] = customer[o]
  <1> USE DEF BillingInv
  <1>1. ASSUME NEW k \in Checkout, \/ StartCheckout(k) \/ CreateSession(k)
                                        \/ SetStripeCustomer(k) \/ DropCheckout(k)
        PROVE  BillingInv' /\ \A o \in Organization : customer[o] # NoCustomer => customer'[o] = customer[o]
    <2>1. /\ Links' /\ checkouts' \in [Checkout -> CheckoutRow]
          /\ customer' \in [Organization -> {NoCustomer} \cup Checkout]
          /\ \A o \in Organization : customer[o] # NoCustomer => customer'[o] = customer[o]
          /\ UNCHANGED <<plan, events, acked, ignored, deliveries, orderly>>
      BY <1>1, CheckoutLinks, Zenon
    <2> QED BY <2>1, PlansKept, Zenon DEF BillingTypeOK
  <1>2. ASSUME NEW k \in Checkout, Pay(k) \/ CancelSubscription(k) \/ OtherEvent(k)
        PROVE  BillingInv' /\ customer' = customer
    <2>1. PICK v \in StripeEvent :
            /\ Links' /\ checkouts' \in [Checkout -> CheckoutRow]
            /\ events' = Append(events, v) /\ UNCHANGED <<plan, customer, acked, ignored, deliveries, orderly>>
      BY <1>2, EmitLinks, Zenon
    <2> QED BY <2>1, PlansEmit, Zenon DEF BillingTypeOK
  <1>3. ASSUME NEW d \in Delivery,
               \/ \E e \in Event : Deliver(d, e)
               \/ FindOrganization(d) \/ AppendEvent(d) \/ DropDelivery(d)
        PROVE  BillingInv' /\ customer' = customer
    <2>1. UNCHANGED <<plan, customer, checkouts, events, acked>>
      BY <1>3, Zenon DEF Deliver, FindOrganization, AppendEvent, DropDelivery, stripe
    <2>2. Plans' /\ deliveries' \in [Delivery -> DeliveryRow]
      BY <1>3, DeliverPlans, FindPlans, AppendPlans, Zenon
    <2> QED BY <2>1, <2>2, LinksKept, Zenon DEF BillingTypeOK
  <1>4. ASSUME NEW d \in Delivery, UpdatePlan(d)
        PROVE  BillingInv' /\ customer' = customer
    <2>1. UNCHANGED <<customer, checkouts, events, acked>>
      BY <1>4, Zenon DEF UpdatePlan, stripe
    <2> QED BY <1>4, <2>1, UpdatePlans, LinksKept, Zenon DEF BillingTypeOK
  <1>5. ASSUME NEW d \in Delivery, Answer(d)
        PROVE  BillingInv' /\ customer' = customer
    <2>1. UNCHANGED <<plan, customer, checkouts, events>>
      BY <1>5, Zenon DEF Answer, stripe
    <2> QED BY <1>5, <2>1, AnswerPlans, LinksKept, Zenon DEF BillingTypeOK
  <1>6. CASE UNCHANGED billingVars
    <2>1. UNCHANGED <<plan, customer, checkouts, events, acked, ignored, deliveries, orderly>>
      BY <1>6 DEF billingVars, stripe
    <2> QED BY <2>1, LinksKept, PlansKept, Zenon DEF BillingTypeOK
  <1> QED BY <1>1, <1>2, <1>3, <1>4, <1>5, <1>6, Zenon DEF BillingNext

\* Inv of Billing holds in every state.
LEMMA BillingInvHolds ==
  BillingSpec => []BillingInv
  <1>1. BillingInv /\ [BillingNext]_billingVars => BillingInv'
    BY BillStep
  <1> QED BY InitBill, <1>1, PTL DEF BillingSpec

\* apply_checkout_completion and apply_subscription_cancelled: deliveries that come
\* one by one and in order leave the plan of the last event, however many of them
\* fail halfway and come again.
THEOREM PlanFollows ==
  BillingSpec => []PlanFollowsEvents
  <1>1. BillingInv => PlanFollowsEvents
    <2> SUFFICES ASSUME BillingInv, orderly, NEW o \in Organization, EventsOf(o) # {},
                        EventsOf(o) \subseteq acked \ ignored
                 PROVE  plan[o] = events[CHOOSE e \in EventsOf(o) : \A f \in EventsOf(o) : f <= e].plan
      BY DEF PlanFollowsEvents
    <2> DEFINE E == EventsOf(o)
    <2>1. E \cap acked = E /\ E \cap ignored = {}
      BY Zenon
    <2>2. PICK m \in E : (\A f \in E : f <= m) /\ plan[o] = events[m].plan
      BY <2>1, Zenon DEF BillingInv, Plans, PlanInv, IsNext
    <2>3. E \subseteq Nat
      BY BillTypes DEF EventsOf
    <2> HIDE DEF E
    <2>4. \A e \in E : (\A f \in E : f <= e) => e = m
      BY <2>2, <2>3
    <2>5. m = CHOOSE e \in E : \A f \in E : f <= e
      BY <2>2, <2>4
    <2> QED BY <2>2, <2>5, Zenon DEF E
  <1> QED BY BillingInvHolds, <1>1, PTL

\* set_stripe_customer: checkouts that race never move an organization to another
\* customer, and no two organizations come to have one in common.
THEOREM CustomerFixed ==
  BillingSpec => CustomerIsFixed
  <1>1. ASSUME BillingInv, [BillingNext]_billingVars
        PROVE  [\A o \in Organization :
                  /\ customer[o] # NoCustomer => customer'[o] = customer[o]
                  /\ \A p \in Organization \ {o} :
                       customer'[o] # NoCustomer => customer'[p] # customer'[o]]_billingVars
    <2>1. CustomerInv' /\ \A o \in Organization : customer[o] # NoCustomer => customer'[o] = customer[o]
      BY <1>1, BillStep, Zenon DEF BillingInv, Links
    <2>2. \A o, p \in Organization : customer'[o] # NoCustomer /\ customer'[p] = customer'[o] => p = o
      BY <2>1 DEF CustomerInv, Introduced
    <2> QED BY <2>1, <2>2, Zenon
  <1> QED BY BillingInvHolds, <1>1, PTL DEF BillingSpec, CustomerIsFixed
=============================================================================
