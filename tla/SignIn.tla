------------------------------- MODULE SignIn -------------------------------
(***************************************************************************)
(* Signing in and acting: the GitHub OAuth login, the users and identities *)
(* it creates, the sessions it issues, the policy bit users.requires_mfa   *)
(* that a trigger on memberships maintains, and the extractors that admit  *)
(* a request to an Owner/Admin route.  Every request is a sequence of      *)
(* statements against Postgres (READ COMMITTED); a request may be dropped  *)
(* between two of them, and an open transaction is then undone.            *)
(***************************************************************************)
EXTENDS Integers, Sequences, FiniteSets

CONSTANTS
    Account,       \* GitHub accounts (the subject of an identity)
    Email,         \* addresses; GitHub may release any of them for an account,
                   \* the placeholder of an account without one among them
    Member,        \* the user whose memberships change: the email of its row
    First,         \* the account linked to Member at the start
    Organization,
    PoolSize,      \* max_connections of the pool
    MaxLogins,     \* bound: logins started
    MaxSessions,   \* bound: sessions issued
    Request        \* the other requests

ASSUME MemberAssumption == Member \in Email /\ First \in Account
ASSUME PoolAssumption == PoolSize \in Nat \ {0}
ASSUME SignInBoundsAssumption == MaxLogins \in Nat /\ MaxSessions \in Nat

VARIABLES
    users,     \* rows of users, by their unique email
    links,     \* user_oidc_identities: the user of each account
    roles,     \* Member's live membership in each organization
    requires,  \* users.requires_mfa of Member
    enrolled,  \* users.mfa_enrolled of Member
    states,    \* auth_states
    sessions,  \* rows of sessions, in the order of their ids
    key,       \* Member's API key: its state and its organization
    requests,  \* the requests in flight and finished
    overlap    \* history: two transactions of one kind were open at once

identity == <<users, links>>
policy == <<roles, requires, enrolled>>
signInVars == <<identity, policy, states, sessions, key, requests, overlap>>

Login == 1..MaxLogins
Role == {"none", "member", "admin"}
NoUser == "none"

\* The link of an account is optional: no user has this for an address.
ASSUME NoUserAssumption == NoUser \notin Email

\* `flag` is what the transaction or the policy read computed.  History: `owed`
\* tells that Member has administered and been enrolled since the policy could
\* be read.
Idle == [op |-> "none", pc |-> "idle", account |-> First, user |-> NoUser,
         session |-> 0, bearer |-> FALSE, org |-> "none", role |-> "none",
         flag |-> FALSE, locks |-> FALSE, owed |-> FALSE]

Administers == \E o \in Organization : roles[o] = "admin"

SignInInit ==
    /\ users = {Member}
    /\ links = [a \in Account |-> IF a = First THEN Member ELSE NoUser]
    /\ roles \in [Organization -> {"none", "admin"}]
    /\ requires = Administers
    /\ enrolled \in BOOLEAN
    /\ states = [i \in Login |-> "none"]
    /\ sessions = <<>>
    /\ key \in {[state |-> "none", org |-> "none"]} \cup
                [state : {"live"}, org : {o \in Organization : roles[o] # "none"}]
    /\ requests = [r \in Request |-> Idle]
    /\ overlap = {}

-----------------------------------------------------------------------------
At(r, op, pc) == requests[r].op = op /\ requests[r].pc = pc

Accept(r, request) ==
    /\ requests[r] = Idle
    /\ requests' = [requests EXCEPT ![r] = request]

Goto(r, pc) == requests' = [requests EXCEPT ![r].pc = pc]

End(r) == requests' = [requests EXCEPT ![r] = [Idle EXCEPT !.pc = "over"]]

InFlight(r) == requests[r].pc \notin {"idle", "admitted", "over"}

\* The client goes away, the timeout of the HTTP layer fires, a statement or a
\* call to GitHub fails, or the state that was consumed had expired.  The open
\* transaction is rolled back.
Drop(r) ==
    /\ InFlight(r) /\ End(r)
    /\ UNCHANGED <<identity, policy, states, sessions, key, overlap>>

-----------------------------------------------------------------------------
(* The connection pool: a transaction keeps a connection until its end, a    *)
(* single statement gives it back at once.  A sign-in takes a second one,    *)
(* beside that of its transaction, to read the policy.                       *)

InTransaction(r) ==
    requests[r].op = "callback" /\ requests[r].pc \in {"lookup", "upsert", "policy", "issue"}

HoldsConnection(r) == InTransaction(r) \/ requests[r].pc \in {"write", "update", "commit"}

FreeConnection == Cardinality({r \in Request : HoldsConnection(r)}) < PoolSize

\* Mutant of AcquireTimeout: a request waits for a connection for ever.
AcquireForever(r) == FALSE

\* acquire_timeout, before a transaction or a single statement.
AcquireTimeout(r) ==
    /\ requests[r].pc \in {"begin", "policy", "resolve", "member", "mfa", "role", "key"}
    /\ ~FreeConnection /\ End(r)
    /\ UNCHANGED <<identity, policy, states, sessions, key, overlap>>

-----------------------------------------------------------------------------
(* GET /v1/auth/login and /v1/auth/callback *)

Start(i) ==
    /\ FreeConnection /\ states[i] = "none" /\ \A j \in 1..(i - 1) : states[j] # "none"
    /\ states' = [states EXCEPT ![i] = "open"]
    /\ UNCHANGED <<identity, policy, sessions, key, requests, overlap>>

\* oidc::consume: UPDATE ... WHERE consumed_at IS NULL.  A callback whose state
\* is consumed is refused and changes nothing.  `session` is the cookie's.
Consume(r) ==
    \E i \in Login, s \in 0..Len(sessions) :
        /\ FreeConnection /\ states[i] = "open"
        /\ states' = [states EXCEPT ![i] = "consumed"]
        /\ Accept(r, [Idle EXCEPT !.op = "callback", !.pc = "exchange", !.session = s])
        /\ UNCHANGED <<identity, policy, sessions, key, overlap>>

\* exchange_code and fetch_profile; then the session of the cookie is revoked,
\* an error being ignored.
Exchange(r) ==
    LET s == requests[r].session IN
    /\ At(r, "callback", "exchange")
    /\ \E a \in Account :
         requests' = [requests EXCEPT ![r] = [@ EXCEPT !.pc = "begin", !.account = a, !.session = 0]]
    /\ \/ s # 0 /\ FreeConnection /\ sessions' = [sessions EXCEPT ![s].live = FALSE]
       \/ UNCHANGED sessions
    /\ UNCHANGED <<identity, policy, states, key, overlap>>

\* The transaction begins.  History: whether another first sign-in of the account
\* has its transaction open.
Begin(r) ==
    LET a == requests[r].account
        others == {q \in Request : InTransaction(q) /\ requests[q].account = a} IN
    /\ At(r, "callback", "begin") /\ FreeConnection /\ Goto(r, "lookup")
    /\ overlap' = overlap \cup (IF links[a] = NoUser /\ others # {} THEN {"identity"} ELSE {})
    /\ UNCHANGED <<identity, policy, states, sessions, key>>

\* The policy is due: Member administers an organization and has a passkey.
Due == Administers /\ enrolled

\* Mutant of LookupIdentity: accounts are matched by their address only.
LookupNothing(r) ==
    /\ At(r, "callback", "lookup") /\ Goto(r, "upsert")
    /\ UNCHANGED <<identity, policy, states, sessions, key, overlap>>

\* upsert_identity: the link, if it is committed.
LookupIdentity(r) ==
    LET u == links[requests[r].account] IN
    /\ At(r, "callback", "lookup")
    /\ requests' = [requests EXCEPT ![r] =
         IF u # NoUser THEN [@ EXCEPT !.pc = "policy", !.user = u, !.owed = (u = Member /\ Due)]
                       ELSE [@ EXCEPT !.pc = "upsert"]]
    /\ UNCHANGED <<identity, policy, states, sessions, key, overlap>>

\* The sign-ins that have written a row of users or of user_oidc_identities and
\* not committed it.
Writes(q) == InTransaction(q) /\ requests[q].locks

\* The role changes that have written Member's row of users and not committed it.
UpdatesMember(q) == At(q, "change", "commit") /\ requests[q].locks

\* upsert_identity: no link was found.  The row of the address the account
\* releases is inserted or updated, its id is read back, and the link is
\* inserted unless there is one by now.  The statements wait for an open
\* transaction that wrote the same row.
UpsertIdentity(r) ==
    LET a == requests[r].account IN
    /\ At(r, "callback", "upsert")
    /\ \E e \in Email :
         /\ \A q \in Request : /\ Writes(q) => requests[q].user # e /\ requests[q].account # a
                               /\ UpdatesMember(q) => e # Member
         /\ requests' = [requests EXCEPT ![r] =
              [@ EXCEPT !.pc = "policy", !.user = e, !.locks = TRUE, !.owed = (e = Member /\ Due)]]
    /\ UNCHANGED <<identity, policy, states, sessions, key, overlap>>

\* user_requires_partial_session, read through the pool and not through the
\* transaction.  A user other than Member has no membership, so no policy bit.
ReadPolicy(r) ==
    /\ At(r, "callback", "policy") /\ FreeConnection
    /\ requests' = [requests EXCEPT ![r] = [@ EXCEPT !.pc = "issue",
         !.flag = (requests[r].user = Member /\ requires /\ enrolled)]]
    /\ UNCHANGED <<identity, policy, states, sessions, key, overlap>>

\* session::issue or issue_partial_mfa, and the commit: the user, the link and
\* the session appear together.  `owed` and `asserted` of a session are history:
\* the gate was due all through the sign-in, and an assertion has promoted it.
IssueSession(r) ==
    LET q == requests[r] IN
    /\ At(r, "callback", "issue") /\ Len(sessions) < MaxSessions
    /\ users' = users \cup {q.user}
    /\ links' = [links EXCEPT ![q.account] = IF @ = NoUser THEN q.user ELSE @]
    /\ sessions' = Append(sessions,
         [user |-> q.user, account |-> q.account, satisfied |-> ~q.flag,
          live |-> TRUE, owed |-> q.owed, asserted |-> FALSE])
    /\ End(r)
    /\ UNCHANGED <<policy, states, key, overlap>>

-----------------------------------------------------------------------------
(* What changes a session or the policy behind the back of a request *)

\* POST /v1/auth/logout, and the expiry of a session.
Logout(s) ==
    /\ FreeConnection /\ sessions[s].live
    /\ sessions' = [sessions EXCEPT ![s].live = FALSE]
    /\ UNCHANGED <<identity, policy, states, key, requests, overlap>>

\* mark_mfa_satisfied, at the end of an assertion ceremony (Passkeys).
MarkSatisfied(s) ==
    /\ FreeConnection /\ sessions[s].live /\ ~sessions[s].satisfied
    /\ sessions' = [sessions EXCEPT ![s].satisfied = TRUE, ![s].asserted = TRUE]
    /\ UNCHANGED <<identity, policy, states, key, requests, overlap>>

\* No open transaction has written Member's row of users.
MemberRowFree == \A q \in Request : ~UpdatesMember(q) /\ (Writes(q) => requests[q].user # Member)

\* The first passkey is registered, or the last one is revoked (Passkeys): UPDATE
\* users, and the commit.
ChangeEnrolment ==
    /\ FreeConnection /\ MemberRowFree
    /\ enrolled' = ~enrolled
    /\ requests' = [r \in Request |-> [requests[r] EXCEPT !.owed = FALSE]]
    /\ UNCHANGED <<identity, roles, requires, states, sessions, key, overlap>>

\* A transaction begins that will write Member's membership of an organization (an
\* organization is created, an invite accepted, a role changed, a member removed).
ChangeRole(r) ==
    \E o \in Organization, x \in Role :
        /\ FreeConnection
        /\ Accept(r, [Idle EXCEPT !.op = "change", !.pc = "write", !.org = o, !.role = x])
        /\ UNCHANGED <<identity, policy, states, sessions, key, overlap>>

\* The transaction of r has written a membership and not committed it.
RoleOpen(r) == requests[r].op = "change" /\ requests[r].pc \in {"update", "commit"}

\* The write waits for the membership row, which stays locked until the commit.  The
\* trigger memberships_requires_mfa_sync runs in the statement: it sees what is
\* committed and its own write, and updates the policy bit only when it differs.
WriteRole(r) ==
    LET q == requests[r]
        computed == q.role = "admin" \/ \E p \in Organization \ {q.org} : roles[p] = "admin"
        open == {p \in Request : RoleOpen(p)} IN
    /\ At(r, "change", "write") /\ \A p \in open : requests[p].org # q.org
    /\ requests' = [requests EXCEPT ![r] =
         [@ EXCEPT !.pc = IF computed # requires THEN "update" ELSE "commit",
                   !.flag = computed, !.locks = computed # requires]]
    /\ overlap' = overlap \cup (IF open # {} THEN {"roles"} ELSE {})
    /\ UNCHANGED <<identity, policy, states, sessions, key>>

\* The UPDATE of users.requires_mfa waits for whoever has written the row, and then
\* writes what was computed before.
UpdateMember(r) ==
    /\ At(r, "change", "update") /\ MemberRowFree
    /\ Goto(r, "commit")
    /\ UNCHANGED <<identity, policy, states, sessions, key, overlap>>

CommitRole(r) ==
    LET q == requests[r] IN
    /\ At(r, "change", "commit")
    /\ roles' = [roles EXCEPT ![q.org] = q.role]
    /\ requires' = IF q.locks THEN q.flag ELSE requires
    /\ requests' = [p \in Request |->
         IF p = r THEN [Idle EXCEPT !.pc = "over"]
                  ELSE [requests[p] EXCEPT !.owed = @ /\ Administers']]
    /\ UNCHANGED <<identity, enrolled, states, sessions, key, overlap>>

-----------------------------------------------------------------------------
(* The extractors: SessionUser and Actor, then OwnerActor.  `bearer` tells   *)
(* that the request carries Member's API key.                                *)

LiveSession(s) == s # 0 /\ sessions[s].live

\* A request with a session cookie, an API key or both.  The model has one key:
\* create_api_key comes while there is none, revoke_api_key names it.
Arrive(r) ==
    \E op \in {"owner", "create_key", "revoke_key"}, s \in 0..Len(sessions), b \in BOOLEAN :
        /\ s # 0 \/ b
        /\ b \/ op = "revoke_key" => key.state # "none"
        /\ op = "create_key" => key.state = "none"
        /\ Accept(r, [Idle EXCEPT !.op = op, !.pc = "resolve", !.session = s, !.bearer = b])
        /\ UNCHANGED <<identity, policy, states, sessions, key, overlap>>

\* Where an Actor goes on: OwnerActor asks for more, the others act.
Extracted(q) == IF q.op = "owner" THEN IF q.session # 0 THEN "mfa" ELSE "role" ELSE "key"

\* session::resolve; when the cookie's session is gone, resolve_api_key, whose
\* actor has no session and the key's organization.
Resolve(r) ==
    LET q == requests[r] IN
    /\ q.pc = "resolve" /\ FreeConnection
    /\ IF LiveSession(q.session)
       THEN requests' = [requests EXCEPT ![r] =
              [@ EXCEPT !.pc = "member", !.user = sessions[q.session].user, !.bearer = FALSE]]
       ELSE IF q.bearer /\ key.state = "live"
       THEN LET actor == [q EXCEPT !.session = 0, !.bearer = FALSE, !.user = Member, !.org = key.org] IN
            requests' = [requests EXCEPT ![r] = [actor EXCEPT !.pc = Extracted(actor)]]
       ELSE End(r)
    /\ UNCHANGED <<identity, policy, states, sessions, key, overlap>>

\* resolve_organization: the one of the header if the user is a member of it,
\* else the one joined last.
ResolveOrganization(r) ==
    LET q == requests[r] IN
    /\ q.pc = "member" /\ FreeConnection
    /\ \/ \E o \in Organization :
            /\ q.user = Member /\ roles[o] # "none"
            /\ requests' = [requests EXCEPT ![r] = [@ EXCEPT !.pc = Extracted(q), !.org = o]]
       \/ (q.user = Member => \E o \in Organization : roles[o] = "none") /\ End(r)
    /\ UNCHANGED <<identity, policy, states, sessions, key, overlap>>

\* Mutant of MfaGate: any live session passes.
MfaGateOpen(r) ==
    /\ requests[r].pc = "mfa"
    /\ IF LiveSession(requests[r].session) THEN Goto(r, "role") ELSE End(r)
    /\ UNCHANGED <<identity, policy, states, sessions, key, overlap>>

\* OwnerActor, the MFA gate: the session is read again.
MfaGate(r) ==
    LET s == requests[r].session IN
    /\ requests[r].pc = "mfa" /\ FreeConnection
    /\ IF LiveSession(s) /\ sessions[s].satisfied THEN Goto(r, "role") ELSE End(r)
    /\ UNCHANGED <<identity, policy, states, sessions, key, overlap>>

\* OwnerActor, the role gate: Owner or Admin of the organization.
RoleGate(r) ==
    /\ requests[r].pc = "role" /\ FreeConnection
    /\ IF roles[requests[r].org] = "admin"
       THEN requests' = [requests EXCEPT ![r] = [@ EXCEPT !.pc = "admitted", !.user = NoUser, !.org = "none"]]
       ELSE End(r)
    /\ UNCHANGED <<identity, policy, states, sessions, key, overlap>>

\* create_api_key and revoke_api_key, one transaction each.
BeginKey(r) ==
    /\ requests[r].op \in {"create_key", "revoke_key"} /\ requests[r].pc = "key"
    /\ FreeConnection /\ Goto(r, "write")
    /\ UNCHANGED <<identity, policy, states, sessions, key, overlap>>

WriteKey(r) ==
    /\ requests[r].op \in {"create_key", "revoke_key"} /\ requests[r].pc = "write" /\ End(r)
    /\ key' = CASE requests[r].op = "create_key" /\ key.state = "none"
                     -> [state |-> "live", org |-> requests[r].org]
                [] requests[r].op = "revoke_key" /\ key.state = "live"
                     -> [key EXCEPT !.state = "revoked"]
                [] OTHER -> key
    /\ UNCHANGED <<identity, policy, states, sessions, overlap>>

-----------------------------------------------------------------------------
Step(r) ==
    \/ AcquireTimeout(r) \/ Exchange(r) \/ Begin(r) \/ LookupIdentity(r)
    \/ UpsertIdentity(r) \/ ReadPolicy(r) \/ IssueSession(r)
    \/ WriteRole(r) \/ UpdateMember(r) \/ CommitRole(r)
    \/ Resolve(r) \/ ResolveOrganization(r) \/ MfaGate(r) \/ RoleGate(r)
    \/ BeginKey(r) \/ WriteKey(r)

SignInNext ==
    \/ \E i \in Login : Start(i)
    \/ \E r \in Request : Drop(r) \/ Consume(r) \/ ChangeRole(r) \/ Arrive(r) \/ Step(r)
    \/ \E s \in DOMAIN sessions : Logout(s) \/ MarkSatisfied(s)
    \/ ChangeEnrolment

SignInSpec == SignInInit /\ [][SignInNext]_signInVars

-----------------------------------------------------------------------------
\* upsert_identity: the sessions of an account are those of the user it is
\* linked to, unless first sign-ins of the account with two addresses raced.
SessionsFollowTheLink ==
    "identity" \notin overlap =>
        \A s \in DOMAIN sessions : sessions[s].user = links[sessions[s].account]

\* callback and OwnerActor: a session that was issued while the policy was due
\* all along enters an Owner/Admin route only after an assertion promoted it.
GateHolds ==
    "roles" \notin overlap =>
        \A r \in Request :
            LET s == requests[r].session IN
            (requests[r].pc = "admitted" /\ s # 0 /\ sessions[s].owed) => sessions[s].asserted

\* callback, update_role and the API keys: requests are never all waiting, for a row
\* another one has written or for a connection when the transactions of sign-ins, role
\* changes and keys have exhausted the pool.
SomeRequestMoves == (\E r \in Request : InFlight(r)) => \E r \in Request : ENABLED Step(r)

-----------------------------------------------------------------------------
(* The inductive invariant *)

RequestRow ==
    [op : {"none", "callback", "change", "owner", "create_key", "revoke_key"},
     pc : {"idle", "exchange", "begin", "lookup", "upsert", "policy", "issue", "write", "update",
           "commit", "resolve", "member", "mfa", "role", "key", "admitted", "over"},
     account : Account, user : Email \cup {NoUser}, session : Nat, bearer : BOOLEAN,
     org : Organization \cup {"none"}, role : Role, flag : BOOLEAN, locks : BOOLEAN, owed : BOOLEAN]
SessionRow == [user : Email, account : Account, satisfied : BOOLEAN, live : BOOLEAN, owed : BOOLEAN,
               asserted : BOOLEAN]

SignInTypeOK ==
    /\ links \in [Account -> Email \cup {NoUser}]
    /\ roles \in [Organization -> Role] /\ requires \in BOOLEAN /\ enrolled \in BOOLEAN
    /\ sessions \in Seq(SessionRow)
    /\ key \in [state : {"none", "live", "revoked"}, org : Organization \cup {"none"}]
    /\ requests \in [Request -> RequestRow]

\* A request's session exists, and past the MFA gate it is satisfied.
RequestInv(r) ==
    LET q == requests[r] IN
    /\ q.session <= Len(sessions)
    /\ q.pc \in {"policy", "issue"} => q.user \in Email
    /\ q.op = "change" /\ q.pc \in {"write", "update", "commit"} => q.org \in Organization
    /\ q.pc \in {"role", "admitted"} /\ q.session # 0 => sessions[q.session].satisfied

\* The transaction of r knows what its account is linked to: two of one account
\* are open only when the link is committed.
LinkInv(r) ==
    LET q == requests[r]
        u == links[q.account] IN
    InTransaction(r) =>
        /\ q.pc = "upsert" => u = NoUser
        /\ q.pc \in {"policy", "issue"} => u \in {NoUser, q.user}
        /\ \A p \in Request \ {r} : InTransaction(p) /\ requests[p].account = q.account => u # NoUser

\* The trigger computed what Member's roles will be, and a sign-in to which the
\* policy is owed has read, or will read, that it is due.
PolicyInv(r) ==
    LET q == requests[r] IN
    /\ RoleOpen(r) =>
         /\ q.flag = (q.role = "admin" \/ \E p \in Organization \ {q.org} : roles[p] = "admin")
         /\ q.locks = (q.flag # requires)
         /\ \A p \in Request \ {r} : ~RoleOpen(p)
    /\ At(r, "callback", "policy") /\ q.owed => q.user = Member /\ Due
    /\ At(r, "callback", "issue") /\ q.owed => q.flag

SignInInv ==
    /\ SignInTypeOK
    /\ \A r \in Request : RequestInv(r)
    /\ SessionsFollowTheLink
    /\ "identity" \notin overlap => \A r \in Request : LinkInv(r)
    /\ "roles" \notin overlap =>
         /\ requires = Administers
         /\ \A r \in Request : PolicyInv(r)
         /\ \A s \in DOMAIN sessions : sessions[s].owed /\ sessions[s].satisfied => sessions[s].asserted
=============================================================================
