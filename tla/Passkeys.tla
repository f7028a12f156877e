------------------------------ MODULE Passkeys ------------------------------
(***************************************************************************)
(* The second factor of one user who is Owner of their organizations: the  *)
(* rows of user_passkeys, users.mfa_enrolled, the WebAuthn ceremonies in   *)
(* flight, the recovery codes and the sessions they promote.  Requests run *)
(* concurrently against Postgres (READ COMMITTED) and can be dropped       *)
(* between two statements; what a transaction did before its commit is     *)
(* then undone.                                                            *)
(***************************************************************************)
EXTENDS Integers, Sequences, FiniteSets

CONSTANTS
    Credential,    \* WebAuthn credential ids of the user's authenticators
    Registered,    \* the credentials of the passkeys registered at the start
    Session,       \* the user's sessions, partial at the start
    MaxRequests,   \* bound: requests of the kinds below
    MaxCeremonies, \* bound: ceremonies started
    MaxCounter,    \* bound: sign counters of the authenticators
    BatchSize      \* recovery codes in a batch

ASSUME RegisteredAssumption == Registered \in Seq(Credential) /\ Registered # <<>>
ASSUME BoundsAssumption ==
    /\ MaxRequests \in Nat /\ MaxCeremonies \in Nat /\ MaxCounter \in Nat
    /\ BatchSize \in Nat \ {0}

VARIABLES
    passkeys,   \* the committed rows of user_passkeys, in the order of their ids
    enrolled,   \* users.mfa_enrolled
    ceremonies, \* webauthn_ceremonies
    codes,      \* mfa_recovery_codes
    sessions,   \* sessions: mfa_satisfied, and whether revoked_at is set
    requests,   \* the requests in flight and finished
    overlap     \* history: two transactions on user_passkeys were open at once

db == <<passkeys, enrolled, codes>>
vars == <<db, ceremonies, sessions, requests, overlap>>

Request == 1..MaxRequests
Ceremony == 1..MaxCeremonies
Counter == 0..MaxCounter
\* A recovery code: the request that generated its batch (0 at the start) and
\* its place in the batch.
Code == (0..MaxRequests) \X (1..BatchSize)

NoCeremony == [kind |-> "none", allowed |-> {}]

\* `row` is the passkey a request works on, `last` that it counted no other live
\* one, `proof` what it consumed, `doomed` the codes its DELETE saw.
Idle == [op |-> "none", pc |-> "idle", session |-> "none", ceremony |-> 0,
         credential |-> "none", counter |-> 0, row |-> 0,
         last |-> FALSE, code |-> <<>>, proof |-> <<>>, doomed |-> {}]

Live == {i \in DOMAIN passkeys : passkeys[i].live}

InFlight(r) == requests[r].pc \notin {"idle", "recorded", "over"}

Init ==
    /\ passkeys = [i \in DOMAIN Registered |->
         [credential |-> Registered[i], counter |-> 0, live |-> TRUE]]
    /\ enrolled = TRUE
    /\ ceremonies = [c \in Ceremony |-> NoCeremony]
    /\ codes = [k \in Code |-> IF k[1] = 0 THEN "live" ELSE "none"]
    /\ sessions = [s \in Session |-> [satisfied |-> FALSE, revoked |-> FALSE]]
    /\ requests = [r \in Request |-> Idle]
    /\ overlap = FALSE

-----------------------------------------------------------------------------
(* Sessions and requests *)

Resolves(s) == ~sessions[s].revoked

Logout(s) ==
    /\ Resolves(s)
    /\ sessions' = [sessions EXCEPT ![s].revoked = TRUE]
    /\ UNCHANGED <<db, ceremonies, requests, overlap>>

\* A request arrives with a live session (the Actor and SessionUser extractors).
\* Its argument is good when it arrives: one that is not is refused, as it is
\* when another request takes it first.
Accept(r, request) ==
    /\ requests[r].pc = "idle" /\ \A q \in 1..(r - 1) : requests[q].pc # "idle"
    /\ \E s \in Session : Resolves(s) /\ request.session \in {s, "none"}
    /\ requests' = [requests EXCEPT ![r] = request]
    /\ UNCHANGED <<db, ceremonies, sessions, overlap>>

At(r, pc) == requests[r].pc = pc

\* The next statement of request r, with what it keeps in its local variables.
Goto(r, pc) == requests' = [requests EXCEPT ![r].pc = pc]

\* The request is over; of its locals, those the properties are about are kept.
Remains(q) ==
    CASE q.op = "redeem" /\ q.proof # <<>> -> [q EXCEPT !.pc = "over", !.code = <<>>]
      [] q.op = "assert" /\ q.pc \in {"mark", "audit"} -> [q EXCEPT !.pc = "recorded"]
      [] OTHER -> [Idle EXCEPT !.pc = "over", !.proof = q.proof]

End(r) == requests' = [requests EXCEPT ![r] = Remains(@)]

\* Request r holds an uncommitted write to user_passkeys.
InTransaction(r) ==
    \/ requests[r].op = "register" /\ At(r, "commit")
    \/ requests[r].op = "revoke" /\ requests[r].pc \in {"count", "commit"}

\* Request r writes to user_passkeys in a transaction that stays open.
Begin(r) == overlap' = (overlap \/ \E q \in Request \ {r} : InTransaction(q))

\* The request times out, its client goes away or a statement fails: the open
\* transaction rolls back, what was committed stays.
Drop(r) ==
    /\ InFlight(r)
    /\ End(r)
    /\ UNCHANGED <<db, ceremonies, sessions, overlap>>

-----------------------------------------------------------------------------
(* Ceremonies *)

Unused(c) == ceremonies[c] = NoCeremony /\ \A d \in 1..(c - 1) : ceremonies[d] # NoCeremony

RegisterStart(c) ==
    /\ \E s \in Session : Resolves(s)
    /\ Unused(c)
    /\ ceremonies' = [ceremonies EXCEPT ![c].kind = "registration"]
    /\ UNCHANGED <<db, sessions, requests, overlap>>

\* Refused without a live passkey; the challenge names the live ones.
AssertStart(c) ==
    /\ \E s \in Session : Resolves(s)
    /\ Unused(c) /\ Live # {}
    /\ ceremonies' = [ceremonies EXCEPT ![c] =
         [kind |-> "assertion", allowed |-> {passkeys[i].credential : i \in Live}]]
    /\ UNCHANGED <<db, sessions, requests, overlap>>

\* Mutant of Take: the row is read, and deleted by a later job.
TakeWithoutDelete(r, kind, verified, next) ==
    LET c == requests[r].ceremony IN
    /\ At(r, "take")
    /\ \/ /\ ceremonies[c].kind # kind
          /\ End(r)
       \/ /\ ceremonies[c].kind = kind /\ verified
          /\ requests' = [requests EXCEPT ![r].pc = next,
                                          ![r].proof = <<"ceremony", c>>]
    /\ UNCHANGED <<db, ceremonies, sessions, overlap>>

\* CeremonyStore::take, DELETE ... RETURNING: a ceremony of another kind, or one
\* already taken, is not there.  `verified` is the library's verdict.
Take(r, kind, verified, next) ==
    LET c == requests[r].ceremony IN
    /\ At(r, "take")
    /\ \/ /\ ceremonies[c].kind # kind
          /\ End(r) /\ UNCHANGED ceremonies
       \/ /\ ceremonies[c].kind = kind
          /\ ceremonies' = [ceremonies EXCEPT ![c] = [kind |-> "gone", allowed |-> {}]]
          /\ \/ End(r)
             \/ /\ verified
                /\ requests' = [requests EXCEPT ![r].pc = next,
                                                ![r].proof = <<"ceremony", c>>]
    /\ UNCHANGED <<db, sessions, overlap>>

-----------------------------------------------------------------------------
(* POST /v1/auth/passkey/register/finish *)

RegisterFinish(r) ==
    \E c \in Ceremony, k \in Credential :
        /\ ceremonies[c].kind = "registration"
        /\ Accept(r, [Idle EXCEPT !.op = "register", !.pc = "take",
                                  !.ceremony = c, !.credential = k])

TakeRegistration(r) == requests[r].op = "register" /\ Take(r, "registration", TRUE, "insert")

\* Some open transaction revokes the live row of credential k, or inserts one.
Locked(k) ==
    \E q \in Request : InTransaction(q) /\ requests[q].credential = k

\* INSERT INTO user_passkeys: waits for an open transaction on the credential;
\* a live row of the credential violates the unique index.
InsertPasskey(r) ==
    LET k == requests[r].credential IN
    /\ At(r, "insert") /\ ~Locked(k)
    /\ \/ /\ \E i \in Live : passkeys[i].credential = k
          /\ End(r) /\ UNCHANGED overlap
       \/ /\ \A i \in Live : passkeys[i].credential # k
          /\ Goto(r, "commit") /\ Begin(r)
    /\ UNCHANGED <<db, ceremonies, sessions>>

\* Mutant of CommitPasskey: the flag is left to another transaction.
CommitPasskeyOnly(r) ==
    /\ requests[r].op = "register" /\ At(r, "commit")
    /\ passkeys' = Append(passkeys, [credential |-> requests[r].credential, counter |-> 0,
                                     live |-> TRUE])
    /\ requests' = [requests EXCEPT ![r].pc = "audit", ![r].row = Len(passkeys) + 1]
    /\ UNCHANGED <<enrolled, codes, ceremonies, sessions, overlap>>

\* UPDATE users SET mfa_enrolled = TRUE, and the commit.
CommitPasskey(r) ==
    /\ requests[r].op = "register" /\ At(r, "commit")
    /\ passkeys' = Append(passkeys, [credential |-> requests[r].credential, counter |-> 0,
                                     live |-> TRUE])
    /\ enrolled' = TRUE
    /\ requests' = [requests EXCEPT ![r].pc = "audit", ![r].row = Len(passkeys) + 1]
    /\ UNCHANGED <<codes, ceremonies, sessions, overlap>>

-----------------------------------------------------------------------------
(* POST /v1/auth/passkey/assert/finish *)

AssertFinish(r) ==
    \E s \in Session, c \in Ceremony, k \in Credential, n \in Counter :
        /\ ceremonies[c].kind = "assertion" /\ k \in ceremonies[c].allowed
        /\ Accept(r, [Idle EXCEPT !.op = "assert", !.pc = "find", !.session = s,
                                  !.ceremony = c, !.credential = k, !.counter = n])

FindPasskey(r) ==
    /\ At(r, "find")
    /\ \/ /\ \A i \in Live : passkeys[i].credential # requests[r].credential
          /\ End(r)
       \/ \E i \in Live :
             /\ passkeys[i].credential = requests[r].credential
             /\ requests' = [requests EXCEPT ![r].pc = "take", ![r].row = i]
    /\ UNCHANGED <<db, ceremonies, sessions, overlap>>

TakeAssertion(r) ==
    /\ requests[r].op = "assert"
    /\ Take(r, "assertion",
            requests[r].credential \in ceremonies[requests[r].ceremony].allowed, "record")

\* Mutant of Fresh: the counter may stay where it is.
FreshOrEqual(i, n) == passkeys[i].live /\ n >= passkeys[i].counter

\* The WHERE clause of record_use.
Fresh(i, n) == passkeys[i].live /\ (n > passkeys[i].counter \/ passkeys[i].counter = 0)

\* The UPDATE waits for a transaction that revokes the row.
RecordUse(r) ==
    LET i == requests[r].row
        n == requests[r].counter IN
    /\ At(r, "record") /\ ~Locked(passkeys[i].credential)
    /\ \/ /\ Fresh(i, n)
          /\ passkeys' = [passkeys EXCEPT ![i].counter = n]
          /\ Goto(r, "mark")
       \/ /\ ~Fresh(i, n)
          /\ End(r) /\ UNCHANGED passkeys
    /\ UNCHANGED <<enrolled, codes, ceremonies, sessions, overlap>>

\* mark_mfa_satisfied on the session of the request, unless it was revoked.
MarkSatisfied(r) ==
    /\ At(r, "mark")
    /\ sessions' = [sessions EXCEPT ![requests[r].session].satisfied = @ \/ Resolves(requests[r].session)]
    /\ Goto(r, "audit")
    /\ UNCHANGED <<db, ceremonies, overlap>>

-----------------------------------------------------------------------------
(* DELETE /v1/auth/passkey/:id *)

Revoke(r) ==
    \E i \in Live :
        Accept(r, [Idle EXCEPT !.op = "revoke", !.pc = "update",
                               !.row = i, !.credential = passkeys[i].credential])

\* UPDATE user_passkeys SET revoked_at: waits for another revocation of the row.
RevokeUpdate(r) ==
    LET i == requests[r].row IN
    /\ At(r, "update") /\ ~Locked(requests[r].credential)
    /\ \/ /\ ~passkeys[i].live
          /\ End(r) /\ UNCHANGED overlap
       \/ /\ passkeys[i].live
          /\ Goto(r, "count") /\ Begin(r)
    /\ UNCHANGED <<db, ceremonies, sessions>>

\* SELECT COUNT(*) sees the committed rows and its own revocation.
RevokeCount(r) ==
    /\ At(r, "count")
    /\ requests' = [requests EXCEPT ![r].pc = "commit", ![r].last = (Live = {requests[r].row})]
    /\ UNCHANGED <<db, ceremonies, sessions, overlap>>

\* mfa_enrolled is cleared when nothing was left, and the commit.
RevokeCommit(r) ==
    /\ requests[r].op = "revoke" /\ At(r, "commit")
    /\ passkeys' = [passkeys EXCEPT ![requests[r].row].live = FALSE]
    /\ enrolled' = (enrolled /\ ~requests[r].last)
    /\ Goto(r, "audit")
    /\ UNCHANGED <<codes, ceremonies, sessions, overlap>>

-----------------------------------------------------------------------------
(* Recovery codes *)

Regenerate(r) ==
    Accept(r, [Idle EXCEPT !.op = "rotate", !.pc = "delete"])

\* DELETE FROM mfa_recovery_codes: the rows its snapshot sees.
RotateDelete(r) ==
    /\ At(r, "delete")
    /\ requests' = [requests EXCEPT ![r].pc = "commit",
                                    ![r].doomed = {k \in Code : codes[k] # "none"}]
    /\ UNCHANGED <<db, ceremonies, sessions, overlap>>

\* The INSERTs of the new batch, and the commit.
RotateCommit(r) ==
    /\ requests[r].op = "rotate" /\ At(r, "commit")
    /\ codes' = [k \in Code |-> IF k[1] = r THEN "live"
                               ELSE IF k \in requests[r].doomed THEN "none" ELSE codes[k]]
    /\ requests' = [requests EXCEPT ![r].pc = "audit", ![r].doomed = {}]
    /\ UNCHANGED <<passkeys, enrolled, ceremonies, sessions, overlap>>

\* The user types a code they were shown.
Redeem(r) ==
    \E s \in Session, k \in Code :
        /\ codes[k] = "live"
        /\ Accept(r, [Idle EXCEPT !.op = "redeem", !.pc = "consume", !.session = s, !.code = k])

\* try_consume; it waits for a transaction that deletes the code.
TryConsume(r) ==
    LET k == requests[r].code IN
    /\ At(r, "consume") /\ \A q \in Request : InFlight(q) => k \notin requests[q].doomed
    /\ \/ /\ codes[k] = "live"
          /\ codes' = [codes EXCEPT ![k] = "used"]
          /\ requests' = [requests EXCEPT ![r].pc = "mark", ![r].proof = <<"code", k>>]
       \/ /\ codes[k] # "live"
          /\ Goto(r, "denied")
          /\ UNCHANGED codes
    /\ UNCHANGED <<passkeys, enrolled, ceremonies, sessions, overlap>>

-----------------------------------------------------------------------------
(* The audit rows *)

\* The request appends its audit rows and answers: with success, or with 403 for
\* a code that did not work.
Answer(r) ==
    /\ requests[r].pc \in {"audit", "denied"}
    /\ End(r)
    /\ UNCHANGED <<db, ceremonies, sessions, overlap>>

Register(r) ==
    \/ RegisterFinish(r) \/ TakeRegistration(r)
    \/ InsertPasskey(r) \/ CommitPasskey(r)

Assertion(r) ==
    AssertFinish(r) \/ FindPasskey(r) \/ TakeAssertion(r) \/ RecordUse(r) \/ MarkSatisfied(r)

Revocation(r) == Revoke(r) \/ RevokeUpdate(r) \/ RevokeCount(r) \/ RevokeCommit(r)

Recovery(r) ==
    Regenerate(r) \/ RotateDelete(r) \/ RotateCommit(r) \/ Redeem(r) \/ TryConsume(r)

Next ==
    \/ \E s \in Session : Logout(s)
    \/ \E c \in Ceremony : RegisterStart(c) \/ AssertStart(c)
    \/ \E r \in Request :
         \/ Register(r) \/ Assertion(r) \/ Revocation(r) \/ Recovery(r)
         \/ Answer(r) \/ Drop(r)

Spec == Init /\ [][Next]_vars

-----------------------------------------------------------------------------
\* mfa_enrolled says whether the user has a live passkey, whatever was dropped or
\* crashed in between, as long as no two transactions on the user's passkeys
\* were open at once.
EnrolledTracksPasskeys == ~overlap => (enrolled <=> Live # {})

\* take, try_consume and mark_mfa_satisfied: a promoted session was promoted by a
\* request of its own, not of another session of the user, that had consumed a
\* ceremony or a recovery code no other request consumed: of two finish calls or
\* two redeems in flight, one wins.
PromotedByOwnProof ==
    \A s \in Session : sessions[s].satisfied =>
        \E r \in Request :
            /\ requests[r].session = s /\ requests[r].proof # <<>>
            /\ \A q \in Request \ {r} : requests[q].proof # requests[r].proof

\* Request r's assertion was recorded by record_use.
Recorded(r) ==
    /\ requests[r].op = "assert"
    /\ requests[r].pc \in {"mark", "audit", "recorded"}

\* No two recorded assertions of one passkey have the same counter, unless the
\* authenticator has none: of two answers of a cloned authenticator one fails.
CountersNeverRepeat ==
    \A q, r \in Request :
        q # r /\ Recorded(q) /\ Recorded(r) /\ requests[q].row = requests[r].row
            => requests[q].counter # requests[r].counter \/ requests[q].counter = 0

-----------------------------------------------------------------------------
(* The inductive invariant behind the three properties above. *)

Proof == {<<"ceremony", c>> : c \in Ceremony} \cup {<<"code", k>> : k \in Code}

PasskeyRow == [credential : Credential, counter : Nat, live : BOOLEAN]
RequestRow ==
    [op : {"none", "register", "assert", "revoke", "rotate", "redeem"},
     pc : {"idle", "take", "insert", "find", "record", "mark", "update", "count", "delete",
           "consume", "denied", "commit", "audit", "recorded", "over"},
     session : Session \cup {"none"}, ceremony : Ceremony \cup {0},
     credential : Credential \cup {"none"}, counter : Nat, row : Nat, last : BOOLEAN,
     code : Code \cup {<<>>}, proof : Proof \cup {<<>>}, doomed : SUBSET Code]

TypeOK ==
    /\ passkeys \in Seq(PasskeyRow)
    /\ enrolled \in BOOLEAN
    /\ ceremonies \in [Ceremony -> [kind : {"none", "registration", "assertion", "gone"},
                                    allowed : SUBSET Credential]]
    /\ codes \in [Code -> {"none", "live", "used"}]
    /\ sessions \in [Session -> [satisfied : BOOLEAN, revoked : BOOLEAN]]
    /\ requests \in [Request -> RequestRow]
    /\ overlap \in BOOLEAN

\* Which statements the requests of a kind have.
PcFitsOp(q) ==
    /\ q.op = "none" => q.pc \in {"idle", "over"}
    /\ q.op = "register" => q.pc \in {"take", "insert", "commit", "audit"}
    /\ q.op = "assert" => q.pc \in {"find", "take", "record", "mark", "audit", "recorded"}
    /\ q.op = "revoke" => q.pc \in {"update", "count", "commit", "audit"}
    /\ q.op = "rotate" => q.pc \in {"delete", "commit", "audit"}
    /\ q.op = "redeem" => q.pc \in {"consume", "mark", "denied", "audit", "over"}

\* The codes of batch r are still to be written, if ever.
Unwritten(r) ==
    \/ requests[r].pc = "idle"
    \/ requests[r].op = "rotate" /\ requests[r].pc \in {"delete", "commit"}

\* What a request holds is there: a ceremony, a row, a proof spent for good.
ReqInv(r) ==
    LET q == requests[r] IN
    /\ PcFitsOp(q)
    /\ q.op = "register" => q.credential \in Credential
    /\ q.pc \in {"find", "take"} => q.ceremony \in Ceremony
    /\ q.op \in {"assert", "redeem"} => q.session \in Session
    /\ q.op = "revoke" \/ (q.op = "assert" /\ q.pc # "find") => q.row \in DOMAIN passkeys
    /\ q.op = "revoke" => q.credential = passkeys[q.row].credential
    /\ Recorded(r) => q.counter <= passkeys[q.row].counter
    /\ q.pc \in {"record", "mark", "recorded"} => q.proof # <<>>
    /\ q.op \in {"assert", "redeem"} /\ q.pc \in {"audit", "over"} => q.proof # <<>>
    /\ q.pc \in {"idle", "find", "update", "count", "delete", "consume"} => q.proof = <<>>
    /\ q.pc = "consume" => q.code \in Code
    /\ \A c \in Ceremony : q.proof = <<"ceremony", c>> => ceremonies[c].kind = "gone"
    /\ \A k \in Code : q.proof = <<"code", k>> => codes[k] # "live"
    /\ Unwritten(r) => \A k \in Code : k[1] = r => codes[k] = "none"
                        /\ \A p \in Request : requests[p].proof # <<"code", k>>

\* No proof is spent by two requests.
ProofsDiffer ==
    \A q, r \in Request : q # r /\ requests[r].proof # <<>> => requests[q].proof # requests[r].proof

\* Request r may have promoted its session.
Promoter(r) ==
    \/ requests[r].op = "redeem" /\ requests[r].pc \in {"audit", "over"}
    \/ requests[r].op = "assert" /\ requests[r].pc \in {"audit", "recorded"}

\* What holds as long as no transactions on user_passkeys overlapped: the one that
\* is open revokes a live row, and its count is what its commit will leave.
SerialInv ==
    /\ \A q, r \in Request : InTransaction(q) /\ InTransaction(r) => q = r
    /\ \A r \in Request : InTransaction(r) /\ requests[r].op = "revoke" => requests[r].row \in Live
    /\ \A r \in Request : At(r, "commit") /\ requests[r].op = "revoke"
                             => (requests[r].last <=> Live = {requests[r].row})
    /\ enrolled <=> Live # {}

Inv ==
    /\ TypeOK /\ ProofsDiffer /\ CountersNeverRepeat
    /\ \A r \in Request : ReqInv(r)
    /\ \A s \in Session : sessions[s].satisfied =>
         \E r \in Request : requests[r].session = s /\ Promoter(r)
    /\ ~overlap => SerialInv
=============================================================================
