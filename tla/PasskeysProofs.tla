--------------------------- MODULE PasskeysProofs ---------------------------
(***************************************************************************)
(* Passkeys, for any credentials, sessions and numbers of requests: Inv is *)
(* inductive, from which the flag mfa_enrolled, the proofs behind promoted *)
(* sessions and the sign counters follow.                                  *)
(***************************************************************************)
EXTENDS Passkeys, SequenceTheorems, TLAPS

\* ReqInv in parts: what a request works on, the proof it has spent, and the codes it
\* may still write.
Holds(r) ==
    LET q == requests[r] IN
    /\ q.op = "register" => q.credential \in Credential
    /\ q.pc \in {"find", "take"} => q.ceremony \in Ceremony
    /\ q.op \in {"assert", "redeem"} => q.session \in Session
    /\ q.op = "revoke" \/ (q.op = "assert" /\ q.pc # "find") => q.row \in DOMAIN passkeys
    /\ q.op = "revoke" => q.credential = passkeys[q.row].credential
    /\ Recorded(r) => q.counter <= passkeys[q.row].counter
    /\ q.pc = "consume" => q.code \in Code
Spent(r) ==
    LET q == requests[r] IN
    /\ q.pc \in {"record", "mark", "recorded"} => q.proof # <<>>
    /\ q.op \in {"assert", "redeem"} /\ q.pc \in {"audit", "over"} => q.proof # <<>>
    /\ q.pc \in {"idle", "find", "update", "count", "delete", "consume"} => q.proof = <<>>
    /\ \A c \in Ceremony : q.proof = <<"ceremony", c>> => ceremonies[c].kind = "gone"
    /\ \A k \in Code : q.proof = <<"code", k>> => codes[k] # "live"
Batch(r) ==
    Unwritten(r) => \A k \in Code : k[1] = r => codes[k] = "none"
                     /\ \A p \in Request : requests[p].proof # <<"code", k>>

\* The parts make up ReqInv.
LEMMA ReqParts ==
  ASSUME NEW r \in Request
  PROVE  /\ ReqInv(r) => PcFitsOp(requests[r]) /\ Holds(r) /\ Spent(r) /\ Batch(r)
         /\ PcFitsOp(requests'[r]) /\ Holds(r)' /\ Spent(r)' /\ Batch(r)' => ReqInv(r)'
         /\ ~Unwritten(r)' => Batch(r)'
  <1>1. ReqInv(r) => PcFitsOp(requests[r]) /\ Holds(r) /\ Spent(r) /\ Batch(r)
    BY Zenon DEF ReqInv, Holds, Spent, Batch
  <1>2. PcFitsOp(requests'[r]) /\ Holds(r)' /\ Spent(r)' /\ Batch(r)' => ReqInv(r)'
    BY Zenon DEF ReqInv, Holds, Spent, Batch
  <1>3. ~Unwritten(r)' => Batch(r)'
    BY DEF Batch
  <1> QED BY <1>1, <1>2, <1>3

-----------------------------------------------------------------------------
(* Inv is inductive. *)

\* No request holds anything at the start, and the registered passkeys are live.
LEMMA InitInv == Init => Inv
  <1> SUFFICES ASSUME Init PROVE Inv
    OBVIOUS
  <1>1. Idle \in RequestRow /\ Idle.proof = <<>> /\ Idle.op = "none" /\ Idle.pc = "idle"
    BY DEF Idle, RequestRow
  <1>2. requests \in [Request -> RequestRow] /\ \A r \in Request : requests[r] = Idle
    BY <1>1 DEF Init
  <1>3. passkeys \in Seq(PasskeyRow)
    <2>1. Len(Registered) \in Nat /\ DOMAIN Registered = 1..Len(Registered)
          /\ \A i \in 1..Len(Registered) : Registered[i] \in Credential
      BY RegisteredAssumption
    <2>2. passkeys \in [1..Len(Registered) -> PasskeyRow]
      BY <2>1 DEF Init, PasskeyRow
    <2> QED BY <2>1, <2>2, SeqDef
  <1>4. codes \in [Code -> {"none", "live", "used"}]
    BY DEF Init
  <1>5. TypeOK
    BY <1>2, <1>3, <1>4, Zenon DEF Init, TypeOK, NoCeremony
  <1>6. \A r \in Request : ~InTransaction(r) /\ ~Recorded(r) /\ ~At(r, "commit")
    BY <1>1, <1>2 DEF InTransaction, Recorded, At
  <1>7. ProofsDiffer /\ CountersNeverRepeat
    BY <1>1, <1>2, <1>6 DEF ProofsDiffer, CountersNeverRepeat
  <1>8. ASSUME NEW r \in Request PROVE ReqInv(r)
    <2>1. \A k \in Code : k[1] = r => codes[k] = "none"
      BY DEF Init, Request
    <2>2. \A c \in Ceremony : <<>> # <<"ceremony", c>>
      OBVIOUS
    <2>3. \A k \in Code : <<>> # <<"code", k>>
      OBVIOUS
    <2> QED BY <1>1, <1>2, <1>6, <2>1, <2>2, <2>3 DEF ReqInv, PcFitsOp, Unwritten
  <1>9. SerialInv
    <2>1. 1 \in Live
      BY RegisteredAssumption DEF Init, Live
    <2> QED BY <1>6, <2>1 DEF Init, SerialInv
  <1> QED BY <1>5, <1>7, <1>8, <1>9 DEF Init, Inv

\* The rows of user_passkeys have ids 1, 2, and so on.
LEMMA PasskeyRows ==
  ASSUME NEW rows \in Seq(PasskeyRow)
  PROVE  /\ Len(rows) \in Nat /\ DOMAIN rows = 1..Len(rows)
         /\ \A i \in DOMAIN rows : /\ rows[i] \in PasskeyRow
                                   /\ rows[i].credential \in Credential
                                   /\ rows[i].counter \in Nat /\ rows[i].live \in BOOLEAN
  <1>1. Len(rows) \in Nat /\ DOMAIN rows = 1..Len(rows)
    BY LenProperties
  <1>2. \A i \in DOMAIN rows : rows[i] \in PasskeyRow
    BY <1>1, ElementOfSeq
  <1> QED BY <1>1, <1>2 DEF PasskeyRow

\* What a step of request r may do to the tables: passkeys keep their credential
\* and their counters grow, a ceremony taken stays taken, and codes appear only in
\* the batch of r.
Frame(r) ==
    /\ \A i \in DOMAIN passkeys : /\ i \in DOMAIN passkeys'
                                  /\ passkeys'[i].credential = passkeys[i].credential
                                  /\ passkeys'[i].counter >= passkeys[i].counter
    /\ \A c \in Ceremony : ceremonies[c].kind = "gone" => ceremonies'[c].kind = "gone"
    /\ \A k \in Code : \/ k[1] = r /\ Unwritten(r) /\ ~Unwritten(r)'
                       \/ /\ codes[k] # "live" => codes'[k] # "live"
                          /\ codes[k] = "none" => codes'[k] = "none"

\* A request keeps what it holds through a step of another one that spends no
\* proof it has spent, nor a code of its batch.
LEMMA RequestKept ==
  ASSUME Inv, TypeOK', NEW r \in Request, NEW q \in Request, q # r, Frame(r),
         \A p \in Request \ {r} : requests'[p] = requests[p],
         \/ requests'[r].proof = requests[r].proof
         \/ \A k \in Code : requests'[r].proof = <<"code", k>> => codes[k] = "live"
  PROVE  ReqInv(q)'
  <1>1. ReqInv(q) /\ requests'[q] = requests[q] /\ TypeOK /\ requests[q] \in RequestRow
    BY DEF Inv, TypeOK
  <1>2. (Unwritten(q)' <=> Unwritten(q)) /\ (Recorded(q)' <=> Recorded(q))
    BY <1>1 DEF Unwritten, Recorded
  <1>3. Recorded(q) => requests[q].row \in DOMAIN passkeys
    BY <1>1 DEF ReqInv, Recorded
  <1>4. Recorded(q) => requests[q].counter <= passkeys'[requests[q].row].counter
    <2>1. \A i \in DOMAIN passkeys : passkeys[i].counter \in Nat
      BY <1>1, PasskeyRows DEF TypeOK
    <2>2. \A i \in DOMAIN passkeys' : passkeys'[i].counter \in Nat
      BY PasskeyRows DEF TypeOK
    <2> QED BY <1>1, <1>3, <2>1, <2>2 DEF ReqInv, Frame, RequestRow
  <1>5. \A c \in Ceremony : requests[q].proof = <<"ceremony", c>> => ceremonies'[c].kind = "gone"
    BY <1>1, Zenon DEF ReqInv, Frame
  <1>6. \A k \in Code : requests[q].proof = <<"code", k>> => codes'[k] # "live"
    BY <1>1 DEF ReqInv, Frame, Inv
  <1>7. ASSUME Unwritten(q), NEW k \in Code, k[1] = q
        PROVE  codes'[k] = "none" /\ \A p \in Request : requests'[p].proof # <<"code", k>>
    <2>1. codes[k] = "none" /\ \A p \in Request : requests[p].proof # <<"code", k>>
      BY <1>1, <1>7 DEF ReqInv
    <2>2. codes'[k] = "none"
      BY <1>7, <2>1 DEF Frame
    <2>3. requests'[r].proof # <<"code", k>>
      BY <2>1
    <2> QED BY <2>1, <2>2, <2>3, Zenon
  <1> QED BY <1>1, <1>2, <1>3, <1>4, <1>5, <1>6, <1>7, SMTT(30) DEF ReqInv, Frame

\* What a step of request r must respect to keep Inv: a proof it spends is spent
\* by nobody yet, a session that becomes promoted is its own, the counter it
\* records is new, and the serial part holds when nothing overlaps.
LEMMA RequestStep ==
  ASSUME Inv, TypeOK', NEW r \in Request, Frame(r), ReqInv(r)',
         \A p \in Request \ {r} : requests'[p] = requests[p],
         \/ requests'[r].proof = requests[r].proof
         \/ /\ \A k \in Code : requests'[r].proof = <<"code", k>> => codes[k] = "live"
            /\ \A p \in Request : requests[p].proof # requests'[r].proof,
         Promoter(r) => Promoter(r)' /\ requests'[r].session = requests[r].session,
         \A s \in Session : sessions'[s].satisfied =>
            sessions[s].satisfied \/ (requests'[r].session = s /\ Promoter(r)'),
         Recorded(r)' =>
            \/ /\ Recorded(r) /\ requests'[r].row = requests[r].row
               /\ requests'[r].counter = requests[r].counter
            \/ \A p \in Request \ {r} :
                 Recorded(p) /\ requests[p].row = requests'[r].row =>
                    \/ requests[p].counter # requests'[r].counter
                    \/ requests[p].counter = 0 /\ requests'[r].counter = 0,
         ~overlap' => SerialInv'
  PROVE  Inv'
  <1>1. \A q \in Request : ReqInv(q)'
    BY RequestKept
  <1>2. ProofsDiffer'
    BY DEF Inv, ProofsDiffer
  <1>3. \A p \in Request \ {r} : /\ Recorded(p)' <=> Recorded(p)
                                 /\ Promoter(p)' <=> Promoter(p)
    BY DEF Recorded, Promoter
  <1>4. CountersNeverRepeat'
    BY <1>3 DEF Inv, CountersNeverRepeat
  <1>5. ASSUME NEW s \in Session, sessions'[s].satisfied
        PROVE  \E p \in Request : requests'[p].session = s /\ Promoter(p)'
    <2>1. CASE sessions[s].satisfied
      <3>1. PICK p \in Request : requests[p].session = s /\ Promoter(p)
        BY <2>1 DEF Inv
      <3> QED BY <1>3, <3>1
    <2>2. CASE ~sessions[s].satisfied
      BY <1>5, <2>2
    <2> QED BY <2>1, <2>2
  <1> QED BY <1>1, <1>2, <1>4, <1>5 DEF Inv

\* The serial part is kept by a step of a request that leaves the live rows and
\* the flag alone and has no transaction open after it.
LEMMA SerialKept ==
  ASSUME Inv, NEW r \in Request, \A p \in Request \ {r} : requests'[p] = requests[p],
         ~InTransaction(r)', Live' = Live, enrolled' = enrolled, ~overlap' => ~overlap
  PROVE  ~overlap' => SerialInv'
  <1> SUFFICES ASSUME ~overlap' PROVE SerialInv'
    OBVIOUS
  <1>1. SerialInv
    BY DEF Inv
  <1>2. \A p \in Request \ {r} : (InTransaction(p)' <=> InTransaction(p)) /\ (At(p, "commit")' <=> At(p, "commit"))
    BY DEF InTransaction, At
  <1>3. ~(At(r, "commit")' /\ requests'[r].op = "revoke")
    BY DEF InTransaction, At
  <1> QED BY <1>1, <1>2, <1>3 DEF SerialInv

\* A step of request r that leaves the rows of passkeys, codes and sessions alone,
\* and keeps the serial part.
LEMMA LocalStep ==
  ASSUME Inv, TypeOK', NEW r \in Request, ReqInv(r)',
         UNCHANGED <<passkeys, enrolled, codes, sessions>>,
         \A c \in Ceremony : ceremonies[c].kind = "gone" => ceremonies'[c].kind = "gone",
         \A p \in Request \ {r} : requests'[p] = requests[p],
         \/ requests'[r].proof = requests[r].proof
         \/ \E c \in Ceremony : requests'[r].proof = <<"ceremony", c>> /\ ceremonies[c].kind # "gone",
         Promoter(r) => Promoter(r)' /\ requests'[r].session = requests[r].session,
         Recorded(r)' => /\ Recorded(r) /\ requests'[r].row = requests[r].row
                         /\ requests'[r].counter = requests[r].counter,
         ~overlap' => SerialInv'
  PROVE  Inv'
  <1>1. TypeOK /\ \A q \in Request : ReqInv(q)
    BY DEF Inv
  <1>2. Frame(r)
    BY <1>1, PasskeyRows DEF Frame, TypeOK
  <1>3. \/ requests'[r].proof = requests[r].proof
        \/ /\ \A k \in Code : requests'[r].proof = <<"code", k>> => codes[k] = "live"
           /\ \A p \in Request : requests[p].proof # requests'[r].proof
    BY <1>1, SMTT(30) DEF ReqInv
  <1> QED BY <1>2, <1>3, RequestStep

\* The same for a step after which request r has no transaction open.
LEMMA QuietStep ==
  ASSUME Inv, TypeOK', NEW r \in Request, ReqInv(r)', ~InTransaction(r)',
         UNCHANGED <<passkeys, enrolled, codes, sessions, overlap>>,
         \A c \in Ceremony : ceremonies[c].kind = "gone" => ceremonies'[c].kind = "gone",
         \A p \in Request \ {r} : requests'[p] = requests[p],
         \/ requests'[r].proof = requests[r].proof
         \/ \E c \in Ceremony : requests'[r].proof = <<"ceremony", c>> /\ ceremonies[c].kind # "gone",
         Promoter(r) => Promoter(r)' /\ requests'[r].session = requests[r].session,
         Recorded(r)' => /\ Recorded(r) /\ requests'[r].row = requests[r].row
                         /\ requests'[r].counter = requests[r].counter
  PROVE  Inv'
  <1>1. Live' = Live
    BY Zenon DEF Live
  <1>2. ~overlap' => SerialInv'
    BY <1>1, SerialKept
  <1> QED BY <1>2, LocalStep, Zenon

\* What is left of a request that is over.
LEMMA Remainder ==
  ASSUME NEW q \in RequestRow
  PROVE  /\ Remains(q) \in RequestRow /\ Remains(q).proof = q.proof
         /\ \/ /\ Remains(q).op = "none" /\ Remains(q).pc = "over"
               /\ ~(q.op = "redeem" /\ q.proof # <<>>) /\ ~(q.op = "assert" /\ q.pc \in {"mark", "audit"})
            \/ /\ q.op = "redeem" /\ q.proof # <<>> /\ Remains(q).op = "redeem" /\ Remains(q).pc = "over"
               /\ Remains(q).session = q.session
            \/ /\ q.op = "assert" /\ q.pc \in {"mark", "audit"}
               /\ Remains(q).op = "assert" /\ Remains(q).pc = "recorded"
               /\ Remains(q).session = q.session /\ Remains(q).row = q.row /\ Remains(q).counter = q.counter
  <1>1. CASE q.op = "redeem" /\ q.proof # <<>>
    <2>1. Remains(q) = [q EXCEPT !.pc = "over", !.code = <<>>]
      BY <1>1 DEF Remains
    <2> QED BY <1>1, <2>1, Zenon DEF RequestRow
  <1>2. CASE q.op = "assert" /\ q.pc \in {"mark", "audit"}
    <2>1. Remains(q) = [q EXCEPT !.pc = "recorded"]
      BY <1>2 DEF Remains
    <2> QED BY <1>2, <2>1 DEF RequestRow
  <1>3. CASE ~(q.op = "redeem" /\ q.proof # <<>>) /\ ~(q.op = "assert" /\ q.pc \in {"mark", "audit"})
    <2>1. Remains(q) = [Idle EXCEPT !.pc = "over", !.proof = q.proof]
      BY <1>3 DEF Remains
    <2>2. Idle \in RequestRow /\ Idle.op = "none"
      BY DEF Idle, RequestRow
    <2>3. Remains(q) \in RequestRow
      BY <2>1, <2>2, ZenonT(30) DEF RequestRow
    <2>4. Remains(q).proof = q.proof /\ Remains(q).op = "none" /\ Remains(q).pc = "over"
      BY <2>1, <2>2 DEF RequestRow
    <2> QED BY <1>3, <2>3, <2>4
  <1> QED BY <1>1, <1>2, <1>3

\* A request that ends, by an answer, an error or a drop, keeps Inv.
LEMMA EndStep ==
  ASSUME Inv, NEW r \in Request, InFlight(r), End(r),
         UNCHANGED <<passkeys, enrolled, codes, sessions, overlap>>,
         ceremonies' \in [Ceremony -> [kind : {"none", "registration", "assertion", "gone"},
                                      allowed : SUBSET Credential]],
         \A c \in Ceremony : ceremonies[c].kind = "gone" => ceremonies'[c].kind = "gone"
  PROVE  Inv'
  <1> DEFINE q == requests[r]
             x == Remains(q)
  <1>1. requests \in [Request -> RequestRow] /\ q \in RequestRow /\ ReqInv(r) /\ TypeOK
    BY DEF Inv, TypeOK
  <1>2. requests' = [requests EXCEPT ![r] = x]
    BY DEF End
  <1>3. x \in RequestRow /\ x.proof = q.proof
    BY <1>1, Remainder
  <1>4. requests'[r] = x /\ \A p \in Request \ {r} : requests'[p] = requests[p]
    BY <1>1, <1>2
  <1>5. TypeOK'
    BY <1>1, <1>2, <1>3 DEF TypeOK
  <1>6. Promoter(r) => Promoter(r)' /\ x.session = q.session
    <2>1. CASE q.op = "redeem" /\ q.pc \in {"audit", "over"}
      <3>1. q.proof # <<>>
        BY <1>1, <2>1 DEF ReqInv
      <3>2. x.op = "redeem" /\ x.pc = "over" /\ x.session = q.session
        BY <1>1, <2>1, <3>1, Remainder
      <3> QED BY <1>4, <3>2 DEF Promoter
    <2>2. CASE q.op = "assert" /\ q.pc = "audit"
      <3>1. x.op = "assert" /\ x.pc = "recorded" /\ x.session = q.session
        BY <1>1, <2>2, Remainder
      <3> QED BY <1>4, <3>1 DEF Promoter
    <2> QED BY <2>1, <2>2 DEF Promoter, InFlight
  <1>7. Recorded(r)' => Recorded(r) /\ x.row = q.row /\ x.counter = q.counter
    BY <1>1, <1>4, Remainder DEF Recorded
  <1>8. ~InTransaction(r)' /\ ~Unwritten(r)'
    BY <1>1, <1>4, Remainder, ZenonT(30) DEF InTransaction, At, Unwritten
  <1>9. ReqInv(r)'
    <2>1. PcFitsOp(x) /\ x.op \in {"none", "redeem", "assert"} /\ x.pc \in {"over", "recorded"}
      BY <1>1, Remainder, Zenon DEF PcFitsOp
    <2>2. x.op \in {"assert", "redeem"} => x.op = q.op /\ x.session = q.session /\ q.proof # <<>>
      BY <1>1, Remainder DEF ReqInv
    <2>3. x.pc = "recorded" => Recorded(r) /\ q.pc \in {"mark", "audit"} /\ x.row = q.row /\ x.counter = q.counter
      BY <1>1, Remainder DEF Recorded
    <2>4. Recorded(r)' <=> x.op = "assert"
      BY <1>1, <1>4, Remainder DEF Recorded
    <2>5. x.op = "assert" => x.pc = "recorded"
      BY <1>1, Remainder
    <2>6. x.op = "none" => x.pc = "over"
      BY <1>1, Remainder, Zenon
    <2> HIDE DEF x
    <2> QED BY <1>1, <1>3, <1>4, <1>8, <2>1, <2>2, <2>3, <2>4, <2>5, <2>6, ZenonT(30) DEF ReqInv
  <1> HIDE DEF x
  <1> QED BY <1>3, <1>4, <1>5, <1>6, <1>7, <1>8, <1>9, QuietStep, Zenon

\* A request is accepted with arguments that are good, and holds nothing yet.
LEMMA AcceptStep ==
  ASSUME Inv, NEW r \in Request, NEW q \in RequestRow, Accept(r, q), PcFitsOp(q),
         q.op # "none", q.pc \in {"take", "find", "update", "delete", "consume"}, q.proof = <<>>,
         q.op = "register" => q.credential \in Credential /\ q.ceremony \in Ceremony,
         q.op = "assert" => q.pc = "find" /\ q.ceremony \in Ceremony,
         q.op \in {"assert", "redeem"} => q.session \in Session,
         q.op = "revoke" => q.row \in DOMAIN passkeys /\ q.credential = passkeys[q.row].credential,
         q.pc = "consume" => q.code \in Code
  PROVE  Inv'
  <1>1. requests \in [Request -> RequestRow] /\ ReqInv(r) /\ TypeOK
    BY DEF Inv, TypeOK
  <1>2. requests' = [requests EXCEPT ![r] = q] /\ requests[r].pc = "idle"
        /\ UNCHANGED <<passkeys, enrolled, codes, sessions, ceremonies, overlap>>
    BY DEF Accept, db
  <1>3. requests'[r] = q /\ \A p \in Request \ {r} : requests'[p] = requests[p]
    BY <1>1, <1>2
  <1>4. TypeOK'
    BY <1>1, <1>2, Zenon DEF TypeOK
  <1>5. ~InTransaction(r)' /\ ~Recorded(r)' /\ Unwritten(r) /\ requests[r].proof = <<>> /\ ~Promoter(r)
    BY <1>1, <1>2, <1>3, Zenon DEF InTransaction, At, Recorded, Unwritten, ReqInv, PcFitsOp, Promoter
  <1>6. \A p \in Request : requests'[p].proof = requests[p].proof
    BY <1>3, <1>5
  <1>7. ReqInv(r)'
    <2>1. (\A c \in Ceremony : q.proof # <<"ceremony", c>>) /\ (\A k \in Code : q.proof # <<"code", k>>)
      OBVIOUS
    <2>2. Unwritten(r)' => \A k \in Code : k[1] = r => codes'[k] = "none"
                            /\ \A p \in Request : requests'[p].proof # <<"code", k>>
      BY <1>1, <1>2, <1>5, <1>6, SMTT(30) DEF ReqInv
    <2>3. q.op \in {"register", "assert", "revoke", "rotate", "redeem"}
      BY DEF RequestRow
    <2>4. q.pc \in {"find", "take"} => q.ceremony \in Ceremony
      BY <2>3 DEF PcFitsOp
    <2> QED BY <1>2, <1>3, <1>5, <2>1, <2>2, <2>4, Zenon DEF ReqInv
  <1> QED BY <1>2, <1>3, <1>4, <1>5, <1>7, QuietStep, Zenon

\* The requests that arrive.
LEMMA Arrivals ==
  ASSUME Inv, NEW r \in Request,
         RegisterFinish(r) \/ AssertFinish(r) \/ Revoke(r) \/ Regenerate(r) \/ Redeem(r)
  PROVE  Inv'
  <1>1. TypeOK /\ Idle \in RequestRow /\ Idle.proof = <<>>
    BY DEF Inv, Idle, RequestRow
  <1>2. CASE RegisterFinish(r)
    <2>1. PICK c \in Ceremony, k \in Credential :
            Accept(r, [Idle EXCEPT !.op = "register", !.pc = "take", !.ceremony = c, !.credential = k])
      BY <1>2, Zenon DEF RegisterFinish
    <2> DEFINE q == [Idle EXCEPT !.op = "register", !.pc = "take", !.ceremony = c, !.credential = k]
    <2>2. /\ q \in RequestRow /\ q.op = "register" /\ q.pc = "take" /\ q.proof = <<>>
          /\ q.ceremony = c /\ q.credential = k
      BY <1>1, Zenon DEF RequestRow
    <2>3. Accept(r, q)
      BY <2>1
    <2> HIDE DEF q
    <2> QED BY <2>2, <2>3, AcceptStep DEF PcFitsOp
  <1>3. CASE AssertFinish(r)
    <2>1. PICK s \in Session, c \in Ceremony, k \in Credential, n \in Counter :
            Accept(r, [Idle EXCEPT !.op = "assert", !.pc = "find", !.session = s,
                                   !.ceremony = c, !.credential = k, !.counter = n])
      BY <1>3, Zenon DEF AssertFinish
    <2> DEFINE q == [Idle EXCEPT !.op = "assert", !.pc = "find", !.session = s,
                                 !.ceremony = c, !.credential = k, !.counter = n]
    <2>2. n \in Nat
      BY BoundsAssumption DEF Counter
    <2>3. /\ q \in RequestRow /\ q.op = "assert" /\ q.pc = "find" /\ q.proof = <<>>
          /\ q.session = s /\ q.ceremony = c
      BY <1>1, <2>2, ZenonT(30) DEF RequestRow
    <2>4. Accept(r, q)
      BY <2>1
    <2> HIDE DEF q
    <2> QED BY <2>3, <2>4, AcceptStep DEF PcFitsOp
  <1>4. CASE Revoke(r)
    <2>1. PICK i \in Live :
            Accept(r, [Idle EXCEPT !.op = "revoke", !.pc = "update",
                                   !.row = i, !.credential = passkeys[i].credential])
      BY <1>4, Zenon DEF Revoke
    <2> DEFINE q == [Idle EXCEPT !.op = "revoke", !.pc = "update",
                                 !.row = i, !.credential = passkeys[i].credential]
    <2>2. i \in DOMAIN passkeys /\ i \in Nat /\ passkeys[i].credential \in Credential
      BY <1>1, PasskeyRows DEF TypeOK, Live
    <2>3. /\ q \in RequestRow /\ q.op = "revoke" /\ q.pc = "update" /\ q.proof = <<>>
          /\ q.row = i /\ q.credential = passkeys[i].credential
      BY <1>1, <2>2, ZenonT(30) DEF RequestRow
    <2>4. Accept(r, q)
      BY <2>1
    <2> HIDE DEF q
    <2> QED BY <2>2, <2>3, <2>4, AcceptStep, Zenon DEF PcFitsOp
  <1>5. CASE Regenerate(r)
    <2> DEFINE q == [Idle EXCEPT !.op = "rotate", !.pc = "delete"]
    <2>1. q \in RequestRow /\ q.op = "rotate" /\ q.pc = "delete" /\ q.proof = <<>>
      BY <1>1, Zenon DEF RequestRow
    <2>2. Accept(r, q)
      BY <1>5 DEF Regenerate
    <2> HIDE DEF q
    <2> QED BY <2>1, <2>2, AcceptStep, Zenon DEF PcFitsOp
  <1>6. CASE Redeem(r)
    <2>1. PICK s \in Session, k \in Code :
            Accept(r, [Idle EXCEPT !.op = "redeem", !.pc = "consume", !.session = s, !.code = k])
      BY <1>6, Zenon DEF Redeem
    <2> DEFINE q == [Idle EXCEPT !.op = "redeem", !.pc = "consume", !.session = s, !.code = k]
    <2>2. /\ q \in RequestRow /\ q.op = "redeem" /\ q.pc = "consume" /\ q.proof = <<>>
          /\ q.session = s /\ q.code = k
      BY <1>1, ZenonT(30) DEF RequestRow
    <2>3. Accept(r, q)
      BY <2>1
    <2> HIDE DEF q
    <2> QED BY <2>2, <2>3, AcceptStep DEF PcFitsOp
  <1> QED BY <1>2, <1>3, <1>4, <1>5, <1>6

\* take deletes the ceremony it returns, so that no other request has it.
LEMMA TakeStep ==
  ASSUME Inv, NEW r \in Request, NEW kind \in {"registration", "assertion"}, NEW verified,
         NEW next, Take(r, kind, verified, next),
         \/ requests[r].op = "register" /\ next = "insert"
         \/ requests[r].op = "assert" /\ next = "record"
  PROVE  Inv'
  <1> DEFINE q == requests[r]
             c == q.ceremony
  <1>1. requests \in [Request -> RequestRow] /\ q \in RequestRow /\ ReqInv(r) /\ TypeOK
    BY DEF Inv, TypeOK
  <1>2. q.pc = "take" /\ InFlight(r) /\ c \in Ceremony
        /\ UNCHANGED <<passkeys, enrolled, codes, sessions, overlap>>
    BY <1>1 DEF Take, At, InFlight, ReqInv, db
  <1>3. CASE End(r) /\ UNCHANGED ceremonies
    BY <1>1, <1>2, <1>3, EndStep, Zenon DEF TypeOK
  <1>4. ASSUME ceremonies[c].kind = kind,
               ceremonies' = [ceremonies EXCEPT ![c] = [kind |-> "gone", allowed |-> {}]]
        PROVE  /\ ceremonies' \in [Ceremony -> [kind : {"none", "registration", "assertion", "gone"},
                                                allowed : SUBSET Credential]]
               /\ \A d \in Ceremony : ceremonies[d].kind = "gone" => ceremonies'[d].kind = "gone"
               /\ ceremonies'[c].kind = "gone" /\ ceremonies[c].kind # "gone"
    BY <1>1, <1>2, <1>4, Zenon DEF TypeOK
  <1>5. CASE /\ ceremonies[c].kind = kind /\ End(r)
             /\ ceremonies' = [ceremonies EXCEPT ![c] = [kind |-> "gone", allowed |-> {}]]
    BY <1>2, <1>4, <1>5, EndStep
  <1>6. CASE /\ ceremonies[c].kind = kind
             /\ ceremonies' = [ceremonies EXCEPT ![c] = [kind |-> "gone", allowed |-> {}]]
             /\ requests' = [requests EXCEPT ![r].pc = next, ![r].proof = <<"ceremony", c>>]
    <2> DEFINE x == [q EXCEPT !.pc = next, !.proof = <<"ceremony", c>>]
    <2>1. requests' = [requests EXCEPT ![r] = x]
      BY <1>1, <1>6, Zenon
    <2>2. /\ x \in RequestRow /\ x.pc = next /\ x.proof = <<"ceremony", c>>
          /\ x.op = q.op /\ x.session = q.session /\ x.row = q.row /\ x.credential = q.credential
      BY <1>1, <1>2, Zenon DEF RequestRow, Proof
    <2>3. requests'[r] = x /\ \A p \in Request \ {r} : requests'[p] = requests[p]
      BY <1>1, <2>1
    <2> HIDE DEF x
    <2>4. TypeOK'
      <3>1. requests' \in [Request -> RequestRow]
        BY <1>1, <2>1, <2>2
      <3>2. ceremonies' \in [Ceremony -> [kind : {"none", "registration", "assertion", "gone"},
                                          allowed : SUBSET Credential]]
        BY <1>4, <1>6, Zenon
      <3> QED BY <1>1, <1>2, <3>1, <3>2 DEF TypeOK
    <2>5. ~InTransaction(r)' /\ ~Recorded(r)' /\ ~Unwritten(r)' /\ ~Promoter(r)
      BY <1>2, <2>2, <2>3 DEF InTransaction, At, Recorded, Unwritten, Promoter
    <2>6. \A k \in Code : <<"ceremony", c>> # <<"code", k>>
      OBVIOUS
    <2>7. \A d \in Ceremony : <<"ceremony", c>> = <<"ceremony", d>> => c = d
      OBVIOUS
    <2>8. x.proof # <<>>
      BY <2>2
    <2>9. ReqInv(r)'
      <3>1. PcFitsOp(requests[r]) /\ Holds(r) /\ Spent(r)
        BY <1>1, ReqParts DEF Inv
      <3>2. PcFitsOp(requests'[r])
        BY <1>1, <1>2, <1>4, <1>6, <2>2, <2>3, <2>5, <2>6, <2>7, <2>8, <3>1, Zenon DEF PcFitsOp
      <3>3. Holds(r)'
        BY <1>1, <1>2, <1>4, <1>6, <2>2, <2>3, <2>5, <2>6, <2>7, <2>8, <3>1, ZenonT(30) DEF Holds
      <3>4. Spent(r)'
        BY <1>1, <1>2, <1>4, <1>6, <2>2, <2>3, <2>5, <2>6, <2>7, <2>8, <3>1 DEF Spent
      <3> QED BY <1>1, <1>2, <1>4, <1>6, <2>2, <2>3, <2>5, <2>6, <2>7, <2>8, <3>2, <3>3, <3>4, ReqParts, Zenon
    <2> QED BY <1>2, <1>4, <1>6, <2>2, <2>3, <2>4, <2>5, <2>9, QuietStep, ZenonT(30)
  <1> QED BY <1>3, <1>5, <1>6 DEF Take

LEMMA Takes ==
  ASSUME Inv, NEW r \in Request, TakeRegistration(r) \/ TakeAssertion(r) PROVE Inv'
  <1>1. CASE TakeRegistration(r)
    BY <1>1, TakeStep, Zenon DEF TakeRegistration
  <1>2. CASE TakeAssertion(r)
    BY <1>2, TakeStep DEF TakeAssertion
  <1> QED BY <1>1, <1>2

\* A request goes to its next statement with its locals unchanged.
LEMMA GotoKeeps ==
  ASSUME requests \in [Request -> RequestRow], NEW r \in Request,
         NEW pc \in {"mark", "count", "denied", "commit", "audit"}, Goto(r, pc)
  PROVE  LET q == requests[r]
             x == requests'[r] IN
         /\ requests' \in [Request -> RequestRow]
         /\ x.pc = pc /\ x.op = q.op /\ x.session = q.session /\ x.credential = q.credential
         /\ x.counter = q.counter /\ x.row = q.row /\ x.last = q.last /\ x.proof = q.proof
         /\ \A p \in Request \ {r} : requests'[p] = requests[p]
  <1>1. requests' = [requests EXCEPT ![r] = [requests[r] EXCEPT !.pc = pc]]
    BY DEF Goto
  <1>2. requests[r] \in RequestRow
    OBVIOUS
  <1>3. [requests[r] EXCEPT !.pc = pc] \in RequestRow
    BY <1>2, Zenon DEF RequestRow
  <1> QED BY <1>1, <1>2, <1>3, Zenon DEF RequestRow

\* A statement that leaves a transaction on user_passkeys open: it is the only one,
\* or the transactions overlap.
LEMMA BeginStep ==
  ASSUME Inv, NEW r \in Request, NEW pc \in {"count", "commit"}, Goto(r, pc), Begin(r),
         UNCHANGED <<passkeys, enrolled, codes, ceremonies, sessions>>,
         \/ requests[r].op = "register" /\ pc = "commit"
         \/ /\ requests[r].op = "revoke" /\ At(r, "update") /\ pc = "count"
            /\ requests[r].row \in Live
  PROVE  Inv'
  <1>1. requests \in [Request -> RequestRow] /\ ReqInv(r) /\ TypeOK /\ requests[r] \in RequestRow
    BY DEF Inv, TypeOK
  <1>2. /\ requests' \in [Request -> RequestRow] /\ requests'[r].pc = pc
        /\ requests'[r].op = requests[r].op /\ requests'[r].row = requests[r].row
        /\ requests'[r].proof = requests[r].proof /\ requests'[r].credential = requests[r].credential
        /\ requests'[r].session = requests[r].session
        /\ \A p \in Request \ {r} : requests'[p] = requests[p]
    BY <1>1, GotoKeeps
  <1>3. TypeOK'
    BY <1>1, <1>2 DEF TypeOK, Begin
  <1>4. ~Recorded(r)' /\ ~Unwritten(r)' /\ ~Promoter(r)
    BY <1>1, <1>2, Zenon DEF Recorded, Unwritten, Promoter, ReqInv, PcFitsOp
  <1>5. ReqInv(r)'
    <2>1. PcFitsOp(requests[r]) /\ Holds(r) /\ Spent(r)
      BY <1>1, ReqParts, Zenon DEF Inv
    <2>2. PcFitsOp(requests'[r])
      BY <1>1, <1>2, <1>4, <2>1, Zenon DEF PcFitsOp, At
    <2>3. Holds(r)'
      BY <1>1, <1>2, <1>4, <2>1 DEF Holds, At
    <2>4. Spent(r)'
      BY <1>1, <1>2, <1>4, <2>1, Zenon DEF Spent, At
    <2> QED BY <1>1, <1>2, <1>4, <2>2, <2>3, <2>4, ReqParts, Zenon
  <1>6. ASSUME ~overlap' PROVE SerialInv'
    <2>1. SerialInv /\ \A p \in Request \ {r} : ~InTransaction(p)
      BY <1>1, <1>6, Zenon DEF Inv, Begin
    <2>2. \A p \in Request \ {r} : ~InTransaction(p)'
      BY <1>2, <2>1, Zenon DEF InTransaction, At
    <2>3. \A p \in Request : ~(At(p, "commit")' /\ requests'[p].op = "revoke")
      BY <1>2, <2>2 DEF InTransaction, At
    <2>4. Live' = Live
      BY DEF Live
    <2> QED BY <1>2, <2>1, <2>2, <2>3, <2>4 DEF SerialInv
  <1> QED BY <1>2, <1>3, <1>4, <1>5, <1>6, LocalStep

\* The kinds of request that have a given statement.
LEMMA OpOfPc ==
  ASSUME Inv, NEW r \in Request
  PROVE  LET q == requests[r] IN
         /\ q.pc = "insert" => q.op = "register"
         /\ q.pc \in {"find", "record"} => q.op = "assert"
         /\ q.pc \in {"update", "count"} => q.op = "revoke"
         /\ q.pc = "delete" => q.op = "rotate"
         /\ q.pc \in {"consume", "denied"} => q.op = "redeem"
         /\ q.pc = "mark" => q.op \in {"assert", "redeem"}
  <1>1. requests[r].op \in {"none", "register", "assert", "revoke", "rotate", "redeem"}
    BY Zenon DEF Inv, TypeOK, RequestRow
  <1>2. PcFitsOp(requests[r])
    BY Zenon DEF Inv, ReqInv
  <1> QED BY <1>1, <1>2 DEF PcFitsOp

\* INSERT INTO user_passkeys, and the UPDATE of a revocation.
LEMMA Writes ==
  ASSUME Inv, NEW r \in Request, InsertPasskey(r) \/ RevokeUpdate(r) PROVE Inv'
  <1>1. TypeOK /\ ReqInv(r)
    BY Zenon DEF Inv
  <1>2. UNCHANGED <<passkeys, enrolled, codes, ceremonies, sessions>> /\ requests[r].pc \in {"insert", "update"}
    BY DEF InsertPasskey, RevokeUpdate, db, At
  <1>3. CASE End(r) /\ UNCHANGED overlap
    BY <1>1, <1>2, <1>3, EndStep, Zenon DEF TypeOK, InFlight
  <1>4. CASE InsertPasskey(r) /\ Goto(r, "commit") /\ Begin(r)
    <2>1. requests[r].op = "register"
      BY <1>4, OpOfPc DEF InsertPasskey, At
    <2> QED BY <1>2, <1>4, <2>1, BeginStep, Zenon
  <1>5. CASE RevokeUpdate(r) /\ Goto(r, "count") /\ Begin(r) /\ passkeys[requests[r].row].live
    <2>1. requests[r].op = "revoke" /\ At(r, "update")
      BY <1>5, OpOfPc, Zenon DEF RevokeUpdate, At
    <2>2. requests[r].row \in Live
      BY <1>1, <1>5, <2>1, Zenon DEF ReqInv, Live
    <2> QED BY <1>2, <1>5, <2>1, <2>2, BeginStep, Zenon
  <1> QED BY <1>3, <1>4, <1>5, Zenon DEF InsertPasskey, RevokeUpdate

\* The commit of a registration: a live row more, and the flag set.
LEMMA CommitPasskeyStep ==
  ASSUME Inv, NEW r \in Request, CommitPasskey(r) PROVE Inv'
  <1> DEFINE q == requests[r]
             row == [credential |-> q.credential, counter |-> 0, live |-> TRUE]
             x == [q EXCEPT !.pc = "audit", !.row = Len(passkeys) + 1]
             n == Len(passkeys) + 1
  <1>1. requests \in [Request -> RequestRow] /\ q \in RequestRow /\ ReqInv(r) /\ TypeOK
    BY DEF Inv, TypeOK
  <1>2. /\ q.op = "register" /\ q.pc = "commit" /\ passkeys' = Append(passkeys, row) /\ enrolled' = TRUE
        /\ requests' = [requests EXCEPT ![r] = x]
        /\ UNCHANGED <<codes, ceremonies, sessions, overlap>>
    BY Zenon DEF CommitPasskey, At
  <1>3. row \in PasskeyRow /\ row.live
    BY <1>1, <1>2 DEF ReqInv, PasskeyRow
  <1>4. /\ passkeys \in Seq(PasskeyRow) /\ Len(passkeys) \in Nat /\ DOMAIN passkeys = 1..Len(passkeys)
        /\ \A i \in DOMAIN passkeys : passkeys[i].counter \in Nat
    BY <1>1, PasskeyRows DEF TypeOK
  <1> HIDE DEF row
  <1>5. /\ passkeys' \in Seq(PasskeyRow) /\ DOMAIN passkeys' = 1..n /\ passkeys'[n] = row
        /\ \A i \in 1..Len(passkeys) : passkeys'[i] = passkeys[i]
    BY <1>2, <1>3, <1>4, AppendProperties
  <1>6. /\ x \in RequestRow /\ x.op = "register" /\ x.pc = "audit" /\ x.proof = q.proof
        /\ x.credential = q.credential
    <2>1. q.op = "register"
      BY <1>2
    <2>2. n \in Nat
      BY <1>4
    <2>3. x = [q EXCEPT !.pc = "audit", !.row = n]
      OBVIOUS
    <2> HIDE DEF x, n
    <2> QED BY <1>1, <2>1, <2>2, <2>3, Zenon DEF RequestRow
  <1> HIDE DEF x
  <1>7. requests'[r] = x /\ \A p \in Request \ {r} : requests'[p] = requests[p]
    BY <1>1, <1>2, Zenon
  <1>8. TypeOK'
    BY <1>1, <1>2, <1>5, <1>6, Zenon DEF TypeOK
  <1>9. Frame(r)
    BY <1>2, <1>4, <1>5 DEF Frame
  <1>10. ~Recorded(r)' /\ ~Unwritten(r)' /\ ~Promoter(r) /\ ~InTransaction(r)'
    BY <1>2, <1>6, <1>7, Zenon DEF Recorded, Unwritten, Promoter, InTransaction, At
  <1>11. ReqInv(r)'
    <2>1. PcFitsOp(requests[r]) /\ Holds(r) /\ Spent(r)
      BY <1>1, ReqParts, Zenon DEF Inv
    <2>2. PcFitsOp(requests'[r])
      BY <1>1, <1>2, <1>6, <1>7, <1>10, <2>1 DEF PcFitsOp
    <2>3. Holds(r)'
      BY <1>1, <1>2, <1>6, <1>7, <1>10, <2>1, Zenon DEF Holds
    <2>4. Spent(r)'
      BY <1>1, <1>2, <1>6, <1>7, <1>10, <2>1, Zenon DEF Spent
    <2> QED BY <1>1, <1>2, <1>6, <1>7, <1>10, <2>2, <2>3, <2>4, ReqParts, Zenon
  <1>12. ASSUME ~overlap' PROVE SerialInv'
    <2>1. \A p \in Request \ {r} : ~InTransaction(p)
      BY <1>2, <1>12, Zenon DEF Inv, SerialInv, InTransaction, At
    <2>2. \A p \in Request : ~InTransaction(p)'
      BY <1>7, <1>10, <2>1, Zenon DEF InTransaction, At
    <2>3. n \in Live'
      BY <1>3, <1>4, <1>5 DEF Live
    <2>4. \A p \in Request : ~(At(p, "commit")' /\ requests'[p].op = "revoke")
      BY <2>2 DEF InTransaction, At
    <2> QED BY <1>2, <2>2, <2>3, <2>4, Zenon DEF SerialInv
  <1> QED BY <1>2, <1>6, <1>7, <1>8, <1>9, <1>10, <1>11, <1>12, RequestStep, Zenon

\* The row that an assertion finds.
LEMMA FindPasskeyStep ==
  ASSUME Inv, NEW r \in Request, FindPasskey(r) PROVE Inv'
  <1> DEFINE q == requests[r]
  <1>1. requests \in [Request -> RequestRow] /\ q \in RequestRow /\ ReqInv(r) /\ TypeOK
    BY DEF Inv, TypeOK
  <1>2. q.pc = "find" /\ q.op = "assert" /\ UNCHANGED <<passkeys, enrolled, codes, ceremonies, sessions, overlap>>
    BY OpOfPc DEF FindPasskey, At, db
  <1>3. CASE End(r)
    BY <1>1, <1>2, <1>3, EndStep, Zenon DEF TypeOK, InFlight
  <1>4. ASSUME NEW i \in Live, requests' = [requests EXCEPT ![r].pc = "take", ![r].row = i]
        PROVE  Inv'
    <2> DEFINE x == [q EXCEPT !.pc = "take", !.row = i]
    <2>1. i \in DOMAIN passkeys /\ i \in Nat
      BY <1>1, PasskeyRows DEF TypeOK, Live
    <2>2. requests' = [requests EXCEPT ![r] = x]
      BY <1>4, Zenon
    <2>3. x \in RequestRow /\ x.op = "assert" /\ x.pc = "take" /\ x.proof = q.proof /\ x.row = i
          /\ x.session = q.session /\ x.ceremony = q.ceremony
      BY <1>1, <1>2, <2>1, Zenon DEF RequestRow
    <2> HIDE DEF x
    <2>4. requests'[r] = x /\ \A p \in Request \ {r} : requests'[p] = requests[p]
      BY <1>1, <2>2
    <2>5. TypeOK'
      BY <1>1, <1>2, <2>2, <2>3 DEF TypeOK
    <2>6. ~Recorded(r)' /\ ~Unwritten(r)' /\ ~Promoter(r) /\ ~InTransaction(r)'
      BY <1>2, <2>3, <2>4, Zenon DEF Recorded, Unwritten, Promoter, InTransaction, At
    <2>7. ReqInv(r)'
      <3>1. PcFitsOp(requests[r]) /\ Holds(r) /\ Spent(r)
        BY <1>1, ReqParts, Zenon DEF Inv
      <3>2. PcFitsOp(requests'[r])
        BY <1>1, <1>2, <2>1, <2>3, <2>4, <2>6, <3>1 DEF PcFitsOp
      <3>3. Holds(r)'
        BY <1>1, <1>2, <2>1, <2>3, <2>4, <2>6, <3>1, Zenon DEF Holds
      <3>4. Spent(r)'
        BY <1>1, <1>2, <2>1, <2>3, <2>4, <2>6, <3>1, Zenon DEF Spent
      <3> QED BY <1>1, <1>2, <2>1, <2>3, <2>4, <2>6, <3>2, <3>3, <3>4, ReqParts, Zenon
    <2> QED BY <1>2, <2>3, <2>4, <2>5, <2>6, <2>7, QuietStep, Zenon
  <1> QED BY <1>3, <1>4 DEF FindPasskey

\* record_use: the counter it writes is above every counter recorded for the row,
\* unless none was ever above zero.
LEMMA RecordUseStep ==
  ASSUME Inv, NEW r \in Request, RecordUse(r) PROVE Inv'
  <1> DEFINE q == requests[r]
             i == q.row
             n == q.counter
  <1>1. requests \in [Request -> RequestRow] /\ q \in RequestRow /\ ReqInv(r) /\ TypeOK
    BY DEF Inv, TypeOK
  <1>2. q.pc = "record" /\ q.op = "assert" /\ UNCHANGED <<enrolled, codes, ceremonies, sessions, overlap>>
    BY OpOfPc DEF RecordUse, At
  <1>3. CASE End(r) /\ UNCHANGED passkeys
    BY <1>1, <1>2, <1>3, EndStep, Zenon DEF TypeOK, InFlight
  <1>4. CASE Fresh(i, n) /\ passkeys' = [passkeys EXCEPT ![i].counter = n] /\ Goto(r, "mark")
    <2>1. /\ passkeys \in Seq(PasskeyRow) /\ i \in DOMAIN passkeys /\ n \in Nat
          /\ \A j \in DOMAIN passkeys : passkeys[j] \in PasskeyRow /\ passkeys[j].counter \in Nat
      BY <1>1, <1>2, PasskeyRows DEF TypeOK, ReqInv, RequestRow
    <2> DEFINE y == [passkeys[i] EXCEPT !.counter = n]
    <2>2. y \in PasskeyRow /\ y.counter = n /\ y.live = passkeys[i].live /\ y.credential = passkeys[i].credential
      BY <2>1, Zenon DEF PasskeyRow
    <2>3. passkeys' = [passkeys EXCEPT ![i] = y]
      BY <1>4
    <2> HIDE DEF y
    <2>4. /\ passkeys' \in Seq(PasskeyRow) /\ DOMAIN passkeys' = DOMAIN passkeys /\ passkeys'[i] = y
          /\ \A j \in DOMAIN passkeys \ {i} : passkeys'[j] = passkeys[j]
      BY <2>1, <2>2, <2>3, ExceptSeq, SMTT(30)
    <2>5. /\ requests' \in [Request -> RequestRow] /\ requests'[r].pc = "mark"
          /\ requests'[r].op = "assert" /\ requests'[r].row = i /\ requests'[r].counter = n
          /\ requests'[r].proof = q.proof /\ requests'[r].session = q.session
          /\ \A p \in Request \ {r} : requests'[p] = requests[p]
      BY <1>1, <1>2, <1>4, GotoKeeps, Zenon
    <2>6. TypeOK'
      BY <1>1, <1>2, <2>4, <2>5 DEF TypeOK
    <2>7. n >= passkeys[i].counter
      BY <1>4, <2>1 DEF Fresh
    <2>8. Frame(r)
      BY <1>2, <2>1, <2>2, <2>4, <2>7 DEF Frame
    <2>9. ~Unwritten(r)' /\ ~Promoter(r) /\ ~InTransaction(r)'
      BY <1>2, <2>5 DEF Unwritten, Promoter, InTransaction, At
    <2>10. ReqInv(r)'
      <3>1. PcFitsOp(requests[r]) /\ Holds(r) /\ Spent(r)
        BY <1>1, ReqParts, Zenon DEF Inv
      <3>2. PcFitsOp(requests'[r])
        BY <1>1, <1>2, <2>1, <2>2, <2>4, <2>5, <2>9, <3>1, Zenon DEF PcFitsOp
      <3>3. Holds(r)'
        <4>1. requests'[r].session \in Session
          BY <1>1, <1>2, <2>5, <3>1, Zenon DEF Holds
        <4>2. i \in DOMAIN passkeys' /\ passkeys'[i].counter = n /\ n <= n
          BY <2>1, <2>2, <2>4
        <4> QED BY <2>5, <4>1, <4>2, Zenon DEF Holds
      <3>4. Spent(r)'
        BY <1>1, <1>2, <2>1, <2>2, <2>4, <2>5, <2>9, <3>1 DEF Spent
      <3> QED BY <1>1, <1>2, <2>1, <2>2, <2>4, <2>5, <2>9, <3>2, <3>3, <3>4, ReqParts, Zenon
    <2>11. ASSUME NEW p \in Request \ {r}, Recorded(p), requests[p].row = i
           PROVE  requests[p].counter # n \/ (requests[p].counter = 0 /\ n = 0)
      <3>1. requests[p].counter <= passkeys[i].counter /\ requests[p].counter \in Nat
        BY <1>1, <2>11, Zenon DEF Inv, ReqInv, RequestRow
      <3> QED BY <1>4, <2>1, <3>1 DEF Fresh
    <2>12. Live' = Live
      BY <2>2, <2>4 DEF Live
    <2>13. ~overlap' => SerialInv'
      BY <1>2, <2>5, <2>9, <2>12, SerialKept, Zenon
    <2> HIDE DEF q, i, n
    <2> QED BY <1>2, <2>5, <2>6, <2>8, <2>9, <2>10, <2>11, <2>13, RequestStep, Zenon DEF q
  <1> QED BY <1>3, <1>4 DEF RecordUse

\* mark_mfa_satisfied promotes the session of a request that has spent its proof.
LEMMA MarkStep ==
  ASSUME Inv, NEW r \in Request, MarkSatisfied(r) PROVE Inv'
  <1> DEFINE q == requests[r]
             s == q.session
  <1>1. requests \in [Request -> RequestRow] /\ q \in RequestRow /\ ReqInv(r) /\ TypeOK
    BY DEF Inv, TypeOK
  <1>2. /\ q.pc = "mark" /\ q.op \in {"assert", "redeem"} /\ Goto(r, "audit")
        /\ UNCHANGED <<passkeys, enrolled, codes, ceremonies, overlap>>
    BY OpOfPc DEF MarkSatisfied, At, db
  <1>3. s \in Session /\ q.proof # <<>>
    BY <1>1, <1>2, Zenon DEF ReqInv
  <1>4. /\ sessions' \in [Session -> [satisfied : BOOLEAN, revoked : BOOLEAN]]
        /\ \A t \in Session \ {s} : sessions'[t] = sessions[t]
    <2>1. sessions' = [sessions EXCEPT ![s].satisfied = @ \/ Resolves(s)]
      BY DEF MarkSatisfied
    <2>2. (sessions[s].satisfied \/ Resolves(s)) \in BOOLEAN
      OBVIOUS
    <2> QED BY <1>1, <1>3, <2>1, <2>2, Zenon DEF TypeOK
  <1>5. /\ requests' \in [Request -> RequestRow] /\ requests'[r].pc = "audit"
        /\ requests'[r].op = q.op /\ requests'[r].row = q.row /\ requests'[r].counter = q.counter
        /\ requests'[r].proof = q.proof /\ requests'[r].session = s
        /\ \A p \in Request \ {r} : requests'[p] = requests[p]
    BY <1>1, <1>2, GotoKeeps
  <1>6. TypeOK'
    BY <1>1, <1>2, <1>4, <1>5, Zenon DEF TypeOK
  <1>7. Frame(r)
    BY <1>1, <1>2, PasskeyRows, SMTT(30) DEF Frame, TypeOK
  <1>8. ~Unwritten(r)' /\ Promoter(r)' /\ ~InTransaction(r)' /\ (Recorded(r)' <=> Recorded(r))
    BY <1>2, <1>5 DEF Unwritten, Promoter, InTransaction, At, Recorded
  <1>9. ReqInv(r)'
    <2>1. PcFitsOp(requests[r]) /\ Holds(r) /\ Spent(r)
      BY <1>1, ReqParts DEF Inv
    <2>2. PcFitsOp(requests'[r])
      BY <1>1, <1>2, <1>3, <1>5, <1>8, <2>1, Zenon DEF PcFitsOp
    <2>3. Holds(r)'
      BY <1>1, <1>2, <1>3, <1>5, <1>8, <2>1, Zenon DEF Holds
    <2>4. Spent(r)'
      BY <1>1, <1>2, <1>3, <1>5, <1>8, <2>1, Zenon DEF Spent
    <2> QED BY <1>1, <1>2, <1>3, <1>5, <1>8, <2>2, <2>3, <2>4, ReqParts, Zenon
  <1>10. Live' = Live
    BY <1>2 DEF Live
  <1>11. ~overlap' => SerialInv'
    BY <1>2, <1>5, <1>8, <1>10, SerialKept, Zenon
  <1>12. \A t \in Session : sessions'[t].satisfied =>
           sessions[t].satisfied \/ (requests'[r].session = t /\ Promoter(r)')
    BY <1>4, <1>5, <1>8
  <1> QED BY <1>5, <1>6, <1>7, <1>8, <1>9, <1>11, <1>12, RequestStep, Zenon

\* SELECT COUNT(*): nothing is left when the row is the only live one.
LEMMA RevokeCountStep ==
  ASSUME Inv, NEW r \in Request, RevokeCount(r) PROVE Inv'
  <1> DEFINE q == requests[r]
             x == [q EXCEPT !.pc = "commit", !.last = (Live = {q.row})]
  <1>1. requests \in [Request -> RequestRow] /\ q \in RequestRow /\ ReqInv(r) /\ TypeOK
    BY DEF Inv, TypeOK
  <1>2. /\ q.pc = "count" /\ q.op = "revoke" /\ requests' = [requests EXCEPT ![r] = x]
        /\ UNCHANGED <<passkeys, enrolled, codes, ceremonies, sessions, overlap>>
    BY OpOfPc, Zenon DEF RevokeCount, At, db
  <1>3. /\ x \in RequestRow /\ x.op = q.op /\ x.pc = "commit" /\ x.proof = q.proof /\ x.row = q.row
        /\ x.credential = q.credential /\ (x.last <=> Live = {q.row})
    <2>1. (Live = {q.row}) \in BOOLEAN
      OBVIOUS
    <2> QED BY <1>1, <2>1, ZenonT(30) DEF RequestRow
  <1> HIDE DEF x
  <1>4. requests'[r] = x /\ \A p \in Request \ {r} : requests'[p] = requests[p]
    BY <1>1, <1>2
  <1>5. TypeOK'
    BY <1>1, <1>2, <1>3 DEF TypeOK
  <1>6. ~Recorded(r)' /\ ~Unwritten(r)' /\ ~Promoter(r)
    BY <1>2, <1>3, <1>4 DEF Recorded, Unwritten, Promoter
  <1>7. ReqInv(r)'
    <2>1. PcFitsOp(requests[r]) /\ Holds(r) /\ Spent(r)
      BY <1>1, ReqParts DEF Inv
    <2>2. PcFitsOp(requests'[r])
      BY <1>1, <1>2, <1>3, <1>4, <1>6, <2>1 DEF PcFitsOp
    <2>3. Holds(r)'
      BY <1>1, <1>2, <1>3, <1>4, <1>6, <2>1, Zenon DEF Holds
    <2>4. Spent(r)'
      BY <1>1, <1>2, <1>3, <1>4, <1>6, <2>1, Zenon DEF Spent
    <2> QED BY <1>1, <1>2, <1>3, <1>4, <1>6, <2>2, <2>3, <2>4, ReqParts
  <1>8. ASSUME ~overlap' PROVE SerialInv'
    <2>1. SerialInv /\ Live' = Live
      BY <1>2, <1>8 DEF Inv, Live
    <2>2. \A p \in Request : InTransaction(p)' <=> InTransaction(p)
      BY <1>2, <1>3, <1>4 DEF InTransaction, At
    <2>3. \A p \in Request : requests'[p].row = requests[p].row /\ requests'[p].op = requests[p].op
      BY <1>3, <1>4
    <2>4. \A p \in Request \ {r} : (At(p, "commit")' <=> At(p, "commit")) /\ requests'[p].last = requests[p].last
      BY <1>4 DEF At
    <2> QED BY <1>2, <1>3, <1>4, <2>1, <2>2, <2>3, <2>4, SMTT(30) DEF SerialInv
  <1> QED BY <1>2, <1>3, <1>4, <1>5, <1>6, <1>7, <1>8, LocalStep, Zenon

\* The commit of a revocation: the flag goes with the last live row.
LEMMA RevokeCommitStep ==
  ASSUME Inv, NEW r \in Request, RevokeCommit(r) PROVE Inv'
  <1> DEFINE q == requests[r]
             i == q.row
  <1>1. requests \in [Request -> RequestRow] /\ q \in RequestRow /\ ReqInv(r) /\ TypeOK
    BY DEF Inv, TypeOK
  <1>2. /\ q.pc = "commit" /\ q.op = "revoke" /\ Goto(r, "audit")
        /\ passkeys' = [passkeys EXCEPT ![i].live = FALSE] /\ enrolled' = (enrolled /\ ~q.last)
        /\ UNCHANGED <<codes, ceremonies, sessions, overlap>>
    BY DEF RevokeCommit, At
  <1>3. /\ passkeys \in Seq(PasskeyRow) /\ i \in DOMAIN passkeys
        /\ \A j \in DOMAIN passkeys : passkeys[j] \in PasskeyRow /\ passkeys[j].counter \in Nat
    BY <1>1, <1>2, PasskeyRows DEF TypeOK, ReqInv
  <1> DEFINE y == [passkeys[i] EXCEPT !.live = FALSE]
  <1>4. y \in PasskeyRow /\ y.counter = passkeys[i].counter /\ ~y.live /\ y.credential = passkeys[i].credential
    BY <1>3, Zenon DEF PasskeyRow
  <1>5. passkeys' = [passkeys EXCEPT ![i] = y]
    BY <1>2
  <1> HIDE DEF y
  <1>6. /\ passkeys' \in Seq(PasskeyRow) /\ DOMAIN passkeys' = DOMAIN passkeys /\ passkeys'[i] = y
        /\ \A j \in DOMAIN passkeys \ {i} : passkeys'[j] = passkeys[j]
    BY <1>3, <1>4, <1>5, ExceptSeq
  <1>7. /\ requests' \in [Request -> RequestRow] /\ requests'[r].pc = "audit"
        /\ requests'[r].op = "revoke" /\ requests'[r].row = i
        /\ requests'[r].proof = q.proof /\ requests'[r].credential = q.credential
        /\ \A p \in Request \ {r} : requests'[p] = requests[p]
    BY <1>1, <1>2, GotoKeeps
  <1>8. TypeOK'
    <2>1. enrolled' \in BOOLEAN
      BY <1>2
    <2> QED BY <1>1, <1>2, <1>6, <1>7, <2>1 DEF TypeOK
  <1>9. Frame(r)
    BY <1>2, <1>3, <1>4, <1>6 DEF Frame
  <1>10. ~Unwritten(r)' /\ ~Promoter(r) /\ ~InTransaction(r)' /\ ~Recorded(r)'
    BY <1>2, <1>7 DEF Unwritten, Promoter, InTransaction, At, Recorded
  <1>11. ReqInv(r)'
    <2>1. i \in DOMAIN passkeys' /\ passkeys'[i].credential = q.credential
      BY <1>1, <1>2, <1>3, <1>4, <1>6, Zenon DEF ReqInv
    <2>2. q.op = "revoke" /\ q.pc = "commit" /\ UNCHANGED <<codes, ceremonies>>
      BY <1>2
    <2> QED BY <1>1, <1>7, <1>10, <2>1, <2>2, Zenon DEF ReqInv, PcFitsOp
  <1>12. ASSUME ~overlap' PROVE SerialInv'
    <2>1. SerialInv /\ InTransaction(r) /\ At(r, "commit")
      BY <1>2, <1>12 DEF Inv, InTransaction, At
    <2>2. \A p \in Request \ {r} : ~InTransaction(p)
      BY <2>1, Zenon DEF SerialInv
    <2>3. \A p \in Request : ~InTransaction(p)'
      BY <1>7, <1>10, <2>2, Zenon DEF InTransaction, At
    <2>4. \A p \in Request : ~(At(p, "commit")' /\ requests'[p].op = "revoke")
      BY <2>3 DEF InTransaction, At
    <2>5. Live' = Live \ {i}
      BY <1>3, <1>4, <1>6 DEF Live
    <2>6. i \in Live /\ (q.last <=> Live = {i}) /\ (enrolled <=> Live # {})
      BY <1>2, <2>1 DEF SerialInv
    <2>7. enrolled' <=> Live' # {}
      BY <1>2, <2>5, <2>6, Zenon
    <2> QED BY <2>3, <2>4, <2>7 DEF SerialInv
  <1> QED BY <1>2, <1>7, <1>8, <1>9, <1>10, <1>11, <1>12, RequestStep

\* DELETE FROM mfa_recovery_codes.
LEMMA RotateDeleteStep ==
  ASSUME Inv, NEW r \in Request, RotateDelete(r) PROVE Inv'
  <1> DEFINE q == requests[r]
             gone == {k \in Code : codes[k] # "none"}
             x == [q EXCEPT !.pc = "commit", !.doomed = gone]
  <1>1. requests \in [Request -> RequestRow] /\ q \in RequestRow /\ ReqInv(r) /\ TypeOK
    BY DEF Inv, TypeOK
  <1>2. /\ q.pc = "delete" /\ q.op = "rotate" /\ requests' = [requests EXCEPT ![r] = x]
        /\ UNCHANGED <<passkeys, enrolled, codes, ceremonies, sessions, overlap>>
    BY OpOfPc, Zenon DEF RotateDelete, At, db
  <1>3. gone \in SUBSET Code
    OBVIOUS
  <1> HIDE DEF gone
  <1>4. x \in RequestRow /\ x.op = q.op /\ x.pc = "commit" /\ x.proof = q.proof
    BY <1>1, <1>3, Zenon DEF RequestRow
  <1> HIDE DEF x
  <1>5. requests'[r] = x /\ \A p \in Request \ {r} : requests'[p] = requests[p]
    BY <1>1, <1>2
  <1>6. TypeOK'
    BY <1>1, <1>2, <1>4 DEF TypeOK
  <1>7. ~Recorded(r)' /\ Unwritten(r) /\ ~Promoter(r) /\ ~InTransaction(r)'
    BY <1>2, <1>4, <1>5 DEF Recorded, Unwritten, Promoter, InTransaction, At
  <1>8. \A p \in Request : requests'[p].proof = requests[p].proof
    BY <1>4, <1>5, Zenon
  <1>9. ReqInv(r)'
    <2>1. PcFitsOp(requests[r]) /\ Holds(r) /\ Spent(r)
      BY <1>1, ReqParts DEF Inv
    <2>2. PcFitsOp(requests'[r])
      BY <1>1, <1>2, <1>4, <1>5, <1>7, <1>8, <2>1 DEF PcFitsOp
    <2>3. Holds(r)'
      BY <1>1, <1>2, <1>4, <1>5, <1>7, <1>8, <2>1, Zenon DEF Holds
    <2>4. Spent(r)'
      BY <1>1, <1>2, <1>4, <1>5, <1>7, <1>8, <2>1, Zenon DEF Spent
    <2>5. Batch(r) /\ Unwritten(r)
      BY <1>1, <1>7, ReqParts, Zenon DEF Inv
    <2>6. Batch(r)'
      BY <1>2, <1>4, <1>8, <2>5 DEF Batch
    <2> QED BY <2>2, <2>3, <2>4, <2>6, ReqParts, Zenon
  <1> QED BY <1>2, <1>4, <1>5, <1>6, <1>7, <1>9, QuietStep, Zenon

\* The new batch: codes that no request has spent.
LEMMA RotateCommitStep ==
  ASSUME Inv, NEW r \in Request, RotateCommit(r) PROVE Inv'
  <1> DEFINE q == requests[r]
             x == [q EXCEPT !.pc = "audit", !.doomed = {}]
  <1>1. requests \in [Request -> RequestRow] /\ q \in RequestRow /\ ReqInv(r) /\ TypeOK
    BY DEF Inv, TypeOK
  <1>2. /\ q.pc = "commit" /\ q.op = "rotate" /\ requests' = [requests EXCEPT ![r] = x]
        /\ UNCHANGED <<passkeys, enrolled, ceremonies, sessions, overlap>>
    BY Zenon DEF RotateCommit, At
  <1>3. /\ codes' \in [Code -> {"none", "live", "used"}]
        /\ \A k \in Code : k[1] # r => codes'[k] \in {"none", codes[k]}
    BY <1>1 DEF RotateCommit, TypeOK
  <1>4. x \in RequestRow /\ x.op = q.op /\ x.pc = "audit" /\ x.proof = q.proof
    BY <1>1, Zenon DEF RequestRow
  <1> HIDE DEF x
  <1>5. requests'[r] = x /\ \A p \in Request \ {r} : requests'[p] = requests[p]
    BY <1>1, <1>2
  <1>6. TypeOK'
    BY <1>1, <1>2, <1>3, <1>4 DEF TypeOK
  <1>7. ~Recorded(r)' /\ Unwritten(r) /\ ~Unwritten(r)' /\ ~Promoter(r) /\ ~InTransaction(r)'
    BY <1>2, <1>4, <1>5, Zenon DEF Recorded, Unwritten, Promoter, InTransaction, At
  <1>8. Frame(r)
    BY <1>1, <1>2, <1>3, <1>7, PasskeyRows, SMTT(30) DEF Frame, TypeOK
  <1>9. \A k \in Code : q.proof = <<"code", k>> => codes'[k] # "live"
    BY <1>1, <1>3, <1>7, Zenon DEF ReqInv
  <1>10. ReqInv(r)'
    <2>1. PcFitsOp(requests[r]) /\ Holds(r) /\ Spent(r)
      BY <1>1, ReqParts, Zenon DEF Inv
    <2>2. PcFitsOp(requests'[r])
      BY <1>1, <1>2, <1>4, <1>5, <1>7, <1>9, <2>1, Zenon DEF PcFitsOp
    <2>3. Holds(r)'
      BY <1>1, <1>2, <1>4, <1>5, <1>7, <1>9, <2>1, Zenon DEF Holds
    <2>4. Spent(r)'
      BY <1>1, <1>2, <1>4, <1>5, <1>7, <1>9, <2>1, Zenon DEF Spent
    <2> QED BY <1>1, <1>2, <1>4, <1>5, <1>7, <1>9, <2>2, <2>3, <2>4, ReqParts, Zenon
  <1>11. Live' = Live
    BY <1>2 DEF Live
  <1>12. ~overlap' => SerialInv'
    BY <1>2, <1>5, <1>7, <1>11, SerialKept
  <1> QED BY <1>2, <1>4, <1>5, <1>6, <1>7, <1>8, <1>10, <1>12, RequestStep, Zenon

\* try_consume: the code that it finds live is spent by nobody else.
LEMMA TryConsumeStep ==
  ASSUME Inv, NEW r \in Request, TryConsume(r) PROVE Inv'
  <1> DEFINE q == requests[r]
             k == q.code
             x == [q EXCEPT !.pc = "mark", !.proof = <<"code", k>>]
  <1>1. requests \in [Request -> RequestRow] /\ q \in RequestRow /\ ReqInv(r) /\ TypeOK
    BY DEF Inv, TypeOK
  <1>2. q.pc = "consume" /\ q.op = "redeem" /\ UNCHANGED <<passkeys, enrolled, ceremonies, sessions, overlap>>
    BY OpOfPc, Zenon DEF TryConsume, At
  <1>3. k \in Code
    BY <1>1, <1>2 DEF ReqInv
  <1>4. CASE Goto(r, "denied") /\ UNCHANGED codes
    <2>1. /\ requests' \in [Request -> RequestRow] /\ requests'[r].pc = "denied" /\ requests'[r].op = "redeem"
          /\ requests'[r].proof = q.proof /\ requests'[r].session = q.session
          /\ \A p \in Request \ {r} : requests'[p] = requests[p]
      BY <1>1, <1>2, <1>4, GotoKeeps
    <2>2. TypeOK'
      BY <1>1, <1>2, <1>4, <2>1, Zenon DEF TypeOK
    <2>3. ~Recorded(r)' /\ ~Unwritten(r)' /\ ~Promoter(r) /\ ~InTransaction(r)'
      BY <1>2, <2>1 DEF Recorded, Unwritten, Promoter, InTransaction, At
    <2>4. ReqInv(r)'
      <3>1. PcFitsOp(requests[r]) /\ Holds(r) /\ Spent(r)
        BY <1>1, ReqParts DEF Inv
      <3>2. PcFitsOp(requests'[r])
        BY <1>1, <1>2, <1>4, <2>1, <2>3, <3>1 DEF PcFitsOp
      <3>3. Holds(r)'
        BY <1>1, <1>2, <1>4, <2>1, <2>3, <3>1, Zenon DEF Holds
      <3>4. Spent(r)'
        BY <1>1, <1>2, <1>4, <2>1, <2>3, <3>1, Zenon DEF Spent
      <3> QED BY <1>1, <1>2, <1>4, <2>1, <2>3, <3>2, <3>3, <3>4, ReqParts, Zenon
    <2> QED BY <1>2, <1>4, <2>1, <2>2, <2>3, <2>4, QuietStep, Zenon
  <1>5. CASE /\ codes[k] = "live" /\ codes' = [codes EXCEPT ![k] = "used"]
             /\ requests' = [requests EXCEPT ![r].pc = "mark", ![r].proof = <<"code", k>>]
    <2>1. requests' = [requests EXCEPT ![r] = x]
      BY <1>1, <1>5, Zenon
    <2>2. /\ x \in RequestRow /\ x.op = q.op /\ x.pc = "mark" /\ x.proof = <<"code", k>>
          /\ x.session = q.session
      BY <1>1, <1>3, Zenon DEF RequestRow, Proof
    <2> HIDE DEF x
    <2>3. requests'[r] = x /\ \A p \in Request \ {r} : requests'[p] = requests[p]
      BY <1>1, <2>1
    <2>4. /\ codes' \in [Code -> {"none", "live", "used"}] /\ codes'[k] = "used"
          /\ \A l \in Code \ {k} : codes'[l] = codes[l]
      BY <1>1, <1>3, <1>5 DEF TypeOK
    <2>5. TypeOK'
      BY <1>1, <1>2, <2>1, <2>2, <2>4, Zenon DEF TypeOK
    <2>6. ~Recorded(r)' /\ ~Unwritten(r)' /\ ~Promoter(r) /\ ~InTransaction(r)'
      BY <1>2, <2>2, <2>3 DEF Recorded, Unwritten, Promoter, InTransaction, At
    <2>7. Frame(r)
      BY <1>1, <1>2, <1>5, <2>4, PasskeyRows DEF Frame, TypeOK
    <2>8. /\ \A c \in Ceremony : <<"code", k>> # <<"ceremony", c>>
          /\ \A l \in Code : <<"code", k>> = <<"code", l>> => k = l
          /\ <<"code", k>> # <<>>
      OBVIOUS
    <2>9. ReqInv(r)'
      <3>1. PcFitsOp(requests[r]) /\ Holds(r) /\ Spent(r)
        BY <1>1, ReqParts DEF Inv
      <3>2. PcFitsOp(requests'[r])
        BY <1>1, <1>2, <2>2, <2>3, <2>4, <2>6, <2>8, <3>1, Zenon DEF PcFitsOp
      <3>3. Holds(r)'
        BY <1>1, <1>2, <2>2, <2>3, <2>4, <2>6, <2>8, <3>1, Zenon DEF Holds
      <3>4. Spent(r)'
        BY <1>1, <1>2, <2>2, <2>3, <2>4, <2>6, <2>8, <3>1, Zenon DEF Spent
      <3> QED BY <1>1, <1>2, <2>2, <2>3, <2>4, <2>6, <2>8, <3>2, <3>3, <3>4, ReqParts, Zenon
    <2>10. \A p \in Request : requests[p].proof # <<"code", k>>
      BY <1>3, <1>5 DEF Inv, ReqInv
    <2>11. Live' = Live
      BY <1>2, Zenon DEF Live
    <2>12. ~overlap' => SerialInv'
      BY <1>2, <2>3, <2>6, <2>11, SerialKept
    <2>13. \A l \in Code : x.proof = <<"code", l>> => codes[l] = "live"
      BY <1>5, <2>2, <2>8, Zenon
    <2> HIDE DEF k
    <2> QED BY <1>2, <2>2, <2>3, <2>5, <2>6, <2>7, <2>9, <2>10, <2>12, <2>13, RequestStep
  <1> QED BY <1>4, <1>5 DEF TryConsume

\* Steps that no request takes: a ceremony appears, or a session is revoked.
LEMMA OutsideStep ==
  ASSUME Inv, UNCHANGED <<passkeys, enrolled, codes, requests, overlap>>,
         ceremonies' \in [Ceremony -> [kind : {"none", "registration", "assertion", "gone"},
                                      allowed : SUBSET Credential]],
         \A c \in Ceremony : ceremonies[c].kind = "gone" => ceremonies'[c].kind = "gone",
         sessions' \in [Session -> [satisfied : BOOLEAN, revoked : BOOLEAN]],
         \A s \in Session : sessions'[s].satisfied => sessions[s].satisfied
  PROVE  Inv'
  <1>1. TypeOK'
    BY Zenon DEF Inv, TypeOK
  <1>2. /\ Live' = Live /\ \A r \in Request : /\ Recorded(r)' <=> Recorded(r)
                                              /\ Promoter(r)' <=> Promoter(r)
                                              /\ Unwritten(r)' <=> Unwritten(r)
                                              /\ InTransaction(r)' <=> InTransaction(r)
    BY Zenon DEF Live, Recorded, Promoter, Unwritten, InTransaction, At
  <1>3. ASSUME NEW r \in Request PROVE ReqInv(r)'
    <2>1. PcFitsOp(requests[r]) /\ Holds(r) /\ Spent(r) /\ Batch(r)
      BY ReqParts DEF Inv
    <2>2. Holds(r)'
      BY <1>2, <2>1, Zenon DEF Holds
    <2>3. Spent(r)'
      BY <2>1, Zenon DEF Spent
    <2>4. Batch(r)'
      BY <1>2, <2>1, Zenon DEF Batch
    <2> QED BY <2>1, <2>2, <2>3, <2>4, ReqParts, Zenon
  <1>4. ProofsDiffer' /\ CountersNeverRepeat'
    BY <1>2, Zenon DEF Inv, ProofsDiffer, CountersNeverRepeat
  <1>5. ~overlap' => SerialInv'
    BY <1>2, Zenon DEF Inv, SerialInv, At
  <1> QED BY <1>1, <1>2, <1>3, <1>4, <1>5, Zenon DEF Inv

LEMMA OutsideKeeps ==
  ASSUME Inv, \/ \E s \in Session : Logout(s)
              \/ \E c \in Ceremony : RegisterStart(c) \/ AssertStart(c)
              \/ UNCHANGED vars
  PROVE  Inv'
  <1>1. TypeOK
    BY DEF Inv
  <1>2. ASSUME NEW s \in Session, Logout(s) PROVE Inv'
    <2>1. /\ sessions' \in [Session -> [satisfied : BOOLEAN, revoked : BOOLEAN]]
          /\ \A u \in Session : sessions'[u].satisfied => sessions[u].satisfied
          /\ UNCHANGED <<passkeys, enrolled, codes, ceremonies, requests, overlap>>
      BY <1>1, <1>2 DEF Logout, TypeOK, db
    <2> QED BY <1>1, <2>1, OutsideStep DEF TypeOK
  <1>3. ASSUME NEW c \in Ceremony, RegisterStart(c) PROVE Inv'
    <2>1. /\ ceremonies' = [ceremonies EXCEPT ![c].kind = "registration"] /\ ceremonies[c] = NoCeremony
          /\ UNCHANGED <<passkeys, enrolled, codes, sessions, requests, overlap>>
      BY <1>3 DEF RegisterStart, Unused, db
    <2>2. /\ ceremonies' \in [Ceremony -> [kind : {"none", "registration", "assertion", "gone"},
                                           allowed : SUBSET Credential]]
          /\ \A d \in Ceremony : ceremonies[d].kind = "gone" => ceremonies'[d].kind = "gone"
      BY <1>1, <2>1 DEF TypeOK, NoCeremony
    <2> QED BY <1>1, <2>1, <2>2, OutsideStep DEF TypeOK
  <1>4. ASSUME NEW c \in Ceremony, AssertStart(c) PROVE Inv'
    <2> DEFINE named == {passkeys[i].credential : i \in Live}
    <2>1. /\ ceremonies' = [ceremonies EXCEPT ![c] = [kind |-> "assertion", allowed |-> named]]
          /\ ceremonies[c] = NoCeremony
          /\ UNCHANGED <<passkeys, enrolled, codes, sessions, requests, overlap>>
      BY <1>4 DEF AssertStart, Unused, db
    <2>2. named \in SUBSET Credential
      BY <1>1, PasskeyRows, Zenon DEF TypeOK, Live
    <2> HIDE DEF named
    <2>3. /\ ceremonies' \in [Ceremony -> [kind : {"none", "registration", "assertion", "gone"},
                                           allowed : SUBSET Credential]]
          /\ \A d \in Ceremony : ceremonies[d].kind = "gone" => ceremonies'[d].kind = "gone"
      BY <1>1, <2>1, <2>2 DEF TypeOK, NoCeremony
    <2> QED BY <1>1, <2>1, <2>3, OutsideStep, Zenon DEF TypeOK
  <1>5. CASE UNCHANGED vars
    BY <1>1, <1>5, OutsideStep, Zenon DEF TypeOK, vars, db
  <1> QED BY <1>2, <1>3, <1>4, <1>5, Zenon

\* An answer or a drop.
LEMMA Ends ==
  ASSUME Inv, NEW r \in Request, Answer(r) \/ Drop(r) PROVE Inv'
  <1>1. InFlight(r) /\ End(r) /\ UNCHANGED <<passkeys, enrolled, codes, ceremonies, sessions, overlap>>
    BY DEF Answer, Drop, InFlight, db
  <1> QED BY <1>1, EndStep DEF Inv, TypeOK

\* Every step keeps Inv.
LEMMA NextInv == Inv /\ [Next]_vars => Inv'
  <1> SUFFICES ASSUME Inv, [Next]_vars PROVE Inv'
    OBVIOUS
  <1>1. ASSUME NEW r \in Request, Register(r) PROVE Inv'
    BY <1>1, Arrivals, Takes, Writes, CommitPasskeyStep DEF Register
  <1>2. ASSUME NEW r \in Request, Assertion(r) PROVE Inv'
    BY <1>2, Arrivals, Takes, FindPasskeyStep, RecordUseStep, MarkStep DEF Assertion
  <1>3. ASSUME NEW r \in Request, Revocation(r) PROVE Inv'
    BY <1>3, Arrivals, Writes, RevokeCountStep, RevokeCommitStep DEF Revocation
  <1>4. ASSUME NEW r \in Request, Recovery(r) PROVE Inv'
    BY <1>4, Arrivals, RotateDeleteStep, RotateCommitStep, TryConsumeStep DEF Recovery
  <1>5. ASSUME NEW r \in Request, Answer(r) \/ Drop(r) PROVE Inv'
    BY <1>5, Ends
  <1> QED BY <1>1, <1>2, <1>3, <1>4, <1>5, OutsideKeeps DEF Next

LEMMA InvHolds == Spec => []Inv
  BY InitInv, NextInv, PTL DEF Spec

\* CommitPasskey and RevokeCommit set and clear mfa_enrolled with the rows: for any
\* registered passkeys and any number of requests, dropped anywhere, the flag says
\* whether a live passkey is left, unless two transactions overlapped.
THEOREM EnrolledTracks == Spec => []EnrolledTracksPasskeys
  <1>1. Inv => EnrolledTracksPasskeys
    BY Zenon DEF Inv, SerialInv, EnrolledTracksPasskeys
  <1> QED BY <1>1, InvHolds, PTL

\* take, try_consume and mark_mfa_satisfied: a promoted session has a request of its
\* own whose ceremony or recovery code no other request consumed.
THEOREM PromotedByOwn == Spec => []PromotedByOwnProof
  <1>1. Inv => PromotedByOwnProof
    <2> SUFFICES ASSUME Inv, NEW s \in Session, sessions[s].satisfied
                 PROVE  \E r \in Request : /\ requests[r].session = s /\ requests[r].proof # <<>>
                                           /\ \A q \in Request \ {r} : requests[q].proof # requests[r].proof
      BY DEF PromotedByOwnProof
    <2>1. PICK r \in Request : requests[r].session = s /\ Promoter(r)
      BY Zenon DEF Inv
    <2>2. requests[r].proof # <<>>
      BY <2>1, Zenon DEF Inv, ReqInv, Promoter
    <2> QED BY <2>1, <2>2 DEF Inv, ProofsDiffer
  <1> QED BY <1>1, InvHolds, PTL

\* record_use: however the assertions of one passkey interleave, no two that were
\* recorded carry the same counter, unless the authenticator counts nothing.
THEOREM CountersDiffer == Spec => []CountersNeverRepeat
  <1>1. Inv => CountersNeverRepeat
    BY DEF Inv
  <1> QED BY <1>1, InvHolds, PTL
=============================================================================
