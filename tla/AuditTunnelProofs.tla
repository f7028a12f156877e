-------------------------- MODULE AuditTunnelProofs --------------------------
(***************************************************************************)
(* Inv of AuditChain is inductive, for any transactions, payloads and ids; *)
(* with it, a log written without overlap verifies, and paging through the *)
(* log shows every entry once.  TunnelInv of AgentTunnel is inductive, for *)
(* any streams, clusters, organizations and releases and any capacity;     *)
(* with it, metrics are written only for what the heartbeats named.        *)
(***************************************************************************)
EXTENDS AuditChain, AgentTunnel, FiniteSetTheorems, SequenceTheorems, TLAPS

(* AuditChain *)

\* The record of a transaction, and its fields.
LEMMA TransactionFields ==
  ASSUME NEW pc \in {"idle", "open", "wait", "hash", "written", "done", "undone"}, NEW at \in Nat,
         NEW tail \in SUBSET Entry, NEW entry \in SUBSET Entry
  PROVE  /\ Transaction(pc, at, tail, entry) \in TxRow
         /\ Transaction(pc, at, tail, entry).pc = pc
         /\ Transaction(pc, at, tail, entry).at = at
         /\ Transaction(pc, at, tail, entry).tail = tail
         /\ Transaction(pc, at, tail, entry).entry = entry
  BY DEF Transaction, TxRow

\* The empty log satisfies Inv.
LEMMA InitInv == Init => Inv
  <1> SUFFICES ASSUME Init PROVE Inv
    OBVIOUS
  <1>1. txs \in [Tx -> TxRow] /\ \A t \in Tx : txs[t].tail = {} /\ txs[t].entry = {}
    BY DEF Init, Transaction, TxRow
  <1>2. TypeOK
    BY <1>1, Zenon DEF Init, TypeOK
  <1> QED BY <1>1, <1>2 DEF Init, Inv, Pending

\* A step of transaction t that commits nothing: its new entry, if it has one,
\* has an unused id.
LEMMA TxStep ==
  ASSUME Inv, NEW t \in Tx, NEW x \in TxRow, txs' = [txs EXCEPT ![t] = x], entries' = entries,
         clock' \in Nat, overlap' \in BOOLEAN, used' \in SUBSET (1..MaxId), used \subseteq used',
         x.tail \subseteq entries,
         \A e \in x.entry : e.id \in used' \ used
  PROVE  Inv'
  <1>1. txs'[t] = x /\ \A u \in Tx \ {t} : txs'[u] = txs[u]
    BY DEF Inv, TypeOK
  <1>2. TypeOK'
    BY DEF Inv, TypeOK
  <1>3. \A e \in entries' : e.id \in used'
    BY Zenon DEF Inv
  <1>4. ASSUME NEW u \in Tx PROVE Pending(u)'
    <2>1. CASE u = t
      BY <1>1, <2>1 DEF Inv, Pending
    <2>2. CASE u # t
      <3>1. Pending(u) /\ txs'[u] = txs[u]
        BY <1>1, <2>2 DEF Inv
      <3> QED BY <3>1, Zenon DEF Pending
    <2> QED BY <2>1, <2>2
  <1>5. \A u \in Tx : \A e \in txs[u].entry : e.id \in used
    BY DEF Inv, Pending
  <1>6. \A u, v \in Tx : \A e \in txs'[u].entry, f \in txs'[v].entry : u # v => e.id # f.id
    BY <1>1, <1>5 DEF Inv
  <1> QED BY <1>2, <1>3, <1>4, <1>6 DEF Inv

\* Commit: the entry joins the log with an id nothing else has.
LEMMA CommitKeeps == ASSUME Inv, NEW t \in Tx, Commit(t) PROVE Inv'
  <1> DEFINE x == Transaction("done", 0, {}, {})
  <1>1. x \in TxRow /\ x.tail = {} /\ x.entry = {}
    BY TransactionFields
  <1>2. /\ txs' = [txs EXCEPT ![t] = x] /\ entries' = entries \cup txs[t].entry
        /\ clock' = clock /\ used' = used /\ overlap' = overlap
    BY DEF Commit
  <1> HIDE DEF x
  <1>3. txs'[t] = x /\ \A u \in Tx \ {t} : txs'[u] = txs[u]
    BY <1>2 DEF Inv, TypeOK
  <1>4. txs[t] \in TxRow /\ txs[t].entry \in SUBSET Entry
    BY DEF Inv, TypeOK, TxRow
  <1>5. TypeOK'
    BY <1>1, <1>2, <1>4 DEF Inv, TypeOK
  <1>7. \A e \in entries' : e.id \in used'
    BY <1>2 DEF Inv, Pending
  <1>8. ASSUME NEW u \in Tx PROVE Pending(u)'
    <2>1. CASE u = t
      BY <1>1, <1>3, <2>1 DEF Pending
    <2>2. CASE u # t
      <3>1. Pending(u) /\ txs'[u] = txs[u]
        BY <1>3, <2>2 DEF Inv
      <3>2. \A e \in txs[u].entry, f \in txs[t].entry : e.id # f.id
        BY <2>2 DEF Inv
      <3> QED BY <1>2, <3>1, <3>2 DEF Pending
    <2> QED BY <2>1, <2>2
  <1>9. \A u, v \in Tx : \A e \in txs'[u].entry, f \in txs'[v].entry : u # v => e.id # f.id
    BY <1>1, <1>3 DEF Inv
  <1> QED BY <1>5, <1>7, <1>8, <1>9 DEF Inv

\* Insert: the id is unused.
LEMMA InsertKeeps == ASSUME Inv, NEW t \in Tx, Insert(t) PROVE Inv'
  <1>1. PICK id \in (1..MaxId) \ used, p \in Payload,
             prev \in IF txs[t].tail = {} THEN {Null} ELSE {e.hash : e \in txs[t].tail} :
          /\ used' = used \cup {id}
          /\ txs' = [txs EXCEPT ![t] = Transaction("written", txs[t].at, txs[t].tail,
               {[id |-> id, at |-> txs[t].at, payload |-> p, prev |-> prev, hash |-> Hash(prev, p)]})]
    BY Zenon DEF Insert
  <1> DEFINE e == [id |-> id, at |-> txs[t].at, payload |-> p, prev |-> prev, hash |-> Hash(prev, p)]
             x == Transaction("written", txs[t].at, txs[t].tail, {e})
  <1>2. entries' = entries /\ clock' = clock /\ overlap' = overlap
    BY DEF Insert
  <1>3. /\ txs[t] \in TxRow /\ txs[t].at \in Nat /\ txs[t].tail \in SUBSET Entry
        /\ txs[t].tail \subseteq entries /\ used \in SUBSET (1..MaxId)
        /\ clock \in Nat /\ overlap \in BOOLEAN
    BY DEF Inv, TypeOK, TxRow, Pending
  <1>4. prev \in Seq(Payload)
    <2>1. CASE txs[t].tail = {}
      BY <2>1 DEF Null
    <2>2. CASE txs[t].tail # {}
      <3>1. PICK f \in txs[t].tail : prev = f.hash
        BY <2>2
      <3>2. f.hash \in Seq(Payload)
        BY <1>3 DEF Entry
      <3> QED BY <3>1, <3>2
    <2> QED BY <2>1, <2>2
  <1>5. e \in Entry /\ e.id = id
    BY <1>3, <1>4 DEF Entry, Hash
  <1> HIDE DEF e
  <1>6. x \in TxRow /\ x.tail = txs[t].tail /\ x.entry = {e}
    BY <1>3, <1>5, TransactionFields
  <1>7. txs' = [txs EXCEPT ![t] = x]
    BY <1>1 DEF e
  <1> HIDE DEF x
  <1>8. \A f \in x.entry : f.id \in used' \ used
    BY <1>1, <1>5, <1>6
  <1>9. used' \in SUBSET (1..MaxId) /\ used \subseteq used'
    BY <1>1, <1>3
  <1> QED BY <1>2, <1>3, <1>6, <1>7, <1>8, <1>9, TxStep, Zenon

\* The other steps of a transaction have no entry yet, or none any more.
LEMMA OtherKeeps ==
  ASSUME Inv, NEW t \in Tx, Begin(t) \/ SelectTail(t) \/ LockTail(t) \/ Rollback(t)
  PROVE  Inv'
  <1>1. /\ txs[t].at \in Nat /\ txs[t].tail \in SUBSET Entry /\ txs[t].tail \subseteq entries
        /\ entries \in SUBSET Entry /\ clock \in Nat /\ overlap \in BOOLEAN
        /\ used \in SUBSET (1..MaxId)
    BY DEF Inv, TypeOK, TxRow, Pending
  <1>2. Last(entries) \in SUBSET Entry /\ Last(entries) \subseteq entries
    BY <1>1 DEF Last
  <1>3. \E x \in TxRow : txs' = [txs EXCEPT ![t] = x] /\ x.tail \subseteq entries /\ x.entry = {}
    <2>1. CASE Begin(t)
      <3> DEFINE x == Transaction("open", clock + 1, {}, {})
      <3>1. x \in TxRow /\ x.tail = {} /\ x.entry = {}
        BY <1>1 DEF Transaction, TxRow
      <3>2. txs' = [txs EXCEPT ![t] = x]
        BY <2>1 DEF Begin
      <3> HIDE DEF x
      <3> QED BY <3>1, <3>2, Zenon
    <2>2. CASE SelectTail(t)
      <3> DEFINE x == Transaction("wait", txs[t].at, Last(entries), {})
      <3>1. x \in TxRow /\ x.tail = Last(entries) /\ x.entry = {}
        BY <1>1, <1>2, TransactionFields
      <3>2. txs' = [txs EXCEPT ![t] = x]
        BY <2>2 DEF SelectTail
      <3> HIDE DEF x
      <3> QED BY <1>2, <3>1, <3>2, Zenon
    <2>3. CASE LockTail(t)
      <3> DEFINE x == Transaction("hash", txs[t].at, txs[t].tail, {})
      <3>1. x \in TxRow /\ x.tail = txs[t].tail /\ x.entry = {}
        BY <1>1, TransactionFields
      <3>2. txs' = [txs EXCEPT ![t] = x]
        BY <2>3 DEF LockTail
      <3> HIDE DEF x
      <3> QED BY <1>1, <3>1, <3>2, Zenon
    <2>4. CASE Rollback(t)
      <3> DEFINE x == Transaction("undone", 0, {}, {})
      <3>1. x \in TxRow /\ x.tail = {} /\ x.entry = {}
        BY TransactionFields
      <3>2. txs' = [txs EXCEPT ![t] = x]
        BY <2>4 DEF Rollback
      <3> HIDE DEF x
      <3> QED BY <3>1, <3>2, Zenon
    <2> QED BY <2>1, <2>2, <2>3, <2>4
  <1>4. entries' = entries /\ used' = used
    BY DEF Begin, SelectTail, LockTail, Rollback
  <1>5. overlap' \in BOOLEAN
    BY <1>1, Zenon DEF Begin, SelectTail, LockTail, Rollback
  <1>6. clock' \in Nat
    BY <1>1 DEF Begin, SelectTail, LockTail, Rollback
  <1> QED BY <1>1, <1>3, <1>4, <1>5, <1>6, TxStep, Zenon

\* Every step keeps Inv.
LEMMA NextInv == Inv /\ [Next]_vars => Inv'
  <1> SUFFICES ASSUME Inv, [Next]_vars PROVE Inv'
    OBVIOUS
  <1>1. CASE UNCHANGED <<entries, txs, clock, used, overlap>>
    BY <1>1 DEF Inv, TypeOK, Pending
  <1>2. CASE UNCHANGED vars \/ OpenLog \/ LoadMore
    BY <1>1, <1>2 DEF vars, OpenLog, LoadMore
  <1> QED BY <1>2, CommitKeeps, InsertKeeps, OtherKeeps DEF Next

\* The inductive invariant holds in every reachable state.
THEOREM InvHolds == Spec => []Inv
  BY InitInv, NextInv, PTL DEF Spec

-----------------------------------------------------------------------------
\* An entry younger than all others is the last one.
LEMMA YoungestIsLast ==
  ASSUME NEW rows \in SUBSET Entry, NEW e \in Entry, \A f \in rows : f.at < e.at
  PROVE  Last(rows \cup {e}) = {e}
  <1>1. e.at \in Nat /\ \A f \in rows : f.at \in Nat
    BY DEF Entry
  <1>2. \A f \in rows : Before(f, e) /\ ~Before(e, f) /\ f # e
    BY <1>1 DEF Before
  <1> QED BY <1>2 DEF Last

\* What audit_log_verify says depends on the entries alone.
LEMMA BrokenOfEntries == ASSUME entries' = entries PROVE Broken' = Broken
  BY DEF Broken, PrevHash, Predecessor

\* A step of the active transaction that commits nothing and keeps its start time.
LEMMA SerialStep ==
  ASSUME Inv, SerialInv, NEW t \in Tx, NEW x \in TxRow, txs' = [txs EXCEPT ![t] = x],
         entries' = entries, clock' = clock, Active(t),
         x.pc \in {"wait", "hash", "written"} => x.at = txs[t].at /\ x.tail = Last(entries),
         x.pc \in {"wait", "hash", "written", "undone"},
         x.pc = "written" => \E e \in x.entry :
           /\ x.entry = {e} /\ e.at = x.at /\ e.hash = Hash(e.prev, e.payload)
           /\ IF x.tail = {} THEN e.prev = Null ELSE \E f \in x.tail : e.prev = f.hash
  PROVE  SerialInv'
  <1>1. txs'[t] = x /\ \A u \in Tx \ {t} : txs'[u] = txs[u]
    BY DEF Inv, TypeOK
  <1>2. \A u \in Tx : Active(u)' => u = t
    BY <1>1 DEF SerialInv, Active
  <1>3. Active(t)' => x.at = clock /\ \A e \in entries : e.at < clock
    BY <1>1 DEF SerialInv, Active
  <1>4. \A u, v \in Tx : Active(u)' /\ Active(v)' => u = v
    BY <1>2
  <1>5. \A u \in Tx : Active(u)' => txs'[u].at = clock' /\ \A e \in entries' : e.at < clock'
    BY <1>1, <1>2, <1>3
  <1>6. \A u \in Tx : txs'[u].pc \in {"wait", "hash", "written"} => txs'[u].tail = Last(entries')
    BY <1>1, <1>2 DEF Active
  <1>7. \A u \in Tx : txs'[u].pc = "written" => \E e \in txs'[u].entry :
          /\ txs'[u].entry = {e} /\ e.at = txs'[u].at /\ e.hash = Hash(e.prev, e.payload)
          /\ IF txs'[u].tail = {} THEN e.prev = Null ELSE \E f \in txs'[u].tail : e.prev = f.hash
    BY <1>1, <1>2 DEF Active
  <1>8. /\ \A e \in entries' : e.at <= clock'
        /\ \A e, f \in entries' : e.at = f.at => e = f
        /\ entries' = {} \/ \E e \in entries' : Last(entries') = {e}
    BY DEF SerialInv
  <1>9. Broken' = {}
    BY BrokenOfEntries DEF SerialInv
  <1> QED BY <1>4, <1>5, <1>6, <1>7, <1>8, <1>9 DEF SerialInv

\* Begin: nothing else is active, and the new transaction is the youngest.
LEMMA SerialBegin ==
  ASSUME Inv, SerialInv, NEW t \in Tx, Begin(t), ~overlap' PROVE SerialInv'
  <1> DEFINE x == Transaction("open", clock + 1, {}, {})
  <1>1. /\ txs' = [txs EXCEPT ![t] = x] /\ entries' = entries /\ clock' = clock + 1
        /\ clock \in Nat /\ entries \in SUBSET Entry
    BY DEF Begin, Inv, TypeOK
  <1>2. x.pc = "open" /\ x.at = clock + 1
    BY DEF Transaction
  <1>3. \A u \in Tx : ~Active(u)
    BY Zenon DEF Begin
  <1> HIDE DEF x
  <1>4. txs'[t] = x /\ \A u \in Tx \ {t} : txs'[u] = txs[u]
    BY <1>1 DEF Inv, TypeOK
  <1>5. \A u \in Tx : Active(u)' => u = t
    BY <1>3, <1>4 DEF Active
  <1>6. \A e \in entries : e.at \in Nat /\ e.at <= clock
    BY <1>1 DEF SerialInv, Entry
  <1>7. \A e \in entries' : e.at < clock' /\ e.at <= clock'
    BY <1>1, <1>6
  <1>8. \A u \in Tx : txs'[u].pc \notin {"wait", "hash", "written"}
    BY <1>2, <1>4, <1>5 DEF Active
  <1>9. /\ \A e, f \in entries' : e.at = f.at => e = f
        /\ entries' = {} \/ \E e \in entries' : Last(entries') = {e}
    BY <1>1 DEF SerialInv
  <1>10. Broken' = {}
    BY <1>1, BrokenOfEntries DEF SerialInv
  <1>11. \A u \in Tx : Active(u)' => txs'[u].at = clock'
    BY <1>1, <1>2, <1>4, <1>5
  <1> QED BY <1>5, <1>7, <1>8, <1>9, <1>10, <1>11 DEF SerialInv

\* Commit: the new entry follows the one that was last and is now last itself.
LEMMA SerialCommit ==
  ASSUME Inv, SerialInv, NEW t \in Tx, Commit(t) PROVE SerialInv'
  <1> DEFINE x == Transaction("done", 0, {}, {})
  <1>1. /\ txs' = [txs EXCEPT ![t] = x] /\ entries' = entries \cup txs[t].entry
        /\ clock' = clock /\ txs[t].pc = "written"
        /\ clock \in Nat /\ entries \in SUBSET Entry /\ txs[t].entry \in SUBSET Entry
    BY DEF Commit, Inv, TypeOK, TxRow
  <1>2. x.pc = "done"
    BY DEF Transaction
  <1> HIDE DEF x
  <1>3. txs'[t] = x /\ \A u \in Tx \ {t} : txs'[u] = txs[u]
    BY <1>1 DEF Inv, TypeOK
  <1>4. Active(t)
    BY <1>1 DEF Active
  <1>5. \A u \in Tx : ~Active(u)'
    BY <1>2, <1>3, <1>4 DEF SerialInv, Active
  <1>6. txs[t].at = clock /\ txs[t].tail = Last(entries) /\ \A f \in entries : f.at < clock
    BY <1>1, <1>4 DEF SerialInv
  <1>7. PICK e \in txs[t].entry :
          /\ txs[t].entry = {e} /\ e.at = txs[t].at /\ e.hash = Hash(e.prev, e.payload)
          /\ IF txs[t].tail = {} THEN e.prev = Null ELSE \E f \in txs[t].tail : e.prev = f.hash
    BY <1>1 DEF SerialInv
  <1>8. e \in Entry /\ e.at = clock /\ entries' = entries \cup {e}
    BY <1>1, <1>6, <1>7
  <1>9. \A f \in entries : f.at \in Nat /\ f.at < e.at /\ f # e
    BY <1>1, <1>6, <1>8 DEF Entry
  <1>10. Last(entries') = {e}
    BY <1>1, <1>8, <1>9, YoungestIsLast, Zenon
  <1>11. /\ \A f \in entries' : f.at <= clock'
         /\ \A f, g \in entries' : f.at = g.at => f = g
    <2>1. \A f \in entries' : f.at <= clock'
      BY <1>1, <1>8, <1>9
    <2>2. \A f, g \in entries : f.at = g.at => f = g
      BY DEF SerialInv
    <2>3. \A f \in entries : f.at # e.at
      BY <1>1, <1>8, <1>9
    <2> QED BY <1>8, <2>1, <2>2, <2>3
  <1>12. \A f \in entries : Before(f, e) /\ ~Before(e, f)
    BY <1>1, <1>8, <1>9 DEF Before
  <1>13. ~Before(e, e)
    BY <1>1, <1>8 DEF Before, Entry
  <1>14. ASSUME NEW g \in entries PROVE g \notin Broken'
    <2>1. {f \in entries' : Before(f, g)} = {f \in entries : Before(f, g)}
      BY <1>8, <1>12
    <2>2. PrevHash(g)' = PrevHash(g)
      BY <2>1, Zenon DEF PrevHash, Predecessor
    <2>3. g \notin Broken
      BY DEF SerialInv
    <2> QED BY <2>2, <2>3 DEF Broken
  <1>15. e \notin Broken'
    <2>1. {f \in entries' : Before(f, e)} = entries
      BY <1>8, <1>12, <1>13
    <2>2. Predecessor(e)' = Last(entries)
      BY <2>1 DEF Predecessor
    <2>3. PrevHash(e)' = e.prev
      <3>1. CASE entries = {}
        <4>1. Last(entries) = {}
          BY <3>1 DEF Last
        <4> QED BY <1>6, <1>7, <2>2, <4>1 DEF PrevHash
      <3>2. CASE entries # {}
        <4>1. PICK l \in entries : Last(entries) = {l}
          BY <3>2 DEF SerialInv
        <4>2. e.prev = l.hash
          BY <1>6, <1>7, <4>1
        <4>3. PrevHash(e)' = CHOOSE h \in {f.hash : f \in {l}} : TRUE
          BY <2>2, <4>1 DEF PrevHash
        <4>4. {f.hash : f \in {l}} = {l.hash}
          OBVIOUS
        <4>5. (CHOOSE h \in {l.hash} : TRUE) = l.hash
          OBVIOUS
        <4> QED BY <4>2, <4>3, <4>4, <4>5
      <3> QED BY <3>1, <3>2
    <2> QED BY <1>7, <2>3 DEF Broken
  <1>16. Broken' = {}
    <2>1. Broken' \subseteq entries'
      BY DEF Broken
    <2> QED BY <1>8, <1>14, <1>15, <2>1
  <1>17. \A u \in Tx : txs'[u].pc \notin {"wait", "hash", "written"}
    BY <1>5 DEF Active
  <1>18. entries' = {} \/ \E f \in entries' : Last(entries') = {f}
    BY <1>8, <1>10
  <1> QED BY <1>5, <1>11, <1>16, <1>17, <1>18 DEF SerialInv

\* SELECT, lock, insert and rollback of the one active transaction.
LEMMA SerialOther ==
  ASSUME Inv, SerialInv, NEW t \in Tx, SelectTail(t) \/ LockTail(t) \/ Insert(t) \/ Rollback(t)
  PROVE  SerialInv'
  <1>1. /\ txs[t].at \in Nat /\ txs[t].tail \in SUBSET Entry
        /\ entries \in SUBSET Entry /\ Last(entries) \in SUBSET Entry
        /\ entries' = entries /\ clock' = clock /\ Active(t)
    BY DEF Inv, TypeOK, TxRow, Last, SelectTail, LockTail, Insert, Rollback, Active
  <1>2. CASE SelectTail(t)
    <2> DEFINE x == Transaction("wait", txs[t].at, Last(entries), {})
    <2>1. x \in TxRow /\ x.pc = "wait" /\ x.at = txs[t].at /\ x.tail = Last(entries)
      BY <1>1, TransactionFields
    <2>2. txs' = [txs EXCEPT ![t] = x]
      BY <1>2 DEF SelectTail
    <2> HIDE DEF x
    <2> QED BY <1>1, <2>1, <2>2, SerialStep, Zenon
  <1>3. CASE LockTail(t)
    <2> DEFINE x == Transaction("hash", txs[t].at, txs[t].tail, {})
    <2>1. x \in TxRow /\ x.pc = "hash" /\ x.at = txs[t].at /\ x.tail = txs[t].tail
      BY <1>1, TransactionFields
    <2>2. txs' = [txs EXCEPT ![t] = x] /\ txs[t].tail = Last(entries)
      BY <1>3 DEF LockTail, SerialInv
    <2> HIDE DEF x
    <2> QED BY <1>1, <2>1, <2>2, SerialStep, Zenon
  <1>4. CASE Insert(t)
    <2>1. PICK id \in (1..MaxId) \ used, p \in Payload,
               prev \in IF txs[t].tail = {} THEN {Null} ELSE {f.hash : f \in txs[t].tail} :
            txs' = [txs EXCEPT ![t] = Transaction("written", txs[t].at, txs[t].tail,
              {[id |-> id, at |-> txs[t].at, payload |-> p, prev |-> prev, hash |-> Hash(prev, p)]})]
      BY <1>4, Zenon DEF Insert
    <2> DEFINE e == [id |-> id, at |-> txs[t].at, payload |-> p, prev |-> prev, hash |-> Hash(prev, p)]
               x == Transaction("written", txs[t].at, txs[t].tail, {e})
    <2>2. IF txs[t].tail = {} THEN prev = Null ELSE \E f \in txs[t].tail : prev = f.hash
      OBVIOUS
    <2>3. prev \in Seq(Payload)
      <3>1. \A f \in txs[t].tail : f.hash \in Seq(Payload)
        BY <1>1 DEF Entry
      <3>2. Null \in Seq(Payload)
        BY DEF Null
      <3> QED BY <2>2, <3>1, <3>2
    <2>4. /\ e \in Entry /\ e.at = txs[t].at /\ e.prev = prev /\ e.payload = p
          /\ e.hash = Hash(prev, p)
      BY <1>1, <2>3, SMTT(30) DEF Entry, Hash
    <2>5. txs' = [txs EXCEPT ![t] = x]
      BY <2>1
    <2> HIDE DEF e
    <2>6. /\ x \in TxRow /\ x.pc = "written" /\ x.at = txs[t].at /\ x.tail = txs[t].tail
          /\ x.entry = {e}
      <3>1. {e} \in SUBSET Entry
        BY <2>4, Zenon
      <3>2. txs[t].at \in Nat /\ txs[t].tail \in SUBSET Entry
        BY <1>1
      <3> QED BY <3>1, <3>2, TransactionFields, SMTT(30)
    <2> HIDE DEF x
    <2>7. txs[t].tail = Last(entries)
      BY <1>4 DEF Insert, SerialInv
    <2>8. \E f \in x.entry :
            /\ x.entry = {f} /\ f.at = x.at /\ f.hash = Hash(f.prev, f.payload)
            /\ IF x.tail = {} THEN f.prev = Null ELSE \E g \in x.tail : f.prev = g.hash
      BY <2>2, <2>4, <2>6
    <2> QED BY <1>1, <2>5, <2>6, <2>7, <2>8, SerialStep, Zenon
  <1>5. CASE Rollback(t)
    <2> DEFINE x == Transaction("undone", 0, {}, {})
    <2>1. x \in TxRow /\ x.pc = "undone"
      BY TransactionFields, SMTT(30)
    <2>2. txs' = [txs EXCEPT ![t] = x]
      BY <1>5 DEF Rollback
    <2> HIDE DEF x
    <2> QED BY <1>1, <2>1, <2>2, SerialStep, Zenon
  <1> QED BY <1>2, <1>3, <1>4, <1>5

\* Every step of a log written without overlap keeps SerialInv.
LEMMA NextSerial ==
  Inv /\ (~overlap => SerialInv) /\ [Next]_vars => (~overlap' => SerialInv')
  <1> SUFFICES ASSUME Inv, ~overlap => SerialInv, [Next]_vars, ~overlap' PROVE SerialInv'
    OBVIOUS
  <1>1. CASE UNCHANGED <<entries, txs, clock, used, overlap>>
    BY <1>1, BrokenOfEntries DEF SerialInv, Active
  <1>2. CASE UNCHANGED vars \/ OpenLog \/ LoadMore
    BY <1>1, <1>2 DEF vars, OpenLog, LoadMore
  <1>3. ASSUME NEW t \in Tx, Begin(t) PROVE SerialInv'
    <2>1. ~overlap
      BY <1>3, Zenon DEF Begin
    <2> QED BY <1>3, <2>1, SerialBegin
  <1>4. ASSUME NEW t \in Tx, SelectTail(t) \/ LockTail(t) \/ Insert(t) \/ Rollback(t)
        PROVE  SerialInv'
    <2>1. overlap' = overlap
      BY <1>4 DEF SelectTail, LockTail, Insert, Rollback
    <2> QED BY <1>4, <2>1, SerialOther
  <1>5. ASSUME NEW t \in Tx, Commit(t) PROVE SerialInv'
    <2>1. overlap' = overlap
      BY <1>5 DEF Commit
    <2> QED BY <1>5, <2>1, SerialCommit
  <1> QED BY <1>2, <1>3, <1>4, <1>5 DEF Next

\* audit_log_verify accepts every log whose transactions did not overlap, whatever
\* their number and however many rolled back.
THEOREM SerialLogsVerify == Spec => []SerialLogVerifies
  <1> DEFINE SI == ~overlap => SerialInv
  <1>1. Init => SI
    <2> SUFFICES ASSUME Init PROVE SerialInv
      OBVIOUS
    <2>1. \A t \in Tx : txs[t].pc = "idle"
      BY DEF Init, Transaction
    <2> QED BY <2>1 DEF Init, SerialInv, Active, Broken
  <1>2. Inv /\ SI /\ [Next]_vars => SI'
    BY NextSerial
  <1>3. SI => SerialLogVerifies
    BY DEF SerialInv, SerialLogVerifies
  <1> HIDE DEF SI
  <1> QED BY <1>1, <1>2, <1>3, InvHolds, PTL DEF Spec

-----------------------------------------------------------------------------
\* How many of the entries have a higher id than e.
Rank(B, e) == Cardinality({f \in B : f.id > e.id})

\* Entries with different ids are numbered from 0 by how many have a higher id.
LEMMA Ranked ==
  ASSUME NEW B, IsFiniteSet(B), \A e \in B : e.id \in Int, \A e, f \in B : e.id = f.id => e = f
  PROVE  /\ Cardinality(B) \in Nat
         /\ \A e \in B : Rank(B, e) \in 0..(Cardinality(B) - 1)
         /\ \A e, f \in B : e.id > f.id => Rank(B, e) < Rank(B, f)
         /\ \A k \in 0..(Cardinality(B) - 1) : \E e \in B : Rank(B, e) = k
  <1> DEFINE Above(e) == {f \in B : f.id > e.id}
             n == Cardinality(B)
  <1>1. n \in Nat
    BY FS_CardinalityType
  <1>2. ASSUME NEW e \in B
        PROVE  IsFiniteSet(Above(e)) /\ Rank(B, e) = Cardinality(Above(e)) /\ Rank(B, e) \in Nat
    <2>1. Above(e) \in SUBSET B
      OBVIOUS
    <2>2. IsFiniteSet(Above(e))
      BY <2>1, FS_Subset
    <2> QED BY <2>2, FS_CardinalityType DEF Rank
  <1>3. ASSUME NEW e, NEW S, IsFiniteSet(S), NEW T \in SUBSET S, e \in S, e \notin T
        PROVE  Cardinality(T) < Cardinality(S)
    <2>1. IsFiniteSet(T) /\ Cardinality(T) <= Cardinality(S) /\ Cardinality(S) # Cardinality(T)
      BY <1>3, FS_Subset
    <2>2. Cardinality(T) \in Nat /\ Cardinality(S) \in Nat
      BY <1>3, <2>1, FS_CardinalityType
    <2> QED BY <2>1, <2>2
  <1>4. ASSUME NEW e \in B PROVE Rank(B, e) < n
    <2>1. Above(e) \in SUBSET B /\ e \notin Above(e)
      OBVIOUS
    <2>2. Cardinality(Above(e)) < n
      BY <1>3, <2>1
    <2> QED BY <1>2, <2>2
  <1>5. ASSUME NEW e \in B, NEW f \in B, e.id > f.id PROVE Rank(B, e) < Rank(B, f)
    <2>1. Above(e) \in SUBSET Above(f) /\ e \in Above(f) /\ e \notin Above(e)
      BY <1>5
    <2>2. IsFiniteSet(Above(f))
      BY <1>2
    <2> HIDE DEF Above
    <2>3. Cardinality(Above(e)) < Cardinality(Above(f))
      BY <1>3, <2>1, <2>2
    <2> QED BY <1>2, <2>3
  <1> HIDE DEF n
  <1>6. ASSUME NEW e \in B PROVE Rank(B, e) \in 0..(n - 1)
    <2>1. Rank(B, e) \in Nat
      BY <1>2, Zenon
    <2>2. Rank(B, e) < n
      BY <1>4
    <2> QED BY <1>1, <2>1, <2>2
  <1> DEFINE R == [e \in B |-> Rank(B, e)]
  <1>7. R \in Injection(B, 0..(n - 1))
    <2>1. \A e, f \in B : Rank(B, e) = Rank(B, f) => e = f
      <3> SUFFICES ASSUME NEW e \in B, NEW f \in B, e # f PROVE Rank(B, e) # Rank(B, f)
        OBVIOUS
      <3>1. e.id > f.id \/ f.id > e.id
        OBVIOUS
      <3>2. Rank(B, e) \in Nat /\ Rank(B, f) \in Nat
        BY <1>2, Zenon
      <3>3. Rank(B, e) < Rank(B, f) \/ Rank(B, f) < Rank(B, e)
        BY <1>5, <3>1
      <3> QED BY <3>2, <3>3
    <2> QED BY <1>6, <2>1 DEF Injection, IsInjective
  <1>8. IsFiniteSet(0..(n - 1)) /\ Cardinality(0..(n - 1)) = n
    <2>1. 0 \in Int /\ n - 1 \in Int
      BY <1>1
    <2>2. IsFiniteSet(0..(n - 1)) /\ Cardinality(0..(n - 1)) = IF 0 > n - 1 THEN 0 ELSE (n - 1) - 0 + 1
      BY <2>1, FS_Interval
    <2> QED BY <1>1, <2>2
  <1>9. R \in Surjection(B, 0..(n - 1))
    BY <1>7, <1>8, FS_Injection DEF n
  <1>10. \A k \in 0..(n - 1) : \E e \in B : Rank(B, e) = k
    BY <1>9, Zenon DEF Surjection
  <1> QED BY <1>1, <1>5, <1>6, <1>10 DEF n

\* The entries are finitely many: their ids are.
LEMMA FiniteEntries ==
  ASSUME entries \in SUBSET Entry, \A e, f \in entries : e.id = f.id => e = f
  PROVE  IsFiniteSet(entries)
  <1> DEFINE g == [e \in entries |-> e.id]
  <1>1. g \in Injection(entries, 1..MaxId)
    BY DEF Injection, IsInjective, Entry
  <1>2. IsFiniteSet(1..MaxId)
    BY FS_Interval, ConstantsAssumption
  <1> QED BY <1>1, <1>2, FS_Injection

\* list: a page holds entries below the cursor, highest id first, skips none down to
\* its last, and is full unless it holds them all.
IsPage(page, c) ==
    /\ page \in Seq(Entry)
    /\ \A i \in DOMAIN page : page[i] \in entries /\ page[i].id < c
    /\ \A i, j \in DOMAIN page : i < j => page[i].id > page[j].id
    /\ page # <<>> => \A e \in entries : e.id < c /\ e.id >= page[Len(page)].id =>
                        \E i \in DOMAIN page : e = page[i]
    /\ Len(page) <= PageSize
    /\ Len(page) # PageSize => \A e \in entries : e.id < c => \E i \in DOMAIN page : e = page[i]

\* Page is such a page, whatever the entries and the cursor.
LEMMA PageOf ==
  ASSUME entries \in SUBSET Entry, \A e, f \in entries : e.id = f.id => e = f, NEW c \in Int,
         NEW page, page = Page(c)
  PROVE  IsPage(page, c)
  <1> DEFINE below == {e \in entries : e.id < c}
             top == {e \in below : Cardinality({f \in below : f.id > e.id}) < PageSize}
             n == Cardinality(top)
  <1>1. PageSize \in Nat \ {0}
    BY ConstantsAssumption
  <1>2. IsFiniteSet(entries)
    BY FiniteEntries
  <1>3. below \in SUBSET entries /\ top \in SUBSET below
    OBVIOUS
  <1>4. IsFiniteSet(below) /\ IsFiniteSet(top)
    <2>1. IsFiniteSet(below)
      BY <1>2, <1>3, FS_Subset
    <2> HIDE DEF below, top
    <2> QED BY <1>3, <2>1, FS_Subset
  <1>5. \A e \in entries : e \in Entry /\ e.id \in Int
    BY ConstantsAssumption DEF Entry
  <1>6. /\ Cardinality(below) \in Nat
        /\ \A e \in below : Rank(below, e) \in 0..(Cardinality(below) - 1)
        /\ \A e, f \in below : e.id > f.id => Rank(below, e) < Rank(below, f)
        /\ \A k \in 0..(Cardinality(below) - 1) : \E e \in below : Rank(below, e) = k
    <2>1. (\A e \in below : e.id \in Int) /\ (\A e, f \in below : e.id = f.id => e = f)
      BY <1>5
    <2> HIDE DEF below
    <2> QED BY <1>4, <2>1, Ranked
  <1>7. /\ n \in Nat
        /\ \A e \in top : Rank(top, e) \in 0..(n - 1)
        /\ \A e, f \in top : e.id > f.id => Rank(top, e) < Rank(top, f)
        /\ \A k \in 0..(n - 1) : \E e \in top : Rank(top, e) = k
    <2>1. (\A e \in top : e.id \in Int) /\ (\A e, f \in top : e.id = f.id => e = f)
      BY <1>5
    <2> HIDE DEF top
    <2> QED BY <1>4, <2>1, Ranked
  <1>8. \A e \in below : e \in top <=> Rank(below, e) < PageSize
    BY DEF Rank
  <1>9. ASSUME NEW e \in top PROVE Rank(top, e) = Rank(below, e)
    <2>1. \A f \in below : f.id > e.id => f \in top
      <3> SUFFICES ASSUME NEW f \in below, f.id > e.id PROVE Rank(below, f) < PageSize
        BY <1>8, Zenon
      <3>1. e \in below /\ Rank(below, e) < PageSize /\ Rank(below, f) < Rank(below, e)
        BY <1>6, <1>8
      <3>2. Rank(below, e) \in Int /\ Rank(below, f) \in Int /\ PageSize \in Int
        BY <1>1, <1>6, <3>1
      <3> QED BY <3>1, <3>2
    <2>2. {f \in top : f.id > e.id} = {f \in below : f.id > e.id}
      BY <1>3, <2>1
    <2> QED BY <2>2, Zenon DEF Rank
  <1>10. page = [i \in 1..n |-> CHOOSE e \in top : Cardinality({f \in top : f.id > e.id}) = i - 1]
    BY DEF Page
  <1>11. ASSUME NEW i \in 1..n PROVE page[i] \in top /\ Rank(top, page[i]) = i - 1
    <2>1. i - 1 \in 0..(n - 1)
      BY <1>7
    <2>2. \E e \in top : Rank(top, e) = i - 1
      BY <1>7, <2>1, Zenon
    <2>3. \E e \in top : Cardinality({f \in top : f.id > e.id}) = i - 1
      BY <2>2, Zenon DEF Rank
    <2>4. page[i] = CHOOSE e \in top : Cardinality({f \in top : f.id > e.id}) = i - 1
      BY <1>10, Zenon
    <2> HIDE DEF top, n
    <2> QED BY <2>3, <2>4, Zenon DEF Rank
  <1> HIDE DEF n, top
  <1>12. DOMAIN page = 1..n /\ page \in [1..n -> Entry]
    <2>1. \A i \in 1..n : page[i] \in Entry
      BY <1>3, <1>5, <1>11
    <2> QED BY <1>10, <2>1
  <1>13. page \in Seq(Entry) /\ Len(page) = n
    BY <1>7, <1>12, LenProperties
  <1>14. ASSUME NEW e \in top PROVE \E i \in DOMAIN page : e = page[i]
    <2>1. Rank(top, e) + 1 \in 1..n
      BY <1>7
    <2>2. page[Rank(top, e) + 1] \in top /\ Rank(top, page[Rank(top, e) + 1]) = (Rank(top, e) + 1) - 1
      BY <1>11, <2>1
    <2>3. Rank(top, page[Rank(top, e) + 1]) = Rank(top, e)
      BY <1>7, <2>2
    <2>4. page[Rank(top, e) + 1] = e
      <3>1. SUFFICES page[Rank(top, e) + 1].id = e.id
        BY <1>3, <2>2
      <3>2. page[Rank(top, e) + 1].id \in Int /\ e.id \in Int
        BY <1>3, <1>5, <2>2
      <3>3. Rank(top, e) \in Int
        BY <1>7
      <3> QED BY <1>7, <2>2, <2>3, <3>2, <3>3
    <2> QED BY <1>12, <2>1, <2>4
  <1>15. ASSUME NEW i \in DOMAIN page, NEW j \in DOMAIN page, i < j PROVE page[i].id > page[j].id
    <2>1. page[i] \in top /\ page[j] \in top /\ Rank(top, page[i]) = i - 1 /\ Rank(top, page[j]) = j - 1
      BY <1>11, <1>12
    <2>2. page[i].id \in Int /\ page[j].id \in Int /\ i \in Int /\ j \in Int
      BY <1>3, <1>5, <1>7, <1>12, <2>1
    <2>3. page[i].id # page[j].id
      <3> SUFFICES ASSUME page[i].id = page[j].id PROVE FALSE
        OBVIOUS
      <3>1. page[i] = page[j]
        BY <1>3, <2>1
      <3> QED BY <1>15, <2>1, <2>2, <3>1
    <2>4. ~(page[j].id > page[i].id)
      <3> SUFFICES ASSUME page[j].id > page[i].id PROVE FALSE
        OBVIOUS
      <3>1. Rank(top, page[j]) < Rank(top, page[i])
        BY <1>7, <2>1
      <3> QED BY <1>15, <2>1, <2>2, <3>1
    <2> QED BY <2>2, <2>3, <2>4
  <1>16. n <= PageSize
    <2>1. CASE n = 0
      BY <1>1, <2>1
    <2>2. CASE n # 0
      <3>1. n \in 1..n
        BY <1>7, <2>2
      <3>2. page[n] \in top /\ Rank(top, page[n]) = n - 1
        BY <1>11, <3>1
      <3>3. Rank(below, page[n]) = n - 1 /\ Rank(below, page[n]) < PageSize
        BY <1>3, <1>8, <1>9, <3>2
      <3> QED BY <1>1, <1>7, <3>3
    <2> QED BY <2>1, <2>2
  <1>17. ASSUME n # PageSize, NEW e \in below PROVE e \in top
    <2> SUFFICES ASSUME ~(Rank(below, e) < PageSize) PROVE FALSE
      BY <1>8
    <2>1. Rank(below, e) \in 0..(Cardinality(below) - 1)
      BY <1>6
    <2>2. n \in 0..(Cardinality(below) - 1) /\ n < PageSize
      BY <1>1, <1>6, <1>7, <1>16, <1>17, <2>1
    <2>3. PICK g \in below : Rank(below, g) = n
      BY <1>6, <2>2
    <2>4. g \in top /\ Rank(top, g) = n
      BY <1>8, <1>9, <2>2, <2>3
    <2>5. Rank(top, g) \in 0..(n - 1)
      BY <1>7, <2>4
    <2> QED BY <1>7, <2>4, <2>5
  <1>18. ASSUME page # <<>>, NEW e \in entries, e.id < c, e.id >= page[Len(page)].id PROVE e \in top
    <2>1. n # 0
      <3> SUFFICES ASSUME n = 0 PROVE page = <<>>
        BY <1>18
      <3> QED BY <1>13, EmptySeq
    <2>2. n \in 1..n
      BY <1>7, <2>1
    <2>3. page[n] \in top /\ page[n] \in below /\ Rank(below, page[n]) < PageSize
      BY <1>3, <1>8, <1>11, <2>2
    <2>4. e \in below
      BY <1>18
    <2>5. e.id = page[n].id \/ e.id > page[n].id
      BY <1>3, <1>5, <1>13, <1>18, <2>3
    <2>6. CASE e.id = page[n].id
      BY <1>3, <2>3, <2>6
    <2>7. CASE e.id > page[n].id
      <3>1. Rank(below, e) < Rank(below, page[n]) /\ Rank(below, e) \in Int /\ Rank(below, page[n]) \in Int
        BY <1>6, <2>3, <2>4, <2>7
      <3> QED BY <1>1, <1>8, <2>3, <2>4, <3>1
    <2> QED BY <2>5, <2>6, <2>7
  <1>19. \A i \in DOMAIN page : page[i] \in entries /\ page[i].id < c
    BY <1>3, <1>11, <1>12
  <1>20. \A e \in entries : e.id < c => e \in below
    OBVIOUS
  <1> HIDE DEF below
  <1> QED BY <1>13, <1>14, <1>15, <1>16, <1>17, <1>18, <1>19, <1>20 DEF IsPage

\* A full page keeps the number of listed entries a multiple of the page size.
LEMMA FullPage ==
  ASSUME NEW L \in Nat, L % PageSize = 0
  PROVE  (L + PageSize) % PageSize = 0
  <1>1. PageSize \in Nat \ {0}
    BY ConstantsAssumption
  <1>2. PICK q \in Int : q = L \div PageSize
    BY <1>1
  <1>3. L = PageSize * q
    BY <1>1, <1>2
  <1>4. L + PageSize = PageSize * (q + 1)
    BY <1>1, <1>3
  <1>5. (PageSize * (q + 1)) % PageSize = 0
    BY <1>1
  <1> QED BY <1>4, <1>5

\* Adding the next page to what is listed.
LEMMA LoadStep ==
  ASSUME Inv, ReaderInv, NEW page, page = Page(reader.cursor),
         reader.listed = <<>> \/ HasMore,
         NEW owed \in SUBSET entries, owed = reader.owed \/ reader.cursor = MaxId + 1,
         reader'.listed = reader.listed \o page, reader'.owed = owed,
         reader'.cursor = IF page = <<>> THEN reader.cursor ELSE page[Len(page)].id
  PROVE  LET shown == {reader'.listed[i] : i \in DOMAIN reader'.listed} IN
         /\ reader'.cursor \in Int /\ reader'.listed \in Seq(Entry)
         /\ \A i \in DOMAIN reader'.listed : reader'.listed[i].id >= reader'.cursor
         /\ \A i, j \in DOMAIN reader'.listed : reader'.listed[i].id = reader'.listed[j].id => i = j
         /\ \A e \in owed : e.id >= reader'.cursor \/ ~HasMore' => e \in shown
  <1>0. PICK c : c = reader.cursor
    OBVIOUS
  <1> DEFINE old == reader.listed
             new == reader'.listed
             L == Len(old)
             n == Len(page)
  <1>1. /\ c \in Int /\ old \in Seq(Entry) /\ entries \in SUBSET Entry
        /\ \A e, f \in entries : e.id = f.id => e = f
    BY <1>0 DEF Inv, TypeOK, ReaderInv
  <1>2. /\ page \in Seq(Entry)
        /\ \A i \in DOMAIN page : page[i] \in entries /\ page[i].id < c
        /\ \A i, j \in DOMAIN page : i < j => page[i].id > page[j].id
        /\ page # <<>> => \A e \in entries : e.id < c /\ e.id >= page[n].id =>
                            \E i \in DOMAIN page : e = page[i]
        /\ n <= PageSize
        /\ n # PageSize => \A e \in entries : e.id < c => \E i \in DOMAIN page : e = page[i]
    <2>1. page = Page(c)
      BY <1>0
    <2>2. IsPage(page, c)
      BY <1>1, <2>1, PageOf
    <2> QED BY <2>2, Zenon DEF IsPage
  <1>3. L \in Nat /\ n \in Nat /\ DOMAIN old = 1..L /\ DOMAIN page = 1..n
    BY <1>1, <1>2, LenProperties
  <1>4. /\ new \in Seq(Entry) /\ Len(new) = L + n /\ DOMAIN new = 1..(L + n)
        /\ \A i \in 1..L : new[i] = old[i]
        /\ \A i \in (L + 1)..(L + n) : new[i] = page[i - L]
    <2>1. new = old \o page
      OBVIOUS
    <2>2. new \in Seq(Entry) /\ Len(new) = L + n
      BY <1>1, <1>2, <2>1, ConcatProperties
    <2>3. \A i \in 1..(L + n) : new[i] = IF i <= L THEN old[i] ELSE page[i - L]
      BY <1>1, <1>2, <2>1, ConcatProperties, SMTT(30)
    <2>4. DOMAIN new = 1..(L + n)
      BY <2>2, LenProperties
    <2> HIDE DEF new, old
    <2> QED BY <1>3, <2>2, <2>3, <2>4
  <1>5. \A e \in entries : e.id \in 1..MaxId /\ e.id \in Int /\ e.id < MaxId + 1
    BY <1>1, ConstantsAssumption DEF Entry
  <1>6. \A i \in 1..L : old[i].id \in Int /\ old[i].id >= c
    <2>1. \A i \in 1..L : old[i] \in Entry /\ old[i].id >= c
      BY <1>0, <1>1, <1>3 DEF ReaderInv
    <2> QED BY <2>1, ConstantsAssumption DEF Entry
  <1>7. \A i \in 1..n : page[i].id \in Int /\ page[i].id < c
    BY <1>2, <1>3, <1>5
  <1> DEFINE d == reader'.cursor
  <1>8. d \in Int /\ d <= c /\ \A i \in 1..n : page[i].id >= d
    <2>1. CASE page = <<>>
      BY <1>0, <1>1, <1>3, <2>1
    <2>2. CASE page # <<>>
      <3>1. n \in 1..n /\ d = page[n].id
        BY <1>2, <1>3, <2>2, EmptySeq
      <3>2. d \in Int /\ d < c
        BY <1>7, <3>1
      <3>3. ASSUME NEW i \in 1..n PROVE page[i].id >= d
        <4>1. i = n \/ i < n
          BY <1>3
        <4>2. i < n => page[i].id > page[n].id
          BY <1>2, <1>3, <3>1, Zenon
        <4> QED BY <1>7, <3>1, <3>2, <4>1, <4>2
      <3> QED BY <1>1, <3>2, <3>3
    <2> QED BY <2>1, <2>2
  <1> HIDE DEF old, new, d
  <1>9. ASSUME NEW i \in 1..(L + n) PROVE new[i].id >= d
    <2>1. CASE i \in 1..L
      BY <1>1, <1>4, <1>6, <1>8, <2>1
    <2>2. CASE i \in (L + 1)..(L + n)
      <3>1. i - L \in 1..n
        BY <1>3, <2>2
      <3> QED BY <1>4, <1>8, <2>2, <3>1
    <2> QED BY <1>3, <2>1, <2>2
  <1>10. ASSUME NEW i \in 1..(L + n), NEW j \in 1..(L + n), i < j PROVE new[i].id # new[j].id
    <2>1. CASE j \in 1..L
      <3>1. i \in 1..L /\ i # j
        BY <1>3, <1>10, <2>1
      <3>2. old[i].id # old[j].id
        BY <1>3, <2>1, <3>1 DEF ReaderInv, old
      <3> QED BY <1>4, <2>1, <3>1, <3>2
    <2>2. CASE j \in (L + 1)..(L + n) /\ i \in 1..L
      <3>1. j - L \in 1..n
        BY <1>3, <2>2
      <3>2. new[j].id < c /\ new[j].id \in Int
        BY <1>4, <1>7, <2>2, <3>1
      <3>3. new[i].id >= c /\ new[i].id \in Int
        BY <1>4, <1>6, <2>2, Zenon
      <3> QED BY <1>1, <3>2, <3>3
    <2>3. CASE j \in (L + 1)..(L + n) /\ i \in (L + 1)..(L + n)
      <3>1. j - L \in 1..n /\ i - L \in 1..n /\ i - L < j - L
        BY <1>3, <1>10, <2>3
      <3>2. page[i - L].id > page[j - L].id
        BY <1>2, <1>3, <3>1, Zenon
      <3>3. page[i - L].id \in Int /\ page[j - L].id \in Int
        BY <1>7, <3>1
      <3> QED BY <1>4, <2>3, <3>2, <3>3
    <2> QED BY <1>3, <1>10, <2>1, <2>2, <2>3
  <1>11. ASSUME NEW i \in 1..(L + n), NEW j \in 1..(L + n), new[i].id = new[j].id PROVE i = j
    <2>1. ~(i < j) /\ ~(j < i)
      BY <1>10, <1>11
    <2> QED BY <1>3, <2>1
  <1>12. ASSUME NEW i \in 1..n PROVE \E k \in DOMAIN new : page[i] = new[k]
    <2>1. L + i \in (L + 1)..(L + n) /\ L + i \in 1..(L + n) /\ (L + i) - L = i
      BY <1>3
    <2> QED BY <1>4, <2>1
  <1>13. ASSUME NEW i \in 1..L PROVE \E k \in DOMAIN new : old[i] = new[k]
    <2>1. i \in 1..(L + n)
      BY <1>3
    <2> QED BY <1>4, <2>1
  <1>14. ASSUME NEW e \in owed, e.id >= c PROVE \E k \in DOMAIN new : e = new[k]
    <2>1. e \in reader.owed
      BY <1>0, <1>1, <1>5, <1>14, SMTT(30)
    <2>2. \E i \in 1..L : e = old[i]
      BY <1>0, <1>3, <1>14, <2>1 DEF ReaderInv, old
    <2> QED BY <1>13, <2>2
  <1>15. ~HasMore' => n # PageSize
    <2> SUFFICES ASSUME n = PageSize PROVE HasMore'
      OBVIOUS
    <2>1. PageSize \in Nat \ {0}
      BY ConstantsAssumption
    <2>2. L % PageSize = 0
      <3>1. CASE old = <<>>
        <4>1. L = 0
          BY <3>1
        <4> QED BY <2>1, <4>1
      <3>2. CASE HasMore
        BY <3>2 DEF HasMore, old
      <3> QED BY <3>1, <3>2 DEF old
    <2>3. (L + PageSize) % PageSize = 0
      BY <1>3, <2>2, FullPage
    <2>4. Len(new) = L + PageSize /\ Len(new) # 0
      BY <1>3, <1>4, <2>1
    <2>5. new # <<>>
      BY <2>4
    <2> QED BY <2>3, <2>4, <2>5 DEF HasMore, new
  <1>16. ASSUME NEW e \in owed, e.id >= d \/ ~HasMore', ~(e.id >= c)
         PROVE  \E k \in DOMAIN new : e = new[k]
    <2>1. e \in entries /\ e.id \in Int /\ e.id < c
      BY <1>1, <1>5, <1>16
    <2>2. \E i \in 1..n : e = page[i]
      <3>1. CASE ~HasMore'
        BY <1>2, <1>3, <1>15, <2>1, <3>1
      <3>2. CASE e.id >= d
        <4>1. page # <<>>
          BY <1>0, <1>16, <3>2 DEF d
        <4>2. d = page[n].id
          BY <4>1 DEF d
        <4> QED BY <1>2, <1>3, <2>1, <3>2, <4>1, <4>2
      <3> QED BY <1>16, <3>1, <3>2
    <2> QED BY <1>12, <2>2
  <1>17. \A e \in owed : e.id >= d \/ ~HasMore' => \E k \in DOMAIN new : e = new[k]
    BY <1>14, <1>16
  <1> QED BY <1>4, <1>8, <1>9, <1>11, <1>17, Zenon DEF new, d

\* OpenLog and LoadMore: the reader's step adds the next page.
LEMMA ReaderLoads == ASSUME Inv, ReaderInv, OpenLog \/ LoadMore PROVE ReaderInv'
  <1>1. PICK page : page = Page(reader.cursor)
    OBVIOUS
  <1>2. reader \in [open : BOOLEAN, cursor : Int, listed : Seq(Entry), owed : SUBSET Entry]
    BY DEF ReaderInv
  <1>3. entries' = entries /\ txs' = txs
    BY DEF OpenLog, LoadMore
  <1>4. entries \in SUBSET Entry
    BY DEF Inv, TypeOK
  <1>5. PICK owed \in SUBSET entries : reader'.owed = owed /\ (owed = reader.owed \/ reader.cursor = MaxId + 1)
    <2>1. CASE OpenLog
      BY <1>2, <2>1 DEF OpenLog, Loaded, ReaderInv
    <2>2. CASE LoadMore
      BY <1>2, <2>2 DEF LoadMore, Loaded, ReaderInv
    <2> QED BY <2>1, <2>2
  <1>6. reader.listed = <<>> \/ HasMore
    BY DEF OpenLog, LoadMore, ReaderInv
  <1>7. /\ reader'.open = TRUE
        /\ reader'.listed = reader.listed \o page
        /\ reader'.cursor = IF page = <<>> THEN reader.cursor ELSE page[Len(page)].id
        /\ reader' = [open |-> reader'.open, cursor |-> reader'.cursor,
                      listed |-> reader'.listed, owed |-> reader'.owed]
    <2>1. CASE OpenLog
      BY <1>1, <1>2, <2>1, Zenon DEF OpenLog, Loaded
    <2>2. CASE LoadMore
      BY <1>1, <1>2, <2>2, Zenon DEF LoadMore, Loaded
    <2> QED BY <2>1, <2>2, Zenon
  <1>8. LET shown == {reader'.listed[i] : i \in DOMAIN reader'.listed} IN
        /\ reader'.cursor \in Int /\ reader'.listed \in Seq(Entry)
        /\ \A i \in DOMAIN reader'.listed : reader'.listed[i].id >= reader'.cursor
        /\ \A i, j \in DOMAIN reader'.listed : reader'.listed[i].id = reader'.listed[j].id => i = j
        /\ \A e \in owed : e.id >= reader'.cursor \/ ~HasMore' => e \in shown
    BY <1>1, <1>5, <1>6, <1>7, LoadStep, Zenon
  <1>9. reader' \in [open : BOOLEAN, cursor : Int, listed : Seq(Entry), owed : SUBSET Entry]
    BY <1>4, <1>5, <1>7, <1>8, Zenon
  <1>10. /\ \A e, f \in entries' : e.id = f.id => e = f
         /\ \A t \in Tx : \A e, f \in txs'[t].entry : e = f
    BY <1>3 DEF ReaderInv
  <1> QED BY <1>3, <1>5, <1>7, <1>8, <1>9, <1>10 DEF ReaderInv

\* A step that leaves the reader alone: it may add entries with ids of their own.
LEMMA ReaderWaits ==
  ASSUME ReaderInv, reader' = reader, entries \subseteq entries',
         \A e, f \in entries' : e.id = f.id => e = f,
         \A t \in Tx : \A e, f \in txs'[t].entry : e = f
  PROVE  ReaderInv'
  <1>1. HasMore' = HasMore
    BY DEF HasMore
  <1> QED BY <1>1, SMTT(30) DEF ReaderInv

\* The new entry of a transaction, after a step of it.
LEMMA EntryOf ==
  ASSUME txs \in [Tx -> TxRow], NEW t \in Tx, NEW pc, NEW at, NEW tail, NEW entry,
         txs' = [txs EXCEPT ![t] = Transaction(pc, at, tail, entry)]
  PROVE  txs'[t].entry = entry /\ \A u \in Tx \ {t} : txs'[u].entry = txs[u].entry
  <1>1. Transaction(pc, at, tail, entry).entry = entry
    BY DEF Transaction
  <1> QED BY <1>1

\* The steps of a transaction.
LEMMA ReaderTx ==
  ASSUME Inv, ReaderInv, NEW t \in Tx,
         Begin(t) \/ SelectTail(t) \/ LockTail(t) \/ Insert(t) \/ Commit(t) \/ Rollback(t)
  PROVE  ReaderInv'
  <1>1. reader' = reader
    BY Zenon DEF Begin, SelectTail, LockTail, Insert, Commit, Rollback
  <1>2. entries' = entries \/ entries' = entries \cup txs[t].entry
    BY Zenon DEF Begin, SelectTail, LockTail, Insert, Commit, Rollback
  <1>3. \A e, f \in entries' : e.id = f.id => e = f
    <2>1. \A e \in txs[t].entry, f \in entries : e.id # f.id
      BY DEF Inv, Pending
    <2> QED BY <1>2, <2>1 DEF ReaderInv
  <1>4. txs \in [Tx -> TxRow]
    BY DEF Inv, TypeOK
  <1>5. (\A e, f \in txs'[t].entry : e = f) /\ \A u \in Tx \ {t} : txs'[u].entry = txs[u].entry
    <2>1. CASE Begin(t)
      <3>1. txs' = [txs EXCEPT ![t] = Transaction("open", clock + 1, {}, {})]
        BY <2>1 DEF Begin
      <3>2. txs'[t].entry = {} /\ \A u \in Tx \ {t} : txs'[u].entry = txs[u].entry
        BY <1>4, <3>1, EntryOf, Zenon
      <3> QED BY <3>2
    <2>2. CASE SelectTail(t)
      <3>1. txs' = [txs EXCEPT ![t] = Transaction("wait", txs[t].at, Last(entries), {})]
        BY <2>2 DEF SelectTail
      <3>2. txs'[t].entry = {} /\ \A u \in Tx \ {t} : txs'[u].entry = txs[u].entry
        BY <1>4, <3>1, EntryOf, Zenon
      <3> QED BY <3>2
    <2>3. CASE LockTail(t)
      <3>1. txs' = [txs EXCEPT ![t] = Transaction("hash", txs[t].at, txs[t].tail, {})]
        BY <2>3 DEF LockTail
      <3>2. txs'[t].entry = {} /\ \A u \in Tx \ {t} : txs'[u].entry = txs[u].entry
        BY <1>4, <3>1, EntryOf, Zenon
      <3> QED BY <3>2
    <2>4. CASE Commit(t)
      <3>1. txs' = [txs EXCEPT ![t] = Transaction("done", 0, {}, {})]
        BY <2>4 DEF Commit
      <3>2. txs'[t].entry = {} /\ \A u \in Tx \ {t} : txs'[u].entry = txs[u].entry
        BY <1>4, <3>1, EntryOf, Zenon
      <3> QED BY <3>2
    <2>5. CASE Rollback(t)
      <3>1. txs' = [txs EXCEPT ![t] = Transaction("undone", 0, {}, {})]
        BY <2>5 DEF Rollback
      <3>2. txs'[t].entry = {} /\ \A u \in Tx \ {t} : txs'[u].entry = txs[u].entry
        BY <1>4, <3>1, EntryOf, Zenon
      <3> QED BY <3>2
    <2>6. CASE Insert(t)
      <3>1. PICK x : txs' = [txs EXCEPT ![t] = Transaction("written", txs[t].at, txs[t].tail, {x})]
        BY <2>6, Zenon DEF Insert
      <3>2. txs'[t].entry = {x} /\ \A u \in Tx \ {t} : txs'[u].entry = txs[u].entry
        BY <1>4, <3>1, EntryOf, Zenon
      <3> QED BY <3>2
    <2> QED BY <2>1, <2>2, <2>3, <2>4, <2>5, <2>6, Zenon
  <1>6. \A u \in Tx : \A e, f \in txs'[u].entry : e = f
    BY <1>5 DEF ReaderInv
  <1> QED BY <1>1, <1>2, <1>3, <1>6, ReaderWaits

\* A sequence of different entries has as many elements as it is long.
LEMMA ListedOnce ==
  ASSUME NEW s \in Seq(Entry), \A i, j \in DOMAIN s : s[i].id = s[j].id => i = j
  PROVE  Cardinality({s[i] : i \in DOMAIN s}) = Len(s)
  <1> DEFINE T == {s[i] : i \in DOMAIN s}
  <1>1. Len(s) \in Nat /\ DOMAIN s = 1..Len(s) /\ s \in [1..Len(s) -> T]
    BY LenProperties
  <1>2. s \in Surjection(1..Len(s), T)
    BY <1>1 DEF Surjection
  <1>3. s \in Injection(1..Len(s), T)
    BY <1>1, Zenon DEF Injection, IsInjective
  <1>4. s \in Bijection(1..Len(s), T)
    BY <1>2, <1>3 DEF Bijection
  <1> QED BY <1>1, <1>4, FS_CountingElements DEF ExistsBijection

\* audit_log list and the settings page: for any page size and any number of entries,
\* whatever is appended between two pages, paging shows no entry twice and none of
\* those there at the start is missed.
THEOREM PagingCompletes == Spec => []PagingIsComplete
  <1>1. Init => ReaderInv
    <2> SUFFICES ASSUME Init PROVE ReaderInv
      OBVIOUS
    <2>1. \A t \in Tx : txs[t].entry = {}
      BY DEF Init, Transaction
    <2>2. MaxId + 1 \in Int
      BY ConstantsAssumption
    <2>3. /\ reader.open = FALSE /\ reader.cursor = MaxId + 1 /\ reader.listed = <<>> /\ reader.owed = {}
          /\ reader \in [open : BOOLEAN, cursor : Int, listed : Seq(Entry), owed : SUBSET Entry]
      BY <2>2, SMTT(30) DEF Init
    <2>4. entries = {} /\ DOMAIN reader.listed = {} /\ Len(reader.listed) = 0
      BY <2>3 DEF Init
    <2> QED BY <2>1, <2>3, <2>4, SMTT(30) DEF ReaderInv
  <1>2. Inv /\ ReaderInv /\ [Next]_vars => ReaderInv'
    <2> SUFFICES ASSUME Inv, ReaderInv, [Next]_vars PROVE ReaderInv'
      OBVIOUS
    <2>1. CASE UNCHANGED vars
      BY <2>1, ReaderWaits DEF vars, ReaderInv
    <2> QED BY <2>1, ReaderLoads, ReaderTx DEF Next
  <1>3. ReaderInv => PagingIsComplete
    <2> SUFFICES ASSUME ReaderInv PROVE PagingIsComplete
      OBVIOUS
    <2>1. reader.listed \in Seq(Entry)
      BY DEF ReaderInv
    <2>2. Cardinality({reader.listed[i] : i \in DOMAIN reader.listed}) = Len(reader.listed)
      BY <2>1, ListedOnce DEF ReaderInv
    <2> QED BY <2>2 DEF PagingIsComplete, ReaderInv
  <1> QED BY <1>1, <1>2, <1>3, InvHolds, PTL DEF Spec

-----------------------------------------------------------------------------
(* AgentTunnel *)

\* The reconnect loop: its record.
TunnelAgent == [pc : {"connect", "backoff", "session", "drain"}, stream : {NoStream} \cup Stream,
                attempt : Int, delay : Int, errors : Int, version : Version]

\* The record of a stream.
TunnelRow == [beats : BOOLEAN, open : BOOLEAN, wire : Seq(Message), server : BOOLEAN, acks : Int,
              org : Organization \cup {Unresolved},
              owners : SUBSET Organization, written : SUBSET Organization]

\* A stream whose task resolved, and wrote for, only what its heartbeats named.
SoundRow == {x \in TunnelRow : /\ x.written \subseteq x.owners
                               /\ x.org = Unresolved \/ x.org \in x.owners}

\* The invariant says that much of every stream, and no more.
LEMMA TunnelInvIs ==
  TunnelInv <=> agent \in TunnelAgent /\ streams \in [Stream -> SoundRow]
  <1>1. ASSUME TunnelInv PROVE streams \in [Stream -> SoundRow]
    <2>1. streams \in [Stream -> TunnelRow]
      BY <1>1 DEF TunnelInv, TunnelTypeOK, TunnelRow
    <2>2. \A s \in Stream : streams[s] \in SoundRow
      BY <1>1, <2>1 DEF TunnelInv, MetricsFollowHeartbeats, SoundRow
    <2> QED BY <2>1, <2>2, Zenon
  <1>2. ASSUME agent \in TunnelAgent, streams \in [Stream -> SoundRow] PROVE TunnelInv
    <2>1. streams \in [Stream -> TunnelRow]
      BY <1>2 DEF SoundRow
    <2>2. \A s \in Stream : streams[s] \in SoundRow
      BY <1>2
    <2>3. TunnelTypeOK
      BY <1>2, <2>1 DEF TunnelTypeOK, TunnelAgent, TunnelRow
    <2> QED BY <2>2, <2>3 DEF TunnelInv, MetricsFollowHeartbeats, SoundRow
  <1>3. ASSUME TunnelInv PROVE agent \in TunnelAgent
    BY <1>3 DEF TunnelInv, TunnelTypeOK, TunnelAgent
  <1> QED BY <1>1, <1>2, <1>3

\* The same of the next state.
LEMMA TunnelInvNext ==
  ASSUME agent' \in TunnelAgent, streams' \in [Stream -> SoundRow]
  PROVE  TunnelInv'
  <1>1. streams' \in [Stream -> TunnelRow]
    BY DEF SoundRow
  <1>2. \A s \in Stream : streams'[s] \in SoundRow
    OBVIOUS
  <1>3. TunnelTypeOK'
    BY <1>1 DEF TunnelTypeOK, TunnelAgent, TunnelRow
  <1> QED BY <1>2, <1>3 DEF TunnelInv, MetricsFollowHeartbeats, SoundRow

\* A free place is sound.
LEMMA NewTunnel == NewStream \in SoundRow
  <1>1. <<>> \in Seq(Message)
    OBVIOUS
  <1> QED BY <1>1 DEF NewStream, TunnelRow, SoundRow

\* A process that starts.
LEMMA StartedType == ASSUME NEW v \in Version PROVE Started(v) \in TunnelAgent
  BY DEF Started, TunnelAgent

\* AgentTunnel starts in its invariant: no stream, and nothing written.
LEMMA InitTunnel == TunnelInit => TunnelInv
  <1> SUFFICES ASSUME TunnelInit PROVE TunnelInv
    OBVIOUS
  <1>1. agent \in TunnelAgent
    BY StartedType DEF TunnelInit
  <1>2. streams \in [Stream -> SoundRow]
    BY NewTunnel DEF TunnelInit
  <1> QED BY <1>1, <1>2, TunnelInvIs

\* A row with another channel, tasks or acknowledgements is as sound as before.
LEMMA SoundKept ==
  ASSUME NEW x \in SoundRow, NEW b \in BOOLEAN, NEW o \in BOOLEAN, NEW v \in BOOLEAN,
         NEW n \in Int, NEW w \in Seq(Message)
  PROVE  /\ [x EXCEPT !.open = o, !.acks = n, !.beats = b, !.wire = w] \in SoundRow
         /\ [x EXCEPT !.beats = b, !.open = o, !.server = v] \in SoundRow
         /\ [x EXCEPT !.beats = b] \in SoundRow
         /\ [x EXCEPT !.acks = n] \in SoundRow
         /\ [x EXCEPT !.wire = w] \in SoundRow
         /\ [x EXCEPT !.open = o, !.beats = b, !.acks = n] \in SoundRow
  BY Zenon DEF TunnelRow, SoundRow

\* The fields of a sound row.
LEMMA SoundFields ==
  ASSUME NEW x \in SoundRow
  PROVE  /\ x.beats \in BOOLEAN /\ x.open \in BOOLEAN /\ x.server \in BOOLEAN
         /\ x.acks \in Int /\ x.wire \in Seq(Message)
         /\ x.org \in Organization \cup {Unresolved} /\ (x.org = Unresolved \/ x.org \in x.owners)
         /\ x.owners \subseteq Organization /\ x.written \subseteq x.owners
  BY DEF SoundRow, TunnelRow

\* What is left of an abandoned stream is sound.
LEMMA AbandonedRow ==
  ASSUME NEW s \in Stream, streams[s] \in SoundRow, NEW b \in BOOLEAN, NEW o \in BOOLEAN,
         NEW w \in {<<>>, streams[s].wire}
  PROVE  Abandoned(s, b, o, w) \in SoundRow
  <1>1. streams[s].wire \in Seq(Message) /\ <<>> \in Seq(Message) /\ 0 \in Int
    BY SoundFields
  <1>2. w \in Seq(Message)
    BY <1>1, Zenon
  <1> QED BY <1>1, <1>2, SoundKept, NewTunnel, Zenon DEF Abandoned

\* What is left of a stream whose task at the API ended.
LEMMA EndedRow ==
  ASSUME NEW x \in SoundRow
  PROVE  Ended(x) \in SoundRow
  BY SoundKept, SoundFields, NewTunnel DEF Ended

\* A message gone or acknowledged leaves a sound row.
LEMMA AcknowledgedRow ==
  ASSUME NEW s \in Stream, NEW x \in SoundRow
  PROVE  Acknowledged(s, x) \in SoundRow
  <1>1. x.acks + 1 \in Int
    BY SoundFields
  <1>2. \A n \in Int : [x EXCEPT !.acks = n] \in SoundRow
    BY Zenon DEF SoundRow, TunnelRow
  <1> QED BY <1>1, <1>2, EndedRow DEF Acknowledged

\* A step that changes one stream.
LEMMA TunnelStep ==
  ASSUME TunnelInv, NEW s \in Stream, NEW x \in SoundRow, streams' = [streams EXCEPT ![s] = x],
         agent' \in TunnelAgent
  PROVE  TunnelInv'
  BY TunnelInvIs, TunnelInvNext

\* backoff_delay gives a number of milliseconds.
LEMMA CeilingType ==
  ASSUME NEW n \in Int PROVE Ceiling(n) \in Int
  BY BackoffAssumption DEF Ceiling, Least

\* A backoff keeps the loop's record in its type.
LEMMA BackOffStep ==
  ASSUME TunnelInv, BackOff
  PROVE  agent' \in TunnelAgent
  <1>1. agent \in TunnelAgent
    BY TunnelInvIs
  <1>2. agent.attempt \in Int /\ agent.errors \in Int
    BY <1>1 DEF TunnelAgent
  <1>3. Ceiling(agent.attempt) \in Int /\ Least(agent.attempt + 1, MaxAttempt) \in Int
        /\ agent.errors + 1 \in Int
    BY <1>2, CeilingType, BackoffAssumption DEF Least
  <1> QED BY <1>1, <1>3 DEF BackOff, TunnelAgent

\* The steps of the loop outside a session, and of the cluster.
LEMMA TunnelLoop ==
  ASSUME TunnelInv,
         ConnectFails \/ Retry \/ Restart \/ \E c \in Cluster : DeleteCluster(c)
  PROVE  TunnelInv'
  <1>0. agent \in TunnelAgent /\ streams \in [Stream -> SoundRow]
    BY TunnelInvIs
  <1>1. CASE ConnectFails
    BY <1>0, <1>1, BackOffStep, TunnelInvNext DEF ConnectFails
  <1>2. CASE Retry
    <2>1. agent' = [agent EXCEPT !.pc = "connect", !.delay = 0] /\ streams' = streams /\ 0 \in Int
      BY <1>2 DEF Retry
    <2>2. agent' \in TunnelAgent
      BY <1>0, <2>1, Zenon DEF TunnelAgent
    <2> QED BY <1>0, <2>1, <2>2, TunnelInvNext
  <1>3. CASE Restart
    <2>1. agent' \in TunnelAgent
      BY <1>3, StartedType, Zenon DEF Restart
    <2>2. PICK kept \in BOOLEAN : streams' = [s \in Stream |->
            Abandoned(s, FALSE, FALSE, IF kept THEN streams[s].wire ELSE <<>>)]
      BY <1>3, Zenon DEF Restart
    <2>3. ASSUME NEW s \in Stream
          PROVE  Abandoned(s, FALSE, FALSE, IF kept THEN streams[s].wire ELSE <<>>) \in SoundRow
      <3>1. streams[s] \in SoundRow /\ FALSE \in BOOLEAN
        BY <1>0
      <3>2. (IF kept THEN streams[s].wire ELSE <<>>) \in {<<>>, streams[s].wire}
        OBVIOUS
      <3> QED BY <3>1, <3>2, AbandonedRow, Zenon
    <2>4. streams' \in [Stream -> SoundRow]
      BY <2>2, <2>3, Zenon
    <2> QED BY <2>1, <2>4, TunnelInvNext
  <1>4. CASE \E c \in Cluster : DeleteCluster(c)
    BY <1>0, <1>4, TunnelInvNext DEF DeleteCluster
  <1> QED BY <1>1, <1>2, <1>3, <1>4

\* The steps that begin and end a session.
LEMMA TunnelSession ==
  ASSUME TunnelInv, NEW s \in Stream,
         Connect(s) \/ SessionCloses(s) \/ SessionFails(s) \/ Drain(s)
  PROVE  TunnelInv'
  <1>0. agent \in TunnelAgent /\ streams \in [Stream -> SoundRow] /\ streams[s] \in SoundRow
    BY TunnelInvIs
  <1>1. CASE Connect(s)
    <2>1. [streams[s] EXCEPT !.beats = TRUE, !.open = TRUE, !.server = TRUE] \in SoundRow
      <3>1. TRUE \in BOOLEAN /\ 0 \in Int /\ <<>> \in Seq(Message)
        OBVIOUS
      <3> QED BY <1>0, <3>1, Zenon DEF SoundRow, TunnelRow
    <2>2. agent' \in TunnelAgent
      BY <1>0, <1>1, Zenon DEF Connect, TunnelAgent
    <2> QED BY <1>1, <2>1, <2>2, TunnelStep, Zenon DEF Connect
  <1>2. CASE SessionCloses(s)
    <2>1. 0 \in Int
      OBVIOUS
    <2>2. agent' \in TunnelAgent
      BY <1>0, <1>2, <2>1, Zenon DEF SessionCloses, TunnelAgent
    <2> QED BY <1>2, <2>2, NewTunnel, TunnelStep, Zenon DEF SessionCloses
  <1>3. CASE SessionFails(s)
    <2>1. PICK o \in {FALSE, streams[s].open}, w \in {<<>>, streams[s].wire} :
            streams' = [streams EXCEPT ![s] = Abandoned(s, streams[s].beats, o, w)]
      BY <1>3, Zenon DEF SessionFails
    <2>2. o \in BOOLEAN /\ streams[s].beats \in BOOLEAN
      BY <1>0, SoundFields
    <2>3. Abandoned(s, streams[s].beats, o, w) \in SoundRow
      BY <1>0, <2>2, AbandonedRow
    <2>4. agent' \in TunnelAgent
      BY <1>3, BackOffStep DEF SessionFails
    <2> QED BY <2>1, <2>3, <2>4, TunnelStep, Zenon
  <1>4. CASE Drain(s)
    BY <1>0, <1>4, TunnelInvNext DEF Drain, TunnelAgent
  <1> QED BY <1>1, <1>2, <1>3, <1>4

\* The tasks of the agent: the heartbeats, the other messages, the acknowledgements.
LEMMA TunnelTasks ==
  ASSUME TunnelInv, NEW s \in Stream, Tick(s) \/ SendOther(s) \/ ReadAck(s)
  PROVE  TunnelInv'
  <1>0. agent \in TunnelAgent /\ streams \in [Stream -> SoundRow] /\ streams[s] \in SoundRow
    BY TunnelInvIs
  <1>1. ASSUME NEW m \in Message
        PROVE  [streams[s] EXCEPT !.wire = Append(@, m)] \in SoundRow
    <2>1. Append(streams[s].wire, m) \in Seq(Message)
      BY <1>0, SoundFields
    <2>2. \A w \in Seq(Message) : [streams[s] EXCEPT !.wire = w] \in SoundRow
      BY <1>0, Zenon DEF SoundRow, TunnelRow
    <2> QED BY <2>1, <2>2
  <1>2. \A c \in Cluster : Heartbeat(c) \in Message
    BY <1>0 DEF Heartbeat, Message, TunnelAgent
  <1>3. \A o \in Organization : Metrics(o) \in Message
    BY DEF Metrics, Message
  <1>4. CASE Tick(s)
    <2>1. [streams[s] EXCEPT !.wire = Append(@, Heartbeat(Own))] \in SoundRow
      BY <1>1, <1>2, OwnerAssumption
    <2>2. [streams[s] EXCEPT !.beats = FALSE] \in SoundRow
      BY <1>0, Zenon DEF SoundRow, TunnelRow
    <2>3. PICK x \in SoundRow : streams' = [streams EXCEPT ![s] = x]
      BY <1>4, <2>1, <2>2, NewTunnel, Zenon DEF Tick
    <2> QED BY <1>0, <1>4, <2>3, TunnelStep DEF Tick
  <1>5. CASE SendOther(s)
    <2>1. PICK m \in {Metrics(o) : o \in Organization} \cup {Heartbeat(c) : c \in Cluster \ {Own}} :
            streams' = [streams EXCEPT ![s].wire = Append(@, m)]
      BY <1>5, Zenon DEF SendOther
    <2>2. m \in Message
      BY <1>2, <1>3
    <2>3. streams' = [streams EXCEPT ![s] = [streams[s] EXCEPT !.wire = Append(@, m)]]
      BY <1>0, <2>1
    <2> QED BY <1>0, <1>1, <1>5, <2>2, <2>3, TunnelStep, Zenon DEF SendOther
  <1>6. CASE ReadAck(s)
    <2>1. streams' = [streams EXCEPT ![s] = [streams[s] EXCEPT !.acks = @ - 1]] /\ agent' = agent
      BY <1>0, <1>6 DEF ReadAck
    <2>2. streams[s].acks - 1 \in Int
      BY <1>0, SoundFields
    <2>3. \A n \in Int : [streams[s] EXCEPT !.acks = n] \in SoundRow
      BY <1>0, Zenon DEF SoundRow, TunnelRow
    <2> QED BY <1>0, <2>1, <2>2, <2>3, TunnelStep, Zenon
  <1> QED BY <1>4, <1>5, <1>6

\* The task of the API: it resolves the organization of a cluster a heartbeat names
\* while it is live, and metrics that claim the resolved one are written for that.
LEMMA TunnelServer ==
  ASSUME TunnelInv, NEW s \in Stream,
         ReceiveHeartbeat(s) \/ ReceiveMetrics(s) \/ ServerEnds(s)
  PROVE  TunnelInv'
  <1> DEFINE t == streams[s]
  <1>0. agent \in TunnelAgent /\ streams \in [Stream -> SoundRow] /\ t \in SoundRow
    BY TunnelInvIs
  <1>1. t.wire # <<>> => Head(t.wire) \in Message /\ Tail(t.wire) \in Seq(Message)
    <2>1. t.wire \in Seq(Message)
      BY <1>0, SoundFields
    <2> QED BY <2>1
  <1>2. CASE ReceiveHeartbeat(s)
    <2> DEFINE c == Head(t.wire).of
               w == Tail(t.wire)
               named == t.owners \cup (IF Live(c) THEN {OwnerOf[c]} ELSE {})
               resolved(ok) == IF ok /\ Live(c) THEN OwnerOf[c] ELSE t.org
               x(ok) == [t EXCEPT !.wire = w, !.org = resolved(ok), !.owners = named]
    <2>1. PICK ok \in BOOLEAN : streams' = [streams EXCEPT ![s] = Acknowledged(s, x(ok))]
      BY <1>2, Zenon DEF ReceiveHeartbeat
    <2>2. w \in Seq(Message) /\ c \in Cluster
      <3>1. Head(t.wire) \in Message /\ Tail(t.wire) \in Seq(Message) /\ Head(t.wire).kind = "heartbeat"
        BY <1>1, <1>2, Zenon DEF ReceiveHeartbeat
      <3> QED BY <3>1 DEF Message
    <2>3. OwnerOf[c] \in Organization
      BY <2>2, OwnerAssumption
    <2>4. named \subseteq Organization /\ t.written \subseteq named
      BY <1>0, <2>3, SoundFields
    <2>5. /\ resolved(ok) \in Organization \cup {Unresolved}
          /\ resolved(ok) = Unresolved \/ resolved(ok) \in named
      BY <1>0, <2>3, SoundFields
    <2>6. agent' = agent
      BY <1>2, Zenon DEF ReceiveHeartbeat
    <2>7. x(ok) \in SoundRow
      <3> DEFINE y(v, o, n) == [t EXCEPT !.wire = v, !.org = o, !.owners = n]
      <3>1. ASSUME NEW v \in Seq(Message), NEW o \in Organization \cup {Unresolved},
                   NEW n \in SUBSET Organization, t.written \subseteq n, o = Unresolved \/ o \in n
            PROVE  y(v, o, n) \in SoundRow
        <4>1. y(v, o, n) \in TunnelRow
          BY <1>0, <3>1, Zenon DEF SoundRow, TunnelRow
        <4>2. t \in TunnelRow
          BY <1>0 DEF SoundRow
        <4>3. y(v, o, n).written = t.written /\ y(v, o, n).owners = n /\ y(v, o, n).org = o
          BY <4>2 DEF TunnelRow
        <4> QED BY <3>1, <4>1, <4>3 DEF SoundRow
      <3>2. x(ok) = y(w, resolved(ok), named)
        OBVIOUS
      <3>3. named \in SUBSET Organization
        BY <2>4
      <3> HIDE DEF x, y, named, resolved, w
      <3> QED BY <2>2, <2>4, <2>5, <3>1, <3>2, <3>3, Zenon
    <2> HIDE DEF x
    <2> QED BY <1>0, <2>1, <2>6, <2>7, AcknowledgedRow, TunnelStep, Zenon
  <1>3. CASE ReceiveMetrics(s)
    <2> DEFINE w == Tail(t.wire)
               r == t.written \cup (IF t.org = Head(t.wire).of THEN {t.org} ELSE {})
               x == [t EXCEPT !.wire = w, !.written = r]
    <2>1. streams' = [streams EXCEPT ![s] = x] /\ agent' = agent
      BY <1>3 DEF ReceiveMetrics
    <2>2. w \in Seq(Message) /\ Head(t.wire).of \in Organization
      <3>1. Head(t.wire) \in Message /\ Tail(t.wire) \in Seq(Message) /\ Head(t.wire).kind = "metrics"
        BY <1>1, <1>3, Zenon DEF ReceiveMetrics
      <3> QED BY <3>1 DEF Message
    <2>3. r \subseteq t.owners
      BY <1>0, <2>2, SoundFields, UnresolvedAssumption
    <2>4. x \in SoundRow
      <3> HIDE DEF w, r
      <3>1. r \in SUBSET Organization /\ t \in TunnelRow
        BY <1>0, <2>3, SoundFields DEF SoundRow
      <3>2. x \in TunnelRow
        BY <2>2, <3>1, Zenon DEF TunnelRow
      <3>3. x.written = r /\ x.owners = t.owners /\ x.org = t.org
        BY <3>1 DEF TunnelRow
      <3> HIDE DEF x
      <3> QED BY <1>0, <2>3, <3>2, <3>3 DEF SoundRow
    <2> HIDE DEF x
    <2> QED BY <1>0, <2>1, <2>4, TunnelStep, Zenon
  <1>4. CASE ServerEnds(s)
    BY <1>0, <1>4, EndedRow, TunnelStep, Zenon DEF ServerEnds
  <1> QED BY <1>2, <1>3, <1>4

\* TunnelInv holds in every state.
LEMMA TunnelInvHolds ==
  TunnelSpec => []TunnelInv
  <1>1. TunnelInv /\ [TunnelNext]_tunnelVars => TunnelInv'
    <2> SUFFICES ASSUME TunnelInv, [TunnelNext]_tunnelVars PROVE TunnelInv'
      OBVIOUS
    <2>1. CASE TunnelNext
      BY <2>1, TunnelLoop, TunnelSession, TunnelTasks, TunnelServer DEF TunnelNext
    <2>2. CASE UNCHANGED tunnelVars
      BY <2>2, TunnelInvIs, TunnelInvNext DEF tunnelVars
    <2> QED BY <2>1, <2>2
  <1> QED BY InitTunnel, <1>1, PTL DEF TunnelSpec

\* open_stream: a stream's metrics are written for no organization but those of the
\* clusters its heartbeats named while they were live, whichever clusters they name,
\* and whatever is lost, left over from an earlier session or deleted meanwhile.
THEOREM MetricsFollow ==
  TunnelSpec => []MetricsFollowHeartbeats
  <1>1. TunnelInv => MetricsFollowHeartbeats
    BY DEF TunnelInv
  <1> QED BY TunnelInvHolds, <1>1, PTL
============================================================================
