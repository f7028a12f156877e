----------------------------- MODULE AuditChain -----------------------------
(***************************************************************************)
(* The audit log of one organization.  A transaction that writes an        *)
(* audited row, or calls audit_log_append_explicit, appends one entry      *)
(* chained to the entry it finds last; audit_log_verify walks the chain;   *)
(* GET .../audit-log pages through the entries.                            *)
(*                                                                         *)
(* Transactions run at READ COMMITTED.  An entry's created_at is now(),    *)
(* the start of its transaction, and its id is a random UUID.  A hash is   *)
(* the sequence of payloads it covers: SHA-256 without collisions.  The    *)
(* trigger's definer bypasses row-level security, as the tests assume.     *)
(***************************************************************************)
EXTENDS Integers, Sequences, FiniteSets

CONSTANTS
    Tx,          \* transactions
    Payload,     \* action, resource type and resource id of an entry
    MaxId,       \* bound: ids are 1..MaxId, in the order of their bytes
    PageSize     \* `limit` of the audit-log route

ASSUME ConstantsAssumption == MaxId \in Nat /\ PageSize \in Nat \ {0}

VARIABLES
    entries,  \* committed audit_log_entries
    txs,      \* the transactions
    clock,    \* the time of the last transaction start
    used,     \* ids given out
    overlap,  \* history: a transaction started while another one was open
    reader    \* a browser paging through the log

vars == <<entries, txs, clock, used, overlap, reader>>

Entry == [id : 1..MaxId, at : Nat, payload : Payload, prev : Seq(Payload), hash : Seq(Payload)]

Null == <<>>

\* A transaction; `tail` and `entry` are sets with one element at most.
Transaction(pc, at, tail, entry) == [pc |-> pc, at |-> at, tail |-> tail, entry |-> entry]
TxRow == [pc : {"idle", "open", "wait", "hash", "written", "done", "undone"},
          at : Nat, tail : SUBSET Entry, entry : SUBSET Entry]

TypeOK ==
    /\ entries \in SUBSET Entry
    /\ txs \in [Tx -> TxRow]
    /\ clock \in Nat
    /\ used \in SUBSET (1..MaxId)
    /\ overlap \in BOOLEAN

Init ==
    /\ entries = {} /\ clock = 0 /\ used = {} /\ overlap = FALSE
    /\ txs = [t \in Tx |-> Transaction("idle", 0, {}, {})]
    /\ reader = [open |-> FALSE, cursor |-> MaxId + 1, listed |-> <<>>, owed |-> {}]

-----------------------------------------------------------------------------
\* Mutant of Before: ORDER BY id, as if ids were time-ordered.
BeforeById(e, f) == e.id < f.id

\* ORDER BY created_at, id.
Before(e, f) == e.at < f.at \/ (e.at = f.at /\ e.id < f.id)

Active(t) == txs[t].pc \in {"open", "wait", "hash", "written"}

\* ORDER BY created_at DESC, id DESC LIMIT 1.
Last(rows) == {e \in rows : \A f \in rows : f = e \/ Before(f, e)}

\* audit_log_hash_input and digest.
Hash(prev, payload) == Append(prev, payload)

Begin(t) ==
    /\ txs[t].pc = "idle"
    /\ overlap' = (overlap \/ \E u \in Tx : Active(u))
    /\ clock' = clock + 1
    /\ txs' = [txs EXCEPT ![t] = Transaction("open", clock + 1, {}, {})]
    /\ UNCHANGED <<entries, used, reader>>

\* The trigger's SELECT picks the last row of its statement's snapshot.
SelectTail(t) ==
    /\ txs[t].pc = "open"
    /\ txs' = [txs EXCEPT ![t] = Transaction("wait", txs[t].at, Last(entries), {})]
    /\ UNCHANGED <<entries, clock, used, overlap, reader>>

\* Transactions that hold the row lock FOR UPDATE takes.
Holds(u, e) == txs[u].pc \in {"hash", "written"} /\ e \in txs[u].tail

\* FOR UPDATE: wait for the row picked; nothing changed in that row, so it is
\* the row returned.  An empty log has no row to lock.
LockTail(t) ==
    /\ txs[t].pc = "wait"
    /\ \A u \in Tx \ {t}, e \in txs[t].tail : ~Holds(u, e)
    /\ txs' = [txs EXCEPT ![t] = Transaction("hash", txs[t].at, txs[t].tail, {})]
    /\ UNCHANGED <<entries, clock, used, overlap, reader>>

Insert(t) ==
    /\ txs[t].pc = "hash"
    /\ \E id \in (1..MaxId) \ used, p \in Payload,
          prev \in IF txs[t].tail = {} THEN {Null} ELSE {e.hash : e \in txs[t].tail} :
         /\ used' = used \cup {id}
         /\ txs' = [txs EXCEPT ![t] = Transaction("written", txs[t].at, txs[t].tail,
              {[id |-> id, at |-> txs[t].at, payload |-> p, prev |-> prev, hash |-> Hash(prev, p)]})]
    /\ UNCHANGED <<entries, clock, overlap, reader>>

Commit(t) ==
    /\ txs[t].pc = "written"
    /\ entries' = entries \cup txs[t].entry
    /\ txs' = [txs EXCEPT ![t] = Transaction("done", 0, {}, {})]
    /\ UNCHANGED <<clock, used, overlap, reader>>

\* The statement fails, the handler is dropped or the connection is lost.
Rollback(t) ==
    /\ Active(t)
    /\ txs' = [txs EXCEPT ![t] = Transaction("undone", 0, {}, {})]
    /\ UNCHANGED <<entries, clock, used, overlap, reader>>

-----------------------------------------------------------------------------
(* audit_log_verify *)

Predecessor(e) == Last({f \in entries : Before(f, e)})

PrevHash(e) == IF Predecessor(e) = {} THEN Null
               ELSE CHOOSE h \in {f.hash : f \in Predecessor(e)} : TRUE

\* The rows it reports.
Broken == {e \in entries : e.prev # PrevHash(e) \/ e.hash # Hash(PrevHash(e), e.payload)}

-----------------------------------------------------------------------------
(* GET /v1/organizations/:id/audit-log?before=cursor&limit=PageSize *)

\* Mutant of Page: the cursor is inclusive.
PageInclusive(cursor) ==
    LET below == {e \in entries : e.id <= cursor}
        top == {e \in below : Cardinality({f \in below : f.id > e.id}) < PageSize}
    IN  [i \in 1..Cardinality(top) |->
            CHOOSE e \in top : Cardinality({f \in top : f.id > e.id}) = i - 1]

\* The page: the PageSize highest ids below the cursor, highest first.
Page(cursor) ==
    LET below == {e \in entries : e.id < cursor}
        top == {e \in below : Cardinality({f \in below : f.id > e.id}) < PageSize}
    IN  [i \in 1..Cardinality(top) |->
            CHOOSE e \in top : Cardinality({f \in top : f.id > e.id}) = i - 1]

Loaded(page) ==
    [reader EXCEPT !.listed = @ \o page,
                   !.cursor = IF page = <<>> THEN @ ELSE page[Len(page)].id]

\* The settings page: hasMore.
HasMore == reader.listed # <<>> /\ Len(reader.listed) % PageSize = 0

\* onMount: the first page.
OpenLog ==
    /\ ~reader.open
    /\ reader' = [Loaded(Page(reader.cursor)) EXCEPT !.open = TRUE, !.owed = entries]
    /\ UNCHANGED <<entries, txs, clock, used, overlap>>

\* loadMore: the page below the last entry shown.
LoadMore ==
    /\ reader.open /\ HasMore
    /\ reader' = Loaded(Page(reader.cursor))
    /\ UNCHANGED <<entries, txs, clock, used, overlap>>

Next ==
    \/ \E t \in Tx : \/ Begin(t) \/ SelectTail(t) \/ LockTail(t) \/ Insert(t)
                     \/ Commit(t) \/ Rollback(t)
    \/ OpenLog \/ LoadMore

Spec == Init /\ [][Next]_vars

-----------------------------------------------------------------------------
\* Transactions that do not overlap, rolled back or not, leave a log that
\* audit_log_verify accepts.
SerialLogVerifies == ~overlap => Broken = {}

\* Whatever is appended while the log is paged through, no entry is shown twice,
\* and of the entries that were there at the start all down to the cursor are
\* shown, all of them once "load more" is no longer offered.
PagingIsComplete ==
    LET shown == {reader.listed[i] : i \in DOMAIN reader.listed} IN
    /\ Cardinality(shown) = Len(reader.listed)
    /\ \A e \in reader.owed : e.id >= reader.cursor \/ ~HasMore => e \in shown

\* The row the trigger locks is in the log, and an entry not yet committed has an
\* id that is not.
Pending(t) ==
    /\ txs[t].tail \subseteq entries
    /\ \A e \in txs[t].entry : e.id \in used /\ \A f \in entries : e.id # f.id

\* The inductive invariant on which SerialInv and ReaderInv build.
Inv ==
    /\ TypeOK
    /\ \A e \in entries : e.id \in used
    /\ \A t \in Tx : Pending(t)
    /\ \A t, u \in Tx : \A e \in txs[t].entry, f \in txs[u].entry : t # u => e.id # f.id

\* What makes a serial log verify, as long as no transactions overlapped: one
\* transaction is active at most and is younger than every entry, its tail is the
\* last entry, entries have different times, and one of them is the last.
SerialInv ==
    /\ \A t, u \in Tx : Active(t) /\ Active(u) => t = u
    /\ \A e \in entries : e.at <= clock
    /\ \A e, f \in entries : e.at = f.at => e = f
    /\ \A t \in Tx : Active(t) => txs[t].at = clock /\ \A e \in entries : e.at < clock
    /\ \A t \in Tx : txs[t].pc \in {"wait", "hash", "written"} => txs[t].tail = Last(entries)
    /\ \A t \in Tx : txs[t].pc = "written" => \E e \in txs[t].entry :
         /\ txs[t].entry = {e} /\ e.at = txs[t].at /\ e.hash = Hash(e.prev, e.payload)
         /\ IF txs[t].tail = {} THEN e.prev = Null ELSE \E f \in txs[t].tail : e.prev = f.hash
    /\ entries = {} \/ \E e \in entries : Last(entries) = {e}
    /\ Broken = {}

\* What makes paging complete: ids tell entries apart, an entry not yet committed
\* included; what is listed is at or above the cursor, each entry once; what the
\* reader is owed is listed down to the cursor, and all of it when the last page
\* was not full.
ReaderInv ==
    LET shown == {reader.listed[i] : i \in DOMAIN reader.listed} IN
    /\ \A e, f \in entries : e.id = f.id => e = f
    /\ \A t \in Tx : \A e, f \in txs[t].entry : e = f
    /\ reader \in [open : BOOLEAN, cursor : Int, listed : Seq(Entry), owed : SUBSET Entry]
    /\ ~reader.open => reader.cursor = MaxId + 1 /\ reader.listed = <<>>
    /\ reader.owed \subseteq entries
    /\ \A i \in DOMAIN reader.listed : reader.listed[i].id >= reader.cursor
    /\ \A i, j \in DOMAIN reader.listed : reader.listed[i].id = reader.listed[j].id => i = j
    /\ \A e \in reader.owed : e.id >= reader.cursor \/ ~HasMore => e \in shown
=============================================================================
