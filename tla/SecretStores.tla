---------------------------- MODULE SecretStores ----------------------------
(***************************************************************************)
(* The `secrets` table, the two SecretStore back ends that write it        *)
(* (PgcryptoStore and VaultStore, one chosen per API process), and         *)
(* kubinate-vault-migrate, which re-encrypts the rows of the first for the *)
(* second while API processes are serving.                                 *)
(*                                                                         *)
(* A ciphertext is the pair of the scheme that produced it and the         *)
(* plaintext.  All keys of a deployment are available and one KEK and one  *)
(* key prefix are in use, as the runbook's preflight requires.             *)
(***************************************************************************)
EXTENDS Integers, Sequences, FiniteSets

CONSTANTS
    Pod,        \* API processes
    Migrator,   \* invocations of kubinate-vault-migrate
    Value,      \* plaintexts
    MaxId,      \* bound: secret ids are 1..MaxId, in the order of their bytes
    BatchSize,  \* --batch-size
    MaxFaults   \* bound on failed Vault calls, failed updates and killed migrations

ASSUME SecretsAssumption ==
    /\ MaxId \in Nat /\ MaxFaults \in Nat
    /\ BatchSize \in Nat \ {0}
    /\ "unused" \notin Value

VARIABLES
    backend,   \* KUBINATE__SECRETS_BACKEND of each API process
    rows,      \* the `secrets` table
    stored,    \* the plaintext put under each id, "unused" before the put
    mig,       \* where each migration is: its batch and the plaintext in hand
    tally,     \* its flag, offset and counters
    faults

vars == <<backend, rows, stored, mig, tally, faults>>

Id == 1..MaxId
Unused == "unused"
Algorithm == {"pgp_sym_v1", "vault_transit_v1"}
Row == [alg : Algorithm, scheme : Algorithm, text : Value, dek : BOOLEAN]

Position(pc, batch, plain) == [pc |-> pc, batch |-> batch, plain |-> plain]
NotRunning == Position("idle", <<>>, Unused)

\* `counted` are the rows of the opening COUNT, `seen` those a batch returned;
\* `disturbed`: someone else changed the table since the COUNT.
Untallied == [apply |-> FALSE, offset |-> 0, errors |-> 0,
              counted |-> {}, seen |-> {}, disturbed |-> FALSE]

TypeOK ==
    /\ DOMAIN rows \subseteq Id /\ \A i \in DOMAIN rows : rows[i] \in Row
    /\ stored \in [Id -> Value \cup {Unused}]
    /\ DOMAIN mig = Migrator

Init ==
    /\ backend = [p \in Pod |-> "pgcrypto"]
    /\ rows = <<>>
    /\ stored = [i \in Id |-> Unused]
    /\ mig = [m \in Migrator |-> NotRunning]
    /\ tally = [m \in Migrator |-> Untallied]
    /\ faults = 0

\* The table changes under the migrations in `others`.
Disturb(others) ==
    tally' = [m \in Migrator |-> [tally[m] EXCEPT !.disturbed = @ \/ m \in others]]

-----------------------------------------------------------------------------
(* The stores *)

PgcryptoRow(v) == [alg |-> "pgp_sym_v1", scheme |-> "pgp_sym_v1", text |-> v, dek |-> TRUE]
VaultRow(v) == [alg |-> "vault_transit_v1", scheme |-> "vault_transit_v1", text |-> v, dek |-> FALSE]

\* put: ids are drawn before the insert commits, so they need not commit in order.
Put(p) ==
    /\ \E i \in Id, v \in Value :
         /\ stored[i] = Unused
         /\ stored' = [stored EXCEPT ![i] = v]
         /\ rows' = [j \in DOMAIN rows \cup {i} |->
                        IF j # i THEN rows[j]
                        ELSE IF backend[p] = "pgcrypto" THEN PgcryptoRow(v) ELSE VaultRow(v)]
    /\ Disturb(Migrator)
    /\ UNCHANGED <<backend, mig, faults>>

\* get: the plaintexts a store returns for a row; none is SecretError::Decrypt.
\* pgcrypto unwraps whatever is in the row, Vault looks at its algorithm first.
PgcryptoGet(row) == IF row.dek /\ row.scheme = "pgp_sym_v1" THEN {row.text} ELSE {}

VaultGet(row) ==
    IF row.alg = "vault_transit_v1" /\ row.scheme = "vault_transit_v1" THEN {row.text} ELSE {}

\* delete, of either store: blank and delete in one transaction.
Delete ==
    /\ \E i \in DOMAIN rows : rows' = [j \in DOMAIN rows \ {i} |-> rows[j]]
    /\ Disturb(Migrator)
    /\ UNCHANGED <<backend, stored, mig, faults>>

\* A rolling restart after the environment variable changed, either way.
Redeploy(p) ==
    /\ backend' = [backend EXCEPT ![p] = IF @ = "pgcrypto" THEN "vault" ELSE "pgcrypto"]
    /\ UNCHANGED <<rows, stored, mig, tally, faults>>

-----------------------------------------------------------------------------
(* kubinate-vault-migrate *)

Candidates == {i \in DOMAIN rows : rows[i].alg = "pgp_sym_v1"}

\* ORDER BY id.
Rank(i) == Cardinality({j \in Candidates : j < i})

\* Count the candidates; leave at once when there are none.
StartMigration(m, apply) ==
    /\ mig[m].pc = "idle"
    /\ mig' = [mig EXCEPT ![m] =
                 Position(IF Candidates = {} THEN "exit" ELSE "fetch", <<>>, Unused)]
    /\ tally' = [tally EXCEPT ![m] = [Untallied EXCEPT !.apply = apply, !.counted = Candidates]]
    /\ UNCHANGED <<backend, rows, stored, faults>>

\* LIMIT BatchSize OFFSET offset.
Batch(offset) ==
    LET picked == {i \in Candidates : offset <= Rank(i) /\ Rank(i) < offset + BatchSize}
    IN  [k \in 1..Cardinality(picked) |-> CHOOSE i \in picked : Rank(i) = offset + k - 1]

\* Mutant of Fetch: the next offset is one too far.
FetchSkipsOne(m) ==
    /\ mig[m].pc = "fetch"
    /\ LET batch == Batch(tally[m].offset) IN
       /\ mig' = [mig EXCEPT ![m] =
                    Position(IF batch = <<>> THEN "exit" ELSE "row", batch, Unused)]
       /\ tally' = [tally EXCEPT ![m].offset = @ + Len(batch) + 1,
                                 ![m].seen = @ \cup {batch[k] : k \in DOMAIN batch}]
    /\ UNCHANGED <<backend, rows, stored, faults>>

Fetch(m) ==
    /\ mig[m].pc = "fetch"
    /\ LET batch == Batch(tally[m].offset) IN
       /\ mig' = [mig EXCEPT ![m] =
                    Position(IF batch = <<>> THEN "exit" ELSE "row", batch, Unused)]
       /\ tally' = [tally EXCEPT ![m].offset = @ + Len(batch),
                                 ![m].seen = @ \cup {batch[k] : k \in DOMAIN batch}]
    /\ UNCHANGED <<backend, rows, stored, faults>>

\* On to the next row of the batch, or the next batch.
RowDone(m) ==
    mig' = [mig EXCEPT ![m] = Position(IF Len(mig[m].batch) = 1 THEN "fetch" ELSE "row",
                                       Tail(mig[m].batch), Unused)]

\* The row is counted as an error and left.
RowError(m) == RowDone(m) /\ tally' = [tally EXCEPT ![m].errors = @ + 1]

\* Decrypt the row; a dry run stops here.  A row deleted or migrated since the
\* batch was fetched is an error.
Decrypt(m) ==
    /\ mig[m].pc = "row"
    /\ LET i == Head(mig[m].batch)
           plain == IF i \in DOMAIN rows THEN PgcryptoGet(rows[i]) ELSE {}
       IN  \/ /\ plain = {}
              /\ RowError(m)
           \/ /\ plain # {} /\ ~tally[m].apply
              /\ RowDone(m) /\ UNCHANGED tally
           \/ /\ tally[m].apply
              /\ \E v \in plain :
                   mig' = [mig EXCEPT ![m] = Position("write", mig[m].batch, v)]
              /\ UNCHANGED tally
    /\ UNCHANGED <<backend, rows, stored, faults>>

\* Mutant of Update: the algorithm column is not written.
UpdateKeepsTag(m) ==
    /\ mig[m].pc = "write"
    /\ LET i == Head(mig[m].batch) IN
       rows' = [j \in DOMAIN rows |->
                  IF j = i /\ rows[j].alg = "pgp_sym_v1"
                  THEN [VaultRow(mig[m].plain) EXCEPT !.alg = "pgp_sym_v1"] ELSE rows[j]]
    /\ RowDone(m) /\ Disturb(Migrator \ {m})
    /\ UNCHANGED <<backend, stored, faults>>

\* Encrypt and update in place, guarded by the algorithm; no row updated is no error.
Update(m) ==
    /\ mig[m].pc = "write"
    /\ LET i == Head(mig[m].batch) IN
       rows' = [j \in DOMAIN rows |->
                  IF j = i /\ rows[j].alg = "pgp_sym_v1" THEN VaultRow(mig[m].plain) ELSE rows[j]]
    /\ RowDone(m) /\ Disturb(Migrator \ {m})
    /\ UNCHANGED <<backend, stored, faults>>

\* Vault or the update fails.
RowFails(m) ==
    /\ mig[m].pc = "write"
    /\ faults < MaxFaults /\ faults' = faults + 1
    /\ RowError(m)
    /\ UNCHANGED <<backend, rows, stored>>

\* The process is killed, or a batch query fails, between two rows.
Kill(m) ==
    /\ mig[m].pc \in {"fetch", "row", "write"}
    /\ faults < MaxFaults /\ faults' = faults + 1
    /\ mig' = [mig EXCEPT ![m] = NotRunning]
    /\ tally' = [tally EXCEPT ![m] = Untallied]
    /\ UNCHANGED <<backend, rows, stored>>

\* The operator reads the exit status; the binary may be run again.
Exit(m) ==
    /\ mig[m].pc = "exit"
    /\ mig' = [mig EXCEPT ![m] = NotRunning]
    /\ tally' = [tally EXCEPT ![m] = Untallied]
    /\ UNCHANGED <<backend, rows, stored, faults>>

Migrate(m) == Fetch(m) \/ Decrypt(m) \/ Update(m) \/ Exit(m)

Next ==
    \/ \E p \in Pod : Put(p) \/ Redeploy(p)
    \/ Delete
    \/ \E m \in Migrator : Migrate(m) \/ RowFails(m) \/ Kill(m)
                           \/ \E apply \in BOOLEAN : StartMigration(m, apply)

Spec == Init /\ [][Next]_vars

\* The binary runs until it exits, and the operator repeats --apply.
FairSpec == Spec /\ \A m \in Migrator : WF_vars(Migrate(m)) /\ SF_vars(StartMigration(m, TRUE))

-----------------------------------------------------------------------------
\* Migrations, puts, deletes and kills in any order: the store a row's algorithm
\* names always decrypts it to the plaintext that was put.
SecretsReadable ==
    \A i \in DOMAIN rows : {stored[i]} =
        IF rows[i].alg = "pgp_sym_v1" THEN PgcryptoGet(rows[i]) ELSE VaultGet(rows[i])

\* The inductive invariant behind SecretsReadable: a migration holds the
\* plaintext of the row it is about to write, and ids are not reused.
Inv ==
    /\ TypeOK
    /\ SecretsReadable
    /\ \A i \in DOMAIN rows : stored[i] # Unused
    /\ \A m \in Migrator : mig[m].pc = "write" =>
         /\ Head(mig[m].batch) \in Id
         /\ stored[Head(mig[m].batch)] # Unused
         /\ mig[m].plain = stored[Head(mig[m].batch)]

Exited(m, code) == mig[m].pc = "exit" /\ (code = 0 <=> tally[m].errors = 0)

\* In a table nobody else changes, a run that exits 0 has read every candidate,
\* when it is a dry run, and has migrated them, when one batch holds them all.
CleanExitCovers ==
    \A m \in Migrator : Exited(m, 0) /\ ~tally[m].disturbed =>
        /\ ~tally[m].apply => tally[m].seen = tally[m].counted
        /\ tally[m].apply /\ Cardinality(tally[m].counted) <= BatchSize => Candidates = {}

RunRow == [pc : {"idle", "fetch", "row", "write", "exit"}, batch : Seq(Id), plain : Value \cup {Unused}]
TallyRow == [apply : BOOLEAN, offset : Nat, errors : Nat,
             counted : SUBSET Id, seen : SUBSET Id, disturbed : BOOLEAN]

\* What a run relies on in a table nobody else changes.  A dry run has seen the
\* candidates below its offset.  A run with --apply whose first batch holds them all
\* and that met no error so far has none left outside that batch.
Clean(run, t) ==
    run.pc # "idle" /\ ~t.disturbed =>
      /\ ~t.apply =>
           /\ Candidates = t.counted
           /\ t.seen = {i \in Candidates : Rank(i) < t.offset}
           /\ run.pc # "write"
           /\ run.pc = "exit" => t.seen = t.counted
      /\ t.apply /\ t.errors = 0 /\ Cardinality(t.counted) <= BatchSize =>
           /\ run.pc = "fetch" => Candidates = {} \/ (t.offset = 0 /\ Candidates = t.counted)
           /\ run.pc \in {"row", "write"} => Candidates \subseteq {run.batch[k] : k \in DOMAIN run.batch}
           /\ run.pc = "exit" => Candidates = {}

\* The inductive invariant behind CleanExitCovers.
TallyInv ==
    /\ DOMAIN rows \subseteq Id
    /\ \A i \in DOMAIN rows : rows[i].text \in Value
    /\ mig \in [Migrator -> RunRow]
    /\ tally \in [Migrator -> TallyRow]
    /\ \A m \in Migrator : mig[m].pc \in {"row", "write"} => mig[m].batch # <<>>
    /\ \A m \in Migrator : Clean(mig[m], tally[m])

\* Repeating --apply converges: the rows the first COUNT finds are gone or
\* migrated in the end, however small the batches (offsets skip rows, but never
\* the first ones), once faults stop and pods no longer write pgcrypto rows.
Converges ==
    <>[](\A p \in Pod : backend[p] = "vault") => <>[](Candidates = {})
=============================================================================
