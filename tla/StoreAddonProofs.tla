------------------------- MODULE StoreAddonProofs -------------------------
(***************************************************************************)
(* Inv of SecretStores is inductive, for any pods, migrations, plaintexts, *)
(* ids and batch sizes.  What a batch holds does not matter to it: the row *)
(* a migration works on is checked again when it is decrypted.  TallyInv,  *)
(* inductive with it, gives what a clean exit means; it rests on what      *)
(* ORDER BY id LIMIT and OFFSET return.  AddonsInv of Addons is inductive, *)
(* for any chart versions and any number of requests, however they are     *)
(* dropped, fail or crash.                                                 *)
(***************************************************************************)
EXTENDS SecretStores, Addons, FiniteSetTheorems, SequenceTheorems, TLAPS

(* SecretStores *)

\* The fields of a migration's position.
LEMMA PositionFields ==
  ASSUME NEW pc, NEW batch, NEW plain
  PROVE  /\ Position(pc, batch, plain).pc = pc
         /\ Position(pc, batch, plain).batch = batch
         /\ Position(pc, batch, plain).plain = plain
  BY DEF Position

\* The row a store writes is read back as the plaintext it was given.
LEMMA StoresReadBack ==
  ASSUME NEW v \in Value
  PROVE  /\ PgcryptoRow(v) \in Row /\ PgcryptoRow(v).alg = "pgp_sym_v1"
         /\ PgcryptoGet(PgcryptoRow(v)) = {v}
         /\ VaultRow(v) \in Row /\ VaultRow(v).alg = "vault_transit_v1"
         /\ VaultGet(VaultRow(v)) = {v}
  BY DEF PgcryptoRow, VaultRow, Row, Algorithm, PgcryptoGet, VaultGet

\* The empty table satisfies Inv.
LEMMA InitInv == Init => Inv
  <1> SUFFICES ASSUME Init PROVE Inv
    OBVIOUS
  <1>1. DOMAIN rows = {}
    BY DEF Init
  <1>2. \A m \in Migrator : mig[m].pc = "idle"
    BY PositionFields DEF Init, NotRunning
  <1>3. TypeOK
    BY <1>1 DEF Init, TypeOK
  <1> QED BY <1>1, <1>2, <1>3 DEF Inv, SecretsReadable

\* A step of migration m that leaves the table alone: it decrypts a row right, or
\* has nothing to write.
LEMMA MigrationStep ==
  ASSUME Inv, NEW m \in Migrator, NEW x, mig' = [mig EXCEPT ![m] = x],
         rows' = rows, stored' = stored,
         x.pc = "write" => /\ Head(x.batch) \in Id /\ stored[Head(x.batch)] # Unused
                           /\ x.plain = stored[Head(x.batch)]
  PROVE  Inv'
  <1>1. DOMAIN mig' = Migrator /\ mig'[m] = x /\ \A n \in Migrator \ {m} : mig'[n] = mig[n]
    BY DEF Inv, TypeOK
  <1>2. TypeOK' /\ SecretsReadable' /\ \A i \in DOMAIN rows' : stored'[i] # Unused
    BY <1>1 DEF Inv, TypeOK, SecretsReadable
  <1>3. ASSUME NEW n \in Migrator, mig'[n].pc = "write"
        PROVE  /\ Head(mig'[n].batch) \in Id /\ stored'[Head(mig'[n].batch)] # Unused
               /\ mig'[n].plain = stored'[Head(mig'[n].batch)]
    <2>1. CASE n = m
      BY <1>1, <1>3, <2>1
    <2>2. CASE n # m
      <3>1. mig'[n] = mig[n]
        BY <1>1, <2>2
      <3> QED BY <1>3, <3>1 DEF Inv
    <2> QED BY <2>1, <2>2
  <1> QED BY <1>2, <1>3 DEF Inv

\* Put writes an id that had no row and that no migration has in hand.
LEMMA PutKeeps == ASSUME Inv, NEW p \in Pod, Put(p) PROVE Inv'
  <1>1. PICK i \in Id, v \in Value :
          /\ stored[i] = Unused
          /\ stored' = [stored EXCEPT ![i] = v]
          /\ rows' = [j \in DOMAIN rows \cup {i} |->
                        IF j # i THEN rows[j]
                        ELSE IF backend[p] = "pgcrypto" THEN PgcryptoRow(v) ELSE VaultRow(v)]
    BY Zenon DEF Put
  <1>2. mig' = mig
    BY DEF Put
  <1>3. v # Unused
    BY SecretsAssumption DEF Unused
  <1>4. /\ stored' \in [Id -> Value \cup {Unused}] /\ stored'[i] = v
        /\ \A j \in Id \ {i} : stored'[j] = stored[j]
    BY <1>1 DEF Inv, TypeOK
  <1>5. i \notin DOMAIN rows /\ DOMAIN rows \subseteq Id
    BY <1>1 DEF Inv, TypeOK
  <1>6. DOMAIN rows' = DOMAIN rows \cup {i} /\ \A j \in DOMAIN rows : rows'[j] = rows[j]
    BY <1>1, <1>5
  <1>7. rows'[i] = PgcryptoRow(v) \/ rows'[i] = VaultRow(v)
    BY <1>1
  <1>8. TypeOK'
    BY <1>2, <1>4, <1>5, <1>6, <1>7, StoresReadBack DEF Inv, TypeOK
  <1>9. SecretsReadable'
    <2> SUFFICES ASSUME NEW j \in DOMAIN rows'
                 PROVE  {stored'[j]} = IF rows'[j].alg = "pgp_sym_v1" THEN PgcryptoGet(rows'[j])
                                       ELSE VaultGet(rows'[j])
      BY DEF SecretsReadable, PgcryptoGet, VaultGet
    <2>1. CASE j = i
      BY <1>4, <1>7, <2>1, StoresReadBack
    <2>2. CASE j # i
      <3>1. j \in DOMAIN rows /\ rows'[j] = rows[j] /\ stored'[j] = stored[j]
        BY <1>4, <1>5, <1>6, <2>2
      <3> QED BY <3>1 DEF Inv, SecretsReadable
    <2> QED BY <2>1, <2>2
  <1>10. \A j \in DOMAIN rows' : stored'[j] # Unused
    BY <1>3, <1>4, <1>5, <1>6 DEF Inv
  <1>11. \A m \in Migrator : mig'[m].pc = "write" =>
           /\ Head(mig'[m].batch) \in Id
           /\ stored'[Head(mig'[m].batch)] # Unused
           /\ mig'[m].plain = stored'[Head(mig'[m].batch)]
    BY <1>1, <1>2, <1>4 DEF Inv
  <1> QED BY <1>8, <1>9, <1>10, <1>11 DEF Inv

\* Delete takes a row away.
LEMMA DeleteKeeps == ASSUME Inv, Delete PROVE Inv'
  <1>1. PICK i \in DOMAIN rows : rows' = [j \in DOMAIN rows \ {i} |-> rows[j]]
    BY DEF Delete
  <1>2. mig' = mig /\ stored' = stored
    BY DEF Delete
  <1>3. DOMAIN rows' = DOMAIN rows \ {i} /\ \A j \in DOMAIN rows' : rows'[j] = rows[j]
    BY <1>1
  <1>4. TypeOK'
    BY <1>2, <1>3 DEF Inv, TypeOK
  <1>5. SecretsReadable'
    BY <1>2, <1>3 DEF Inv, SecretsReadable
  <1> QED BY <1>2, <1>3, <1>4, <1>5 DEF Inv

\* Decrypt: what the migration holds afterwards is what was put under the id.
LEMMA DecryptKeeps == ASSUME Inv, NEW m \in Migrator, Decrypt(m) PROVE Inv'
  <1> DEFINE i == Head(mig[m].batch)
             plain == IF i \in DOMAIN rows THEN PgcryptoGet(rows[i]) ELSE {}
  <1>1. rows' = rows /\ stored' = stored
    BY DEF Decrypt
  <1>2. CASE RowDone(m)
    <2> DEFINE x == Position(IF Len(mig[m].batch) = 1 THEN "fetch" ELSE "row",
                             Tail(mig[m].batch), Unused)
    <2>1. mig' = [mig EXCEPT ![m] = x]
      BY <1>2 DEF RowDone
    <2>2. x.pc # "write"
      BY PositionFields
    <2> HIDE DEF x
    <2> QED BY <1>1, <2>1, <2>2, MigrationStep, Zenon
  <1>3. CASE \E v \in plain : mig' = [mig EXCEPT ![m] = Position("write", mig[m].batch, v)]
    <2>1. PICK v \in plain : mig' = [mig EXCEPT ![m] = Position("write", mig[m].batch, v)]
      BY <1>3, Zenon
    <2>2. i \in DOMAIN rows /\ v \in PgcryptoGet(rows[i])
      BY <2>1
    <2>3. i \in Id /\ stored[i] # Unused
      BY <2>2, Zenon DEF Inv, TypeOK
    <2>4. v = stored[i]
      <3>1. rows[i].scheme = "pgp_sym_v1" /\ v = rows[i].text
        BY <2>2 DEF PgcryptoGet
      <3>2. {stored[i]} = IF rows[i].alg = "pgp_sym_v1" THEN PgcryptoGet(rows[i]) ELSE VaultGet(rows[i])
        BY <2>2 DEF Inv, SecretsReadable
      <3> QED BY <2>2, <3>1, <3>2 DEF PgcryptoGet, VaultGet
    <2> DEFINE x == Position("write", mig[m].batch, v)
    <2>5. x.batch = mig[m].batch /\ x.plain = v
      BY PositionFields
    <2>6. mig' = [mig EXCEPT ![m] = x]
      BY <2>1
    <2> HIDE DEF x
    <2> QED BY <1>1, <2>3, <2>4, <2>5, <2>6, MigrationStep, Zenon
  <1> QED BY <1>2, <1>3 DEF Decrypt, RowError

\* Update: the row it writes reads back as the plaintext that was put.
LEMMA UpdateKeeps == ASSUME Inv, NEW m \in Migrator, Update(m) PROVE Inv'
  <1> DEFINE i == Head(mig[m].batch)
             x == Position(IF Len(mig[m].batch) = 1 THEN "fetch" ELSE "row",
                           Tail(mig[m].batch), Unused)
  <1>1. /\ stored' = stored /\ mig' = [mig EXCEPT ![m] = x]
        /\ rows' = [j \in DOMAIN rows |-> IF j = i /\ rows[j].alg = "pgp_sym_v1"
                                          THEN VaultRow(mig[m].plain) ELSE rows[j]]
    BY DEF Update, RowDone
  <1>2. x.pc # "write"
    BY PositionFields
  <1> HIDE DEF x
  <1>3. i \in Id /\ stored[i] # Unused /\ mig[m].plain = stored[i] /\ stored[i] \in Value
    BY DEF Update, Inv, TypeOK
  <1> HIDE DEF i
  <1>4. DOMAIN mig' = Migrator /\ mig'[m] = x /\ \A n \in Migrator \ {m} : mig'[n] = mig[n]
    BY <1>1 DEF Inv, TypeOK
  <1>5. DOMAIN rows' = DOMAIN rows
    BY <1>1
  <1>6. \A j \in DOMAIN rows : rows'[j] = rows[j] \/ (j = i /\ rows'[j] = VaultRow(stored[i]))
    BY <1>1, <1>3
  <1>7. TypeOK'
    BY <1>1, <1>3, <1>4, <1>5, <1>6, StoresReadBack DEF Inv, TypeOK
  <1>8. SecretsReadable'
    <2> SUFFICES ASSUME NEW j \in DOMAIN rows
                 PROVE  {stored[j]} = IF rows'[j].alg = "pgp_sym_v1" THEN PgcryptoGet(rows'[j])
                                      ELSE VaultGet(rows'[j])
      BY <1>1, <1>5 DEF SecretsReadable, PgcryptoGet, VaultGet
    <2>1. CASE rows'[j] = rows[j]
      BY <2>1 DEF Inv, SecretsReadable
    <2>2. CASE j = i /\ rows'[j] = VaultRow(stored[i])
      BY <1>3, <2>2, StoresReadBack
    <2> QED BY <1>6, <2>1, <2>2
  <1>9. \A j \in DOMAIN rows' : stored'[j] # Unused
    BY <1>1, <1>5 DEF Inv
  <1>10. ASSUME NEW n \in Migrator, mig'[n].pc = "write"
         PROVE  /\ Head(mig'[n].batch) \in Id /\ stored'[Head(mig'[n].batch)] # Unused
                /\ mig'[n].plain = stored'[Head(mig'[n].batch)]
    <2>1. n # m
      BY <1>2, <1>4, <1>10
    <2>2. mig'[n] = mig[n]
      BY <1>4, <2>1
    <2> QED BY <1>1, <1>10, <2>2 DEF Inv
  <1> QED BY <1>7, <1>8, <1>9, <1>10 DEF Inv

\* The other steps of a migration leave the table alone and have nothing to write.
LEMMA OtherKeeps ==
  ASSUME Inv, NEW m \in Migrator,
         Fetch(m) \/ Exit(m) \/ RowFails(m) \/ Kill(m) \/ \E apply \in BOOLEAN : StartMigration(m, apply)
  PROVE  Inv'
  <1>1. rows' = rows /\ stored' = stored
    BY Zenon DEF Fetch, Exit, RowFails, Kill, StartMigration
  <1>2. \E pc \in {"idle", "fetch", "row", "exit"} : \E batch :
          mig' = [mig EXCEPT ![m] = Position(pc, batch, Unused)]
    <2>1. CASE Fetch(m)
      BY <2>1, Zenon DEF Fetch
    <2>2. CASE Exit(m) \/ Kill(m)
      BY <2>2 DEF Exit, Kill, NotRunning
    <2>3. CASE RowFails(m)
      BY <2>3, Zenon DEF RowFails, RowError, RowDone
    <2>4. CASE \E apply \in BOOLEAN : StartMigration(m, apply)
      BY <2>4, Zenon DEF StartMigration
    <2> QED BY <2>1, <2>2, <2>3, <2>4
  <1>3. PICK pc \in {"idle", "fetch", "row", "exit"} : \E batch :
          mig' = [mig EXCEPT ![m] = Position(pc, batch, Unused)]
    BY <1>2, Zenon
  <1>4. PICK batch : mig' = [mig EXCEPT ![m] = Position(pc, batch, Unused)]
    BY <1>3, Zenon
  <1> DEFINE x == Position(pc, batch, Unused)
  <1>5. x.pc # "write"
    BY PositionFields
  <1>6. mig' = [mig EXCEPT ![m] = x]
    BY <1>4
  <1> HIDE DEF x
  <1> QED BY <1>1, <1>5, <1>6, MigrationStep, Zenon

\* Every step keeps Inv.
LEMMA NextInv == Inv /\ [Next]_vars => Inv'
  <1> SUFFICES ASSUME Inv, [Next]_vars PROVE Inv'
    OBVIOUS
  <1>1. CASE UNCHANGED <<rows, stored, mig>>
    BY <1>1 DEF Inv, TypeOK, SecretsReadable
  <1>2. ASSUME NEW p \in Pod, Redeploy(p) PROVE Inv'
    BY <1>1, <1>2 DEF Redeploy
  <1>3. CASE UNCHANGED vars
    BY <1>1, <1>3 DEF vars
  <1> QED BY <1>2, <1>3, PutKeeps, DeleteKeeps, DecryptKeeps, UpdateKeeps, OtherKeeps
          DEF Next, Migrate

\* The inductive invariant holds in every reachable state.
THEOREM InvHolds == Spec => []Inv
  BY InitInv, NextInv, PTL DEF Spec

\* put, delete and kubinate-vault-migrate: however many pods and migrations work on
\* the table and wherever they are killed, the store a row's algorithm names
\* decrypts it to the plaintext that was put.
THEOREM SecretsStayReadable == Spec => []SecretsReadable
  <1>1. Inv => SecretsReadable
    BY DEF Inv
  <1> QED BY <1>1, InvHolds, PTL

\* ORDER BY id numbers the candidates from 0.
LEMMA Ranked ==
  ASSUME Candidates \subseteq Id
  PROVE  /\ IsFiniteSet(Candidates) /\ Cardinality(Candidates) \in Nat
         /\ \A i \in Candidates : Rank(i) \in 0..(Cardinality(Candidates) - 1)
         /\ \A i, j \in Candidates : Rank(i) = Rank(j) => i = j
         /\ \A r \in 0..(Cardinality(Candidates) - 1) : \E i \in Candidates : Rank(i) = r
  <1>1. PICK C : C = Candidates
    OBVIOUS
  <1> DEFINE Below(i) == {j \in C : j < i}
             n == Cardinality(C)
  <1>2. \A i \in C : i \in Int
    BY <1>1, SecretsAssumption DEF Id
  <1>3. IsFiniteSet(C) /\ n \in Nat
    <2>1. IsFiniteSet(Id)
      BY FS_Interval, SecretsAssumption DEF Id
    <2>2. IsFiniteSet(C)
      BY <1>1, <2>1, FS_Subset
    <2> QED BY <2>2, FS_CardinalityType
  <1>4. ASSUME NEW i \in C
        PROVE  IsFiniteSet(Below(i)) /\ Rank(i) = Cardinality(Below(i)) /\ Rank(i) \in Nat
    <2>1. Below(i) \in SUBSET C
      OBVIOUS
    <2>2. IsFiniteSet(Below(i))
      BY <1>3, <2>1, FS_Subset
    <2>3. Rank(i) = Cardinality(Below(i))
      BY <1>1 DEF Rank
    <2> QED BY <2>2, <2>3, FS_CardinalityType
  <1>5. ASSUME NEW i, NEW S, IsFiniteSet(S), NEW T \in SUBSET S, i \in S, i \notin T
        PROVE  Cardinality(T) < Cardinality(S)
    <2>1. IsFiniteSet(T) /\ Cardinality(T) <= Cardinality(S) /\ Cardinality(S) # Cardinality(T)
      BY <1>5, FS_Subset
    <2>2. Cardinality(T) \in Nat /\ Cardinality(S) \in Nat
      BY <1>5, <2>1, FS_CardinalityType
    <2> QED BY <2>1, <2>2
  <1>6. ASSUME NEW i \in C PROVE Rank(i) < n
    <2>1. Below(i) \in SUBSET C /\ i \notin Below(i)
      BY <1>2
    <2>2. Cardinality(Below(i)) < n
      BY <1>3, <1>5, <2>1
    <2> QED BY <1>4, <2>2
  <1>7. ASSUME NEW i \in C, NEW j \in C, i < j PROVE Rank(i) < Rank(j)
    <2>1. Below(i) \in SUBSET Below(j) /\ i \in Below(j) /\ i \notin Below(i)
      BY <1>2, <1>7
    <2>2. IsFiniteSet(Below(j))
      BY <1>4
    <2> HIDE DEF Below
    <2>3. Cardinality(Below(i)) < Cardinality(Below(j))
      BY <1>5, <2>1, <2>2
    <2> QED BY <1>4, <2>3
  <1> HIDE DEF n
  <1>8. ASSUME NEW i \in C PROVE Rank(i) \in 0..(n - 1)
    <2>1. Rank(i) \in Nat
      BY <1>4, Zenon
    <2>2. Rank(i) < n
      BY <1>6
    <2> QED BY <1>3, <2>1, <2>2
  <1>9. ASSUME NEW i \in C, NEW j \in C, i # j PROVE Rank(i) # Rank(j)
    <2>1. i < j \/ j < i
      BY <1>2, <1>9
    <2>2. Rank(i) \in Nat /\ Rank(j) \in Nat
      BY <1>4, Zenon
    <2>3. Rank(i) < Rank(j) \/ Rank(j) < Rank(i)
      BY <1>7, <2>1
    <2> QED BY <2>2, <2>3
  <1> DEFINE R == [i \in C |-> Rank(i)]
  <1>10. R \in Injection(C, 0..(n - 1))
    BY <1>8, <1>9 DEF Injection, IsInjective
  <1>11. IsFiniteSet(0..(n - 1)) /\ Cardinality(0..(n - 1)) = n
    <2>1. 0 \in Int /\ n - 1 \in Int
      BY <1>3
    <2>2. IsFiniteSet(0..(n - 1)) /\ Cardinality(0..(n - 1)) = IF 0 > n - 1 THEN 0 ELSE (n - 1) - 0 + 1
      BY <2>1, FS_Interval
    <2> QED BY <1>3, <2>2
  <1>12. R \in Surjection(C, 0..(n - 1))
    BY <1>10, <1>11, FS_Injection DEF n
  <1>13. \A r \in 0..(n - 1) : \E i \in C : Rank(i) = r
    BY <1>12, Zenon DEF Surjection
  <1> QED BY <1>1, <1>3, <1>8, <1>9, <1>13 DEF n

\* fetch_batch: the candidates whose rank is in the window, none when the offset is
\* past the last one; the next offset is past all of them.
LEMMA BatchOf ==
  ASSUME Candidates \subseteq Id, NEW offset \in Nat, NEW batch, batch = Batch(offset)
  PROVE  /\ batch \in Seq(Id)
         /\ Range(batch) \subseteq Candidates
         /\ \A i \in Candidates :
              /\ i \in Range(batch) <=> offset <= Rank(i) /\ Rank(i) < offset + BatchSize
              /\ i \in Range(batch) <=> offset <= Rank(i) /\ Rank(i) < offset + Len(batch)
         /\ batch = <<>> => \A i \in Candidates : Rank(i) < offset
  <1>1. PICK C : C = Candidates
    OBVIOUS
  <1>2. PICK N \in Nat : N = Cardinality(C)
    BY <1>1, Ranked
  <1>3. /\ \A i \in C : Rank(i) \in 0..(N - 1)
        /\ \A i, j \in C : Rank(i) = Rank(j) => i = j
        /\ \A r \in 0..(N - 1) : \E i \in C : Rank(i) = r
        /\ IsFiniteSet(C)
    BY <1>1, <1>2, Ranked
  <1>4. BatchSize \in Nat /\ BatchSize # 0
    BY SecretsAssumption
  <1>5. PICK u \in Nat : /\ offset <= u /\ u <= offset + BatchSize
                         /\ \A r \in 0..(N - 1) : r < u <=> r < offset + BatchSize
                         /\ u = offset \/ u <= N
                         /\ u = offset => N <= offset
    <2>1. CASE N <= offset
      <3>1. offset \in Nat /\ offset <= offset /\ offset <= offset + BatchSize
        BY <1>4
      <3>2. \A r \in 0..(N - 1) : r < offset <=> r < offset + BatchSize
        BY <1>4, <2>1
      <3> QED BY <2>1, <3>1, <3>2
    <2>2. CASE offset < N /\ N <= offset + BatchSize
      <3>1. \A r \in 0..(N - 1) : r < N <=> r < offset + BatchSize
        BY <1>4, <2>2
      <3> QED BY <1>4, <2>2, <3>1
    <2>3. CASE offset + BatchSize < N
      <3>1. offset + BatchSize \in Nat /\ offset <= offset + BatchSize /\ offset + BatchSize # offset
        BY <1>4
      <3> QED BY <1>4, <2>3, <3>1
    <2> QED BY <1>4, <2>1, <2>2, <2>3
  <1> DEFINE picked == {i \in C : offset <= Rank(i) /\ Rank(i) < offset + BatchSize}
             n == Cardinality(picked)
             R == [i \in picked |-> Rank(i)]
  <1>6. \A i \in C : i \in picked <=> offset <= Rank(i) /\ Rank(i) < u
    BY <1>3, <1>5
  <1>7. picked \in SUBSET C
    OBVIOUS
  <1>8. batch = [k \in 1..n |-> CHOOSE i \in picked : Rank(i) = offset + k - 1]
    BY <1>1 DEF Batch
  <1> HIDE DEF picked
  <1>9. ASSUME NEW r \in offset..(u - 1) PROVE \E i \in picked : Rank(i) = r
    <2>1. r \in 0..(N - 1)
      BY <1>5
    <2>2. PICK i \in C : Rank(i) = r
      BY <1>3, <2>1
    <2> QED BY <1>6, <2>2
  <1>10. \A i \in picked : Rank(i) \in offset..(u - 1)
    BY <1>3, <1>6, <1>7
  <1>11. R \in Bijection(picked, offset..(u - 1))
    BY <1>3, <1>7, <1>9, <1>10 DEF Bijection, Injection, IsInjective, Surjection
  <1>12. n = u - offset /\ n \in Nat
    <2>1. IsFiniteSet(picked)
      BY <1>3, <1>7, FS_Subset
    <2>2. Cardinality(offset..(u - 1)) = n
      BY <1>11, <2>1, FS_Bijection DEF ExistsBijection
    <2>3. Cardinality(offset..(u - 1)) = IF offset > u - 1 THEN 0 ELSE (u - 1) - offset + 1
      <3>1. offset \in Int /\ u - 1 \in Int
        OBVIOUS
      <3> QED BY <3>1, FS_Interval
    <2> HIDE DEF n
    <2> QED BY <1>5, <2>2, <2>3
  <1> HIDE DEF n, R
  <1>13. ASSUME NEW k \in 1..n PROVE batch[k] \in picked /\ Rank(batch[k]) = offset + k - 1
    <2>1. offset + k - 1 \in offset..(u - 1)
      BY <1>12
    <2>2. \E i \in picked : Rank(i) = offset + k - 1
      BY <1>9, <2>1
    <2>3. batch[k] = CHOOSE i \in picked : Rank(i) = offset + k - 1
      BY <1>8
    <2> QED BY <2>2, <2>3
  <1>14. DOMAIN batch = 1..n /\ batch \in Seq(Id) /\ Len(batch) = n
    <2>1. DOMAIN batch = 1..n
      BY <1>8
    <2>2. \A k \in 1..n : batch[k] \in Id
      BY <1>1, <1>7, <1>13
    <2>3. batch \in [1..n -> Id]
      BY <1>8, <2>2, Zenon
    <2>4. batch \in Seq(Id)
      BY <1>12, <2>3
    <2>5. Len(batch) \in Nat /\ DOMAIN batch = 1..Len(batch)
      BY <2>4, LenProperties
    <2> QED BY <1>12, <2>1, <2>4, <2>5
  <1>15. ASSUME NEW i \in picked PROVE \E k \in 1..n : i = batch[k]
    <2>1. PICK k \in 1..n : Rank(i) = offset + k - 1
      <3>1. Rank(i) - offset + 1 \in 1..n /\ Rank(i) = offset + (Rank(i) - offset + 1) - 1
        BY <1>10, <1>12
      <3> QED BY <3>1
    <2>2. batch[k] \in picked /\ Rank(batch[k]) = Rank(i)
      BY <1>13, <2>1
    <2> QED BY <1>3, <1>7, <2>2
  <1>16. Range(batch) = picked
    BY <1>13, <1>14, <1>15 DEF Range
  <1>17. \A i \in Candidates : i \in picked <=> offset <= Rank(i) /\ Rank(i) < offset + Len(batch)
    <2>1. offset + Len(batch) = u
      BY <1>12, <1>14
    <2> QED BY <1>1, <1>6, <1>7, <2>1
  <1>18. ASSUME batch = <<>>, NEW i \in Candidates PROVE Rank(i) < offset
    <2>1. n = 0
      BY <1>14, <1>18
    <2>2. N <= offset
      BY <1>5, <1>12, <2>1
    <2>3. Rank(i) \in 0..(N - 1)
      BY <1>1, <1>3
    <2> QED BY <2>2, <2>3
  <1> QED BY <1>1, <1>14, <1>16, <1>17, <1>18 DEF picked

\* The table decides what Clean says of a run.
LEMMA CleanOfRows ==
  ASSUME rows' = rows, NEW run, NEW t PROVE Clean(run, t)' = Clean(run, t)
  BY DEF Clean, Candidates, Rank

\* A step of m alone, which leaves the table as it is.
LEMMA RunStep ==
  ASSUME TallyInv, NEW m \in Migrator, NEW x \in RunRow, NEW y \in TallyRow,
         mig' = [mig EXCEPT ![m] = x], tally' = [tally EXCEPT ![m] = y], rows' = rows,
         x.pc \in {"row", "write"} => x.batch # <<>>, Clean(x, y)
  PROVE  TallyInv'
  <1>1. mig' \in [Migrator -> RunRow] /\ mig'[m] = x /\ \A n \in Migrator \ {m} : mig'[n] = mig[n]
    BY DEF TallyInv
  <1>2. tally' \in [Migrator -> TallyRow] /\ tally'[m] = y /\ \A n \in Migrator \ {m} : tally'[n] = tally[n]
    BY DEF TallyInv
  <1>3. \A n \in Migrator : mig'[n].pc \in {"row", "write"} => mig'[n].batch # <<>>
    BY <1>1 DEF TallyInv
  <1>4. ASSUME NEW n \in Migrator PROVE Clean(mig[n], tally[n])'
    <2>1. PICK run, t : run = mig'[n] /\ t = tally'[n]
      OBVIOUS
    <2>2. Clean(run, t)
      <3>1. CASE n = m
        BY <1>1, <1>2, <2>1, <3>1
      <3>2. CASE n # m
        <4>1. run = mig[n] /\ t = tally[n]
          BY <1>1, <1>2, <2>1, <3>2
        <4>2. Clean(mig[n], tally[n])
          BY DEF TallyInv
        <4> QED BY <4>1, <4>2
      <3> QED BY <3>1, <3>2
    <2>3. Clean(run, t)'
      BY <2>2, CleanOfRows
    <2> QED BY <2>1, <2>3 DEF Clean
  <1> QED BY <1>1, <1>2, <1>3, <1>4 DEF TallyInv

\* A table that changes under a run frees it of every promise.
LEMMA DisturbedRuns ==
  ASSUME TallyInv, NEW others, Disturb(others)
  PROVE  /\ tally' \in [Migrator -> TallyRow]
         /\ \A n \in Migrator : n \in others => tally'[n].disturbed
         /\ \A n \in Migrator : n \notin others => tally'[n] = tally[n]
         /\ \A n \in Migrator : n \in others => Clean(mig[n], tally[n])'
  <1>1. ASSUME NEW n \in Migrator
        PROVE  /\ tally'[n] \in TallyRow
               /\ n \in others => tally'[n].disturbed = TRUE
               /\ n \notin others => tally'[n] = tally[n]
    <2>1. tally[n] \in TallyRow
      BY DEF TallyInv
    <2>2. tally'[n] = [tally[n] EXCEPT !.disturbed = tally[n].disturbed \/ n \in others]
      BY DEF Disturb
    <2>3. CASE n \in others
      <3>1. (tally[n].disturbed \/ n \in others) = TRUE
        BY <2>3
      <3>2. tally'[n] = [tally[n] EXCEPT !.disturbed = TRUE]
        BY <2>2, <3>1, Zenon
      <3> QED BY <2>1, <2>3, <3>2, Zenon DEF TallyRow
    <2>4. CASE n \notin others
      <3>1. (tally[n].disturbed \/ n \in others) = tally[n].disturbed
        BY <2>1, <2>4 DEF TallyRow
      <3>2. tally'[n] = [tally[n] EXCEPT !.disturbed = tally[n].disturbed]
        BY <2>2, <3>1
      <3>3. tally'[n] = tally[n]
        BY <2>1, <3>2 DEF TallyRow
      <3> QED BY <2>1, <2>4, <3>3
    <2> QED BY <2>3, <2>4, Zenon
  <1>2. tally' \in [Migrator -> TallyRow]
    <2>1. tally' = [n \in Migrator |-> tally'[n]]
      BY DEF Disturb
    <2> QED BY <1>1, <2>1, Zenon
  <1>3. ASSUME NEW n \in Migrator, n \in others PROVE Clean(mig[n], tally[n])'
    BY <1>1, <1>3, Zenon DEF Clean
  <1> QED BY <1>1, <1>2, <1>3, Zenon

\* Put and delete change the table under every run.
LEMMA PutTally == ASSUME Inv, TallyInv, (\E p \in Pod : Put(p)) \/ Delete PROVE TallyInv'
  <1>1. mig' = mig /\ Disturb(Migrator)
    BY Zenon DEF Put, Delete
  <1>2. /\ tally' \in [Migrator -> TallyRow]
        /\ \A n \in Migrator : Clean(mig[n], tally[n])'
    BY <1>1, DisturbedRuns
  <1>3. DOMAIN rows' \subseteq Id /\ \A i \in DOMAIN rows' : rows'[i].text \in Value
    <2>1. Inv'
      BY PutKeeps, DeleteKeeps
    <2> QED BY <2>1 DEF Inv, TypeOK, Row
  <1> QED BY <1>1, <1>2, <1>3 DEF TallyInv

\* The next row of the batch in hand, or the next batch.
LEMMA NextRow ==
  ASSUME TallyInv, NEW m \in Migrator, mig[m].pc \in {"row", "write"},
         NEW x, x = Position(IF Len(mig[m].batch) = 1 THEN "fetch" ELSE "row", Tail(mig[m].batch), Unused)
  PROVE  /\ x \in RunRow /\ x.pc \in {"fetch", "row"} /\ (x.pc = "row" => x.batch # <<>>)
         /\ Head(mig[m].batch) \in Id
         /\ Range(mig[m].batch) = {Head(mig[m].batch)} \cup Range(x.batch)
         /\ x.pc = "fetch" => Range(x.batch) = {}
  <1>1. PICK b \in Seq(Id) : b = mig[m].batch /\ b # <<>>
    BY DEF TallyInv, RunRow
  <1>2. x.pc = (IF Len(b) = 1 THEN "fetch" ELSE "row") /\ x.batch = Tail(b) /\ x.plain = Unused
    BY <1>1, PositionFields
  <1>3. /\ Tail(b) \in Seq(Id) /\ Len(Tail(b)) = Len(b) - 1 /\ Head(b) \in Id /\ Head(b) = b[1]
        /\ Len(b) \in Nat \ {0} /\ DOMAIN b = 1..Len(b) /\ DOMAIN Tail(b) = 1..(Len(b) - 1)
        /\ \A k \in 1..(Len(b) - 1) : Tail(b)[k] = b[k + 1]
    <2>1. Head(b) \in Id /\ Tail(b) \in Seq(Id)
      BY <1>1, HeadTailProperties
    <2>2. Len(b) \in Nat \ {0} /\ DOMAIN b = 1..Len(b)
      BY <1>1, LenProperties, EmptySeq
    <2>3. Len(Tail(b)) = Len(b) - 1 /\ \A k \in 1..(Len(b) - 1) : Tail(b)[k] = b[k + 1]
      BY <1>1, HeadTailProperties
    <2>4. DOMAIN Tail(b) = 1..(Len(b) - 1)
      BY <2>1, <2>3, LenProperties
    <2> QED BY <1>1, <2>1, <2>2, <2>3, <2>4
  <1>4. x \in RunRow
    BY <1>2, <1>3, Zenon DEF Position, RunRow
  <1>5. x.pc = "row" => x.batch # <<>>
    BY <1>2, <1>3
  <1>6. Range(b) = {Head(b)} \cup Range(Tail(b))
    <2>1. ASSUME NEW k \in DOMAIN b PROVE b[k] \in {Head(b)} \cup Range(Tail(b))
      <3>1. CASE k = 1
        BY <1>3, <3>1
      <3>2. CASE k # 1
        <4>1. k - 1 \in 1..(Len(b) - 1) /\ (k - 1) + 1 = k
          BY <1>3, <3>2
        <4>2. Tail(b)[k - 1] = b[k]
          BY <1>3, <4>1
        <4> QED BY <1>3, <4>1, <4>2 DEF Range
      <3> QED BY <3>1, <3>2
    <2>2. Head(b) \in Range(b)
      BY <1>3 DEF Range
    <2>3. ASSUME NEW j \in DOMAIN Tail(b) PROVE Tail(b)[j] \in Range(b)
      <3>1. j + 1 \in DOMAIN b /\ Tail(b)[j] = b[j + 1]
        BY <1>3
      <3> QED BY <3>1 DEF Range
    <2> QED BY <2>1, <2>2, <2>3 DEF Range
  <1>7. x.pc = "fetch" => Range(x.batch) = {}
    <2> SUFFICES ASSUME Len(b) = 1 PROVE Range(Tail(b)) = {}
      BY <1>2, Zenon
    <2>1. DOMAIN Tail(b) = {}
      BY <1>3
    <2> QED BY <2>1 DEF Range
  <1>8. x.pc \in {"fetch", "row"}
    BY <1>2
  <1>9. Range(b) = {Head(b)} \cup Range(x.batch)
    BY <1>2, <1>6, Zenon
  <1> QED BY <1>1, <1>3, <1>4, <1>5, <1>7, <1>8, <1>9

\* A row counted as an error is left in the table.
LEMMA ErrorTally ==
  ASSUME TallyInv, NEW m \in Migrator, mig[m].pc \in {"row", "write"}, RowError(m), rows' = rows
  PROVE  TallyInv'
  <1>1. PICK x : x = Position(IF Len(mig[m].batch) = 1 THEN "fetch" ELSE "row", Tail(mig[m].batch), Unused)
    OBVIOUS
  <1>2. mig' = [mig EXCEPT ![m] = x]
    BY <1>1 DEF RowError, RowDone
  <1>3. x \in RunRow /\ x.pc \in {"fetch", "row"} /\ (x.pc = "row" => x.batch # <<>>)
    BY <1>1, NextRow
  <1>4. PICK T \in TallyRow : T = tally[m]
    BY DEF TallyInv
  <1> DEFINE y == [T EXCEPT !.errors = T.errors + 1]
  <1>5. tally' = [tally EXCEPT ![m] = y]
    BY <1>4 DEF RowError
  <1>6. /\ y \in TallyRow /\ y.errors # 0 /\ y.apply = T.apply /\ y.offset = T.offset
        /\ y.counted = T.counted /\ y.seen = T.seen /\ y.disturbed = T.disturbed
    BY <1>4 DEF TallyRow
  <1> HIDE DEF y
  <1>7. Clean(mig[m], T)
    BY <1>4 DEF TallyInv
  <1>8. Clean(x, y)
    BY <1>3, <1>6, <1>7 DEF Clean
  <1> QED BY <1>2, <1>3, <1>5, <1>6, <1>8, RunStep, Zenon

\* Decrypt: an error, the next row of a dry run, or a row in hand.
LEMMA DecryptTally == ASSUME TallyInv, NEW m \in Migrator, Decrypt(m) PROVE TallyInv'
  <1> DEFINE i == Head(mig[m].batch)
             plain == IF i \in DOMAIN rows THEN PgcryptoGet(rows[i]) ELSE {}
  <1>1. rows' = rows /\ mig[m].pc = "row"
    BY DEF Decrypt
  <1>2. PICK T \in TallyRow : T = tally[m]
    BY DEF TallyInv
  <1>3. Clean(mig[m], T) /\ mig[m] \in RunRow
    BY <1>2 DEF TallyInv
  <1>4. CASE RowError(m)
    BY <1>1, <1>4, ErrorTally
  <1>5. CASE RowDone(m) /\ ~T.apply /\ tally' = tally
    <2>1. PICK x : x = Position(IF Len(mig[m].batch) = 1 THEN "fetch" ELSE "row", Tail(mig[m].batch), Unused)
      OBVIOUS
    <2>2. mig' = [mig EXCEPT ![m] = x]
      BY <1>5, <2>1 DEF RowDone
    <2>3. x \in RunRow /\ x.pc \in {"fetch", "row"} /\ (x.pc = "row" => x.batch # <<>>)
      BY <1>1, <2>1, NextRow
    <2>4. tally' = [tally EXCEPT ![m] = T]
      BY <1>2, <1>5 DEF TallyInv
    <2>5. Clean(x, T)
      BY <1>1, <1>3, <1>5, <2>3 DEF Clean
    <2> QED BY <1>1, <2>2, <2>3, <2>4, <2>5, RunStep, Zenon
  <1>6. CASE /\ T.apply /\ tally' = tally
             /\ \E v \in plain : mig' = [mig EXCEPT ![m] = Position("write", mig[m].batch, v)]
    <2>1. PICK v \in plain : mig' = [mig EXCEPT ![m] = Position("write", mig[m].batch, v)]
      BY <1>6, Zenon
    <2>2. v \in Value
      BY <2>1 DEF TallyInv, PgcryptoGet
    <2>3. PICK x : x = Position("write", mig[m].batch, v)
      OBVIOUS
    <2>4. x \in RunRow /\ x.pc = "write" /\ x.batch = mig[m].batch /\ x.batch # <<>>
      <3>1. mig[m].batch \in Seq(Id) /\ mig[m].batch # <<>>
        BY <1>1, <1>3 DEF RunRow, TallyInv
      <3> QED BY <2>2, <2>3, <3>1 DEF Position, RunRow
    <2>5. tally' = [tally EXCEPT ![m] = T] /\ mig' = [mig EXCEPT ![m] = x]
      BY <1>2, <1>6, <2>1, <2>3, Zenon DEF TallyInv
    <2>6. Clean(x, T)
      BY <1>1, <1>3, <1>6, <2>4 DEF Clean
    <2> QED BY <1>1, <2>4, <2>5, <2>6, RunStep, Zenon
  <1> QED BY <1>2, <1>4, <1>5, <1>6 DEF Decrypt

\* Update: the row leaves the candidates of this run, and the table changes under
\* the others.
LEMMA UpdateTally == ASSUME Inv, TallyInv, NEW m \in Migrator, Update(m) PROVE TallyInv'
  <1>1. PICK x : x = Position(IF Len(mig[m].batch) = 1 THEN "fetch" ELSE "row", Tail(mig[m].batch), Unused)
    OBVIOUS
  <1>2. mig' = [mig EXCEPT ![m] = x] /\ mig[m].pc = "write" /\ Disturb(Migrator \ {m})
    BY <1>1 DEF Update, RowDone
  <1>3. PICK i : i = Head(mig[m].batch)
    OBVIOUS
  <1>4. /\ x \in RunRow /\ x.pc \in {"fetch", "row"} /\ (x.pc = "row" => x.batch # <<>>)
        /\ Range(mig[m].batch) = {i} \cup Range(x.batch)
        /\ x.pc = "fetch" => Range(x.batch) = {}
    <2>1. mig[m].pc \in {"row", "write"}
      BY <1>2
    <2> QED BY <1>1, <1>3, <2>1, NextRow, Zenon
  <1>5. /\ tally' \in [Migrator -> TallyRow] /\ tally'[m] = tally[m]
        /\ \A n \in Migrator \ {m} : Clean(mig[n], tally[n])'
    BY <1>2, DisturbedRuns
  <1>6. mig' \in [Migrator -> RunRow] /\ mig'[m] = x /\ \A n \in Migrator \ {m} : mig'[n] = mig[n]
    BY <1>2, <1>4 DEF TallyInv
  <1>7. DOMAIN rows' = DOMAIN rows /\ DOMAIN rows' \subseteq Id /\ \A j \in DOMAIN rows' : rows'[j].text \in Value
    <2>1. TypeOK'
      BY UpdateKeeps DEF Inv
    <2>2. DOMAIN rows' = DOMAIN rows
      BY DEF Update
    <2> QED BY <2>1, <2>2 DEF TypeOK, Row
  <1>8. Candidates' \subseteq Candidates \ {i}
    <2> SUFFICES ASSUME NEW j \in DOMAIN rows, rows'[j].alg = "pgp_sym_v1"
                 PROVE  j # i /\ rows[j].alg = "pgp_sym_v1"
      BY <1>7 DEF Candidates
    <2>1. rows'[j] = IF j = i /\ rows[j].alg = "pgp_sym_v1" THEN VaultRow(mig[m].plain) ELSE rows[j]
      BY <1>3 DEF Update
    <2>2. VaultRow(mig[m].plain).alg = "vault_transit_v1"
      BY DEF VaultRow
    <2> QED BY <2>1, <2>2
  <1>9. \A n \in Migrator : mig'[n].pc \in {"row", "write"} => mig'[n].batch # <<>>
    BY <1>4, <1>6 DEF TallyInv
  <1>10. Clean(mig[m], tally[m])'
    <2>1. PICK T \in TallyRow : T = tally[m]
      BY DEF TallyInv
    <2>2. Clean(mig[m], T)
      BY <2>1 DEF TallyInv
    <2>3. T.disturbed \/ T.apply
      BY <1>2, <2>2 DEF Clean
    <2>4. ~T.disturbed /\ T.errors = 0 /\ Cardinality(T.counted) <= BatchSize =>
            Candidates' \subseteq Range(x.batch)
      <3>1. ~T.disturbed /\ T.errors = 0 /\ Cardinality(T.counted) <= BatchSize =>
              Candidates \subseteq Range(mig[m].batch)
        BY <1>2, <2>2, <2>3 DEF Clean, Range
      <3> QED BY <1>4, <1>8, <3>1
    <2>5. Clean(x, T)'
      BY <1>4, <2>3, <2>4 DEF Clean, Range
    <2> QED BY <1>5, <1>6, <2>1, <2>5 DEF Clean
  <1>11. \A n \in Migrator : Clean(mig[n], tally[n])'
    BY <1>5, <1>10
  <1> QED BY <1>5, <1>6, <1>7, <1>9, <1>11 DEF TallyInv

\* Fetch: a dry run sees the candidates up to the next offset; the first batch of a
\* run with --apply holds all it counted when they fit.
LEMMA FetchTally == ASSUME TallyInv, NEW m \in Migrator, Fetch(m) PROVE TallyInv'
  <1>1. PICK T \in TallyRow : T = tally[m]
    BY DEF TallyInv
  <1>2. T.offset \in Nat /\ T.counted \in SUBSET Id /\ T.seen \in SUBSET Id
    BY DEF TallyRow
  <1>3. PICK batch : batch = Batch(T.offset)
    OBVIOUS
  <1>4. Candidates \subseteq Id
    BY DEF TallyInv, Candidates
  <1>5. /\ batch \in Seq(Id)
        /\ Range(batch) \subseteq Candidates
        /\ \A i \in Candidates :
             /\ i \in Range(batch) <=> T.offset <= Rank(i) /\ Rank(i) < T.offset + BatchSize
             /\ i \in Range(batch) <=> T.offset <= Rank(i) /\ Rank(i) < T.offset + Len(batch)
        /\ batch = <<>> => \A i \in Candidates : Rank(i) < T.offset
    <2>1. PICK o \in Nat : o = T.offset
      BY <1>2
    <2>2. batch = Batch(o)
      BY <1>3, <2>1
    <2>3. /\ batch \in Seq(Id)
          /\ Range(batch) \subseteq Candidates
          /\ \A i \in Candidates :
               /\ i \in Range(batch) <=> o <= Rank(i) /\ Rank(i) < o + BatchSize
               /\ i \in Range(batch) <=> o <= Rank(i) /\ Rank(i) < o + Len(batch)
          /\ batch = <<>> => \A i \in Candidates : Rank(i) < o
      BY <1>4, <2>2, BatchOf, Zenon
    <2> QED BY <2>1, <2>3
  <1>6. Len(batch) \in Nat
    BY <1>5, LenProperties
  <1>7. PICK S : S = Range(batch) /\ S = {batch[k] : k \in DOMAIN batch}
    BY Zenon DEF Range
  <1>8. PICK N \in Nat : N = Cardinality(Candidates)
    BY <1>4, Ranked
  <1>9. \A i \in Candidates : Rank(i) \in Nat /\ Rank(i) < N
    BY <1>4, <1>8, Ranked
  <1> DEFINE x == Position(IF batch = <<>> THEN "exit" ELSE "row", batch, Unused)
             y == [T EXCEPT !.offset = T.offset + Len(batch), !.seen = T.seen \cup S]
  <1>10. mig' = [mig EXCEPT ![m] = x]
    BY <1>1, <1>3 DEF Fetch
  <1>11. tally' = [tally EXCEPT ![m] = y]
    <2>1. tally' = [tally EXCEPT ![m].offset = @ + Len(batch), ![m].seen = @ \cup S]
      BY <1>1, <1>3, <1>7 DEF Fetch
    <2>2. tally \in [Migrator -> TallyRow]
      BY DEF TallyInv
    <2> QED BY <1>1, <2>1, <2>2, Zenon DEF TallyRow
  <1>12. mig[m].pc = "fetch" /\ rows' = rows
    BY DEF Fetch
  <1>13. /\ x \in RunRow /\ x.pc = (IF batch = <<>> THEN "exit" ELSE "row") /\ x.batch = batch
    BY <1>5 DEF Position, RunRow
  <1>14. S \subseteq Candidates
    BY <1>5, <1>7
  <1>15. /\ y \in TallyRow /\ y.apply = T.apply /\ y.errors = T.errors /\ y.counted = T.counted
         /\ y.disturbed = T.disturbed /\ y.offset = T.offset + Len(batch) /\ y.seen = T.seen \cup S
    <2>0. T.offset + Len(batch) \in Nat /\ T.seen \cup S \in SUBSET Id
      BY <1>2, <1>4, <1>6, <1>14
    <2>1. PICK o \in Nat, s \in SUBSET Id : o = T.offset + Len(batch) /\ s = T.seen \cup S
      BY <2>0, Zenon
    <2>2. y = [T EXCEPT !.offset = o, !.seen = s]
      BY <2>1
    <2> HIDE DEF y
    <2>3. /\ y \in TallyRow /\ y.apply = T.apply /\ y.errors = T.errors /\ y.counted = T.counted
          /\ y.disturbed = T.disturbed /\ y.offset = o /\ y.seen = s
      BY <2>2, Zenon DEF TallyRow
    <2> QED BY <2>1, <2>3
  <1> HIDE DEF x, y
  <1>16. Clean(mig[m], T)
    BY <1>1 DEF TallyInv
  <1>17. ASSUME ~T.disturbed, ~T.apply
         PROVE  /\ Candidates = T.counted
                /\ y.seen = {i \in Candidates : Rank(i) < y.offset}
                /\ batch = <<>> => y.seen = y.counted
    <2>1. Candidates = T.counted /\ T.seen = {i \in Candidates : Rank(i) < T.offset}
      BY <1>12, <1>16, <1>17 DEF Clean
    <2>2. \A i \in Candidates : i \in S <=> T.offset <= Rank(i) /\ Rank(i) < T.offset + Len(batch)
      BY <1>5, <1>7
    <2>3. \A i \in Candidates : Rank(i) < T.offset + Len(batch) <=>
             Rank(i) < T.offset \/ (T.offset <= Rank(i) /\ Rank(i) < T.offset + Len(batch))
      BY <1>2, <1>6, <1>9
    <2>4. y.seen = {i \in Candidates : Rank(i) < y.offset}
      BY <1>14, <1>15, <2>1, <2>2, <2>3
    <2>5. batch = <<>> => y.seen = Candidates
      BY <1>5, <1>14, <1>15, <2>1
    <2> QED BY <1>15, <2>1, <2>4, <2>5
  <1>18. ASSUME ~T.disturbed, T.apply, T.errors = 0, Cardinality(T.counted) <= BatchSize
         PROVE  Candidates \subseteq S
    <2>1. Candidates = {} \/ (T.offset = 0 /\ Candidates = T.counted)
      BY <1>12, <1>16, <1>18 DEF Clean
    <2>2. CASE T.offset = 0 /\ Candidates = T.counted
      <3>1. N <= BatchSize /\ BatchSize \in Nat
        BY <1>8, <1>18, <2>2, SecretsAssumption
      <3>2. \A i \in Candidates : T.offset <= Rank(i) /\ Rank(i) < T.offset + BatchSize
        BY <1>9, <2>2, <3>1
      <3> QED BY <1>5, <1>7, <3>2
    <2> QED BY <2>1, <2>2
  <1>19. batch = <<>> => S = {}
    BY <1>7
  <1>20. Clean(x, y)
    BY <1>7, <1>13, <1>15, <1>17, <1>18, <1>19 DEF Clean
  <1>21. x.pc \in {"row", "write"} => x.batch # <<>>
    BY <1>13
  <1> QED BY <1>10, <1>11, <1>12, <1>13, <1>15, <1>20, <1>21, RunStep, Zenon

\* Start: nothing is seen yet.
LEMMA StartTally ==
  ASSUME TallyInv, NEW m \in Migrator, NEW apply \in BOOLEAN, StartMigration(m, apply) PROVE TallyInv'
  <1> DEFINE x == Position(IF Candidates = {} THEN "exit" ELSE "fetch", <<>>, Unused)
             y == [Untallied EXCEPT !.apply = apply, !.counted = Candidates]
  <1>1. mig' = [mig EXCEPT ![m] = x] /\ tally' = [tally EXCEPT ![m] = y] /\ rows' = rows
    BY DEF StartMigration
  <1>2. Candidates \subseteq Id
    BY DEF TallyInv, Candidates
  <1>3. x \in RunRow /\ x.pc = IF Candidates = {} THEN "exit" ELSE "fetch"
    BY DEF Position, RunRow
  <1>4. /\ y \in TallyRow /\ y.apply = apply /\ y.offset = 0 /\ y.counted = Candidates /\ y.seen = {}
    BY <1>2, Zenon DEF Untallied, TallyRow
  <1> HIDE DEF x, y
  <1>5. \A i \in Candidates : ~(Rank(i) < 0)
    BY <1>2, Ranked
  <1>6. Clean(x, y)
    BY <1>3, <1>4, <1>5 DEF Clean
  <1> QED BY <1>1, <1>3, <1>4, <1>6, RunStep, Zenon

\* A run that ended or was killed promises nothing.
LEMMA StopTally ==
  ASSUME TallyInv, NEW m \in Migrator, Kill(m) \/ Exit(m) PROVE TallyInv'
  <1>1. mig' = [mig EXCEPT ![m] = NotRunning] /\ tally' = [tally EXCEPT ![m] = Untallied] /\ rows' = rows
    BY DEF Kill, Exit
  <1>2. NotRunning \in RunRow /\ NotRunning.pc = "idle"
    BY DEF NotRunning, Position, RunRow
  <1>3. Untallied \in TallyRow
    BY DEF Untallied, TallyRow
  <1>4. Clean(NotRunning, Untallied)
    BY <1>2 DEF Clean
  <1> QED BY <1>1, <1>2, <1>3, <1>4, RunStep, Zenon

\* Every step keeps TallyInv.
LEMMA NextTally == Inv /\ TallyInv /\ [Next]_vars => TallyInv'
  <1> SUFFICES ASSUME Inv, TallyInv, [Next]_vars PROVE TallyInv'
    OBVIOUS
  <1>1. CASE UNCHANGED <<rows, mig, tally>>
    <2>1. ASSUME NEW m \in Migrator PROVE Clean(mig[m], tally[m])'
      <3>1. PICK run, t : run = mig[m] /\ t = tally[m]
        OBVIOUS
      <3>2. Clean(run, t)
        BY <3>1 DEF TallyInv
      <3>3. Clean(run, t)'
        BY <1>1, <3>2, CleanOfRows
      <3> QED BY <1>1, <3>1, <3>3 DEF Clean
    <2> QED BY <1>1, <2>1 DEF TallyInv
  <1>2. CASE UNCHANGED vars
    BY <1>1, <1>2 DEF vars
  <1>3. ASSUME NEW p \in Pod, Redeploy(p) PROVE TallyInv'
    BY <1>1, <1>3 DEF Redeploy
  <1>4. ASSUME NEW m \in Migrator, RowFails(m) PROVE TallyInv'
    BY <1>4, ErrorTally DEF RowFails
  <1> QED BY <1>2, <1>3, <1>4, PutTally, DecryptTally, UpdateTally, FetchTally, StartTally, StopTally
          DEF Next, Migrate

\* kubinate-vault-migrate: in a table nobody else changes, for any number of rows and
\* any batch size, a dry run that exits 0 has read every row it counted, and a run
\* with --apply that exits 0 has migrated them when one batch holds them all.
THEOREM CleanExits == Spec => []CleanExitCovers
  <1>1. Init => TallyInv
    <2> SUFFICES ASSUME Init PROVE TallyInv
      OBVIOUS
    <2>1. NotRunning \in RunRow /\ NotRunning.pc = "idle"
      BY DEF NotRunning, Position, RunRow
    <2>2. Untallied \in TallyRow
      BY DEF Untallied, TallyRow
    <2>3. DOMAIN rows = {}
      BY DEF Init
    <2> QED BY <2>1, <2>2, <2>3 DEF Init, TallyInv, Clean
  <1>2. TallyInv => CleanExitCovers
    BY DEF TallyInv, CleanExitCovers, Clean, Exited
  <1> QED BY <1>1, <1>2, NextTally, InvHolds, PTL DEF Spec

-----------------------------------------------------------------------------
(* Addons *)

Req == [op : {"none", "install", "uninstall"}, pc : Pc, version : Version \cup {NoVersion}]

\* The record of a request, and its fields.
LEMMA CallFields ==
  ASSUME NEW op, NEW pc, NEW version
  PROVE  /\ Call(op, pc, version).op = op
         /\ Call(op, pc, version).pc = pc
         /\ Call(op, pc, version).version = version
         /\ (op \in {"none", "install", "uninstall"} /\ pc \in Pc
              /\ version \in Version \cup {NoVersion}) => Call(op, pc, version) \in Req
  BY DEF Call, Req

\* The types of what a request reads.
LEMMA Types ==
  ASSUME AddonsTypeOK, NEW r \in Request
  PROVE  /\ requests[r] \in Req /\ requests[r].op \in {"none", "install", "uninstall"}
         /\ requests[r].pc \in Pc /\ requests[r].version \in Version \cup {NoVersion}
         /\ row.status \in Status /\ row.version \in Version \cup {NoVersion}
  BY DEF AddonsTypeOK, Req

\* What StatusTellsRelease says of row and release.
Told ==
    /\ row.status = "ready" /\ cluster.servers =>
         release.state = "deployed" /\ release.version = row.version
    /\ row.status = "uninstalled" => release.state = "none"

\* The first state satisfies AddonsInv.
LEMMA AddonsInitInv == AddonsInit => AddonsInv
  <1> SUFFICES ASSUME AddonsInit PROVE AddonsInv
    OBVIOUS
  <1>1. \A r \in Request : requests[r] = Idle
    BY DEF AddonsInit
  <1>2. Idle \in Req /\ Idle.pc = "idle" /\ Idle.op = "none"
    BY CallFields DEF Idle, Pc
  <1>3. AddonsTypeOK
    BY <1>2, Zenon DEF AddonsInit, AddonsTypeOK, ClusterType, Status, Req, NoRelease
  <1>4. row.status = "absent" /\ files = {}
    BY DEF AddonsInit
  <1>5. \A r \in Request : Staged(r) /\ Placed(r) /\ Alone(r) /\ ~InFlight(r)
    BY <1>1, <1>2, <1>4 DEF Staged, Placed, Alone, InFlight
  <1> QED BY <1>3, <1>4, <1>5 DEF AddonsInv

\* A step of request r.  Without overlap the other requests are not in flight, and
\* what a request knows only matters while it is.
LEMMA RequestStep ==
  ASSUME AddonsInv, NEW r \in Request, NEW x \in Req, requests' = [requests EXCEPT ![r] = x],
         cluster' = cluster, row' \in [status : Status, version : Version \cup {NoVersion}],
         release' \in [state : {"none", "pending", "deployed", "failed"},
                       version : Version \cup {NoVersion}, by : Nat],
         files' \subseteq Request, files' \subseteq files \cup {r},
         faulted' \subseteq Request, faulted \subseteq faulted', overlap' \in BOOLEAN,
         Staged(r)', Placed(r)',
         ~overlap' => ~overlap /\ \A q \in Request \ {r} : ~InFlight(q),
         ~overlap' => Alone(r)' /\ Told'
  PROVE  AddonsInv'
  <1>1. requests' \in [Request -> Req] /\ requests'[r] = x
        /\ \A q \in Request \ {r} : requests'[q] = requests[q]
    BY DEF AddonsInv, AddonsTypeOK, Req
  <1>2. AddonsTypeOK'
    <2>1. cluster \in ClusterType
      BY Zenon DEF AddonsInv, AddonsTypeOK
    <2> QED BY <1>1, <2>1, Zenon DEF AddonsTypeOK, Req
  <1>3. ASSUME NEW q \in Request PROVE Staged(q)' /\ Placed(q)'
    <2>1. CASE q = r
      BY <2>1
    <2>2. CASE q # r
      <3>1. requests'[q] = requests[q] /\ (q \in files' => q \in files) /\ Staged(q) /\ Placed(q)
        BY <1>1, <2>2 DEF AddonsInv
      <3> QED BY <3>1 DEF Staged, Placed, InFlight
    <2> QED BY <2>1, <2>2
  <1>4. ASSUME ~overlap'
        PROVE  /\ \A p, q \in Request : InFlight(p)' /\ InFlight(q)' => p = q
               /\ \A q \in Request : Alone(q)'
    <2>1. \A q \in Request \ {r} : ~InFlight(q)'
      BY <1>1, <1>4 DEF InFlight
    <2>2. \A q \in Request \ {r} : Alone(q)'
      BY <2>1 DEF Alone, InFlight
    <2> QED BY <1>4, <2>1, <2>2
  <1> QED BY <1>2, <1>3, <1>4, Zenon DEF AddonsInv, Told

\* While request r is in flight and no requests overlapped, nothing else is.
LEMMA OthersIdle ==
  ASSUME AddonsInv, NEW r \in Request, InFlight(r), ~overlap
  PROVE  Alone(r) /\ Told /\ \A q \in Request \ {r} : ~InFlight(q)
  BY DEF AddonsInv, Told

\* Install and Uninstall: a request comes in.
LEMMA AcceptKeeps == ASSUME AddonsInv, NEW r \in Request, Install(r) \/ Uninstall(r) PROVE AddonsInv'
  <1>1. /\ row' = row /\ release' = release /\ files' = files /\ faulted' = faulted
        /\ cluster' = cluster /\ requests[r] = Idle /\ overlap' = (overlap \/ \E q \in Request : InFlight(q))
    BY DEF Install, Uninstall, Accept
  <1>2. PICK x \in Req : /\ requests' = [requests EXCEPT ![r] = x]
                         /\ \/ x.op = "install" /\ x.pc = "select"
                            \/ x.op = "uninstall" /\ x.pc = "mark"
    <2>1. CASE Install(r)
      <3>1. PICK v \in Version : requests' = [requests EXCEPT ![r] = Call("install", "select", v)]
        BY <2>1, Zenon DEF Install, Accept
      <3> DEFINE y == Call("install", "select", v)
      <3>2. y \in Req /\ y.op = "install" /\ y.pc = "select"
        BY CallFields DEF Pc
      <3> HIDE DEF y
      <3> QED BY <3>1, <3>2, Zenon DEF y
    <2>2. CASE Uninstall(r)
      <3> DEFINE y == Call("uninstall", "mark", NoVersion)
      <3>1. y \in Req /\ y.op = "uninstall" /\ y.pc = "mark"
        BY CallFields DEF Pc
      <3>2. requests' = [requests EXCEPT ![r] = y]
        BY <2>2 DEF Uninstall, Accept
      <3> HIDE DEF y
      <3> QED BY <3>1, <3>2, Zenon
    <2> QED BY <2>1, <2>2
  <1>3. requests'[r] = x
    BY <1>2 DEF AddonsInv, AddonsTypeOK
  <1>4. r \notin files
    <2>1. requests[r].pc = "idle" /\ Staged(r)
      BY <1>1, CallFields, SMTT(30) DEF Idle, AddonsInv
    <2> QED BY <2>1 DEF Staged
  <1>5. Staged(r)' /\ Placed(r)' /\ Alone(r)'
    BY <1>1, <1>2, <1>3, <1>4 DEF Staged, Placed, Alone
  <1>6. ~overlap' => ~overlap /\ \A q \in Request \ {r} : ~InFlight(q)
    BY <1>1, Zenon
  <1>7. ~overlap' => Told'
    BY <1>1, <1>6 DEF AddonsInv, Told
  <1>8. overlap' \in BOOLEAN
    BY <1>1, Zenon DEF AddonsInv, AddonsTypeOK
  <1>9. /\ row \in [status : Status, version : Version \cup {NoVersion}]
        /\ release \in [state : {"none", "pending", "deployed", "failed"},
                        version : Version \cup {NoVersion}, by : Nat]
        /\ files \subseteq Request /\ faulted \subseteq Request
    BY DEF AddonsInv, AddonsTypeOK
  <1> QED BY <1>1, <1>2, <1>5, <1>6, <1>7, <1>8, <1>9, RequestStep, Zenon

\* Drop: the request is over, and is counted as faulted.
LEMMA DropKeeps == ASSUME AddonsInv, NEW r \in Request, Drop(r) PROVE AddonsInv'
  <1>1. Over \in Req /\ Over.pc = "over" /\ Over.op = "none"
    BY CallFields DEF Over, Pc
  <1>2. /\ requests' = [requests EXCEPT ![r] = Over] /\ InFlight(r)
        /\ row' = row /\ release' = release /\ files' = files /\ overlap' = overlap
        /\ cluster' = cluster /\ faulted' = faulted \cup {r}
    BY DEF Drop, End
  <1>3. requests'[r] = Over
    BY <1>2 DEF AddonsInv, AddonsTypeOK
  <1>4. Staged(r)' /\ Placed(r)' /\ Alone(r)'
    BY <1>1, <1>2, <1>3 DEF Staged, Placed, Alone, InFlight
  <1>5. ~overlap => Told' /\ \A q \in Request \ {r} : ~InFlight(q)
    BY <1>2, OthersIdle DEF Told
  <1>6. /\ row \in [status : Status, version : Version \cup {NoVersion}]
        /\ release \in [state : {"none", "pending", "deployed", "failed"},
                        version : Version \cup {NoVersion}, by : Nat]
        /\ files \subseteq Request /\ faulted \subseteq Request /\ overlap \in BOOLEAN
    BY DEF AddonsInv, AddonsTypeOK
  <1> QED BY <1>1, <1>2, <1>4, <1>5, <1>6, RequestStep, Zenon

\* Crash: nothing is in flight any more, and what was is counted as faulted.
LEMMA CrashKeeps == ASSUME AddonsInv, Crash PROVE AddonsInv'
  <1> DEFINE lost == {r \in Request : InFlight(r)}
  <1>1. Over \in Req /\ Over.pc = "over" /\ Over.op = "none"
    BY CallFields DEF Over, Pc
  <1>2. /\ requests' = [r \in Request |-> IF r \in lost THEN Over ELSE requests[r]]
        /\ row' = row /\ release' = release /\ files' = files /\ overlap' = overlap
        /\ faulted' = faulted \cup lost
        /\ cluster' = [cluster EXCEPT !.scaling = FALSE, !.destroying = FALSE]
    BY DEF Crash
  <1>3. cluster' \in ClusterType /\ cluster'.servers = cluster.servers
    BY <1>2, Zenon DEF AddonsInv, AddonsTypeOK, ClusterType
  <1>4. AddonsTypeOK'
    BY <1>1, <1>2, <1>3 DEF AddonsInv, AddonsTypeOK, Req
  <1>5. ASSUME NEW r \in Request PROVE Staged(r)' /\ Placed(r)' /\ Alone(r)' /\ ~InFlight(r)'
    <2>1. CASE InFlight(r)
      <3>1. requests'[r] = Over /\ r \in faulted'
        BY <1>2, <2>1
      <3> QED BY <1>1, <3>1 DEF Staged, Placed, Alone, InFlight
    <2>2. CASE ~InFlight(r)
      <3>1. requests'[r] = requests[r] /\ Staged(r) /\ Placed(r)
        BY <1>2, <2>2 DEF AddonsInv
      <3> QED BY <1>2, <2>2, <3>1 DEF Staged, Placed, Alone, InFlight
    <2> QED BY <2>1, <2>2
  <1>6. ~overlap' => Told'
    BY <1>2, <1>3 DEF AddonsInv, Told
  <1> QED BY <1>5, <1>6, <1>4 DEF AddonsInv, Told

RowType == [status : Status, version : Version \cup {NoVersion}]
ReleaseType == [state : {"none", "pending", "deployed", "failed"},
                version : Version \cup {NoVersion}, by : Nat]

\* A step of a request in flight that keeps what it knows true while it is alone.
LEMMA FlightStep ==
  ASSUME AddonsInv, NEW r \in Request, InFlight(r), NEW x \in Req,
         requests' = [requests EXCEPT ![r] = x], overlap' = overlap, cluster' = cluster,
         row' \in RowType, release' \in ReleaseType,
         files' \subseteq files \cup {r}, faulted \subseteq faulted', faulted' \subseteq faulted \cup {r},
         Staged(r)', Placed(r)', Alone(r) /\ Told => Alone(r)' /\ Told'
  PROVE  AddonsInv'
  <1>1. ~overlap' => ~overlap /\ Alone(r)' /\ Told' /\ \A q \in Request \ {r} : ~InFlight(q)
    BY OthersIdle
  <1>2. files' \subseteq Request /\ faulted' \subseteq Request /\ overlap' \in BOOLEAN
    BY DEF AddonsInv, AddonsTypeOK
  <1> QED BY <1>1, <1>2, RequestStep, Zenon DEF RowType, ReleaseType

\* What AddonsInv gives a request in flight.
LEMMA Known ==
  ASSUME AddonsInv, NEW r \in Request
  PROVE  /\ AddonsTypeOK /\ Staged(r) /\ Placed(r) /\ row \in RowType /\ release \in ReleaseType
         /\ DOMAIN requests = Request
  BY DEF AddonsInv, AddonsTypeOK, RowType, ReleaseType

\* Goto moves request r and changes nothing else of it.
LEMMA GotoFields ==
  ASSUME AddonsInv, NEW r \in Request, NEW pc \in Pc, Goto(r, pc)
  PROVE  \E x \in Req : /\ requests' = [requests EXCEPT ![r] = x] /\ requests'[r] = x
                        /\ x.op = requests[r].op /\ x.pc = pc /\ x.version = requests[r].version
  <1> DEFINE x == Call(requests[r].op, pc, requests[r].version)
  <1>1. /\ x \in Req /\ x.op = requests[r].op /\ x.pc = pc
        /\ x.version = requests[r].version
    BY Known, Types, CallFields, SMTT(30)
  <1>2. requests' = [requests EXCEPT ![r] = x]
    BY DEF Goto
  <1> HIDE DEF x
  <1>3. requests'[r] = x
    BY <1>2, Known
  <1> QED BY <1>1, <1>2, <1>3, Zenon

\* End leaves nothing of request r.
LEMMA EndFields ==
  ASSUME AddonsInv, NEW r \in Request, End(r)
  PROVE  \E x \in Req : /\ requests' = [requests EXCEPT ![r] = x] /\ requests'[r] = x
                        /\ x.op = "none" /\ x.pc = "over"
  <1>1. Over \in Req /\ Over.pc = "over" /\ Over.op = "none"
    BY CallFields DEF Over, Pc
  <1>2. requests' = [requests EXCEPT ![r] = Over]
    BY DEF End
  <1>3. requests'[r] = Over
    BY <1>2, Known
  <1> QED BY <1>1, <1>2, <1>3, Zenon

\* SelectAddon: a request that reuses the row takes its version.
LEMMA SelectKeeps == ASSUME AddonsInv, NEW r \in Request, SelectAddon(r) PROVE AddonsInv'
  <1> USE Known
  <1>1. /\ requests[r].pc = "select" /\ requests[r].op = "install" /\ InFlight(r)
        /\ row' = row /\ release' = release /\ files' = files /\ faulted' = faulted /\ overlap' = overlap /\ cluster' = cluster
    BY DEF SelectAddon, At, InFlight
  <1>2. PICK x \in Req : /\ requests' = [requests EXCEPT ![r] = x]
                         /\ x.op = "install"
                         /\ x.pc = "insert" \/ (x.pc = "stage" /\ x.version = row.version)
    <2> DEFINE y == Call("install", "insert", requests[r].version)
               z == Call("install", "stage", row.version)
    <2>1. y \in Req /\ y.op = "install" /\ y.pc = "insert"
      BY Types, CallFields, SMTT(30) DEF Pc
    <2>2. z \in Req /\ z.op = "install" /\ z.pc = "stage" /\ z.version = row.version
      BY Types, CallFields, SMTT(30) DEF Pc
    <2>3. requests' = [requests EXCEPT ![r] = IF row.status = "absent" THEN y ELSE z]
      BY DEF SelectAddon
    <2> HIDE DEF y, z
    <2> QED BY <2>1, <2>2, <2>3, Zenon
  <1>3. requests'[r] = x
    BY <1>2
  <1>4. Staged(r)' /\ Placed(r)'
    BY <1>1, <1>2, <1>3 DEF Staged, Placed
  <1>5. Alone(r) /\ Told => Alone(r)' /\ Told'
    BY <1>1, <1>2, <1>3, Zenon DEF Alone, Told
  <1> QED BY <1>1, <1>2, <1>4, <1>5, FlightStep, Zenon

\* InsertAddon: a new row has the version of its request.
LEMMA InsertKeeps == ASSUME AddonsInv, NEW r \in Request, InsertAddon(r) PROVE AddonsInv'
  <1> USE Known
  <1>1. /\ requests[r].pc = "insert" /\ requests[r].op = "install" /\ InFlight(r)
        /\ release' = release /\ files' = files /\ faulted' = faulted /\ overlap' = overlap /\ cluster' = cluster
    BY DEF InsertAddon, At, InFlight
  <1>2. r \notin files
    BY <1>1 DEF Staged
  <1>3. CASE row.status = "absent"
    <2>1. row' = [status |-> "pending", version |-> requests[r].version] /\ Goto(r, "stage")
      BY <1>3 DEF InsertAddon
    <2>2. row' \in RowType /\ row'.status = "pending" /\ row'.version = requests[r].version
      BY <2>1, Types DEF RowType, Status
    <2>3. PICK x \in Req : /\ requests' = [requests EXCEPT ![r] = x] /\ requests'[r] = x
                           /\ x.op = requests[r].op /\ x.pc = "stage" /\ x.version = requests[r].version
      BY <2>1, GotoFields DEF Pc
    <2>4. Staged(r)' /\ Placed(r)'
      BY <1>1, <1>2, <2>3 DEF Staged, Placed
    <2>5. Alone(r)' /\ Told'
      BY <1>1, <2>2, <2>3 DEF Alone, Told
    <2> QED BY <1>1, <2>2, <2>3, <2>4, <2>5, FlightStep, Zenon
  <1>4. CASE row.status # "absent"
    <2>1. row' = row /\ End(r)
      BY <1>4 DEF InsertAddon
    <2>2. PICK x \in Req : /\ requests' = [requests EXCEPT ![r] = x] /\ requests'[r] = x
                           /\ x.op = "none" /\ x.pc = "over"
      BY <2>1, EndFields
    <2>3. Staged(r)' /\ Placed(r)' /\ Alone(r)'
      BY <1>1, <1>2, <2>2 DEF Staged, Placed, Alone, InFlight
    <2>4. Told => Told'
      BY <1>1, <2>1 DEF Told
    <2> QED BY <1>1, <2>1, <2>2, <2>3, <2>4, FlightStep, Zenon
  <1> QED BY <1>3, <1>4

\* MarkUninstalling: from now on the row says so.
LEMMA MarkUninstallingKeeps == ASSUME AddonsInv, NEW r \in Request, MarkUninstalling(r) PROVE AddonsInv'
  <1> USE Known
  <1>1. /\ requests[r].pc = "mark" /\ requests[r].op = "uninstall" /\ InFlight(r)
        /\ row' = [row EXCEPT !.status = "uninstalling"] /\ Goto(r, "stage")
        /\ release' = release /\ files' = files /\ faulted' = faulted /\ overlap' = overlap /\ cluster' = cluster
    BY DEF MarkUninstalling, At, InFlight
  <1>2. row' \in RowType /\ row'.status = "uninstalling"
    BY <1>1 DEF RowType, Status
  <1>3. PICK x \in Req : /\ requests' = [requests EXCEPT ![r] = x] /\ requests'[r] = x
                         /\ x.op = requests[r].op /\ x.pc = "stage" /\ x.version = requests[r].version
    BY <1>1, GotoFields DEF Pc
  <1>4. Staged(r)' /\ Placed(r)'
    BY <1>1, <1>3 DEF Staged, Placed
  <1>5. Alone(r)' /\ Told'
    BY <1>1, <1>2, <1>3 DEF Alone, Told
  <1> QED BY <1>1, <1>2, <1>3, <1>4, <1>5, FlightStep, Zenon

\* StageKubeconfig: the file has its request.
LEMMA StageKeeps == ASSUME AddonsInv, NEW r \in Request, StageKubeconfig(r) PROVE AddonsInv'
  <1> USE Known
  <1>1. /\ requests[r].pc = "stage" /\ InFlight(r) /\ Goto(r, "spawn") /\ files' = files \cup {r}
        /\ row' = row /\ release' = release /\ faulted' = faulted /\ overlap' = overlap /\ cluster' = cluster
    BY DEF StageKubeconfig, InFlight
  <1>2. PICK x \in Req : /\ requests' = [requests EXCEPT ![r] = x] /\ requests'[r] = x
                         /\ x.op = requests[r].op /\ x.pc = "spawn" /\ x.version = requests[r].version
    BY <1>1, GotoFields DEF Pc
  <1>3. Staged(r)' /\ Placed(r)'
    BY <1>1, <1>2 DEF Staged, Placed, InFlight
  <1>4. Alone(r) /\ Told => Alone(r)' /\ Told'
    BY <1>1, <1>2, Zenon DEF Alone, Told
  <1> QED BY <1>1, <1>2, <1>3, <1>4, FlightStep, Zenon

\* Spawn: the task takes over what the handler knew.
LEMMA SpawnKeeps == ASSUME AddonsInv, NEW r \in Request, Spawn(r) PROVE AddonsInv'
  <1> USE Known
  <1> DEFINE pc == IF requests[r].op = "install" THEN "queued" ELSE "helm"
  <1>1. /\ requests[r].pc = "spawn" /\ InFlight(r) /\ Goto(r, pc) /\ files' = files
        /\ row' = row /\ release' = release /\ faulted' = faulted /\ overlap' = overlap /\ cluster' = cluster
    BY DEF Spawn, InFlight
  <1>2. PICK x \in Req : /\ requests' = [requests EXCEPT ![r] = x] /\ requests'[r] = x
                         /\ x.op = requests[r].op /\ x.pc = pc /\ x.version = requests[r].version
    BY <1>1, GotoFields DEF Pc
  <1>3. Staged(r)' /\ Placed(r)'
    BY <1>1, <1>2 DEF Staged, Placed, InFlight
  <1>4. Alone(r) /\ Told => Alone(r)' /\ Told'
    BY <1>1, <1>2 DEF Alone, Told
  <1> QED BY <1>1, <1>2, <1>3, <1>4, FlightStep, Zenon

\* MarkInstalling: the row is installing, or the request faulted.
LEMMA MarkInstallingKeeps == ASSUME AddonsInv, NEW r \in Request, MarkInstalling(r) PROVE AddonsInv'
  <1> USE Known
  <1>1. /\ requests[r].pc = "queued" /\ requests[r].op = "install" /\ InFlight(r)
        /\ release' = release /\ files' = files /\ overlap' = overlap /\ cluster' = cluster
    BY DEF MarkInstalling, At, InFlight
  <1>2. CASE row' = [row EXCEPT !.status = "installing"] /\ Goto(r, "helm") /\ faulted' = faulted
    <2>1. row' \in RowType /\ row'.status = "installing" /\ row'.version = row.version
      BY <1>2 DEF RowType, Status
    <2>2. PICK x \in Req : /\ requests' = [requests EXCEPT ![r] = x] /\ requests'[r] = x
                           /\ x.op = requests[r].op /\ x.pc = "helm" /\ x.version = requests[r].version
      BY <1>2, GotoFields DEF Pc
    <2>3. Staged(r)' /\ Placed(r)'
      BY <1>1, <2>2 DEF Staged, Placed
    <2>4. Alone(r) /\ Told => Alone(r)' /\ Told'
      BY <1>1, <2>1, <2>2 DEF Alone, Told
    <2> QED BY <1>1, <1>2, <2>1, <2>2, <2>3, <2>4, FlightStep, Zenon
  <1>3. CASE End(r) /\ faulted' = faulted \cup {r} /\ row' = row
    <2>1. PICK x \in Req : /\ requests' = [requests EXCEPT ![r] = x] /\ requests'[r] = x
                           /\ x.op = "none" /\ x.pc = "over"
      BY <1>3, EndFields
    <2>2. Staged(r)' /\ Placed(r)' /\ Alone(r)'
      BY <1>3, <2>1 DEF Staged, Placed, Alone, InFlight
    <2>3. Told => Told'
      BY <1>1, <1>3 DEF Told
    <2> QED BY <1>1, <1>3, <2>1, <2>2, <2>3, FlightStep, Zenon
  <1> QED BY <1>2, <1>3 DEF MarkInstalling

\* HelmUpgrade: a pending release, or a refusal, while the row is installing.
LEMMA HelmUpgradeKeeps == ASSUME AddonsInv, NEW r \in Request, HelmUpgrade(r) PROVE AddonsInv'
  <1> USE Known
  <1>1. /\ requests[r].pc = "helm" /\ requests[r].op = "install" /\ InFlight(r)
        /\ row' = row /\ faulted' = faulted /\ overlap' = overlap /\ cluster' = cluster
    BY DEF HelmUpgrade, At, InFlight
  <1>2. CASE release' = release /\ Goto(r, "failed") /\ files' = files \ {r}
    <2>1. PICK x \in Req : /\ requests' = [requests EXCEPT ![r] = x] /\ requests'[r] = x
                           /\ x.op = requests[r].op /\ x.pc = "failed" /\ x.version = requests[r].version
      BY <1>2, GotoFields DEF Pc
    <2>2. Staged(r)' /\ Placed(r)' /\ Alone(r)'
      BY <1>1, <1>2, <2>1, Zenon DEF Staged, Placed, Alone
    <2>3. Told => Told'
      BY <1>1, <1>2, Zenon DEF Told
    <2> QED BY <1>1, <1>2, <2>1, <2>2, <2>3, FlightStep, Zenon
  <1>3. CASE /\ release' = [state |-> "pending", version |-> requests[r].version, by |-> r]
             /\ Goto(r, "running") /\ files' = files
    <2>1. r \in Nat
      BY BoundsAssumption DEF Request
    <2>2. release' \in ReleaseType /\ release'.version = requests[r].version
      BY <1>3, <2>1, Types, Zenon DEF ReleaseType
    <2>3. PICK x \in Req : /\ requests' = [requests EXCEPT ![r] = x] /\ requests'[r] = x
                           /\ x.op = requests[r].op /\ x.pc = "running" /\ x.version = requests[r].version
      BY <1>3, GotoFields DEF Pc
    <2>4. Staged(r)' /\ Placed(r)'
      BY <1>1, <1>3, <2>3 DEF Staged, Placed
    <2>5. Alone(r) /\ Told => Alone(r)' /\ Told'
      BY <1>1, <2>2, <2>3 DEF Alone, Told
    <2> QED BY <1>1, <1>3, <2>2, <2>3, <2>4, <2>5, FlightStep, Zenon
  <1> QED BY <1>2, <1>3 DEF HelmUpgrade

\* HelmUpgraded: only a deployed release leads to ready.
LEMMA HelmUpgradedKeeps == ASSUME AddonsInv, NEW r \in Request, HelmUpgraded(r) PROVE AddonsInv'
  <1> USE Known
  <1>1. /\ requests[r].pc = "running" /\ requests[r].op = "install" /\ InFlight(r)
        /\ row' = row /\ files' = files \ {r} /\ faulted' = faulted /\ overlap' = overlap /\ cluster' = cluster
    BY DEF HelmUpgraded, At, InFlight
  <1>2. CASE release.by = r /\ release' = [release EXCEPT !.state = "deployed"] /\ Goto(r, "ready")
    <2>1. release' \in ReleaseType /\ release'.state = "deployed" /\ release'.version = release.version
      BY <1>2 DEF ReleaseType
    <2>2. PICK x \in Req : /\ requests' = [requests EXCEPT ![r] = x] /\ requests'[r] = x
                           /\ x.op = requests[r].op /\ x.pc = "ready" /\ x.version = requests[r].version
      BY <1>2, GotoFields DEF Pc
    <2>3. Staged(r)' /\ Placed(r)'
      BY <1>1, <2>2 DEF Staged, Placed
    <2>4. Alone(r) /\ Told => Alone(r)' /\ Told'
      BY <1>1, <1>2, <2>1, <2>2 DEF Alone, Told
    <2> QED BY <1>1, <2>1, <2>2, <2>3, <2>4, FlightStep, Zenon
  <1>3. CASE /\ Goto(r, "failed")
             /\ release' = release \/ \E s \in {"failed", "pending"} : release' = [release EXCEPT !.state = s]
    <2>1. release' \in ReleaseType
      BY <1>3 DEF ReleaseType
    <2>2. PICK x \in Req : /\ requests' = [requests EXCEPT ![r] = x] /\ requests'[r] = x
                           /\ x.op = requests[r].op /\ x.pc = "failed" /\ x.version = requests[r].version
      BY <1>3, GotoFields DEF Pc
    <2>3. Staged(r)' /\ Placed(r)' /\ Alone(r)'
      BY <1>1, <2>2 DEF Staged, Placed, Alone
    <2>4. Alone(r) => Told'
      BY <1>1 DEF Alone, Told
    <2> QED BY <1>1, <2>1, <2>2, <2>3, <2>4, FlightStep, Zenon
  <1> QED BY <1>2, <1>3 DEF HelmUpgraded

\* HelmUninstall: only a release that is gone leads to uninstalled.
LEMMA UninstallKeeps == ASSUME AddonsInv, NEW r \in Request, HelmUninstall(r) PROVE AddonsInv'
  <1> USE Known
  <1>1. /\ requests[r].pc = "helm" /\ requests[r].op = "uninstall" /\ InFlight(r)
        /\ row' = row /\ files' = files \ {r} /\ faulted' = faulted /\ overlap' = overlap /\ cluster' = cluster
    BY DEF HelmUninstall, At, InFlight
  <1>2. PICK pc \in {"uninstalled", "failed"} :
          /\ Goto(r, pc)
          /\ \/ release' = NoRelease
             \/ pc = "failed" /\ release' = release
    BY DEF HelmUninstall
  <1>3. release' \in ReleaseType /\ (pc = "failed" \/ release'.state = "none")
    BY <1>2 DEF ReleaseType, NoRelease
  <1>4. PICK x \in Req : /\ requests' = [requests EXCEPT ![r] = x] /\ requests'[r] = x
                         /\ x.op = requests[r].op /\ x.pc = pc /\ x.version = requests[r].version
    BY <1>2, GotoFields DEF Pc
  <1>5. Staged(r)' /\ Placed(r)'
    BY <1>1, <1>2, <1>4 DEF Staged, Placed
  <1>6. Alone(r) /\ Told => Alone(r)' /\ Told'
    BY <1>1, <1>2, <1>3, <1>4, Zenon DEF Alone, Told
  <1> QED BY <1>1, <1>3, <1>4, <1>5, <1>6, FlightStep, Zenon

\* MarkResult: the row says what helm did, or what it said before.
LEMMA MarkResultKeeps == ASSUME AddonsInv, NEW r \in Request, MarkResult(r) PROVE AddonsInv'
  <1> USE Known
  <1>1. /\ requests[r].pc \in {"ready", "uninstalled", "failed"} /\ InFlight(r) /\ End(r)
        /\ release' = release /\ files' = files /\ overlap' = overlap /\ cluster' = cluster
        /\ \/ row' = [row EXCEPT !.status = requests[r].pc] /\ faulted' = faulted
           \/ row' = row /\ faulted' = faulted \cup {r}
    BY DEF MarkResult, InFlight
  <1>2. PICK x \in Req : /\ requests' = [requests EXCEPT ![r] = x] /\ requests'[r] = x
                         /\ x.op = "none" /\ x.pc = "over"
    BY <1>1, EndFields
  <1>3. Staged(r)' /\ Placed(r)' /\ Alone(r)'
    BY <1>1, <1>2 DEF Staged, Placed, Alone, InFlight
  <1>4. /\ row' \in RowType
        /\ row' = row \/ (row'.status = requests[r].pc /\ row'.version = row.version)
    BY <1>1 DEF RowType, Status
  <1>5. Alone(r) /\ Told => Told'
    BY <1>1, <1>4 DEF Alone, Told, Placed
  <1> QED BY <1>1, <1>2, <1>3, <1>4, <1>5, FlightStep, Zenon

\* The runs on the cluster leave the add-on's row alone: a scale changes no release,
\* and a destroy takes the release together with the control plane.
LEMMA ClusterKeeps ==
  ASSUME AddonsInv, BeginScale \/ EndScale \/ BeginDestroy \/ DeleteServers \/ EndDestroy
  PROVE  AddonsInv'
  <1>1. UNCHANGED <<row, files, requests, overlap, faulted>>
    BY Zenon DEF BeginScale, EndScale, BeginDestroy, DeleteServers, EndDestroy
  <1>2. cluster \in ClusterType /\ release \in ReleaseType
    BY DEF AddonsInv, AddonsTypeOK, ReleaseType
  <1>3. cluster' \in ClusterType
    <2>1. cluster.status \in {"ready", "scaling", "destroying", "failed", "deleted"}
      BY <1>2 DEF ClusterType
    <2>2. CASE BeginScale \/ BeginDestroy \/ DeleteServers
      BY <1>2, <2>2, ZenonT(30) DEF BeginScale, BeginDestroy, DeleteServers, ClusterType
    <2>3. CASE EndScale \/ EndDestroy
      <3>1. PICK s \in {"ready", "scaling", "destroying", "failed", "deleted"} :
              \/ cluster' = [cluster EXCEPT !.scaling = FALSE, !.status = s]
              \/ cluster' = [cluster EXCEPT !.destroying = FALSE, !.status = s]
        BY <2>1, <2>3, ZenonT(30) DEF EndScale, EndDestroy
      <3> QED BY <1>2, <3>1, ZenonT(30) DEF ClusterType
    <2> QED BY <2>2, <2>3
  <1>4. \/ release' = release /\ cluster'.servers = cluster.servers
        \/ release' = NoRelease /\ cluster'.servers = FALSE
    <2>1. /\ \A s, t : [cluster EXCEPT !.status = s, !.scaling = t].servers = cluster.servers
          /\ \A s, t : [cluster EXCEPT !.scaling = t, !.status = s].servers = cluster.servers
          /\ \A s, t : [cluster EXCEPT !.status = s, !.destroying = t].servers = cluster.servers
          /\ \A s, t : [cluster EXCEPT !.destroying = t, !.status = s].servers = cluster.servers
          /\ [cluster EXCEPT !.servers = FALSE].servers = FALSE
      BY <1>2 DEF ClusterType
    <2>2. CASE BeginScale
      BY <2>1, <2>2, Zenon DEF BeginScale
    <2>3. CASE EndScale
      <3>1. PICK s : cluster' = [cluster EXCEPT !.scaling = FALSE, !.status = s]
        BY <2>3, Zenon DEF EndScale
      <3> QED BY <2>1, <2>3, <3>1, Zenon DEF EndScale
    <2>4. CASE BeginDestroy
      BY <2>1, <2>4, Zenon DEF BeginDestroy
    <2>5. CASE DeleteServers
      BY <2>1, <2>5, Zenon DEF DeleteServers
    <2>6. CASE EndDestroy
      <3>1. PICK s : cluster' = [cluster EXCEPT !.destroying = FALSE, !.status = s]
        BY <2>6, Zenon DEF EndDestroy
      <3> QED BY <2>1, <2>6, <3>1, Zenon DEF EndDestroy
    <2> QED BY <2>2, <2>3, <2>4, <2>5, <2>6, Zenon
  <1>5. NoRelease \in ReleaseType /\ NoRelease.state = "none" /\ NoRelease.by = 0
    BY DEF NoRelease, ReleaseType
  <1>6. release' \in ReleaseType
    BY <1>2, <1>4, <1>5, Zenon
  <1>7. AddonsTypeOK'
    BY <1>1, <1>3, <1>6, Zenon DEF AddonsInv, AddonsTypeOK, ReleaseType
  <1>8. ASSUME NEW r \in Request
        PROVE  /\ Staged(r)' /\ Placed(r)' /\ InFlight(r)' = InFlight(r)
               /\ Alone(r) => Alone(r)'
    <2>1. Staged(r)' /\ Placed(r)' /\ InFlight(r)' = InFlight(r)
      BY <1>1, Zenon DEF AddonsInv, Staged, Placed, InFlight
    <2>2. r # 0
      BY DEF Request
    <2>3. Alone(r) => Alone(r)'
      BY <1>1, <1>4, <1>5, <2>2 DEF Alone
    <2> QED BY <2>1, <2>3
  <1>9. Told => Told'
    BY <1>1, <1>4, <1>5 DEF Told
  <1> QED BY <1>1, <1>7, <1>8, <1>9, Zenon DEF AddonsInv, Told

\* Every step keeps AddonsInv.
LEMMA AddonsNextInv == AddonsInv /\ [AddonsNext]_addonsVars => AddonsInv'
  <1> SUFFICES ASSUME AddonsInv, [AddonsNext]_addonsVars PROVE AddonsInv'
    OBVIOUS
  <1>1. CASE UNCHANGED addonsVars
    BY <1>1 DEF addonsVars, AddonsInv, AddonsTypeOK, Staged, Placed, Alone, InFlight
  <1> QED BY <1>1, ClusterKeeps, CrashKeeps, AcceptKeeps, DropKeeps, SelectKeeps, InsertKeeps,
             MarkUninstallingKeeps, StageKeeps, SpawnKeeps, MarkInstallingKeeps,
             HelmUpgradeKeeps, HelmUpgradedKeeps, UninstallKeeps, MarkResultKeeps
          DEF AddonsNext, Step

\* The inductive invariant holds in every reachable state.
THEOREM AddonsInvHolds == AddonsSpec => []AddonsInv
  BY AddonsInitInv, AddonsNextInv, PTL DEF AddonsSpec

\* run_install_addon and run_uninstall_addon: as long as requests came one after the
\* other, a status that says ready is true of Helm's release until a destroy takes
\* the control plane, and one that says uninstalled for ever, whatever was dropped,
\* crashed, refused or timed out before.
THEOREM StatusIsTrue == AddonsSpec => []StatusTellsRelease
  <1>1. AddonsInv => StatusTellsRelease
    BY Zenon DEF AddonsInv, StatusTellsRelease
  <1> QED BY <1>1, AddonsInvHolds, PTL

\* A staged kubeconfig that is left behind belongs to a request that met a fault.
THEOREM KubeconfigsGo == AddonsSpec => []KubeconfigsAreRemoved
  <1>1. AddonsInv => KubeconfigsAreRemoved
    BY DEF AddonsInv, AddonsTypeOK, Staged, InFlight, KubeconfigsAreRemoved
  <1> QED BY <1>1, AddonsInvHolds, PTL
===========================================================================
