------------------------ MODULE ClusterIntakeProofs -------------------------
(***************************************************************************)
(* Inv and CreateHistory of ClusterIntake are inductive, for any requests, *)
(* aliases, bodies, keys and number of faults.                             *)
(***************************************************************************)
EXTENDS ClusterIntake, FiniteSetTheorems, TLAPS

\* The initial state satisfies Inv: one credential, nothing requested.
LEMMA InitInv == Init => Inv
  <1> SUFFICES ASSUME Init PROVE Inv
    OBVIOUS
  <1>1. PICK a \in Alias : creds = [c \in Credential |->
                              IF c = Seed THEN [state |-> "live", alias |-> a] ELSE Gone]
    BY DEF Init
  <1>2. creds \in [Credential -> CredentialRow]
    BY <1>1 DEF CredentialRow, Gone
  <1>3. clusters \in [Request -> ClusterRow] /\ \A c \in Request : clusters[c].state = "none"
    BY DEF Init, NoCluster, ClusterRow, Credential
  <1>4. keys \in [Key -> KeyRow] /\ \A k \in Key : keys[k].state = "none"
    BY DEF Init, NoRow, KeyRow, Credential
  <1>5. reqs \in [Request -> Req] /\ \A r \in Request : reqs[r].pc = "idle"
    BY DEF Init, Idle, Call, Req, Pc, Credential
  <1>6. TypeOK
    BY <1>2, <1>3, <1>4, <1>5, IntakeAssumption DEF Init, TypeOK, Credential
  <1>7. ReferencesHold
    BY <1>1 DEF Init, ReferencesHold, Exists, Gone
  <1>8. \A r \in Request : ReqInv(r)
    BY <1>3, <1>5 DEF ReqInv
  <1>9. (\A k \in Key : KeyInv(k)) /\ AnswersFitTheBody
        /\ \A y \in answers : clusters[y.cluster].state # "none"
    BY <1>4 DEF Init, KeyInv, AnswersFitTheBody
  <1> QED BY <1>6, <1>7, <1>8, <1>9 DEF Inv

\* What a step of one request must respect to keep Inv: rows are never taken
\* away, an inserted cluster keeps its body, and a new key or answer fits.
LEMMA RequestStep ==
  ASSUME Inv, NEW r \in Request, NEW x \in Req, reqs' = [reqs EXCEPT ![r] = x],
         creds' \in [Credential -> CredentialRow], clusters' \in [Request -> ClusterRow],
         keys' \in [Key -> KeyRow], secrets' \subseteq Credential, spawned' \subseteq Request,
         answers' \subseteq Answer, disturbed' \subseteq Key \cup {NoKey}, faults' \in 0..MaxFaults,
         ReferencesHold', ReqInv(r)',
         \A c \in Credential : Exists(c) => creds'[c].state # "none",
         \A q \in Request \ {r} : q \in secrets => q \in secrets',
         \A c \in Request : clusters[c].state # "none" =>
            /\ clusters'[c].state # "none"
            /\ clusters'[c].name = clusters[c].name /\ clusters'[c].cred = clusters[c].cred,
         \A q \in Request \ {r} : clusters[q].state = "none" => clusters'[q].state = "none",
         \A k \in Key : keys'[k] = keys[k] \/ KeyInv(k)',
         \A a \in answers' : a \in answers \/
            /\ clusters'[a.cluster].state # "none"
            /\ clusters'[a.cluster].name = a.name /\ clusters'[a.cluster].cred = a.cred
  PROVE  Inv'
  <1>1. TypeOK'
    BY Zenon DEF Inv, TypeOK
  <1>2. ASSUME NEW q \in Request PROVE ReqInv(q)'
    <2>1. CASE q = r
      BY <2>1
    <2>2. CASE q # r
      <3>1. reqs'[q] = reqs[q] /\ reqs[q] \in Req
        BY <2>2 DEF Inv, TypeOK
      <3>2. reqs[q].id \in Credential
        BY <3>1 DEF Req
      <3>3. ReqInv(q)
        BY DEF Inv
      <3> QED BY <2>2, <3>1, <3>2, <3>3 DEF ReqInv, Exists
    <2> QED BY <2>1, <2>2
  <1>3. ASSUME NEW k \in Key PROVE KeyInv(k)'
    <2>1. CASE keys'[k] = keys[k]
      <3>1. KeyInv(k)
        BY DEF Inv
      <3> QED BY <2>1, <3>1 DEF KeyInv
    <2> QED BY <2>1
  <1>4. ASSUME NEW a \in answers'
        PROVE  /\ clusters'[a.cluster].state # "none"
               /\ clusters'[a.cluster].name = a.name /\ clusters'[a.cluster].cred = a.cred
    <2>1. CASE a \in answers
      <3>1. a.cluster \in Request
        BY <2>1 DEF Inv, TypeOK, Answer
      <3>2. /\ clusters[a.cluster].state # "none"
            /\ clusters[a.cluster].name = a.name /\ clusters[a.cluster].cred = a.cred
        BY <2>1 DEF Inv, AnswersFitTheBody
      <3> QED BY <3>1, <3>2
    <2> QED BY <2>1
  <1> QED BY <1>1, <1>2, <1>3, <1>4 DEF Inv, AnswersFitTheBody

\* Goto moves the request named and leaves its inputs, until it is done.
LEMMA GotoMoves ==
  ASSUME Inv, NEW r \in Request, NEW pc \in Pc, Goto(r, pc)
  PROVE  \E x \in Req : /\ reqs' = [reqs EXCEPT ![r] = x] /\ reqs'[r] = x /\ x.pc = pc
                        /\ pc # "done" => /\ x.alias = reqs[r].alias /\ x.id = reqs[r].id
                                          /\ x.name = reqs[r].name /\ x.key = reqs[r].key
                        /\ pc = "done" => x.key = NoKey
  <1> DEFINE x == IF pc = "done" THEN Done ELSE [reqs[r] EXCEPT !.pc = pc]
  <1>1. reqs \in [Request -> Req] /\ reqs[r] \in Req
    BY DEF Inv, TypeOK
  <1>2. Done \in Req /\ Done.pc = "done" /\ Done.key = NoKey
    BY DEF Done, Call, Req, Pc, Credential
  <1>3. [reqs[r] EXCEPT !.pc = pc] \in Req
    BY <1>1 DEF Req
  <1>4. x \in Req /\ x.pc = pc
    BY <1>1, <1>2, <1>3 DEF Req
  <1>5. reqs' = [reqs EXCEPT ![r] = x]
    BY DEF Goto
  <1>6. /\ pc # "done" => x.alias = reqs[r].alias /\ x.id = reqs[r].id
                          /\ x.name = reqs[r].name /\ x.key = reqs[r].key
        /\ pc = "done" => x.key = NoKey
    BY <1>1, <1>2 DEF Req
  <1>7. reqs'[r] = x
    BY <1>1, <1>5
  <1> QED BY <1>4, <1>5, <1>6, <1>7, Zenon

\* A step of one request that leaves the tables alone.
LEMMA QuietStep ==
  ASSUME Inv, NEW r \in Request, NEW x \in Req, reqs' = [reqs EXCEPT ![r] = x],
         UNCHANGED tables, ReqInv(r)',
         spawned' \subseteq Request, answers' \subseteq Answer,
         disturbed' \subseteq Key \cup {NoKey}, faults' \in 0..MaxFaults,
         \A a \in answers' : a \in answers \/
            /\ clusters[a.cluster].state # "none"
            /\ clusters[a.cluster].name = a.name /\ clusters[a.cluster].cred = a.cred
  PROVE  Inv'
  <1>1. creds' = creds /\ clusters' = clusters /\ keys' = keys /\ secrets' = secrets
    BY DEF tables
  <1>2. /\ creds \in [Credential -> CredentialRow] /\ clusters \in [Request -> ClusterRow]
        /\ keys \in [Key -> KeyRow] /\ secrets \subseteq Credential
    BY DEF Inv, TypeOK
  <1>3. ReferencesHold'
    BY <1>1 DEF Inv, ReferencesHold, Exists
  <1> QED BY <1>1, <1>2, <1>3, RequestStep, Zenon DEF Exists

\* The record of a call, and its fields.
LEMMA CallFields ==
  ASSUME NEW pc \in Pc, NEW a \in Alias \cup {"none"}, NEW i \in Credential,
         NEW n \in Name \cup {"none"}, NEW k \in Key \cup {NoKey}
  PROVE  /\ Call(pc, a, i, n, k) \in Req
         /\ Call(pc, a, i, n, k).pc = pc /\ Call(pc, a, i, n, k).alias = a
         /\ Call(pc, a, i, n, k).id = i
         /\ Call(pc, a, i, n, k).name = n /\ Call(pc, a, i, n, k).key = k
  BY DEF Call, Req

\* A request that has just arrived keeps Inv: it has only its inputs.
LEMMA ArriveKeeps ==
  ASSUME Inv, NEW r \in Request,
         AddCredential(r) \/ RemoveCredential(r) \/ RemoveCluster(r) \/ CreateCluster(r)
  PROVE  Inv'
  <1>1. reqs[r].pc = "idle" /\ UNCHANGED tables
        /\ spawned' = spawned /\ answers' = answers /\ faults' = faults
    BY DEF AddCredential, RemoveCredential, RemoveCluster, CreateCluster, history
  <1>2. clusters[r].state = "none" /\ reqs \in [Request -> Req]
    BY <1>1 DEF Inv, TypeOK, ReqInv
  <1>3. spawned' \subseteq Request /\ answers' \subseteq Answer /\ faults' \in 0..MaxFaults
    BY <1>1 DEF Inv, TypeOK
  <1>4. disturbed' \subseteq Key \cup {NoKey}
    BY DEF AddCredential, RemoveCredential, RemoveCluster, CreateCluster, history, Inv, TypeOK
  <1>5. \E x \in Req :
          /\ reqs' = [reqs EXCEPT ![r] = x]
          /\ \/ x.pc = "put" /\ x.alias \in Alias
             \/ x.pc = "get" /\ Exists(x.id)
             \/ x.pc = "find" /\ x.id \in Request /\ clusters[x.id].state # "none"
             \/ x.pc = "insert" /\ x.name \in Name
             \/ x.pc = "lookup" /\ x.name \in Name /\ x.key \in Key
    <2>1. CASE AddCredential(r)
      <3>1. PICK a \in Alias : reqs' = [reqs EXCEPT ![r] = Call("put", a, Seed, "none", NoKey)]
        BY <2>1, Zenon DEF AddCredential
      <3> DEFINE x == Call("put", a, Seed, "none", NoKey)
      <3>2. x \in Req /\ x.pc = "put" /\ x.alias = a
        BY CallFields DEF Pc, Credential
      <3>3. reqs' = [reqs EXCEPT ![r] = x]
        BY <3>1
      <3> HIDE DEF x
      <3> QED BY <3>1, <3>2, <3>3, Zenon
    <2>2. CASE RemoveCredential(r)
      <3>1. PICK c \in Credential : Exists(c) /\ reqs' = [reqs EXCEPT ![r] = Call("get", "none", c, "none", NoKey)]
        BY <2>2, Zenon DEF RemoveCredential
      <3> DEFINE x == Call("get", "none", c, "none", NoKey)
      <3>2. x \in Req /\ x.pc = "get" /\ x.id = c
        BY CallFields DEF Pc, Credential
      <3>3. reqs' = [reqs EXCEPT ![r] = x]
        BY <3>1
      <3> HIDE DEF x
      <3> QED BY <3>1, <3>2, <3>3, Zenon
    <2>3. CASE RemoveCluster(r)
      <3>1. PICK c \in Request : clusters[c].state # "none" /\ reqs' = [reqs EXCEPT ![r] = Call("find", "none", c, "none", NoKey)]
        BY <2>3, Zenon DEF RemoveCluster
      <3> DEFINE x == Call("find", "none", c, "none", NoKey)
      <3>2. x \in Req /\ x.pc = "find" /\ x.id = c
        BY CallFields DEF Pc, Credential
      <3>3. reqs' = [reqs EXCEPT ![r] = x]
        BY <3>1
      <3> HIDE DEF x
      <3> QED BY <3>1, <3>2, <3>3, Zenon
    <2>4. CASE CreateCluster(r)
      <3>1. PICK n \in Name, c \in Credential, k \in Key \cup {NoKey} :
               reqs' = [reqs EXCEPT ![r] = Call(IF k = NoKey THEN "insert" ELSE "lookup", "none", c, n, k)]
        BY <2>4, Zenon DEF CreateCluster
      <3> DEFINE x == Call(IF k = NoKey THEN "insert" ELSE "lookup", "none", c, n, k)
      <3>2. /\ x \in Req /\ x.pc = IF k = NoKey THEN "insert" ELSE "lookup"
            /\ x.name = n /\ x.key = k
        BY CallFields DEF Pc
      <3>3. reqs' = [reqs EXCEPT ![r] = x]
        BY <3>1
      <3> HIDE DEF x
      <3> QED BY <3>2, <3>3, Zenon
    <2> QED BY <2>1, <2>2, <2>3, <2>4
  <1>6. ReqInv(r)'
    <2>1. PICK x \in Req :
          /\ reqs'[r] = x
          /\ \/ x.pc = "put" /\ x.alias \in Alias
             \/ x.pc = "get" /\ Exists(x.id)
             \/ x.pc = "find" /\ x.id \in Request /\ clusters[x.id].state # "none"
             \/ x.pc = "insert" /\ x.name \in Name
             \/ x.pc = "lookup" /\ x.name \in Name /\ x.key \in Key
      BY <1>2, <1>5
    <2>2. clusters' = clusters /\ creds' = creds
      BY <1>1 DEF tables
    <2> QED BY <1>2, <2>1, <2>2 DEF ReqInv, Exists
  <1> QED BY <1>1, <1>3, <1>4, <1>5, <1>6, QuietStep, Zenon

\* Steps that only read the tables.  A dropped request answers nothing.
LEMMA DropKeeps ==
  ASSUME Inv, NEW r \in Request, Drop(r)
  PROVE  Inv'
  <1>1. Goto(r, "done") /\ UNCHANGED <<tables, spawned, answers>>
    BY DEF Drop
  <1>2. PICK x \in Req : reqs' = [reqs EXCEPT ![r] = x] /\ reqs'[r] = x /\ x.pc = "done"
    BY <1>1, GotoMoves DEF Pc
  <1>3. ReqInv(r)'
    BY <1>2 DEF ReqInv
  <1>4. faults' \in 0..MaxFaults
    BY IntakeAssumption DEF Drop, Inv, TypeOK
  <1>5. reqs[r].key \in Key \cup {NoKey}
    BY DEF Inv, TypeOK, Req
  <1>6. spawned' \subseteq Request /\ answers' \subseteq Answer /\ disturbed' \subseteq Key \cup {NoKey}
    BY <1>1, <1>5 DEF Drop, Inv, TypeOK
  <1> QED BY <1>1, <1>2, <1>3, <1>4, <1>6, QuietStep, Zenon

\* A lookup that finds nothing ends the request; what it found it relies on.
LEMMA FindKeeps ==
  ASSUME Inv, NEW r \in Request, GetForRemoval(r) \/ FindForDestroy(r)
  PROVE  Inv'
  <1>1. /\ UNCHANGED <<tables, spawned, history, faults>>
        /\ \/ Goto(r, "done")
           \/ reqs[r].pc = "get" /\ Goto(r, "retire")
           \/ reqs[r].pc = "find" /\ Goto(r, "destroy")
    BY DEF GetForRemoval, FindForDestroy
  <1>2. PICK x \in Req :
          /\ reqs' = [reqs EXCEPT ![r] = x] /\ reqs'[r] = x
          /\ \/ x.pc = "done"
             \/ reqs[r].pc = "get" /\ x.pc = "retire" /\ x.id = reqs[r].id
             \/ reqs[r].pc = "find" /\ x.pc = "destroy" /\ x.id = reqs[r].id
    <2>1. CASE Goto(r, "done")
      BY <2>1, GotoMoves DEF Pc
    <2>2. CASE reqs[r].pc = "get" /\ Goto(r, "retire")
      BY <2>2, GotoMoves DEF Pc
    <2>3. CASE reqs[r].pc = "find" /\ Goto(r, "destroy")
      BY <2>3, GotoMoves DEF Pc
    <2> QED BY <1>1, <2>1, <2>2, <2>3
  <1>3. ReqInv(r)
    BY DEF Inv
  <1>4. ReqInv(r)'
    BY <1>1, <1>2, <1>3 DEF ReqInv, Exists, tables
  <1>5. /\ spawned' \subseteq Request /\ answers' = answers /\ answers' \subseteq Answer
        /\ disturbed' \subseteq Key \cup {NoKey} /\ faults' \in 0..MaxFaults
    BY <1>1 DEF Inv, TypeOK, history
  <1> QED BY <1>1, <1>2, <1>4, <1>5, QuietStep, Zenon

\* lookup_idempotency replays a cluster only for the body the key was stored
\* with, which is the body that cluster was inserted with.
LEMMA LookupKeeps ==
  ASSUME Inv, NEW r \in Request, Lookup(r)
  PROVE  Inv'
  <1> DEFINE row == keys[reqs[r].key]
             a == [name |-> reqs[r].name, cred |-> reqs[r].id, key |-> reqs[r].key, cluster |-> row.cluster]
  <1>1. /\ reqs[r].pc = "lookup" /\ UNCHANGED <<tables, spawned, disturbed, faults>>
        /\ \/ Goto(r, "insert") /\ answers' = answers
           \/ Goto(r, "done") /\ answers' = answers
           \/ row.state = "fresh" /\ SameBody(r, row) /\ Goto(r, "done") /\ answers' = answers \cup {a}
    BY DEF Lookup, Accepted
  <1>2. reqs[r].name \in Name /\ reqs[r].key \in Key /\ clusters[r].state = "none"
    BY <1>1 DEF Inv, ReqInv
  <1>3. reqs[r].id \in Credential
    BY Zenon DEF Inv, TypeOK, Req
  <1>4. row.state = "fresh" /\ SameBody(r, row) =>
          /\ row.cluster \in Request /\ clusters[row.cluster].state # "none"
          /\ clusters[row.cluster].name = reqs[r].name /\ clusters[row.cluster].cred = reqs[r].id
    BY <1>2, Zenon DEF Inv, KeyInv, SameBody
  <1>5. row.state = "fresh" /\ SameBody(r, row) => a \in Answer
    BY <1>2, <1>3, <1>4 DEF Answer
  <1>6. PICK x \in Req :
          /\ reqs' = [reqs EXCEPT ![r] = x] /\ reqs'[r] = x
          /\ \/ x.pc = "done"
             \/ x.pc = "insert" /\ x.name = reqs[r].name
    <2>1. CASE Goto(r, "done")
      BY <2>1, GotoMoves DEF Pc
    <2>2. CASE Goto(r, "insert")
      BY <2>2, GotoMoves DEF Pc
    <2> QED BY <1>1, <2>1, <2>2
  <1>7. ReqInv(r)'
    BY <1>1, <1>2, <1>6 DEF ReqInv, tables
  <1>8. /\ spawned' \subseteq Request /\ answers' \subseteq Answer
        /\ disturbed' \subseteq Key \cup {NoKey} /\ faults' \in 0..MaxFaults
    BY <1>1, <1>5, Zenon DEF Inv, TypeOK
  <1>9. \A b \in answers' : b \in answers \/
            /\ clusters[b.cluster].state # "none"
            /\ clusters[b.cluster].name = b.name /\ clusters[b.cluster].cred = b.cred
    BY <1>1, <1>4, SMTT(30)
  <1> QED BY <1>1, <1>6, <1>7, <1>8, <1>9, QuietStep, Zenon

\* spawn_provision, for the cluster the request itself inserted.
LEMMA SpawnKeeps ==
  ASSUME Inv, NEW r \in Request, Spawn(r)
  PROVE  Inv'
  <1> DEFINE a == [name |-> reqs[r].name, cred |-> reqs[r].id, key |-> reqs[r].key, cluster |-> r]
  <1>1. /\ reqs[r].pc = "resolve" /\ UNCHANGED <<tables, disturbed, faults>>
        /\ Goto(r, "done") \/ (reqs[r].key # NoKey /\ Goto(r, "store"))
        /\ answers' = answers \/ answers' = answers \cup {a}
        /\ spawned' = spawned \/ spawned' = spawned \cup {r}
    BY DEF Spawn, Accepted
  <1>2. /\ reqs[r].name \in Name /\ clusters[r].state # "none"
        /\ clusters[r].name = reqs[r].name /\ clusters[r].cred = reqs[r].id
    BY <1>1 DEF Inv, ReqInv
  <1>3. reqs[r].id \in Credential /\ reqs[r].key \in Key \cup {NoKey}
    BY DEF Inv, TypeOK, Req
  <1>4. a \in Answer
    BY <1>2, <1>3 DEF Answer
  <1>5. PICK x \in Req :
          /\ reqs' = [reqs EXCEPT ![r] = x] /\ reqs'[r] = x
          /\ \/ x.pc = "done"
             \/ x.pc = "store" /\ x.name = reqs[r].name /\ x.id = reqs[r].id /\ x.key \in Key
    <2>1. CASE Goto(r, "done")
      BY <2>1, GotoMoves DEF Pc
    <2>2. CASE reqs[r].key # NoKey /\ Goto(r, "store")
      BY <1>3, <2>2, GotoMoves DEF Pc
    <2> QED BY <1>1, <2>1, <2>2
  <1>6. ReqInv(r)'
    BY <1>1, <1>2, <1>5 DEF ReqInv, tables
  <1>7. /\ spawned' \subseteq Request /\ answers' \subseteq Answer
        /\ disturbed' \subseteq Key \cup {NoKey} /\ faults' \in 0..MaxFaults
    BY <1>1, <1>4, Zenon DEF Inv, TypeOK
  <1>8. \A b \in answers' : b \in answers \/
            /\ clusters[b.cluster].state # "none"
            /\ clusters[b.cluster].name = b.name /\ clusters[b.cluster].cred = b.cred
    BY <1>1, <1>2
  <1> QED BY <1>1, <1>5, <1>6, <1>7, <1>8, QuietStep, Zenon

-----------------------------------------------------------------------------
\* A step of a credential request: it ends, or goes on to link, clean up or
\* erase.  No credential row goes away and no secret of another request.
LEMMA CredentialStep ==
  ASSUME Inv, NEW r \in Request, NEW pc \in {"link", "cleanup", "erase", "done"}, Goto(r, pc),
         UNCHANGED <<clusters, keys, spawned, history>>, faults' \in 0..MaxFaults,
         clusters[r].state = "none",
         pc = "link" => r \in secrets' /\ reqs[r].alias \in Alias,
         pc = "erase" => creds'[reqs[r].id].state # "none",
         creds' \in [Credential -> CredentialRow], secrets' \subseteq Credential,
         \A c \in Credential : Exists(c) => creds'[c].state # "none",
         \A q \in Request \ {r} : q \in secrets => q \in secrets',
         \A c \in Credential : creds'[c].state # "none" => c \in secrets'
  PROVE  Inv'
  <1>1. PICK x \in Req :
          /\ reqs' = [reqs EXCEPT ![r] = x] /\ reqs'[r] = x /\ x.pc = pc
          /\ pc # "done" => x.alias = reqs[r].alias /\ x.id = reqs[r].id
    BY GotoMoves DEF Pc
  <1>2. ReqInv(r)'
    BY <1>1, Zenon DEF ReqInv, Exists
  <1>3. ReferencesHold'
    BY DEF ReferencesHold, Exists
  <1>4. /\ clusters' \in [Request -> ClusterRow] /\ keys' \in [Key -> KeyRow]
        /\ spawned' \subseteq Request /\ answers' = answers /\ answers' \subseteq Answer
        /\ disturbed' \subseteq Key \cup {NoKey}
    BY Zenon DEF Inv, TypeOK, history
  <1> QED BY <1>1, <1>2, <1>3, <1>4, RequestStep, Zenon

\* SecretStore::put, before the row that will refer to it.
LEMMA PutKeeps ==
  ASSUME Inv, NEW r \in Request, PutSecret(r)
  PROVE  Inv'
  <1>1. clusters[r].state = "none" /\ reqs[r].alias \in Alias
    BY Zenon DEF PutSecret, Inv, ReqInv
  <1> QED BY <1>1, CredentialStep, Zenon DEF PutSecret, Inv, TypeOK, ReferencesHold, Exists, Credential

\* The insert of the row, also one that commits and still returns an error:
\* its secret is there.
LEMMA InsertKeeps ==
  ASSUME Inv, NEW r \in Request, InsertCredential(r) \/ InsertFails(r)
  PROVE  Inv'
  <1> DEFINE row == [state |-> "live", alias |-> reqs[r].alias]
  <1>1. /\ reqs[r].pc = "link"
        /\ UNCHANGED <<secrets, clusters, keys, spawned, history>>
        /\ creds' = creds \/ creds' = [creds EXCEPT ![r] = row]
        /\ Goto(r, "done") \/ Goto(r, "cleanup")
    BY DEF InsertCredential, InsertFails
  <1>2. r \in secrets /\ reqs[r].alias \in Alias /\ clusters[r].state = "none"
    BY <1>1 DEF Inv, ReqInv
  <1>3. row \in CredentialRow /\ row.state # "none"
    BY <1>2 DEF CredentialRow
  <1>4. creds \in [Credential -> CredentialRow] /\ secrets \subseteq Credential /\ r \in Credential
    BY DEF Inv, TypeOK, Credential
  <1>5. creds' \in [Credential -> CredentialRow]
        /\ \A c \in Credential : creds'[c] = creds[c] \/ (c = r /\ creds'[c] = row)
    BY <1>1, <1>3, <1>4
  <1>6. faults' \in 0..MaxFaults
    BY IntakeAssumption DEF InsertCredential, InsertFails, Inv, TypeOK
  <1>7. \A c \in Credential : creds'[c].state # "none" => c \in secrets'
    BY <1>1, <1>2, <1>5 DEF Inv, ReferencesHold, Exists
  <1> HIDE DEF row
  <1>8. \A c \in Credential : Exists(c) => creds'[c].state # "none"
    BY <1>3, <1>5 DEF Exists
  <1> QED BY <1>1, <1>2, <1>4, <1>5, <1>6, <1>7, <1>8, CredentialStep, Zenon

\* SecretStore::delete takes back a secret only while no row refers to it, of
\* this request or of a credential that is being removed.
LEMMA EraseKeeps ==
  ASSUME Inv, NEW r \in Request, Cleanup(r) \/ EraseSecret(r)
  PROVE  Inv'
  <1>1. /\ UNCHANGED <<creds, clusters, keys, spawned, history, faults>> /\ Goto(r, "done")
        /\ \/ reqs[r].pc = "cleanup" /\ secrets' = Without(r)
           \/ reqs[r].pc = "erase" /\ secrets' = Without(reqs[r].id)
    BY DEF Cleanup, EraseSecret
  <1>2. /\ clusters[r].state = "none"
        /\ reqs[r].pc = "erase" => Exists(reqs[r].id)
    BY <1>1 DEF Inv, ReqInv
  <1>3. /\ secrets' \subseteq secrets /\ secrets \ {r} \subseteq secrets'
        /\ \A c \in secrets : Exists(c) => c \in secrets'
    BY <1>1, <1>2 DEF Without
  <1>4. /\ creds' \in [Credential -> CredentialRow] /\ secrets' \subseteq Credential
        /\ faults' \in 0..MaxFaults
    BY <1>1, <1>3 DEF Inv, TypeOK
  <1>5. \A c \in Credential : creds'[c].state # "none" => c \in secrets'
    BY <1>1, <1>3 DEF Inv, ReferencesHold, Exists
  <1>6. \A q \in Request \ {r} : q \in secrets => q \in secrets'
    BY <1>3
  <1> QED BY <1>1, <1>2, <1>4, <1>5, <1>6, CredentialStep DEF Exists

\* The soft delete leaves the row, so it still refers to its secret.
LEMMA SoftDeleteKeeps ==
  ASSUME Inv, NEW r \in Request, SoftDelete(r)
  PROVE  Inv'
  <1> DEFINE c == reqs[r].id
  <1>1. /\ reqs[r].pc = "retire" /\ creds' = [creds EXCEPT ![c].state = "deleted"]
        /\ Goto(r, "erase") \/ Goto(r, "done")
        /\ UNCHANGED <<secrets, clusters, keys, spawned, history, faults>>
    BY DEF SoftDelete
  <1>2. clusters[r].state = "none" /\ Exists(c)
    BY <1>1 DEF Inv, ReqInv
  <1>3. c \in Credential
    BY DEF Inv, TypeOK, Req
  <1>4. creds \in [Credential -> CredentialRow] /\ secrets' \subseteq Credential /\ faults' \in 0..MaxFaults
    BY <1>1 DEF Inv, TypeOK
  <1> HIDE DEF c
  <1>5. creds[c] \in CredentialRow /\ creds' = [creds EXCEPT ![c] = [creds[c] EXCEPT !.state = "deleted"]]
    BY <1>1, <1>3, <1>4
  <1>6. [creds[c] EXCEPT !.state = "deleted"] \in CredentialRow
        /\ [creds[c] EXCEPT !.state = "deleted"].state = "deleted"
    BY <1>5 DEF CredentialRow
  <1>7. creds' \in [Credential -> CredentialRow]
    BY <1>4, <1>5, <1>6, Zenon
  <1>8. \A d \in Credential : (creds'[d].state = "deleted" /\ d = c) \/ creds'[d] = creds[d]
    BY <1>3, <1>4, <1>5, <1>6
  <1>9. \A d \in Credential : (Exists(d) => creds'[d].state # "none")
                           /\ (creds'[d].state # "none" => d \in secrets')
    BY <1>1, <1>2, <1>8 DEF Inv, ReferencesHold, Exists
  <1>10. creds'[reqs[r].id].state # "none"
    BY <1>2, <1>3, <1>9 DEF c
  <1> QED BY <1>1, <1>2, <1>4, <1>7, <1>9, <1>10, CredentialStep

-----------------------------------------------------------------------------
\* The insert of a cluster: the row is new and holds the body of the request.
LEMMA InsertClusterKeeps ==
  ASSUME Inv, NEW r \in Request, InsertCluster(r)
  PROVE  Inv'
  <1> DEFINE row == [state |-> "live", name |-> reqs[r].name, cred |-> reqs[r].id, key |-> reqs[r].key]
  <1>1. /\ reqs[r].pc = "insert" /\ UNCHANGED <<secrets, creds, keys, spawned, history, faults>>
        /\ \/ clusters' = clusters /\ Goto(r, "done")
           \/ clusters' = [clusters EXCEPT ![r] = row] /\ Goto(r, "resolve")
    BY Zenon DEF InsertCluster
  <1>2. clusters[r].state = "none" /\ reqs[r].name \in Name
    BY <1>1 DEF Inv, ReqInv
  <1>3. reqs[r].id \in Credential /\ reqs[r].key \in Key \cup {NoKey}
    BY DEF Inv, TypeOK, Req
  <1>4. row \in ClusterRow /\ row.state = "live" /\ row.name = reqs[r].name /\ row.cred = reqs[r].id
    BY <1>2, <1>3 DEF ClusterRow
  <1>5. clusters \in [Request -> ClusterRow]
    BY DEF Inv, TypeOK
  <1> HIDE DEF row
  <1>6. /\ clusters' \in [Request -> ClusterRow]
        /\ \A q \in Request \ {r} : clusters'[q] = clusters[q]
    BY <1>1, <1>4, <1>5
  <1>7. PICK x \in Req :
          /\ reqs' = [reqs EXCEPT ![r] = x] /\ reqs'[r] = x
          /\ \/ x.pc = "done"
             \/ x.pc = "resolve" /\ x.name = reqs[r].name /\ x.id = reqs[r].id /\ clusters'[r] = row
    <2>1. CASE Goto(r, "done")
      BY <2>1, GotoMoves DEF Pc
    <2>2. CASE Goto(r, "resolve") /\ clusters' = [clusters EXCEPT ![r] = row]
      <3>1. clusters'[r] = row
        BY <1>5, <2>2
      <3> QED BY <2>2, <3>1, GotoMoves DEF Pc
    <2> QED BY <1>1, <2>1, <2>2
  <1>8. ReqInv(r)'
    BY <1>2, <1>4, <1>7 DEF ReqInv
  <1>9. /\ creds' \in [Credential -> CredentialRow] /\ keys' \in [Key -> KeyRow]
        /\ secrets' \subseteq Credential /\ spawned' \subseteq Request
        /\ answers' = answers /\ answers' \subseteq Answer
        /\ disturbed' \subseteq Key \cup {NoKey} /\ faults' \in 0..MaxFaults
    BY <1>1, Zenon DEF Inv, TypeOK, history
  <1>10. ReferencesHold' /\ \A c \in Credential : Exists(c) => creds'[c].state # "none"
    BY <1>1 DEF Inv, ReferencesHold, Exists
  <1>11. \A c \in Request : clusters[c].state # "none" => clusters'[c] = clusters[c]
    BY <1>2, <1>6
  <1> QED BY <1>1, <1>6, <1>7, <1>8, <1>9, <1>10, <1>11, RequestStep, Zenon

\* store_idempotency: a key that is new names the request's own cluster.
LEMMA StoreKeeps ==
  ASSUME Inv, NEW r \in Request, StoreKey(r)
  PROVE  Inv'
  <1> DEFINE k == reqs[r].key
             row == [state |-> "fresh", name |-> reqs[r].name, cred |-> reqs[r].id, cluster |-> r]
             a == [name |-> reqs[r].name, cred |-> reqs[r].id, key |-> k, cluster |-> r]
  <1>1. /\ reqs[r].pc = "store" /\ Goto(r, "done") /\ answers' = answers \cup {a}
        /\ UNCHANGED <<secrets, creds, clusters, spawned, disturbed, faults>>
    BY Zenon DEF StoreKey, Accepted
  <1>2. /\ reqs[r].name \in Name /\ k \in Key /\ clusters[r].state # "none"
        /\ clusters[r].name = reqs[r].name /\ clusters[r].cred = reqs[r].id
    BY <1>1 DEF Inv, ReqInv
  <1>3. reqs[r].id \in Credential /\ r \in Credential
    BY DEF Inv, TypeOK, Req, Credential
  <1>4. a \in Answer /\ row \in KeyRow
    BY <1>2, <1>3, Zenon DEF Answer, KeyRow
  <1>5. keys \in [Key -> KeyRow]
    BY DEF Inv, TypeOK
  <1>6. keys' = keys \/ keys' = [keys EXCEPT ![k] = row]
    BY <1>2, <1>5, Zenon DEF StoreKey
  <1>7. row.name = reqs[r].name /\ row.cred = reqs[r].id /\ row.cluster = r
    OBVIOUS
  <1>8. PICK x \in Req : reqs' = [reqs EXCEPT ![r] = x] /\ reqs'[r] = x /\ x.pc = "done"
    BY <1>1, GotoMoves DEF Pc
  <1>9. ReqInv(r)'
    BY <1>8 DEF ReqInv
  <1>10. \A b \in answers' : b \in answers \/
            /\ clusters'[b.cluster].state # "none"
            /\ clusters'[b.cluster].name = b.name /\ clusters'[b.cluster].cred = b.cred
    BY <1>1, <1>2, SMTT(30)
  <1>11. /\ creds' \in [Credential -> CredentialRow] /\ clusters' \in [Request -> ClusterRow]
         /\ secrets' \subseteq Credential /\ spawned' \subseteq Request
         /\ answers' \subseteq Answer
         /\ disturbed' \subseteq Key \cup {NoKey} /\ faults' \in 0..MaxFaults
    BY <1>1, <1>4 DEF Inv, TypeOK
  <1>12. ReferencesHold' /\ \A c \in Credential : Exists(c) => creds'[c].state # "none"
    BY <1>1, Zenon DEF Inv, ReferencesHold, Exists
  <1> HIDE DEF row, k
  <1>13. /\ keys' \in [Key -> KeyRow]
         /\ \A j \in Key : keys'[j] = keys[j] \/ keys'[j] = row
    BY <1>2, <1>4, <1>5, <1>6, Zenon
  <1>14. \A j \in Key : keys'[j] = keys[j] \/ KeyInv(j)'
    BY <1>1, <1>2, <1>7, <1>13 DEF KeyInv
  <1> QED BY <1>1, <1>8, <1>9, <1>10, <1>11, <1>12, <1>13, <1>14, RequestStep, Zenon

\* The end of a destroy keeps the row and its body.
LEMMA DestroyKeeps ==
  ASSUME Inv, NEW r \in Request, DestroyCluster(r)
  PROVE  Inv'
  <1> DEFINE c == reqs[r].id
             row == [clusters[c] EXCEPT !.state = "destroyed"]
  <1>1. /\ reqs[r].pc = "destroy" /\ Goto(r, "done")
        /\ clusters' = [clusters EXCEPT ![c].state = "destroyed"]
        /\ UNCHANGED <<secrets, creds, keys, spawned, history, faults>>
    BY DEF DestroyCluster
  <1>2. c \in Request /\ clusters[c].state # "none" /\ clusters[r].state = "none"
    BY <1>1 DEF Inv, ReqInv
  <1> HIDE DEF c
  <1>3. clusters \in [Request -> ClusterRow] /\ clusters[c] \in ClusterRow
    BY <1>2 DEF Inv, TypeOK
  <1>4. row \in ClusterRow /\ row.state = "destroyed"
        /\ row.name = clusters[c].name /\ row.cred = clusters[c].cred
    BY <1>3 DEF ClusterRow
  <1>5. clusters' = [clusters EXCEPT ![c] = row]
    BY <1>1, <1>2, <1>3
  <1> HIDE DEF row
  <1>6. /\ clusters' \in [Request -> ClusterRow]
        /\ \A q \in Request : clusters'[q] = clusters[q] \/ (q = c /\ clusters'[q] = row)
    BY <1>2, <1>3, <1>4, <1>5
  <1>7. PICK x \in Req : reqs' = [reqs EXCEPT ![r] = x] /\ reqs'[r] = x /\ x.pc = "done"
    BY <1>1, GotoMoves DEF Pc
  <1>8. ReqInv(r)'
    BY <1>7 DEF ReqInv
  <1>9. /\ creds' \in [Credential -> CredentialRow] /\ keys' \in [Key -> KeyRow]
        /\ secrets' \subseteq Credential /\ spawned' \subseteq Request
        /\ answers' = answers /\ answers' \subseteq Answer
        /\ disturbed' \subseteq Key \cup {NoKey} /\ faults' \in 0..MaxFaults
    BY <1>1 DEF Inv, TypeOK, history
  <1>10. ReferencesHold' /\ \A d \in Credential : Exists(d) => creds'[d].state # "none"
    BY <1>1 DEF Inv, ReferencesHold, Exists
  <1>11. \A q \in Request :
           /\ clusters[q].state # "none" =>
                /\ clusters'[q].state # "none"
                /\ clusters'[q].name = clusters[q].name /\ clusters'[q].cred = clusters[q].cred
           /\ clusters[q].state = "none" => clusters'[q].state = "none"
    BY <1>2, <1>4, <1>6
  <1> QED BY <1>1, <1>6, <1>7, <1>8, <1>9, <1>10, <1>11, RequestStep, Zenon

\* An expired key keeps the body and the cluster it was stored with.
LEMMA ExpireKeeps ==
  ASSUME Inv, NEW k \in Key, Expire(k)
  PROVE  Inv'
  <1> DEFINE row == [keys[k] EXCEPT !.state = "expired"]
  <1>1. /\ keys[k].state = "fresh" /\ disturbed' = disturbed \cup {k}
        /\ UNCHANGED <<secrets, creds, clusters, spawned, reqs, answers, faults>>
    BY DEF Expire
  <1>2. keys \in [Key -> KeyRow] /\ keys[k] \in KeyRow
    BY DEF Inv, TypeOK
  <1>3. keys' = [keys EXCEPT ![k] = row]
    BY <1>2 DEF Expire
  <1>4. row \in KeyRow /\ row.name = keys[k].name /\ row.cred = keys[k].cred
        /\ row.cluster = keys[k].cluster
    BY <1>2 DEF KeyRow
  <1> HIDE DEF row
  <1>5. /\ keys' \in [Key -> KeyRow]
        /\ \A j \in Key : keys'[j] = keys[j] \/ (j = k /\ keys'[j] = row)
    BY <1>2, <1>3, <1>4
  <1>6. TypeOK'
    BY <1>1, <1>5 DEF Inv, TypeOK
  <1>7. ASSUME NEW j \in Key PROVE KeyInv(j)'
    <2>1. KeyInv(j)
      BY Zenon DEF Inv
    <2> QED BY <1>1, <1>4, <1>5, <2>1 DEF KeyInv
  <1>8. \A r \in Request : ReqInv(r)'
    BY <1>1, Zenon DEF Inv, ReqInv, Exists
  <1> QED BY <1>1, <1>6, <1>7, <1>8 DEF Inv, ReferencesHold, AnswersFitTheBody, Exists

\* A step that changes nothing.
LEMMA StutterKeeps == Inv /\ UNCHANGED vars => Inv'
  BY SMTT(30) DEF Inv, TypeOK, ReferencesHold, AnswersFitTheBody, ReqInv, KeyInv, Exists,
         vars, tables, history

\* Every step keeps Inv.
LEMMA NextInv == Inv /\ [Next]_vars => Inv'
  <1> SUFFICES ASSUME Inv, [Next]_vars PROVE Inv'
    OBVIOUS
  <1>1. ASSUME NEW r \in Request, AddCredential(r) \/ RemoveCredential(r)
                                  \/ RemoveCluster(r) \/ CreateCluster(r)
        PROVE  Inv'
    BY <1>1, ArriveKeeps
  <1>2. ASSUME NEW r \in Request, Drop(r) PROVE Inv'
    BY <1>2, DropKeeps
  <1>3. ASSUME NEW r \in Request, PutSecret(r) PROVE Inv'
    BY <1>3, PutKeeps
  <1>4. ASSUME NEW r \in Request, InsertCredential(r) \/ InsertFails(r) PROVE Inv'
    BY <1>4, InsertKeeps
  <1>5. ASSUME NEW r \in Request, Cleanup(r) \/ EraseSecret(r) PROVE Inv'
    BY <1>5, EraseKeeps
  <1>6. ASSUME NEW r \in Request, GetForRemoval(r) \/ FindForDestroy(r) PROVE Inv'
    BY <1>6, FindKeeps
  <1>7. ASSUME NEW r \in Request, SoftDelete(r) PROVE Inv'
    BY <1>7, SoftDeleteKeeps
  <1>8. ASSUME NEW r \in Request, Lookup(r) PROVE Inv'
    BY <1>8, LookupKeeps
  <1>9. ASSUME NEW r \in Request, InsertCluster(r) PROVE Inv'
    BY <1>9, InsertClusterKeeps
  <1>10. ASSUME NEW r \in Request, Spawn(r) PROVE Inv'
    BY <1>10, SpawnKeeps
  <1>11. ASSUME NEW r \in Request, StoreKey(r) PROVE Inv'
    BY <1>11, StoreKeeps
  <1>12. ASSUME NEW r \in Request, DestroyCluster(r) PROVE Inv'
    BY <1>12, DestroyKeeps
  <1>13. ASSUME NEW k \in Key, Expire(k) PROVE Inv'
    BY <1>13, ExpireKeeps
  <1>14. CASE UNCHANGED vars
    BY <1>14, StutterKeeps
  <1> QED BY <1>1, <1>2, <1>3, <1>4, <1>5, <1>6, <1>7, <1>8, <1>9, <1>10, <1>11, <1>12,
           <1>13, <1>14 DEF Next

\* Inv is an invariant of ClusterIntake: whatever requests interleave, fail or
\* are dropped, each one relies only on rows that are there.
THEOREM InvHolds == Spec => []Inv
  BY InitInv, NextInv, PTL DEF Spec

\* AnswersFitTheBody: a 202, first or replayed, names a cluster that was made for
\* the body of that very request.
THEOREM AnswersFit == Spec => []AnswersFitTheBody
  BY InvHolds, PTL DEF Inv

-----------------------------------------------------------------------------
(* CreateHistory is inductive. *)

\* Nothing was created at the start.
LEMMA InitHistory == Init => CreateHistory
  <1> SUFFICES ASSUME Init PROVE CreateHistory
    OBVIOUS
  <1>1. \A r \in Request : reqs[r].pc = "idle" /\ reqs[r].key = NoKey /\ ~Exists(r)
    BY IntakeAssumption DEF Init, Idle, Call, Exists, Gone, Credential
  <1>2. \A r \in Request : CreateInv(r)
    BY <1>1, IntakeAssumption, Zenon DEF CreateInv
  <1>3. \A k \in Key : KeyHistory(k)
    BY <1>1, IntakeAssumption DEF Init, KeyHistory, NoRow
  <1>4. \A c \in Request : Started(c)
    BY Zenon DEF Init, Started, NoCluster
  <1> QED BY <1>2, <1>3, <1>4, InitInv DEF Init, CreateHistory

\* What a step of one request must respect to keep CreateHistory: credentials and
\* clusters only come into being and end, for the request that makes them, and a
\* create goes on from its insert until it has provisioned or found no credential.
LEMMA HistoryStep ==
  ASSUME CreateHistory, Inv', NEW r \in Request,
         \A q \in Request \ {r} : reqs'[q] = reqs[q], CreateInv(r)',
         \A c \in Credential : /\ Exists(c) => Exists(c)'
                               /\ creds[c].state = "deleted" => creds'[c].state = "deleted"
                               /\ c # r /\ ~Exists(c) => ~Exists(c)',
         \A c \in Request :
            /\ clusters[c].state # "none" => /\ clusters'[c].key = clusters[c].key
                                             /\ clusters'[c].cred = clusters[c].cred
                                             /\ clusters'[c].state # "none"
            /\ clusters'[c].state = "live" => \/ clusters[c].state = "live"
                                              \/ c = r /\ reqs'[r].pc = "resolve",
         spawned \subseteq spawned',
         \A c \in spawned' : c \in spawned \/ (c = r /\ clusters[r].state # "none"),
         faults' = 0 => faults = 0, disturbed \subseteq disturbed',
         \A k \in Key \ disturbed' : KeyHistory(k)',
         reqs[r].pc = "resolve" =>
            faults' # 0 \/ r \in spawned' \/ creds'[reqs[r].id].state = "deleted"
  PROVE  CreateHistory'
  <1>1. Inv /\ TypeOK /\ \A q \in Request : CreateInv(q) /\ ReqInv(q)
    BY Zenon DEF CreateHistory, Inv
  <1>2. ASSUME NEW q \in Request PROVE CreateInv(q)'
    <2>1. CASE q = r
      BY <2>1, Zenon
    <2>2. CASE q # r
      <3>1. reqs'[q] = reqs[q] /\ CreateInv(q) /\ ReqInv(q) /\ q \in Credential /\ reqs[q].id \in Credential
        BY <1>1, <2>2, Zenon DEF TypeOK, Req, Credential
      <3>2. reqs[q].pc \in {"resolve", "store"} => clusters'[q].key = clusters[q].key
        BY <3>1 DEF ReqInv
      <3>3. (Exists(reqs[q].id) => Exists(reqs[q].id)') /\ (~Exists(q) => ~Exists(q)')
        BY <2>2, <3>1, Zenon
      <3> QED BY <3>1, <3>2, <3>3, Zenon DEF CreateInv, Exists
    <2> QED BY <2>1, <2>2
  <1>3. \A c \in spawned' : clusters'[c].state # "none"
    BY <1>1 DEF CreateHistory, TypeOK
  <1>4. ASSUME faults' = 0, NEW c \in Request PROVE Started(c)'
    <2> SUFFICES ASSUME clusters'[c].state = "live", ~(c = r /\ reqs'[r].pc = "resolve")
                 PROVE  c \in spawned' \/ reqs'[c].pc = "resolve" \/ creds'[clusters'[c].cred].state = "deleted"
      BY Zenon DEF Started
    <2>1. clusters[c].state = "live" /\ clusters'[c].cred = clusters[c].cred /\ clusters[c].cred \in Credential
      BY <1>1 DEF TypeOK, ClusterRow
    <2>2. c \in spawned \/ reqs[c].pc = "resolve" \/ creds[clusters[c].cred].state = "deleted"
      BY <1>4, <2>1, Zenon DEF CreateHistory, Started
    <2>3. CASE reqs[c].pc = "resolve" /\ c = r
      BY <1>1, <1>4, <2>1, <2>3, SMTT(30) DEF ReqInv
    <2> QED BY <2>1, <2>2, <2>3
  <1> QED BY <1>2, <1>3, <1>4 DEF CreateHistory

\* A key is kept by a step of a request that does not provision, answer or store,
\* unless it takes over the key.
LEMMA KeyKept ==
  ASSUME CreateHistory, NEW r \in Request, NEW k \in Key, k \notin disturbed,
         \A q \in Request \ {r} : reqs'[q] = reqs[q],
         keys'[k] = keys[k], spawned' = spawned,
         \A a \in answers' : a.key = k =>
            a \in answers \/ (keys[k].state = "fresh" /\ a.cluster = keys[k].cluster),
         \A c \in Request : clusters[c].state # "none" => clusters'[c].key = clusters[c].key,
         ~(reqs[r].pc = "store" /\ reqs[r].key = k),
         reqs'[r].key = k => /\ \/ reqs[r].key = k
                                \/ \A q \in Request : reqs[q].key # k
                             /\ reqs'[r].pc = "lookup" \/ keys[k].state = "none"
  PROVE  KeyHistory(k)'
  <1>1. KeyHistory(k) /\ spawned \subseteq Request /\ \A c \in spawned : clusters[c].state # "none"
    BY Zenon DEF CreateHistory, Inv, TypeOK
  <1>2. \A q, p \in Request : reqs'[q].key = k /\ reqs'[p].key = k => q = p
    BY <1>1, SMTT(30) DEF KeyHistory
  <1>3. \A c \in spawned' : clusters'[c].key = k =>
         \/ keys'[k].state = "none" /\ reqs'[c].pc = "store" /\ reqs'[c].key = k
         \/ keys'[k].state = "fresh" /\ c = keys'[k].cluster
    BY <1>1, Zenon DEF KeyHistory
  <1>4. \A a \in answers' : a.key = k => keys'[k].state = "fresh" /\ a.cluster = keys'[k].cluster
    BY <1>1, Zenon DEF KeyHistory
  <1>5. keys'[k].state = "fresh" => \A q \in Request : reqs'[q].key = k => reqs'[q].pc = "lookup"
    BY <1>1 DEF KeyHistory
  <1> QED BY <1>1, <1>2, <1>3, <1>4, <1>5 DEF KeyHistory

\* Where a request goes, and what it carries there.
LEMMA GotoCarries ==
  ASSUME Inv, NEW r \in Request, NEW pc \in Pc, Goto(r, pc)
  PROVE  /\ reqs'[r].pc = pc /\ \A q \in Request \ {r} : reqs'[q] = reqs[q]
         /\ pc # "done" => reqs'[r].id = reqs[r].id /\ reqs'[r].key = reqs[r].key
         /\ pc = "done" => reqs'[r].key = NoKey
  <1>1. PICK x \in Req : /\ reqs' = [reqs EXCEPT ![r] = x] /\ reqs'[r] = x /\ x.pc = pc
                         /\ pc # "done" => x.id = reqs[r].id /\ x.key = reqs[r].key
                         /\ pc = "done" => x.key = NoKey
    BY GotoMoves
  <1>2. \A q \in Request \ {r} : reqs'[q] = reqs[q]
    BY <1>1, Zenon DEF Inv, TypeOK
  <1> QED BY <1>1, <1>2

\* The requests that are not creates carry no key and provision nothing.
LEMMA OtherStep ==
  ASSUME CreateHistory, Inv', NEW r \in Request,
         \A q \in Request \ {r} : reqs'[q] = reqs[q],
         reqs[r].pc \notin {"lookup", "insert", "resolve", "store"},
         reqs'[r].pc \notin {"lookup", "insert", "resolve", "store"}, reqs'[r].key \notin Key,
         reqs'[r].pc \notin {"cleanup", "done"} => ~Exists(r)',
         \A c \in Credential : /\ Exists(c) => Exists(c)'
                               /\ creds[c].state = "deleted" => creds'[c].state = "deleted"
                               /\ c # r /\ ~Exists(c) => ~Exists(c)',
         \A c \in Request :
            /\ clusters[c].state # "none" => /\ clusters'[c].key = clusters[c].key
                                             /\ clusters'[c].cred = clusters[c].cred
                                             /\ clusters'[c].state # "none"
            /\ clusters'[c].state = "live" => clusters[c].state = "live",
         UNCHANGED <<keys, spawned, answers, disturbed>>, faults' = 0 => faults = 0
  PROVE  CreateHistory'
  <1>1. CreateInv(r)'
    BY Zenon DEF CreateInv
  <1>2. \A k \in Key \ disturbed' : KeyHistory(k)'
    BY KeyKept, Zenon
  <1> QED BY <1>1, <1>2, HistoryStep, Zenon

\* The arrival of a request that is not a create, its lookups and its end.
LEMMA OtherReads ==
  ASSUME CreateHistory, Inv', NEW r \in Request,
         \/ AddCredential(r) \/ RemoveCredential(r) \/ RemoveCluster(r)
         \/ GetForRemoval(r) \/ FindForDestroy(r) \/ Cleanup(r) \/ EraseSecret(r) \/ PutSecret(r)
  PROVE  CreateHistory'
  <1>1. Inv /\ TypeOK /\ CreateInv(r)
    BY Zenon DEF CreateHistory, Inv
  <1>2. UNCHANGED <<creds, clusters, keys, spawned, answers, disturbed, faults>>
    BY DEF AddCredential, RemoveCredential, RemoveCluster, GetForRemoval, FindForDestroy,
           Cleanup, EraseSecret, PutSecret, tables, history
  <1>3. /\ \A q \in Request \ {r} : reqs'[q] = reqs[q]
        /\ reqs[r].pc \in {"idle", "put", "get", "find", "cleanup", "erase"}
        /\ reqs'[r].pc \in {"put", "get", "find", "retire", "destroy", "link", "done"} /\ reqs'[r].key \notin Key
        /\ reqs'[r].pc # "done" => reqs[r].pc \notin {"cleanup", "done"}
    <2>1. CASE AddCredential(r) \/ RemoveCredential(r) \/ RemoveCluster(r)
      <3>1. PICK pc, a, c :
              pc \in {"put", "get", "find"} /\ reqs[r].pc = "idle" /\ reqs' = [reqs EXCEPT ![r] = Call(pc, a, c, "none", NoKey)]
        BY <2>1, Zenon DEF AddCredential, RemoveCredential, RemoveCluster
      <3>2. Call(pc, a, c, "none", NoKey).pc = pc /\ Call(pc, a, c, "none", NoKey).key = NoKey
        BY DEF Call
      <3>3. DOMAIN reqs = Request
        BY <1>1 DEF TypeOK
      <3>4. reqs'[r].pc = pc /\ reqs'[r].key = NoKey /\ \A q \in Request \ {r} : reqs'[q] = reqs[q]
        BY <3>1, <3>2, <3>3
      <3> QED BY <3>1, <3>4, IntakeAssumption
    <2>2. reqs[r].key \in Key \cup {NoKey}
      BY <1>1, Zenon DEF TypeOK, Req
    <2>3. CASE \/ reqs[r].pc \in {"put", "get", "find", "cleanup", "erase"} /\ Goto(r, "done")
               \/ reqs[r].pc = "get" /\ Goto(r, "retire")
               \/ reqs[r].pc = "find" /\ Goto(r, "destroy")
               \/ reqs[r].pc = "put" /\ Goto(r, "link")
      BY <1>1, <2>2, <2>3, GotoCarries, IntakeAssumption, Zenon DEF Pc, CreateInv
    <2> QED BY <2>1, <2>3, Zenon DEF GetForRemoval, FindForDestroy, Cleanup, EraseSecret, PutSecret
  <1>4. reqs'[r].pc \notin {"cleanup", "done"} => ~Exists(r)'
    BY <1>1, <1>2, <1>3 DEF CreateInv, Exists
  <1>5. \A c \in Credential : Exists(c)' <=> Exists(c)
    BY <1>2 DEF Exists
  <1> QED BY <1>2, <1>3, <1>4, <1>5, OtherStep, Zenon

\* The rows a credential request writes.
LEMMA OtherWrites ==
  ASSUME CreateHistory, Inv', NEW r \in Request, InsertCredential(r) \/ InsertFails(r) \/ SoftDelete(r)
  PROVE  CreateHistory'
  <1>1. Inv /\ TypeOK /\ CreateInv(r) /\ ReqInv(r) /\ r \in Credential /\ reqs[r].id \in Credential
    BY DEF CreateHistory, Inv, TypeOK, Req, Credential
  <1>2. UNCHANGED <<clusters, keys, spawned, answers, disturbed>> /\ (faults' = 0 => faults = 0)
    BY <1>1 DEF InsertCredential, InsertFails, SoftDelete, history, TypeOK
  <1>3. /\ \A q \in Request \ {r} : reqs'[q] = reqs[q]
        /\ reqs[r].pc \in {"link", "retire"} /\ reqs'[r].key \notin Key
        /\ \/ reqs'[r].pc \in {"done", "cleanup"}
           \/ reqs'[r].pc = "erase" /\ reqs[r].pc = "retire"
    <2>1. \/ reqs[r].pc = "link" /\ (Goto(r, "done") \/ Goto(r, "cleanup"))
          \/ reqs[r].pc = "retire" /\ (Goto(r, "done") \/ Goto(r, "erase"))
      BY DEF InsertCredential, InsertFails, SoftDelete
    <2>2. reqs[r].key \in Key \cup {NoKey}
      BY <1>1 DEF TypeOK, Req
    <2> QED BY <1>1, <2>1, <2>2, GotoCarries, IntakeAssumption, Zenon DEF Pc, CreateInv
  <1>4. CASE reqs[r].pc = "link"
    <2>1. ~Exists(r)
      BY <1>1, <1>4, Zenon DEF CreateInv
    <2>2. creds' = creds \/ creds' = [creds EXCEPT ![r] = [state |-> "live", alias |-> reqs[r].alias]]
      BY <1>4 DEF InsertCredential, InsertFails, SoftDelete
    <2>3. \A c \in Credential \ {r} : creds'[c] = creds[c]
      BY <1>1, <2>2, Zenon DEF TypeOK
    <2>4. \A c \in Credential : /\ Exists(c) => Exists(c)'
                                /\ creds[c].state = "deleted" => creds'[c].state = "deleted"
                                /\ c # r /\ ~Exists(c) => ~Exists(c)'
      BY <2>1, <2>3, Zenon DEF Exists
    <2> QED BY <1>2, <1>3, <1>4, <2>4, OtherStep, Zenon
  <1>5. CASE reqs[r].pc = "retire"
    <2> DEFINE d == reqs[r].id
               row == [creds[d] EXCEPT !.state = "deleted"]
    <2>1. ~Exists(r) /\ Exists(d) /\ d \in Credential
      BY <1>1, <1>5 DEF CreateInv, ReqInv
    <2>2. creds' = [creds EXCEPT ![d] = row]
      BY <1>5 DEF InsertCredential, InsertFails, SoftDelete
    <2>3. row.state = "deleted"
      BY <1>1, <2>1 DEF TypeOK, CredentialRow
    <2> HIDE DEF row, d
    <2>4. creds'[d] = row /\ \A c \in Credential \ {d} : creds'[c] = creds[c]
      BY <1>1, <2>1, <2>2, Zenon DEF TypeOK
    <2>5. \A c \in Credential : /\ Exists(c) => Exists(c)'
                                /\ creds[c].state = "deleted" => creds'[c].state = "deleted"
                                /\ ~Exists(c) => ~Exists(c)'
      BY <2>1, <2>3, <2>4, Zenon DEF Exists
    <2>6. ~Exists(r)'
      BY <1>1, <2>1, <2>5, Zenon
    <2> QED BY <1>2, <1>3, <1>5, <2>5, <2>6, OtherStep, Zenon
  <1> QED BY <1>3, <1>4, <1>5, Zenon

\* A destroyed cluster keeps its key and its credential.
LEMMA DestroyHistory ==
  ASSUME CreateHistory, Inv', NEW r \in Request, DestroyCluster(r)
  PROVE  CreateHistory'
  <1> DEFINE c == reqs[r].id
             row == [clusters[c] EXCEPT !.state = "destroyed"]
  <1>1. Inv /\ TypeOK /\ CreateInv(r) /\ ReqInv(r)
    BY DEF CreateHistory, Inv
  <1>2. /\ reqs[r].pc = "destroy" /\ Goto(r, "done") /\ clusters' = [clusters EXCEPT ![c] = row]
        /\ UNCHANGED <<creds, keys, spawned, answers, disturbed, faults>>
    BY DEF DestroyCluster, history
  <1>3. c \in Request /\ clusters[c].state # "none"
    BY <1>1, <1>2 DEF ReqInv
  <1>4. row.state = "destroyed" /\ row.key = clusters[c].key /\ row.cred = clusters[c].cred
    BY <1>1, <1>3 DEF TypeOK, ClusterRow
  <1> HIDE DEF row, c
  <1>5. clusters'[c] = row /\ \A d \in Request \ {c} : clusters'[d] = clusters[d]
    BY <1>1, <1>2, <1>3, Zenon DEF TypeOK
  <1>6. /\ reqs'[r].pc = "done" /\ reqs'[r].key \notin Key
        /\ \A q \in Request \ {r} : reqs'[q] = reqs[q]
    BY <1>1, <1>2, GotoCarries, IntakeAssumption DEF Pc
  <1>7. \A d \in Credential : Exists(d)' <=> Exists(d)
    BY <1>2, Zenon DEF Exists
  <1> QED BY <1>2, <1>3, <1>4, <1>5, <1>6, <1>7, OtherStep, Zenon

\* A create arrives: its key is disturbed when another request carries it.
LEMMA CreateArrives ==
  ASSUME CreateHistory, Inv', NEW r \in Request, CreateCluster(r)
  PROVE  CreateHistory'
  <1>1. Inv /\ TypeOK /\ CreateInv(r)
    BY Zenon DEF CreateHistory, Inv
  <1>2. reqs[r].pc = "idle" /\ UNCHANGED <<creds, clusters, keys, spawned, answers, faults>>
    BY DEF CreateCluster, tables
  <1>3. PICK n \in Name, c \in Credential, k \in Key \cup {NoKey} :
          /\ Exists(c)
          /\ reqs' = [reqs EXCEPT ![r] = Call(IF k = NoKey THEN "insert" ELSE "lookup", "none", c, n, k)]
          /\ disturbed' = IF Overlaps(k) THEN disturbed \cup {k} ELSE disturbed
    BY Zenon DEF CreateCluster
  <1>4. /\ reqs'[r].pc = (IF k = NoKey THEN "insert" ELSE "lookup") /\ reqs'[r].id = c /\ reqs'[r].key = k
        /\ \A q \in Request \ {r} : reqs'[q] = reqs[q]
    BY <1>1, <1>3, Zenon DEF TypeOK, Call
  <1>5. \A d \in Credential : Exists(d)' <=> Exists(d)
    BY <1>2 DEF Exists
  <1>6. CreateInv(r)'
    <2>1. r \in Credential /\ ~Exists(r)
      BY <1>1, <1>2, Zenon DEF CreateInv, Credential
    <2>2. reqs'[r].pc \in {"insert", "lookup"}
      BY <1>4
    <2>3. creds'[reqs'[r].id].state # "none" /\ creds'[r].state = "none"
      BY <1>3, <1>4, <1>5, <2>1, Zenon DEF Exists
    <2> QED BY <2>2, <2>3, Zenon DEF CreateInv, Exists
  <1>7. ASSUME NEW j \in Key \ disturbed' PROVE KeyHistory(j)'
    <2>1. j \notin disturbed /\ (j = k => ~Overlaps(k))
      BY <1>3, <1>7
    <2>2. j = k => \A q \in Request : reqs[q].key # k
      BY <2>1 DEF CreateHistory, CreateInv, Overlaps, InFlight
    <2> QED BY <1>2, <1>4, <2>1, <2>2, KeyKept, IntakeAssumption, Zenon
  <1>8. disturbed \subseteq disturbed'
    BY <1>3
  <1> QED BY <1>2, <1>4, <1>5, <1>6, <1>7, <1>8, HistoryStep, Zenon

\* A dropped create disturbs its key.
LEMMA DropHistory ==
  ASSUME CreateHistory, Inv', NEW r \in Request, Drop(r)
  PROVE  CreateHistory'
  <1>1. Inv /\ TypeOK
    BY Zenon DEF CreateHistory, Inv
  <1>2. /\ Goto(r, "done") /\ faults' # 0 /\ disturbed' = disturbed \cup {reqs[r].key}
        /\ UNCHANGED <<creds, clusters, keys, spawned, answers>>
    BY <1>1 DEF Drop, tables, TypeOK
  <1>3. /\ reqs'[r].pc = "done" /\ reqs'[r].key \notin Key
        /\ \A q \in Request \ {r} : reqs'[q] = reqs[q]
    BY <1>1, <1>2, GotoCarries, IntakeAssumption, Zenon DEF Pc
  <1>4. CreateInv(r)'
    BY <1>3 DEF CreateInv
  <1>5. \A d \in Credential : Exists(d)' <=> Exists(d)
    BY <1>2, Zenon DEF Exists
  <1>6. \A k \in Key \ disturbed' : KeyHistory(k)'
    BY <1>2, <1>3, KeyKept, Zenon
  <1> QED BY <1>2, <1>3, <1>4, <1>5, <1>6, HistoryStep, Zenon

\* An undisturbed key is unused or fresh, and past its lookup a create has found
\* it unused.
LEMMA KeyState ==
  ASSUME CreateHistory, NEW k \in Key, k \notin disturbed
  PROVE  /\ KeyHistory(k) /\ keys[k].state \in {"none", "fresh"}
         /\ \A r \in Request : reqs[r].key = k /\ reqs[r].pc # "lookup" => keys[k].state = "none"
  <1>1. KeyHistory(k) /\ keys[k].state \in {"none", "fresh", "expired"}
    BY DEF CreateHistory, Inv, TypeOK, KeyRow
  <1> QED BY <1>1 DEF KeyHistory

\* lookup_idempotency goes on only when the key is not stored.
LEMMA LookupHistory ==
  ASSUME CreateHistory, Inv', NEW r \in Request, Lookup(r)
  PROVE  CreateHistory'
  <1> DEFINE k == reqs[r].key
             a == [name |-> reqs[r].name, cred |-> reqs[r].id, key |-> k, cluster |-> keys[k].cluster]
  <1>1. Inv /\ TypeOK /\ CreateInv(r) /\ ReqInv(r)
    BY DEF CreateHistory, Inv
  <1>2. /\ reqs[r].pc = "lookup" /\ UNCHANGED <<creds, clusters, keys, spawned, disturbed, faults>>
        /\ \/ keys[k].state # "fresh" /\ Goto(r, "insert") /\ answers' = answers
           \/ Goto(r, "done") /\ answers' = answers
           \/ keys[k].state = "fresh" /\ Goto(r, "done") /\ answers' = answers \cup {a}
    BY Zenon DEF Lookup, Accepted, tables
  <1>3. a.key = k /\ a.cluster = keys[k].cluster
    OBVIOUS
  <1>4. /\ \A q \in Request \ {r} : reqs'[q] = reqs[q]
        /\ \/ reqs'[r].pc = "done" /\ reqs'[r].key \notin Key
           \/ /\ keys[k].state # "fresh" /\ reqs'[r].pc = "insert"
              /\ reqs'[r].key = k /\ reqs'[r].id = reqs[r].id
    BY <1>1, <1>2, GotoCarries, IntakeAssumption, Zenon DEF Pc
  <1>5. \A d \in Credential : Exists(d)' <=> Exists(d)
    BY <1>2, Zenon DEF Exists
  <1>6. CreateInv(r)'
    <2>1. r \in Credential /\ reqs[r].id \in Credential /\ ~Exists(r) /\ Exists(reqs[r].id)
      BY <1>1, <1>2 DEF CreateInv, Credential, TypeOK, Req
    <2> QED BY <1>4, <1>5, <2>1, Zenon DEF CreateInv
  <1> HIDE DEF a
  <1>7. ASSUME NEW j \in Key \ disturbed' PROVE KeyHistory(j)'
    <2>1. j \notin disturbed /\ keys[j].state \in {"none", "fresh"}
      BY <1>2, <1>7, KeyState, Zenon
    <2>2. \A b \in answers' : b.key = j => b \in answers \/ (keys[j].state = "fresh" /\ b.cluster = keys[j].cluster)
      BY <1>2, <1>3, Zenon
    <2> QED BY <1>2, <1>4, <2>1, <2>2, KeyKept, Zenon
  <1> QED BY <1>2, <1>4, <1>5, <1>6, <1>7, HistoryStep, Zenon

\* The row that a create inserts carries its key and its credential.
LEMMA InsertHistory ==
  ASSUME CreateHistory, Inv', NEW r \in Request, InsertCluster(r)
  PROVE  CreateHistory'
  <1> DEFINE row == [state |-> "live", name |-> reqs[r].name, cred |-> reqs[r].id, key |-> reqs[r].key]
  <1>1. Inv /\ TypeOK /\ CreateInv(r) /\ ReqInv(r)
    BY DEF CreateHistory, Inv
  <1>2. /\ reqs[r].pc = "insert" /\ UNCHANGED <<creds, keys, spawned, answers, disturbed, faults>>
        /\ \/ clusters' = clusters /\ Goto(r, "done")
           \/ clusters' = [clusters EXCEPT ![r] = row] /\ Goto(r, "resolve")
    BY Zenon DEF InsertCluster, history
  <1>3. row.key = reqs[r].key /\ clusters[r].state = "none"
    BY <1>1, <1>2 DEF ReqInv
  <1> HIDE DEF row
  <1>4. /\ \A q \in Request \ {r} : reqs'[q] = reqs[q] /\ clusters'[q] = clusters[q]
        /\ \/ reqs'[r].pc = "done" /\ reqs'[r].key \notin Key /\ clusters' = clusters
           \/ /\ reqs'[r].pc = "resolve" /\ clusters'[r] = row
              /\ reqs'[r].key = reqs[r].key /\ reqs'[r].id = reqs[r].id
    BY <1>1, <1>2, GotoCarries, IntakeAssumption, Zenon DEF Pc, TypeOK
  <1>5. \A d \in Credential : Exists(d)' <=> Exists(d)
    BY <1>2, Zenon DEF Exists
  <1>6. CreateInv(r)'
    <2>1. r \in Credential /\ reqs[r].id \in Credential /\ ~Exists(r) /\ Exists(reqs[r].id)
      BY <1>1, <1>2 DEF CreateInv, Credential, TypeOK, Req
    <2> QED BY <1>3, <1>4, <1>5, <2>1, Zenon DEF CreateInv
  <1>7. ASSUME NEW j \in Key \ disturbed' PROVE KeyHistory(j)'
    <2>1. j \notin disturbed /\ (reqs[r].key = j => keys[j].state = "none")
      BY <1>2, <1>7, KeyState, Zenon
    <2> QED BY <1>2, <1>3, <1>4, <2>1, KeyKept, Zenon
  <1> QED BY <1>2, <1>3, <1>4, <1>5, <1>6, <1>7, HistoryStep, Zenon

\* spawn_provision: nothing was provisioned for the key before, and a create that
\* does not provision found its credential removed.
LEMMA SpawnHistory ==
  ASSUME CreateHistory, Inv', NEW r \in Request, Spawn(r)
  PROVE  CreateHistory'
  <1> DEFINE k == reqs[r].key
             live == creds[reqs[r].id].state = "live"
             a == [name |-> reqs[r].name, cred |-> reqs[r].id, key |-> k, cluster |-> r]
  <1>1. Inv /\ TypeOK /\ CreateInv(r) /\ ReqInv(r)
    BY DEF CreateHistory, Inv
  <1>2. /\ reqs[r].pc = "resolve" /\ UNCHANGED <<creds, clusters, keys, disturbed, faults>>
        /\ \/ live /\ spawned' = spawned \cup {r} /\ k = NoKey /\ Goto(r, "done") /\ answers' = answers \cup {a}
           \/ live /\ spawned' = spawned \cup {r} /\ k # NoKey /\ Goto(r, "store") /\ answers' = answers
           \/ ~live /\ spawned' = spawned /\ Goto(r, "done") /\ answers' = answers
    BY Zenon DEF Spawn, Accepted, tables
  <1>3. clusters[r].state # "none" /\ clusters[r].key = k /\ reqs[r].id \in Credential /\ k \in Key \cup {NoKey}
    BY <1>1, <1>2, Zenon DEF ReqInv, CreateInv, TypeOK, Req
  <1>4. ~live => creds[reqs[r].id].state = "deleted"
    BY <1>1, <1>2, <1>3 DEF CreateInv, Exists, TypeOK, CredentialRow
  <1>5. a.key = k
    BY Zenon
  <1> HIDE DEF a, live
  <1>6. /\ \A q \in Request \ {r} : reqs'[q] = reqs[q]
        /\ \/ reqs'[r].pc = "done" /\ reqs'[r].key \notin Key /\ (~live \/ k = NoKey)
           \/ reqs'[r].pc = "store" /\ reqs'[r].key = k /\ live
    BY <1>1, <1>2, GotoCarries, IntakeAssumption, Zenon DEF Pc
  <1>7. \A d \in Credential : Exists(d)' <=> Exists(d)
    BY <1>2, Zenon DEF Exists
  <1>8. CreateInv(r)'
    <2>1. r \in Credential /\ ~Exists(r)
      BY <1>1, <1>2 DEF CreateInv, Credential
    <2> QED BY <1>2, <1>3, <1>6, <1>7, <2>1, Zenon DEF CreateInv
  <1>9. ASSUME NEW j \in Key \ disturbed' PROVE KeyHistory(j)'
    <2>1. KeyHistory(j) /\ (k = j => keys[j].state = "none")
      BY <1>2, <1>9, KeyState, Zenon
    <2>2. \A b \in answers' : b.key = j => b \in answers
      BY <1>2, <1>5, IntakeAssumption, Zenon
    <2>3. \A q, p \in Request : reqs'[q].key = j /\ reqs'[p].key = j => q = p
      <3>1. \A q, p \in Request : reqs[q].key = j /\ reqs[p].key = j => q = p
        BY <2>1, Zenon DEF KeyHistory
      <3> QED BY <1>6, <3>1, Zenon
    <2>4. ASSUME NEW c \in spawned', clusters'[c].key = j
          PROVE  \/ keys'[j].state = "none" /\ reqs'[c].pc = "store" /\ reqs'[c].key = j
                 \/ keys'[j].state = "fresh" /\ c = keys'[j].cluster
      <3>1. CASE c = r
        <4>1. k = j /\ keys[j].state = "none" /\ k # NoKey
          BY <1>2, <1>3, <2>1, <2>4, <3>1, IntakeAssumption, Zenon
        <4>2. live
          <5>1. SUFFICES ASSUME ~live PROVE FALSE
            BY Zenon
          <5>2. r \in spawned /\ clusters[r].key = j
            BY <1>2, <2>4, <3>1, <5>1
          <5> QED BY <1>2, <2>1, <4>1, <5>2 DEF KeyHistory
        <4> QED BY <1>2, <1>6, <3>1, <4>1, <4>2, Zenon
      <3>2. CASE c # r
        <4>1. c \in spawned /\ c \in Request /\ reqs'[c] = reqs[c]
          BY <1>1, <1>2, <1>6, <2>4, <3>2, Zenon DEF TypeOK
        <4> QED BY <1>2, <2>1, <2>4, <4>1, Zenon DEF KeyHistory
      <3> QED BY <3>1, <3>2, Zenon
    <2>5. \A q \in Request : reqs'[q].key = j /\ keys[j].state = "fresh" => reqs'[q].pc = "lookup"
      BY <1>6, <2>1, Zenon DEF KeyHistory
    <2> QED BY <1>2, <2>1, <2>2, <2>3, <2>4, <2>5, Zenon DEF KeyHistory
  <1>10. faults' # 0 \/ r \in spawned' \/ creds'[reqs[r].id].state = "deleted"
    BY <1>2, <1>4
  <1> QED BY <1>2, <1>3, <1>6, <1>7, <1>8, <1>9, <1>10, HistoryStep, Zenon

\* store_idempotency: the key names what was provisioned for it.
LEMMA StoreHistory ==
  ASSUME CreateHistory, Inv', NEW r \in Request, StoreKey(r)
  PROVE  CreateHistory'
  <1> DEFINE k == reqs[r].key
             row == [state |-> "fresh", name |-> reqs[r].name, cred |-> reqs[r].id, cluster |-> r]
             a == [name |-> reqs[r].name, cred |-> reqs[r].id, key |-> k, cluster |-> r]
  <1>1. Inv /\ TypeOK /\ CreateInv(r) /\ ReqInv(r)
    BY DEF CreateHistory, Inv
  <1>2. /\ reqs[r].pc = "store" /\ Goto(r, "done") /\ answers' = answers \cup {a}
        /\ UNCHANGED <<creds, clusters, spawned, disturbed, faults>>
    BY DEF StoreKey, Accepted
  <1>3. k \in Key
    BY <1>1, <1>2, Zenon DEF ReqInv
  <1>4. /\ keys[k].state = "none" => keys'[k] = row
        /\ \A j \in Key \ {k} : keys'[j] = keys[j]
    BY <1>1, <1>3, Zenon DEF StoreKey, TypeOK
  <1>5. row.state = "fresh" /\ row.cluster = r /\ a.key = k /\ a.cluster = r
    BY Zenon
  <1> HIDE DEF a, row
  <1>6. /\ reqs'[r].pc = "done" /\ reqs'[r].key \notin Key
        /\ \A q \in Request \ {r} : reqs'[q] = reqs[q]
    BY <1>1, <1>2, GotoCarries, IntakeAssumption DEF Pc
  <1>7. CreateInv(r)'
    BY <1>6 DEF CreateInv
  <1>8. \A d \in Credential : Exists(d)' <=> Exists(d)
    BY <1>2 DEF Exists
  <1>9. ASSUME NEW j \in Key \ disturbed', j # k PROVE KeyHistory(j)'
    <2>1. j \notin disturbed /\ \A b \in answers' : b.key = j => b \in answers
      BY <1>2, <1>5, <1>9
    <2> QED BY <1>2, <1>4, <1>6, <1>9, <2>1, KeyKept, Zenon
  <1>10. ASSUME NEW j \in Key \ disturbed', j = k PROVE KeyHistory(j)'
    <2>1. KeyHistory(j) /\ keys[j].state = "none" /\ spawned \subseteq Request
      BY <1>1, <1>2, <1>10, KeyState, Zenon DEF TypeOK
    <2>2. keys'[j].state = "fresh" /\ keys'[j].cluster = r
      BY <1>4, <1>5, <1>10, <2>1, Zenon
    <2>3. \A q \in Request : reqs'[q].key # j
      BY <1>6, <1>10, <2>1, Zenon DEF KeyHistory
    <2>4. \A c \in spawned' : clusters'[c].key = j => c = r
      BY <1>2, <1>10, <2>1, Zenon DEF KeyHistory
    <2>5. \A b \in answers' : b.key = j => b.cluster = r
      BY <1>2, <1>5, <2>1 DEF KeyHistory
    <2> QED BY <2>2, <2>3, <2>4, <2>5, Zenon DEF KeyHistory
  <1>11. \A j \in Key \ disturbed' : KeyHistory(j)'
    BY <1>9, <1>10, Zenon
  <1> QED BY <1>2, <1>6, <1>7, <1>8, <1>11, HistoryStep, Zenon

\* A key that expires is disturbed.
LEMMA ExpireHistory ==
  ASSUME CreateHistory, Inv', NEW k \in Key, Expire(k)
  PROVE  CreateHistory'
  <1>1. TypeOK
    BY DEF CreateHistory, Inv
  <1>2. /\ disturbed' = disturbed \cup {k} /\ \A j \in Key \ {k} : keys'[j] = keys[j]
        /\ UNCHANGED <<creds, clusters, spawned, reqs, answers, faults>>
    BY <1>1 DEF Expire, TypeOK
  <1>3. ASSUME NEW j \in Key \ disturbed' PROVE KeyHistory(j)'
    BY <1>2, <1>3, SMTT(30) DEF CreateHistory, KeyHistory
  <1>4. \A r \in Request : CreateInv(r)' /\ (Started(r)' <=> Started(r))
    BY <1>2, Zenon DEF CreateHistory, CreateInv, Exists, Started
  <1> QED BY <1>2, <1>3, <1>4, Zenon DEF CreateHistory

\* CreateHistory is an invariant.
LEMMA HistoryHolds == Spec => []CreateHistory
  <1>1. CreateHistory /\ [Next]_vars => CreateHistory'
    <2> SUFFICES ASSUME CreateHistory, [Next]_vars PROVE CreateHistory'
      OBVIOUS
    <2>1. Inv'
      BY NextInv DEF CreateHistory
    <2>2. ASSUME NEW r \in Request,
                 \/ AddCredential(r) \/ RemoveCredential(r) \/ RemoveCluster(r)
                 \/ GetForRemoval(r) \/ FindForDestroy(r) \/ Cleanup(r) \/ EraseSecret(r) \/ PutSecret(r)
          PROVE  CreateHistory'
      BY <2>1, <2>2, OtherReads
    <2>3. ASSUME NEW r \in Request, InsertCredential(r) \/ InsertFails(r) \/ SoftDelete(r)
          PROVE  CreateHistory'
      BY <2>1, <2>3, OtherWrites
    <2>4. ASSUME NEW r \in Request, DestroyCluster(r) PROVE CreateHistory'
      BY <2>1, <2>4, DestroyHistory
    <2>5. ASSUME NEW r \in Request, CreateCluster(r) PROVE CreateHistory'
      BY <2>1, <2>5, CreateArrives, Zenon
    <2>6. ASSUME NEW r \in Request, Drop(r) PROVE CreateHistory'
      BY <2>1, <2>6, DropHistory
    <2>7. ASSUME NEW r \in Request, Lookup(r) PROVE CreateHistory'
      BY <2>1, <2>7, LookupHistory
    <2>8. ASSUME NEW r \in Request, InsertCluster(r) PROVE CreateHistory'
      BY <2>1, <2>8, InsertHistory
    <2>9. ASSUME NEW r \in Request, Spawn(r) PROVE CreateHistory'
      BY <2>1, <2>9, SpawnHistory
    <2>10. ASSUME NEW r \in Request, StoreKey(r) PROVE CreateHistory'
      BY <2>1, <2>10, StoreHistory
    <2>11. ASSUME NEW k \in Key, Expire(k) PROVE CreateHistory'
      BY <2>1, <2>11, ExpireHistory
    <2>12. CASE UNCHANGED vars
      BY <2>1, <2>12, SMTT(30) DEF CreateHistory, CreateInv, KeyHistory, Started, Exists, vars, tables, history
    <2> QED BY <2>2, <2>3, <2>4, <2>5, <2>6, <2>7, <2>8, <2>9, <2>10, <2>11, <2>12, Zenon DEF Next
  <1> QED BY <1>1, InitHistory, PTL DEF Spec

\* lookup_idempotency and store_idempotency: for any bodies, keys and requests, the
\* requests of a key that neither overlap nor are dropped before it expires
\* provision one cluster at most, which every 202 names.
THEOREM KeyOnce == Spec => []KeyProvisionsOnce
  <1>1. CreateHistory => KeyProvisionsOnce
    <2> SUFFICES ASSUME CreateHistory, NEW k \in Key \ disturbed
                 PROVE  Cardinality({c \in spawned : clusters[c].key = k}
                          \cup {a.cluster : a \in {b \in answers : b.key = k}}) <= 1
      BY DEF KeyProvisionsOnce
    <2> DEFINE S == {c \in spawned : clusters[c].key = k} \cup {a.cluster : a \in {b \in answers : b.key = k}}
    <2>1. KeyHistory(k) /\ spawned \subseteq Request
      BY Zenon DEF CreateHistory, Inv, TypeOK
    <2>2. \A x, y \in S : x = y
      <3>1. CASE keys[k].state = "fresh"
        <4>1. \A x \in S : x = keys[k].cluster
          BY <2>1, <3>1, Zenon DEF KeyHistory
        <4> QED BY <4>1
      <3>2. CASE keys[k].state # "fresh"
        <4>1. \A x \in S : x \in Request /\ reqs[x].key = k
          BY <2>1, <3>2 DEF KeyHistory
        <4> QED BY <2>1, <4>1, Zenon DEF KeyHistory
      <3> QED BY <3>1, <3>2
    <2> HIDE DEF S
    <2>3. S = {} \/ \E x : S = {x}
      <3>1. ASSUME NEW x \in S PROVE S = {x}
        BY <2>2
      <3> QED BY <3>1
    <2>4. Cardinality(S) <= 1
      <3>1. CASE S = {}
        <4>1. Cardinality(S) = 0
          BY <3>1, FS_EmptySet
        <4> QED BY <4>1
      <3>2. ASSUME NEW x, S = {x} PROVE Cardinality(S) <= 1
        <4>1. Cardinality(S) = 1
          BY <3>2, FS_Singleton
        <4> QED BY <4>1
      <3> QED BY <2>3, <3>1, <3>2
    <2> QED BY <2>4 DEF S
  <1> QED BY <1>1, HistoryHolds, PTL

\* Spawn: with nothing in flight and nothing dropped or failed, a live cluster was
\* handed to spawn_provision, or its credential was removed under the create.
THEOREM OnlyRemovedStrand == Spec => []OnlyRemovedCredentialsStrand
  <1>1. CreateHistory => OnlyRemovedCredentialsStrand
    BY DEF CreateHistory, Started, OnlyRemovedCredentialsStrand, Quiet, InFlight
  <1> QED BY <1>1, HistoryHolds, PTL

-----------------------------------------------------------------------------
(* SecretInv *)

\* What a step of one request must respect to keep SecretInv: credential rows stay,
\* and its own secret is stored, inserted or cleaned up in time.
LEMMA OwnedStep ==
  ASSUME SecretInv, NEW r \in Request, \A q \in Request \ {r} : reqs'[q] = reqs[q],
         \A c \in Credential : Exists(c) => Exists(c)', secrets' \subseteq Credential,
         disturbed \subseteq disturbed', secrets' \subseteq secrets \cup {r},
         NoKey \notin disturbed' /\ r \in secrets' => Owned(r)'
  PROVE  SecretInv'
  <1> SUFFICES ASSUME NoKey \notin disturbed', NEW c \in secrets' PROVE Owned(c)'
    BY DEF SecretInv
  <1>1. CASE c = r
    BY <1>1
  <1>2. CASE c # r
    <2>1. Owned(c) /\ c \in Credential /\ (c \in Request => reqs'[c] = reqs[c])
      BY <1>2, Zenon DEF SecretInv
    <2> QED BY <2>1, Zenon DEF Owned
  <1> QED BY <1>1, <1>2

\* A request that is not about to insert a credential leaves the secrets alone.
LEMMA OwnedQuiet ==
  ASSUME Inv, SecretInv, NEW r \in Request,
         \/ AddCredential(r) \/ RemoveCredential(r) \/ RemoveCluster(r) \/ CreateCluster(r)
         \/ GetForRemoval(r) \/ FindForDestroy(r) \/ Lookup(r) \/ InsertCluster(r) \/ Spawn(r)
         \/ StoreKey(r) \/ DestroyCluster(r)
  PROVE  SecretInv'
  <1>1. /\ secrets' = secrets /\ creds' = creds /\ reqs[r].pc \notin {"link", "cleanup"}
        /\ disturbed \subseteq disturbed'
    BY DEF AddCredential, RemoveCredential, RemoveCluster, CreateCluster, GetForRemoval,
           FindForDestroy, Lookup, InsertCluster, Spawn, StoreKey, DestroyCluster, tables, history
  <1>2. PICK x : reqs' = [reqs EXCEPT ![r] = x]
    BY Zenon DEF AddCredential, RemoveCredential, RemoveCluster, CreateCluster, GetForRemoval,
           FindForDestroy, Lookup, InsertCluster, Spawn, StoreKey, DestroyCluster, Goto
  <1>3. \A q \in Request \ {r} : reqs'[q] = reqs[q]
    BY <1>2 DEF Inv, TypeOK
  <1>4. \A c \in Credential : Exists(c) => Exists(c)'
    BY <1>1 DEF Exists
  <1>5. NoKey \notin disturbed' /\ r \in secrets' => Owned(r)'
    BY <1>1, <1>4 DEF SecretInv, Owned, Credential
  <1>6. secrets' \subseteq Credential
    BY <1>1 DEF Inv, TypeOK
  <1> QED BY <1>1, <1>3, <1>4, <1>5, <1>6, OwnedStep, Zenon

\* The statements on secrets and credentials, and a handler that is dropped.
LEMMA OwnedMoves ==
  ASSUME CreateHistory, Inv', SecretInv, NEW r \in Request,
         \/ PutSecret(r) \/ InsertCredential(r) \/ InsertFails(r) \/ Cleanup(r)
         \/ SoftDelete(r) \/ EraseSecret(r) \/ Drop(r)
  PROVE  SecretInv'
  <1>1. Inv /\ TypeOK /\ ReqInv(r) /\ CreateInv(r) /\ r \in Credential /\ reqs[r].id \in Credential
    BY Zenon DEF CreateHistory, Inv, TypeOK, Req, Credential
  <1>2. PICK pc \in Pc : Goto(r, pc)
    BY DEF PutSecret, InsertCredential, InsertFails, Cleanup, SoftDelete, EraseSecret, Drop, Pc
  <1>3. reqs'[r].pc = pc /\ \A q \in Request \ {r} : reqs'[q] = reqs[q]
    BY <1>1, <1>2, GotoCarries
  <1>4. secrets' \subseteq Credential /\ disturbed \subseteq disturbed'
    BY DEF Inv, TypeOK, PutSecret, InsertCredential, InsertFails, Cleanup, SoftDelete, EraseSecret,
           Drop, history
  <1>5. \A c \in Credential : Exists(c) => Exists(c)'
    <2>1. CASE creds' = creds
      BY <2>1 DEF Exists
    <2>2. CASE creds' = [creds EXCEPT ![r] = [state |-> "live", alias |-> reqs[r].alias]]
      BY <1>1, <2>2 DEF Exists, TypeOK
    <2>3. CASE creds' = [creds EXCEPT ![reqs[r].id].state = "deleted"]
      BY <1>1, <2>3, SMTT(30) DEF Exists, TypeOK, CredentialRow
    <2> QED BY <2>1, <2>2, <2>3
          DEF PutSecret, InsertCredential, InsertFails, Cleanup, SoftDelete, EraseSecret, Drop, tables
  <1>6. secrets' \subseteq secrets \cup {r}
    BY DEF PutSecret, InsertCredential, InsertFails, Cleanup, SoftDelete, EraseSecret, Drop,
           tables, Without
  <1>7. ASSUME NoKey \notin disturbed', r \in secrets' PROVE Owned(r)'
    <2>1. CASE PutSecret(r)
      <3>1. reqs'[r].pc = "link"
        BY <1>1, <2>1, GotoCarries DEF PutSecret, Pc
      <3> QED BY <3>1 DEF Owned
    <2>2. CASE InsertFails(r) \/ (InsertCredential(r) /\ Taken(reqs[r].alias))
      <3>1. reqs'[r].pc = "cleanup"
        BY <1>1, <2>2, GotoCarries DEF InsertFails, InsertCredential, Pc
      <3> QED BY <3>1 DEF Owned
    <2>3. CASE InsertCredential(r) /\ ~Taken(reqs[r].alias)
      BY <1>1, <2>3 DEF InsertCredential, Owned, Exists, TypeOK
    <2>4. CASE Cleanup(r)
      <3>1. Exists(r)
        BY <1>7, <2>4 DEF Cleanup, Without
      <3> QED BY <1>1, <1>5, <3>1 DEF Owned
    <2>5. CASE SoftDelete(r) \/ EraseSecret(r)
      <3>1. r \in secrets /\ NoKey \notin disturbed /\ reqs[r].pc \notin {"link", "cleanup"}
        BY <1>4, <1>7, <2>5 DEF SoftDelete, EraseSecret, Without
      <3> QED BY <1>1, <1>5, <3>1, Zenon DEF SecretInv, Owned
    <2>6. CASE Drop(r)
      <3>1. r \in secrets /\ NoKey \notin disturbed /\ reqs[r].key # NoKey
        BY <1>7, <2>6 DEF Drop, tables
      <3>2. reqs[r].key \in Key \cup {NoKey}
        BY <1>1, Zenon DEF TypeOK, Req
      <3>3. reqs[r].pc \notin {"link", "cleanup"}
        BY <1>1, <3>1, <3>2 DEF CreateInv
      <3> QED BY <1>1, <1>5, <3>1, <3>3, Zenon DEF SecretInv, Owned
    <2> QED BY <2>1, <2>2, <2>3, <2>4, <2>5, <2>6
  <1> QED BY <1>3, <1>4, <1>5, <1>6, <1>7, OwnedStep, Zenon

\* HetznerCredentialService::create and delete: for any number of requests and
\* faults, a live credential has its token, and a secret without a credential row
\* has a create in flight that will clean it up, or one that was dropped.
THEOREM SecretsOwned == Spec => []NoOrphans
  <1>1. Init => SecretInv
    BY DEF Init, SecretInv, Owned, Exists, Credential
  <1>2. CreateHistory /\ SecretInv /\ [Next]_vars => SecretInv'
    <2> SUFFICES ASSUME CreateHistory, SecretInv, [Next]_vars PROVE SecretInv'
      OBVIOUS
    <2>1. Inv /\ Inv'
      BY NextInv DEF CreateHistory
    <2>2. CASE UNCHANGED vars \/ \E k \in Key : Expire(k)
      <3>1. UNCHANGED <<secrets, creds, reqs>> /\ disturbed \subseteq disturbed'
        BY <2>2 DEF vars, tables, history, Expire
      <3> QED BY <3>1, Zenon DEF SecretInv, Owned, Exists
    <2> QED BY <2>1, <2>2, OwnedQuiet, OwnedMoves DEF Next
  <1>3. CreateHistory /\ SecretInv => NoOrphans
    <2> SUFFICES ASSUME CreateHistory, SecretInv PROVE NoOrphans
      OBVIOUS
    <2>1. \A c \in Credential : creds[c].state = "live" => c \in secrets
      BY DEF CreateHistory, Inv, ReferencesHold, Exists
    <2>2. ASSUME NoKey \notin disturbed, NEW c \in secrets
          PROVE  Exists(c) \/ (c \in Request /\ InFlight(c))
      BY <2>2 DEF SecretInv, Owned, InFlight
    <2> QED BY <2>1, <2>2 DEF NoOrphans
  <1> QED BY <1>1, <1>2, <1>3, HistoryHolds, PTL DEF Spec
=============================================================================
