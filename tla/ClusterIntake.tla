---------------------------- MODULE ClusterIntake ---------------------------
(***************************************************************************)
(* What happens before a provision run starts, for one organization: the   *)
(* Hetzner credentials (HetznerCredentialService over `secrets` and        *)
(* `hetzner_credentials`) and POST /v1/clusters with its Idempotency-Key.  *)
(* Every repository or store call is a transaction of its own, so requests *)
(* interleave between them and may be dropped between them.                *)
(*                                                                         *)
(* A request makes one secret, one credential or one cluster at most, which *)
(* is named after it.  The body of a create is its name and credential.    *)
(***************************************************************************)
EXTENDS Integers, FiniteSets

CONSTANTS
    Request,     \* bound: HTTP requests, each made once
    Seed,        \* a credential stored earlier
    Alias,       \* aliases of credentials
    Name,        \* cluster names, for a whole body but its credential
    Allowed,     \* bodies that validate_allowed accepts
    Key, NoKey,  \* values of the Idempotency-Key header; no header
    MaxFaults    \* bound on failed statements and dropped handlers

ASSUME IntakeAssumption ==
    /\ Seed \notin Request /\ NoKey \notin Key
    /\ MaxFaults \in Nat

VARIABLES
    secrets,    \* rows of `secrets`
    creds,      \* rows of `hetzner_credentials`
    clusters,   \* rows of `clusters`
    keys,       \* rows of `idempotency_keys`
    spawned,    \* clusters handed to spawn_provision
    reqs,       \* the requests
    answers,    \* history: the 202 answers of create
    disturbed,  \* history: keys of overlapping or dropped requests, expired keys;
                \* NoKey once a request without one was dropped
    faults

tables == <<secrets, creds, clusters, keys>>
history == <<answers, disturbed>>
vars == <<tables, spawned, reqs, history, faults>>

Credential == Request \cup {Seed}
Gone == [state |-> "none", alias |-> "none"]
NoCluster == [state |-> "none", name |-> "none", cred |-> Seed, key |-> NoKey]
NoRow == [state |-> "none", name |-> "none", cred |-> Seed, cluster |-> Seed]
\* `id` is the credential of a create or a removal, the cluster of a destroy.
Call(pc, alias, id, name, key) ==
    [pc |-> pc, alias |-> alias, id |-> id, name |-> name, key |-> key]
Idle == Call("idle", "none", Seed, "none", NoKey)
Done == Call("done", "none", Seed, "none", NoKey)

CredentialRow == [state : {"none", "live", "deleted"}, alias : Alias \cup {"none"}]
ClusterRow == [state : {"none", "live", "destroyed"}, name : Name \cup {"none"},
               cred : Credential, key : Key \cup {NoKey}]
KeyRow == [state : {"none", "fresh", "expired"}, name : Name \cup {"none"},
           cred : Credential, cluster : Credential]
Pc == {"idle", "put", "link", "cleanup", "get", "retire", "erase",
       "lookup", "insert", "resolve", "store", "find", "destroy", "done"}
Req == [pc : Pc, alias : Alias \cup {"none"}, id : Credential,
        name : Name \cup {"none"}, key : Key \cup {NoKey}]
Answer == [name : Name, cred : Credential, key : Key \cup {NoKey}, cluster : Request]

TypeOK ==
    /\ secrets \subseteq Credential
    /\ creds \in [Credential -> CredentialRow]
    /\ clusters \in [Request -> ClusterRow]
    /\ keys \in [Key -> KeyRow]
    /\ spawned \subseteq Request
    /\ reqs \in [Request -> Req]
    /\ answers \subseteq Answer
    /\ disturbed \subseteq Key \cup {NoKey}
    /\ faults \in 0..MaxFaults

Init ==
    /\ secrets = {Seed}
    /\ \E a \in Alias : creds = [c \in Credential |->
                                   IF c = Seed THEN [state |-> "live", alias |-> a] ELSE Gone]
    /\ clusters = [c \in Request |-> NoCluster] /\ keys = [k \in Key |-> NoRow]
    /\ spawned = {} /\ reqs = [r \in Request |-> Idle]
    /\ answers = {} /\ disturbed = {} /\ faults = 0

Exists(c) == creds[c].state # "none"
InFlight(r) == reqs[r].pc \notin {"idle", "done"}
Goto(r, pc) == reqs' = [reqs EXCEPT ![r] = IF pc = "done" THEN Done ELSE [reqs[r] EXCEPT !.pc = pc]]

-----------------------------------------------------------------------------
\* The routes.  A credential is removed or named by the id it once had.
AddCredential(r) ==
    /\ reqs[r].pc = "idle"
    /\ \E a \in Alias : reqs' = [reqs EXCEPT ![r] = Call("put", a, Seed, "none", NoKey)]
    /\ UNCHANGED <<tables, spawned, history, faults>>

RemoveCredential(r) ==
    /\ reqs[r].pc = "idle"
    /\ \E c \in Credential : Exists(c) /\
         reqs' = [reqs EXCEPT ![r] = Call("get", "none", c, "none", NoKey)]
    /\ UNCHANGED <<tables, spawned, history, faults>>

Overlaps(k) == k \in Key /\ \E r \in Request : InFlight(r) /\ reqs[r].key = k

CreateCluster(r) ==
    /\ reqs[r].pc = "idle"
    /\ \E n \in Name, c \in Credential, k \in Key \cup {NoKey} :
         /\ Exists(c)
         /\ reqs' = [reqs EXCEPT ![r] =
                      Call(IF k = NoKey THEN "insert" ELSE "lookup", "none", c, n, k)]
         /\ disturbed' = IF Overlaps(k) THEN disturbed \cup {k} ELSE disturbed
    /\ UNCHANGED <<tables, spawned, answers, faults>>

RemoveCluster(r) ==
    /\ reqs[r].pc = "idle"
    /\ \E c \in Request : clusters[c].state # "none" /\
         reqs' = [reqs EXCEPT ![r] = Call("find", "none", c, "none", NoKey)]
    /\ UNCHANGED <<tables, spawned, history, faults>>

\* A statement fails where the code says `?`, or the handler is dropped between
\* two calls (client gone, 30 s timeout).
Drop(r) ==
    /\ InFlight(r) /\ faults < MaxFaults /\ faults' = faults + 1
    /\ disturbed' = disturbed \cup {reqs[r].key}
    /\ Goto(r, "done")
    /\ UNCHANGED <<tables, spawned, answers>>

-----------------------------------------------------------------------------
(* HetznerCredentialService::create and delete *)

PutSecret(r) ==
    /\ reqs[r].pc = "put"
    /\ secrets' = secrets \cup {r}
    /\ Goto(r, "link")
    /\ UNCHANGED <<creds, clusters, keys, spawned, history, faults>>

\* hetzner_credentials_org_alias_idx.
Taken(a) == \E c \in Credential : creds[c] = [state |-> "live", alias |-> a]

\* Mutant of InsertCredential: a conflict ends the request.
InsertEnds(r) ==
    /\ reqs[r].pc = "link"
    /\ creds' = IF Taken(reqs[r].alias) THEN creds
                ELSE [creds EXCEPT ![r] = [state |-> "live", alias |-> reqs[r].alias]]
    /\ Goto(r, "done")
    /\ UNCHANGED <<secrets, clusters, keys, spawned, history, faults>>

\* INSERT; an alias in use is a conflict.
InsertCredential(r) ==
    /\ reqs[r].pc = "link"
    /\ creds' = IF Taken(reqs[r].alias) THEN creds
                ELSE [creds EXCEPT ![r] = [state |-> "live", alias |-> reqs[r].alias]]
    /\ Goto(r, IF Taken(reqs[r].alias) THEN "cleanup" ELSE "done")
    /\ UNCHANGED <<secrets, clusters, keys, spawned, history, faults>>

\* The insert returns an error, before or after its transaction committed.
InsertFails(r) ==
    /\ reqs[r].pc = "link" /\ faults < MaxFaults /\ faults' = faults + 1
    /\ \/ UNCHANGED creds
       \/ ~Taken(reqs[r].alias)
          /\ creds' = [creds EXCEPT ![r] = [state |-> "live", alias |-> reqs[r].alias]]
    /\ Goto(r, "cleanup")
    /\ UNCHANGED <<secrets, clusters, keys, spawned, history>>

\* SecretStore::delete in one transaction: secret_id REFERENCES secrets ON
\* DELETE RESTRICT, and a soft-deleted credential still refers to its secret.
Without(c) == IF Exists(c) THEN secrets ELSE secrets \ {c}

\* The cleanup of create; a failure is only logged.
Cleanup(r) ==
    /\ reqs[r].pc = "cleanup"
    /\ secrets' = Without(r)
    /\ Goto(r, "done")
    /\ UNCHANGED <<creds, clusters, keys, spawned, history, faults>>

GetForRemoval(r) ==
    /\ reqs[r].pc = "get"
    /\ Goto(r, IF creds[reqs[r].id].state = "live" THEN "retire" ELSE "done")
    /\ UNCHANGED <<tables, spawned, history, faults>>

\* UPDATE ... WHERE deleted_at IS NULL; no row is 404.
SoftDelete(r) ==
    LET c == reqs[r].id IN
    /\ reqs[r].pc = "retire"
    /\ creds' = [creds EXCEPT ![c].state = "deleted"]
    /\ Goto(r, IF creds[c].state = "live" THEN "erase" ELSE "done")
    /\ UNCHANGED <<secrets, clusters, keys, spawned, history, faults>>

\* The secret is deleted afterwards; a refusal is only logged.
EraseSecret(r) ==
    /\ reqs[r].pc = "erase"
    /\ secrets' = Without(reqs[r].id)
    /\ Goto(r, "done")
    /\ UNCHANGED <<creds, clusters, keys, spawned, history, faults>>

-----------------------------------------------------------------------------
(* POST /v1/clusters *)

Accepted(r, cluster) ==
    answers' = answers \cup
        {[name |-> reqs[r].name, cred |-> reqs[r].id, key |-> reqs[r].key, cluster |-> cluster]}

SameBody(r, row) == row.name = reqs[r].name /\ row.cred = reqs[r].id

\* Mutant of Lookup: the stored hash is not compared.
LookupAnyBody(r) ==
    LET row == keys[reqs[r].key] IN
    /\ reqs[r].pc = "lookup"
    /\ \/ row.state # "fresh" /\ Goto(r, "insert") /\ UNCHANGED answers
       \/ row.state = "fresh" /\ Goto(r, "done") /\ Accepted(r, row.cluster)
    /\ UNCHANGED <<tables, spawned, disturbed, faults>>

\* lookup_idempotency: an expired row counts as none, another body is 409.
Lookup(r) ==
    LET row == keys[reqs[r].key] IN
    /\ reqs[r].pc = "lookup"
    /\ \/ row.state # "fresh" /\ Goto(r, "insert") /\ UNCHANGED answers
       \/ row.state = "fresh" /\ ~SameBody(r, row) /\ Goto(r, "done") /\ UNCHANGED answers
       \/ row.state = "fresh" /\ SameBody(r, row) /\ Goto(r, "done") /\ Accepted(r, row.cluster)
    /\ UNCHANGED <<tables, spawned, disturbed, faults>>

\* validate_allowed and clusters_org_name_idx.
Insertable(n) == n \in Allowed /\ ~\E c \in Request : clusters[c].state = "live" /\ clusters[c].name = n

\* The foreign key on credential_id accepts a soft-deleted credential.
InsertCluster(r) ==
    /\ reqs[r].pc = "insert"
    /\ clusters' = IF Insertable(reqs[r].name)
                   THEN [clusters EXCEPT ![r] = [state |-> "live", name |-> reqs[r].name,
                                                 cred |-> reqs[r].id, key |-> reqs[r].key]]
                   ELSE clusters
    /\ Goto(r, IF Insertable(reqs[r].name) THEN "resolve" ELSE "done")
    /\ UNCHANGED <<secrets, creds, keys, spawned, history, faults>>

\* Mutant of Spawn: one provision at a time for a credential.
SpawnOne(r) ==
    LET free == /\ creds[reqs[r].id].state = "live"
                /\ \A c \in spawned : clusters[c].cred # reqs[r].id IN
    /\ reqs[r].pc = "resolve"
    /\ spawned' = IF free THEN spawned \cup {r} ELSE spawned
    /\ Goto(r, IF ~free \/ reqs[r].key = NoKey THEN "done" ELSE "store")
    /\ IF free /\ reqs[r].key = NoKey THEN Accepted(r, r) ELSE UNCHANGED answers
    /\ UNCHANGED <<tables, disturbed, faults>>

\* hetzner_service.get, 404 unless live, and spawn_provision.
Spawn(r) ==
    LET live == creds[reqs[r].id].state = "live" IN
    /\ reqs[r].pc = "resolve"
    /\ spawned' = IF live THEN spawned \cup {r} ELSE spawned
    /\ Goto(r, IF ~live \/ reqs[r].key = NoKey THEN "done" ELSE "store")
    /\ IF live /\ reqs[r].key = NoKey THEN Accepted(r, r) ELSE UNCHANGED answers
    /\ UNCHANGED <<tables, disturbed, faults>>

\* Mutant of StoreKey: the row is never written.
StoreNothing(r) ==
    /\ reqs[r].pc = "store"
    /\ Accepted(r, r) /\ Goto(r, "done")
    /\ UNCHANGED <<tables, spawned, disturbed, faults>>

\* store_idempotency: ON CONFLICT DO NOTHING, expired rows included.
StoreKey(r) ==
    /\ reqs[r].pc = "store"
    /\ keys' = [keys EXCEPT ![reqs[r].key] =
         IF @.state # "none" THEN @
         ELSE [state |-> "fresh", name |-> reqs[r].name, cred |-> reqs[r].id, cluster |-> r]]
    /\ Accepted(r, r) /\ Goto(r, "done")
    /\ UNCHANGED <<secrets, creds, clusters, spawned, disturbed, faults>>

\* IDEMPOTENCY_TTL has passed.
Expire(k) ==
    /\ keys[k].state = "fresh"
    /\ keys' = [keys EXCEPT ![k].state = "expired"]
    /\ disturbed' = disturbed \cup {k}
    /\ UNCHANGED <<secrets, creds, clusters, spawned, reqs, answers, faults>>

-----------------------------------------------------------------------------
(* DELETE /v1/clusters/:id *)

\* The cluster and then its credential are looked up, either may be a 404.
FindForDestroy(r) ==
    LET c == clusters[reqs[r].id] IN
    /\ reqs[r].pc = "find"
    /\ Goto(r, IF c.state = "live" /\ creds[c.cred].state = "live" THEN "destroy" ELSE "done")
    /\ UNCHANGED <<tables, spawned, history, faults>>

\* The destroy run ends by soft-deleting the row, which frees its name.
DestroyCluster(r) ==
    /\ reqs[r].pc = "destroy"
    /\ clusters' = [clusters EXCEPT ![reqs[r].id].state = "destroyed"]
    /\ Goto(r, "done")
    /\ UNCHANGED <<secrets, creds, keys, spawned, history, faults>>

Next ==
    \/ \E r \in Request :
         \/ AddCredential(r) \/ RemoveCredential(r) \/ CreateCluster(r) \/ Drop(r)
         \/ PutSecret(r) \/ InsertCredential(r) \/ InsertFails(r) \/ Cleanup(r)
         \/ GetForRemoval(r) \/ SoftDelete(r) \/ EraseSecret(r)
         \/ Lookup(r) \/ InsertCluster(r) \/ Spawn(r) \/ StoreKey(r)
         \/ RemoveCluster(r) \/ FindForDestroy(r) \/ DestroyCluster(r)
    \/ \E k \in Key : Expire(k)

Spec == Init /\ [][Next]_vars

-----------------------------------------------------------------------------
Quiet == \A r \in Request : ~InFlight(r)

\* HetznerCredentialService::create: a live credential has its token, also when
\* create cleaned up after an insert that failed after it had committed; and a
\* secret that no credential row refers to belongs to a create still in flight,
\* or to one that was dropped before it had cleaned up.
NoOrphans ==
    /\ \A c \in Credential : creds[c].state = "live" => c \in secrets
    /\ NoKey \notin disturbed => \A c \in secrets : Exists(c) \/ (c \in Request /\ InFlight(c))

\* A create answered with 202, first or replayed, names a cluster made for the
\* very body it sent, whatever other bodies raced for the same key, expired
\* with it or were dropped.
AnswersFitTheBody ==
    \A a \in answers : clusters[a.cluster].name = a.name /\ clusters[a.cluster].cred = a.cred

\* Requests with the same key that do not overlap, are not dropped and come
\* before it expires provision one cluster at most, and every 202 names it:
\* also when the cluster was destroyed or its credential removed in between.
KeyProvisionsOnce ==
    \A k \in Key \ disturbed :
        Cardinality({c \in spawned : clusters[c].key = k} \cup {a.cluster : a \in {b \in answers : b.key = k}}) <= 1

\* With nothing in flight, and no statement failed or handler dropped, a live
\* cluster has had its provision started, unless its credential was removed
\* before create looked it up (the row then stays pending).
OnlyRemovedCredentialsStrand ==
    Quiet /\ faults = 0 =>
        \A c \in Request : clusters[c].state = "live" =>
            c \in spawned \/ creds[clusters[c].cred].state = "deleted"

\* What a request relies on: the secret it put, the credential it was given,
\* the cluster it inserted.
ReqInv(r) ==
    LET q == reqs[r] IN
    /\ q.pc \in {"put", "link"} => q.alias \in Alias
    /\ q.pc = "link" => r \in secrets
    /\ q.pc \in {"get", "retire", "erase"} => Exists(q.id)
    /\ q.pc \in {"lookup", "insert", "resolve", "store"} => q.name \in Name
    /\ q.pc \in {"lookup", "store"} => q.key \in Key
    /\ q.pc \notin {"resolve", "store", "done"} => clusters[r].state = "none"
    /\ q.pc \in {"resolve", "store"} =>
         clusters[r].state # "none" /\ clusters[r].name = q.name /\ clusters[r].cred = q.id
    /\ q.pc \in {"find", "destroy"} => q.id \in Request /\ clusters[q.id].state # "none"

\* A stored key names a cluster inserted for the stored body.
KeyInv(k) ==
    keys[k].state # "none" =>
        /\ keys[k].cluster \in Request /\ clusters[keys[k].cluster].state # "none"
        /\ clusters[keys[k].cluster].name = keys[k].name
        /\ clusters[keys[k].cluster].cred = keys[k].cred

\* secret_id REFERENCES secrets ON DELETE RESTRICT, for live and removed rows.
ReferencesHold == \A c \in Credential : Exists(c) => c \in secrets

\* The inductive invariant behind AnswersFitTheBody and the first half of NoOrphans.
Inv ==
    /\ TypeOK /\ ReferencesHold /\ AnswersFitTheBody
    /\ \A r \in Request : ReqInv(r)
    /\ \A k \in Key : KeyInv(k)
    /\ \A a \in answers : clusters[a.cluster].state # "none"

\* What a create goes by: it alone carries its key, its row has that key, and its
\* credential was there; nobody but a request that adds a credential makes one.
CreateInv(r) ==
    LET q == reqs[r] IN
    /\ q.key \in Key => q.pc \in {"lookup", "insert", "resolve", "store"}
    /\ q.pc \in {"resolve", "store"} => clusters[r].key = q.key
    /\ q.pc \in {"lookup", "insert", "resolve"} => Exists(q.id)
    /\ q.pc \notin {"cleanup", "done"} => ~Exists(r)

\* An undisturbed key: one request carries it at a time; what was provisioned for
\* it is at the point of being stored until it is the cluster that the key names.
KeyHistory(k) ==
    /\ \A q, r \in Request : reqs[q].key = k /\ reqs[r].key = k => q = r
    /\ keys[k].state # "expired"
    /\ \A c \in spawned : clusters[c].key = k =>
         \/ keys[k].state = "none" /\ reqs[c].pc = "store" /\ reqs[c].key = k
         \/ keys[k].state = "fresh" /\ c = keys[k].cluster
    /\ \A a \in answers : a.key = k => keys[k].state = "fresh" /\ a.cluster = keys[k].cluster
    /\ keys[k].state = "fresh" => \A r \in Request : reqs[r].key = k => reqs[r].pc = "lookup"

\* A live cluster that nobody provisions: its credential was removed.
Started(c) ==
    clusters[c].state = "live" =>
        c \in spawned \/ reqs[c].pc = "resolve" \/ creds[clusters[c].cred].state = "deleted"

\* A secret has its credential row, or a create that will insert it or clean up.
Owned(c) == Exists(c) \/ (c \in Request /\ reqs[c].pc \in {"link", "cleanup"})

SecretInv == NoKey \notin disturbed => \A c \in secrets : Owned(c)

\* The inductive invariant behind the other properties.
CreateHistory ==
    /\ Inv
    /\ \A r \in Request : CreateInv(r)
    /\ \A c \in spawned : clusters[c].state # "none"
    /\ \A k \in Key \ disturbed : KeyHistory(k)
    /\ faults = 0 => \A c \in Request : Started(c)

\* All of it.
IntakeInv == CreateHistory /\ SecretInv
=============================================================================
