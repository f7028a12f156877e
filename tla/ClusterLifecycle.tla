-------------------------- MODULE ClusterLifecycle --------------------------
(***************************************************************************)
(* The life of one cluster: its row in `clusters`, its rows in             *)
(* `cluster_servers`, the servers that exist at Hetzner, and the requests  *)
(* that act on them.  A member of Run is one HTTP request together with    *)
(* the LocalRunner task it spawns; tasks are plain tokio tasks, nothing    *)
(* serialises them, and a step of the model is the code between two        *)
(* awaits that reach the database or Hetzner.                              *)
(*                                                                         *)
(* A fault is a statement that fails or a handler whose future is dropped  *)
(* (client disconnect, 30 s timeout layer).  Hetzner, SSH and kubectl may  *)
(* fail at any call and need no budget: a failure ends the run's work.     *)
(***************************************************************************)
EXTENDS Integers, FiniteSets

CONSTANTS
    MaxRuns,            \* bound: requests, numbered as they come in
    MaxWorkers,         \* MAX_WORKER_COUNT of the scale handler
    MaxServers,         \* bound: servers Hetzner hands out
    MaxFaults,          \* bound: failed statements and dropped handlers
    MaxCrashes,         \* bound: restarts of the process
    OneAtATime,         \* the client waits for a run to end before its next request
    MaskedHostDialable  \* the SshExecutor can dial a host written `a.b.c.d/32`

ASSUME ConstantsAssumption ==
    /\ MaxRuns \in Nat
    /\ MaxWorkers \in Nat \ {0}
    /\ MaxServers \in Nat
    /\ MaxFaults \in Nat
    /\ MaxCrashes \in Nat
    /\ OneAtATime \in BOOLEAN
    /\ MaskedHostDialable \in BOOLEAN

VARIABLES
    status,       \* clusters.status, "absent" before the insert
    deleted,      \* clusters.deleted_at IS NOT NULL
    kubeconfig,   \* clusters.kubeconfig_secret_id IS NOT NULL
    workerCount,  \* clusters.worker_count
    workflow,     \* the provisioning_workflows row: current_step, coarsened
    live,         \* cluster_servers rows with deleted_at NULL
    gone,         \* cluster_servers rows soft-deleted
    cloud,        \* servers that exist at Hetzner
    nextId,       \* the id Hetzner gives the next server
    runs,         \* what each request and its task hold
    faults, crashes

Run == 1..MaxRuns

row == <<status, deleted, kubeconfig, workerCount>>
tables == <<row, workflow, live, gone>>
hetzner == <<cloud, nextId>>
budget == <<faults, crashes>>
vars == <<tables, hetzner, runs, budget>>

Status == {"absent", "pending", "provisioning", "ready", "scaling", "failed",
           "destroying", "destroyed"}
Kind == {"none", "provision", "destroy", "scale_out", "scale_in"}
Ended == {"done", "failed", "aborted", "rejected", "lost"}
Pc == {"idle", "admitted", "begin", "mark", "open", "list", "create", "record",
       "kube", "drain", "delete", "forget", "final", "retire", "settle",
       "close", "fail", "failclose"} \cup Ended

Server == [id : Nat, role : {"control_plane", "worker"}, index : Nat]

NoRun == [kind |-> "none", pc |-> "idle", cp |-> FALSE, index |-> 0,
          count |-> 0, todo |-> {}, made |-> {}, nodes |-> {}]

(***************************************************************************)
(* What a run holds: `cp`, `index`, `count`: whether the control plane is  *)
(* still to be created, the next worker index and how many workers are     *)
(* left to create or remove.  `made`: the servers it created, or listed    *)
(* for deletion.  `todo`: those of them its current loop has not reached.  *)
(* `nodes`: the worker indices whose node names scale-in drains.           *)
(***************************************************************************)
RunState == [kind : Kind, pc : Pc, cp : BOOLEAN, index : Nat, count : Nat,
             todo : SUBSET Server, made : SUBSET Server, nodes : SUBSET Nat]

TypeOK ==
    /\ status \in Status
    /\ deleted \in BOOLEAN
    /\ kubeconfig \in BOOLEAN
    /\ workerCount \in 0..MaxWorkers
    /\ workflow \in {"none", "queued", "done", "failed"}
    /\ live \in SUBSET Server
    /\ gone \in SUBSET Server
    /\ cloud \in SUBSET Server
    /\ nextId \in 1..(MaxServers + 1)
    /\ runs \in [Run -> RunState]
    /\ faults \in 0..MaxFaults
    /\ crashes \in 0..MaxCrashes

Init ==
    /\ status = "absent" /\ deleted = FALSE /\ kubeconfig = FALSE
    /\ workerCount = 0
    /\ workflow = "none" /\ live = {} /\ gone = {}
    /\ cloud = {} /\ nextId = 1
    /\ runs = [r \in Run |-> NoRun]
    /\ faults = 0 /\ crashes = 0

-----------------------------------------------------------------------------
(* What several handlers and runs share. *)

Active(r) == runs[r].pc \notin {"idle"} \cup Ended

Put(r, state) == runs' = [runs EXCEPT ![r] = state]

Goto(r, pc) == Put(r, [runs[r] EXCEPT !.pc = pc])

Workers(rows) == {s \in rows : s.role = "worker"}

\* A worker's position among the rows in id order: the index the runner
\* rebuilds for its node name.
Position(s, rows) == Cardinality({w \in Workers(rows) : w.id < s.id})

\* Mutant of Youngest: the sort is ascending.
Oldest(n, rows) ==
    {s \in Workers(rows) : Cardinality({w \in Workers(rows) : w.id < s.id}) < n}

\* The n workers with the highest Hetzner ids.
Youngest(n, rows) ==
    {s \in Workers(rows) : Cardinality({w \in Workers(rows) : w.id > s.id}) < n}

\* Whether request r may be the next one to come in.
MaySend(r) ==
    /\ runs[r].pc = "idle"
    /\ \A q \in 1..(r - 1) : runs[q].pc # "idle"
    /\ OneAtATime => \A q \in Run : ~Active(q)

\* update_status: no condition on the current status nor on deleted_at.
UpdateStatus(new) ==
    status' = new /\ UNCHANGED <<deleted, kubeconfig, workerCount>>

-----------------------------------------------------------------------------
(* The handlers, up to the point where they spawn the runner's task. *)

\* POST /v1/clusters: the row is inserted before the credential is resolved.
Create(r) ==
    /\ MaySend(r)
    /\ status = "absent"
    /\ \E n \in 1..MaxWorkers :
         /\ workerCount' = n
         /\ Put(r, [NoRun EXCEPT !.kind = "provision", !.pc = "admitted",
                                 !.cp = TRUE, !.count = n])
    /\ status' = "pending"
    /\ UNCHANGED <<deleted, kubeconfig, workflow, live, gone, hetzner, budget>>

\* DELETE /v1/clusters/:id: any live row, whatever its status.
Destroy(r) ==
    /\ MaySend(r)
    /\ status # "absent" /\ ~deleted
    /\ Put(r, [NoRun EXCEPT !.kind = "destroy", !.pc = "admitted"])
    /\ UNCHANGED <<tables, hetzner, budget>>

\* Mutant of Scale: a cluster in any status is scaled.
ScaleAnyStatus(r) ==
    /\ MaySend(r)
    /\ status # "absent" /\ ~deleted
    /\ \E n \in (1..MaxWorkers) \ {workerCount} :
         Put(r, [NoRun EXCEPT !.kind = IF n > workerCount THEN "scale_out" ELSE "scale_in",
                              !.pc = "admitted", !.index = n, !.count = 1])
    /\ UNCHANGED <<tables, hetzner, budget>>

\* POST /v1/clusters/:id/workers: status and worker_count are read here and
\* used by Dispatch; `index` carries new_worker_count until the task lists rows.
Scale(r) ==
    /\ MaySend(r)
    /\ status = "ready" /\ ~deleted
    /\ \E n \in (1..MaxWorkers) \ {workerCount} :
         Put(r, [NoRun EXCEPT !.kind = IF n > workerCount THEN "scale_out" ELSE "scale_in",
                              !.pc = "admitted", !.index = n,
                              !.count = IF n > workerCount THEN n - workerCount
                                                           ELSE workerCount - n])
    /\ UNCHANGED <<tables, hetzner, budget>>

IsScale(r) == runs[r].kind \in {"scale_out", "scale_in"}

\* Mutant of Dispatch: worker_count is not written.
DispatchKeepsCount(r) ==
    /\ runs[r].pc = "admitted"
    /\ Put(r, [runs[r] EXCEPT !.pc = "begin", !.index = 0])
    /\ UNCHANGED <<tables, hetzner, budget>>

\* The credential is found; scaling writes the new worker_count; the task is
\* spawned.
Dispatch(r) ==
    /\ runs[r].pc = "admitted"
    /\ workerCount' = IF IsScale(r) THEN runs[r].index ELSE workerCount
    /\ Put(r, [runs[r] EXCEPT !.pc = "begin", !.index = 0])
    /\ UNCHANGED <<status, deleted, kubeconfig, workflow, live, gone, hetzner, budget>>

\* The credential is gone, or the handler is dropped: nothing is spawned.
Decline(r) ==
    /\ runs[r].pc = "admitted"
    /\ Goto(r, "rejected")
    /\ UNCHANGED <<tables, hetzner, budget>>

\* The scale handler is dropped after update_worker_count committed.
DropAfterCount(r) ==
    /\ runs[r].pc = "admitted" /\ IsScale(r)
    /\ faults < MaxFaults /\ faults' = faults + 1
    /\ workerCount' = runs[r].index
    /\ Goto(r, "rejected")
    /\ UNCHANGED <<status, deleted, kubeconfig, workflow, live, gone, hetzner, crashes>>

-----------------------------------------------------------------------------
(* The runner's tasks: their first statements. *)

\* run_provision, run_scale_out and run_scale_in announce themselves.
Begin(r) ==
    /\ runs[r].pc = "begin" /\ runs[r].kind # "destroy"
    /\ \/ /\ runs[r].kind = "provision"
          /\ UpdateStatus("provisioning") /\ Goto(r, "open")
       \/ /\ IsScale(r)
          /\ UpdateStatus("scaling") /\ Goto(r, "list")
    /\ UNCHANGED <<workflow, live, gone, hetzner, budget>>

\* begin_destroy, first transaction: read the row and look at it.
BeginDestroy(r) ==
    /\ runs[r].pc = "begin" /\ runs[r].kind = "destroy"
    /\ Goto(r, IF deleted \/ status = "destroyed" THEN "aborted" ELSE "mark")
    /\ UNCHANGED <<tables, hetzner, budget>>

\* begin_destroy, second transaction.
MarkDestroying(r) ==
    /\ runs[r].pc = "mark"
    /\ UpdateStatus("destroying") /\ Goto(r, "list")
    /\ UNCHANGED <<workflow, live, gone, hetzner, budget>>

\* insert_workflow_row.
OpenWorkflow(r) ==
    /\ runs[r].pc = "open"
    /\ workflow' = "queued" /\ Goto(r, "create")
    /\ UNCHANGED <<row, live, gone, hetzner, budget>>

\* run_destroy: every live row of the cluster is to be deleted at Hetzner.
ListForDestroy(r) ==
    /\ runs[r].pc = "list" /\ runs[r].kind = "destroy"
    /\ Put(r, [runs[r] EXCEPT !.pc = IF live = {} THEN "forget" ELSE "delete",
                              !.todo = live, !.made = live])
    /\ UNCHANGED <<tables, hetzner, budget>>

\* run_scale_out: the control-plane row gives the join host, read back as
\* inet::text and so with its mask, and the join token is read over SSH; the
\* workers are counted for the first new index.
ListForScaleOut(r) ==
    /\ runs[r].pc = "list" /\ runs[r].kind = "scale_out"
    /\ MaskedHostDialable /\ Workers(live) # live
    /\ Put(r, [runs[r] EXCEPT !.pc = "create", !.index = Cardinality(Workers(live))])
    /\ UNCHANGED <<tables, hetzner, budget>>

\* No control-plane row, or no token: run_scale_out returns before its match.
JoinRefused(r) ==
    /\ runs[r].pc = "list" /\ runs[r].kind = "scale_out"
    /\ Goto(r, "aborted")
    /\ UNCHANGED <<tables, hetzner, budget>>

\* run_scale_in: the youngest workers go; their node names come from their
\* position in id order.
ListForScaleIn(r) ==
    /\ runs[r].pc = "list" /\ runs[r].kind = "scale_in"
    /\ LET victims == Youngest(runs[r].count, live) IN
       Put(r, [runs[r] EXCEPT !.pc = "drain", !.todo = victims, !.made = victims,
                              !.nodes = {Position(s, live) : s \in victims}])
    /\ UNCHANGED <<tables, hetzner, budget>>

-----------------------------------------------------------------------------
(* provision_cluster and scale_out: servers are created one after another.  *)
(* Cloud-init, k3s and kubeconfig collection change nothing modelled: they  *)
(* either let the loop go on or fail it.                                    *)

NewServer(r) ==
    [id |-> nextId, role |-> IF runs[r].cp THEN "control_plane" ELSE "worker",
     index |-> IF runs[r].cp THEN 0 ELSE runs[r].index]

CreateServer(r) ==
    /\ runs[r].pc = "create" /\ nextId <= MaxServers
    /\ runs[r].cp \/ runs[r].count > 0
    /\ cloud' = cloud \cup {NewServer(r)} /\ nextId' = nextId + 1
    /\ Put(r, [runs[r] EXCEPT !.made = @ \cup {NewServer(r)}, !.cp = FALSE,
                              !.index = IF runs[r].cp THEN @ ELSE @ + 1,
                              !.count = IF runs[r].cp THEN @ ELSE @ - 1])
    /\ UNCHANGED <<tables, budget>>

\* The create call times out at the client although Hetzner created the server.
CreateLost(r) ==
    /\ runs[r].pc = "create" /\ nextId <= MaxServers
    /\ runs[r].cp \/ runs[r].count > 0
    /\ cloud' = cloud \cup {NewServer(r)} /\ nextId' = nextId + 1
    /\ Goto(r, "fail")
    /\ UNCHANGED <<tables, budget>>

\* Mutant of ServersUp: only the workers are recorded.
WorkersUp(r) ==
    /\ runs[r].pc = "create" /\ ~runs[r].cp /\ runs[r].count = 0
    /\ Put(r, [runs[r] EXCEPT !.pc = "record", !.todo = Workers(runs[r].made)])
    /\ UNCHANGED <<tables, hetzner, budget>>

\* Every server is up and joined: the workflow function returns Ok.
ServersUp(r) ==
    /\ runs[r].pc = "create" /\ ~runs[r].cp /\ runs[r].count = 0
    /\ Put(r, [runs[r] EXCEPT !.pc = "record", !.todo = runs[r].made])
    /\ UNCHANGED <<tables, hetzner, budget>>

\* Mutant of ActivityFails: the error is returned with `?`.
ActivityFailsSilently(r) ==
    /\ \/ runs[r].pc = "create"
       \/ runs[r].pc = "drain" /\ ~deleted /\ kubeconfig
    /\ Goto(r, "aborted")
    /\ UNCHANGED <<tables, hetzner, budget>>

\* An activity fails: a create refused, cloud-init or SSH, drain or delete-node.
ActivityFails(r) ==
    /\ \/ runs[r].pc = "create"
       \/ runs[r].pc = "drain" /\ ~deleted /\ kubeconfig
    /\ Goto(r, "fail")
    /\ UNCHANGED <<tables, hetzner, budget>>

\* Mutant of RecordServer: Ready is written before the kubeconfig is stored.
RecordThenReady(r) ==
    /\ runs[r].pc = "record"
    /\ \E s \in runs[r].todo :
         /\ live' = live \cup {s}
         /\ Put(r, [runs[r] EXCEPT !.todo = @ \ {s},
                !.pc = IF runs[r].todo # {s} THEN "record" ELSE "settle"])
    /\ UNCHANGED <<row, workflow, gone, hetzner, budget>>

\* record_server, in creation order.
RecordServer(r) ==
    /\ runs[r].pc = "record"
    /\ \E s \in runs[r].todo :
         /\ \A t \in runs[r].todo : s.id <= t.id
         /\ live' = live \cup {s}
         /\ Put(r, [runs[r] EXCEPT !.todo = @ \ {s},
                !.pc = IF runs[r].todo # {s} THEN "record"
                       ELSE IF runs[r].kind = "provision" THEN "kube" ELSE "settle"])
    /\ UNCHANGED <<row, workflow, gone, hetzner, budget>>

\* store_kubeconfig: the update takes only a live row without a kubeconfig.
StoreKubeconfig(r) ==
    /\ runs[r].pc = "kube"
    /\ \/ /\ ~deleted /\ ~kubeconfig
          /\ kubeconfig' = TRUE /\ Goto(r, "settle")
       \/ /\ deleted \/ kubeconfig
          /\ Goto(r, "aborted") /\ UNCHANGED kubeconfig
    /\ UNCHANGED <<status, deleted, workerCount, workflow, live, gone, hetzner, budget>>

-----------------------------------------------------------------------------
(* scale_in and destroy_cluster. *)

\* fetch_kubeconfig, then drain and delete-node of every victim.
DrainNodes(r) ==
    /\ runs[r].pc = "drain" /\ ~deleted /\ kubeconfig
    /\ Goto(r, IF runs[r].todo = {} THEN "settle" ELSE "delete")
    /\ UNCHANGED <<tables, hetzner, budget>>

\* fetch_kubeconfig finds no live row or no kubeconfig.
NoKubeconfig(r) ==
    /\ runs[r].pc = "drain" /\ (deleted \/ ~kubeconfig)
    /\ Goto(r, "aborted")
    /\ UNCHANGED <<tables, hetzner, budget>>

\* hetzner_delete_server_idempotent: 404 counts as deleted.  After the last
\* one scale-in goes over the same rows again to forget them.
DeleteServer(r) ==
    /\ runs[r].pc = "delete"
    /\ \E s \in runs[r].todo :
         /\ cloud' = cloud \ {s}
         /\ Put(r, [runs[r] EXCEPT
                !.pc = IF runs[r].todo = {s} THEN "forget" ELSE "delete",
                !.todo = IF runs[r].todo = {s} THEN runs[r].made ELSE @ \ {s}])
    /\ UNCHANGED <<tables, nextId, budget>>

\* Mutant of DeleteFails: any error counts as "already gone".
DeleteErrorSwallowed(r) ==
    /\ runs[r].pc = "delete"
    /\ \E s \in runs[r].todo :
         Put(r, [runs[r] EXCEPT
                !.pc = IF runs[r].todo = {s} THEN "forget" ELSE "delete",
                !.todo = IF runs[r].todo = {s} THEN runs[r].made ELSE @ \ {s}])
    /\ UNCHANGED <<tables, hetzner, budget>>

\* The delete fails at the client, with or without effect at Hetzner.
DeleteFails(r) ==
    /\ runs[r].pc = "delete"
    /\ \/ UNCHANGED cloud
       \/ \E s \in runs[r].todo : cloud' = cloud \ {s}
    /\ Goto(r, "fail")
    /\ UNCHANGED <<tables, nextId, budget>>

\* run_destroy, soft_delete_servers: every row live now, listed or not.
SoftDeleteServers(r) ==
    /\ runs[r].pc = "forget" /\ runs[r].kind = "destroy"
    /\ live' = {} /\ gone' = gone \cup live
    /\ Goto(r, "final")
    /\ UNCHANGED <<row, workflow, hetzner, budget>>

\* run_scale_in: one UPDATE per removed row.
ForgetRow(r) ==
    /\ runs[r].pc = "forget" /\ runs[r].kind = "scale_in"
    /\ \E s \in runs[r].todo :
         /\ live' = live \ {s} /\ gone' = gone \cup (live \cap {s})
         /\ Put(r, [runs[r] EXCEPT !.todo = @ \ {s},
                !.pc = IF runs[r].todo = {s} THEN "settle" ELSE "forget"])
    /\ UNCHANGED <<row, workflow, hetzner, budget>>

\* finalize_destroy, kubeconfig_secret: no live row is an error.  Deleting the
\* secret is refused by the foreign key of the row that still names it; the
\* refusal is logged and the row keeps its kubeconfig.
FinalizeLookup(r) ==
    /\ runs[r].pc = "final"
    /\ Goto(r, IF deleted THEN "aborted" ELSE "retire")
    /\ UNCHANGED <<tables, hetzner, budget>>

\* finalize_destroy, soft_delete.
SoftDelete(r) ==
    /\ runs[r].pc = "retire"
    /\ deleted' = TRUE /\ Goto(r, "settle")
    /\ UNCHANGED <<status, kubeconfig, workerCount, workflow, live, gone, hetzner, budget>>

-----------------------------------------------------------------------------
(* How runs end.  The terminal event is published right after the last      *)
(* statement, with no await between them: "done" and "failed" are the runs  *)
(* that published one, "aborted" those that returned through a `?`.         *)

\* The run's last update_status.
Settle(r) ==
    /\ runs[r].pc = "settle"
    /\ UpdateStatus(IF runs[r].kind = "destroy" THEN "destroyed" ELSE "ready")
    /\ Goto(r, IF runs[r].kind = "provision" THEN "close" ELSE "done")
    /\ UNCHANGED <<workflow, live, gone, hetzner, budget>>

\* Mutant of CloseWorkflow: the error arm waits for the row of a failed run.
CloseDone(r) ==
    /\ runs[r].pc = "close"
    /\ workflow' = "done"
    /\ Goto(r, "done")
    /\ UNCHANGED <<row, live, gone, hetzner, budget>>

\* finalize_workflow_row, "done" or "failed".
CloseWorkflow(r) ==
    /\ runs[r].pc \in {"close", "failclose"}
    /\ workflow' = IF runs[r].pc = "close" THEN "done" ELSE "failed"
    /\ Goto(r, IF runs[r].pc = "close" THEN "done" ELSE "failed")
    /\ UNCHANGED <<row, live, gone, hetzner, budget>>

AfterFail(r) == IF runs[r].kind = "provision" THEN "failclose" ELSE "failed"

\* The error arm of every run, mark_destroy_failed included.
MarkFailed(r) ==
    /\ runs[r].pc = "fail"
    /\ UpdateStatus("failed")
    /\ Goto(r, AfterFail(r))
    /\ UNCHANGED <<workflow, live, gone, hetzner, budget>>

\* A statement fails where the code says `?`: the task returns, nothing after
\* the statement runs.  A statement that failed after taking effect is the
\* same as the next one failing.
StatementFails(r) ==
    /\ \/ runs[r].pc \in {"begin", "mark", "open", "list", "record", "kube",
                          "drain", "final", "retire", "settle", "close"}
       \/ runs[r].pc = "forget" /\ runs[r].kind = "destroy"
    /\ faults < MaxFaults /\ faults' = faults + 1
    /\ Goto(r, "aborted")
    /\ UNCHANGED <<tables, hetzner, crashes>>

\* A statement of the error arm fails, where the code says `.ok()`: the task
\* goes on.
FailureIgnored(r) ==
    /\ runs[r].pc \in {"fail", "failclose"}
    /\ faults < MaxFaults /\ faults' = faults + 1
    /\ Goto(r, IF runs[r].pc = "fail" THEN AfterFail(r) ELSE "failed")
    /\ UNCHANGED <<tables, hetzner, crashes>>

\* Likewise for the UPDATE of one row scale-in removed: the row stays live.
ForgetIgnored(r) ==
    /\ runs[r].pc = "forget" /\ runs[r].kind = "scale_in"
    /\ faults < MaxFaults /\ faults' = faults + 1
    /\ \E s \in runs[r].todo :
         Put(r, [runs[r] EXCEPT !.todo = @ \ {s},
                !.pc = IF runs[r].todo = {s} THEN "settle" ELSE "forget"])
    /\ UNCHANGED <<tables, hetzner, crashes>>

\* The process stops.  Tasks and handlers are in memory only and nothing at
\* start-up looks for the clusters they were working on.
Crash ==
    /\ crashes < MaxCrashes /\ crashes' = crashes + 1
    /\ \E r \in Run : Active(r)
    /\ runs' = [r \in Run |-> IF Active(r) THEN [runs[r] EXCEPT !.pc = "lost"] ELSE runs[r]]
    /\ UNCHANGED <<tables, hetzner, faults>>

-----------------------------------------------------------------------------
Request(r) == Create(r) \/ Destroy(r) \/ Scale(r)

\* A step the runtime owes a request once it is accepted.
Step(r) ==
    \/ Dispatch(r) \/ Decline(r)
    \/ Begin(r) \/ BeginDestroy(r) \/ MarkDestroying(r) \/ OpenWorkflow(r)
    \/ ListForDestroy(r) \/ ListForScaleOut(r) \/ JoinRefused(r) \/ ListForScaleIn(r)
    \/ CreateServer(r) \/ CreateLost(r) \/ ServersUp(r) \/ ActivityFails(r)
    \/ RecordServer(r) \/ StoreKubeconfig(r)
    \/ DrainNodes(r) \/ NoKubeconfig(r) \/ DeleteServer(r) \/ DeleteFails(r)
    \/ SoftDeleteServers(r) \/ ForgetRow(r)
    \/ FinalizeLookup(r) \/ SoftDelete(r)
    \/ Settle(r) \/ CloseWorkflow(r) \/ MarkFailed(r)

Fault(r) ==
    \/ DropAfterCount(r) \/ StatementFails(r) \/ FailureIgnored(r) \/ ForgetIgnored(r)

Next ==
    \/ \E r \in Run : Request(r) \/ Step(r) \/ Fault(r)
    \/ Crash

Spec == Init /\ [][Next]_vars

\* Every await of a task returns: Hetzner calls time out after 30 s, SSH after
\* 300 s and kubectl after 240 s, cloud-init is polled 60 times.
FairSpec == Spec /\ \A r \in Run : WF_vars(Step(r))

-----------------------------------------------------------------------------
(* Properties that hold whatever requests overlap and whatever fails. *)

\* A cluster is shown `ready` only once its kubeconfig is stored, however the
\* runs that write the status interleave or stop (run_provision stores it
\* before it writes Ready; the scale runs start from a ready cluster).
ReadyHasKubeconfig == status = "ready" => kubeconfig

\* A provision or scale-out run that reported Ready has a cluster_servers row,
\* live or retired, for every server it created: what destroy works from
\* misses no server of a run that ended well.
ReportedReadyIsRecorded ==
    \A r \in Run :
        runs[r].kind \in {"provision", "scale_out"} /\ runs[r].pc = "done"
            => runs[r].made \subseteq live \cup gone

\* A destroy or scale-in run that reported success left none of the servers it
\* set out to delete at Hetzner (destroy_cluster and scale_in stop at the first
\* delete that fails).
ReportedGoneIsDeleted ==
    \A r \in Run :
        runs[r].kind \in {"destroy", "scale_in"} /\ runs[r].pc = "done"
            => runs[r].made \cap cloud = {}

-----------------------------------------------------------------------------
(* The inductive invariant behind the first three properties. *)

\* Which run is where.
PcFitsKind(r) ==
    LET pc == runs[r].pc  kind == runs[r].kind IN
    /\ pc \in {"open", "kube", "close", "failclose"} => kind = "provision"
    /\ pc \in {"mark", "final", "retire"} => kind = "destroy"
    /\ pc \in {"create", "record"} => kind \in {"provision", "scale_out"}
    /\ pc \in {"delete", "forget"} => kind \in {"destroy", "scale_in"}
    /\ pc = "drain" => kind = "scale_in"
    /\ kind = "none" => pc = "idle"

\* Ids are never given twice: what a run, a row or Hetzner knows is older than
\* the next server.
RunIsOld(r) == \A s \in runs[r].made \cup runs[r].todo : s.id < nextId

\* Scaling starts from a ready cluster, so a scaling run finds a kubeconfig.
RunHasKubeconfig(r) ==
    /\ IsScale(r) => kubeconfig
    /\ runs[r].kind = "provision" /\ runs[r].pc \in {"settle", "close", "done"} => kubeconfig

\* What the recording loop of a run has behind it is recorded.
RunRecords(r) ==
    runs[r].kind \in {"provision", "scale_out"} =>
        /\ runs[r].pc = "record" => runs[r].made \ runs[r].todo \subseteq live \cup gone
        /\ runs[r].pc \in {"kube", "settle", "close", "done"}
             => runs[r].made \subseteq live \cup gone

\* What the deleting loop of a run has behind it is deleted.
RunDeletes(r) ==
    runs[r].kind \in {"destroy", "scale_in"} =>
        /\ runs[r].pc = "drain" => runs[r].made = runs[r].todo
        /\ runs[r].pc = "delete" => (runs[r].made \ runs[r].todo) \cap cloud = {}
        /\ runs[r].pc \in {"forget", "final", "retire", "settle", "done"}
             => runs[r].made \cap cloud = {}

RunInv(r) ==
    /\ PcFitsKind(r) /\ RunIsOld(r) /\ RunHasKubeconfig(r)
    /\ RunRecords(r) /\ RunDeletes(r)
    /\ IsScale(r) /\ runs[r].pc = "admitted" => runs[r].index \in 1..MaxWorkers

Inv ==
    /\ TypeOK
    /\ IsFiniteSet(live)
    /\ \A s \in live \cup gone \cup cloud : s.id < nextId
    /\ ReadyHasKubeconfig
    /\ \A r \in Run : RunInv(r)

-----------------------------------------------------------------------------
(* Properties that hold for a client that waits (OneAtATime). *)

Quiet == \A r \in Run : ~Active(r)

\* No statement failed, no handler was dropped, the process did not stop.
Undisturbed == faults = 0 /\ crashes = 0

\* With nothing running, a ready cluster has exactly the servers its rows name,
\* one control plane among them, and worker_count workers, as long as only
\* Hetzner, SSH and kubectl failed.
SettledMatchesCloud ==
    status = "ready" /\ Quiet /\ Undisturbed =>
        /\ live = cloud
        /\ Cardinality(live) = workerCount + 1
        /\ Cardinality(Workers(live)) = workerCount

\* Scale-in drains the nodes of the very servers it deletes: the index rebuilt
\* from id order is the index the worker was created with.
DrainsWhatItDeletes ==
    \A r \in Run :
        Undisturbed /\ runs[r].kind = "scale_in" /\ runs[r].pc \in {"drain", "delete", "forget", "settle", "done"}
            => runs[r].nodes = {s.index : s \in runs[r].made}

\* cluster_servers is written only after a whole workflow went well, so a server
\* may be in no row; but then a provision or scale-out run ended badly.  With
\* nothing running and every such run done or refused, destroy can find every
\* server there is, however many destroys and scale-ins failed half-way.
OnlyFailedRunsLoseServers ==
    Quiet /\ (\A r \in Run : runs[r].kind \in {"provision", "scale_out"}
                              => runs[r].pc \in {"done", "rejected"})
        => cloud \subseteq live

\* Without a failed statement or a crash a cluster stays in a status of a run
\* only on the early return of run_scale_out: the status is `scaling` and some
\* scale-out was aborted before it created a server.
OnlyRefusedJoinsStick ==
    Undisturbed /\ Quiet /\ status \in {"provisioning", "scaling", "destroying"} =>
        /\ status = "scaling"
        /\ \E r \in Run : runs[r].kind = "scale_out" /\ runs[r].pc = "aborted" /\ runs[r].made = {}

\* Every provision, destroy and scale-in run that starts ends by publishing a
\* terminal event, and the row then shows a settled status, unless a statement
\* fails or the process stops.
RunsSettle ==
    \A r \in Run :
        (runs[r].kind \in {"provision", "destroy", "scale_in"} /\ runs[r].pc = "begin")
            ~> \/ ~Undisturbed
               \/ /\ runs[r].pc \in {"done", "failed"}
                  /\ status \in {"ready", "failed", "destroyed"}

-----------------------------------------------------------------------------
(* The inductive invariant behind them.  One run is active at most, so what *)
(* the row, the server rows and Hetzner are depends on where that run is.   *)

Makes(r) == runs[r].kind \in {"provision", "scale_out"}

\* What the row shows while a run works on it.
RowFits(r) ==
    LET pc == runs[r].pc  kind == runs[r].kind IN
    pc \notin {"close", "failclose"} =>
        /\ deleted <=> kind = "destroy" /\ pc = "settle"
        /\ kind = "provision" =>
             /\ status = IF pc \in {"admitted", "begin"} THEN "pending" ELSE "provisioning"
             /\ kubeconfig => pc = "settle"
        /\ IsScale(r) => status = IF pc \in {"admitted", "begin"} THEN "ready" ELSE "scaling"
        /\ kind = "destroy" =>
             IF pc \in {"admitted", "begin", "mark"} THEN status \notin {"absent", "destroyed"}
                                                     ELSE status = "destroying"

RowInv ==
    /\ \A q, r \in Run : Active(q) /\ Active(r) => q = r
    /\ status = "absent" => ~deleted /\ ~kubeconfig /\ live = {} /\ cloud = {}
    /\ status = "destroyed" => deleted
    /\ deleted => status \in {"destroying", "destroyed"}
    /\ \A r \in Run : Active(r) => RowFits(r)

\* A run whose servers may be in no row.
Spoilt(r) == Makes(r) /\ runs[r].pc \in {"fail", "failclose", "failed", "aborted", "lost"}

\* Which rows the servers of a run have, and which servers the rows of a destroy.
ServersFit(r) ==
    LET x == runs[r] IN
    /\ x.todo \subseteq x.made
    /\ x.pc \in {"admitted", "begin", "mark", "open", "list"} => x.made = {}
    /\ Makes(r) /\ x.pc = "record" => x.made \ x.todo \subseteq live
    /\ Makes(r) /\ x.pc \in {"kube", "settle", "close"} => x.made \subseteq live
    /\ x.kind = "destroy" /\ x.pc \in {"delete", "forget"} => x.made = live

ServersInv ==
    /\ \A r \in Run : Active(r) => ServersFit(r)
    /\ (\A r \in Run : ~Spoilt(r)) =>
         \A s \in cloud : s \in live \/ \E r \in Run : Active(r) /\ Makes(r) /\ s \in runs[r].made

\* The run has written its status and will write another one.
Works(r) == Active(r) /\ runs[r].pc \notin {"admitted", "begin", "mark", "close", "failclose"}

Refused(r) == runs[r].kind = "scale_out" /\ runs[r].pc = "aborted" /\ runs[r].made = {}

StuckInv ==
    status \in {"provisioning", "scaling", "destroying"} =>
        \/ \E r \in Run : Works(r)
        \/ status = "scaling" /\ \E r \in Run : Refused(r)

\* n workers, numbered in id order, and `heads` control planes.
Fleet(S, n, heads) ==
    /\ IsFiniteSet(S)
    /\ \A s, t \in S : s.id = t.id => s = t
    /\ Cardinality(S) = n + heads
    /\ Cardinality(Workers(S)) = n
    /\ \A s \in Workers(S) : s.index = Position(s, S)

\* How far a run is between the fleet it found and the one it is to leave.
FleetFits(r) ==
    LET x == runs[r] IN
    /\ x.kind = "provision" /\ x.pc \in {"admitted", "begin", "open"} =>
          x.cp /\ x.index = 0 /\ x.count = workerCount
    /\ x.kind = "scale_out" => ~x.cp
    /\ x.kind = "scale_out" /\ x.pc = "admitted" => x.index = workerCount + x.count
    /\ x.kind = "scale_in" /\ x.pc = "admitted" => workerCount = x.index + x.count
    /\ \/ x.kind = "provision" /\ x.pc \in {"admitted", "begin", "open", "create"}
       \/ x.kind = "scale_out" /\ x.pc \in {"begin", "list", "create"}
       => /\ cloud = live \cup x.made
          /\ x.count <= workerCount
          /\ Fleet(cloud, workerCount - x.count, IF x.cp THEN 0 ELSE 1)
    /\ x.pc = "create" => x.index = Cardinality(Workers(cloud))
    /\ Makes(r) /\ x.pc \in {"record", "kube", "settle"} =>
          cloud = live \cup x.made /\ Fleet(cloud, workerCount, 1)
    /\ x.kind = "scale_in" =>
         /\ x.pc \in {"begin", "list"} => live = cloud /\ Fleet(live, workerCount + x.count, 1)
         /\ x.pc = "drain" => live = cloud
         /\ x.pc = "delete" => cloud = live \ (x.made \ x.todo)
         /\ x.pc = "forget" => cloud = live \ x.made /\ live \cap x.made \subseteq x.todo
         /\ x.pc = "settle" => live = cloud
         /\ x.pc \in {"drain", "delete", "forget", "settle"} => Fleet(live \ x.made, workerCount, 1)

FleetInv ==
    /\ \A r \in Run : Active(r) => FleetFits(r)
    /\ status = "ready" /\ (\A r \in Run : Active(r) /\ IsScale(r) => runs[r].pc = "admitted") =>
         live = cloud /\ Fleet(live, workerCount, 1)

PatientInv ==
    /\ RowInv /\ ServersInv
    /\ Undisturbed => StuckInv /\ FleetInv /\ DrainsWhatItDeletes

-----------------------------------------------------------------------------
States == INSTANCE ClusterStates WITH status <- status, deleted <- deleted, kubeconfig <- kubeconfig

\* The row the runs write goes only through the moves ClusterStates allows
\* (cluster_status and its comments; begin_destroy, finalize_destroy).
ImplementsStates == States!Spec
=============================================================================
