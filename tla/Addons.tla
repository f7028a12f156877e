------------------------------- MODULE Addons -------------------------------
(***************************************************************************)
(* One add-on of one cluster: the row of cluster_addons, the Helm release  *)
(* behind it, the install and uninstall requests, and the tasks they leave *)
(* with the runner.  A request keeps its number as a task; a task is alone *)
(* with the row only as long as no other request or task is in flight,     *)
(* since nothing orders them.  The handlers run statement by statement and *)
(* can be dropped in between; a crash of the process ends them all.  The    *)
(* runs that scale and destroy the cluster go on beside them: a destroy     *)
(* takes the servers, and with them the release, and no run ever writes to  *)
(* cluster_addons.                                                          *)
(***************************************************************************)
EXTENDS Integers, FiniteSets

CONSTANTS
    Version,       \* chart versions
    MaxRequests    \* bound: requests

ASSUME BoundsAssumption == MaxRequests \in Nat

VARIABLES
    cluster,   \* the status of its row, whether a scale and a destroy run are in
               \* flight, and whether its control plane exists
    row,       \* the live row of (cluster, addon): its status, "absent" without
               \* a row, and its version
    release,   \* the Helm release in the cluster
    files,     \* kubeconfigs staged in the temporary directory, by request
    requests,  \* requests and the tasks they became
    overlap,   \* history: two of them were in flight at once
    faulted    \* history: requests that were dropped, crashed or lost a write

addonsVars == <<cluster, row, release, files, requests, overlap, faulted>>

Request == 1..MaxRequests
NoVersion == "none"

Status == {"absent", "pending", "installing", "ready", "failed", "uninstalling", "uninstalled"}
Pc == {"idle", "select", "insert", "mark", "stage", "spawn", "queued", "helm", "running",
       "ready", "uninstalled", "failed", "over"}

Call(op, pc, version) == [op |-> op, pc |-> pc, version |-> version]
NoRelease == [state |-> "none", version |-> NoVersion, by |-> 0]
Idle == Call("none", "idle", NoVersion)
Over == Call("none", "over", NoVersion)

ClusterType == [status : {"ready", "scaling", "destroying", "failed", "deleted"},
                scaling : BOOLEAN, destroying : BOOLEAN, servers : BOOLEAN]

AddonsTypeOK ==
    /\ cluster \in ClusterType
    /\ row \in [status : Status, version : Version \cup {NoVersion}]
    /\ release \in [state : {"none", "pending", "deployed", "failed"},
                    version : Version \cup {NoVersion}, by : Nat]
    /\ requests \in [Request -> [op : {"none", "install", "uninstall"}, pc : Pc,
                                 version : Version \cup {NoVersion}]]
    /\ files \subseteq Request /\ faulted \subseteq Request /\ overlap \in BOOLEAN

AddonsInit ==
    /\ cluster = [status |-> "ready", scaling |-> FALSE, destroying |-> FALSE, servers |-> TRUE]
    /\ row = [status |-> "absent", version |-> NoVersion]
    /\ release = NoRelease
    /\ files = {}
    /\ requests = [r \in Request |-> Idle]
    /\ overlap = FALSE
    /\ faulted = {}

-----------------------------------------------------------------------------
At(r, op, pc) == requests[r].op = op /\ requests[r].pc = pc

InFlight(r) == requests[r].pc \notin {"idle", "over"}

\* A task of the runner, which no HTTP timeout can drop.
Spawned(r) == requests[r].pc \in {"queued", "helm", "running", "ready", "uninstalled", "failed"}

Goto(r, pc) == requests' = [requests EXCEPT ![r] = Call(requests[r].op, pc, requests[r].version)]

End(r) == requests' = [requests EXCEPT ![r] = Over]

Accept(r, request) ==
    /\ requests[r] = Idle /\ \A q \in 1..(r - 1) : requests[q] # Idle
    /\ requests' = [requests EXCEPT ![r] = request]
    /\ overlap' = (overlap \/ \E q \in Request : InFlight(q))

\* A handler is dropped or one of its calls fails: what it committed stays, and
\* so does the kubeconfig it staged.
Drop(r) ==
    /\ InFlight(r) /\ ~Spawned(r) /\ End(r)
    /\ faulted' = faulted \cup {r}
    /\ UNCHANGED <<cluster, row, release, files, overlap>>

\* The API process ends with everything in flight, the helm processes included.
Crash ==
    LET lost == {r \in Request : InFlight(r)} IN
    /\ lost # {} \/ cluster.scaling \/ cluster.destroying
    /\ requests' = [r \in Request |-> IF r \in lost THEN Over ELSE requests[r]]
    /\ faulted' = faulted \cup lost
    /\ cluster' = [cluster EXCEPT !.scaling = FALSE, !.destroying = FALSE]
    /\ UNCHANGED <<row, release, files, overlap>>

-----------------------------------------------------------------------------
(* The runs on the cluster, as far as the add-on can tell *)

\* run_scale_out and run_scale_in start on a Ready cluster.
BeginScale ==
    /\ cluster.status = "ready" /\ ~cluster.scaling
    /\ cluster' = [cluster EXCEPT !.status = "scaling", !.scaling = TRUE]
    /\ UNCHANGED <<row, release, files, requests, overlap, faulted>>

\* They write Ready or Failed over whatever the status is by now; a row that is
\* soft-deleted stays out of sight.
EndScale ==
    /\ cluster.scaling
    /\ \E s \in {"ready", "failed"} :
         cluster' = [cluster EXCEPT !.scaling = FALSE, !.status = IF @ = "deleted" THEN @ ELSE s]
    /\ UNCHANGED <<row, release, files, requests, overlap, faulted>>

\* run_destroy: begin_destroy, which a cluster in any status passes.
BeginDestroy ==
    /\ cluster.status # "deleted" /\ ~cluster.destroying
    /\ cluster' = [cluster EXCEPT !.status = "destroying", !.destroying = TRUE]
    /\ UNCHANGED <<row, release, files, requests, overlap, faulted>>

\* destroy_cluster deletes the control plane, and with it the release.
DeleteServers ==
    /\ cluster.destroying /\ cluster.servers
    /\ cluster' = [cluster EXCEPT !.servers = FALSE]
    /\ release' = NoRelease
    /\ UNCHANGED <<row, files, requests, overlap, faulted>>

\* finalize_destroy; or an error of Hetzner, before or after the control plane is
\* gone, and mark_destroy_failed, whose own failure is ignored.
EndDestroy ==
    /\ cluster.destroying
    /\ \E s \in {"deleted", "failed", cluster.status} :
         /\ s = "deleted" => ~cluster.servers
         /\ cluster' = [cluster EXCEPT !.destroying = FALSE, !.status = s]
    /\ UNCHANGED <<row, release, files, requests, overlap, faulted>>

-----------------------------------------------------------------------------
(* POST /v1/clusters/:id/addons *)

\* The cluster is Ready when it is read.
Install(r) ==
    \E v \in Version :
        /\ cluster.status = "ready"
        /\ Accept(r, Call("install", "select", v))
        /\ UNCHANGED <<cluster, row, release, files, faulted>>

\* AddonRepository::upsert, the SELECT: the live row is reused, whatever its
\* status, and its version is the one to install.
SelectAddon(r) ==
    /\ At(r, "install", "select")
    /\ requests' = [requests EXCEPT ![r] =
         IF row.status = "absent" THEN Call("install", "insert", requests[r].version)
                                  ELSE Call("install", "stage", row.version)]
    /\ UNCHANGED <<cluster, row, release, files, overlap, faulted>>

\* The INSERT, or the conflict on the unique index of the live rows.
InsertAddon(r) ==
    /\ At(r, "install", "insert")
    /\ IF row.status = "absent"
       THEN /\ row' = [status |-> "pending", version |-> requests[r].version]
            /\ Goto(r, "stage")
       ELSE UNCHANGED row /\ End(r)
    /\ UNCHANGED <<cluster, release, files, overlap, faulted>>

-----------------------------------------------------------------------------
(* DELETE /v1/clusters/:id/addons/:addon_id *)

\* get_by_id finds a row that is ready or failed.
Uninstall(r) ==
    /\ row.status \in {"ready", "failed"}
    /\ Accept(r, Call("uninstall", "mark", NoVersion))
    /\ UNCHANGED <<cluster, row, release, files, faulted>>

\* update_status, whatever the status is by now.
MarkUninstalling(r) ==
    /\ At(r, "uninstall", "mark")
    /\ row' = [row EXCEPT !.status = "uninstalling"]
    /\ Goto(r, "stage")
    /\ UNCHANGED <<cluster, release, files, overlap, faulted>>

-----------------------------------------------------------------------------
(* Both handlers, and the tasks of the runner *)

\* fetch_kubeconfig, which finds no soft-deleted cluster, and the file it is staged
\* in.
StageKubeconfig(r) ==
    /\ requests[r].pc = "stage" /\ cluster.status # "deleted" /\ Goto(r, "spawn")
    /\ files' = files \cup {r}
    /\ UNCHANGED <<cluster, row, release, overlap, faulted>>

\* spawn_install_addon and spawn_uninstall_addon.
Spawn(r) ==
    /\ requests[r].pc = "spawn"
    /\ Goto(r, IF requests[r].op = "install" THEN "queued" ELSE "helm")
    /\ UNCHANGED <<cluster, row, release, files, overlap, faulted>>

\* run_install_addon: update_status, or its failure, which ends the task before
\* it removes the kubeconfig.
MarkInstalling(r) ==
    /\ At(r, "install", "queued")
    /\ \/ /\ row' = [row EXCEPT !.status = "installing"]
          /\ Goto(r, "helm") /\ UNCHANGED faulted
       \/ /\ End(r) /\ faulted' = faulted \cup {r}
          /\ UNCHANGED row
    /\ UNCHANGED <<cluster, release, files, overlap>>

\* Mutant of HelmUpgrade: it waits for the operation another one has pending.
HelmUpgradeWaits(r) ==
    /\ At(r, "install", "helm") /\ release.state # "pending"
    /\ release' = [state |-> "pending", version |-> requests[r].version, by |-> r]
    /\ Goto(r, "running")
    /\ UNCHANGED <<cluster, row, files, overlap, faulted>>

\* helm upgrade --install: helm reaches no control plane, or refuses a release
\* another operation has pending.
HelmUpgrade(r) ==
    /\ At(r, "install", "helm")
    /\ IF ~cluster.servers \/ release.state = "pending"
       THEN UNCHANGED release /\ Goto(r, "failed") /\ files' = files \ {r}
       ELSE /\ release' = [state |-> "pending", version |-> requests[r].version, by |-> r]
            /\ Goto(r, "running") /\ UNCHANGED files
    /\ UNCHANGED <<cluster, row, overlap, faulted>>

\* Mutant of HelmUpgraded: the exit code is ignored.
HelmUpgradedAnyway(r) ==
    /\ At(r, "install", "running") /\ Goto(r, "ready")
    /\ \E s \in {"deployed", "failed", "pending"} :
         release' = IF release.by = r THEN [release EXCEPT !.state = s] ELSE release
    /\ files' = files \ {r}
    /\ UNCHANGED <<cluster, row, overlap, faulted>>

\* helm ends: the release is deployed, or failed, or still pending when the
\* command timed out and was killed, or gone when it was uninstalled meanwhile.
\* The kubeconfig is removed whatever the outcome.
HelmUpgraded(r) ==
    /\ At(r, "install", "running")
    /\ \/ /\ release.by = r /\ release' = [release EXCEPT !.state = "deployed"]
          /\ Goto(r, "ready")
       \/ /\ release.by = r /\ \E s \in {"failed", "pending"} : release' = [release EXCEPT !.state = s]
          /\ Goto(r, "failed")
       \/ /\ release.by # r /\ UNCHANGED release
          /\ Goto(r, "failed")
    /\ files' = files \ {r}
    /\ UNCHANGED <<cluster, row, overlap, faulted>>

\* Mutant of HelmUninstall: the kubeconfig is removed after a success only.
HelmUninstallKeeps(r) ==
    /\ At(r, "uninstall", "helm")
    /\ \/ /\ cluster.servers /\ release' = NoRelease
          /\ Goto(r, "uninstalled") /\ files' = files \ {r}
       \/ UNCHANGED <<release, files>> /\ Goto(r, "failed")
    /\ UNCHANGED <<cluster, row, overlap, faulted>>

\* helm uninstall: the release is removed, or was not found; or helm fails, as it
\* does without a control plane.
HelmUninstall(r) ==
    /\ At(r, "uninstall", "helm")
    /\ \/ /\ cluster.servers /\ release' = NoRelease
          /\ Goto(r, "uninstalled")
       \/ UNCHANGED release /\ Goto(r, "failed")
    /\ files' = files \ {r}
    /\ UNCHANGED <<cluster, row, overlap, faulted>>

\* The last update_status of a task, or its failure.
MarkResult(r) ==
    /\ requests[r].pc \in {"ready", "uninstalled", "failed"}
    /\ \/ row' = [row EXCEPT !.status = requests[r].pc] /\ UNCHANGED faulted
       \/ UNCHANGED row /\ faulted' = faulted \cup {r}
    /\ End(r)
    /\ UNCHANGED <<cluster, release, files, overlap>>

-----------------------------------------------------------------------------
Step(r) ==
    \/ SelectAddon(r) \/ InsertAddon(r) \/ MarkUninstalling(r) \/ StageKubeconfig(r)
    \/ Spawn(r) \/ MarkInstalling(r) \/ HelmUpgrade(r) \/ HelmUpgraded(r)
    \/ HelmUninstall(r) \/ MarkResult(r)

AddonsNext ==
    \/ \E r \in Request : Install(r) \/ Uninstall(r) \/ Drop(r) \/ Step(r)
    \/ Crash \/ BeginScale \/ EndScale \/ BeginDestroy \/ DeleteServers \/ EndDestroy

\* The statements of a handler and of a task end, helm within its timeout.
AddonsSpec == AddonsInit /\ [][AddonsNext]_addonsVars /\ \A r \in Request : WF_addonsVars(Step(r))

-----------------------------------------------------------------------------
\* run_install_addon and run_uninstall_addon: as long as the requests on the row
\* came one after the other, a ready row has its release deployed at the row's
\* version until a destroy takes the control plane, and an uninstalled one has
\* none, whatever was dropped, crashed, timed out or lost its status update, and
\* however far a destroy got that failed or was overwritten by a scale run.
StatusTellsRelease ==
    ~overlap =>
        /\ row.status = "ready" /\ cluster.servers =>
             release.state = "deployed" /\ release.version = row.version
        /\ row.status = "uninstalled" => release.state = "none"

\* The kubeconfig "shouldn't outlive the install": one that is left belongs to a
\* request that is in flight or met a fault.
KubeconfigsAreRemoved == \A r \in files : InFlight(r) \/ r \in faulted

\* helm's timeout and update_status: a row that is installing does not stay so,
\* unless a request met a fault.
InstallEnds == row.status = "installing" ~> (row.status # "installing" \/ faulted # {})

\* A request holds its kubeconfig from staging to the end of helm.
Staged(r) ==
    /\ r \in files => requests[r].pc \in {"spawn", "queued", "helm", "running", "over"}
    /\ r \in files /\ requests[r].pc = "over" => r \in faulted

\* What request r knows of the row and the release while it is alone with them.
Alone(r) ==
    LET q == requests[r] IN
    /\ q.op = "install" /\ q.pc \in {"stage", "spawn", "queued", "helm", "running", "ready"} =>
         q.version = row.version
    /\ q.op = "install" /\ q.pc \in {"helm", "running", "ready"} => row.status = "installing"
    /\ q.pc = "running" /\ release.by = r => release.version = q.version
    /\ q.pc = "ready" /\ cluster.servers =>
         release.state = "deployed" /\ release.version = q.version
    /\ q.op = "uninstall" /\ q.pc \in {"stage", "spawn", "helm", "uninstalled"} =>
         row.status = "uninstalling"
    /\ q.pc = "uninstalled" => release.state = "none"

\* A request is at a place of its operation.
Placed(r) ==
    LET q == requests[r] IN
    /\ q.pc \in {"select", "insert", "queued", "running", "ready"} => q.op = "install"
    /\ q.pc \in {"mark", "uninstalled"} => q.op = "uninstall"
    /\ InFlight(r) => q.op # "none"

\* The inductive invariant behind KubeconfigsAreRemoved and StatusTellsRelease: as
\* long as no requests overlapped, one is in flight at most, and it knows the row.
AddonsInv ==
    /\ AddonsTypeOK
    /\ \A r \in Request : Staged(r) /\ Placed(r)
    /\ ~overlap =>
         /\ \A q, r \in Request : InFlight(q) /\ InFlight(r) => q = r
         /\ \A r \in Request : Alone(r)
         /\ row.status = "ready" /\ cluster.servers =>
              release.state = "deployed" /\ release.version = row.version
         /\ row.status = "uninstalled" => release.state = "none"
=============================================================================
