------------------------ MODULE ClusterPatientProofs ------------------------
(***************************************************************************)
(* Proofs about ClusterLifecycle for a client that waits for a run to end  *)
(* before its next request, for any number of requests, workers, servers,  *)
(* faults and restarts: PatientInv is inductive, the properties of such a  *)
(* client follow from it, and the row implements ClusterStates.            *)
(***************************************************************************)
EXTENDS ClusterLifecycleProofs

(* A client that waits: one run is active at most, and PatientInv is a       *)
(* statement about that run and the rest of the state.                       *)

OtherSpoilt(r) == \E q \in Run \ {r} : Spoilt(q)
OtherRefused(r) == \E q \in Run \ {r} : Refused(q)

\* No other run is at work.
Alone(r) == \A q \in Run \ {r} : ~Active(q)

RowOf(r) ==
    /\ status = "absent" => ~deleted /\ ~kubeconfig /\ live = {} /\ cloud = {}
    /\ status = "destroyed" => deleted
    /\ deleted => status \in {"destroying", "destroyed"}
    /\ Active(r) => RowFits(r)

ServersOf(r) ==
    /\ Active(r) => ServersFit(r)
    /\ ~Spoilt(r) /\ ~OtherSpoilt(r) =>
         \A s \in cloud : s \in live \/ (Active(r) /\ Makes(r) /\ s \in runs[r].made)

StuckOf(r) ==
    status \in {"provisioning", "scaling", "destroying"} =>
        Works(r) \/ (status = "scaling" /\ (Refused(r) \/ OtherRefused(r)))

FleetOf(r) ==
    /\ Active(r) => FleetFits(r)
    /\ status = "ready" /\ (Active(r) /\ IsScale(r) => runs[r].pc = "admitted") =>
         live = cloud /\ Fleet(live, workerCount, 1)

DrainOf(r) ==
    runs[r].kind = "scale_in" /\ runs[r].pc \in {"drain", "delete", "forget", "settle", "done"}
        => runs[r].nodes = {s.index : s \in runs[r].made}

\* PatientInv as run r sees it.
PatientOf(r) ==
    /\ RowOf(r) /\ ServersOf(r)
    /\ Undisturbed => StuckOf(r) /\ FleetOf(r) /\ DrainOf(r)

\* For a run that is alone the two say the same.
LEMMA PatientAlone ==
    ASSUME NEW r \in Run, Alone(r)
    PROVE  PatientInv => PatientOf(r)
  <1> SUFFICES ASSUME PatientInv PROVE PatientOf(r)
    OBVIOUS
  <1>1. RowOf(r)
    BY DEF PatientInv, RowInv, RowOf
  <1>2. ServersOf(r)
    <2>1. ASSUME ~Spoilt(r), ~OtherSpoilt(r), NEW s \in cloud
          PROVE  s \in live \/ (Active(r) /\ Makes(r) /\ s \in runs[r].made)
      <3>1. \A q \in Run : ~Spoilt(q)
        BY <2>1 DEF OtherSpoilt
      <3>2. s \in live \/ \E q \in Run : Active(q) /\ Makes(q) /\ s \in runs[q].made
        BY <3>1, Zenon DEF PatientInv, ServersInv
      <3>3. ASSUME NEW q \in Run, Active(q), Makes(q), s \in runs[q].made
            PROVE  Active(r) /\ Makes(r) /\ s \in runs[r].made
        <4>1. q = r
          BY <3>3, Zenon DEF Alone
        <4> QED BY <3>3, <4>1
      <3> QED BY <3>2, <3>3, Zenon
    <2>2. Active(r) => ServersFit(r)
      BY DEF PatientInv, ServersInv
    <2> QED BY <2>1, <2>2 DEF ServersOf
  <1>3. ASSUME Undisturbed PROVE StuckOf(r) /\ FleetOf(r) /\ DrainOf(r)
    <2>1. StuckInv /\ FleetInv /\ DrainsWhatItDeletes
      BY <1>3 DEF PatientInv
    <2>2. StuckOf(r)
      <3>1. \A q \in Run \ {r} : ~Works(q)
        BY DEF Alone, Works
      <3>2. ASSUME status \in {"provisioning", "scaling", "destroying"}
            PROVE  Works(r) \/ (status = "scaling" /\ (Refused(r) \/ OtherRefused(r)))
        <4>1. (\E q \in Run : Works(q)) => Works(r)
          BY <3>1, Zenon
        <4>2. (\E q \in Run : Refused(q)) => Refused(r) \/ OtherRefused(r)
          BY Zenon DEF OtherRefused
        <4> QED BY <2>1, <3>2, <4>1, <4>2, Zenon DEF StuckInv
      <3> QED BY <3>2, Zenon DEF StuckOf
    <2>3. FleetOf(r)
      <3>1. ASSUME status = "ready", Active(r) /\ IsScale(r) => runs[r].pc = "admitted"
            PROVE  live = cloud /\ Fleet(live, workerCount, 1)
        <4>1. \A q \in Run : Active(q) /\ IsScale(q) => runs[q].pc = "admitted"
          BY <3>1 DEF Alone
        <4> QED BY <2>1, <3>1, <4>1 DEF FleetInv
      <3>2. Active(r) => FleetFits(r)
        BY <2>1 DEF FleetInv
      <3> QED BY <3>1, <3>2 DEF FleetOf
    <2>4. DrainOf(r)
      BY <1>3, <2>1 DEF DrainsWhatItDeletes, DrainOf
    <2> QED BY <2>2, <2>3, <2>4
  <1> QED BY <1>1, <1>2, <1>3 DEF PatientOf

\* A step of a run that is alone keeps PatientInv when it keeps it as that run
\* sees it.
LEMMA PatientAgain ==
    ASSUME NEW r \in Run, PatientInv, Alone(r), \A q \in Run \ {r} : runs'[q] = runs[q],
           faults \in Nat, crashes \in Nat, Undisturbed' => Undisturbed, PatientOf(r)'
    PROVE  PatientInv'
  <1>1. \A q \in Run \ {r} : ~Active(q)'
    BY DEF Alone, Active
  <1>2. RowInv'
    BY <1>1 DEF PatientOf, RowOf, RowInv
  <1>3. ServersInv'
    <2>1. ASSUME \A q \in Run : ~Spoilt(q)', NEW s \in cloud'
          PROVE  s \in live' \/ \E q \in Run : Active(q)' /\ Makes(q)' /\ s \in runs'[q].made
      <3>1. ~Spoilt(r)' /\ ~OtherSpoilt(r)'
        BY <2>1 DEF OtherSpoilt
      <3> QED BY <3>1 DEF PatientOf, ServersOf
    <2>2. \A q \in Run : Active(q)' => ServersFit(q)'
      BY <1>1 DEF PatientOf, ServersOf
    <2> QED BY <2>1, <2>2 DEF ServersInv
  <1>4. ASSUME Undisturbed' PROVE StuckInv' /\ FleetInv' /\ DrainsWhatItDeletes'
    <2>1. StuckOf(r)' /\ FleetOf(r)' /\ DrainOf(r)' /\ DrainsWhatItDeletes /\ Undisturbed
      BY <1>4 DEF PatientOf, PatientInv
    <2>2. StuckInv'
      BY <2>1 DEF StuckInv, StuckOf, OtherRefused
    <2>3. FleetInv'
      BY <1>1, <2>1 DEF FleetInv, FleetOf
    <2>4. DrainsWhatItDeletes'
      BY <2>1 DEF DrainsWhatItDeletes, DrainOf
    <2> QED BY <2>2, <2>3, <2>4
  <1> QED BY <1>2, <1>3, <1>4 DEF PatientInv

\* A step belongs to one run.
LEMMA StepIsOwn ==
    ASSUME runs \in [Run -> RunState], NEW r \in Run, Request(r) \/ Step(r) \/ Fault(r)
    PROVE  \A q \in Run \ {r} : runs'[q] = runs[q]
  <1>1. ASSUME NEW x, Put(r, x) PROVE \A q \in Run \ {r} : runs'[q] = runs[q]
    BY <1>1 DEF Put
  <1>2. \E x : Put(r, x)
    <2>1. CASE Request(r)
      BY <2>1, Zenon DEF Request, Create, Destroy, Scale
    <2>2. CASE Step(r)
      BY <2>2, Zenon DEF Step, Dispatch, Decline, Begin, BeginDestroy, MarkDestroying, OpenWorkflow,
           ListForDestroy, ListForScaleOut, JoinRefused, ListForScaleIn, CreateServer,
           CreateLost, ServersUp, ActivityFails, RecordServer, StoreKubeconfig, DrainNodes,
           NoKubeconfig, DeleteServer, DeleteFails, SoftDeleteServers, ForgetRow,
           FinalizeLookup, SoftDelete, Settle, CloseWorkflow, MarkFailed, Goto
    <2>3. CASE Fault(r)
      BY <2>3, Zenon DEF Fault, DropAfterCount, StatementFails, FailureIgnored, ForgetIgnored, Goto
    <2> QED BY <2>1, <2>2, <2>3
  <1> QED BY <1>1, <1>2

\* A client that waits: when a run takes a step, no other is at work.
LEMMA StepIsAlone ==
    ASSUME OneAtATime, RowInv, NEW r \in Run, Request(r) \/ Step(r) \/ Fault(r)
    PROVE  Alone(r)
  <1>1. CASE Request(r)
    BY <1>1, Zenon DEF Request, Create, Destroy, Scale, MaySend, Alone
  <1>2. CASE Step(r)
    <2>1. Active(r)
      BY <1>2, Zenon DEF Active, Ended, Step, Dispatch, Decline, Begin, BeginDestroy, MarkDestroying,
           OpenWorkflow, ListForDestroy, ListForScaleOut, JoinRefused, ListForScaleIn,
           CreateServer, CreateLost, ServersUp, ActivityFails, RecordServer, StoreKubeconfig,
           DrainNodes, NoKubeconfig, DeleteServer, DeleteFails, SoftDeleteServers, ForgetRow,
           FinalizeLookup, SoftDelete, Settle, CloseWorkflow, MarkFailed
    <2> QED BY <2>1 DEF RowInv, Alone
  <1>3. CASE Fault(r)
    <2>1. Active(r)
      BY <1>3, Zenon DEF Active, Ended, Fault, DropAfterCount, StatementFails, FailureIgnored,
           ForgetIgnored
    <2> QED BY <2>1 DEF RowInv, Alone
  <1> QED BY <1>1, <1>2, <1>3

\* Goto changes the place of the run and nothing else it holds.
LEMMA GotoFields ==
    ASSUME runs \in [Run -> RunState], NEW r \in Run, NEW pc, Goto(r, pc)
    PROVE  /\ runs'[r].pc = pc /\ runs'[r].kind = runs[r].kind /\ runs'[r].cp = runs[r].cp
           /\ runs'[r].index = runs[r].index /\ runs'[r].count = runs[r].count
           /\ runs'[r].todo = runs[r].todo /\ runs'[r].made = runs[r].made
           /\ runs'[r].nodes = runs[r].nodes
  <1>1. runs'[r] = [runs[r] EXCEPT !.pc = pc]
    BY DEF Goto, Put
  <1>2. runs[r] \in RunState
    OBVIOUS
  <1> QED BY <1>1, <1>2 DEF RunState

\* While a run works on the row and the row stays as it is, it shows the same run.
LEMMA WorkGoesOn ==
    ASSUME NEW r \in Run, runs[r].kind \in Kind, PcFitsKind(r), RowOf(r),
           Works(r), runs[r].pc # "settle",
           UNCHANGED row, runs'[r].kind = runs[r].kind,
           Works(r)', runs'[r].pc = "settle" => IsScale(r)
    PROVE  RowOf(r)' /\ StuckOf(r)' /\ status' = status /\ status \notin {"absent", "ready"}
  <1>1. status \notin {"absent", "ready"}
    BY DEF RowOf, RowFits, PcFitsKind, Works, Active, Ended, IsScale, Kind
  <1>2. StuckOf(r)'
    BY DEF StuckOf
  <1>3. RowOf(r)'
    <2>1. RowFits(r)'
      BY DEF RowOf, RowFits, PcFitsKind, Works, Active, Ended, IsScale, Kind, row
    <2> QED BY <1>1, <2>1 DEF RowOf, row
  <1> QED BY <1>1, <1>2, <1>3 DEF row

\* A run whose activity fails leaves the row to its error arm: nothing is owed to
\* the servers of a provision or scale-out from then on, and other runs only lose
\* servers.
LEMMA RunFails ==
    ASSUME NEW r \in Run, runs \in [Run -> RunState], PcFitsKind(r), RowOf(r), ServersOf(r),
           Undisturbed' => FleetOf(r),
           OtherSpoilt(r)' = OtherSpoilt(r),
           Works(r), runs[r].pc # "settle", Goto(r, "fail"), UNCHANGED <<row, live>>,
           ~Makes(r) => cloud' \subseteq cloud
    PROVE  PatientOf(r)'
  <1>1. /\ runs[r] \in RunState /\ runs[r].kind \in Kind
        /\ runs'[r].pc = "fail" /\ runs'[r].kind = runs[r].kind /\ runs'[r].cp = runs[r].cp
        /\ runs'[r].todo = runs[r].todo /\ runs'[r].made = runs[r].made
    BY GotoFields DEF RunState
  <1>2. Active(r) /\ Active(r)' /\ Works(r)'
    BY <1>1 DEF Works, Active, Ended
  <1>3. RowOf(r)' /\ StuckOf(r)' /\ status' \notin {"absent", "ready"}
    BY <1>1, <1>2, WorkGoesOn
  <1>4. ServersOf(r)'
    BY <1>1, <1>2 DEF ServersOf, ServersFit, Spoilt, Makes
  <1>5. ASSUME Undisturbed' PROVE FleetOf(r)' /\ DrainOf(r)'
    BY <1>1, <1>2, <1>3, <1>5, Zenon DEF FleetOf, FleetFits, DrainOf
  <1> QED BY <1>3, <1>4, <1>5 DEF PatientOf

\* A run that returns where it owes the row nothing more: before its task began,
\* after its last status, or on the early return of run_scale_out.
LEMMA RunReturns ==
    ASSUME NEW r \in Run, runs \in [Run -> RunState], PcFitsKind(r), PatientOf(r),
           OtherSpoilt(r)' = OtherSpoilt(r), OtherRefused(r)' = OtherRefused(r),
           UNCHANGED <<row, live, cloud, budget>>, NEW pc, Goto(r, pc),
           \/ runs[r].pc = "admitted" /\ pc = "rejected"
           \/ runs[r].pc = "close" /\ pc = "done"
           \/ runs[r].pc = "failclose" /\ pc = "failed"
           \/ runs[r].pc = "list" /\ runs[r].kind = "scale_out" /\ pc = "aborted"
    PROVE  PatientOf(r)'
  <1>1. /\ runs[r] \in RunState /\ runs[r].kind \in Kind
        /\ runs'[r].pc = pc /\ runs'[r].kind = runs[r].kind
        /\ runs'[r].todo = runs[r].todo /\ runs'[r].made = runs[r].made
    BY GotoFields DEF RunState
  <1>2. Active(r) /\ ~Active(r)'
    BY <1>1 DEF Active, Ended
  <1>3. RowOf(r) /\ ServersOf(r) /\ RowFits(r) /\ ServersFit(r)
    BY <1>2 DEF PatientOf, RowOf, ServersOf
  <1>4. RowOf(r)'
    BY <1>2, <1>3 DEF RowOf, row
  <1>5. ServersOf(r)'
    BY <1>1, <1>2, <1>3 DEF ServersOf, ServersFit, Spoilt, Makes, PcFitsKind
  <1>6. ASSUME Undisturbed' PROVE StuckOf(r)' /\ FleetOf(r)' /\ DrainOf(r)'
    <2>1. StuckOf(r) /\ FleetOf(r)
      BY <1>6 DEF PatientOf, Undisturbed, budget
    <2>2. CASE runs[r].pc = "list"
      <3>1. status = "scaling" /\ Refused(r)' /\ runs'[r].kind = "scale_out"
        BY <1>1, <1>3, <2>2 DEF RowFits, ServersFit, Refused, IsScale
      <3> QED BY <1>2, <3>1 DEF StuckOf, FleetOf, DrainOf, row
    <2>3. CASE runs[r].pc # "list"
      <3>1. StuckOf(r)'
        BY <1>1, <1>2, <2>1, <2>3 DEF StuckOf, Works, Refused, row
      <3>2. FleetOf(r)'
        BY <1>1, <1>2, <2>1, <2>3, Zenon DEF FleetOf, IsScale, PcFitsKind, row
      <3>3. DrainOf(r)'
        BY <1>1, <2>3 DEF DrainOf, PcFitsKind
      <3> QED BY <3>1, <3>2, <3>3
    <2> QED BY <2>2, <2>3
  <1> QED BY <1>4, <1>5, <1>6 DEF PatientOf

TaskStartMove(r) ==
    \/ Dispatch(r) \/ Decline(r) \/ Begin(r) \/ BeginDestroy(r)
    \/ MarkDestroying(r) \/ OpenWorkflow(r)

\* The start of a task, taken while no other run is at work, keeps the invariant as its
\* run sees it.
LEMMA TaskStartKeepsPatient ==
    ASSUME Inv, NEW r \in Run, PatientOf(r), UNCHANGED budget,
           OtherSpoilt(r)' = OtherSpoilt(r), OtherRefused(r)' = OtherRefused(r), TaskStartMove(r)
    PROVE  PatientOf(r)'
  <1> USE DEF row, tables, hetzner, budget, UpdateStatus, IsScale, Makes
  <1>1. /\ runs \in [Run -> RunState] /\ runs[r] \in RunState /\ runs[r].kind \in Kind
        /\ PcFitsKind(r) /\ RunDeletes(r)
    BY DEF Inv, TypeOK, RunInv, RunState
  <1>2. RowOf(r) /\ ServersOf(r)
    BY DEF PatientOf
  <1>3. ASSUME Undisturbed' PROVE StuckOf(r) /\ FleetOf(r) /\ DrainOf(r)
    BY <1>3 DEF PatientOf, Undisturbed
  <1>4. CASE Dispatch(r)
    <2>1. /\ runs[r].pc = "admitted" /\ UNCHANGED <<status, deleted, kubeconfig, live, cloud>>
          /\ workerCount' = IF IsScale(r) THEN runs[r].index ELSE workerCount
      BY <1>1, <1>4, Zenon DEF Dispatch
    <2>2. /\ runs'[r].pc = "begin" /\ runs'[r].index = 0
          /\ runs'[r].kind = runs[r].kind /\ runs'[r].cp = runs[r].cp
          /\ runs'[r].count = runs[r].count /\ runs'[r].todo = runs[r].todo
          /\ runs'[r].made = runs[r].made
      BY <1>1, <1>4 DEF Dispatch, Put, RunState
    <2>3. RowOf(r)'
      BY <1>1, <1>2, <2>1, <2>2 DEF RowOf, RowFits, Active, Ended
    <2>4. ServersOf(r)'
      BY <1>2, <2>1, <2>2 DEF ServersOf, ServersFit, Spoilt, Active, Ended
    <2>5. ASSUME Undisturbed' PROVE StuckOf(r)' /\ FleetOf(r)' /\ DrainOf(r)'
      <3>1. StuckOf(r)'
        BY <1>3, <2>1, <2>2, <2>5, Zenon DEF StuckOf, Works, Refused
      <3>2. Active(r) /\ RowFits(r) /\ FleetFits(r) /\ runs[r].made = {}
        BY <1>2, <1>3, <2>1, <2>5, Zenon DEF RowOf, ServersOf, ServersFit, FleetOf, Active, Ended
      <3>3. runs[r].count \in Nat /\ runs[r].index \in Nat /\ workerCount \in Nat
        BY <1>1 DEF RunState, Inv, TypeOK
      <3>4. IsScale(r) => status = "ready" /\ live = cloud /\ Fleet(live, workerCount, 1)
        BY <1>3, <2>1, <2>5, <3>2 DEF FleetOf, RowFits
      <3>5. DrainOf(r)'
        BY <2>2 DEF DrainOf
      <3>6. FleetOf(r)'
        <4>1. CASE runs[r].kind = "scale_out"
          <5>1. /\ workerCount' = workerCount + runs[r].count /\ ~runs[r].cp
                /\ workerCount' - runs[r].count = workerCount /\ runs[r].count <= workerCount'
            <6>1. ~runs[r].cp /\ runs[r].index = workerCount + runs[r].count
              BY <2>1, <3>2, <4>1, Zenon DEF FleetFits
            <6>2. workerCount' = runs[r].index
              BY <2>1, <4>1
            <6> QED BY <3>3, <6>1, <6>2
          <5>2. FleetFits(r)'
            BY <2>1, <2>2, <3>2, <3>4, <4>1, <5>1, Zenon DEF FleetFits
          <5> QED BY <2>2, <4>1, <5>2 DEF FleetOf, Active, Ended
        <4>2. CASE runs[r].kind = "scale_in"
          <5>1. workerCount = workerCount' + runs[r].count
            <6>1. workerCount = runs[r].index + runs[r].count
              BY <2>1, <3>2, <4>2, Zenon DEF FleetFits
            <6>2. workerCount' = runs[r].index
              BY <2>1, <4>2
            <6> QED BY <6>1, <6>2
          <5>2. FleetFits(r)'
            BY <2>1, <2>2, <3>2, <3>4, <4>2, <5>1, Zenon DEF FleetFits
          <5> QED BY <2>2, <4>2, <5>2 DEF FleetOf, Active, Ended
        <4>3. CASE ~IsScale(r)
          <5>1. FleetFits(r)'
            BY <2>1, <2>2, <3>2, <4>3, Zenon DEF FleetFits
          <5> QED BY <1>3, <2>1, <2>2, <2>5, <4>3, <5>1, Zenon DEF FleetOf, Active, Ended
        <4> QED BY <4>1, <4>2, <4>3
      <3> QED BY <3>1, <3>5, <3>6
    <2> QED BY <2>3, <2>4, <2>5 DEF PatientOf
  <1>5. CASE Decline(r)
    BY <1>1, <1>5, RunReturns DEF Decline
  <1>6. CASE Begin(r)
    <2>1. /\ runs[r].pc = "begin" /\ runs[r].kind # "destroy"
          /\ UNCHANGED <<deleted, kubeconfig, workerCount, live, cloud>>
          /\ status' = IF runs[r].kind = "provision" THEN "provisioning" ELSE "scaling"
      BY <1>1, <1>6, Zenon DEF Begin
    <2>2. /\ runs'[r].pc = IF runs[r].kind = "provision" THEN "open" ELSE "list"
          /\ runs'[r].kind = runs[r].kind /\ runs'[r].cp = runs[r].cp
          /\ runs'[r].index = runs[r].index /\ runs'[r].count = runs[r].count
          /\ runs'[r].todo = runs[r].todo /\ runs'[r].made = runs[r].made
      BY <1>1, <1>6, GotoFields, Zenon DEF Begin
    <2>3. Active(r) /\ Active(r)' /\ Works(r)'
      BY <2>1, <2>2, Zenon DEF Works, Active, Ended
    <2>4. status' = IF runs[r].kind = "provision" THEN "provisioning" ELSE "scaling"
      BY <2>1
    <2>5. RowOf(r)'
      <3>1. ~deleted /\ (runs[r].kind = "provision" => ~kubeconfig)
        BY <1>2, <2>1, <2>3 DEF RowOf, RowFits
      <3>2. UNCHANGED <<deleted, kubeconfig>> /\ runs[r].kind # "destroy"
        BY <2>1
      <3>3. RowFits(r)'
        BY <2>2, <2>4, <3>1, <3>2, Zenon DEF RowFits
      <3> QED BY <2>4, <3>1, <3>2, <3>3 DEF RowOf
    <2>6. ServersOf(r)'
      BY <1>2, <2>1, <2>2, <2>3, Zenon DEF ServersOf, ServersFit, Spoilt
    <2>7. StuckOf(r)' /\ DrainOf(r)'
      BY <2>2, <2>3, Zenon DEF StuckOf, DrainOf
    <2>8. ASSUME Undisturbed' PROVE FleetOf(r)'
      <3>1. FleetFits(r)'
        BY <1>2, <1>3, <2>1, <2>2, <2>3, <2>8, Zenon DEF FleetOf, FleetFits
      <3> QED BY <2>4, <3>1, Zenon DEF FleetOf
    <2> QED BY <2>5, <2>6, <2>7, <2>8 DEF PatientOf
  <1>7. CASE BeginDestroy(r)
    <2>1. /\ runs[r].pc = "begin" /\ runs[r].kind = "destroy"
          /\ UNCHANGED <<row, live, cloud>>
      BY <1>1, <1>7, Zenon DEF BeginDestroy
    <2>2. /\ runs'[r].pc = "mark" /\ runs'[r].kind = "destroy"
          /\ runs'[r].todo = runs[r].todo /\ runs'[r].made = runs[r].made
      <3>1. ~deleted /\ status # "destroyed"
        BY <1>2, <2>1 DEF RowOf, RowFits, Active, Ended
      <3>2. Goto(r, "mark")
        BY <1>7, <3>1 DEF BeginDestroy
      <3> QED BY <1>1, <2>1, <3>2, GotoFields, Zenon
    <2>3. RowOf(r)'
      BY <1>2, <2>1, <2>2 DEF RowOf, RowFits, Active, Ended
    <2>4. ServersOf(r)'
      BY <1>2, <2>1, <2>2, Zenon DEF ServersOf, ServersFit, Spoilt, Active, Ended
    <2>5. ASSUME Undisturbed' PROVE StuckOf(r)' /\ FleetOf(r)' /\ DrainOf(r)'
      BY <1>3, <2>1, <2>2, <2>5, Zenon
         DEF StuckOf, Works, Refused, FleetOf, FleetFits, DrainOf
    <2> QED BY <2>3, <2>4, <2>5 DEF PatientOf
  <1>8. CASE MarkDestroying(r)
    <2>1. /\ runs[r].pc = "mark" /\ runs[r].kind = "destroy" /\ status' = "destroying"
          /\ UNCHANGED <<deleted, kubeconfig, workerCount, live, cloud>>
      BY <1>1, <1>8, Zenon DEF MarkDestroying, PcFitsKind
    <2>2. /\ runs'[r].pc = "list" /\ runs'[r].kind = "destroy"
          /\ runs'[r].todo = runs[r].todo /\ runs'[r].made = runs[r].made
      BY <1>1, <1>8, GotoFields, Zenon DEF MarkDestroying, PcFitsKind
    <2>3. RowOf(r)'
      BY <1>1, <1>2, <2>1, <2>2 DEF RowOf, RowFits, PcFitsKind, Active, Ended
    <2>4. ServersOf(r)'
      BY <1>2, <2>1, <2>2, Zenon DEF ServersOf, ServersFit, Spoilt, Active, Ended
    <2>5. StuckOf(r)' /\ FleetOf(r)' /\ DrainOf(r)'
      BY <2>1, <2>2, Zenon DEF StuckOf, Works, FleetOf, FleetFits, DrainOf, Active, Ended
    <2> QED BY <2>3, <2>4, <2>5 DEF PatientOf
  <1>9. CASE OpenWorkflow(r)
    <2>1. /\ runs[r].pc = "open" /\ UNCHANGED <<row, live, cloud>>
      BY <1>1, <1>9, Zenon DEF OpenWorkflow
    <2>2. /\ runs'[r].pc = "create" /\ runs[r].kind = "provision" /\ runs'[r].kind = "provision"
          /\ runs'[r].cp = runs[r].cp /\ runs'[r].index = runs[r].index
          /\ runs'[r].count = runs[r].count
          /\ runs'[r].todo = runs[r].todo /\ runs'[r].made = runs[r].made
      BY <1>1, <1>9, GotoFields, Zenon DEF OpenWorkflow, PcFitsKind
    <2>3. Active(r) /\ Active(r)' /\ Works(r) /\ Works(r)'
      BY <2>1, <2>2, Zenon DEF Works, Active, Ended
    <2>4. RowOf(r)' /\ StuckOf(r)' /\ status' # "ready"
      BY <1>1, <1>2, <2>1, <2>2, <2>3, WorkGoesOn, Zenon
    <2>5. ServersOf(r)'
      BY <1>2, <2>1, <2>2, <2>3, Zenon DEF ServersOf, ServersFit, Spoilt
    <2>6. ASSUME Undisturbed' PROVE FleetOf(r)'
      <3>1. FleetFits(r)
        BY <1>3, <2>3, <2>6, Zenon DEF FleetOf
      <3>2. workerCount \in Nat /\ workerCount - workerCount = 0
        BY DEF Inv, TypeOK
      <3>3. /\ runs[r].cp /\ runs[r].index = 0 /\ runs[r].count = workerCount
            /\ cloud = live \cup runs[r].made /\ Fleet(cloud, workerCount - runs[r].count, 0)
        BY <2>1, <2>2, <3>1, Zenon DEF FleetFits
      <3>4. Cardinality(Workers(cloud)) = 0
        BY <3>2, <3>3 DEF Fleet
      <3>5. runs'[r].count <= workerCount' /\ workerCount' - runs'[r].count = workerCount - runs[r].count
        BY <2>1, <2>2, <3>2, <3>3
      <3>6. FleetFits(r)'
        BY <2>1, <2>2, <3>3, <3>4, <3>5, Zenon DEF FleetFits
      <3> QED BY <2>4, <3>6, Zenon DEF FleetOf
    <2>7. DrainOf(r)'
      BY <2>2 DEF DrainOf
    <2> QED BY <2>4, <2>5, <2>6, <2>7 DEF PatientOf
  <1> QED
    BY <1>4, <1>5, <1>6, <1>7, <1>8, <1>9 DEF TaskStartMove

ListingMove(r) ==
    \/ ListForDestroy(r) \/ ListForScaleOut(r) \/ JoinRefused(r)
    \/ ListForScaleIn(r)

\* So does reading the rows a task works from.
LEMMA ListingKeepsPatient ==
    ASSUME Inv, NEW r \in Run, PatientOf(r), UNCHANGED budget,
           OtherSpoilt(r)' = OtherSpoilt(r), OtherRefused(r)' = OtherRefused(r), ListingMove(r)
    PROVE  PatientOf(r)'
  <1> USE DEF row, tables, hetzner, budget, UpdateStatus, IsScale, Makes
  <1>1. /\ runs \in [Run -> RunState] /\ runs[r] \in RunState /\ runs[r].kind \in Kind
        /\ PcFitsKind(r) /\ RunDeletes(r)
    BY DEF Inv, TypeOK, RunInv, RunState
  <1>2. RowOf(r) /\ ServersOf(r)
    BY DEF PatientOf
  <1>3. ASSUME Undisturbed' PROVE StuckOf(r) /\ FleetOf(r) /\ DrainOf(r)
    BY <1>3 DEF PatientOf, Undisturbed
  <1>4. CASE ListForDestroy(r)
    <2>1. /\ runs[r].pc = "list" /\ UNCHANGED <<row, live, cloud>>
      BY <1>1, <1>4, Zenon DEF ListForDestroy
    <2>2. /\ runs[r].kind = "destroy" /\ runs'[r].kind = "destroy"
          /\ runs'[r].pc = IF live = {} THEN "forget" ELSE "delete"
          /\ runs'[r].todo = live /\ runs'[r].made = live
      BY <1>1, <1>4 DEF ListForDestroy, Put, RunState
    <2>3. Active(r) /\ Works(r) /\ Works(r)'
      BY <2>1, <2>2 DEF Works, Active, Ended
    <2>4. RowOf(r)' /\ StuckOf(r)' /\ status' # "ready"
      BY <1>1, <1>2, <2>1, <2>2, <2>3, WorkGoesOn, Zenon
    <2>5. ServersOf(r)'
      BY <1>2, <2>1, <2>2, <2>3, Zenon DEF ServersOf, ServersFit, Spoilt
    <2>6. FleetOf(r)' /\ DrainOf(r)'
      BY <2>2, <2>4, Zenon DEF FleetOf, FleetFits, DrainOf
    <2> QED BY <2>4, <2>5, <2>6 DEF PatientOf
  <1>5. CASE ListForScaleOut(r)
    <2>1. /\ runs[r].pc = "list" /\ UNCHANGED <<row, live, cloud>>
      BY <1>1, <1>5, Zenon DEF ListForScaleOut
    <2>2. /\ runs[r].kind = "scale_out" /\ runs'[r].kind = "scale_out" /\ runs'[r].pc = "create"
          /\ runs'[r].index = Cardinality(Workers(live)) /\ runs'[r].cp = runs[r].cp
          /\ runs'[r].count = runs[r].count
          /\ runs'[r].todo = runs[r].todo /\ runs'[r].made = runs[r].made
      BY <1>1, <1>5 DEF ListForScaleOut, Put, RunState
    <2>3. Active(r) /\ Works(r) /\ Works(r)'
      BY <2>1, <2>2 DEF Works, Active, Ended
    <2>4. RowOf(r)' /\ StuckOf(r)' /\ status' # "ready"
      BY <1>1, <1>2, <2>1, <2>2, <2>3, WorkGoesOn, Zenon
    <2>5. ServersOf(r)' /\ runs[r].made = {}
      BY <1>2, <2>1, <2>2, <2>3, Zenon DEF ServersOf, ServersFit, Spoilt, Works
    <2>6. ASSUME Undisturbed' PROVE FleetOf(r)'
      <3>1. FleetFits(r)
        BY <1>3, <2>3, <2>6, Zenon DEF FleetOf
      <3>2. cloud = live
        <4>1. cloud = live \cup runs[r].made
          BY <2>1, <2>2, <3>1, Zenon DEF FleetFits
        <4> QED BY <2>5, <4>1
      <3>3. FleetFits(r)'
        BY <2>1, <2>2, <2>5, <3>1, <3>2, Zenon DEF FleetFits
      <3> QED BY <2>4, <3>3 DEF FleetOf
    <2>7. DrainOf(r)'
      BY <2>2, Zenon DEF DrainOf
    <2> QED BY <2>4, <2>5, <2>6, <2>7, Zenon DEF PatientOf
  <1>6. CASE JoinRefused(r)
    BY <1>1, <1>6, RunReturns DEF JoinRefused
  <1>7. CASE ListForScaleIn(r)
    <2>1. /\ runs[r].pc = "list" /\ UNCHANGED <<row, live, cloud>>
      BY <1>1, <1>7, Zenon DEF ListForScaleIn
    <2> DEFINE victims == Youngest(runs[r].count, live)
    <2>2. /\ runs[r].kind = "scale_in" /\ runs'[r].kind = "scale_in" /\ runs'[r].pc = "drain"
          /\ runs'[r].todo = victims /\ runs'[r].made = victims
          /\ runs'[r].nodes = {Position(s, live) : s \in victims}
      BY <1>1, <1>7 DEF ListForScaleIn, Put, RunState
    <2>3. Active(r) /\ Works(r) /\ Works(r)'
      BY <2>1, <2>2, Zenon DEF Works, Active, Ended
    <2>4. RowOf(r)' /\ StuckOf(r)' /\ status' # "ready"
      BY <1>1, <1>2, <2>1, <2>2, <2>3, WorkGoesOn, Zenon
    <2>5. ServersOf(r)'
      BY <1>2, <2>1, <2>2, <2>3, Zenon DEF ServersOf, ServersFit, Spoilt
    <2>6. ASSUME Undisturbed' PROVE FleetOf(r)' /\ DrainOf(r)'
      <3>1. /\ live \in SUBSET Server /\ workerCount \in Nat /\ runs[r].count \in Nat
            /\ live = cloud /\ Fleet(live, workerCount + runs[r].count, 1)
        <4>1. live \in SUBSET Server /\ workerCount \in Nat /\ runs[r].count \in Nat
          BY <1>1 DEF Inv, TypeOK, RunState
        <4>2. FleetFits(r)
          BY <1>3, <2>3, <2>6, Zenon DEF FleetOf
        <4> QED BY <2>1, <2>2, <4>1, <4>2, Zenon DEF FleetFits
      <3>2. Fleet(live \ victims, workerCount, 1)
        BY <3>1, FleetShrinks, Zenon
      <3>3. FleetFits(r)'
        BY <2>1, <2>2, <3>1, <3>2, Zenon DEF FleetFits
      <3>4. \A s \in victims : Position(s, live) = s.index
        BY <3>1 DEF Fleet, Youngest
      <3>5. runs'[r].nodes = {s.index : s \in runs'[r].made}
        BY <2>2, <3>4, Zenon
      <3> QED BY <2>4, <3>3, <3>5, Zenon DEF FleetOf, DrainOf
    <2> QED BY <2>4, <2>5, <2>6 DEF PatientOf
  <1> QED
    BY <1>4, <1>5, <1>6, <1>7 DEF ListingMove

MakingMove(r) ==
    \/ CreateServer(r) \/ CreateLost(r) \/ ServersUp(r) \/ ActivityFails(r)
    \/ RecordServer(r) \/ StoreKubeconfig(r)

\* So does creating and recording servers: the fleet grows by one server at a time.
LEMMA MakingKeepsPatient ==
    ASSUME Inv, NEW r \in Run, PatientOf(r), UNCHANGED budget,
           OtherSpoilt(r)' = OtherSpoilt(r), OtherRefused(r)' = OtherRefused(r), MakingMove(r)
    PROVE  PatientOf(r)'
  <1> USE DEF row, tables, hetzner, budget, UpdateStatus, IsScale, Makes
  <1>1. /\ runs \in [Run -> RunState] /\ runs[r] \in RunState /\ runs[r].kind \in Kind
        /\ PcFitsKind(r) /\ RunDeletes(r)
    BY DEF Inv, TypeOK, RunInv, RunState
  <1>2. RowOf(r) /\ ServersOf(r)
    BY DEF PatientOf
  <1>3. ASSUME Undisturbed' PROVE StuckOf(r) /\ FleetOf(r) /\ DrainOf(r)
    BY <1>3 DEF PatientOf, Undisturbed
  <1>4. CASE CreateServer(r)
    <2> DEFINE e == NewServer(r)
    <2>1. /\ runs'[r].kind = runs[r].kind /\ runs'[r].pc = "create" /\ ~runs'[r].cp
          /\ runs'[r].index = IF runs[r].cp THEN runs[r].index ELSE runs[r].index + 1
          /\ runs'[r].count = IF runs[r].cp THEN runs[r].count ELSE runs[r].count - 1
          /\ runs'[r].todo = runs[r].todo /\ runs'[r].made = runs[r].made \cup {e}
      BY <1>1, <1>4 DEF CreateServer, Put, RunState
    <2>2. /\ runs[r].pc = "create" /\ cloud' = cloud \cup {e} /\ UNCHANGED <<live, row>>
          /\ runs[r].cp \/ runs[r].count > 0
      BY <1>4 DEF CreateServer
    <2> HIDE DEF e
    <2>3. Active(r) /\ Active(r)' /\ Works(r) /\ Works(r)' /\ Makes(r) /\ Makes(r)'
      BY <1>1, <2>1, <2>2, Zenon DEF Works, Active, Ended, PcFitsKind
    <2>4. RowOf(r)' /\ StuckOf(r)' /\ status' # "ready"
      BY <1>1, <1>2, <2>1, <2>2, <2>3, WorkGoesOn, Zenon
    <2>5. ServersOf(r)'
      BY <1>2, <2>1, <2>2, <2>3, Zenon DEF ServersOf, ServersFit, Spoilt
    <2>6. ASSUME Undisturbed' PROVE FleetOf(r)'
      <3>1. FleetFits(r)
        BY <1>3, <2>3, <2>6, Zenon DEF FleetOf
      <3> DEFINE n == workerCount - runs[r].count
      <3>2. /\ workerCount \in Nat /\ runs[r].count \in Nat /\ runs[r].index \in Nat
            /\ cloud \in SUBSET Server /\ nextId \in Nat /\ \A s \in cloud : s.id < nextId
        BY <1>1 DEF Inv, TypeOK, RunState
      <3>3. /\ cloud = live \cup runs[r].made /\ runs[r].count <= workerCount
            /\ Fleet(cloud, n, IF runs[r].cp THEN 0 ELSE 1)
            /\ runs[r].index = Cardinality(Workers(cloud))
        BY <2>2, <2>3, <3>1, Zenon DEF FleetFits
      <3>4. n \in Nat /\ runs[r].index = n
        BY <3>2, <3>3 DEF Fleet
      <3>5. /\ e \in Server /\ \A s \in cloud : s.id < e.id
            /\ runs[r].cp => e.role # "worker"
            /\ ~runs[r].cp => e.role = "worker" /\ e.index = n
        BY <3>2, <3>4, Zenon DEF e, NewServer, Server
      <3> HIDE DEF n
      <3>6. Fleet(cloud', workerCount' - runs'[r].count, 1)
        <4>1. CASE runs[r].cp
          <5>1. Fleet(cloud \cup {e}, n, 0 + 1)
            BY <3>2, <3>3, <3>4, <3>5, <4>1, FleetGrows, Zenon
          <5> QED BY <2>1, <2>2, <4>1, <5>1 DEF n
        <4>2. CASE ~runs[r].cp
          <5>1. Fleet(cloud \cup {e}, n + 1, 1)
            BY <3>2, <3>3, <3>4, <3>5, <4>2, FleetGrows, Zenon
          <5>2. workerCount' - runs'[r].count = n + 1
            <6>1. workerCount' = workerCount /\ runs'[r].count = runs[r].count - 1
              BY <2>1, <2>2, <4>2
            <6> QED BY <3>2, <6>1 DEF n
          <5> QED BY <2>2, <5>1, <5>2
        <4> QED BY <4>1, <4>2
      <3>7. runs'[r].count <= workerCount' /\ runs'[r].index = workerCount' - runs'[r].count
        <4>1. workerCount' = workerCount /\ runs[r].count <= workerCount
          BY <2>2, <3>3
        <4>2. CASE runs[r].cp
          <5>1. runs'[r].count = runs[r].count /\ runs'[r].index = runs[r].index
            BY <2>1, <4>2
          <5> QED BY <3>4, <4>1, <5>1 DEF n
        <4>3. CASE ~runs[r].cp
          <5>1. runs'[r].count = runs[r].count - 1 /\ runs'[r].index = runs[r].index + 1
            BY <2>1, <4>3
          <5> QED BY <3>2, <3>4, <4>1, <5>1 DEF n
        <4> QED BY <4>2, <4>3
      <3>8. runs'[r].index = Cardinality(Workers(cloud'))
        BY <3>6, <3>7 DEF Fleet
      <3>9. FleetFits(r)'
        BY <2>1, <2>2, <3>3, <3>6, <3>7, <3>8, Zenon DEF FleetFits
      <3> QED BY <2>4, <3>9 DEF FleetOf
    <2>7. DrainOf(r)'
      BY <2>1 DEF DrainOf
    <2> QED BY <2>4, <2>5, <2>6, <2>7 DEF PatientOf
  <1>5. CASE CreateLost(r)
    <2>1. Works(r) /\ Makes(r)
      BY <1>1, <1>5 DEF CreateLost, Works, Active, Ended, PcFitsKind
    <2> QED BY <1>1, <1>2, <1>3, <1>5, <2>1, RunFails DEF CreateLost
  <1>6. CASE ServersUp(r)
    <2>1. /\ runs[r].pc = "create" /\ ~runs[r].cp /\ runs[r].count = 0 /\ UNCHANGED <<row, live, cloud>>
      BY <1>1, <1>6, Zenon DEF ServersUp
    <2>2. /\ runs'[r].kind = runs[r].kind /\ runs'[r].pc = "record" /\ runs'[r].cp = runs[r].cp
          /\ runs'[r].todo = runs[r].made /\ runs'[r].made = runs[r].made
      BY <1>1, <1>6 DEF ServersUp, Put, RunState
    <2>3. Active(r) /\ Active(r)' /\ Works(r) /\ Works(r)' /\ Makes(r)
      BY <1>1, <2>1, <2>2, Zenon DEF Works, Active, Ended, PcFitsKind
    <2>4. RowOf(r)' /\ StuckOf(r)' /\ status' # "ready"
      BY <1>1, <1>2, <2>1, <2>2, <2>3, WorkGoesOn, Zenon
    <2>5. ServersOf(r)'
      BY <1>2, <2>1, <2>2, <2>3, Zenon DEF ServersOf, ServersFit, Spoilt
    <2>6. ASSUME Undisturbed' PROVE FleetOf(r)'
      <3>1. FleetFits(r) /\ workerCount \in Nat /\ workerCount - 0 = workerCount
        BY <1>3, <2>3, <2>6 DEF FleetOf, Inv, TypeOK
      <3>2. cloud = live \cup runs[r].made /\ Fleet(cloud, workerCount, 1)
        BY <2>1, <2>3, <3>1, Zenon DEF FleetFits
      <3>3. FleetFits(r)'
        BY <2>1, <2>2, <2>3, <3>2, Zenon DEF FleetFits
      <3> QED BY <2>4, <3>3 DEF FleetOf
    <2>7. DrainOf(r)'
      BY <2>2 DEF DrainOf
    <2> QED BY <2>4, <2>5, <2>6, <2>7 DEF PatientOf
  <1>7. CASE ActivityFails(r)
    <2>1. Works(r) /\ runs[r].pc # "settle"
      BY <1>7 DEF ActivityFails, Works, Active, Ended
    <2> QED BY <1>1, <1>2, <1>3, <1>7, <2>1, RunFails DEF ActivityFails
  <1>8. CASE RecordServer(r)
    <2>1. PICK s \in runs[r].todo :
            /\ live' = live \cup {s}
            /\ Put(r, [runs[r] EXCEPT !.todo = @ \ {s},
                   !.pc = IF runs[r].todo # {s} THEN "record"
                          ELSE IF runs[r].kind = "provision" THEN "kube" ELSE "settle"])
      BY <1>8, Zenon DEF RecordServer
    <2>2. /\ runs'[r].kind = runs[r].kind /\ runs'[r].cp = runs[r].cp
          /\ runs'[r].pc = IF runs[r].todo # {s} THEN "record"
                           ELSE IF runs[r].kind = "provision" THEN "kube" ELSE "settle"
          /\ runs'[r].todo = runs[r].todo \ {s} /\ runs'[r].made = runs[r].made
      BY <1>1, <2>1 DEF Put, RunState
    <2>3. runs[r].pc = "record" /\ UNCHANGED <<cloud, row>>
      BY <1>8 DEF RecordServer
    <2>4. Active(r) /\ Active(r)' /\ Works(r) /\ Works(r)' /\ Makes(r)
      BY <1>1, <2>2, <2>3 DEF Works, Active, Ended, PcFitsKind
    <2>5. RowOf(r)' /\ StuckOf(r)' /\ status' # "ready"
      <3>1. runs'[r].pc = "settle" => IsScale(r)
        BY <2>2, <2>4, Zenon
      <3> QED BY <1>1, <1>2, <2>2, <2>3, <2>4, <3>1, WorkGoesOn, Zenon
    <2>6. ServersOf(r)' /\ s \in runs[r].made
      <3>1. ServersFit(r)
        BY <1>2, <2>4, Zenon DEF ServersOf
      <3>2. ServersFit(r)' /\ s \in runs[r].made
        BY <2>1, <2>2, <2>3, <2>4, <3>1 DEF ServersFit
      <3> QED BY <1>2, <2>1, <2>2, <2>3, <2>4, <3>2 DEF ServersOf, Spoilt
    <2>7. ASSUME Undisturbed' PROVE FleetOf(r)'
      <3>1. FleetFits(r)
        BY <1>3, <2>4, <2>7 DEF FleetOf
      <3>2. cloud' = live' \cup runs'[r].made /\ Fleet(cloud', workerCount', 1)
        <4>1. cloud = live \cup runs[r].made /\ Fleet(cloud, workerCount, 1)
          BY <2>3, <2>4, <3>1, Zenon DEF FleetFits
        <4> QED BY <2>1, <2>2, <2>3, <2>6, <4>1
      <3>3. FleetFits(r)'
        BY <2>2, <2>4, <3>1, <3>2, Zenon DEF FleetFits
      <3> QED BY <2>5, <3>3, Zenon DEF FleetOf
    <2>8. DrainOf(r)'
      BY <2>2, <2>4, Zenon DEF DrainOf
    <2> QED BY <2>5, <2>6, <2>7, <2>8, Zenon DEF PatientOf
  <1>9. CASE StoreKubeconfig(r)
    <2>1. /\ runs[r].pc = "kube" /\ runs[r].kind = "provision" /\ Active(r) /\ RowFits(r)
          /\ status = "provisioning" /\ ~deleted /\ ~kubeconfig
      BY <1>1, <1>2, <1>9 DEF StoreKubeconfig, RowOf, RowFits, PcFitsKind, Active, Ended
    <2>2. Goto(r, "settle") /\ kubeconfig' = TRUE /\ UNCHANGED <<status, deleted, workerCount, live, cloud>>
      BY <1>9, <2>1, Zenon DEF StoreKubeconfig
    <2>3. /\ runs'[r].pc = "settle" /\ runs'[r].kind = "provision" /\ runs'[r].cp = runs[r].cp
          /\ runs'[r].todo = runs[r].todo /\ runs'[r].made = runs[r].made
      BY <1>1, <2>1, <2>2, GotoFields, Zenon
    <2>4. Active(r)' /\ Works(r)'
      BY <2>3 DEF Works, Active, Ended
    <2>5. RowOf(r)'
      BY <2>1, <2>2, <2>3, Zenon DEF RowOf, RowFits
    <2>6. ServersOf(r)'
      BY <1>2, <2>1, <2>2, <2>3, <2>4, Zenon DEF ServersOf, ServersFit, Spoilt
    <2>7. StuckOf(r)' /\ DrainOf(r)'
      BY <2>3, <2>4, Zenon DEF StuckOf, DrainOf
    <2>8. ASSUME Undisturbed' PROVE FleetOf(r)'
      BY <1>3, <2>1, <2>2, <2>3, <2>8, Zenon DEF FleetOf, FleetFits
    <2> QED BY <2>5, <2>6, <2>7, <2>8 DEF PatientOf
  <1> QED
    BY <1>4, <1>5, <1>6, <1>7, <1>8, <1>9 DEF MakingMove

RemovingMove(r) ==
    \/ DrainNodes(r) \/ NoKubeconfig(r) \/ DeleteServer(r) \/ DeleteFails(r)

\* So does draining and deleting servers.
LEMMA RemovingKeepsPatient ==
    ASSUME Inv, NEW r \in Run, PatientOf(r), UNCHANGED budget,
           OtherSpoilt(r)' = OtherSpoilt(r), OtherRefused(r)' = OtherRefused(r), RemovingMove(r)
    PROVE  PatientOf(r)'
  <1> USE DEF row, tables, hetzner, budget, UpdateStatus, IsScale, Makes
  <1>1. /\ runs \in [Run -> RunState] /\ runs[r] \in RunState /\ runs[r].kind \in Kind
        /\ PcFitsKind(r) /\ RunDeletes(r)
    BY DEF Inv, TypeOK, RunInv, RunState
  <1>2. RowOf(r) /\ ServersOf(r)
    BY DEF PatientOf
  <1>3. ASSUME Undisturbed' PROVE StuckOf(r) /\ FleetOf(r) /\ DrainOf(r)
    BY <1>3 DEF PatientOf, Undisturbed
  <1>4. CASE DrainNodes(r)
    <2>1. /\ runs[r].pc = "drain" /\ runs[r].kind = "scale_in" /\ runs[r].made = runs[r].todo
          /\ UNCHANGED <<row, live, cloud>>
      BY <1>1, <1>4 DEF DrainNodes, PcFitsKind, RunDeletes
    <2>2. /\ runs'[r].pc = IF runs[r].todo = {} THEN "settle" ELSE "delete"
          /\ runs'[r].kind = runs[r].kind /\ runs'[r].nodes = runs[r].nodes
          /\ runs'[r].todo = runs[r].todo /\ runs'[r].made = runs[r].made
      BY <1>1, <1>4, GotoFields, Zenon DEF DrainNodes
    <2>3. Active(r) /\ Active(r)' /\ Works(r) /\ Works(r)'
      BY <2>1, <2>2 DEF Works, Active, Ended
    <2>4. RowOf(r)' /\ StuckOf(r)' /\ status' # "ready"
      BY <1>1, <1>2, <2>1, <2>2, <2>3, WorkGoesOn, Zenon
    <2>5. ServersOf(r)'
      BY <1>2, <2>1, <2>2, <2>3, Zenon DEF ServersOf, ServersFit, Spoilt
    <2>6. ASSUME Undisturbed' PROVE FleetOf(r)' /\ DrainOf(r)'
      <3>1. live = cloud /\ Fleet(live \ runs[r].made, workerCount, 1)
        BY <1>3, <2>1, <2>3, <2>6, Zenon DEF FleetOf, FleetFits
      <3>2. FleetFits(r)'
        BY <2>1, <2>2, <3>1, Zenon DEF FleetFits
      <3>3. DrainOf(r)'
        BY <1>3, <2>1, <2>2, <2>6, Zenon DEF DrainOf
      <3> QED BY <2>4, <3>2, <3>3, Zenon DEF FleetOf
    <2> QED BY <2>4, <2>5, <2>6 DEF PatientOf
  <1>5. CASE NoKubeconfig(r)
    <2>1. runs[r].pc = "drain" /\ runs[r].kind = "scale_in" /\ kubeconfig
      BY <1>1, <1>5 DEF NoKubeconfig, PcFitsKind, Inv, RunInv, RunHasKubeconfig
    <2>2. ~deleted
      BY <1>2, <2>1, Zenon DEF RowOf, RowFits, Active, Ended
    <2> QED BY <1>5, <2>1, <2>2, Zenon DEF NoKubeconfig
  <1>6. CASE DeleteServer(r)
    <2>1. PICK s \in runs[r].todo :
            /\ cloud' = cloud \ {s}
            /\ Put(r, [runs[r] EXCEPT
                   !.pc = IF runs[r].todo = {s} THEN "forget" ELSE "delete",
                   !.todo = IF runs[r].todo = {s} THEN runs[r].made ELSE @ \ {s}])
      BY <1>6, Zenon DEF DeleteServer
    <2>2. /\ runs'[r].kind = runs[r].kind /\ runs'[r].made = runs[r].made
          /\ runs'[r].pc = IF runs[r].todo = {s} THEN "forget" ELSE "delete"
          /\ runs'[r].todo = IF runs[r].todo = {s} THEN runs[r].made ELSE runs[r].todo \ {s}
          /\ runs'[r].nodes = runs[r].nodes
      BY <1>1, <2>1 DEF Put, RunState
    <2>3. /\ runs[r].pc = "delete" /\ runs[r].kind \in {"destroy", "scale_in"}
          /\ UNCHANGED <<row, live>>
      BY <1>1, <1>6 DEF DeleteServer, PcFitsKind
    <2>4. Active(r) /\ Active(r)' /\ Works(r) /\ Works(r)'
      BY <2>2, <2>3, Zenon DEF Works, Active, Ended
    <2>5. RowOf(r)' /\ StuckOf(r)' /\ status' # "ready"
      BY <1>1, <1>2, <2>2, <2>3, <2>4, WorkGoesOn, Zenon
    <2>6. runs[r].todo \subseteq runs[r].made
      BY <1>2, <2>4, Zenon DEF ServersOf, ServersFit
    <2>7. ServersOf(r)'
      BY <1>2, <2>1, <2>2, <2>3, <2>4 DEF ServersOf, ServersFit, Spoilt
    <2>8. ASSUME Undisturbed' PROVE FleetOf(r)' /\ DrainOf(r)'
      <3>1. ASSUME runs[r].kind = "scale_in" PROVE FleetFits(r)'
        <4>1. /\ cloud = live \ (runs[r].made \ runs[r].todo)
              /\ Fleet(live \ runs[r].made, workerCount, 1)
          BY <1>3, <2>3, <2>4, <2>8, <3>1, Zenon DEF FleetOf, FleetFits
        <4>2. CASE runs[r].todo = {s}
          <5>1. cloud' = live \ runs[r].made
            BY <2>1, <2>6, <4>1, <4>2
          <5> QED BY <2>2, <2>3, <3>1, <4>1, <4>2, <5>1, Zenon DEF FleetFits
        <4>3. CASE runs[r].todo # {s}
          <5>1. cloud' = live \ (runs[r].made \ (runs[r].todo \ {s}))
            BY <2>1, <2>6, <4>1
          <5> QED BY <2>2, <2>3, <3>1, <4>1, <4>3, <5>1, Zenon DEF FleetFits
        <4> QED BY <4>2, <4>3
      <3>2. ASSUME runs[r].kind = "destroy" PROVE FleetFits(r)'
        BY <2>2, <3>2, Zenon DEF FleetFits
      <3>3. DrainOf(r)'
        BY <1>3, <2>2, <2>3, <2>8, Zenon DEF DrainOf
      <3> QED BY <2>3, <2>5, <3>1, <3>2, <3>3, Zenon DEF FleetOf
    <2> QED BY <2>5, <2>7, <2>8, Zenon DEF PatientOf
  <1>7. CASE DeleteFails(r)
    <2>1. Works(r) /\ runs[r].pc # "settle" /\ cloud' \subseteq cloud
      BY <1>7, Zenon DEF DeleteFails, Works, Active, Ended
    <2> QED BY <1>1, <1>2, <1>3, <1>7, <2>1, RunFails, Zenon DEF DeleteFails
  <1> QED
    BY <1>4, <1>5, <1>6, <1>7 DEF RemovingMove

RetiringMove(r) ==
    \/ SoftDeleteServers(r) \/ ForgetRow(r) \/ FinalizeLookup(r) \/ SoftDelete(r)

\* So does retiring the rows of deleted servers, and the row of the cluster.
LEMMA RetiringKeepsPatient ==
    ASSUME Inv, NEW r \in Run, PatientOf(r), UNCHANGED budget,
           OtherSpoilt(r)' = OtherSpoilt(r), OtherRefused(r)' = OtherRefused(r), RetiringMove(r)
    PROVE  PatientOf(r)'
  <1> USE DEF row, tables, hetzner, budget, UpdateStatus, IsScale, Makes
  <1>1. /\ runs \in [Run -> RunState] /\ runs[r] \in RunState /\ runs[r].kind \in Kind
        /\ PcFitsKind(r) /\ RunDeletes(r)
    BY DEF Inv, TypeOK, RunInv, RunState
  <1>2. RowOf(r) /\ ServersOf(r)
    BY DEF PatientOf
  <1>3. ASSUME Undisturbed' PROVE StuckOf(r) /\ FleetOf(r) /\ DrainOf(r)
    BY <1>3 DEF PatientOf, Undisturbed
  <1>4. CASE SoftDeleteServers(r)
    <2>1. /\ runs[r].pc = "forget" /\ runs[r].kind = "destroy" /\ live' = {}
          /\ runs[r].made \cap cloud = {} /\ UNCHANGED <<row, cloud>>
      BY <1>1, <1>4, Zenon DEF SoftDeleteServers, RunDeletes
    <2>2. /\ runs'[r].pc = "final" /\ runs'[r].kind = "destroy"
          /\ runs'[r].todo = runs[r].todo /\ runs'[r].made = runs[r].made
      BY <1>1, <1>4, <2>1, GotoFields, Zenon DEF SoftDeleteServers
    <2>3. Active(r) /\ Active(r)' /\ Works(r) /\ Works(r)'
      BY <2>1, <2>2, Zenon DEF Works, Active, Ended
    <2>4. RowOf(r)' /\ StuckOf(r)' /\ status' # "ready"
      BY <1>1, <1>2, <2>1, <2>2, <2>3, WorkGoesOn, Zenon
    <2>5. ServersOf(r)'
      BY <1>2, <2>1, <2>2, <2>3, Zenon DEF ServersOf, ServersFit, Spoilt
    <2>6. FleetOf(r)' /\ DrainOf(r)'
      BY <2>2, <2>4, Zenon DEF FleetOf, FleetFits, DrainOf
    <2> QED BY <2>4, <2>5, <2>6 DEF PatientOf
  <1>5. CASE ForgetRow(r)
    <2>1. PICK s \in runs[r].todo :
            /\ live' = live \ {s}
            /\ Put(r, [runs[r] EXCEPT !.todo = @ \ {s},
                   !.pc = IF runs[r].todo = {s} THEN "settle" ELSE "forget"])
      BY <1>5, Zenon DEF ForgetRow
    <2>2. /\ runs'[r].kind = runs[r].kind /\ runs'[r].made = runs[r].made
          /\ runs'[r].pc = IF runs[r].todo = {s} THEN "settle" ELSE "forget"
          /\ runs'[r].todo = runs[r].todo \ {s} /\ runs'[r].nodes = runs[r].nodes
      BY <1>1, <2>1 DEF Put, RunState
    <2>3. /\ runs[r].pc = "forget" /\ runs[r].kind = "scale_in"
          /\ runs[r].made \cap cloud = {} /\ UNCHANGED <<row, cloud>>
      BY <1>1, <1>5 DEF ForgetRow, RunDeletes
    <2>4. Active(r) /\ Active(r)' /\ Works(r) /\ Works(r)'
      BY <2>2, <2>3, Zenon DEF Works, Active, Ended
    <2>5. RowOf(r)' /\ StuckOf(r)' /\ status' # "ready"
      BY <1>1, <1>2, <2>2, <2>3, <2>4, WorkGoesOn, Zenon
    <2>6. runs[r].todo \subseteq runs[r].made
      BY <1>2, <2>4, Zenon DEF ServersOf, ServersFit
    <2>7. ServersOf(r)'
      BY <1>2, <2>1, <2>2, <2>3, <2>4, <2>6 DEF ServersOf, ServersFit, Spoilt
    <2>8. ASSUME Undisturbed' PROVE FleetOf(r)' /\ DrainOf(r)'
      <3>1. /\ cloud = live \ runs[r].made /\ live \cap runs[r].made \subseteq runs[r].todo
            /\ Fleet(live \ runs[r].made, workerCount, 1)
        BY <1>3, <2>3, <2>4, <2>8, Zenon DEF FleetOf, FleetFits
      <3>2. /\ live' \ runs[r].made = live \ runs[r].made
            /\ live' \cap runs[r].made \subseteq runs[r].todo \ {s}
            /\ runs[r].todo = {s} => live' = cloud
        BY <2>1, <2>6, <3>1
      <3>3. FleetFits(r)'
        BY <2>2, <2>3, <3>1, <3>2, Zenon DEF FleetFits
      <3>4. DrainOf(r)'
        BY <1>3, <2>2, <2>3, <2>8, Zenon DEF DrainOf
      <3> QED BY <2>5, <3>3, <3>4 DEF FleetOf
    <2> QED BY <2>5, <2>7, <2>8, Zenon DEF PatientOf
  <1>6. CASE FinalizeLookup(r)
    <2>1. /\ runs[r].pc = "final" /\ runs[r].kind = "destroy" /\ Active(r) /\ Works(r)
          /\ UNCHANGED <<row, live, cloud>>
      BY <1>1, <1>6 DEF FinalizeLookup, PcFitsKind, Works, Active, Ended
    <2>2. ~deleted
      BY <1>2, <2>1, Zenon DEF RowOf, RowFits
    <2>3. /\ runs'[r].pc = "retire" /\ runs'[r].kind = "destroy"
          /\ runs'[r].todo = runs[r].todo /\ runs'[r].made = runs[r].made
      BY <1>1, <1>6, <2>1, <2>2, GotoFields, Zenon DEF FinalizeLookup
    <2>4. Active(r)' /\ Works(r)'
      BY <2>3 DEF Works, Active, Ended
    <2>5. RowOf(r)' /\ StuckOf(r)' /\ status' # "ready"
      BY <1>1, <1>2, <2>1, <2>3, <2>4, WorkGoesOn, Zenon
    <2>6. ServersOf(r)'
      BY <1>2, <2>1, <2>3, <2>4, Zenon DEF ServersOf, ServersFit, Spoilt
    <2>7. FleetOf(r)' /\ DrainOf(r)'
      BY <2>3, <2>5, Zenon DEF FleetOf, FleetFits, DrainOf
    <2> QED BY <2>5, <2>6, <2>7 DEF PatientOf
  <1>7. CASE SoftDelete(r)
    <2>1. /\ runs[r].pc = "retire" /\ runs[r].kind = "destroy" /\ Active(r)
          /\ deleted' = TRUE /\ UNCHANGED <<status, kubeconfig, workerCount, live, cloud>>
      BY <1>1, <1>7 DEF SoftDelete, PcFitsKind, Active, Ended
    <2>2. status = "destroying"
      BY <1>2, <2>1 DEF RowOf, RowFits
    <2>3. /\ runs'[r].pc = "settle" /\ runs'[r].kind = "destroy"
          /\ runs'[r].todo = runs[r].todo /\ runs'[r].made = runs[r].made
      BY <1>1, <1>7, <2>1, GotoFields, Zenon DEF SoftDelete
    <2>4. RowOf(r)'
      BY <2>1, <2>2, <2>3, Zenon DEF RowOf, RowFits
    <2>5. ServersOf(r)'
      BY <1>2, <2>1, <2>3, Zenon DEF ServersOf, ServersFit, Spoilt, Active, Ended
    <2>6. StuckOf(r)' /\ FleetOf(r)' /\ DrainOf(r)'
      BY <2>1, <2>2, <2>3, Zenon DEF StuckOf, Works, FleetOf, FleetFits, DrainOf, Active, Ended
    <2> QED BY <2>4, <2>5, <2>6 DEF PatientOf
  <1> QED
    BY <1>4, <1>5, <1>6, <1>7 DEF RetiringMove

EndingMove(r) ==
    \/ Settle(r) \/ CloseWorkflow(r) \/ MarkFailed(r)

\* So does the end of a run.
LEMMA EndingKeepsPatient ==
    ASSUME Inv, NEW r \in Run, PatientOf(r), UNCHANGED budget,
           OtherSpoilt(r)' = OtherSpoilt(r), OtherRefused(r)' = OtherRefused(r), EndingMove(r)
    PROVE  PatientOf(r)'
  <1> USE DEF row, tables, hetzner, budget, UpdateStatus, IsScale, Makes
  <1>1. /\ runs \in [Run -> RunState] /\ runs[r] \in RunState /\ runs[r].kind \in Kind
        /\ PcFitsKind(r) /\ RunDeletes(r)
    BY DEF Inv, TypeOK, RunInv, RunState
  <1>2. RowOf(r) /\ ServersOf(r)
    BY DEF PatientOf
  <1>3. ASSUME Undisturbed' PROVE StuckOf(r) /\ FleetOf(r) /\ DrainOf(r)
    BY <1>3 DEF PatientOf, Undisturbed
  <1>4. CASE Settle(r)
    <2>1. /\ runs[r].pc = "settle" /\ Active(r) /\ RowFits(r) /\ ServersFit(r)
          /\ status' = IF runs[r].kind = "destroy" THEN "destroyed" ELSE "ready"
          /\ UNCHANGED <<deleted, kubeconfig, workerCount, live, cloud>>
      BY <1>2, <1>4, Zenon DEF Settle, RowOf, ServersOf, Active, Ended
    <2>2. /\ runs'[r].pc = IF runs[r].kind = "provision" THEN "close" ELSE "done"
          /\ runs'[r].kind = runs[r].kind /\ runs'[r].cp = runs[r].cp
          /\ runs'[r].todo = runs[r].todo /\ runs'[r].made = runs[r].made
          /\ runs'[r].nodes = runs[r].nodes
      BY <1>1, <1>4, GotoFields, Zenon DEF Settle
    <2>3. RowOf(r)'
      BY <1>2, <2>1, <2>2, Zenon DEF RowOf, RowFits, Active, Ended
    <2>4. ServersOf(r)'
      BY <1>2, <2>1, <2>2, Zenon DEF ServersOf, ServersFit, Spoilt, Active, Ended
    <2>5. ASSUME Undisturbed' PROVE StuckOf(r)' /\ FleetOf(r)' /\ DrainOf(r)'
      <3>1. FleetFits(r) /\ DrainOf(r)
        BY <1>3, <2>1, <2>5, Zenon DEF FleetOf
      <3>2. CASE runs[r].kind = "destroy"
        BY <2>1, <2>2, <3>2, Zenon DEF StuckOf, FleetOf, DrainOf, Active, Ended
      <3>3. CASE runs[r].kind \in {"provision", "scale_out"}
        <4>1. live = cloud /\ Fleet(live, workerCount, 1)
          BY <2>1, <3>1, <3>3, Zenon DEF FleetFits, ServersFit
        <4>2. Active(r)' => FleetFits(r)'
          BY <2>1, <2>2, <3>1, <3>3, Zenon DEF FleetFits, Active, Ended
        <4> QED BY <2>1, <2>2, <3>3, <4>1, <4>2, Zenon DEF StuckOf, FleetOf, DrainOf
      <3>4. CASE runs[r].kind = "scale_in"
        <4>1. live = cloud /\ Fleet(live \ runs[r].made, workerCount, 1)
          BY <2>1, <3>1, <3>4, Zenon DEF FleetFits
        <4>2. live \ runs[r].made = live
          BY <1>1, <2>1, <3>4, <4>1, Zenon DEF RunDeletes
        <4>3. StuckOf(r)' /\ FleetOf(r)'
          BY <2>1, <2>2, <3>4, <4>1, <4>2, Zenon DEF StuckOf, FleetOf, Active, Ended
        <4> QED BY <2>1, <2>2, <3>1, <3>4, <4>3, Zenon DEF DrainOf
      <3>5. runs[r].kind # "none"
        BY <1>1, <2>1 DEF PcFitsKind
      <3> QED BY <1>1, <3>2, <3>3, <3>4, <3>5 DEF Kind
    <2> QED BY <2>3, <2>4, <2>5 DEF PatientOf
  <1>5. CASE CloseWorkflow(r)
    BY <1>1, <1>5, RunReturns DEF CloseWorkflow
  <1>6. CASE MarkFailed(r)
    <2>1. /\ runs[r].pc = "fail" /\ Active(r) /\ status' = "failed"
          /\ UNCHANGED <<deleted, kubeconfig, workerCount, live, cloud>>
      BY <1>6 DEF MarkFailed, Active, Ended
    <2>2. ~deleted
      BY <1>2, <2>1 DEF RowOf, RowFits
    <2>3. /\ runs'[r].pc = IF runs[r].kind = "provision" THEN "failclose" ELSE "failed"
          /\ runs'[r].kind = runs[r].kind /\ runs'[r].cp = runs[r].cp
          /\ runs'[r].todo = runs[r].todo /\ runs'[r].made = runs[r].made
      BY <1>1, <1>6, GotoFields, Zenon DEF MarkFailed, AfterFail
    <2>4. RowOf(r)'
      BY <2>1, <2>2, <2>3, Zenon DEF RowOf, RowFits, Active, Ended
    <2>5. ServersOf(r)'
      BY <1>2, <2>1, <2>3, Zenon DEF ServersOf, ServersFit, Spoilt, Active, Ended
    <2>6. StuckOf(r)' /\ FleetOf(r)' /\ DrainOf(r)'
      BY <2>1, <2>3, Zenon DEF StuckOf, FleetOf, FleetFits, DrainOf, Active, Ended
    <2> QED BY <2>4, <2>5, <2>6 DEF PatientOf
  <1> QED
    BY <1>4, <1>5, <1>6 DEF EndingMove

\* A step the runtime owes a run that is alone keeps the invariant as that run sees it.
LEMMA StepKeepsPatient ==
    ASSUME Inv, NEW r \in Run, PatientOf(r), UNCHANGED budget, Step(r),
           OtherSpoilt(r)' = OtherSpoilt(r), OtherRefused(r)' = OtherRefused(r)
    PROVE  PatientOf(r)'
  BY TaskStartKeepsPatient, ListingKeepsPatient, MakingKeepsPatient, RemovingKeepsPatient,
     RetiringKeepsPatient, EndingKeepsPatient
     DEF Step, TaskStartMove, ListingMove, MakingMove, RemovingMove, RetiringMove, EndingMove

\* A request that comes in while no run is at work keeps the invariant as its run
\* sees it.
LEMMA RequestKeepsPatient ==
    ASSUME Inv, NEW r \in Run, PatientOf(r), Request(r),
           OtherSpoilt(r)' = OtherSpoilt(r), OtherRefused(r)' = OtherRefused(r)
    PROVE  PatientOf(r)'
  <1> USE DEF row, tables, hetzner, budget
  <1>1. runs \in [Run -> RunState] /\ workerCount \in Nat
    BY DEF Inv, TypeOK
  <1>2. runs[r].pc = "idle" /\ ~Active(r) /\ ~Spoilt(r) /\ ~Refused(r) /\ ~Works(r)
    BY Zenon DEF Request, Create, Destroy, Scale, MaySend, Active, Spoilt, Refused, Works
  <1>3. RowOf(r) /\ ServersOf(r)
    BY DEF PatientOf
  <1>4. ASSUME Undisturbed' PROVE StuckOf(r) /\ FleetOf(r)
    <2>1. faults' = faults /\ crashes' = crashes
      BY Zenon DEF Request, Create, Destroy, Scale
    <2> QED BY <1>4, <2>1 DEF PatientOf, Undisturbed
  <1>5. CASE Create(r)
    <2>1. PICK n \in 1..MaxWorkers :
            /\ workerCount' = n
            /\ Put(r, [NoRun EXCEPT !.kind = "provision", !.pc = "admitted",
                                    !.cp = TRUE, !.count = n])
      BY <1>5, Zenon DEF Create
    <2>2. /\ runs'[r].kind = "provision" /\ runs'[r].pc = "admitted" /\ runs'[r].cp
          /\ runs'[r].index = 0 /\ runs'[r].count = n
          /\ runs'[r].todo = {} /\ runs'[r].made = {}
      BY <1>1, <2>1 DEF Put, NoRun
    <2>3. /\ ~deleted /\ ~kubeconfig /\ live = {} /\ cloud = {} /\ status' = "pending"
          /\ UNCHANGED <<deleted, kubeconfig, live, cloud>>
      BY <1>3, <1>5 DEF Create, RowOf
    <2>4. RowOf(r)' /\ ServersOf(r)'
      BY <2>2, <2>3, Zenon DEF RowOf, RowFits, IsScale, ServersOf, ServersFit, Makes
    <2>5. Fleet({}, 0, 0)
      <3>1. IsFiniteSet({}) /\ Cardinality({}) = 0
        BY FS_EmptySet
      <3>2. Workers({}) = {}
        BY DEF Workers
      <3> QED BY <3>1, <3>2 DEF Fleet
    <2>6. StuckOf(r)' /\ FleetOf(r)' /\ DrainOf(r)'
      <3>1. n \in Nat /\ n - n = 0 /\ n <= n
        OBVIOUS
      <3>2. FleetFits(r)'
        BY <2>1, <2>2, <2>3, <2>5, <3>1 DEF FleetFits, Makes
      <3> QED BY <2>2, <2>3, <3>2, Zenon DEF StuckOf, FleetOf, DrainOf
    <2> QED BY <2>4, <2>6 DEF PatientOf
  <1>6. CASE Destroy(r)
    <2>1. /\ runs'[r].kind = "destroy" /\ runs'[r].pc = "admitted"
          /\ runs'[r].todo = {} /\ runs'[r].made = {}
      BY <1>1, <1>6 DEF Destroy, Put, NoRun
    <2>2. status # "absent" /\ ~deleted /\ UNCHANGED <<row, live, cloud>>
      BY <1>6 DEF Destroy
    <2>3. RowOf(r)'
      BY <1>3, <2>1, <2>2, Zenon DEF RowOf, RowFits, IsScale
    <2>4. ServersOf(r)'
      BY <1>2, <1>3, <2>1, <2>2, Zenon DEF ServersOf, ServersFit, Makes
    <2>5. ASSUME Undisturbed' PROVE StuckOf(r)' /\ FleetOf(r)' /\ DrainOf(r)'
      BY <1>2, <1>4, <2>1, <2>2, <2>5, Zenon DEF StuckOf, FleetOf, FleetFits, DrainOf, Makes, IsScale
    <2> QED BY <2>3, <2>4, <2>5 DEF PatientOf
  <1>7. CASE Scale(r)
    <2>1. PICK n \in (1..MaxWorkers) \ {workerCount} :
            Put(r, [NoRun EXCEPT !.kind = IF n > workerCount THEN "scale_out" ELSE "scale_in",
                                 !.pc = "admitted", !.index = n,
                                 !.count = IF n > workerCount THEN n - workerCount
                                                              ELSE workerCount - n])
      BY <1>7, Zenon DEF Scale
    <2>2. /\ runs'[r].kind = IF n > workerCount THEN "scale_out" ELSE "scale_in"
          /\ runs'[r].pc = "admitted" /\ ~runs'[r].cp /\ runs'[r].index = n
          /\ runs'[r].count = IF n > workerCount THEN n - workerCount ELSE workerCount - n
          /\ runs'[r].todo = {} /\ runs'[r].made = {}
      BY <1>1, <2>1 DEF Put, NoRun
    <2>3. status = "ready" /\ ~deleted /\ UNCHANGED <<row, live, cloud>>
      BY <1>7 DEF Scale
    <2>4. RowOf(r)'
      BY <1>3, <2>2, <2>3, Zenon DEF RowOf, RowFits, IsScale
    <2>5. ServersOf(r)'
      BY <1>2, <1>3, <2>2, <2>3, Zenon DEF ServersOf, ServersFit, Makes
    <2>6. ASSUME Undisturbed' PROVE StuckOf(r)' /\ FleetOf(r)' /\ DrainOf(r)'
      <3>1. live = cloud /\ Fleet(live, workerCount, 1)
        BY <1>2, <1>4, <2>3, <2>6, Zenon DEF FleetOf
      <3>2. FleetFits(r)'
        <4>1. CASE n > workerCount
          <5>1. runs'[r].count = n - workerCount /\ n \in Int
            BY <2>2, <4>1
          <5>2. n = workerCount + runs'[r].count
            BY <1>1, <5>1
          <5> QED BY <2>2, <2>3, <4>1, <5>2, Zenon DEF FleetFits, Makes
        <4>2. CASE ~(n > workerCount)
          <5>1. runs'[r].count = workerCount - n /\ n \in Int
            BY <2>2, <4>2
          <5>2. workerCount = n + runs'[r].count
            BY <1>1, <5>1
          <5> QED BY <2>2, <2>3, <4>2, <5>2, Zenon DEF FleetFits, Makes
        <4> QED BY <4>1, <4>2
      <3> QED BY <2>2, <2>3, <3>1, <3>2, Zenon DEF StuckOf, FleetOf, DrainOf
    <2> QED BY <2>4, <2>5, <2>6 DEF PatientOf
  <1> QED BY <1>5, <1>6, <1>7 DEF Request

\* A failed statement or a dropped handler keeps what the row shows and the servers
\* that have no row; the rest is not owed any more.
LEMMA FaultKeepsPatient ==
    ASSUME Inv, NEW r \in Run, PatientOf(r), Fault(r), OtherSpoilt(r)' = OtherSpoilt(r)
    PROVE  PatientOf(r)' /\ ~Undisturbed'
  <1> USE DEF row, tables, hetzner, budget
  <1>1. /\ runs \in [Run -> RunState] /\ runs[r] \in RunState /\ faults \in Nat
        /\ PcFitsKind(r) /\ RowOf(r) /\ ServersOf(r)
    BY DEF Inv, TypeOK, RunInv, PatientOf
  <1>2. ~Undisturbed'
    <2>1. faults' = faults + 1
      BY Zenon DEF Fault, DropAfterCount, StatementFails, FailureIgnored, ForgetIgnored
    <2> QED BY <1>1, <2>1 DEF Undisturbed
  <1>3. Active(r) /\ RowFits(r) /\ ServersFit(r)
    BY <1>1, Zenon DEF Fault, DropAfterCount, StatementFails, FailureIgnored, ForgetIgnored,
         Active, Ended, RowOf, ServersOf
  <1>4. UNCHANGED <<status, deleted, kubeconfig, live, cloud>>
    BY Zenon DEF Fault, DropAfterCount, StatementFails, FailureIgnored, ForgetIgnored
  <1>5. CASE DropAfterCount(r)
    <2>1. runs'[r].pc = "rejected" /\ runs'[r].kind = runs[r].kind /\ runs[r].pc = "admitted"
      BY <1>1, <1>5, GotoFields DEF DropAfterCount
    <2>2. RowOf(r)'
      BY <1>1, <1>4, <2>1 DEF RowOf, Active, Ended
    <2>3. ServersOf(r)'
      BY <1>1, <1>3, <1>4, <2>1, Zenon DEF ServersOf, ServersFit, Spoilt, Makes, Active, Ended
    <2> QED BY <1>2, <2>2, <2>3 DEF PatientOf
  <1>6. CASE StatementFails(r)
    <2>1. runs'[r].pc = "aborted" /\ runs'[r].kind = runs[r].kind
      BY <1>1, <1>6, GotoFields, Zenon DEF StatementFails
    <2>2. RowOf(r)'
      BY <1>1, <1>4, <2>1 DEF RowOf, Active, Ended
    <2>3. ServersOf(r)'
      BY <1>1, <1>4, <2>1, Zenon DEF ServersOf, Spoilt, Makes, Active, Ended
    <2> QED BY <1>2, <2>2, <2>3 DEF PatientOf
  <1>7. CASE FailureIgnored(r)
    <2>1. /\ runs'[r].pc \in {"failclose", "failed"} /\ runs'[r].kind = runs[r].kind
          /\ runs'[r].pc = "failclose" => runs[r].kind = "provision"
          /\ runs'[r].todo = runs[r].todo /\ runs'[r].made = runs[r].made
      <3>1. PICK pc \in {"failclose", "failed"} :
              Goto(r, pc) /\ (pc = "failclose" => runs[r].kind = "provision")
        BY <1>7 DEF FailureIgnored, AfterFail
      <3> QED BY <1>1, <3>1, GotoFields, Zenon
    <2>2. RowOf(r)'
      BY <1>1, <1>4, <2>1, Zenon DEF RowOf, RowFits, Active, Ended
    <2>3. ServersOf(r)'
      BY <1>1, <1>3, <1>4, <2>1, Zenon DEF ServersOf, ServersFit, Spoilt, Makes, Active, Ended
    <2> QED BY <1>2, <2>2, <2>3 DEF PatientOf
  <1>8. CASE ForgetIgnored(r)
    <2>1. PICK s \in runs[r].todo :
            Put(r, [runs[r] EXCEPT !.todo = @ \ {s},
                   !.pc = IF runs[r].todo = {s} THEN "settle" ELSE "forget"])
      BY <1>8, Zenon DEF ForgetIgnored
    <2>2. /\ runs'[r].kind = runs[r].kind /\ runs'[r].made = runs[r].made
          /\ runs'[r].pc = IF runs[r].todo = {s} THEN "settle" ELSE "forget"
          /\ runs'[r].todo = runs[r].todo \ {s}
          /\ runs[r].kind = "scale_in" /\ runs[r].pc = "forget"
      BY <1>1, <1>8, <2>1, Zenon DEF ForgetIgnored, Put, RunState
    <2>3. RowOf(r)'
      BY <1>1, <1>3, <1>4, <2>2, Zenon DEF RowOf, RowFits, IsScale
    <2>4. ServersOf(r)'
      BY <1>1, <1>3, <1>4, <2>2, Zenon DEF ServersOf, ServersFit, Spoilt, Makes
    <2> QED BY <1>2, <2>3, <2>4, Zenon DEF PatientOf
  <1> QED BY <1>2, <1>5, <1>6, <1>7, <1>8 DEF Fault

\* A restart of the process ends the runs; the servers of a provision or scale-out
\* it ends may be in no row from then on.
LEMMA CrashKeepsPatient ==
    ASSUME Inv, PatientInv, Crash
    PROVE  PatientInv'
  <1>1. runs \in [Run -> RunState] /\ crashes \in Nat
    BY DEF Inv, TypeOK
  <1>2. /\ crashes' = crashes + 1
        /\ UNCHANGED <<status, deleted, kubeconfig, live, cloud>>
    BY DEF Crash, tables, row, hetzner
  <1>3. ~Undisturbed'
    BY <1>1, <1>2 DEF Undisturbed
  <1>4. ASSUME NEW q \in Run
        PROVE  /\ runs'[q] = IF Active(q) THEN [runs[q] EXCEPT !.pc = "lost"] ELSE runs[q]
               /\ runs[q] \in RunState
    BY <1>1 DEF Crash
  <1>5. ASSUME NEW q \in Run PROVE ~Active(q)'
    <2>1. CASE Active(q)
      BY <1>4, <2>1, Zenon DEF Active, Ended, RunState
    <2>2. CASE ~Active(q)
      BY <1>4, <2>2, Zenon DEF Active
    <2> QED BY <2>1, <2>2
  <1>6. ASSUME NEW q \in Run, ~Spoilt(q)' PROVE ~Spoilt(q) /\ ~(Active(q) /\ Makes(q))
    <2>1. CASE Active(q)
      <3>1. runs'[q].pc = "lost" /\ runs'[q].kind = runs[q].kind
        BY <1>4, <2>1, Zenon DEF RunState
      <3> QED BY <1>6, <3>1 DEF Spoilt, Makes
    <2>2. CASE ~Active(q)
      BY <1>4, <1>6, <2>2, Zenon DEF Spoilt, Makes
    <2> QED BY <2>1, <2>2
  <1>7. RowInv'
    BY <1>2, <1>5 DEF PatientInv, RowInv
  <1>8. ServersInv'
    <2>1. ASSUME \A q \in Run : ~Spoilt(q)', NEW s \in cloud' PROVE s \in live'
      <3>1. \A q \in Run : ~Spoilt(q) /\ ~(Active(q) /\ Makes(q))
        BY <1>6, <2>1
      <3> QED BY <1>2, <3>1 DEF PatientInv, ServersInv
    <2> QED BY <1>5, <2>1 DEF ServersInv
  <1> QED BY <1>3, <1>7, <1>8 DEF PatientInv

\* PatientInv is inductive for a client that waits.
LEMMA NextKeepsPatient ==
    ASSUME OneAtATime, Inv, PatientInv, [Next]_vars
    PROVE  PatientInv'
  <1>1. ASSUME NEW r \in Run, Request(r) \/ Step(r) \/ Fault(r) PROVE PatientInv'
    <2>1. /\ runs \in [Run -> RunState] /\ faults \in Nat /\ crashes \in Nat
          /\ Alone(r) /\ \A q \in Run \ {r} : runs'[q] = runs[q]
      BY <1>1, StepIsAlone, StepIsOwn DEF Inv, TypeOK, PatientInv
    <2>2. PatientOf(r)
      BY <2>1, PatientAlone
    <2>3. OtherSpoilt(r)' = OtherSpoilt(r) /\ OtherRefused(r)' = OtherRefused(r)
      BY <2>1 DEF OtherSpoilt, OtherRefused, Spoilt, Refused, Makes
    <2>4. PatientOf(r)' /\ (Undisturbed' => Undisturbed)
      <3>1. CASE Request(r)
        <4>1. UNCHANGED budget
          BY <3>1, Zenon DEF Request, Create, Destroy, Scale
        <4> QED BY <2>2, <2>3, <3>1, <4>1, RequestKeepsPatient DEF Undisturbed, budget
      <3>2. CASE Step(r)
        <4>1. UNCHANGED budget
          BY <3>2, Zenon DEF Step, Dispatch, Decline, Begin, BeginDestroy, MarkDestroying, OpenWorkflow,
               ListForDestroy, ListForScaleOut, JoinRefused, ListForScaleIn, CreateServer,
               CreateLost, ServersUp, ActivityFails, RecordServer, StoreKubeconfig, DrainNodes,
               NoKubeconfig, DeleteServer, DeleteFails, SoftDeleteServers, ForgetRow,
               FinalizeLookup, SoftDelete, Settle, CloseWorkflow, MarkFailed
        <4> QED BY <2>2, <2>3, <3>2, <4>1, StepKeepsPatient DEF Undisturbed, budget
      <3>3. CASE Fault(r)
        BY <2>2, <2>3, <3>3, FaultKeepsPatient
      <3> QED BY <1>1, <3>1, <3>2, <3>3
    <2> QED BY <2>1, <2>4, PatientAgain
  <1>2. ASSUME UNCHANGED vars PROVE PatientInv'
    <2>1. UNCHANGED <<status, deleted, kubeconfig, workerCount, live, cloud, runs, faults, crashes>>
      BY <1>2 DEF vars, tables, row, hetzner, budget
    <2>2. RowInv' /\ ServersInv'
      BY <2>1, Zenon DEF PatientInv, RowInv, RowFits, ServersInv, ServersFit, Spoilt, Makes, Active, IsScale
    <2>3. ASSUME Undisturbed' PROVE StuckInv' /\ FleetInv' /\ DrainsWhatItDeletes'
      <3>1. StuckInv /\ FleetInv /\ DrainsWhatItDeletes
        BY <2>1, <2>3, Zenon DEF PatientInv, Undisturbed
      <3>2. StuckInv'
        BY <2>1, <3>1, Zenon DEF StuckInv, Works, Refused, Active, Makes
      <3>3. FleetInv'
        BY <2>1, <3>1, ZenonT(30) DEF FleetInv, FleetFits, Makes, Active, IsScale
      <3>4. DrainsWhatItDeletes'
        BY <2>1, <2>3, <3>1, Zenon DEF DrainsWhatItDeletes, Undisturbed
      <3> QED BY <3>2, <3>3, <3>4
    <2> QED BY <2>2, <2>3 DEF PatientInv
  <1> QED BY <1>1, <1>2, CrashKeepsPatient DEF Next

\* It holds before the first request.
LEMMA InitPatient ==
    ASSUME Init
    PROVE  PatientInv
  <1>1. \A r \in Run : runs[r] = NoRun
    BY DEF Init
  <1>2. \A r \in Run : runs[r].pc = "idle" /\ ~Active(r)
    <2>1. NoRun.pc = "idle"
      BY DEF NoRun
    <2> QED BY <1>1, <2>1 DEF Active
  <1>3. RowInv /\ ServersInv
    BY <1>2 DEF Init, RowInv, ServersInv
  <1>4. StuckInv /\ FleetInv /\ DrainsWhatItDeletes
    BY <1>2 DEF Init, StuckInv, FleetInv, DrainsWhatItDeletes
  <1> QED BY <1>3, <1>4 DEF PatientInv

\* For a client that waits for a run to end before its next request, what the row,
\* the server rows and Hetzner are is given by where the one active run is.
THEOREM PatientInvHolds == OneAtATime => (Spec => []PatientInv)
  <1> SUFFICES ASSUME OneAtATime PROVE Spec => []PatientInv
    OBVIOUS
  <1>1. Init => PatientInv
    BY InitPatient
  <1>2. Inv /\ PatientInv /\ [Next]_vars => PatientInv'
    BY NextKeepsPatient
  <1> QED BY <1>1, <1>2, InvHolds, PTL DEF Spec

\* OnlyFailedRunsLoseServers, for any number of requests and servers: with nothing
\* running, a server is in no row only if some provision or scale-out ended badly.
THEOREM LostServersHaveAFailedRun == OneAtATime => (Spec => []OnlyFailedRunsLoseServers)
  <1> SUFFICES ASSUME OneAtATime PROVE Spec => []OnlyFailedRunsLoseServers
    OBVIOUS
  <1>1. PatientInv => OnlyFailedRunsLoseServers
    <2> SUFFICES ASSUME ServersInv, Quiet,
                        \A r \in Run : runs[r].kind \in {"provision", "scale_out"}
                                         => runs[r].pc \in {"done", "rejected"}
                 PROVE  cloud \subseteq live
      BY DEF PatientInv, OnlyFailedRunsLoseServers
    <2>1. \A r \in Run : ~Spoilt(r) /\ ~Active(r)
      BY DEF Quiet, Spoilt, Makes
    <2> QED BY <2>1 DEF ServersInv
  <1> QED BY <1>1, PatientInvHolds, PTL

\* OnlyRefusedJoinsStick: without a failed statement or a restart, a cluster stays in
\* a status of a run only on the early return of run_scale_out.
THEOREM StuckOnlyOnRefusedJoin == OneAtATime => (Spec => []OnlyRefusedJoinsStick)
  <1> SUFFICES ASSUME OneAtATime PROVE Spec => []OnlyRefusedJoinsStick
    OBVIOUS
  <1>1. PatientInv => OnlyRefusedJoinsStick
    BY DEF PatientInv, StuckInv, OnlyRefusedJoinsStick, Quiet, Works, Refused
  <1> QED BY <1>1, PatientInvHolds, PTL

\* SettledMatchesCloud: with nothing running, a ready cluster has exactly the servers
\* its rows name, worker_count workers and one control plane.
THEOREM ReadyMatchesHetzner == OneAtATime => (Spec => []SettledMatchesCloud)
  <1> SUFFICES ASSUME OneAtATime PROVE Spec => []SettledMatchesCloud
    OBVIOUS
  <1>1. PatientInv => SettledMatchesCloud
    BY DEF PatientInv, FleetInv, Fleet, SettledMatchesCloud, Quiet
  <1> QED BY <1>1, PatientInvHolds, PTL

\* DrainsWhatItDeletes: scale-in drains the nodes of the very servers it deletes.
THEOREM DrainsItsVictims == OneAtATime => (Spec => []DrainsWhatItDeletes)
  <1> SUFFICES ASSUME OneAtATime PROVE Spec => []DrainsWhatItDeletes
    OBVIOUS
  <1>1. PatientInv => DrainsWhatItDeletes
    BY DEF PatientInv, DrainsWhatItDeletes
  <1> QED BY <1>1, PatientInvHolds, PTL

-----------------------------------------------------------------------------
(* The row implements ClusterStates. *)

\* A step that writes none of the columns ClusterStates is about.
RowStutters == UNCHANGED <<status, deleted, kubeconfig>>

\* The requests and steps that write status, deleted_at or the kubeconfig.
LEMMA RowWriters ==
    ASSUME NEW r \in Run, Request(r) \/ Step(r) \/ Fault(r)
    PROVE  \/ RowStutters \/ Create(r) \/ Begin(r) \/ MarkDestroying(r) \/ StoreKubeconfig(r)
           \/ SoftDelete(r) \/ Settle(r) \/ MarkFailed(r)
  <1> USE DEF row, tables, RowStutters
  <1>1. CASE Request(r)
    BY <1>1, Zenon DEF Request, Destroy, Scale
  <1>2. CASE Fault(r)
    BY <1>2, Zenon DEF Fault, DropAfterCount, StatementFails, FailureIgnored, ForgetIgnored
  <1>3. CASE Step(r)
    BY <1>3, Zenon DEF Step, Dispatch, Decline, BeginDestroy, OpenWorkflow, ListForDestroy,
         ListForScaleOut, JoinRefused, ListForScaleIn, CreateServer, CreateLost, ServersUp,
         ActivityFails, RecordServer, DrainNodes, NoKubeconfig, DeleteServer, DeleteFails,
         SoftDeleteServers, ForgetRow, FinalizeLookup, CloseWorkflow
  <1> QED BY <1>1, <1>2, <1>3

\* Each of them is a move ClusterStates allows.
LEMMA RunStepIsStates ==
    ASSUME Inv, PatientInv, NEW r \in Run, Request(r) \/ Step(r) \/ Fault(r)
    PROVE  States!Next \/ RowStutters
  <1>1. /\ status \in Status /\ runs[r].kind \in Kind /\ PcFitsKind(r) /\ RunHasKubeconfig(r)
    BY DEF Inv, TypeOK, RunInv, RunState
  <1>2. /\ status = "absent" => ~deleted
        /\ Active(r) => RowFits(r)
    BY DEF PatientInv, RowInv
  <1>3. CASE Create(r)
    <2>1. status = "absent" /\ ~deleted /\ status' = "pending" /\ UNCHANGED <<deleted, kubeconfig>>
      BY <1>2, <1>3 DEF Create
    <2> QED BY <2>1 DEF States!Next, States!Move, States!Moves
  <1>4. CASE Begin(r)
    <2>1. Active(r) /\ UNCHANGED <<deleted, kubeconfig>>
      BY <1>4, Zenon DEF Begin, UpdateStatus, Active, Ended
    <2>2. /\ ~deleted
          /\ \/ status = "pending" /\ status' = "provisioning"
             \/ status = "ready" /\ status' = "scaling"
      BY <1>2, <1>4, <2>1, Zenon DEF Begin, UpdateStatus, RowFits, IsScale
    <2> QED BY <2>1, <2>2 DEF States!Next, States!Move, States!Moves
  <1>5. CASE MarkDestroying(r)
    <2>1. Active(r) /\ status' = "destroying" /\ UNCHANGED <<deleted, kubeconfig>>
      BY <1>5, Zenon DEF MarkDestroying, UpdateStatus, Active, Ended
    <2>2. ~deleted /\ status \in States!Destroyable
      BY <1>1, <1>2, <1>5, <2>1, Zenon DEF MarkDestroying, RowFits, PcFitsKind, Status, States!Destroyable
    <2> QED BY <2>1, <2>2 DEF States!Next, States!StartDestroy
  <1>6. CASE StoreKubeconfig(r)
    <2>1. Active(r) /\ UNCHANGED <<status, deleted>>
      BY <1>6 DEF StoreKubeconfig, Active, Ended
    <2>2. status = "provisioning" /\ ~deleted /\ ~kubeconfig /\ kubeconfig' = TRUE
      BY <1>1, <1>2, <1>6, <2>1, Zenon DEF StoreKubeconfig, RowFits, PcFitsKind
    <2> QED BY <2>1, <2>2 DEF States!Next, States!Deliver
  <1>7. CASE SoftDelete(r)
    <2>1. Active(r) /\ deleted' = TRUE /\ UNCHANGED <<status, kubeconfig>>
      BY <1>7 DEF SoftDelete, Active, Ended
    <2>2. status = "destroying" /\ ~deleted
      BY <1>1, <1>2, <1>7, <2>1, Zenon DEF SoftDelete, RowFits, PcFitsKind
    <2> QED BY <2>1, <2>2 DEF States!Next, States!Retire
  <1>8. CASE Settle(r)
    <2>1. /\ Active(r) /\ runs[r].pc = "settle" /\ UNCHANGED <<deleted, kubeconfig>>
          /\ status' = IF runs[r].kind = "destroy" THEN "destroyed" ELSE "ready"
      BY <1>8, Zenon DEF Settle, UpdateStatus, Active, Ended
    <2>2. CASE runs[r].kind = "destroy"
      <3>1. status = "destroying" /\ deleted
        BY <1>2, <2>1, <2>2, Zenon DEF RowFits
      <3> QED BY <2>1, <2>2, <3>1 DEF States!Next, States!Finish
    <2>3. CASE runs[r].kind # "destroy"
      <3>1. kubeconfig /\ ~deleted /\ status \in {"provisioning", "scaling"}
        BY <1>1, <1>2, <2>1, <2>3, Zenon DEF RowFits, PcFitsKind, RunHasKubeconfig, IsScale, Kind
      <3> QED BY <2>1, <2>3, <3>1 DEF States!Next, States!Move, States!Moves
    <2> QED BY <2>2, <2>3
  <1>9. CASE MarkFailed(r)
    <2>1. /\ Active(r) /\ runs[r].pc = "fail" /\ status' = "failed"
          /\ UNCHANGED <<deleted, kubeconfig>>
      BY <1>9 DEF MarkFailed, UpdateStatus, Active, Ended
    <2>2. ~deleted /\ status \in {"provisioning", "scaling", "destroying"}
      BY <1>1, <1>2, <2>1, Zenon DEF RowFits, PcFitsKind, IsScale, Kind
    <2> QED BY <2>1, <2>2 DEF States!Next, States!Move, States!Moves
  <1> QED BY <1>3, <1>4, <1>5, <1>6, <1>7, <1>8, <1>9, RowWriters

\* For a client that waits, the row its readers see goes only through the states
\* ClusterStates promises, whatever fails and whenever the process stops.
THEOREM RowImplementsStates == OneAtATime => (Spec => ImplementsStates)
  <1> SUFFICES ASSUME OneAtATime PROVE Spec => ImplementsStates
    OBVIOUS
  <1>1. Init => States!Init
    BY DEF Init, States!Init
  <1>2. Inv /\ PatientInv /\ [Next]_vars => [States!Next]_<<status, deleted, kubeconfig>>
    <2> SUFFICES ASSUME Inv, PatientInv, [Next]_vars PROVE States!Next \/ RowStutters
      BY DEF RowStutters
    <2>1. Crash \/ UNCHANGED vars => RowStutters
      BY DEF Crash, vars, tables, row, RowStutters
    <2> QED BY <2>1, RunStepIsStates DEF Next
  <1> QED BY <1>1, <1>2, InvHolds, PatientInvHolds, PTL DEF Spec, ImplementsStates, States!Spec
=============================================================================
