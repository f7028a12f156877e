----------------------- MODULE ClusterLifecycleProofs -----------------------
(***************************************************************************)
(* Proofs about ClusterLifecycle, for any set of requests and any bounds:  *)
(* Inv is inductive, and the properties that hold under every interleaving *)
(* follow from it.                                                         *)
(***************************************************************************)
EXTENDS ClusterLifecycle, TLAPS, FiniteSetTheorems

\* A subset of a finite set of rows has a natural number of elements.
LEMMA SubsetCount ==
    ASSUME NEW S, IsFiniteSet(S), NEW T \in SUBSET S
    PROVE  IsFiniteSet(T) /\ Cardinality(T) \in Nat
  BY FS_Subset, FS_CardinalityType

\* What a step may do to the shared state without disturbing a run it does not
\* belong to: recorded rows stay recorded, ids grow, only new servers appear.
Frame ==
    /\ live \cup gone \subseteq live' \cup gone'
    /\ \A s \in cloud' : s \in cloud \/ s.id >= nextId
    /\ nextId' \in Nat /\ nextId' >= nextId
    /\ kubeconfig => kubeconfig'

\* A run keeps its part of the invariant through a step that leaves its own
\* record alone.
LEMMA RunKept ==
    ASSUME Inv, Frame, NEW r \in Run, runs'[r] = runs[r]
    PROVE  RunInv(r)'
  <1>1. RunInv(r) /\ nextId \in Nat /\ runs[r] \in RunState
    BY DEF Inv, TypeOK
  <1>2. PcFitsKind(r)'
    BY <1>1 DEF RunInv, PcFitsKind
  <1>3. RunIsOld(r)'
    BY <1>1 DEF RunInv, RunIsOld, Frame, RunState, Server
  <1>4. RunHasKubeconfig(r)'
    BY <1>1 DEF RunInv, RunHasKubeconfig, IsScale, Frame
  <1>5. RunRecords(r)'
    BY <1>1 DEF RunInv, RunRecords, Frame
  <1>6. RunDeletes(r)'
    <2>1. \A s \in runs[r].made : s \in cloud' => s \in cloud
      BY <1>1 DEF RunInv, RunIsOld, Frame, RunState, Server
    <2> QED
      BY <1>1, <2>1 DEF RunInv, RunDeletes
  <1> QED
    BY <1>1, <1>2, <1>3, <1>4, <1>5, <1>6 DEF RunInv, IsScale

\* A step of run r keeps the invariant when it keeps the type invariant, the
\* facts about the tables and r's own part: the other runs follow by RunKept.
LEMMA StepOfOne ==
    ASSUME Inv, NEW r \in Run, Frame, TypeOK', IsFiniteSet(live'),
           \A s \in live' \cup gone' \cup cloud' : s.id < nextId',
           ReadyHasKubeconfig', RunInv(r)',
           \A q \in Run \ {r} : runs'[q] = runs[q]
    PROVE  Inv'
  <1>1. \A q \in Run : RunInv(q)'
    BY RunKept
  <1> QED
    BY <1>1 DEF Inv

\* Replacing one run's record by another record keeps the type of runs.
LEMMA RunTyped ==
    ASSUME runs \in [Run -> RunState], NEW r \in Run, NEW x \in RunState, Put(r, x)
    PROVE  /\ runs' \in [Run -> RunState]
           /\ runs'[r] = x
           /\ \A q \in Run \ {r} : runs'[q] = runs[q]
  BY DEF Put

\* Moving one run to another place keeps the type of runs, and leaves the
\* other runs alone.
LEMMA GotoTyped ==
    ASSUME Inv, NEW r \in Run, NEW pc \in Pc, Goto(r, pc)
    PROVE  /\ runs' \in [Run -> RunState]
           /\ \A q \in Run \ {r} : runs'[q] = runs[q]
  <1>1. runs \in [Run -> RunState] /\ runs[r] \in RunState
    BY DEF Inv, TypeOK
  <1>2. [runs[r] EXCEPT !.pc = pc] \in RunState
    BY <1>1 DEF RunState
  <1> QED
    BY <1>1, <1>2, RunTyped DEF Goto

\* A step that changes only the record of r and the fault budget keeps the
\* invariant when it keeps r's part of it.
LEMMA RunOnlyStep ==
    ASSUME Inv, NEW r \in Run, UNCHANGED <<tables, hetzner, crashes>>,
           faults' \in 0..MaxFaults, runs' \in [Run -> RunState], RunInv(r)',
           \A q \in Run \ {r} : runs'[q] = runs[q]
    PROVE  Inv'
  <1>1. TypeOK'
    BY DEF Inv, TypeOK, tables, row, hetzner
  <1>2. Frame /\ IsFiniteSet(live') /\ ReadyHasKubeconfig'
    BY DEF Inv, TypeOK, Frame, ReadyHasKubeconfig, tables, row, hetzner
  <1>3. \A s \in live' \cup gone' \cup cloud' : s.id < nextId'
    BY DEF Inv, tables, hetzner
  <1> QED
    BY <1>1, <1>2, <1>3, StepOfOne

HandlerStep(r) ==
    \/ Create(r) \/ Destroy(r) \/ Scale(r) \/ Dispatch(r) \/ Decline(r)
    \/ DropAfterCount(r)

\* A handler keeps the invariant, up to the point where it spawns the task.
LEMMA HandlerKeepsInv ==
    ASSUME Inv, NEW r \in Run, HandlerStep(r)
    PROVE  Inv'
  <1> USE ConstantsAssumption
  <1> USE DEF row, tables, hetzner, budget, UpdateStatus, IsScale
  <1>1. CASE Create(r)
    <2>1. PICK n \in 1..MaxWorkers :
            /\ workerCount' = n
            /\ Put(r, [NoRun EXCEPT !.kind = "provision", !.pc = "admitted",
                                    !.cp = TRUE, !.count = n])
      BY <1>1, Zenon DEF Create
    <2>2. runs[r] \in RunState /\ RunInv(r)
      BY DEF Inv, TypeOK
    <2> DEFINE x == [NoRun EXCEPT !.kind = "provision", !.pc = "admitted", !.cp = TRUE, !.count = n]
    <2>3. x \in RunState
      <3>1. "admitted" \in Pc /\ "provision" \in Kind /\ n \in Nat
        BY DEF Pc, Kind
      <3> QED
        BY <3>1, Zenon DEF RunState, NoRun
    <2> HIDE DEF x
    <2>4. Put(r, x)
      BY <2>1 DEF x, Create
    <2>5. runs' \in [Run -> RunState] /\ runs'[r] = x /\ \A q \in Run \ {r} : runs'[q] = runs[q]
      BY <2>3, <2>4, RunTyped DEF Inv, TypeOK
    <2>6. /\ runs'[r].kind = "provision" /\ runs'[r].pc = "admitted"
          /\ runs'[r].made = {} /\ runs'[r].todo = {}
      BY <2>5, <2>1 DEF x, Inv, TypeOK, NoRun
    <2>7. TypeOK'
      BY <1>1, <2>5, <2>1 DEF Create, NoRun, Inv, TypeOK, RunInv, Status, RunState
    <2>8. Frame
      BY <1>1, <2>1 DEF Create, NoRun, Inv, TypeOK, Frame
    <2>9. IsFiniteSet(live')
      BY <1>1, <2>1 DEF Create, Inv
    <2>10. ReadyHasKubeconfig'
      BY <1>1, <2>1 DEF Create, Inv, TypeOK, ReadyHasKubeconfig, RunInv, RunHasKubeconfig,
           PcFitsKind, RunState, Kind
    <2>11. \A t \in live' \cup gone' \cup cloud' : t.id < nextId'
      BY <1>1, <2>1 DEF Create, NoRun, Inv, TypeOK, RunInv, RunIsOld, RunState, Server
    <2>12. RunInv(r)'
      <3>1. PcFitsKind(r)'
        BY <1>1, <2>1, <2>6, <2>2 DEF Create, RunInv, PcFitsKind
      <3>2. RunIsOld(r)'
        BY <1>1, <2>1, <2>6, <2>2 DEF Create, RunInv, RunIsOld, Inv, TypeOK, RunState,
             Server
      <3>3. RunHasKubeconfig(r)'
        BY <1>1, <2>1, <2>6, <2>2 DEF Create, RunInv, RunHasKubeconfig, PcFitsKind, Inv,
             ReadyHasKubeconfig
      <3>4. RunRecords(r)'
        BY <1>1, <2>1, <2>6, <2>2 DEF Create, RunInv, RunRecords, PcFitsKind
      <3>5. RunDeletes(r)'
        BY <1>1, <2>1, <2>6, <2>2 DEF Create, RunInv, RunDeletes, PcFitsKind
      <3> QED
        BY <1>1, <2>1, <2>6, <2>2, <3>1, <3>2, <3>3, <3>4, <3>5 DEF Create, RunInv
    <2> QED
      BY <2>5, <2>7, <2>8, <2>9, <2>10, <2>11, <2>12, StepOfOne
  <1>2. CASE Destroy(r)
    <2>1. runs' \in [Run -> RunState] /\ \A q \in Run \ {r} : runs'[q] = runs[q]
      BY <1>2, Zenon DEF Destroy, NoRun, Goto, Put, Inv, TypeOK, RunState, Kind, Pc, Ended
    <2>2. RunInv(r)'
      BY <1>2 DEF Destroy, NoRun, Goto, Put, Inv, TypeOK, RunState, RunInv, PcFitsKind,
           RunIsOld, RunHasKubeconfig, RunRecords, RunDeletes, ReadyHasKubeconfig
    <2>3. faults' \in 0..MaxFaults /\ UNCHANGED <<tables, hetzner, crashes>>
      BY <1>2 DEF Destroy, Inv, TypeOK
    <2> QED
      BY <2>1, <2>2, <2>3, RunOnlyStep
  <1>3. CASE Scale(r)
    <2>1. PICK n \in (1..MaxWorkers) \ {workerCount} :
            Put(r, [NoRun EXCEPT !.kind = IF n > workerCount THEN "scale_out" ELSE "scale_in",
                                 !.pc = "admitted", !.index = n,
                                 !.count = IF n > workerCount THEN n - workerCount
                                                              ELSE workerCount - n])
      BY <1>3, Zenon DEF Scale
    <2>2. runs[r] \in RunState /\ RunInv(r)
      BY DEF Inv, TypeOK
    <2> DEFINE x == [NoRun EXCEPT !.kind = IF n > workerCount THEN "scale_out" ELSE "scale_in",
                                !.pc = "admitted", !.index = n,
                                !.count = IF n > workerCount THEN n - workerCount
                                                             ELSE workerCount - n]
    <2>3. x \in RunState
      <3>1. "admitted" \in Pc /\ {"scale_out", "scale_in"} \subseteq Kind
        BY DEF Pc, Kind
      <3>2. /\ n \in Nat /\ workerCount \in Nat
            /\ (IF n > workerCount THEN n - workerCount ELSE workerCount - n) \in Nat
        BY DEF Inv, TypeOK
      <3>3. (IF n > workerCount THEN "scale_out" ELSE "scale_in") \in Kind
        BY <3>1
      <3> QED
        BY <3>1, <3>2, <3>3, Zenon DEF RunState, NoRun
    <2> HIDE DEF x
    <2>4. Put(r, x)
      BY <2>1 DEF x, Scale
    <2>5. runs' \in [Run -> RunState] /\ runs'[r] = x /\ \A q \in Run \ {r} : runs'[q] = runs[q]
      BY <2>3, <2>4, RunTyped DEF Inv, TypeOK
    <2>6. /\ runs'[r].kind \in {"scale_out", "scale_in"} /\ runs'[r].pc = "admitted"
          /\ runs'[r].index = n /\ runs'[r].made = {} /\ runs'[r].todo = {}
      BY <2>5, <2>1 DEF x, Inv, TypeOK, NoRun
    <2>7. RunInv(r)'
      <3>1. PcFitsKind(r)'
        BY <1>3, <2>1, <2>6, <2>2 DEF Scale, RunInv, PcFitsKind
      <3>2. RunIsOld(r)'
        BY <1>3, <2>1, <2>6, <2>2 DEF Scale, RunInv, RunIsOld, Inv, TypeOK, RunState, Server
      <3>3. RunHasKubeconfig(r)'
        BY <1>3, <2>1, <2>6, <2>2 DEF Scale, RunInv, RunHasKubeconfig, PcFitsKind, Inv,
             ReadyHasKubeconfig
      <3>4. RunRecords(r)'
        BY <1>3, <2>1, <2>6, <2>2 DEF Scale, RunInv, RunRecords, PcFitsKind
      <3>5. RunDeletes(r)'
        BY <1>3, <2>1, <2>6, <2>2 DEF Scale, RunInv, RunDeletes, PcFitsKind
      <3> QED
        BY <1>3, <2>1, <2>6, <2>2, <3>1, <3>2, <3>3, <3>4, <3>5 DEF Scale, RunInv
    <2>8. faults' \in 0..MaxFaults /\ UNCHANGED <<tables, hetzner, crashes>>
      BY <1>3 DEF Scale, Inv, TypeOK
    <2> QED
      BY <2>5, <2>7, <2>8, RunOnlyStep
  <1>4. CASE Dispatch(r)
    <2>1. runs[r] \in RunState /\ RunInv(r)
      BY DEF Inv, TypeOK
    <2> DEFINE x == [runs[r] EXCEPT !.pc = "begin", !.index = 0]
    <2>2. x \in RunState
      <3>1. "begin" \in Pc
        BY DEF Pc
      <3> QED
        BY <3>1, <2>1, Zenon DEF RunState
    <2> HIDE DEF x
    <2>3. Put(r, x)
      BY <1>4 DEF x, Dispatch
    <2>4. runs' \in [Run -> RunState] /\ runs'[r] = x /\ \A q \in Run \ {r} : runs'[q] = runs[q]
      BY <2>2, <2>3, RunTyped DEF Inv, TypeOK
    <2>5. /\ runs'[r].kind = runs[r].kind /\ runs'[r].pc = "begin"
          /\ runs'[r].todo = runs[r].todo /\ runs'[r].made = runs[r].made
      BY <2>4 DEF x, Inv, TypeOK, RunState
    <2>6. TypeOK'
      BY <1>4, <2>4 DEF Dispatch, Inv, TypeOK, RunInv, Status, RunState
    <2>7. Frame
      BY <1>4 DEF Dispatch, Inv, TypeOK, Frame
    <2>8. IsFiniteSet(live')
      BY <1>4 DEF Dispatch, Inv
    <2>9. ReadyHasKubeconfig'
      BY <1>4 DEF Dispatch, Inv, TypeOK, ReadyHasKubeconfig, RunInv, RunHasKubeconfig,
           PcFitsKind, RunState, Kind
    <2>10. \A t \in live' \cup gone' \cup cloud' : t.id < nextId'
      BY <1>4 DEF Dispatch, Inv, TypeOK, RunInv, RunIsOld, RunState, Server
    <2>11. RunInv(r)'
      <3>1. PcFitsKind(r)'
        BY <1>4, <2>5, <2>1 DEF Dispatch, RunInv, PcFitsKind
      <3>2. RunIsOld(r)'
        BY <1>4, <2>5, <2>1 DEF Dispatch, RunInv, RunIsOld, Inv, TypeOK, RunState, Server
      <3>3. RunHasKubeconfig(r)'
        BY <1>4, <2>5, <2>1 DEF Dispatch, RunInv, RunHasKubeconfig, PcFitsKind, Inv,
             ReadyHasKubeconfig
      <3>4. RunRecords(r)'
        BY <1>4, <2>5, <2>1 DEF Dispatch, RunInv, RunRecords, PcFitsKind
      <3>5. RunDeletes(r)'
        BY <1>4, <2>5, <2>1 DEF Dispatch, RunInv, RunDeletes, PcFitsKind
      <3> QED
        BY <1>4, <2>5, <2>1, <3>1, <3>2, <3>3, <3>4, <3>5 DEF Dispatch, RunInv
    <2> QED
      BY <2>4, <2>6, <2>7, <2>8, <2>9, <2>10, <2>11, StepOfOne
  <1>5. CASE Decline(r)
    <2>1. runs' \in [Run -> RunState] /\ \A q \in Run \ {r} : runs'[q] = runs[q]
      BY <1>5, GotoTyped DEF Decline, Pc, Ended
    <2>2. RunInv(r)'
      BY <1>5 DEF Decline, Goto, Put, Inv, TypeOK, RunState, RunInv, PcFitsKind, RunIsOld,
           RunHasKubeconfig, RunRecords, RunDeletes, ReadyHasKubeconfig
    <2>3. faults' \in 0..MaxFaults /\ UNCHANGED <<tables, hetzner, crashes>>
      BY <1>5 DEF Decline, Inv, TypeOK
    <2> QED
      BY <2>1, <2>2, <2>3, RunOnlyStep
  <1>6. CASE DropAfterCount(r)
    <2>1. runs' \in [Run -> RunState] /\ \A q \in Run \ {r} : runs'[q] = runs[q]
      BY <1>6, GotoTyped DEF DropAfterCount, Pc, Ended
    <2>2. TypeOK'
      BY <1>6, <2>1 DEF DropAfterCount, Inv, TypeOK, RunInv, Status, RunState
    <2>3. Frame
      BY <1>6 DEF DropAfterCount, Inv, TypeOK, Frame
    <2>4. IsFiniteSet(live')
      BY <1>6 DEF DropAfterCount, Inv
    <2>5. ReadyHasKubeconfig'
      BY <1>6 DEF DropAfterCount, Inv, TypeOK, ReadyHasKubeconfig, RunInv, RunHasKubeconfig,
           PcFitsKind, RunState, Kind
    <2>6. \A t \in live' \cup gone' \cup cloud' : t.id < nextId'
      BY <1>6 DEF DropAfterCount, Inv, TypeOK, RunInv, RunIsOld, RunState, Server
    <2>7. RunInv(r)'
      BY <1>6 DEF DropAfterCount, Goto, Put, Inv, TypeOK, RunState, RunInv, PcFitsKind,
           RunIsOld, RunHasKubeconfig, RunRecords, RunDeletes, ReadyHasKubeconfig
    <2> QED
      BY <2>1, <2>2, <2>3, <2>4, <2>5, <2>6, <2>7, StepOfOne
  <1> QED
    BY <1>1, <1>2, <1>3, <1>4, <1>5, <1>6 DEF HandlerStep

TaskStartStep(r) ==
    \/ Begin(r) \/ BeginDestroy(r) \/ MarkDestroying(r) \/ OpenWorkflow(r)
    \/ ListForDestroy(r) \/ ListForScaleOut(r) \/ JoinRefused(r)
    \/ ListForScaleIn(r)

\* The first statements of a task keep the invariant.
LEMMA TaskStartKeepsInv ==
    ASSUME Inv, NEW r \in Run, TaskStartStep(r)
    PROVE  Inv'
  <1> USE ConstantsAssumption
  <1> USE DEF row, tables, hetzner, budget, UpdateStatus, IsScale
  <1>1. CASE Begin(r)
    <2>1. runs' \in [Run -> RunState] /\ \A q \in Run \ {r} : runs'[q] = runs[q]
      BY <1>1, GotoTyped DEF Begin, Pc, Ended
    <2>2. TypeOK'
      BY <1>1, <2>1 DEF Begin, Inv, TypeOK, RunInv, Status, RunState
    <2>3. Frame
      BY <1>1 DEF Begin, Inv, TypeOK, Frame
    <2>4. IsFiniteSet(live')
      BY <1>1 DEF Begin, Inv
    <2>5. ReadyHasKubeconfig'
      BY <1>1 DEF Begin, Inv, TypeOK, ReadyHasKubeconfig, RunInv, RunHasKubeconfig,
           PcFitsKind, RunState, Kind
    <2>6. \A t \in live' \cup gone' \cup cloud' : t.id < nextId'
      BY <1>1 DEF Begin, Inv, TypeOK, RunInv, RunIsOld, RunState, Server
    <2>7. RunInv(r)'
      BY <1>1 DEF Begin, Goto, Put, Inv, TypeOK, RunState, RunInv, PcFitsKind, RunIsOld,
           RunHasKubeconfig, RunRecords, RunDeletes, ReadyHasKubeconfig
    <2> QED
      BY <2>1, <2>2, <2>3, <2>4, <2>5, <2>6, <2>7, StepOfOne
  <1>2. CASE BeginDestroy(r)
    <2>1. runs' \in [Run -> RunState] /\ \A q \in Run \ {r} : runs'[q] = runs[q]
      BY <1>2, GotoTyped DEF BeginDestroy, Pc, Ended
    <2>2. RunInv(r)'
      BY <1>2 DEF BeginDestroy, Goto, Put, Inv, TypeOK, RunState, RunInv, PcFitsKind,
           RunIsOld, RunHasKubeconfig, RunRecords, RunDeletes, ReadyHasKubeconfig
    <2>3. faults' \in 0..MaxFaults /\ UNCHANGED <<tables, hetzner, crashes>>
      BY <1>2 DEF BeginDestroy, Inv, TypeOK
    <2> QED
      BY <2>1, <2>2, <2>3, RunOnlyStep
  <1>3. CASE MarkDestroying(r)
    <2>1. runs' \in [Run -> RunState] /\ \A q \in Run \ {r} : runs'[q] = runs[q]
      BY <1>3, GotoTyped DEF MarkDestroying, Pc, Ended
    <2>2. TypeOK'
      BY <1>3, <2>1 DEF MarkDestroying, Inv, TypeOK, RunInv, Status, RunState
    <2>3. Frame
      BY <1>3 DEF MarkDestroying, Inv, TypeOK, Frame
    <2>4. IsFiniteSet(live')
      BY <1>3 DEF MarkDestroying, Inv
    <2>5. ReadyHasKubeconfig'
      BY <1>3 DEF MarkDestroying, Inv, TypeOK, ReadyHasKubeconfig, RunInv, RunHasKubeconfig,
           PcFitsKind, RunState, Kind
    <2>6. \A t \in live' \cup gone' \cup cloud' : t.id < nextId'
      BY <1>3 DEF MarkDestroying, Inv, TypeOK, RunInv, RunIsOld, RunState, Server
    <2>7. RunInv(r)'
      BY <1>3 DEF MarkDestroying, Goto, Put, Inv, TypeOK, RunState, RunInv, PcFitsKind,
           RunIsOld, RunHasKubeconfig, RunRecords, RunDeletes, ReadyHasKubeconfig
    <2> QED
      BY <2>1, <2>2, <2>3, <2>4, <2>5, <2>6, <2>7, StepOfOne
  <1>4. CASE OpenWorkflow(r)
    <2>1. runs' \in [Run -> RunState] /\ \A q \in Run \ {r} : runs'[q] = runs[q]
      BY <1>4, GotoTyped DEF OpenWorkflow, Pc, Ended
    <2>2. TypeOK'
      BY <1>4, <2>1 DEF OpenWorkflow, Inv, TypeOK, RunInv, Status, RunState
    <2>3. Frame
      BY <1>4 DEF OpenWorkflow, Inv, TypeOK, Frame
    <2>4. IsFiniteSet(live')
      BY <1>4 DEF OpenWorkflow, Inv
    <2>5. ReadyHasKubeconfig'
      BY <1>4 DEF OpenWorkflow, Inv, TypeOK, ReadyHasKubeconfig, RunInv, RunHasKubeconfig,
           PcFitsKind, RunState, Kind
    <2>6. \A t \in live' \cup gone' \cup cloud' : t.id < nextId'
      BY <1>4 DEF OpenWorkflow, Inv, TypeOK, RunInv, RunIsOld, RunState, Server
    <2>7. RunInv(r)'
      BY <1>4 DEF OpenWorkflow, Goto, Put, Inv, TypeOK, RunState, RunInv, PcFitsKind,
           RunIsOld, RunHasKubeconfig, RunRecords, RunDeletes, ReadyHasKubeconfig
    <2> QED
      BY <2>1, <2>2, <2>3, <2>4, <2>5, <2>6, <2>7, StepOfOne
  <1>5. CASE ListForDestroy(r)
    <2>1. runs[r] \in RunState /\ RunInv(r)
      BY DEF Inv, TypeOK
    <2> DEFINE x == [runs[r] EXCEPT !.pc = IF live = {} THEN "forget" ELSE "delete",
                                  !.todo = live, !.made = live]
    <2>2. x \in RunState
      <3>1. (IF live = {} THEN "forget" ELSE "delete") \in Pc /\ live \in SUBSET Server
        BY DEF Pc, Inv, TypeOK
      <3> QED
        BY <3>1, <2>1, Zenon DEF RunState
    <2> HIDE DEF x
    <2>3. Put(r, x)
      BY <1>5 DEF x, ListForDestroy
    <2>4. runs' \in [Run -> RunState] /\ runs'[r] = x /\ \A q \in Run \ {r} : runs'[q] = runs[q]
      BY <2>2, <2>3, RunTyped DEF Inv, TypeOK
    <2>5. /\ runs'[r].kind = runs[r].kind
          /\ runs'[r].pc = IF live = {} THEN "forget" ELSE "delete"
          /\ runs'[r].todo = live /\ runs'[r].made = live
      BY <2>4 DEF x, Inv, TypeOK, RunState
    <2>6. RunInv(r)'
      <3>1. PcFitsKind(r)'
        BY <1>5, <2>5, <2>1 DEF ListForDestroy, RunInv, PcFitsKind
      <3>2. RunIsOld(r)'
        BY <1>5, <2>5, <2>1 DEF ListForDestroy, RunInv, RunIsOld, Inv, TypeOK, RunState,
             Server
      <3>3. RunHasKubeconfig(r)'
        BY <1>5, <2>5, <2>1 DEF ListForDestroy, RunInv, RunHasKubeconfig, PcFitsKind, Inv,
             ReadyHasKubeconfig
      <3>4. RunRecords(r)'
        BY <1>5, <2>5, <2>1 DEF ListForDestroy, RunInv, RunRecords, PcFitsKind
      <3>5. RunDeletes(r)'
        BY <1>5, <2>5, <2>1 DEF ListForDestroy, RunInv, RunDeletes, PcFitsKind
      <3> QED
        BY <1>5, <2>5, <2>1, <3>1, <3>2, <3>3, <3>4, <3>5 DEF ListForDestroy, RunInv
    <2>7. faults' \in 0..MaxFaults /\ UNCHANGED <<tables, hetzner, crashes>>
      BY <1>5 DEF ListForDestroy, Inv, TypeOK
    <2> QED
      BY <2>4, <2>6, <2>7, RunOnlyStep
  <1>6. CASE ListForScaleOut(r)
    <2>1. runs[r] \in RunState /\ RunInv(r)
      BY DEF Inv, TypeOK
    <2> DEFINE x == [runs[r] EXCEPT !.pc = "create", !.index = Cardinality(Workers(live))]
    <2>2. x \in RunState
      <3>1. "create" \in Pc /\ Cardinality(Workers(live)) \in Nat
        BY SubsetCount DEF Pc, Inv, Workers
      <3> QED
        BY <3>1, <2>1, Zenon DEF RunState
    <2> HIDE DEF x
    <2>3. Put(r, x)
      BY <1>6 DEF x, ListForScaleOut
    <2>4. runs' \in [Run -> RunState] /\ runs'[r] = x /\ \A q \in Run \ {r} : runs'[q] = runs[q]
      BY <2>2, <2>3, RunTyped DEF Inv, TypeOK
    <2>5. /\ runs'[r].kind = runs[r].kind /\ runs'[r].pc = "create"
          /\ runs'[r].todo = runs[r].todo /\ runs'[r].made = runs[r].made
      BY <2>4 DEF x, Inv, TypeOK, RunState
    <2>6. RunInv(r)'
      <3>1. PcFitsKind(r)'
        BY <1>6, <2>5, <2>1 DEF ListForScaleOut, RunInv, PcFitsKind
      <3>2. RunIsOld(r)'
        BY <1>6, <2>5, <2>1 DEF ListForScaleOut, RunInv, RunIsOld, Inv, TypeOK, RunState,
             Server
      <3>3. RunHasKubeconfig(r)'
        BY <1>6, <2>5, <2>1 DEF ListForScaleOut, RunInv, RunHasKubeconfig, PcFitsKind, Inv,
             ReadyHasKubeconfig
      <3>4. RunRecords(r)'
        BY <1>6, <2>5, <2>1 DEF ListForScaleOut, RunInv, RunRecords, PcFitsKind
      <3>5. RunDeletes(r)'
        BY <1>6, <2>5, <2>1 DEF ListForScaleOut, RunInv, RunDeletes, PcFitsKind
      <3> QED
        BY <1>6, <2>5, <2>1, <3>1, <3>2, <3>3, <3>4, <3>5 DEF ListForScaleOut, RunInv
    <2>7. faults' \in 0..MaxFaults /\ UNCHANGED <<tables, hetzner, crashes>>
      BY <1>6 DEF ListForScaleOut, Inv, TypeOK
    <2> QED
      BY <2>4, <2>6, <2>7, RunOnlyStep
  <1>7. CASE JoinRefused(r)
    <2>1. runs' \in [Run -> RunState] /\ \A q \in Run \ {r} : runs'[q] = runs[q]
      BY <1>7, GotoTyped DEF JoinRefused, Pc, Ended
    <2>2. RunInv(r)'
      BY <1>7 DEF JoinRefused, Goto, Put, Inv, TypeOK, RunState, RunInv, PcFitsKind,
           RunIsOld, RunHasKubeconfig, RunRecords, RunDeletes, ReadyHasKubeconfig
    <2>3. faults' \in 0..MaxFaults /\ UNCHANGED <<tables, hetzner, crashes>>
      BY <1>7 DEF JoinRefused, Inv, TypeOK
    <2> QED
      BY <2>1, <2>2, <2>3, RunOnlyStep
  <1>8. CASE ListForScaleIn(r)
    <2>1. runs[r] \in RunState /\ RunInv(r)
      BY DEF Inv, TypeOK
    <2> DEFINE x == [runs[r] EXCEPT !.pc = "drain", !.todo = Youngest(runs[r].count, live),
                                  !.made = Youngest(runs[r].count, live),
                                  !.nodes = {Position(s, live) : s \in Youngest(runs[r].count, live)}]
    <2>2. x \in RunState
      <3>1. "drain" \in Pc
        BY DEF Pc
      <3>2. Youngest(runs[r].count, live) \in SUBSET Server
        BY DEF Inv, TypeOK, Youngest, Workers
      <3>3. \A s \in live : Position(s, live) \in Nat
        BY SubsetCount DEF Inv, Position, Workers
      <3>4. Youngest(runs[r].count, live) \subseteq live
        BY DEF Youngest, Workers
      <3>5. {Position(s, live) : s \in Youngest(runs[r].count, live)} \in SUBSET Nat
        BY <3>3, <3>4
      <3> QED
        BY <3>1, <3>2, <3>5, <2>1, Zenon DEF RunState
    <2> HIDE DEF x
    <2>3. Put(r, x)
      BY <1>8 DEF x, ListForScaleIn
    <2>4. runs' \in [Run -> RunState] /\ runs'[r] = x /\ \A q \in Run \ {r} : runs'[q] = runs[q]
      BY <2>2, <2>3, RunTyped DEF Inv, TypeOK
    <2>5. /\ runs'[r].kind = runs[r].kind /\ runs'[r].pc = "drain"
          /\ runs'[r].todo \subseteq live /\ runs'[r].made = runs'[r].todo
      BY <2>4 DEF x, Inv, TypeOK, RunState, Youngest, Workers
    <2>6. RunInv(r)'
      <3>1. PcFitsKind(r)'
        BY <1>8, <2>5, <2>1 DEF ListForScaleIn, RunInv, PcFitsKind
      <3>2. RunIsOld(r)'
        BY <1>8, <2>5, <2>1 DEF ListForScaleIn, RunInv, RunIsOld, Inv, TypeOK, RunState,
             Server
      <3>3. RunHasKubeconfig(r)'
        BY <1>8, <2>5, <2>1 DEF ListForScaleIn, RunInv, RunHasKubeconfig, PcFitsKind, Inv,
             ReadyHasKubeconfig
      <3>4. RunRecords(r)'
        BY <1>8, <2>5, <2>1 DEF ListForScaleIn, RunInv, RunRecords, PcFitsKind
      <3>5. RunDeletes(r)'
        BY <1>8, <2>5, <2>1 DEF ListForScaleIn, RunInv, RunDeletes, PcFitsKind
      <3> QED
        BY <1>8, <2>5, <2>1, <3>1, <3>2, <3>3, <3>4, <3>5 DEF ListForScaleIn, RunInv
    <2>7. faults' \in 0..MaxFaults /\ UNCHANGED <<tables, hetzner, crashes>>
      BY <1>8 DEF ListForScaleIn, Inv, TypeOK
    <2> QED
      BY <2>4, <2>6, <2>7, RunOnlyStep
  <1> QED
    BY <1>1, <1>2, <1>3, <1>4, <1>5, <1>6, <1>7, <1>8 DEF TaskStartStep

MakingStep(r) ==
    \/ CreateServer(r) \/ CreateLost(r) \/ ServersUp(r) \/ ActivityFails(r)
    \/ RecordServer(r) \/ StoreKubeconfig(r)

\* provision_cluster and scale_out keep the invariant, and so does recording what they
\* made.
LEMMA MakingKeepsInv ==
    ASSUME Inv, NEW r \in Run, MakingStep(r)
    PROVE  Inv'
  <1> USE ConstantsAssumption
  <1> USE DEF row, tables, hetzner, budget, UpdateStatus, IsScale
  <1>1. CASE CreateServer(r)
    <2>1. runs[r] \in RunState /\ RunInv(r)
      BY DEF Inv, TypeOK
    <2> DEFINE x == [runs[r] EXCEPT !.made = @ \cup {NewServer(r)}, !.cp = FALSE,
                                  !.index = IF runs[r].cp THEN @ ELSE @ + 1,
                                  !.count = IF runs[r].cp THEN @ ELSE @ - 1]
    <2>2. x \in RunState
      <3>1. NewServer(r) \in Server
        BY DEF NewServer, Server, Inv, TypeOK, RunState
      <3>2. runs[r].made \cup {NewServer(r)} \in SUBSET Server
        BY <3>1 DEF Inv, TypeOK, RunState
      <3>3. /\ (IF runs[r].cp THEN runs[r].index ELSE runs[r].index + 1) \in Nat
            /\ (IF runs[r].cp THEN runs[r].count ELSE runs[r].count - 1) \in Nat
        BY <1>1 DEF CreateServer, Inv, TypeOK, RunState
      <3> QED
        BY <3>2, <3>3, <2>1, Zenon DEF RunState
    <2> HIDE DEF x
    <2>3. Put(r, x)
      BY <1>1 DEF x, CreateServer
    <2>4. runs' \in [Run -> RunState] /\ runs'[r] = x /\ \A q \in Run \ {r} : runs'[q] = runs[q]
      BY <2>2, <2>3, RunTyped DEF Inv, TypeOK
    <2>5. /\ runs'[r].kind = runs[r].kind /\ runs'[r].pc = runs[r].pc
          /\ runs'[r].todo = runs[r].todo /\ runs'[r].made = runs[r].made \cup {NewServer(r)}
      BY <2>4 DEF x, Inv, TypeOK, RunState
    <2>6. TypeOK'
      BY <1>1, <2>4 DEF CreateServer, NewServer, Server, Inv, TypeOK, RunInv, Status,
           RunState
    <2>7. Frame
      BY <1>1 DEF CreateServer, NewServer, Server, Inv, TypeOK, Frame
    <2>8. IsFiniteSet(live')
      BY <1>1 DEF CreateServer, Inv
    <2>9. ReadyHasKubeconfig'
      BY <1>1 DEF CreateServer, Inv, TypeOK, ReadyHasKubeconfig, RunInv, RunHasKubeconfig,
           PcFitsKind, RunState, Kind
    <2>10. \A t \in live' \cup gone' \cup cloud' : t.id < nextId'
      BY <1>1 DEF CreateServer, NewServer, Server, Inv, TypeOK, RunInv, RunIsOld, RunState,
           Server
    <2>11. RunInv(r)'
      <3>1. PcFitsKind(r)'
        BY <1>1, <2>5, <2>1 DEF CreateServer, RunInv, PcFitsKind
      <3>2. RunIsOld(r)'
        BY <1>1, <2>5, <2>1 DEF CreateServer, NewServer, Server, RunInv, RunIsOld, Inv,
             TypeOK, RunState, Server
      <3>3. RunHasKubeconfig(r)'
        BY <1>1, <2>5, <2>1 DEF CreateServer, RunInv, RunHasKubeconfig, PcFitsKind, Inv,
             ReadyHasKubeconfig
      <3>4. RunRecords(r)'
        BY <1>1, <2>5, <2>1 DEF CreateServer, RunInv, RunRecords, PcFitsKind
      <3>5. RunDeletes(r)'
        BY <1>1, <2>5, <2>1 DEF CreateServer, RunInv, RunDeletes, PcFitsKind
      <3> QED
        BY <1>1, <2>5, <2>1, <3>1, <3>2, <3>3, <3>4, <3>5 DEF CreateServer, RunInv
    <2> QED
      BY <2>4, <2>6, <2>7, <2>8, <2>9, <2>10, <2>11, StepOfOne
  <1>2. CASE CreateLost(r)
    <2>1. runs' \in [Run -> RunState] /\ \A q \in Run \ {r} : runs'[q] = runs[q]
      BY <1>2 DEF CreateLost, NewServer, Server, Goto, Put, Inv, TypeOK, RunState, Kind,
           Pc, Ended
    <2>2. TypeOK'
      BY <1>2, <2>1 DEF CreateLost, NewServer, Server, Inv, TypeOK, RunInv, Status,
           RunState
    <2>3. Frame
      BY <1>2 DEF CreateLost, NewServer, Server, Inv, TypeOK, Frame
    <2>4. IsFiniteSet(live')
      BY <1>2 DEF CreateLost, Inv
    <2>5. ReadyHasKubeconfig'
      BY <1>2 DEF CreateLost, Inv, TypeOK, ReadyHasKubeconfig, RunInv, RunHasKubeconfig,
           PcFitsKind, RunState, Kind
    <2>6. \A t \in live' \cup gone' \cup cloud' : t.id < nextId'
      BY <1>2 DEF CreateLost, NewServer, Server, Inv, TypeOK, RunInv, RunIsOld, RunState,
           Server
    <2>7. RunInv(r)'
      BY <1>2 DEF CreateLost, NewServer, Server, Goto, Put, Inv, TypeOK, RunState, RunInv,
           PcFitsKind, RunIsOld, RunHasKubeconfig, RunRecords, RunDeletes,
           ReadyHasKubeconfig
    <2> QED
      BY <2>1, <2>2, <2>3, <2>4, <2>5, <2>6, <2>7, StepOfOne
  <1>3. CASE ServersUp(r)
    <2>1. runs[r] \in RunState /\ RunInv(r)
      BY DEF Inv, TypeOK
    <2> DEFINE x == [runs[r] EXCEPT !.pc = "record", !.todo = runs[r].made]
    <2>2. x \in RunState
      <3>1. "record" \in Pc /\ runs[r].made \in SUBSET Server
        BY DEF Pc, Inv, TypeOK, RunState
      <3> QED
        BY <3>1, <2>1, Zenon DEF RunState
    <2> HIDE DEF x
    <2>3. Put(r, x)
      BY <1>3 DEF x, ServersUp
    <2>4. runs' \in [Run -> RunState] /\ runs'[r] = x /\ \A q \in Run \ {r} : runs'[q] = runs[q]
      BY <2>2, <2>3, RunTyped DEF Inv, TypeOK
    <2>5. /\ runs'[r].kind = runs[r].kind /\ runs'[r].pc = "record"
          /\ runs'[r].todo = runs[r].made /\ runs'[r].made = runs[r].made
      BY <2>4 DEF x, Inv, TypeOK, RunState
    <2>6. RunInv(r)'
      <3>1. PcFitsKind(r)'
        BY <1>3, <2>5, <2>1 DEF ServersUp, RunInv, PcFitsKind
      <3>2. RunIsOld(r)'
        BY <1>3, <2>5, <2>1 DEF ServersUp, RunInv, RunIsOld, Inv, TypeOK, RunState, Server
      <3>3. RunHasKubeconfig(r)'
        BY <1>3, <2>5, <2>1 DEF ServersUp, RunInv, RunHasKubeconfig, PcFitsKind, Inv,
             ReadyHasKubeconfig
      <3>4. RunRecords(r)'
        BY <1>3, <2>5, <2>1 DEF ServersUp, RunInv, RunRecords, PcFitsKind
      <3>5. RunDeletes(r)'
        BY <1>3, <2>5, <2>1 DEF ServersUp, RunInv, RunDeletes, PcFitsKind
      <3> QED
        BY <1>3, <2>5, <2>1, <3>1, <3>2, <3>3, <3>4, <3>5 DEF ServersUp, RunInv
    <2>7. faults' \in 0..MaxFaults /\ UNCHANGED <<tables, hetzner, crashes>>
      BY <1>3 DEF ServersUp, Inv, TypeOK
    <2> QED
      BY <2>4, <2>6, <2>7, RunOnlyStep
  <1>4. CASE ActivityFails(r)
    <2>1. runs' \in [Run -> RunState] /\ \A q \in Run \ {r} : runs'[q] = runs[q]
      BY <1>4, GotoTyped DEF ActivityFails, Pc, Ended
    <2>2. RunInv(r)'
      BY <1>4 DEF ActivityFails, Goto, Put, Inv, TypeOK, RunState, RunInv, PcFitsKind,
           RunIsOld, RunHasKubeconfig, RunRecords, RunDeletes, ReadyHasKubeconfig
    <2>3. faults' \in 0..MaxFaults /\ UNCHANGED <<tables, hetzner, crashes>>
      BY <1>4 DEF ActivityFails, Inv, TypeOK
    <2> QED
      BY <2>1, <2>2, <2>3, RunOnlyStep
  <1>5. CASE RecordServer(r)
    <2>1. PICK s \in runs[r].todo :
            /\ live' = live \cup {s}
            /\ Put(r, [runs[r] EXCEPT !.todo = @ \ {s},
                   !.pc = IF runs[r].todo # {s} THEN "record"
                          ELSE IF runs[r].kind = "provision" THEN "kube" ELSE "settle"])
      BY <1>5, Zenon DEF RecordServer
    <2>2. runs[r] \in RunState /\ RunInv(r)
      BY DEF Inv, TypeOK
    <2> DEFINE x == [runs[r] EXCEPT !.todo = @ \ {s},
                      !.pc = IF runs[r].todo # {s} THEN "record"
                             ELSE IF runs[r].kind = "provision" THEN "kube" ELSE "settle"]
    <2>3. x \in RunState
      <3>1. {"record", "kube", "settle"} \subseteq Pc
        BY DEF Pc
      <3>2. runs[r].todo \ {s} \in SUBSET Server
        BY DEF Inv, TypeOK, RunState
      <3> QED
        BY <3>1, <3>2, <2>2, Zenon DEF RunState
    <2> HIDE DEF x
    <2>4. Put(r, x)
      BY <2>1 DEF x, RecordServer
    <2>5. runs' \in [Run -> RunState] /\ runs'[r] = x /\ \A q \in Run \ {r} : runs'[q] = runs[q]
      BY <2>3, <2>4, RunTyped DEF Inv, TypeOK
    <2>6. /\ runs'[r].kind = runs[r].kind
          /\ runs'[r].pc = IF runs[r].todo # {s} THEN "record"
                           ELSE IF runs[r].kind = "provision" THEN "kube" ELSE "settle"
          /\ runs'[r].todo = runs[r].todo \ {s} /\ runs'[r].made = runs[r].made
      BY <2>5, <2>1 DEF x, Inv, TypeOK, RunState
    <2>7. TypeOK'
      BY <1>5, <2>5, <2>1 DEF RecordServer, Inv, TypeOK, RunInv, Status, RunState
    <2>8. Frame
      BY <1>5, <2>1 DEF RecordServer, Inv, TypeOK, Frame
    <2>9. IsFiniteSet(live')
      BY <1>5, <2>1, FS_AddElement DEF RecordServer, Inv
    <2>10. ReadyHasKubeconfig'
      BY <1>5, <2>1 DEF RecordServer, Inv, TypeOK, ReadyHasKubeconfig, RunInv,
           RunHasKubeconfig, PcFitsKind, RunState, Kind
    <2>11. \A t \in live' \cup gone' \cup cloud' : t.id < nextId'
      BY <1>5, <2>1 DEF RecordServer, Inv, TypeOK, RunInv, RunIsOld, RunState, Server
    <2>12. RunInv(r)'
      <3>1. PcFitsKind(r)'
        BY <1>5, <2>1, <2>6, <2>2 DEF RecordServer, RunInv, PcFitsKind
      <3>2. RunIsOld(r)'
        BY <1>5, <2>1, <2>6, <2>2 DEF RecordServer, RunInv, RunIsOld, Inv, TypeOK,
             RunState, Server
      <3>3. RunHasKubeconfig(r)'
        BY <1>5, <2>1, <2>6, <2>2 DEF RecordServer, RunInv, RunHasKubeconfig, PcFitsKind,
             Inv, ReadyHasKubeconfig
      <3>4. RunRecords(r)'
        BY <1>5, <2>1, <2>6, <2>2 DEF RecordServer, RunInv, RunRecords, PcFitsKind
      <3>5. RunDeletes(r)'
        BY <1>5, <2>1, <2>6, <2>2 DEF RecordServer, RunInv, RunDeletes, PcFitsKind
      <3> QED
        BY <1>5, <2>1, <2>6, <2>2, <3>1, <3>2, <3>3, <3>4, <3>5 DEF RecordServer, RunInv
    <2> QED
      BY <2>5, <2>7, <2>8, <2>9, <2>10, <2>11, <2>12, StepOfOne
  <1>6. CASE StoreKubeconfig(r)
    <2>1. runs' \in [Run -> RunState] /\ \A q \in Run \ {r} : runs'[q] = runs[q]
      BY <1>6, GotoTyped DEF StoreKubeconfig, Pc, Ended
    <2>2. TypeOK'
      BY <1>6, <2>1, Zenon DEF StoreKubeconfig, Inv, TypeOK, RunInv, Status, RunState
    <2>3. Frame
      BY <1>6 DEF StoreKubeconfig, Inv, TypeOK, Frame
    <2>4. IsFiniteSet(live')
      BY <1>6 DEF StoreKubeconfig, Inv
    <2>5. ReadyHasKubeconfig'
      BY <1>6 DEF StoreKubeconfig, Inv, TypeOK, ReadyHasKubeconfig, RunInv,
           RunHasKubeconfig, PcFitsKind, RunState, Kind
    <2>6. \A t \in live' \cup gone' \cup cloud' : t.id < nextId'
      BY <1>6 DEF StoreKubeconfig, Inv, TypeOK, RunInv, RunIsOld, RunState, Server
    <2>7. RunInv(r)'
      BY <1>6 DEF StoreKubeconfig, Goto, Put, Inv, TypeOK, RunState, RunInv, PcFitsKind,
           RunIsOld, RunHasKubeconfig, RunRecords, RunDeletes, ReadyHasKubeconfig
    <2> QED
      BY <2>1, <2>2, <2>3, <2>4, <2>5, <2>6, <2>7, StepOfOne
  <1> QED
    BY <1>1, <1>2, <1>3, <1>4, <1>5, <1>6 DEF MakingStep

RemovingStep(r) ==
    \/ DrainNodes(r) \/ NoKubeconfig(r) \/ DeleteServer(r) \/ DeleteFails(r)
    \/ SoftDeleteServers(r) \/ ForgetRow(r) \/ FinalizeLookup(r) \/ SoftDelete(r)

\* scale_in and destroy_cluster keep the invariant, and so does retiring the rows.
LEMMA RemovingKeepsInv ==
    ASSUME Inv, NEW r \in Run, RemovingStep(r)
    PROVE  Inv'
  <1> USE ConstantsAssumption
  <1> USE DEF row, tables, hetzner, budget, UpdateStatus, IsScale
  <1>1. CASE DrainNodes(r)
    <2>1. runs' \in [Run -> RunState] /\ \A q \in Run \ {r} : runs'[q] = runs[q]
      BY <1>1, GotoTyped DEF DrainNodes, Pc, Ended
    <2>2. RunInv(r)'
      BY <1>1 DEF DrainNodes, Goto, Put, Inv, TypeOK, RunState, RunInv, PcFitsKind,
           RunIsOld, RunHasKubeconfig, RunRecords, RunDeletes, ReadyHasKubeconfig
    <2>3. faults' \in 0..MaxFaults /\ UNCHANGED <<tables, hetzner, crashes>>
      BY <1>1 DEF DrainNodes, Inv, TypeOK
    <2> QED
      BY <2>1, <2>2, <2>3, RunOnlyStep
  <1>2. CASE NoKubeconfig(r)
    <2>1. runs' \in [Run -> RunState] /\ \A q \in Run \ {r} : runs'[q] = runs[q]
      BY <1>2, GotoTyped DEF NoKubeconfig, Pc, Ended
    <2>2. RunInv(r)'
      BY <1>2 DEF NoKubeconfig, Goto, Put, Inv, TypeOK, RunState, RunInv, PcFitsKind,
           RunIsOld, RunHasKubeconfig, RunRecords, RunDeletes, ReadyHasKubeconfig
    <2>3. faults' \in 0..MaxFaults /\ UNCHANGED <<tables, hetzner, crashes>>
      BY <1>2 DEF NoKubeconfig, Inv, TypeOK
    <2> QED
      BY <2>1, <2>2, <2>3, RunOnlyStep
  <1>3. CASE DeleteServer(r)
    <2>1. PICK s \in runs[r].todo :
            /\ cloud' = cloud \ {s}
            /\ Put(r, [runs[r] EXCEPT
                   !.pc = IF runs[r].todo = {s} THEN "forget" ELSE "delete",
                   !.todo = IF runs[r].todo = {s} THEN runs[r].made ELSE @ \ {s}])
      BY <1>3, Zenon DEF DeleteServer
    <2>2. runs[r] \in RunState /\ RunInv(r)
      BY DEF Inv, TypeOK
    <2> DEFINE x == [runs[r] EXCEPT !.pc = IF runs[r].todo = {s} THEN "forget" ELSE "delete",
                                  !.todo = IF runs[r].todo = {s} THEN runs[r].made ELSE @ \ {s}]
    <2>3. x \in RunState
      <3>1. {"forget", "delete"} \subseteq Pc
        BY DEF Pc
      <3>2. (IF runs[r].todo = {s} THEN runs[r].made ELSE runs[r].todo \ {s}) \in SUBSET Server
        BY DEF Inv, TypeOK, RunState
      <3> QED
        BY <3>1, <3>2, <2>2, Zenon DEF RunState
    <2> HIDE DEF x
    <2>4. Put(r, x)
      BY <2>1 DEF x, DeleteServer
    <2>5. runs' \in [Run -> RunState] /\ runs'[r] = x /\ \A q \in Run \ {r} : runs'[q] = runs[q]
      BY <2>3, <2>4, RunTyped DEF Inv, TypeOK
    <2>6. /\ runs'[r].kind = runs[r].kind
          /\ runs'[r].pc = IF runs[r].todo = {s} THEN "forget" ELSE "delete"
          /\ runs'[r].todo = IF runs[r].todo = {s} THEN runs[r].made ELSE runs[r].todo \ {s}
          /\ runs'[r].made = runs[r].made
      BY <2>5, <2>1 DEF x, Inv, TypeOK, RunState
    <2>7. TypeOK'
      BY <1>3, <2>5, <2>1 DEF DeleteServer, Inv, TypeOK, RunInv, Status, RunState
    <2>8. Frame
      BY <1>3, <2>1 DEF DeleteServer, Inv, TypeOK, Frame
    <2>9. IsFiniteSet(live')
      BY <1>3, <2>1 DEF DeleteServer, Inv
    <2>10. ReadyHasKubeconfig'
      BY <1>3, <2>1 DEF DeleteServer, Inv, TypeOK, ReadyHasKubeconfig, RunInv,
           RunHasKubeconfig, PcFitsKind, RunState, Kind
    <2>11. \A t \in live' \cup gone' \cup cloud' : t.id < nextId'
      BY <1>3, <2>1 DEF DeleteServer, Inv, TypeOK, RunInv, RunIsOld, RunState, Server
    <2>12. RunInv(r)'
      <3>1. PcFitsKind(r)'
        BY <1>3, <2>1, <2>6, <2>2 DEF DeleteServer, RunInv, PcFitsKind
      <3>2. RunIsOld(r)'
        BY <1>3, <2>1, <2>6, <2>2 DEF DeleteServer, RunInv, RunIsOld, Inv, TypeOK,
             RunState, Server
      <3>3. RunHasKubeconfig(r)'
        BY <1>3, <2>1, <2>6, <2>2 DEF DeleteServer, RunInv, RunHasKubeconfig, PcFitsKind,
             Inv, ReadyHasKubeconfig
      <3>4. RunRecords(r)'
        BY <1>3, <2>1, <2>6, <2>2 DEF DeleteServer, RunInv, RunRecords, PcFitsKind
      <3>5. RunDeletes(r)'
        BY <1>3, <2>1, <2>6, <2>2 DEF DeleteServer, RunInv, RunDeletes, PcFitsKind
      <3> QED
        BY <1>3, <2>1, <2>6, <2>2, <3>1, <3>2, <3>3, <3>4, <3>5 DEF DeleteServer, RunInv
    <2> QED
      BY <2>5, <2>7, <2>8, <2>9, <2>10, <2>11, <2>12, StepOfOne
  <1>4. CASE DeleteFails(r)
    <2>1. runs' \in [Run -> RunState] /\ \A q \in Run \ {r} : runs'[q] = runs[q]
      BY <1>4, GotoTyped DEF DeleteFails, Pc, Ended
    <2>2. TypeOK'
      BY <1>4, <2>1 DEF DeleteFails, Inv, TypeOK, RunInv, Status, RunState
    <2>3. Frame
      BY <1>4 DEF DeleteFails, Inv, TypeOK, Frame
    <2>4. IsFiniteSet(live')
      BY <1>4 DEF DeleteFails, Inv
    <2>5. ReadyHasKubeconfig'
      BY <1>4 DEF DeleteFails, Inv, TypeOK, ReadyHasKubeconfig, RunInv, RunHasKubeconfig,
           PcFitsKind, RunState, Kind
    <2>6. \A t \in live' \cup gone' \cup cloud' : t.id < nextId'
      BY <1>4 DEF DeleteFails, Inv, TypeOK, RunInv, RunIsOld, RunState, Server
    <2>7. RunInv(r)'
      BY <1>4 DEF DeleteFails, Goto, Put, Inv, TypeOK, RunState, RunInv, PcFitsKind,
           RunIsOld, RunHasKubeconfig, RunRecords, RunDeletes, ReadyHasKubeconfig
    <2> QED
      BY <2>1, <2>2, <2>3, <2>4, <2>5, <2>6, <2>7, StepOfOne
  <1>5. CASE SoftDeleteServers(r)
    <2>1. runs' \in [Run -> RunState] /\ \A q \in Run \ {r} : runs'[q] = runs[q]
      BY <1>5, GotoTyped DEF SoftDeleteServers, Pc, Ended
    <2>2. TypeOK'
      BY <1>5, <2>1 DEF SoftDeleteServers, Inv, TypeOK, RunInv, Status, RunState
    <2>3. Frame
      BY <1>5 DEF SoftDeleteServers, Inv, TypeOK, Frame
    <2>4. IsFiniteSet(live')
      BY <1>5, FS_EmptySet DEF SoftDeleteServers, Inv
    <2>5. ReadyHasKubeconfig'
      BY <1>5 DEF SoftDeleteServers, Inv, TypeOK, ReadyHasKubeconfig, RunInv,
           RunHasKubeconfig, PcFitsKind, RunState, Kind
    <2>6. \A t \in live' \cup gone' \cup cloud' : t.id < nextId'
      BY <1>5 DEF SoftDeleteServers, Inv, TypeOK, RunInv, RunIsOld, RunState, Server
    <2>7. RunInv(r)'
      BY <1>5 DEF SoftDeleteServers, Goto, Put, Inv, TypeOK, RunState, RunInv, PcFitsKind,
           RunIsOld, RunHasKubeconfig, RunRecords, RunDeletes, ReadyHasKubeconfig
    <2> QED
      BY <2>1, <2>2, <2>3, <2>4, <2>5, <2>6, <2>7, StepOfOne
  <1>6. CASE ForgetRow(r)
    <2>1. PICK s \in runs[r].todo :
            /\ live' = live \ {s} /\ gone' = gone \cup (live \cap {s})
            /\ Put(r, [runs[r] EXCEPT !.todo = @ \ {s},
                   !.pc = IF runs[r].todo = {s} THEN "settle" ELSE "forget"])
      BY <1>6, Zenon DEF ForgetRow
    <2>2. runs[r] \in RunState /\ RunInv(r)
      BY DEF Inv, TypeOK
    <2> DEFINE x == [runs[r] EXCEPT !.todo = @ \ {s},
                                  !.pc = IF runs[r].todo = {s} THEN "settle" ELSE "forget"]
    <2>3. x \in RunState
      <3>1. {"forget", "settle"} \subseteq Pc
        BY DEF Pc
      <3>2. runs[r].todo \ {s} \in SUBSET Server
        BY DEF Inv, TypeOK, RunState
      <3> QED
        BY <3>1, <3>2, <2>2, Zenon DEF RunState
    <2> HIDE DEF x
    <2>4. Put(r, x)
      BY <2>1 DEF x, ForgetRow
    <2>5. runs' \in [Run -> RunState] /\ runs'[r] = x /\ \A q \in Run \ {r} : runs'[q] = runs[q]
      BY <2>3, <2>4, RunTyped DEF Inv, TypeOK
    <2>6. /\ runs'[r].kind = runs[r].kind
          /\ runs'[r].pc = IF runs[r].todo = {s} THEN "settle" ELSE "forget"
          /\ runs'[r].todo = runs[r].todo \ {s} /\ runs'[r].made = runs[r].made
      BY <2>5, <2>1 DEF x, Inv, TypeOK, RunState
    <2>7. TypeOK'
      BY <1>6, <2>5, <2>1 DEF ForgetRow, Inv, TypeOK, RunInv, Status, RunState
    <2>8. Frame
      BY <1>6, <2>1 DEF ForgetRow, Inv, TypeOK, Frame
    <2>9. IsFiniteSet(live')
      BY <1>6, <2>1, FS_Subset DEF ForgetRow, Inv
    <2>10. ReadyHasKubeconfig'
      BY <1>6, <2>1 DEF ForgetRow, Inv, TypeOK, ReadyHasKubeconfig, RunInv,
           RunHasKubeconfig, PcFitsKind, RunState, Kind
    <2>11. \A t \in live' \cup gone' \cup cloud' : t.id < nextId'
      BY <1>6, <2>1 DEF ForgetRow, Inv, TypeOK, RunInv, RunIsOld, RunState, Server
    <2>12. RunInv(r)'
      <3>1. PcFitsKind(r)'
        BY <1>6, <2>1, <2>6, <2>2 DEF ForgetRow, RunInv, PcFitsKind
      <3>2. RunIsOld(r)'
        BY <1>6, <2>1, <2>6, <2>2 DEF ForgetRow, RunInv, RunIsOld, Inv, TypeOK, RunState,
             Server
      <3>3. RunHasKubeconfig(r)'
        BY <1>6, <2>1, <2>6, <2>2 DEF ForgetRow, RunInv, RunHasKubeconfig, PcFitsKind, Inv,
             ReadyHasKubeconfig
      <3>4. RunRecords(r)'
        BY <1>6, <2>1, <2>6, <2>2 DEF ForgetRow, RunInv, RunRecords, PcFitsKind
      <3>5. RunDeletes(r)'
        BY <1>6, <2>1, <2>6, <2>2 DEF ForgetRow, RunInv, RunDeletes, PcFitsKind
      <3> QED
        BY <1>6, <2>1, <2>6, <2>2, <3>1, <3>2, <3>3, <3>4, <3>5 DEF ForgetRow, RunInv
    <2> QED
      BY <2>5, <2>7, <2>8, <2>9, <2>10, <2>11, <2>12, StepOfOne
  <1>7. CASE FinalizeLookup(r)
    <2>1. runs' \in [Run -> RunState] /\ \A q \in Run \ {r} : runs'[q] = runs[q]
      BY <1>7, GotoTyped DEF FinalizeLookup, Pc, Ended
    <2>2. RunInv(r)'
      BY <1>7 DEF FinalizeLookup, Goto, Put, Inv, TypeOK, RunState, RunInv, PcFitsKind,
           RunIsOld, RunHasKubeconfig, RunRecords, RunDeletes, ReadyHasKubeconfig
    <2>3. faults' \in 0..MaxFaults /\ UNCHANGED <<tables, hetzner, crashes>>
      BY <1>7 DEF FinalizeLookup, Inv, TypeOK
    <2> QED
      BY <2>1, <2>2, <2>3, RunOnlyStep
  <1>8. CASE SoftDelete(r)
    <2>1. runs' \in [Run -> RunState] /\ \A q \in Run \ {r} : runs'[q] = runs[q]
      BY <1>8, GotoTyped DEF SoftDelete, Pc, Ended
    <2>2. TypeOK'
      BY <1>8, <2>1 DEF SoftDelete, Inv, TypeOK, RunInv, Status, RunState
    <2>3. Frame
      BY <1>8 DEF SoftDelete, Inv, TypeOK, Frame
    <2>4. IsFiniteSet(live')
      BY <1>8 DEF SoftDelete, Inv
    <2>5. ReadyHasKubeconfig'
      BY <1>8 DEF SoftDelete, Inv, TypeOK, ReadyHasKubeconfig, RunInv, RunHasKubeconfig,
           PcFitsKind, RunState, Kind
    <2>6. \A t \in live' \cup gone' \cup cloud' : t.id < nextId'
      BY <1>8 DEF SoftDelete, Inv, TypeOK, RunInv, RunIsOld, RunState, Server
    <2>7. RunInv(r)'
      BY <1>8 DEF SoftDelete, Goto, Put, Inv, TypeOK, RunState, RunInv, PcFitsKind,
           RunIsOld, RunHasKubeconfig, RunRecords, RunDeletes, ReadyHasKubeconfig
    <2> QED
      BY <2>1, <2>2, <2>3, <2>4, <2>5, <2>6, <2>7, StepOfOne
  <1> QED
    BY <1>1, <1>2, <1>3, <1>4, <1>5, <1>6, <1>7, <1>8 DEF RemovingStep

EndingStep(r) ==
    \/ Settle(r) \/ CloseWorkflow(r) \/ MarkFailed(r) \/ StatementFails(r)
    \/ FailureIgnored(r) \/ ForgetIgnored(r)

\* The end of a run, good or bad, keeps the invariant.
LEMMA EndingKeepsInv ==
    ASSUME Inv, NEW r \in Run, EndingStep(r)
    PROVE  Inv'
  <1> USE ConstantsAssumption
  <1> USE DEF row, tables, hetzner, budget, UpdateStatus, IsScale
  <1>1. CASE Settle(r)
    <2>1. runs' \in [Run -> RunState] /\ \A q \in Run \ {r} : runs'[q] = runs[q]
      BY <1>1, GotoTyped DEF Settle, Pc, Ended
    <2>2. TypeOK'
      BY <1>1, <2>1 DEF Settle, Inv, TypeOK, RunInv, Status, RunState
    <2>3. Frame
      BY <1>1 DEF Settle, Inv, TypeOK, Frame
    <2>4. IsFiniteSet(live')
      BY <1>1 DEF Settle, Inv
    <2>5. ReadyHasKubeconfig'
      BY <1>1 DEF Settle, Inv, TypeOK, ReadyHasKubeconfig, RunInv, RunHasKubeconfig,
           PcFitsKind, RunState, Kind
    <2>6. \A t \in live' \cup gone' \cup cloud' : t.id < nextId'
      BY <1>1 DEF Settle, Inv, TypeOK, RunInv, RunIsOld, RunState, Server
    <2>7. RunInv(r)'
      BY <1>1 DEF Settle, Goto, Put, Inv, TypeOK, RunState, RunInv, PcFitsKind, RunIsOld,
           RunHasKubeconfig, RunRecords, RunDeletes, ReadyHasKubeconfig
    <2> QED
      BY <2>1, <2>2, <2>3, <2>4, <2>5, <2>6, <2>7, StepOfOne
  <1>2. CASE CloseWorkflow(r)
    <2>1. runs' \in [Run -> RunState] /\ \A q \in Run \ {r} : runs'[q] = runs[q]
      BY <1>2, GotoTyped DEF CloseWorkflow, Pc, Ended
    <2>2. TypeOK'
      BY <1>2, <2>1 DEF CloseWorkflow, Inv, TypeOK, RunInv, Status, RunState
    <2>3. Frame
      BY <1>2 DEF CloseWorkflow, Inv, TypeOK, Frame
    <2>4. IsFiniteSet(live')
      BY <1>2 DEF CloseWorkflow, Inv
    <2>5. ReadyHasKubeconfig'
      BY <1>2 DEF CloseWorkflow, Inv, TypeOK, ReadyHasKubeconfig, RunInv, RunHasKubeconfig,
           PcFitsKind, RunState, Kind
    <2>6. \A t \in live' \cup gone' \cup cloud' : t.id < nextId'
      BY <1>2 DEF CloseWorkflow, Inv, TypeOK, RunInv, RunIsOld, RunState, Server
    <2>7. RunInv(r)'
      BY <1>2 DEF CloseWorkflow, Goto, Put, Inv, TypeOK, RunState, RunInv, PcFitsKind,
           RunIsOld, RunHasKubeconfig, RunRecords, RunDeletes, ReadyHasKubeconfig
    <2> QED
      BY <2>1, <2>2, <2>3, <2>4, <2>5, <2>6, <2>7, StepOfOne
  <1>3. CASE MarkFailed(r)
    <2>1. runs' \in [Run -> RunState] /\ \A q \in Run \ {r} : runs'[q] = runs[q]
      BY <1>3, GotoTyped DEF MarkFailed, AfterFail, Pc, Ended
    <2>2. TypeOK'
      BY <1>3, <2>1 DEF MarkFailed, AfterFail, Inv, TypeOK, RunInv, Status, RunState
    <2>3. Frame
      BY <1>3 DEF MarkFailed, AfterFail, Inv, TypeOK, Frame
    <2>4. IsFiniteSet(live')
      BY <1>3 DEF MarkFailed, Inv
    <2>5. ReadyHasKubeconfig'
      BY <1>3 DEF MarkFailed, Inv, TypeOK, ReadyHasKubeconfig, RunInv, RunHasKubeconfig,
           PcFitsKind, RunState, Kind
    <2>6. \A t \in live' \cup gone' \cup cloud' : t.id < nextId'
      BY <1>3 DEF MarkFailed, AfterFail, Inv, TypeOK, RunInv, RunIsOld, RunState, Server
    <2>7. RunInv(r)'
      BY <1>3 DEF MarkFailed, AfterFail, Goto, Put, Inv, TypeOK, RunState, RunInv,
           PcFitsKind, RunIsOld, RunHasKubeconfig, RunRecords, RunDeletes,
           ReadyHasKubeconfig
    <2> QED
      BY <2>1, <2>2, <2>3, <2>4, <2>5, <2>6, <2>7, StepOfOne
  <1>4. CASE StatementFails(r)
    <2>1. runs' \in [Run -> RunState] /\ \A q \in Run \ {r} : runs'[q] = runs[q]
      BY <1>4, GotoTyped DEF StatementFails, Pc, Ended
    <2>2. RunInv(r)'
      BY <1>4 DEF StatementFails, Goto, Put, Inv, TypeOK, RunState, RunInv, PcFitsKind,
           RunIsOld, RunHasKubeconfig, RunRecords, RunDeletes, ReadyHasKubeconfig
    <2>3. faults' \in 0..MaxFaults /\ UNCHANGED <<tables, hetzner, crashes>>
      BY <1>4 DEF StatementFails, Inv, TypeOK
    <2> QED
      BY <2>1, <2>2, <2>3, RunOnlyStep
  <1>5. CASE FailureIgnored(r)
    <2>1. runs' \in [Run -> RunState] /\ \A q \in Run \ {r} : runs'[q] = runs[q]
      BY <1>5, GotoTyped DEF FailureIgnored, AfterFail, Pc, Ended
    <2>2. RunInv(r)'
      BY <1>5 DEF FailureIgnored, AfterFail, Goto, Put, Inv, TypeOK, RunState, RunInv,
           PcFitsKind, RunIsOld, RunHasKubeconfig, RunRecords, RunDeletes,
           ReadyHasKubeconfig
    <2>3. faults' \in 0..MaxFaults /\ UNCHANGED <<tables, hetzner, crashes>>
      BY <1>5 DEF FailureIgnored, Inv, TypeOK
    <2> QED
      BY <2>1, <2>2, <2>3, RunOnlyStep
  <1>6. CASE ForgetIgnored(r)
    <2>1. PICK s \in runs[r].todo :
            Put(r, [runs[r] EXCEPT !.todo = @ \ {s},
                   !.pc = IF runs[r].todo = {s} THEN "settle" ELSE "forget"])
      BY <1>6, Zenon DEF ForgetIgnored
    <2>2. runs[r] \in RunState /\ RunInv(r)
      BY DEF Inv, TypeOK
    <2> DEFINE x == [runs[r] EXCEPT !.todo = @ \ {s},
                                  !.pc = IF runs[r].todo = {s} THEN "settle" ELSE "forget"]
    <2>3. x \in RunState
      <3>1. {"forget", "settle"} \subseteq Pc
        BY DEF Pc
      <3>2. runs[r].todo \ {s} \in SUBSET Server
        BY DEF Inv, TypeOK, RunState
      <3> QED
        BY <3>1, <3>2, <2>2, Zenon DEF RunState
    <2> HIDE DEF x
    <2>4. Put(r, x)
      BY <2>1 DEF x, ForgetIgnored
    <2>5. runs' \in [Run -> RunState] /\ runs'[r] = x /\ \A q \in Run \ {r} : runs'[q] = runs[q]
      BY <2>3, <2>4, RunTyped DEF Inv, TypeOK
    <2>6. /\ runs'[r].kind = runs[r].kind
          /\ runs'[r].pc = IF runs[r].todo = {s} THEN "settle" ELSE "forget"
          /\ runs'[r].todo = runs[r].todo \ {s} /\ runs'[r].made = runs[r].made
      BY <2>5, <2>1 DEF x, Inv, TypeOK, RunState
    <2>7. RunInv(r)'
      <3>1. PcFitsKind(r)'
        BY <1>6, <2>1, <2>6, <2>2 DEF ForgetIgnored, RunInv, PcFitsKind
      <3>2. RunIsOld(r)'
        BY <1>6, <2>1, <2>6, <2>2 DEF ForgetIgnored, RunInv, RunIsOld, Inv, TypeOK,
             RunState, Server
      <3>3. RunHasKubeconfig(r)'
        BY <1>6, <2>1, <2>6, <2>2 DEF ForgetIgnored, RunInv, RunHasKubeconfig, PcFitsKind,
             Inv, ReadyHasKubeconfig
      <3>4. RunRecords(r)'
        BY <1>6, <2>1, <2>6, <2>2 DEF ForgetIgnored, RunInv, RunRecords, PcFitsKind
      <3>5. RunDeletes(r)'
        BY <1>6, <2>1, <2>6, <2>2 DEF ForgetIgnored, RunInv, RunDeletes, PcFitsKind
      <3> QED
        BY <1>6, <2>1, <2>6, <2>2, <3>1, <3>2, <3>3, <3>4, <3>5 DEF ForgetIgnored, RunInv
    <2>8. faults' \in 0..MaxFaults /\ UNCHANGED <<tables, hetzner, crashes>>
      BY <1>6 DEF ForgetIgnored, Inv, TypeOK
    <2> QED
      BY <2>5, <2>7, <2>8, RunOnlyStep
  <1> QED
    BY <1>1, <1>2, <1>3, <1>4, <1>5, <1>6 DEF EndingStep

\* A step of one run, of its handler or of its task, keeps the invariant.
LEMMA RunStepKeepsInv ==
    ASSUME Inv, NEW r \in Run, Request(r) \/ Step(r) \/ Fault(r)
    PROVE  Inv'
  BY HandlerKeepsInv, TaskStartKeepsInv, MakingKeepsInv, RemovingKeepsInv, EndingKeepsInv
     DEF Request, Step, Fault, HandlerStep, TaskStartStep, MakingStep, RemovingStep, EndingStep

\* A crash ends the runs under way and touches nothing else.
LEMMA CrashKeepsInv ==
    ASSUME Inv, Crash
    PROVE  Inv'
  <1> USE DEF row, tables, hetzner, budget, IsScale
  <1>1. runs' \in [Run -> RunState]
    <2>1. \A r \in Run : [runs[r] EXCEPT !.pc = "lost"] \in RunState
      BY DEF Inv, TypeOK, RunState, Pc, Ended
    <2> QED
      BY <2>1 DEF Crash, Inv, TypeOK
  <1>2. TypeOK'
    BY <1>1, ConstantsAssumption DEF Crash, Inv, TypeOK
  <1>3. ASSUME NEW r \in Run PROVE RunInv(r)'
    <2>1. CASE ~Active(r)
      <3>1. runs'[r] = runs[r] /\ Frame
        BY <2>1 DEF Crash, Frame, Inv, TypeOK
      <3> QED
        BY <3>1, RunKept
    <2>2. CASE Active(r)
      <3>1. /\ runs'[r].pc = "lost" /\ runs'[r].kind = runs[r].kind
            /\ runs'[r].made = runs[r].made /\ runs'[r].todo = runs[r].todo
        BY <2>2 DEF Crash, Inv, TypeOK, RunState
      <3> QED
        BY <2>2, <3>1 DEF Crash, Active, Inv, RunInv, PcFitsKind, RunIsOld,
             RunHasKubeconfig, RunRecords, RunDeletes
    <2> QED
      BY <2>1, <2>2
  <1> QED
    BY <1>2, <1>3 DEF Crash, Inv, ReadyHasKubeconfig

\* The invariant holds when nothing has been created yet.
LEMMA InitInv == Init => Inv
  <1> SUFFICES ASSUME Init PROVE Inv
    OBVIOUS
  <1>1. NoRun \in RunState
    BY DEF NoRun, RunState, Kind, Pc
  <1>2. TypeOK
    <2>1. runs \in [Run -> RunState]
      BY <1>1 DEF Init
    <2>2. /\ nextId \in 1..(MaxServers + 1) /\ workerCount \in 0..MaxWorkers
          /\ faults \in 0..MaxFaults /\ crashes \in 0..MaxCrashes
      BY ConstantsAssumption DEF Init
    <2>3. status \in Status /\ deleted \in BOOLEAN /\ kubeconfig \in BOOLEAN
      BY Zenon DEF Init, Status
    <2>4. /\ workflow \in {"none", "queued", "done", "failed"}
          /\ live \in SUBSET Server /\ gone \in SUBSET Server /\ cloud \in SUBSET Server
      BY DEF Init
    <2> QED
      BY <2>1, <2>2, <2>3, <2>4 DEF TypeOK
  <1>3. \A r \in Run : RunInv(r)
    BY DEF Init, NoRun, RunInv, PcFitsKind, RunIsOld, RunHasKubeconfig,
         RunRecords, RunDeletes, IsScale
  <1> QED
    BY <1>2, <1>3, FS_EmptySet DEF Init, Inv, ReadyHasKubeconfig

\* The invariant holds in every reachable state of the runner, the handlers and
\* the tables they write.
THEOREM InvHolds == Spec => []Inv
  <1>1. Inv /\ [Next]_vars => Inv'
    <2> SUFFICES ASSUME Inv, [Next]_vars PROVE Inv'
      OBVIOUS
    <2>1. CASE UNCHANGED vars
      BY <2>1, SMTT(30) DEF vars, tables, row, hetzner, budget, Inv, TypeOK, ReadyHasKubeconfig,
           RunInv, PcFitsKind, RunIsOld, RunHasKubeconfig, RunRecords, RunDeletes, IsScale
    <2>2. CASE Next
      BY <2>2, RunStepKeepsInv, CrashKeepsInv DEF Next
    <2> QED
      BY <2>1, <2>2
  <1> QED
    BY <1>1, InitInv, PTL DEF Spec

\* The row, the server rows, Hetzner and every run keep their types.
THEOREM TypeCorrect == Spec => []TypeOK
  <1>1. Inv => TypeOK
    BY DEF Inv
  <1> QED
    BY <1>1, InvHolds, PTL

\* The row shows `ready` only when a kubeconfig is stored, under any
\* interleaving, fault or crash of the runs that write it.
THEOREM ReadyMeansKubeconfig == Spec => []ReadyHasKubeconfig
  <1>1. Inv => ReadyHasKubeconfig
    BY DEF Inv
  <1> QED
    BY <1>1, InvHolds, PTL

\* A provision or scale-out run that publishes Ready has recorded every server
\* it created.
THEOREM ReadyMeansRecorded == Spec => []ReportedReadyIsRecorded
  <1>1. Inv => ReportedReadyIsRecorded
    BY DEF Inv, RunInv, RunRecords, ReportedReadyIsRecorded
  <1> QED
    BY <1>1, InvHolds, PTL

\* A destroy or scale-in run that publishes success has deleted every server it
\* set out to delete.
THEOREM GoneMeansDeleted == Spec => []ReportedGoneIsDeleted
  <1>1. Inv => ReportedGoneIsDeleted
    BY DEF Inv, RunInv, RunDeletes, ReportedGoneIsDeleted
  <1> QED
    BY <1>1, InvHolds, PTL

-----------------------------------------------------------------------------
(* Fleets of servers, as provision, scale-out and scale-in build them.       *)

\* Workers with a higher Hetzner id.
Above(s, W) == {w \in W : w.id > s.id}

\* scale_in: of servers with different ids, as many are the n youngest as there
\* are, or n: how many are above one of them numbers the servers from 0 on.
LEMMA YoungestCount ==
  ASSUME NEW W \in SUBSET Server, IsFiniteSet(W), \A s, t \in W : s.id = t.id => s = t,
         NEW c \in Nat, c <= Cardinality(W)
  PROVE  LET V == {s \in W : Cardinality(Above(s, W)) < c} IN
         IsFiniteSet(V) /\ Cardinality(V) = c
  <1> DEFINE n == Cardinality(W)
             Rank(s) == Cardinality(Above(s, W))
  <1>1. n \in Nat /\ \A s \in W : s.id \in Nat
    BY FS_CardinalityType DEF Server
  <1>2. ASSUME NEW s \in W PROVE IsFiniteSet(Above(s, W)) /\ Rank(s) \in Nat
    <2>1. Above(s, W) \in SUBSET W
      BY DEF Above
    <2>2. IsFiniteSet(Above(s, W))
      BY <2>1, FS_Subset
    <2> QED BY <2>2, FS_CardinalityType
  <1>3. ASSUME NEW x, NEW S, IsFiniteSet(S), NEW T \in SUBSET S, x \in S, x \notin T
        PROVE  Cardinality(T) < Cardinality(S)
    <2>1. IsFiniteSet(T) /\ Cardinality(T) <= Cardinality(S) /\ Cardinality(S) # Cardinality(T)
      BY <1>3, FS_Subset
    <2>2. Cardinality(T) \in Nat /\ Cardinality(S) \in Nat
      BY <1>3, <2>1, FS_CardinalityType
    <2> QED BY <2>1, <2>2
  <1>4. ASSUME NEW s \in W PROVE Rank(s) < n
    <2>1. Above(s, W) \in SUBSET W /\ s \notin Above(s, W)
      BY <1>1 DEF Above
    <2> QED BY <1>3, <2>1
  <1>5. ASSUME NEW s \in W, NEW t \in W, s.id < t.id PROVE Rank(t) < Rank(s)
    <2>1. Above(t, W) \in SUBSET Above(s, W) /\ t \in Above(s, W) /\ t \notin Above(t, W)
      BY <1>1, <1>5 DEF Above
    <2> QED BY <1>2, <1>3, <2>1
  <1> HIDE DEF n, Rank
  <1>6. ASSUME NEW s \in W PROVE Rank(s) \in 0..(n - 1)
    BY <1>1, <1>2, <1>4
  <1>7. ASSUME NEW s \in W, NEW t \in W, s # t PROVE Rank(s) # Rank(t)
    <2>1. s.id < t.id \/ t.id < s.id
      BY <1>1, <1>7
    <2>2. Rank(s) \in Nat /\ Rank(t) \in Nat
      BY <1>2
    <2>3. Rank(t) < Rank(s) \/ Rank(s) < Rank(t)
      BY <1>5, <2>1
    <2> QED BY <2>2, <2>3
  <1>8. ASSUME NEW k \in Nat PROVE IsFiniteSet(0..(k - 1)) /\ Cardinality(0..(k - 1)) = k
    <2>1. 0 \in Int /\ k - 1 \in Int
      OBVIOUS
    <2>2. IsFiniteSet(0..(k - 1)) /\ Cardinality(0..(k - 1)) = IF 0 > k - 1 THEN 0 ELSE (k - 1) - 0 + 1
      BY <2>1, FS_Interval
    <2> QED BY <2>2
  <1> DEFINE R == [s \in W |-> Rank(s)]
  <1>9. R \in Injection(W, 0..(n - 1))
    BY <1>6, <1>7 DEF Injection, IsInjective
  <1>10. R \in Surjection(W, 0..(n - 1))
    BY <1>1, <1>8, <1>9, FS_Injection DEF n
  <1>11. \A k \in 0..(n - 1) : \E s \in W : Rank(s) = k
    BY <1>10, Zenon DEF Surjection
  <1> DEFINE V == {s \in W : Rank(s) < c}
             B == [s \in V |-> Rank(s)]
  <1>12. IsFiniteSet(V)
    BY FS_Subset
  <1>13. B \in Bijection(V, 0..(c - 1))
    <2>1. \A s \in V : Rank(s) \in 0..(c - 1)
      BY <1>6
    <2>2. B \in Injection(V, 0..(c - 1))
      BY <2>1, <1>7 DEF Injection, IsInjective
    <2>3. \A k \in 0..(c - 1) : \E s \in V : B[s] = k
      <3> TAKE k \in 0..(c - 1)
      <3>1. k \in 0..(n - 1) /\ k < c
        BY <1>1 DEF n
      <3>2. PICK s \in W : Rank(s) = k
        BY <1>11, <3>1
      <3> QED BY <3>1, <3>2
    <2> QED BY <2>2, <2>3 DEF Bijection, Surjection, Injection
  <1>14. Cardinality(0..(c - 1)) = Cardinality(V)
    BY <1>12, <1>13, FS_Bijection DEF ExistsBijection
  <1> QED BY <1>8, <1>12, <1>14 DEF Rank

\* provision_cluster and scale_out: a worker that is younger than all servers and has
\* the number of workers as its index makes one more; a control plane is one more head.
LEMMA FleetGrows ==
  ASSUME NEW S \in SUBSET Server, NEW n \in Nat, NEW heads \in Nat, Fleet(S, n, heads),
         NEW e \in Server, \A s \in S : s.id < e.id
  PROVE  /\ e.role = "worker" /\ e.index = n => Fleet(S \cup {e}, n + 1, heads)
         /\ e.role # "worker" => Fleet(S \cup {e}, n, heads + 1)
  <1> DEFINE T == S \cup {e}
  <1>1. e.id \in Nat /\ \A s \in S : s.id \in Nat
    BY DEF Server
  <1>2. e \notin S
    BY <1>1
  <1>3. /\ IsFiniteSet(S) /\ Cardinality(S) = n + heads /\ Cardinality(Workers(S)) = n
        /\ \A s, t \in S : s.id = t.id => s = t
        /\ \A s \in Workers(S) : s.index = Position(s, S)
    BY DEF Fleet
  <1>4. IsFiniteSet(T) /\ Cardinality(T) = n + heads + 1
    BY <1>2, <1>3, FS_AddElement
  <1>5. \A s, t \in T : s.id = t.id => s = t
    BY <1>1, <1>3
  <1>6. IsFiniteSet(Workers(S))
    BY <1>3, FS_Subset DEF Workers
  <1>7. ASSUME NEW s \in Workers(S) PROVE s.index = Position(s, T)
    <2>1. {w \in Workers(T) : w.id < s.id} = {w \in Workers(S) : w.id < s.id}
      BY <1>1 DEF Workers
    <2> QED BY <1>3, <2>1, Zenon DEF Position
  <1>8. CASE e.role = "worker" /\ e.index = n
    <2>1. Workers(T) = Workers(S) \cup {e} /\ e \notin Workers(S)
      BY <1>2, <1>8 DEF Workers
    <2>2. Cardinality(Workers(T)) = n + 1
      <3>1. Cardinality(Workers(S) \cup {e}) = Cardinality(Workers(S)) + 1
        BY <1>6, <2>1, FS_AddElement, Zenon
      <3> QED BY <1>3, <2>1, <3>1, Zenon
    <2>3. {w \in Workers(T) : w.id < e.id} = Workers(S)
      BY <1>1, <2>1 DEF Workers
    <2>4. e.index = Position(e, T)
      BY <1>3, <1>8, <2>3, Zenon DEF Position
    <2>5. \A s \in Workers(T) : s.index = Position(s, T)
      BY <1>7, <2>1, <2>4, Zenon
    <2>6. Cardinality(T) = n + 1 + heads
      BY <1>4
    <2> QED BY <1>4, <1>5, <1>8, <2>2, <2>5, <2>6 DEF Fleet
  <1>9. CASE e.role # "worker"
    <2>1. Workers(T) = Workers(S)
      BY <1>9 DEF Workers
    <2>2. Cardinality(T) = n + (heads + 1)
      BY <1>4
    <2>3. \A s \in Workers(T) : s.index = Position(s, T)
      BY <1>7, <2>1
    <2> QED BY <1>3, <1>4, <1>5, <1>9, <2>1, <2>2, <2>3, Zenon DEF Fleet
  <1> QED BY <1>8, <1>9

\* scale_in: taking the c youngest workers away leaves c fewer, and those that stay
\* keep their place in id order.
LEMMA FleetShrinks ==
  ASSUME NEW S \in SUBSET Server, NEW n \in Nat, NEW c \in Nat, Fleet(S, n + c, 1)
  PROVE  Fleet(S \ Youngest(c, S), n, 1)
  <1> DEFINE W == Workers(S)
             V == Youngest(c, S)
             T == S \ V
  <1>1. \A s \in S : s.id \in Nat
    BY DEF Server
  <1>2. /\ IsFiniteSet(S) /\ Cardinality(S) = n + c + 1 /\ Cardinality(W) = n + c
        /\ \A s, t \in S : s.id = t.id => s = t
        /\ \A s \in W : s.index = Position(s, S)
    BY DEF Fleet
  <1>3. W \in SUBSET S
    BY DEF Workers
  <1>4. IsFiniteSet(W)
    BY <1>2, <1>3, FS_Subset
  <1>5. V = {s \in W : Cardinality(Above(s, W)) < c}
    BY DEF Youngest, Above
  <1>6. IsFiniteSet(V) /\ Cardinality(V) = c
    <2>1. W \in SUBSET Server /\ c <= Cardinality(W) /\ \A s, t \in W : s.id = t.id => s = t
      BY <1>2, <1>3
    <2> QED BY <1>4, <1>5, <2>1, YoungestCount
  <1>7. V \in SUBSET W
    BY <1>5
  <1>8. IsFiniteSet(T) /\ Cardinality(T) = n + 1
    <2>1. S \cap V = V
      BY <1>3, <1>7
    <2>2. IsFiniteSet(T) /\ Cardinality(T) = Cardinality(S) - Cardinality(S \cap V)
      BY <1>2, FS_Difference, Zenon
    <2>3. Cardinality(T) = (n + c + 1) - c
      BY <1>2, <1>6, <2>1, <2>2, Zenon
    <2> QED BY <2>2, <2>3
  <1>9. Workers(T) = W \ V
    BY DEF Workers
  <1>10. Cardinality(Workers(T)) = n
    <2>1. W \cap V = V
      BY <1>7
    <2>2. Cardinality(W \ V) = Cardinality(W) - Cardinality(W \cap V)
      BY <1>4, FS_Difference, Zenon
    <2>3. Cardinality(Workers(T)) = (n + c) - c
      BY <1>2, <1>6, <1>9, <2>1, <2>2, Zenon
    <2> QED BY <2>3
  <1>11. ASSUME NEW s \in W \ V, NEW w \in V PROVE ~(w.id < s.id)
    <2> SUFFICES ASSUME w.id < s.id PROVE FALSE
      OBVIOUS
    <2>1. w \in W /\ s \in W /\ Cardinality(Above(w, W)) < c /\ ~(Cardinality(Above(s, W)) < c)
      BY <1>5
    <2>2. Above(s, W) \in SUBSET Above(w, W) /\ Above(w, W) \in SUBSET W
      BY <1>1, <1>3, <2>1 DEF Above
    <2>3. IsFiniteSet(Above(w, W))
      BY <1>4, <2>2, FS_Subset
    <2>4. Cardinality(Above(s, W)) <= Cardinality(Above(w, W)) /\ IsFiniteSet(Above(s, W))
      BY <2>2, <2>3, FS_Subset
    <2>5. Cardinality(Above(s, W)) \in Nat /\ Cardinality(Above(w, W)) \in Nat
      BY <2>3, <2>4, FS_CardinalityType
    <2> QED BY <2>1, <2>4, <2>5
  <1>12. ASSUME NEW s \in Workers(T) PROVE s.index = Position(s, T)
    <2>1. s \in W \ V
      BY <1>9
    <2>2. {w \in Workers(T) : w.id < s.id} = {w \in W : w.id < s.id}
      BY <1>9, <1>11, <2>1, Zenon
    <2> QED BY <1>2, <2>1, <2>2, Zenon DEF Position
  <1> QED BY <1>2, <1>8, <1>10, <1>12 DEF Fleet
=============================================================================
