--------------------------- MODULE ProviderProofs ---------------------------
(***************************************************************************)
(* The manager with both controllers, proved for every set of VMs and      *)
(* every selection of adverse events: the VDCluster's side keeps its types *)
(* and no VM is cloned before that side has announced the cluster.         *)
(***************************************************************************)
EXTENDS Provider, VDMachineVMProofs

\* The steps of the whole, as the VDMachine's side and as the VDCluster's side
\* see them.
LEMMA WholeSteps ==
  ASSUME [WholeNext]_allVars
  PROVE  \/ [Next]_vars /\ UNCHANGED clusterVars
         \/ Next /\ (C!Pause \/ C!Unpause \/ C!Crash)
         \/ UNCHANGED machineVars /\ C!Next
  BY DEF WholeNext, MachineStep, ClusterStep, Provisioned, Together, Next, Environment, allVars,
         C!Next

\* The VDCluster's side counts one adverse event or none, of the same kinds.
LEMMA ClusterEvents ==
  ASSUME C!Next
  PROVE  C!NoUpset \/ \E k \in Upsets : C!Upset(k)
  BY DEF C!Next, C!Reconcile, C!Begin, C!Patch, C!Deliver, C!TimerFires, C!SetOwnerRef, C!Pause,
         C!Unpause, C!Delete, C!OtherReleases, C!Crash, C!Upset, C!NoUpset, C!histVars

\* The VDMachine's side keeps its types next to the VDCluster's.
LEMMA WholeTypeStep ==
  ASSUME TypeOK, [WholeNext]_allVars
  PROVE  TypeOK'
  <1>1. CASE [Next]_vars
    BY <1>1, TypeStep
  <1>2. CASE UNCHANGED machineVars /\ C!Next
    <2>1. upsets' \subseteq UpsetKinds /\ nUpsets' \in Nat
      BY <1>2, ClusterEvents, ConstantsAssumption
      DEF C!NoUpset, C!Upset, C!histVars, TypeOK
    <2> QED
      BY <1>2, <2>1 DEF TypeOK, machineVars, storeVars, queueVars, workerVars, vmVars
  <1> QED
    BY <1>1, <1>2, WholeSteps

-----------------------------------------------------------------------------
(* The types of the VDCluster's side.                                        *)

\* What is stored and delivered is a VDCluster.
LEMMA ClusterStoreType ==
  ASSUME cPending \in Seq(C!Object), cCache \in C!Object, NEW o \in C!Object, C!Store(o)
  PROVE  cApi' \in C!Object /\ cPending' \in Seq(C!Object) /\ cCache' \in C!Object
  <1>1. [o EXCEPT !.exists = FALSE] \in C!Object
    BY DEF C!Object
  <1> QED
    BY <1>1 DEF C!Store

LEMMA ClusterStoredType ==
  ASSUME C!TypeOK, C!Next
  PROVE  cApi' \in C!Object /\ cPending' \in Seq(C!Object) /\ cCache' \in C!Object
  <1>1. /\ cApi \in C!Object /\ cObj \in C!Object /\ cBefore \in C!Object
        /\ cPending \in Seq(C!Object) /\ cCache \in C!Object
    BY DEF C!TypeOK
  <1>2. /\ C!Merged \in C!Object
        /\ [cApi EXCEPT !.owner = TRUE] \in C!Object
        /\ [cApi EXCEPT !.del = TRUE] \in C!Object
        /\ [cApi EXCEPT !.fin = @ \ {"other"}] \in C!Object
    BY <1>1 DEF C!Object, C!Merged
  <1>3. CASE UNCHANGED <<cApi, cPending, cCache>>
    BY <1>1, <1>3
  <1>4. CASE \E o \in C!Object : C!Store(o)
    BY <1>1, <1>4, ClusterStoreType
  <1>5. CASE C!Deliver
    BY <1>1, <1>5, HeadTailProperties DEF C!Deliver
  <1>6. CASE C!Crash
    <2>1. <<>> \in Seq(C!Object)
      OBVIOUS
    <2> QED
      BY <1>1, <1>6, <2>1 DEF C!Crash
  <1> QED
    BY <1>2, <1>3, <1>4, <1>5, <1>6
    DEF C!Next, C!Reconcile, C!Begin, C!Patch, C!TimerFires, C!SetOwnerRef, C!Pause, C!Unpause,
        C!Delete, C!OtherReleases, C!storeVars

LEMMA ClusterVisitType ==
  ASSUME C!TypeOK, C!Next
  PROVE  /\ cPc' \in {"idle", "patch"} /\ cObj' \in C!Object /\ cBefore' \in C!Object
         /\ cQueued' \in BOOLEAN /\ cTimer' \in BOOLEAN
  <1>1. C!Blank \in C!Object /\ cCache \in C!Object /\ cObj \in C!Object /\ cBefore \in C!Object
    BY DEF C!TypeOK, C!Blank, C!Object
  <1>2. C!Reconciled(cCache) \in C!Object
    BY <1>1 DEF C!Reconciled, C!Object
  <1>3. cQueued' \in BOOLEAN /\ cTimer' \in BOOLEAN
    BY DEF C!TypeOK, C!Next, C!Reconcile, C!Begin, C!Patch, C!Deliver, C!TimerFires, C!SetOwnerRef,
        C!Pause, C!Unpause, C!Delete, C!OtherReleases, C!Crash, C!Woken, C!Retry
  <1>4. CASE UNCHANGED <<cPc, cObj, cBefore>>
    BY <1>1, <1>3, <1>4 DEF C!TypeOK
  <1>5. CASE C!Idle
    BY <1>1, <1>3, <1>5 DEF C!Idle
  <1>6. CASE C!Begin
    BY <1>1, <1>2, <1>3, <1>4, <1>6 DEF C!Begin, C!visitVars
  <1> QED
    BY <1>3, <1>4, <1>5, <1>6
    DEF C!Next, C!Reconcile, C!Patch, C!Deliver, C!TimerFires, C!SetOwnerRef, C!Pause, C!Unpause,
        C!Delete, C!OtherReleases, C!Crash, C!visitVars

LEMMA WholeTypes == WholeSpec => [](TypeOK /\ C!TypeOK)
  <1>1. WholeInit => TypeOK /\ C!TypeOK
    <2> SUFFICES ASSUME WholeInit
                 PROVE  TypeOK /\ C!TypeOK
      OBVIOUS
    <2>1. TypeOK /\ upsets = {} /\ nUpsets = 0
      BY InitType DEF WholeInit, Init
    <2>2. /\ C!Blank \in C!Object
          /\ \A f \in {{}, {"other"}} : [C!Blank EXCEPT !.exists = TRUE, !.fin = f] \in C!Object
      BY DEF C!Blank, C!Object, C!Finalizers
    <2>3. cApi \in C!Object
      BY <2>2 DEF WholeInit, C!Init
    <2>4. cPending \in Seq(C!Object)
      BY <2>3 DEF WholeInit, C!Init
    <2>5. C!Init /\ 0 \in 0 .. MaxUpsets
      BY ConstantsAssumption DEF WholeInit
    <2>6. C!TypeOK
      BY <2>1, <2>2, <2>3, <2>4, <2>5 DEF C!Init, C!TypeOK
    <2> QED
      BY <2>1, <2>6
  <1>2. ASSUME TypeOK, C!TypeOK, [WholeNext]_allVars
        PROVE  C!TypeOK'
    <2>1. capi.paused' \in BOOLEAN
      BY <1>2, WholeTypeStep DEF TypeOK
    <2>2. upsets' \subseteq Upsets /\ nUpsets' \in 0 .. MaxUpsets
      <3>1. UNCHANGED <<upsets, nUpsets>> \/ \E k \in Upsets : Upset(k)
        <4>1. CASE [Next]_vars
          BY <4>1, CountedEvents DEF NoUpset, histVars, Upset
        <4>2. CASE C!Next
          BY <4>2, ClusterEvents DEF C!NoUpset, C!histVars, C!Upset, Upset
        <4> QED
          BY <1>2, <4>1, <4>2, WholeSteps
      <3> QED
        BY <1>2, <3>1, ConstantsAssumption DEF Upset, C!TypeOK
    <2>3. CASE C!Next
      BY <1>2, <2>1, <2>2, <2>3, ClusterStoredType, ClusterVisitType DEF C!TypeOK
    <2>4. CASE UNCHANGED clusterVars
      BY <1>2, <2>1, <2>2, <2>4 DEF C!TypeOK, clusterVars
    <2> QED
      BY <1>2, <2>3, <2>4, WholeSteps DEF C!Next
  <1>3. TypeOK /\ [WholeNext]_allVars => TypeOK'
    BY WholeTypeStep
  <1> QED
    BY <1>1, <1>2, <1>3, PTL DEF WholeSpec

\* Type correctness of the VDCluster's side, next to the VDMachine's, with which
\* it shares the process, the Cluster's pause and the count of adverse events.
THEOREM ClusterTypes == WholeSpec => []ClusterTypeOK
  BY WholeTypes, PTL DEF ClusterTypeOK

-----------------------------------------------------------------------------
(* No VM before the cluster.                                                 *)

\* What the clone rests on: the visit that makes it has read a gate that was
\* open, the Cluster was provisioned by then, and the VDCluster announced before
\* that.  The announcement holds because no private copy of the VDCluster takes
\* it back.
Announced ==
    /\ capi.infra => cApi.ready
    /\ gate => capi.infra
    /\ pc = "createVM" => gate
    /\ (\E v \in VMs : power[v] # "none") => capi.infra
    /\ cBefore.ready => cObj.ready

\* A visit goes on to clone only when the gate it has read is open.
LEMMA GateStep ==
  ASSUME TypeOK, [Next]_vars
  PROVE  /\ capi.infra => capi'.infra
         /\ gate' => gate \/ capi.infra
         /\ pc' = "createVM" => gate' \/ (pc = "createVM" /\ gate' = gate)
  <1>1. capi \in [infra : BOOLEAN, secret : BOOLEAN, paused : BOOLEAN]
    BY DEF TypeOK
  <1>2. CASE VMStep
    <2> USE DEF Goto, Return, LoseReply, CallFails, VMCallFails, Following
    <2>1. UNCHANGED capi
      BY <1>2, VMStepStore
    <2>2. CASE Dispatch
      BY <2>1, <2>2 DEF Dispatch, DispatchDelete, DispatchNormal
    <2>3. CASE GetPowerState \/ CreateVM \/ Hardware \/ Adapters \/ NetworkAddresses
      BY <2>1, <2>3 DEF GetPowerState, CreateVM, Hardware, Adapters, NetworkAddresses
    <2>4. CASE SharedFolders \/ Vnc \/ Bootstrap \/ PowerOn
      BY <2>1, <2>4 DEF SharedFolders, Vnc, Bootstrap, PowerOn
    <2>5. CASE Addresses \/ PowerOff \/ ConfirmOff \/ DeleteVM
      BY <2>1, <2>5 DEF Addresses, PowerOff, ConfirmOff, DeleteVM
    <2> QED
      BY <1>2, <2>2, <2>3, <2>4, <2>5 DEF VMStep
  <1>3. CASE PatchState \/ PatchSpec
    BY <1>3 DEF PatchState, PatchSpec, Goto, Return, LoseReply
  <1>4. CASE PatchStatus \/ Crash
    BY <1>4 DEF PatchStatus, Crash, Finish, Idle
  <1>5. CASE Begin
    <2>1. capi' = capi /\ pc' # "createVM"
      BY <1>5 DEF Begin, workerVars
    <2>2. gate' = gate \/ gate' \in {GateOpen, FALSE}
      BY <1>5 DEF Begin, workerVars
    <2>3. gate' => gate \/ capi.infra
      BY <2>2 DEF GateOpen
    <2>4. capi.infra => capi'.infra
      BY <2>1
    <2> QED
      BY <2>1, <2>3, <2>4
  <1>6. CASE Deliver \/ SetOwnerRef \/ Delete
    BY <1>6 DEF Deliver, SetOwnerRef, Delete, workerVars
  <1>7. CASE Outside
    BY <1>1, <1>7 DEF Outside, TimerFires, MachineEvent, ClusterProvisioned, BootstrapDataReady,
       Pause, Unpause, VMGone, GuestOff, Stops, GuestUp, vars, workerVars
  <1> QED
    BY <1>2, <1>3, <1>4, <1>5, <1>6, <1>7, StepKinds

\* The announcement is never taken back.
LEMMA ReadyStep ==
  ASSUME C!TypeOK, cBefore.ready => cObj.ready, C!Next
  PROVE  /\ cApi.ready => cApi'.ready
         /\ cBefore'.ready => cObj'.ready
  <1>1. cApi \in C!Object /\ cObj \in C!Object /\ cBefore \in C!Object /\ cCache \in C!Object
    BY DEF C!TypeOK
  <1>2. ASSUME NEW o \in C!Object, C!Store(o), cApi.ready => o.ready
        PROVE  cApi.ready => cApi'.ready
    <2>1. [o EXCEPT !.exists = FALSE].ready = o.ready
      BY DEF C!Object
    <2> QED
      BY <1>2, <2>1 DEF C!Store
  <1>3. /\ C!Merged \in C!Object /\ (cApi.ready => C!Merged.ready)
        /\ [cApi EXCEPT !.owner = TRUE] \in C!Object
        /\ [cApi EXCEPT !.owner = TRUE].ready = cApi.ready
        /\ [cApi EXCEPT !.del = TRUE] \in C!Object
        /\ [cApi EXCEPT !.del = TRUE].ready = cApi.ready
        /\ [cApi EXCEPT !.fin = @ \ {"other"}] \in C!Object
        /\ [cApi EXCEPT !.fin = @ \ {"other"}].ready = cApi.ready
    BY <1>1 DEF C!Object, C!Merged
  <1>4. cApi.ready => cApi'.ready
    BY <1>2, <1>3
    DEF C!Next, C!Reconcile, C!Begin, C!Patch, C!Deliver, C!TimerFires, C!SetOwnerRef, C!Pause,
        C!Unpause, C!Delete, C!OtherReleases, C!Crash, C!storeVars
  <1>5. cBefore'.ready => cObj'.ready
    <2>1. cCache.ready => C!Reconciled(cCache).ready
      BY <1>1 DEF C!Reconciled, C!Object
    <2>2. CASE C!Begin
      BY <2>1, <2>2 DEF C!Begin, C!visitVars
    <2>3. CASE C!Idle
      BY <2>3 DEF C!Idle, C!Blank
    <2> QED
      BY <2>2, <2>3
      DEF C!Next, C!Reconcile, C!Patch, C!Deliver, C!TimerFires, C!SetOwnerRef, C!Pause, C!Unpause,
          C!Delete, C!OtherReleases, C!Crash, C!visitVars
  <1> QED
    BY <1>4, <1>5

\* The Cluster is only provisioned once the VDCluster is announced as ready.
LEMMA ProvisionedStep ==
  ASSUME TypeOK, [WholeNext]_allVars
  PROVE  capi'.infra => capi.infra \/ cApi.ready
  <1>1. capi \in [infra : BOOLEAN, secret : BOOLEAN, paused : BOOLEAN]
    BY DEF TypeOK
  <1>2. CASE MachineStep
    <2>1. CASE Reconcile
      <3>1. UNCHANGED capi
        BY <2>1, VMStepStore, PatchStep, BeginStep DEF Reconcile, VMStep, PatchStatus
      <3> QED
        BY <3>1
    <2>2. CASE ~Reconcile
      BY <1>1, <1>2, <2>2
      DEF MachineStep, Deliver, TimerFires, Hypervisor, Stops, GuestUp, MachineEvent, SetOwnerRef,
          BootstrapDataReady, Delete, VMGone, GuestOff
    <2> QED
      BY <2>1, <2>2
  <1>3. CASE Together
    BY <1>1, <1>3 DEF Together, Pause, Unpause, Crash
  <1>4. CASE Provisioned \/ ClusterStep \/ UNCHANGED allVars
    BY <1>4 DEF Provisioned, ClusterStep, machineVars, allVars, vars
  <1> QED
    BY <1>2, <1>3, <1>4 DEF WholeNext

LEMMA AnnouncedStep ==
  ASSUME TypeOK, C!TypeOK, Announced, [WholeNext]_allVars
  PROVE  Announced'
  <1>1. /\ cApi.ready => cApi'.ready
        /\ cBefore'.ready => cObj'.ready
    <2>1. CASE C!Next
      BY <2>1, ReadyStep DEF Announced
    <2>2. CASE UNCHANGED clusterVars
      BY <2>2 DEF Announced, clusterVars
    <2> QED
      BY <2>1, <2>2, WholeSteps DEF C!Next
  <1>2. capi'.infra => cApi'.ready
    BY <1>1, ProvisionedStep DEF Announced
  <1>3. CASE [Next]_vars
    <2>1. capi.infra => capi'.infra
      BY <1>3, GateStep
    <2>2. (gate' => capi'.infra) /\ (pc' = "createVM" => gate')
      BY <1>3, <2>1, GateStep DEF Announced
    <2>3. ASSUME NEW v \in VMs, power'[v] # "none"
          PROVE  capi'.infra
      <3>1. power[v] # "none" \/ CreateVM
        BY <1>3, <2>3, VMHistory
      <3> QED
        BY <2>1, <3>1 DEF Announced, CreateVM
    <2> QED
      BY <1>1, <1>2, <2>2, <2>3 DEF Announced
  <1>4. CASE UNCHANGED machineVars
    BY <1>1, <1>2, <1>4 DEF Announced, machineVars, workerVars, vmVars
  <1> QED
    BY <1>3, <1>4, WholeSteps

LEMMA AnnouncedInvariant == WholeSpec => []Announced
  <1>1. WholeInit => Announced
    BY DEF WholeInit, Init, C!Init, C!Blank, Announced
  <1>2. TypeOK /\ C!TypeOK /\ Announced /\ [WholeNext]_allVars => Announced'
    BY AnnouncedStep
  <1> QED
    BY <1>1, <1>2, WholeTypes, PTL DEF WholeSpec

\* No VM is cloned before the VDCluster controller has announced the cluster as
\* ready, however the visits, lags, failures and restarts of the two controllers
\* interleave.
THEOREM ClusterFirst == WholeSpec => []NoVMBeforeCluster
  <1>1. Announced => NoVMBeforeCluster
    BY DEF Announced, NoVMBeforeCluster
  <1> QED
    BY <1>1, AnnouncedInvariant, PTL

=============================================================================
