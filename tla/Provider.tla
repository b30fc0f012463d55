------------------------------ MODULE Provider ------------------------------
(***************************************************************************)
(* The manager with both controllers: one VDCluster and one VDMachine of   *)
(* the same Cluster.  They never call each other.  VDClusterReconciler     *)
(* announces the VDCluster as ready; Cluster API copies that into the      *)
(* Cluster; VDMachineReconciler reads the Cluster before it clones.  They  *)
(* share the process, which dies as a whole, and the Cluster's pause.      *)
(***************************************************************************)
EXTENDS VDMachine

VARIABLES cApi, cPending, cCache, cQueued, cTimer, cPc, cObj, cBefore

clusterVars == <<cApi, cPending, cCache, cQueued, cTimer, cPc, cObj, cBefore>>
machineVars == <<storeVars, queueVars, workerVars, capi, vmVars>>
allVars     == <<vars, clusterVars>>

C == INSTANCE VDCluster WITH
    api <- cApi, pending <- cPending, cache <- cCache, queued <- cQueued, timer <- cTimer,
    pc <- cPc, obj <- cObj, before <- cBefore, paused <- capi.paused

WholeInit == Init /\ C!Init

\* Steps of the VDMachine's side that the VDCluster's side does not see.
MachineStep ==
    /\ \/ Reconcile \/ Deliver \/ TimerFires \/ Hypervisor
       \/ MachineEvent \/ SetOwnerRef \/ BootstrapDataReady \/ Delete
       \/ \E v \in VMs : VMGone(v) \/ GuestOff(v)
    /\ UNCHANGED clusterVars

\* Steps of the VDCluster's side that the VDMachine's side does not see.
\* Cluster API deletes the VDCluster when the machines are gone.
ClusterStep ==
    /\ UNCHANGED machineVars
    /\ \/ C!Reconcile \/ C!Deliver \/ C!TimerFires \/ C!SetOwnerRef \/ C!OtherReleases
       \/ ~api.exists /\ C!Delete

\* Cluster API copies the readiness of the VDCluster into the Cluster.
Provisioned == ClusterProvisioned /\ cApi.exists /\ cApi.ready /\ UNCHANGED clusterVars

\* What happens to both at once.
Together == (Pause /\ C!Pause) \/ (Unpause /\ C!Unpause) \/ (Crash /\ C!Crash)

WholeNext == MachineStep \/ ClusterStep \/ Provisioned \/ Together

WholeSpec == WholeInit /\ [][WholeNext]_allVars

\* Both workers, both watches, timers, VMs and the controllers of Cluster API
\* keep going; nothing is assumed of users.
WholeFairSpec ==
    /\ WholeSpec
    /\ WF_allVars(Reconcile /\ UNCHANGED clusterVars)
    /\ WF_allVars(Deliver /\ UNCHANGED clusterVars)
    /\ WF_allVars(TimerFires /\ UNCHANGED clusterVars)
    /\ \A v \in VMs : WF_allVars((Stops(v) \/ GuestUp(v)) /\ UNCHANGED clusterVars)
    /\ WF_allVars(UNCHANGED machineVars /\ C!Reconcile)
    /\ WF_allVars(UNCHANGED machineVars /\ C!Deliver)
    /\ WF_allVars(UNCHANGED machineVars /\ C!TimerFires)
    /\ WF_allVars(Provisioned)
    /\ WF_allVars(BootstrapDataReady /\ UNCHANGED clusterVars)
-----------------------------------------------------------------------------
\* The type invariant of the VDCluster's side; VDMachine has its own.
ClusterTypeOK == C!TypeOK

\* An adopted VDCluster becomes ready, unless it is deleted or paused.
ReadyCompletes == C!ReadyCompletes

\* No VM is cloned before the VDCluster controller has announced the cluster as
\* ready, however the two controllers' visits, lags and failures interleave.
NoVMBeforeCluster == (\E v \in VMs : power[v] # "none") => cApi.ready

\* From adoption to readiness across both controllers: once Cluster API owns
\* both objects the machine gets its addresses, unless one of them is deleted,
\* although the machine's controller is never told of the cluster's progress.
\* No promise is made for bootstrap data that are there when the VDCluster
\* becomes ready, nor after a pause: neither the Cluster's progress nor the end
\* of a pause is an event for that controller.
WholeProvisions ==
    (api.exists /\ api.owner /\ cApi.exists /\ cApi.owner /\ ~capi.secret)
        ~> \/ api.addresses # Nil \/ api.del \/ ~api.exists
           \/ capi.secret /\ cApi.ready /\ ~capi.infra
           \/ "pause" \in upsets
=============================================================================
