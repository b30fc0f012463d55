-------------------------- MODULE VDMachineVMProofs --------------------------
(***************************************************************************)
(* What VDMachine promises about virtual machines, proved for every set of *)
(* VMs, every selection of adverse events and every bound on them: none is *)
(* leaked but by an event that can leak one, the ids in the object always  *)
(* agree, an id is only let go when its VM is gone, and no VM runs before  *)
(* it is prepared.                                                         *)
(***************************************************************************)
EXTENDS VDMachineProofs, FiniteSetTheorems, SequenceTheorems

\* Between the start of a visit and the end of its deferred patch of spec; and
\* to the end of its patch of status.
Working  == pc \notin {"idle", "patchStatus"}
Visiting == pc # "idle"

Gone(v) == power[v] = "gone"

\* Every version of the stored object that somebody may still read.
Versions == {api, cache} \cup {pending[i] : i \in 1 .. Len(pending)}

\* The steps of Reconcile that only talk to vmrest and change the private copy.
VMStep ==
    \/ GetPowerState \/ Dispatch \/ CreateVM \/ Hardware \/ Adapters \/ NetworkAddresses
    \/ SharedFolders \/ Vnc \/ Bootstrap \/ PowerOn \/ Addresses
    \/ PowerOff \/ ConfirmOff \/ DeleteVM

\* Everything that happens away from the object and its copies.
Outside ==
    \/ TimerFires \/ MachineEvent \/ ClusterProvisioned \/ BootstrapDataReady
    \/ Pause \/ Unpause \/ (\E v \in VMs : VMGone(v) \/ GuestOff(v) \/ Stops(v) \/ GuestUp(v))
    \/ UNCHANGED vars

-----------------------------------------------------------------------------
(* What every step may change.                                               *)

\* The steps of the system, grouped by the parties they involve.
LEMMA StepKinds ==
  ASSUME [Next]_vars
  PROVE  \/ VMStep \/ PatchState \/ PatchSpec \/ PatchStatus \/ Begin
         \/ Deliver \/ SetOwnerRef \/ Delete \/ Crash \/ Outside
  BY DEF Next, Reconcile, Environment, Hypervisor, VMStep, Outside

\* Steps outside leave the object and its copies alone.
LEMMA OutsideStep ==
  ASSUME Outside
  PROVE  UNCHANGED <<storeVars, workerVars>>
  BY DEF Outside, TimerFires, MachineEvent, ClusterProvisioned, BootstrapDataReady, Pause,
         Unpause, VMGone, GuestOff, Stops, GuestUp, vars

\* Steps that talk to vmrest leave the stored object alone, and the worker's
\* visit goes on.
LEMMA VMStepStore ==
  ASSUME VMStep
  PROVE  /\ UNCHANGED <<storeVars, capi, before>>
         /\ pc \notin {"idle", "patchSpec", "patchStatus"}
         /\ pc' \notin {"idle", "patchStatus"}
  <1>1. UNCHANGED <<storeVars, capi>> /\ pc \notin {"idle", "patchSpec", "patchStatus"}
    BY DEF VMStep, Elsewhere, GetPowerState, Dispatch, CreateVM, Hardware, Adapters,
           NetworkAddresses, SharedFolders, Vnc, Bootstrap, PowerOn, Addresses, PowerOff,
           ConfirmOff, DeleteVM
  <1>2. before' = before /\ pc' \notin {"idle", "patchStatus"}
    <2> USE DEF Goto, Return, LoseReply, CallFails, VMCallFails, Following
    <2>1. CASE GetPowerState \/ Dispatch \/ CreateVM
      BY <2>1 DEF GetPowerState, Dispatch, DispatchDelete, DispatchNormal, CreateVM
    <2>2. CASE Hardware \/ Adapters \/ NetworkAddresses \/ SharedFolders
      BY <2>2 DEF Hardware, Adapters, NetworkAddresses, SharedFolders
    <2>3. CASE Vnc \/ Bootstrap \/ PowerOn \/ Addresses
      BY <2>3 DEF Vnc, Bootstrap, PowerOn, Addresses
    <2>4. CASE PowerOff \/ ConfirmOff \/ DeleteVM
      BY <2>4 DEF PowerOff, ConfirmOff, DeleteVM
    <2> QED
      BY <2>1, <2>2, <2>3, <2>4 DEF VMStep
  <1> QED
    BY <1>1, <1>2

\* A step counts one adverse event or none.
LEMMA CountedEvents ==
  ASSUME [Next]_vars
  PROVE  NoUpset \/ \E k \in UpsetKinds : Upset(k)
  <1> USE DEF LoseReply, CallFails, VMCallFails, UpsetKinds
  <1>1. CASE VMStep
    <2>1. CASE GetPowerState \/ Dispatch \/ CreateVM \/ Hardware \/ Adapters
      BY <2>1 DEF GetPowerState, Dispatch, CreateVM, Hardware, Adapters
    <2>2. CASE NetworkAddresses \/ SharedFolders \/ Vnc \/ Bootstrap \/ PowerOn
      BY <2>2 DEF NetworkAddresses, SharedFolders, Vnc, Bootstrap, PowerOn
    <2>3. CASE Addresses \/ PowerOff \/ ConfirmOff \/ DeleteVM
      BY <2>3 DEF Addresses, PowerOff, ConfirmOff, DeleteVM
    <2> QED
      BY <1>1, <2>1, <2>2, <2>3 DEF VMStep
  <1>2. CASE PatchState \/ PatchSpec \/ PatchStatus \/ Begin
    BY <1>2 DEF PatchState, PatchSpec, PatchStatus, Begin
  <1>3. CASE Deliver \/ SetOwnerRef \/ Delete \/ Crash
    BY <1>3 DEF Deliver, SetOwnerRef, Delete, Crash, NoUpset
  <1>4. CASE Outside
    BY <1>4 DEF Outside, TimerFires, MachineEvent, ClusterProvisioned, BootstrapDataReady,
                Pause, Unpause, VMGone, GuestOff, Stops, GuestUp, vars, NoUpset
  <1> QED
    BY <1>1, <1>2, <1>3, <1>4, StepKinds

\* The adverse events so far are never forgotten.
LEMMA HistoryGrows ==
  ASSUME TypeOK, [Next]_vars
  PROVE  /\ upsets \subseteq upsets' /\ nUpsets <= nUpsets'
         /\ nUpsets' \in Nat
  <1>1. nUpsets \in Nat
    BY DEF TypeOK
  <1> QED
    BY <1>1, CountedEvents DEF NoUpset, Upset, histVars

\* A clone is only made by CreateVM; a VM that is gone stays gone; and no part
\* of a VM's configuration is taken back.
LEMMA VMHistory ==
  ASSUME TypeOK, [Next]_vars, NEW v \in VMs
  PROVE  /\ power[v] # "none" => power'[v] # "none"
         /\ Gone(v) => Gone(v)'
         /\ power[v] = "none" /\ ~CreateVM => power'[v] = "none"
         /\ configured[v] \subseteq configured'[v]
  <1>1. /\ power \in [VMs -> {"none", "off", "on", "stopping", "gone"}]
        /\ configured \in [VMs -> SUBSET Parts]
    BY DEF TypeOK
  <1> USE <1>1 DEF Gone, Present, vmVars
  <1>2. CASE VMStep
    <2>1. CASE UNCHANGED vmVars
      BY <2>1
    <2>2. CASE CreateVM
      BY <2>2 DEF CreateVM
    <2>3. CASE Hardware \/ Adapters \/ SharedFolders \/ Vnc \/ Bootstrap
      BY <2>3 DEF Hardware, Adapters, SharedFolders, Vnc, Bootstrap, Apply
    <2>4. CASE PowerOn \/ PowerOff \/ DeleteVM
      BY <2>4 DEF PowerOn, PowerOff, DeleteVM
    <2> QED
      BY <1>2, <2>1, <2>2, <2>3, <2>4
      DEF VMStep, GetPowerState, Dispatch, NetworkAddresses, Addresses, ConfirmOff
  <1>3. CASE \/ PatchState \/ PatchSpec \/ PatchStatus \/ Begin
             \/ Deliver \/ SetOwnerRef \/ Delete \/ Crash
    BY <1>3 DEF PatchState, PatchSpec, PatchStatus, Begin, Deliver, SetOwnerRef, Delete, Crash
  <1>4. CASE Outside
    BY <1>4 DEF Outside, TimerFires, MachineEvent, ClusterProvisioned, BootstrapDataReady, Pause,
                Unpause, VMGone, GuestOff, Stops, GuestUp, vars
  <1> QED
    BY <1>2, <1>3, <1>4, StepKinds

-----------------------------------------------------------------------------
(* The store and the watch.                                                  *)

\* The newest version is the stored object, and an object that is being deleted
\* and has lost its finalizer does not exist any more.
WatchInv ==
    /\ pending = <<>> => cache = api
    /\ pending # <<>> => pending[Len(pending)] = api
    /\ api.exists /\ api.del => api.fin

\* Storing o makes it the newest version; it vanishes if its finalizer is gone.
LEMMA StoreVersions ==
  ASSUME TypeOK, WatchInv, NEW o \in Object, Store(o)
  PROVE  /\ WatchInv' /\ Versions' \subseteq Versions \cup {api'} /\ cache' = cache
         /\ IF o.del /\ ~o.fin THEN api' = [o EXCEPT !.exists = FALSE] ELSE api' = o
         /\ pending' = pending \/ pending' = Append(pending, api')
  <1>1. api \in Object /\ pending \in Seq(Object)
    BY DEF TypeOK
  <1>2. /\ IF o.del /\ ~o.fin THEN api' = [o EXCEPT !.exists = FALSE] ELSE api' = o
        /\ cache' = cache
        /\ \/ pending' = pending /\ api' = api
           \/ pending' = Append(pending, api')
    BY DEF Store
  <1>3. api' \in Object /\ (api'.exists /\ api'.del => api'.fin)
    BY <1>2 DEF Object
  <1>4. CASE pending' = pending /\ api' = api
    BY <1>2, <1>4 DEF WatchInv, Versions
  <1>5. CASE pending' = Append(pending, api')
    <2>1. /\ Len(pending') = Len(pending) + 1 /\ pending'[Len(pending')] = api'
          /\ \A i \in 1 .. Len(pending) : pending'[i] = pending[i]
          /\ pending' # <<>>
      BY <1>1, <1>3, <1>5
    <2>2. \A i \in 1 .. Len(pending') : i \in 1 .. Len(pending) \/ pending'[i] = api'
      BY <1>1, <2>1
    <2> QED
      BY <1>2, <1>3, <1>5, <2>1, <2>2 DEF WatchInv, Versions
  <1> QED
    BY <1>2, <1>4, <1>5

\* The watch hands the versions on in order.
LEMMA DeliverVersions ==
  ASSUME TypeOK, WatchInv, Deliver
  PROVE  /\ WatchInv' /\ Versions' \subseteq Versions /\ api' = api
         /\ cache' = pending[1] /\ 1 \in 1 .. Len(pending)
         /\ Len(pending') = Len(pending) - 1
         /\ \A i \in 1 .. Len(pending') : i + 1 \in 1 .. Len(pending) /\ pending'[i] = pending[i + 1]
  <1>1. api \in Object /\ pending \in Seq(Object) /\ pending # <<>>
    BY DEF TypeOK, Deliver
  <1>2. /\ api' = api /\ cache' = pending[1] /\ 1 \in 1 .. Len(pending)
        /\ Len(pending') = Len(pending) - 1
        /\ \A i \in 1 .. Len(pending') : i + 1 \in 1 .. Len(pending) /\ pending'[i] = pending[i + 1]
    BY <1>1 DEF Deliver
  <1>3. pending' = <<>> <=> Len(pending') = 0
    <2>1. pending' = Tail(pending)
      BY DEF Deliver
    <2>2. pending' \in Seq(Object)
      BY <1>1, <2>1, HeadTailProperties
    <2>3. Len(pending') = 0 => pending' = <<>>
      BY <2>2, EmptySeq
    <2> QED
      BY <2>3
  <1>4. pending' = <<>> => cache' = api'
    <2>1. pending' = <<>> => Len(pending) = 1
      BY <1>1, <1>2
    <2> QED
      BY <1>1, <1>2, <2>1 DEF WatchInv
  <1>5. pending' # <<>> => pending'[Len(pending')] = api'
    <2> SUFFICES ASSUME pending' # <<>>
                 PROVE  pending'[Len(pending')] = api'
      OBVIOUS
    <2>1. Len(pending') \in 1 .. Len(pending') /\ Len(pending') + 1 = Len(pending)
      BY <1>1, <1>2, <1>3
    <2> QED
      BY <1>1, <1>2, <2>1 DEF WatchInv
  <1> QED
    BY <1>2, <1>4, <1>5 DEF WatchInv, Versions

\* Only new versions of the stored object join those on their way.
LEMMA VersionsStep ==
  ASSUME TypeOK, WatchInv, [Next]_vars
  PROVE  WatchInv' /\ Versions' \subseteq Versions \cup {api'}
  <1>1. CASE UNCHANGED storeVars
    BY <1>1 DEF storeVars, WatchInv, Versions
  <1>2. CASE \E o \in Object : Store(o)
    BY <1>2, StoreVersions
  <1>3. CASE Deliver
    BY <1>3, DeliverVersions
  <1>4. CASE Crash
    BY <1>4 DEF Crash, WatchInv, Versions
  <1>5. api \in Object /\ obj \in Object
    BY DEF TypeOK
  <1>6. MergeSpec \in Object /\ MergeStatus \in Object
    BY <1>5, MergeTypes
  <1>7. [api EXCEPT !.owner = TRUE] \in Object /\ [api EXCEPT !.del = TRUE] \in Object
    BY <1>5 DEF Object
  <1>8. CASE VMStep \/ Outside \/ Begin
    BY <1>1, <1>8, VMStepStore, OutsideStep DEF Begin
  <1>9. CASE PatchState \/ PatchSpec \/ PatchStatus
    <2>1. UNCHANGED storeVars \/ Store(MergeSpec) \/ Store(MergeStatus)
      BY <1>9 DEF PatchState, PatchSpec, PatchStatus
    <2> QED
      BY <1>1, <1>2, <1>6, <2>1
  <1>10. CASE SetOwnerRef \/ Delete
    BY <1>2, <1>7, <1>10 DEF SetOwnerRef, Delete
  <1> QED
    BY <1>3, <1>4, <1>8, <1>9, <1>10, StepKinds

\* What the two patches write.
LEMMA MergedFields ==
  ASSUME TypeOK
  PROVE  /\ MergeSpec \in Object
         /\ MergeSpec.fin = Merge(api.fin, before.fin, obj.fin)
         /\ MergeSpec.vmID = Merge(api.vmID, before.vmID, obj.vmID)
         /\ MergeSpec.providerID = Merge(api.providerID, before.providerID, obj.providerID)
         /\ MergeSpec.exists = api.exists /\ MergeSpec.del = api.del /\ MergeSpec.cfg = api.cfg
         /\ MergeStatus \in Object
         /\ MergeStatus.fin = api.fin /\ MergeStatus.vmID = api.vmID
         /\ MergeStatus.providerID = api.providerID
         /\ MergeStatus.exists = api.exists /\ MergeStatus.del = api.del
         /\ MergeStatus.cfg = MergeParts(api.cfg, before.cfg, obj.cfg)
  <1>1. api \in Object /\ obj \in Object
    BY DEF TypeOK
  <1>2. MergeSpec \in Object /\ MergeStatus \in Object
    BY <1>1, MergeTypes
  <1> QED
    BY <1>1, <1>2 DEF MergeSpec, MergeStatus, Object

-----------------------------------------------------------------------------
(* The private copy.                                                         *)

\* The steps that a visit only reaches with a VM.
HasVMAt ==
    { "getPowerState", "patchState", "hardware", "adapters", "ipam", "folders", "vnc",
      "bootstrap", "powerOn", "addresses", "powerOff", "confirmOff", "deleteVM" }

\* How the ids of the private copy differ from those the visit read: they do
\* not, but for a provider id that was cleared; or a new VM was cloned; or the VM
\* is gone and was forgotten.
CopyIDs ==
    \/ obj.vmID = before.vmID /\ obj.providerID \in {before.providerID, Nil}
    \/ before.vmID = Nil /\ obj.providerID = obj.vmID
    \/ /\ before.vmID # Nil /\ Gone(before.vmID)
       /\ obj.vmID = Nil /\ obj.providerID = Nil

CopyInv ==
    /\ pc = "idle" => obj = Blank /\ before = Blank
    /\ pc \notin {"patchSpec", "patchStatus"} => obj.vmID = before.vmID
    /\ pc = "createVM" => obj.vmID = Nil
    /\ pc \in HasVMAt => obj.vmID # Nil
    /\ CopyIDs
    /\ before.fin /\ ~obj.fin /\ before.vmID # Nil => Gone(before.vmID)

\* Every id in any version of the object was given to a clone.
KnownInv ==
    \A w \in Versions \cup {before, obj} : w.vmID # Nil => power[w.vmID] # "none"

Forgets ==
    /\ obj'.vmID = Nil /\ obj'.providerID = Nil
    /\ obj.vmID \in VMs /\ Gone(obj.vmID) /\ UNCHANGED power

Adopts(v) ==
    /\ power[v] = "none" /\ power' = [power EXCEPT ![v] = "off"]
    /\ obj'.vmID = v /\ obj'.providerID = v
    /\ pc = "createVM" /\ pc' = "patchSpec"

Halves ==
    /\ obj'.vmID = obj.vmID /\ obj'.providerID = Nil
    /\ obj.vmID \in VMs /\ Gone(obj.vmID) /\ UNCHANGED power

\* What a step that talks to vmrest does to the ids of the private copy.
LEMMA VMStepIDs ==
  ASSUME TypeOK, CopyInv, KnownInv, VMStep
  PROVE  /\ \/ obj'.vmID = obj.vmID /\ obj'.providerID = obj.providerID
            \/ Forgets \/ Halves \/ \E v \in VMs : Adopts(v)
         /\ pc' # "patchSpec" => obj'.vmID = obj.vmID
         /\ pc' = "createVM" => obj'.vmID = Nil
         /\ pc' \in HasVMAt => obj'.vmID # Nil
         /\ obj.fin /\ ~obj'.fin /\ obj.vmID # Nil => power'[obj.vmID] = "gone"
  <1>1. /\ obj \in Object /\ power \in [VMs -> {"none", "off", "on", "stopping", "gone"}]
        /\ obj.vmID # Nil => obj.vmID \in VMs /\ power[obj.vmID] # "none"
        /\ pc \in HasVMAt => obj.vmID # Nil
        /\ pc = "createVM" => obj.vmID = Nil
    BY DEF TypeOK, Object, KnownInv, CopyInv
  <1>2. /\ \A ps : /\ Record(ps).vmID = obj.vmID /\ Record(ps).fin = obj.fin
                   /\ Record(ps).providerID = obj.providerID
        /\ \A x : /\ [obj EXCEPT !.state = x].vmID = obj.vmID
                  /\ [obj EXCEPT !.state = x].providerID = obj.providerID
                  /\ [obj EXCEPT !.state = x].fin = obj.fin
                  /\ [obj EXCEPT !.addresses = x].vmID = obj.vmID
                  /\ [obj EXCEPT !.addresses = x].providerID = obj.providerID
                  /\ [obj EXCEPT !.addresses = x].fin = obj.fin
    BY <1>1 DEF Record, Object
  <1>3. /\ RemoveFinalizer(obj).vmID = obj.vmID
        /\ RemoveFinalizer(obj).providerID = obj.providerID
        /\ AddFinalizer(obj).vmID = obj.vmID /\ AddFinalizer(obj).fin
        /\ AddFinalizer(obj).providerID = obj.providerID
    BY <1>1 DEF RemoveFinalizer, AddFinalizer, Object
  <1> USE DEF Goto, Return, LoseReply, CallFails, VMCallFails, Following, HasVMAt, vmVars
  <1>4. CASE GetPowerState
    <2>1. CASE Return(Forget(obj), "done") /\ Gone(obj.vmID)
      <3>1. Forget(obj).vmID = Nil /\ Forget(obj).providerID = Nil
        BY <1>1 DEF Forget, Object
      <3>2. obj.vmID \in VMs /\ UNCHANGED power
        BY <1>1, <1>4 DEF GetPowerState
      <3>3. obj' = Forget(obj) /\ pc' = "patchSpec" /\ power'[obj.vmID] = "gone"
        BY <2>1, <3>2 DEF Gone
      <3> QED
        BY <2>1, <3>1, <3>2, <3>3 DEF Forgets
    <2>2. CASE Goto("patchState", [obj EXCEPT !.state = PowerState(obj.vmID)]) \/ CallFails
      BY <1>1, <1>2, <1>4, <2>2 DEF GetPowerState
    <2> QED
      BY <1>4, <2>1, <2>2 DEF GetPowerState, Gone
  <1>5. CASE Dispatch
    BY <1>1, <1>3, <1>5 DEF Dispatch, DispatchDelete, DispatchNormal
  <1>6. CASE CreateVM
    BY <1>1, <1>6 DEF CreateVM, Adopts, Adopt, Object
  <1>7. CASE Hardware \/ Adapters \/ NetworkAddresses \/ SharedFolders
    BY <1>1, <1>2, <1>7 DEF Hardware, Adapters, NetworkAddresses, SharedFolders
  <1>8. CASE Vnc \/ Bootstrap
    BY <1>1, <1>2, <1>8 DEF Vnc, Bootstrap
  <1>12. CASE Addresses
    BY <1>1, <1>2, <1>12 DEF Addresses
  <1>9. CASE PowerOn
    BY <1>1, <1>2, <1>9 DEF PowerOn, Halves, Present, Gone, Object
  <1>10. CASE PowerOff
    BY <1>1, <1>3, <1>10 DEF PowerOff, Present
  <1>13. CASE ConfirmOff
    <2>1. obj.vmID # Nil /\ (~Present(obj.vmID) => power[obj.vmID] = "gone") /\ UNCHANGED power
      BY <1>1, <1>13 DEF ConfirmOff, Present
    <2>2. CASE Return([obj EXCEPT !.state = PowerState(obj.vmID)], "done")
      BY <1>2, <2>1, <2>2
    <2>3. CASE ~Present(obj.vmID) /\ Return(RemoveFinalizer(obj), "error")
      BY <1>3, <2>1, <2>3
    <2> QED
      BY <1>13, <2>1, <2>2, <2>3 DEF ConfirmOff
  <1>11. CASE DeleteVM
    BY <1>1, <1>3, <1>11 DEF DeleteVM, Present, Gone
  <1> QED
    BY <1>4, <1>5, <1>6, <1>7, <1>8, <1>9, <1>10, <1>11, <1>12, <1>13 DEF VMStep

\* A visit starts with the object as the cache holds it.
LEMMA BeginStep ==
  ASSUME Begin
  PROVE  /\ UNCHANGED <<storeVars, vmVars, capi>> /\ pc = "idle"
         /\ pending # <<>> => "stale" \in upsets' \/ UNCHANGED workerVars
         /\ \/ UNCHANGED workerVars
            \/ /\ obj' = cache /\ before' = cache /\ cache.exists
               /\ pc' = IF cache.vmID = Nil THEN "dispatch" ELSE "getPowerState"
  BY DEF Begin, Upset, Ignored

\* How a visit ends.
LEMMA EndStep ==
  ASSUME PatchStatus \/ Crash
  PROVE  pc' = "idle" /\ obj' = Blank /\ before' = Blank /\ UNCHANGED vmVars
  BY DEF PatchStatus, Crash, Finish, Idle

\* The patches on the way leave the copies alone.
LEMMA PatchStep ==
  ASSUME PatchState \/ PatchSpec
  PROVE  /\ UNCHANGED <<obj, before, vmVars, capi>>
         /\ PatchSpec => pc = "patchSpec" /\ pc' = "patchStatus"
         /\ PatchState => pc = "patchState" /\ pc' \in {"dispatch", "patchSpec"}
  BY DEF PatchState, PatchSpec, Goto, Return, LoseReply

\* Every step keeps the private copy as it should be.
LEMMA CopyStep ==
  ASSUME TypeOK, CopyInv, KnownInv, [Next]_vars
  PROVE  CopyInv'
  <1>1. /\ obj \in Object /\ before \in Object
        /\ \A v \in VMs : Gone(v) => Gone(v)'
    BY VMHistory DEF TypeOK
  <1>2. /\ before.vmID \in VMs \cup {Nil} /\ before.providerID \in VMs \cup {Nil}
        /\ obj.vmID \in VMs \cup {Nil} /\ obj.fin \in BOOLEAN
    BY <1>1 DEF Object
  <1>3. CASE VMStep
    <2>1. before' = before /\ pc \notin {"idle", "patchSpec", "patchStatus"}
                /\ pc' \notin {"idle", "patchStatus"} /\ obj.vmID = before.vmID
      BY <1>3, VMStepStore DEF CopyInv
    <2>2. /\ \/ obj'.vmID = obj.vmID /\ obj'.providerID = obj.providerID
             \/ Forgets \/ Halves \/ \E v \in VMs : Adopts(v)
          /\ pc' # "patchSpec" => obj'.vmID = obj.vmID
          /\ pc' = "createVM" => obj'.vmID = Nil
          /\ pc' \in HasVMAt => obj'.vmID # Nil
          /\ obj.fin /\ ~obj'.fin /\ obj.vmID # Nil => power'[obj.vmID] = "gone"
      BY <1>3, VMStepIDs
    <2>3. obj.providerID \in {before.providerID, Nil} \/ before.vmID = Nil
      BY <2>1 DEF CopyInv, CopyIDs
    <2>4. CopyIDs'
      <3>1. CASE obj'.vmID = obj.vmID /\ obj'.providerID = obj.providerID
        BY <1>1, <1>2, <2>1, <3>1 DEF CopyInv, CopyIDs
      <3>2. CASE Forgets
        BY <1>1, <2>1, <3>2 DEF Forgets, CopyIDs, CopyInv
      <3>3. CASE Halves
        BY <2>1, <3>3 DEF Halves, CopyIDs
      <3>4. ASSUME NEW v \in VMs, Adopts(v)
            PROVE  CopyIDs'
        BY <2>1, <3>4 DEF Adopts, CopyIDs, CopyInv
      <3> QED
        BY <2>2, <3>1, <3>2, <3>3, <3>4
    <2>5. before.fin /\ ~obj'.fin /\ before.vmID # Nil => Gone(before.vmID)'
      <3>1. CASE obj.fin
        BY <2>1, <2>2, <3>1 DEF Gone
      <3>2. CASE ~obj.fin
        <4>1. before.fin /\ before.vmID # Nil => before.vmID \in VMs /\ Gone(before.vmID)
          BY <1>2, <3>2 DEF CopyInv
        <4> QED
          BY <1>1, <2>1, <4>1 DEF Gone
      <3> QED
        BY <3>1, <3>2
    <2> QED
      BY <2>1, <2>2, <2>4, <2>5 DEF CopyInv
  <1>4. ASSUME UNCHANGED <<obj, before>>, pc' = pc \/ (pc # "idle" /\ pc' \in {"patchSpec", "patchStatus"})
                                                   \/ (pc = "patchState" /\ pc' = "dispatch")
        PROVE  CopyInv'
    BY <1>1, <1>2, <1>4 DEF CopyInv, CopyIDs, HasVMAt
  <1>5. CASE PatchState \/ PatchSpec
    BY <1>4, <1>5, PatchStep
  <1>6. CASE PatchStatus \/ Crash
    <2>1. Blank.vmID = Nil /\ Blank.providerID = Nil /\ ~Blank.fin
      BY DEF Blank
    <2> QED
      BY <1>6, <2>1, EndStep DEF CopyInv, CopyIDs, HasVMAt
  <1>7. CASE Begin
    <2>1. CASE UNCHANGED workerVars
      BY <1>4, <2>1 DEF workerVars
    <2>2. CASE obj' = cache /\ before' = cache /\ pc' = IF cache.vmID = Nil THEN "dispatch" ELSE "getPowerState"
      BY <2>2 DEF CopyInv, CopyIDs, HasVMAt
    <2> QED
      BY <1>7, <2>1, <2>2, BeginStep
  <1>8. CASE Deliver \/ SetOwnerRef \/ Delete \/ Outside
    <2>1. UNCHANGED workerVars
      BY <1>8, OutsideStep DEF Deliver, SetOwnerRef, Delete
    <2> QED
      BY <1>4, <2>1 DEF workerVars
  <1> QED
    BY <1>3, <1>5, <1>6, <1>7, <1>8, StepKinds

\* What a step may change of the stored object: but for the patch of spec, only
\* a deletion that overtakes the finalizer changes whether it exists, and none
\* changes the ids or the finalizer.
LEMMA StoredStep ==
  ASSUME TypeOK, WatchInv, [Next]_vars
  PROVE  \/ PatchSpec /\ SpecDiff /\ api.exists /\ Store(MergeSpec)
         \/ /\ api'.vmID = api.vmID /\ api'.providerID = api.providerID /\ api'.fin = api.fin
            /\ \/ api'.exists = api.exists
               \/ Delete /\ ~api.fin /\ Upset("earlyDelete") /\ ~api'.exists
  <1>1. /\ api \in Object /\ obj \in Object
        /\ api.exists /\ api.del => api.fin
    BY DEF TypeOK, WatchInv
  <1>2. CASE api' = api
    BY <1>2
  <1>3. CASE VMStep \/ Begin \/ Outside \/ Deliver \/ Crash
    BY <1>2, <1>3, VMStepStore, OutsideStep DEF Begin, Deliver, Crash, storeVars
  <1>4. CASE PatchSpec
    BY <1>2, <1>4 DEF PatchSpec, storeVars
  <1>5. CASE PatchState \/ PatchStatus
    <2>1. UNCHANGED storeVars \/ (api.exists /\ Store(MergeStatus))
      BY <1>5 DEF PatchState, PatchStatus
    <2>2. ASSUME api.exists, Store(MergeStatus)
          PROVE  api' = MergeStatus
      BY <1>1, <2>2, MergedFields, StoreVersions
    <2> QED
      BY <1>2, <2>1, <2>2, MergedFields DEF storeVars
  <1>6. CASE SetOwnerRef
    <2> DEFINE o == [api EXCEPT !.owner = TRUE]
    <2>1. o \in Object /\ o.del = api.del /\ o.fin = api.fin /\ o.exists = api.exists
          /\ o.vmID = api.vmID /\ o.providerID = api.providerID
      BY <1>1 DEF Object
    <2>2. Store(o) /\ api.exists
      BY <1>6 DEF SetOwnerRef
    <2> HIDE DEF o
    <2> QED
      BY <1>1, <2>1, <2>2, StoreVersions
  <1>7. CASE Delete
    <2> DEFINE o == [api EXCEPT !.del = TRUE]
    <2>1. /\ o \in Object /\ o.del /\ o.fin = api.fin /\ o.exists = api.exists
          /\ o.vmID = api.vmID /\ o.providerID = api.providerID
          /\ LET g == [o EXCEPT !.exists = FALSE] IN
               ~g.exists /\ g.fin = o.fin /\ g.vmID = o.vmID /\ g.providerID = o.providerID
      BY <1>1 DEF Object
    <2>2. Store(o) /\ (~api.fin => Upset("earlyDelete"))
      BY <1>7 DEF Delete
    <2> HIDE DEF o
    <2>3. IF o.del /\ ~o.fin THEN api' = [o EXCEPT !.exists = FALSE] ELSE api' = o
      BY <2>1, <2>2, StoreVersions
    <2> QED
      BY <1>7, <2>1, <2>2, <2>3
  <1> QED
    BY <1>3, <1>4, <1>5, <1>6, <1>7, StepKinds

\* What storing the patch of spec makes of the stored object.
LEMMA StoreSpec ==
  ASSUME TypeOK, WatchInv, Store(MergeSpec)
  PROVE  /\ api'.fin = Merge(api.fin, before.fin, obj.fin)
         /\ api'.vmID = Merge(api.vmID, before.vmID, obj.vmID)
         /\ api'.providerID = Merge(api.providerID, before.providerID, obj.providerID)
         /\ api'.del = api.del /\ api'.cfg = api.cfg
         /\ api'.exists <=> api.exists /\ (api.del => api'.fin)
  <1> DEFINE g == [MergeSpec EXCEPT !.exists = FALSE]
  <1>1. /\ MergeSpec \in Object
        /\ IF MergeSpec.del /\ ~MergeSpec.fin THEN api' = g ELSE api' = MergeSpec
    BY MergedFields, StoreVersions
  <1>2. /\ ~g.exists /\ g.fin = MergeSpec.fin /\ g.vmID = MergeSpec.vmID /\ g.del = MergeSpec.del
        /\ g.providerID = MergeSpec.providerID /\ g.cfg = MergeSpec.cfg
    BY <1>1 DEF Object
  <1> HIDE DEF g
  <1>3. MergeSpec.exists \in BOOLEAN /\ MergeSpec.del \in BOOLEAN
    BY <1>1 DEF Object
  <1> QED
    BY <1>1, <1>2, <1>3, MergedFields

\* Every step keeps to the ids that were given to clones.
LEMMA KnownStep ==
  ASSUME TypeOK, WatchInv, CopyInv, KnownInv, [Next]_vars
  PROVE  KnownInv'
  <1> DEFINE Known(w) == w.vmID # Nil => power'[w.vmID] # "none"
  <1>1. /\ Versions' \subseteq Versions \cup {api'}
        /\ TypeOK' /\ api \in Object /\ obj \in Object /\ power \in [VMs -> {"none", "off", "on", "stopping", "gone"}]
    BY VersionsStep, TypeStep DEF TypeOK
  <1>2. \A w \in Versions \cup {before, obj} : w \in Object
    BY DEF TypeOK, Versions
  <1>3. \A w \in Versions \cup {before, obj} : Known(w)
    <2> SUFFICES ASSUME NEW w \in Versions \cup {before, obj}, w.vmID # Nil
                 PROVE  power'[w.vmID] # "none"
      OBVIOUS
    <2>1. w.vmID \in VMs /\ power[w.vmID] # "none"
      BY <1>2 DEF Object, KnownInv
    <2> QED
      BY <2>1, VMHistory
  <1>4. Known(api')
    <2>1. api'.vmID \in {api.vmID, obj.vmID}
      BY StoredStep, StoreSpec DEF Merge
    <2> QED
      BY <1>3, <2>1 DEF Versions
  <1>5. Known(obj')
    <2>1. CASE VMStep
      <3>1. \/ obj'.vmID = obj.vmID \/ Forgets \/ Halves \/ \E v \in VMs : Adopts(v)
        BY <2>1, VMStepIDs
      <3>2. obj'.vmID \in {obj.vmID, Nil} \/ \E v \in VMs : Adopts(v)
        BY <3>1 DEF Forgets, Halves
      <3> QED
        BY <1>1, <1>3, <3>2 DEF Adopts
    <2>2. CASE obj' \in {obj, cache, Blank}
      BY <1>3, <2>2 DEF Versions, Blank
    <2>3. CASE ~VMStep
      <3>1. obj' \in {obj, cache, Blank}
        BY <2>3, StepKinds, PatchStep, EndStep, BeginStep, OutsideStep
        DEF Deliver, SetOwnerRef, Delete, workerVars
      <3> QED
        BY <2>2, <3>1
    <2> QED
      BY <2>1, <2>3
  <1>6. Known(before')
    <2>1. before' \in {before, cache, Blank}
      BY StepKinds, VMStepStore, PatchStep, EndStep, BeginStep, OutsideStep
      DEF Deliver, SetOwnerRef, Delete, workerVars
    <2> QED
      BY <1>3, <2>1 DEF Versions, Blank
  <1>7. \A w \in Versions' \cup {before', obj'} : Known(w)
    BY <1>1, <1>3, <1>4, <1>5, <1>6
  <1> QED
    BY <1>7 DEF KnownInv

\* The store, the private copy and the ids stay consistent, whatever happens.
BaseInv == WatchInv /\ CopyInv /\ KnownInv

LEMMA BaseInvariant == Spec => []BaseInv
  <1>1. Init => BaseInv
    <2> SUFFICES ASSUME Init
                 PROVE  BaseInv
      OBVIOUS
    <2>1. Created.vmID = Nil /\ ~Created.del /\ Blank.vmID = Nil /\ ~Blank.fin /\ Blank.providerID = Nil
      BY DEF Created, Blank
    <2>2. pending = <<Created>> /\ Len(pending) = 1 /\ pending[1] = Created /\ pending # <<>>
          /\ api = Created /\ cache = Blank /\ obj = Blank /\ before = Blank /\ pc = "idle"
      BY DEF Init
    <2>3. WatchInv
      BY <2>1, <2>2 DEF WatchInv
    <2>4. CopyInv
      BY <2>1, <2>2 DEF CopyInv, CopyIDs, HasVMAt
    <2>5. \A i \in 1 .. Len(pending) : pending[i] = Created
      BY <2>2
    <2>6. \A w \in Versions \cup {before, obj} : w.vmID = Nil
      BY <2>1, <2>2, <2>5 DEF Versions
    <2>7. KnownInv
      BY <2>6 DEF KnownInv
    <2> QED
      BY <2>3, <2>4, <2>7 DEF BaseInv
  <1>2. TypeOK /\ BaseInv /\ [Next]_vars => BaseInv'
    BY VersionsStep, CopyStep, KnownStep DEF BaseInv
  <1> QED
    BY <1>1, <1>2, TypeCorrect, PTL DEF Spec

-----------------------------------------------------------------------------
(* Without stale reads: the worker's snapshot is the stored object.          *)

\* The object names a VM but has lost its provider id.
Half(w) == w.vmID # Nil /\ w.providerID = Nil

\* Until the patch of spec is through, the stored ids and finalizer are those
\* the visit read; and a provider id is only ever missing when the VM is gone.
FreshInv ==
    "stale" \notin upsets =>
        /\ Working => /\ api.vmID = before.vmID /\ api.providerID = before.providerID
                      /\ api.fin = before.fin
        /\ \A w \in {api, before, obj} : Half(w) => Gone(w.vmID)

\* What a visit does to the three copies.
LEMMA CopiesStep ==
  ASSUME [Next]_vars, ~VMStep
  PROVE  \/ obj' = obj /\ before' = before
         \/ obj' = Blank /\ before' = Blank /\ pc' = "idle"
         \/ obj' = cache /\ before' = cache /\ Begin /\ ~UNCHANGED workerVars
  <1>1. CASE PatchState \/ PatchSpec
    BY <1>1, PatchStep
  <1>2. CASE PatchStatus \/ Crash
    BY <1>2, EndStep
  <1>3. CASE Begin
    BY <1>3 DEF Begin, workerVars
  <1>4. CASE Deliver \/ SetOwnerRef \/ Delete \/ Outside
    BY <1>4, OutsideStep DEF Deliver, SetOwnerRef, Delete, workerVars
  <1> QED
    BY <1>1, <1>2, <1>3, <1>4, StepKinds

\* A visit starts with the stored object unless it reads a stale one.
LEMMA FreshStart ==
  ASSUME TypeOK, WatchInv, Begin, "stale" \notin upsets', ~UNCHANGED workerVars
  PROVE  cache = api
  BY BeginStep DEF WatchInv

\* A visit goes on only from where it was.
LEMMA WorkingStep ==
  ASSUME [Next]_vars, Working'
  PROVE  \/ Working /\ before' = before /\ ~PatchSpec
         \/ Begin /\ ~UNCHANGED workerVars /\ before' = cache /\ obj' = cache
  <1>1. CASE VMStep
    BY <1>1, VMStepStore DEF Working, PatchSpec
  <1>2. CASE PatchState \/ PatchSpec
    BY <1>2, PatchStep DEF Working, PatchState, PatchSpec
  <1>3. CASE PatchStatus \/ Crash
    BY <1>3, EndStep DEF Working
  <1>4. CASE Begin
    BY <1>4, BeginStep DEF Working, workerVars
  <1>5. CASE Deliver \/ SetOwnerRef \/ Delete \/ Outside
    <2>1. UNCHANGED workerVars
      BY <1>5, OutsideStep DEF Deliver, SetOwnerRef, Delete
    <2>2. CASE ~PatchSpec
      BY <2>1, <2>2 DEF workerVars, Working
    <2>3. CASE PatchSpec
      BY <2>3, PatchStep DEF Working
    <2> QED
      BY <2>2, <2>3
  <1> QED
    BY <1>1, <1>2, <1>3, <1>4, <1>5, StepKinds

LEMMA FreshStep ==
  ASSUME TypeOK, BaseInv, FreshInv, [Next]_vars
  PROVE  FreshInv'
  <1> SUFFICES ASSUME "stale" \notin upsets'
               PROVE  /\ Working' => /\ api'.vmID = before'.vmID /\ api'.fin = before'.fin
                                     /\ api'.providerID = before'.providerID
                      /\ \A w \in {api', before', obj'} : Half(w) => power'[w.vmID] = "gone"
    BY DEF FreshInv, Half, Gone
  <1>1. /\ Working => /\ api.vmID = before.vmID /\ api.providerID = before.providerID
                      /\ api.fin = before.fin
        /\ \A w \in {api, before, obj} : Half(w) => Gone(w.vmID)
    BY HistoryGrows DEF FreshInv
  <1>2. WatchInv /\ CopyInv /\ KnownInv
    BY DEF BaseInv
  <1>3. Working' => /\ api'.vmID = before'.vmID /\ api'.providerID = before'.providerID
                    /\ api'.fin = before'.fin
    <2> SUFFICES ASSUME Working'
                 PROVE  /\ api'.vmID = before'.vmID /\ api'.providerID = before'.providerID
                        /\ api'.fin = before'.fin
      OBVIOUS
    <2>1. CASE Working /\ before' = before /\ ~PatchSpec
      BY <1>1, <1>2, <2>1, StoredStep
    <2>2. CASE Begin /\ ~UNCHANGED workerVars /\ before' = cache
      BY <1>2, <2>2, FreshStart DEF Begin, storeVars
    <2> QED
      BY <2>1, <2>2, WorkingStep
  <1>4. \A w \in {api, before, obj, Blank} : Half(w) => power'[w.vmID] = "gone"
    <2> SUFFICES ASSUME NEW w \in {api, before, obj, Blank}, Half(w)
                 PROVE  power'[w.vmID] = "gone"
      OBVIOUS
    <2>1. w \in {api, before, obj} /\ w.vmID \in VMs
      BY DEF Half, Blank, TypeOK, Object
    <2> QED
      BY <1>1, <2>1, VMHistory DEF Gone
  <1>5. Half(api') => power'[api'.vmID] = "gone"
    <2>1. CASE PatchSpec /\ Store(MergeSpec)
      <3>1. Working
        BY <2>1 DEF PatchSpec, Working
      <3>2. api'.vmID = obj.vmID /\ api'.providerID = obj.providerID
        BY <1>1, <1>2, <2>1, <3>1, StoreSpec DEF Merge
      <3> QED
        BY <1>4, <3>2 DEF Half
    <2>2. CASE api'.vmID = api.vmID /\ api'.providerID = api.providerID
      BY <1>4, <2>2 DEF Half
    <2> QED
      BY <1>2, <2>1, <2>2, StoredStep
  <1>6. \A w \in {before', obj'} : Half(w) => power'[w.vmID] = "gone"
    <2>1. CASE VMStep
      <3>1. before' = before
        BY <2>1, VMStepStore
      <3>2. \/ obj'.vmID = obj.vmID /\ obj'.providerID = obj.providerID
            \/ Forgets \/ Halves \/ \E v \in VMs : Adopts(v)
        BY <1>2, <2>1, VMStepIDs
      <3>3. Half(obj') => power'[obj'.vmID] = "gone"
        BY <1>4, <3>2 DEF Half, Forgets, Halves, Adopts, Gone
      <3> QED
        BY <1>4, <3>1, <3>3
    <2>2. CASE Begin /\ ~UNCHANGED workerVars /\ obj' = cache /\ before' = cache
      BY <1>2, <1>4, <2>2, FreshStart
    <2>3. CASE (obj' = obj /\ before' = before) \/ (obj' = Blank /\ before' = Blank)
      BY <1>4, <2>3
    <2> QED
      BY <2>1, <2>2, <2>3, CopiesStep
  <1> QED
    BY <1>3, <1>5, <1>6

LEMMA FreshInvariant == Spec => []FreshInv
  <1>1. Init => FreshInv
    BY DEF Init, FreshInv, Half, Working, Created, Blank
  <1> QED
    BY <1>1, FreshStep, BaseInvariant, TypeCorrect, PTL DEF Spec

\* reconcileBootstrapData never dereferences a nil spec.providerID: whoever
\* clears it has found the VM gone, and the call before this one would have
\* failed.
THEOREM ProviderIDThere == Spec => []ProviderIDAtBootstrap
  <1>1. TypeOK /\ BaseInv /\ FreshInv => ProviderIDAtBootstrap
    <2> SUFFICES ASSUME BaseInv, FreshInv, "stale" \notin upsets, pc = "bootstrap",
                        Present(obj.vmID), obj.providerID = Nil
                 PROVE  FALSE
      BY DEF ProviderIDAtBootstrap
    <2>1. obj.vmID # Nil
      BY DEF BaseInv, CopyInv, HasVMAt
    <2> QED
      BY <2>1 DEF FreshInv, Half, Gone, Present
  <1> QED
    BY <1>1, BaseInvariant, FreshInvariant, TypeCorrect, PTL

\* One step lets go of a VM only when it is gone.
LEMMA ReleaseStep ==
  ASSUME TypeOK, BaseInv, FreshInv, FinalizerInv, [Next]_vars,
         "stale" \notin upsets', api.exists, api.vmID # Nil,
         api'.vmID # api.vmID \/ ~api'.exists
  PROVE  Gone(api.vmID)
  <1>1. /\ WatchInv /\ CopyInv /\ KnownInv /\ api.fin /\ "stale" \notin upsets
    BY HistoryGrows DEF BaseInv, FinalizerInv, FinalizerHeld
  <1>2. PatchSpec /\ Store(MergeSpec)
    BY <1>1, StoredStep
  <1>3. pc = "patchSpec" /\ Working
    BY <1>2 DEF PatchSpec, Working
  <1>4. api.vmID = before.vmID /\ api.fin = before.fin
    BY <1>1, <1>3 DEF FreshInv
  <1>5. api'.vmID = obj.vmID /\ api'.fin = obj.fin
    BY <1>1, <1>2, <1>4, StoreSpec DEF Merge
  <1>6. CASE api'.vmID # api.vmID
    BY <1>1, <1>4, <1>5, <1>6 DEF CopyInv, CopyIDs
  <1>7. CASE ~api'.exists
    <2>1. ~obj.fin
      BY <1>1, <1>2, <1>5, <1>7, StoreSpec
    <2> QED
      BY <1>1, <1>4, <2>1 DEF CopyInv
  <1> QED
    BY <1>6, <1>7

\* Unless Reconcile reads a stale object, the stored object lets go of a VM only
\* when that VM is gone, whatever patches fail and whenever the manager crashes
\* or the object is deleted.
THEOREM ReleasesOnlyGone == Spec => ReleasedOnlyWhenGone
  <1>1. TypeOK /\ BaseInv /\ FreshInv /\ FinalizerInv /\ [Next]_vars =>
          [ ("stale" \notin upsets' /\ api.exists /\ api.vmID # Nil
               /\ (api'.vmID # api.vmID \/ ~api'.exists))
            => power[api.vmID] = "gone" ]_vars
    BY ReleaseStep DEF Gone
  <1> QED
    BY <1>1, BaseInvariant, FreshInvariant, FinalizerInvariant, TypeCorrect, PTL
    DEF Spec, ReleasedOnlyWhenGone

-----------------------------------------------------------------------------
(* The two ids, whatever happens.  A stale visit merges its changes into an   *)
(* object that has moved on, so the argument is about the versions that may   *)
(* still be read, in their order.                                             *)

\* a is an older version than b, or the same, and a visit may still act on it.
Older(a, b) ==
    \/ Visiting /\ a = before /\ b \in Versions \cup {before}
    \/ a = cache /\ b \in Versions
    \/ \E i, j \in 1 .. Len(pending) : i <= j /\ a = pending[i] /\ b = pending[j]

\* Version w has a VM and the stored object s has none, or the reverse.
Flipped(w, s) == ~ (w.vmID = Nil <=> s.vmID = Nil)

\* The ids of each version match; one that lost its provider id is not followed
\* by a stored one; from the oldest version to the stored object s a VM appears
\* or disappears at most once; and after a version without VM there is none that
\* lost its provider id.
PairOK(a, b, s) ==
    /\ a.providerID \in {Nil, a.vmID} /\ b.providerID \in {Nil, b.vmID}
    /\ Half(a) => s.providerID = Nil
    /\ Flipped(b, s) => Flipped(a, s)
    /\ a.vmID = Nil => ~Half(b)

IDInv == \A a, b \in Versions \cup {before} : Older(a, b) => PairOK(a, b, api)

\* Every version that may still be read is older than the stored object.
LEMMA StoredNewest ==
  ASSUME TypeOK, WatchInv, NEW a \in Versions
  PROVE  Older(a, api) /\ api \in Versions /\ (Visiting => Older(before, a) /\ Older(before, before))
  <1>1. api \in Versions /\ pending \in Seq(Object)
    BY DEF Versions, TypeOK
  <1>2. CASE a = cache
    BY <1>1, <1>2 DEF Older
  <1>3. CASE pending # <<>> /\ a \in {api} \cup {pending[i] : i \in 1 .. Len(pending)}
    <2>1. Len(pending) \in 1 .. Len(pending) /\ pending[Len(pending)] = api
      BY <1>1, <1>3, EmptySeq DEF WatchInv
    <2>2. PICK i \in 1 .. Len(pending) : a = pending[i]
      BY <1>3, <2>1
    <2>3. i <= Len(pending)
      BY <1>1
    <2> QED
      BY <2>1, <2>2, <2>3, <1>1 DEF Older
  <1>4. CASE pending = <<>>
    BY <1>1, <1>2, <1>4 DEF WatchInv, Versions
  <1> QED
    BY <1>1, <1>2, <1>3, <1>4 DEF Versions, Older

\* A step makes no new pair but those that end in the new stored object.
LEMMA OlderStep ==
  ASSUME TypeOK, WatchInv, CopyInv, [Next]_vars, NEW a, NEW b, Older(a, b)'
  PROVE  Older(a, b) \/ (b = api' /\ (a = api' \/ Older(a, api)))
  <1>1. /\ pending \in Seq(Object) /\ api \in Object
        /\ Versions' \subseteq Versions \cup {api'}
    BY VersionsStep DEF TypeOK
  <1>2. CASE Visiting' /\ a = before' /\ b \in (Versions \cup {before})'
    <2>1. CASE Visiting /\ before' = before
      BY <1>1, <1>2, <2>1, StoredNewest DEF Older, Versions
    <2>2. CASE Begin /\ before' = cache
      <3>1. Versions' = Versions
        BY <2>2 DEF Begin, storeVars, Versions
      <3> QED
        BY <1>2, <2>2, <3>1 DEF Older, Versions
    <2>3. \/ Visiting /\ before' = before
          \/ Begin /\ before' = cache
      <3>1. CASE VMStep
        BY <3>1, VMStepStore DEF Visiting
      <3>2. CASE Begin
        BY <1>2, <3>2, BeginStep DEF Visiting, workerVars
      <3>3. CASE PatchState \/ PatchSpec
        BY <3>3, PatchStep DEF Visiting
      <3>4. CASE PatchStatus \/ Crash
        BY <1>2, <3>4, EndStep DEF Visiting
      <3>5. CASE Deliver \/ SetOwnerRef \/ Delete \/ Outside
        BY <1>2, <3>5, OutsideStep DEF Deliver, SetOwnerRef, Delete, workerVars, Visiting
      <3> QED
        BY <3>1, <3>2, <3>3, <3>4, <3>5, StepKinds
    <2> QED
      BY <2>1, <2>2, <2>3
  <1>3. CASE ~Deliver /\ ~Crash /\ a = cache' /\ b \in Versions'
    <2>1. cache' = cache
      <3>1. CASE VMStep \/ Outside \/ Begin
        BY <3>1, VMStepStore, OutsideStep DEF Begin, storeVars
      <3>2. CASE PatchState \/ PatchSpec \/ PatchStatus \/ SetOwnerRef \/ Delete
        BY <3>2 DEF PatchState, PatchSpec, PatchStatus, SetOwnerRef, Delete, Store, storeVars
      <3> QED
        BY <1>3, <3>1, <3>2, StepKinds
    <2> QED
      BY <1>1, <1>3, <2>1, StoredNewest DEF Older, Versions
  <1>4. CASE Deliver
    <2> USE DeliverVersions
    <2>1. CASE a = cache' /\ b \in Versions'
      <3>1. a = pending[1] /\ api' = api /\ 1 \in 1 .. Len(pending)
        BY <1>4, <2>1
      <3>2. pending[Len(pending)] = api /\ Len(pending) \in 1 .. Len(pending)
        BY <1>1, <3>1 DEF WatchInv
      <3>3. b \in {api, pending[1]} \cup {pending'[i] : i \in 1 .. Len(pending')}
        BY <1>4, <2>1 DEF Versions
      <3>4. \E j \in 1 .. Len(pending) : b = pending[j]
        BY <1>4, <3>1, <3>2, <3>3
      <3> QED
        BY <1>1, <3>1, <3>4 DEF Older
    <2>2. ASSUME NEW i \in 1 .. Len(pending'), NEW j \in 1 .. Len(pending'), i <= j,
                 a = pending'[i], b = pending'[j]
          PROVE  Older(a, b)
      <3>1. /\ i + 1 \in 1 .. Len(pending) /\ j + 1 \in 1 .. Len(pending)
            /\ a = pending[i + 1] /\ b = pending[j + 1] /\ i + 1 <= j + 1
        BY <1>4, <2>2
      <3> QED
        BY <3>1 DEF Older
    <2> QED
      BY <1>2, <2>1, <2>2 DEF Older
  <1>5. CASE Crash
    <2>1. a = api' /\ b = api'
      <3>1. ~Visiting' /\ cache' = api' /\ Len(pending') = 0
        BY <1>5, EndStep DEF Crash, Visiting
      <3>2. \A i, j \in 1 .. Len(pending') : FALSE
        BY <3>1
      <3> QED
        BY <3>1, <3>2 DEF Older, Versions
    <2> QED
      BY <2>1
  <1>6. ASSUME ~Deliver, ~Crash, NEW i \in 1 .. Len(pending'), NEW j \in 1 .. Len(pending'), i <= j,
               a = pending'[i], b = pending'[j]
        PROVE  Older(a, b) \/ (b = api' /\ (a = api' \/ Older(a, api)))
    <2>1. \/ pending' = pending
          \/ /\ Len(pending') = Len(pending) + 1 /\ pending'[Len(pending) + 1] = api'
             /\ \A k \in 1 .. Len(pending) : pending'[k] = pending[k]
      <3>1. ASSUME NEW o \in Object, Store(o)
            PROVE  \/ pending' = pending
                   \/ /\ Len(pending') = Len(pending) + 1 /\ pending'[Len(pending) + 1] = api'
                      /\ \A k \in 1 .. Len(pending) : pending'[k] = pending[k]
        BY <1>1, <3>1, StoreVersions
      <3>2. [api EXCEPT !.owner = TRUE] \in Object /\ [api EXCEPT !.del = TRUE] \in Object
        BY <1>1 DEF Object
      <3>3. CASE VMStep \/ Outside \/ Begin
        BY <3>3, VMStepStore, OutsideStep DEF Begin, storeVars
      <3>4. CASE PatchState \/ PatchSpec \/ PatchStatus
        <4>1. UNCHANGED storeVars \/ Store(MergeSpec) \/ Store(MergeStatus)
          BY <3>4 DEF PatchState, PatchSpec, PatchStatus
        <4> QED
          BY <3>1, <4>1, MergedFields DEF storeVars
      <3>5. CASE SetOwnerRef \/ Delete
        BY <3>1, <3>2, <3>5 DEF SetOwnerRef, Delete
      <3> QED
        BY <1>6, <3>3, <3>4, <3>5, StepKinds
    <2>2. CASE pending' = pending
      BY <1>6, <2>2 DEF Older
    <2>3. CASE /\ Len(pending') = Len(pending) + 1 /\ pending'[Len(pending) + 1] = api'
               /\ \A k \in 1 .. Len(pending) : pending'[k] = pending[k]
      <3>1. CASE j \in 1 .. Len(pending)
        <4>1. i \in 1 .. Len(pending)
          BY <1>1, <1>6, <3>1
        <4> QED
          BY <1>6, <2>3, <3>1, <4>1 DEF Older
      <3>2. CASE j = Len(pending) + 1
        <4>1. i \in 1 .. Len(pending) \/ i = Len(pending) + 1
          BY <1>1, <2>3
        <4>2. a = api' \/ a \in Versions
          BY <1>6, <2>3, <4>1 DEF Versions
        <4> QED
          BY <1>6, <2>3, <3>2, <4>2, StoredNewest
      <3> QED
        BY <1>1, <2>3, <3>1, <3>2
    <2> QED
      BY <2>1, <2>2, <2>3
  <1> QED
    BY <1>2, <1>3, <1>4, <1>5, <1>6 DEF Older

\* The patch of spec keeps the pairs as they should be: what it merges, it
\* merges into an object that has changed at most once since the visit read it.
LEMMA MergeKeepsPairs ==
  ASSUME TypeOK, CopyInv, IDInv, WatchInv, PatchSpec, Store(MergeSpec),
         NEW a \in Versions \cup {before}, NEW b \in Versions \cup {before}, Older(a, b)
  PROVE  PairOK(a, b, api') /\ (Older(a, api) => PairOK(a, api', api')) /\ PairOK(api', api', api')
  <1>1. Visiting /\ api \in Versions
    BY DEF PatchSpec, Visiting, Versions
  <1>2. /\ PairOK(a, b, api) /\ (Older(a, api) => PairOK(a, api, api))
        /\ PairOK(before, a, api) /\ PairOK(before, b, api)
        /\ PairOK(before, before, api) /\ PairOK(before, api, api)
    BY <1>1, StoredNewest DEF IDInv
  <1>3. /\ api'.vmID = IF obj.vmID # before.vmID THEN obj.vmID ELSE api.vmID
        /\ api'.providerID = IF obj.providerID # before.providerID
                             THEN obj.providerID ELSE api.providerID
    BY StoreSpec DEF Merge
  <1>4. CASE obj.vmID = before.vmID /\ obj.providerID \in {before.providerID, Nil}
    <2>1. api'.vmID = api.vmID /\ api'.providerID \in {api.providerID, Nil}
      BY <1>3, <1>4
    <2>2. PairOK(a, b, api') /\ PairOK(api', api', api')
      BY <1>2, <2>1 DEF PairOK, Flipped, Half
    <2>3. ASSUME Older(a, api), a.vmID = Nil
          PROVE  ~Half(api')
      <3>1. ~Half(api) /\ a.providerID = Nil
        BY <1>2, <2>3 DEF PairOK
      <3>2. SUFFICES ASSUME Half(api')
                     PROVE  FALSE
        OBVIOUS
      <3>3. api.vmID # Nil /\ api.providerID # Nil /\ api'.providerID = Nil
        BY <2>1, <3>1, <3>2 DEF Half
      <3>4. before.providerID # Nil
        BY <1>3, <1>4, <3>3
      <3>5. before.vmID # Nil
        BY <1>2, <3>4 DEF PairOK
      <3> QED
        BY <1>2, <2>3, <3>3, <3>5 DEF PairOK, Flipped
    <2> QED
      BY <1>2, <2>1, <2>2, <2>3 DEF PairOK, Flipped
  <1>5. CASE before.vmID = Nil /\ obj.providerID = obj.vmID /\ obj.vmID # Nil
    <2>1. before.providerID = Nil
      BY <1>2, <1>5 DEF PairOK
    <2>2. api'.vmID = obj.vmID /\ api'.providerID = obj.vmID
      BY <1>3, <1>5, <2>1
    <2>3. ~Half(a) /\ ~Half(b)
      BY <1>2, <1>5 DEF PairOK
    <2>4. Flipped(b, api') => Flipped(a, api')
      BY <1>2, <1>5, <2>2 DEF PairOK, Flipped
    <2> QED
      BY <1>2, <1>5, <2>2, <2>3, <2>4 DEF PairOK, Flipped, Half
  <1>6. CASE before.vmID # Nil /\ obj.vmID = Nil /\ obj.providerID = Nil
    <2>1. api'.vmID = Nil /\ api'.providerID = Nil
      BY <1>2, <1>3, <1>6 DEF PairOK, Half
    <2>2. Flipped(b, api') => Flipped(a, api')
      BY <1>2, <1>6, <2>1 DEF PairOK, Flipped
    <2> QED
      BY <1>2, <2>1, <2>2 DEF PairOK, Flipped, Half
  <1>7. CopyIDs
    BY DEF CopyInv
  <1>8. before.vmID = Nil /\ obj.vmID = Nil => before.providerID = Nil
    BY <1>2 DEF PairOK
  <1> QED
    BY <1>4, <1>5, <1>6, <1>7, <1>8 DEF CopyIDs

LEMMA IDStep ==
  ASSUME TypeOK, BaseInv, IDInv, [Next]_vars
  PROVE  IDInv'
  <1> SUFFICES ASSUME NEW a, NEW b, Older(a, b)'
               PROVE  PairOK(a, b, api')
    BY DEF IDInv, PairOK, Flipped, Half
  <1>1. WatchInv /\ CopyInv
    BY DEF BaseInv
  <1>2. Older(a, b) \/ (b = api' /\ (a = api' \/ Older(a, api)))
    BY <1>1, OlderStep
  <1>3. \A c, d : Older(c, d) => c \in Versions \cup {before} /\ d \in Versions \cup {before}
    BY DEF Older, Versions
  <1>4. api \in Versions /\ Older(api, api)
    BY <1>1, StoredNewest DEF Versions
  <1>5. CASE PatchSpec /\ Store(MergeSpec)
    <2>1. CASE Older(a, b)
      BY <1>1, <1>3, <1>5, <2>1, MergeKeepsPairs
    <2>2. CASE b = api' /\ Older(a, api)
      BY <1>1, <1>3, <1>4, <1>5, <2>2, MergeKeepsPairs
    <2>3. CASE b = api' /\ a = api'
      BY <1>1, <1>4, <1>5, <2>3, MergeKeepsPairs
    <2> QED
      BY <1>2, <2>1, <2>2, <2>3
  <1>6. CASE api'.vmID = api.vmID /\ api'.providerID = api.providerID
    <2>1. \A c, d : PairOK(c, d, api) => PairOK(c, d, api')
      BY <1>6 DEF PairOK, Flipped
    <2>2. \A c : PairOK(c, api, api) => PairOK(c, api', api')
      BY <1>6 DEF PairOK, Flipped, Half
    <2>3. PairOK(api, api, api) => PairOK(api', api', api')
      BY <1>6 DEF PairOK, Flipped, Half
    <2>4. CASE Older(a, b)
      BY <1>3, <2>1, <2>4 DEF IDInv
    <2>5. CASE b = api' /\ Older(a, api)
      BY <1>3, <2>2, <2>5 DEF IDInv
    <2>6. CASE b = api' /\ a = api'
      BY <1>4, <2>3, <2>6 DEF IDInv
    <2> QED
      BY <1>2, <2>4, <2>5, <2>6
  <1> QED
    BY <1>1, <1>5, <1>6, StoredStep

\* spec.providerID never names another VM than spec.vmID does, whatever happens:
\* patches computed on stale objects, lost replies, crashes and failed patches
\* included.
THEOREM IDsAgree == Spec => []ProviderIDMatches
  <1>1. Init => IDInv
    <2> SUFFICES ASSUME Init, NEW a, NEW b, Older(a, b)
                 PROVE  PairOK(a, b, api)
      BY DEF IDInv
    <2>1. /\ Created.vmID = Nil /\ Created.providerID = Nil
          /\ Blank.vmID = Nil /\ Blank.providerID = Nil
      BY DEF Created, Blank
    <2>2. /\ api = Created /\ cache = Blank /\ before = Blank
          /\ \A i \in 1 .. Len(pending) : pending[i] = Created
      BY DEF Init
    <2>3. a \in {Created, Blank} /\ b \in {Created, Blank}
      BY <2>2 DEF Older, Versions
    <2> QED
      BY <2>1, <2>2, <2>3 DEF PairOK, Flipped, Half
  <1>2. TypeOK /\ BaseInv /\ IDInv => ProviderIDMatches
    <2> SUFFICES ASSUME TypeOK, BaseInv, IDInv
                 PROVE  ProviderIDMatches
      OBVIOUS
    <2>1. api \in Versions /\ Older(api, api)
      BY StoredNewest DEF BaseInv, Versions
    <2> QED
      BY <2>1 DEF IDInv, PairOK, ProviderIDMatches
  <1> QED
    BY <1>1, <1>2, IDStep, BaseInvariant, TypeCorrect, PTL DEF Spec

-----------------------------------------------------------------------------
(* Leaks.  That each leak needs its own event is not inductive: an event may  *)
(* only lead the worker astray, and the VM is lost by a later step.  InDebt   *)
(* says that an event has been counted whose leak is still to come.           *)

\* The visit acts on a VM id that is not the stored one, or its new VM did not
\* make it into the stored object.
InDebt ==
    \/ Working /\ (before.vmID # api.vmID \/ ~api.exists)
    \/ /\ pc = "patchStatus" /\ obj.vmID # before.vmID /\ obj.vmID # Nil
       /\ ~(api.exists /\ api.vmID = obj.vmID)

LeakInv ==
    /\ IsFiniteSet(Orphans)
    /\ Cardinality(Orphans) + (IF InDebt THEN 1 ELSE 0) <= nUpsets
    /\ upsets \cap LeakKinds = {} => Orphans = {} /\ ~InDebt

\* The object, or a copy on its way to the API server, names the VM.
Named(v) ==
    \/ api.exists /\ api.vmID = v
    \/ obj.vmID = v /\ obj.vmID # before.vmID

LeakEvent == \E k \in LeakKinds : Upset(k)

NoMoreLeaks == Orphans' \subseteq Orphans /\ (InDebt' => InDebt)
DebtIsPaid  == InDebt /\ ~InDebt' /\ \E x : Orphans' \subseteq Orphans \cup {x}
EventLeaks  == /\ LeakEvent
               /\ \/ Orphans' \subseteq Orphans
                  \/ (InDebt' => InDebt) /\ \E x : Orphans' \subseteq Orphans \cup {x}

\* Orphans are the VMs that exist and are not named.
LEMMA OrphansNamed == Orphans = {v \in VMs : Present(v) /\ ~Named(v)}
  BY DEF Orphans, Named

\* No VM appears but by CreateVM.
LEMMA PresentStep ==
  ASSUME TypeOK, [Next]_vars, ~CreateVM, NEW v \in VMs, Present(v)'
  PROVE  Present(v)
  BY VMHistory DEF Present, Gone, TypeOK

\* If every VM that was named stays named, or is gone, no new orphan appears.
LEMMA StillNamed ==
  ASSUME TypeOK, [Next]_vars, ~CreateVM, NEW X,
         \A v \in VMs \ X : Named(v) /\ Present(v)' => Named(v)'
  PROVE  Orphans' \subseteq Orphans \cup X
  BY PresentStep, OrphansNamed DEF Orphans, Named

LEMMA LeakVMStep ==
  ASSUME TypeOK, BaseInv, VMStep
  PROVE  NoMoreLeaks \/ EventLeaks
  <1>1. /\ UNCHANGED <<api, before>> /\ pc \notin {"idle", "patchSpec", "patchStatus"}
        /\ pc' \notin {"idle", "patchStatus"} /\ obj.vmID = before.vmID
        /\ [Next]_vars
    BY VMStepStore DEF BaseInv, CopyInv, storeVars, VMStep, Next, Reconcile
  <1>2. InDebt' => InDebt
    BY <1>1 DEF InDebt, Working
  <1>3. \A v \in VMs : Named(v) => Named(v)'
    BY <1>1 DEF Named
  <1>4. CASE ~CreateVM
    <2>1. Orphans' \subseteq Orphans \cup {}
      BY <1>1, <1>3, <1>4, StillNamed
    <2> QED
      BY <1>2, <2>1 DEF NoMoreLeaks
  <1>5. CASE CreateVM
    <2>1. obj.vmID = Nil /\ power \in [VMs -> {"none", "off", "on", "stopping", "gone"}]
          /\ obj \in Object
      BY <1>5 DEF CreateVM, BaseInv, CopyInv, TypeOK
    <2>2. CASE power' = power
      BY <1>2, <1>3, <2>2 DEF NoMoreLeaks, Orphans, Named, Present
    <2>3. ASSUME NEW v \in VMs, power' = [power EXCEPT ![v] = "off"]
          PROVE  Orphans' \subseteq Orphans \cup {v}
      BY <1>3, <2>1, <2>3 DEF Orphans, Named, Present
    <2>4. ASSUME NEW v \in VMs, power' = [power EXCEPT ![v] = "off"], Return(Adopt(obj, v), "done")
          PROVE  NoMoreLeaks
      <3>1. v # Nil
        BY ConstantsAssumption
      <3>2. obj' = Adopt(obj, v) /\ Adopt(obj, v).vmID = v
        BY <2>1, <2>4 DEF Return, Adopt, Object
      <3>3. Named(v)'
        BY <1>1, <2>1, <3>1, <3>2 DEF Named
      <3> QED
        BY <1>2, <2>3, <2>4, <3>3 DEF NoMoreLeaks, Orphans, Named
    <2>5. ASSUME NEW v \in VMs, power' = [power EXCEPT ![v] = "off"], LoseReply
          PROVE  EventLeaks
      BY <1>2, <2>3, <2>5 DEF EventLeaks, LeakEvent, LeakKinds, LoseReply
    <2> QED
      BY <1>5, <2>2, <2>4, <2>5 DEF CreateVM
  <1> QED
    BY <1>4, <1>5

LEMMA LeakPatchSpec ==
  ASSUME TypeOK, BaseInv, FinalizerInv, PatchSpec
  PROVE  NoMoreLeaks \/ DebtIsPaid \/ EventLeaks
  <1>1. /\ UNCHANGED <<obj, before, power>> /\ pc = "patchSpec" /\ pc' = "patchStatus" /\ Working
        /\ [Next]_vars /\ ~CreateVM
    BY DEF PatchSpec, vmVars, Next, Reconcile, Working, CreateVM
  <1>2. WatchInv /\ CopyInv /\ CopyIDs /\ CopySafe /\ Faithful(before, api) /\ api \in Object /\ obj \in Object
        /\ before \in Object
    BY DEF BaseInv, CopyInv, FinalizerInv, VersionsFaithful, TypeOK
  <1>3. CASE Store(MergeSpec) /\ api.exists
    <2> USE <1>3
    <2>1. /\ api'.vmID = IF obj.vmID # before.vmID THEN obj.vmID ELSE api.vmID
          /\ api'.fin = IF obj.fin # before.fin THEN obj.fin ELSE api.fin
          /\ api'.exists <=> (api.del => api'.fin)
      BY <1>2, StoreSpec DEF Merge
    <2>2. ~InDebt'
      <3>1. CASE obj.vmID # before.vmID /\ obj.vmID # Nil
        <4>1. obj.fin /\ api'.fin
          BY <1>2, <2>1, <3>1 DEF CopySafe, Faithful, Object
        <4> QED
          BY <1>1, <2>1, <3>1, <4>1 DEF InDebt, Working
      <3>2. CASE obj.vmID = before.vmID \/ obj.vmID = Nil
        BY <1>1, <3>2 DEF InDebt, Working
      <3> QED
        BY <3>1, <3>2
    <2>3. \A v \in VMs \ {api.vmID} : Named(v) => Named(v)'
      <3> SUFFICES ASSUME NEW v \in VMs, v # api.vmID, Named(v)
                   PROVE  api'.exists /\ api'.vmID = v
        BY DEF Named
      <3>1. obj.vmID = v /\ obj.vmID # before.vmID /\ v # Nil
        BY ConstantsAssumption DEF Named
      <3>2. obj.fin /\ api'.fin
        BY <1>2, <2>1, <3>1 DEF CopySafe, Faithful, Object
      <3> QED
        BY <2>1, <3>1, <3>2
    <2>4. Orphans' \subseteq Orphans \cup {api.vmID}
      BY <1>1, <2>3, StillNamed
    <2>5. CASE InDebt
      BY <2>2, <2>4, <2>5 DEF DebtIsPaid
    <2>6. CASE ~InDebt
      <3>1. api.vmID = before.vmID
        BY <1>1, <2>6 DEF InDebt
      <3>2. ASSUME api.vmID \in VMs, ~(api'.exists /\ api'.vmID = api.vmID)
            PROVE  Gone(api.vmID)
        <4>1. before.vmID # Nil /\ api.fin
          BY <3>1, <3>2, ConstantsAssumption DEF FinalizerInv, FinalizerHeld
        <4>2. CASE api'.vmID # api.vmID
          BY <1>2, <2>1, <3>1, <4>1, <4>2 DEF CopyIDs
        <4>3. CASE ~api'.exists
          <5>1. before.fin /\ ~obj.fin
            BY <1>2, <2>1, <4>1, <4>3 DEF Object, Faithful
          <5> QED
            BY <1>2, <3>1, <4>1, <5>1 DEF CopyInv
        <4> QED
          BY <3>2, <4>2, <4>3
      <3>3. api.vmID \notin Orphans'
        BY <1>1, <3>2 DEF Orphans, Present, Gone
      <3>4. Orphans' \subseteq Orphans
        BY <2>4, <3>3
      <3> QED
        BY <2>2, <3>4 DEF NoMoreLeaks
    <2> QED
      BY <2>5, <2>6
  <1>4. CASE UNCHANGED storeVars
    <2>1. Orphans' \subseteq Orphans
      BY <1>1, <1>4 DEF Orphans, Present, storeVars
    <2>2. CASE ~SpecDiff
      <3>1. obj.vmID = before.vmID
        BY <2>2 DEF SpecDiff
      <3> QED
        BY <1>1, <2>1, <3>1 DEF NoMoreLeaks, InDebt, Working
    <2>3. CASE ~api.exists
      BY <1>1, <2>1, <2>3 DEF NoMoreLeaks, InDebt
    <2>4. CASE Upset("patch")
      BY <2>1, <2>4 DEF EventLeaks, LeakEvent, LeakKinds
    <2>5. CASE Store(MergeSpec) /\ api.exists
      BY <1>3, <2>5
    <2> QED
      BY <2>2, <2>3, <2>4, <2>5 DEF PatchSpec
  <1> QED
    BY <1>3, <1>4 DEF PatchSpec

LEMMA LeakPatchStatus ==
  ASSUME TypeOK, BaseInv, FinalizerInv, PatchStatus
  PROVE  NoMoreLeaks \/ DebtIsPaid \/ EventLeaks
  <1>1. /\ pc = "patchStatus" /\ pc' = "idle" /\ obj' = Blank /\ before' = Blank /\ power' = power
        /\ [Next]_vars /\ ~CreateVM
    BY EndStep DEF PatchStatus, vmVars, Next, Reconcile, CreateVM
  <1>2. ~InDebt'
    BY <1>1 DEF InDebt, Working
  <1>3. api'.vmID = api.vmID /\ api'.exists = api.exists
    BY <1>1, StoredStep DEF BaseInv, PatchSpec, Delete, PatchStatus, Finish, Idle, workerVars
  <1>4. \A v \in VMs \ {obj.vmID} : Named(v) => Named(v)'
    BY <1>3 DEF Named
  <1>5. Orphans' \subseteq Orphans \cup {obj.vmID}
    BY <1>1, <1>4, StillNamed
  <1>6. CASE InDebt
    BY <1>2, <1>5, <1>6 DEF DebtIsPaid
  <1>7. CASE ~InDebt
    <2>1. obj.vmID \in VMs /\ Named(obj.vmID) => api.exists /\ api.vmID = obj.vmID
      BY <1>1, <1>7, ConstantsAssumption DEF InDebt, Named
    <2>2. obj.vmID \in VMs /\ Named(obj.vmID) => obj.vmID \notin Orphans'
      BY <1>3, <2>1 DEF Orphans
    <2>3. obj.vmID \in Orphans' => obj.vmID \in Orphans
      BY <1>1, <2>2, OrphansNamed DEF Orphans, Present
    <2> QED
      BY <1>2, <1>5, <2>3 DEF NoMoreLeaks
  <1> QED
    BY <1>6, <1>7

\* Every step leaks nothing, or pays a debt, or is an event that may leak one VM
\* now or leave a debt.
LEMMA LeakKindsOfSteps ==
  ASSUME TypeOK, BaseInv, FinalizerInv, [Next]_vars
  PROVE  NoMoreLeaks \/ DebtIsPaid \/ EventLeaks
  <1>1. WatchInv /\ CopyInv
    BY DEF BaseInv
  <1>2. CASE VMStep
    BY <1>2, LeakVMStep
  <1>3. CASE PatchSpec
    BY <1>3, LeakPatchSpec
  <1>4. CASE PatchStatus
    BY <1>4, LeakPatchStatus
  <1>5. CASE PatchState
    <2>1. /\ UNCHANGED <<obj, before, power>> /\ Working /\ pc' # "patchStatus" /\ ~CreateVM /\ ~PatchSpec /\ ~Delete
      BY <1>5, PatchStep DEF PatchState, vmVars, Working, CreateVM, PatchSpec, Delete, workerVars, Goto, Return, LoseReply
    <2>2. api'.vmID = api.vmID /\ api'.exists = api.exists
      BY <1>1, <2>1, StoredStep
    <2> QED
      BY <2>1, <2>2 DEF NoMoreLeaks, Orphans, Present, InDebt, Working
  <1>6. CASE Crash
    <2>1. /\ pc' = "idle" /\ obj' = Blank /\ before' = Blank /\ power' = power /\ api' = api
          /\ Upset("crash") /\ ~CreateVM
      BY <1>6, EndStep DEF Crash, vmVars, CreateVM, Return, LoseReply, CallFails
    <2>2. ~InDebt' /\ LeakEvent
      BY <2>1 DEF InDebt, Working, LeakEvent, LeakKinds
    <2>3. \A v \in VMs \ {obj.vmID} : Named(v) => Named(v)'
      BY <2>1 DEF Named
    <2>4. Orphans' \subseteq Orphans \cup {obj.vmID}
      BY <2>1, <2>3, StillNamed
    <2> QED
      BY <2>2, <2>4 DEF EventLeaks
  <1>7. CASE Begin
    <2>1. pc = "idle" /\ obj = Blank /\ before = Blank /\ UNCHANGED <<api, power>>
          /\ Blank.vmID = Nil
      BY <1>1, <1>7 DEF Begin, CopyInv, storeVars, vmVars, Blank
    <2>2. Orphans' \subseteq Orphans
      BY <1>7, <2>1, BeginStep DEF Orphans, Present, workerVars
    <2>3. CASE UNCHANGED workerVars
      BY <2>1, <2>2, <2>3 DEF NoMoreLeaks, InDebt, Working, workerVars
    <2>4. CASE pending # <<>> /\ ~UNCHANGED workerVars
      <3>1. Upset("stale")
        BY <1>7, <2>4 DEF Begin
      <3> QED
        BY <2>2, <3>1 DEF EventLeaks, LeakEvent, LeakKinds
    <2>5. CASE pending = <<>> /\ ~UNCHANGED workerVars
      <3>1. before' = api /\ obj' = api /\ api.exists /\ api' = api /\ pc' # "patchStatus"
        BY <1>1, <1>7, <2>1, <2>5, BeginStep DEF WatchInv
      <3> QED
        BY <2>2, <3>1 DEF NoMoreLeaks, InDebt
    <2> QED
      BY <2>3, <2>4, <2>5
  <1>8. CASE Deliver \/ SetOwnerRef \/ Delete \/ Outside
    <2>1. UNCHANGED workerVars
      BY <1>8, OutsideStep DEF Deliver, SetOwnerRef, Delete
    <2>2. UNCHANGED <<pc, obj, before>>
      BY <2>1 DEF workerVars
    <2>3. ~CreateVM /\ ~PatchSpec
      BY <2>2 DEF CreateVM, PatchSpec, Return, LoseReply, CallFails
    <2>4. api'.vmID = api.vmID
      BY <1>1, <2>3, StoredStep
    <2>5. CASE api'.exists = api.exists
      <3>1. \A v \in VMs : Named(v) => Named(v)'
        BY <2>2, <2>4, <2>5 DEF Named
      <3>2. Orphans' \subseteq Orphans \cup {}
        BY <2>3, <3>1, StillNamed
      <3> QED
        BY <2>2, <2>4, <2>5, <3>2 DEF NoMoreLeaks, InDebt, Working
    <2>6. CASE Delete /\ ~api.fin /\ Upset("earlyDelete")
      <3>1. api.vmID = Nil
        BY <2>6 DEF Delete, FinalizerInv, FinalizerHeld
      <3>2. \A v \in VMs : Named(v) => Named(v)'
        BY <2>2, <3>1, ConstantsAssumption DEF Named
      <3>3. Orphans' \subseteq Orphans \cup {}
        BY <2>3, <3>2, StillNamed
      <3> QED
        BY <2>6, <3>3 DEF EventLeaks, LeakEvent, LeakKinds
    <2> QED
      BY <1>1, <2>3, <2>5, <2>6, StoredStep
  <1> QED
    BY <1>2, <1>3, <1>4, <1>5, <1>6, <1>7, <1>8, StepKinds


\* Each event pays for one orphan or one debt.
LEMMA LeakStep ==
  ASSUME TypeOK, BaseInv, FinalizerInv, LeakInv, [Next]_vars
  PROVE  LeakInv'
  <1>1. /\ IsFiniteSet(Orphans) /\ Cardinality(Orphans) \in Nat /\ nUpsets \in Nat
        /\ Cardinality(Orphans) + (IF InDebt THEN 1 ELSE 0) <= nUpsets
        /\ upsets \cap LeakKinds = {} => Orphans = {} /\ ~InDebt
    BY FS_CardinalityType DEF LeakInv, TypeOK
  <1>2. /\ upsets \subseteq upsets' /\ nUpsets' \in Nat /\ nUpsets <= nUpsets'
    BY HistoryGrows
  <1>3. ASSUME Orphans' \subseteq Orphans
        PROVE  /\ IsFiniteSet(Orphans') /\ Cardinality(Orphans') \in Nat
               /\ Cardinality(Orphans') <= Cardinality(Orphans)
    BY <1>1, <1>3, FS_Subset, FS_CardinalityType
  <1>4. ASSUME NEW x, Orphans' \subseteq Orphans \cup {x}
        PROVE  /\ IsFiniteSet(Orphans') /\ Cardinality(Orphans') \in Nat
               /\ Cardinality(Orphans') <= Cardinality(Orphans) + 1
    <2>1. /\ IsFiniteSet(Orphans \cup {x})
          /\ Cardinality(Orphans \cup {x}) \in {Cardinality(Orphans), Cardinality(Orphans) + 1}
      BY <1>1, FS_AddElement
    <2>2. /\ IsFiniteSet(Orphans')
          /\ Cardinality(Orphans') <= Cardinality(Orphans \cup {x})
      BY <1>4, <2>1, FS_Subset
    <2> QED
      BY <1>1, <2>1, <2>2, FS_CardinalityType
  <1>5. LeakEvent => nUpsets' = nUpsets + 1 /\ upsets' \cap LeakKinds # {}
    BY DEF LeakEvent, Upset
  <1> DEFINE Debt  == IF InDebt THEN 1 ELSE 0
             DebtN == IF InDebt' THEN 1 ELSE 0
  <1>6. CASE NoMoreLeaks
    <2>1. Debt \in {0, 1} /\ DebtN \in {0, 1} /\ DebtN <= Debt
      BY <1>6 DEF NoMoreLeaks
    <2>2. /\ IsFiniteSet(Orphans') /\ Cardinality(Orphans') + DebtN <= nUpsets'
      BY <1>1, <1>2, <1>3, <1>6, <2>1 DEF NoMoreLeaks
    <2>3. upsets' \cap LeakKinds = {} => Orphans' = {} /\ ~InDebt'
      BY <1>1, <1>2, <1>6 DEF NoMoreLeaks
    <2> QED
      BY <2>2, <2>3 DEF LeakInv
  <1>7. CASE DebtIsPaid
    <2>1. /\ IsFiniteSet(Orphans') /\ Cardinality(Orphans') + DebtN <= nUpsets'
      BY <1>1, <1>2, <1>4, <1>7 DEF DebtIsPaid
    <2>2. upsets' \cap LeakKinds # {}
      BY <1>1, <1>2, <1>7 DEF DebtIsPaid
    <2> QED
      BY <2>1, <2>2 DEF LeakInv
  <1>8. CASE EventLeaks
    <2>1. nUpsets' = nUpsets + 1 /\ upsets' \cap LeakKinds # {}
      BY <1>5, <1>8 DEF EventLeaks
    <2>2. Debt \in {0, 1} /\ DebtN \in {0, 1}
      OBVIOUS
    <2>3. CASE Orphans' \subseteq Orphans
      <3>1. IsFiniteSet(Orphans') /\ Cardinality(Orphans') + DebtN <= nUpsets'
        BY <1>1, <1>3, <2>1, <2>2, <2>3
      <3> QED
        BY <2>1, <3>1 DEF LeakInv
    <2>4. CASE (InDebt' => InDebt) /\ \E x : Orphans' \subseteq Orphans \cup {x}
      <3>1. DebtN <= Debt
        BY <2>4
      <3>2. IsFiniteSet(Orphans') /\ Cardinality(Orphans') + DebtN <= nUpsets'
        BY <1>1, <1>4, <2>1, <2>2, <2>4, <3>1
      <3> QED
        BY <2>1, <3>2 DEF LeakInv
    <2> QED
      BY <1>8, <2>3, <2>4 DEF EventLeaks
  <1> QED
    BY <1>6, <1>7, <1>8, LeakKindsOfSteps

LEMMA LeakInvariant == Spec => []LeakInv
  <1>1. Init => LeakInv
    <2> SUFFICES ASSUME Init
                 PROVE  LeakInv
      OBVIOUS
    <2>1. Orphans = {} /\ ~InDebt /\ nUpsets = 0
      BY DEF Init, Orphans, Present, InDebt, Working
    <2>2. IsFiniteSet({}) /\ Cardinality({}) = 0
      BY FS_EmptySet
    <2> QED
      BY <2>1, <2>2 DEF LeakInv
  <1> QED
    BY <1>1, LeakStep, BaseInvariant, FinalizerInvariant, TypeCorrect, PTL DEF Spec

\* Without a crash, a lost reply, a failed patch, a stale read or a deletion that
\* overtakes the finalizer no VM is ever left without an object that names it,
\* however vmrest calls fail and VMs vanish, stop or are slow to.
THEOREM NothingLeaks == Spec => []NoLeak
  <1>1. LeakInv => NoLeak
    BY DEF LeakInv, NoLeak
  <1> QED
    BY <1>1, LeakInvariant, PTL

\* Whatever happens, there are at most as many leaked VMs as adverse events.
THEOREM LeaksAreBounded == Spec => []LeaksBounded
  <1>1. TypeOK /\ LeakInv => LeaksBounded
    BY FS_CardinalityType DEF LeakInv, LeaksBounded, TypeOK
  <1> QED
    BY <1>1, LeakInvariant, TypeCorrect, PTL

-----------------------------------------------------------------------------
(* The contract.                                                             *)

\* Before the first event that may leak a VM, a VM that exists is the one that
\* the stored object names, or was cloned by the visit that is about to store it.
LEMMA OnlyOneAlive ==
  ASSUME TypeOK, BaseInv, LeakInv, upsets \cap LeakKinds = {},
         NEW v \in VMs, Present(v)
  PROVE  /\ api.exists
         /\ \/ api.vmID = v
            \/ pc = "patchSpec" /\ obj.vmID = v /\ before.vmID = Nil /\ api.vmID = Nil
  <1>1. v \notin Orphans /\ ~InDebt /\ v # Nil
    BY ConstantsAssumption DEF LeakInv
  <1>2. Named(v)
    BY <1>1, OrphansNamed
  <1>3. CASE api.exists /\ api.vmID = v
    BY <1>3
  <1>4. CASE obj.vmID = v /\ obj.vmID # before.vmID
    <2>1. before.vmID = Nil /\ pc \in {"patchSpec", "patchStatus"}
      BY <1>1, <1>4 DEF BaseInv, CopyInv, CopyIDs
    <2>2. CASE pc = "patchSpec"
      BY <1>1, <1>4, <2>1, <2>2 DEF InDebt, Working
    <2>3. CASE pc = "patchStatus"
      BY <1>1, <1>4, <2>3 DEF InDebt
    <2> QED
      BY <2>1, <2>2, <2>3
  <1> QED
    BY <1>2, <1>3, <1>4 DEF Named

LEMMA CloneStep ==
  ASSUME TypeOK, BaseInv, LeakInv, CreateVM, upsets' \cap LeakKinds = {},
         upsets \cap LeakKinds = {}
  PROVE  Contract!Clone \/ UNCHANGED Contract!vars
  <1>1. UNCHANGED <<storeVars, capi, before>> /\ pc = "createVM"
    BY VMStepStore DEF VMStep, CreateVM
  <1>2. ~\E v \in VMs : Present(v)
    <2>1. ~InDebt /\ Working /\ obj.vmID = Nil /\ obj.vmID = before.vmID
      BY <1>1 DEF LeakInv, Working, BaseInv, CopyInv
    <2>2. api.vmID = Nil /\ obj.vmID = Nil
      BY <2>1 DEF InDebt
    <2> QED
      BY <2>2, OnlyOneAlive, ConstantsAssumption
  <1>3. CASE power' = power
    <2>1. UNCHANGED <<api, power>>
      BY <1>1, <1>3 DEF storeVars
    <2> QED
      BY <2>1 DEF Contract!vars, Present
  <1>4. ASSUME NEW v \in VMs, power[v] = "none", power' = [power EXCEPT ![v] = "off"]
        PROVE  Contract!Clone
    <2>1. power \in [VMs -> {"none", "off", "on", "stopping", "gone"}]
      BY DEF TypeOK
    <2>2. {x \in VMs : power'[x] # "none"} = {x \in VMs : power[x] # "none"} \cup {v}
      BY <1>4, <2>1
    <2>3. {x \in VMs : power'[x] \in {"off", "on", "stopping"}} = {v}
      BY <1>2, <1>4, <2>1 DEF Present
    <2>4. {x \in VMs : Present(x)} = {} /\ v \in VMs \ {x \in VMs : power[x] # "none"}
      BY <1>2, <1>4
    <2>5. api.exists /\ api' = api
      BY <1>1 DEF LeakInv, InDebt, Working, storeVars
    <2> QED
      BY <2>2, <2>3, <2>4, <2>5 DEF Contract!Clone, Present
  <1> QED
    BY <1>3, <1>4 DEF CreateVM, LoseReply, Upset, LeakKinds

\* A step that leaves the stored ids alone at most destroys the one VM.
LEMMA DestroyStep ==
  ASSUME TypeOK, BaseInv, LeakInv, upsets \cap LeakKinds = {}, [Next]_vars, ~CreateVM,
         api'.vmID = api.vmID, api'.exists = api.exists
  PROVE  Contract!Destroy \/ UNCHANGED Contract!vars
  <1> DEFINE live == {x \in VMs : Present(x)}
             used == {x \in VMs : power[x] # "none"}
  <1>1. {x \in VMs : power'[x] # "none"} = used
    BY VMHistory
  <1>2. \A v, w \in live : v = w
    BY OnlyOneAlive, ConstantsAssumption
  <1>3. live' \subseteq live
    BY PresentStep
  <1>4. CASE live' = live
    BY <1>1, <1>4 DEF Contract!vars
  <1>5. CASE live' # live
    <2>1. live' = {} /\ live # {}
      BY <1>2, <1>3, <1>5
    <2> QED
      BY <1>1, <2>1 DEF Contract!Destroy
  <1> QED
    BY <1>4, <1>5

\* The patch of spec makes the object name the new VM, let go of a VM that is
\* gone, or vanish when there is none left.
LEMMA HoldStep ==
  ASSUME TypeOK, BaseInv, FinalizerInv, LeakInv, upsets \cap LeakKinds = {},
         upsets' \cap LeakKinds = {}, LeakInv',
         PatchSpec, api.exists, Store(MergeSpec)
  PROVE  Contract!Next \/ UNCHANGED Contract!vars
  <1>1. /\ UNCHANGED <<obj, before, power>> /\ pc = "patchSpec" /\ pc' = "patchStatus" /\ Working
        /\ ~InDebt /\ ~InDebt' /\ api.vmID = before.vmID
    BY PatchStep DEF vmVars, Working, LeakInv, InDebt
  <1>2. /\ WatchInv /\ CopyInv /\ CopyIDs /\ api \in Object /\ obj \in Object /\ before \in Object
        /\ Faithful(before, api)
        /\ obj.vmID # Nil => power[obj.vmID] # "none"
    BY DEF BaseInv, CopyInv, TypeOK, FinalizerInv, VersionsFaithful, KnownInv
  <1>3. /\ api'.vmID = IF obj.vmID # before.vmID THEN obj.vmID ELSE api.vmID
        /\ api'.fin = IF obj.fin # before.fin THEN obj.fin ELSE api.fin
        /\ api'.exists <=> (api.del => api'.fin)
    BY <1>2, StoreSpec DEF Merge
  <1> DEFINE live == {x \in VMs : Present(x)}
             used == {x \in VMs : power[x] # "none"}
  <1>4. live' = live /\ used' = used
    BY <1>1 DEF Present
  <1>5. api.exists \in BOOLEAN /\ api'.exists \in BOOLEAN /\ api.exists
    BY TypeStep, <1>2 DEF Next, Reconcile, TypeOK, Object
  <1>6. CASE obj.vmID # before.vmID /\ obj.vmID # Nil
    <2>1. api'.exists /\ api'.vmID = obj.vmID
      BY <1>1, <1>6 DEF InDebt
    <2>2. before.vmID = Nil /\ obj.vmID \in VMs
      BY <1>2, <1>6 DEF CopyIDs, Object
    <2>3. live \subseteq {obj.vmID} /\ obj.vmID \in used
      BY <1>1, <1>2, <2>2, OnlyOneAlive, ConstantsAssumption
    <2> QED
      BY <1>4, <1>5, <2>1, <2>3 DEF Contract!Next, Contract!Hold
  <1>7. CASE obj.vmID # before.vmID /\ obj.vmID = Nil
    <2>1. Gone(api.vmID) /\ api'.vmID = Nil
      BY <1>1, <1>2, <1>3, <1>7 DEF CopyIDs
    <2>2. live = {}
      BY <1>7, <2>1, OnlyOneAlive, ConstantsAssumption DEF Gone, Present
    <2>3. CASE api'.exists
      BY <1>4, <1>5, <2>1, <2>2, <2>3 DEF Contract!Next, Contract!Release
    <2>4. CASE ~api'.exists
      BY <1>4, <1>5, <2>1, <2>2, <2>4 DEF Contract!Next, Contract!End
    <2> QED
      BY <2>3, <2>4
  <1>8. CASE obj.vmID = before.vmID
    <2>1. api'.vmID = api.vmID
      BY <1>3, <1>8
    <2>2. CASE api'.exists
      BY <1>4, <1>5, <2>1, <2>2 DEF Contract!vars
    <2>3. CASE ~api'.exists
      <3>1. before.fin /\ ~obj.fin
        BY <1>2, <1>3, <1>5, <2>3 DEF Object, WatchInv
      <3>2. api.vmID # Nil => Gone(api.vmID)
        BY <1>1, <1>2, <3>1 DEF CopyInv
      <3>3. live = {}
        BY <1>8, <3>2, OnlyOneAlive, ConstantsAssumption DEF Gone, Present
      <3> QED
        BY <1>4, <1>5, <2>1, <2>3, <3>3 DEF Contract!Next, Contract!End
    <2> QED
      BY <2>2, <2>3
  <1> QED
    BY <1>6, <1>7, <1>8

\* Until the first event that may leak a VM, every step of the controller, of
\* vmrest and of users is a step that OneVM allows, or none at all.
THEOREM KeepsToOneVM == Spec => ImplementsOneVM
  <1>1. Init => Contract!Init
    BY DEF Init, Contract!Init, Created, Blank, Present
  <1>2. ASSUME TypeOK, BaseInv, FinalizerInv, LeakInv, [Next]_vars, upsets' \cap LeakKinds = {}
        PROVE  Contract!Next \/ UNCHANGED Contract!vars
    <2>1. upsets \cap LeakKinds = {} /\ LeakInv' /\ WatchInv
      BY <1>2, HistoryGrows, LeakStep DEF BaseInv
    <2>2. CASE CreateVM
      BY <1>2, <2>1, <2>2, CloneStep DEF Contract!Next
    <2>3. CASE ~CreateVM /\ api'.vmID = api.vmID /\ api'.exists = api.exists
      BY <1>2, <2>1, <2>3, DestroyStep DEF Contract!Next
    <2>4. CASE PatchSpec /\ SpecDiff /\ api.exists /\ Store(MergeSpec)
      BY <1>2, <2>1, <2>4, HoldStep
    <2>5. ~Upset("earlyDelete")
      BY <1>2 DEF Upset, LeakKinds
    <2> QED
      BY <1>2, <2>1, <2>2, <2>3, <2>4, <2>5, StoredStep
  <1>3. TypeOK /\ BaseInv /\ FinalizerInv /\ LeakInv /\ [Next]_vars
          => [upsets' \cap LeakKinds = {} => [Contract!Next]_(Contract!vars)]_vars
    BY <1>2
  <1> QED
    BY <1>1, <1>3, LeakInvariant, BaseInvariant, FinalizerInvariant, TypeCorrect, PTL
    DEF Spec, ImplementsOneVM

-----------------------------------------------------------------------------
(* The configuration that status records.                                    *)

\* The parts that are written to the VM.
Real == Parts \ {"vncRead"}

\* The steps of reconcileNormal after the gate.
Configuring ==
    { "createVM", "hardware", "adapters", "ipam", "folders", "vnc", "bootstrap", "powerOn",
      "addresses" }

\* Until the calls of reconcileNormal the private copy has the configuration the
\* visit read; a visit that has no VM records nothing; and no record is dropped
\* but that of the hardware, by a new clone.
CopyCfgInv ==
    /\ pc \in {"getPowerState", "patchState"} => obj.cfg = before.cfg
    /\ before.vmID = Nil => obj.cfg \subseteq before.cfg
    /\ \A p \in before.cfg \ obj.cfg : p = "hardware" /\ before.vmID = Nil /\ ~before.del
    /\ pc \in Configuring => ~before.del

\* VM v has part p, or there is nothing to have.
Has(v, p) == (p = "adapters" /\ ~HasNetwork) \/ (v \in VMs /\ p \in configured[v])

\* Some VM has part p, or there is nothing to have.
Applied(p) ==
    \/ p = "adapters" /\ ~HasNetwork
    \/ \E v \in VMs : p \in configured[v]

\* What status records was written to some VM.
AppliedInv == \A w \in Versions \cup {before, obj} : \A p \in w.cfg \cap Real : Applied(p)

\* The configuration c is recorded for VM v, which has it.
CfgTrue(c, v) == \A p \in c \cap Real : v # Nil /\ Has(v, p) /\ (p = "bootstrap" => HasNetwork)

\* What the worker has recorded before it calls the handler of each step.
Needs ==
    [ adapters |-> {"hardware"}, ipam |-> {"hardware", "adapters"},
      folders |-> {"hardware", "adapters"}, vnc |-> {"hardware", "adapters", "folders"},
      bootstrap |-> {"hardware", "adapters", "folders", "vnc"}, powerOn |-> Real ]

Prepared(v) == Real \subseteq configured[v]

\* VMs that run, or are to be powered off, are prepared.
RunningPrepared ==
    /\ \A v \in VMs : power[v] \in {"on", "stopping"} => Prepared(v)
    /\ pc \in {"patchState", "dispatch"} /\ obj.vmID # Nil /\ obj.state # "poweredOff"
          => Prepared(obj.vmID)
    /\ pc = "powerOff" => Prepared(obj.vmID)

\* Neither has a stale object been read nor has a VM vanished.
Calm == upsets \cap {"stale", "vmGone"} = {}

\* Only VMs of objects that are being deleted are gone.
GoneDeleted ==
    /\ \A w \in {before, obj} : w.vmID # Nil /\ Gone(w.vmID) => w.del
    /\ api.exists /\ api.vmID # Nil /\ Gone(api.vmID) => api.del

\* The stored configuration is the one the visit read until it is patched, and
\* the patch before that put one of the visit's VM ids into the stored object.
SameRead ==
    /\ Visiting => api.cfg = before.cfg
    /\ pc = "patchStatus" => api.vmID \in {before.vmID, obj.vmID}

\* An object that is not being deleted only records what its own VM has.
TrueCfg ==
    /\ api.exists /\ ~api.del => CfgTrue(api.cfg, api.vmID)
    /\ ~before.del => CfgTrue(before.cfg, before.vmID) /\ CfgTrue(obj.cfg, obj.vmID)

NeedsMet == pc \in DOMAIN Needs => Needs[pc] \subseteq obj.cfg

ConfigInv == Calm => GoneDeleted /\ SameRead /\ TrueCfg /\ NeedsMet /\ RunningPrepared

\* The VM has the parts ps that a step records, and bootstrap data is only
\* recorded for a VM with a network.
Records(ps) ==
    /\ obj'.cfg = obj.cfg \cup ps /\ obj'.vmID = obj.vmID /\ obj.vmID \in VMs
    /\ pc \in Configuring
    /\ \A p \in ps \cap Real : /\ (p = "adapters" /\ ~HasNetwork) \/ p \in configured'[obj.vmID]
                               /\ p = "bootstrap" => HasNetwork

\* What a step that talks to vmrest records.
LEMMA VMStepCfg ==
  ASSUME TypeOK, CopyInv, VMStep
  PROVE  /\ \/ obj'.cfg = obj.cfg
            \/ obj'.cfg = obj.cfg \ {"hardware"} /\ \E v \in VMs : Adopts(v)
            \/ \E ps \in SUBSET Parts : Records(ps)
         /\ pc' \in Configuring => pc \in Configuring \/ ~obj.del
         /\ obj'.cfg # obj.cfg => pc \in Configuring
         /\ obj'.del = obj.del
  <1>1. /\ obj \in Object /\ configured \in [VMs -> SUBSET Parts]
        /\ obj.vmID # Nil => obj.vmID \in VMs
        /\ pc \in HasVMAt => obj.vmID # Nil
    BY DEF TypeOK, Object, CopyInv
  <1>2. /\ \A ps : /\ Record(ps).vmID = obj.vmID /\ Record(ps).cfg = obj.cfg \cup ps
                   /\ Record(ps).del = obj.del
        /\ \A x : /\ [obj EXCEPT !.state = x].cfg = obj.cfg
                  /\ [obj EXCEPT !.addresses = x].cfg = obj.cfg
                  /\ [obj EXCEPT !.providerID = x].cfg = obj.cfg
                  /\ [obj EXCEPT !.state = x].del = obj.del
                  /\ [obj EXCEPT !.addresses = x].del = obj.del
                  /\ [obj EXCEPT !.providerID = x].del = obj.del
    BY <1>1 DEF Record, Object
  <1>3. /\ RemoveFinalizer(obj).cfg = obj.cfg /\ AddFinalizer(obj).cfg = obj.cfg
        /\ Forget(obj).cfg = obj.cfg
        /\ RemoveFinalizer(obj).del = obj.del /\ AddFinalizer(obj).del = obj.del
        /\ Forget(obj).del = obj.del
    BY <1>1 DEF RemoveFinalizer, AddFinalizer, Forget, Object
  <1> USE DEF Goto, Return, LoseReply, CallFails, VMCallFails, Following, Configuring
  <1>4. CASE GetPowerState
    BY <1>2, <1>3, <1>4 DEF GetPowerState
  <1>5. CASE Dispatch
    BY <1>3, <1>5 DEF Dispatch, DispatchDelete, DispatchNormal
  <1>6. CASE CreateVM
    <2>1. ASSUME NEW v \in VMs, Return(Adopt(obj, v), "done"), power[v] = "none",
                 power' = [power EXCEPT ![v] = "off"]
          PROVE  /\ obj'.cfg = obj.cfg \ {"hardware"} /\ obj'.del = obj.del
                 /\ Adopts(v)
      BY <1>1, <1>6, <2>1 DEF CreateVM, Adopts, Adopt, Object
    <2> QED
      BY <1>6, <2>1 DEF CreateVM
  <1>7. CASE Hardware
    <2>1. CASE Apply("hardware") /\ obj' = Record({"hardware"}) /\ pc' = "adapters"
      BY <1>1, <1>2, <1>7, <2>1 DEF Hardware, Apply, Records, HasVMAt, Parts, Real
    <2> QED
      BY <1>7, <2>1 DEF Hardware
  <1>8. CASE Adapters
    <2>1. CASE /\ obj' = Record({"adapters"}) /\ pc' \in {"ipam", "patchSpec"}
               /\ configured' = configured
               /\ ~HasNetwork \/ "adapters" \in configured[obj.vmID]
      BY <1>1, <1>2, <1>8, <2>1 DEF Adapters, Records, HasVMAt, Parts, Real
    <2> QED
      BY <1>8, <2>1 DEF Adapters
  <1>9. CASE NetworkAddresses
    BY <1>9 DEF NetworkAddresses
  <1>10. CASE SharedFolders
    <2>1. CASE /\ obj' = Record({"folders"}) /\ pc' = "vnc"
               /\ configured' = configured /\ "folders" \in configured[obj.vmID]
      BY <1>1, <1>2, <1>10, <2>1 DEF SharedFolders, Records, HasVMAt, Parts, Real
    <2> QED
      BY <1>10, <2>1 DEF SharedFolders
  <1>11. CASE Vnc
    <2>1. CASE /\ obj' = Record({"vncRead"} \cup (configured[obj.vmID] \cap {"vnc"}))
               /\ pc' = "patchSpec" /\ configured' = configured
      <3> DEFINE ps == {"vncRead"} \cup (configured[obj.vmID] \cap {"vnc"})
      <3>1. ps \in SUBSET Parts /\ \A p \in ps \cap Real : p = "vnc" /\ p \in configured[obj.vmID]
        BY DEF Parts, Real
      <3>2. obj'.cfg = obj.cfg \cup ps /\ obj'.vmID = obj.vmID /\ obj'.del = obj.del
        BY <1>2, <2>1
      <3>3. obj.vmID \in VMs /\ pc = "vnc"
        BY <1>1, <1>11 DEF Vnc, HasVMAt
      <3> HIDE DEF ps
      <3>4. Records(ps)
        BY <2>1, <3>1, <3>2, <3>3 DEF Records
      <3> QED
        BY <2>1, <3>1, <3>2, <3>3, <3>4
    <2>2. CASE Apply("vnc") /\ obj' = Record({"vnc"}) /\ pc' = "bootstrap"
      BY <1>1, <1>2, <1>11, <2>2 DEF Vnc, Apply, Records, HasVMAt, Parts, Real
    <2> QED
      BY <1>11, <2>1, <2>2 DEF Vnc
  <1>12. CASE Bootstrap
    <2>1. CASE Apply("bootstrap") /\ obj' = Record({"bootstrap"}) /\ pc' = "powerOn" /\ HasNetwork
      BY <1>1, <1>2, <1>12, <2>1 DEF Bootstrap, Apply, Records, HasVMAt, Parts, Real
    <2> QED
      BY <1>12, <2>1 DEF Bootstrap, BootstrapPanics
  <1>13. CASE PowerOn
    <2>1. obj' \in { obj, [obj EXCEPT !.state = "poweredOn"], [obj EXCEPT !.providerID = Nil] }
      BY <1>13 DEF PowerOn
    <2>2. obj'.cfg = obj.cfg /\ obj'.del = obj.del
      BY <1>1, <2>1 DEF Object
    <2> QED
      BY <1>13, <2>2 DEF PowerOn
  <1>15. CASE Addresses
    <2>1. obj'.cfg = obj.cfg /\ obj'.del = obj.del /\ pc = "addresses"
      BY <1>2, <1>15 DEF Addresses
    <2> QED
      BY <2>1
  <1>14. CASE PowerOff \/ ConfirmOff \/ DeleteVM
    BY <1>2, <1>3, <1>14 DEF PowerOff, ConfirmOff, DeleteVM
  <1> QED
    BY <1>4, <1>5, <1>6, <1>7, <1>8, <1>9, <1>10, <1>11, <1>12, <1>13, <1>14, <1>15
       DEF VMStep

\* Each handler lets reconcileNormal go on only once its part is recorded.
LEMMA NeedsStep ==
  ASSUME TypeOK, VMStep, pc \in DOMAIN Needs => Needs[pc] \subseteq obj.cfg,
         pc' \in DOMAIN Needs
  PROVE  Needs[pc'] \subseteq obj'.cfg
  <1>1. obj \in Object
    BY DEF TypeOK
  <1>2. /\ \A ps : Record(ps).cfg = obj.cfg \cup ps
        /\ DOMAIN Needs = {"adapters", "ipam", "folders", "vnc", "bootstrap", "powerOn"}
        /\ Real = {"hardware", "adapters", "folders", "vnc", "bootstrap"}
    BY <1>1 DEF Record, Object, Needs, Real, Parts
  <1> USE DEF Goto, Return, LoseReply, CallFails, VMCallFails, Following, Recorded
  <1>3. CASE GetPowerState \/ CreateVM
    BY <1>2, <1>3 DEF GetPowerState, CreateVM
  <1>4. CASE Dispatch
    BY <1>2, <1>4 DEF Dispatch, DispatchDelete, DispatchNormal
  <1>5. CASE Hardware
    <2>1. pc' = "adapters" /\ "hardware" \in obj'.cfg
      BY <1>2, <1>5 DEF Hardware
    <2> QED
      BY <2>1 DEF Needs
  <1>6. CASE Adapters
    <2>1. pc' = "ipam" /\ obj.cfg \subseteq obj'.cfg /\ "adapters" \in obj'.cfg /\ pc = "adapters"
      BY <1>2, <1>6 DEF Adapters
    <2> QED
      BY <2>1 DEF Needs
  <1>7. CASE NetworkAddresses
    <2>1. pc' = "folders" /\ obj.cfg \subseteq obj'.cfg /\ pc = "ipam"
      BY <1>2, <1>7 DEF NetworkAddresses
    <2> QED
      BY <2>1 DEF Needs
  <1>8. CASE SharedFolders
    <2>1. pc' = "vnc" /\ obj.cfg \subseteq obj'.cfg /\ "folders" \in obj'.cfg /\ pc = "folders"
      BY <1>2, <1>8 DEF SharedFolders
    <2> QED
      BY <2>1 DEF Needs
  <1>9. CASE Vnc
    <2>1. pc' = "bootstrap" /\ obj.cfg \subseteq obj'.cfg /\ "vnc" \in obj'.cfg /\ pc = "vnc"
      BY <1>2, <1>9 DEF Vnc
    <2> QED
      BY <2>1 DEF Needs
  <1>10. CASE Bootstrap
    <2>1. pc' = "powerOn" /\ obj.cfg \subseteq obj'.cfg /\ "bootstrap" \in obj'.cfg /\ pc = "bootstrap"
      BY <1>2, <1>10 DEF Bootstrap
    <2> QED
      BY <1>2, <2>1 DEF Needs
  <1>11. CASE PowerOn \/ Addresses \/ PowerOff \/ ConfirmOff \/ DeleteVM
    BY <1>2, <1>11 DEF PowerOn, Addresses, PowerOff, ConfirmOff, DeleteVM
  <1> QED
    BY <1>3, <1>4, <1>5, <1>6, <1>7, <1>8, <1>9, <1>10, <1>11 DEF VMStep

\* The power state is read before the configuration is looked at.
LEMMA ReadingStep ==
  ASSUME TypeOK, VMStep, pc' \in {"getPowerState", "patchState"}
  PROVE  pc = "getPowerState" /\ obj'.cfg = obj.cfg
  <1> USE DEF Goto, Return, LoseReply, CallFails, VMCallFails, Following
  <1>1. CASE GetPowerState
    <2>1. obj' \in {obj, [obj EXCEPT !.state = PowerState(obj.vmID)]} /\ pc = "getPowerState"
      BY <1>1 DEF GetPowerState
    <2> QED
      BY <2>1 DEF TypeOK, Object
  <1>2. CASE Dispatch \/ CreateVM \/ Hardware \/ Adapters
    BY <1>2 DEF Dispatch, DispatchDelete, DispatchNormal, CreateVM, Hardware, Adapters
  <1>3. CASE NetworkAddresses \/ SharedFolders \/ Vnc \/ Bootstrap \/ PowerOn
    BY <1>3 DEF NetworkAddresses, SharedFolders, Vnc, Bootstrap, PowerOn
  <1>4. CASE Addresses \/ PowerOff \/ ConfirmOff \/ DeleteVM
    BY <1>4 DEF Addresses, PowerOff, ConfirmOff, DeleteVM
  <1> QED
    BY <1>1, <1>2, <1>3, <1>4 DEF VMStep

\* What becomes of the worker in all other steps.
LEMMA OtherWorkerStep ==
  ASSUME [Next]_vars, ~VMStep
  PROVE  \/ UNCHANGED <<pc, obj, before>>
         \/ /\ UNCHANGED <<obj, before>> /\ (PatchState \/ PatchSpec)
            /\ pc' \in {"dispatch", "patchSpec", "patchStatus"}
         \/ obj' = Blank /\ before' = Blank /\ pc' = "idle"
         \/ /\ obj' = cache /\ before' = cache /\ cache.exists /\ UNCHANGED <<storeVars, vmVars>>
            /\ pc' = IF cache.vmID = Nil THEN "dispatch" ELSE "getPowerState"
            /\ pending # <<>> => "stale" \in upsets'
  <1>1. CASE PatchState \/ PatchSpec
    BY <1>1, PatchStep
  <1>2. CASE PatchStatus \/ Crash
    BY <1>2, EndStep
  <1>3. CASE Begin
    BY <1>3 DEF Begin, workerVars, Upset, Ignored, vmVars, storeVars
  <1>4. CASE Deliver \/ SetOwnerRef \/ Delete \/ Outside
    BY <1>4, OutsideStep DEF Deliver, SetOwnerRef, Delete, workerVars
  <1> QED
    BY <1>1, <1>2, <1>3, <1>4, StepKinds

\* Every step keeps the configuration of the private copy as it should be.
LEMMA CopyCfgStep ==
  ASSUME TypeOK, BaseInv, CopySafe, CopyCfgInv, [Next]_vars
  PROVE  CopyCfgInv'
  <1>1. CASE VMStep
    <2>1. /\ before' = before /\ obj.vmID = before.vmID /\ obj.del = before.del
          /\ CopyInv /\ TypeOK
      BY <1>1, VMStepStore DEF BaseInv, CopyInv, CopySafe
    <2>2. pc' \in {"getPowerState", "patchState"} => obj'.cfg = before'.cfg
      BY <1>1, <2>1, ReadingStep DEF CopyCfgInv
    <2>3. pc' \in Configuring => ~before'.del
      BY <1>1, <2>1, VMStepCfg DEF CopyCfgInv
    <2>4. \/ obj'.cfg = obj.cfg
          \/ obj'.cfg = obj.cfg \ {"hardware"} /\ \E v \in VMs : Adopts(v)
          \/ \E ps \in SUBSET Parts : Records(ps)
      BY <1>1, <2>1, VMStepCfg
    <2>5. CASE obj'.cfg = obj.cfg
      BY <2>1, <2>2, <2>3, <2>5 DEF CopyCfgInv
    <2>6. CASE obj'.cfg = obj.cfg \ {"hardware"} /\ \E v \in VMs : Adopts(v)
      <3>1. before.vmID = Nil /\ ~before.del
        BY <2>1, <2>6 DEF Adopts, CopyInv, CopyCfgInv, Configuring
      <3> QED
        BY <2>1, <2>2, <2>3, <2>6, <3>1 DEF CopyCfgInv
    <2>7. CASE \E ps \in SUBSET Parts : Records(ps)
      <3>1. obj.cfg \subseteq obj'.cfg /\ before.vmID # Nil
        BY <2>1, <2>7, ConstantsAssumption DEF Records
      <3> QED
        BY <2>1, <2>2, <2>3, <3>1 DEF CopyCfgInv
    <2> QED
      BY <2>4, <2>5, <2>6, <2>7
  <1>2. ASSUME obj' = obj, before' = before,
               pc' = pc \/ pc' \in {"dispatch", "patchSpec", "patchStatus"}
        PROVE  CopyCfgInv'
    BY <1>2 DEF CopyCfgInv, Configuring
  <1>3. ASSUME obj' = before', pc' \in {"idle", "dispatch", "getPowerState"}
        PROVE  CopyCfgInv'
    BY <1>3 DEF CopyCfgInv, Configuring
  <1>4. CASE ~VMStep
    <2>1. \/ obj' = obj /\ before' = before
             /\ (pc' = pc \/ pc' \in {"dispatch", "patchSpec", "patchStatus"})
          \/ obj' = before' /\ pc' \in {"idle", "dispatch", "getPowerState"}
      BY <1>4, OtherWorkerStep
    <2> QED
      BY <1>2, <1>3, <2>1
  <1> QED
    BY <1>1, <1>4

\* Only the patch of status changes the stored configuration, to that of the
\* private copy.
LEMMA StoredCfgStep ==
  ASSUME TypeOK, WatchInv, CopyCfgInv, [Next]_vars
  PROVE  /\ \/ api'.cfg = api.cfg
            \/ PatchStatus /\ api.exists /\ api'.cfg = MergeParts(api.cfg, before.cfg, obj.cfg)
         /\ api'.exists => api.exists
         /\ api.del => api'.del
  <1>1. api \in Object /\ obj \in Object
    BY DEF TypeOK
  <1>2. CASE api' = api
    BY <1>2
  <1>3. CASE VMStep \/ Begin \/ Outside \/ Deliver \/ Crash
    BY <1>2, <1>3, VMStepStore, OutsideStep DEF Begin, Deliver, Crash, storeVars
  <1>4. CASE PatchSpec
    BY <1>2, <1>4, StoreSpec DEF PatchSpec, storeVars
  <1>5. CASE PatchState \/ PatchStatus
    <2>1. /\ UNCHANGED storeVars \/ (api.exists /\ Store(MergeStatus))
          /\ PatchState => obj.cfg = before.cfg
      BY <1>5 DEF PatchState, PatchStatus, CopyCfgInv
    <2> DEFINE g == [MergeStatus EXCEPT !.exists = FALSE]
    <2>2. /\ MergeStatus \in Object /\ MergeStatus.del = api.del /\ MergeStatus.exists = api.exists
          /\ MergeStatus.cfg = MergeParts(api.cfg, before.cfg, obj.cfg)
          /\ g.cfg = MergeStatus.cfg /\ g.del = MergeStatus.del /\ ~g.exists
      BY MergedFields DEF Object
    <2>3. Store(MergeStatus) => api' = g \/ api' = MergeStatus
      BY <2>2, StoreVersions
    <2> HIDE DEF g
    <2>4. CASE api.exists /\ Store(MergeStatus)
      <3>1. api'.cfg = MergeParts(api.cfg, before.cfg, obj.cfg) /\ api'.del = api.del
        BY <2>2, <2>3, <2>4
      <3>2. PatchState => MergeParts(api.cfg, before.cfg, obj.cfg) = api.cfg
        BY <2>1 DEF MergeParts
      <3> QED
        BY <1>5, <2>4, <3>1, <3>2
    <2> QED
      BY <1>2, <2>1, <2>4 DEF storeVars
  <1>6. ASSUME api.exists, NEW o \in Object, Store(o), o.cfg = api.cfg, o.del \/ o.del = api.del
        PROVE  api'.cfg = api.cfg /\ (api.del => api'.del)
    <2> DEFINE g == [o EXCEPT !.exists = FALSE]
    <2>1. g.cfg = o.cfg /\ g.del = o.del
      BY DEF Object
    <2>2. api' = g \/ api' = o
      BY <1>6, StoreVersions
    <2> HIDE DEF g
    <2> QED
      BY <1>6, <2>1, <2>2
  <1>7. CASE SetOwnerRef \/ Delete
    <2>1. /\ [api EXCEPT !.owner = TRUE] \in Object /\ [api EXCEPT !.owner = TRUE].cfg = api.cfg
          /\ [api EXCEPT !.owner = TRUE].del = api.del
          /\ [api EXCEPT !.del = TRUE] \in Object /\ [api EXCEPT !.del = TRUE].cfg = api.cfg
          /\ [api EXCEPT !.del = TRUE].del
      BY <1>1 DEF Object
    <2> QED
      BY <1>6, <1>7, <2>1 DEF SetOwnerRef, Delete
  <1> QED
    BY <1>3, <1>4, <1>5, <1>7, StepKinds

\* Nothing is recorded in any version of the object before it was written.
LEMMA AppliedStep ==
  ASSUME TypeOK, BaseInv, CopyCfgInv, AppliedInv, [Next]_vars
  PROVE  /\ AppliedInv'
         /\ \A p : Applied(p) => Applied(p)'
  <1>1. \A p : Applied(p) => Applied(p)'
    BY VMHistory DEF Applied
  <1> DEFINE Good(w) == \A p \in w.cfg \cap Real : Applied(p)'
  <1>2. \A w \in Versions \cup {before, obj} : Good(w)
    BY <1>1 DEF AppliedInv
  <1>3. Good(api')
    <2>1. api'.cfg \subseteq api.cfg \cup obj.cfg
      BY StoredCfgStep DEF BaseInv, MergeParts
    <2> QED
      BY <1>2, <2>1 DEF Versions
  <1>4. Good(Blank)
    BY DEF Blank
  <1>5. Good(obj') /\ Good(before')
    <2>1. CASE ~VMStep
      <3>1. obj' \in {obj, Blank, cache} /\ before' \in {before, Blank, cache}
        BY <2>1, OtherWorkerStep
      <3> QED
        BY <1>2, <1>4, <3>1 DEF Versions
    <2>2. CASE VMStep
      <3>1. before' = before
        BY <2>2, VMStepStore
      <3>2. obj'.cfg \subseteq obj.cfg \/ \E ps \in SUBSET Parts : Records(ps)
        BY <2>2, VMStepCfg DEF BaseInv
      <3>3. ASSUME NEW ps, Records(ps)
            PROVE  Good(obj')
        <4>1. \A p \in ps \cap Real : Applied(p)'
          BY <3>3 DEF Records, Applied
        <4> QED
          BY <1>2, <3>3, <4>1 DEF Records
      <3> QED
        BY <1>2, <3>1, <3>2, <3>3
    <2> QED
      BY <2>1, <2>2
  <1>6. Versions' \subseteq Versions \cup {api'}
    BY VersionsStep DEF BaseInv
  <1>7. \A w \in Versions' \cup {before', obj'} : Good(w)
    BY <1>2, <1>3, <1>5, <1>6
  <1> QED
    BY <1>1, <1>7 DEF AppliedInv

\* VMs are only deleted for an object that is being deleted.
LEMMA GoneStep ==
  ASSUME TypeOK, CopySafe, [Next]_vars, upsets' \cap {"stale", "vmGone"} = {},
         NEW v \in VMs, ~Gone(v), Gone(v)'
  PROVE  DeleteVM /\ obj.del /\ before.del
  <1>1. power \in [VMs -> {"none", "off", "on", "stopping", "gone"}]
    BY DEF TypeOK
  <1>2. DeleteVM
    <2>1. CASE VMStep
      BY <1>1, <2>1 DEF VMStep, GetPowerState, Dispatch, CreateVM, Hardware, Adapters,
         NetworkAddresses, SharedFolders, Vnc, Bootstrap, PowerOn, Addresses, PowerOff,
         ConfirmOff, Gone, vmVars
    <2>2. CASE Outside
      BY <1>1, <2>2 DEF Outside, TimerFires, MachineEvent, ClusterProvisioned, BootstrapDataReady,
         Pause, Unpause, VMGone, GuestOff, Stops, GuestUp, vars, vmVars, Gone, Upset
    <2>3. CASE ~VMStep /\ ~Outside
      BY <2>3, StepKinds DEF PatchState, PatchSpec, PatchStatus, Begin, Deliver, SetOwnerRef,
         Delete, Crash, vmVars, Gone
    <2> QED
      BY <2>1, <2>2, <2>3
  <1>3. obj.del = before.del /\ (pc = "deleteVM" => obj.del)
    BY DEF CopySafe
  <1> QED
    BY <1>2, <1>3 DEF DeleteVM

\* A VM only starts to run, or to stop, when it is prepared.
LEMMA RunningStep ==
  ASSUME TypeOK, BaseInv, CopyCfgInv, RunningPrepared, [Next]_vars,
         pc = "powerOn" => Real \subseteq obj.cfg /\ CfgTrue(obj.cfg, obj.vmID)
  PROVE  \A v \in VMs : power'[v] \in {"on", "stopping"} => Prepared(v)'
  <1> SUFFICES ASSUME NEW v \in VMs, power'[v] \in {"on", "stopping"}
               PROVE  Prepared(v)'
    OBVIOUS
  <1>1. /\ power \in [VMs -> {"none", "off", "on", "stopping", "gone"}]
        /\ obj.vmID # Nil => obj.vmID \in VMs
        /\ pc \in HasVMAt => obj.vmID # Nil
    BY DEF TypeOK, Object, BaseInv, CopyInv
  <1>2. Prepared(v) => Prepared(v)'
    BY VMHistory DEF Prepared
  <1>3. CASE power[v] \in {"on", "stopping"}
    BY <1>2, <1>3 DEF RunningPrepared
  <1>4. CASE PowerOn /\ power[v] \notin {"on", "stopping"}
    <2>1. v = obj.vmID /\ pc = "powerOn"
      BY <1>1, <1>4 DEF PowerOn
    <2>2. \A p \in Real : Has(v, p) /\ HasNetwork
      BY <2>1 DEF CfgTrue, Real, Parts
    <2> QED
      BY <1>2, <2>2 DEF Has, Prepared
  <1>5. CASE PowerOff /\ power[v] \notin {"on", "stopping"}
    <2>1. v = obj.vmID /\ pc = "powerOff" /\ v # Nil
      BY <1>1, <1>5 DEF PowerOff, HasVMAt
    <2> QED
      BY <1>2, <2>1 DEF RunningPrepared
  <1>6. CASE power[v] \notin {"on", "stopping"} /\ ~PowerOn /\ ~PowerOff
    <2>1. CASE VMStep
      BY <1>1, <1>6, <2>1 DEF VMStep, GetPowerState, Dispatch, CreateVM, Hardware, Adapters,
         NetworkAddresses, SharedFolders, Vnc, Bootstrap, Addresses, DeleteVM,
         ConfirmOff, vmVars
    <2>2. CASE Outside
      BY <1>1, <1>6, <2>2 DEF Outside, TimerFires, MachineEvent, ClusterProvisioned,
         BootstrapDataReady, Pause, Unpause, VMGone, GuestOff, Stops, GuestUp, vars, vmVars
    <2>3. CASE ~VMStep /\ ~Outside
      BY <1>6, <2>3, StepKinds DEF PatchState, PatchSpec, PatchStatus, Begin, Deliver, SetOwnerRef,
         Delete, Crash, vmVars
    <2> QED
      BY <2>1, <2>2, <2>3
  <1> QED
    BY <1>3, <1>4, <1>5, <1>6

\* The steps of a visit that lead to reconcileDelete's call to power off.
LEMMA LeadsToPowerOff ==
  ASSUME TypeOK, VMStep, pc' \in {"patchState", "dispatch", "powerOff"}
  PROVE  \/ /\ GetPowerState /\ pc' = "patchState" /\ Present(obj.vmID)
            /\ obj'.vmID = obj.vmID /\ obj'.state = PowerState(obj.vmID)
         \/ /\ pc = "dispatch" /\ pc' = "powerOff" /\ obj'.vmID = obj.vmID /\ obj.vmID # Nil
            /\ obj.state # "poweredOff"
  <1> USE DEF Goto, Return, LoseReply, CallFails, VMCallFails, Following
  <1>1. CASE GetPowerState
    <2>1. /\ obj' = [obj EXCEPT !.state = PowerState(obj.vmID)] /\ pc' = "patchState"
          /\ Present(obj.vmID)
      BY <1>1 DEF GetPowerState
    <2> QED
      BY <1>1, <2>1 DEF TypeOK, Object
  <1>2. CASE Dispatch
    BY <1>2 DEF Dispatch, DispatchDelete, DispatchNormal
  <1>3. CASE CreateVM \/ Hardware \/ Adapters
    BY <1>3 DEF CreateVM, Hardware, Adapters
  <1>4. CASE NetworkAddresses \/ SharedFolders \/ Vnc \/ Bootstrap \/ PowerOn
    BY <1>4 DEF NetworkAddresses, SharedFolders, Vnc, Bootstrap, PowerOn
  <1>5. CASE Addresses \/ PowerOff \/ ConfirmOff \/ DeleteVM
    BY <1>5 DEF Addresses, PowerOff, ConfirmOff, DeleteVM
  <1> QED
    BY <1>1, <1>2, <1>3, <1>4, <1>5 DEF VMStep

\* VMs that run stay prepared.
LEMMA PreparedStep ==
  ASSUME TypeOK, BaseInv, CopyCfgInv, RunningPrepared, [Next]_vars,
         pc = "powerOn" => Real \subseteq obj.cfg /\ CfgTrue(obj.cfg, obj.vmID)
  PROVE  RunningPrepared'
  <1>1. \A v \in VMs : power'[v] \in {"on", "stopping"} => Prepared(v)'
    BY RunningStep
  <1>2. /\ obj \in Object /\ power \in [VMs -> {"none", "off", "on", "stopping", "gone"}]
        /\ pc \in HasVMAt => obj.vmID # Nil
        /\ \A v \in VMs : Prepared(v) => Prepared(v)'
    BY VMHistory DEF TypeOK, Prepared, BaseInv, CopyInv
  <1>3. obj.vmID # Nil => obj.vmID \in VMs
    BY <1>2 DEF Object
  <1>4. CASE ~VMStep
    <2>1. CASE UNCHANGED <<pc, obj>> \/ (PatchState /\ obj' = obj /\ pc' \in {"dispatch", "patchSpec"})
      <3>1. pc' \in {"patchState", "dispatch"} => pc \in {"patchState", "dispatch"}
        BY <2>1, PatchStep
      <3>2. pc' = "powerOff" => pc = "powerOff" /\ obj.vmID \in VMs
        BY <1>2, <1>3, <2>1 DEF HasVMAt
      <3>3. obj' = obj
        BY <2>1
      <3>4. /\ pc' \in {"patchState", "dispatch"} /\ obj.vmID # Nil /\ obj.state # "poweredOff"
                 => Prepared(obj.vmID)'
            /\ pc' = "powerOff" => Prepared(obj.vmID)'
        <4>1. obj.vmID \in VMs /\ Prepared(obj.vmID) => Real \subseteq configured'[obj.vmID]
          BY VMHistory DEF Prepared
        <4>2. Real \subseteq configured'[obj.vmID] => Real \subseteq configured'[obj'.vmID]
          BY <3>3
        <4> QED
          BY <1>3, <3>1, <3>2, <3>3, <4>1, <4>2 DEF RunningPrepared, Prepared
      <3> QED
        BY <1>1, <3>3, <3>4 DEF RunningPrepared, Prepared
    <2>2. CASE pc' \in {"patchSpec", "patchStatus", "idle", "getPowerState"}
      BY <1>1, <2>2 DEF RunningPrepared
    <2>3. CASE pc' = "dispatch" /\ obj'.vmID = Nil
      BY <1>1, <2>3 DEF RunningPrepared
    <2> QED
      BY <1>4, <2>1, <2>2, <2>3, OtherWorkerStep, PatchStep
  <1>5. CASE VMStep /\ pc' \notin {"patchState", "dispatch", "powerOff"}
    BY <1>1, <1>5 DEF RunningPrepared
  <1>6. CASE VMStep /\ pc' \in {"patchState", "dispatch", "powerOff"}
    <2>1. CASE /\ GetPowerState /\ pc' = "patchState" /\ Present(obj.vmID)
               /\ obj'.vmID = obj.vmID /\ obj'.state = PowerState(obj.vmID)
      <3>1. obj.vmID \in VMs
        BY <1>2, <1>3, <2>1 DEF GetPowerState, HasVMAt
      <3>2. obj'.state # "poweredOff" => Prepared(obj.vmID)
        BY <2>1, <3>1 DEF PowerState, Present, RunningPrepared
      <3>3. obj'.state # "poweredOff" => Real \subseteq configured'[obj'.vmID]
        BY <2>1, <3>1, <3>2, VMHistory DEF Prepared
      <3> QED
        BY <1>1, <2>1, <3>3 DEF RunningPrepared, Prepared
    <2>2. CASE /\ pc = "dispatch" /\ pc' = "powerOff" /\ obj'.vmID = obj.vmID /\ obj.vmID # Nil
               /\ obj.state # "poweredOff"
      <3>1. obj.vmID \in VMs /\ Prepared(obj.vmID)
        BY <1>3, <2>2 DEF RunningPrepared
      <3>2. Real \subseteq configured'[obj'.vmID]
        BY <2>2, <3>1, VMHistory DEF Prepared
      <3> QED
        BY <1>1, <2>2, <3>2 DEF RunningPrepared, Prepared
    <2> QED
      BY <1>6, <2>1, <2>2, LeadsToPowerOff
  <1> QED
    BY <1>4, <1>5, <1>6

\* What is stored of the marks outlives each step.
LEMMA StoredMarks ==
  ASSUME TypeOK, BaseInv, FinalizerInv, CopyCfgInv, [Next]_vars
  PROVE  /\ api'.exists => api.exists
         /\ api.del => api'.del
         /\ obj.del = before.del /\ (before.del /\ api.exists => api.del)
         /\ \/ api'.vmID = api.vmID
            \/ PatchSpec /\ api'.vmID = obj.vmID /\ obj.vmID # before.vmID
  <1>1. WatchInv /\ CopySafe /\ Faithful(before, api)
    BY DEF BaseInv, FinalizerInv, VersionsFaithful
  <1>2. \/ api'.vmID = api.vmID
        \/ PatchSpec /\ api'.vmID = obj.vmID /\ obj.vmID # before.vmID
    BY <1>1, StoredStep, StoreSpec DEF Merge
  <1> QED
    BY <1>1, <1>2, StoredCfgStep DEF CopySafe, Faithful

LEMMA GoneDeletedStep ==
  ASSUME TypeOK, BaseInv, FinalizerInv, CopyCfgInv, GoneDeleted, [Next]_vars, Calm'
  PROVE  GoneDeleted'
  <1>1. /\ CopySafe /\ CopyInv /\ KnownInv
        /\ \A v \in VMs : Gone(v)' => Gone(v) \/ (DeleteVM /\ obj.del /\ before.del)
    BY GoneStep DEF FinalizerInv, BaseInv, Calm
  <1>2. TypeOK'
    BY TypeStep
  <1>3. \A w \in {before', obj', api'} : w.vmID # Nil => w.vmID \in VMs
    BY <1>2 DEF TypeOK, Object
  <1>4. CASE DeleteVM /\ obj.del /\ before.del
    <2>1. obj'.del /\ before' = before /\ api' = api
      BY <1>1, <1>4, VMStepCfg, VMStepStore DEF VMStep, storeVars
    <2> QED
      BY <1>4, <2>1, StoredMarks DEF GoneDeleted
  <1>5. CASE ~(DeleteVM /\ obj.del /\ before.del)
    <2>1. \A v \in VMs : Gone(v)' => Gone(v)
      BY <1>1, <1>5
    <2> DEFINE Good(w) == w.vmID # Nil /\ power'[w.vmID] = "gone" => w.del
    <2>2. api'.exists => Good(api')
      <3>1. api'.exists /\ api.exists /\ api'.vmID # Nil /\ power'[api'.vmID] = "gone"
              => power[api'.vmID] = "gone"
        BY <1>3, <2>1 DEF Gone
      <3> QED
        BY <3>1, StoredMarks DEF GoneDeleted, Gone
    <2>3. ASSUME NEW w \in {before', obj'}, w \in {before, obj}
          PROVE  Good(w)
      BY <1>3, <2>1, <2>3 DEF GoneDeleted, Gone
    <2>4. Good(Blank)
      BY DEF Blank
    <2>5. Good(before') /\ Good(obj')
      <3>1. CASE VMStep
        <4>1. before' = before /\ obj'.del = obj.del
          BY <1>1, <3>1, VMStepCfg, VMStepStore
        <4>2. CASE obj'.vmID = obj.vmID
          BY <1>3, <2>1, <4>1, <4>2 DEF GoneDeleted, Gone
        <4>3. CASE obj'.vmID = Nil
          BY <1>3, <2>1, <4>1, <4>3 DEF GoneDeleted, Gone
        <4>4. CASE \E v \in VMs : Adopts(v)
          <5>1. power'[obj'.vmID] = "off"
            BY <4>4 DEF Adopts, TypeOK
          <5> QED
            BY <2>3, <4>1, <5>1
        <4> QED
          BY <1>1, <3>1, <4>2, <4>3, <4>4, VMStepIDs DEF Forgets, Halves
      <3>2. CASE ~VMStep
        <4>1. CASE before' = before /\ obj' = obj
          BY <2>3, <4>1
        <4>2. CASE before' = Blank /\ obj' = Blank
          BY <2>4, <4>2
        <4>3. CASE before' = cache /\ obj' = cache /\ cache.exists /\ UNCHANGED storeVars
                   /\ pending = <<>>
          <5>1. cache = api /\ api' = api
            BY <4>3 DEF BaseInv, WatchInv, storeVars
          <5> QED
            BY <2>2, <4>3, <5>1
        <4> QED
          BY <3>2, <4>1, <4>2, <4>3, OtherWorkerStep DEF Calm
      <3> QED
        BY <3>1, <3>2
    <2> QED
      BY <2>2, <2>5 DEF GoneDeleted, Gone
  <1> QED
    BY <1>4, <1>5

LEMMA SameReadStep ==
  ASSUME TypeOK, BaseInv, FinalizerInv, FreshInv, CopyCfgInv, SameRead, [Next]_vars, Calm'
  PROVE  SameRead'
  <1>1. api'.cfg = api.cfg \/ PatchStatus
    BY StoredCfgStep DEF BaseInv
  <1>2. Visiting' => api'.cfg = before'.cfg
    <2>1. CASE VMStep
      BY <2>1, VMStepStore DEF SameRead, Visiting, storeVars
    <2>2. CASE UNCHANGED <<pc, obj, before>>
      BY <1>1, <2>2, EndStep DEF SameRead, Visiting
    <2>3. CASE (PatchState \/ PatchSpec) /\ before' = before
      <3>1. pc # "idle" /\ ~PatchStatus
        BY <2>3 DEF PatchState, PatchSpec, PatchStatus
      <3> QED
        BY <1>1, <2>3, <3>1 DEF SameRead, Visiting
    <2>4. CASE pc' = "idle"
      BY <2>4 DEF Visiting
    <2>5. CASE before' = cache /\ UNCHANGED storeVars /\ pending = <<>>
      BY <2>5 DEF BaseInv, WatchInv, storeVars
    <2> QED
      BY <2>1, <2>2, <2>3, <2>4, <2>5, OtherWorkerStep DEF Calm
  <1>3. pc' = "patchStatus" => api'.vmID \in {before'.vmID, obj'.vmID}
    <2> SUFFICES ASSUME pc' = "patchStatus"
                 PROVE  api'.vmID \in {before'.vmID, obj'.vmID}
      OBVIOUS
    <2>1. CASE PatchSpec
      <3>1. /\ UNCHANGED <<obj, before>> /\ Working /\ "stale" \notin upsets
        BY <2>1, PatchStep, HistoryGrows DEF Working, Calm
      <3>2. api.vmID = before.vmID
        BY <3>1 DEF FreshInv
      <3> QED
        BY <3>1, <3>2, StoredMarks
    <2>2. CASE ~PatchSpec
      <3>1. UNCHANGED <<pc, obj, before>>
        BY <2>2, OtherWorkerStep, VMStepStore, PatchStep
      <3> QED
        BY <2>2, <3>1, StoredMarks DEF SameRead
    <2> QED
      BY <2>1, <2>2
  <1> QED
    BY <1>2, <1>3 DEF SameRead

\* What is recorded for an object that is not being deleted stays true of its VM.
LEMMA TrueCfgStep ==
  ASSUME TypeOK, BaseInv, FinalizerInv, FreshInv, CopyCfgInv, GoneDeleted, SameRead, TrueCfg,
         [Next]_vars, Calm'
  PROVE  TrueCfg'
  <1> DEFINE Then(c, v) ==
               \A p \in c \cap Real :
                  /\ v # Nil
                  /\ (p = "adapters" /\ ~HasNetwork) \/ (v \in VMs /\ p \in configured'[v])
                  /\ p = "bootstrap" => HasNetwork
  <1>1. \A c, v : CfgTrue(c, v) => Then(c, v)
    BY VMHistory DEF CfgTrue, Has
  <1>2. /\ CopyInv /\ CopyIDs /\ obj.del = before.del /\ WatchInv
        /\ before.vmID \in VMs \cup {Nil} /\ obj.vmID \in VMs \cup {Nil}
    BY StoredMarks DEF BaseInv, CopyInv, TypeOK, Object
  <1>3. ASSUME api'.exists, ~api'.del
        PROVE  Then(api'.cfg, api'.vmID)
    <2>1. /\ CfgTrue(api.cfg, api.vmID)
          /\ ~before.del /\ CfgTrue(before.cfg, before.vmID) /\ CfgTrue(obj.cfg, obj.vmID)
      BY <1>3, StoredMarks DEF TrueCfg
    <2>2. before.vmID # obj.vmID => before.vmID = Nil
      BY <1>2, <2>1 DEF CopyIDs, GoneDeleted
    <2>3. CASE PatchStatus
      <3>1. api'.vmID = api.vmID /\ pc = "patchStatus" /\ pc' = "idle"
        BY <2>3, EndStep, StoredMarks DEF PatchStatus, PatchSpec
      <3>2. api'.cfg \in {api.cfg, obj.cfg} /\ api.vmID \in {before.vmID, obj.vmID}
        <4>1. api.cfg = before.cfg /\ api.vmID \in {before.vmID, obj.vmID}
          BY <3>1 DEF SameRead, Visiting
        <4>2. MergeParts(before.cfg, before.cfg, obj.cfg) = obj.cfg
          BY DEF MergeParts
        <4> QED
          BY <1>2, <4>1, <4>2, StoredCfgStep
      <3>3. CfgTrue(obj.cfg, api.vmID)
        <4>1. CASE api.vmID = obj.vmID
          BY <2>1, <4>1
        <4>2. CASE api.vmID # obj.vmID
          <5>1. before.vmID = Nil /\ obj.cfg \subseteq before.cfg
            BY <2>2, <3>2, <4>2 DEF CopyCfgInv
          <5> QED
            BY <2>1, <5>1 DEF CfgTrue
        <4> QED
          BY <4>1, <4>2
      <3> QED
        BY <1>1, <2>1, <3>1, <3>2, <3>3
    <2>4. CASE api'.vmID = api.vmID /\ ~PatchStatus
      BY <1>1, <1>2, <2>1, <2>4, StoredCfgStep
    <2>5. CASE PatchSpec /\ obj.vmID # before.vmID
      <3>1. Working /\ "stale" \notin upsets /\ ~PatchStatus
        BY <2>5, PatchStep, HistoryGrows DEF Working, Calm, PatchStatus
      <3>2. api.vmID = Nil /\ api'.cfg = api.cfg
        BY <1>2, <2>2, <2>5, <3>1, StoredCfgStep DEF FreshInv
      <3> QED
        BY <2>1, <3>2 DEF CfgTrue
    <2> QED
      BY <2>3, <2>4, <2>5, StoredMarks
  <1>4. ASSUME ~before'.del
        PROVE  Then(before'.cfg, before'.vmID) /\ Then(obj'.cfg, obj'.vmID)
    <2>1. CASE VMStep
      <3>1. /\ before' = before /\ obj.vmID = before.vmID
            /\ CfgTrue(before.cfg, before.vmID) /\ CfgTrue(obj.cfg, obj.vmID)
        BY <1>2, <1>4, <2>1, VMStepStore DEF TrueCfg, CopyInv
      <3>2. Then(before'.cfg, before'.vmID)
        BY <1>1, <3>1
      <3>3. CASE obj'.vmID = obj.vmID /\ obj'.cfg \subseteq obj.cfg
        BY <1>1, <3>1, <3>3
      <3>4. CASE \E ps \in SUBSET Parts : Records(ps)
        <4>1. PICK ps \in SUBSET Parts : Records(ps)
          BY <3>4
        <4>2. Then(ps, obj.vmID) /\ obj'.cfg = obj.cfg \cup ps /\ obj'.vmID = obj.vmID
          BY <4>1, ConstantsAssumption DEF Records
        <4> QED
          BY <1>1, <3>1, <3>2, <4>2
      <3>5. CASE obj'.cfg \subseteq obj.cfg /\ \E v \in VMs : Adopts(v)
        <4>1. obj.vmID = Nil
          BY <1>2, <3>5 DEF Adopts, CopyInv
        <4> QED
          BY <3>1, <3>2, <3>5, <4>1 DEF CfgTrue
      <3>6. ~Forgets
        BY <1>2, <1>4, <3>1, ConstantsAssumption DEF Forgets, GoneDeleted
      <3>7. obj'.cfg \subseteq obj.cfg \/ \E ps \in SUBSET Parts : Records(ps)
        BY <1>2, <2>1, VMStepCfg
      <3>8. obj'.vmID = obj.vmID \/ \E v \in VMs : Adopts(v)
        BY <1>2, <2>1, <3>6, VMStepIDs DEF Halves, BaseInv
      <3> QED
        BY <3>2, <3>3, <3>4, <3>5, <3>7, <3>8
    <2>2. CASE ~VMStep
      <3>1. CASE before' = before /\ obj' = obj
        BY <1>1, <1>4, <3>1 DEF TrueCfg
      <3>2. CASE before' = Blank /\ obj' = Blank
        BY <3>2 DEF Blank
      <3>3. CASE before' = cache /\ obj' = cache /\ cache.exists /\ pending = <<>>
        <4>1. CfgTrue(cache.cfg, cache.vmID)
          BY <1>2, <1>4, <3>3 DEF WatchInv, TrueCfg
        <4> QED
          BY <1>1, <3>3, <4>1
      <3> QED
        BY <2>2, <3>1, <3>2, <3>3, OtherWorkerStep DEF Calm
    <2> QED
      BY <2>1, <2>2
  <1> QED
    BY <1>3, <1>4 DEF TrueCfg, CfgTrue, Has

\* Without stale reads and VMs that vanish, the configuration is kept.
LEMMA ConfigStep ==
  ASSUME TypeOK, BaseInv, FinalizerInv, FreshInv, CopyCfgInv, ConfigInv, [Next]_vars
  PROVE  ConfigInv'
  <1> SUFFICES ASSUME Calm'
               PROVE  (GoneDeleted /\ SameRead /\ TrueCfg /\ NeedsMet /\ RunningPrepared)'
    BY DEF ConfigInv
  <1>1. Calm
    BY HistoryGrows DEF Calm
  <1>2. GoneDeleted /\ SameRead /\ TrueCfg /\ NeedsMet /\ RunningPrepared
    BY <1>1 DEF ConfigInv
  <1>3. NeedsMet'
    <2>1. DOMAIN Needs = {"adapters", "ipam", "folders", "vnc", "bootstrap", "powerOn"}
      BY DEF Needs
    <2>2. CASE VMStep
      BY <1>2, <2>2, NeedsStep DEF NeedsMet
    <2>3. CASE obj' = obj /\ pc' = pc
      BY <1>2, <2>3 DEF NeedsMet
    <2>4. CASE pc' \in {"dispatch", "patchSpec", "patchStatus", "idle", "getPowerState"}
      BY <2>1, <2>4 DEF NeedsMet
    <2> QED
      BY <2>2, <2>3, <2>4, OtherWorkerStep
  <1>4. pc = "powerOn" => Real \subseteq obj.cfg /\ CfgTrue(obj.cfg, obj.vmID)
    <2>1. pc = "powerOn" => ~before.del
      BY DEF CopyCfgInv, Configuring
    <2>2. pc = "powerOn" => Needs[pc] = Real /\ pc \in DOMAIN Needs
      BY DEF Needs
    <2> QED
      BY <1>2, <2>1, <2>2 DEF NeedsMet, TrueCfg
  <1> QED
    BY <1>2, <1>3, <1>4, GoneDeletedStep, SameReadStep, TrueCfgStep, PreparedStep

LEMMA CopyCfgInvariant == Spec => []CopyCfgInv
  <1>1. Init => CopyCfgInv
    BY DEF Init, CopyCfgInv, Configuring, Blank
  <1>2. TypeOK /\ BaseInv /\ FinalizerInv /\ CopyCfgInv /\ [Next]_vars => CopyCfgInv'
    BY CopyCfgStep DEF FinalizerInv
  <1> QED
    BY <1>1, <1>2, TypeCorrect, BaseInvariant, FinalizerInvariant, PTL DEF Spec

LEMMA AppliedInvariant == Spec => []AppliedInv
  <1>1. Init => AppliedInv
    <2> SUFFICES ASSUME Init, NEW w \in Versions \cup {before, obj}
                 PROVE  w.cfg = {}
      BY DEF AppliedInv
    <2>1. Created.cfg = {} /\ Blank.cfg = {}
      BY DEF Created, Blank
    <2>2. pending = <<Created>> /\ Len(pending) = 1 /\ pending[1] = Created
          /\ api = Created /\ cache = Blank /\ obj = Blank /\ before = Blank
      BY DEF Init
    <2> QED
      BY <2>1, <2>2 DEF Versions
  <1> QED
    BY <1>1, AppliedStep, TypeCorrect, BaseInvariant, CopyCfgInvariant, PTL DEF Spec

LEMMA ConfigInvariant == Spec => []ConfigInv
  <1>1. Init => ConfigInv
    <2> SUFFICES ASSUME Init
                 PROVE  GoneDeleted /\ SameRead /\ TrueCfg /\ NeedsMet /\ RunningPrepared
      BY DEF ConfigInv
    <2>1. /\ Created.vmID = Nil /\ Created.cfg = {} /\ Blank.vmID = Nil /\ Blank.cfg = {}
          /\ api = Created /\ obj = Blank /\ before = Blank /\ pc = "idle"
          /\ \A v \in VMs : power[v] = "none"
          /\ "idle" \notin DOMAIN Needs
      BY DEF Init, Created, Blank, Needs
    <2> QED
      BY <2>1 DEF GoneDeleted, SameRead, TrueCfg, NeedsMet, RunningPrepared, CfgTrue, Visiting
  <1> QED
    BY <1>1, ConfigStep, TypeCorrect, BaseInvariant, FinalizerInvariant, FreshInvariant,
       CopyCfgInvariant, PTL DEF Spec

\* No VM is ever powered on before its hardware, adapters, folders, VNC settings
\* and bootstrap data are in place, whatever calls fail, whatever crashes and
\* however many visits it takes, unless VMs vanish or stale objects are read.
THEOREM NeverOnUnprepared == Spec => []PreparedBeforePowerOn
  <1>1. ConfigInv => PreparedBeforePowerOn
    BY DEF ConfigInv, Calm, PreparedBeforePowerOn, RunningPrepared, Prepared, Real
  <1> QED
    BY <1>1, ConfigInvariant, PTL

\* A record is never dropped, but for that of an object's VM that is not there.
LEMMA RecordStays ==
  ASSUME TypeOK, BaseInv, FinalizerInv, CopyCfgInv, ConfigInv, [Next]_vars, Calm',
         NEW p \in Real, p \in api.cfg
  PROVE  p \in api'.cfg
  <1>1. SameRead /\ TrueCfg
    BY HistoryGrows DEF Calm, ConfigInv
  <1>2. CASE api'.cfg = api.cfg
    BY <1>2
  <1>3. CASE PatchStatus /\ api'.cfg = MergeParts(api.cfg, before.cfg, obj.cfg)
    <2>1. p \in before.cfg
      BY <1>1, <1>3 DEF SameRead, Visiting, PatchStatus
    <2>2. p \in obj.cfg
      BY <1>1, <2>1 DEF CopyCfgInv, TrueCfg, CfgTrue
    <2> QED
      BY <1>3, <2>2 DEF MergeParts
  <1> QED
    BY <1>2, <1>3, StoredCfgStep DEF BaseInv

\* Every part of the configuration behaves as ConfigPart says, in the stored
\* object and the VMs together, until a VM vanishes or a stale object is read:
\* what status records was applied, and is never taken back.
THEOREM ConfigPartsKept == Spec => ImplementsConfigParts
  <1>1. Init => \A p \in Parts \ {"vncRead"} : Part(p)!Init
    <2>1. Created.cfg = {}
      BY DEF Created, Blank
    <2> QED
      BY <2>1 DEF Init, Part!Init
  <1>2. ASSUME TypeOK, BaseInv, FinalizerInv, CopyCfgInv, ConfigInv, AppliedInv, [Next]_vars,
               Calm', NEW p \in Parts \ {"vncRead"}
        PROVE  [Part(p)!Next]_(Part(p)!vars)
    <2>1. /\ p \in Real /\ (Applied(p) => Applied(p)')
          /\ p \in api.cfg => Applied(p)
      BY <1>2, AppliedStep DEF Real, AppliedInv, Versions
    <2>2. p \in api'.cfg => Applied(p)'
      <3>1. \A w \in Versions' : p \in w.cfg => Applied(p)'
        BY <1>2, <2>1, AppliedStep DEF AppliedInv
      <3> QED
        BY <3>1 DEF Versions
    <2>3. p \in api.cfg => p \in api'.cfg
      BY <1>2, <2>1, RecordStays
    <2>4. CASE p \in api.cfg
      BY <2>1, <2>2, <2>3, <2>4 DEF Part!vars, Applied
    <2>5. CASE p \notin api.cfg /\ p \notin api'.cfg
      BY <2>5 DEF Part!Next, Part!Write
    <2>6. CASE p \notin api.cfg /\ p \in api'.cfg
      BY <2>2, <2>6 DEF Part!Next, Part!Record, Applied
    <2> QED
      BY <2>4, <2>5, <2>6
  <1>3. TypeOK /\ BaseInv /\ FinalizerInv /\ CopyCfgInv /\ ConfigInv /\ AppliedInv /\ [Next]_vars
          => [ upsets' \cap {"vmGone", "stale"} = {} =>
                  \A p \in Parts \ {"vncRead"} : [Part(p)!Next]_(Part(p)!vars) ]_vars
    BY <1>2 DEF Calm
  <1> QED
    BY <1>1, <1>3, TypeCorrect, BaseInvariant, FinalizerInvariant, CopyCfgInvariant,
       ConfigInvariant, AppliedInvariant, PTL DEF Spec, ImplementsConfigParts

=============================================================================
