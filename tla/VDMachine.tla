------------------------------ MODULE VDMachine ------------------------------
(***************************************************************************)
(* The life of one VDMachine object under VDMachineReconciler              *)
(* (internal/controller/vdmachine_controller.go).                          *)
(*                                                                         *)
(* Three parties meet here: the Kubernetes API server, which stores the    *)
(* object; the controller, which reads the object from an informer cache   *)
(* that may lag, works on a private copy and writes back the difference    *)
(* as merge patches; and vmrest, which clones, powers and deletes the      *)
(* virtual machine.  Reconcile is cut at every call that leaves the        *)
(* process, because that is where other parties, a crash or a failed call  *)
(* can intervene.  controller-runtime runs at most one Reconcile per key   *)
(* and one worker per controller, so there is one program counter.         *)
(***************************************************************************)
EXTENDS Naturals, Sequences, FiniteSets

CONSTANTS
    VMs,         \* the ids vmrest can give to clones
    Nil,         \* a nil pointer in the object
    HasNetwork,  \* whether spec.network is set
    InfraFirst,  \* whether bootstrap data only appears once the cluster is provisioned
    Upsets,      \* the kinds of adverse events that may happen
    MaxUpsets,   \* bound: how many of them may happen in one behaviour
    MaxLag       \* bound: how many versions the informer may be behind

UpsetKinds ==
    { "call",         \* a vmrest call or an API read fails without effect
      "lostReply",    \* a call takes effect but the controller sees an error
      "patch",        \* a patch is refused by, or never reaches, the API server
      "crash",        \* the manager stops and is started again
      "stale",        \* Reconcile reads the object from a cache that lags
      "staleCluster", \* Reconcile reads an outdated Cluster, or Machine
      "earlyDelete",  \* the object is deleted before its finalizer is stored
      "vmGone",       \* the VM is deleted behind the controller's back
      "guestOff",     \* the VM is shut down behind the controller's back
      "slowOff",      \* vmrest acknowledges "off" before the VM is off
      "noAddress",    \* the IPAM provider has not answered yet
      "pause" }       \* the owning Cluster is paused, or cannot be read

ASSUME ConstantsAssumption ==
    /\ Nil \notin VMs
    /\ HasNetwork \in BOOLEAN
    /\ InfraFirst \in BOOLEAN
    /\ Upsets \subseteq UpsetKinds
    /\ MaxUpsets \in Nat
    /\ MaxLag \in Nat \ {0}

VARIABLES
    api,           \* the object as the API server stores it
    pending,       \* versions the watch has not delivered yet, oldest first
    cache,         \* the version the informer cache holds
    queued,        \* the key waits in the work queue
    timer,         \* a delayed or rate-limited re-add of the key is pending
    pc,            \* where Reconcile is
    obj,           \* vdMachine, Reconcile's private copy
    before,        \* what the patch helper remembers of the object
    gate,          \* infrastructure provisioned and bootstrap data named, as read
    result,        \* what Reconcile will return
    capi,          \* what Cluster API says in the Cluster and the Machine
    power,         \* vmrest: the VM of each id
    configured,    \* vmrest: the parts of its configuration each VM has received
    online,        \* vmrest: VMs whose guest reports addresses
    upsets,        \* history: the kinds of adverse events so far
    nUpsets        \* history: their number

storeVars  == <<api, pending, cache>>
queueVars  == <<queued, timer>>
workerVars == <<pc, obj, before, gate, result>>
vmVars     == <<power, configured, online>>
histVars   == <<upsets, nUpsets>>
vars == <<storeVars, queueVars, workerVars, capi, vmVars, histVars>>

-----------------------------------------------------------------------------
(* The object.  owner, del and fin are metadata; vmID and providerID are     *)
(* spec; the rest is status.  providerID is kept as the id in its URL.  cfg  *)
(* holds the parts of the configuration that status records as wanted;       *)
(* addresses holds the VM whose addresses status lists, and stands for       *)
(* status.ready and status.initialization.provisioned, set with it.          *)

PowerStates == {"poweredOff", "poweredOn"}

\* "bootstrap" is status.initialization.bootstrapDataProvided; "vncRead" says
\* that status.vnc holds what the VM had before it was configured.
Parts == {"hardware", "adapters", "folders", "vncRead", "vnc", "bootstrap"}

Object ==
    [ exists : BOOLEAN, owner : BOOLEAN, del : BOOLEAN, fin : BOOLEAN,
      vmID : VMs \cup {Nil}, providerID : VMs \cup {Nil},
      state : PowerStates \cup {Nil},
      cfg : SUBSET Parts, addresses : VMs \cup {Nil} ]

Blank ==
    [ exists |-> FALSE, owner |-> FALSE, del |-> FALSE, fin |-> FALSE,
      vmID |-> Nil, providerID |-> Nil, state |-> Nil,
      cfg |-> {}, addresses |-> Nil ]

Created == [Blank EXCEPT !.exists = TRUE]

Steps ==
    { "idle", "getPowerState", "patchState", "dispatch", "createVM",
      "hardware", "adapters", "ipam", "folders", "vnc", "bootstrap", "powerOn",
      "addresses", "powerOff", "confirmOff", "deleteVM", "patchSpec", "patchStatus" }

\* The type invariant: in particular status.state only ever holds a power state
\* that vmrest reports, and every version on its way is an object.
TypeOK ==
    /\ api \in Object /\ cache \in Object /\ pending \in Seq(Object)
    /\ queued \in BOOLEAN /\ timer \in BOOLEAN
    /\ pc \in Steps /\ obj \in Object /\ before \in Object
    /\ gate \in BOOLEAN /\ result \in {"done", "requeue", "error"}
    /\ capi \in [infra : BOOLEAN, secret : BOOLEAN, paused : BOOLEAN]
    /\ power \in [VMs -> {"none", "off", "on", "stopping", "gone"}]
    /\ configured \in [VMs -> SUBSET Parts] /\ online \subseteq VMs
    /\ upsets \subseteq UpsetKinds /\ nUpsets \in Nat

Init ==
    /\ api = Created /\ pending = <<Created>> /\ cache = Blank
    /\ queued = FALSE /\ timer = FALSE
    /\ pc = "idle" /\ obj = Blank /\ before = Blank /\ gate = FALSE /\ result = "done"
    /\ capi = [infra |-> FALSE, secret |-> FALSE, paused |-> FALSE]
    /\ power = [v \in VMs |-> "none"]
    /\ configured = [v \in VMs |-> {}] /\ online = {}
    /\ upsets = {} /\ nUpsets = 0

-----------------------------------------------------------------------------
(* Adverse events are counted, so that a bounded number of them happens.     *)

Upset(kind) ==
    /\ kind \in Upsets
    /\ nUpsets < MaxUpsets
    /\ upsets' = upsets \cup {kind}
    /\ nUpsets' = nUpsets + 1

NoUpset == UNCHANGED histVars

(* The API server.  A patch that changes nothing makes no new version; an    *)
(* object that is being deleted goes once its last finalizer is removed.     *)

Store(o) ==
    LET kept == IF o.del /\ ~o.fin THEN [o EXCEPT !.exists = FALSE] ELSE o IN
    /\ api' = kept
    /\ IF kept = api
       THEN pending' = pending
       ELSE Len(pending) < MaxLag /\ pending' = Append(pending, kept)
    /\ cache' = cache

(* helper.Patch sends a merge patch of the fields that differ from what      *)
(* NewHelper saw; the snapshot is not renewed between two calls.             *)

Merge(stored, saw, want) == IF want # saw THEN want ELSE stored

\* The parts of the configuration are fields of their own in status.
MergeParts(stored, saw, want) == (stored \cup (want \ saw)) \ (saw \ want)

SpecDiff ==
    <<before.fin, before.vmID, before.providerID>> # <<obj.fin, obj.vmID, obj.providerID>>

StatusDiff ==
    <<before.state, before.cfg, before.addresses>> # <<obj.state, obj.cfg, obj.addresses>>

MergeSpec ==
    [api EXCEPT !.fin = Merge(api.fin, before.fin, obj.fin),
                !.vmID = Merge(api.vmID, before.vmID, obj.vmID),
                !.providerID = Merge(api.providerID, before.providerID, obj.providerID)]

MergeStatus ==
    [api EXCEPT !.state = Merge(api.state, before.state, obj.state),
                !.cfg = MergeParts(api.cfg, before.cfg, obj.cfg),
                !.addresses = Merge(api.addresses, before.addresses, obj.addresses)]

(* vmrest.                                                                   *)

Present(v) == power[v] \in {"off", "on", "stopping"}

PowerState(v) == IF power[v] = "off" THEN "poweredOff" ELSE "poweredOn"

-----------------------------------------------------------------------------
(* The watch, the work queue and Cluster API.                                *)

\* The informer applies the next version and its handler enqueues the key.
Deliver ==
    /\ pending # <<>>
    /\ cache' = Head(pending) /\ pending' = Tail(pending) /\ queued' = TRUE
    /\ UNCHANGED <<api, timer, workerVars, capi, vmVars, histVars>>

\* RequeueAfter or the rate limiter adds the key again.
TimerFires ==
    /\ timer
    /\ timer' = FALSE /\ queued' = TRUE
    /\ UNCHANGED <<storeVars, workerVars, capi, vmVars, histVars>>

\* Any update of the owning Machine enqueues the key.
MachineEvent ==
    /\ ~queued
    /\ queued' = TRUE
    /\ UNCHANGED <<storeVars, timer, workerVars, capi, vmVars, histVars>>

\* The Machine controller makes the Machine the owner of the VDMachine.
SetOwnerRef ==
    /\ api.exists /\ ~api.owner
    /\ Store([api EXCEPT !.owner = TRUE])
    /\ UNCHANGED <<queueVars, workerVars, capi, vmVars, histVars>>

\* Cluster.status.initialization.infrastructureProvisioned turns true; the
\* VDMachine controller watches Machines, not Clusters.
ClusterProvisioned ==
    /\ ~capi.infra
    /\ capi' = [capi EXCEPT !.infra = TRUE]
    /\ UNCHANGED <<storeVars, queueVars, workerVars, vmVars, histVars>>

\* Machine.spec.bootstrap.dataSecretName is set: an update of the Machine.
BootstrapDataReady ==
    /\ ~capi.secret /\ (InfraFirst => capi.infra)
    /\ capi' = [capi EXCEPT !.secret = TRUE]
    /\ queued' = TRUE
    /\ UNCHANGED <<storeVars, timer, workerVars, vmVars, histVars>>

Pause ==
    /\ ~capi.paused /\ Upset("pause")
    /\ capi' = [capi EXCEPT !.paused = TRUE]
    /\ UNCHANGED <<storeVars, queueVars, workerVars, vmVars>>

Unpause ==
    /\ capi.paused
    /\ capi' = [capi EXCEPT !.paused = FALSE]
    /\ UNCHANGED <<storeVars, queueVars, workerVars, vmVars, histVars>>

\* The Machine controller, or a user, deletes the VDMachine.
Delete ==
    /\ api.exists /\ ~api.del
    /\ IF api.fin THEN NoUpset ELSE Upset("earlyDelete")
    /\ Store([api EXCEPT !.del = TRUE])
    /\ UNCHANGED <<queueVars, workerVars, capi, vmVars>>

(* What happens to VMs without the controller.                               *)

VMGone(v) ==
    /\ Present(v) /\ Upset("vmGone")
    /\ power' = [power EXCEPT ![v] = "gone"] /\ online' = online \ {v}
    /\ UNCHANGED <<storeVars, queueVars, workerVars, capi, configured>>

GuestOff(v) ==
    /\ power[v] = "on" /\ Upset("guestOff")
    /\ power' = [power EXCEPT ![v] = "off"] /\ online' = online \ {v}
    /\ UNCHANGED <<storeVars, queueVars, workerVars, capi, configured>>

Stops(v) ==
    /\ power[v] = "stopping"
    /\ power' = [power EXCEPT ![v] = "off"] /\ online' = online \ {v}
    /\ UNCHANGED <<storeVars, queueVars, workerVars, capi, configured, histVars>>

GuestUp(v) ==
    /\ power[v] = "on" /\ v \notin online
    /\ online' = online \cup {v}
    /\ UNCHANGED <<storeVars, queueVars, workerVars, capi, power, configured, histVars>>

-----------------------------------------------------------------------------
(* Reconcile.  Goto moves on with a new private copy; Return runs the        *)
(* deferred helper.Patch.  A panic unwinds through that defer too and is     *)
(* recovered by controller-runtime, so it is a return with an error.         *)

Goto(step, o) == pc' = step /\ obj' = o /\ UNCHANGED <<before, gate, result>>

\* Faulty variants: errors are swallowed; RequeueAfter is left out.
Return_DropsErrors(o, r) ==
    pc' = "patchSpec" /\ obj' = o /\ UNCHANGED <<before, gate>>
        /\ result' = IF r = "error" THEN "done" ELSE r

Return_DropsDelays(o, r) ==
    pc' = "patchSpec" /\ obj' = o /\ UNCHANGED <<before, gate>>
        /\ result' = IF r = "requeue" THEN "done" ELSE r

Return(o, r) == pc' = "patchSpec" /\ obj' = o /\ result' = r /\ UNCHANGED <<before, gate>>

LoseReply == Upset("lostReply") /\ Return(obj, "error")

\* Faulty variant: every error is taken for a 404.
CallFails_As404 == Upset("call") /\ Return([obj EXCEPT !.providerID = Nil, !.vmID = Nil], "error")

CallFails == Upset("call") /\ Return(obj, "error")

\* Faulty variants: only one of the two ids is recorded.
Adopt_VmIDOnly(o, v) == [o EXCEPT !.vmID = v]

Adopt_ProviderIDOnly(o, v) == [o EXCEPT !.providerID = v]

\* The copy after a clone, which also reports its hardware.
Adopt(o, v) == [o EXCEPT !.providerID = v, !.vmID = v, !.cfg = @ \ {"hardware"}]

\* Faulty variants: the provider id survives its VM; empty strings, not nil.
Forget_VmIDOnly(o) == [o EXCEPT !.vmID = Nil]

Forget_Empty(o) == [o EXCEPT !.providerID = "", !.vmID = ""]

\* The copy after vmrest no longer knows the VM.
Forget(o) == [o EXCEPT !.providerID = Nil, !.vmID = Nil]

\* Faulty variant: the VM is started before it has its bootstrap data.
Following_PowerFirst ==
    [hardware |-> "adapters", adapters |-> "ipam", ipam |-> "folders", folders |-> "vnc",
     vnc |-> "powerOn", bootstrap |-> "addresses", powerOn |-> "bootstrap"]

\* The order of the calls of reconcileNormal once a VM exists.
Following ==
    [hardware |-> "adapters", adapters |-> "ipam", ipam |-> "folders", folders |-> "vnc",
     vnc |-> "bootstrap", bootstrap |-> "powerOn", powerOn |-> "addresses"]

\* Steps that only touch vmrest and the private copy.
Elsewhere == UNCHANGED <<storeVars, queueVars, capi>>

\* Return before the patch helper exists: no object, no owner, or paused.
Ignored(o) == ~o.exists \/ ~o.owner \/ capi.paused

\* Faulty variant: the cluster infrastructure is not waited for.
GateOpen_SecretOnly == capi.secret

\* The early returns of reconcileNormal, on what the visit read.
GateOpen == capi.infra /\ capi.secret

\* The worker takes the key and reads the object, the Machine and the Cluster.
\* Each comes from an informer of its own: the object may be outdated, or the
\* other two, so that the gates are found closed.
Begin ==
    /\ pc = "idle" /\ queued
    /\ queued' = FALSE
    /\ \/ /\ \E open \in {GateOpen, FALSE} :
                /\ IF open # GateOpen THEN pending = <<>> /\ Upset("staleCluster")
                   ELSE IF pending = <<>> THEN NoUpset ELSE Upset("stale")
                /\ IF Ignored(cache)
                   THEN UNCHANGED workerVars
                   ELSE /\ pc' = IF cache.vmID = Nil THEN "dispatch" ELSE "getPowerState"
                        /\ obj' = cache /\ before' = cache
                        /\ gate' = open
                        /\ result' = "done"
          /\ UNCHANGED timer
       \/ Upset("call") /\ timer' = TRUE /\ UNCHANGED workerVars
    /\ UNCHANGED <<storeVars, capi, vmVars>>

GetPowerState ==
    /\ pc = "getPowerState"
    /\ \/ /\ Present(obj.vmID) /\ NoUpset
          /\ Goto("patchState", [obj EXCEPT !.state = PowerState(obj.vmID)])
       \/ /\ power[obj.vmID] = "gone" /\ NoUpset
          /\ Return(Forget(obj), "done")
       \/ CallFails
    /\ UNCHANGED vmVars /\ Elsewhere

\* helper.Patch in mid-flight: only status.state can differ so far.
PatchState ==
    /\ pc = "patchState"
    /\ \/ /\ ~StatusDiff /\ NoUpset
          /\ Goto("dispatch", obj) /\ UNCHANGED storeVars
       \/ /\ StatusDiff /\ api.exists
          /\ Store(MergeStatus)
          /\ \/ NoUpset /\ Goto("dispatch", obj)
             \/ LoseReply
       \/ /\ StatusDiff /\ ~api.exists /\ NoUpset
          /\ Return(obj, "error") /\ UNCHANGED storeVars
       \/ /\ StatusDiff /\ Upset("patch")
          /\ Return(obj, "error") /\ UNCHANGED storeVars
    /\ UNCHANGED <<queueVars, capi, vmVars>>

\* The finalizer goes on the private copy of every object that is not deleted.
\* Faulty variant: no finalizer.
AddFinalizer_Never(o) == o

AddFinalizer(o) == [o EXCEPT !.fin = TRUE]

RemoveFinalizer(o) == [o EXCEPT !.fin = FALSE]

\* Faulty variant: the finalizer is released before the VM is dealt with.
DispatchDelete_Releases ==
    IF obj.vmID = Nil
    THEN Return(RemoveFinalizer(obj), "done")
    ELSE Goto(IF obj.state # "poweredOff" THEN "powerOff" ELSE "deleteVM", RemoveFinalizer(obj))

\* reconcileDelete up to its first call.
DispatchDelete ==
    IF obj.vmID = Nil
    THEN Return(RemoveFinalizer(obj), "done")
    ELSE Goto(IF obj.state # "poweredOff" THEN "powerOff" ELSE "deleteVM", obj)

\* reconcileNormal up to its first call.
DispatchNormal ==
    IF ~gate
    THEN Return(AddFinalizer(obj), "done")
    ELSE Goto(IF obj.vmID = Nil THEN "createVM" ELSE "hardware", AddFinalizer(obj))

Dispatch ==
    /\ pc = "dispatch"
    /\ IF obj.del THEN DispatchDelete ELSE DispatchNormal
    /\ NoUpset /\ UNCHANGED vmVars /\ Elsewhere

CreateVM ==
    /\ pc = "createVM"
    /\ \/ \E v \in VMs :
            /\ power[v] = "none"
            /\ power' = [power EXCEPT ![v] = "off"]
            /\ (NoUpset /\ Return(Adopt(obj, v), "done")) \/ LoseReply
       \/ CallFails /\ UNCHANGED power
    /\ UNCHANGED <<configured, online>> /\ Elsewhere

(* The parts of the configuration.  Each handler does nothing when status    *)
(* records its part; otherwise it reads or writes the VM.                    *)

Recorded(p) == p \in obj.cfg

Record(ps) == [obj EXCEPT !.cfg = @ \cup ps]

Apply(p) == configured' = [configured EXCEPT ![obj.vmID] = @ \cup {p}]

\* Faulty variant: status is updated before the call, not after it.
VMCallFails_Recorded ==
    \/ ~Present(obj.vmID) /\ NoUpset /\ Return(Record({pc} \cap Parts), "error")
    \/ Upset("call") /\ Return(Record({pc} \cap Parts), "error")

\* The VM is unknown to vmrest, or the call fails.
VMCallFails ==
    \/ ~Present(obj.vmID) /\ NoUpset /\ Return(obj, "error")
    \/ CallFails

Hardware ==
    /\ pc = "hardware"
    /\ \/ /\ Recorded("hardware") /\ NoUpset
          /\ Goto(Following.hardware, obj) /\ UNCHANGED configured
       \/ /\ ~Recorded("hardware") /\ Present(obj.vmID) /\ Apply("hardware")
          /\ (NoUpset /\ Goto(Following.hardware, Record({"hardware"}))) \/ LoseReply
       \/ ~Recorded("hardware") /\ VMCallFails /\ UNCHANGED configured
    /\ UNCHANGED <<power, online>> /\ Elsewhere

\* The adapters that GetAllNICDevices returns are recorded before the missing
\* ones are written, so it takes one visit to write and one to record.
Adapters ==
    /\ pc = "adapters"
    /\ \/ /\ Recorded("adapters") /\ NoUpset
          /\ Goto(Following.adapters, obj) /\ UNCHANGED configured
       \/ /\ ~Recorded("adapters") /\ ~HasNetwork /\ Present(obj.vmID) /\ NoUpset
          /\ Goto(Following.adapters, Record({"adapters"})) /\ UNCHANGED configured
       \/ /\ ~Recorded("adapters") /\ HasNetwork /\ Present(obj.vmID)
          /\ "adapters" \in configured[obj.vmID] /\ NoUpset
          /\ Return(Record({"adapters"}), "requeue") /\ UNCHANGED configured
       \/ /\ ~Recorded("adapters") /\ HasNetwork /\ Present(obj.vmID)
          /\ "adapters" \notin configured[obj.vmID] /\ Apply("adapters")
          /\ (NoUpset /\ Return(obj, "requeue")) \/ LoseReply
       \/ ~Recorded("adapters") /\ VMCallFails /\ UNCHANGED configured
    /\ UNCHANGED <<power, online>> /\ Elsewhere

\* Claims are looked up on every visit; a missing address is waited for.
NetworkAddresses ==
    /\ pc = "ipam"
    /\ \/ NoUpset /\ Goto(Following.ipam, obj)
       \/ HasNetwork /\ Upset("noAddress") /\ Return(obj, "requeue")
       \/ HasNetwork /\ CallFails
    /\ UNCHANGED vmVars /\ Elsewhere

\* One visit to create the folders, one to find that they are there.
SharedFolders ==
    /\ pc = "folders"
    /\ \/ /\ Recorded("folders") /\ NoUpset
          /\ Goto(Following.folders, obj) /\ UNCHANGED configured
       \/ /\ ~Recorded("folders") /\ Present(obj.vmID)
          /\ "folders" \in configured[obj.vmID] /\ NoUpset
          /\ Goto(Following.folders, Record({"folders"})) /\ UNCHANGED configured
       \/ /\ ~Recorded("folders") /\ Present(obj.vmID)
          /\ "folders" \notin configured[obj.vmID] /\ Apply("folders")
          /\ (NoUpset /\ Return(obj, "requeue")) \/ LoseReply
       \/ ~Recorded("folders") /\ VMCallFails /\ UNCHANGED configured
    /\ UNCHANGED <<power, online>> /\ Elsewhere

\* The first visit only reads the settings of the VM into status.vnc.
Vnc ==
    /\ pc = "vnc"
    /\ \/ /\ Recorded("vnc") /\ NoUpset
          /\ Goto(Following.vnc, obj) /\ UNCHANGED configured
       \/ /\ ~Recorded("vncRead") /\ Present(obj.vmID) /\ NoUpset
          /\ Return(Record({"vncRead"} \cup (configured[obj.vmID] \cap {"vnc"})), "requeue")
          /\ UNCHANGED configured
       \/ /\ Recorded("vncRead") /\ ~Recorded("vnc") /\ Present(obj.vmID) /\ Apply("vnc")
          /\ (NoUpset /\ Goto(Following.vnc, Record({"vnc"}))) \/ LoseReply
       \/ ~Recorded("vnc") /\ VMCallFails /\ UNCHANGED configured
    /\ UNCHANGED <<power, online>> /\ Elsewhere

\* The dereferences of spec.network and spec.providerID in reconcileBootstrapData.
BootstrapPanics == ~HasNetwork \/ obj.providerID = Nil

Bootstrap ==
    /\ pc = "bootstrap"
    /\ \/ /\ Recorded("bootstrap") /\ NoUpset
          /\ Goto(Following.bootstrap, obj) /\ UNCHANGED configured
       \/ /\ ~Recorded("bootstrap") /\ ~BootstrapPanics /\ Present(obj.vmID)
          /\ Apply("bootstrap")
          /\ (NoUpset /\ Goto(Following.bootstrap, Record({"bootstrap"}))) \/ LoseReply
       \/ /\ ~Recorded("bootstrap") /\ BootstrapPanics /\ NoUpset
          /\ Return(obj, "error") /\ UNCHANGED configured
       \/ ~Recorded("bootstrap") /\ VMCallFails /\ UNCHANGED configured
    /\ UNCHANGED <<power, online>> /\ Elsewhere

PowerOn ==
    /\ pc = "powerOn"
    /\ \/ /\ obj.state # "poweredOff" /\ NoUpset
          /\ Goto(Following.powerOn, obj) /\ UNCHANGED power
       \/ /\ obj.state = "poweredOff" /\ Present(obj.vmID)
          /\ power' = [power EXCEPT ![obj.vmID] = "on"]
          /\ \/ NoUpset /\ Goto(Following.powerOn, [obj EXCEPT !.state = "poweredOn"])
             \/ LoseReply
       \/ /\ obj.state = "poweredOff" /\ ~Present(obj.vmID) /\ NoUpset
          /\ Goto(Following.powerOn, [obj EXCEPT !.providerID = Nil]) /\ UNCHANGED power
       \/ obj.state = "poweredOff" /\ CallFails /\ UNCHANGED power
    /\ UNCHANGED <<configured, online>> /\ Elsewhere

\* reconcileAddresses, and the ten-second requeue that ends reconcileNormal.
\* With spec.network but no ethernets status.ready is set beside an empty list,
\* which the model does not tell from a list of addresses.
Addresses ==
    /\ pc = "addresses"
    /\ \/ /\ obj.addresses # Nil /\ NoUpset
          /\ Return(obj, "requeue")
       \/ /\ obj.addresses = Nil /\ obj.vmID \in online /\ NoUpset
          /\ Return([obj EXCEPT !.addresses = obj.vmID], "requeue")
       \/ /\ obj.addresses = Nil /\ obj.vmID \notin online /\ Present(obj.vmID) /\ NoUpset
          /\ Return(obj, "requeue")
       \/ obj.addresses = Nil /\ VMCallFails
    /\ UNCHANGED vmVars /\ Elsewhere

\* A 404 releases the finalizer and still returns the error.
PowerOff ==
    /\ pc = "powerOff"
    /\ \/ /\ Present(obj.vmID)
          /\ power' = [power EXCEPT ![obj.vmID] = "off"] /\ online' = online \ {obj.vmID}
          /\ (NoUpset /\ Goto("confirmOff", obj)) \/ LoseReply
       \/ /\ Present(obj.vmID) /\ Upset("slowOff")
          /\ power' = [power EXCEPT ![obj.vmID] = "stopping"] /\ online' = online
          /\ Goto("confirmOff", obj)
       \/ /\ ~Present(obj.vmID) /\ NoUpset
          /\ Return(RemoveFinalizer(obj), "error") /\ UNCHANGED <<power, online>>
       \/ CallFails /\ UNCHANGED <<power, online>>
    /\ UNCHANGED <<configured>> /\ Elsewhere

\* Whatever the VM now reports, Reconcile returns without asking for a requeue.
ConfirmOff ==
    /\ pc = "confirmOff"
    /\ \/ /\ Present(obj.vmID) /\ NoUpset
          /\ Return([obj EXCEPT !.state = PowerState(obj.vmID)], "done")
       \/ /\ ~Present(obj.vmID) /\ NoUpset
          /\ Return(RemoveFinalizer(obj), "error")
       \/ CallFails
    /\ UNCHANGED vmVars /\ Elsewhere

DeleteVM ==
    /\ pc = "deleteVM"
    /\ \/ /\ Present(obj.vmID)
          /\ power' = [power EXCEPT ![obj.vmID] = "gone"] /\ online' = online \ {obj.vmID}
          /\ (NoUpset /\ Return(RemoveFinalizer(obj), "done")) \/ LoseReply
       \/ VMCallFails /\ UNCHANGED <<power, online>>
    /\ UNCHANGED <<configured>> /\ Elsewhere

-----------------------------------------------------------------------------
(* The deferred helper.Patch: first metadata and spec, then status, whatever *)
(* became of the first.                                                      *)

PatchSpec ==
    /\ pc = "patchSpec" /\ pc' = "patchStatus"
    /\ \/ /\ ~SpecDiff /\ NoUpset
          /\ UNCHANGED <<storeVars, result>>
       \/ /\ SpecDiff /\ api.exists
          /\ Store(MergeSpec)
          /\ \/ NoUpset /\ UNCHANGED result
             \/ Upset("lostReply") /\ result' = "error"
       \/ /\ SpecDiff /\ ~api.exists /\ NoUpset
          /\ result' = "error" /\ UNCHANGED storeVars
       \/ /\ SpecDiff /\ Upset("patch")
          /\ result' = "error" /\ UNCHANGED storeVars
    /\ UNCHANGED <<queueVars, obj, before, gate, capi, vmVars>>

\* A status patch that finds no object is forgiven once the copy is finalized.
Forgiven == obj.del /\ ~obj.fin

Idle == pc' = "idle" /\ obj' = Blank /\ before' = Blank /\ gate' = FALSE /\ result' = "done"

\* Reconcile returns: an error or a RequeueAfter adds the key again later.
Finish(r) == Idle /\ timer' = (timer \/ r # "done")

PatchStatus ==
    /\ pc = "patchStatus"
    /\ \/ /\ ~StatusDiff /\ NoUpset
          /\ Finish(result) /\ UNCHANGED storeVars
       \/ /\ StatusDiff /\ api.exists
          /\ Store(MergeStatus)
          /\ \/ NoUpset /\ Finish(result)
             \/ Upset("lostReply") /\ Finish("error")
       \/ /\ StatusDiff /\ ~api.exists /\ NoUpset
          /\ Finish(IF Forgiven THEN result ELSE "error") /\ UNCHANGED storeVars
       \/ /\ StatusDiff /\ Upset("patch")
          /\ Finish("error") /\ UNCHANGED storeVars
    /\ UNCHANGED <<queued, capi, vmVars>>

\* The manager dies at any point and starts again: private copies, queue and
\* timers are lost, the cache is listed afresh and every key is enqueued.
Crash ==
    /\ Upset("crash")
    /\ Idle
    /\ queued' = TRUE /\ timer' = FALSE
    /\ cache' = api /\ pending' = <<>>
    /\ UNCHANGED <<api, capi, vmVars>>

-----------------------------------------------------------------------------
Reconcile ==
    \/ Begin \/ GetPowerState \/ PatchState \/ Dispatch
    \/ CreateVM \/ Hardware \/ Adapters \/ NetworkAddresses \/ SharedFolders \/ Vnc
    \/ Bootstrap \/ PowerOn \/ Addresses
    \/ PowerOff \/ ConfirmOff \/ DeleteVM
    \/ PatchSpec \/ PatchStatus

Environment ==
    \/ MachineEvent \/ SetOwnerRef \/ ClusterProvisioned \/ BootstrapDataReady
    \/ Pause \/ Unpause \/ Delete \/ Crash
    \/ \E v \in VMs : VMGone(v) \/ GuestOff(v)

Hypervisor == \E v \in VMs : Stops(v) \/ GuestUp(v)

Next == Reconcile \/ Deliver \/ TimerFires \/ Hypervisor \/ Environment

Spec == Init /\ [][Next]_vars

\* The worker and the watch keep running, timers fire, and VMs that were told
\* to start or stop do so.  Nothing is assumed of users or of Cluster API.
Fairness ==
    /\ WF_vars(Reconcile) /\ WF_vars(Deliver) /\ WF_vars(TimerFires)
    /\ \A v \in VMs : WF_vars(Stops(v)) /\ WF_vars(GuestUp(v))

FairSpec == Spec /\ Fairness

-----------------------------------------------------------------------------
(* Safety.                                                                   *)

\* The VMs nobody will ever delete: they exist, but neither the stored object
\* nor the copy on its way to the API server names them.
Orphans ==
    { v \in VMs : /\ Present(v)
                  /\ ~(api.exists /\ api.vmID = v)
                  /\ ~(obj.vmID = v /\ obj.vmID # before.vmID) }

\* A stored VM id is always protected by the machine finalizer, so that an
\* object that names a VM cannot vanish without reconcileDelete.
FinalizerHeld == api.exists /\ api.vmID # Nil => api.fin

\* spec.providerID never names another VM than spec.vmID does.
ProviderIDMatches == api.exists => api.providerID \in {Nil, api.vmID}

LeakKinds == {"lostReply", "patch", "crash", "stale", "earlyDelete"}

\* Failing vmrest calls, VMs deleted or shut down from outside, slow power-off
\* and pausing never leak a VM: a leak takes a crash, a lost reply, a failed
\* patch, a stale read, or a deletion that overtakes the finalizer.
NoLeak == upsets \cap LeakKinds = {} => Orphans = {}

\* Whatever happens, one adverse event leaks at most one VM.
LeaksBounded == Cardinality(Orphans) <= nUpsets

\* A VM only ever runs with its hardware and network configured and its
\* bootstrap data in place, unless VMs vanish or Reconcile reads stale objects.
PreparedBeforePowerOn ==
    upsets \cap {"stale", "vmGone"} = {} =>
        \A v \in VMs : power[v] \in {"on", "stopping"} => Parts \ {"vncRead"} \subseteq configured[v]

\* reconcileBootstrapData dereferences spec.providerID, which PowerOn clears
\* while leaving spec.vmID: the pointer is never nil there.
ProviderIDAtBootstrap ==
    "stale" \notin upsets =>
        (pc = "bootstrap" /\ ~Recorded("bootstrap") /\ Present(obj.vmID) => obj.providerID # Nil)

\* The stored object lets go of a VM, by changing vmID or by disappearing,
\* only when that VM no longer exists.
ReleasedOnlyWhenGone ==
    [][ ("stale" \notin upsets' /\ api.exists /\ api.vmID # Nil
            /\ (api'.vmID # api.vmID \/ ~api'.exists))
        => power[api.vmID] = "gone" ]_vars

\* Once the object is gone and the worker is idle no VM is left behind: the
\* machine finalizer is there to clean up before the object is removed.
FinalizerCleansUp == ~api.exists /\ pc = "idle" => \A v \in VMs : ~Present(v)

\* The addresses in status are those of the VM that spec.vmID names.
AddressesOfTheVM == api.exists /\ api.vmID # Nil => api.addresses \in {Nil, api.vmID}

(* Refinement.                                                               *)

Contract == INSTANCE OneVM WITH
    used  <- {v \in VMs : power[v] # "none"},
    alive <- {v \in VMs : Present(v)},
    held  <- api.vmID,
    ended <- ~api.exists

\* Until the first event that may leak a VM, the controller keeps the promise of
\* OneVM, one VM at a time and none left behind, however calls fail, VMs vanish,
\* stop or are slow to, and pauses and deletions come.
ImplementsOneVM ==
    /\ Contract!Init
    /\ [][ upsets' \cap LeakKinds = {} => [Contract!Next]_(Contract!vars) ]_vars

Part(p) == INSTANCE ConfigPart WITH
    recorded <- p \in api.cfg,
    applied  <- \/ p = "adapters" /\ ~HasNetwork
                \/ \E v \in VMs : p \in configured[v]

\* Until a VM vanishes or a stale object is read, every part of the configuration
\* behaves in the stored object and the VM as the modules of the handlers say:
\* status records a part only when the VM has it (without spec.network there are
\* no adapters to have), whatever failing patches, crashes and lost replies come
\* between the two.
ImplementsConfigParts ==
    /\ \A p \in Parts \ {"vncRead"} : Part(p)!Init
    /\ [][ upsets' \cap {"vmGone", "stale"} = {} =>
            \A p \in Parts \ {"vncRead"} : [Part(p)!Next]_(Part(p)!vars) ]_vars

(* Liveness.                                                                 *)

\* A deleted object is finalized and its VM is gone with it.
DeleteCompletes == (api.exists /\ api.del) ~> ~api.exists

\* Once Cluster API has provided everything, the machine gets its addresses
\* and is ready, unless it is deleted first.  No promise is made after a visit
\* that read an outdated Cluster or Machine: it found the gates closed, asked for
\* no requeue, and may have been the one that the last event woke.
ProvisionCompletes ==
    (api.exists /\ api.owner /\ capi.infra /\ capi.secret)
        ~> (api.addresses # Nil \/ api.del \/ ~api.exists \/ "staleCluster" \in upsets)

\* A ready machine whose VM is shut down from outside is powered on again, and
\* status.state ends up saying so although the patch helper compares with a
\* snapshot that is older than the mid-flight patch.
PowerRestored ==
    \A v \in VMs :
        (api.exists /\ api.addresses # Nil /\ api.vmID = v /\ power[v] = "off")
            ~> \/ power[v] = "on" /\ api.state = "poweredOn"
               \/ api.del \/ ~api.exists \/ api.vmID # v \/ power[v] = "gone"

=============================================================================
