# Verification of cluster-api-provider-vmwaredesktop

TLA+ models of the controllers that turn `VDMachine` objects into virtual
machines of VMware Workstation or Fusion, TLC configurations that check them on
small instances, and TLAPS proofs that hold for all instances. Paths below are
relative to the repository root.

## The system

| Part | State | Operations | Correct when |
|---|---|---|---|
| VDMachine controller (`internal/controller/vdmachine_controller.go`) | none of its own: a private copy of the object during a visit, the patch helper's snapshot | `Reconcile` → `reconcileNormal` (create VM, hardware, adapters, IPAM addresses, shared folders, VNC, bootstrap data, power on, addresses) or `reconcileDelete` (power off, delete) | VMs are never lost, started unprepared or released while they exist; machines become ready; deletions end |
| VDMachine object (`api/v1alpha1/vdmachine_types.go`) | spec (`vmID`, `providerID`, wanted configuration), status (power state, recorded configuration, addresses, ready), finalizer, deletion mark | patches by the controller, owner reference and deletion by Cluster API | the ids agree with each other and with the VM, a VM id is protected by the finalizer |
| API server, informers, work queue, patch helper (external) | stored object, versions not yet delivered, cache, queued keys, timers | store, deliver, requeue | – |
| vmrest and the hypervisor (external) | VMs, their power and configuration | clone, configure, power, delete | – |
| Cluster API (external) | Cluster provisioned or paused, Machine with bootstrap data | owner reference, events for Machines | – |
| VDCluster controller (`internal/controller/vdcluster_controller.go`) | private copy | marks the cluster ready; removes a finalizer | the cluster becomes ready also after a pause |
| IPAM provider (external) | claims, addresses, pool | answers a claim, takes an address back | – |
| Manager (`cmd/main.go`) | – | start-up, wiring | – |

The controller never talks to another one directly. It is woken by changes of
its own object, by changes of the owning Machine, by its own requeues and by a
restart. It is *not* woken by changes of the Cluster.

What is hard here: the object is read from a cache that may lag; a visit makes
many calls, any of which can fail, lose its reply or be cut off by a crash, and
only at the end does a deferred patch store what happened; the object may be
deleted, and the VM may vanish, at any time in between; whether work goes on
depends on who asks for a requeue and which patch causes an event. The full
list, line by line, is `hazards` in `PROJECT.json`.

## The modules

| Module | Models | Relation |
|---|---|---|
| `VDMachine` | one VDMachine object under `VDMachineReconciler`, every handler one step or a few | implements `OneVM`; each part of the configuration implements `ConfigPart` |
| `OneVM` | what a VDMachine promises about VMs | abstract |
| `ConfigPart` | what `reconcileNormal` relies on when a handler configures a part of the VM | abstract |
| `Vnc`, `NetworkAdapters`, `SharedFolders` | `reconcileVnc`, `reconcileNetworkAdapters`, `reconcileSharedFolders`, call by call | each implements `ConfigPart` |
| `Addressing` | `reconcileNetworkAddresses`, `findIpamAddress`, `reconcileBootstrapData` for several machines on one pool | stands alone: it is about sharing |
| `GuestAddresses` | `reconcileAddresses`, `extractAddresses` | stands alone |
| `VDCluster` | one VDCluster object under `VDClusterReconciler` | component of `Provider` |
| `Provider` | both controllers in one manager, with Cluster API between them | EXTENDS `VDMachine`, INSTANCE `VDCluster` |
| `VDMachineProofs`, `VDMachineVMProofs` | theorems about `VDMachine`: types and finalizer; what it promises about VMs | the second EXTENDS the first |
| `ProviderProofs`, `VncProofs`, `NetworkAdaptersProofs`, `SharedFoldersProofs`, `AddressingProofs`, `GuestAddressesProofs` | theorems about the module they are named after | each EXTENDS it |

`MC*` modules give TLC the inputs and, in `MCVDMachine`, the symmetry; the other
modules are instantiated by their cfg alone. Each component has one
passing run with all its properties, `VDMachine` one for safety and one for
liveness.

The split follows the hazards. `VDMachine` is about the life of one object and
one VM under failures, and takes each handler's inner loop as done or not done.
That this is a fair view of the loops is what `ConfigPart` is for: it says that
status records a part only when the VM has it, and that nothing changes a part
once it is recorded. The detailed modules implement it on one side
(`ImplementsConfigPart`), and the actions of `VDMachine` on the other
(`ImplementsConfigParts`).

## VDMachine.tla

One VDMachine object, one worker. controller-runtime never runs two visits for
the same key, so there is one program counter. `Reconcile` is cut at every call
that leaves the process: each action is one call with everything the code does
until the next one.

| Variables | In the program |
|---|---|
| `api`, `pending`, `cache` | the stored object, its versions that the watch has not delivered, the informer's copy |
| `queued`, `timer` | the key in the work queue; a delayed or rate-limited re-add |
| `pc`, `obj`, `before`, `gate`, `result` | the visit: `vdMachine`, the snapshot of `patch.NewHelper`, what was read of Cluster and Machine, what will be returned |
| `capi` | Cluster provisioned, bootstrap secret named, Cluster paused |
| `power`, `configured`, `online` | vmrest: the VM behind each id, the parts of the configuration it received, whether its guest reports addresses |
| `upsets`, `nUpsets` | history of adverse events |

An object is a record of what the decisions depend on. `cfg` holds the parts
(hardware, adapters, folders, VNC, bootstrap data) that status records as
wanted; `addresses` is the VM whose addresses status lists and stands for
`ready` and `initialization.provisioned`, which are set with it (with
`spec.network` but no ethernets the code sets them beside an empty list, lines
362-371, which `VDMachine` does not tell apart and `GuestAddresses` does).
`providerID` is kept as the id inside its URL.

| Actions | Code |
|---|---|
| `Begin` | `Reconcile` up to `NewHelper`, with its early returns |
| `GetPowerState`, `PatchState`, `Dispatch` | the rest of `Reconcile` and the beginnings of `reconcileNormal` and `reconcileDelete` |
| `CreateVM`, `Hardware`, `Adapters`, `NetworkAddresses`, `SharedFolders`, `Vnc`, `Bootstrap`, `PowerOn`, `Addresses` | the handlers `reconcileNormal` calls, in the order `Following` |
| `PowerOff`, `ConfirmOff`, `DeleteVM` | the calls of `reconcileDelete` |
| `PatchSpec`, `PatchStatus` | the deferred `helper.Patch`: two requests, the second sent whatever became of the first |
| `Deliver`, `TimerFires`, `MachineEvent`, `Crash` | informer, work queue, watch on Machines, restart |
| `SetOwnerRef`, `ClusterProvisioned`, `BootstrapDataReady`, `Pause`, `Unpause`, `Delete` | Cluster API and users |
| `VMGone`, `GuestOff`, `Stops`, `GuestUp` | the hypervisor and whoever else uses it |

Points where the model follows the code closely:

* **Patches.** `helper.Patch` sends the fields of the copy that differ from the
  snapshot taken at the start, and the snapshot is not renewed by the patch in
  mid-flight (`Merge`). A patch without a difference sends nothing and causes no
  event. The parts in `cfg` are fields of their own in the patch (`MergeParts`).
  An object with a deletion mark disappears with its last finalizer
  (`Store`).
* **Caches.** A visit may read an object that is several versions behind, and the
  Cluster and Machine come from informers of their own: an outdated one shows the
  gates of `reconcileNormal` closed (upset `staleCluster`).
* **Panics** (a nil `response` after a network error, a nil `spec.network`)
  unwind through the deferred patch and are recovered by controller-runtime, so
  they are returns with an error.
* **404.** `GetPowerState` clears both ids; `PowerOn` clears only the provider
  id and goes on; `PowerOff` and `ConfirmOff` take the finalizer off *and* return
  the error.
* **Two visits.** Adapters are written in one visit and recorded in the next,
  because status takes the adapters as they were read before writing. The first
  VNC visit only reads. A fresh clone resets the recorded hardware and nothing
  else.
* **No requeue** after the gates of `reconcileNormal`, after a power-off, after
  a 404 and after a clone: only the event of the patch brings the key back.

Adverse events are named (`UpsetKinds`), each cfg selects some, and each one
that happens is counted against `MaxUpsets`. That keeps the model finite and
lets properties say which events they survive.

### Properties

* `TypeOK` – the type invariant.
* `FinalizerHeld` – a stored VM id always has the finalizer beside it.
* `ProviderIDMatches` – `spec.providerID` never names another VM than `spec.vmID`.
* `NoLeak` – a VM that nobody will delete only comes from a crash, a lost reply,
  a failed patch, a stale read, or a deletion before the finalizer is stored;
  failing calls, VMs that vanish or stop, slow power-off and pauses are harmless.
* `LeaksBounded` – an adverse event costs at most one VM.
* `PreparedBeforePowerOn` – a running VM has its whole configuration and its
  bootstrap data (unless VMs vanish or stale objects are read, see the finding
  on addresses: status of the old VM is taken for the new one).
* `ProviderIDAtBootstrap` – the nil provider id that `PowerOn` may leave never
  meets the dereference in `reconcileBootstrapData` for a VM that exists.
* `ReleasedOnlyWhenGone` (action) – the stored object drops a VM id, or vanishes
  with it, only when that VM no longer exists.
* `ImplementsOneVM` – the object is an implementation of `OneVM` until the first
  event that can leak a VM (`LeakKinds`; `LeaksBounded` covers what follows).
* `ImplementsConfigParts` – each part of the configuration implements
  `ConfigPart` until a VM vanishes or a stale object is read, after which status
  describes another VM (`recloned_addresses` shows one consequence).
* `DeleteCompletes`, `ProvisionCompletes`, `PowerRestored` (liveness).

### Fairness

`FairSpec` adds weak fairness of the worker (`Reconcile`), of the watch
(`Deliver`), of timers (`TimerFires`) and of VMs reacting to orders (`Stops`,
`GuestUp`). controller-runtime keeps its workers running and its queue loses no
key; a started guest with tools reports addresses. Nothing is assumed of users,
of Cluster API or of adverse events. `MachineEvent` may happen at any time but
is not fair, so no property relies on a lucky event. The ten-hour resync of
informers is left out.

## The handlers

In these modules `pc` is `"idle"` between visits, a visit works on a private
copy (`myStatus`, `mySpec`, `mine`), every call is an action, and the deferred
patch ends the visit. A visit starts whenever the worker is idle and there is
something left to do, because every return brings the key back: errors are
retried, waiting asks for a requeue, and a visit that gets through
`reconcileNormal` asks for one after ten seconds. That is also the fairness:
weak fairness of the handler's steps.

* **`Vnc`.** The two names of a parameter, the first visit that only reads, the
  comparison with its dereferences (`Panics`), generated values in the copy of
  spec, writes in any order, and the two halves of the patch.
  `GoesOnOnlyConfigured`: when the visit goes on to bootstrap data and power-on
  the VM has all settings. The random port can equal the recorded one (upset
  `sameValue`): a crash after a write, that coincidence and a failing write let
  the comparison succeed early, so the safety properties promise nothing once it
  has happened, which the history variable `coincided` remembers. `VncSettles`
  covers it.
* **`NetworkAdapters`.** `eth[n]` is `ethernet<n-1>` with the adapter that each
  of its parameters was written for. `NoneAddedTwice`, `AddedInOrder`,
  `CompleteUntouched` and `BrokenBounded` speak about the index arithmetic
  `startIndex+index` after failures in the middle of an adapter. Taken from how
  the code uses vmrest: an adapter is listed once its `present` parameter is
  there, and one with half of its parameters equals no wanted adapter. The
  template's adapters are numbered without gaps, and wanted adapters have type
  and vmnet.
* **`SharedFolders`.** Folders are maps from id to path; flags do not take part
  in the comparison. `CreateSharedFolder` replaces a folder with the same id, as
  the log line "Creating/updating" at line 922 has it. `WantedStays`: a folder
  that is already as wanted is never taken away on the way.
* **`Addressing`.** Two machines, a pool, one worker; the provider, deletions and
  garbage collection act between any two calls. Claim names are sequences, so
  that joining machine and ethernet with a dash is modelled as it is, and two
  ethernets may be led to one claim: the code takes a claim that it finds for its
  own. The instance has such a claim (machine `m` with ethernet `a-b`, `m-a` with
  `b`), and the two then do share an address. `OwnClaim` names the ethernets for
  which no other leads to the same name; `NoSharedAddress`, `ProvidedComplete` and
  `AddressesReturned` speak about those, and so say that a coinciding name harms
  nobody else. After an address was taken back from its claim (`withdraw`),
  `NoSharedAddress` and `ProvidedComplete` promise nothing: line 447 then leaves
  the address out of the metadata without an error.
  Handlers between the claims and the bootstrap data may end a visit.
  `BootstrapDelivered` needs strong fairness of the visits to each machine and
  of getting past those handlers: the queue is fair, and the other runs show
  that the handlers settle.
* **`GuestAddresses`.** The guest's adapters come up in any order, each with any
  number of IPv4 and IPv6 addresses (`Reports`), for every choice of ethernets with
  `dhcp6: false`, which filters before the parse error is looked at, as in the
  code. `extractAddresses` lists every address and line 362 only counts them, so a
  virtual IP, DHCP beside a static address
  (`templates/cluster-template-talos.yaml:97-103`), IPv6, or an adapter that spec
  does not know can stand for an ethernet whose address is then never listed.
  `EveryEthernetListed` says that these are the only ways to miss one
  (`Accounted`); each of them does occur in the run.

## VDCluster.tla and Provider.tla

`VDCluster` has the same store, watch, queue and patch as `VDMachine`; since
`Reconcile` calls nobody, a visit is a read and a patch. Unlike the other
controller it is woken when the Cluster is unpaused (`Woken`).

`Provider` runs both with the same budget of adverse events. A crash and a pause
hit both at once; `Provisioned` is Cluster API copying the VDCluster's readiness
into the Cluster, and opens the gate that `VDMachine` reads. It takes Cluster
API to read `status.ready`; the CRDs also carry the label of the v1beta2
contract, for which `VDClusterStatus` has no field (see the hazards).
The property of `VDCluster` is checked here, where the other controller is
at work at the same time: `ReadyCompletes` through a failing patch, a lagging
read, a restart and a pause. `NoVMBeforeCluster` holds in every interleaving, and
`WholeProvisions` takes both objects from adoption to addresses. Its fairness adds Cluster API's
two steps to that of the controllers. Cluster API deletes the VDCluster after the
machines. Nothing in the code adds the finalizer that `reconcileDelete` takes off
(`vdcluster_types.go:25`), so objects start with no finalizer or with one of
another tool; in the first case they go without a visit that sees the deletion.

## Runs

Symmetry of clone ids is used in `machine_safety` only, and no liveness property
is checked under it. Deadlock is checked where the system never stops (`vnc` and
`vnc_half_written`) and not where it may: a deleted machine, a configured part.

| Run | Bounds | Shows |
|---|---|---|
| `machine_safety` | 3 clones, lag 3, any 2 adverse events of all 12 kinds | all safety properties, `ImplementsOneVM`, `ImplementsConfigParts`; 0.8 million states |
| `machine_liveness` | 2 clones, lag 2, any 1 adverse event except slow power-off and pause | `DeleteCompletes`, `ProvisionCompletes`, `PowerRestored` |
| `no_network` | no adverse event, `spec.network` unset | `ProvisionCompletes` fails: nil dereference in every visit |
| `early_delete` | deletion before the finalizer is stored | `FinalizerCleansUp` fails: the first clone is left behind |
| `recloned_addresses` | one VM deleted from outside | `AddressesOfTheVM` fails: the new VM has the old addresses |
| `vnc` | all templates with the three settings under either name or both, 2 values, 3 events; 0.9 million states | `GoesOnOnlyConfigured`, `ImplementsConfigPart`, `VncSettles` |
| `vnc_half_written` | no port and password on the template, one failing call | `VncSettles` fails: the generated values are in spec, status has nil |
| `adapters` | up to 2 template adapters of 3 kinds, lists of up to 3 wanted, 2 events | no adapter twice, in order, none overwritten, broken slots bounded by events, settles |
| `folders` | 3 ids, 2 paths, repeated ids, any folders on the template, 3 events | `WantedStays`, `ImplementsConfigPart`, `FoldersSettle` |
| `addressing` | 2 machines, 5 ethernets, 3 claims of which one is led to twice, 3 addresses, 3 parameters, 1 event; 0.2 million states | `NoSharedAddress`, `ProvidedComplete`, `BootstrapDelivered`, `AddressesReturned` |
| `guest_addresses` | up to 2 ethernets with any choice of `dhcp6: false`, 2 adapters with up to 2 IPv4 and 1 IPv6 address each, 3 events; 0.3 million states | `EveryEthernetListed`, `AddressesRecorded` |
| `provider` | 2 clones, lag 2, 1 of failing patch, crash, stale read, VM gone, VM off, pause; bootstrap data at any time | `ReadyCompletes`, `NoVMBeforeCluster`, `WholeProvisions`; 0.7 million states |

Every passing run checks its module's type invariant as well.

The bounds: an adverse event costs at most one clone, so `MaxUpsets + 1` clones
are as many as can be needed; two events are enough for a failure during the
recovery from another one. A lag of three lets a visit read an object from
before its own last patches.

Handlers: with two events a failure can meet the recovery from another one in
every loop; two template adapters and wanted lists of up to three give every
mix of adapters that are there, missing and repeated; three ids are enough for
a stale, a changed and a right folder at once. Three addresses are what the
claims of the two machines need together, so that an address is reused only
through garbage collection. The code writes four parameters, userdata and metadata
with an encoding each; three are enough for a failure before, between and after
the metadata and its encoding. Fewer ethernets than adapters, as many, and more
addresses than either give every way of filling the count of line 362.

Larger instances were checked once, without a violation, and are not kept as
runs because they take longer: the safety properties with 4 clones and 3 events
(9.6 million states); `PowerRestored` with 3 clones and 2 of shut-down, failing
call, failing patch and crash (0.3 million); `addressing` with all four
parameters (0.4 million); `provider` with failing calls and lost replies added
(1 million).

What the liveness runs leave out, and why. With a slow power-off the deletion can
stop for good, because `reconcileDelete` returns without a requeue and an
unchanged status causes no event (line 1010). After a pause nothing wakes the
controller (line 134). After a visit that read an outdated Cluster or Machine
`ProvisionCompletes` promises nothing: the visit found the gates closed, and if the
last event woke it, nothing follows; `provider` leaves this event out. Bootstrap data that exist before the cluster is
provisioned, as with a user-provided secret, leave the machine waiting after line
188 although the comment at line 187 speaks of waiting "for the cluster object to
be updated": Clusters are not watched, and only an unrelated event or the resync
of informers goes on. `InfraFirst` keeps `machine_liveness` to the other order,
that of a bootstrap provider which waits for the infrastructure, and the safety
run, like `provider`, has both. A template VM without
`RemoteDisplay.vnc.enabled` makes `reconcileVnc` panic in every visit (line 708),
with the same cause as `vnc_half_written`. All are listed as hazards.

## Proofs

The theorems hold for every value of the constants that the modules' `ASSUME`s
admit: any set of VMs, machines, ids or adapters, any list in spec, any
selection of adverse events and any bound on their number. Every safety property
that a passing run checks, invariant or action property, is a theorem, and so are
all refinements. Each one was checked by TLC first, and so was each inductive
invariant, on the instances of the runs.

### One VDMachine: `VDMachineProofs`, `VDMachineVMProofs`

From `ConstantsAssumption` alone (the nil value is no VM, the selected events are
known kinds, the bounds are numbers):

| Theorem | States |
|---|---|
| `TypeCorrect`, `FinalizerAlwaysHeld` | `TypeOK`, `FinalizerHeld` |
| `NothingLeaks`, `LeaksAreBounded` | `NoLeak`, `LeaksBounded` |
| `ReleasesOnlyGone` | `ReleasedOnlyWhenGone` |
| `IDsAgree`, `ProviderIDThere` | `ProviderIDMatches`, `ProviderIDAtBootstrap` |
| `NeverOnUnprepared` | `PreparedBeforePowerOn` |
| `KeepsToOneVM`, `ConfigPartsKept` | `ImplementsOneVM`, `ImplementsConfigParts` |

The type invariant is split into the types of store, worker, VMs, history and
queue, and the actions into those that talk to vmrest, the patches, and the rest.

`FinalizerHeld` is not inductive, because what a patch stores depends on an old
snapshot. `FinalizerInv` adds `VersionsFaithful` – no version on its way, in the
cache or in the patch helper shows a finalizer or a deletion mark that the living
object has lost – and `CopySafe` – the worker takes the finalizer off only when
the copy is being deleted, and puts a new VM only into a copy that has it. The
heart is `MergeSafe`: whatever was stored meanwhile, merging the differences of a
safe copy into it leaves an object that has the finalizer, or is being deleted
and vanishes.

The other theorems rest on invariants about the same parties, in layers:

* `BaseInv`, whatever happens: the newest version on the watch is the stored
  object (`WatchInv`), the copy's ids differ from the snapshot's only in the ways
  a visit can make them (`CopyInv`), and every id was once given to a clone
  (`KnownInv`).
* `FreshInv`, as long as no stale object was read: until the patch of spec is
  through, the stored ids and finalizer are those that the visit read, and a
  provider id is only missing when the VM is gone. This gives
  `ReleasesOnlyGone` and `ProviderIDThere`.
* `IDInv` compares *every* version with every older one, since a stale visit
  computes its patch from any two of them: `IDsAgree` holds even then.
* `LeakInv` counts orphans against `nUpsets`, and one more while the visit is in
  debt (`InDebt`): an event may only lead the worker astray, and the VM is lost by
  a later step. It gives both theorems on leaks and the steps of `OneVM`.
* `ConfigInv`, as long as nothing vanished and nothing stale was read: what an
  object records that is not being deleted was written to its own VM (`TrueCfg`), each call of
  `reconcileNormal` is reached only with what the calls before it record
  (`NeedsMet`), and a running VM has it all. A template without `spec.network` has
  no adapters to write, which is why `Part` counts them as applied there.

### The cluster: `ProviderProofs`

`ClusterTypes` and `ClusterFirst` (`ClusterTypeOK`, `NoVMBeforeCluster`): a visit of
the VDMachine that has passed its gate saw a provisioned Cluster, and only a
ready VDCluster makes Cluster API set that. What the visit read may be old; the
invariant `Announced` holds because readiness and provisioning are never taken
back, not even by a patch that is computed on an old copy of the VDCluster.

### The handlers

* `VncProofs`: `VncTyped`, `VncConfigured`, `VncIsPart`. The comparison of spec
  with status is believed, so the invariant has to say that it never succeeds for
  settings the VM lacks, in any mixture of stored and private spec and status:
  while settings are written neither spec equals the stored status (`UndoneInv`),
  the copy of status is the stored one or what the VM holds as it is (`CopyInv`),
  and what was written can be read back (`WrittenInv`). A first version assumed
  nothing about generated values and was not inductive; TLC then found the
  early success of the comparison that `coincided` now sets apart.
* `NetworkAdaptersProofs`: `AdaptersTyped`, `NoAdapterTwice`, `AdaptersInOrder`,
  `CompleteStays`, `FewAreBroken`, `AdaptersArePart`. The heart is `RoomInv`: the
  place that a visit computes from the number of *listed* adapters is the last one
  or a new one, and what stands there already was written for the same wanted
  adapter. Between visits it speaks of the count the next visit will take
  (`AtRestIn`), within a visit of the one it took (`UnderwayIn`), and
  `UnderwayRests` leads from one to the other however the visit ends. On top of it
  stand what a visit has added (`AddedInv`), that what is recorded is there
  (`HaveInv`) and the order of the rest (`OrderInv`).
* `SharedFoldersProofs`: `FoldersTyped`, `WantedFoldersStay`, `FoldersArePart`. A visit
  writes only when what it read differs from spec, and records what it read before
  it wrote (`ReadFirst`), so a status that equals spec was read from a VM that had
  the folders and was not written to since (`RecordedTrue`).
* `AddressingProofs`: `AddressingTyped`, `AddressesNotShared`, `ProvidedIsComplete`,
  for any names of machines and ethernets; what is said of a claim is said of one
  that a single ethernet leads to (`OwnClaim`).
  An address in a VM's metadata is still that of the claim with the machine's
  name (`HeldInv`), a claim belongs to the machine it is named after (`OwnerInv`)
  and an address to one claim (`UniqueInv`); claims go only after the VM
  (`EmptyInv`). For completeness, a visit that renders has waited for every claim
  (`AnsweredInv`, `FoundInv`) and what it has written so far came from one look-up
  (`WrittenInv`, `NodeInv`, `DeliveredInv`).
* `GuestAddressesProofs`: `GuestTyped`, `AllEthernetsListed`, for any numbers of
  ethernets, adapters and addresses. The lemma `EnoughIsAccounted` is about the
  count: a list as long as `spec.network.ethernets` has every ethernet, or two
  addresses of one adapter, or one of an adapter beyond them, by an injection
  between finite sets. `ListedInv` carries it from the visit that counts through
  its patch to the stored list.

### What is not proved

Liveness (`DeleteCompletes`, `ProvisionCompletes`, `PowerRestored`, `ReadyCompletes`,
`WholeProvisions`, `VncSettles`, `AdaptersSettle`, `FoldersSettle`,
`BootstrapDelivered`, `AddressesReturned`, `AddressesRecorded`) stays with TLC:
fairness and ENABLED are out of the prover's reach. So do the disagreements that
the four failing runs show.

## Not modelled

* Several VDMachines at once, except in `Addressing`: they share only vmrest,
  the worker and the pool.
* Edits of the spec by users after creation.
* Routes, name servers, folder flags, address types, and the text of metadata and
  bootstrap data.
* A wanted adapter without type or vmnet, and templates with gaps in their
  adapter numbers: listed as hazards.
* Two managers at once: the deployment runs one, with leader election.
* `cmd/main.go` (flags, certificates, wiring): no state after start-up; a restart
  is `Crash`. Generated code, manifests and templates are data.

## Plan

1. `VDMachine`, its runs and first proofs (done).
2. The handlers in detail, with `ConfigPart` between them and `VDMachine` (done).
3. `VDCluster` and its composition with `VDMachine` (done).
4. `OneVM` and the refinement (done).
5. Proofs of every safety property and refinement (done).
6. What could still be proved: that `VDMachine` alone and within `Provider` have
   the same promises (`Spec`'s invariants as invariants of `WholeSpec`), and the
   lemmas about merging patches for any number of fields.
