--------------------------- MODULE VDMachineProofs ---------------------------
(***************************************************************************)
(* Proofs about VDMachine, for every set of VMs, every selection of        *)
(* adverse events and every bound on their number and on the watch's lag.  *)
(***************************************************************************)
EXTENDS VDMachine, TLAPS

-----------------------------------------------------------------------------
(* Type correctness.                                                         *)

StoreType   == api \in Object /\ cache \in Object /\ pending \in Seq(Object)
WorkerType  == /\ pc \in Steps /\ obj \in Object /\ before \in Object
               /\ gate \in BOOLEAN /\ result \in {"done", "requeue", "error"}
VMType      == /\ power \in [VMs -> {"none", "off", "on", "stopping", "gone"}]
               /\ configured \in [VMs -> SUBSET Parts] /\ online \subseteq VMs
HistoryType == upsets \subseteq UpsetKinds /\ nUpsets \in Nat
QueueType   == /\ queued \in BOOLEAN /\ timer \in BOOLEAN
               /\ capi \in [infra : BOOLEAN, secret : BOOLEAN, paused : BOOLEAN]

\* TypeOK is the conjunction of the types of the parties.
LEMMA TypeParts == TypeOK <=> StoreType /\ WorkerType /\ VMType /\ HistoryType /\ QueueType
  BY DEF TypeOK, StoreType, WorkerType, VMType, HistoryType, QueueType

\* The API server stores objects, and the watch carries them.
LEMMA StoreKeepsType ==
  ASSUME StoreType, NEW o \in Object, Store(o)
  PROVE  StoreType'
  <1>1. [o EXCEPT !.exists = FALSE] \in Object
    BY DEF Object
  <1> QED
    BY <1>1 DEF Store, StoreType

\* Both patches send objects.
LEMMA MergeTypes ==
  ASSUME api \in Object, obj \in Object
  PROVE  MergeSpec \in Object /\ MergeStatus \in Object
  <1>1. ASSUME NEW o \in Object, NEW f \in BOOLEAN, NEW v \in VMs \cup {Nil},
               NEW w \in VMs \cup {Nil}
        PROVE  [o EXCEPT !.fin = f, !.vmID = v, !.providerID = w] \in Object
    BY DEF Object
  <1>2. ASSUME NEW o \in Object, NEW s \in PowerStates \cup {Nil}, NEW c \in SUBSET Parts,
               NEW w \in VMs \cup {Nil}
        PROVE  [o EXCEPT !.state = s, !.cfg = c, !.addresses = w] \in Object
    BY DEF Object
  <1>3. /\ Merge(api.fin, before.fin, obj.fin) \in BOOLEAN
        /\ Merge(api.vmID, before.vmID, obj.vmID) \in VMs \cup {Nil}
        /\ Merge(api.providerID, before.providerID, obj.providerID) \in VMs \cup {Nil}
    BY DEF Merge, Object
  <1>4. /\ Merge(api.state, before.state, obj.state) \in PowerStates \cup {Nil}
        /\ MergeParts(api.cfg, before.cfg, obj.cfg) \in SUBSET Parts
        /\ Merge(api.addresses, before.addresses, obj.addresses) \in VMs \cup {Nil}
    BY DEF Merge, MergeParts, Object
  <1>5. MergeSpec \in Object
    BY <1>1, <1>3 DEF MergeSpec
  <1>6. MergeStatus \in Object
    BY <1>2, <1>4 DEF MergeStatus
  <1> QED
    BY <1>5, <1>6

\* Events are counted, never forgotten.
LEMMA UpsetType ==
  ASSUME HistoryType, NEW k \in UpsetKinds, Upset(k) \/ NoUpset
  PROVE  HistoryType'
  BY DEF HistoryType, Upset, NoUpset, histVars

\* Moving on, returning, and finishing leave a well-typed worker.
LEMMA WorkerMoves ==
  ASSUME WorkerType, NEW o \in Object, NEW s \in Steps, NEW r \in {"done", "requeue", "error"},
         Goto(s, o) \/ Return(o, r) \/ Finish(r) \/ UNCHANGED workerVars
  PROVE  WorkerType'
  <1>1. Blank \in Object /\ "patchSpec" \in Steps /\ "idle" \in Steps
    BY DEF Blank, Object, Steps
  <1> QED
    BY <1>1 DEF WorkerType, Goto, Return, Finish, Idle, workerVars

LEMMA FailureMoves ==
  ASSUME TypeOK, CallFails \/ LoseReply \/ VMCallFails
  PROVE  WorkerType' /\ HistoryType'
  <1>1. WorkerType /\ HistoryType /\ obj \in Object
    BY DEF TypeOK, WorkerType, HistoryType
  <1>2. Return(obj, "error") /\ \E k \in UpsetKinds : Upset(k) \/ NoUpset
    BY DEF CallFails, LoseReply, VMCallFails, UpsetKinds
  <1>3. WorkerType'
    BY <1>1, <1>2, WorkerMoves DEF Steps
  <1> QED
    BY <1>1, <1>2, <1>3, UpsetType

\* A step of Reconcile that talks to vmrest keeps the types: it leaves the store
\* and the queue alone and moves the worker on, possibly with an error.
LEMMA VMStepType ==
  ASSUME TypeOK,
         GetPowerState \/ Dispatch \/ CreateVM \/ Hardware \/ Adapters \/ NetworkAddresses
           \/ SharedFolders \/ Vnc \/ Bootstrap \/ PowerOn \/ Addresses
           \/ PowerOff \/ ConfirmOff \/ DeleteVM
  PROVE  TypeOK'
  <1>1. StoreType /\ WorkerType /\ VMType /\ HistoryType /\ QueueType
    BY TypeParts
  <1>2. StoreType' /\ QueueType'
    <2>1. UNCHANGED <<storeVars, queueVars, capi>>
      BY DEF Elsewhere, GetPowerState, Dispatch, CreateVM, Hardware, Adapters, NetworkAddresses,
             SharedFolders, Vnc, Bootstrap, PowerOn, Addresses, PowerOff, ConfirmOff, DeleteVM
    <2> QED
      BY <1>1, <2>1 DEF StoreType, QueueType, storeVars, queueVars
  <1>3. VMType'
    <2> USE <1>1 DEF VMType, vmVars, Apply
    <2>1. CASE UNCHANGED vmVars
      BY <2>1
    <2>2. CASE CreateVM
      BY <2>2 DEF CreateVM
    <2>3. CASE Hardware \/ Adapters \/ SharedFolders \/ Vnc \/ Bootstrap
      <3>1. UNCHANGED <<power, online>>
        BY <2>3 DEF Hardware, Adapters, SharedFolders, Vnc, Bootstrap
      <3>2. \/ UNCHANGED configured
            \/ \E p \in Parts : configured' = [configured EXCEPT ![obj.vmID] = @ \cup {p}]
        BY <2>3 DEF Hardware, Adapters, SharedFolders, Vnc, Bootstrap, Parts
      <3> QED
        BY <3>1, <3>2
    <2>4. CASE PowerOn
      BY <2>4 DEF PowerOn
    <2>5. CASE PowerOff
      BY <2>5 DEF PowerOff
    <2>6. CASE DeleteVM
      BY <2>6 DEF DeleteVM
    <2> QED
      BY <2>1, <2>2, <2>3, <2>4, <2>5, <2>6
      DEF GetPowerState, Dispatch, NetworkAddresses, Addresses, ConfirmOff
  <1>4. WorkerType' /\ HistoryType'
    <2> DEFINE Moves ==
          \/ /\ \E k \in UpsetKinds : Upset(k) \/ NoUpset
             /\ \E o \in Object, st \in Steps, r \in {"done", "requeue", "error"} :
                  Goto(st, o) \/ Return(o, r)
          \/ CallFails \/ LoseReply \/ VMCallFails
    <2>1. SUFFICES Moves
      BY <1>1, WorkerMoves, UpsetType, FailureMoves
    <2>2. /\ obj \in Object /\ obj.vmID \in VMs \cup {Nil}
          /\ \A v : PowerState(v) \in PowerStates
      BY <1>1 DEF WorkerType, Object, PowerState, PowerStates
    <2>3. \A ps \in SUBSET Parts : Record(ps) \in Object
      BY <2>2 DEF Record, Object
    <2>4. /\ Forget(obj) \in Object /\ AddFinalizer(obj) \in Object
          /\ RemoveFinalizer(obj) \in Object
          /\ [obj EXCEPT !.providerID = Nil] \in Object
          /\ \A st \in PowerStates : [obj EXCEPT !.state = st] \in Object
      BY <2>2 DEF Forget, AddFinalizer, RemoveFinalizer, Object
    <2>5. \A v \in VMs : Adopt(obj, v) \in Object /\ [obj EXCEPT !.addresses = v] \in Object
      BY <2>2 DEF Adopt, Object
    <2> HIDE DEF Moves
    <2>6. CASE GetPowerState
      BY <2>6, <2>2, <2>4 DEF GetPowerState, Moves, Steps, UpsetKinds
    <2>7. CASE Dispatch
      BY <2>7, <2>2, <2>4 DEF Dispatch, DispatchDelete, DispatchNormal, Moves, Steps, UpsetKinds
    <2>8. CASE CreateVM
      BY <2>8, <2>5 DEF CreateVM, Moves, Steps, UpsetKinds
    <2>9. CASE Hardware
      BY <2>9, <2>2, <2>3 DEF Hardware, Following, Moves, Steps, UpsetKinds, Parts
    <2>10. CASE Adapters
      BY <2>10, <2>2, <2>3 DEF Adapters, Following, Moves, Steps, UpsetKinds, Parts
    <2>11. CASE NetworkAddresses
      BY <2>11, <2>2 DEF NetworkAddresses, Following, Moves, Steps, UpsetKinds
    <2>12. CASE SharedFolders
      BY <2>12, <2>2, <2>3 DEF SharedFolders, Following, Moves, Steps, UpsetKinds, Parts
    <2>13. CASE Vnc
      BY <2>13, <2>2, <2>3 DEF Vnc, Following, Moves, Steps, UpsetKinds, Parts
    <2>14. CASE Bootstrap
      BY <2>14, <2>2, <2>3 DEF Bootstrap, Following, Moves, Steps, UpsetKinds, Parts
    <2>15. CASE PowerOn
      BY <2>15, <2>2, <2>4 DEF PowerOn, Following, Moves, Steps, UpsetKinds, PowerStates
    <2>16. CASE Addresses
      BY <2>16, <1>1, <2>2, <2>5 DEF Addresses, VMType, Moves, Steps, UpsetKinds
    <2>17. CASE PowerOff
      BY <2>17, <2>2, <2>4 DEF PowerOff, Moves, Steps, UpsetKinds
    <2>18. CASE ConfirmOff
      BY <2>18, <2>2, <2>4 DEF ConfirmOff, Moves, Steps, UpsetKinds
    <2>19. CASE DeleteVM
      BY <2>19, <2>4 DEF DeleteVM, Moves, Steps, UpsetKinds
    <2> QED
      BY <2>6, <2>7, <2>8, <2>9, <2>10, <2>11, <2>12, <2>13, <2>14, <2>15, <2>16, <2>17,
         <2>18, <2>19
  <1> QED
    BY <1>2, <1>3, <1>4 DEF TypeOK, StoreType, WorkerType, VMType, HistoryType, QueueType

\* Patches keep the types: they store what Merge makes of stored and private copy.
LEMMA PatchStepType ==
  ASSUME TypeOK, PatchState \/ PatchSpec \/ PatchStatus
  PROVE  TypeOK'
  <1>1. StoreType /\ WorkerType /\ VMType /\ HistoryType /\ QueueType
    BY TypeParts
  <1>2. obj \in Object /\ MergeSpec \in Object /\ MergeStatus \in Object
    BY <1>1, MergeTypes DEF StoreType, WorkerType
  <1>3. StoreType'
    <2>1. UNCHANGED storeVars \/ Store(MergeSpec) \/ Store(MergeStatus)
      BY DEF PatchState, PatchSpec, PatchStatus
    <2> QED
      BY <1>1, <1>2, <2>1, StoreKeepsType DEF StoreType, storeVars
  <1>4. VMType'
    BY <1>1 DEF VMType, vmVars, PatchState, PatchSpec, PatchStatus
  <1>5. QueueType'
    BY <1>1 DEF QueueType, queueVars, PatchState, PatchSpec, PatchStatus, Finish, Goto, Return,
                LoseReply
  <1>6. HistoryType'
    <2>1. \E k \in UpsetKinds : Upset(k) \/ NoUpset
      BY DEF PatchState, PatchSpec, PatchStatus, LoseReply, UpsetKinds
    <2> QED
      BY <1>1, <2>1, UpsetType
  <1>7. WorkerType'
    <2>1. CASE PatchState
      <3>1. Goto("dispatch", obj) \/ Return(obj, "error")
        BY <2>1 DEF PatchState, LoseReply
      <3> QED
        BY <1>1, <1>2, <3>1, WorkerMoves DEF Steps
    <2>2. CASE PatchSpec
      BY <1>1, <2>2 DEF PatchSpec, WorkerType, Steps
    <2>3. CASE PatchStatus
      <3>1. Finish(result) \/ Finish("error")
        BY <2>3 DEF PatchStatus
      <3> QED
        BY <1>1, <1>2, <3>1, WorkerMoves DEF WorkerType, Steps
    <2> QED
      BY <2>1, <2>2, <2>3
  <1> QED
    BY <1>3, <1>4, <1>5, <1>6, <1>7
    DEF TypeOK, StoreType, WorkerType, VMType, HistoryType, QueueType

\* Events from outside, and the start of a visit, keep the types.
LEMMA OtherStepType ==
  ASSUME TypeOK, Begin \/ Deliver \/ TimerFires \/ Hypervisor \/ Environment
  PROVE  TypeOK'
  <1>1. StoreType /\ WorkerType /\ VMType /\ HistoryType /\ QueueType
    BY TypeParts
  <1> USE <1>1 DEF storeVars, queueVars, workerVars, vmVars, histVars, NoUpset
  <1>2. CASE Begin
    <2>1. HistoryType'
      <3>1. \E k \in UpsetKinds : Upset(k) \/ NoUpset
        BY <1>2 DEF Begin, UpsetKinds
      <3> QED
        BY <3>1, UpsetType
    <2>2. WorkerType'
      BY <1>2 DEF Begin, GateOpen, WorkerType, StoreType, QueueType, Steps
    <2>3. StoreType' /\ VMType' /\ QueueType'
      BY <1>2 DEF Begin, StoreType, VMType, QueueType
    <2> QED
      BY <2>1, <2>2, <2>3 DEF TypeOK, StoreType, WorkerType, VMType, HistoryType, QueueType
  <1>3. CASE Deliver
    <2>1. StoreType' /\ QueueType'
      BY <1>3 DEF Deliver, StoreType, QueueType
    <2> QED
      BY <1>3, <2>1 DEF Deliver, TypeOK, StoreType, WorkerType, VMType, HistoryType, QueueType
  <1>4. CASE TimerFires \/ MachineEvent \/ ClusterProvisioned \/ BootstrapDataReady \/ Unpause
    <2>1. QueueType'
      BY <1>4 DEF TimerFires, MachineEvent, ClusterProvisioned, BootstrapDataReady, Unpause,
                  QueueType
    <2>2. UNCHANGED <<storeVars, workerVars, vmVars, histVars>>
      BY <1>4 DEF TimerFires, MachineEvent, ClusterProvisioned, BootstrapDataReady, Unpause
    <2> QED
      BY <2>1, <2>2 DEF TypeOK, StoreType, WorkerType, VMType, HistoryType, QueueType
  <1>5. CASE SetOwnerRef
    <2>1. [api EXCEPT !.owner = TRUE] \in Object
      BY DEF StoreType, Object
    <2>2. StoreType'
      BY <1>5, <2>1, StoreKeepsType DEF SetOwnerRef
    <2> QED
      BY <1>5, <2>2 DEF SetOwnerRef, TypeOK, StoreType, WorkerType, VMType, HistoryType, QueueType
  <1>6. CASE Delete
    <2>1. [api EXCEPT !.del = TRUE] \in Object
      BY DEF StoreType, Object
    <2>2. StoreType'
      BY <1>6, <2>1, StoreKeepsType DEF Delete
    <2>3. HistoryType'
      <3>1. "earlyDelete" \in UpsetKinds /\ (Upset("earlyDelete") \/ NoUpset)
        BY <1>6 DEF Delete, UpsetKinds
      <3> QED
        BY <3>1, UpsetType
    <2> QED
      BY <1>6, <2>2, <2>3 DEF Delete, TypeOK, StoreType, WorkerType, VMType, HistoryType, QueueType
  <1>7. CASE Pause
    <2>1. HistoryType'
      <3>1. "pause" \in UpsetKinds /\ Upset("pause")
        BY <1>7 DEF Pause, UpsetKinds
      <3> QED
        BY <3>1, UpsetType
    <2>2. QueueType'
      BY <1>7 DEF Pause, QueueType
    <2> QED
      BY <1>7, <2>1, <2>2 DEF Pause, TypeOK, StoreType, WorkerType, VMType, HistoryType, QueueType
  <1>8. CASE Crash
    <2>1. HistoryType'
      <3>1. "crash" \in UpsetKinds /\ Upset("crash")
        BY <1>8 DEF Crash, UpsetKinds
      <3> QED
        BY <3>1, UpsetType
    <2>2. StoreType'
      <3>1. <<>> \in Seq(Object)
        OBVIOUS
      <3> QED
        BY <1>8, <3>1 DEF Crash, StoreType
    <2>4. QueueType'
      BY <1>8 DEF Crash, QueueType
    <2>3. WorkerType'
      BY <1>8 DEF Crash, Idle, WorkerType, Blank, Object, Steps
    <2> QED
      BY <1>8, <2>1, <2>2, <2>3, <2>4
      DEF Crash, TypeOK, StoreType, WorkerType, VMType, HistoryType, QueueType
  <1>9. ASSUME NEW v \in VMs, VMGone(v) \/ GuestOff(v) \/ Stops(v) \/ GuestUp(v)
        PROVE  TypeOK'
    <2>1. HistoryType'
      <3>1. \E k \in UpsetKinds : Upset(k) \/ NoUpset
        BY <1>9 DEF VMGone, GuestOff, Stops, GuestUp, UpsetKinds
      <3> QED
        BY <3>1, UpsetType
    <2>2. VMType'
      BY <1>9 DEF VMGone, GuestOff, Stops, GuestUp, VMType
    <2>3. UNCHANGED <<storeVars, workerVars, queueVars, capi>>
      BY <1>9 DEF VMGone, GuestOff, Stops, GuestUp
    <2> QED
      BY <2>1, <2>2, <2>3 DEF TypeOK, StoreType, WorkerType, VMType, HistoryType, QueueType
  <1> QED
    BY <1>2, <1>3, <1>4, <1>5, <1>6, <1>7, <1>8, <1>9 DEF Hypervisor, Environment

\* Every step keeps the types, whatever the constants.
LEMMA TypeStep == TypeOK /\ [Next]_vars => TypeOK'
  <1>1. ASSUME TypeOK, UNCHANGED vars
        PROVE  TypeOK'
    BY <1>1 DEF TypeOK, vars, storeVars, queueVars, workerVars, vmVars, histVars
  <1> QED
    BY <1>1, VMStepType, PatchStepType, OtherStepType DEF Next, Reconcile

LEMMA InitType == Init => TypeOK
  <1> SUFFICES ASSUME Init
               PROVE  TypeOK
    OBVIOUS
  <1>1. Blank \in Object /\ Created \in Object
    BY DEF Created, Blank, Object
  <1>2. <<Created>> \in Seq(Object)
    BY <1>1
  <1>3. StoreType /\ WorkerType
    BY <1>1, <1>2 DEF Init, StoreType, WorkerType, Steps
  <1>4. VMType /\ HistoryType /\ QueueType
    BY DEF Init, VMType, HistoryType, QueueType
  <1> QED
    BY <1>3, <1>4, TypeParts

\* Type correctness of the whole system: the variables of store, queue, worker
\* and vmrest keep their types in every reachable state.
THEOREM TypeCorrect == Spec => []TypeOK
  BY InitType, TypeStep, PTL DEF Spec

-----------------------------------------------------------------------------
(* The finalizer.  FinalizerHeld is not inductive: it depends on what the    *)
(* worker will merge into the stored object, and that on an older version.   *)

\* What an older version w of the object says about the stored one: it does not
\* name an unprotected VM, and neither the finalizer nor the deletion mark it
\* shows has been taken back while the object lives.
Faithful(w, stored) ==
    /\ w.exists /\ w.vmID # Nil => w.fin
    /\ w.fin /\ stored.exists => stored.fin
    /\ w.del /\ stored.exists => stored.del

\* The versions on their way, in the cache and in the patch helper.
VersionsFaithful ==
    /\ Faithful(cache, api) /\ Faithful(before, api)
    /\ \A i \in 1 .. Len(pending) : Faithful(pending[i], api)

\* What Reconcile does to its copy: the finalizer is only taken off a copy that
\* is being deleted, and a new VM is only put into a copy that has it.
CopySafe ==
    /\ obj.del = before.del
    /\ before.fin /\ ~obj.fin => obj.del
    /\ obj.vmID # Nil /\ obj.vmID # before.vmID => obj.fin /\ ~obj.del
    /\ pc = "createVM" => obj.fin /\ ~obj.del
    /\ pc \in {"powerOff", "confirmOff", "deleteVM"} => obj.del

FinalizerInv == FinalizerHeld /\ VersionsFaithful /\ CopySafe

\* What one version of the stored object may take back from the previous one
\* while the object lives: nothing.
Keeps(a, b) == b.exists => a.exists /\ (a.fin => b.fin) /\ (a.del => b.del)

\* Older versions stay faithful when the stored object keeps its marks.
LEMMA StillFaithful ==
  ASSUME NEW w, NEW a, NEW b, Faithful(w, a), Keeps(a, b)
  PROVE  Faithful(w, b)
  BY DEF Faithful, Keeps

\* Storing o keeps the marks if o has them or is about to vanish, and the new
\* version joins the faithful ones.
LEMMA StoreSafe ==
  ASSUME StoreType, FinalizerInv, api.exists,
         NEW o \in Object, Store(o),
         api.del => o.del,
         api.fin => o.fin \/ o.del,
         o.vmID # Nil => o.fin \/ o.del
  PROVE  /\ FinalizerHeld' /\ Keeps(api, api') /\ cache' = cache
         /\ \A i \in 1 .. Len(pending') : Faithful(pending'[i], api')
  <1> DEFINE kept == IF o.del /\ ~o.fin THEN [o EXCEPT !.exists = FALSE] ELSE o
  <1>1. /\ kept \in Object /\ kept.fin = o.fin /\ kept.del = o.del /\ kept.vmID = o.vmID
        /\ kept.exists => o.exists /\ (~o.del \/ o.fin)
    BY DEF Object
  <1>2. api' = kept /\ (pending' = pending \/ pending' = Append(pending, kept)) /\ cache' = cache
    BY DEF Store
  <1> HIDE DEF kept
  <1>3. Keeps(api, api')
    BY <1>1, <1>2 DEF Keeps
  <1>4. FinalizerHeld'
    BY <1>1, <1>2 DEF FinalizerHeld
  <1>5. Faithful(kept, api')
    BY <1>1, <1>2, <1>4 DEF Faithful, FinalizerHeld
  <1>6. \A i \in 1 .. Len(pending) : Faithful(pending[i], api')
    BY <1>3, StillFaithful DEF FinalizerInv, VersionsFaithful
  <1>7. CASE pending' = pending
    BY <1>2, <1>3, <1>4, <1>6, <1>7
  <1>8. CASE pending' = Append(pending, kept)
    <2>1. /\ Len(pending') = Len(pending) + 1 /\ pending'[Len(pending) + 1] = kept
          /\ \A i \in 1 .. Len(pending) : pending'[i] = pending[i]
      BY <1>1, <1>8 DEF StoreType
    <2>2. ASSUME NEW i \in 1 .. Len(pending')
          PROVE  Faithful(pending'[i], api')
      <3>1. i \in 1 .. Len(pending) \/ i = Len(pending) + 1
        BY <2>1 DEF StoreType
      <3> QED
        BY <1>5, <1>6, <2>1, <3>1
    <2> QED
      BY <1>2, <1>3, <1>4, <2>2
  <1> QED
    BY <1>2, <1>7, <1>8

\* A step of Reconcile that talks to vmrest keeps the private copy safe.
LEMMA VMStepCopySafe ==
  ASSUME TypeOK, CopySafe,
         GetPowerState \/ Dispatch \/ CreateVM \/ Hardware \/ Adapters \/ NetworkAddresses
           \/ SharedFolders \/ Vnc \/ Bootstrap \/ PowerOn \/ Addresses
           \/ PowerOff \/ ConfirmOff \/ DeleteVM
  PROVE  CopySafe' /\ before' = before
  <1>1. obj \in Object /\ before \in Object
    BY DEF TypeOK
  <1> DEFINE Same(o) == o.del = obj.del /\ o.fin = obj.fin /\ o.vmID = obj.vmID
  <1>2. ASSUME NEW o, Same(o), before' = before, obj' = o,
               pc' \notin {"createVM", "powerOff", "confirmOff", "deleteVM"}
        PROVE  CopySafe'
    BY <1>2 DEF CopySafe
  <1>3. /\ Same(obj) /\ \A ps : Same(Record(ps))
        /\ \A x : Same([obj EXCEPT !.state = x]) /\ Same([obj EXCEPT !.addresses = x])
                  /\ Same([obj EXCEPT !.providerID = x])
    BY <1>1 DEF Record, Object
  <1>4. ASSUME CallFails \/ LoseReply \/ VMCallFails
        PROVE  CopySafe' /\ before' = before
    <2>1. before' = before /\ obj' = obj /\ pc' = "patchSpec"
      BY <1>4 DEF CallFails, LoseReply, VMCallFails, Return
    <2> QED
      BY <1>2, <1>3, <2>1
  <1> HIDE DEF Same
  <1> USE DEF Goto, Return
  <1>5. CASE GetPowerState
    <2>1. ASSUME Return(Forget(obj), "done")
          PROVE  CopySafe' /\ before' = before
      BY <1>1, <2>1 DEF CopySafe, Forget, Object
    <2> QED
      BY <1>2, <1>3, <1>4, <1>5, <2>1 DEF GetPowerState
  <1>6. CASE Dispatch
    <2>1. /\ RemoveFinalizer(obj) = [obj EXCEPT !.fin = FALSE]
          /\ AddFinalizer(obj) = [obj EXCEPT !.fin = TRUE]
      BY DEF RemoveFinalizer, AddFinalizer
    <2>2. CASE obj.del
      BY <1>1, <1>6, <2>1, <2>2 DEF Dispatch, DispatchDelete, CopySafe, Object
    <2>3. CASE ~obj.del
      BY <1>1, <1>6, <2>1, <2>3 DEF Dispatch, DispatchNormal, CopySafe, Object
    <2> QED
      BY <2>2, <2>3
  <1>7. CASE CreateVM
    <2>1. ASSUME NEW v \in VMs, Return(Adopt(obj, v), "done")
          PROVE  CopySafe' /\ before' = before
      BY <1>1, <1>7, <2>1 DEF CreateVM, CopySafe, Adopt, Object
    <2> QED
      BY <1>4, <1>7, <2>1 DEF CreateVM
  <1>8. CASE Hardware \/ Adapters \/ NetworkAddresses \/ SharedFolders \/ Vnc \/ Bootstrap
    BY <1>2, <1>3, <1>4, <1>8
    DEF Hardware, Adapters, NetworkAddresses, SharedFolders, Vnc, Bootstrap, Following
  <1>9. CASE PowerOn \/ Addresses
    BY <1>2, <1>3, <1>4, <1>9 DEF PowerOn, Addresses, Following
  <1>10. ASSUME obj.del, Return(RemoveFinalizer(obj), "error") \/ Return(RemoveFinalizer(obj), "done")
         PROVE  CopySafe' /\ before' = before
    BY <1>1, <1>10 DEF RemoveFinalizer, CopySafe, Object
  <1>11. CASE PowerOff
    <2>1. obj.del
      BY <1>11 DEF PowerOff, CopySafe
    <2>2. ASSUME Goto("confirmOff", obj)
          PROVE  CopySafe' /\ before' = before
      BY <2>1, <2>2 DEF CopySafe
    <2> QED
      BY <1>4, <1>10, <1>11, <2>1, <2>2 DEF PowerOff
  <1>12. CASE ConfirmOff \/ DeleteVM
    <2>1. obj.del
      BY <1>12 DEF ConfirmOff, DeleteVM, CopySafe
    <2> QED
      BY <1>2, <1>3, <1>4, <1>10, <1>12, <2>1 DEF ConfirmOff, DeleteVM
  <1> QED
    BY <1>5, <1>6, <1>7, <1>8, <1>9, <1>11, <1>12

\* What the two patches make of the stored object satisfies StoreSafe: the
\* finalizer that the patch helper saw is still there, and so is the deletion
\* mark of a copy whose finalizer has been taken off.
LEMMA MergeSafe ==
  ASSUME TypeOK, FinalizerInv, api.exists, NEW o, o = MergeSpec \/ o = MergeStatus
  PROVE  /\ o \in Object
         /\ api.del => o.del
         /\ api.fin => o.fin \/ o.del
         /\ o.vmID # Nil => o.fin \/ o.del
  <1>1. api \in Object /\ obj \in Object /\ before \in Object
    BY DEF TypeOK
  <1>2. o \in Object
    BY <1>1, MergeTypes
  <1>3. /\ FinalizerHeld /\ CopySafe
        /\ before.fin => api.fin
        /\ before.del => api.del
    BY DEF FinalizerInv, VersionsFaithful, Faithful
  <1>4. CASE o = MergeStatus
    <2>1. o.del = api.del /\ o.fin = api.fin /\ o.vmID = api.vmID
      BY <1>1, <1>4 DEF MergeStatus, Object
    <2> QED
      BY <1>2, <1>3, <2>1 DEF FinalizerHeld
  <1>5. CASE o = MergeSpec
    <2>1. /\ o.del = api.del
          /\ o.fin = Merge(api.fin, before.fin, obj.fin)
          /\ o.vmID = Merge(api.vmID, before.vmID, obj.vmID)
      BY <1>1, <1>5 DEF MergeSpec, Object
    <2>2. obj.fin \in BOOLEAN /\ before.fin \in BOOLEAN /\ api.fin \in BOOLEAN
      BY <1>1 DEF Object
    <2>3. api.fin => o.fin \/ o.del
      BY <1>3, <2>1, <2>2 DEF Merge, CopySafe
    <2>4. o.vmID # Nil => o.fin \/ o.del
      BY <1>3, <2>1, <2>2 DEF Merge, CopySafe, FinalizerHeld
    <2> QED
      BY <1>2, <2>1, <2>3, <2>4
  <1> QED
    BY <1>4, <1>5

\* Every step keeps the finalizer invariant.
LEMMA FinalizerStep == TypeOK /\ FinalizerInv /\ [Next]_vars => FinalizerInv'
  <1> SUFFICES ASSUME TypeOK, FinalizerInv, [Next]_vars
               PROVE  FinalizerInv'
    OBVIOUS
  <1>1. /\ StoreType /\ WorkerType /\ api \in Object /\ obj \in Object /\ before \in Object
        /\ cache \in Object /\ pending \in Seq(Object)
    BY TypeParts DEF StoreType, WorkerType
  <1>2. ASSUME UNCHANGED <<storeVars, before>>, CopySafe'
        PROVE  FinalizerInv'
    BY <1>2 DEF FinalizerInv, FinalizerHeld, VersionsFaithful, storeVars
  <1>3. ASSUME UNCHANGED <<pc, obj, before>>
        PROVE  CopySafe'
    BY <1>3 DEF FinalizerInv, CopySafe
  <1>4. /\ Faithful(Blank, api) /\ Faithful(Blank, api')
        /\ (obj' = Blank /\ before' = Blank /\ pc' = "idle" => CopySafe')
    BY DEF Faithful, CopySafe, Blank
  <1>5. ASSUME api.exists, NEW o \in Object, Store(o), api.del => o.del,
               api.fin => o.fin \/ o.del, o.vmID # Nil => o.fin \/ o.del,
               before' = before \/ before' = Blank, CopySafe'
        PROVE  FinalizerInv'
    <2>1. /\ FinalizerHeld' /\ Keeps(api, api') /\ cache' = cache
          /\ \A i \in 1 .. Len(pending') : Faithful(pending'[i], api')
      BY <1>1, <1>5, StoreSafe
    <2>2. Faithful(cache', api') /\ Faithful(before', api')
      BY <1>4, <1>5, <2>1, StillFaithful DEF FinalizerInv, VersionsFaithful
    <2> QED
      BY <1>5, <2>1, <2>2 DEF FinalizerInv, VersionsFaithful
  <1>6. CASE GetPowerState \/ Dispatch \/ CreateVM \/ Hardware \/ Adapters \/ NetworkAddresses
             \/ SharedFolders \/ Vnc \/ Bootstrap \/ PowerOn \/ Addresses
             \/ PowerOff \/ ConfirmOff \/ DeleteVM
    <2>1. CopySafe' /\ before' = before
      BY <1>6, VMStepCopySafe DEF FinalizerInv
    <2>2. UNCHANGED storeVars
      BY <1>6 DEF Elsewhere, GetPowerState, Dispatch, CreateVM, Hardware, Adapters,
                  NetworkAddresses, SharedFolders, Vnc, Bootstrap, PowerOn, Addresses,
                  PowerOff, ConfirmOff, DeleteVM
    <2> QED
      BY <1>2, <2>1, <2>2
  <1>7. CASE PatchState \/ PatchSpec \/ PatchStatus
    <2>1. /\ CopySafe' /\ (before' = before \/ before' = Blank)
      BY <1>4, <1>7
      DEF FinalizerInv, CopySafe, PatchState, PatchSpec, PatchStatus, Goto, Return, LoseReply, Finish,
          Idle
    <2>2. CASE api.exists /\ (Store(MergeSpec) \/ Store(MergeStatus))
      BY <1>5, <2>1, <2>2, MergeSafe
    <2>3. CASE UNCHANGED storeVars
      BY <1>4, <2>1, <2>3 DEF FinalizerInv, FinalizerHeld, VersionsFaithful, storeVars
    <2> QED
      BY <1>7, <2>2, <2>3 DEF PatchState, PatchSpec, PatchStatus
  <1>8. CASE Begin
    <2>1. UNCHANGED storeVars
      BY <1>8 DEF Begin
    <2>2. CASE UNCHANGED workerVars
      BY <1>2, <1>3, <2>1, <2>2 DEF workerVars
    <2>3. CASE obj' = cache /\ before' = cache /\ pc' \in {"dispatch", "getPowerState"}
      BY <2>1, <2>3 DEF FinalizerInv, FinalizerHeld, VersionsFaithful, CopySafe, storeVars
    <2> QED
      BY <1>8, <2>2, <2>3 DEF Begin
  <1>9. CASE Deliver
    <2>1. UNCHANGED <<api, pc, obj, before>>
      BY <1>9 DEF Deliver, workerVars
    <2>2. Faithful(cache', api')
      BY <1>1, <1>9, <2>1 DEF Deliver, FinalizerInv, VersionsFaithful
    <2>3. \A i \in 1 .. Len(pending') : Faithful(pending'[i], api')
      <3>1. /\ Len(pending') = Len(pending) - 1
            /\ \A i \in 1 .. Len(pending') : pending'[i] = pending[i + 1]
        BY <1>1, <1>9 DEF Deliver
      <3>2. \A i \in 1 .. Len(pending') : i + 1 \in 1 .. Len(pending)
        BY <1>1, <3>1
      <3> QED
        BY <2>1, <3>1, <3>2 DEF FinalizerInv, VersionsFaithful
    <2> QED
      BY <1>3, <2>1, <2>2, <2>3 DEF FinalizerInv, FinalizerHeld, VersionsFaithful
  <1>10. CASE SetOwnerRef
    <2>1. [api EXCEPT !.owner = TRUE] \in Object
      BY <1>1 DEF Object
    <2>2. UNCHANGED <<pc, obj, before>> /\ api.exists /\ Store([api EXCEPT !.owner = TRUE])
      BY <1>10 DEF SetOwnerRef, workerVars
    <2>3. FinalizerHeld
      BY DEF FinalizerInv
    <2> QED
      BY <1>1, <1>3, <1>5, <2>1, <2>2, <2>3 DEF Object, FinalizerHeld
  <1>11. CASE Delete
    <2>1. [api EXCEPT !.del = TRUE] \in Object
      BY <1>1 DEF Object
    <2>2. UNCHANGED <<pc, obj, before>> /\ api.exists /\ Store([api EXCEPT !.del = TRUE])
      BY <1>11 DEF Delete, workerVars
    <2> QED
      BY <1>1, <1>3, <1>5, <2>1, <2>2 DEF Object
  <1>12. CASE Crash
    BY <1>1, <1>4, <1>12 DEF Crash, Idle, FinalizerInv, FinalizerHeld, VersionsFaithful, Faithful
  <1>13. CASE \/ TimerFires \/ MachineEvent \/ ClusterProvisioned \/ BootstrapDataReady
              \/ Pause \/ Unpause \/ Hypervisor \/ (\E v \in VMs : VMGone(v) \/ GuestOff(v))
              \/ UNCHANGED vars
    <2>1. UNCHANGED <<storeVars, pc, obj, before>>
      BY <1>13 DEF TimerFires, MachineEvent, ClusterProvisioned, BootstrapDataReady, Pause, Unpause,
                   Hypervisor, VMGone, GuestOff, Stops, GuestUp, vars, workerVars
    <2> QED
      BY <1>2, <1>3, <2>1
  <1> QED
    BY <1>6, <1>7, <1>8, <1>9, <1>10, <1>11, <1>12, <1>13 DEF Next, Reconcile, Environment

\* The finalizer invariant holds in every reachable state.
LEMMA FinalizerInvariant == Spec => []FinalizerInv
  <1>1. Init => FinalizerInv
    BY DEF Init, FinalizerInv, FinalizerHeld, VersionsFaithful, Faithful, CopySafe, Created, Blank
  <1> QED
    BY <1>1, TypeCorrect, FinalizerStep, PTL DEF Spec

\* A stored VM id is protected by the machine finalizer in every reachable
\* state: however patches, stale reads, crashes and deletions interleave, the
\* deferred patch never leaves spec.vmID on an object that could vanish.
THEOREM FinalizerAlwaysHeld == Spec => []FinalizerHeld
  <1>1. FinalizerInv => FinalizerHeld
    BY DEF FinalizerInv
  <1> QED
    BY <1>1, FinalizerInvariant, PTL

=============================================================================
