------------------------------ MODULE VDCluster ------------------------------
(***************************************************************************)
(* The life of one VDCluster object under VDClusterReconciler              *)
(* (internal/controller/vdcluster_controller.go).  Reconcile calls nobody  *)
(* between its reads and the deferred patch, so a visit is a read and a    *)
(* patch, with events, failures and a restart in between.  Unlike the      *)
(* VDMachine controller, this one is woken when the Cluster is unpaused.   *)
(***************************************************************************)
EXTENDS Naturals, Sequences

CONSTANTS
    Upsets,     \* the kinds of adverse events that may happen
    MaxUpsets,  \* bound: how many of them may happen in one behaviour
    MaxLag      \* bound: how many versions the informer may be behind

UpsetKinds ==
    { "call",       \* an API read fails
      "patch",      \* a patch is refused by, or never reaches, the API server
      "lostReply",  \* a patch takes effect but the controller sees an error
      "crash",      \* the manager stops and is started again
      "stale",      \* Reconcile reads the object from a cache that lags
      "pause" }     \* the owning Cluster is paused

VARIABLES
    api,           \* the object as the API server stores it
    pending,       \* versions the watch has not delivered yet, oldest first
    cache,         \* the version the informer cache holds
    queued,        \* the key waits in the work queue
    timer,         \* a rate-limited re-add of the key is pending
    pc,            \* where Reconcile is
    obj,           \* vdCluster, Reconcile's private copy
    before,        \* what the patch helper remembers of the object
    paused,        \* Cluster.spec.paused
    upsets,        \* history: the kinds of adverse events so far
    nUpsets        \* history: their number

storeVars == <<api, pending, cache>>
visitVars == <<pc, obj, before>>
histVars  == <<upsets, nUpsets>>
vars == <<storeVars, queued, timer, visitVars, paused, histVars>>

\* ClusterFinalizer, and the finalizers of others.
Finalizers == {"vdcluster", "other"}

Object ==
    [ exists : BOOLEAN, owner : BOOLEAN, del : BOOLEAN, fin : SUBSET Finalizers, ready : BOOLEAN ]

Blank == [exists |-> FALSE, owner |-> FALSE, del |-> FALSE, fin |-> {}, ready |-> FALSE]

\* The type invariant.
TypeOK ==
    /\ api \in Object /\ cache \in Object /\ pending \in Seq(Object)
    /\ queued \in BOOLEAN /\ timer \in BOOLEAN
    /\ pc \in {"idle", "patch"} /\ obj \in Object /\ before \in Object
    /\ paused \in BOOLEAN
    /\ upsets \subseteq Upsets /\ nUpsets \in 0..MaxUpsets

\* The object as a user creates it, possibly with a finalizer of another tool.
Init ==
    /\ api \in {[Blank EXCEPT !.exists = TRUE, !.fin = f] : f \in {{}, {"other"}}}
    /\ pending = <<api>> /\ cache = Blank
    /\ queued = FALSE /\ timer = FALSE
    /\ pc = "idle" /\ obj = Blank /\ before = Blank
    /\ paused = FALSE
    /\ upsets = {} /\ nUpsets = 0

-----------------------------------------------------------------------------
Upset(kind) ==
    /\ kind \in Upsets /\ nUpsets < MaxUpsets
    /\ upsets' = upsets \cup {kind} /\ nUpsets' = nUpsets + 1

NoUpset == UNCHANGED histVars

\* The API server: an unchanged object makes no version, and one that is being
\* deleted goes with its last finalizer.
Store(o) ==
    LET kept == IF o.del /\ o.fin = {} THEN [o EXCEPT !.exists = FALSE] ELSE o IN
    /\ api' = kept
    /\ IF kept = api
       THEN pending' = pending
       ELSE Len(pending) < MaxLag /\ pending' = Append(pending, kept)
    /\ cache' = cache

\* helper.Patch sends what differs from what NewHelper saw.
Merged ==
    [api EXCEPT !.fin = IF obj.fin # before.fin THEN obj.fin ELSE @,
                !.ready = IF obj.ready # before.ready THEN obj.ready ELSE @]

Deliver ==
    /\ pending # <<>>
    /\ cache' = Head(pending) /\ pending' = Tail(pending) /\ queued' = TRUE
    /\ UNCHANGED <<api, timer, visitVars, paused, histVars>>

TimerFires ==
    /\ timer
    /\ timer' = FALSE /\ queued' = TRUE
    /\ UNCHANGED <<storeVars, visitVars, paused, histVars>>

\* The Cluster controller makes the Cluster the owner of the VDCluster.
SetOwnerRef ==
    /\ api.exists /\ ~api.owner
    /\ Store([api EXCEPT !.owner = TRUE])
    /\ UNCHANGED <<queued, timer, visitVars, paused, histVars>>

Pause ==
    /\ ~paused /\ Upset("pause")
    /\ paused' = TRUE
    /\ UNCHANGED <<storeVars, queued, timer, visitVars>>

\* Faulty variant: without the watch on Clusters.
Woken_Never == queued

\* The watch on Clusters with the ClusterUnpaused predicate.
Woken == TRUE

Unpause ==
    /\ paused
    /\ paused' = FALSE /\ queued' = Woken
    /\ UNCHANGED <<storeVars, timer, visitVars, histVars>>

Delete ==
    /\ api.exists /\ ~api.del
    /\ Store([api EXCEPT !.del = TRUE])
    /\ UNCHANGED <<queued, timer, visitVars, paused, histVars>>

\* Another tool takes its finalizer off.
OtherReleases ==
    /\ api.exists /\ api.del /\ "other" \in api.fin
    /\ Store([api EXCEPT !.fin = @ \ {"other"}])
    /\ UNCHANGED <<queued, timer, visitVars, paused, histVars>>

-----------------------------------------------------------------------------
\* Return before the patch helper exists: no object, no owner, or paused.
Ignored(o) == ~o.exists \/ ~o.owner \/ paused

\* Faulty variant: the finalizers are replaced by an empty name.
Reconciled_Empty(o) ==
    IF o.del THEN [o EXCEPT !.fin = {""}] ELSE [o EXCEPT !.ready = TRUE]

\* The private copy after reconcileDelete, or with status.ready set.
Reconciled(o) ==
    IF o.del THEN [o EXCEPT !.fin = @ \ {"vdcluster"}] ELSE [o EXCEPT !.ready = TRUE]

Begin ==
    /\ pc = "idle" /\ queued
    /\ queued' = FALSE
    /\ \/ /\ IF pending = <<>> THEN NoUpset ELSE Upset("stale")
          /\ IF Ignored(cache)
             THEN UNCHANGED visitVars
             ELSE /\ pc' = "patch" /\ before' = cache /\ obj' = Reconciled(cache)
          /\ UNCHANGED timer
       \/ Upset("call") /\ timer' = TRUE /\ UNCHANGED visitVars
    /\ UNCHANGED <<storeVars, paused>>

Idle == pc' = "idle" /\ obj' = Blank /\ before' = Blank

\* Faulty variant: the error of the deferred patch is only logged.
Retry_Never == timer

\* rerr makes the work queue add the key again.
Retry == TRUE

\* The deferred patch.  It either sends the finalizers or the status, never
\* both, and an error of it is returned.
Patch ==
    /\ pc = "patch" /\ Idle
    /\ \/ /\ obj = before /\ NoUpset
          /\ UNCHANGED <<storeVars, timer>>
       \/ /\ obj # before /\ api.exists /\ Store(Merged)
          /\ \/ NoUpset /\ UNCHANGED timer
             \/ Upset("lostReply") /\ timer' = Retry
       \/ /\ obj # before
          /\ \/ ~api.exists /\ NoUpset
             \/ Upset("patch")
          /\ timer' = Retry /\ UNCHANGED storeVars
    /\ UNCHANGED <<queued, paused>>

\* The manager dies and starts again: the cache is listed, every key enqueued.
Crash ==
    /\ Upset("crash") /\ Idle
    /\ queued' = TRUE /\ timer' = FALSE /\ cache' = api /\ pending' = <<>>
    /\ UNCHANGED <<api, paused>>

Reconcile == Begin \/ Patch

Next ==
    \/ Reconcile \/ Deliver \/ TimerFires
    \/ SetOwnerRef \/ Pause \/ Unpause \/ Delete \/ OtherReleases \/ Crash

Spec == Init /\ [][Next]_vars

\* The worker, the watch and timers keep going; nothing is assumed of users.
FairSpec == Spec /\ WF_vars(Reconcile) /\ WF_vars(Deliver) /\ WF_vars(TimerFires)
-----------------------------------------------------------------------------
\* An adopted VDCluster becomes ready, unless it is deleted or paused; being
\* unpaused, a lagging read, a failing patch or a restart do not stop it.
ReadyCompletes ==
    (api.exists /\ api.owner) ~> (api.ready \/ api.del \/ ~api.exists \/ paused)
=============================================================================
