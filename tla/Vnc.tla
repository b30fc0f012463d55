--------------------------------- MODULE Vnc ---------------------------------
(***************************************************************************)
(* reconcileVnc and updateVncStatus, call by call.                         *)
(*                                                                         *)
(* Each visit of the controller works on a private copy of spec.vnc and    *)
(* status.vnc; whatever it did, also when it panicked, the deferred patch  *)
(* stores the copy, first spec and then status.  The settings are written  *)
(* to the VM one by one, in the random order of a Go map.                  *)
(***************************************************************************)
EXTENDS Naturals, FiniteSets

CONSTANTS
    Values,     \* what a setting may hold
    Junk,       \* text that strconv.ParseBool refuses
    Nil,        \* a nil pointer, an empty parameter, a missing status.vnc
    Asked,      \* the settings whose value spec gives
    Generate,   \* the settings spec wants generated
    OnTemplate, \* the settings that can be read from a fresh clone
    Upsets,     \* the kinds of adverse events that may happen
    MaxUpsets   \* bound: how many of them may happen in one behaviour

Settings == {"enabled", "port", "password"}

\* What vmrest calls a parameter, in the order updateVncStatus tries them.
Prefixes == <<"RemoteDisplay", "remotedisplay">>

UpsetKinds ==
    { "call",       \* a vmrest call fails without effect
      "lostReply",  \* a write takes effect but the controller sees an error
      "patch",      \* a patch of spec or of status fails
      "crash",      \* the manager stops and is started again
      "sameValue" } \* a random value happens to be the one status holds

ASSUME VncAssumption ==
    /\ Values # {} /\ Nil \notin Values \cup {Junk} /\ Junk \notin Values
    /\ Asked \subseteq Settings /\ Generate \subseteq Settings \ {"enabled"}
    /\ OnTemplate \subseteq Settings
    /\ Upsets \subseteq UpsetKinds /\ MaxUpsets \in Nat

VARIABLES
    spec, status,    \* spec.vnc and status.vnc as stored
    mySpec, myStatus, \* the private copy of the visit
    pc,              \* where reconcileVnc is
    todo,            \* the settings still to be written
    goOn,            \* the visit's result was empty: reconcileNormal goes on
    vm,              \* the VM's parameters
    nUpsets,         \* history: the number of adverse events
    coincided        \* history: a random value was the one status held

vars == <<spec, status, mySpec, myStatus, pc, todo, goOn, vm, nUpsets, coincided>>

Settled == [Settings -> Values \cup {Nil}]

\* The type invariant.
TypeOK ==
    /\ {spec, mySpec} \subseteq Settled
    /\ {status, myStatus} \subseteq Settled \cup {Nil}
    /\ pc \in {"idle", "write", "patchSpec", "patchStatus"}
    /\ todo \subseteq Settings /\ goOn \in BOOLEAN
    /\ vm \in [{"RemoteDisplay", "remotedisplay"} -> [Settings -> Values \cup {Junk, Nil}]]
    /\ nUpsets \in 0..MaxUpsets /\ coincided \in BOOLEAN

-----------------------------------------------------------------------------
Upset(kind) == kind \in Upsets /\ nUpsets < MaxUpsets /\ nUpsets' = nUpsets + 1

NoUpset == UNCHANGED nUpsets

\* Faulty variant: the other name is tried first.
Read_LowerFirst(s) ==
    IF vm[Prefixes[2]][s] # Nil THEN vm[Prefixes[2]][s] ELSE vm[Prefixes[1]][s]

\* The first name under which the VM has a value for the setting.
Read(s) == IF vm[Prefixes[1]][s] # Nil THEN vm[Prefixes[1]][s] ELSE vm[Prefixes[2]][s]

\* Faulty variant: what the VM says is taken as it is.
Reading_Raw == [s \in Settings |-> Read(s)]

\* What updateVncStatus stores; text that is no Boolean counts as missing.
Reading == [s \in Settings |-> IF Read(s) = Junk THEN Nil ELSE Read(s)]

\* A setting of the clone stands under either name, under both, or, when it
\* cannot be read, under none or with text that is no Boolean.
Init ==
    /\ spec \in {f \in Settled : \A s \in Settings : f[s] # Nil <=> s \in Asked}
    /\ vm \in [{"RemoteDisplay", "remotedisplay"} -> [Settings -> Values \cup {Junk, Nil}]]
    /\ \A s \in Settings :
          /\ s \in OnTemplate <=> Reading[s] # Nil
          /\ s # "enabled" => \A p \in DOMAIN vm : vm[p][s] # Junk
    /\ status = Nil /\ mySpec = spec /\ myStatus = Nil
    /\ pc = "idle" /\ todo = {} /\ goOn = FALSE /\ nUpsets = 0 /\ coincided = FALSE

\* A status field is dereferenced for every setting that spec gives.
Panics(sp, st) == \E s \in Settings : sp[s] # Nil /\ st[s] = Nil

\* Faulty variant: a value to be generated is not missed.
Reconciled_GivenOnly(sp, st) == \A s \in Settings : sp[s] # Nil => st[s] = sp[s]

Reconciled(sp, st) ==
    \A s \in Settings : IF sp[s] = Nil THEN s \notin Generate ELSE st[s] = sp[s]

\* Ways in which spec can be completed with random values.
Generated(sp) ==
    {f \in Settled : \A s \in Settings :
        IF sp[s] = Nil /\ s \in Generate THEN f[s] # Nil ELSE f[s] = sp[s]}

Return(carryOn) == pc' = "patchSpec" /\ goOn' = carryOn

\* The first visit only calls updateVncStatus and asks for a requeue.
FirstRead ==
    /\ pc = "idle" /\ status = Nil
    /\ \/ myStatus' = Reading /\ NoUpset /\ Return(FALSE)
       \/ Upset("call") /\ UNCHANGED <<myStatus, pc, goOn>>
    /\ UNCHANGED <<spec, status, mySpec, todo, vm, coincided>>

\* A later visit panics, goes on, or generates what is missing and writes all.
Visit ==
    /\ pc = "idle" /\ status # Nil
    /\ \/ /\ Panics(spec, status) \/ Reconciled(spec, status)
          /\ Return(~Panics(spec, status)) /\ NoUpset /\ UNCHANGED <<mySpec, todo, coincided>>
       \/ /\ ~Panics(spec, status) /\ ~Reconciled(spec, status)
          /\ mySpec' \in Generated(spec)
          /\ IF \E s \in Settings : spec[s] = Nil /\ mySpec'[s] # Nil /\ mySpec'[s] = status[s]
             THEN Upset("sameValue") /\ coincided' = TRUE
             ELSE NoUpset /\ UNCHANGED coincided
          /\ todo' = {s \in Settings : mySpec'[s] # Nil}
          /\ pc' = "write" /\ UNCHANGED goOn
    /\ myStatus' = status
    /\ UNCHANGED <<spec, status, vm>>

\* Faulty variant: an error ends the loop but not the handler.
WriteFails_Breaks == todo' = {} /\ UNCHANGED <<pc, goOn>>

WriteFails == Return(FALSE) /\ UNCHANGED todo

\* ConfigVMParams for one of the settings that are left.
Write ==
    /\ pc = "write" /\ todo # {}
    /\ \E s \in todo :
        \/ /\ vm' = [vm EXCEPT ![Prefixes[1]][s] = mySpec[s]]
           /\ \/ NoUpset /\ todo' = todo \ {s} /\ UNCHANGED <<pc, goOn>>
              \/ Upset("lostReply") /\ WriteFails
        \/ Upset("call") /\ WriteFails /\ UNCHANGED vm
    /\ UNCHANGED <<spec, status, mySpec, myStatus, coincided>>

\* updateVncStatus after the writes; reconcileNormal goes on.
Confirm ==
    /\ pc = "write" /\ todo = {}
    /\ \/ myStatus' = Reading /\ NoUpset /\ Return(TRUE)
       \/ Upset("call") /\ Return(FALSE) /\ UNCHANGED myStatus
    /\ UNCHANGED <<spec, status, mySpec, todo, vm, coincided>>

\* The visit is over and its variables are gone.
Over == pc' = "idle" /\ mySpec' = spec /\ myStatus' = Nil /\ todo' = {} /\ goOn' = FALSE

\* The deferred patch: spec, then status, whatever became of spec.
PatchSpec ==
    /\ pc = "patchSpec" /\ pc' = "patchStatus"
    /\ \/ spec' = mySpec /\ NoUpset
       \/ Upset("patch") /\ UNCHANGED spec
    /\ UNCHANGED <<status, mySpec, myStatus, todo, goOn, vm, coincided>>

PatchStatus ==
    /\ pc = "patchStatus" /\ Over
    /\ \/ status' = myStatus /\ NoUpset
       \/ Upset("patch") /\ UNCHANGED status
    /\ UNCHANGED <<spec, vm, coincided>>

Crash ==
    /\ pc # "idle" /\ Upset("crash") /\ Over
    /\ UNCHANGED <<spec, status, vm, coincided>>

Handler == Visit \/ FirstRead \/ Write \/ Confirm \/ PatchSpec \/ PatchStatus

Next == Handler \/ Crash

Spec == Init /\ [][Next]_vars

\* Every return brings the key back: an error is retried, the first read asks
\* for a requeue, and a visit that goes on ends with one after ten seconds.
FairSpec == Spec /\ WF_vars(Handler)
-----------------------------------------------------------------------------
\* When reconcileNormal goes on to bootstrap data and power-on, the VM has every
\* VNC setting of the visit's copy, generated ones included, under the name that
\* is read first: partial writes, lost replies and half-stored patches of earlier
\* visits never make the comparison of spec with status succeed too early.  Only
\* a random value equal to the one that status holds can do that, between a crash
\* and a failing write.
GoesOnOnlyConfigured ==
    goOn /\ pc \in {"patchSpec", "patchStatus"} /\ ~coincided =>
        /\ \A s \in Settings : mySpec[s] # Nil => Read(s) = mySpec[s]
        /\ \A s \in Generate : mySpec[s] # Nil

Done == status # Nil /\ ~Panics(spec, status) /\ Reconciled(spec, status)

\* The VM has the settings that a spec gives or wants generated.
Has(sp) == \A s \in Settings : IF sp[s] = Nil THEN s \notin Generate ELSE Read(s) = sp[s]

Part == INSTANCE ConfigPart WITH
    recorded <- Done \/ coincided,
    applied <- Has(spec) \/ coincided

\* The handler is one of those reconcileNormal relies on: what status records
\* as done is done on the VM, and stays so, until a random value coincides.
ImplementsConfigPart == Part!Spec

\* The VM gets its VNC settings and reconcileNormal gets past reconcileVnc.
VncSettles == <>Done
=============================================================================
