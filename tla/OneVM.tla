------------------------------- MODULE OneVM -------------------------------
(***************************************************************************)
(* What a VDMachine promises to Cluster API about virtual machines, with   *)
(* Reconcile, caches, patches and queues left out: there is one VM at a    *)
(* time, the object names the live one if there is one, and the object     *)
(* stays for as long as a VM does.                                         *)
(***************************************************************************)
CONSTANTS VMs, Nil

VARIABLES
    used,   \* the ids given to clones so far
    alive,  \* the VMs that exist
    held,   \* spec.vmID
    ended   \* the object has been removed

vars == <<used, alive, held, ended>>

Init == used = {} /\ alive = {} /\ held = Nil /\ ended = FALSE

\* A new VM is made only when there is none and the object is still there.
Clone ==
    /\ ~ended /\ alive = {}
    /\ \E v \in VMs \ used : used' = used \cup {v} /\ alive' = {v}
    /\ UNCHANGED <<held, ended>>

\* The object names the VM that was cloned last, dead or alive.
Hold ==
    /\ ~ended
    /\ \E v \in used : alive \subseteq {v} /\ held' = v
    /\ UNCHANGED <<used, alive, ended>>

\* reconcileDelete, or somebody else, deletes the VM.
Destroy == alive # {} /\ alive' = {} /\ UNCHANGED <<used, held, ended>>

\* The object lets go of a VM that no longer exists ...
Release == alive = {} /\ held' = Nil /\ UNCHANGED <<used, alive, ended>>

\* ... and is removed only then, too.
End == ~ended /\ alive = {} /\ ended' = TRUE /\ held' \in {held, Nil} /\ UNCHANGED <<used, alive>>

Next == Clone \/ Hold \/ Destroy \/ Release \/ End

Spec == Init /\ [][Next]_vars
=============================================================================
