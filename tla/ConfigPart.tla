----------------------------- MODULE ConfigPart -----------------------------
(***************************************************************************)
(* What reconcileNormal relies on when it calls a handler that configures  *)
(* one part of a VM (adapters, shared folders, VNC): a handler lets it go  *)
(* on once status records the part, and status is believed for good.       *)
(***************************************************************************)
VARIABLES
    applied,   \* the VM has the part of the configuration that spec asks for
    recorded   \* status says so: the handler has nothing left to do

vars == <<applied, recorded>>

Init == applied \in BOOLEAN /\ recorded \in BOOLEAN /\ (recorded => applied)

\* Calls that change the VM, in any number and with any effect, before status
\* records the part.
Write == ~recorded /\ applied' \in BOOLEAN /\ recorded' = FALSE

\* Status comes to record the part, which the VM has by then.
Record == ~recorded /\ applied' = TRUE /\ recorded' = TRUE

Next == Write \/ Record

Spec == Init /\ [][Next]_vars

\* The handler gets there.
Settles == <>recorded
=============================================================================
