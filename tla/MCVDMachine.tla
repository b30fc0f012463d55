---------------------------- MODULE MCVDMachine ----------------------------
(* Instances of VDMachine for TLC.                                          *)
EXTENDS VDMachine, TLC

\* Clones are interchangeable: no action tells one id from another.
VMSymmetry == Permutations(VMs)
=============================================================================
