---------------------------- MODULE MCLabControl ----------------------------
(***************************************************************************)
(* LabControl for TLC: the constants that are not simple values.           *)
(***************************************************************************)
EXTENDS LabControl, TLC

CONSTANTS physical, hybrid, virtual

\* Box 1 is the control plane of the hybrid labs; in the physical lab every box
\* is a Talos node, in the virtual ones every box is a hypervisor.
MCWipeBoxes ==
  [l \in Labs |-> CASE l = physical -> Boxes [] l = hybrid -> {1} [] OTHER -> {}]

\* Requests differ only in their names; for safety properties alone.
RequestSymmetry == Permutations(Requests)

=============================================================================
