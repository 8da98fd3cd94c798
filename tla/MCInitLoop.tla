------------------------------ MODULE MCInitLoop ------------------------------
(* Instances of InitLoop for TLC. *)
EXTENDS InitLoop, TLC

CONSTANTS h1, p1, v1

\* One hypervisor with one virtual node.
OneGuest == h1 :> << v1 >>

=============================================================================
