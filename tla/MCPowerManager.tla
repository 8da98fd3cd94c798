---------------------------- MODULE MCPowerManager ----------------------------
(* Instances of PowerManager for TLC. *)
EXTENDS PowerManager, TLC

CONSTANTS p1, p2, lab, user

TwoPorts == << p1, p2 >>

\* /setlab powers all down and an operator restarts all, while another operator
\* switches.
TwoPortCalls ==
  lab  :> [op : {"down", "restart"}, ports : {TwoPorts}] @@
  user :> ([op : {"on"}, ports : {TwoPorts}] \cup [op : {"off"}, ports : {<< p1 >>}])

=============================================================================
