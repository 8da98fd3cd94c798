------------------------------ MODULE LabOwner ------------------------------
(***************************************************************************)
(* What replacing one lab by another promises, whatever it is made of: at  *)
(* most one request owns the lab, each owns it at most once, and only its  *)
(* owner can power boxes on.  Anybody may power boxes off.                 *)
(***************************************************************************)
CONSTANTS Requests, Nobody

VARIABLES
  owner,   \* the request whose initializer runs, or Nobody
  served,  \* the requests that own or have owned the lab
  power    \* the relays that are on

vars == <<owner, served, power>>

Init == owner = Nobody /\ served = {} /\ power = {}

Take(r) ==
  /\ owner = Nobody
  /\ r \notin served
  /\ owner' = r
  /\ served' = served \cup {r}
  /\ power' = power

Leave ==
  /\ owner # Nobody
  /\ owner' = Nobody
  /\ UNCHANGED <<served, power>>

PowerOn ==
  /\ owner # Nobody
  /\ power \subseteq power'
  /\ UNCHANGED <<owner, served>>

PowerOff ==
  /\ power' \subseteq power
  /\ UNCHANGED <<owner, served>>

Next == (\E r \in Requests : Take(r)) \/ Leave \/ PowerOn \/ PowerOff

Spec == Init /\ [][Next]_vars

=============================================================================
