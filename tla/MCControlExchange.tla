------------------------- MODULE MCControlExchange -------------------------
(***************************************************************************)
(* Instances of ControlExchange for TLC.  The tag 9 is cut to 1, the first *)
(* tag of the owner; instance id 255 is cut to 31.                         *)
(***************************************************************************)
EXTENDS ControlExchange, TLC

req(cmd, instance, arg) == [cmd |-> cmd, instance |-> instance, arg |-> arg]

SomeCalls ==
  {req(SetEndpointID, 1, 5), req(SetEndpointID, 255, 200), req(GetEndpointID, 2, 0),
   req(DiscoveryNotify, 3, 0), req(GetRoutingTableEntries, 4, 7),
   req(AllocateEndpointIDs, 5, 9), req(Unknown, 6, 0)}
=============================================================================
