-------------------------- MODULE MCVirtualNetwork --------------------------
(***************************************************************************)
(* An instance of VirtualNetwork for TLC: one device registered by two     *)
(* tasks at once, and one without a socket.                                *)
(***************************************************************************)
EXTENDS VirtualNetwork, TLC

CONSTANTS c1, a1, a2, a3, d1, d2

Registers == a1 :> d1 @@ a2 :> d1 @@ a3 :> d2
=============================================================================
