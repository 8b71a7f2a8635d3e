--------------------------- MODULE MCSocketTable ---------------------------
(***************************************************************************)
(* An instance of SocketTable for TLC: each caller binds with one of two   *)
(* client records of its own.                                              *)
(***************************************************************************)
EXTENDS SocketTable, TLC

CONSTANTS c1, c2

client(a, t) == [address |-> a, tag |-> t]

Args == c1 :> {client(9, 0), client(9, 1)} @@ c2 :> {client(10, 0), client(10, 1)}
=============================================================================
