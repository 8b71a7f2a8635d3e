-------------------------- MODULE MCSimpleNetwork --------------------------
(***************************************************************************)
(* Instances of SimpleNetwork for TLC.  Tags 0 and 8 are the same 3-bit    *)
(* tag; 9 is another.                                                      *)
(***************************************************************************)
EXTENDS SimpleNetwork, TLC
CONSTANTS c1, c2, p1, p2
\* Clients whose tags collide in the 3-bit field.
CollidingArgs == c1 :> {[address |-> 9, tag |-> 0]} @@ c2 :> {[address |-> 10, tag |-> 8]}
\* Clients that keep out of each other's way.
DistinctArgs == c1 :> {[address |-> 9, tag |-> 0]} @@ c2 :> {[address |-> 10, tag |-> 9]}
\* One client, which both tasks send with.
SharedArgs == c1 :> {[address |-> 9, tag |-> 8]} @@ c2 :> {}
ext(eid, id) == [extended |-> TRUE, address |-> eid, binding_id |-> id]
\* One remote endpoint; a Basic address; a binding that does not exist.
OneAddr == {ext(0, 1)}
AllAddrs == OneAddr \cup {[extended |-> FALSE, address |-> 0, binding_id |-> 1], ext(0, 2)}
TwoAddrs == {ext(0, 1), ext(20, 1)}
\* What a peer sends unasked: each truncation, and a request of its own.
AllNoise ==
  {[len |-> l, tag |-> default_tag, ans |-> 0] : l \in {"empty", "runt", "short"}}
  \cup {[len |-> "full", tag |-> new_header(0, 9, 0, TRUE), ans |-> 0]}
NoNoise == {}
GoodPhy == {48}
AnyPhy == {48, 3}
=============================================================================
