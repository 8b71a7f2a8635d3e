---------------------------- MODULE RequestReply ----------------------------
(***************************************************************************)
(* What MctpNetwork::sendto promises its callers, without tasks, locks,    *)
(* frames or channels: a call is pending until it is given one answer, or  *)
(* until its caller gives up.  The service tells requests apart by their   *)
(* key only, and the link makes at most Copies answers to a request; so an *)
(* answer given to a call is one to some request with the same key, and    *)
(* the answers to one request serve at most Copies calls.  It may die, but *)
(* only after a call that was owed an answer was given up.                 *)
(***************************************************************************)
EXTENDS Integers, FiniteSets

CONSTANTS
  Reqs,    \* identities of the calls, positive numbers
  Keys,    \* what requests are told apart by
  Copies   \* answers a request can have

VARIABLES
  status,  \* status[r]: how far call r is
  key,     \* key[r]: the key of its request
  answer,  \* answer[r]: the request whose answer it was given, 0 for none
  alive    \* the service answers

serviceVars == <<status, key, answer, alive>>

NoKey == <<>>

Init ==
  /\ status = [r \in Reqs |-> "none"]
  /\ key = [r \in Reqs |-> NoKey]
  /\ answer = [r \in Reqs |-> 0]
  /\ alive = TRUE

\* A call to a dead service fails.
Call(r) ==
  /\ status[r] = "none"
  /\ \E k \in Keys : key' = [key EXCEPT ![r] = k]
  /\ status' = [status EXCEPT ![r] = IF alive THEN "pending" ELSE "failed"]
  /\ UNCHANGED <<answer, alive>>

\* An answer to request a, or to none, completes a pending call.
Answer(r, a) ==
  /\ alive
  /\ status[r] = "pending"
  /\ a # 0 => /\ status[a] # "none" /\ key[a] = key[r]
              /\ Cardinality({s \in Reqs : answer[s] = a}) < Copies
  /\ status' = [status EXCEPT ![r] = "answered"]
  /\ answer' = [answer EXCEPT ![r] = a]
  /\ UNCHANGED <<key, alive>>

Return(r) ==
  /\ status[r] = "answered"
  /\ status' = [status EXCEPT ![r] = "returned"]
  /\ UNCHANGED <<key, answer, alive>>

\* The caller gives up, by a panic or by dropping the call.
Abandon(r) ==
  /\ status[r] \in {"pending", "answered"}
  /\ status' = [status EXCEPT ![r] = IF @ = "pending" THEN "failed" ELSE "discarded"]
  /\ UNCHANGED <<key, answer, alive>>

Die ==
  /\ alive
  /\ \E r \in Reqs : status[r] = "failed"
  /\ alive' = FALSE
  /\ UNCHANGED <<status, key, answer>>

Next ==
  \/ \E r \in Reqs : Call(r) \/ Return(r) \/ Abandon(r)
  \/ \E r \in Reqs, a \in Reqs \cup {0} : Answer(r, a)
  \/ Die

Spec == Init /\ [][Next]_serviceVars
=============================================================================
