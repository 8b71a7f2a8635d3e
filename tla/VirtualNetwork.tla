--------------------------- MODULE VirtualNetwork ---------------------------
(***************************************************************************)
(* VirtualNetwork (src/network/virtual_network.rs): any number of physical *)
(* bindings are registered, concurrently, by add_physical_binding; their   *)
(* poll_socket tasks share one bounded callback channel, and               *)
(* callback_handler looks the binding of every message up by its           *)
(* identifier.  Steps follow the atomics and the locks: the identifier is  *)
(* taken, the device pushed, the poll task spawned and its handle stored   *)
(* in four steps of the registering task, and get_binding loads the count  *)
(* and indexes the device list in two steps of the handler.  socket and    *)
(* bind are those of SocketTable; sendto, unlike SimpleNetwork's, reads    *)
(* nothing they write.                                                     *)
(***************************************************************************)
EXTENDS Integers, Sequences, FiniteSets

CONSTANTS
  Callers,       \* tasks calling sendto
  Networks,      \* network numbers passed to sendto
  Adders,        \* tasks, each making one add_physical_binding call
  Devices,       \* the network bindings
  DeviceOf,      \* DeviceOf[a]: the binding a registers
  Unconnected,   \* bindings without a socket, which bind refuses
  RxCap,         \* capacity of the callback channel (32 in the source)
  MaxDatagrams,  \* bound on the datagrams the devices receive
  RecvFails      \* tasks whose poll_socket may see recv_from fail

Handler == "callback_handler"  \* its task, among those that register bindings
NoMsg == "none"                \* no message

ASSUME VirtualNetworkAssumption ==
  /\ IsFiniteSet(Adders) /\ Handler \notin Adders /\ NoMsg \notin Adders
  /\ DeviceOf \in [Adders -> Devices]
  /\ Unconnected \subseteq Devices
  /\ RxCap \in Nat \ {0}
  /\ MaxDatagrams \in Nat
  /\ RecvFails \subseteq Adders

VARIABLES
  panicked,          \* callers whose task ended in a todo!()
  num_bindings,      \* AtomicU64: the next identifier
  net_devs,          \* the registered bindings, by the task that pushed each
  callback_handles,  \* join handles nobody has taken yet
  joined,            \* joined[h]: how often join_handles returned handle h
  stage,             \* stage[a]: where the add_physical_binding of a is
  bind_id,           \* bind_id[a]: the identifier it took
  poll,              \* poll[a]: where the poll_socket task it spawned is
  sock,              \* sock[d]: datagrams in the socket of device d
  received,          \* datagrams received so far, by all devices
  rxq,               \* the callback channel: the sender of each message
  handler,           \* where callback_handler is
  msg,               \* the sender of the message it handles
  overlapped         \* tasks whose lines 180-182 overlapped another task's

bindVars == <<num_bindings, net_devs, callback_handles, joined, stage, bind_id>>
rxVars == <<poll, sock, received, rxq, handler, msg>>
vars == <<panicked, bindVars, rxVars, overlapped>>

\* The handles of the poll_socket tasks and of callback_handler.
Handles == Adders \cup {Handler}

-----------------------------------------------------------------------------
\* new(): the handler task is spawned and its handle stored.
Init ==
  /\ panicked = {}
  /\ num_bindings = 0
  /\ net_devs = <<>>
  /\ callback_handles = <<Handler>>
  /\ joined = [h \in Handles |-> 0]
  /\ stage = [a \in Adders |-> "start"]
  /\ bind_id = [a \in Adders |-> -1]
  /\ poll = [a \in Adders |-> "none"]
  /\ sock = [d \in Devices |-> 0]
  /\ received = 0
  /\ rxq = <<>>
  /\ handler = "recv"
  /\ msg = NoMsg
  /\ overlapped = {}

-----------------------------------------------------------------------------
(* sendto.                                                                 *)

\* No function adds a route: the list new() creates stays empty.
routes == {}

\* Route::matches
matches(route, dnet, daddr) ==
  /\ dnet = route.net
  /\ route.min_eid <= daddr
  /\ route.max_eid >= daddr

route_lookup(dnet, daddr) == \E route \in routes : matches(route, dnet, daddr)

\* sendto reads neither the descriptor nor the client.  An Extended address
\* without a route returns an error and changes nothing; a Basic address, and
\* one with a route, reach a todo!(), which ends the task.
sendto(c, extended, network, daddr) ==
  /\ c \notin panicked
  /\ panicked' = IF extended /\ ~route_lookup(network, daddr)
                  THEN panicked ELSE panicked \cup {c}
  /\ UNCHANGED <<bindVars, rxVars, overlapped>>

-----------------------------------------------------------------------------
(* add_physical_binding by task a.                                         *)

\* Mutant of take_id: the count is loaded here and stored with the device.
take_id_load(a) ==
  /\ stage[a] = "start"
  /\ bind_id' = [bind_id EXCEPT ![a] = num_bindings]
  /\ num_bindings' = Len(net_devs) + 1
  /\ stage' = [stage EXCEPT ![a] = "push"]
  /\ UNCHANGED <<panicked, net_devs, callback_handles, joined, rxVars, overlapped>>

\* Line 180: fetch_add returns the old count.
take_id(a) ==
  /\ stage[a] = "start"
  /\ bind_id' = [bind_id EXCEPT ![a] = num_bindings]
  /\ num_bindings' = num_bindings + 1
  /\ stage' = [stage EXCEPT ![a] = "push"]
  /\ LET others == {b \in Adders : stage[b] = "push"}
     IN  overlapped' = IF others = {} THEN overlapped
                       ELSE overlapped \cup others \cup {a}
  /\ UNCHANGED <<panicked, net_devs, callback_handles, joined, rxVars>>

\* Mutant of push_device: the device is put in front of the others.
push_device_front(a) ==
  /\ stage[a] = "push"
  /\ net_devs' = <<a>> \o net_devs
  /\ stage' = [stage EXCEPT ![a] = "bind"]
  /\ UNCHANGED <<panicked, num_bindings, callback_handles, joined, bind_id, rxVars, overlapped>>

\* Line 182, under the write lock.
push_device(a) ==
  /\ stage[a] = "push"
  /\ net_devs' = Append(net_devs, a)
  /\ stage' = [stage EXCEPT ![a] = "bind"]
  /\ UNCHANGED <<panicked, num_bindings, callback_handles, joined, bind_id, rxVars, overlapped>>

\* Mutant of bind_device: the identifier of a refused binding is given back.
bind_device_give_back(a) ==
  /\ stage[a] = "bind"
  /\ IF DeviceOf[a] \in Unconnected
     THEN /\ stage' = [stage EXCEPT ![a] = "failed"]
          /\ num_bindings' = num_bindings - 1
          /\ UNCHANGED poll
     ELSE /\ stage' = [stage EXCEPT ![a] = "store"]
          /\ poll' = [poll EXCEPT ![a] = "recv"]
          /\ UNCHANGED num_bindings
  /\ UNCHANGED <<panicked, net_devs, callback_handles, joined, bind_id, sock,
                 received, rxq, handler, msg, overlapped>>

\* Line 185: bind, under the device's mutex, spawns poll_socket with the
\* identifier.  When it refuses, the call returns an error, and the identifier
\* and the device stay registered.
bind_device(a) ==
  /\ stage[a] = "bind"
  /\ IF DeviceOf[a] \in Unconnected
     THEN stage' = [stage EXCEPT ![a] = "failed"] /\ UNCHANGED poll
     ELSE /\ stage' = [stage EXCEPT ![a] = "store"]
          /\ poll' = [poll EXCEPT ![a] = "recv"]
  /\ UNCHANGED <<panicked, num_bindings, net_devs, callback_handles, joined,
                 bind_id, sock, received, rxq, handler, msg, overlapped>>

\* Line 193: the handle of the poll task joins the others.
store_handle(a) ==
  /\ stage[a] = "store"
  /\ callback_handles' = Append(callback_handles, a)
  /\ stage' = [stage EXCEPT ![a] = "done"]
  /\ UNCHANGED <<panicked, num_bindings, net_devs, joined, bind_id, rxVars, overlapped>>

add_physical_binding(a) ==
  take_id(a) \/ push_device(a) \/ bind_device(a) \/ store_handle(a)

Count(h, handles) == Cardinality({i \in 1..Len(handles) : handles[i] = h})

\* Mutant of join_handles: the handles are copied, not drained.
join_handles_copy ==
  /\ callback_handles # <<>>
  /\ joined[Handler] < 2
  /\ joined' = [h \in Handles |-> joined[h] + Count(h, callback_handles)]
  /\ UNCHANGED <<panicked, num_bindings, net_devs, callback_handles, stage,
                 bind_id, rxVars, overlapped>>

\* Drains the list; a poll task whose handle is not stored yet is missed.
join_handles ==
  /\ callback_handles # <<>>
  /\ joined' = [h \in Handles |-> joined[h] + Count(h, callback_handles)]
  /\ callback_handles' = <<>>
  /\ UNCHANGED <<panicked, num_bindings, net_devs, stage, bind_id, rxVars, overlapped>>

-----------------------------------------------------------------------------
(* poll_socket of task a, and the handler.                                 *)

\* The device's socket gets a datagram (external).
datagram(d) ==
  /\ d \notin Unconnected
  /\ received < MaxDatagrams
  /\ received' = received + 1
  /\ sock' = [sock EXCEPT ![d] = @ + 1]
  /\ UNCHANGED <<panicked, bindVars, poll, rxq, handler, msg, overlapped>>

poll_recv(a) ==
  /\ poll[a] = "recv"
  /\ sock[DeviceOf[a]] > 0
  /\ sock' = [sock EXCEPT ![DeviceOf[a]] = @ - 1]
  /\ poll' = [poll EXCEPT ![a] = "send"]
  /\ UNCHANGED <<panicked, bindVars, received, rxq, handler, msg, overlapped>>

\* Mutant of poll_send: the channel is unbounded.
poll_send_unbounded(a) ==
  /\ poll[a] = "send"
  /\ rxq' = Append(rxq, a)
  /\ poll' = [poll EXCEPT ![a] = "recv"]
  /\ UNCHANGED <<panicked, bindVars, sock, received, handler, msg, overlapped>>

\* rx_callback.send(cmd).await, with the identifier the task was given.
poll_send(a) ==
  /\ poll[a] = "send"
  /\ Len(rxq) < RxCap
  /\ rxq' = Append(rxq, a)
  /\ poll' = [poll EXCEPT ![a] = "recv"]
  /\ UNCHANGED <<panicked, bindVars, sock, received, handler, msg, overlapped>>

\* recv_from(..).await.unwrap()
poll_panic(a) ==
  /\ a \in RecvFails
  /\ poll[a] = "recv"
  /\ poll' = [poll EXCEPT ![a] = "panicked"]
  /\ UNCHANGED <<panicked, bindVars, sock, received, rxq, handler, msg, overlapped>>

callback_handler_recv ==
  /\ handler = "recv"
  /\ rxq # <<>>
  /\ msg' = Head(rxq)
  /\ rxq' = Tail(rxq)
  /\ handler' = "check"
  /\ UNCHANGED <<panicked, bindVars, poll, sock, received, overlapped>>

\* Mutant of get_binding_check: a refused identifier is tried again.
get_binding_check_retry ==
  /\ handler = "check"
  /\ handler' = IF bind_id[msg] < num_bindings - 1 THEN "check" ELSE "index"
  /\ UNCHANGED msg
  /\ UNCHANGED <<panicked, bindVars, poll, sock, received, rxq, overlapped>>

\* Line 105: the count is loaded; every identifier but the newest is refused,
\* and the handler ignores that.  The u64 subtraction panics at zero.
get_binding_check ==
  /\ handler = "check"
  /\ handler' = CASE num_bindings = 0 -> "panicked"
                  [] bind_id[msg] < num_bindings - 1 -> "recv"
                  [] OTHER -> "index"
  /\ msg' = IF handler' = "index" THEN msg ELSE NoMsg
  /\ UNCHANGED <<panicked, bindVars, poll, sock, received, rxq, overlapped>>

\* What line 108 finds for an identifier: the task that pushed the entry, or
\* NoMsg for None.
lookup(id) == IF id + 1 \in 1..Len(net_devs) THEN net_devs[id + 1] ELSE NoMsg

\* Line 108, after the count may have changed; the handler drops the binding.
get_binding_index ==
  /\ handler = "index"
  /\ handler' = "recv"
  /\ msg' = NoMsg
  /\ UNCHANGED <<panicked, bindVars, poll, sock, received, rxq, overlapped>>

callback_handler == callback_handler_recv \/ get_binding_check \/ get_binding_index

-----------------------------------------------------------------------------
poll_socket(a) == poll_recv(a) \/ poll_send(a)

Next ==
  \/ \E c \in Callers, extended \in BOOLEAN, network \in Networks :
       sendto(c, extended, network, 9)
  \/ \E a \in Adders : add_physical_binding(a) \/ poll_socket(a) \/ poll_panic(a)
  \/ join_handles
  \/ \E d \in Devices : datagram(d)
  \/ callback_handler

Spec == Init /\ [][Next]_vars

\* The runtime runs a spawned task that can run.  Nothing obliges the callers
\* of the network, or the devices' peers.
FairSpec ==
  /\ Spec
  /\ \A a \in Adders : WF_vars(poll_socket(a))
  /\ WF_vars(callback_handler)

-----------------------------------------------------------------------------
\* Types, with the bound of the callback channel.
VirtualTypeOK ==
  /\ panicked \subseteq Callers
  /\ num_bindings \in 0..Cardinality(Adders)
  /\ net_devs \in Seq(Adders)
  /\ callback_handles \in Seq(Handles)
  /\ joined \in [Handles -> Nat]
  /\ stage \in [Adders -> {"start", "push", "bind", "store", "done", "failed"}]
  /\ bind_id \in [Adders -> -1..(Cardinality(Adders) - 1)]
  /\ poll \in [Adders -> {"none", "recv", "send", "panicked"}]
  /\ sock \in [Devices -> 0..MaxDatagrams]
  /\ received \in 0..MaxDatagrams
  /\ rxq \in Seq(Adders) /\ Len(rxq) <= RxCap
  /\ handler \in {"recv", "check", "index", "panicked"}
  /\ msg \in Adders \cup {NoMsg}
  /\ overlapped \subseteq Adders

Holding(where) == {a \in Adders : stage[a] = where}

\* Identifiers are unique and issued before anything carries them
\* (virtual_network.rs:180, 105): no two registrations share one, the count is
\* ahead of the device list by exactly the tasks between lines 180 and 182,
\* and so the subtraction of line 105 never underflows when a message arrives.
IdsIssued ==
  /\ \A a \in Adders : stage[a] # "start" =>
       /\ bind_id[a] \in 0..(num_bindings - 1)
       /\ \A b \in Adders \ {a} : bind_id[b] # bind_id[a]
  /\ num_bindings = Len(net_devs) + Cardinality(Holding("push"))
  /\ handler # "panicked"

\* An identifier finds the device registered with it (virtual_network.rs:108)
\* unless lines 180-182 of that registration overlapped another one's; then it
\* finds one of those that overlapped, and None only while one of them has
\* still to push its device.
MisfiledNeedsOverlap ==
  \A a \in Adders \ (Holding("start") \cup Holding("push")) :
    LET found == lookup(bind_id[a])
    IN  /\ a \notin overlapped => found = a
        /\ a \in overlapped /\ found # NoMsg => found \in overlapped
        /\ found = NoMsg => Holding("push") # {}

\* Every task ever spawned has its handle in one place (virtual_network.rs:78,
\* 193, 201): in the list, with the add_physical_binding about to store it, or
\* in what join_handles returned, whichever of the two ran first.
HandlesConserved ==
  LET held(h) == IF h \in Holding("store") THEN 1 ELSE 0
      spawned(h) == IF h = Handler \/ (h \in Adders /\ poll[h] # "none") THEN 1 ELSE 0
  IN  \A h \in Handles : Count(h, callback_handles) + joined[h] + held(h) = spawned(h)

\* Messages in the callback channel or in the hands of a poll_socket task.
Backlog == rxq # <<>> \/ \E a \in Adders : poll[a] = "send"

\* The handler keeps up (virtual_network.rs:92-101): identifiers it cannot
\* resolve do not stop it, the channel empties again and again, and no
\* poll_socket task stays blocked in a full channel.
HandlerKeepsUp == Backlog ~> ~Backlog
=============================================================================
