------------------------ MODULE VirtualNetworkProofs ------------------------
(***************************************************************************)
(* Proofs about VirtualNetwork, for any number of tasks registering        *)
(* bindings and any capacity of the callback channel: identifiers are      *)
(* unique and issued before they are used, an identifier is misfiled only  *)
(* by an overlap, and every join handle is in one place.                   *)
(***************************************************************************)
EXTENDS VirtualNetwork, SequenceLemmas, TLAPS

\* Registrations that have taken their identifier, and that have pushed their
\* device as well.
Taken(a) == stage[a] # "start"
Pushed(a) == stage[a] \notin {"start", "push"}

-----------------------------------------------------------------------------
(* The inductive invariant, in parts.                                      *)

\* Types.  The bounds of VirtualTypeOK on the identifiers follow from Counted
\* and Issued.
BindType ==
  /\ panicked \subseteq Callers
  /\ num_bindings \in Nat
  /\ net_devs \in Seq(Adders)
  /\ callback_handles \in Seq(Handles)
  /\ joined \in [Handles -> Nat]
  /\ stage \in [Adders -> {"start", "push", "bind", "store", "done", "failed"}]
  /\ bind_id \in [Adders -> Int]
  /\ overlapped \subseteq Adders

RxType ==
  /\ poll \in [Adders -> {"none", "recv", "send", "panicked"}]
  /\ sock \in [Devices -> Nat]
  /\ received \in 0..MaxDatagrams
  /\ \A d \in Devices : sock[d] <= received
  /\ rxq \in Seq(Adders) /\ Len(rxq) <= RxCap
  /\ handler \in {"recv", "check", "index", "panicked"}
  /\ msg \in Adders \cup {NoMsg}

\* As many identifiers were issued as registrations took one, and the devices
\* not yet in the list are those of the tasks between lines 180 and 182.
Counted ==
  /\ num_bindings = Cardinality({a \in Adders : Taken(a)})
  /\ num_bindings = Len(net_devs) + Cardinality(Holding("push"))

\* Every registration that took an identifier has one of its own.
Issued ==
  \A a \in Adders :
    IF Taken(a)
    THEN /\ bind_id[a] \in 0..(num_bindings - 1)
         /\ \A b \in Adders \ {a} : bind_id[b] # bind_id[a]
    ELSE bind_id[a] = -1

\* The device list holds the devices pushed, once each.
Listed ==
  /\ \A a \in Adders : Pushed(a) <=> \E i \in 1..Len(net_devs) : net_devs[i] = a
  /\ \A i, j \in 1..Len(net_devs) : net_devs[i] = net_devs[j] => i = j

\* A registration that overlaps no other is the only one between lines 180 and
\* 182, with the next place in the list for its identifier, and is found there
\* afterwards.
Filed ==
  \A a \in Adders \ overlapped :
    /\ stage[a] = "push" => Holding("push") = {a} /\ bind_id[a] = Len(net_devs)
    /\ Pushed(a) => bind_id[a] + 1 \in 1..Len(net_devs) /\ net_devs[bind_id[a] + 1] = a

\* A poll_socket task exists once bind has spawned it, and only such tasks
\* send messages.
Spawned ==
  /\ \A a \in Adders : poll[a] # "none" <=> stage[a] \in {"store", "done"}
  /\ \A i \in 1..Len(rxq) : poll[rxq[i]] # "none"
  /\ handler \in {"check", "index"} => msg \in Adders /\ poll[msg] # "none"
  /\ handler # "panicked"

VInv ==
  /\ BindType /\ RxType /\ Counted /\ Issued /\ Listed /\ Filed /\ Spawned
  /\ HandlesConserved

-----------------------------------------------------------------------------
(* What the steps do.                                                      *)

\* What is assumed of the tasks.
LEMMA Tasks ==
  /\ IsFiniteSet(Adders) /\ Handler \notin Adders /\ NoMsg \notin Adders
  /\ DeviceOf \in [Adders -> Devices] /\ RxCap \in Nat /\ MaxDatagrams \in Nat
BY VirtualNetworkAssumption

\* A step that registers nothing: of a caller, a poll_socket task, a device or
\* the handler.
Serves ==
  /\ UNCHANGED <<bindVars, overlapped>>
  /\ \A a \in Adders : poll'[a] = "none" <=> poll[a] = "none"

\* The registration of a goes on: it is at stage s now.
Moves(a, s) ==
  /\ stage' = [stage EXCEPT ![a] = s]
  /\ UNCHANGED <<joined, rxq, handler, msg>>

\* The stages after a step of one registration.
LEMMA MovesProps ==
  ASSUME BindType, NEW a \in Adders, NEW s, Moves(a, s)
  PROVE  /\ stage'[a] = s
         /\ \A b \in Adders : b # a => stage'[b] = stage[b]
  BY DEF BindType, Moves

\* A step of poll_socket, of the handler or of a device, and the types.
LEMMA RxSteps ==
  ASSUME BindType, RxType,
         \/ \E a \in Adders : poll_socket(a) \/ poll_panic(a)
         \/ \E d \in Devices : datagram(d)
         \/ callback_handler
  PROVE  UNCHANGED <<panicked, bindVars, overlapped>> /\ Serves /\ RxType'
<1>1. /\ poll \in [Adders -> {"none", "recv", "send", "panicked"}]
      /\ sock \in [Devices -> Nat] /\ received \in 0..MaxDatagrams
      /\ \A d \in Devices : sock[d] <= received
      /\ rxq \in Seq(Adders) /\ Len(rxq) <= RxCap
      /\ handler \in {"recv", "check", "index", "panicked"}
      /\ msg \in Adders \cup {NoMsg}
  BY Zenon DEF RxType
<1>2. ASSUME NEW a \in Adders, poll_recv(a)
      PROVE  UNCHANGED <<panicked, bindVars, overlapped>> /\ Serves /\ RxType'
  <2>1. /\ poll[a] = "recv" /\ sock[DeviceOf[a]] > 0
        /\ sock' = [sock EXCEPT ![DeviceOf[a]] = @ - 1]
        /\ poll' = [poll EXCEPT ![a] = "send"]
        /\ UNCHANGED <<panicked, bindVars, overlapped>>
        /\ UNCHANGED <<received, rxq, handler, msg>>
    BY <1>2, Zenon DEF poll_recv
  <2>2. DeviceOf[a] \in Devices
    BY Tasks
  <2>3. sock' \in [Devices -> Nat] /\ \A d \in Devices : sock'[d] <= received'
    BY <1>1, <2>1, <2>2
  <2>4. /\ poll' \in [Adders -> {"none", "recv", "send", "panicked"}]
        /\ \A b \in Adders : poll'[b] = "none" <=> poll[b] = "none"
    BY <1>1, <2>1
  <2> QED
    BY <1>1, <2>1, <2>3, <2>4, Zenon DEF RxType, Serves
<1>3. ASSUME NEW a \in Adders, poll_send(a)
      PROVE  UNCHANGED <<panicked, bindVars, overlapped>> /\ Serves /\ RxType'
  <2>1. /\ poll[a] = "send" /\ Len(rxq) < RxCap /\ rxq' = Append(rxq, a)
        /\ poll' = [poll EXCEPT ![a] = "recv"]
        /\ UNCHANGED <<panicked, bindVars, overlapped>>
        /\ UNCHANGED <<sock, received, handler, msg>>
    BY <1>3, Zenon DEF poll_send
  <2>2. rxq' \in Seq(Adders) /\ Len(rxq') <= RxCap
    BY <1>1, <2>1, AppendProps, Tasks
  <2>3. /\ poll' \in [Adders -> {"none", "recv", "send", "panicked"}]
        /\ \A b \in Adders : poll'[b] = "none" <=> poll[b] = "none"
    BY <1>1, <2>1
  <2> QED
    BY <1>1, <2>1, <2>2, <2>3, Zenon DEF RxType, Serves
<1>4. ASSUME NEW a \in Adders, poll_panic(a)
      PROVE  UNCHANGED <<panicked, bindVars, overlapped>> /\ Serves /\ RxType'
  <2>1. /\ poll[a] = "recv" /\ poll' = [poll EXCEPT ![a] = "panicked"]
        /\ UNCHANGED <<panicked, bindVars, overlapped>>
        /\ UNCHANGED <<sock, received, rxq, handler, msg>>
    BY <1>4, Zenon DEF poll_panic
  <2>2. /\ poll' \in [Adders -> {"none", "recv", "send", "panicked"}]
        /\ \A b \in Adders : poll'[b] = "none" <=> poll[b] = "none"
    BY <1>1, <2>1
  <2> QED
    BY <1>1, <2>1, <2>2, Zenon DEF RxType, Serves
<1>5. ASSUME NEW d \in Devices, datagram(d)
      PROVE  UNCHANGED <<panicked, bindVars, overlapped>> /\ Serves /\ RxType'
  <2>1. /\ received < MaxDatagrams /\ received' = received + 1
        /\ sock' = [sock EXCEPT ![d] = @ + 1]
        /\ UNCHANGED <<panicked, bindVars, overlapped>>
        /\ UNCHANGED <<poll, rxq, handler, msg>>
    BY <1>5, Zenon DEF datagram
  <2>2. received' \in 0..MaxDatagrams
    BY <1>1, <2>1, Tasks
  <2>3. sock' \in [Devices -> Nat] /\ \A e \in Devices : sock'[e] <= received'
    BY <1>1, <2>1
  <2> QED
    BY <1>1, <2>1, <2>2, <2>3, Zenon DEF RxType, Serves
<1>6. CASE callback_handler
  <2>1. /\ UNCHANGED <<panicked, bindVars, overlapped>> /\ UNCHANGED <<poll, sock, received>>
        /\ rxq' = rxq \/ (rxq # <<>> /\ rxq' = Tail(rxq))
    BY <1>6, Zenon DEF callback_handler, callback_handler_recv, get_binding_check, get_binding_index
  <2>2. rxq' \in Seq(Adders) /\ Len(rxq') <= RxCap
    <3>1. CASE rxq # <<>> /\ rxq' = Tail(rxq)
      <4>1. Tail(rxq) \in Seq(Adders) /\ Len(Tail(rxq)) = Len(rxq) - 1 /\ Len(rxq) \in Nat
        BY <1>1, <3>1, TailProps
      <4> QED
        BY <1>1, <3>1, <4>1, Tasks
    <3> QED
      BY <1>1, <2>1, <3>1
  <2>3. handler' \in {"recv", "check", "index", "panicked"} /\ msg' \in Adders \cup {NoMsg}
    <3>1. CASE callback_handler_recv
      <4>1. rxq # <<>> /\ msg' = Head(rxq) /\ handler' = "check"
        BY <3>1, Zenon DEF callback_handler_recv
      <4>2. Head(rxq) \in Adders
        BY <1>1, <4>1, TailProps
      <4> QED
        BY <4>1, <4>2
    <3>2. CASE get_binding_check
      BY <1>1, <3>2 DEF get_binding_check
    <3>3. CASE get_binding_index
      BY <3>3 DEF get_binding_index
    <3> QED
      BY <1>6, <3>1, <3>2, <3>3, Zenon DEF callback_handler
  <2> QED
    BY <1>1, <2>1, <2>2, <2>3, Zenon DEF RxType, Serves
<1> QED
  BY <1>2, <1>3, <1>4, <1>5, <1>6, Zenon DEF poll_socket

-----------------------------------------------------------------------------
(* The join handles.                                                       *)

\* The tasks that exist.
Live == {Handler} \cup {a \in Adders : poll[a] # "none"}

\* HandlesConserved for one handle, as a sum.
Conserved(h) ==
  NumberIn(callback_handles, {h}) + joined[h] + OneIn(h, Holding("store")) = OneIn(h, Live)

\* Counting a handle is counting the elements of a singleton.
LEMMA CountIsNumberIn ==
  ASSUME NEW h, NEW s
  PROVE  Count(h, s) = NumberIn(s, {h})
<1>1. {i \in 1..Len(s) : s[i] = h} = At(s, {h})
  BY DEF At
<1> QED
  BY <1>1, Zenon DEF Count, NumberIn

\* HandlesConserved in these terms, before and after a step.
LEMMA ConservedHandles ==
  /\ HandlesConserved <=> \A h \in Handles : Conserved(h)
  /\ HandlesConserved' <=> \A h \in Handles : Conserved(h)'
<1>1. \A h \in Handles : h \in Live <=> h = Handler \/ (h \in Adders /\ poll[h] # "none")
  BY DEF Live
<1>2. \A h \in Handles : h \in Live' <=> h = Handler \/ (h \in Adders /\ poll'[h] # "none")
  BY DEF Live
<1>3. HandlesConserved <=> \A h \in Handles : Conserved(h)
  BY <1>1, CountIsNumberIn, Zenon DEF HandlesConserved, Conserved, OneIn
<1>4. HandlesConserved' <=> \A h \in Handles : Conserved(h)'
  BY <1>2, CountIsNumberIn, Zenon DEF HandlesConserved, Conserved, OneIn
<1> QED
  BY <1>3, <1>4, Zenon

\* A handle that stays where it is.
LEMMA ConservedStays ==
  ASSUME NEW h, Conserved(h), UNCHANGED <<callback_handles, joined>>,
         h \in Holding("store")' <=> h \in Holding("store"),
         h \in Live' <=> h \in Live
  PROVE  Conserved(h)'
  BY Zenon DEF Conserved, OneIn

\* The counts are numbers.
LEMMA HandleCounts ==
  ASSUME BindType, NEW h \in Handles
  PROVE  NumberIn(callback_handles, {h}) \in Nat /\ joined[h] \in Nat
<1>1. callback_handles \in Seq(Handles) /\ joined \in [Handles -> Nat]
  BY Zenon DEF BindType
<1> QED
  BY <1>1, NumberInType

-----------------------------------------------------------------------------
(* The steps keep the invariant.                                           *)

\* What concerns registrations.
BindInv == Counted /\ Issued /\ Listed /\ Filed /\ HandlesConserved

\* A step that registers nothing keeps it.
LEMMA ServesInv ==
  ASSUME BindInv, Serves
  PROVE  BindInv'
<1>1. UNCHANGED <<num_bindings, net_devs, callback_handles, joined, stage, bind_id, overlapped>>
  BY Zenon DEF Serves, bindVars
<1>2. Counted' /\ Issued' /\ Listed' /\ Filed'
  BY <1>1, Zenon DEF BindInv, Counted, Issued, Listed, Filed, Taken, Pushed, Holding
<1>3. Holding("store")' = Holding("store") /\ \A h \in Handles : h \in Live' <=> h \in Live
  BY <1>1 DEF Holding, Live, Serves
<1>4. \A h \in Handles : Conserved(h)
  BY ConservedHandles, Zenon DEF BindInv
<1>5. \A h \in Handles : Conserved(h)'
  BY <1>1, <1>3, <1>4, ConservedStays, Zenon
<1> QED
  BY <1>2, <1>5, ConservedHandles, Zenon DEF BindInv

\* The steps of poll_socket and of the handler keep what Spawned says: a
\* message comes from a task that exists, and so its identifier was issued.
LEMMA RxSpawned ==
  ASSUME VInv, Serves,
         \/ \E a \in Adders : poll_socket(a) \/ poll_panic(a)
         \/ \E d \in Devices : datagram(d)
         \/ callback_handler
  PROVE  Spawned'
<1>1. /\ RxType /\ BindType /\ Issued
      /\ \A a \in Adders : poll[a] # "none" <=> stage[a] \in {"store", "done"}
      /\ \A i \in 1..Len(rxq) : poll[rxq[i]] # "none"
      /\ handler \in {"check", "index"} => msg \in Adders /\ poll[msg] # "none"
      /\ handler # "panicked"
      /\ rxq \in Seq(Adders)
  BY Zenon DEF VInv, Spawned, RxType
<1>2. /\ stage' = stage
      /\ \A a \in Adders : poll'[a] = "none" <=> poll[a] = "none"
  BY Zenon DEF Serves, bindVars
<1>3. \A a \in Adders : poll'[a] # "none" <=> stage'[a] \in {"store", "done"}
  BY <1>1, <1>2, Zenon
<1>4. \A i \in 1..Len(rxq) : rxq[i] \in Adders
  BY <1>1
<1>5. CASE rxq' = rxq /\ UNCHANGED <<handler, msg>>
  BY <1>1, <1>2, <1>3, <1>4, <1>5, Zenon DEF Spawned
<1>6. ASSUME NEW a \in Adders, poll_send(a)
      PROVE  Spawned'
  <2>1. poll[a] = "send" /\ rxq' = Append(rxq, a) /\ UNCHANGED <<handler, msg>>
    BY <1>6, Zenon DEF poll_send
  <2>2. \A i \in 1..Len(rxq') : (i \in 1..Len(rxq) /\ rxq'[i] = rxq[i]) \/ rxq'[i] = a
    BY <1>1, <2>1, AppendProps
  <2>3. poll'[a] # "none"
    BY <1>2, <2>1
  <2>4. \A i \in 1..Len(rxq') : poll'[rxq'[i]] # "none"
    BY <1>1, <1>2, <1>4, <2>2, <2>3, Zenon
  <2> QED
    BY <1>1, <1>2, <1>3, <2>1, <2>4, Zenon DEF Spawned
<1>7. CASE callback_handler_recv
  <2>1. rxq # <<>> /\ msg' = Head(rxq) /\ rxq' = Tail(rxq) /\ handler' = "check"
    BY <1>7, Zenon DEF callback_handler_recv
  <2>2. /\ Len(rxq) \in Nat /\ 1 \in 1..Len(rxq) /\ Head(rxq) = rxq[1]
        /\ \A i \in 1..Len(rxq') : i + 1 \in 1..Len(rxq) /\ rxq'[i] = rxq[i + 1]
    BY <1>1, <2>1, TailProps
  <2>3. \A i \in 1..Len(rxq') : poll'[rxq'[i]] # "none"
    BY <1>1, <1>2, <1>4, <2>2, Zenon
  <2>4. msg' \in Adders /\ poll'[msg'] # "none"
    BY <1>1, <1>2, <1>4, <2>1, <2>2, Zenon
  <2>5. handler' # "panicked"
    BY <2>1
  <2> QED
    BY <1>3, <2>3, <2>4, <2>5, Zenon DEF Spawned
<1>8. CASE get_binding_check
  <2>1. /\ handler = "check" /\ rxq' = rxq
        /\ handler' = CASE num_bindings = 0 -> "panicked"
                        [] bind_id[msg] < num_bindings - 1 -> "recv"
                        [] OTHER -> "index"
        /\ msg' = IF handler' = "index" THEN msg ELSE NoMsg
    BY <1>8, Zenon DEF get_binding_check
  <2>2. msg \in Adders /\ poll[msg] # "none"
    BY <1>1, <2>1
  <2>3. Taken(msg)
    BY <1>1, <2>2 DEF Taken
  <2>4. bind_id[msg] \in 0..(num_bindings - 1) /\ num_bindings \in Nat
    BY <1>1, <2>2, <2>3, Zenon DEF Issued, BindType
  <2>5. num_bindings # 0
    BY <2>4
  <2>6. handler' \in {"recv", "index"}
    BY <2>1, <2>5
  <2>7. handler' = "index" => msg' = msg
    BY <2>1, Zenon
  <2>8. handler' \in {"check", "index"} => msg' \in Adders /\ poll'[msg'] # "none"
    BY <1>2, <2>2, <2>6, <2>7
  <2>9. \A i \in 1..Len(rxq') : poll'[rxq'[i]] # "none"
    BY <1>1, <1>2, <1>4, <2>1, Zenon
  <2> QED
    BY <1>3, <2>6, <2>8, <2>9 DEF Spawned
<1>9. CASE get_binding_index
  <2>1. rxq' = rxq /\ handler' = "recv"
    BY <1>9, Zenon DEF get_binding_index
  <2>2. \A i \in 1..Len(rxq') : poll'[rxq'[i]] # "none"
    BY <1>1, <1>2, <1>4, <2>1, Zenon
  <2> QED
    BY <1>3, <2>1, <2>2 DEF Spawned
<1> QED
  BY <1>5, <1>6, <1>7, <1>8, <1>9, Zenon DEF poll_socket, poll_recv, poll_panic, datagram, callback_handler

\* The sets of registrations at a stage are finite, and change by one.
LEMMA HoldingMoves ==
  ASSUME BindType, NEW a \in Adders, NEW s, Moves(a, s), NEW w
  PROVE  /\ IsFiniteSet(Holding(w)) /\ Cardinality(Holding(w)) \in Nat
         /\ a \in Holding(w) <=> stage[a] = w
         /\ s = w => Holding(w)' = Holding(w) \cup {a}
         /\ s # w => Holding(w)' = Holding(w) \ {a}
<1>1. stage'[a] = s /\ \A b \in Adders : b # a => stage'[b] = stage[b]
  BY MovesProps, Zenon
<1>2. Holding(w) \in SUBSET Adders
  BY DEF Holding
<1>3. IsFiniteSet(Holding(w))
  BY <1>2, Tasks, FS_Subset
<1>4. Cardinality(Holding(w)) \in Nat
  BY <1>3, FS_CardinalityType
<1>5. a \in Holding(w) <=> stage[a] = w
  BY DEF Holding
<1>6. s = w => Holding(w)' = Holding(w) \cup {a}
  BY <1>1 DEF Holding
<1>7. s # w => Holding(w)' = Holding(w) \ {a}
  BY <1>1 DEF Holding
<1> QED
  BY <1>3, <1>4, <1>5, <1>6, <1>7, Zenon

\* The handles when a registration moves and no handle does.
LEMMA MovesHandles ==
  ASSUME BindType, HandlesConserved, NEW a \in Adders, NEW s, Moves(a, s),
         UNCHANGED <<callback_handles, poll>>, stage[a] # "store", s # "store"
  PROVE  HandlesConserved'
<1>1. Holding("store")' = Holding("store")
  BY HoldingMoves
<1>2. Live' = Live /\ UNCHANGED <<callback_handles, joined>>
  BY Zenon DEF Live, Moves
<1>3. \A h \in Handles : Conserved(h)'
  BY <1>1, <1>2, ConservedHandles, ConservedStays, Zenon
<1> QED
  BY <1>3, ConservedHandles, Zenon

\* Nothing changes for the tasks that exist when a registration moves outside
\* the stages in which they do.
LEMMA MovesSpawned ==
  ASSUME BindType, Spawned, NEW a \in Adders, NEW s, Moves(a, s), UNCHANGED poll,
         stage[a] \in {"store", "done"} <=> s \in {"store", "done"}
  PROVE  Spawned'
<1>1. stage'[a] = s /\ \A b \in Adders : b # a => stage'[b] = stage[b]
  BY MovesProps, Zenon
<1>2. \A b \in Adders : poll'[b] # "none" <=> stage'[b] \in {"store", "done"}
  BY <1>1, Zenon DEF Spawned
<1>3. UNCHANGED <<rxq, handler, msg>>
  BY Zenon DEF Moves
<1> QED
  BY <1>2, <1>3, Zenon DEF Spawned

\* Line 180: an identifier is taken.
LEMMA TakeIdInv ==
  ASSUME VInv, NEW a \in Adders, take_id(a)
  PROVE  BindType' /\ BindInv' /\ Spawned'
<1>1. BindType /\ Counted /\ Issued /\ Listed /\ Filed /\ Spawned /\ HandlesConserved
  BY Zenon DEF VInv
<1>2. /\ panicked \subseteq Callers /\ num_bindings \in Nat /\ net_devs \in Seq(Adders)
      /\ callback_handles \in Seq(Handles) /\ joined \in [Handles -> Nat]
      /\ stage \in [Adders -> {"start", "push", "bind", "store", "done", "failed"}]
      /\ bind_id \in [Adders -> Int] /\ overlapped \subseteq Adders
  BY <1>1, Zenon DEF BindType
<1>3. /\ stage[a] = "start"
      /\ bind_id' = [bind_id EXCEPT ![a] = num_bindings]
      /\ num_bindings' = num_bindings + 1
      /\ stage' = [stage EXCEPT ![a] = "push"]
      /\ overlapped' = (IF Holding("push") = {} THEN overlapped
                        ELSE overlapped \cup Holding("push") \cup {a})
      /\ UNCHANGED <<panicked, net_devs, callback_handles, joined>>
      /\ UNCHANGED <<poll, sock, received, rxq, handler, msg>>
  BY Zenon DEF take_id, rxVars, Holding
<1>4. Moves(a, "push") /\ UNCHANGED <<callback_handles, poll>>
  BY <1>3, Zenon DEF Moves
<1>5. stage'[a] = "push" /\ \A b \in Adders : b # a => stage'[b] = stage[b]
  BY <1>1, <1>4, MovesProps, Zenon
<1>6. bind_id'[a] = num_bindings /\ \A b \in Adders : b # a => bind_id'[b] = bind_id[b]
  BY <1>2, <1>3
<1>7. BindType'
  <2>1. stage' \in [Adders -> {"start", "push", "bind", "store", "done", "failed"}]
    BY <1>2, <1>3
  <2>2. bind_id' \in [Adders -> Int] /\ num_bindings' \in Nat
    BY <1>2, <1>3
  <2>3. overlapped' \subseteq Adders
    BY <1>2, <1>3 DEF Holding
  <2> QED
    BY <1>2, <1>3, <2>1, <2>2, <2>3, Zenon DEF BindType
<1>8. /\ IsFiniteSet(Holding("push")) /\ Cardinality(Holding("push")) \in Nat
      /\ a \notin Holding("push") /\ Holding("push")' = Holding("push") \cup {a}
  BY <1>1, <1>3, <1>4, HoldingMoves
<1>9. Counted'
  <2> DEFINE T == {b \in Adders : Taken(b)}
             H == Holding("push")
  <2>1. IsFiniteSet(T)
    <3>1. T \in SUBSET Adders
      OBVIOUS
    <3> QED
      BY <3>1, Tasks, FS_Subset
  <2>2. {b \in Adders : Taken(b)'} = T \cup {a} /\ a \notin T
    BY <1>3, <1>5 DEF Taken
  <2>3. Cardinality(T \cup {a}) = Cardinality(T) + 1
    <3> HIDE DEF T
    <3> QED
      BY <2>1, <2>2, FS_AddElement
  <2>4. Cardinality(H \cup {a}) = Cardinality(H) + 1
    BY <1>8, FS_AddElement
  <2>5. num_bindings = Cardinality(T) /\ num_bindings = Len(net_devs) + Cardinality(H)
    BY <1>1, Zenon DEF Counted
  <2>6. num_bindings' = Cardinality({b \in Adders : Taken(b)'})
    <3> HIDE DEF T
    <3> QED
      BY <1>3, <2>2, <2>3, <2>5
  <2>7. num_bindings' = Len(net_devs') + Cardinality(Holding("push")')
    <3>1. Len(net_devs) \in Nat
      BY <1>2
    <3>2. num_bindings' = Len(net_devs) + Cardinality(H) + 1
      BY <1>3, <2>5, Zenon
    <3>3. Cardinality(Holding("push")') = Cardinality(H) + 1 /\ Len(net_devs') = Len(net_devs)
      BY <1>3, <1>8, <2>4, Zenon
    <3>4. Cardinality(H) \in Nat
      BY <1>8
    <3> HIDE DEF H
    <3> QED
      BY <3>1, <3>2, <3>3, <3>4
  <2> QED
    BY <2>6, <2>7, Zenon DEF Counted
<1>10. Issued'
  <2>1. Taken(a)' /\ \A b \in Adders : b # a => (Taken(b)' <=> Taken(b))
    BY <1>5 DEF Taken
  <2>2. \A b \in Adders : b # a => bind_id[b] \in -1..(num_bindings - 1)
    BY <1>1, <1>2 DEF Issued
  <2>3. ASSUME NEW b \in Adders, Taken(b)'
        PROVE  /\ bind_id'[b] \in 0..(num_bindings' - 1)
               /\ \A d \in Adders \ {b} : bind_id'[d] # bind_id'[b]
    <3>1. CASE b = a
      <4>1. \A d \in Adders \ {a} : bind_id'[d] # num_bindings
        BY <1>2, <1>6, <2>2
      <4> QED
        BY <1>2, <1>3, <1>6, <3>1, <4>1
    <3>2. CASE b # a
      <4>1. bind_id[b] \in 0..(num_bindings - 1) /\ \A d \in Adders \ {b} : bind_id[d] # bind_id[b]
        BY <1>1, <2>1, <2>3, <3>2, Zenon DEF Issued
      <4>2. bind_id'[b] = bind_id[b] /\ bind_id'[b] \in 0..(num_bindings' - 1) /\ bind_id'[b] # num_bindings
        BY <1>2, <1>3, <1>6, <3>2, <4>1
      <4> QED
        BY <1>6, <4>1, <4>2, Zenon
    <3> QED
      BY <3>1, <3>2
  <2>4. ASSUME NEW b \in Adders, ~Taken(b)'
        PROVE  bind_id'[b] = -1
    BY <1>1, <1>6, <2>1, <2>4, Zenon DEF Issued
  <2> QED
    BY <2>3, <2>4, Zenon DEF Issued
<1>11. \A b \in Adders : Pushed(b)' <=> Pushed(b)
  BY <1>3, <1>5 DEF Pushed
<1>12. Listed'
  BY <1>1, <1>3, <1>11, Zenon DEF Listed
<1>13. Filed'
  <2> SUFFICES ASSUME NEW b \in Adders, b \notin overlapped'
               PROVE  /\ stage'[b] = "push" => Holding("push")' = {b} /\ bind_id'[b] = Len(net_devs')
                      /\ Pushed(b)' => /\ bind_id'[b] + 1 \in 1..Len(net_devs')
                                       /\ net_devs'[bind_id'[b] + 1] = b
    BY Zenon DEF Filed
  <2>1. b \notin overlapped
    BY <1>3
  <2>2. ASSUME stage'[b] = "push"
        PROVE  Holding("push")' = {b} /\ bind_id'[b] = Len(net_devs')
    <3>1. Holding("push") = {}
      <4>1. b \in Holding("push") \cup {a}
        BY <1>8, <2>2 DEF Holding
      <4> QED
        BY <1>3, <4>1
    <3>2. b = a
      BY <1>8, <2>2, <3>1 DEF Holding
    <3>3. Cardinality(Holding("push")) = 0
      BY <3>1, FS_EmptySet, Zenon
    <3>4. num_bindings = Len(net_devs)
      BY <1>1, <1>2, <3>3 DEF Counted
    <3> QED
      BY <1>3, <1>6, <1>8, <3>1, <3>2, <3>4
  <2>3. ASSUME Pushed(b)'
        PROVE  bind_id'[b] + 1 \in 1..Len(net_devs') /\ net_devs'[bind_id'[b] + 1] = b
    <3>1. b # a /\ Pushed(b)
      BY <1>3, <1>11, <2>3 DEF Pushed
    <3> QED
      BY <1>1, <1>3, <1>6, <2>1, <3>1 DEF Filed
  <2> QED
    BY <2>2, <2>3
<1>14. HandlesConserved'
  BY <1>1, <1>3, <1>4, MovesHandles
<1>15. Spawned'
  BY <1>1, <1>3, <1>4, MovesSpawned
<1> QED
  BY <1>7, <1>9, <1>10, <1>12, <1>13, <1>14, <1>15, Zenon DEF BindInv

\* A step of a registration that took its identifier before and keeps it.
LEMMA KeepsIds ==
  ASSUME BindType, Issued, NEW a \in Adders, NEW s, Moves(a, s),
         stage[a] # "start", s # "start", UNCHANGED <<num_bindings, bind_id>>
  PROVE  Issued' /\ {b \in Adders : Taken(b)'} = {b \in Adders : Taken(b)}
<1>1. stage'[a] = s /\ \A b \in Adders : b # a => stage'[b] = stage[b]
  BY MovesProps, Zenon
<1>2. \A b \in Adders : Taken(b)' <=> Taken(b)
  BY <1>1 DEF Taken
<1> QED
  BY <1>2, Zenon DEF Issued

\* Line 182: the device is pushed.
LEMMA PushInv ==
  ASSUME VInv, NEW a \in Adders, push_device(a)
  PROVE  BindType' /\ BindInv' /\ Spawned'
<1>1. BindType /\ Counted /\ Issued /\ Listed /\ Filed /\ Spawned /\ HandlesConserved
  BY Zenon DEF VInv
<1>2. /\ panicked \subseteq Callers /\ num_bindings \in Nat /\ net_devs \in Seq(Adders)
      /\ callback_handles \in Seq(Handles) /\ joined \in [Handles -> Nat]
      /\ stage \in [Adders -> {"start", "push", "bind", "store", "done", "failed"}]
      /\ bind_id \in [Adders -> Int] /\ overlapped \subseteq Adders
      /\ Len(net_devs) \in Nat
  BY <1>1 DEF BindType
<1>3. /\ stage[a] = "push"
      /\ net_devs' = Append(net_devs, a)
      /\ stage' = [stage EXCEPT ![a] = "bind"]
      /\ UNCHANGED <<panicked, num_bindings, callback_handles, joined, bind_id, overlapped>>
      /\ UNCHANGED <<poll, sock, received, rxq, handler, msg>>
  BY Zenon DEF push_device, rxVars
<1>4. Moves(a, "bind") /\ UNCHANGED <<callback_handles, poll>>
  BY <1>3, Zenon DEF Moves
<1>5. stage'[a] = "bind" /\ \A b \in Adders : b # a => stage'[b] = stage[b]
  BY <1>1, <1>4, MovesProps, Zenon
<1>6. /\ net_devs' \in Seq(Adders) /\ Len(net_devs') = Len(net_devs) + 1
      /\ \A j \in 1..Len(net_devs) : net_devs'[j] = net_devs[j]
      /\ net_devs'[Len(net_devs) + 1] = a
  BY <1>2, <1>3, AppendProps
<1>7. BindType'
  <2>1. stage' \in [Adders -> {"start", "push", "bind", "store", "done", "failed"}]
    BY <1>2, <1>3
  <2> QED
    BY <1>2, <1>3, <1>6, <2>1, Zenon DEF BindType
<1>8. /\ IsFiniteSet(Holding("push")) /\ Cardinality(Holding("push")) \in Nat
      /\ a \in Holding("push") /\ Holding("push")' = Holding("push") \ {a}
  BY <1>1, <1>3, <1>4, HoldingMoves
<1>9. Issued' /\ {b \in Adders : Taken(b)'} = {b \in Adders : Taken(b)}
  BY <1>1, <1>3, <1>4, KeepsIds
<1>10. Counted'
  <2> DEFINE H == Holding("push")
  <2>1. Cardinality(Holding("push")') = Cardinality(H) - 1
    BY <1>8, FS_RemoveElement
  <2>2. num_bindings = Len(net_devs) + Cardinality(H) /\ Cardinality(H) \in Nat
    BY <1>1, <1>8, Zenon DEF Counted
  <2> HIDE DEF H
  <2>3. num_bindings' = Len(net_devs') + Cardinality(Holding("push")')
    BY <1>2, <1>3, <1>6, <2>1, <2>2
  <2>4. num_bindings' = Cardinality({b \in Adders : Taken(b)'})
    BY <1>1, <1>3, <1>9, Zenon DEF Counted
  <2> QED
    BY <2>3, <2>4, Zenon DEF Counted
<1>11. Pushed(a)' /\ ~Pushed(a) /\ \A b \in Adders : b # a => (Pushed(b)' <=> Pushed(b))
  BY <1>3, <1>5 DEF Pushed
<1>12. \A i \in 1..Len(net_devs) : net_devs[i] \in Adders /\ net_devs[i] # a
  <2>1. \A i \in 1..Len(net_devs) : net_devs[i] \in Adders
    BY <1>2
  <2> QED
    BY <1>1, <1>11, <2>1, Zenon DEF Listed
<1>13. Listed'
  <2>1. \A i \in 1..Len(net_devs') : i \in 1..Len(net_devs) \/ i = Len(net_devs) + 1
    BY <1>2, <1>6
  <2>2. \A i \in 1..Len(net_devs) : i \in 1..Len(net_devs')
    BY <1>2, <1>6
  <2>3. Len(net_devs) + 1 \in 1..Len(net_devs')
    BY <1>2, <1>6
  <2>4. \A i, j \in 1..Len(net_devs') : net_devs'[i] = net_devs'[j] => i = j
    BY <1>1, <1>6, <1>12, <2>1, Zenon DEF Listed
  <2>5. ASSUME NEW b \in Adders
        PROVE  Pushed(b)' <=> \E i \in 1..Len(net_devs') : net_devs'[i] = b
    <3>1. CASE b = a
      BY <1>6, <1>11, <2>3, <3>1, Zenon
    <3>2. CASE b # a
      BY <1>1, <1>6, <1>11, <2>1, <2>2, <3>2, Zenon DEF Listed
    <3> QED
      BY <3>1, <3>2
  <2> QED
    BY <2>4, <2>5, Zenon DEF Listed
<1>14. Filed'
  <2> SUFFICES ASSUME NEW b \in Adders, b \notin overlapped'
               PROVE  /\ stage'[b] = "push" => Holding("push")' = {b} /\ bind_id'[b] = Len(net_devs')
                      /\ Pushed(b)' => /\ bind_id'[b] + 1 \in 1..Len(net_devs')
                                       /\ net_devs'[bind_id'[b] + 1] = b
    BY Zenon DEF Filed
  <2>1. b \notin overlapped /\ bind_id' = bind_id
    BY <1>3
  <2>2. stage'[b] # "push"
    <3>1. SUFFICES ASSUME stage'[b] = "push" PROVE FALSE
      OBVIOUS
    <3>2. b # a /\ stage[b] = "push"
      BY <1>5, <3>1
    <3>3. Holding("push") = {b}
      BY <1>1, <2>1, <3>2 DEF Filed
    <3> QED
      BY <1>8, <3>2, <3>3
  <2>3. ASSUME Pushed(b)'
        PROVE  bind_id'[b] + 1 \in 1..Len(net_devs') /\ net_devs'[bind_id'[b] + 1] = b
    <3>1. CASE b = a
      <4>1. bind_id[b] = Len(net_devs)
        BY <1>1, <1>3, <2>1, <3>1 DEF Filed
      <4> QED
        BY <1>2, <1>6, <2>1, <3>1, <4>1
    <3>2. CASE b # a
      <4>1. bind_id[b] + 1 \in 1..Len(net_devs) /\ net_devs[bind_id[b] + 1] = b
        BY <1>1, <1>11, <2>1, <2>3, <3>2 DEF Filed
      <4> QED
        BY <1>2, <1>6, <2>1, <4>1
    <3> QED
      BY <3>1, <3>2
  <2> QED
    BY <2>2, <2>3
<1>15. HandlesConserved'
  BY <1>1, <1>3, <1>4, MovesHandles
<1>16. Spawned'
  BY <1>1, <1>3, <1>4, MovesSpawned
<1> QED
  BY <1>7, <1>9, <1>10, <1>13, <1>14, <1>15, <1>16, Zenon DEF BindInv

\* After the push a registration changes neither the identifiers nor the list.
LEMMA LaterInv ==
  ASSUME BindType, Counted, Issued, Listed, Filed, NEW a \in Adders, NEW s, Moves(a, s),
         stage[a] \notin {"start", "push"}, s \notin {"start", "push"},
         UNCHANGED <<num_bindings, bind_id, net_devs, overlapped>>
  PROVE  Counted' /\ Issued' /\ Listed' /\ Filed'
<1>1. stage'[a] = s /\ \A b \in Adders : b # a => stage'[b] = stage[b]
  BY MovesProps, Zenon
<1>2. Issued' /\ {b \in Adders : Taken(b)'} = {b \in Adders : Taken(b)}
  BY KeepsIds
<1>3. Holding("push")' = Holding("push")
  BY HoldingMoves
<1>4. Counted'
  BY <1>2, <1>3, Zenon DEF Counted
<1>5. \A b \in Adders : (Pushed(b)' <=> Pushed(b)) /\ (stage'[b] = "push" <=> stage[b] = "push")
  BY <1>1 DEF Pushed
<1>6. Listed'
  BY <1>5, Zenon DEF Listed
<1>7. Filed'
  BY <1>3, <1>5, Zenon DEF Filed
<1> QED
  BY <1>2, <1>4, <1>6, <1>7

\* Line 185: the poll task is spawned, or bind refuses.
LEMMA BindStepInv ==
  ASSUME VInv, NEW a \in Adders, bind_device(a)
  PROVE  BindType' /\ RxType' /\ BindInv' /\ Spawned'
<1>1. BindType /\ RxType /\ Counted /\ Issued /\ Listed /\ Filed /\ Spawned /\ HandlesConserved
  BY Zenon DEF VInv
<1>2. /\ stage \in [Adders -> {"start", "push", "bind", "store", "done", "failed"}]
      /\ poll \in [Adders -> {"none", "recv", "send", "panicked"}]
      /\ rxq \in Seq(Adders)
  BY <1>1, Zenon DEF BindType, RxType
<1>3. /\ stage[a] = "bind"
      /\ \/ stage' = [stage EXCEPT ![a] = "failed"] /\ poll' = poll
         \/ stage' = [stage EXCEPT ![a] = "store"] /\ poll' = [poll EXCEPT ![a] = "recv"]
      /\ UNCHANGED <<panicked, num_bindings, net_devs, callback_handles, joined, bind_id, overlapped>>
      /\ UNCHANGED <<sock, received, rxq, handler, msg>>
  BY Zenon DEF bind_device
<1>4. BindType' /\ RxType'
  <2>1. stage' \in [Adders -> {"start", "push", "bind", "store", "done", "failed"}]
    BY <1>2, <1>3
  <2>2. poll' \in [Adders -> {"none", "recv", "send", "panicked"}]
    BY <1>2, <1>3
  <2> QED
    BY <1>1, <1>3, <2>1, <2>2, Zenon DEF BindType, RxType
<1>5. CASE stage' = [stage EXCEPT ![a] = "failed"] /\ poll' = poll
  <2>1. Moves(a, "failed")
    BY <1>3, <1>5, Zenon DEF Moves
  <2>2. Counted' /\ Issued' /\ Listed' /\ Filed'
    BY <1>1, <1>3, <2>1, LaterInv
  <2>3. HandlesConserved' /\ Spawned'
    BY <1>1, <1>3, <1>5, <2>1, MovesHandles, MovesSpawned
  <2> QED
    BY <1>4, <2>2, <2>3, Zenon DEF BindInv
<1>6. CASE stage' = [stage EXCEPT ![a] = "store"] /\ poll' = [poll EXCEPT ![a] = "recv"]
  <2>1. Moves(a, "store")
    BY <1>3, <1>6, Zenon DEF Moves
  <2>2. Counted' /\ Issued' /\ Listed' /\ Filed'
    BY <1>1, <1>3, <2>1, LaterInv
  <2>3. stage'[a] = "store" /\ \A b \in Adders : b # a => stage'[b] = stage[b]
    BY <1>1, <2>1, MovesProps, Zenon
  <2>4. poll'[a] = "recv" /\ \A b \in Adders : b # a => poll'[b] = poll[b]
    BY <1>2, <1>6
  <2>5. poll[a] = "none"
    BY <1>1, <1>3 DEF Spawned
  <2>6. Spawned'
    <3>1. \A b \in Adders : poll'[b] # "none" <=> stage'[b] \in {"store", "done"}
      BY <1>1, <2>3, <2>4 DEF Spawned
    <3>2. \A b \in Adders : poll[b] # "none" => poll'[b] # "none"
      BY <2>4
    <3>3. \A i \in 1..Len(rxq) : rxq[i] \in Adders
      BY <1>2
    <3> QED
      BY <1>1, <1>3, <3>1, <3>2, <3>3, Zenon DEF Spawned
  <2>7. ASSUME NEW h \in Handles
        PROVE  Conserved(h)'
    <3>1. Conserved(h)
      BY <1>1, ConservedHandles, Zenon
    <3>2. CASE h = a
      <4>1. h \notin Holding("store") /\ h \in Holding("store")'
        BY <1>3, <2>3, <3>2 DEF Holding
      <4>2. h \notin Live /\ h \in Live'
        BY <2>4, <2>5, <3>2, Tasks DEF Live
      <4> DEFINE n == NumberIn(callback_handles, {h})
                 m == joined[h]
      <4>3. n \in Nat /\ m \in Nat
        BY <1>1, HandleCounts, Zenon
      <4>4. /\ OneIn(h, Holding("store")) = 0 /\ OneIn(h, Live) = 0
            /\ OneIn(h, Holding("store")') = 1 /\ OneIn(h, Live') = 1
        BY <4>1, <4>2, OneInType, Zenon
      <4>5. n + m + 0 = 0
        BY <3>1, <4>4, Zenon DEF Conserved
      <4>6. NumberIn(callback_handles', {h}) = n /\ joined'[h] = m
        BY <1>3, Zenon
      <4> HIDE DEF n, m
      <4>7. n + m + 1 = 1
        BY <4>3, <4>5
      <4> QED
        BY <4>4, <4>6, <4>7, Zenon DEF Conserved
    <3>3. CASE h # a
      <4>1. h \in Holding("store")' <=> h \in Holding("store")
        BY <2>3, <3>3 DEF Holding
      <4>2. h \in Live' <=> h \in Live
        BY <2>4, <3>3 DEF Live
      <4> QED
        BY <1>3, <3>1, <4>1, <4>2, ConservedStays, Zenon
    <3> QED
      BY <3>2, <3>3
  <2>8. HandlesConserved'
    BY <2>7, ConservedHandles, Zenon
  <2> QED
    BY <1>4, <2>2, <2>6, <2>8, Zenon DEF BindInv
<1> QED
  BY <1>3, <1>5, <1>6, Zenon

\* Line 193: the handle is stored.
LEMMA StoreInv ==
  ASSUME VInv, NEW a \in Adders, store_handle(a)
  PROVE  BindType' /\ BindInv' /\ Spawned'
<1>1. BindType /\ Counted /\ Issued /\ Listed /\ Filed /\ Spawned /\ HandlesConserved
  BY Zenon DEF VInv
<1>2. /\ stage \in [Adders -> {"start", "push", "bind", "store", "done", "failed"}]
      /\ callback_handles \in Seq(Handles)
  BY <1>1, Zenon DEF BindType
<1>3. /\ stage[a] = "store" /\ stage' = [stage EXCEPT ![a] = "done"]
      /\ callback_handles' = Append(callback_handles, a)
      /\ UNCHANGED <<panicked, num_bindings, net_devs, joined, bind_id, overlapped>>
      /\ UNCHANGED <<poll, sock, received, rxq, handler, msg>>
  BY Zenon DEF store_handle, rxVars
<1>4. a \in Handles
  BY DEF Handles
<1>5. BindType'
  <2>1. stage' \in [Adders -> {"start", "push", "bind", "store", "done", "failed"}]
    BY <1>2, <1>3
  <2>2. callback_handles' \in Seq(Handles)
    BY <1>2, <1>3, <1>4, AppendProps
  <2> QED
    BY <1>1, <1>3, <2>1, <2>2, Zenon DEF BindType
<1>6. Moves(a, "done")
  BY <1>3, Zenon DEF Moves
<1>7. Counted' /\ Issued' /\ Listed' /\ Filed'
  BY <1>1, <1>3, <1>6, LaterInv
<1>8. Spawned'
  BY <1>1, <1>3, <1>6, MovesSpawned
<1>9. Holding("store")' = Holding("store") \ {a} /\ a \in Holding("store")
  BY <1>1, <1>3, <1>6, HoldingMoves
<1>10. Live' = Live
  BY <1>3, Zenon DEF Live
<1>11. ASSUME NEW h \in Handles
       PROVE  Conserved(h)'
  <2> DEFINE n == NumberIn(callback_handles, {h})
             n2 == NumberIn(callback_handles', {h})
             m == joined[h]
             e == OneIn(h, Holding("store"))
             e2 == OneIn(h, Holding("store")')
             o == OneIn(a, {h})
             l == OneIn(h, Live)
  <2>1. n + m + e = l
    BY <1>1, ConservedHandles, Zenon DEF Conserved
  <2>2. n2 = n + o
    BY <1>2, <1>3, <1>4, NumberInAppend, Zenon
  <2>3. n \in Nat /\ m \in Nat
    BY <1>1, HandleCounts, Zenon
  <2>4. (h = a => e = 1 /\ e2 = 0 /\ o = 1) /\ (h # a => e2 = e /\ o = 0)
    <3>1. CASE h = a
      <4>1. h \in Holding("store") /\ h \notin Holding("store")' /\ a \in {h}
        BY <1>9, <3>1
      <4> QED
        BY <3>1, <4>1, OneInType, Zenon
    <3>2. CASE h # a
      <4>1. (h \in Holding("store")' <=> h \in Holding("store")) /\ a \notin {h}
        BY <1>9, <3>2
      <4> QED
        BY <3>2, <4>1, OneInType, Zenon DEF OneIn
    <3> QED
      BY <3>1, <3>2
  <2>5. e \in Nat
    BY OneInType, Zenon
  <2>6. n2 + m + e2 = l
    <3> HIDE DEF n, n2, m, e, e2, o, l
    <3> QED
      BY <2>1, <2>2, <2>3, <2>4, <2>5
  <2> QED
    BY <1>3, <1>10, <2>6, Zenon DEF Conserved
<1>12. HandlesConserved'
  BY <1>11, ConservedHandles, Zenon
<1> QED
  BY <1>5, <1>7, <1>8, <1>12, Zenon DEF BindInv

\* join_handles drains the list.
LEMMA JoinInv ==
  ASSUME VInv, join_handles
  PROVE  BindType' /\ BindInv' /\ Spawned'
<1>1. BindType /\ Counted /\ Issued /\ Listed /\ Filed /\ Spawned /\ HandlesConserved
  BY Zenon DEF VInv
<1>2. /\ joined' = [h \in Handles |-> joined[h] + Count(h, callback_handles)]
      /\ callback_handles' = <<>>
      /\ UNCHANGED <<panicked, num_bindings, net_devs, stage, bind_id, overlapped>>
      /\ UNCHANGED <<poll, sock, received, rxq, handler, msg>>
  BY Zenon DEF join_handles, rxVars
<1>3. \A h \in Handles : joined'[h] = joined[h] + NumberIn(callback_handles, {h})
  BY <1>2, CountIsNumberIn
<1>4. joined' \in [Handles -> Nat]
  <2>1. \A h \in Handles : joined[h] + Count(h, callback_handles) \in Nat
    <3> SUFFICES ASSUME NEW h \in Handles PROVE joined[h] + Count(h, callback_handles) \in Nat
      OBVIOUS
    <3> DEFINE n == Count(h, callback_handles)
    <3>1. n \in Nat /\ joined[h] \in Nat
      BY <1>1, HandleCounts, CountIsNumberIn, Zenon
    <3>2. joined[h] + n \in Nat
      <4> HIDE DEF n
      <4> QED
        BY <3>1
    <3> QED
      BY <3>2, Zenon
  <2> QED
    BY <1>2, <2>1
<1>5. BindType'
  <2>1. callback_handles' \in Seq(Handles)
    BY <1>2
  <2> QED
    BY <1>1, <1>2, <1>4, <2>1, Zenon DEF BindType
<1>6. Counted' /\ Issued' /\ Listed' /\ Filed' /\ Spawned'
  <2>1. Counted'
    BY <1>1, <1>2, Zenon DEF Counted, Taken, Holding
  <2>2. Issued'
    BY <1>1, <1>2, Zenon DEF Issued, Taken
  <2>3. Listed'
    BY <1>1, <1>2, Zenon DEF Listed, Pushed
  <2>4. Filed'
    BY <1>1, <1>2, Zenon DEF Filed, Pushed, Holding
  <2>5. Spawned'
    BY <1>1, <1>2, Zenon DEF Spawned
  <2> QED
    BY <2>1, <2>2, <2>3, <2>4, <2>5
<1>7. ASSUME NEW h \in Handles
      PROVE  Conserved(h)'
  <2> DEFINE n == NumberIn(callback_handles, {h})
             m == joined[h]
             e == OneIn(h, Holding("store"))
             l == OneIn(h, Live)
  <2>1. n + m + e = l
    BY <1>1, ConservedHandles, Zenon DEF Conserved
  <2>2. n \in Nat /\ m \in Nat /\ e \in Nat
    BY <1>1, HandleCounts, OneInType, Zenon
  <2>3. NumberIn(callback_handles', {h}) = 0 /\ joined'[h] = m + n
    BY <1>2, <1>3, NumberInEmpty, Zenon
  <2>4. OneIn(h, Holding("store")') = e /\ OneIn(h, Live') = l
    BY <1>2, Zenon DEF Holding, Live
  <2>5. 0 + (m + n) + e = l
    <3> HIDE DEF n, m, e, l
    <3> QED
      BY <2>1, <2>2
  <2> QED
    BY <2>3, <2>4, <2>5, Zenon DEF Conserved
<1>8. HandlesConserved'
  BY <1>7, ConservedHandles, Zenon
<1> QED
  BY <1>5, <1>6, <1>8, Zenon DEF BindInv

-----------------------------------------------------------------------------
(* The theorems.                                                           *)

\* Initially nothing is registered, and the handler's handle is in the list.
LEMMA InitInv == Init => VInv
<1> SUFFICES ASSUME Init PROVE VInv
  OBVIOUS
<1>1. BindType /\ RxType
  BY Tasks DEF Init, BindType, RxType, Handles
<1>2. /\ num_bindings = 0 /\ net_devs = <<>> /\ callback_handles = <<Handler>>
      /\ rxq = <<>> /\ handler = "recv"
      /\ \A a \in Adders : stage[a] = "start" /\ bind_id[a] = -1 /\ poll[a] = "none"
      /\ \A h \in Handles : joined[h] = 0
  BY DEF Init
<1>3. {a \in Adders : Taken(a)} = {} /\ Holding("push") = {} /\ Holding("store") = {}
  BY <1>2 DEF Taken, Holding
<1>4. Counted
  BY <1>2, <1>3, FS_EmptySet DEF Counted
<1>5. Issued /\ Listed /\ Filed /\ Spawned
  BY <1>2 DEF Issued, Listed, Filed, Spawned, Taken, Pushed
<1>6. ASSUME NEW h \in Handles
      PROVE  Conserved(h)
  <2>1. callback_handles = Append(<<>>, Handler) /\ <<>> \in Seq(Handles) /\ Handler \in Handles
    BY <1>2 DEF Handles
  <2>2. NumberIn(callback_handles, {h}) = NumberIn(<<>>, {h}) + OneIn(Handler, {h})
    BY <2>1, NumberInAppend
  <2>3. NumberIn(<<>>, {h}) = 0
    BY NumberInEmpty, Zenon
  <2>4. Live = {Handler}
    BY <1>2 DEF Live
  <2>5. OneIn(Handler, {h}) = OneIn(h, Live) /\ OneIn(h, Live) \in {0, 1}
    BY <2>4 DEF OneIn
  <2>6. joined[h] = 0 /\ OneIn(h, Holding("store")) = 0
    BY <1>2, <1>3 DEF OneIn
  <2> DEFINE n == NumberIn(callback_handles, {h})
             l == OneIn(h, Live)
  <2>7. n = l /\ l \in {0, 1}
    BY <2>2, <2>3, <2>5
  <2>8. n + 0 + 0 = l
    <3> HIDE DEF n, l
    <3> QED
      BY <2>7
  <2> QED
    BY <2>6, <2>8, Zenon DEF Conserved
<1>7. HandlesConserved
  BY <1>6, ConservedHandles, Zenon
<1> QED
  BY <1>1, <1>4, <1>5, <1>7, Zenon DEF VInv

\* Every step keeps the invariant.
LEMMA StepInv ==
  ASSUME VInv, [Next]_vars
  PROVE  VInv'
<1>1. BindType /\ RxType /\ BindInv /\ Spawned
  BY Zenon DEF VInv, BindInv
<1>2. SUFFICES BindType' /\ RxType' /\ BindInv' /\ Spawned'
  BY Zenon DEF VInv, BindInv
<1>3. ASSUME UNCHANGED <<bindVars, overlapped>>, UNCHANGED rxVars, panicked' \subseteq Callers
      PROVE  BindType' /\ RxType' /\ BindInv' /\ Spawned'
  <2>1. Serves
    BY <1>3, Zenon DEF Serves, rxVars
  <2>2. BindInv'
    BY <1>1, <2>1, ServesInv, Zenon
  <2>3. BindType' /\ RxType' /\ Spawned'
    BY <1>1, <1>3, Zenon DEF BindType, RxType, Spawned, bindVars, rxVars
  <2> QED
    BY <2>2, <2>3
<1>4. CASE UNCHANGED vars
  <2>1. panicked' = panicked /\ panicked \subseteq Callers
    BY <1>1, <1>4, Zenon DEF vars, BindType
  <2> QED
    BY <1>3, <1>4, <2>1, Zenon DEF vars
<1>5. ASSUME NEW c \in Callers, NEW extended, NEW network, sendto(c, extended, network, 9)
      PROVE  BindType' /\ RxType' /\ BindInv' /\ Spawned'
  <2>1. /\ panicked' = panicked \/ panicked' = panicked \cup {c}
        /\ UNCHANGED <<bindVars, overlapped>> /\ UNCHANGED rxVars
    BY <1>5, Zenon DEF sendto
  <2>2. panicked' \subseteq Callers
    BY <1>1, <2>1 DEF BindType
  <2> QED
    BY <1>3, <2>1, <2>2
<1>6. CASE \/ \E a \in Adders : poll_socket(a) \/ poll_panic(a)
           \/ \E d \in Devices : datagram(d)
           \/ callback_handler
  <2>1. UNCHANGED <<panicked, bindVars, overlapped>> /\ Serves /\ RxType'
    BY <1>1, <1>6, RxSteps, Zenon
  <2>2. BindType'
    BY <1>1, <2>1, Zenon DEF BindType, bindVars
  <2>3. BindInv'
    BY <1>1, <2>1, ServesInv, Zenon
  <2>4. Spawned'
    BY <1>6, <2>1, RxSpawned, Zenon
  <2> QED
    BY <2>1, <2>2, <2>3, <2>4
<1>7. ASSUME NEW a \in Adders, add_physical_binding(a)
      PROVE  BindType' /\ RxType' /\ BindInv' /\ Spawned'
  <2>1. CASE bind_device(a)
    BY <2>1, BindStepInv, Zenon
  <2>2. CASE take_id(a) \/ push_device(a) \/ store_handle(a)
    <3>1. UNCHANGED rxVars
      BY <2>2, Zenon DEF take_id, push_device, store_handle
    <3>2. RxType'
      BY <1>1, <3>1, Zenon DEF RxType, rxVars
    <3> QED
      BY <2>2, <3>2, TakeIdInv, PushInv, StoreInv, Zenon
  <2> QED
    BY <1>7, <2>1, <2>2, Zenon DEF add_physical_binding
<1>8. CASE join_handles
  <2>1. UNCHANGED rxVars
    BY <1>8, Zenon DEF join_handles
  <2>2. RxType'
    BY <1>1, <2>1, Zenon DEF RxType, rxVars
  <2> QED
    BY <1>8, <2>2, JoinInv, Zenon
<1> QED
  BY <1>4, <1>5, <1>6, <1>7, <1>8, Zenon DEF Next

\* The invariant holds in every reachable state.
LEMMA InvAlways == Spec => []VInv
<1>1. VInv /\ [Next]_vars => VInv'
  BY StepInv
<1> QED
  BY <1>1, InitInv, PTL DEF Spec

\* The types hold, with the bounds on the identifiers and on the callback
\* channel (virtual_network.rs:66-73, 180): an identifier is below the number
\* of add_physical_binding calls, and the channel never exceeds its capacity.
THEOREM VirtualTypes == Spec => []VirtualTypeOK
<1>1. VInv => VirtualTypeOK
  <2> SUFFICES ASSUME VInv PROVE VirtualTypeOK
    OBVIOUS
  <2> DEFINE T == {a \in Adders : Taken(a)}
  <2>1. BindType /\ RxType /\ Issued
    BY Zenon DEF VInv
  <2>2. num_bindings = Cardinality(T) /\ num_bindings \in Nat
    BY Zenon DEF VInv, Counted, BindType
  <2>3. Cardinality(T) <= Cardinality(Adders) /\ Cardinality(Adders) \in Nat
    <3>1. T \in SUBSET Adders
      OBVIOUS
    <3> HIDE DEF T
    <3> QED
      BY <3>1, Tasks, FS_Subset, FS_CardinalityType
  <2> HIDE DEF T
  <2>4. num_bindings \in 0..Cardinality(Adders)
    BY <2>2, <2>3
  <2>5. bind_id \in [Adders -> Int]
    BY <2>1, Zenon DEF BindType
  <2>6. \A a \in Adders : bind_id[a] \in -1..(Cardinality(Adders) - 1)
    <3> SUFFICES ASSUME NEW a \in Adders PROVE bind_id[a] \in -1..(Cardinality(Adders) - 1)
      OBVIOUS
    <3>1. bind_id[a] \in 0..(num_bindings - 1) \/ bind_id[a] = -1
      BY <2>1, Zenon DEF Issued
    <3> QED
      BY <2>3, <2>4, <3>1
  <2>7. bind_id \in [Adders -> -1..(Cardinality(Adders) - 1)]
    BY <2>5, <2>6
  <2>8. sock \in [Devices -> 0..MaxDatagrams]
    <3>1. /\ sock \in [Devices -> Nat] /\ received \in 0..MaxDatagrams
          /\ \A d \in Devices : sock[d] <= received
      BY <2>1, Zenon DEF RxType
    <3> QED
      BY <3>1, Tasks
  <2> QED
    BY <2>1, <2>4, <2>7, <2>8, Zenon DEF BindType, RxType, VirtualTypeOK
<1> QED
  BY <1>1, InvAlways, PTL

\* Identifiers are unique and issued before anything carries them
\* (virtual_network.rs:180, 105), for any number of registrations: the count
\* is ahead of the device list by exactly the tasks between lines 180 and 182,
\* and the subtraction of line 105 never underflows.
THEOREM IdentifiersIssued == Spec => []IdsIssued
<1>1. VInv => IdsIssued
  BY Zenon DEF VInv, Issued, Counted, Spawned, Taken, IdsIssued
<1> QED
  BY <1>1, InvAlways, PTL

\* An identifier finds the device registered with it (virtual_network.rs:108)
\* unless lines 180-182 of that registration overlapped another one's, however
\* many registrations there are; then it finds one of those that overlapped,
\* and None only while one of them has still to push its device.
THEOREM MisfiledOnlyByOverlap == Spec => []MisfiledNeedsOverlap
<1>1. VInv => MisfiledNeedsOverlap
  <2> SUFFICES ASSUME VInv,
                      NEW a \in Adders \ (Holding("start") \cup Holding("push"))
               PROVE  /\ a \notin overlapped => lookup(bind_id[a]) = a
                      /\ a \in overlapped /\ lookup(bind_id[a]) # NoMsg
                           => lookup(bind_id[a]) \in overlapped
                      /\ lookup(bind_id[a]) = NoMsg => Holding("push") # {}
    BY Zenon DEF MisfiledNeedsOverlap
  <2> DEFINE n == bind_id[a] + 1
  <2>1. BindType /\ Issued /\ Counted /\ Listed /\ Filed
    BY Zenon DEF VInv
  <2>2. a \in Adders /\ Pushed(a) /\ Taken(a)
    BY DEF Pushed, Taken, Holding
  <2>3. /\ bind_id[a] \in 0..(num_bindings - 1) /\ num_bindings \in Nat
        /\ \A b \in Adders \ {a} : bind_id[b] # bind_id[a]
    BY <2>1, <2>2, Zenon DEF Issued, BindType
  <2>4. /\ n \in 1..Len(net_devs) => lookup(bind_id[a]) = net_devs[n]
        /\ n \notin 1..Len(net_devs) => lookup(bind_id[a]) = NoMsg
    BY DEF lookup
  <2>5. net_devs \in Seq(Adders) /\ bind_id \in [Adders -> Int]
    BY <2>1, Zenon DEF BindType
  <2>6. n \in 1..Len(net_devs) => net_devs[n] \in Adders /\ net_devs[n] # NoMsg
    BY <2>5, Tasks
  <2>7. ASSUME a \notin overlapped PROVE lookup(bind_id[a]) = a
    BY <2>1, <2>2, <2>4, <2>7 DEF Filed
  <2>8. ASSUME a \in overlapped, lookup(bind_id[a]) # NoMsg
        PROVE  lookup(bind_id[a]) \in overlapped
    <3>1. n \in 1..Len(net_devs) /\ lookup(bind_id[a]) = net_devs[n]
      BY <2>4, <2>8
    <3>2. PICK b \in Adders : b = net_devs[n]
      BY <2>6, <3>1
    <3>3. SUFFICES ASSUME b \notin overlapped PROVE FALSE
      BY <3>1, <3>2
    <3>4. Pushed(b)
      BY <2>1, <3>1, <3>2, Zenon DEF Listed
    <3>5. bind_id[b] + 1 \in 1..Len(net_devs) /\ net_devs[bind_id[b] + 1] = b
      BY <2>1, <3>3, <3>4 DEF Filed
    <3>6. bind_id[b] + 1 = n
      BY <2>1, <3>1, <3>2, <3>5, Zenon DEF Listed
    <3>7. bind_id[b] = bind_id[a]
      BY <2>2, <2>5, <3>6
    <3> QED
      BY <2>2, <2>3, <2>8, <3>3, <3>7
  <2>9. ASSUME lookup(bind_id[a]) = NoMsg, Holding("push") = {}
        PROVE  FALSE
    <3>1. Cardinality(Holding("push")) = 0
      BY <2>9, FS_EmptySet, Zenon
    <3>2. num_bindings = Len(net_devs)
      BY <2>1, <2>5, <3>1 DEF Counted
    <3>3. n \in 1..Len(net_devs)
      BY <2>3, <3>2
    <3> QED
      BY <2>4, <2>6, <2>9, <3>3
  <2> QED
    BY <2>7, <2>8, <2>9, Zenon
<1> QED
  BY <1>1, InvAlways, PTL

\* Every task ever spawned has its handle in exactly one place
\* (virtual_network.rs:78, 193, 201), for any number of registrations and of
\* join_handles calls between them.
THEOREM HandlesInOnePlace == Spec => []HandlesConserved
<1>1. VInv => HandlesConserved
  BY Zenon DEF VInv
<1> QED
  BY <1>1, InvAlways, PTL
=============================================================================
