------------------------- MODULE SimpleNetworkProofs -------------------------
(***************************************************************************)
(* Proofs about SimpleNetwork, for every number of callers, pollers and    *)
(* requests, every capacity, every set of faults and every tag width.      *)
(***************************************************************************)
EXTENDS SimpleNetwork, FlowMatchProofs

\* A sendto past its early returns and not over.
Active(c) == pc[c] \in {"track", "lock", "queued", "await"}

\* What the types rest on: an active call has a request of its own.
Numbered ==
  \A c \in Callers : Active(c) => cur[c] \in 1..Len(reqs)

-----------------------------------------------------------------------------
(* The constants.                                                          *)

\* Requests are numbered from 1.
LEMMA Ids == MaxReq \in Nat /\ ReqIds = 1..MaxReq
  BY SimpleNetworkAssumption, Zenon

\* The tasks and the free mutex are told apart.
LEMMA TasksDisjoint ==
  /\ \A c \in Callers : c \notin Pollers /\ c # Free /\ c \in Tasks
  /\ \A p \in Pollers : p \notin Callers /\ p # Free /\ p \in Tasks
  BY SimpleNetworkAssumption, Zenon DEF Tasks

\* A frame nobody sent has the type of a frame.
LEMMA NoFrameType == NoFrame \in Frame
  BY DefaultTagType DEF NoFrame, Frame, Lengths

\* What a caller binds fits the header.
LEMMA ClientType ==
  ASSUME NEW b \in Client
  PROVE  b.address \in Eid /\ b.tag \in Nat
<1>1. \A c \in Callers : BindArgs[c] \subseteq [address : 0..255, tag : 0..255]
  BY SocketTableAssumption, Zenon
<1>2. PICK c \in Callers : b \in BindArgs[c]
  BY Zenon DEF Client
<1>3. b \in [address : 0..255, tag : 0..255]
  BY <1>1, <1>2
<1> QED
  BY <1>3 DEF Eid

\* The address a binding keeps is a byte.
LEMMA AddressType == \A a \in NewAddrs : set_address(a) \in Eid
<1>1. NewAddrs \subseteq Eid
  BY SmbusNetDevAssumption, Zenon
<1> QED
  BY <1>1 DEF set_address, Eid

-----------------------------------------------------------------------------
(* Parts of the type invariant, by what changes together.                  *)

LockType == lock \in Tasks \cup {Free} /\ waiters \in Seq(Tasks)

CallType ==
  /\ pc \in [Callers -> {"idle", "track", "lock", "queued", "await", "panicked"}]
  /\ cur \in [Callers -> ReqIds \cup {0}]
  /\ reqs \in Seq(MsgFlowTag) /\ Len(reqs) <= MaxReq
  /\ chan \in [ReqIds -> {"unused", "open", "sent", "taken", "dropped"}]

FlowType == flows \in Seq(MctpFlow) /\ got \in [ReqIds -> Frame]

RxType ==
  /\ poll \in [Pollers -> {"unbound", "recv", "send", "panicked"}]
  /\ pollBuf \in [Pollers -> Frame]
  /\ sock \in Seq(Frame) /\ Len(sock) <= SockCap
  /\ rxq \in Seq(Frame) /\ Len(rxq) <= RxCap

LinkType == address \in Eid /\ wire \in [ReqIds -> Nat]

FlagType ==
  /\ poisoned \in BOOLEAN
  /\ rxOpen \in BOOLEAN
  /\ handler \in {"running", "panicked"}

\* TypeOK is the conjunction of the parts.
LEMMA TypeParts ==
  TypeOK <=> /\ LockType /\ CallType /\ FlowType /\ RxType /\ LinkType /\ FlagType
             /\ TableTypeOK
  BY Zenon DEF TypeOK, LockType, CallType, FlowType, RxType, LinkType, FlagType

\* The same in the next state.
LEMMA TypePartsPrime ==
  TypeOK' <=> /\ LockType' /\ CallType' /\ FlowType' /\ RxType' /\ LinkType' /\ FlagType'
              /\ TableTypeOK'
  BY Zenon DEF TypeOK, LockType, CallType, FlowType, RxType, LinkType, FlagType

\* An active call's request exists.
LEMMA CurType ==
  ASSUME TypeOK, Numbered, NEW c \in Callers, Active(c)
  PROVE  cur[c] \in ReqIds /\ cur[c] <= Len(reqs) /\ reqs[cur[c]] \in MsgFlowTag
<1>1. reqs \in Seq(MsgFlowTag) /\ Len(reqs) <= MaxReq /\ Len(reqs) \in Nat
  BY TypeParts DEF CallType
<1>2. cur[c] \in 1..Len(reqs)
  BY DEF Numbered
<1> QED
  BY <1>1, <1>2, Ids

-----------------------------------------------------------------------------
(* What the pieces of the actions do.                                      *)

\* release passes the mutex to a task that waited for it, or frees it.
LEMMA ReleaseType ==
  ASSUME NEW q \in Seq(Tasks), release(q)
  PROVE  LockType'
<1>1. CASE q = <<>>
  BY <1>1 DEF release, LockType
<1>2. CASE q # <<>>
  <2>1. Head(q) \in Tasks /\ Tail(q) \in Seq(Tasks)
    BY <1>2, TailProps
  <2> QED
    BY <1>2, <2>1 DEF release, LockType
<1> QED
  BY <1>1, <1>2

\* The two ways a transmit by the owner of the mutex ends: its answer is
\* awaited, or its task is gone and the mutex passed on.
LEMMA TransmitCases ==
  ASSUME NEW c, NEW q, transmit_as_owner(c, q)
  PROVE  /\ UNCHANGED <<address, poll, pollBuf, sock, rxq, rxOpen>>
         /\ \/ wire' = wire
            \/ \E first, second \in {0, 1} : wire' = [wire EXCEPT ![cur[c]] = @ + first + second]
         /\ \/ /\ lock' = c /\ waiters' = q
               /\ pc' = [pc EXCEPT ![c] = "await"]
               /\ UNCHANGED <<cur, chan>>
            \/ /\ release(q)
               /\ finish(c, "panicked")
               /\ chan' = [chan EXCEPT ![cur[c]] = "dropped"]
<1>1. PICK phy_addr \in PhyAddrs, oversize \in Oversize, result \in TransmitResults :
        /\ transmit(cur[c], phy_addr, oversize, result)
        /\ IF result = "Ok"
           THEN /\ lock' = c /\ waiters' = q
                /\ pc' = [pc EXCEPT ![c] = "await"]
                /\ UNCHANGED <<cur, chan>>
           ELSE /\ release(q)
                /\ finish(c, "panicked")
                /\ chan' = [chan EXCEPT ![cur[c]] = "dropped"]
  BY Zenon DEF transmit_as_owner
<1>2. /\ UNCHANGED <<address, poll, pollBuf, sock, rxq, rxOpen>>
      /\ \/ wire' = wire
         \/ \E first, second \in {0, 1} : wire' = [wire EXCEPT ![cur[c]] = @ + first + second]
  BY <1>1, Zenon DEF transmit
<1> QED
  BY <1>1, <1>2, Zenon

-----------------------------------------------------------------------------
(* Type correctness.                                                       *)

\* What every step starts from.
Typed == TypeOK /\ Numbered

\* Variables that do not change keep their type.
LEMMA TypeStutter ==
  ASSUME TypeOK
  PROVE  /\ UNCHANGED <<lock, waiters>> => LockType'
         /\ UNCHANGED <<pc, cur, reqs, chan>> => CallType'
         /\ UNCHANGED <<flows, got>> => FlowType'
         /\ UNCHANGED <<poll, pollBuf, sock, rxq>> => RxType'
         /\ UNCHANGED <<address, wire>> => LinkType'
         /\ UNCHANGED <<poisoned, rxOpen, handler>> => FlagType'
         /\ UNCHANGED tableVars => TableTypeOK'
<1>1. LockType /\ CallType /\ FlowType /\ RxType /\ LinkType /\ FlagType /\ TableTypeOK
  BY TypeParts, Zenon
<1>2. UNCHANGED <<lock, waiters>> => LockType'
  BY <1>1, Zenon DEF LockType
<1>3. UNCHANGED <<pc, cur, reqs, chan>> => CallType'
  BY <1>1, Zenon DEF CallType
<1>4. UNCHANGED <<flows, got>> => FlowType'
  BY <1>1, Zenon DEF FlowType
<1>5. UNCHANGED <<poll, pollBuf, sock, rxq>> => RxType'
  BY <1>1, Zenon DEF RxType
<1>6. UNCHANGED <<address, wire>> => LinkType'
  BY <1>1, Zenon DEF LinkType
<1>7. UNCHANGED <<poisoned, rxOpen, handler>> => FlagType'
  BY <1>1, Zenon DEF FlagType
<1>8. UNCHANGED tableVars => TableTypeOK'
  BY <1>1, Zenon DEF TableTypeOK, tableVars
<1> QED
  BY <1>2, <1>3, <1>4, <1>5, <1>6, <1>7, <1>8, Zenon

\* The initial state is well-typed.
LEMMA InitTyped == Init => Typed
<1> SUFFICES ASSUME Init PROVE Typed
  OBVIOUS
<1>1. LockType
  BY Zenon, EmptySeq DEF Init, LockType
<1>2. CallType
  BY Ids DEF Init, CallType
<1>3. FlowType
  BY NoFrameType DEF Init, FlowType
<1>4. RxType
  BY NoFrameType, SmbusNetDevAssumption DEF Init, DevInit, RxType
<1>5. LinkType
  BY AddressType DEF Init, DevInit, LinkType
<1>6. FlagType
  BY Zenon DEF Init, DevInit, FlagType
<1>7. TableTypeOK
  BY SocketTableAssumption DEF Init, TableInit, TableTypeOK, Results
<1>8. Numbered
  BY DEF Init, Numbered, Active
<1> QED
  BY <1>1, <1>2, <1>3, <1>4, <1>5, <1>6, <1>7, <1>8, TypeParts, Zenon DEF Typed

\* socket and bind keep the table well-typed and touch nothing else.
LEMMA TableStepType ==
  ASSUME Typed, NEW c \in Callers, socket_call(c) \/ bind_call(c)
  PROVE  Typed'
<1>1. TableTypeOK /\ TypeOK /\ Numbered
  BY TypeParts, Zenon DEF Typed
<1>2. UNCHANGED <<devVars, netVars>>
  BY Zenon DEF socket_call, bind_call
<1>3. TableTypeOK'
  <2>1. CASE socket(c)
    <3>1. num_clients \in Descriptors /\ num_clients + 1 \in 0..MaxSockets
      BY <1>1, <2>1, SocketTableAssumption DEF socket, TableTypeOK, Descriptors
    <3>2. NoSd \notin Descriptors
      BY DEF NoSd, Descriptors
    <3> QED
      BY <1>1, <2>1, <3>1, <3>2 DEF socket, TableTypeOK, Results
  <2>2. CASE \E s \in Descriptors, client \in BindArgs[c] : bind_check(c, s, client)
    <3>1. PICK s \in Descriptors, client \in BindArgs[c] : bind_check(c, s, client)
      BY <2>2
    <3>2. client \in Client /\ s # NoSd
      BY DEF Client, NoSd, Descriptors
    <3>3. /\ sd' = [sd EXCEPT ![c] = s]
          /\ inserting' = inserting \/ inserting' = [inserting EXCEPT ![c] = client]
          /\ ret' = ret \/ ret' = [ret EXCEPT ![c] = "InvalidSocketError"]
          /\ UNCHANGED <<num_clients, clients>>
      BY <3>1, Zenon DEF bind_check
    <3> QED
      BY <1>1, <3>2, <3>3 DEF TableTypeOK, Results
  <2>3. CASE bind_insert(c)
    <3>1. sd[c] \in Descriptors
      BY <1>1, <2>3 DEF bind_insert, OutsideBind, TableTypeOK
    <3> QED
      BY <1>1, <2>3, <3>1 DEF bind_insert, TableTypeOK, Results
  <2> QED
    BY <2>1, <2>2, <2>3, Zenon DEF socket_call, bind_call, bind
<1>4. LockType' /\ CallType' /\ FlowType' /\ RxType' /\ LinkType' /\ FlagType'
  BY <1>1, <1>2, TypeStutter, Zenon DEF devVars, netVars
<1>5. Numbered'
  BY <1>1, <1>2, Zenon DEF Numbered, Active, netVars
<1> QED
  BY <1>3, <1>4, <1>5, TypePartsPrime, Zenon DEF Typed

\* The end of a call: its place and its request.
LEMMA FinishType ==
  ASSUME Typed, NEW c \in Callers, NEW where \in {"idle", "panicked"}, finish(c, where)
  PROVE  /\ pc' \in [Callers -> {"idle", "track", "lock", "queued", "await", "panicked"}]
         /\ cur' \in [Callers -> ReqIds \cup {0}]
         /\ UNCHANGED reqs => Numbered'
<1>1. TypeOK /\ Numbered /\ CallType
  BY TypeParts, Zenon DEF Typed
<1>2. /\ pc' = [pc EXCEPT ![c] = where]
      /\ cur' = [cur EXCEPT ![c] = 0]
  BY Zenon DEF finish
<1>3. /\ pc' \in [Callers -> {"idle", "track", "lock", "queued", "await", "panicked"}]
      /\ cur' \in [Callers -> ReqIds \cup {0}]
  BY <1>1, <1>2 DEF CallType
<1>5. UNCHANGED reqs => Numbered'
  BY <1>1, <1>2 DEF Numbered, Active, CallType
<1> QED
  BY <1>3, <1>5

\* A refused sendto.
LEMMA RefuseType ==
  ASSUME Typed, NEW c \in Callers, NEW s \in Descriptors, NEW addr \in Addrs,
         sendto_refuse(c, s, addr)
  PROVE  Typed'
<1>1. TypeOK /\ CallType /\ Numbered
  BY TypeParts, Zenon DEF Typed
<1>2. /\ UNCHANGED devVars /\ UNCHANGED tableVars
      /\ UNCHANGED <<flows, got>> /\ UNCHANGED <<lock, waiters>>
      /\ UNCHANGED <<poisoned, handler>> /\ UNCHANGED <<reqs, chan>>
  BY Zenon DEF sendto_refuse
<1>3. finish(c, "panicked") \/ UNCHANGED <<pc, cur>>
  BY Zenon DEF sendto_refuse
<1>4. CallType' /\ Numbered'
  <2>1. CASE finish(c, "panicked")
    BY <1>1, <1>2, <2>1, FinishType DEF CallType
  <2>2. CASE UNCHANGED <<pc, cur>>
    BY <1>1, <1>2, <2>2, TypeStutter, Zenon DEF Numbered, Active
  <2> QED
    BY <1>3, <2>1, <2>2
<1>5. TableTypeOK' /\ LockType' /\ FlowType' /\ RxType' /\ LinkType' /\ FlagType'
  BY <1>1, <1>2, TypeStutter, Zenon DEF devVars
<1> QED
  BY <1>4, <1>5, TypePartsPrime, Zenon DEF Typed

\* A sendto that gets a header and a channel.
LEMMA BuildType ==
  ASSUME Typed, NEW c \in Callers, NEW s \in Descriptors, NEW addr \in Addrs,
         sendto_build(c, s, addr)
  PROVE  /\ Typed'
         /\ Len(reqs') = Len(reqs) + 1 /\ Len(reqs) + 1 \in ReqIds
         /\ \A r \in 1..Len(reqs) : reqs'[r] = reqs[r]
         /\ reqs'[Len(reqs) + 1].tag_owner = TRUE
         /\ reqs'[Len(reqs) + 1].dest_eid = addr.address
<1>1. TypeOK /\ CallType /\ TableTypeOK /\ Numbered
  BY TypeParts, Zenon DEF Typed
<1> DEFINE h == new_header(clients[s].address, addr.address, clients[s].tag, TRUE)
<1>2. /\ reqs' = Append(reqs, h)
      /\ cur' = [cur EXCEPT ![c] = Len(reqs) + 1]
      /\ chan' = [chan EXCEPT ![Len(reqs) + 1] = "open"]
      /\ pc' = [pc EXCEPT ![c] = "track"]
      /\ Len(reqs) < MaxReq
      /\ get_client(s)
  BY Zenon DEF sendto_build
<1>3. clients[s] \in Client
  BY <1>1, <1>2 DEF get_client, TableTypeOK
<1>4. addr.address \in Eid
  BY SimpleNetworkAssumption
<1>5. h \in MsgFlowTag
  BY <1>3, <1>4, ClientType, NewHeaderType, Zenon
<1>6. h.tag_owner = TRUE /\ h.dest_eid = addr.address
  BY Zenon DEF new_header
<1> HIDE DEF h
<1>7. /\ reqs' \in Seq(MsgFlowTag) /\ Len(reqs') = Len(reqs) + 1
      /\ \A r \in 1..Len(reqs) : reqs'[r] = reqs[r]
      /\ reqs'[Len(reqs) + 1] = h
      /\ Len(reqs) \in Nat /\ Len(reqs) + 1 \in ReqIds
  BY <1>1, <1>2, <1>5, Ids, AppendProps DEF CallType
<1>8. CallType'
  BY <1>1, <1>2, <1>7, Ids DEF CallType
<1>9. Numbered'
  BY <1>1, <1>2, <1>7 DEF Numbered, Active, CallType
<1>10. /\ UNCHANGED devVars /\ UNCHANGED tableVars
       /\ UNCHANGED <<flows, got>> /\ UNCHANGED <<lock, waiters>>
       /\ UNCHANGED <<poisoned, handler>>
  BY Zenon DEF sendto_build
<1>11. TableTypeOK' /\ LockType' /\ FlowType' /\ RxType' /\ LinkType' /\ FlagType'
  BY <1>1, <1>10, TypeStutter, Zenon DEF devVars
<1> QED
  BY <1>6, <1>7, <1>8, <1>9, <1>11, TypePartsPrime, Zenon DEF Typed

\* A sendto that pushes its flow, or finds the mutex poisoned.
LEMMA TrackType ==
  ASSUME Typed, NEW c \in Callers, sendto_track(c)
  PROVE  Typed'
<1>1. TypeOK /\ CallType /\ FlowType /\ TableTypeOK /\ Numbered
  BY TypeParts, Zenon DEF Typed
<1>2. Active(c) /\ cur[c] \in ReqIds /\ reqs[cur[c]] \in MsgFlowTag
  BY <1>1, CurType DEF sendto_track, Active
<1>3. /\ UNCHANGED devVars /\ UNCHANGED tableVars
      /\ UNCHANGED got /\ UNCHANGED <<lock, waiters>>
      /\ UNCHANGED <<poisoned, handler>> /\ UNCHANGED reqs
  BY Zenon DEF sendto_track
<1>4. CASE /\ finish(c, "panicked")
           /\ chan' = [chan EXCEPT ![cur[c]] = "dropped"]
           /\ UNCHANGED flows
  <2>2. CallType' /\ Numbered'
    BY <1>1, <1>2, <1>3, <1>4, FinishType DEF CallType
  <2>3. FlowType'
    BY <1>1, <1>3, <1>4, TypeStutter, Zenon
  <2> QED
    BY <1>1, <1>3, <2>2, <2>3, TypeStutter, TypePartsPrime, Zenon DEF Typed, devVars
<1>5. CASE /\ flows' = Append(flows, [tag |-> reqs[cur[c]], id |-> cur[c]])
           /\ pc' = [pc EXCEPT ![c] = "lock"]
           /\ UNCHANGED <<cur, chan>>
  <2>1. [tag |-> reqs[cur[c]], id |-> cur[c]] \in MctpFlow
    BY <1>2 DEF MctpFlow
  <2>2. FlowType'
    BY <1>1, <1>3, <1>5, <2>1, AppendProps DEF FlowType
  <2>3. CallType' /\ Numbered'
    BY <1>1, <1>2, <1>3, <1>5 DEF CallType, Numbered, Active
  <2> QED
    BY <1>1, <1>3, <2>2, <2>3, TypeStutter, TypePartsPrime, Zenon DEF Typed, devVars
<1> QED
  BY <1>4, <1>5, Zenon DEF sendto_track

\* A transmit by the owner of the mutex, which takes the call to its await or
\* ends its task.
LEMMA TransmitType ==
  ASSUME Typed, NEW c \in Callers, Active(c), transmit_as_owner(c, waiters),
         UNCHANGED <<tableVars, flows, poisoned, reqs, got, handler>>
  PROVE  Typed'
<1>1. TypeOK /\ CallType /\ LockType /\ LinkType /\ TableTypeOK /\ Numbered
  BY TypeParts, Zenon DEF Typed
<1>2. cur[c] \in ReqIds
  BY <1>1, CurType, Zenon
<1>3. /\ UNCHANGED <<address, poll, pollBuf, sock, rxq, rxOpen>>
      /\ \/ wire' = wire
         \/ \E first, second \in {0, 1} : wire' = [wire EXCEPT ![cur[c]] = @ + first + second]
      /\ \/ /\ lock' = c /\ waiters' = waiters
            /\ pc' = [pc EXCEPT ![c] = "await"]
            /\ UNCHANGED <<cur, chan>>
         \/ /\ release(waiters)
            /\ finish(c, "panicked")
            /\ chan' = [chan EXCEPT ![cur[c]] = "dropped"]
  BY TransmitCases, Zenon
<1>4. LinkType'
  BY <1>1, <1>2, <1>3 DEF LinkType
<1>5. FlowType' /\ RxType' /\ FlagType' /\ TableTypeOK'
  BY <1>1, <1>3, TypeStutter, Zenon
<1>6. LockType' /\ CallType' /\ Numbered'
  <2>1. CASE /\ lock' = c /\ waiters' = waiters
             /\ pc' = [pc EXCEPT ![c] = "await"]
             /\ UNCHANGED <<cur, chan>>
    <3>1. LockType'
      BY <1>1, <2>1, TasksDisjoint DEF LockType
    <3>2. CallType' /\ Numbered'
      BY <1>1, <2>1 DEF CallType, Numbered, Active
    <3> QED
      BY <3>1, <3>2
  <2>2. CASE /\ release(waiters)
             /\ finish(c, "panicked")
             /\ chan' = [chan EXCEPT ![cur[c]] = "dropped"]
    <3>1. LockType'
      BY <1>1, <2>2, ReleaseType, Zenon DEF LockType
    <3>3. CallType' /\ Numbered'
      BY <1>1, <1>2, <2>2, FinishType DEF CallType
    <3> QED
      BY <3>1, <3>3
  <2> QED
    BY <1>3, <2>1, <2>2, Zenon
<1> QED
  BY <1>4, <1>5, <1>6, TypePartsPrime, Zenon DEF Typed

\* A sendto that asks for the mutex, and one that is passed it.
LEMMA LockStepType ==
  ASSUME Typed, NEW c \in Callers, sendto_lock(c) \/ sendto_transmit(c)
  PROVE  Typed'
<1>1. TypeOK /\ CallType /\ LockType /\ TableTypeOK /\ Numbered
  BY TypeParts, Zenon DEF Typed
<1>2. UNCHANGED <<tableVars, flows, poisoned, reqs, got, handler>>
  BY Zenon DEF sendto_lock, sendto_transmit
<1>3. Active(c)
  BY DEF sendto_lock, sendto_transmit, Active
<1>4. CASE transmit_as_owner(c, waiters)
  BY <1>2, <1>3, <1>4, TransmitType, Zenon
<1>5. CASE /\ waiters' = Append(waiters, c)
           /\ pc' = [pc EXCEPT ![c] = "queued"]
           /\ UNCHANGED <<devVars, lock, cur, chan>>
  <2>1. LockType'
    BY <1>1, <1>5, TasksDisjoint, AppendProps DEF LockType
  <2>2. CallType' /\ Numbered'
    BY <1>1, <1>2, <1>3, <1>5 DEF CallType, Numbered, Active
  <2> QED
    BY <1>1, <1>2, <1>5, <2>1, <2>2, TypeStutter, TypePartsPrime, Zenon
       DEF Typed, devVars
<1> QED
  BY <1>4, <1>5, Zenon DEF sendto_lock, sendto_transmit

\* A sendto that returns with its answer, or is dropped.
LEMMA ReturnType ==
  ASSUME Typed, NEW c \in Callers, sendto_return(c) \/ sendto_cancel(c)
  PROVE  Typed'
<1>1. TypeOK /\ CallType /\ LockType /\ TableTypeOK /\ Numbered
  BY TypeParts, Zenon DEF Typed
<1>2. UNCHANGED devVars /\ UNCHANGED <<tableVars, flows, poisoned, reqs, got, handler>>
  BY Zenon DEF sendto_return, sendto_cancel
<1>3. Active(c) /\ cur[c] \in ReqIds
  <2>1. Active(c)
    BY DEF sendto_return, sendto_cancel, Active
  <2> QED
    BY <1>1, <2>1, CurType, Zenon
<1>4. PICK st \in {"taken", "dropped"} :
        finish(c, "idle") /\ chan' = [chan EXCEPT ![cur[c]] = st]
  BY DEF sendto_return, sendto_cancel
<1>6. CallType' /\ Numbered'
  BY <1>1, <1>2, <1>3, <1>4, FinishType DEF CallType
<1>7. LockType'
  <2>1. CASE release(waiters)
    BY <1>1, <2>1, ReleaseType, Zenon DEF LockType
  <2>2. CASE /\ \E i \in 1..Len(waiters) : waiters' = RemoveAt(waiters, i)
             /\ UNCHANGED lock
    BY <1>1, <2>2, RemoveAtProps DEF LockType
  <2> QED
    BY <2>1, <2>2, Zenon DEF sendto_return, sendto_cancel
<1> QED
  BY <1>1, <1>2, <1>6, <1>7, TypeStutter, TypePartsPrime, Zenon DEF Typed, devVars

\* add_physical_binding, at once or queued.
LEMMA AttachType ==
  ASSUME Typed, NEW p \in Pollers, Attach(p)
  PROVE  Typed'
<1>1. TypeOK /\ LockType /\ RxType /\ Numbered
  BY TypeParts, Zenon DEF Typed
<1>2. /\ UNCHANGED tableVars /\ UNCHANGED <<flows, poisoned, pc, cur, reqs, chan, got, handler>>
      /\ UNCHANGED <<address, wire, rxOpen>>
  BY Zenon DEF Attach, add_physical_binding, add_physical_binding_queue, spawn_poll, devVars
<1>3. LockType'
  <2>1. CASE release(waiters)
    BY <1>1, <2>1, ReleaseType, Zenon DEF LockType
  <2>2. CASE UNCHANGED <<lock, waiters>>
    BY <1>1, <2>2, TypeStutter, Zenon
  <2>3. CASE waiters' = Append(waiters, p) /\ UNCHANGED lock
    BY <1>1, <2>3, TasksDisjoint, AppendProps DEF LockType
  <2> QED
    BY <2>1, <2>2, <2>3, Zenon DEF Attach, add_physical_binding, add_physical_binding_queue
<1>4. RxType'
  <2>1. CASE spawn_poll(p)
    BY <1>1, <2>1 DEF spawn_poll, RxType
  <2>2. CASE UNCHANGED devVars
    BY <1>1, <2>2, TypeStutter, Zenon DEF devVars
  <2> QED
    BY <2>1, <2>2, Zenon DEF Attach, add_physical_binding, add_physical_binding_queue
<1>5. Numbered'
  BY <1>1, <1>2, Zenon DEF Numbered, Active
<1> QED
  BY <1>1, <1>2, <1>3, <1>4, <1>5, TypeStutter, TypePartsPrime, Zenon DEF Typed

\* The two capacities.
LEMMA Capacities == RxCap \in Nat \ {0} /\ SockCap \in Nat \ {0}
  BY SmbusNetDevAssumption, Zenon

\* What a step of poll_socket does: take a datagram from the socket, put the
\* one it holds into the channel or drop it, or end.
LEMMA PollCases ==
  ASSUME Typed, NEW p \in Pollers, PollTask(p)
  PROVE  /\ UNCHANGED <<address, wire, rxOpen>>
         /\ UNCHANGED tableVars /\ UNCHANGED netVars
         /\ \/ /\ sock # <<>> /\ sock' = Tail(sock)
               /\ UNCHANGED rxq
               /\ \/ Head(sock).len = "empty" /\ UNCHANGED <<poll, pollBuf>>
                  \/ /\ Head(sock).len # "empty"
                     /\ poll[p] = "recv"
                     /\ poll' = [poll EXCEPT ![p] = "send"]
                     /\ pollBuf' = [pollBuf EXCEPT ![p] = Head(sock)]
            \/ /\ poll[p] = "send"
               /\ UNCHANGED sock
               /\ \/ Len(rxq) < RxCap /\ rxq' = Append(rxq, pollBuf[p])
                  \/ UNCHANGED rxq
               /\ poll' = [poll EXCEPT ![p] = "recv"]
               /\ pollBuf' = [pollBuf EXCEPT ![p] = NoFrame]
            \/ /\ poll[p] = "recv"
               /\ poll' = [poll EXCEPT ![p] = "panicked"]
               /\ UNCHANGED <<pollBuf, sock, rxq>>
<1>1. UNCHANGED tableVars /\ UNCHANGED netVars
  BY Zenon DEF PollTask
<1>2. CASE poll_socket_recv(p)
  BY <1>1, <1>2, Zenon DEF poll_socket_recv
<1>3. CASE poll_socket_send(p)
  BY <1>1, <1>3, Zenon DEF poll_socket_send
<1>4. CASE poll_socket_panic(p)
  BY <1>1, <1>4, Zenon DEF poll_socket_panic
<1> QED
  BY <1>2, <1>3, <1>4, Zenon DEF PollTask, poll_socket

\* poll_socket keeps the two queues within their capacity.
LEMMA PollType ==
  ASSUME Typed, NEW p \in Pollers, PollTask(p)
  PROVE  Typed'
<1>1. TypeOK /\ RxType /\ Numbered
  BY TypeParts, Zenon DEF Typed
<1> DEFINE Took == /\ sock # <<>> /\ sock' = Tail(sock)
                   /\ UNCHANGED rxq
                   /\ \/ UNCHANGED <<poll, pollBuf>>
                      \/ /\ poll' = [poll EXCEPT ![p] = "send"]
                         /\ pollBuf' = [pollBuf EXCEPT ![p] = Head(sock)]
           Sent == /\ UNCHANGED sock
                   /\ \/ Len(rxq) < RxCap /\ rxq' = Append(rxq, pollBuf[p])
                      \/ UNCHANGED rxq
                   /\ poll' = [poll EXCEPT ![p] = "recv"]
                   /\ pollBuf' = [pollBuf EXCEPT ![p] = NoFrame]
           Ended == /\ poll' = [poll EXCEPT ![p] = "panicked"]
                    /\ UNCHANGED <<pollBuf, sock, rxq>>
<1>2. /\ UNCHANGED <<address, wire, rxOpen>>
      /\ UNCHANGED tableVars /\ UNCHANGED netVars
      /\ Took \/ Sent \/ Ended
  BY PollCases, Zenon
<1>3. RxType'
  <2>1. CASE Took
    <3>1. Head(sock) \in Frame /\ Tail(sock) \in Seq(Frame) /\ Len(Tail(sock)) <= SockCap
      BY <1>1, <2>1, TailProps, Capacities DEF RxType
    <3> QED
      BY <1>1, <2>1, <3>1 DEF RxType
  <2>2. CASE Sent
    <3>1. pollBuf[p] \in Frame
      BY <1>1 DEF RxType
    <3>2. rxq' \in Seq(Frame) /\ Len(rxq') <= RxCap
      <4>1. rxq \in Seq(Frame) /\ Len(rxq) \in Nat /\ Len(rxq) <= RxCap
        BY <1>1 DEF RxType
      <4>2. CASE UNCHANGED rxq
        BY <4>1, <4>2, Zenon
      <4>3. CASE Len(rxq) < RxCap /\ rxq' = Append(rxq, pollBuf[p])
        BY <3>1, <4>1, <4>3, AppendProps, Capacities
      <4> QED
        BY <2>2, <4>2, <4>3, Zenon
    <3> QED
      BY <1>1, <2>2, <3>2, NoFrameType DEF RxType
  <2>3. CASE Ended
    BY <1>1, <2>3 DEF RxType
  <2> QED
    BY <1>2, <2>1, <2>2, <2>3, Zenon
<1>4. Numbered'
  BY <1>1, <1>2, Zenon DEF Numbered, Active, netVars
<1> QED
  BY <1>1, <1>2, <1>3, <1>4, TypeStutter, TypePartsPrime, Zenon DEF Typed, netVars

\* A datagram that arrives is queued or dropped.
LEMMA ArriveType ==
  ASSUME TypeOK, NEW f \in Frame, arrive(f)
  PROVE  /\ sock' \in Seq(Frame) /\ Len(sock') <= SockCap
         /\ sock' = sock \/ sock' = Append(sock, f)
<1>1. RxType
  BY TypeParts, Zenon
<1>2. sock' = sock \/ (Len(sock) < SockCap /\ sock' = Append(sock, f))
  BY Zenon DEF arrive
<1> QED
  BY <1>1, <1>2, AppendProps, Capacities DEF RxType

\* What a step of the peer does: one copy of a request answered, with its
\* answer in the socket or dropped; one copy lost; or a datagram of its own.
LEMMA PeerCases ==
  ASSUME Typed, Peer
  PROVE  /\ UNCHANGED <<address, poll, pollBuf, rxq, rxOpen>>
         /\ UNCHANGED tableVars /\ UNCHANGED netVars
         /\ \/ \E r \in ReqIds :
                 /\ r <= Len(reqs) /\ wire[r] > 0
                 /\ wire' = [wire EXCEPT ![r] = @ - 1]
                 /\ arrive([len |-> "full", tag |-> create_response(reqs[r]), ans |-> r])
            \/ \E r \in ReqIds :
                 /\ wire[r] > 0
                 /\ wire' = [wire EXCEPT ![r] = @ - 1]
                 /\ UNCHANGED sock
            \/ \E f \in Noise : arrive(f) /\ UNCHANGED wire
<1>1. CASE \E r \in ReqIds : peer_answers_call(r)
  BY <1>1, Zenon DEF peer_answers_call, peer_answers
<1>2. CASE /\ \E r \in ReqIds : peer_loses(r)
           /\ UNCHANGED <<tableVars, netVars>>
  BY <1>2, Zenon DEF peer_loses
<1>3. CASE /\ \E f \in Noise : peer_sends(f)
           /\ UNCHANGED <<tableVars, netVars>>
  BY <1>3, Zenon DEF peer_sends
<1> QED
  BY <1>1, <1>2, <1>3, Zenon DEF Peer

\* A peer's answer to a request that exists, and its own datagrams, are frames.
LEMMA PeerFrameType ==
  ASSUME Typed
  PROVE  /\ \A r \in ReqIds : r <= Len(reqs) =>
              [len |-> "full", tag |-> create_response(reqs[r]), ans |-> r] \in Frame
         /\ \A f \in Noise : f \in Frame /\ f.ans = 0
<1>1. CallType
  BY TypeParts, Zenon DEF Typed
<1>2. ASSUME NEW r \in ReqIds, r <= Len(reqs)
      PROVE  [len |-> "full", tag |-> create_response(reqs[r]), ans |-> r] \in Frame
  <2>1. reqs[r] \in MsgFlowTag
    BY <1>1, <1>2, Ids DEF CallType
  <2>2. create_response(reqs[r]) \in MsgFlowTag
    BY <2>1, ResponseProps, Zenon
  <2> QED
    BY <2>2 DEF Frame, Lengths
<1>3. ASSUME NEW f \in Noise
      PROVE  f \in Frame /\ f.ans = 0
  <2>1. Noise \subseteq [len : Lengths, tag : MsgFlowTag, ans : {0}]
    BY SimpleNetworkAssumption, Zenon
  <2>2. f \in [len : Lengths, tag : MsgFlowTag, ans : {0}]
    BY <2>1, Zenon
  <2> QED
    BY <2>2 DEF Frame
<1> QED
  BY <1>2, <1>3, Zenon

\* The peer keeps the socket buffer within its capacity.
LEMMA PeerType ==
  ASSUME Typed, Peer
  PROVE  Typed'
<1>1. TypeOK /\ RxType /\ LinkType /\ Numbered
  BY TypeParts, Zenon DEF Typed
<1>2. /\ UNCHANGED <<address, poll, pollBuf, rxq, rxOpen>>
      /\ UNCHANGED tableVars /\ UNCHANGED netVars
  BY PeerCases, Zenon
<1>3. sock' \in Seq(Frame) /\ Len(sock') <= SockCap
  <2>1. CASE \E f \in Frame : arrive(f)
    BY <1>1, <2>1, ArriveType, Zenon
  <2>2. CASE UNCHANGED sock
    BY <1>1, <2>2, Zenon DEF RxType
  <2> QED
    BY <2>1, <2>2, PeerCases, PeerFrameType, Zenon
<1>4. RxType'
  BY <1>1, <1>2, <1>3, Zenon DEF RxType
<1>5. LinkType'
  <2>1. CASE \E r \in ReqIds : wire[r] > 0 /\ wire' = [wire EXCEPT ![r] = @ - 1]
    BY <1>1, <1>2, <2>1 DEF LinkType
  <2>2. CASE UNCHANGED wire
    BY <1>1, <1>2, <2>2, Zenon DEF LinkType
  <2> QED
    BY <2>1, <2>2, PeerCases, Zenon
<1>6. Numbered'
  BY <1>1, <1>2, Zenon DEF Numbered, Active, netVars
<1> QED
  BY <1>1, <1>2, <1>4, <1>5, <1>6, TypeStutter, TypePartsPrime, Zenon DEF Typed, netVars

\* What a step of callback_handler does: drop the datagram, hand it to the
\* call of the first flow it answers, or die because that call is gone.
LEMMA HandlerCases ==
  ASSUME Typed, callback_handler
  PROVE  /\ handler = "running" /\ rxq # <<>>
         /\ UNCHANGED <<address, poll, pollBuf, sock, wire>>
         /\ UNCHANGED tableVars /\ UNCHANGED <<lock, waiters, pc, cur, reqs>>
         /\ \/ /\ rxq' = Tail(rxq)
               /\ UNCHANGED <<flows, poisoned, chan, got, handler, rxOpen>>
            \/ \E i \in 1..Len(flows) :
                 /\ answers(create_tag(Head(rxq)), flows[i].tag)
                 /\ flows' = RemoveAt(flows, i)
                 /\ \/ /\ chan[flows[i].id] = "open"
                       /\ chan' = [chan EXCEPT ![flows[i].id] = "sent"]
                       /\ got' = [got EXCEPT ![flows[i].id] = Head(rxq)]
                       /\ rxq' = Tail(rxq)
                       /\ UNCHANGED <<handler, poisoned, rxOpen>>
                    \/ /\ chan[flows[i].id] # "open"
                       /\ handler' = "panicked" /\ poisoned' = TRUE /\ rxOpen' = FALSE
                       /\ rxq' = <<>>
                       /\ UNCHANGED <<chan, got>>
<1>1. CASE callback_handler_skip
  BY <1>1, Zenon DEF callback_handler_skip, netVars
<1>2. CASE callback_handler_match
  <2>1. PICK i \in 1..Len(flows) :
          is_first_match(flows, i, create_tag(Head(rxq))) /\ resolve(i)
    BY <1>2, Zenon DEF callback_handler_match
  <2>2. answers(create_tag(Head(rxq)), flows[i].tag)
    BY <2>1, Zenon DEF is_first_match
  <2>3. /\ flows' = RemoveAt(flows, i)
        /\ IF chan[flows[i].id] = "open"
           THEN /\ chan' = [chan EXCEPT ![flows[i].id] = "sent"]
                /\ got' = [got EXCEPT ![flows[i].id] = Head(rxq)]
                /\ rxq' = Tail(rxq)
                /\ UNCHANGED <<handler, poisoned, rxOpen>>
           ELSE /\ handler' = "panicked" /\ poisoned' = TRUE /\ rxOpen' = FALSE
                /\ rxq' = <<>>
                /\ UNCHANGED <<chan, got>>
    BY <2>1, Zenon DEF resolve, deliver
  <2>4. /\ handler = "running" /\ rxq # <<>>
        /\ UNCHANGED <<address, poll, pollBuf, sock, wire>>
        /\ UNCHANGED tableVars /\ UNCHANGED <<lock, waiters, pc, cur, reqs>>
    BY <1>2, Zenon DEF callback_handler_match
  <2> QED
    BY <2>2, <2>3, <2>4, Zenon
<1> QED
  BY <1>1, <1>2, Zenon DEF callback_handler

\* The handler keeps the types.
LEMMA HandlerType ==
  ASSUME Typed, callback_handler
  PROVE  Typed'
<1>1. TypeOK /\ RxType /\ FlowType /\ CallType /\ Numbered
  BY TypeParts, Zenon DEF Typed
<1>2. /\ rxq # <<>>
      /\ UNCHANGED <<address, poll, pollBuf, sock, wire>>
      /\ UNCHANGED tableVars /\ UNCHANGED <<lock, waiters, pc, cur, reqs>>
  BY HandlerCases, Zenon
<1>3. Head(rxq) \in Frame /\ Tail(rxq) \in Seq(Frame) /\ Len(Tail(rxq)) <= RxCap
  BY <1>1, <1>2, TailProps, Capacities DEF RxType
<1>4. <<>> \in Seq(Frame) /\ Len(<<>>) <= RxCap
  BY Capacities
<1>5. RxType'
  BY <1>1, <1>2, <1>3, <1>4, HandlerCases, Zenon DEF RxType
<1>6. FlagType'
  BY <1>1, TypeParts, HandlerCases, Zenon DEF FlagType
<1>7. FlowType' /\ CallType'
  <2>1. CASE UNCHANGED <<flows, chan, got>>
    BY <1>1, <1>2, <2>1, Zenon DEF FlowType, CallType
  <2>2. ASSUME NEW i \in 1..Len(flows), flows' = RemoveAt(flows, i),
               \/ /\ chan' = [chan EXCEPT ![flows[i].id] = "sent"]
                  /\ got' = [got EXCEPT ![flows[i].id] = Head(rxq)]
               \/ UNCHANGED <<chan, got>>
        PROVE  FlowType' /\ CallType'
    <3>0. flows[i] \in MctpFlow
      BY <1>1 DEF FlowType
    <3>1. flows[i].id \in ReqIds
      BY <3>0 DEF MctpFlow
    <3>2. flows' \in Seq(MctpFlow)
      BY <1>1, <2>2, RemoveAtProps DEF FlowType
    <3> QED
      BY <1>1, <1>2, <1>3, <2>2, <3>1, <3>2 DEF FlowType, CallType
  <2> QED
    BY <2>1, <2>2, HandlerCases, Zenon
<1>8. Numbered'
  BY <1>1, <1>2, Zenon DEF Numbered, Active
<1> QED
  BY <1>1, <1>2, <1>5, <1>6, <1>7, <1>8, TypeStutter, TypePartsPrime, Zenon DEF Typed

\* Every step keeps the types.
LEMMA StepTyped ==
  ASSUME Typed, [Next]_vars
  PROVE  Typed'
<1>1. CASE UNCHANGED vars
  <2>1. TypeOK /\ Numbered
    BY Zenon DEF Typed
  <2>2. UNCHANGED devVars /\ UNCHANGED tableVars /\ UNCHANGED netVars
    BY <1>1, Zenon DEF vars
  <2>3. Numbered'
    BY <2>1, <2>2, Zenon DEF Numbered, Active, netVars
  <2> QED
    BY <2>1, <2>2, <2>3, TypeStutter, TypePartsPrime, Zenon DEF Typed, devVars, netVars
<1>2. ASSUME NEW c \in Callers, socket_call(c) \/ bind_call(c)
      PROVE  Typed'
  BY <1>2, TableStepType, Zenon
<1>3. ASSUME NEW c \in Callers, sendto(c)
      PROVE  Typed'
  BY <1>3, RefuseType, BuildType, TrackType, LockStepType, ReturnType, Zenon DEF sendto
<1>4. ASSUME NEW p \in Pollers, Attach(p) \/ PollTask(p)
      PROVE  Typed'
  BY <1>4, AttachType, PollType, Zenon
<1> QED
  BY <1>1, <1>2, <1>3, <1>4, HandlerType, PeerType, Zenon DEF Next

\* Every reachable state of SimpleNetwork (simple_network.rs:32-301) is
\* well-typed; in particular the socket buffer and the callback channel stay
\* within their capacity, whatever tasks are started, panic or are dropped.
THEOREM TypeCorrect == Spec => []TypeOK
<1>1. Typed /\ [Next]_vars => Typed'
  BY StepTyped
<1>2. Typed => TypeOK
  BY DEF Typed
<1> QED
  BY <1>1, <1>2, InitTyped, PTL DEF Spec

\* The type invariant together with the numbering of the active calls, for
\* the proofs of the other invariants.
LEMMA TypedAlways == Spec => []Typed
<1>1. Typed /\ [Next]_vars => Typed'
  BY StepTyped
<1> QED
  BY <1>1, InitTyped, PTL DEF Spec

-----------------------------------------------------------------------------
(* The binding mutex.                                                      *)

\* The tasks waiting for the mutex, and that none waits twice.
Queued == {waiters[i] : i \in 1..Len(waiters)}
QueuedOnce == \A i, j \in 1..Len(waiters) : waiters[i] = waiters[j] => i = j

\* LockDiscipline in terms of the set of waiting tasks.
LockSets ==
  /\ QueuedOnce
  /\ lock = Free => Queued = {}
  /\ lock \notin Queued
  /\ \A c \in Callers :
       /\ pc[c] = "await" => lock = c
       /\ lock = c => pc[c] \in {"queued", "await"}
       /\ pc[c] = "queued" <=> (lock = c /\ pc[c] # "await") \/ c \in Queued

\* The two formulations agree.
LEMMA LockSetsMeaning ==
  ASSUME LockType
  PROVE  LockDiscipline <=> LockSets
<1>1. waiters = <<>> <=> Queued = {}
  BY DEF LockType, Queued
<1>2. lock \notin Queued <=> \A i \in 1..Len(waiters) : waiters[i] # lock
  BY Zenon DEF Queued
<1>3. \A c : c \in Queued <=> \E i \in 1..Len(waiters) : waiters[i] = c
  BY Zenon DEF Queued
<1>4. LockDiscipline => LockSets
  BY <1>1, <1>2, <1>3, Zenon DEF LockDiscipline, LockSets, QueuedOnce
<1>5. LockSets => LockDiscipline
  BY <1>1, <1>2, <1>3, Zenon DEF LockDiscipline, LockSets, QueuedOnce
<1> QED
  BY <1>4, <1>5

\* Waiting tasks are tasks.
LEMMA QueuedTasks == LockType => Queued \subseteq Tasks
  BY DEF LockType, Queued

\* release passes the mutex to one of the waiting tasks, which then waits no
\* more, and frees it only when there is none.
LEMMA ReleaseProps ==
  ASSUME LockType, QueuedOnce, release(waiters)
  PROVE  /\ QueuedOnce'
         /\ Queued' = Queued \ {lock'}
         /\ (lock' = Free /\ Queued = {}) \/ lock' \in Queued
<1>1. CASE waiters = <<>>
  BY <1>1 DEF release, QueuedOnce, Queued
<1>2. CASE waiters # <<>>
  <2>1. /\ lock' = waiters[1] /\ waiters' \in Seq(Tasks)
        /\ Len(waiters') = Len(waiters) - 1
        /\ \A j \in 1..Len(waiters') : waiters'[j] = waiters[j + 1]
        /\ Len(waiters) \in Nat /\ Len(waiters) > 0
    BY <1>2, TailProps DEF release, LockType
  <2>2. QueuedOnce'
    <3> SUFFICES ASSUME NEW i \in 1..Len(waiters'), NEW j \in 1..Len(waiters'),
                        waiters'[i] = waiters'[j]
                 PROVE  i = j
      BY DEF QueuedOnce
    <3>1. i + 1 \in 1..Len(waiters) /\ j + 1 \in 1..Len(waiters)
          /\ waiters[i + 1] = waiters[j + 1]
      BY <2>1
    <3>2. i + 1 = j + 1
      BY <3>1, Zenon DEF QueuedOnce
    <3> QED
      BY <3>2, <2>1
  <2>3. lock' \in Queued
    BY <2>1 DEF Queued
  <2>4. ASSUME NEW t \in Queued'
        PROVE  t \in Queued /\ t # lock'
    <3>1. PICK j \in 1..Len(waiters') : t = waiters'[j]
      BY <2>4 DEF Queued
    <3>2. j + 1 \in 1..Len(waiters) /\ t = waiters[j + 1] /\ j + 1 # 1 /\ 1 \in 1..Len(waiters)
      BY <2>1, <3>1
    <3>3. t # waiters[1]
      BY <3>2 DEF QueuedOnce
    <3> QED
      BY <2>1, <3>2, <3>3 DEF Queued
  <2>5. ASSUME NEW t \in Queued, t # lock'
        PROVE  t \in Queued'
    <3>1. PICK i \in 1..Len(waiters) : t = waiters[i]
      BY <2>5 DEF Queued
    <3>2. i # 1
      BY <2>1, <2>5, <3>1
    <3>3. i - 1 \in 1..Len(waiters') /\ waiters'[i - 1] = t
      BY <2>1, <3>1, <3>2
    <3> QED
      BY <3>3, Zenon DEF Queued
  <2> QED
    BY <2>2, <2>3, <2>4, <2>5
<1> QED
  BY <1>1, <1>2

\* A task that gives up its place in the queue.
LEMMA DequeueProps ==
  ASSUME LockType, QueuedOnce, NEW i \in 1..Len(waiters), waiters' = RemoveAt(waiters, i)
  PROVE  QueuedOnce' /\ Queued' = Queued \ {waiters[i]}
<1>1. /\ Len(waiters) \in Nat
      /\ Len(waiters') = Len(waiters) - 1
      /\ \A j \in 1..(Len(waiters) - 1) :
           waiters'[j] = IF j < i THEN waiters[j] ELSE waiters[j + 1]
  BY RemoveAtProps DEF LockType
<1>2. \A j \in 1..Len(waiters') : \E k \in 1..Len(waiters) :
         k # i /\ waiters'[j] = waiters[k] /\ k = IF j < i THEN j ELSE j + 1
  BY <1>1
<1>3. \A k \in 1..Len(waiters) : k # i =>
        \E j \in 1..Len(waiters') : waiters'[j] = waiters[k]
  <2> SUFFICES ASSUME NEW k \in 1..Len(waiters), k # i
               PROVE  \E j \in 1..Len(waiters') : waiters'[j] = waiters[k]
    OBVIOUS
  <2> DEFINE j == IF k < i THEN k ELSE k - 1
  <2>1. j \in 1..Len(waiters') /\ waiters'[j] = waiters[k]
    BY <1>1
  <2> QED
    BY <2>1, Zenon
<1>4. QueuedOnce'
  <2> SUFFICES ASSUME NEW x \in 1..Len(waiters'), NEW y \in 1..Len(waiters'),
                      waiters'[x] = waiters'[y]
               PROVE  x = y
    BY DEF QueuedOnce
  <2>1. PICK k \in 1..Len(waiters) : waiters'[x] = waiters[k] /\ k = IF x < i THEN x ELSE x + 1
    BY <1>2
  <2>2. PICK m \in 1..Len(waiters) : waiters'[y] = waiters[m] /\ m = IF y < i THEN y ELSE y + 1
    BY <1>2
  <2>3. k = m
    BY <2>1, <2>2, Zenon DEF QueuedOnce
  <2> QED
    BY <1>1, <2>1, <2>2, <2>3
<1>5. ASSUME NEW t \in Queued'
      PROVE  t \in Queued /\ t # waiters[i]
  <2>1. PICK j \in 1..Len(waiters') : t = waiters'[j]
    BY <1>5, Zenon DEF Queued
  <2>2. PICK k \in 1..Len(waiters) : k # i /\ t = waiters[k]
    BY <1>2, <2>1
  <2> QED
    BY <2>2, Zenon DEF Queued, QueuedOnce
<1>6. ASSUME NEW t \in Queued, t # waiters[i]
      PROVE  t \in Queued'
  BY <1>3, <1>6, Zenon DEF Queued
<1> QED
  BY <1>4, <1>5, <1>6

\* A task that joins the queue.
LEMMA EnqueueProps ==
  ASSUME LockType, QueuedOnce, NEW t \in Tasks, t \notin Queued, waiters' = Append(waiters, t)
  PROVE  QueuedOnce' /\ Queued' = Queued \cup {t}
<1>1. /\ Len(waiters) \in Nat /\ Len(waiters') = Len(waiters) + 1
      /\ \A j \in 1..Len(waiters) : waiters'[j] = waiters[j]
      /\ waiters'[Len(waiters) + 1] = t
  BY AppendProps DEF LockType
<1>2. \A j \in 1..Len(waiters) : waiters[j] # t
  BY Zenon DEF Queued
<1>3. QueuedOnce'
  BY <1>1, <1>2 DEF QueuedOnce
<1>4. Queued' = Queued \cup {t}
  BY <1>1 DEF Queued
<1> QED
  BY <1>3, <1>4

\* Steps that change neither the mutex nor which calls are queued or await.
LEMMA LockStutter ==
  ASSUME LockSets, UNCHANGED <<lock, waiters>>,
         \A c \in Callers : pc'[c] = pc[c] \/ {pc[c], pc'[c]} \cap {"queued", "await"} = {}
  PROVE  LockSets'
<1>1. QueuedOnce' = QueuedOnce /\ Queued' = Queued
  BY Zenon DEF QueuedOnce, Queued
<1>2. \A c \in Callers :
         /\ pc'[c] = "await" <=> pc[c] = "await"
         /\ pc'[c] = "queued" <=> pc[c] = "queued"
  OBVIOUS
<1> QED
  BY <1>1, <1>2 DEF LockSets

\* The owner lets go while its call ends.
LEMMA LockLeave ==
  ASSUME LockType, CallType, LockSets, NEW c \in Callers, lock = c \/ lock = Free,
         NEW where \in {"idle", "panicked"}, pc' = [pc EXCEPT ![c] = where],
         pc[c] # "queued" \/ lock = c,
         release(waiters)
  PROVE  LockSets'
<1>1. /\ QueuedOnce' /\ Queued' = Queued \ {lock'}
      /\ (lock' = Free /\ Queued = {}) \/ lock' \in Queued
  BY ReleaseProps, Zenon DEF LockSets
<1>2. c \notin Queued
  BY TasksDisjoint DEF LockSets
<1>3. Free \notin Queued
  BY QueuedTasks, SimpleNetworkAssumption DEF Tasks
<1>4. ASSUME NEW d \in Callers
      PROVE  /\ pc'[d] = "await" => lock' = d
             /\ lock' = d => pc'[d] \in {"queued", "await"}
             /\ pc'[d] = "queued" <=> (lock' = d /\ pc'[d] # "await") \/ d \in Queued'
  <2>1. CASE d = c
    BY <1>1, <1>2, <2>1, TasksDisjoint DEF CallType
  <2>2. CASE d # c
    <3>1. pc'[d] = pc[d] /\ lock # d /\ d # Free
      BY <2>2, TasksDisjoint DEF CallType
    <3>2. pc[d] # "await" /\ (pc[d] = "queued" <=> d \in Queued)
      BY <3>1 DEF LockSets
    <3> QED
      BY <1>1, <3>1, <3>2
  <2> QED
    BY <2>1, <2>2
<1> QED
  BY <1>1, <1>3, <1>4 DEF LockSets

\* A transmit by the owner, or by the first to find the mutex free.
LEMMA LockTransmit ==
  ASSUME Typed, LockSets, NEW c \in Callers, transmit_as_owner(c, waiters),
         (pc[c] = "lock" /\ lock = Free) \/ (pc[c] = "queued" /\ lock = c)
  PROVE  LockSets'
<1>1. /\ LockType /\ CallType
      /\ pc \in [Callers -> {"idle", "track", "lock", "queued", "await", "panicked"}]
  BY TypeParts, Zenon DEF Typed, CallType
<1>2. c \notin Queued /\ c # Free
  BY TasksDisjoint DEF LockSets
<1>3. CASE /\ lock' = c /\ waiters' = waiters
           /\ pc' = [pc EXCEPT ![c] = "await"]
  <2>1. QueuedOnce' /\ Queued' = Queued
    <3>1. QueuedOnce
      BY Zenon DEF LockSets
    <3> QED
      BY <1>3, <3>1, Zenon DEF QueuedOnce, Queued
  <2>2. ASSUME NEW d \in Callers
        PROVE  /\ pc'[d] = "await" => lock' = d
               /\ lock' = d => pc'[d] \in {"queued", "await"}
               /\ pc'[d] = "queued" <=> (lock' = d /\ pc'[d] # "await") \/ d \in Queued'
    <3>1. CASE d = c
      BY <1>1, <1>2, <1>3, <2>1, <3>1
    <3>2. CASE d # c
      <4>1. pc'[d] = pc[d] /\ lock # d /\ lock' # d
        BY <1>1, <1>3, <3>2, TasksDisjoint
      <4> QED
        BY <2>1, <4>1 DEF LockSets
    <3> QED
      BY <3>1, <3>2
  <2> QED
    BY <1>2, <1>3, <2>1, <2>2 DEF LockSets
<1>4. CASE release(waiters) /\ finish(c, "panicked")
  <2>1. pc' = [pc EXCEPT ![c] = "panicked"]
    BY <1>4, Zenon DEF finish
  <2> QED
    BY <1>1, <1>4, <2>1, LockLeave
<1> QED
  BY <1>3, <1>4, TransmitCases, Zenon

\* Every step keeps the mutex discipline.
LEMMA StepLock ==
  ASSUME Typed, LockSets, [Next]_vars
  PROVE  LockSets'
<1>1. /\ LockType /\ CallType
      /\ pc \in [Callers -> {"idle", "track", "lock", "queued", "await", "panicked"}]
  BY TypeParts, Zenon DEF Typed, CallType
<1>2. ASSUME UNCHANGED <<lock, waiters, pc>>
      PROVE  LockSets'
  BY <1>2, LockStutter, Zenon
<1>3. ASSUME NEW c \in Callers, NEW where \in {"idle", "track", "lock", "panicked"},
             pc[c] \in {"idle", "track"}, pc' = [pc EXCEPT ![c] = where],
             UNCHANGED <<lock, waiters>>
      PROVE  LockSets'
  <2>1. \A d \in Callers : pc'[d] = pc[d] \/ {pc[d], pc'[d]} \cap {"queued", "await"} = {}
    BY <1>1, <1>3
  <2> QED
    BY <1>3, <2>1, LockStutter, Zenon
<1>4. ASSUME NEW c \in Callers, sendto(c)
      PROVE  LockSets'
  <2>1. CASE \E s \in Descriptors, addr \in Addrs : sendto_refuse(c, s, addr)
    <3>1. /\ pc[c] = "idle" /\ UNCHANGED <<lock, waiters>>
          /\ pc' = pc \/ pc' = [pc EXCEPT ![c] = "panicked"]
      BY <2>1, Zenon DEF sendto_refuse, Idle, finish
    <3> QED
      BY <1>2, <1>3, <3>1
  <2>2. CASE \E s \in Descriptors, addr \in Addrs : sendto_build(c, s, addr)
    <3>1. /\ pc[c] = "idle" /\ UNCHANGED <<lock, waiters>>
          /\ pc' = [pc EXCEPT ![c] = "track"]
      BY <2>2, Zenon DEF sendto_build, Idle
    <3> QED
      BY <1>3, <3>1
  <2>3. CASE sendto_track(c)
    <3>1. /\ pc[c] = "track" /\ UNCHANGED <<lock, waiters>>
          /\ pc' = [pc EXCEPT ![c] = "panicked"] \/ pc' = [pc EXCEPT ![c] = "lock"]
      BY <2>3, Zenon DEF sendto_track, finish
    <3> QED
      BY <1>3, <3>1
  <2>4. CASE sendto_lock(c)
    <3>1. CASE lock = Free
      <4>1. pc[c] = "lock" /\ transmit_as_owner(c, waiters)
        BY <2>4, <3>1, Zenon DEF sendto_lock
      <4> QED
        BY <3>1, <4>1, LockTransmit, Zenon
    <3>2. CASE lock # Free
      <4>1. /\ pc[c] = "lock" /\ waiters' = Append(waiters, c)
            /\ pc' = [pc EXCEPT ![c] = "queued"] /\ lock' = lock
        BY <2>4, <3>2, Zenon DEF sendto_lock
      <4>2. c \notin Queued /\ lock # c
        BY <4>1 DEF LockSets
      <4>3. QueuedOnce' /\ Queued' = Queued \cup {c}
        BY <1>1, <4>1, <4>2, EnqueueProps, TasksDisjoint, Zenon DEF LockSets
      <4>4. ASSUME NEW d \in Callers
            PROVE  /\ pc'[d] = "await" => lock' = d
                   /\ lock' = d => pc'[d] \in {"queued", "await"}
                   /\ pc'[d] = "queued" <=> (lock' = d /\ pc'[d] # "await") \/ d \in Queued'
        <5>1. CASE d = c
          BY <1>1, <4>1, <4>2, <4>3, <5>1
        <5>2. CASE d # c
          <6>1. pc'[d] = pc[d]
            BY <1>1, <4>1, <5>2
          <6> QED
            BY <4>1, <4>3, <5>2, <6>1 DEF LockSets
        <5> QED
          BY <5>1, <5>2
      <4> QED
        BY <3>2, <4>1, <4>2, <4>3, <4>4 DEF LockSets
    <3> QED
      BY <3>1, <3>2
  <2>5. CASE sendto_transmit(c)
    BY <2>5, LockTransmit, Zenon DEF sendto_transmit
  <2>6. CASE sendto_return(c)
    <3>1. pc[c] = "await" /\ release(waiters) /\ pc' = [pc EXCEPT ![c] = "idle"]
      BY <2>6, Zenon DEF sendto_return, finish
    <3>2. lock = c
      BY <3>1, Zenon DEF LockSets
    <3> QED
      BY <1>1, <3>1, <3>2, LockLeave
  <2>7. CASE sendto_cancel(c)
    <3>1. pc[c] \in {"queued", "await"} /\ pc' = [pc EXCEPT ![c] = "idle"]
      BY <2>7, Zenon DEF sendto_cancel, finish
    <3>2. CASE lock = c
      <4>1. release(waiters)
        BY <2>7, <3>2, Zenon DEF sendto_cancel
      <4> QED
        BY <1>1, <3>1, <3>2, <4>1, LockLeave
    <3>3. CASE lock # c
      <4>1. PICK i \in 1..Len(waiters) :
              waiters[i] = c /\ waiters' = RemoveAt(waiters, i) /\ lock' = lock
        BY <2>7, <3>3, Zenon DEF sendto_cancel
      <4>2. QueuedOnce' /\ Queued' = Queued \ {c} /\ c \in Queued
        BY <1>1, <4>1, DequeueProps, Zenon DEF LockSets, Queued
      <4>3. ASSUME NEW d \in Callers
            PROVE  /\ pc'[d] = "await" => lock' = d
                   /\ lock' = d => pc'[d] \in {"queued", "await"}
                   /\ pc'[d] = "queued" <=> (lock' = d /\ pc'[d] # "await") \/ d \in Queued'
        <5>1. CASE d = c
          BY <1>1, <3>1, <3>3, <4>1, <4>2, <5>1
        <5>2. CASE d # c
          <6>1. pc'[d] = pc[d]
            BY <1>1, <3>1, <5>2
          <6> QED
            BY <4>1, <4>2, <5>2, <6>1 DEF LockSets
        <5> QED
          BY <5>1, <5>2
      <4> QED
        BY <4>1, <4>2, <4>3 DEF LockSets
    <3> QED
      BY <3>2, <3>3
  <2> QED
    BY <1>4, <2>1, <2>2, <2>3, <2>4, <2>5, <2>6, <2>7, Zenon DEF sendto
<1>5. ASSUME NEW p \in Pollers, Attach(p)
      PROVE  LockSets'
  <2>1. pc' = pc /\ p \in Tasks /\ p # Free /\ p \notin Callers
    BY <1>5, TasksDisjoint, Zenon DEF Attach, add_physical_binding, add_physical_binding_queue
  <2>2. CASE release(waiters) /\ lock = p
    <3>1. /\ QueuedOnce' /\ Queued' = Queued \ {lock'}
          /\ (lock' = Free /\ Queued = {}) \/ lock' \in Queued
      BY <1>1, <2>2, ReleaseProps, Zenon DEF LockSets
    <3>2. \A d \in Callers : lock # d /\ d # Free
      BY <2>1, <2>2, TasksDisjoint
    <3>3. Free \notin Queued
      BY <1>1, QueuedTasks, SimpleNetworkAssumption DEF Tasks
    <3> QED
      BY <2>1, <3>1, <3>2, <3>3 DEF LockSets
  <2>3. CASE UNCHANGED <<lock, waiters>>
    BY <1>2, <2>1, <2>3
  <2>4. CASE /\ lock \notin {Free, p} /\ p \notin Queued
             /\ waiters' = Append(waiters, p) /\ UNCHANGED lock
    <3>1. QueuedOnce' /\ Queued' = Queued \cup {p}
      BY <1>1, <2>1, <2>4, EnqueueProps, Zenon DEF LockSets
    <3> QED
      BY <2>1, <2>4, <3>1 DEF LockSets
  <2> QED
    BY <1>5, <2>2, <2>3, <2>4, Zenon
       DEF Attach, add_physical_binding, add_physical_binding_queue, Queued
<1>6. CASE \/ UNCHANGED vars
           \/ \E c \in Callers : socket_call(c) \/ bind_call(c)
           \/ \E p \in Pollers : PollTask(p)
           \/ callback_handler
           \/ Peer
  <2>1. UNCHANGED <<lock, waiters, pc>>
    BY <1>6, PollCases, HandlerCases, PeerCases, Zenon
       DEF vars, socket_call, bind_call, netVars
  <2> QED
    BY <1>2, <2>1
<1> QED
  BY <1>4, <1>5, <1>6, Zenon DEF Next

\* The binding mutex is never lost, shared or asked for twice
\* (simple_network.rs:276, 293), for any number of tasks, whichever of them
\* panic, are dropped while queued or while they hold it, or attach a binding.
THEOREM MutexDiscipline == Spec => []LockDiscipline
<1>1. Init => LockSets
  <2> SUFFICES ASSUME Init PROVE LockSets
    OBVIOUS
  <2>1. waiters = <<>> /\ lock = Free /\ \A c \in Callers : pc[c] = "idle" /\ c # Free
    BY TasksDisjoint DEF Init
  <2> QED
    BY <2>1 DEF LockSets, QueuedOnce, Queued
<1>2. Typed /\ LockSets /\ [Next]_vars => LockSets'
  BY StepLock
<1>3. Typed /\ LockSets => LockDiscipline
  BY LockSetsMeaning, TypeParts, Zenon DEF Typed
<1> QED
  BY <1>1, <1>2, <1>3, TypedAlways, PTL DEF Spec

-----------------------------------------------------------------------------
(* Descriptors.                                                            *)

\* The table stays typed, and a settled descriptor stays settled and keeps its
\* client, in every step of socket and bind.
LEMMA SettledStep ==
  ASSUME TableTypeOK, NEW c \in Callers, socket(c) \/ bind(c),
         NEW s \in Descriptors, Settled(s)
  PROVE  clients'[s] = clients[s] /\ Settled(s)'
<1>1. /\ num_clients \in Nat /\ s \in Nat
      /\ clients \in [Descriptors -> Client \cup {NoClient}]
      /\ inserting \in [Callers -> Client \cup {NoClient}]
      /\ sd \in [Callers -> Descriptors \cup {NoSd}]
      /\ \A d \in Callers : inserting[d] # NoClient => sd[d] # NoSd
  BY SocketTableAssumption DEF TableTypeOK, Descriptors
<1>2. s < num_clients - 1 /\ \A d \in Callers : sd[d] = s => inserting[d] = NoClient
  BY Zenon DEF Settled, OutsideBind
<1>3. SUFFICES /\ clients'[s] = clients[s] /\ s < num_clients' - 1
               /\ \A d \in Callers : sd'[d] = s => inserting'[d] = NoClient
  BY Zenon DEF Settled, OutsideBind
<1>4. CASE socket(c)
  <2>1. /\ num_clients' = num_clients + 1 /\ sd' = [sd EXCEPT ![c] = num_clients]
        /\ UNCHANGED <<clients, inserting>>
    BY <1>4, Zenon DEF socket
  <2>2. s # num_clients
    BY <1>1, <1>2
  <2>3. \A d \in Callers : sd'[d] = s => sd[d] = s
    BY <1>1, <2>1, <2>2
  <2> QED
    BY <1>1, <1>2, <2>1, <2>3
<1>5. CASE \E t \in Descriptors, client \in BindArgs[c] : bind_check(c, t, client)
  <2>1. PICK t \in Descriptors, client \in BindArgs[c] : bind_check(c, t, client)
    BY <1>5
  <2>2. /\ inserting[c] = NoClient /\ sd' = [sd EXCEPT ![c] = t]
        /\ \/ t < num_clients - 1 /\ inserting' = inserting
           \/ ~(t < num_clients - 1) /\ inserting' = [inserting EXCEPT ![c] = client]
        /\ UNCHANGED <<num_clients, clients>>
    BY <2>1, Zenon DEF bind_check, bind_refuses, OutsideBind
  <2>3. \A d \in Callers : d # c => sd'[d] = sd[d] /\ inserting'[d] = inserting[d]
    BY <1>1, <2>2
  <2>4. sd'[c] = s => inserting'[c] = NoClient
    BY <1>1, <1>2, <2>2
  <2> QED
    BY <1>2, <2>2, <2>3, <2>4
<1>6. CASE bind_insert(c)
  <2>1. /\ inserting[c] # NoClient /\ inserting' = [inserting EXCEPT ![c] = NoClient]
        /\ clients' = [clients EXCEPT ![sd[c]] = inserting[c]]
        /\ UNCHANGED <<num_clients, sd>>
    BY <1>6, Zenon DEF bind_insert, OutsideBind
  <2>2. sd[c] # s
    BY <1>2, <2>1
  <2> QED
    BY <1>1, <1>2, <2>1, <2>2
<1> QED
  BY <1>4, <1>5, <1>6, Zenon DEF bind

\* Nothing else touches the table.
LEMMA TableSteps ==
  ASSUME Typed, [Next]_vars
  PROVE  UNCHANGED tableVars \/ \E c \in Callers : socket(c) \/ bind(c)
<1>1. ASSUME NEW c \in Callers, socket_call(c) \/ bind_call(c)
      PROVE  socket(c) \/ bind(c)
  BY <1>1, Zenon DEF socket_call, bind_call
<1>2. ASSUME NEW c \in Callers, sendto(c)
      PROVE  UNCHANGED tableVars
  BY <1>2, Zenon DEF sendto, sendto_refuse, sendto_build, sendto_track, sendto_lock,
     sendto_transmit, sendto_return, sendto_cancel
<1>3. ASSUME NEW p \in Pollers, Attach(p) \/ PollTask(p)
      PROVE  UNCHANGED tableVars
  BY <1>3, Zenon DEF Attach, add_physical_binding, add_physical_binding_queue, PollTask
<1>4. callback_handler \/ Peer \/ UNCHANGED vars => UNCHANGED tableVars
  BY HandlerCases, PeerCases, Zenon DEF vars
<1> QED
  BY <1>1, <1>2, <1>3, <1>4, Zenon DEF Next

\* Once a newer descriptor exists and no bind that started before is still to
\* insert, the client of a descriptor is fixed (simple_network.rs:190-213),
\* for any number of tasks, whichever descriptors they pass to bind, in every
\* interleaving with each other and with the calls in progress.
THEOREM SettledClientsStay == Spec => SettledClient
<1>1. ASSUME Typed, [Next]_vars
      PROVE  \/ \A s \in Descriptors : Settled(s) => clients'[s] = clients[s] /\ Settled(s)'
             \/ UNCHANGED tableVars
  <2>1. TableTypeOK
    BY <1>1, TypeParts, Zenon DEF Typed
  <2> QED
    BY <1>1, <2>1, TableSteps, SettledStep, Zenon
<1> QED
  BY <1>1, TypedAlways, PTL DEF Spec, SettledClient
=============================================================================
