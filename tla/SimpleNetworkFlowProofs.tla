----------------------- MODULE SimpleNetworkFlowProofs -----------------------
(***************************************************************************)
(* Proofs about the calls of SimpleNetwork: the flow list, the oneshot     *)
(* channels, the answers and the life of the handler.  All steps that      *)
(* matter to a call are of six kinds; StepKinds reduces Next to them.      *)
(***************************************************************************)
EXTENDS SimpleNetworkProofs

flagVars == <<poisoned, rxOpen, handler>>

\* The task of every call is as it was, as far as calls are concerned.
SamePlace(c) ==
  /\ pc'[c] = "track" <=> pc[c] = "track"
  /\ Tracked(c)' <=> Tracked(c)
  /\ Active(c) => cur'[c] = cur[c]

Keeps ==
  /\ UNCHANGED <<flows, reqs, chan, got>> /\ UNCHANGED flagVars
  /\ \A c \in Callers : SamePlace(c)

Builds(c) ==
  /\ pc[c] = "idle" /\ pc'[c] = "track"
  /\ Len(reqs) + 1 \in ReqIds /\ cur'[c] = Len(reqs) + 1
  /\ reqs' \in Seq(MsgFlowTag) /\ Len(reqs') = Len(reqs) + 1
  /\ \A r \in 1..Len(reqs) : reqs'[r] = reqs[r]
  /\ reqs'[Len(reqs) + 1].tag_owner = TRUE
  /\ \E addr \in Addrs : reqs'[Len(reqs) + 1].dest_eid = addr.address
  /\ chan' = [chan EXCEPT ![Len(reqs) + 1] = "open"]
  /\ UNCHANGED <<flows, got>> /\ UNCHANGED flagVars
  /\ \A d \in Callers \ {c} : SamePlace(d)

Tracks(c) ==
  /\ pc[c] = "track" /\ pc'[c] = "lock" /\ cur'[c] = cur[c]
  /\ poisoned = FALSE
  /\ flows' = Append(flows, [tag |-> reqs[cur[c]], id |-> cur[c]])
  /\ UNCHANGED <<reqs, chan, got>> /\ UNCHANGED flagVars
  /\ \A d \in Callers \ {c} : SamePlace(d)

Leaves(c, st) ==
  /\ Active(c) /\ ~Active(c)'
  /\ pc[c] = "track" => poisoned = TRUE
  /\ st = "taken" => pc[c] = "await" /\ chan[cur[c]] = "sent"
  /\ chan' = [chan EXCEPT ![cur[c]] = st]
  /\ UNCHANGED <<flows, reqs, got>> /\ UNCHANGED flagVars
  /\ \A d \in Callers \ {c} : SamePlace(d)

Delivers(i) ==
  /\ rxq # <<>>
  /\ handler = "running"
  /\ answers(create_tag(Head(rxq)), flows[i].tag)
  /\ flows' = RemoveAt(flows, i)
  /\ chan[flows[i].id] = "open"
  /\ chan' = [chan EXCEPT ![flows[i].id] = "sent"]
  /\ got' = [got EXCEPT ![flows[i].id] = Head(rxq)]
  /\ UNCHANGED <<pc, cur, reqs>> /\ UNCHANGED flagVars

Dies(i) ==
  /\ handler = "running"
  /\ flows' = RemoveAt(flows, i)
  /\ chan[flows[i].id] # "open"
  /\ handler' = "panicked" /\ poisoned' = TRUE /\ rxOpen' = FALSE
  /\ UNCHANGED <<pc, cur, reqs, chan, got>>

\* A call does not change by what its own task does not do.
LEMMA SamePlaceStutter ==
  ASSUME NEW c, pc'[c] = pc[c], cur'[c] = cur[c]
  PROVE  SamePlace(c)
  BY Zenon DEF SamePlace, Tracked

\* Calls of other tasks are where they were when one task moves.
LEMMA OthersStay ==
  ASSUME CallType, NEW c \in Callers, NEW p, pc' = [pc EXCEPT ![c] = p],
         cur' = cur \/ \E r : cur' = [cur EXCEPT ![c] = r]
  PROVE  /\ pc'[c] = p
         /\ \A d \in Callers \ {c} : SamePlace(d)
<1>1. pc \in [Callers -> {"idle", "track", "lock", "queued", "await", "panicked"}]
      /\ cur \in [Callers -> ReqIds \cup {0}]
  BY Zenon DEF CallType
<1>2. pc'[c] = p /\ \A d \in Callers \ {c} : pc'[d] = pc[d] /\ cur'[d] = cur[d]
  BY <1>1
<1> QED
  BY <1>2, SamePlaceStutter, Zenon

\* What a transmit is to the calls.
LEMMA TransmitKind ==
  ASSUME Typed, NEW c \in Callers, Tracked(c), transmit_as_owner(c, waiters),
         UNCHANGED <<tableVars, flows, poisoned, reqs, got, handler>>
  PROVE  Keeps \/ Leaves(c, "dropped")
<1>1. CallType
  BY TypeParts, Zenon DEF Typed
<1>2. UNCHANGED flagVars
  BY TransmitCases, Zenon DEF flagVars
<1>3. CASE pc' = [pc EXCEPT ![c] = "await"] /\ UNCHANGED <<cur, chan>>
  <2>1. pc'[c] = "await" /\ \A d \in Callers \ {c} : SamePlace(d)
    BY <1>1, <1>3, OthersStay, Zenon
  <2>2. SamePlace(c)
    BY <1>3, <2>1 DEF SamePlace, Tracked
  <2> QED
    BY <1>2, <1>3, <2>1, <2>2, Zenon DEF Keeps
<1>4. CASE finish(c, "panicked") /\ chan' = [chan EXCEPT ![cur[c]] = "dropped"]
  <2>1. pc'[c] = "panicked" /\ \A d \in Callers \ {c} : SamePlace(d)
    BY <1>1, <1>4, OthersStay, Zenon DEF finish
  <2>2. Active(c) /\ pc[c] # "track" /\ ~Active(c)'
    BY <2>1 DEF Tracked, Active
  <2> QED
    BY <1>2, <1>4, <2>1, <2>2 DEF Leaves
<1> QED
  BY <1>3, <1>4, TransmitCases, Zenon

\* Every step of a sendto is one of these, seen from the calls.
LEMMA SendtoKinds ==
  ASSUME Typed, NEW c \in Callers, sendto(c)
  PROVE  \/ Keeps \/ Builds(c) \/ Tracks(c)
         \/ \E st \in {"taken", "dropped"} : Leaves(c, st)
<1>1. CallType /\ TypeOK
  BY TypeParts, Zenon DEF Typed
<1>2. ASSUME NEW s \in Descriptors, NEW addr \in Addrs, sendto_refuse(c, s, addr)
      PROVE  Keeps
  <2>1. pc[c] = "idle" /\ UNCHANGED <<flows, reqs, chan, got>> /\ UNCHANGED flagVars
    BY <1>2, Zenon DEF sendto_refuse, Idle, devVars, flagVars
  <2>2. CASE finish(c, "panicked")
    <3>1. pc'[c] = "panicked" /\ \A d \in Callers \ {c} : SamePlace(d)
      BY <1>1, <2>2, OthersStay, Zenon DEF finish
    <3>2. SamePlace(c)
      BY <2>1, <3>1 DEF SamePlace, Tracked, Active
    <3> QED
      BY <2>1, <3>1, <3>2, Zenon DEF Keeps
  <2>3. CASE UNCHANGED <<pc, cur>>
    BY <2>1, <2>3, SamePlaceStutter, Zenon DEF Keeps
  <2> QED
    BY <1>2, <2>2, <2>3, Zenon DEF sendto_refuse
<1>3. ASSUME NEW s \in Descriptors, NEW addr \in Addrs, sendto_build(c, s, addr)
      PROVE  Builds(c)
  <2>1. /\ Typed'
        /\ Len(reqs') = Len(reqs) + 1 /\ Len(reqs) + 1 \in ReqIds
        /\ \A r \in 1..Len(reqs) : reqs'[r] = reqs[r]
        /\ reqs'[Len(reqs) + 1].tag_owner = TRUE
        /\ reqs'[Len(reqs) + 1].dest_eid = addr.address
    BY <1>3, BuildType, Zenon
  <2>2. /\ pc[c] = "idle" /\ pc' = [pc EXCEPT ![c] = "track"]
        /\ cur' = [cur EXCEPT ![c] = Len(reqs) + 1]
        /\ chan' = [chan EXCEPT ![Len(reqs) + 1] = "open"]
        /\ UNCHANGED <<flows, got>> /\ UNCHANGED flagVars
    BY <1>3, Zenon DEF sendto_build, Idle, devVars, flagVars
  <2>3. pc'[c] = "track" /\ \A d \in Callers \ {c} : SamePlace(d)
    BY <1>1, <2>2, OthersStay, Zenon
  <2>4. reqs' \in Seq(MsgFlowTag) /\ cur \in [Callers -> ReqIds \cup {0}]
    BY <1>1, <2>1, TypePartsPrime, Zenon DEF Typed, CallType
  <2>5. cur'[c] = Len(reqs) + 1
    BY <2>2, <2>4
  <2> QED
    BY <2>1, <2>2, <2>3, <2>4, <2>5, Zenon DEF Builds
<1>4. CASE sendto_track(c)
  <2>1. /\ pc[c] = "track" /\ UNCHANGED <<reqs, got>> /\ UNCHANGED flagVars
    BY <1>4, Zenon DEF sendto_track, devVars, flagVars
  <2>2. CASE /\ poisoned = TRUE /\ finish(c, "panicked")
             /\ chan' = [chan EXCEPT ![cur[c]] = "dropped"]
             /\ UNCHANGED flows
    <3>1. pc'[c] = "panicked" /\ \A d \in Callers \ {c} : SamePlace(d)
      BY <1>1, <2>2, OthersStay, Zenon DEF finish
    <3>2. Active(c) /\ ~Active(c)'
      BY <2>1, <3>1 DEF Active
    <3> QED
      BY <2>1, <2>2, <3>1, <3>2 DEF Leaves
  <2>3. CASE /\ poisoned = FALSE
             /\ flows' = Append(flows, [tag |-> reqs[cur[c]], id |-> cur[c]])
             /\ pc' = [pc EXCEPT ![c] = "lock"]
             /\ UNCHANGED <<cur, chan>>
    <3>1. pc'[c] = "lock" /\ \A d \in Callers \ {c} : SamePlace(d)
      BY <1>1, <2>3, OthersStay, Zenon
    <3> QED
      BY <2>1, <2>3, <3>1, Zenon DEF Tracks
  <2>4. poisoned \in BOOLEAN
    BY <1>1, TypeParts, Zenon DEF FlagType
  <2> QED
    BY <1>4, <2>2, <2>3, <2>4, Zenon DEF sendto_track
<1>5. CASE sendto_lock(c)
  <2>1. pc[c] = "lock" /\ UNCHANGED <<tableVars, flows, poisoned, reqs, got, handler>>
    BY <1>5, Zenon DEF sendto_lock
  <2>2. CASE transmit_as_owner(c, waiters)
    <3>1. Tracked(c)
      BY <2>1 DEF Tracked
    <3> QED
      BY <2>1, <2>2, <3>1, TransmitKind, Zenon
  <2>3. CASE pc' = [pc EXCEPT ![c] = "queued"] /\ UNCHANGED <<devVars, lock, cur, chan>>
    <3>1. pc'[c] = "queued" /\ \A d \in Callers \ {c} : SamePlace(d)
      BY <1>1, <2>3, OthersStay, Zenon
    <3>2. SamePlace(c)
      BY <2>1, <2>3, <3>1 DEF SamePlace, Tracked
    <3> QED
      BY <2>1, <2>3, <3>1, <3>2, Zenon DEF Keeps, flagVars, devVars
  <2> QED
    BY <1>5, <2>2, <2>3, Zenon DEF sendto_lock
<1>6. CASE sendto_transmit(c)
  <2>1. /\ pc[c] = "queued" /\ transmit_as_owner(c, waiters)
        /\ UNCHANGED <<tableVars, flows, poisoned, reqs, got, handler>>
    BY <1>6, Zenon DEF sendto_transmit
  <2>2. Tracked(c)
    BY <2>1 DEF Tracked
  <2> QED
    BY <2>1, <2>2, TransmitKind, Zenon
<1>7. ASSUME NEW st \in {"taken", "dropped"}, finish(c, "idle"),
             Tracked(c), st = "taken" => pc[c] = "await" /\ chan[cur[c]] = "sent",
             chan' = [chan EXCEPT ![cur[c]] = st],
             UNCHANGED <<flows, reqs, got>>, UNCHANGED flagVars
      PROVE  Leaves(c, st)
  <2>1. pc'[c] = "idle" /\ \A d \in Callers \ {c} : SamePlace(d)
    BY <1>1, <1>7, OthersStay, Zenon DEF finish
  <2>2. Active(c) /\ pc[c] # "track" /\ ~Active(c)'
    BY <1>7, <2>1 DEF Tracked, Active
  <2> QED
    BY <1>7, <2>1, <2>2, Zenon DEF Leaves
<1>8. CASE sendto_return(c)
  <2>1. /\ pc[c] = "await" /\ chan[cur[c]] = "sent" /\ finish(c, "idle")
        /\ chan' = [chan EXCEPT ![cur[c]] = "taken"]
        /\ UNCHANGED <<flows, reqs, got>> /\ UNCHANGED flagVars
    BY <1>8, Zenon DEF sendto_return, devVars, flagVars
  <2>2. Tracked(c)
    BY <2>1 DEF Tracked
  <2> QED
    BY <1>7, <2>1, <2>2
<1>9. CASE sendto_cancel(c)
  <2>1. /\ pc[c] \in {"queued", "await"} /\ finish(c, "idle")
        /\ chan' = [chan EXCEPT ![cur[c]] = "dropped"]
        /\ UNCHANGED <<flows, reqs, got>> /\ UNCHANGED flagVars
    BY <1>9, Zenon DEF sendto_cancel, devVars, flagVars
  <2>2. Tracked(c)
    BY <2>1 DEF Tracked
  <2> QED
    BY <1>7, <2>1, <2>2
<1> QED
  BY <1>2, <1>3, <1>4, <1>5, <1>6, <1>8, <1>9, Zenon DEF sendto

\* Every step of the network is one of the kinds.
LEMMA StepKinds ==
  ASSUME Typed, [Next]_vars
  PROVE  \/ Keeps
         \/ \E c \in Callers : Builds(c) \/ Tracks(c)
         \/ \E c \in Callers, st \in {"taken", "dropped"} : Leaves(c, st)
         \/ \E i \in 1..Len(flows) : Delivers(i) \/ Dies(i)
<1>1. ASSUME UNCHANGED netVars, UNCHANGED rxOpen
      PROVE  Keeps
  BY <1>1, SamePlaceStutter, Zenon DEF Keeps, netVars, flagVars
<1>2. CASE \/ UNCHANGED vars
           \/ \E c \in Callers : socket_call(c) \/ bind_call(c)
           \/ \E p \in Pollers : PollTask(p)
           \/ Peer
  <2>1. UNCHANGED netVars /\ UNCHANGED rxOpen
    BY <1>2, PollCases, PeerCases, Zenon DEF vars, socket_call, bind_call, devVars
  <2> QED
    BY <1>1, <2>1
<1>3. ASSUME NEW p \in Pollers, Attach(p)
      PROVE  Keeps
  <2>1. UNCHANGED <<flows, reqs, chan, got>> /\ UNCHANGED flagVars /\ UNCHANGED <<pc, cur>>
    BY <1>3, Zenon DEF Attach, add_physical_binding, add_physical_binding_queue, spawn_poll,
       devVars, flagVars
  <2> QED
    BY <2>1, SamePlaceStutter, Zenon DEF Keeps
<1>4. CASE callback_handler
  <2>1. CASE UNCHANGED <<flows, poisoned, chan, got, handler, rxOpen>>
    <3>1. UNCHANGED <<pc, cur, reqs>>
      BY <1>4, HandlerCases, Zenon
    <3> QED
      BY <2>1, <3>1, SamePlaceStutter, Zenon DEF Keeps, flagVars
  <2>2. CASE \E i \in 1..Len(flows) : Delivers(i) \/ Dies(i)
    BY <2>2
  <2> QED
    BY <1>4, <2>1, <2>2, HandlerCases, Zenon DEF Delivers, Dies, flagVars
<1> QED
  BY <1>2, <1>3, <1>4, SendtoKinds, Zenon DEF Next

-----------------------------------------------------------------------------
(* The flow list and the channels.                                         *)

\* No call has two flows.
OneFlow == \A i, j \in 1..Len(flows) : flows[i].id = flows[j].id => i = j

\* A flow is that of a request and carries its tag.
FlowTags ==
  \A i \in 1..Len(flows) :
    flows[i].id <= Len(reqs) /\ flows[i].tag = reqs[flows[i].id]

\* The calls, their channels and the ids in the flow list: what FlowAccounting
\* says, with what it rests on.  A channel exists once its request does; two
\* calls in progress are different requests; a call that has not pushed its
\* flow has its channel open and no flow.
CallInv ==
  /\ \A r \in ReqIds : chan[r] = "unused" <=> r > Len(reqs)
  /\ \A c, d \in Callers : Active(c) /\ Active(d) /\ cur[c] = cur[d] => c = d
  /\ \A c \in Callers : pc[c] = "track" => chan[cur[c]] = "open" /\ cur[c] \notin PendingIds
  /\ \A c \in Callers : Tracked(c) =>
       \/ chan[cur[c]] = "open" /\ cur[c] \in PendingIds
       \/ chan[cur[c]] = "sent" /\ cur[c] \notin PendingIds
  /\ \A r \in PendingIds :
       \/ chan[r] = "dropped"
       \/ \E c \in Callers : Tracked(c) /\ cur[c] = r

FlowInv == Typed /\ OneFlow /\ FlowTags /\ CallInv

\* The ids in the flow list are those of requests made.
LEMMA PendingType ==
  ASSUME FlowInv
  PROVE  /\ flows \in Seq(MctpFlow) /\ Len(flows) \in Nat
         /\ Len(reqs) \in Nat
         /\ \A i \in 1..Len(flows) : flows[i] \in MctpFlow /\ flows[i].id \in ReqIds
         /\ \A r \in PendingIds : r \in ReqIds /\ r <= Len(reqs)
<1>1. FlowType /\ CallType
  BY TypeParts, Zenon DEF FlowInv, Typed
<1>2. flows \in Seq(MctpFlow) /\ Len(flows) \in Nat /\ Len(reqs) \in Nat
  BY <1>1 DEF FlowType, CallType
<1>3. \A i \in 1..Len(flows) : flows[i] \in MctpFlow
  BY <1>2
<1>4. \A i \in 1..Len(flows) : flows[i].id \in ReqIds
  BY <1>3 DEF MctpFlow
<1>5. \A r \in PendingIds : r \in ReqIds /\ r <= Len(reqs)
  BY <1>4, Zenon DEF PendingIds, FlowInv, FlowTags
<1> QED
  BY <1>2, <1>3, <1>4, <1>5

\* An active call has a request; a call is active when it is about to push its
\* flow or has.
LEMMA ActiveCall ==
  ASSUME FlowInv, NEW c \in Callers
  PROVE  /\ Active(c) <=> pc[c] = "track" \/ Tracked(c)
         /\ Active(c) => cur[c] \in ReqIds /\ cur[c] <= Len(reqs) /\ reqs[cur[c]] \in MsgFlowTag
<1>1. Active(c) <=> pc[c] = "track" \/ Tracked(c)
  BY DEF Active, Tracked
<1> QED
  BY <1>1, CurType, Zenon DEF FlowInv, Typed

\* Pushing the flow of a call that has none.
LEMMA PushProps ==
  ASSUME FlowInv, NEW r \in ReqIds, r <= Len(reqs), reqs[r] \in MsgFlowTag, r \notin PendingIds,
         flows' = Append(flows, [tag |-> reqs[r], id |-> r]), UNCHANGED reqs
  PROVE  OneFlow' /\ FlowTags' /\ PendingIds' = PendingIds \cup {r}
<1> DEFINE f == [tag |-> reqs[r], id |-> r]
<1>1. f \in MctpFlow /\ f.id = r /\ f.tag = reqs[r]
  BY DEF MctpFlow
<1>2. flows' = Append(flows, f)
  BY Zenon
<1> HIDE DEF f
<1>3. /\ Len(flows) \in Nat /\ Len(flows') = Len(flows) + 1
      /\ \A j \in 1..Len(flows) : flows'[j] = flows[j]
      /\ flows'[Len(flows) + 1] = f
  BY <1>1, <1>2, PendingType, AppendProps
<1>4. \A j \in 1..Len(flows) : flows[j].id # r
  BY Zenon DEF PendingIds
<1>5. OneFlow'
  <2> SUFFICES ASSUME NEW i \in 1..Len(flows'), NEW j \in 1..Len(flows'),
                      flows'[i].id = flows'[j].id
               PROVE  i = j
    BY DEF OneFlow
  <2>1. CASE i \in 1..Len(flows) /\ j \in 1..Len(flows)
    BY <1>3, <2>1 DEF FlowInv, OneFlow
  <2>2. CASE i = Len(flows) + 1 \/ j = Len(flows) + 1
    BY <1>1, <1>3, <1>4, <2>2
  <2> QED
    BY <1>3, <2>1, <2>2
<1>6. FlowTags'
  <2> SUFFICES ASSUME NEW i \in 1..Len(flows')
               PROVE  flows'[i].id <= Len(reqs) /\ flows'[i].tag = reqs[flows'[i].id]
    BY DEF FlowTags
  <2>1. CASE i \in 1..Len(flows)
    BY <1>3, <2>1 DEF FlowInv, FlowTags
  <2>2. CASE i = Len(flows) + 1
    BY <1>1, <1>3, <2>2
  <2> QED
    BY <1>3, <2>1, <2>2
<1>7. PendingIds' = PendingIds \cup {r}
  <2>1. PendingIds' = {flows'[i].id : i \in 1..(Len(flows) + 1)}
    BY <1>3 DEF PendingIds
  <2>2. \A i \in 1..(Len(flows) + 1) : i \in 1..Len(flows) \/ i = Len(flows) + 1
    BY <1>3
  <2>3. \A i \in 1..Len(flows) : i \in 1..(Len(flows) + 1) /\ flows'[i].id = flows[i].id
    BY <1>3
  <2>4. Len(flows) + 1 \in 1..(Len(flows) + 1) /\ flows'[Len(flows) + 1].id = r
    BY <1>1, <1>3
  <2> QED
    BY <2>1, <2>2, <2>3, <2>4 DEF PendingIds
<1> QED
  BY <1>5, <1>6, <1>7

\* Removing the flow of one call.
LEMMA TakeProps ==
  ASSUME FlowInv, NEW i \in 1..Len(flows), flows' = RemoveAt(flows, i), UNCHANGED reqs
  PROVE  OneFlow' /\ FlowTags' /\ PendingIds' = PendingIds \ {flows[i].id}
<1>1. /\ Len(flows) \in Nat /\ Len(flows') = Len(flows) - 1
      /\ \A j \in 1..(Len(flows) - 1) :
           flows'[j] = IF j < i THEN flows[j] ELSE flows[j + 1]
  BY PendingType, RemoveAtProps
<1>2. \A j \in 1..Len(flows') : \E k \in 1..Len(flows) :
         k # i /\ flows'[j] = flows[k] /\ k = IF j < i THEN j ELSE j + 1
  <2> SUFFICES ASSUME NEW j \in 1..Len(flows')
               PROVE  \E k \in 1..Len(flows) :
                        k # i /\ flows'[j] = flows[k] /\ k = IF j < i THEN j ELSE j + 1
    OBVIOUS
  <2> DEFINE k == IF j < i THEN j ELSE j + 1
  <2>1. k \in 1..Len(flows) /\ k # i /\ flows'[j] = flows[k]
    BY <1>1
  <2> QED
    BY <2>1, Zenon
<1>3. \A k \in 1..Len(flows) : k # i =>
        \E j \in 1..Len(flows') : flows'[j] = flows[k]
  <2> SUFFICES ASSUME NEW k \in 1..Len(flows), k # i
               PROVE  \E j \in 1..Len(flows') : flows'[j] = flows[k]
    OBVIOUS
  <2> DEFINE j == IF k < i THEN k ELSE k - 1
  <2>1. j \in 1..Len(flows') /\ flows'[j] = flows[k]
    BY <1>1
  <2> QED
    BY <2>1, Zenon
<1>4. OneFlow'
  <2> SUFFICES ASSUME NEW x \in 1..Len(flows'), NEW y \in 1..Len(flows'),
                      flows'[x].id = flows'[y].id
               PROVE  x = y
    BY DEF OneFlow
  <2>1. PICK k \in 1..Len(flows) : flows'[x] = flows[k] /\ k = IF x < i THEN x ELSE x + 1
    BY <1>2
  <2>2. PICK m \in 1..Len(flows) : flows'[y] = flows[m] /\ m = IF y < i THEN y ELSE y + 1
    BY <1>2
  <2>3. k = m
    BY <2>1, <2>2, Zenon DEF FlowInv, OneFlow
  <2> QED
    BY <1>1, <2>1, <2>2, <2>3
<1>5. FlowTags'
  <2> SUFFICES ASSUME NEW j \in 1..Len(flows')
               PROVE  flows'[j].id <= Len(reqs) /\ flows'[j].tag = reqs[flows'[j].id]
    BY DEF FlowTags
  <2>1. PICK k \in 1..Len(flows) : flows'[j] = flows[k]
    BY <1>2
  <2> QED
    BY <2>1 DEF FlowInv, FlowTags
<1>6. ASSUME NEW r \in PendingIds'
      PROVE  r \in PendingIds /\ r # flows[i].id
  <2>1. PICK j \in 1..Len(flows') : r = flows'[j].id
    BY <1>6, Zenon DEF PendingIds
  <2>2. PICK k \in 1..Len(flows) : k # i /\ flows'[j] = flows[k]
    BY <1>2, <2>1
  <2>3. r = flows[k].id
    BY <2>1, <2>2
  <2> QED
    BY <2>2, <2>3, Zenon DEF PendingIds, FlowInv, OneFlow
<1>7. ASSUME NEW r \in PendingIds, r # flows[i].id
      PROVE  r \in PendingIds'
  <2>1. PICK k \in 1..Len(flows) : r = flows[k].id
    BY <1>7, Zenon DEF PendingIds
  <2>2. PICK j \in 1..Len(flows') : flows'[j] = flows[k]
    BY <1>3, <1>7, <2>1
  <2>3. r = flows'[j].id
    BY <2>1, <2>2
  <2> QED
    BY <2>3, Zenon DEF PendingIds
<1> QED
  BY <1>4, <1>5, <1>6, <1>7

\* A step that moves calls only between places that are alike.
LEMMA KeepsInv ==
  ASSUME FlowInv, Keeps
  PROVE  OneFlow' /\ FlowTags' /\ CallInv'
<1>1. OneFlow' /\ FlowTags' /\ PendingIds' = PendingIds
  BY Zenon DEF Keeps, FlowInv, OneFlow, FlowTags, PendingIds
<1>2. \A c \in Callers : /\ pc'[c] = "track" <=> pc[c] = "track"
                         /\ Tracked(c)' <=> Tracked(c)
                         /\ Active(c)' <=> Active(c)
                         /\ Active(c) => cur'[c] = cur[c]
  BY DEF Keeps, SamePlace, Active, Tracked
<1>3. \A c \in Callers : Tracked(c) \/ pc[c] = "track" => Active(c)
  BY DEF Active, Tracked
<1>4. CallInv
  BY Zenon DEF FlowInv
<1>5. chan' = chan /\ reqs' = reqs
  BY Zenon DEF Keeps
<1>6. /\ \A r \in ReqIds : chan'[r] = "unused" <=> r > Len(reqs')
      /\ \A c, d \in Callers : Active(c)' /\ Active(d)' /\ cur'[c] = cur'[d] => c = d
  BY <1>2, <1>4, <1>5 DEF CallInv
<1>7. \A c \in Callers : pc'[c] = "track" => chan'[cur'[c]] = "open" /\ cur'[c] \notin PendingIds'
  BY <1>1, <1>2, <1>3, <1>4, <1>5 DEF CallInv
<1>8. \A c \in Callers : Tracked(c)' =>
       \/ chan'[cur'[c]] = "open" /\ cur'[c] \in PendingIds'
       \/ chan'[cur'[c]] = "sent" /\ cur'[c] \notin PendingIds'
  BY <1>1, <1>2, <1>3, <1>4, <1>5 DEF CallInv
<1>9. \A r \in PendingIds' :
       \/ chan'[r] = "dropped"
       \/ \E c \in Callers : Tracked(c)' /\ cur'[c] = r
  BY <1>1, <1>2, <1>3, <1>4, <1>5 DEF CallInv
<1> QED
  BY <1>1, <1>6, <1>7, <1>8, <1>9, Zenon DEF CallInv

\* A new call has a new request: its channel was unused and no flow has its id.
LEMMA BuildsInv ==
  ASSUME FlowInv, NEW c \in Callers, Builds(c)
  PROVE  OneFlow' /\ FlowTags' /\ CallInv'
<1> DEFINE r == Len(reqs) + 1
<1>1. /\ Len(reqs) \in Nat /\ r \in ReqIds /\ Len(reqs') = r /\ cur'[c] = r
      /\ \A s \in 1..Len(reqs) : reqs'[s] = reqs[s]
      /\ chan' = [chan EXCEPT ![r] = "open"] /\ flows' = flows
      /\ chan \in [ReqIds -> {"unused", "open", "sent", "taken", "dropped"}]
  BY PendingType, TypeParts, Zenon DEF Builds, FlowInv, Typed, CallType
<1>2. r \notin PendingIds /\ \A s \in PendingIds : s \in ReqIds /\ s # r
  BY <1>1, PendingType
<1>3. PendingIds' = PendingIds /\ OneFlow'
  BY <1>1, Zenon DEF PendingIds, OneFlow, FlowInv
<1>4. FlowTags'
  <2> SUFFICES ASSUME NEW i \in 1..Len(flows)
               PROVE  flows[i].id <= Len(reqs') /\ flows[i].tag = reqs'[flows[i].id]
    BY <1>1 DEF FlowTags
  <2>1. flows[i].id \in 1..Len(reqs) /\ flows[i].tag = reqs[flows[i].id]
    BY PendingType, Ids DEF FlowInv, FlowTags
  <2> QED
    BY <1>1, <2>1
<1>5. pc[c] = "idle" /\ pc'[c] = "track" /\ \A d \in Callers \ {c} : SamePlace(d)
  BY Zenon DEF Builds
<1>6. \A d \in Callers \ {c} :
         /\ pc'[d] = "track" <=> pc[d] = "track"
         /\ Tracked(d)' <=> Tracked(d)
         /\ Active(d)' <=> Active(d)
         /\ Active(d) => cur'[d] = cur[d] /\ cur[d] \in ReqIds /\ cur[d] # r
  <2> SUFFICES ASSUME NEW d \in Callers \ {c}
               PROVE  /\ pc'[d] = "track" <=> pc[d] = "track"
                      /\ Tracked(d)' <=> Tracked(d)
                      /\ Active(d)' <=> Active(d)
                      /\ Active(d) => cur'[d] = cur[d] /\ cur[d] \in ReqIds /\ cur[d] # r
    OBVIOUS
  <2>1. SamePlace(d)
    BY <1>5
  <2>2. Active(d) => cur[d] \in ReqIds /\ cur[d] <= Len(reqs)
    BY ActiveCall
  <2>3. Active(d)' <=> pc'[d] = "track" \/ Tracked(d)'
    BY DEF Active, Tracked
  <2>4. Active(d) <=> pc[d] = "track" \/ Tracked(d)
    BY DEF Active, Tracked
  <2> QED
    BY <1>1, <2>1, <2>2, <2>3, <2>4, Ids DEF SamePlace
<1>7. ~Tracked(c) /\ ~Active(c) /\ ~Tracked(c)' /\ Active(c)'
  BY <1>5 DEF Tracked, Active
<1> HIDE DEF r
<1>8. CallInv
  BY Zenon DEF FlowInv
<1>9. chan'[r] = "open" /\ \A s \in ReqIds : s # r => chan'[s] = chan[s]
  BY <1>1
<1>10. \A s \in ReqIds : chan'[s] = "unused" <=> s > Len(reqs')
  <2> SUFFICES ASSUME NEW s \in ReqIds PROVE chan'[s] = "unused" <=> s > Len(reqs')
    OBVIOUS
  <2>1. CASE s = r
    BY <1>1, <1>9, <2>1, Ids
  <2>2. CASE s # r
    <3>1. s > Len(reqs) <=> s > r
      BY <1>1, <2>2, Ids DEF r
    <3> QED
      BY <1>1, <1>8, <1>9, <2>2, <3>1 DEF CallInv
  <2> QED
    BY <2>1, <2>2
<1>11. \A d, e \in Callers : Active(d)' /\ Active(e)' /\ cur'[d] = cur'[e] => d = e
  BY <1>1, <1>6, <1>8 DEF CallInv
<1>12. \A d \in Callers : pc'[d] = "track" => chan'[cur'[d]] = "open" /\ cur'[d] \notin PendingIds'
  <2> SUFFICES ASSUME NEW d \in Callers, pc'[d] = "track"
               PROVE  chan'[cur'[d]] = "open" /\ cur'[d] \notin PendingIds'
    OBVIOUS
  <2>1. CASE d = c
    BY <1>1, <1>2, <1>3, <1>9, <2>1
  <2>2. CASE d # c
    <3>1. pc[d] = "track" /\ Active(d)
      BY <1>6, <2>2 DEF Active
    <3> QED
      BY <1>3, <1>6, <1>8, <1>9, <2>2, <3>1 DEF CallInv
  <2> QED
    BY <2>1, <2>2
<1>13. \A d \in Callers : Tracked(d)' =>
       \/ chan'[cur'[d]] = "open" /\ cur'[d] \in PendingIds'
       \/ chan'[cur'[d]] = "sent" /\ cur'[d] \notin PendingIds'
  <2> SUFFICES ASSUME NEW d \in Callers, Tracked(d)'
               PROVE  \/ chan'[cur'[d]] = "open" /\ cur'[d] \in PendingIds'
                      \/ chan'[cur'[d]] = "sent" /\ cur'[d] \notin PendingIds'
    OBVIOUS
  <2>1. d # c
    BY <1>7
  <2>2. Tracked(d) /\ Active(d)
    BY <1>6, <2>1 DEF Active, Tracked
  <2> QED
    BY <1>3, <1>6, <1>8, <1>9, <2>1, <2>2 DEF CallInv
<1>14. \A s \in PendingIds' :
       \/ chan'[s] = "dropped"
       \/ \E d \in Callers : Tracked(d)' /\ cur'[d] = s
  <2> SUFFICES ASSUME NEW s \in PendingIds, chan'[s] # "dropped"
               PROVE  \E d \in Callers : Tracked(d)' /\ cur'[d] = s
    BY <1>3
  <2>1. PICK d \in Callers : Tracked(d) /\ cur[d] = s
    BY <1>2, <1>8, <1>9 DEF CallInv
  <2>2. d # c /\ Active(d)
    BY <1>7, <2>1 DEF Active, Tracked
  <2> QED
    BY <1>6, <2>1, <2>2
<1> QED
  BY <1>3, <1>4, <1>10, <1>11, <1>12, <1>13, <1>14, Zenon DEF CallInv

\* A call pushes its flow.
LEMMA TracksInv ==
  ASSUME FlowInv, NEW c \in Callers, Tracks(c)
  PROVE  OneFlow' /\ FlowTags' /\ CallInv'
<1>1. /\ pc[c] = "track" /\ pc'[c] = "lock" /\ cur'[c] = cur[c]
      /\ flows' = Append(flows, [tag |-> reqs[cur[c]], id |-> cur[c]])
      /\ reqs' = reqs /\ chan' = chan
      /\ \A d \in Callers \ {c} : SamePlace(d)
  BY Zenon DEF Tracks
<1>2. /\ cur[c] \in ReqIds /\ cur[c] <= Len(reqs) /\ reqs[cur[c]] \in MsgFlowTag
      /\ chan[cur[c]] = "open" /\ cur[c] \notin PendingIds
      /\ Active(c) /\ Active(c)' /\ Tracked(c)' /\ pc'[c] # "track"
  <2>1. Active(c) /\ Active(c)' /\ Tracked(c)' /\ pc'[c] # "track"
    BY <1>1 DEF Active, Tracked
  <2> QED
    BY <1>1, <2>1, ActiveCall, Zenon DEF FlowInv, CallInv
<1>3. OneFlow' /\ FlowTags' /\ PendingIds' = PendingIds \cup {cur[c]}
  BY <1>1, <1>2, PushProps
<1>4. CallInv
  BY Zenon DEF FlowInv
<1>5. \A d \in Callers \ {c} :
         /\ pc'[d] = "track" <=> pc[d] = "track"
         /\ Tracked(d)' <=> Tracked(d)
         /\ Active(d)' <=> Active(d)
         /\ pc[d] = "track" \/ Tracked(d) => Active(d)
         /\ Active(d) => cur'[d] = cur[d] /\ cur[d] # cur[c]
  <2> SUFFICES ASSUME NEW d \in Callers \ {c}
               PROVE  /\ pc'[d] = "track" <=> pc[d] = "track"
                      /\ Tracked(d)' <=> Tracked(d)
                      /\ Active(d)' <=> Active(d)
                      /\ pc[d] = "track" \/ Tracked(d) => Active(d)
                      /\ Active(d) => cur'[d] = cur[d] /\ cur[d] # cur[c]
    OBVIOUS
  <2>1. SamePlace(d)
    BY <1>1
  <2>2. Active(d)' <=> pc'[d] = "track" \/ Tracked(d)'
    BY DEF Active, Tracked
  <2>3. Active(d) <=> pc[d] = "track" \/ Tracked(d)
    BY DEF Active, Tracked
  <2>4. Active(d) => cur[d] # cur[c]
    BY <1>2, <1>4 DEF CallInv
  <2> QED
    BY <2>1, <2>2, <2>3, <2>4 DEF SamePlace
<1>6. /\ \A r \in ReqIds : chan'[r] = "unused" <=> r > Len(reqs')
      /\ \A d, e \in Callers : Active(d)' /\ Active(e)' /\ cur'[d] = cur'[e] => d = e
  BY <1>1, <1>2, <1>4, <1>5 DEF CallInv
<1>7. \A d \in Callers : pc'[d] = "track" => chan'[cur'[d]] = "open" /\ cur'[d] \notin PendingIds'
  BY <1>1, <1>2, <1>3, <1>4, <1>5 DEF CallInv
<1>8. \A d \in Callers : Tracked(d)' =>
       \/ chan'[cur'[d]] = "open" /\ cur'[d] \in PendingIds'
       \/ chan'[cur'[d]] = "sent" /\ cur'[d] \notin PendingIds'
  BY <1>1, <1>2, <1>3, <1>4, <1>5 DEF CallInv
<1>9. \A r \in PendingIds' :
       \/ chan'[r] = "dropped"
       \/ \E d \in Callers : Tracked(d)' /\ cur'[d] = r
  <2> SUFFICES ASSUME NEW r \in PendingIds', chan'[r] # "dropped"
               PROVE  \E d \in Callers : Tracked(d)' /\ cur'[d] = r
    OBVIOUS
  <2>1. CASE r = cur[c]
    BY <1>1, <1>2, <2>1
  <2>2. CASE r # cur[c]
    <3>1. PICK d \in Callers : Tracked(d) /\ cur[d] = r
      BY <1>1, <1>3, <1>4, <2>2 DEF CallInv
    <3> QED
      BY <1>5, <2>2, <3>1
  <2> QED
    BY <2>1, <2>2
<1> QED
  BY <1>3, <1>6, <1>7, <1>8, <1>9, Zenon DEF CallInv

\* A call ends: it returns with its answer, gives up, or panics.  Its flow, if
\* it is still in the list, is now that of an abandoned call.
LEMMA LeavesInv ==
  ASSUME FlowInv, NEW c \in Callers, NEW st \in {"taken", "dropped"}, Leaves(c, st)
  PROVE  /\ OneFlow' /\ FlowTags' /\ CallInv'
         /\ cur[c] \in ReqIds /\ chan[cur[c]] \in {"open", "sent"}
<1>1. /\ Active(c) /\ ~Active(c)'
      /\ st = "taken" => pc[c] = "await" /\ chan[cur[c]] = "sent"
      /\ chan' = [chan EXCEPT ![cur[c]] = st]
      /\ flows' = flows /\ reqs' = reqs
      /\ \A d \in Callers \ {c} : SamePlace(d)
  BY Zenon DEF Leaves
<1>2. cur[c] \in ReqIds /\ cur[c] <= Len(reqs) /\ Len(reqs) \in Nat
  BY <1>1, ActiveCall, PendingType
<1>3. CallInv /\ chan \in [ReqIds -> {"unused", "open", "sent", "taken", "dropped"}]
  BY TypeParts, Zenon DEF FlowInv, Typed, CallType
<1>4. PendingIds' = PendingIds /\ OneFlow' /\ FlowTags'
  BY <1>1, Zenon DEF PendingIds, OneFlow, FlowTags, FlowInv
<1>5. chan'[cur[c]] = st /\ \A r \in ReqIds : r # cur[c] => chan'[r] = chan[r]
  BY <1>1, <1>2, <1>3
<1>6. ~Tracked(c)' /\ pc'[c] # "track"
  BY <1>1 DEF Active, Tracked
<1>7. ASSUME NEW d \in Callers, Active(d)'
      PROVE  /\ d # c /\ Active(d) /\ cur'[d] = cur[d] /\ cur[d] # cur[c] /\ cur[d] \in ReqIds
             /\ pc'[d] = "track" <=> pc[d] = "track"
             /\ Tracked(d)' <=> Tracked(d)
  <2>1. d # c
    BY <1>1, <1>7
  <2>2. SamePlace(d)
    BY <1>1, <2>1
  <2>3. Active(d)' <=> pc'[d] = "track" \/ Tracked(d)'
    BY DEF Active, Tracked
  <2>4. Active(d) <=> pc[d] = "track" \/ Tracked(d)
    BY DEF Active, Tracked
  <2>5. Active(d)
    BY <1>7, <2>2, <2>3, <2>4 DEF SamePlace
  <2>6. cur[d] # cur[c] /\ cur[d] \in ReqIds
    BY <1>1, <1>3, <2>1, <2>5, ActiveCall DEF CallInv
  <2> QED
    BY <2>1, <2>2, <2>5, <2>6 DEF SamePlace
<1>8. \A d \in Callers : pc'[d] = "track" \/ Tracked(d)' => Active(d)'
  BY DEF Active, Tracked
<1>9. \A d \in Callers : Tracked(d) /\ d # c => Tracked(d)' /\ cur'[d] = cur[d]
  BY <1>1 DEF SamePlace, Active, Tracked
<1>a. chan[cur[c]] \in {"open", "sent"}
  <2>1. pc[c] = "track" \/ Tracked(c)
    BY <1>1 DEF Active, Tracked
  <2> QED
    BY <1>3, <2>1 DEF CallInv
<1>b. \A r \in ReqIds : chan'[r] = "unused" <=> r > Len(reqs')
  <2> SUFFICES ASSUME NEW r \in ReqIds PROVE chan'[r] = "unused" <=> r > Len(reqs)
    BY <1>1
  <2>1. CASE r = cur[c]
    BY <1>2, <1>5, <2>1, Ids
  <2>2. CASE r # cur[c]
    BY <1>3, <1>5, <2>2 DEF CallInv
  <2> QED
    BY <2>1, <2>2
<1>c. \A d, e \in Callers : Active(d)' /\ Active(e)' /\ cur'[d] = cur'[e] => d = e
  BY <1>3, <1>7 DEF CallInv
<1>d. \A d \in Callers : pc'[d] = "track" => chan'[cur'[d]] = "open" /\ cur'[d] \notin PendingIds'
  BY <1>3, <1>4, <1>5, <1>7, <1>8 DEF CallInv
<1>e. \A d \in Callers : Tracked(d)' =>
       \/ chan'[cur'[d]] = "open" /\ cur'[d] \in PendingIds'
       \/ chan'[cur'[d]] = "sent" /\ cur'[d] \notin PendingIds'
  BY <1>3, <1>4, <1>5, <1>7, <1>8 DEF CallInv
<1>f. \A r \in PendingIds' :
       \/ chan'[r] = "dropped"
       \/ \E d \in Callers : Tracked(d)' /\ cur'[d] = r
  <2> SUFFICES ASSUME NEW r \in PendingIds, chan'[r] # "dropped"
               PROVE  \E d \in Callers : Tracked(d)' /\ cur'[d] = r
    BY <1>4
  <2>0. r \in ReqIds
    BY PendingType
  <2>1. r # cur[c]
    <3>1. SUFFICES ASSUME r = cur[c] PROVE FALSE
      OBVIOUS
    <3>2. st = "taken"
      BY <1>5, <3>1
    <3>3. Tracked(c) /\ chan[cur[c]] = "sent"
      BY <1>1, <3>2 DEF Tracked
    <3> QED
      BY <1>3, <3>1, <3>3 DEF CallInv
  <2>2. PICK d \in Callers : Tracked(d) /\ cur[d] = r
    BY <1>3, <1>5, <2>0, <2>1 DEF CallInv
  <2> QED
    BY <1>9, <2>1, <2>2
<1> QED
  BY <1>2, <1>4, <1>a, <1>b, <1>c, <1>d, <1>e, <1>f, Zenon DEF CallInv

\* The handler takes the flow of a call: a call in progress, which it answers,
\* or an abandoned one, which kills it.
LEMMA TakesInv ==
  ASSUME FlowInv, NEW i \in 1..Len(flows), Delivers(i) \/ Dies(i)
  PROVE  /\ OneFlow' /\ FlowTags' /\ CallInv'
         /\ Dies(i) => chan[flows[i].id] = "dropped"
<1> DEFINE r == flows[i].id
<1>1. /\ flows' = RemoveAt(flows, i) /\ pc' = pc /\ cur' = cur /\ reqs' = reqs
      /\ \/ chan[r] = "open" /\ chan' = [chan EXCEPT ![r] = "sent"]
         \/ chan[r] # "open" /\ chan' = chan
      /\ Dies(i) => chan[r] # "open"
  BY Zenon DEF Delivers, Dies
<1>2. CallInv /\ chan \in [ReqIds -> {"unused", "open", "sent", "taken", "dropped"}]
  BY TypeParts, Zenon DEF FlowInv, Typed, CallType
<1>3. r \in ReqIds /\ r \in PendingIds /\ r <= Len(reqs) /\ Len(reqs) \in Nat
  BY PendingType DEF PendingIds
<1>4. OneFlow' /\ FlowTags' /\ PendingIds' = PendingIds \ {r}
  BY <1>1, TakeProps
<1> HIDE DEF r
<1>5. chan[r] = "open" \/ chan[r] = "dropped"
  BY <1>2, <1>3 DEF CallInv
<1>6. \A s \in ReqIds : s # r => chan'[s] = chan[s]
  BY <1>1, <1>2, <1>3
<1>7. chan[r] = "open" => chan'[r] = "sent"
  BY <1>1, <1>2, <1>3
<1>8. chan[r] = "dropped" => chan'[r] = "dropped"
  BY <1>1
<1>9. \A c \in Callers : /\ pc'[c] = pc[c] /\ (Tracked(c)' <=> Tracked(c))
                         /\ (Active(c)' <=> Active(c)) /\ cur'[c] = cur[c]
                         /\ (Active(c) => cur[c] \in ReqIds)
                         /\ pc[c] = "track" \/ Tracked(c) => Active(c)
  <2>1. \A c \in Callers : /\ pc'[c] = pc[c] /\ (Tracked(c)' <=> Tracked(c))
                         /\ (Active(c)' <=> Active(c)) /\ cur'[c] = cur[c]
    BY <1>1, Zenon DEF Tracked, Active
  <2> QED
    BY <2>1, ActiveCall
<1>a. \A s \in ReqIds : chan'[s] = "unused" <=> s > Len(reqs')
  <2> SUFFICES ASSUME NEW s \in ReqIds PROVE chan'[s] = "unused" <=> s > Len(reqs)
    BY <1>1
  <2>1. CASE s = r
    BY <1>3, <1>5, <1>7, <1>8, <2>1, Ids
  <2>2. CASE s # r
    BY <1>2, <1>6, <2>2 DEF CallInv
  <2> QED
    BY <2>1, <2>2
<1>b. \A d, e \in Callers : Active(d)' /\ Active(e)' /\ cur'[d] = cur'[e] => d = e
  BY <1>2, <1>9 DEF CallInv
<1>c. \A d \in Callers : pc'[d] = "track" => chan'[cur'[d]] = "open" /\ cur'[d] \notin PendingIds'
  BY <1>2, <1>3, <1>4, <1>6, <1>9 DEF CallInv
<1>d. \A d \in Callers : Tracked(d)' =>
       \/ chan'[cur'[d]] = "open" /\ cur'[d] \in PendingIds'
       \/ chan'[cur'[d]] = "sent" /\ cur'[d] \notin PendingIds'
  <2> SUFFICES ASSUME NEW d \in Callers, Tracked(d)
               PROVE  \/ chan'[cur[d]] = "open" /\ cur[d] \in PendingIds'
                      \/ chan'[cur[d]] = "sent" /\ cur[d] \notin PendingIds'
    BY <1>9
  <2>1. \/ chan[cur[d]] = "open" /\ cur[d] \in PendingIds
        \/ chan[cur[d]] = "sent" /\ cur[d] \notin PendingIds
    BY <1>2 DEF CallInv
  <2>2. cur[d] \in ReqIds
    BY <1>9
  <2>3. CASE cur[d] = r
    BY <1>3, <1>4, <1>7, <2>1, <2>3
  <2>4. CASE cur[d] # r
    BY <1>4, <1>6, <2>1, <2>2, <2>4
  <2> QED
    BY <2>3, <2>4
<1>e. \A s \in PendingIds' :
       \/ chan'[s] = "dropped"
       \/ \E d \in Callers : Tracked(d)' /\ cur'[d] = s
  <2> SUFFICES ASSUME NEW s \in PendingIds, s # r, chan'[s] # "dropped"
               PROVE  \E d \in Callers : Tracked(d)' /\ cur'[d] = s
    BY <1>4
  <2>1. s \in ReqIds
    BY PendingType
  <2>2. chan[s] # "dropped"
    BY <1>6, <2>1
  <2>3. PICK d \in Callers : Tracked(d) /\ cur[d] = s
    BY <1>2, <2>2 DEF CallInv
  <2> QED
    BY <1>9, <2>3
<1> QED
  BY <1>1, <1>4, <1>5, <1>a, <1>b, <1>c, <1>d, <1>e, Zenon DEF CallInv, r

\* Every step keeps the accounts.
LEMMA StepFlow ==
  ASSUME FlowInv, [Next]_vars
  PROVE  FlowInv'
<1>1. Typed
  BY Zenon DEF FlowInv
<1>2. Typed'
  BY <1>1, StepTyped, Zenon
<1>3. OneFlow' /\ FlowTags' /\ CallInv'
  BY <1>1, StepKinds, KeepsInv, BuildsInv, TracksInv, LeavesInv, TakesInv, Zenon
<1> QED
  BY <1>2, <1>3, Zenon DEF FlowInv

\* The accounts hold in every reachable state.
LEMMA FlowAlways == Spec => []FlowInv
<1>1. Init => FlowInv
  <2> SUFFICES ASSUME Init PROVE FlowInv
    OBVIOUS
  <2>1. Typed
    BY InitTyped, Zenon
  <2>2. /\ flows = <<>> /\ reqs = <<>> /\ chan = [r \in ReqIds |-> "unused"]
        /\ \A c \in Callers : pc[c] = "idle"
    BY DEF Init
  <2>3. OneFlow /\ FlowTags /\ PendingIds = {}
    BY <2>2 DEF OneFlow, FlowTags, PendingIds
  <2>4. CallInv
    BY <2>2, <2>3, Ids DEF CallInv, Active, Tracked
  <2> QED
    BY <2>1, <2>3, <2>4, Zenon DEF FlowInv
<1>2. FlowInv /\ [Next]_vars => FlowInv'
  BY StepFlow
<1> QED
  BY <1>1, <1>2, PTL DEF Spec

\* Flow list and oneshot channels agree (simple_network.rs:168-170, 271), for
\* any number of calls in any interleaving: a call in progress has either one
\* flow and an open channel or its answer and no flow, and a flow without a
\* call is that of an abandoned one.
THEOREM FlowsAccountedFor == Spec => []FlowAccounting
<1>1. FlowInv => FlowAccounting
  BY Zenon DEF FlowInv, OneFlow, CallInv, FlowAccounting
<1> QED
  BY <1>1, FlowAlways, PTL

-----------------------------------------------------------------------------
(* The life of the handler and of an answer.                               *)

\* What was abandoned stays abandoned.
LEMMA DroppedStays ==
  ASSUME FlowInv, [Next]_vars, NEW r \in ReqIds, chan[r] = "dropped"
  PROVE  chan'[r] = "dropped"
<1>1. Typed /\ CallInv /\ chan \in [ReqIds -> {"unused", "open", "sent", "taken", "dropped"}]
  BY TypeParts, Zenon DEF FlowInv, Typed, CallType
<1>2. CASE Keeps
  BY <1>2, Zenon DEF Keeps
<1>3. ASSUME NEW c \in Callers, Builds(c)
      PROVE  chan'[r] = "dropped"
  <2>1. /\ Len(reqs) + 1 \in ReqIds /\ Len(reqs) \in Nat
        /\ chan' = [chan EXCEPT ![Len(reqs) + 1] = "open"]
    BY <1>3, PendingType, Zenon DEF Builds
  <2>2. chan[Len(reqs) + 1] = "unused"
    BY <1>1, <2>1 DEF CallInv
  <2> QED
    BY <1>1, <2>1, <2>2
<1>4. ASSUME NEW c \in Callers, Tracks(c)
      PROVE  chan'[r] = "dropped"
  BY <1>4, Zenon DEF Tracks
<1>5. ASSUME NEW c \in Callers, NEW st \in {"taken", "dropped"}, Leaves(c, st)
      PROVE  chan'[r] = "dropped"
  <2>1. cur[c] \in ReqIds /\ chan[cur[c]] \in {"open", "sent"}
    BY <1>5, LeavesInv, Zenon
  <2> QED
    BY <1>1, <1>5, <2>1 DEF Leaves
<1>6. ASSUME NEW i \in 1..Len(flows), Delivers(i)
      PROVE  chan'[r] = "dropped"
  <2>1. chan[flows[i].id] = "open" /\ chan' = [chan EXCEPT ![flows[i].id] = "sent"]
    BY <1>6, Zenon DEF Delivers
  <2> QED
    BY <1>1, <2>1
<1>7. ASSUME NEW i \in 1..Len(flows), Dies(i)
      PROVE  chan'[r] = "dropped"
  BY <1>7, Zenon DEF Dies
<1> QED
  BY <1>1, <1>2, <1>3, <1>4, <1>5, <1>6, <1>7, StepKinds, Zenon

\* The handler dies only by the unwrap of a send into an abandoned call.
LEMMA StepFlags ==
  ASSUME FlowInv, HandlerPanicNeedsAbandon, [Next]_vars
  PROVE  HandlerPanicNeedsAbandon'
<1>1. Typed
  BY Zenon DEF FlowInv
<1>2. CASE UNCHANGED flagVars
  <2>1. handler' = "panicked" => \E r \in ReqIds : chan'[r] = "dropped"
    BY <1>2, DroppedStays, Zenon DEF HandlerPanicNeedsAbandon, flagVars
  <2> QED
    BY <1>2, <2>1, Zenon DEF HandlerPanicNeedsAbandon, flagVars
<1>3. ASSUME NEW i \in 1..Len(flows), Dies(i)
      PROVE  HandlerPanicNeedsAbandon'
  <2>1. flows[i].id \in ReqIds /\ chan[flows[i].id] = "dropped"
    BY <1>3, PendingType, TakesInv, Zenon
  <2>2. chan'[flows[i].id] = "dropped"
    BY <2>1, DroppedStays, Zenon
  <2>3. handler' = "panicked" /\ handler' # "running"
    BY <1>3 DEF Dies
  <2>4. poisoned' = TRUE /\ rxOpen' = FALSE
    BY <1>3, Zenon DEF Dies
  <2> QED
    BY <2>1, <2>2, <2>3, <2>4, Zenon DEF HandlerPanicNeedsAbandon
<1> QED
  BY <1>1, <1>2, <1>3, StepKinds, Zenon
     DEF Keeps, Builds, Tracks, Leaves, Delivers

\* The unwrap of simple_network.rs:170 fails only after a call was abandoned,
\* and the flows mutex is poisoned exactly when the handler is dead: with no
\* timeout or panic in a sendto, no datagram of the peer, however malformed,
\* duplicated or late, stops the handler.
THEOREM HandlerDiesOnlyOfAbandon == Spec => []HandlerPanicNeedsAbandon
<1>1. Init => HandlerPanicNeedsAbandon
  BY Zenon DEF Init, DevInit, HandlerPanicNeedsAbandon
<1>2. FlowInv /\ HandlerPanicNeedsAbandon /\ [Next]_vars => HandlerPanicNeedsAbandon'
  BY StepFlags
<1> QED
  BY <1>1, <1>2, FlowAlways, PTL DEF Spec
=============================================================================
