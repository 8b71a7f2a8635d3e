--------------------- MODULE SimpleNetworkServiceProofs ---------------------
(***************************************************************************)
(* Proofs about the answers SimpleNetwork gives its callers: they keep     *)
(* their key, no request's answers are given out more than twice, the      *)
(* network implements the service of RequestReply, and nothing a pending   *)
(* call waits for is dropped on its way to it.                             *)
(***************************************************************************)
EXTENDS SimpleNetworkFlowProofs

-----------------------------------------------------------------------------
(* The datagrams under way.                                                *)

\* An answer carries the response header of a request that was made.
GoodFrame ==
  {f \in Frame : f.ans # 0 => /\ f.len = "full" /\ f.ans <= Len(reqs)
                              /\ f.tag = create_response(reqs[f.ans])}
SolidFrame == {f \in GoodFrame : f.len # "empty"}

\* This holds wherever datagrams are, and no empty one gets past poll_socket.
FrameInv ==
  /\ sock \in Seq(GoodFrame)
  /\ rxq \in Seq(SolidFrame)
  /\ \A p \in Pollers : pollBuf[p] \in GoodFrame
  /\ \A p \in Pollers : poll[p] = "send" => pollBuf[p] \in SolidFrame

\* A sequence of elements of a set is one of elements of a larger set.
LEMMA SeqWiden ==
  ASSUME NEW S, NEW T, S \subseteq T, NEW s \in Seq(S)
  PROVE  s \in Seq(T)
OBVIOUS

\* No frame is a good frame that is not solid.
LEMMA NoFrameGood == NoFrame \in GoodFrame /\ NoFrame \notin SolidFrame
<1>1. NoFrame.ans = 0 /\ NoFrame.len = "empty"
  BY DEF NoFrame
<1> QED
  BY <1>1, NoFrameType DEF GoodFrame, SolidFrame

\* The steps of a sendto leave the receiving side alone and only add requests.
LEMMA SendtoRx ==
  ASSUME Typed, NEW c \in Callers, sendto(c)
  PROVE  /\ UNCHANGED <<poll, pollBuf, sock, rxq>>
         /\ reqs' = reqs \/ Builds(c)
<1>1. transmit_as_owner(c, waiters) => UNCHANGED <<poll, pollBuf, sock, rxq>>
  BY TransmitCases, Zenon
<1>2. UNCHANGED <<poll, pollBuf, sock, rxq>>
  BY <1>1, Zenon DEF sendto, sendto_refuse, sendto_build, sendto_track, sendto_lock,
     sendto_transmit, sendto_return, sendto_cancel, devVars
<1> QED
  BY <1>2, SendtoKinds, Zenon DEF Keeps, Tracks, Leaves

\* A frame that is good stays good when a request is added.
LEMMA GoodGrows ==
  ASSUME Typed, reqs' = reqs \/ \E c \in Callers : Builds(c)
  PROVE  GoodFrame \subseteq GoodFrame' /\ SolidFrame \subseteq SolidFrame'
<1>1. CASE reqs' = reqs
  BY <1>1, Zenon DEF GoodFrame, SolidFrame
<1>2. ASSUME NEW c \in Callers, Builds(c)
      PROVE  GoodFrame \subseteq GoodFrame' /\ SolidFrame \subseteq SolidFrame'
  <2>1. /\ Len(reqs) \in Nat /\ Len(reqs') = Len(reqs) + 1
        /\ \A r \in 1..Len(reqs) : reqs'[r] = reqs[r]
    BY <1>2, TypeParts DEF Builds, Typed, CallType
  <2>2. ASSUME NEW f \in GoodFrame
        PROVE  f \in GoodFrame'
    <3>1. f \in Frame /\ f.ans \in ReqIds \cup {0}
      BY <2>2 DEF GoodFrame, Frame
    <3>2. CASE f.ans = 0
      BY <3>1, <3>2 DEF GoodFrame
    <3>3. CASE f.ans # 0
      <4>1. /\ f.len = "full" /\ f.ans \in 1..Len(reqs)
            /\ f.tag = create_response(reqs[f.ans])
        BY <2>1, <2>2, <3>1, <3>3, Ids DEF GoodFrame
      <4>2. f.ans <= Len(reqs') /\ reqs'[f.ans] = reqs[f.ans]
        BY <2>1, <4>1
      <4> QED
        BY <3>1, <4>1, <4>2 DEF GoodFrame
    <3> QED
      BY <3>2, <3>3
  <2> QED
    BY <2>2, Zenon DEF SolidFrame
<1> QED
  BY <1>1, <1>2

\* Every step keeps the datagrams good.
LEMMA StepFrames ==
  ASSUME Typed, FrameInv, [Next]_vars
  PROVE  FrameInv'
<1>1. RxType
  BY TypeParts, Zenon DEF Typed
<1>2. ASSUME UNCHANGED <<pollBuf, sock, rxq>>,
             \A p \in Pollers : poll'[p] = "send" => poll[p] = "send",
             reqs' = reqs \/ \E c \in Callers : Builds(c)
      PROVE  FrameInv'
  <2>1. GoodFrame \subseteq GoodFrame' /\ SolidFrame \subseteq SolidFrame'
    BY <1>2, GoodGrows, Zenon
  <2>2. sock' \in Seq(GoodFrame') /\ rxq' \in Seq(SolidFrame')
    BY <1>2, <2>1, SeqWiden, Zenon DEF FrameInv
  <2> QED
    BY <1>2, <2>1, <2>2, Zenon DEF FrameInv
<1>3. ASSUME UNCHANGED reqs
      PROVE  GoodFrame' = GoodFrame /\ SolidFrame' = SolidFrame
  BY <1>3, Zenon DEF GoodFrame, SolidFrame
<1>4. ASSUME NEW c \in Callers, sendto(c)
      PROVE  FrameInv'
  BY <1>2, <1>4, SendtoRx, Zenon
<1>5. ASSUME NEW p \in Pollers, Attach(p)
      PROVE  FrameInv'
  <2>1. /\ UNCHANGED <<pollBuf, sock, rxq>> /\ UNCHANGED reqs
        /\ poll' = poll \/ poll' = [poll EXCEPT ![p] = "recv"]
    BY <1>5, Zenon DEF Attach, add_physical_binding, add_physical_binding_queue, spawn_poll, devVars
  <2>2. \A q \in Pollers : poll'[q] = "send" => poll[q] = "send"
    BY <1>1, <2>1 DEF RxType
  <2> QED
    BY <1>2, <2>1, <2>2, Zenon
<1>6. ASSUME NEW p \in Pollers, PollTask(p)
      PROVE  FrameInv'
  <2>1. GoodFrame' = GoodFrame /\ SolidFrame' = SolidFrame
    BY <1>3, <1>6, PollCases, Zenon DEF netVars
  <2>2. CASE /\ sock # <<>> /\ sock' = Tail(sock) /\ UNCHANGED rxq
             /\ \/ Head(sock).len = "empty" /\ UNCHANGED <<poll, pollBuf>>
                \/ /\ Head(sock).len # "empty"
                   /\ poll' = [poll EXCEPT ![p] = "send"]
                   /\ pollBuf' = [pollBuf EXCEPT ![p] = Head(sock)]
    <3>1. Head(sock) \in GoodFrame /\ Tail(sock) \in Seq(GoodFrame)
      BY <2>2, TailProps DEF FrameInv
    <3>2. Head(sock).len # "empty" => Head(sock) \in SolidFrame
      BY <3>1, Zenon DEF SolidFrame
    <3>3. ASSUME NEW q \in Pollers
          PROVE  /\ pollBuf'[q] \in GoodFrame
                 /\ poll'[q] = "send" => pollBuf'[q] \in SolidFrame
      <4>1. CASE UNCHANGED <<poll, pollBuf>>
        BY <4>1, Zenon DEF FrameInv
      <4>2. CASE /\ Head(sock).len # "empty"
                 /\ poll' = [poll EXCEPT ![p] = "send"]
                 /\ pollBuf' = [pollBuf EXCEPT ![p] = Head(sock)]
        BY <1>1, <3>1, <3>2, <4>2 DEF FrameInv, RxType
      <4> QED
        BY <2>2, <4>1, <4>2, Zenon
    <3> QED
      BY <2>1, <2>2, <3>1, <3>3, Zenon DEF FrameInv
  <2>3. CASE /\ poll[p] = "send" /\ UNCHANGED sock
             /\ \/ Len(rxq) < RxCap /\ rxq' = Append(rxq, pollBuf[p])
                \/ UNCHANGED rxq
             /\ poll' = [poll EXCEPT ![p] = "recv"]
             /\ pollBuf' = [pollBuf EXCEPT ![p] = NoFrame]
    <3>1. pollBuf[p] \in SolidFrame /\ rxq \in Seq(SolidFrame)
      BY <2>3, Zenon DEF FrameInv
    <3>2. rxq' \in Seq(SolidFrame)
      BY <2>3, <3>1, AppendProps, Zenon
    <3>3. \A q \in Pollers : /\ pollBuf'[q] \in GoodFrame
                             /\ poll'[q] = "send" => pollBuf'[q] \in SolidFrame
      BY <1>1, <2>3, NoFrameGood DEF FrameInv, RxType
    <3> QED
      BY <2>1, <2>3, <3>2, <3>3, Zenon DEF FrameInv
  <2>4. CASE poll' = [poll EXCEPT ![p] = "panicked"] /\ UNCHANGED <<pollBuf, sock, rxq>>
    <3>1. \A q \in Pollers : poll'[q] = "send" => poll[q] = "send"
      BY <1>1, <2>4 DEF RxType
    <3> QED
      BY <2>1, <2>4, <3>1, Zenon DEF FrameInv
  <2> QED
    BY <1>6, <2>2, <2>3, <2>4, PollCases, Zenon
<1>7. CASE callback_handler
  <2>1. /\ rxq # <<>> /\ UNCHANGED <<poll, pollBuf, sock>> /\ UNCHANGED reqs
        /\ rxq' = Tail(rxq) \/ rxq' = <<>>
    BY <1>7, HandlerCases, Zenon
  <2>2. Tail(rxq) \in Seq(SolidFrame) /\ <<>> \in Seq(SolidFrame)
    BY <2>1, TailProps DEF FrameInv
  <2> QED
    BY <1>3, <2>1, <2>2, Zenon DEF FrameInv
<1>8. CASE Peer
  <2>1. UNCHANGED <<poll, pollBuf, rxq>> /\ UNCHANGED reqs
    BY <1>8, PeerCases, Zenon DEF netVars
  <2>2. \A r \in ReqIds : r <= Len(reqs) =>
          [len |-> "full", tag |-> create_response(reqs[r]), ans |-> r] \in GoodFrame
    BY PeerFrameType DEF GoodFrame
  <2>3. \A f \in Noise : f \in GoodFrame
    BY PeerFrameType, Zenon DEF GoodFrame
  <2>4. UNCHANGED sock \/ \E f \in GoodFrame : arrive(f)
    BY <1>8, <2>2, <2>3, PeerCases, Zenon
  <2>5. UNCHANGED sock \/ \E f \in GoodFrame : sock' = Append(sock, f)
    BY <2>4, Zenon DEF arrive
  <2>6. sock' \in Seq(GoodFrame)
    BY <2>5, AppendProps, Zenon DEF FrameInv
  <2> QED
    BY <1>3, <2>1, <2>6, Zenon DEF FrameInv
<1>9. CASE \/ UNCHANGED vars
           \/ \E c \in Callers : socket_call(c) \/ bind_call(c)
  <2>1. UNCHANGED <<poll, pollBuf, sock, rxq>> /\ UNCHANGED reqs
    BY <1>9, Zenon DEF vars, socket_call, bind_call, devVars, netVars
  <2> QED
    BY <1>2, <2>1, Zenon
<1> QED
  BY <1>4, <1>5, <1>6, <1>7, <1>8, <1>9, Zenon DEF Next

-----------------------------------------------------------------------------
(* What a call was given.                                                  *)

\* Of the requests q, a and r have the same key.
SameKey(q, a, r) ==
  /\ r \in 1..Len(q) /\ a \in 1..Len(q)
  /\ flow_key(q[a]) = flow_key(q[r])

\* An open channel belongs to a call in progress and is empty, like that of
\* every call whose flow is still in the list; a channel that was sent into
\* is not; and what it got has the key of its call.
GotInv ==
  /\ \A r \in ReqIds : chan[r] = "open" => \E c \in Callers : Active(c) /\ cur[c] = r
  /\ \A r \in ReqIds : chan[r] \in {"unused", "open"} \/ r \in PendingIds => got[r] = NoFrame
  /\ \A r \in ReqIds : chan[r] \in {"sent", "taken"} => got[r] # NoFrame
  /\ \A r \in ReqIds : got[r].ans # 0 => SameKey(reqs, got[r].ans, r)

AnswerInv == FlowInv /\ FrameInv /\ GotInv

\* A datagram that answers a flow, and a request, has the key of both.
LEMMA AnswersKeepKeys ==
  ASSUME AnswerInv, NEW i \in 1..Len(flows), rxq # <<>>,
         answers(create_tag(Head(rxq)), flows[i].tag)
  PROVE  /\ Head(rxq) \in SolidFrame
         /\ Head(rxq).ans # 0 => SameKey(reqs, Head(rxq).ans, flows[i].id)
<1> DEFINE f == Head(rxq)
           r == flows[i].id
<1>1. rxq \in Seq(SolidFrame) /\ FlowInv /\ Typed /\ CallType
  BY TypeParts, Zenon DEF AnswerInv, FrameInv, FlowInv, Typed
<1>2. f \in SolidFrame
  BY <1>1, TailProps
<1>3. r \in 1..Len(reqs) /\ flows[i].tag = reqs[r] /\ Len(reqs) \in Nat
  BY <1>1, PendingType, Ids DEF FlowInv, FlowTags
<1> HIDE DEF f, r
<1>4. SUFFICES ASSUME f.ans # 0 PROVE SameKey(reqs, f.ans, r)
  BY <1>2 DEF f, r
<1>5. /\ f.len = "full" /\ f.ans \in 1..Len(reqs) /\ f.tag = create_response(reqs[f.ans])
  <2>1. f \in Frame
    BY <1>2 DEF SolidFrame, GoodFrame
  <2>2. f.ans \in ReqIds \cup {0}
    BY <2>1 DEF Frame
  <2>3. /\ f.len = "full" /\ f.ans <= Len(reqs)
        /\ f.tag = create_response(reqs[f.ans])
    BY <1>2, <1>4, Zenon DEF SolidFrame, GoodFrame
  <2> QED
    BY <1>3, <1>4, <2>2, <2>3, Ids
<1>6. reqs[f.ans] \in MsgFlowTag
  BY <1>1, <1>5 DEF CallType
<1>7. create_tag(f) = create_response(reqs[f.ans])
  BY <1>5 DEF create_tag
<1>8. /\ reqs[r].msg_tag = create_response(reqs[f.ans]).msg_tag
      /\ reqs[r].dest_eid = create_response(reqs[f.ans]).src_eid
  BY <1>3, <1>7, Zenon DEF answers, f
<1>9. reqs[r].msg_tag = reqs[f.ans].msg_tag /\ reqs[r].dest_eid = reqs[f.ans].dest_eid
  BY <1>6, <1>8, ResponseProps, Zenon
<1> QED
  BY <1>3, <1>5, <1>9, Zenon DEF SameKey, flow_key

\* Keys do not change.
LEMMA SameKeyStays ==
  ASSUME Typed, NEW a, NEW r, SameKey(reqs, a, r), reqs' = reqs \/ \E c \in Callers : Builds(c)
  PROVE  SameKey(reqs', a, r)
<1>1. CASE reqs' = reqs
  BY <1>1, Zenon DEF SameKey
<1>2. ASSUME NEW c \in Callers, Builds(c)
      PROVE  SameKey(reqs', a, r)
  <2>1. /\ Len(reqs) \in Nat /\ Len(reqs') = Len(reqs) + 1
        /\ \A s \in 1..Len(reqs) : reqs'[s] = reqs[s]
    BY <1>2, TypeParts DEF Builds, Typed, CallType
  <2>2. r \in 1..Len(reqs') /\ a \in 1..Len(reqs')
    BY <2>1 DEF SameKey
  <2>3. reqs'[r] = reqs[r] /\ reqs'[a] = reqs[a]
    BY <2>1 DEF SameKey
  <2> QED
    BY <2>2, <2>3 DEF SameKey
<1> QED
  BY <1>1, <1>2

\* Calls that begin, go on or end.
LEMMA GotCalls ==
  ASSUME AnswerInv,
         \/ Keeps
         \/ \E c \in Callers : Builds(c) \/ Tracks(c)
         \/ \E c \in Callers, st \in {"taken", "dropped"} : Leaves(c, st)
  PROVE  GotInv'
<1>1. /\ FlowInv /\ Typed /\ CallInv /\ GotInv /\ Len(reqs) \in Nat
      /\ chan \in [ReqIds -> {"unused", "open", "sent", "taken", "dropped"}]
  BY TypeParts, PendingType, Zenon DEF AnswerInv, FlowInv, Typed, CallType
<1>2. got' = got /\ (reqs' = reqs \/ \E c \in Callers : Builds(c))
  BY Zenon DEF Keeps, Builds, Tracks, Leaves
<1>3. \A r \in ReqIds : got'[r].ans # 0 => SameKey(reqs', got'[r].ans, r)
  BY <1>1, <1>2, SameKeyStays, Zenon DEF GotInv
<1>4. CASE Keeps
  <2>1. /\ chan' = chan /\ PendingIds' = PendingIds
        /\ \A c \in Callers : Active(c) => Active(c)' /\ cur'[c] = cur[c]
    BY <1>4 DEF Keeps, PendingIds, SamePlace, Active, Tracked
  <2> QED
    BY <1>1, <1>2, <1>3, <2>1 DEF GotInv
<1>5. ASSUME NEW c \in Callers, Builds(c)
      PROVE  GotInv'
  <2> DEFINE n == Len(reqs) + 1
  <2>1. /\ n \in ReqIds /\ cur'[c] = n /\ pc'[c] = "track"
        /\ chan' = [chan EXCEPT ![n] = "open"] /\ flows' = flows
        /\ ~Active(c)
        /\ \A d \in Callers \ {c} : SamePlace(d)
    BY <1>5 DEF Builds, Active
  <2>2. chan[n] = "unused"
    BY <1>1, <2>1 DEF CallInv
  <2>3. Active(c)' /\ PendingIds' = PendingIds
    BY <2>1 DEF Active, PendingIds
  <2>4. \A d \in Callers \ {c} : Active(d) => Active(d)' /\ cur'[d] = cur[d]
    BY <2>1 DEF SamePlace, Active, Tracked
  <2> HIDE DEF n
  <2>5. chan'[n] = "open" /\ \A r \in ReqIds : r # n => chan'[r] = chan[r]
    BY <1>1, <2>1
  <2>6. \A r \in ReqIds : chan'[r] = "open" => \E d \in Callers : Active(d)' /\ cur'[d] = r
    <3> SUFFICES ASSUME NEW r \in ReqIds, chan'[r] = "open"
                 PROVE  \E d \in Callers : Active(d)' /\ cur'[d] = r
      OBVIOUS
    <3>1. CASE r = n
      BY <2>1, <2>3, <3>1
    <3>2. CASE r # n
      <4>1. PICK d \in Callers : Active(d) /\ cur[d] = r
        BY <1>1, <2>5, <3>2 DEF GotInv
      <4> QED
        BY <2>1, <2>4, <4>1
    <3> QED
      BY <3>1, <3>2
  <2>7. \A r \in ReqIds : chan'[r] \in {"unused", "open"} \/ r \in PendingIds' => got'[r] = NoFrame
    BY <1>1, <1>2, <2>2, <2>3, <2>5 DEF GotInv
  <2>8. \A r \in ReqIds : chan'[r] \in {"sent", "taken"} => got'[r] # NoFrame
    BY <1>1, <1>2, <2>5 DEF GotInv
  <2> QED
    BY <1>3, <2>6, <2>7, <2>8, Zenon DEF GotInv
<1>6. ASSUME NEW c \in Callers, Tracks(c)
      PROVE  GotInv'
  <2>1. /\ pc[c] = "track" /\ pc'[c] = "lock" /\ cur'[c] = cur[c] /\ chan' = chan /\ reqs' = reqs
        /\ flows' = Append(flows, [tag |-> reqs[cur[c]], id |-> cur[c]])
        /\ \A d \in Callers \ {c} : SamePlace(d)
    BY <1>6, Zenon DEF Tracks
  <2>2. \A d \in Callers : Active(d) => Active(d)' /\ cur'[d] = cur[d]
    BY <2>1 DEF SamePlace, Active, Tracked
  <2>3. /\ cur[c] \in ReqIds /\ cur[c] <= Len(reqs) /\ reqs[cur[c]] \in MsgFlowTag
        /\ chan[cur[c]] = "open" /\ cur[c] \notin PendingIds
    <3>1. Active(c)
      BY <2>1 DEF Active
    <3> QED
      BY <1>1, <2>1, <3>1, ActiveCall DEF CallInv
  <2>4. PendingIds' = PendingIds \cup {cur[c]}
    BY <1>1, <2>1, <2>3, PushProps
  <2> QED
    BY <1>1, <1>2, <1>3, <2>1, <2>2, <2>3, <2>4 DEF GotInv
<1>7. ASSUME NEW c \in Callers, NEW st \in {"taken", "dropped"}, Leaves(c, st)
      PROVE  GotInv'
  <2>1. /\ chan' = [chan EXCEPT ![cur[c]] = st] /\ flows' = flows
        /\ st = "taken" => chan[cur[c]] = "sent"
        /\ \A d \in Callers \ {c} : SamePlace(d)
    BY <1>7, Zenon DEF Leaves
  <2>2. PendingIds' = PendingIds /\ cur[c] \in ReqIds
    BY <1>1, <1>7, <2>1, LeavesInv, Zenon DEF PendingIds
  <2>3. chan'[cur[c]] = st /\ \A r \in ReqIds : r # cur[c] => chan'[r] = chan[r]
    BY <1>1, <2>1, <2>2
  <2>4. \A d \in Callers \ {c} : Active(d) => Active(d)' /\ cur'[d] = cur[d]
    BY <2>1 DEF SamePlace, Active, Tracked
  <2>5. \A r \in ReqIds : chan'[r] = "open" => \E d \in Callers : Active(d)' /\ cur'[d] = r
    <3> SUFFICES ASSUME NEW r \in ReqIds, chan'[r] = "open"
                 PROVE  \E d \in Callers : Active(d)' /\ cur'[d] = r
      OBVIOUS
    <3>1. r # cur[c] /\ chan[r] = "open"
      BY <2>3
    <3>2. PICK d \in Callers : Active(d) /\ cur[d] = r
      BY <1>1, <3>1 DEF GotInv
    <3> QED
      BY <2>4, <3>1, <3>2
  <2>6. \A r \in ReqIds : chan'[r] \in {"unused", "open"} \/ r \in PendingIds' => got'[r] = NoFrame
    BY <1>1, <1>2, <2>2, <2>3 DEF GotInv
  <2>7. \A r \in ReqIds : chan'[r] \in {"sent", "taken"} => got'[r] # NoFrame
    BY <1>1, <1>2, <2>1, <2>2, <2>3 DEF GotInv
  <2> QED
    BY <1>3, <2>5, <2>6, <2>7, Zenon DEF GotInv
<1> QED
  BY <1>4, <1>5, <1>6, <1>7

\* The handler gives a call its answer, or dies.
LEMMA GotAnswers ==
  ASSUME AnswerInv, NEW i \in 1..Len(flows), Delivers(i) \/ Dies(i)
  PROVE  GotInv'
<1> DEFINE n == flows[i].id
<1>1. /\ FlowInv /\ Typed /\ CallInv /\ GotInv
      /\ chan \in [ReqIds -> {"unused", "open", "sent", "taken", "dropped"}]
      /\ got \in [ReqIds -> Frame]
  BY TypeParts, Zenon DEF AnswerInv, FlowInv, Typed, CallType, FlowType
<1>2. /\ flows' = RemoveAt(flows, i) /\ pc' = pc /\ cur' = cur /\ reqs' = reqs
      /\ \/ /\ rxq # <<>> /\ answers(create_tag(Head(rxq)), flows[i].tag)
            /\ chan[n] = "open" /\ chan' = [chan EXCEPT ![n] = "sent"]
            /\ got' = [got EXCEPT ![n] = Head(rxq)]
         \/ chan' = chan /\ got' = got
  BY Zenon DEF Delivers, Dies
<1>3. n \in ReqIds /\ PendingIds' = PendingIds \ {n}
  BY <1>1, <1>2, PendingType, TakeProps
<1>4. \A c \in Callers : Active(c)' = Active(c) /\ cur'[c] = cur[c]
  BY <1>2, Zenon DEF Active
<1>5. \A a, r : SameKey(reqs, a, r) => SameKey(reqs', a, r)
  BY <1>2, Zenon DEF SameKey
<1> HIDE DEF n
<1>6. CASE chan' = chan /\ got' = got
  BY <1>1, <1>3, <1>4, <1>5, <1>6 DEF GotInv
<1>7. CASE /\ rxq # <<>> /\ answers(create_tag(Head(rxq)), flows[i].tag)
           /\ chan[n] = "open" /\ chan' = [chan EXCEPT ![n] = "sent"]
           /\ got' = [got EXCEPT ![n] = Head(rxq)]
  <2>1. Head(rxq) \in SolidFrame /\ (Head(rxq).ans # 0 => SameKey(reqs, Head(rxq).ans, n))
    BY <1>7, AnswersKeepKeys DEF n
  <2>2. Head(rxq) # NoFrame
    BY <2>1, NoFrameGood
  <2>3. /\ chan'[n] = "sent" /\ got'[n] = Head(rxq)
        /\ \A r \in ReqIds : r # n => chan'[r] = chan[r] /\ got'[r] = got[r]
    BY <1>1, <1>3, <1>7
  <2>4. \A r \in ReqIds : chan'[r] = "open" => \E c \in Callers : Active(c)' /\ cur'[c] = r
    BY <1>1, <1>4, <2>3 DEF GotInv
  <2>5. \A r \in ReqIds : chan'[r] \in {"unused", "open"} \/ r \in PendingIds' => got'[r] = NoFrame
    BY <1>1, <1>3, <2>3 DEF GotInv
  <2>6. \A r \in ReqIds : chan'[r] \in {"sent", "taken"} => got'[r] # NoFrame
    BY <1>1, <2>2, <2>3 DEF GotInv
  <2>7. \A r \in ReqIds : got'[r].ans # 0 => SameKey(reqs', got'[r].ans, r)
    <3> SUFFICES ASSUME NEW r \in ReqIds, got'[r].ans # 0
                 PROVE  SameKey(reqs', got'[r].ans, r)
      OBVIOUS
    <3>1. SameKey(reqs, got'[r].ans, r)
      BY <1>1, <2>1, <2>3 DEF GotInv
    <3> QED
      BY <1>2, <3>1 DEF SameKey
  <2> QED
    BY <2>4, <2>5, <2>6, <2>7, Zenon DEF GotInv
<1> QED
  BY <1>2, <1>6, <1>7, Zenon

\* Every step keeps what is known of the answers.
LEMMA StepAnswers ==
  ASSUME AnswerInv, [Next]_vars
  PROVE  AnswerInv'
<1>1. FlowInv /\ FrameInv /\ Typed
  BY Zenon DEF AnswerInv, FlowInv
<1>2. FlowInv' /\ FrameInv'
  BY <1>1, StepFlow, StepFrames, Zenon
<1>3. GotInv'
  BY <1>1, StepKinds, GotCalls, GotAnswers, Zenon
<1> QED
  BY <1>2, <1>3, Zenon DEF AnswerInv

\* It holds initially.
LEMMA InitAnswers == Init => FrameInv /\ GotInv
<1> SUFFICES ASSUME Init PROVE FrameInv /\ GotInv
  OBVIOUS
<1>1. /\ sock = <<>> /\ rxq = <<>> /\ flows = <<>>
      /\ \A p \in Pollers : pollBuf[p] = NoFrame /\ poll[p] = "unbound"
      /\ \A r \in ReqIds : got[r] = NoFrame /\ chan[r] = "unused"
  BY DEF Init, DevInit
<1>2. FrameInv
  BY <1>1, NoFrameGood DEF FrameInv
<1>3. NoFrame.ans = 0
  BY DEF NoFrame
<1>4. GotInv
  BY <1>1, <1>3 DEF GotInv
<1> QED
  BY <1>2, <1>4

\* It holds in every reachable state.
LEMMA AnswersAlways == Spec => []AnswerInv
<1>1. AnswerInv /\ [Next]_vars => AnswerInv'
  BY StepAnswers
<1>2. FlowInv /\ FrameInv /\ GotInv => AnswerInv
  BY DEF AnswerInv
<1> QED
  BY <1>1, <1>2, InitAnswers, FlowAlways, PTL DEF Spec

\* Answers do not cross keys (simple_network.rs:158-160), for every tag width
\* and any number of callers and requests: an answer of the peer that sendto
\* is given is one to a request with the same destination EID and tag,
\* whatever was lost, duplicated, reordered or sent unasked.
THEOREM AnswersKeepTheirKey == Spec => []KeyIsolation
<1>1. AnswerInv => KeyIsolation
  BY Zenon DEF AnswerInv, GotInv, SameKey, KeyIsolation
<1> QED
  BY <1>1, AnswersAlways, PTL

-----------------------------------------------------------------------------
(* How often a request is answered.                                        *)

\* The datagrams that answer a, and the copies of request a and of answers to
\* it, on the wire, in the buffers and in the hands of the calls.
To(a) == {f \in Frame : f.ans = a}
CopiesOf(a) ==
  wire[a] + NumberIn(sock, To(a)) + NumberAt(pollBuf, To(a)) + NumberIn(rxq, To(a))
          + NumberAt(got, To(a))

\* The call of c has not transmitted its request; request a has not been.
Early(c) == pc[c] \in {"track", "lock", "queued"}
NotSent(a) ==
  \/ a > Len(reqs)
  \/ \E c \in Callers : Early(c) /\ cur[c] = a

\* transmit offers a request to the socket twice, so at most two copies exist,
\* and none before.
CopyInv ==
  \A a \in ReqIds : CopiesOf(a) <= 2 /\ (NotSent(a) => CopiesOf(a) = 0)

\* The counts are numbers.
LEMMA CountTypes ==
  ASSUME TypeOK, NEW a \in ReqIds
  PROVE  /\ wire[a] \in Nat
         /\ NumberIn(sock, To(a)) \in Nat /\ NumberAt(pollBuf, To(a)) \in Nat
         /\ NumberIn(rxq, To(a)) \in Nat /\ NumberAt(got, To(a)) \in Nat
<1>1. RxType /\ FlowType /\ LinkType
  BY TypeParts, Zenon
<1>2. /\ sock \in Seq(Frame) /\ rxq \in Seq(Frame) /\ wire \in [ReqIds -> Nat]
      /\ pollBuf \in [Pollers -> Frame] /\ got \in [ReqIds -> Frame]
  BY <1>1, Zenon DEF RxType, FlowType, LinkType
<1>3. NumberIn(sock, To(a)) \in Nat /\ NumberIn(rxq, To(a)) \in Nat
  BY <1>2, NumberInType, Zenon
<1>4. ASSUME NEW S, IsFiniteSet(S), NEW f \in [S -> Frame]
      PROVE  NumberAt(f, To(a)) \in Nat
  <2>1. DOMAIN f = S /\ {x \in S : f[x] \in To(a)} \in SUBSET S
    OBVIOUS
  <2>2. IsFiniteSet({x \in S : f[x] \in To(a)})
    BY <1>4, <2>1, FS_Subset
  <2> QED
    BY <2>1, <2>2, FS_CardinalityType DEF NumberAt
<1>5. IsFiniteSet(Pollers) /\ IsFiniteSet(ReqIds)
  <2>1. IsFiniteSet(Pollers)
    BY SimpleNetworkAssumption, Zenon
  <2>2. IsFiniteSet(1..MaxReq)
    BY Ids, FS_Interval
  <2> QED
    BY <2>1, <2>2, Ids
<1>6. NumberAt(pollBuf, To(a)) \in Nat /\ NumberAt(got, To(a)) \in Nat
  BY <1>2, <1>4, <1>5, Zenon
<1> QED
  BY <1>2, <1>3, <1>6

\* The parts of the count before and after a step.
LEMMA CountTypesPrime ==
  ASSUME Typed, Next, NEW a \in ReqIds
  PROVE  /\ wire'[a] \in Nat
         /\ NumberIn(sock', To(a)) \in Nat /\ NumberAt(pollBuf', To(a)) \in Nat
         /\ NumberIn(rxq', To(a)) \in Nat /\ NumberAt(got', To(a)) \in Nat
<1>1. TypeOK'
  BY StepTyped, Zenon DEF Typed
<1>2. (TypeOK /\ a \in ReqIds
         => /\ wire[a] \in Nat
            /\ NumberIn(sock, To(a)) \in Nat /\ NumberAt(pollBuf, To(a)) \in Nat
            /\ NumberIn(rxq, To(a)) \in Nat /\ NumberAt(got, To(a)) \in Nat)'
  BY CountTypes, PTL
<1> QED
  BY <1>1, <1>2

\* A step of poll_socket moves a datagram on or loses it.
LEMMA CopiesPoll ==
  ASSUME Typed, Next, NEW p \in Pollers, PollTask(p), NEW a \in ReqIds
  PROVE  CopiesOf(a)' <= CopiesOf(a)
<1> DEFINE V == To(a)
           h == OneIn(Head(sock), V)
           o == OneIn(pollBuf[p], V)
           s == NumberIn(sock, V)
           s2 == NumberIn(sock', V)
           b == NumberAt(pollBuf, V)
           b2 == NumberAt(pollBuf', V)
           q == NumberIn(rxq, V)
           q2 == NumberIn(rxq', V)
           g == NumberAt(got, V)
<1>1. TypeOK /\ RxType
  BY TypeParts, Zenon DEF Typed
<1>2. wire' = wire /\ got' = got
  BY PollCases, Zenon DEF netVars
<1>3. wire[a] \in Nat /\ s \in Nat /\ b \in Nat /\ q \in Nat /\ g \in Nat
  BY <1>1, CountTypes, Zenon
<1>4. s2 \in Nat /\ b2 \in Nat /\ q2 \in Nat
  BY CountTypesPrime, Zenon
<1>5. IsFiniteSet(Pollers)
  BY SimpleNetworkAssumption, Zenon
<1>6. /\ sock \in Seq(Frame) /\ rxq \in Seq(Frame) /\ pollBuf \in [Pollers -> Frame]
  BY <1>1, Zenon DEF RxType
<1>7. /\ h \in Nat /\ h <= 1 /\ o \in Nat /\ o <= 1
  BY OneInType, Zenon
<1>8. ASSUME NEW f, pollBuf' = [pollBuf EXCEPT ![p] = f]
      PROVE  b2 + o = b + OneIn(f, V)
  <2>1. /\ DOMAIN pollBuf = Pollers /\ DOMAIN pollBuf' = Pollers /\ pollBuf'[p] = f
        /\ \A x \in Pollers \ {p} : pollBuf'[x] = pollBuf[x]
    BY <1>6, <1>8
  <2> HIDE DEF V
  <2>2. NumberAt(pollBuf', V) + OneIn(pollBuf[p], V)
          = NumberAt(pollBuf, V) + OneIn(pollBuf'[p], V)
    BY <1>5, <2>1, NumberAtExcept, SMT
  <2> QED
    BY <2>1, <2>2, Zenon
<1>9. SUFFICES s2 + b2 + q2 <= s + b + q
  <2>1. wire'[a] + s2 + b2 + q2 + NumberAt(got', V) = wire[a] + s2 + b2 + q2 + g
    BY <1>2, Zenon
  <2>2. CopiesOf(a)' = wire[a] + s2 + b2 + q2 + g
    BY <2>1 DEF CopiesOf
  <2>3. CopiesOf(a) = wire[a] + s + b + q + g
    BY Zenon DEF CopiesOf
  <2> HIDE DEF V, s, s2, b, b2, q, q2, g
  <2> QED
    BY <1>3, <1>4, <1>9, <2>2, <2>3
<1>10. CASE /\ sock # <<>> /\ sock' = Tail(sock) /\ UNCHANGED rxq
            /\ \/ UNCHANGED <<poll, pollBuf>>
               \/ /\ poll' = [poll EXCEPT ![p] = "send"]
                  /\ pollBuf' = [pollBuf EXCEPT ![p] = Head(sock)]
  <2>1. s = s2 + h
    BY <1>6, <1>10, NumberInTail, Zenon
  <2>2. CASE UNCHANGED pollBuf
    <3>1. b2 = b /\ q2 = q
      BY <1>10, <2>2, Zenon
    <3> HIDE DEF V, h, o, s, s2, b, b2, q, q2, g
    <3> QED
      BY <1>3, <1>4, <1>7, <2>1, <3>1
  <2>3. CASE pollBuf' = [pollBuf EXCEPT ![p] = Head(sock)]
    <3>1. b2 + o = b + h /\ q2 = q
      BY <1>8, <1>10, <2>3, Zenon
    <3> HIDE DEF V, h, o, s, s2, b, b2, q, q2, g
    <3> QED
      BY <1>3, <1>4, <1>7, <2>1, <3>1
  <2> QED
    BY <1>10, <2>2, <2>3, Zenon
<1>11. CASE /\ UNCHANGED sock
            /\ \/ Len(rxq) < RxCap /\ rxq' = Append(rxq, pollBuf[p])
               \/ UNCHANGED rxq
            /\ pollBuf' = [pollBuf EXCEPT ![p] = NoFrame]
  <2>1. NoFrame \notin V
    BY Ids DEF NoFrame, To
  <2>2. OneIn(NoFrame, V) = 0
    BY <2>1, OneInType, Zenon
  <2>3. b2 + o = b + OneIn(NoFrame, V) /\ s2 = s
    BY <1>8, <1>11, Zenon
  <2>4. q2 = q \/ q2 = q + o
    <3>1. pollBuf[p] \in Frame
      BY <1>6
    <3>2. NumberIn(Append(rxq, pollBuf[p]), V) = q + o
      BY <1>6, <3>1, NumberInAppend, Zenon
    <3> QED
      BY <1>11, <3>2, Zenon
  <2> HIDE DEF V, h, o, s, s2, b, b2, q, q2, g
  <2> QED
    BY <1>3, <1>4, <1>7, <2>2, <2>3, <2>4
<1>12. CASE UNCHANGED <<pollBuf, sock, rxq>>
  <2>1. s2 = s /\ b2 = b /\ q2 = q
    BY <1>12, Zenon
  <2> HIDE DEF V, h, o, s, s2, b, b2, q, q2, g
  <2> QED
    BY <1>3, <2>1
<1> QED
  BY <1>10, <1>11, <1>12, PollCases, Zenon

\* A step of the peer uses up a copy for every answer it makes.
LEMMA CopiesPeer ==
  ASSUME Typed, Next, Peer, NEW a \in ReqIds
  PROVE  CopiesOf(a)' <= CopiesOf(a)
<1> DEFINE V == To(a)
           w == wire[a]
           w2 == wire'[a]
           s == NumberIn(sock, V)
           s2 == NumberIn(sock', V)
           b == NumberAt(pollBuf, V)
           q == NumberIn(rxq, V)
           g == NumberAt(got, V)
<1>1. TypeOK /\ RxType /\ LinkType
  BY TypeParts, Zenon DEF Typed
<1>2. pollBuf' = pollBuf /\ rxq' = rxq /\ got' = got
  BY PeerCases, Zenon DEF netVars
<1>3. w \in Nat /\ s \in Nat /\ b \in Nat /\ q \in Nat /\ g \in Nat
  BY <1>1, CountTypes, Zenon
<1>4. s2 \in Nat /\ w2 \in Nat
  BY CountTypesPrime, Zenon
<1>5. sock \in Seq(Frame) /\ wire \in [ReqIds -> Nat]
  BY <1>1, Zenon DEF RxType, LinkType
<1>6. SUFFICES w2 + s2 <= w + s
  <2>1. CopiesOf(a)' = w2 + s2 + b + q + g
    BY <1>2, Zenon DEF CopiesOf
  <2>2. CopiesOf(a) = w + s + b + q + g
    BY Zenon DEF CopiesOf
  <2> HIDE DEF V, w, w2, s, s2, b, q, g
  <2> QED
    BY <1>3, <1>4, <1>6, <2>1, <2>2
<1>7. ASSUME NEW f \in Frame, arrive(f)
      PROVE  s2 = s \/ s2 = s + OneIn(f, V)
  <2>1. sock' = sock \/ sock' = Append(sock, f)
    BY <1>1, <1>7, ArriveType, Zenon
  <2>2. NumberIn(Append(sock, f), V) = NumberIn(sock, V) + OneIn(f, V)
    BY <1>5, NumberInAppend, Zenon
  <2> QED
    BY <2>1, <2>2, Zenon
<1>8. ASSUME NEW r \in ReqIds, r <= Len(reqs), wire[r] > 0,
             wire' = [wire EXCEPT ![r] = @ - 1],
             arrive([len |-> "full", tag |-> create_response(reqs[r]), ans |-> r])
      PROVE  w2 + s2 <= w + s
  <2> DEFINE f == [len |-> "full", tag |-> create_response(reqs[r]), ans |-> r]
             o == OneIn(f, V)
  <2>1. f \in Frame /\ f.ans = r
    BY <1>8, PeerFrameType
  <2>2. s2 = s \/ s2 = s + o
    <3>1. arrive(f)
      BY <1>8, Zenon
    <3> HIDE DEF f
    <3> QED
      BY <1>7, <2>1, <3>1, Zenon
  <2>3. o \in Nat /\ o <= 1 /\ (r # a => o = 0)
    <3>1. r # a => f \notin V
      BY <2>1, Zenon DEF To
    <3> HIDE DEF f, V
    <3> QED
      BY <3>1, OneInType, Zenon
  <2>4. (r = a => w2 = w - 1) /\ (r # a => w2 = w)
    BY <1>5, <1>8
  <2> HIDE DEF V, w, w2, s, s2, f, o
  <2> QED
    BY <1>3, <1>4, <2>2, <2>3, <2>4
<1>9. ASSUME NEW r \in ReqIds, wire[r] > 0, wire' = [wire EXCEPT ![r] = @ - 1], UNCHANGED sock
      PROVE  w2 + s2 <= w + s
  <2>1. w2 <= w
    BY <1>3, <1>5, <1>9
  <2>2. s2 = s
    BY <1>9, Zenon
  <2> HIDE DEF V, w, w2, s, s2
  <2> QED
    BY <1>3, <1>4, <2>1, <2>2
<1>10. ASSUME NEW f \in Noise, arrive(f), UNCHANGED wire
       PROVE  w2 + s2 <= w + s
  <2>1. f \in Frame /\ f.ans = 0
    BY PeerFrameType, Zenon
  <2>2. f \notin V
    BY <2>1, Ids DEF To
  <2>3. OneIn(f, V) = 0
    BY <2>2, OneInType, Zenon
  <2>4. s2 = s \/ s2 = s + OneIn(f, V)
    BY <1>7, <1>10, <2>1, Zenon
  <2>5. w2 = w
    BY <1>10, Zenon
  <2> HIDE DEF V, w, w2, s, s2
  <2> QED
    BY <1>3, <1>4, <2>3, <2>4, <2>5
<1> QED
  BY <1>8, <1>9, <1>10, PeerCases, Zenon

\* A step of the handler gives the datagram it takes to at most one call.
LEMMA CopiesHandler ==
  ASSUME Typed, Next, callback_handler, NEW a \in ReqIds
  PROVE  CopiesOf(a)' <= CopiesOf(a)
<1> DEFINE V == To(a)
           w == wire[a]
           s == NumberIn(sock, V)
           b == NumberAt(pollBuf, V)
           q == NumberIn(rxq, V)
           q2 == NumberIn(rxq', V)
           g == NumberAt(got, V)
           g2 == NumberAt(got', V)
           h == OneIn(Head(rxq), V)
<1>1. TypeOK /\ RxType /\ FlowType
  BY TypeParts, Zenon DEF Typed
<1>2. wire' = wire /\ pollBuf' = pollBuf /\ sock' = sock /\ rxq # <<>>
  BY HandlerCases, Zenon
<1>3. w \in Nat /\ s \in Nat /\ b \in Nat /\ q \in Nat /\ g \in Nat
  BY <1>1, CountTypes, Zenon
<1>4. q2 \in Nat /\ g2 \in Nat
  BY CountTypesPrime, Zenon
<1>5. rxq \in Seq(Frame) /\ got \in [ReqIds -> Frame] /\ flows \in Seq(MctpFlow)
  BY <1>1, Zenon DEF RxType, FlowType
<1>6. SUFFICES q2 + g2 <= q + g
  <2>1. CopiesOf(a)' = w + s + b + q2 + g2
    BY <1>2, Zenon DEF CopiesOf
  <2>2. CopiesOf(a) = w + s + b + q + g
    BY Zenon DEF CopiesOf
  <2> HIDE DEF V, w, s, b, q, q2, g, g2
  <2> QED
    BY <1>3, <1>4, <1>6, <2>1, <2>2
<1>7. q = NumberIn(Tail(rxq), V) + h /\ NumberIn(Tail(rxq), V) \in Nat
  BY <1>2, <1>5, NumberInTail, Zenon
<1>8. h \in Nat
  BY OneInType, Zenon
<1>9. CASE UNCHANGED got /\ (rxq' = Tail(rxq) \/ rxq' = <<>>)
  <2>1. NumberIn(<<>>, V) = 0
    BY NumberInEmpty, Zenon
  <2>2. g2 = g /\ (q2 = NumberIn(Tail(rxq), V) \/ q2 = 0)
    BY <1>9, <2>1, Zenon
  <2> HIDE DEF V, q, q2, g, g2, h
  <2> QED
    BY <1>3, <1>4, <1>7, <1>8, <2>2
<1>10. ASSUME NEW i \in 1..Len(flows), got' = [got EXCEPT ![flows[i].id] = Head(rxq)],
              rxq' = Tail(rxq)
       PROVE  q2 + g2 <= q + g
  <2>1. PICK r \in ReqIds : r = flows[i].id
    <3>1. flows[i] \in MctpFlow
      BY <1>5
    <3> QED
      BY <3>1 DEF MctpFlow
  <2>2. /\ DOMAIN got = ReqIds /\ DOMAIN got' = ReqIds /\ got'[r] = Head(rxq)
        /\ \A x \in ReqIds \ {r} : got'[x] = got[x]
    BY <1>5, <1>10, <2>1
  <2>3. IsFiniteSet(ReqIds)
    <3>1. IsFiniteSet(1..MaxReq)
      BY Ids, FS_Interval
    <3> QED
      BY <3>1, Ids
  <2>4. g2 + OneIn(got[r], V) = g + OneIn(got'[r], V)
    <3> HIDE DEF V
    <3>1. NumberAt(got', V) + OneIn(got[r], V) = NumberAt(got, V) + OneIn(got'[r], V)
      BY <2>2, <2>3, NumberAtExcept, SMT
    <3> QED
      BY <3>1, Zenon
  <2>5. OneIn(got'[r], V) = h /\ q2 = NumberIn(Tail(rxq), V)
    BY <1>10, <2>2, Zenon
  <2>6. OneIn(got[r], V) \in Nat
    BY OneInType, Zenon
  <2> DEFINE t == NumberIn(Tail(rxq), V)
             o == OneIn(got[r], V)
  <2>7. g2 + o = g + h /\ q2 = t
    BY <2>4, <2>5, Zenon
  <2>8. q = t + h /\ t \in Nat /\ o \in Nat
    BY <1>7, <2>6, Zenon
  <2> HIDE DEF V, q, q2, g, g2, h, t, o
  <2> QED
    BY <1>3, <1>4, <1>8, <2>7, <2>8
<1> QED
  BY <1>9, <1>10, HandlerCases, Zenon

\* A step of a sendto leaves the copies as they are, or transmits its request
\* twice at most.
LEMMA CopiesSendto ==
  ASSUME Typed, NEW c \in Callers, sendto(c), NEW a \in ReqIds
  PROVE  \/ CopiesOf(a)' = CopiesOf(a)
         \/ /\ Early(c) /\ cur[c] = a /\ ~Early(c)'
            /\ pc[c] # "track"
            /\ reqs' = reqs
            /\ \A d \in Callers \ {c} : pc'[d] = pc[d] /\ cur'[d] = cur[d]
            /\ CopiesOf(a)' <= CopiesOf(a) + 2
<1> DEFINE V == To(a)
           w == wire[a]
           s == NumberIn(sock, V)
           b == NumberAt(pollBuf, V)
           q == NumberIn(rxq, V)
           g == NumberAt(got, V)
<1>1. TypeOK /\ CallType /\ LinkType
  BY TypeParts, Zenon DEF Typed
<1>2. pollBuf' = pollBuf /\ sock' = sock /\ rxq' = rxq
  BY SendtoRx, Zenon
<1>3. w \in Nat /\ s \in Nat /\ b \in Nat /\ q \in Nat /\ g \in Nat
  BY <1>1, CountTypes, Zenon
<1>4. ASSUME got' = got, wire' = wire
      PROVE  CopiesOf(a)' = CopiesOf(a)
  BY <1>2, <1>4, Zenon DEF CopiesOf
<1>5. ASSUME transmit_as_owner(c, waiters), pc[c] \in {"lock", "queued"},
             UNCHANGED <<tableVars, flows, poisoned, reqs, got, handler>>
      PROVE  \/ CopiesOf(a)' = CopiesOf(a)
             \/ /\ Early(c) /\ cur[c] = a /\ ~Early(c)'
                /\ pc[c] # "track"
                /\ reqs' = reqs
                /\ \A d \in Callers \ {c} : pc'[d] = pc[d] /\ cur'[d] = cur[d]
                /\ CopiesOf(a)' <= CopiesOf(a) + 2
  <2>1. CASE wire' = wire
    BY <1>4, <1>5, <2>1, Zenon
  <2>2. ASSUME NEW first \in {0, 1}, NEW second \in {0, 1},
               wire' = [wire EXCEPT ![cur[c]] = @ + first + second]
        PROVE  \/ wire'[a] = wire[a]
               \/ cur[c] = a /\ wire'[a] \in Nat /\ wire'[a] <= wire[a] + 2
    BY <1>1, <2>2 DEF LinkType
  <2>3. CASE wire'[a] = wire[a]
    <3>1. CopiesOf(a)' = CopiesOf(a)
      BY <1>2, <1>5, <2>3, Zenon DEF CopiesOf
    <3> QED
      BY <3>1
  <2>4. CASE cur[c] = a /\ wire'[a] \in Nat /\ wire'[a] <= wire[a] + 2
    <3> DEFINE w2 == wire'[a]
    <3>1. CopiesOf(a)' = w2 + s + b + q + g /\ CopiesOf(a) = w + s + b + q + g
      BY <1>2, <1>5, Zenon DEF CopiesOf
    <3>2. w2 \in Nat /\ w2 <= w + 2
      BY <2>4
    <3>3. CopiesOf(a)' <= CopiesOf(a) + 2
      <4> HIDE DEF V, w, w2, s, b, q, g
      <4> QED
        BY <1>3, <3>1, <3>2
    <3>4. /\ \/ pc' = [pc EXCEPT ![c] = "await"] /\ cur' = cur
             \/ pc' = [pc EXCEPT ![c] = "panicked"] /\ cur' = [cur EXCEPT ![c] = 0]
    BY <1>5, TransmitCases, Zenon DEF finish
    <3>5. /\ pc'[c] \in {"await", "panicked"}
          /\ \A d \in Callers \ {c} : pc'[d] = pc[d] /\ cur'[d] = cur[d]
      BY <1>1, <3>4 DEF CallType
    <3>6. Early(c) /\ ~Early(c)' /\ pc[c] # "track"
      BY <1>5, <3>5 DEF Early
    <3>7. reqs' = reqs
      BY <1>5, Zenon
    <3> QED
      BY <2>4, <3>3, <3>5, <3>6, <3>7, Zenon
  <2> QED
    BY <1>5, <2>1, <2>2, <2>3, <2>4, TransmitCases
<1>6. CASE sendto_lock(c)
  <2>1. pc[c] = "lock" /\ UNCHANGED <<tableVars, flows, poisoned, reqs, got, handler>>
    BY <1>6, Zenon DEF sendto_lock
  <2>2. transmit_as_owner(c, waiters) \/ wire' = wire
    BY <1>6, Zenon DEF sendto_lock, devVars
  <2>3. got' = got
    BY <2>1, Zenon
  <2> QED
    BY <1>4, <1>5, <2>1, <2>2, <2>3, Zenon
<1>7. CASE sendto_transmit(c)
  <2>1. /\ pc[c] = "queued" /\ transmit_as_owner(c, waiters)
        /\ UNCHANGED <<tableVars, flows, poisoned, reqs, got, handler>>
    BY <1>7, Zenon DEF sendto_transmit
  <2> QED
    BY <1>5, <2>1, Zenon
<1>8. CASE \/ \E t \in Descriptors, addr \in Addrs :
                sendto_refuse(c, t, addr) \/ sendto_build(c, t, addr)
           \/ sendto_track(c) \/ sendto_return(c) \/ sendto_cancel(c)
  <2>1. got' = got /\ wire' = wire
    BY <1>8, Zenon DEF sendto_refuse, sendto_build, sendto_track, sendto_return, sendto_cancel, devVars
  <2> QED
    BY <1>4, <2>1, Zenon
<1> QED
  BY <1>6, <1>7, <1>8, Zenon DEF sendto

\* A call that has not transmitted after a step had not before it, or has only
\* then been made.
LEMMA EarlyBefore ==
  ASSUME Typed, [Next]_vars, NEW c \in Callers, Early(c)'
  PROVE  \/ Early(c) /\ cur'[c] = cur[c]
         \/ cur'[c] = Len(reqs) + 1
<1>1. CallType
  BY TypeParts, Zenon DEF Typed
<1>2. pc \in [Callers -> {"idle", "track", "lock", "queued", "await", "panicked"}]
      /\ cur \in [Callers -> ReqIds \cup {0}]
  BY <1>1, Zenon DEF CallType
<1>3. CASE UNCHANGED <<pc, cur>>
  BY <1>3, Zenon DEF Early
<1>4. ASSUME NEW d \in Callers, sendto(d)
      PROVE  \/ Early(c) /\ cur'[c] = cur[c]
             \/ cur'[c] = Len(reqs) + 1
  <2>1. \/ \E p \in {"idle", "panicked", "await"} : pc' = [pc EXCEPT ![d] = p] /\ (cur' = cur \/ cur' = [cur EXCEPT ![d] = 0])
        \/ pc' = [pc EXCEPT ![d] = "track"] /\ cur' = [cur EXCEPT ![d] = Len(reqs) + 1]
        \/ Early(d) /\ cur' = cur /\ \E p \in {"lock", "queued"} : pc' = [pc EXCEPT ![d] = p]
        \/ UNCHANGED <<pc, cur>>
    <3>1. ASSUME transmit_as_owner(d, waiters)
          PROVE  \E p \in {"idle", "panicked", "await"} : pc' = [pc EXCEPT ![d] = p] /\ (cur' = cur \/ cur' = [cur EXCEPT ![d] = 0])
      BY <3>1, TransmitCases, Zenon DEF finish
    <3>2. CASE sendto_lock(d) \/ sendto_transmit(d)
      BY <3>1, <3>2, Zenon DEF sendto_lock, sendto_transmit, Early
    <3>3. CASE \E s \in Descriptors, addr \in Addrs :
                 sendto_refuse(d, s, addr) \/ sendto_build(d, s, addr)
      BY <3>3, Zenon DEF sendto_refuse, sendto_build, Idle, finish
    <3>4. CASE sendto_track(d) \/ sendto_return(d) \/ sendto_cancel(d)
      BY <3>4, Zenon DEF sendto_track, sendto_return, sendto_cancel, finish, Early
    <3> QED
      BY <1>4, <3>2, <3>3, <3>4, Zenon DEF sendto
  <2>2. CASE c = d
    BY <1>2, <1>3, <2>1, <2>2 DEF Early
  <2>3. CASE c # d
    <3>1. pc'[c] = pc[c] /\ cur'[c] = cur[c]
      BY <1>2, <2>1, <2>3
    <3> QED
      BY <3>1, Zenon DEF Early
  <2> QED
    BY <2>2, <2>3
<1>5. CASE \/ UNCHANGED vars
           \/ \E d \in Callers : socket_call(d) \/ bind_call(d)
           \/ \E p \in Pollers : PollTask(p) \/ Attach(p)
           \/ callback_handler \/ Peer
  <2>1. UNCHANGED <<pc, cur>>
    BY <1>5, PollCases, PeerCases, HandlerCases, Zenon DEF vars, socket_call, bind_call, netVars,
       Attach, add_physical_binding, add_physical_binding_queue
  <2> QED
    BY <1>3, <2>1
<1> QED
  BY <1>4, <1>5, Zenon DEF Next

\* The number of copies is a number.
LEMMA CopiesType ==
  ASSUME TypeOK, NEW a \in ReqIds
  PROVE  CopiesOf(a) \in Nat
<1> DEFINE w == wire[a]
           s == NumberIn(sock, To(a))
           b == NumberAt(pollBuf, To(a))
           q == NumberIn(rxq, To(a))
           g == NumberAt(got, To(a))
<1>1. w \in Nat /\ s \in Nat /\ b \in Nat /\ q \in Nat /\ g \in Nat
  BY CountTypes, Zenon
<1>2. CopiesOf(a) = w + s + b + q + g
  BY Zenon DEF CopiesOf
<1> HIDE DEF w, s, b, q, g
<1> QED
  BY <1>1, <1>2

\* What was not transmitted after a step was not before it.
LEMMA NotSentBefore ==
  ASSUME Typed, [Next]_vars, NEW a \in ReqIds, NotSent(a)'
  PROVE  NotSent(a)
<1>1. Len(reqs) \in Nat /\ a \in Nat
  BY TypeParts, Ids DEF Typed, CallType
<1>2. Len(reqs') \in Nat /\ Len(reqs') >= Len(reqs)
  <2>1. reqs' = reqs \/ \E c \in Callers : Builds(c)
    BY StepKinds, Zenon DEF Keeps, Tracks, Leaves, Delivers, Dies
  <2>2. reqs' = reqs \/ Len(reqs') = Len(reqs) + 1
    BY <2>1, Zenon DEF Builds
  <2> QED
    BY <1>1, <2>2
<1>3. CASE a > Len(reqs')
  BY <1>1, <1>2, <1>3 DEF NotSent
<1>4. ASSUME NEW c \in Callers, Early(c)', cur'[c] = a
      PROVE  NotSent(a)
  <2>1. CASE Early(c) /\ cur'[c] = cur[c]
    BY <1>4, <2>1, Zenon DEF NotSent
  <2>2. CASE cur'[c] = Len(reqs) + 1
    BY <1>1, <1>4, <2>2 DEF NotSent
  <2> QED
    BY <1>4, <2>1, <2>2, EarlyBefore, Zenon
<1> QED
  BY <1>3, <1>4, Zenon DEF NotSent

\* A step that transmits nothing makes no copies.
LEMMA CopiesStep ==
  ASSUME Typed, [Next]_vars, NEW a \in ReqIds
  PROVE  \/ CopiesOf(a)' <= CopiesOf(a)
         \/ \E c \in Callers :
              /\ Early(c) /\ cur[c] = a /\ ~Early(c)'
              /\ pc[c] # "track"
              /\ reqs' = reqs
              /\ \A d \in Callers \ {c} : pc'[d] = pc[d] /\ cur'[d] = cur[d]
              /\ CopiesOf(a)' <= CopiesOf(a) + 2
<1>1. CopiesOf(a) \in Nat
  BY CopiesType, Zenon DEF Typed
<1>2. ASSUME CopiesOf(a)' = CopiesOf(a)
      PROVE  CopiesOf(a)' <= CopiesOf(a)
  BY <1>1, <1>2
<1>3. CASE \E c \in Callers : sendto(c)
  BY <1>2, <1>3, CopiesSendto, Zenon
<1>4. CASE \/ UNCHANGED vars
           \/ \E c \in Callers : socket_call(c) \/ bind_call(c)
           \/ \E p \in Pollers : Attach(p)
  <2>1. UNCHANGED <<wire, sock, pollBuf, rxq, got>>
    BY <1>4, Zenon DEF vars, socket_call, bind_call, netVars, devVars,
       Attach, add_physical_binding, add_physical_binding_queue, spawn_poll
  <2>2. CopiesOf(a)' = CopiesOf(a)
    BY <2>1, Zenon DEF CopiesOf
  <2> QED
    BY <1>2, <2>2
<1>5. CASE \E p \in Pollers : PollTask(p)
  <2>1. Next
    BY <1>5, Zenon DEF Next
  <2> QED
    BY <1>5, <2>1, CopiesPoll, Zenon
<1>6. CASE callback_handler
  <2>1. Next
    BY <1>6, Zenon DEF Next
  <2> QED
    BY <1>6, <2>1, CopiesHandler, Zenon
<1>7. CASE Peer
  <2>1. Next
    BY <1>7, Zenon DEF Next
  <2> QED
    BY <1>7, <2>1, CopiesPeer, Zenon
<1> QED
  BY <1>3, <1>4, <1>5, <1>6, <1>7, Zenon DEF Next

\* Every step keeps the bound on the copies.
LEMMA StepCopies ==
  ASSUME FlowInv, CopyInv, [Next]_vars
  PROVE  CopyInv'
<1> SUFFICES ASSUME NEW a \in ReqIds
             PROVE  CopiesOf(a)' <= 2 /\ (NotSent(a)' => CopiesOf(a)' = 0)
  BY Zenon DEF CopyInv
<1>1. Typed /\ CallInv /\ TypeOK /\ CallType
  BY TypeParts, Zenon DEF FlowInv, Typed
<1>2. CopiesOf(a) <= 2 /\ (NotSent(a) => CopiesOf(a) = 0)
  BY Zenon DEF CopyInv
<1>3. CopiesOf(a) \in Nat /\ CopiesOf(a)' \in Nat
  <2>1. TypeOK'
    BY <1>1, StepTyped, Zenon DEF Typed
  <2>2. (TypeOK /\ a \in ReqIds => CopiesOf(a) \in Nat)'
    BY CopiesType, PTL
  <2> QED
    BY <1>1, <2>1, <2>2, CopiesType, Zenon
<1>4. CASE CopiesOf(a)' <= CopiesOf(a)
  <2>1. NotSent(a)' => CopiesOf(a) = 0
    BY <1>1, <1>2, NotSentBefore, Zenon
  <2> QED
    BY <1>2, <1>3, <1>4, <2>1
<1>5. ASSUME NEW c \in Callers, Early(c), cur[c] = a, ~Early(c)', reqs' = reqs,
             \A d \in Callers \ {c} : pc'[d] = pc[d] /\ cur'[d] = cur[d],
             CopiesOf(a)' <= CopiesOf(a) + 2
      PROVE  CopiesOf(a)' <= 2 /\ (NotSent(a)' => CopiesOf(a)' = 0)
  <2>1. CopiesOf(a) = 0
    BY <1>2, <1>5, Zenon DEF NotSent
  <2>2. a <= Len(reqs') /\ Len(reqs') \in Nat /\ a \in Nat
    <3>1. Active(c)
      BY <1>5 DEF Early, Active
    <3>2. cur[c] <= Len(reqs)
      BY <3>1, ActiveCall, Zenon
    <3> QED
      BY <1>1, <1>5, <3>2, Ids DEF CallType
  <2>3. ASSUME NEW d \in Callers, Early(d)', cur'[d] = a
        PROVE  FALSE
    <3>1. d # c
      BY <1>5, <2>3, Zenon
    <3>2. Early(d) /\ cur[d] = a
      BY <1>5, <2>3, <3>1, Zenon DEF Early
    <3>3. Active(c) /\ Active(d)
      BY <1>5, <3>2 DEF Early, Active
    <3> QED
      BY <1>1, <1>5, <3>1, <3>2, <3>3, Zenon DEF CallInv
  <2>4. ~NotSent(a)'
    <3>1. ~(a > Len(reqs'))
      BY <2>2
    <3> QED
      BY <2>3, <3>1, Zenon DEF NotSent
  <2> QED
    BY <1>3, <1>5, <2>1, <2>4
<1> QED
  BY <1>1, <1>4, <1>5, CopiesStep, Zenon

\* Nothing is on its way initially.
LEMMA InitCopies == Init => CopyInv
<1> SUFFICES ASSUME Init, NEW a \in ReqIds PROVE CopiesOf(a) = 0
  BY DEF CopyInv
<1>1. /\ sock = <<>> /\ rxq = <<>>
      /\ wire = [r \in ReqIds |-> 0]
      /\ pollBuf = [p \in Pollers |-> NoFrame]
      /\ got = [r \in ReqIds |-> NoFrame]
  BY Zenon DEF Init, DevInit
<1>2. NoFrame \notin To(a)
  BY Ids DEF NoFrame, To
<1>3. ASSUME NEW S
      PROVE  NumberAt([x \in S |-> NoFrame], To(a)) = 0
  <2>1. {x \in DOMAIN [y \in S |-> NoFrame] : [y \in S |-> NoFrame][x] \in To(a)} = {}
    BY <1>2
  <2> QED
    BY <2>1, FS_EmptySet, Zenon DEF NumberAt
<1>4. NumberIn(sock, To(a)) = 0 /\ NumberIn(rxq, To(a)) = 0
  BY <1>1, NumberInEmpty, Zenon
<1>5. NumberAt(pollBuf, To(a)) = 0 /\ NumberAt(got, To(a)) = 0
  BY <1>1, <1>3, Zenon
<1>6. wire[a] = 0
  BY <1>1
<1> QED
  BY <1>4, <1>5, <1>6 DEF CopiesOf

\* A request has at most two copies in every reachable state.
LEMMA CopiesAlways == Spec => []CopyInv
<1>1. FlowInv /\ CopyInv /\ [Next]_vars => CopyInv'
  BY StepCopies
<1> QED
  BY <1>1, InitCopies, FlowAlways, PTL DEF Spec

-----------------------------------------------------------------------------
(* SimpleNetwork implements RequestReply.                                  *)

\* The key of a request is one of the keys of the service.
ServiceKeys == {addr.address : addr \in Addrs} \X (0..(TagSpace - 1))
KeysInv == \A r \in 1..Len(reqs) : flow_key(reqs[r]) \in ServiceKeys

LinkInv == AnswerInv /\ CopyInv /\ KeysInv /\ HandlerPanicNeedsAbandon

\* What the service is told of a call.
CallKey(r) == IF CallStatus(r) = "none" THEN <<>> ELSE flow_key(reqs[r])
ServiceStatus == [r \in ReqIds |-> CallStatus(r)]
ServiceKey == [r \in ReqIds |-> CallKey(r)]
ServiceAnswer == [r \in ReqIds |-> got[r].ans]

\* Keys stay among those of the service.
LEMMA StepKeys ==
  ASSUME Typed, KeysInv, [Next]_vars
  PROVE  KeysInv'
<1>1. CASE reqs' = reqs
  BY <1>1, Zenon DEF KeysInv
<1>2. ASSUME NEW c \in Callers, Builds(c)
      PROVE  KeysInv'
  <2> DEFINE n == Len(reqs) + 1
  <2>1. /\ reqs' \in Seq(MsgFlowTag) /\ Len(reqs') = n
        /\ \A r \in 1..Len(reqs) : reqs'[r] = reqs[r]
        /\ \E addr \in Addrs : reqs'[n].dest_eid = addr.address
    BY <1>2, Zenon DEF Builds
  <2>2. Len(reqs) \in Nat
    BY TypeParts DEF Typed, CallType
  <2>3. reqs'[n] \in MsgFlowTag
    BY <2>1, <2>2
  <2>4. reqs'[n].msg_tag \in 0..(TagSpace - 1)
    BY <2>3 DEF MsgFlowTag
  <2>5. flow_key(reqs'[n]) \in ServiceKeys
    BY <2>1, <2>4 DEF flow_key, ServiceKeys
  <2>6. \A r \in 1..Len(reqs') : r \in 1..Len(reqs) \/ r = n
    BY <2>1, <2>2
  <2> QED
    BY <2>1, <2>5, <2>6, Zenon DEF KeysInv
<1>3. reqs' = reqs \/ \E c \in Callers : Builds(c)
  BY StepKinds, Zenon DEF Keeps, Tracks, Leaves, Delivers, Dies
<1> QED
  BY <1>1, <1>2, <1>3, Zenon

\* All of this holds in every reachable state.
LEMMA LinkAlways == Spec => []LinkInv
<1>1. Init => KeysInv
  BY DEF Init, KeysInv
<1>2. FlowInv /\ KeysInv /\ [Next]_vars => KeysInv'
  BY StepKeys DEF FlowInv
<1>3. Spec => []KeysInv
  BY <1>1, <1>2, FlowAlways, PTL DEF Spec
<1>4. AnswerInv /\ CopyInv /\ KeysInv /\ HandlerPanicNeedsAbandon => LinkInv
  BY DEF LinkInv
<1> QED
  BY <1>3, <1>4, AnswersAlways, CopiesAlways, HandlerDiesOnlyOfAbandon, PTL

\* The status of a call, case by case.
LEMMA StatusCases ==
  ASSUME NEW r
  PROVE  /\ chan[r] = "sent" => CallStatus(r) = "answered"
         /\ chan[r] = "taken" => CallStatus(r) = "returned"
         /\ chan[r] = "dropped" /\ got[r] = NoFrame => CallStatus(r) = "failed"
         /\ chan[r] = "dropped" /\ got[r] # NoFrame => CallStatus(r) = "discarded"
         /\ chan[r] = "open" /\ r \in PendingIds => CallStatus(r) = "pending"
         /\ chan[r] = "open" /\ r \notin PendingIds => CallStatus(r) = "none"
         /\ chan[r] = "unused" => CallStatus(r) = "none"
  BY DEF CallStatus

\* The same after a step.
LEMMA StatusCasesPrime ==
  ASSUME NEW r
  PROVE  /\ chan'[r] = "sent" => CallStatus(r)' = "answered"
         /\ chan'[r] = "taken" => CallStatus(r)' = "returned"
         /\ chan'[r] = "dropped" /\ got'[r] = NoFrame => CallStatus(r)' = "failed"
         /\ chan'[r] = "dropped" /\ got'[r] # NoFrame => CallStatus(r)' = "discarded"
         /\ chan'[r] = "open" /\ r \in PendingIds' => CallStatus(r)' = "pending"
         /\ chan'[r] = "open" /\ r \notin PendingIds' => CallStatus(r)' = "none"
         /\ chan'[r] = "unused" => CallStatus(r)' = "none"
  BY DEF CallStatus

\* A call whose channel, datagram and flow stay keeps its status.
LEMMA StatusStays ==
  ASSUME NEW r, chan'[r] = chan[r], got'[r] = got[r], r \in PendingIds' <=> r \in PendingIds
  PROVE  CallStatus(r)' = CallStatus(r)
  BY DEF CallStatus

\* A call the service knows of has a request, which stays.
LEMMA KnownCalls ==
  ASSUME FlowInv, NEW r \in ReqIds, CallStatus(r) # "none"
  PROVE  r \in 1..Len(reqs)
<1>1. chan[r] # "unused"
  BY StatusCases, Zenon
<1>2. r <= Len(reqs) /\ Len(reqs) \in Nat
  <2>1. ~(r > Len(reqs))
    BY <1>1, Zenon DEF FlowInv, CallInv
  <2> QED
    BY <2>1, PendingType, Ids
<1> QED
  BY <1>2, Ids

\* The functions of the service when one call moves, or none.
LEMMA ServiceExcept ==
  ASSUME NEW r \in ReqIds, NEW st, CallStatus(r)' = st,
         \A s \in ReqIds \ {r} : CallStatus(s)' = CallStatus(s)
  PROVE  ServiceStatus' = [ServiceStatus EXCEPT ![r] = st]
  BY DEF ServiceStatus

\* Keys stay when no call is added to those the service knows.
LEMMA ServiceKeyStays ==
  ASSUME FlowInv, reqs' = reqs \/ \E c \in Callers : Builds(c),
         NEW S, S \subseteq ReqIds,
         \A s \in S : CallStatus(s)' = "none" <=> CallStatus(s) = "none"
  PROVE  \A s \in S : CallKey(s)' = CallKey(s)
<1> SUFFICES ASSUME NEW s \in S PROVE CallKey(s)' = CallKey(s)
  OBVIOUS
<1>1. CASE CallStatus(s) = "none"
  BY <1>1 DEF CallKey
<1>2. CASE CallStatus(s) # "none"
  <2>1. s \in 1..Len(reqs)
    BY <1>2, KnownCalls
  <2>2. reqs'[s] = reqs[s]
    BY <2>1, Zenon DEF Builds
  <2> QED
    BY <1>2, <2>2, Zenon DEF CallKey
<1> QED
  BY <1>1, <1>2

\* What the steps of the service are in terms of these functions: a call,
LEMMA ServiceCalls ==
  ASSUME NEW r \in ReqIds, ServiceStatus[r] = "none",
         NEW k \in ServiceKeys, ServiceKey' = [ServiceKey EXCEPT ![r] = k],
         ServiceStatus' = [ServiceStatus EXCEPT ![r] =
                             IF handler = "running" THEN "pending" ELSE "failed"],
         ServiceAnswer' = ServiceAnswer, handler' = handler
  PROVE  Service!Call(r)
  BY DEF Service!Call, ServiceStatus, ServiceKey, ServiceKeys, ServiceAnswer, CallKey

\* its return,
LEMMA ServiceReturns ==
  ASSUME NEW r \in ReqIds, ServiceStatus[r] = "answered",
         ServiceStatus' = [ServiceStatus EXCEPT ![r] = "returned"],
         ServiceKey' = ServiceKey, ServiceAnswer' = ServiceAnswer, handler' = handler
  PROVE  Service!Return(r)
  BY DEF Service!Return, ServiceStatus, ServiceKey, ServiceAnswer, CallKey

\* its end without an answer,
LEMMA ServiceAbandons ==
  ASSUME NEW r \in ReqIds, ServiceStatus[r] \in {"pending", "answered"},
         ServiceStatus' = [ServiceStatus EXCEPT ![r] =
                             IF @ = "pending" THEN "failed" ELSE "discarded"],
         ServiceKey' = ServiceKey, ServiceAnswer' = ServiceAnswer, handler' = handler
  PROVE  Service!Abandon(r)
  BY DEF Service!Abandon, ServiceStatus, ServiceKey, ServiceAnswer, CallKey

\* The service counts as the network does.
LEMMA SameCardinality == \A S : Service!Cardinality(S) = Cardinality(S)
  BY DEF Service!Cardinality, Cardinality

\* an answer,
LEMMA ServiceAnswers ==
  ASSUME NEW r \in ReqIds, NEW a \in ReqIds \cup {0}, handler = "running",
         ServiceStatus[r] = "pending",
         a # 0 => /\ ServiceStatus[a] # "none" /\ ServiceKey[a] = ServiceKey[r]
                  /\ Cardinality({s \in ReqIds : ServiceAnswer[s] = a}) < 2,
         ServiceStatus' = [ServiceStatus EXCEPT ![r] = "answered"],
         ServiceAnswer' = [ServiceAnswer EXCEPT ![r] = a],
         ServiceKey' = ServiceKey, handler' = handler
  PROVE  Service!Answer(r, a)
<1> DEFINE Given == Service!Cardinality({s \in ReqIds : [q \in ReqIds |-> got[q].ans][s] = a})
<1>1. a # 0 => Given < 2
  BY SameCardinality, Zenon DEF ServiceAnswer
<1> HIDE DEF Given
<1>2. UNCHANGED (handler = "running")
  OBVIOUS
<1> QED
  BY <1>1, <1>2, Zenon DEF Service!Answer, ServiceStatus, ServiceKey, ServiceAnswer, CallKey, Given

\* and the death of the handler.
LEMMA ServiceDies ==
  ASSUME handler = "running", handler' = "panicked",
         NEW r \in ReqIds, ServiceStatus[r] = "failed",
         ServiceStatus' = ServiceStatus, ServiceKey' = ServiceKey, ServiceAnswer' = ServiceAnswer
  PROVE  Service!Die
<1>1. (handler' = "running") = FALSE
  OBVIOUS
<1> QED
  BY <1>1, Zenon DEF Service!Die, ServiceStatus, ServiceKey, ServiceAnswer, CallKey

\* The service sees nothing of a step that leaves the calls as they are.
LEMMA ServiceStutters ==
  ASSUME FlowInv, reqs' = reqs \/ \E c \in Callers : Builds(c), got' = got, handler' = handler,
         \A r \in ReqIds : CallStatus(r)' = CallStatus(r)
  PROVE  UNCHANGED Service!serviceVars
<1>1. \A r \in ReqIds : CallKey(r)' = CallKey(r)
  BY ServiceKeyStays
<1>2. ServiceStatus' = ServiceStatus /\ ServiceKey' = ServiceKey /\ ServiceAnswer' = ServiceAnswer
  BY <1>1 DEF ServiceStatus, ServiceKey, ServiceAnswer
<1>3. UNCHANGED (handler = "running")
  OBVIOUS
<1> QED
  BY <1>2, <1>3, Zenon DEF Service!serviceVars, ServiceStatus, ServiceKey, ServiceAnswer, CallKey

\* A request that is built is not yet a call of the service.
LEMMA ServiceBuilds ==
  ASSUME LinkInv, NEW c \in Callers, Builds(c)
  PROVE  UNCHANGED Service!serviceVars
<1>0. PICK n \in ReqIds : n = Len(reqs) + 1
  BY Zenon DEF Builds
<1>1. /\ FlowInv /\ CallInv /\ Len(reqs) \in Nat
      /\ chan \in [ReqIds -> {"unused", "open", "sent", "taken", "dropped"}]
  BY TypeParts, PendingType, Zenon DEF LinkInv, AnswerInv, FlowInv, Typed, CallType
<1>2. /\ n \in ReqIds /\ chan' = [chan EXCEPT ![n] = "open"]
      /\ flows' = flows /\ got' = got /\ handler' = handler
  BY <1>0, Zenon DEF Builds, flagVars
<1>3. PendingIds' = PendingIds
  BY <1>2, Zenon DEF PendingIds
<1>4. chan[n] = "unused"
  BY <1>0, <1>1, <1>2 DEF CallInv
<1>5. n \notin PendingIds
  BY <1>0, <1>1, PendingType
<1>6. chan'[n] = "open" /\ \A r \in ReqIds : r # n => chan'[r] = chan[r]
  BY <1>1, <1>2
<1>7. CallStatus(n) = "none" /\ CallStatus(n)' = "none"
  BY <1>3, <1>4, <1>5, <1>6, StatusCases, StatusCasesPrime, Zenon
<1>8. ASSUME NEW r \in ReqIds PROVE CallStatus(r)' = CallStatus(r)
  <2>1. CASE r = n
    BY <1>7, <2>1, Zenon
  <2>2. CASE r # n
    BY <1>2, <1>3, <1>6, <2>2, StatusStays, Zenon
  <2> QED
    BY <2>1, <2>2
<1> QED
  BY <1>1, <1>2, <1>8, ServiceStutters, Zenon

\* One call becomes known to the service.
LEMMA ServiceNewCall ==
  ASSUME LinkInv, NEW r \in ReqIds, r <= Len(reqs), reqs' = reqs, got' = got, handler' = handler,
         CallStatus(r) = "none",
         CallStatus(r)' = (IF handler = "running" THEN "pending" ELSE "failed"),
         \A s \in ReqIds \ {r} : CallStatus(s)' = CallStatus(s)
  PROVE  Service!Call(r)
<1> DEFINE k == flow_key(reqs[r])
<1>1. FlowInv /\ r \in 1..Len(reqs)
  BY PendingType, Ids DEF LinkInv, AnswerInv
<1>2. k \in ServiceKeys
  BY <1>1, Zenon DEF LinkInv, KeysInv
<1>3. CallStatus(r)' # "none"
  OBVIOUS
<1>4. CallKey(r)' = k
  BY <1>3 DEF CallKey
<1>5. \A s \in ReqIds \ {r} : CallKey(s)' = CallKey(s)
  <2> DEFINE S == ReqIds \ {r}
  <2>1. S \subseteq ReqIds /\ \A s \in S : CallStatus(s)' = "none" <=> CallStatus(s) = "none"
    OBVIOUS
  <2> HIDE DEF S
  <2>2. \A s \in S : CallKey(s)' = CallKey(s)
    BY <1>1, <2>1, ServiceKeyStays, Zenon
  <2> QED
    BY <2>2 DEF S
<1> HIDE DEF k
<1>6. ServiceKey' = [ServiceKey EXCEPT ![r] = k]
  BY <1>4, <1>5 DEF ServiceKey
<1>7. ServiceStatus' = [ServiceStatus EXCEPT ![r] =
                          IF handler = "running" THEN "pending" ELSE "failed"]
  <2> DEFINE st == IF handler = "running" THEN "pending" ELSE "failed"
  <2>1. CallStatus(r)' = st
    OBVIOUS
  <2> HIDE DEF st
  <2>2. ServiceStatus' = [ServiceStatus EXCEPT ![r] = st]
    BY <2>1, ServiceExcept, Zenon
  <2> QED
    BY <2>2 DEF st
<1>8. ServiceStatus[r] = "none" /\ ServiceAnswer' = ServiceAnswer
  BY DEF ServiceStatus, ServiceAnswer
<1> QED
  BY <1>2, <1>6, <1>7, <1>8, ServiceCalls, Zenon

\* A flow is pushed: the call is pending, and the handler alive.
LEMMA ServiceTracks ==
  ASSUME LinkInv, NEW c \in Callers, Tracks(c)
  PROVE  \E r \in ReqIds : Service!Call(r)
<1>0. PICK r : r = cur[c]
  OBVIOUS
<1>1. /\ FlowInv /\ CallInv /\ Typed
      /\ handler \in {"running", "panicked"}
  BY TypeParts, Zenon DEF LinkInv, AnswerInv, FlowInv, Typed, FlagType
<1>2. /\ pc[c] = "track" /\ poisoned = FALSE
      /\ flows' = Append(flows, [tag |-> reqs[r], id |-> r])
      /\ reqs' = reqs /\ chan' = chan /\ got' = got /\ handler' = handler
  BY <1>0, Zenon DEF Tracks, flagVars
<1>3. Active(c)
  BY <1>2 DEF Active
<1>4. r \in ReqIds /\ r <= Len(reqs) /\ reqs[r] \in MsgFlowTag
  BY <1>0, <1>1, <1>3, ActiveCall, Zenon
<1>5. chan[r] = "open" /\ r \notin PendingIds
  BY <1>0, <1>1, <1>2, Zenon DEF CallInv
<1>6. PendingIds' = PendingIds \cup {r}
  BY <1>1, <1>2, <1>4, <1>5, PushProps, Zenon
<1>7. handler = "running"
  BY <1>1, <1>2 DEF LinkInv, HandlerPanicNeedsAbandon
<1>8. r \in PendingIds' /\ \A s \in ReqIds \ {r} : s \in PendingIds' <=> s \in PendingIds
  BY <1>6
<1>9. CallStatus(r) = "none" /\ CallStatus(r)' = "pending"
  BY <1>2, <1>5, <1>8, StatusCases, StatusCasesPrime, Zenon
<1>10. \A s \in ReqIds \ {r} : CallStatus(s)' = CallStatus(s)
  BY <1>2, <1>8, StatusStays, Zenon
<1>11. CallStatus(r)' = (IF handler = "running" THEN "pending" ELSE "failed")
  BY <1>7, <1>9
<1>12. Service!Call(r)
  BY <1>2, <1>4, <1>9, <1>10, <1>11, ServiceNewCall, Zenon
<1> QED
  BY <1>4, <1>12

\* A call ends: it returns its answer, is given up, or fails on a dead handler.
LEMMA ServiceLeaves ==
  ASSUME LinkInv, NEW c \in Callers, NEW st \in {"taken", "dropped"}, Leaves(c, st)
  PROVE  \E r \in ReqIds : Service!Call(r) \/ Service!Return(r) \/ Service!Abandon(r)
<1>0. PICK r : r = cur[c]
  OBVIOUS
<1>1. /\ FlowInv /\ CallInv /\ Typed /\ GotInv
      /\ handler \in {"running", "panicked"}
      /\ chan \in [ReqIds -> {"unused", "open", "sent", "taken", "dropped"}]
  BY TypeParts, Zenon DEF LinkInv, AnswerInv, FlowInv, Typed, FlagType, CallType
<1>2. /\ Active(c) /\ (pc[c] = "track" => poisoned = TRUE)
      /\ (st = "taken" => pc[c] = "await" /\ chan[r] = "sent")
      /\ chan' = [chan EXCEPT ![r] = st]
      /\ flows' = flows /\ reqs' = reqs /\ got' = got /\ handler' = handler
  BY <1>0, Zenon DEF Leaves, flagVars
<1>3. r \in ReqIds /\ r <= Len(reqs) /\ (pc[c] = "track" \/ Tracked(c))
  BY <1>0, <1>1, <1>2, ActiveCall, Zenon
<1>4. chan'[r] = st /\ \A s \in ReqIds \ {r} : chan'[s] = chan[s]
  BY <1>1, <1>2, <1>3
<1>5. PendingIds' = PendingIds
  BY <1>2, Zenon DEF PendingIds
<1>6. \A s \in ReqIds \ {r} : CallStatus(s)' = CallStatus(s)
  BY <1>2, <1>4, <1>5, StatusStays, Zenon
<1>7. ServiceAnswer' = ServiceAnswer
  BY <1>2, Zenon DEF ServiceAnswer
<1>8. ASSUME CallStatus(r) # "none", CallStatus(r)' # "none"
      PROVE  ServiceKey' = ServiceKey
  <2>1. \A s \in ReqIds : CallStatus(s)' = "none" <=> CallStatus(s) = "none"
    BY <1>6, <1>8, Zenon
  <2>2. \A s \in ReqIds : CallKey(s)' = CallKey(s)
    BY <1>1, <1>2, <2>1, ServiceKeyStays
  <2> QED
    BY <2>2 DEF ServiceKey
<1>9. ServiceStatus[r] = CallStatus(r)
  BY <1>3 DEF ServiceStatus
<1>10. CASE pc[c] = "track"
  <2>1. chan[r] = "open" /\ r \notin PendingIds
    BY <1>0, <1>1, <1>10, Zenon DEF CallInv
  <2>2. got[r] = NoFrame
    BY <1>1, <1>3, <2>1 DEF GotInv
  <2>3. st = "dropped"
    BY <1>2, <1>10
  <2>4. handler = "panicked"
    BY <1>2, <1>10 DEF LinkInv, HandlerPanicNeedsAbandon
  <2>5. CallStatus(r) = "none" /\ CallStatus(r)' = "failed"
    BY <1>2, <1>4, <2>1, <2>2, <2>3, StatusCases, StatusCasesPrime, Zenon
  <2>6. CallStatus(r)' = (IF handler = "running" THEN "pending" ELSE "failed")
    BY <2>4, <2>5
  <2>7. Service!Call(r)
    BY <1>2, <1>3, <1>6, <2>5, <2>6, ServiceNewCall, Zenon
  <2> QED
    BY <1>3, <2>7
<1>11. CASE Tracked(c) /\ st = "taken"
  <2>1. CallStatus(r) = "answered" /\ CallStatus(r)' = "returned"
    BY <1>2, <1>4, <1>11, StatusCases, StatusCasesPrime, Zenon
  <2>2. ServiceStatus' = [ServiceStatus EXCEPT ![r] = "returned"]
    BY <1>3, <1>6, <2>1, ServiceExcept, Zenon
  <2>3. ServiceKey' = ServiceKey
    BY <1>8, <2>1
  <2>4. Service!Return(r)
    BY <1>2, <1>3, <1>7, <1>9, <2>1, <2>2, <2>3, ServiceReturns
  <2> QED
    BY <1>3, <2>4
<1>12. CASE Tracked(c) /\ st = "dropped"
  <2>1. \/ chan[r] = "open" /\ r \in PendingIds /\ got[r] = NoFrame
        \/ chan[r] = "sent" /\ got[r] # NoFrame
    BY <1>0, <1>1, <1>3, <1>12 DEF CallInv, GotInv
  <2>2. \/ CallStatus(r) = "pending" /\ CallStatus(r)' = "failed"
        \/ CallStatus(r) = "answered" /\ CallStatus(r)' = "discarded"
    BY <1>2, <1>4, <1>12, <2>1, StatusCases, StatusCasesPrime, Zenon
  <2> DEFINE new == IF ServiceStatus[r] = "pending" THEN "failed" ELSE "discarded"
  <2>3. CallStatus(r)' = new
    BY <1>9, <2>2
  <2> HIDE DEF new
  <2>4. ServiceStatus' = [ServiceStatus EXCEPT ![r] = CallStatus(r)']
    BY <1>3, <1>6, ServiceExcept
  <2>5. ServiceStatus' = [ServiceStatus EXCEPT ![r] =
                            IF @ = "pending" THEN "failed" ELSE "discarded"]
    BY <2>3, <2>4 DEF new
  <2>6. ServiceKey' = ServiceKey
    BY <1>8, <2>2
  <2>7. ServiceStatus[r] \in {"pending", "answered"}
    BY <1>9, <2>2
  <2>8. Service!Abandon(r)
    BY <1>2, <1>3, <1>7, <2>5, <2>6, <2>7, ServiceAbandons
  <2> QED
    BY <1>3, <2>8
<1> QED
  BY <1>3, <1>10, <1>11, <1>12

\* A request an answer to which is in the callback channel is one the service
\* knows, and fewer than two calls were given answers to it.
LEMMA AnsweredRequest ==
  ASSUME LinkInv, rxq # <<>>, NEW a \in ReqIds, a <= Len(reqs), Head(rxq).ans = a
  PROVE  /\ CallStatus(a) # "none"
         /\ Cardinality({s \in ReqIds : ServiceAnswer[s] = a}) < 2
<1> DEFINE V == To(a)
           w == wire[a]
           s0 == NumberIn(sock, V)
           b == NumberAt(pollBuf, V)
           q == NumberIn(rxq, V)
           t == NumberIn(Tail(rxq), V)
           g == NumberAt(got, V)
<1>1. /\ FlowInv /\ CallInv /\ TypeOK /\ RxType /\ FlowType /\ GotInv /\ CopyInv
      /\ chan \in [ReqIds -> {"unused", "open", "sent", "taken", "dropped"}]
  BY TypeParts, Zenon DEF LinkInv, AnswerInv, FlowInv, Typed, CallType
<1>2. rxq \in Seq(Frame) /\ got \in [ReqIds -> Frame]
  BY <1>1, Zenon DEF RxType, FlowType
<1>3. w \in Nat /\ s0 \in Nat /\ b \in Nat /\ q \in Nat /\ g \in Nat
  BY <1>1, CountTypes, Zenon
<1>4. Head(rxq) \in V
  BY <1>2, TailProps DEF To
<1>5. q = t + 1 /\ t \in Nat
  <2>1. q = t + OneIn(Head(rxq), V) /\ t \in Nat
    BY <1>2, NumberInTail, Zenon
  <2>2. OneIn(Head(rxq), V) = 1
    BY <1>4, OneInType, Zenon
  <2> QED
    BY <2>1, <2>2, Zenon
<1>6. CopiesOf(a) = w + s0 + b + q + g /\ CopiesOf(a) <= 2 /\ (NotSent(a) => CopiesOf(a) = 0)
  BY <1>1, Zenon DEF CopyInv, CopiesOf
<1>7. g < 2 /\ CopiesOf(a) # 0
  <2> HIDE DEF V, w, s0, b, q, t, g
  <2> QED
    BY <1>3, <1>5, <1>6
<1>8. CallStatus(a) # "none"
  <2>1. chan[a] # "unused"
    <3>1. ~(a > Len(reqs))
      BY <1>1, PendingType, Ids
    <3> QED
      BY <1>1, <3>1, Zenon DEF CallInv
  <2>2. CASE chan[a] = "open"
    <3>1. PICK c \in Callers : Active(c) /\ cur[c] = a
      BY <1>1, <2>2 DEF GotInv
    <3>2. ~Early(c)
      BY <1>6, <1>7, <3>1, Zenon DEF NotSent
    <3>3. Tracked(c)
      BY <3>1, <3>2 DEF Early, Active, Tracked
    <3>4. a \in PendingIds
      BY <1>1, <2>2, <3>1, <3>3 DEF CallInv
    <3>5. CallStatus(a) = "pending"
      BY <2>2, <3>4, StatusCases, Zenon
    <3> QED
      BY <3>5
  <2>3. CASE chan[a] \in {"sent", "taken", "dropped"}
    <3>1. CallStatus(a) \in {"answered", "returned", "failed", "discarded"}
      BY <2>3, StatusCases, Zenon
    <3> QED
      BY <3>1
  <2> QED
    BY <1>1, <2>1, <2>2, <2>3
<1>9. {s \in ReqIds : ServiceAnswer[s] = a} = {x \in DOMAIN got : got[x] \in To(a)}
  BY <1>2 DEF ServiceAnswer, To
<1>10. Cardinality({s \in ReqIds : ServiceAnswer[s] = a}) = g
  BY <1>9, Zenon DEF NumberAt
<1> QED
  BY <1>7, <1>8, <1>10, Zenon

\* A datagram is delivered: a pending call is answered.
LEMMA ServiceDelivers ==
  ASSUME LinkInv, NEW i \in 1..Len(flows), Delivers(i)
  PROVE  \E r \in ReqIds, a \in ReqIds \cup {0} : Service!Answer(r, a)
<1>1. /\ FlowInv /\ CallInv /\ Typed /\ AnswerInv /\ FrameInv /\ FlowType
      /\ chan \in [ReqIds -> {"unused", "open", "sent", "taken", "dropped"}]
  BY TypeParts, Zenon DEF LinkInv, AnswerInv, FlowInv, Typed, CallType
<1>2. PICK r \in ReqIds : r = flows[i].id
  BY <1>1, PendingType
<1>3. PICK f : f = Head(rxq)
  OBVIOUS
<1>4. /\ rxq # <<>> /\ handler = "running"
      /\ answers(create_tag(Head(rxq)), flows[i].tag)
      /\ flows' = RemoveAt(flows, i) /\ chan[r] = "open"
      /\ chan' = [chan EXCEPT ![r] = "sent"]
      /\ got' = [got EXCEPT ![r] = f]
      /\ reqs' = reqs /\ handler' = handler
  BY <1>2, <1>3, Zenon DEF Delivers, flagVars
<1>5. f \in SolidFrame /\ (f.ans # 0 => SameKey(reqs, f.ans, r))
  BY <1>1, <1>2, <1>3, <1>4, AnswersKeepKeys, Zenon
<1>6. PICK a \in ReqIds \cup {0} : a = f.ans
  BY <1>5 DEF SolidFrame, GoodFrame, Frame
<1>7. PendingIds' = PendingIds \ {r} /\ r \in PendingIds
  <2>1. PendingIds' = PendingIds \ {r}
    BY <1>1, <1>2, <1>4, TakeProps, Zenon
  <2> QED
    BY <1>2, <2>1, Zenon DEF PendingIds
<1>8. /\ chan'[r] = "sent" /\ got'[r] = f
      /\ \A s \in ReqIds \ {r} : /\ chan'[s] = chan[s] /\ got'[s] = got[s]
                                 /\ s \in PendingIds' <=> s \in PendingIds
  BY <1>1, <1>4, <1>7 DEF FlowType
<1>9. \A s \in ReqIds \ {r} : CallStatus(s)' = CallStatus(s)
  BY <1>8, StatusStays, Zenon
<1>10. CallStatus(r) = "pending" /\ CallStatus(r)' = "answered"
  BY <1>4, <1>7, <1>8, StatusCases, StatusCasesPrime, Zenon
<1>11. ServiceStatus' = [ServiceStatus EXCEPT ![r] = "answered"] /\ ServiceStatus[r] = "pending"
  <2>1. ServiceStatus' = [ServiceStatus EXCEPT ![r] = "answered"]
    BY <1>9, <1>10, ServiceExcept, Zenon
  <2> QED
    BY <1>10, <2>1 DEF ServiceStatus
<1>12. ServiceAnswer' = [ServiceAnswer EXCEPT ![r] = a]
  BY <1>6, <1>8 DEF ServiceAnswer
<1>13. ServiceKey' = ServiceKey
  <2>1. \A s \in ReqIds : CallStatus(s)' = "none" <=> CallStatus(s) = "none"
    <3> SUFFICES ASSUME NEW s \in ReqIds PROVE CallStatus(s)' = "none" <=> CallStatus(s) = "none"
      OBVIOUS
    <3> QED
      BY <1>9, <1>10
  <2>2. \A s \in ReqIds : CallKey(s)' = CallKey(s)
    BY <1>1, <1>4, <2>1, ServiceKeyStays
  <2> QED
    BY <2>2 DEF ServiceKey
<1>14. ASSUME a # 0
       PROVE  /\ ServiceStatus[a] # "none" /\ ServiceKey[a] = ServiceKey[r]
              /\ Cardinality({s \in ReqIds : ServiceAnswer[s] = a}) < 2
  <2>1. a \in ReqIds /\ SameKey(reqs, a, r)
    BY <1>5, <1>6, <1>14
  <2>2. a <= Len(reqs)
    BY <2>1 DEF SameKey
  <2>3. CallStatus(a) # "none" /\ Cardinality({s \in ReqIds : ServiceAnswer[s] = a}) < 2
    BY <1>3, <1>4, <1>6, <2>1, <2>2, AnsweredRequest, Zenon
  <2>4. CallKey(a) = CallKey(r)
    BY <1>10, <2>1, <2>3 DEF CallKey, SameKey
  <2>5. ServiceStatus[a] = CallStatus(a) /\ ServiceKey[a] = CallKey(a) /\ ServiceKey[r] = CallKey(r)
    BY <2>1 DEF ServiceStatus, ServiceKey
  <2> QED
    BY <2>3, <2>4, <2>5, Zenon
<1>15. Service!Answer(r, a)
  BY <1>4, <1>11, <1>12, <1>13, <1>14, ServiceAnswers, Zenon
<1> QED
  BY <1>15

\* The handler dies of a flow whose call was given up.
LEMMA ServiceDeath ==
  ASSUME LinkInv, NEW i \in 1..Len(flows), Dies(i)
  PROVE  Service!Die
<1>1. /\ FlowInv /\ CallInv /\ GotInv
  BY Zenon DEF LinkInv, AnswerInv, FlowInv
<1>2. PICK r \in ReqIds : r = flows[i].id
  BY <1>1, PendingType
<1>3. /\ handler = "running" /\ handler' = "panicked"
      /\ flows' = RemoveAt(flows, i)
      /\ reqs' = reqs /\ chan' = chan /\ got' = got
  BY Zenon DEF Dies
<1>4. chan[r] = "dropped"
  BY <1>1, <1>2, TakesInv, Zenon
<1>5. PendingIds' = PendingIds \ {r} /\ r \in PendingIds
  <2>1. PendingIds' = PendingIds \ {r}
    BY <1>1, <1>2, <1>3, TakeProps, Zenon
  <2> QED
    BY <1>2, <2>1, Zenon DEF PendingIds
<1>6. CallStatus(r) = "failed" /\ CallStatus(r)' = "failed"
  <2>1. got[r] = NoFrame
    BY <1>1, <1>5 DEF GotInv
  <2> QED
    BY <1>3, <1>4, <2>1, StatusCases, StatusCasesPrime, Zenon
<1>7. \A s \in ReqIds : CallStatus(s)' = CallStatus(s)
  <2> SUFFICES ASSUME NEW s \in ReqIds PROVE CallStatus(s)' = CallStatus(s)
    OBVIOUS
  <2>1. CASE s = r
    BY <1>6, <2>1, Zenon
  <2>2. CASE s # r
    <3>1. s \in PendingIds' <=> s \in PendingIds
      BY <1>5, <2>2
    <3> QED
      BY <1>3, <3>1, StatusStays, Zenon
  <2> QED
    BY <2>1, <2>2
<1>8. \A s \in ReqIds : CallKey(s)' = CallKey(s)
  BY <1>1, <1>3, <1>7, ServiceKeyStays
<1>9. /\ ServiceStatus' = ServiceStatus /\ ServiceKey' = ServiceKey
      /\ ServiceAnswer' = ServiceAnswer /\ ServiceStatus[r] = "failed"
  BY <1>3, <1>6, <1>7, <1>8 DEF ServiceStatus, ServiceKey, ServiceAnswer
<1> QED
  BY <1>3, <1>9, ServiceDies, Zenon

\* Initially there are no calls.
LEMMA ServiceStarts == Init => Service!Init
<1> SUFFICES ASSUME Init PROVE Service!Init
  OBVIOUS
<1>1. /\ chan = [r \in ReqIds |-> "unused"] /\ got = [r \in ReqIds |-> NoFrame]
      /\ handler = "running"
  BY Zenon DEF Init
<1>2. \A r \in ReqIds : chan[r] = "unused" /\ got[r].ans = 0
  BY <1>1 DEF NoFrame
<1>3. \A r \in ReqIds : CallStatus(r) = "none"
  BY <1>2, StatusCases, Zenon
<1> QED
  BY <1>1, <1>2, <1>3 DEF Service!Init, Service!NoKey

\* Every step of the network is one of the service, or none.
LEMMA ServiceStep ==
  ASSUME LinkInv, [Next]_vars
  PROVE  [Service!Next]_(Service!serviceVars)
<1>1. FlowInv /\ Typed
  BY Zenon DEF LinkInv, AnswerInv, FlowInv
<1>2. CASE Keeps
  <2>1. /\ flows' = flows /\ reqs' = reqs /\ chan' = chan /\ got' = got /\ handler' = handler
    BY <1>2, Zenon DEF Keeps, flagVars
  <2>2. \A r \in ReqIds : CallStatus(r)' = CallStatus(r)
    BY <2>1, StatusStays, Zenon DEF PendingIds
  <2>3. UNCHANGED Service!serviceVars
    BY <1>1, <2>1, <2>2, ServiceStutters, Zenon
  <2> QED
    BY <2>3, Zenon
<1>3. CASE \E c \in Callers : Builds(c)
  BY <1>3, ServiceBuilds, Zenon
<1>4. CASE \E c \in Callers : Tracks(c)
  <2>1. \E r \in ReqIds : Service!Call(r)
    BY <1>4, ServiceTracks, Zenon
  <2> QED
    BY <2>1, Zenon DEF Service!Next
<1>5. CASE \E c \in Callers, st \in {"taken", "dropped"} : Leaves(c, st)
  <2>1. \E r \in ReqIds : Service!Call(r) \/ Service!Return(r) \/ Service!Abandon(r)
    BY <1>5, ServiceLeaves, Zenon
  <2> QED
    BY <2>1, Zenon DEF Service!Next
<1>6. CASE \E i \in 1..Len(flows) : Delivers(i)
  <2>1. \E r \in ReqIds, a \in ReqIds \cup {0} : Service!Answer(r, a)
    BY <1>6, ServiceDelivers, Zenon
  <2> QED
    BY <2>1, Zenon DEF Service!Next
<1>7. CASE \E i \in 1..Len(flows) : Dies(i)
  <2>1. Service!Die
    BY <1>7, ServiceDeath, Zenon
  <2> QED
    BY <2>1, Zenon DEF Service!Next
<1> QED
  BY <1>1, <1>2, <1>3, <1>4, <1>5, <1>6, <1>7, StepKinds, Zenon

\* SimpleNetwork implements RequestReply, for any number of tasks, requests,
\* tags and buffered datagrams: over all the locks, queues, panics and
\* cancellations of sendto (simple_network.rs:215-290) and the scan of
\* callback_handler (112-181), a call is completed at most once, while it is
\* pending, by an answer with its key; no request's answers complete more than
\* two calls; and the handler dies only after a call was given up.
THEOREM NetworkImplementsService == Spec => ImplementsService
<1>1. LinkInv /\ [Next]_vars => [Service!Next]_(Service!serviceVars)
  BY ServiceStep
<1> QED
  BY <1>1, ServiceStarts, LinkAlways, PTL DEF Spec, ImplementsService, Service!Spec

-----------------------------------------------------------------------------
(* What a pending call waits for is not dropped.                           *)

\* A poll_socket task holds a datagram only between recv_from and send, and
\* every request owns its tag.
PathInv ==
  /\ \A p \in Pollers : poll[p] # "send" => pollBuf[p] = NoFrame
  /\ \A r \in 1..Len(reqs) : reqs[r].tag_owner = TRUE

\* Every step keeps this.
LEMMA StepPath ==
  ASSUME Typed, PathInv, [Next]_vars
  PROVE  PathInv'
<1>1. RxType /\ CallType
  BY TypeParts, Zenon DEF Typed
<1>2. \A r \in 1..Len(reqs') : reqs'[r].tag_owner = TRUE
  <2>1. CASE reqs' = reqs
    BY <2>1, Zenon DEF PathInv
  <2>2. ASSUME NEW c \in Callers, Builds(c), NEW r \in 1..Len(reqs')
        PROVE  reqs'[r].tag_owner = TRUE
    <3>1. /\ Len(reqs') = Len(reqs) + 1
          /\ \A s \in 1..Len(reqs) : reqs'[s] = reqs[s]
          /\ reqs'[Len(reqs) + 1].tag_owner = TRUE
      BY <2>2, Zenon DEF Builds
    <3>2. r \in 1..Len(reqs) \/ r = Len(reqs) + 1
      BY <1>1, <2>2, <3>1 DEF CallType
    <3> QED
      BY <3>1, <3>2, Zenon DEF PathInv
  <2>3. reqs' = reqs \/ \E c \in Callers : Builds(c)
    BY StepKinds, Zenon DEF Keeps, Tracks, Leaves, Delivers, Dies
  <2> QED
    BY <2>1, <2>2, <2>3, Zenon
<1>3. CASE /\ UNCHANGED pollBuf
           /\ \A p \in Pollers : poll[p] = "send" => poll'[p] = "send"
  BY <1>2, <1>3, Zenon DEF PathInv
<1>4. CASE UNCHANGED <<poll, pollBuf>>
  BY <1>2, <1>4, Zenon DEF PathInv
<1>5. ASSUME NEW p \in Pollers, Attach(p)
      PROVE  PathInv'
  <2>1. /\ UNCHANGED pollBuf
        /\ poll' = poll \/ (poll[p] = "unbound" /\ poll' = [poll EXCEPT ![p] = "recv"])
    BY <1>5, Zenon DEF Attach, add_physical_binding, add_physical_binding_queue, spawn_poll, devVars
  <2>2. \A q \in Pollers : poll[q] = "send" => poll'[q] = "send"
    BY <1>1, <2>1 DEF RxType
  <2> QED
    BY <1>3, <2>1, <2>2, Zenon
<1>6. ASSUME NEW p \in Pollers, PollTask(p)
      PROVE  PathInv'
  <2>1. CASE poll_socket_recv(p)
    <3>1. \/ UNCHANGED <<poll, pollBuf>>
          \/ /\ poll' = [poll EXCEPT ![p] = "send"]
             /\ pollBuf' = [pollBuf EXCEPT ![p] = Head(sock)]
      BY <2>1, Zenon DEF poll_socket_recv
    <3>2. CASE /\ poll' = [poll EXCEPT ![p] = "send"]
               /\ pollBuf' = [pollBuf EXCEPT ![p] = Head(sock)]
      <4>1. \A q \in Pollers : poll'[q] # "send" => pollBuf'[q] = NoFrame
        BY <1>1, <3>2 DEF RxType, PathInv
      <4> QED
        BY <1>2, <4>1, Zenon DEF PathInv
    <3> QED
      BY <1>4, <3>1, <3>2, Zenon
  <2>2. CASE poll_socket_send(p)
    <3>1. /\ poll' = [poll EXCEPT ![p] = "recv"]
          /\ pollBuf' = [pollBuf EXCEPT ![p] = NoFrame]
      BY <2>2, Zenon DEF poll_socket_send
    <3>2. \A q \in Pollers : poll'[q] # "send" => pollBuf'[q] = NoFrame
      BY <1>1, <3>1 DEF RxType, PathInv
    <3> QED
      BY <1>2, <3>2, Zenon DEF PathInv
  <2>3. CASE poll_socket_panic(p)
    <3>1. /\ poll[p] = "recv" /\ poll' = [poll EXCEPT ![p] = "panicked"] /\ UNCHANGED pollBuf
      BY <2>3, Zenon DEF poll_socket_panic
    <3>2. \A q \in Pollers : poll[q] = "send" => poll'[q] = "send"
      BY <1>1, <3>1 DEF RxType
    <3> QED
      BY <1>3, <3>1, <3>2, Zenon
  <2> QED
    BY <1>6, <2>1, <2>2, <2>3, Zenon DEF PollTask, poll_socket
<1>7. CASE callback_handler \/ Peer
  BY <1>4, <1>7, HandlerCases, PeerCases, Zenon
<1>8. CASE \E c \in Callers : sendto(c)
  BY <1>4, <1>8, SendtoRx, Zenon
<1>9. CASE UNCHANGED vars \/ \E c \in Callers : socket_call(c) \/ bind_call(c)
  <2>1. UNCHANGED <<poll, pollBuf>>
    BY <1>9, Zenon DEF vars, socket_call, bind_call, devVars
  <2> QED
    BY <1>4, <2>1
<1> QED
  BY <1>5, <1>6, <1>7, <1>8, <1>9, Zenon DEF Next

\* It holds in every reachable state.
LEMMA PathAlways == Spec => []PathInv
<1>1. Init => PathInv
  <2> SUFFICES ASSUME Init PROVE PathInv
    OBVIOUS
  <2>1. reqs = <<>> /\ \A p \in Pollers : pollBuf[p] = NoFrame
    BY DEF Init, DevInit
  <2> QED
    BY <2>1 DEF PathInv
<1>2. Typed /\ PathInv /\ [Next]_vars => PathInv'
  BY StepPath
<1> QED
  BY <1>1, <1>2, TypedAlways, PTL DEF Spec

\* The datagrams on the way are those in the socket, in the hands of the
\* poll_socket tasks and in the callback channel.
LEMMA WayParts ==
  ASSUME Typed, NEW t
  PROVE  /\ OnTheWay(t) = NumberIn(sock, AnswersTo(t)) + NumberAt(pollBuf, AnswersTo(t))
                            + NumberIn(rxq, AnswersTo(t))
         /\ NumberIn(sock, AnswersTo(t)) \in Nat /\ NumberAt(pollBuf, AnswersTo(t)) \in Nat
         /\ NumberIn(rxq, AnswersTo(t)) \in Nat
<1>1. sock \in Seq(Frame) /\ rxq \in Seq(Frame) /\ pollBuf \in [Pollers -> Frame]
  BY TypeParts, Zenon DEF Typed, RxType
<1>2. NumberIn(sock, AnswersTo(t)) \in Nat /\ NumberIn(rxq, AnswersTo(t)) \in Nat
  BY <1>1, NumberInType, Zenon
<1> DEFINE B == {p \in Pollers : pollBuf[p] \in AnswersTo(t)}
<1>3. DOMAIN pollBuf = Pollers
  BY <1>1
<1>4. NumberAt(pollBuf, AnswersTo(t)) = Cardinality(B)
  BY <1>3, Zenon DEF NumberAt
<1>5. Cardinality(B) \in Nat
  <2>1. IsFiniteSet(Pollers)
    BY SimpleNetworkAssumption, Zenon
  <2>2. B \in SUBSET Pollers
    OBVIOUS
  <2> HIDE DEF B
  <2>3. IsFiniteSet(B)
    BY <2>1, <2>2, FS_Subset
  <2> QED
    BY <2>3, FS_CardinalityType
<1>6. OnTheWay(t) = NumberIn(sock, AnswersTo(t)) + Cardinality(B) + NumberIn(rxq, AnswersTo(t))
  BY Zenon DEF OnTheWay, NumberIn, At
<1> QED
  BY <1>2, <1>4, <1>5, <1>6, Zenon

\* The same in the next state.
LEMMA WayPartsPrime ==
  ASSUME Typed', NEW t
  PROVE  /\ OnTheWay(t)' = NumberIn(sock', AnswersTo(t)) + NumberAt(pollBuf', AnswersTo(t))
                            + NumberIn(rxq', AnswersTo(t))
         /\ NumberIn(sock', AnswersTo(t)) \in Nat /\ NumberAt(pollBuf', AnswersTo(t)) \in Nat
         /\ NumberIn(rxq', AnswersTo(t)) \in Nat
<1>1. (Typed
         => /\ OnTheWay(t) = NumberIn(sock, AnswersTo(t)) + NumberAt(pollBuf, AnswersTo(t))
                               + NumberIn(rxq, AnswersTo(t))
            /\ NumberIn(sock, AnswersTo(t)) \in Nat /\ NumberAt(pollBuf, AnswersTo(t)) \in Nat
            /\ NumberIn(rxq, AnswersTo(t)) \in Nat)'
  BY WayParts, PTL
<1> QED
  BY <1>1

\* What answers a flow is neither empty nor a runt, and is a frame.
LEMMA AnswersToProps ==
  ASSUME NEW t, NEW f
  PROVE  /\ f \in AnswersTo(t) => /\ f.len # "empty" /\ f.len # "runt"
                                  /\ answers(create_tag(f), t)
         /\ NoFrame \notin AnswersTo(t)
<1>1. f \in AnswersTo(t) => f.len \in {"short", "full"} /\ answers(create_tag(f), t)
  BY Zenon DEF AnswersTo
<1>2. NoFrame \in AnswersTo(t) => NoFrame.len \in {"short", "full"}
  BY Zenon DEF AnswersTo
<1>3. NoFrame.len = "empty"
  BY DEF NoFrame
<1> QED
  BY <1>1, <1>2, <1>3

\* poll_socket passes on what it received, as long as there is a handler.
LEMMA WayPoll ==
  ASSUME Typed, Typed', PathInv, NEW p \in Pollers, PollTask(p), rxOpen = TRUE, NEW t
  PROVE  OnTheWay(t)' >= OnTheWay(t)
<1> DEFINE V == AnswersTo(t)
           h == OneIn(Head(sock), V)
           o == OneIn(pollBuf[p], V)
           s == NumberIn(sock, V)
           s2 == NumberIn(sock', V)
           b == NumberAt(pollBuf, V)
           b2 == NumberAt(pollBuf', V)
           q == NumberIn(rxq, V)
           q2 == NumberIn(rxq', V)
<1>1. sock \in Seq(Frame) /\ rxq \in Seq(Frame) /\ pollBuf \in [Pollers -> Frame]
  BY TypeParts, Zenon DEF Typed, RxType
<1>2. OnTheWay(t) = s + b + q /\ s \in Nat /\ b \in Nat /\ q \in Nat
  BY WayParts, Zenon
<1>3. OnTheWay(t)' = s2 + b2 + q2 /\ s2 \in Nat /\ b2 \in Nat /\ q2 \in Nat
  BY WayPartsPrime, Zenon
<1>4. h \in Nat /\ o \in Nat
  BY OneInType, Zenon
<1>5. OneIn(NoFrame, V) = 0
  BY AnswersToProps, OneInType, Zenon
<1>6. ASSUME NEW f, pollBuf' = [pollBuf EXCEPT ![p] = f]
      PROVE  b2 + o = b + OneIn(f, V)
  <2>1. /\ DOMAIN pollBuf = Pollers /\ DOMAIN pollBuf' = Pollers /\ pollBuf'[p] = f
        /\ \A x \in Pollers \ {p} : pollBuf'[x] = pollBuf[x]
    BY <1>1, <1>6
  <2>2. IsFiniteSet(Pollers)
    BY SimpleNetworkAssumption, Zenon
  <2> HIDE DEF V
  <2>3. NumberAt(pollBuf', V) + OneIn(pollBuf[p], V)
          = NumberAt(pollBuf, V) + OneIn(pollBuf'[p], V)
    BY <2>1, <2>2, NumberAtExcept, SMT
  <2> QED
    BY <2>1, <2>3, Zenon
<1>7. SUFFICES s2 + b2 + q2 >= s + b + q
  BY <1>2, <1>3, Zenon
<1>8. CASE poll_socket_recv(p)
  <2>1. /\ poll[p] = "recv" /\ sock # <<>> /\ sock' = Tail(sock) /\ rxq' = rxq
        /\ \/ Head(sock).len = "empty" /\ UNCHANGED pollBuf
           \/ pollBuf' = [pollBuf EXCEPT ![p] = Head(sock)]
    BY <1>8, Zenon DEF poll_socket_recv
  <2>2. s = s2 + h
    BY <1>1, <2>1, NumberInTail, Zenon
  <2>3. CASE Head(sock).len = "empty" /\ UNCHANGED pollBuf
    <3>1. h = 0
      BY <2>3, AnswersToProps, OneInType, Zenon
    <3>2. b2 = b /\ q2 = q
      BY <2>1, <2>3, Zenon
    <3> HIDE DEF V, h, o, s, s2, b, b2, q, q2
    <3> QED
      BY <1>2, <1>3, <2>2, <3>1, <3>2
  <2>4. CASE pollBuf' = [pollBuf EXCEPT ![p] = Head(sock)]
    <3>1. poll[p] # "send"
      BY <2>1
    <3>2. o = 0
      BY <1>5, <3>1, Zenon DEF PathInv
    <3>3. b2 + o = b + h /\ q2 = q
      BY <1>6, <2>1, <2>4, Zenon
    <3> HIDE DEF V, h, o, s, s2, b, b2, q, q2
    <3> QED
      BY <1>2, <1>3, <1>4, <2>2, <3>2, <3>3
  <2> QED
    BY <2>1, <2>3, <2>4, Zenon
<1>9. CASE poll_socket_send(p)
  <2>1. /\ sock' = sock /\ rxq' = Append(rxq, pollBuf[p])
        /\ pollBuf' = [pollBuf EXCEPT ![p] = NoFrame]
    BY <1>9, Zenon DEF poll_socket_send
  <2>2. b2 + o = b + OneIn(NoFrame, V) /\ s2 = s
    BY <1>6, <2>1, Zenon
  <2>3. q2 = q + o
    <3>1. pollBuf[p] \in Frame
      BY <1>1
    <3>2. NumberIn(Append(rxq, pollBuf[p]), V) = q + o
      BY <1>1, <3>1, NumberInAppend, Zenon
    <3> QED
      BY <2>1, <3>2, Zenon
  <2> HIDE DEF V, h, o, s, s2, b, b2, q, q2
  <2> QED
    BY <1>2, <1>3, <1>4, <1>5, <2>2, <2>3
<1>10. CASE poll_socket_panic(p)
  <2>1. pollBuf' = pollBuf /\ sock' = sock /\ rxq' = rxq
    BY <1>10, Zenon DEF poll_socket_panic
  <2>2. s2 = s /\ b2 = b /\ q2 = q
    BY <2>1, Zenon
  <2> HIDE DEF V, h, o, s, s2, b, b2, q, q2
  <2> QED
    BY <1>2, <2>2
<1> QED
  BY <1>8, <1>9, <1>10, Zenon DEF PollTask, poll_socket

\* The peer only adds to what is on the way.
LEMMA WayPeer ==
  ASSUME Typed, Typed', Peer, NEW t
  PROVE  OnTheWay(t)' >= OnTheWay(t)
<1> DEFINE V == AnswersTo(t)
           s == NumberIn(sock, V)
           s2 == NumberIn(sock', V)
           b == NumberAt(pollBuf, V)
           q == NumberIn(rxq, V)
<1>1. TypeOK /\ sock \in Seq(Frame)
  BY TypeParts, Zenon DEF Typed, RxType
<1>2. pollBuf' = pollBuf /\ rxq' = rxq
  BY PeerCases, Zenon
<1>3. OnTheWay(t) = s + b + q /\ s \in Nat /\ b \in Nat /\ q \in Nat
  BY WayParts, Zenon
<1>4. OnTheWay(t)' = s2 + b + q /\ s2 \in Nat
  BY <1>2, WayPartsPrime, Zenon
<1>5. sock' = sock \/ \E f \in Frame : arrive(f)
  BY PeerCases, PeerFrameType, Zenon
<1>6. sock' = sock \/ \E f \in Frame : sock' = Append(sock, f)
  BY <1>1, <1>5, ArriveType, Zenon
<1>7. s2 >= s
  <2>1. CASE sock' = sock
    <3>1. s2 = s
      BY <2>1, Zenon
    <3> HIDE DEF V, s, s2
    <3> QED
      BY <1>3, <3>1
  <2>2. ASSUME NEW f \in Frame, sock' = Append(sock, f)
        PROVE  s2 >= s
    <3> DEFINE o == OneIn(f, V)
    <3>1. NumberIn(Append(sock, f), V) = NumberIn(sock, V) + OneIn(f, V)
      BY <1>1, NumberInAppend, Zenon
    <3>2. s2 = s + o /\ o \in Nat
      BY <2>2, <3>1, OneInType, Zenon
    <3> HIDE DEF V, s, s2, o
    <3> QED
      BY <1>3, <3>2
  <2> QED
    BY <1>6, <2>1, <2>2, Zenon
<1> HIDE DEF V, s, s2, b, q
<1> QED
  BY <1>3, <1>4, <1>7

\* Of two tags with the same tag owner, a datagram that answers the one answers
\* the other exactly when their keys are equal.
LEMMA KeyDecides ==
  ASSUME NEW f, NEW t, NEW u, t.tag_owner = u.tag_owner, answers(f, t)
  PROVE  answers(f, u) <=> flow_key(u) = flow_key(t)
<1>1. flow_key(u) = flow_key(t) <=> u.dest_eid = t.dest_eid /\ u.msg_tag = t.msg_tag
  BY DEF flow_key
<1>2. t.msg_tag = f.msg_tag /\ t.tag_owner # f.tag_owner /\ t.dest_eid = f.src_eid
  BY Zenon DEF answers
<1>3. u.tag_owner # f.tag_owner
  BY <1>2, Zenon
<1>4. answers(f, u) <=> u.msg_tag = f.msg_tag /\ u.dest_eid = f.src_eid
  BY <1>3, Zenon DEF answers
<1> QED
  BY <1>1, <1>2, <1>4, Zenon

\* Every pending flow owns its tag.
LEMMA OwnedFlows ==
  ASSUME FlowInv, PathInv, NEW i \in 1..Len(flows)
  PROVE  flows[i].tag.tag_owner = TRUE
<1>1. /\ flows[i].id \in 1..Len(reqs) /\ flows[i].tag = reqs[flows[i].id]
  BY PendingType, Ids DEF FlowInv, FlowTags
<1> QED
  BY <1>1, Zenon DEF PathInv

\* The handler takes a datagram that a flow with tag t waits for only to give
\* it to the oldest flow with that key, or dies of it.
LEMMA WayHandler ==
  ASSUME FlowInv, PathInv, Typed', callback_handler,
         NEW t, NEW k \in 1..Len(flows), t = flows[k].tag
  PROVE  \/ OnTheWay(t)' >= OnTheWay(t)
         \/ handler' = "panicked"
         \/ \E i \in 1..Len(flows) :
              /\ flow_key(flows[i].tag) = flow_key(t)
              /\ \A j \in 1..(i - 1) : flow_key(flows[j].tag) # flow_key(t)
              /\ chan[flows[i].id] = "open" /\ chan'[flows[i].id] = "sent"
<1>1. t = flows[k].tag
  OBVIOUS
<1> DEFINE V == AnswersTo(t)
           s == NumberIn(sock, V)
           b == NumberAt(pollBuf, V)
           q == NumberIn(rxq, V)
           q2 == NumberIn(rxq', V)
           h == OneIn(Head(rxq), V)
<1>2. /\ Typed /\ rxq \in Seq(Frame) /\ Len(flows) \in Nat
      /\ chan \in [ReqIds -> {"unused", "open", "sent", "taken", "dropped"}]
  BY TypeParts, PendingType, Zenon DEF FlowInv, Typed, RxType, CallType
<1>3. rxq # <<>> /\ pollBuf' = pollBuf /\ sock' = sock
  BY <1>2, HandlerCases, Zenon
<1>4. OnTheWay(t) = s + b + q /\ s \in Nat /\ b \in Nat /\ q \in Nat
  BY <1>2, WayParts, Zenon
<1>5. OnTheWay(t)' = s + b + q2 /\ q2 \in Nat
  BY <1>3, WayPartsPrime, Zenon
<1>6. q = NumberIn(Tail(rxq), V) + h
  BY <1>2, <1>3, NumberInTail, Zenon
<1>7. ASSUME rxq' = Tail(rxq), Head(rxq) \notin V
      PROVE  OnTheWay(t)' >= OnTheWay(t)
  <2>1. h = 0
    BY <1>7, OneInType, Zenon
  <2>2. q = q2 + h
    BY <1>6, <1>7, Zenon
  <2> HIDE DEF V, s, b, q, q2, h
  <2> QED
    BY <1>4, <1>5, <2>1, <2>2
<1>8. CASE callback_handler_skip
  <2>1. /\ rxq' = Tail(rxq)
        /\ Head(rxq).len = "runt" \/ no_match(flows, create_tag(Head(rxq)))
    BY <1>8, Zenon DEF callback_handler_skip
  <2>2. Head(rxq) \notin V
    <3>1. CASE Head(rxq).len = "runt"
      BY <3>1, AnswersToProps, Zenon
    <3>2. CASE no_match(flows, create_tag(Head(rxq)))
      BY <1>1, <3>2, AnswersToProps, Zenon DEF no_match
    <3> QED
      BY <2>1, <3>1, <3>2
  <2> QED
    BY <1>1, <1>7, <2>1, <2>2, Zenon
<1>9. CASE callback_handler_match
  <2>1. PICK i \in 1..Len(flows) :
          is_first_match(flows, i, create_tag(Head(rxq))) /\ resolve(i)
    BY <1>9, Zenon DEF callback_handler_match
  <2>2. \/ handler' = "panicked"
        \/ /\ chan[flows[i].id] = "open" /\ rxq' = Tail(rxq)
           /\ chan' = [chan EXCEPT ![flows[i].id] = "sent"]
    BY <2>1, Zenon DEF resolve, deliver
  <2>3. CASE Head(rxq) \notin V
    BY <1>1, <1>7, <2>2, <2>3, Zenon
  <2>4. CASE Head(rxq) \in V /\ handler' # "panicked"
    <3>1. answers(create_tag(Head(rxq)), t)
      BY <2>4, AnswersToProps, Zenon
    <3>2. \A j \in 1..Len(flows) : t.tag_owner = flows[j].tag.tag_owner
      BY <1>1, OwnedFlows, Zenon
    <3>3. \A j \in 1..Len(flows) :
            answers(create_tag(Head(rxq)), flows[j].tag) <=> flow_key(flows[j].tag) = flow_key(t)
      BY <3>1, <3>2, KeyDecides, Zenon
    <3>4. flow_key(flows[i].tag) = flow_key(t)
      BY <2>1, <3>3, Zenon DEF is_first_match
    <3>5. \A j \in 1..(i - 1) : j \in 1..Len(flows)
      BY <1>2
    <3>6. \A j \in 1..(i - 1) : flow_key(flows[j].tag) # flow_key(t)
      BY <2>1, <3>3, <3>5, Zenon DEF is_first_match
    <3>7. flows[i].id \in ReqIds
      BY PendingType, Zenon
    <3>8. chan[flows[i].id] = "open" /\ chan'[flows[i].id] = "sent"
      BY <1>2, <2>2, <2>4, <3>7
    <3> QED
      BY <1>1, <3>4, <3>6, <3>8, Zenon
  <2> QED
    BY <2>3, <2>4, Zenon
<1> QED
  BY <1>8, <1>9, Zenon DEF callback_handler

\* Every step keeps what pending calls wait for.
LEMMA StepKept ==
  ASSUME FlowInv, PathInv, HandlerPanicNeedsAbandon, [Next]_vars,
         NEW t, NEW k \in 1..Len(flows), t = flows[k].tag, OnTheWay(t)' < OnTheWay(t)
  PROVE  \/ handler' = "panicked"
         \/ \E i \in 1..Len(flows) :
              /\ flow_key(flows[i].tag) = flow_key(t)
              /\ \A j \in 1..(i - 1) : flow_key(flows[j].tag) # flow_key(t)
              /\ chan[flows[i].id] = "open" /\ chan'[flows[i].id] = "sent"
<1>1. t = flows[k].tag
  OBVIOUS
<1>2. Typed /\ Typed'
  BY StepTyped, Zenon DEF FlowInv
<1>3. ~(OnTheWay(t)' >= OnTheWay(t))
  <2>1. OnTheWay(t) \in Int /\ OnTheWay(t)' \in Int
    <3>1. ASSUME NEW x \in Nat, NEW y \in Nat, NEW z \in Nat
          PROVE  x + y + z \in Int
      OBVIOUS
    <3> QED
      BY <1>2, <3>1, WayParts, WayPartsPrime, Zenon
  <2>2. OnTheWay(t)' < OnTheWay(t)
    BY <1>1, Zenon
  <2> QED
    BY <2>1, <2>2
<1>4. ASSUME UNCHANGED <<pollBuf, sock, rxq>>
      PROVE  FALSE
  <2>1. OnTheWay(t)' = OnTheWay(t)
    BY <1>4, Zenon DEF OnTheWay
  <2>2. OnTheWay(t) \in Int
    <3>1. ASSUME NEW x \in Nat, NEW y \in Nat, NEW z \in Nat
          PROVE  x + y + z \in Int
      OBVIOUS
    <3> QED
      BY <1>2, <3>1, WayParts, Zenon
  <2> QED
    BY <1>3, <2>1, <2>2
<1>5. ASSUME NEW p \in Pollers, PollTask(p)
      PROVE  handler' = "panicked"
  <2>1. handler' = handler /\ rxOpen # TRUE
    BY <1>2, <1>3, <1>5, PollCases, WayPoll, Zenon DEF netVars
  <2>2. rxOpen \in BOOLEAN /\ handler \in {"running", "panicked"}
    BY <1>2, TypeParts, Zenon DEF Typed, FlagType
  <2>3. handler # "running"
    BY <2>1, <2>2, Zenon DEF HandlerPanicNeedsAbandon
  <2> QED
    BY <2>1, <2>2, <2>3
<1>6. ASSUME NEW p \in Pollers, Attach(p)
      PROVE  FALSE
  <2>1. UNCHANGED <<pollBuf, sock, rxq>>
    BY <1>6, Zenon DEF Attach, add_physical_binding, add_physical_binding_queue, spawn_poll, devVars
  <2> QED
    BY <1>4, <2>1
<1>7. CASE UNCHANGED vars \/ \E c \in Callers : socket_call(c) \/ bind_call(c) \/ sendto(c)
  <2>1. UNCHANGED <<pollBuf, sock, rxq>>
    BY <1>2, <1>7, SendtoRx, Zenon DEF vars, socket_call, bind_call, devVars
  <2> QED
    BY <1>4, <2>1
<1>8. CASE Peer
  BY <1>2, <1>3, <1>8, WayPeer, Zenon
<1>9. CASE callback_handler
  BY <1>1, <1>2, <1>3, <1>9, WayHandler, Zenon
<1> QED
  BY <1>5, <1>6, <1>7, <1>8, <1>9, Zenon DEF Next

\* Nothing a pending call waits for is dropped between the socket and the call
\* (smbus_netdev.rs:32-56, simple_network.rs:117-181), for any capacity of the
\* socket and of the callback channel and any number of poll_socket tasks and
\* calls: a datagram that answers a pending flow leaves the receive path only
\* into the channel of the oldest flow with its key, unless the handler is dead
\* or dies of it.
THEOREM AnswersAreKept == Spec => AnswersKept
<1>1. FlowInv /\ PathInv /\ HandlerPanicNeedsAbandon /\ [Next]_vars
        => \A t \in {flows[i].tag : i \in 1..Len(flows)} :
             OnTheWay(t)' < OnTheWay(t) =>
               \/ handler' = "panicked"
               \/ \E i \in 1..Len(flows) :
                    /\ flow_key(flows[i].tag) = flow_key(t)
                    /\ \A j \in 1..(i - 1) : flow_key(flows[j].tag) # flow_key(t)
                    /\ chan[flows[i].id] = "open" /\ chan'[flows[i].id] = "sent"
  BY StepKept, Zenon
<1> QED
  BY <1>1, FlowAlways, PathAlways, HandlerDiesOnlyOfAbandon, PTL DEF Spec, AnswersKept
=============================================================================
