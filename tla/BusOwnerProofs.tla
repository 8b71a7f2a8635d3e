--------------------------- MODULE BusOwnerProofs ---------------------------
(***************************************************************************)
(* Proofs about the bus owner, for every value of its constants: its types *)
(* and the rendezvous of engine and main, that no EID is granted twice,    *)
(* and how far an answer can be mistaken for another.                      *)
(***************************************************************************)
EXTENDS BusOwner, FlowMatchProofs

\* What the type invariant rests on: a request exists before main waits for
\* it, its channel is open until the command is queued, and only requests
\* that exist are on the wire.
Requested ==
  /\ pc \in {"send", "blocked", "wait"} => Len(reqs) > 0
  /\ pc \in {"send", "blocked"} => resp.st = "open"
  /\ \A r \in ReqIds : wire[r] > 0 => r <= Len(reqs)
  /\ next_msg_tag = Len(reqs) + 1

IndInv == TypeOK /\ SoleRequest /\ Requested

-----------------------------------------------------------------------------
\* The numeric constants.
LEMMA Numbers ==
  /\ MinEid \in 0..255 /\ PingEid \in 0..255 /\ OverflowChecks \in BOOLEAN
  /\ QCap \in Nat /\ SockCap \in Nat /\ MaxReq \in Nat /\ MaxUnasked \in Nat
<1>1. /\ MinEid \in 0..255 /\ PingEid \in 0..255 /\ OverflowChecks \in BOOLEAN
      /\ QCap \in Nat \ {0} /\ SockCap \in Nat \ {0} /\ MaxReq \in Nat /\ MaxUnasked \in Nat
  BY BusOwnerAssumption, Zenon DEF Byte
<1> QED
  BY <1>1

\* The empty packet has the type of a packet.
LEMMA NoPacketType == NoPacket \in Packet
  BY DefaultTagType DEF NoPacket, Packet, Lengths, Byte

\* The initial state satisfies the inductive invariant.
LEMMA InitIndInv == Init => IndInv
<1> SUFFICES ASSUME Init PROVE IndInv
  OBVIOUS
<1>0. perform_discovery \in BOOLEAN
  BY Zenon DEF Init
<1>1. /\ pc = "loop" /\ stage \in Stages
      /\ engine = "running" /\ reader = "running"
      /\ assigned_eid \in Byte /\ next_eid \in Byte
      /\ wire \in [ReqIds -> Nat] /\ \A r \in ReqIds : wire[r] = 0
      /\ unasked \in 0..MaxUnasked /\ next_msg_tag = 1 /\ next_msg_tag \in 1..(MaxReq + 1)
  BY Numbers DEF Init, Stages, Byte
<1>2. resp \in [st : {"none", "open", "sent", "closed"}, packet : Packet]
  BY NoPacketType DEF Init, NoResp
<1>3. ep \in [bridge : BOOLEAN, min : Byte, max : Byte, size : Byte]
  BY DEF Init, NoEndpoint, Byte
<1>4. out \in [cmd : Commands \cup {"none"}, body : Seq(Byte)]
  BY DEF Init, NoReply
<1>5. /\ cmdq = <<>> /\ pending = <<>> /\ sock = <<>> /\ reqs = <<>> /\ grants = <<>>
      /\ QCap >= 0 /\ SockCap >= 0 /\ MaxReq >= 0
  BY Numbers DEF Init
<1>6. TypeOK
  BY <1>0, <1>1, <1>2, <1>3, <1>4, <1>5 DEF TypeOK
<1>7. SoleRequest /\ Requested
  BY <1>1, <1>5 DEF SoleRequest, Requested
<1> QED
  BY <1>6, <1>7 DEF IndInv

-----------------------------------------------------------------------------
\* start_request gives a well-typed request and channel.
LEMMA StartType ==
  ASSUME TypeOK, Requested, NEW st \in Stages, NEW dest \in Byte, NEW arg \in Seq(Byte),
         start_request(st, dest, arg)
  PROVE  /\ pc' = "send" /\ stage' = st
         /\ resp' = [st |-> "open", packet |-> NoPacket]
         /\ resp' \in [st : {"none", "open", "sent", "closed"}, packet : Packet]
         /\ reqs' \in Seq(Request) /\ Len(reqs') = Len(reqs) + 1 /\ Len(reqs') <= MaxReq
         /\ \A r \in 1..Len(reqs) : reqs'[r] = reqs[r]
         /\ next_msg_tag' \in 1..(MaxReq + 1)
         /\ next_msg_tag' = Len(reqs') + 1
<1> DEFINE q == [tag |-> new_header(assigned_eid, dest, next_msg_tag, TRUE),
                 cmd |-> command(st), arg |-> arg]
<1>1. new_header(assigned_eid, dest, next_msg_tag, TRUE) \in MsgFlowTag
  <2>1. assigned_eid \in Eid /\ dest \in Eid /\ next_msg_tag \in Nat
    BY Numbers DEF TypeOK, Byte, Eid
  <2> QED
    BY <2>1, NewHeaderType
<1>2. command(st) \in Commands
  BY DEF command, Commands, Stages
<1>3. q \in Request
  BY <1>1, <1>2 DEF Request
<1>4. reqs' = Append(reqs, q) /\ Len(reqs) < MaxReq
  BY DEF start_request
<1> HIDE DEF q
<1>a. reqs \in Seq(Request) /\ Len(reqs) <= MaxReq
  BY Zenon DEF TypeOK
<1>5. /\ reqs' \in Seq(Request) /\ Len(reqs') = Len(reqs) + 1 /\ Len(reqs') <= MaxReq
      /\ \A r \in 1..Len(reqs) : reqs'[r] = reqs[r]
  BY <1>3, <1>4, <1>a, AppendProps, Numbers
<1> QED
  BY <1>5, NoPacketType, Numbers DEF start_request, Requested, TypeOK

-----------------------------------------------------------------------------
RespType == [st : {"none", "open", "sent", "closed"}, packet : Packet]
EpType == [bridge : BOOLEAN, min : Byte, max : Byte, size : Byte]
GrantType == [kind : {"eid", "pool"}, lo : Byte, n : Byte]

\* The part of the type invariant about what main changes.
MainType ==
  /\ pc \in {"loop", "sleep", "send", "blocked", "wait", "exited"}
  /\ stage \in Stages
  /\ ep \in EpType
  /\ next_eid \in Byte
  /\ resp \in RespType
  /\ next_msg_tag \in 1..(MaxReq + 1)
  /\ reqs \in Seq(Request) /\ Len(reqs) <= MaxReq
  /\ grants \in Seq(GrantType)

\* The part about the context, the engine and the link.
RestType ==
  /\ assigned_eid \in Byte
  /\ perform_discovery \in BOOLEAN
  /\ cmdq \in Seq(Command) /\ Len(cmdq) <= QCap
  /\ pending \in Seq([tag : MsgFlowTag, id : ReqIds])
  /\ engine \in {"running", "panicked"}
  /\ reader \in {"running", "panicked"}
  /\ sock \in Seq(Packet) /\ Len(sock) <= SockCap
  /\ wire \in [ReqIds -> Nat]
  /\ out \in [cmd : Commands \cup {"none"}, body : Seq(Byte)]
  /\ unasked \in 0..MaxUnasked

\* TypeOK is the state of main and the rest.
LEMMA TypeSplit == TypeOK <=> MainType /\ RestType
  BY Zenon DEF TypeOK, MainType, RestType, RespType, EpType, GrantType

\* The same in the next state.
LEMMA TypeSplitPrime == TypeOK' <=> MainType' /\ RestType'
  BY Zenon DEF TypeOK, MainType, RestType, RespType, EpType, GrantType

\* Between two requests main is at the top of its loop or asleep.
Between == run_bus_owner_loop \/ ping

\* What main does there: it starts a round or a ping, or nothing but wait.
LEMMA BetweenStep ==
  ASSUME Between
  PROVE  /\ pc \in {"loop", "sleep"}
         /\ \/ \E st \in Stages, dest \in Byte, arg \in Seq(Byte) : start_request(st, dest, arg)
            \/ pc' \in {"loop", "sleep"} /\ UNCHANGED <<stage, resp, next_msg_tag, reqs>>
         /\ UNCHANGED <<ep, next_eid, grants, assigned_eid, pending, engine, out, sock, wire,
                        unasked, cmdq, reader>>
         /\ perform_discovery' \in {perform_discovery, FALSE}
<1>1. /\ pc \in {"loop", "sleep"}
      /\ \/ start_request("get", 0, <<>>)
         \/ start_request("ping", PingEid, <<>>)
         \/ pc' \in {"loop", "sleep"} /\ UNCHANGED <<stage, resp, next_msg_tag, reqs>>
      /\ UNCHANGED <<ep, next_eid, grants, assigned_eid, pending, engine, out, sock, wire,
                     unasked, cmdq, reader>>
      /\ perform_discovery' \in {perform_discovery, FALSE}
  BY Zenon DEF Between, run_bus_owner_loop, ping, ctxVars, engineVars, linkVars
<1>2. "get" \in Stages /\ "ping" \in Stages /\ 0 \in Byte /\ PingEid \in Byte /\ <<>> \in Seq(Byte)
  BY Numbers DEF Stages, Byte
<1> QED
  BY <1>1, <1>2, Zenon

\* A step between two requests keeps the types.
LEMMA LoopType ==
  ASSUME TypeOK, Requested, Between
  PROVE  TypeOK'
<1>2. /\ pc' \in {"loop", "sleep", "send"} /\ stage' \in Stages /\ resp' \in RespType
      /\ reqs' \in Seq(Request) /\ Len(reqs') <= MaxReq
      /\ next_msg_tag' \in 1..(MaxReq + 1)
  <2>1. CASE \E st \in Stages, dest \in Byte, arg \in Seq(Byte) : start_request(st, dest, arg)
    BY <2>1, StartType DEF RespType
  <2>2. CASE pc' \in {"loop", "sleep"} /\ UNCHANGED <<stage, resp, next_msg_tag, reqs>>
    BY <2>2, TypeSplit DEF MainType
  <2> QED
    BY <2>1, <2>2, BetweenStep
<1>3. UNCHANGED <<ep, next_eid, grants>>
  BY BetweenStep
<1>4. MainType'
  BY <1>2, <1>3, TypeSplit DEF MainType
<1>5. UNCHANGED <<assigned_eid, pending, engine, out, sock, wire, unasked, cmdq, reader>>
  BY BetweenStep
<1>6. perform_discovery' \in BOOLEAN
  BY TypeSplit, BetweenStep, Zenon DEF RestType
<1>7. RestType'
  BY <1>5, <1>6, TypeSplit DEF RestType
<1> QED
  BY <1>4, <1>7, TypeSplitPrime

\* send_cmd keeps the types.
LEMMA SendType ==
  ASSUME TypeOK, Requested, send_cmd
  PROVE  TypeOK'
<1> DEFINE c == [op |-> "SendMsg", id |-> Len(reqs), packet |-> NoPacket]
<1>1. c \in Command
  <2>0. reqs \in Seq(Request) /\ Len(reqs) <= MaxReq
    BY Zenon DEF TypeOK
  <2>1. Len(reqs) \in ReqIds
    BY <2>0, Numbers DEF Requested, send_cmd, ReqIds
  <2> QED
    BY <2>1, NoPacketType DEF Command
<1>2. pc' \in {"exited", "wait", "blocked"}
  BY DEF send_cmd
<1>3. \/ cmdq' = cmdq
      \/ Len(cmdq) < QCap /\ cmdq' = Append(cmdq, c)
  BY DEF send_cmd
<1>4. cmdq \in Seq(Command) /\ Len(cmdq) <= QCap
  BY Zenon DEF TypeOK
<1> HIDE DEF c
<1>5. cmdq' \in Seq(Command) /\ Len(cmdq') <= QCap
  BY <1>1, <1>3, <1>4, AppendProps, Numbers
<1>6. /\ UNCHANGED <<stage, ep, next_eid, resp, next_msg_tag, reqs, grants>>
      /\ UNCHANGED <<assigned_eid, perform_discovery, pending, engine, out, sock, wire, unasked, reader>>
  BY Zenon DEF send_cmd, ctxVars, engineVars, linkVars
<1>7. MainType'
  BY <1>2, <1>6, TypeSplit DEF MainType
<1>8. RestType'
  BY <1>5, <1>6, TypeSplit DEF RestType
<1> QED
  BY <1>7, <1>8, TypeSplitPrime

\* A byte of a decoded answer.
LEMMA AnswerBytes ==
  ASSUME NEW f \in Packet, decodes(f)
  PROVE  \A i \in 1..4 : f.body[i] \in 0..255
<1> DEFINE b == f.body
<1>1. b \in Seq(Byte) /\ Len(b) >= 4
  BY DEF Packet, decodes
<1> HIDE DEF b
<1>2. ASSUME NEW i \in 1..4 PROVE b[i] \in Byte
  <2>1. i \in 1..Len(b)
    BY <1>1
  <2> QED
    BY <1>1, <2>1, ElementOfSeq
<1> QED
  BY <1>2 DEF b, Byte

\* Leaving main keeps its types.
LEMMA ExitType == ASSUME MainType, exit PROVE MainType'
  BY DEF MainType, exit

\* The end of a round keeps main's types.
LEMMA RoundDoneType ==
  ASSUME MainType, round_done, ep' \in EpType
  PROVE  MainType'
  BY DEF MainType, round_done

\* A grant of n EIDs, and the next free EID after it.
LEMMA GrantTyped ==
  ASSUME MainType, NEW kind \in {"eid", "pool"}, NEW n \in Byte
  PROVE  /\ grant(kind, n) \in Seq(GrantType)
         /\ u8(next_eid + n) \in Byte
<1>1. [kind |-> kind, lo |-> next_eid, n |-> n] \in GrantType
  BY DEF MainType, GrantType
<1>2. grants \in Seq(GrantType) /\ next_eid \in Byte
  BY DEF MainType
<1> QED
  BY <1>1, <1>2, AppendProps DEF grant, u8, Byte

\* Starting the next request of a round keeps main's types.
LEMMA StartedType ==
  ASSUME TypeOK, Requested, NEW st \in Stages, NEW arg \in Seq(Byte),
         start_request(st, 0, arg), ep' \in EpType, next_eid' \in Byte, grants' \in Seq(GrantType)
  PROVE  MainType'
<1>1. 0 \in Byte
  BY DEF Byte
<1>2. /\ pc' = "send" /\ stage' = st /\ resp' \in RespType
      /\ reqs' \in Seq(Request) /\ Len(reqs') <= MaxReq
      /\ next_msg_tag' \in 1..(MaxReq + 1)
  BY <1>1, StartType DEF RespType
<1> QED
  BY <1>2 DEF MainType

\* The step after GetEndpointID keeps main's types.
LEMMA GetDoneType ==
  ASSUME TypeOK, Requested, NEW f \in Packet, decodes(f), get_eid_done(f)
  PROVE  MainType'
<1> DEFINE found == [NoEndpoint EXCEPT !.bridge = is_bridge(f)]
<1>0. MainType
  BY TypeSplit
<1>1. found \in EpType
  <2>1. is_bridge(f) \in BOOLEAN
    BY Zenon DEF is_bridge
  <2>2. 0 \in Byte
    BY DEF Byte
  <2>3. found = [bridge |-> is_bridge(f), min |-> 0, max |-> 0, size |-> 0]
    BY DEF NoEndpoint
  <2> QED
    BY <2>1, <2>2, <2>3, Zenon DEF EpType
<1>2. \/ ep' = found /\ round_done
      \/ exit
      \/ /\ ep' = found
         /\ next_eid' = u8(next_eid + 1)
         /\ grants' = grant("eid", 1)
         /\ start_request("set", 0, <<next_eid>>)
  BY Zenon DEF get_eid_done
<1> HIDE DEF found
<1>3. CASE ep' = found /\ round_done
  BY <1>0, <1>1, <1>3, RoundDoneType
<1>4. CASE exit
  BY <1>0, <1>4, ExitType
<1>5. CASE /\ ep' = found
           /\ next_eid' = u8(next_eid + 1)
           /\ grants' = grant("eid", 1)
           /\ start_request("set", 0, <<next_eid>>)
  <2>1. 1 \in Byte /\ "set" \in Stages /\ <<next_eid>> \in Seq(Byte)
    BY <1>0 DEF Byte, Stages, MainType
  <2>2. next_eid' \in Byte /\ grants' \in Seq(GrantType)
    BY <1>0, <1>5, <2>1, GrantTyped
  <2> QED
    BY <1>1, <1>5, <2>1, <2>2, StartedType
<1> QED
  BY <1>2, <1>3, <1>4, <1>5

\* The step after SetEndpointID keeps main's types.
LEMMA SetDoneType ==
  ASSUME TypeOK, Requested, NEW f \in Packet, decodes(f), set_eid_done(f)
  PROVE  MainType'
<1> DEFINE n == pool_size(f)
           max == u8(next_eid + n - 1)
           pool == [ep EXCEPT !.min = next_eid, !.max = max, !.size = n]
<1>0. MainType
  BY TypeSplit
<1>1. n \in Byte /\ max \in Byte /\ next_eid \in Byte
  <2>1. n \in 0..255
    BY AnswerBytes DEF pool_size
  <2>2. next_eid \in 0..255
    BY <1>0 DEF Byte, MainType
  <2> HIDE DEF n
  <2> QED
    BY <2>1, <2>2 DEF Byte, u8
<1>2. \/ exit
      \/ UNCHANGED ep /\ round_done
      \/ /\ ep' = pool
         /\ next_eid' = u8(next_eid + n)
         /\ grants' = grant("pool", n)
         /\ \/ start_request("alloc", 0, <<pool.min, n>>)
            \/ pc' = "loop" /\ UNCHANGED <<stage, resp, next_msg_tag, reqs>>
  BY Zenon DEF set_eid_done
<1> HIDE DEF n, max
<1>3. pool \in EpType /\ pool.min = next_eid
  BY <1>0, <1>1 DEF EpType, MainType
<1> HIDE DEF pool
<1>4. CASE exit
  BY <1>0, <1>4, ExitType
<1>5. CASE UNCHANGED ep /\ round_done
  BY <1>0, <1>5, RoundDoneType DEF MainType
<1>6. CASE /\ ep' = pool
           /\ next_eid' = u8(next_eid + n)
           /\ grants' = grant("pool", n)
           /\ \/ start_request("alloc", 0, <<pool.min, n>>)
              \/ pc' = "loop" /\ UNCHANGED <<stage, resp, next_msg_tag, reqs>>
  <2>1. "alloc" \in Stages /\ <<pool.min, n>> \in Seq(Byte)
    BY <1>1, <1>3 DEF Stages
  <2>2. next_eid' \in Byte /\ grants' \in Seq(GrantType) /\ ep' \in EpType
    BY <1>0, <1>1, <1>3, <1>6, GrantTyped
  <2>3. CASE start_request("alloc", 0, <<pool.min, n>>)
    BY <2>1, <2>2, <2>3, StartedType
  <2>4. CASE pc' = "loop" /\ UNCHANGED <<stage, resp, next_msg_tag, reqs>>
    BY <1>0, <2>2, <2>4 DEF MainType
  <2> QED
    BY <1>6, <2>3, <2>4
<1> QED
  BY <1>2, <1>4, <1>5, <1>6

\* await_response keeps the types.
LEMMA AwaitType ==
  ASSUME TypeOK, Requested, await_response
  PROVE  TypeOK'
<1> DEFINE f == resp.packet
<1>0. MainType
  BY TypeSplit
<1>1. f \in Packet
  BY <1>0 DEF MainType, RespType
<1>2. \/ exit
      \/ decodes(f) /\ get_eid_done(f)
      \/ decodes(f) /\ set_eid_done(f)
      \/ allocate_eids_done(f)
      \/ UNCHANGED ep /\ round_done
  BY Zenon DEF await_response
<1>3. allocate_eids_done(f) => exit \/ (UNCHANGED ep /\ round_done)
  BY Zenon DEF allocate_eids_done
<1> HIDE DEF f
<1>4. MainType'
  <2>1. CASE exit
    BY <1>0, <2>1, ExitType
  <2>2. CASE UNCHANGED ep /\ round_done
    BY <1>0, <2>2, RoundDoneType DEF MainType
  <2>3. CASE decodes(f) /\ get_eid_done(f)
    BY <1>1, <2>3, GetDoneType
  <2>4. CASE decodes(f) /\ set_eid_done(f)
    BY <1>1, <2>4, SetDoneType
  <2> QED
    BY <1>2, <1>3, <2>1, <2>2, <2>3, <2>4
<1>5. UNCHANGED <<assigned_eid, perform_discovery, pending, engine, out, sock, wire, unasked, cmdq, reader>>
  BY Zenon DEF await_response, ctxVars, engineVars, linkVars
<1>6. RestType'
  BY <1>5, TypeSplit DEF RestType
<1> QED
  BY <1>4, <1>6, TypeSplitPrime

-----------------------------------------------------------------------------
\* The command at the head of the channel.
LEMMA HeadCommand ==
  ASSUME TypeOK, cmdq # <<>>
  PROVE  /\ Head(cmdq) \in Command /\ Head(cmdq) = cmdq[1] /\ 1 \in 1..Len(cmdq)
         /\ Head(cmdq).packet \in Packet
         /\ Tail(cmdq) \in Seq(Command) /\ Len(Tail(cmdq)) = Len(cmdq) - 1
         /\ Len(Tail(cmdq)) <= QCap
         /\ \A i \in 1..Len(Tail(cmdq)) : i + 1 \in 1..Len(cmdq) /\ Tail(cmdq)[i] = cmdq[i + 1]
<1>1. cmdq \in Seq(Command) /\ Len(cmdq) <= QCap
  BY Zenon DEF TypeOK
<1>2. /\ Head(cmdq) \in Command /\ Head(cmdq) = cmdq[1]
      /\ Tail(cmdq) \in Seq(Command) /\ Len(Tail(cmdq)) = Len(cmdq) - 1
      /\ \A i \in 1..Len(Tail(cmdq)) : Tail(cmdq)[i] = cmdq[i + 1]
  BY <1>1, TailProps
<1>3. Len(cmdq) \in Nat /\ Len(cmdq) >= 1
  BY <1>1
<1>4. Head(cmdq).packet \in Packet
  BY <1>2 DEF Command
<1> QED
  BY <1>1, <1>2, <1>3, <1>4, Numbers

\* A panic of the engine, which drops pending_cmd and wakes main, keeps the types.
LEMMA PanicType ==
  ASSUME TypeOK, engine_panic
  PROVE  /\ engine' \in {"running", "panicked"} /\ resp' \in RespType
         /\ cmdq' \in Seq(Command) /\ Len(cmdq') <= QCap
         /\ pending' \in Seq([tag : MsgFlowTag, id : ReqIds])
         /\ cmdq' = <<>> /\ pending' = <<>>
<1>1. engine' = "panicked" /\ pending' = <<>> /\ cmdq' = <<>>
  BY Zenon DEF engine_panic
<1>2. resp \in RespType
  BY TypeSplit DEF MainType
<1>3. resp' = resp \/ resp' = [resp EXCEPT !.st = "closed"]
  BY Zenon DEF engine_panic
<1>4. resp' \in RespType
  BY <1>2, <1>3 DEF RespType
<1>5. 0 <= QCap
  BY Numbers
<1> QED
  BY <1>1, <1>4, <1>5

\* engine_send keeps the types.
LEMMA EngineSendType ==
  ASSUME IndInv, engine_send
  PROVE  TypeOK'
<1> DEFINE id == Head(cmdq).id
           flow == [tag |-> reqs[id].tag, id |-> id]
<1>0. TypeOK /\ MainType /\ RestType /\ cmdq # <<>> /\ Head(cmdq).op = "SendMsg"
  BY TypeSplit, Zenon DEF IndInv, engine_send
<1>1. id = Len(reqs) /\ Len(reqs) > 0
  BY <1>0, HeadCommand DEF IndInv, SoleRequest, Requested
<1>2. id \in ReqIds /\ reqs[id] \in Request
  BY <1>0, <1>1, ElementOfSeq, Numbers DEF MainType, ReqIds
<1>3. flow \in [tag : MsgFlowTag, id : ReqIds]
  BY <1>2 DEF Request
<1>4. \/ /\ pending' = Append(pending, flow)
         /\ wire' = [wire EXCEPT ![id] = @ + 1]
         /\ cmdq' = Tail(cmdq)
         /\ UNCHANGED <<engine, resp>>
      \/ engine_panic /\ UNCHANGED wire
  BY Zenon DEF engine_send
<1>5. /\ UNCHANGED <<pc, stage, ep, next_eid, next_msg_tag, reqs, grants>>
      /\ UNCHANGED <<assigned_eid, perform_discovery, out, sock, unasked, reader>>
  BY Zenon DEF engine_send, ctxVars
<1> HIDE DEF id, flow
<1>6. /\ engine' \in {"running", "panicked"} /\ resp' \in RespType
      /\ cmdq' \in Seq(Command) /\ Len(cmdq') <= QCap
      /\ pending' \in Seq([tag : MsgFlowTag, id : ReqIds])
      /\ wire' \in [ReqIds -> Nat]
  <2>1. CASE engine_panic /\ UNCHANGED wire
    BY <1>0, <2>1, PanicType DEF RestType
  <2>2. CASE /\ pending' = Append(pending, flow)
             /\ wire' = [wire EXCEPT ![id] = @ + 1]
             /\ cmdq' = Tail(cmdq)
             /\ UNCHANGED <<engine, resp>>
    <3>1. pending' \in Seq([tag : MsgFlowTag, id : ReqIds])
      BY <1>0, <1>3, <2>2, AppendProps DEF RestType
    <3>2. wire' \in [ReqIds -> Nat]
      BY <1>0, <1>2, <2>2 DEF RestType
    <3>3. cmdq' \in Seq(Command) /\ Len(cmdq') <= QCap
      BY <1>0, <2>2, HeadCommand
    <3> QED
      BY <1>0, <2>2, <3>1, <3>2, <3>3 DEF RestType, MainType
  <2> QED
    BY <1>4, <2>1, <2>2
<1>7. MainType'
  BY <1>0, <1>5, <1>6 DEF MainType
<1>8. RestType'
  BY <1>0, <1>5, <1>6 DEF RestType
<1> QED
  BY <1>7, <1>8, TypeSplitPrime

\* engine_match keeps the types.
LEMMA EngineMatchType ==
  ASSUME TypeOK, engine_match
  PROVE  TypeOK'
<1>0. MainType /\ RestType /\ cmdq # <<>>
  BY TypeSplit, Zenon DEF engine_match
<1>1. pending' \in Seq([tag : MsgFlowTag, id : ReqIds])
  <2>1. PICK i \in 1..Len(pending) : pending' = RemoveAt(pending, i)
    BY Zenon DEF engine_match
  <2> QED
    BY <1>0, <2>1, RemoveAtProps DEF RestType
<1>2. resp' \in RespType
  BY <1>0, HeadCommand DEF engine_match, RespType
<1>3. cmdq' = Tail(cmdq)
  BY Zenon DEF engine_match
<1>4. cmdq' \in Seq(Command) /\ Len(cmdq') <= QCap
  BY <1>0, <1>3, HeadCommand
<1>5. /\ UNCHANGED <<pc, stage, ep, next_eid, next_msg_tag, reqs, grants>>
      /\ UNCHANGED <<assigned_eid, perform_discovery, engine, out, sock, wire, unasked, reader>>
  BY Zenon DEF engine_match, ctxVars, linkVars
<1>6. MainType'
  BY <1>0, <1>2, <1>5 DEF MainType
<1>7. RestType'
  BY <1>0, <1>1, <1>4, <1>5 DEF RestType
<1> QED
  BY <1>6, <1>7, TypeSplitPrime

\* The reply of handle_request is a sequence of bytes.
LEMMA ReplyType ==
  ASSUME NEW f \in Packet, parses(f)
  PROVE  /\ reply_body(f) \in Seq(Byte)
         /\ f.cmd = "SetEndpointID" => f.body[2] \in Byte
<1> DEFINE b == f.body
<1>1. b \in Seq(Byte)
  BY DEF Packet
<1>2. f.cmd = "SetEndpointID" => Len(b) >= 2
  BY DEF parses, request_len
<1> HIDE DEF b
<1>3. f.cmd = "SetEndpointID" => b[2] \in Byte
  <2> SUFFICES ASSUME f.cmd = "SetEndpointID" PROVE b[2] \in Byte
    OBVIOUS
  <2>1. 2 \in 1..Len(b)
    BY <1>1, <1>2
  <2> QED
    BY <1>1, <2>1, ElementOfSeq
<1>4. 0 \in Byte /\ 5 \in Byte /\ 255 \in Byte
  BY DEF Byte
<1>5. CASE f.cmd = "SetEndpointID"
  <2>1. reply_body(f) = <<0, 0, b[2], 0>>
    BY <1>5 DEF reply_body, b
  <2> QED
    BY <1>3, <1>4, <1>5, <2>1 DEF b
<1>6. CASE f.cmd # "SetEndpointID"
  <2>1. reply_body(f) \in {<<0, 0, 0, 0>>, <<0>>, <<0, 255, 0>>, <<5>>}
    BY <1>6 DEF reply_body
  <2>2. /\ <<0, 0, 0, 0>> \in Seq(Byte) /\ <<0>> \in Seq(Byte)
        /\ <<0, 255, 0>> \in Seq(Byte) /\ <<5>> \in Seq(Byte)
    BY <1>4
  <2>3. reply_body(f) \in Seq(Byte)
    BY <2>1, <2>2, Zenon
  <2> QED
    BY <1>6, <2>3
<1> QED
  BY <1>5, <1>6

\* handle_request keeps the types.
LEMMA HandleType ==
  ASSUME TypeOK, handle_request
  PROVE  TypeOK'
<1> DEFINE f == Head(cmdq).packet
<1>0. MainType /\ RestType /\ cmdq # <<>>
  BY TypeSplit, Zenon DEF handle_request
<1>1. f \in Packet /\ f.cmd \in Commands \cup {"none"}
  BY <1>0, HeadCommand DEF Packet
<1>2. assigned_eid' \in Byte
  <2>1. \/ assigned_eid' = assigned_eid
        \/ parses(f) /\ f.cmd = "SetEndpointID" /\ assigned_eid' = f.body[2]
    BY Zenon DEF handle_request, ctxVars
  <2> QED
    BY <1>0, <1>1, <2>1, ReplyType DEF RestType
<1>3. perform_discovery' \in BOOLEAN
  <2>1. \/ perform_discovery' = perform_discovery
        \/ perform_discovery' = (perform_discovery \/ f.cmd = "DiscoveryNotify")
    BY Zenon DEF handle_request, ctxVars
  <2>2. perform_discovery \in BOOLEAN
    BY <1>0 DEF RestType
  <2> QED
    BY <2>1, <2>2, Zenon
<1>4. out' \in [cmd : Commands \cup {"none"}, body : Seq(Byte)]
  <2>1. \/ out' = out
        \/ parses(f) /\ out' = [cmd |-> f.cmd, body |-> reply_body(f)]
    BY Zenon DEF handle_request, engineVars
  <2> HIDE DEF f
  <2> QED
    BY <1>0, <1>1, <2>1, ReplyType DEF RestType
<1>5. /\ engine' \in {"running", "panicked"} /\ resp' \in RespType
      /\ cmdq' \in Seq(Command) /\ Len(cmdq') <= QCap
      /\ pending' \in Seq([tag : MsgFlowTag, id : ReqIds])
  <2>1. \/ engine_panic
        \/ cmdq' = Tail(cmdq) /\ UNCHANGED <<pending, engine, resp>>
    BY Zenon DEF handle_request, engineVars
  <2>2. CASE engine_panic
    BY <2>2, PanicType
  <2>3. CASE cmdq' = Tail(cmdq) /\ UNCHANGED <<pending, engine, resp>>
    BY <1>0, <2>3, HeadCommand DEF RestType, MainType
  <2> QED
    BY <2>1, <2>2, <2>3
<1>6. /\ UNCHANGED <<pc, stage, ep, next_eid, next_msg_tag, reqs, grants>>
      /\ UNCHANGED <<sock, wire, unasked, reader>>
  BY Zenon DEF handle_request, linkVars
<1>7. MainType'
  BY <1>0, <1>5, <1>6 DEF MainType
<1>8. RestType'
  BY <1>0, <1>2, <1>3, <1>4, <1>5, <1>6 DEF RestType
<1> QED
  BY <1>7, <1>8, TypeSplitPrime

\* The reader keeps the types.
LEMMA ReaderType ==
  ASSUME TypeOK, Reader \/ engine_skip
  PROVE  TypeOK'
<1>0. MainType /\ RestType
  BY TypeSplit
<1>1. UNCHANGED <<pc, stage, ep, next_eid, resp, next_msg_tag, reqs, grants>>
  BY Zenon DEF Reader, reader_recv, reader_panic, engine_skip, mainVars
<1>2. UNCHANGED <<assigned_eid, perform_discovery, pending, engine, out, wire, unasked>>
  BY Zenon DEF Reader, reader_recv, reader_panic, engine_skip, ctxVars, engineVars, linkVars
<1>3. reader' \in {"running", "panicked"}
  <2>1. reader' = reader \/ reader' = "panicked"
    BY DEF Reader, reader_recv, reader_panic, engine_skip
  <2> QED
    BY <1>0, <2>1 DEF RestType
<1>4. sock' \in Seq(Packet) /\ Len(sock') <= SockCap
  <2>1. \/ sock' = sock
        \/ sock # <<>> /\ sock' = Tail(sock)
    BY Zenon DEF Reader, reader_recv, reader_panic, engine_skip, linkVars
  <2>2. sock \in Seq(Packet) /\ Len(sock) <= SockCap
    BY <1>0 DEF RestType
  <2> QED
    BY <2>1, <2>2, TailProps, Numbers
<1>5. cmdq' \in Seq(Command) /\ Len(cmdq') <= QCap
  <2> DEFINE c == [op |-> "ReceiveMsg", id |-> 0, packet |-> Head(sock)]
  <2>1. \/ cmdq' = cmdq
        \/ cmdq # <<>> /\ cmdq' = Tail(cmdq)
        \/ sock # <<>> /\ Len(cmdq) < QCap /\ cmdq' = Append(cmdq, c)
    <3>1. \/ cmdq' = cmdq
          \/ cmdq # <<>> /\ cmdq' = Tail(cmdq)
          \/ sock # <<>> /\ Len(cmdq) + Reserved < QCap /\ cmdq' = Append(cmdq, c)
      BY DEF Reader, reader_recv, reader_panic, engine_skip
    <3>2. Reserved \in {0, 1} /\ cmdq \in Seq(Command)
      BY <1>0 DEF Reserved, RestType
    <3>3. Len(cmdq) + Reserved < QCap => Len(cmdq) < QCap
      BY <3>2, Numbers
    <3> QED
      BY <3>1, <3>3, Zenon
  <2>2. sock # <<>> => c \in Command
    <3>1. sock # <<>> => Head(sock) \in Packet
      BY <1>0, TailProps DEF RestType
    <3> QED
      BY <3>1 DEF Command
  <2>3. cmdq \in Seq(Command) /\ Len(cmdq) <= QCap
    BY <1>0 DEF RestType
  <2> HIDE DEF c
  <2>4. CASE cmdq' = cmdq
    BY <2>3, <2>4
  <2>5. CASE cmdq # <<>> /\ cmdq' = Tail(cmdq)
    BY <2>5, HeadCommand
  <2>6. CASE sock # <<>> /\ Len(cmdq) < QCap /\ cmdq' = Append(cmdq, c)
    BY <2>2, <2>3, <2>6, AppendProps, Numbers
  <2> QED
    BY <2>1, <2>4, <2>5, <2>6
<1>6. MainType'
  BY <1>0, <1>1 DEF MainType
<1>7. RestType'
  BY <1>0, <1>2, <1>3, <1>4, <1>5 DEF RestType
<1> QED
  BY <1>6, <1>7, TypeSplitPrime

\* An answer of the peer to a request that exists is a well-typed datagram.
LEMMA AnswerType ==
  ASSUME TypeOK, NEW r \in ReqIds, r <= Len(reqs), NEW body \in AnswerBodies[reqs[r].cmd]
  PROVE  [len |-> "full", tag |-> create_response(reqs[r].tag), cmd |-> reqs[r].cmd,
          body |-> body, ans |-> r] \in Packet
<1>1. reqs[r] \in Request
  BY ElementOfSeq, TypeSplit, Numbers DEF MainType, ReqIds
<1>2. reqs[r].tag \in MsgFlowTag /\ reqs[r].cmd \in Commands
  BY <1>1 DEF Request
<1>3. create_response(reqs[r].tag) \in MsgFlowTag
  BY <1>2, ResponseProps
<1>4. body \in Seq(Byte)
  BY <1>2, BusOwnerAssumption
<1> QED
  BY <1>2, <1>3, <1>4 DEF Packet, Lengths

\* The endpoint on the bus keeps the types.
LEMMA PeerType ==
  ASSUME TypeOK, Requested, Peer
  PROVE  TypeOK'
<1>0. MainType /\ RestType
  BY TypeSplit
<1>1. UNCHANGED <<pc, stage, ep, next_eid, resp, next_msg_tag, reqs, grants>>
  BY Zenon DEF Peer, peer_answers, peer_loses, peer_sends, mainVars
<1>2. UNCHANGED <<assigned_eid, perform_discovery, pending, engine, out, cmdq, reader>>
  BY Zenon DEF Peer, peer_answers, peer_loses, peer_sends, ctxVars, engineVars
<1>3. /\ wire' \in [ReqIds -> Nat]
      /\ sock' \in Seq(Packet) /\ Len(sock') <= SockCap
      /\ unasked' \in 0..MaxUnasked
  <2>0. sock \in Seq(Packet) /\ Len(sock) <= SockCap /\ wire \in [ReqIds -> Nat] /\ unasked \in 0..MaxUnasked
    BY <1>0 DEF RestType
  <2>1. ASSUME NEW r \in ReqIds, peer_answers(r)
        PROVE  /\ wire' \in [ReqIds -> Nat]
               /\ sock' \in Seq(Packet) /\ Len(sock') <= SockCap
               /\ unasked' \in 0..MaxUnasked
    <3>1. PICK body \in AnswerBodies[reqs[r].cmd] :
            sock' = Append(sock, [len |-> "full", tag |-> create_response(reqs[r].tag),
                                  cmd |-> reqs[r].cmd, body |-> body, ans |-> r])
      BY <2>1, Zenon DEF peer_answers
    <3>2. wire[r] > 0 /\ Len(sock) < SockCap /\ unasked' = unasked
      BY <2>1, Zenon DEF peer_answers
    <3>3. r <= Len(reqs)
      BY <3>2 DEF Requested
    <3>4. sock' \in Seq(Packet) /\ Len(sock') <= SockCap
      BY <2>0, <3>1, <3>2, <3>3, AnswerType, AppendProps, Numbers
    <3>5. wire' = wire \/ wire' = [wire EXCEPT ![r] = @ - 1]
      BY <2>1, Zenon DEF peer_answers
    <3> QED
      BY <2>0, <3>2, <3>4, <3>5
  <2>2. ASSUME NEW r \in ReqIds, peer_loses(r)
        PROVE  /\ wire' \in [ReqIds -> Nat]
               /\ sock' \in Seq(Packet) /\ Len(sock') <= SockCap
               /\ unasked' \in 0..MaxUnasked
    BY <2>0, <2>2 DEF peer_loses
  <2>3. ASSUME NEW f \in Unasked, peer_sends(f)
        PROVE  /\ wire' \in [ReqIds -> Nat]
               /\ sock' \in Seq(Packet) /\ Len(sock') <= SockCap
               /\ unasked' \in 0..MaxUnasked
    <3>1. f \in Packet
      BY BusOwnerAssumption, Zenon
    <3> QED
      BY <2>0, <2>3, <3>1, AppendProps, Numbers DEF peer_sends
  <2> QED
    BY <2>1, <2>2, <2>3, Zenon DEF Peer
<1>4. MainType'
  BY <1>0, <1>1 DEF MainType
<1>5. RestType'
  BY <1>0, <1>2, <1>3 DEF RestType
<1> QED
  BY <1>4, <1>5, TypeSplitPrime

\* Every step keeps the types.
LEMMA StepType ==
  ASSUME IndInv, [Next]_vars
  PROVE  TypeOK'
<1>0. TypeOK /\ Requested
  BY DEF IndInv
<1>1. CASE UNCHANGED vars
  BY <1>0, <1>1, Zenon DEF vars, mainVars, ctxVars, engineVars, linkVars, TypeOK
<1>2. CASE Next
  BY <1>0, <1>2, LoopType, SendType, AwaitType, EngineSendType, EngineMatchType, HandleType,
     ReaderType, PeerType, Zenon DEF Next, Main, Engine, Between
<1> QED
  BY <1>1, <1>2

-----------------------------------------------------------------------------
NoSend(q) == \A i \in 1..Len(q) : q[i].op # "SendMsg"

\* Unless main waits on an open channel the engine knows of no request.
LEMMA NothingPending ==
  ASSUME IndInv, ~(pc = "wait" /\ resp.st = "open")
  PROVE  pending = <<>> /\ NoSend(cmdq)
<1>1. pending \in Seq([tag : MsgFlowTag, id : ReqIds])
  BY TypeSplit DEF IndInv, RestType
<1>2. Len(pending) = 0
  BY <1>1 DEF IndInv, SoleRequest
<1> QED
  BY <1>1, <1>2 DEF IndInv, SoleRequest, NoSend

\* A step of main that touches neither the channel nor pending_cmd.
LEMMA QuietRendezvous ==
  ASSUME pending' = <<>>, NoSend(cmdq')
  PROVE  SoleRequest'
  BY DEF SoleRequest, NoSend

\* Starting a request keeps Requested.
LEMMA StartRequested ==
  ASSUME IndInv, NEW st \in Stages, NEW dest \in Byte, NEW arg \in Seq(Byte),
         start_request(st, dest, arg), UNCHANGED wire
  PROVE  Requested'
<1>1. /\ pc' = "send" /\ resp'.st = "open"
      /\ reqs' \in Seq(Request) /\ Len(reqs') = Len(reqs) + 1
      /\ next_msg_tag' = Len(reqs') + 1
  BY StartType DEF IndInv
<1>2. reqs \in Seq(Request)
  BY TypeSplit DEF IndInv, MainType
<1>3. Len(reqs) \in Nat /\ Len(reqs') > 0
  BY <1>1, <1>2
<1>4. \A r \in ReqIds : wire'[r] > 0 => r <= Len(reqs')
  BY <1>1, <1>3, Numbers DEF IndInv, Requested, ReqIds
<1> QED
  BY <1>1, <1>3, <1>4 DEF Requested

\* A step between two requests keeps the rendezvous.
LEMMA LoopStep ==
  ASSUME IndInv, Between
  PROVE  SoleRequest' /\ Requested'
<1>2. pc \in {"loop", "sleep"} /\ UNCHANGED <<cmdq, pending, wire>>
  BY BetweenStep
<1>4. Requested'
  <2>1. CASE \E st \in Stages, dest \in Byte, arg \in Seq(Byte) : start_request(st, dest, arg)
    BY <1>2, <2>1, StartRequested
  <2>2. CASE pc' \in {"loop", "sleep"} /\ UNCHANGED <<stage, resp, next_msg_tag, reqs>>
    BY <1>2, <2>2 DEF IndInv, Requested
  <2> QED
    BY <2>1, <2>2, BetweenStep
<1>5. pending = <<>> /\ NoSend(cmdq)
  BY <1>2, NothingPending
<1> QED
  BY <1>2, <1>4, <1>5, QuietRendezvous

\* send_cmd keeps the rendezvous.
LEMMA SendStep ==
  ASSUME IndInv, send_cmd
  PROVE  SoleRequest' /\ Requested'
<1> DEFINE c == [op |-> "SendMsg", id |-> Len(reqs), packet |-> NoPacket]
<1>1. /\ pc \in {"send", "blocked"} /\ resp.st = "open" /\ Len(reqs) > 0
      /\ UNCHANGED <<resp, next_msg_tag, reqs, pending, wire>>
  <2>1. pc \in {"send", "blocked"} /\ UNCHANGED <<resp, next_msg_tag, reqs, pending, wire>>
    BY Zenon DEF send_cmd, engineVars, linkVars
  <2> QED
    BY <2>1 DEF IndInv, Requested
<1>2. pending = <<>> /\ NoSend(cmdq)
  BY <1>1, NothingPending
<1>3. \/ pc' = "exited" /\ cmdq' = cmdq
      \/ pc' = "blocked" /\ cmdq' = cmdq
      \/ pc' = "wait" /\ cmdq' = Append(cmdq, c)
  BY DEF send_cmd
<1>4. Requested'
  BY <1>1, <1>3 DEF IndInv, Requested
<1>5. CASE cmdq' = cmdq
  BY <1>1, <1>2, <1>5, QuietRendezvous, <1>4
<1>6. CASE pc' = "wait" /\ cmdq' = Append(cmdq, c)
  <2>1. cmdq \in Seq(Command) /\ c \in Command
    <3>1. reqs \in Seq(Request) /\ Len(reqs) <= MaxReq
      BY TypeSplit DEF IndInv, MainType
    <3>2. Len(reqs) \in ReqIds
      BY <1>1, <3>1, Numbers DEF ReqIds
    <3>3. cmdq \in Seq(Command)
      BY TypeSplit DEF IndInv, RestType
    <3> QED
      BY <3>2, <3>3, NoPacketType DEF Command
  <2>2. c.op = "SendMsg" /\ c.id = Len(reqs)
    OBVIOUS
  <2> HIDE DEF c
  <2>3. /\ Len(cmdq') = Len(cmdq) + 1 /\ cmdq'[Len(cmdq) + 1] = c
        /\ \A i \in 1..Len(cmdq) : cmdq'[i] = cmdq[i]
    BY <1>6, <2>1, AppendProps
  <2>4. \A i \in 1..Len(cmdq') : cmdq'[i].op = "SendMsg" => i = Len(cmdq) + 1
    BY <1>2, <2>1, <2>3 DEF NoSend
  <2> QED
    BY <1>1, <1>2, <1>4, <1>6, <2>1, <2>2, <2>3, <2>4 DEF SoleRequest
<1> QED
  BY <1>3, <1>5, <1>6

\* What main does with an answer: the round ends, or the next request starts.
LEMMA AwaitCases ==
  ASSUME IndInv, await_response
  PROVE  \/ pc' \in {"loop", "exited"} /\ UNCHANGED <<next_msg_tag, reqs, resp>>
         \/ \E st \in Stages, arg \in Seq(Byte) : start_request(st, 0, arg)
<1> DEFINE f == resp.packet
<1>1. TypeOK /\ MainType
  BY TypeSplit DEF IndInv
<1>2. f \in Packet
  BY <1>1 DEF MainType, RespType
<1>3. \/ exit
      \/ get_eid_done(f)
      \/ decodes(f) /\ set_eid_done(f)
      \/ allocate_eids_done(f)
      \/ round_done
  BY Zenon DEF await_response
<1> HIDE DEF f
<1>4. exit \/ round_done => pc' \in {"loop", "exited"} /\ UNCHANGED <<next_msg_tag, reqs, resp>>
  BY Zenon DEF exit, round_done
<1>5. get_eid_done(f) => exit \/ round_done \/ start_request("set", 0, <<next_eid>>)
  BY Zenon DEF get_eid_done
<1>6. allocate_eids_done(f) => exit \/ round_done
  BY Zenon DEF allocate_eids_done
<1>7. ASSUME set_eid_done(f)
      PROVE  \/ exit \/ round_done
             \/ pc' = "loop" /\ UNCHANGED <<next_msg_tag, reqs, resp>>
             \/ start_request("alloc", 0, <<next_eid, pool_size(f)>>)
  <2> DEFINE pool == [ep EXCEPT !.min = next_eid, !.max = u8(next_eid + pool_size(f) - 1),
                                !.size = pool_size(f)]
  <2>1. \/ exit \/ round_done
        \/ pc' = "loop" /\ UNCHANGED <<next_msg_tag, reqs, resp>>
        \/ start_request("alloc", 0, <<pool.min, pool_size(f)>>)
    BY <1>7, Zenon DEF set_eid_done
  <2>2. pool.min = next_eid
    BY <1>1 DEF MainType, EpType
  <2> HIDE DEF pool
  <2> QED
    BY <2>1, <2>2
<1>8. "set" \in Stages /\ "alloc" \in Stages /\ <<next_eid>> \in Seq(Byte)
  BY <1>1 DEF Stages, MainType
<1>9. decodes(f) => <<next_eid, pool_size(f)>> \in Seq(Byte)
  <2>1. next_eid \in Byte /\ (decodes(f) => pool_size(f) \in Byte)
    BY <1>1, <1>2, AnswerBytes DEF pool_size, Byte, MainType
  <2> QED
    BY <2>1
<1> QED
  BY <1>3, <1>4, <1>5, <1>6, <1>7, <1>8, <1>9, Zenon

\* await_response keeps the rendezvous.
LEMMA AwaitStep ==
  ASSUME IndInv, await_response
  PROVE  SoleRequest' /\ Requested'
<1>1. resp.st # "open" /\ pc = "wait" /\ UNCHANGED <<cmdq, pending, wire>>
  BY DEF await_response, engineVars, linkVars
<1>2. SoleRequest'
  BY <1>1, NothingPending, QuietRendezvous
<1>3. CASE pc' \in {"loop", "exited"} /\ UNCHANGED <<next_msg_tag, reqs, resp>>
  BY <1>1, <1>2, <1>3 DEF IndInv, Requested
<1>4. CASE \E st \in Stages, arg \in Seq(Byte) : start_request(st, 0, arg)
  <2>1. 0 \in Byte
    BY DEF Byte
  <2> QED
    BY <1>1, <1>2, <1>4, <2>1, StartRequested
<1> QED
  BY <1>3, <1>4, AwaitCases

\* A panic of the engine keeps the rendezvous.
LEMMA PanicStep ==
  ASSUME IndInv, engine_panic, UNCHANGED <<pc, next_msg_tag, reqs, wire>>
  PROVE  SoleRequest' /\ Requested'
<1>1. cmdq' = <<>> /\ pending' = <<>>
  BY Zenon DEF engine_panic
<1>2. NoSend(cmdq')
  BY <1>1 DEF NoSend
<1>3. pc \in {"send", "blocked"} => resp' = resp
  BY DEF engine_panic
<1> QED
  BY <1>1, <1>2, <1>3, QuietRendezvous DEF IndInv, Requested

\* engine_send keeps the rendezvous.
LEMMA EngineSendStep ==
  ASSUME IndInv, engine_send
  PROVE  SoleRequest' /\ Requested'
<1> DEFINE id == Head(cmdq).id
           flow == [tag |-> reqs[id].tag, id |-> id]
<1>0. TypeOK /\ MainType /\ RestType /\ cmdq # <<>> /\ Head(cmdq).op = "SendMsg"
  BY TypeSplit, Zenon DEF IndInv, engine_send
<1>1. /\ id = Len(reqs) /\ Len(reqs) > 0 /\ pc = "wait" /\ resp.st = "open" /\ pending = <<>>
      /\ \A j \in 1..Len(cmdq) : cmdq[j].op = "SendMsg" => j = 1
  BY <1>0, HeadCommand DEF IndInv, SoleRequest, Requested
<1>2. UNCHANGED <<pc, next_msg_tag, reqs>>
  BY Zenon DEF engine_send
<1>3. \/ /\ pending' = Append(pending, flow)
         /\ wire' = [wire EXCEPT ![id] = @ + 1]
         /\ cmdq' = Tail(cmdq)
         /\ UNCHANGED resp
      \/ engine_panic /\ UNCHANGED wire
  BY Zenon DEF engine_send
<1>4. flow.id = Len(reqs)
  BY <1>1
<1> HIDE DEF flow, id
<1>5. CASE engine_panic /\ UNCHANGED wire
  BY <1>2, <1>5, PanicStep
<1>6. CASE /\ pending' = Append(pending, flow)
           /\ wire' = [wire EXCEPT ![id] = @ + 1]
           /\ cmdq' = Tail(cmdq)
           /\ UNCHANGED resp
  <2>1. Len(pending') = 1 /\ pending'[1] = flow
    BY <1>1, <1>6
  <2>2. \A i \in 1..Len(cmdq') : cmdq'[i].op # "SendMsg"
    <3>1. \A i \in 1..Len(cmdq') : i \in Nat /\ i >= 1 /\ i + 1 \in 1..Len(cmdq) /\ cmdq'[i] = cmdq[i + 1]
      BY <1>0, <1>6, HeadCommand
    <3> QED
      BY <1>1, <3>1
  <2>3. SoleRequest'
    BY <1>1, <1>2, <1>4, <1>6, <2>1, <2>2 DEF SoleRequest
  <2>4. \A r \in ReqIds : wire'[r] > 0 => r <= Len(reqs')
    BY <1>0, <1>1, <1>2, <1>6 DEF IndInv, Requested, RestType, ReqIds
  <2> QED
    BY <1>1, <1>2, <1>6, <2>3, <2>4 DEF IndInv, Requested
<1> QED
  BY <1>3, <1>5, <1>6

\* engine_match keeps the rendezvous.
LEMMA EngineMatchStep ==
  ASSUME IndInv, engine_match
  PROVE  SoleRequest' /\ Requested'
<1>0. TypeOK /\ RestType /\ cmdq # <<>>
  BY TypeSplit, Zenon DEF IndInv, engine_match
<1>1. PICK i \in 1..Len(pending) : pending' = RemoveAt(pending, i)
  BY Zenon DEF engine_match
<1>2. /\ UNCHANGED <<pc, next_msg_tag, reqs, wire>>
      /\ cmdq' = Tail(cmdq)
  BY Zenon DEF engine_match, linkVars
<1>3. pending \in Seq([tag : MsgFlowTag, id : ReqIds])
  BY <1>0 DEF RestType
<1>4. pending # <<>> /\ Len(pending) = 1 /\ pc = "wait"
  <2>1. Len(pending) \in Nat /\ 1 <= Len(pending)
    BY <1>1, <1>3
  <2>2. Len(pending) <= 1
    BY Zenon DEF IndInv, SoleRequest
  <2>3. pc = "wait"
    BY <1>1, Zenon DEF IndInv, SoleRequest
  <2>4. Len(pending) = 1
    BY <2>1, <2>2
  <2> QED
    BY <2>3, <2>4
<1>5. pending' = <<>>
  <2>1. pending' \in Seq([tag : MsgFlowTag, id : ReqIds]) /\ Len(pending') = 0
    BY <1>1, <1>3, <1>4, RemoveAtProps
  <2> QED
    BY <2>1
<1>6. NoSend(cmdq)
  BY <1>4 DEF IndInv, SoleRequest, NoSend
<1>7. NoSend(cmdq')
  BY <1>0, <1>2, <1>6, HeadCommand DEF NoSend
<1>8. Requested'
  BY <1>2, <1>4 DEF IndInv, Requested
<1> QED
  BY <1>5, <1>7, <1>8, QuietRendezvous

\* Dropping a received packet from the channel, or adding one.
LEMMA ReceiveStep ==
  ASSUME IndInv, UNCHANGED <<pc, resp, next_msg_tag, reqs, pending, wire>>,
         \/ cmdq' = cmdq
         \/ cmdq # <<>> /\ cmdq' = Tail(cmdq) /\ Head(cmdq).op = "ReceiveMsg"
         \/ \E c \in Command : c.op = "ReceiveMsg" /\ cmdq' = Append(cmdq, c)
  PROVE  SoleRequest' /\ Requested'
<1>0. TypeOK /\ cmdq \in Seq(Command)
  BY TypeSplit DEF IndInv, RestType
<1>1. Requested'
  BY DEF IndInv, Requested
<1>2. CASE cmdq' = cmdq
  BY <1>1, <1>2 DEF IndInv, SoleRequest
<1>3. CASE cmdq # <<>> /\ cmdq' = Tail(cmdq)
  <2>1. \A i \in 1..Len(cmdq') : i \in Nat /\ i + 1 \in 1..Len(cmdq) /\ cmdq'[i] = cmdq[i + 1]
    <3>1. Len(cmdq) \in Nat /\ cmdq # <<>> /\ cmdq' = Tail(cmdq)
      BY <1>0, <1>3
    <3>2. Len(cmdq') = Len(cmdq) - 1 /\ \A i \in 1..(Len(cmdq) - 1) : cmdq'[i] = cmdq[i + 1]
      BY <1>0, <3>1, TailProps
    <3> SUFFICES ASSUME NEW i \in 1..Len(cmdq')
                 PROVE  i \in Nat /\ i + 1 \in 1..Len(cmdq) /\ cmdq'[i] = cmdq[i + 1]
      OBVIOUS
    <3>3. i \in 1..(Len(cmdq) - 1)
      BY <3>2
    <3>4. i \in Nat /\ i + 1 \in 1..Len(cmdq)
      BY <3>1, <3>3
    <3> QED
      BY <3>2, <3>3, <3>4
  <2>2. \A i \in 1..Len(cmdq') : cmdq'[i].op = "SendMsg" =>
          /\ pc = "wait" /\ resp.st = "open" /\ cmdq'[i].id = Len(reqs)
          /\ pending = <<>>
    BY <2>1 DEF IndInv, SoleRequest
  <2>3. \A i, j \in 1..Len(cmdq') :
          cmdq'[i].op = "SendMsg" /\ cmdq'[j].op = "SendMsg" => i = j
    <3> SUFFICES ASSUME NEW i \in 1..Len(cmdq'), NEW j \in 1..Len(cmdq'),
                        cmdq'[i].op = "SendMsg", cmdq'[j].op = "SendMsg"
                 PROVE  i = j
      OBVIOUS
    <3>1. i + 1 = j + 1
      BY <2>1 DEF IndInv, SoleRequest
    <3> QED
      BY <2>1, <3>1
  <2> QED
    BY <1>1, <2>2, <2>3 DEF IndInv, SoleRequest
<1>4. CASE \E c \in Command : c.op = "ReceiveMsg" /\ cmdq' = Append(cmdq, c)
  <2>1. PICK c \in Command : c.op = "ReceiveMsg" /\ cmdq' = Append(cmdq, c)
    BY <1>4
  <2>2. /\ Len(cmdq') = Len(cmdq) + 1 /\ cmdq'[Len(cmdq) + 1].op = "ReceiveMsg"
        /\ \A i \in 1..Len(cmdq) : cmdq'[i] = cmdq[i]
    BY <1>0, <2>1, AppendProps
  <2>3. \A i \in 1..Len(cmdq') : cmdq'[i].op = "SendMsg" =>
          i \in 1..Len(cmdq) /\ cmdq[i].op = "SendMsg" /\ cmdq'[i] = cmdq[i]
    BY <1>0, <2>2
  <2> QED
    BY <1>1, <2>3 DEF IndInv, SoleRequest
<1> QED
  BY <1>2, <1>3, <1>4

\* handle_request keeps the rendezvous.
LEMMA HandleStep ==
  ASSUME IndInv, handle_request
  PROVE  SoleRequest' /\ Requested'
<1>1. UNCHANGED <<pc, next_msg_tag, reqs, wire>> /\ cmdq # <<>> /\ Head(cmdq).op = "ReceiveMsg"
  BY Zenon DEF handle_request, linkVars
<1>2. \/ engine_panic
      \/ cmdq' = Tail(cmdq) /\ UNCHANGED <<pending, resp>>
  BY Zenon DEF handle_request, engineVars
<1> QED
  BY <1>1, <1>2, PanicStep, ReceiveStep

\* The reader keeps the rendezvous.
LEMMA ReaderStep ==
  ASSUME IndInv, Reader \/ engine_skip
  PROVE  SoleRequest' /\ Requested'
<1> DEFINE c == [op |-> "ReceiveMsg", id |-> 0, packet |-> Head(sock)]
<1>1. UNCHANGED <<pc, resp, next_msg_tag, reqs, pending, wire>>
  BY Zenon DEF Reader, reader_recv, reader_panic, engine_skip, mainVars, engineVars, linkVars
<1>2. \/ cmdq' = cmdq
      \/ cmdq # <<>> /\ cmdq' = Tail(cmdq) /\ Head(cmdq).op = "ReceiveMsg"
      \/ sock # <<>> /\ cmdq' = Append(cmdq, c)
  BY DEF Reader, reader_recv, reader_panic, engine_skip
<1>3. sock # <<>> => c \in Command /\ c.op = "ReceiveMsg"
  <2>1. sock # <<>> => Head(sock) \in Packet
    BY TypeSplit, TailProps DEF IndInv, RestType
  <2> QED
    BY <2>1 DEF Command
<1> HIDE DEF c
<1>4. \/ cmdq' = cmdq
      \/ cmdq # <<>> /\ cmdq' = Tail(cmdq) /\ Head(cmdq).op = "ReceiveMsg"
      \/ \E d \in Command : d.op = "ReceiveMsg" /\ cmdq' = Append(cmdq, d)
  BY <1>2, <1>3
<1> QED
  BY <1>1, <1>4, ReceiveStep

\* The endpoint on the bus keeps the rendezvous.
LEMMA PeerStep ==
  ASSUME IndInv, Peer
  PROVE  SoleRequest' /\ Requested'
<1>1. UNCHANGED <<pc, resp, next_msg_tag, reqs, pending, cmdq>>
  BY Zenon DEF Peer, peer_answers, peer_loses, peer_sends, mainVars, engineVars
<1>2. SoleRequest'
  BY <1>1 DEF IndInv, SoleRequest
<1>3. \/ wire' = wire
      \/ \E r \in ReqIds : wire' = [wire EXCEPT ![r] = @ - 1]
  BY Zenon DEF Peer, peer_answers, peer_loses, peer_sends
<1>4. wire \in [ReqIds -> Nat]
  BY TypeSplit DEF IndInv, RestType
<1>5. \A r \in ReqIds : wire'[r] > 0 => wire[r] > 0
  BY <1>3, <1>4
<1> QED
  BY <1>1, <1>2, <1>5 DEF IndInv, Requested

\* Every step keeps the inductive invariant.
LEMMA StepIndInv == IndInv /\ [Next]_vars => IndInv'
<1> SUFFICES ASSUME IndInv, [Next]_vars PROVE IndInv'
  OBVIOUS
<1>1. SoleRequest' /\ Requested'
  <2>1. CASE UNCHANGED vars
    BY <2>1 DEF vars, mainVars, ctxVars, engineVars, linkVars, IndInv, SoleRequest, Requested
  <2>2. CASE Next
    BY <2>2, LoopStep, SendStep, AwaitStep, EngineSendStep, EngineMatchStep, HandleStep,
       ReaderStep, PeerStep, Zenon DEF Next, Main, Engine, Between
  <2> QED
    BY <2>1, <2>2
<1> QED
  BY <1>1, StepType DEF IndInv

\* Every reachable state of the bus owner is well-typed, whatever the
\* capacities, the tag width and the peer's answers.
THEOREM TypeCorrect == Spec => []TypeOK
<1>1. IndInv => TypeOK
  BY DEF IndInv
<1> QED
  BY <1>1, InitIndInv, StepIndInv, PTL DEF Spec

\* A panic of the engine closes the channel main waits on; nobody else can
\* make main wait for a dead engine.
LEMMA StepWoken ==
  ASSUME IndInv, MainWoken, [Next]_vars
  PROVE  MainWoken'
<1>1. CASE UNCHANGED vars
  BY <1>1, Zenon DEF vars, mainVars, engineVars, MainWoken
<1>2. CASE Between
  <2>1. pc' \in {"loop", "sleep", "send"}
    BY <1>2, BetweenStep DEF start_request
  <2> QED
    BY <2>1 DEF MainWoken
<1>3. CASE send_cmd
  BY <1>3 DEF send_cmd, engineVars, MainWoken
<1>4. CASE await_response
  <2>1. pc' \in {"loop", "exited", "send"}
    BY <1>4, AwaitCases DEF start_request
  <2> QED
    BY <2>1 DEF MainWoken
<1>5. CASE Engine
  <2>1. ASSUME engine_panic, pc' = pc PROVE MainWoken'
    <3>1. resp \in RespType
      BY TypeSplit DEF IndInv, MainType
    <3> QED
      BY <2>1, <3>1 DEF engine_panic, MainWoken, RespType
  <2>2. engine = "running" /\ pc' = pc /\ (engine_panic \/ engine' = engine)
    BY <1>5, Zenon DEF Engine, engine_send, engine_match, handle_request, engine_skip, mainVars,
       engineVars
  <2> QED
    BY <2>1, <2>2 DEF MainWoken
<1>6. CASE Reader \/ Peer
  <2>1. UNCHANGED <<engine, pc, resp>>
    BY <1>6, Zenon DEF Reader, reader_recv, reader_panic, Peer, peer_answers, peer_loses,
       peer_sends, mainVars, engineVars
  <2> QED
    BY <2>1 DEF MainWoken
<1> QED
  BY <1>1, <1>2, <1>3, <1>4, <1>5, <1>6, Zenon DEF Next, Main, Between

\* resp.send(Ok(resp_buf)).unwrap() of basic_bus_owner_loop.rs:538 never
\* panics: main is always there, with the request the flow belongs to.  And a
\* panic of the engine (372, 491) never leaves main waiting for an answer.
THEOREM RendezvousHolds == Spec => []EngineRendezvous
<1>1. Init => MainWoken
  BY DEF Init, MainWoken
<1>2. IndInv /\ MainWoken /\ [Next]_vars => MainWoken'
  BY StepWoken
<1>3. IndInv /\ MainWoken => EngineRendezvous
  BY DEF IndInv, EngineRendezvous
<1> QED
  BY <1>1, <1>2, <1>3, InitIndInv, StepIndInv, PTL DEF Spec

-----------------------------------------------------------------------------
(* Grants.                                                                 *)

\* What makes GrantsDisjoint inductive: the ranges granted so far end below
\* next_eid, which never falls below the start of the pool.
GrantsBelowNext ==
  OverflowChecks =>
    /\ MinEid <= next_eid
    /\ \A i \in 1..Len(grants) :
         MinEid <= grants[i].lo /\ grants[i].lo + grants[i].n <= next_eid
    /\ \A i, j \in 1..Len(grants) : i < j => grants[i].lo + grants[i].n <= grants[j].lo

\* A step that hands out n EIDs from next_eid on.
GrantStep(kind, n) ==
  /\ u8_ok(next_eid + n)
  /\ next_eid' = u8(next_eid + n)
  /\ grants' = grant(kind, n)

\* The bounds of a granted range are numbers.
LEMMA GrantNumbers ==
  ASSUME NEW s \in Seq(GrantType), NEW i \in 1..Len(s)
  PROVE  s[i] \in GrantType /\ s[i].lo \in 0..255 /\ s[i].n \in 0..255
<1>1. s[i] \in GrantType
  BY ElementOfSeq
<1> QED
  BY <1>1 DEF GrantType, Byte

\* Where main grants: once in the first step of a round, once in the second.
LEMMA AwaitGrants ==
  ASSUME TypeOK, await_response
  PROVE  \/ UNCHANGED <<next_eid, grants>>
         \/ \E kind \in {"eid", "pool"}, n \in Byte : GrantStep(kind, n)
<1> DEFINE f == resp.packet
<1>1. f \in Packet
  BY TypeSplit DEF MainType, RespType
<1>2. \/ exit
      \/ decodes(f) /\ get_eid_done(f)
      \/ decodes(f) /\ set_eid_done(f)
      \/ allocate_eids_done(f)
      \/ UNCHANGED ep /\ round_done
  BY Zenon DEF await_response
<1>3. exit \/ round_done => UNCHANGED <<next_eid, grants>>
  BY Zenon DEF exit, round_done
<1>4. allocate_eids_done(f) => exit \/ round_done
  BY Zenon DEF allocate_eids_done
<1> HIDE DEF f
<1>5. get_eid_done(f) => exit \/ round_done \/ GrantStep("eid", 1)
  BY Zenon DEF get_eid_done, GrantStep
<1>6. set_eid_done(f) => exit \/ round_done \/ GrantStep("pool", pool_size(f))
  BY Zenon DEF set_eid_done, GrantStep
<1>7. decodes(f) => pool_size(f) \in Byte
  BY <1>1, AnswerBytes DEF pool_size, Byte
<1>8. 1 \in Byte
  BY DEF Byte
<1> QED
  BY <1>2, <1>3, <1>4, <1>5, <1>6, <1>7, <1>8, Zenon

\* A grant keeps the ranges in order.
LEMMA GrantKeepsOrder ==
  ASSUME TypeOK, GrantsBelowNext, OverflowChecks,
         NEW kind \in {"eid", "pool"}, NEW n \in Byte, GrantStep(kind, n)
  PROVE  GrantsBelowNext'
<1> DEFINE g == [kind |-> kind, lo |-> next_eid, n |-> n]
<1>1. /\ next_eid \in 0..255 /\ n \in 0..255 /\ MinEid \in 0..255
      /\ grants \in Seq(GrantType)
  BY TypeSplit, Numbers DEF MainType, Byte
<1>2. next_eid' = next_eid + n
  BY <1>1 DEF GrantStep, u8_ok, u8
<1>3. g \in GrantType /\ g.lo = next_eid /\ g.n = n
  BY <1>1 DEF GrantType, Byte
<1>4. grants' = Append(grants, g)
  BY DEF GrantStep, grant
<1> HIDE DEF g
<1>5. /\ Len(grants) \in Nat
      /\ Len(grants') = Len(grants) + 1 /\ grants'[Len(grants) + 1] = g
      /\ \A i \in 1..Len(grants) : grants'[i] = grants[i]
  BY <1>1, <1>3, <1>4, AppendProps
<1>6. \A i \in 1..Len(grants) : grants[i].lo \in 0..255 /\ grants[i].n \in 0..255
  BY <1>1, GrantNumbers
<1>7. /\ MinEid <= next_eid
      /\ \A i \in 1..Len(grants) :
           MinEid <= grants[i].lo /\ grants[i].lo + grants[i].n <= next_eid
      /\ \A i, j \in 1..Len(grants) : i < j => grants[i].lo + grants[i].n <= grants[j].lo
  BY Zenon DEF GrantsBelowNext
<1>8. \A i \in 1..Len(grants') : i \in 1..Len(grants) \/ i = Len(grants) + 1
  BY <1>5
<1>9. MinEid <= next_eid'
  BY <1>1, <1>2, <1>7
<1>10. \A i \in 1..Len(grants') :
         MinEid <= grants'[i].lo /\ grants'[i].lo + grants'[i].n <= next_eid'
  <2> SUFFICES ASSUME NEW i \in 1..Len(grants')
               PROVE  MinEid <= grants'[i].lo /\ grants'[i].lo + grants'[i].n <= next_eid'
    OBVIOUS
  <2>1. CASE i \in 1..Len(grants)
    <3> DEFINE a == grants[i].lo
               b == grants[i].n
    <3>1. a \in 0..255 /\ b \in 0..255 /\ MinEid <= a /\ a + b <= next_eid
      BY <1>6, <1>7, <2>1
    <3>2. grants'[i].lo = a /\ grants'[i].n = b
      BY <1>5, <2>1
    <3> HIDE DEF a, b
    <3>3. a + b <= next_eid'
      BY <1>1, <1>2, <3>1
    <3> QED
      BY <3>1, <3>2, <3>3
  <2>2. CASE i = Len(grants) + 1
    BY <1>1, <1>2, <1>3, <1>5, <1>7, <2>2
  <2> QED
    BY <1>8, <2>1, <2>2
<1>11. \A i, j \in 1..Len(grants') : i < j => grants'[i].lo + grants'[i].n <= grants'[j].lo
  <2> SUFFICES ASSUME NEW i \in 1..Len(grants'), NEW j \in 1..Len(grants'), i < j
               PROVE  grants'[i].lo + grants'[i].n <= grants'[j].lo
    OBVIOUS
  <2>1. i \in 1..Len(grants) /\ grants'[i] = grants[i]
    BY <1>5, <1>8
  <2>2. CASE j \in 1..Len(grants)
    BY <1>5, <1>7, <2>1, <2>2
  <2>3. CASE j = Len(grants) + 1
    BY <1>3, <1>5, <1>7, <2>1, <2>3
  <2> QED
    BY <1>8, <2>2, <2>3
<1> QED
  BY <1>9, <1>10, <1>11 DEF GrantsBelowNext

\* Only main's await grants anything.
LEMMA StepGrants ==
  ASSUME IndInv, GrantsBelowNext, [Next]_vars
  PROVE  GrantsBelowNext'
<1>1. CASE await_response
  <2>1. TypeOK
    BY DEF IndInv
  <2>2. CASE UNCHANGED <<next_eid, grants>>
    BY <2>2 DEF GrantsBelowNext
  <2>3. CASE \E kind \in {"eid", "pool"}, n \in Byte : GrantStep(kind, n)
    <3>1. CASE OverflowChecks
      BY <2>1, <2>3, <3>1, GrantKeepsOrder
    <3>2. CASE ~OverflowChecks
      BY <3>2 DEF GrantsBelowNext
    <3> QED
      BY <3>1, <3>2
  <2> QED
    BY <1>1, <2>1, <2>2, <2>3, AwaitGrants
<1>2. CASE ~await_response
  <2>1. UNCHANGED <<next_eid, grants>>
    BY <1>2, Zenon DEF Next, Main, run_bus_owner_loop, ping, send_cmd, Engine, engine_send,
       engine_match, handle_request, engine_skip, Reader, reader_recv, reader_panic,
       Peer, peer_answers, peer_loses, peer_sends, vars, mainVars
  <2> QED
    BY <2>1 DEF GrantsBelowNext
<1> QED
  BY <1>1, <1>2

\* Over all rounds, and whatever the endpoints answer, the EID ranges handed
\* out at basic_bus_owner_loop.rs:102-103 and 123-126 are disjoint and inside
\* the EID space, when u8 overflow panics.
THEOREM GrantsStayDisjoint == Spec => []GrantsDisjoint
<1>1. Init => GrantsBelowNext
  BY Numbers DEF Init, GrantsBelowNext
<1>2. IndInv /\ GrantsBelowNext => GrantsDisjoint
  <2> SUFFICES ASSUME IndInv, GrantsBelowNext, OverflowChecks
               PROVE  \A i \in 1..Len(grants) : grants[i].lo + grants[i].n <= 255
    BY Zenon DEF GrantsBelowNext, GrantsDisjoint
  <2>1. next_eid \in 0..255 /\ grants \in Seq(GrantType)
    BY TypeSplit DEF IndInv, MainType, Byte
  <2>2. \A i \in 1..Len(grants) : grants[i].lo + grants[i].n <= next_eid
    BY Zenon DEF GrantsBelowNext
  <2>3. \A i \in 1..Len(grants) : grants[i].lo \in 0..255 /\ grants[i].n \in 0..255
    BY <2>1, GrantNumbers
  <2> SUFFICES ASSUME NEW i \in 1..Len(grants)
               PROVE  grants[i].lo + grants[i].n <= 255
    OBVIOUS
  <2> DEFINE a == grants[i].lo
             b == grants[i].n
  <2>4. a \in 0..255 /\ b \in 0..255 /\ a + b <= next_eid
    BY <2>2, <2>3
  <2> HIDE DEF a, b
  <2>5. a + b <= 255
    BY <2>1, <2>4
  <2> QED
    BY <2>5 DEF a, b
<1> QED
  BY <1>1, <1>2, InitIndInv, StepIndInv, StepGrants, PTL DEF Spec

-----------------------------------------------------------------------------
(* Tags.                                                                   *)


\* An answer carries the tag of the request it answers.
TaggedPacket == {f \in Packet : f.ans # 0 => f.len = "full" /\ f.tag.msg_tag = f.ans % TagSpace}
TaggedCommand == {c \in Command : c.packet \in TaggedPacket}
TaggedFlow == {p \in [tag : MsgFlowTag, id : ReqIds] : p.tag.msg_tag = p.id % TagSpace}

\* Tags count the requests: the r-th has tag r modulo the tag space, and so
\* have its flow and every answer to it, wherever they are.
TagsCount ==
  /\ \A r \in 1..Len(reqs) : reqs[r].tag.msg_tag = r % TagSpace
  /\ pending \in Seq(TaggedFlow)
  /\ sock \in Seq(TaggedPacket)
  /\ cmdq \in Seq(TaggedCommand)

TagInv == TagsCount /\ StaleAnswerAge

\* start_request takes the next tag and forgets the last answer.
LEMMA StartTags ==
  ASSUME IndInv, TagInv, NEW st \in Stages, NEW dest \in Byte, NEW arg \in Seq(Byte),
         start_request(st, dest, arg)
  PROVE  /\ \A r \in 1..Len(reqs') : reqs'[r].tag.msg_tag = r % TagSpace
         /\ StaleAnswerAge'
<1> DEFINE q == [tag |-> new_header(assigned_eid, dest, next_msg_tag, TRUE),
                 cmd |-> command(st), arg |-> arg]
<1>1. reqs' = Append(reqs, q)
  BY DEF start_request
<1>2. reqs \in Seq(Request) /\ Len(reqs) \in Nat
  BY TypeSplit DEF IndInv, MainType
<1>3. q.tag.msg_tag = (Len(reqs) + 1) % TagSpace
  BY DEF IndInv, Requested, new_header
<1> HIDE DEF q
<1>4. /\ Len(reqs') = Len(reqs) + 1 /\ reqs'[Len(reqs) + 1] = q
      /\ \A r \in 1..Len(reqs) : reqs'[r] = reqs[r]
  BY <1>1, <1>2
<1>5. \A r \in 1..Len(reqs') : r \in 1..Len(reqs) \/ r = Len(reqs) + 1
  BY <1>2, <1>4
<1>6. \A r \in 1..Len(reqs') : reqs'[r].tag.msg_tag = r % TagSpace
  BY <1>3, <1>4, <1>5 DEF TagInv, TagsCount
<1>7. resp'.st = "open"
  BY DEF start_request
<1> QED
  BY <1>6, <1>7 DEF StaleAnswerAge

\* A step between two requests keeps TagsCount.
LEMMA LoopTags ==
  ASSUME IndInv, TagInv, Between
  PROVE  TagInv'
<1>1. UNCHANGED <<cmdq, pending, sock>>
  BY BetweenStep
<1>2. CASE \E st \in Stages, dest \in Byte, arg \in Seq(Byte) : start_request(st, dest, arg)
  BY <1>1, <1>2, StartTags DEF TagInv, TagsCount
<1>3. CASE UNCHANGED <<resp, reqs>>
  BY <1>1, <1>3 DEF TagInv, TagsCount, StaleAnswerAge
<1> QED
  BY <1>2, <1>3, BetweenStep

\* send_cmd keeps TagsCount.
LEMMA SendTags ==
  ASSUME IndInv, TagInv, send_cmd
  PROVE  TagInv'
<1> DEFINE c == [op |-> "SendMsg", id |-> Len(reqs), packet |-> NoPacket]
<1>1. pc \in {"send", "blocked"} /\ UNCHANGED <<resp, reqs, pending, sock>>
  BY Zenon DEF send_cmd, engineVars, linkVars
<1>2. cmdq' = cmdq \/ cmdq' = Append(cmdq, c)
  BY DEF send_cmd
<1>3. c \in TaggedCommand
  <2>1. reqs \in Seq(Request) /\ Len(reqs) <= MaxReq /\ Len(reqs) > 0
    BY <1>1, TypeSplit DEF IndInv, MainType, Requested
  <2>2. Len(reqs) \in ReqIds
    BY <2>1, Numbers DEF ReqIds
  <2>3. NoPacket \in TaggedPacket
    BY NoPacketType DEF NoPacket, TaggedPacket
  <2> QED
    BY <2>2, <2>3, NoPacketType DEF Command, TaggedCommand
<1> HIDE DEF c
<1>4. cmdq' \in Seq(TaggedCommand)
  BY <1>2, <1>3, AppendProps DEF TagInv, TagsCount
<1> QED
  BY <1>1, <1>4 DEF TagInv, TagsCount, StaleAnswerAge

\* await_response keeps TagsCount.
LEMMA AwaitTags ==
  ASSUME IndInv, TagInv, await_response
  PROVE  TagInv'
<1>1. UNCHANGED <<cmdq, pending, sock>>
  BY Zenon DEF await_response, engineVars, linkVars
<1>2. CASE UNCHANGED <<next_msg_tag, reqs, resp>>
  BY <1>1, <1>2 DEF TagInv, TagsCount, StaleAnswerAge
<1>3. CASE \E st \in Stages, arg \in Seq(Byte) : start_request(st, 0, arg)
  <2>1. 0 \in Byte
    BY DEF Byte
  <2> QED
    BY <1>1, <1>3, <2>1, StartTags DEF TagInv, TagsCount
<1> QED
  BY <1>2, <1>3, AwaitCases

-----------------------------------------------------------------------------
\* The channel without its first command.
LEMMA TailTags ==
  ASSUME TagInv, cmdq # <<>>
  PROVE  Head(cmdq) \in TaggedCommand /\ Tail(cmdq) \in Seq(TaggedCommand)
  BY TailProps DEF TagInv, TagsCount

\* A panic of the engine empties its queues and delivers nothing.
LEMMA PanicTags ==
  ASSUME IndInv, TagInv, engine_panic, UNCHANGED <<reqs, sock>>
  PROVE  TagInv'
<1>1. pending' = <<>> /\ cmdq' = <<>> /\ (resp' = resp \/ resp' = [resp EXCEPT !.st = "closed"])
  BY Zenon DEF engine_panic
<1>2. resp' = resp \/ resp'.st = "closed"
  BY <1>1, TypeSplit DEF IndInv, MainType, RespType
<1> QED
  BY <1>1, <1>2 DEF TagInv, TagsCount, StaleAnswerAge

\* engine_send keeps TagsCount.
LEMMA EngineSendTags ==
  ASSUME IndInv, TagInv, engine_send
  PROVE  TagInv'
<1> DEFINE id == Head(cmdq).id
           flow == [tag |-> reqs[id].tag, id |-> id]
<1>1. /\ TypeOK /\ MainType /\ cmdq # <<>> /\ Head(cmdq).op = "SendMsg"
      /\ UNCHANGED <<reqs, sock>>
  BY TypeSplit, Zenon DEF IndInv, engine_send
<1>2. \/ pending' = Append(pending, flow) /\ cmdq' = Tail(cmdq) /\ UNCHANGED resp
      \/ engine_panic
  BY Zenon DEF engine_send
<1>3. id = Len(reqs) /\ Len(reqs) > 0
  BY <1>1, HeadCommand DEF IndInv, SoleRequest, Requested
<1>4. id \in ReqIds /\ id \in 1..Len(reqs) /\ reqs[id] \in Request
  BY <1>1, <1>3, ElementOfSeq, Numbers DEF MainType, ReqIds
<1>5. flow \in TaggedFlow
  <2>1. reqs[id].tag \in MsgFlowTag
    BY <1>4 DEF Request
  <2>2. reqs[id].tag.msg_tag = id % TagSpace
    BY <1>4 DEF TagInv, TagsCount
  <2> HIDE DEF id
  <2> QED
    BY <1>4, <2>1, <2>2 DEF TaggedFlow
<1> HIDE DEF id, flow
<1>6. CASE pending' = Append(pending, flow) /\ cmdq' = Tail(cmdq) /\ UNCHANGED resp
  <2>1. pending' \in Seq(TaggedFlow)
    BY <1>5, <1>6, AppendProps DEF TagInv, TagsCount
  <2>2. cmdq' \in Seq(TaggedCommand)
    BY <1>1, <1>6, TailTags
  <2> QED
    BY <1>1, <1>6, <2>1, <2>2 DEF TagInv, TagsCount, StaleAnswerAge
<1> QED
  BY <1>1, <1>2, <1>6, PanicTags

\* The step that could hand main the wrong answer: the flow it completes is
\* main's, so the tags of the answer and of the present request agree.
LEMMA EngineMatchTags ==
  ASSUME IndInv, TagInv, engine_match
  PROVE  TagInv'
<1> DEFINE f == Head(cmdq).packet
<1>1. cmdq # <<>> /\ UNCHANGED <<reqs, sock>> /\ cmdq' = Tail(cmdq)
  BY Zenon DEF engine_match, linkVars
<1>2. resp' = [st |-> "sent", packet |-> f]
  BY Zenon DEF engine_match
<1>3. PICK i \in 1..Len(pending) :
        is_first_match(pending, i, create_tag(f)) /\ pending' = RemoveAt(pending, i)
  BY Zenon DEF engine_match
<1>4. Head(cmdq) \in TaggedCommand /\ cmdq' \in Seq(TaggedCommand)
  BY <1>1, TailTags
<1>5. pending' \in Seq(TaggedFlow)
  BY <1>3, RemoveAtProps DEF TagInv, TagsCount
<1>6. pending[i].id = Len(reqs)
  BY <1>3, Zenon DEF IndInv, SoleRequest
<1>7. pending[i].tag.msg_tag = Len(reqs) % TagSpace
  <2>1. pending[i] \in TaggedFlow
    BY <1>3, ElementOfSeq DEF TagInv, TagsCount
  <2> QED
    BY <1>6, <2>1 DEF TaggedFlow
<1>8. f \in TaggedPacket
  BY <1>4 DEF TaggedCommand
<1> HIDE DEF f
<1>9. f.ans # 0 => f.ans % TagSpace = Len(reqs) % TagSpace
  <2>1. f.ans # 0 => create_tag(f) = f.tag /\ f.tag.msg_tag = f.ans % TagSpace
    BY <1>8 DEF TaggedPacket, create_tag
  <2>2. pending[i].tag.msg_tag = create_tag(f).msg_tag
    BY <1>3, Zenon DEF is_first_match, answers
  <2> QED
    BY <1>7, <2>1, <2>2
<1>10. StaleAnswerAge'
  BY <1>1, <1>2, <1>9 DEF StaleAnswerAge
<1> QED
  BY <1>1, <1>4, <1>5, <1>10 DEF TagInv, TagsCount

\* handle_request keeps TagsCount.
LEMMA HandleTags ==
  ASSUME IndInv, TagInv, handle_request \/ engine_skip
  PROVE  TagInv'
<1>1. UNCHANGED <<reqs, sock>> /\ cmdq # <<>>
  BY Zenon DEF handle_request, engine_skip, linkVars, mainVars
<1>2. \/ engine_panic
      \/ cmdq' = Tail(cmdq) /\ UNCHANGED <<pending, resp>>
  BY Zenon DEF handle_request, engine_skip, engineVars, mainVars
<1>3. CASE cmdq' = Tail(cmdq) /\ UNCHANGED <<pending, resp>>
  BY <1>1, <1>3, TailTags DEF TagInv, TagsCount, StaleAnswerAge
<1> QED
  BY <1>1, <1>2, <1>3, PanicTags

\* The reader keeps TagsCount.
LEMMA ReaderTags ==
  ASSUME IndInv, TagInv, Reader
  PROVE  TagInv'
<1> DEFINE c == [op |-> "ReceiveMsg", id |-> 0, packet |-> Head(sock)]
<1>1. UNCHANGED <<resp, reqs, pending>>
  BY Zenon DEF Reader, reader_recv, reader_panic, mainVars, engineVars
<1>2. \/ UNCHANGED <<sock, cmdq>>
      \/ sock # <<>> /\ sock' = Tail(sock) /\ (cmdq' = cmdq \/ cmdq' = Append(cmdq, c))
  BY DEF Reader, reader_recv, reader_panic, linkVars
<1>3. sock # <<>> => sock \in Seq(TaggedPacket) /\ Tail(sock) \in Seq(TaggedPacket)
                     /\ Head(sock) \in TaggedPacket
  BY TailProps DEF TagInv, TagsCount
<1>4. sock # <<>> => c \in TaggedCommand
  BY <1>3 DEF TaggedCommand, Command, TaggedPacket
<1> HIDE DEF c
<1>5. sock' \in Seq(TaggedPacket) /\ cmdq' \in Seq(TaggedCommand)
  BY <1>2, <1>3, <1>4, AppendProps DEF TagInv, TagsCount
<1> QED
  BY <1>1, <1>5 DEF TagInv, TagsCount, StaleAnswerAge

\* The endpoint on the bus keeps TagsCount.
LEMMA PeerTags ==
  ASSUME IndInv, TagInv, Peer
  PROVE  TagInv'
<1>1. UNCHANGED <<resp, reqs, pending, cmdq>>
  BY Zenon DEF Peer, peer_answers, peer_loses, peer_sends, mainVars, engineVars
<1>2. CASE \E r \in ReqIds : peer_answers(r)
  <2>1. PICK r \in ReqIds : peer_answers(r)
    BY <1>2
  <2>2. wire[r] > 0 /\ \E body \in AnswerBodies[reqs[r].cmd] :
          sock' = Append(sock, [len |-> "full", tag |-> create_response(reqs[r].tag),
                                cmd |-> reqs[r].cmd, body |-> body, ans |-> r])
    BY <2>1, Zenon DEF peer_answers
  <2>3. PICK body \in AnswerBodies[reqs[r].cmd] :
          sock' = Append(sock, [len |-> "full", tag |-> create_response(reqs[r].tag),
                                cmd |-> reqs[r].cmd, body |-> body, ans |-> r])
    BY <2>2
  <2> DEFINE f == [len |-> "full", tag |-> create_response(reqs[r].tag),
                   cmd |-> reqs[r].cmd, body |-> body, ans |-> r]
  <2>4. r <= Len(reqs) /\ TypeOK
    BY <2>2 DEF IndInv, Requested
  <2>5. f \in Packet
    BY <2>4, AnswerType
  <2>6. r \in 1..Len(reqs) /\ reqs[r] \in Request
    BY <2>4, ElementOfSeq, TypeSplit, Numbers DEF MainType, ReqIds
  <2>7. create_response(reqs[r].tag).msg_tag = r % TagSpace
    <3>1. reqs[r].tag \in MsgFlowTag
      BY <2>6 DEF Request
    <3>2. reqs[r].tag.msg_tag = r % TagSpace
      BY <2>6 DEF TagInv, TagsCount
    <3> QED
      BY <3>1, <3>2, ResponseProps
  <2>8. f \in TaggedPacket
    BY <2>5, <2>7 DEF TaggedPacket
  <2>9. sock' = Append(sock, f)
    BY <2>3
  <2> HIDE DEF f
  <2>10. sock' \in Seq(TaggedPacket)
    BY <2>8, <2>9, AppendProps DEF TagInv, TagsCount
  <2> QED
    BY <1>1, <2>10 DEF TagInv, TagsCount, StaleAnswerAge
<1>3. CASE \E f \in Unasked : peer_sends(f)
  <2>1. PICK f \in Unasked : sock' = Append(sock, f)
    BY <1>3, Zenon DEF peer_sends
  <2>2. f \in TaggedPacket
    BY BusOwnerAssumption, Zenon DEF TaggedPacket
  <2>3. sock' \in Seq(TaggedPacket)
    BY <2>1, <2>2, AppendProps DEF TagInv, TagsCount
  <2> QED
    BY <1>1, <2>3 DEF TagInv, TagsCount, StaleAnswerAge
<1>4. CASE \E r \in ReqIds : peer_loses(r)
  <2>1. sock' = sock
    BY <1>4, Zenon DEF peer_loses
  <2> QED
    BY <1>1, <2>1 DEF TagInv, TagsCount, StaleAnswerAge
<1> QED
  BY <1>2, <1>3, <1>4, Zenon DEF Peer

\* Main is handed the answer to an earlier request only when the number of
\* requests in between is a multiple of the tag space: with the 3-bit tags of
\* basic_bus_owner_loop.rs:256-265, eight requests later at the earliest.
THEOREM StaleAnswersAreOld == Spec => []StaleAnswerAge
<1>1. Init => TagInv
  BY DEF Init, TagInv, TagsCount, StaleAnswerAge, NoResp
<1>2. IndInv /\ TagInv /\ [Next]_vars => TagInv'
  <2> SUFFICES ASSUME IndInv, TagInv, [Next]_vars PROVE TagInv'
    OBVIOUS
  <2>1. CASE UNCHANGED vars
    BY <2>1 DEF vars, mainVars, engineVars, linkVars, TagInv, TagsCount, StaleAnswerAge
  <2>2. CASE Next
    BY <2>2, LoopTags, SendTags, AwaitTags, EngineSendTags, EngineMatchTags, HandleTags,
       ReaderTags, PeerTags, Zenon DEF Next, Main, Engine, Between
  <2> QED
    BY <2>1, <2>2
<1>3. TagInv => StaleAnswerAge
  BY DEF TagInv
<1> QED
  BY <1>1, <1>2, <1>3, InitIndInv, StepIndInv, PTL DEF Spec

-----------------------------------------------------------------------------
(* Who assigns the owner's EID.                                            *)

\* Packets of the peer: sent on its own, or the answer to a request that was
\* made, with the request's tag turned round.
Known ==
  {f \in Packet :
     \/ f \in Unasked
     \/ /\ f.ans \in 1..Len(reqs) /\ f.len = "full"
        /\ f.tag = create_response(reqs[f.ans].tag)}

KnownCommand ==
  {c \in Command : IF c.op = "ReceiveMsg" THEN c.packet \in Known ELSE c.packet.ans = 0}

\* Where everything the engine handles comes from: requests own their tag, a
\* flow has the tag of its request, and every packet is the peer's.
SourcesKnown ==
  /\ \A r \in 1..Len(reqs) : reqs[r].tag.tag_owner = TRUE
  /\ \A i \in 1..Len(pending) : pending[i].tag = reqs[pending[i].id].tag
  /\ sock \in Seq(Known)
  /\ cmdq \in Seq(KnownCommand)

\* The answers to request r, as datagrams and as commands.
PacketsFor(r) == {f \in Packet : f.ans = r}
CommandsFor(r) == {c \in Command : c.packet.ans = r}

\* Copies of request r and of answers to it between engine and peer.
UnderWay(r) == wire[r] + NumberIn(sock, PacketsFor(r)) + NumberIn(cmdq, CommandsFor(r))
Expected(r) == IF pending # <<>> /\ r = Len(reqs) THEN 1 ELSE 0

\* While the engine runs, an answer is under way only to the request whose flow
\* is pending, and only one.
SoleAnswer ==
  OrderlyPeer /\ engine = "running" => \A r \in ReqIds : UnderWay(r) <= Expected(r)

AssignInv == SourcesKnown /\ SoleAnswer /\ AssignedByRequest

\* start_request makes a request that owns its tag and knows no fewer packets.
LEMMA StartSources ==
  ASSUME IndInv, SourcesKnown, NEW st \in Stages, NEW dest \in Byte, NEW arg \in Seq(Byte),
         start_request(st, dest, arg), UNCHANGED <<sock, cmdq, pending>>, pending = <<>>
  PROVE  SourcesKnown'
<1> DEFINE q == [tag |-> new_header(assigned_eid, dest, next_msg_tag, TRUE),
                 cmd |-> command(st), arg |-> arg]
<1>1. reqs' = Append(reqs, q)
  BY DEF start_request
<1>2. reqs \in Seq(Request) /\ Len(reqs) \in Nat
  BY TypeSplit DEF IndInv, MainType
<1>3. q.tag.tag_owner = TRUE
  BY DEF new_header
<1> HIDE DEF q
<1>4. /\ Len(reqs') = Len(reqs) + 1 /\ reqs'[Len(reqs) + 1] = q
      /\ \A r \in 1..Len(reqs) : reqs'[r] = reqs[r]
  BY <1>1, <1>2
<1>5. \A r \in 1..Len(reqs') : r \in 1..Len(reqs) \/ r = Len(reqs) + 1
  BY <1>2, <1>4
<1>6. \A r \in 1..Len(reqs') : reqs'[r].tag.tag_owner = TRUE
  BY <1>3, <1>4, <1>5, Zenon DEF SourcesKnown
<1>7. 1..Len(reqs) \subseteq 1..Len(reqs')
  BY <1>2, <1>4
<1>8. Known \subseteq Known'
  BY <1>4, <1>7, Zenon DEF Known
<1>9. KnownCommand \subseteq KnownCommand'
  BY <1>8, Zenon DEF KnownCommand
<1>10. sock' \in Seq(Known') /\ cmdq' \in Seq(KnownCommand')
  BY <1>8, <1>9 DEF SourcesKnown
<1> QED
  BY <1>6, <1>10 DEF SourcesKnown

\* Steps that make no request keep the sources known when what they queue is.
LEMMA KeepSources ==
  ASSUME SourcesKnown, reqs' = reqs,
         \/ pending' = pending
         \/ \A i \in 1..Len(pending') : pending'[i].tag = reqs[pending'[i].id].tag,
         sock' \in Seq(Known), cmdq' \in Seq(KnownCommand)
  PROVE  SourcesKnown'
<1>1. Known' = Known
  BY Zenon DEF Known
<1>2. KnownCommand' = KnownCommand
  BY <1>1, Zenon DEF KnownCommand
<1> QED
  BY <1>1, <1>2, Zenon DEF SourcesKnown

-----------------------------------------------------------------------------
\* What is counted are numbers.
LEMMA CountsAreNumbers ==
  ASSUME IndInv, NEW r \in ReqIds
  PROVE  /\ wire[r] \in Nat
         /\ NumberIn(sock, PacketsFor(r)) \in Nat
         /\ NumberIn(cmdq, CommandsFor(r)) \in Nat
         /\ sock \in Seq(Packet) /\ cmdq \in Seq(Command)
<1>1. sock \in Seq(Packet) /\ cmdq \in Seq(Command) /\ wire \in [ReqIds -> Nat]
  BY Zenon DEF IndInv, TypeOK
<1> QED
  BY <1>1, NumberInType

\* The first command of the channel counts, and is gone once it is taken.
LEMMA TakeCommand ==
  ASSUME IndInv, cmdq # <<>>, NEW r \in ReqIds
  PROVE  /\ NumberIn(Tail(cmdq), CommandsFor(r)) \in Nat
         /\ NumberIn(Tail(cmdq), CommandsFor(r)) <= NumberIn(cmdq, CommandsFor(r))
         /\ Head(cmdq).packet.ans = r =>
              NumberIn(cmdq, CommandsFor(r)) = NumberIn(Tail(cmdq), CommandsFor(r)) + 1
<1>1. cmdq \in Seq(Command)
  BY CountsAreNumbers
<1>2. /\ NumberIn(Tail(cmdq), CommandsFor(r)) \in Nat
      /\ NumberIn(cmdq, CommandsFor(r)) =
           NumberIn(Tail(cmdq), CommandsFor(r)) + OneIn(Head(cmdq), CommandsFor(r))
  BY <1>1, NumberInTail
<1>3. OneIn(Head(cmdq), CommandsFor(r)) \in Nat
  BY OneInType
<1>4. Head(cmdq).packet.ans = r => OneIn(Head(cmdq), CommandsFor(r)) = 1
  <2>1. Head(cmdq) \in Command
    BY <1>1, TailProps
  <2> QED
    BY <2>1, OneInType DEF CommandsFor
<1> QED
  BY <1>2, <1>3, <1>4

\* The engine's own requests, and the tag-owner bit of every request.
LEMMA RequestTags ==
  ASSUME IndInv, SourcesKnown, NEW r \in 1..Len(reqs)
  PROVE  reqs[r].tag \in MsgFlowTag /\ reqs[r].tag.tag_owner = TRUE
<1>1. reqs \in Seq(Request)
  BY TypeSplit DEF IndInv, MainType
<1>2. reqs[r] \in Request
  BY <1>1, ElementOfSeq
<1> QED
  BY <1>2, Zenon DEF SourcesKnown, Request

\* The pending flow, when there is one, is the flow of the last request.
LEMMA PendingFlow ==
  ASSUME IndInv, SourcesKnown, NEW i \in 1..Len(pending)
  PROVE  /\ pending[i].tag = reqs[Len(reqs)].tag /\ Len(reqs) \in 1..Len(reqs)
         /\ i = 1 /\ Len(pending) = 1
<1>1. pending[i].id = Len(reqs) /\ Len(pending) <= 1 /\ pc = "wait"
  BY DEF IndInv, SoleRequest
<1>2. pending \in Seq([tag : MsgFlowTag, id : ReqIds]) /\ reqs \in Seq(Request)
  BY Zenon DEF IndInv, TypeOK
<1>3. Len(reqs) > 0
  BY <1>1 DEF IndInv, Requested
<1>4. pending[i].tag = reqs[Len(reqs)].tag
  BY <1>1 DEF SourcesKnown
<1>5. Len(reqs) \in 1..Len(reqs)
  BY <1>2, <1>3
<1>6. i = 1 /\ Len(pending) = 1
  <2> DEFINE n == Len(pending)
  <2>1. n \in Nat /\ n <= 1 /\ i \in 1..n
    BY <1>1, <1>2
  <2> HIDE DEF n
  <2>2. i = 1 /\ n = 1
    BY <2>1
  <2> QED
    BY <2>2 DEF n
<1> QED
  BY <1>4, <1>5, <1>6

\* What the engine receives from an orderly peer while it runs: a request of
\* the peer, which answers nothing, or the answer to the pending flow.
LEMMA ReceivedFromPeer ==
  ASSUME IndInv, SourcesKnown, SoleAnswer, OrderlyPeer, engine = "running",
         cmdq # <<>>, Head(cmdq).op = "ReceiveMsg", NEW f, f = Head(cmdq).packet
  PROVE  \/ f \in Unasked /\ no_match(pending, create_tag(f))
         \/ /\ f.ans = Len(reqs) /\ f.ans \in ReqIds
            /\ ~no_match(pending, create_tag(f))
<1>1. f \in Known /\ f \in Packet
  <2>1. Head(cmdq) \in KnownCommand
    BY TailProps DEF SourcesKnown
  <2> QED
    BY <2>1 DEF KnownCommand, Known
<1>2. CASE f \in Unasked
  <2>1. f.len = "full" /\ f.tag.tag_owner /\ create_tag(f) = f.tag
    BY <1>2 DEF OrderlyPeer, create_tag
  <2>2. f.tag.tag_owner = TRUE
    <3>1. f.tag.tag_owner \in BOOLEAN
      BY <1>1 DEF Packet, MsgFlowTag
    <3> QED
      BY <2>1, <3>1
  <2>3. \A i \in 1..Len(pending) : pending[i].tag.tag_owner = TRUE
    BY PendingFlow, RequestTags, Zenon
  <2>4. no_match(pending, create_tag(f))
    BY <2>1, <2>2, <2>3, Zenon DEF no_match, answers
  <2> QED
    BY <1>2, <2>4
<1>3. CASE f.ans \in 1..Len(reqs) /\ f.len = "full" /\ f.tag = create_response(reqs[f.ans].tag)
  <2> DEFINE r == f.ans
             n == NumberIn(sock, PacketsFor(r))
             m == NumberIn(cmdq, CommandsFor(r))
  <2>1. r \in ReqIds
    <3>1. reqs \in Seq(Request) /\ Len(reqs) <= MaxReq
      BY Zenon DEF IndInv, TypeOK
    <3> QED
      BY <1>3, <3>1, Numbers DEF ReqIds
  <2>2. wire[r] \in Nat /\ n \in Nat /\ m \in Nat /\ m >= 1
    <3>1. wire[r] \in Nat /\ n \in Nat /\ m \in Nat
      BY <2>1, CountsAreNumbers
    <3>2. m = NumberIn(Tail(cmdq), CommandsFor(r)) + 1
          /\ NumberIn(Tail(cmdq), CommandsFor(r)) \in Nat
      BY <2>1, TakeCommand
    <3> QED
      BY <3>1, <3>2
  <2>3. UnderWay(r) <= Expected(r)
    BY <2>1 DEF SoleAnswer
  <2>4. UnderWay(r) = wire[r] + n + m
    BY DEF UnderWay
  <2> HIDE DEF r, n, m
  <2>5. Expected(r) # 0
    BY <2>2, <2>3, <2>4
  <2>6. pending # <<>> /\ r = Len(reqs)
    BY <2>5 DEF Expected
  <2>7. 1 \in 1..Len(pending)
    <3>1. pending \in Seq([tag : MsgFlowTag, id : ReqIds])
      BY Zenon DEF IndInv, TypeOK
    <3> QED
      BY <2>6, <3>1
  <2>8. pending[1].tag = reqs[r].tag
    BY <2>6, <2>7, PendingFlow
  <2>9. reqs[r].tag \in MsgFlowTag /\ reqs[r].tag.tag_owner = TRUE
    BY <1>3, RequestTags DEF r
  <2>10. create_tag(f) = create_response(reqs[r].tag)
    BY <1>3, Zenon DEF create_tag, r
  <2>11. answers(create_tag(f), pending[1].tag)
    <3> DEFINE t == reqs[r].tag
    <3>1. /\ create_response(t).src_eid = t.dest_eid /\ create_response(t).msg_tag = t.msg_tag
          /\ create_response(t).tag_owner = ~t.tag_owner
      BY <2>9, ResponseProps
    <3>2. t.tag_owner # create_response(t).tag_owner
      BY <2>9, <3>1, Zenon
    <3> HIDE DEF t
    <3> QED
      BY <2>8, <2>10, <3>1, <3>2, Zenon DEF answers, t
  <2>12. ~no_match(pending, create_tag(f))
    BY <2>7, <2>11, Zenon DEF no_match
  <2> QED
    BY <2>1, <2>6, <2>12 DEF r
<1> QED
  BY <1>1, <1>2, <1>3, Zenon DEF Known

\* Steps that put nothing more under way keep SoleAnswer, as long as a request
\* is only made when no flow is pending.
LEMMA NoMoreUnderWay ==
  ASSUME IndInv, SoleAnswer, engine' = "running" => engine = "running",
         UNCHANGED pending, reqs' = reqs \/ pending = <<>>,
         \A r \in ReqIds : UnderWay(r)' \in Nat /\ UnderWay(r)' <= UnderWay(r)
  PROVE  SoleAnswer'
<1> SUFFICES ASSUME OrderlyPeer, engine' = "running", NEW r \in ReqIds
             PROVE  UnderWay(r)' <= Expected(r)'
  BY Zenon DEF SoleAnswer
<1>1. UnderWay(r) <= Expected(r)
  BY Zenon DEF SoleAnswer
<1>2. Expected(r)' = Expected(r) /\ Expected(r) \in Nat
  BY DEF Expected
<1>3. UnderWay(r) \in Nat
  BY CountsAreNumbers DEF UnderWay
<1> DEFINE u == UnderWay(r)
           v == UnderWay(r)'
           e == Expected(r)
<1>4. u \in Nat /\ v \in Nat /\ e \in Nat /\ u <= e /\ v <= u
  BY <1>1, <1>2, <1>3
<1> HIDE DEF u, v, e
<1>5. v <= e
  BY <1>4
<1> QED
  BY <1>2, <1>5 DEF v, e

\* A step that leaves channel, socket and wire alone.
LEMMA SameUnderWay ==
  ASSUME IndInv, SoleAnswer, UNCHANGED <<engine, pending, sock, cmdq, wire>>,
         reqs' = reqs \/ pending = <<>>
  PROVE  SoleAnswer'
<1>1. ASSUME NEW r \in ReqIds PROVE UnderWay(r)' \in Nat /\ UnderWay(r)' <= UnderWay(r)
  <2>1. UnderWay(r)' = UnderWay(r)
    BY DEF UnderWay
  <2>2. UnderWay(r) \in Nat
    BY CountsAreNumbers DEF UnderWay
  <2> QED
    BY <2>1, <2>2
<1> QED
  BY <1>1, NoMoreUnderWay

\* A request is started when no flow is pending.
LEMMA LoopAssign ==
  ASSUME IndInv, AssignInv, Between
  PROVE  AssignInv'
<1>2. pc \in {"loop", "sleep"} /\ UNCHANGED <<assigned_eid, engine, pending, sock, cmdq, wire>>
  BY BetweenStep
<1>4. pending = <<>>
  BY <1>2, NothingPending
<1>5. SourcesKnown'
  <2>1. CASE \E st \in Stages, dest \in Byte, arg \in Seq(Byte) : start_request(st, dest, arg)
    BY <1>2, <1>4, <2>1, StartSources DEF AssignInv
  <2>2. CASE UNCHANGED reqs
    BY <1>2, <2>2, KeepSources, Zenon DEF AssignInv, SourcesKnown
  <2> QED
    BY <2>1, <2>2, BetweenStep
<1>6. SoleAnswer'
  BY <1>2, <1>4, SameUnderWay DEF AssignInv
<1> QED
  BY <1>2, <1>5, <1>6 DEF AssignInv, AssignedByRequest

\* await_response starts the next request of the round, if any, after the flow
\* of the last one is gone.
LEMMA AwaitAssign ==
  ASSUME IndInv, AssignInv, await_response
  PROVE  AssignInv'
<1>1. UNCHANGED <<assigned_eid, engine, pending, sock, cmdq, wire>> /\ pc = "wait" /\ resp.st # "open"
  BY DEF await_response, engineVars, linkVars, ctxVars
<1>2. pending = <<>>
  BY <1>1, NothingPending
<1>3. SourcesKnown'
  <2>1. CASE UNCHANGED <<next_msg_tag, reqs, resp>>
    BY <1>1, <2>1, KeepSources, Zenon DEF AssignInv, SourcesKnown
  <2>2. CASE \E st \in Stages, arg \in Seq(Byte) : start_request(st, 0, arg)
    <3>1. 0 \in Byte
      BY DEF Byte
    <3> QED
      BY <1>1, <1>2, <2>2, <3>1, StartSources DEF AssignInv
  <2> QED
    BY <2>1, <2>2, AwaitCases
<1>4. SoleAnswer'
  BY <1>1, <1>2, SameUnderWay DEF AssignInv
<1> QED
  BY <1>1, <1>3, <1>4 DEF AssignInv, AssignedByRequest

\* send_cmd queues a request: nothing is under way yet.
LEMMA SendAssign ==
  ASSUME IndInv, AssignInv, send_cmd
  PROVE  AssignInv'
<1> DEFINE c == [op |-> "SendMsg", id |-> Len(reqs), packet |-> NoPacket]
<1>1. /\ pc \in {"send", "blocked"}
      /\ UNCHANGED <<reqs, assigned_eid, engine, pending, sock, wire>>
  BY Zenon DEF send_cmd, engineVars, linkVars, ctxVars
<1>2. cmdq' = cmdq \/ cmdq' = Append(cmdq, c)
  BY DEF send_cmd
<1>3. c \in Command /\ c.op = "SendMsg" /\ c.packet.ans = 0
  <2>1. reqs \in Seq(Request) /\ Len(reqs) <= MaxReq /\ Len(reqs) > 0
    BY <1>1, TypeSplit DEF IndInv, MainType, Requested
  <2>2. Len(reqs) \in ReqIds
    BY <2>1, Numbers DEF ReqIds
  <2> QED
    BY <2>2, NoPacketType DEF Command, NoPacket
<1> HIDE DEF c
<1>4. SourcesKnown'
  <2>1. c \in KnownCommand
    BY <1>3 DEF KnownCommand
  <2>2. cmdq' \in Seq(KnownCommand)
    BY <1>2, <2>1, AppendProps DEF AssignInv, SourcesKnown
  <2> QED
    BY <1>1, <2>2, KeepSources, Zenon DEF AssignInv, SourcesKnown
<1>5. SoleAnswer'
  <2>1. ASSUME NEW r \in ReqIds PROVE UnderWay(r)' \in Nat /\ UnderWay(r)' <= UnderWay(r)
    <3>1. UnderWay(r) \in Nat
      BY CountsAreNumbers DEF UnderWay
    <3>2. NumberIn(Append(cmdq, c), CommandsFor(r)) = NumberIn(cmdq, CommandsFor(r))
      <4>1. cmdq \in Seq(Command) /\ NumberIn(cmdq, CommandsFor(r)) \in Nat
        BY CountsAreNumbers
      <4>2. c \notin CommandsFor(r)
        BY <1>3 DEF CommandsFor, ReqIds
      <4>3. OneIn(c, CommandsFor(r)) = 0
        BY <4>2, OneInType
      <4> QED
        BY <1>3, <4>1, <4>3, NumberInAppend
    <3>3. UnderWay(r)' = UnderWay(r)
      BY <1>1, <1>2, <3>2 DEF UnderWay
    <3> QED
      BY <3>1, <3>3
  <2> QED
    BY <1>1, <2>1, NoMoreUnderWay DEF AssignInv
<1> QED
  BY <1>1, <1>4, <1>5 DEF AssignInv, AssignedByRequest

-----------------------------------------------------------------------------
\* The rest of the channel, once its first command is taken.
LEMMA TailSources ==
  ASSUME SourcesKnown, cmdq # <<>>
  PROVE  Tail(cmdq) \in Seq(KnownCommand)
  BY TailProps DEF SourcesKnown

\* A panic of the engine empties its queues: nothing is handled any more.
LEMMA PanicSources ==
  ASSUME SourcesKnown, engine_panic, UNCHANGED <<reqs, sock>>
  PROVE  SourcesKnown' /\ SoleAnswer'
<1>1. engine' = "panicked" /\ pending' = <<>> /\ cmdq' = <<>>
  BY Zenon DEF engine_panic
<1>2. sock' \in Seq(Known) /\ cmdq' \in Seq(KnownCommand)
  BY <1>1 DEF SourcesKnown
<1>3. \A i \in 1..Len(pending') : pending'[i].tag = reqs[pending'[i].id].tag
  BY <1>1
<1>4. SourcesKnown'
  BY <1>2, <1>3, KeepSources
<1> QED
  BY <1>1, <1>4 DEF SoleAnswer

\* engine_send puts one copy of the last request under way and remembers its
\* flow; nothing else was under way.
LEMMA EngineSendAssign ==
  ASSUME IndInv, AssignInv, engine_send
  PROVE  AssignInv'
<1> DEFINE id == Head(cmdq).id
           flow == [tag |-> reqs[id].tag, id |-> id]
<1>1. /\ TypeOK /\ cmdq # <<>> /\ Head(cmdq).op = "SendMsg" /\ engine = "running"
      /\ UNCHANGED <<reqs, sock, assigned_eid>>
  BY Zenon DEF IndInv, engine_send, ctxVars
<1>2. \/ /\ pending' = Append(pending, flow) /\ cmdq' = Tail(cmdq)
         /\ wire' = [wire EXCEPT ![id] = @ + 1]
      \/ engine_panic
  BY Zenon DEF engine_send
<1>3. id = Len(reqs) /\ pending = <<>>
  BY <1>1, HeadCommand DEF IndInv, SoleRequest
<1>4. AssignedByRequest'
  BY <1>1 DEF AssignInv, AssignedByRequest
<1>5. CASE /\ pending' = Append(pending, flow) /\ cmdq' = Tail(cmdq)
           /\ wire' = [wire EXCEPT ![id] = @ + 1]
  <2>1. pending' = <<flow>>
    BY <1>3, <1>5
  <2>2. \A i \in 1..Len(pending') : pending'[i].tag = reqs[pending'[i].id].tag
    BY <2>1
  <2>3. SourcesKnown'
    BY <1>1, <1>5, <2>2, TailSources, KeepSources DEF AssignInv, SourcesKnown
  <2>4. SoleAnswer'
    <3> SUFFICES ASSUME OrderlyPeer, NEW r \in ReqIds PROVE UnderWay(r)' <= Expected(r)'
      BY DEF SoleAnswer
    <3> DEFINE w == wire[r]
               n == NumberIn(sock, PacketsFor(r))
               m == NumberIn(cmdq, CommandsFor(r))
               k == NumberIn(Tail(cmdq), CommandsFor(r))
    <3>1. w \in Nat /\ n \in Nat /\ m \in Nat /\ k \in Nat /\ k <= m
      BY <1>1, CountsAreNumbers, TakeCommand
    <3>2. w + n + m <= 0
      BY <1>1, <1>3 DEF AssignInv, SoleAnswer, UnderWay, Expected
    <3>3. UnderWay(r)' = wire'[r] + n + k
      BY <1>1, <1>5 DEF UnderWay
    <3>4. wire'[r] = IF r = Len(reqs) THEN w + 1 ELSE w
      <4>1. wire \in [ReqIds -> Nat]
        BY <1>1, Zenon DEF TypeOK
      <4> QED
        BY <1>3, <1>5, <4>1
    <3>5. Expected(r)' = IF r = Len(reqs) THEN 1 ELSE 0
      BY <1>1, <2>1 DEF Expected
    <3> HIDE DEF w, n, m, k
    <3>6. wire'[r] + n + k <= IF r = Len(reqs) THEN 1 ELSE 0
      BY <3>1, <3>2, <3>4
    <3> QED
      BY <3>3, <3>5, <3>6
  <2> QED
    BY <1>4, <2>3, <2>4 DEF AssignInv
<1> QED
  BY <1>1, <1>2, <1>4, <1>5, PanicSources DEF AssignInv

\* engine_match takes the only answer under way together with its flow.
LEMMA EngineMatchAssign ==
  ASSUME IndInv, AssignInv, engine_match
  PROVE  AssignInv'
<1> DEFINE f == Head(cmdq).packet
<1>1. /\ cmdq # <<>> /\ Head(cmdq).op = "ReceiveMsg" /\ engine = "running"
      /\ UNCHANGED <<reqs, sock, wire, assigned_eid>> /\ cmdq' = Tail(cmdq)
  BY Zenon DEF engine_match, linkVars, ctxVars
<1>2. PICK i \in 1..Len(pending) :
        is_first_match(pending, i, create_tag(f)) /\ pending' = RemoveAt(pending, i)
  BY Zenon DEF engine_match
<1>3. i = 1 /\ Len(pending) = 1
  BY PendingFlow DEF AssignInv
<1>4. pending' = <<>>
  <2>1. pending \in Seq([tag : MsgFlowTag, id : ReqIds])
    BY Zenon DEF IndInv, TypeOK
  <2>2. pending' \in Seq([tag : MsgFlowTag, id : ReqIds]) /\ Len(pending') = 0
    <3> DEFINE p == RemoveAt(pending, i)
    <3>1. p \in Seq([tag : MsgFlowTag, id : ReqIds]) /\ Len(p) = Len(pending) - 1
      BY <2>1, RemoveAtProps
    <3> HIDE DEF p
    <3>2. Len(p) = 0
      BY <1>3, <3>1
    <3> QED
      BY <1>2, <3>1, <3>2 DEF p
  <2> QED
    BY <2>2
<1>5. SourcesKnown'
  <2>1. \A j \in 1..Len(pending') : pending'[j].tag = reqs[pending'[j].id].tag
    BY <1>4
  <2> QED
    BY <1>1, <2>1, TailSources, KeepSources DEF AssignInv, SourcesKnown
<1>6. SoleAnswer'
  <2> SUFFICES ASSUME OrderlyPeer, NEW r \in ReqIds PROVE UnderWay(r)' <= Expected(r)'
    BY DEF SoleAnswer
  <2> DEFINE w == wire[r]
             n == NumberIn(sock, PacketsFor(r))
             m == NumberIn(cmdq, CommandsFor(r))
             k == NumberIn(Tail(cmdq), CommandsFor(r))
  <2>1. ~no_match(pending, create_tag(f))
    BY <1>2, Zenon DEF no_match, is_first_match
  <2>2. f.ans = Len(reqs)
    BY <1>1, <2>1, ReceivedFromPeer DEF AssignInv
  <2>3. w \in Nat /\ n \in Nat /\ m \in Nat /\ k \in Nat /\ k <= m /\ (r = Len(reqs) => m = k + 1)
    BY <1>1, <2>2, CountsAreNumbers, TakeCommand
  <2>4. w + n + m <= IF r = Len(reqs) THEN 1 ELSE 0
    BY <1>1, <1>3 DEF AssignInv, SoleAnswer, UnderWay, Expected
  <2>5. UnderWay(r)' = w + n + k
    BY <1>1 DEF UnderWay
  <2>6. Expected(r)' = 0
    BY <1>4 DEF Expected
  <2> HIDE DEF w, n, m, k
  <2>7. w + n + k <= 0
    BY <2>3, <2>4
  <2> QED
    BY <2>5, <2>6, <2>7
<1> QED
  BY <1>1, <1>5, <1>6 DEF AssignInv, AssignedByRequest

\* Taking a packet that completes no flow out of the channel.
LEMMA TakenAssign ==
  ASSUME IndInv, SourcesKnown, SoleAnswer, cmdq # <<>>, cmdq' = Tail(cmdq),
         UNCHANGED <<reqs, sock, wire, pending, engine>>
  PROVE  SourcesKnown' /\ SoleAnswer'
<1>1. SourcesKnown'
  BY TailSources, KeepSources DEF SourcesKnown
<1>2. ASSUME NEW r \in ReqIds PROVE UnderWay(r)' \in Nat /\ UnderWay(r)' <= UnderWay(r)
  <2> DEFINE w == wire[r]
             n == NumberIn(sock, PacketsFor(r))
             m == NumberIn(cmdq, CommandsFor(r))
             k == NumberIn(Tail(cmdq), CommandsFor(r))
  <2>1. w \in Nat /\ n \in Nat /\ m \in Nat /\ k \in Nat /\ k <= m
    BY CountsAreNumbers, TakeCommand
  <2>2. UnderWay(r) = w + n + m /\ UnderWay(r)' = w + n + k
    BY DEF UnderWay
  <2> HIDE DEF w, n, m, k
  <2> QED
    BY <2>1, <2>2
<1>3. SoleAnswer'
  BY <1>2, NoMoreUnderWay
<1> QED
  BY <1>1, <1>3

\* handle_request only ever sees requests of the peer, so the EID it stores is
\* one the peer asked for.
LEMMA HandleAssign ==
  ASSUME IndInv, AssignInv, handle_request
  PROVE  AssignInv'
<1> DEFINE f == Head(cmdq).packet
<1>1. /\ cmdq # <<>> /\ Head(cmdq).op = "ReceiveMsg" /\ engine = "running"
      /\ no_match(pending, create_tag(f)) /\ UNCHANGED <<reqs, sock, wire>>
  BY Zenon DEF handle_request, linkVars
<1>2. \/ engine_panic
      \/ cmdq' = Tail(cmdq) /\ UNCHANGED <<pending, engine>>
  BY Zenon DEF handle_request, engineVars
<1>3. \/ assigned_eid' = assigned_eid
      \/ parses(f) /\ f.cmd = "SetEndpointID" /\ assigned_eid' = f.body[2]
  BY Zenon DEF handle_request, ctxVars
<1>4. SourcesKnown' /\ SoleAnswer'
  BY <1>1, <1>2, PanicSources, TakenAssign DEF AssignInv
<1>5. AssignedByRequest'
  <2> SUFFICES ASSUME OrderlyPeer PROVE assigned_eid' \in {0} \cup RequestedEids
    BY Zenon DEF AssignedByRequest
  <2>1. assigned_eid \in {0} \cup RequestedEids
    BY DEF AssignInv, AssignedByRequest
  <2>2. f \in Unasked
    BY <1>1, ReceivedFromPeer DEF AssignInv
  <2> HIDE DEF f
  <2>3. parses(f) /\ f.cmd = "SetEndpointID" => f.body[2] \in RequestedEids
    BY <2>2, Zenon DEF RequestedEids
  <2> QED
    BY <1>3, <2>1, <2>3, Zenon
<1> QED
  BY <1>4, <1>5 DEF AssignInv

\* engine_skip drops a datagram.
LEMMA SkipAssign ==
  ASSUME IndInv, AssignInv, engine_skip
  PROVE  AssignInv'
<1>1. cmdq # <<>> /\ cmdq' = Tail(cmdq) /\ UNCHANGED <<reqs, sock, wire, pending, engine, assigned_eid>>
  BY Zenon DEF engine_skip, mainVars, ctxVars, engineVars, linkVars
<1> QED
  BY <1>1, TakenAssign DEF AssignInv, AssignedByRequest

\* The reader moves a datagram on, or loses it and itself.
LEMMA ReaderAssign ==
  ASSUME IndInv, AssignInv, Reader
  PROVE  AssignInv'
<1> DEFINE c == [op |-> "ReceiveMsg", id |-> 0, packet |-> Head(sock)]
<1>1. UNCHANGED <<reqs, pending, engine, wire, assigned_eid>>
  BY Zenon DEF Reader, reader_recv, reader_panic, mainVars, engineVars, ctxVars, linkVars
<1>2. \/ UNCHANGED <<sock, cmdq>>
      \/ sock # <<>> /\ sock' = Tail(sock) /\ (cmdq' = cmdq \/ cmdq' = Append(cmdq, c))
  BY DEF Reader, reader_recv, reader_panic, linkVars
<1>3. AssignedByRequest'
  BY <1>1 DEF AssignInv, AssignedByRequest
<1>4. CASE UNCHANGED <<sock, cmdq>>
  <2>1. SoleAnswer'
    BY <1>1, <1>4, SameUnderWay DEF AssignInv
  <2>2. SourcesKnown'
    BY <1>1, <1>4, KeepSources, Zenon DEF AssignInv, SourcesKnown
  <2> QED
    BY <1>3, <2>1, <2>2 DEF AssignInv
<1>5. CASE sock # <<>> /\ sock' = Tail(sock) /\ (cmdq' = cmdq \/ cmdq' = Append(cmdq, c))
  <2>1. Head(sock) \in Known /\ Tail(sock) \in Seq(Known)
    BY <1>5, TailProps DEF AssignInv, SourcesKnown
  <2>2. c \in Command /\ c.op = "ReceiveMsg" /\ c.packet = Head(sock)
    BY <2>1 DEF Command, Known
  <2>3. c \in KnownCommand
    BY <2>1, <2>2 DEF KnownCommand
  <2> HIDE DEF c
  <2>4. cmdq' \in Seq(KnownCommand)
    BY <1>5, <2>3, AppendProps DEF AssignInv, SourcesKnown
  <2>5. SourcesKnown'
    BY <1>1, <1>5, <2>1, <2>4, KeepSources DEF AssignInv
  <2>6. ASSUME NEW r \in ReqIds PROVE UnderWay(r)' \in Nat /\ UnderWay(r)' <= UnderWay(r)
    <3> DEFINE w == wire[r]
               n == NumberIn(sock, PacketsFor(r))
               l == NumberIn(Tail(sock), PacketsFor(r))
               m == NumberIn(cmdq, CommandsFor(r))
               o == OneIn(c, CommandsFor(r))
    <3>1. w \in Nat /\ n \in Nat /\ m \in Nat /\ sock \in Seq(Packet) /\ cmdq \in Seq(Command)
      BY CountsAreNumbers
    <3>2. l \in Nat /\ n = l + OneIn(Head(sock), PacketsFor(r))
      BY <1>5, <3>1, NumberInTail
    <3>3. OneIn(Head(sock), PacketsFor(r)) = o
      <4>1. Head(sock) \in Packet
        BY <2>1 DEF Known
      <4>2. Head(sock) \in PacketsFor(r) <=> c \in CommandsFor(r)
        BY <2>2, <4>1 DEF PacketsFor, CommandsFor
      <4> QED
        BY <4>2, Zenon DEF OneIn
    <3>4. NumberIn(Append(cmdq, c), CommandsFor(r)) = m + o /\ o \in Nat
      BY <2>2, <3>1, NumberInAppend, OneInType
    <3>5. UnderWay(r) = w + n + m
      BY DEF UnderWay
    <3>6. UnderWay(r)' = w + l + m \/ UnderWay(r)' = w + l + (m + o)
      BY <1>1, <1>5, <3>4 DEF UnderWay
    <3>7. n = l + o
      BY <3>2, <3>3, Zenon
    <3>8. l \in Nat /\ o \in Nat
      BY <3>2, <3>4, Zenon
    <3> HIDE DEF w, n, l, m, o
    <3> QED
      BY <3>1, <3>5, <3>6, <3>7, <3>8
  <2>7. SoleAnswer'
    BY <1>1, <2>6, NoMoreUnderWay DEF AssignInv
  <2> QED
    BY <1>3, <2>5, <2>7 DEF AssignInv
<1> QED
  BY <1>2, <1>4, <1>5

\* The endpoint turns a copy of a request into one answer, loses it, or sends a
\* request of its own.
LEMMA PeerAssign ==
  ASSUME IndInv, AssignInv, Peer
  PROVE  AssignInv'
<1>1. UNCHANGED <<reqs, pending, engine, cmdq, assigned_eid>>
  BY Zenon DEF Peer, peer_answers, peer_loses, peer_sends, mainVars, ctxVars, engineVars
<1>2. AssignedByRequest'
  BY <1>1 DEF AssignInv, AssignedByRequest
<1>3. /\ SourcesKnown /\ SoleAnswer /\ sock \in Seq(Known) /\ cmdq \in Seq(KnownCommand)
      /\ wire \in [ReqIds -> Nat]
  BY Zenon DEF AssignInv, SourcesKnown, IndInv, TypeOK
<1>4. CASE \E x \in ReqIds : peer_answers(x)
  <2>1. PICK x \in ReqIds : peer_answers(x)
    BY <1>4
  <2>2. PICK body \in AnswerBodies[reqs[x].cmd] :
          sock' = Append(sock, [len |-> "full", tag |-> create_response(reqs[x].tag),
                                cmd |-> reqs[x].cmd, body |-> body, ans |-> x])
    BY <2>1, Zenon DEF peer_answers
  <2> DEFINE f == [len |-> "full", tag |-> create_response(reqs[x].tag),
                   cmd |-> reqs[x].cmd, body |-> body, ans |-> x]
  <2>3. wire[x] > 0 /\ (wire' = [wire EXCEPT ![x] = @ - 1] \/ ("dup" \in Faults /\ wire' = wire))
    BY <2>1, Zenon DEF peer_answers
  <2>4. x <= Len(reqs) /\ TypeOK /\ x \in 1..Len(reqs)
    <3>1. x <= Len(reqs) /\ TypeOK
      BY <2>3 DEF IndInv, Requested
    <3>2. reqs \in Seq(Request)
      BY <3>1, Zenon DEF TypeOK
    <3> QED
      BY <3>1, <3>2, Numbers DEF ReqIds
  <2>5. f \in Packet
    BY <2>4, AnswerType
  <2>6. f.ans = x /\ f.len = "full" /\ f.tag = create_response(reqs[x].tag) /\ sock' = Append(sock, f)
    BY <2>2
  <2> HIDE DEF f
  <2>7. f \in Known
    BY <2>4, <2>5, <2>6, Zenon DEF Known
  <2>8. SourcesKnown'
    <3>1. sock' \in Seq(Known)
      BY <1>3, <2>6, <2>7, AppendProps
    <3> QED
      BY <1>1, <1>3, <3>1, KeepSources
  <2>9. CASE ~OrderlyPeer
    BY <1>2, <2>8, <2>9 DEF AssignInv, SoleAnswer
  <2>10. CASE OrderlyPeer
    <3>1. wire' = [wire EXCEPT ![x] = @ - 1]
      BY <2>3, <2>10 DEF OrderlyPeer
    <3>2. ASSUME NEW r \in ReqIds PROVE UnderWay(r)' \in Nat /\ UnderWay(r)' <= UnderWay(r)
      <4> DEFINE w == wire[r]
                 n == NumberIn(sock, PacketsFor(r))
                 m == NumberIn(cmdq, CommandsFor(r))
                 o == OneIn(f, PacketsFor(r))
      <4>1. w \in Nat /\ n \in Nat /\ m \in Nat /\ sock \in Seq(Packet)
        BY CountsAreNumbers
      <4>2. NumberIn(sock', PacketsFor(r)) = n + o
        BY <2>5, <2>6, <4>1, NumberInAppend
      <4>3. (r = x => o = 1) /\ (r # x => o = 0)
        BY <2>5, <2>6, OneInType DEF PacketsFor
      <4>4. wire'[r] = IF r = x THEN w - 1 ELSE w
        BY <1>3, <3>1
      <4>5. r = x => w > 0
        BY <2>3
      <4>6. UnderWay(r) = w + n + m /\ UnderWay(r)' = wire'[r] + (n + o) + m
        BY <1>1, <4>2 DEF UnderWay
      <4> HIDE DEF w, n, m, o
      <4>7. CASE r = x
        BY <4>1, <4>3, <4>4, <4>5, <4>6, <4>7
      <4>8. CASE r # x
        BY <4>1, <4>3, <4>4, <4>6, <4>8
      <4> QED
        BY <4>7, <4>8
    <3>3. SoleAnswer'
      BY <1>1, <1>3, <3>2, NoMoreUnderWay
    <3> QED
      BY <1>2, <2>8, <3>3 DEF AssignInv
  <2> QED
    BY <2>9, <2>10
<1>5. CASE \E x \in ReqIds : peer_loses(x)
  <2>1. PICK x \in ReqIds : wire[x] > 0 /\ wire' = [wire EXCEPT ![x] = @ - 1] /\ sock' = sock
    BY <1>5, Zenon DEF peer_loses
  <2>2. SourcesKnown'
    BY <1>1, <1>3, <2>1, KeepSources
  <2>3. ASSUME NEW r \in ReqIds PROVE UnderWay(r)' \in Nat /\ UnderWay(r)' <= UnderWay(r)
    <3> DEFINE w == wire[r]
               n == NumberIn(sock, PacketsFor(r))
               m == NumberIn(cmdq, CommandsFor(r))
    <3>1. w \in Nat /\ n \in Nat /\ m \in Nat
      BY CountsAreNumbers
    <3>2. wire'[r] = (IF r = x THEN w - 1 ELSE w) /\ (r = x => w > 0)
      BY <1>3, <2>1
    <3>3. UnderWay(r) = w + n + m /\ UnderWay(r)' = wire'[r] + n + m
      BY <1>1, <2>1 DEF UnderWay
    <3> HIDE DEF w, n, m
    <3> QED
      BY <3>1, <3>2, <3>3
  <2>4. SoleAnswer'
    BY <1>1, <1>3, <2>3, NoMoreUnderWay
  <2> QED
    BY <1>2, <2>2, <2>4 DEF AssignInv
<1>6. CASE \E f \in Unasked : peer_sends(f)
  <2>1. PICK f \in Unasked : sock' = Append(sock, f) /\ wire' = wire
    BY <1>6, Zenon DEF peer_sends
  <2>2. f \in Packet /\ f.ans = 0
    BY BusOwnerAssumption, Zenon
  <2>3. f \in Known
    BY <2>2, Zenon DEF Known
  <2>4. SourcesKnown'
    <3>1. sock' \in Seq(Known)
      BY <1>3, <2>1, <2>3, AppendProps
    <3> QED
      BY <1>1, <1>3, <3>1, KeepSources
  <2>5. ASSUME NEW r \in ReqIds PROVE UnderWay(r)' \in Nat /\ UnderWay(r)' <= UnderWay(r)
    <3>1. UnderWay(r) \in Nat /\ NumberIn(sock, PacketsFor(r)) \in Nat /\ sock \in Seq(Packet)
      BY CountsAreNumbers DEF UnderWay
    <3>2. f \notin PacketsFor(r)
      BY <2>2 DEF PacketsFor, ReqIds
    <3>3. NumberIn(sock', PacketsFor(r)) = NumberIn(sock, PacketsFor(r))
      BY <2>1, <2>2, <3>1, <3>2, NumberInAppend, OneInType
    <3>4. UnderWay(r)' = UnderWay(r)
      BY <1>1, <2>1, <3>3 DEF UnderWay
    <3> QED
      BY <3>1, <3>4
  <2>6. SoleAnswer'
    BY <1>1, <1>3, <2>5, NoMoreUnderWay
  <2> QED
    BY <1>2, <2>4, <2>6 DEF AssignInv
<1> QED
  BY <1>4, <1>5, <1>6, Zenon DEF Peer

\* With a link that duplicates nothing and a peer that sends whole requests,
\* handle_request (basic_bus_owner_loop.rs:298, 544) stores an EID only for a
\* SetEndpointID request of the peer: no answer outlives its flow and is served
\* as a request, whatever is lost or panics and however often the tags wrap.
THEOREM EidsAreAssigned == Spec => []AssignedByRequest
<1>1. Init => AssignInv
  <2> SUFFICES ASSUME Init PROVE AssignInv
    OBVIOUS
  <2>1. /\ reqs = <<>> /\ pending = <<>> /\ sock = <<>> /\ cmdq = <<>> /\ assigned_eid = 0
        /\ wire = [r \in ReqIds |-> 0]
    BY Zenon DEF Init
  <2>2. SourcesKnown
    BY <2>1 DEF SourcesKnown
  <2>3. \A r \in ReqIds : UnderWay(r) = 0 /\ Expected(r) = 0
    BY <2>1, NumberInEmpty DEF UnderWay, Expected
  <2>4. SoleAnswer
    BY <2>3 DEF SoleAnswer
  <2> QED
    BY <2>1, <2>2, <2>4 DEF AssignInv, AssignedByRequest
<1>2. IndInv /\ AssignInv /\ [Next]_vars => AssignInv'
  <2> SUFFICES ASSUME IndInv, AssignInv, [Next]_vars PROVE AssignInv'
    OBVIOUS
  <2>1. CASE UNCHANGED vars
    <3>1. UNCHANGED <<reqs, pending, sock, cmdq, wire, engine, assigned_eid>>
      BY <2>1, Zenon DEF vars, mainVars, engineVars, linkVars, ctxVars
    <3>2. SourcesKnown'
      BY <3>1, KeepSources, Zenon DEF AssignInv, SourcesKnown
    <3>3. SoleAnswer'
      BY <3>1, SameUnderWay DEF AssignInv
    <3> QED
      BY <3>1, <3>2, <3>3 DEF AssignInv, AssignedByRequest
  <2>2. CASE Next
    BY <2>2, LoopAssign, SendAssign, AwaitAssign, EngineSendAssign, EngineMatchAssign,
       HandleAssign, SkipAssign, ReaderAssign, PeerAssign, Zenon DEF Next, Main, Engine,
       Between
  <2> QED
    BY <2>1, <2>2
<1>3. AssignInv => AssignedByRequest
  BY DEF AssignInv
<1> QED
  BY <1>1, <1>2, <1>3, InitIndInv, StepIndInv, PTL DEF Spec
=============================================================================
