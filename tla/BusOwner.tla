------------------------------ MODULE BusOwner ------------------------------
(***************************************************************************)
(* The bus owner of examples/basic_bus_owner_loop.rs.  Three tasks share   *)
(* one UDP socket and one bounded command channel:                         *)
(*   main    run_bus_owner_loop: a discovery round when perform_discovery  *)
(*           is set (GetEid, SetEid, AllocateEids), else a ping            *)
(*   reader  moves datagrams from the socket into the channel              *)
(*   engine  serves the channel: sends the requests of main and remembers  *)
(*           them in pending_cmd, pairs received packets with them, and    *)
(*           passes the other packets to handle_request.                   *)
(* main has one request outstanding and waits on its oneshot channel       *)
(* without a timeout.  When main returns or panics the process ends.       *)
(***************************************************************************)
EXTENDS FlowMatch

CONSTANTS
  MinEid,          \* min_eid_in_pool (0x80 in the source)
  PingEid,         \* the ping_eid argument of run_bus_owner_loop
  OverflowChecks,  \* TRUE in a debug build: u8 arithmetic panics on overflow
  QCap,            \* capacity of the command channel (32 in the source)
  SockCap,         \* datagrams the kernel keeps for the socket
  MaxReq,          \* bound on the requests main sends
  MaxUnasked,      \* bound on the datagrams the peer sends on its own
  AnswerBodies,    \* AnswerBodies[cmd]: bodies the peer answers cmd with
  Unasked,         \* datagrams the peer sends on its own
  Faults           \* failures of the environment a run includes

Byte == 0..255

\* GetEndpointUUID stands for every command that has no case of its own.
Commands == {"SetEndpointID", "GetEndpointID", "DiscoveryNotify", "AllocateEndpointIDs",
             "GetRoutingTableEntries", "GetEndpointUUID", "Unknown"}

Stages == {"get", "set", "alloc", "ping"}

\* The command each stage of main sends.
command(stage) ==
  CASE stage = "set" -> "SetEndpointID"
    [] stage = "alloc" -> "AllocateEndpointIDs"
    [] OTHER -> "GetEndpointID"

ReqIds == 1..MaxReq

\* A datagram as the engine reads it.  "runt": no SMBus header, or one whose
\* command code is not 0x0f.  body: the bytes after the control header, the
\* PEC byte the source never strips included.  cmd is "none" when the control
\* header is truncated.  ans: the request it answers, 0 for none; the program
\* never sees it.
Packet == [len : Lengths, tag : MsgFlowTag, cmd : Commands \cup {"none"},
           body : Seq(Byte), ans : ReqIds \cup {0}]

ASSUME BusOwnerAssumption ==
  /\ MinEid \in Byte /\ PingEid \in Byte
  /\ OverflowChecks \in BOOLEAN
  /\ QCap \in Nat \ {0} /\ SockCap \in Nat \ {0}
  /\ MaxReq \in Nat /\ MaxUnasked \in Nat
  /\ AnswerBodies \in [Commands -> SUBSET Seq(Byte)]
  /\ Unasked \subseteq Packet /\ \A f \in Unasked : f.ans = 0
  /\ Faults \subseteq {"send", "recv", "loss", "dup"}

VARIABLES
  pc,                 \* where main is: loop, sleep, send, blocked, wait or exited
  stage,              \* the step of the round, or the ping, main is at
  ep,                 \* EndpointContext of the endpoint being discovered
  next_eid,           \* local of run_bus_owner_loop
  resp,               \* the oneshot channel of main's request, and its content
  assigned_eid,       \* AtomicU8
  perform_discovery,  \* AtomicBool
  next_msg_tag,       \* AtomicU8; a u8 wraps at a multiple of TagSpace
  cmdq,               \* the channel of PhysicalTransportCommands
  pending,            \* pending_cmd
  engine,             \* the engine task is running or has panicked
  reader,             \* so is the reader task
  sock,               \* datagrams in the receive buffer of the socket
  wire,               \* wire[r]: copies of request r on their way to the peer
  out,                \* the last reply handle_request produced
  reqs,               \* the requests main has sent, oldest first
  grants,             \* EID ranges handed out so far, oldest first (history)
  unasked             \* datagrams the peer sent on its own (bound)

mainVars == <<pc, stage, ep, next_eid, resp, next_msg_tag, reqs, grants>>
ctxVars == <<assigned_eid, perform_discovery>>
engineVars == <<pending, engine, out>>
linkVars == <<sock, wire, unasked>>
vars == <<mainVars, ctxVars, engineVars, linkVars, cmdq, reader>>

NoPacket == [len |-> "empty", tag |-> default_tag, cmd |-> "none", body |-> <<>>, ans |-> 0]
NoEndpoint == [bridge |-> FALSE, min |-> 0, max |-> 0, size |-> 0]
NoReply == [cmd |-> "none", body |-> <<>>]
NoResp == [st |-> "none", packet |-> NoPacket]

Init ==
  /\ pc = "loop" /\ stage = "get"
  /\ ep = NoEndpoint
  /\ next_eid = MinEid
  /\ resp = NoResp
  /\ assigned_eid = 0
  /\ perform_discovery = FALSE
  /\ next_msg_tag = 1
  /\ cmdq = <<>> /\ pending = <<>>
  /\ engine = "running" /\ reader = "running"
  /\ sock = <<>>
  /\ wire = [r \in ReqIds |-> 0]
  /\ out = NoReply
  /\ reqs = <<>> /\ grants = <<>>
  /\ unasked = 0

-----------------------------------------------------------------------------
(* main                                                                    *)

\* Mutant of start_request: the tag counter is loaded, not incremented.
start_request_load(st, dest, arg) ==
  /\ Len(reqs) < MaxReq
  /\ stage' = st
  /\ reqs' = Append(reqs, [tag |-> new_header(assigned_eid, dest, next_msg_tag, TRUE),
                           cmd |-> command(st), arg |-> arg])
  /\ resp' = [st |-> "open", packet |-> NoPacket]
  /\ pc' = "send"
  /\ UNCHANGED next_msg_tag

\* send_*_request up to tx_cn.send: header, tag and oneshot channel.
start_request(st, dest, arg) ==
  /\ Len(reqs) < MaxReq
  /\ stage' = st
  /\ reqs' = Append(reqs, [tag |-> new_header(assigned_eid, dest, next_msg_tag, TRUE),
                           cmd |-> command(st), arg |-> arg])
  /\ next_msg_tag' = next_msg_tag + 1
  /\ resp' = [st |-> "open", packet |-> NoPacket]
  /\ pc' = "send"

\* Top of the loop: swap the flag and start a round, or go to sleep.
run_bus_owner_loop ==
  /\ pc = "loop"
  /\ \/ /\ perform_discovery
        /\ perform_discovery' = FALSE
        /\ start_request("get", 0, <<>>)
     \/ /\ ~perform_discovery
        /\ pc' = "sleep"
        /\ UNCHANGED <<perform_discovery, stage, reqs, next_msg_tag, resp>>
  /\ UNCHANGED <<ep, next_eid, grants, assigned_eid, engineVars, linkVars, cmdq, reader>>

\* The sleep is over: ping, whatever became of the flag in the meantime.
ping ==
  /\ pc = "sleep"
  /\ \/ PingEid # 0 /\ start_request("ping", PingEid, <<>>)
     \/ /\ PingEid = 0
        /\ pc' = "loop"
        /\ UNCHANGED <<stage, reqs, next_msg_tag, resp>>
  /\ UNCHANGED <<ep, next_eid, grants, ctxVars, engineVars, linkVars, cmdq, reader>>

\* tx_cn.send: an error when the engine is gone, else the command is queued;
\* in a full channel main waits, and the next free slot is main's.
send_cmd ==
  /\ pc \in {"send", "blocked"}
  /\ CASE engine = "panicked" -> pc' = "exited" /\ UNCHANGED cmdq
       [] engine = "running" /\ Len(cmdq) < QCap ->
            /\ cmdq' = Append(cmdq, [op |-> "SendMsg", id |-> Len(reqs), packet |-> NoPacket])
            /\ pc' = "wait"
       [] OTHER -> pc = "send" /\ pc' = "blocked" /\ UNCHANGED cmdq
  /\ UNCHANGED <<stage, ep, next_eid, resp, next_msg_tag, reqs, grants,
                 ctxVars, engineVars, linkVars, reader>>

\* Responses are decoded by position; the command code, the rq bit and the
\* instance id are not looked at.  All three have four bytes after the header.
decodes(f) == f.len = "full" /\ f.cmd # "none" /\ Len(f.body) >= 4
is_success(f) == f.body[1] = 0

\* GetEid response.  Unknown endpoint types are Simple.
is_dynamic(f) == f.body[3] % 4 = 0
is_bridge(f) == (f.body[3] \div 16) % 4 = 1
\* SetEid response.
eid_rejected(f) == (f.body[2] \div 16) % 4 # 0
requires_pool(f) == f.body[2] % 4 = 1
pool_size(f) == f.body[4]
\* AllocateEids response.  Unknown statuses are AllocationRejected.
allocation_accepted(f) == f.body[2] % 4 = 0

\* Mutant of u8_ok: the sum may be one too large.
u8_ok_loose(n) == OverflowChecks => n <= 256

\* u8 addition: overflow panics in a debug build and wraps in a release one.
u8_ok(n) == OverflowChecks => n <= 255
u8(n) == n % 256

grant(kind, n) == Append(grants, [kind |-> kind, lo |-> next_eid, n |-> n])

exit == pc' = "exited" /\ UNCHANGED <<stage, ep, next_eid, resp, next_msg_tag, reqs, grants>>
round_done == pc' = "loop" /\ UNCHANGED <<stage, next_eid, resp, next_msg_tag, reqs, grants>>

\* Steps 1 to 3 of a round, on the answer to each.
get_eid_done(f) ==
  LET found == [NoEndpoint EXCEPT !.bridge = is_bridge(f)]
  IN  CASE ~is_dynamic(f) -> ep' = found /\ round_done
        [] is_dynamic(f) /\ ~u8_ok(next_eid + 1) -> exit
        [] OTHER -> /\ ep' = found
                    /\ next_eid' = u8(next_eid + 1)
                    /\ grants' = grant("eid", 1)
                    /\ start_request("set", 0, <<next_eid>>)

set_eid_done(f) ==
  LET n == pool_size(f)
      pool == [ep EXCEPT !.min = next_eid, !.max = u8(next_eid + n - 1), !.size = n]
  IN  CASE eid_rejected(f) -> exit
        [] ~eid_rejected(f) /\ ~(ep.bridge /\ requires_pool(f) /\ n > 0) ->
             UNCHANGED ep /\ round_done
        [] OTHER ->
             IF ~u8_ok(next_eid + n) THEN exit
             ELSE /\ ep' = pool
                  /\ next_eid' = u8(next_eid + n)
                  /\ grants' = grant("pool", n)
                  /\ IF pool.min # pool.max
                     THEN start_request("alloc", 0, <<pool.min, n>>)
                     ELSE pc' = "loop" /\ UNCHANGED <<stage, resp, next_msg_tag, reqs>>

allocate_eids_done(f) ==
  IF allocation_accepted(f) THEN UNCHANGED ep /\ round_done ELSE exit

\* Mutant of await_response: the flag is reset at the end of a round.
await_response_reset ==
  /\ pc = "wait"
  /\ resp.st \in {"sent", "closed"}
  /\ LET f == resp.packet
     IN  CASE resp.st = "closed" \/ ~decodes(f) -> exit
           [] resp.st = "sent" /\ decodes(f) /\ ~is_success(f) -> exit
           [] OTHER -> \/ stage = "get" /\ get_eid_done(f)
                       \/ stage = "set" /\ set_eid_done(f)
                       \/ stage = "alloc" /\ allocate_eids_done(f)
                       \/ stage = "ping" /\ UNCHANGED ep /\ round_done
  /\ perform_discovery' = (perform_discovery /\ pc' # "loop")
  /\ UNCHANGED <<assigned_eid, engineVars, linkVars, cmdq, reader>>

\* resp_rx.await returns.  Every error ends main: by ? in a round, by unwrap
\* in a ping.
await_response ==
  /\ pc = "wait"
  /\ resp.st \in {"sent", "closed"}
  /\ LET f == resp.packet
     IN  CASE resp.st = "closed" \/ ~decodes(f) -> exit
           [] resp.st = "sent" /\ decodes(f) /\ ~is_success(f) -> exit
           [] OTHER -> \/ stage = "get" /\ get_eid_done(f)
                       \/ stage = "set" /\ set_eid_done(f)
                       \/ stage = "alloc" /\ allocate_eids_done(f)
                       \/ stage = "ping" /\ UNCHANGED ep /\ round_done
  /\ UNCHANGED <<ctxVars, engineVars, linkVars, cmdq, reader>>

Main == run_bus_owner_loop \/ ping \/ send_cmd \/ await_response

-----------------------------------------------------------------------------
(* The engine and reader tasks.                                            *)

Running == pc # "exited"

\* Mutant of engine_panic: the receiving half of the channel survives.
engine_panic_open ==
  /\ engine' = "panicked"
  /\ pending' = <<>>
  /\ resp' = IF pc = "wait" /\ resp.st = "open" THEN [resp EXCEPT !.st = "closed"] ELSE resp
  /\ UNCHANGED cmdq

\* The engine panics: the channel closes, and with pending_cmd and the queued
\* commands the sending half of main's oneshot channel is dropped.
engine_panic ==
  /\ engine' = "panicked"
  /\ pending' = <<>>
  /\ cmdq' = <<>>
  /\ resp' = IF pc = "wait" /\ resp.st = "open" THEN [resp EXCEPT !.st = "closed"] ELSE resp

\* SendMsg: remember the flow, then send; a send error panics (expect).
engine_send ==
  /\ Running /\ engine = "running"
  /\ cmdq # <<>> /\ Head(cmdq).op = "SendMsg"
  /\ LET id == Head(cmdq).id
     IN  \/ /\ pending' = Append(pending, [tag |-> reqs[id].tag, id |-> id])
            /\ wire' = [wire EXCEPT ![id] = @ + 1]
            /\ cmdq' = Tail(cmdq)
            /\ UNCHANGED <<engine, resp>>
         \/ /\ "send" \in Faults
            /\ engine_panic
            /\ UNCHANGED wire
  /\ UNCHANGED <<pc, stage, ep, next_eid, next_msg_tag, reqs, grants, ctxVars, out,
                 sock, unasked, reader>>

\* Mutant of engine_match: the flow stays pending.
engine_match_keep ==
  /\ Running /\ engine = "running"
  /\ cmdq # <<>> /\ Head(cmdq).op = "ReceiveMsg"
  /\ Head(cmdq).packet.len # "runt"
  /\ \E i \in 1..Len(pending) : is_first_match(pending, i, create_tag(Head(cmdq).packet))
  /\ resp' = [st |-> "sent", packet |-> Head(cmdq).packet]
  /\ cmdq' = Tail(cmdq)
  /\ UNCHANGED <<pc, stage, ep, next_eid, next_msg_tag, reqs, grants, ctxVars, engineVars,
                 linkVars, reader>>

\* ReceiveMsg, a packet that answers a pending flow: the flow is removed and
\* the packet handed to main.
engine_match ==
  /\ Running /\ engine = "running"
  /\ cmdq # <<>> /\ Head(cmdq).op = "ReceiveMsg"
  /\ Head(cmdq).packet.len # "runt"
  /\ \E i \in 1..Len(pending) :
       /\ is_first_match(pending, i, create_tag(Head(cmdq).packet))
       /\ pending' = RemoveAt(pending, i)
  /\ resp' = [st |-> "sent", packet |-> Head(cmdq).packet]
  /\ cmdq' = Tail(cmdq)
  /\ UNCHANGED <<pc, stage, ep, next_eid, next_msg_tag, reqs, grants, ctxVars, engine, out,
                 linkVars, reader>>

\* Bytes after the control header each request type needs.
request_len(cmd) ==
  CASE cmd = "SetEndpointID" -> 2
    [] cmd = "GetRoutingTableEntries" -> 1
    [] OTHER -> 0

parses(f) == f.len = "full" /\ f.cmd # "none" /\ Len(f.body) >= request_len(f.cmd)

\* The body of the reply, the PEC byte left out.  GetEid always answers EID 0,
\* dynamic, simple endpoint.
reply_body(f) ==
  CASE f.cmd = "SetEndpointID" -> <<0, 0, f.body[2], 0>>
    [] f.cmd = "GetEndpointID" -> <<0, 0, 0, 0>>
    [] f.cmd = "DiscoveryNotify" -> <<0>>
    [] f.cmd = "GetRoutingTableEntries" -> <<0, 255, 0>>
    [] OTHER -> <<5>>

\* ReceiveMsg, every other packet, a stray response too: handle_request, then
\* the reply is sent.  One that does not parse is reported and forgotten, one
\* with an unknown command code is a todo!().
handle_request ==
  /\ Running /\ engine = "running"
  /\ cmdq # <<>> /\ Head(cmdq).op = "ReceiveMsg"
  /\ Head(cmdq).packet.len # "runt"
  /\ no_match(pending, create_tag(Head(cmdq).packet))
  /\ LET f == Head(cmdq).packet
     IN  \/ /\ parses(f) /\ f.cmd # "Unknown"
            /\ assigned_eid' = IF f.cmd = "SetEndpointID" THEN f.body[2] ELSE assigned_eid
            /\ perform_discovery' = (perform_discovery \/ f.cmd = "DiscoveryNotify")
            /\ \/ /\ out' = [cmd |-> f.cmd, body |-> reply_body(f)]
                  /\ cmdq' = Tail(cmdq)
                  /\ UNCHANGED <<pending, engine, resp>>
               \/ /\ "send" \in Faults
                  /\ engine_panic
                  /\ UNCHANGED out
         \/ /\ parses(f) /\ f.cmd = "Unknown"
            /\ engine_panic
            /\ UNCHANGED <<ctxVars, out>>
         \/ /\ ~parses(f)
            /\ cmdq' = Tail(cmdq)
            /\ UNCHANGED <<ctxVars, engineVars, resp>>
  /\ UNCHANGED <<pc, stage, ep, next_eid, next_msg_tag, reqs, grants, linkVars, reader>>

\* ReceiveMsg, not an MCTP SMBus frame.
engine_skip ==
  /\ Running /\ engine = "running"
  /\ cmdq # <<>> /\ Head(cmdq).op = "ReceiveMsg"
  /\ Head(cmdq).packet.len = "runt"
  /\ cmdq' = Tail(cmdq)
  /\ UNCHANGED <<mainVars, ctxVars, engineVars, linkVars, reader>>

Engine == engine_send \/ engine_match \/ handle_request \/ engine_skip

\* Mutant of reader_recv: the channel is unbounded.
reader_recv_unbounded ==
  /\ Running /\ reader = "running"
  /\ sock # <<>>
  /\ sock' = Tail(sock)
  /\ cmdq' = Append(cmdq, [op |-> "ReceiveMsg", id |-> 0, packet |-> Head(sock)])
  /\ UNCHANGED <<mainVars, ctxVars, engineVars, wire, unasked, reader>>

\* One free slot is main's as soon as main waits for it.
Reserved == IF pc = "blocked" THEN 1 ELSE 0

\* recv_from, then try_send without waiting: a full channel or a closed one
\* panics the reader.
reader_recv ==
  /\ Running /\ reader = "running"
  /\ sock # <<>>
  /\ sock' = Tail(sock)
  /\ CASE Head(sock).len = "empty" -> UNCHANGED <<cmdq, reader>>
       [] Head(sock).len # "empty" /\ engine = "running" /\ Len(cmdq) + Reserved < QCap ->
            /\ cmdq' = Append(cmdq, [op |-> "ReceiveMsg", id |-> 0, packet |-> Head(sock)])
            /\ UNCHANGED reader
       [] OTHER -> reader' = "panicked" /\ UNCHANGED cmdq
  /\ UNCHANGED <<mainVars, ctxVars, engineVars, wire, unasked>>

\* recv_from fails: unwrap.
reader_panic ==
  /\ "recv" \in Faults
  /\ Running /\ reader = "running"
  /\ reader' = "panicked"
  /\ UNCHANGED <<mainVars, ctxVars, engineVars, linkVars, cmdq>>

Reader == reader_recv \/ reader_panic

-----------------------------------------------------------------------------
(* The endpoint at the other end of the bus (external).                    *)

\* It answers a copy of request r with one of the bodies its firmware allows;
\* a duplicating link keeps the copy.
peer_answers(r) ==
  /\ Running
  /\ wire[r] > 0
  /\ Len(sock) < SockCap
  /\ \E body \in AnswerBodies[reqs[r].cmd] :
       sock' = Append(sock, [len |-> "full", tag |-> create_response(reqs[r].tag),
                             cmd |-> reqs[r].cmd, body |-> body, ans |-> r])
  /\ \/ wire' = [wire EXCEPT ![r] = @ - 1]
     \/ "dup" \in Faults /\ UNCHANGED wire
  /\ UNCHANGED <<mainVars, ctxVars, engineVars, unasked, cmdq, reader>>

\* A copy, or its answer, is lost.
peer_loses(r) ==
  /\ Running
  /\ "loss" \in Faults
  /\ wire[r] > 0
  /\ wire' = [wire EXCEPT ![r] = @ - 1]
  /\ UNCHANGED <<mainVars, ctxVars, engineVars, sock, unasked, cmdq, reader>>

peer_sends(f) ==
  /\ Running
  /\ unasked < MaxUnasked
  /\ Len(sock) < SockCap
  /\ sock' = Append(sock, f)
  /\ unasked' = unasked + 1
  /\ UNCHANGED <<mainVars, ctxVars, engineVars, wire, cmdq, reader>>

Peer ==
  \/ \E r \in ReqIds : peer_answers(r) \/ peer_loses(r)
  \/ \E f \in Unasked : peer_sends(f)

Next == Main \/ Engine \/ Reader \/ Peer

Spec == Init /\ [][Next]_vars

\* The runtime runs every task that can run; the endpoint answers.
Fairness ==
  /\ WF_vars(Main) /\ WF_vars(Engine) /\ WF_vars(reader_recv)
  /\ \A r \in ReqIds : WF_vars(peer_answers(r))

FairSpec == Spec /\ Fairness

-----------------------------------------------------------------------------
Request == [tag : MsgFlowTag, cmd : Commands, arg : Seq(Byte)]
Command == [op : {"SendMsg", "ReceiveMsg"}, id : ReqIds \cup {0}, packet : Packet]

\* Types, with the capacity of the command channel (basic_bus_owner_loop.rs:400)
\* and the bounds of the histories.
TypeOK ==
  /\ pc \in {"loop", "sleep", "send", "blocked", "wait", "exited"}
  /\ stage \in Stages
  /\ ep \in [bridge : BOOLEAN, min : Byte, max : Byte, size : Byte]
  /\ next_eid \in Byte
  /\ resp \in [st : {"none", "open", "sent", "closed"}, packet : Packet]
  /\ assigned_eid \in Byte
  /\ perform_discovery \in BOOLEAN
  /\ next_msg_tag \in 1..(MaxReq + 1)
  /\ cmdq \in Seq(Command) /\ Len(cmdq) <= QCap
  /\ pending \in Seq([tag : MsgFlowTag, id : ReqIds])
  /\ engine \in {"running", "panicked"}
  /\ reader \in {"running", "panicked"}
  /\ sock \in Seq(Packet) /\ Len(sock) <= SockCap
  /\ wire \in [ReqIds -> Nat]
  /\ out \in [cmd : Commands \cup {"none"}, body : Seq(Byte)]
  /\ reqs \in Seq(Request) /\ Len(reqs) <= MaxReq
  /\ grants \in Seq([kind : {"eid", "pool"}, lo : Byte, n : Byte])
  /\ unasked \in 0..MaxUnasked

\* The request of main that the engine knows of.  Whenever a flow is pending,
\* it is the only one, main is waiting, on the channel of that very request,
\* and nothing was sent into it yet.  The request is never queued and pending
\* at once, and never queued twice.
SoleRequest ==
  /\ Len(pending) <= 1
  /\ \A i \in 1..Len(pending) :
       pc = "wait" /\ resp.st = "open" /\ pending[i].id = Len(reqs)
  /\ \A i \in 1..Len(cmdq) : cmdq[i].op = "SendMsg" =>
       /\ pc = "wait" /\ resp.st = "open" /\ cmdq[i].id = Len(reqs)
       /\ pending = <<>>
       /\ \A j \in 1..Len(cmdq) : cmdq[j].op = "SendMsg" => i = j

\* main is not left waiting by an engine that died.
MainWoken == engine = "panicked" /\ pc = "wait" => resp.st # "open"

\* main and the engine meet: the unwrap of basic_bus_owner_loop.rs:538 never
\* fails, because a pending flow is that of the request main is waiting for;
\* and a panic of the engine (lines 372 and 491), wherever main's request was
\* then, ends the wait of main.
EngineRendezvous == SoleRequest /\ MainWoken

\* An answer to an earlier request can only be taken for the answer to the
\* present one when the tag has gone all the way round in between.
StaleAnswerAge ==
  resp.st = "sent" /\ resp.packet.ans # 0 =>
    resp.packet.ans % TagSpace = Len(reqs) % TagSpace

\* No EID is handed out twice, over all rounds: in a build with overflow
\* checks the ranges granted by lines 102-103 and 123-126 lie one after the
\* other in the EID space.
GrantsDisjoint ==
  OverflowChecks =>
    /\ \A i \in 1..Len(grants) : MinEid <= grants[i].lo /\ grants[i].lo + grants[i].n <= 255
    /\ \A i, j \in 1..Len(grants) : i < j => grants[i].lo + grants[i].n <= grants[j].lo

\* EIDs the peer asked this endpoint to take.
RequestedEids ==
  {f.body[2] : f \in {g \in Unasked : g.cmd = "SetEndpointID" /\ parses(g)}}

\* A link that duplicates nothing, and a peer that sends whole requests on its
\* own: a truncated datagram can use up the flow of another request's answer.
OrderlyPeer ==
  /\ "dup" \notin Faults
  /\ \A f \in Unasked : f.len = "full" /\ f.tag.tag_owner

\* With an orderly peer the owner's EID is only ever what a SetEndpointID
\* request asked for: no response finds its flow gone and goes through
\* handle_request (line 544) as if it were a request.
AssignedByRequest == OrderlyPeer => assigned_eid \in {0} \cup RequestedEids

\* The discovery rounds main has started.
Rounds == Cardinality({r \in 1..Len(reqs) : reqs[r].cmd = "GetEndpointID"})

\* A DiscoveryNotify is not lost: whenever the flag is set (line 347), in the
\* middle of a round or of a wait too, another round starts after it.
NotifyServed == \A n \in 0..MaxReq : perform_discovery /\ Rounds = n ~> Rounds > n

\* main gets out of every wait on the link.
RoundCompletes == pc # "loop" ~> pc = "loop"

-----------------------------------------------------------------------------
(* What comments and assertions of the repository say and the code does    *)
(* not do.                                                                 *)

\* basic_bus_owner_loop.rs:130, "Assign an EID Pool (if needed)": after a
\* round, every pool set aside for a bridge was announced to it.
PoolAnnounced ==
  pc = "loop" => \A i \in 1..Len(grants) : grants[i].kind = "pool" =>
    \E r \in 1..Len(reqs) :
      /\ reqs[r].cmd = "AllocateEndpointIDs"
      /\ reqs[r].arg = <<grants[i].lo, grants[i].n>>
=============================================================================
