--------------------------- MODULE ControlExchange ---------------------------
(***************************************************************************)
(* The two programs of the repository talking to each other over UDP, byte *)
(* by byte: a task using SimpleNetwork, as in example_simple_network.rs    *)
(* (ports 5559 to 5558), and the bus owner of basic_bus_owner_loop.rs      *)
(* (5558 to 5559).  The task makes one sendto after the other with a       *)
(* client whose tag is fixed; transmit sends every frame twice; the        *)
(* owner's engine serves each copy; the owner starts a discovery round     *)
(* when it is notified, and its requests arrive where only answers are     *)
(* expected.  What happens inside each program between its locks is in     *)
(* SimpleNetwork and BusOwner; here each handles a datagram in one step,   *)
(* and the datagrams are those WireFormat builds and reads.                *)
(***************************************************************************)
EXTENDS WireFormat

CONSTANTS
  Calls,       \* the requests the task may send: [cmd, instance, arg]
  MaxCalls,    \* bound on the sendto calls
  Address,     \* address of the client, its source EID
  Tag,         \* tag of the client, a u8
  PhyAddrs,    \* SMBus addresses the task sends to
  OwnAddr,     \* address argument of SmbusNetDevBinding::new
  PecBytes,    \* values of the PEC byte, which nobody checks
  MaxLost      \* bound on the datagrams the network loses

ASSUME ControlExchangeAssumption ==
  /\ Calls \subseteq [cmd : Byte, instance : Byte, arg : Byte]
  /\ MaxCalls \in Nat /\ MaxLost \in Nat
  /\ TagSpace = 8  \* the tag field of WireFormat has three bits
  /\ Address \in Byte /\ Tag \in Byte /\ OwnAddr \in Byte
  /\ PhyAddrs \subseteq Nat
  /\ PecBytes \subseteq Byte

VARIABLES
  client,             \* the task: idle, in a sendto, or panicked
  flows,              \* pending flows of SimpleNetwork
  calls,              \* the sendto calls so far, with the packet of each
  got,                \* what the sendto of each finished call returned
  assigned_eid,       \* the owner's atomics
  perform_discovery,
  next_tag,           \* next_msg_tag and next_instance_id, always equal
  pending,            \* pending flows of the owner's engine
  owner,              \* the owner's engine is running or has panicked
  last,               \* the last packet handle_request took, and its reply
  toOwner, toClient,  \* datagrams on their way, oldest first
  lost                \* datagrams lost so far

clientVars == <<client, flows, calls, got>>
ownerVars == <<assigned_eid, perform_discovery, next_tag, pending, owner, last>>
vars == <<clientVars, ownerVars, toOwner, toClient, lost>>

\* A datagram; of is the call it belongs to, 0 for none, which neither program
\* sees.
Datagram(bytes, of) == [bytes |-> bytes, of |-> of]
Nothing == [packet |-> <<>>, reply |-> <<>>]

Init ==
  /\ client = "idle" /\ flows = <<>> /\ calls = <<>> /\ got = <<>>
  /\ assigned_eid = 0 /\ perform_discovery = FALSE /\ next_tag = 1
  /\ pending = <<>> /\ owner = "running" /\ last = Nothing
  /\ toOwner = <<>> /\ toClient = <<>>
  /\ lost = 0

-----------------------------------------------------------------------------
(* The task and SimpleNetwork.                                             *)

\* The control header of a request, as both programs make it.
request_header(cmd, instance) == control_header(cmd, instance, FALSE, TRUE, FALSE)

\* The message of a request, as example_simple_network.rs builds one: control
\* header and body.
message(call) ==
  LET hdr == request_header(call.cmd, call.instance)
  IN  CASE call.cmd = SetEndpointID -> set_eid_request(hdr, 0, call.arg)
        [] call.cmd = GetEndpointID -> get_eid_request(hdr)
        [] call.cmd = AllocateEndpointIDs -> allocate_eids_request(hdr, 0, 1, call.arg)
        [] call.cmd = GetRoutingTableEntries -> get_routing_table_request(hdr, call.arg)
        [] OTHER -> empty_request(hdr)

\* Mutant of sendto_packet: the tag-owner bit is left out.
sendto_packet_no_owner(call) ==
  control_payload(transport_header(Address, 0, Tag, FALSE), message(call))

\* The packet of sendto: the header is built from the client, to EID 0.
sendto_packet(call) ==
  control_payload(transport_header(Address, 0, Tag, TRUE), message(call))

\* Mutants of transmit: a third copy; only one.
transmit_once(frame) == toOwner \o <<frame>>
transmit_thrice(frame) == toOwner \o <<frame, frame, frame>>

\* Two try_sends of the same buffer.
transmit(frame) == toOwner \o <<frame, frame>>

\* sendto up to its wait: flow, frame, transmit.  An address transmit refuses
\* panics the task.
sendto(call, phy_addr) ==
  /\ client = "idle"
  /\ Len(calls) < MaxCalls
  /\ LET packet == sendto_packet(call)
         n == Len(calls) + 1
     IN  /\ calls' = Append(calls, [call |-> call, packet |-> packet, phy_addr |-> phy_addr])
         /\ flows' = Append(flows, [tag |-> tag_of(packet), id |-> n])
         /\ IF validate_smbus_address(phy_addr)
            THEN /\ client' = "waiting"
                 /\ \E pec \in PecBytes :
                      toOwner' = transmit(Datagram(
                        transmit_frame(phy_addr, set_address(OwnAddr), packet, pec), n))
            ELSE client' = "panicked" /\ UNCHANGED toOwner
  /\ UNCHANGED <<got, ownerVars, toClient, lost>>

\* callback_handler: the packet of a datagram that answers the pending flow is
\* what sendto returns; every other one, the owner's requests too, is dropped.
callback_handler ==
  /\ client # "panicked"
  /\ toClient # <<>>
  /\ LET d == Head(toClient)
         packet == frame_body(d.bytes)
     IN  \/ /\ no_match(flows, tag_of(packet))
            /\ UNCHANGED <<client, flows, got>>
         \/ \E i \in 1..Len(flows) :
              /\ is_first_match(flows, i, tag_of(packet))
              /\ flows' = RemoveAt(flows, i)
              /\ got' = Append(got, Datagram(packet, d.of))
              /\ client' = "idle"
  /\ toClient' = Tail(toClient)
  /\ UNCHANGED <<calls, ownerVars, toOwner, lost>>

-----------------------------------------------------------------------------
(* The bus owner.                                                          *)

\* A packet handle_request decodes: long enough for its command.
decodes(packet) ==
  /\ payload_parses(packet)
  /\ LET p == payload_of(packet) IN Len(p) >= request_size(command_code(p[3]))

\* Mutant of reply_message: the request's header is sent back as it is.
reply_message_rq(p) ==
  LET hdr == SubSeq(p, 1, 3)
  IN  CASE p[3] = SetEndpointID -> set_eid_response(hdr, Success, 0, 0, p[5], 0)
        [] p[3] = GetEndpointID -> get_eid_response(hdr, Success, 0, 0, 0, 0)
        [] p[3] = DiscoveryNotify -> empty_response(hdr, Success)
        [] p[3] = GetRoutingTableEntries ->
             get_routing_table_response(hdr, Success, 255, 0)
        [] OTHER -> empty_response(hdr, ErrorUnsupportedCmd)

\* The message of the reply.  SetEndpointID reads back the EID just stored;
\* GetEndpointID always answers EID 0, dynamic, simple.
reply_message(p) ==
  LET hdr == response_control_header(p)
  IN  CASE p[3] = SetEndpointID -> set_eid_response(hdr, Success, 0, 0, p[5], 0)
        [] p[3] = GetEndpointID -> get_eid_response(hdr, Success, 0, 0, 0, 0)
        [] p[3] = DiscoveryNotify -> empty_response(hdr, Success)
        [] p[3] = GetRoutingTableEntries ->
             get_routing_table_response(hdr, Success, 255, 0)
        [] OTHER -> empty_response(hdr, ErrorUnsupportedCmd)

\* Mutant of stored_eid: an endpoint that has an EID keeps it.
stored_eid_first(p) == IF assigned_eid = 0 THEN p[5] ELSE assigned_eid

\* The EID of a SetEndpointID request, whatever its operation.
stored_eid(p) == p[5]

\* handle_request, and its reply through send_cmd_closure.
handle_request(packet, of) ==
  LET p == payload_of(packet)
      reply == control_payload(response_header(packet), reply_message(p))
  IN  \/ /\ decodes(packet) /\ command_code(p[3]) # Unknown
         /\ assigned_eid' = IF p[3] = SetEndpointID THEN stored_eid(p) ELSE assigned_eid
         /\ perform_discovery' = (perform_discovery \/ p[3] = DiscoveryNotify)
         /\ last' = [packet |-> packet, reply |-> reply]
         /\ \E pec \in PecBytes :
              toClient' = Append(toClient, Datagram(owner_frame(reply, pec), of))
         /\ UNCHANGED owner
      \/ /\ decodes(packet) /\ command_code(p[3]) = Unknown
         /\ owner' = "panicked"
         /\ last' = [packet |-> packet, reply |-> <<>>]
         /\ UNCHANGED <<assigned_eid, perform_discovery, toClient>>

\* The engine on a received frame.  The task sends nothing that answers a
\* request of the owner.
engine ==
  /\ owner = "running"
  /\ toOwner # <<>>
  /\ LET d == Head(toOwner)
     IN  /\ d.bytes[2] = SMBUS_COMMAND_CODE_MCTP
         /\ no_match(pending, tag_of(frame_body(d.bytes)))
         /\ handle_request(frame_body(d.bytes), d.of)
  /\ toOwner' = Tail(toOwner)
  /\ UNCHANGED <<clientVars, next_tag, pending, lost>>

\* run_bus_owner_loop takes the flag and sends GetEndpointID to EID 0; nobody
\* answers, so main stays in this request.  ping_eid is 0: no pings.
run_bus_owner_loop ==
  /\ owner = "running"
  /\ perform_discovery /\ pending = <<>>
  /\ perform_discovery' = FALSE
  /\ next_tag' = next_tag + 1
  /\ LET packet == control_payload(
           transport_header(assigned_eid, 0, next_tag, TRUE),
           get_eid_request(request_header(GetEndpointID, next_tag)))
     IN  /\ pending' = <<[tag |-> tag_of(packet), id |-> next_tag]>>
         /\ \E pec \in PecBytes :
              toClient' = Append(toClient, Datagram(owner_frame(packet, pec), 0))
  /\ UNCHANGED <<clientVars, assigned_eid, owner, last, toOwner, lost>>

-----------------------------------------------------------------------------
\* A datagram is lost (external).
lose ==
  /\ lost < MaxLost
  /\ lost' = lost + 1
  /\ \/ toOwner # <<>> /\ toOwner' = Tail(toOwner) /\ UNCHANGED toClient
     \/ toClient # <<>> /\ toClient' = Tail(toClient) /\ UNCHANGED toOwner
  /\ UNCHANGED <<clientVars, ownerVars>>

Next ==
  \/ \E call \in Calls, phy_addr \in PhyAddrs : sendto(call, phy_addr)
  \/ callback_handler
  \/ engine
  \/ run_bus_owner_loop
  \/ lose

Spec == Init /\ [][Next]_vars

\* The tasks of both programs run; the caller need not call.
FairSpec ==
  Spec /\ WF_vars(callback_handler) /\ WF_vars(engine) /\ WF_vars(run_bus_owner_loop)

-----------------------------------------------------------------------------
Wire == {toOwner[i] : i \in 1..Len(toOwner)} \cup {toClient[i] : i \in 1..Len(toClient)}

Answers ==
  {Datagram(frame_body(toClient[i].bytes), toClient[i].of) : i \in 1..Len(toClient)}
  \cup {got[i] : i \in 1..Len(got)}

\* Types: whatever the counters and arguments, what goes over the wire are
\* bytes.
ExchangeTypeOK ==
  /\ client \in {"idle", "waiting", "panicked"}
  /\ owner \in {"running", "panicked"}
  /\ flows \in Seq([tag : MsgFlowTag, id : 1..MaxCalls])
  /\ pending \in Seq([tag : MsgFlowTag, id : Byte])
  /\ assigned_eid \in Byte /\ next_tag \in Byte
  /\ perform_discovery \in BOOLEAN
  /\ \A d \in Wire \cup Answers : d.bytes \in Seq(Byte) /\ d.of \in 0..Len(calls)

\* What handle_request puts into the answer to each command, field by field as
\* the accessors read it.  GetEndpointID is answered with EID 0, dynamic, simple
\* endpoint, whatever EID is assigned (EidReported is about that).
ReplyFields(call, p) ==
  CASE call.cmd = SetEndpointID ->
         /\ completion_code(p[4]) = Success
         /\ eid_assignment_status(p) = 0 /\ eid_allocation_status(p) = 0
         /\ eid_setting(p) = call.arg
    [] call.cmd = GetEndpointID ->
         /\ completion_code(p[4]) = Success
         /\ reported_eid(p) = 0 /\ eid_type(p) = 0 /\ endpoint_type(p) = 0
    [] call.cmd = DiscoveryNotify -> completion_code(p[4]) = Success
    [] call.cmd = GetRoutingTableEntries ->
         completion_code(p[4]) = Success /\ p[5] = 255 /\ p[6] = 0
    [] OTHER -> completion_code(p[4]) = ErrorUnsupportedCmd

\* Through both encodings and decodings (base/models.rs, control/models.rs,
\* basic_bus_owner_loop.rs:291-374) every answer, of any call and on its way or
\* returned, belongs to its request: its routing fields are the request's
\* turned round as in FlowMatch, it is a response with the request's command
\* and the low five bits of its instance id, and it carries the fields
\* handle_request sets for that command, the EID of a SetEndpointID among them.
AnswerBelongs ==
  \A d \in Answers : d.of # 0 =>
    LET call == calls[d.of].call
        p == payload_of(d.bytes)
    IN  /\ tag_of(d.bytes) = create_response(tag_of(calls[d.of].packet))
        /\ rq(p) = 0 /\ instance_id(p) = call.instance % 32 /\ p[3] = call.cmd
        /\ ReplyFields(call, p)

\* Both ends send requests, with the same tags and EIDs (the owner's counter
\* against the client's fixed tag): neither end takes a request for an answer
\* (simple_network.rs:158, basic_bus_owner_loop.rs:528).
RequestsAreNotAnswers ==
  /\ \A i \in 1..Len(toOwner) : no_match(pending, tag_of(frame_body(toOwner[i].bytes)))
  /\ \A i \in 1..Len(got) : got[i].of # 0

\* How stale an answer can be (smbus_netdev.rs:128, simple_network.rs:158):
\* every request is answered twice and the tag never changes, so a call can be
\* completed by the answer to an earlier one; but never to one before the
\* first half of the calls, whatever is lost.
StaleByHalf == \A n \in 1..Len(got) : 2 * got[n].of >= n /\ got[n].of <= n

\* Frames go where the call said, from the address the binding was given or,
\* only if set_address refuses that one, from 0 (smbus_netdev.rs:62, 85, 117):
\* no accepted address loses a bit in the 8-bit field.  The length byte counts
\* the message without the PEC byte, as this end does.
AddressedAsAsked ==
  \A i \in 1..Len(toOwner) :
    LET f == toOwner[i].bytes
    IN  /\ f[1] = 2 * calls[toOwner[i].of].phy_addr
        /\ f[4] \div 2 = set_address(OwnAddr) /\ bits(f[4], 0, 0) = 1
        /\ f[3] = Len(f) - SMBUS_HDR_SIZE - 1

\* A sendto returns although one datagram was lost, of either direction and at
\* any time, and although the owner's main is stuck in a discovery round
\* (basic_bus_owner_loop.rs:285) by then: the other copy is answered.
CallReturns ==
  client = "waiting" ~> client # "waiting" \/ owner = "panicked" \/ lost > 1

LastAsked ==
  LET sets == {i \in 1..Len(calls) : calls[i].call.cmd = SetEndpointID}
  IN  IF sets = {} THEN 0
      ELSE calls[CHOOSE i \in sets : \A j \in sets : j <= i].call.arg

\* The last EID asked for is the one the owner keeps, although each request
\* is applied twice and may be reported done before it is applied once
\* (basic_bus_owner_loop.rs:298).
LastEidWins ==
  <>[](assigned_eid = LastAsked \/ client = "panicked" \/ owner = "panicked" \/ lost > 1)

-----------------------------------------------------------------------------
(* What comments of the repository say and the code does not do.           *)

\* control/enums.rs:15, of GetEndpointID: "Returns the EID presently assigned to
\* an endpoint".
EidReported ==
  last.reply # <<>> /\ payload_of(last.packet)[3] = GetEndpointID
  => reported_eid(payload_of(last.reply)) = assigned_eid
=============================================================================
