----------------------------- MODULE WireFormat -----------------------------
(***************************************************************************)
(* The bytes on the wire: SMBus frames, the transport header, the control  *)
(* header and the control messages of mctp-base-lib, as their constructors *)
(* write them and their accessors read them back.  A packed struct is the  *)
(* sequence of its bytes; decoding needs at least as many bytes as the     *)
(* struct has and ignores the rest, the PEC byte included.                 *)
(* Constant-level: no variables.                                           *)
(***************************************************************************)
EXTENDS FlowMatch

Byte == 0..255

-----------------------------------------------------------------------------
(* Bit fields (c2rust_bitfields).                                          *)

\* Bits lo..=hi of a byte.
bits(b, lo, hi) == (b \div 2^lo) % 2^(hi - lo + 1)

\* Mutant of set_bits: the value is not cut to the width of the field.
set_bits_wide(b, lo, hi, v) ==
  b - bits(b, lo, hi) * 2^lo + v * 2^lo

\* The setter of such a field stores the low bits of the value.
set_bits(b, lo, hi, v) ==
  b - bits(b, lo, hi) * 2^lo + (v % 2^(hi - lo + 1)) * 2^lo

bit(bool) == IF bool THEN 1 ELSE 0

-----------------------------------------------------------------------------
(* TransportHeader: version and reserved, destination, source, and         *)
(* som eom seq:2 owner tag:3.                                              *)

transport_header(src_eid, dst_eid, msg_tag, tag_owner) ==
  LET version == set_bits(0, 0, 3, 1)
      tagged == set_bits(set_bits(0, 0, 2, msg_tag), 3, 3, bit(tag_owner))
  IN  <<version, dst_eid, src_eid, set_bits(set_bits(tagged, 7, 7, 1), 6, 6, 1)>>

\* create_tag on at least four bytes.
tag_of(b) ==
  [dest_eid |-> b[2], src_eid |-> b[3], msg_tag |-> bits(b[4], 0, 2),
   tag_owner |-> bits(b[4], 3, 3) # 0]

\* TransportHeader::create_response
response_header(b) ==
  transport_header(b[2], b[3], bits(b[4], 0, 2), bits(b[4], 3, 3) = 0)

-----------------------------------------------------------------------------
(* ControlMsgHeader: integrity and message type, rq d rsvd instance:5,     *)
(* command code.                                                           *)

SIZEOF_CONTROL_HDR == 3

\* CommandCode: every other byte is read as Unknown, which is written as 255.
KnownCommands == 0..20
SetEndpointID == 1
GetEndpointID == 2
GetEndpointUUID == 3
AllocateEndpointIDs == 8
GetRoutingTableEntries == 10
DiscoveryNotify == 13
Unknown == 255
command_code(b) == IF b \in KnownCommands THEN b ELSE Unknown

control_header(cmd, instance, integ_check, request, datagram) ==
  LET flagged == set_bits(set_bits(0, 7, 7, bit(request)), 6, 6, bit(datagram))
  IN  <<set_bits(0, 7, 7, bit(integ_check)), set_bits(flagged, 0, 4, instance), cmd>>

\* hdr.set_rq(0) in every Response::from: the rest of the request's header,
\* its command code read and written again, is kept.
response_control_header(p) == <<p[1], set_bits(p[2], 7, 7, 0), command_code(p[3])>>

instance_id(p) == bits(p[2], 0, 4)
rq(p) == bits(p[2], 7, 7)

-----------------------------------------------------------------------------
(* Control messages: header p, then the fields.                            *)

set_eid_request(hdr, operation, eid) == hdr \o <<set_bits(0, 0, 1, operation), eid>>
get_eid_request(hdr) == hdr
allocate_eids_request(hdr, operation, number_of_eids, starting_eid) ==
  hdr \o <<set_bits(0, 0, 1, operation), number_of_eids, starting_eid>>
get_routing_table_request(hdr, entry_handle) == hdr \o <<entry_handle>>
empty_request(hdr) == hdr

\* mem::size_of the request struct handle_request decodes a command with.
request_size(cmd) ==
  CASE cmd = SetEndpointID -> SIZEOF_CONTROL_HDR + 2
    [] cmd = GetRoutingTableEntries -> SIZEOF_CONTROL_HDR + 1
    [] OTHER -> SIZEOF_CONTROL_HDR

\* CompletionCode: every unlisted byte is ErrorUnsupportedCmd.
Success == 0
ErrorUnsupportedCmd == 5
completion_code(b) == IF b \in 0..4 THEN b ELSE ErrorUnsupportedCmd

set_eid_response(hdr, code, allocation_status, assignment_status, eid, pool_size) ==
  hdr \o <<code, set_bits(set_bits(0, 0, 1, allocation_status), 4, 5, assignment_status),
           eid, pool_size>>

get_eid_response(hdr, code, eid, eid_type, endpoint_type, medium_specific) ==
  hdr \o <<code, eid, set_bits(set_bits(0, 0, 1, eid_type), 4, 5, endpoint_type),
           medium_specific>>

get_routing_table_response(hdr, code, next_entry_handle, entries) ==
  hdr \o <<code, next_entry_handle, entries>>

empty_response(hdr, code) == hdr \o <<code>>

\* The accessors of a response's fields, on the bytes p from the control
\* header on.  Unlisted endpoint types are Simple.
eid_allocation_status(p) == bits(p[5], 0, 1)
eid_assignment_status(p) == bits(p[5], 4, 5)
eid_setting(p) == p[6]
reported_eid(p) == p[5]
eid_type(p) == bits(p[6], 0, 1)
endpoint_type(p) == IF bits(p[6], 4, 5) = 1 THEN 1 ELSE 0

-----------------------------------------------------------------------------
(* ControlPayload.                                                         *)

TRANSPORT_HDR_SIZE == 4

\* The bytes of a payload: the transport header, then the message, which
\* carries its control header itself.
control_payload(hdr, message) == hdr \o message

\* ControlPayload::try_from succeeds; the PEC byte counts.
payload_parses(b) == Len(b) >= TRANSPORT_HDR_SIZE + SIZEOF_CONTROL_HDR

\* What it keeps of them: everything after the transport header.
payload_of(b) == SubSeq(b, TRANSPORT_HDR_SIZE + 1, Len(b))

-----------------------------------------------------------------------------
(* SMBus frames.                                                           *)

SMBUS_COMMAND_CODE_MCTP == 15
SMBUS_HDR_SIZE == 4

\* Mutant of validate_smbus_address: no upper bound.
validate_smbus_address_low(addr) ==
  /\ addr >= 8
  /\ addr \div 8 # 15

\* Reserved 7-bit addresses are 0000xxx and 1111xxx.
validate_smbus_address(addr) ==
  /\ addr >= 8
  /\ addr \div 8 # 15
  /\ addr <= 127

\* new() ignores the result of set_address, which leaves the default 0 in
\* place of an address it rejects.
set_address(addr) == IF validate_smbus_address(addr) THEN addr ELSE 0

\* SmbusPhysTransportHeader::new: u8 shifts.
smbus_header(dest_addr, src_addr, byte_count) ==
  <<(dest_addr * 2) % 256, SMBUS_COMMAND_CODE_MCTP, byte_count,
    ((src_addr * 2) % 256) + 1>>

\* The frame SmbusNetDevBinding::transmit builds: the PEC byte is not counted
\* in the length.
transmit_frame(phy_addr, address, message, pec) ==
  smbus_header(phy_addr % 128, address, Len(message) % 256) \o message \o <<pec>>

\* The frame the bus owner builds, to its fixed destination: here it is.
owner_frame(message, pec) ==
  <<96, SMBUS_COMMAND_CODE_MCTP, (Len(message) % 256) + 1, 33>> \o message \o <<pec>>

\* What both ends cut off a received frame before they look at the rest.
frame_body(f) == SubSeq(f, SMBUS_HDR_SIZE + 1, Len(f))
=============================================================================
