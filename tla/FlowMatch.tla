------------------------------ MODULE FlowMatch -----------------------------
(***************************************************************************)
(* The part of an MCTP packet the emulator routes on: the transport header *)
(* of mctp-base-lib (base/models.rs), the flow key MsgFlowTag derived from *)
(* it (endpoint/types.rs), and the rule by which a received packet is      *)
(* paired with a pending flow.  The rule occurs twice in the source, word  *)
(* for word: in SimpleNetwork::callback_handler and in the engine task of  *)
(* the bus owner.  Constant-level: no variables.                           *)
(***************************************************************************)
EXTENDS Integers, Sequences, SequencesExt

CONSTANT TagSpace  \* number of values of the 3-bit msg_tag field: 8

ASSUME TagSpaceAssumption == TagSpace \in Nat \ {0}

Eid == 0..255

\* create_tag copies these four fields out of the header; the others
\* (version, packet_seq, som, eom) are constant and never read.
MsgFlowTag == [dest_eid : Eid, src_eid : Eid,
               msg_tag : 0..(TagSpace - 1), tag_owner : BOOLEAN]

\* MsgFlowTag::default()
default_tag == [dest_eid |-> 0, src_eid |-> 0, msg_tag |-> 0,
                tag_owner |-> FALSE]

\* TransportHeader::new.  set_msg_tag stores the low bits of the u8 it is
\* given in a 3-bit field.
new_header(src_eid, dst_eid, tag, owner) ==
  [dest_eid |-> dst_eid, src_eid |-> src_eid,
   msg_tag |-> tag % TagSpace, tag_owner |-> owner]

\* Mutant of create_response: the tag-owner bit is kept.
create_response_same_owner(hdr) ==
  new_header(hdr.dest_eid, hdr.src_eid, hdr.msg_tag, hdr.tag_owner)

\* TransportHeader::create_response: the EIDs swapped, the tag kept, the
\* tag-owner bit inverted whatever it was.
create_response(hdr) ==
  new_header(hdr.dest_eid, hdr.src_eid, hdr.msg_tag, ~hdr.tag_owner)

(***************************************************************************)
(* Datagrams by length, the only thing the parsers test:                   *)
(*   "empty"  0 bytes        ignored by the polling task                   *)
(*   "runt"   1 to 3 bytes   no SMBus header                               *)
(*   "short"  4 to 7 bytes   SMBus header, truncated transport header      *)
(*   "full"   8 and more     both headers                                  *)
(* The tag of a datagram that is not full is unused, and default_tag.      *)
(***************************************************************************)
Lengths == {"empty", "runt", "short", "full"}

\* create_tag, applied to what follows the SMBus header.  Fewer than four
\* bytes give the default tag, not an error; four bytes always parse, so
\* the None result of the source is unreachable.
create_tag(frame) ==
  IF frame.len = "full" THEN frame.tag ELSE default_tag

\* Mutants of answers: the remote EID is not compared, and the wrong EID of the
\* received packet is.
answers_any_eid(recv, flow) ==
  flow.msg_tag = recv.msg_tag /\ flow.tag_owner # recv.tag_owner

answers_wrong_eid(recv, flow) ==
  /\ flow.msg_tag = recv.msg_tag
  /\ flow.tag_owner # recv.tag_owner
  /\ flow.dest_eid = recv.dest_eid

\* A received tag answers a pending flow.  The source EID of the flow is
\* not compared with the destination EID of the answer.
answers(recv, flow) ==
  /\ flow.msg_tag = recv.msg_tag
  /\ flow.tag_owner # recv.tag_owner
  /\ flow.dest_eid = recv.src_eid

\* The linear scan: i is the first pending flow that recv answers.
is_first_match(flows, i, recv) ==
  /\ answers(recv, flows[i].tag)
  /\ \A j \in 1..(i - 1) : ~answers(recv, flows[j].tag)

no_match(flows, recv) ==
  \A i \in 1..Len(flows) : ~answers(recv, flows[i].tag)

\* What the scan tells flows apart by, of a request's tag.
flow_key(tag) == <<tag.dest_eid, tag.msg_tag>>
=============================================================================
