-------------------------- MODULE FlowMatchProofs --------------------------
(***************************************************************************)
(* Facts about transport headers and flow tags, for every width of the tag *)
(* field.                                                                  *)
(***************************************************************************)
EXTENDS FlowMatch, SequenceLemmas

\* TransportHeader::new stores a tag that fits the field.
LEMMA NewHeaderType ==
  ASSUME NEW s \in Eid, NEW d \in Eid, NEW t \in Nat, NEW o \in BOOLEAN
  PROVE  new_header(s, d, t, o) \in MsgFlowTag
<1>1. t % TagSpace \in 0..(TagSpace - 1)
  BY TagSpaceAssumption
<1> QED
  BY <1>1 DEF new_header, MsgFlowTag

\* create_response keeps the tag, swaps the EIDs and inverts the owner bit.
LEMMA ResponseProps ==
  ASSUME NEW h \in MsgFlowTag
  PROVE  /\ create_response(h) \in MsgFlowTag
         /\ create_response(h).dest_eid = h.src_eid
         /\ create_response(h).src_eid = h.dest_eid
         /\ create_response(h).msg_tag = h.msg_tag
         /\ create_response(h).tag_owner = ~h.tag_owner
<1>1. /\ h.dest_eid \in Eid /\ h.src_eid \in Eid
      /\ h.msg_tag \in 0..(TagSpace - 1)
  BY DEF MsgFlowTag
<1>2. h.tag_owner \in BOOLEAN
  BY DEF MsgFlowTag
<1>3. (~h.tag_owner) \in BOOLEAN
  BY <1>2, Zenon
<1>4. h.msg_tag % TagSpace = h.msg_tag
  BY <1>1, TagSpaceAssumption
<1>5. create_response(h) = [dest_eid |-> h.src_eid, src_eid |-> h.dest_eid,
                            msg_tag |-> h.msg_tag, tag_owner |-> ~h.tag_owner]
  BY <1>4, Zenon DEF create_response, new_header
<1>6. create_response(h) \in MsgFlowTag
  BY <1>1, <1>3, <1>5 DEF MsgFlowTag
<1> QED
  BY <1>5, <1>6

\* The tag of a datagram too short for a header is a tag.
LEMMA DefaultTagType == default_tag \in MsgFlowTag
<1>1. 0 \in 0..(TagSpace - 1)
  BY TagSpaceAssumption
<1> QED
  BY <1>1 DEF default_tag, MsgFlowTag, Eid

\* create_tag is defined on every datagram, however short.
LEMMA CreateTagType ==
  ASSUME NEW f, f.tag \in MsgFlowTag
  PROVE  create_tag(f) \in MsgFlowTag
  BY DefaultTagType DEF create_tag
=============================================================================
