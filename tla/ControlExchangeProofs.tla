----------------------- MODULE ControlExchangeProofs -----------------------
(***************************************************************************)
(* What the two programs' bytes mean to each other, for every command,     *)
(* instance id, argument, tag and address, any number of calls and losses. *)
(* Packets are described byte by byte: what the constructors of            *)
(* mctp-base-lib write, what the accessors read back, and that neither     *)
(* SMBus header nor PEC byte comes in between.                             *)
(***************************************************************************)
EXTENDS ControlExchange, FlowMatchProofs

-----------------------------------------------------------------------------
(* Bytes and bit fields.                                                   *)

Call == [cmd : Byte, instance : Byte, arg : Byte]

\* The constants are bytes.
LEMMA ByteConstants ==
  /\ Address \in 0..255 /\ Tag \in 0..255 /\ OwnAddr \in 0..255
  /\ PecBytes \subseteq Byte /\ Calls \subseteq Call /\ PhyAddrs \subseteq Nat
  /\ MaxCalls \in Nat /\ MaxLost \in Nat /\ TagSpace = 8
  BY ControlExchangeAssumption, Zenon DEF Byte, Call

\* One sequence of bytes after the other.
LEMMA Join ==
  ASSUME NEW s \in Seq(Byte), NEW t \in Seq(Byte)
  PROVE  /\ s \o t \in Seq(Byte) /\ Len(s \o t) = Len(s) + Len(t)
         /\ \A i \in 1..Len(s) : (s \o t)[i] = s[i]
         /\ \A i \in 1..Len(t) : (s \o t)[Len(s) + i] = t[i]
<1>1. /\ s \o t \in Seq(Byte) /\ Len(s \o t) = Len(s) + Len(t)
      /\ \A i \in 1..(Len(s) + Len(t)) :
           (s \o t)[i] = IF i <= Len(s) THEN s[i] ELSE t[i - Len(s)]
  BY ConcatProperties
<1>2. Len(s) \in Nat /\ Len(t) \in Nat
  OBVIOUS
<1> DEFINE u == s \o t
           n == Len(s)
           m == Len(t)
<1> HIDE DEF u, n, m
<1>3. \A i \in 1..n : u[i] = s[i]
  BY <1>1, <1>2 DEF u, n, m
<1>4. \A i \in 1..m : u[n + i] = t[i]
  BY <1>1, <1>2 DEF u, n, m
<1> QED
  BY <1>1, <1>3, <1>4 DEF u, n, m

\* The bytes after the first n.
LEMMA Cut ==
  ASSUME NEW s \in Seq(Byte), NEW n \in Nat, n <= Len(s)
  PROVE  /\ SubSeq(s, n + 1, Len(s)) \in Seq(Byte)
         /\ Len(SubSeq(s, n + 1, Len(s))) = Len(s) - n
         /\ \A i \in 1..(Len(s) - n) : SubSeq(s, n + 1, Len(s))[i] = s[n + i]
OBVIOUS

\* The last byte of a transport header: tag, owner bit, start and end of message.
OwnerByte(t, o) == (t % 8) + (IF o THEN 8 ELSE 0) + 192

\* The bytes of a transport header that are read.
Routed(h, d, s, b) ==
  h \in Seq(Byte) /\ Len(h) >= 4 /\ h[2] = d /\ h[3] = s /\ h[4] = b

\* TransportHeader::new writes three bits of tag and the owner bit.
LEMMA TransportHeader ==
  ASSUME NEW s \in Byte, NEW d \in Byte, NEW t \in Byte, NEW o \in BOOLEAN
  PROVE  /\ Routed(transport_header(s, d, t, o), d, s, OwnerByte(t, o))
         /\ Len(transport_header(s, d, t, o)) = 4
<1> DEFINE a == t % 8
           b == a + (IF o THEN 8 ELSE 0)
<1>1. set_bits(0, 0, 2, t) = a /\ a \in 0..7
  BY DEF set_bits, bits, Byte
<1>2. set_bits(0, 0, 3, 1) = 1
  BY DEF set_bits, bits
<1>3. bit(o) = IF o THEN 1 ELSE 0
  BY DEF bit
<1> HIDE DEF a
<1>4. set_bits(a, 3, 3, bit(o)) = b
  <2>1. CASE o
    BY <1>1, <1>3, <2>1 DEF set_bits, bits
  <2>2. CASE ~o
    BY <1>1, <1>3, <2>2 DEF set_bits, bits
  <2> QED
    BY <2>1, <2>2
<1>5. b \in 0..15
  BY <1>1
<1> HIDE DEF b
<1>6. set_bits(set_bits(b, 7, 7, 1), 6, 6, 1) = b + 192
  BY <1>5 DEF set_bits, bits
<1>7. transport_header(s, d, t, o) = <<1, d, s, b + 192>>
  BY <1>1, <1>2, <1>4, <1>6 DEF transport_header
<1>8. b + 192 \in Byte /\ 1 \in Byte
  BY <1>5 DEF Byte
<1>9. OwnerByte(t, o) = b + 192
  BY DEF OwnerByte, a, b
<1> DEFINE h == transport_header(s, d, t, o)
           c == b + 192
<1>10. h = <<1, d, s, c>> /\ c \in Byte /\ 1 \in Byte
  BY <1>7, <1>8
<1> HIDE DEF h, c
<1>11. h \in Seq(Byte) /\ Len(h) = 4 /\ h[2] = d /\ h[3] = s /\ h[4] = c
  BY <1>10
<1>12. Len(h) >= 4
  BY <1>11
<1> QED
  BY <1>9, <1>11, <1>12, Zenon DEF Routed, h, c

\* The tag create_tag reads back.
TagAs(d, s, t, o) == [dest_eid |-> d, src_eid |-> s, msg_tag |-> t % 8, tag_owner |-> o]

\* Its fields.
LEMMA TagFields ==
  ASSUME NEW d, NEW s, NEW t, NEW o
  PROVE  /\ TagAs(d, s, t, o).dest_eid = d /\ TagAs(d, s, t, o).src_eid = s
         /\ TagAs(d, s, t, o).msg_tag = t % 8 /\ TagAs(d, s, t, o).tag_owner = o
BY DEF TagAs

\* create_tag reads what TransportHeader::new wrote.
LEMMA TagReadBack ==
  ASSUME NEW s \in Byte, NEW d \in Byte, NEW t \in Byte, NEW o \in BOOLEAN,
         NEW h, Routed(h, d, s, OwnerByte(t, o))
  PROVE  /\ tag_of(h) = TagAs(d, s, t, o) /\ tag_of(h) \in MsgFlowTag
         /\ bits(h[4], 0, 2) = t % 8 /\ (bits(h[4], 3, 3) # 0) = o
<1> DEFINE a == t % 8
           b == OwnerByte(t, o)
<1>1. a \in 0..7
  BY DEF Byte
<1>2. b = a + (IF o THEN 8 ELSE 0) + 192
  BY DEF OwnerByte
<1>3. h[2] = d /\ h[3] = s /\ h[4] = b
  BY Zenon DEF Routed
<1> HIDE DEF a, b
<1>4. bits(b, 0, 2) = a /\ (bits(b, 3, 3) # 0 <=> o)
  <2>1. CASE o
    BY <1>1, <1>2, <2>1 DEF bits
  <2>2. CASE ~o
    BY <1>1, <1>2, <2>2 DEF bits
  <2> QED
    BY <2>1, <2>2
<1>5. (bits(b, 3, 3) # 0) = o
  BY <1>4, Zenon
<1>6. tag_of(h) = [dest_eid |-> d, src_eid |-> s, msg_tag |-> a, tag_owner |-> o]
  BY <1>3, <1>4, <1>5, Zenon DEF tag_of
<1>7. tag_of(h) \in MsgFlowTag
  <2>1. 0..(TagSpace - 1) = 0..7
    BY ByteConstants
  <2>2. d \in Eid /\ s \in Eid /\ a \in 0..(TagSpace - 1)
    BY <1>1, <2>1, Zenon DEF Byte, Eid
  <2> QED
    BY <1>6, <2>2 DEF MsgFlowTag
<1> QED
  BY <1>3, <1>4, <1>5, <1>6, <1>7, Zenon DEF a, TagAs

\* A control header with command c and instance id i, written as a request.
InstanceByte(i) == 128 + (i % 32)

HeaderBytes(h, c, i) ==
  h \in Seq(Byte) /\ Len(h) = 3 /\ h[1] = 0 /\ h[2] = InstanceByte(i) /\ h[3] = c

\* ControlMsgHeader::new of a request: rq set, five bits of instance id.
LEMMA ControlHeader ==
  ASSUME NEW c \in Byte, NEW i \in Byte
  PROVE  HeaderBytes(request_header(c, i), c, i)
<1>1. bit(FALSE) = 0 /\ bit(TRUE) = 1
  BY DEF bit
<1>2. set_bits(0, 7, 7, 0) = 0 /\ set_bits(0, 7, 7, 1) = 128 /\ set_bits(128, 6, 6, 0) = 128
  BY DEF set_bits, bits
<1>3. set_bits(128, 0, 4, i) = InstanceByte(i) /\ InstanceByte(i) \in Byte
  BY DEF set_bits, bits, Byte, InstanceByte
<1>4. request_header(c, i) = <<0, InstanceByte(i), c>>
  <2>1. set_bits(0, 7, 7, bit(FALSE)) = 0
    BY <1>1, <1>2, Zenon
  <2>2. set_bits(set_bits(0, 7, 7, bit(TRUE)), 6, 6, bit(FALSE)) = 128
    BY <1>1, <1>2, Zenon
  <2>3. request_header(c, i) =
          <<set_bits(0, 7, 7, bit(FALSE)),
            set_bits(set_bits(set_bits(0, 7, 7, bit(TRUE)), 6, 6, bit(FALSE)), 0, 4, i), c>>
    BY Zenon DEF request_header, control_header
  <2> QED
    BY <1>3, <2>1, <2>2, <2>3, Zenon
<1> DEFINE h == request_header(c, i)
           k == InstanceByte(i)
<1>5. h = <<0, k, c>> /\ k \in Byte /\ 0 \in Byte
  BY <1>3, <1>4 DEF Byte
<1> HIDE DEF h, k
<1>6. h \in Seq(Byte) /\ Len(h) = 3 /\ h[1] = 0 /\ h[2] = k /\ h[3] = c
  BY <1>5
<1> QED
  BY <1>6, Zenon DEF h, k, HeaderBytes

-----------------------------------------------------------------------------
(* The packets and frames of sendto.                                       *)

\* The message of a call: a control header, and at most three more bytes.
MessageOf(m, call) ==
  /\ m \in Seq(Byte) /\ Len(m) \in 3..6
  /\ m[1] = 0 /\ m[2] = InstanceByte(call.instance) /\ m[3] = call.cmd
  /\ call.cmd = SetEndpointID => Len(m) = 5 /\ m[5] = call.arg

\* A control header followed by a body is such a message.
LEMMA HeaderAndBody ==
  ASSUME NEW call \in Call, NEW h, HeaderBytes(h, call.cmd, call.instance),
         NEW b \in Seq(Byte), Len(b) \in 0..3,
         call.cmd = SetEndpointID => Len(b) = 2 /\ b[2] = call.arg
  PROVE  MessageOf(h \o b, call)
<1>0. h \in Seq(Byte) /\ Len(h) = 3
  BY DEF HeaderBytes
<1>1. /\ h \o b \in Seq(Byte) /\ Len(h \o b) = Len(h) + Len(b)
      /\ \A i \in 1..Len(h) : (h \o b)[i] = h[i]
      /\ \A i \in 1..Len(b) : (h \o b)[Len(h) + i] = b[i]
  BY <1>0, Join
<1> DEFINE u == h \o b
           n == Len(b)
<1>2. /\ u \in Seq(Byte) /\ Len(u) = 3 + n /\ n \in 0..3
      /\ \A i \in 1..3 : u[i] = h[i]
      /\ \A i \in 1..n : u[3 + i] = b[i]
  BY <1>0, <1>1
<1> HIDE DEF u, n
<1>3. u[1] = h[1] /\ u[2] = h[2] /\ u[3] = h[3] /\ (n = 2 => Len(u) = 5 /\ u[5] = b[2])
  BY <1>2
<1>4. Len(u) \in 3..6
  BY <1>2
<1>5. call.cmd = SetEndpointID => Len(u) = 5 /\ u[5] = call.arg
  BY <1>3 DEF n
<1>6. u[1] = 0 /\ u[2] = InstanceByte(call.instance) /\ u[3] = call.cmd
  BY <1>3, Zenon DEF HeaderBytes
<1> QED
  BY <1>2, <1>4, <1>5, <1>6 DEF u, MessageOf

\* message builds such a message.
LEMMA MessageBytes ==
  ASSUME NEW call \in Call
  PROVE  MessageOf(message(call), call)
<1> DEFINE h == request_header(call.cmd, call.instance)
           o == set_bits(0, 0, 1, 0)
<1>1. call.cmd \in Byte /\ call.instance \in Byte /\ call.arg \in Byte
  BY DEF Call
<1>2. HeaderBytes(h, call.cmd, call.instance)
  BY <1>1, ControlHeader, Zenon
<1>3. o = 0 /\ 0 \in Byte /\ 1 \in Byte
  BY DEF set_bits, bits, Byte
<1>4. CASE call.cmd = SetEndpointID
  <2>1. message(call) = h \o <<o, call.arg>>
    BY <1>4 DEF message, set_eid_request, SetEndpointID, GetEndpointID, AllocateEndpointIDs,
                GetRoutingTableEntries
  <2>2. <<o, call.arg>> \in Seq(Byte) /\ Len(<<o, call.arg>>) = 2 /\ <<o, call.arg>>[2] = call.arg
    BY <1>1, <1>3
  <2> HIDE DEF h, o
  <2> QED
    BY <1>2, <2>1, <2>2, HeaderAndBody
<1>5. CASE call.cmd # SetEndpointID
  <2>1. \/ message(call) = h
        \/ message(call) = h \o <<o, 1, call.arg>>
        \/ message(call) = h \o <<call.arg>>
    BY <1>5 DEF message, get_eid_request, allocate_eids_request, get_routing_table_request,
                empty_request
  <2>2. /\ <<o, 1, call.arg>> \in Seq(Byte) /\ Len(<<o, 1, call.arg>>) = 3
        /\ <<call.arg>> \in Seq(Byte) /\ Len(<<call.arg>>) = 1
    BY <1>1, <1>3
  <2> HIDE DEF h, o
  <2>3. MessageOf(h, call)
    BY <1>2, <1>5 DEF HeaderBytes, MessageOf
  <2>4. MessageOf(h \o <<o, 1, call.arg>>, call) /\ MessageOf(h \o <<call.arg>>, call)
    <3> DEFINE a == <<o, 1, call.arg>>
               b == <<call.arg>>
    <3>1. a \in Seq(Byte) /\ b \in Seq(Byte) /\ Len(a) \in 0..3 /\ Len(b) \in 0..3
      BY <2>2
    <3> HIDE DEF a, b
    <3>2. MessageOf(h \o a, call) /\ MessageOf(h \o b, call)
      BY <1>2, <1>5, <3>1, HeaderAndBody
    <3> QED
      BY <3>2 DEF a, b
  <2> QED
    BY <2>1, <2>3, <2>4
<1> QED
  BY <1>4, <1>5

\* The bytes of a call's packet that the owner reads; a PEC byte may follow.
RequestBytes(p, call) ==
  /\ Routed(p, 0, Address, OwnerByte(Tag, TRUE))
  /\ Len(p) >= 7
  /\ p[5] = 0 /\ p[6] = InstanceByte(call.instance) /\ p[7] = call.cmd
  /\ call.cmd = SetEndpointID => Len(p) >= 9 /\ p[9] = call.arg

\* The packet of sendto.
LEMMA PacketBytes ==
  ASSUME NEW call \in Call
  PROVE  RequestBytes(sendto_packet(call), call) /\ Len(sendto_packet(call)) \in 7..10
<1> DEFINE h == transport_header(Address, 0, Tag, TRUE)
           m == message(call)
           p == sendto_packet(call)
           b == OwnerByte(Tag, TRUE)
<1>1. Routed(h, 0, Address, b) /\ Len(h) = 4
  <2>1. Address \in Byte /\ 0 \in Byte /\ Tag \in Byte /\ TRUE \in BOOLEAN
    BY ByteConstants DEF Byte
  <2> QED
    BY <2>1, TransportHeader, Zenon
<1>2. MessageOf(m, call)
  BY MessageBytes
<1>3. p = h \o m
  BY Zenon DEF sendto_packet, control_payload
<1> HIDE DEF h, m, p, b
<1>4. h \in Seq(Byte) /\ m \in Seq(Byte) /\ Len(m) \in 3..6 /\ h[2] = 0 /\ h[3] = Address /\ h[4] = b
  BY <1>1, <1>2 DEF Routed, MessageOf
<1> DEFINE n == Len(m)
<1>5. /\ p \in Seq(Byte) /\ Len(p) = 4 + n /\ n \in 3..6
      /\ \A i \in 1..4 : p[i] = h[i]
      /\ \A i \in 1..n : p[4 + i] = m[i]
  <2>1. /\ h \o m \in Seq(Byte) /\ Len(h \o m) = Len(h) + Len(m)
        /\ \A i \in 1..Len(h) : (h \o m)[i] = h[i]
        /\ \A i \in 1..Len(m) : (h \o m)[Len(h) + i] = m[i]
    BY <1>4, Join
  <2> QED
    BY <1>1, <1>3, <1>4, <2>1
<1> HIDE DEF n
<1>6. /\ p[2] = h[2] /\ p[3] = h[3] /\ p[4] = h[4] /\ p[5] = m[1] /\ p[6] = m[2] /\ p[7] = m[3]
      /\ (n = 5 => p[9] = m[5] /\ Len(p) >= 9)
      /\ Len(p) >= 4 /\ Len(p) >= 7 /\ Len(p) \in 7..10
  BY <1>5
<1>7. Routed(p, 0, Address, b)
  BY <1>4, <1>5, <1>6 DEF Routed
<1>8. /\ p[5] = 0 /\ p[6] = InstanceByte(call.instance) /\ p[7] = call.cmd
      /\ call.cmd = SetEndpointID => Len(p) >= 9 /\ p[9] = call.arg
  BY <1>2, <1>6 DEF MessageOf, n
<1> QED
  BY <1>6, <1>7, <1>8, Zenon DEF RequestBytes, p, b

\* Bytes added behind a packet change nothing of it.
LEMMA RequestPrefix ==
  ASSUME NEW call, NEW p, RequestBytes(p, call), NEW q \in Seq(Byte), Len(q) >= Len(p),
         \A i \in 1..Len(p) : q[i] = p[i]
  PROVE  RequestBytes(q, call)
<1> DEFINE n == Len(p)
           k == Len(q)
<1>1. p \in Seq(Byte) /\ n \in Nat /\ n >= 7 /\ k \in Nat /\ k >= n
  BY DEF RequestBytes, Routed
<1>2. \A i \in 1..n : q[i] = p[i]
  OBVIOUS
<1>3. call.cmd = SetEndpointID => n >= 9
  BY DEF RequestBytes
<1> HIDE DEF n, k
<1>4. /\ k >= 4 /\ k >= 7 /\ q[2] = p[2] /\ q[3] = p[3] /\ q[4] = p[4] /\ q[5] = p[5]
      /\ q[6] = p[6] /\ q[7] = p[7]
      /\ (call.cmd = SetEndpointID => k >= 9 /\ q[9] = p[9])
  BY <1>1, <1>2, <1>3
<1> QED
  BY <1>4 DEF RequestBytes, Routed, k

\* A request's destination, its length byte, and its sender in an SMBus header.
Addressed(f, phy) ==
  /\ f[1] = 2 * phy
  /\ f[4] \div 2 = set_address(OwnAddr) /\ bits(f[4], 0, 0) = 1
  /\ f[3] = Len(f) - SMBUS_HDR_SIZE - 1

\* The frame of transmit, and what is left of it without its SMBus header.
LEMMA FrameBytes ==
  ASSUME NEW call \in Call, NEW phy \in PhyAddrs, validate_smbus_address(phy), NEW pec \in PecBytes,
         NEW f, f = transmit_frame(phy, set_address(OwnAddr), sendto_packet(call), pec)
  PROVE  /\ f \in Seq(Byte) /\ f[2] = SMBUS_COMMAND_CODE_MCTP /\ Addressed(f, phy)
         /\ frame_body(f) \in Seq(Byte) /\ RequestBytes(frame_body(f), call)
<1> DEFINE p == sendto_packet(call)
           a == set_address(OwnAddr)
           n == Len(p)
<1>1. RequestBytes(p, call) /\ n \in 7..10 /\ p \in Seq(Byte)
  BY PacketBytes DEF RequestBytes, Routed
<1>2. phy \in 8..127
  <2>1. phy \in Nat
    BY ByteConstants
  <2> QED
    BY <2>1 DEF validate_smbus_address
<1>3. a \in 0..127
  BY ByteConstants DEF set_address, validate_smbus_address
<1> HIDE DEF p, a, n
<1> DEFINE h == smbus_header(phy % 128, a, n % 256)
           s == 2 * a + 1
<1>4. h = <<2 * phy, 15, n, s>>
  <2>1. phy % 128 = phy /\ (phy * 2) % 256 = 2 * phy /\ n % 256 = n
    BY <1>1, <1>2
  <2>2. ((a * 2) % 256) + 1 = s
    BY <1>3
  <2> QED
    BY <2>1, <2>2 DEF smbus_header, SMBUS_COMMAND_CODE_MCTP
<1>5. 2 * phy \in Byte /\ 15 \in Byte /\ n \in Byte /\ s \in Byte /\ pec \in Byte
  BY <1>1, <1>2, <1>3, ByteConstants DEF Byte
<1>6. s \div 2 = a /\ bits(s, 0, 0) = 1
  BY <1>3 DEF bits
<1> HIDE DEF s
<1>7. h \in Seq(Byte) /\ Len(h) = 4 /\ h[1] = 2 * phy /\ h[2] = 15 /\ h[3] = n /\ h[4] = s
  <2> DEFINE d == 2 * phy
  <2>1. h = <<d, 15, n, s>> /\ d \in Byte
    BY <1>4, <1>5
  <2> HIDE DEF d, h
  <2>2. h \in Seq(Byte) /\ Len(h) = 4 /\ h[1] = d /\ h[2] = 15 /\ h[3] = n /\ h[4] = s
    BY <1>5, <2>1
  <2> QED
    BY <2>2 DEF d
<1>8. f = (h \o p) \o <<pec>>
  BY Zenon DEF transmit_frame, p, a, n
<1> HIDE DEF h
<1> DEFINE g == h \o p
           e == <<pec>>
<1>9. /\ g \in Seq(Byte) /\ Len(g) = 4 + n
      /\ \A i \in 1..4 : g[i] = h[i]
      /\ \A i \in 1..n : g[4 + i] = p[i]
  <2>1. /\ h \o p \in Seq(Byte) /\ Len(h \o p) = Len(h) + Len(p)
        /\ \A i \in 1..Len(h) : (h \o p)[i] = h[i]
        /\ \A i \in 1..Len(p) : (h \o p)[Len(h) + i] = p[i]
    BY <1>1, <1>7, Join
  <2> QED
    BY <1>7, <2>1 DEF n
<1>10. e \in Seq(Byte) /\ Len(e) = 1
  BY <1>5
<1> HIDE DEF g, e
<1>11. /\ f \in Seq(Byte) /\ Len(f) = n + 5
       /\ \A i \in 1..(4 + n) : f[i] = g[i]
  <2>1. f = g \o e
    BY <1>8 DEF g, e
  <2>2. f \in Seq(Byte) /\ Len(f) = Len(g) + Len(e) /\ \A i \in 1..Len(g) : f[i] = g[i]
    <3>1. /\ g \o e \in Seq(Byte) /\ Len(g \o e) = Len(g) + Len(e)
          /\ \A i \in 1..Len(g) : (g \o e)[i] = g[i]
      BY <1>9, <1>10, Join
    <3> QED
      BY <2>1, <3>1
  <2> QED
    BY <1>1, <1>9, <1>10, <2>2
<1>12. f[1] = 2 * phy /\ f[2] = 15 /\ f[3] = n /\ f[4] = s
  BY <1>1, <1>7, <1>9, <1>11
<1>13. \A i \in 1..n : f[4 + i] = p[i]
  BY <1>1, <1>9, <1>11
<1>14. Addressed(f, phy)
  <2>1. f[4] \div 2 = set_address(OwnAddr) /\ bits(f[4], 0, 0) = 1
    BY <1>6, <1>12 DEF a
  <2>2. f[1] = 2 * phy /\ f[3] = Len(f) - 4 - 1
    BY <1>1, <1>11, <1>12
  <2> QED
    BY <2>1, <2>2 DEF Addressed, SMBUS_HDR_SIZE
<1> DEFINE b == frame_body(f)
<1>15. b \in Seq(Byte) /\ Len(b) = n + 1 /\ \A i \in 1..n : b[i] = p[i]
  <2>1. b = SubSeq(f, 4 + 1, Len(f))
    BY DEF frame_body, SMBUS_HDR_SIZE
  <2>2. 4 \in Nat /\ 4 <= Len(f) /\ Len(f) - 4 = n + 1
    BY <1>1, <1>11
  <2>3. b \in Seq(Byte) /\ Len(b) = Len(f) - 4 /\ \A i \in 1..(Len(f) - 4) : b[i] = f[4 + i]
    BY <1>11, <2>1, <2>2, Cut
  <2>4. b \in Seq(Byte) /\ Len(b) = n + 1 /\ \A i \in 1..(n + 1) : b[i] = f[4 + i]
    BY <2>2, <2>3
  <2>5. n \in Nat
    BY <1>1
  <2> HIDE DEF b
  <2> QED
    BY <1>13, <2>4, <2>5
<1> HIDE DEF b
<1>16. RequestBytes(b, call)
  <2>1. Len(b) >= Len(p) /\ \A i \in 1..Len(p) : b[i] = p[i]
    BY <1>1, <1>15 DEF n
  <2> QED
    BY <1>1, <1>15, <2>1, RequestPrefix
<1> QED
  BY <1>11, <1>12, <1>14, <1>15, <1>16 DEF b, SMBUS_COMMAND_CODE_MCTP

-----------------------------------------------------------------------------
(* The answers.                                                            *)

\* The header of every Response::from: the request's with rq cleared.
LEMMA ReplyHeader ==
  ASSUME NEW p \in Seq(Byte), NEW c \in 0..20, NEW i \in Byte, Len(p) >= 3,
         p[1] = 0, p[2] = InstanceByte(i), p[3] = c
  PROVE  /\ response_control_header(p) = <<0, i % 32, c>>
         /\ i % 32 \in Byte
<1>1. set_bits(InstanceByte(i), 7, 7, 0) = i % 32 /\ i % 32 \in Byte
  <2> DEFINE a == i % 32
  <2>1. a \in 0..31
    BY DEF Byte
  <2>2. InstanceByte(i) = 128 + a
    BY DEF InstanceByte
  <2> HIDE DEF a
  <2>3. set_bits(128 + a, 7, 7, 0) = a /\ a \in Byte
    BY <2>1 DEF set_bits, bits, Byte
  <2> QED
    BY <2>2, <2>3 DEF a
<1>2. command_code(c) = c
  BY DEF command_code, KnownCommands
<1> QED
  BY <1>1, <1>2 DEF response_control_header

\* The message of the reply to a call.
ReplyOf(m, call) ==
  /\ m \in Seq(Byte) /\ Len(m) \in 4..7
  /\ m[2] = call.instance % 32 /\ m[3] = call.cmd
  /\ m[4] = IF call.cmd \in {SetEndpointID, GetEndpointID, DiscoveryNotify, GetRoutingTableEntries}
            THEN Success ELSE ErrorUnsupportedCmd
  /\ call.cmd = SetEndpointID => Len(m) = 7 /\ m[5] = 0 /\ m[6] = call.arg
  /\ call.cmd \in {GetEndpointID, GetRoutingTableEntries} =>
       Len(m) \in 6..7 /\ m[5] = (IF call.cmd = GetEndpointID THEN 0 ELSE 255) /\ m[6] = 0

\* A response header followed by completion code and fields.
LEMMA ReplyJoin ==
  ASSUME NEW a \in Byte, NEW c \in Byte, NEW h, h = <<0, a, c>>,
         NEW b \in Seq(Byte), Len(b) \in 1..4
  PROVE  /\ h \o b \in Seq(Byte) /\ Len(h \o b) = 3 + Len(b)
         /\ (h \o b)[2] = a /\ (h \o b)[3] = c
         /\ \A i \in 1..Len(b) : (h \o b)[3 + i] = b[i]
<1>1. h \in Seq(Byte) /\ Len(h) = 3 /\ h[2] = a /\ h[3] = c
  <2>1. 0 \in Byte
    BY DEF Byte
  <2> QED
    BY <2>1
<1>2. /\ h \o b \in Seq(Byte) /\ Len(h \o b) = Len(h) + Len(b)
      /\ \A i \in 1..Len(h) : (h \o b)[i] = h[i]
      /\ \A i \in 1..Len(b) : (h \o b)[Len(h) + i] = b[i]
  BY <1>1, Join
<1> DEFINE u == h \o b
<1> HIDE DEF u
<1>3. /\ u \in Seq(Byte) /\ Len(u) = 3 + Len(b)
      /\ u[2] = a /\ u[3] = c
      /\ \A i \in 1..Len(b) : u[3 + i] = b[i]
  BY <1>1, <1>2 DEF u
<1> QED
  BY <1>3 DEF u

\* What reply_message makes of a request's message.
LEMMA ReplyBytes ==
  ASSUME NEW call \in Call, call.cmd \in 0..20, NEW p \in Seq(Byte), Len(p) >= 3,
         p[1] = 0, p[2] = InstanceByte(call.instance), p[3] = call.cmd,
         call.cmd = SetEndpointID => p[5] = call.arg
  PROVE  ReplyOf(reply_message(p), call)
<1> DEFINE h == response_control_header(p)
           a == call.instance % 32
           c == call.cmd
           r == call.arg
           z == set_bits(set_bits(0, 0, 1, 0), 4, 5, 0)
           m == reply_message(p)
<1>1. call.instance \in Byte /\ r \in Byte /\ c \in Byte
  BY DEF Call
<1>2. h = <<0, a, c>> /\ a \in Byte
  BY <1>1, ReplyHeader
<1>3. z = 0
  BY DEF set_bits, bits
<1>4. 0 \in Byte /\ 5 \in Byte /\ 255 \in Byte
  BY DEF Byte
<1>5. PICK b : /\ m = h \o b /\ b \in Seq(Byte) /\ Len(b) \in 1..4
               /\ b[1] = IF c \in {1, 2, 13, 10} THEN 0 ELSE 5
               /\ c = 1 => Len(b) = 4 /\ b[2] = 0 /\ b[3] = r
               /\ c \in {2, 10} => Len(b) \in 3..4 /\ b[2] = (IF c = 2 THEN 0 ELSE 255) /\ b[3] = 0
  <2>1. CASE c = 1
    <3> DEFINE b == <<0, 0, r, 0>>
    <3>1. m = h \o <<0, z, p[5], 0>>
      BY <2>1 DEF reply_message, set_eid_response, SetEndpointID, GetEndpointID, DiscoveryNotify,
                  GetRoutingTableEntries, Success, ErrorUnsupportedCmd
    <3>2. m = h \o b
      BY <1>3, <2>1, <3>1 DEF SetEndpointID
    <3> HIDE DEF h, a, c, r, m
    <3>3. /\ b \in Seq(Byte) /\ Len(b) \in 1..4
          /\ b[1] = IF c \in {1, 2, 13, 10} THEN 0 ELSE 5
          /\ c = 1 => Len(b) = 4 /\ b[2] = 0 /\ b[3] = r
          /\ c \in {2, 10} => Len(b) \in 3..4 /\ b[2] = (IF c = 2 THEN 0 ELSE 255) /\ b[3] = 0
      BY <1>1, <1>4, <2>1
    <3> HIDE DEF b
    <3> QED
      BY <3>2, <3>3
  <2>2. CASE c = 2
    <3> DEFINE b == <<0, 0, 0, 0>>
    <3>1. m = h \o <<0, 0, z, 0>>
      BY <2>2 DEF reply_message, get_eid_response, SetEndpointID, GetEndpointID, DiscoveryNotify,
                  GetRoutingTableEntries, Success, ErrorUnsupportedCmd
    <3>2. m = h \o b
      BY <1>3, <2>2, <3>1 DEF SetEndpointID
    <3> HIDE DEF h, a, c, r, m
    <3>3. /\ b \in Seq(Byte) /\ Len(b) \in 1..4
          /\ b[1] = IF c \in {1, 2, 13, 10} THEN 0 ELSE 5
          /\ c = 1 => Len(b) = 4 /\ b[2] = 0 /\ b[3] = r
          /\ c \in {2, 10} => Len(b) \in 3..4 /\ b[2] = (IF c = 2 THEN 0 ELSE 255) /\ b[3] = 0
      BY <1>1, <1>4, <2>2
    <3> HIDE DEF b
    <3> QED
      BY <3>2, <3>3
  <2>3. CASE c = 13
    <3> DEFINE b == <<0>>
    <3>1. m = h \o <<0>>
      BY <2>3 DEF reply_message, empty_response, SetEndpointID, GetEndpointID, DiscoveryNotify,
                  GetRoutingTableEntries, Success, ErrorUnsupportedCmd
    <3>2. m = h \o b
      BY <1>3, <2>3, <3>1 DEF SetEndpointID
    <3> HIDE DEF h, a, c, r, m
    <3>3. /\ b \in Seq(Byte) /\ Len(b) \in 1..4
          /\ b[1] = IF c \in {1, 2, 13, 10} THEN 0 ELSE 5
          /\ c = 1 => Len(b) = 4 /\ b[2] = 0 /\ b[3] = r
          /\ c \in {2, 10} => Len(b) \in 3..4 /\ b[2] = (IF c = 2 THEN 0 ELSE 255) /\ b[3] = 0
      BY <1>1, <1>4, <2>3
    <3> HIDE DEF b
    <3> QED
      BY <3>2, <3>3
  <2>4. CASE c = 10
    <3> DEFINE b == <<0, 255, 0>>
    <3>1. m = h \o <<0, 255, 0>>
      BY <2>4 DEF reply_message, get_routing_table_response, SetEndpointID, GetEndpointID, DiscoveryNotify,
                  GetRoutingTableEntries, Success, ErrorUnsupportedCmd
    <3>2. m = h \o b
      BY <1>3, <2>4, <3>1 DEF SetEndpointID
    <3> HIDE DEF h, a, c, r, m
    <3>3. /\ b \in Seq(Byte) /\ Len(b) \in 1..4
          /\ b[1] = IF c \in {1, 2, 13, 10} THEN 0 ELSE 5
          /\ c = 1 => Len(b) = 4 /\ b[2] = 0 /\ b[3] = r
          /\ c \in {2, 10} => Len(b) \in 3..4 /\ b[2] = (IF c = 2 THEN 0 ELSE 255) /\ b[3] = 0
      BY <1>1, <1>4, <2>4
    <3> HIDE DEF b
    <3> QED
      BY <3>2, <3>3
  <2>5. CASE c \notin {1, 2, 13, 10}
    <3> DEFINE b == <<5>>
    <3>1. m = h \o <<5>>
      BY <2>5 DEF reply_message, empty_response, SetEndpointID, GetEndpointID, DiscoveryNotify,
                  GetRoutingTableEntries, Success, ErrorUnsupportedCmd
    <3>2. m = h \o b
      BY <1>3, <2>5, <3>1 DEF SetEndpointID
    <3> HIDE DEF h, a, c, r, m
    <3>3. /\ b \in Seq(Byte) /\ Len(b) \in 1..4
          /\ b[1] = IF c \in {1, 2, 13, 10} THEN 0 ELSE 5
          /\ c = 1 => Len(b) = 4 /\ b[2] = 0 /\ b[3] = r
          /\ c \in {2, 10} => Len(b) \in 3..4 /\ b[2] = (IF c = 2 THEN 0 ELSE 255) /\ b[3] = 0
      BY <1>1, <1>4, <2>5
    <3> HIDE DEF b
    <3> QED
      BY <3>2, <3>3
  <2> QED
    BY <2>1, <2>2, <2>3, <2>4, <2>5
<1> HIDE DEF h, a, c, r, m
<1>6. /\ m \in Seq(Byte) /\ Len(m) = 3 + Len(b) /\ m[2] = a /\ m[3] = c
      /\ \A i \in 1..Len(b) : m[3 + i] = b[i]
  <2>0. /\ a \in Byte /\ c \in Byte /\ h = <<0, a, c>>
        /\ b \in Seq(Byte) /\ Len(b) \in 1..4
    BY <1>1, <1>2, <1>5, Zenon
  <2>1. /\ h \o b \in Seq(Byte) /\ Len(h \o b) = 3 + Len(b)
        /\ (h \o b)[2] = a /\ (h \o b)[3] = c
        /\ \A i \in 1..Len(b) : (h \o b)[3 + i] = b[i]
    BY <2>0, ReplyJoin
  <2> QED
    BY <1>5, <2>1, Zenon
<1> DEFINE n == Len(b)
<1>7. n \in 1..4 /\ Len(m) = 3 + n /\ \A i \in 1..n : m[3 + i] = b[i]
  BY <1>5, <1>6
<1> HIDE DEF n
<1>8. /\ Len(m) \in 4..7 /\ m[4] = b[1] /\ (n = 4 => Len(m) = 7 /\ m[5] = b[2] /\ m[6] = b[3])
      /\ (n \in 3..4 => Len(m) \in 6..7 /\ m[5] = b[2] /\ m[6] = b[3])
  BY <1>7
<1>9. ReplyOf(m, call)
  BY <1>5, <1>6, <1>8 DEF ReplyOf, SetEndpointID, GetEndpointID, DiscoveryNotify,
     GetRoutingTableEntries, Success, ErrorUnsupportedCmd, n, a, c, r
<1> QED
  BY <1>9 DEF m

\* A frame of the bus owner, without its SMBus header, starts with the packet.
LEMMA OwnerFrame ==
  ASSUME NEW m \in Seq(Byte), Len(m) \in 0..100, NEW pec \in Byte
  PROVE  /\ owner_frame(m, pec) \in Seq(Byte)
         /\ frame_body(owner_frame(m, pec)) \in Seq(Byte)
         /\ Len(frame_body(owner_frame(m, pec))) = Len(m) + 1
         /\ \A i \in 1..Len(m) : frame_body(owner_frame(m, pec))[i] = m[i]
<1> DEFINE n == Len(m)
           k == (n % 256) + 1
           h == <<96, 15, k, 33>>
           e == <<pec>>
           g == h \o m
           f == owner_frame(m, pec)
           b == frame_body(f)
<1>1. h \in Seq(Byte) /\ Len(h) = 4 /\ n \in 0..100
  <2>0. n \in 0..100
    OBVIOUS
  <2> HIDE DEF n
  <2>1. k \in Byte /\ 96 \in Byte /\ 15 \in Byte /\ 33 \in Byte
    BY <2>0 DEF Byte
  <2> HIDE DEF k
  <2> QED
    BY <2>0, <2>1
<1>2. f = g \o e
  BY DEF owner_frame, SMBUS_COMMAND_CODE_MCTP
<1>3. e \in Seq(Byte) /\ Len(e) = 1
  OBVIOUS
<1> HIDE DEF n, h, e, f
<1>4. /\ h \o m \in Seq(Byte) /\ Len(h \o m) = Len(h) + Len(m)
      /\ \A i \in 1..Len(m) : (h \o m)[Len(h) + i] = m[i]
  BY <1>1, Join
<1>5. g \in Seq(Byte) /\ Len(g) = 4 + n /\ \A i \in 1..n : g[4 + i] = m[i]
  BY <1>1, <1>4 DEF n
<1> HIDE DEF g
<1>6. /\ g \o e \in Seq(Byte) /\ Len(g \o e) = Len(g) + Len(e)
      /\ \A i \in 1..Len(g) : (g \o e)[i] = g[i]
  BY <1>3, <1>5, Join
<1>7. f \in Seq(Byte) /\ Len(f) = n + 5 /\ \A i \in 1..n : f[4 + i] = m[i]
  <2>1. f \in Seq(Byte) /\ Len(f) = n + 5 /\ \A i \in 1..(4 + n) : f[i] = g[i]
    BY <1>1, <1>2, <1>3, <1>5, <1>6
  <2> QED
    BY <1>1, <1>5, <2>1
<1>8. b = SubSeq(f, 4 + 1, Len(f))
  BY DEF frame_body, SMBUS_HDR_SIZE
<1>9. 4 \in Nat /\ 4 <= Len(f) /\ Len(f) - 4 = n + 1
  BY <1>1, <1>7
<1>10. b \in Seq(Byte) /\ Len(b) = Len(f) - 4 /\ \A i \in 1..(Len(f) - 4) : b[i] = f[4 + i]
  BY <1>7, <1>8, <1>9, Cut
<1> HIDE DEF b
<1>11. b \in Seq(Byte) /\ Len(b) = n + 1 /\ \A i \in 1..n : b[i] = m[i]
  BY <1>1, <1>7, <1>9, <1>10
<1> QED
  BY <1>7, <1>11 DEF b, f, n

\* The bytes of an answer that the task reads.
AnswerBytes(b, call) ==
  /\ Routed(b, Address, 0, OwnerByte(Tag % 8, FALSE))
  /\ Len(b) >= 9
  /\ b[6] = call.instance % 32 /\ b[7] = call.cmd
  /\ b[8] = IF call.cmd \in {SetEndpointID, GetEndpointID, DiscoveryNotify, GetRoutingTableEntries}
            THEN Success ELSE ErrorUnsupportedCmd
  /\ call.cmd = SetEndpointID => Len(b) >= 10 /\ b[9] = 0 /\ b[10] = call.arg
  /\ call.cmd \in {GetEndpointID, GetRoutingTableEntries} =>
       Len(b) >= 10 /\ b[9] = (IF call.cmd = GetEndpointID THEN 0 ELSE 255) /\ b[10] = 0

\* What handle_request makes of a request, and the task of the frame it arrives in.
LEMMA AnswerFrame ==
  ASSUME NEW call \in Call, call.cmd \in 0..20, NEW q, RequestBytes(q, call), NEW pec \in Byte,
         NEW r, r = control_payload(response_header(q), reply_message(payload_of(q)))
  PROVE  /\ owner_frame(r, pec) \in Seq(Byte)
         /\ AnswerBytes(frame_body(owner_frame(r, pec)), call)
<1> DEFINE h == response_header(q)
           p == payload_of(q)
           m == reply_message(p)
           t == Tag % 8
           o == OwnerByte(t, FALSE)
           n == Len(m)
<1>1. /\ q \in Seq(Byte) /\ Len(q) >= 7 /\ q[2] = 0 /\ q[3] = Address /\ q[4] = OwnerByte(Tag, TRUE)
      /\ q[5] = 0 /\ q[6] = InstanceByte(call.instance) /\ q[7] = call.cmd
      /\ call.cmd = SetEndpointID => Len(q) >= 9 /\ q[9] = call.arg
  BY Zenon DEF RequestBytes, Routed
<1>2. Routed(h, Address, 0, o) /\ Len(h) = 4
  <2>0. Address \in Byte /\ 0 \in Byte /\ Tag \in Byte /\ TRUE \in BOOLEAN /\ FALSE \in BOOLEAN
    BY ByteConstants DEF Byte
  <2>1. Routed(q, 0, Address, OwnerByte(Tag, TRUE))
    BY Zenon DEF RequestBytes
  <2>2. bits(q[4], 0, 2) = t /\ bits(q[4], 3, 3) # 0
    <3>1. \A y \in BOOLEAN : Routed(q, 0, Address, OwnerByte(Tag, y)) =>
            bits(q[4], 0, 2) = t /\ (bits(q[4], 3, 3) # 0) = y
      <4> SUFFICES ASSUME NEW y \in BOOLEAN, Routed(q, 0, Address, OwnerByte(Tag, y))
                   PROVE  bits(q[4], 0, 2) = t /\ (bits(q[4], 3, 3) # 0) = y
        OBVIOUS
      <4> QED
        BY <2>0, TagReadBack
    <3> QED
      BY <2>0, <2>1, <3>1, Zenon
  <2>3. (bits(q[4], 3, 3) = 0) = FALSE
    BY <2>2, Zenon
  <2>4. t \in Byte
    BY <2>0 DEF Byte
  <2>5. h = transport_header(0, Address, t, FALSE)
    BY <1>1, <2>2, <2>3, Zenon DEF response_header
  <2> QED
    BY <2>0, <2>4, <2>5, TransportHeader, Zenon
<1>3. p \in Seq(Byte) /\ Len(p) = Len(q) - 4 /\ \A i \in 1..(Len(q) - 4) : p[i] = q[4 + i]
  <2>1. p = SubSeq(q, 4 + 1, Len(q))
    BY DEF payload_of, TRANSPORT_HDR_SIZE
  <2>2. 4 \in Nat /\ 4 <= Len(q)
    BY <1>1
  <2> QED
    BY <1>1, <2>1, <2>2, Cut
<1>4. /\ Len(p) >= 3 /\ p[1] = 0 /\ p[2] = InstanceByte(call.instance) /\ p[3] = call.cmd
      /\ call.cmd = SetEndpointID => p[5] = call.arg
  <2> DEFINE l == Len(q)
  <2> HIDE DEF p
  <2>1. l \in Nat /\ l >= 7 /\ Len(p) = l - 4 /\ \A i \in 1..(l - 4) : p[i] = q[4 + i]
    BY <1>1, <1>3
  <2> HIDE DEF l
  <2>2. Len(p) >= 3 /\ p[1] = q[5] /\ p[2] = q[6] /\ p[3] = q[7] /\ (l >= 9 => p[5] = q[9])
    BY <2>1
  <2> QED
    BY <1>1, <2>2 DEF l
<1>5. ReplyOf(m, call)
  BY <1>3, <1>4, ReplyBytes
<1>6. r = h \o m
  BY DEF control_payload
<1>7. h \in Seq(Byte) /\ h[2] = Address /\ h[3] = 0 /\ h[4] = o
  BY <1>2, Zenon DEF Routed
<1> HIDE DEF h, p, m, o, t
<1>8. m \in Seq(Byte) /\ n \in 4..7
  BY <1>5 DEF ReplyOf
<1>9. /\ h \o m \in Seq(Byte) /\ Len(h \o m) = Len(h) + Len(m)
      /\ \A i \in 1..Len(h) : (h \o m)[i] = h[i]
      /\ \A i \in 1..Len(m) : (h \o m)[Len(h) + i] = m[i]
  BY <1>7, <1>8, Join
<1>10. /\ r \in Seq(Byte) /\ Len(r) = 4 + n
       /\ \A i \in 1..4 : r[i] = h[i]
       /\ \A i \in 1..n : r[4 + i] = m[i]
  BY <1>2, <1>6, <1>9
<1> DEFINE f == owner_frame(r, pec)
           b == frame_body(f)
<1>11. f \in Seq(Byte) /\ b \in Seq(Byte) /\ Len(b) = Len(r) + 1 /\ \A i \in 1..Len(r) : b[i] = r[i]
  <2> HIDE DEF n
  <2>1. Len(r) \in 0..100
    BY <1>8, <1>10
  <2> QED
    BY <1>10, <2>1, OwnerFrame
<1> HIDE DEF b, f, n
<1>12. /\ Len(b) >= 4 /\ Len(b) >= 9 /\ b[2] = h[2] /\ b[3] = h[3] /\ b[4] = h[4]
       /\ b[6] = m[2] /\ b[7] = m[3] /\ b[8] = m[4]
       /\ (n \in 6..7 => Len(b) >= 10 /\ b[9] = m[5] /\ b[10] = m[6])
  <2>1. Len(b) = 5 + n /\ \A i \in 1..(4 + n) : b[i] = r[i]
    BY <1>8, <1>10, <1>11
  <2> QED
    BY <1>8, <1>10, <2>1
<1>13. Routed(b, Address, 0, o)
  BY <1>7, <1>11, <1>12, Zenon DEF Routed
<1>14. /\ b[6] = call.instance % 32 /\ b[7] = call.cmd
       /\ b[8] = IF call.cmd \in {SetEndpointID, GetEndpointID, DiscoveryNotify, GetRoutingTableEntries}
                 THEN Success ELSE ErrorUnsupportedCmd
       /\ call.cmd = SetEndpointID => Len(b) >= 10 /\ b[9] = 0 /\ b[10] = call.arg
       /\ call.cmd \in {GetEndpointID, GetRoutingTableEntries} =>
            Len(b) >= 10 /\ b[9] = (IF call.cmd = GetEndpointID THEN 0 ELSE 255) /\ b[10] = 0
  BY <1>5, <1>12 DEF ReplyOf, n
<1>15. AnswerBytes(b, call)
  BY <1>12, <1>13, <1>14, Zenon DEF AnswerBytes, o, t
<1> QED
  BY <1>11, <1>15 DEF b, f

-----------------------------------------------------------------------------
(* The inductive invariant.                                                *)

Datagrams == [bytes : Seq(Byte), of : Nat]
CallRecord == [call : Call, packet : Seq(Byte), phy_addr : Nat]

\* A datagram of a sendto, an answer to one, and a request of the owner: cs are
\* the calls made so far.
IsRequest(d, cs) ==
  /\ d.of \in 1..Len(cs)
  /\ d.bytes[2] = SMBUS_COMMAND_CODE_MCTP
  /\ Addressed(d.bytes, cs[d.of].phy_addr)
  /\ RequestBytes(frame_body(d.bytes), cs[d.of].call)

IsAnswer(b, of, cs) == of \in 1..Len(cs) /\ AnswerBytes(b, cs[of].call)

Owned(tag) == tag \in MsgFlowTag /\ tag.tag_owner = TRUE

IsOwnerRequest(b, of) == b \in Seq(Byte) /\ of = 0 /\ Owned(tag_of(b))

\* Every call has its packet.
CallsRecorded ==
  /\ calls \in Seq(CallRecord) /\ Len(calls) <= MaxCalls
  /\ \A k \in 1..Len(calls) : RequestBytes(calls[k].packet, calls[k].call)

\* The task has one flow while it is in a sendto, and none else; every finished
\* call has its answer.
TaskState ==
  /\ client \in {"idle", "waiting", "panicked"}
  /\ flows \in Seq([tag : MsgFlowTag, id : 1..MaxCalls])
  /\ \A i \in 1..Len(flows) : Owned(flows[i].tag)
  /\ Len(flows) = IF client = "idle" THEN 0 ELSE 1
  /\ got \in Seq(Datagrams)
  /\ Len(calls) = Len(got) + Len(flows)
  /\ \A i \in 1..Len(got) : IsAnswer(got[i].bytes, got[i].of, calls)

\* The owner asks at most once.
OwnerState ==
  /\ owner \in {"running", "panicked"}
  /\ assigned_eid \in Byte /\ next_tag \in 1..2 /\ perform_discovery \in BOOLEAN
  /\ pending \in Seq([tag : MsgFlowTag, id : Byte])
  /\ pending = <<>> => next_tag = 1
  /\ \A i \in 1..Len(pending) : Owned(pending[i].tag)

\* What is on its way; of the owner's requests at most one.
OnTheWay ==
  /\ toOwner \in Seq(Datagrams) /\ toClient \in Seq(Datagrams)
  /\ \A i \in 1..Len(toOwner) : IsRequest(toOwner[i], calls)
  /\ \A i \in 1..Len(toClient) :
       LET b == frame_body(toClient[i].bytes)
       IN  IsAnswer(b, toClient[i].of, calls) \/ IsOwnerRequest(b, toClient[i].of)
  /\ \A i, j \in 1..Len(toClient) : toClient[i].of = 0 /\ toClient[j].of = 0 => i = j
  /\ next_tag = 1 => \A i \in 1..Len(toClient) : toClient[i].of # 0

\* How many of the first i datagrams are answers.
AnswersIn(s, i) == IF \E j \in 1..i : s[j].of = 0 THEN i - 1 ELSE i

\* Calls that have returned, answers before a datagram and requests before it
\* are at most two for each call up to its own.
TwoPerCall ==
  LET n == Len(got)
      m == AnswersIn(toClient, Len(toClient))
  IN  /\ \A i \in 1..Len(toClient) :
           toClient[i].of # 0 => n + AnswersIn(toClient, i) <= 2 * toClient[i].of
      /\ \A i \in 1..Len(toOwner) : n + m + i <= 2 * toOwner[i].of
      /\ n + m + Len(toOwner) <= 2 * Len(calls)

ExchangeInv ==
  CallsRecorded /\ TaskState /\ OwnerState /\ OnTheWay /\ TwoPerCall /\ StaleByHalf

-----------------------------------------------------------------------------
(* What the tags of requests and answers do.                               *)

\* The tag of a request has its owner bit set.
LEMMA RequestTag ==
  ASSUME NEW call, NEW b, RequestBytes(b, call)
  PROVE  /\ tag_of(b).dest_eid = 0 /\ tag_of(b).src_eid = Address /\ tag_of(b).msg_tag = Tag % 8
         /\ Owned(tag_of(b))
<1>1. Address \in Byte /\ 0 \in Byte /\ Tag \in Byte /\ TRUE \in BOOLEAN
  BY ByteConstants DEF Byte
<1>2. Routed(b, 0, Address, OwnerByte(Tag, TRUE))
  BY Zenon DEF RequestBytes
<1>3. \A y \in BOOLEAN : Routed(b, 0, Address, OwnerByte(Tag, y)) =>
        /\ tag_of(b) \in MsgFlowTag /\ tag_of(b).tag_owner = y
        /\ tag_of(b).dest_eid = 0 /\ tag_of(b).src_eid = Address /\ tag_of(b).msg_tag = Tag % 8
  <2> SUFFICES ASSUME NEW y \in BOOLEAN, Routed(b, 0, Address, OwnerByte(Tag, y))
               PROVE  /\ tag_of(b) \in MsgFlowTag /\ tag_of(b).tag_owner = y
                      /\ tag_of(b).dest_eid = 0 /\ tag_of(b).src_eid = Address
                      /\ tag_of(b).msg_tag = Tag % 8
    OBVIOUS
  <2>1. tag_of(b) = TagAs(0, Address, Tag, y) /\ tag_of(b) \in MsgFlowTag
    BY <1>1, TagReadBack
  <2> QED
    BY <2>1, TagFields
<1> QED
  BY <1>1, <1>2, <1>3, Zenon DEF Owned

\* The tag of an answer is the one create_response makes of its request's.
LEMMA AnswerTag ==
  ASSUME NEW call, NEW b, AnswerBytes(b, call), NEW c, NEW q, RequestBytes(q, c)
  PROVE  tag_of(b) = create_response(tag_of(q))
<1> DEFINE t == Tag % 8
<1>1. Address \in Byte /\ 0 \in Byte /\ t \in Byte /\ FALSE \in BOOLEAN /\ t % 8 = t
  BY ByteConstants DEF Byte
<1>2. Routed(b, Address, 0, OwnerByte(t, FALSE))
  BY Zenon DEF AnswerBytes
<1>3. \A y \in BOOLEAN : Routed(b, Address, 0, OwnerByte(t, y)) => tag_of(b) = TagAs(Address, 0, t, y)
  <2> SUFFICES ASSUME NEW y \in BOOLEAN, Routed(b, Address, 0, OwnerByte(t, y))
               PROVE  tag_of(b) = TagAs(Address, 0, t, y)
    OBVIOUS
  <2> HIDE DEF t
  <2> QED
    BY <1>1, TagReadBack
<1>4. tag_of(b) = TagAs(Address, 0, t, FALSE)
  BY <1>1, <1>2, <1>3, Zenon
<1>5. /\ tag_of(q).dest_eid = 0 /\ tag_of(q).src_eid = Address /\ tag_of(q).msg_tag = t
      /\ Owned(tag_of(q))
  BY RequestTag, Zenon
<1>6. t % TagSpace = t
  BY <1>1, ByteConstants
<1> HIDE DEF t
<1>7. tag_of(b) = [dest_eid |-> Address, src_eid |-> 0, msg_tag |-> t, tag_owner |-> FALSE]
  BY <1>1, <1>4, Zenon DEF TagAs
<1>8. (~tag_of(q).tag_owner) = FALSE
  BY <1>5, Zenon DEF Owned
<1>9. create_response(tag_of(q)) =
         [dest_eid |-> Address, src_eid |-> 0, msg_tag |-> t % TagSpace, tag_owner |-> FALSE]
  BY <1>5, <1>8, Zenon DEF create_response, new_header
<1> QED
  BY <1>6, <1>7, <1>9, Zenon

\* No request answers a request.
LEMMA OwnedNoMatch ==
  ASSUME NEW s, \A i \in 1..Len(s) : Owned(s[i].tag), NEW t, Owned(t)
  PROVE  no_match(s, t) /\ \A i \in 1..Len(s) : ~is_first_match(s, i, t)
BY Zenon DEF Owned, no_match, is_first_match, answers

\* The fields of an answer's message.
LEMMA AnswerFields ==
  ASSUME NEW call \in Call, NEW b, AnswerBytes(b, call)
  PROVE  LET p == payload_of(b)
         IN  rq(p) = 0 /\ instance_id(p) = call.instance % 32 /\ p[3] = call.cmd /\ ReplyFields(call, p)
<1> DEFINE p == payload_of(b)
           l == Len(b)
           a == call.instance % 32
<1>1. /\ b \in Seq(Byte) /\ l >= 9 /\ b[6] = a /\ b[7] = call.cmd
      /\ b[8] = IF call.cmd \in {SetEndpointID, GetEndpointID, DiscoveryNotify, GetRoutingTableEntries}
                THEN Success ELSE ErrorUnsupportedCmd
      /\ call.cmd = SetEndpointID => l >= 10 /\ b[9] = 0 /\ b[10] = call.arg
      /\ call.cmd \in {GetEndpointID, GetRoutingTableEntries} =>
           l >= 10 /\ b[9] = (IF call.cmd = GetEndpointID THEN 0 ELSE 255) /\ b[10] = 0
  BY Zenon DEF AnswerBytes, Routed
<1>2. p \in Seq(Byte) /\ Len(p) = l - 4 /\ \A i \in 1..(l - 4) : p[i] = b[4 + i]
  <2>1. p = SubSeq(b, 4 + 1, Len(b))
    BY DEF payload_of, TRANSPORT_HDR_SIZE
  <2>2. 4 \in Nat /\ 4 <= Len(b)
    BY <1>1
  <2> QED
    BY <1>1, <2>1, <2>2, Cut
<1>3. l \in Nat
  BY <1>1
<1>4. a \in 0..31
  <2>1. call.instance \in 0..255
    BY DEF Call, Byte
  <2> QED
    BY <2>1
<1> HIDE DEF p, l, a
<1>5. p[2] = b[6] /\ p[3] = b[7] /\ p[4] = b[8] /\ (l >= 10 => p[5] = b[9] /\ p[6] = b[10])
  BY <1>1, <1>2, <1>3
<1>6. p[2] = a
  BY <1>1, <1>5
<1>7. rq(p) = 0 /\ instance_id(p) = a
  BY <1>4, <1>6 DEF rq, instance_id, bits
<1>8. ReplyFields(call, p)
  <2>1. completion_code(0) = 0 /\ completion_code(5) = 5
    BY DEF completion_code, ErrorUnsupportedCmd
  <2>2. bits(0, 0, 1) = 0 /\ bits(0, 4, 5) = 0
    BY DEF bits
  <2>3. CASE call.cmd = SetEndpointID
    <3>1. p[4] = 0 /\ p[5] = 0 /\ p[6] = call.arg
      BY <1>1, <1>5, <2>3 DEF Success
    <3>2. eid_assignment_status(p) = 0 /\ eid_allocation_status(p) = 0 /\ eid_setting(p) = call.arg
      BY <2>2, <3>1 DEF eid_assignment_status, eid_allocation_status, eid_setting
    <3>3. completion_code(p[4]) = Success
      BY <2>1, <3>1 DEF Success
    <3>4. /\ call.cmd # GetEndpointID /\ call.cmd # DiscoveryNotify
          /\ call.cmd # GetRoutingTableEntries
      BY <2>3 DEF SetEndpointID, GetEndpointID, DiscoveryNotify, GetRoutingTableEntries
    <3> QED
      BY <2>3, <3>2, <3>3, <3>4, Zenon DEF ReplyFields
  <2>4. CASE call.cmd = GetEndpointID
    <3>1. p[4] = 0 /\ p[5] = 0 /\ p[6] = 0
      BY <1>1, <1>5, <2>4 DEF Success
    <3>2. reported_eid(p) = 0 /\ eid_type(p) = 0 /\ endpoint_type(p) = 0
      BY <2>2, <3>1 DEF reported_eid, eid_type, endpoint_type
    <3>3. completion_code(p[4]) = Success
      BY <2>1, <3>1 DEF Success
    <3>4. /\ call.cmd # SetEndpointID /\ call.cmd # DiscoveryNotify
          /\ call.cmd # GetRoutingTableEntries
      BY <2>4 DEF SetEndpointID, GetEndpointID, DiscoveryNotify, GetRoutingTableEntries
    <3> QED
      BY <2>4, <3>2, <3>3, <3>4, Zenon DEF ReplyFields
  <2>5. CASE call.cmd = DiscoveryNotify
    <3>1. p[4] = 0
      BY <1>1, <1>5, <2>5 DEF Success
    <3>2. completion_code(p[4]) = Success
      BY <2>1, <3>1 DEF Success
    <3>3. call.cmd # SetEndpointID /\ call.cmd # GetEndpointID /\ call.cmd # GetRoutingTableEntries
      BY <2>5 DEF SetEndpointID, GetEndpointID, DiscoveryNotify, GetRoutingTableEntries
    <3> QED
      BY <2>5, <3>2, <3>3, Zenon DEF ReplyFields
  <2>6. CASE call.cmd = GetRoutingTableEntries
    <3>1. p[4] = 0 /\ p[5] = 255 /\ p[6] = 0
      BY <1>1, <1>5, <2>6 DEF Success, GetEndpointID, GetRoutingTableEntries
    <3>2. completion_code(p[4]) = Success
      BY <2>1, <3>1 DEF Success
    <3>3. call.cmd # SetEndpointID /\ call.cmd # GetEndpointID /\ call.cmd # DiscoveryNotify
      BY <2>6 DEF SetEndpointID, GetEndpointID, DiscoveryNotify, GetRoutingTableEntries
    <3> QED
      BY <2>6, <3>1, <3>2, <3>3, Zenon DEF ReplyFields
  <2>7. CASE call.cmd \notin {SetEndpointID, GetEndpointID, DiscoveryNotify, GetRoutingTableEntries}
    <3>1. p[4] = 5
      BY <1>1, <1>5, <2>7 DEF ErrorUnsupportedCmd
    <3> QED
      BY <2>1, <2>7, <3>1 DEF ReplyFields, ErrorUnsupportedCmd
  <2> QED
    BY <2>3, <2>4, <2>5, <2>6, <2>7
<1> QED
  BY <1>1, <1>5, <1>7, <1>8 DEF p, a

\* The packet of run_bus_owner_loop from the owner's EID e, with its first tag.
OwnerPacket(e) ==
  control_payload(transport_header(e, 0, 1, TRUE), get_eid_request(request_header(GetEndpointID, 1)))

\* A request of the owner, and its frame: the owner bit is set.
LEMMA OwnerAsks ==
  ASSUME NEW e \in Byte, NEW pec \in Byte
  PROVE  /\ Owned(tag_of(OwnerPacket(e))) /\ owner_frame(OwnerPacket(e), pec) \in Seq(Byte)
         /\ IsOwnerRequest(frame_body(owner_frame(OwnerPacket(e), pec)), 0)
<1> DEFINE h == transport_header(e, 0, 1, TRUE)
           m == request_header(2, 1)
           r == OwnerPacket(e)
           f == owner_frame(r, pec)
           b == frame_body(f)
           o == OwnerByte(1, TRUE)
<1>1. 0 \in Byte /\ 1 \in Byte /\ 2 \in Byte /\ TRUE \in BOOLEAN
  BY DEF Byte
<1>2. Routed(h, 0, e, o) /\ Len(h) = 4
  BY <1>1, TransportHeader, Zenon
<1>3. HeaderBytes(m, 2, 1)
  BY <1>1, ControlHeader, Zenon
<1>4. r = h \o m
  BY Zenon DEF OwnerPacket, control_payload, get_eid_request, GetEndpointID
<1> HIDE DEF h, m, r, o
<1>5. h \in Seq(Byte) /\ m \in Seq(Byte) /\ Len(m) = 3 /\ h[2] = 0 /\ h[3] = e /\ h[4] = o
  BY <1>2, <1>3 DEF Routed, HeaderBytes
<1>6. /\ h \o m \in Seq(Byte) /\ Len(h \o m) = Len(h) + Len(m)
      /\ \A i \in 1..Len(h) : (h \o m)[i] = h[i]
  BY <1>5, Join
<1>7. r \in Seq(Byte) /\ Len(r) = 7 /\ \A i \in 1..4 : r[i] = h[i]
  BY <1>2, <1>4, <1>5, <1>6
<1>8. Len(r) >= 4 /\ r[2] = 0 /\ r[3] = e /\ r[4] = o
  BY <1>5, <1>7
<1>9. f \in Seq(Byte) /\ b \in Seq(Byte) /\ Len(b) = Len(r) + 1 /\ \A i \in 1..Len(r) : b[i] = r[i]
  <2>1. Len(r) \in 0..100
    BY <1>7
  <2> QED
    BY <1>7, <2>1, OwnerFrame
<1> HIDE DEF f, b
<1>10. Len(b) >= 4 /\ b[2] = 0 /\ b[3] = e /\ b[4] = o
  BY <1>7, <1>8, <1>9
<1>11. \A y \in BOOLEAN : \A q : Routed(q, 0, e, OwnerByte(1, y)) =>
         tag_of(q) \in MsgFlowTag /\ tag_of(q).tag_owner = y
  <2> SUFFICES ASSUME NEW y \in BOOLEAN, NEW q, Routed(q, 0, e, OwnerByte(1, y))
               PROVE  tag_of(q) \in MsgFlowTag /\ tag_of(q).tag_owner = y
    OBVIOUS
  <2>1. tag_of(q) = TagAs(0, e, 1, y) /\ tag_of(q) \in MsgFlowTag
    BY <1>1, TagReadBack
  <2> QED
    BY <2>1, TagFields
<1>12. Routed(r, 0, e, o) /\ Routed(b, 0, e, o)
  BY <1>7, <1>8, <1>9, <1>10, Zenon DEF Routed
<1>13. Owned(tag_of(r)) /\ Owned(tag_of(b))
  BY <1>1, <1>11, <1>12, Zenon DEF Owned, o
<1> QED
  BY <1>9, <1>13, Zenon DEF IsOwnerRequest, b, f, r

\* A later call changes nothing for the datagrams of the earlier ones.
LEMMA CallsKept ==
  ASSUME NEW cs \in Seq(CallRecord), NEW c \in CallRecord
  PROVE  /\ \A d : IsRequest(d, cs) => IsRequest(d, Append(cs, c))
         /\ \A b, of : IsAnswer(b, of, cs) => IsAnswer(b, of, Append(cs, c))
<1> DEFINE ds == Append(cs, c)
           n == Len(cs)
<1>1. n \in Nat /\ Len(ds) = n + 1 /\ \A k \in 1..n : ds[k] = cs[k]
  BY AppendProps
<1> HIDE DEF ds
<1>2. ASSUME NEW d, IsRequest(d, cs) PROVE IsRequest(d, ds)
  <2>1. d.of \in 1..n
    BY <1>2 DEF IsRequest
  <2> HIDE DEF n
  <2>2. d.of \in 1..(n + 1) /\ ds[d.of] = cs[d.of]
    BY <1>1, <2>1
  <2> QED
    BY <1>1, <1>2, <2>2, Zenon DEF IsRequest
<1>3. ASSUME NEW b, NEW of, IsAnswer(b, of, cs) PROVE IsAnswer(b, of, ds)
  <2>1. of \in 1..n
    BY <1>3 DEF IsAnswer
  <2> HIDE DEF n
  <2>2. of \in 1..(n + 1) /\ ds[of] = cs[of]
    BY <1>1, <2>1
  <2> QED
    BY <1>1, <1>3, <2>2, Zenon DEF IsAnswer
<1> QED
  BY <1>2, <1>3 DEF ds

\* At most one datagram is not an answer.
OneOther(s) == \A i, j \in 1..Len(s) : s[i].of = 0 /\ s[j].of = 0 => i = j

\* The answers among the first i, when the oldest datagram is taken.
LEMMA AnswersInTail ==
  ASSUME NEW s \in Seq(Datagrams), s # <<>>, OneOther(s), NEW i \in Nat, i < Len(s)
  PROVE  AnswersIn(Tail(s), i) = AnswersIn(s, i + 1) - (IF s[1].of # 0 THEN 1 ELSE 0)
<1> DEFINE t == Tail(s)
           n == Len(s)
<1>1. n \in Nat /\ n > 0 /\ Len(t) = n - 1 /\ \A j \in 1..(n - 1) : t[j] = s[j + 1]
  BY TailProps
<1> HIDE DEF t
<1>2. \A j, k \in 1..n : s[j].of = 0 /\ s[k].of = 0 => j = k
  BY DEF OneOther
<1>3. i \in Nat /\ i < n
  OBVIOUS
<1> HIDE DEF n
<1>4. CASE s[1].of = 0
  <2>1. \A j \in 1..i : t[j].of # 0
    <3> SUFFICES ASSUME NEW j \in 1..i, t[j].of = 0 PROVE FALSE
      OBVIOUS
    <3>1. j + 1 \in 1..n /\ 1 \in 1..n /\ s[j + 1].of = 0 /\ j + 1 # 1
      BY <1>1, <1>3
    <3> QED
      BY <1>2, <1>4, <3>1
  <2>2. \E j \in 1..(i + 1) : s[j].of = 0
    BY <1>3, <1>4
  <2> QED
    BY <1>3, <1>4, <2>1, <2>2 DEF AnswersIn, t
<1>5. CASE s[1].of # 0
  <2>1. (\E j \in 1..i : t[j].of = 0) <=> (\E j \in 1..(i + 1) : s[j].of = 0)
    <3>1. ASSUME NEW j \in 1..i, t[j].of = 0 PROVE \E k \in 1..(i + 1) : s[k].of = 0
      <4>1. j + 1 \in 1..(i + 1) /\ s[j + 1].of = 0
        BY <1>1, <1>3, <3>1
      <4> QED
        BY <4>1
    <3>2. ASSUME NEW j \in 1..(i + 1), s[j].of = 0 PROVE \E k \in 1..i : t[k].of = 0
      <4>1. j - 1 \in 1..i /\ t[j - 1] = s[(j - 1) + 1] /\ (j - 1) + 1 = j
        BY <1>1, <1>3, <1>5, <3>2
      <4> QED
        BY <3>2, <4>1
    <3> QED
      BY <3>1, <3>2
  <2> QED
    BY <1>3, <1>5, <2>1 DEF AnswersIn, t
<1> QED
  BY <1>4, <1>5

\* The same when a datagram is sent.
LEMMA AnswersInAppend ==
  ASSUME NEW s \in Seq(Datagrams), NEW d \in Datagrams
  PROVE  /\ \A i \in 0..Len(s) : AnswersIn(Append(s, d), i) = AnswersIn(s, i)
         /\ d.of # 0 => AnswersIn(Append(s, d), Len(s) + 1) = AnswersIn(s, Len(s)) + 1
         /\ d.of = 0 /\ (\A i \in 1..Len(s) : s[i].of # 0) =>
              AnswersIn(Append(s, d), Len(s) + 1) = AnswersIn(s, Len(s))
<1> DEFINE t == Append(s, d)
           n == Len(s)
<1>1. n \in Nat /\ (\A j \in 1..n : t[j] = s[j]) /\ t[n + 1] = d
  BY AppendProps
<1> HIDE DEF t, n
<1>2. \A i \in 0..n : AnswersIn(t, i) = AnswersIn(s, i)
  BY <1>1 DEF AnswersIn
<1>3. d.of # 0 => AnswersIn(t, n + 1) = AnswersIn(s, n) + 1
  BY <1>1 DEF AnswersIn
<1>4. d.of = 0 /\ (\A i \in 1..n : s[i].of # 0) => AnswersIn(t, n + 1) = AnswersIn(s, n)
  BY <1>1 DEF AnswersIn
<1> QED
  BY <1>2, <1>3, <1>4 DEF t, n

\* Its type.
LEMMA AnswersInType ==
  ASSUME NEW s, NEW i \in Nat
  PROVE  AnswersIn(s, i) \in Nat /\ AnswersIn(s, i) <= i
BY DEF AnswersIn

-----------------------------------------------------------------------------
(* The invariant is inductive: one lemma per action.                       *)

\* It holds before the first call.
LEMMA InvInit == Init => ExchangeInv
<1> SUFFICES ASSUME Init PROVE ExchangeInv
  OBVIOUS
<1>1. /\ client = "idle" /\ flows = <<>> /\ calls = <<>> /\ got = <<>>
      /\ assigned_eid = 0 /\ next_tag = 1 /\ pending = <<>> /\ owner = "running"
      /\ toOwner = <<>> /\ toClient = <<>>
  BY DEF Init
<1>2. perform_discovery \in BOOLEAN
  BY Zenon DEF Init
<1>3. CallsRecorded
  BY <1>1, ByteConstants DEF CallsRecorded
<1>4. TaskState
  BY <1>1 DEF TaskState
<1>5. OwnerState
  BY <1>1, <1>2 DEF OwnerState, Byte
<1>6. OnTheWay
  BY <1>1 DEF OnTheWay
<1>7. TwoPerCall
  <2>1. AnswersIn(<<>>, 0) = 0
    BY DEF AnswersIn
  <2> QED
    BY <1>1, <2>1 DEF TwoPerCall
<1>8. StaleByHalf
  BY <1>1 DEF StaleByHalf
<1> QED
  BY <1>3, <1>4, <1>5, <1>6, <1>7, <1>8 DEF ExchangeInv

\* sendto records its call, and sends its frame twice or panics.
LEMMA SendInv ==
  ASSUME ExchangeInv, NEW call \in Calls, NEW phy \in PhyAddrs, sendto(call, phy)
  PROVE  ExchangeInv'
<1> DEFINE packet == sendto_packet(call)
           n == Len(calls) + 1
           c == [call |-> call, packet |-> packet, phy_addr |-> phy]
           w == [tag |-> tag_of(packet), id |-> n]
<1>1. /\ client = "idle" /\ Len(calls) < MaxCalls
      /\ calls' = Append(calls, c) /\ flows' = Append(flows, w)
      /\ got' = got /\ toClient' = toClient
  BY Zenon DEF sendto, ownerVars
<1>2. UNCHANGED ownerVars
  BY Zenon DEF sendto
<1>3. \/ /\ validate_smbus_address(phy) /\ client' = "waiting"
         /\ \E pec \in PecBytes :
              toOwner' = transmit(Datagram(
                transmit_frame(phy, set_address(OwnAddr), packet, pec), n))
      \/ client' = "panicked" /\ toOwner' = toOwner
  BY Zenon DEF sendto
<1>4. call \in Call /\ phy \in Nat /\ MaxCalls \in Nat
  BY ByteConstants
<1>5. RequestBytes(packet, call) /\ packet \in Seq(Byte)
  BY <1>4, PacketBytes DEF RequestBytes, Routed
<1>6. Owned(tag_of(packet))
  BY <1>5, RequestTag
<1>7. /\ calls \in Seq(CallRecord) /\ Len(calls) \in Nat
      /\ \A k \in 1..Len(calls) : RequestBytes(calls[k].packet, calls[k].call)
  BY DEF ExchangeInv, CallsRecorded
<1>8. c \in CallRecord /\ c.packet = packet /\ c.call = call /\ c.phy_addr = phy
  BY <1>4, <1>5 DEF CallRecord
<1> HIDE DEF packet, c, w
<1>9. /\ calls' \in Seq(CallRecord) /\ Len(calls') = n /\ n \in 1..MaxCalls
      /\ calls'[n] = c /\ \A k \in 1..Len(calls) : calls'[k] = calls[k]
  BY <1>1, <1>4, <1>7, <1>8, AppendProps
<1>10. CallsRecorded'
  <2>1. \A k \in 1..Len(calls') : RequestBytes(calls'[k].packet, calls'[k].call)
    BY <1>5, <1>7, <1>8, <1>9
  <2> QED
    BY <1>9, <2>1 DEF CallsRecorded
<1>11. /\ \A d : IsRequest(d, calls) => IsRequest(d, calls')
       /\ \A b, of : IsAnswer(b, of, calls) => IsAnswer(b, of, calls')
  BY <1>1, <1>7, <1>8, CallsKept
<1>12. TaskState'
  <2>1. /\ flows \in Seq([tag : MsgFlowTag, id : 1..MaxCalls]) /\ Len(flows) = 0
        /\ got \in Seq(Datagrams) /\ Len(calls) = Len(got) + Len(flows)
        /\ \A i \in 1..Len(got) : IsAnswer(got[i].bytes, got[i].of, calls)
    BY <1>1 DEF ExchangeInv, TaskState
  <2>2. w \in [tag : MsgFlowTag, id : 1..MaxCalls] /\ w.tag = tag_of(packet)
    BY <1>6, <1>9 DEF w, Owned
  <2>3. /\ flows' \in Seq([tag : MsgFlowTag, id : 1..MaxCalls]) /\ Len(flows') = 1
        /\ flows'[1] = w
    BY <1>1, <2>1, <2>2, AppendProps
  <2>4. \A i \in 1..Len(flows') : Owned(flows'[i].tag)
    BY <1>6, <2>2, <2>3
  <2>5. client' \in {"waiting", "panicked"}
    BY <1>3
  <2>6. Len(calls') = Len(got') + Len(flows')
    BY <1>1, <1>7, <1>9, <2>1, <2>3
  <2>7. \A i \in 1..Len(got') : IsAnswer(got'[i].bytes, got'[i].of, calls')
    BY <1>1, <1>11, <2>1
  <2> QED
    BY <1>1, <2>1, <2>3, <2>4, <2>5, <2>6, <2>7 DEF TaskState
<1>13. OwnerState'
  BY <1>2 DEF ExchangeInv, OwnerState, ownerVars
<1>14. /\ toOwner \in Seq(Datagrams) /\ toClient \in Seq(Datagrams)
       /\ \A i \in 1..Len(toOwner) : IsRequest(toOwner[i], calls)
       /\ \A i \in 1..Len(toClient) :
            \/ IsAnswer(frame_body(toClient[i].bytes), toClient[i].of, calls)
            \/ IsOwnerRequest(frame_body(toClient[i].bytes), toClient[i].of)
  BY DEF ExchangeInv, OnTheWay
<1> DEFINE l == Len(toOwner)
           g == Len(got)
           m == AnswersIn(toClient, Len(toClient))
<1>15. /\ l \in Nat /\ g \in Nat /\ m \in Nat /\ Len(calls) \in Nat
       /\ \A i \in 1..Len(toClient) :
            toClient[i].of # 0 => g + AnswersIn(toClient, i) <= 2 * toClient[i].of
       /\ \A i \in 1..l : g + m + i <= 2 * toOwner[i].of
       /\ g + m + l <= 2 * Len(calls)
  BY <1>7, <1>14, AnswersInType DEF ExchangeInv, TaskState, TwoPerCall
<1>16. /\ toOwner' \in Seq(Datagrams) /\ \A i \in 1..Len(toOwner') : IsRequest(toOwner'[i], calls')
       /\ \A i \in 1..Len(toOwner') : g + m + i <= 2 * toOwner'[i].of
       /\ g + m + Len(toOwner') <= 2 * n
  <2>1. CASE client' = "panicked" /\ toOwner' = toOwner
    <3>1. \A i \in 1..Len(toOwner') : IsRequest(toOwner'[i], calls')
      BY <1>11, <1>14, <2>1
    <3>2. g + m + l <= 2 * n
      BY <1>15
    <3> QED
      BY <1>14, <1>15, <2>1, <3>1, <3>2
  <2>2. CASE /\ validate_smbus_address(phy) /\ client' = "waiting"
             /\ \E pec \in PecBytes :
                  toOwner' = transmit(Datagram(
                    transmit_frame(phy, set_address(OwnAddr), packet, pec), n))
    <3>0. PICK pec \in PecBytes :
            toOwner' = transmit(Datagram(
              transmit_frame(phy, set_address(OwnAddr), packet, pec), n))
      BY <2>2, Zenon
    <3> DEFINE f == transmit_frame(phy, set_address(OwnAddr), packet, pec)
               d == Datagram(f, n)
    <3>1. /\ f \in Seq(Byte) /\ f[2] = SMBUS_COMMAND_CODE_MCTP /\ Addressed(f, phy)
          /\ RequestBytes(frame_body(f), call)
      BY <1>4, <2>2, FrameBytes DEF packet
    <3> HIDE DEF f
    <3>2. d \in Datagrams /\ d.of = n /\ d.bytes = f
      BY <1>9, <3>1 DEF Datagram, Datagrams
    <3> HIDE DEF d
    <3>3. IsRequest(d, calls')
      BY <1>8, <1>9, <3>1, <3>2 DEF IsRequest
    <3>4. toOwner' = toOwner \o <<d, d>>
      BY <3>0 DEF transmit, d, f
    <3>5. /\ toOwner' \in Seq(Datagrams) /\ Len(toOwner') = l + 2
          /\ \A i \in 1..l : toOwner'[i] = toOwner[i]
          /\ toOwner'[l + 1] = d /\ toOwner'[l + 2] = d
      BY <1>14, <3>2, <3>4
    <3> HIDE DEF l, g, m, n
    <3>6. \A i \in 1..(l + 2) : \/ i \in 1..l /\ toOwner'[i] = toOwner[i]
                                \/ i <= l + 2 /\ toOwner'[i] = d
      BY <1>15, <3>5
    <3>7. \A i \in 1..Len(toOwner') : IsRequest(toOwner'[i], calls')
      BY <1>11, <1>14, <3>3, <3>5, <3>6 DEF l
    <3>8. n \in Nat /\ g + m + (l + 2) <= 2 * n
      BY <1>15 DEF n
    <3>9. \A i \in 1..(l + 2) : g + m + i <= 2 * toOwner'[i].of
      BY <1>15, <3>2, <3>6, <3>8
    <3> QED
      BY <3>5, <3>7, <3>8, <3>9
  <2> QED
    BY <1>3, <2>1, <2>2, Zenon
<1>17. OnTheWay'
  <2>1. next_tag' = next_tag
    BY <1>2 DEF ownerVars
  <2>2. \A i \in 1..Len(toClient') :
          \/ IsAnswer(frame_body(toClient'[i].bytes), toClient'[i].of, calls')
          \/ IsOwnerRequest(frame_body(toClient'[i].bytes), toClient'[i].of)
    BY <1>1, <1>11, <1>14
  <2>3. /\ \A i, j \in 1..Len(toClient) : toClient[i].of = 0 /\ toClient[j].of = 0 => i = j
        /\ next_tag = 1 => \A i \in 1..Len(toClient) : toClient[i].of # 0
    BY DEF ExchangeInv, OnTheWay
  <2> QED
    BY <1>1, <1>14, <1>16, <2>1, <2>2, <2>3, Zenon DEF OnTheWay
<1>18. TwoPerCall'
  BY <1>1, <1>9, <1>15, <1>16 DEF TwoPerCall
<1>19. StaleByHalf'
  BY <1>1 DEF ExchangeInv, StaleByHalf
<1> QED
  BY <1>10, <1>12, <1>13, <1>17, <1>18, <1>19 DEF ExchangeInv

\* A datagram of a queue.
LEMMA DatagramAt ==
  ASSUME NEW s \in Seq(Datagrams), NEW i \in 1..Len(s)
  PROVE  s[i] \in Datagrams /\ s[i].of \in Nat /\ s[i].bytes \in Seq(Byte)
<1>1. s[i] \in Datagrams
  OBVIOUS
<1> QED
  BY <1>1 DEF Datagrams

\* Taking the oldest datagram to the task, whatever becomes of it: at most one
\* call returns, and only with an answer.
LEMMA ClientTakes ==
  ASSUME ExchangeInv, toClient # <<>>, toClient' = Tail(toClient),
         calls' = calls, next_tag' = next_tag, toOwner' = toOwner, got' \in Seq(Datagrams),
         Len(got') = Len(got) \/ (Len(got') = Len(got) + 1 /\ Head(toClient).of # 0)
  PROVE  OnTheWay' /\ TwoPerCall'
<1> DEFINE l == Len(toOwner)
           g == Len(got)
           x == Len(toClient)
           m == AnswersIn(toClient, x)
           k == IF toClient[1].of # 0 THEN 1 ELSE 0
<1>1. /\ toOwner \in Seq(Datagrams) /\ toClient \in Seq(Datagrams)
      /\ \A i \in 1..Len(toOwner) : IsRequest(toOwner[i], calls)
      /\ \A i \in 1..x :
           \/ IsAnswer(frame_body(toClient[i].bytes), toClient[i].of, calls)
           \/ IsOwnerRequest(frame_body(toClient[i].bytes), toClient[i].of)
      /\ \A i, j \in 1..x : toClient[i].of = 0 /\ toClient[j].of = 0 => i = j
      /\ next_tag = 1 => \A i \in 1..x : toClient[i].of # 0
  BY Zenon DEF ExchangeInv, OnTheWay
<1>2. /\ l \in Nat /\ g \in Nat /\ m \in Nat /\ Len(calls) \in Nat
      /\ \A i \in 1..x : toClient[i].of # 0 => g + AnswersIn(toClient, i) <= 2 * toClient[i].of
      /\ \A i \in 1..l : g + m + i <= 2 * toOwner[i].of
      /\ g + m + l <= 2 * Len(calls)
  <2>1. calls \in Seq(CallRecord) /\ got \in Seq(Datagrams)
    BY Zenon DEF ExchangeInv, CallsRecorded, TaskState
  <2>2. l \in Nat /\ g \in Nat /\ x \in Nat /\ Len(calls) \in Nat
    BY <1>1, <2>1
  <2>3. m \in Nat
    BY <1>1, <2>2, AnswersInType
  <2> QED
    BY <2>2, <2>3, Zenon DEF ExchangeInv, TwoPerCall
<1>3. /\ toClient' \in Seq(Datagrams) /\ x \in Nat /\ x > 0 /\ Len(toClient') = x - 1
      /\ Head(toClient) = toClient[1] /\ \A i \in 1..(x - 1) : toClient'[i] = toClient[i + 1]
  BY <1>1, TailProps
<1>4. \A i \in 0..(x - 1) : AnswersIn(toClient', i) = AnswersIn(toClient, i + 1) - k
  <2> SUFFICES ASSUME NEW i \in 0..(x - 1)
               PROVE  AnswersIn(toClient', i) = AnswersIn(toClient, i + 1) - k
    OBVIOUS
  <2>1. i \in Nat /\ i < Len(toClient)
    BY <1>3
  <2>2. OneOther(toClient)
    BY <1>1, Zenon DEF OneOther
  <2> QED
    BY <1>1, <2>1, <2>2, AnswersInTail
<1>5. k \in 0..1 /\ Len(got') \in Nat /\ Len(got') <= g + k
  BY <1>2, <1>3
<1>6. AnswersIn(toClient', x - 1) = m - k
  BY <1>3, <1>4
<1>7. \A i \in 0..x : AnswersIn(toClient, i) \in Nat
  BY AnswersInType
<1>8. \A i \in 1..(x - 1) : i + 1 \in 1..x
  BY <1>3
<1>9. OnTheWay'
  <2>1. \A i \in 1..(x - 1) :
          \/ IsAnswer(frame_body(toClient'[i].bytes), toClient'[i].of, calls')
          \/ IsOwnerRequest(frame_body(toClient'[i].bytes), toClient'[i].of)
    BY <1>1, <1>3, <1>8
  <2>2. \A i, j \in 1..(x - 1) : toClient'[i].of = 0 /\ toClient'[j].of = 0 => i = j
    <3> SUFFICES ASSUME NEW i \in 1..(x - 1), NEW j \in 1..(x - 1), toClient'[i].of = 0, toClient'[j].of = 0
                 PROVE  i = j
      OBVIOUS
    <3>1. toClient[i + 1].of = 0 /\ toClient[j + 1].of = 0
      BY <1>3
    <3>2. i + 1 = j + 1
      BY <1>1, <1>8, <3>1
    <3> QED
      BY <1>3, <3>2
  <2>3. next_tag' = 1 => \A i \in 1..(x - 1) : toClient'[i].of # 0
    BY <1>1, <1>3, <1>8
  <2> QED
    BY <1>1, <1>3, <2>1, <2>2, <2>3 DEF OnTheWay
<1>10. TwoPerCall'
  <2> DEFINE h == Len(got')
  <2>0. l \in Nat /\ g \in Nat /\ m \in Nat /\ k \in 0..1
    BY <1>2, <1>5
  <2>1. h \in Nat /\ h <= g + k
    BY <1>5
  <2> HIDE DEF l, g, m, k, h
  <2>2. \A i \in 1..(x - 1) : toClient'[i].of # 0 => h + AnswersIn(toClient', i) <= 2 * toClient'[i].of
    <3> SUFFICES ASSUME NEW i \in 1..(x - 1), toClient'[i].of # 0
                 PROVE  h + AnswersIn(toClient', i) <= 2 * toClient'[i].of
      OBVIOUS
    <3>1. g + AnswersIn(toClient, i + 1) <= 2 * toClient[i + 1].of
      BY <1>2, <1>3, <1>8
    <3>2. AnswersIn(toClient', i) = AnswersIn(toClient, i + 1) - k /\ AnswersIn(toClient, i + 1) \in Nat
      BY <1>3, <1>4, <1>7
    <3>3. toClient[i + 1].of \in Nat /\ toClient'[i] = toClient[i + 1]
      BY <1>1, <1>3, <1>8, DatagramAt
    <3> DEFINE a == AnswersIn(toClient, i + 1)
               b == toClient[i + 1].of
    <3>4. a \in Nat /\ b \in Nat /\ g + a <= 2 * b
      BY <3>1, <3>2, <3>3
    <3> HIDE DEF a, b
    <3>5. h + (a - k) <= 2 * b
      BY <2>0, <2>1, <3>4
    <3> QED
      BY <3>2, <3>3, <3>5 DEF a, b
  <2>3. \A i \in 1..l : h + (m - k) + i <= 2 * toOwner[i].of
    <3> SUFFICES ASSUME NEW i \in 1..l PROVE h + (m - k) + i <= 2 * toOwner[i].of
      OBVIOUS
    <3>1. g + m + i <= 2 * toOwner[i].of /\ toOwner[i].of \in Nat
      BY <1>1, <1>2, DatagramAt DEF l
    <3>2. i \in Nat
      BY <2>0
    <3> QED
      BY <2>0, <2>1, <3>1, <3>2
  <2>4. h + (m - k) + l <= 2 * Len(calls)
    BY <1>2, <1>5, <2>1
  <2> QED
    BY <1>3, <1>6, <2>2, <2>3, <2>4 DEF TwoPerCall, h, l
<1> QED
  BY <1>9, <1>10

\* Taking the oldest datagram to the owner only makes room.
LEMMA OwnerTakes ==
  ASSUME ExchangeInv, toOwner # <<>>, toOwner' = Tail(toOwner)
  PROVE  /\ toOwner' \in Seq(Datagrams) /\ Len(toOwner') = Len(toOwner) - 1
         /\ \A i \in 1..Len(toOwner') : toOwner'[i] = toOwner[i + 1] /\ i + 1 \in 1..Len(toOwner)
         /\ \A i \in 1..Len(toOwner') : IsRequest(toOwner'[i], calls)
         /\ Head(toOwner) = toOwner[1] /\ 1 \in 1..Len(toOwner)
<1> DEFINE x == Len(toOwner)
<1>1. toOwner \in Seq(Datagrams) /\ \A i \in 1..x : IsRequest(toOwner[i], calls)
  BY Zenon DEF ExchangeInv, OnTheWay
<1>2. /\ toOwner' \in Seq(Datagrams) /\ x \in Nat /\ x > 0 /\ Len(toOwner') = x - 1
      /\ Head(toOwner) = toOwner[1] /\ \A i \in 1..(x - 1) : toOwner'[i] = toOwner[i + 1]
  BY <1>1, TailProps
<1>3. (\A i \in 1..(x - 1) : i + 1 \in 1..x) /\ 1 \in 1..x
  BY <1>2
<1> QED
  BY <1>1, <1>2, <1>3

\* A lost datagram.
LEMMA LoseInv ==
  ASSUME ExchangeInv, lose
  PROVE  ExchangeInv'
<1>1. /\ calls' = calls /\ got' = got /\ client' = client /\ flows' = flows
      /\ UNCHANGED ownerVars /\ next_tag' = next_tag
      /\ \/ toOwner # <<>> /\ toOwner' = Tail(toOwner) /\ toClient' = toClient
         \/ toClient # <<>> /\ toClient' = Tail(toClient) /\ toOwner' = toOwner
  BY DEF lose, clientVars, ownerVars
<1>2. CallsRecorded' /\ TaskState' /\ OwnerState' /\ StaleByHalf'
  BY <1>1 DEF ExchangeInv, CallsRecorded, TaskState, OwnerState, StaleByHalf, ownerVars
<1>3. OnTheWay' /\ TwoPerCall'
  <2>1. CASE toClient # <<>> /\ toClient' = Tail(toClient) /\ toOwner' = toOwner
    <3>1. got' \in Seq(Datagrams)
      BY <1>1 DEF ExchangeInv, TaskState
    <3>2. Len(got') = Len(got) \/ (Len(got') = Len(got) + 1 /\ Head(toClient).of # 0)
      BY <1>1
    <3> QED
      BY <1>1, <2>1, <3>1, <3>2, ClientTakes
  <2>2. CASE toOwner # <<>> /\ toOwner' = Tail(toOwner) /\ toClient' = toClient
    <3>1. /\ toOwner' \in Seq(Datagrams) /\ Len(toOwner') = Len(toOwner) - 1
          /\ \A i \in 1..Len(toOwner') : toOwner'[i] = toOwner[i + 1] /\ i + 1 \in 1..Len(toOwner)
          /\ \A i \in 1..Len(toOwner') : IsRequest(toOwner'[i], calls)
      BY <2>2, OwnerTakes
    <3>2. OnTheWay'
      BY <1>1, <2>2, <3>1 DEF ExchangeInv, OnTheWay
    <3> DEFINE n == Len(got)
               m == AnswersIn(toClient, Len(toClient))
    <3>3. /\ n \in Nat /\ m \in Nat /\ Len(toOwner) \in Nat /\ Len(calls) \in Nat
          /\ \A i \in 1..Len(toOwner) : toOwner[i].of \in Nat
      <4>1. /\ calls \in Seq(CallRecord) /\ got \in Seq(Datagrams)
            /\ toOwner \in Seq(Datagrams) /\ toClient \in Seq(Datagrams)
        BY Zenon DEF ExchangeInv, CallsRecorded, TaskState, OnTheWay
      <4>2. Len(toClient) \in Nat
        BY <4>1
      <4>3. m \in Nat
        BY <4>2, AnswersInType
      <4> QED
        BY <4>1, <4>3, DatagramAt
    <3>4. /\ \A i \in 1..Len(toClient) :
               toClient[i].of # 0 => n + AnswersIn(toClient, i) <= 2 * toClient[i].of
          /\ \A i \in 1..Len(toOwner) : n + m + i <= 2 * toOwner[i].of
          /\ n + m + Len(toOwner) <= 2 * Len(calls)
      BY DEF ExchangeInv, TwoPerCall
    <3> HIDE DEF n, m
    <3>5. \A i \in 1..Len(toOwner') : n + m + i <= 2 * toOwner'[i].of
      <4> SUFFICES ASSUME NEW i \in 1..Len(toOwner') PROVE n + m + i <= 2 * toOwner'[i].of
        OBVIOUS
      <4>1. toOwner'[i] = toOwner[i + 1] /\ i + 1 \in 1..Len(toOwner) /\ i \in Nat
        BY <3>1
      <4>2. n + m + (i + 1) <= 2 * toOwner[i + 1].of /\ toOwner[i + 1].of \in Nat
        BY <3>3, <3>4, <4>1
      <4> QED
        BY <3>3, <4>1, <4>2
    <3>6. n + m + Len(toOwner') <= 2 * Len(calls)
      BY <3>1, <3>3, <3>4
    <3>7. TwoPerCall'
      BY <1>1, <2>2, <3>4, <3>5, <3>6 DEF TwoPerCall, n, m
    <3> QED
      BY <3>2, <3>7
  <2> QED
    BY <1>1, <2>1, <2>2
<1> QED
  BY <1>2, <1>3 DEF ExchangeInv

\* callback_handler drops the datagram, or finishes the call with an answer.
LEMMA CallbackInv ==
  ASSUME ExchangeInv, callback_handler
  PROVE  ExchangeInv'
<1> DEFINE d == Head(toClient)
           packet == frame_body(d.bytes)
           g == Len(got)
<1>1. /\ toClient # <<>> /\ toClient' = Tail(toClient) /\ toOwner' = toOwner /\ calls' = calls
      /\ UNCHANGED ownerVars /\ next_tag' = next_tag
  BY DEF callback_handler, ownerVars
<1>2. /\ client \in {"idle", "waiting", "panicked"}
      /\ flows \in Seq([tag : MsgFlowTag, id : 1..MaxCalls])
      /\ \A i \in 1..Len(flows) : Owned(flows[i].tag)
      /\ Len(flows) = IF client = "idle" THEN 0 ELSE 1
      /\ got \in Seq(Datagrams) /\ Len(calls) = g + Len(flows)
      /\ \A i \in 1..g : IsAnswer(got[i].bytes, got[i].of, calls)
  BY Zenon DEF ExchangeInv, TaskState
<1>3. CallsRecorded' /\ OwnerState'
  BY <1>1 DEF ExchangeInv, CallsRecorded, OwnerState, ownerVars
<1>4. toClient \in Seq(Datagrams) /\ d = toClient[1] /\ 1 \in 1..Len(toClient) /\ d \in Datagrams
  <2>1. toClient \in Seq(Datagrams)
    BY DEF ExchangeInv, OnTheWay
  <2> QED
    BY <1>1, <2>1
<1>5. IsAnswer(packet, d.of, calls) \/ IsOwnerRequest(packet, d.of)
  BY <1>4, Zenon DEF ExchangeInv, OnTheWay
<1>6. CASE UNCHANGED <<client, flows, got>>
  <2>1. TaskState' /\ StaleByHalf'
    BY <1>1, <1>2, <1>6 DEF ExchangeInv, TaskState, StaleByHalf
  <2>2. got' \in Seq(Datagrams) /\ (Len(got') = Len(got) \/ (Len(got') = Len(got) + 1 /\ Head(toClient).of # 0))
    BY <1>2, <1>6
  <2>3. OnTheWay' /\ TwoPerCall'
    BY <1>1, <2>2, ClientTakes
  <2> QED
    BY <1>3, <2>1, <2>3 DEF ExchangeInv
<1>7. ASSUME NEW i \in 1..Len(flows), is_first_match(flows, i, tag_of(packet)),
             flows' = RemoveAt(flows, i), got' = Append(got, Datagram(packet, d.of)), client' = "idle"
      PROVE  ExchangeInv'
  <2>1. IsAnswer(packet, d.of, calls)
    <3>1. ~IsOwnerRequest(packet, d.of)
      BY <1>2, <1>7, OwnedNoMatch, Zenon DEF IsOwnerRequest
    <3> QED
      BY <1>5, <3>1
  <2> DEFINE e == Datagram(packet, d.of)
             n == d.of
  <2>2. /\ n \in 1..Len(calls) /\ e.bytes = packet /\ e.of = n
        /\ packet \in Seq(Byte) /\ e \in Datagrams
    <3>1. n \in 1..Len(calls) /\ packet \in Seq(Byte)
      BY <2>1 DEF IsAnswer, AnswerBytes, Routed
    <3>2. n \in Nat
      BY <1>4 DEF Datagrams
    <3> QED
      BY <3>1, <3>2 DEF Datagram, Datagrams
  <2>3. Len(flows) = 1 /\ i = 1 /\ Len(calls) = g + 1 /\ g \in Nat
    BY <1>2
  <2> HIDE DEF e
  <2>4. got' \in Seq(Datagrams) /\ Len(got') = g + 1 /\ got'[g + 1] = e /\ \A k \in 1..g : got'[k] = got[k]
    BY <1>2, <1>7, <2>2, AppendProps DEF e
  <2>5. flows' \in Seq([tag : MsgFlowTag, id : 1..MaxCalls]) /\ Len(flows') = 0
    <3>1. /\ RemoveAt(flows, i) \in Seq([tag : MsgFlowTag, id : 1..MaxCalls])
          /\ Len(RemoveAt(flows, i)) = Len(flows) - 1
      BY <1>2, RemoveAtProps
    <3> QED
      BY <1>7, <2>3, <3>1
  <2>6. TaskState'
    <3>1. \A k \in 1..(g + 1) : IsAnswer(got'[k].bytes, got'[k].of, calls)
      <4> SUFFICES ASSUME NEW k \in 1..(g + 1) PROVE IsAnswer(got'[k].bytes, got'[k].of, calls)
        OBVIOUS
      <4>1. k \in 1..g \/ k = g + 1
        BY <2>3
      <4> QED
        BY <1>2, <2>1, <2>2, <2>4, <4>1
    <3>2. Len(calls) = Len(got') + Len(flows')
      BY <2>3, <2>4, <2>5
    <3>3. \A k \in 1..Len(flows') : Owned(flows'[k].tag)
      BY <2>5
    <3> QED
      BY <1>1, <1>7, <2>4, <2>5, <3>1, <3>2, <3>3 DEF TaskState
  <2>7. n # 0 /\ n \in Nat /\ 2 * n >= g + 1 /\ n <= g + 1
    <3>1. n # 0 /\ n \in Nat /\ n <= g + 1
      BY <2>2, <2>3
    <3>2. AnswersIn(toClient, 1) = 1
      BY <1>4, <3>1 DEF AnswersIn
    <3>3. g + AnswersIn(toClient, 1) <= 2 * n
      BY <1>4, <3>1 DEF ExchangeInv, TwoPerCall
    <3> QED
      BY <2>3, <3>1, <3>2, <3>3
  <2>8. StaleByHalf'
    <3> HIDE DEF n, g
    <3> SUFFICES ASSUME NEW k \in 1..(g + 1) PROVE 2 * got'[k].of >= k /\ got'[k].of <= k
      BY <2>4 DEF StaleByHalf
    <3>1. k \in 1..g \/ k = g + 1
      BY <2>3
    <3>2. \A j \in 1..g : 2 * got[j].of >= j /\ got[j].of <= j
      BY Zenon DEF ExchangeInv, StaleByHalf, g
    <3> QED
      BY <2>2, <2>4, <2>7, <3>1, <3>2
  <2>9. OnTheWay' /\ TwoPerCall'
    <3>1. Len(got') = Len(got) \/ (Len(got') = Len(got) + 1 /\ Head(toClient).of # 0)
      BY <2>4, <2>7
    <3> QED
      BY <1>1, <2>4, <3>1, ClientTakes
  <2> QED
    BY <1>3, <2>6, <2>8, <2>9 DEF ExchangeInv
<1>8. \/ UNCHANGED <<client, flows, got>>
      \/ \E i \in 1..Len(flows) :
           /\ is_first_match(flows, i, tag_of(packet))
           /\ flows' = RemoveAt(flows, i)
           /\ got' = Append(got, Datagram(packet, d.of))
           /\ client' = "idle"
  BY Zenon DEF callback_handler
<1> HIDE DEF d, packet
<1> QED
  BY <1>6, <1>7, <1>8

\* run_bus_owner_loop sends its one request.
LEMMA OwnerLoopInv ==
  ASSUME ExchangeInv, run_bus_owner_loop
  PROVE  ExchangeInv'
<1> DEFINE packet == OwnerPacket(assigned_eid)
           x == Len(toClient)
           g == Len(got)
<1>1. /\ client' = client /\ flows' = flows /\ calls' = calls /\ got' = got
      /\ assigned_eid' = assigned_eid /\ owner' = owner /\ toOwner' = toOwner
      /\ pending = <<>> /\ next_tag' = next_tag + 1
  BY DEF run_bus_owner_loop, clientVars
<1>2. perform_discovery' \in BOOLEAN
  BY Zenon DEF run_bus_owner_loop
<1>3. next_tag = 1 /\ assigned_eid \in Byte /\ owner \in {"running", "panicked"}
  BY <1>1 DEF ExchangeInv, OwnerState
<1>4. /\ pending' = <<[tag |-> tag_of(packet), id |-> 1]>>
      /\ \E pec \in PecBytes : toClient' = Append(toClient, Datagram(owner_frame(packet, pec), 0))
  BY <1>3, Zenon DEF run_bus_owner_loop, OwnerPacket
<1>5. PICK pec \in PecBytes : toClient' = Append(toClient, Datagram(owner_frame(packet, pec), 0))
  BY <1>4, Zenon
<1> DEFINE f == owner_frame(packet, pec)
           d == Datagram(f, 0)
<1>6. Owned(tag_of(packet)) /\ f \in Seq(Byte) /\ IsOwnerRequest(frame_body(f), 0)
  BY <1>3, ByteConstants, OwnerAsks
<1> HIDE DEF packet, f
<1>7. d \in Datagrams /\ d.of = 0 /\ d.bytes = f
  BY <1>6 DEF Datagram, Datagrams
<1> HIDE DEF d
<1>8. toClient' = Append(toClient, d)
  BY <1>5 DEF d, f
<1>9. CallsRecorded' /\ TaskState' /\ StaleByHalf'
  BY <1>1 DEF ExchangeInv, CallsRecorded, TaskState, StaleByHalf
<1>10. OwnerState'
  <2> DEFINE w == [tag |-> tag_of(packet), id |-> 1]
  <2>1. w \in [tag : MsgFlowTag, id : Byte] /\ w.tag = tag_of(packet)
    BY <1>6 DEF Owned, Byte
  <2> HIDE DEF w
  <2>2. pending' = <<w>>
    BY <1>4 DEF w
  <2>3. pending' \in Seq([tag : MsgFlowTag, id : Byte]) /\ pending' # <<>> /\ Len(pending') = 1 /\ pending'[1] = w
    BY <2>1, <2>2
  <2>4. \A i \in 1..Len(pending') : Owned(pending'[i].tag)
    BY <1>6, <2>1, <2>3
  <2>5. next_tag' \in 1..2
    BY <1>1, <1>3
  <2> QED
    BY <1>1, <1>2, <1>3, <2>3, <2>4, <2>5 DEF OwnerState
<1>11. /\ toOwner \in Seq(Datagrams) /\ toClient \in Seq(Datagrams)
       /\ \A i \in 1..Len(toOwner) : IsRequest(toOwner[i], calls)
       /\ \A i \in 1..x :
            \/ IsAnswer(frame_body(toClient[i].bytes), toClient[i].of, calls)
            \/ IsOwnerRequest(frame_body(toClient[i].bytes), toClient[i].of)
       /\ \A i \in 1..x : toClient[i].of # 0
  BY <1>3, Zenon DEF ExchangeInv, OnTheWay
<1>12. /\ toClient' \in Seq(Datagrams) /\ x \in Nat /\ Len(toClient') = x + 1
       /\ toClient'[x + 1] = d /\ \A i \in 1..x : toClient'[i] = toClient[i]
  BY <1>7, <1>8, <1>11, AppendProps
<1>13. \A i \in 1..(x + 1) : \/ i \in 1..x /\ toClient'[i] = toClient[i]
                             \/ i = x + 1 /\ toClient'[i] = d
  BY <1>12
<1>14. OnTheWay'
  <2>1. \A i \in 1..(x + 1) :
          \/ IsAnswer(frame_body(toClient'[i].bytes), toClient'[i].of, calls')
          \/ IsOwnerRequest(frame_body(toClient'[i].bytes), toClient'[i].of)
    BY <1>1, <1>6, <1>7, <1>11, <1>13
  <2>2. \A i \in 1..(x + 1) : toClient'[i].of = 0 => i = x + 1
    BY <1>11, <1>13
  <2>3. next_tag' # 1
    BY <1>1, <1>3
  <2> QED
    BY <1>1, <1>11, <1>12, <2>1, <2>2, <2>3 DEF OnTheWay
<1>15. TwoPerCall'
  <2>1. /\ \A i \in 0..x : AnswersIn(toClient', i) = AnswersIn(toClient, i)
        /\ AnswersIn(toClient', x + 1) = AnswersIn(toClient, x)
    BY <1>7, <1>8, <1>11, AnswersInAppend
  <2>2. \A i \in 1..(x + 1) :
          toClient'[i].of # 0 => g + AnswersIn(toClient', i) <= 2 * toClient'[i].of
    <3> SUFFICES ASSUME NEW i \in 1..(x + 1), toClient'[i].of # 0
                 PROVE  g + AnswersIn(toClient', i) <= 2 * toClient'[i].of
      OBVIOUS
    <3>1. i \in 1..x /\ toClient'[i] = toClient[i]
      BY <1>7, <1>13
    <3>2. AnswersIn(toClient', i) = AnswersIn(toClient, i)
      BY <1>12, <2>1, <3>1
    <3> QED
      BY <3>1, <3>2 DEF ExchangeInv, TwoPerCall
  <2>3. /\ \A i \in 1..Len(toOwner) : g + AnswersIn(toClient, x) + i <= 2 * toOwner[i].of
        /\ g + AnswersIn(toClient, x) + Len(toOwner) <= 2 * Len(calls)
    BY DEF ExchangeInv, TwoPerCall
  <2> QED
    BY <1>1, <1>12, <2>1, <2>2, <2>3 DEF TwoPerCall
<1> QED
  BY <1>9, <1>10, <1>14, <1>15 DEF ExchangeInv

\* The engine answers a request or panics on it.
LEMMA EngineInv ==
  ASSUME ExchangeInv, engine
  PROVE  ExchangeInv'
<1> DEFINE d == Head(toOwner)
           packet == frame_body(d.bytes)
           n == d.of
           call == calls[n].call
           p == payload_of(packet)
           reply == control_payload(response_header(packet), reply_message(p))
           x == Len(toClient)
           l == Len(toOwner)
           g == Len(got)
           m == AnswersIn(toClient, x)
<1>1. /\ client' = client /\ flows' = flows /\ calls' = calls /\ got' = got
      /\ next_tag' = next_tag /\ pending' = pending
      /\ toOwner # <<>> /\ toOwner' = Tail(toOwner)
  BY DEF engine, clientVars
<1>2. handle_request(packet, n)
  BY Zenon DEF engine
<1>3. owner \in {"running", "panicked"} /\ assigned_eid \in Byte /\ perform_discovery \in BOOLEAN
  BY DEF ExchangeInv, OwnerState
<1>4. /\ calls \in Seq(CallRecord) /\ toOwner \in Seq(Datagrams) /\ toClient \in Seq(Datagrams)
      /\ got \in Seq(Datagrams)
  BY Zenon DEF ExchangeInv, CallsRecorded, OnTheWay, TaskState
<1>5. /\ toOwner' \in Seq(Datagrams) /\ Len(toOwner') = l - 1
      /\ \A i \in 1..Len(toOwner') : toOwner'[i] = toOwner[i + 1] /\ i + 1 \in 1..l
      /\ \A i \in 1..Len(toOwner') : IsRequest(toOwner'[i], calls)
      /\ d = toOwner[1] /\ 1 \in 1..l
  BY <1>1, OwnerTakes
<1>6. IsRequest(d, calls)
  BY <1>5 DEF ExchangeInv, OnTheWay
<1>7. n \in 1..Len(calls) /\ n \in Nat /\ n # 0 /\ RequestBytes(packet, call)
  <2>1. n \in 1..Len(calls) /\ RequestBytes(packet, call)
    BY <1>6, Zenon DEF IsRequest
  <2> QED
    BY <2>1
<1>8. call \in Call
  <2>1. calls[n] \in CallRecord
    BY <1>4, <1>7
  <2> QED
    BY <2>1 DEF CallRecord
<1>9. /\ l \in Nat /\ g \in Nat /\ m \in Nat /\ x \in Nat /\ Len(calls) \in Nat
      /\ \A i \in 1..l : toOwner[i].of \in Nat
  <2>1. x \in Nat
    BY <1>4
  <2>2. m \in Nat
    BY <2>1, AnswersInType
  <2> QED
    BY <1>4, <2>1, <2>2, DatagramAt
<1>10. /\ \A i \in 1..x : toClient[i].of # 0 => g + AnswersIn(toClient, i) <= 2 * toClient[i].of
       /\ \A i \in 1..l : g + m + i <= 2 * toOwner[i].of
       /\ g + m + l <= 2 * Len(calls)
  BY Zenon DEF ExchangeInv, TwoPerCall
<1> HIDE DEF d, packet, n, call, p, reply, l, g, m
<1>11. \A i \in 1..Len(toOwner') : toOwner'[i].of \in Nat /\ g + (m + 1) + i <= 2 * toOwner'[i].of
  <2> SUFFICES ASSUME NEW i \in 1..Len(toOwner')
               PROVE  toOwner'[i].of \in Nat /\ g + (m + 1) + i <= 2 * toOwner'[i].of
    OBVIOUS
  <2>1. toOwner'[i] = toOwner[i + 1] /\ i + 1 \in 1..l /\ i \in Nat
    BY <1>5
  <2>2. g + m + (i + 1) <= 2 * toOwner[i + 1].of /\ toOwner[i + 1].of \in Nat
    BY <1>9, <1>10, <2>1
  <2> QED
    BY <1>9, <2>1, <2>2
<1>12. g + (m + 1) + Len(toOwner') <= 2 * Len(calls)
  BY <1>5, <1>9, <1>10
<1>13. g + (m + 1) <= 2 * n
  BY <1>5, <1>9, <1>10 DEF n
<1>14. CallsRecorded' /\ TaskState' /\ StaleByHalf'
  BY <1>1 DEF ExchangeInv, CallsRecorded, TaskState, StaleByHalf
<1>15. CASE /\ decodes(packet) /\ command_code(p[3]) # Unknown
            /\ assigned_eid' = IF p[3] = SetEndpointID THEN stored_eid(p) ELSE assigned_eid
            /\ perform_discovery' = (perform_discovery \/ p[3] = DiscoveryNotify)
            /\ \E pec \in PecBytes :
                 toClient' = Append(toClient, Datagram(owner_frame(reply, pec), n))
            /\ UNCHANGED owner
  <2>1. PICK pec \in PecBytes : toClient' = Append(toClient, Datagram(owner_frame(reply, pec), n))
    BY <1>15, Zenon
  <2>2. p[3] = call.cmd /\ (call.cmd = SetEndpointID => p[5] = call.arg)
    <3>1. packet \in Seq(Byte) /\ Len(packet) >= 7 /\ packet[7] = call.cmd
          /\ (call.cmd = SetEndpointID => Len(packet) >= 9 /\ packet[9] = call.arg)
      BY <1>7, Zenon DEF RequestBytes, Routed
    <3>2. p = SubSeq(packet, 4 + 1, Len(packet))
      BY DEF payload_of, TRANSPORT_HDR_SIZE, p
    <3>3. 4 \in Nat /\ 4 <= Len(packet) /\ Len(packet) \in Nat
      BY <3>1
    <3>4. \A i \in 1..(Len(packet) - 4) : p[i] = packet[4 + i]
      BY <3>1, <3>2, <3>3, Cut
    <3> QED
      BY <3>1, <3>3, <3>4
  <2>3. call.cmd \in 0..20
    BY <1>15, <2>2 DEF command_code, KnownCommands
  <2> DEFINE f == owner_frame(reply, pec)
             e == Datagram(f, n)
  <2>4. f \in Seq(Byte) /\ AnswerBytes(frame_body(f), call)
    <3>1. pec \in Byte
      BY ByteConstants
    <3> QED
      BY <1>7, <1>8, <2>3, <3>1, AnswerFrame DEF reply, p
  <2> HIDE DEF f
  <2>5. e \in Datagrams /\ e.of = n /\ e.bytes = f
    BY <1>7, <2>4 DEF Datagram, Datagrams
  <2> HIDE DEF e
  <2>6. toClient' = Append(toClient, e)
    BY <2>1 DEF e, f
  <2>7. IsAnswer(frame_body(e.bytes), e.of, calls)
    BY <1>7, <2>4, <2>5 DEF IsAnswer, call
  <2>8. OwnerState'
    <3>1. assigned_eid' \in Byte
      <4>1. call.arg \in Byte
        BY <1>8 DEF Call
      <4> QED
        BY <1>3, <1>15, <2>2, <4>1 DEF stored_eid
    <3>2. perform_discovery' \in BOOLEAN
      BY <1>15, Zenon
    <3> QED
      BY <1>1, <1>15, <3>1, <3>2 DEF ExchangeInv, OwnerState
  <2>9. /\ toClient' \in Seq(Datagrams) /\ Len(toClient') = x + 1
        /\ toClient'[x + 1] = e /\ \A i \in 1..x : toClient'[i] = toClient[i]
    BY <1>4, <2>5, <2>6, AppendProps
  <2>10. \A i \in 1..(x + 1) : \/ i \in 1..x /\ toClient'[i] = toClient[i]
                               \/ i = x + 1 /\ toClient'[i] = e
    BY <1>9, <2>9
  <2>11. OnTheWay'
    <3>0. /\ \A i \in 1..x :
               \/ IsAnswer(frame_body(toClient[i].bytes), toClient[i].of, calls)
               \/ IsOwnerRequest(frame_body(toClient[i].bytes), toClient[i].of)
          /\ \A i, j \in 1..x : toClient[i].of = 0 /\ toClient[j].of = 0 => i = j
          /\ next_tag = 1 => \A i \in 1..x : toClient[i].of # 0
      BY Zenon DEF ExchangeInv, OnTheWay
    <3>1. \A i \in 1..(x + 1) :
            \/ IsAnswer(frame_body(toClient'[i].bytes), toClient'[i].of, calls')
            \/ IsOwnerRequest(frame_body(toClient'[i].bytes), toClient'[i].of)
      BY <1>1, <2>7, <2>10, <3>0
    <3>2. \A i \in 1..(x + 1) : toClient'[i].of = 0 => i \in 1..x /\ toClient[i].of = 0
      BY <1>7, <2>5, <2>10
    <3> QED
      BY <1>1, <1>5, <2>9, <3>0, <3>1, <3>2 DEF OnTheWay
  <2>12. TwoPerCall'
    <3>1. /\ \A i \in 0..x : AnswersIn(toClient', i) = AnswersIn(toClient, i)
          /\ AnswersIn(toClient', x + 1) = m + 1
      BY <1>4, <1>7, <2>5, <2>6, AnswersInAppend DEF m
    <3>2. \A i \in 1..(x + 1) :
            toClient'[i].of # 0 => g + AnswersIn(toClient', i) <= 2 * toClient'[i].of
      <4> SUFFICES ASSUME NEW i \in 1..(x + 1), toClient'[i].of # 0
                   PROVE  g + AnswersIn(toClient', i) <= 2 * toClient'[i].of
        OBVIOUS
      <4>1. CASE i \in 1..x /\ toClient'[i] = toClient[i]
        <5>1. AnswersIn(toClient', i) = AnswersIn(toClient, i)
          BY <1>9, <3>1, <4>1
        <5> QED
          BY <1>10, <4>1, <5>1
      <4>2. CASE i = x + 1 /\ toClient'[i] = e
        BY <1>13, <2>5, <3>1, <4>2
      <4> QED
        BY <2>10, <4>1, <4>2
    <3> QED
      BY <1>1, <1>11, <1>12, <2>9, <3>1, <3>2 DEF TwoPerCall, g
  <2> QED
    BY <1>14, <2>8, <2>11, <2>12 DEF ExchangeInv
<1>16. CASE owner' = "panicked" /\ UNCHANGED <<assigned_eid, perform_discovery, toClient>>
  <2>1. OwnerState'
    BY <1>1, <1>16 DEF ExchangeInv, OwnerState
  <2>2. OnTheWay'
    BY <1>1, <1>5, <1>16 DEF ExchangeInv, OnTheWay
  <2>3. TwoPerCall'
    <3>1. \A i \in 1..Len(toOwner') : g + m + i <= 2 * toOwner'[i].of
      BY <1>9, <1>11
    <3>2. g + m + Len(toOwner') <= 2 * Len(calls)
      BY <1>5, <1>9, <1>12
    <3> QED
      BY <1>1, <1>10, <1>16, <3>1, <3>2 DEF TwoPerCall, g, m
  <2> QED
    BY <1>14, <2>1, <2>2, <2>3 DEF ExchangeInv
<1> QED
  BY <1>2, <1>15, <1>16, Zenon DEF handle_request, p, reply

\* Every step keeps the invariant.
LEMMA ExchangeInductive ==
  ASSUME ExchangeInv, [Next]_vars
  PROVE  ExchangeInv'
<1>1. CASE UNCHANGED vars
  BY <1>1 DEF vars, clientVars, ownerVars, ExchangeInv, CallsRecorded, TaskState, OwnerState,
     OnTheWay, TwoPerCall, StaleByHalf
<1> QED
  BY <1>1, SendInv, CallbackInv, EngineInv, OwnerLoopInv, LoseInv DEF Next

-----------------------------------------------------------------------------
(* The theorems.                                                           *)

\* What both programs' bytes are, as long as they run.
LEMMA ExchangeInvariant == Spec => []ExchangeInv
<1>1. Init => ExchangeInv
  BY InvInit
<1>2. ExchangeInv /\ [Next]_vars => ExchangeInv'
  BY ExchangeInductive
<1> QED
  BY <1>1, <1>2, PTL DEF Spec

\* The datagrams whose fields the task reads.
LEMMA AnswersCases ==
  ASSUME ExchangeInv, NEW d \in Answers
  PROVE  IsAnswer(d.bytes, d.of, calls) \/ IsOwnerRequest(d.bytes, d.of)
<1>1. CASE \E i \in 1..Len(toClient) :
             d = Datagram(frame_body(toClient[i].bytes), toClient[i].of)
  <2>1. PICK i \in 1..Len(toClient) : d = Datagram(frame_body(toClient[i].bytes), toClient[i].of)
    BY <1>1, Zenon
  <2>2. d.bytes = frame_body(toClient[i].bytes) /\ d.of = toClient[i].of
    BY <2>1 DEF Datagram
  <2>3. \/ IsAnswer(frame_body(toClient[i].bytes), toClient[i].of, calls)
        \/ IsOwnerRequest(frame_body(toClient[i].bytes), toClient[i].of)
    BY Zenon DEF ExchangeInv, OnTheWay
  <2> QED
    BY <2>2, <2>3, Zenon
<1>2. CASE \E i \in 1..Len(got) : d = got[i]
  <2>1. PICK i \in 1..Len(got) : d = got[i]
    BY <1>2, Zenon
  <2> QED
    BY <2>1, Zenon DEF ExchangeInv, TaskState
<1> QED
  BY <1>1, <1>2, Zenon DEF Answers

\* Types of the task, the owner and the datagrams: whatever the counters and
\* arguments, what goes over the wire are bytes (smbus_netdev.rs:117,
\* base/models.rs, control/models.rs).
THEOREM ExchangeTypeCorrect == Spec => []ExchangeTypeOK
<1>1. ExchangeInv => ExchangeTypeOK
  <2> SUFFICES ASSUME ExchangeInv PROVE ExchangeTypeOK
    OBVIOUS
  <2>1. /\ client \in {"idle", "waiting", "panicked"}
        /\ owner \in {"running", "panicked"}
        /\ flows \in Seq([tag : MsgFlowTag, id : 1..MaxCalls])
        /\ pending \in Seq([tag : MsgFlowTag, id : Byte])
        /\ assigned_eid \in Byte /\ perform_discovery \in BOOLEAN
    BY Zenon DEF ExchangeInv, TaskState, OwnerState
  <2>2. next_tag \in Byte
    BY DEF ExchangeInv, OwnerState, Byte
  <2>3. Len(calls) \in Nat /\ toOwner \in Seq(Datagrams) /\ toClient \in Seq(Datagrams)
    BY DEF ExchangeInv, CallsRecorded, OnTheWay
  <2>4. ASSUME NEW d \in Answers PROVE d.bytes \in Seq(Byte) /\ d.of \in 0..Len(calls)
    <3>1. CASE IsAnswer(d.bytes, d.of, calls)
      BY <2>3, <3>1 DEF IsAnswer, AnswerBytes, Routed
    <3>2. CASE IsOwnerRequest(d.bytes, d.of)
      BY <2>3, <3>2 DEF IsOwnerRequest
    <3> QED
      BY <3>1, <3>2, AnswersCases
  <2>5. \A i \in 1..Len(toOwner) : toOwner[i].bytes \in Seq(Byte) /\ toOwner[i].of \in 0..Len(calls)
    <3> SUFFICES ASSUME NEW i \in 1..Len(toOwner)
                 PROVE  toOwner[i].bytes \in Seq(Byte) /\ toOwner[i].of \in 0..Len(calls)
      OBVIOUS
    <3>1. toOwner[i].of \in 1..Len(calls)
      BY DEF ExchangeInv, OnTheWay, IsRequest
    <3> QED
      BY <2>3, <3>1, DatagramAt
  <2>6. \A i \in 1..Len(toClient) : toClient[i].bytes \in Seq(Byte) /\ toClient[i].of \in 0..Len(calls)
    <3> SUFFICES ASSUME NEW i \in 1..Len(toClient)
                 PROVE  toClient[i].bytes \in Seq(Byte) /\ toClient[i].of \in 0..Len(calls)
      OBVIOUS
    <3>1. toClient[i].of \in 1..Len(calls) \/ toClient[i].of = 0
      BY Zenon DEF ExchangeInv, OnTheWay, IsAnswer, IsOwnerRequest
    <3> QED
      BY <2>3, <3>1, DatagramAt
  <2>7. \A d \in Wire \cup Answers : d.bytes \in Seq(Byte) /\ d.of \in 0..Len(calls)
    BY <2>4, <2>5, <2>6, Zenon DEF Wire
  <2> QED
    BY <2>1, <2>2, <2>7, Zenon DEF ExchangeTypeOK
<1> QED
  BY <1>1, ExchangeInvariant, PTL

\* Through both encodings and decodings an answer belongs to its request and
\* carries the fields handle_request sets for its command (EID 0 for every
\* GetEndpointID): for every command, instance id, argument and tag
\* (base/models.rs, control/models.rs, basic_bus_owner_loop.rs:291-374).
THEOREM AnswersBelong == Spec => []AnswerBelongs
<1>1. ExchangeInv => AnswerBelongs
  <2> SUFFICES ASSUME ExchangeInv, NEW d \in Answers, d.of # 0
               PROVE  LET call == calls[d.of].call
                          p == payload_of(d.bytes)
                      IN  /\ tag_of(d.bytes) = create_response(tag_of(calls[d.of].packet))
                          /\ rq(p) = 0 /\ instance_id(p) = call.instance % 32 /\ p[3] = call.cmd
                          /\ ReplyFields(call, p)
    BY Zenon DEF AnswerBelongs
  <2>1. d.of \in 1..Len(calls) /\ AnswerBytes(d.bytes, calls[d.of].call)
    BY AnswersCases, Zenon DEF IsAnswer, IsOwnerRequest
  <2>2. /\ calls \in Seq(CallRecord)
        /\ RequestBytes(calls[d.of].packet, calls[d.of].call)
    BY <2>1, Zenon DEF ExchangeInv, CallsRecorded
  <2>3. calls[d.of].call \in Call
    <3>1. calls[d.of] \in CallRecord
      BY <2>1, <2>2
    <3> QED
      BY <3>1 DEF CallRecord
  <2>4. tag_of(d.bytes) = create_response(tag_of(calls[d.of].packet))
    BY <2>1, <2>2, AnswerTag, Zenon
  <2> QED
    BY <2>1, <2>3, <2>4, AnswerFields, Zenon
<1> QED
  BY <1>1, ExchangeInvariant, PTL

\* Neither end takes a request for an answer, whatever tags and EIDs the owner's
\* counter and the client have (simple_network.rs:158,
\* basic_bus_owner_loop.rs:528).
THEOREM NoRequestIsTaken == Spec => []RequestsAreNotAnswers
<1>1. ExchangeInv => RequestsAreNotAnswers
  <2> SUFFICES ASSUME ExchangeInv PROVE RequestsAreNotAnswers
    OBVIOUS
  <2>1. ASSUME NEW i \in 1..Len(toOwner)
        PROVE  no_match(pending, tag_of(frame_body(toOwner[i].bytes)))
    <3>1. RequestBytes(frame_body(toOwner[i].bytes), calls[toOwner[i].of].call)
      BY Zenon DEF ExchangeInv, OnTheWay, IsRequest
    <3>2. Owned(tag_of(frame_body(toOwner[i].bytes)))
      BY <3>1, RequestTag, Zenon
    <3>3. \A j \in 1..Len(pending) : Owned(pending[j].tag)
      BY Zenon DEF ExchangeInv, OwnerState
    <3> QED
      BY <3>2, <3>3, OwnedNoMatch, Zenon
  <2>2. ASSUME NEW i \in 1..Len(got) PROVE got[i].of # 0
    <3>1. got[i].of \in 1..Len(calls)
      BY Zenon DEF ExchangeInv, TaskState, IsAnswer
    <3> QED
      BY <3>1
  <2> QED
    BY <2>1, <2>2, Zenon DEF RequestsAreNotAnswers
<1> QED
  BY <1>1, ExchangeInvariant, PTL

\* A call is never completed by the answer to one before the first half of the
\* calls, however many are made and whatever is lost (smbus_netdev.rs:128,
\* simple_network.rs:158).
THEOREM AnswersAreHalfFresh == Spec => []StaleByHalf
<1>1. ExchangeInv => StaleByHalf
  BY DEF ExchangeInv
<1> QED
  BY <1>1, ExchangeInvariant, PTL

\* Frames go where the call said, for every address validate_smbus_address
\* accepts, from exactly the address set_address left in the binding: its own,
\* or 0 when that is reserved (smbus_netdev.rs:62, 85, 117).  The length byte is
\* the one this end writes, without the PEC byte.
THEOREM FramesAreAddressed == Spec => []AddressedAsAsked
<1>1. ExchangeInv => AddressedAsAsked
  <2> SUFFICES ASSUME ExchangeInv, NEW i \in 1..Len(toOwner)
               PROVE  LET f == toOwner[i].bytes
                      IN  /\ f[1] = 2 * calls[toOwner[i].of].phy_addr
                          /\ f[4] \div 2 = set_address(OwnAddr) /\ bits(f[4], 0, 0) = 1
                          /\ f[3] = Len(f) - SMBUS_HDR_SIZE - 1
    BY Zenon DEF AddressedAsAsked
  <2>1. Addressed(toOwner[i].bytes, calls[toOwner[i].of].phy_addr)
    BY Zenon DEF ExchangeInv, OnTheWay, IsRequest
  <2> QED
    BY <2>1, Zenon DEF Addressed
<1> QED
  BY <1>1, ExchangeInvariant, PTL
=============================================================================
