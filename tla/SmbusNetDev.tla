---------------------------- MODULE SmbusNetDev ----------------------------
(***************************************************************************)
(* SmbusNetDevBinding (src/phys/smbus_netdev.rs): SMBus frames over a      *)
(* connected UDP socket.  transmit sends on the caller's task; bind starts *)
(* a poll_socket task that moves datagrams from the socket into the        *)
(* network's bounded callback channel.                                     *)
(***************************************************************************)
EXTENDS WireFormat

CONSTANTS
  ReqIds,     \* identities of the messages handed to transmit
  Pollers,    \* poll_socket tasks, one per call of NetworkBinding::bind
  RxCap,      \* capacity of the callback channel (32 in the source)
  SockCap,    \* datagrams the kernel keeps for the socket
  NewAddrs,   \* addresses passed to SmbusNetDevBinding::new
  Faults      \* which failures of the environment a run includes

FaultKinds == {"send", "recv", "loss", "noise", "cancel"}

ASSUME SmbusNetDevAssumption ==
  /\ ReqIds \subseteq Nat \ {0}
  /\ RxCap \in Nat \ {0}
  /\ SockCap \in Nat \ {0}
  /\ NewAddrs \subseteq Eid
  /\ Faults \subseteq FaultKinds

VARIABLES
  address,  \* SmbusNetDevBinding.address, 7-bit source address of frames
  poll,     \* poll[p]: where poll_socket task p is
  pollBuf,  \* pollBuf[p]: the datagram p holds between recv_from and send
  sock,     \* datagrams in the receive buffer of the UDP socket
  wire,     \* wire[r]: copies of message r on their way to the peer
  rxq,      \* the mpsc channel of NetworkBindingCallbackMsg
  rxOpen    \* its receiver, owned by callback_handler, still exists

devVars == <<address, poll, pollBuf, sock, wire, rxq, rxOpen>>

\* A datagram from the peer.  ans is the message it answers, 0 for none; the
\* program never sees it.
Frame == [len : Lengths, tag : MsgFlowTag, ans : ReqIds \cup {0}]

NoFrame == [len |-> "empty", tag |-> default_tag, ans |-> 0]

-----------------------------------------------------------------------------
\* The binding as new() returns it: a socket, and no polling task yet.
DevInit ==
  /\ address \in {set_address(a) : a \in NewAddrs}
  /\ poll = [p \in Pollers |-> "unbound"]
  /\ pollBuf = [p \in Pollers |-> NoFrame]
  /\ sock = <<>>
  /\ wire = [r \in ReqIds |-> 0]
  /\ rxq = <<>>
  /\ rxOpen = TRUE

\* transmit, with its result.  The frame is offered to the socket twice and
\* only the second try_send decides the result; either may fail without
\* sending (WouldBlock, ConnectionRefused).  256 bytes and more reach a todo!().
transmit(r, phy_addr, oversize, result) ==
  /\ IF ~validate_smbus_address(phy_addr) \/ oversize
     THEN /\ result = IF validate_smbus_address(phy_addr) THEN "panic" ELSE "Err"
          /\ UNCHANGED wire
     ELSE \E first, second \in {0, 1} :
            /\ "send" \notin Faults => first = 1 /\ second = 1
            /\ wire' = [wire EXCEPT ![r] = @ + first + second]
            /\ result = IF second = 1 THEN "Ok" ELSE "Err"
  /\ UNCHANGED <<address, poll, pollBuf, sock, rxq, rxOpen>>

TransmitResults == {"Ok", "Err", "panic"}

\* NetworkBinding::bind spawns poll_socket.
spawn_poll(p) ==
  /\ poll' = [poll EXCEPT ![p] = "recv"]
  /\ UNCHANGED <<address, pollBuf, sock, wire, rxq, rxOpen>>

\* recv_from returns a datagram; an empty one is not passed on.
poll_socket_recv(p) ==
  /\ poll[p] = "recv"
  /\ sock # <<>>
  /\ sock' = Tail(sock)
  /\ IF Head(sock).len = "empty"
     THEN UNCHANGED <<poll, pollBuf>>
     ELSE /\ poll' = [poll EXCEPT ![p] = "send"]
          /\ pollBuf' = [pollBuf EXCEPT ![p] = Head(sock)]
  /\ UNCHANGED <<address, wire, rxq, rxOpen>>

\* Mutants of poll_socket_send: try_send, whose error is ignored; a channel
\* without bound.
poll_socket_try_send(p) ==
  /\ poll[p] = "send"
  /\ rxq' = IF rxOpen /\ Len(rxq) < RxCap THEN Append(rxq, pollBuf[p]) ELSE rxq
  /\ poll' = [poll EXCEPT ![p] = "recv"]
  /\ pollBuf' = [pollBuf EXCEPT ![p] = NoFrame]
  /\ UNCHANGED <<address, sock, wire, rxOpen>>

poll_socket_send_unbounded(p) ==
  /\ poll[p] = "send"
  /\ rxq' = IF rxOpen THEN Append(rxq, pollBuf[p]) ELSE rxq
  /\ poll' = [poll EXCEPT ![p] = "recv"]
  /\ pollBuf' = [pollBuf EXCEPT ![p] = NoFrame]
  /\ UNCHANGED <<address, sock, wire, rxOpen>>

\* rx_callback.send(cmd).await waits for room.  Its error, when the receiver
\* is gone, is ignored and the datagram is lost.
poll_socket_send(p) ==
  /\ poll[p] = "send"
  /\ \/ rxOpen /\ Len(rxq) < RxCap /\ rxq' = Append(rxq, pollBuf[p])
     \/ ~rxOpen /\ UNCHANGED rxq
  /\ poll' = [poll EXCEPT ![p] = "recv"]
  /\ pollBuf' = [pollBuf EXCEPT ![p] = NoFrame]
  /\ UNCHANGED <<address, sock, wire, rxOpen>>

\* recv_from fails (an ICMP error on the connected socket): unwrap panics.
poll_socket_panic(p) ==
  /\ "recv" \in Faults
  /\ poll[p] = "recv"
  /\ poll' = [poll EXCEPT ![p] = "panicked"]
  /\ UNCHANGED <<address, pollBuf, sock, wire, rxq, rxOpen>>

poll_socket(p) == poll_socket_recv(p) \/ poll_socket_send(p) \/ poll_socket_panic(p)

-----------------------------------------------------------------------------
(* The UDP path and the peer (external).                                   *)

\* A datagram reaches the socket; a full buffer drops it.
arrive(f) ==
  sock' = IF Len(sock) < SockCap THEN Append(sock, f) ELSE sock

\* The peer answers one copy of request r, whose tag is hdr, the way
\* create_response does.
peer_answers(r, hdr) ==
  /\ wire[r] > 0
  /\ wire' = [wire EXCEPT ![r] = @ - 1]
  /\ arrive([len |-> "full", tag |-> create_response(hdr), ans |-> r])
  /\ UNCHANGED <<address, poll, pollBuf, rxq, rxOpen>>

\* A copy, or its answer, is lost.
peer_loses(r) ==
  /\ "loss" \in Faults
  /\ wire[r] > 0
  /\ wire' = [wire EXCEPT ![r] = @ - 1]
  /\ UNCHANGED <<address, poll, pollBuf, sock, rxq, rxOpen>>

\* The peer sends something that answers nothing: a truncated datagram or a
\* request of its own.
peer_sends(f) ==
  /\ "noise" \in Faults
  /\ Len(sock) < SockCap
  /\ arrive(f)
  /\ UNCHANGED <<address, poll, pollBuf, wire, rxq, rxOpen>>
=============================================================================
