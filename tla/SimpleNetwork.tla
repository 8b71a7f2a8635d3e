--------------------------- MODULE SimpleNetwork ---------------------------
(***************************************************************************)
(* SimpleNetwork (src/network/simple_network.rs): tasks call sendto        *)
(* concurrently on one network with one physical binding; a                *)
(* callback_handler task pairs what poll_socket receives with the pending  *)
(* flows and wakes the sendto waiting for it.                              *)
(*                                                                         *)
(* Steps follow the locks and the await points.  A sendto                  *)
(*   builds its header from the client   (sendto_build)                    *)
(*   pushes a flow under the flows mutex (sendto_track)                    *)
(*   asks for the binding's async mutex, which is granted in FIFO order    *)
(*   (sendto_lock), transmits as its owner (sendto_transmit, inside        *)
(*   sendto_lock when the mutex is free)                                   *)
(*   awaits the oneshot channel still holding the mutex (sendto_return).   *)
(* A panic kills the task it occurs in; dropping a pending sendto future   *)
(* (a timeout or select around the call) is sendto_cancel.                 *)
(***************************************************************************)
EXTENDS SmbusNetDev, SocketTable

CONSTANTS
  MaxReq,     \* bound on the sendto calls that get as far as a flow
  Addrs,      \* the SocketAddress arguments of sendto
  PhyAddrs,   \* their phy_addr
  Oversize,   \* {FALSE}, or BOOLEAN when payloads of 256 bytes are included
  Noise,      \* datagrams the peer sends on its own
  Free        \* the binding mutex is not held

ASSUME SimpleNetworkAssumption ==
  /\ MaxReq \in Nat
  /\ ReqIds = 1..MaxReq
  /\ Addrs \subseteq [extended : BOOLEAN, address : Eid, binding_id : Nat]
  /\ PhyAddrs \subseteq Nat
  /\ Oversize \subseteq BOOLEAN
  /\ Noise \subseteq [len : Lengths, tag : MsgFlowTag, ans : {0}]
  /\ Callers \cap Pollers = {} /\ IsFiniteSet(Pollers)
  /\ Free \notin Callers \cup Pollers

VARIABLES
  flows,     \* Mutex<MctpFlowList>: pending flows, oldest first
  poisoned,  \* the flows mutex is poisoned
  lock,      \* owner of the binding's tokio Mutex
  waiters,   \* the tasks queued for it
  pc,        \* pc[c]: where the sendto of task c is
  cur,       \* cur[c]: its request, 0 when there is none
  reqs,      \* reqs[r]: the tag of request r, one per sendto so far
  chan,      \* chan[r]: state of the oneshot channel of request r
  got,       \* got[r]: the datagram sent into that channel
  handler    \* callback_handler is running or has panicked

netVars == <<flows, poisoned, lock, waiters, pc, cur, reqs, chan, got, handler>>
vars == <<devVars, tableVars, netVars>>

Tasks == Callers \cup Pollers

\* A pending flow: its tag and the sending half of the oneshot channel.
MctpFlow == [tag : MsgFlowTag, id : ReqIds]

-----------------------------------------------------------------------------
\* new(): the handler task is spawned, nothing is bound or pending.
Init ==
  /\ DevInit
  /\ TableInit
  /\ flows = <<>>
  /\ poisoned = FALSE
  /\ lock = Free
  /\ waiters = <<>>
  /\ pc = [c \in Callers |-> "idle"]
  /\ cur = [c \in Callers |-> 0]
  /\ reqs = <<>>
  /\ chan = [r \in ReqIds |-> "unused"]
  /\ got = [r \in ReqIds |-> NoFrame]
  /\ handler = "running"

\* Mutant of release: nobody is woken.
release_without_wakeup(queue) == lock' = Free /\ waiters' = queue

\* The owner of the binding mutex lets go: it passes to the longest waiter.
release(queue) ==
  IF queue = <<>>
  THEN lock' = Free /\ waiters' = queue
  ELSE lock' = Head(queue) /\ waiters' = Tail(queue)

\* sendto is over for c: back to the caller, or its task unwinds.
finish(c, where) ==
  /\ pc' = [pc EXCEPT ![c] = where]
  /\ cur' = [cur EXCEPT ![c] = 0]

\* The task is not inside a call.
Idle(c) == pc[c] = "idle" /\ OutsideBind(c)

socket_call(c) ==
  /\ pc[c] = "idle"
  /\ socket(c)
  /\ UNCHANGED <<devVars, netVars>>

bind_call(c) ==
  /\ pc[c] = "idle"
  /\ bind(c)
  /\ UNCHANGED <<devVars, netVars>>

\* sendto ends before it creates anything: a Basic address is a todo!();
\* get_binding accepts only id 1 and get_client needs a bound descriptor,
\* otherwise an error is returned and nothing changes.
sendto_refuse(c, s, addr) ==
  /\ Idle(c)
  /\ \/ ~addr.extended /\ finish(c, "panicked")
     \/ /\ addr.extended
        /\ addr.binding_id # 1 \/ ~get_client(s)
        /\ UNCHANGED <<pc, cur>>
  /\ UNCHANGED <<devVars, tableVars, flows, poisoned, lock, waiters, reqs, chan, got,
                 handler>>

\* The header is built from the client's address and tag; the tag of the
\* flow is read back from it.  The oneshot channel is created.
sendto_build(c, s, addr) ==
  /\ Idle(c)
  /\ addr.extended /\ addr.binding_id = 1 /\ get_client(s)
  /\ Len(reqs) < MaxReq
  /\ LET client == clients[s]
         r == Len(reqs) + 1
     IN  /\ reqs' = Append(reqs, new_header(client.address, addr.address,
                                            client.tag, TRUE))
         /\ cur' = [cur EXCEPT ![c] = r]
         /\ chan' = [chan EXCEPT ![r] = "open"]
  /\ pc' = [pc EXCEPT ![c] = "track"]
  /\ UNCHANGED <<devVars, tableVars, flows, poisoned, lock, waiters, got, handler>>

\* Mutant of sendto_track: a flow for each of the two frames transmit sends.
sendto_track_both(c) ==
  /\ pc[c] = "track"
  /\ ~poisoned
  /\ flows' = LET flow == [tag |-> reqs[cur[c]], id |-> cur[c]]
              IN  flows \o <<flow, flow>>
  /\ pc' = [pc EXCEPT ![c] = "lock"]
  /\ UNCHANGED <<devVars, tableVars, cur, chan, poisoned, lock, waiters, reqs, got, handler>>

\* flows.lock().unwrap().push(...): a poisoned mutex panics the task, and
\* the channel goes with it.
sendto_track(c) ==
  /\ pc[c] = "track"
  /\ IF poisoned
     THEN /\ finish(c, "panicked")
          /\ chan' = [chan EXCEPT ![cur[c]] = "dropped"]
          /\ UNCHANGED flows
     ELSE /\ flows' = Append(flows, [tag |-> reqs[cur[c]], id |-> cur[c]])
          /\ pc' = [pc EXCEPT ![c] = "lock"]
          /\ UNCHANGED <<cur, chan>>
  /\ UNCHANGED <<devVars, tableVars, poisoned, lock, waiters,
                 reqs, got, handler>>

\* The owner transmits.  Any result but Ok ends in a panic (unwrap, todo!):
\* the task dies, the mutex passes on, the receiving half of the channel is
\* gone, and the flow stays in the list.
transmit_as_owner(c, queue) ==
  \E phy_addr \in PhyAddrs, oversize \in Oversize, result \in TransmitResults :
    /\ transmit(cur[c], phy_addr, oversize, result)
    /\ IF result = "Ok"
       THEN /\ lock' = c /\ waiters' = queue
            /\ pc' = [pc EXCEPT ![c] = "await"]
            /\ UNCHANGED <<cur, chan>>
       ELSE /\ release(queue)
            /\ finish(c, "panicked")
            /\ chan' = [chan EXCEPT ![cur[c]] = "dropped"]

\* binding_handle.lock().await, first poll: taken at once, or queued.
sendto_lock(c) ==
  /\ pc[c] = "lock"
  /\ IF lock = Free
     THEN transmit_as_owner(c, waiters)
     ELSE /\ waiters' = Append(waiters, c)
          /\ pc' = [pc EXCEPT ![c] = "queued"]
          /\ UNCHANGED <<devVars, lock, cur, chan>>
  /\ UNCHANGED <<tableVars, flows, poisoned, reqs, got, handler>>

\* The mutex was passed to c.
sendto_transmit(c) ==
  /\ pc[c] = "queued"
  /\ lock = c
  /\ transmit_as_owner(c, waiters)
  /\ UNCHANGED <<tableVars, flows, poisoned, reqs, got, handler>>

\* Mutant of sendto_return: the guard of the mutex outlives the call.
sendto_return_locked(c) ==
  /\ pc[c] = "await"
  /\ chan[cur[c]] = "sent"
  /\ chan' = [chan EXCEPT ![cur[c]] = "taken"]
  /\ finish(c, "idle")
  /\ UNCHANGED <<devVars, tableVars, flows, poisoned, lock,
                 waiters, reqs, got, handler>>

\* resp_rx.await yields the answer; returning drops the mutex guard.
sendto_return(c) ==
  /\ pc[c] = "await"
  /\ chan[cur[c]] = "sent"
  /\ chan' = [chan EXCEPT ![cur[c]] = "taken"]
  /\ finish(c, "idle")
  /\ release(waiters)
  /\ UNCHANGED <<devVars, tableVars, flows, poisoned, reqs, got,
                 handler>>

\* Mutant of sendto_cancel: a queued call stays in the queue of the mutex.
sendto_cancel_still_queued(c) ==
  /\ "cancel" \in Faults
  /\ pc[c] \in {"queued", "await"}
  /\ chan' = [chan EXCEPT ![cur[c]] = "dropped"]
  /\ finish(c, "idle")
  /\ IF lock = c THEN release(waiters) ELSE UNCHANGED <<lock, waiters>>
  /\ UNCHANGED <<devVars, tableVars, flows, poisoned, reqs, got,
                 handler>>

\* The caller drops the future at an await point.
sendto_cancel(c) ==
  /\ "cancel" \in Faults
  /\ pc[c] \in {"queued", "await"}
  /\ chan' = [chan EXCEPT ![cur[c]] = "dropped"]
  /\ finish(c, "idle")
  /\ IF lock = c
     THEN release(waiters)
     ELSE /\ \E i \in 1..Len(waiters) :
               waiters[i] = c /\ waiters' = RemoveAt(waiters, i)
          /\ UNCHANGED lock
  /\ UNCHANGED <<devVars, tableVars, flows, poisoned, reqs, got,
                 handler>>

\* add_physical_binding takes the same mutex to start poll_socket, and lets
\* go of it at once.
add_physical_binding(p) ==
  /\ poll[p] = "unbound"
  /\ lock \in {Free, p}
  /\ spawn_poll(p)
  /\ IF lock = p THEN release(waiters) ELSE UNCHANGED <<lock, waiters>>
  /\ UNCHANGED <<tableVars, flows, poisoned, pc, cur, reqs, chan, got, handler>>

add_physical_binding_queue(p) ==
  /\ poll[p] = "unbound"
  /\ lock \notin {Free, p}
  /\ p \notin {waiters[i] : i \in 1..Len(waiters)}
  /\ waiters' = Append(waiters, p)
  /\ UNCHANGED <<devVars, tableVars, flows, poisoned, lock, pc, cur, reqs, chan, got, handler>>

-----------------------------------------------------------------------------
\* callback_handler takes the next datagram.  A runt has no SMBus header and
\* is skipped; one that answers no flow is dropped with a warning.
callback_handler_skip ==
  /\ handler = "running"
  /\ rxq # <<>>
  /\ \/ Head(rxq).len = "runt"
     \/ no_match(flows, create_tag(Head(rxq)))
  /\ rxq' = Tail(rxq)
  /\ UNCHANGED <<address, poll, pollBuf, sock, wire, rxOpen, tableVars, netVars>>

\* What a match does to the flow list, the channel and the handler, when the
\* flow list becomes rest.
deliver(r, rest, delivered) ==
  /\ flows' = rest
  /\ IF delivered
     THEN /\ chan' = [chan EXCEPT ![r] = "sent"]
          /\ got' = [got EXCEPT ![r] = Head(rxq)]
          /\ rxq' = Tail(rxq)
          /\ UNCHANGED <<handler, poisoned, rxOpen>>
     ELSE /\ handler' = "panicked"
          /\ poisoned' = TRUE
          /\ rxOpen' = FALSE
          /\ rxq' = <<>>
          /\ UNCHANGED <<chan, got>>

\* Mutants of resolve: the flow stays in the list; the newest flow is popped
\* instead.
resolve_keep(i) ==
  deliver(flows[i].id, flows, chan[flows[i].id] = "open")
resolve_pop(i) ==
  deliver(flows[i].id, Front(flows), chan[flows[i].id] = "open")

\* flows.remove(i), then resp.send(response): it fails when the receiving half
\* is gone.
resolve(i) ==
  deliver(flows[i].id, RemoveAt(flows, i), chan[flows[i].id] = "open")

\* The first matching flow is removed and the datagram sent into its channel,
\* all under the flows mutex.  When the receiving half is gone, unwrap panics:
\* the mutex is poisoned and the task ends, dropping the channel's receiver.
callback_handler_match ==
  /\ handler = "running"
  /\ rxq # <<>>
  /\ Head(rxq).len # "runt"
  /\ \E i \in 1..Len(flows) :
       is_first_match(flows, i, create_tag(Head(rxq))) /\ resolve(i)
  /\ UNCHANGED <<address, poll, pollBuf, sock, wire, tableVars, lock, waiters,
                 pc, cur, reqs>>

callback_handler == callback_handler_skip \/ callback_handler_match

-----------------------------------------------------------------------------
sendto(c) ==
  \/ \E s \in Descriptors, addr \in Addrs :
       sendto_refuse(c, s, addr) \/ sendto_build(c, s, addr)
  \/ sendto_track(c)
  \/ sendto_lock(c)
  \/ sendto_transmit(c)
  \/ sendto_return(c)
  \/ sendto_cancel(c)

PollTask(p) ==
  /\ poll_socket(p)
  /\ UNCHANGED <<tableVars, netVars>>

Attach(p) == add_physical_binding(p) \/ add_physical_binding_queue(p)

peer_answers_call(r) ==
  /\ r <= Len(reqs)
  /\ peer_answers(r, reqs[r])
  /\ UNCHANGED <<tableVars, netVars>>

Peer ==
  \/ \E r \in ReqIds : peer_answers_call(r)
  \/ /\ \/ \E r \in ReqIds : peer_loses(r)
        \/ \E f \in Noise : peer_sends(f)
     /\ UNCHANGED <<tableVars, netVars>>

Next ==
  \/ \E c \in Callers :
       \/ socket_call(c)
       \/ bind_call(c)
       \/ sendto(c)
  \/ \E p \in Pollers : Attach(p) \/ PollTask(p)
  \/ callback_handler
  \/ Peer

Spec == Init /\ [][Next]_vars

\* What the runtime guarantees: a task that can run is run, an
\* add_physical_binding that was passed the mutex too.  A caller is free never
\* to call, and the peer free never to send anything of its own.
Fairness ==
  /\ \A c \in Callers :
       WF_vars(sendto_track(c) \/ sendto_lock(c) \/ sendto_transmit(c) \/ sendto_return(c))
  /\ \A p \in Pollers : WF_vars(lock = p /\ add_physical_binding(p)) /\ WF_vars(PollTask(p))
  /\ WF_vars(callback_handler)
  /\ \A r \in ReqIds : WF_vars(peer_answers_call(r))

FairSpec == Spec /\ Fairness

-----------------------------------------------------------------------------
\* Types, and the two bounds the kernel and the callback channel enforce: the
\* receive buffer holds SockCap datagrams and the channel of poll_socket RxCap.
TypeOK ==
  /\ address \in Eid
  /\ poll \in [Pollers -> {"unbound", "recv", "send", "panicked"}]
  /\ pollBuf \in [Pollers -> Frame]
  /\ sock \in Seq(Frame) /\ Len(sock) <= SockCap
  /\ wire \in [ReqIds -> Nat]
  /\ rxq \in Seq(Frame) /\ Len(rxq) <= RxCap
  /\ rxOpen \in BOOLEAN
  /\ TableTypeOK
  /\ flows \in Seq(MctpFlow)
  /\ poisoned \in BOOLEAN
  /\ lock \in Tasks \cup {Free}
  /\ waiters \in Seq(Tasks)
  /\ pc \in [Callers -> {"idle", "track", "lock", "queued", "await", "panicked"}]
  /\ cur \in [Callers -> ReqIds \cup {0}]
  /\ reqs \in Seq(MsgFlowTag) /\ Len(reqs) <= MaxReq
  /\ chan \in [ReqIds -> {"unused", "open", "sent", "taken", "dropped"}]
  /\ got \in [ReqIds -> Frame]
  /\ handler \in {"running", "panicked"}

\* Calls between the push of their flow and their return.
Tracked(c) == pc[c] \in {"lock", "queued", "await"}

PendingIds == {flows[i].id : i \in 1..Len(flows)}

\* The flow list and the oneshot channels agree (simple_network.rs:168-170,
\* 271): every call in progress either has its flow in the list and an open
\* channel, or was answered and has no flow, never both and never neither; no
\* call has two flows; a flow of a finished call is one that was abandoned.
FlowAccounting ==
  /\ \A i, j \in 1..Len(flows) : flows[i].id = flows[j].id => i = j
  /\ \A c \in Callers : Tracked(c) =>
       \/ chan[cur[c]] = "open" /\ cur[c] \in PendingIds
       \/ chan[cur[c]] = "sent" /\ cur[c] \notin PendingIds
  /\ \A r \in PendingIds :
       \/ chan[r] = "dropped"
       \/ \E c \in Callers : Tracked(c) /\ cur[c] = r

\* The unwrap of simple_network.rs:170 fails only when some call was abandoned
\* after its flow was pushed (the future dropped, or transmit not Ok); and the
\* flows mutex is poisoned exactly when the handler is dead, so that a call
\* that gets past line 271 has had a living handler.
HandlerPanicNeedsAbandon ==
  /\ handler = "panicked" => \E r \in ReqIds : chan[r] = "dropped"
  /\ poisoned <=> handler = "panicked"
  /\ rxOpen <=> handler = "running"

\* Answers do not cross keys (simple_network.rs:158-160): when sendto is given
\* an answer of the peer to some request, it is to a request with the same
\* destination EID and 3-bit tag, whatever was lost, duplicated or reordered.
KeyIsolation ==
  \A r \in ReqIds :
    chan[r] \in {"sent", "taken"} /\ got[r].ans # 0 =>
      flow_key(reqs[got[r].ans]) = flow_key(reqs[r])

\* The binding mutex (simple_network.rs:276, 293) is never lost or shared:
\* only its owner awaits an answer; it is free only when nobody waits for it;
\* a task is queued once, and its owner is not queued.  A panic, a
\* cancellation and an attach all pass it on.
LockDiscipline ==
  /\ lock = Free => waiters = <<>>
  /\ \A c \in Callers :
       /\ pc[c] = "await" => lock = c
       /\ lock = c => pc[c] \in {"queued", "await"}
       /\ pc[c] = "queued" <=> \/ lock = c /\ pc[c] # "await"
                              \/ \E i \in 1..Len(waiters) : waiters[i] = c
  /\ \A i, j \in 1..Len(waiters) : waiters[i] = waiters[j] => i = j
  /\ \A i \in 1..Len(waiters) : waiters[i] # lock

\* The datagrams callback_handler would match with a flow tagged t, and how
\* many of them are between the socket and the handler.
AnswersTo(t) ==
  {f \in Frame : f.len \in {"short", "full"} /\ answers(create_tag(f), t)}

OnTheWay(t) ==
  Cardinality({i \in 1..Len(sock) : sock[i] \in AnswersTo(t)})
    + Cardinality({p \in Pollers : pollBuf[p] \in AnswersTo(t)})
    + Cardinality({i \in 1..Len(rxq) : rxq[i] \in AnswersTo(t)})

\* Nothing a pending call waits for is dropped between the socket and the
\* call, however full the callback channel is (smbus_netdev.rs:32-56,
\* simple_network.rs:117-181): while a flow is pending, a datagram that answers
\* it leaves the receive path only into the channel of the oldest flow with
\* that key, unless the handler is dead or dies of it.
AnswersKept ==
  [][\A t \in {flows[i].tag : i \in 1..Len(flows)} :
       OnTheWay(t)' < OnTheWay(t) =>
         \/ handler' = "panicked"
         \/ \E i \in 1..Len(flows) :
              /\ flow_key(flows[i].tag) = flow_key(t)
              /\ \A j \in 1..(i - 1) : flow_key(flows[j].tag) # flow_key(t)
              /\ chan[flows[i].id] = "open" /\ chan'[flows[i].id] = "sent"]_vars

\* How far a call is, seen by its caller: before its flow is pushed nothing
\* has happened yet.
CallStatus(r) ==
  CASE chan[r] = "sent" -> "answered"
    [] chan[r] = "taken" -> "returned"
    [] chan[r] = "dropped" -> IF got[r] = NoFrame THEN "failed" ELSE "discarded"
    [] chan[r] = "open" /\ r \in PendingIds -> "pending"
    [] OTHER -> "none"

\* The service sendto implements: the calls of this module, told apart by
\* flow_key, each sent and so answered at most twice.
Service == INSTANCE RequestReply WITH
  Reqs <- ReqIds,
  Keys <- {addr.address : addr \in Addrs} \X (0..(TagSpace - 1)),
  Copies <- 2,
  status <- [r \in ReqIds |-> CallStatus(r)],
  key <- [r \in ReqIds |-> IF CallStatus(r) = "none" THEN <<>> ELSE flow_key(reqs[r])],
  answer <- [r \in ReqIds |-> got[r].ans],
  alive <- handler = "running"

\* SimpleNetwork implements RequestReply: over all the locks, queues, panics
\* and cancellations of sendto (simple_network.rs:215-290) and the scan of
\* callback_handler (112-181), a call is completed at most once, while it is
\* pending, by an answer with its key, no request's answers complete more than
\* two calls, and the handler dies only after a call was given up.
ImplementsService == Service!Spec

\* Some poll_socket task is running.
Attached == \E p \in Pollers : poll[p] \in {"recv", "send"}

\* A sendto awaits its answer, holding the binding mutex, and nothing polls
\* the socket for it.
EarlyCall == ~Attached /\ \E c \in Callers : pc[c] = "await"

\* An add_physical_binding that waits for the mutex, or was just passed it.
AttachWaits(p) == lock = p \/ \E i \in 1..Len(waiters) : waiters[i] = p

\* add_physical_binding gets the mutex (simple_network.rs:293), however many
\* sendto calls queue for it and hold it across their waits; unless a sendto
\* was made before any poll_socket task ran, which then holds it for ever.
AttachUnlessEarlyCall ==
  \A p \in Pollers : AttachWaits(p) ~> poll[p] # "unbound" \/ EarlyCall

\* Every sendto returns, once a poll_socket task runs and the link neither
\* loses nor refuses anything, although all calls share one mutex held across
\* the wait and a channel of capacity RxCap.
SendtoReturns ==
  \A c \in Callers :
    pc[c] \in {"track", "lock", "queued", "await"} /\ Attached ~> pc[c] = "idle"

-----------------------------------------------------------------------------
(* What comments and assertions of the repository say and the code does    *)
(* not do.                                                                 *)

\* simple_network.rs:170, resp.send(response).unwrap(): the call whose flow is
\* found is still there to be answered.
HandlerSurvives == handler = "running"
=============================================================================
