# mctp-emu: TLA+ models and proofs

mctp-emu emulates MCTP endpoints on an SMBus whose frames travel in UDP
datagrams. This directory holds models of its concurrent parts, TLC runs on
small instances, and TLAPS proofs for every value of the constants. File names
below are relative to the repository; `loop.rs` is
`examples/basic_bus_owner_loop.rs`, `simple_network.rs` and
`virtual_network.rs` are in `src/network`, `smbus_netdev.rs` in `src/phys`.

## The system

| Component | State | Operations | Interacts with |
|---|---|---|---|
| Flow matching (`endpoint/types.rs`, `base/models.rs`, the scan in `simple_network.rs` and `loop.rs`) | none | `create_tag`, `create_response`, the linear scan | everything that receives |
| Socket table (`socket`, `bind`, `get_client` of both networks) | `num_clients`, `clients` | `socket`, `bind`, `get_client` | `sendto` reads a client's address and tag |
| SMBus binding (`smbus_netdev.rs`) | `address`, UDP socket, `poll_socket` tasks | `new`, `transmit`, `bind` | bounded channel of 32 to the network's handler |
| SimpleNetwork (`simple_network.rs`) | `flows` (std mutex), binding (async mutex), handler task, oneshot channels | `sendto`, `add_physical_binding`, `callback_handler` | binding, socket table, callers |
| Bus owner (`loop.rs`) | `assigned_eid`, `perform_discovery`, `next_msg_tag` (atomics), `next_eid`, command channel, `pending_cmd` | discovery round, ping, engine, reader, `handle_request` | one UDP socket, the endpoint on the bus |
| Control messages (`mctp-base-lib/src/control*`) | none | bit-field constructors and accessors, decoding by position, length checks, `is_success` | bus owner, users of `sendto` |
| VirtualNetwork (`virtual_network.rs`) | client table, device list, `num_bindings`, task handles, handler task | `add_physical_binding`, `get_binding`, `join_handles`, `route_lookup`, `sendto` | callers, bindings |
| `example_simple_network.rs` | none | one `sendto` to the bus owner's port | SimpleNetwork, bus owner |
| Derive macros, errors, hex dump, endpoint stubs, `example_virtual_network.rs` | none | | |

What is hard here:

* `sendto` pushes its flow under one lock, queues for another, transmits, and
  waits for the answer still holding the second, without a timeout. Any of
  these steps can panic or be dropped, and the flow stays behind.
* Every frame is sent twice, so every answer comes twice; the matching rule
  looks at three bits of tag and one EID.
* `callback_handler` and the bus owner's engine `unwrap` the result of sending
  into a oneshot channel: the other end has to be there.
* The bus owner's three tasks share a bounded channel that one of them fills
  with `try_send().unwrap()`, a flag that is set in the middle of the round it
  requests, and u8 counters that wrap.
* VirtualNetwork takes an identifier, pushes a device, spawns a task and stores
  its handle in four separate steps, with other registrations, the handler's
  look-up and `join_handles` in between.
* The two programs send each other requests with the same tags and EIDs; a
  `sendto` client never changes its tag, so answers to earlier calls fit.

## Modules

| Module | Models |
|---|---|
| `FlowMatch` | transport header fields, `MsgFlowTag`, `create_tag`, `create_response`, the matching rule. Constant-level. |
| `SocketTable` | descriptors and clients: several callers, each passing any descriptor to `bind`. |
| `WireFormat` | extends `FlowMatch`: transport, control and SMBus headers and the control messages as functions on bytes. Constant-level. |
| `SmbusNetDev` | extends `WireFormat`; the SMBus binding: `transmit` and its two `try_send`s, `poll_socket`; the UDP path and the peer (external). |
| `SimpleNetwork` | extends `SmbusNetDev` and `SocketTable`: `sendto` cut at its locks and await points, the binding mutex with its FIFO queue, `callback_handler`, poisoning, panics, cancellation. |
| `BusOwner` | extends `FlowMatch`: main (`run_bus_owner_loop`), engine and reader tasks, `handle_request`; the endpoint on the bus (external). |
| `RequestReply` | abstract: what `sendto` promises its callers, without tasks, locks or frames. |
| `VirtualNetwork` | concurrent registrations, the poll tasks and their shared channel, `callback_handler` and `get_binding`, `join_handles`, `sendto`. |
| `ControlExchange` | extends `WireFormat`: a `SimpleNetwork` client and the bus owner talking to each other in bytes over a lossy link. |
| `MCSocketTable`, `MCSimpleNetwork`, `MCVirtualNetwork`, `MCControlExchange`, `MCBusOwner` | values of the constants for TLC. |
| `SequenceLemmas`, `FlowMatchProofs` | lemmas the proofs share: queues and counting in them, headers and tags. |
| `BusOwnerProofs` | theorems about `BusOwner`. |
| `SimpleNetworkProofs`, `SimpleNetworkFlowProofs`, `SimpleNetworkServiceProofs` | theorems about `SimpleNetwork` and `SocketTable`, and the refinement of `RequestReply`. |
| `VirtualNetworkProofs` | theorems about `VirtualNetwork`. |
| `ControlExchangeProofs` | lemmas about the bytes of `WireFormat`, theorems about `ControlExchange`. |

Each action is named after the function, or the part of it between two
interleaving points, that it models; `PROJECT.json` gives the lines. Operators
whose comment starts with "Mutant of" are deliberately wrong variants of a
definition, used to see that a property notices the mistake; no specification
uses them.

### How the state corresponds to the code

*SimpleNetwork.* `pc[c]` is where the `sendto` of task `c` is: `track` after
the header is built, `lock` after line 271, `queued` inside `lock().await`,
`await` inside `resp_rx.await`. `chan[r]` is the oneshot channel of request
`r`: open, sent, taken, or dropped by its receiver. `lock` and `waiters` are
the async mutex: tokio passes it on in FIFO order. A std mutex is held for a
single step, so it appears only as `poisoned`. `transmit` is one step, with both
`try_send`s in it: an answer to the first copy arrives after it at the earliest.
What that order adds, a call that was already answered when it fails, is
reached by cancelling an answered call (`discarded` in the service below).

*Socket table.* The networks do not record who opened a descriptor, so tasks
pass any descriptor to `bind` and `sendto`: their own, another task's, one
nobody was given yet. `bind` is two steps, the load of the counter with the test
(line 205) and the insert (line 210); `inserting[c]` is the client held in
between. `ret[c]` is the result of the last `socket` or `bind` of `c`. A
`sendto` that returns an error before line 264 changes nothing and is a stutter.

*Datagrams* are records of a length class (empty, runt, short, full: the only
lengths the parsers tell apart), a tag and `ans`, the request they answer.
`ans` is a history field: no action of the program reads it.

*BusOwner.* `pc` and `stage` say where main is, the sleep between the swap of the
flag and the ping included, during which the engine may set the flag again; `resp` is the oneshot channel of
its only outstanding request; `cmdq` is the command channel; `pending` is
`pending_cmd`. When main waits for room in the channel, the next free slot is
reserved for it (`Reserved`), as tokio's fair semaphore does, and the reader's
`try_send` needs another. Packet bodies are the bytes after the control header, and the
decoders pick bits out of them as the bit-field structs do. `reqs` and `grants`
are histories. When main returns or panics the process ends and nothing moves
(`Running`). `next_msg_tag` is a u8 in the source; the header keeps its
remainder modulo `TagSpace`, and 256 is a multiple of 8, so it is not wrapped
in the model.

*VirtualNetwork.* `stage[a]` is where the `add_physical_binding` of task `a`
is: before line 180 (`start`), between 180 and 182 (`push`), before line 185
(`bind`), before line 193 (`store`), returned (`done`, `failed`). Devices in
`net_devs` and messages in `rxq` are named by the task that registered them,
so that a look-up can be compared with the registration it belongs to; the
handler sees only `bind_id` of that task. `overlapped` is a history: the tasks
that were between lines 180 and 182 together with another one.

*ControlExchange.* Packets and frames are sequences of bytes built by
`WireFormat`. What each program does between its locks is in `SimpleNetwork`
and `BusOwner`; here receiving a datagram is one step. The owner's `pending`
holds at most the discovery request: nobody in this configuration answers it,
which leaves main waiting while the engine serves. `of` is a history field, the
call a datagram belongs to.

*Abstractions.* In `SimpleNetwork` and `BusOwner` payload contents, the
instance id (never checked) and the bytes of frames are left out; they are in
`WireFormat` and `ControlExchange`. The PEC byte is any byte of `PecBytes`, as
nobody checks it. Log output and the debug tasks that print buffers are left
out. How long main sleeps is left open. The i32 descriptor counter is bounded by `MaxSockets`, far
below its overflow.

## Runs that pass

| Run | Instance | What it shows |
|---|---|---|
| `socket_table` | 2 callers with 2 clients each, 3 descriptors, all of them passed to `bind` at any time | once a newer descriptor is open and no earlier `bind` is between its load and its insert, a descriptor keeps its client for ever |
| `net_abandon` | 2 callers with tags 0 and 8, 2 requests, good, reserved and oversize transmits, Basic and unknown addresses; send failures and cancellation | flow list, channels and mutex agree in every state; a handler panic needs an abandoned call; a datagram a pending call waits for is not dropped between socket and call, with the callback channel full most of the time; `SimpleNetwork` implements `RequestReply` |
| `net_link` | 2 callers sending with one client, whose tag 8 is cut to 0, to 2 remote EIDs; loss, truncated and unasked datagrams, failing `recv_from` | answers never cross flow keys; without abandoned calls the handler never panics |
| `net_reliable` | 2 requests of 2 callers, 2 attachments, fair tasks, no faults | every `sendto` made while a `poll_socket` task runs returns; an attachment gets the mutex unless a `sendto` came before the first one |
| `virtual_net` | 3 registering tasks, one with a binding `bind` refuses, one whose `recv_from` fails; 2 datagrams, a channel of one | identifiers are unique and issued, and find their own device unless registrations overlapped; task handles are conserved; the handler drains its channel |
| `exchange` | 3 calls of 7 kinds, colliding tags, a reserved destination, a binding made with a reserved address, 2 lost datagrams | an answer belongs to its request and carries the fields `handle_request` sets, through both encodings; the two ends' requests are not taken for answers; an answer is at most half the calls old; frames carry the destination asked for and the source `set_address` left; one loss is survived; the last EID asked for is kept |
| `owner_faults` | up to 5 requests, 3 unasked packets, every kind of answer, pools that fill the EID space; send and receive failures, loss | the engine's rendezvous with main, and that a dead engine does not leave main waiting; EID ranges are disjoint |
| `owner_dup` | `TagSpace` 2, 4 requests, pings and rounds, duplicated answers, a build whose u8 arithmetic wraps | rendezvous under duplication; a stale answer is exactly a multiple of the tag space old |
| `owner_serve` | 9 requests, 3 unasked requests of any kind, fair tasks | no DiscoveryNotify is lost, rounds end, the owner's EID is only changed by requests |

Bounds. Two requests are enough for every pairwise relation between calls
(collision, stale flow, queueing, one caller calling again). The network runs
have one descriptor, which both callers may bind and use, in turn or at once (in
`net_link` one of them binds it and both use it);
what several descriptors add is in `socket_table`. Three registrations
let two overlap while the third has finished, or all three overlap. Three calls
in `exchange` let the second be completed by the first's second answer and the
third by either. `RxCap` 1 makes the channel full in the ordinary
course of events. `SockCap` in `net_reliable` is 4, twice the requests, so that
the kernel drops nothing: a UDP buffer holds far more. `TagSpace` 2 wraps
after two requests instead of eight. Nine requests and three notifications are
three full rounds, so a notification can arrive in any step of a round and still
be served within the bound. Deadlock is checked in `socket_table` only: in the
other runs callers may stop calling, the request bounds end every behaviour, and
a panicked task is silent.

Fairness. `SimpleNetwork`: weak fairness for each task between its first step
inside `sendto` and its return, for `poll_socket`, `callback_handler` and an
`add_physical_binding` that was passed the mutex (the tokio runtime polls every ready task), and
for the peer's answer to each request. Nobody is obliged to call. `BusOwner`:
weak fairness of main, engine and the reader's receive step, and of the
endpoint's answers. `VirtualNetwork`: weak fairness of the spawned tasks, the
poll tasks and the handler; registrations are calls nobody is obliged to finish.
`ControlExchange`: weak fairness of the handler, the engine and main.
`net_reliable` and `owner_serve` assume a link without faults, because the code
has no timeout: with loss, main or `sendto` waits for ever. `exchange` loses up
to two datagrams; `CallReturns` and `LastEidWins` hold for one, the number that
sending every frame twice makes up for, and say nothing after a second.

## The abstract service

`RequestReply` is what a caller of `sendto` can rely on: a call is pending until
it is given one answer or is given up; an answer is to a request with the same
key (destination EID and 3-bit tag); the answers to one request complete at most
two calls; the service dies only after a call that was pending failed.
`SimpleNetwork` implements it (`ImplementsService`, run `net_abandon`) under this
mapping: a call is pending once its flow is in `flows` and its channel open,
answered when the handler has sent into the channel, returned when `sendto` took
the value, failed or discarded when the receiver was dropped before or after
that; the service is alive while the handler is. Locks, queues, frames, the
channel to the handler and everything before the flow is pushed are stutters.
That the bound on answers is two, and not one, is the double `try_send`.

## Runs that find a disagreement

| Run | What the repository says | What happens |
|---|---|---|
| `net_panic` | `resp.send(response).unwrap()` (`simple_network.rs:170`) | a duplicate answer reaches the flow of a `sendto` that died in `transmit`; the handler panics and poisons the flow list |
| `exchange_get_eid` | GetEndpointID "Returns the EID presently assigned to an endpoint" (`enums.rs:15`) | it is answered with EID 0 whatever SetEndpointID stored (`loop.rs:324`) |
| `owner_pool` | "Assign an EID Pool (if needed)" (`loop.rs:130`) | a pool of one EID is set aside and never announced (`loop.rs:131`) |

Smaller disagreements, visible in the modules and without a run of their own:
`bind` refuses a valid descriptor once another was opened, and accepts one that
was never handed out (`bind_refuses`, `simple_network.rs:205`; `network/error.rs:6`
calls the error "invalid socket descriptor"); `new` ignores the error of
`set_address` (`smbus_netdev.rs:85`), so that a binding made with a reserved
address sends from address 0, which is reserved too, although reserved addresses
"can't be used as slave addresses" (`phys/error.rs:14-16`; `AddressedAsAsked`
says which address is sent); a command code outside the enum ends the engine in
a `todo!()` (`loop.rs:372`) where `enums.rs:95-98` says ErrorUnsupportedCmd
"shall be returned for any unsupported command values"; a burst of more than 32 datagrams before the engine is scheduled
ends the reader (`reader_recv`, `try_send(cmd).unwrap()` at `loop.rs:426`);
`get_binding` of VirtualNetwork refuses every identifier but the newest
(`get_binding_check`, `virtual_network.rs:105`), as `bind` does with descriptors,
and overlapping registrations swap devices (`MisfiledNeedsOverlap`); the length
byte of a frame counts the PEC byte when the bus owner sends it and not when
SimpleNetwork does (`owner_frame`, `transmit_frame`), and neither end reads it.

## Proofs

Every theorem is about `Spec`, for every value of the constants that satisfies
the named assumptions of the module, every bound and every set of faults
included; fairness is not used. Each invariant was checked by TLC on the run of
its component before it was proved.

What the constants are assumed to be, beyond their types: the sets of
`poll_socket` tasks and of registering tasks are finite (a process has finitely
many), the names of the model (`Handler`, `NoMsg`, `Free`) are not tasks, and in
`ControlExchange`, where headers are bytes, `TagSpace` is the 8 of their three
bits (the other modules are proved for every tag space).

### The bus owner

* `TypeCorrect`, `RendezvousHolds`. The inductive invariant
  `IndInv` is `TypeOK /\ SoleRequest /\ Requested`, of which `SoleRequest` is the
  first half of `EngineRendezvous`. The type of what
  `engine_send` stores depends on the queued request existing, so types and
  rendezvous are proved together; `Requested` adds that a request exists
  whenever main is past creating it, that its channel is open until it is
  queued, that only existing requests are on the wire, and that the tag counter
  is one ahead of the number of requests. Types are split into `MainType` and
  `RestType`, so that an action's proof looks only at the half it changes. The
  second half, `MainWoken`, is kept by every step of an engine that runs and by
  `engine_panic`, which closes the channel wherever the request is: with main, in
  the queue, or pending.
* `GrantsStayDisjoint`. `GrantsDisjoint` becomes
  inductive with `next_eid` as an upper bound of all ranges granted.
* `StaleAnswersAreOld`. `TagsCount` says that request `r`, its flow and every
  answer to it, in the socket or in the channel, carry `r % TagSpace`; at the
  step that hands main an answer, `EngineRendezvous` makes the flow that of the
  last request.
* `EidsAreAssigned`. `AssignedByRequest` depends on where packets come from
  (`SourcesKnown`) and on how many there are (`SoleAnswer`): while the engine
  runs, the copies of a request on the wire and the answers to it in socket and
  channel number at most one for the pending flow and zero for every other
  request. So an answer that reaches the head of the channel finds its flow, and
  takes both out of the count; what finds no flow is a request of the peer
  (`ReceivedFromPeer`).

### SimpleNetwork and its socket table

* `TypeCorrect`, `MutexDiscipline`, `SettledClientsStay`
  (`SimpleNetworkProofs`). Types need `Numbered`: a task inside `sendto` works on
  a request that was made. `LockDiscipline` is proved in the form `LockSets`,
  with the queue as a set and no task in it twice; a step either leaves the mutex
  alone, queues a task or passes the mutex on. `SettledClient`, an
  action property, also says that a settled descriptor stays settled, which is
  what makes it hold for ever.
* `FlowsAccountedFor`, `HandlerDiesOnlyOfAbandon`
  (`SimpleNetworkFlowProofs`). As far as flows and channels are concerned every
  step is one of six: it keeps them, builds a request, tracks its flow, leaves a
  call, delivers an answer, or kills the handler; `StepKinds` shows this once, and
  each property is then shown for the six. The inductive invariant `FlowInv` adds
  to `FlowAccounting` that two tasks never work on the same request, that the
  channel of a request is unused exactly until it is made, and that a flow
  carries its request's tag. That a channel the handler finds closed was dropped,
  and not taken, follows: a taken answer has no flow any more.
* `AnswersKeepTheirKey` (`SimpleNetworkServiceProofs`). `FrameInv` says that
  every answer, in the socket, with a `poll_socket` task or in the channel,
  carries its request's tag turned round; `GotInv` that what was handed to a call
  answers a request with its key, and when there is something handed at all.
* `NetworkImplementsService`: `Spec => ImplementsService`, the refinement. The
  bound of two answers per request needs `CopyInv`: the copies of a request on
  the wire, the answers to it anywhere and the calls they completed number at most
  two, and none before `transmit`. Then each kind of step maps to a step of
  `RequestReply` or to a stutter: tracking is the service's call, delivery its
  answer, leaving its return, failure or discard, and the handler's death its
  death, which needs a failed call by `HandlerPanicNeedsAbandon`.
* `AnswersAreKept`. The datagrams that answer a flow are counted in the socket,
  in the hands of the `poll_socket` tasks and in the channel (`WayParts`). A step
  of `poll_socket` moves one on and loses none while the channel has a receiver,
  because a task that receives holds nothing (`PathInv`); the handler takes one
  only for the first flow it matches. Since all flows own their tags (`PathInv`),
  that flow is the oldest with the same key (`KeyDecides`).

### VirtualNetwork

`VirtualTypes`, `IdentifiersIssued`, `MisfiledOnlyByOverlap` and
`HandlesInOnePlace` come from one inductive invariant, `VInv`: the counter is the
number of registrations past line 180 and is ahead of the list by those not yet
past line 182 (`Counted`); identifiers are distinct and below it (`Issued`); the
list holds each registration past line 182 once (`Listed`); one that overlapped
no other has its identifier as its position, and while it is between the two
lines it is alone there and its identifier is the length of the list (`Filed`);
tasks are spawned by registrations past line 185, and messages come from such
tasks (`Spawned`). The last makes the counter positive whenever a message is
looked up.

### The exchange of the two programs

The five theorems of `ControlExchangeProofs` rest on two parts.

* Bytes. `TransportHeader`, `ControlHeader`, `MessageBytes` and `FrameBytes` say
  what the constructors write, `TagReadBack` and `AnswerFields` what the
  accessors read, `ReplyBytes` and `AnswerFrame` what `handle_request` makes of a
  request: for every byte a command, instance id, argument, tag or EID can be.
  Packets are compared byte by byte (`RequestBytes`, `AnswerBytes`), at the
  positions that are read, so that a PEC byte behind them changes nothing.
* `ExchangeInv`, the inductive invariant. Every datagram on its way to the owner
  is a frame of the call it belongs to, every one to the task an answer to its
  call or the owner's only request (`OnTheWay`); the task has one flow while it
  is in a call and every finished call its answer (`TaskState`); all pending
  flows, on both sides, have the owner bit set (`Owned`), which is why no request
  matches them. `TwoPerCall` makes `StaleByHalf` inductive: the calls that have
  returned, the answers in front of a datagram and the requests in front of it
  are together at most twice the number of its call, because each call sends two
  frames and queues keep their order.

From the invariant: `ExchangeTypeCorrect`, `AnswersBelong`, `NoRequestIsTaken`,
`AnswersAreHalfFresh`, `FramesAreAddressed`. `AnswersBelong` is about the fields
`handle_request` writes, the constant EID 0 for GetEndpointID among them; that
this is not the EID assigned is what `exchange_get_eid` shows.
`FramesAreAddressed` holds for every address a binding is made with, with the
source 0 that `set_address` leaves for a reserved one.

### Model-checked only

* The liveness properties `SendtoReturns`, `AttachUnlessEarlyCall`,
  `HandlerKeepsUp`, `CallReturns`, `LastEidWins`, `NotifyServed` and
  `RoundCompletes`: fairness and ENABLED are outside the prover.
* `RequestReply` has no theorem of its own; that `SimpleNetwork` implements it
  is one.

## Not modelled

The derive macros as code generators (what the generated code decides is);
VirtualNetwork's `mctp_tx_thread`, which nothing calls; message types other than
control, which no code handles; hex dump, error types and aliases; the endpoint
stubs, which are empty; `example_virtual_network.rs`, written against an
interface that no longer exists.

## Plan

1. Done: `FlowMatch`, `SocketTable`, `SmbusNetDev`, `SimpleNetwork`, `BusOwner`,
   their runs, and the first theorems about `BusOwner`.
2. Done: `VirtualNetwork`, `WireFormat`, `ControlExchange`, `RequestReply` and
   the refinement, model-checked.
3. Done: every safety property that a passing run checks is a theorem, and so is
   the refinement of `RequestReply`.
4. Open: what `WireFormat` encodes for the messages neither program sends.
