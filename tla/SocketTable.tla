---------------------------- MODULE SocketTable ----------------------------
(***************************************************************************)
(* Descriptors and clients: socket, bind and get_client, which             *)
(* SimpleNetwork and VirtualNetwork implement with the same lines.         *)
(* Callers are tasks sharing one network.  The network does not keep who   *)
(* opened a descriptor: any task may pass any descriptor to bind, one      *)
(* another task opened or one nobody was given yet.  bind loads the count  *)
(* and inserts the client in two steps, between which other tasks run.     *)
(***************************************************************************)
EXTENDS Integers

CONSTANTS
  Callers,     \* tasks using the network
  BindArgs,    \* BindArgs[c]: the <address, tag> records c passes to bind
  MaxSockets   \* bound on the descriptors handed out (i32 in the source),
               \* and on the descriptors passed to bind and sendto

ASSUME SocketTableAssumption ==
  /\ MaxSockets \in Nat \ {0}
  /\ BindArgs \in [Callers -> SUBSET [address : 0..255, tag : 0..255]]

VARIABLES
  num_clients,  \* AtomicI32: the next descriptor
  clients,      \* the HashMap from descriptor to client
  inserting,    \* inserting[c]: the client the bind of c is about to insert
  sd,           \* sd[c]: the descriptor c last got from socket or gave to bind
  ret           \* ret[c]: what the last socket or bind of c returned

tableVars == <<num_clients, clients, inserting, sd, ret>>

\* Client, of which sendto reads the address and the tag.
Client == UNION {BindArgs[c] : c \in Callers}

NoClient == [address |-> -1, tag |-> -1]
NoSd == -1

Descriptors == 0..(MaxSockets - 1)

Results == {"none", "Ok", "InvalidSocketError"}

TableInit ==
  /\ num_clients = 0
  /\ clients = [s \in Descriptors |-> NoClient]
  /\ inserting = [c \in Callers |-> NoClient]
  /\ sd = [c \in Callers |-> NoSd]
  /\ ret = [c \in Callers |-> "none"]

\* The task is not inside bind.
OutsideBind(c) == inserting[c] = NoClient

socket(c) ==
  /\ OutsideBind(c)
  /\ num_clients < MaxSockets
  /\ sd' = [sd EXCEPT ![c] = num_clients]
  /\ num_clients' = num_clients + 1
  /\ ret' = [ret EXCEPT ![c] = "Ok"]
  /\ UNCHANGED <<clients, inserting>>

\* Mutant of bind_refuses: any descriptor handed out can be bound again.
bind_refuses_none(s) == s < 0

\* The test compares with the newest descriptor, not with the range of
\* descriptors handed out.
bind_refuses(s) == s < num_clients - 1

\* bind, up to the load of the count and the test.
bind_check(c, s, client) ==
  /\ OutsideBind(c)
  /\ sd' = [sd EXCEPT ![c] = s]
  /\ IF bind_refuses(s)
     THEN /\ ret' = [ret EXCEPT ![c] = "InvalidSocketError"]
          /\ UNCHANGED inserting
     ELSE /\ inserting' = [inserting EXCEPT ![c] = client]
          /\ UNCHANGED ret
  /\ UNCHANGED <<num_clients, clients>>

\* Its insert, under the write lock: the count may have grown since.
bind_insert(c) ==
  /\ ~OutsideBind(c)
  /\ clients' = [clients EXCEPT ![sd[c]] = inserting[c]]
  /\ inserting' = [inserting EXCEPT ![c] = NoClient]
  /\ ret' = [ret EXCEPT ![c] = "Ok"]
  /\ UNCHANGED <<num_clients, sd>>

bind(c) ==
  \/ \E s \in Descriptors, client \in BindArgs[c] : bind_check(c, s, client)
  \/ bind_insert(c)

\* get_client finds a client for the descriptor.
get_client(s) == s \in Descriptors /\ clients[s] # NoClient

-----------------------------------------------------------------------------
TableNext == \E c \in Callers : socket(c) \/ bind(c)

TableSpec == TableInit /\ [][TableNext]_tableVars

-----------------------------------------------------------------------------
\* Types: what socket, bind and get_client leave in the counter and the map.
TableTypeOK ==
  /\ num_clients \in 0..MaxSockets
  /\ clients \in [Descriptors -> Client \cup {NoClient}]
  /\ inserting \in [Callers -> Client \cup {NoClient}]
  /\ sd \in [Callers -> Descriptors \cup {NoSd}]
  /\ \A c \in Callers : inserting[c] # NoClient => sd[c] # NoSd
  /\ ret \in [Callers -> Results]

\* A newer descriptor was opened, and no bind that passed the test before
\* that is still to insert.
Settled(s) ==
  /\ s < num_clients - 1
  /\ \A c \in Callers : sd[c] = s => OutsideBind(c)

\* A settled descriptor keeps its client for ever (simple_network.rs:205-211):
\* whatever any task opens or binds from then on, also with this descriptor,
\* sendto finds the client that was there, or none if there was none.
SettledClient ==
  [][\A s \in Descriptors :
       Settled(s) => clients'[s] = clients[s] /\ Settled(s)']_tableVars
=============================================================================
