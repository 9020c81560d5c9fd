------------------------------ MODULE Network ------------------------------
(***************************************************************************)
(* The packets of a SOCK (src/source/net/h2_socket.cpp): Pij injects them, *)
(* the hooked accept, connect, recv (and recvfrom) take them, send and     *)
(* sendto produce them, Ptx fetches those.  Every reading call waits for a *)
(* packet for the name its socket is bound to; on a blocking socket it     *)
(* polls, and only another thread can inject meanwhile.  The descriptors   *)
(* are the system's and are used again when closed.                        *)
(***************************************************************************)
EXTENDS Integers, Sequences, FiniteSetsExt, SequencesExt

CONSTANTS
  Fd,         \* descriptors: numbers from 1, of which socket() gives the lowest that is closed
  Local,      \* names sockets are bound to
  Remote,     \* names of peers
  Wildcard,   \* the pattern "*", also the `to` of a packet that does not say
  MaxPacket, MaxSent, MaxConnection  \* bounds: packets injected, sent and not fetched; connections tried

ASSUME NetworkAssumption ==
  Fd \subseteq Nat /\ Wildcard \notin Local /\ {MaxPacket, MaxSent} \subseteq Nat /\ MaxConnection \in Nat

Unbound == "0.0.0.0:0"   \* also last_to when nothing was sent
Closed == "closed"
Empty == ""              \* what send finds for a socket that is in no connection
Nobody == "nobody"
Address == Local \cup Remote \cup {Unbound, Empty}

VARIABLES
  bound,             \* per descriptor: the name getsockname gives, or closed
  sockets,           \* h2_socket::sockets
  incoming, outgoing, last_to,
  on,                \* control is in a SOCK
  waiting,           \* the reading calls under way: none, or the one of the thread that runs the case
  peer,              \* history: whom each descriptor was connected to last, since it was opened
  links,             \* history: how often each descriptor has been connected, closed meanwhile or not
  injected,          \* history: packets injected, which is the id of the last one
  taken,             \* history: the packets handed out
  older              \* history: packets injected before the last SOCK ended

netVars == <<bound, sockets, incoming, outgoing, last_to, on, waiting, peer, links, injected, taken, older>>
queueVars == <<incoming, outgoing, last_to>>
historyVars == <<peer, links, injected, taken, older>>

Packet == [id : 1..MaxPacket, from : Address, to : Local \cup {Wildcard}, data : BOOLEAN]
Sent == [from : Address, to : Address, due : Address, again : BOOLEAN]
Connection == [fd : Fd, from : Address, to : Address]
Read == [call : {"accept", "connect", "recv"}, fd : Fd, block : BOOLEAN]

(* Queues, table and calls under way have their types.                     *)
NetworkTypeOK ==
  /\ bound \in [Fd -> Local \cup {Unbound, Closed}]
  /\ sockets \in Seq(Connection)
  /\ incoming \in Seq(Packet) /\ outgoing \in Seq(Sent) /\ last_to \in Address
  /\ on \in BOOLEAN
  /\ waiting \subseteq Read /\ \A r \in waiting : bound[r.fd] # Closed
  /\ peer \in [Fd -> Address \cup {Nobody}] /\ links \in [Fd -> Nat]
  /\ injected \in 0..MaxPacket /\ taken \subseteq 1..injected /\ older \in 0..injected

NetworkInit ==
  /\ bound = [fd \in Fd |-> Closed] /\ sockets = <<>>
  /\ incoming = <<>> /\ outgoing = <<>> /\ last_to = Unbound
  /\ on = FALSE /\ waiting = {}
  /\ peer = [fd \in Fd |-> Nobody] /\ links = [fd \in Fd |-> 0] /\ injected = 0 /\ taken = {} /\ older = 0

Running == on /\ waiting = {}
Unused == {fd \in Fd : bound[fd] = Closed}

---------------------------------------------------------------------------
(* The program under test opens and binds, or closes, a descriptor. *)
Open(name) ==
  /\ Running /\ Unused # {}
  /\ bound' = [bound EXCEPT ![Min(Unused)] = name]
  /\ peer' = [peer EXCEPT ![Min(Unused)] = Nobody]
  /\ UNCHANGED <<sockets, queueVars, on, waiting, links, injected, taken, older>>

(* Mutant of Close: while the socket is read. *)
CloseAnyTime(fd) ==
  /\ on /\ bound[fd] # Closed
  /\ bound' = [bound EXCEPT ![fd] = Closed]
  /\ UNCHANGED <<sockets, queueVars, on, waiting, historyVars>>

Close(fd) ==
  /\ Running /\ bound[fd] # Closed
  /\ bound' = [bound EXCEPT ![fd] = Closed]
  /\ UNCHANGED <<sockets, queueVars, on, waiting, historyVars>>

StartSock ==
  /\ ~on /\ on' = TRUE /\ last_to' = Unbound
  /\ UNCHANGED <<bound, sockets, incoming, outgoing, waiting, historyVars>>

(* Mutant of StopSock: what nobody read stays. *)
StopSockKeeps ==
  /\ Running /\ on' = FALSE /\ outgoing' = <<>> /\ older' = injected
  /\ UNCHANGED <<bound, sockets, incoming, last_to, waiting, peer, links, injected, taken>>

StopSock ==
  /\ Running /\ on' = FALSE /\ incoming' = <<>> /\ outgoing' = <<>> /\ older' = injected
  /\ UNCHANGED <<bound, sockets, last_to, waiting, peer, links, injected, taken>>

(* Pij, in a SOCK or not, by this thread or another; a packet that does    *)
(* not say where from answers the last one sent.                           *)
Inject(from, to, data) ==
  /\ injected < MaxPacket
  /\ injected' = injected + 1
  /\ incoming' = Append(incoming, [id |-> injected', to |-> to, data |-> data,
                                   from |-> IF from = Empty THEN last_to ELSE from])
  /\ UNCHANGED <<bound, sockets, outgoing, last_to, on, waiting, peer, links, taken, older>>

---------------------------------------------------------------------------
Matching(fd) == {i \in DOMAIN incoming : incoming[i].to \in {bound[fd], Wildcard}}
(* Mutant of Requeue: behind the others, as it was injected. *)
RequeueBehind(packet, rest) == IF packet.data THEN Append(rest, packet) ELSE rest

(* A packet with data that opens a connection is left for recv, in front.  *)
Requeue(packet, rest) == IF packet.data THEN <<packet>> \o rest ELSE rest

(* Mutant of BeginRead: the connection is noted when nothing is waited for. *)
BeginReadUnnoted(call, fd, block, to) ==
  /\ Running /\ bound[fd] # Closed
  /\ call = "accept" => Unused # {}
  /\ call \in {"accept", "connect"} => Len(sockets) < MaxConnection
  /\ waiting' = {[call |-> call, fd |-> fd, block |-> block]}
  /\ sockets' = IF call = "connect" /\ Matching(fd) # {}
                THEN Append(sockets, [fd |-> fd, from |-> bound[fd], to |-> to]) ELSE sockets
  /\ peer' = IF call = "connect" THEN [peer EXCEPT ![fd] = to] ELSE peer
  /\ links' = IF call = "connect" THEN [links EXCEPT ![fd] = @ + 1] ELSE links
  /\ UNCHANGED <<bound, queueVars, on, injected, taken, older>>

(* A reading call begins; connect notes the connection first. *)
BeginRead(call, fd, block, to) ==
  /\ Running /\ bound[fd] # Closed
  /\ call = "accept" => Unused # {}
  /\ call \in {"accept", "connect"} => Len(sockets) < MaxConnection
  /\ waiting' = {[call |-> call, fd |-> fd, block |-> block]}
  /\ sockets' = IF call = "connect" THEN Append(sockets, [fd |-> fd, from |-> bound[fd], to |-> to])
                ELSE sockets
  /\ peer' = IF call = "connect" THEN [peer EXCEPT ![fd] = to] ELSE peer
  /\ links' = IF call = "connect" THEN [links EXCEPT ![fd] = @ + 1] ELSE links
  /\ UNCHANGED <<bound, queueVars, on, injected, taken, older>>

(* Mutant of Poll: a matching packet is copied and stays in the queue. *)
PollCopies(r) ==
  LET i == Min(Matching(r.fd)) IN
  /\ Matching(r.fd) # {}
  /\ waiting' = {}
  /\ taken' = IF r.call = "recv" \/ ~incoming[i].data THEN taken \cup {incoming[i].id} ELSE taken
  /\ UNCHANGED <<bound, sockets, queueVars, on, peer, links, injected, older>>

(* Mutant of Poll: only the oldest packet is looked at. *)
PollFirst(r) ==
  /\ incoming # <<>> /\ 1 \in Matching(r.fd)
  /\ incoming' = Tail(incoming)
  /\ waiting' = {} /\ taken' = taken \cup {Head(incoming).id}
  /\ UNCHANGED <<bound, sockets, outgoing, last_to, on, peer, links, injected, older>>

(* read_incoming takes the first packet for this name; then the call ends. *)
(* The new descriptor of accept is bound to the name of the old one if the *)
(* system lets it.                                                         *)
Poll(r) ==
  LET i == Min(Matching(r.fd))
      packet == incoming[i]
      rest == RemoveAt(incoming, i)
      opens == r.call \in {"accept", "connect"}
  IN
  /\ Matching(r.fd) # {}
  /\ waiting' = {}
  /\ incoming' = IF opens THEN Requeue(packet, rest) ELSE rest
  /\ taken' = IF opens /\ packet.data THEN taken ELSE taken \cup {packet.id}
  /\ IF r.call = "accept"
     THEN \E name \in {bound[r.fd], Unbound} :
            /\ bound' = [bound EXCEPT ![Min(Unused)] = name]
            /\ peer' = [peer EXCEPT ![Min(Unused)] = packet.from]
            /\ links' = [links EXCEPT ![Min(Unused)] = @ + 1]
            /\ sockets' = Append(sockets, [fd |-> Min(Unused), from |-> bound[r.fd], to |-> packet.from])
     ELSE UNCHANGED <<bound, peer, links, sockets>>
  /\ UNCHANGED <<outgoing, last_to, on, injected, older>>

(* No packet, and the socket does not block: EWOULDBLOCK, or 0 from recv.  *)
GiveUp(r) ==
  /\ Matching(r.fd) = {} /\ ~r.block
  /\ waiting' = {}
  /\ UNCHANGED <<bound, sockets, queueVars, on, historyVars>>

Entries(fd) == {i \in DOMAIN sockets : sockets[i].fd = fd}
Put(packet) == outgoing' = Append(outgoing, packet) /\ last_to' = packet.to

(* The first entry of the table for this descriptor says from where to     *)
(* where; it may be the entry of an earlier connection.                    *)
Send(fd) ==
  LET none == Entries(fd) = {}
      first == sockets[Min(Entries(fd))]
  IN
  /\ Running /\ bound[fd] # Closed /\ Len(outgoing) < MaxSent
  /\ Put([from |-> IF none THEN Empty ELSE first.from, to |-> IF none THEN Empty ELSE first.to,
          due |-> IF peer[fd] = Nobody THEN Empty ELSE peer[fd],
          again |-> links[fd] # IF peer[fd] = Nobody THEN 0 ELSE 1])
  /\ UNCHANGED <<bound, sockets, incoming, on, waiting, historyVars>>

SendTo(fd, to) ==
  /\ Running /\ bound[fd] # Closed /\ Len(outgoing) < MaxSent
  /\ Put([from |-> bound[fd], to |-> to, due |-> to, again |-> FALSE])
  /\ UNCHANGED <<bound, sockets, incoming, on, waiting, historyVars>>

(* Ptx *)
Fetch ==
  /\ Running /\ outgoing # <<>> /\ outgoing' = Tail(outgoing)
  /\ UNCHANGED <<bound, sockets, incoming, last_to, on, waiting, historyVars>>

PollAny == \E r \in waiting : Poll(r)

NetworkNext ==
  \/ StartSock \/ StopSock \/ Fetch \/ PollAny
  \/ \E name \in Local \cup {Unbound} : Open(name)
  \/ \E from \in Remote \cup {Empty}, to \in Local \cup {Wildcard}, data \in BOOLEAN : Inject(from, to, data)
  \/ \E fd \in Fd : Close(fd) \/ Send(fd)
  \/ \E fd \in Fd, to \in Remote : SendTo(fd, to)
  \/ \E call \in {"accept", "connect", "recv"}, fd \in Fd, block \in BOOLEAN, to \in Remote :
       BeginRead(call, fd, block, to)
  \/ \E r \in waiting : GiveUp(r)

NetworkSpec == NetworkInit /\ [][NetworkNext]_netVars /\ WF_netVars(PollAny)

---------------------------------------------------------------------------
Ids(packets) == {packets[i].id : i \in DOMAIN packets}

(* Packets for one name are handed out in the order they were injected,    *)
(* those an accept or connect put back included (h2_list::push).           *)
InOrder ==
  \A i, j \in DOMAIN incoming : i < j /\ incoming[i].to = incoming[j].to => incoming[i].id < incoming[j].id

(* A packet is handed out once, and none disappears but with its SOCK.     *)
ReadOnce ==
  /\ Cardinality(Ids(incoming)) = Len(incoming)
  /\ Ids(incoming) \cap taken = {}
  /\ (older + 1)..injected \subseteq Ids(incoming) \cup taken

(* A packet never reaches a SOCK after the one it was injected for.        *)
OwnPackets == \A id \in Ids(incoming) : id > older

(* What is sent on a descriptor in its first connection goes to the peer   *)
(* of that connection, established or still being tried.                   *)
SentToPeer == \A i \in DOMAIN outgoing : ~outgoing[i].again => outgoing[i].to = outgoing[i].due

(* A packet arrives once, in its turn and in its own SOCK, whoever reads,  *)
(* and an answer goes to where it came from.                               *)
PacketsArrive == InOrder /\ ReadOnce /\ OwnPackets /\ SentToPeer

(* A call for which a packet is queued returns, whoever injected it and    *)
(* whatever is queued in front of it.                                      *)
ReaderFed == (\E r \in waiting : Matching(r.fd) # {}) ~> (waiting = {})
===========================================================================
