------------------------ MODULE EpollTraffic_proofs ------------------------
(***************************************************************************)
(* Proofs about what is in the buffers of EpollServer: the messages of the *)
(* clients and the packets of the tun.  Each of them holds for the servers *)
(* and clients its theorem names, for any number of connections,           *)
(* descriptors and addresses and any size of the queues.                   *)
(***************************************************************************)
EXTENDS EpollServer_proofs

Parsing(f) == pc = "parse" /\ cur = f
Owned(f) == \E i \in InUse : users[i].fd = f
HasRequestFirst(s) == s # <<>> /\ Head(s) = "IP_REQUEST"

---------------------------------------------------------------------------
(* The steps by what they do to the messages.                              *)

\* A step that moves no message; process_client ends only at the end of its
\* buffer, in front of a request, or when the tun refuses a packet.
Still ==
    /\ SameOwners /\ TcpMonotone
    /\ UNCHANGED <<bufs, rcvq, sock, asked, told>>
    /\ Up' => Up
    /\ \A f \in Fds :
          Parsing(f) => \/ Parsing(f)' \/ ~Up'
                        \/ bufs[f] = <<>> \/ Requests(bufs[f]) # {}
                        \/ TunWriteMayFail

\* A step of process_client that is done with a message and gives no address.
Consumes ==
    /\ \E m \in MsgType \ {"IP_REQUEST"} : Message(m)
    /\ bufs' = Consumed
    /\ SameOwners
    /\ UNCHANGED <<pc, cur, tcp, rcvq, sock, asked, told>>

LEMMA MessageFacts ==
    ASSUME IInv, NEW m \in MsgType, Message(m)
    PROVE  /\ Up /\ cur \in Fds /\ Open(cur) /\ sock[cur] \in Conns
           /\ bufs[cur] \in Seq(MsgType) /\ bufs[cur] # <<>> /\ Head(bufs[cur]) = m
           /\ m = "IP_REQUEST" => Requests(bufs[cur]) # {}
           /\ Consumed[cur] = Tail(bufs[cur])
           /\ \A f \in Fds : f # cur => Consumed[f] = bufs[f]
<1>1. pc = "parse" /\ bufs[cur] # <<>> /\ Head(bufs[cur]) = m
  BY DEF Message
<1>2. cur \in Fds /\ Open(cur) /\ sock[cur] \in Conns /\ bufs[cur] \in Seq(MsgType)
  BY <1>1, CurrentFacts DEF IInv, TypeOK, SocketInv
<1>3. m = "IP_REQUEST" => 1 \in Requests(bufs[cur])
  BY <1>1, <1>2, QueueFacts DEF Requests
<1> QED
  BY <1>1, <1>2, <1>3 DEF Up, Consumed, IInv, TypeOK

LEMMA BufferEnvironment ==
    ASSUME IInv, Environment
    PROVE  \/ Still
           \/ \E c \in Conns : Connect(c)
           \/ \E c \in Conns, m \in MsgType : ClientSend(c, m)
<1> USE DEF Still, Parsing, program, kernel, clients, Up
<1>1. ASSUME NEW c \in Conns, NEW how \in {"fin", "rst"}, ClientClose(c, how) PROVE Still
  <2>1. TcpMonotone
    BY <1>1 DEF ClientClose, TcpMonotone, IInv, TypeOK
  <2> QED
    BY <1>1, <2>1, SameUsers DEF ClientClose
<1>2. ASSUME NEW a \in Addrs, TunArrive(a) PROVE Still
  BY <1>2, SameUsers, SameTcp DEF TunArrive
<1>3. CASE Tick
  BY <1>3, TickOwners, SameTcp DEF Tick
<1> QED
  BY <1>1, <1>2, <1>3 DEF Environment

LEMMA BufferServer ==
    ASSUME IInv, Server
    PROVE  \/ Still \/ Consumes \/ IpRequest
           \/ \E f \in Fds : Accept(f)
           \/ \E f \in Fds : FreedStep(f)
           \/ \E f \in Fds : ReadData(f)
<1> USE DEF Still, Parsing, kernel, clients, Up
<1>1. CASE EpollWait \/ BatchDone \/ AcceptFails \/ HartbeatDone
  BY <1>1, SameUsers, SameTcp DEF EpollWait, BatchDone, AcceptFails, HartbeatDone, Take
<1>2. CASE TunUnroutable
  BY <1>2, SameUsers, SameTcp DEF TunUnroutable, Take
<1>3. CASE TunForward
  BY <1>3, SameUsers, TunForwardFacts DEF TunForward, Take
<1>4. ASSUME NEW f \in Fds, ReadNothing(f) PROVE Still \/ FreedStep(f)
  <2>1. pc = "dispatch" /\ UNCHANGED <<bufs, backlog, tunq, asked, told>>
    BY <1>4 DEF ReadNothing, Take
  <2> QED
    BY <1>4, <2>1, ReadNothingFacts, SameUsers, SameTcp DEF FreedStep
<1>5. ASSUME NEW f \in Fds, ReadError(f) PROVE FreedStep(f)
  BY <1>5, ReadErrorFacts DEF ReadError, Take, FreedStep
<1>6. CASE ParseDone
  BY <1>6, SameUsers, SameTcp DEF ParseDone
<1>7. CASE PoolFull
  <2>1. Requests(bufs[cur]) # {}
    BY <1>7, MessageFacts DEF PoolFull, MsgType
  <2> QED
    BY <1>7, <2>1, SameUsers, SameTcp DEF PoolFull, Message
<1>8. CASE InetRequest
  <2>1. Message("INET_REQUEST") /\ UNCHANGED <<users, rcvq, sock, asked, told, tcp>>
    BY <1>8 DEF InetRequest
  <2>2. CASE bufs' = Consumed /\ Continue
    BY <2>1, <2>2, SameUsers DEF Consumes, Continue, MsgType
  <2>3. CASE TunWriteMayFail /\ UNCHANGED bufs
    BY <2>1, <2>3, SameUsers, SameTcp DEF Message
  <2> QED
    BY <1>8, <2>2, <2>3 DEF InetRequest
<1>9. CASE Keepalive
  BY <1>9, KeepaliveOwners DEF Keepalive, Consumes, Continue, MsgType
<1>10. CASE KeepaliveNoUser
  <2>1. Message("KEEPALIVE") /\ UNCHANGED <<users, rcvq, sock, asked, told, tcp>>
    BY <1>10 DEF KeepaliveNoUser
  <2>2. CASE bufs' = Consumed /\ Continue
    BY <2>1, <2>2, SameUsers DEF Consumes, Continue, MsgType
  <2>3. CASE pc' = "dead" /\ UNCHANGED <<bufs, cur>>
    BY <2>1, <2>3, SameUsers, SameTcp DEF Message
  <2> QED
    BY <1>10, <2>2, <2>3 DEF KeepaliveNoUser
<1>11. CASE UnknownType
  BY <1>11, SameUsers DEF UnknownType, Consumes, Continue, MsgType
<1>12. CASE HartbeatUser
  <2>1. pc = "hartbeat" /\ UNCHANGED <<bufs, cur, backlog, tunq, asked, told>>
    BY <1>12 DEF HartbeatUser
  <2> QED
    BY <1>12, <2>1, HartbeatUserFacts DEF FreedStep
<1> QED
  BY <1>1, <1>2, <1>3, <1>4, <1>5, <1>6, <1>7, <1>8, <1>9, <1>10, <1>11, <1>12 DEF Server

LEMMA BufferCases ==
    ASSUME IInv, [Next]_vars
    PROVE  \/ Still \/ Consumes \/ IpRequest
           \/ \E c \in Conns : Connect(c)
           \/ \E c \in Conns, m \in MsgType : ClientSend(c, m)
           \/ \E f \in Fds : Accept(f)
           \/ \E f \in Fds : FreedStep(f)
           \/ \E f \in Fds : ReadData(f)
<1>1. CASE UNCHANGED vars
  BY <1>1, SameUsers, SameTcp DEF vars, program, kernel, clients, Still, Parsing, Up
<1> QED
  BY <1>1, BufferEnvironment, BufferServer DEF Next

---------------------------------------------------------------------------
(* Nothing is left behind.                                                 *)

\* An entry in use has been announced to its connection, unless the reply met a
\* reset.
HolderInv ==
    Up => \A i \in InUse :
        told[sock[users[i].fd]] = i \/ tcp[sock[users[i].fd]] = "dead"

\* Between two batches nothing of a connection with an address is in the
\* buffer, and no request at any time.
DrainedInv ==
    Up => \A f \in Fds :
        Open(f) /\ told[sock[f]] # NoAddr =>
            /\ Requests(bufs[f]) = {}
            /\ Parsing(f) \/ bufs[f] = <<>>

LEMMA InitHolder ==
    ASSUME Init
    PROVE  HolderInv /\ DrainedInv
  BY DEF Init, HolderInv, DrainedInv, InUse, Open

\* The connection of an entry, and of the descriptor in process_client.
LEMMA AcceptedFacts ==
    ASSUME IInv, Up
    PROVE  /\ \A i \in InUse : /\ users[i].fd \in Fds /\ Open(users[i].fd)
                               /\ sock[users[i].fd] \in Conns
                               /\ tcp[sock[users[i].fd]] \notin {"none", "closed"}
           /\ \A f \in Fds : Open(f) => sock[f] \in Conns
           /\ \A f, g \in Fds : Open(f) /\ sock[f] = sock[g] => f = g
  BY OwnerFacts, DistinctAssumption DEF IInv, TypeOK, SocketInv, Open

\* Who has been told an address holds it.
LEMMA ToldOwns ==
    ASSUME IInv, Up, NEW f \in Fds, Open(f), told[sock[f]] # NoAddr
    PROVE  Owned(f) /\ Requests(rcvq[sock[f]]) = {}
<1>1. told[sock[f]] \in InUse /\ users[told[sock[f]]].fd = f
  BY DEF IInv, AddressHeld, Open
<1> QED
  BY <1>1 DEF Owned, IInv, RequestInv, RequestsGranted

LEMMA HolderStep ==
    ASSUME IInv, HolderInv, [Next]_vars
    PROVE  HolderInv'
<1> USE DEF HolderInv
<1>1. CASE Quiet
  <2>1. InUse' = InUse /\ \A i \in InUse : users'[i].fd = users[i].fd
    BY <1>1, InUseQuiet DEF Quiet, SameOwners, InUse
  <2>2. ASSUME Up', NEW i \in InUse
        PROVE  told'[sock'[users'[i].fd]] = i \/ tcp'[sock'[users'[i].fd]] = "dead"
    <3>1. Up /\ sock[users[i].fd] \in Conns
      BY <1>1, <2>2, AcceptedFacts DEF Quiet
    <3> QED
      BY <1>1, <2>1, <3>1 DEF Quiet, TcpMonotone
  <2> QED
    BY <2>1, <2>2
<1>2. ASSUME NEW c \in Conns, Connect(c) PROVE HolderInv'
  <2>1. UNCHANGED <<users, sock, told, pc>> /\ tcp[c] = "none" /\ tcp' = [tcp EXCEPT ![c] = "est"]
    BY <1>2 DEF Connect, program, clients
  <2>2. InUse' = InUse /\ (Up' <=> Up)
    BY <2>1 DEF InUse, Up
  <2>3. \A i \in InUse : Up => tcp'[sock[users[i].fd]] = tcp[sock[users[i].fd]]
    BY <2>1, AcceptedFacts DEF IInv, TypeOK
  <2> QED
    BY <2>1, <2>2, <2>3
<1>3. ASSUME NEW f \in Fds, Accept(f) PROVE HolderInv'
  <2>1. UNCHANGED <<users, tcp, told, pc>>
    BY <1>3 DEF Accept, clients
  <2>2. InUse' = InUse /\ (Up' <=> Up)
    BY <2>1 DEF InUse, Up
  <2>3. ~Open(f) /\ \A g \in Fds : g # f => sock'[g] = sock[g]
    BY <1>3, AcceptFacts DEF IInv, TypeOK
  <2>4. \A i \in InUse : Up => sock'[users[i].fd] = sock[users[i].fd]
    BY <2>3, AcceptedFacts
  <2> QED
    BY <2>1, <2>2, <2>4
<1>4. ASSUME NEW f \in Fds, FreedStep(f) PROVE HolderInv'
  <2>1. Up /\ Freed(f) /\ told' = told
    BY <1>4 DEF FreedStep
  <2>2. /\ InUse' = {i \in InUse : users[i].fd # f}
        /\ \A i \in InUse' : users'[i].fd = users[i].fd
    BY <2>1, InUseFreed
  <2>3. /\ \A g \in Fds : g # f => sock'[g] = sock[g]
        /\ \A d \in Conns : d # sock[f] => tcp'[d] = tcp[d]
    BY <2>1 DEF Freed, IInv, TypeOK
  <2>4. \A i \in InUse' : sock[users[i].fd] \in Conns /\ sock[users[i].fd] # sock[f]
    BY <2>1, <2>2, AcceptedFacts
  <2>5. \A i \in InUse' : sock'[users'[i].fd] = sock[users[i].fd]
    BY <2>1, <2>2, <2>3, AcceptedFacts
  <2> QED
    BY <2>1, <2>2, <2>3, <2>4, <2>5
<1>5. CASE IpRequest
  <2> DEFINE c == sock[cur]
             i == Lowest(FreeIds)
  <2>1. /\ Up /\ i \in Addrs /\ users[i].is_free
        /\ cur \in Fds /\ cur \in epoll /\ c \in Conns
        /\ 1 \in Requests(bufs[cur])
        /\ users' = Allocated(i, cur)
        /\ TcpMonotone
        /\ pc' # "dead" =>
             /\ tcp[c] # "dead"
             /\ told' = [told EXCEPT ![c] = i] \/ (tcp'[c] = "dead" /\ told' = told)
    BY <1>5, IpRequestFacts
  <2>2. /\ InUse' = InUse \cup {i} /\ users'[i].fd = cur
        /\ \A j \in InUse : users'[j] = users[j]
    BY <2>1, InUseIpRequest
  <2>3. UNCHANGED sock
    BY <1>5 DEF IpRequest
  <2> HIDE DEF i, c
  <2>4. CASE pc' = "dead"
    BY <2>4 DEF Up
  <2>5. CASE pc' # "dead"
    <3>1. /\ tcp[c] # "dead"
          /\ told' = [told EXCEPT ![c] = i] \/ (tcp'[c] = "dead" /\ told' = told)
      BY <2>1, <2>5
    <3>2. told'[c] = i \/ tcp'[c] = "dead"
      BY <2>1, <3>1 DEF IInv, TypeOK
    <3>3. \A j \in InUse : sock[users[j].fd] \in Conns /\ sock[users[j].fd] # c
      <4>1. \A j \in InUse : users[j].fd # cur
        BY <2>1, <3>1, NoSecondAddress DEF c
      <4> QED
        BY <2>1, <4>1, AcceptedFacts DEF c
    <3>4. \A d \in Conns : d # c => told'[d] = told[d]
      BY <3>1 DEF IInv, TypeOK
    <3>5. \A j \in InUse : told'[sock[users[j].fd]] = j \/ tcp'[sock[users[j].fd]] = "dead"
      BY <2>1, <3>3, <3>4 DEF TcpMonotone
    <3> QED
      BY <2>2, <2>3, <3>2, <3>5 DEF c
  <2> QED
    BY <2>4, <2>5
<1> QED
  BY <1>1, <1>2, <1>3, <1>4, <1>5, StepCases


\* A buffer after a message was taken from it, or before.
LEMMA DrainedStill ==
    ASSUME IInv, DrainedInv, Still, ~TunWriteMayFail
    PROVE  DrainedInv'
<1>1. ASSUME Up', NEW f \in Fds, Open(f), told[sock[f]] # NoAddr
      PROVE  Requests(bufs'[f]) = {} /\ (Parsing(f)' \/ bufs'[f] = <<>>)
  BY <1>1 DEF Still, DrainedInv
<1> QED
  BY <1>1 DEF DrainedInv, Still, Open

LEMMA DrainedConsumes ==
    ASSUME IInv, DrainedInv, Consumes
    PROVE  DrainedInv'
<1>1. /\ Up /\ Parsing(cur) /\ bufs[cur] \in Seq(MsgType) /\ bufs[cur] # <<>>
      /\ bufs'[cur] = Tail(bufs[cur])
      /\ \A f \in Fds : f # cur => bufs'[f] = bufs[f]
  BY MessageFacts DEF Consumes, Message, Parsing
<1>2. Requests(bufs[cur]) = {} => Requests(bufs'[cur]) = {}
  BY <1>1, TailRequests
<1>3. UNCHANGED <<sock, told, pc, cur>>
  BY DEF Consumes
<1>4. ASSUME NEW f \in Fds, Open(f), told[sock[f]] # NoAddr
      PROVE  Requests(bufs'[f]) = {} /\ (Parsing(f)' \/ bufs'[f] = <<>>)
  <2>1. CASE f = cur
    BY <1>1, <1>2, <1>3, <1>4, <2>1 DEF DrainedInv, Parsing
  <2>2. CASE f # cur
    BY <1>1, <1>3, <1>4, <2>2 DEF DrainedInv, Parsing
  <2> QED
    BY <2>1, <2>2
<1> QED
  BY <1>3, <1>4 DEF DrainedInv, Open

LEMMA DrainedIpRequest ==
    ASSUME IInv, DrainedInv, IpRequest
    PROVE  DrainedInv'
<1> DEFINE c == sock[cur]
           i == Lowest(FreeIds)
<1>1. /\ Up /\ pc = "parse" /\ cur \in Fds /\ c \in Conns
      /\ bufs[cur] \in Seq(MsgType) /\ bufs[cur] # <<>>
      /\ Consumed[cur] = Tail(bufs[cur])
      /\ \A f \in Fds : f # cur => Consumed[f] = bufs[f]
      /\ Open(cur)
  BY MessageFacts DEF IpRequest, Message, MsgType
<1>2. /\ 1 \in Requests(bufs[cur])
      /\ \/ /\ pc' = "parse" /\ told' = [told EXCEPT ![c] = i]
            /\ bufs' = Consumed /\ UNCHANGED cur
         \/ pc' = "dispatch" /\ UNCHANGED <<told, bufs>>
         \/ pc' = "dead"
      /\ UNCHANGED sock
  BY IpRequestFacts DEF IpRequest
<1>3. told[c] = NoAddr
  BY <1>1, <1>2 DEF DrainedInv
<1>4. Requests(Tail(bufs[cur])) = {}
  BY <1>1, <1>2, TailRequests DEF IInv, RequestInv, RequestsRead
<1> HIDE DEF i, c
<1>5. CASE pc' = "dead"
  BY <1>5 DEF DrainedInv, Up
<1>6. CASE pc' = "dispatch" /\ UNCHANGED <<told, bufs>>
  <2>1. ASSUME NEW f \in Fds, Open(f), told[sock[f]] # NoAddr
        PROVE  Requests(bufs[f]) = {} /\ bufs[f] = <<>>
    <3>1. f # cur
      BY <1>3, <2>1 DEF c
    <3> QED
      BY <1>1, <2>1, <3>1 DEF DrainedInv, Parsing
  <2> QED
    BY <1>2, <1>6, <2>1 DEF DrainedInv, Open
<1>7. CASE /\ pc' = "parse" /\ told' = [told EXCEPT ![c] = i]
           /\ bufs' = Consumed /\ UNCHANGED cur
  <2>1. ASSUME NEW f \in Fds, Open(f), told'[sock[f]] # NoAddr
        PROVE  Requests(bufs'[f]) = {} /\ (Parsing(f)' \/ bufs'[f] = <<>>)
    <3>1. CASE f = cur
      BY <1>1, <1>4, <1>7, <3>1 DEF Parsing
    <3>2. CASE f # cur
      <4>1. sock[f] \in Conns /\ sock[f] # c
        BY <1>1, <2>1, <3>2, AcceptedFacts DEF c
      <4>2. told'[sock[f]] = told[sock[f]]
        BY <1>7, <4>1 DEF IInv, TypeOK
      <4> QED
        BY <1>1, <1>7, <2>1, <3>2, <4>2 DEF DrainedInv, Parsing
    <3> QED
      BY <3>1, <3>2
  <2> QED
    BY <1>2, <2>1 DEF DrainedInv, Open
<1> QED
  BY <1>2, <1>5, <1>6, <1>7

\* read() adds no request to the buffer of a connection that has its address.
LEMMA DrainedRead ==
    ASSUME IInv, DrainedInv, NEW f \in Fds, ReadData(f)
    PROVE  DrainedInv'
<1>1. /\ Up /\ pc = "dispatch" /\ pc' = "parse" /\ cur' = f
      /\ Open(f) /\ sock[f] \in Conns
      /\ UNCHANGED <<sock, told>>
  BY CurrentFacts DEF ReadData, Take, Up, clients, IInv, SocketInv
<1>2. \A g \in Fds : g # f => bufs'[g] = bufs[g]
  BY DEF ReadData, IInv, TypeOK
<1>3. RequestInv'
  BY RequestRead
<1>4. told[sock[f]] # NoAddr => Requests(bufs'[f]) = {}
  <2> SUFFICES ASSUME told[sock[f]] # NoAddr PROVE Requests(bufs'[f]) = {}
    OBVIOUS
  <2>1. bufs[f] = <<>> /\ Requests(rcvq[sock[f]]) = {}
    BY <1>1, ToldOwns DEF DrainedInv, Parsing
  <2> DEFINE q == rcvq[sock[f]]
             n == Least(Len(q), Room(f))
  <2>2. q \in Seq(MsgType)
    BY <1>1 DEF IInv, TypeOK
  <2>3. n \in Nat /\ n <= Len(q) /\ bufs' = [bufs EXCEPT ![f] = @ \o SubSeq(q, 1, n)]
    <3>1. Room(f) \in Int /\ Len(q) \in Nat
      BY <2>1, <2>2, ConstAssumption DEF Room
    <3> QED
      BY <3>1 DEF ReadData, Least
  <2>4. bufs'[f] = <<>> \o SubSeq(q, 1, n)
    BY <2>1, <2>3 DEF IInv, TypeOK
  <2> HIDE DEF n, q
  <2>5. /\ SubSeq(q, 1, n) \in Seq(MsgType) /\ Len(SubSeq(q, 1, n)) = n
        /\ \A k \in 1 .. n : SubSeq(q, 1, n)[k] = q[k]
    BY <2>2, <2>3
  <2>6. bufs'[f] = SubSeq(q, 1, n)
    BY <2>4, <2>5
  <2>7. \A k \in DOMAIN bufs'[f] : k \in DOMAIN q /\ bufs'[f][k] = q[k]
    BY <2>2, <2>3, <2>5, <2>6
  <2> QED
    BY <2>1, <2>7 DEF Requests, q
<1>5. ASSUME NEW g \in Fds, Open(g), told[sock[g]] # NoAddr
      PROVE  Requests(bufs'[g]) = {} /\ (Parsing(g)' \/ bufs'[g] = <<>>)
  <2>1. CASE g = f
    BY <1>1, <1>4, <1>5, <2>1 DEF Parsing
  <2>2. CASE g # f
    BY <1>1, <1>2, <1>5, <2>2 DEF DrainedInv, Parsing
  <2> QED
    BY <2>1, <2>2
<1> QED
  BY <1>1, <1>5 DEF DrainedInv, Open

LEMMA DrainedStep ==
    ASSUME IInv, DrainedInv, [Next]_vars, ~TunWriteMayFail
    PROVE  DrainedInv'
<1>1. ASSUME NEW c \in Conns, Connect(c) PROVE DrainedInv'
  BY <1>1 DEF Connect, program, clients, DrainedInv, Up, Open, Parsing
<1>2. ASSUME NEW c \in Conns, NEW m \in MsgType, ClientSend(c, m) PROVE DrainedInv'
  BY <1>2 DEF ClientSend, program, DrainedInv, Up, Open, Parsing
<1>3. ASSUME NEW f \in Fds, Accept(f) PROVE DrainedInv'
  <2>1. /\ UNCHANGED <<told, pc, cur>>
        /\ sock'[f] = Head(backlog) /\ told[Head(backlog)] = NoAddr
        /\ \A g \in Fds : g # f => sock'[g] = sock[g] /\ bufs'[g] = bufs[g]
    BY <1>3, AcceptFacts DEF Accept, clients, IInv, TypeOK
  <2>2. ASSUME Up, NEW g \in Fds, Open(g)', told'[sock'[g]] # NoAddr
        PROVE  Requests(bufs'[g]) = {} /\ (Parsing(g)' \/ bufs'[g] = <<>>)
    BY <2>1, <2>2 DEF DrainedInv, Open, Parsing
  <2> QED
    BY <2>1, <2>2 DEF DrainedInv, Up
<1>4. ASSUME NEW f \in Fds, FreedStep(f) PROVE DrainedInv'
  <2>1. /\ Up /\ UNCHANGED <<told, pc, cur, bufs>>
        /\ sock'[f] = NoConn
        /\ \A g \in Fds : g # f => sock'[g] = sock[g]
    BY <1>4 DEF FreedStep, Freed, IInv, TypeOK
  <2>2. ASSUME NEW g \in Fds, Open(g)', told'[sock'[g]] # NoAddr
        PROVE  Requests(bufs'[g]) = {} /\ (Parsing(g)' \/ bufs'[g] = <<>>)
    BY <2>1, <2>2 DEF DrainedInv, Open, Parsing
  <2> QED
    BY <2>2 DEF DrainedInv
<1> QED
  BY <1>1, <1>2, <1>3, <1>4, BufferCases, DrainedStill, DrainedConsumes, DrainedIpRequest,
     DrainedRead

\* process_client leaves nothing in the buffer of a connection that has its
\* address, unless the tun refuses a packet, whose message it keeps.
THEOREM NothingLeft ==
    ASSUME ~TunWriteMayFail
    PROVE  Spec => []NothingLeftBehind
<1>1. Init => IInv /\ DrainedInv
  BY InitInv, InitHolder
<1>2. IInv /\ DrainedInv /\ [Next]_vars => (IInv /\ DrainedInv)'
  BY StepInv, DrainedStep
<1>3. IInv /\ DrainedInv => NothingLeftBehind
  BY DEF DrainedInv, NothingLeftBehind, Parsing, Open
<1> QED
  BY <1>1, <1>2, <1>3, PTL DEF Spec

---------------------------------------------------------------------------
(* Who loses its address.                                                  *)

\* An entry is given back for its age, or because its connection has ended.
Justified(i) == users[i].recved > HARTBEAT_TIMEOUT \/ tcp[sock[users[i].fd]] # "est"

LEMMA KeptByOwners ==
    ASSUME SameOwners, NEW i \in InUse
    PROVE  ~users'[i].is_free
  BY DEF SameOwners, InUse

LEMMA KeptByHartbeat ==
    ASSUME IInv, HartbeatUser, NEW i \in InUse, users'[i].is_free
    PROVE  Justified(i)
<1> DEFINE h == Lowest(Todo)
           f == users[h].fd
           us == IF users[h].sent > HARTBEAT_INTERVAL THEN SentStamp(h) ELSE users
<1>1. Up /\ h \in InUse
  <2>1. Todo # {} /\ Todo \in SUBSET Nat
    <3>1. Ids \subseteq Nat
      BY PoolFacts DEF IInv
    <3> QED
      BY <3>1 DEF HartbeatUser, Todo, InUse
  <2>2. h \in Todo
    BY <2>1, LowestOf
  <2> QED
    BY <2>2 DEF Todo, HartbeatUser, Up
<1>2. f \in Fds /\ f \in epoll
  BY <1>1, OwnerFacts
<1>3. /\ us \in [Ids -> User]
      /\ \A j \in Ids : /\ us[j].is_free = users[j].is_free /\ us[j].fd = users[j].fd
                        /\ us[j].v4addr = users[j].v4addr
  BY <1>1 DEF SentStamp, User, InUse, IInv, TypeOK
<1>4. \/ users' = users \/ users' = us
      \/ Late(h) /\ FreeClientFd(us, f)
  BY DEF HartbeatUser
<1>5. i \in Ids /\ ~users[i].is_free
  BY DEF InUse
<1> HIDE DEF us, f, h
<1>6. Late(h) /\ FreeClientFd(us, f)
  BY <1>3, <1>4, <1>5
<1>7. Freed(f)
  BY <1>1, <1>2, <1>3, <1>6, FreedFacts
<1>8. users[i].fd = f
  BY <1>5, <1>7 DEF Freed
<1>9. i = h
  BY <1>1, <1>8 DEF IInv, TableMatchesSockets, f
<1> QED
  BY <1>6, <1>9 DEF Late, Justified

LEMMA KeptByRead ==
    ASSUME IInv, HolderInv, FreeOnEOF => DrainedInv,
           NEW f \in Fds, ReadNothing(f) \/ ReadError(f),
           NEW i \in InUse, users'[i].is_free
    PROVE  Justified(i)
<1>1. /\ Up /\ pc = "dispatch" /\ f \in pending \cap Fds
      /\ f \in epoll /\ Open(f)
  BY CurrentFacts DEF ReadNothing, ReadError, Take, Up, IInv, SocketInv
<1>2. i \in Ids /\ ~users[i].is_free
  BY DEF InUse
<1>3. Freed(f) /\ (ReadNothing(f) => FreeOnEOF)
  BY <1>2, ReadErrorFacts, ReadNothingFacts DEF ReadNothing
<1>4. users[i].fd = f
  BY <1>2, <1>3 DEF Freed
<1>5. CASE ReadError(f)
  BY <1>4, <1>5 DEF ReadError, Justified
<1>6. CASE ReadNothing(f) /\ tcp[sock[f]] # "dead"
  <2>1. told[sock[f]] = i
    BY <1>1, <1>4, <1>6 DEF HolderInv
  <2>2. i # NoAddr
    BY <1>2, ConstAssumption DEF Ids, NoAddr
  <2>3. bufs[f] = <<>>
    BY <1>1, <1>3, <1>6, <2>1, <2>2 DEF DrainedInv, Parsing
  <2>4. Room(f) # 0
    BY <2>3, ConstAssumption DEF Room
  <2> QED
    BY <1>4, <1>6, <2>4 DEF ReadNothing, Justified
<1>7. CASE tcp[sock[f]] = "dead"
  BY <1>4, <1>7 DEF Justified
<1> QED
  BY <1>5, <1>6, <1>7

LEMMA KeptStep ==
    ASSUME IInv, HolderInv, FreeOnEOF => DrainedInv, [Next]_vars,
           NEW i \in InUse, users'[i].is_free
    PROVE  Justified(i)
<1>1. ASSUME NEW c \in Conns, Connect(c) PROVE FALSE
  BY <1>1 DEF Connect, program, InUse
<1>2. ASSUME NEW c \in Conns, NEW m \in MsgType, ClientSend(c, m) PROVE FALSE
  BY <1>2 DEF ClientSend, program, InUse
<1>3. ~Still
  BY KeptByOwners DEF Still
<1>4. ~UNCHANGED vars
  BY DEF vars, program, InUse
<1>5. CASE Environment
  BY <1>1, <1>2, <1>3, <1>5, BufferEnvironment
<1>6. CASE IpRequest
  <2>1. PICK k \in Addrs : users[k].is_free /\ cur \in Fds /\ users' = Allocated(k, cur)
    BY <1>6, IpRequestFacts
  <2>2. users'[i] = users[i]
    BY <2>1, InUseIpRequest
  <2> QED
    BY <2>2 DEF InUse
<1>7. ASSUME NEW f \in Fds, Accept(f) \/ ReadData(f) PROVE FALSE
  BY <1>7 DEF Accept, ReadData, InUse
<1>8. ASSUME NEW f \in Fds, ReadNothing(f) \/ ReadError(f) PROVE Justified(i)
  BY <1>8, KeptByRead
<1>9. CASE HartbeatUser
  BY <1>9, KeptByHartbeat
<1>10. CASE Keepalive
  BY <1>10, KeepaliveOwners, KeptByOwners
<1>11. CASE EpollWait \/ BatchDone \/ AcceptFails \/ TunUnroutable \/ TunForward \/ HartbeatDone
  BY <1>11 DEF EpollWait, BatchDone, AcceptFails, TunUnroutable, TunForward, HartbeatDone, InUse
<1>12. CASE ParseDone \/ PoolFull \/ InetRequest \/ KeepaliveNoUser \/ UnknownType
  BY <1>12 DEF ParseDone, PoolFull, InetRequest, KeepaliveNoUser, UnknownType, InUse
<1> QED
  BY <1>4, <1>5, <1>6, <1>7, <1>8, <1>9, <1>10, <1>11, <1>12 DEF Next, Server

\* An address is taken only from a connection that ended or fell silent, unless
\* the server takes a full buffer for an end of file and the tun can fill it.
THEOREM LivePeerKeepsAddress ==
    ASSUME ~(FreeOnEOF /\ TunWriteMayFail)
    PROVE  Spec => LivePeerKept
<1> DEFINE Inv == IInv /\ HolderInv /\ (FreeOnEOF => DrainedInv)
<1>1. Init => Inv
  BY InitInv, InitHolder
<1>2. Inv /\ [Next]_vars => Inv'
  <2> SUFFICES ASSUME Inv, [Next]_vars PROVE Inv'
    OBVIOUS
  <2>1. IInv' /\ HolderInv'
    BY StepInv, HolderStep
  <2>2. FreeOnEOF => DrainedInv'
    BY DrainedStep
  <2> QED
    BY <2>1, <2>2
<1>3. Inv /\ [Next]_vars =>
          [ \A i \in InUse :
              users'[i].is_free => \/ users[i].recved > HARTBEAT_TIMEOUT
                                   \/ tcp[sock[users[i].fd]] # "est" ]_vars
  BY KeptStep DEF Justified
<1> QED
  BY <1>1, <1>2, <1>3, PTL DEF Spec, LivePeerKept

---------------------------------------------------------------------------
(* Frames and their holders.                                               *)

\* A connection that refused a frame never takes another.
RefusedGone == \A d \in refused : tcp[d] \in {"dead", "closed"}

\* What is left in the buffer of the tun begins with a packet for the address of
\* a connection that refused it.
LeftByRefused ==
    Up /\ pc # "hung" /\ tunbuf # <<>> =>
        \E d \in refused : told[d] = tunbuf[1]

FrameInv == RefusedGone /\ LeftByRefused /\ FramesToHolder

LEMMA RefusedStay ==
    ASSUME IInv, RefusedGone, [Next]_vars, UNCHANGED refused
    PROVE  RefusedGone'
<1> USE DEF RefusedGone
<1>1. refused \subseteq Conns
  BY DEF IInv, TypeOK
<1>2. CASE TcpMonotone
  BY <1>1, <1>2 DEF TcpMonotone
<1>3. ASSUME NEW c \in Conns, Connect(c) PROVE RefusedGone'
  BY <1>1, <1>3 DEF Connect, IInv, TypeOK
<1>4. ASSUME NEW f \in Fds, Accept(f) PROVE RefusedGone'
  BY <1>4 DEF Accept
<1>5. ASSUME NEW f \in Fds, FreedStep(f) PROVE RefusedGone'
  BY <1>1, <1>5 DEF FreedStep, Freed, IInv, TypeOK
<1>6. CASE IpRequest
  BY <1>2, <1>6, IpRequestFacts
<1> QED
  BY <1>2, <1>3, <1>4, <1>5, <1>6, StepCases DEF Quiet

\* A frame is taken by the holder of its first packet's address, or refused by it.
LEMMA FrameForward ==
    ASSUME IInv, HolderInv, FrameInv, TunForward
    PROVE  FrameInv'
<1>1. Up /\ pc = "dispatch" /\ TunFd \in pending /\ UserOfAddr(TunRead[1]) # {}
  BY DEF TunForward, Take, Up
<1> DEFINE a == TunRead[1]
           all == {TunRead[k] : k \in DOMAIN TunRead}
<1>2. /\ TunRead # <<>> /\ a \in Addrs /\ a \in all
      /\ tunbuf # <<>> => a = tunbuf[1]
      /\ tunbuf = <<>> => all = {a}
  BY <1>1, TunReadFacts
<1> DEFINE i == Lowest(UserOfAddr(a))
           c == sock[users[i].fd]
<1>3. i \in UserOfAddr(a) /\ i \in InUse
  <2>1. UserOfAddr(a) # {} /\ UserOfAddr(a) \subseteq InUse /\ UserOfAddr(a) \in SUBSET Nat
    BY <1>1, <1>2, PoolFacts DEF IInv
  <2> QED
    BY <2>1, LowestOf
<1>4. i = a
  BY <1>1, <1>3 DEF UserOfAddr, IInv, TableMatchesSockets
<1>5. c \in Conns /\ (told[c] = a \/ tcp[c] = "dead") /\ tcp[c] \notin {"none", "closed"}
  BY <1>1, <1>3, <1>4, AcceptedFacts DEF HolderInv
<1>6. PICK o \in WriteOutcomes(tcp[c], 2) :
          /\ tcp' = [tcp EXCEPT ![c] = o[2]]
          /\ tunbuf' = TunRest(o[1])
          /\ got' = IF o[1] = "ok" THEN [got EXCEPT ![c] = @ \cup all] ELSE got
          /\ refused' = IF o[1] = "err" THEN refused \cup {c} ELSE refused
          /\ pc' = IF o[1] = "sigpipe" THEN "dead" ELSE pc
  BY DEF TunForward
<1>7. told' = told /\ got \in [Conns -> SUBSET Addrs] /\ tcp \in [Conns -> TcpState]
  BY DEF TunForward, IInv, TypeOK
<1>8. \/ o[1] = "ok" /\ tcp[c] \in {"est", "fin"}
      \/ o[1] = "err" /\ tcp[c] = "rst" /\ o[2] = "dead"
      \/ o[1] = "sigpipe"
  BY <1>5, <1>7 DEF WriteOutcomes, TcpState
<1> HIDE DEF c, i, a, all
<1>9. CASE o[1] = "ok" /\ tcp[c] \in {"est", "fin"}
  <2>1. told[c] = a /\ c \notin refused /\ refused' = refused
    BY <1>5, <1>6, <1>9 DEF FrameInv, RefusedGone
  <2>2. LeftByRefused'
    BY <1>6, <1>9 DEF TunRest, LeftByRefused
  <2>3. got' = [got EXCEPT ![c] = @ \cup all]
    BY <1>6, <1>9
  <2>4. got'[c] = got[c] \cup all /\ \A d \in Conns : d # c => got'[d] = got[d]
    BY <1>5, <1>7, <2>3
  <2>5. tunbuf # <<>> => \E d \in refused \ {c} : told[d] = told[c]
    BY <1>1, <1>2, <2>1 DEF FrameInv, LeftByRefused, a
  <2>6. /\ a \in got'[c]
        /\ got'[c] = {a} \/ \E d \in refused \ {c} : told[d] = told[c]
    BY <1>2, <1>5, <2>1, <2>4, <2>5 DEF FrameInv, FramesToHolder
  <2>7. FramesToHolder'
    BY <1>7, <2>1, <2>4, <2>6 DEF FrameInv, FramesToHolder
  <2>8. RefusedGone'
    BY <2>1, RefusedStay DEF FrameInv, Next, Server
  <2> QED
    BY <2>2, <2>7, <2>8 DEF FrameInv
<1>10. CASE o[1] = "err" /\ tcp[c] = "rst" /\ o[2] = "dead"
  <2>1. told[c] = a /\ refused' = refused \cup {c} /\ got' = got /\ tunbuf' = TunRead
    BY <1>5, <1>6, <1>10 DEF TunRest
  <2>2. LeftByRefused'
    <3>1. tunbuf'[1] = a
      BY <2>1 DEF a
    <3> QED
      BY <1>7, <2>1, <3>1 DEF LeftByRefused
  <2>3. FramesToHolder'
    BY <1>7, <2>1 DEF FrameInv, FramesToHolder
  <2>4. RefusedGone'
    <3>1. tcp'[c] = "dead" /\ \A d \in Conns : d # c => tcp'[d] = tcp[d]
      BY <1>5, <1>6, <1>7, <1>10
    <3>2. refused \subseteq Conns
      BY DEF IInv, TypeOK
    <3> QED
      BY <2>1, <3>1, <3>2 DEF FrameInv, RefusedGone
  <2> QED
    BY <2>2, <2>3, <2>4 DEF FrameInv
<1>11. CASE o[1] = "sigpipe"
  <2>1. refused' = refused /\ got' = got /\ pc' = "dead"
    BY <1>6, <1>11
  <2>2. RefusedGone'
    BY <2>1, RefusedStay DEF FrameInv, Next, Server
  <2> QED
    BY <1>7, <2>1, <2>2 DEF FrameInv, FramesToHolder, LeftByRefused, Up
<1> QED
  BY <1>8, <1>9, <1>10, <1>11

\* Nothing was sent to a connection before it was told its address, and it has
\* refused nothing.
LEMMA FrameGrant ==
    ASSUME IInv, FrameInv, IpRequest
    PROVE  FrameInv'
<1> DEFINE c == sock[cur]
           i == Lowest(FreeIds)
<1>1. UNCHANGED <<tunbuf, got, refused>> /\ pc = "parse"
  BY DEF IpRequest, Message
<1>2. /\ Up /\ cur \in Fds /\ cur \in epoll /\ c \in Conns
      /\ 1 \in Requests(bufs[cur])
      /\ told' = told \/ (tcp[c] # "dead" /\ told' = [told EXCEPT ![c] = i])
  BY IpRequestFacts
<1>3. Open(cur) /\ tcp[c] # "closed" /\ refused \subseteq Conns /\ NoAddr \notin Addrs
  BY <1>2, AcceptedFacts, PoolFacts DEF IInv, SocketInv, TypeOK, Open
<1>4. RefusedGone'
  BY <1>1, RefusedStay DEF FrameInv, Next, Server
<1> HIDE DEF i
<1>5. \A d \in refused : told'[d] = told[d]
  <2>1. tcp[c] # "dead" => c \notin refused
    BY <1>3 DEF FrameInv, RefusedGone
  <2> QED
    BY <1>2, <1>3, <2>1 DEF IInv, TypeOK
<1>6. LeftByRefused'
  BY <1>1, <1>2, <1>5 DEF FrameInv, LeftByRefused, Up
<1>7. ASSUME NEW d \in Conns, got[d] # {} PROVE told'[d] = told[d]
  <2>1. CASE told' = told
    BY <2>1
  <2>2. CASE tcp[c] # "dead" /\ told' = [told EXCEPT ![c] = i]
    <3>1. ~Owned(cur)
      BY <1>2, <2>2, NoSecondAddress DEF Owned
    <3>2. told[c] = NoAddr
      BY <1>2, <1>3, <3>1, ToldOwns
    <3>3. d # c
      BY <1>3, <1>7, <3>2 DEF FrameInv, FramesToHolder, IInv, TypeOK
    <3> QED
      BY <2>2, <3>3 DEF IInv, TypeOK
  <2> QED
    BY <1>2, <2>1, <2>2
<1>8. FramesToHolder'
  BY <1>1, <1>5, <1>7 DEF FrameInv, FramesToHolder
<1> QED
  BY <1>4, <1>6, <1>8 DEF FrameInv

LEMMA FrameStep ==
    ASSUME IInv, HolderInv, FrameInv, [Next]_vars
    PROVE  FrameInv'
<1>1. UNCHANGED refused => RefusedGone'
  BY RefusedStay DEF FrameInv
<1>2. CASE /\ UNCHANGED <<told, got, refused, tunbuf>>
           /\ (Up' /\ pc' # "hung" => Up /\ pc # "hung")
  BY <1>1, <1>2 DEF FrameInv, FramesToHolder, LeftByRefused
<1>3. CASE TunForward
  BY <1>3, FrameForward
<1>4. CASE IpRequest
  BY <1>4, FrameGrant
<1>5. CASE TunUnroutable
  BY <1>1, <1>5 DEF TunUnroutable, FrameInv, FramesToHolder, LeftByRefused, clients
<1>6. CASE Environment
  <2>1. UNCHANGED <<told, got, refused, tunbuf, pc>>
    BY <1>6 DEF Environment, Connect, ClientSend, ClientClose, TunArrive, Tick, program, clients
  <2> QED
    BY <1>2, <2>1 DEF Up
<1>7. CASE UNCHANGED vars
  BY <1>2, <1>7 DEF vars, program, clients, Up
<1>8. CASE Server
  <2>1. ASSUME NEW f \in Fds, Accept(f) \/ ReadData(f) \/ ReadNothing(f) \/ ReadError(f)
        PROVE  FrameInv'
    BY <1>2, <2>1 DEF Accept, ReadData, ReadNothing, ReadError, Take, clients, Up
  <2>2. CASE EpollWait \/ BatchDone \/ AcceptFails \/ HartbeatUser \/ HartbeatDone
    BY <1>2, <2>2 DEF EpollWait, BatchDone, AcceptFails, HartbeatUser, HartbeatDone, Take,
                      clients, Up
  <2>3. CASE ParseDone \/ PoolFull \/ InetRequest \/ Keepalive \/ KeepaliveNoUser \/ UnknownType
    BY <1>2, <2>3 DEF ParseDone, PoolFull, InetRequest, Keepalive, KeepaliveNoUser, UnknownType,
                      Message, clients, Up
  <2> QED
    BY <1>3, <1>4, <1>5, <1>8, <2>1, <2>2, <2>3 DEF Server
<1> QED
  BY <1>6, <1>7, <1>8 DEF Next

\* A frame holds a packet for another address than that of the connection it is sent
\* on only after an earlier holder of the same address refused a frame (process_tun).
THEOREM FramesReachHolder == Spec => []FramesToHolder
<1>1. Init => IInv /\ HolderInv /\ FrameInv
  BY InitInv, InitHolder DEF Init, FrameInv, FramesToHolder, RefusedGone, LeftByRefused
<1>2. IInv /\ HolderInv /\ FrameInv /\ [Next]_vars => (IInv /\ HolderInv /\ FrameInv)'
  BY StepInv, HolderStep, FrameStep
<1>3. FrameInv => FramesToHolder
  BY DEF FrameInv
<1> QED
  BY <1>1, <1>2, <1>3, PTL DEF Spec

---------------------------------------------------------------------------
(* The request comes first.                                                *)

\* A client that does not hurry sends its request first: until it is answered the
\* request is in front of all that the server has of the connection.
RequestFirst ==
    /\ \A c \in Conns : c \notin asked => rcvq[c] = <<>>
    /\ \A c \in Conns :
          c \in asked /\ tcp[c] # "closed" /\ (\A f \in Fds : sock[f] # c)
              => HasRequestFirst(rcvq[c])
    /\ Up => \A f \in Fds : Open(f) =>
          /\ sock[f] \notin asked => bufs[f] = <<>>
          /\ sock[f] \in asked /\ ~Owned(f) =>
                \/ HasRequestFirst(bufs[f])
                \/ bufs[f] = <<>> /\ HasRequestFirst(rcvq[sock[f]])

LEMMA OwnedSame ==
    ASSUME SameOwners
    PROVE  \A f : Owned(f)' <=> Owned(f)
<1>1. InUse' = InUse /\ \A i \in InUse : users'[i].fd = users[i].fd
  BY InUseQuiet DEF SameOwners, InUse
<1> QED
  BY <1>1 DEF Owned

LEMMA FirstStill ==
    ASSUME IInv, RequestFirst, Still
    PROVE  RequestFirst'
  BY OwnedSame DEF RequestFirst, Still, TcpMonotone, Open

LEMMA FirstConsumes ==
    ASSUME IInv, RequestFirst, Consumes
    PROVE  RequestFirst'
<1>1. PICK m \in MsgType \ {"IP_REQUEST"} : Message(m)
  BY DEF Consumes
<1>2. /\ Up /\ cur \in Fds /\ Open(cur) /\ bufs[cur] # <<>> /\ Head(bufs[cur]) # "IP_REQUEST"
      /\ \A f \in Fds : f # cur => bufs'[f] = bufs[f]
  BY <1>1, MessageFacts DEF Consumes
<1>3. sock[cur] \in asked /\ Owned(cur)
  BY <1>2 DEF RequestFirst, HasRequestFirst
<1> QED
  BY <1>2, <1>3, OwnedSame DEF RequestFirst, Consumes, Open, Up

LEMMA FirstIpRequest ==
    ASSUME IInv, RequestFirst, IpRequest
    PROVE  RequestFirst'
<1>1. /\ Up /\ cur \in Fds /\ Open(cur) /\ bufs[cur] # <<>>
      /\ \A f \in Fds : f # cur => Consumed[f] = bufs[f]
  BY MessageFacts DEF IpRequest, MsgType
<1>2. /\ TcpMonotone
      /\ bufs' = bufs \/ bufs' = Consumed
      /\ UNCHANGED <<sock, rcvq, asked>>
  BY IpRequestFacts DEF IpRequest
<1>3. PICK i \in Addrs : users[i].is_free /\ users' = Allocated(i, cur)
  BY IpRequestFacts
<1>4. /\ InUse' = InUse \cup {i} /\ users'[i].fd = cur
      /\ \A j \in InUse : users'[j] = users[j]
  BY <1>1, <1>3, InUseIpRequest
<1>5. \A f : f = cur \/ Owned(f) => Owned(f)'
  <2>1. ASSUME NEW f, f = cur PROVE Owned(f)'
    <3>1. i \in InUse' /\ users'[i].fd = f
      BY <1>4, <2>1
    <3> QED
      BY <3>1 DEF Owned
  <2>2. ASSUME NEW f, NEW j \in InUse, users[j].fd = f PROVE Owned(f)'
    <3>1. j \in InUse' /\ users'[j].fd = f
      BY <1>4, <2>2
    <3> QED
      BY <3>1 DEF Owned
  <2> QED
    BY <2>1, <2>2 DEF Owned
<1>6. sock[cur] \in asked
  BY <1>1 DEF RequestFirst
<1>7. ASSUME NEW f \in Fds, Open(f)
      PROVE  /\ sock[f] \notin asked => bufs'[f] = <<>>
             /\ sock[f] \in asked /\ ~Owned(f)' =>
                   \/ HasRequestFirst(bufs'[f])
                   \/ bufs'[f] = <<>> /\ HasRequestFirst(rcvq[sock[f]])
  <2>1. CASE f = cur
    BY <1>5, <1>6, <2>1
  <2>2. CASE f # cur
    <3>1. bufs'[f] = bufs[f]
      BY <1>1, <1>2, <2>2
    <3> QED
      BY <1>1, <1>5, <1>7, <3>1 DEF RequestFirst
  <2> QED
    BY <2>1, <2>2
<1>8. \A d \in Conns : tcp'[d] # "closed" => tcp[d] # "closed"
  BY <1>2 DEF TcpMonotone
<1> QED
  BY <1>2, <1>7, <1>8 DEF RequestFirst, Open

LEMMA FirstConnect ==
    ASSUME IInv, RequestFirst, NEW c \in Conns, Connect(c)
    PROVE  RequestFirst'
<1>1. /\ UNCHANGED <<users, pc, bufs, rcvq, sock, asked>>
      /\ \A d \in Conns : tcp'[d] # "closed" => tcp[d] # "closed"
  BY DEF Connect, program, clients, IInv, TypeOK
<1>2. \A f : Owned(f)' <=> Owned(f)
  BY <1>1, SameUsers, OwnedSame
<1> QED
  BY <1>1, <1>2 DEF RequestFirst, Open, Up

LEMMA FirstSend ==
    ASSUME IInv, RequestFirst, ~SlowStart, NEW c \in Conns, NEW m \in MsgType, ClientSend(c, m)
    PROVE  RequestFirst'
<1>1. /\ UNCHANGED <<users, pc, bufs, sock, tcp>>
      /\ rcvq[c] \in Seq(MsgType) /\ rcvq'[c] = Append(rcvq[c], m)
      /\ \A d \in Conns : d # c => rcvq'[d] = rcvq[d]
      /\ \/ m = "IP_REQUEST" /\ c \notin asked /\ asked' = asked \cup {c}
         \/ m # "IP_REQUEST" /\ c \in asked /\ asked' = asked
  BY ConstAssumption DEF ClientSend, program, IInv, TypeOK
<1>2. \A f : Owned(f)' <=> Owned(f)
  BY <1>1, SameUsers, OwnedSame
<1>3. HasRequestFirst(rcvq[c]) => HasRequestFirst(rcvq'[c])
  BY <1>1 DEF HasRequestFirst
<1>4. c \in asked' /\ (c \notin asked => HasRequestFirst(rcvq'[c]))
  BY <1>1 DEF RequestFirst, HasRequestFirst
<1>5. ASSUME NEW d \in Conns
      PROVE  /\ d \notin asked' => rcvq'[d] = <<>>
             /\ d \in asked' /\ tcp[d] # "closed" /\ (\A f \in Fds : sock[f] # d)
                  => HasRequestFirst(rcvq'[d])
  BY <1>1, <1>3, <1>4 DEF RequestFirst
<1>6. ASSUME Up, NEW f \in Fds, Open(f)
      PROVE  /\ sock[f] \notin asked' => bufs[f] = <<>>
             /\ sock[f] \in asked' /\ ~Owned(f) =>
                   \/ HasRequestFirst(bufs[f])
                   \/ bufs[f] = <<>> /\ HasRequestFirst(rcvq'[sock[f]])
  <2>1. sock[f] \in Conns
    BY <1>6, AcceptedFacts
  <2>2. CASE sock[f] = c
    BY <1>1, <1>3, <1>4, <1>6, <2>2 DEF RequestFirst
  <2>3. CASE sock[f] # c
    BY <1>1, <1>6, <2>1, <2>3 DEF RequestFirst
  <2> QED
    BY <2>2, <2>3
<1> QED
  BY <1>1, <1>2, <1>5, <1>6 DEF RequestFirst, Open, Up

LEMMA FirstAccept ==
    ASSUME IInv, RequestFirst, NEW f \in Fds, Accept(f)
    PROVE  RequestFirst'
<1> DEFINE c == Head(backlog)
<1>1. /\ UNCHANGED <<users, pc, tcp, rcvq, asked>>
      /\ bufs'[f] = <<>> /\ sock'[f] = c /\ ~Open(f)
      /\ c \in Conns /\ tcp[c] # "closed" /\ \A g \in Fds : sock[g] # c
      /\ \A g \in Fds : g # f => sock'[g] = sock[g] /\ bufs'[g] = bufs[g]
  BY AcceptFacts DEF Accept, clients, IInv, TypeOK
<1> HIDE DEF c
<1>2. \A g : Owned(g)' <=> Owned(g)
  BY <1>1, SameUsers, OwnedSame
<1>3. c \in asked => HasRequestFirst(rcvq[c])
  BY <1>1 DEF RequestFirst
<1>4. \A d \in Conns : (\A g \in Fds : sock'[g] # d) => \A g \in Fds : sock[g] # d
  BY <1>1, DistinctAssumption DEF Open
<1>5. ASSUME Up, NEW g \in Fds, Open(g)'
      PROVE  /\ sock'[g] \notin asked => bufs'[g] = <<>>
             /\ sock'[g] \in asked /\ ~Owned(g) =>
                   \/ HasRequestFirst(bufs'[g])
                   \/ bufs'[g] = <<>> /\ HasRequestFirst(rcvq[sock'[g]])
  BY <1>1, <1>3, <1>5 DEF RequestFirst, Open
<1>6. \A d \in Conns : d \in asked /\ tcp[d] # "closed" /\ (\A g \in Fds : sock'[g] # d)
                          => HasRequestFirst(rcvq[d])
  BY <1>4 DEF RequestFirst
<1> QED
  BY <1>1, <1>2, <1>5, <1>6 DEF RequestFirst, Up

LEMMA FirstFreed ==
    ASSUME IInv, RequestFirst, NEW f \in Fds, FreedStep(f)
    PROVE  RequestFirst'
<1> DEFINE c == sock[f]
<1>1. /\ Up /\ Freed(f) /\ UNCHANGED <<pc, bufs, asked>>
      /\ c \in Conns /\ Open(f)
      /\ sock'[f] = NoConn /\ \A g \in Fds : g # f => sock'[g] = sock[g]
      /\ tcp'[c] = "closed" /\ rcvq'[c] = <<>>
      /\ \A d \in Conns : d # c => tcp'[d] = tcp[d] /\ rcvq'[d] = rcvq[d]
  BY DistinctAssumption DEF FreedStep, Freed, IInv, TypeOK, Open
<1>2. /\ InUse' = {i \in InUse : users[i].fd # f}
      /\ \A i \in InUse' : users'[i].fd = users[i].fd
  BY <1>1, InUseFreed
<1>3. \A g \in Fds : g # f /\ Owned(g) => Owned(g)'
  BY <1>2 DEF Owned
<1>4. \A g \in Fds : g # f /\ Open(g) => sock[g] \in Conns /\ sock[g] # c
  BY <1>1, AcceptedFacts
<1> HIDE DEF c
<1>5. ASSUME NEW g \in Fds, Open(g)'
      PROVE  /\ sock'[g] \notin asked => bufs[g] = <<>>
             /\ sock'[g] \in asked /\ ~Owned(g)' =>
                   \/ HasRequestFirst(bufs[g])
                   \/ bufs[g] = <<>> /\ HasRequestFirst(rcvq'[sock'[g]])
  <2>1. g # f /\ sock'[g] = sock[g] /\ Open(g)
    BY <1>1, <1>5 DEF Open
  <2>2. rcvq'[sock[g]] = rcvq[sock[g]]
    BY <1>1, <1>4, <2>1
  <2> QED
    BY <1>1, <1>3, <2>1, <2>2 DEF RequestFirst
<1>6. ASSUME NEW d \in Conns
      PROVE  /\ d \notin asked => rcvq'[d] = <<>>
             /\ d \in asked /\ tcp'[d] # "closed" /\ (\A g \in Fds : sock'[g] # d)
                  => HasRequestFirst(rcvq'[d])
  <2>1. CASE d = c
    BY <1>1, <2>1
  <2>2. CASE d # c
    <3>1. (\A g \in Fds : sock'[g] # d) => \A g \in Fds : sock[g] # d
      BY <1>1, <2>2 DEF c
    <3> QED
      BY <1>1, <2>2, <3>1 DEF RequestFirst
  <2> QED
    BY <2>1, <2>2
<1> QED
  BY <1>1, <1>5, <1>6 DEF RequestFirst

\* The head of two queues in a row.
LEMMA HeadOfJoined ==
    ASSUME NEW S, NEW s \in Seq(S), NEW t \in Seq(S), s # <<>>
    PROVE  s \o t # <<>> /\ Head(s \o t) = Head(s)
  OBVIOUS

\* And the head of a first part.
LEMMA HeadOfPrefix ==
    ASSUME NEW S, NEW q \in Seq(S), NEW n \in Nat, n > 0, n <= Len(q)
    PROVE  SubSeq(q, 1, n) \in Seq(S) /\ SubSeq(q, 1, n) # <<>> /\ Head(SubSeq(q, 1, n)) = Head(q)
<1> DEFINE t == SubSeq(q, 1, n)
<1>1. t \in Seq(S) /\ Len(t) = n /\ t[1] = q[1]
  OBVIOUS
<1> HIDE DEF t
<1>2. t # <<>> /\ Head(t) = t[1]
  BY <1>1
<1>3. Head(q) = q[1]
  OBVIOUS
<1> QED
  BY <1>1, <1>2, <1>3 DEF t

LEMMA FirstRead ==
    ASSUME IInv, RequestFirst, NEW f \in Fds, ReadData(f)
    PROVE  RequestFirst'
<1> DEFINE c == sock[f]
           q == rcvq[c]
           n == Least(Len(q), Room(f))
<1>1. /\ UNCHANGED <<users, tcp, sock, asked>> /\ Up
      /\ Open(f) /\ c \in Conns /\ q \in Seq(MsgType) /\ bufs[f] \in Seq(MsgType)
      /\ \A d \in Conns : d # c => rcvq'[d] = rcvq[d]
      /\ \A g \in Fds : g # f => bufs'[g] = bufs[g]
  BY CurrentFacts DEF ReadData, Take, Up, clients, IInv, SocketInv, TypeOK
<1>2. /\ n \in Nat /\ n > 0 /\ n <= Len(q)
      /\ bufs'[f] = bufs[f] \o SubSeq(q, 1, n)
  <2>1. Room(f) \in Int /\ Len(q) \in Nat
    BY <1>1, ConstAssumption DEF Room
  <2>2. n \in Nat /\ n > 0 /\ n <= Len(q) /\ bufs' = [bufs EXCEPT ![f] = @ \o SubSeq(q, 1, n)]
    BY <2>1 DEF ReadData, Least
  <2> QED
    BY <2>2 DEF IInv, TypeOK
<1>3. c \in asked
  BY <1>1, <1>2 DEF RequestFirst
<1>4. \A g : Owned(g)' <=> Owned(g)
  BY <1>1, SameUsers, OwnedSame
<1>5. ~Owned(f) => HasRequestFirst(bufs'[f])
  <2> SUFFICES ASSUME ~Owned(f) PROVE HasRequestFirst(bufs'[f])
    OBVIOUS
  <2>1. \/ HasRequestFirst(bufs[f])
        \/ bufs[f] = <<>> /\ HasRequestFirst(q)
    <3>1. Up /\ Open(f) /\ sock[f] \in asked
      BY <1>1, <1>3
    <3> QED
      BY <3>1 DEF RequestFirst
  <2> HIDE DEF n, q
  <2>2. /\ SubSeq(q, 1, n) \in Seq(MsgType) /\ SubSeq(q, 1, n) # <<>>
        /\ Head(SubSeq(q, 1, n)) = Head(q)
    BY <1>1, <1>2, HeadOfPrefix
  <2>3. CASE HasRequestFirst(bufs[f])
    BY <1>1, <1>2, <2>2, <2>3, HeadOfJoined DEF HasRequestFirst
  <2>4. CASE bufs[f] = <<>> /\ HasRequestFirst(q)
    BY <1>1, <1>2, <2>2, <2>4 DEF HasRequestFirst
  <2> QED
    BY <2>1, <2>3, <2>4
<1> HIDE DEF n, q
<1>6. ASSUME NEW g \in Fds, Open(g)
      PROVE  /\ sock[g] \notin asked => bufs'[g] = <<>>
             /\ sock[g] \in asked /\ ~Owned(g) =>
                   \/ HasRequestFirst(bufs'[g])
                   \/ bufs'[g] = <<>> /\ HasRequestFirst(rcvq'[sock[g]])
  <2>1. CASE g = f
    BY <1>3, <1>5, <2>1
  <2>2. CASE g # f
    <3>1. sock[g] \in Conns /\ sock[g] # c
      BY <1>1, <1>6, <2>2, AcceptedFacts
    <3> QED
      BY <1>1, <1>6, <2>2, <3>1 DEF RequestFirst
  <2> QED
    BY <2>1, <2>2
<1>7. ASSUME NEW d \in Conns
      PROVE  /\ d \notin asked => rcvq'[d] = <<>>
             /\ d \in asked /\ tcp[d] # "closed" /\ (\A g \in Fds : sock[g] # d)
                  => HasRequestFirst(rcvq'[d])
  BY <1>1, <1>3 DEF RequestFirst
<1> QED
  BY <1>1, <1>4, <1>6, <1>7 DEF RequestFirst, Open

\* A keepalive is only ever at the front of the buffer of a connection with an
\* entry, unless a client sends one before its request.
THEOREM KeepaliveHasUser ==
    ASSUME ~SlowStart
    PROVE  Spec => []KeepaliveFindsUser
<1>1. Init => IInv /\ RequestFirst
  BY InitInv DEF Init, RequestFirst, Open
<1>2. IInv /\ RequestFirst /\ [Next]_vars => (IInv /\ RequestFirst)'
  BY StepInv, BufferCases, FirstStill, FirstConsumes, FirstIpRequest, FirstConnect, FirstSend,
     FirstAccept, FirstFreed, FirstRead
<1>3. IInv /\ RequestFirst => KeepaliveFindsUser
  <2> SUFFICES ASSUME IInv, RequestFirst, Message("KEEPALIVE")
               PROVE  UserOfFd(cur) # {}
    BY DEF KeepaliveFindsUser
  <2>1. Up /\ cur \in Fds /\ Open(cur) /\ bufs[cur] # <<>> /\ Head(bufs[cur]) # "IP_REQUEST"
    BY MessageFacts DEF MsgType
  <2>2. Owned(cur)
    BY <2>1 DEF RequestFirst, HasRequestFirst
  <2> QED
    BY <2>2 DEF Owned, UserOfFd, InUse
<1> QED
  BY <1>1, <1>2, <1>3, PTL DEF Spec

=============================================================================
