------------------------- MODULE EpollServer_proofs -------------------------
(***************************************************************************)
(* Proofs about EpollServer, for any number of connections, descriptors,   *)
(* addresses and for every variant of the server.                          *)
(*                                                                         *)
(* IInv is the inductive invariant.  Most of it says how the table of      *)
(* users, the descriptors and the connections refer to each other.  The    *)
(* part one would not guess is RequestInv: that a connection never takes a *)
(* second address depends on its request being consumed with the reply, or *)
(* on the connection being in a state where the next write kills the       *)
(* process.                                                                *)
(***************************************************************************)
EXTENDS EpollServer, WellFoundedInduction, TLAPS

\* Where the requests are in a queue of messages.
Requests(s) == {k \in DOMAIN s : s[k] = "IP_REQUEST"}
Open(f) == sock[f] # NoConn

\* The reserved entries are neither free nor anybody's; any other entry is free
\* exactly when it names no descriptor.
ReservedInv ==
    /\ \A i \in Reserved :
          ~users[i].is_free /\ users[i].fd = NoFd /\ users[i].v4addr = NoAddr
    /\ \A i \in Addrs : users[i].is_free <=> users[i].fd = NoFd

\* A connection is in accept()'s queue, or behind one descriptor, or neither.
SocketInv ==
    /\ \A f \in epoll : Open(f)
    /\ \A f \in Fds : Open(f) => tcp[sock[f]] \notin {"none", "closed"}
    /\ \A f, g \in Fds : Open(f) /\ sock[f] = sock[g] => f = g
    /\ \A k \in DOMAIN backlog :
          /\ tcp[backlog[k]] \notin {"none", "closed"}
          /\ \A f \in Fds : sock[f] # backlog[k]
    /\ \A j, k \in DOMAIN backlog : backlog[j] = backlog[k] => j = k

\* Every event of the batch is still true when its turn comes.
EventInv ==
    /\ \A f \in pending \cap Fds : f \in epoll /\ Readable(sock[f])
    /\ ServerFd \in pending => backlog # <<>>
    /\ TunFd \in pending => tunq # <<>>
    /\ pc = "parse" => cur \in epoll
    /\ pc \in {"wait", "hartbeat"} => pending = {}

\* A connection has at most one request on its way, and none once it has its
\* entry, unless the reply met a reset: then the connection is dead.
RequestsQueued ==
    \A c \in Conns :
        /\ c \notin asked => Requests(rcvq[c]) = {}
        /\ \A j, k \in Requests(rcvq[c]) : j = k

RequestsRead ==
    \A f \in Fds : Open(f) =>
        /\ sock[f] \notin asked => Requests(bufs[f]) = {}
        /\ \A j, k \in Requests(bufs[f]) : j = k
        /\ Requests(bufs[f]) # {} => Requests(rcvq[sock[f]]) = {}

RequestsGranted ==
    Up => \A i \in InUse :
        /\ sock[users[i].fd] \in asked
        /\ Requests(rcvq[sock[users[i].fd]]) = {}
        /\ Requests(bufs[users[i].fd]) # {} => tcp[sock[users[i].fd]] = "dead"

RequestInv == RequestsQueued /\ RequestsRead /\ RequestsGranted

\* Only a connection that was accepted and asked has been told an address.
ToldInv ==
    \A c \in Conns : told[c] # NoAddr =>
        /\ c \in asked
        /\ tcp[c] # "none"
        /\ \A k \in DOMAIN backlog : backlog[k] # c

IInv ==
    /\ TypeOK
    /\ ReservedInv
    /\ SocketInv
    /\ EventInv
    /\ RequestInv
    /\ TableMatchesSockets
    /\ ToldInv
    /\ AddressHeld

---------------------------------------------------------------------------
(* Facts about the operators.                                              *)

\* Lowest returns the least element of a set of numbers.
LEMMA LowestOf ==
    ASSUME NEW S \in SUBSET Nat, S # {}
    PROVE  Lowest(S) \in S /\ \A j \in S : Lowest(S) <= j
<1>1. IsWellFoundedOn(OpToRel(<, Nat), Nat)
  BY NatLessThanWellFounded, Zenon
<1>2. PICK x \in S : \A y \in S : ~ (<<y, x>> \in OpToRel(<, Nat))
  BY <1>1, WFMin, Zenon
<1>3. \A a, b \in Nat : a < b => <<a, b>> \in OpToRel(<, Nat)
  BY DEF OpToRel
<1>4. \A y \in S : ~(y < x)
  BY <1>2, <1>3
<1>5. \A y \in S : x <= y
  BY <1>4
<1> QED
  BY <1>5 DEF Lowest

\* The head and the tail of a queue of messages.
LEMMA QueueFacts ==
    ASSUME NEW S, NEW s \in Seq(S), s # <<>>
    PROVE  /\ Head(s) \in S /\ Tail(s) \in Seq(S)
           /\ Len(Tail(s)) = Len(s) - 1
           /\ 1 \in DOMAIN s /\ s[1] = Head(s)
           /\ \A k \in DOMAIN Tail(s) : k + 1 \in DOMAIN s /\ Tail(s)[k] = s[k + 1]
  OBVIOUS

LEMMA AppendFacts ==
    ASSUME NEW S, NEW s \in Seq(S), NEW x \in S
    PROVE  /\ Append(s, x) \in Seq(S) /\ Append(s, x) # <<>>
           /\ \A k \in DOMAIN Append(s, x) :
                 \/ k \in DOMAIN s /\ Append(s, x)[k] = s[k]
                 \/ k = Len(s) + 1 /\ Append(s, x)[k] = x
<1>1. Append(s, x) \in Seq(S) /\ Len(Append(s, x)) = Len(s) + 1 /\ Len(s) \in Nat
  OBVIOUS
<1>2. DOMAIN s = 1 .. Len(s) /\ DOMAIN Append(s, x) = 1 .. Len(s) + 1
  BY <1>1
<1>3. \A k \in 1 .. Len(s) : Append(s, x)[k] = s[k]
  OBVIOUS
<1>4. Append(s, x)[Len(s) + 1] = x
  OBVIOUS
<1>5. Append(s, x) # <<>>
  BY <1>1
<1>6. ASSUME NEW k \in DOMAIN Append(s, x)
      PROVE  \/ k \in DOMAIN s /\ Append(s, x)[k] = s[k]
             \/ k = Len(s) + 1 /\ Append(s, x)[k] = x
  <2>1. k \in 1 .. Len(s) + 1
    BY <1>2
  <2>2. k \in 1 .. Len(s) \/ k = Len(s) + 1
    BY <1>1, <2>1
  <2>3. CASE k \in 1 .. Len(s)
    BY <1>2, <1>3, <2>3
  <2>4. CASE k = Len(s) + 1
    BY <1>4, <2>4
  <2> QED
    BY <2>2, <2>3, <2>4
<1> QED
  BY <1>1, <1>5, <1>6

\* Every address that can be free belongs to the pool, and the first entry
\* of a set of entries is one of them.
LEMMA PoolFacts ==
    ASSUME TypeOK, ReservedInv
    PROVE  /\ FreeIds \subseteq Addrs
           /\ \A f \in Fds : UserOfFd(f) \subseteq InUse \cap Addrs
           /\ \A a \in Addrs : UserOfAddr(a) \subseteq InUse \cap Addrs
           /\ InUse \subseteq Addrs
           /\ Addrs \subseteq Ids /\ Ids \subseteq Nat
           /\ NoAddr \notin Addrs
<1>1. Ids \subseteq Nat /\ Addrs \subseteq Ids /\ Reserved \subseteq Ids /\ NoAddr \notin Ids
  BY ConstAssumption DEF Ids, Addrs, Reserved, NoAddr
<1>2. FreeIds \subseteq Addrs
  BY DEF ReservedInv, FreeIds, Addrs
<1>3. InUse \subseteq Addrs
  BY DEF ReservedInv, InUse, Addrs
<1>4. \A f \in Fds : UserOfFd(f) \subseteq InUse
  BY DistinctAssumption DEF UserOfFd, InUse
<1>5. \A a \in Addrs : UserOfAddr(a) \subseteq InUse
  BY <1>1 DEF UserOfAddr, InUse, ReservedInv, Addrs
<1> QED
  BY <1>1, <1>2, <1>3, <1>4, <1>5 DEF Addrs

\* deallocate_ip_addr changes nothing when no entry names the descriptor.
LEMMA DeallocatedNone ==
    ASSUME NEW us, NEW f, \A j \in Ids : ~(~us[j].is_free /\ us[j].fd = f)
    PROVE  Deallocated(us, f) = us
  BY DEF Deallocated

---------------------------------------------------------------------------
(* Type correctness.                                                       *)

\* What the steps of process_client know of the connection they work for.
LEMMA CurrentFacts ==
    ASSUME IInv
    PROVE  /\ \A f \in pending \cap Fds : f \in epoll /\ sock[f] \in Conns
           /\ pc = "parse" => cur \in Fds /\ cur \in epoll /\ sock[cur] \in Conns
           /\ \A i \in InUse : Up => /\ users[i].fd \in Fds /\ users[i].fd \in epoll
                                     /\ sock[users[i].fd] \in Conns
  BY DEF IInv, TypeOK, SocketInv, EventInv, TableMatchesSockets, Open, InUse

LEMMA WriteOutcomesType ==
    ASSUME NEW st, NEW n, NEW o \in WriteOutcomes(st, n)
    PROVE  o[2] \in {"est", "fin", "dead"}
  BY DEF WriteOutcomes

\* The buffer that is written begins with the packet it began with, or holds
\* the new packet alone.
LEMMA TunReadFacts ==
    ASSUME IInv, pc = "dispatch", TunFd \in pending
    PROVE  /\ TunRead \in Seq(Addrs) /\ TunRead # <<>> /\ TunRead[1] \in Addrs
           /\ tunbuf # <<>> => TunRead[1] = tunbuf[1]
           /\ tunbuf = <<>> => {TunRead[k] : k \in DOMAIN TunRead} = {TunRead[1]}
           /\ TunRead[1] \in {TunRead[k] : k \in DOMAIN TunRead}
<1>1. tunq \in Seq(Addrs) /\ tunq # <<>> /\ tunbuf \in Seq(Addrs)
  BY DEF IInv, TypeOK, EventInv, Up
<1>2. Head(tunq) \in Addrs
  BY <1>1, QueueFacts
<1>3. CASE tunbuf = <<>>
  <2>1. TunRead = <<Head(tunq)>>
    BY <1>3, ConstAssumption DEF TunRead
  <2> QED
    BY <1>2, <1>3, <2>1
<1>4. CASE tunbuf # <<>>
  <2>1. TunRead \in Seq(Addrs) /\ TunRead # <<>> /\ TunRead[1] = tunbuf[1]
    BY <1>1, <1>2, <1>4 DEF TunRead
  <2> QED
    BY <1>4, <2>1
<1> QED
  BY <1>3, <1>4

LEMMA TypeEnvironment ==
    ASSUME IInv, Environment
    PROVE  TypeOK'
<1> USE DEF IInv, TypeOK
<1>1. ASSUME NEW c \in Conns, Connect(c) PROVE TypeOK'
  BY <1>1 DEF Connect, program, clients, TcpState
<1>2. ASSUME NEW c \in Conns, NEW m \in MsgType, ClientSend(c, m) PROVE TypeOK'
  BY <1>2 DEF ClientSend, program
<1>3. ASSUME NEW c \in Conns, NEW how \in {"fin", "rst"}, ClientClose(c, how) PROVE TypeOK'
  BY <1>3 DEF ClientClose, program, clients, TcpState
<1>4. ASSUME NEW a \in Addrs, TunArrive(a) PROVE TypeOK'
  BY <1>4 DEF TunArrive, program, clients
<1>5. CASE Tick
  <2>1. \A age \in Nat, limit \in Nat : Older(age, limit) \in Nat
    BY DEF Older
  <2>2. ASSUME NEW i \in Ids
        PROVE  [users[i] EXCEPT !.sent = Older(@, HARTBEAT_INTERVAL),
                                !.recved = Older(@, HARTBEAT_TIMEOUT)] \in User
    BY <2>1, ConstAssumption DEF User
  <2>3. users' \in [Ids -> User]
    BY <1>5, <2>2 DEF Tick
  <2> QED
    BY <1>5, <2>3 DEF Tick, kernel, clients
<1> QED
  BY <1>1, <1>2, <1>3, <1>4, <1>5 DEF Environment

\* free_client_fd keeps the types of everything it touches.
LEMMA TypeFreeClientFd ==
    ASSUME IInv, NEW us \in [Ids -> User], NEW f \in Fds, FreeClientFd(us, f)
    PROVE  /\ users' \in [Ids -> User]
           /\ sock' \in [Fds -> Conns \cup {NoConn}]
           /\ epoll' \subseteq Fds
           /\ tcp' \in [Conns -> TcpState]
           /\ rcvq' \in [Conns -> Seq(MsgType)]
<1>1. Deallocated(us, f) \in [Ids -> User]
  <2> DEFINE mine == {i \in Ids : us[i].fd = f /\ ~us[i].is_free}
  <2>1. CASE mine = {}
    BY <2>1 DEF Deallocated
  <2>2. CASE mine # {}
    <3>1. mine \in SUBSET Nat
      BY DEF Ids
    <3>2. Lowest(mine) \in Ids
      BY <2>2, <3>1, LowestOf
    <3>3. [us[Lowest(mine)] EXCEPT !.is_free = TRUE, !.fd = NoFd] \in User
      BY <3>2 DEF User
    <3> QED
      BY <2>2, <3>2, <3>3 DEF Deallocated
  <2> QED
    BY <2>1, <2>2
<1>2. CASE f \in epoll
  <2> USE DEF FreeClientFd, IInv, TypeOK
  <2>1. users' \in [Ids -> User] /\ epoll' \subseteq Fds
    BY <1>1, <1>2
  <2>2. sock' \in [Fds -> Conns \cup {NoConn}]
    BY <1>2
  <2>3. tcp' \in [Conns -> TcpState]
    BY <1>2 DEF TcpState
  <2>4. rcvq' \in [Conns -> Seq(MsgType)]
    <3>1. <<>> \in Seq(MsgType)
      OBVIOUS
    <3> QED
      BY <1>2, <3>1
  <2> QED
    BY <2>1, <2>2, <2>3, <2>4
<1>3. CASE f \notin epoll
  BY <1>3 DEF FreeClientFd, IInv, TypeOK
<1> QED
  BY <1>2, <1>3

\* Nothing but process_server, process_tun and the read of process_client adds
\* to the queues; everything the other steps leave behind has its type.
LEMMA TypeServer ==
    ASSUME IInv, Server
    PROVE  TypeOK'
<1> USE DEF IInv, TypeOK
<1>a. MAX_CLIENTS \in Nat /\ Ids = 0 .. MAX_CLIENTS - 1
  BY ConstAssumption DEF Ids
<1>1. CASE EpollWait
  BY <1>1 DEF EpollWait, Ready, kernel, clients, PC
<1>2. CASE BatchDone
  BY <1>2, <1>a DEF BatchDone, kernel, clients, PC
<1>3. ASSUME NEW f \in Fds, Accept(f) PROVE TypeOK'
  <2>1. backlog # <<>>
    BY <1>3, DistinctAssumption DEF Accept, Take, EventInv
  <2>2. Head(backlog) \in Conns /\ Tail(backlog) \in Seq(Conns)
    BY <2>1, QueueFacts
  <2> QED
    BY <1>3, <2>2, ConstAssumption DEF Accept, Take, clients
<1>4. CASE AcceptFails
  BY <1>4 DEF AcceptFails, Take, kernel, clients
<1>5. ASSUME TunFd \in pending
      PROVE  TunRead \in Seq(Addrs) /\ TunLeft \in Seq(Addrs)
  <2>1. Head(tunq) \in Addrs /\ Tail(tunq) \in Seq(Addrs)
    BY <1>5, QueueFacts DEF EventInv
  <2> QED
    BY <2>1 DEF TunRead, TunLeft
<1>6. CASE TunUnroutable
  <2>1. tunbuf' \in {<<>>, TunRead} /\ pc' \in {pc, "hung"}
    BY <1>6 DEF TunUnroutable
  <2>2. TunRead \in Seq(Addrs) /\ <<>> \in Seq(Addrs)
    BY <1>5, <1>6 DEF TunUnroutable, Take
  <2>3. tunbuf' \in Seq(Addrs) /\ pc' \in PC
    BY <2>1, <2>2 DEF PC
  <2> QED
    BY <1>5, <1>6, <2>3 DEF TunUnroutable, Take, clients
<1>7. CASE TunForward
  <2>1. TunRead \in Seq(Addrs) /\ TunLeft \in Seq(Addrs)
    BY <1>5, <1>7 DEF TunForward, Take
  <2>2. {TunRead[k] : k \in DOMAIN TunRead} \subseteq Addrs
    BY <2>1
  <2> DEFINE c == sock[users[Lowest(UserOfAddr(TunRead[1]))].fd]
  <2>3. PICK o \in WriteOutcomes(tcp[c], 2) :
            /\ tcp' = [tcp EXCEPT ![c] = o[2]]
            /\ tunbuf' = TunRest(o[1])
            /\ got' = IF o[1] = "ok"
                      THEN [got EXCEPT ![c] = @ \cup {TunRead[k] : k \in DOMAIN TunRead}]
                      ELSE got
            /\ refused' = IF o[1] = "err" THEN refused \cup {c} ELSE refused
            /\ pc' = IF o[1] = "sigpipe" THEN "dead" ELSE pc
    BY <1>7 DEF TunForward
  <2>4. o[2] \in TcpState
    BY WriteOutcomesType DEF TcpState
  <2>5. tcp' \in [Conns -> TcpState]
    BY <2>3, <2>4
  <2>6. got' \in [Conns -> SUBSET Addrs]
    BY <2>2, <2>3
  <2>7. tunbuf' \in Seq(Addrs) /\ tunq' \in Seq(Addrs)
    BY <1>7, <2>1, <2>3 DEF TunForward, TunRest
  <2>8. refused' \subseteq Conns
    <3>1. UserOfAddr(TunRead[1]) # {} /\ TunRead[1] \in Addrs /\ Up
      BY <1>7, TunReadFacts DEF TunForward, Take, Up
    <3>2. Lowest(UserOfAddr(TunRead[1])) \in InUse
      <4>1. /\ UserOfAddr(TunRead[1]) \subseteq InUse
            /\ UserOfAddr(TunRead[1]) \in SUBSET Nat
        BY <3>1, PoolFacts
      <4> QED
        BY <3>1, <4>1, LowestOf
    <3>3. c \in Conns
      BY <3>1, <3>2, CurrentFacts
    <3> QED
      BY <2>3, <3>3
  <2> QED
    BY <1>7, <2>3, <2>5, <2>6, <2>7, <2>8 DEF TunForward, Take, PC
<1>8. ASSUME NEW f \in Fds, ReadData(f) PROVE TypeOK'
  <2>1. f \in pending /\ sock[f] \in Conns
    BY <1>8, CurrentFacts DEF ReadData, Take
  <2> DEFINE c == sock[f]
             n == Least(Len(rcvq[c]), Room(f))
  <2>2. n \in Nat /\ n > 0 /\ n <= Len(rcvq[c]) /\ n <= BufCap - Len(bufs[f])
    BY <1>8, <2>1, ConstAssumption DEF ReadData, Least, Room
  <2>3. /\ SubSeq(rcvq[c], 1, n) \in Seq(MsgType)
        /\ Len(SubSeq(rcvq[c], 1, n)) = n
        /\ SubSeq(rcvq[c], n + 1, Len(rcvq[c])) \in Seq(MsgType)
    BY <2>1, <2>2
  <2>4. bufs' \in [Fds -> Seq(MsgType)] /\ \A g \in Fds : Len(bufs'[g]) <= BufCap
    BY <1>8, <2>2, <2>3, ConstAssumption DEF ReadData
  <2>5. rcvq' \in [Conns -> Seq(MsgType)]
    BY <1>8, <2>1, <2>3 DEF ReadData
  <2> QED
    BY <1>8, <2>4, <2>5 DEF ReadData, Take, clients, PC
<1>9. ASSUME NEW f \in Fds, ReadNothing(f) PROVE TypeOK'
  <2>1. CASE FreeOnEOF
    BY <1>9, <2>1, TypeFreeClientFd DEF ReadNothing, Take, clients
  <2>2. CASE ~FreeOnEOF
    BY <1>9, <2>2 DEF ReadNothing, Take, clients, PC
  <2> QED
    BY <2>1, <2>2
<1>10. ASSUME NEW f \in Fds, ReadError(f) PROVE TypeOK'
  BY <1>10, TypeFreeClientFd DEF ReadError, Take, clients
<1>11. CASE ParseDone
  BY <1>11 DEF ParseDone, Return, kernel, clients, PC
<1>12. CASE PoolFull
  BY <1>12 DEF PoolFull, Return, kernel, clients, PC
<1>13. ASSUME NEW m, Message(m)
       PROVE  /\ cur \in Fds /\ bufs[cur] \in Seq(MsgType) /\ bufs[cur] # <<>>
              /\ Consumed \in [Fds -> Seq(MsgType)]
              /\ \A g \in Fds : Len(Consumed[g]) <= BufCap
  <2>1. cur \in Fds /\ bufs[cur] # <<>>
    BY <1>13, CurrentFacts DEF Message
  <2>2. Tail(bufs[cur]) \in Seq(MsgType) /\ Len(Tail(bufs[cur])) = Len(bufs[cur]) - 1
    BY <2>1, QueueFacts
  <2> QED
    BY <2>1, <2>2, ConstAssumption DEF Consumed
<1>14. CASE IpRequest
  <2> DEFINE c == sock[cur]
             i == Lowest(FreeIds)
  <2>1. i \in Addrs /\ i \in Ids
    BY <1>14, PoolFacts, LowestOf DEF IpRequest
  <2>2. users' = Allocated(i, cur)
    BY <1>14 DEF IpRequest
  <2>3. users' \in [Ids -> User]
    BY <1>13, <1>14, <2>1, <2>2 DEF Allocated, User, IpRequest
  <2>4. PICK o \in WriteOutcomes(tcp[c], 2) :
            /\ tcp' = [tcp EXCEPT ![c] = o[2]]
            /\ \/ told' = [told EXCEPT ![c] = i] /\ bufs' = Consumed /\ Continue
               \/ Return /\ UNCHANGED <<told, bufs>>
               \/ pc' = "dead" /\ UNCHANGED <<cur, told, bufs>>
    BY <1>14 DEF IpRequest
  <2>5. tcp' \in [Conns -> TcpState]
    BY <2>4, WriteOutcomesType DEF TcpState
  <2>6. told' \in [Conns -> Addrs \cup {NoAddr}]
    BY <2>1, <2>4
  <2>7. bufs' \in {bufs, Consumed}
    BY <2>4
  <2>8. bufs' \in [Fds -> Seq(MsgType)] /\ \A g \in Fds : Len(bufs'[g]) <= BufCap
    BY <1>13, <1>14, <2>7 DEF IpRequest
  <2>9. pc' \in PC /\ cur' \in Fds \cup {NoFd}
    BY <2>4 DEF Continue, Return, PC
  <2> QED
    BY <1>14, <2>3, <2>5, <2>6, <2>8, <2>9 DEF IpRequest
<1>15. CASE InetRequest
  BY <1>13, <1>15 DEF InetRequest, Continue, Return, kernel, clients, PC
<1>16. CASE Keepalive
  <2> DEFINE i == Lowest(UserOfFd(cur))
  <2>1. i \in Ids
    BY <1>13, <1>16, PoolFacts, LowestOf DEF Keepalive
  <2>2. [users[i] EXCEPT !.recved = 0] \in User
    BY <2>1 DEF User
  <2>3. users' \in [Ids -> User]
    BY <1>16, <2>1, <2>2 DEF Keepalive
  <2> QED
    BY <1>13, <1>16, <2>3 DEF Keepalive, Continue, kernel, clients
<1>17. CASE KeepaliveNoUser
  BY <1>13, <1>17 DEF KeepaliveNoUser, Continue, kernel, clients, PC
<1>18. CASE UnknownType
  BY <1>13, <1>18 DEF UnknownType, Continue, kernel, clients
<1>19. CASE HartbeatUser
  <2> DEFINE i == Lowest(Todo)
             f == users[i].fd
             due == users[i].sent > HARTBEAT_INTERVAL
             us == IF due THEN SentStamp(i) ELSE users
  <2>1. i \in InUse /\ i \in Ids /\ f \in Fds
    <3>1. Todo \in SUBSET Nat /\ Todo # {} /\ Todo \subseteq InUse
      BY <1>19, PoolFacts DEF HartbeatUser, Todo
    <3> QED
      BY <1>19, <3>1, LowestOf, CurrentFacts DEF HartbeatUser, Up, InUse
  <2>2. us \in [Ids -> User]
    <3>1. [users[i] EXCEPT !.sent = 0] \in User
      BY <2>1 DEF User
    <3> QED
      BY <2>1, <3>1 DEF SentStamp
  <2>3. PICK o \in IF due THEN WriteOutcomes(tcp[sock[f]], 1) ELSE {<<"ok", tcp[sock[f]]>>} :
            \/ /\ pc' = "dead" /\ tcp' = [tcp EXCEPT ![sock[f]] = o[2]]
               /\ UNCHANGED <<users, epoll, sock, rcvq>>
            \/ FreeClientFd(us, f) /\ UNCHANGED pc
            \/ /\ users' = us /\ tcp' = [tcp EXCEPT ![sock[f]] = o[2]]
               /\ UNCHANGED <<pc, epoll, sock, rcvq>>
    BY <1>19 DEF HartbeatUser
  <2>4. sock[f] \in Conns
    BY <1>19, <2>1, CurrentFacts DEF HartbeatUser, Up
  <2>5. o[2] \in TcpState
    BY <2>3, <2>4, WriteOutcomesType DEF TcpState
  <2>6. hb' \in 0 .. MAX_CLIENTS
    BY <1>19, <1>a, <2>1 DEF HartbeatUser
  <2>7. CASE FreeClientFd(us, f)
    <3>1. pc' \in PC
      BY <2>3 DEF PC
    <3> QED
      BY <1>19, <2>1, <2>2, <2>6, <2>7, <3>1, TypeFreeClientFd DEF HartbeatUser, clients
  <2>8. CASE ~FreeClientFd(us, f)
    BY <1>19, <2>2, <2>3, <2>5, <2>6, <2>8 DEF HartbeatUser, clients, PC
  <2> QED
    BY <2>3, <2>7, <2>8
<1>20. CASE HartbeatDone
  BY <1>20, <1>a DEF HartbeatDone, kernel, clients, PC
<1> QED
  BY <1>1, <1>2, <1>3, <1>4, <1>6, <1>7, <1>8, <1>9, <1>10, <1>11, <1>12, <1>14, <1>15,
     <1>16, <1>17, <1>18, <1>19, <1>20 DEF Server

LEMMA TypeStep ==
    ASSUME IInv, [Next]_vars
    PROVE  TypeOK'
<1>1. CASE UNCHANGED vars
  BY <1>1 DEF vars, program, kernel, clients, IInv, TypeOK
<1> QED
  BY <1>1, TypeEnvironment, TypeServer DEF Next

---------------------------------------------------------------------------
(* What the steps do to the table and to the connections.                  *)

\* A step that changes no entry's owner.
SameOwners ==
    \A i \in Ids : /\ users'[i].is_free = users[i].is_free
                   /\ users'[i].fd = users[i].fd
                   /\ users'[i].v4addr = users[i].v4addr

\* A step that lets no connection become unreadable or fresh, closes none, and
\* brings no dead one back to life.
TcpMonotone ==
    \A d \in Conns : /\ tcp'[d] = "none" => tcp[d] = "none"
                     /\ tcp'[d] = "closed" <=> tcp[d] = "closed"
                     /\ tcp[d] \in {"fin", "rst", "dead"} => tcp'[d] \in {"fin", "rst", "dead"}
                     /\ tcp[d] = "dead" => tcp'[d] = "dead"

\* A step that gives the entry of f back and closes f.
Freed(f) ==
    /\ f \in Fds /\ f \in epoll /\ sock[f] \in Conns
    /\ epoll' = epoll \ {f}
    /\ sock' = [sock EXCEPT ![f] = NoConn]
    /\ tcp' = [tcp EXCEPT ![sock[f]] = "closed"]
    /\ rcvq' = [rcvq EXCEPT ![sock[f]] = <<>>]
    /\ \A i \in Ids : users[i].fd = f => users'[i].is_free /\ users'[i].fd = NoFd
    /\ \A i \in Ids : users[i].fd # f => /\ users'[i].is_free = users[i].is_free
                                         /\ users'[i].fd = users[i].fd
    /\ \A i \in Ids : users'[i].v4addr = users[i].v4addr

LEMMA FreedFacts ==
    ASSUME IInv, Up, NEW us \in [Ids -> User], NEW f \in Fds, f \in epoll,
           \A i \in Ids : /\ us[i].is_free = users[i].is_free
                          /\ us[i].fd = users[i].fd
                          /\ us[i].v4addr = users[i].v4addr,
           FreeClientFd(us, f)
    PROVE  Freed(f)
<1>1. sock[f] \in Conns
  BY DEF IInv, TypeOK, SocketInv, Open
<1>2. \A i \in Ids : users[i].fd = f => ~users[i].is_free
  BY DistinctAssumption DEF IInv, ReservedInv, Addrs
<1>3. \A i, j \in Ids : users[i].fd = f /\ users[j].fd = f => i = j
  BY <1>2, DistinctAssumption DEF IInv, TableMatchesSockets, InUse
<1>4. CASE \E i \in Ids : users[i].fd = f
  <2>1. PICK i \in Ids : users[i].fd = f
    BY <1>4
  <2>2. Deallocated(us, f) = [us EXCEPT ![i] = [@ EXCEPT !.is_free = TRUE, !.fd = NoFd]]
    <3> DEFINE mine == {j \in Ids : us[j].fd = f /\ ~us[j].is_free}
    <3>1. i \in mine
      BY <1>2, <2>1
    <3>2. mine = {i}
      BY <1>3, <2>1, <3>1
    <3>3. mine \in SUBSET Nat
      BY DEF Ids
    <3>4. Lowest(mine) = i
      BY <3>2, <3>3, LowestOf
    <3> QED
      BY <3>1, <3>4 DEF Deallocated
  <2>3. users' = [us EXCEPT ![i] = [@ EXCEPT !.is_free = TRUE, !.fd = NoFd]]
    BY <2>2 DEF FreeClientFd
  <2>4. /\ users'[i].is_free /\ users'[i].fd = NoFd /\ users'[i].v4addr = us[i].v4addr
        /\ \A j \in Ids : j # i => users'[j] = us[j]
    BY <2>3 DEF User
  <2> QED
    BY <1>1, <1>3, <2>1, <2>4 DEF FreeClientFd, Freed
<1>5. CASE ~ \E i \in Ids : users[i].fd = f
  <2>1. users' = us
    BY <1>5, DeallocatedNone DEF FreeClientFd
  <2> QED
    BY <1>1, <1>5, <2>1 DEF FreeClientFd, Freed
<1> QED
  BY <1>4, <1>5

LEMMA ReadNothingFacts ==
    ASSUME IInv, NEW f \in Fds, ReadNothing(f)
    PROVE  \/ Freed(f) /\ UNCHANGED <<pc, cur>>
           \/ pc' = "parse" /\ cur' = f /\ UNCHANGED <<users, epoll, sock, tcp, rcvq>>
<1>1. f \in epoll /\ Up
  BY CurrentFacts DEF ReadNothing, Take, Up
<1>2. users \in [Ids -> User]
  BY DEF IInv, TypeOK
<1> QED
  BY <1>1, <1>2, FreedFacts DEF ReadNothing

LEMMA ReadErrorFacts ==
    ASSUME IInv, NEW f \in Fds, ReadError(f)
    PROVE  Freed(f)
<1>1. f \in epoll /\ Up
  BY CurrentFacts DEF ReadError, Take, Up
<1>2. users \in [Ids -> User]
  BY DEF IInv, TypeOK
<1> QED
  BY <1>1, <1>2, FreedFacts DEF ReadError

\* A write keeps a connection where it was or makes it dead; to a dead one it
\* is the end of the process.
LEMMA WriteFacts ==
    ASSUME IInv, NEW c \in Conns, NEW n \in Nat, NEW o \in WriteOutcomes(tcp[c], n),
           tcp[c] \notin {"none", "closed"},
           tcp' = [tcp EXCEPT ![c] = o[2]]
    PROVE  TcpMonotone /\ (tcp[c] = "dead" => o[1] = "sigpipe")
                       /\ (o[1] = "err" => o[2] = "dead")
  BY DEF IInv, TypeOK, WriteOutcomes, TcpMonotone, TcpState

\* The owner of an entry in use is an open connection.
LEMMA OwnerFacts ==
    ASSUME IInv, Up, NEW i \in InUse
    PROVE  /\ users[i].fd \in Fds /\ users[i].fd \in epoll
           /\ sock[users[i].fd] \in Conns
           /\ tcp[sock[users[i].fd]] \notin {"none", "closed"}
  BY CurrentFacts DEF IInv, SocketInv, Open

LEMMA TunForwardFacts ==
    ASSUME IInv, TunForward
    PROVE  TcpMonotone
<1>1. Up /\ TunFd \in pending
  BY DEF TunForward, Take, Up
<1>3. TunRead[1] \in Addrs
  BY TunReadFacts DEF TunForward, Take
<1> DEFINE i == Lowest(UserOfAddr(TunRead[1]))
<1>4. i \in InUse
  <2>1. UserOfAddr(TunRead[1]) \subseteq InUse /\ UserOfAddr(TunRead[1]) \in SUBSET Nat
    BY <1>3, PoolFacts DEF IInv
  <2> QED
    BY <2>1, LowestOf DEF TunForward
<1>5. PICK o \in WriteOutcomes(tcp[sock[users[i].fd]], 2) :
          tcp' = [tcp EXCEPT ![sock[users[i].fd]] = o[2]]
  BY DEF TunForward
<1> QED
  BY <1>1, <1>4, <1>5, OwnerFacts, WriteFacts

\* The heartbeat of one entry: it is freed, or its owner stays.
LEMMA HartbeatUserFacts ==
    ASSUME IInv, HartbeatUser
    PROVE  /\ Up /\ pending = {}
           /\ \/ UNCHANGED pc /\ \E f \in Fds : Freed(f)
              \/ /\ SameOwners /\ TcpMonotone
                 /\ pc' \in {pc, "dead"}
                 /\ UNCHANGED <<epoll, sock, rcvq>>
<1> DEFINE i == Lowest(Todo)
           f == users[i].fd
           due == users[i].sent > HARTBEAT_INTERVAL
           us == IF due THEN SentStamp(i) ELSE users
<1>1. Up /\ pending = {}
  BY DEF HartbeatUser, Up, IInv, EventInv
<1>2. i \in InUse
  <2>1. Todo \in SUBSET Nat /\ Todo # {} /\ Todo \subseteq InUse
    BY PoolFacts DEF HartbeatUser, Todo, IInv
  <2> QED
    BY <2>1, LowestOf
<1>3. i \in Ids /\ f \in Fds /\ f \in epoll /\ sock[f] \in Conns
      /\ tcp[sock[f]] \notin {"none", "closed"}
  BY <1>1, <1>2, OwnerFacts DEF InUse
<1>4. us \in [Ids -> User]
      /\ \A j \in Ids : /\ us[j].is_free = users[j].is_free
                        /\ us[j].fd = users[j].fd
                        /\ us[j].v4addr = users[j].v4addr
  <2>1. users \in [Ids -> User]
    BY DEF IInv, TypeOK
  <2>2. [users[i] EXCEPT !.sent = 0] \in User
    BY <1>3, <2>1 DEF User
  <2> QED
    BY <1>3, <2>1, <2>2 DEF SentStamp, User
<1>5. PICK o \in IF due THEN WriteOutcomes(tcp[sock[f]], 1) ELSE {<<"ok", tcp[sock[f]]>>} :
          \/ /\ pc' = "dead" /\ tcp' = [tcp EXCEPT ![sock[f]] = o[2]]
             /\ UNCHANGED <<users, epoll, sock, rcvq>>
          \/ FreeClientFd(us, f) /\ UNCHANGED pc
          \/ /\ users' = us /\ tcp' = [tcp EXCEPT ![sock[f]] = o[2]]
             /\ UNCHANGED <<pc, epoll, sock, rcvq>>
  BY DEF HartbeatUser
<1>6. ASSUME tcp' = [tcp EXCEPT ![sock[f]] = o[2]] PROVE TcpMonotone
  <2>1. CASE due
    BY <1>3, <1>5, <1>6, <2>1, WriteFacts
  <2>2. CASE ~due
    BY <1>3, <1>5, <1>6, <2>2 DEF TcpMonotone, IInv, TypeOK
  <2> QED
    BY <2>1, <2>2
<1>7. CASE FreeClientFd(us, f) /\ UNCHANGED pc
  BY <1>1, <1>3, <1>4, <1>7, FreedFacts
<1>8. CASE users' = us /\ tcp' = [tcp EXCEPT ![sock[f]] = o[2]] /\ UNCHANGED <<pc, epoll, sock, rcvq>>
  BY <1>1, <1>4, <1>6, <1>8 DEF SameOwners
<1>9. CASE pc' = "dead" /\ tcp' = [tcp EXCEPT ![sock[f]] = o[2]] /\ UNCHANGED <<users, epoll, sock, rcvq>>
  BY <1>1, <1>6, <1>9 DEF SameOwners
<1> QED
  BY <1>5, <1>7, <1>8, <1>9

\* The answer to a request: entry and connection, and what becomes of both.
LEMMA IpRequestFacts ==
    ASSUME IInv, IpRequest
    PROVE  LET c == sock[cur]
               i == Lowest(FreeIds)
           IN  /\ Up /\ i \in Addrs /\ users[i].is_free
               /\ cur \in Fds /\ cur \in epoll /\ c \in Conns
               /\ 1 \in Requests(bufs[cur])
               /\ users' = Allocated(i, cur)
               /\ TcpMonotone
               /\ \/ /\ tcp[c] # "dead" /\ pc' = "parse"
                     /\ told' = [told EXCEPT ![c] = i] /\ bufs' = Consumed
                     /\ UNCHANGED cur
                  \/ /\ tcp[c] # "dead" /\ pc' = "dispatch"
                     /\ tcp'[c] = "dead"
                     /\ UNCHANGED <<told, bufs>>
                  \/ pc' = "dead" /\ UNCHANGED <<cur, told, bufs>>
<1> DEFINE c == sock[cur]
           i == Lowest(FreeIds)
<1>1. Up /\ cur \in Fds /\ cur \in epoll /\ c \in Conns
  BY CurrentFacts DEF IpRequest, Message, Up
<1>2. i \in Addrs /\ users[i].is_free
  <2>1. FreeIds \in SUBSET Nat /\ FreeIds # {} /\ FreeIds \subseteq Addrs
    BY PoolFacts DEF IInv, IpRequest
  <2>2. i \in FreeIds
    BY <2>1, LowestOf
  <2> QED
    BY <2>1, <2>2 DEF FreeIds
<1>3. 1 \in Requests(bufs[cur])
  <2>1. bufs[cur] \in Seq(MsgType) /\ bufs[cur] # <<>> /\ Head(bufs[cur]) = "IP_REQUEST"
    BY <1>1 DEF IpRequest, Message, IInv, TypeOK
  <2> QED
    BY <2>1, QueueFacts DEF Requests
<1>4. tcp[c] \notin {"none", "closed"}
  BY <1>1, DistinctAssumption DEF IInv, SocketInv, Open
<1>5. PICK o \in WriteOutcomes(tcp[c], 2) :
          /\ tcp' = [tcp EXCEPT ![c] = o[2]]
          /\ \/ /\ o[1] = "ok"
                /\ told' = [told EXCEPT ![c] = i]
                /\ bufs' = Consumed
                /\ Continue
             \/ o[1] = "err" /\ Return /\ UNCHANGED <<told, bufs>>
             \/ o[1] = "sigpipe" /\ pc' = "dead" /\ UNCHANGED <<cur, told, bufs>>
  BY DEF IpRequest
<1>6. TcpMonotone /\ (tcp[c] = "dead" => o[1] = "sigpipe") /\ (o[1] = "err" => o[2] = "dead")
  BY <1>1, <1>4, <1>5, WriteFacts
<1>7. tcp'[c] = o[2]
  BY <1>1, <1>5 DEF IInv, TypeOK
<1>8. users' = Allocated(i, cur) /\ pc = "parse"
  BY DEF IpRequest, Message
<1> QED
  BY <1>1, <1>2, <1>3, <1>5, <1>6, <1>7, <1>8 DEF Continue, Return

LEMMA TickOwners ==
    ASSUME IInv, Tick
    PROVE  SameOwners
<1>1. \A i \in Ids : users[i] \in User
  BY DEF IInv, TypeOK
<1>2. ASSUME NEW i \in Ids
      PROVE  users'[i] \in {users[i], [users[i] EXCEPT !.sent = Older(@, HARTBEAT_INTERVAL),
                                                     !.recved = Older(@, HARTBEAT_TIMEOUT)]}
  BY DEF Tick
<1>3. ASSUME NEW i \in Ids
      PROVE  /\ users'[i].is_free = users[i].is_free
             /\ users'[i].fd = users[i].fd
             /\ users'[i].v4addr = users[i].v4addr
  BY <1>1, <1>2 DEF User
<1> QED
  BY <1>3 DEF SameOwners

LEMMA KeepaliveOwners ==
    ASSUME IInv, Keepalive
    PROVE  SameOwners
<1>1. \A i \in Ids : users[i] \in User
  BY DEF IInv, TypeOK
<1>2. PICK i : users' = [users EXCEPT ![i] = [@ EXCEPT !.recved = 0]]
  BY DEF Keepalive
<1>3. \A j \in Ids : users'[j] = IF j = i THEN [users[j] EXCEPT !.recved = 0] ELSE users[j]
  BY <1>2 DEF IInv, TypeOK
<1> QED
  BY <1>1, <1>3 DEF SameOwners, User

---------------------------------------------------------------------------
(* Five kinds of steps.  As far as the table and the connections go, most  *)
(* steps are quiet; the others open a connection, accept it, close it or   *)
(* answer its request.                                                     *)

Quiet ==
    /\ SameOwners /\ TcpMonotone
    /\ UNCHANGED <<sock, epoll, backlog, told>>
    /\ asked \subseteq asked'
    /\ Up' => Up

FreedStep(f) ==
    /\ Freed(f)
    /\ Up
    /\ UNCHANGED <<pc, cur, bufs, backlog, tunq, asked, told>>

LEMMA SameUsers ==
    ASSUME UNCHANGED users
    PROVE  SameOwners
  BY DEF SameOwners

LEMMA SameTcp ==
    ASSUME UNCHANGED tcp
    PROVE  TcpMonotone
  BY DEF TcpMonotone

LEMMA EnvironmentCases ==
    ASSUME IInv, Environment
    PROVE  Quiet \/ \E c \in Conns : Connect(c)
<1> USE DEF Quiet, program, kernel, clients, Up
<1>1. ASSUME NEW c \in Conns, NEW m \in MsgType, ClientSend(c, m) PROVE Quiet
  BY <1>1, SameUsers, SameTcp DEF ClientSend
<1>2. ASSUME NEW c \in Conns, NEW how \in {"fin", "rst"}, ClientClose(c, how) PROVE Quiet
  <2>1. TcpMonotone
    BY <1>2 DEF ClientClose, TcpMonotone, IInv, TypeOK
  <2> QED
    BY <1>2, <2>1, SameUsers DEF ClientClose
<1>3. ASSUME NEW a \in Addrs, TunArrive(a) PROVE Quiet
  BY <1>3, SameUsers, SameTcp DEF TunArrive
<1>4. CASE Tick
  BY <1>4, TickOwners, SameTcp DEF Tick
<1> QED
  BY <1>1, <1>2, <1>3, <1>4 DEF Environment

LEMMA ServerCases ==
    ASSUME IInv, Server
    PROVE  \/ Quiet
           \/ \E f \in Fds : Accept(f)
           \/ \E f \in Fds : FreedStep(f)
           \/ IpRequest
<1> USE DEF Quiet, kernel, clients, Up
<1>1. CASE EpollWait
  BY <1>1, SameUsers, SameTcp DEF EpollWait
<1>2. CASE BatchDone
  BY <1>2, SameUsers, SameTcp DEF BatchDone
<1>3. CASE AcceptFails
  BY <1>3, SameUsers, SameTcp DEF AcceptFails
<1>4. CASE TunUnroutable
  BY <1>4, SameUsers, SameTcp DEF TunUnroutable, Take
<1>5. CASE TunForward
  BY <1>5, SameUsers, TunForwardFacts DEF TunForward, Take
<1>6. ASSUME NEW f \in Fds, ReadData(f) PROVE Quiet
  BY <1>6, SameUsers, SameTcp DEF ReadData, Take
<1>7. ASSUME NEW f \in Fds, ReadNothing(f) PROVE Quiet \/ FreedStep(f)
  <2>1. pc = "dispatch" /\ UNCHANGED <<bufs, backlog, tunq, asked, told>>
    BY <1>7 DEF ReadNothing, Take
  <2> QED
    BY <1>7, <2>1, ReadNothingFacts, SameUsers, SameTcp DEF FreedStep
<1>8. ASSUME NEW f \in Fds, ReadError(f) PROVE FreedStep(f)
  BY <1>8, ReadErrorFacts DEF ReadError, Take, FreedStep
<1>9. CASE ParseDone
  BY <1>9, SameUsers, SameTcp DEF ParseDone
<1>10. CASE PoolFull
  BY <1>10, SameUsers, SameTcp DEF PoolFull, Message
<1>11. CASE InetRequest
  BY <1>11, SameUsers, SameTcp DEF InetRequest, Message
<1>12. CASE Keepalive
  BY <1>12, KeepaliveOwners, SameTcp DEF Keepalive, Message
<1>13. CASE KeepaliveNoUser
  BY <1>13, SameUsers, SameTcp DEF KeepaliveNoUser, Message
<1>14. CASE UnknownType
  BY <1>14, SameUsers, SameTcp DEF UnknownType, Message
<1>15. CASE HartbeatUser
  <2>1. UNCHANGED <<bufs, cur, backlog, tunq, asked, told>>
    BY <1>15 DEF HartbeatUser
  <2> QED
    BY <1>15, <2>1, HartbeatUserFacts DEF FreedStep
<1>16. CASE HartbeatDone
  BY <1>16, SameUsers, SameTcp DEF HartbeatDone
<1> QED
  BY <1>1, <1>2, <1>3, <1>4, <1>5, <1>6, <1>7, <1>8, <1>9, <1>10, <1>11, <1>12, <1>13,
     <1>14, <1>15, <1>16 DEF Server

LEMMA StepCases ==
    ASSUME IInv, [Next]_vars
    PROVE  \/ Quiet
           \/ \E c \in Conns : Connect(c)
           \/ \E f \in Fds : Accept(f)
           \/ \E f \in Fds : FreedStep(f)
           \/ IpRequest
<1>1. CASE UNCHANGED vars
  BY <1>1, SameUsers, SameTcp DEF vars, program, kernel, clients, Quiet, Up
<1> QED
  BY <1>1, EnvironmentCases, ServerCases DEF Next

---------------------------------------------------------------------------
(* The table and the sockets.                                              *)

\* accept() takes a connection that no descriptor has.
LEMMA AcceptFacts ==
    ASSUME IInv, NEW f \in Fds, Accept(f)
    PROVE  LET c == Head(backlog)
           IN  /\ backlog # <<>> /\ c \in Conns /\ ~Open(f)
               /\ tcp[c] \notin {"none", "closed"}
               /\ \A g \in Fds : sock[g] # c
               /\ sock' = [sock EXCEPT ![f] = c]
               /\ f \notin epoll /\ epoll' \in {epoll, epoll \cup {f}}
               /\ told[c] = NoAddr
               /\ backlog' = Tail(backlog)
               /\ \A k \in DOMAIN backlog' : k + 1 \in DOMAIN backlog /\ backlog'[k] = backlog[k + 1]
               /\ \A k \in DOMAIN backlog' : backlog'[k] # c
<1>1. backlog # <<>> /\ backlog \in Seq(Conns)
  BY DistinctAssumption DEF Accept, Take, IInv, EventInv, TypeOK
<1>2. /\ Head(backlog) \in Conns
      /\ 1 \in DOMAIN backlog /\ backlog[1] = Head(backlog)
      /\ \A k \in DOMAIN Tail(backlog) :
            k \in Nat /\ k + 1 # 1 /\ k + 1 \in DOMAIN backlog /\ Tail(backlog)[k] = backlog[k + 1]
  BY <1>1, QueueFacts
<1>3. ~Open(f) /\ f \notin epoll
  BY DEF Accept, Open, IInv, SocketInv
<1> QED
  BY <1>1, <1>2, <1>3 DEF Accept, IInv, SocketInv, ToldInv

LEMMA ReservedStep ==
    ASSUME IInv, [Next]_vars
    PROVE  ReservedInv'
<1> USE DEF IInv, ReservedInv
<1>a. Reserved \subseteq Ids /\ Addrs \subseteq Ids
  BY ConstAssumption DEF Reserved, Ids, Addrs
<1>1. CASE Quiet
  BY <1>a, <1>1 DEF Quiet, SameOwners
<1>2. ASSUME NEW c \in Conns, Connect(c) PROVE ReservedInv'
  BY <1>2 DEF Connect, program
<1>3. ASSUME NEW f \in Fds, Accept(f) PROVE ReservedInv'
  BY <1>3 DEF Accept
<1>4. ASSUME NEW f \in Fds, FreedStep(f) PROVE ReservedInv'
  BY <1>a, <1>4, DistinctAssumption DEF FreedStep, Freed
<1>5. CASE IpRequest
  <2>1. PICK i \in Addrs : users' = Allocated(i, cur) /\ cur \in Fds
    BY <1>5, IpRequestFacts
  <2>2. i \in Ids /\ i \notin Reserved
    BY <2>1 DEF Addrs
  <2>3. /\ \A j \in Ids : j # i => users'[j] = users[j]
        /\ ~users'[i].is_free /\ users'[i].fd = cur
    BY <2>1, <2>2 DEF Allocated, TypeOK
  <2> QED
    BY <1>a, <2>1, <2>2, <2>3, DistinctAssumption
<1> QED
  BY <1>1, <1>2, <1>3, <1>4, <1>5, StepCases

LEMMA SocketStep ==
    ASSUME IInv, [Next]_vars
    PROVE  SocketInv'
<1> USE DEF IInv, SocketInv, Open, TypeOK
<1>1. CASE TcpMonotone /\ UNCHANGED <<sock, epoll, backlog>>
  <2>2. \A f \in Fds : sock[f] # NoConn => sock[f] \in Conns
    OBVIOUS
  <2>3. \A k \in DOMAIN backlog : backlog[k] \in Conns
    OBVIOUS
  <2> QED
    BY <1>1, <2>2, <2>3 DEF TcpMonotone
<1>2. ASSUME NEW c \in Conns, Connect(c) PROVE SocketInv'
  <2>1. tcp' = [tcp EXCEPT ![c] = "est"] /\ tcp[c] = "none" /\ UNCHANGED <<sock, epoll>>
    BY <1>2 DEF Connect, program
  <2>2. \A k \in DOMAIN backlog' :
            \/ k \in DOMAIN backlog /\ backlog'[k] = backlog[k]
            \/ k = Len(backlog) + 1 /\ backlog'[k] = c
    BY <1>2, AppendFacts DEF Connect
  <2>3. \A k \in DOMAIN backlog : backlog[k] # c /\ backlog[k] \in Conns
    BY <2>1
  <2>4. \A f \in Fds : sock[f] # c
    BY <2>1, DistinctAssumption
  <2>5. \A d \in Conns : d # c => tcp'[d] = tcp[d]
    BY <2>1
  <2>6. tcp'[c] = "est"
    BY <2>1
  <2>7. \A f \in Fds : sock'[f] # NoConn => tcp'[sock'[f]] \notin {"none", "closed"}
    BY <2>1, <2>4, <2>5
  <2>8. \A k \in DOMAIN backlog' :
            /\ tcp'[backlog'[k]] \notin {"none", "closed"}
            /\ \A f \in Fds : sock'[f] # backlog'[k]
    BY <2>1, <2>2, <2>3, <2>4, <2>5, <2>6
  <2>9. \A j, k \in DOMAIN backlog' : backlog'[j] = backlog'[k] => j = k
    BY <2>2, <2>3
  <2> QED
    BY <2>1, <2>7, <2>8, <2>9
<1>3. ASSUME NEW f \in Fds, Accept(f) PROVE SocketInv'
  <2> DEFINE c == Head(backlog)
  <2>1. /\ c \in Conns
        /\ tcp[c] \notin {"none", "closed"}
        /\ \A g \in Fds : sock[g] # c
        /\ sock' = [sock EXCEPT ![f] = c]
        /\ epoll' \in {epoll, epoll \cup {f}}
        /\ \A k \in DOMAIN backlog' : /\ k + 1 \in DOMAIN backlog /\ backlog'[k] = backlog[k + 1]
                                      /\ backlog'[k] # c
    BY <1>3, AcceptFacts
  <2>2. tcp' = tcp
    BY <1>3 DEF Accept
  <2>3. \A j, k \in DOMAIN backlog' : backlog'[j] = backlog'[k] => j = k
    <3>1. backlog' \in Seq(Conns)
      <4>1. backlog # <<>> /\ backlog' = Tail(backlog)
        BY <1>3, AcceptFacts
      <4> QED
        BY <4>1, QueueFacts
    <3>2. \A j \in DOMAIN backlog' : j \in Nat
      BY <3>1
    <3> QED
      BY <2>1, <3>2
  <2> QED
    BY <2>1, <2>2, <2>3, DistinctAssumption
<1>4. ASSUME NEW f \in Fds, FreedStep(f) PROVE SocketInv'
  <2> DEFINE c == sock[f]
  <2>1. /\ c \in Conns /\ UNCHANGED backlog
        /\ epoll' = epoll \ {f}
        /\ sock' = [sock EXCEPT ![f] = NoConn]
        /\ tcp' = [tcp EXCEPT ![c] = "closed"]
    BY <1>4 DEF FreedStep, Freed
  <2>2. /\ sock'[f] = NoConn
        /\ \A g \in Fds : g # f => sock'[g] = sock[g]
        /\ \A d \in Conns : d # c => tcp'[d] = tcp[d]
    BY <2>1
  <2>3. \A g \in Fds : g # f => sock[g] # c
    BY <2>1, DistinctAssumption
  <2>4. \A k \in DOMAIN backlog : backlog[k] # c /\ backlog[k] \in Conns
    BY <2>1
  <2>5. \A g \in epoll' : sock'[g] # NoConn
    BY <2>1, <2>2
  <2>6. ASSUME NEW g \in Fds, sock'[g] # NoConn
        PROVE  tcp'[sock'[g]] \notin {"none", "closed"}
    <3>1. g # f /\ sock'[g] = sock[g] /\ sock[g] \in Conns
      BY <2>2, <2>6
    <3>2. tcp'[sock[g]] = tcp[sock[g]]
      BY <2>2, <2>3, <3>1
    <3> QED
      BY <2>6, <3>1, <3>2
  <2>7. \A k \in DOMAIN backlog' :
            /\ tcp'[backlog'[k]] \notin {"none", "closed"}
            /\ \A g \in Fds : sock'[g] # backlog'[k]
    BY <2>1, <2>2, <2>4, DistinctAssumption
  <2> QED
    BY <2>1, <2>2, <2>5, <2>6, <2>7
<1>5. CASE IpRequest
  BY <1>1, <1>5, IpRequestFacts DEF IpRequest
<1> QED
  BY <1>1, <1>2, <1>3, <1>4, <1>5, StepCases DEF Quiet

---------------------------------------------------------------------------
(* The events of the batch.                                                *)

\* A step that keeps the descriptors, and every event it does not handle.
LEMMA EventFrame ==
    ASSUME IInv, TcpMonotone, UNCHANGED <<sock, epoll>>,
           pending' \subseteq pending,
           \A f \in pending' \cap Fds : rcvq[sock[f]] # <<>> => rcvq'[sock[f]] # <<>>,
           ServerFd \in pending' => backlog' # <<>>,
           TunFd \in pending' => tunq' # <<>>,
           pc' = "parse" => cur' \in epoll,
           pc' \in {"wait", "hartbeat"} => pending' = {}
    PROVE  EventInv'
<1>1. \A f \in pending \cap Fds : f \in epoll /\ sock[f] \in Conns /\ Readable(sock[f])
  BY CurrentFacts DEF IInv, EventInv
<1>2. \A f \in pending' \cap Fds : Readable(sock[f])'
  BY <1>1 DEF TcpMonotone, Readable
<1> QED
  BY <1>1, <1>2 DEF EventInv

\* A step that closes a descriptor whose event is not in the batch any more.
LEMMA EventFreed ==
    ASSUME IInv, NEW f \in Fds, Freed(f), UNCHANGED <<backlog, tunq>>,
           pending' \subseteq pending \ {f},
           pc' # "parse",
           pc' \in {"wait", "hartbeat"} => pending' = {}
    PROVE  EventInv'
<1>1. \A g \in pending' \cap Fds :
          g # f /\ g \in epoll /\ sock[g] \in Conns /\ Readable(sock[g]) /\ sock[g] # sock[f]
  BY CurrentFacts, DistinctAssumption DEF IInv, EventInv, SocketInv, Open, Freed
<1>2. \A g \in pending' \cap Fds : /\ g \in epoll' /\ sock'[g] = sock[g]
                                   /\ rcvq'[sock[g]] = rcvq[sock[g]]
                                   /\ tcp'[sock[g]] = tcp[sock[g]]
  BY <1>1 DEF Freed, IInv, TypeOK
<1>3. \A g \in pending' \cap Fds : Readable(sock[g])'
  BY <1>1, <1>2 DEF Readable
<1> QED
  BY <1>2, <1>3 DEF EventInv, IInv

LEMMA EventEnvironment ==
    ASSUME IInv, Environment
    PROVE  EventInv'
<1> USE DEF program, kernel, clients
<1>a. /\ ServerFd \in pending => backlog # <<>>
      /\ TunFd \in pending => tunq # <<>>
      /\ pc = "parse" => cur \in epoll
      /\ pc \in {"wait", "hartbeat"} => pending = {}
  BY DEF IInv, EventInv
<1>1. ASSUME NEW c \in Conns, Connect(c) PROVE EventInv'
  <2>1. backlog' # <<>>
    <3>1. backlog \in Seq(Conns)
      BY DEF IInv, TypeOK
    <3> QED
      BY <1>1, <3>1, AppendFacts DEF Connect
  <2>2. TcpMonotone
    BY <1>1 DEF Connect, TcpMonotone, IInv, TypeOK
  <2> QED
    BY <1>a, <1>1, <2>1, <2>2, EventFrame DEF Connect
<1>2. ASSUME NEW c \in Conns, NEW m \in MsgType, ClientSend(c, m) PROVE EventInv'
  <2>1. \A d \in Conns : rcvq[d] # <<>> => rcvq'[d] # <<>>
    <3>1. Append(rcvq[c], m) # <<>>
      <4>1. rcvq[c] \in Seq(MsgType)
        BY DEF IInv, TypeOK
      <4> QED
        BY <4>1, AppendFacts
    <3>2. rcvq' = [rcvq EXCEPT ![c] = Append(@, m)]
      BY <1>2 DEF ClientSend
    <3> QED
      BY <3>1, <3>2 DEF IInv, TypeOK
  <2>2. \A f \in pending \cap Fds : sock[f] \in Conns
    BY CurrentFacts
  <2> QED
    BY <1>a, <1>2, <2>1, <2>2, EventFrame, SameTcp DEF ClientSend
<1>3. ASSUME NEW c \in Conns, NEW how \in {"fin", "rst"}, ClientClose(c, how) PROVE EventInv'
  <2>1. TcpMonotone
    BY <1>3 DEF ClientClose, TcpMonotone, IInv, TypeOK
  <2> QED
    BY <1>a, <1>3, <2>1, EventFrame DEF ClientClose
<1>4. ASSUME NEW a \in Addrs, TunArrive(a) PROVE EventInv'
  <2>1. tunq' # <<>>
    BY <1>4, AppendFacts DEF TunArrive, IInv, TypeOK
  <2> QED
    BY <1>a, <1>4, <2>1, EventFrame, SameTcp DEF TunArrive
<1>5. CASE Tick
  BY <1>a, <1>5, EventFrame, SameTcp DEF Tick
<1> QED
  BY <1>1, <1>2, <1>3, <1>4, <1>5 DEF Environment

LEMMA EventServer ==
    ASSUME IInv, Server
    PROVE  EventInv'
<1> USE DEF kernel, clients
<1>a. /\ ServerFd \in pending => backlog # <<>>
      /\ TunFd \in pending => tunq # <<>>
      /\ pc = "parse" => cur \in epoll
      /\ pc \in {"wait", "hartbeat"} => pending = {}
      /\ ServerFd \notin Fds /\ TunFd \notin Fds
  BY DistinctAssumption DEF IInv, EventInv
<1>1. CASE EpollWait
  <2>1. pending' = Ready /\ pc' = "dispatch" /\ UNCHANGED <<sock, epoll, backlog, tunq, rcvq, tcp>>
    BY <1>1 DEF EpollWait
  <2>2. \A f \in Ready \cap Fds : f \in epoll /\ Readable(sock[f])
    BY <1>a DEF Ready
  <2>3. (ServerFd \in Ready => backlog # <<>>) /\ (TunFd \in Ready => tunq # <<>>)
    BY <1>a, DistinctAssumption DEF Ready, IInv, TypeOK
  <2> QED
    BY <2>1, <2>2, <2>3 DEF EventInv, Readable
<1>2. CASE BatchDone
  BY <1>a, <1>2, EventFrame, SameTcp DEF BatchDone
<1>3. ASSUME NEW f \in Fds, Accept(f) PROVE EventInv'
  <2>1. pending' = pending \ {ServerFd} /\ pc' = "dispatch" /\ pc = "dispatch" /\ UNCHANGED <<tcp, rcvq, tunq>>
    BY <1>3 DEF Accept, Take
  <2>2. f \notin epoll /\ epoll \subseteq epoll' /\ \A g \in Fds : g # f => sock'[g] = sock[g]
    BY <1>3, AcceptFacts DEF IInv, TypeOK
  <2>3. \A g \in pending \cap Fds : g \in epoll /\ Readable(sock[g])
    BY DEF IInv, EventInv
  <2> QED
    BY <1>a, <2>1, <2>2, <2>3 DEF EventInv, Readable
<1>4. CASE AcceptFails
  BY <1>a, <1>4, EventFrame, SameTcp DEF AcceptFails, Take
<1>5. CASE TunUnroutable
  BY <1>a, <1>5, EventFrame, SameTcp DEF TunUnroutable, Take
<1>6. CASE TunForward
  BY <1>a, <1>6, EventFrame, TunForwardFacts DEF TunForward, Take
<1>7. ASSUME NEW f \in Fds, ReadData(f) PROVE EventInv'
  <2>1. f \in epoll /\ \A g \in pending \cap Fds : sock[g] \in Conns
    BY <1>7, CurrentFacts DEF ReadData, Take
  <2>2. \A g \in pending' \cap Fds : sock[g] # sock[f]
    BY <1>7, <2>1, DistinctAssumption DEF ReadData, Take, IInv, SocketInv, Open
  <2>3. \A g \in pending' \cap Fds : rcvq'[sock[g]] = rcvq[sock[g]]
    BY <1>7, <2>1, <2>2 DEF ReadData, Take, IInv, TypeOK
  <2> QED
    BY <1>a, <1>7, <2>1, <2>3, EventFrame, SameTcp DEF ReadData, Take
<1>8. ASSUME NEW f \in Fds, ReadNothing(f) PROVE EventInv'
  <2>1. f \in epoll /\ pc = "dispatch" /\ pending' = pending \ {f} /\ UNCHANGED <<backlog, tunq>>
    BY <1>8, CurrentFacts DEF ReadNothing, Take
  <2>2. CASE Freed(f) /\ UNCHANGED pc
    BY <2>1, <2>2, EventFreed
  <2>3. CASE pc' = "parse" /\ cur' = f /\ UNCHANGED <<epoll, sock, tcp, rcvq>>
    BY <1>a, <2>1, <2>3, EventFrame, SameTcp
  <2> QED
    BY <1>8, <2>2, <2>3, ReadNothingFacts
<1>9. ASSUME NEW f \in Fds, ReadError(f) PROVE EventInv'
  <2>1. pc' = "dispatch" /\ pending' = pending \ {f} /\ UNCHANGED <<backlog, tunq>>
    BY <1>9 DEF ReadError, Take
  <2> QED
    BY <1>9, <2>1, ReadErrorFacts, EventFreed
<1>10. CASE ParseDone
  BY <1>a, <1>10, EventFrame, SameTcp DEF ParseDone, Return
<1>11. CASE PoolFull
  BY <1>a, <1>11, EventFrame, SameTcp DEF PoolFull, Return, Message
<1>12. CASE IpRequest
  <2>1. UNCHANGED <<pending, sock, epoll, backlog, rcvq, tunq>> /\ pc = "parse"
    BY <1>12 DEF IpRequest, Message
  <2>2. TcpMonotone /\ (pc' = "parse" => UNCHANGED cur) /\ pc' \notin {"wait", "hartbeat"}
    BY <1>12, IpRequestFacts
  <2> QED
    BY <1>a, <2>1, <2>2, EventFrame
<1>13. CASE InetRequest
  BY <1>a, <1>13, EventFrame, SameTcp DEF InetRequest, Continue, Return, Message
<1>14. CASE Keepalive
  BY <1>a, <1>14, EventFrame, SameTcp DEF Keepalive, Continue, Message
<1>15. CASE KeepaliveNoUser
  BY <1>a, <1>15, EventFrame, SameTcp DEF KeepaliveNoUser, Continue, Message
<1>16. CASE UnknownType
  BY <1>a, <1>16, EventFrame, SameTcp DEF UnknownType, Continue, Message
<1>17. CASE HartbeatUser
  <2>1. pc = "hartbeat" /\ pending = {} /\ UNCHANGED <<pending, backlog, tunq>>
    BY <1>17, HartbeatUserFacts DEF HartbeatUser
  <2>2. CASE UNCHANGED pc /\ \E f \in Fds : Freed(f)
    BY <2>1, <2>2, EventFreed
  <2>3. CASE TcpMonotone /\ pc' \in {pc, "dead"} /\ UNCHANGED <<epoll, sock, rcvq>>
    BY <1>a, <2>1, <2>3, EventFrame
  <2> QED
    BY <1>17, <2>2, <2>3, HartbeatUserFacts
<1>18. CASE HartbeatDone
  BY <1>a, <1>18, EventFrame, SameTcp DEF HartbeatDone
<1> QED
  BY <1>1, <1>2, <1>3, <1>4, <1>5, <1>6, <1>7, <1>8, <1>9, <1>10, <1>11, <1>12, <1>13,
     <1>14, <1>15, <1>16, <1>17, <1>18 DEF Server

LEMMA EventStep ==
    ASSUME IInv, [Next]_vars
    PROVE  EventInv'
<1>1. CASE UNCHANGED vars
  BY <1>1 DEF vars, program, kernel, clients, IInv, EventInv, Readable
<1> QED
  BY <1>1, EventEnvironment, EventServer DEF Next

---------------------------------------------------------------------------
(* The table of users.                                                     *)

\* The entries in use after each kind of step.
LEMMA InUseQuiet ==
    ASSUME SameOwners
    PROVE  InUse' = InUse
  BY DEF SameOwners, InUse

LEMMA InUseFreed ==
    ASSUME IInv, Up, NEW f \in Fds, Freed(f)
    PROVE  /\ InUse' = {i \in InUse : users[i].fd # f}
           /\ \A i \in InUse' : /\ users'[i].fd = users[i].fd
                                /\ users'[i].v4addr = users[i].v4addr
  BY DEF Freed, InUse

LEMMA InUseIpRequest ==
    ASSUME IInv, NEW i \in Addrs, users[i].is_free, cur \in Fds,
           users' = Allocated(i, cur)
    PROVE  /\ InUse' = InUse \cup {i} /\ i \notin InUse
           /\ users'[i].fd = cur /\ users'[i].v4addr = i
           /\ \A j \in InUse : users'[j] = users[j]
<1>1. i \in Ids
  BY DEF Addrs
<1>2. /\ \A j \in Ids : j # i => users'[j] = users[j]
      /\ ~users'[i].is_free /\ users'[i].fd = cur /\ users'[i].v4addr = i
  BY <1>1 DEF Allocated, IInv, TypeOK
<1> QED
  BY <1>1, <1>2, DistinctAssumption DEF InUse

\* A connection whose request is being answered holds no address, or the
\* answer is the end of the process.
LEMMA NoSecondAddress ==
    ASSUME IInv, Up, NEW f \in Fds, 1 \in Requests(bufs[f]), tcp[sock[f]] # "dead"
    PROVE  \A i \in InUse : users[i].fd # f
  BY DEF IInv, RequestInv, RequestsGranted

LEMMA TableStep ==
    ASSUME IInv, [Next]_vars
    PROVE  TableMatchesSockets'
<1> USE DEF IInv, TableMatchesSockets
<1>1. CASE Quiet
  BY <1>1, InUseQuiet DEF Quiet, SameOwners, InUse
<1>2. ASSUME NEW c \in Conns, Connect(c) PROVE TableMatchesSockets'
  BY <1>2 DEF Connect, program, InUse, Up
<1>3. ASSUME NEW f \in Fds, Accept(f) PROVE TableMatchesSockets'
  <2>1. users' = users /\ pc' = pc
    BY <1>3 DEF Accept
  <2>2. InUse' = InUse /\ (Up' => Up)
    BY <2>1 DEF InUse, Up
  <2>3. f \notin epoll /\ epoll \subseteq epoll' /\ sock' = [sock EXCEPT ![f] = Head(backlog)]
    BY <1>3, AcceptFacts
  <2>4. \A g \in epoll : sock'[g] = sock[g]
    BY <2>3 DEF TypeOK
  <2> QED
    BY <2>1, <2>2, <2>3, <2>4
<1>4. ASSUME NEW f \in Fds, FreedStep(f) PROVE TableMatchesSockets'
  <2>1. Up /\ Freed(f)
    BY <1>4 DEF FreedStep
  <2>2. \A i \in InUse' : i \in InUse /\ users'[i].fd = users[i].fd /\ users[i].fd # f
                         /\ users'[i].v4addr = users[i].v4addr
    BY <2>1, InUseFreed
  <2>3. epoll' = epoll \ {f} /\ \A g \in epoll : g # f => sock'[g] = sock[g]
    BY <2>1 DEF Freed, TypeOK
  <2> QED
    BY <2>1, <2>2, <2>3
<1>5. CASE IpRequest
  <2> DEFINE c == sock[cur]
             i == Lowest(FreeIds)
  <2>1. /\ Up /\ i \in Addrs /\ users[i].is_free
        /\ cur \in Fds /\ cur \in epoll /\ c \in Conns
        /\ 1 \in Requests(bufs[cur])
        /\ users' = Allocated(i, cur)
        /\ Up' => tcp[c] # "dead"
    BY <1>5, IpRequestFacts DEF Up
  <2>2. /\ InUse' = InUse \cup {i} /\ i \notin InUse
        /\ users'[i].fd = cur /\ users'[i].v4addr = i
        /\ \A j \in InUse : users'[j] = users[j]
    BY <2>1, InUseIpRequest
  <2>3. UNCHANGED <<epoll, sock>>
    BY <1>5 DEF IpRequest
  <2>4. Up' => \A j \in InUse : users[j].fd # cur
    BY <2>1, NoSecondAddress
  <2> QED
    BY <2>1, <2>2, <2>3, <2>4, DistinctAssumption
<1> QED
  BY <1>1, <1>2, <1>3, <1>4, <1>5, StepCases

LEMMA ToldStep ==
    ASSUME IInv, [Next]_vars
    PROVE  ToldInv'
<1> USE DEF IInv, ToldInv
<1>1. CASE Quiet
  BY <1>1 DEF Quiet, TcpMonotone
<1>2. ASSUME NEW c \in Conns, Connect(c) PROVE ToldInv'
  <2>1. UNCHANGED <<told, asked>> /\ told[c] = NoAddr /\ backlog' = Append(backlog, c)
    BY <1>2 DEF Connect, clients
  <2>2. \A d \in Conns : tcp'[d] = "none" => tcp[d] = "none"
    BY <1>2 DEF Connect, TypeOK
  <2>3. backlog \in Seq(Conns)
    BY DEF TypeOK
  <2>4. \A k \in DOMAIN backlog' :
            (k \in DOMAIN backlog /\ backlog'[k] = backlog[k]) \/ backlog'[k] = c
    BY <2>1, <2>3, AppendFacts
  <2> QED
    BY <2>1, <2>2, <2>4
<1>3. ASSUME NEW f \in Fds, Accept(f) PROVE ToldInv'
  <2>1. UNCHANGED <<told, asked, tcp>>
    BY <1>3 DEF Accept, clients
  <2> QED
    BY <1>3, <2>1, AcceptFacts
<1>4. ASSUME NEW f \in Fds, FreedStep(f) PROVE ToldInv'
  <2>1. UNCHANGED <<told, asked, backlog>> /\ \A d \in Conns : tcp'[d] = "none" => tcp[d] = "none"
    BY <1>4 DEF FreedStep, Freed, TypeOK
  <2> QED
    BY <2>1
<1>5. CASE IpRequest
  <2> DEFINE c == sock[cur]
  <2>1. /\ cur \in Fds /\ c \in Conns /\ 1 \in Requests(bufs[cur])
        /\ TcpMonotone
        /\ \A d \in Conns : d # c => told'[d] = told[d]
    BY <1>5, IpRequestFacts DEF TypeOK
  <2>2. UNCHANGED <<backlog, asked>>
    BY <1>5 DEF IpRequest
  <2>3. c \in asked /\ tcp[c] # "none" /\ \A k \in DOMAIN backlog : backlog[k] # c
    BY <2>1, DistinctAssumption DEF RequestInv, RequestsRead, SocketInv, Open
  <2> QED
    BY <2>1, <2>2, <2>3 DEF TcpMonotone
<1> QED
  BY <1>1, <1>2, <1>3, <1>4, <1>5, StepCases

LEMMA HeldStep ==
    ASSUME IInv, [Next]_vars
    PROVE  AddressHeld'
<1> USE DEF IInv, AddressHeld
<1>1. CASE Quiet
  BY <1>1, InUseQuiet DEF Quiet, SameOwners, InUse
<1>2. ASSUME NEW c \in Conns, Connect(c) PROVE AddressHeld'
  BY <1>2 DEF Connect, program, clients, InUse, Up
<1>3. ASSUME NEW f \in Fds, Accept(f) PROVE AddressHeld'
  <2>1. users' = users /\ pc' = pc /\ told' = told
    BY <1>3 DEF Accept, clients
  <2>2. InUse' = InUse /\ (Up' => Up)
    BY <2>1 DEF InUse, Up
  <2>3. \A g \in Fds : g # f => sock'[g] = sock[g]
    BY <1>3 DEF Accept, TypeOK
  <2>4. told[sock'[f]] = NoAddr
    BY <1>3, AcceptFacts DEF TypeOK
  <2> QED
    BY <2>1, <2>2, <2>3, <2>4
<1>4. ASSUME NEW f \in Fds, FreedStep(f) PROVE AddressHeld'
  <2>1. Up /\ Freed(f) /\ told' = told
    BY <1>4 DEF FreedStep
  <2>2. /\ InUse' = {i \in InUse : users[i].fd # f}
        /\ \A i \in InUse' : users'[i].fd = users[i].fd
    BY <2>1, InUseFreed
  <2>3. sock'[f] = NoConn /\ \A g \in Fds : g # f => sock'[g] = sock[g]
    BY <2>1 DEF Freed, TypeOK
  <2> QED
    BY <2>1, <2>2, <2>3
<1>5. CASE IpRequest
  <2> DEFINE c == sock[cur]
             i == Lowest(FreeIds)
  <2>1. /\ Up /\ i \in Addrs /\ users[i].is_free
        /\ cur \in Fds /\ c \in Conns
        /\ users' = Allocated(i, cur)
        /\ told' = [told EXCEPT ![c] = i] \/ UNCHANGED told
    BY <1>5, IpRequestFacts
  <2>2. /\ InUse' = InUse \cup {i}
        /\ users'[i].fd = cur
        /\ \A j \in InUse : users'[j] = users[j]
    BY <2>1, InUseIpRequest
  <2>3. UNCHANGED sock
    BY <1>5 DEF IpRequest
  <2>4. \A g \in Fds : sock[g] # NoConn => sock[g] \in Conns
    BY DEF TypeOK
  <2>5. told'[c] \in {i, told[c]} /\ \A d \in Conns : d # c => told'[d] = told[d]
    BY <2>1 DEF TypeOK
  <2>6. \A g \in Fds : sock[g] = c => g = cur
    BY <2>1, DistinctAssumption DEF SocketInv, Open
  <2> QED
    BY <2>1, <2>2, <2>3, <2>4, <2>5, <2>6
<1> QED
  BY <1>1, <1>2, <1>3, <1>4, <1>5, StepCases

---------------------------------------------------------------------------
(* The requests.                                                           *)

\* Where the requests are after a message is taken from a queue, or added.
LEMMA TailRequests ==
    ASSUME NEW s \in Seq(MsgType), s # <<>>
    PROVE  /\ \A k \in Requests(Tail(s)) : k + 1 \in Requests(s) /\ k \in Nat /\ k > 0
           /\ (\A j, k \in Requests(s) : j = k) =>
                 /\ \A j, k \in Requests(Tail(s)) : j = k
                 /\ 1 \in Requests(s) => Requests(Tail(s)) = {}
<1>1. Tail(s) \in Seq(MsgType)
  BY QueueFacts
<1>2. \A k \in DOMAIN Tail(s) : k \in Nat /\ k > 0 /\ k + 1 \in DOMAIN s /\ Tail(s)[k] = s[k + 1]
  BY <1>1, QueueFacts
<1>3. \A k \in Requests(Tail(s)) : k + 1 \in Requests(s) /\ k \in Nat /\ k > 0
  BY <1>2 DEF Requests
<1> QED
  BY <1>3

LEMMA AppendRequests ==
    ASSUME NEW s \in Seq(MsgType), NEW m \in MsgType
    PROVE  /\ m # "IP_REQUEST" => Requests(Append(s, m)) = Requests(s)
           /\ Requests(s) = {} => \A j, k \in Requests(Append(s, m)) : j = k
<1>1. /\ \A k \in DOMAIN Append(s, m) :
            \/ k \in DOMAIN s /\ Append(s, m)[k] = s[k]
            \/ k = Len(s) + 1 /\ Append(s, m)[k] = m
  BY AppendFacts
<1>2. \A k \in DOMAIN s : k \in DOMAIN Append(s, m) /\ Append(s, m)[k] = s[k]
  OBVIOUS
<1> QED
  BY <1>1, <1>2 DEF Requests

\* The steps that leave the queues alone, or that take a message from one.
LEMMA RequestFrame ==
    ASSUME IInv, SameOwners, TcpMonotone, UNCHANGED <<sock, rcvq, asked>>, Up' => Up,
           bufs' = bufs \/ ((\E m : Message(m)) /\ bufs' = Consumed)
    PROVE  RequestInv'
<1>1. \A f \in Fds : /\ Requests(bufs'[f]) # {} => Requests(bufs[f]) # {}
                     /\ (\A j, k \in Requests(bufs[f]) : j = k) => \A j, k \in Requests(bufs'[f]) : j = k
  <2>1. CASE bufs' = bufs
    BY <2>1
  <2>2. CASE (\E m : Message(m)) /\ bufs' = Consumed
    <3>1. cur \in Fds /\ bufs[cur] \in Seq(MsgType) /\ bufs[cur] # <<>>
      BY <2>2, CurrentFacts DEF Message, IInv, TypeOK
    <3>2. /\ bufs'[cur] = Tail(bufs[cur])
          /\ \A f \in Fds : f # cur => bufs'[f] = bufs[f]
      BY <2>2, <3>1 DEF Consumed, IInv, TypeOK
    <3> QED
      BY <3>1, <3>2, TailRequests
  <2> QED
    BY <2>1, <2>2
<1>2. \A i \in InUse : Up => users[i].fd \in Fds /\ sock[users[i].fd] \in Conns
  BY OwnerFacts
<1>3. InUse' = InUse /\ \A i \in InUse : users'[i].fd = users[i].fd
  BY InUseQuiet DEF SameOwners, InUse
<1>4. \A f \in Fds : (Open(f)' <=> Open(f)) /\ (Open(f) => sock[f] \in Conns)
  BY DEF Open, IInv, TypeOK
<1>5. RequestsQueued'
  BY DEF RequestInv, RequestsQueued, IInv
<1>6. RequestsRead'
  BY <1>1, <1>4 DEF RequestInv, RequestsRead, IInv
<1>7. RequestsGranted'
  <2>1. ASSUME NEW i \in InUse, Up
        PROVE  /\ sock[users[i].fd] \in asked
               /\ Requests(rcvq[sock[users[i].fd]]) = {}
               /\ Requests(bufs'[users[i].fd]) # {} => tcp'[sock[users[i].fd]] = "dead"
    BY <1>1, <1>2, <2>1 DEF RequestInv, RequestsGranted, IInv, TcpMonotone
  <2> QED
    BY <1>3, <2>1 DEF RequestsGranted
<1> QED
  BY <1>5, <1>6, <1>7 DEF RequestInv

LEMMA RequestSend ==
    ASSUME IInv, NEW c \in Conns, NEW m \in MsgType, ClientSend(c, m)
    PROVE  RequestInv'
<1>1. /\ rcvq' = [rcvq EXCEPT ![c] = Append(@, m)]
      /\ asked' = IF m = "IP_REQUEST" THEN asked \cup {c} ELSE asked
      /\ m = "IP_REQUEST" => c \notin asked
      /\ UNCHANGED <<users, pc, bufs, sock, tcp>>
  BY ConstAssumption DEF ClientSend, program
<1>2. /\ rcvq'[c] = Append(rcvq[c], m) /\ rcvq[c] \in Seq(MsgType)
      /\ \A d \in Conns : d # c => rcvq'[d] = rcvq[d]
  BY <1>1 DEF IInv, TypeOK
<1>3. /\ InUse' = InUse /\ (Up' <=> Up)
      /\ \A f \in Fds : Open(f)' <=> Open(f)
      /\ \A f \in Fds : Open(f) => sock[f] \in Conns
      /\ \A i \in InUse : Up => users[i].fd \in Fds /\ sock[users[i].fd] \in Conns
  BY <1>1, OwnerFacts DEF InUse, Up, Open, IInv, TypeOK
<1>4. CASE m # "IP_REQUEST"
  <2>1. \A d \in Conns : Requests(rcvq'[d]) = Requests(rcvq[d])
    <3>1. Requests(Append(rcvq[c], m)) = Requests(rcvq[c])
      BY <1>2, <1>4, AppendRequests
    <3> QED
      BY <1>2, <3>1
  <2>2. UNCHANGED asked
    BY <1>1, <1>4
  <2>3. RequestsQueued'
    BY <2>1, <2>2 DEF RequestInv, RequestsQueued, IInv
  <2>4. RequestsRead'
    BY <1>1, <1>3, <2>1, <2>2 DEF RequestInv, RequestsRead, IInv
  <2>5. RequestsGranted'
    BY <1>1, <1>3, <2>1, <2>2 DEF RequestInv, RequestsGranted, IInv
  <2> QED
    BY <2>3, <2>4, <2>5 DEF RequestInv
<1>5. CASE m = "IP_REQUEST"
  <2>1. c \notin asked /\ Requests(rcvq[c]) = {}
    BY <1>1, <1>5 DEF RequestInv, RequestsQueued, IInv
  <2>2. \A j, k \in Requests(rcvq'[c]) : j = k
    BY <1>2, <2>1, AppendRequests
  <2>3. \A f \in Fds : Open(f) /\ sock[f] = c => Requests(bufs[f]) = {}
    BY <2>1 DEF RequestInv, RequestsRead, IInv
  <2>4. \A i \in InUse : Up => sock[users[i].fd] # c
    BY <2>1 DEF RequestInv, RequestsGranted, IInv
  <2>5. asked' = asked \cup {c}
    BY <1>1, <1>5
  <2>6. \A d \in Conns : /\ d \notin asked' => Requests(rcvq'[d]) = {}
                         /\ \A j, k \in Requests(rcvq'[d]) : j = k
    BY <1>2, <2>2, <2>5 DEF RequestInv, RequestsQueued, IInv
  <2>7. ASSUME NEW f \in Fds, Open(f)
        PROVE  /\ sock[f] \notin asked' => Requests(bufs[f]) = {}
               /\ \A j, k \in Requests(bufs[f]) : j = k
               /\ Requests(bufs[f]) # {} => Requests(rcvq'[sock[f]]) = {}
    BY <1>2, <1>3, <2>3, <2>5, <2>7 DEF RequestInv, RequestsRead, IInv
  <2>8. ASSUME NEW i \in InUse, Up
        PROVE  /\ sock[users[i].fd] \in asked'
               /\ Requests(rcvq'[sock[users[i].fd]]) = {}
               /\ Requests(bufs[users[i].fd]) # {} => tcp[sock[users[i].fd]] = "dead"
    BY <1>2, <1>3, <2>4, <2>5, <2>8 DEF RequestInv, RequestsGranted, IInv
  <2>9. RequestsQueued'
    BY <2>6 DEF RequestsQueued
  <2>10. RequestsRead'
    BY <1>1, <1>3, <2>7 DEF RequestsRead
  <2>11. RequestsGranted'
    BY <1>1, <1>3, <2>8 DEF RequestsGranted
  <2> QED
    BY <2>9, <2>10, <2>11 DEF RequestInv
<1> QED
  BY <1>4, <1>5

\* A request moves from the receive queue into the buffer.
LEMMA RequestRead ==
    ASSUME IInv, NEW f \in Fds, ReadData(f)
    PROVE  RequestInv'
<1> DEFINE c == sock[f]
           n == Least(Len(rcvq[c]), Room(f))
           first == SubSeq(rcvq[c], 1, n)
           rest == SubSeq(rcvq[c], n + 1, Len(rcvq[c]))
<1>1. /\ f \in epoll /\ c \in Conns /\ Open(f)
      /\ bufs[f] \in Seq(MsgType) /\ rcvq[c] \in Seq(MsgType)
  BY CurrentFacts DEF ReadData, Take, IInv, TypeOK, SocketInv
<1>2. n \in Nat /\ n > 0 /\ n <= Len(rcvq[c])
  <2>1. n > 0
    BY DEF ReadData
  <2>2. Len(rcvq[c]) \in Nat /\ Room(f) \in Int
    BY <1>1, ConstAssumption DEF Room
  <2> QED
    BY <2>1, <2>2 DEF Least
<1>3. /\ bufs'[f] = bufs[f] \o first
      /\ \A g \in Fds : g # f => bufs'[g] = bufs[g]
      /\ rcvq'[c] = rest
      /\ \A d \in Conns : d # c => rcvq'[d] = rcvq[d]
      /\ UNCHANGED <<users, sock, tcp, asked>> /\ (Up' => Up)
  BY <1>1 DEF ReadData, Take, IInv, TypeOK, clients, Up
<1>4. /\ first \in Seq(MsgType) /\ Len(first) = n /\ \A k \in 1 .. n : first[k] = rcvq[c][k]
      /\ rest \in Seq(MsgType) /\ Len(rest) = Len(rcvq[c]) - n
      /\ \A k \in 1 .. Len(rcvq[c]) - n : rest[k] = rcvq[c][k + n]
  BY <1>1, <1>2
<1>5. \A k \in Requests(first) : k \in Requests(rcvq[c]) /\ k <= n
  BY <1>1, <1>2, <1>4 DEF Requests
<1>6. \A k \in Requests(rest) : k + n \in Requests(rcvq[c]) /\ k \in Nat /\ k > 0
  <2>1. DOMAIN rest = 1 .. Len(rcvq[c]) - n /\ DOMAIN rcvq[c] = 1 .. Len(rcvq[c]) /\ Len(rcvq[c]) \in Nat
    BY <1>1, <1>4
  <2>2. ASSUME NEW k \in Requests(rest)
        PROVE  k + n \in Requests(rcvq[c]) /\ k \in Nat /\ k > 0
    <3>1. k \in 1 .. Len(rcvq[c]) - n /\ rest[k] = "IP_REQUEST"
      BY <2>1, <2>2 DEF Requests
    <3>2. k \in Nat /\ k > 0 /\ k + n \in 1 .. Len(rcvq[c])
      BY <1>2, <2>1, <3>1
    <3>3. rcvq[c][k + n] = "IP_REQUEST"
      BY <1>4, <3>1
    <3> QED
      BY <2>1, <3>2, <3>3 DEF Requests
  <2> QED
    BY <2>2
<1>7. \A k \in Requests(bufs'[f]) :
          \/ k \in Requests(bufs[f])
          \/ k \in Nat /\ k - Len(bufs[f]) \in Requests(first)
  <2> DEFINE all == bufs[f] \o first
             m == Len(bufs[f])
  <2>1. /\ m \in Nat /\ DOMAIN bufs[f] = 1 .. m
        /\ DOMAIN first = 1 .. n
        /\ all \in Seq(MsgType) /\ Len(all) = m + n /\ DOMAIN all = 1 .. m + n
    BY <1>1, <1>2, <1>4
  <2>2. ASSUME NEW k \in DOMAIN all
        PROVE  \/ k \in DOMAIN bufs[f] /\ all[k] = bufs[f][k]
               \/ k \in Nat /\ k - m \in DOMAIN first /\ all[k] = first[k - m]
    <3>1. k \in Nat /\ k > 0 /\ k <= m + n
      BY <1>2, <2>1, <2>2
    <3>2. CASE k <= m
      BY <1>1, <1>4, <2>1, <3>1, <3>2
    <3>3. CASE k > m
      <4>1. k - m \in 1 .. n
        BY <1>2, <2>1, <3>1, <3>3
      <4>2. all[k] = first[k - m]
        BY <1>1, <1>4, <2>1, <3>1, <3>3
      <4> QED
        BY <2>1, <3>1, <4>1, <4>2
    <3> QED
      BY <2>1, <3>1, <3>2, <3>3
  <2> QED
    BY <1>3, <2>2 DEF Requests
<1>8. \A j, k \in Requests(rcvq[c]) : j = k
  BY <1>1 DEF IInv, RequestInv, RequestsQueued
<1>9. Requests(first) # {} => Requests(rest) = {}
  BY <1>2, <1>5, <1>6, <1>8
<1>10. /\ c \notin asked => Requests(bufs[f]) = {} /\ Requests(rcvq[c]) = {}
       /\ \A j, k \in Requests(bufs[f]) : j = k
       /\ Requests(bufs[f]) # {} => Requests(rcvq[c]) = {}
  BY <1>1 DEF IInv, RequestInv, RequestsQueued, RequestsRead
<1>11. /\ c \notin asked => Requests(rest) = {} /\ Requests(bufs'[f]) = {}
       /\ \A j, k \in Requests(rest) : j = k
       /\ Requests(bufs'[f]) # {} => Requests(rest) = {}
       /\ Requests(rcvq[c]) = {} => Requests(rest) = {} /\ (Requests(bufs'[f]) # {} => Requests(bufs[f]) # {})
  BY <1>2, <1>5, <1>6, <1>7, <1>8, <1>9, <1>10
<1>12. \A j, k \in Requests(bufs'[f]) : j = k
  <2>1. CASE Requests(bufs[f]) # {}
    <3>1. Requests(first) = {}
      BY <1>5, <1>10, <2>1
    <3> QED
      BY <1>7, <1>10, <3>1
  <2>2. CASE Requests(bufs[f]) = {}
    <3>1. Len(bufs[f]) \in Nat
      BY <1>1
    <3>2. \A j, k \in Requests(first) : j = k
      BY <1>5, <1>8
    <3> QED
      BY <1>7, <2>2, <3>1, <3>2
  <2> QED
    BY <2>1, <2>2
<1>13. \A g \in Fds : Open(g) /\ g # f => sock[g] # c /\ sock[g] \in Conns
  BY <1>1 DEF IInv, SocketInv, Open, TypeOK
<1>14. \A d \in Conns : /\ d \notin asked' => Requests(rcvq'[d]) = {}
                        /\ \A j, k \in Requests(rcvq'[d]) : j = k
  BY <1>1, <1>3, <1>11 DEF IInv, RequestInv, RequestsQueued
<1>15. ASSUME NEW g \in Fds, Open(g)
       PROVE  /\ sock[g] \notin asked' => Requests(bufs'[g]) = {}
              /\ \A j, k \in Requests(bufs'[g]) : j = k
              /\ Requests(bufs'[g]) # {} => Requests(rcvq'[sock[g]]) = {}
  <2>1. CASE g = f
    BY <1>3, <1>11, <1>12, <2>1
  <2>2. CASE g # f
    BY <1>3, <1>13, <1>15, <2>2 DEF IInv, RequestInv, RequestsRead
  <2> QED
    BY <2>1, <2>2
<1>16. ASSUME NEW i \in InUse, Up
       PROVE  /\ sock[users[i].fd] \in asked
              /\ Requests(rcvq'[sock[users[i].fd]]) = {}
              /\ Requests(bufs'[users[i].fd]) # {} => tcp[sock[users[i].fd]] = "dead"
  <2>1. /\ users[i].fd \in Fds /\ Open(users[i].fd)
        /\ sock[users[i].fd] \in asked
        /\ Requests(rcvq[sock[users[i].fd]]) = {}
        /\ Requests(bufs[users[i].fd]) # {} => tcp[sock[users[i].fd]] = "dead"
    BY <1>16, OwnerFacts, DistinctAssumption DEF Open, IInv, RequestInv, RequestsGranted
  <2>2. CASE users[i].fd = f
    BY <1>3, <1>11, <2>1, <2>2
  <2>3. CASE users[i].fd # f
    BY <1>3, <1>13, <2>1, <2>3
  <2> QED
    BY <2>2, <2>3
<1>17. InUse' = InUse /\ \A g \in Fds : Open(g)' <=> Open(g)
  BY <1>3 DEF InUse, Open
<1>18. RequestsQueued'
  BY <1>14 DEF RequestsQueued
<1>19. RequestsRead'
  BY <1>3, <1>15, <1>17 DEF RequestsRead
<1>20. RequestsGranted'
  BY <1>3, <1>16, <1>17 DEF RequestsGranted
<1> QED
  BY <1>18, <1>19, <1>20 DEF RequestInv

\* An accepted connection starts with an empty buffer.
LEMMA RequestAccept ==
    ASSUME IInv, NEW f \in Fds, Accept(f)
    PROVE  RequestInv'
<1> DEFINE c == Head(backlog)
<1>1. /\ c \in Conns /\ f \notin epoll
      /\ sock' = [sock EXCEPT ![f] = c]
      /\ bufs' = [bufs EXCEPT ![f] = <<>>]
      /\ UNCHANGED <<users, pc, tcp, rcvq, asked>>
  BY AcceptFacts DEF Accept, clients
<1>2. /\ sock'[f] = c /\ bufs'[f] = <<>>
      /\ \A g \in Fds : g # f => sock'[g] = sock[g] /\ bufs'[g] = bufs[g]
  BY <1>1 DEF IInv, TypeOK
<1>3. Requests(<<>>) = {}
  BY DEF Requests
<1>4. RequestsQueued'
  BY <1>1 DEF IInv, RequestInv, RequestsQueued
<1>5. RequestsRead'
  <2>1. ASSUME NEW g \in Fds, sock'[g] # NoConn
        PROVE  /\ sock'[g] \notin asked => Requests(bufs'[g]) = {}
               /\ \A j, k \in Requests(bufs'[g]) : j = k
               /\ Requests(bufs'[g]) # {} => Requests(rcvq[sock'[g]]) = {}
    <3>1. CASE g = f
      BY <1>2, <1>3, <3>1
    <3>2. CASE g # f
      BY <1>2, <2>1, <3>2 DEF IInv, RequestInv, RequestsRead, Open
    <3> QED
      BY <3>1, <3>2
  <2> QED
    BY <1>1, <2>1 DEF RequestsRead, Open
<1>6. RequestsGranted'
  <2>1. InUse' = InUse /\ (Up' => Up)
    BY <1>1 DEF InUse, Up
  <2>2. \A i \in InUse : Up => users[i].fd \in Fds /\ users[i].fd # f
    BY <1>1, OwnerFacts
  <2> QED
    BY <1>1, <1>2, <2>1, <2>2 DEF IInv, RequestInv, RequestsGranted
<1> QED
  BY <1>4, <1>5, <1>6 DEF RequestInv

LEMMA RequestFreed ==
    ASSUME IInv, NEW f \in Fds, FreedStep(f)
    PROVE  RequestInv'
<1> DEFINE c == sock[f]
<1>1. /\ Up /\ Freed(f) /\ c \in Conns
      /\ UNCHANGED <<bufs, asked>>
  BY DEF FreedStep, Freed
<1>2. /\ sock'[f] = NoConn
      /\ \A g \in Fds : g # f => sock'[g] = sock[g]
      /\ rcvq'[c] = <<>>
      /\ \A d \in Conns : d # c => rcvq'[d] = rcvq[d] /\ tcp'[d] = tcp[d]
  BY <1>1 DEF Freed, IInv, TypeOK
<1>3. Requests(<<>>) = {}
  BY DEF Requests
<1>4. \A g \in Fds : sock[g] # NoConn /\ g # f => sock[g] # c /\ sock[g] \in Conns
  BY <1>1 DEF IInv, SocketInv, Open, TypeOK
<1>5. RequestsQueued'
  BY <1>1, <1>2, <1>3 DEF IInv, RequestInv, RequestsQueued
<1>6. RequestsRead'
  <2>1. ASSUME NEW g \in Fds, sock'[g] # NoConn
        PROVE  g # f /\ sock'[g] = sock[g] /\ Open(g) /\ rcvq'[sock[g]] = rcvq[sock[g]]
    BY <1>2, <1>4, <2>1 DEF Open
  <2> QED
    BY <1>1, <2>1 DEF IInv, RequestInv, RequestsRead, Open
<1>7. RequestsGranted'
  <2>1. /\ InUse' = {i \in InUse : users[i].fd # f}
        /\ \A i \in InUse' : users'[i].fd = users[i].fd
    BY <1>1, InUseFreed
  <2>2. \A i \in InUse : users[i].fd \in Fds /\ sock[users[i].fd] # NoConn
    BY <1>1, OwnerFacts, DistinctAssumption
  <2> QED
    BY <1>1, <1>2, <1>4, <2>1, <2>2 DEF IInv, RequestInv, RequestsGranted
<1> QED
  BY <1>5, <1>6, <1>7 DEF RequestInv

\* The request goes with its reply; otherwise the connection is dead.
LEMMA RequestGranted ==
    ASSUME IInv, IpRequest
    PROVE  RequestInv'
<1> DEFINE c == sock[cur]
           i == Lowest(FreeIds)
<1>1. /\ Up /\ i \in Addrs /\ users[i].is_free
      /\ cur \in Fds /\ c \in Conns
      /\ 1 \in Requests(bufs[cur])
      /\ users' = Allocated(i, cur)
      /\ TcpMonotone
      /\ \/ bufs' = Consumed
         \/ tcp'[c] = "dead" /\ UNCHANGED bufs
         \/ ~Up' /\ UNCHANGED bufs
  BY IpRequestFacts DEF Up
<1>2. UNCHANGED <<sock, rcvq, asked>>
  BY DEF IpRequest
<1>3. /\ c \in asked /\ Requests(rcvq[c]) = {}
      /\ \A j, k \in Requests(bufs[cur]) : j = k
  BY <1>1, DistinctAssumption DEF IInv, RequestInv, RequestsRead, Open
<1>4. bufs[cur] \in Seq(MsgType) /\ bufs[cur] # <<>>
  BY <1>1, CurrentFacts DEF IpRequest, Message, IInv, TypeOK
<1>5. /\ \A g \in Fds : g # cur => bufs'[g] = bufs[g]
      /\ Requests(bufs'[cur]) = {} \/ (bufs'[cur] = bufs[cur] /\ (Up' => tcp'[c] = "dead"))
  <2>1. CASE bufs' = Consumed
    <3>1. bufs'[cur] = Tail(bufs[cur]) /\ \A g \in Fds : g # cur => bufs'[g] = bufs[g]
      BY <1>1, <2>1 DEF Consumed, IInv, TypeOK
    <3> QED
      BY <1>1, <1>3, <1>4, <3>1, TailRequests
  <2>2. CASE UNCHANGED bufs /\ (tcp'[c] = "dead" \/ ~Up')
    BY <2>2
  <2> QED
    BY <1>1, <2>1, <2>2
<1>6. RequestsQueued'
  BY <1>2 DEF IInv, RequestInv, RequestsQueued
<1>7. RequestsRead'
  BY <1>2, <1>3, <1>5 DEF IInv, RequestInv, RequestsRead, Open
<1>8. RequestsGranted'
  <2>1. /\ InUse' = InUse \cup {i}
        /\ users'[i].fd = cur
        /\ \A j \in InUse : users'[j] = users[j]
    BY <1>1, InUseIpRequest
  <2>2. ASSUME NEW j \in InUse, Up'
        PROVE  /\ sock[users[j].fd] \in asked
               /\ Requests(rcvq[sock[users[j].fd]]) = {}
               /\ Requests(bufs'[users[j].fd]) # {} => tcp'[sock[users[j].fd]] = "dead"
    <3>1. users[j].fd \in Fds /\ sock[users[j].fd] \in Conns
      BY <1>1, OwnerFacts
    <3>2. /\ sock[users[j].fd] \in asked
          /\ Requests(rcvq[sock[users[j].fd]]) = {}
          /\ Requests(bufs[users[j].fd]) # {} => tcp[sock[users[j].fd]] = "dead"
      BY <1>1 DEF IInv, RequestInv, RequestsGranted
    <3>3. CASE users[j].fd = cur
      BY <1>5, <2>2, <3>2, <3>3
    <3>4. CASE users[j].fd # cur
      BY <1>1, <1>5, <3>1, <3>2, <3>4 DEF TcpMonotone
    <3> QED
      BY <3>3, <3>4
  <2>3. Up' => /\ sock[cur] \in asked
               /\ Requests(rcvq[sock[cur]]) = {}
               /\ Requests(bufs'[cur]) # {} => tcp'[sock[cur]] = "dead"
    BY <1>3, <1>5
  <2> QED
    BY <1>2, <2>1, <2>2, <2>3 DEF RequestsGranted
<1> QED
  BY <1>6, <1>7, <1>8 DEF RequestInv

LEMMA RequestStep ==
    ASSUME IInv, [Next]_vars
    PROVE  RequestInv'
<1> USE DEF program, kernel, clients, Up
<1>1. CASE UNCHANGED vars
  BY <1>1, RequestFrame, SameUsers, SameTcp DEF vars
<1>2. ASSUME NEW c \in Conns, Connect(c) PROVE RequestInv'
  <2>1. TcpMonotone
    BY <1>2 DEF Connect, TcpMonotone, IInv, TypeOK
  <2> QED
    BY <1>2, <2>1, RequestFrame, SameUsers DEF Connect
<1>3. ASSUME NEW c \in Conns, NEW how \in {"fin", "rst"}, ClientClose(c, how) PROVE RequestInv'
  <2>1. TcpMonotone
    BY <1>3 DEF ClientClose, TcpMonotone, IInv, TypeOK
  <2> QED
    BY <1>3, <2>1, RequestFrame, SameUsers DEF ClientClose
<1>4. ASSUME NEW a \in Addrs, TunArrive(a) PROVE RequestInv'
  BY <1>4, RequestFrame, SameUsers, SameTcp DEF TunArrive
<1>5. CASE Tick
  BY <1>5, RequestFrame, TickOwners, SameTcp DEF Tick
<1>6. CASE Environment
  BY <1>2, <1>3, <1>4, <1>5, <1>6, RequestSend DEF Environment
<1>7. CASE EpollWait \/ BatchDone \/ AcceptFails \/ HartbeatDone
  BY <1>7, RequestFrame, SameUsers, SameTcp DEF EpollWait, BatchDone, AcceptFails, HartbeatDone
<1>8. CASE TunUnroutable
  BY <1>8, RequestFrame, SameUsers, SameTcp DEF TunUnroutable, Take
<1>9. CASE TunForward
  BY <1>9, RequestFrame, SameUsers, TunForwardFacts DEF TunForward, Take
<1>10. ASSUME NEW f \in Fds, ReadNothing(f) PROVE RequestInv'
  <2>1. pc = "dispatch" /\ UNCHANGED <<bufs, backlog, tunq, asked, told>>
    BY <1>10 DEF ReadNothing, Take
  <2>2. CASE Freed(f) /\ UNCHANGED <<pc, cur>>
    BY <2>1, <2>2, RequestFreed DEF FreedStep
  <2>3. CASE pc' = "parse" /\ UNCHANGED <<users, epoll, sock, tcp, rcvq>>
    BY <2>1, <2>3, RequestFrame, SameUsers, SameTcp
  <2> QED
    BY <1>10, <2>2, <2>3, ReadNothingFacts
<1>11. ASSUME NEW f \in Fds, ReadError(f) PROVE RequestInv'
  BY <1>11, ReadErrorFacts, RequestFreed DEF ReadError, Take, FreedStep
<1>12. CASE ParseDone \/ PoolFull
  BY <1>12, RequestFrame, SameUsers, SameTcp DEF ParseDone, PoolFull, Message
<1>13. CASE InetRequest \/ KeepaliveNoUser \/ UnknownType
  BY <1>13, RequestFrame, SameUsers, SameTcp DEF InetRequest, KeepaliveNoUser, UnknownType, Message
<1>14. CASE Keepalive
  BY <1>14, RequestFrame, KeepaliveOwners, SameTcp DEF Keepalive, Message
<1>15. CASE HartbeatUser
  <2>1. UNCHANGED <<bufs, cur, backlog, tunq, asked, told>>
    BY <1>15 DEF HartbeatUser
  <2>2. CASE UNCHANGED pc /\ \E f \in Fds : Freed(f)
    BY <1>15, <2>1, <2>2, HartbeatUserFacts, RequestFreed DEF FreedStep
  <2>3. CASE SameOwners /\ TcpMonotone /\ UNCHANGED <<epoll, sock, rcvq>>
    BY <1>15, <2>1, <2>3, HartbeatUserFacts, RequestFrame
  <2> QED
    BY <1>15, <2>2, <2>3, HartbeatUserFacts
<1>16. CASE Server
  BY <1>7, <1>8, <1>9, <1>10, <1>11, <1>12, <1>13, <1>14, <1>15, <1>16,
     RequestAccept, RequestRead, RequestGranted DEF Server
<1> QED
  BY <1>1, <1>6, <1>16 DEF Next

---------------------------------------------------------------------------
(* The theorems.                                                           *)

LEMMA InitInv ==
    ASSUME Init
    PROVE  IInv
<1> USE DEF Init
<1>a. MAX_CLIENTS \in Nat /\ MAX_CLIENTS > 3 /\ Ids = 0 .. MAX_CLIENTS - 1
  BY ConstAssumption DEF Ids
<1>1. TypeOK
  <2>1. ASSUME NEW i \in Ids
        PROVE  [is_free |-> i \notin Reserved, fd |-> NoFd, sent |-> 0, recved |-> 0,
                v4addr |-> NoAddr] \in User
    BY DEF User
  <2>2. users \in [Ids -> User]
    BY <2>1
  <2>3. \A S : <<>> \in Seq(S)
    OBVIOUS
  <2>4. bufs \in [Fds -> Seq(MsgType)] /\ \A f \in Fds : Len(bufs[f]) <= BufCap
    BY <2>3, ConstAssumption
  <2> QED
    BY <1>a, <2>2, <2>3, <2>4 DEF TypeOK, PC, TcpState
<1>2. ReservedInv
  <2>1. Reserved \subseteq Ids /\ Addrs \subseteq Ids /\ \A i \in Addrs : i \notin Reserved
    BY <1>a DEF Reserved, Addrs
  <2>2. \A i \in Ids : /\ users[i].is_free = (i \notin Reserved)
                       /\ users[i].fd = NoFd /\ users[i].v4addr = NoAddr
    OBVIOUS
  <2> QED
    BY <2>1, <2>2 DEF ReservedInv
<1>3. SocketInv
  BY DEF SocketInv, Open
<1>4. EventInv
  BY DEF EventInv
<1>5. InUse = {}
  BY DEF InUse
<1>6. RequestInv
  BY <1>5 DEF RequestInv, RequestsQueued, RequestsRead, RequestsGranted, Requests, Open
<1>7. TableMatchesSockets /\ ToldInv /\ AddressHeld
  BY <1>5 DEF TableMatchesSockets, ToldInv, AddressHeld
<1> QED
  BY <1>1, <1>2, <1>3, <1>4, <1>6, <1>7 DEF IInv

LEMMA StepInv ==
    ASSUME IInv, [Next]_vars
    PROVE  IInv'
  BY TypeStep, ReservedStep, SocketStep, EventStep, RequestStep, TableStep, ToldStep, HeldStep
     DEF IInv

\* The inductive invariant holds in every reachable state.
THEOREM Invariant == Spec => []IInv
  BY InitInv, StepInv, PTL DEF Spec

\* No step of the server or of its environment leaves the types, and no read
\* overruns the buffer of a connection.
THEOREM TypeCorrect == Spec => []TypeOK
<1>1. IInv => TypeOK
  BY DEF IInv
<1> QED
  BY <1>1, Invariant, PTL

\* The table of users names open, watched and distinct descriptors, however
\* many clients come, go and time out.
THEOREM TableCorrect == Spec => []TableMatchesSockets
<1>1. IInv => TableMatchesSockets
  BY DEF IInv
<1> QED
  BY <1>1, Invariant, PTL

\* An announced address stays with the connection it was announced to.
THEOREM AddressStays == Spec => []AddressHeld
<1>1. IInv => AddressHeld
  BY DEF IInv
<1> QED
  BY <1>1, Invariant, PTL

\* The one thread of the server never waits in read() for one client.
THEOREM NeverBlocksInRead == Spec => []ReadNeverBlocks
<1>1. IInv => ReadNeverBlocks
  BY DEF IInv, EventInv, SocketInv, Open, ReadNeverBlocks
<1> QED
  BY <1>1, Invariant, PTL

\* An address is announced only to a connection that asked for one.
THEOREM ToldOnlyWhoAsked == Spec => []NobodyToldUnasked
<1>1. IInv => NobodyToldUnasked
  BY DEF IInv, ToldInv, NobodyToldUnasked
<1> QED
  BY <1>1, Invariant, PTL

---------------------------------------------------------------------------
(* The table implements the pool.                                          *)

Closed == {c \in Conns : tcp[c] = "closed"}

\* A step that keeps owners and descriptors keeps the leases, and a step that
\* kills the process ends them all.
LEMMA PoolQuiet ==
    ASSUME IInv, Quiet
    PROVE  [Pool!Next]_(Pool!vars)
<1>1. Closed' = Closed
  BY DEF Quiet, TcpMonotone, Closed
<1>2. InUse' = InUse /\ sock' = sock /\ \A i \in InUse : users'[i].fd = users[i].fd
  BY InUseQuiet DEF Quiet, SameOwners, InUse
<1>3. CASE Up' <=> Up
  <2>1. Lease' = Lease
    BY <1>2, <1>3 DEF Lease
  <2> QED
    BY <1>1, <1>3, <2>1 DEF Pool!vars, Closed, Up
<1>4. CASE Up /\ ~Up'
  <2>1. Lease' = [a \in Addrs |-> NoConn]
    BY <1>4 DEF Lease
  <2> QED
    BY <1>1, <1>4, <2>1 DEF Pool!Next, Pool!Stop, Closed, Up
<1> QED
  BY <1>3, <1>4 DEF Quiet

LEMMA PoolConnect ==
    ASSUME IInv, NEW c \in Conns, Connect(c)
    PROVE  UNCHANGED Pool!vars
<1>1. UNCHANGED <<users, sock, pc>>
  BY DEF Connect, program
<1>2. Lease' = Lease /\ Up' = Up
  BY <1>1 DEF Lease, InUse, Up
<1>3. Closed' = Closed
  BY DEF Connect, Closed, IInv, TypeOK
<1> QED
  BY <1>2, <1>3 DEF Pool!vars, Closed

LEMMA PoolAccept ==
    ASSUME IInv, NEW f \in Fds, Accept(f)
    PROVE  UNCHANGED Pool!vars
<1>1. UNCHANGED <<users, pc, tcp>>
  BY DEF Accept
<1>2. InUse' = InUse /\ Up' = Up
  BY <1>1 DEF InUse, Up
<1>3. f \notin epoll /\ \A g \in Fds : g # f => sock'[g] = sock[g]
  BY AcceptFacts DEF IInv, TypeOK
<1>4. \A i \in InUse : Up => users[i].fd \in Fds /\ users[i].fd # f
  BY <1>3, OwnerFacts
<1>5. Lease' = Lease
  BY <1>1, <1>2, <1>3, <1>4 DEF Lease
<1> QED
  BY <1>1, <1>2, <1>5 DEF Pool!vars

LEMMA PoolFreed ==
    ASSUME IInv, NEW f \in Fds, FreedStep(f)
    PROVE  Pool!Next
<1> DEFINE c == sock[f]
<1>1. Up /\ Up' /\ Freed(f) /\ c \in Conns /\ c # NoConn
  BY DistinctAssumption DEF FreedStep, Freed, Up
<1>2. /\ \A g \in Fds : g # f => sock'[g] = sock[g]
      /\ tcp[c] # "closed" /\ tcp'[c] = "closed"
      /\ \A d \in Conns : d # c => tcp'[d] = tcp[d]
  BY <1>1 DEF Freed, IInv, TypeOK, SocketInv, Open
<1>3. c \notin Closed /\ Closed' = Closed \cup {c}
  BY <1>1, <1>2 DEF Closed
<1>4. /\ InUse' = {i \in InUse : users[i].fd # f}
      /\ \A i \in InUse' : users'[i].fd = users[i].fd
  BY <1>1, InUseFreed
<1>5. \A i \in InUse : /\ users[i].fd \in Fds
                       /\ sock[users[i].fd] = c => users[i].fd = f
  BY <1>1, OwnerFacts DEF IInv, SocketInv, Open
<1>6. Lease' = [a \in Addrs |-> IF Lease[a] = c THEN NoConn ELSE Lease[a]]
  BY <1>1, <1>2, <1>4, <1>5 DEF Lease
<1>7. PICK d \in Conns : d = c
  BY <1>1
<1>8. Pool!Close(d)
  BY <1>1, <1>3, <1>6, <1>7 DEF Pool!Close, Closed
<1> QED
  BY <1>8 DEF Pool!Next

LEMMA PoolGrant ==
    ASSUME IInv, IpRequest
    PROVE  Pool!Next
<1> DEFINE c == sock[cur]
           i == Lowest(FreeIds)
<1>1. /\ Up /\ i \in Addrs /\ users[i].is_free
      /\ cur \in Fds /\ cur \in epoll /\ c \in Conns
      /\ 1 \in Requests(bufs[cur])
      /\ users' = Allocated(i, cur)
      /\ TcpMonotone
      /\ Up' => tcp[c] # "dead"
  BY IpRequestFacts DEF Up
<1>2. Closed' = Closed
  BY <1>1 DEF TcpMonotone, Closed
<1>3. CASE ~Up'
  <2>1. Lease' = [a \in Addrs |-> NoConn]
    BY <1>3 DEF Lease
  <2> QED
    BY <1>1, <1>2, <1>3, <2>1 DEF Pool!Next, Pool!Stop, Closed, Up
<1>4. CASE Up'
  <2>1. /\ InUse' = InUse \cup {i} /\ i \notin InUse
        /\ users'[i].fd = cur
        /\ \A j \in InUse : users'[j] = users[j]
    BY <1>1, InUseIpRequest
  <2>2. sock' = sock
    BY DEF IpRequest
  <2>3. c \notin Closed
    BY <1>1, DistinctAssumption DEF Closed, IInv, SocketInv, Open
  <2>4. Lease[i] = NoConn
    BY <1>1, <2>1 DEF Lease
  <2>5. \A b \in Addrs : Lease[b] # c
    <3>1. \A j \in InUse : users[j].fd # cur /\ users[j].fd \in Fds
      BY <1>1, <1>4, NoSecondAddress, OwnerFacts
    <3>2. \A j \in InUse : sock[users[j].fd] # c
      BY <1>1, <3>1, DistinctAssumption DEF IInv, SocketInv, Open
    <3> QED
      BY <1>1, <3>2, DistinctAssumption DEF Lease
  <2>6. Lease' = [Lease EXCEPT ![i] = c]
    BY <1>1, <1>4, <2>1, <2>2 DEF Lease
  <2>7. Pool!Grant(i, c)
    BY <1>1, <1>2, <1>4, <2>3, <2>4, <2>5, <2>6 DEF Pool!Grant, Closed, Up
  <2> QED
    BY <1>1, <2>7 DEF Pool!Next
<1> QED
  BY <1>3, <1>4

\* The server implements the pool of AddressPool: one holder per address, one
\* address per connection, and no handover between two open connections.
THEOREM ImplementsPool == Spec => PoolSpec
<1>1. Init => Pool!Init
  <2> SUFFICES ASSUME Init PROVE Pool!Init
    OBVIOUS
  <2>1. InUse = {} /\ Up /\ Closed = {}
    BY DEF Init, InUse, Up, Closed
  <2>2. Lease = [a \in Addrs |-> NoConn]
    BY <2>1 DEF Lease
  <2> QED
    BY <2>1, <2>2 DEF Pool!Init, Closed
<1>2. IInv /\ [Next]_vars => [Pool!Next]_(Pool!vars)
  BY StepCases, PoolQuiet, PoolConnect, PoolAccept, PoolFreed, PoolGrant
<1> QED
  BY <1>1, <1>2, Invariant, PTL DEF Spec, PoolSpec, Pool!Spec

\* So a connection has one address at most, and none once it is closed.
THEOREM OneAddress == Spec => []Pool!OneAddressPerConnection
<1>1. Pool!Spec => []Pool!OneAddressPerConnection
  BY Pool!PoolOneAddress, DistinctAssumption
<1> QED
  BY <1>1, ImplementsPool, PTL DEF PoolSpec

\* And an address never passes from one connection to another in one step.
THEOREM NeverHandsOver == Spec => Pool!NeverHandedOver
<1>1. Pool!Spec => Pool!NeverHandedOver
  BY Pool!PoolNeverHandsOver, DistinctAssumption
<1> QED
  BY <1>1, ImplementsPool, PTL DEF PoolSpec

=============================================================================
