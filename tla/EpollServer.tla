---------------------------- MODULE EpollServer ----------------------------
(***************************************************************************)
(* The epoll server of the tunnel (server/Server/main.cpp and its copies): *)
(* one thread that waits for events, handles every event of the batch and  *)
(* then runs the heartbeat pass over its table of users.                   *)
(*                                                                         *)
(* The steps of the thread interleave with the kernel and with the clients *)
(* of the other end: messages and connections arrive, peers close or reset *)
(* their connections and time passes between any two of them.  A message   *)
(* is one element of a sequence; the byte stream under it is left out.     *)
(***************************************************************************)
EXTENDS Integers, Sequences, FiniteSets

CONSTANTS
    Conns,              \* client connections, each made at most once
    Fds,                \* descriptors accept() may return
    ServerFd, TunFd,    \* the listening socket and the tun device
    NoConn, NoFd,       \* no connection, no descriptor (-1)
    MAX_CLIENTS,        \* size of users[]
    HARTBEAT_INTERVAL,  \* in clock ticks
    HARTBEAT_TIMEOUT,
    BufCap,             \* BUF_SIZE, in messages
    RcvCap,             \* bound: messages in a socket's receive queue
    TunCap,             \* BUF_SIZE of the tun buffer, in packets
    TunQCap,            \* bound: packets queued in the tun device
    Traffic,            \* bound: what a client sends once it asked for its address
    FreeOnEOF,          \* the test is size <= 0 (server/main.cpp, cy/main.cpp), not size < 0
    TunSkips,           \* an unroutable packet is consumed (not so in server/main.cpp)
    TunWriteMayFail,    \* write() to the tun may return -1
    Aborts,             \* a peer may reset its connection, not only close it
    SlowStart,          \* a client may send a KEEPALIVE before its IP_REQUEST
    EpollMayFail        \* epoll_ctl(EPOLL_CTL_ADD) may fail

Ids == 0 .. MAX_CLIENTS - 1
Reserved == {0, 1, MAX_CLIENTS - 1}
Addrs == Ids \ Reserved
NoAddr == -1

ASSUME ConstAssumption ==
    /\ MAX_CLIENTS \in Nat /\ MAX_CLIENTS > 3
    /\ HARTBEAT_INTERVAL \in Nat /\ HARTBEAT_TIMEOUT \in Nat
    /\ BufCap \in Nat \ {0} /\ RcvCap \in Nat \ {0}
    /\ TunCap \in Nat \ {0} /\ TunQCap \in Nat
    /\ Traffic \subseteq {"INET_REQUEST", "KEEPALIVE", "OTHER"}
    /\ {FreeOnEOF, TunSkips, TunWriteMayFail, Aborts, SlowStart,
        EpollMayFail} \subseteq BOOLEAN

ASSUME DistinctAssumption ==
    /\ NoConn \notin Conns
    /\ NoFd \notin Fds
    /\ ServerFd \notin Fds \cup {NoFd}
    /\ TunFd \notin Fds \cup {NoFd, ServerFd}

MsgType == {"IP_REQUEST", "INET_REQUEST", "KEEPALIVE", "OTHER"}
TcpState == {"none", "est", "fin", "rst", "dead", "closed"}
PC == {"wait", "dispatch", "parse", "hartbeat", "dead", "hung"}

VARIABLES
    \* the program
    users,      \* users[i]: the entry that owns address i
    bufs,       \* bufs[f]: messages read from f and not yet consumed
    tunbuf,     \* bufs[tun_fd]: packets read from the tun and not yet sent
    pc, cur,    \* where the thread is; the descriptor in process_client
    pending,    \* events of the batch not handled yet
    hb,         \* index of the heartbeat pass
    \* the kernel
    sock,       \* sock[f]: the connection behind descriptor f
    epoll,      \* client descriptors registered with epoll
    backlog,    \* connections waiting in accept()'s queue
    tcp,        \* tcp[c]: state of the connection, seen from the server
    rcvq,       \* rcvq[c]: messages received and not read yet
    tunq,       \* destinations of the packets waiting in the tun
    \* the clients
    asked,      \* connections that sent their IP_REQUEST
    told,       \* told[c]: address the IP_RESPONSE announced to c
    got,        \* got[c]: destinations of the packets sent to c
    refused     \* connections a frame could not be written to

program == <<users, bufs, tunbuf, pc, cur, pending, hb>>
kernel == <<sock, epoll, backlog, tcp, rcvq, tunq>>
clients == <<asked, told, got, refused>>
vars == <<program, kernel, clients>>

Init ==
    /\ users = [i \in Ids |-> [is_free |-> i \notin Reserved, fd |-> NoFd,
                               sent |-> 0, recved |-> 0, v4addr |-> NoAddr]]
    /\ bufs = [f \in Fds |-> <<>>]
    /\ tunbuf = <<>>
    /\ pc = "wait" /\ cur = NoFd /\ pending = {} /\ hb = 0
    /\ sock = [f \in Fds |-> NoConn]
    /\ epoll = {}
    /\ backlog = <<>>
    /\ tcp = [c \in Conns |-> "none"]
    /\ rcvq = [c \in Conns |-> <<>>]
    /\ tunq = <<>>
    /\ asked = {}
    /\ told = [c \in Conns |-> NoAddr]
    /\ got = [c \in Conns |-> {}]
    /\ refused = {}

---------------------------------------------------------------------------
(* What the kernel does with the program's calls.                          *)

\* epoll reports a client descriptor that has data, an end of file or an error.
Readable(c) == rcvq[c] # <<>> \/ tcp[c] \in {"fin", "rst", "dead"}

\* A write of n buffers to a connection in state s: its result and the state
\* it leaves.  A closed peer accepts the first buffer and answers with a reset,
\* which may be there before the second; a reset connection reports its error
\* once; any later write raises SIGPIPE, which the program does not handle.
WriteOutcomes(s, n) ==
    CASE s = "est" -> {<<"ok", "est">>}
      [] s = "fin" -> {<<"ok", "fin">>, <<"ok", "dead">>}
                        \cup (IF n > 1 THEN {<<"sigpipe", "dead">>} ELSE {})
      [] s = "rst" -> {<<"err", "dead">>}
      [] OTHER     -> {<<"sigpipe", "dead">>}

---------------------------------------------------------------------------
(* The clients and the clock.                                              *)

Connect(c) ==
    /\ tcp[c] = "none"
    /\ tcp' = [tcp EXCEPT ![c] = "est"]
    /\ backlog' = Append(backlog, c)
    /\ UNCHANGED <<program, sock, epoll, rcvq, tunq, clients>>

\* A client asks for its address once, and uses the tunnel afterwards.
ClientSend(c, m) ==
    /\ tcp[c] = "est"
    /\ Len(rcvq[c]) < RcvCap
    /\ \/ m = "IP_REQUEST" /\ c \notin asked
       \/ m \in Traffic /\ c \in asked
       \/ m = "KEEPALIVE" /\ SlowStart
    /\ asked' = IF m = "IP_REQUEST" THEN asked \cup {c} ELSE asked
    /\ rcvq' = [rcvq EXCEPT ![c] = Append(@, m)]
    /\ UNCHANGED <<program, sock, epoll, backlog, tcp, tunq, told, got, refused>>

ClientClose(c, how) ==
    /\ tcp[c] = "est"
    /\ \/ how = "fin"
       \/ how = "rst" /\ Aborts
    /\ tcp' = [tcp EXCEPT ![c] = how]
    /\ UNCHANGED <<program, sock, epoll, backlog, rcvq, tunq, clients>>

\* A packet for an address of the pool is routed to the tun device.
TunArrive(a) ==
    /\ Len(tunq) < TunQCap
    /\ tunq' = Append(tunq, a)
    /\ UNCHANGED <<program, sock, epoll, backlog, tcp, rcvq, clients>>

\* One second: the ages of the entries in use, up to the first value that
\* exceeds the limit they are compared with.
Older(age, limit) == IF age > limit THEN age ELSE age + 1

Tick ==
    /\ users' = [i \in Ids |->
          IF users[i].is_free \/ i \in Reserved THEN users[i]
          ELSE [users[i] EXCEPT !.sent = Older(@, HARTBEAT_INTERVAL),
                                !.recved = Older(@, HARTBEAT_TIMEOUT)]]
    /\ users' # users
    /\ UNCHANGED <<bufs, tunbuf, pc, cur, pending, hb, kernel, clients>>

---------------------------------------------------------------------------
(* The table of users.                                                     *)

InUse == {i \in Ids : ~users[i].is_free /\ users[i].fd # NoFd}
FreeIds == {i \in Ids : users[i].is_free}
Lowest(S) == CHOOSE i \in S : \A j \in S : i <= j

UserOfFd(f) == {i \in Ids : users[i].fd = f /\ ~users[i].is_free}
UserOfAddr(a) == {i \in Ids : users[i].v4addr = a /\ ~users[i].is_free}

\* allocate_ip_addr: the lowest free entry, stamped with the current time.
Allocated(i, f) ==
    [users EXCEPT ![i] = [is_free |-> FALSE, fd |-> f, sent |-> 0, recved |-> 0,
                          v4addr |-> i]]

DeallocatedNothing(us, f) == us                              \* mutant
DeallocatedFirst(us, f) ==                                   \* mutant
    LET inUse == {i \in Ids : us[i].fd # NoFd /\ ~us[i].is_free}
    IN  IF inUse = {} THEN us
        ELSE [us EXCEPT ![Lowest(inUse)] = [@ EXCEPT !.is_free = TRUE, !.fd = NoFd]]

\* deallocate_ip_addr: the first entry of the descriptor, if there is one.
Deallocated(us, f) ==
    LET mine == {i \in Ids : us[i].fd = f /\ ~us[i].is_free}
    IN  IF mine = {} THEN us
        ELSE [us EXCEPT ![Lowest(mine)] = [@ EXCEPT !.is_free = TRUE, !.fd = NoFd]]

FreeEntryOnly(us, f) ==                                      \* mutant
    users' = Deallocated(us, f) /\ UNCHANGED <<epoll, sock, tcp, rcvq>>

\* free_client_fd: out of epoll, out of the table, closed; nothing at all
\* when the descriptor is not registered.
FreeClientFd(us, f) ==
    IF f \in epoll
    THEN /\ epoll' = epoll \ {f}
         /\ users' = Deallocated(us, f)
         /\ sock' = [sock EXCEPT ![f] = NoConn]
         /\ tcp' = [tcp EXCEPT ![sock[f]] = "closed"]
         /\ rcvq' = [rcvq EXCEPT ![sock[f]] = <<>>]
    ELSE /\ users' = us
         /\ UNCHANGED <<epoll, sock, tcp, rcvq>>

---------------------------------------------------------------------------
(* The event loop of main().                                               *)

Ready == {f \in epoll : Readable(sock[f])}
           \cup (IF backlog # <<>> THEN {ServerFd} ELSE {})
           \cup (IF tunq # <<>> THEN {TunFd} ELSE {})

EpollWait ==
    /\ pc = "wait"
    /\ pending' = Ready
    /\ pc' = "dispatch"
    /\ UNCHANGED <<users, bufs, tunbuf, cur, hb, kernel, clients>>

\* The events of a batch come in any order.
Take(e) == pc = "dispatch" /\ e \in pending /\ pending' = pending \ {e}

BatchDone ==
    /\ pc = "dispatch" /\ pending = {}
    /\ pc' = "hartbeat" /\ hb' = 0
    /\ UNCHANGED <<users, bufs, tunbuf, cur, pending, kernel, clients>>

AcceptKeepsBuffer(f) ==                                      \* mutant
    /\ Take(ServerFd)
    /\ sock[f] = NoConn
    /\ sock' = [sock EXCEPT ![f] = Head(backlog)]
    /\ backlog' = Tail(backlog)
    /\ epoll' = epoll \cup {f}
    /\ UNCHANGED <<users, bufs, tunbuf, pc, cur, hb, tcp, rcvq, tunq, clients>>

\* process_server, accept succeeds: a descriptor nobody uses, with a buffer
\* that is empty whoever used it before.  When epoll refuses the descriptor it
\* stays open and nobody ever looks at it again.
Accept(f) ==
    /\ Take(ServerFd)
    /\ sock[f] = NoConn
    /\ sock' = [sock EXCEPT ![f] = Head(backlog)]
    /\ backlog' = Tail(backlog)
    /\ bufs' = [bufs EXCEPT ![f] = <<>>]
    /\ \/ epoll' = epoll \cup {f}
       \/ EpollMayFail /\ epoll' = epoll
    /\ UNCHANGED <<users, tunbuf, pc, cur, hb, tcp, rcvq, tunq, clients>>

\* process_server, accept fails: no descriptor is left.
AcceptFails ==
    /\ Take(ServerFd)
    /\ \A f \in Fds : sock[f] # NoConn
    /\ UNCHANGED <<users, bufs, tunbuf, pc, cur, hb, kernel, clients>>

---------------------------------------------------------------------------
(* process_tun                                                             *)

\* The packets in the buffer after the read: a full buffer reads nothing.
TunRead == IF Len(tunbuf) < TunCap THEN Append(tunbuf, Head(tunq)) ELSE tunbuf
TunLeft == IF Len(tunbuf) < TunCap THEN Tail(tunq) ELSE tunq

TunUnroutableStuck ==                                        \* mutant
    /\ Take(TunFd)
    /\ UserOfAddr(TunRead[1]) = {}
    /\ tunq' = TunLeft
    /\ tunbuf' = TunRead /\ pc' = "hung"
    /\ UNCHANGED <<users, bufs, cur, hb, sock, epoll, backlog, tcp, rcvq, clients>>

\* Nobody owns the destination of the first packet: dropped, or, where the
\* loop does not advance, the thread goes round for ever.
TunUnroutable ==
    /\ Take(TunFd)
    /\ UserOfAddr(TunRead[1]) = {}
    /\ tunq' = TunLeft
    /\ IF TunSkips THEN tunbuf' = <<>> /\ pc' = pc
                   ELSE tunbuf' = TunRead /\ pc' = "hung"
    /\ UNCHANGED <<users, bufs, cur, hb, sock, epoll, backlog, tcp, rcvq, clients>>

\* The buffer after the frame was written, or not.
TunRestKept(result) == TunRead                               \* mutant
TunRest(result) == IF result = "ok" THEN <<>> ELSE TunRead

\* The whole buffer goes to the owner of the first packet's destination; a
\* write that fails leaves the buffer as it is for the next packet.
TunForward ==
    /\ Take(TunFd)
    /\ UserOfAddr(TunRead[1]) # {}
    /\ tunq' = TunLeft
    /\ LET c == sock[users[Lowest(UserOfAddr(TunRead[1]))].fd]
       IN \E o \in WriteOutcomes(tcp[c], 2) :
            /\ tcp' = [tcp EXCEPT ![c] = o[2]]
            /\ tunbuf' = TunRest(o[1])
            /\ got' = IF o[1] = "ok"
                      THEN [got EXCEPT ![c] = @ \cup {TunRead[k] : k \in DOMAIN TunRead}]
                      ELSE got
            /\ refused' = IF o[1] = "err" THEN refused \cup {c} ELSE refused
            /\ pc' = IF o[1] = "sigpipe" THEN "dead" ELSE pc
    /\ UNCHANGED <<users, bufs, cur, hb, sock, epoll, backlog, rcvq, asked, told>>

---------------------------------------------------------------------------
(* process_client                                                          *)

RoomWhole(f) == BufCap                                       \* mutant
Room(f) == BufCap - Len(bufs[f])
Least(a, b) == IF a < b THEN a ELSE b

\* read() returns the data first, as much as fits.
ReadData(f) ==
    /\ Take(f)
    /\ LET c == sock[f]
           n == Least(Len(rcvq[c]), Room(f))
       IN /\ n > 0
          /\ bufs' = [bufs EXCEPT ![f] = @ \o SubSeq(rcvq[c], 1, n)]
          /\ rcvq' = [rcvq EXCEPT ![c] = SubSeq(@, n + 1, Len(@))]
    /\ pc' = "parse" /\ cur' = f
    /\ UNCHANGED <<users, tunbuf, hb, sock, epoll, backlog, tcp, tunq, clients>>

ReadNothingIgnored(f) ==                                     \* mutant
    /\ Take(f)
    /\ \/ Room(f) = 0
       \/ rcvq[sock[f]] = <<>> /\ tcp[sock[f]] \in {"fin", "dead"}
    /\ UNCHANGED <<users, bufs, tunbuf, pc, cur, hb, kernel, clients>>

\* read() returns 0: the peer closed, or the buffer is full.
ReadNothing(f) ==
    /\ Take(f)
    /\ \/ Room(f) = 0
       \/ rcvq[sock[f]] = <<>> /\ tcp[sock[f]] \in {"fin", "dead"}
    /\ IF FreeOnEOF
       THEN FreeClientFd(users, f) /\ UNCHANGED <<pc, cur>>
       ELSE pc' = "parse" /\ cur' = f /\ UNCHANGED <<users, epoll, sock, tcp, rcvq>>
    /\ UNCHANGED <<bufs, tunbuf, hb, backlog, tunq, clients>>

ReadErrorNoReturn(f) ==                                      \* mutant
    /\ Take(f)
    /\ Room(f) > 0
    /\ rcvq[sock[f]] = <<>> /\ tcp[sock[f]] = "rst"
    /\ FreeClientFd(users, f)
    /\ pc' = "parse" /\ cur' = f
    /\ UNCHANGED <<bufs, tunbuf, hb, backlog, tunq, clients>>

\* read() returns -1: the connection was reset.
ReadError(f) ==
    /\ Take(f)
    /\ Room(f) > 0
    /\ rcvq[sock[f]] = <<>> /\ tcp[sock[f]] = "rst"
    /\ FreeClientFd(users, f)
    /\ UNCHANGED <<bufs, tunbuf, pc, cur, hb, backlog, tunq, clients>>

\* The loop over the messages of the buffer.
Message(m) == pc = "parse" /\ bufs[cur] # <<>> /\ Head(bufs[cur]) = m
Consumed == [bufs EXCEPT ![cur] = Tail(@)]
Return == pc' = "dispatch" /\ cur' = NoFd
Continue == UNCHANGED <<pc, cur>>

ParseDone ==
    /\ pc = "parse" /\ bufs[cur] = <<>>
    /\ Return
    /\ UNCHANGED <<users, bufs, tunbuf, pending, hb, kernel, clients>>

PoolFullConsumes ==                                          \* mutant
    /\ Message("IP_REQUEST")
    /\ FreeIds = {}
    /\ bufs' = Consumed
    /\ Continue
    /\ UNCHANGED <<users, tunbuf, pending, hb, kernel, clients>>

\* The pool is full: the request stays where it is, in front of what follows.
PoolFull ==
    /\ Message("IP_REQUEST")
    /\ FreeIds = {}
    /\ Return
    /\ UNCHANGED <<users, bufs, tunbuf, pending, hb, kernel, clients>>

\* The entry is taken before the reply is written, and stays taken when the
\* write fails; the request is consumed only when it succeeds.
IpRequest ==
    /\ Message("IP_REQUEST")
    /\ FreeIds # {}
    /\ LET c == sock[cur]
           i == Lowest(FreeIds)
       IN /\ users' = Allocated(i, cur)
          /\ \E o \in WriteOutcomes(tcp[c], 2) :
                /\ tcp' = [tcp EXCEPT ![c] = o[2]]
                /\ \/ /\ o[1] = "ok"
                      /\ told' = [told EXCEPT ![c] = i]
                      /\ bufs' = Consumed
                      /\ Continue
                   \/ o[1] = "err" /\ Return /\ UNCHANGED <<told, bufs>>
                   \/ o[1] = "sigpipe" /\ pc' = "dead" /\ UNCHANGED <<cur, told, bufs>>
    /\ UNCHANGED <<tunbuf, pending, hb, sock, epoll, backlog, rcvq, tunq, asked, got,
                   refused>>

InetRequest ==
    /\ Message("INET_REQUEST")
    /\ \/ bufs' = Consumed /\ Continue
       \/ TunWriteMayFail /\ Return /\ UNCHANGED bufs
    /\ UNCHANGED <<users, tunbuf, pending, hb, kernel, clients>>

Keepalive ==
    /\ Message("KEEPALIVE")
    /\ UserOfFd(cur) # {}
    /\ users' = [users EXCEPT ![Lowest(UserOfFd(cur))] = [@ EXCEPT !.recved = 0]]
    /\ bufs' = Consumed
    /\ Continue
    /\ UNCHANGED <<tunbuf, pending, hb, kernel, clients>>

\* No entry: users[-1] is written, outside the array.
KeepaliveNoUser ==
    /\ Message("KEEPALIVE")
    /\ UserOfFd(cur) = {}
    /\ \/ bufs' = Consumed /\ Continue
       \/ pc' = "dead" /\ UNCHANGED <<bufs, cur>>
    /\ UNCHANGED <<users, tunbuf, pending, hb, kernel, clients>>

UnknownType ==
    /\ Message("OTHER")
    /\ bufs' = Consumed
    /\ Continue
    /\ UNCHANGED <<users, tunbuf, pending, hb, kernel, clients>>

---------------------------------------------------------------------------
(* process_hartbeat                                                        *)

Todo == {i \in InUse : i >= hb}
LateTooSoon(i) == users[i].recved > HARTBEAT_INTERVAL        \* mutant
Late(i) == users[i].recved > HARTBEAT_TIMEOUT
SentStampsBoth(i) == [users EXCEPT ![i] = [@ EXCEPT !.sent = 0, !.recved = 0]] \* mutant
SentStamp(i) == [users EXCEPT ![i] = [@ EXCEPT !.sent = 0]]

\* One entry: a heartbeat when the last one is old, sent or not it counts as
\* sent; then the entry is freed when nothing was heard for too long.
HartbeatUser ==
    /\ pc = "hartbeat" /\ Todo # {}
    /\ LET i == Lowest(Todo)
           f == users[i].fd
           c == sock[f]
           due == users[i].sent > HARTBEAT_INTERVAL
           us == IF due THEN SentStamp(i) ELSE users
           late == Late(i)
       IN /\ hb' = i + 1
          /\ \E o \in IF due THEN WriteOutcomes(tcp[c], 1) ELSE {<<"ok", tcp[c]>>} :
                \/ /\ o[1] = "sigpipe"
                   /\ pc' = "dead"
                   /\ tcp' = [tcp EXCEPT ![c] = o[2]]
                   /\ UNCHANGED <<users, epoll, sock, rcvq>>
                \/ /\ o[1] # "sigpipe"
                   /\ late
                   /\ FreeClientFd(us, f)
                   /\ UNCHANGED pc
                \/ /\ o[1] # "sigpipe"
                   /\ ~late
                   /\ users' = us
                   /\ tcp' = [tcp EXCEPT ![c] = o[2]]
                   /\ UNCHANGED <<pc, epoll, sock, rcvq>>
    /\ UNCHANGED <<bufs, tunbuf, cur, pending, backlog, tunq, clients>>

HartbeatDone ==
    /\ pc = "hartbeat" /\ Todo = {}
    /\ pc' = "wait" /\ hb' = 0
    /\ UNCHANGED <<users, bufs, tunbuf, cur, pending, kernel, clients>>

---------------------------------------------------------------------------
Environment ==
    \/ \E c \in Conns : Connect(c)
    \/ \E c \in Conns, m \in MsgType : ClientSend(c, m)
    \/ \E c \in Conns, how \in {"fin", "rst"} : ClientClose(c, how)
    \/ \E a \in Addrs : TunArrive(a)
    \/ Tick

Server ==
    \/ EpollWait
    \/ BatchDone
    \/ \E f \in Fds : Accept(f)
    \/ AcceptFails
    \/ TunUnroutable
    \/ TunForward
    \/ \E f \in Fds : ReadData(f)
    \/ \E f \in Fds : ReadNothing(f)
    \/ \E f \in Fds : ReadError(f)
    \/ ParseDone
    \/ PoolFull
    \/ IpRequest
    \/ InetRequest
    \/ Keepalive
    \/ KeepaliveNoUser
    \/ UnknownType
    \/ HartbeatUser
    \/ HartbeatDone

Next == Environment \/ Server

Spec == Init /\ [][Next]_vars

\* The thread keeps running and the clock keeps ticking; clients owe nothing.
FairSpec == Spec /\ WF_vars(Server) /\ WF_vars(Tick)

---------------------------------------------------------------------------
User == [is_free : BOOLEAN, fd : Fds \cup {NoFd}, sent : Nat, recved : Nat,
         v4addr : Ids \cup {NoAddr}]

\* The types, and the buffer of a connection is never written past its end.
TypeOK ==
    /\ users \in [Ids -> User]
    /\ bufs \in [Fds -> Seq(MsgType)] /\ \A f \in Fds : Len(bufs[f]) <= BufCap
    /\ tunbuf \in Seq(Addrs)
    /\ pc \in PC
    /\ cur \in Fds \cup {NoFd}
    /\ pending \subseteq Fds \cup {ServerFd, TunFd}
    /\ hb \in 0 .. MAX_CLIENTS
    /\ sock \in [Fds -> Conns \cup {NoConn}]
    /\ epoll \subseteq Fds
    /\ backlog \in Seq(Conns)
    /\ tcp \in [Conns -> TcpState]
    /\ rcvq \in [Conns -> Seq(MsgType)]
    /\ tunq \in Seq(Addrs)
    /\ asked \subseteq Conns
    /\ told \in [Conns -> Addrs \cup {NoAddr}]
    /\ got \in [Conns -> SUBSET Addrs]
    /\ refused \subseteq Conns

---------------------------------------------------------------------------
(* Safety.  A server that has been killed promises nothing.                *)

Up == pc # "dead"

\* The table of users and the kernel agree (allocate_ip_addr, free_client_fd,
\* deallocate_ip_addr): an entry in use names an open and watched descriptor
\* and its own address, and no two entries name the same descriptor.
TableMatchesSockets ==
    Up => \A i \in InUse :
        /\ users[i].fd \in epoll
        /\ sock[users[i].fd] # NoConn
        /\ users[i].v4addr = i
        /\ \A j \in InUse : users[j].fd = users[i].fd => j = i

\* The address an IP_RESPONSE announced belongs to that connection for as long
\* as its descriptor is open, whatever other connections come, go or time out.
AddressHeld ==
    Up => \A f \in Fds :
        sock[f] # NoConn /\ told[sock[f]] # NoAddr =>
            /\ told[sock[f]] \in InUse
            /\ users[told[sock[f]]].fd = f

\* read() on a blocking socket is called only where it returns at once: every
\* event of the batch that is still to be handled is about a descriptor that is
\* open, watched and ready, and the descriptor in process_client is open.
ReadNeverBlocks ==
    Up => /\ \A f \in pending \cap Fds :
                /\ f \in epoll
                /\ sock[f] # NoConn
                /\ Readable(sock[f])
          /\ pc = "parse" => cur \in epoll /\ sock[cur] # NoConn

\* The keepalive branch of process_client finds the entry of its connection,
\* so users[-1] is never written: a request that meets a full pool stays in
\* front of the keepalives that follow it.
KeepaliveFindsUser ==
    Message("KEEPALIVE") => UserOfFd(cur) # {}

\* Nobody is sent an IP_RESPONSE on the strength of what an earlier connection
\* left in the buffer of the descriptor (the reset in process_server).
NobodyToldUnasked ==
    \A c \in Conns : told[c] # NoAddr => c \in asked

\* A connection is sent packets for its own address, and packets for another only
\* where an earlier holder of its address refused a frame: process_tun keeps what
\* it could not write, glues the next packets to it and looks at the first alone.
FramesToHolder ==
    \A c \in Conns : got[c] # {} =>
        /\ told[c] \in got[c]
        /\ \/ got[c] = {told[c]}
           \/ \E d \in refused \ {c} : told[d] = told[c]

\* process_client leaves nothing in the buffer of a connection that has its
\* address: no keepalive waits there for the next message while time passes.
NothingLeftBehind ==
    Up => \A f \in Fds :
        /\ sock[f] # NoConn /\ told[sock[f]] # NoAddr
        /\ ~(pc = "parse" /\ cur = f)
        => bufs[f] = <<>>

\* An address is taken from a connection only when its peer closed it or was
\* not heard for longer than the timeout (process_hartbeat, free_client_fd).
LivePeerKept ==
    [][ \A i \in InUse :
          users'[i].is_free => \/ users[i].recved > HARTBEAT_TIMEOUT
                               \/ tcp[sock[users[i].fd]] # "est" ]_vars

\* The table implements the pool of AddressPool.
Lease == [a \in Addrs |-> IF a \in InUse /\ Up THEN sock[users[a].fd] ELSE NoConn]
Pool == INSTANCE AddressPool WITH
            lease <- Lease,
            closed <- {c \in Conns : tcp[c] = "closed"},
            up <- Up
PoolSpec == Pool!Spec

---------------------------------------------------------------------------
(* Liveness, unless the server is killed.                                  *)

\* Where the end of file counts (size <= 0), a connection whose peer is gone
\* is closed by the server.
ClosedPeerReleased ==
    \A f \in Fds, c \in Conns :
        (f \in epoll /\ sock[f] = c /\ tcp[c] \in {"fin", "rst", "dead"})
            ~> (sock[f] # c \/ ~Up)

\* Where it does not, the address of such a connection is free again after the
\* timeout all the same.
ClosedPeerTimesOut ==
    \A i \in Addrs, c \in Conns :
        (Lease[i] = c /\ tcp[c] # "est") ~> (Lease[i] # c)

\* Every event of a batch is handled ("handle each event").
EachEventHandled ==
    \A e \in Fds \cup {ServerFd, TunFd} : e \in pending ~> (e \notin pending \/ ~Up)

\* A client that met a full pool has its address once the pool is no longer full,
\* if all clients keep sending their keepalives (handle_heartbeat of the native
\* client sends one every interval).
WaitingClientServed ==
    (\A c \in Conns : WF_vars(ClientSend(c, "KEEPALIVE"))) =>
        \A c \in Conns :
            <>[](FreeIds # {}) =>
                (c \in asked ~> (told[c] # NoAddr \/ tcp[c] # "est" \/ ~Up))

=============================================================================
