--------------------------- MODULE ThreadedServer ---------------------------
(***************************************************************************)
(* The threaded server: for each connection a thread that reads, one that  *)
(* writes and one that counts seconds, and one thread that reads the tun.  *)
(* They share the table of addresses (under ipMutex), the numbers of the   *)
(* descriptors, and the sockets behind them.                               *)
(***************************************************************************)
EXTENDS Naturals, Sequences, FiniteSets, FiniteSetsExt

CONSTANTS
    Clients,        \* each connects once, to the ClientConnection of its name
    None,
    NumAddrs,       \* addresses are 1 .. NumAddrs
    NumFds,         \* descriptors are 1 .. NumFds
    Limit, Every,   \* seconds of silence (60), seconds between heartbeats (20)
    Kinds,          \* what a client sends beside its request
    Traffic,        \* bound: how many of them each client sends
    Packets,        \* bound: packets that come out of the tun
    Serial,         \* the handling of one request ends before the next begins
    Leaves          \* clients may close, or keep silent for Limit seconds

ASSUME ThreadedAssumption ==
    /\ None \notin Clients \cup {"address", "frame"}
    /\ {NumAddrs, NumFds, Limit, Every} \subseteq Nat \ {0}
    /\ Kinds \subseteq {"keepalive", "data"}
    /\ {Traffic, Packets} \subseteq Nat
    /\ {Serial, Leaves} \subseteq BOOLEAN

Addrs == 1 .. NumAddrs
Fds == 1 .. NumFds

VARIABLES
    process,        \* "up", or why the process has ended
    status,         \* status[a]: the address is taken
    connections,    \* connections[a]: the object that was last given a
    ipMutex,        \* None, or the reader that has locked it twice
    fd,             \* fd[c]: socketFd of the connection
    file,           \* file[f]: the client whose socket has the number f
    ipv4,           \* ipv4[c]: ipv4Address
    hb,             \* hb[c]: heartBeatCount
    sender,         \* sender[c]: the thread that holds sendMutex
    wtSktQue,       \* wtSktQue[c]: the frames to write, by their destination
    reader,         \* reader[c]: where the read thread is
    source,         \* source[c]: the socket it has called read() on
    message,        \* message[c]: the type of its message, which survives errors
    writer, keeper, \* where the two other threads are
    found,          \* what the tun reader holds: nothing, or address and object
    packets,        \* packets it has read
    inbox,          \* inbox[k]: what client k has sent and nobody has read
    peer,           \* peer[k]: what client k has done
    count,          \* count[k]: messages it has sent
    wire,           \* wire[k]: how far the frame being sent to k is
    first           \* first[k]: what k got first, its address or a frame

objects == <<status, connections, ipMutex>>
readers == <<reader, source, message, ipv4>>
writers == <<writer, wtSktQue>>
tun     == <<found, packets>>
clients == <<inbox, peer, count>>
out     == <<wire, first>>
vars == <<process, objects, readers, writers, keeper, hb, sender, fd, file, tun,
          clients, out>>

Init ==
    /\ process = "up"
    /\ status = [a \in Addrs |-> FALSE]
    /\ connections = [a \in Addrs |-> None]
    /\ ipMutex = None
    /\ fd = [c \in Clients |-> 1]
    /\ file = [f \in Fds |-> None]
    /\ ipv4 = [c \in Clients |-> 0]
    /\ hb = [c \in Clients |-> 0]
    /\ sender = [c \in Clients |-> None]
    /\ wtSktQue = [c \in Clients |-> <<>>]
    /\ reader = [c \in Clients |-> "none"]
    /\ source = [c \in Clients |-> None]
    /\ message = [c \in Clients |-> "unset"]
    /\ writer = [c \in Clients |-> "none"]
    /\ keeper = [c \in Clients |-> "none"]
    /\ found = <<>> /\ packets = 0
    /\ inbox = [k \in Clients |-> <<>>]
    /\ peer = [k \in Clients |-> "away"]
    /\ count = [k \in Clients |-> 0]
    /\ wire = [k \in Clients |-> <<>>]
    /\ first = [k \in Clients |-> "nothing"]

Up == process = "up"
Ends(why) == process' = why
Reader(c, there) == reader' = [reader EXCEPT ![c] = there]

---------------------------------------------------------------------------
(* The clients.                                                            *)

\* accept() takes the lowest free number; run() starts the three threads.
Accept(c) ==
    LET free == {f \in Fds : file[f] = None} IN
    /\ Up /\ peer[c] = "away" /\ free # {}
    /\ peer' = [peer EXCEPT ![c] = "connected"]
    /\ fd' = [fd EXCEPT ![c] = Min(free)]
    /\ file' = [file EXCEPT ![Min(free)] = c]
    /\ Reader(c, "loop")
    /\ writer' = [writer EXCEPT ![c] = "pop"]
    /\ keeper' = [keeper EXCEPT ![c] = "loop"]
    /\ UNCHANGED <<process, objects, source, message, ipv4, wtSktQue, hb, sender,
                   tun, inbox, count, out>>

\* A client asks once, and sends the rest after it has asked.
Ask(k) ==
    /\ Up /\ peer[k] = "connected"
    /\ peer' = [peer EXCEPT ![k] = "asked"]
    /\ inbox' = [inbox EXCEPT ![k] = Append(@, "request")]
    /\ UNCHANGED <<process, objects, readers, writers, keeper, hb, sender, fd, file,
                   tun, count, out>>

\* The header and the body of a data message are read one after the other.
Talk(k) ==
    /\ Up /\ peer[k] = "asked" /\ count[k] < Traffic
    /\ \E m \in Kinds :
         inbox' = [inbox EXCEPT ![k] =
                     @ \o IF m = "data" THEN <<m, "body">> ELSE <<m>>]
    /\ count' = [count EXCEPT ![k] = @ + 1]
    /\ UNCHANGED <<process, objects, readers, writers, keeper, hb, sender, fd, file,
                   tun, peer, out>>

Leave(k) ==
    /\ Up /\ Leaves
    /\ peer[k] \in {"connected", "asked"}
    /\ peer' = [peer EXCEPT ![k] = "gone"]
    /\ UNCHANGED <<process, objects, readers, writers, keeper, hb, sender, fd, file,
                   tun, inbox, count, out>>

---------------------------------------------------------------------------
(* write() of thread t of connection c: it goes to the socket that has the *)
(* number now.  A client that has left answers with a reset, after which a *)
(* write raises SIGPIPE: any write to it may be the one.                   *)

Broken == <<"broken">>

\* What the client has received after one more part of a frame.
Received(part, t, got) ==
    CASE part = "header" /\ got = <<>> -> t
      [] part = "body"   /\ got = t    -> <<>>
      [] part = "whole"  /\ got = <<>> -> <<>>
      [] OTHER                         -> Broken

Write(c, t, part, ok) ==
    LET k == file[fd[c]] IN
    IF k = None
    THEN ok = FALSE /\ UNCHANGED <<process, out>>
    ELSE /\ ok = TRUE
         /\ wire' = [wire EXCEPT ![k] = Received(part, <<c, t>>, @)]
         /\ first' = IF first[k] = "nothing" /\ part = "header"
                     THEN [first EXCEPT ![k] = t] ELSE first
         /\ process' \in {process} \cup IF peer[k] = "gone" THEN {"killed"} ELSE {}

SendHeaderUnlocked(c, t, ok) ==                              \* mutant
    Write(c, t, "header", ok) /\ UNCHANGED sender

\* sendMessage for a message with a body: the mutex is held from the header to
\* the body, or until a write fails.
SendHeader(c, t, ok) ==
    /\ sender[c] = None
    /\ Write(c, t, "header", ok)
    /\ sender' = IF ok THEN [sender EXCEPT ![c] = t] ELSE sender

SendBody(c, t, ok) ==
    /\ Write(c, t, "body", ok)
    /\ sender' = [sender EXCEPT ![c] = None]

---------------------------------------------------------------------------
(* The read thread.                                                        *)

\* read() looks the number up when it is called and keeps the socket it found; if
\* nothing has the number the loop of reads ends.
CallRead(c, reading, closed) ==
    LET k == file[fd[c]] IN
    /\ Reader(c, IF k = None THEN closed ELSE reading)
    /\ source' = [source EXCEPT ![c] = k]

\* After the loop over the header what is handled is the previous message.
CallReadHeader(c) == CallRead(c, "read", "handle")
CallReadBody(c) == CallRead(c, "data", "end")

ReadLoop(c) ==
    /\ Up /\ reader[c] = "loop"
    /\ IF hb[c] < Limit THEN CallReadHeader(c) ELSE Reader(c, "end") /\ UNCHANGED source
    /\ UNCHANGED <<process, objects, message, ipv4, writers, keeper, hb, sender, fd,
                   file, tun, clients, out>>

\* The read returns although the number may be closed by now.
ReadHeader(c) ==
    LET k == source[c] IN
    /\ Up /\ reader[c] = "read" /\ inbox[k] # <<>>
    /\ message' = [message EXCEPT ![c] = Head(inbox[k])]
    /\ inbox' = [inbox EXCEPT ![k] = Tail(@)]
    /\ Reader(c, "handle")
    /\ UNCHANGED <<process, objects, source, ipv4, writers, keeper, hb, sender, fd,
                   file, tun, peer, count, out>>

ReadEndAsError(c) ==                                         \* mutant
    /\ Up /\ reader[c] = "read" /\ inbox[source[c]] = <<>> /\ peer[source[c]] = "gone"
    /\ Reader(c, "handle")
    /\ UNCHANGED <<process, objects, source, message, ipv4, writers, keeper, hb,
                   sender, fd, file, tun, clients, out>>

\* At the end of the stream read() returns 0 and is called again.
ReadEnd(c) ==
    /\ Up /\ reader[c] = "read" /\ inbox[source[c]] = <<>> /\ peer[source[c]] = "gone"
    /\ CallReadHeader(c)
    /\ UNCHANGED <<process, objects, message, ipv4, writers, keeper, hb, sender, fd,
                   file, tun, clients, out>>

\* A type nothing was read into, or that was read out of a body, is any type.
Type(c) ==
    IF message[c] \in {"unset", "body"} THEN {"request", "keepalive", "data", "other"}
    ELSE {message[c]}

HandleKeepalive(c) ==
    /\ Up /\ reader[c] = "handle" /\ "keepalive" \in Type(c)
    /\ hb' = [hb EXCEPT ![c] = 0]
    /\ Reader(c, "loop")
    /\ UNCHANGED <<process, objects, source, message, ipv4, writers, keeper, sender,
                   fd, file, tun, clients, out>>

HandleOther(c) ==
    /\ Up /\ reader[c] = "handle" /\ Type(c) \cap {"reply", "other"} # {}
    /\ Reader(c, "loop")
    /\ UNCHANGED <<process, objects, source, message, ipv4, writers, keeper, hb,
                   sender, fd, file, tun, clients, out>>

\* The body is read like the header, but an error ends the thread.
HandleData(c) ==
    /\ Up /\ reader[c] = "handle" /\ "data" \in Type(c)
    /\ CallReadBody(c)
    /\ UNCHANGED <<process, objects, message, ipv4, writers, keeper, hb, sender, fd,
                   file, tun, clients, out>>

\* What was read goes to the tun.
ReadBody(c) ==
    LET k == source[c] IN
    /\ Up /\ reader[c] = "data" /\ inbox[k] # <<>>
    /\ inbox' = [inbox EXCEPT ![k] = Tail(@)]
    /\ Reader(c, "loop")
    /\ UNCHANGED <<process, objects, source, message, ipv4, writers, keeper, hb,
                   sender, fd, file, tun, peer, count, out>>

ReadBodyEnd(c) ==
    /\ Up /\ reader[c] = "data" /\ inbox[source[c]] = <<>> /\ peer[source[c]] = "gone"
    /\ CallReadBody(c)
    /\ UNCHANGED <<process, objects, message, ipv4, writers, keeper, hb, sender, fd,
                   file, tun, clients, out>>

GetConnectionByIp(a) == IF status[a] THEN connections[a] ELSE None

\* A reader that handles a request: from getFreeIP to the table, or, if the reply
\* failed, to the end, where it gives the address it never marked back.
Assigning(c) ==
    \/ reader[c] \in {"answer", "body", "mark", "set"}
    \/ reader[c] = "end" /\ ipv4[c] # 0 /\ ~status[ipv4[c]]

GetFreeIPMarked(c) ==                                        \* mutant
    LET free == {a \in Addrs : ~status[a]} IN
    /\ free # {}
    /\ ipv4' = [ipv4 EXCEPT ![c] = Min(free)]
    /\ status' = [status EXCEPT ![Min(free)] = TRUE]
    /\ connections' = [connections EXCEPT ![Min(free)] = c]
    /\ Reader(c, "answer")
    /\ UNCHANGED <<process, ipMutex>>

\* getFreeIP: the first address without status, which it leaves as it is.
GetFreeIP(c) ==
    LET free == {a \in Addrs : ~status[a]} IN
    /\ UNCHANGED objects
    /\ IF free = {}
       THEN Ends("full") /\ UNCHANGED <<reader, ipv4>>
       ELSE /\ ipv4' = [ipv4 EXCEPT ![c] = Min(free)]
            /\ Reader(c, "answer")
            /\ UNCHANGED process

HandleRequest(c) ==
    /\ Up /\ reader[c] = "handle" /\ "request" \in Type(c)
    /\ ipMutex = None
    /\ Serial => \A d \in Clients \ {c} : ~Assigning(d)
    /\ IF ipv4[c] = 0
       THEN GetFreeIP(c)
       ELSE /\ IF GetConnectionByIp(ipv4[c]) # None
               THEN Ends("assert") /\ UNCHANGED reader
               ELSE Reader(c, "answer") /\ UNCHANGED process
            /\ UNCHANGED <<objects, ipv4>>
    /\ UNCHANGED <<source, message, writers, keeper, hb, sender, fd, file, tun,
                   clients, out>>

\* The reply is built in place of the request.
Answer(c) ==
    /\ Up /\ reader[c] = "answer"
    /\ message' = [message EXCEPT ![c] = "reply"]
    /\ \E ok \in BOOLEAN :
         SendHeader(c, "address", ok) /\ Reader(c, IF ok THEN "body" ELSE "end")
    /\ UNCHANGED <<objects, source, ipv4, writers, keeper, hb, fd, file, tun, clients>>

AnswerBody(c) ==
    /\ Up /\ reader[c] = "body"
    /\ \E ok \in BOOLEAN :
         SendBody(c, "address", ok) /\ Reader(c, IF ok THEN "mark" ELSE "end")
    /\ UNCHANGED <<objects, source, message, ipv4, writers, keeper, hb, fd, file, tun,
                   clients>>

\* setIpStatus(ipv4Address, s), with its assertion.
SetIpStatus(c, s, there) ==
    LET a == ipv4[c] IN
    /\ ipMutex = None
    /\ IF status[a] = s
       THEN Ends("assert") /\ UNCHANGED <<status, reader>>
       ELSE /\ status' = [status EXCEPT ![a] = s]
            /\ Reader(c, there)
            /\ UNCHANGED process

MarkNothing(c) ==                                            \* mutant
    /\ Up /\ reader[c] = "mark"
    /\ Reader(c, "set")
    /\ UNCHANGED <<process, objects, source, message, ipv4, writers, keeper, hb,
                   sender, fd, file, tun, clients, out>>

Mark(c) ==
    /\ Up /\ reader[c] = "mark"
    /\ SetIpStatus(c, TRUE, "set")
    /\ UNCHANGED <<connections, ipMutex, source, message, ipv4, writers, keeper, hb,
                   sender, fd, file, tun, clients, out>>

Inserted(c) ==                                               \* mutant
    [connections EXCEPT ![ipv4[c]] = IF @ = None THEN c ELSE @]

Assigned(c) == [connections EXCEPT ![ipv4[c]] = c]

\* setConnectionWithIp: if the status were not set it would lock ipMutex again.
SetConnection(c) ==
    /\ Up /\ reader[c] = "set"
    /\ ipMutex = None
    /\ IF status[ipv4[c]]
       THEN connections' = Assigned(c) /\ Reader(c, "loop") /\ UNCHANGED ipMutex
       ELSE ipMutex' = c /\ Reader(c, "stuck") /\ UNCHANGED connections
    /\ UNCHANGED <<process, status, source, message, ipv4, writers, keeper, hb, sender,
                   fd, file, tun, clients, out>>

EndClosing(c) ==                                             \* mutant
    /\ Up /\ reader[c] = "end" /\ ipv4[c] # 0
    /\ SetIpStatus(c, FALSE, "ended")
    /\ file' = [file EXCEPT ![fd[c]] = None]
    /\ UNCHANGED <<connections, ipMutex, source, message, ipv4, writers, keeper, hb,
                   sender, fd, tun, clients, out>>

\* endReading: the address is given back; there may be none, and std::stoi throws.
EndReading(c) ==
    /\ Up /\ reader[c] = "end"
    /\ IF ipv4[c] = 0
       THEN Ends("terminated") /\ UNCHANGED <<status, reader>>
       ELSE SetIpStatus(c, FALSE, "ended")
    /\ UNCHANGED <<connections, ipMutex, source, message, ipv4, writers, keeper, hb,
                   sender, fd, file, tun, clients, out>>

---------------------------------------------------------------------------
(* The write thread, the tun reader and the keepalive thread.              *)

WriteFrame(c) ==
    /\ Up /\ writer[c] = "pop" /\ wtSktQue[c] # <<>>
    /\ wtSktQue' = [wtSktQue EXCEPT ![c] = Tail(@)]
    /\ \E ok \in BOOLEAN :
         /\ SendHeader(c, "frame", ok)
         /\ writer' = [writer EXCEPT ![c] = IF ok THEN "body" ELSE "ended"]
    /\ UNCHANGED <<objects, readers, keeper, hb, fd, file, tun, clients>>

WriteFrameBody(c) ==
    /\ Up /\ writer[c] = "body"
    /\ \E ok \in BOOLEAN :
         /\ SendBody(c, "frame", ok)
         /\ writer' = [writer EXCEPT ![c] = IF ok THEN "pop" ELSE "ended"]
    /\ UNCHANGED <<objects, readers, wtSktQue, keeper, hb, fd, file, tun, clients>>

TunRead ==
    /\ Up /\ found = <<>> /\ packets < Packets /\ ipMutex = None
    /\ \E a \in Addrs :
         found' = IF GetConnectionByIp(a) = None THEN <<>> ELSE <<a, connections[a]>>
    /\ packets' = packets + 1
    /\ UNCHANGED <<process, objects, readers, writers, keeper, hb, sender, fd, file,
                   clients, out>>

TunPush ==
    /\ Up /\ found # <<>>
    /\ wtSktQue' = [wtSktQue EXCEPT ![found[2]] = Append(@, found[1])]
    /\ found' = <<>>
    /\ UNCHANGED <<process, objects, readers, writer, keeper, hb, sender, fd, file,
                   packets, clients, out>>

KeepTickLate(c) ==                                           \* mutant
    /\ Up /\ keeper[c] = "loop" /\ hb[c] <= Limit /\ Leaves
    /\ hb' = [hb EXCEPT ![c] = @ + 1]
    /\ keeper' = [keeper EXCEPT ![c] = "test"]
    /\ UNCHANGED <<process, objects, readers, writers, sender, fd, file, tun, clients,
                   out>>

\* One second.
KeepTick(c) ==
    LET n == hb[c] + 1 IN
    /\ Up /\ keeper[c] = "loop" /\ hb[c] < Limit
    /\ Leaves \/ n < Limit
    /\ hb' = [hb EXCEPT ![c] = n]
    /\ keeper' = [keeper EXCEPT ![c] = "test"]
    /\ UNCHANGED <<process, objects, readers, writers, sender, fd, file, tun, clients,
                   out>>

\* The count is read again: a keepalive may have reset it since.
KeepTest(c) ==
    /\ Up /\ keeper[c] = "test"
    /\ keeper' = [keeper EXCEPT ![c] = IF hb[c] % Every = 0 THEN "send" ELSE "loop"]
    /\ UNCHANGED <<process, objects, readers, writers, hb, sender, fd, file, tun,
                   clients, out>>

\* A heartbeat has no body.
KeepSend(c) ==
    /\ Up /\ keeper[c] = "send" /\ sender[c] = None
    /\ \E ok \in BOOLEAN :
         /\ Write(c, "heartbeat", "whole", ok)
         /\ keeper' = [keeper EXCEPT ![c] = IF ok THEN "loop" ELSE "close"]
    /\ UNCHANGED <<objects, readers, writers, hb, sender, fd, file, tun, clients>>

FreedOnClose(c) ==                                           \* mutant
    /\ Up /\ (keeper[c] = "close" \/ (keeper[c] = "loop" /\ hb[c] >= Limit))
    /\ file' = [file EXCEPT ![fd[c]] = None]
    /\ status' = [a \in Addrs |-> status[a] /\ a # ipv4[c]]
    /\ keeper' = [keeper EXCEPT ![c] = "ended"]
    /\ UNCHANGED <<process, connections, ipMutex, readers, writers, hb, sender, fd,
                   tun, clients, out>>

KeepClose(c) ==
    /\ Up /\ (keeper[c] = "close" \/ (keeper[c] = "loop" /\ hb[c] >= Limit))
    /\ file' = [file EXCEPT ![fd[c]] = None]
    /\ keeper' = [keeper EXCEPT ![c] = "ended"]
    /\ UNCHANGED <<process, objects, readers, writers, hb, sender, fd, tun, clients,
                   out>>

---------------------------------------------------------------------------
ReaderStep(c) ==
    \/ ReadLoop(c) \/ ReadHeader(c) \/ ReadEnd(c)
    \/ HandleRequest(c) \/ HandleKeepalive(c) \/ HandleData(c) \/ HandleOther(c)
    \/ ReadBody(c) \/ ReadBodyEnd(c)
    \/ Answer(c) \/ AnswerBody(c) \/ Mark(c) \/ SetConnection(c) \/ EndReading(c)

WriterStep(c) == WriteFrame(c) \/ WriteFrameBody(c)
KeeperStep(c) == KeepTick(c) \/ KeepTest(c) \/ KeepSend(c) \/ KeepClose(c)
TunStep == TunRead \/ TunPush

Next ==
    \/ \E c \in Clients : \/ Accept(c) \/ Ask(c) \/ Talk(c) \/ Leave(c)
                          \/ ReaderStep(c) \/ WriterStep(c) \/ KeeperStep(c)
    \/ TunStep

Spec == Init /\ [][Next]_vars

FairSpec ==
    /\ Spec
    /\ \A c \in Clients : /\ WF_vars(ReaderStep(c)) /\ WF_vars(WriterStep(c))
                          /\ WF_vars(KeeperStep(c))

---------------------------------------------------------------------------
(* Properties                                                              *)

\* The types; a frame waits only where a thread was started.
TypeOK ==
    /\ process \in {"up", "assert", "terminated", "killed", "full"}
    /\ status \in [Addrs -> BOOLEAN]
    /\ connections \in [Addrs -> Clients \cup {None}]
    /\ ipMutex \in Clients \cup {None}
    /\ fd \in [Clients -> Fds]
    /\ file \in [Fds -> Clients \cup {None}]
    /\ ipv4 \in [Clients -> Addrs \cup {0}]
    /\ hb \in [Clients -> 0 .. Limit]
    /\ sender \in [Clients -> {None, "address", "frame"}]
    /\ \A c \in Clients : writer[c] = "none" => wtSktQue[c] = <<>>

\* assert(status[num] != s): nobody marks an address that is taken, or gives back
\* one that is free.  assert(... getConnectionByIp(ipv4Address) == NULL): nobody
\* who has an address asks again.
NoAssertFails == process # "assert"

\* If requests are handled one at a time, only a reader whose number was closed gets
\* there: its reply fails, and endReading gives back what was never marked.
NobodyClosed == \A c \in Clients : keeper[c] # "ended"
AssertsOnlyAfterClose == process = "assert" => ~NobodyClosed

\* Another connection had the number before, it was closed, and the threads of that
\* connection may still write to the number.
Inherited(k) == \E c \in Clients \ {k} : keeper[c] = "ended" /\ fd[c] = fd[k]

\* Frames are not mixed on the wire, though three threads of a connection send and
\* its number may be closed at any moment: only to a client whose number was
\* another's before does anything go wrong.
FramesWhole == \A k \in Clients : wire[k] = Broken => Inherited(k)

\* A client is told its address before the first packet to it arrives, although the
\* two are written by different threads; with the same exception.
AddressFirst == \A k \in Clients : first[k] = "frame" => Inherited(k)

\* A connection whose reader is back in its loop is the one the tun reader finds
\* under its address, also if the address had another holder before.
Served(c) == ipv4[c] # 0 /\ reader[c] \in {"loop", "read", "handle", "data"}

HolderIsFound == \A c \in Clients : Served(c) => GetConnectionByIp(ipv4[c]) = c

\* Two connections have the same address only if the reader of one has ended.
AddressUnique ==
    \A c, d \in Clients : c # d /\ ipv4[c] = ipv4[d] /\ ipv4[c] # 0 =>
        reader[c] = "ended" \/ reader[d] = "ended"

\* The number the keepalive thread will close is still its own connection's:
\* nobody else closes it, so accept() cannot have given it away.
NumberStaysOurs ==
    \A c \in Clients : keeper[c] \in {"loop", "test", "send", "close"} => file[fd[c]] = c

\* Together the threads implement the pool of AddressPool, where an address is
\* taken when getFreeIP returns it, and given back when the reader has ended.
\* An address that two readers have has no holder the pool would know of.
Holders(a) == {c \in Clients : ipv4[c] = a /\ reader[c] # "ended"}
Lease ==
    [a \in Addrs |-> IF Up /\ \E c \in Clients : Holders(a) = {c}
                     THEN CHOOSE c \in Clients : Holders(a) = {c} ELSE None]
Pool == INSTANCE AddressPool
    WITH Conns <- Clients, NoConn <- None, lease <- Lease,
         closed <- {c \in Clients : reader[c] = "ended"}, up <- Up
PoolSpec == Pool!Spec

\* Nobody locks ipMutex twice: the status of an address is still set when its
\* connection is entered.
NoSelfDeadlock == ipMutex = None

\* A client that left is disconnected: the end of its stream does not count as a
\* sign of life.
GonePeerClosed ==
    \A c \in Clients :
        peer[c] = "gone" ~> (keeper[c] = "ended" \/ ~Up)

=============================================================================
