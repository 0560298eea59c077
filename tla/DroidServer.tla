---------------------------- MODULE DroidServer ----------------------------
(***************************************************************************)
(* The server for a single client (server/cy/DroidOver6Server.c): one      *)
(* thread, nonblocking descriptors, one buffer in each direction.          *)
(*                                                                         *)
(* Towards the tun, messages are put together from what read() returns and *)
(* handled when they are complete.  Towards the client, everything read    *)
(* from the tun becomes the payload of one frame, whose rest is written    *)
(* later when the socket takes only a part of it.                          *)
(*                                                                         *)
(* Bytes are counted in units: a message of the client arrives in two      *)
(* halves, a packet of the tun is one unit, and so is each header, reply   *)
(* or heartbeat.                                                           *)
(***************************************************************************)
EXTENDS Integers, Sequences

CONSTANTS
    Messages,           \* kinds of message the client sends
    None,               \* no message
    InCap, OutCap,      \* PIPE_BUF_LEN - READ_SIZE for over6PacketBuffer and ipBuffer
    SndCap,             \* size of the socket's send buffer
    LowWater,           \* free space at which epoll reports EPOLLOUT
    HEARTBEAT,          \* seconds between two heartbeats
    MaxMessages,        \* bound: messages the client sends
    MaxPackets          \* bound: packets that come out of the tun

ASSUME ConstAssumption ==
    /\ Messages \subseteq {"IP_REQUEST", "REQUEST", "HEART", "OTHER"}
    /\ None \notin Messages
    /\ InCap \in Nat \ {0} /\ OutCap \in Nat \ {0} /\ HEARTBEAT \in Nat
    /\ MaxMessages \in Nat /\ MaxPackets \in Nat

\* epoll reports a socket writable only when a good part of its buffer is free:
\* enough for a header and the beginning of a packet.
ASSUME LowWaterAssumption == SndCap \in Nat /\ LowWater \in 2 .. SndCap

VARIABLES
    \* the program
    pc,         \* where main() is: "wait", "batch", or how it ended
    batch,      \* what is left of the events of this turn, in their order
    inbuf,      \* over6PacketBuffer: halves of messages
    outbuf,     \* ipBuffer: packets
    remain,     \* ipBufferRemain: what the frame on the wire still owes
    age,        \* seconds since last_heartbeat
    \* the kernel and the client
    tcp,        \* "est", "fin" or "rst"
    rcvq,       \* halves of messages in the receive buffer
    half,       \* the message the client has sent one half of
    tunq,       \* packets in the tun device
    wire,       \* units in the send buffer
    need,       \* what the client has yet to read of the frame it is in
    \* history
    sent,       \* messages sent by the client
    handled,    \* messages handled by over6Handle
    arrived,    \* number of packets that came to the tun
    received    \* packets read by the client

program == <<pc, batch, inbuf, outbuf, remain, age>>
environment == <<tcp, rcvq, half, tunq, need, sent, arrived, received>>
vars == <<program, environment, wire, handled>>

Init ==
    /\ pc = "wait" /\ batch = <<>>
    /\ inbuf = <<>> /\ outbuf = <<>> /\ remain = 0 /\ age = 0
    /\ tcp = "est" /\ rcvq = <<>> /\ half = None /\ tunq = <<>>
    /\ wire = <<>> /\ need = 0
    /\ sent = <<>> /\ handled = <<>> /\ arrived = 0 /\ received = <<>>

Least(a, b) == IF a < b THEN a ELSE b
Space == SndCap - Len(wire)

---------------------------------------------------------------------------
(* The client, the tun and the clock.                                      *)

\* The client asks for its address first, and once.
ClientSend(m) ==
    /\ tcp = "est"
    /\ half \in {None, m}
    /\ m = "IP_REQUEST" <=> sent = <<>>
    /\ half = None => Len(sent) < MaxMessages
    /\ half' = IF half = None THEN m ELSE None
    /\ sent' = IF half = None THEN sent ELSE Append(sent, m)
    /\ rcvq' = Append(rcvq, <<m, IF half = None THEN 1 ELSE 2>>)
    /\ UNCHANGED <<program, tcp, tunq, need, arrived, received, wire, handled>>

ClientRead ==
    /\ tcp = "est" /\ wire # <<>>
    /\ wire' = Tail(wire)
    /\ need' = CASE wire[1][1] = "frame" -> wire[1][2]
                 [] wire[1][1] = "data" -> need - 1
                 [] OTHER -> need
    /\ received' = IF wire[1][1] = "data" THEN Append(received, wire[1][2]) ELSE received
    /\ UNCHANGED <<program, tcp, rcvq, half, tunq, sent, arrived, handled>>

ClientLeaves(how) ==
    /\ tcp \notin {how, "rst"}
    /\ tcp' = how
    /\ UNCHANGED <<program, rcvq, half, tunq, need, sent, arrived, received, wire, handled>>

\* Packets are numbered in the order they come; none comes for an address
\* nobody was told.
TunArrive ==
    /\ arrived < MaxPackets /\ handled # <<>>
    /\ arrived' = arrived + 1
    /\ tunq' = Append(tunq, arrived + 1)
    /\ UNCHANGED <<program, tcp, rcvq, half, need, sent, received, wire, handled>>

Tick ==
    /\ age <= HEARTBEAT
    /\ age' = age + 1
    /\ UNCHANGED <<pc, batch, inbuf, outbuf, remain, environment, wire, handled>>

---------------------------------------------------------------------------
(* The event loop of main().                                               *)

ReadyBetweenFrames(part) ==                                  \* mutant
    CASE part = "over6Err" -> tcp = "rst"
      [] part = "over6In"  -> tcp = "fin" \/ rcvq # <<>>
      [] part = "over6Out" -> outbuf # <<>> /\ Space >= LowWater /\ remain = 0
      [] part = "tunIn"    -> tunq # <<>>
      [] part = "tunOut"   -> inbuf # <<>>

\* An event is its parts in the order main() looks at them; EPOLLOUT is asked
\* for while there is something in the buffer that would be written.
Ready(part) ==
    CASE part = "over6Err" -> tcp = "rst"
      [] part = "over6In"  -> tcp = "fin" \/ rcvq # <<>>
      [] part = "over6Out" -> outbuf # <<>> /\ Space >= LowWater
      [] part = "tunIn"    -> tunq # <<>>
      [] part = "tunOut"   -> inbuf # <<>>

Event(part) == IF Ready(part) THEN <<part>> ELSE <<>>
Over6Events == Event("over6Err") \o Event("over6In") \o Event("over6Out")
TunEvents == Event("tunIn") \o Event("tunOut")

EpollWait ==
    /\ pc = "wait"
    /\ batch' \in {Over6Events \o TunEvents, TunEvents \o Over6Events}
    /\ pc' = "batch"
    /\ UNCHANGED <<inbuf, outbuf, remain, age, environment, wire, handled>>

At(part) == pc = "batch" /\ batch # <<>> /\ Head(batch) = part
Done == pc' = pc /\ batch' = Tail(batch)
End(how) == pc' = how /\ batch' = <<>>

\* EPOLLERR or EPOLLHUP: goto failed.
Over6Error ==
    /\ At("over6Err")
    /\ End("failed")
    /\ UNCHANGED <<inbuf, outbuf, remain, age, environment, wire, handled>>

FitsAll(q, buf, cap) == Len(q)                               \* mutant

\* readToBuf takes all there is, as far as the buffer goes.
Fits(q, buf, cap) == IF Len(buf) < cap THEN Least(Len(q), cap - Len(buf)) ELSE 0
Rest(q, n) == SubSeq(q, n + 1, Len(q))

TunRead ==
    /\ At("tunIn")
    /\ LET n == Fits(tunq, outbuf, OutCap)
       IN outbuf' = outbuf \o SubSeq(tunq, 1, n) /\ tunq' = Rest(tunq, n)
    /\ Done
    /\ UNCHANGED <<inbuf, remain, age, tcp, rcvq, half, need, sent, arrived, received,
                   wire, handled>>

ReadFromStart ==                                             \* mutant
    /\ At("over6In")
    /\ LET n == Fits(rcvq, inbuf, InCap)
       IN /\ inbuf' = SubSeq(rcvq, 1, n)
          /\ rcvq' = Rest(rcvq, n)
          /\ IF n = 0 /\ (tcp = "fin" \/ Len(inbuf) >= InCap) THEN End("finish") ELSE Done
    /\ UNCHANGED <<outbuf, remain, age, tcp, half, tunq, need, sent, arrived, received,
                   wire, handled>>

\* read() returned 0, or was not called because the buffer is full: main() takes
\* both for the end of the client.  An end of the stream behind data is seen later.
Over6Read ==
    /\ At("over6In")
    /\ LET n == Fits(rcvq, inbuf, InCap)
       IN /\ inbuf' = inbuf \o SubSeq(rcvq, 1, n)
          /\ rcvq' = Rest(rcvq, n)
          /\ IF n = 0 /\ (tcp = "fin" \/ Len(inbuf) >= InCap) THEN End("finish") ELSE Done
    /\ UNCHANGED <<outbuf, remain, age, tcp, half, tunq, need, sent, arrived, received,
                   wire, handled>>

---------------------------------------------------------------------------
(* over6Handle: one message of the buffer, or the return of the function.  *)

Complete == Len(inbuf) >= 2

\* write() to the client, nonblocking: what fits into the send buffer.
Write(units) == wire' = wire \o SubSeq(units, 1, Least(Len(units), Space))

HandleAtOnce ==                                              \* mutant
    /\ At("tunOut") /\ Len(inbuf) > 2
    /\ handled' = Append(handled, inbuf[1][1])
    /\ inbuf' = Rest(inbuf, 2)
    /\ UNCHANGED <<pc, batch, outbuf, remain, age, environment, wire>>

HandleMessage ==
    /\ At("tunOut") /\ Complete
    /\ handled' = Append(handled, inbuf[1][1])
    /\ inbuf' = Rest(inbuf, 2)
    /\ IF inbuf[1][1] = "IP_REQUEST" /\ tcp # "rst"
       THEN Write(<< <<"reply", 0>> >>) ELSE UNCHANGED wire
    /\ IF inbuf[1][1] = "IP_REQUEST" /\ tcp = "rst"
       THEN End("sigpipe") ELSE UNCHANGED <<pc, batch>>
    /\ UNCHANGED <<outbuf, remain, age, environment>>

HandleReturns ==
    /\ At("tunOut") /\ ~Complete
    /\ Done
    /\ UNCHANGED <<inbuf, outbuf, remain, age, environment, wire, handled>>

---------------------------------------------------------------------------
(* rawToOver6                                                              *)

Data(packets) == [i \in DOMAIN packets |-> <<"data", packets[i]>>]

BeginFrameEmpties ==                                         \* mutant
    /\ At("over6Out") /\ tcp # "rst" /\ outbuf # <<>> /\ remain = 0
    /\ Write(<< <<"frame", Len(outbuf)>> >> \o Data(outbuf))
    /\ outbuf' = <<>>
    /\ Done
    /\ UNCHANGED <<inbuf, remain, age, environment, handled>>

\* No frame is open: the header announces the whole buffer.
BeginFrame ==
    /\ At("over6Out") /\ tcp # "rst" /\ outbuf # <<>> /\ remain = 0
    /\ LET n == Least(Len(outbuf), Space - 1)
       IN /\ Write(<< <<"frame", Len(outbuf)>> >> \o Data(outbuf))
          /\ remain' = Len(outbuf) - n
          /\ outbuf' = Rest(outbuf, n)
    /\ Done
    /\ UNCHANGED <<inbuf, age, environment, handled>>

\* The rest of the open frame, and nothing that was read after its header.
ContinueFrame ==
    /\ At("over6Out") /\ tcp # "rst" /\ outbuf # <<>> /\ remain # 0
    /\ LET n == Least(remain, Space)
       IN /\ Write(Data(SubSeq(outbuf, 1, remain)))
          /\ remain' = remain - n
          /\ outbuf' = Rest(outbuf, n)
    /\ Done
    /\ UNCHANGED <<inbuf, age, environment, handled>>

\* The client reset the connection after the event was reported: the first
\* write is an error, the second a signal nobody handles; so is the first, when
\* read() met the error before or the client had already sent its FIN.  The one
\* write of an open frame may thus return -1, which the counters take for a
\* length: the buffer grows by what lies in front of it, one unit here, and the
\* loop goes on to the next epoll_wait, which reports the reset.
WriteToReset ==
    /\ At("over6Out") /\ tcp = "rst"
    /\ \/ End("sigpipe") /\ UNCHANGED <<outbuf, remain>>
       \/ /\ outbuf # <<>> /\ remain # 0
          /\ remain' = remain + 1
          /\ outbuf' = <<0>> \o outbuf
          /\ Done
    /\ UNCHANGED <<inbuf, age, environment, wire, handled>>

HeartbeatAnyTime ==                                          \* mutant
    /\ pc = "batch" /\ batch = <<>>
    /\ IF age > HEARTBEAT
       THEN /\ age' = 0
            /\ IF tcp = "rst" THEN UNCHANGED wire ELSE Write(<< <<"heart", 0>> >>)
       ELSE UNCHANGED <<age, wire>>
    /\ \/ pc' = "wait"
       \/ pc' = "sigpipe" /\ age > HEARTBEAT /\ tcp = "rst"
    /\ UNCHANGED <<batch, inbuf, outbuf, remain, environment, handled>>

\* After the batch: a heartbeat between two frames, written or not it counts.  A
\* connection that was reset answers it with an error or a signal.
Heartbeat ==
    /\ pc = "batch" /\ batch = <<>>
    /\ IF age > HEARTBEAT /\ remain = 0
       THEN /\ age' = 0
            /\ IF tcp = "rst" THEN UNCHANGED wire ELSE Write(<< <<"heart", 0>> >>)
       ELSE UNCHANGED <<age, wire>>
    /\ \/ pc' = "wait"
       \/ pc' = "sigpipe" /\ age > HEARTBEAT /\ remain = 0 /\ tcp = "rst"
    /\ UNCHANGED <<batch, inbuf, outbuf, remain, environment, handled>>

---------------------------------------------------------------------------
Server ==
    \/ EpollWait
    \/ Over6Error
    \/ TunRead
    \/ Over6Read
    \/ HandleMessage
    \/ HandleReturns
    \/ BeginFrame
    \/ ContinueFrame
    \/ WriteToReset
    \/ Heartbeat

Environment ==
    \/ \E m \in Messages : ClientSend(m)
    \/ ClientRead
    \/ \E how \in {"fin", "rst"} : ClientLeaves(how)
    \/ TunArrive
    \/ Tick

Next == Server \/ Environment

Spec == Init /\ [][Next]_vars

\* The thread runs; the clock and the client owe nothing.
FairSpec == Spec /\ WF_vars(Server)

---------------------------------------------------------------------------
Unit == {"frame", "data", "reply", "heart"} \X Nat
Halves == Messages \X {1, 2}
Ended == pc \in {"finish", "failed", "sigpipe"}

\* The types; buffers within their sizes, but for what a write to a connection
\* that was reset adds to ipBuffer; and the rest of the open frame is in ipBuffer,
\* so that no write reads behind what is stored there.
TypeOK ==
    /\ pc \in {"wait", "batch", "finish", "failed", "sigpipe"}
    /\ batch \in Seq({"over6Err", "over6In", "over6Out", "tunIn", "tunOut"})
    /\ inbuf \in Seq(Halves) /\ Len(inbuf) <= InCap
    /\ outbuf \in Seq(Nat) /\ (tcp # "rst" => Len(outbuf) <= OutCap)
    /\ remain \in 0 .. Len(outbuf)
    /\ age \in 0 .. HEARTBEAT + 1
    /\ tcp \in {"est", "fin", "rst"}
    /\ rcvq \in Seq(Halves)
    /\ half \in Messages \cup {None}
    /\ tunq \in Seq(Nat)
    /\ sent \in Seq(Messages) /\ handled \in Seq(Messages)
    /\ wire \in Seq(Unit) /\ Len(wire) <= SndCap
    /\ need \in Nat
    /\ arrived \in Nat /\ received \in Seq(Nat)

\* What the client finds behind a header is the payload the header announced,
\* and payload is found nowhere else: neither a reply nor a heartbeat nor the
\* next header gets into a frame that was written in parts (rawToOver6 and the
\* test of ipBufferRemain before the heartbeat).
FramesWhole ==
    /\ \A i \in DOMAIN wire : wire[i][1] = "frame" =>
          \A j \in i + 1 .. Least(i + wire[i][2], Len(wire)) : wire[j][1] = "data"
    /\ \A j \in 1 .. Least(need, Len(wire)) : wire[j][1] = "data"
    /\ \A j \in need + 1 .. Len(wire) : wire[j][1] = "data" =>
          \E i \in 1 .. j - 1 : wire[i][1] = "frame" /\ j <= i + wire[i][2]

\* Whatever parts it is written in, every packet of the tun leaves once and in
\* its order: the client has read the first ones, the next are on the wire, each
\* of them and in this order, and those behind them wait in ipBuffer and the tun.
\* (Once the connection is reset the client reads nothing more.)
TunInOrder == tcp # "rst" =>
    LET read == Len(received)
        written == arrived - Len(tunq) - Len(outbuf)
        payload == {j \in DOMAIN wire : wire[j][1] = "data"}
    IN  /\ read <= written
        /\ \A i \in DOMAIN received : received[i] = i
        /\ {wire[j][2] : j \in payload} = read + 1 .. written
        /\ \A i, j \in payload : i < j => wire[i][2] < wire[j][2]
        /\ \A i \in DOMAIN outbuf : outbuf[i] = written + i
        /\ \A i \in DOMAIN tunq : tunq[i] = written + Len(outbuf) + i

\* main() reports "client disconnected" (line 278) only when the client has left.
FinishedByClient ==
    pc = "finish" => tcp # "est"

\* over6Handle puts the messages together again: each is handled once, in the
\* order they were sent, however their halves arrive.
Messenger == INSTANCE Channel WITH taken <- handled
MessengerSpec == Messenger!Spec

---------------------------------------------------------------------------
(* Liveness, for as long as the server runs.                               *)

\* Every message is handled.
MessageHandled ==
    \A k \in 1 .. MaxMessages : (Len(sent) >= k) ~> (Len(handled) >= k \/ Ended)

\* A client that keeps up, so that again and again the server waits and nothing
\* is left to read, gets every packet of the tun.
PacketForwarded ==
    []<>(pc = "wait" /\ wire = <<>>) =>
        \A p \in 1 .. MaxPackets : (arrived >= p) ~> (Len(received) >= p \/ Ended)

=============================================================================
