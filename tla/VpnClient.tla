----------------------------- MODULE VpnClient -----------------------------
(***************************************************************************)
(* The native client (jni/vpn.cpp and jni/proto.cpp): one loop around      *)
(* poll() over the socket to the server, the pipe with the commands of the *)
(* service and the tun.  It answers on a second pipe.                      *)
(*                                                                         *)
(* This module has the client and the server it talks to; who writes the   *)
(* commands and reads the answers is VpnService, which extends it.         *)
(***************************************************************************)
EXTENDS Integers, Sequences

CONSTANTS
    TIMEOUT,            \* HEARTBEAT_TIMEOUT_SECS
    IntBytes,           \* bytes of an int on the command pipe
    Longs,              \* counters in an answer to FETCH_STATE: 4 in the code
    Traffic,            \* what the server sends once it has replied
    MaxDown             \* bound: messages of the server

ASSUME ClientAssumption ==
    /\ TIMEOUT \in Nat
    /\ IntBytes \in Nat \ {0} /\ Longs \in 2 .. 4 /\ MaxDown \in Nat
    /\ Traffic \subseteq {"HEARTBEAT", "ZERO_LENGTH", "PACKET_RECV"}

VARIABLES
    \* the program
    npc,        \* where vpn_main is
    ready,      \* descriptors poll() reported and not handled yet, in their order
    rx,         \* messages in socket_buffer
    fdBytes,    \* bytes of tunFd read by handle_command
    tunFd,      \* tunFd was set
    heard,      \* seconds since last_heartbeat_from_server
    \* the socket and the server
    tcp,        \* "none", "est", "fin", "rst" or "closed"
    down,       \* messages received and not read yet
    asked,      \* the server has the IP_REQUEST
    sends,      \* messages it has sent, the IP_REPLY first
    \* shared with the service
    cmds,       \* the command pipe
    answers,    \* the response pipe
    streams,    \* the service's ends of the pipes are open
    iface       \* the tun is open

loop == <<npc, ready, rx, fdBytes, tunFd, heard>>
server == <<tcp, down, asked, sends>>
shared == <<cmds, answers, streams, iface>>
clientVars == <<loop, server, shared>>

ClientInit ==
    /\ npc = "none" /\ ready = <<>> /\ rx = <<>> /\ fdBytes = 0 /\ tunFd = FALSE
    /\ heard = 0
    /\ tcp = "none" /\ down = <<>> /\ asked = FALSE /\ sends = 0
    /\ cmds = <<>> /\ answers = <<>> /\ streams = FALSE /\ iface = FALSE

Alive == npc \notin {"none", "ended"}

---------------------------------------------------------------------------
(* The server and the clock.                                               *)

\* A server that keeps the connection up has replied: it sends nothing before.
\* ZERO_LENGTH is the heartbeat of 4over6-server, whose header has the length 0
\* (keepLiveThread); the heartbeats of the other servers have their own length.
ServerReply ==
    /\ tcp = "est" /\ asked /\ sends = 0
    /\ sends' = 1
    /\ down' = Append(down, "IP_REPLY")
    /\ UNCHANGED <<loop, tcp, asked, shared>>

\* What it sends later shows when the client reads it (Recv).
ServerSend ==
    /\ tcp = "est" /\ sends \in 1 .. MaxDown - 1
    /\ sends' = sends + 1
    /\ down' = Append(down, "later")
    /\ UNCHANGED <<loop, tcp, asked, shared>>

ServerLeaves(how) ==
    /\ tcp = "est"
    /\ tcp' = how
    /\ UNCHANGED <<loop, down, asked, sends, shared>>

\* A server that has closed answers the first write with a reset, and the next
\* one fails, though the stream still just ends for recv().
CanWrite == tcp # "rst"
WriteMayFail == tcp \in {"fin", "rst"}

\* One second, up to the first value that exceeds the timeout.
Tick ==
    /\ Alive /\ heard <= TIMEOUT
    /\ heard' = heard + 1
    /\ UNCHANGED <<npc, ready, rx, fdBytes, tunFd, server, shared>>

---------------------------------------------------------------------------
(* vpn_main                                                                *)

\* exit: everything is closed, the tun too when its number is known.  What the
\* socket and the command pipe held is lost; the static variables mean nothing
\* until protocol_init sets them again, but for tunFd.
NativeEnds ==
    /\ npc' = "ended" /\ ready' = <<>> /\ rx' = <<>> /\ fdBytes' = 0
    /\ heard' = 0
    /\ tcp' = "closed" /\ down' = <<>> /\ asked' = FALSE /\ sends' = 0
    /\ cmds' = <<>>
    /\ iface' = (iface /\ ~tunFd)
    /\ UNCHANGED <<tunFd, answers, streams>>

\* connectServer and protocol_init.
Connect ==
    /\ npc = "connect"
    /\ npc' = "loop" /\ tcp' = "est"
    /\ tunFd' = FALSE /\ rx' = <<>> /\ heard' = 0
    /\ UNCHANGED <<ready, fdBytes, down, asked, sends, shared>>

ConnectFails == npc = "connect" /\ NativeEnds

\* poll() and handle_heartbeat, at any turn of which a heartbeat may be due: the
\* descriptors with something to read, in the order of fds.  The end of the
\* command pipe is POLLHUP, which nobody looks at.
Readable(fd) ==
    CASE fd = "socket"  -> down # <<>> \/ tcp \in {"fin", "rst"}
      [] fd = "command" -> cmds # <<>>
      [] OTHER          -> tunFd /\ iface

Poll ==
    /\ npc = "loop" /\ ready = <<>> /\ heard <= TIMEOUT
    /\ \E packet \in BOOLEAN :
          LET Reported(fd) == Readable(fd) /\ (fd = "tun" => packet)
          IN  ready' = SelectSeq(<<"socket", "command", "tun">>, Reported)
    /\ UNCHANGED <<npc, rx, fdBytes, tunFd, heard, server, shared>>

\* The server was not heard for too long, or the heartbeat cannot be written.
PollFails ==
    /\ npc = "loop" /\ ready = <<>>
    /\ heard > TIMEOUT \/ WriteMayFail
    /\ NativeEnds

At(fd) == npc = "loop" /\ ready # <<>> /\ Head(ready) = fd
Handled == npc' = "loop" /\ ready' = Tail(ready)

---------------------------------------------------------------------------
(* handle_socket                                                           *)

Recv ==
    /\ At("socket") /\ rx = <<>> /\ down # <<>>
    /\ \E kind \in [DOMAIN down -> Traffic] :
          rx' = [i \in DOMAIN down |-> IF down[i] = "later" THEN kind[i] ELSE down[i]]
    /\ down' = <<>>
    /\ UNCHANGED <<npc, ready, fdBytes, tunFd, heard, tcp, asked, sends, shared>>

RecvNothingHeard ==                                          \* mutant
    /\ At("socket") /\ rx = <<>> /\ down = <<>> /\ tcp # "rst"
    /\ Handled
    /\ heard' = 0
    /\ UNCHANGED <<rx, fdBytes, tunFd, server, shared>>

\* recv() returns 0 at the end of the stream: not an error, and no event either.
RecvNothing ==
    /\ At("socket") /\ rx = <<>> /\ down = <<>> /\ tcp # "rst"
    /\ Handled
    /\ UNCHANGED <<rx, fdBytes, tunFd, heard, server, shared>>

RecvError == At("socket") /\ rx = <<>> /\ down = <<>> /\ tcp = "rst" /\ NativeEnds

\* A header of length 0: nothing is taken from the buffer, and the loop of
\* handle_socket finds the same header again, which is a heartbeat to it.
Spinning == rx # <<>> /\ Head(rx) = "ZERO_LENGTH"

Spins ==
    /\ Spinning
    /\ heard' = 0
    /\ UNCHANGED <<npc, ready, rx, fdBytes, tunFd, server, shared>>

\* The next message of the buffer; handle_socket returns after the last one.
Received(m) ==
    /\ rx # <<>> /\ Head(rx) = m
    /\ rx' = Tail(rx)
    /\ IF Len(rx) = 1 THEN Handled ELSE UNCHANGED <<npc, ready>>

\* The five addresses, read by readResponse, and then the number of the socket.
IpReply ==
    /\ Received("IP_REPLY") /\ streams
    /\ answers' = answers \o <<"addresses", "socketFd">>
    /\ UNCHANGED <<fdBytes, tunFd, heard, server, cmds, streams, iface>>

HeartbeatReceived ==
    /\ Received("HEARTBEAT")
    /\ heard' = 0
    /\ UNCHANGED <<fdBytes, tunFd, server, shared>>

\* Dropped as long as there is no tun.
PacketRecv ==
    /\ Received("PACKET_RECV") /\ (tunFd => iface)
    /\ UNCHANGED <<fdBytes, tunFd, heard, server, shared>>

\* The answer or the packet cannot be written.
MessageFails ==
    /\ rx # <<>>
    /\ \/ Head(rx) = "IP_REPLY" /\ ~streams
       \/ Head(rx) = "PACKET_RECV" /\ tunFd /\ ~iface
    /\ NativeEnds

---------------------------------------------------------------------------
(* handle_command and handle_tunnel                                        *)

Command(c) == At("command") /\ cmds # <<>> /\ Head(cmds) = c

\* Commands that write fail when the other end is gone; EXIT ends the loop.
CommandFails ==
    /\ \/ Command("EXIT")
       \/ Command("FETCH_CONFIG") /\ WriteMayFail
       \/ Command("FETCH_STATE") /\ ~streams
    /\ NativeEnds

FetchConfig ==
    /\ Command("FETCH_CONFIG") /\ CanWrite
    /\ asked' = TRUE
    /\ cmds' = Tail(cmds)
    /\ Handled
    /\ UNCHANGED <<rx, fdBytes, tunFd, heard, tcp, down, sends, answers, streams, iface>>

SetTun ==
    /\ Command("SET_TUN")
    /\ cmds' = Tail(cmds)
    /\ npc' = "settun"
    /\ UNCHANGED <<ready, rx, fdBytes, tunFd, heard, server, answers, streams, iface>>

\* Any IntBytes bytes that come next; the loop waits for them.
SetTunByte ==
    /\ npc = "settun" /\ cmds # <<>>
    /\ cmds' = Tail(cmds)
    /\ IF fdBytes + 1 < IntBytes
       THEN fdBytes' = fdBytes + 1 /\ UNCHANGED <<npc, ready, tunFd>>
       ELSE fdBytes' = 0 /\ tunFd' = TRUE /\ Handled
    /\ UNCHANGED <<rx, heard, server, answers, streams, iface>>

Counters == SubSeq(<<"in_bytes", "out_bytes", "in_packets", "out_packets">>, 1, Longs)

FetchState ==
    /\ Command("FETCH_STATE") /\ streams
    /\ answers' = answers \o Counters
    /\ cmds' = Tail(cmds)
    /\ Handled
    /\ UNCHANGED <<rx, fdBytes, tunFd, heard, server, streams, iface>>

Tunnel ==
    /\ At("tun") /\ iface /\ CanWrite
    /\ Handled
    /\ UNCHANGED <<rx, fdBytes, tunFd, heard, server, shared>>

TunnelFails == At("tun") /\ (~iface \/ WriteMayFail) /\ NativeEnds

---------------------------------------------------------------------------
Client ==
    \/ Connect \/ ConnectFails
    \/ Poll \/ PollFails
    \/ Recv \/ RecvNothing \/ RecvError
    \/ IpReply \/ HeartbeatReceived \/ Spins \/ PacketRecv \/ MessageFails
    \/ CommandFails \/ FetchConfig \/ SetTun \/ SetTunByte \/ FetchState
    \/ Tunnel \/ TunnelFails

Server ==
    \/ ServerReply
    \/ ServerSend
    \/ \E how \in {"fin", "rst"} : ServerLeaves(how)

=============================================================================
