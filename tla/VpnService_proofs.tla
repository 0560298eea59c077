------------------------ MODULE VpnService_proofs ------------------------
(***************************************************************************)
(* Proofs that the command pipe stays aligned and that an answer is read   *)
(* by the thread it is meant for, for any width of an int, any number of   *)
(* counters and anything the server does.                                  *)
(***************************************************************************)
EXTENDS VpnService, Framing

Commands == {"EXIT", "FETCH_CONFIG", "SET_TUN", "FETCH_STATE", "BYTE"}

Places == {"idle", "ask", "addresses", "socketFd", "establish", "setTun", "writeInt", "schedule",
           "instance", "check", "fetch", "read", "testTimer", "cancel", "testThread", "isAlive",
           "exit", "join", "joining", "close", "clear", "testInterface", "closeInterface",
           "stopSelf", "forget", "showAlive", "done"}

---------------------------------------------------------------------------
(* The command pipe as a stream of frames: SET_TUN is the header of an int. *)

CmdUnit == {"frame", "data", "other"} \X Nat

AsUnit(c) == IF c = "SET_TUN" THEN <<"frame", IntBytes>>
             ELSE IF c = "BYTE" THEN <<"data", 0>> ELSE <<"other", 0>>

Stream(q) == [i \in 1 .. Len(q) |-> AsUnit(q[i])]

\* Bytes the native client has yet to read, and START has yet to write.
Reading == IF npc = "settun" THEN IntBytes - fdBytes ELSE 0
Writing == IF at["start"] = "writeInt" THEN IntBytes - bytes ELSE 0

---------------------------------------------------------------------------
(* The inductive invariant.                                                *)

\* The types, and where no int is being read or written.
CountsInv ==
    /\ npc \in {"none", "connect", "loop", "settun", "ended"}
    /\ cmds \in Seq(Commands)
    /\ fdBytes \in 0 .. IntBytes - 1 /\ bytes \in 0 .. IntBytes - 1
    /\ at \in [Threads -> Places]
    /\ npc # "settun" => fdBytes = 0
    /\ at["start"] \in {"idle", "ask", "addresses", "socketFd", "establish", "setTun"} => bytes = 0

Connecting ==
    {"idle", "ask", "addresses", "socketFd", "establish", "setTun", "writeInt", "schedule"}

\* Until startVPN is done no other thread can write to the pipe: there is no
\* timer yet, and STOP does nothing without an instance.
AloneInv ==
    at["start"] \in Connecting =>
        /\ ~instance /\ ~ticking
        /\ at["timer"] = "idle" /\ at["main"] = "idle"
        /\ at["stop"] \in {"idle", "forget", "showAlive"}
        /\ IF at["start"] = "idle" THEN npc = "none" ELSE streams

\* Messages are handled in the turn of the socket.
BufferInv == rx # <<>> => npc = "loop" /\ ready # <<>> /\ Head(ready) = "socket"

\* What is on its way to the client is a sequence of messages.
Mail == {"IP_REPLY", "later", "HEARTBEAT", "ZERO_LENGTH", "PACKET_RECV"}
MailInv == rx \in Seq(Mail) /\ down \in Seq(Mail)

PipeInv == IF Alive THEN Frames(Stream(cmds), Reading, Writing) ELSE cmds = <<>>

IInv == CountsInv /\ AloneInv /\ BufferInv /\ PipeInv

---------------------------------------------------------------------------
(* Writing to the pipe and reading from it.                                *)

LEMMA StreamProperties ==
  ASSUME NEW q \in Seq(Commands)
  PROVE  /\ Stream(q) \in Seq(CmdUnit) /\ Len(Stream(q)) = Len(q) /\ AreUnits(CmdUnit)
         /\ \A i \in 1 .. Len(q) : Stream(q)[i] = AsUnit(q[i])
<1>1. \A c \in Commands : AsUnit(c) \in CmdUnit
  BY ClientAssumption DEF AsUnit, CmdUnit
<1>2. Stream(q) \in [1 .. Len(q) -> CmdUnit]
  BY <1>1 DEF Stream
<1>3. Stream(q) \in Seq(CmdUnit) /\ Len(Stream(q)) = Len(q)
  BY <1>2
<1>4. AreUnits(CmdUnit)
  BY DEF AreUnits, CmdUnit
<1>. QED
  BY <1>3, <1>4 DEF Stream

\* SET_TUN opens a frame, a byte belongs to it, and any other command is written
\* while none is open.
LEMMA CommandSent ==
  ASSUME NEW q \in Seq(Commands), NEW c \in Commands, NEW n \in Nat, NEW r \in Nat,
         Frames(Stream(q), n, r), IF c = "BYTE" THEN r > 0 ELSE r = 0
  PROVE  Frames(Stream(Append(q, c)), n,
                IF c = "SET_TUN" THEN IntBytes ELSE IF c = "BYTE" THEN r - 1 ELSE 0)
<1>. DEFINE w == Stream(q)
            p == Append(q, c)
            v == Stream(p)
<1>1. p \in Seq(Commands) /\ Len(p) = Len(q) + 1 /\ p[Len(q) + 1] = c
      /\ \A i \in 1 .. Len(q) : p[i] = q[i]
  OBVIOUS
<1>2. /\ w \in Seq(CmdUnit) /\ Len(w) = Len(q) /\ AreUnits(CmdUnit)
      /\ \A i \in 1 .. Len(q) : w[i] = AsUnit(q[i])
  BY StreamProperties
<1>. HIDE DEF p
<1>3. /\ v \in Seq(CmdUnit) /\ Len(v) = Len(p)
      /\ \A i \in 1 .. Len(p) : v[i] = AsUnit(p[i])
  BY <1>1, StreamProperties
<1>. HIDE DEF v, w
<1>4. /\ Len(v) = Len(w) + 1 /\ v[Len(w) + 1] = AsUnit(c)
      /\ \A i \in 1 .. Len(w) : v[i] = w[i]
  <2>1. Len(q) \in Nat /\ Len(q) + 1 \in 1 .. Len(p)
    BY <1>1
  <2>2. \A i \in 1 .. Len(q) : i \in 1 .. Len(p)
    BY <1>1, <2>1
  <2>. QED
    BY <1>1, <1>2, <1>3, <2>1, <2>2
<1>5. Frames(w, n, r)
  BY DEF w
<1>6. CASE c = "SET_TUN"
  <2>1. v[Len(w) + 1] = <<"frame", IntBytes>> /\ r = 0 /\ IntBytes \in Nat
    BY <1>4, <1>6, ClientAssumption DEF AsUnit
  <2>2. Frames(v, n, IntBytes)
    BY <1>2, <1>3, <1>4, <1>5, <2>1, OtherWritten
  <2>. QED
    BY <1>6, <2>2 DEF v, p
<1>7. CASE c = "BYTE"
  <2>1. v[Len(w) + 1] = <<"data", 0>> /\ 1 \in 0 .. r
    BY <1>4, <1>7 DEF AsUnit
  <2>2. \A j \in 1 .. 1 : v[Len(w) + j][1] = "data"
    BY <2>1
  <2>3. Frames(v, n, r - 1)
    BY <1>2, <1>3, <1>4, <1>5, <2>1, <2>2, DataWritten
  <2>. QED
    BY <1>7, <2>3 DEF v, p
<1>8. CASE c \notin {"SET_TUN", "BYTE"}
  <2>1. v[Len(w) + 1] = <<"other", 0>> /\ r = 0
    BY <1>4, <1>8 DEF AsUnit
  <2>2. v[Len(w) + 1][1] \notin {"frame", "data"}
    BY <2>1
  <2>3. Frames(v, n, 0)
    BY <1>2, <1>3, <1>4, <1>5, <2>1, <2>2, OtherWritten
  <2>. QED
    BY <1>8, <2>3 DEF v, p
<1>. QED
  BY <1>6, <1>7, <1>8

\* The first command is a byte exactly when an int is being read.
LEMMA CommandTaken ==
  ASSUME NEW q \in Seq(Commands), q # <<>>, NEW n \in Nat, NEW r \in Nat,
         Frames(Stream(q), n, r)
  PROVE  /\ (n > 0) <=> (Head(q) = "BYTE")
         /\ Frames(Stream(Tail(q)),
                   IF Head(q) = "SET_TUN" THEN IntBytes ELSE IF n > 0 THEN n - 1 ELSE 0, r)
<1>. DEFINE w == Stream(q)
            m == IF w[1][1] = "frame" THEN w[1][2] ELSE IF w[1][1] = "data" THEN n - 1 ELSE n
<1>1. Len(q) \in Nat /\ Len(q) > 0 /\ 1 \in 1 .. Len(q) /\ Head(q) = q[1]
      /\ Tail(q) \in Seq(Commands) /\ Len(Tail(q)) = Len(q) - 1
      /\ \A i \in 1 .. Len(q) - 1 : Tail(q)[i] = q[i + 1]
  OBVIOUS
<1>2. /\ w \in Seq(CmdUnit) /\ Len(w) = Len(q) /\ AreUnits(CmdUnit)
      /\ \A i \in 1 .. Len(q) : w[i] = AsUnit(q[i])
  BY StreamProperties
<1>. HIDE DEF w
<1>3. w[1] = AsUnit(q[1]) /\ w # <<>> /\ Frames(w, n, r)
  BY <1>1, <1>2 DEF w
<1>4. m \in Nat /\ Frames(Tail(w), m, r)
  <2>1. m = CASE w[1][1] = "frame" -> w[1][2]
              [] w[1][1] = "data" -> n - 1
              [] OTHER -> n
    BY Zenon
  <2>. HIDE DEF m
  <2>. QED
    BY <1>2, <1>3, <2>1, UnitRead
<1>5. Tail(w) = Stream(Tail(q))
  <2>1. /\ Stream(Tail(q)) \in Seq(CmdUnit) /\ Len(Stream(Tail(q))) = Len(q) - 1
        /\ \A i \in 1 .. Len(q) - 1 : Stream(Tail(q))[i] = AsUnit(Tail(q)[i])
    BY <1>1, StreamProperties
  <2>2. /\ Tail(w) \in Seq(CmdUnit) /\ Len(Tail(w)) = Len(q) - 1
        /\ \A i \in 1 .. Len(q) - 1 : Tail(w)[i] = w[i + 1]
    BY <1>1, <1>2, <1>3
  <2>3. ASSUME NEW i \in 1 .. Len(q) - 1 PROVE Stream(Tail(q))[i] = Tail(w)[i]
    <3>1. i + 1 \in 1 .. Len(q)
      BY <1>1
    <3>. QED
      BY <1>1, <1>2, <2>1, <2>2, <3>1
  <2>. QED
    BY <2>1, <2>2, <2>3
<1>6. (n > 0) <=> (w[1][1] = "data")
  BY <1>1, <1>2, <1>3 DEF Frames
<1>7. (w[1][1] = "data") <=> (q[1] = "BYTE")
  BY <1>3 DEF AsUnit
<1>8. m = IF q[1] = "SET_TUN" THEN IntBytes ELSE IF n > 0 THEN n - 1 ELSE 0
  BY <1>3, <1>6 DEF AsUnit
<1>. HIDE DEF m
<1>. QED
  BY <1>1, <1>4, <1>5, <1>6, <1>7, <1>8

---------------------------------------------------------------------------
(* The invariant holds initially, and every step keeps it.                 *)

LEMMA InitInv == Init => IInv
<1>. SUFFICES ASSUME Init PROVE IInv
  OBVIOUS
<1>. USE DEF Init, ClientInit
<1>1. CountsInv
  BY ClientAssumption DEF CountsInv, Threads, Places
<1>2. AloneInv
  BY DEF AloneInv, Threads
<1>3. BufferInv
  BY DEF BufferInv
<1>4. PipeInv
  BY DEF PipeInv, Alive
<1>. QED
  BY <1>1, <1>2, <1>3, <1>4 DEF IInv

LEMMA ReadingWriting ==
  ASSUME CountsInv
  PROVE  /\ Reading \in Nat /\ Writing \in Nat
         /\ Reading > 0 <=> npc = "settun"
         /\ Writing > 0 <=> at["start"] = "writeInt"
<1>1. IntBytes - fdBytes \in Nat /\ IntBytes - fdBytes > 0
      /\ IntBytes - bytes \in Nat /\ IntBytes - bytes > 0
  BY ClientAssumption DEF CountsInv
<1>. QED
  BY <1>1 DEF Reading, Writing

\* What recv() reads is what was on its way, and a reply stays a reply.
LEMMA Arrival ==
  ASSUME MailInv, Recv
  PROVE  /\ rx' \in Seq(Mail) /\ Len(rx') = Len(down)
         /\ \A i \in 1 .. Len(down) : rx'[i] = "IP_REPLY" <=> down[i] = "IP_REPLY"
<1>1. down \in Seq(Mail) /\ DOMAIN down = 1 .. Len(down) /\ Len(down) \in Nat
  BY DEF MailInv
<1>2. PICK kind \in [DOMAIN down -> Traffic] :
        rx' = [i \in DOMAIN down |-> IF down[i] = "later" THEN kind[i] ELSE down[i]]
  BY DEF Recv
<1>3. ASSUME NEW i \in 1 .. Len(down)
      PROVE  rx'[i] \in Mail /\ (rx'[i] = "IP_REPLY" <=> down[i] = "IP_REPLY")
  <2>1. kind[i] \in {"HEARTBEAT", "ZERO_LENGTH", "PACKET_RECV"} /\ down[i] \in Mail
    <3>1. i \in DOMAIN down /\ down[i] \in Mail
      BY <1>1
    <3>2. kind[i] \in Traffic
      BY <1>2, <3>1
    <3>. QED
      BY <3>1, <3>2, ClientAssumption
  <2>2. rx'[i] = IF down[i] = "later" THEN kind[i] ELSE down[i]
    BY <1>1, <1>2
  <2>. QED
    BY <2>1, <2>2 DEF Mail
<1>4. rx' \in [1 .. Len(down) -> Mail]
  BY <1>1, <1>2, <1>3
<1>. QED
  BY <1>1, <1>3, <1>4

\* The messages on their way to the client, whoever takes a step.
LEMMA MailKeeps == MailInv /\ [Next]_vars => MailInv'
<1>. SUFFICES ASSUME MailInv, [Next]_vars PROVE MailInv'
  OBVIOUS
<1>. DEFINE Same == UNCHANGED <<rx, down>>
            Lost == rx' = <<>> /\ down' = <<>>
<1>1. /\ <<>> \in Seq(Mail) /\ (rx # <<>> => Tail(rx) \in Seq(Mail))
      /\ rx \in Seq(Mail) /\ down \in Seq(Mail)
  BY DEF MailInv
<1>2. ASSUME Same \/ Lost PROVE MailInv'
  BY <1>1, <1>2 DEF MailInv
<1>3. CASE Native
  <2>1. CASE ConnectFails \/ PollFails \/ RecvError \/ MessageFails \/ CommandFails \/ TunnelFails
    BY <1>2, <2>1 DEF ConnectFails, PollFails, RecvError, MessageFails, CommandFails,
                      TunnelFails, NativeEnds
  <2>2. CASE Connect
    BY <1>1, <2>2 DEF Connect, MailInv, server
  <2>5. CASE Recv
    BY <1>1, <2>5, Arrival DEF MailInv, Recv
  <2>3. CASE IpReply \/ HeartbeatReceived \/ PacketRecv
    <3>1. rx # <<>> /\ rx' = Tail(rx) /\ down' = down
      BY <2>3 DEF IpReply, HeartbeatReceived, PacketRecv, Received, server
    <3>. QED
      BY <1>1, <3>1 DEF MailInv
  <2>4. CASE \/ Poll \/ RecvNothing \/ Spins \/ Tunnel
             \/ FetchConfig \/ SetTun \/ SetTunByte \/ FetchState
    <3>1. Same
      BY <2>4 DEF Poll, RecvNothing, Spins, Tunnel, FetchConfig, SetTun, SetTunByte, FetchState,
                  server
    <3>. QED
      BY <1>2, <3>1
  <2>. QED
    BY <1>3, <2>1, <2>2, <2>3, <2>4, <2>5 DEF Native, Client
<1>4. CASE World
  <2>1. \A m \in {"IP_REPLY", "later"} : Append(down, m) \in Seq(Mail)
    BY <1>1 DEF Mail
  <2>. QED
    BY <1>1, <1>4, <2>1
    DEF World, Server, ServerReply, ServerSend, ServerLeaves, Tick, loop, server, MailInv
<1>5. \A p, from, to : OnlyMoves(p, from, to) => Same
  BY DEF OnlyMoves, clientVars, loop, server
<1>6. \A b : Send(b) => Same
  BY DEF Send, loop, server
<1>7. Take => Same
  BY DEF Take, loop, server
<1>8. \A p, from, field : NullUsed(p, from, field) => Lost
  BY DEF NullUsed, NativeDies
<1>9. \A p, from, field, set, null : Test(p, from, field, set, null) => Same
  BY <1>5 DEF Test
<1>10. UNCHANGED clientVars => Same
  BY DEF clientVars, loop, server
<1>11. \A p : StopVPN(p) => Same \/ Lost
  BY <1>5, <1>6, <1>8, <1>9, <1>10 DEF StopVPN, Joined, loop, server
<1>12. \A p : StopSelf(p) \/ ShowAlive(p) => Same \/ Lost
  BY <1>5, <1>8, <1>10 DEF StopSelf, ShowAlive
<1>13. CASE Starting
  <2>1. Same \/ Lost
    BY <1>5, <1>6, <1>7, <1>8, <1>10, <1>12, <1>13
    DEF Starting, StartThread, Ask, ReadConfig, ReadSocketFdEnds, Establish, WriteSetTun,
        WriteInt, StartFails, Schedule, SetInstance, loop, server
  <2>. QED
    BY <1>2, <2>1
<1>14. CASE TimerFires \/ Task
  <2>1. Same \/ Lost
    BY <1>5, <1>6, <1>7, <1>8, <1>10, <1>11, <1>12, <1>14
    DEF TimerFires, Task, TimerCheck, Fetch, ReadCounter, ReadCounterEnds, FetchFails
  <2>. QED
    BY <1>2, <2>1
<1>15. CASE Stop \/ Stopping \/ Destroying
  <2>1. Same \/ Lost
    BY <1>9, <1>10, <1>11, <1>12, <1>15 DEF Stop, Stopping, Destroying, Forget
  <2>. QED
    BY <1>2, <2>1
<1>16. CASE UNCHANGED vars
  BY <1>2, <1>10, <1>16 DEF vars
<1>. QED
  BY <1>3, <1>4, <1>13, <1>14, <1>15, <1>16 DEF Next

\* A step that touches nothing the invariant is about.
LEMMA UnchangedKeeps ==
  ASSUME IInv, UNCHANGED <<npc, ready, rx, fdBytes, cmds, streams, at, bytes, instance, ticking>>
  PROVE  IInv'
  BY DEF IInv, CountsInv, AloneInv, BufferInv, PipeInv, Alive, Reading, Writing

---------------------------------------------------------------------------
(* The native client.                                                      *)

NativeVars == <<streams, at, bytes, instance, ticking>>

\* The native client does nothing before START has started it.
LEMMA NativeStarted ==
  ASSUME IInv, npc # "none", npc' \in {"loop", "settun", "ended"}, UNCHANGED NativeVars
  PROVE  AloneInv'
  BY DEF IInv, AloneInv, NativeVars

LEMMA NativeEndsKeeps ==
  ASSUME IInv, npc # "none", NativeEnds, UNCHANGED NativeVars PROVE IInv'
<1>. USE DEF IInv, NativeEnds, NativeVars
<1>1. CountsInv'
  BY ClientAssumption DEF CountsInv
<1>2. AloneInv'
  BY NativeStarted
<1>3. BufferInv'
  BY DEF BufferInv
<1>4. PipeInv'
  BY DEF PipeInv, Alive
<1>. QED
  BY <1>1, <1>2, <1>3, <1>4

\* Back in the loop, or still in it, with nothing taken from the command pipe.
LEMMA LoopKeeps ==
  ASSUME IInv, npc \in {"connect", "loop"}, npc' = "loop", BufferInv',
         UNCHANGED <<cmds, fdBytes>>, UNCHANGED NativeVars
  PROVE  IInv'
<1>. USE DEF IInv, NativeVars
<1>1. CountsInv'
  BY DEF CountsInv
<1>2. AloneInv'
  BY NativeStarted
<1>3. PipeInv'
  BY DEF PipeInv, Alive, Reading, Writing
<1>. QED
  BY <1>1, <1>2, <1>3

\* One command, or one byte of an int, is taken from the pipe.
LEMMA TakingKeeps ==
  ASSUME IInv, npc \in {"loop", "settun"}, npc' \in {"loop", "settun"}, BufferInv',
         cmds # <<>>, cmds' = Tail(cmds), UNCHANGED NativeVars,
         fdBytes' \in 0 .. IntBytes - 1, npc' # "settun" => fdBytes' = 0,
         Reading' = IF Head(cmds) = "SET_TUN" THEN IntBytes
                    ELSE IF Reading > 0 THEN Reading - 1 ELSE 0
  PROVE  IInv'
<1>. USE DEF IInv, NativeVars
<1>1. CountsInv'
  BY DEF CountsInv
<1>2. AloneInv'
  BY NativeStarted
<1>3. PipeInv'
  <2>1. /\ cmds \in Seq(Commands) /\ Reading \in Nat /\ Writing \in Nat
        /\ Frames(Stream(cmds), Reading, Writing)
    BY ReadingWriting DEF CountsInv, PipeInv, Alive
  <2>2. Frames(Stream(cmds'), Reading', Writing)
    BY <2>1, CommandTaken
  <2>3. Writing' = Writing
    BY DEF Writing
  <2>. QED
    BY <2>2, <2>3 DEF PipeInv, Alive
<1>. QED
  BY <1>1, <1>2, <1>3

LEMMA ClientKeeps ==
  ASSUME IInv, MailInv, Client, UNCHANGED <<at, fields, local>> PROVE IInv'
<1>0. UNCHANGED <<at, bytes, instance, ticking>>
  BY DEF fields, local
<1>1. rx # <<>> => npc = "loop" /\ ready # <<>> /\ Head(ready) = "socket"
  BY DEF IInv, BufferInv
<1>2. CASE NativeEnds /\ npc # "none"
  BY <1>0, <1>2, NativeEndsKeeps DEF NativeEnds, NativeVars
<1>3. CASE Connect \/ Poll \/ Recv \/ RecvNothing \/ Tunnel
  <2>1. /\ npc \in {"connect", "loop"} /\ npc' = "loop" /\ UNCHANGED <<cmds, fdBytes, streams>>
    BY <1>3 DEF Connect, Poll, Recv, RecvNothing, Tunnel, At, Handled, shared
  <2>2. BufferInv'
    BY <1>1, <1>3 DEF Connect, Poll, Recv, RecvNothing, Tunnel, At, Handled, BufferInv
  <2>. QED
    BY <1>0, <2>1, <2>2, LoopKeeps DEF NativeVars
<1>9. CASE Spins
  BY <1>0, <1>9, UnchangedKeeps DEF Spins, shared
<1>4. CASE IpReply \/ HeartbeatReceived \/ PacketRecv
  <2>1. PICK x : Received(x) /\ UNCHANGED <<cmds, fdBytes, streams>>
    BY <1>4 DEF IpReply, HeartbeatReceived, PacketRecv, shared
  <2>2. npc = "loop" /\ npc' = "loop"
    BY <1>1, <2>1 DEF Received, Handled
  <2>3. BufferInv'
    <3>1. CASE Len(rx) = 1
      <4>1. rx' = <<>>
        BY <2>1, <3>1 DEF Received, MailInv
      <4>. QED
        BY <4>1 DEF BufferInv
    <3>2. CASE Len(rx) # 1
      <4>1. rx # <<>> /\ ready' = ready
        BY <2>1, <3>2 DEF Received
      <4>. QED
        BY <1>1, <2>2, <4>1 DEF BufferInv
    <3>. QED
      BY <3>1, <3>2
  <2>. QED
    BY <1>0, <2>1, <2>2, <2>3, LoopKeeps DEF NativeVars
<1>5. CASE FetchConfig \/ FetchState
  <2>1. /\ npc = "loop" /\ npc' = "loop" /\ cmds # <<>> /\ cmds' = Tail(cmds)
        /\ Head(cmds) \in {"FETCH_CONFIG", "FETCH_STATE"}
        /\ UNCHANGED <<fdBytes, streams, rx>> /\ ready # <<>> /\ Head(ready) = "command"
    BY <1>5 DEF FetchConfig, FetchState, Command, At, Handled
  <2>2. BufferInv'
    BY <1>1, <2>1 DEF BufferInv
  <2>3. Reading = 0 /\ Reading' = 0
    BY <2>1 DEF Reading
  <2>. QED
    BY <1>0, <2>1, <2>2, <2>3, TakingKeeps DEF NativeVars, IInv, CountsInv
<1>6. CASE SetTun
  <2>1. /\ npc = "loop" /\ npc' = "settun" /\ cmds # <<>> /\ cmds' = Tail(cmds)
        /\ Head(cmds) = "SET_TUN" /\ UNCHANGED <<fdBytes, streams, rx>>
        /\ ready # <<>> /\ Head(ready) = "command"
    BY <1>6 DEF SetTun, Command, At
  <2>2. BufferInv'
    BY <1>1, <2>1 DEF BufferInv
  <2>3. fdBytes = 0 /\ Reading' = IntBytes
    BY <2>1, ClientAssumption DEF Reading, IInv, CountsInv
  <2>. QED
    BY <1>0, <2>1, <2>2, <2>3, TakingKeeps, ClientAssumption DEF NativeVars, IInv, CountsInv
<1>7. CASE SetTunByte
  <2>1. /\ npc = "settun" /\ cmds # <<>> /\ cmds' = Tail(cmds) /\ rx = <<>> /\ rx' = <<>>
        /\ UNCHANGED streams
    BY <1>1, <1>7 DEF SetTunByte
  <2>2. BufferInv'
    BY <2>1 DEF BufferInv
  <2>3. fdBytes \in 0 .. IntBytes - 1 /\ IntBytes \in Nat \ {0} /\ Reading = IntBytes - fdBytes
    BY <2>1, ClientAssumption DEF IInv, CountsInv, Reading
  <2>4. /\ npc' \in {"loop", "settun"} /\ fdBytes' \in 0 .. IntBytes - 1
        /\ npc' # "settun" => fdBytes' = 0
        /\ Reading' = Reading - 1 /\ Reading > 0
    <3>1. CASE fdBytes + 1 < IntBytes
      <4>1. fdBytes' = fdBytes + 1 /\ npc' = "settun"
        BY <1>7, <2>1, <3>1 DEF SetTunByte
      <4>. QED
        BY <2>3, <3>1, <4>1 DEF Reading
    <3>2. CASE ~(fdBytes + 1 < IntBytes)
      <4>1. fdBytes' = 0 /\ npc' = "loop"
        BY <1>7, <3>2 DEF SetTunByte, Handled
      <4>2. IntBytes = fdBytes + 1
        BY <2>3, <3>2
      <4>. QED
        BY <2>3, <4>1, <4>2 DEF Reading
    <3>. QED
      BY <3>1, <3>2
  <2>5. Head(cmds) = "BYTE"
    <3>1. /\ cmds \in Seq(Commands) /\ Reading \in Nat /\ Writing \in Nat
          /\ Frames(Stream(cmds), Reading, Writing)
      BY <2>1, ReadingWriting DEF IInv, CountsInv, PipeInv, Alive
    <3>. QED
      BY <2>1, <2>4, <3>1, CommandTaken
  <2>. QED
    BY <1>0, <2>1, <2>2, <2>4, <2>5, TakingKeeps DEF NativeVars
<1>8. CASE ConnectFails \/ PollFails \/ RecvError \/ MessageFails \/ CommandFails \/ TunnelFails
  BY <1>1, <1>2, <1>8 DEF ConnectFails, PollFails, RecvError, MessageFails, CommandFails,
                          TunnelFails, Command, At
<1>. QED
  BY <1>3, <1>4, <1>5, <1>6, <1>7, <1>8, <1>9 DEF Client

LEMMA WorldKeeps ==
  ASSUME IInv, Server \/ Tick, UNCHANGED <<at, fields, local>> PROVE IInv'
<1>1. UNCHANGED <<npc, ready, rx, fdBytes, cmds, streams>>
  BY DEF Server, ServerReply, ServerSend, ServerLeaves, Tick, loop, server, shared
<1>. QED
  BY <1>1, UnchangedKeeps DEF fields, local

---------------------------------------------------------------------------
(* The service.                                                            *)

\* The app ends with an exception: there is no pipe any more.
LEMMA NullUsedKeeps ==
  ASSUME IInv, NEW p, NEW from, NEW field, NullUsed(p, from, field) PROVE IInv'
<1>. USE DEF IInv, NullUsed, NativeDies
<1>1. at' \in [Threads -> Places] /\ at'["start"] = "done"
  BY DEF Threads, Places
<1>2. CountsInv'
  BY <1>1, ClientAssumption DEF CountsInv, local
<1>3. AloneInv'
  BY <1>1 DEF AloneInv, Connecting
<1>4. BufferInv'
  BY DEF BufferInv
<1>5. PipeInv'
  BY DEF PipeInv, Alive
<1>. QED
  BY <1>2, <1>3, <1>4, <1>5

\* A command that is not part of an int is written while no int is.
LEMMA SendKeepsPipe ==
  ASSUME IInv, NEW c \in Commands \ {"SET_TUN", "BYTE"}, Writing = 0, Writing' = 0, Send(c)
  PROVE  cmds' \in Seq(Commands) /\ PipeInv'
<1>1. /\ cmds \in Seq(Commands) /\ cmds' = Append(cmds, c) /\ Alive /\ npc' = npc
      /\ fdBytes' = fdBytes /\ Reading \in Nat
  BY ReadingWriting DEF IInv, CountsInv, Send, PipeOpen, loop
<1>2. Frames(Stream(cmds), Reading, 0)
  BY <1>1 DEF IInv, PipeInv
<1>3. Frames(Stream(cmds'), Reading, 0)
  BY <1>1, <1>2, CommandSent
<1>4. Reading' = Reading /\ Alive'
  BY <1>1 DEF Reading, Alive
<1>. QED
  BY <1>1, <1>3, <1>4 DEF PipeInv

\* Once startVPN is done, whoever takes a step writes no part of an int.
LEMMA StartedKeeps ==
  ASSUME IInv, at["start"] \notin Connecting, at'["start"] \notin Connecting,
         at' \in [Threads -> Places], UNCHANGED <<npc, ready, rx, fdBytes, bytes>>,
         UNCHANGED cmds \/ Send("FETCH_STATE") \/ Send("EXIT")
  PROVE  IInv'
<1>1. Writing = 0 /\ Writing' = 0
  BY DEF Writing, Connecting
<1>2. cmds' \in Seq(Commands) /\ PipeInv'
  <2>1. CASE UNCHANGED cmds
    BY <1>1, <2>1 DEF IInv, CountsInv, PipeInv, Alive, Reading
  <2>2. CASE Send("FETCH_STATE") \/ Send("EXIT")
    BY <1>1, <2>2, SendKeepsPipe DEF Commands
  <2>. QED
    BY <2>1, <2>2
<1>3. CountsInv'
  BY <1>2 DEF IInv, CountsInv, Connecting
<1>4. AloneInv'
  BY DEF AloneInv
<1>5. BufferInv'
  BY DEF IInv, BufferInv
<1>. QED
  BY <1>2, <1>3, <1>4, <1>5 DEF IInv

\* A step of another thread while startVPN runs: it writes nothing.
LEMMA QuietKeeps ==
  ASSUME IInv, at'["stop"] \in {"idle", "forget", "showAlive"},
         at' = [at EXCEPT !["stop"] = at'["stop"]],
         UNCHANGED <<npc, ready, rx, fdBytes, cmds, streams, bytes, ticking>>,
         instance' = instance \/ instance' = FALSE
  PROVE  IInv'
<1>0. /\ at' \in [Threads -> Places] /\ at \in [Threads -> Places]
      /\ at'["start"] = at["start"] /\ at'["timer"] = at["timer"] /\ at'["main"] = at["main"]
  BY DEF IInv, CountsInv, Threads, Places
<1>1. CountsInv'
  BY <1>0 DEF IInv, CountsInv
<1>2. AloneInv'
  BY <1>0 DEF IInv, AloneInv
<1>3. BufferInv'
  BY DEF IInv, BufferInv
<1>4. PipeInv'
  BY <1>0 DEF IInv, PipeInv, Alive, Reading, Writing
<1>. QED
  BY <1>1, <1>2, <1>3, <1>4 DEF IInv

\* START goes on; it is the one that writes.
LEMMA StartPlace ==
  ASSUME IInv, NEW from, NEW to \in Places, Go("start", from, to)
  PROVE  /\ at' \in [Threads -> Places] /\ at["start"] = from /\ at'["start"] = to
         /\ \A p \in Threads \ {"start"} : at'[p] = at[p]
  BY DEF IInv, CountsInv, Go, Threads

LEMMA StartThreadKeeps ==
  ASSUME IInv, StartThread PROVE IInv'
<1>1. /\ at' \in [Threads -> Places] /\ at["start"] = "idle" /\ at'["start"] = "ask"
      /\ \A p \in Threads \ {"start"} : at'[p] = at[p]
  BY StartPlace DEF StartThread, Places
<1>2. npc = "none" /\ npc' = "connect" /\ streams' /\ bytes' = bytes /\ bytes = 0
      /\ UNCHANGED <<rx, ready, fdBytes, cmds, instance, ticking>>
  BY <1>1 DEF IInv, AloneInv, CountsInv, Connecting, StartThread, local
<1>3. cmds = <<>>
  BY <1>2 DEF IInv, PipeInv, Alive
<1>4. CountsInv'
  BY <1>1, <1>2 DEF IInv, CountsInv
<1>5. AloneInv'
  BY <1>1, <1>2 DEF IInv, AloneInv, Connecting, Threads
<1>6. BufferInv'
  BY <1>2 DEF IInv, BufferInv
<1>7. PipeInv'
  <2>1. Reading' = 0 /\ Writing' = 0 /\ cmds' = <<>>
    BY <1>1, <1>2, <1>3 DEF Reading, Writing
  <2>2. Frames(Stream(<<>>), 0, 0)
    BY DEF Frames, Stream
  <2>. QED
    BY <1>2, <1>3, <2>1, <2>2 DEF PipeInv, Alive
<1>. QED
  BY <1>4, <1>5, <1>6, <1>7 DEF IInv

\* A step of startVPN that ends before or after the bytes of the int.
LEMMA StartMoves ==
  ASSUME IInv, NEW from \in Connecting \ {"idle", "writeInt"},
         NEW to \in {"addresses", "socketFd", "establish", "setTun", "schedule", "instance"},
         Go("start", from, to), from = "schedule" => to = "instance",
         UNCHANGED <<npc, ready, rx, fdBytes, streams, bytes, instance>>,
         to # "instance" => UNCHANGED ticking,
         UNCHANGED cmds \/ Send("FETCH_CONFIG")
  PROVE  IInv'
<1>1. /\ at' \in [Threads -> Places] /\ at["start"] = from /\ at'["start"] = to
      /\ \A p \in Threads \ {"start"} : at'[p] = at[p]
  BY StartPlace DEF Places
<1>2. Writing = 0 /\ Writing' = 0
  BY <1>1 DEF Writing
<1>3. cmds' \in Seq(Commands) /\ PipeInv'
  <2>1. CASE UNCHANGED cmds
    BY <1>2, <2>1 DEF IInv, CountsInv, PipeInv, Alive, Reading
  <2>2. CASE Send("FETCH_CONFIG")
    BY <1>2, <2>2, SendKeepsPipe DEF Commands
  <2>. QED
    BY <2>1, <2>2
<1>4. CountsInv'
  BY <1>1, <1>3 DEF IInv, CountsInv, Connecting
<1>5. AloneInv'
  BY <1>1 DEF IInv, AloneInv, Connecting, Threads
<1>6. BufferInv'
  BY DEF IInv, BufferInv
<1>. QED
  BY <1>3, <1>4, <1>5, <1>6 DEF IInv

LEMMA WriteSetTunKeeps ==
  ASSUME IInv, WriteSetTun PROVE IInv'
<1>1. /\ at' \in [Threads -> Places] /\ at["start"] = "setTun" /\ at'["start"] = "writeInt"
      /\ \A p \in Threads \ {"start"} : at'[p] = at[p]
  BY StartPlace DEF WriteSetTun, Places
<1>2. /\ Alive /\ cmds' = Append(cmds, "SET_TUN") /\ bytes = 0 /\ bytes' = 0
      /\ UNCHANGED <<npc, ready, rx, fdBytes, streams, instance, ticking>>
  BY <1>1 DEF WriteSetTun, Send, PipeOpen, loop, fields, local, IInv, CountsInv
<1>3. CountsInv'
  <2>1. cmds' \in Seq(Commands)
    BY <1>2 DEF IInv, CountsInv, Commands
  <2>. QED
    BY <1>1, <1>2, <2>1 DEF IInv, CountsInv
<1>4. AloneInv'
  BY <1>1, <1>2 DEF IInv, AloneInv, Connecting, Threads
<1>5. BufferInv'
  BY <1>2 DEF IInv, BufferInv
<1>6. PipeInv'
  <2>1. Reading' = Reading /\ Writing = 0 /\ Writing' = IntBytes /\ Alive'
    BY <1>1, <1>2, ClientAssumption DEF Reading, Writing, Alive
  <2>2. /\ cmds \in Seq(Commands) /\ Reading \in Nat /\ "SET_TUN" \in Commands
        /\ Frames(Stream(cmds), Reading, 0)
    BY <1>2, <2>1, ReadingWriting DEF IInv, CountsInv, PipeInv, Commands
  <2>3. Frames(Stream(cmds'), Reading, IntBytes)
    BY <1>2, <2>2, CommandSent
  <2>. QED
    BY <2>1, <2>3 DEF PipeInv
<1>. QED
  BY <1>3, <1>4, <1>5, <1>6 DEF IInv

LEMMA WriteIntKeeps ==
  ASSUME IInv, WriteInt PROVE IInv'
<1>1. /\ at["start"] = "writeInt" /\ Alive /\ cmds' = Append(cmds, "BYTE")
      /\ bytes' = (bytes + 1) % IntBytes
      /\ Go("start", "writeInt", IF bytes' = 0 THEN "schedule" ELSE "writeInt")
      /\ UNCHANGED <<npc, ready, rx, fdBytes, streams, instance, ticking>>
  BY DEF WriteInt, Send, PipeOpen, loop, fields
<1>2. bytes \in 0 .. IntBytes - 1 /\ IntBytes \in Nat \ {0}
  BY ClientAssumption DEF IInv, CountsInv
<1>3. bytes' = IF bytes + 1 = IntBytes THEN 0 ELSE bytes + 1
  BY <1>1, <1>2
<1>4. /\ at' \in [Threads -> Places]
      /\ at'["start"] = IF bytes' = 0 THEN "schedule" ELSE "writeInt"
      /\ \A p \in Threads \ {"start"} : at'[p] = at[p]
  BY <1>1, StartPlace DEF Places
<1>5. CountsInv'
  <2>1. cmds' \in Seq(Commands)
    BY <1>1 DEF IInv, CountsInv, Commands
  <2>2. bytes' \in 0 .. IntBytes - 1
    BY <1>2, <1>3
  <2>. QED
    BY <1>1, <1>4, <2>1, <2>2 DEF IInv, CountsInv
<1>6. AloneInv'
  BY <1>1, <1>4 DEF IInv, AloneInv, Connecting, Threads
<1>7. BufferInv'
  BY <1>1 DEF IInv, BufferInv
<1>8. PipeInv'
  <2>1. Reading' = Reading /\ Writing' = Writing - 1 /\ Writing > 0 /\ Alive'
    <3>1. Writing = IntBytes - bytes
      BY <1>1 DEF Writing
    <3>2. CASE bytes + 1 = IntBytes
      BY <1>1, <1>2, <1>3, <1>4, <3>1, <3>2 DEF Writing, Reading, Alive
    <3>3. CASE bytes + 1 # IntBytes
      BY <1>1, <1>2, <1>3, <1>4, <3>1, <3>3 DEF Writing, Reading, Alive
    <3>. QED
      BY <3>2, <3>3
  <2>2. /\ cmds \in Seq(Commands) /\ Reading \in Nat /\ Writing \in Nat /\ "BYTE" \in Commands
        /\ Frames(Stream(cmds), Reading, Writing)
    BY <1>1, ReadingWriting DEF IInv, CountsInv, PipeInv, Commands
  <2>3. Frames(Stream(cmds'), Reading, Writing - 1)
    BY <1>1, <2>1, <2>2, CommandSent
  <2>. QED
    BY <2>1, <2>3 DEF PipeInv
<1>. QED
  BY <1>5, <1>6, <1>7, <1>8 DEF IInv

\* An IOException: what was written of the int is lost with the pipe.
LEMMA StartFailsKeeps ==
  ASSUME IInv, StartFails PROVE IInv'
<1>1. /\ Go("start", at["start"], "instance")
      /\ at["start"] \in {"ask", "setTun", "writeInt", "addresses", "socketFd"}
      /\ UNCHANGED <<npc, ready, rx, fdBytes, cmds, streams, bytes, instance, ticking>>
      /\ at["start"] = "writeInt" => ~PipeOpen
  BY DEF StartFails, Go, clientVars, loop, shared, fields, local
<1>2. CASE at["start"] # "writeInt"
  BY <1>1, <1>2, StartMoves DEF Connecting
<1>3. CASE at["start"] = "writeInt"
  <2>1. /\ at' \in [Threads -> Places] /\ at'["start"] = "instance"
        /\ \A p \in Threads \ {"start"} : at'[p] = at[p]
    BY <1>1, StartPlace DEF Places
  <2>2. ~Alive
    BY <1>1, <1>3 DEF IInv, AloneInv, Connecting, PipeOpen
  <2>3. CountsInv'
    BY <1>1, <2>1 DEF IInv, CountsInv
  <2>4. AloneInv' /\ BufferInv'
    BY <1>1, <2>1 DEF IInv, AloneInv, Connecting, BufferInv
  <2>5. PipeInv'
    BY <1>1, <2>2 DEF IInv, PipeInv, Alive
  <2>. QED
    BY <2>3, <2>4, <2>5 DEF IInv
<1>. QED
  BY <1>2, <1>3

\* broadcastState at the end of a method.
LEMMA ShowAliveKeeps ==
  ASSUME IInv, NEW p \in {"start", "stop", "timer"}, ShowAlive(p) PROVE IInv'
<1>1. CASE NullUsed(p, "showAlive", vpnThread)
  BY <1>1, NullUsedKeeps
<1>2. CASE vpnThread /\ OnlyMoves(p, "showAlive", Last[p])
  <2>1. /\ at \in [Threads -> Places] /\ at[p] = "showAlive" /\ at' = [at EXCEPT ![p] = Last[p]]
        /\ UNCHANGED <<npc, ready, rx, fdBytes, cmds, streams, bytes, instance, ticking>>
    BY <1>2 DEF OnlyMoves, Go, clientVars, loop, shared, fields, local, IInv, CountsInv
  <2>2. Last[p] \in {"done", "idle"}
    BY DEF Last
  <2>3. CASE at["start"] \in Connecting
    <3>1. p = "stop" /\ Last[p] = "idle" /\ at'["stop"] = "idle"
      BY <2>1, <2>3 DEF IInv, AloneInv, Connecting, Threads, Last
    <3>. QED
      BY <2>1, <3>1, QuietKeeps
  <2>4. CASE at["start"] \notin Connecting
    <3>1. at' \in [Threads -> Places]
      BY <2>1, <2>2 DEF Places, Threads
    <3>2. at'["start"] \notin Connecting
      BY <2>1, <2>4 DEF Connecting, Threads, Last
    <3>. QED
      BY <2>1, <2>4, <3>1, <3>2, StartedKeeps
  <2>. QED
    BY <2>3, <2>4
<1>. QED
  BY <1>1, <1>2 DEF ShowAlive

LEMMA StartingKeeps ==
  ASSUME IInv, Starting PROVE IInv'
<1>1. CASE StartThread
  BY <1>1, StartThreadKeeps
<1>2. CASE Ask
  <2>1. Go("start", "ask", "addresses") /\ Send("FETCH_CONFIG")
        /\ UNCHANGED <<npc, ready, rx, fdBytes, streams, bytes, instance, ticking>>
    BY <1>2 DEF Ask, Send, loop, fields, local
  <2>. QED
    BY <2>1, StartMoves DEF Connecting
<1>3. CASE ReadConfig \/ ReadSocketFdEnds
  <2>1. /\ \/ Go("start", "addresses", "socketFd")
           \/ Go("start", "socketFd", "establish")
        /\ UNCHANGED <<npc, ready, rx, fdBytes, cmds, streams, bytes, instance, ticking>>
    BY <1>3 DEF ReadConfig, ReadSocketFdEnds, OnlyMoves, Take, clientVars, loop, shared,
                fields, local
  <2>. QED
    BY <2>1, StartMoves DEF Connecting
<1>4. CASE Establish
  <2>1. Go("start", "establish", "setTun")
        /\ UNCHANGED <<npc, ready, rx, fdBytes, cmds, streams, bytes, instance, ticking>>
    BY <1>4 DEF Establish, loop, local
  <2>. QED
    BY <2>1, StartMoves DEF Connecting
<1>5. CASE WriteSetTun
  BY <1>5, WriteSetTunKeeps
<1>6. CASE WriteInt
  BY <1>6, WriteIntKeeps
<1>7. CASE StartFails
  BY <1>7, StartFailsKeeps
<1>8. CASE Schedule
  <2>1. Go("start", "schedule", "instance")
        /\ UNCHANGED <<npc, ready, rx, fdBytes, cmds, streams, bytes, instance>>
    BY <1>8 DEF Schedule, clientVars, loop, shared
  <2>. QED
    BY <2>1, StartMoves DEF Connecting
<1>9. CASE SetInstance
  <2>1. /\ at["start"] = "instance" /\ at' = [at EXCEPT !["start"] = Show("start")]
        /\ at \in [Threads -> Places]
        /\ UNCHANGED <<npc, ready, rx, fdBytes, cmds, streams, bytes, ticking>>
    BY <1>9 DEF SetInstance, Go, clientVars, loop, shared, local, IInv, CountsInv
  <2>2. Show("start") \in {"showAlive", "done"}
    BY DEF Show, Last
  <2>3. at' \in [Threads -> Places] /\ at'["start"] \notin Connecting
    BY <2>1, <2>2 DEF Places, Threads, Connecting
  <2>. QED
    BY <2>1, <2>3, StartedKeeps DEF Connecting
<1>10. CASE ShowAlive("start")
  BY <1>10, ShowAliveKeeps
<1>11. CASE NullUsed("start", "writeInt", vpnInterface)
  BY <1>11, NullUsedKeeps DEF Threads
<1>. QED
  BY <1>1, <1>2, <1>3, <1>4, <1>5, <1>6, <1>7, <1>8, <1>9, <1>10, <1>11 DEF Starting

\* The steps of the timer's task, of STOP and of onDestroy that are taken only
\* when startVPN is done: the thread is at none of the places of AloneInv.
LEMMA ThreadKeeps ==
  ASSUME IInv, NEW p \in {"stop", "timer", "main"},
         at[p] \notin {"idle", "forget", "showAlive"},
         at' \in [Threads -> Places], at'["start"] = at["start"],
         UNCHANGED <<npc, ready, rx, fdBytes, bytes>>,
         UNCHANGED cmds \/ Send("FETCH_STATE") \/ Send("EXIT")
  PROVE  IInv'
<1>1. at["start"] \notin Connecting
  BY DEF IInv, AloneInv
<1>. QED
  BY <1>1, StartedKeeps

LEMMA Going ==
  ASSUME IInv, NEW p \in {"stop", "timer", "main"}, NEW from, NEW to \in Places, Go(p, from, to)
  PROVE  at[p] = from /\ at' \in [Threads -> Places] /\ at'["start"] = at["start"]
  BY DEF IInv, CountsInv, Go, Threads

LEMMA StopVPNKeeps ==
  ASSUME IInv, NEW p \in {"stop", "timer", "main"}, StopVPN(p) PROVE IInv'
<1>1. CASE \/ NullUsed(p, "cancel", timer) \/ NullUsed(p, "isAlive", vpnThread)
           \/ NullUsed(p, "join", vpnThread) \/ NullUsed(p, "closeInterface", vpnInterface)
  BY <1>1, NullUsedKeeps
<1>2. CASE ~ \/ NullUsed(p, "cancel", timer) \/ NullUsed(p, "isAlive", vpnThread)
             \/ NullUsed(p, "join", vpnThread) \/ NullUsed(p, "closeInterface", vpnInterface)
  <2>1. PICK from \in {"testTimer", "cancel", "testThread", "isAlive", "exit", "join", "joining",
                       "close", "clear", "testInterface", "closeInterface"},
             to \in Places : Go(p, from, to)
    BY <1>2 DEF StopVPN, Joined, Test, OnlyMoves, Places
  <2>2. UNCHANGED <<npc, ready, rx, fdBytes, bytes>> /\ (UNCHANGED cmds \/ Send("EXIT"))
    BY <1>2 DEF StopVPN, Joined, Test, OnlyMoves, Send, clientVars, loop, shared, local
  <2>3. at[p] = from /\ at' \in [Threads -> Places] /\ at'["start"] = at["start"]
    BY <2>1, Going
  <2>. QED
    BY <2>1, <2>2, <2>3, ThreadKeeps
<1>. QED
  BY <1>1, <1>2

LEMMA StopSelfKeeps ==
  ASSUME IInv, NEW p \in {"stop", "timer", "main"}, StopSelf(p) PROVE IInv'
<1>1. /\ at \in [Threads -> Places] /\ at[p] = "stopSelf"
      /\ UNCHANGED <<npc, ready, rx, fdBytes, bytes, cmds>>
  BY DEF IInv, CountsInv, StopSelf, clientVars, loop, shared, local
<1>2. Show("timer") \in Places
  BY DEF Show, Last, Places
<1>3. at' \in [Threads -> Places] /\ at'["start"] = at["start"]
  BY <1>1, <1>2 DEF StopSelf, Threads, Places
<1>. QED
  BY <1>1, <1>3, ThreadKeeps

LEMMA TaskKeeps ==
  ASSUME IInv, TimerFires \/ Task PROVE IInv'
<1>1. CASE TimerFires
  <2>1. at["start"] \notin Connecting
    BY <1>1 DEF IInv, AloneInv, TimerFires
  <2>2. /\ at' \in [Threads -> Places] /\ at'["start"] = at["start"]
        /\ UNCHANGED <<npc, ready, rx, fdBytes, bytes, cmds>>
    BY <1>1, Going DEF TimerFires, OnlyMoves, Places, clientVars, loop, shared, local
  <2>. QED
    BY <2>1, <2>2, StartedKeeps
<1>2. CASE TimerCheck \/ Fetch \/ ReadCounter \/ ReadCounterEnds \/ FetchFails
  <2>1. Show("timer") \in Places
    BY DEF Show, Last, Places
  <2>2. PICK from \in {"check", "fetch", "read"}, to \in Places : Go("timer", from, to)
    BY <1>2, <2>1 DEF TimerCheck, Fetch, ReadCounter, ReadCounterEnds, FetchFails, NextRead,
                      OnlyMoves, Go, Places
  <2>3. /\ UNCHANGED <<npc, ready, rx, fdBytes, bytes>>
        /\ UNCHANGED cmds \/ Send("FETCH_STATE")
    BY <1>2 DEF TimerCheck, Fetch, ReadCounter, ReadCounterEnds, FetchFails, NextRead,
                OnlyMoves, Send, Take, clientVars, loop, shared, local
  <2>. QED
    BY <2>2, <2>3, Going, ThreadKeeps
<1>3. CASE NullUsed("timer", "check", vpnThread)
  BY <1>3, NullUsedKeeps
<1>4. CASE StopVPN("timer") \/ StopSelf("timer") \/ ShowAlive("timer")
  BY <1>4, StopVPNKeeps, StopSelfKeeps, ShowAliveKeeps
<1>. QED
  BY <1>1, <1>2, <1>3, <1>4 DEF Task

LEMMA StoppingKeeps ==
  ASSUME IInv, Stop \/ Stopping \/ Destroying PROVE IInv'
<1>1. CASE Stop \/ Forget
  <2>1. /\ at \in [Threads -> Places] /\ at["stop"] \in {"idle", "forget"}
        /\ at' = [at EXCEPT !["stop"] = at'["stop"]]
        /\ at'["stop"] \in {"testTimer", "idle", "forget", "showAlive"}
        /\ at'["stop"] = "testTimer" => instance
        /\ UNCHANGED <<npc, ready, rx, fdBytes, bytes, cmds, streams, ticking>>
        /\ instance' = instance \/ instance' = FALSE
    BY <1>1 DEF Stop, Forget, Test, OnlyMoves, Go, Show, Last, clientVars, loop, shared, fields,
                local, IInv, CountsInv, Threads
  <2>2. CASE at["start"] \in Connecting
    BY <2>1, <2>2, QuietKeeps DEF IInv, AloneInv
  <2>3. CASE at["start"] \notin Connecting
    <3>1. at' \in [Threads -> Places] /\ at'["start"] = at["start"]
      BY <2>1 DEF Places, Threads
    <3>. QED
      BY <2>1, <2>3, <3>1, StartedKeeps
  <2>. QED
    BY <2>2, <2>3
<1>2. CASE \/ StopVPN("stop") \/ StopSelf("stop") \/ ShowAlive("stop") \/ Destroying
  BY <1>2, StopVPNKeeps, StopSelfKeeps, ShowAliveKeeps DEF Destroying
<1>. QED
  BY <1>1, <1>2 DEF Stopping

---------------------------------------------------------------------------
LEMMA NextInv == IInv /\ MailInv /\ [Next]_vars => IInv'
<1>. SUFFICES ASSUME IInv, MailInv, [Next]_vars PROVE IInv'
  OBVIOUS
<1>1. CASE Native
  BY <1>1, ClientKeeps DEF Native
<1>2. CASE World
  BY <1>2, WorldKeeps DEF World
<1>3. CASE Starting
  BY <1>3, StartingKeeps
<1>4. CASE TimerFires \/ Task
  BY <1>4, TaskKeeps
<1>5. CASE Stop \/ Stopping \/ Destroying
  BY <1>5, StoppingKeeps
<1>6. CASE UNCHANGED vars
  BY <1>6, UnchangedKeeps DEF vars, clientVars, loop, shared, fields, local
<1>. QED
  BY <1>1, <1>2, <1>3, <1>4, <1>5, <1>6 DEF Next

\* No byte of a descriptor is ever taken for a command and no command for such a
\* byte, for any width of an int: startVPN, the timer's task and stopVPN write to
\* the pipe without a lock.
THEOREM PipeStaysAligned == Spec => []CommandsAligned
<1>1. IInv => CommandsAligned
  <2>. SUFFICES ASSUME IInv, cmds # <<>> PROVE (npc = "settun") <=> (Head(cmds) = "BYTE")
    BY DEF CommandsAligned
  <2>1. /\ cmds \in Seq(Commands) /\ Reading \in Nat /\ Writing \in Nat
        /\ Frames(Stream(cmds), Reading, Writing)
    BY ReadingWriting DEF IInv, CountsInv, PipeInv
  <2>2. (Reading > 0) <=> (Head(cmds) = "BYTE")
    BY <2>1, CommandTaken
  <2>. QED
    BY <2>2, ReadingWriting DEF IInv
<1>2. Init => MailInv
  BY DEF Init, ClientInit, MailInv
<1>3. Spec => [](IInv /\ MailInv)
  BY <1>2, InitInv, MailKeeps, NextInv, PTL DEF Spec
<1>. QED
  BY <1>1, <1>3, PTL

---------------------------------------------------------------------------
(* Answers.                                                                *)

Has(q, x) == \E i \in 1 .. Len(q) : q[i] = x
Once(q, x) == \A i, j \in 1 .. Len(q) : q[i] = x /\ q[j] = x => i = j

\* A request for the configuration, or the reply to it, is on its way.
Pending ==
    \/ Has(cmds, "FETCH_CONFIG")
    \/ asked /\ sends = 0
    \/ Has(rx, "IP_REPLY") \/ Has(down, "IP_REPLY")

\* It is in one place only, and START waits for it until the client has ended.
ConfigInv ==
    /\ Once(cmds, "FETCH_CONFIG") /\ Once(rx, "IP_REPLY") /\ Once(down, "IP_REPLY")
    /\ ~(Has(rx, "IP_REPLY") /\ Has(down, "IP_REPLY"))
    /\ Pending => at["start"] = "addresses" /\ answers = <<>>
    /\ Has(cmds, "FETCH_CONFIG") => ~asked /\ sends = 0
    /\ Has(rx, "IP_REPLY") \/ Has(down, "IP_REPLY") => sends # 0
    /\ at["start"] \in {"idle", "ask"} => ~asked /\ sends = 0
    /\ ~Alive => ~asked /\ ~Has(rx, "IP_REPLY") /\ ~Has(down, "IP_REPLY")

\* The timer's task has one request for the counters on its way at most.
StateInv ==
    /\ Once(cmds, "FETCH_STATE")
    /\ Has(cmds, "FETCH_STATE") => at["timer"] = "read" /\ reads = 0 /\ answers = <<>>
    /\ at["timer"] # "read" => reads = 0
    /\ reads \in 0 .. Longs - 1

\* What is in the pipe is what one thread has yet to read.
ContentInv ==
    /\ answers \in Seq({"addresses", "socketFd"} \cup {Counters[i] : i \in 1 .. Longs})
    /\ answers # <<>> =>
         \/ /\ at["start"] = "addresses" /\ Len(answers) = 2
            /\ answers[1] = "addresses" /\ answers[2] = "socketFd"
         \/ at["start"] = "socketFd" /\ Len(answers) = 1 /\ answers[1] = "socketFd"
         \/ /\ at["timer"] = "read" /\ Len(answers) = Longs - reads
            /\ \A i \in 1 .. Len(answers) : answers[i] = Counters[reads + i]

AnswersInv == streams \/ at["start"] = "idle" => ConfigInv /\ StateInv /\ ContentInv

LEMMA HasAppended ==
  ASSUME NEW S, NEW q \in Seq(S), NEW x \in S
  PROVE  \A y : /\ Has(Append(q, x), y) <=> Has(q, y) \/ x = y
                /\ Once(q, y) /\ (x = y => ~Has(q, y)) => Once(Append(q, x), y)
<1>. DEFINE p == Append(q, x)
<1>1. /\ Len(p) = Len(q) + 1 /\ p[Len(q) + 1] = x /\ Len(q) \in Nat
      /\ \A i \in 1 .. Len(q) : p[i] = q[i]
  OBVIOUS
<1>2. \A i \in 1 .. Len(p) : i \in 1 .. Len(q) \/ i = Len(q) + 1
  BY <1>1
<1>3. Len(q) + 1 \in 1 .. Len(p) /\ \A i \in 1 .. Len(q) : i \in 1 .. Len(p)
  BY <1>1
<1>. HIDE DEF p
<1>4. ASSUME NEW y
      PROVE  /\ Has(p, y) <=> Has(q, y) \/ x = y
             /\ Once(q, y) /\ (x = y => ~Has(q, y)) => Once(p, y)
  BY <1>1, <1>2, <1>3 DEF Has, Once
<1>. QED
  BY <1>4 DEF p

LEMMA HasTaken ==
  ASSUME NEW S, NEW q \in Seq(S), q # <<>>
  PROVE  \A y : /\ Has(Tail(q), y) => Has(q, y)
                /\ Once(q, y) => Once(Tail(q), y)
                /\ Head(q) = y => Has(q, y)
                /\ Head(q) = y /\ Once(q, y) => ~Has(Tail(q), y)
<1>. DEFINE p == Tail(q)
<1>1. /\ Len(p) = Len(q) - 1 /\ Len(q) \in Nat \ {0} /\ Head(q) = q[1]
      /\ \A i \in 1 .. Len(p) : p[i] = q[i + 1]
  OBVIOUS
<1>2. \A i \in 1 .. Len(p) : i + 1 \in 1 .. Len(q) /\ i + 1 # 1
  BY <1>1
<1>3. 1 \in 1 .. Len(q)
  BY <1>1
<1>4. \A i, j \in 1 .. Len(p) : i + 1 = j + 1 => i = j
  BY <1>1
<1>. HIDE DEF p
<1>5. ASSUME NEW y
      PROVE  /\ Has(p, y) => Has(q, y)
             /\ Once(q, y) => Once(p, y)
             /\ Head(q) = y => Has(q, y)
             /\ Head(q) = y /\ Once(q, y) => ~Has(p, y)
  BY <1>1, <1>2, <1>3, <1>4 DEF Has, Once
<1>. QED
  BY <1>5 DEF p

LEMMA HasNothing == \A y : ~Has(<<>>, y) /\ Once(<<>>, y)
  BY DEF Has, Once

LEMMA CountersDistinct ==
  /\ Len(Counters) = Longs /\ Counters \in Seq({Counters[i] : i \in 1 .. Longs})
<1>1. CASE Longs = 2
  BY <1>1 DEF Counters
<1>2. CASE Longs = 3
  BY <1>2 DEF Counters
<1>3. CASE Longs = 4
  BY <1>3 DEF Counters
<1>. QED
  BY <1>1, <1>2, <1>3, ClientAssumption

\* The next value of four.
LEMMA NextValue ==
  ASSUME NEW r \in 0 .. Longs - 1
  PROVE  (r + 1) % Longs = IF r + 1 = Longs THEN 0 ELSE r + 1
<1>1. CASE Longs = 2
  BY <1>1
<1>2. CASE Longs = 3
  BY <1>2
<1>3. CASE Longs = 4
  BY <1>3
<1>. QED
  BY <1>1, <1>2, <1>3, ClientAssumption

LEMMA AnswersInit == Init => AnswersInv
<1>. SUFFICES ASSUME Init PROVE AnswersInv
  OBVIOUS
<1>1. ConfigInv
  BY HasNothing DEF Init, ClientInit, ConfigInv, Pending, Alive, Threads
<1>2. StateInv
  BY HasNothing, ClientAssumption DEF Init, ClientInit, StateInv, Threads
<1>3. ContentInv
  BY DEF Init, ClientInit, ContentInv
<1>. QED
  BY <1>1, <1>2, <1>3 DEF AnswersInv

\* A step that moves no thread of the service: what is on its way gets less.
LEMMA LessOnItsWay ==
  ASSUME AnswersInv, streams' = streams, UNCHANGED <<at, reads, answers>>,
         \A y : /\ Has(cmds', y) => Has(cmds, y)
                /\ Once(cmds, y) => Once(cmds', y),
         \A y \in {"IP_REPLY"} :
            /\ Has(rx', y) => Has(rx, y) \/ Has(down, y)
            /\ Once(rx, y) /\ Once(down, y) => Once(rx', y) /\ Once(down', y)
            /\ ~(Has(rx, y) /\ Has(down, y)) => ~(Has(rx', y) /\ Has(down', y))
            /\ Has(down', y) => Has(down, y),
         \/ UNCHANGED <<asked, sends>>
         \/ ~asked' /\ sends' = 0 /\ ~Has(rx', "IP_REPLY") /\ ~Has(down', "IP_REPLY"),
         \/ Alive' = Alive \/ Alive'
         \/ ~asked' /\ ~Has(rx', "IP_REPLY") /\ ~Has(down', "IP_REPLY")
  PROVE  AnswersInv'
<1>. SUFFICES ASSUME streams' \/ at'["start"] = "idle" PROVE (ConfigInv /\ StateInv /\ ContentInv)'
  BY DEF AnswersInv
<1>1. ConfigInv /\ StateInv /\ ContentInv
  BY DEF AnswersInv
<1>2. ConfigInv'
  BY <1>1 DEF ConfigInv, Pending
<1>3. StateInv'
  BY <1>1 DEF StateInv
<1>4. ContentInv'
  BY <1>1 DEF ContentInv, Counters
<1>. QED
  BY <1>2, <1>3, <1>4

LEMMA WorldAnswers ==
  ASSUME MailInv, AnswersInv, Server \/ Tick, UNCHANGED <<at, reads>> PROVE AnswersInv'
<1>1. UNCHANGED <<npc, rx, cmds, answers, streams>>
  BY DEF Server, ServerReply, ServerSend, ServerLeaves, Tick, loop, server, shared
<1>2. CASE ServerReply
  <2>. SUFFICES ASSUME streams \/ at["start"] = "idle" PROVE (ConfigInv /\ StateInv /\ ContentInv)'
    BY <1>1 DEF AnswersInv
  <2>1. ConfigInv /\ StateInv /\ ContentInv
    BY DEF AnswersInv
  <2>2. asked /\ sends = 0 /\ sends' = 1 /\ asked' = asked /\ down' = Append(down, "IP_REPLY")
    BY <1>2 DEF ServerReply
  <2>3. /\ Has(down', "IP_REPLY")
        /\ Once(down, "IP_REPLY") /\ ~Has(down, "IP_REPLY") => Once(down', "IP_REPLY")
    BY <2>2, HasAppended DEF MailInv, Mail
  <2>4. ConfigInv'
    BY <1>1, <2>1, <2>2, <2>3 DEF ConfigInv, Pending, Alive
  <2>5. StateInv' /\ ContentInv'
    BY <1>1, <2>1 DEF StateInv, ContentInv, Counters
  <2>. QED
    BY <2>4, <2>5
<1>3. CASE ServerSend
  <2>. SUFFICES ASSUME streams \/ at["start"] = "idle" PROVE (ConfigInv /\ StateInv /\ ContentInv)'
    BY <1>1 DEF AnswersInv
  <2>1. ConfigInv /\ StateInv /\ ContentInv
    BY DEF AnswersInv
  <2>3. /\ sends # 0 /\ sends' # 0 /\ asked' = asked /\ down' = Append(down, "later")
        /\ "later" \in Mail
    BY <1>3 DEF ServerSend, Mail
  <2>4. /\ Has(down', "IP_REPLY") <=> Has(down, "IP_REPLY")
        /\ Once(down, "IP_REPLY") => Once(down', "IP_REPLY")
    BY <2>3, HasAppended DEF MailInv
  <2>5. ConfigInv'
    BY <1>1, <2>1, <2>3, <2>4 DEF ConfigInv, Pending, Alive
  <2>6. StateInv' /\ ContentInv'
    BY <1>1, <2>1 DEF StateInv, ContentInv, Counters
  <2>. QED
    BY <2>5, <2>6
<1>4. CASE Tick \/ \E how \in {"fin", "rst"} : ServerLeaves(how)
  <2>1. UNCHANGED <<asked, sends, down>>
    BY <1>4 DEF Tick, ServerLeaves, server
  <2>. QED
    BY <1>1, <2>1, LessOnItsWay DEF Alive
<1>. QED
  BY <1>2, <1>3, <1>4 DEF Server

LEMMA ClientAnswers ==
  ASSUME IInv, MailInv, AnswersInv, Client, UNCHANGED <<at, reads>> PROVE AnswersInv'
<1>1. /\ cmds \in Seq(Commands) /\ rx \in Seq(Mail) /\ down \in Seq(Mail) /\ streams' = streams
      /\ rx # <<>> => npc = "loop"
  BY DEF IInv, CountsInv, MailInv, BufferInv, Client, Connect, ConnectFails, Poll, PollFails, Recv,
         RecvNothing, RecvError, IpReply, HeartbeatReceived, Spins, PacketRecv, MessageFails,
         CommandFails, FetchConfig, SetTun, SetTunByte, FetchState, Tunnel, TunnelFails, NativeEnds,
         shared
<1>2. CASE NativeEnds
  <2>1. /\ cmds' = <<>> /\ rx' = <<>> /\ down' = <<>> /\ ~asked' /\ sends' = 0
        /\ UNCHANGED answers
    BY <1>2 DEF NativeEnds
  <2>. QED
    BY <1>1, <2>1, HasNothing, LessOnItsWay
<1>12. CASE Spins
  <2>1. UNCHANGED <<cmds, rx, down, asked, sends, answers, npc>>
    BY <1>12 DEF Spins, server, shared
  <2>. QED
    BY <1>1, <2>1, LessOnItsWay DEF Alive
<1>3. CASE Connect \/ Poll \/ RecvNothing \/ Tunnel
  <2>1. UNCHANGED <<cmds, down, asked, sends, answers>> /\ Alive' /\ (rx' = rx \/ rx' = <<>>)
    BY <1>3 DEF Connect, Poll, RecvNothing, Tunnel, At, Handled, server, shared, Alive
  <2>. QED
    BY <1>1, <2>1, HasNothing, LessOnItsWay
<1>4. CASE Recv
  <2>1. /\ UNCHANGED <<cmds, asked, sends, answers, npc>>
        /\ rx = <<>> /\ down' = <<>>
    BY <1>4 DEF Recv, shared
  <2>2. /\ Has(rx', "IP_REPLY") <=> Has(down, "IP_REPLY")
        /\ Once(down, "IP_REPLY") => Once(rx', "IP_REPLY")
    <3>1. /\ Len(rx') = Len(down)
          /\ \A i \in 1 .. Len(down) : rx'[i] = "IP_REPLY" <=> down[i] = "IP_REPLY"
      BY <1>4, Arrival
    <3>. QED
      BY <3>1 DEF Has, Once
  <2>. QED
    BY <1>1, <2>1, <2>2, HasNothing, LessOnItsWay DEF Alive
<1>5. CASE HeartbeatReceived \/ PacketRecv
  <2>1. /\ UNCHANGED <<cmds, down, asked, sends, answers>>
        /\ rx # <<>> /\ rx' = Tail(rx)
    BY <1>5 DEF HeartbeatReceived, PacketRecv, Received, server, shared
  <2>2. \A y : (Has(rx', y) => Has(rx, y)) /\ (Once(rx, y) => Once(rx', y))
    BY <1>1, <2>1, HasTaken
  <2>3. npc = "loop" /\ npc' = "loop"
    BY <1>1, <1>5, <2>1 DEF HeartbeatReceived, PacketRecv, Received, Handled
  <2>. QED
    BY <1>1, <2>1, <2>2, <2>3, LessOnItsWay DEF Alive
<1>6. CASE SetTun \/ SetTunByte
  <2>1. /\ UNCHANGED <<rx, down, asked, sends, answers>> /\ Alive'
        /\ cmds # <<>> /\ cmds' = Tail(cmds)
    BY <1>6 DEF SetTun, SetTunByte, Command, Handled, server, Alive
  <2>2. \A y : (Has(cmds', y) => Has(cmds, y)) /\ (Once(cmds, y) => Once(cmds', y))
    BY <1>1, <2>1, HasTaken
  <2>. QED
    BY <1>1, <2>1, <2>2, LessOnItsWay
<1>. SUFFICES ASSUME streams \/ at["start"] = "idle"
              PROVE  \/ NativeEnds
                     \/ HeartbeatReceived \/ Spins \/ PacketRecv \/ SetTun \/ SetTunByte \/ Recv
                     \/ Connect \/ Poll \/ RecvNothing \/ Tunnel
                     \/ (ConfigInv /\ StateInv /\ ContentInv)'
  BY <1>1, <1>2, <1>3, <1>4, <1>5, <1>6, <1>12 DEF AnswersInv
<1>7. ConfigInv /\ StateInv /\ ContentInv
  BY DEF AnswersInv
<1>8. CASE IpReply
  <2>1. /\ rx # <<>> /\ Head(rx) = "IP_REPLY" /\ rx' = Tail(rx)
        /\ UNCHANGED <<cmds, down, asked, sends>>
        /\ answers' = answers \o <<"addresses", "socketFd">>
    BY <1>8 DEF IpReply, Received, server
  <2>2. Has(rx, "IP_REPLY") /\ (Once(rx, "IP_REPLY") => Once(rx', "IP_REPLY"))
        /\ (Once(rx, "IP_REPLY") => ~Has(rx', "IP_REPLY"))
    BY <1>1, <2>1, HasTaken
  <2>3. at["start"] = "addresses" /\ answers = <<>> /\ sends # 0
    BY <1>7, <2>2 DEF ConfigInv, Pending
  <2>4. answers' = <<"addresses", "socketFd">>
    BY <2>1, <2>3
  <2>5. ~Pending'
    BY <1>7, <2>1, <2>2, <2>3 DEF ConfigInv, Pending
  <2>6. ConfigInv'
    <3>1. Alive'
      BY <1>1, <1>8, <2>1 DEF IpReply, Received, Handled, Alive
    <3>2. ~Has(down', "IP_REPLY")
      BY <1>7, <2>1, <2>2 DEF ConfigInv
    <3>. QED
      BY <1>7, <2>1, <2>2, <2>3, <2>5, <3>1, <3>2 DEF ConfigInv
  <2>7. at["timer"] # "read"
    BY <2>3 DEF IInv, AloneInv, Connecting
  <2>8. StateInv'
    BY <1>7, <2>1, <2>7 DEF StateInv
  <2>9. ContentInv'
    BY <2>3, <2>4 DEF ContentInv
  <2>. QED
    BY <2>6, <2>8, <2>9
<1>9. CASE FetchConfig
  <2>1. /\ cmds # <<>> /\ Head(cmds) = "FETCH_CONFIG" /\ cmds' = Tail(cmds) /\ asked'
        /\ UNCHANGED <<rx, down, sends, answers>> /\ npc = "loop" /\ npc' = "loop"
    BY <1>9 DEF FetchConfig, Command, At, Handled
  <2>2. /\ Has(cmds, "FETCH_CONFIG")
        /\ Once(cmds, "FETCH_CONFIG") => Once(cmds', "FETCH_CONFIG") /\ ~Has(cmds', "FETCH_CONFIG")
        /\ Has(cmds', "FETCH_STATE") => Has(cmds, "FETCH_STATE")
        /\ Once(cmds, "FETCH_STATE") => Once(cmds', "FETCH_STATE")
    BY <1>1, <2>1, HasTaken
  <2>3. ConfigInv'
    BY <1>7, <2>1, <2>2 DEF ConfigInv, Pending, Alive
  <2>4. StateInv'
    BY <1>7, <2>1, <2>2 DEF StateInv
  <2>5. ContentInv'
    BY <1>7, <2>1 DEF ContentInv, Counters
  <2>. QED
    BY <2>3, <2>4, <2>5
<1>10. CASE FetchState
  <2>1. /\ cmds # <<>> /\ Head(cmds) = "FETCH_STATE" /\ cmds' = Tail(cmds)
        /\ answers' = answers \o Counters
        /\ UNCHANGED <<rx, down, asked, sends>> /\ npc = "loop" /\ npc' = "loop"
    BY <1>10 DEF FetchState, Command, At, Handled, server
  <2>2. /\ Has(cmds, "FETCH_STATE")
        /\ Once(cmds, "FETCH_STATE") => Once(cmds', "FETCH_STATE") /\ ~Has(cmds', "FETCH_STATE")
        /\ Has(cmds', "FETCH_CONFIG") => Has(cmds, "FETCH_CONFIG")
        /\ Once(cmds, "FETCH_CONFIG") => Once(cmds', "FETCH_CONFIG")
    BY <1>1, <2>1, HasTaken
  <2>3. at["timer"] = "read" /\ reads = 0 /\ answers = <<>>
    BY <1>7, <2>2 DEF StateInv
  <2>4. at["start"] \notin Connecting
    BY <2>3 DEF IInv, AloneInv
  <2>5. ~Pending /\ ~Pending'
    BY <1>7, <2>1, <2>2, <2>4 DEF ConfigInv, Pending, Connecting
  <2>6. ConfigInv'
    BY <1>7, <2>1, <2>2, <2>4, <2>5 DEF ConfigInv, Alive, Connecting
  <2>7. StateInv'
    BY <1>7, <2>2, <2>3 DEF StateInv
  <2>8. answers' = Counters /\ Counters' = Counters
    BY <2>1, <2>3, CountersDistinct DEF Counters
  <2>9. ContentInv'
    <3>1. Counters \in Seq({"addresses", "socketFd"} \cup {Counters[i] : i \in 1 .. Longs})
      BY CountersDistinct
    <3>2. /\ Len(Counters) = Longs - reads
          /\ \A i \in 1 .. Len(Counters) : Counters[i] = Counters[reads + i]
      BY <2>3, CountersDistinct, ClientAssumption
    <3>. QED
      BY <2>3, <2>8, <3>1, <3>2 DEF ContentInv
  <2>. QED
    BY <2>6, <2>7, <2>9
<1>11. CASE ConnectFails \/ PollFails \/ RecvError \/ MessageFails \/ CommandFails \/ TunnelFails
  BY <1>11 DEF ConnectFails, PollFails, RecvError, MessageFails, CommandFails, TunnelFails
<1>. QED
  BY <1>8, <1>9, <1>10, <1>11 DEF Client

\* A step of the service that reads no answer and asks for none.
Early == {"idle", "ask", "addresses", "socketFd"}

LEMMA ServiceMoves ==
  ASSUME IInv, AnswersInv, UNCHANGED <<npc, rx, down, asked, sends, answers, reads>>,
         streams' => streams,
         cmds' = cmds \/ \E b \in {"SET_TUN", "BYTE", "EXIT"} : cmds' = Append(cmds, b),
         \/ at'["timer"] = at["timer"]
         \/ at["timer"] # "read" /\ at'["timer"] # "read",
         \/ at'["start"] = at["start"]
         \/ /\ at'["start"] \notin Early
            /\ streams' => ~Pending /\ (at["start"] \in {"addresses", "socketFd"} => answers = <<>>)
  PROVE  AnswersInv'
<1>. SUFFICES ASSUME streams' \/ at'["start"] = "idle" PROVE (ConfigInv /\ StateInv /\ ContentInv)'
  BY DEF AnswersInv
<1>1. ConfigInv /\ StateInv /\ ContentInv
  BY DEF AnswersInv, Early
<1>2. /\ Has(cmds', "FETCH_CONFIG") <=> Has(cmds, "FETCH_CONFIG")
      /\ Has(cmds', "FETCH_STATE") <=> Has(cmds, "FETCH_STATE")
      /\ Once(cmds, "FETCH_CONFIG") => Once(cmds', "FETCH_CONFIG")
      /\ Once(cmds, "FETCH_STATE") => Once(cmds', "FETCH_STATE")
  <2>1. CASE cmds' = cmds
    BY <2>1
  <2>2. CASE \E b \in {"SET_TUN", "BYTE", "EXIT"} : cmds' = Append(cmds, b)
    <3>1. PICK b \in {"SET_TUN", "BYTE", "EXIT"} : cmds' = Append(cmds, b)
      BY <2>2
    <3>2. cmds \in Seq(Commands) /\ b \in Commands /\ b \notin {"FETCH_CONFIG", "FETCH_STATE"}
      BY DEF IInv, CountsInv, Commands
    <3>. QED
      BY <3>1, <3>2, HasAppended
  <2>. QED
    BY <2>1, <2>2
<1>3. (Pending' <=> Pending) /\ (Alive' <=> Alive)
  BY <1>2 DEF Pending, Alive
<1>4. ConfigInv'
  BY <1>1, <1>2, <1>3 DEF ConfigInv, Early
<1>5. StateInv'
  BY <1>1, <1>2 DEF StateInv
<1>6. ContentInv'
  BY <1>1 DEF ContentInv, Counters, Early
<1>. QED
  BY <1>4, <1>5, <1>6

LEMMA NullUsedAnswers ==
  ASSUME NEW p, NEW from, NEW field, NullUsed(p, from, field) PROVE AnswersInv'
  BY DEF NullUsed, NativeDies, AnswersInv, Threads

LEMMA StopVPNAnswers ==
  ASSUME IInv, AnswersInv, NEW p \in {"stop", "timer", "main"}, StopVPN(p) PROVE AnswersInv'
<1>1. CASE \/ NullUsed(p, "cancel", timer) \/ NullUsed(p, "isAlive", vpnThread)
           \/ NullUsed(p, "join", vpnThread) \/ NullUsed(p, "closeInterface", vpnInterface)
  BY <1>1, NullUsedAnswers
<1>2. CASE ~ \/ NullUsed(p, "cancel", timer) \/ NullUsed(p, "isAlive", vpnThread)
             \/ NullUsed(p, "join", vpnThread) \/ NullUsed(p, "closeInterface", vpnInterface)
  <2>1. PICK from \in Places, to \in Places : Go(p, from, to) /\ from # "read" /\ to # "read"
    BY <1>2 DEF StopVPN, Joined, Test, OnlyMoves, Places
  <2>2. at'["start"] = at["start"] /\ (p # "timer" => at'["timer"] = at["timer"])
        /\ (p = "timer" => at["timer"] # "read" /\ at'["timer"] # "read")
    BY <2>1 DEF Go, IInv, CountsInv, Threads
  <2>3. /\ UNCHANGED <<npc, rx, down, asked, sends, reads>> /\ (streams' => streams)
        /\ streams' => UNCHANGED answers
        /\ cmds' = cmds \/ cmds' = Append(cmds, "EXIT")
    BY <1>2 DEF StopVPN, Joined, Test, OnlyMoves, Send, clientVars, loop, server, shared, local
  <2>4. CASE streams'
    BY <2>2, <2>3, <2>4, ServiceMoves
  <2>5. CASE ~streams'
    <3>1. at[p] \notin {"idle", "forget", "showAlive"}
      BY <1>2 DEF StopVPN, Joined, Test, OnlyMoves, Go
    <3>2. at["start"] # "idle"
      BY <3>1 DEF IInv, AloneInv, Connecting
    <3>. QED
      BY <2>2, <2>5, <3>2 DEF AnswersInv
  <2>. QED
    BY <2>4, <2>5
<1>. QED
  BY <1>1, <1>2

\* StopSelf, broadcastState, and the other steps that only lead on.
LEMMA OthersAnswer ==
  ASSUME IInv, AnswersInv,
         \/ \E p \in {"stop", "timer", "main"} : StopSelf(p)
         \/ \E p \in {"start", "stop", "timer"} : ShowAlive(p)
         \/ TimerFires \/ TimerCheck \/ Stop \/ Forget
  PROVE  AnswersInv'
<1>1. ASSUME NEW p \in {"start", "stop", "timer"}, NullUsed(p, "showAlive", vpnThread)
      PROVE  AnswersInv'
  BY <1>1, NullUsedAnswers
<1>2. at \in [Threads -> Places]
  BY DEF IInv, CountsInv
<1>3. CASE \E p \in {"start", "stop", "timer"} : vpnThread /\ OnlyMoves(p, "showAlive", Last[p])
  <2>1. PICK p \in {"start", "stop", "timer"} : OnlyMoves(p, "showAlive", Last[p])
    BY <1>3
  <2>2. UNCHANGED <<npc, rx, down, asked, sends, answers, reads, streams, cmds>>
    BY <2>1 DEF OnlyMoves, clientVars, loop, server, shared, local
  <2>3. at[p] = "showAlive" /\ at' = [at EXCEPT ![p] = Last[p]] /\ Last[p] \in {"done", "idle"}
        /\ (p = "start" => Last[p] = "done")
    BY <2>1 DEF OnlyMoves, Go, Last
  <2>4. at'["timer"] = at["timer"] \/ (at["timer"] # "read" /\ at'["timer"] # "read")
    BY <1>2, <2>3 DEF Threads
  <2>5. CASE p = "start"
    <3>1. streams => ~Pending
      BY <2>3, <2>5 DEF AnswersInv, ConfigInv
    <3>2. at'["start"] = "done" /\ at["start"] = "showAlive"
      BY <1>2, <2>3, <2>5 DEF Threads
    <3>. QED
      BY <2>2, <2>4, <3>1, <3>2, ServiceMoves DEF Early
  <2>6. CASE p # "start"
    <3>1. at'["start"] = at["start"]
      BY <1>2, <2>3, <2>6 DEF Threads
    <3>. QED
      BY <2>2, <2>4, <3>1, ServiceMoves
  <2>. QED
    BY <2>5, <2>6
<1>4. CASE \/ \E p \in {"stop", "timer", "main"} : StopSelf(p)
           \/ TimerFires \/ TimerCheck \/ Stop \/ Forget
  <2>1. UNCHANGED <<npc, rx, down, asked, sends, answers, reads, streams, cmds>>
    BY <1>4 DEF StopSelf, TimerFires, TimerCheck, Stop, Forget, Test, OnlyMoves, clientVars, loop,
                server, shared, local
  <2>2. Show("timer") \in {"showAlive", "idle"}
    BY DEF Show, Last
  <2>3. /\ at'["start"] = at["start"]
        /\ at'["timer"] = at["timer"] \/ (at["timer"] # "read" /\ at'["timer"] # "read")
    BY <1>2, <1>4, <2>2
    DEF StopSelf, TimerFires, TimerCheck, Stop, Forget, Test, OnlyMoves, Go, Threads
  <2>. QED
    BY <2>1, <2>3, ServiceMoves
<1>. QED
  BY <1>1, <1>3, <1>4 DEF ShowAlive

LEMMA StartingAnswers ==
  ASSUME IInv, AnswersInv, Starting PROVE AnswersInv'
<1>1. /\ at \in [Threads -> Places] /\ cmds \in Seq(Commands)
      /\ ~Alive => cmds = <<>>
  BY DEF IInv, CountsInv, PipeInv
<1>2. CASE StartThread
  <2>1. /\ at["start"] = "idle" /\ at' = [at EXCEPT !["start"] = "ask"] /\ Alive'
        /\ UNCHANGED <<rx, down, asked, sends, answers, reads, cmds>>
    BY <1>2 DEF StartThread, Go, server, local, Alive
  <2>2. /\ ConfigInv /\ StateInv /\ ContentInv /\ at["timer"] = "idle"
    BY <2>1 DEF AnswersInv, IInv, AloneInv, Connecting
  <2>3. at'["start"] = "ask" /\ at'["timer"] = "idle"
    BY <1>1, <2>1, <2>2 DEF Threads
  <2>4. ConfigInv'
    BY <2>1, <2>2, <2>3 DEF ConfigInv, Pending
  <2>5. StateInv' /\ ContentInv'
    BY <2>1, <2>2, <2>3 DEF StateInv, ContentInv, Counters
  <2>. QED
    BY <2>4, <2>5 DEF AnswersInv
<1>3. CASE Ask
  <2>1. /\ at["start"] = "ask" /\ at' = [at EXCEPT !["start"] = "addresses"] /\ streams /\ Alive
        /\ cmds' = Append(cmds, "FETCH_CONFIG")
        /\ UNCHANGED <<npc, rx, down, asked, sends, answers, reads>>
    BY <1>3 DEF Ask, Go, Send, PipeOpen, loop, server, local
  <2>2. /\ ConfigInv /\ StateInv /\ ContentInv /\ at["timer"] = "idle"
    BY <2>1 DEF AnswersInv, IInv, AloneInv, Connecting
  <2>3. at'["start"] = "addresses" /\ at'["timer"] = "idle"
    BY <1>1, <2>1, <2>2 DEF Threads
  <2>4. answers = <<>> /\ ~Pending /\ ~asked /\ sends = 0
    BY <2>1, <2>2 DEF ContentInv, ConfigInv
  <2>5. /\ Has(cmds', "FETCH_STATE") <=> Has(cmds, "FETCH_STATE")
        /\ Once(cmds, "FETCH_STATE") => Once(cmds', "FETCH_STATE")
        /\ Once(cmds', "FETCH_CONFIG")
    BY <1>1, <2>1, <2>2, <2>4, HasAppended DEF Commands, ConfigInv, Pending
  <2>6. ConfigInv'
    BY <2>1, <2>2, <2>3, <2>4, <2>5 DEF ConfigInv, Pending, Alive
  <2>7. StateInv' /\ ContentInv'
    BY <2>1, <2>2, <2>3, <2>4, <2>5 DEF StateInv, ContentInv, Counters
  <2>. QED
    BY <2>6, <2>7 DEF AnswersInv
<1>4. CASE ReadConfig
  <2>1. /\ answers # <<>> /\ answers' = Tail(answers) /\ streams
        /\ UNCHANGED <<npc, rx, down, asked, sends, cmds, reads>>
        /\ \/ at["start"] = "addresses" /\ at' = [at EXCEPT !["start"] = "socketFd"]
           \/ at["start"] = "socketFd" /\ at' = [at EXCEPT !["start"] = "establish"]
    BY <1>4 DEF ReadConfig, Go, Take, loop, server, local
  <2>2. /\ ConfigInv /\ StateInv /\ ContentInv /\ at["timer"] = "idle"
    BY <2>1 DEF AnswersInv, IInv, AloneInv, Connecting
  <2>3. at'["timer"] = "idle" /\ at'["start"] \in {"socketFd", "establish"}
        /\ (at["start"] = "addresses" <=> at'["start"] = "socketFd")
    BY <1>1, <2>1, <2>2 DEF Threads
  <2>4. ~Pending /\ ~Has(cmds, "FETCH_STATE")
    BY <2>1, <2>2 DEF ConfigInv, StateInv
  <2>5. ConfigInv'
    BY <2>1, <2>2, <2>3, <2>4 DEF ConfigInv, Pending, Alive
  <2>6. StateInv'
    BY <2>1, <2>2, <2>3, <2>4 DEF StateInv
  <2>7. ContentInv'
    <3>1. /\ answers' \in Seq({"addresses", "socketFd"} \cup {Counters[i] : i \in 1 .. Longs})
          /\ Len(answers') = Len(answers) - 1
          /\ \A i \in 1 .. Len(answers') : answers'[i] = answers[i + 1]
      BY <2>1, <2>2 DEF ContentInv
    <3>2. CASE at["start"] = "addresses"
      <4>1. Len(answers) = 2 /\ answers[2] = "socketFd"
        BY <2>1, <2>2, <3>2 DEF ContentInv
      <4>2. Len(answers') = 1 /\ answers'[1] = "socketFd"
        BY <3>1, <4>1
      <4>. QED
        BY <2>3, <3>1, <3>2, <4>2 DEF ContentInv, Counters
    <3>3. CASE at["start"] = "socketFd"
      <4>1. Len(answers) = 1
        BY <2>1, <2>2, <3>3 DEF ContentInv
      <4>2. answers' = <<>>
        BY <2>1, <2>2, <4>1 DEF ContentInv
      <4>. QED
        BY <4>2 DEF ContentInv
    <3>. QED
      BY <2>1, <3>2, <3>3
  <2>. QED
    BY <2>5, <2>6, <2>7 DEF AnswersInv
<1>5. CASE ReadSocketFdEnds
  <2>1. /\ at["start"] = "socketFd" /\ at' = [at EXCEPT !["start"] = "establish"] /\ answers = <<>>
        /\ UNCHANGED <<npc, rx, down, asked, sends, answers, reads, streams, cmds>>
    BY <1>5 DEF ReadSocketFdEnds, EndOfAnswers, OnlyMoves, Go, clientVars, loop, server, shared,
                local
  <2>2. at'["start"] = "establish" /\ at'["timer"] = at["timer"] /\ (streams => ~Pending)
    BY <1>1, <2>1 DEF Threads, AnswersInv, ConfigInv
  <2>. QED
    BY <2>1, <2>2, ServiceMoves DEF Early
<1>6. CASE Establish \/ WriteSetTun \/ WriteInt \/ Schedule \/ SetInstance
  <2>1. /\ UNCHANGED <<npc, rx, down, asked, sends, answers, reads, streams>>
        /\ cmds' = cmds \/ \E b \in {"SET_TUN", "BYTE"} : cmds' = Append(cmds, b)
    BY <1>6 DEF Establish, WriteSetTun, WriteInt, Schedule, SetInstance, Send, clientVars, loop,
                server, shared, local
  <2>2. Show("start") \in {"showAlive", "done"}
    BY DEF Show, Last
  <2>3. PICK to \in {"setTun", "writeInt", "schedule", "instance", "showAlive", "done"} :
          at["start"] \notin Early /\ at' = [at EXCEPT !["start"] = to]
    BY <1>6, <2>2 DEF Establish, WriteSetTun, WriteInt, Schedule, SetInstance, Go, Early
  <2>4. at'["start"] \notin Early /\ at'["timer"] = at["timer"]
    BY <1>1, <2>3 DEF Threads, Early
  <2>5. streams => ~Pending
    BY <2>3 DEF AnswersInv, ConfigInv, Early
  <2>. QED
    BY <2>1, <2>3, <2>4, <2>5, ServiceMoves DEF Early
<1>7. CASE StartFails
  <2>1. /\ at' = [at EXCEPT !["start"] = "instance"]
        /\ at["start"] \in {"ask", "setTun", "writeInt", "addresses", "socketFd"}
        /\ at["start"] \in {"ask", "addresses"} /\ streams => ~Alive
        /\ at["start"] = "addresses" /\ streams => answers = <<>>
        /\ at["start"] = "socketFd" => ~streams
        /\ UNCHANGED <<npc, rx, down, asked, sends, answers, reads, streams, cmds>>
    BY <1>7 DEF StartFails, PipeOpen, EndOfAnswers, clientVars, loop, server, shared, local
  <2>2. at'["start"] = "instance" /\ at'["timer"] = at["timer"]
    BY <1>1, <2>1 DEF Threads
  <2>3. streams => ~Pending
    BY <1>1, <2>1, HasNothing DEF AnswersInv, ConfigInv, Pending
  <2>. QED
    BY <2>1, <2>2, <2>3, ServiceMoves DEF Early
<1>8. CASE ShowAlive("start")
  BY <1>8, OthersAnswer
<1>9. CASE NullUsed("start", "writeInt", vpnInterface)
  BY <1>9, NullUsedAnswers
<1>. QED
  BY <1>2, <1>3, <1>4, <1>5, <1>6, <1>7, <1>8, <1>9 DEF Starting

LEMMA TaskAnswers ==
  ASSUME IInv, AnswersInv, Task PROVE AnswersInv'
<1>1. /\ at \in [Threads -> Places] /\ cmds \in Seq(Commands)
      /\ ~Alive => cmds = <<>>
  BY DEF IInv, CountsInv, PipeInv
<1>2. Show("timer") \in {"showAlive", "idle"}
  BY DEF Show, Last
<1>3. CASE Fetch
  <2>1. /\ at["timer"] = "fetch" /\ at' = [at EXCEPT !["timer"] = "read"] /\ streams /\ streams'
        /\ cmds' = Append(cmds, "FETCH_STATE")
        /\ UNCHANGED <<npc, rx, down, asked, sends, answers, reads>>
    BY <1>3 DEF Fetch, Go, Send, PipeOpen, loop, server, local
  <2>2. ConfigInv /\ StateInv /\ ContentInv /\ at["start"] \notin Connecting
    BY <2>1 DEF AnswersInv, IInv, AloneInv
  <2>3. at'["start"] = at["start"] /\ at'["timer"] = "read"
    BY <1>1, <2>1 DEF Threads
  <2>4. answers = <<>> /\ reads = 0 /\ ~Has(cmds, "FETCH_STATE") /\ ~Pending
    BY <2>1, <2>2 DEF ContentInv, StateInv, ConfigInv, Connecting
  <2>5. /\ Has(cmds', "FETCH_CONFIG") <=> Has(cmds, "FETCH_CONFIG")
        /\ Once(cmds, "FETCH_CONFIG") => Once(cmds', "FETCH_CONFIG")
        /\ Once(cmds', "FETCH_STATE")
    BY <1>1, <2>1, <2>2, <2>4, HasAppended DEF Commands, StateInv
  <2>6. ConfigInv'
    BY <2>1, <2>2, <2>3, <2>4, <2>5 DEF ConfigInv, Pending, Alive
  <2>7. StateInv' /\ ContentInv'
    BY <2>1, <2>2, <2>3, <2>4, <2>5 DEF StateInv, ContentInv, Counters
  <2>. QED
    BY <2>6, <2>7 DEF AnswersInv
<1>4. CASE ReadCounter \/ ReadCounterEnds
  <2>1. /\ at["timer"] = "read" /\ streams /\ reads' = (reads + 1) % Longs
        /\ at' = [at EXCEPT !["timer"] = IF reads' = 0 THEN Show("timer") ELSE "read"]
        /\ UNCHANGED <<npc, rx, down, asked, sends, cmds, streams>>
        /\ \/ answers # <<>> /\ answers' = Tail(answers)
           \/ answers = <<>> /\ answers' = <<>> /\ ~Alive
    BY <1>4 DEF ReadCounter, ReadCounterEnds, NextRead, Take, EndOfAnswers, Go, loop, server,
                shared, clientVars, local
  <2>2. ConfigInv /\ StateInv /\ ContentInv /\ at["start"] \notin Connecting
    BY <2>1 DEF AnswersInv, IInv, AloneInv
  <2>3. at'["start"] = at["start"] /\ (at'["timer"] = "read" <=> reads' # 0)
    BY <1>1, <1>2, <2>1 DEF Threads
  <2>4. ~Has(cmds, "FETCH_STATE") /\ ~Pending
    BY <1>1, <2>1, <2>2, HasNothing DEF StateInv, ConfigInv, Connecting
  <2>5. reads \in 0 .. Longs - 1 /\ reads' = (IF reads + 1 = Longs THEN 0 ELSE reads + 1)
    BY <2>1, <2>2, NextValue DEF StateInv
  <2>6. ConfigInv'
    BY <2>1, <2>2, <2>3, <2>4 DEF ConfigInv, Pending, Alive
  <2>7. StateInv'
    BY <2>1, <2>2, <2>3, <2>4, <2>5, ClientAssumption DEF StateInv
  <2>8. CASE answers = <<>>
    <3>1. ContentInv'
      BY <2>1, <2>8 DEF ContentInv
    <3>. QED
      BY <2>6, <2>7, <3>1 DEF AnswersInv
  <2>9. CASE answers # <<>>
    <3>1. /\ Len(answers) = Longs - reads
          /\ \A i \in 1 .. Len(answers) : answers[i] = Counters[reads + i]
      BY <2>2, <2>9 DEF ContentInv, Connecting
    <3>2. /\ answers' \in Seq({"addresses", "socketFd"} \cup {Counters[i] : i \in 1 .. Longs})
          /\ Len(answers') = Len(answers) - 1
          /\ \A i \in 1 .. Len(answers') : answers'[i] = answers[i + 1]
      <4>. DEFINE V == {"addresses", "socketFd"} \cup {Counters[i] : i \in 1 .. Longs}
      <4>1. answers' = Tail(answers)
        BY <2>1, <2>9
      <4>2. answers \in Seq(V)
        BY <2>2 DEF ContentInv
      <4>. HIDE DEF V
      <4>3. /\ answers' \in Seq(V) /\ Len(answers') = Len(answers) - 1
            /\ \A i \in 1 .. Len(answers') : answers'[i] = answers[i + 1]
        BY <2>9, <4>1, <4>2
      <4>. QED
        BY <4>3 DEF V
    <3>3. CASE reads + 1 = Longs
      <4>1. Len(answers) = 1
        BY <2>5, <3>1, <3>3
      <4>2. answers' = <<>>
        BY <2>1, <2>2, <2>9, <4>1 DEF ContentInv
      <4>3. ContentInv'
        BY <4>2 DEF ContentInv
      <4>. QED
        BY <2>6, <2>7, <4>3 DEF AnswersInv
    <3>4. CASE reads + 1 # Longs
      <4>1. reads' = reads + 1 /\ reads' # 0 /\ Len(answers') = Longs - reads'
        BY <2>5, <3>1, <3>2, <3>4, ClientAssumption
      <4>2. ASSUME NEW i \in 1 .. Len(answers') PROVE answers'[i] = Counters[reads' + i]
        <5>1. i + 1 \in 1 .. Len(answers) /\ reads + (i + 1) = reads' + i
          BY <2>5, <3>1, <3>2, <4>1, ClientAssumption
        <5>2. answers'[i] = answers[i + 1]
          BY <3>2
        <5>. QED
          BY <3>1, <5>1, <5>2
      <4>3. ContentInv'
        BY <2>3, <3>2, <4>1, <4>2 DEF ContentInv, Counters
      <4>. QED
        BY <2>6, <2>7, <4>3 DEF AnswersInv
    <3>. QED
      BY <3>3, <3>4
  <2>. QED
    BY <2>8, <2>9
<1>5. CASE FetchFails
  <2>1. /\ at["timer"] \in {"fetch", "read"} /\ at' = [at EXCEPT !["timer"] = Show("timer")]
        /\ at["timer"] = "read" => ~streams
        /\ reads' = 0
        /\ UNCHANGED <<npc, rx, down, asked, sends, answers, streams, cmds>>
    BY <1>5 DEF FetchFails, clientVars, loop, server, shared
  <2>2. at'["start"] = at["start"] /\ at'["timer"] # "read" /\ at["start"] \notin Connecting
    BY <1>1, <1>2, <2>1 DEF Threads, IInv, AloneInv
  <2>3. CASE streams
    <3>1. reads' = reads
      BY <2>1, <2>3 DEF AnswersInv, StateInv
    <3>. QED
      BY <2>1, <2>2, <2>3, <3>1, ServiceMoves
  <2>4. CASE ~streams
    BY <2>1, <2>2, <2>4 DEF AnswersInv, Connecting
  <2>. QED
    BY <2>3, <2>4
<1>6. CASE TimerCheck \/ StopSelf("timer") \/ ShowAlive("timer")
  BY <1>6, OthersAnswer
<1>7. CASE NullUsed("timer", "check", vpnThread) \/ StopVPN("timer")
  BY <1>7, NullUsedAnswers, StopVPNAnswers
<1>. QED
  BY <1>3, <1>4, <1>5, <1>6, <1>7 DEF Task

LEMMA AnswersKept == IInv /\ MailInv /\ AnswersInv /\ [Next]_vars => AnswersInv'
<1>. SUFFICES ASSUME IInv, MailInv, AnswersInv, [Next]_vars PROVE AnswersInv'
  OBVIOUS
<1>1. CASE Native
  BY <1>1, ClientAnswers DEF Native, local
<1>2. CASE World
  BY <1>2, WorldAnswers DEF World, local
<1>3. CASE Starting
  BY <1>3, StartingAnswers
<1>4. CASE Task
  BY <1>4, TaskAnswers
<1>5. CASE TimerFires \/ Stop \/ Stopping \/ Destroying
  BY <1>5, OthersAnswer, StopVPNAnswers DEF Stopping, Destroying
<1>6. CASE UNCHANGED vars
  <2>1. /\ UNCHANGED <<npc, rx, down, asked, sends, answers, reads, streams, cmds, at>>
    BY <1>6 DEF vars, clientVars, loop, server, shared, local
  <2>. QED
    BY <2>1, ServiceMoves
<1>. QED
  BY <1>1, <1>2, <1>3, <1>4, <1>5, <1>6 DEF Next

\* START and the timer's task read what they have asked for, although answers carry
\* no type and both read the same pipe: the reply comes once, and whoever it is not
\* for has not asked yet.
THEOREM NoAnswerMistaken == Spec => []AnswersMatch
<1>1. Init => IInv /\ MailInv /\ AnswersInv
  BY InitInv, AnswersInit DEF Init, ClientInit, MailInv
<1>2. IInv /\ MailInv /\ AnswersInv /\ [Next]_vars => (IInv /\ MailInv /\ AnswersInv)'
  BY MailKeeps, NextInv, AnswersKept
<1>3. IInv /\ AnswersInv => AnswersMatch
  <2>. SUFFICES ASSUME IInv, AnswersInv, streams, answers # <<>>
                PROVE  /\ at["start"] \in {"addresses", "socketFd"} => Head(answers) = at["start"]
                       /\ at["timer"] = "read" => Head(answers) = Counters[reads + 1]
    BY DEF AnswersMatch
  <2>1. ContentInv /\ StateInv
    BY DEF AnswersInv
  <2>2. at["start"] \in {"addresses", "socketFd"} => at["timer"] # "read"
    BY DEF IInv, AloneInv, Connecting
  <2>3. Head(answers) = answers[1] /\ 1 \in 1 .. Len(answers)
    BY <2>1 DEF ContentInv
  <2>. QED
    BY <2>1, <2>2, <2>3 DEF ContentInv
<1>. QED
  BY <1>1, <1>2, <1>3, PTL DEF Spec

=============================================================================
