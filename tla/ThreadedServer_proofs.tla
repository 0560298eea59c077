----------------------- MODULE ThreadedServer_proofs -----------------------
(***************************************************************************)
(* Proofs about the threaded server, for any number of clients, addresses  *)
(* and descriptors and any traffic.                                        *)
(***************************************************************************)
EXTENDS ThreadedServer, WellFoundedInduction, TLAPS

\* getFreeIP and accept() take the least of what is free.
LEMMA LeastFree ==
  ASSUME NEW S \in SUBSET Nat, S # {} PROVE Min(S) \in S
<1>. DEFINE Less == {ss \in Nat \X Nat : ss[1] < ss[2]}
<1>1. IsWellFoundedOn(Less, Nat)
  BY NatLessThanWellFounded DEF OpToRel
<1>2. PICK x \in S : \A y \in S : ~(<<y, x>> \in Less)
  <2>. HIDE DEF Less
  <2>. QED
    BY <1>1, WFMin
<1>3. ASSUME NEW y \in S PROVE x =< y
  <2>1. y \in Nat /\ x \in Nat /\ ~(<<y, x>> \in Less)
    BY <1>2
  <2>2. y < x => <<y, x>> \in Less
    BY <2>1
  <2>. QED
    BY <2>1, <2>2
<1>. QED
  BY <1>3 DEF Min

---------------------------------------------------------------------------
(* Types.                                                                  *)

Places == {"none", "loop", "read", "handle", "data", "answer", "body", "mark", "set", "stuck",
           "end", "ended"}
Kind == {"request", "keepalive", "data", "body"}
Sender == {"address", "frame", "heartbeat"}
Part == {<<>>, Broken} \cup (Clients \X Sender)

\* The types of all variables.
Typed ==
    /\ process \in {"up", "assert", "terminated", "killed", "full"}
    /\ status \in [Addrs -> BOOLEAN]
    /\ connections \in [Addrs -> Clients \cup {None}]
    /\ ipMutex \in Clients \cup {None}
    /\ fd \in [Clients -> Fds]
    /\ file \in [Fds -> Clients \cup {None}]
    /\ ipv4 \in [Clients -> Addrs \cup {0}]
    /\ hb \in [Clients -> 0 .. Limit]
    /\ sender \in [Clients -> {None, "address", "frame"}]
    /\ wtSktQue \in [Clients -> Seq(Addrs)]
    /\ reader \in [Clients -> Places]
    /\ source \in [Clients -> Clients \cup {None}]
    /\ message \in [Clients -> Kind \cup {"unset", "reply"}]
    /\ writer \in [Clients -> {"none", "pop", "body", "ended"}]
    /\ keeper \in [Clients -> {"none", "loop", "test", "send", "close", "ended"}]
    /\ found = <<>> \/ found \in Addrs \X Clients
    /\ inbox \in [Clients -> Seq(Kind)]
    /\ peer \in [Clients -> {"away", "connected", "asked", "gone"}]
    /\ wire \in [Clients -> Part]
    /\ first \in [Clients -> {"nothing", "address", "frame"}]

\* A thread that reads, an entry of the table and a packet on its way are of a
\* connection whose threads were started; and a read() waits for a socket.
StartedInv ==
    /\ \A c \in Clients : writer[c] = "none" => reader[c] = "none" /\ wtSktQue[c] = <<>>
    /\ \A a \in Addrs : connections[a] # None => writer[connections[a]] # "none"
    /\ found # <<>> => writer[found[2]] # "none"
    /\ \A c \in Clients : reader[c] \in {"read", "data"} => source[c] # None
    /\ \A c \in Clients : peer[c] = "away" => reader[c] = "none"

IInv == Typed /\ StartedInv

LEMMA InitTyped == Init => IInv
  BY ThreadedAssumption DEF Init, IInv, Typed, StartedInv, Addrs, Fds, Places, Kind, Part

\* Where write() goes, and what it does.
LEMMA WriteTyped ==
  ASSUME Typed, NEW c \in Clients, NEW t \in Sender, NEW part \in {"header", "body", "whole"},
         NEW ok, t # "heartbeat" \/ part = "whole", Write(c, t, part, ok)
  PROVE  /\ process' \in {"up", "assert", "terminated", "killed", "full"}
         /\ wire' \in [Clients -> Part]
         /\ first' \in [Clients -> {"nothing", "address", "frame"}]
<1>1. file[fd[c]] \in Clients \cup {None}
  BY DEF Typed
<1>2. CASE file[fd[c]] = None
  BY <1>2 DEF Write, Typed, out
<1>3. CASE file[fd[c]] # None
  <2>. DEFINE k == file[fd[c]]
  <2>1. k \in Clients /\ wire' = [wire EXCEPT ![k] = Received(part, <<c, t>>, wire[k])]
    BY <1>1, <1>3 DEF Write
  <2>2. Received(part, <<c, t>>, wire[k]) \in Part
    BY DEF Received, Part
  <2>3. first' = IF first[k] = "nothing" /\ part = "header" THEN [first EXCEPT ![k] = t] ELSE first
    BY <1>3 DEF Write
  <2>4. process' \in {process} \cup {"killed"}
    BY <1>3 DEF Write
  <2>. QED
    BY <2>1, <2>2, <2>3, <2>4 DEF Typed, Sender
<1>. QED
  BY <1>2, <1>3

LEMMA ClientTyped ==
  ASSUME IInv, NEW c \in Clients, Accept(c) \/ Ask(c) \/ Talk(c) \/ Leave(c) PROVE IInv'
<1>. USE DEF IInv
<1>1. CASE Accept(c)
  <2>. DEFINE free == {f \in Fds : file[f] = None}
  <2>1. Min(free) \in Fds
    BY <1>1, LeastFree DEF Accept, Fds
  <2>2. Typed'
    BY <1>1, <2>1
    DEF Accept, Typed, Reader, objects, tun, out, Places
  <2>3. StartedInv'
    BY <1>1 DEF Accept, Typed, StartedInv, Reader, objects, tun
  <2>. QED
    BY <2>2, <2>3
<1>2. CASE Ask(c) \/ Talk(c) \/ Leave(c)
  <2>1. UNCHANGED <<process, objects, readers, writers, keeper, hb, sender, fd, file, tun, out>>
    BY <1>2 DEF Ask, Talk, Leave, tun
  <2>2. inbox' \in [Clients -> Seq(Kind)]
    <3>1. CASE Ask(c)
      BY <3>1 DEF Ask, Typed, Kind
    <3>2. CASE Talk(c)
      <4>1. PICK m \in Kinds : inbox' = [inbox EXCEPT ![c] =
                                  @ \o IF m = "data" THEN <<m, "body">> ELSE <<m>>]
        BY <3>2 DEF Talk
      <4>2. m \in Kind /\ <<m, "body">> \in Seq(Kind) /\ <<m>> \in Seq(Kind)
        BY ThreadedAssumption DEF Kind
      <4>3. inbox[c] \o (IF m = "data" THEN <<m, "body">> ELSE <<m>>) \in Seq(Kind)
        BY <4>2 DEF Typed
      <4>. QED
        BY <4>1, <4>3 DEF Typed
    <3>3. CASE Leave(c)
      BY <3>3 DEF Leave, Typed
    <3>. QED
      BY <1>2, <3>1, <3>2, <3>3
  <2>3. peer' \in [Clients -> {"away", "connected", "asked", "gone"}]
    <3>1. peer' \in {peer, [peer EXCEPT ![c] = "asked"], [peer EXCEPT ![c] = "gone"]}
      BY <1>2 DEF Ask, Talk, Leave
    <3>2. peer \in [Clients -> {"away", "connected", "asked", "gone"}]
      BY DEF Typed
    <3>. QED
      BY <3>1, <3>2
  <2>4. Typed'
    BY <2>1, <2>2, <2>3 DEF Typed, objects, readers, writers, tun, out
  <2>5. StartedInv'
    <3>1. \A d \in Clients : peer'[d] = "away" => peer[d] = "away"
      BY <1>2, <2>3 DEF Ask, Talk, Leave, Typed
    <3>. QED
      BY <2>1, <3>1 DEF StartedInv, objects, readers, writers, tun
  <2>. QED
    BY <2>4, <2>5
<1>. QED
  BY <1>1, <1>2

\* A step of a read thread that has not sent anything.
LEMMA ReaderTyped ==
  ASSUME IInv, NEW c \in Clients, reader[c] # "none",
         NEW there \in Places \ {"none", "read", "data"}, Reader(c, there) \/ UNCHANGED reader,
         process' \in {"up", "assert", "terminated", "killed", "full"},
         status' \in [Addrs -> BOOLEAN], ipMutex' \in Clients \cup {None},
         connections' = connections \/ connections' = Assigned(c),
         ipv4' \in [Clients -> Addrs \cup {0}], hb' \in [Clients -> 0 .. Limit],
         message' \in [Clients -> Kind \cup {"unset", "reply"}],
         inbox' \in [Clients -> Seq(Kind)],
         sender' \in [Clients -> {None, "address", "frame"}],
         wire' \in [Clients -> Part], first' \in [Clients -> {"nothing", "address", "frame"}],
         UNCHANGED <<fd, file, source, writers, keeper, tun, peer>>
  PROVE  IInv'
<1>. USE DEF IInv
<1>1. reader' \in [Clients -> Places] /\ \A d \in Clients : reader'[d] \in {reader[d], there}
  <2>1. reader \in [Clients -> Places] /\ there \in Places
    BY DEF Typed
  <2>2. CASE Reader(c, there)
    BY <2>1, <2>2 DEF Reader
  <2>. QED
    BY <2>1, <2>2
<1>2. /\ connections' \in [Addrs -> Clients \cup {None}]
      /\ \A a \in Addrs : connections'[a] \in {connections[a], c}
  <2>1. connections \in [Addrs -> Clients \cup {None}]
    BY DEF Typed
  <2>2. CASE connections' = Assigned(c)
    BY <2>1, <2>2 DEF Assigned
  <2>. QED
    BY <2>1, <2>2
<1>3. Typed'
  BY <1>1, <1>2 DEF Typed, writers, tun
<1>4. writer[c] # "none"
  BY DEF StartedInv
<1>5. StartedInv'
  <2>1. \A d \in Clients : writer[d] = "none" => reader'[d] = "none" /\ wtSktQue[d] = <<>>
    BY <1>4 DEF StartedInv, Typed, Reader
  <2>2. \A a \in Addrs : connections'[a] # None => writer[connections'[a]] # "none"
    BY <1>2, <1>4 DEF StartedInv
  <2>3. \A d \in Clients : reader'[d] \in {"read", "data"} => source[d] # None
    BY <1>1 DEF StartedInv
  <2>4. \A d \in Clients : peer[d] = "away" => reader'[d] = "none"
    BY DEF StartedInv, Typed, Reader
  <2>. QED
    BY <2>1, <2>2, <2>3, <2>4 DEF StartedInv, writers, tun
<1>. QED
  BY <1>3, <1>5

\* read() was called, or its loop is over.
LEMMA CallReadTyped ==
  ASSUME IInv, NEW c \in Clients, reader[c] # "none",
         CallReadHeader(c) \/ CallReadBody(c) \/ (Reader(c, "end") /\ UNCHANGED source),
         UNCHANGED <<process, objects, message, ipv4, writers, hb, sender, keeper, fd, file,
                     tun, clients, out>>
  PROVE  IInv'
<1>. USE DEF IInv
<1>1. file[fd[c]] \in Clients \cup {None} /\ reader \in [Clients -> Places]
      /\ source \in [Clients -> Clients \cup {None}]
  BY DEF Typed
<1>2. /\ reader' \in [Clients -> Places] /\ source' \in [Clients -> Clients \cup {None}]
      /\ \A d \in Clients \ {c} : reader'[d] = reader[d] /\ source'[d] = source[d]
      /\ reader'[c] \in {"read", "data"} => source'[c] # None
  <2>1. CASE CallReadHeader(c) \/ CallReadBody(c)
    BY <1>1, <2>1 DEF CallReadHeader, CallReadBody, CallRead, Reader, Places
  <2>2. CASE Reader(c, "end") /\ UNCHANGED source
    BY <1>1, <2>2 DEF Reader, Places
  <2>. QED
    BY <2>1, <2>2
<1>3. Typed'
  BY <1>2 DEF Typed, objects, writers, tun, clients, out
<1>4. writer[c] # "none"
  BY DEF StartedInv
<1>5. StartedInv'
  <2>1. \A d \in Clients : writer[d] = "none" => reader'[d] = "none" /\ wtSktQue[d] = <<>>
    BY <1>2, <1>4 DEF StartedInv
  <2>2. \A d \in Clients : reader'[d] \in {"read", "data"} => source'[d] # None
    BY <1>2 DEF StartedInv
  <2>3. \A d \in Clients : peer[d] = "away" => reader'[d] = "none"
    BY <1>2 DEF StartedInv
  <2>. QED
    BY <2>1, <2>2, <2>3 DEF StartedInv, objects, writers, tun, clients
<1>. QED
  BY <1>3, <1>5

\* The reply is written part by part.
LEMMA AnswerTyped ==
  ASSUME IInv, NEW c \in Clients, Answer(c) \/ AnswerBody(c) PROVE IInv'
<1>. USE DEF IInv
<1>1. PICK ok \in BOOLEAN, there \in {"body", "mark", "end"}, part \in {"header", "body"} :
        /\ Write(c, "address", part, ok) /\ Reader(c, there)
        /\ sender' \in {sender, [sender EXCEPT ![c] = "address"], [sender EXCEPT ![c] = None]}
  BY DEF Answer, AnswerBody, SendHeader, SendBody
<1>2. /\ reader[c] # "none"
      /\ message' \in {message, [message EXCEPT ![c] = "reply"]}
      /\ UNCHANGED <<objects, source, ipv4, writers, keeper, hb, fd, file, tun, clients>>
  BY DEF Answer, AnswerBody
<1>3. message' \in [Clients -> Kind \cup {"unset", "reply"}]
  BY <1>2 DEF Typed
<1>4. sender' \in [Clients -> {None, "address", "frame"}]
  BY <1>1 DEF Typed
<1>5. /\ process' \in {"up", "assert", "terminated", "killed", "full"}
      /\ wire' \in [Clients -> Part]
      /\ first' \in [Clients -> {"nothing", "address", "frame"}]
  BY <1>1, WriteTyped DEF Sender
<1>6. /\ status' \in [Addrs -> BOOLEAN] /\ ipMutex' \in Clients \cup {None}
      /\ connections' = connections /\ ipv4' \in [Clients -> Addrs \cup {0}]
      /\ hb' \in [Clients -> 0 .. Limit] /\ inbox' \in [Clients -> Seq(Kind)]
      /\ UNCHANGED <<fd, file, source, writers, keeper, tun, peer>>
  BY <1>2 DEF Typed, objects, clients
<1>7. there \in Places \ {"none", "read", "data"}
  BY DEF Places
<1>. QED
  BY <1>1, <1>2, <1>3, <1>4, <1>5, <1>6, <1>7, ReaderTyped

LEMMA ReadTyped ==
  ASSUME IInv, NEW c \in Clients,
         ReadLoop(c) \/ ReadHeader(c) \/ ReadEnd(c) \/ HandleKeepalive(c) \/ HandleData(c)
           \/ HandleOther(c) \/ ReadBody(c) \/ ReadBodyEnd(c)
  PROVE  IInv'
<1>. USE DEF IInv
<1>1. CASE ReadLoop(c) \/ ReadEnd(c) \/ HandleData(c) \/ ReadBodyEnd(c)
  BY <1>1, CallReadTyped DEF ReadLoop, ReadEnd, HandleData, ReadBodyEnd
<1>2. CASE HandleKeepalive(c) \/ HandleOther(c) \/ ReadHeader(c) \/ ReadBody(c)
  <2>1. PICK there \in {"loop", "handle"} : Reader(c, there)
    BY <1>2 DEF HandleKeepalive, HandleOther, ReadHeader, ReadBody
  <2>2. /\ reader[c] # "none"
        /\ UNCHANGED <<process, objects, source, ipv4, writers, keeper, sender, fd, file, tun,
                       peer, out>>
    BY <1>2 DEF HandleKeepalive, HandleOther, ReadHeader, ReadBody, clients
  <2>3. hb' \in [Clients -> 0 .. Limit]
    <3>1. hb' \in {hb, [hb EXCEPT ![c] = 0]}
      BY <1>2 DEF HandleKeepalive, HandleOther, ReadHeader, ReadBody
    <3>2. Limit \in Nat /\ hb \in [Clients -> 0 .. Limit]
      BY ThreadedAssumption DEF Typed
    <3>. QED
      BY <3>1, <3>2
  <2>4. /\ message' \in [Clients -> Kind \cup {"unset", "reply"}]
        /\ inbox' \in [Clients -> Seq(Kind)]
    <3>1. CASE ReadHeader(c)
      <4>1. source[c] \in Clients /\ inbox[source[c]] # <<>>
        BY <3>1 DEF ReadHeader, Typed, StartedInv
      <4>2. /\ message' = [message EXCEPT ![c] = Head(inbox[source[c]])]
            /\ inbox' = [inbox EXCEPT ![source[c]] = Tail(inbox[source[c]])]
        BY <3>1 DEF ReadHeader
      <4>3. Head(inbox[source[c]]) \in Kind /\ Tail(inbox[source[c]]) \in Seq(Kind)
        BY <4>1 DEF Typed
      <4>. QED
        BY <4>2, <4>3 DEF Typed
    <3>2. CASE HandleKeepalive(c) \/ HandleOther(c)
      BY <3>2 DEF HandleKeepalive, HandleOther, clients, Typed
    <3>3. CASE ReadBody(c)
      <4>1. source[c] \in Clients /\ inbox[source[c]] # <<>>
        BY <3>3 DEF ReadBody, Typed, StartedInv
      <4>2. message' = message /\ inbox' = [inbox EXCEPT ![source[c]] = Tail(inbox[source[c]])]
        BY <3>3 DEF ReadBody
      <4>3. Tail(inbox[source[c]]) \in Seq(Kind)
        BY <4>1 DEF Typed
      <4>. QED
        BY <4>2, <4>3 DEF Typed
    <3>. QED
      BY <1>2, <3>1, <3>2, <3>3
  <2>5. /\ process' \in {"up", "assert", "terminated", "killed", "full"}
        /\ status' \in [Addrs -> BOOLEAN] /\ ipMutex' \in Clients \cup {None}
        /\ connections' = connections /\ ipv4' \in [Clients -> Addrs \cup {0}]
        /\ sender' \in [Clients -> {None, "address", "frame"}]
        /\ wire' \in [Clients -> Part] /\ first' \in [Clients -> {"nothing", "address", "frame"}]
    BY <2>2 DEF Typed, objects, out
  <2>6. there \in Places \ {"none", "read", "data"}
    BY DEF Places
  <2>. QED
    BY <2>1, <2>2, <2>3, <2>4, <2>5, <2>6, ReaderTyped
<1>. QED
  BY <1>1, <1>2

LEMMA SetIpStatusTyped ==
  ASSUME IInv, NEW c \in Clients, NEW s \in BOOLEAN, NEW there, SetIpStatus(c, s, there)
  PROVE  /\ status' \in [Addrs -> BOOLEAN] /\ process' \in {process, "assert"}
         /\ (Reader(c, there) \/ UNCHANGED reader)
<1>1. /\ process' \in {process, "assert"} /\ (Reader(c, there) \/ UNCHANGED reader)
      /\ status' = status \/ status' = [status EXCEPT ![ipv4[c]] = s]
  BY DEF SetIpStatus, Ends
<1>2. status \in [Addrs -> BOOLEAN]
  BY DEF IInv, Typed
<1>. QED
  BY <1>1, <1>2

\* What the table and ipMutex are touched by.
LEMMA TableTyped ==
  ASSUME IInv, NEW c \in Clients,
         HandleRequest(c) \/ Mark(c) \/ SetConnection(c) \/ EndReading(c)
  PROVE  IInv'
<1>. USE DEF IInv
<1>1. /\ reader[c] # "none" /\ UNCHANGED <<fd, file, source, writers, keeper, tun, peer>>
      /\ UNCHANGED <<hb, message, inbox, sender, wire, first>>
  BY DEF HandleRequest, Mark, SetConnection, EndReading, clients, out
<1>2. /\ process \in {"up", "assert", "terminated", "killed", "full"}
      /\ status \in [Addrs -> BOOLEAN] /\ ipMutex \in Clients \cup {None}
      /\ ipv4 \in [Clients -> Addrs \cup {0}] /\ hb' \in [Clients -> 0 .. Limit]
      /\ message' \in [Clients -> Kind \cup {"unset", "reply"}]
      /\ inbox' \in [Clients -> Seq(Kind)]
      /\ sender' \in [Clients -> {None, "address", "frame"}]
      /\ wire' \in [Clients -> Part] /\ first' \in [Clients -> {"nothing", "address", "frame"}]
  BY <1>1 DEF Typed
<1>3. PICK there \in Places \ {"none", "read", "data"} :
         /\ (Reader(c, there) \/ UNCHANGED reader)
         /\ process' \in {"up", "assert", "terminated", "killed", "full"}
         /\ status' \in [Addrs -> BOOLEAN] /\ ipMutex' \in Clients \cup {None}
         /\ (connections' = connections \/ connections' = Assigned(c))
         /\ ipv4' \in [Clients -> Addrs \cup {0}]
  <2>. USE DEF Places
  <2>1. CASE HandleRequest(c)
    <3>1. CASE ipv4[c] = 0
      <4>. DEFINE free == {a \in Addrs : ~status[a]}
      <4>1. GetFreeIP(c)
        BY <2>1, <3>1 DEF HandleRequest
      <4>2. CASE free = {}
        <5>1. process' = "full" /\ UNCHANGED <<reader, ipv4, status, connections, ipMutex>>
          BY <4>1, <4>2 DEF GetFreeIP, Ends, objects
        <5>2. "end" \in Places \ {"none", "read", "data"} /\ (Reader(c, "end") \/ UNCHANGED reader)
          BY <5>1
        <5>. QED
          BY <1>2, <5>1, <5>2
      <4>3. CASE free # {}
        <5>1. Min(free) \in Addrs
          BY <4>3, LeastFree DEF Addrs
        <5>2. ipv4' = [ipv4 EXCEPT ![c] = Min(free)]
          BY <4>1, <4>3 DEF GetFreeIP
        <5>3. ipv4' \in [Clients -> Addrs \cup {0}]
          <6>. HIDE DEF free
          <6>. QED
            BY <1>2, <5>1, <5>2
        <5>4. Reader(c, "answer") /\ UNCHANGED <<process, objects>>
          BY <4>1, <4>3 DEF GetFreeIP
        <5>. QED
          BY <1>2, <5>3, <5>4 DEF objects
      <4>. QED
        BY <4>2, <4>3
    <3>2. CASE ipv4[c] # 0
      BY <1>2, <2>1, <3>2 DEF HandleRequest, Ends, objects
    <3>. QED
      BY <3>1, <3>2
  <2>2. CASE Mark(c)
    BY <1>2, <2>2, SetIpStatusTyped DEF Mark
  <2>3. CASE SetConnection(c)
    BY <1>2, <2>3 DEF SetConnection
  <2>4. CASE EndReading(c)
    BY <1>2, <2>4, SetIpStatusTyped DEF EndReading, Ends
  <2>. QED
    BY <2>1, <2>2, <2>3, <2>4
<1>. QED
  BY <1>1, <1>2, <1>3, ReaderTyped

\* The threads that write, count and read the tun.
LEMMA WriterTyped ==
  ASSUME IInv, NEW c \in Clients, WriterStep(c) PROVE IInv'
<1>. USE DEF IInv
<1>1. PICK ok \in BOOLEAN, part \in {"header", "body"}, there \in {"pop", "body", "ended"} :
        /\ Write(c, "frame", part, ok) /\ writer' = [writer EXCEPT ![c] = there]
        /\ sender' \in {sender, [sender EXCEPT ![c] = "frame"], [sender EXCEPT ![c] = None]}
  BY DEF WriterStep, WriteFrame, WriteFrameBody, SendHeader, SendBody
<1>2. /\ writer[c] # "none"
      /\ UNCHANGED <<objects, readers, keeper, hb, fd, file, tun, clients>>
  BY DEF WriterStep, WriteFrame, WriteFrameBody
<1>3. /\ process' \in {"up", "assert", "terminated", "killed", "full"}
      /\ wire' \in [Clients -> Part]
      /\ first' \in [Clients -> {"nothing", "address", "frame"}]
  BY <1>1, WriteTyped DEF Sender
<1>4. wtSktQue' \in [Clients -> Seq(Addrs)] /\ \A d \in Clients \ {c} : wtSktQue'[d] = wtSktQue[d]
  <2>1. wtSktQue \in [Clients -> Seq(Addrs)]
    BY DEF Typed
  <2>2. CASE WriteFrame(c)
    <3>1. wtSktQue[c] # <<>> /\ wtSktQue' = [wtSktQue EXCEPT ![c] = Tail(wtSktQue[c])]
      BY <2>2 DEF WriteFrame
    <3>2. Tail(wtSktQue[c]) \in Seq(Addrs)
      BY <2>1, <3>1
    <3>. QED
      BY <2>1, <3>1, <3>2
  <2>3. CASE WriteFrameBody(c)
    BY <2>1, <2>3 DEF WriteFrameBody
  <2>. QED
    BY <2>2, <2>3 DEF WriterStep
<1>5. sender' \in [Clients -> {None, "address", "frame"}]
  BY <1>1 DEF Typed
<1>6. writer \in [Clients -> {"none", "pop", "body", "ended"}]
  BY DEF Typed
<1>7. /\ writer' \in [Clients -> {"none", "pop", "body", "ended"}]
      /\ writer'[c] # "none" /\ \A d \in Clients \ {c} : writer'[d] = writer[d]
  BY <1>1, <1>6
<1>8. Typed'
  BY <1>2, <1>3, <1>4, <1>5, <1>7 DEF Typed, objects, readers, tun, clients
<1>9. StartedInv'
  BY <1>2, <1>4, <1>7 DEF Typed, StartedInv, objects, readers, tun, clients
<1>. QED
  BY <1>8, <1>9

LEMMA KeeperTyped ==
  ASSUME IInv, NEW c \in Clients, KeeperStep(c) PROVE IInv'
<1>. USE DEF IInv
<1>1. UNCHANGED <<objects, readers, writers, sender, fd, tun, clients>>
  BY DEF KeeperStep, KeepTick, KeepTest, KeepSend, KeepClose
<1>2. keeper' \in [Clients -> {"none", "loop", "test", "send", "close", "ended"}]
  <2>1. PICK there \in {"loop", "test", "send", "close", "ended"} :
           keeper' = [keeper EXCEPT ![c] = there]
    BY DEF KeeperStep, KeepTick, KeepTest, KeepSend, KeepClose
  <2>. QED
    BY <2>1 DEF Typed
<1>3. hb' \in [Clients -> 0 .. Limit]
  <2>1. hb' = hb \/ (hb[c] < Limit /\ hb' = [hb EXCEPT ![c] = hb[c] + 1])
    <3>1. CASE KeepTick(c)
      BY <3>1 DEF KeepTick
    <3>2. CASE KeepTest(c) \/ KeepSend(c) \/ KeepClose(c)
      BY <3>2 DEF KeepTest, KeepSend, KeepClose
    <3>. QED
      BY <3>1, <3>2 DEF KeeperStep
  <2>2. Limit \in Nat /\ hb \in [Clients -> 0 .. Limit]
    BY ThreadedAssumption DEF Typed
  <2>. QED
    BY <2>1, <2>2
<1>4. file' \in [Fds -> Clients \cup {None}]
  <2>1. file' \in {file, [file EXCEPT ![fd[c]] = None]}
    BY DEF KeeperStep, KeepTick, KeepTest, KeepSend, KeepClose
  <2>2. file \in [Fds -> Clients \cup {None}]
    BY DEF Typed
  <2>. QED
    BY <2>1, <2>2
<1>5. /\ process' \in {"up", "assert", "terminated", "killed", "full"}
      /\ wire' \in [Clients -> Part]
      /\ first' \in [Clients -> {"nothing", "address", "frame"}]
  <2>1. CASE KeepSend(c)
    BY <2>1, WriteTyped DEF KeepSend, Sender
  <2>2. CASE KeepTick(c) \/ KeepTest(c) \/ KeepClose(c)
    BY <2>2 DEF KeepTick, KeepTest, KeepClose, Typed, out
  <2>. QED
    BY <2>1, <2>2 DEF KeeperStep
<1>6. Typed'
  BY <1>1, <1>2, <1>3, <1>4, <1>5 DEF Typed, objects, readers, writers, tun, clients
<1>7. StartedInv'
  BY <1>1 DEF StartedInv, objects, readers, writers, tun, clients
<1>. QED
  BY <1>6, <1>7

LEMMA TunTyped == ASSUME IInv, TunStep PROVE IInv'
<1>. USE DEF IInv
<1>1. UNCHANGED <<process, objects, readers, writer, keeper, hb, sender, fd, file, clients, out>>
  BY DEF TunStep, TunRead, TunPush, writers
<1>2. CASE TunRead
  <2>1. PICK a \in Addrs : found' = IF GetConnectionByIp(a) = None THEN <<>>
                                    ELSE <<a, connections[a]>>
    BY <1>2 DEF TunRead
  <2>2. connections[a] \in Clients \cup {None}
    BY DEF Typed
  <2>3. found' = <<>> \/ (found' = <<a, connections[a]>> /\ connections[a] # None)
    <3>1. CASE GetConnectionByIp(a) = None
      BY <2>1, <3>1
    <3>2. CASE GetConnectionByIp(a) # None
      BY <2>1, <3>2 DEF GetConnectionByIp
    <3>. QED
      BY <3>1, <3>2
  <2>4. found' = <<>> \/ (found' \in Addrs \X Clients /\ writer[found'[2]] # "none")
    <3>1. connections[a] # None => connections[a] \in Clients /\ writer[connections[a]] # "none"
      BY <2>2 DEF StartedInv
    <3>. QED
      BY <2>3, <3>1
  <2>5. wtSktQue' = wtSktQue
    BY <1>2 DEF TunRead, writers
  <2>6. Typed'
    BY <1>1, <2>4, <2>5 DEF Typed, objects, readers, clients, out
  <2>7. StartedInv'
    BY <1>1, <2>4, <2>5 DEF StartedInv, objects, readers, clients
  <2>. QED
    BY <2>6, <2>7
<1>3. CASE TunPush
  <2>1. found[1] \in Addrs /\ found[2] \in Clients /\ writer[found[2]] # "none" /\ found' = <<>>
    BY <1>3 DEF TunPush, Typed, StartedInv
  <2>2. wtSktQue' = [wtSktQue EXCEPT ![found[2]] = Append(wtSktQue[found[2]], found[1])]
    BY <1>3 DEF TunPush
  <2>3. Append(wtSktQue[found[2]], found[1]) \in Seq(Addrs)
    BY <2>1 DEF Typed
  <2>4. /\ wtSktQue' \in [Clients -> Seq(Addrs)]
        /\ \A d \in Clients \ {found[2]} : wtSktQue'[d] = wtSktQue[d]
    BY <2>1, <2>2, <2>3 DEF Typed
  <2>5. Typed'
    BY <1>1, <2>1, <2>4 DEF Typed, objects, readers, clients, out
  <2>6. StartedInv'
    BY <1>1, <2>1, <2>4 DEF StartedInv, objects, readers, clients
  <2>. QED
    BY <2>5, <2>6
<1>. QED
  BY <1>2, <1>3 DEF TunStep

LEMMA NextTyped == IInv /\ [Next]_vars => IInv'
<1>. SUFFICES ASSUME IInv, [Next]_vars PROVE IInv'
  OBVIOUS
<1>1. CASE UNCHANGED vars
  BY <1>1 DEF IInv, Typed, StartedInv, vars, objects, readers, writers, tun, clients, out
<1>2. CASE TunStep
  BY <1>2, TunTyped
<1>3. ASSUME NEW c \in Clients, \/ Accept(c) \/ Ask(c) \/ Talk(c) \/ Leave(c)
                                \/ ReaderStep(c) \/ WriterStep(c) \/ KeeperStep(c)
      PROVE  IInv'
  BY <1>3, ClientTyped, ReadTyped, TableTyped, AnswerTyped, WriterTyped, KeeperTyped
  DEF ReaderStep
<1>. QED
  BY <1>1, <1>2, <1>3 DEF Next

\* Types, and threads only where a connection was accepted: what the rest needs.
THEOREM Invariant == Spec => []IInv
  BY InitTyped, NextTyped, PTL DEF Spec

\* Every variable keeps its type, the heartbeat count its limit, and no frame waits
\* for a connection without threads, for any number of clients and any traffic.
THEOREM TypeCorrect == Spec => []TypeOK
<1>1. IInv => TypeOK
  BY DEF IInv, Typed, StartedInv, TypeOK
<1>. QED
  BY <1>1, Invariant, PTL

---------------------------------------------------------------------------
(* Descriptors.                                                            *)

Active == {"loop", "test", "send", "close"}

LEMMA NumberKeeps == IInv /\ NumberStaysOurs /\ [Next]_vars => NumberStaysOurs'
<1>. SUFFICES ASSUME IInv, NumberStaysOurs, [Next]_vars PROVE NumberStaysOurs'
  OBVIOUS
<1>1. /\ fd \in [Clients -> Fds] /\ file \in [Fds -> Clients \cup {None}]
      /\ keeper \in [Clients -> Active \cup {"none", "ended"}] /\ None \notin Clients
      /\ \A c \in Clients : keeper[c] \in Active => file[fd[c]] = c
  BY ThreadedAssumption DEF IInv, Typed, NumberStaysOurs, Active
<1>2. ASSUME UNCHANGED <<fd, file>>,
             \A c \in Clients : keeper'[c] \in Active => keeper[c] \in Active
      PROVE  NumberStaysOurs'
  BY <1>1, <1>2 DEF NumberStaysOurs, Active
<1>3. ASSUME NEW c \in Clients, Accept(c) PROVE NumberStaysOurs'
  <2>. DEFINE f == Min({g \in Fds : file[g] = None})
  <2>1. f \in Fds /\ file[f] = None
    BY <1>3, LeastFree DEF Accept, Fds
  <2>2. /\ fd' = [fd EXCEPT ![c] = f] /\ file' = [file EXCEPT ![f] = c]
        /\ keeper' = [keeper EXCEPT ![c] = "loop"]
    BY <1>3 DEF Accept
  <2>. HIDE DEF f
  <2>3. \A d \in Clients : keeper'[d] \in Active => file'[fd'[d]] = d
    BY <1>1, <2>1, <2>2
  <2>. QED
    BY <2>3 DEF NumberStaysOurs, Active
<1>4. ASSUME NEW c \in Clients, KeepClose(c) PROVE NumberStaysOurs'
  <2>1. /\ keeper[c] \in Active /\ keeper' = [keeper EXCEPT ![c] = "ended"]
        /\ fd' = fd /\ file' = [file EXCEPT ![fd[c]] = None]
    BY <1>4 DEF KeepClose, Active
  <2>2. \A d \in Clients : keeper'[d] \in Active => file'[fd'[d]] = d
    BY <1>1, <2>1 DEF Active
  <2>. QED
    BY <2>2 DEF NumberStaysOurs, Active
<1>5. ASSUME NEW c \in Clients, KeepTick(c) \/ KeepTest(c) \/ KeepSend(c)
      PROVE  NumberStaysOurs'
  <2>1. PICK there \in Active : keeper' = [keeper EXCEPT ![c] = there]
    BY <1>5 DEF KeepTick, KeepTest, KeepSend, Active
  <2>2. keeper[c] \in Active /\ UNCHANGED <<fd, file>>
    BY <1>5 DEF KeepTick, KeepTest, KeepSend, Active
  <2>. QED
    BY <1>1, <1>2, <2>1, <2>2
<1>6. ASSUME NEW c \in Clients, \/ Ask(c) \/ Talk(c) \/ Leave(c)
                                \/ ReaderStep(c) \/ WriterStep(c)
      PROVE  UNCHANGED <<fd, file, keeper>>
  <2>1. CASE Ask(c) \/ Talk(c) \/ Leave(c)
    BY <2>1 DEF Ask, Talk, Leave
  <2>2. CASE WriterStep(c)
    BY <2>2 DEF WriterStep, WriteFrame, WriteFrameBody
  <2>3. CASE ReadLoop(c) \/ ReadHeader(c) \/ ReadEnd(c) \/ ReadBody(c) \/ ReadBodyEnd(c)
    BY <2>3 DEF ReadLoop, ReadHeader, ReadEnd, ReadBody, ReadBodyEnd
  <2>4. CASE HandleRequest(c) \/ HandleKeepalive(c) \/ HandleData(c) \/ HandleOther(c)
    BY <2>4 DEF HandleRequest, HandleKeepalive, HandleData, HandleOther
  <2>5. CASE Answer(c) \/ AnswerBody(c) \/ Mark(c) \/ SetConnection(c) \/ EndReading(c)
    BY <2>5 DEF Answer, AnswerBody, Mark, SetConnection, EndReading
  <2>. QED
    BY <1>6, <2>1, <2>2, <2>3, <2>4, <2>5 DEF ReaderStep
<1>7. TunStep \/ UNCHANGED vars => UNCHANGED <<fd, file, keeper>>
  BY DEF TunStep, TunRead, TunPush, vars
<1>. QED
  BY <1>2, <1>3, <1>4, <1>5, <1>6, <1>7 DEF Next, KeeperStep

\* The keepalive thread closes the descriptor of its own connection, for any
\* number of clients that come, leave and follow each other on a descriptor:
\* it alone closes, and accept() gives away only what is closed.
THEOREM OwnNumberClosed == Spec => []NumberStaysOurs
<1>1. Init => NumberStaysOurs
  BY DEF Init, NumberStaysOurs
<1>. QED
  BY <1>1, Invariant, NumberKeeps, PTL DEF Spec

---------------------------------------------------------------------------
(* Addresses, as long as requests for them do not overlap.                 *)

\* Who serves an address has it marked and is entered there; who is about to be
\* entered has it marked.
TableInv ==
    /\ AddressUnique
    /\ \A c \in Clients :
        /\ Served(c) => status[ipv4[c]] /\ connections[ipv4[c]] = c
        /\ reader[c] \in {"answer", "body", "mark", "set"} => ipv4[c] # 0
        /\ reader[c] = "set" => status[ipv4[c]]
        /\ reader[c] = "none" => ipv4[c] = 0
        /\ reader[c] # "stuck"
    /\ ipMutex = None

TableVars == <<reader, ipv4, objects>>

\* A thread whose reader has not ended shares its address with no other such.
LEMMA NotShared ==
  ASSUME TableInv, NEW c \in Clients, NEW d \in Clients, c # d,
         reader[c] # "ended", reader[d] # "ended", ipv4[c] # 0
  PROVE  ipv4[d] # ipv4[c]
  BY DEF TableInv, AddressUnique

\* A reader goes on and leaves the table alone.
LEMMA MovesKeep ==
  ASSUME IInv, TableInv, NEW c \in Clients, NEW there, Reader(c, there),
         UNCHANGED <<ipv4, objects>>, reader[c] # "ended",
         \/ /\ there \in {"loop", "read", "handle", "data"}
            /\ reader[c] \in {"none", "loop", "read", "handle", "data"}
         \/ there \in {"answer", "body", "mark"} /\ ipv4[c] # 0
         \/ there = "end"
  PROVE  TableInv'
<1>1. /\ reader \in [Clients -> Places]
      /\ reader' = [reader EXCEPT ![c] = there]
      /\ UNCHANGED <<ipv4, status, connections, ipMutex>>
  BY DEF IInv, Typed, Reader, objects
<1>2. AddressUnique'
  BY <1>1 DEF TableInv, AddressUnique
<1>3. ASSUME NEW d \in Clients
      PROVE  /\ Served(d)' => status[ipv4[d]] /\ connections[ipv4[d]] = d
             /\ reader'[d] \in {"answer", "body", "mark", "set"} => ipv4[d] # 0
             /\ reader'[d] = "set" => status[ipv4[d]]
             /\ reader'[d] = "none" => ipv4[d] = 0
             /\ reader'[d] # "stuck"
  BY <1>1 DEF TableInv, Served
<1>. QED
  BY <1>1, <1>2, <1>3 DEF TableInv

LEMMA RequestKeeps ==
  ASSUME IInv, TableInv, Serial, NEW c \in Clients, HandleRequest(c) PROVE TableInv'
<1>1. reader[c] = "handle" /\ \A d \in Clients \ {c} : ~Assigning(d)
  BY DEF HandleRequest
<1>2. CASE UNCHANGED TableVars
  BY <1>2 DEF TableInv, TableVars, objects, AddressUnique, Served
<1>3. CASE ipv4[c] # 0
  <2>1. UNCHANGED <<ipv4, objects>> /\ (Reader(c, "answer") \/ UNCHANGED reader)
    BY <1>3 DEF HandleRequest
  <2>. QED
    BY <1>1, <1>2, <1>3, <2>1, MovesKeep DEF TableVars
<1>4. CASE ipv4[c] = 0
  <2>. DEFINE free == {a \in Addrs : ~status[a]}
              a == Min(free)
  <2>1. GetFreeIP(c)
    BY <1>4 DEF HandleRequest
  <2>2. CASE free = {}
    BY <1>2, <2>1, <2>2 DEF GetFreeIP, TableVars
  <2>3. CASE free # {}
    <3>1. a \in Addrs /\ ~status[a] /\ a # 0
      <4>1. a \in free
        BY <2>3, LeastFree DEF Addrs
      <4>. QED
        BY <4>1 DEF Addrs
    <3>2. ipv4' = [ipv4 EXCEPT ![c] = a] /\ Reader(c, "answer") /\ UNCHANGED objects
      BY <2>1, <2>3 DEF GetFreeIP
    <3>. HIDE DEF a, free
    <3>3. /\ reader \in [Clients -> Places] /\ ipv4 \in [Clients -> Addrs \cup {0}]
          /\ reader' = [reader EXCEPT ![c] = "answer"]
          /\ UNCHANGED <<status, connections, ipMutex>>
      BY <3>2 DEF IInv, Typed, Reader, objects
    \* Nobody else is about to take it, and who has taken it has marked it.
    <3>4. \A d \in Clients \ {c} : ipv4[d] = a => reader[d] = "ended"
      <4>1. ASSUME NEW d \in Clients \ {c}, ipv4[d] = a PROVE reader[d] = "ended"
        <5>1. ~Assigning(d) /\ ~Served(d) /\ reader[d] # "none" /\ reader[d] # "stuck"
          BY <1>1, <3>1, <4>1 DEF TableInv
        <5>. QED
          BY <3>1, <3>3, <4>1, <5>1 DEF Served, Assigning, Places
      <4>. QED
        BY <4>1
    <3>5. AddressUnique'
      BY <3>2, <3>3, <3>4 DEF TableInv, AddressUnique
    <3>6. ASSUME NEW d \in Clients
          PROVE  /\ Served(d)' => status[ipv4'[d]] /\ connections[ipv4'[d]] = d
                 /\ reader'[d] \in {"answer", "body", "mark", "set"} => ipv4'[d] # 0
                 /\ reader'[d] = "set" => status[ipv4'[d]]
                 /\ reader'[d] = "none" => ipv4'[d] = 0
                 /\ reader'[d] # "stuck"
      BY <3>1, <3>2, <3>3 DEF TableInv, Served
    <3>. QED
      BY <3>3, <3>5, <3>6 DEF TableInv
  <2>. QED
    BY <2>2, <2>3
<1>. QED
  BY <1>3, <1>4

\* The address is marked, then entered; at the end it is given back.
LEMMA MarkKeeps ==
  ASSUME IInv, TableInv, NEW c \in Clients, Mark(c) PROVE TableInv'
<1>. DEFINE a == ipv4[c]
<1>1. /\ reader[c] = "mark" /\ a # 0 /\ a \in Addrs
      /\ reader \in [Clients -> Places] /\ status \in [Addrs -> BOOLEAN]
  BY DEF Mark, TableInv, IInv, Typed
<1>2. CASE UNCHANGED TableVars
  BY <1>2 DEF TableInv, TableVars, objects, AddressUnique, Served
<1>3. CASE ~status[a]
  <2>1. /\ status' = [status EXCEPT ![a] = TRUE] /\ reader' = [reader EXCEPT ![c] = "set"]
        /\ UNCHANGED <<ipv4, connections, ipMutex>>
    BY <1>1, <1>3 DEF Mark, SetIpStatus, Reader
  <2>2. AddressUnique'
    BY <1>1, <2>1 DEF TableInv, AddressUnique
  <2>3. ASSUME NEW d \in Clients
        PROVE  /\ Served(d)' => status'[ipv4[d]] /\ connections[ipv4[d]] = d
               /\ reader'[d] \in {"answer", "body", "mark", "set"} => ipv4[d] # 0
               /\ reader'[d] = "set" => status'[ipv4[d]]
               /\ reader'[d] = "none" => ipv4[d] = 0
               /\ reader'[d] # "stuck"
    BY <1>1, <2>1 DEF TableInv, Served
  <2>. QED
    BY <2>1, <2>2, <2>3 DEF TableInv
<1>4. CASE status[a]
  BY <1>2, <1>4 DEF Mark, SetIpStatus, TableVars, objects
<1>. QED
  BY <1>1, <1>3, <1>4

LEMMA SetKeeps ==
  ASSUME IInv, TableInv, NEW c \in Clients, SetConnection(c) PROVE TableInv'
<1>. DEFINE a == ipv4[c]
<1>1. /\ reader[c] = "set" /\ a # 0 /\ a \in Addrs /\ status[a]
      /\ reader \in [Clients -> Places] /\ connections \in [Addrs -> Clients \cup {None}]
  BY DEF SetConnection, TableInv, IInv, Typed
<1>2. /\ connections' = [connections EXCEPT ![a] = c] /\ reader' = [reader EXCEPT ![c] = "loop"]
      /\ UNCHANGED <<ipv4, status, ipMutex>>
  BY <1>1 DEF SetConnection, Assigned, Reader
<1>3. AddressUnique'
  BY <1>1, <1>2 DEF TableInv, AddressUnique
<1>4. \A d \in Clients \ {c} : reader[d] # "ended" => ipv4[d] # a
  BY <1>1, NotShared
<1>5. ASSUME NEW d \in Clients
      PROVE  /\ Served(d)' => status[ipv4[d]] /\ connections'[ipv4[d]] = d
             /\ reader'[d] \in {"answer", "body", "mark", "set"} => ipv4[d] # 0
             /\ reader'[d] = "set" => status[ipv4[d]]
             /\ reader'[d] = "none" => ipv4[d] = 0
             /\ reader'[d] # "stuck"
  BY <1>1, <1>2, <1>4 DEF TableInv, Served
<1>. QED
  BY <1>2, <1>3, <1>5 DEF TableInv

LEMMA EndKeeps ==
  ASSUME IInv, TableInv, NEW c \in Clients, EndReading(c) PROVE TableInv'
<1>. DEFINE a == ipv4[c]
<1>1. /\ reader[c] = "end" /\ reader \in [Clients -> Places]
      /\ ipv4 \in [Clients -> Addrs \cup {0}] /\ status \in [Addrs -> BOOLEAN]
      /\ UNCHANGED <<ipv4, connections, ipMutex>>
  BY DEF EndReading, IInv, Typed
<1>2. CASE UNCHANGED <<status, reader>>
  BY <1>1, <1>2 DEF TableInv, AddressUnique, Served
<1>3. CASE ~UNCHANGED <<status, reader>>
  <2>1. a \in Addrs /\ a # 0
        /\ status' = [status EXCEPT ![a] = FALSE] /\ reader' = [reader EXCEPT ![c] = "ended"]
    BY <1>1, <1>3 DEF EndReading, SetIpStatus, Reader
  <2>2. \A d \in Clients \ {c} : reader[d] # "ended" => ipv4[d] # a
    BY <1>1, <2>1, NotShared
  <2>3. AddressUnique'
    BY <1>1, <2>1 DEF TableInv, AddressUnique
  <2>4. ASSUME NEW d \in Clients
        PROVE  /\ Served(d)' => status'[ipv4[d]] /\ connections[ipv4[d]] = d
               /\ reader'[d] \in {"answer", "body", "mark", "set"} => ipv4[d] # 0
               /\ reader'[d] = "set" => status'[ipv4[d]]
               /\ reader'[d] = "none" => ipv4[d] = 0
               /\ reader'[d] # "stuck"
    BY <1>1, <2>1, <2>2 DEF TableInv, Served
  <2>. QED
    BY <1>1, <2>3, <2>4 DEF TableInv
<1>. QED
  BY <1>2, <1>3

LEMMA TableKeeps == IInv /\ Serial /\ TableInv /\ [Next]_vars => TableInv'
<1>. SUFFICES ASSUME IInv, Serial, TableInv, [Next]_vars PROVE TableInv'
  OBVIOUS
<1>1. CASE UNCHANGED TableVars
  BY <1>1 DEF TableInv, TableVars, objects, AddressUnique, Served
<1>2. ASSUME NEW c \in Clients, Accept(c) PROVE TableInv'
  <2>1. reader[c] = "none" /\ Reader(c, "loop") /\ UNCHANGED <<ipv4, objects>>
    BY <1>2 DEF Accept, IInv, StartedInv
  <2>. QED
    BY <2>1, MovesKeep
<1>3. ASSUME NEW c \in Clients, Ask(c) \/ Talk(c) \/ Leave(c) \/ WriterStep(c) \/ KeeperStep(c)
      PROVE  UNCHANGED TableVars
  BY <1>3 DEF Ask, Talk, Leave, WriterStep, WriteFrame, WriteFrameBody, KeeperStep, KeepTick,
              KeepTest, KeepSend, KeepClose, TableVars, readers
<1>4. TunStep \/ UNCHANGED vars => UNCHANGED TableVars
  BY DEF TunStep, TunRead, TunPush, TableVars, readers, vars
<1>5. ASSUME NEW c \in Clients,
             \/ ReadLoop(c) \/ ReadHeader(c) \/ ReadEnd(c)
             \/ HandleKeepalive(c) \/ HandleData(c) \/ HandleOther(c)
             \/ ReadBody(c) \/ ReadBodyEnd(c)
      PROVE  TableInv'
  <2>1. /\ reader[c] \in {"loop", "read", "handle", "data"} /\ UNCHANGED <<ipv4, objects>>
        /\ \E there \in {"loop", "read", "handle", "data", "end"} : Reader(c, there)
    BY <1>5 DEF ReadLoop, ReadHeader, ReadEnd, CallReadHeader, CallReadBody, CallRead,
                HandleKeepalive, HandleData, HandleOther, ReadBody, ReadBodyEnd
  <2>. QED
    BY <2>1, MovesKeep
<1>6. ASSUME NEW c \in Clients, Answer(c) \/ AnswerBody(c) PROVE TableInv'
  <2>1. /\ reader[c] \in {"answer", "body"} /\ UNCHANGED <<ipv4, objects>>
        /\ \E there \in {"body", "mark", "end"} : Reader(c, there)
    BY <1>6 DEF Answer, AnswerBody
  <2>2. ipv4[c] # 0
    BY <2>1 DEF TableInv
  <2>. QED
    BY <2>1, <2>2, MovesKeep
<1>. QED
  BY <1>1, <1>2, <1>3, <1>4, <1>5, <1>6, RequestKeeps, MarkKeeps, SetKeeps, EndKeeps
  DEF Next, ReaderStep

LEMMA TableInvariant == ASSUME Serial PROVE Spec => []TableInv
<1>1. Init => TableInv
  BY ThreadedAssumption DEF Init, TableInv, AddressUnique, Served
<1>2. IInv /\ TableInv /\ [Next]_vars => TableInv'
  BY TableKeeps
<1>. QED
  BY <1>1, <1>2, Invariant, PTL DEF Spec

\* With requests one at a time, two connections never hold one address, for any
\* number of clients that come and go: getFreeIP marks nothing, but who has an
\* address and is not about to give it back has marked it.
THEOREM OneHolder == ASSUME Serial PROVE Spec => []AddressUnique
<1>1. TableInv => AddressUnique
  BY DEF TableInv
<1>. QED
  BY <1>1, TableInvariant, PTL

\* And the tun reader finds the holder of an address, whoever had it before.
THEOREM HolderFound == ASSUME Serial PROVE Spec => []HolderIsFound
<1>1. TableInv => HolderIsFound
  BY DEF TableInv, HolderIsFound, GetConnectionByIp
<1>. QED
  BY <1>1, TableInvariant, PTL

\* The status is still set when the connection is entered, so that setConnectionWithIp
\* never calls setIpStatus while it holds ipMutex.
THEOREM NeverLockedTwice == ASSUME Serial PROVE Spec => []NoSelfDeadlock
<1>1. TableInv => NoSelfDeadlock
  BY DEF TableInv, NoSelfDeadlock
<1>. QED
  BY <1>1, TableInvariant, PTL

---------------------------------------------------------------------------
(* The pool of addresses the threads implement.                            *)

\* The leases as they depend on the addresses and the readers, while the process runs.
HoldersIn(i, r, a) == {c \in Clients : i[c] = a /\ r[c] # "ended"}
LeaseIn(i, r) ==
    [a \in Addrs |-> IF \E c \in Clients : HoldersIn(i, r, a) = {c}
                     THEN CHOOSE c \in Clients : HoldersIn(i, r, a) = {c} ELSE None]

\* No two threads whose reader has not ended have one address.
Unshared(i, r) ==
    \A c, d \in Clients :
        c # d /\ i[c] = i[d] /\ i[c] # 0 => r[c] = "ended" \/ r[d] = "ended"

LEMMA LeaseOf ==
  ASSUME NEW i, NEW r, Unshared(i, r), NEW a \in Addrs
  PROVE  /\ \A c \in Clients : i[c] = a /\ r[c] # "ended" => LeaseIn(i, r)[a] = c
         /\ (\A c \in Clients : i[c] = a => r[c] = "ended") => LeaseIn(i, r)[a] = None
<1>1. ASSUME NEW c \in Clients, i[c] = a, r[c] # "ended" PROVE LeaseIn(i, r)[a] = c
  <2>1. HoldersIn(i, r, a) = {c}
    BY <1>1 DEF HoldersIn, Unshared, Addrs
  <2>2. \A d \in Clients : HoldersIn(i, r, a) = {d} => d = c
    BY <2>1
  <2>3. (CHOOSE d \in Clients : HoldersIn(i, r, a) = {d}) = c
    BY <2>1, <2>2
  <2>. QED
    BY <2>1, <2>3 DEF LeaseIn
<1>2. ASSUME \A c \in Clients : i[c] = a => r[c] = "ended" PROVE LeaseIn(i, r)[a] = None
  <2>1. HoldersIn(i, r, a) = {}
    BY <1>2 DEF HoldersIn
  <2>. QED
    BY <2>1 DEF LeaseIn
<1>. QED
  BY <1>1, <1>2

\* What Lease is, in this state and in the next.
LEMMA LeaseNow ==
  /\ Up => Lease = LeaseIn(ipv4, reader)
  /\ Up' => Lease' = LeaseIn(ipv4', reader')
  /\ ~Up => Lease = [a \in Addrs |-> None]
  /\ ~Up' => Lease' = [a \in Addrs |-> None]
  BY DEF Lease, LeaseIn, Holders, HoldersIn

\* getFreeIP gives the address to a thread that has none; endReading takes it back.
LEMMA LeaseGrows ==
  ASSUME NEW i \in [Clients -> Addrs \cup {0}], NEW r \in [Clients -> Places],
         NEW j, NEW q, Unshared(i, r), Unshared(j, q), NEW c \in Clients, NEW a \in Addrs,
         i[c] = 0, r[c] # "ended", \A d \in Clients : i[d] = a => r[d] = "ended",
         \A d \in Clients : j[d] = IF d = c THEN a ELSE i[d],
         \A d \in Clients : q[d] = IF d = c THEN "answer" ELSE r[d]
  PROVE  /\ LeaseIn(i, r)[a] = None
         /\ \A b \in Addrs : LeaseIn(i, r)[b] # c
         /\ \A b \in Addrs : LeaseIn(j, q)[b] = IF b = a THEN c ELSE LeaseIn(i, r)[b]
<1>. DEFINE l == LeaseIn(i, r)
            m == LeaseIn(j, q)
<1>1. \A b \in Addrs :
        /\ \A d \in Clients : i[d] = b /\ r[d] # "ended" => l[b] = d
        /\ (\A d \in Clients : i[d] = b => r[d] = "ended") => l[b] = None
  BY LeaseOf
<1>2. \A b \in Addrs :
        /\ \A d \in Clients : j[d] = b /\ q[d] # "ended" => m[b] = d
        /\ (\A d \in Clients : j[d] = b => q[d] = "ended") => m[b] = None
  <2>. HIDE DEF l, m
  <2>1. \A b \in Addrs :
          /\ \A d \in Clients : j[d] = b /\ q[d] # "ended" => LeaseIn(j, q)[b] = d
          /\ (\A d \in Clients : j[d] = b => q[d] = "ended") => LeaseIn(j, q)[b] = None
    BY ONLY Unshared(j, q), LeaseOf
  <2>. QED
    BY <2>1 DEF m
<1>. HIDE DEF l, m
<1>3. None \notin Clients /\ 0 \notin Addrs
  BY ThreadedAssumption DEF Addrs
<1>4. l[a] = None
  BY <1>1
<1>5. ASSUME NEW b \in Addrs PROVE l[b] # c
  <2>1. CASE \E d \in Clients : i[d] = b /\ r[d] # "ended"
    BY <1>1, <1>3, <2>1
  <2>2. CASE \A d \in Clients : i[d] = b => r[d] = "ended"
    BY <1>1, <1>3, <2>2
  <2>. QED
    BY <2>1, <2>2
<1>6. m[a] = c
  BY <1>2
<1>7. ASSUME NEW b \in Addrs, b # a PROVE m[b] = l[b]
  <2>1. CASE \E d \in Clients : i[d] = b /\ r[d] # "ended"
    <3>1. PICK d \in Clients : i[d] = b /\ r[d] # "ended"
      BY <2>1
    <3>2. d # c /\ j[d] = b /\ q[d] # "ended"
      BY <1>3, <3>1
    <3>. QED
      BY <1>1, <1>2, <3>1, <3>2
  <2>2. CASE \A d \in Clients : i[d] = b => r[d] = "ended"
    <3>1. \A d \in Clients : j[d] = b => q[d] = "ended"
      BY <1>7, <2>2
    <3>. QED
      BY <1>1, <1>2, <2>2, <3>1
  <2>. QED
    BY <2>1, <2>2
<1>. QED
  BY <1>4, <1>5, <1>6, <1>7 DEF l, m

LEMMA LeaseShrinks ==
  ASSUME NEW i \in [Clients -> Addrs \cup {0}], NEW r \in [Clients -> Places],
         NEW q, Unshared(i, r), Unshared(i, q), NEW c \in Clients,
         \A d \in Clients : q[d] = IF d = c THEN "ended" ELSE r[d]
  PROVE  \A b \in Addrs :
           LeaseIn(i, q)[b] = IF LeaseIn(i, r)[b] = c THEN None ELSE LeaseIn(i, r)[b]
<1>. DEFINE l == LeaseIn(i, r)
            m == LeaseIn(i, q)
<1>1. \A b \in Addrs :
        /\ \A d \in Clients : i[d] = b /\ r[d] # "ended" => l[b] = d
        /\ (\A d \in Clients : i[d] = b => r[d] = "ended") => l[b] = None
  BY LeaseOf
<1>2. \A b \in Addrs :
        /\ \A d \in Clients : i[d] = b /\ q[d] # "ended" => m[b] = d
        /\ (\A d \in Clients : i[d] = b => q[d] = "ended") => m[b] = None
  <2>. HIDE DEF l, m
  <2>1. \A b \in Addrs :
          /\ \A d \in Clients : i[d] = b /\ q[d] # "ended" => LeaseIn(i, q)[b] = d
          /\ (\A d \in Clients : i[d] = b => q[d] = "ended") => LeaseIn(i, q)[b] = None
    BY ONLY Unshared(i, q), LeaseOf
  <2>. QED
    BY <2>1 DEF m
<1>. HIDE DEF l, m
<1>3. None \notin Clients
  BY ThreadedAssumption
<1>4. ASSUME NEW b \in Addrs PROVE m[b] = IF l[b] = c THEN None ELSE l[b]
  <2>1. CASE \E d \in Clients : i[d] = b /\ r[d] # "ended" /\ d # c
    <3>1. PICK d \in Clients : i[d] = b /\ r[d] # "ended" /\ d # c
      BY <2>1
    <3>2. q[d] # "ended"
      BY <3>1
    <3>. QED
      BY <1>1, <1>2, <3>1, <3>2
  <2>2. CASE \A d \in Clients : i[d] = b /\ r[d] # "ended" => d = c
    <3>1. \A d \in Clients : i[d] = b => q[d] = "ended"
      BY <2>2
    <3>2. m[b] = None
      BY <1>2, <3>1
    <3>3. l[b] \in {c, None}
      BY <1>1, <2>2
    <3>. QED
      BY <3>2, <3>3
  <2>. QED
    BY <2>1, <2>2
<1>. QED
  BY <1>4 DEF l, m

\* A step that neither gives nor takes back an address stops the pool at most.
SameReaders == \A d \in Clients : reader'[d] = "ended" <=> reader[d] = "ended"

LEMMA QuietForPool ==
  ASSUME UNCHANGED ipv4, SameReaders, process' = process \/ Up
  PROVE  [Pool!Next]_(Pool!vars)
<1>1. LeaseIn(ipv4', reader') = LeaseIn(ipv4, reader)
  <2>1. \A a \in Addrs : HoldersIn(ipv4', reader', a) = HoldersIn(ipv4, reader, a)
    BY DEF HoldersIn, SameReaders
  <2>. QED
    BY <2>1 DEF LeaseIn
<1>2. {c \in Clients : reader'[c] = "ended"} = {c \in Clients : reader[c] = "ended"}
  BY DEF SameReaders
<1>4. CASE Up' = Up
  <2>1. Lease' = Lease
    BY <1>1, <1>4, LeaseNow
  <2>. QED
    BY <1>2, <1>4, <2>1 DEF Pool!vars
<1>5. CASE Up /\ ~Up'
  <2>1. Lease' = [a \in Addrs |-> None]
    BY <1>5, LeaseNow
  <2>2. Pool!Stop
    BY <1>2, <1>5, <2>1 DEF Pool!Stop
  <2>. QED
    BY <2>2 DEF Pool!Next
<1>6. Up' = Up \/ (Up /\ ~Up')
  BY DEF Up
<1>. QED
  BY <1>4, <1>5, <1>6

LEMMA RequestForPool ==
  ASSUME IInv, TableInv, TableInv', Serial, NEW c \in Clients, HandleRequest(c)
  PROVE  [Pool!Next]_(Pool!vars)
<1>1. /\ reader \in [Clients -> Places] /\ ipv4 \in [Clients -> Addrs \cup {0}]
      /\ reader[c] = "handle" /\ Up /\ \A d \in Clients \ {c} : ~Assigning(d)
  BY DEF IInv, Typed, HandleRequest
<1>2. CASE UNCHANGED ipv4 /\ (UNCHANGED reader \/ Reader(c, "answer"))
  <2>1. SameReaders
    BY <1>1, <1>2 DEF SameReaders, Reader
  <2>. QED
    BY <1>1, <1>2, <2>1, QuietForPool
<1>3. CASE ~(UNCHANGED ipv4 /\ (UNCHANGED reader \/ Reader(c, "answer")))
  <2>. DEFINE free == {a \in Addrs : ~status[a]}
  <2>1. ipv4[c] = 0 /\ free # {}
    BY <1>3 DEF HandleRequest, GetFreeIP
  <2>2. PICK a : a = Min(free)
    OBVIOUS
  <2>3. ipv4' = [ipv4 EXCEPT ![c] = a] /\ reader' = [reader EXCEPT ![c] = "answer"] /\ Up'
    BY <1>1, <2>1, <2>2 DEF HandleRequest, GetFreeIP, Reader, Up
  <2>4. a \in Addrs /\ ~status[a]
    BY <2>1, <2>2, LeastFree DEF Addrs
  <2>. HIDE DEF free
  <2>5. \A d \in Clients : ipv4[d] = a => reader[d] = "ended"
    <3>1. a # 0
      BY <2>4 DEF Addrs
    <3>. QED
      BY <1>1, <2>1, <2>4, <3>1 DEF TableInv, Served, Assigning, Places
  <2>6. Unshared(ipv4, reader) /\ Unshared(ipv4', reader')
    BY DEF TableInv, AddressUnique, Unshared
  <2>. DEFINE l == LeaseIn(ipv4, reader)
  <2>7. /\ l[a] = None /\ \A b \in Addrs : l[b] # c
        /\ LeaseIn(ipv4', reader') = [l EXCEPT ![a] = c]
    <3>1. PICK i, r, j, q : i = ipv4 /\ r = reader /\ j = ipv4' /\ q = reader'
      OBVIOUS
    <3>2. /\ i \in [Clients -> Addrs \cup {0}] /\ r \in [Clients -> Places]
          /\ i[c] = 0 /\ r[c] # "ended" /\ \A d \in Clients : i[d] = a => r[d] = "ended"
          /\ Unshared(i, r) /\ Unshared(j, q)
          /\ \A d \in Clients : j[d] = IF d = c THEN a ELSE i[d]
          /\ \A d \in Clients : q[d] = IF d = c THEN "answer" ELSE r[d]
      BY <1>1, <2>1, <2>3, <2>5, <2>6, <3>1
    <3>3. /\ LeaseIn(i, r)[a] = None /\ \A b \in Addrs : LeaseIn(i, r)[b] # c
          /\ \A b \in Addrs : LeaseIn(j, q)[b] = IF b = a THEN c ELSE LeaseIn(i, r)[b]
      BY ONLY <2>4, <3>2, c \in Clients, LeaseGrows
    <3>4. LeaseIn(j, q) = [LeaseIn(i, r) EXCEPT ![a] = c]
      BY <3>3 DEF LeaseIn
    <3>. QED
      BY <3>1, <3>3, <3>4
  <2>8. Lease = l /\ Lease' = LeaseIn(ipv4', reader')
    BY <1>1, <2>3, LeaseNow
  <2>. HIDE DEF l
  <2>9. {d \in Clients : reader'[d] = "ended"} = {d \in Clients : reader[d] = "ended"}
    BY <1>1, <2>3
  <2>10. Pool!Grant(a, c)
    BY <1>1, <2>3, <2>4, <2>7, <2>8, <2>9 DEF Pool!Grant
  <2>. QED
    BY <2>4, <2>10 DEF Pool!Next
<1>. QED
  BY <1>2, <1>3

LEMMA EndForPool ==
  ASSUME IInv, TableInv, TableInv', NEW c \in Clients, EndReading(c)
  PROVE  [Pool!Next]_(Pool!vars)
<1>1. /\ reader \in [Clients -> Places] /\ ipv4 \in [Clients -> Addrs \cup {0}]
      /\ reader[c] = "end" /\ Up /\ ipv4' = ipv4
  BY DEF IInv, Typed, EndReading
<1>2. CASE UNCHANGED reader
  <2>1. SameReaders
    BY <1>2 DEF SameReaders
  <2>. QED
    BY <1>1, <2>1, QuietForPool
<1>3. CASE ~UNCHANGED reader
  <2>1. reader' = [reader EXCEPT ![c] = "ended"] /\ Up'
    BY <1>1, <1>3 DEF EndReading, SetIpStatus, Reader, Up
  <2>2. Unshared(ipv4, reader) /\ Unshared(ipv4, reader')
    BY <1>1 DEF TableInv, AddressUnique, Unshared
  <2>. DEFINE l == LeaseIn(ipv4, reader)
  <2>3. LeaseIn(ipv4, reader') = [b \in Addrs |-> IF l[b] = c THEN None ELSE l[b]]
    <3>1. PICK i, r, q : i = ipv4 /\ r = reader /\ q = reader'
      OBVIOUS
    <3>2. /\ i \in [Clients -> Addrs \cup {0}] /\ r \in [Clients -> Places]
          /\ Unshared(i, r) /\ Unshared(i, q)
          /\ \A d \in Clients : q[d] = IF d = c THEN "ended" ELSE r[d]
      BY <1>1, <2>1, <2>2, <3>1
    <3>3. \A b \in Addrs :
            LeaseIn(i, q)[b] = IF LeaseIn(i, r)[b] = c THEN None ELSE LeaseIn(i, r)[b]
      BY ONLY <3>2, c \in Clients, LeaseShrinks
    <3>4. LeaseIn(i, q) = [b \in Addrs |-> IF LeaseIn(i, r)[b] = c THEN None
                                              ELSE LeaseIn(i, r)[b]]
      BY <3>3 DEF LeaseIn
    <3>. QED
      BY <3>1, <3>4
  <2>4. Lease = l /\ Lease' = LeaseIn(ipv4, reader')
    BY <1>1, <2>1, LeaseNow
  <2>. HIDE DEF l
  <2>5. /\ c \notin {d \in Clients : reader[d] = "ended"}
        /\ {d \in Clients : reader'[d] = "ended"}
             = {d \in Clients : reader[d] = "ended"} \cup {c}
    BY <1>1, <2>1
  <2>6. Pool!Close(c)
    BY <1>1, <2>1, <2>3, <2>4, <2>5 DEF Pool!Close
  <2>. QED
    BY <2>6 DEF Pool!Next
<1>. QED
  BY <1>2, <1>3

\* The other steps, of all threads and of the clients.
LEMMA OthersForPool ==
  ASSUME IInv, TableInv, [Next]_vars,
         ~\E c \in Clients : HandleRequest(c) \/ EndReading(c)
  PROVE  UNCHANGED ipv4 /\ SameReaders /\ (process' = process \/ Up)
<1>0. reader \in [Clients -> Places]
  BY DEF IInv, Typed
<1>1. ASSUME UNCHANGED reader PROVE SameReaders
  BY <1>1 DEF SameReaders
<1>2. ASSUME NEW c \in Clients, reader[c] # "ended", NEW there, there # "ended", Reader(c, there)
      PROVE  SameReaders
  BY <1>0, <1>2 DEF SameReaders, Reader
<1>3. ASSUME NEW c \in Clients, Accept(c) PROVE UNCHANGED ipv4 /\ SameReaders /\ process' = process
  <2>1. reader[c] = "none" /\ Reader(c, "loop")
    BY <1>3 DEF Accept, IInv, StartedInv
  <2>. QED
    BY <1>2, <1>3, <2>1 DEF Accept
<1>4. ASSUME NEW c \in Clients, Ask(c) \/ Talk(c) \/ Leave(c) \/ WriterStep(c) \/ KeeperStep(c)
      PROVE  UNCHANGED <<ipv4, reader>> /\ Up
  BY <1>4 DEF Ask, Talk, Leave, WriterStep, WriteFrame, WriteFrameBody, KeeperStep, KeepTick,
      KeepTest, KeepSend, KeepClose, readers
<1>5. TunStep => UNCHANGED <<ipv4, reader>> /\ Up
  BY DEF TunStep, TunRead, TunPush, readers
<1>6. UNCHANGED vars => UNCHANGED <<ipv4, reader, process>>
  BY DEF readers, vars
<1>7. ASSUME NEW c \in Clients,
             \/ ReadLoop(c) \/ ReadHeader(c) \/ ReadEnd(c) \/ ReadBody(c) \/ ReadBodyEnd(c)
             \/ HandleKeepalive(c) \/ HandleData(c) \/ HandleOther(c)
             \/ Answer(c) \/ AnswerBody(c) \/ Mark(c) \/ SetConnection(c)
      PROVE  UNCHANGED ipv4 /\ SameReaders /\ Up
  <2>1. UNCHANGED ipv4 /\ Up /\ reader[c] # "ended"
    <3>1. CASE ReadLoop(c) \/ ReadHeader(c) \/ ReadEnd(c) \/ ReadBody(c) \/ ReadBodyEnd(c)
      BY <3>1 DEF ReadLoop, ReadHeader, ReadEnd, ReadBody, ReadBodyEnd
    <3>2. CASE HandleKeepalive(c) \/ HandleData(c) \/ HandleOther(c)
      BY <3>2 DEF HandleKeepalive, HandleData, HandleOther
    <3>3. CASE Answer(c) \/ AnswerBody(c) \/ Mark(c) \/ SetConnection(c)
      BY <3>3 DEF Answer, AnswerBody, Mark, SetConnection
    <3>. QED
      BY <1>7, <3>1, <3>2, <3>3
  <2>2. UNCHANGED reader \/ \E there \in Places \ {"ended"} : Reader(c, there)
    <3>. USE DEF Places
    <3>1. CASE ReadLoop(c) \/ ReadHeader(c) \/ ReadEnd(c) \/ ReadBody(c) \/ ReadBodyEnd(c)
      BY <3>1 DEF ReadLoop, ReadHeader, ReadEnd, ReadBody, ReadBodyEnd, CallReadHeader,
          CallReadBody, CallRead
    <3>2. CASE HandleKeepalive(c) \/ HandleData(c) \/ HandleOther(c)
      BY <3>2 DEF HandleKeepalive, HandleData, HandleOther, CallReadBody, CallRead
    <3>3. CASE Answer(c) \/ AnswerBody(c) \/ Mark(c) \/ SetConnection(c)
      BY <3>3 DEF Answer, AnswerBody, Mark, SetConnection, SetIpStatus
    <3>. QED
      BY <1>7, <3>1, <3>2, <3>3
  <2>. QED
    BY <1>1, <1>2, <2>1, <2>2
<1>. QED
  BY <1>1, <1>3, <1>4, <1>5, <1>6, <1>7 DEF Next, ReaderStep

\* With requests one at a time the threads implement the pool of AddressPool, as
\* the single thread of the other server does: from getFreeIP on an address has one
\* holder, and it is free again only after the reader of that holder has ended.
THEOREM ImplementsPool == ASSUME Serial PROVE Spec => PoolSpec
<1>1. Init => Pool!Init
  <2>. SUFFICES ASSUME Init PROVE Pool!Init
    OBVIOUS
  <2>1. \A a \in Addrs : Holders(a) = {}
    BY DEF Init, Holders, Addrs
  <2>2. Lease = [a \in Addrs |-> None]
    BY <2>1 DEF Lease
  <2>3. {c \in Clients : reader[c] = "ended"} = {}
    BY DEF Init
  <2>. QED
    BY <2>2, <2>3 DEF Pool!Init, Init, Up
<1>2. ASSUME IInv, TableInv, TableInv', [Next]_vars PROVE [Pool!Next]_(Pool!vars)
  BY <1>2, RequestForPool, EndForPool, OthersForPool, QuietForPool
<1>. QED
  BY <1>1, <1>2, Invariant, TableInvariant, PTL DEF Spec, PoolSpec, Pool!Spec

\* So no address passes from one connection to another in one step.
THEOREM NeverHandsOver == ASSUME Serial PROVE Spec => Pool!NeverHandedOver
<1>1. Pool!Spec => Pool!NeverHandedOver
  BY Pool!PoolNeverHandsOver, ThreadedAssumption
<1>. QED
  BY <1>1, ImplementsPool, PTL DEF PoolSpec

---------------------------------------------------------------------------
(* Numbers that pass from a connection to the next.                        *)

\* A number is of one connection from accept() to the close of its keepalive
\* thread, and a connection has its three threads from accept() on.
NumbersInv ==
    /\ NumberStaysOurs
    /\ \A f \in Fds : file[f] # None => keeper[file[f]] \in Active /\ fd[file[f]] = f
    /\ \A c \in Clients : /\ keeper[c] = "none" <=> writer[c] = "none"
                          /\ keeper[c] = "none" <=> peer[c] = "away"

\* Which steps touch the numbers, and that nobody else does.
LEMMA NumbersUntouched ==
  ASSUME [Next]_vars, ~\E c \in Clients : Accept(c) \/ KeeperStep(c)
  PROVE  UNCHANGED <<fd, file, keeper>>
<1>1. ASSUME NEW c \in Clients, Ask(c) \/ Talk(c) \/ Leave(c) \/ WriterStep(c)
      PROVE  UNCHANGED <<fd, file, keeper>>
  BY <1>1 DEF Ask, Talk, Leave, WriterStep, WriteFrame, WriteFrameBody
<1>2. ASSUME NEW c \in Clients, ReaderStep(c) PROVE UNCHANGED <<fd, file, keeper>>
  <2>1. CASE ReadLoop(c) \/ ReadHeader(c) \/ ReadEnd(c) \/ ReadBody(c) \/ ReadBodyEnd(c)
    BY <2>1 DEF ReadLoop, ReadHeader, ReadEnd, ReadBody, ReadBodyEnd
  <2>2. CASE HandleRequest(c) \/ HandleKeepalive(c) \/ HandleData(c) \/ HandleOther(c)
    BY <2>2 DEF HandleRequest, HandleKeepalive, HandleData, HandleOther
  <2>3. CASE Answer(c) \/ AnswerBody(c) \/ Mark(c) \/ SetConnection(c) \/ EndReading(c)
    BY <2>3 DEF Answer, AnswerBody, Mark, SetConnection, EndReading
  <2>. QED
    BY <1>2, <2>1, <2>2, <2>3 DEF ReaderStep
<1>3. TunStep \/ UNCHANGED vars => UNCHANGED <<fd, file, keeper>>
  BY DEF TunStep, TunRead, TunPush, vars
<1>. QED
  BY <1>1, <1>2, <1>3 DEF Next

\* A write thread is started by accept() and never forgotten, and a client that
\* has come does not come again.
LEMMA StartedOnce ==
  ASSUME IInv, [Next]_vars, ~\E c \in Clients : Accept(c)
  PROVE  \A d \in Clients : /\ writer'[d] = "none" <=> writer[d] = "none"
                            /\ peer'[d] = "away" <=> peer[d] = "away"
<1>0. /\ writer \in [Clients -> {"none", "pop", "body", "ended"}]
      /\ peer \in [Clients -> {"away", "connected", "asked", "gone"}]
  BY DEF IInv, Typed
<1>1. ASSUME NEW c \in Clients, Ask(c) \/ Talk(c) \/ Leave(c)
      PROVE  \A d \in Clients : /\ writer'[d] = "none" <=> writer[d] = "none"
                                /\ peer'[d] = "away" <=> peer[d] = "away"
  <2>1. /\ UNCHANGED writer
        /\ \/ UNCHANGED peer
           \/ /\ peer[c] # "away"
              /\ \E p \in {"asked", "gone"} : peer' = [peer EXCEPT ![c] = p]
    BY <1>1 DEF Ask, Talk, Leave, writers
  <2>. QED
    BY <1>0, <2>1
<1>2. ASSUME NEW c \in Clients, WriterStep(c)
      PROVE  \A d \in Clients : /\ writer'[d] = "none" <=> writer[d] = "none"
                                /\ peer'[d] = "away" <=> peer[d] = "away"
  <2>1. /\ UNCHANGED peer /\ writer[c] # "none"
        /\ \E there \in {"pop", "body", "ended"} : writer' = [writer EXCEPT ![c] = there]
    BY <1>2 DEF WriterStep, WriteFrame, WriteFrameBody, clients
  <2>. QED
    BY <1>0, <2>1
<1>3. ASSUME NEW c \in Clients, ReaderStep(c) PROVE UNCHANGED <<writer, peer>>
  <2>1. CASE ReadLoop(c) \/ ReadHeader(c) \/ ReadEnd(c) \/ ReadBody(c) \/ ReadBodyEnd(c)
    BY <2>1 DEF ReadLoop, ReadHeader, ReadEnd, ReadBody, ReadBodyEnd, writers, clients
  <2>2. CASE HandleRequest(c) \/ HandleKeepalive(c) \/ HandleData(c) \/ HandleOther(c)
    BY <2>2 DEF HandleRequest, HandleKeepalive, HandleData, HandleOther, writers, clients
  <2>3. CASE Answer(c) \/ AnswerBody(c) \/ Mark(c) \/ SetConnection(c) \/ EndReading(c)
    BY <2>3 DEF Answer, AnswerBody, Mark, SetConnection, EndReading, writers, clients
  <2>. QED
    BY <1>3, <2>1, <2>2, <2>3 DEF ReaderStep
<1>4. ASSUME NEW c \in Clients, KeeperStep(c) PROVE UNCHANGED <<writer, peer>>
  BY <1>4 DEF KeeperStep, KeepTick, KeepTest, KeepSend, KeepClose, writers, clients
<1>5. TunStep \/ UNCHANGED vars => UNCHANGED <<writer, peer>>
  BY DEF TunStep, TunRead, TunPush, vars, writers, clients
<1>. QED
  BY <1>1, <1>2, <1>3, <1>4, <1>5 DEF Next

LEMMA NumbersKeep == IInv /\ NumbersInv /\ [Next]_vars => NumbersInv'
<1>. SUFFICES ASSUME IInv, NumbersInv, [Next]_vars PROVE NumbersInv'
  OBVIOUS
<1>0. NumberStaysOurs'
  BY NumberKeeps DEF NumbersInv
<1>1. /\ fd \in [Clients -> Fds] /\ file \in [Fds -> Clients \cup {None}] /\ None \notin Clients
      /\ keeper \in [Clients -> {"none", "loop", "test", "send", "close", "ended"}]
      /\ writer \in [Clients -> {"none", "pop", "body", "ended"}]
      /\ peer \in [Clients -> {"away", "connected", "asked", "gone"}]
  BY ThreadedAssumption DEF IInv, Typed
<1>2. /\ \A f \in Fds : file[f] # None => keeper[file[f]] \in Active /\ fd[file[f]] = f
      /\ \A c \in Clients : /\ keeper[c] = "none" <=> writer[c] = "none"
                            /\ keeper[c] = "none" <=> peer[c] = "away"
  BY DEF NumbersInv
<1>3. ASSUME NEW c \in Clients, Accept(c) PROVE NumbersInv'
  <2>. DEFINE f == Min({g \in Fds : file[g] = None})
  <2>1. f \in Fds /\ file[f] = None
    BY <1>3, LeastFree DEF Accept, Fds
  <2>2. /\ fd' = [fd EXCEPT ![c] = f] /\ file' = [file EXCEPT ![f] = c]
        /\ keeper' = [keeper EXCEPT ![c] = "loop"] /\ writer' = [writer EXCEPT ![c] = "pop"]
        /\ peer' = [peer EXCEPT ![c] = "connected"] /\ peer[c] = "away"
    BY <1>3 DEF Accept
  <2>. HIDE DEF f
  <2>3. keeper[c] = "none"
    BY <1>2, <2>2
  <2>4. \A g \in Fds : file'[g] # None => keeper'[file'[g]] \in Active /\ fd'[file'[g]] = g
    BY <1>1, <1>2, <2>1, <2>2, <2>3 DEF Active
  <2>5. \A d \in Clients : /\ keeper'[d] = "none" <=> writer'[d] = "none"
                           /\ keeper'[d] = "none" <=> peer'[d] = "away"
    BY <1>1, <1>2, <2>2
  <2>. QED
    BY <1>0, <2>4, <2>5 DEF NumbersInv
<1>4. CASE ~\E c \in Clients : Accept(c)
  <2>1. \A d \in Clients : /\ writer'[d] = "none" <=> writer[d] = "none"
                           /\ peer'[d] = "away" <=> peer[d] = "away"
    BY <1>4, StartedOnce
  <2>2. CASE \E c \in Clients : KeepClose(c)
    <3>1. PICK c \in Clients : KeepClose(c)
      BY <2>2
    <3>2. /\ keeper[c] \in Active /\ keeper' = [keeper EXCEPT ![c] = "ended"]
          /\ fd' = fd /\ file' = [file EXCEPT ![fd[c]] = None]
      BY <3>1 DEF KeepClose, Active
    <3>3. \A g \in Fds : file'[g] # None => keeper'[file'[g]] \in Active /\ fd'[file'[g]] = g
      <4>1. ASSUME NEW g \in Fds, file'[g] # None
            PROVE  g # fd[c] /\ file'[g] = file[g] /\ file[g] # c
        BY <1>1, <1>2, <3>2, <4>1
      <4>. QED
        BY <1>1, <1>2, <3>2, <4>1
    <3>4. \A d \in Clients : keeper'[d] = "none" <=> keeper[d] = "none"
      BY <1>1, <3>2 DEF Active
    <3>. QED
      BY <1>0, <1>2, <2>1, <3>3, <3>4 DEF NumbersInv
  <2>3. CASE \E c \in Clients : KeepTick(c) \/ KeepTest(c) \/ KeepSend(c)
    <3>1. PICK c \in Clients, there \in Active :
            /\ keeper' = [keeper EXCEPT ![c] = there] /\ keeper[c] \in Active
            /\ UNCHANGED <<fd, file>>
      BY <2>3 DEF KeepTick, KeepTest, KeepSend, Active
    <3>2. \A d \in Clients : /\ keeper'[d] = "none" <=> keeper[d] = "none"
                             /\ keeper[d] \in Active => keeper'[d] \in Active
      BY <1>1, <3>1 DEF Active
    <3>. QED
      BY <1>0, <1>1, <1>2, <2>1, <3>1, <3>2 DEF NumbersInv
  <2>4. CASE ~\E c \in Clients : KeeperStep(c)
    <3>1. UNCHANGED <<fd, file, keeper>>
      BY <1>4, <2>4, NumbersUntouched
    <3>. QED
      BY <1>0, <1>2, <2>1, <3>1 DEF NumbersInv
  <2>. QED
    BY <2>2, <2>3, <2>4 DEF KeeperStep
<1>. QED
  BY <1>3, <1>4

\* A connection that has inherited its number keeps it.
LEMMA InheritedStays ==
  ASSUME IInv, NumbersInv, [Next]_vars, NEW k \in Clients, keeper[k] # "none", Inherited(k)
  PROVE  Inherited(k)'
<1>1. PICK c \in Clients \ {k} : keeper[c] = "ended" /\ fd[c] = fd[k]
  BY DEF Inherited
<1>2. /\ fd \in [Clients -> Fds] /\ peer[c] # "away" /\ peer[k] # "away"
      /\ keeper \in [Clients -> {"none", "loop", "test", "send", "close", "ended"}]
  BY <1>1 DEF IInv, Typed, NumbersInv
<1>3. fd'[c] = fd[c] /\ fd'[k] = fd[k] /\ keeper'[c] = "ended"
  <2>1. ASSUME NEW d \in Clients, Accept(d)
        PROVE  /\ fd'[c] = fd[c] /\ fd'[k] = fd[k] /\ keeper'[c] = "ended"
    BY <1>1, <1>2, <2>1 DEF Accept
  <2>2. ASSUME NEW d \in Clients, KeeperStep(d)
        PROVE  /\ fd'[c] = fd[c] /\ fd'[k] = fd[k] /\ keeper'[c] = "ended"
    BY <1>1, <1>2, <2>2 DEF KeeperStep, KeepTick, KeepTest, KeepSend, KeepClose
  <2>3. CASE ~\E d \in Clients : Accept(d) \/ KeeperStep(d)
    BY <1>1, <2>3, NumbersUntouched
  <2>. QED
    BY <2>1, <2>2, <2>3
<1>. QED
  BY <1>1, <1>3 DEF Inherited

\* A client that nobody but its own connection can reach (if it has come at all).
Own(k) == keeper[k] # "none" => ~Inherited(k)

LEMMA OwnBefore ==
  ASSUME IInv, NumbersInv, [Next]_vars, NEW k \in Clients, Own(k)' PROVE Own(k)
<1>1. CASE keeper'[k] = "none"
  <2>1. CASE \E c \in Clients : Accept(c)
    <3>1. keeper \in [Clients -> {"none", "loop", "test", "send", "close", "ended"}]
      BY DEF IInv, Typed
    <3>. QED
      BY <1>1, <2>1, <3>1 DEF Accept, Own
  <2>2. CASE ~\E c \in Clients : Accept(c)
    <3>1. peer'[k] = "away"
      BY <1>1, NumbersKeep DEF NumbersInv
    <3>. QED
      BY <2>2, <3>1, StartedOnce DEF NumbersInv, Own
  <2>. QED
    BY <2>1, <2>2
<1>2. CASE keeper'[k] # "none"
  BY <1>2, InheritedStays DEF Own
<1>. QED
  BY <1>1, <1>2

\* Where a write goes.
LEMMA WriteReaches ==
  ASSUME IInv, NumbersInv, NEW c \in Clients, keeper[c] # "none",
         NEW t, NEW part, NEW ok, Write(c, t, part, ok)
  PROVE  /\ \A k \in Clients \ {c} : Own(k) => wire'[k] = wire[k] /\ first'[k] = first[k]
         /\ keeper[c] \notin Active => wire'[c] = wire[c] /\ first'[c] = first[c]
         /\ keeper[c] \in Active =>
              /\ ok = TRUE /\ wire'[c] = Received(part, <<c, t>>, wire[c])
              /\ first'[c] = IF first[c] = "nothing" /\ part = "header" THEN t ELSE first[c]
<1>. DEFINE k == file[fd[c]]
<1>1. /\ fd[c] \in Fds /\ k \in Clients \cup {None} /\ None \notin Clients
      /\ keeper[c] \in Active \cup {"none", "ended"}
      /\ wire \in [Clients -> Part] /\ first \in [Clients -> {"nothing", "address", "frame"}]
  BY ThreadedAssumption DEF IInv, Typed, Active
<1>2. /\ k # None => keeper[k] \in Active /\ fd[k] = fd[c]
      /\ keeper[c] \in Active => k = c
  BY <1>1 DEF NumbersInv, NumberStaysOurs, Active
<1>3. CASE k = None
  BY <1>1, <1>2, <1>3 DEF Write, out
<1>4. CASE k # None
  <2>1. /\ ok = TRUE /\ k \in Clients
        /\ wire' = [wire EXCEPT ![k] = Received(part, <<c, t>>, wire[k])]
        /\ first' = IF first[k] = "nothing" /\ part = "header"
                    THEN [first EXCEPT ![k] = t] ELSE first
    BY <1>1, <1>4 DEF Write
  <2>2. k # c => ~Own(k)
    BY <1>1, <1>2, <1>4, <2>1 DEF Own, Inherited, Active
  <2>3. k = c => keeper[c] \in Active
    BY <1>2, <1>4
  <2>. HIDE DEF k
  <2>4. \A d \in Clients : d # k => wire'[d] = wire[d] /\ first'[d] = first[d]
    BY <1>1, <2>1
  <2>5. /\ wire'[k] = Received(part, <<c, t>>, wire[k])
        /\ first'[k] = IF first[k] = "nothing" /\ part = "header" THEN t ELSE first[k]
    BY <1>1, <2>1
  <2>. QED
    BY <1>2, <2>1, <2>2, <2>3, <2>4, <2>5
<1>. QED
  BY <1>3, <1>4

\* What a step of connection c or of client c leaves alone: all the others, and
\* what client c has received if the number of c is closed.
StepOf(c) ==
    \/ Accept(c) \/ Ask(c) \/ Talk(c) \/ Leave(c)
    \/ ReaderStep(c) \/ WriterStep(c) \/ KeeperStep(c)

LEMMA StepWrites ==
  ASSUME IInv, NumbersInv, NEW c \in Clients, StepOf(c)
  PROVE  \/ UNCHANGED out
         \/ /\ keeper[c] # "none"
            /\ \E t \in Sender, part \in {"header", "body", "whole"}, ok \in BOOLEAN :
                 Write(c, t, part, ok)
<1>. USE DEF Sender
<1>1. CASE Accept(c) \/ Ask(c) \/ Talk(c) \/ Leave(c)
  BY <1>1 DEF Accept, Ask, Talk, Leave
<1>2. CASE ReaderStep(c)
  <2>1. CASE ReadLoop(c) \/ ReadHeader(c) \/ ReadEnd(c) \/ ReadBody(c) \/ ReadBodyEnd(c)
    BY <2>1 DEF ReadLoop, ReadHeader, ReadEnd, ReadBody, ReadBodyEnd
  <2>2. CASE HandleRequest(c) \/ HandleKeepalive(c) \/ HandleData(c) \/ HandleOther(c)
    BY <2>2 DEF HandleRequest, HandleKeepalive, HandleData, HandleOther
  <2>3. CASE Mark(c) \/ SetConnection(c) \/ EndReading(c)
    BY <2>3 DEF Mark, SetConnection, EndReading
  <2>4. CASE Answer(c) \/ AnswerBody(c)
    <3>1. \E part \in {"header", "body"}, ok \in BOOLEAN : Write(c, "address", part, ok)
      BY <2>4 DEF Answer, AnswerBody, SendHeader, SendBody
    <3>2. keeper[c] # "none"
      BY <2>4 DEF Answer, AnswerBody, IInv, StartedInv, NumbersInv
    <3>. QED
      BY <3>1, <3>2
  <2>. QED
    BY <1>2, <2>1, <2>2, <2>3, <2>4 DEF ReaderStep
<1>3. CASE WriterStep(c)
  <2>1. \E part \in {"header", "body"}, ok \in BOOLEAN : Write(c, "frame", part, ok)
    BY <1>3 DEF WriterStep, WriteFrame, WriteFrameBody, SendHeader, SendBody
  <2>2. keeper[c] # "none"
    BY <1>3 DEF WriterStep, WriteFrame, WriteFrameBody, NumbersInv
  <2>. QED
    BY <2>1, <2>2
<1>4. CASE KeeperStep(c)
  <2>1. CASE KeepSend(c)
    <3>1. \E ok \in BOOLEAN : Write(c, "heartbeat", "whole", ok)
      BY <2>1 DEF KeepSend
    <3>. QED
      BY <2>1, <3>1 DEF KeepSend
  <2>2. CASE KeepTick(c) \/ KeepTest(c) \/ KeepClose(c)
    BY <2>2 DEF KeepTick, KeepTest, KeepClose
  <2>. QED
    BY <1>4, <2>1, <2>2 DEF KeeperStep
<1>. QED
  BY <1>1, <1>2, <1>3, <1>4 DEF StepOf

LEMMA OthersReceiveNothing ==
  ASSUME IInv, NumbersInv, NEW c \in Clients, StepOf(c), NEW k \in Clients, Own(k),
         k # c \/ keeper[c] \notin Active
  PROVE  wire'[k] = wire[k] /\ first'[k] = first[k]
<1>1. CASE UNCHANGED out
  BY <1>1 DEF out
<1>2. CASE ~UNCHANGED out
  <2>1. PICK t \in Sender, part \in {"header", "body", "whole"}, ok \in BOOLEAN :
          Write(c, t, part, ok)
    BY <1>2, StepWrites
  <2>2. keeper[c] # "none"
    BY <1>2, StepWrites
  <2>. QED
    BY <2>1, <2>2, WriteReaches
<1>. QED
  BY <1>1, <1>2

\* The threads of the others do not move.
LEMMA OthersRest ==
  ASSUME IInv, NEW c \in Clients, StepOf(c), NEW k \in Clients, k # c
  PROVE  /\ reader'[k] = reader[k] /\ writer'[k] = writer[k] /\ keeper'[k] = keeper[k]
         /\ sender'[k] = sender[k] /\ wtSktQue'[k] = wtSktQue[k]
<1>0. /\ reader \in [Clients -> Places] /\ sender \in [Clients -> {None, "address", "frame"}]
      /\ writer \in [Clients -> {"none", "pop", "body", "ended"}]
      /\ keeper \in [Clients -> {"none", "loop", "test", "send", "close", "ended"}]
      /\ wtSktQue \in [Clients -> Seq(Addrs)]
  BY DEF IInv, Typed
<1>1. CASE Accept(c) \/ Ask(c) \/ Talk(c) \/ Leave(c)
  BY <1>0, <1>1 DEF Accept, Ask, Talk, Leave, Reader, readers, writers
<1>2. CASE ReaderStep(c)
  <2>1. UNCHANGED <<writers, keeper>>
    <3>1. CASE ReadLoop(c) \/ ReadHeader(c) \/ ReadEnd(c) \/ ReadBody(c) \/ ReadBodyEnd(c)
      BY <3>1 DEF ReadLoop, ReadHeader, ReadEnd, ReadBody, ReadBodyEnd
    <3>2. CASE HandleRequest(c) \/ HandleKeepalive(c) \/ HandleData(c) \/ HandleOther(c)
      BY <3>2 DEF HandleRequest, HandleKeepalive, HandleData, HandleOther
    <3>3. CASE Answer(c) \/ AnswerBody(c) \/ Mark(c) \/ SetConnection(c) \/ EndReading(c)
      BY <3>3 DEF Answer, AnswerBody, Mark, SetConnection, EndReading
    <3>. QED
      BY <1>2, <3>1, <3>2, <3>3 DEF ReaderStep
  <2>2. UNCHANGED reader \/ \E there \in Places : Reader(c, there)
    <3>. USE DEF Places
    <3>1. CASE ReadLoop(c) \/ ReadHeader(c) \/ ReadEnd(c) \/ ReadBody(c) \/ ReadBodyEnd(c)
      BY <3>1 DEF ReadLoop, ReadHeader, ReadEnd, ReadBody, ReadBodyEnd, CallReadHeader,
          CallReadBody, CallRead
    <3>2. CASE HandleKeepalive(c) \/ HandleData(c) \/ HandleOther(c)
      BY <3>2 DEF HandleKeepalive, HandleData, HandleOther, CallReadBody, CallRead
    <3>3. CASE HandleRequest(c)
      BY <3>3 DEF HandleRequest, GetFreeIP
    <3>4. CASE Mark(c) \/ EndReading(c)
      BY <3>4 DEF Mark, EndReading, SetIpStatus
    <3>5. CASE Answer(c) \/ AnswerBody(c) \/ SetConnection(c)
      BY <3>5 DEF Answer, AnswerBody, SetConnection
    <3>. QED
      BY <1>2, <3>1, <3>2, <3>3, <3>4, <3>5 DEF ReaderStep
  <2>3. sender' = sender \/ \E t \in {None, "address"} : sender' = [sender EXCEPT ![c] = t]
    <3>1. CASE ReadLoop(c) \/ ReadHeader(c) \/ ReadEnd(c) \/ ReadBody(c) \/ ReadBodyEnd(c)
      BY <3>1 DEF ReadLoop, ReadHeader, ReadEnd, ReadBody, ReadBodyEnd
    <3>2. CASE HandleRequest(c) \/ HandleKeepalive(c) \/ HandleData(c) \/ HandleOther(c)
      BY <3>2 DEF HandleRequest, HandleKeepalive, HandleData, HandleOther
    <3>3. CASE Mark(c) \/ SetConnection(c) \/ EndReading(c)
      BY <3>3 DEF Mark, SetConnection, EndReading
    <3>4. CASE Answer(c) \/ AnswerBody(c)
      BY <3>4 DEF Answer, AnswerBody, SendHeader, SendBody
    <3>. QED
      BY <1>2, <3>1, <3>2, <3>3, <3>4 DEF ReaderStep
  <2>. QED
    BY <1>0, <2>1, <2>2, <2>3 DEF writers, Reader
<1>3. CASE WriterStep(c)
  <2>1. /\ UNCHANGED <<readers, keeper>>
        /\ \E there \in {"pop", "body", "ended"} : writer' = [writer EXCEPT ![c] = there]
        /\ wtSktQue' \in {wtSktQue, [wtSktQue EXCEPT ![c] = Tail(wtSktQue[c])]}
        /\ sender' = sender \/ \E t \in {None, "frame"} : sender' = [sender EXCEPT ![c] = t]
    BY <1>3 DEF WriterStep, WriteFrame, WriteFrameBody, SendHeader, SendBody
  <2>. QED
    BY <1>0, <2>1 DEF readers
<1>4. CASE KeeperStep(c)
  <2>1. /\ UNCHANGED <<readers, writers, sender>>
        /\ \E there \in {"loop", "test", "send", "close", "ended"} :
             keeper' = [keeper EXCEPT ![c] = there]
    BY <1>4 DEF KeeperStep, KeepTick, KeepTest, KeepSend, KeepClose
  <2>. QED
    BY <1>0, <2>1 DEF readers, writers
<1>. QED
  BY <1>1, <1>2, <1>3, <1>4 DEF StepOf

---------------------------------------------------------------------------
(* What a client receives.                                                 *)

\* What is on the wire to a client is what the holder of the mutex of its
\* connection has begun, until its number is closed.
Sound(k) ==
    /\ wire[k] # Broken
    /\ keeper[k] = "none" => wire[k] = <<>> /\ sender[k] = None
    /\ keeper[k] \in Active =>
         /\ wire[k] = IF sender[k] = None THEN <<>> ELSE <<k, sender[k]>>
         /\ reader[k] = "body" <=> sender[k] = "address"
         /\ writer[k] = "body" <=> sender[k] = "frame"

WireInv == \A k \in Clients : Own(k) => Sound(k)

LEMMA NotBroken == <<>> # Broken /\ \A c, t : <<c, t>> # Broken
<1>1. Len(Broken) = 1 /\ Len(<<>>) = 0 /\ \A c, t : Len(<<c, t>>) = 2
  BY DEF Broken
<1>. QED
  BY <1>1

\* A step after which Sound(k) is as it was, or weaker.
LEMMA SoundStays ==
  ASSUME NEW k \in Clients, Sound(k), wire'[k] = wire[k], sender'[k] = sender[k],
         keeper'[k] = "none" => keeper[k] = "none", keeper'[k] \in Active => keeper[k] \in Active,
         reader'[k] = "body" <=> reader[k] = "body", writer'[k] = "body" <=> writer[k] = "body"
  PROVE  Sound(k)'
  BY DEF Sound

\* The header takes the mutex, the body gives it back.
LEMMA HeaderSound ==
  ASSUME IInv, NumbersInv, NEW c \in Clients, Sound(c), keeper[c] \in Active,
         NEW t \in {"address", "frame"}, NEW ok, SendHeader(c, t, ok)
  PROVE  ok = TRUE /\ sender[c] = None /\ sender'[c] = t /\ wire'[c] = <<c, t>>
<1>1. sender[c] = None /\ wire[c] = <<>> /\ Write(c, t, "header", ok)
  BY DEF SendHeader, Sound
<1>2. keeper[c] # "none" /\ sender \in [Clients -> {None, "address", "frame"}]
  BY DEF Active, IInv, Typed
<1>5. ok = TRUE
  <2>1. file[fd[c]] # None
    BY ThreadedAssumption DEF NumbersInv, NumberStaysOurs, Active
  <2>. QED
    BY <1>1, <2>1 DEF Write
<1>3. wire'[c] = Received("header", <<c, t>>, wire[c])
  BY <1>1, <1>2, WriteReaches, Zenon
<1>4. Received("header", <<c, t>>, wire[c]) = <<c, t>>
  BY <1>1 DEF Received
<1>. QED
  BY <1>1, <1>2, <1>3, <1>4, <1>5 DEF SendHeader

LEMMA BodySound ==
  ASSUME IInv, NumbersInv, NEW c \in Clients, Sound(c), keeper[c] \in Active,
         NEW t \in {"address", "frame"}, sender[c] = t, NEW ok, SendBody(c, t, ok)
  PROVE  ok = TRUE /\ sender'[c] = None /\ wire'[c] = <<>>
<1>1. wire[c] = <<c, t>> /\ Write(c, t, "body", ok)
  BY ThreadedAssumption DEF SendBody, Sound
<1>2. keeper[c] # "none" /\ sender \in [Clients -> {None, "address", "frame"}]
  BY DEF Active, IInv, Typed
<1>5. ok = TRUE
  <2>1. file[fd[c]] # None
    BY ThreadedAssumption DEF NumbersInv, NumberStaysOurs, Active
  <2>. QED
    BY <1>1, <2>1 DEF Write
<1>3. wire'[c] = Received("body", <<c, t>>, wire[c])
  BY <1>1, <1>2, WriteReaches, Zenon
<1>4. Received("body", <<c, t>>, wire[c]) = <<>>
  BY <1>1 DEF Received
<1>. QED
  BY <1>2, <1>3, <1>4, <1>5 DEF SendBody

\* The steps of the connection itself, while its number is open.
LEMMA ReaderSound ==
  ASSUME IInv, NumbersInv, NEW c \in Clients, Sound(c), keeper[c] \in Active, ReaderStep(c)
  PROVE  Sound(c)'
<1>0. /\ reader \in [Clients -> Places] /\ None \notin {"address", "frame"}
      /\ Active \cap {"none", "ended"} = {}
  BY ThreadedAssumption DEF IInv, Typed, Active
<1>1. UNCHANGED <<writer, keeper>>
  <2>1. CASE ReadLoop(c) \/ ReadHeader(c) \/ ReadEnd(c) \/ ReadBody(c) \/ ReadBodyEnd(c)
    BY <2>1 DEF ReadLoop, ReadHeader, ReadEnd, ReadBody, ReadBodyEnd, writers
  <2>2. CASE HandleRequest(c) \/ HandleKeepalive(c) \/ HandleData(c) \/ HandleOther(c)
    BY <2>2 DEF HandleRequest, HandleKeepalive, HandleData, HandleOther, writers
  <2>3. CASE Answer(c) \/ AnswerBody(c) \/ Mark(c) \/ SetConnection(c) \/ EndReading(c)
    BY <2>3 DEF Answer, AnswerBody, Mark, SetConnection, EndReading, writers
  <2>. QED
    BY <2>1, <2>2, <2>3 DEF ReaderStep
<1>2. CASE Answer(c)
  <2>1. PICK ok \in BOOLEAN : /\ SendHeader(c, "address", ok)
                              /\ Reader(c, IF ok THEN "body" ELSE "end")
    BY <1>2 DEF Answer
  <2>2. ok = TRUE /\ sender[c] = None /\ sender'[c] = "address" /\ wire'[c] = <<c, "address">>
    BY <2>1, HeaderSound
  <2>3. reader'[c] = "body" /\ writer'[c] # "body"
    BY <1>0, <1>1, <2>1, <2>2 DEF Reader, Sound
  <2>. QED
    BY <1>0, <1>1, <2>2, <2>3, NotBroken DEF Sound
<1>3. CASE AnswerBody(c)
  <2>1. PICK ok \in BOOLEAN : /\ SendBody(c, "address", ok)
                              /\ Reader(c, IF ok THEN "mark" ELSE "end")
    BY <1>3 DEF AnswerBody
  <2>2. sender[c] = "address"
    BY <1>3 DEF AnswerBody, Sound
  <2>3. ok = TRUE /\ sender'[c] = None /\ wire'[c] = <<>>
    BY <2>1, <2>2, BodySound
  <2>4. reader'[c] # "body" /\ writer'[c] # "body"
    BY <1>0, <1>1, <2>1, <2>2, <2>3 DEF Reader, Sound
  <2>. QED
    BY <1>0, <1>1, <2>3, <2>4, NotBroken DEF Sound
<1>4. CASE \/ ReadLoop(c) \/ ReadHeader(c) \/ ReadEnd(c) \/ ReadBody(c) \/ ReadBodyEnd(c)
           \/ HandleRequest(c) \/ HandleKeepalive(c) \/ HandleData(c) \/ HandleOther(c)
           \/ Mark(c) \/ SetConnection(c) \/ EndReading(c)
  <2>1. reader[c] # "body" /\ UNCHANGED <<sender, wire>>
    <3>1. CASE ReadLoop(c) \/ ReadHeader(c) \/ ReadEnd(c) \/ ReadBody(c) \/ ReadBodyEnd(c)
      BY <3>1 DEF ReadLoop, ReadHeader, ReadEnd, ReadBody, ReadBodyEnd, out
    <3>2. CASE HandleRequest(c) \/ HandleKeepalive(c) \/ HandleData(c) \/ HandleOther(c)
      BY <3>2 DEF HandleRequest, HandleKeepalive, HandleData, HandleOther, out
    <3>3. CASE Mark(c) \/ SetConnection(c) \/ EndReading(c)
      BY <3>3 DEF Mark, SetConnection, EndReading, out
    <3>. QED
      BY <1>4, <3>1, <3>2, <3>3
  <2>2. UNCHANGED reader \/ \E there \in Places \ {"body"} : Reader(c, there)
    <3>. USE DEF Places
    <3>1. CASE ReadLoop(c) \/ ReadHeader(c) \/ ReadEnd(c) \/ ReadBody(c) \/ ReadBodyEnd(c)
      BY <3>1 DEF ReadLoop, ReadHeader, ReadEnd, ReadBody, ReadBodyEnd, CallReadHeader,
          CallReadBody, CallRead
    <3>2. CASE HandleKeepalive(c) \/ HandleData(c) \/ HandleOther(c)
      BY <3>2 DEF HandleKeepalive, HandleData, HandleOther, CallReadBody, CallRead
    <3>3. CASE HandleRequest(c)
      BY <3>3 DEF HandleRequest, GetFreeIP
    <3>4. CASE Mark(c) \/ EndReading(c)
      BY <3>4 DEF Mark, EndReading, SetIpStatus
    <3>5. CASE SetConnection(c)
      BY <3>5 DEF SetConnection
    <3>. QED
      BY <1>4, <3>1, <3>2, <3>3, <3>4, <3>5
  <2>3. reader'[c] # "body"
    BY <1>0, <2>1, <2>2 DEF Reader
  <2>. QED
    BY <1>1, <2>1, <2>3, SoundStays
<1>. QED
  BY <1>2, <1>3, <1>4 DEF ReaderStep

LEMMA WriterSound ==
  ASSUME IInv, NumbersInv, NEW c \in Clients, Sound(c), keeper[c] \in Active, WriterStep(c)
  PROVE  Sound(c)'
<1>0. /\ writer \in [Clients -> {"none", "pop", "body", "ended"}]
      /\ Active \cap {"none", "ended"} = {} /\ None \notin {"address", "frame"}
      /\ UNCHANGED <<reader, keeper>>
  BY ThreadedAssumption
  DEF IInv, Typed, Active, WriterStep, WriteFrame, WriteFrameBody, readers
<1>1. CASE WriteFrame(c)
  <2>1. PICK ok \in BOOLEAN : /\ SendHeader(c, "frame", ok)
                              /\ writer' = [writer EXCEPT ![c] = IF ok THEN "body" ELSE "ended"]
    BY <1>1 DEF WriteFrame
  <2>2. ok = TRUE /\ sender[c] = None /\ sender'[c] = "frame" /\ wire'[c] = <<c, "frame">>
    BY <2>1, HeaderSound
  <2>3. writer'[c] = "body" /\ reader'[c] # "body"
    BY <1>0, <2>1, <2>2 DEF Sound
  <2>. QED
    BY <1>0, <2>2, <2>3, NotBroken DEF Sound
<1>2. CASE WriteFrameBody(c)
  <2>1. PICK ok \in BOOLEAN : /\ SendBody(c, "frame", ok)
                              /\ writer' = [writer EXCEPT ![c] = IF ok THEN "pop" ELSE "ended"]
    BY <1>2 DEF WriteFrameBody
  <2>2. sender[c] = "frame"
    BY <1>2 DEF WriteFrameBody, Sound
  <2>3. ok = TRUE /\ sender'[c] = None /\ wire'[c] = <<>>
    BY <2>1, <2>2, BodySound
  <2>4. reader'[c] # "body" /\ writer'[c] # "body"
    BY <1>0, <2>1, <2>2, <2>3 DEF Sound
  <2>. QED
    BY <1>0, <2>3, <2>4, NotBroken DEF Sound
<1>. QED
  BY <1>1, <1>2 DEF WriterStep

LEMMA KeeperSound ==
  ASSUME IInv, NumbersInv, NEW c \in Clients, Sound(c), keeper[c] \in Active, KeeperStep(c)
  PROVE  Sound(c)'
<1>0. /\ UNCHANGED <<reader, writer, sender>>
      /\ \E there \in Active \cup {"ended"} : keeper' = [keeper EXCEPT ![c] = there]
  BY DEF KeeperStep, KeepTick, KeepTest, KeepSend, KeepClose, Active, readers, writers
<1>1. keeper'[c] # "none"
  BY <1>0 DEF Active, IInv, Typed
<1>2. wire'[c] = wire[c]
  <2>1. CASE KeepSend(c)
    <3>1. PICK ok \in BOOLEAN : Write(c, "heartbeat", "whole", ok)
      BY <2>1 DEF KeepSend
    <3>2. wire[c] = <<>> /\ Received("whole", <<c, "heartbeat">>, wire[c]) = <<>>
      BY <2>1 DEF KeepSend, Sound, Received
    <3>3. keeper[c] # "none"
      BY DEF Active
    <3>4. wire'[c] = Received("whole", <<c, "heartbeat">>, wire[c])
      BY <3>1, <3>3, WriteReaches
    <3>. QED
      BY <3>2, <3>4
  <2>2. CASE KeepTick(c) \/ KeepTest(c) \/ KeepClose(c)
    BY <2>2 DEF KeepTick, KeepTest, KeepClose, out
  <2>. QED
    BY <2>1, <2>2 DEF KeeperStep
<1>. QED
  BY <1>0, <1>1, <1>2, SoundStays

LEMMA WireKeeps == IInv /\ NumbersInv /\ WireInv /\ [Next]_vars => WireInv'
<1>. SUFFICES ASSUME IInv, NumbersInv, WireInv, [Next]_vars, NEW k \in Clients, Own(k)'
              PROVE  Sound(k)'
  BY DEF WireInv
<1>1. Own(k) /\ Sound(k)
  BY OwnBefore DEF WireInv
<1>2. ASSUME NEW c \in Clients, StepOf(c), k # c PROVE Sound(k)'
  BY <1>1, <1>2, OthersReceiveNothing, OthersRest, SoundStays
<1>3. CASE Accept(k)
  <2>1. /\ keeper[k] = "none" /\ writer[k] = "none" /\ UNCHANGED <<sender, wire>>
        /\ keeper'[k] = "loop" /\ reader'[k] = "loop" /\ writer'[k] = "pop"
    BY <1>3 DEF Accept, NumbersInv, IInv, Typed, Reader, out
  <2>2. wire'[k] = <<>> /\ sender'[k] = None
    BY <1>1, <2>1 DEF Sound
  <2>. QED
    BY <2>1, <2>2, NotBroken, ThreadedAssumption DEF Sound
<1>4. CASE Ask(k) \/ Talk(k) \/ Leave(k)
  <2>1. UNCHANGED <<reader, writer, keeper, sender, wire>>
    BY <1>4 DEF Ask, Talk, Leave, readers, writers, out
  <2>. QED
    BY <1>1, <2>1, SoundStays
<1>5. CASE ReaderStep(k) \/ WriterStep(k) \/ KeeperStep(k)
  <2>1. StepOf(k)
    BY <1>5 DEF StepOf
  <2>2. keeper[k] # "none"
    <3>1. ReaderStep(k) => reader[k] # "none"
      BY DEF ReaderStep, ReadLoop, ReadHeader, ReadEnd, ReadBody, ReadBodyEnd,
             HandleRequest, HandleKeepalive, HandleData, HandleOther, Answer, AnswerBody, Mark,
             SetConnection, EndReading
    <3>2. WriterStep(k) => writer[k] # "none"
      BY DEF WriterStep, WriteFrame, WriteFrameBody
    <3>3. KeeperStep(k) => keeper[k] # "none"
      BY DEF KeeperStep, KeepTick, KeepTest, KeepSend, KeepClose
    <3>. QED
      BY <1>5, <3>1, <3>2, <3>3 DEF IInv, StartedInv, NumbersInv
  <2>3. CASE keeper[k] \in Active
    BY <1>1, <1>5, <2>3, ReaderSound, WriterSound, KeeperSound
  <2>4. CASE keeper[k] \notin Active
    <3>1. wire'[k] = wire[k]
      BY <1>1, <2>1, <2>4, OthersReceiveNothing
    <3>2. keeper[k] = "ended" /\ keeper'[k] = "ended"
      <4>1. keeper[k] = "ended" /\ ~KeeperStep(k)
        BY <2>2, <2>4 DEF Active, IInv, Typed, KeeperStep, KeepTick, KeepTest, KeepSend, KeepClose
      <4>2. ReaderStep(k) \/ WriterStep(k) => keeper' = keeper
        BY DEF ReaderStep, ReadLoop, ReadHeader, ReadEnd, ReadBody, ReadBodyEnd,
               HandleRequest, HandleKeepalive, HandleData, HandleOther, Answer, AnswerBody, Mark,
               SetConnection, EndReading, WriterStep, WriteFrame, WriteFrameBody
      <4>. QED
        BY <1>5, <4>1, <4>2
    <3>. QED
      BY <1>1, <3>1, <3>2 DEF Sound, Active
  <2>. QED
    BY <2>3, <2>4
<1>6. CASE TunStep \/ UNCHANGED vars
  <2>1. UNCHANGED <<reader, writer, keeper, sender, wire>>
    BY <1>6 DEF TunStep, TunRead, TunPush, vars, readers, writers, out
  <2>. QED
    BY <1>1, <2>1, SoundStays
<1>. QED
  BY <1>2, <1>3, <1>4, <1>5, <1>6 DEF Next, StepOf

\* Whoever can be sent a frame has its address.
Reached(k) ==
    \/ reader[k] \in {"body", "mark", "set"} \/ wtSktQue[k] # <<>>
    \/ \E a \in Addrs : connections[a] = k
    \/ found # <<>> /\ found[2] = k

Told(k) ==
    /\ first[k] # "frame"
    /\ keeper[k] \in Active /\ Reached(k) => first[k] = "address"

FirstInv == \A k \in Clients : Own(k) => Told(k)

LEMMA ToldStays ==
  ASSUME NEW k \in Clients, Told(k), first'[k] = first[k],
         keeper'[k] \in Active => keeper[k] \in Active, Reached(k)' => Reached(k)
  PROVE  Told(k)'
  BY DEF Told

\* What a step of a connection does to those who can be reached.
LEMMA ReachedBy ==
  ASSUME IInv, NEW c \in Clients, StepOf(c)
  PROVE  /\ \A k \in Clients : Reached(k)' => Reached(k) \/ k = c
         /\ Reached(c)' => Reached(c) \/ Answer(c)
<1>0. /\ reader \in [Clients -> Places] /\ wtSktQue \in [Clients -> Seq(Addrs)]
      /\ connections \in [Addrs -> Clients \cup {None}] /\ None \notin Clients
  BY ThreadedAssumption DEF IInv, Typed
<1>1. \A k \in Clients \ {c} : reader'[k] = reader[k] /\ wtSktQue'[k] = wtSktQue[k]
  BY OthersRest
<1>2. /\ found' = found
      /\ \A a \in Addrs : connections'[a] = connections[a]
                            \/ (connections'[a] = c /\ reader[c] = "set")
      /\ wtSktQue'[c] # <<>> => wtSktQue[c] # <<>>
  <2>1. CASE Accept(c) \/ Ask(c) \/ Talk(c) \/ Leave(c)
    BY <2>1 DEF Accept, Ask, Talk, Leave, objects, writers, tun
  <2>2. CASE ReadLoop(c) \/ ReadHeader(c) \/ ReadEnd(c) \/ ReadBody(c) \/ ReadBodyEnd(c)
    BY <2>2 DEF ReadLoop, ReadHeader, ReadEnd, ReadBody, ReadBodyEnd, objects, writers, tun
  <2>3. CASE HandleRequest(c) \/ HandleKeepalive(c) \/ HandleData(c) \/ HandleOther(c)
    BY <2>3 DEF HandleRequest, GetFreeIP, HandleKeepalive, HandleData, HandleOther, objects,
                writers, tun
  <2>4. CASE Answer(c) \/ AnswerBody(c) \/ Mark(c) \/ EndReading(c)
    BY <2>4 DEF Answer, AnswerBody, Mark, EndReading, objects, writers, tun
  <2>5. CASE SetConnection(c)
    <3>1. /\ reader[c] = "set" /\ UNCHANGED <<writers, tun>>
          /\ connections' = connections \/ connections' = Assigned(c)
      BY <2>5 DEF SetConnection
    <3>. QED
      BY <1>0, <3>1 DEF Assigned, writers, tun
  <2>6. CASE WriterStep(c)
    <3>1. /\ UNCHANGED <<objects, tun>>
          /\ \/ UNCHANGED wtSktQue
             \/ wtSktQue[c] # <<>> /\ wtSktQue' = [wtSktQue EXCEPT ![c] = Tail(wtSktQue[c])]
      BY <2>6 DEF WriterStep, WriteFrame, WriteFrameBody
    <3>. QED
      BY <1>0, <3>1 DEF objects, tun
  <2>7. CASE KeeperStep(c)
    BY <2>7 DEF KeeperStep, KeepTick, KeepTest, KeepSend, KeepClose, objects, writers, tun
  <2>. QED
    BY <2>1, <2>2, <2>3, <2>4, <2>5, <2>6, <2>7 DEF StepOf, ReaderStep
<1>3. reader'[c] \in {"body", "mark", "set"} =>
        reader[c] \in {"body", "mark", "set"} \/ Answer(c)
  <2>1. CASE Accept(c) \/ Ask(c) \/ Talk(c) \/ Leave(c)
    BY <1>0, <2>1 DEF Accept, Ask, Talk, Leave, Reader, readers
  <2>2. CASE \/ ReadLoop(c) \/ ReadHeader(c) \/ ReadEnd(c) \/ ReadBody(c) \/ ReadBodyEnd(c)
             \/ HandleKeepalive(c) \/ HandleData(c) \/ HandleOther(c)
             \/ HandleRequest(c) \/ EndReading(c)
    <3>1. \/ UNCHANGED reader
          \/ \E there \in {"loop", "handle", "read", "data", "end", "answer", "ended"} :
               Reader(c, there)
      <4>1. CASE ReadLoop(c) \/ ReadHeader(c) \/ ReadEnd(c) \/ ReadBody(c) \/ ReadBodyEnd(c)
        BY <4>1 DEF ReadLoop, ReadHeader, ReadEnd, ReadBody, ReadBodyEnd, CallReadHeader,
            CallReadBody, CallRead
      <4>2. CASE HandleKeepalive(c) \/ HandleData(c) \/ HandleOther(c)
        BY <4>2 DEF HandleKeepalive, HandleData, HandleOther, CallReadBody, CallRead
      <4>3. CASE HandleRequest(c) \/ EndReading(c)
        BY <4>3 DEF HandleRequest, GetFreeIP, EndReading, SetIpStatus
      <4>. QED
        BY <2>2, <4>1, <4>2, <4>3
    <3>. QED
      BY <1>0, <3>1 DEF Reader
  <2>3. CASE AnswerBody(c) \/ Mark(c) \/ SetConnection(c)
    BY <2>3 DEF AnswerBody, Mark, SetConnection
  <2>4. CASE WriterStep(c) \/ KeeperStep(c)
    BY <2>4 DEF WriterStep, WriteFrame, WriteFrameBody, KeeperStep, KeepTick, KeepTest, KeepSend,
                KeepClose, readers
  <2>. QED
    BY <2>1, <2>2, <2>3, <2>4 DEF StepOf, ReaderStep
<1>4. \A k \in Clients \ {c} : Reached(k)' => Reached(k)
  BY <1>1, <1>2 DEF Reached
<1>5. Reached(c)' => Reached(c) \/ Answer(c)
  BY <1>2, <1>3 DEF Reached
<1>. QED
  BY <1>4, <1>5

LEMMA FirstKeeps == IInv /\ NumbersInv /\ FirstInv /\ [Next]_vars => FirstInv'
<1>. SUFFICES ASSUME IInv, NumbersInv, FirstInv, [Next]_vars, NEW k \in Clients, Own(k)'
              PROVE  Told(k)'
  BY DEF FirstInv
<1>0. /\ first \in [Clients -> {"nothing", "address", "frame"}]
      /\ keeper \in [Clients -> {"none", "loop", "test", "send", "close", "ended"}]
      /\ connections \in [Addrs -> Clients \cup {None}] /\ None \notin Clients
      /\ wtSktQue \in [Clients -> Seq(Addrs)]
      /\ found = <<>> \/ found \in Addrs \X Clients
  BY ThreadedAssumption DEF IInv, Typed
<1>1. Own(k) /\ Told(k)
  BY OwnBefore DEF FirstInv
<1>2. ASSUME NEW c \in Clients, StepOf(c), k # c PROVE Told(k)'
  <2>1. keeper'[k] = keeper[k] /\ first'[k] = first[k]
    BY <1>1, <1>2, OthersReceiveNothing, OthersRest
  <2>2. Reached(k)' => Reached(k)
    BY <1>2, ReachedBy
  <2>. QED
    BY <1>1, <2>1, <2>2, ToldStays
<1>3. CASE Accept(k)
  <2>1. /\ keeper[k] = "none" /\ writer[k] = "none" /\ UNCHANGED first
        /\ UNCHANGED <<wtSktQue, connections, found>> /\ reader'[k] = "loop"
    BY <1>3 DEF Accept, NumbersInv, IInv, Typed, Reader, objects, tun, out
  <2>2. ~Reached(k)'
    BY <1>0, <2>1 DEF Reached, IInv, StartedInv
  <2>. QED
    BY <1>1, <2>1, <2>2 DEF Told
<1>4. CASE StepOf(k) /\ ~Accept(k)
  <2>1. keeper'[k] \in Active => keeper[k] \in Active
    BY <1>0, <1>4 DEF StepOf, Ask, Talk, Leave, ReaderStep, ReadLoop, ReadHeader, ReadEnd,
      ReadBody, ReadBodyEnd, HandleRequest, HandleKeepalive, HandleData, HandleOther, Answer,
      AnswerBody, Mark, SetConnection, EndReading, WriterStep, WriteFrame, WriteFrameBody,
      KeeperStep, KeepTick, KeepTest, KeepSend, KeepClose, Active
  <2>2. CASE keeper[k] \notin Active
    BY <1>1, <1>4, <2>1, <2>2, OthersReceiveNothing DEF Told
  <2>3. CASE keeper[k] \in Active /\ Answer(k)
    <3>1. PICK ok \in BOOLEAN : Write(k, "address", "header", ok)
      BY <2>3 DEF Answer, SendHeader
    <3>2. keeper[k] # "none"
      BY <2>3 DEF Active
    <3>3. first'[k] = IF first[k] = "nothing" /\ "header" = "header" THEN "address" ELSE first[k]
      BY <2>3, <3>1, <3>2, WriteReaches, Zenon
    <3>4. first'[k] = "address"
      BY <1>0, <1>1, <3>3 DEF Told
    <3>. QED
      BY <3>4 DEF Told
  <2>4. CASE keeper[k] \in Active /\ ~Answer(k)
    <3>1. Reached(k)' => Reached(k)
      BY <1>4, <2>4, ReachedBy
    <3>2. CASE UNCHANGED out
      BY <1>1, <2>1, <3>1, <3>2, ToldStays DEF out
    <3>3. CASE ~UNCHANGED out /\ ~WriteFrame(k)
      <4>1. PICK t \in Sender, part \in {"body", "whole"}, ok \in BOOLEAN :
                      Write(k, t, part, ok)
        <5>1. AnswerBody(k) \/ WriteFrameBody(k) \/ KeepSend(k)
          BY <1>4, <2>4, <3>3 DEF StepOf, Ask, Talk, Leave, ReaderStep, ReadLoop, ReadHeader,
              ReadEnd, ReadBody, ReadBodyEnd, HandleRequest, HandleKeepalive, HandleData,
              HandleOther, Mark, SetConnection, EndReading, WriterStep, KeeperStep, KeepTick,
              KeepTest, KeepClose
        <5>2. AnswerBody(k) => \E ok \in BOOLEAN : Write(k, "address", "body", ok)
          BY DEF AnswerBody, SendBody
        <5>3. WriteFrameBody(k) => \E ok \in BOOLEAN : Write(k, "frame", "body", ok)
          BY DEF WriteFrameBody, SendBody
        <5>4. KeepSend(k) => \E ok \in BOOLEAN : Write(k, "heartbeat", "whole", ok)
          BY DEF KeepSend
        <5>. QED
          BY <5>1, <5>2, <5>3, <5>4 DEF Sender
      <4>2. keeper[k] # "none"
        BY <2>4 DEF Active
      <4>3. first'[k] = IF first[k] = "nothing" /\ part = "header" THEN t ELSE first[k]
        BY <2>4, <4>1, <4>2, WriteReaches, Zenon
      <4>4. first'[k] = first[k]
        BY <4>1, <4>3
      <4>. QED
        BY <1>1, <2>1, <3>1, <4>4, ToldStays
    <3>4. CASE WriteFrame(k)
      <4>1. PICK ok \in BOOLEAN : Write(k, "frame", "header", ok)
        BY <3>4 DEF WriteFrame, SendHeader
      <4>2. keeper[k] # "none" /\ Reached(k)
        BY <2>4, <3>4 DEF Active, WriteFrame, Reached
      <4>3. first'[k] = IF first[k] = "nothing" /\ "header" = "header" THEN "frame" ELSE first[k]
        BY <2>4, <4>1, <4>2, WriteReaches, Zenon
      <4>4. first'[k] = first[k]
        BY <1>1, <2>4, <4>2, <4>3 DEF Told
      <4>. QED
        BY <1>1, <2>1, <3>1, <4>4, ToldStays
    <3>. QED
      BY <3>2, <3>3, <3>4
  <2>. QED
    BY <2>2, <2>3, <2>4
<1>5. CASE TunRead
  <2>1. /\ UNCHANGED <<reader, wtSktQue, connections, first, keeper>>
        /\ \E a \in Addrs : found' = IF GetConnectionByIp(a) = None THEN <<>>
                                     ELSE <<a, connections[a]>>
    BY <1>5 DEF TunRead, objects, readers, writers, out
  <2>2. Reached(k)' => Reached(k)
    BY <2>1 DEF Reached, GetConnectionByIp
  <2>. QED
    BY <1>1, <2>1, <2>2, ToldStays
<1>6. CASE TunPush
  <2>1. /\ UNCHANGED <<reader, connections, first, keeper>> /\ found # <<>> /\ found' = <<>>
        /\ wtSktQue' = [wtSktQue EXCEPT ![found[2]] = Append(wtSktQue[found[2]], found[1])]
    BY <1>6 DEF TunPush, objects, readers, out
  <2>2. k # found[2] => wtSktQue'[k] = wtSktQue[k]
    BY <1>0, <2>1
  <2>3. Reached(k)' => Reached(k)
    BY <2>1, <2>2 DEF Reached
  <2>. QED
    BY <1>1, <2>1, <2>3, ToldStays
<1>7. CASE UNCHANGED vars
  BY <1>1, <1>7 DEF vars, objects, readers, writers, tun, out, Told, Reached
<1>. QED
  BY <1>2, <1>3, <1>4, <1>5, <1>6, <1>7 DEF Next, StepOf, TunStep

LEMMA StreamInvariant == Spec => [](NumbersInv /\ WireInv /\ FirstInv)
<1>1. Init => NumbersInv /\ WireInv /\ FirstInv
  BY ThreadedAssumption, NotBroken
  DEF Init, NumbersInv, NumberStaysOurs, WireInv, Sound, FirstInv, Told, Active
<1>. QED
  BY <1>1, NumbersKeep, WireKeeps, FirstKeeps, Invariant, PTL DEF Spec

\* Frames of a connection are not mixed, for any number of clients that come, leave
\* and fall silent, unless the client has a number that was closed for another:
\* sendMutex covers a header with its body, and before the close the number is the
\* connection's own.
THEOREM FramesStayWhole == Spec => []FramesWhole
<1>1. NumbersInv /\ WireInv => FramesWhole
  BY NotBroken DEF WireInv, Sound, Own, FramesWhole
<1>. QED
  BY <1>1, StreamInvariant, PTL

\* A client gets its address before the first packet, with the same exception, also
\* if requests overlap.
THEOREM AddressComesFirst == Spec => []AddressFirst
<1>1. FirstInv => AddressFirst
  BY DEF FirstInv, Told, Own, AddressFirst
<1>. QED
  BY <1>1, StreamInvariant, PTL

---------------------------------------------------------------------------
(* Clients that stay and talk.                                             *)

\* No keepalive thread gives its client up: it has counted less than Limit
\* seconds, and its heartbeats find the number open.
SteadyInv ==
    \A c \in Clients : hb[c] < Limit /\ keeper[c] \in {"none", "loop", "test", "send"}

LEMMA SteadyKeeps == IInv /\ NumbersInv /\ ~Leaves /\ SteadyInv /\ [Next]_vars => SteadyInv'
<1>. SUFFICES ASSUME IInv, NumbersInv, ~Leaves, SteadyInv, [Next]_vars PROVE SteadyInv'
  OBVIOUS
<1>1. /\ keeper \in [Clients -> {"none", "loop", "test", "send", "close", "ended"}]
      /\ hb \in [Clients -> 0 .. Limit] /\ Limit \in Nat \ {0}
  BY ThreadedAssumption DEF IInv, Typed
<1>2. ASSUME NEW c \in Clients, Accept(c) \/ Ask(c) \/ Talk(c) \/ Leave(c)
      PROVE  hb' = hb /\ (keeper' = keeper \/ keeper' = [keeper EXCEPT ![c] = "loop"])
  BY <1>2 DEF Accept, Ask, Talk, Leave
<1>3. ASSUME NEW c \in Clients, ReaderStep(c)
      PROVE  keeper' = keeper /\ (hb' = hb \/ hb' = [hb EXCEPT ![c] = 0])
  <2>1. CASE ReadLoop(c) \/ ReadHeader(c) \/ ReadEnd(c) \/ ReadBody(c) \/ ReadBodyEnd(c)
    BY <2>1 DEF ReadLoop, ReadHeader, ReadEnd, ReadBody, ReadBodyEnd
  <2>2. CASE HandleRequest(c) \/ HandleKeepalive(c) \/ HandleData(c) \/ HandleOther(c)
    BY <2>2 DEF HandleRequest, HandleKeepalive, HandleData, HandleOther
  <2>3. CASE Answer(c) \/ AnswerBody(c) \/ Mark(c) \/ SetConnection(c) \/ EndReading(c)
    BY <2>3 DEF Answer, AnswerBody, Mark, SetConnection, EndReading
  <2>. QED
    BY <1>3, <2>1, <2>2, <2>3 DEF ReaderStep
<1>4. ASSUME NEW c \in Clients, KeeperStep(c) PROVE SteadyInv'
  <2>1. CASE KeepTick(c)
    <3>1. /\ hb' = [hb EXCEPT ![c] = hb[c] + 1] /\ hb[c] + 1 < Limit
          /\ keeper' = [keeper EXCEPT ![c] = "test"]
      BY <2>1 DEF KeepTick
    <3>. QED
      BY <1>1, <3>1 DEF SteadyInv
  <2>2. CASE KeepSend(c)
    <3>1. PICK ok \in BOOLEAN : /\ Write(c, "heartbeat", "whole", ok)
                                /\ keeper' = [keeper EXCEPT ![c] = IF ok THEN "loop" ELSE "close"]
      BY <2>2 DEF KeepSend
    <3>2. keeper[c] = "send" /\ hb' = hb
      BY <2>2 DEF KeepSend
    <3>3. file[fd[c]] # None
      BY <3>2, ThreadedAssumption DEF NumbersInv, NumberStaysOurs
    <3>4. ok = TRUE
      BY <3>1, <3>3 DEF Write
    <3>. QED
      BY <1>1, <3>1, <3>2, <3>4 DEF SteadyInv
  <2>3. CASE KeepTest(c)
    <3>1. hb' = hb /\ \E there \in {"loop", "send"} : keeper' = [keeper EXCEPT ![c] = there]
      BY <2>3 DEF KeepTest
    <3>. QED
      BY <1>1, <3>1 DEF SteadyInv
  <2>4. ~KeepClose(c)
    BY <1>1 DEF KeepClose, SteadyInv
  <2>. QED
    BY <1>4, <2>1, <2>2, <2>3, <2>4 DEF KeeperStep
<1>5. ASSUME NEW c \in Clients, WriterStep(c) PROVE UNCHANGED <<hb, keeper>>
  BY <1>5 DEF WriterStep, WriteFrame, WriteFrameBody
<1>6. TunStep \/ UNCHANGED vars => UNCHANGED <<hb, keeper>>
  BY DEF TunStep, TunRead, TunPush, vars
<1>. QED
  BY <1>1, <1>2, <1>3, <1>4, <1>5, <1>6 DEF Next, SteadyInv

LEMMA SteadyInvariant == ASSUME ~Leaves PROVE Spec => []SteadyInv
<1>1. Init => SteadyInv
  BY ThreadedAssumption DEF Init, SteadyInv
<1>. QED
  BY <1>1, SteadyKeeps, Invariant, StreamInvariant, PTL DEF Spec

\* While clients stay nobody is an exception.
COROLLARY SteadyStreams ==
  ASSUME ~Leaves
  PROVE  Spec => [](\A k \in Clients : wire[k] # Broken /\ first[k] # "frame")
<1>1. SteadyInv /\ FramesWhole /\ AddressFirst
        => \A k \in Clients : wire[k] # Broken /\ first[k] # "frame"
  BY DEF SteadyInv, FramesWhole, AddressFirst, Inherited
<1>. QED
  BY <1>1, SteadyInvariant, FramesStayWhole, AddressComesFirst, PTL

---------------------------------------------------------------------------
(* Nobody asks twice.                                                      *)

\* A body follows its header; `inside' when the header has been read.
Aligned(q, inside) ==
    /\ \A i \in 1 .. Len(q) :
         q[i] = "body" <=> (IF i = 1 THEN inside ELSE q[i - 1] = "data")
    /\ inside => q # <<>>
    /\ q # <<>> => q[Len(q)] # "data"

AskedIn(q) == \E i \in 1 .. Len(q) : q[i] = "request"

OnceIn(q) == \A i, j \in 1 .. Len(q) : q[i] = "request" /\ q[j] = "request" => i = j

\* What a client sends next.
LEMMA AlignedSend ==
  ASSUME NEW q \in Seq(Kind), NEW inside \in BOOLEAN, Aligned(q, inside),
         NEW m \in {"request", "keepalive"}
  PROVE  Aligned(Append(q, m), inside)
<1>. DEFINE p == Append(q, m)
<1>1. /\ Len(p) = Len(q) + 1 /\ p[Len(p)] = m /\ Len(q) \in Nat
      /\ \A i \in 1 .. Len(q) : p[i] = q[i]
  OBVIOUS
<1>2. Len(q) = 0 => ~inside
  BY DEF Aligned
<1>3. ASSUME NEW i \in 1 .. Len(p)
      PROVE  p[i] = "body" <=> (IF i = 1 THEN inside ELSE p[i - 1] = "data")
  <2>1. CASE i \in 1 .. Len(q)
    <3>1. q[i] = "body" <=> (IF i = 1 THEN inside ELSE q[i - 1] = "data")
      BY <2>1 DEF Aligned
    <3>2. p[i] = q[i] /\ (i # 1 => p[i - 1] = q[i - 1])
      BY <1>1, <2>1
    <3>. QED
      BY <3>1, <3>2
  <2>2. CASE i = Len(p)
    <3>1. p[i] # "body"
      BY <1>1, <2>2
    <3>2. CASE Len(q) = 0
      BY <1>1, <1>2, <2>2, <3>1, <3>2
    <3>3. CASE Len(q) # 0
      <4>1. q # <<>> /\ i # 1 /\ i - 1 = Len(q)
        BY <1>1, <2>2, <3>3
      <4>2. p[i - 1] = q[Len(q)] /\ q[Len(q)] # "data"
        BY <1>1, <4>1 DEF Aligned
      <4>. QED
        BY <3>1, <4>1, <4>2
    <3>. QED
      BY <3>2, <3>3
  <2>. QED
    BY <1>1, <2>1, <2>2
<1>. QED
  BY <1>1, <1>3 DEF Aligned

LEMMA AlignedData ==
  ASSUME NEW q \in Seq(Kind), NEW inside \in BOOLEAN, Aligned(q, inside)
  PROVE  Aligned(q \o <<"data", "body">>, inside)
<1>. DEFINE p == q \o <<"data", "body">>
            n == Len(q)
<1>1. /\ Len(p) = n + 2 /\ n \in Nat
      /\ p[n + 1] = "data" /\ p[n + 2] = "body"
      /\ \A i \in 1 .. n : p[i] = q[i]
  OBVIOUS
<1>2. n = 0 => ~inside
  BY DEF Aligned
<1>3. n # 0 => q[n] # "data"
  BY <1>1 DEF Aligned
<1>4. \A i \in 1 .. n : q[i] = "body" <=> (IF i = 1 THEN inside ELSE q[i - 1] = "data")
  BY DEF Aligned
<1>5. p # <<>>
  BY <1>1
<1>6. SUFFICES ASSUME NEW i \in 1 .. Len(p)
               PROVE  p[i] = "body" <=> (IF i = 1 THEN inside ELSE p[i - 1] = "data")
  <2>1. p[Len(p)] # "data"
    BY <1>1
  <2>. HIDE DEF p
  <2>. QED
    BY <1>5, <2>1 DEF Aligned
<1>. HIDE DEF p, n
<1>7. CASE i \in 1 .. n
  <2>1. i # 1 => i - 1 \in 1 .. n
    BY <1>1, <1>7
  <2>. QED
    BY <1>1, <1>4, <1>7, <2>1
<1>8. CASE i = n + 1
  <2>1. n # 0 => n \in 1 .. n
    BY <1>1
  <2>. QED
    BY <1>1, <1>2, <1>3, <1>8, <2>1
<1>9. CASE i = n + 2
  BY <1>1, <1>9
<1>. QED
  BY <1>1, <1>7, <1>8, <1>9

\* What is read next: a header outside, the body inside.
LEMMA AlignedRead ==
  ASSUME NEW q \in Seq(Kind), NEW inside \in BOOLEAN, Aligned(q, inside), q # <<>>
  PROVE  /\ Head(q) = "body" <=> inside
         /\ Aligned(Tail(q), Head(q) = "data")
<1>. DEFINE p == Tail(q)
<1>1. /\ Len(p) = Len(q) - 1 /\ Len(q) \in Nat \ {0} /\ Head(q) = q[1]
      /\ \A i \in 1 .. Len(p) : p[i] = q[i + 1]
  OBVIOUS
<1>2. \A i \in 1 .. Len(q) : q[i] = "body" <=> (IF i = 1 THEN inside ELSE q[i - 1] = "data")
  BY DEF Aligned
<1>3. q[Len(q)] # "data"
  BY DEF Aligned
<1>4. ASSUME NEW i \in 1 .. Len(p)
      PROVE  p[i] = "body" <=> (IF i = 1 THEN Head(q) = "data" ELSE p[i - 1] = "data")
  <2>1. q[i + 1] = "body" <=> q[i] = "data"
    BY <1>1, <1>2
  <2>2. p[i] = q[i + 1] /\ (i # 1 => p[i - 1] = q[i])
    BY <1>1
  <2>. QED
    BY <1>1, <2>1, <2>2
<1>5. Head(q) = "data" => p # <<>>
  <2>1. Head(q) = "data" => Len(q) # 1
    BY <1>1, <1>3
  <2>2. Len(p) # 0 => p # <<>>
    <3>. HIDE DEF p
    <3>. QED
      BY Len(<<>>) = 0
  <2>3. Len(q) # 1 => Len(p) # 0
    BY <1>1
  <2>. QED
    BY <2>1, <2>2, <2>3
<1>6. p # <<>> => p[Len(p)] # "data"
  <2>1. p # <<>> => Len(p) \in 1 .. Len(p)
    BY <1>1
  <2>. QED
    BY <1>1, <1>3, <2>1
<1>7. Head(q) = "body" <=> inside
  BY <1>1, <1>2
<1>. HIDE DEF p
<1>8. Aligned(p, Head(q) = "data")
  BY <1>4, <1>5, <1>6 DEF Aligned
<1>. QED
  BY <1>7, <1>8 DEF p

\* The one request, before and after it is read.
LEMMA OnceSend ==
  ASSUME NEW q \in Seq(Kind), OnceIn(q)
  PROVE  /\ OnceIn(Append(q, "keepalive")) /\ OnceIn(q \o <<"data", "body">>)
         /\ AskedIn(Append(q, "keepalive")) => AskedIn(q)
         /\ AskedIn(q \o <<"data", "body">>) => AskedIn(q)
         /\ OnceIn(Append(<<>>, "request"))
<1>1. /\ Len(Append(q, "keepalive")) = Len(q) + 1 /\ Len(q) \in Nat
      /\ \A i \in 1 .. Len(q) : Append(q, "keepalive")[i] = q[i]
      /\ Append(q, "keepalive")[Len(q) + 1] = "keepalive"
  OBVIOUS
<1>2. LET p == q \o <<"data", "body">> IN
      /\ Len(p) = Len(q) + 2
      /\ \A i \in 1 .. Len(q) : p[i] = q[i]
      /\ p[Len(q) + 1] = "data" /\ p[Len(q) + 2] = "body"
  OBVIOUS
<1>3. \A i \in 1 .. Len(q) + 2 : i \in 1 .. Len(q) \/ i = Len(q) + 1 \/ i = Len(q) + 2
  BY <1>1
<1>4. \A i \in 1 .. Len(q) + 1 : i \in 1 .. Len(q) \/ i = Len(q) + 1
  BY <1>1
<1>5. OnceIn(Append(q, "keepalive")) /\ (AskedIn(Append(q, "keepalive")) => AskedIn(q))
  BY <1>1, <1>4 DEF OnceIn, AskedIn
<1>6. OnceIn(q \o <<"data", "body">>) /\ (AskedIn(q \o <<"data", "body">>) => AskedIn(q))
  BY <1>2, <1>3 DEF OnceIn, AskedIn
<1>7. OnceIn(Append(<<>>, "request"))
  BY DEF OnceIn
<1>. QED
  BY <1>5, <1>6, <1>7

LEMMA OnceRead ==
  ASSUME NEW q \in Seq(Kind), OnceIn(q), q # <<>>
  PROVE  /\ OnceIn(Tail(q)) /\ (AskedIn(Tail(q)) => AskedIn(q))
         /\ Head(q) = "request" => AskedIn(q) /\ ~AskedIn(Tail(q))
<1>. DEFINE p == Tail(q)
<1>1. /\ Len(p) = Len(q) - 1 /\ Len(q) \in Nat \ {0} /\ Head(q) = q[1]
      /\ \A i \in 1 .. Len(p) : p[i] = q[i + 1]
  OBVIOUS
<1>2. \A i \in 1 .. Len(p) : i + 1 \in 1 .. Len(q) /\ i + 1 # 1 /\ 1 \in 1 .. Len(q)
  BY <1>1
<1>. HIDE DEF p
<1>3. OnceIn(p)
  BY <1>1, <1>2 DEF OnceIn
<1>4. AskedIn(p) => AskedIn(q)
  BY <1>1, <1>2 DEF AskedIn
<1>5. Head(q) = "request" => AskedIn(q) /\ ~AskedIn(p)
  BY <1>1, <1>2 DEF OnceIn, AskedIn
<1>. QED
  BY <1>3, <1>4, <1>5 DEF p

\* A client asks once, and before anything else; whoever is about to be given an
\* address has not marked it.
Asks(q, p, a, r, m) ==
    /\ OnceIn(q) /\ Aligned(q, r \in {"handle", "data"} /\ m = "data")
    /\ r = "data" => m = "data"
    /\ p \in {"away", "connected"} => q = <<>> /\ a = 0 /\ r \in {"none", "loop", "read", "end"}
    /\ a # 0 => ~AskedIn(q)
    /\ r = "handle" => m \in {"request", "keepalive", "data"}
    /\ r = "handle" /\ m = "request" => a = 0 /\ ~AskedIn(q)

\* Where a reader stands, its address has the status that the next step expects.
Stands(r, a, st, so, c) ==
    /\ r \in {"answer", "body", "mark"} => ~st[a]
    /\ r = "end" /\ a # 0 => st[a]
    /\ r \in {"read", "data"} => so = c

AskInv ==
    /\ process # "assert"
    /\ \A c \in Clients :
        /\ Asks(inbox[c], peer[c], ipv4[c], reader[c], message[c])
        /\ Stands(reader[c], ipv4[c], status, source[c], c)

AskVars == <<inbox, peer, ipv4, reader, message, status, source>>

\* As long as no number was closed, each connection reads from its own client.
LEMMA OwnNumber ==
  ASSUME IInv, NumbersInv, NobodyClosed, NEW c \in Clients,
         reader[c] # "none" \/ writer[c] # "none"
  PROVE  file[fd[c]] = c
<1>1. keeper[c] \in Active
  BY DEF IInv, Typed, StartedInv, NumbersInv, NobodyClosed, Active
<1>. QED
  BY <1>1 DEF NumbersInv, NumberStaysOurs, Active

\* A step of one reader that leaves the table alone.
LEMMA ReaderAsks ==
  ASSUME IInv, AskInv, NEW c \in Clients, NEW there, NEW m \in Kind \cup {"unset", "reply"},
         NEW q \in Seq(Kind),
         Reader(c, there), message' = [message EXCEPT ![c] = m],
         inbox' = [inbox EXCEPT ![c] = q], UNCHANGED <<peer, ipv4, status>>,
         process' # "assert", \A d \in Clients \ {c} : source'[d] = source[d],
         Asks(q, peer[c], ipv4[c], there, m),
         Stands(there, ipv4[c], status, source'[c], c)
  PROVE  AskInv'
<1>1. /\ reader' = [reader EXCEPT ![c] = there] /\ reader \in [Clients -> Places]
      /\ inbox \in [Clients -> Seq(Kind)] /\ message \in [Clients -> Kind \cup {"unset", "reply"}]
  BY DEF Reader, IInv, Typed
<1>2. ASSUME NEW d \in Clients
      PROVE  /\ Asks(inbox'[d], peer'[d], ipv4'[d], reader'[d], message'[d])
             /\ Stands(reader'[d], ipv4'[d], status', source'[d], d)
  <2>1. CASE d = c
    <3>1. inbox'[d] = q /\ reader'[d] = there /\ message'[d] = m
      BY <1>1, <2>1
    <3>. QED
      BY <2>1, <3>1
  <2>2. CASE d # c
    <3>1. inbox'[d] = inbox[d] /\ reader'[d] = reader[d] /\ message'[d] = message[d]
          /\ source'[d] = source[d]
      BY <1>1, <2>2
    <3>. QED
      BY <3>1 DEF AskInv
  <2>. QED
    BY <2>1, <2>2
<1>. QED
  BY <1>2 DEF AskInv

LEMMA ClientAsks ==
  ASSUME IInv, AskInv, NEW c \in Clients, Accept(c) \/ Ask(c) \/ Talk(c) \/ Leave(c),
         peer[c] = "away" => reader[c] = "none"
  PROVE  AskInv'
<1>1. /\ reader \in [Clients -> Places] /\ inbox \in [Clients -> Seq(Kind)]
      /\ peer \in [Clients -> {"away", "connected", "asked", "gone"}]
      /\ UNCHANGED <<process, message, ipv4, status, source>>
  BY DEF Accept, Ask, Talk, Leave, IInv, Typed, readers, objects
<1>2. Asks(inbox[c], peer[c], ipv4[c], reader[c], message[c])
  BY DEF AskInv
<1>3. SUFFICES /\ Asks(inbox'[c], peer'[c], ipv4[c], reader'[c], message[c])
               /\ reader'[c] = reader[c] \/ reader'[c] = "loop"
               /\ \A d \in Clients \ {c} : inbox'[d] = inbox[d] /\ peer'[d] = peer[d]
                                           /\ reader'[d] = reader[d]
  <2>1. \A d \in Clients : Stands(reader[d], ipv4[d], status, source[d], d)
    BY DEF AskInv
  <2>2. Stands("loop", ipv4[c], status, source[c], c)
    BY DEF Stands
  <2>. QED
    BY <1>1, <1>3, <2>1, <2>2 DEF AskInv
<1>4. CASE Accept(c)
  <2>1. /\ reader' = [reader EXCEPT ![c] = "loop"] /\ peer' = [peer EXCEPT ![c] = "connected"]
        /\ inbox' = inbox /\ peer[c] = "away"
    BY <1>4 DEF Accept, Reader
  <2>2. inbox[c] = <<>> /\ ipv4[c] = 0 /\ OnceIn(inbox[c]) /\ Aligned(inbox[c], FALSE)
    BY <1>2, <2>1 DEF Asks
  <2>. QED
    BY <1>1, <2>1, <2>2 DEF Asks
<1>5. CASE Ask(c)
  <2>1. /\ peer' = [peer EXCEPT ![c] = "asked"] /\ reader' = reader /\ peer[c] = "connected"
        /\ inbox' = [inbox EXCEPT ![c] = Append(inbox[c], "request")]
    BY <1>5 DEF Ask, readers
  <2>2. inbox[c] = <<>> /\ ipv4[c] = 0 /\ ~(reader[c] \in {"handle", "data"})
        /\ (reader[c] \in {"handle", "data"} /\ message[c] = "data") = FALSE
    BY <1>2, <2>1 DEF Asks
  <2>3. OnceIn(Append(inbox[c], "request"))
    <3>1. inbox[c] \in Seq(Kind) /\ OnceIn(inbox[c])
      BY <1>1, <1>2 DEF Asks
    <3>2. OnceIn(Append(<<>>, "request"))
      BY <3>1, OnceSend, Zenon
    <3>. QED
      BY <2>2, <3>2, Zenon
  <2>4. Aligned(Append(inbox[c], "request"), FALSE)
    BY <1>1, <1>2, <2>2, AlignedSend DEF Asks
  <2>. QED
    BY <1>1, <2>1, <2>2, <2>3, <2>4 DEF Asks
<1>6. CASE Talk(c)
  <2>1. /\ peer' = peer /\ reader' = reader /\ peer[c] = "asked"
        /\ \/ inbox' = [inbox EXCEPT ![c] = inbox[c] \o <<"data", "body">>]
           \/ inbox' = [inbox EXCEPT ![c] = inbox[c] \o <<"keepalive">>]
    BY <1>6, ThreadedAssumption DEF Talk, readers
  <2>. DEFINE in == reader[c] \in {"handle", "data"} /\ message[c] = "data"
  <2>2. inbox[c] \in Seq(Kind) /\ OnceIn(inbox[c]) /\ Aligned(inbox[c], in) /\ in \in BOOLEAN
    BY <1>1, <1>2 DEF Asks
  <2>3. inbox[c] \o <<"keepalive">> = Append(inbox[c], "keepalive")
    BY <2>2
  <2>4. inbox'[c] \in {inbox[c] \o <<"data", "body">>, Append(inbox[c], "keepalive")}
    BY <1>1, <2>1, <2>3
  <2>5. OnceIn(inbox'[c]) /\ (AskedIn(inbox'[c]) => AskedIn(inbox[c]))
    BY <2>2, <2>4, OnceSend, Zenon
  <2>6. Aligned(inbox'[c], in)
    <3>1. Aligned(inbox[c] \o <<"data", "body">>, in)
      BY <2>2, AlignedData, Zenon
    <3>2. "keepalive" \in {"request", "keepalive"}
      OBVIOUS
    <3>3. Aligned(Append(inbox[c], "keepalive"), in)
      BY <2>2, <3>2, AlignedSend, Zenon
    <3>. QED
      BY <2>4, <3>1, <3>3, Zenon
  <2>7. \A d \in Clients \ {c} : inbox'[d] = inbox[d]
    BY <1>1, <2>1
  <2>. QED
    BY <1>2, <2>1, <2>5, <2>6, <2>7 DEF Asks
<1>7. CASE Leave(c)
  <2>1. /\ peer' = [peer EXCEPT ![c] = "gone"] /\ UNCHANGED <<reader, inbox>>
    BY <1>7 DEF Leave, readers
  <2>. QED
    BY <1>1, <1>2, <2>1 DEF Asks
<1>. QED
  BY <1>4, <1>5, <1>6, <1>7

\* Nothing of it moves.
LEMMA StillAsks == ASSUME AskInv, UNCHANGED AskVars, process' # "assert" PROVE AskInv'
  BY DEF AskInv, AskVars

\* The reader gets what its client sent, and an address if that was the request.
LEMMA ReadAsks ==
  ASSUME IInv, NumbersInv, NobodyClosed, TableInv, AskInv, NEW c \in Clients,
         \/ ReadLoop(c) \/ ReadHeader(c) \/ ReadEnd(c) \/ ReadBody(c) \/ ReadBodyEnd(c)
         \/ HandleKeepalive(c) \/ HandleOther(c) \/ HandleData(c)
  PROVE  AskInv'
<1>1. /\ Asks(inbox[c], peer[c], ipv4[c], reader[c], message[c])
      /\ inbox \in [Clients -> Seq(Kind)] /\ inbox[c] \in Seq(Kind)
      /\ message \in [Clients -> Kind \cup {"unset", "reply"}]
      /\ message[c] \in Kind \cup {"unset", "reply"}
      /\ UNCHANGED message => message' = [message EXCEPT ![c] = message[c]]
      /\ UNCHANGED inbox => inbox' = [inbox EXCEPT ![c] = inbox[c]]
  BY DEF AskInv, IInv, Typed
<1>2. UNCHANGED <<process, peer, ipv4, status>> /\ process # "assert"
      /\ reader[c] \in {"loop", "read", "handle", "data"}
  BY DEF AskInv, ReadLoop, ReadHeader, ReadEnd, HandleKeepalive, HandleOther, HandleData,
         ReadBody, ReadBodyEnd, objects, clients
<1>3. file[fd[c]] = c /\ None \notin Clients /\ (reader[c] \in {"read", "data"} => source[c] = c)
      /\ source \in [Clients -> Clients \cup {None}]
  BY <1>2, OwnNumber, ThreadedAssumption DEF AskInv, Stands, IInv, Typed
<1>4. CASE ReadLoop(c)
  <2>1. CASE hb[c] < Limit
    <3>1. Reader(c, "read") /\ reader[c] = "loop" /\ UNCHANGED <<message, inbox>>
          /\ source' = [source EXCEPT ![c] = c]
      BY <1>3, <1>4, <2>1 DEF ReadLoop, CallReadHeader, CallReadBody, CallRead, clients
    <3>2. Asks(inbox[c], peer[c], ipv4[c], "read", message[c])
          /\ Stands("read", ipv4[c], status, source'[c], c)
      BY <1>1, <1>3, <3>1 DEF Asks, Stands
    <3>. QED
      BY <1>1, <1>2, <1>3, <3>1, <3>2, ReaderAsks
  <2>2. CASE ~(hb[c] < Limit)
    <3>1. Reader(c, "end") /\ reader[c] = "loop" /\ UNCHANGED <<message, inbox, source>>
      BY <1>4, <2>2 DEF ReadLoop, clients
    <3>2. Asks(inbox[c], peer[c], ipv4[c], "end", message[c])
          /\ Stands("end", ipv4[c], status, source'[c], c)
      BY <1>1, <3>1 DEF Asks, Stands, TableInv, Served
    <3>. QED
      BY <1>1, <1>2, <3>1, <3>2, ReaderAsks
  <2>. QED
    BY <2>1, <2>2
<1>5. CASE ReadHeader(c)
  <2>. DEFINE q == inbox[c]
  <2>1. /\ reader[c] = "read" /\ q # <<>> /\ message' = [message EXCEPT ![c] = Head(q)]
        /\ inbox' = [inbox EXCEPT ![c] = Tail(q)] /\ Reader(c, "handle")
        /\ source' = source
    BY <1>3, <1>5 DEF ReadHeader
  <2>2. OnceIn(q) /\ Aligned(q, FALSE) /\ (ipv4[c] # 0 => ~AskedIn(q)) /\ q \in Seq(Kind)
        /\ ~(peer[c] \in {"away", "connected"})
    BY <1>1, <2>1 DEF Asks
  <2>3. Head(q) \in Kind /\ Tail(q) \in Seq(Kind)
    BY <2>1, <2>2
  <2>4. Head(q) # "body" /\ Aligned(Tail(q), Head(q) = "data")
    BY <2>1, <2>2, AlignedRead
  <2>5. /\ OnceIn(Tail(q)) /\ (AskedIn(Tail(q)) => AskedIn(q))
        /\ Head(q) = "request" => AskedIn(q) /\ ~AskedIn(Tail(q))
    BY <2>1, <2>2, OnceRead
  <2>. HIDE DEF q
  <2>6. Asks(Tail(q), peer[c], ipv4[c], "handle", Head(q))
        /\ Stands("handle", ipv4[c], status, source'[c], c)
    BY <2>2, <2>3, <2>4, <2>5 DEF Asks, Stands, Kind
  <2>. QED
    BY <1>2, <2>1, <2>3, <2>6, ReaderAsks
<1>6. CASE ReadEnd(c)
  <2>1. Reader(c, "read") /\ reader[c] = "read" /\ UNCHANGED <<message, inbox>>
        /\ source' = [source EXCEPT ![c] = c]
    BY <1>3, <1>6 DEF ReadEnd, CallReadHeader, CallReadBody, CallRead, clients
  <2>2. Asks(inbox[c], peer[c], ipv4[c], "read", message[c])
        /\ Stands("read", ipv4[c], status, source'[c], c)
    BY <1>1, <1>3, <2>1 DEF Asks, Stands
  <2>. QED
    BY <1>1, <1>2, <1>3, <2>1, <2>2, ReaderAsks
<1>7. CASE HandleKeepalive(c) \/ HandleOther(c)
  <2>1. Reader(c, "loop") /\ reader[c] = "handle" /\ UNCHANGED <<message, inbox, source>>
        /\ message[c] # "data"
    BY <1>1, <1>7 DEF HandleKeepalive, HandleOther, Type, Asks, clients
  <2>2. Asks(inbox[c], peer[c], ipv4[c], "loop", message[c])
        /\ Stands("loop", ipv4[c], status, source'[c], c)
    BY <1>1, <2>1 DEF Asks, Stands
  <2>. QED
    BY <1>1, <1>2, <2>1, <2>2, ReaderAsks
<1>8. CASE HandleData(c)
  <2>1. Reader(c, "data") /\ reader[c] = "handle" /\ UNCHANGED <<message, inbox>>
        /\ source' = [source EXCEPT ![c] = c] /\ message[c] = "data"
    BY <1>1, <1>3, <1>8 DEF HandleData, CallReadBody, CallRead, Type, Asks, clients
  <2>2. Asks(inbox[c], peer[c], ipv4[c], "data", message[c])
        /\ Stands("data", ipv4[c], status, source'[c], c)
    BY <1>1, <1>3, <2>1 DEF Asks, Stands
  <2>. QED
    BY <1>1, <1>2, <1>3, <2>1, <2>2, ReaderAsks
<1>9. CASE ReadBody(c)
  <2>. DEFINE q == inbox[c]
  <2>1. /\ reader[c] = "data" /\ message[c] = "data" /\ q # <<>> /\ UNCHANGED <<message, source>>
        /\ inbox' = [inbox EXCEPT ![c] = Tail(q)] /\ Reader(c, "loop")
    BY <1>1, <1>3, <1>9 DEF ReadBody, Asks
  <2>2. OnceIn(q) /\ Aligned(q, TRUE) /\ (ipv4[c] # 0 => ~AskedIn(q)) /\ q \in Seq(Kind)
        /\ ~(peer[c] \in {"away", "connected"})
    BY <1>1, <2>1 DEF Asks
  <2>3. Head(q) = "body" /\ Aligned(Tail(q), Head(q) = "data") /\ Tail(q) \in Seq(Kind)
    <3>1. /\ Head(q) = "body" <=> TRUE
          /\ Aligned(Tail(q), Head(q) = "data")
      BY <2>1, <2>2, AlignedRead, Zenon
    <3>. QED
      BY <2>1, <2>2, <3>1
  <2>4. OnceIn(Tail(q)) /\ (AskedIn(Tail(q)) => AskedIn(q))
    BY <2>1, <2>2, OnceRead
  <2>. HIDE DEF q
  <2>5. Aligned(Tail(q), FALSE)
    BY <2>3
  <2>6. Asks(Tail(q), peer[c], ipv4[c], "loop", message[c])
        /\ Stands("loop", ipv4[c], status, source'[c], c)
    BY <2>2, <2>4, <2>5 DEF Asks, Stands
  <2>. QED
    BY <1>1, <1>2, <2>1, <2>3, <2>6, ReaderAsks
\* The body was sent with its header.
<1>10. ~ReadBodyEnd(c)
  BY <1>1, <1>3 DEF ReadBodyEnd, Asks, Aligned
<1>. QED
  BY <1>4, <1>5, <1>6, <1>7, <1>8, <1>9, <1>10

LEMMA RequestAsks ==
  ASSUME IInv, AskInv, NEW c \in Clients, HandleRequest(c) PROVE AskInv'
<1>1. /\ Asks(inbox[c], peer[c], ipv4[c], reader[c], message[c])
      /\ reader \in [Clients -> Places] /\ ipv4 \in [Clients -> Addrs \cup {0}]
      /\ reader[c] = "handle" /\ UNCHANGED <<message, inbox, peer, source>>
  BY DEF AskInv, IInv, Typed, HandleRequest, clients
<1>2. message[c] = "request" /\ ipv4[c] = 0 /\ ~AskedIn(inbox[c]) /\ OnceIn(inbox[c])
      /\ Aligned(inbox[c], FALSE) /\ ~(peer[c] \in {"away", "connected"})
  BY <1>1 DEF HandleRequest, Type, Asks
<1>3. GetFreeIP(c)
  BY <1>2 DEF HandleRequest
<1>. DEFINE free == {a \in Addrs : ~status[a]}
            a == Min(free)
<1>4. CASE free = {}
  <2>1. UNCHANGED <<inbox, peer, ipv4, reader, message, status>> /\ process' = "full"
    BY <1>1, <1>3, <1>4 DEF GetFreeIP, Ends, objects
  <2>. QED
    BY <1>1, <2>1 DEF AskInv
<1>5. CASE free # {}
  <2>1. a \in Addrs /\ ~status[a]
    <3>1. a \in free
      BY <1>5, LeastFree DEF Addrs
    <3>. QED
      BY <3>1
  <2>2. /\ ipv4' = [ipv4 EXCEPT ![c] = a] /\ reader' = [reader EXCEPT ![c] = "answer"]
        /\ UNCHANGED <<process, status>>
    BY <1>3, <1>5 DEF GetFreeIP, Reader, objects
  <2>. HIDE DEF a, free
  <2>3. Asks(inbox[c], peer[c], a, "answer", message[c])
    BY <1>2 DEF Asks
  <2>4. ASSUME NEW d \in Clients
        PROVE  /\ Asks(inbox[d], peer[d], ipv4'[d], reader'[d], message[d])
               /\ Stands(reader'[d], ipv4'[d], status, source[d], d)
    <3>1. CASE d = c
      <4>1. ipv4'[d] = a /\ reader'[d] = "answer"
        BY <1>1, <2>2, <3>1
      <4>2. Stands("answer", a, status, source[d], d)
        BY <2>1 DEF Stands
      <4>. QED
        BY <2>3, <3>1, <4>1, <4>2
    <3>2. CASE d # c
      <4>1. ipv4'[d] = ipv4[d] /\ reader'[d] = reader[d]
        BY <1>1, <2>2, <3>2
      <4>. QED
        BY <4>1 DEF AskInv
    <3>. QED
      BY <3>1, <3>2
  <2>. QED
    BY <1>1, <2>2, <2>4 DEF AskInv
<1>. QED
  BY <1>4, <1>5

LEMMA AnswerAsks ==
  ASSUME IInv, NumbersInv, NobodyClosed, TableInv, AskInv, NEW c \in Clients,
         \/ Answer(c) \/ AnswerBody(c) \/ Mark(c) \/ SetConnection(c) \/ EndReading(c)
  PROVE  AskInv'
<1>1. /\ Asks(inbox[c], peer[c], ipv4[c], reader[c], message[c])
      /\ inbox \in [Clients -> Seq(Kind)] /\ inbox[c] \in Seq(Kind)
      /\ message \in [Clients -> Kind \cup {"unset", "reply"}]
      /\ message[c] \in Kind \cup {"unset", "reply"}
      /\ status \in [Addrs -> BOOLEAN] /\ reader \in [Clients -> Places]
      /\ process # "assert"
      /\ Stands(reader[c], ipv4[c], status, source[c], c)
      /\ ipv4 \in [Clients -> Addrs \cup {0}]
  BY DEF AskInv, IInv, Typed
<1>2. UNCHANGED <<inbox, peer, ipv4, source>>
  BY DEF Answer, AnswerBody, Mark, SetConnection, EndReading, readers, clients
<1>3. ASSUME NEW there \in {"body", "mark", "set", "loop"}, reader[c] # "none",
             ~(reader[c] \in {"loop", "read", "handle", "data", "end"}),
             NEW m \in Kind \cup {"unset", "reply"}
      PROVE  Asks(inbox[c], peer[c], ipv4[c], there, m)
  BY <1>1, <1>3 DEF Asks
<1>4. ASSUME NEW part, NEW ok \in BOOLEAN, NEW m \in Kind \cup {"unset", "reply"},
             NEW there \in {"body", "mark"}, Write(c, "address", part, ok),
             Reader(c, IF ok THEN there ELSE "end"), reader[c] \in {"answer", "body"},
             message' = [message EXCEPT ![c] = m], UNCHANGED <<status>>
      PROVE  AskInv'
  <2>1. file[fd[c]] # None
    BY <1>4, OwnNumber, ThreadedAssumption
  <2>2. ok = TRUE /\ process' \in {process, "killed"}
    BY <1>4, <2>1 DEF Write
  <2>3. Reader(c, there) /\ Asks(inbox[c], peer[c], ipv4[c], there, m)
        /\ Stands(there, ipv4[c], status, source'[c], c)
    BY <1>1, <1>2, <1>3, <1>4, <2>2 DEF Stands
  <2>4. inbox' = [inbox EXCEPT ![c] = inbox[c]]
    BY <1>1, <1>2
  <2>. QED
    BY <1>1, <1>2, <1>4, <2>2, <2>3, <2>4, ReaderAsks
<1>5. CASE Answer(c)
  <2>1. PICK ok \in BOOLEAN : /\ Write(c, "address", "header", ok)
                              /\ Reader(c, IF ok THEN "body" ELSE "end")
    BY <1>5 DEF Answer, SendHeader
  <2>2. reader[c] \in {"answer", "body"} /\ UNCHANGED status
        /\ message' = [message EXCEPT ![c] = "reply"]
    BY <1>5 DEF Answer, objects
  <2>. QED
    BY <1>4, <2>1, <2>2
<1>6. CASE AnswerBody(c)
  <2>1. PICK ok \in BOOLEAN : /\ Write(c, "address", "body", ok)
                              /\ Reader(c, IF ok THEN "mark" ELSE "end")
    BY <1>6 DEF AnswerBody, SendBody
  <2>2. reader[c] \in {"answer", "body"} /\ UNCHANGED status
        /\ message' = [message EXCEPT ![c] = message[c]]
    BY <1>1, <1>6 DEF AnswerBody, objects
  <2>. QED
    BY <1>1, <1>4, <2>1, <2>2
<1>7. CASE Mark(c)
  <2>. DEFINE a == ipv4[c]
  <2>1. reader[c] = "mark" /\ ~status[a] /\ a # 0 /\ a \in Addrs /\ message' = message
    BY <1>1, <1>7 DEF Mark, TableInv, Stands
  <2>2. /\ status' = [status EXCEPT ![a] = TRUE] /\ reader' = [reader EXCEPT ![c] = "set"]
        /\ process' = process
    BY <1>7, <2>1 DEF Mark, SetIpStatus, Reader
  <2>3. ASSUME NEW d \in Clients
        PROVE  /\ Asks(inbox[d], peer[d], ipv4[d], reader'[d], message[d])
               /\ Stands(reader'[d], ipv4[d], status', source[d], d)
    <3>1. CASE d = c
      <4>1. reader'[d] = "set" /\ Asks(inbox[d], peer[d], ipv4[d], "set", message[d])
        BY <1>1, <1>3, <2>1, <2>2, <3>1
      <4>. QED
        BY <4>1 DEF Stands
    <3>2. CASE d # c
      <4>1. reader'[d] = reader[d]
        BY <1>1, <2>2, <3>2
      <4>2. reader[d] # "ended" => ipv4[d] # a
        BY <2>1, <3>2, NotShared
      <4>3. ipv4[d] # a => status'[ipv4[d]] = status[ipv4[d]]
        BY <1>1, <2>1, <2>2
      <4>4. Asks(inbox[d], peer[d], ipv4[d], reader[d], message[d])
            /\ Stands(reader[d], ipv4[d], status, source[d], d)
        BY DEF AskInv
      <4>. QED
        BY <4>1, <4>2, <4>3, <4>4 DEF Stands
    <3>. QED
      BY <3>1, <3>2
  <2>. QED
    BY <1>1, <1>2, <2>1, <2>2, <2>3 DEF AskInv
<1>8. CASE SetConnection(c)
  <2>1. reader[c] = "set" /\ Reader(c, "loop") /\ UNCHANGED <<process, status, message>>
    BY <1>8 DEF SetConnection, TableInv
  <2>2. /\ inbox' = [inbox EXCEPT ![c] = inbox[c]]
        /\ message' = [message EXCEPT ![c] = message[c]]
    BY <1>1, <1>2, <2>1
  <2>3. Asks(inbox[c], peer[c], ipv4[c], "loop", message[c])
        /\ Stands("loop", ipv4[c], status, source'[c], c)
    BY <1>1, <1>3, <2>1 DEF Stands
  <2>. QED
    BY <1>1, <1>2, <2>1, <2>2, <2>3, ReaderAsks
<1>9. CASE EndReading(c)
  <2>. DEFINE a == ipv4[c]
  <2>1. reader[c] = "end" /\ message' = message
    BY <1>9 DEF EndReading
  <2>2. CASE a = 0
    <3>1. UNCHANGED <<status, reader>> /\ process' = "terminated"
      BY <1>9, <2>2 DEF EndReading, Ends
    <3>. QED
      BY <1>2, <2>1, <3>1, StillAsks DEF AskVars
  <2>3. CASE a # 0
    <3>1. status[a] /\ a \in Addrs
      BY <1>1, <2>1, <2>3 DEF Stands
    <3>2. /\ status' = [status EXCEPT ![a] = FALSE] /\ reader' = [reader EXCEPT ![c] = "ended"]
          /\ process' = process
      BY <1>9, <2>3, <3>1 DEF EndReading, SetIpStatus, Reader
    <3>3. ASSUME NEW d \in Clients
          PROVE  /\ Asks(inbox[d], peer[d], ipv4[d], reader'[d], message[d])
                 /\ Stands(reader'[d], ipv4[d], status', source[d], d)
      <4>1. CASE d = c
        <5>1. reader'[d] = "ended" /\ Asks(inbox[d], peer[d], ipv4[d], "ended", message[d])
          BY <1>1, <2>1, <2>3, <3>2, <4>1 DEF Asks
        <5>. QED
          BY <5>1 DEF Stands
      <4>2. CASE d # c
        <5>1. reader'[d] = reader[d]
          BY <1>1, <3>2, <4>2
        <5>2. reader[d] # "ended" => ipv4[d] # a
          BY <2>1, <2>3, <4>2, NotShared
        <5>3. ipv4[d] # a => status'[ipv4[d]] = status[ipv4[d]]
          BY <1>1, <3>1, <3>2
        <5>4. Asks(inbox[d], peer[d], ipv4[d], reader[d], message[d])
              /\ Stands(reader[d], ipv4[d], status, source[d], d)
          BY DEF AskInv
        <5>. QED
          BY <5>1, <5>2, <5>3, <5>4 DEF Stands
      <4>. QED
        BY <4>1, <4>2
    <3>. QED
      BY <1>1, <1>2, <2>1, <3>2, <3>3 DEF AskInv
  <2>. QED
    BY <2>2, <2>3
<1>. QED
  BY <1>5, <1>6, <1>7, <1>8, <1>9

LEMMA AskKeeps ==
  IInv /\ NumbersInv /\ NobodyClosed /\ TableInv /\ AskInv /\ [Next]_vars => AskInv'
<1>. SUFFICES ASSUME IInv, NumbersInv, NobodyClosed, TableInv, AskInv, [Next]_vars
              PROVE  AskInv'
  OBVIOUS
<1>0. process # "assert"
  BY DEF AskInv
<1>1. ASSUME NEW c \in Clients, Accept(c) \/ Ask(c) \/ Talk(c) \/ Leave(c) PROVE AskInv'
  <2>1. peer[c] = "away" => reader[c] = "none"
    BY DEF IInv, StartedInv
  <2>. QED
    BY <1>1, <2>1, ClientAsks
<1>2. ASSUME NEW c \in Clients, ReaderStep(c) PROVE AskInv'
  BY <1>2, ReadAsks, RequestAsks, AnswerAsks DEF ReaderStep
<1>3. ASSUME NEW c \in Clients, WriterStep(c) \/ KeeperStep(c) PROVE AskInv'
  <2>1. UNCHANGED AskVars
    BY <1>3 DEF WriterStep, WriteFrame, WriteFrameBody, KeeperStep, KeepTick, KeepTest, KeepSend,
                KeepClose, objects, readers, clients, AskVars
  <2>2. process' = process \/ \E t \in Sender, part \in {"header", "body", "whole"},
                                 ok \in BOOLEAN : Write(c, t, part, ok)
    BY <1>3 DEF WriterStep, WriteFrame, WriteFrameBody, SendHeader, SendBody, KeeperStep,
                KeepTick, KeepTest, KeepSend, KeepClose, Sender
  <2>3. process' \in {process, "killed"}
    BY <2>2 DEF Write
  <2>. QED
    BY <1>0, <2>1, <2>3, StillAsks
<1>4. TunStep \/ UNCHANGED vars => UNCHANGED AskVars /\ process' = process
  BY DEF TunStep, TunRead, TunPush, vars, AskVars, objects, readers, clients
<1>. QED
  BY <1>0, <1>1, <1>2, <1>3, <1>4, StillAsks DEF Next

\* If requests are handled one at a time, an assertion of the table fails only after
\* a keepalive thread has closed the number of a connection whose threads go on, for
\* any number of clients that come, leave and fall silent.
THEOREM AssertsAfterClose ==
  ASSUME Serial PROVE Spec => []AssertsOnlyAfterClose
<1>1. Init => AskInv
  BY DEF Init, AskInv, Asks, Stands, OnceIn, Aligned, AskedIn
<1>2. IInv /\ NumbersInv /\ TableInv /\ (NobodyClosed => AskInv) /\ [Next]_vars
        => (NobodyClosed => AskInv)'
  <2>. SUFFICES ASSUME IInv, NumbersInv, TableInv, NobodyClosed => AskInv, [Next]_vars,
                       NobodyClosed'
                PROVE  AskInv'
    OBVIOUS
  <2>1. NobodyClosed
    <3>1. keeper \in [Clients -> {"none", "loop", "test", "send", "close", "ended"}]
      BY DEF IInv, Typed
    <3>2. ASSUME NEW c \in Clients, Accept(c) \/ KeeperStep(c)
          PROVE  \A d \in Clients : keeper[d] = "ended" => keeper'[d] = "ended"
      <4>1. /\ keeper[c] # "ended"
            /\ keeper' = keeper \/ \E there : keeper' = [keeper EXCEPT ![c] = there]
        BY <3>2 DEF Accept, KeeperStep, KeepTick, KeepTest, KeepSend, KeepClose, NumbersInv
      <4>. QED
        BY <3>1, <4>1
    <3>. QED
      BY <3>2, NumbersUntouched DEF NobodyClosed
  <2>. QED
    BY <2>1, AskKeeps
<1>3. (NobodyClosed => AskInv) => AssertsOnlyAfterClose
  BY DEF AskInv, AssertsOnlyAfterClose
<1>. QED
  BY <1>1, <1>2, <1>3, Invariant, TableInvariant, StreamInvariant, PTL DEF Spec

\* So none fails while clients stay and talk.
THEOREM NoAssertion == ASSUME Serial, ~Leaves PROVE Spec => []NoAssertFails
<1>1. SteadyInv => NobodyClosed
  BY DEF SteadyInv, NobodyClosed
<1>2. NobodyClosed /\ AssertsOnlyAfterClose => NoAssertFails
  BY DEF NoAssertFails, AssertsOnlyAfterClose
<1>. QED
  BY <1>1, <1>2, AssertsAfterClose, SteadyInvariant, PTL

=============================================================================
