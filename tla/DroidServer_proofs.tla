------------------------ MODULE DroidServer_proofs ------------------------
(***************************************************************************)
(* Proofs about DroidServer, for any sizes of its buffers and any traffic. *)
(***************************************************************************)
EXTENDS DroidServer, Framing

Parts == {"over6Err", "over6In", "over6Out", "tunIn", "tunOut"}

---------------------------------------------------------------------------
(* The inductive invariant.                                                *)

\* What is left of the open frame; a connection that was reset carries no more.
FramesInv == \E r \in Nat : Frames(wire, need, r) /\ (tcp # "rst" => r = remain)

\* No part of a batch is handled twice.
Once(b) == \A i, j \in 1 .. Len(b) : b[i] = b[j] => i = j

\* What epoll promised for the socket is still there: it is asked when there are
\* packets, and then the one reply has been written.
Room(b, space, h) ==
    (\E k \in 1 .. Len(b) : b[k] = "over6Out") => space >= 2 /\ h # <<>>

BatchInv == Once(batch) /\ Room(batch, Space, handled)

\* No packet comes before the address was asked for.
QuietInv == handled = <<>> => tunq = <<>> /\ outbuf = <<>>

\* The halves on their way are those of the messages sent and not handled yet.
Halved(q, s, h, x) ==
    /\ Len(q) = 2 * (Len(s) - Len(h)) + (IF x = None THEN 0 ELSE 1)
    /\ \A k \in 1 .. Len(s) - Len(h) : q[2 * k - 1][1] = s[Len(h) + k]
    /\ x # None => q[Len(q)][1] = x

StreamInv == Halved(inbuf \o rcvq, sent, handled, half)

\* The client asks for its address first, and once.
AskInv ==
    /\ \A k \in 1 .. Len(sent) : sent[k] = "IP_REQUEST" <=> k = 1
    /\ half # None => (half = "IP_REQUEST" <=> sent = <<>>)

IInv == TypeOK /\ FramesInv /\ BatchInv /\ QuietInv /\ StreamInv /\ AskInv

\* The payload on the wire w are the packets behind a up to b, in their order.
Carries(w, a, b) ==
    /\ a <= b
    /\ \A j \in 1 .. Len(w) : w[j][1] = "data" => w[j][2] \in a + 1 .. b
    /\ \A k \in a + 1 .. b : \E j \in 1 .. Len(w) : w[j][1] = "data" /\ w[j][2] = k
    /\ \A i, j \in 1 .. Len(w) :
          w[i][1] = "data" /\ w[j][1] = "data" /\ i < j => w[i][2] < w[j][2]

\* The packets of q follow number a without a gap.
Follow(q, a) == \A i \in 1 .. Len(q) : q[i] = a + i

\* The last packet that was written to the client.
Written == arrived - Len(tunq) - Len(outbuf)

PacketInv ==
    /\ Carries(wire, Len(received), Written)
    /\ Follow(received, 0)
    /\ Follow(outbuf, Written)
    /\ Follow(tunq, Written + Len(outbuf))

OrderInv == tcp # "rst" => PacketInv

---------------------------------------------------------------------------
(* What is written to the socket.                                          *)

LEMMA UnitsOf == AreUnits(Unit)
  BY DEF Unit, AreUnits

\* write(): a prefix of the units, as long as there is space.
LEMMA WriteDoes ==
  ASSUME TypeOK, NEW u \in Seq(Unit), Write(u)
  PROVE  LET n == Least(Len(u), SndCap - Len(wire))
         IN /\ n \in 0 .. Len(u)
            /\ wire' \in Seq(Unit) /\ Len(wire') = Len(wire) + n /\ Len(wire') <= SndCap
            /\ \A j \in 1 .. Len(wire) : wire'[j] = wire[j]
            /\ \A j \in 1 .. n : wire'[Len(wire) + j] = u[j]
<1>. DEFINE n == Least(Len(u), SndCap - Len(wire))
            x == SubSeq(u, 1, n)
<1>1. wire \in Seq(Unit) /\ Len(wire) <= SndCap /\ SndCap \in Nat
  BY LowWaterAssumption DEF TypeOK
<1>2. n \in 0 .. Len(u) /\ Len(wire) + n <= SndCap
  <2>1. Len(u) \in Nat /\ Len(wire) \in Nat /\ SndCap - Len(wire) \in Nat
    BY <1>1
  <2>. DEFINE l == Len(u)
              k == Len(wire)
  <2>2. n = IF l < SndCap - k THEN l ELSE SndCap - k
    BY DEF Least
  <2>. HIDE DEF n, l, k
  <2>3. l \in Nat /\ k \in Nat /\ SndCap \in Nat /\ k <= SndCap
    BY <1>1, <2>1 DEF l, k
  <2>4. n \in 0 .. l /\ k + n <= SndCap
    BY <2>2, <2>3
  <2>. QED
    BY <2>4 DEF l, k
<1>3. wire' = wire \o x
  BY DEF Write, Space
<1>. HIDE DEF n
<1>4. x \in Seq(Unit) /\ Len(x) = n /\ \A j \in 1 .. n : x[j] = u[j]
  BY <1>2, SubSeqProperties
<1>. HIDE DEF x
<1>5. /\ wire' \in Seq(Unit) /\ Len(wire') = Len(wire) + n
      /\ \A j \in 1 .. Len(wire) : wire'[j] = wire[j]
      /\ \A j \in 1 .. n : wire'[Len(wire) + j] = x[j]
  <2>. DEFINE v == wire \o x
  <2>1. /\ v \in Seq(Unit) /\ Len(v) = Len(wire) + Len(x)
        /\ \A j \in 1 .. Len(wire) : v[j] = wire[j]
        /\ \A j \in 1 .. Len(x) : v[Len(wire) + j] = x[j]
    <3>1. wire \in Seq(Unit) /\ x \in Seq(Unit)
      BY <1>1, <1>4
    <3>2. v \in Seq(Unit)
      BY <3>1
    <3>3. Len(v) = Len(wire) + Len(x)
      BY <3>1
    <3>4. \A j \in 1 .. Len(wire) : v[j] = wire[j]
      BY <3>1
    <3>5. ASSUME NEW j \in 1 .. Len(x) PROVE v[Len(wire) + j] = x[j]
      BY <3>1
    <3>. QED
      BY <3>2, <3>3, <3>4, <3>5
  <2>. HIDE DEF v
  <2>2. wire' = v
    BY <1>3 DEF v
  <2>. QED
    BY <1>4, <2>1, <2>2, Zenon
<1>. QED
  BY <1>2, <1>4, <1>5 DEF n

---------------------------------------------------------------------------
(* What the steps of the program do to its buffers.                        *)

LEMMA DataProperties ==
  ASSUME NEW q \in Seq(Nat)
  PROVE  /\ Data(q) \in Seq(Unit) /\ Len(Data(q)) = Len(q)
         /\ \A j \in 1 .. Len(q) : Data(q)[j] = <<"data", q[j]>>
  BY DEF Data, Unit

\* readToBuf: what is taken from the one end is appended to the other.
LEMMA Moved ==
  ASSUME NEW S, NEW b \in Seq(S), NEW q \in Seq(S), NEW cap \in Nat
  PROVE  LET n == Fits(q, b, cap)
         IN /\ n \in 0 .. Len(q)
            /\ b \o SubSeq(q, 1, n) \in Seq(S)
            /\ Len(b \o SubSeq(q, 1, n)) = Len(b) + n
            /\ Len(b) <= cap => Len(b) + n <= cap
            /\ Rest(q, n) \in Seq(S) /\ Len(Rest(q, n)) = Len(q) - n
<1>. DEFINE n == Fits(q, b, cap)
<1>1. n \in 0 .. Len(q) /\ (Len(b) <= cap => Len(b) + n <= cap)
  <2>1. Len(q) \in Nat /\ Len(b) \in Nat /\ (Len(b) < cap => cap - Len(b) \in Nat)
    OBVIOUS
  <2>. QED
    BY <2>1 DEF Fits, Least
<1>. HIDE DEF n
<1>2. SubSeq(q, 1, n) \in Seq(S) /\ Len(SubSeq(q, 1, n)) = n
  BY <1>1, SubSeqProperties
<1>3. Rest(q, n) \in Seq(S) /\ Len(Rest(q, n)) = Len(q) - n
  BY <1>1, SubSeqProperties DEF Rest
<1>4. /\ b \o SubSeq(q, 1, n) \in Seq(S)
      /\ Len(b \o SubSeq(q, 1, n)) = Len(b) + n
  BY <1>2
<1>. QED
  BY <1>1, <1>3, <1>4 DEF n

LEMMA NothingLost ==
  ASSUME NEW S, NEW b \in Seq(S), NEW q \in Seq(S), NEW n \in 0 .. Len(q)
  PROVE  (b \o SubSeq(q, 1, n)) \o Rest(q, n) = b \o q
<1>1. SubSeq(q, 1, n) \in Seq(S) /\ Rest(q, n) \in Seq(S)
  BY SubSeqProperties DEF Rest
<1>2. SubSeq(q, 1, n) \o Rest(q, n) = q
  <2>1. SubSeq(q, 1, n) \o SubSeq(q, n + 1, Len(q)) = SubSeq(q, 1, Len(q))
    <3>1. /\ 1 \in 1 .. Len(q) + 1 /\ n \in 1 - 1 .. Len(q) /\ Len(q) \in n .. Len(q)
      OBVIOUS
    <3>. QED
      BY <3>1, ConcatAdjacentSubSeq, Zenon
  <2>. QED
    BY <2>1, SubSeqFull DEF Rest
<1>3. (b \o SubSeq(q, 1, n)) \o Rest(q, n) = b \o (SubSeq(q, 1, n) \o Rest(q, n))
  <2>1. \A x, y \in Seq(S) : (b \o x) \o y = b \o (x \o y)
    BY ConcatAssociative
  <2>. QED
    BY <1>1, <2>1, Zenon
<1>. QED
  BY <1>2, <1>3

LEMMA RestProperties ==
  ASSUME NEW S, NEW q \in Seq(S), NEW n \in 0 .. Len(q)
  PROVE  /\ Rest(q, n) \in Seq(S) /\ Len(Rest(q, n)) = Len(q) - n
         /\ \A i \in 1 .. Len(q) - n : Rest(q, n)[i] = q[n + i]
  BY SubSeqProperties DEF Rest

---------------------------------------------------------------------------
(* The packets on the wire.                                                *)

\* v is w with h units behind it that are not payload, and n packets of q.
Extended(v, w, h, q, n) ==
    /\ Len(v) = Len(w) + h + n
    /\ \A j \in 1 .. Len(w) : v[j] = w[j]
    /\ \A j \in 1 .. h : v[Len(w) + j][1] # "data"
    /\ \A j \in 1 .. n : v[Len(w) + h + j] = <<"data", q[j]>>

LEMMA CarriesMore ==
  ASSUME NEW w \in Seq(Unit), NEW v \in Seq(Unit), NEW a \in Nat, NEW b \in Int,
         Carries(w, a, b), NEW q \in Seq(Nat), NEW h \in Nat, NEW n \in 0 .. Len(q),
         Extended(v, w, h, q, n), \A i \in 1 .. n : q[i] = b + i
  PROVE  Carries(v, a, b + n)
<1>0. /\ Len(w) \in Nat /\ Len(v) = Len(w) + h + n /\ n \in Nat /\ a <= b
      /\ \A j \in 1 .. Len(w) : v[j] = w[j] /\ w[j][2] \in Nat
  <2>1. \A j \in 1 .. Len(w) : w[j][2] \in Nat
    BY DEF Unit
  <2>2. a <= b
    BY DEF Carries
  <2>3. Len(v) = Len(w) + h + n /\ \A j \in 1 .. Len(w) : v[j] = w[j]
    BY DEF Extended
  <2>. QED
    BY <2>1, <2>2, <2>3
<1>1. ASSUME NEW j \in 1 .. Len(v), v[j][1] = "data"
      PROVE  \/ j \in 1 .. Len(w) /\ v[j] = w[j] /\ w[j][2] \in a + 1 .. b
             \/ j > Len(w) /\ v[j][2] = b + (j - (Len(w) + h)) /\ j - (Len(w) + h) \in 1 .. n
  <2>1. CASE j \in 1 .. Len(w)
    BY <1>0, <1>1, <2>1 DEF Carries
  <2>2. CASE j \in Len(w) + 1 .. Len(w) + h
    <3>1. j - Len(w) \in 1 .. h /\ Len(w) + (j - Len(w)) = j
      BY <1>0, <2>2
    <3>. QED
      BY <1>1, <3>1 DEF Extended
  <2>3. CASE j > Len(w) + h
    <3>. DEFINE i == j - (Len(w) + h)
    <3>1. i \in 1 .. n /\ Len(w) + h + i = j /\ j > Len(w)
      BY <1>0, <2>3
    <3>2. v[Len(w) + h + i] = <<"data", q[i]>>
      BY <3>1 DEF Extended
    <3>3. v[j][2] = q[i] /\ q[i] = b + i
      BY <3>1, <3>2
    <3>. QED
      BY <3>1, <3>3
  <2>. QED
    BY <1>0, <2>1, <2>2, <2>3
<1>2. ASSUME NEW j \in 1 .. Len(v), v[j][1] = "data" PROVE v[j][2] \in a + 1 .. b + n
  <2>1. CASE j \in 1 .. Len(w) /\ v[j] = w[j] /\ w[j][2] \in a + 1 .. b
    BY <1>0, <2>1
  <2>2. CASE v[j][2] = b + (j - (Len(w) + h)) /\ j - (Len(w) + h) \in 1 .. n
    BY <1>0, <2>2
  <2>. QED
    BY <1>1, <1>2, <2>1, <2>2
<1>3. ASSUME NEW k \in a + 1 .. b + n
      PROVE  \E j \in 1 .. Len(v) : v[j][1] = "data" /\ v[j][2] = k
  <2>1. CASE k <= b
    <3>1. k \in a + 1 .. b
      BY <2>1
    <3>2. PICK j \in 1 .. Len(w) : w[j][1] = "data" /\ w[j][2] = k
      BY <3>1 DEF Carries
    <3>. QED
      BY <1>0, <3>2
  <2>2. CASE k > b
    <3>. DEFINE i == k - b
                j == Len(w) + h + i
    <3>1. i \in 1 .. n /\ j \in 1 .. Len(v) /\ b + i = k
      BY <1>0, <2>2
    <3>2. v[j] = <<"data", q[i]>>
      BY <3>1 DEF Extended
    <3>3. v[j][1] = "data" /\ v[j][2] = q[i] /\ q[i] = b + i
      BY <3>1, <3>2
    <3>. QED
      BY <3>1, <3>3
  <2>. QED
    BY <2>1, <2>2
<1>4. ASSUME NEW i \in 1 .. Len(v), NEW j \in 1 .. Len(v),
             v[i][1] = "data", v[j][1] = "data", i < j
      PROVE  v[i][2] < v[j][2]
  <2>1. CASE j \in 1 .. Len(w)
    <3>1. i \in 1 .. Len(w) /\ v[i] = w[i] /\ v[j] = w[j]
      BY <1>0, <1>4, <2>1
    <3>. QED
      BY <1>4, <2>1, <3>1 DEF Carries
  <2>2. CASE j \notin 1 .. Len(w) /\ i \in 1 .. Len(w)
    <3>1. v[i][2] \in a + 1 .. b
      <4>1. v[i] = w[i] /\ w[i][1] = "data"
        BY <1>0, <1>4, <2>2
      <4>. QED
        BY <2>2, <4>1 DEF Carries
    <3>2. v[j][2] = b + (j - (Len(w) + h)) /\ j - (Len(w) + h) \in 1 .. n
      BY <1>1, <1>4, <2>2
    <3>. QED
      BY <1>0, <3>1, <3>2
  <2>3. CASE j \notin 1 .. Len(w) /\ i \notin 1 .. Len(w)
    <3>1. v[i][2] = b + (i - (Len(w) + h)) /\ v[j][2] = b + (j - (Len(w) + h))
      BY <1>0, <1>1, <1>4, <2>3
    <3>. QED
      BY <1>0, <1>4, <3>1
  <2>. QED
    BY <1>0, <1>4, <2>1, <2>2, <2>3
<1>5. a <= b + n
  BY <1>0
<1>. QED
  BY <1>2, <1>3, <1>4, <1>5 DEF Carries

\* The first payload of the wire is the packet the client expects.
LEMMA CarriesLess ==
  ASSUME NEW w \in Seq(Unit), w # <<>>, NEW a \in Nat, NEW b \in Int, Carries(w, a, b)
  PROVE  /\ w[1][1] = "data" => w[1][2] = a + 1 /\ a < b /\ Carries(Tail(w), a + 1, b)
         /\ w[1][1] # "data" => Carries(Tail(w), a, b)
<1>. DEFINE v == Tail(w)
<1>0. /\ Len(w) \in Nat /\ Len(w) > 0 /\ Len(v) = Len(w) - 1
      /\ \A j \in 1 .. Len(w) : w[j][2] \in Nat
      /\ \A j \in 1 .. Len(v) : j + 1 \in 1 .. Len(w) /\ v[j] = w[j + 1]
  BY DEF Unit
<1>. HIDE DEF v
<1>1. ASSUME w[1][1] = "data" PROVE w[1][2] = a + 1 /\ a < b
  <2>1. w[1][2] \in a + 1 .. b
    BY <1>0, <1>1 DEF Carries
  <2>2. PICK j \in 1 .. Len(w) : w[j][1] = "data" /\ w[j][2] = a + 1
    <3>1. a + 1 \in a + 1 .. b
      BY <2>1
    <3>. QED
      BY <3>1 DEF Carries
  <2>3. j = 1
    <3>1. ASSUME 1 < j PROVE w[1][2] < w[j][2]
      BY <1>0, <1>1, <2>2, <3>1 DEF Carries
    <3>. QED
      BY <1>0, <2>1, <2>2, <3>1
  <2>. QED
    BY <2>1, <2>2, <2>3
<1>2. ASSUME NEW c \in Nat, c <= b,
             \/ w[1][1] = "data" /\ c = a + 1
             \/ w[1][1] # "data" /\ c = a
      PROVE  Carries(v, c, b)
  <2>1. ASSUME NEW j \in 1 .. Len(v), v[j][1] = "data" PROVE v[j][2] \in c + 1 .. b
    <3>1. j + 1 \in 1 .. Len(w) /\ v[j] = w[j + 1] /\ 1 \in 1 .. Len(w) /\ 1 < j + 1
      BY <1>0
    <3>2. w[j + 1][2] \in a + 1 .. b
      BY <2>1, <3>1 DEF Carries
    <3>3. CASE w[1][1] = "data" /\ c = a + 1
      <4>1. w[1][2] < w[j + 1][2]
        BY <2>1, <3>1, <3>3 DEF Carries
      <4>. QED
        BY <1>1, <3>1, <3>2, <3>3, <4>1
    <3>4. CASE c = a
      BY <3>1, <3>2, <3>4
    <3>. QED
      BY <1>2, <3>3, <3>4
  <2>2. ASSUME NEW k \in c + 1 .. b PROVE \E j \in 1 .. Len(v) : v[j][1] = "data" /\ v[j][2] = k
    <3>1. k \in a + 1 .. b
      BY <1>2
    <3>2. PICK j \in 1 .. Len(w) : w[j][1] = "data" /\ w[j][2] = k
      BY <3>1 DEF Carries
    <3>3. j # 1
      BY <1>1, <1>2, <3>2
    <3>4. j - 1 \in 1 .. Len(v) /\ (j - 1) + 1 = j
      BY <1>0, <3>3
    <3>5. v[j - 1] = w[j]
      BY <1>0, <3>4
    <3>. QED
      BY <3>2, <3>4, <3>5
  <2>3. ASSUME NEW i \in 1 .. Len(v), NEW j \in 1 .. Len(v),
               v[i][1] = "data", v[j][1] = "data", i < j
        PROVE  v[i][2] < v[j][2]
    <3>1. /\ i + 1 \in 1 .. Len(w) /\ v[i] = w[i + 1] /\ i + 1 < j + 1
          /\ j + 1 \in 1 .. Len(w) /\ v[j] = w[j + 1]
      BY <1>0, <2>3
    <3>. QED
      BY <2>3, <3>1 DEF Carries
  <2>. QED
    BY <1>2, <2>1, <2>2, <2>3 DEF Carries
<1>3. ASSUME w[1][1] = "data" PROVE Carries(v, a + 1, b)
  <2>1. a + 1 \in Nat /\ a + 1 <= b
    BY <1>1, <1>3
  <2>. QED
    BY <1>2, <1>3, <2>1
<1>4. ASSUME w[1][1] # "data" PROVE Carries(v, a, b)
  <2>1. a <= b
    BY DEF Carries
  <2>. QED
    BY <1>2, <1>4, <2>1
<1>. QED
  BY <1>1, <1>3, <1>4 DEF v

---------------------------------------------------------------------------
(* The halves of messages: sent, moved, put together.                      *)

LEMMA AppendLast ==
  ASSUME NEW S, NEW b \in Seq(S), NEW q \in Seq(S), NEW e \in S
  PROVE  b \o Append(q, e) = Append(b \o q, e)
  OBVIOUS

LEMMA HalfSent ==
  ASSUME NEW q \in Seq(Halves), NEW s \in Seq(Messages), NEW h \in Seq(Messages),
         NEW m \in Messages, NEW x \in {None, m}, NEW e \in Halves, e[1] = m,
         Halved(q, s, h, x)
  PROVE  Halved(Append(q, e), IF x = None THEN s ELSE Append(s, m), h,
                IF x = None THEN m ELSE None)
<1>. DEFINE v == Append(q, e)
            d == Len(s) - Len(h)
<1>0. m # None
  BY ConstAssumption
<1>1. /\ Len(q) \in Nat /\ Len(s) \in Nat /\ Len(h) \in Nat /\ d \in Int
      /\ v \in Seq(Halves) /\ Len(v) = Len(q) + 1
      /\ v[Len(v)] = e /\ \A k \in 1 .. Len(q) : v[k] = q[k]
  OBVIOUS
<1>2. Len(q) = 2 * d + (IF x = None THEN 0 ELSE 1)
  BY DEF Halved
<1>3. \A k \in 1 .. d : q[2 * k - 1][1] = s[Len(h) + k]
  BY DEF Halved
<1>4. d >= 0
  BY <1>1, <1>2
<1>. HIDE DEF v
<1>5. \A k \in 1 .. d : v[2 * k - 1][1] = s[Len(h) + k]
  <2>. SUFFICES ASSUME NEW k \in 1 .. d PROVE v[2 * k - 1][1] = s[Len(h) + k]
    OBVIOUS
  <2>1. 2 * k - 1 \in 1 .. Len(q)
    BY <1>1, <1>2
  <2>. QED
    BY <1>1, <1>3, <2>1
<1>6. CASE x = None
  <2>1. Len(v) = 2 * d + 1
    BY <1>1, <1>2, <1>6
  <2>2. Halved(v, s, h, m)
    BY <1>0, <1>1, <1>5, <2>1 DEF Halved
  <2>. QED
    BY <1>6, <2>2 DEF v
<1>7. CASE x = m
  <2>. DEFINE t == Append(s, m)
  <2>1. /\ Len(t) = Len(s) + 1 /\ t[Len(s) + 1] = m
        /\ \A k \in 1 .. Len(s) : t[k] = s[k]
    OBVIOUS
  <2>. HIDE DEF t
  <2>2. Len(q) = 2 * d + 1 /\ q[Len(q)][1] = m
    BY <1>0, <1>2, <1>7 DEF Halved
  <2>3. Len(v) = 2 * (Len(t) - Len(h)) + 0
    BY <1>1, <2>1, <2>2
  <2>4. ASSUME NEW k \in 1 .. Len(t) - Len(h) PROVE v[2 * k - 1][1] = t[Len(h) + k]
    <3>1. CASE k = d + 1
      <4>1. 2 * k - 1 = Len(q) /\ Len(q) \in 1 .. Len(q) /\ Len(h) + k = Len(s) + 1
        BY <1>1, <1>4, <2>2, <3>1
      <4>. QED
        BY <1>1, <2>1, <2>2, <4>1
    <3>2. CASE k # d + 1
      <4>1. k \in 1 .. d /\ Len(h) + k \in 1 .. Len(s)
        BY <1>1, <2>1, <3>2
      <4>. QED
        BY <1>5, <2>1, <4>1
    <3>. QED
      BY <3>1, <3>2
  <2>5. Halved(v, t, h, None)
    BY <2>3, <2>4 DEF Halved
  <2>. QED
    BY <1>0, <1>7, <2>5 DEF v, t
<1>. QED
  BY <1>6, <1>7

\* over6Handle takes the two halves of the oldest message that was not handled.
LEMMA MessageTaken ==
  ASSUME NEW b \in Seq(Halves), NEW q \in Seq(Halves), Len(b) >= 2,
         NEW s \in Seq(Messages), NEW h \in Seq(Messages), NEW x \in Messages \cup {None},
         Halved(b \o q, s, h, x)
  PROVE  /\ Len(h) < Len(s) /\ b[1][1] = s[Len(h) + 1]
         /\ Halved(Rest(b, 2) \o q, s, Append(h, b[1][1]), x)
<1>. DEFINE c == b \o q
            v == Rest(b, 2) \o q
            g == Append(h, b[1][1])
            d == Len(s) - Len(h)
<1>1. /\ c \in Seq(Halves) /\ Len(c) = Len(b) + Len(q)
      /\ \A k \in 1 .. Len(b) : c[k] = b[k]
      /\ \A k \in 1 .. Len(q) : c[Len(b) + k] = q[k]
      /\ Len(b) \in Nat /\ Len(q) \in Nat /\ d \in Int
      /\ Len(g) = Len(h) + 1 /\ Len(s) \in Nat /\ Len(h) \in Nat
  OBVIOUS
<1>2. /\ Rest(b, 2) \in Seq(Halves) /\ Len(Rest(b, 2)) = Len(b) - 2
      /\ \A k \in 1 .. Len(b) - 2 : Rest(b, 2)[k] = b[2 + k]
  BY RestProperties
<1>3. v \in Seq(Halves) /\ Len(v) = Len(c) - 2 /\ \A k \in 1 .. Len(v) : v[k] = c[k + 2]
  <2>1. v \in Seq(Halves) /\ Len(v) = Len(c) - 2
    <3>1. v \in Seq(Halves) /\ Len(v) = Len(Rest(b, 2)) + Len(q)
      BY <1>2
    <3>. HIDE DEF c, v
    <3>. QED
      BY <1>1, <1>2, <3>1
  <2>2. ASSUME NEW k \in 1 .. Len(v) PROVE v[k] = c[k + 2]
    <3>1. CASE k <= Len(b) - 2
      <4>1. v[k] = Rest(b, 2)[k] /\ k \in 1 .. Len(b) - 2 /\ k + 2 \in 1 .. Len(b)
        BY <1>1, <1>2, <3>1
      <4>. QED
        BY <1>1, <1>2, <4>1
    <3>2. CASE k > Len(b) - 2
      <4>. DEFINE i == k - (Len(b) - 2)
      <4>1. i \in 1 .. Len(q) /\ k = (Len(b) - 2) + i /\ k + 2 = Len(b) + i
        BY <1>1, <2>1, <3>2
      <4>2. v[k] = q[i]
        BY <1>1, <1>2, <4>1
      <4>. QED
        BY <1>1, <4>1, <4>2
    <3>. QED
      BY <1>1, <2>1, <3>1, <3>2
  <2>. QED
    BY <2>1, <2>2
<1>. HIDE DEF c, v, g
<1>4. Len(c) = 2 * d + (IF x = None THEN 0 ELSE 1)
  BY DEF Halved, c
<1>5. \A k \in 1 .. d : c[2 * k - 1][1] = s[Len(h) + k]
  BY DEF Halved, c
<1>6. d >= 1
  BY <1>1, <1>4
<1>7. b[1][1] = s[Len(h) + 1]
  <2>1. 1 \in 1 .. d /\ 2 * 1 - 1 = 1 /\ 1 \in 1 .. Len(b)
    BY <1>1, <1>6
  <2>2. c[2 * 1 - 1][1] = s[Len(h) + 1]
    BY <1>5, <2>1
  <2>. QED
    BY <1>1, <2>1, <2>2
<1>8. Len(v) = 2 * (Len(s) - Len(g)) + (IF x = None THEN 0 ELSE 1)
  BY <1>1, <1>3, <1>4
<1>9. ASSUME NEW k \in 1 .. Len(s) - Len(g) PROVE v[2 * k - 1][1] = s[Len(g) + k]
  <2>1. k + 1 \in 1 .. d /\ 2 * (k + 1) - 1 = (2 * k - 1) + 2 /\ Len(h) + (k + 1) = Len(g) + k
    BY <1>1
  <2>2. 2 * k - 1 \in 1 .. Len(v)
    BY <1>1, <1>8
  <2>3. c[2 * (k + 1) - 1][1] = s[Len(h) + (k + 1)]
    BY <1>5, <2>1
  <2>. QED
    BY <1>3, <2>1, <2>2, <2>3
<1>10. ASSUME x # None PROVE v[Len(v)][1] = x
  <2>1. Len(v) \in 1 .. Len(v) /\ Len(v) + 2 = Len(c)
    BY <1>1, <1>3, <1>4, <1>6, <1>8, <1>10
  <2>2. c[Len(c)][1] = x
    BY <1>10 DEF Halved, c
  <2>. QED
    BY <1>3, <2>1, <2>2
<1>11. Halved(v, s, g, x)
  BY <1>8, <1>9, <1>10 DEF Halved
<1>. QED
  BY <1>1, <1>6, <1>7, <1>11 DEF v, g

---------------------------------------------------------------------------
(* The events of one turn.                                                 *)

LEMMA BatchShrinks ==
  ASSUME NEW b \in Seq(Parts), b # <<>>, Once(b), NEW sp \in Int, NEW h, Room(b, sp, h)
  PROVE  /\ Tail(b) \in Seq(Parts) /\ Once(Tail(b)) /\ Room(Tail(b), sp, h)
         /\ b[1] = "over6Out" => \A k \in 1 .. Len(Tail(b)) : Tail(b)[k] # "over6Out"
<1>. DEFINE v == Tail(b)
<1>1. /\ v \in Seq(Parts) /\ Len(v) = Len(b) - 1 /\ Len(b) \in Nat /\ 1 \in 1 .. Len(b)
      /\ \A k \in 1 .. Len(v) : k + 1 \in 1 .. Len(b) /\ v[k] = b[k + 1]
  OBVIOUS
<1>. HIDE DEF v
<1>2. Once(v)
  <2>. SUFFICES ASSUME NEW i \in 1 .. Len(v), NEW j \in 1 .. Len(v), v[i] = v[j] PROVE i = j
    BY DEF Once
  <2>1. i + 1 = j + 1
    BY <1>1 DEF Once
  <2>. QED
    BY <1>1, <2>1
<1>3. Room(v, sp, h)
  BY <1>1 DEF Room
<1>4. ASSUME b[1] = "over6Out", NEW k \in 1 .. Len(v) PROVE v[k] # "over6Out"
  <2>1. k + 1 # 1
    BY <1>1
  <2>. QED
    BY <1>1, <1>4, <2>1 DEF Once
<1>. QED
  BY <1>1, <1>2, <1>3, <1>4 DEF v

LEMMA Joined ==
  ASSUME NEW A, NEW B, A \cap B = {}, NEW a \in Seq(A), NEW b \in Seq(B), Once(a), Once(b)
  PROVE  a \o b \in Seq(A \cup B) /\ Once(a \o b)
<1>. DEFINE v == a \o b
<1>1. /\ Len(a) \in Nat /\ Len(b) \in Nat /\ Len(v) = Len(a) + Len(b)
      /\ \A k \in 1 .. Len(a) : v[k] = a[k] /\ v[k] \in A
      /\ \A k \in 1 .. Len(b) : v[Len(a) + k] = b[k] /\ b[k] \in B
  OBVIOUS
<1>2. v \in Seq(A \cup B)
  OBVIOUS
<1>. HIDE DEF v
<1>3. \A k \in 1 .. Len(v) : k > Len(a) =>
         \E l \in 1 .. Len(b) : k = Len(a) + l /\ v[k] = b[l] /\ v[k] \in B
  <2>. SUFFICES ASSUME NEW k \in 1 .. Len(v), k > Len(a)
                PROVE  \E l \in 1 .. Len(b) : k = Len(a) + l /\ v[k] = b[l] /\ v[k] \in B
    OBVIOUS
  <2>1. k - Len(a) \in 1 .. Len(b) /\ k = Len(a) + (k - Len(a))
    BY <1>1
  <2>. QED
    BY <1>1, <2>1
<1>4. ASSUME NEW i \in 1 .. Len(v), NEW j \in 1 .. Len(v), v[i] = v[j] PROVE i = j
  <2>1. CASE i <= Len(a) /\ j <= Len(a)
    <3>1. i \in 1 .. Len(a) /\ j \in 1 .. Len(a)
      BY <1>1, <2>1
    <3>. QED
      BY <1>1, <1>4, <3>1 DEF Once
  <2>2. CASE i > Len(a) /\ j > Len(a)
    <3>1. PICK k \in 1 .. Len(b) : i = Len(a) + k /\ v[i] = b[k]
      BY <1>3, <2>2
    <3>2. PICK l \in 1 .. Len(b) : j = Len(a) + l /\ v[j] = b[l]
      BY <1>3, <2>2
    <3>. QED
      BY <1>4, <3>1, <3>2 DEF Once
  <2>3. CASE i <= Len(a) /\ j > Len(a)
    <3>1. i \in 1 .. Len(a) /\ v[j] \in B
      BY <1>1, <1>3, <2>3
    <3>. QED
      BY <1>1, <1>4, <3>1
  <2>4. CASE i > Len(a) /\ j <= Len(a)
    <3>1. j \in 1 .. Len(a) /\ v[i] \in B
      BY <1>1, <1>3, <2>4
    <3>. QED
      BY <1>1, <1>4, <3>1
  <2>. QED
    BY <1>1, <2>1, <2>2, <2>3, <2>4
<1>. QED
  BY <1>2, <1>4 DEF Once, v

\* Those of the parts in P that are ready.
Reported(P) == {p \in P : Ready(p)}

LEMMA EventOnce ==
  ASSUME NEW p PROVE Event(p) \in Seq(Reported({p})) /\ Once(Event(p))
<1>1. CASE Ready(p)
  <2>1. Event(p) = <<p>> /\ p \in Reported({p})
    BY <1>1 DEF Event, Reported
  <2>2. <<p>> \in Seq(Reported({p}))
    BY <2>1
  <2>3. Once(<<p>>)
    BY DEF Once
  <2>. QED
    BY <2>1, <2>2, <2>3
<1>2. CASE ~Ready(p)
  <2>1. Event(p) = <<>>
    BY <1>2 DEF Event
  <2>2. <<>> \in Seq(Reported({p}))
    OBVIOUS
  <2>3. Once(<<>>)
    BY DEF Once
  <2>. QED
    BY <2>1, <2>2, <2>3
<1>. QED
  BY <1>1, <1>2

LEMMA BatchOfEvents ==
  ASSUME NEW b \in {Over6Events \o TunEvents, TunEvents \o Over6Events}
  PROVE  b \in Seq(Reported(Parts)) /\ Once(b)
<1>. DEFINE O == {"over6Err", "over6In", "over6Out"}
            T == {"tunIn", "tunOut"}
<1>1. Event("over6Err") \o Event("over6In") \in Seq(Reported({"over6Err", "over6In"}))
      /\ Once(Event("over6Err") \o Event("over6In"))
  <2>1. /\ Reported({"over6Err"}) \cap Reported({"over6In"}) = {}
        /\ Reported({"over6Err"}) \cup Reported({"over6In"}) = Reported({"over6Err", "over6In"})
    BY DEF Reported
  <2>. QED
    BY <2>1, EventOnce, Joined
<1>2. Over6Events \in Seq(Reported(O)) /\ Once(Over6Events)
  <2>1. /\ Reported({"over6Err", "over6In"}) \cap Reported({"over6Out"}) = {}
        /\ Reported({"over6Err", "over6In"}) \cup Reported({"over6Out"}) = Reported(O)
    BY DEF Reported
  <2>2. /\ (Event("over6Err") \o Event("over6In")) \o Event("over6Out") \in Seq(Reported(O))
        /\ Once((Event("over6Err") \o Event("over6In")) \o Event("over6Out"))
    BY <1>1, <2>1, EventOnce, Joined
  <2>. QED
    BY <2>2 DEF Over6Events
<1>3. TunEvents \in Seq(Reported(T)) /\ Once(TunEvents)
  <2>1. /\ Reported({"tunIn"}) \cap Reported({"tunOut"}) = {}
        /\ Reported({"tunIn"}) \cup Reported({"tunOut"}) = Reported(T)
    BY DEF Reported
  <2>. QED
    BY <2>1, EventOnce, Joined DEF TunEvents
<1>4. /\ Reported(O) \cap Reported(T) = {} /\ Reported(T) \cap Reported(O) = {}
      /\ Reported(O) \cup Reported(T) = Reported(Parts)
      /\ Reported(T) \cup Reported(O) = Reported(Parts)
  BY DEF Reported, Parts
<1>5. Over6Events \o TunEvents \in Seq(Reported(Parts)) /\ Once(Over6Events \o TunEvents)
  BY <1>2, <1>3, <1>4, Joined
<1>6. TunEvents \o Over6Events \in Seq(Reported(Parts)) /\ Once(TunEvents \o Over6Events)
  BY <1>2, <1>3, <1>4, Joined
<1>. QED
  BY <1>5, <1>6

---------------------------------------------------------------------------
(* The invariant holds initially, and every action keeps it.               *)

LEMMA InitInv == Init => IInv
<1>. SUFFICES ASSUME Init PROVE IInv
  OBVIOUS
<1>. USE ConstAssumption, LowWaterAssumption DEF Init
<1>1. TypeOK
  BY DEF TypeOK
<1>2. FramesInv
  BY DEF FramesInv, Frames
<1>3. BatchInv
  BY DEF BatchInv, Once, Room
<1>4. QuietInv
  BY DEF QuietInv
<1>5. StreamInv
  <2>1. inbuf \o rcvq = <<>>
    BY ConcatEmptySeq
  <2>. QED
    BY <2>1 DEF StreamInv, Halved
<1>6. AskInv
  BY DEF AskInv
<1>. QED
  BY <1>1, <1>2, <1>3, <1>4, <1>5, <1>6 DEF IInv

LEMMA ClientSendKeeps ==
  ASSUME IInv, NEW m \in Messages, ClientSend(m) PROVE IInv'
<1>. DEFINE e == <<m, IF half = None THEN 1 ELSE 2>>
<1>. USE DEF IInv, ClientSend, program
<1>1. e \in Halves /\ e[1] = m /\ rcvq' = Append(rcvq, e)
  BY DEF Halves
<1>2. TypeOK'
  BY <1>1, ConstAssumption DEF TypeOK
<1>3. FramesInv'
  BY DEF FramesInv
<1>4. BatchInv'
  BY DEF BatchInv, Space
<1>5. QuietInv'
  BY DEF QuietInv
<1>6. StreamInv'
  <2>. DEFINE q == inbuf \o rcvq
  <2>1. /\ q \in Seq(Halves) /\ inbuf' \o rcvq' = Append(q, e)
        /\ sent \in Seq(Messages) /\ handled \in Seq(Messages)
    <3>1. inbuf \in Seq(Halves) /\ rcvq \in Seq(Halves)
      BY DEF TypeOK
    <3>2. inbuf \o Append(rcvq, e) = Append(q, e)
      BY <1>1, <3>1, AppendLast
    <3>3. q \in Seq(Halves) /\ inbuf' = inbuf
      BY <3>1
    <3>. HIDE DEF q
    <3>. QED
      BY <1>1, <3>2, <3>3 DEF TypeOK
  <2>2. Halved(q, sent, handled, half)
    BY DEF StreamInv
  <2>. HIDE DEF q
  <2>3. Halved(Append(q, e), sent', handled, half')
    BY <1>1, <2>1, <2>2, HalfSent
  <2>. QED
    BY <2>1, <2>3 DEF StreamInv
<1>7. AskInv'
  <2>1. CASE half = None
    BY <2>1, ConstAssumption DEF AskInv
  <2>2. CASE half # None
    <3>1. half = m /\ half' = None /\ sent' = Append(sent, m) /\ sent \in Seq(Messages)
      BY <2>2 DEF TypeOK
    <3>2. /\ Len(sent') = Len(sent) + 1 /\ sent'[Len(sent) + 1] = m /\ Len(sent) \in Nat
          /\ \A k \in 1 .. Len(sent) : sent'[k] = sent[k]
          /\ sent = <<>> <=> Len(sent) = 0
      BY <3>1
    <3>3. m = "IP_REQUEST" <=> Len(sent) + 1 = 1
      BY <3>2
    <3>. QED
      BY <3>1, <3>2, <3>3 DEF AskInv
  <2>. QED
    BY <2>1, <2>2
<1>. QED
  BY <1>2, <1>3, <1>4, <1>5, <1>6, <1>7

LEMMA ClientReadKeeps ==
  ASSUME IInv, ClientRead PROVE IInv'
<1>. USE DEF IInv, ClientRead, program
<1>1. /\ wire \in Seq(Unit) /\ wire # <<>> /\ wire[1] \in Unit /\ need \in Nat /\ remain \in Nat
      /\ wire' \in Seq(Unit) /\ Len(wire') = Len(wire) - 1
  BY DEF TypeOK
<1>2. need' \in Nat /\ FramesInv'
  <2>1. PICK r \in Nat : Frames(wire, need, r) /\ (tcp # "rst" => r = remain)
    BY DEF FramesInv
  <2>2. need' \in Nat /\ Frames(wire', need', r)
    BY <1>1, <2>1, UnitRead, UnitsOf
  <2>. QED
    BY <2>1, <2>2 DEF FramesInv
<1>3. TypeOK'
  <2>1. received' \in Seq(Nat)
    BY <1>1 DEF TypeOK, Unit
  <2>2. Len(wire') <= SndCap
    BY <1>1, LowWaterAssumption DEF TypeOK
  <2>. QED
    BY <1>1, <1>2, <2>1, <2>2 DEF TypeOK
<1>4. FramesInv'
  BY <1>2
<1>5. BatchInv'
  BY <1>1, LowWaterAssumption DEF BatchInv, Space, Room
<1>6. QuietInv'
  BY DEF QuietInv
<1>7. StreamInv'
  BY DEF StreamInv
<1>8. AskInv'
  BY DEF AskInv
<1>. QED
  BY <1>3, <1>4, <1>5, <1>6, <1>7, <1>8

\* The steps that concern neither the frames nor the messages.
LEMMA OthersKeep ==
  ASSUME IInv, TunArrive \/ Tick \/ \E how \in {"fin", "rst"} : ClientLeaves(how)
  PROVE  IInv'
<1>. USE DEF IInv, TunArrive, Tick, ClientLeaves, program, environment
<1>1. TypeOK'
  <2>1. CASE TunArrive
    <3>1. arrived' \in Nat /\ tunq' \in Seq(Nat)
      BY <2>1 DEF TypeOK
    <3>. QED
      BY <2>1, <3>1 DEF TypeOK
  <2>2. CASE Tick
    <3>1. age' \in 0 .. HEARTBEAT + 1
      BY <2>2, ConstAssumption DEF TypeOK
    <3>. QED
      BY <2>2, <3>1 DEF TypeOK
  <2>3. CASE \E how \in {"fin", "rst"} : ClientLeaves(how)
    BY <2>3 DEF TypeOK
  <2>. QED
    BY <2>1, <2>2, <2>3
<1>2. FramesInv'
  BY DEF FramesInv
<1>3. BatchInv'
  BY DEF BatchInv, Space
<1>4. QuietInv'
  BY DEF QuietInv
<1>5. StreamInv'
  BY DEF StreamInv
<1>6. AskInv'
  BY DEF AskInv
<1>. QED
  BY <1>1, <1>2, <1>3, <1>4, <1>5, <1>6

LEMMA EpollWaitKeeps ==
  ASSUME IInv, EpollWait PROVE IInv'
<1>. USE DEF IInv, EpollWait, environment
<1>1. batch' \in Seq(Reported(Parts)) /\ Once(batch')
  BY BatchOfEvents
<1>2. TypeOK'
  <2>1. batch' \in Seq(Parts)
    BY <1>1 DEF Reported
  <2>. QED
    BY <2>1 DEF TypeOK, Parts
<1>3. FramesInv'
  BY DEF FramesInv
<1>4. BatchInv'
  <2>1. ASSUME NEW k \in 1 .. Len(batch'), batch'[k] = "over6Out"
        PROVE  Space >= 2 /\ handled # <<>>
    <3>1. Ready("over6Out")
      BY <1>1, <2>1 DEF Reported
    <3>2. Space >= LowWater /\ outbuf # <<>>
      BY <3>1 DEF Ready
    <3>. QED
      BY <3>2, LowWaterAssumption DEF Space, TypeOK, QuietInv
  <2>2. Space \in Int
    BY LowWaterAssumption DEF Space, TypeOK
  <2>3. Room(batch', Space, handled)
    BY <2>1, <2>2 DEF Room
  <2>. QED
    BY <1>1, <2>3 DEF BatchInv, Space
<1>5. QuietInv'
  BY DEF QuietInv
<1>6. StreamInv'
  BY DEF StreamInv
<1>7. AskInv'
  BY DEF AskInv
<1>. QED
  BY <1>2, <1>3, <1>4, <1>5, <1>6, <1>7

\* After a step that goes on to the next event or ends.
LEMMA BatchKept ==
  ASSUME TypeOK, BatchInv, batch # <<>>,
         Done \/ \E how \in {"finish", "failed", "sigpipe"} : End(how)
  PROVE  /\ pc' \in {"wait", "batch", "finish", "failed", "sigpipe"}
         /\ batch' \in Seq(Parts) /\ Once(batch') /\ Room(batch', Space, handled)
<1>1. batch \in Seq(Parts) /\ Space \in Int
  BY LowWaterAssumption DEF TypeOK, Parts, Space
<1>2. CASE Done
  <2>1. /\ Tail(batch) \in Seq(Parts) /\ Once(Tail(batch))
        /\ Room(Tail(batch), Space, handled)
    BY <1>1, BatchShrinks DEF BatchInv
  <2>. QED
    BY <1>2, <2>1 DEF Done, TypeOK
<1>3. CASE \E how \in {"finish", "failed", "sigpipe"} : End(how)
  BY <1>3 DEF End, Once, Room
<1>. QED
  BY <1>2, <1>3

\* Steps that only go on, or end.
LEMMA SkipKeeps ==
  ASSUME IInv, Over6Error \/ HandleReturns PROVE IInv'
<1>. USE DEF IInv, environment
<1>1. /\ batch # <<>>
      /\ Done \/ \E how \in {"finish", "failed", "sigpipe"} : End(how)
      /\ UNCHANGED <<inbuf, outbuf, remain, age, environment, wire, handled>>
  BY DEF Over6Error, HandleReturns, At
<1>2. /\ pc' \in {"wait", "batch", "finish", "failed", "sigpipe"}
      /\ batch' \in Seq(Parts) /\ Once(batch') /\ Room(batch', Space, handled)
  BY <1>1, BatchKept
<1>3. TypeOK'
  BY <1>1, <1>2 DEF TypeOK, Parts
<1>4. FramesInv'
  BY <1>1 DEF FramesInv
<1>5. BatchInv'
  BY <1>1, <1>2 DEF BatchInv, Space
<1>6. QuietInv'
  BY <1>1 DEF QuietInv
<1>7. StreamInv'
  BY <1>1 DEF StreamInv
<1>8. AskInv'
  BY <1>1 DEF AskInv
<1>. QED
  BY <1>3, <1>4, <1>5, <1>6, <1>7, <1>8

\* A write to a connection that was reset: what it does to ipBuffer reaches nobody.
LEMMA WriteToResetKeeps ==
  ASSUME IInv, WriteToReset PROVE IInv'
<1>. USE DEF IInv, environment
<1>1. /\ batch # <<>> /\ tcp = "rst"
      /\ Done \/ \E how \in {"finish", "failed", "sigpipe"} : End(how)
      /\ UNCHANGED <<inbuf, age, environment, wire, handled>>
  BY DEF WriteToReset, At
<1>2. /\ pc' \in {"wait", "batch", "finish", "failed", "sigpipe"}
      /\ batch' \in Seq(Parts) /\ Once(batch') /\ Room(batch', Space, handled)
  BY <1>1, BatchKept
<1>3. /\ outbuf' \in Seq(Nat) /\ remain' \in 0 .. Len(outbuf')
      /\ outbuf = <<>> => outbuf' = <<>>
  <2>1. outbuf \in Seq(Nat) /\ remain \in 0 .. Len(outbuf)
    BY DEF TypeOK
  <2>2. <<0>> \o outbuf \in Seq(Nat) /\ Len(<<0>> \o outbuf) = Len(outbuf) + 1
    BY <2>1
  <2>3. CASE UNCHANGED <<outbuf, remain>>
    BY <2>1, <2>3
  <2>4. CASE outbuf # <<>> /\ remain' = remain + 1 /\ outbuf' = <<0>> \o outbuf
    <3>1. remain + 1 \in 0 .. Len(outbuf) + 1
      BY <2>1
    <3>. QED
      BY <2>2, <2>4, <3>1
  <2>. QED
    BY <2>3, <2>4 DEF WriteToReset
<1>4. TypeOK'
  BY <1>1, <1>2, <1>3 DEF TypeOK, Parts
<1>5. FramesInv'
  BY <1>1 DEF FramesInv
<1>6. BatchInv'
  BY <1>1, <1>2 DEF BatchInv, Space
<1>7. QuietInv'
  BY <1>1, <1>3 DEF QuietInv
<1>8. StreamInv'
  BY <1>1 DEF StreamInv
<1>9. AskInv'
  BY <1>1 DEF AskInv
<1>. QED
  BY <1>4, <1>5, <1>6, <1>7, <1>8, <1>9

LEMMA TunReadKeeps ==
  ASSUME IInv, TunRead PROVE IInv'
<1>. USE DEF IInv, TunRead
<1>. DEFINE n == Fits(tunq, outbuf, OutCap)
<1>1. /\ outbuf \in Seq(Nat) /\ tunq \in Seq(Nat) /\ OutCap \in Nat
      /\ outbuf' = outbuf \o SubSeq(tunq, 1, n) /\ tunq' = Rest(tunq, n)
  BY ConstAssumption DEF TypeOK
<1>2. /\ n \in 0 .. Len(tunq) /\ outbuf' \in Seq(Nat) /\ Len(outbuf') = Len(outbuf) + n
      /\ Len(outbuf) <= OutCap => Len(outbuf) + n <= OutCap
      /\ tunq' \in Seq(Nat) /\ Len(tunq') = Len(tunq) - n
  <2>1. n \in 0 .. Len(tunq)
    BY <1>1, Moved
  <2>2. outbuf' \in Seq(Nat)
    BY <1>1, Moved
  <2>3. Len(outbuf') = Len(outbuf) + n
    BY <1>1, Moved
  <2>4. Len(outbuf) <= OutCap => Len(outbuf) + n <= OutCap
    BY <1>1, Moved
  <2>5. tunq' \in Seq(Nat)
    BY <1>1, Moved
  <2>6. Len(tunq') = Len(tunq) - n
    BY <1>1, Moved
  <2>. QED
    BY <2>1, <2>2, <2>3, <2>4, <2>5, <2>6
<1>. HIDE DEF n
<1>3. /\ pc' \in {"wait", "batch", "finish", "failed", "sigpipe"}
      /\ batch' \in Seq(Parts) /\ Once(batch') /\ Room(batch', Space, handled)
  BY BatchKept DEF At
<1>4. TypeOK'
  <2>1. (tcp # "rst" => Len(outbuf') <= OutCap) /\ remain \in 0 .. Len(outbuf')
    <3>1. tcp # "rst" => Len(outbuf) <= OutCap
      BY DEF TypeOK
    <3>2. tcp # "rst" => Len(outbuf') <= OutCap
      BY <1>2, <3>1
    <3>3. remain \in 0 .. Len(outbuf) /\ Len(outbuf) \in Nat /\ n \in Nat
      BY <1>1, <1>2 DEF TypeOK
    <3>4. remain \in 0 .. Len(outbuf')
      BY <1>2, <3>3
    <3>. QED
      BY <3>2, <3>4
  <2>. QED
    BY <1>2, <1>3, <2>1 DEF TypeOK, Parts
<1>5. FramesInv'
  BY DEF FramesInv
<1>6. BatchInv'
  BY <1>3 DEF BatchInv, Space
<1>7. QuietInv'
  <2>. SUFFICES ASSUME handled = <<>> PROVE tunq' = <<>> /\ outbuf' = <<>>
    BY DEF QuietInv
  <2>1. Len(tunq) = 0 /\ Len(outbuf) = 0
    BY DEF QuietInv
  <2>. QED
    BY <1>2, <2>1
<1>8. StreamInv'
  BY DEF StreamInv
<1>9. AskInv'
  BY DEF AskInv
<1>. QED
  BY <1>4, <1>5, <1>6, <1>7, <1>8, <1>9

LEMMA Over6ReadKeeps ==
  ASSUME IInv, Over6Read PROVE IInv'
<1>. USE DEF IInv, Over6Read
<1>. DEFINE n == Fits(rcvq, inbuf, InCap)
<1>1. /\ inbuf \in Seq(Halves) /\ rcvq \in Seq(Halves) /\ InCap \in Nat /\ Len(inbuf) <= InCap
      /\ inbuf' = inbuf \o SubSeq(rcvq, 1, n) /\ rcvq' = Rest(rcvq, n)
  BY ConstAssumption DEF TypeOK
<1>2. /\ n \in 0 .. Len(rcvq) /\ inbuf' \in Seq(Halves) /\ Len(inbuf') = Len(inbuf) + n
      /\ Len(inbuf) + n <= InCap /\ rcvq' \in Seq(Halves)
      /\ inbuf' \o rcvq' = inbuf \o rcvq
  <2>1. n \in 0 .. Len(rcvq)
    BY <1>1, Moved
  <2>2. inbuf' \in Seq(Halves)
    BY <1>1, Moved
  <2>3. Len(inbuf') = Len(inbuf) + n
    BY <1>1, Moved
  <2>4. Len(inbuf) + n <= InCap
    BY <1>1, Moved
  <2>5. rcvq' \in Seq(Halves)
    BY <1>1, Moved
  <2>6. (inbuf \o SubSeq(rcvq, 1, n)) \o Rest(rcvq, n) = inbuf \o rcvq
    <3>. HIDE DEF n
    <3>. QED
      BY <1>1, <2>1, NothingLost, Zenon
  <2>. QED
    BY <1>1, <2>1, <2>2, <2>3, <2>4, <2>5, <2>6
<1>. HIDE DEF n
<1>3. /\ pc' \in {"wait", "batch", "finish", "failed", "sigpipe"}
      /\ batch' \in Seq(Parts) /\ Once(batch') /\ Room(batch', Space, handled)
  <2>1. batch # <<>> /\ (Done \/ \E how \in {"finish", "failed", "sigpipe"} : End(how))
    BY DEF At
  <2>. QED
    BY <2>1, BatchKept
<1>4. TypeOK'
  BY <1>1, <1>2, <1>3 DEF TypeOK, Parts
<1>5. FramesInv'
  BY DEF FramesInv
<1>6. BatchInv'
  BY <1>3 DEF BatchInv, Space
<1>7. QuietInv'
  BY DEF QuietInv
<1>8. StreamInv'
  BY <1>2 DEF StreamInv
<1>9. AskInv'
  BY DEF AskInv
<1>. QED
  BY <1>4, <1>5, <1>6, <1>7, <1>8, <1>9

---------------------------------------------------------------------------
(* The steps that write to the client.                                     *)

\* write() of one unit that is not payload, when no frame is open.
LEMMA SingleWritten ==
  ASSUME TypeOK, FramesInv, remain = 0, tcp # "rst", NEW u \in Unit, u[1] \notin {"frame", "data"},
         Write(<<u>>)
  PROVE  /\ wire' \in Seq(Unit) /\ Len(wire') <= SndCap
         /\ Len(wire') <= Len(wire) + 1
         /\ Frames(wire', need, 0)
         /\ \E h \in 0 .. 1 : Extended(wire', wire, h, <<>>, 0)
<1>. DEFINE n == Least(Len(<<u>>), SndCap - Len(wire))
<1>1. /\ wire \in Seq(Unit) /\ <<u>> \in Seq(Unit) /\ Len(<<u>>) = 1 /\ <<u>>[1] = u
      /\ need \in Nat
  BY DEF TypeOK
<1>2. /\ n \in 0 .. 1 /\ wire' \in Seq(Unit) /\ Len(wire') = Len(wire) + n /\ Len(wire') <= SndCap
      /\ \A j \in 1 .. Len(wire) : wire'[j] = wire[j]
      /\ \A j \in 1 .. n : wire'[Len(wire) + j] = <<u>>[j]
  BY <1>1, WriteDoes
<1>. HIDE DEF n
<1>3. Frames(wire, need, 0)
  BY DEF FramesInv
<1>6. Extended(wire', wire, n, <<>>, 0)
  BY <1>1, <1>2 DEF Extended
<1>4. CASE n = 0
  <2>1. Len(wire') = Len(wire)
    BY <1>1, <1>2, <1>4
  <2>2. wire' = wire
    BY ONLY <1>1, <1>2, <2>1
  <2>3. Frames(wire', need, 0)
    BY <1>3, <2>2
  <2>. QED
    BY <1>1, <1>2, <1>6, <2>1, <2>3
<1>5. CASE n = 1
  <2>1. wire'[Len(wire) + 1] = u /\ Len(wire') = Len(wire) + 1
    BY <1>1, <1>2, <1>5
  <2>2. Frames(wire', need, 0)
    BY <1>1, <1>2, <1>3, <2>1, OtherWritten, UnitsOf
  <2>. QED
    BY <1>1, <1>2, <1>6, <2>1, <2>2
<1>. QED
  BY <1>2, <1>4, <1>5

LEMMA HeartbeatKeeps ==
  ASSUME IInv, Heartbeat PROVE IInv'
<1>. USE DEF IInv, Heartbeat, environment
<1>1. wire' \in Seq(Unit) /\ Len(wire') <= SndCap /\ FramesInv'
  <2>1. CASE age > HEARTBEAT /\ remain = 0 /\ tcp # "rst"
    <3>1. <<"heart", 0>> \in Unit /\ <<"heart", 0>>[1] = "heart"
      BY DEF Unit
    <3>2. wire' \in Seq(Unit) /\ Len(wire') <= SndCap /\ Frames(wire', need, 0)
      BY <2>1, <3>1, SingleWritten
    <3>. QED
      BY <2>1, <3>2 DEF FramesInv
  <2>2. CASE ~(age > HEARTBEAT /\ remain = 0 /\ tcp # "rst")
    BY <2>2 DEF TypeOK, FramesInv
  <2>. QED
    BY <2>1, <2>2
<1>2. TypeOK'
  <2>1. age' \in 0 .. HEARTBEAT + 1
    BY ConstAssumption DEF TypeOK
  <2>. QED
    BY <1>1, <2>1 DEF TypeOK
<1>3. FramesInv'
  BY <1>1
<1>4. BatchInv'
  BY DEF BatchInv, Once, Room
<1>5. QuietInv'
  BY DEF QuietInv
<1>6. StreamInv'
  BY DEF StreamInv
<1>7. AskInv'
  BY DEF AskInv
<1>. QED
  BY <1>2, <1>3, <1>4, <1>5, <1>6, <1>7

\* The message over6Handle takes is the oldest that was not handled.
LEMMA HandlesOldest ==
  ASSUME IInv, HandleMessage
  PROVE  /\ Len(handled) < Len(sent) /\ inbuf[1][1] = sent[Len(handled) + 1]
         /\ Halved(inbuf' \o rcvq, sent, handled', half)
<1>1. /\ inbuf \in Seq(Halves) /\ rcvq \in Seq(Halves) /\ Len(inbuf) >= 2
      /\ sent \in Seq(Messages) /\ handled \in Seq(Messages) /\ half \in Messages \cup {None}
      /\ Halved(inbuf \o rcvq, sent, handled, half)
  BY DEF IInv, TypeOK, StreamInv, HandleMessage, Complete
<1>. QED
  BY <1>1, MessageTaken DEF HandleMessage

\* An address is asked for before anything else, so no frame is open then.
LEMMA AskedFirst ==
  ASSUME IInv, HandleMessage, inbuf[1][1] = "IP_REQUEST"
  PROVE  handled = <<>> /\ remain = 0
<1>. USE DEF IInv
<1>1. handled \in Seq(Messages) /\ sent \in Seq(Messages)
  BY DEF TypeOK
<1>2. sent[Len(handled) + 1] = "IP_REQUEST" /\ Len(handled) + 1 \in 1 .. Len(sent)
  BY <1>1, HandlesOldest
<1>3. handled = <<>>
  BY <1>1, <1>2 DEF AskInv
<1>4. outbuf = <<>>
  BY <1>3 DEF QuietInv
<1>. QED
  BY <1>3, <1>4 DEF TypeOK

LEMMA HandleMessageKeeps ==
  ASSUME IInv, HandleMessage PROVE IInv'
<1>. USE DEF IInv, environment
<1>1. /\ handled \in Seq(Messages) /\ inbuf[1][1] \in Messages
      /\ handled' = Append(handled, inbuf[1][1]) /\ handled' # <<>>
  <2>1. /\ handled \in Seq(Messages) /\ inbuf \in Seq(Halves) /\ Len(inbuf) >= 2
        /\ handled' = Append(handled, inbuf[1][1])
    BY DEF HandleMessage, Complete, TypeOK
  <2>2. inbuf[1] \in Halves
    BY <2>1
  <2>3. inbuf[1][1] \in Messages
    BY <2>2 DEF Halves
  <2>. QED
    BY <2>1, <2>3
<1>2. ASSUME inbuf[1][1] = "IP_REQUEST" PROVE handled = <<>> /\ remain = 0
  BY <1>2, AskedFirst
<1>3. /\ wire' \in Seq(Unit) /\ Len(wire') <= SndCap /\ FramesInv'
      /\ handled # <<>> => wire' = wire
  <2>1. CASE inbuf[1][1] = "IP_REQUEST" /\ tcp # "rst"
    <3>1. <<"reply", 0>> \in Unit /\ <<"reply", 0>>[1] = "reply"
      BY DEF Unit
    <3>2. Write(<< <<"reply", 0>> >>)
      BY <2>1 DEF HandleMessage
    <3>3. wire' \in Seq(Unit) /\ Len(wire') <= SndCap /\ Frames(wire', need, 0)
      BY <1>2, <2>1, <3>1, <3>2, SingleWritten
    <3>4. need' = need /\ tcp' = tcp /\ remain' = 0
      BY <1>2, <2>1 DEF HandleMessage
    <3>. QED
      BY <1>2, <2>1, <3>3, <3>4 DEF FramesInv
  <2>2. CASE ~(inbuf[1][1] = "IP_REQUEST" /\ tcp # "rst")
    <3>1. wire' = wire
      BY <2>2 DEF HandleMessage
    <3>. QED
      BY <3>1 DEF TypeOK, FramesInv, HandleMessage
  <2>. QED
    BY <2>1, <2>2
<1>4. inbuf' \in Seq(Halves) /\ Len(inbuf') = Len(inbuf) - 2
  <2>1. inbuf \in Seq(Halves) /\ Len(inbuf) >= 2 /\ inbuf' = Rest(inbuf, 2)
    BY DEF HandleMessage, Complete, TypeOK
  <2>2. 2 \in 0 .. Len(inbuf)
    BY <2>1
  <2>. QED
    BY <2>1, <2>2, RestProperties
<1>5. /\ pc' \in {"wait", "batch", "finish", "failed", "sigpipe"}
      /\ batch' \in Seq(Parts) /\ Once(batch') /\ Room(batch', Space', handled')
  <2>1. CASE End("sigpipe")
    BY <2>1 DEF End, Once, Room
  <2>2. CASE pc' = pc /\ batch' = batch
    <3>2. ASSUME NEW k \in 1 .. Len(batch), batch[k] = "over6Out" PROVE SndCap - Len(wire') >= 2
      BY <1>3, <3>2 DEF BatchInv, Room, Space
    <3>3. Room(batch', Space', handled')
      BY <1>1, <2>2, <3>2 DEF Room, Space
    <3>. QED
      BY <2>2, <3>3 DEF TypeOK, Parts, BatchInv
  <2>. QED
    BY <2>1, <2>2 DEF HandleMessage
<1>6. TypeOK'
  <2>1. handled' \in Seq(Messages)
    BY <1>1
  <2>2. Len(inbuf') <= InCap
    BY <1>4, ConstAssumption DEF TypeOK
  <2>3. UNCHANGED <<outbuf, remain, age, environment>>
    BY DEF HandleMessage
  <2>. QED
    BY <1>3, <1>4, <1>5, <2>1, <2>2, <2>3 DEF TypeOK, Parts
<1>7. FramesInv'
  BY <1>3
<1>8. BatchInv'
  BY <1>5 DEF BatchInv
<1>9. QuietInv'
  BY <1>1 DEF QuietInv
<1>10. StreamInv'
  BY HandlesOldest DEF StreamInv, HandleMessage
<1>11. AskInv'
  BY DEF AskInv, HandleMessage
<1>. QED
  BY <1>6, <1>7, <1>8, <1>9, <1>10, <1>11

LEMMA BeginFrameWrites ==
  ASSUME IInv, BeginFrame
  PROVE  /\ wire' \in Seq(Unit) /\ Len(wire') <= SndCap
         /\ outbuf' \in Seq(Nat) /\ Len(outbuf') <= OutCap
         /\ remain' \in 0 .. Len(outbuf')
         /\ Frames(wire', need, remain')
         /\ \E n \in 0 .. Len(outbuf) :
               Extended(wire', wire, 1, outbuf, n) /\ outbuf' = Rest(outbuf, n)
<1>. DEFINE L == Len(outbuf)
            hdr == <<"frame", L>>
            u == <<hdr>> \o Data(outbuf)
            n == Least(L, Space - 1)
            c == Least(Len(u), SndCap - Len(wire))
            w == Append(wire, hdr)
<1>1. /\ outbuf \in Seq(Nat) /\ L \in Nat /\ L <= OutCap /\ OutCap \in Nat /\ wire \in Seq(Unit)
      /\ Len(wire) <= SndCap /\ SndCap \in Nat /\ need \in Nat /\ Len(wire) \in Nat
  BY ConstAssumption, LowWaterAssumption DEF IInv, TypeOK, BeginFrame
<1>2. SndCap - Len(wire) >= 2
  <2>1. batch \in Seq(Parts) /\ batch # <<>> /\ batch[1] = "over6Out" /\ 1 \in 1 .. Len(batch)
    BY DEF IInv, BeginFrame, At, TypeOK, Parts
  <2>. QED
    BY <2>1 DEF IInv, BatchInv, Room, Space
<1>3. hdr \in Unit /\ hdr[1] = "frame"
  BY <1>1 DEF Unit
<1>4. /\ u \in Seq(Unit) /\ Len(u) = L + 1 /\ u[1] = hdr
      /\ \A j \in 1 .. L : u[j + 1] = <<"data", outbuf[j]>>
  <2>. DEFINE d == Data(outbuf)
  <2>1. d \in Seq(Unit) /\ Len(d) = L /\ \A j \in 1 .. L : d[j] = <<"data", outbuf[j]>>
    BY <1>1, DataProperties
  <2>. HIDE DEF d, hdr
  <2>2. /\ <<hdr>> \o d \in Seq(Unit) /\ Len(<<hdr>> \o d) = L + 1
        /\ (<<hdr>> \o d)[1] = hdr
        /\ \A j \in 1 .. L : (<<hdr>> \o d)[j + 1] = d[j]
    BY <1>1, <1>3, <2>1
  <2>. QED
    BY <2>1, <2>2 DEF d
<1>5. n \in 0 .. L /\ c = n + 1
  BY <1>1, <1>2, <1>4 DEF Least, Space
<1>6. /\ Write(u) /\ remain = 0
      /\ remain' = L - n /\ outbuf' = Rest(outbuf, n)
  BY DEF BeginFrame
<1>. HIDE DEF u, n, c
<1>7. /\ wire' \in Seq(Unit) /\ Len(wire') = Len(wire) + c /\ Len(wire') <= SndCap
      /\ \A j \in 1 .. Len(wire) : wire'[j] = wire[j]
      /\ \A j \in 1 .. c : wire'[Len(wire) + j] = u[j]
  BY <1>4, <1>6, WriteDoes DEF IInv, c
<1>. HIDE DEF L
<1>8. /\ w \in Seq(Unit) /\ Len(w) = Len(wire) + 1 /\ w[Len(wire) + 1] = hdr
      /\ \A j \in 1 .. Len(wire) : w[j] = wire[j]
  BY <1>1, <1>3
<1>9. Frames(w, need, L)
  <2>1. Frames(wire, need, 0)
    BY <1>6 DEF IInv, FramesInv, BeginFrame
  <2>. HIDE DEF w
  <2>. QED
    BY <1>1, <1>8, <2>1, OtherWritten, UnitsOf
<1>. HIDE DEF w, hdr
<1>10. \A j \in 1 .. Len(w) : wire'[j] = w[j]
  <2>. SUFFICES ASSUME NEW j \in 1 .. Len(w) PROVE wire'[j] = w[j]
    OBVIOUS
  <2>1. CASE j \in 1 .. Len(wire)
    BY <1>7, <1>8, <2>1
  <2>2. CASE j \notin 1 .. Len(wire)
    <3>1. j = Len(wire) + 1 /\ 1 \in 1 .. c
      BY <1>1, <1>5, <1>8, <2>2
    <3>. QED
      BY <1>4, <1>7, <1>8, <3>1
  <2>. QED
    BY <2>1, <2>2
<1>11. \A j \in 1 .. n : wire'[Len(w) + j] = <<"data", outbuf[j]>>
  <2>. SUFFICES ASSUME NEW j \in 1 .. n PROVE wire'[Len(w) + j] = <<"data", outbuf[j]>>
    OBVIOUS
  <2>1. j + 1 \in 1 .. c /\ j \in 1 .. L /\ Len(w) + j = Len(wire) + (j + 1)
    BY <1>1, <1>5, <1>8
  <2>. QED
    BY <1>4, <1>7, <2>1
<1>12. Frames(wire', need, L - n)
  <2>1. Len(wire') = Len(w) + n
    BY <1>1, <1>5, <1>7, <1>8
  <2>2. \A j \in 1 .. n : wire'[Len(w) + j][1] = "data"
    BY <1>11
  <2>. QED
    BY <1>1, <1>5, <1>7, <1>8, <1>9, <1>10, <2>1, <2>2, DataWritten, UnitsOf
<1>13. outbuf' \in Seq(Nat) /\ Len(outbuf') = L - n
  BY <1>1, <1>5, <1>6, RestProperties DEF L
<1>14. Len(outbuf') <= OutCap /\ remain' \in 0 .. Len(outbuf')
  BY <1>1, <1>5, <1>6, <1>13
<1>15. Extended(wire', wire, 1, outbuf, n)
  <2>1. Len(wire') = Len(wire) + 1 + n
    BY <1>1, <1>5, <1>7
  <2>2. wire'[Len(wire) + 1][1] # "data"
    <3>1. Len(wire) + 1 \in 1 .. Len(w)
      BY <1>1, <1>8
    <3>. QED
      BY <1>3, <1>8, <1>10, <3>1
  <2>. QED
    BY <1>1, <1>7, <1>8, <1>11, <2>1, <2>2 DEF Extended
<1>16. n \in 0 .. Len(outbuf) /\ outbuf' = Rest(outbuf, n)
  BY <1>5, <1>6 DEF L
<1>. QED
  BY <1>6, <1>7, <1>12, <1>13, <1>14, <1>15, <1>16

LEMMA ContinueFrameWrites ==
  ASSUME IInv, ContinueFrame
  PROVE  /\ wire' \in Seq(Unit) /\ Len(wire') <= SndCap
         /\ outbuf' \in Seq(Nat) /\ Len(outbuf') <= OutCap
         /\ remain' \in 0 .. Len(outbuf')
         /\ Frames(wire', need, remain')
         /\ \E n \in 0 .. Len(outbuf) :
               Extended(wire', wire, 0, outbuf, n) /\ outbuf' = Rest(outbuf, n)
<1>. DEFINE u == Data(SubSeq(outbuf, 1, remain))
            n == Least(remain, SndCap - Len(wire))
<1>1. /\ outbuf \in Seq(Nat) /\ Len(outbuf) <= OutCap /\ OutCap \in Nat /\ wire \in Seq(Unit)
      /\ Len(wire) <= SndCap /\ SndCap \in Nat /\ need \in Nat /\ Len(wire) \in Nat
      /\ remain \in 0 .. Len(outbuf) /\ remain \in Nat /\ Frames(wire, need, remain)
  BY ConstAssumption, LowWaterAssumption DEF IInv, TypeOK, FramesInv, ContinueFrame
<1>2. /\ u \in Seq(Unit) /\ Len(u) = remain
      /\ \A j \in 1 .. remain : u[j] = <<"data", outbuf[j]>>
  <2>1. /\ SubSeq(outbuf, 1, remain) \in Seq(Nat) /\ Len(SubSeq(outbuf, 1, remain)) = remain
        /\ \A j \in 1 .. remain : SubSeq(outbuf, 1, remain)[j] = outbuf[j]
    BY <1>1, SubSeqProperties
  <2>. DEFINE d == SubSeq(outbuf, 1, remain)
  <2>2. d \in Seq(Nat) /\ Len(d) = remain /\ \A j \in 1 .. remain : d[j] = outbuf[j]
    BY <2>1
  <2>. HIDE DEF d
  <2>3. /\ Data(d) \in Seq(Unit) /\ Len(Data(d)) = remain
        /\ \A j \in 1 .. remain : Data(d)[j] = <<"data", d[j]>>
    BY <2>2, DataProperties
  <2>. QED
    BY <2>2, <2>3 DEF d
<1>3. /\ Write(u)
      /\ remain' = remain - n /\ outbuf' = Rest(outbuf, n)
  BY DEF ContinueFrame, Space
<1>. HIDE DEF u
<1>4. n = Least(Len(u), SndCap - Len(wire))
  BY <1>2
<1>. HIDE DEF n
<1>5. /\ n \in 0 .. remain
      /\ wire' \in Seq(Unit) /\ Len(wire') = Len(wire) + n /\ Len(wire') <= SndCap
      /\ \A j \in 1 .. Len(wire) : wire'[j] = wire[j]
      /\ \A j \in 1 .. n : wire'[Len(wire) + j] = u[j]
  BY <1>2, <1>3, <1>4, WriteDoes DEF IInv
<1>6. Frames(wire', need, remain - n)
  <2>1. ASSUME NEW j \in 1 .. n PROVE wire'[Len(wire) + j][1] = "data"
    <3>1. j \in 1 .. remain
      BY <1>1, <1>5
    <3>. QED
      BY <1>2, <1>5, <3>1
  <2>. QED
    BY <1>1, <1>5, <2>1, DataWritten, UnitsOf
<1>7. outbuf' \in Seq(Nat) /\ Len(outbuf') = Len(outbuf) - n
  <2>1. n \in 0 .. Len(outbuf)
    BY <1>1, <1>5
  <2>. QED
    BY <1>1, <1>3, <2>1, RestProperties
<1>8. Len(outbuf') <= OutCap /\ remain' \in 0 .. Len(outbuf')
  BY <1>1, <1>3, <1>5, <1>7
<1>9. n \in 0 .. Len(outbuf) /\ Extended(wire', wire, 0, outbuf, n)
  <2>1. n \in Nat /\ 1 .. n \subseteq 1 .. remain /\ n \in 0 .. Len(outbuf)
    BY <1>1, <1>5
  <2>2. Len(wire') = Len(wire) + 0 + n /\ Len(wire) + 0 = Len(wire)
    BY <1>1, <1>5, <2>1
  <2>3. \A j \in 1 .. n : wire'[Len(wire) + 0 + j] = <<"data", outbuf[j]>>
    BY <1>2, <1>5, <2>1, <2>2
  <2>4. \A j \in 1 .. 0 : wire'[Len(wire) + j][1] # "data"
    OBVIOUS
  <2>5. Extended(wire', wire, 0, outbuf, n)
    BY <1>5, <2>2, <2>3, <2>4, Zenon DEF Extended
  <2>. QED
    BY <2>1, <2>5
<1>. QED
  BY <1>3, <1>5, <1>6, <1>7, <1>8, <1>9

LEMMA RawToOver6Keeps ==
  ASSUME IInv, BeginFrame \/ ContinueFrame PROVE IInv'
<1>1. /\ wire' \in Seq(Unit) /\ Len(wire') <= SndCap
      /\ outbuf' \in Seq(Nat) /\ Len(outbuf') <= OutCap
      /\ remain' \in 0 .. Len(outbuf')
      /\ Frames(wire', need, remain')
  BY BeginFrameWrites, ContinueFrameWrites
<1>2. /\ batch # <<>> /\ batch[1] = "over6Out" /\ Done /\ outbuf # <<>> /\ tcp # "rst"
      /\ UNCHANGED <<inbuf, age, environment, handled>>
  BY DEF BeginFrame, ContinueFrame, At
<1>. USE DEF IInv, environment
<1>3. /\ pc' = pc /\ batch' \in Seq(Parts) /\ Once(batch')
      /\ \A k \in 1 .. Len(batch') : batch'[k] # "over6Out"
  <2>1. batch \in Seq(Parts) /\ Space \in Int /\ Once(batch) /\ Room(batch, Space, handled)
    BY LowWaterAssumption DEF TypeOK, Parts, Space, BatchInv
  <2>. QED
    BY <1>2, <2>1, BatchShrinks DEF Done
<1>4. TypeOK'
  BY <1>1, <1>2, <1>3 DEF TypeOK, Parts
<1>5. FramesInv'
  <2>1. remain' \in Nat /\ need' = need
    BY <1>1, <1>2
  <2>. QED
    BY <1>1, <2>1 DEF FramesInv
<1>6. BatchInv'
  BY <1>3 DEF BatchInv, Room
<1>7. QuietInv'
  BY <1>2 DEF QuietInv
<1>8. StreamInv'
  BY <1>2 DEF StreamInv
<1>9. AskInv'
  BY <1>2 DEF AskInv
<1>. QED
  BY <1>4, <1>5, <1>6, <1>7, <1>8, <1>9

---------------------------------------------------------------------------
(* The packets keep their order, on every step.                            *)

LEMMA OrderInit == Init => OrderInv
  BY DEF Init, OrderInv, PacketInv, Written, Carries, Follow

\* The packets arrive behind those that are waiting.
LEMMA ArrivalKeepsOrder ==
  ASSUME TypeOK, PacketInv, TunArrive PROVE PacketInv'
<1>1. /\ tunq \in Seq(Nat) /\ arrived \in Nat /\ outbuf \in Seq(Nat)
      /\ tunq' = Append(tunq, arrived + 1) /\ arrived' = arrived + 1
      /\ outbuf' = outbuf /\ wire' = wire /\ received' = received
  BY DEF TypeOK, TunArrive, program
<1>2. /\ Len(tunq') = Len(tunq) + 1 /\ tunq'[Len(tunq) + 1] = arrived + 1
      /\ \A i \in 1 .. Len(tunq) : tunq'[i] = tunq[i]
      /\ Len(tunq) \in Nat /\ Len(outbuf) \in Nat
  BY <1>1
<1>3. Written' = Written
  BY <1>1, <1>2 DEF Written
<1>4. Follow(tunq', Written + Len(outbuf))
  <2>. SUFFICES ASSUME NEW i \in 1 .. Len(tunq') PROVE tunq'[i] = (Written + Len(outbuf)) + i
    BY DEF Follow
  <2>1. CASE i \in 1 .. Len(tunq)
    BY <1>2, <2>1 DEF PacketInv, Follow
  <2>2. CASE i \notin 1 .. Len(tunq)
    <3>1. i = Len(tunq) + 1
      BY <1>2, <2>2
    <3>2. (Written + Len(outbuf)) + i = arrived + 1
      BY <1>1, <1>2, <3>1 DEF Written
    <3>. QED
      BY <1>2, <3>1, <3>2
  <2>. QED
    BY <2>1, <2>2
<1>. QED
  BY <1>1, <1>3, <1>4 DEF PacketInv

\* readToBuf moves the oldest packets of the tun behind those in ipBuffer.
LEMMA TunReadKeepsOrder ==
  ASSUME TypeOK, PacketInv, TunRead PROVE PacketInv'
<1>. DEFINE n == Fits(tunq, outbuf, OutCap)
<1>1. /\ outbuf \in Seq(Nat) /\ tunq \in Seq(Nat) /\ OutCap \in Nat
      /\ outbuf' = outbuf \o SubSeq(tunq, 1, n) /\ tunq' = Rest(tunq, n) /\ arrived \in Nat
      /\ arrived' = arrived /\ wire' = wire /\ received' = received
  BY ConstAssumption DEF TypeOK, TunRead
<1>2. n \in 0 .. Len(tunq)
  BY <1>1, Moved
<1>. HIDE DEF n
<1>3. /\ Len(tunq') = Len(tunq) - n
      /\ \A i \in 1 .. Len(tunq) - n : tunq'[i] = tunq[n + i]
  BY <1>1, <1>2, RestProperties
<1>4. /\ Len(outbuf') = Len(outbuf) + n
      /\ \A i \in 1 .. Len(outbuf) : outbuf'[i] = outbuf[i]
      /\ \A i \in 1 .. n : outbuf'[Len(outbuf) + i] = tunq[i]
  <2>. DEFINE x == SubSeq(tunq, 1, n)
  <2>1. x \in Seq(Nat) /\ Len(x) = n /\ \A i \in 1 .. n : x[i] = tunq[i]
    BY <1>1, <1>2, SubSeqProperties
  <2>2. outbuf' = outbuf \o x
    BY <1>1
  <2>. HIDE DEF x
  <2>. QED
    BY <1>1, <2>1, <2>2
<1>5. Len(outbuf) \in Nat /\ Len(tunq) \in Nat /\ Written \in Int /\ n \in Nat
  BY <1>1, <1>2 DEF Written
<1>6. Written' = Written
  <2>1. arrived - (Len(tunq) - n) - (Len(outbuf) + n) = arrived - Len(tunq) - Len(outbuf)
    BY <1>1, <1>5
  <2>. QED
    BY <1>1, <1>3, <1>4, <2>1 DEF Written
<1>7. Follow(outbuf', Written)
  <2>. SUFFICES ASSUME NEW i \in 1 .. Len(outbuf') PROVE outbuf'[i] = Written + i
    BY DEF Follow
  <2>1. CASE i \in 1 .. Len(outbuf)
    BY <1>4, <2>1 DEF PacketInv, Follow
  <2>2. CASE i \notin 1 .. Len(outbuf)
    <3>1. PICK k \in 1 .. n : i = Len(outbuf) + k
      <4>1. i - Len(outbuf) \in 1 .. n /\ i = Len(outbuf) + (i - Len(outbuf))
        BY <1>4, <1>5, <2>2
      <4>. QED
        BY <4>1
    <3>2. k \in 1 .. Len(tunq) /\ outbuf'[i] = tunq[k]
      BY <1>2, <1>4, <1>5, <3>1
    <3>3. tunq[k] = Written + Len(outbuf) + k
      BY <3>2 DEF PacketInv, Follow
    <3>. QED
      BY <1>5, <3>1, <3>2, <3>3
  <2>. QED
    BY <2>1, <2>2
<1>8. Follow(tunq', Written + Len(outbuf'))
  <2>. SUFFICES ASSUME NEW i \in 1 .. Len(tunq') PROVE tunq'[i] = Written + Len(outbuf') + i
    BY DEF Follow
  <2>1. n + i \in 1 .. Len(tunq) /\ tunq'[i] = tunq[n + i]
    BY <1>2, <1>3, <1>5
  <2>2. tunq[n + i] = Written + Len(outbuf) + (n + i)
    BY <2>1 DEF PacketInv, Follow
  <2>. QED
    BY <1>4, <1>5, <2>1, <2>2
<1>. QED
  BY <1>1, <1>6, <1>7, <1>8 DEF PacketInv

\* rawToOver6 writes the oldest packets of ipBuffer, and exactly those leave it.
LEMMA RawToOver6KeepsOrder ==
  ASSUME IInv, PacketInv, BeginFrame \/ ContinueFrame PROVE PacketInv'
<1>1. PICK h \in 0 .. 1 : \E n \in 0 .. Len(outbuf) :
        Extended(wire', wire, h, outbuf, n) /\ outbuf' = Rest(outbuf, n)
  <2>1. CASE BeginFrame
    BY <2>1, BeginFrameWrites
  <2>2. CASE ContinueFrame
    BY <2>2, ContinueFrameWrites
  <2>. QED
    BY <2>1, <2>2
<1>2. PICK n \in 0 .. Len(outbuf) :
        Extended(wire', wire, h, outbuf, n) /\ outbuf' = Rest(outbuf, n)
  BY <1>1
<1>3. /\ outbuf \in Seq(Nat) /\ tunq \in Seq(Nat) /\ wire \in Seq(Unit) /\ received \in Seq(Nat)
      /\ arrived \in Nat /\ arrived' = arrived /\ tunq' = tunq /\ received' = received
  BY DEF IInv, TypeOK, BeginFrame, ContinueFrame, environment
<1>4. wire' \in Seq(Unit)
  BY BeginFrameWrites, ContinueFrameWrites
<1>5. /\ Len(outbuf') = Len(outbuf) - n
      /\ \A i \in 1 .. Len(outbuf) - n : outbuf'[i] = outbuf[n + i]
  BY <1>2, <1>3, RestProperties
<1>6. /\ Len(outbuf) \in Nat /\ Len(tunq) \in Nat /\ Written \in Int /\ n \in Nat
      /\ Len(received) \in Nat /\ h \in Nat
  BY <1>3 DEF Written
<1>7. Written' = Written + n /\ Written' + Len(outbuf') = Written + Len(outbuf)
  BY <1>3, <1>5, <1>6 DEF Written
<1>8. Carries(wire', Len(received), Written + n)
  <2>1. \A i \in 1 .. n : outbuf[i] = Written + i
    <3>1. 1 .. n \subseteq 1 .. Len(outbuf)
      BY <1>6
    <3>. QED
      BY <3>1 DEF PacketInv, Follow
  <2>2. Carries(wire, Len(received), Written)
    BY DEF PacketInv
  <2>. HIDE DEF Written
  <2>. QED
    BY <1>2, <1>3, <1>4, <1>6, <2>1, <2>2, CarriesMore
<1>9. Follow(outbuf', Written + n)
  <2>. SUFFICES ASSUME NEW i \in 1 .. Len(outbuf') PROVE outbuf'[i] = (Written + n) + i
    BY DEF Follow
  <2>1. n + i \in 1 .. Len(outbuf) /\ outbuf'[i] = outbuf[n + i]
    BY <1>5, <1>6
  <2>2. outbuf[n + i] = Written + (n + i)
    BY <2>1 DEF PacketInv, Follow
  <2>. QED
    BY <1>6, <2>1, <2>2
<1>. QED
  BY <1>3, <1>7, <1>8, <1>9 DEF PacketInv

\* A reply or a heartbeat is no payload.
LEMMA OthersWriteNoPacket ==
  ASSUME IInv, PacketInv, tcp # "rst", HandleMessage \/ Heartbeat PROVE PacketInv'
<1>1. UNCHANGED <<outbuf, tunq, arrived, received>>
  BY DEF HandleMessage, Heartbeat, environment
<1>2. /\ wire \in Seq(Unit) /\ received \in Seq(Nat) /\ Len(received) \in Nat /\ Written \in Int
      /\ Carries(wire, Len(received), Written)
  BY DEF IInv, TypeOK, Written, PacketInv
<1>3. ASSUME remain = 0, NEW u \in Unit, u[1] \notin {"frame", "data"}, Write(<<u>>)
      PROVE  Carries(wire', Len(received), Written)
  <2>1. PICK h \in 0 .. 1 : Extended(wire', wire, h, <<>>, 0)
    BY <1>3, SingleWritten DEF IInv
  <2>2. wire' \in Seq(Unit)
    BY <1>3, SingleWritten DEF IInv
  <2>3. Carries(wire', Len(received), Written + 0)
    <3>1. h \in Nat /\ <<>> \in Seq(Nat) /\ 0 \in 0 .. Len(<<>>)
      OBVIOUS
    <3>2. \A i \in 1 .. 0 : (<<>>)[i] = Written + i
      OBVIOUS
    <3>. HIDE DEF Written
    <3>. QED
      BY <1>2, <2>1, <2>2, <3>1, <3>2, CarriesMore
  <2>. QED
    BY <1>2, <2>3
<1>4. Carries(wire', Len(received), Written)
  <2>1. CASE HandleMessage /\ inbuf[1][1] = "IP_REQUEST" /\ tcp # "rst"
    <3>1. <<"reply", 0>> \in Unit /\ <<"reply", 0>>[1] = "reply"
      BY DEF Unit
    <3>2. remain = 0 /\ Write(<< <<"reply", 0>> >>)
      BY <2>1, AskedFirst DEF HandleMessage
    <3>. QED
      BY <1>3, <3>1, <3>2
  <2>2. CASE Heartbeat /\ age > HEARTBEAT /\ remain = 0 /\ tcp # "rst"
    <3>1. <<"heart", 0>> \in Unit /\ <<"heart", 0>>[1] = "heart"
      BY DEF Unit
    <3>2. Write(<< <<"heart", 0>> >>)
      BY <2>2 DEF Heartbeat
    <3>. QED
      BY <1>3, <2>2, <3>1, <3>2
  <2>3. CASE wire' = wire
    BY <1>2, <2>3
  <2>. QED
    BY <2>1, <2>2, <2>3 DEF HandleMessage, Heartbeat
<1>. QED
  BY <1>1, <1>4 DEF PacketInv, Written

\* What the client reads next is the packet it expects.
LEMMA ClientReadsNext ==
  ASSUME IInv, PacketInv, ClientRead
  PROVE  /\ PacketInv'
         /\ \/ received' = received
            \/ Len(received) < arrived /\ received' = Append(received, Len(received) + 1)
<1>1. /\ wire \in Seq(Unit) /\ wire # <<>> /\ wire' = Tail(wire)
      /\ received \in Seq(Nat) /\ Len(received) \in Nat /\ arrived \in Nat
      /\ Written \in Int /\ Carries(wire, Len(received), Written)
      /\ Written <= arrived
      /\ UNCHANGED <<outbuf, tunq, arrived>>
  <2>1. /\ wire \in Seq(Unit) /\ received \in Seq(Nat) /\ arrived \in Nat
        /\ outbuf \in Seq(Nat) /\ tunq \in Seq(Nat)
    BY DEF IInv, TypeOK
  <2>2. Written \in Int /\ Written <= arrived /\ Len(received) \in Nat
    BY <2>1 DEF Written
  <2>. QED
    BY <2>1, <2>2 DEF ClientRead, program, PacketInv
<1>2. Written' = Written
  BY <1>1 DEF Written
<1>. HIDE DEF Written
<1>3. CASE wire[1][1] = "data"
  <2>1. /\ wire[1][2] = Len(received) + 1 /\ Len(received) < Written
        /\ Carries(Tail(wire), Len(received) + 1, Written)
    BY <1>1, <1>3, CarriesLess
  <2>2. received' = Append(received, Len(received) + 1)
    BY <1>3, <2>1 DEF ClientRead
  <2>3. /\ Len(received') = Len(received) + 1 /\ received'[Len(received) + 1] = Len(received) + 1
        /\ \A i \in 1 .. Len(received) : received'[i] = received[i]
    BY <1>1, <2>2
  <2>4. Follow(received', 0)
    BY <1>1, <2>3 DEF PacketInv, Follow
  <2>5. PacketInv'
    BY <1>1, <1>2, <2>1, <2>3, <2>4 DEF PacketInv
  <2>. QED
    BY <1>1, <2>1, <2>2, <2>5
<1>4. CASE wire[1][1] # "data"
  <2>1. Carries(Tail(wire), Len(received), Written)
    BY <1>1, <1>4, CarriesLess
  <2>2. received' = received
    BY <1>4 DEF ClientRead
  <2>. QED
    BY <1>1, <1>2, <2>1, <2>2 DEF PacketInv
<1>. QED
  BY <1>3, <1>4

---------------------------------------------------------------------------
LEMMA NextInv == IInv /\ [Next]_vars => IInv'
<1>. SUFFICES ASSUME IInv, [Next]_vars PROVE IInv'
  OBVIOUS
<1>1. CASE EpollWait
  BY <1>1, EpollWaitKeeps
<1>2. CASE Over6Error \/ HandleReturns
  BY <1>2, SkipKeeps
<1>12. CASE WriteToReset
  BY <1>12, WriteToResetKeeps
<1>3. CASE TunRead
  BY <1>3, TunReadKeeps
<1>4. CASE Over6Read
  BY <1>4, Over6ReadKeeps
<1>5. CASE HandleMessage
  BY <1>5, HandleMessageKeeps
<1>6. CASE BeginFrame \/ ContinueFrame
  BY <1>6, RawToOver6Keeps
<1>7. CASE Heartbeat
  BY <1>7, HeartbeatKeeps
<1>8. ASSUME NEW m \in Messages, ClientSend(m) PROVE IInv'
  BY <1>8, ClientSendKeeps
<1>9. CASE ClientRead
  BY <1>9, ClientReadKeeps
<1>10. CASE TunArrive \/ Tick \/ \E how \in {"fin", "rst"} : ClientLeaves(how)
  BY <1>10, OthersKeep
<1>11. CASE UNCHANGED vars
  BY <1>11 DEF IInv, TypeOK, FramesInv, BatchInv, QuietInv, StreamInv, AskInv, Space,
               vars, program, environment
<1>. QED
  BY <1>1, <1>2, <1>3, <1>4, <1>5, <1>6, <1>7, <1>8, <1>9, <1>10, <1>11,
     <1>12 DEF Next, Server, Environment

LEMMA NextOrderInv == IInv /\ OrderInv /\ [Next]_vars => OrderInv'
<1>. SUFFICES ASSUME IInv, OrderInv, [Next]_vars, tcp' # "rst" PROVE PacketInv'
  BY DEF OrderInv
<1>0. tcp # "rst" /\ PacketInv
  <2>1. CASE \E how \in {"fin", "rst"} : ClientLeaves(how)
    BY <2>1 DEF ClientLeaves, OrderInv
  <2>2. CASE tcp' = tcp
    BY <2>2 DEF OrderInv
  <2>3. CASE Server \/ UNCHANGED vars
    BY <2>2, <2>3 DEF Server, vars, environment, EpollWait, Over6Error, TunRead, Over6Read,
                      HandleMessage, HandleReturns, BeginFrame, ContinueFrame, WriteToReset,
                      Heartbeat
  <2>4. CASE (\E m \in Messages : ClientSend(m)) \/ ClientRead \/ TunArrive \/ Tick
    BY <2>2, <2>4 DEF ClientSend, ClientRead, TunArrive, Tick, environment
  <2>. QED
    BY <2>1, <2>3, <2>4 DEF Next, Environment
<1>1. CASE BeginFrame \/ ContinueFrame
  BY <1>0, <1>1, RawToOver6KeepsOrder
<1>2. CASE TunRead
  BY <1>0, <1>2, TunReadKeepsOrder DEF IInv
<1>3. CASE TunArrive
  BY <1>0, <1>3, ArrivalKeepsOrder DEF IInv
<1>4. CASE HandleMessage \/ Heartbeat
  BY <1>0, <1>4, OthersWriteNoPacket
<1>5. CASE ClientRead
  BY <1>0, <1>5, ClientReadsNext
<1>6. CASE UNCHANGED <<wire, received, outbuf, tunq, arrived>>
  BY <1>0, <1>6 DEF PacketInv, Written
<1>7. CASE \/ EpollWait \/ Over6Error \/ HandleReturns \/ Over6Read \/ Tick
           \/ (\E m \in Messages : ClientSend(m)) \/ (\E how \in {"fin", "rst"} : ClientLeaves(how))
           \/ UNCHANGED vars
  BY <1>6, <1>7 DEF EpollWait, Over6Error, HandleReturns, Over6Read, Tick,
                    ClientSend, ClientLeaves, program, environment, vars
<1>8. CASE WriteToReset
  BY <1>0, <1>8 DEF WriteToReset
<1>. QED
  BY <1>1, <1>2, <1>3, <1>4, <1>5, <1>7, <1>8 DEF Next, Server, Environment

THEOREM Invariant == Spec => []IInv
  BY InitInv, NextInv, PTL DEF Spec

THEOREM OrderInvariant == Spec => []OrderInv
  BY OrderInit, NextOrderInv, Invariant, PTL DEF Spec

\* The buffers keep to their sizes, and the rest of the open frame is always in
\* ipBuffer (readToBuf, rawToOver6).
THEOREM TypeCorrect == Spec => []TypeOK
<1>1. IInv => TypeOK
  BY DEF IInv
<1>. QED
  BY <1>1, Invariant, PTL

\* Behind every header the client finds the payload it announced, and payload
\* nowhere else, for any buffer sizes, traffic and pattern of partial writes.
THEOREM FramesStayWhole == Spec => []FramesWhole
<1>1. IInv => FramesWhole
  <2>. SUFFICES ASSUME IInv PROVE FramesWhole
    OBVIOUS
  <2>1. /\ wire \in Seq(Unit) /\ need \in Nat /\ remain \in Nat /\ Len(wire) \in Nat
        /\ \A i \in 1 .. Len(wire) : wire[i][2] \in Nat
        /\ DOMAIN wire = 1 .. Len(wire)
    BY DEF IInv, TypeOK, Unit
  <2>2. PICK r \in Nat : Frames(wire, need, r)
    BY DEF IInv, FramesInv
  <2>3. ASSUME NEW i \in DOMAIN wire, wire[i][1] = "frame",
               NEW j \in i + 1 .. Least(i + wire[i][2], Len(wire))
        PROVE  wire[j][1] = "data"
    <3>1. /\ i \in 1 .. Len(wire) /\ j \in 1 .. Len(wire)
          /\ i < j /\ j <= i + wire[i][2]
      BY <2>1, <2>3 DEF Least
    <3>. QED
      BY <2>2, <2>3, <3>1 DEF Frames
  <2>4. ASSUME NEW j \in 1 .. Least(need, Len(wire)) PROVE wire[j][1] = "data"
    BY <2>1, <2>2 DEF Frames, Least
  <2>5. ASSUME NEW j \in need + 1 .. Len(wire), wire[j][1] = "data"
        PROVE  \E i \in 1 .. j - 1 : wire[i][1] = "frame" /\ j <= i + wire[i][2]
    <3>1. j \in 1 .. Len(wire) /\ need < j
      BY <2>1
    <3>2. PICK i \in 1 .. Len(wire) : i < j /\ wire[i][1] = "frame" /\ j <= i + wire[i][2]
      BY <2>2, <2>5, <3>1 DEF Frames
    <3>3. i \in 1 .. j - 1
      BY <3>1, <3>2
    <3>. QED
      BY <3>2, <3>3
  <2>. QED
    BY <2>3, <2>4, <2>5 DEF FramesWhole
<1>. QED
  BY <1>1, Invariant, PTL

\* over6Handle puts the halves together again: the messages are handled in the
\* order they were sent, each of them once.
THEOREM ImplementsChannel == Spec => MessengerSpec
<1>1. Init => Messenger!Init
  BY DEF Init, Messenger!Init
<1>2. ASSUME IInv, [Next]_vars PROVE [Messenger!Next]_(Messenger!vars)
  <2>1. ASSUME NEW m \in Messages, ClientSend(m)
        PROVE  [Messenger!Next]_(Messenger!vars)
    <3>1. handled' = handled /\ (sent' = Append(sent, m) \/ sent' = sent)
      BY <2>1 DEF ClientSend
    <3>. QED
      BY <3>1 DEF Messenger!Next, Messenger!Send, Messenger!vars
  <2>2. CASE HandleMessage
    <3>1. Len(handled) < Len(sent) /\ inbuf[1][1] = sent[Len(handled) + 1]
      BY <1>2, <2>2, HandlesOldest
    <3>2. Messenger!Receive
      BY <2>2, <3>1 DEF HandleMessage, environment, Messenger!Receive
    <3>. QED
      BY <3>2 DEF Messenger!Next
  <2>3. CASE \/ EpollWait \/ Over6Error \/ TunRead \/ Over6Read \/ HandleReturns
             \/ BeginFrame \/ ContinueFrame \/ WriteToReset \/ Heartbeat
    BY <2>3 DEF EpollWait, Over6Error, TunRead, Over6Read, HandleReturns, BeginFrame,
                ContinueFrame, WriteToReset, Heartbeat, environment, Messenger!vars
  <2>4. CASE ClientRead \/ TunArrive \/ Tick \/ \E how \in {"fin", "rst"} : ClientLeaves(how)
    BY <2>4 DEF ClientRead, TunArrive, Tick, ClientLeaves, environment, Messenger!vars
  <2>5. CASE UNCHANGED vars
    BY <2>5 DEF vars, environment, Messenger!vars
  <2>. QED
    BY <1>2, <2>1, <2>2, <2>3, <2>4, <2>5 DEF Next, Server, Environment
<1>. QED
  BY Invariant, <1>1, <1>2, PTL DEF Spec, MessengerSpec, Messenger!Spec

\* However the packets of the tun are cut into frames and frames into writes, no
\* packet is lost, doubled or overtaken on its way to the client.
THEOREM PacketsInOrder == Spec => []TunInOrder
<1>1. IInv /\ OrderInv => TunInOrder
  <2>. SUFFICES ASSUME IInv, PacketInv PROVE TunInOrder
    BY DEF OrderInv, TunInOrder
  <2>. DEFINE payload == {j \in DOMAIN wire : wire[j][1] = "data"}
              read == Len(received)
  <2>1. /\ DOMAIN wire = 1 .. Len(wire) /\ DOMAIN received = 1 .. Len(received)
        /\ DOMAIN outbuf = 1 .. Len(outbuf) /\ DOMAIN tunq = 1 .. Len(tunq)
        /\ \A i \in 1 .. Len(received) : received[i] \in Nat
    BY DEF IInv, TypeOK
  <2>2. Carries(wire, read, Written)
    BY DEF PacketInv
  <2>3. read <= Written
    BY <2>2 DEF Carries
  <2>4. {wire[j][2] : j \in payload} = read + 1 .. Written
    <3>1. \A j \in payload : wire[j][2] \in read + 1 .. Written
      BY <2>1, <2>2 DEF Carries
    <3>2. \A k \in read + 1 .. Written : \E j \in payload : wire[j][2] = k
      BY <2>1, <2>2 DEF Carries
    <3>. HIDE DEF payload, read, Written
    <3>. QED
      BY <3>1, <3>2
  <2>5. \A i, j \in payload : i < j => wire[i][2] < wire[j][2]
    BY <2>1, <2>2 DEF Carries
  <2>6. /\ \A i \in DOMAIN received : received[i] = i
        /\ \A i \in DOMAIN outbuf : outbuf[i] = Written + i
        /\ \A i \in DOMAIN tunq : tunq[i] = Written + Len(outbuf) + i
    BY <2>1 DEF PacketInv, Follow
  <2>. QED
    BY <2>3, <2>4, <2>5, <2>6 DEF TunInOrder, Written
<1>. QED
  BY <1>1, Invariant, OrderInvariant, PTL

\* Towards the client the server is a channel too: what the client reads are the
\* packets of the tun, next after next.
Forwarder == INSTANCE Channel
    WITH Messages <- Nat, sent <- [k \in 1 .. arrived |-> k], taken <- received
ForwarderSpec == Forwarder!Spec

THEOREM ForwardsAsChannel == Spec => ForwarderSpec
<1>1. Init => Forwarder!Init
  BY DEF Init, Forwarder!Init
<1>2. ASSUME IInv, OrderInv, [Next]_vars PROVE [Forwarder!Next]_(Forwarder!vars)
  <2>0. arrived \in Nat /\ received \in Seq(Nat)
    BY <1>2 DEF IInv, TypeOK
  <2>1. CASE TunArrive
    <3>. DEFINE s == [k \in 1 .. arrived |-> k]
                t == [k \in 1 .. arrived + 1 |-> k]
    <3>1. s \in Seq(Nat) /\ Len(s) = arrived /\ t \in Seq(Nat) /\ Len(t) = arrived + 1
      BY <2>0
    <3>2. t = Append(s, arrived + 1)
      BY <2>0, <3>1
    <3>3. arrived' = arrived + 1 /\ received' = received
      BY <2>1 DEF TunArrive
    <3>4. [k \in 1 .. arrived' |-> k] = t
      BY <3>3
    <3>. HIDE DEF s, t
    <3>5. PICK m \in Nat : m = arrived + 1
      BY <2>0
    <3>6. Forwarder!Send(m)
      BY <3>2, <3>3, <3>4, <3>5 DEF Forwarder!Send, s
    <3>7. \E i \in Nat : Forwarder!Send(i)
      BY <3>6, Zenon
    <3>. QED
      BY <3>7, Zenon DEF Forwarder!Next
  <2>2. CASE ClientRead
    <3>1. arrived' = arrived
      BY <2>2 DEF ClientRead
    <3>2. \/ received' = received
          \/ Len(received) < arrived /\ received' = Append(received, Len(received) + 1)
      BY <1>2, <2>2, ClientReadsNext DEF ClientRead, OrderInv
    <3>3. CASE received' = received
      BY <3>1, <3>3 DEF Forwarder!vars
    <3>4. CASE Len(received) < arrived /\ received' = Append(received, Len(received) + 1)
      <4>. DEFINE s == [k \in 1 .. arrived |-> k]
      <4>1. Len(s) = arrived /\ s[Len(received) + 1] = Len(received) + 1
        BY <2>0, <3>4
      <4>. QED
        BY <3>1, <3>4, <4>1 DEF Forwarder!Next, Forwarder!Receive
    <3>. QED
      BY <3>2, <3>3, <3>4
  <2>3. CASE UNCHANGED <<arrived, received>>
    BY <2>3 DEF Forwarder!vars
  <2>4. CASE \/ EpollWait \/ Over6Error \/ TunRead \/ Over6Read \/ HandleMessage
             \/ HandleReturns \/ BeginFrame \/ ContinueFrame \/ WriteToReset \/ Heartbeat
             \/ Tick \/ (\E m \in Messages : ClientSend(m))
             \/ (\E how \in {"fin", "rst"} : ClientLeaves(how)) \/ UNCHANGED vars
    BY <2>3, <2>4 DEF EpollWait, Over6Error, TunRead, Over6Read, HandleMessage, HandleReturns,
         BeginFrame, ContinueFrame, WriteToReset, Heartbeat, Tick, ClientSend, ClientLeaves,
         program, environment, vars
  <2>. QED
    BY <1>2, <2>1, <2>2, <2>4 DEF Next, Server, Environment
<1>. QED
  BY Invariant, OrderInvariant, <1>1, <1>2, PTL DEF Spec, ForwarderSpec, Forwarder!Spec

=============================================================================
