------------------------------ MODULE Framing ------------------------------
(***************************************************************************)
(* A stream of units, some of which are headers that announce payload:     *)
(* what keeps its frames whole when units are written to its end and read  *)
(* from its front.  The socket of DroidServer and the command pipe of      *)
(* VpnClient are such streams.                                             *)
(***************************************************************************)
EXTENDS Integers, Sequences, SequenceTheorems, TLAPS

\* A header is <<"frame", length of its payload>>, payload is <<"data", _>>.
AreUnits(U) == \A u \in U : u[2] \in Nat

\* The frames of a stream w, in front of which n units of payload are still to
\* be read, and which r units of the last frame have yet to follow: frames and
\* payload fit, and only the last frame reaches beyond the end.
Frames(w, n, r) ==
    /\ n <= Len(w) + r
    /\ \A i \in 1 .. Len(w) : w[i][1] = "frame" => i + w[i][2] <= Len(w) + r
    /\ \A j \in 1 .. Len(w) : j <= n => w[j][1] = "data"
    /\ \A i, j \in 1 .. Len(w) :
          w[i][1] = "frame" /\ i < j /\ j <= i + w[i][2] => w[j][1] = "data"
    /\ \A j \in 1 .. Len(w) : w[j][1] = "data" /\ n < j =>
          \E i \in 1 .. Len(w) : i < j /\ w[i][1] = "frame" /\ j <= i + w[i][2]
    /\ r > 0 => \/ n = Len(w) + r
                \/ \E i \in 1 .. Len(w) : w[i][1] = "frame" /\ i + w[i][2] = Len(w) + r

---------------------------------------------------------------------------
\* Units written behind w that do not begin a frame: w was whole, and r of it open.
LEMMA DataWritten ==
  ASSUME NEW U, AreUnits(U), NEW w \in Seq(U), NEW v \in Seq(U), NEW n \in Nat, NEW r \in Nat,
         Frames(w, n, r), NEW k \in 0 .. r, Len(v) = Len(w) + k,
         \A j \in 1 .. Len(w) : v[j] = w[j],
         \A j \in 1 .. k : v[Len(w) + j][1] = "data"
  PROVE  Frames(v, n, r - k)
<1>0. Len(w) \in Nat /\ Len(v) \in Nat /\ \A i \in 1 .. Len(v) : v[i][2] \in Nat
  BY DEF AreUnits
<1>1. \A j \in 1 .. Len(v) : j \notin 1 .. Len(w) => v[j][1] = "data"
  <2>. SUFFICES ASSUME NEW j \in 1 .. Len(v), j \notin 1 .. Len(w) PROVE v[j][1] = "data"
    OBVIOUS
  <2>1. j - Len(w) \in 1 .. k /\ Len(w) + (j - Len(w)) = j
    BY <1>0
  <2>. QED
    BY <2>1
<1>2. n <= Len(v) + (r - k)
  BY <1>0 DEF Frames
<1>3. \A i \in 1 .. Len(v) : v[i][1] = "frame" => i \in 1 .. Len(w) /\ w[i] = v[i]
  BY <1>0, <1>1
<1>4. \A i \in 1 .. Len(v) : v[i][1] = "frame" => i + v[i][2] <= Len(v) + (r - k)
  BY <1>0, <1>3 DEF Frames
<1>5. \A j \in 1 .. Len(v) : j <= n => v[j][1] = "data"
  BY <1>0, <1>1 DEF Frames
<1>6. \A i, j \in 1 .. Len(v) :
         v[i][1] = "frame" /\ i < j /\ j <= i + v[i][2] => v[j][1] = "data"
  <2>. SUFFICES ASSUME NEW i \in 1 .. Len(v), NEW j \in 1 .. Len(v),
                       v[i][1] = "frame", i < j, j <= i + v[i][2]
                PROVE  v[j][1] = "data"
    OBVIOUS
  <2>1. CASE j \in 1 .. Len(w)
    <3>1. i \in 1 .. Len(w) /\ w[i] = v[i] /\ w[j] = v[j]
      BY <1>3, <2>1
    <3>. QED
      BY <2>1, <3>1 DEF Frames
  <2>2. CASE j \notin 1 .. Len(w)
    BY <1>1, <2>2
  <2>. QED
    BY <2>1, <2>2
<1>7. ASSUME NEW j \in 1 .. Len(v), v[j][1] = "data", n < j
      PROVE  \E i \in 1 .. Len(v) : i < j /\ v[i][1] = "frame" /\ j <= i + v[i][2]
  <2>1. CASE j \in 1 .. Len(w)
    <3>1. PICK i \in 1 .. Len(w) : i < j /\ w[i][1] = "frame" /\ j <= i + w[i][2]
      BY <1>7, <2>1 DEF Frames
    <3>2. i \in 1 .. Len(v) /\ v[i] = w[i]
      BY <1>0
    <3>. QED
      BY <3>1, <3>2
  <2>2. CASE j \notin 1 .. Len(w)
    <3>1. r > 0 /\ j <= Len(w) + r /\ Len(w) < j
      BY <1>0, <2>2
    <3>2. PICK i \in 1 .. Len(w) : w[i][1] = "frame" /\ i + w[i][2] = Len(w) + r
      BY <1>0, <1>7, <3>1 DEF Frames
    <3>3. i \in 1 .. Len(v) /\ v[i] = w[i] /\ i < j /\ j <= i + w[i][2]
      BY <1>0, <3>1, <3>2
    <3>. QED
      BY <3>2, <3>3
  <2>. QED
    BY <2>1, <2>2
<1>8. r - k > 0 => \/ n = Len(v) + (r - k)
                   \/ \E i \in 1 .. Len(v) : v[i][1] = "frame" /\ i + v[i][2] = Len(v) + (r - k)
  <2>. SUFFICES ASSUME r - k > 0, n # Len(v) + (r - k)
                PROVE  \E i \in 1 .. Len(v) : v[i][1] = "frame" /\ i + v[i][2] = Len(v) + (r - k)
    OBVIOUS
  <2>1. Len(v) + (r - k) = Len(w) + r
    BY <1>0
  <2>0. r > 0 /\ n # Len(w) + r
    <3>1. r > 0
      OBVIOUS
    <3>. QED
      BY ONLY <2>1, <3>1, n # Len(v) + (r - k)
  <2>2. PICK i \in 1 .. Len(w) : w[i][1] = "frame" /\ i + w[i][2] = Len(w) + r
    BY <2>0 DEF Frames
  <2>3. i \in 1 .. Len(v) /\ v[i] = w[i]
    BY <1>0
  <2>. QED
    BY <2>1, <2>2, <2>3
<1>. QED
  BY <1>2, <1>4, <1>5, <1>6, <1>7, <1>8 DEF Frames

\* A unit that is not payload, when no frame is open; a header opens one.
LEMMA OtherWritten ==
  ASSUME NEW U, AreUnits(U), NEW w \in Seq(U), NEW v \in Seq(U), NEW n \in Nat, NEW r \in Nat,
         Frames(w, n, 0), Len(v) = Len(w) + 1, \A j \in 1 .. Len(w) : v[j] = w[j],
         LET u == v[Len(w) + 1] IN \/ u = <<"frame", r>>
                                   \/ u[1] \notin {"frame", "data"} /\ r = 0
  PROVE  Frames(v, n, r)
<1>. DEFINE l == Len(w) + 1
<1>0. l \in Nat /\ Len(v) = l /\ \A i \in 1 .. Len(v) : v[i][2] \in Nat
  BY DEF AreUnits
<1>1. \A i \in 1 .. Len(v) : i # l => i \in 1 .. Len(w) /\ v[i] = w[i]
  BY <1>0
<1>2. v[l][1] # "data" /\ (v[l][1] = "frame" => v[l][2] = r) /\ (r > 0 => v[l][1] = "frame")
  OBVIOUS
<1>. HIDE DEF l
<1>3. n < l /\ \A i \in 1 .. Len(v) : i # l /\ v[i][1] = "frame" => i + v[i][2] < l
  BY <1>0, <1>1 DEF Frames, l
<1>4. n <= Len(v) + r
  BY <1>0, <1>3
<1>5. \A i \in 1 .. Len(v) : v[i][1] = "frame" => i + v[i][2] <= Len(v) + r
  BY <1>0, <1>2, <1>3
<1>6. \A j \in 1 .. Len(v) : j <= n => v[j][1] = "data"
  BY <1>0, <1>1, <1>3 DEF Frames
<1>7. \A i, j \in 1 .. Len(v) :
         v[i][1] = "frame" /\ i < j /\ j <= i + v[i][2] => v[j][1] = "data"
  BY <1>0, <1>1, <1>3 DEF Frames
<1>8. ASSUME NEW j \in 1 .. Len(v), v[j][1] = "data", n < j
      PROVE  \E i \in 1 .. Len(v) : i < j /\ v[i][1] = "frame" /\ j <= i + v[i][2]
  <2>1. j # l /\ j \in 1 .. Len(w) /\ w[j] = v[j]
    BY <1>1, <1>2, <1>8
  <2>2. PICK i \in 1 .. Len(w) : i < j /\ w[i][1] = "frame" /\ j <= i + w[i][2]
    BY <1>8, <2>1 DEF Frames
  <2>3. i \in 1 .. Len(v) /\ v[i] = w[i]
    BY <1>0 DEF l
  <2>. QED
    BY <2>2, <2>3
<1>9. r > 0 => \E i \in 1 .. Len(v) : v[i][1] = "frame" /\ i + v[i][2] = Len(v) + r
  <2>. SUFFICES ASSUME r > 0
                PROVE  \E i \in 1 .. Len(v) : v[i][1] = "frame" /\ i + v[i][2] = Len(v) + r
    OBVIOUS
  <2>1. l \in 1 .. Len(v)
    BY <1>0 DEF l
  <2>2. v[l][1] = "frame" /\ l + v[l][2] = Len(v) + r
    BY <1>0, <1>2
  <2>. QED
    BY <2>1, <2>2
<1>. QED
  BY <1>4, <1>5, <1>6, <1>7, <1>8, <1>9 DEF Frames

\* The client reads the first unit.
LEMMA UnitRead ==
  ASSUME NEW U, AreUnits(U), NEW w \in Seq(U), w # <<>>, NEW n \in Nat, NEW r \in Nat,
         Frames(w, n, r),
         NEW m, m = CASE w[1][1] = "frame" -> w[1][2]
                      [] w[1][1] = "data" -> n - 1
                      [] OTHER -> n
  PROVE  m \in Nat /\ Frames(Tail(w), m, r)
<1>. DEFINE v == Tail(w)
<1>0. /\ Len(w) \in Nat /\ Len(w) > 0 /\ Len(v) = Len(w) - 1
      /\ \A i \in 1 .. Len(w) : w[i][2] \in Nat
      /\ \A i \in 1 .. Len(v) : i + 1 \in 1 .. Len(w) /\ v[i] = w[i + 1]
  BY DEF AreUnits
<1>1. w[1][1] = "data" => n > 0
  BY <1>0 DEF Frames
<1>2. w[1][1] # "data" => n = 0
  BY <1>0 DEF Frames
<1>3. m \in Nat
  BY <1>0, <1>1
<1>4. \/ w[1][1] = "frame" /\ m = w[1][2] /\ n = 0
      \/ w[1][1] = "data" /\ m = n - 1 /\ n > 0
      \/ w[1][1] \notin {"frame", "data"} /\ m = 0 /\ n = 0
  BY <1>1, <1>2
<1>. HIDE DEF v
<1>5. m <= Len(v) + r
  BY <1>0, <1>4 DEF Frames
<1>6. \A i \in 1 .. Len(v) : v[i][1] = "frame" => i + v[i][2] <= Len(v) + r
  BY <1>0 DEF Frames
<1>7. ASSUME NEW j \in 1 .. Len(v), j <= m PROVE v[j][1] = "data"
  <2>1. j + 1 \in 1 .. Len(w) /\ v[j] = w[j + 1] /\ 1 \in 1 .. Len(w)
    BY <1>0
  <2>2. CASE w[1][1] = "frame" /\ m = w[1][2]
    <3>1. 1 < j + 1 /\ j + 1 <= 1 + w[1][2]
      BY <1>0, <1>7, <2>2
    <3>2. w[j + 1][1] = "data"
      BY ONLY <2>1, <2>2, <3>1, Frames(w, n, r) DEF Frames
    <3>. QED
      BY <2>1, <3>2
  <2>3. CASE m = n - 1
    <3>1. j + 1 <= n
      BY <1>7, <2>3
    <3>. QED
      BY <2>1, <3>1 DEF Frames
  <2>4. CASE m = 0
    BY <1>7, <2>4
  <2>. QED
    BY <1>4, <2>2, <2>3, <2>4
<1>8. \A i, j \in 1 .. Len(v) :
         v[i][1] = "frame" /\ i < j /\ j <= i + v[i][2] => v[j][1] = "data"
  <2>. SUFFICES ASSUME NEW i \in 1 .. Len(v), NEW j \in 1 .. Len(v),
                       v[i][1] = "frame", i < j, j <= i + v[i][2]
                PROVE  v[j][1] = "data"
    OBVIOUS
  <2>1. /\ i + 1 \in 1 .. Len(w) /\ v[i] = w[i + 1] /\ v[i][2] \in Nat
        /\ j + 1 \in 1 .. Len(w) /\ v[j] = w[j + 1]
    BY <1>0
  <2>2. i + 1 < j + 1 /\ j + 1 <= (i + 1) + w[i + 1][2] /\ w[i + 1][1] = "frame"
    BY <2>1
  <2>3. w[j + 1][1] = "data"
    BY ONLY <2>1, <2>2, Frames(w, n, r) DEF Frames
  <2>. QED
    BY <2>1, <2>3
<1>9. ASSUME NEW j \in 1 .. Len(v), v[j][1] = "data", m < j
      PROVE  \E i \in 1 .. Len(v) : i < j /\ v[i][1] = "frame" /\ j <= i + v[i][2]
  <2>1. j + 1 \in 1 .. Len(w) /\ w[j + 1][1] = "data" /\ n < j + 1
    BY <1>0, <1>3, <1>4, <1>9
  <2>2. PICK i \in 1 .. Len(w) : i < j + 1 /\ w[i][1] = "frame" /\ j + 1 <= i + w[i][2]
    BY <2>1 DEF Frames
  <2>3. i # 1
    BY <1>0, <1>3, <1>4, <1>9, <2>2
  <2>4. i - 1 \in 1 .. Len(v) /\ v[i - 1] = w[(i - 1) + 1] /\ (i - 1) + 1 = i
    BY <1>0, <2>2, <2>3
  <2>5. i - 1 < j /\ v[i - 1][1] = "frame" /\ j <= (i - 1) + v[i - 1][2]
    BY <1>0, <2>2, <2>4
  <2>. QED
    BY <2>4, <2>5
<1>10. r > 0 => \/ m = Len(v) + r
                \/ \E i \in 1 .. Len(v) : v[i][1] = "frame" /\ i + v[i][2] = Len(v) + r
  <2>. SUFFICES ASSUME r > 0, m # Len(v) + r
                PROVE  \E i \in 1 .. Len(v) : v[i][1] = "frame" /\ i + v[i][2] = Len(v) + r
    OBVIOUS
  <2>1. PICK i \in 1 .. Len(w) : w[i][1] = "frame" /\ i + w[i][2] = Len(w) + r
    BY <1>0, <1>4 DEF Frames
  <2>2. i # 1
    <3>. SUFFICES ASSUME i = 1 PROVE FALSE
      OBVIOUS
    <3>1. w[1][1] = "frame" /\ 1 + w[1][2] = Len(w) + r
      BY <2>1
    <3>2. m = w[1][2] /\ w[1][2] \in Nat
      BY <1>0, <1>4, <3>1
    <3>. QED
      BY <1>0, <3>1, <3>2
  <2>3. PICK k \in 1 .. Len(v) : k + 1 = i
    <3>1. i - 1 \in 1 .. Len(v) /\ (i - 1) + 1 = i
      BY <1>0, <2>2
    <3>. QED
      BY <3>1
  <2>4. v[k] = w[i] /\ w[i][2] \in Nat
    BY <1>0, <2>3
  <2>5. k + w[i][2] = Len(v) + r
    <3>. DEFINE a == w[i][2]
    <3>1. k + 1 + a = Len(w) + r /\ Len(v) = Len(w) - 1 /\ a \in Nat
      BY <1>0, <2>1, <2>3, <2>4
    <3>. HIDE DEF a
    <3>2. k \in Int /\ Len(w) \in Int /\ r \in Int
      BY <1>0
    <3>3. k + a = Len(v) + r
      BY ONLY <3>1, <3>2
    <3>. QED
      BY <3>3 DEF a
  <2>. QED
    BY <2>1, <2>4, <2>5
<1>. QED
  BY <1>3, <1>5, <1>6, <1>7, <1>8, <1>9, <1>10 DEF Frames, v

=============================================================================
