--------------------------- MODULE MsgQueue_proofs ---------------------------
(***************************************************************************)
(* Proofs about MsgQueue, for any sets of threads and any number of        *)
(* messages.                                                               *)
(***************************************************************************)
EXTENDS MsgQueue, SequenceTheorems, TLAPS

---------------------------------------------------------------------------
(* The inductive invariant.                                                *)

\* A thread that is inside a critical section holds the mutex, and only it.
MutexInv ==
    \A t \in Threads : pc[t] \in {"push", "check", "take"} <=> mutex = t

\* The condition variable's queue holds the threads that are in wait().
WaitInv == waiting = {c \in Consumers : pc[c] = "waiting"}

\* The producers are in push() and the consumers in pop().
RoleInv ==
    /\ \A p \in Producers : /\ pc[p] \in {"idle", "push", "notify"}
                            /\ pc[p] = "push" => pushed[p] < PushCap
    /\ \A c \in Consumers : pc[c] \in {"idle", "check", "waiting", "woken", "take"}

\* The queue is what was pushed and has not been popped.
Rest(q, s, t) ==
    /\ Len(s) = Len(t) + Len(q)
    /\ \A k \in 1 .. Len(q) : q[k] = s[Len(t) + k]

QueueInv == Rest(queue, sent, taken)

IInv ==
    /\ TypeOK /\ MutexInv /\ WaitInv /\ RoleInv /\ QueueInv
    /\ NeverReadsEmpty /\ NoLostWakeup

---------------------------------------------------------------------------
(* Pushing and popping keep the queue the rest of what was sent.           *)

LEMMA RestGrows ==
  ASSUME NEW S, NEW q \in Seq(S), NEW s \in Seq(S), NEW t \in Seq(S), NEW m \in S,
         Rest(q, s, t)
  PROVE  Rest(Append(q, m), Append(s, m), t)
<1>1. /\ Len(Append(q, m)) = Len(q) + 1 /\ Len(Append(s, m)) = Len(s) + 1
      /\ Len(q) \in Nat /\ Len(s) \in Nat /\ Len(t) \in Nat
  OBVIOUS
<1>2. ASSUME NEW k \in 1 .. Len(q) + 1 PROVE Append(q, m)[k] = Append(s, m)[Len(t) + k]
  <2>1. CASE k = Len(q) + 1
    BY <1>1, <2>1 DEF Rest
  <2>2. CASE k \in 1 .. Len(q)
    BY <1>1, <2>2 DEF Rest
  <2>3. k \in 1 .. Len(q) \/ k = Len(q) + 1
    BY <1>1
  <2>. QED
    BY <2>1, <2>2, <2>3, Zenon
<1>3. Len(Append(s, m)) = Len(t) + Len(Append(q, m))
  BY <1>1 DEF Rest
<1>. QED
  BY <1>1, <1>2, <1>3 DEF Rest

LEMMA RestShrinks ==
  ASSUME NEW S, NEW q \in Seq(S), NEW s \in Seq(S), NEW t \in Seq(S), q # <<>>,
         Rest(q, s, t)
  PROVE  Rest(Tail(q), s, Append(t, Head(q)))
<1>1. /\ Len(Tail(q)) = Len(q) - 1 /\ Len(Append(t, Head(q))) = Len(t) + 1
      /\ Len(q) \in Nat /\ Len(s) \in Nat /\ Len(t) \in Nat
  OBVIOUS
<1>2. ASSUME NEW k \in 1 .. Len(Tail(q)) PROVE Tail(q)[k] = s[Len(t) + 1 + k]
  BY <1>1 DEF Rest
<1>. QED
  BY <1>1, <1>2 DEF Rest

---------------------------------------------------------------------------
LEMMA InitInv == Init => IInv
<1>. SUFFICES ASSUME Init PROVE IInv
  OBVIOUS
<1>. USE ThreadsAssumption DEF Init, Threads
<1>1. TypeOK
  BY DEF TypeOK, PC
<1>2. MutexInv /\ WaitInv /\ RoleInv /\ NeverReadsEmpty /\ NoLostWakeup
  BY DEF MutexInv, WaitInv, RoleInv, NeverReadsEmpty, NoLostWakeup
<1>3. QueueInv
  BY DEF QueueInv, Rest
<1>. QED
  BY <1>1, <1>2, <1>3 DEF IInv

\* The lock of push().
LEMMA LockPushInv ==
  ASSUME IInv, NEW p \in Producers, LockPush(p) PROVE IInv'
<1>. USE ThreadsAssumption DEF Threads, LockPush, Acquire, Goto
<1>1. TypeOK'
  BY DEF IInv, TypeOK, PC
<1>2. MutexInv'
  BY DEF IInv, TypeOK, MutexInv, RoleInv
<1>3. WaitInv'
  BY DEF IInv, TypeOK, WaitInv
<1>4. RoleInv'
  BY DEF IInv, TypeOK, RoleInv
<1>5. QueueInv'
  BY DEF IInv, QueueInv
<1>6. NeverReadsEmpty' /\ NoLostWakeup'
  BY DEF IInv, TypeOK, NeverReadsEmpty, NoLostWakeup
<1>. QED
  BY <1>1, <1>2, <1>3, <1>4, <1>5, <1>6 DEF IInv

\* queue_.push(): the producer that leaves the mutex has still to notify, so the
\* message it leaves behind is not forgotten.
LEMMA EnqueueInv ==
  ASSUME IInv, NEW p \in Producers, Enqueue(p) PROVE IInv'
<1>. USE ThreadsAssumption DEF Threads, Goto, Release
<1>. DEFINE m == <<p, pushed[p] + 1>>
<1>0. mutex = p /\ pushed[p] < PushCap
  BY DEF IInv, MutexInv, Enqueue, TypeOK, RoleInv
<1>1. TypeOK'
  BY <1>0 DEF IInv, TypeOK, PC, Messages, Enqueue
<1>2. MutexInv'
  BY <1>0 DEF IInv, TypeOK, MutexInv, RoleInv, Enqueue
<1>3. WaitInv'
  BY DEF IInv, TypeOK, WaitInv, Enqueue
<1>4. RoleInv'
  BY DEF IInv, TypeOK, RoleInv, Enqueue
<1>5. QueueInv'
  <2>1. /\ queue \in Seq(Messages) /\ sent \in Seq(Messages) /\ taken \in Seq(Messages)
        /\ m \in Messages /\ QueueInv
    BY <1>0 DEF IInv, TypeOK, Messages
  <2>2. queue' = Append(queue, m) /\ sent' = Append(sent, m) /\ taken' = taken
    BY DEF Enqueue
  <2>. HIDE DEF m
  <2>. QED
    BY ONLY <2>1, <2>2, RestGrows DEF QueueInv
<1>6. NeverReadsEmpty'
  BY <1>0 DEF IInv, TypeOK, NeverReadsEmpty, Enqueue
<1>7. NoLostWakeup'
  BY DEF IInv, TypeOK, NoLostWakeup, Enqueue
<1>. QED
  BY <1>1, <1>2, <1>3, <1>4, <1>5, <1>6, <1>7 DEF IInv

\* notify_one: if nobody waits, every consumer is awake.
LEMMA NotifyInv ==
  ASSUME IInv, NEW p \in Producers, Notify(p) PROVE IInv'
<1>. USE ThreadsAssumption DEF Threads, Notify, Goto
<1>1. TypeOK'
  BY DEF IInv, TypeOK, PC
<1>2. MutexInv'
  BY DEF IInv, MutexInv, TypeOK, RoleInv, WaitInv
<1>3. WaitInv'
  BY DEF IInv, WaitInv, TypeOK
<1>4. RoleInv'
  BY DEF IInv, RoleInv, TypeOK
<1>5. QueueInv'
  BY DEF IInv, QueueInv, TypeOK
<1>6. NeverReadsEmpty'
  BY DEF IInv, NeverReadsEmpty, TypeOK, MutexInv
<1>7. NoLostWakeup'
  BY DEF IInv, NoLostWakeup, TypeOK, WaitInv
<1>. QED
  BY <1>1, <1>2, <1>3, <1>4, <1>5, <1>6, <1>7 DEF IInv

\* The lock of pop().
LEMMA LockPopInv ==
  ASSUME IInv, NEW c \in Consumers, LockPop(c) PROVE IInv'
<1>. USE ThreadsAssumption DEF Threads, LockPop, Acquire, Goto
<1>1. TypeOK'
  BY DEF IInv, TypeOK, PC
<1>2. MutexInv'
  BY DEF IInv, MutexInv, TypeOK, RoleInv
<1>3. WaitInv'
  BY DEF IInv, WaitInv, TypeOK
<1>4. RoleInv'
  BY DEF IInv, RoleInv, TypeOK
<1>5. QueueInv'
  BY DEF IInv, QueueInv, TypeOK
<1>6. NeverReadsEmpty'
  BY DEF IInv, NeverReadsEmpty, TypeOK, MutexInv
<1>7. NoLostWakeup'
  BY DEF IInv, NoLostWakeup, TypeOK, WaitInv
<1>. QED
  BY <1>1, <1>2, <1>3, <1>4, <1>5, <1>6, <1>7 DEF IInv

\* wait(): a consumer goes to sleep on an empty queue only, and goes on with the
\* mutex on a queue that has an element.
LEMMA WaitInvariant ==
  ASSUME IInv, NEW c \in Consumers, Wait(c) PROVE IInv'
<1>. USE ThreadsAssumption DEF Threads, Wait, Sleep, Release, Goto
<1>0. mutex = c
  BY DEF IInv, MutexInv
<1>1. TypeOK'
  BY <1>0 DEF IInv, TypeOK, PC
<1>2. MutexInv'
  BY <1>0 DEF IInv, MutexInv, TypeOK, RoleInv
<1>3. WaitInv'
  BY <1>0 DEF IInv, WaitInv, TypeOK
<1>4. RoleInv'
  BY <1>0 DEF IInv, RoleInv, TypeOK
<1>5. QueueInv'
  BY <1>0 DEF IInv, QueueInv, TypeOK
<1>6. NeverReadsEmpty'
  BY <1>0 DEF IInv, NeverReadsEmpty, TypeOK, MutexInv
<1>7. NoLostWakeup'
  BY <1>0 DEF IInv, NoLostWakeup, TypeOK, WaitInv
<1>. QED
  BY <1>1, <1>2, <1>3, <1>4, <1>5, <1>6, <1>7 DEF IInv

\* The condition variable wakes a thread by itself.
LEMMA WakeSpuriouslyInv ==
  ASSUME IInv, NEW c \in Consumers, WakeSpuriously(c) PROVE IInv'
<1>. USE ThreadsAssumption DEF Threads, WakeSpuriously, Goto
<1>1. TypeOK'
  BY DEF IInv, TypeOK, PC
<1>2. MutexInv'
  BY DEF IInv, MutexInv, TypeOK, RoleInv, WaitInv
<1>3. WaitInv'
  BY DEF IInv, WaitInv, TypeOK
<1>4. RoleInv'
  BY DEF IInv, RoleInv, TypeOK
<1>5. QueueInv'
  BY DEF IInv, QueueInv, TypeOK
<1>6. NeverReadsEmpty'
  BY DEF IInv, NeverReadsEmpty, TypeOK, MutexInv
<1>7. NoLostWakeup'
  BY DEF IInv, NoLostWakeup, TypeOK, WaitInv
<1>. QED
  BY <1>1, <1>2, <1>3, <1>4, <1>5, <1>6, <1>7 DEF IInv

\* The end of pop(): the consumer that leaves is itself awake.
LEMMA TakeInv ==
  ASSUME IInv, NEW c \in Consumers, Take(c) PROVE IInv'
<1>. USE ThreadsAssumption DEF Threads, Take, Release, Goto
<1>0. /\ mutex = c /\ queue # <<>> /\ queue \in Seq(Messages)
      /\ Head(queue) \in Messages
      /\ queue' = Tail(queue) /\ taken' = Append(taken, Head(queue))
  <2>1. mutex = c /\ queue # <<>> /\ queue \in Seq(Messages)
    BY DEF IInv, MutexInv, TypeOK, NeverReadsEmpty
  <2>2. SubSeq(queue, 2, Len(queue)) = Tail(queue)
    BY <2>1
  <2>. QED
    BY <2>1, <2>2
<1>1. TypeOK'
  BY <1>0 DEF IInv, TypeOK, PC
<1>2. MutexInv'
  BY <1>0 DEF IInv, MutexInv, TypeOK, RoleInv
<1>3. WaitInv'
  BY <1>0 DEF IInv, WaitInv, TypeOK
<1>4. RoleInv'
  BY <1>0 DEF IInv, RoleInv, TypeOK
<1>5. QueueInv'
  <2>1. sent \in Seq(Messages) /\ taken \in Seq(Messages) /\ sent' = sent /\ QueueInv
    BY DEF IInv, TypeOK
  <2>. QED
    BY ONLY <1>0, <2>1, RestShrinks DEF QueueInv
<1>6. NeverReadsEmpty'
  BY <1>0 DEF IInv, NeverReadsEmpty, TypeOK, MutexInv
<1>7. NoLostWakeup'
  BY <1>0 DEF IInv, NoLostWakeup, TypeOK, WaitInv
<1>. QED
  BY <1>1, <1>2, <1>3, <1>4, <1>5, <1>6, <1>7 DEF IInv

---------------------------------------------------------------------------
LEMMA NextInv == IInv /\ [Next]_vars => IInv'
<1>. SUFFICES ASSUME IInv, [Next]_vars PROVE IInv'
  OBVIOUS
<1>1. ASSUME NEW p \in Producers, Push(p) PROVE IInv'
  BY <1>1, LockPushInv, EnqueueInv, NotifyInv DEF Push
<1>2. ASSUME NEW c \in Consumers, PopStep(c) PROVE IInv'
  BY <1>2, LockPopInv, WaitInvariant, TakeInv DEF PopStep
<1>3. ASSUME NEW c \in Consumers, WakeSpuriously(c) PROVE IInv'
  BY <1>3, WakeSpuriouslyInv
<1>4. CASE UNCHANGED vars
  BY <1>4 DEF vars, IInv, TypeOK, MutexInv, WaitInv, RoleInv, QueueInv,
              NeverReadsEmpty, NoLostWakeup
<1>. QED
  BY <1>1, <1>2, <1>3, <1>4 DEF Next

THEOREM Invariant == Spec => []IInv
<1>. QED
  BY InitInv, NextInv, PTL DEF Spec

\* Whatever the threads do, only messages that were pushed come out of the queue,
\* and every variable keeps its type.
THEOREM TypeCorrect == Spec => []TypeOK
<1>1. IInv => TypeOK
  BY DEF IInv
<1>. QED
  BY Invariant, <1>1, PTL

\* push() may notify after it has released the mutex: no wakeup is lost for any
\* number of producers and consumers.
THEOREM WakeupsKept == Spec => []NoLostWakeup
<1>1. IInv => NoLostWakeup
  BY DEF IInv
<1>. QED
  BY Invariant, <1>1, PTL

\* pop() never calls front() on an empty queue.
THEOREM FrontIsSafe == Spec => []NeverReadsEmpty
<1>1. IInv => NeverReadsEmpty
  BY DEF IInv
<1>. QED
  BY Invariant, <1>1, PTL

\* The queue implements the channel: every step sends one message, receives the
\* oldest one, or leaves both ends alone.
THEOREM ImplementsChannel == Spec => ChannelSpec
<1>1. Init => Chan!Init
  BY DEF Init, Chan!Init
<1>2. ASSUME IInv, [Next]_vars PROVE [Chan!Next]_(Chan!vars)
  <2>. USE ThreadsAssumption
  <2>1. ASSUME NEW p \in Producers, Enqueue(p) PROVE Chan!Next
    <3>1. pushed[p] < PushCap /\ pushed[p] \in Nat
      BY <1>2, <2>1 DEF IInv, RoleInv, TypeOK, Enqueue
    <3>2. <<p, pushed[p] + 1>> \in Messages
      BY <3>1 DEF Messages
    <3>. QED
      BY <2>1, <3>2 DEF Enqueue, Chan!Next, Chan!Send
  <2>2. ASSUME NEW c \in Consumers, Take(c) PROVE Chan!Receive
    <3>1. queue # <<>> /\ queue \in Seq(Messages) /\ Len(queue) > 0
      BY <1>2, <2>2 DEF IInv, TypeOK, NeverReadsEmpty, Take
    <3>2. Head(queue) = sent[Len(taken) + 1] /\ Len(taken) < Len(sent)
      BY <1>2, <3>1 DEF IInv, TypeOK, QueueInv, Rest
    <3>. QED
      BY <2>2, <3>1, <3>2 DEF Take, Chan!Receive
  <2>3. ASSUME NEW p \in Producers, LockPush(p) \/ Notify(p) PROVE UNCHANGED Chan!vars
    BY <2>3 DEF LockPush, Notify, Chan!vars
  <2>4. ASSUME NEW c \in Consumers, LockPop(c) \/ Wait(c) \/ WakeSpuriously(c)
        PROVE  UNCHANGED Chan!vars
    BY <2>4 DEF LockPop, Wait, WakeSpuriously, Chan!vars
  <2>5. CASE UNCHANGED vars
    BY <2>5 DEF vars, Chan!vars
  <2>. QED
    BY <1>2, <2>1, <2>2, <2>3, <2>4, <2>5 DEF Next, Push, PopStep, Chan!Next
<1>. QED
  BY Invariant, <1>1, <1>2, PTL DEF Spec, ChannelSpec, Chan!Spec

=============================================================================
