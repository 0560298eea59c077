------------------------------ MODULE MsgQueue ------------------------------
(***************************************************************************)
(* MsgQueue<T> of the threaded server: a std::queue, a mutex and a         *)
(* condition variable.  The consumers call pop() in a loop, the producers  *)
(* call push(), which notifies after it has released the mutex.            *)
(***************************************************************************)
EXTENDS Naturals, Sequences, FiniteSets

CONSTANTS
    Producers, Consumers,
    Nobody,             \* no thread
    NoMessage,          \* what front() of an empty queue would return
    PushCap             \* bound: messages each producer pushes

ASSUME ThreadsAssumption ==
    /\ Consumers # {}
    /\ Producers \cap Consumers = {}
    /\ Nobody \notin Producers \cup Consumers
    /\ PushCap \in Nat

Messages == Producers \X (1 .. PushCap)

ASSUME MessagesAssumption == NoMessage \notin Messages

VARIABLES
    mutex,      \* mutex_: the thread that holds it
    queue,      \* queue_
    waiting,    \* cond_: the threads that wait for it
    pc,         \* where each thread is
    pushed,     \* pushed[p]: how many messages p has pushed
    sent,       \* history: messages in the order they were pushed
    taken       \* history: messages in the order they were popped

vars == <<mutex, queue, waiting, pc, pushed, sent, taken>>

Threads == Producers \cup Consumers

Init ==
    /\ mutex = Nobody
    /\ queue = <<>>
    /\ waiting = {}
    /\ pc = [t \in Threads |-> "idle"]
    /\ pushed = [p \in Producers |-> 0]
    /\ sent = <<>> /\ taken = <<>>

Acquire(t) == mutex = Nobody /\ mutex' = t
Release == mutex' = Nobody
Goto(t, there) == pc' = [pc EXCEPT ![t] = there]

---------------------------------------------------------------------------
(* push                                                                    *)

LockPush(p) ==
    /\ pc[p] = "idle" /\ pushed[p] < PushCap
    /\ Acquire(p)
    /\ Goto(p, "push")
    /\ UNCHANGED <<queue, waiting, pushed, sent, taken>>

\* queue_.push(), and the end of the block that holds the mutex.
Enqueue(p) ==
    LET m == <<p, pushed[p] + 1>> IN
    /\ pc[p] = "push"
    /\ queue' = Append(queue, m)
    /\ sent' = Append(sent, m)
    /\ pushed' = [pushed EXCEPT ![p] = @ + 1]
    /\ Release
    /\ Goto(p, "notify")
    /\ UNCHANGED <<waiting, taken>>

\* notify_one: one of the threads that wait, if there is one.
Notify(p) ==
    /\ pc[p] = "notify"
    /\ \/ /\ waiting = {}
          /\ Goto(p, "idle")
          /\ UNCHANGED waiting
       \/ \E c \in waiting :
            /\ waiting' = waiting \ {c}
            /\ pc' = [pc EXCEPT ![p] = "idle", ![c] = "woken"]
    /\ UNCHANGED <<mutex, queue, pushed, sent, taken>>

---------------------------------------------------------------------------
(* pop                                                                     *)

LockPopNot(c) ==                                             \* mutant
    /\ pc[c] \in {"idle", "woken"}
    /\ Goto(c, "check")
    /\ UNCHANGED <<mutex, queue, waiting, pushed, sent, taken>>

LockPopOnce(c) ==                                            \* mutant
    /\ pc[c] \in {"idle", "woken"}
    /\ Acquire(c)
    /\ Goto(c, IF pc[c] = "idle" THEN "check" ELSE "take")
    /\ UNCHANGED <<queue, waiting, pushed, sent, taken>>

\* The lock at the start, and the one wait() takes again before it returns.
LockPop(c) ==
    /\ pc[c] \in {"idle", "woken"}
    /\ Acquire(c)
    /\ Goto(c, "check")
    /\ UNCHANGED <<queue, waiting, pushed, sent, taken>>

\* wait() with its predicate: the mutex is released and the thread enqueued in
\* one step.
Sleep(c) ==
    /\ Release
    /\ waiting' = waiting \cup {c}
    /\ Goto(c, "waiting")

WaitAlways(c) ==                                             \* mutant
    /\ pc[c] = "check"
    /\ Sleep(c)
    /\ UNCHANGED <<queue, pushed, sent, taken>>

Wait(c) ==
    /\ pc[c] = "check"
    /\ IF queue = <<>>
       THEN Sleep(c)
       ELSE Goto(c, "take") /\ UNCHANGED <<mutex, waiting>>
    /\ UNCHANGED <<queue, pushed, sent, taken>>

\* A thread that waits may wake up without a notification.
WakeSpuriously(c) ==
    /\ c \in waiting
    /\ waiting' = waiting \ {c}
    /\ Goto(c, "woken")
    /\ UNCHANGED <<mutex, queue, pushed, sent, taken>>

\* The message is moved out, and the return releases the mutex.
Take(c) ==
    /\ pc[c] = "take"
    /\ taken' = Append(taken, IF queue = <<>> THEN NoMessage ELSE Head(queue))
    /\ queue' = SubSeq(queue, 2, Len(queue))
    /\ Release
    /\ Goto(c, "idle")
    /\ UNCHANGED <<waiting, pushed, sent>>

---------------------------------------------------------------------------
Push(p) == LockPush(p) \/ Enqueue(p) \/ Notify(p)
PopStep(c) == LockPop(c) \/ Wait(c) \/ Take(c)

Next ==
    \/ \E p \in Producers : Push(p)
    \/ \E c \in Consumers : PopStep(c) \/ WakeSpuriously(c)

Spec == Init /\ [][Next]_vars

\* Every thread that can go on does.
FairSpec ==
    /\ Spec
    /\ \A p \in Producers : WF_vars(Push(p))
    /\ \A c \in Consumers : WF_vars(PopStep(c))

---------------------------------------------------------------------------
PC == {"idle", "push", "notify", "check", "waiting", "woken", "take"}

\* The types, and only messages that were pushed come out.
TypeOK ==
    /\ mutex \in Threads \cup {Nobody}
    /\ queue \in Seq(Messages)
    /\ waiting \subseteq Consumers
    /\ pc \in [Threads -> PC]
    /\ pushed \in [Producers -> 0 .. PushCap]
    /\ sent \in Seq(Messages)
    /\ taken \in Seq(Messages)

\* No wakeup is lost although push() notifies without the mutex: as long as a
\* message is in the queue some consumer is awake, or a producer is about to
\* wake one.
NoLostWakeup ==
    queue # <<>> => \/ \E c \in Consumers : pc[c] # "waiting"
                    \/ \E p \in Producers : pc[p] = "notify"

\* front() is only called on a queue that has an element, though between the
\* notification and the second lock of wait() other consumers may take it.
NeverReadsEmpty ==
    \A c \in Consumers : pc[c] = "take" => queue # <<>>

\* Mutex, queue and condition variable implement the channel.
Chan == INSTANCE Channel
ChannelSpec == Chan!Spec

\* Every message that is pushed is popped.
EverySentIsTaken ==
    \A m \in Messages :
        (\E k \in DOMAIN sent : sent[k] = m) ~> (\E k \in DOMAIN taken : taken[k] = m)

=============================================================================
