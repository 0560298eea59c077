---------------------------- MODULE VpnService ----------------------------
(***************************************************************************)
(* The Android service (MyVpnService.java) around the native client.  Four *)
(* threads of the service run its methods without any lock: START, STOP,   *)
(* the timer's and the main thread, which runs onDestroy.  A field that    *)
(* is tested and then used is read twice, and another thread can run in    *)
(* between; a null found then ends the app.                                *)
(***************************************************************************)
EXTENDS VpnClient

Threads == {"start", "stop", "timer", "main"}

VARIABLES
    at,             \* where each thread is
    vpnThread,      \* the fields, TRUE where they are not null
    timer,
    vpnInterface,
    instance,
    ticking,        \* the Timer object is scheduled and not cancelled
    reads,          \* values of the current answer the timer task has read
    bytes,          \* bytes of an int START has written
    crashed         \* the app was ended by an uncaught exception

fields == <<vpnThread, timer, vpnInterface, instance>>
local == <<ticking, reads, bytes>>
vars == <<clientVars, at, fields, local, crashed>>

Init ==
    /\ ClientInit
    /\ at = [p \in Threads |-> "idle"]
    /\ vpnThread = FALSE /\ timer = FALSE /\ vpnInterface = FALSE /\ instance = FALSE
    /\ ticking = FALSE /\ reads = 0 /\ bytes = 0 /\ crashed = FALSE

Go(p, from, to) == at[p] = from /\ at' = [at EXCEPT ![p] = to]
OnlyMoves(p, from, to) == Go(p, from, to) /\ UNCHANGED <<clientVars, fields, local, crashed>>

\* A read of a field decides where the thread goes.
Test(p, from, field, ifSet, ifNull) == OnlyMoves(p, from, IF field THEN ifSet ELSE ifNull)

\* What each thread ends with is broadcastState, whose first look at vpnThread
\* belongs to the step before it.
Last == [start |-> "done", stop |-> "idle", timer |-> "idle", main |-> "done"]
Show(p) == IF vpnThread THEN "showAlive" ELSE Last[p]

\* What the end of the process does to the native client and the pipes.
NativeDies ==
    /\ npc' = "ended" /\ ready' = <<>> /\ rx' = <<>> /\ fdBytes' = 0 /\ tunFd' = FALSE
    /\ heard' = 0
    /\ tcp' = "closed" /\ down' = <<>> /\ asked' = FALSE /\ sends' = 0
    /\ cmds' = <<>> /\ answers' = <<>> /\ streams' = FALSE /\ iface' = FALSE

\* The second read finds null: a NullPointerException nobody catches.
NullUsed(p, from, field) ==
    /\ at[p] = from /\ ~field
    /\ crashed' = TRUE
    /\ at' = [q \in Threads |-> "done"]
    /\ NativeDies
    /\ UNCHANGED <<fields, local>>

\* A byte for the native client: an IOException when it has closed its end, or
\* the service its own.
PipeOpen == streams /\ Alive
Send(b) == PipeOpen /\ cmds' = Append(cmds, b)
           /\ UNCHANGED <<loop, server, answers, streams, iface>>

\* The next value on the response pipe; when the native client has ended and
\* the pipe is empty, the end of the stream.
Take == streams /\ answers # <<>> /\ answers' = Tail(answers)
        /\ UNCHANGED <<loop, server, cmds, streams, iface>>
EndOfAnswers == answers = <<>> /\ ~Alive

---------------------------------------------------------------------------
(* onStartCommand(START) and startVPN                                      *)

StartThread ==
    /\ Go("start", "idle", "ask")
    /\ vpnThread' = TRUE /\ npc' = "connect" /\ streams' = TRUE
    /\ UNCHANGED <<ready, rx, fdBytes, tunFd, heard, server, cmds, answers, iface,
                   timer, vpnInterface, instance, local, crashed>>

Ask ==
    /\ Go("start", "ask", "addresses") /\ Send("FETCH_CONFIG")
    /\ UNCHANGED <<fields, local, crashed>>

ReadAddresses ==                                             \* mutant
    /\ Go("start", "addresses", "establish") /\ Take
    /\ UNCHANGED <<fields, local, crashed>>

\* readResponse(20), and then readInt, which takes an end for an int.
ReadConfig ==
    /\ \/ Go("start", "addresses", "socketFd") \/ Go("start", "socketFd", "establish")
    /\ Take
    /\ UNCHANGED <<fields, local, crashed>>

ReadSocketFdEnds == EndOfAnswers /\ OnlyMoves("start", "socketFd", "establish")

\* establish() returns null when the app is not prepared any more.
Establish ==
    /\ Go("start", "establish", "setTun")
    /\ \E given \in BOOLEAN : vpnInterface' = given /\ iface' = given
    /\ UNCHANGED <<loop, server, cmds, answers, streams, vpnThread, timer, instance, local,
                   crashed>>

ScheduledFirst ==                                            \* mutant
    /\ Go("start", "setTun", "writeInt") /\ Send("SET_TUN")
    /\ timer' = TRUE /\ ticking' = TRUE
    /\ UNCHANGED <<vpnThread, vpnInterface, instance, reads, bytes, crashed>>

WriteSetTun ==
    /\ Go("start", "setTun", "writeInt") /\ Send("SET_TUN")
    /\ UNCHANGED <<fields, local, crashed>>

\* vpnInterface.getFd(), and the four bytes of the number.
WriteInt ==
    /\ at["start"] = "writeInt" /\ vpnInterface /\ Send("BYTE")
    /\ bytes' = (bytes + 1) % IntBytes
    /\ Go("start", "writeInt", IF bytes' = 0 THEN "schedule" ELSE "writeInt")
    /\ UNCHANGED <<fields, ticking, reads, crashed>>

StartWaits ==                                                \* mutant
    /\ at["start"] \in {"ask", "setTun", "writeInt"} /\ ~PipeOpen
    /\ at' = [at EXCEPT !["start"] = "instance"]
    /\ UNCHANGED <<clientVars, fields, local, crashed>>

\* An IOException: startVPN returns without a timer.
StartFails ==
    /\ \/ at["start"] \in {"ask", "setTun", "writeInt"} /\ ~PipeOpen
       \/ at["start"] = "addresses" /\ (EndOfAnswers \/ ~streams)
       \/ at["start"] = "socketFd" /\ ~streams
    /\ at' = [at EXCEPT !["start"] = "instance"]
    /\ UNCHANGED <<clientVars, fields, local, crashed>>

Schedule ==
    /\ Go("start", "schedule", "instance")
    /\ timer' = TRUE /\ ticking' = TRUE
    /\ UNCHANGED <<clientVars, vpnThread, vpnInterface, instance, reads, bytes, crashed>>

SetInstance ==
    /\ Go("start", "instance", Show("start"))
    /\ instance' = TRUE
    /\ UNCHANGED <<clientVars, vpnThread, timer, vpnInterface, local, crashed>>

---------------------------------------------------------------------------
(* The task of the timer                                                   *)

TimerFires == ticking /\ OnlyMoves("timer", "idle", "check")

TimerCheckOnly ==                                            \* mutant
    /\ vpnThread
    /\ OnlyMoves("timer", "check", IF Alive THEN "fetch" ELSE "showAlive")

TimerCheck ==
    /\ vpnThread
    /\ OnlyMoves("timer", "check", IF Alive THEN "fetch" ELSE "testTimer")

Fetch ==
    /\ Go("timer", "fetch", "read") /\ Send("FETCH_STATE")
    /\ UNCHANGED <<fields, local, crashed>>

\* Four readLong; an end of the stream is taken for a value.
NextRead == /\ reads' = (reads + 1) % Longs
            /\ Go("timer", "read", IF reads' = 0 THEN Show("timer") ELSE "read")
            /\ UNCHANGED <<fields, ticking, bytes, crashed>>

ReadCounter == Take /\ NextRead

ReadCounterEnds == streams /\ EndOfAnswers /\ NextRead /\ UNCHANGED clientVars

\* An IOException is caught by the task.
FetchFails ==
    /\ \/ at["timer"] = "fetch" /\ ~PipeOpen
       \/ at["timer"] = "read" /\ ~streams
    /\ at' = [at EXCEPT !["timer"] = Show("timer")]
    /\ reads' = 0
    /\ UNCHANGED <<clientVars, fields, ticking, bytes, crashed>>

---------------------------------------------------------------------------
(* onStartCommand(STOP), onDestroy and stopVPN                             *)

Stop == Test("stop", "idle", instance, "testTimer", "forget")

JoinedAtLast(p) == ~Alive /\ OnlyMoves(p, "joining", "close")    \* mutant

\* join(10000) returns when the thread has ended, or after ten seconds.
Joined(p) == OnlyMoves(p, "joining", "close")

\* stopVPN, run by STOP, by the timer's task and by onDestroy.
StopVPN(p) ==
    \/ Test(p, "testTimer", timer, "cancel", "testThread")
    \/ /\ Go(p, "cancel", "testThread") /\ timer
       /\ timer' = FALSE /\ ticking' = FALSE
       /\ UNCHANGED <<clientVars, vpnThread, vpnInterface, instance, reads, bytes, crashed>>
    \/ NullUsed(p, "cancel", timer)
    \/ Test(p, "testThread", vpnThread, "isAlive", "clear")
    \/ vpnThread /\ OnlyMoves(p, "isAlive", IF Alive THEN "exit" ELSE "clear")
    \/ /\ Go(p, "exit", "join") /\ Send("EXIT")
       /\ UNCHANGED <<fields, local, crashed>>
    \/ ~PipeOpen /\ OnlyMoves(p, "exit", "clear")
    \/ vpnThread /\ OnlyMoves(p, "join", "joining")
    \/ NullUsed(p, "isAlive", vpnThread) \/ NullUsed(p, "join", vpnThread)
    \/ Joined(p)
    \/ /\ Go(p, "close", "clear")
       /\ streams' = FALSE /\ answers' = <<>>
       /\ UNCHANGED <<loop, server, cmds, iface, fields, local, crashed>>
    \/ /\ Go(p, "clear", "testInterface")
       /\ vpnThread' = FALSE
       /\ UNCHANGED <<clientVars, timer, vpnInterface, instance, local, crashed>>
    \/ Test(p, "testInterface", vpnInterface, "closeInterface", "stopSelf")
    \/ /\ Go(p, "closeInterface", "stopSelf") /\ vpnInterface
       /\ vpnInterface' = FALSE /\ iface' = FALSE
       /\ UNCHANGED <<loop, server, cmds, answers, streams, vpnThread, timer, instance, local,
                      crashed>>
    \/ NullUsed(p, "closeInterface", vpnInterface)

\* stopSelf lets the system call onDestroy, once.
StopSelf(p) ==
    /\ at[p] = "stopSelf"
    /\ at' = [at EXCEPT ![p] = CASE p = "stop" -> "forget"
                               [] p = "timer" -> Show(p)
                               [] p = "main" -> "done",
                        !["main"] = IF @ = "idle" THEN "testTimer"
                                    ELSE IF p = "main" THEN "done" ELSE @]
    /\ UNCHANGED <<clientVars, fields, local, crashed>>

Forget ==
    /\ Go("stop", "forget", Show("stop"))
    /\ instance' = FALSE
    /\ UNCHANGED <<clientVars, vpnThread, timer, vpnInterface, local, crashed>>

\* broadcastState reads vpnThread again for isAlive().
ShowAlive(p) ==
    \/ vpnThread /\ OnlyMoves(p, "showAlive", Last[p])
    \/ NullUsed(p, "showAlive", vpnThread)

---------------------------------------------------------------------------
Starting ==
    \/ StartThread \/ Ask \/ ReadConfig \/ ReadSocketFdEnds \/ Establish \/ WriteSetTun
    \/ WriteInt \/ NullUsed("start", "writeInt", vpnInterface) \/ StartFails
    \/ Schedule \/ SetInstance \/ ShowAlive("start")

Task ==
    \/ TimerCheck \/ NullUsed("timer", "check", vpnThread)
    \/ Fetch \/ ReadCounter \/ ReadCounterEnds \/ FetchFails
    \/ StopVPN("timer") \/ StopSelf("timer") \/ ShowAlive("timer")

Stopping == StopVPN("stop") \/ StopSelf("stop") \/ Forget \/ ShowAlive("stop")

Destroying == StopVPN("main") \/ StopSelf("main")

Native == ~crashed /\ UNCHANGED <<at, fields, local, crashed>> /\ Client

World == ~crashed /\ UNCHANGED <<at, fields, local, crashed>> /\ (Server \/ Tick)

Next ==
    \/ Native \/ World
    \/ ~crashed /\ (Starting \/ TimerFires \/ Task \/ Stop \/ Stopping \/ Destroying)

Spec == Init /\ [][Next]_vars

\* Every thread that can go on does, the clock ticks and the timer fires;
\* nobody has to press a button, and the server owes nothing.  START and onDestroy
\* run once and take finitely many steps, so that fairness to the two together is
\* fairness to each, and the timer either fires or is in its task.
FairSpec ==
    /\ Spec
    /\ WF_vars(Native)
    /\ WF_vars(~crashed /\ UNCHANGED <<at, fields, local, crashed>> /\ Tick)
    /\ WF_vars(~crashed /\ (Starting \/ Destroying))
    /\ WF_vars(~crashed /\ (TimerFires \/ Task))
    /\ WF_vars(~crashed /\ Stopping)

---------------------------------------------------------------------------
\* Answers carry no type and are told apart by their order: what a thread reads
\* next is what it asked for (startVPN, the timer's task, handle_command).
AnswersMatch ==
    streams /\ answers # <<>> =>
        /\ at["start"] \in {"addresses", "socketFd"} => Head(answers) = at["start"]
        /\ at["timer"] = "read" => Head(answers) = Counters[reads + 1]

\* Three threads write commands without a lock: the four bytes behind SET_TUN
\* are those of the descriptor, and no such byte is ever taken for a command.
CommandsAligned ==
    cmds # <<>> => ((npc = "settun") <=> (Head(cmds) = "BYTE"))

---------------------------------------------------------------------------
(* Liveness, unless the app was ended by an exception.                     *)

\* START returns, with a connection or without one, whatever the server does.
StartReturns == (at["start"] # "idle") ~> (at["start"] = "done" \/ crashed)

\* The native client ends once it was told to, and once the server is gone: at
\* the end of a stream, which recv() reports again and again, by the timeout only.
\* The exception is a header of length 0, which handle_socket never gets over.
ClientEnds ==
    (at["stop"] = "join" \/ tcp \in {"fin", "rst"})
        ~> (npc = "ended" \/ Spinning \/ crashed)

\* The phone is not left with routes into a tun that nobody reads.  When the native
\* client ends on its own, the timer closes the interface; and STOP closes it
\* whatever the client does, one that spins at a header of length 0 included,
\* since stopVPN waits for its end ten seconds at most.
InterfaceReleased ==
    ((npc = "ended" /\ ticking) \/ at["stop"] = "testTimer") ~> (~iface \/ crashed)

=============================================================================
