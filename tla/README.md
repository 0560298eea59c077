# Verification of 4over6

4over6 tunnels IPv4 over IPv6.  A client on a phone opens a TCP connection over
IPv6, asks for an IPv4 address, and then exchanges IPv4 packets with a server
that owns a pool of addresses and a tun device.  Both sides send heartbeats and
give the connection up when nothing was heard for too long.  The server exists
in three designs (one thread with epoll and blocking descriptors; several threads
per connection; one thread with nonblocking descriptors for a single client), the
client is an Android service around a native event loop.

## 1. Inventory

| Component | Source | State | Operations | Talks to |
|---|---|---|---|---|
| epoll server | `server/Server/main.cpp`; copies `server/cy/main 2.cpp`, `server/cy/main.cpp`, `server/main.cpp` | `users[256]` (who owns which address, two time stamps), `bufs[fd]`, the epoll set | `process_server`, `process_client`, `process_tun`, `process_hartbeat` | clients over TCP, kernel over tun |
| threaded server | `server/4over6-server/` | `status[]`, `connections`, per connection: queue, heartbeat count, address; two mutexes | accept loop; reader, writer and keepalive thread per connection; tun reader and writer | the same |
| message queue | `server/4over6-server/msg_queue.*` | queue, mutex, condition variable | `push`, `pop` | all threads of the threaded server |
| native client | `client_frontend/app/src/main/jni/` | `socket_buffer`, `tunFd`, time stamps, counters, the batch of `poll()` | `handle_socket`, `handle_command`, `handle_tunnel`, `handle_heartbeat` | server over TCP, service over two pipes, tun |
| Android service | `MyVpnService.java` | `vpnThread`, `timer`, `vpnInterface`, `commandWriter` and `responseReader`, static `instance` | `startVPN`, `stopVPN`, timer task, `onDestroy`, on four threads without a lock | native client over pipes, activity by broadcast |
| Android activity | `MainActivity.java` | labels | buttons | the service, by intents |
| single-client server | `server/cy/DroidOver6Server.c` | `over6PacketBuffer`, `ipBuffer`, `ipBufferRemain`, `last_heartbeat` | `readToBuf`, `over6Handle`, `rawToOver6`, heartbeat, in one thread around epoll | client over TCP, tun |
| wire format | `4o6.h`, `proto.h`, `proto.cpp` | - | 5-byte header, text address reply, little-endian integers on the pipes | - |

The hard behaviours, and what would be correct:

* **Epoll server.** One thread, so no data races, but between any two of its
  steps peers close or reset, messages arrive and time passes.  Descriptors are
  reused; a batch of events is handled after earlier handlers of the batch have
  closed descriptors; replies fail half way; the pool fills up.  Correct means:
  the table of users and the kernel's descriptors agree, an address that was
  announced belongs to that connection until its descriptor is closed, `read()`
  never blocks, packets go to the holder of their destination, a closed peer's
  address comes back, and every event is handled.
* **Threaded server.** Up to 3n + 3 threads over shared maps.  An address is
  chosen and marked in two critical sections; the keepalive thread closes a
  descriptor others still use.  Correct means: one holder per address, no
  assertion fails, no thread waits for itself, messages are not interleaved on
  the wire.
* **Single-client server.** Messages arrive in parts, frames leave in parts, and
  more packets and other writers come between the parts.  Correct means: the
  client finds whole frames, every packet leaves once and in order, every message
  is handled once and in order, and a client is reported as gone only when it is.
* **Native client and service.** Four threads write untyped commands or read
  untyped answers; the client may end at any time; each field of the service is
  tested and then used while others clear it.  Correct means: no answer and no
  command is taken for another, START comes back whatever the network does, the
  client ends when told to or left alone, and the interface is closed with it.

The complete list of hazards, each at its line, is in `PROJECT.json`.

## 2. Plan

Most important behaviour first.  Written and checked:

1. `EpollServer`, `AddressPool`, `EpollServer_proofs`, `EpollTraffic_proofs`: the
   deployed server, the pool it promises, and the proofs.
2. `MsgQueue`, `Channel`, `MsgQueue_proofs`: the queue with its mutex and
   condition variable, shown and proved to be a FIFO channel.
3. `ThreadedServer`: threads over the maps of `clientConnection.cpp`, with the
   queue as the channel of step 2, implementing `AddressPool` too;
   `ThreadedServer_proofs`.
4. `DroidServer`, `DroidServer_proofs`: the single-client server with partial
   reads and writes; its reassembly, and its forwarding, implement the same
   `Channel`.
5. `VpnClient`, and `VpnService`, which composes it with the service through two
   pipes; `VpnService_proofs`.
6. `Framing`: what a stream of framed data is and what writing and reading do
   to it; used by both `DroidServer_proofs` and `VpnService_proofs`.

Left, in this order:

7. `Over6System`: the epoll server and its clients with bounded socket buffers;
   the question is whether blocking writes on both sides can meet.
8. `FrameBuffer`: reassembly in `process_client` and `handle_socket`, with
   headers that announce fewer than five bytes.
9. `Codec`: `readLong`, `writeInt`, `READ_IP`, `in_cksum` against reference
   definitions.

## 3. The model of the epoll server

`EpollServer.tla` has three groups of variables.  *Program*: `users` and `bufs`
as in the code, `tunbuf` for `bufs[tun_fd]`, and where the thread is (`pc`,
`cur`, `pending`, `hb`).  *Kernel*: the connection behind each descriptor
(`sock`), the epoll set, accept's queue, the TCP state and receive queue of each
connection, the packets in the tun.  *Clients*: who asked, what address each was
told, what packets each was sent (history, read by no guard).

One action is one turn of the thread between two calls at which the environment
can be noticed: `EpollWait` takes the batch; `Accept`, `TunForward`,
`TunUnroutable`, `ReadData`, `ReadNothing`, `ReadError` handle an event up to the
end of its system calls; `IpRequest`, `InetRequest`, `Keepalive`, ... handle one
message of the buffer; `HartbeatUser` handles one entry of the heartbeat pass.
`FreeClientFd` and `Deallocated` are the helpers of the same names.  The history
variable `refused` has the connections a frame could not be written to.

A message is one element of a sequence and a packet is its destination; text,
lengths and checksums are left out.  `write()` is `WriteOutcomes`: a closed peer
takes the first buffer and answers with a reset, a reset connection reports
its error once, and the next write is a SIGPIPE, after which the process is dead
and promises nothing (`Up`).  This is why a failed reply cannot lead to a second
address: the retry of the same request is a write to a dead connection.

The copies of the server differ in two places, both constants: `FreeOnEOF`
(`size <= 0` against `size < 0`) and `TunSkips` (whether an unroutable packet is
consumed).  `server/Server/main.cpp` and `server/cy/main 2.cpp` are `FALSE, TRUE`,
`server/cy/main.cpp` is `TRUE, TRUE`, `server/main.cpp` is `TRUE, FALSE`.

`AddressPool.tla` is the promise: `Grant`, `Close`, `Stop` on a map from
addresses to connections.  `Lease` in `EpollServer` is the refinement mapping:
address `a` is held by the connection behind the descriptor of entry `a`.

### Properties

| Property | What could go wrong |
|---|---|
| `TypeOK` | the buffer of a connection is overrun |
| `TableMatchesSockets` | an entry survives its descriptor, or two entries share one |
| `AddressHeld` | an announced address is freed or given away under its holder |
| `ReadNeverBlocks` | an event is handled for a descriptor closed earlier in the batch |
| `KeepaliveFindsUser` | `users[-1]` is written |
| `NobodyToldUnasked` | a request of the descriptor's earlier user is answered |
| `FramesToHolder` | packets go to the wrong client for another reason than a refused frame |
| `NothingLeftBehind` | a message stays unread although the client has its address |
| `LivePeerKept` | a live, talking client loses its address |
| `PoolSpec` | the table does not implement the pool |
| `ClosedPeerReleased`, `ClosedPeerTimesOut` | a closed peer keeps its address |
| `EachEventHandled` | the thread never gets to an event |
| `WaitingClientServed` | a client parked at a full pool is forgotten |

### Runs and bounds

| Run | Instance | Shows |
|---|---|---|
| `epoll_table` | 3 connections, 2 descriptors, 1 address; tun writes and `epoll_ctl` may fail | all table invariants and the refinement with closes, resets, timeouts, a full pool and descriptor reuse |
| `epoll_tun` | variant `server/cy/main.cpp`; 2 connections, 2 addresses, tun buffer of 2, closes and resets | tun forwarding: `FramesToHolder`, `NothingLeftBehind` |
| `epoll_eof` | 2 connections, 1 address, no tun, slow clients, unknown messages | the `size <= 0` variant: `LivePeerKept`, `ClosedPeerReleased` |
| `epoll_timeout` | 2 connections, 1 address, tun, orderly closes | `ClosedPeerTimesOut`, `EachEventHandled`, `WaitingClientServed` |
| `epoll_hang` | as `epoll_timeout`, variant `server/main.cpp` | expected violation, see below |

Three connections on two descriptors is the least that has a reused descriptor
while a third party is connected; one address is the least that is full with one
client; buffers of two hold a message and what is stuck behind it.  Ages are
counted up to the first value that exceeds the limit they are compared with
(`Older`), which loses nothing because they are only compared.  `RcvCap`,
`TunQCap` and `Traffic` bound what the environment sends.  Connections are
interchangeable and so are descriptors, hence the symmetry in the safety runs.
The server and its clients may stop for good (everyone connected, nothing to
send, the process killed), so deadlock is not an error here; that nobody waits
for ever is what the liveness runs are about.

`FramesToHolder` says exactly how far packets can go astray.  After a reset the
write of a frame fails, the packet stays in front of the tun buffer, and the next
packet is glued to it; if the first packet's address is then granted to
somebody else, the second packet goes with it.  Hence the exception in the
property, which the run reaches: a connection is sent a packet that is not for
it only if an earlier holder of its address refused a frame.  The variant with
`size <= 0` is the one where an address comes back soonest, without the timeout.
One address in `epoll_table` cannot show a second entry for one descriptor (a
reply that failed, line 406); that is left to the theorem `TableCorrect`.
`KeepaliveFindsUser` is checked for
clients that ask before their first heartbeat, which the native client sends
after 20 seconds.

### Fairness

`WF(Server)`: the thread is scheduled.  `WF(Tick)`: time passes.  Clients owe
nothing; `WaitingClientServed` has as its premise that each sends its heartbeats
(weak fairness of `ClientSend(c, "KEEPALIVE")`), as `handle_heartbeat` of the
native client does on every turn of its loop.

### Finding

`server/main.cpp:301`: `continue` for a packet nobody owns restarts the loop
without consuming the packet, so the server hangs; the deployed copy wraps the
body in `do ... while(0)`, where the same `continue` drops the packet.  The run
`epoll_hang` shows it as a violation of `EachEventHandled` ("handle each event",
`server/main.cpp:454`).

## 4. The models of the threaded server

### The message queue

`MsgQueue.tla` has the queue, the mutex and the set of threads in the condition
variable, and for each thread where it is in `push` or `pop`.  One action is one
step that other threads can see: taking the mutex, the body of a critical
section, the notification after it, going to sleep (`wait()` releases the mutex
and enqueues the thread in one step), a wakeup nobody asked for
(`WakeSpuriously`), and the second lock of `wait()`.  `sent` and `taken` are
history.  `Channel.tla` is what the queue promises: a FIFO from which each
message comes out once.

The run `msg_queue` (2 producers with 2 messages each, 2 consumers: the least
where a woken consumer loses its message to another one) checks `NoLostWakeup`,
`NeverReadsEmpty`, the refinement `ChannelSpec`, and `EverySentIsTaken` under weak
fairness of each thread, that is, the scheduler runs every thread that can go on.
A mutex is not fair under that, and need not be: the messages are finite, and
whichever consumer gets the mutex takes the message.

### The threads of the connections

`ThreadedServer.tla` has a `ClientConnection` per client with its three
threads (`reader`, `writer`, `keeper`), the thread that reads the tun (`found`), the
static tables (`status`, `connections`), `ipMutex`, and the kernel: `fd[c]` is the
number the object keeps for ever, `file[f]` whose socket has that number now.
This is what makes the module: threads use a number after another thread closed
it, and `accept()` gives the lowest free number to the next client.

* `read()` looks the number up when it is called (`CallRead`, `source`) and keeps the
  socket while it waits, for a header (`"read"`) or for the body of a packet
  (`"data"`), even if the number is closed meanwhile.
* After an error the previous `message` is handled again, an uninitialised one
  as any type (`Type`).
* `Write` looks the number up at each call.  A frame is two writes under
  `sendMutex`; a heartbeat is one.
* A second of the keepalive thread is two steps, `KeepTick` and `KeepTest`: the reader
  may store 0 between the increment and the test for a heartbeat.
* `getFreeIP`, `setIpStatus` and `setConnectionWithIp` are critical sections of
  `ipMutex`, each one action; a reader that would lock it twice stays `stuck`
  with `ipMutex` set.
* `process` says why the process has ended: a failed assertion, an exception, a
  SIGPIPE, no address left.  Nothing happens afterwards.

The queues are sequences, which `MsgQueue` justifies.  Constants choose the
environment: `Serial` keeps requests for an address from overlapping
(`Assigning`: from `getFreeIP` to the table, or, where the reply failed, to the
end of the reader, which gives back what it never marked), `Leaves` lets clients
close their connection or be silent for `Limit` seconds.

| Property | What could go wrong |
|---|---|
| `TypeOK` | the heartbeat count exceeds its limit |
| `AssertsOnlyAfterClose` | an address is marked twice, or given back by a reader that was not cut off |
| `NoAssertFails` | the same, claimed without a condition: violated, see below |
| `FramesWhole` | a heartbeat, or another connection's packet, in the middle of a packet |
| `AddressFirst` | a packet overtakes the reply that says whose it is |
| `HolderIsFound` | packets go to the previous holder, or to nobody |
| `PoolSpec` | an address has two holders, or is free before its reader has ended |
| `NumberStaysOurs` | a descriptor of another client is closed |
| `NoSelfDeadlock` | the reader locks `ipMutex` in `setIpStatus` again |
| `GonePeerClosed` | a client that left is never disconnected |

| Run | Instance | Shows |
|---|---|---|
| `threaded_leave` | 2 clients, 2 descriptors, 2 addresses, requests one at a time; they send packets, leave or fall silent | an assertion fails only after a close, tables and descriptors stay right, frames whole and the address in front, although threads outlive their connection |
| `threaded_live` | 2 clients after each other on 1 descriptor, 2 addresses, with keepalives | `GonePeerClosed`, and the refinement `PoolSpec` |
| `threaded_race` | 2 clients that stay and talk, requests may overlap | expected violation |

Two clients are the least that share a table, and the second is the one that
gets the first one's number and address.  `Limit` and `Every` are 2 and 1, or 2
and 2, instead of 60 and 20: a heartbeat is sent before the limit is reached, or
with the last second.  `threaded_leave` has packets and `threaded_live`
keepalives, since what a client sends matters for the places of its reader there
and for the count here.  `Traffic` and `Packets` bound what is sent.

`FramesWhole` and `AddressFirst` have one exception, `Inherited`: the number of the
client was closed for another connection before.  The writer of that connection
goes on, and writes under its own mutex to the socket that has the number now.
The runs reach the exception, and it is no wider than that: while clients stay
there is none (`SteadyStreams` in section 7).

`PoolSpec` is the promise of the epoll server, made once more: `Lease` gives an
address to the one client whose reader has it and has not ended, so the pool's
`Grant` is `getFreeIP` and its `Close` is the end of the reader, wherever the mark in
`status` is set or cleared in between.  So the two
servers, one with a single thread and one with three threads per client,
implement one specification; requests that overlap break it here (the finding
below).

`AssertsOnlyAfterClose` is what is left of the assertions when requests do not
overlap.  The run reaches its exception: the keepalive thread closes the
number, the reader's reply fails, and `endReading` (line 214) gives back an address
that was never marked, which fails the assertion in `setIpStatus`.

`GonePeerClosed` assumes weak fairness of each thread; it holds although the
reader spins at the end of the stream, because `continue` (line 150) does not
reach the code that resets the count.

The address of a client that left does not always come back: if its last
message was a keepalive, the reader handles it again after each failing `read()`,
resets the count, and never ends.  No statement of the repository contradicts
this, so it is a hazard without a property.

### Finding

`clientConnection.cpp:176`: `getFreeIP` marks nothing, the address is marked after the
reply was sent (line 191).  Two read threads get the same address and the second
fails `assert(status[num] != s)` (line 22), which ends the server for everybody.
The run `threaded_race` shows it as a violation of `NoAssertFails`.

## 5. The model of the single-client server

`DroidServer.tla` is `main()` of `cy/DroidOver6Server.c`: `pc` says whether it waits,
handles a batch, or how it ended (`failed`, `finish` as the labels of the code, or
`sigpipe`).  A batch is the sequence of event parts in the order in which `main()`
looks at them, `EPOLLERR`, `EPOLLIN`, `EPOLLOUT` of the socket and `EPOLLIN`,
`EPOLLOUT` of the tun, either descriptor first.

| Code | Model |
|---|---|
| `over6PacketBuffer`, `ipBuffer`, `ipBufferRemain` | `inbuf`, `outbuf`, `remain` |
| `readToBuf` on the tun, on the socket | `TunRead`, `Over6Read` (a full buffer counts as the end of the client, as in lines 90 and 277) |
| one turn of the loop in `over6Handle`, its return | `HandleMessage`, `HandleReturns` |
| `rawToOver6`, without and with an open frame | `BeginFrame`, `ContinueFrame`, and `WriteToReset` |
| heartbeat after the batch | `Heartbeat` |

Bytes are counted in units.  A message of the client arrives in two halves,
which is what makes reassembly happen; a packet of the tun, a header, a
heartbeat and a reply are one unit each.  `Write` takes as many units as the send
buffer has space for: a frame may end anywhere, and the rest is written
later, behind packets that came meanwhile.

| Property | What could go wrong |
|---|---|
| `TypeOK` | a buffer is overrun, or the frame owes more than is stored |
| `FramesWhole` | a heartbeat, a reply or the next header gets into an open frame |
| `TunInOrder` | a packet is lost, sent twice or overtaken at a partial write: what the client has read, what is on the wire, in `outbuf` and in the tun are the packets in their order |
| `MessengerSpec` | a message is handled twice, lost or out of order |
| `MessageHandled` | a message stays in the buffer |
| `PacketForwarded` | `EPOLLOUT` is not asked for again, and a rest stays |

The run `droid_server` has 2 messages, 4 packets and buffers of 3 units: a message
and a half fit in, so a message is split over two reads; a header and two
packets go out, so a frame of three packets is written in parts with a fourth
behind it.  `HEARTBEAT` is 0, so that a heartbeat may be due at any turn.

A write to a connection that was reset returns -1, which lines 155 to 160 subtract
(`WriteToReset`): `remain` and `outbuf` grow by a unit, and main() ends with the
event of the reset.  `TypeOK` and `TunInOrder` are exact about that: the buffer
keeps its size, and the order is claimed, while there is somebody to read.

Assumptions about the outside: `LowWaterAssumption`, epoll reports `EPOLLOUT`
when at least two units, a header and the beginning of a packet, are free (on
Linux, a good part of the buffer); the client asks for its address first and
once, as the native client does; no packet comes out of the tun before the
server handled a message, since nobody knows the address.  Without the last two
a reply could be written inside a frame: `over6Handle` does not look at
`ipBufferRemain`.

Fairness: `WF(Server)`, the thread runs; the clock and the client owe nothing.
`PacketForwarded` has a client that reads as its premise, and both liveness
properties end with the end of main() (`Ended`).

### Finding

`DroidOver6Server.c:278`: `readToBuf` returns 0 without reading when the buffer is
full (line 90), and main() takes 0 for the end: it prints `INFO client
disconnected` and stops, although the client is connected and only sent faster
than the tun took its packets.  The run `droid_full` shows it as a violation of
`FinishedByClient`.

## 6. The models of the native client and the service

`VpnClient.tla` is `vpn_main` and the handlers of `proto.cpp`.  `Poll` takes the ready
descriptors in the order of `fds`; then `Recv` and one action for each kind of
message (`handle_socket`), one for each command (`handle_command`; the descriptor
behind `SET_TUN` is read byte by byte, `SetTunByte`), `Tunnel` (`handle_tunnel`), and
an action for each way to the exit, all of them `NativeEnds`.  What the server sends
after its reply gets its kind where it is read (`Recv`), which saves states and
loses nothing.  The heartbeat of the client may be due at any `Poll`; what remains of
it is that it fails on a connection that was reset, and may fail once the server
has closed, since the first write is answered with a reset (`WriteMayFail`).

One kind is `ZERO_LENGTH`, the heartbeat of the threaded server, whose header has
the length 0 (`clientConnection.cpp:107`).  `handle_socket` never consumes it: the
loop in lines 101 to 147 goes on for ever (`Spinning`, `Spins`), and neither EXIT nor
the timeout is looked at again.

`VpnService.tla` extends it with `MyVpnService.java`: four threads (`START`, `STOP`, the
timer's, and the main thread with `onDestroy`), whose places are in `at`, over
the fields `vpnThread`, `timer`, `vpnInterface`, `instance` (null or not).  One
action is what a thread does between two reads or writes of something shared: a
field that is tested and then used is read twice.  When the second read finds
null, `NullUsed`, the app ends.  `StopVPN(p)` is one definition for its three
callers.  `establish()` may return null (`Establish`), after which `getFd()` throws.
The two meet on two pipes: `cmds`, one element per byte (a command is
a byte, an int is `IntBytes` bytes), and `answers`, one element per value.

| Property | What could go wrong |
|---|---|
| `AnswersMatch` | START reads counters as its configuration, or the timer the configuration as counters |
| `CommandsAligned` | a command between `SET_TUN` and the descriptor is taken for a part of it, and the rest for commands |
| `StartReturns` | START waits for ever for an answer |
| `ClientEnds` | the client spins at the end of the stream, or waits for bytes after EXIT |
| `InterfaceReleased` | the phone keeps routes into a tun that nobody reads: the timer misses the end of the client, or STOP waits for a client that spins |

The run `vpn_service` has a server that replies and sends one more message,
closes or resets at any time; the timeout is 0, the least that passes; ints have
two bytes and answers two counters, the least that can be cut in half
(`CommandsAligned` and `AnswersMatch` are proved for any number).  START is
pressed once, STOP any number of times, one after another.

Assumptions about the outside: the server has replied before it sends
anything else; `onDestroy` runs once and after `stopSelf`; writes of the
client to the socket do not block; SIGPIPE is ignored, as Android does, so that
a write to a broken pipe or connection is an error; `join(10000)` may time out
at any time.

Fairness: weak fairness of the native client, of the clock, and of the threads,
where START with the main thread, and the timer with its task, are one
condition each: the second of a pair has nothing to do before the first is done.
Nobody has to press a button and the server owes nothing.

`ClientEnds` is stated up to `Spinning`: with the threaded server as its peer the
client does not end.  That is what the code does, and the weaker promise left is
that of `InterfaceReleased`: `stopVPN` joins the client's thread for ten seconds and
closes the interface itself, so STOP works even then.
The liveness properties end with an exception (`crashed`): STOP or the timer can
find a field null that the other has just cleared.  No statement of the
repository excludes that, so it is a hazard without a property, as is a START
that fails between `establish()` and its timer and leaves the interface open.

## 7. Proofs

`EpollServer_proofs.tla` proves, for any number of connections, descriptors
and addresses, all buffer sizes and every variant: `TypeOK`,
`TableMatchesSockets`, `AddressHeld`, `ReadNeverBlocks`, `NobodyToldUnasked`, and
that the server implements `AddressPool` (`PoolSpec`).  `AddressPool.tla`
proves that its actions keep one address per connection and hand nothing over;
together, `OneAddress` and `NeverHandsOver`.

Assumptions: `ConstAssumption` (sizes are positive, the pool has an address) and
`DistinctAssumption` (no descriptor stands for two things).

The invariant `IInv` joins the checked invariants with what makes them
inductive:

* `ReservedInv`: entries 0, 1 and the last are nobody's, any other entry is free
  exactly when it names no descriptor.
* `SocketInv`: a connection is in accept's queue, or behind one descriptor, or
  neither.
* `EventInv`: each event of the batch is still true when its turn comes.
* `RequestInv`: a connection has one request on its way at most, and none once
  it has its entry, unless the reply met a reset; then it is dead, and the next
  write to it ends the process.  Without this part nothing excludes two
  entries for one descriptor, and `TableMatchesSockets` is not inductive.
* `ToldInv`: only a connection that was accepted and has asked was told an
  address.

`StepCases` divides the 23 actions into quiet ones, `Connect`, `Accept`,
`FreedStep` and `IpRequest`; the parts about the table and the sockets are proved by
these five cases, the events and the requests action by action.

`EpollTraffic_proofs.tla` proves the other four safety properties on top of `IInv`.
Three of them hold for some servers and clients only, and the theorem says which:

* `NothingLeftBehind` if the tun takes every packet (`~TunWriteMayFail`): the
  branch for a failed write returns with the message still in the buffer.
  `DrainedInv` adds that a connection with an address has no request left, since
  a request at a full pool is what else stays in a buffer.
* `LivePeerKept` unless the server both takes a read of 0 bytes for an end of file
  and has a tun that may refuse packets (`~(FreeOnEOF /\ TunWriteMayFail)`): then
  messages nobody consumes could fill the buffer of a live client.  `HolderInv`
  says that an entry was announced to its connection, or the connection is dead.
* `FramesToHolder` for every server and every client, resets included.  `FrameInv`
  says who is to blame for what is left in the tun buffer: it begins with a packet
  for the address of a connection that refused it (`LeftByRefused`), and such a
  connection is dead and never takes a frame again (`RefusedGone`).
* `KeepaliveFindsUser` for clients that ask first (`~SlowStart`): `RequestFirst` says
  that until it is answered the request is in front of all that the server has
  of the connection, in the buffer or in the receive queue.

`BufferCases` divides the actions once more, by what they do to the messages.

Only the liveness properties of `EpollServer` are model-checked and no more.

`MsgQueue_proofs.tla` proves, for any sets of producers and consumers and any
number of messages, `TypeOK`, `NoLostWakeup`, `NeverReadsEmpty` and
`ImplementsChannel` (`Spec => ChannelSpec`), from `ThreadsAssumption` (some consumer,
and no thread on both ends).  Its invariant adds who holds the mutex
(`MutexInv`), that the waiting threads are those in the condition variable
(`WaitInv`), and that the queue is the part of `sent` that is not in `taken`
(`QueueInv`, with `RestGrows` and `RestShrinks` about sequences).  `NoLostWakeup` needs
`WaitInv`: a producer that finds nobody waiting has proved that all consumers are
awake.

`ThreadedServer_proofs.tla` proves every invariant of `ThreadedServer`, for any
number of clients, addresses, descriptors and messages.  `LeastFree` is the one
fact about the least free number, by well-foundedness of the naturals.  Some of
the theorems hold for part of the environment only, as the runs do, and say so
in their assumptions:

* For every environment: `TypeOK` (with all variables in `Typed`), and
  `NumberStaysOurs`, which is inductive on top of the types: a keepalive thread is
  the only one that closes its number, and `accept()` gives away what is closed.
* For every environment, overlapping requests and clients that leave included:
  `FramesWhole` and `AddressFirst`, on top of `NumbersInv`.  It says which
  connections were started and that a number names the socket of a connection
  until that connection's keepalive thread has closed it.  So a write
  reaches its own client, a connection that is closed, or a client that inherited
  the number (`WriteReaches`, `Own`); what is claimed of a client is claimed while it
  is on its own, and `InheritedStays` makes the exception permanent.  Then
  `WireInv`: what is on the wire to a client is what the holder of its mutex has
  begun (`Sound`).  And `FirstInv`: whoever is in the table, has frames queued or is
  about to be entered has its address (`Told`).
* `Serial` (requests do not overlap): `AddressUnique`, `HolderIsFound` and
  `NoSelfDeadlock`, from `TableInv`.  Its idea is that an address is either not
  marked yet, and then one reader is between `getFreeIP` and the mark, or it is
  marked by its one holder whose reader has not ended.  Without `Serial` all of it
  is false, which is the finding.
  From the same invariant `ImplementsPool` (`Spec => PoolSpec`), action by action: only
  `HandleRequest` grants, only `EndReading` closes, an end of the process stops
  the pool, and all else leaves `Lease` alone.  `NeverHandsOver` is what follows from the
  theorem about the abstract pool.
* `Serial`, and `AskInv` until the first keepalive thread has closed its number
  (`NobodyClosed`): what a client has sent and nobody has read has one request at
  most, and each body right behind its header (`Aligned`), so that the type of a
  message is never read out of a body; and who is about to mark an address has
  not marked it.  That gives `AssertsAfterClose`: an assertion can fail only after a
  close, because only then a reply fails and its reader gives back what it never
  marked.
* `~Leaves` (clients stay and talk): no keepalive thread gives up (`SteadyInv`), so
  nothing is ever closed.  Therefore `SteadyStreams`, the two properties of the
  streams without the exception, and with `Serial` `NoAssertFails`.

`Framing.tla` is a small theory without variables: a stream in which a unit may
announce a number of payload units, seen by a reader who is still owed `n`
and a writer who still owes `r` (`Frames(w, n, r)`).  `DataWritten`, `OtherWritten` and
`UnitRead` say what writing and reading one unit do to it.  Two proofs use it for
two different streams:

* `DroidServer_proofs.tla`, for any sizes, traffic and pattern of partial
  writes: `TypeOK`, `FramesWhole` (the bytes to the client are the stream, `FramesInv`),
  `TunInOrder` (`BatchInv`: an event comes once per batch, and the room epoll saw is
  still there), and `MessengerSpec`
  (`StreamInv`: the halves on their way are those of the messages sent and not
  handled yet).  `QuietInv` and `AskInv` exclude a reply in an open frame.
  `TunInOrder` comes from `PacketInv`, which numbers the packets: the client has read
  those up to `Len(received)`, the wire carries all from there to `Written`, one
  time each and in order, between headers and heartbeats (`Carries`), and those
  behind are in `outbuf` and then in the tun (`Follow`).  `CarriesMore` and
  `CarriesLess` are what a partial write and a read of the client do to it.
  `ForwardsAsChannel` is the refinement: towards the client the server is the
  same `Channel` as its messenger is towards the tun, and as the queue of the threaded
  server is.
* `VpnService_proofs.tla`, for any width of an int: `CommandsAligned`, where the
  command pipe is the stream, `SET_TUN` is a header and the bytes are its payload
  (`PipeInv`).  It needs `AloneInv`: until `startVPN` is done no other thread can
  write, because there is no timer yet and STOP does nothing without an
  instance.  Also `AnswersMatch`, from `AnswersInv`: the configuration is asked
  for once and its reply is in one place (`ConfigInv`), the task has one request
  for the counters on its way at most (`StateInv`), so what is in the pipe is
  what one thread has yet to read (`ContentInv`); whoever it is not for has not
  asked yet.

Model-checked only: all liveness properties, which are out of the prover's reach.
Every other property of the passing runs is also a theorem, under the constants
named above.

## 8. Not modelled

* Everywhere: opening sockets and tun, logging, the contents of packets, and the
  layout of the wire format (`4o6.h`, `proto.h`): byte order, text addresses,
  checksums.  Of the headers that announce fewer than five bytes, the one with
  length 0 is modelled where a program of the repository sends it to another:
  from the threaded server to the native client.
* Epoll server: reassembly of messages from parts (step 9), and socket buffers
  that are full, so that a write blocks (step 8).
* Threaded server: partial reads and writes, resets, and `Tun::tunWriter`: what is
  pushed to the tun leaves the model.
* Single-client server: a reply that is written in parts.
* Native client: messages in parts, writes that block, the values of the counters,
  and what a descriptor number means to the rest of the app when it is closed
  twice.
* Service: a second START, two STOPs at the same time, and `onDestroy` that the
  system calls without `stopSelf`.
* `MainActivity` keeps no protocol state; `client/cpp` is an empty `main`; the tests in
  the repository are generated templates.
