# xknx in TLA+

A specification of the core of xknx, an asyncio library that talks to a KNX
installation over KNX/IP. It models the code under `src/xknx`: the concurrent
parts at the granularity at which asyncio interleaves (the code between two
awaits is one action), the codecs as operators over octets. The gateway, the
network, the bus and the devices on it are the environment; they are modelled
from how the code uses them and are marked `external` in `PROJECT.json`.

Contents: the inventory of the system, the modules and how they correspond to
the code, the runs, the fairness, the proofs, what the models leave out, and
the plan.

## Inventory

| Component | State | Operations | Hard behaviour | What makes it correct |
|---|---|---|---|---|
| `core/telegram_queue.py`, `xknx.py` | two queues with their unfinished counts, two tasks, a sleep task | put, start, join, stop, consume, send | the two tasks share the bookkeeping of `join()`; stop and restart; failed sends; rate limit | nothing lost, bus order kept, `join()` returns exactly when everything was handled, `stop()` returns |
| `io/tunnel.py`: `_Tunnel`, `UDPTunnel`, `TCPTunnel`, `SecureTunnel` | channel, transport, reconnect task, heartbeat task, sequence timer | connect, reconnect, disconnect, heartbeat, loss | four activities on one object; losses reported at any await | no loss goes unnoticed, one heartbeat, no leaked socket, disconnect is final, the tunnel recovers |
| `UDPTunnel.send_cemi`, `io/request_response` | sequence number, pending request, `_send_lock` | send, repeat, wait for reconnect, third try | lost, late and reordered datagrams; reconnect during a send | confirmed frames are on the bus, once per channel, in order; every call ends |
| `UDPTunnel._tunnelling_request_received` | expected counter, sequence timer | accept, confirm, discard, schedule a reconnect | duplicates, reordering, one octet of counter | each frame handed over once, in order, none left out; confirmed only then |
| `cemi/cemi_handler.py` | confirmation event | send_telegram, handle_cemi_frame | one event for all senders; confirmations arrive late | a send ends; what it confirms is discussed below |
| `management/management.py` and procedures | table of connections, sequence numbers, two futures | connect, request, disconnect, process | futures set by callbacks before the task wakes; repetitions; peer disconnects | own response, executed once, connection removed, right verdict |
| `io/routing.py` | ready event, timer task, counter of busy frames | connect, disconnect, send_cemi, routing_busy | several senders; a pause that a later frame replaces; the task is cancelled and started anew | no frame while the bus asks for silence, every sender resumes, the counter drains |
| `io/ip_secure.py`: `SecureSession` | key, sequence information both ways, keepalive task | connect, handshake, wrap, unwrap, status, stop | two tasks in `connect()`; replayed and damaged wrappers | no number twice with one key, only genuine numbers stored |
| `io/ip_secure.py`: `SecureGroup`, `SecureSequenceTimer` | clock difference, notify timer, awaited answer | synchronise, notify, wrap, unwrap | clocks that differ; late, lost and repeated frames; cancellation | replays bounded by the tolerance, timers genuine and together |
| `secure/data_secure.py` | number for sending, last number of each sender | receive, send, restart | order of check, decryption and update; numbers over a restart | taken once and in order, no number used twice |
| `core/state_updater.py`, `value_reader.py`, `task_registry.py` | trackers, jobs, semaphore | register, start, stop, read, update | cancellation while the semaphore is held or awaited; the connection changes meanwhile | every read and every job comes to run, nothing is left behind |
| `core/connection_manager.py` | connection state, callbacks | connection_state_changed | changes come from another thread and are applied later | who listens follows the state |
| `io/knxip_interface.py`, `io/connection.py` | interface | start, stop | | passes calls on; not modelled |
| `io/gateway_scanner.py`, `io/self_description.py` | answers so far | scan | timeout against limit | its frames are modelled, its state is not |
| `remote_value/`, `devices/` | values, timers of covers, switches and sensors | set, process, callbacks | timers against telegrams | reading of values is modelled, devices are not |
| `dpt/`, `telegram/`, `cemi/cemi_frame.py`, `knxip/`, `io/transport/` | the buffer of a TCP stream | to_knx, from_knx, parse | some eighty services, thirty frame bodies and their blocks, 141 datapoint types; widths, limits, rounding; a stream cut anywhere | decoding inverts encoding, streams are cut into the frames that were sent |
| `secure/keyring.py`, `mcp/`, `tools/`, `profile/`, `exceptions/` | none or read once | | | not modelled |

How they interact: the application and the devices put telegrams into
`xknx.telegrams`; the rate limiter of `TelegramQueue` gives the outgoing ones to
`CEMIHandler.send_telegram`, which gives frames to the tunnel or to routing and
waits for an L_DATA.con. The tunnel hands received frames to `CEMIHandler`,
which puts group telegrams into `xknx.telegrams` and gives the others to
`Management`. `XKNX.stop()` waits for the queue, then closes the tunnel.

The hazards of the code, each at its line with the properties that cover it, are
listed in `PROJECT.json`.

## Modules

| Module | Models |
|---|---|
| `TelegramQueue` | `telegram_queue.py` and `XKNX.start`, `join`, `stop` |
| `TelegramService` | the abstract specification of the queue: one FIFO per direction and a `join()` |
| `Tunnel` | the life of a tunnel connection: connect, reconnect, disconnect, heartbeat, transport callbacks |
| `TunnelSender` | `UDPTunnel.send_cemi` over an unreliable network |
| `TunnelReceiver` | `UDPTunnel._tunnelling_request_received` and the timer of a sequence gap |
| `Management` | point-to-point connections over the confirmations of `CEMIHandler`, and `nm_individual_address_check` |
| `Connections` | the table of the point-to-point connections with several callers |
| `MCManagement` | a behaviour of `Management` or of `Connections`, for one run |
| `Routing` | `_RoutingFlowControl` and the senders and the connection of `Routing` |
| `SecureGroup`, `MCSecureGroup` | `SecureSequenceTimer` in every member of a secure multicast group |
| `SecureSession` | a secure session with its tunnel's connects and reconnects |
| `DataSecure` | sequence numbers and acceptance of Data Secure telegrams |
| `Secure` | the composition: Data Secure telegrams through a secure session, with restarts |
| `StateUpdater` | trackers, semaphore and value readers |
| `TaskRegistry` | the jobs of the task registry |
| `Background`, `MCBackground` | the composition of both with the connection manager, the telegram queue and `XKNX.start`/`stop` |
| `Octets` | how a layout of fields is packed into octets and read back, and samples of its values |
| `Apci`, `Cemi`, `KnxIp`, `Dpt` | every service, frame, body and datapoint type as a layout |
| `Wire` | the composition of the codecs with the TCP transport |
| `*_proofs` | the theorems about the module of that name; those about `Connections` are in `Management_proofs`, about `SecureGroup` in `Routing_proofs`, about `SecureSession` and `DataSecure` in `Secure_proofs`, about `StateUpdater` and `TaskRegistry` in `Background_proofs` |

Operators that begin with the comment `Fault:` or `Mutant:` are mutated forms of the
definition that follows them. They are not part of any specification; a
property is worth its run only if replacing a definition by such a fault
violates it, and `PROJECT.json` lists which fault breaks which property.

### TelegramQueue

`telegrams`, `outgoing` and their `unfinished` counts are the two
`asyncio.Queue`s; `consumer` and `limiter` are the places where the two tasks
are suspended; `rateTask` is the sleep task of the rate limit, `current` the
telegram in the hands of the rate limiter. `user` is the task that calls
`start()` and `stop()`: `joining` waits in `join()`, `joined` was woken (the
queue may be filled again before it runs), `stopping` awaits the gathered
tasks. Handling an incoming or internal telegram has no await in the code and
is one step together with its `task_done()`; a send is two steps,
`BeginSend` and `SendReturn`, which also stands for a send that raised.

`TelegramService` says what the rest of the library may rely on: telegrams are
numbered in the order in which they are put, the first of a direction is handled
first, and `join()` returns with the step that handles the last one. The mapping
at the end of `TelegramQueue` collects the ids that are in the queues and in the
hands of the rate limiter, so that the second queue and both tasks disappear.

### Tunnel

The fields of the tunnel object are one record `tun`, so that a method without
an await is an operator from records to records and methods call each other as
in the code (`TunnelLost` calls `PrepareDisconnect`, which calls
`StopHeartbeat`). `user` and `tun.reconnect` are the places of the task that
calls `connect()`/`disconnect()` and of the reconnect task. `tun.beats` has
room for two heartbeat tasks, since nothing in the code prevents a second one;
`tun.heartbeat` is the one the object refers to. Frames carry the socket they
belong to, and a closed socket loses them. `config` is chosen in `Init`: UDP or
TCP, with or without `auto_reconnect`. `ConnectionLost` is the callback of a
connection that the peer closed; `LateConnectionLost` the one of a connection
that the code closed itself, which asyncio calls later: the code cannot tell it from
the first, so that it closes the connection that stands by then.

`windows` is history: it records that a loss was reported at a moment at which
the code does not cope with it: during the first `connect()`, while
`disconnect()` waits or after it, or when the reconnect task is over and its
done callback has not run. The safety properties of the passing run carry the
premise `windows = {}`; without it they are false (see the observations below).
Liveness (`Settles`) needs no premise.

### TunnelSender

One frame at a time, since `send_cemi` holds `_send_lock`. `pc` is where it is
suspended: `ready` in `_send_ready`, `first`, `second` and `third` waiting for a
TUNNELLING_ACK, `lost` waiting for the reconnect task. Requests and
acknowledges under way are bags: they are lost, delayed and reordered. Any ACK
ends the pending wait, as `response_rec_callback` compares neither channel nor
counter; which frame an ACK was sent for, and the frames that an ACK of another
request confirmed (`foreign`), are history. `ConfirmedOnBus` holds for all other frames.
The reconnect task is reduced to what it does to the channel, the
socket and the sequence number. `NoOldDatagram` says that no request and no ACK
arrives that is `SeqMod - 4` frames old, 252 in the code, or its counter would be
in use again; with the small modulus of the run this assumption has to be explicit.

### TunnelReceiver

Frames carry their index in the tunnel in addition to the counter; the code
sees the counter only. A datagram stays in the set `requests` while it lives, so
it may arrive never, once or often. `ModulusAssumption` is what one octet can
tell apart: datagrams live for less than `Modulus` frames, and the gateway gets
less than `Modulus` frames ahead.

### Management

`conn` is the `P2PConnection` object with its two futures; `Process` is
`P2PConnection.process` as an operator on it. `toTask` is the ordered stream of
telegrams and L_DATA.con that the client receives, `toDevice` the telegrams it
sends. Setting a future or the confirmation event, and the task that goes on
with it, are separate steps: telegrams that arrive in between are processed
first. Acknowledges are sent in the background, and their confirmation sets
the same event. `verdict` is what `nm_individual_address_check` returns when
the connection was its one. `conn.clean` is history: no request of the
connection has raised, and the device was done with the earlier connection
when it began.

### Connections

`Management._connections` with any number of callers. `at` is where a caller is:
in `connect()` between the look-up and the entry, with an open connection, or
in `disconnect()`. `alive` is `_connected` of the object that it created, `table`
whose object is stored for an address. What happens on a connection is
`Management`; here a call of `send_telegram` returns, raises or is cancelled.
`disconnect()` exists twice in the code: `Management.disconnect` takes whatever
object is stored, `P2PConnection.disconnect` the caller's own. Both remove the entry of
the address, whosever it is. `raced` is history: two callers have been between
look-up and entry together since nobody used the address. The premise of
`Exclusive` is that they have not; `EntryHasUser` needs none.

### Routing

Time is relative: how long ago something happened, up to what the code tells
apart, and how much of a delay is left. `FlowTick` lets time pass; a callback that
is due may still run late. `pc` is where a sender is suspended in `throttle()`;
`woken` is the moment between `Event.set()` and the sender, in which another
ROUTING_BUSY frame may arrive. `timer` is the task `_resume_sending` with its
three sleeps. `owed` and `own` are observers: what the bus has asked for, and
when a sender was last heard.

### SecureGroup

A member's timer is its host's clock plus `diff`, the code's
`_clock_difference`. The clocks of the hosts differ. The random delays are
abstracted: an armed timer fires at any time, so every order of notifies is
covered; `timekeeper` only chooses between two delays. A frame belongs to the
group or to a foreign one, which stands for its MAC. The network loses,
duplicates and reorders.

### SecureSession, DataSecure, Secure

The cryptography is ideal: a wrapper carries the key it was made with and a
number, and decrypts or does not. `task` is where the two tasks that may be
inside `connect()` are. `used` and `reused` observe every pair of key and number.
At the end of the numbers `send()` raises: the keepalive task ends, and `stop()`
leaves the session initialized and its connection open (`StopRaises`); `stopFailed` is the
history of that. The next `TcpConnected` then encrypts its request with the old
key and number 0, which is why `NonceUnique` excepts what follows. `New` is
the session object of the next tunnel.
`DataSecure` keeps the two tables; `Secure` sends telegrams of the first through
wrappers of the second, restarts XKNX (the numbers start from the clock, the
table from the keyring, and what was taken before is not compared with what is
taken after), and lets the server and the bus repeat and damage
frames.

### StateUpdater, TaskRegistry, Background

A tracker has at most one task; `task[v].at` is where it is suspended, `permits`
is the semaphore and `ahead` the order of those that wait for it, as pairs. A `ValueReader` is shielded and outlives the
task that awaits it, as in the code. `queued` and `outgoing` count what the
telegram queue holds, since a read waits for `outgoing_queue.join()`. A job is in
its delay, waiting for the connection, in its target or in its pause.
`Background` adds the state changes that wait in the event loop (`pending`),
`XKNX.start` with its failure, and `stop`, which stops registry and updater first and
then waits for the telegrams (`xknx = "stopping"`). Devices start and remove jobs at
any time, also then and when XKNX was never started; `jobs` are those the devices have,
and any part of them is started with XKNX; `requested` is the history of
the jobs they have started since the last start or stop, and no job but these runs
while XKNX is not started (`JobsFollow`).

### Octets, Apci, Cemi, KnxIp, Dpt, Wire

A layout is a sequence of parts (numbers of a width, bits, octets, a rest of any
length), and the classes of the code, which differ in their fields, lengths and
codes, are data: one record each. What a class checks or does beyond its layout
is an operator of its own (the property value services, the extended CEMI
frames, the DIBs, the float of DPT 9). `ToKnx` and `FromKnx` are separate, since
the code writes them separately. The inputs are the values that matter for a
field: its limits, their neighbours and a value between, for one field at a
time against three choices for all others. `Wire` sends each of them as one
frame, and every sequence of three frames of three kinds as a stream that TCP
cuts at every place.
`Lossless` names the inputs which the code itself does not keep (see the
observations).

## Runs

| Run | Constants | States | Shows |
|---|---|---|---|
| `TelegramQueue` | 4 telegrams, 2 starts, 1 stop without a start, rate limit | 40,647 | seven properties, among them the refinement of `TelegramService` |
| `Tunnel` | 6 sockets, 2 faults, all four configurations | 897,759 | losses are noticed, nothing is forgotten, closed stays down, the tunnel settles |
| `TunnelSender` | counters mod 5, 7 frames, 8 channels, 2 faults | 206,662 | confirmed frames are on the bus in order; every send ends |
| `TunnelReceiver` | counters mod 4, lifetime 2, window 2, 9 frames, 3 tunnels | 1,289 | order, acknowledges, timer |
| `Management` | numbers mod 2, 2 requests, 2 connections, 2 faults; 3 callers, 2 addresses | 304,028 | responses, execution, verdict, every call ends; the table of several callers |
| `Routing` | 2 senders with 2 frames, 3 busy frames of 1 or 3 ticks | 30,702 | pauses are respected, senders keep their rate and resume, the counter drains |
| `SecureGroup` | 2 members, clocks 2 apart, tolerance 2 and 1, 2 ticks, 1 wrapper, 1 fault | 722,339 | replay window, genuine timers, members take part, timers converge |
| `Secure` | 2 TCP connections, 3 numbers, 3 ticks, 1 device and 1 stranger | 71,198 | no number twice, genuine numbers, once and in order |
| `Background` | 2 values with 1 permit, or 2 jobs; 3 changes of the connection, 2 starts, 1 input | 375,696 | trackers and jobs follow, reads and jobs come to run |
| `Wire` | every class and its sampled values; three frames cut anywhere | 68,126 | decoding inverts encoding, streams are cut right, no short read |
| `WireUnsupported` | with frames of unknown services | violation | a frame that is not understood ends the stream |
| `SecureMalformed` | as `Secure` | violation | an authentic telegram with unknown content leaves the receive path by an exception |

Why the bounds are enough. *Telegrams*: with four every kind meets a full
second queue, a pause, a failed send and a stop, and one is left for the second
start. *Faults*: two faults put a second loss into the middle of the recovery
from the first; three were tried for `TunnelSender` with six frames. *Sockets
and channels*: enough for two faults never to be blocked by them, so that the
liveness properties are not vacuous at the bound. *Frames*: seven frames with counters
modulo 5 wrap around within one channel; nine in `TunnelReceiver` wrap twice.
*Requests*: two with numbers modulo 2 wrap around; three requests were checked
as well (1,969,340 states). *Callers*: a third one comes between two that race for an
address, and a second address shows that the others do not disturb it. *Routing*: a second busy frame shortens, replaces or
keeps the pause of the first, a third does so to the replacement, and both
senders wait at once; as in the code the cooldown is below the pause between two
frames and the slow-down above a decrement.
*SecureGroup*: the clocks differ by the whole tolerance, so a wrapper is ahead,
within and behind it; the second start of a member meets frames of its first.
*Secure*: two connections are what the first attempt and a reconnect need, and the
numbers overflow. *Background*: the values and the jobs do not touch each other, so
that a behaviour of the run has one or the other (`MCBackground`); with one permit a tracker that is cancelled while
another waits for it is the case that could lose it; three changes are a
connection, a loss and a connection. *Wire*: the fields of a class are
independent in the code, so that one varies at a time; flags that interact (the
kind of address and the frame format of CEMI) are varied together.

Deadlock is not checked: in every model the application may stop using the
library, and the bounds end all others.

### What the violations show

* `WireUnsupported`: `TCPTransport.data_received_callback` catches
  `CouldNotParseKNXIP` and then reads `next_frame_part`, which was not assigned
  (tcp_transport.py:114). The error leaves the callback; what follows in the same
  chunk is lost and asyncio closes the connection.
* `SecureMalformed`: `APCI.from_knx` of a decrypted telegram raises
  `ConversionError` (data_secure.py:218); `CEMIHandler` expects `DataSecureError`
  only, and the guard that keeps malformed frames from the receive loop is around
  the parsing of the frame before.

### Observations

What else was met while modelling. The models behave as the code does; premises
of properties, `Lossless` and history variables mark these cases.

* Telegram queue: after `stop()` `_rate_limiter` refers to a cancelled sleep task,
  which the first bus telegram after the next `start()` awaits: the rate limiter
  ends (telegram_queue.py:185). A `stop()` without a running queue leaves a
  `None` that ends the next consumer (:132).
* Tunnel: `disconnect()` cancels the reconnect task before it awaits its
  DisconnectResponse (tunnel.py:224, :226). A loss reported in between creates a new
  one (:165) that nothing cancels: it opens the tunnel after `disconnect()` has
  returned, and leaves a tunnel whose application believes it closed, although
  docs/xknx.md:95 says that `stop()` will disconnect. One during the first
  `connect()` leaves a reconnect task although `connect()` raises (tunnel.py:139); one
  between the end of the reconnect task and its done callback is ignored until
  the next heartbeat (:159). A late duplicate older than one frame starts the
  sequence timer and may tear down a healthy tunnel (:673).
* Sender: the second try does not wait for a reconnect that began during the
  first one, and the frame is dropped (tunnel.py:546). ACKs are matched by type only
  (request_response.py:76): when both requests of a repeated frame are acknowledged, the
  second ACK ends the request of the next frame, which may then be lost, although a
  confirmation "shall be awaited before sending the next telegram" (tunnel.py:522).
* Management: a timeout after an acknowledge, and a refusal that is processed
  before the connection is registered, both count as "nothing received"
  (nm_individual_address_check.py:37); a response that arrives after its request
  has raised answers the next one (management.py:373); an acknowledge or a
  disconnect for a future that is done raises `InvalidStateError` in the receive
  path (:280, :288). Two calls of `connect()` for one address that overlap both find no
  entry, await their TConnect and store their connection (:91, :99), although a
  test expects that there are "no 2 connections to the same IA"
  (test/management_tests/management_test.py:55): the object stored first hears
  nothing any more, and the `disconnect()` of either caller removes the entry of the other.
* Routing: senders that wait together are woken together and send without the
  pause between them; one that was woken sends although a new pause has begun;
  one that waits when `disconnect()` cancels the timer is never woken
  (routing.py:92).
* Secure multicast: cancelling `connect()` during `synchronize()` is swallowed, the
  state becomes CONNECTED and the timer stays unauthenticated (ip_secure.py:740);
  `disconnect()` during it ends CONNECTED with a closed socket; a second answer
  raises `InvalidStateError` (:789).
* Secure session: when the numbers are used up the closing frame of
  `SecureSession.stop()` cannot be encrypted (ip_secure.py:317); the exception leaves
  `stop()` before the session and the transport are closed, although it says "Stop
  session and transport" (:312), and the next `connect()` (:224) encrypts its
  SessionRequest with the old key and number 0. A connection lost during the first `connect()` lets two tasks
  into `connect()` of one session; `disconnect()` while reconnecting sends a
  DISCONNECT_REQUEST for a channel that is gone.
* Background: a failed `XKNX.start` leaves the callback of the registry registered;
  a shielded `ValueReader` outlives its cancelled tracker, so that more than
  `parallel_reads` reads may be under way. `stop()` cancels the jobs before it waits
  for the telegrams: a job that a device starts meanwhile is not cancelled
  (xknx.py:165).
* Codecs: `TCPTransport._buffer` is not cleared by `stop()`, so that a partial
  frame meets the next connection; unknown error codes and DIB types raise
  `ValueError` out of `KNXIPFrame.from_knx`; `CEMIFrame.from_knx` raises
  `IndexError` and `ValueError` where `CEMIHandler` expects two exceptions of its
  own (its last guard catches them); `CEMIMPropWriteResponse` drops error code 0.
* Datapoint types: classes of DPT 9 with the bound 670760 write it as 0x7FFF, which
  they refuse to read; characters that cannot be encoded are replaced; a date or
  time of DPT 19 that is given in part is dropped; packers of relative control do
  not check the step code; 8.010 loses one unit for 4,858 raw values, which was
  computed outside of the model.

## Fairness

Weak fairness of every step of a task that is ready, of every timer, and of the
delivery of frames: the event loop runs ready callbacks, timers fire, and
frames that no counted fault has lost arrive. The environment's answers are
fair because `Settles`, `SendEnds` and `RequestEnds` speak of the time after
the faults. In `TelegramQueue`, `SendReturn` is fair because
`CEMIHandler.send_telegram` ends with a timeout of three seconds once the
tunnel has taken the frame, which is what `SendEnds` shows. In `Routing` time
passes and due callbacks run; in `SecureGroup` armed timers fire and frames that
are not lost arrive; in `Background` sleeps and timeouts end, state changes are
applied and the telegram queue sends what it has, which the run `TelegramQueue`
shows. Nothing makes the
application call `start`, `stop`, `connect`, `disconnect` or `request`.

## Proofs

All proofs hold for every value of the constants that the named assumptions
admit. Each is an inductive invariant with `Init => Inv`,
`Inv /\ [Next]_vars => Inv'` and `Inv` implying the property; TLC has checked
every such invariant on a small instance. All safety properties of the runs are
proved, but for those of `Wire`. Four theorems are about properties that are stated in
the modules and that the runs do not check again: `ClosedIsRemoved`, `Exclusive`,
`KeepaliveWhileInitialized` and `PermitsConserved`; TLC has
checked them on the same instances.

* **TelegramQueue_proofs** (`TypeCorrect`, `AccountingExact`, `JoinSound`,
  `SendOrder`, `StopHandles`, `ServiceImplemented`). `Accounting` alone is not
  inductive: that `unfinished` counts the `None` of a stop once needs to know
  where the two tasks can be together and that `None` is the last element of the
  second queue (`Control`). `JoinMeansHandled` follows from `Conservation`: every
  telegram that was put is handled, in one of the queues or in the hands of the
  rate limiter. `SentInOrder` needs the order over all places (`Ordered`): sent,
  held, second queue, first queue. The type invariant contains that the counts
  stay natural numbers, where `task_done()` would raise `ValueError`.
  `StopDrains` needs `Stopping`: from `PutNone` until the consumer takes it there
  is one `None` in `xknx.telegrams`, and what lies behind it was put later.
  `ServiceImplemented` is the refinement of `TelegramService`, step by step: a
  step that handles a telegram handles the first of its direction (`Ordered`),
  and it empties the service exactly when the count becomes zero
  (`CountIsExact`, from `Accounting` and `Stopping`); of the other steps only
  `Put` and a `Stop` that has to wait are visible.
* **Tunnel_proofs** (`TypeCorrect`, `LossesAreNoticed`, `NoneIsForgotten`,
  `DownForGood`). For the last three, the
  invariant `Good` relates the places of the two tasks to the fields of the tunnel
  (`Phases`, `Reconnecting`): which of them may have a socket, when the state can
  be CONNECTED, and that only a cancelled reconnect task is alive once
  `disconnect()` has begun. It holds as long as `windows` is empty; since
  `windows` only grows, `windows = {} => Good` is inductive. The
  properties do not hold in behaviours in which a loss was reported at one of
  these moments. `TypeCorrect` holds in all behaviours, and it is more than
  bookkeeping: it says that the two places of `tun.beats` suffice, so that never more than
  one heartbeat task of an earlier connection is left behind. It needs `Room`:
  until the first `connect()` has returned no task is left behind, and none is
  alive while the reconnect task makes its attempts; later a place is free
  whenever that task attempts or the tunnel refers to no heartbeat.
* **TunnelSender_proofs** (`TypeCorrect`, `FramesInOrder`,
  `ConfirmedFramesOnBus`). The code sees
  counters modulo `SeqMod` only. `Multiple(x)` says that `x` is a multiple of
  `SeqMod`; the invariant carries it for the difference between every counter
  and the index of its frame, and a multiple of `SeqMod` that is smaller than
  `SeqMod` is zero (`MultipleSmall`). An ACK of another request may confirm a frame
  that the gateway never gets, so that the sender runs ahead of it. How far is
  bounded (`Ahead`): as long as an ACK can do that it is for a frame the gateway has
  accepted (`AcksKnown`, `AcksUpTo`) and younger than `SeqMod - 4` frames; a failed third
  try and a cancelled reconnect add one each, never more than three (`Gap`). So the
  gateway is less than a cycle behind, and `ConstantsAssumption` asks for
  `SeqMod >= 4` (256 in the code). From `AcksKnown` follows that an ACK with the counter of
  the frame in hand is one for this frame, which is therefore on the bus. Requests and ACKs are bags, whose counts are natural
  numbers throughout.
* **TunnelReceiver_proofs** (`TypeCorrect`, `FramesInOrder`, `AckSound`,
  `TimerOwned`). The invariant relates counters to indices by their distance from
  the gateway's frame: the counter of a frame that is `d` old is
  `Back(gateway.seq, d)`, and distances below `Modulus` are told apart
  (`BackInjective`). From `ModulusAssumption` follows that an equal counter means
  an equal index, hence that frames are taken over in order. For the code,
  `Modulus` is 256.
* **Management_proofs** (`TypeCorrect`, `ConnectionsRemoved`, `CheckSound`,
  `RequestsExecutedOnce`, `ResponsesMatch`, `EntriesHaveUsers`,
  `OneUserUnlessRaced`, `TableImplemented`). The verdict needs `HeardInv`: once a
  TDisconnect has reached the connection it stays unconnected until the task is
  through with it, so `disconnect()` raises and the exception replaces a result
  that said "free". `ExecutedOnce` needs `Delivery`: the requests on the way to
  the device are in order (`InOrder`), equal requests have equal numbers, a
  TConnect separates the requests of two connections, and a request that was
  executed can only arrive again with the number before the expected one
  (`Repeated`), for which the device sends no second answer. `ResponseMatches`
  needs `Matching`, for a connection that is clean: TData on the way to the client
  repeat the last response, and behind them there may be the one response to the
  current request (`OldThenNew`); the device has answered all requests or all but
  the current one (`Answered`). Two numbers in a row differ for every
  `SeqMod >= 2` (`IncDiffers`); the proof needs no more.
  Of `Connections`: `EntryHasUser` is inductive with the types; `Exclusive` needs
  it where a caller leaves, which may find that its entry is gone
  (`LeavingCalls`). `TableImplemented` is the refinement that ties the two
  modules together: under the mapping `OneCaller` every step of `Management` is a step
  of one caller in `Connections` or leaves the table as it is. What `Connections`
  abstracts, that a call returns, raises or is cancelled and that only a
  TDisconnect touches a stored object, is thus what the detailed module does.
* **Routing_proofs** (`BusyIsRespected`, the action property `OwnRateKept`,
  `FlowTypeCorrect`, `ReplayBounded`, `TimersAreGenuine`, `ConnectedListens`).
  What is still owed is at most what remains of the pause, and the timer of a
  pause does not end before it (`PauseCovers`); a sender that was woken and not
  overtaken was let go when nothing was owed (`WokenInTime`). `Distance` relates
  the time a sender still sleeps to the distance it has already. The types contain that
  the counter of busy frames never falls below zero, since a timer that counts
  down has something to count.
  Of `SecureGroup`: a timer that has accepted a wrapper has reached its value and goes on from there
  at the pace of the clock (`TimerReached`), hence the copy is too old after the
  tolerance. Every value under way, and every answer that a waiter holds, was
  read from a clock of the group (`ValuesGenuine`).
* **Secure_proofs** (`NoncesUnique`, `ComparedNumbersGenuine`,
  `TelegramsTakenOnce`, `KeepaliveFollows`). `SessionInv` says of a session for which
  `stop()` has not raised (`Regular`) that the newest key
  was used below `sequence` only (`NumbersFresh`), and that a task that opens a
  connection is alone in `connect()`, or the other one waits on a transport that is
  gone (`OneConnecting`); `DataInv` that the clock is not behind the numbers that were used,
  except for the one just used (`ClockAhead`), which is why a restart takes no
  number again, and that the table covers what was delivered (`TableCovers`).
  `SecureAssumption` contains that the keyring's numbers are numbers of devices.
* **Background_proofs** (`TrackersAreInStep`, `PermitsAreConserved`,
  `JobsAreInStep`). `TrackerInv` relates the three components: the updater
  listens exactly while XKNX is started (`UpdaterFollows`), whatever changes of
  the connection still wait in the event loop, and a task exists only for a
  registered value of an updater that is on (`TasksFollow`). All code that stops
  or restarts a task does it through `Replace`, so that one lemma each says what it
  does to the tasks and to the permits. `PermitsInv` counts: the trackers that
  hold a permit are a finite set, since a step adds at most
  one of them, although the set of values may be infinite. `JobsInv` adds to
  `JobsFollow` that no task is registered while XKNX is not started but those that
  devices have started.

Only model-checked:

* liveness (`RunningHandles`, `StopReturns`, `SendEnds` and the others): fairness
  and ENABLED are out of the prover's reach;
* `RoundTrip`, `StreamInOrder` and `NoShortRead` of `Wire`: they are about what
  recursive operators and folds compute, which takes induction over data;
* the behaviours of `Tunnel` with `windows # {}`, as said above, and those of
  `SecureSession` after a `stop()` that raised.

## Not modelled

* Devices: each is a set of remote values with callbacks of the application, and
  the timers of Cover, Switch, BinarySensor and ExposeSensor are independent of
  the rest; they would add modules, not interactions.
* `KNXIPInterface`, `GatewayScanner`, self description: they build, call and drop
  what is modelled and keep no state that outlives a call.
* DPT 14 and 29 and 8.010: binary floating point and 64 bits are outside of TLC's
  integers. Conversion of datapoint types to dictionaries and their lookup by
  name, addresses as strings and address filters: text.
* Keyring (an XML file that is read once), the MCP server, tools, constants.
* Callbacks of the application: they run within a step; one that changes the
  list of callbacks while it is iterated (telegram_queue.py:240) is not modelled.
* Time as a number in the tunnel and management modules: a timeout may fire at any
  time at which the code allows it, and counts as a fault when an answer is still
  under way.
* Two callers that share one `P2PConnection` object, broadcasts, and incoming
  connections (which are refused without state).
* The channel of an incoming TUNNELLING_REQUEST with a fixed local port
  (tunnel.py:648): `TunnelReceiver` opens a new socket for every tunnel.
* A session object that could not be stopped and was given up: its connection, which
  stays open, is not followed once the next tunnel has its own (`SecureSession!New`).
* Octets that no peer following the standard sends (zero-length DIBs, a total
  length below the header) are outside of the inputs of `Wire`. The loop over the
  description blocks (description_response.py:34 and its like) ends for a block of
  length zero as little as `KnxIp!Blocks` does.

## What the proofs leave

1. `Wire`: its three properties need induction over layouts and octets.
2. `Tunnel`: what still holds of `LossNoticed`, `NothingForgotten` and
   `ClosedStaysDown` after a loss at one of the moments in `windows`.
3. The types of `Secure`, `SecureGroup` and `Background` as theorems of their
   own; the invariants of their proofs contain what they need of them.
