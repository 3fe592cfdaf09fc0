------------------------------- MODULE Tunnel -------------------------------
(***************************************************************************)
(* The life of a tunnel connection: xknx/io/tunnel.py with the transports  *)
(* and request objects it uses.  Four activities of one event loop share   *)
(* the object: the task that calls connect() and disconnect() ("user"),    *)
(* the reconnect task, the heartbeat task, and the callbacks of the        *)
(* transport.  Code between two awaits is one action.                      *)
(*                                                                         *)
(* The fields of the tunnel object are one record, tun, so that a method   *)
(* is an operator from records to records and methods call each other as   *)
(* in the code.  The gateway is external: it hands out channels, forgets   *)
(* them, answers, and closes connections; datagrams get lost.              *)
(***************************************************************************)
EXTENDS Naturals, FiniteSets

CONSTANTS
    MaxSockets,     \* bound: sockets opened
    MaxFaults       \* bound: losses, late answers and closes by the gateway

ASSUME ConstantsAssumption == MaxSockets \in Nat /\ MaxFaults \in Nat

Sockets  == 1..MaxSockets
Channels == 1..MaxSockets       \* one ConnectRequest is sent per socket
Beats    == {1, 2}              \* heartbeat tasks that may be alive
Callers  == {"user", "reconnect"}

Retries  == 3                   \* range(3) of _do_heartbeat_failed

VARIABLES
    tun,        \* the tunnel object, its transport and the frames it sent
    user,       \* where the task that calls connect() and disconnect() is
    answer,     \* the channel a pending Connect request was given, by caller
    gateway,    \* channels the gateway has open, with their sockets
    incoming,   \* frames on the way to the client
    sockets,    \* sockets opened so far
    faults,     \* faults so far
    windows,    \* history: the awkward moments at which a loss was reported
    config      \* tcp: TCPTunnel or SecureTunnel, otherwise UDPTunnel;
                \* auto_reconnect

vars == <<tun, user, answer, gateway, incoming, sockets, faults, windows, config>>

(* Frames of the client carry the socket they are sent from; frames of the *)
(* gateway the socket they are sent to.                                    *)
Frames == [type : {"ConnectRequest", "ConnectResponse", "DisconnectRequest",
                   "DisconnectResponse"},
           socket : Sockets, channel : 0..MaxSockets]

Frame(type, socket, channel) ==
    [type |-> type, socket |-> socket, channel |-> channel]

TunnelType ==
    [state     : {"DISCONNECTED", "CONNECTING", "CONNECTED"}, \* connection_manager
     transport : 0..MaxSockets,     \* transport.transport; 0 is None
     open      : SUBSET Sockets,    \* sockets that are open
     lost      : SUBSET Sockets,    \* sockets whose connection_lost was called
     channel   : 0..MaxSockets,     \* communication_channel; 0 is None
     reconnect : {"None", "created", "closing", "opening", "requesting",
                  "sleeping", "over"},      \* _reconnect_task
     cancelled : BOOLEAN,           \* _reconnect_task.cancel() was called
     beats     : [Beats -> 0..(Retries + 2)],
                                    \* heartbeat tasks: 0 ended, 1 sleeping,
                                    \* n + 1 waiting for the nth answer
     heartbeat : {0} \cup Beats,    \* _heartbeat_task; 0 is None
     schedule  : BOOLEAN,           \* _invalid_sequence_number_reconnect_task
     sent      : SUBSET Frames]     \* frames on the way to the gateway

Init ==
    /\ tun = [state |-> "DISCONNECTED", transport |-> 0, open |-> {}, lost |-> {},
              channel |-> 0, reconnect |-> "None", cancelled |-> FALSE, beats |-> [b \in Beats |-> 0],
              heartbeat |-> 0, schedule |-> FALSE, sent |-> {}]
    /\ user = "idle"
    /\ answer = [c \in Callers |-> 0]
    /\ gateway = {}
    /\ incoming = {}
    /\ sockets = 0
    /\ faults = 0
    /\ windows = {}
    /\ config \in [tcp : BOOLEAN, auto_reconnect : BOOLEAN]

-----------------------------------------------------------------------------
(* Methods that run without an await, as operators on the record.          *)

(* KNXIPTransport.stop                                                     *)
TransportStop(t) ==
    [t EXCEPT !.open = @ \ {t.transport}, !.transport = 0]

(* A request sent on a closed transport raises CommunicationError, which   *)
(* RequestResponse.start logs; it then counts as unanswered.               *)
Send(t, type, channel) ==
    IF t.transport = 0 THEN t
    ELSE [t EXCEPT !.sent = @ \cup {Frame(type, t.transport, channel)}]

(* _tunnel_established, start_heartbeat: the old task is not looked at.    *)
TunnelEstablished(t, channel) ==
    LET free == CHOOSE b \in Beats : t.beats[b] = 0 IN
    [t EXCEPT !.channel = channel, !.state = "CONNECTED",
              !.beats[free] = 1, !.heartbeat = free]

(* stop_heartbeat                                                          *)
StopHeartbeat(t) ==
    [t EXCEPT !.beats = [b \in Beats |-> IF b = t.heartbeat THEN 0 ELSE @[b]],
              !.heartbeat = 0]

(* _prepare_disconnect of UDPTunnel and of its base class.                 *)
PrepareDisconnect(t) ==
    [StopHeartbeat(t) EXCEPT !.schedule = FALSE, !.state = "DISCONNECTED"]

(* _tunnel_lost                                                            *)
TunnelLost(t) ==
    IF config.auto_reconnect
      THEN IF t.reconnect = "None" THEN [t EXCEPT !.reconnect = "created"] ELSE t
      ELSE LET p == PrepareDisconnect(t) IN
           TransportStop(IF t.channel # 0 THEN Send(p, "DisconnectRequest", t.channel)
                         ELSE p)

(* connect() up to its first await.                                        *)
Connecting(t) == [t EXCEPT !.state = "CONNECTING"]

(* The except clause of connect().                                         *)
ConnectFailed(t) == TransportStop([t EXCEPT !.state = "DISCONNECTED"])

(* Fault: the transport is not stopped.                                    *)
DisconnectedOpen(t) == [t EXCEPT !.channel = 0]

(* The end of _disconnect_request and what follows it.                     *)
Disconnected(t) == TransportStop([t EXCEPT !.channel = 0])

-----------------------------------------------------------------------------
(* connect(), by the user or in the reconnect task.                        *)

(* The socket is open; the ConnectRequest is sent.  A transport that the   *)
(* other caller opened meanwhile is overwritten, and stays open.           *)
Opened(t) ==
    Send([t EXCEPT !.transport = sockets + 1, !.open = @ \cup {sockets + 1}],
         "ConnectRequest", 0)

UserConnect ==
    /\ user = "idle"
    /\ user' = "opening"
    /\ tun' = Connecting(tun)
    /\ UNCHANGED <<answer, gateway, incoming, sockets, faults, windows, config>>

UserOpened ==
    /\ user = "opening"
    /\ sockets < MaxSockets
    /\ sockets' = sockets + 1
    /\ user' = "requesting"
    /\ tun' = Opened(tun)
    /\ UNCHANGED <<answer, gateway, incoming, faults, windows, config>>

(* Nothing is under way that could answer a pending Connect request.       *)
NoAnswer ==
    /\ \A f \in tun.sent : f.type # "ConnectRequest" \/ f.socket \notin tun.open
    /\ \A f \in incoming : f.type # "ConnectResponse" \/ f.socket \notin tun.open

(* connect() raises: OSError from the socket, a refusal, or no answer in   *)
(* time.  A timeout that beats an answer is one of the counted faults.     *)
ConnectRaises(where) ==
    /\ where \in {"opening", "requesting"}
    /\ IF where = "requesting" /\ NoAnswer
         THEN UNCHANGED faults
         ELSE faults < MaxFaults /\ faults' = faults + 1

UserConnectFails ==
    /\ ConnectRaises(user)
    /\ answer["user"] = 0
    /\ user' = "failed"
    /\ tun' = ConnectFailed(tun)
    /\ UNCHANGED <<answer, gateway, incoming, sockets, windows, config>>

UserConnected ==
    /\ user = "requesting"
    /\ answer["user"] # 0
    /\ user' = "up"
    /\ tun' = TunnelEstablished(tun, answer["user"])
    /\ answer' = [answer EXCEPT !["user"] = 0]
    /\ UNCHANGED <<gateway, incoming, sockets, faults, windows, config>>

-----------------------------------------------------------------------------
(* _reconnect.  A cancelled task takes no further step of its own.         *)

Running(where) == tun.reconnect = where /\ ~tun.cancelled

At(t, where) == [t EXCEPT !.reconnect = where]

(* Up to the first await.                                                  *)
ReconnectBegin ==
    /\ Running("created")
    /\ LET p == PrepareDisconnect(tun) IN
       tun' = CASE p.transport = 0 -> At(Connecting(p), "opening")
                [] p.transport # 0 /\ p.channel = 0 ->
                       At(Connecting(TransportStop(p)), "opening")
                [] OTHER -> At(Send(p, "DisconnectRequest", p.channel), "closing")
    /\ UNCHANGED <<user, answer, gateway, incoming, sockets, faults, windows, config>>

(* The Disconnect request was answered or timed out.                       *)
ReconnectClosed ==
    /\ Running("closing")
    /\ tun' = At(Connecting(Disconnected(tun)), "opening")
    /\ UNCHANGED <<user, answer, gateway, incoming, sockets, faults, windows, config>>

ReconnectOpened ==
    /\ Running("opening")
    /\ sockets < MaxSockets
    /\ sockets' = sockets + 1
    /\ tun' = At(Opened(tun), "requesting")
    /\ UNCHANGED <<user, answer, gateway, incoming, faults, windows, config>>

(* Fault: the first failed attempt is the last.                            *)
ReconnectGivesUp ==
    /\ ~tun.cancelled
    /\ ConnectRaises(tun.reconnect)
    /\ answer["reconnect"] = 0
    /\ tun' = At(ConnectFailed(tun), "over")
    /\ UNCHANGED <<user, answer, gateway, incoming, sockets, windows, config>>

(* An attempt fails; the next one follows after auto_reconnect_wait.       *)
ReconnectFails ==
    /\ ~tun.cancelled
    /\ ConnectRaises(tun.reconnect)
    /\ answer["reconnect"] = 0
    /\ tun' = At(ConnectFailed(tun), "sleeping")
    /\ UNCHANGED <<user, answer, gateway, incoming, sockets, windows, config>>

ReconnectRetry ==
    /\ Running("sleeping")
    /\ tun' = At(Connecting(tun), "opening")
    /\ UNCHANGED <<user, answer, gateway, incoming, sockets, faults, windows, config>>

ReconnectDone ==
    /\ Running("requesting")
    /\ answer["reconnect"] # 0
    /\ tun' = At(TunnelEstablished(tun, answer["reconnect"]), "over")
    /\ answer' = [answer EXCEPT !["reconnect"] = 0]
    /\ UNCHANGED <<user, gateway, incoming, sockets, faults, windows, config>>

(* CancelledError is raised at the await; no clause of _reconnect or       *)
(* connect() catches it.                                                   *)
ReconnectCancelled ==
    /\ tun.cancelled
    /\ tun.reconnect \notin {"None", "over"}
    /\ tun' = At(tun, "over")
    /\ answer' = [answer EXCEPT !["reconnect"] = 0]
    /\ UNCHANGED <<user, gateway, incoming, sockets, faults, windows, config>>

(* _reconnect_task_cleanup                                                 *)
ReconnectCleanup ==
    /\ tun.reconnect = "over"
    /\ tun' = [tun EXCEPT !.reconnect = "None", !.cancelled = FALSE]
    /\ UNCHANGED <<user, answer, gateway, incoming, sockets, faults, windows, config>>

Reconnect ==
    \/ ReconnectBegin \/ ReconnectClosed \/ ReconnectOpened \/ ReconnectFails
    \/ ReconnectRetry \/ ReconnectDone \/ ReconnectCancelled \/ ReconnectCleanup

-----------------------------------------------------------------------------
(* disconnect()                                                            *)

(* Fault: a reconnect task that sleeps or connects is not cancelled.       *)
StopReconnectNot(t) == t

(* _stop_reconnect                                                         *)
StopReconnect(t) == [t EXCEPT !.cancelled = (t.reconnect # "None")]

UserDisconnect ==
    /\ user \in {"up", "failed"}
    /\ LET p == StopReconnect(PrepareDisconnect(tun)) IN
       IF tun.channel # 0 /\ tun.transport # 0
         THEN /\ tun' = Send(p, "DisconnectRequest", p.channel)
              /\ user' = "closing"
         ELSE /\ tun' = Disconnected(p)
              /\ user' = "down"
    /\ UNCHANGED <<answer, gateway, incoming, sockets, faults, windows, config>>

(* The Disconnect request was answered or timed out.                       *)
UserDisconnected ==
    /\ user = "closing"
    /\ user' = "down"
    /\ tun' = Disconnected(tun)
    /\ UNCHANGED <<answer, gateway, incoming, sockets, faults, windows, config>>

-----------------------------------------------------------------------------
(* do_heartbeat and _do_heartbeat_failed.                                  *)

(* The loop goes back to sleep.                                            *)
Asleep(t, b) == [t EXCEPT !.beats[b] = 1]

(* _connectionstate_request without a channel raises; the except clause    *)
(* reports the loss and the loop goes on.                                  *)
HeartbeatAsk(b) ==
    /\ tun.beats[b] = 1
    /\ tun' = IF tun.channel = 0 THEN TunnelLost(tun) ELSE [tun EXCEPT !.beats[b] = 2]
    /\ UNCHANGED <<user, answer, gateway, incoming, sockets, faults, windows, config>>

GatewayHas(channel) == \E g \in gateway : g.channel = channel

HeartbeatAnswered(b) ==
    /\ tun.beats[b] >= 2
    /\ tun.transport # 0
    /\ GatewayHas(tun.channel)
    /\ tun' = Asleep(tun, b)
    /\ UNCHANGED <<user, answer, gateway, incoming, sockets, faults, windows, config>>

(* No answer in time, or an error status.                                  *)
HeartbeatFails(b) ==
    /\ tun.beats[b] >= 2
    /\ IF tun.transport # 0 /\ GatewayHas(tun.channel)
         THEN faults < MaxFaults /\ faults' = faults + 1
         ELSE UNCHANGED faults
    /\ tun' = IF tun.beats[b] = Retries + 2 \/ tun.channel = 0
                THEN TunnelLost(Asleep(tun, b))
                ELSE [tun EXCEPT !.beats[b] = @ + 1]
    /\ UNCHANGED <<user, answer, gateway, incoming, sockets, windows, config>>

Heartbeat(b) == HeartbeatAsk(b) \/ HeartbeatAnswered(b) \/ HeartbeatFails(b)

-----------------------------------------------------------------------------
(* Callbacks of the transport.                                             *)

(* A loss that is reported while the first connect() is under way, while   *)
(* disconnect() waits or after it, or when the reconnect task has its      *)
(* answer and its reference is not cleared yet, is noted.                  *)
Noted ==
    windows' = windows
        \cup (IF user \in {"opening", "requesting"} THEN {"startup"} ELSE {})
        \cup (IF user \in {"closing", "down"} THEN {"closing"} ELSE {})
        \cup (IF tun.reconnect = "over" \/ answer["reconnect"] # 0
                THEN {"cleanup"} ELSE {})

(* RequestResponse.response_rec_callback of a Connect: any ConnectResponse *)
(* answers every pending Connect, whichever socket it came from.           *)
ConnectResponse(f) ==
    /\ f.type = "ConnectResponse"
    /\ f.socket \in tun.open
    /\ answer' = [c \in Callers |->
                     IF \/ c = "user" /\ user = "requesting"
                        \/ c = "reconnect" /\ Running("requesting")
                       THEN f.channel ELSE answer[c]]
    /\ incoming' = incoming \ {f}
    /\ UNCHANGED <<tun, user, gateway, sockets, faults, windows, config>>

(* Fault: the loss of the own channel is answered and not reported.        *)
DisconnectRequestAnswered(f) ==
    /\ f.type = "DisconnectRequest"
    /\ f.socket \in tun.open
    /\ Noted
    /\ tun' = IF f.channel # tun.channel THEN TunnelLost(tun)
              ELSE [tun EXCEPT !.channel = 0]
    /\ incoming' = incoming \ {f}
    /\ UNCHANGED <<user, answer, gateway, sockets, faults, config>>

(* _disconnect_request_received.  If the response cannot be sent because   *)
(* the transport is gone, the exception leaves everything as it is.        *)
DisconnectRequestReceived(f) ==
    /\ f.type = "DisconnectRequest"
    /\ f.socket \in tun.open
    /\ Noted
    /\ tun' = IF f.channel # tun.channel THEN TunnelLost(tun)
              ELSE IF tun.transport = 0 THEN tun
              ELSE TunnelLost([tun EXCEPT !.channel = 0])
    /\ incoming' = incoming \ {f}
    /\ UNCHANGED <<user, answer, gateway, sockets, faults, config>>

(* TCPTransport._connection_lost, called by the protocol of socket s: it   *)
(* stops whatever transport there is.                                      *)
LostCallback(t, s) ==
    LET n == [t EXCEPT !.open = @ \ {s}, !.lost = @ \cup {s}] IN
    IF t.transport = 0 THEN n ELSE TunnelLost(TransportStop(n))

(* The peer closed socket s.                                               *)
ConnectionLost(s) ==
    /\ config.tcp
    /\ s \in tun.open
    /\ faults < MaxFaults
    /\ faults' = faults + 1
    /\ Noted
    /\ gateway' = {g \in gateway : g.socket # s}
    /\ tun' = LostCallback(tun, s)
    /\ UNCHANGED <<user, answer, incoming, sockets, config>>

(* transport.close() of socket s calls it as well, in a later iteration or *)
(* when the last data is written: the next connection may stand by then.   *)
LateConnectionLost(s) ==
    /\ config.tcp
    /\ s \in 1..sockets /\ s \notin tun.open \cup tun.lost
    /\ tun.transport # 0
    /\ faults < MaxFaults
    /\ faults' = faults + 1
    /\ Noted
    /\ tun' = LostCallback(tun, s)
    /\ UNCHANGED <<user, answer, gateway, incoming, sockets, config>>

(* UDPTunnel._tunnelling_request_received with an unexpected sequence      *)
(* number, and with the expected one.                                      *)
UnexpectedSequence ==
    /\ ~config.tcp
    /\ tun.transport # 0
    /\ \E g \in gateway : g.socket = tun.transport
    /\ faults < MaxFaults
    /\ faults' = faults + 1
    /\ Noted
    /\ tun' = [tun EXCEPT !.schedule = (@ \/ tun.reconnect = "None")]
    /\ UNCHANGED <<user, answer, gateway, incoming, sockets, config>>

ExpectedSequence ==
    /\ tun.schedule
    /\ \E g \in gateway : g.socket = tun.transport
    /\ tun' = [tun EXCEPT !.schedule = FALSE]
    /\ UNCHANGED <<user, answer, gateway, incoming, sockets, faults, windows, config>>

(* _schedule_tunnel_lost after its sleep.                                  *)
ScheduleFires ==
    /\ tun.schedule
    /\ tun' = TunnelLost([tun EXCEPT !.schedule = FALSE])
    /\ UNCHANGED <<user, answer, gateway, incoming, sockets, faults, windows, config>>

(* UDPTunnel.send_cemi after two tries without TUNNELLING_ACK.             *)
SendFailsTwice ==
    /\ ~config.tcp
    /\ user = "up"
    /\ tun.channel # 0
    /\ tun.reconnect = "None"
    /\ faults < MaxFaults
    /\ faults' = faults + 1
    /\ tun' = TunnelLost(tun)
    /\ UNCHANGED <<user, answer, gateway, incoming, sockets, windows, config>>

-----------------------------------------------------------------------------
(* The gateway and the network.                                            *)

GatewayAccepts(f) ==
    /\ f.type = "ConnectRequest"
    /\ tun' = [tun EXCEPT !.sent = @ \ {f}]
    /\ gateway' = gateway \cup {[channel |-> f.socket, socket |-> f.socket]}
    /\ incoming' = incoming \cup {Frame("ConnectResponse", f.socket, f.socket)}
    /\ UNCHANGED <<user, answer, sockets, faults, windows, config>>

(* The DisconnectResponse needs no frame: an answered and a timed out      *)
(* request end alike.                                                      *)
GatewayCloses(f) ==
    /\ f.type = "DisconnectRequest"
    /\ tun' = [tun EXCEPT !.sent = @ \ {f}]
    /\ gateway' = {g \in gateway : g.channel # f.channel}
    /\ UNCHANGED <<user, answer, incoming, sockets, faults, windows, config>>

(* The gateway gives up a channel, and says so or not.                     *)
GatewayDrops(g) ==
    /\ faults < MaxFaults
    /\ faults' = faults + 1
    /\ gateway' = gateway \ {g}
    /\ \/ incoming' = incoming \cup {Frame("DisconnectRequest", g.socket, g.channel)}
       \/ UNCHANGED incoming
    /\ UNCHANGED <<tun, user, answer, sockets, windows, config>>

(* A TCP server gives up the channel of a connection that was closed.      *)
GatewayNotices(g) ==
    /\ config.tcp
    /\ g.socket \notin tun.open
    /\ gateway' = gateway \ {g}
    /\ UNCHANGED <<tun, user, answer, incoming, sockets, faults, windows, config>>

(* A frame to a closed socket is dropped; a datagram may be lost.          *)
FrameLost(f) ==
    /\ f.socket \in tun.open => ~config.tcp /\ faults < MaxFaults
    /\ faults' = IF f.socket \in tun.open THEN faults + 1 ELSE faults
    /\ incoming' = incoming \ {f}
    /\ UNCHANGED <<tun, user, answer, gateway, sockets, windows, config>>

RequestLost(f) ==
    /\ ~config.tcp
    /\ faults < MaxFaults
    /\ faults' = faults + 1
    /\ tun' = [tun EXCEPT !.sent = @ \ {f}]
    /\ UNCHANGED <<user, answer, gateway, incoming, sockets, windows, config>>

-----------------------------------------------------------------------------

User == UserConnect \/ UserOpened \/ UserConnectFails \/ UserConnected

Network ==
    \/ \E f \in incoming : ConnectResponse(f) \/ DisconnectRequestReceived(f) \/ FrameLost(f)
    \/ \E f \in tun.sent : GatewayAccepts(f) \/ GatewayCloses(f) \/ RequestLost(f)

Next ==
    \/ User \/ UserDisconnect \/ UserDisconnected
    \/ Reconnect
    \/ \E b \in Beats : Heartbeat(b)
    \/ Network
    \/ \E s \in Sockets : ConnectionLost(s) \/ LateConnectionLost(s)
    \/ UnexpectedSequence \/ ExpectedSequence \/ ScheduleFires \/ SendFailsTwice
    \/ \E g \in gateway : GatewayDrops(g) \/ GatewayNotices(g)

Spec == Init /\ [][Next]_vars

(* The event loop runs tasks that are ready and its timers fire.  Frames   *)
(* arrive unless a counted fault loses them, and the gateway answers.      *)
(* Nothing makes the user call connect() or disconnect().                  *)
Fairness ==
    /\ WF_vars(UserOpened \/ UserConnectFails \/ UserConnected)
    /\ WF_vars(UserDisconnected)
    /\ WF_vars(Reconnect)
    /\ \A b \in Beats : WF_vars(Heartbeat(b))
    /\ WF_vars(Network)
    /\ WF_vars(ScheduleFires)

FairSpec == Spec /\ Fairness

-----------------------------------------------------------------------------
(* Properties.                                                             *)

TypeOK ==
    /\ tun \in TunnelType
    /\ user \in {"idle", "opening", "requesting", "up", "failed", "closing", "down"}
    /\ answer \in [Callers -> 0..MaxSockets]
    /\ gateway \subseteq [channel : Channels, socket : Sockets]
    /\ incoming \subseteq Frames
    /\ sockets \in 0..MaxSockets
    /\ faults \in 0..MaxFaults
    /\ windows \subseteq {"startup", "closing", "cleanup"}
    /\ config \in [tcp : BOOLEAN, auto_reconnect : BOOLEAN]

(* The tunnel works: frames can go both ways on a channel the gateway has. *)
Usable == tun.state = "CONNECTED" /\ tun.transport # 0 /\ GatewayHas(tun.channel)

(* A tunnel whose state is CONNECTED has a channel and a socket, or its    *)
(* reconnect is in progress: _tunnel_lost() takes a reference to the       *)
(* reconnect task for a reconnect that is under way (tunnel.py:157-168).   *)
LossNoticed ==
    windows = {} /\ tun.state = "CONNECTED" =>
        \/ tun.channel # 0 /\ tun.transport # 0
        \/ tun.reconnect \notin {"None", "over"}

(* No task and no socket is forgotten: the one heartbeat task is the one   *)
(* stop_heartbeat() can cancel and beats only while CONNECTED, and what is *)
(* open can be closed by transport.stop().                                 *)
NothingForgotten ==
    windows = {} =>
        /\ \A b \in Beats :
              tun.beats[b] # 0 => b = tun.heartbeat /\ tun.state = "CONNECTED"
        /\ tun.open \subseteq {tun.transport}

Down == tun.state = "DISCONNECTED" /\ tun.open = {}

(* "Will disconnect from tunneling devices" (docs/xknx.md:95): when        *)
(* disconnect() has returned, or connect() has raised CommunicationError,  *)
(* the tunnel is down, stays down and nothing goes on in the background,   *)
(* unless a loss was reported while the call was under way.                *)
ClosedStaysDown == windows = {} /\ user \in {"down", "failed"} => Down

(* Once the faults are over, whenever they happened, a tunnel that was not *)
(* closed is usable for good or, without auto_reconnect, closed and        *)
(* reported as such.                                                       *)
Settles ==
    <>[](user = "up" => Usable \/ (~config.auto_reconnect /\ Down))

=============================================================================
