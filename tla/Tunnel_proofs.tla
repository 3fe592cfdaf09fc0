--------------------------- MODULE Tunnel_proofs ---------------------------
(***************************************************************************)
(* Proofs about Tunnel for every number of sockets and of faults, in the   *)
(* behaviours in which no loss was reported at an awkward moment           *)
(* (windows = {}).  What such a moment leads to is shown by TLC.           *)
(***************************************************************************)
EXTENDS Tunnel, TLAPS

(* A heartbeat task is the one the tunnel refers to, and beats only while  *)
(* CONNECTED.                                                              *)
Beating ==
    \A b \in Beats : tun.beats[b] # 0 => b = tun.heartbeat /\ tun.state = "CONNECTED"

(* transport.stop() closes every open socket.                              *)
OneSocket == tun.open \subseteq {tun.transport}

(* What the place of the task that calls connect() and disconnect() says   *)
(* about the tunnel.                                                       *)
Phases ==
    /\ user \in {"idle", "opening"} => tun.transport = 0
    /\ user = "requesting" => tun.transport # 0
    /\ user \in {"idle", "opening", "requesting", "failed"} => tun.reconnect = "None"
    /\ user \in {"failed", "down"} => tun.transport = 0 /\ tun.state = "DISCONNECTED"
    /\ user \in {"closing", "down"} =>
           tun.state = "DISCONNECTED" /\ (tun.reconnect = "None" \/ tun.cancelled)
    /\ tun.cancelled => user \in {"closing", "down"}
    /\ tun.schedule => user = "up"

(* What the place of the reconnect task says about the tunnel, until it is *)
(* cancelled.                                                              *)
Reconnecting ==
    /\ tun.reconnect # "None" => config.auto_reconnect
    /\ ~tun.cancelled /\ tun.reconnect \in {"closing", "opening", "requesting", "sleeping"}
         => tun.state # "CONNECTED"
    /\ ~tun.cancelled /\ tun.reconnect \in {"opening", "sleeping"} => tun.transport = 0
    /\ answer["reconnect"] # 0 => tun.reconnect = "requesting"
    /\ ~tun.cancelled /\ answer["reconnect"] # 0 => tun.transport # 0

(* A tunnel that is CONNECTED belongs to a user whose connect() returned,  *)
(* and works as far as the client can know or is about to reconnect.       *)
ConnectedKnown ==
    tun.state = "CONNECTED" =>
        /\ user = "up"
        /\ tun.reconnect = "created" \/ (tun.channel # 0 /\ tun.transport # 0)

Good == TypeOK /\ Beating /\ OneSocket /\ Phases /\ Reconnecting /\ ConnectedKnown

-----------------------------------------------------------------------------
(* What the methods of the tunnel do with a record of the right type.      *)

LEMMA TransportStopped ==
  ASSUME NEW t \in TunnelType
  PROVE  /\ TransportStop(t) \in TunnelType
         /\ TransportStop(t).transport = 0
         /\ TransportStop(t).open = t.open \ {t.transport}
         /\ TransportStop(t).state = t.state
         /\ TransportStop(t).channel = t.channel
         /\ TransportStop(t).reconnect = t.reconnect
         /\ TransportStop(t).cancelled = t.cancelled
         /\ TransportStop(t).beats = t.beats
         /\ TransportStop(t).heartbeat = t.heartbeat
         /\ TransportStop(t).schedule = t.schedule
<1>. DEFINE rest == t.open \ {t.transport}
<1>1. rest \in SUBSET Sockets /\ 0 \in 0..MaxSockets
  BY ConstantsAssumption DEF TunnelType
<1>2. TransportStop(t) = [t EXCEPT !.open = rest, !.transport = 0]
  BY DEF TransportStop, TunnelType
<1>. HIDE DEF rest
<1>. SUFFICES /\ TransportStop(t) \in TunnelType
              /\ TransportStop(t).transport = 0
              /\ TransportStop(t).open = rest
              /\ TransportStop(t).state = t.state
              /\ TransportStop(t).channel = t.channel
              /\ TransportStop(t).reconnect = t.reconnect
              /\ TransportStop(t).cancelled = t.cancelled
              /\ TransportStop(t).beats = t.beats
              /\ TransportStop(t).heartbeat = t.heartbeat
              /\ TransportStop(t).schedule = t.schedule
  BY DEF rest
<1>. QED  BY <1>1, <1>2 DEF TunnelType

LEMMA Sent ==
  ASSUME NEW t \in TunnelType, NEW channel \in 0..MaxSockets,
         NEW type \in {"ConnectRequest", "DisconnectRequest"}
  PROVE  /\ Send(t, type, channel) \in TunnelType
         /\ Send(t, type, channel).transport = t.transport
         /\ Send(t, type, channel).open = t.open
         /\ Send(t, type, channel).state = t.state
         /\ Send(t, type, channel).channel = t.channel
         /\ Send(t, type, channel).reconnect = t.reconnect
         /\ Send(t, type, channel).cancelled = t.cancelled
         /\ Send(t, type, channel).beats = t.beats
         /\ Send(t, type, channel).heartbeat = t.heartbeat
         /\ Send(t, type, channel).schedule = t.schedule
  BY ConstantsAssumption DEF Send, TunnelType, Sockets, Frame, Frames

LEMMA HeartbeatStopped ==
  ASSUME NEW t \in TunnelType
  PROVE  /\ PrepareDisconnect(t) \in TunnelType
         /\ PrepareDisconnect(t).transport = t.transport
         /\ PrepareDisconnect(t).open = t.open
         /\ PrepareDisconnect(t).state = "DISCONNECTED"
         /\ PrepareDisconnect(t).channel = t.channel
         /\ PrepareDisconnect(t).reconnect = t.reconnect
         /\ PrepareDisconnect(t).cancelled = t.cancelled
         /\ \A b \in Beats : PrepareDisconnect(t).beats[b]
                                = IF b = t.heartbeat THEN 0 ELSE t.beats[b]
         /\ PrepareDisconnect(t).heartbeat = 0
         /\ PrepareDisconnect(t).schedule = FALSE
<1>. DEFINE kept == [b \in Beats |-> IF b = t.heartbeat THEN 0 ELSE t.beats[b]]
<1>1. kept \in [Beats -> 0..(Retries + 2)]
  BY DEF TunnelType, Retries
<1>2. PrepareDisconnect(t) = [t EXCEPT !.beats = kept, !.heartbeat = 0,
                                       !.schedule = FALSE, !.state = "DISCONNECTED"]
  BY DEF PrepareDisconnect, StopHeartbeat, TunnelType
<1>3. \A b \in Beats : kept[b] = IF b = t.heartbeat THEN 0 ELSE t.beats[b]
  OBVIOUS
<1>. HIDE DEF kept
<1>4. PrepareDisconnect(t).beats = kept
  BY <1>2 DEF TunnelType
<1>5. PrepareDisconnect(t) \in TunnelType
  BY <1>1, <1>2 DEF TunnelType
<1>. QED  BY <1>2, <1>3, <1>4, <1>5 DEF TunnelType

LEMMA Established ==
  ASSUME NEW t \in TunnelType, \E b \in Beats : t.beats[b] = 0,
         NEW channel \in 0..MaxSockets
  PROVE  /\ TunnelEstablished(t, channel) \in TunnelType
         /\ TunnelEstablished(t, channel).transport = t.transport
         /\ TunnelEstablished(t, channel).open = t.open
         /\ TunnelEstablished(t, channel).state = "CONNECTED"
         /\ TunnelEstablished(t, channel).channel = channel
         /\ TunnelEstablished(t, channel).reconnect = t.reconnect
         /\ TunnelEstablished(t, channel).cancelled = t.cancelled
         /\ \A b \in Beats : TunnelEstablished(t, channel).beats[b] # 0
                                => \/ b = TunnelEstablished(t, channel).heartbeat
                                   \/ t.beats[b] # 0
         /\ TunnelEstablished(t, channel).heartbeat \in Beats
         /\ TunnelEstablished(t, channel).schedule = t.schedule
<1>. DEFINE free == CHOOSE b \in Beats : t.beats[b] = 0
<1>1. free \in Beats /\ t.beats[free] = 0
  OBVIOUS
<1>. HIDE DEF free
<1>2. TunnelEstablished(t, channel) =
        [t EXCEPT !.channel = channel, !.state = "CONNECTED",
                  !.beats[free] = 1, !.heartbeat = free]
  BY DEF TunnelEstablished, free
<1>. DEFINE started == [t.beats EXCEPT ![free] = 1]
<1>3. started \in [Beats -> 0..(Retries + 2)]
  BY <1>1 DEF TunnelType, Retries
<1>4. \A b \in Beats : started[b] # 0 => b = free \/ t.beats[b] # 0
  BY DEF TunnelType
<1>5. TunnelEstablished(t, channel) =
        [t EXCEPT !.channel = channel, !.state = "CONNECTED",
                  !.beats = started, !.heartbeat = free]
  BY <1>2 DEF TunnelType
<1>. HIDE DEF started
<1>6. /\ TunnelEstablished(t, channel).beats = started
      /\ TunnelEstablished(t, channel).heartbeat = free
  BY <1>5 DEF TunnelType
<1>7. TunnelEstablished(t, channel) \in TunnelType
  BY <1>1, <1>3, <1>5 DEF TunnelType
<1>. QED  BY <1>1, <1>4, <1>5, <1>6, <1>7 DEF TunnelType

(* What a report of a loss does.                                           *)
LEMMA Lost ==
  ASSUME NEW t \in TunnelType, config \in [tcp : BOOLEAN, auto_reconnect : BOOLEAN]
  PROVE  /\ TunnelLost(t) \in TunnelType
         /\ TunnelLost(t).channel = t.channel
         /\ TunnelLost(t).cancelled = t.cancelled
         /\ config.auto_reconnect =>
              /\ TunnelLost(t).transport = t.transport
              /\ TunnelLost(t).open = t.open
              /\ TunnelLost(t).state = t.state
              /\ TunnelLost(t).reconnect = IF t.reconnect = "None" THEN "created"
                                           ELSE t.reconnect
              /\ TunnelLost(t).beats = t.beats
              /\ TunnelLost(t).heartbeat = t.heartbeat
              /\ TunnelLost(t).schedule = t.schedule
         /\ ~config.auto_reconnect =>
              /\ TunnelLost(t).transport = 0
              /\ TunnelLost(t).open = t.open \ {t.transport}
              /\ TunnelLost(t).state = "DISCONNECTED"
              /\ TunnelLost(t).reconnect = t.reconnect
              /\ \A b \in Beats : TunnelLost(t).beats[b]
                                    = IF b = t.heartbeat THEN 0 ELSE t.beats[b]
              /\ TunnelLost(t).heartbeat = 0
              /\ TunnelLost(t).schedule = FALSE
<1>1. CASE config.auto_reconnect
  BY <1>1 DEF TunnelLost, TunnelType
<1>2. CASE ~config.auto_reconnect
  <2>. DEFINE p == PrepareDisconnect(t)
              q == IF t.channel # 0 THEN Send(p, "DisconnectRequest", t.channel) ELSE p
  <2>1. p \in TunnelType /\ t.channel \in 0..MaxSockets
    BY HeartbeatStopped DEF TunnelType
  <2>2. /\ q \in TunnelType /\ q.transport = p.transport /\ q.open = p.open
        /\ q.state = p.state /\ q.channel = p.channel /\ q.reconnect = p.reconnect
        /\ q.cancelled = p.cancelled /\ q.beats = p.beats /\ q.heartbeat = p.heartbeat
        /\ q.schedule = p.schedule
    <3>. HIDE DEF p
    <3>. QED  BY <2>1, Sent
  <2>3. TunnelLost(t) = TransportStop(q)
    BY <1>2 DEF TunnelLost
  <2>. HIDE DEF q
  <2>4. /\ p.transport = t.transport /\ p.open = t.open /\ p.state = "DISCONNECTED"
        /\ p.channel = t.channel /\ p.reconnect = t.reconnect
        /\ p.cancelled = t.cancelled
        /\ \A b \in Beats : p.beats[b] = IF b = t.heartbeat THEN 0 ELSE t.beats[b]
        /\ p.heartbeat = 0 /\ p.schedule = FALSE
    BY HeartbeatStopped
  <2>. HIDE DEF p
  <2>. QED  BY <1>2, <2>2, <2>3, <2>4, TransportStopped
<1>. QED  BY <1>1, <1>2

-----------------------------------------------------------------------------
(* The invariant, one action at a time.  The windows only grow, so none    *)
(* was noted before a step after which there is none.                      *)

LEMMA GoodInit ==
  Init => Good
<1>. SUFFICES ASSUME Init PROVE Good
  OBVIOUS
<1>1. [b \in Beats |-> 0] \in [Beats -> 0..(Retries + 2)]
  BY DEF Retries
<1>2. tun \in TunnelType
  BY <1>1, ConstantsAssumption DEF Init, TunnelType
<1>3. TypeOK
  BY <1>2, ConstantsAssumption DEF Init, TypeOK
<1>4. Beating
  BY DEF Init, Beating
<1>5. /\ tun.state = "DISCONNECTED" /\ tun.transport = 0 /\ tun.open = {}
      /\ tun.reconnect = "None" /\ tun.cancelled = FALSE /\ tun.schedule = FALSE
      /\ answer["reconnect"] = 0 /\ user = "idle"
  BY DEF Init, Callers
<1>. QED
  BY <1>3, <1>4, <1>5
  DEF Good, OneSocket, Phases, Reconnecting, ConnectedKnown

LEMMA UserConnectGood ==
  Good /\ UserConnect => Good'
<1>. SUFFICES ASSUME Good, UserConnect PROVE Good'
  OBVIOUS
<1>1. /\ tun' \in TunnelType /\ tun'.state = "CONNECTING"
      /\ tun'.transport = tun.transport /\ tun'.open = tun.open
      /\ tun'.channel = tun.channel /\ tun'.reconnect = tun.reconnect
      /\ tun'.cancelled = tun.cancelled /\ tun'.beats = tun.beats
      /\ tun'.heartbeat = tun.heartbeat /\ tun'.schedule = tun.schedule
  BY DEF Good, TypeOK, UserConnect, Connecting, TunnelType
<1>2. TypeOK'
  BY <1>1 DEF Good, TypeOK, UserConnect
<1>3. Beating'
  BY <1>1 DEF Good, Beating, ConnectedKnown, UserConnect
<1>. QED  BY <1>1, <1>2, <1>3 DEF Good, OneSocket, Phases, Reconnecting, ConnectedKnown, UserConnect

LEMMA OpenedTunnel ==
  ASSUME NEW t \in TunnelType, sockets \in 0..MaxSockets, sockets < MaxSockets
  PROVE  /\ Opened(t) \in TunnelType
         /\ Opened(t).transport = sockets + 1
         /\ Opened(t).open = t.open \cup {sockets + 1}
         /\ Opened(t).state = t.state
         /\ Opened(t).channel = t.channel
         /\ Opened(t).reconnect = t.reconnect
         /\ Opened(t).cancelled = t.cancelled
         /\ Opened(t).beats = t.beats
         /\ Opened(t).heartbeat = t.heartbeat
         /\ Opened(t).schedule = t.schedule
<1>. DEFINE new == sockets + 1
            all == t.open \cup {new}
            o   == [t EXCEPT !.transport = new, !.open = all]
<1>1. new \in 0..MaxSockets /\ new \in Sockets
  BY ConstantsAssumption DEF Sockets
<1>2. all \in SUBSET Sockets
  BY <1>1 DEF TunnelType
<1>3. Opened(t) = Send(o, "ConnectRequest", 0) /\ 0 \in 0..MaxSockets
  BY ConstantsAssumption DEF Opened, TunnelType
<1>. HIDE DEF new, all
<1>4. /\ o \in TunnelType /\ o.transport = new /\ o.open = all
      /\ o.state = t.state /\ o.channel = t.channel /\ o.reconnect = t.reconnect
      /\ o.cancelled = t.cancelled /\ o.beats = t.beats /\ o.heartbeat = t.heartbeat
      /\ o.schedule = t.schedule
  BY <1>1, <1>2 DEF TunnelType
<1>. HIDE DEF o
<1>. DEFINE s == Send(o, "ConnectRequest", 0)
<1>5. /\ s \in TunnelType /\ s.transport = o.transport /\ s.open = o.open
      /\ s.state = o.state /\ s.channel = o.channel /\ s.reconnect = o.reconnect
      /\ s.cancelled = o.cancelled /\ s.beats = o.beats /\ s.heartbeat = o.heartbeat
      /\ s.schedule = o.schedule
  BY <1>3, <1>4, Sent
<1>. HIDE DEF s
<1>6. Opened(t) = s
  BY <1>3 DEF s
<1>7. /\ Opened(t) \in TunnelType /\ Opened(t).transport = new /\ Opened(t).open = all
      /\ Opened(t).state = t.state /\ Opened(t).channel = t.channel
      /\ Opened(t).reconnect = t.reconnect /\ Opened(t).cancelled = t.cancelled
      /\ Opened(t).beats = t.beats /\ Opened(t).heartbeat = t.heartbeat
      /\ Opened(t).schedule = t.schedule
  BY <1>4, <1>5, <1>6
<1>. QED  BY <1>7 DEF new, all

LEMMA UserOpenedGood ==
  Good /\ UserOpened => Good'
<1>. SUFFICES ASSUME Good, UserOpened PROVE Good'
  OBVIOUS
<1>1. /\ tun' \in TunnelType /\ tun'.transport = sockets + 1
      /\ tun'.open = tun.open \cup {sockets + 1} /\ tun'.state = tun.state
      /\ tun'.channel = tun.channel /\ tun'.reconnect = tun.reconnect
      /\ tun'.cancelled = tun.cancelled /\ tun'.beats = tun.beats
      /\ tun'.heartbeat = tun.heartbeat /\ tun'.schedule = tun.schedule
  BY OpenedTunnel DEF Good, TypeOK, UserOpened
<1>2. TypeOK'
  BY <1>1, ConstantsAssumption DEF Good, TypeOK, UserOpened
<1>3. sockets + 1 # 0
  BY DEF Good, TypeOK
<1>4. tun.open = {}
  BY DEF Good, TypeOK, OneSocket, Phases, UserOpened, TunnelType, Sockets
<1>5. Beating'
  BY <1>1 DEF Good, Beating, UserOpened
<1>. QED
  BY <1>1, <1>2, <1>3, <1>4, <1>5
  DEF Good, OneSocket, Phases, Reconnecting, ConnectedKnown, UserOpened

LEMMA ConnectRaisesCounted ==
  ASSUME NEW where, ConnectRaises(where), faults \in 0..MaxFaults
  PROVE  faults' \in 0..MaxFaults
  BY ConstantsAssumption DEF ConnectRaises

LEMMA FailedConnect ==
  ASSUME NEW t \in TunnelType
  PROVE  /\ ConnectFailed(t) \in TunnelType
         /\ ConnectFailed(t).transport = 0
         /\ ConnectFailed(t).open = t.open \ {t.transport}
         /\ ConnectFailed(t).state = "DISCONNECTED"
         /\ ConnectFailed(t).channel = t.channel
         /\ ConnectFailed(t).reconnect = t.reconnect
         /\ ConnectFailed(t).cancelled = t.cancelled
         /\ ConnectFailed(t).beats = t.beats
         /\ ConnectFailed(t).heartbeat = t.heartbeat
         /\ ConnectFailed(t).schedule = t.schedule
<1>. DEFINE d == [t EXCEPT !.state = "DISCONNECTED"]
<1>1. /\ d \in TunnelType /\ d.transport = t.transport /\ d.open = t.open
      /\ d.state = "DISCONNECTED" /\ d.channel = t.channel /\ d.reconnect = t.reconnect
      /\ d.cancelled = t.cancelled /\ d.beats = t.beats /\ d.heartbeat = t.heartbeat
      /\ d.schedule = t.schedule
  BY DEF TunnelType
<1>2. ConnectFailed(t) = TransportStop(d)
  BY DEF ConnectFailed
<1>. HIDE DEF d
<1>. QED  BY <1>1, <1>2, TransportStopped

LEMMA UserConnectFailsGood ==
  Good /\ UserConnectFails => Good'
<1>. SUFFICES ASSUME Good, UserConnectFails PROVE Good'
  OBVIOUS
<1>1. /\ tun' \in TunnelType /\ tun'.transport = 0
      /\ tun'.open = tun.open \ {tun.transport} /\ tun'.state = "DISCONNECTED"
      /\ tun'.channel = tun.channel /\ tun'.reconnect = tun.reconnect
      /\ tun'.cancelled = tun.cancelled /\ tun'.beats = tun.beats
      /\ tun'.heartbeat = tun.heartbeat /\ tun'.schedule = tun.schedule
  BY FailedConnect DEF Good, TypeOK, UserConnectFails
<1>2. user \in {"opening", "requesting"} /\ faults' \in 0..MaxFaults
  BY ConnectRaisesCounted DEF Good, TypeOK, UserConnectFails, ConnectRaises
<1>3. TypeOK'
  BY <1>1, <1>2 DEF Good, TypeOK, UserConnectFails
<1>4. Beating'
  BY <1>1, <1>2 DEF Good, Beating, ConnectedKnown, UserConnectFails
<1>. QED
  BY <1>1, <1>2, <1>3, <1>4
  DEF Good, OneSocket, Phases, Reconnecting, ConnectedKnown, UserConnectFails

LEMMA UserConnectedGood ==
  Good /\ UserConnected => Good'
<1>. SUFFICES ASSUME Good, UserConnected PROVE Good'
  OBVIOUS
<1>1. 1 \in Beats /\ \A b \in Beats : tun.beats[b] = 0
  BY DEF Good, Beating, Beats, ConnectedKnown, UserConnected
<1>2. answer["user"] \in 0..MaxSockets /\ answer' \in [Callers -> 0..MaxSockets]
      /\ answer'["reconnect"] = answer["reconnect"]
  BY ConstantsAssumption DEF Good, TypeOK, Callers, UserConnected
<1>3. /\ tun' \in TunnelType /\ tun'.transport = tun.transport
      /\ tun'.open = tun.open /\ tun'.state = "CONNECTED"
      /\ tun'.channel = answer["user"] /\ tun'.reconnect = tun.reconnect
      /\ tun'.cancelled = tun.cancelled /\ tun'.schedule = tun.schedule
      /\ \A b \in Beats : tun'.beats[b] # 0 => b = tun'.heartbeat
  BY <1>1, <1>2, Established DEF Good, TypeOK, UserConnected
<1>4. TypeOK'
  BY <1>2, <1>3 DEF Good, TypeOK, UserConnected
<1>. QED
  BY <1>2, <1>3, <1>4
  DEF Good, Beating, OneSocket, Phases, Reconnecting, ConnectedKnown, UserConnected

-----------------------------------------------------------------------------
(* The reconnect task.                                                     *)

LEMMA Placed ==
  ASSUME NEW t \in TunnelType,
         NEW where \in {"closing", "opening", "requesting", "sleeping", "over"}
  PROVE  /\ At(t, where) \in TunnelType
         /\ At(t, where).transport = t.transport
         /\ At(t, where).open = t.open
         /\ At(t, where).state = t.state
         /\ At(t, where).channel = t.channel
         /\ At(t, where).reconnect = where
         /\ At(t, where).cancelled = t.cancelled
         /\ At(t, where).beats = t.beats
         /\ At(t, where).heartbeat = t.heartbeat
         /\ At(t, where).schedule = t.schedule
  BY DEF At, TunnelType

(* A connect() of the reconnect task begins.                               *)
LEMMA AttemptBegins ==
  ASSUME NEW t \in TunnelType
  PROVE  /\ At(Connecting(t), "opening") \in TunnelType
         /\ At(Connecting(t), "opening").transport = t.transport
         /\ At(Connecting(t), "opening").open = t.open
         /\ At(Connecting(t), "opening").state = "CONNECTING"
         /\ At(Connecting(t), "opening").channel = t.channel
         /\ At(Connecting(t), "opening").reconnect = "opening"
         /\ At(Connecting(t), "opening").cancelled = t.cancelled
         /\ At(Connecting(t), "opening").beats = t.beats
         /\ At(Connecting(t), "opening").heartbeat = t.heartbeat
         /\ At(Connecting(t), "opening").schedule = t.schedule
  BY DEF At, Connecting, TunnelType

LEMMA DisconnectedTunnel ==
  ASSUME NEW t \in TunnelType
  PROVE  /\ Disconnected(t) \in TunnelType
         /\ Disconnected(t).transport = 0
         /\ Disconnected(t).open = t.open \ {t.transport}
         /\ Disconnected(t).state = t.state
         /\ Disconnected(t).channel = 0
         /\ Disconnected(t).reconnect = t.reconnect
         /\ Disconnected(t).cancelled = t.cancelled
         /\ Disconnected(t).beats = t.beats
         /\ Disconnected(t).heartbeat = t.heartbeat
         /\ Disconnected(t).schedule = t.schedule
<1>. DEFINE d == [t EXCEPT !.channel = 0]
<1>1. /\ d \in TunnelType /\ d.transport = t.transport /\ d.open = t.open
      /\ d.state = t.state /\ d.channel = 0 /\ d.reconnect = t.reconnect
      /\ d.cancelled = t.cancelled /\ d.beats = t.beats /\ d.heartbeat = t.heartbeat
      /\ d.schedule = t.schedule
  BY ConstantsAssumption DEF TunnelType
<1>2. Disconnected(t) = TransportStop(d)
  BY DEF Disconnected
<1>. HIDE DEF d
<1>. QED  BY <1>1, <1>2, TransportStopped

(* The heartbeat task is the only one: stop_heartbeat() ends it.           *)
LEMMA AllStopped ==
  ASSUME Good, NEW t, \A b \in Beats : t.beats[b] = IF b = tun.heartbeat THEN 0
                                                    ELSE tun.beats[b]
  PROVE  \A b \in Beats : t.beats[b] = 0
  BY DEF Good, Beating

LEMMA ReconnectBeginGood ==
  Good /\ ReconnectBegin => Good'
<1>. SUFFICES ASSUME Good, ReconnectBegin PROVE Good'
  OBVIOUS
<1>. DEFINE p == PrepareDisconnect(tun)
<1>1. /\ p \in TunnelType /\ p.transport = tun.transport /\ p.open = tun.open
      /\ p.channel = tun.channel /\ p.cancelled = tun.cancelled
      /\ p.state = "DISCONNECTED" /\ p.schedule = FALSE
  BY HeartbeatStopped DEF Good, TypeOK
<1>2. \A b \in Beats : p.beats[b] = 0
  BY HeartbeatStopped, AllStopped DEF Good, TypeOK
<1>3. /\ tun.reconnect = "created" /\ ~tun.cancelled /\ user = "up"
      /\ config.auto_reconnect /\ answer["reconnect"] = 0
  BY DEF Good, TypeOK, Phases, Reconnecting, ReconnectBegin, Running
<1>. DEFINE s == Send(p, "DisconnectRequest", p.channel)
<1>4. \/ p.transport = 0 /\ tun' = At(Connecting(p), "opening")
      \/ p.transport # 0 /\ p.channel = 0
           /\ tun' = At(Connecting(TransportStop(p)), "opening")
      \/ p.transport # 0 /\ p.channel # 0 /\ tun' = At(s, "closing")
  BY DEF ReconnectBegin
<1>. HIDE DEF p
<1>5. /\ s \in TunnelType /\ s.transport = p.transport /\ s.open = p.open
      /\ s.state = p.state /\ s.cancelled = p.cancelled /\ s.beats = p.beats
      /\ s.schedule = p.schedule
  <2>1. p.channel \in 0..MaxSockets
    BY <1>1 DEF TunnelType
  <2>. QED  BY <1>1, <2>1, Sent
<1>. HIDE DEF s
<1>6. /\ TransportStop(p) \in TunnelType /\ TransportStop(p).transport = 0
      /\ TransportStop(p).open = p.open \ {p.transport}
      /\ TransportStop(p).cancelled = p.cancelled
      /\ TransportStop(p).beats = p.beats /\ TransportStop(p).schedule = p.schedule
  BY <1>1, TransportStopped
<1>7. /\ tun' \in TunnelType /\ tun'.open \subseteq {tun'.transport}
      /\ tun'.state # "CONNECTED" /\ tun'.cancelled = tun.cancelled
      /\ tun'.reconnect \in {"opening", "closing"}
      /\ tun'.reconnect = "opening" => tun'.transport = 0
      /\ tun'.beats = p.beats /\ tun'.schedule = FALSE
  <2>1. CASE p.transport = 0 /\ tun' = At(Connecting(p), "opening")
    BY <1>1, <2>1, AttemptBegins DEF Good, OneSocket
  <2>2. CASE p.transport # 0 /\ p.channel = 0
               /\ tun' = At(Connecting(TransportStop(p)), "opening")
    BY <1>1, <1>6, <2>2, AttemptBegins DEF Good, OneSocket
  <2>3. CASE p.transport # 0 /\ p.channel # 0 /\ tun' = At(s, "closing")
    BY <1>1, <1>5, <2>3, Placed DEF Good, OneSocket
  <2>. QED  BY <1>4, <2>1, <2>2, <2>3
<1>8. TypeOK'
  BY <1>7 DEF Good, TypeOK, ReconnectBegin
<1>9. Beating'
  BY <1>2, <1>7 DEF Beating
<1>. QED
  BY <1>3, <1>7, <1>8, <1>9
  DEF Good, OneSocket, Phases, Reconnecting, ConnectedKnown, ReconnectBegin

LEMMA ReconnectClosedGood ==
  Good /\ ReconnectClosed => Good'
<1>. SUFFICES ASSUME Good, ReconnectClosed PROVE Good'
  OBVIOUS
<1>1. /\ Disconnected(tun) \in TunnelType /\ Disconnected(tun).transport = 0
      /\ Disconnected(tun).open = tun.open \ {tun.transport}
      /\ Disconnected(tun).cancelled = tun.cancelled
      /\ Disconnected(tun).beats = tun.beats
      /\ Disconnected(tun).schedule = tun.schedule
  BY DisconnectedTunnel DEF Good, TypeOK
<1>2. /\ tun' \in TunnelType /\ tun'.transport = 0
      /\ tun'.open = tun.open \ {tun.transport} /\ tun'.state = "CONNECTING"
      /\ tun'.reconnect = "opening" /\ tun'.cancelled = tun.cancelled
      /\ tun'.beats = tun.beats /\ tun'.schedule = tun.schedule
  BY <1>1, AttemptBegins DEF ReconnectClosed
<1>3. /\ tun.reconnect = "closing" /\ ~tun.cancelled /\ tun.state # "CONNECTED"
      /\ user = "up" /\ answer["reconnect"] = 0 /\ config.auto_reconnect
  BY DEF Good, TypeOK, Phases, Reconnecting, ReconnectClosed, Running
<1>4. TypeOK'
  BY <1>2 DEF Good, TypeOK, ReconnectClosed
<1>5. Beating'
  BY <1>2, <1>3 DEF Good, Beating
<1>. QED
  BY <1>2, <1>3, <1>4, <1>5
  DEF Good, OneSocket, Phases, Reconnecting, ConnectedKnown, ReconnectClosed

LEMMA ReconnectOpenedGood ==
  Good /\ ReconnectOpened => Good'
<1>. SUFFICES ASSUME Good, ReconnectOpened PROVE Good'
  OBVIOUS
<1>1. /\ Opened(tun) \in TunnelType /\ Opened(tun).transport = sockets + 1
      /\ Opened(tun).open = tun.open \cup {sockets + 1}
      /\ Opened(tun).state = tun.state /\ Opened(tun).cancelled = tun.cancelled
      /\ Opened(tun).beats = tun.beats /\ Opened(tun).schedule = tun.schedule
  BY OpenedTunnel DEF Good, TypeOK, ReconnectOpened
<1>2. /\ tun' \in TunnelType /\ tun'.transport = sockets + 1
      /\ tun'.open = tun.open \cup {sockets + 1} /\ tun'.state = tun.state
      /\ tun'.reconnect = "requesting" /\ tun'.cancelled = tun.cancelled
      /\ tun'.beats = tun.beats /\ tun'.schedule = tun.schedule
  BY <1>1, Placed DEF ReconnectOpened
<1>3. /\ tun.reconnect = "opening" /\ ~tun.cancelled /\ tun.state # "CONNECTED"
      /\ user = "up" /\ answer["reconnect"] = 0 /\ config.auto_reconnect
      /\ tun.transport = 0
  BY DEF Good, TypeOK, Phases, Reconnecting, ReconnectOpened, Running
<1>4. tun.open = {}
  BY <1>3 DEF Good, TypeOK, OneSocket, TunnelType, Sockets
<1>5. TypeOK'
  BY <1>2, ConstantsAssumption DEF Good, TypeOK, ReconnectOpened
<1>6. Beating'
  BY <1>2, <1>3 DEF Good, Beating
<1>. QED
  BY <1>2, <1>3, <1>4, <1>5, <1>6
  DEF Good, OneSocket, Phases, Reconnecting, ConnectedKnown, ReconnectOpened

LEMMA ReconnectFailsGood ==
  Good /\ ReconnectFails => Good'
<1>. SUFFICES ASSUME Good, ReconnectFails PROVE Good'
  OBVIOUS
<1>1. /\ ConnectFailed(tun) \in TunnelType /\ ConnectFailed(tun).transport = 0
      /\ ConnectFailed(tun).open = tun.open \ {tun.transport}
      /\ ConnectFailed(tun).state = "DISCONNECTED"
      /\ ConnectFailed(tun).cancelled = tun.cancelled
      /\ ConnectFailed(tun).beats = tun.beats
      /\ ConnectFailed(tun).schedule = tun.schedule
  BY FailedConnect DEF Good, TypeOK
<1>2. /\ tun' \in TunnelType /\ tun'.transport = 0
      /\ tun'.open = tun.open \ {tun.transport} /\ tun'.state = "DISCONNECTED"
      /\ tun'.reconnect = "sleeping" /\ tun'.cancelled = tun.cancelled
      /\ tun'.beats = tun.beats /\ tun'.schedule = tun.schedule
  BY <1>1, Placed DEF ReconnectFails
<1>3. tun.reconnect \in {"opening", "requesting"} /\ faults' \in 0..MaxFaults
  BY ConnectRaisesCounted DEF Good, TypeOK, ReconnectFails, ConnectRaises
<1>4. /\ ~tun.cancelled /\ tun.state # "CONNECTED" /\ user = "up"
      /\ answer["reconnect"] = 0 /\ config.auto_reconnect
  BY <1>3 DEF Good, TypeOK, Phases, Reconnecting, ReconnectFails
<1>5. TypeOK'
  BY <1>2, <1>3 DEF Good, TypeOK, ReconnectFails
<1>6. Beating'
  BY <1>2, <1>4 DEF Good, Beating
<1>. QED
  BY <1>2, <1>4, <1>5, <1>6
  DEF Good, OneSocket, Phases, Reconnecting, ConnectedKnown, ReconnectFails

LEMMA ReconnectRetryGood ==
  Good /\ ReconnectRetry => Good'
<1>. SUFFICES ASSUME Good, ReconnectRetry PROVE Good'
  OBVIOUS
<1>1. /\ tun' \in TunnelType /\ tun'.transport = tun.transport
      /\ tun'.open = tun.open /\ tun'.state = "CONNECTING"
      /\ tun'.reconnect = "opening" /\ tun'.cancelled = tun.cancelled
      /\ tun'.beats = tun.beats /\ tun'.schedule = tun.schedule
  BY AttemptBegins DEF Good, TypeOK, ReconnectRetry
<1>2. /\ tun.reconnect = "sleeping" /\ ~tun.cancelled /\ tun.state # "CONNECTED"
      /\ user = "up" /\ answer["reconnect"] = 0 /\ config.auto_reconnect
      /\ tun.transport = 0
  BY DEF Good, TypeOK, Phases, Reconnecting, ReconnectRetry, Running
<1>3. TypeOK'
  BY <1>1 DEF Good, TypeOK, ReconnectRetry
<1>4. Beating'
  BY <1>1, <1>2 DEF Good, Beating
<1>. QED
  BY <1>1, <1>2, <1>3, <1>4
  DEF Good, OneSocket, Phases, Reconnecting, ConnectedKnown, ReconnectRetry

LEMMA ReconnectDoneGood ==
  Good /\ ReconnectDone => Good'
<1>. SUFFICES ASSUME Good, ReconnectDone PROVE Good'
  OBVIOUS
<1>1. /\ tun.reconnect = "requesting" /\ ~tun.cancelled /\ tun.state # "CONNECTED"
      /\ user = "up" /\ answer["reconnect"] # 0 /\ config.auto_reconnect
      /\ tun.transport # 0
  BY DEF Good, TypeOK, Phases, Reconnecting, ReconnectDone, Running
<1>2. 1 \in Beats /\ \A b \in Beats : tun.beats[b] = 0
  BY <1>1 DEF Good, Beating, Beats
<1>3. /\ answer["reconnect"] \in 0..MaxSockets /\ answer'["reconnect"] = 0
      /\ answer' \in [Callers -> 0..MaxSockets]
  BY ConstantsAssumption DEF Good, TypeOK, Callers, ReconnectDone
<1>. DEFINE e == TunnelEstablished(tun, answer["reconnect"])
<1>4. /\ e \in TunnelType /\ e.transport = tun.transport /\ e.open = tun.open
      /\ e.state = "CONNECTED" /\ e.channel = answer["reconnect"]
      /\ e.cancelled = tun.cancelled /\ e.schedule = tun.schedule
      /\ \A b \in Beats : e.beats[b] # 0 => b = e.heartbeat
  BY <1>2, <1>3, Established DEF Good, TypeOK
<1>5. tun' = At(e, "over")
  BY DEF ReconnectDone
<1>. HIDE DEF e
<1>6. /\ tun' \in TunnelType /\ tun'.transport = tun.transport
      /\ tun'.open = tun.open /\ tun'.state = "CONNECTED"
      /\ tun'.channel = answer["reconnect"] /\ tun'.reconnect = "over"
      /\ tun'.cancelled = tun.cancelled /\ tun'.schedule = tun.schedule
      /\ tun'.beats = e.beats /\ tun'.heartbeat = e.heartbeat
  BY <1>4, <1>5, Placed
<1>7. TypeOK'
  BY <1>3, <1>6 DEF Good, TypeOK, ReconnectDone
<1>8. Beating'
  BY <1>4, <1>6 DEF Beating
<1>. QED
  BY <1>1, <1>3, <1>6, <1>7, <1>8
  DEF Good, OneSocket, Phases, Reconnecting, ConnectedKnown, ReconnectDone

LEMMA ReconnectCancelledGood ==
  Good /\ ReconnectCancelled => Good'
<1>. SUFFICES ASSUME Good, ReconnectCancelled PROVE Good'
  OBVIOUS
<1>1. /\ tun' \in TunnelType /\ tun'.transport = tun.transport
      /\ tun'.open = tun.open /\ tun'.state = tun.state /\ tun'.reconnect = "over"
      /\ tun'.cancelled = tun.cancelled /\ tun'.schedule = tun.schedule
      /\ tun'.beats = tun.beats /\ tun'.heartbeat = tun.heartbeat
  BY Placed DEF Good, TypeOK, ReconnectCancelled
<1>2. tun.cancelled /\ user \in {"closing", "down"} /\ config.auto_reconnect
  BY DEF Good, Phases, Reconnecting, ReconnectCancelled
<1>3. answer' \in [Callers -> 0..MaxSockets] /\ answer'["reconnect"] = 0
  BY ConstantsAssumption DEF Good, TypeOK, Callers, ReconnectCancelled
<1>4. TypeOK'
  BY <1>1, <1>3 DEF Good, TypeOK, ReconnectCancelled
<1>5. Beating'
  BY <1>1 DEF Good, Beating
<1>. QED
  BY <1>1, <1>2, <1>3, <1>4, <1>5
  DEF Good, OneSocket, Phases, Reconnecting, ConnectedKnown, ReconnectCancelled

LEMMA ReconnectCleanupGood ==
  Good /\ ReconnectCleanup => Good'
<1>. SUFFICES ASSUME Good, ReconnectCleanup PROVE Good'
  OBVIOUS
<1>1. /\ tun' \in TunnelType /\ tun'.transport = tun.transport
      /\ tun'.open = tun.open /\ tun'.state = tun.state /\ tun'.reconnect = "None"
      /\ tun'.channel = tun.channel
      /\ tun'.cancelled = FALSE /\ tun'.schedule = tun.schedule
      /\ tun'.beats = tun.beats /\ tun'.heartbeat = tun.heartbeat
  BY DEF Good, TypeOK, ReconnectCleanup, TunnelType
<1>2. tun.reconnect = "over" /\ answer["reconnect"] = 0 /\ config.auto_reconnect
  BY DEF Good, Reconnecting, ReconnectCleanup
<1>3. TypeOK'
  BY <1>1 DEF Good, TypeOK, ReconnectCleanup
<1>4. Beating'
  BY <1>1 DEF Good, Beating
<1>. QED
  BY <1>1, <1>2, <1>3, <1>4
  DEF Good, OneSocket, Phases, Reconnecting, ConnectedKnown, ReconnectCleanup

-----------------------------------------------------------------------------
(* disconnect()                                                            *)

LEMMA UserDisconnectGood ==
  Good /\ UserDisconnect => Good'
<1>. SUFFICES ASSUME Good, UserDisconnect PROVE Good'
  OBVIOUS
<1>. DEFINE q == PrepareDisconnect(tun)
            p == StopReconnect(q)
            s == Send(p, "DisconnectRequest", p.channel)
<1>1. /\ q \in TunnelType /\ q.transport = tun.transport /\ q.open = tun.open
      /\ q.state = "DISCONNECTED" /\ q.schedule = FALSE
      /\ q.reconnect = tun.reconnect
  BY HeartbeatStopped DEF Good, TypeOK
<1>2. \A b \in Beats : q.beats[b] = 0
  BY HeartbeatStopped, AllStopped DEF Good, TypeOK
<1>3. \/ tun' = s /\ user' = "closing"
      \/ tun' = Disconnected(p) /\ user' = "down"
  BY DEF UserDisconnect
<1>. HIDE DEF q
<1>4. /\ p \in TunnelType /\ p.transport = tun.transport /\ p.open = tun.open
      /\ p.state = "DISCONNECTED" /\ p.schedule = FALSE
      /\ p.reconnect = tun.reconnect /\ p.cancelled = (tun.reconnect # "None")
      /\ p.beats = q.beats
  BY <1>1 DEF StopReconnect, TunnelType
<1>. HIDE DEF p
<1>5. p.channel \in 0..MaxSockets
  BY <1>4 DEF TunnelType
<1>6. /\ s \in TunnelType /\ s.transport = p.transport /\ s.open = p.open
      /\ s.state = p.state /\ s.schedule = p.schedule /\ s.beats = p.beats
      /\ s.reconnect = p.reconnect /\ s.cancelled = p.cancelled
  BY <1>4, <1>5, Sent
<1>. HIDE DEF s
<1>7. /\ tun' \in TunnelType /\ tun'.open \subseteq {tun'.transport}
      /\ user' = "down" => tun'.transport = 0
      /\ tun'.state = "DISCONNECTED" /\ tun'.schedule = FALSE
      /\ tun'.reconnect = tun.reconnect /\ tun'.cancelled = (tun.reconnect # "None")
      /\ tun'.beats = q.beats
  <2>1. CASE tun' = s /\ user' = "closing"
    BY <1>4, <1>6, <2>1 DEF Good, OneSocket
  <2>2. CASE tun' = Disconnected(p) /\ user' = "down"
    BY <1>4, <2>2, DisconnectedTunnel DEF Good, OneSocket
  <2>. QED  BY <1>3, <2>1, <2>2
<1>8. TypeOK'
  BY <1>3, <1>7 DEF Good, TypeOK, UserDisconnect
<1>9. Beating'
  BY <1>2, <1>7 DEF Beating
<1>10. ~tun.cancelled
  BY DEF Good, Phases, UserDisconnect
<1>. QED
  BY <1>3, <1>7, <1>8, <1>9, <1>10
  DEF Good, OneSocket, Phases, Reconnecting, ConnectedKnown, UserDisconnect

LEMMA UserDisconnectedGood ==
  Good /\ UserDisconnected => Good'
<1>. SUFFICES ASSUME Good, UserDisconnected PROVE Good'
  OBVIOUS
<1>1. /\ tun' \in TunnelType /\ tun'.transport = 0
      /\ tun'.open = tun.open \ {tun.transport} /\ tun'.state = tun.state
      /\ tun'.reconnect = tun.reconnect /\ tun'.cancelled = tun.cancelled
      /\ tun'.beats = tun.beats /\ tun'.heartbeat = tun.heartbeat
      /\ tun'.schedule = tun.schedule
  BY DisconnectedTunnel DEF Good, TypeOK, UserDisconnected
<1>2. TypeOK'
  BY <1>1 DEF Good, TypeOK, UserDisconnected
<1>3. Beating'
  BY <1>1 DEF Good, Beating
<1>. QED
  BY <1>1, <1>2, <1>3
  DEF Good, OneSocket, Phases, Reconnecting, ConnectedKnown, UserDisconnected

-----------------------------------------------------------------------------
(* Reports of a loss.  What the activity that reports it has changed       *)
(* before is t.  After the reconnect task has its answer no activity takes *)
(* the channel or the transport away: that would be a window.              *)

LEMMA ReportGood ==
  ASSUME Good, user = "up", UNCHANGED <<user, answer, config>>,
         NEW t \in TunnelType, tun' = TunnelLost(t),
         t.state = tun.state, t.reconnect = tun.reconnect,
         t.cancelled = tun.cancelled, t.heartbeat = tun.heartbeat,
         \A b \in Beats : t.beats[b] # 0 => tun.beats[b] # 0,
         t.open \subseteq {t.transport}, t.transport \in {0, tun.transport},
         tun.reconnect = "over" => t.channel = tun.channel /\ t.transport = tun.transport,
         answer["reconnect"] # 0 => t.transport = tun.transport
  PROVE  /\ tun' \in TunnelType
         /\ Beating' /\ OneSocket' /\ Phases' /\ Reconnecting' /\ ConnectedKnown'
<1>1. config \in [tcp : BOOLEAN, auto_reconnect : BOOLEAN] /\ tun \in TunnelType
  BY DEF Good, TypeOK
<1>2. tun' \in TunnelType /\ tun'.channel = t.channel /\ tun'.cancelled = t.cancelled
  BY <1>1, Lost
<1>3. ~tun.cancelled
  BY DEF Good, Phases
<1>4. CASE config.auto_reconnect
  <2>1. /\ tun'.transport = t.transport /\ tun'.open = t.open /\ tun'.state = t.state
        /\ tun'.reconnect = IF t.reconnect = "None" THEN "created" ELSE t.reconnect
        /\ tun'.beats = t.beats /\ tun'.heartbeat = t.heartbeat
    BY <1>1, <1>4, Lost
  <2>2. Beating'
    BY <2>1 DEF Good, Beating
  <2>3. tun.reconnect \in {"None", "created", "closing", "opening", "requesting",
                           "sleeping", "over"}
    BY <1>1 DEF TunnelType
  <2>. QED
    BY <1>2, <1>3, <1>4, <2>1, <2>2, <2>3
    DEF Good, OneSocket, Phases, Reconnecting, ConnectedKnown
<1>5. CASE ~config.auto_reconnect
  <2>1. /\ tun'.transport = 0 /\ tun'.open = t.open \ {t.transport}
        /\ tun'.state = "DISCONNECTED" /\ tun'.reconnect = t.reconnect
        /\ tun'.schedule = FALSE
        /\ \A b \in Beats : tun'.beats[b] = IF b = t.heartbeat THEN 0 ELSE t.beats[b]
    BY <1>1, <1>5, Lost
  <2>2. Beating'
    BY <2>1 DEF Good, Beating
  <2>. QED
    BY <1>2, <1>3, <1>5, <2>1, <2>2
    DEF Good, OneSocket, Phases, Reconnecting, ConnectedKnown
<1>. QED  BY <1>4, <1>5

(* The beats of the tasks, and what a loss leaves as it is.                *)
LEMMA BeatCounted ==
  ASSUME NEW t \in TunnelType, NEW b \in Beats, NEW n \in 0..(Retries + 2)
  PROVE  /\ [t EXCEPT !.beats[b] = n] \in TunnelType
         /\ [t EXCEPT !.beats[b] = n].transport = t.transport
         /\ [t EXCEPT !.beats[b] = n].open = t.open
         /\ [t EXCEPT !.beats[b] = n].state = t.state
         /\ [t EXCEPT !.beats[b] = n].channel = t.channel
         /\ [t EXCEPT !.beats[b] = n].reconnect = t.reconnect
         /\ [t EXCEPT !.beats[b] = n].cancelled = t.cancelled
         /\ \A c \in Beats : [t EXCEPT !.beats[b] = n].beats[c]
                               = IF c = b THEN n ELSE t.beats[c]
         /\ [t EXCEPT !.beats[b] = n].heartbeat = t.heartbeat
         /\ [t EXCEPT !.beats[b] = n].schedule = t.schedule
<1>. DEFINE counted == [t.beats EXCEPT ![b] = n]
            u == [t EXCEPT !.beats[b] = n]
<1>1. counted \in [Beats -> 0..(Retries + 2)]
  BY DEF TunnelType, Retries
<1>2. \A c \in Beats : counted[c] = IF c = b THEN n ELSE t.beats[c]
  BY DEF TunnelType
<1>3. u = [t EXCEPT !.beats = counted]
  BY DEF TunnelType
<1>. HIDE DEF counted
<1>4. /\ u \in TunnelType /\ u.transport = t.transport /\ u.open = t.open
      /\ u.state = t.state /\ u.channel = t.channel /\ u.reconnect = t.reconnect
      /\ u.cancelled = t.cancelled /\ u.beats = counted
      /\ u.heartbeat = t.heartbeat /\ u.schedule = t.schedule
  BY <1>1, <1>3 DEF TunnelType
<1>. HIDE DEF u
<1>5. \A c \in Beats : u.beats[c] = IF c = b THEN n ELSE t.beats[c]
  BY <1>2, <1>4
<1>. QED  BY <1>4, <1>5 DEF u

(* A step of a heartbeat task that is alive and stays alive.               *)
LEMMA BeatGood ==
  ASSUME Good, NEW b \in Beats, tun.beats[b] # 0, NEW n \in 0..(Retries + 2),
         tun' = [tun EXCEPT !.beats[b] = n], UNCHANGED <<user, answer, config>>
  PROVE  /\ tun' \in TunnelType
         /\ Beating' /\ OneSocket' /\ Phases' /\ Reconnecting' /\ ConnectedKnown'
<1>1. /\ tun' \in TunnelType /\ tun'.transport = tun.transport /\ tun'.open = tun.open
      /\ tun'.state = tun.state /\ tun'.channel = tun.channel
      /\ tun'.reconnect = tun.reconnect /\ tun'.cancelled = tun.cancelled
      /\ tun'.heartbeat = tun.heartbeat /\ tun'.schedule = tun.schedule
  BY BeatCounted DEF Good, TypeOK
<1>2. \A c \in Beats : tun'.beats[c] = IF c = b THEN n ELSE tun.beats[c]
  BY BeatCounted DEF Good, TypeOK
<1>3. Beating'
  BY <1>1, <1>2 DEF Good, Beating
<1>. QED
  BY <1>1, <1>3 DEF Good, OneSocket, Phases, Reconnecting, ConnectedKnown

LEMMA HeartbeatAskGood ==
  ASSUME NEW b \in Beats, Good, HeartbeatAsk(b)
  PROVE  Good'
<1>1. UNCHANGED <<user, answer, config>> /\ tun.beats[b] # 0 /\ 2 \in 0..(Retries + 2)
  BY DEF HeartbeatAsk, Retries
<1>2. user = "up" /\ tun \in TunnelType
  BY <1>1 DEF Good, TypeOK, Beating, ConnectedKnown
<1>3. /\ tun' \in TunnelType
      /\ Beating' /\ OneSocket' /\ Phases' /\ Reconnecting' /\ ConnectedKnown'
  <2>1. CASE tun.channel = 0
    <3>1. tun' = TunnelLost(tun)
      BY <2>1 DEF HeartbeatAsk
    <3>. QED  BY <1>1, <1>2, <3>1, ReportGood DEF Good, OneSocket
  <2>2. CASE tun.channel # 0
    <3>1. tun' = [tun EXCEPT !.beats[b] = 2]
      BY <2>2 DEF HeartbeatAsk
    <3>. QED  BY <1>1, <3>1, BeatGood
  <2>. QED  BY <2>1, <2>2
<1>4. TypeOK'
  BY <1>3 DEF Good, TypeOK, HeartbeatAsk
<1>. QED  BY <1>3, <1>4 DEF Good

LEMMA HeartbeatAnsweredGood ==
  ASSUME NEW b \in Beats, Good, HeartbeatAnswered(b)
  PROVE  Good'
<1>1. UNCHANGED <<user, answer, config>> /\ 1 \in 0..(Retries + 2)
  BY DEF HeartbeatAnswered, Retries
<1>2. tun.beats[b] # 0 /\ tun' = [tun EXCEPT !.beats[b] = 1]
  BY DEF HeartbeatAnswered, Asleep
<1>3. /\ tun' \in TunnelType
      /\ Beating' /\ OneSocket' /\ Phases' /\ Reconnecting' /\ ConnectedKnown'
  BY <1>1, <1>2, BeatGood
<1>4. TypeOK'
  BY <1>3 DEF Good, TypeOK, HeartbeatAnswered
<1>. QED  BY <1>3, <1>4 DEF Good

LEMMA HeartbeatFailsGood ==
  ASSUME NEW b \in Beats, Good, HeartbeatFails(b)
  PROVE  Good'
<1>1. UNCHANGED <<user, answer, config>> /\ 1 \in 0..(Retries + 2)
  BY DEF HeartbeatFails, Retries
<1>2. tun.beats[b] \in 0..(Retries + 2) /\ tun \in TunnelType
  BY DEF Good, TypeOK, TunnelType
<1>3. tun.beats[b] # 0
  BY <1>2 DEF HeartbeatFails, Retries
<1>4. user = "up"
  BY <1>3 DEF Good, Beating, ConnectedKnown
<1>5. /\ tun' \in TunnelType
      /\ Beating' /\ OneSocket' /\ Phases' /\ Reconnecting' /\ ConnectedKnown'
  <2>1. CASE tun.beats[b] = Retries + 2 \/ tun.channel = 0
    <3>. DEFINE t == [tun EXCEPT !.beats[b] = 1]
    <3>1. tun' = TunnelLost(t)
      BY <2>1 DEF HeartbeatFails, Asleep
    <3>2. /\ t \in TunnelType /\ t.transport = tun.transport /\ t.open = tun.open
          /\ t.state = tun.state /\ t.channel = tun.channel
          /\ t.reconnect = tun.reconnect /\ t.cancelled = tun.cancelled
          /\ t.heartbeat = tun.heartbeat
          /\ \A c \in Beats : t.beats[c] = IF c = b THEN 1 ELSE tun.beats[c]
      BY <1>1, <1>2, BeatCounted
    <3>. HIDE DEF t
    <3>3. \A c \in Beats : t.beats[c] # 0 => tun.beats[c] # 0
      BY <1>3, <3>2
    <3>. QED  BY <1>1, <1>4, <3>1, <3>2, <3>3, ReportGood DEF Good, OneSocket
  <2>2. CASE ~(tun.beats[b] = Retries + 2 \/ tun.channel = 0)
    <3>. DEFINE n == tun.beats[b] + 1
    <3>1. tun' = [tun EXCEPT !.beats[b] = n]
      BY <2>2, <1>2 DEF HeartbeatFails, TunnelType
    <3>2. n \in 0..(Retries + 2)
      BY <1>2, <2>2 DEF Retries
    <3>. HIDE DEF n
    <3>. QED  BY <1>1, <1>3, <3>1, <3>2, BeatGood
  <2>. QED  BY <2>1, <2>2
<1>6. faults' \in 0..MaxFaults
  BY ConstantsAssumption DEF Good, TypeOK, HeartbeatFails
<1>7. TypeOK'
  BY <1>5, <1>6 DEF Good, TypeOK, HeartbeatFails
<1>. QED  BY <1>5, <1>7 DEF Good

-----------------------------------------------------------------------------
(* Callbacks of the transport.                                             *)

(* A loss that is not noted comes to a tunnel whose connect() returned and *)
(* whose reconnect task, if there is one, waits for no more than an answer.*)
LEMMA NotNoted ==
  ASSUME Good, Noted, windows' = {}
  PROVE  /\ tun.transport # 0 => user = "up"
         /\ tun.reconnect # "over" /\ answer["reconnect"] = 0
<1>1. user \notin {"opening", "requesting", "closing", "down"}
  BY DEF Noted
<1>2. tun.reconnect # "over" /\ answer["reconnect"] = 0
  BY DEF Noted
<1>. QED  BY <1>1, <1>2 DEF Good, TypeOK, Phases

LEMMA OpenIsTransport ==
  ASSUME Good, NEW s \in tun.open
  PROVE  s = tun.transport /\ tun.transport # 0
  BY DEF Good, TypeOK, OneSocket, TunnelType, Sockets

LEMMA ConnectResponseGood ==
  ASSUME NEW f \in incoming, Good, ConnectResponse(f)
  PROVE  Good'
<1>1. tun.transport # 0
  BY OpenIsTransport DEF ConnectResponse
<1>2. /\ answer' \in [Callers -> 0..MaxSockets]
      /\ answer'["reconnect"] = IF Running("requesting") THEN f.channel
                                ELSE answer["reconnect"]
  BY DEF Good, TypeOK, Frames, Callers, ConnectResponse
<1>3. answer'["reconnect"] # 0 => tun.reconnect = "requesting"
  BY <1>2 DEF Good, Reconnecting, Running
<1>4. TypeOK'
  BY <1>2 DEF Good, TypeOK, ConnectResponse
<1>5. Beating'
  BY DEF Good, Beating, ConnectResponse
<1>. QED
  BY <1>1, <1>3, <1>4, <1>5
  DEF Good, OneSocket, Phases, Reconnecting, ConnectedKnown, ConnectResponse

LEMMA DisconnectRequestReceivedGood ==
  ASSUME NEW f \in incoming, Good, DisconnectRequestReceived(f), windows' = {}
  PROVE  Good'
<1>1. tun.transport # 0 /\ tun \in TunnelType
  BY OpenIsTransport DEF Good, TypeOK, DisconnectRequestReceived
<1>2. user = "up" /\ tun.reconnect # "over" /\ answer["reconnect"] = 0
  BY <1>1, NotNoted DEF DisconnectRequestReceived
<1>3. UNCHANGED <<user, answer, config>>
  BY DEF DisconnectRequestReceived
<1>4. /\ tun' \in TunnelType
      /\ Beating' /\ OneSocket' /\ Phases' /\ Reconnecting' /\ ConnectedKnown'
  <2>1. CASE f.channel # tun.channel
    <3>1. tun' = TunnelLost(tun)
      BY <2>1 DEF DisconnectRequestReceived
    <3>. QED  BY <1>1, <1>2, <1>3, <3>1, ReportGood DEF Good, OneSocket
  <2>2. CASE f.channel = tun.channel
    <3>. DEFINE t == [tun EXCEPT !.channel = 0]
    <3>1. tun' = TunnelLost(t)
      BY <1>1, <2>2 DEF DisconnectRequestReceived
    <3>2. /\ t \in TunnelType /\ t.transport = tun.transport /\ t.open = tun.open
          /\ t.state = tun.state /\ t.beats = tun.beats
          /\ t.reconnect = tun.reconnect /\ t.cancelled = tun.cancelled
          /\ t.heartbeat = tun.heartbeat
      BY <1>1, ConstantsAssumption DEF TunnelType
    <3>. HIDE DEF t
    <3>. QED  BY <1>2, <1>3, <3>1, <3>2, ReportGood DEF Good, OneSocket
  <2>. QED  BY <2>1, <2>2
<1>5. TypeOK'
  BY <1>4 DEF Good, TypeOK, DisconnectRequestReceived
<1>. QED  BY <1>4, <1>5 DEF Good

(* connection_lost stops the transport that stands, whose-ever call it is. *)
LEMMA ConnectionLostGood ==
  ASSUME NEW s \in Sockets, Good, ConnectionLost(s) \/ LateConnectionLost(s), windows' = {}
  PROVE  Good'
<1>1. tun.transport # 0 /\ tun \in TunnelType /\ tun.open \subseteq {tun.transport}
  BY OpenIsTransport DEF Good, TypeOK, OneSocket, ConnectionLost, LateConnectionLost
<1>2. user = "up" /\ tun.reconnect # "over" /\ answer["reconnect"] = 0
  BY <1>1, NotNoted DEF ConnectionLost, LateConnectionLost
<1>3. UNCHANGED <<user, answer, config>>
  BY DEF ConnectionLost, LateConnectionLost
<1>. DEFINE rest == tun.open \ {s}
            more == tun.lost \cup {s}
            o == [tun EXCEPT !.open = rest, !.lost = more]
            t == TransportStop(o)
<1>4. tun' = TunnelLost(t)
  BY <1>1 DEF ConnectionLost, LateConnectionLost, LostCallback
<1>5. rest \in SUBSET Sockets /\ rest \ {tun.transport} = {} /\ more \in SUBSET Sockets
  BY <1>1 DEF TunnelType
<1>. HIDE DEF rest, more
<1>6. /\ o \in TunnelType /\ o.open = rest /\ o.state = tun.state
      /\ o.transport = tun.transport
      /\ o.beats = tun.beats /\ o.reconnect = tun.reconnect
      /\ o.cancelled = tun.cancelled /\ o.heartbeat = tun.heartbeat
  BY <1>1, <1>5 DEF TunnelType
<1>. HIDE DEF o
<1>7. /\ t \in TunnelType /\ t.transport = 0 /\ t.open = {}
      /\ t.state = tun.state /\ t.beats = tun.beats
      /\ t.reconnect = tun.reconnect /\ t.cancelled = tun.cancelled
      /\ t.heartbeat = tun.heartbeat
  BY <1>5, <1>6, TransportStopped
<1>. HIDE DEF t
<1>8. /\ tun' \in TunnelType
      /\ Beating' /\ OneSocket' /\ Phases' /\ Reconnecting' /\ ConnectedKnown'
  BY <1>2, <1>3, <1>4, <1>7, ReportGood
<1>9. faults' \in 0..MaxFaults
  BY ConstantsAssumption DEF Good, TypeOK, ConnectionLost, LateConnectionLost
<1>10. TypeOK'
  BY <1>8, <1>9 DEF Good, TypeOK, ConnectionLost, LateConnectionLost
<1>. QED  BY <1>8, <1>10 DEF Good

LEMMA ScheduleSet ==
  ASSUME NEW t \in TunnelType, NEW on \in BOOLEAN
  PROVE  /\ [t EXCEPT !.schedule = on] \in TunnelType
         /\ [t EXCEPT !.schedule = on].transport = t.transport
         /\ [t EXCEPT !.schedule = on].open = t.open
         /\ [t EXCEPT !.schedule = on].state = t.state
         /\ [t EXCEPT !.schedule = on].channel = t.channel
         /\ [t EXCEPT !.schedule = on].reconnect = t.reconnect
         /\ [t EXCEPT !.schedule = on].cancelled = t.cancelled
         /\ [t EXCEPT !.schedule = on].beats = t.beats
         /\ [t EXCEPT !.schedule = on].heartbeat = t.heartbeat
         /\ [t EXCEPT !.schedule = on].schedule = on
  BY DEF TunnelType

LEMMA UnexpectedSequenceGood ==
  ASSUME Good, UnexpectedSequence, windows' = {}
  PROVE  Good'
<1>1. tun.transport # 0 /\ tun \in TunnelType /\ tun.schedule \in BOOLEAN
  BY DEF Good, TypeOK, TunnelType, UnexpectedSequence
<1>2. user = "up"
  BY <1>1, NotNoted DEF UnexpectedSequence
<1>. DEFINE on == tun.schedule \/ tun.reconnect = "None"
<1>3. on \in BOOLEAN /\ tun' = [tun EXCEPT !.schedule = on]
  BY <1>1 DEF UnexpectedSequence, TunnelType
<1>. HIDE DEF on
<1>4. /\ tun' \in TunnelType /\ tun'.transport = tun.transport /\ tun'.open = tun.open
      /\ tun'.state = tun.state /\ tun'.channel = tun.channel
      /\ tun'.reconnect = tun.reconnect /\ tun'.cancelled = tun.cancelled
      /\ tun'.beats = tun.beats /\ tun'.heartbeat = tun.heartbeat
  BY <1>1, <1>3, ScheduleSet
<1>5. faults' \in 0..MaxFaults
  BY ConstantsAssumption DEF Good, TypeOK, UnexpectedSequence
<1>6. TypeOK'
  BY <1>4, <1>5 DEF Good, TypeOK, UnexpectedSequence
<1>7. Beating'
  BY <1>4 DEF Good, Beating
<1>. QED
  BY <1>2, <1>4, <1>6, <1>7
  DEF Good, OneSocket, Phases, Reconnecting, ConnectedKnown, UnexpectedSequence

LEMMA ExpectedSequenceGood ==
  ASSUME Good, ExpectedSequence
  PROVE  Good'
<1>1. /\ tun' \in TunnelType /\ tun'.transport = tun.transport /\ tun'.open = tun.open
      /\ tun'.state = tun.state /\ tun'.channel = tun.channel
      /\ tun'.reconnect = tun.reconnect /\ tun'.cancelled = tun.cancelled
      /\ tun'.beats = tun.beats /\ tun'.heartbeat = tun.heartbeat
      /\ tun'.schedule = FALSE
  BY ScheduleSet DEF Good, TypeOK, ExpectedSequence
<1>2. TypeOK'
  BY <1>1 DEF Good, TypeOK, ExpectedSequence
<1>3. Beating'
  BY <1>1 DEF Good, Beating
<1>. QED
  BY <1>1, <1>2, <1>3
  DEF Good, OneSocket, Phases, Reconnecting, ConnectedKnown, ExpectedSequence

LEMMA ScheduleFiresGood ==
  ASSUME Good, ScheduleFires
  PROVE  Good'
<1>1. user = "up" /\ tun \in TunnelType
  BY DEF Good, TypeOK, Phases, ScheduleFires
<1>2. UNCHANGED <<user, answer, config>>
  BY DEF ScheduleFires
<1>. DEFINE t == [tun EXCEPT !.schedule = FALSE]
<1>3. tun' = TunnelLost(t)
  BY DEF ScheduleFires
<1>4. /\ t \in TunnelType /\ t.transport = tun.transport /\ t.open = tun.open
      /\ t.state = tun.state /\ t.channel = tun.channel /\ t.beats = tun.beats
      /\ t.reconnect = tun.reconnect /\ t.cancelled = tun.cancelled
      /\ t.heartbeat = tun.heartbeat
  BY <1>1, ScheduleSet
<1>. HIDE DEF t
<1>5. /\ tun' \in TunnelType
      /\ Beating' /\ OneSocket' /\ Phases' /\ Reconnecting' /\ ConnectedKnown'
  BY <1>1, <1>2, <1>3, <1>4, ReportGood DEF Good, OneSocket
<1>6. TypeOK'
  BY <1>5 DEF Good, TypeOK, ScheduleFires
<1>. QED  BY <1>5, <1>6 DEF Good

LEMMA SendFailsTwiceGood ==
  ASSUME Good, SendFailsTwice
  PROVE  Good'
<1>1. /\ user = "up" /\ tun \in TunnelType /\ UNCHANGED <<user, answer, config>>
      /\ tun' = TunnelLost(tun)
  BY DEF Good, TypeOK, SendFailsTwice
<1>2. /\ tun' \in TunnelType
      /\ Beating' /\ OneSocket' /\ Phases' /\ Reconnecting' /\ ConnectedKnown'
  BY <1>1, ReportGood DEF Good, OneSocket
<1>3. faults' \in 0..MaxFaults
  BY ConstantsAssumption DEF Good, TypeOK, SendFailsTwice
<1>4. TypeOK'
  BY <1>2, <1>3 DEF Good, TypeOK, SendFailsTwice
<1>. QED  BY <1>2, <1>4 DEF Good

-----------------------------------------------------------------------------
(* The gateway and the network take and bring frames.                      *)

LEMMA FrameTaken ==
  ASSUME Good, NEW f, tun' = [tun EXCEPT !.sent = @ \ {f}],
         UNCHANGED <<user, answer, config>>
  PROVE  /\ tun' \in TunnelType
         /\ Beating' /\ OneSocket' /\ Phases' /\ Reconnecting' /\ ConnectedKnown'
<1>. DEFINE rest == tun.sent \ {f}
<1>1. rest \in SUBSET Frames /\ tun \in TunnelType
  BY DEF Good, TypeOK, TunnelType
<1>2. tun' = [tun EXCEPT !.sent = rest]
  BY <1>1 DEF TunnelType
<1>. HIDE DEF rest
<1>3. /\ tun' \in TunnelType /\ tun'.transport = tun.transport /\ tun'.open = tun.open
      /\ tun'.state = tun.state /\ tun'.channel = tun.channel
      /\ tun'.reconnect = tun.reconnect /\ tun'.cancelled = tun.cancelled
      /\ tun'.beats = tun.beats /\ tun'.heartbeat = tun.heartbeat
      /\ tun'.schedule = tun.schedule
  BY <1>1, <1>2 DEF TunnelType
<1>4. Beating'
  BY <1>3 DEF Good, Beating
<1>. QED
  BY <1>3, <1>4 DEF Good, OneSocket, Phases, Reconnecting, ConnectedKnown

LEMMA TunnelUntouched ==
  ASSUME Good, UNCHANGED <<tun, user, answer, config>>
  PROVE  Beating' /\ OneSocket' /\ Phases' /\ Reconnecting' /\ ConnectedKnown'
<1>1. Beating'
  BY DEF Good, Beating
<1>. QED
  BY <1>1 DEF Good, OneSocket, Phases, Reconnecting, ConnectedKnown

LEMMA NetworkGood ==
  ASSUME Good, Network, windows' = {}
  PROVE  Good'
<1>1. ASSUME NEW f \in incoming,
             ConnectResponse(f) \/ DisconnectRequestReceived(f) \/ FrameLost(f)
      PROVE  Good'
  <2>1. CASE FrameLost(f)
    <3>1. faults' \in 0..MaxFaults
      BY <2>1, ConstantsAssumption DEF Good, TypeOK, FrameLost
    <3>2. TypeOK'
      BY <2>1, <3>1 DEF Good, TypeOK, FrameLost
    <3>. QED  BY <2>1, <3>2, TunnelUntouched DEF Good, FrameLost
  <2>. QED  BY <1>1, <2>1, ConnectResponseGood, DisconnectRequestReceivedGood
<1>2. ASSUME NEW f \in tun.sent, GatewayAccepts(f) \/ GatewayCloses(f) \/ RequestLost(f)
      PROVE  Good'
  <2>1. /\ tun' \in TunnelType
        /\ Beating' /\ OneSocket' /\ Phases' /\ Reconnecting' /\ ConnectedKnown'
    BY <1>2, FrameTaken DEF GatewayAccepts, GatewayCloses, RequestLost
  <2>2. f.socket \in Sockets
    BY DEF Good, TypeOK, TunnelType, Frames
  <2>3. CASE GatewayAccepts(f)
    <3>1. Frame("ConnectResponse", f.socket, f.socket) \in Frames
      BY <2>2, ConstantsAssumption DEF Frame, Frames, Sockets
    <3>2. [channel |-> f.socket, socket |-> f.socket] \in [channel : Channels, socket : Sockets]
      BY <2>2 DEF Channels, Sockets
    <3>3. TypeOK'
      BY <2>1, <2>3, <3>1, <3>2 DEF Good, TypeOK, GatewayAccepts
    <3>. QED  BY <2>1, <3>3 DEF Good
  <2>4. CASE GatewayCloses(f)
    <3>1. TypeOK'
      BY <2>1, <2>4 DEF Good, TypeOK, GatewayCloses
    <3>. QED  BY <2>1, <3>1 DEF Good
  <2>5. CASE RequestLost(f)
    <3>1. faults' \in 0..MaxFaults
      BY <2>5, ConstantsAssumption DEF Good, TypeOK, RequestLost
    <3>2. TypeOK'
      BY <2>1, <2>5, <3>1 DEF Good, TypeOK, RequestLost
    <3>. QED  BY <2>1, <3>2 DEF Good
  <2>. QED  BY <1>2, <2>3, <2>4, <2>5
<1>. QED  BY <1>1, <1>2 DEF Network

LEMMA GatewayDropsGood ==
  ASSUME NEW g \in gateway, Good, GatewayDrops(g)
  PROVE  Good'
<1>1. Frame("DisconnectRequest", g.socket, g.channel) \in Frames
  BY ConstantsAssumption DEF Good, TypeOK, Frame, Frames, Channels
<1>2. faults' \in 0..MaxFaults
  BY ConstantsAssumption DEF Good, TypeOK, GatewayDrops
<1>3. TypeOK'
  BY <1>1, <1>2 DEF Good, TypeOK, GatewayDrops
<1>. QED  BY <1>3, TunnelUntouched DEF Good, GatewayDrops

LEMMA GatewayNoticesGood ==
  ASSUME NEW g \in gateway, Good, GatewayNotices(g)
  PROVE  Good'
<1>1. TypeOK'
  BY DEF Good, TypeOK, GatewayNotices
<1>. QED  BY <1>1, TunnelUntouched DEF Good, GatewayNotices

-----------------------------------------------------------------------------

LEMMA WindowsGrow ==
  ASSUME [Next]_vars
  PROVE  windows' = {} => windows = {}
<1>1. CASE UNCHANGED vars
  BY <1>1 DEF vars
<1>2. CASE User \/ UserDisconnect \/ UserDisconnected
  BY <1>2 DEF User, UserConnect, UserOpened, UserConnectFails, UserConnected,
              UserDisconnect, UserDisconnected
<1>3. CASE Reconnect
  BY <1>3 DEF Reconnect, ReconnectBegin, ReconnectClosed, ReconnectOpened,
              ReconnectFails, ReconnectRetry, ReconnectDone, ReconnectCancelled,
              ReconnectCleanup
<1>4. ASSUME NEW b \in Beats, Heartbeat(b)
      PROVE  windows' = {} => windows = {}
  BY <1>4 DEF Heartbeat, HeartbeatAsk, HeartbeatAnswered, HeartbeatFails
<1>5. CASE Network
  BY <1>5 DEF Network, ConnectResponse, DisconnectRequestReceived, FrameLost,
              GatewayAccepts, GatewayCloses, RequestLost, Noted
<1>6. ASSUME NEW s \in Sockets, ConnectionLost(s) \/ LateConnectionLost(s)
      PROVE  windows' = {} => windows = {}
  BY <1>6 DEF ConnectionLost, LateConnectionLost, Noted
<1>7. CASE UnexpectedSequence \/ ExpectedSequence \/ ScheduleFires \/ SendFailsTwice
  BY <1>7 DEF UnexpectedSequence, ExpectedSequence, ScheduleFires, SendFailsTwice, Noted
<1>8. ASSUME NEW g \in gateway, GatewayDrops(g) \/ GatewayNotices(g)
      PROVE  windows' = {} => windows = {}
  BY <1>8 DEF GatewayDrops, GatewayNotices
<1>. QED  BY <1>1, <1>2, <1>3, <1>4, <1>5, <1>6, <1>7, <1>8 DEF Next

LEMMA GoodStep ==
  ASSUME Good, [Next]_vars, windows' = {}
  PROVE  Good'
<1>1. CASE UNCHANGED vars
  <2>1. TypeOK'
    BY <1>1 DEF Good, TypeOK, vars
  <2>. QED  BY <1>1, <2>1, TunnelUntouched DEF Good, vars
<1>2. CASE User \/ UserDisconnect \/ UserDisconnected
  BY <1>2, UserConnectGood, UserOpenedGood, UserConnectFailsGood, UserConnectedGood,
     UserDisconnectGood, UserDisconnectedGood DEF User
<1>3. CASE Reconnect
  BY <1>3, ReconnectBeginGood, ReconnectClosedGood, ReconnectOpenedGood,
     ReconnectFailsGood, ReconnectRetryGood, ReconnectDoneGood,
     ReconnectCancelledGood, ReconnectCleanupGood DEF Reconnect
<1>4. ASSUME NEW b \in Beats, Heartbeat(b)
      PROVE  Good'
  BY <1>4, HeartbeatAskGood, HeartbeatAnsweredGood, HeartbeatFailsGood DEF Heartbeat
<1>5. CASE Network
  BY <1>5, NetworkGood
<1>6. ASSUME NEW s \in Sockets, ConnectionLost(s) \/ LateConnectionLost(s)
      PROVE  Good'
  BY <1>6, ConnectionLostGood
<1>7. CASE UnexpectedSequence \/ ExpectedSequence \/ ScheduleFires \/ SendFailsTwice
  BY <1>7, UnexpectedSequenceGood, ExpectedSequenceGood, ScheduleFiresGood,
     SendFailsTwiceGood
<1>8. ASSUME NEW g \in gateway, GatewayDrops(g) \/ GatewayNotices(g)
      PROVE  Good'
  BY <1>8, GatewayDropsGood, GatewayNoticesGood
<1>. QED  BY <1>1, <1>2, <1>3, <1>4, <1>5, <1>6, <1>7, <1>8 DEF Next

(* While no loss was reported at an awkward moment, every state of the     *)
(* tunnel is a good one.                                                   *)
LEMMA QuietIsGood ==
  Spec => [](windows = {} => Good)
<1>. DEFINE QuietGood == windows = {} => Good
<1>1. Init => QuietGood
  BY GoodInit
<1>2. QuietGood /\ [Next]_vars => QuietGood'
  <2>. SUFFICES ASSUME QuietGood, [Next]_vars, windows' = {} PROVE Good'
    OBVIOUS
  <2>1. windows = {}
    BY WindowsGrow
  <2>. QED  BY <2>1, GoodStep
<1>. HIDE DEF QuietGood
<1>3. Spec => []QuietGood
  BY <1>1, <1>2, PTL DEF Spec
<1>. QED  BY <1>3 DEF QuietGood

(* A loss does not go unnoticed, however the heartbeat, the reconnect task *)
(* and the callbacks of the transport interleave: a tunnel that is         *)
(* CONNECTED has a channel and a socket, or a reconnect is under way.      *)
THEOREM LossesAreNoticed ==
  Spec => []LossNoticed
<1>1. (windows = {} => Good) => LossNoticed
  BY DEF Good, ConnectedKnown, LossNoticed
<1>. QED  BY <1>1, QuietIsGood, PTL

(* start_heartbeat() and connect() overwrite references without a look at  *)
(* the old ones; still no heartbeat task and no socket is forgotten.       *)
THEOREM NoneIsForgotten ==
  Spec => []NothingForgotten
<1>1. (windows = {} => Good) => NothingForgotten
  BY DEF Good, Beating, OneSocket, NothingForgotten
<1>. QED  BY <1>1, QuietIsGood, PTL

(* When disconnect() has returned or the first connect() has failed, no    *)
(* task that is still alive opens the tunnel again.                        *)
THEOREM DownForGood ==
  Spec => []ClosedStaysDown
<1>1. (windows = {} => Good) => ClosedStaysDown
  <2>. SUFFICES ASSUME Good, user \in {"down", "failed"} PROVE Down
    BY DEF ClosedStaysDown
  <2>1. tun.state = "DISCONNECTED" /\ tun.transport = 0
    BY DEF Good, Phases
  <2>2. tun.open = {}
    BY <2>1, OpenIsTransport
  <2>. QED  BY <2>1, <2>2 DEF Down
<1>. QED  BY <1>1, QuietIsGood, PTL

-----------------------------------------------------------------------------
(* Room for the heartbeat tasks, in all behaviours.  start_heartbeat()     *)
(* overwrites the reference to a task that may be alive, so one task can   *)
(* be left behind when a loss during the first connect() lets the          *)
(* reconnect task connect as well.  Never more than one is.                *)

Alive(b) == tun.beats[b] # 0

Early == user \in {"idle", "opening", "requesting"}

Attempting == tun.reconnect \in {"closing", "opening", "requesting", "sleeping"}

(* Until the first connect() has returned no task is left behind, and none *)
(* is alive while the reconnect task makes its attempts; later a task may  *)
(* be left behind, but then none is started before stop_heartbeat().       *)
Room ==
    /\ Early => \A b \in Beats : Alive(b) => b = tun.heartbeat
    /\ Early /\ Attempting => \A b \in Beats : ~Alive(b)
    /\ Attempting \/ tun.heartbeat = 0 => \E b \in Beats : ~Alive(b)

LEMMA RoomInit ==
  Init => Room
<1>. SUFFICES ASSUME Init PROVE Room
  OBVIOUS
<1>1. tun.reconnect = "None" /\ 1 \in Beats /\ \A b \in Beats : tun.beats[b] = 0
  BY DEF Init, Beats
<1>. QED  BY <1>1 DEF Room, Alive, Attempting

(* A step that starts no task and begins no attempt.                       *)
LEMMA RoomKept ==
  ASSUME Room, tun'.heartbeat = tun.heartbeat,
         \A b \in Beats : tun'.beats[b] # 0 => tun.beats[b] # 0,
         Early' => Early, Attempting' => Attempting
  PROVE  Room'
  BY DEF Room, Alive

(* A step that stops the task the tunnel refers to.                        *)
LEMMA RoomStopped ==
  ASSUME Room, tun \in TunnelType, tun'.heartbeat = 0,
         \A b \in Beats : tun'.beats[b] # 0 => b # tun.heartbeat /\ tun.beats[b] # 0,
         Early' => Early
  PROVE  Room'
<1>1. tun.heartbeat = 0 \/ tun.heartbeat \in Beats
  BY DEF TunnelType
<1>2. \E b \in Beats : tun'.beats[b] = 0
  BY <1>1 DEF Room, Alive
<1>3. Early' => \A b \in Beats : ~Alive(b)'
  BY DEF Room, Alive
<1>. QED  BY <1>2, <1>3 DEF Room, Alive

(* A step that starts a task in a free place.                              *)
LEMMA RoomTaken ==
  ASSUME Room, tun'.heartbeat \in Beats,
         \A b \in Beats : tun'.beats[b] # 0 => b = tun'.heartbeat \/ tun.beats[b] # 0,
         \/ Early /\ ~Early' /\ (Attempting' <=> Attempting)
         \/ Attempting /\ ~Attempting' /\ (Early' <=> Early)
  PROVE  Room'
<1>1. tun'.heartbeat # 0
  BY DEF Beats
<1>2. CASE Early /\ ~Early' /\ (Attempting' <=> Attempting)
  <2>1. Attempting' => \A b \in Beats : ~Alive(b)
    BY <1>2 DEF Room
  <2>2. \E b \in Beats : b # tun'.heartbeat
    BY DEF Beats
  <2>3. Attempting' => \E b \in Beats : ~Alive(b)'
    BY <2>1, <2>2 DEF Alive
  <2>. QED  BY <1>1, <1>2, <2>3 DEF Room
<1>3. CASE Attempting /\ ~Attempting' /\ (Early' <=> Early)
  <2>1. Early' => \A b \in Beats : Alive(b)' => b = tun'.heartbeat
    BY <1>3 DEF Room, Alive
  <2>. QED  BY <1>1, <1>3, <2>1 DEF Room
<1>. QED  BY <1>2, <1>3

(* A report of a loss; t is what the activity that reports it has changed. *)
LEMMA RoomReport ==
  ASSUME TypeOK, Room, NEW t \in TunnelType, tun' = TunnelLost(t), user' = user,
         t.reconnect = tun.reconnect, t.heartbeat = tun.heartbeat,
         \A b \in Beats : t.beats[b] # 0 => tun.beats[b] # 0
  PROVE  tun' \in TunnelType /\ Room'
<1>1. config \in [tcp : BOOLEAN, auto_reconnect : BOOLEAN] /\ tun \in TunnelType
  BY DEF TypeOK
<1>2. tun' \in TunnelType
  BY <1>1, Lost
<1>3. Early' => Early
  BY DEF Early
<1>4. CASE config.auto_reconnect
  <2>1. /\ tun'.beats = t.beats /\ tun'.heartbeat = t.heartbeat
        /\ tun'.reconnect = IF t.reconnect = "None" THEN "created" ELSE t.reconnect
    BY <1>1, <1>4, Lost
  <2>2. Attempting' => Attempting
    BY <2>1 DEF Attempting
  <2>. QED  BY <1>2, <1>3, <2>1, <2>2, RoomKept
<1>5. CASE ~config.auto_reconnect
  <2>1. /\ tun'.heartbeat = 0
        /\ \A b \in Beats : tun'.beats[b] = IF b = t.heartbeat THEN 0 ELSE t.beats[b]
    BY <1>1, <1>5, Lost
  <2>. QED  BY <1>1, <1>2, <1>3, <2>1, RoomStopped
<1>. QED  BY <1>4, <1>5

LEMMA UserRoom ==
  ASSUME TypeOK, Room, User \/ UserDisconnected
  PROVE  tun' \in TunnelType /\ Room'
<1>1. tun \in TunnelType /\ sockets \in 0..MaxSockets
  BY DEF TypeOK
<1>2. CASE UserConnect
  <2>1. /\ tun' \in TunnelType /\ tun'.reconnect = tun.reconnect
        /\ tun'.beats = tun.beats /\ tun'.heartbeat = tun.heartbeat
    BY <1>1, <1>2 DEF UserConnect, Connecting, TunnelType
  <2>2. Early
    BY <1>2 DEF UserConnect, Early
  <2>. QED  BY <2>1, <2>2, RoomKept DEF Attempting
<1>3. CASE UserOpened
  <2>1. /\ tun' \in TunnelType /\ tun'.reconnect = tun.reconnect
        /\ tun'.beats = tun.beats /\ tun'.heartbeat = tun.heartbeat
    BY <1>1, <1>3, OpenedTunnel DEF UserOpened
  <2>2. Early
    BY <1>3 DEF UserOpened, Early
  <2>. QED  BY <2>1, <2>2, RoomKept DEF Attempting
<1>4. CASE UserConnectFails
  <2>1. /\ tun' \in TunnelType /\ tun'.reconnect = tun.reconnect
        /\ tun'.beats = tun.beats /\ tun'.heartbeat = tun.heartbeat
    BY <1>1, <1>4, FailedConnect DEF UserConnectFails
  <2>2. ~Early'
    BY <1>4 DEF UserConnectFails, Early
  <2>. QED  BY <2>1, <2>2, RoomKept DEF Attempting
<1>5. CASE UserConnected
  <2>1. Early /\ ~Early' /\ answer["user"] \in 0..MaxSockets
    BY <1>5 DEF TypeOK, Callers, UserConnected, Early
  <2>2. \E b \in Beats : tun.beats[b] = 0
    <3>1. \E b \in Beats : b # tun.heartbeat
      BY DEF Beats
    <3>. QED  BY <2>1, <3>1 DEF Room, Alive
  <2>3. /\ tun' \in TunnelType /\ tun'.reconnect = tun.reconnect
        /\ tun'.heartbeat \in Beats
        /\ \A b \in Beats : tun'.beats[b] # 0 => b = tun'.heartbeat \/ tun.beats[b] # 0
    BY <1>1, <1>5, <2>1, <2>2, Established DEF UserConnected
  <2>4. Attempting' <=> Attempting
    BY <2>3 DEF Attempting
  <2>. QED  BY <2>1, <2>3, <2>4, RoomTaken
<1>6. CASE UserDisconnected
  <2>1. /\ tun' \in TunnelType /\ tun'.reconnect = tun.reconnect
        /\ tun'.beats = tun.beats /\ tun'.heartbeat = tun.heartbeat
    BY <1>1, <1>6, DisconnectedTunnel DEF UserDisconnected
  <2>2. ~Early'
    BY <1>6 DEF UserDisconnected, Early
  <2>. QED  BY <2>1, <2>2, RoomKept DEF Attempting
<1>. QED  BY <1>2, <1>3, <1>4, <1>5, <1>6 DEF User

LEMMA UserDisconnectRoom ==
  ASSUME TypeOK, Room, UserDisconnect
  PROVE  tun' \in TunnelType /\ Room'
<1>. DEFINE q == PrepareDisconnect(tun)
            p == StopReconnect(q)
            s == Send(p, "DisconnectRequest", p.channel)
<1>1. /\ q \in TunnelType /\ q.heartbeat = 0
      /\ \A b \in Beats : q.beats[b] = IF b = tun.heartbeat THEN 0 ELSE tun.beats[b]
  BY HeartbeatStopped DEF TypeOK
<1>2. tun' = s \/ tun' = Disconnected(p)
  BY DEF UserDisconnect
<1>. HIDE DEF q
<1>3. p \in TunnelType /\ p.heartbeat = q.heartbeat /\ p.beats = q.beats
  BY <1>1 DEF StopReconnect, TunnelType
<1>. HIDE DEF p
<1>4. p.channel \in 0..MaxSockets
  BY <1>3 DEF TunnelType
<1>5. s \in TunnelType /\ s.heartbeat = p.heartbeat /\ s.beats = p.beats
  BY <1>3, <1>4, Sent
<1>. HIDE DEF s
<1>6. tun' \in TunnelType /\ tun'.heartbeat = q.heartbeat /\ tun'.beats = q.beats
  BY <1>2, <1>3, <1>5, DisconnectedTunnel
<1>7. ~Early'
  BY DEF UserDisconnect, Early
<1>8. tun \in TunnelType
  BY DEF TypeOK
<1>. QED  BY <1>1, <1>6, <1>7, <1>8, RoomStopped

LEMMA ReconnectBeginRoom ==
  ASSUME TypeOK, Room, ReconnectBegin
  PROVE  tun' \in TunnelType /\ Room'
<1>. DEFINE p == PrepareDisconnect(tun)
            s == Send(p, "DisconnectRequest", p.channel)
<1>1. /\ p \in TunnelType /\ p.heartbeat = 0
      /\ \A b \in Beats : p.beats[b] = IF b = tun.heartbeat THEN 0 ELSE tun.beats[b]
  BY HeartbeatStopped DEF TypeOK
<1>2. \/ tun' = At(Connecting(p), "opening")
      \/ tun' = At(Connecting(TransportStop(p)), "opening")
      \/ tun' = At(s, "closing")
  BY DEF ReconnectBegin
<1>. HIDE DEF p
<1>3. p.channel \in 0..MaxSockets
  BY <1>1 DEF TunnelType
<1>4. s \in TunnelType /\ s.heartbeat = p.heartbeat /\ s.beats = p.beats
  BY <1>1, <1>3, Sent
<1>. HIDE DEF s
<1>5. tun' \in TunnelType /\ tun'.heartbeat = p.heartbeat /\ tun'.beats = p.beats
  <2>1. CASE tun' = At(Connecting(p), "opening")
    BY <1>1, <2>1, AttemptBegins
  <2>2. CASE tun' = At(Connecting(TransportStop(p)), "opening")
    BY <1>1, <2>2, TransportStopped, AttemptBegins
  <2>3. CASE tun' = At(s, "closing")
    BY <1>4, <2>3, Placed
  <2>. QED  BY <1>2, <2>1, <2>2, <2>3
<1>6. user' = user /\ tun \in TunnelType
  BY DEF TypeOK, ReconnectBegin
<1>7. Early' => Early
  BY <1>6 DEF Early
<1>. QED  BY <1>1, <1>5, <1>6, <1>7, RoomStopped

LEMMA ReconnectRoom ==
  ASSUME TypeOK, Room, Reconnect
  PROVE  tun' \in TunnelType /\ Room'
<1>1. tun \in TunnelType /\ sockets \in 0..MaxSockets
  BY DEF TypeOK
<1>2. user' = user
  BY DEF Reconnect, ReconnectBegin, ReconnectClosed, ReconnectOpened, ReconnectFails,
         ReconnectRetry, ReconnectDone, ReconnectCancelled, ReconnectCleanup
<1>3. Early' <=> Early
  BY <1>2 DEF Early
<1>4. CASE ReconnectBegin
  BY <1>4, ReconnectBeginRoom
<1>5. CASE ReconnectClosed
  <2>1. /\ Disconnected(tun) \in TunnelType /\ Disconnected(tun).beats = tun.beats
        /\ Disconnected(tun).heartbeat = tun.heartbeat
    BY <1>1, DisconnectedTunnel
  <2>2. tun' \in TunnelType /\ tun'.beats = tun.beats /\ tun'.heartbeat = tun.heartbeat
    BY <1>5, <2>1, AttemptBegins DEF ReconnectClosed
  <2>3. Attempting
    BY <1>5 DEF ReconnectClosed, Running, Attempting
  <2>. QED  BY <1>3, <2>2, <2>3, RoomKept
<1>6. CASE ReconnectOpened
  <2>1. /\ Opened(tun) \in TunnelType /\ Opened(tun).beats = tun.beats
        /\ Opened(tun).heartbeat = tun.heartbeat
    BY <1>1, <1>6, OpenedTunnel DEF ReconnectOpened
  <2>2. tun' \in TunnelType /\ tun'.beats = tun.beats /\ tun'.heartbeat = tun.heartbeat
    BY <1>6, <2>1, Placed DEF ReconnectOpened
  <2>3. Attempting
    BY <1>6 DEF ReconnectOpened, Running, Attempting
  <2>. QED  BY <1>3, <2>2, <2>3, RoomKept
<1>7. CASE ReconnectFails
  <2>1. /\ ConnectFailed(tun) \in TunnelType /\ ConnectFailed(tun).beats = tun.beats
        /\ ConnectFailed(tun).heartbeat = tun.heartbeat
    BY <1>1, FailedConnect
  <2>2. tun' \in TunnelType /\ tun'.beats = tun.beats /\ tun'.heartbeat = tun.heartbeat
    BY <1>7, <2>1, Placed DEF ReconnectFails
  <2>3. Attempting
    BY <1>7 DEF ReconnectFails, ConnectRaises, Attempting
  <2>. QED  BY <1>3, <2>2, <2>3, RoomKept
<1>8. CASE ReconnectRetry
  <2>1. tun' \in TunnelType /\ tun'.beats = tun.beats /\ tun'.heartbeat = tun.heartbeat
    BY <1>1, <1>8, AttemptBegins DEF ReconnectRetry
  <2>2. Attempting
    BY <1>8 DEF ReconnectRetry, Running, Attempting
  <2>. QED  BY <1>3, <2>1, <2>2, RoomKept
<1>9. CASE ReconnectDone
  <2>. DEFINE e == TunnelEstablished(tun, answer["reconnect"])
  <2>1. Attempting /\ answer["reconnect"] \in 0..MaxSockets
    BY <1>9 DEF TypeOK, Callers, ReconnectDone, Running, Attempting
  <2>2. \E b \in Beats : tun.beats[b] = 0
    BY <2>1 DEF Room, Alive
  <2>3. /\ e \in TunnelType /\ e.heartbeat \in Beats
        /\ \A b \in Beats : e.beats[b] # 0 => b = e.heartbeat \/ tun.beats[b] # 0
    BY <1>1, <2>1, <2>2, Established
  <2>4. tun' = At(e, "over")
    BY <1>9 DEF ReconnectDone
  <2>. HIDE DEF e
  <2>5. /\ tun' \in TunnelType /\ tun'.beats = e.beats /\ tun'.heartbeat = e.heartbeat
        /\ tun'.reconnect = "over"
    BY <2>3, <2>4, Placed
  <2>6. ~Attempting'
    BY <2>5 DEF Attempting
  <2>. QED  BY <1>3, <2>1, <2>3, <2>5, <2>6, RoomTaken
<1>10. CASE ReconnectCancelled
  <2>1. /\ tun' \in TunnelType /\ tun'.beats = tun.beats /\ tun'.heartbeat = tun.heartbeat
        /\ tun'.reconnect = "over"
    BY <1>1, <1>10, Placed DEF ReconnectCancelled
  <2>2. ~Attempting'
    BY <2>1 DEF Attempting
  <2>. QED  BY <1>3, <2>1, <2>2, RoomKept
<1>11. CASE ReconnectCleanup
  <2>1. /\ tun' \in TunnelType /\ tun'.beats = tun.beats /\ tun'.heartbeat = tun.heartbeat
        /\ tun'.reconnect = "None"
    BY <1>1, <1>11 DEF ReconnectCleanup, TunnelType
  <2>2. ~Attempting'
    BY <2>1 DEF Attempting
  <2>. QED  BY <1>3, <2>1, <2>2, RoomKept
<1>. QED  BY <1>4, <1>5, <1>6, <1>7, <1>8, <1>9, <1>10, <1>11 DEF Reconnect

(* A step of a heartbeat task that is alive and stays alive.               *)
LEMMA BeatRoom ==
  ASSUME TypeOK, Room, NEW b \in Beats, tun.beats[b] # 0, NEW n \in 0..(Retries + 2),
         tun' = [tun EXCEPT !.beats[b] = n], user' = user
  PROVE  tun' \in TunnelType /\ Room'
<1>1. /\ tun' \in TunnelType /\ tun'.heartbeat = tun.heartbeat
      /\ tun'.reconnect = tun.reconnect
      /\ \A c \in Beats : tun'.beats[c] = IF c = b THEN n ELSE tun.beats[c]
  BY BeatCounted DEF TypeOK
<1>. QED  BY <1>1, RoomKept DEF Early, Attempting

LEMMA HeartbeatRoom ==
  ASSUME TypeOK, Room, NEW b \in Beats, Heartbeat(b)
  PROVE  tun' \in TunnelType /\ Room'
<1>1. tun \in TunnelType /\ tun.beats[b] \in 0..(Retries + 2)
  BY DEF TypeOK, TunnelType
<1>2. tun.beats[b] # 0 /\ user' = user
  BY <1>1 DEF Heartbeat, HeartbeatAsk, HeartbeatAnswered, HeartbeatFails, Retries
<1>3. 1 \in 0..(Retries + 2) /\ 2 \in 0..(Retries + 2)
  BY DEF Retries
<1>4. CASE HeartbeatAsk(b)
  <2>1. tun' = TunnelLost(tun) \/ tun' = [tun EXCEPT !.beats[b] = 2]
    BY <1>4 DEF HeartbeatAsk
  <2>2. CASE tun' = TunnelLost(tun)
    BY <1>1, <1>2, <2>2, RoomReport
  <2>3. CASE tun' = [tun EXCEPT !.beats[b] = 2]
    BY <1>2, <1>3, <2>3, BeatRoom
  <2>. QED  BY <2>1, <2>2, <2>3
<1>5. CASE HeartbeatAnswered(b)
  <2>1. tun' = [tun EXCEPT !.beats[b] = 1]
    BY <1>5 DEF HeartbeatAnswered, Asleep
  <2>. QED  BY <1>2, <1>3, <2>1, BeatRoom
<1>6. CASE HeartbeatFails(b)
  <2>1. CASE tun.beats[b] = Retries + 2 \/ tun.channel = 0
    <3>. DEFINE t == [tun EXCEPT !.beats[b] = 1]
    <3>1. tun' = TunnelLost(t)
      BY <1>6, <2>1 DEF HeartbeatFails, Asleep
    <3>2. /\ t \in TunnelType /\ t.reconnect = tun.reconnect
          /\ t.heartbeat = tun.heartbeat
          /\ \A c \in Beats : t.beats[c] = IF c = b THEN 1 ELSE tun.beats[c]
      BY <1>1, <1>3, BeatCounted
    <3>. HIDE DEF t
    <3>3. \A c \in Beats : t.beats[c] # 0 => tun.beats[c] # 0
      BY <1>2, <3>2
    <3>. QED  BY <1>2, <3>1, <3>2, <3>3, RoomReport
  <2>2. CASE ~(tun.beats[b] = Retries + 2 \/ tun.channel = 0)
    <3>. DEFINE n == tun.beats[b] + 1
    <3>1. tun' = [tun EXCEPT !.beats[b] = n]
      BY <1>1, <1>6, <2>2 DEF HeartbeatFails, TunnelType
    <3>2. n \in 0..(Retries + 2)
      BY <1>1, <2>2 DEF Retries
    <3>. HIDE DEF n
    <3>. QED  BY <1>2, <3>1, <3>2, BeatRoom
  <2>. QED  BY <2>1, <2>2
<1>. QED  BY <1>4, <1>5, <1>6 DEF Heartbeat

(* A step that leaves the heartbeat and both connecting tasks alone.       *)
LEMMA RoomUntouched ==
  ASSUME Room, tun'.beats = tun.beats, tun'.heartbeat = tun.heartbeat,
         tun'.reconnect = tun.reconnect, user' = user
  PROVE  Room'
  BY RoomKept DEF Early, Attempting

LEMMA NetworkRoom ==
  ASSUME TypeOK, Room, Network
  PROVE  tun' \in TunnelType /\ Room'
<1>1. tun \in TunnelType /\ user' = user
  BY DEF TypeOK, Network, ConnectResponse, DisconnectRequestReceived, FrameLost,
         GatewayAccepts, GatewayCloses, RequestLost
<1>2. ASSUME NEW f \in incoming, ConnectResponse(f) \/ FrameLost(f)
      PROVE  tun' \in TunnelType /\ Room'
  BY <1>1, <1>2, RoomUntouched DEF ConnectResponse, FrameLost
<1>3. ASSUME NEW f \in incoming, DisconnectRequestReceived(f)
      PROVE  tun' \in TunnelType /\ Room'
  <2>. DEFINE t == [tun EXCEPT !.channel = 0]
  <2>1. tun' = TunnelLost(tun) \/ tun' = tun \/ tun' = TunnelLost(t)
    BY <1>3 DEF DisconnectRequestReceived
  <2>2. /\ t \in TunnelType /\ t.reconnect = tun.reconnect /\ t.beats = tun.beats
        /\ t.heartbeat = tun.heartbeat
    BY <1>1, ConstantsAssumption DEF TunnelType
  <2>. HIDE DEF t
  <2>. QED  BY <1>1, <2>1, <2>2, RoomReport, RoomUntouched
<1>4. ASSUME NEW f \in tun.sent, GatewayAccepts(f) \/ GatewayCloses(f) \/ RequestLost(f)
      PROVE  tun' \in TunnelType /\ Room'
  <2>. DEFINE rest == tun.sent \ {f}
  <2>1. rest \in SUBSET Frames
    BY <1>1 DEF TunnelType
  <2>2. tun' = [tun EXCEPT !.sent = rest]
    BY <1>1, <1>4 DEF GatewayAccepts, GatewayCloses, RequestLost, TunnelType
  <2>. HIDE DEF rest
  <2>3. /\ tun' \in TunnelType /\ tun'.beats = tun.beats
        /\ tun'.heartbeat = tun.heartbeat /\ tun'.reconnect = tun.reconnect
    BY <1>1, <2>1, <2>2 DEF TunnelType
  <2>. QED  BY <1>1, <2>3, RoomUntouched
<1>. QED  BY <1>2, <1>3, <1>4 DEF Network

LEMMA ConnectionLostRoom ==
  ASSUME TypeOK, Room, NEW s \in Sockets, ConnectionLost(s) \/ LateConnectionLost(s)
  PROVE  tun' \in TunnelType /\ Room'
<1>1. tun \in TunnelType /\ user' = user
  BY DEF TypeOK, ConnectionLost, LateConnectionLost
<1>. DEFINE rest == tun.open \ {s}
            more == tun.lost \cup {s}
            o == [tun EXCEPT !.open = rest, !.lost = more]
            t == TransportStop(o)
<1>2. tun' = o \/ tun' = TunnelLost(t)
  BY <1>1 DEF ConnectionLost, LateConnectionLost, LostCallback, TunnelType
<1>3. rest \in SUBSET Sockets /\ more \in SUBSET Sockets
  BY <1>1 DEF TunnelType
<1>. HIDE DEF rest, more
<1>4. /\ o \in TunnelType /\ o.beats = tun.beats /\ o.reconnect = tun.reconnect
      /\ o.heartbeat = tun.heartbeat
  BY <1>1, <1>3 DEF TunnelType
<1>. HIDE DEF o
<1>5. /\ t \in TunnelType /\ t.beats = tun.beats /\ t.reconnect = tun.reconnect
      /\ t.heartbeat = tun.heartbeat
  BY <1>4, TransportStopped
<1>. HIDE DEF t
<1>. QED  BY <1>1, <1>2, <1>4, <1>5, RoomReport, RoomUntouched

LEMMA SequenceRoom ==
  ASSUME TypeOK, Room,
         UnexpectedSequence \/ ExpectedSequence \/ ScheduleFires \/ SendFailsTwice
  PROVE  tun' \in TunnelType /\ Room'
<1>1. tun \in TunnelType /\ tun.schedule \in BOOLEAN /\ user' = user
  BY DEF TypeOK, TunnelType, UnexpectedSequence, ExpectedSequence, ScheduleFires,
         SendFailsTwice
<1>2. CASE UnexpectedSequence
  <2>. DEFINE on == tun.schedule \/ tun.reconnect = "None"
  <2>1. on \in BOOLEAN /\ tun' = [tun EXCEPT !.schedule = on]
    BY <1>1, <1>2 DEF UnexpectedSequence, TunnelType
  <2>. HIDE DEF on
  <2>2. /\ tun' \in TunnelType /\ tun'.beats = tun.beats
        /\ tun'.heartbeat = tun.heartbeat /\ tun'.reconnect = tun.reconnect
    BY <1>1, <2>1, ScheduleSet
  <2>. QED  BY <1>1, <2>2, RoomUntouched
<1>. DEFINE t == [tun EXCEPT !.schedule = FALSE]
<1>3. /\ t \in TunnelType /\ t.beats = tun.beats
      /\ t.heartbeat = tun.heartbeat /\ t.reconnect = tun.reconnect
  BY <1>1, ScheduleSet
<1>4. CASE ExpectedSequence
  <2>1. tun' = t
    BY <1>4 DEF ExpectedSequence
  <2>. HIDE DEF t
  <2>. QED  BY <1>1, <1>3, <2>1, RoomUntouched
<1>5. CASE ScheduleFires
  <2>1. tun' = TunnelLost(t)
    BY <1>5 DEF ScheduleFires
  <2>. HIDE DEF t
  <2>. QED  BY <1>1, <1>3, <2>1, RoomReport
<1>6. CASE SendFailsTwice
  BY <1>1, <1>6, RoomReport DEF SendFailsTwice
<1>. QED  BY <1>2, <1>4, <1>5, <1>6

(* The other variables.                                                    *)
OthersTyped ==
    /\ user \in {"idle", "opening", "requesting", "up", "failed", "closing", "down"}
    /\ answer \in [Callers -> 0..MaxSockets]
    /\ gateway \subseteq [channel : Channels, socket : Sockets]
    /\ incoming \subseteq Frames
    /\ sockets \in 0..MaxSockets
    /\ faults \in 0..MaxFaults
    /\ windows \subseteq {"startup", "closing", "cleanup"}
    /\ config \in [tcp : BOOLEAN, auto_reconnect : BOOLEAN]

LEMMA WindowsTyped ==
  ASSUME TypeOK, Noted
  PROVE  windows' \subseteq {"startup", "closing", "cleanup"}
  BY DEF TypeOK, Noted

LEMMA UserTyped ==
  ASSUME TypeOK, User \/ UserDisconnect \/ UserDisconnected
  PROVE  OthersTyped'
<1>1. CASE UserConnect \/ UserDisconnect \/ UserDisconnected
  BY <1>1 DEF TypeOK, OthersTyped, UserConnect, UserDisconnect, UserDisconnected
<1>2. CASE UserOpened
  <2>1. sockets' \in 0..MaxSockets
    BY <1>2, ConstantsAssumption DEF TypeOK, UserOpened
  <2>. QED  BY <1>2, <2>1 DEF TypeOK, OthersTyped, UserOpened
<1>3. CASE UserConnectFails
  <2>1. faults' \in 0..MaxFaults
    BY <1>3, ConnectRaisesCounted DEF TypeOK, UserConnectFails
  <2>. QED  BY <1>3, <2>1 DEF TypeOK, OthersTyped, UserConnectFails
<1>4. CASE UserConnected
  <2>1. answer' \in [Callers -> 0..MaxSockets]
    BY <1>4, ConstantsAssumption DEF TypeOK, Callers, UserConnected
  <2>. QED  BY <1>4, <2>1 DEF TypeOK, OthersTyped, UserConnected
<1>. QED  BY <1>1, <1>2, <1>3, <1>4 DEF User

LEMMA ReconnectTyped ==
  ASSUME TypeOK, Reconnect
  PROVE  OthersTyped'
<1>1. CASE ReconnectBegin \/ ReconnectClosed \/ ReconnectRetry \/ ReconnectCleanup
  BY <1>1 DEF TypeOK, OthersTyped, ReconnectBegin, ReconnectClosed, ReconnectRetry,
              ReconnectCleanup
<1>2. CASE ReconnectOpened
  <2>1. sockets' \in 0..MaxSockets
    BY <1>2, ConstantsAssumption DEF TypeOK, ReconnectOpened
  <2>. QED  BY <1>2, <2>1 DEF TypeOK, OthersTyped, ReconnectOpened
<1>3. CASE ReconnectFails
  <2>1. faults' \in 0..MaxFaults
    BY <1>3, ConnectRaisesCounted DEF TypeOK, ReconnectFails
  <2>. QED  BY <1>3, <2>1 DEF TypeOK, OthersTyped, ReconnectFails
<1>4. CASE ReconnectDone \/ ReconnectCancelled
  <2>1. answer' \in [Callers -> 0..MaxSockets]
    BY <1>4, ConstantsAssumption DEF TypeOK, Callers, ReconnectDone, ReconnectCancelled
  <2>. QED  BY <1>4, <2>1 DEF TypeOK, OthersTyped, ReconnectDone, ReconnectCancelled
<1>. QED  BY <1>1, <1>2, <1>3, <1>4 DEF Reconnect

LEMMA HeartbeatTyped ==
  ASSUME TypeOK, NEW b \in Beats, Heartbeat(b)
  PROVE  OthersTyped'
<1>1. CASE HeartbeatAsk(b) \/ HeartbeatAnswered(b)
  BY <1>1 DEF TypeOK, OthersTyped, HeartbeatAsk, HeartbeatAnswered
<1>2. CASE HeartbeatFails(b)
  <2>1. faults' \in 0..MaxFaults
    BY <1>2, ConstantsAssumption DEF TypeOK, HeartbeatFails
  <2>. QED  BY <1>2, <2>1 DEF TypeOK, OthersTyped, HeartbeatFails
<1>. QED  BY <1>1, <1>2 DEF Heartbeat

LEMMA NetworkTyped ==
  ASSUME TypeOK, Network
  PROVE  OthersTyped'
<1>1. ASSUME NEW f \in incoming, ConnectResponse(f)
      PROVE  OthersTyped'
  <2>1. answer' \in [Callers -> 0..MaxSockets]
    BY <1>1 DEF TypeOK, Frames, Callers, ConnectResponse
  <2>. QED  BY <1>1, <2>1 DEF TypeOK, OthersTyped, ConnectResponse
<1>2. ASSUME NEW f \in incoming, DisconnectRequestReceived(f)
      PROVE  OthersTyped'
  <2>1. windows' \subseteq {"startup", "closing", "cleanup"}
    BY <1>2, WindowsTyped DEF DisconnectRequestReceived
  <2>. QED  BY <1>2, <2>1 DEF TypeOK, OthersTyped, DisconnectRequestReceived
<1>3. ASSUME NEW f \in incoming, FrameLost(f)
      PROVE  OthersTyped'
  <2>1. faults' \in 0..MaxFaults
    BY <1>3, ConstantsAssumption DEF TypeOK, FrameLost
  <2>. QED  BY <1>3, <2>1 DEF TypeOK, OthersTyped, FrameLost
<1>4. ASSUME NEW f \in tun.sent, GatewayAccepts(f)
      PROVE  OthersTyped'
  <2>1. f.socket \in Sockets
    BY DEF TypeOK, TunnelType, Frames
  <2>2. Frame("ConnectResponse", f.socket, f.socket) \in Frames
    BY <2>1, ConstantsAssumption DEF Frame, Frames, Sockets
  <2>3. [channel |-> f.socket, socket |-> f.socket] \in [channel : Channels, socket : Sockets]
    BY <2>1 DEF Channels, Sockets
  <2>. QED  BY <1>4, <2>2, <2>3 DEF TypeOK, OthersTyped, GatewayAccepts
<1>5. ASSUME NEW f \in tun.sent, GatewayCloses(f)
      PROVE  OthersTyped'
  BY <1>5 DEF TypeOK, OthersTyped, GatewayCloses
<1>6. ASSUME NEW f \in tun.sent, RequestLost(f)
      PROVE  OthersTyped'
  <2>1. faults' \in 0..MaxFaults
    BY <1>6, ConstantsAssumption DEF TypeOK, RequestLost
  <2>. QED  BY <1>6, <2>1 DEF TypeOK, OthersTyped, RequestLost
<1>. QED  BY <1>1, <1>2, <1>3, <1>4, <1>5, <1>6 DEF Network

LEMMA CallbacksTyped ==
  ASSUME TypeOK,
         \/ \E s \in Sockets : ConnectionLost(s) \/ LateConnectionLost(s)
         \/ UnexpectedSequence \/ ExpectedSequence \/ ScheduleFires \/ SendFailsTwice
  PROVE  OthersTyped'
<1>1. CASE \E s \in Sockets : ConnectionLost(s) \/ LateConnectionLost(s)
  <2>1. faults' \in 0..MaxFaults /\ windows' \subseteq {"startup", "closing", "cleanup"}
    BY <1>1, WindowsTyped, ConstantsAssumption DEF TypeOK, ConnectionLost, LateConnectionLost
  <2>. QED  BY <1>1, <2>1 DEF TypeOK, OthersTyped, ConnectionLost, LateConnectionLost
<1>2. CASE UnexpectedSequence
  <2>1. faults' \in 0..MaxFaults /\ windows' \subseteq {"startup", "closing", "cleanup"}
    BY <1>2, WindowsTyped, ConstantsAssumption DEF TypeOK, UnexpectedSequence
  <2>. QED  BY <1>2, <2>1 DEF TypeOK, OthersTyped, UnexpectedSequence
<1>3. CASE ExpectedSequence \/ ScheduleFires
  BY <1>3 DEF TypeOK, OthersTyped, ExpectedSequence, ScheduleFires
<1>4. CASE SendFailsTwice
  <2>1. faults' \in 0..MaxFaults
    BY <1>4, ConstantsAssumption DEF TypeOK, SendFailsTwice
  <2>. QED  BY <1>4, <2>1 DEF TypeOK, OthersTyped, SendFailsTwice
<1>. QED  BY <1>1, <1>2, <1>3, <1>4

LEMMA GatewayTyped ==
  ASSUME TypeOK, NEW g \in gateway, GatewayDrops(g) \/ GatewayNotices(g)
  PROVE  OthersTyped'
<1>1. CASE GatewayDrops(g)
  <2>1. Frame("DisconnectRequest", g.socket, g.channel) \in Frames
    BY ConstantsAssumption DEF TypeOK, Frame, Frames, Channels
  <2>2. faults' \in 0..MaxFaults
    BY <1>1, ConstantsAssumption DEF TypeOK, GatewayDrops
  <2>. QED  BY <1>1, <2>1, <2>2 DEF TypeOK, OthersTyped, GatewayDrops
<1>2. CASE GatewayNotices(g)
  BY <1>2 DEF TypeOK, OthersTyped, GatewayNotices
<1>. QED  BY <1>1, <1>2

LEMMA RoomStep ==
  ASSUME TypeOK, Room, [Next]_vars
  PROVE  TypeOK' /\ Room'
<1>1. CASE UNCHANGED vars
  <2>1. TypeOK'
    BY <1>1 DEF TypeOK, vars
  <2>. QED  BY <1>1, <2>1, RoomUntouched DEF vars
<1>2. CASE User \/ UserDisconnect \/ UserDisconnected
  BY <1>2, UserRoom, UserDisconnectRoom, UserTyped DEF TypeOK, OthersTyped
<1>3. CASE Reconnect
  BY <1>3, ReconnectRoom, ReconnectTyped DEF TypeOK, OthersTyped
<1>4. ASSUME NEW b \in Beats, Heartbeat(b)
      PROVE  TypeOK' /\ Room'
  BY <1>4, HeartbeatRoom, HeartbeatTyped DEF TypeOK, OthersTyped
<1>5. CASE Network
  BY <1>5, NetworkRoom, NetworkTyped DEF TypeOK, OthersTyped
<1>6. ASSUME NEW s \in Sockets, ConnectionLost(s) \/ LateConnectionLost(s)
      PROVE  TypeOK' /\ Room'
  BY <1>6, ConnectionLostRoom, CallbacksTyped DEF TypeOK, OthersTyped
<1>7. CASE UnexpectedSequence \/ ExpectedSequence \/ ScheduleFires \/ SendFailsTwice
  BY <1>7, SequenceRoom, CallbacksTyped DEF TypeOK, OthersTyped
<1>8. ASSUME NEW g \in gateway, GatewayDrops(g) \/ GatewayNotices(g)
      PROVE  TypeOK' /\ Room'
  <2>1. tun' = tun /\ user' = user
    BY <1>8 DEF GatewayDrops, GatewayNotices
  <2>2. Room'
    BY <2>1, RoomUntouched
  <2>. QED  BY <1>8, <2>1, <2>2, GatewayTyped DEF TypeOK, OthersTyped
<1>. QED  BY <1>1, <1>2, <1>3, <1>4, <1>5, <1>6, <1>7, <1>8 DEF Next

(* In every behaviour, whenever losses are reported: the tunnel's fields   *)
(* stay within their types.  The part that is not plain is that two places *)
(* suffice for heartbeat tasks: TunnelEstablished always finds one free,   *)
(* so that never more than one task is beyond the reach of                 *)
(* stop_heartbeat().                                                       *)
THEOREM TypeCorrect ==
  Spec => []TypeOK
<1>1. Init => TypeOK /\ Room
  BY GoodInit, RoomInit DEF Good
<1>2. TypeOK /\ Room /\ [Next]_vars => TypeOK' /\ Room'
  BY RoomStep
<1>. QED  BY <1>1, <1>2, PTL DEF Spec

=============================================================================
