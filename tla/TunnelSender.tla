---------------------------- MODULE TunnelSender ----------------------------
(***************************************************************************)
(* UDPTunnel.send_cemi: how a frame gets to the gateway over datagrams     *)
(* that are lost, delayed and reordered, while the tunnel may be lost and  *)
(* reconnected (tunnel.py:317-361 and 518-598, with the request objects of *)
(* io/request_response).  _send_lock lets one frame through at a time, so  *)
(* there is one sender here; the reconnect task is reduced to what it does *)
(* to the channel and the sequence number (module Tunnel has the rest).    *)
(* The gateway is external and follows the rules quoted in send_cemi.      *)
(***************************************************************************)
EXTENDS Naturals, Sequences, Bags

CONSTANTS
    SeqMod,         \* sequence counters count modulo this; 256 in the code
    MaxFrames,      \* bound: frames handed to send_cemi
    MaxChannels,    \* bound: channels opened
    MaxFaults       \* bound: lost or late datagrams and lost tunnels

ASSUME ConstantsAssumption ==
    /\ SeqMod \in Nat /\ SeqMod >= 4
    /\ MaxFrames \in Nat
    /\ MaxChannels \in Nat \ {0}
    /\ MaxFaults \in Nat

Requests == [channel : 1..MaxChannels, seq : 0..(SeqMod - 1), cemi : 1..MaxFrames]
Acks     == Requests    \* an ACK has no frame; its cemi is history

VARIABLES
    pc,         \* where send_cemi is suspended
    current,    \* the frame in its hands; frames are numbered from 1
    seq,        \* sequence_number
    channel,    \* communication_channel; 0 is None
    opened,     \* channels opened so far; the last one has this number
    open,       \* transport.transport is not None
    reconnect,  \* _reconnect_task: "None", "closing" the channel and the
                \* socket, "opening" new ones, or "cancelled"
    user,       \* disconnect(): not called ("up"), waiting ("closing"), or over
    requests,   \* TUNNELLING_REQUESTs on the way, a bag
    acks,       \* TUNNELLING_ACKs on the way to the current socket, a bag
    gateway,    \* the channel the gateway has open, and the counter it expects
    bus,        \* history: the frames the gateway accepted, with their channel
    result,     \* history: how send_cemi ended for each frame
    faults,
    foreign,    \* history: the frames that an ACK of another request confirmed
    auto_reconnect

vars == <<pc, current, seq, channel, opened, open, reconnect, user,
          requests, acks, gateway, bus, result, faults, foreign, auto_reconnect>>

sendVars == <<pc, current, seq, result>>
connVars == <<channel, opened, open, reconnect, user>>
netVars  == <<requests, acks, gateway, bus>>

Init ==
    /\ pc = "idle"
    /\ current = 0
    /\ seq = 0
    /\ channel = 1
    /\ opened = 1
    /\ open = TRUE
    /\ reconnect = "None"
    /\ user = "up"
    /\ requests = EmptyBag
    /\ acks = EmptyBag
    /\ gateway = [channel |-> 1, expected |-> 0]
    /\ bus = <<>>
    /\ result = <<>>
    /\ faults = 0
    /\ foreign = {}
    /\ auto_reconnect \in BOOLEAN

Fault == faults < MaxFaults /\ faults' = faults + 1

-----------------------------------------------------------------------------
(* send_cemi ends: the finally clause counts, whatever happened.           *)
End(how) ==
    /\ pc' = "idle"
    /\ result' = Append(result, how)
    /\ seq' = (seq + 1) % SeqMod

(* _tunnelling_request: raises without a channel, else sends and waits.  A *)
(* frame for a closed socket counts as unanswered.                         *)
Request(cemi, next) ==
    IF channel = 0
      THEN /\ End(IF user = "up" THEN "dropped" ELSE "failed")
           /\ UNCHANGED requests
      ELSE /\ requests' = IF open
                 THEN requests (+) SetToBag(
                          {[channel |-> channel, seq |-> seq, cemi |-> cemi]})
                 ELSE requests
           /\ pc' = next
           /\ UNCHANGED <<seq, result>>

(* The network keeps no datagram until its sequence counter comes round:   *)
(* none survives the next 252 frames.                                      *)
NoOldDatagram ==
    \A d \in BagToSet(requests) \cup BagToSet(acks) :
        current + 1 - d.cemi <= SeqMod - 4

(* A frame is handed over; _send_ready waits for a reconnect first.        *)
SendBegin ==
    /\ pc = "idle"
    /\ current < MaxFrames
    /\ NoOldDatagram
    /\ current' = current + 1
    /\ IF reconnect # "None"
         THEN pc' = "ready" /\ UNCHANGED <<seq, requests, result>>
         ELSE Request(current + 1, "first")
    /\ UNCHANGED <<connVars, acks, gateway, bus, faults, foreign, auto_reconnect>>

SendReady ==
    /\ pc = "ready"
    /\ reconnect = "None"
    /\ Request(current, "first")
    /\ UNCHANGED <<current, connVars, acks, gateway, bus, faults, foreign, auto_reconnect>>

Waiting == pc \in {"first", "second", "third"}

(* response_rec_callback: whatever TUNNELLING_ACK arrives confirms the     *)
(* pending request.  Neither its channel nor its counter is compared; on   *)
(* one socket there are only ACKs of one channel.                          *)
SendConfirmed(a) ==
    /\ Waiting
    /\ acks' = acks (-) SetToBag({a})
    /\ foreign' = IF a.seq = seq THEN foreign ELSE foreign \cup {current}
    /\ End("ok")
    /\ UNCHANGED <<current, connVars, requests, gateway, bus, faults, auto_reconnect>>

(* An ACK that nothing waits for is unhandled.                             *)
AckUnhandled(a) ==
    /\ ~Waiting
    /\ acks' = acks (-) SetToBag({a})
    /\ UNCHANGED <<sendVars, connVars, requests, gateway, bus, faults, foreign, auto_reconnect>>

(* The gateway may still answer a request.                                 *)
Answerable ==
    \/ acks # EmptyBag
    \/ \E r \in BagToSet(requests) : r.channel = gateway.channel

(* The timeout of one second; an answer that takes longer is a fault.      *)
TimedOut ==
    IF Answerable THEN Fault ELSE UNCHANGED faults

(* Fault: the repetition has a sequence counter of its own.                *)
SendSecondCounted ==
    /\ pc = "first"
    /\ TimedOut
    /\ channel # 0
    /\ seq' = (seq + 1) % SeqMod
    /\ requests' = requests (+) SetToBag({[channel |-> channel, seq |-> seq', cemi |-> current]})
    /\ pc' = "second"
    /\ UNCHANGED <<current, result, connVars, acks, gateway, bus, foreign, auto_reconnect>>

(* The frame is repeated once.                                             *)
SendSecond ==
    /\ pc = "first"
    /\ TimedOut
    /\ Request(current, "second")
    /\ UNCHANGED <<current, connVars, acks, gateway, bus, foreign, auto_reconnect>>

(* _tunnel_lost: creates a reconnect task; without auto_reconnect the      *)
(* gateway is told and the socket closed, but the channel is kept.         *)
Lost ==
    IF auto_reconnect
      THEN /\ reconnect' = IF reconnect = "None" THEN "closing" ELSE reconnect
           /\ UNCHANGED <<open, acks, gateway>>
      ELSE /\ open' = FALSE
           /\ acks' = EmptyBag
           /\ gateway' = [gateway EXCEPT !.channel = 0]
           /\ UNCHANGED reconnect

(* Two tries failed: the tunnel is lost, unless a reconnect is running,    *)
(* and the sender waits for the reconnect.                                 *)
SendLost ==
    /\ pc = "second"
    /\ TimedOut
    /\ Lost
    /\ IF auto_reconnect THEN pc' = "lost" /\ UNCHANGED <<seq, result>> ELSE End("failed")
    /\ UNCHANGED <<current, channel, opened, user, requests, bus, foreign, auto_reconnect>>

(* Fault: the frame is not sent a third time, and reported as sent.        *)
SendThirdNot ==
    /\ pc = "lost"
    /\ reconnect = "None"
    /\ End("ok")
    /\ UNCHANGED <<current, connVars, netVars, faults, foreign, auto_reconnect>>

(* The reconnect task has ended.                                           *)
SendThird ==
    /\ pc = "lost"
    /\ reconnect = "None"
    /\ Request(current, "third")
    /\ UNCHANGED <<current, connVars, acks, gateway, bus, faults, foreign, auto_reconnect>>

SendFails ==
    /\ pc = "third"
    /\ TimedOut
    /\ End("failed")
    /\ UNCHANGED <<current, connVars, netVars, foreign, auto_reconnect>>

Sender ==
    \/ SendReady \/ SendSecond \/ SendLost \/ SendThird \/ SendFails

-----------------------------------------------------------------------------
(* The reconnect task.                                                     *)

(* The tunnel is lost for another reason: a heartbeat, a bad counter.      *)
TunnelLost ==
    /\ Fault
    /\ reconnect = "None"
    /\ open
    /\ channel # 0
    /\ Lost
    /\ UNCHANGED <<sendVars, channel, opened, user, requests, bus, foreign, auto_reconnect>>

(* A DISCONNECT_REQUEST of the gateway.  The socket stays open until the   *)
(* reconnect task has begun.                                               *)
GatewayDisconnects ==
    /\ Fault
    /\ gateway.channel # 0
    /\ gateway.channel = channel
    /\ open
    /\ channel' = 0
    /\ IF auto_reconnect
         THEN /\ reconnect' = IF reconnect = "None" THEN "closing" ELSE reconnect
              /\ UNCHANGED <<open, acks>>
         ELSE open' = FALSE /\ acks' = EmptyBag /\ UNCHANGED reconnect
    /\ gateway' = [gateway EXCEPT !.channel = 0]
    /\ UNCHANGED <<sendVars, opened, user, requests, bus, foreign, auto_reconnect>>

(* _disconnect_request ends, at once without a channel; the socket is      *)
(* closed and with it the way for ACKs that are still under way.  The      *)
(* gateway is taken to have closed the old channel by then.                *)
ReconnectClosed ==
    /\ reconnect = "closing"
    /\ channel' = 0
    /\ open' = FALSE
    /\ acks' = EmptyBag
    /\ gateway' = [gateway EXCEPT !.channel = 0]
    /\ reconnect' = "opening"
    /\ UNCHANGED <<sendVars, opened, user, requests, bus, faults, foreign, auto_reconnect>>

(* Fault: the reconnect task takes _send_lock.                             *)
ReconnectedLocked ==
    /\ pc = "idle"
    /\ reconnect = "opening"
    /\ opened < MaxChannels
    /\ opened' = opened + 1
    /\ channel' = opened + 1
    /\ open' = TRUE
    /\ gateway' = [channel |-> opened + 1, expected |-> 0]
    /\ seq' = 0
    /\ reconnect' = "None"
    /\ UNCHANGED <<pc, current, result, user, requests, acks, bus, faults, foreign, auto_reconnect>>

(* connect() succeeds: _tunnel_established starts counting from 0.         *)
Reconnected ==
    /\ reconnect = "opening"
    /\ opened < MaxChannels
    /\ opened' = opened + 1
    /\ channel' = opened + 1
    /\ open' = TRUE
    /\ gateway' = [channel |-> opened + 1, expected |-> 0]
    /\ seq' = 0
    /\ reconnect' = "None"
    /\ UNCHANGED <<pc, current, result, user, requests, acks, bus, faults, foreign, auto_reconnect>>

(* disconnect(), up to the answer to its Disconnect request and after it.  *)
Closed ==
    /\ user' = "down"
    /\ channel' = 0
    /\ open' = FALSE
    /\ acks' = EmptyBag
    /\ gateway' = [gateway EXCEPT !.channel = 0]

Disconnect ==
    /\ user = "up"
    /\ reconnect' = IF reconnect = "None" THEN "None" ELSE "cancelled"
    /\ IF channel = 0 \/ ~open
         THEN Closed
         ELSE user' = "closing" /\ UNCHANGED <<channel, open, acks, gateway>>
    /\ UNCHANGED <<sendVars, opened, requests, bus, faults, foreign, auto_reconnect>>

Disconnected ==
    /\ user = "closing"
    /\ Closed
    /\ UNCHANGED <<sendVars, opened, reconnect, requests, bus, faults, foreign, auto_reconnect>>

(* The cancelled task ends: a sender that waits for it before its third    *)
(* try raises, one in _send_ready goes on.                                 *)
ReconnectCancelled ==
    /\ reconnect = "cancelled"
    /\ reconnect' = "None"
    /\ IF pc = "lost" THEN End("failed") ELSE UNCHANGED <<pc, seq, result>>
    /\ UNCHANGED <<current, channel, opened, open, user, netVars, faults, foreign, auto_reconnect>>

-----------------------------------------------------------------------------
(* The gateway and the network.                                            *)

Ack(r) == SetToBag({r})

(* The expected counter is accepted, the one before it is a repetition     *)
(* and only confirmed, every other frame is discarded.                     *)
GatewayReceives(r) ==
    /\ requests' = requests (-) SetToBag({r})
    /\ IF r.channel # gateway.channel
         THEN UNCHANGED <<acks, gateway, bus>>
         ELSE CASE r.seq = gateway.expected ->
                       /\ bus' = Append(bus, [channel |-> r.channel, cemi |-> r.cemi])
                       /\ gateway' = [gateway EXCEPT !.expected = (@ + 1) % SeqMod]
                       /\ acks' = acks (+) Ack(r)
                [] (r.seq + 1) % SeqMod = gateway.expected ->
                       /\ acks' = acks (+) Ack(r)
                       /\ UNCHANGED <<gateway, bus>>
                [] OTHER -> UNCHANGED <<acks, gateway, bus>>
    /\ UNCHANGED <<sendVars, connVars, faults, foreign, auto_reconnect>>

RequestLost(r) ==
    /\ Fault
    /\ requests' = requests (-) SetToBag({r})
    /\ UNCHANGED <<sendVars, connVars, acks, gateway, bus, foreign, auto_reconnect>>

(* Or it carries an error status, which the sender treats alike.           *)
AckLost(a) ==
    /\ Fault
    /\ acks' = acks (-) SetToBag({a})
    /\ UNCHANGED <<sendVars, connVars, requests, gateway, bus, foreign, auto_reconnect>>

Deliver ==
    \/ \E r \in BagToSet(requests) : GatewayReceives(r)
    \/ \E a \in BagToSet(acks) : SendConfirmed(a) \/ AckUnhandled(a)

Lose ==
    \/ \E r \in BagToSet(requests) : RequestLost(r)
    \/ \E a \in BagToSet(acks) : AckLost(a)

-----------------------------------------------------------------------------

Next ==
    \/ SendBegin \/ Sender
    \/ TunnelLost \/ GatewayDisconnects \/ ReconnectClosed \/ Reconnected
    \/ Disconnect \/ Disconnected \/ ReconnectCancelled
    \/ Deliver \/ Lose

Spec == Init /\ [][Next]_vars

(* Timeouts fire, the gateway answers and the reconnect task succeeds in   *)
(* the end; the application need not send.                                 *)
Fairness ==
    /\ WF_vars(Sender)
    /\ WF_vars(Deliver)
    /\ WF_vars(ReconnectClosed)
    /\ WF_vars(Reconnected)
    /\ WF_vars(Disconnected)
    /\ WF_vars(ReconnectCancelled)

FairSpec == Spec /\ Fairness

-----------------------------------------------------------------------------
(* Properties.                                                             *)

TypeOK ==
    /\ pc \in {"idle", "ready", "first", "second", "lost", "third"}
    /\ current \in 0..MaxFrames
    /\ seq \in 0..(SeqMod - 1)
    /\ channel \in 0..MaxChannels
    /\ opened \in 1..MaxChannels
    /\ open \in BOOLEAN
    /\ reconnect \in {"None", "closing", "opening", "cancelled"}
    /\ user \in {"up", "closing", "down"}
    /\ BagToSet(requests) \subseteq Requests
    /\ BagToSet(acks) \subseteq Acks
    /\ gateway \in [channel : 0..MaxChannels, expected : 0..(SeqMod - 1)]
    /\ bus \in Seq([channel : 1..MaxChannels, cemi : 1..MaxFrames])
    /\ result \in Seq({"ok", "failed", "dropped"})
    /\ faults \in 0..MaxFaults
    /\ foreign \subseteq 1..MaxFrames
    /\ auto_reconnect \in BOOLEAN

OnBus(cemi) == \E i \in 1..Len(bus) : bus[i].cemi = cemi

(* A frame for which send_cemi returned is on the bus whenever the ACK     *)
(* that confirmed it carries the counter of the request, however late it   *)
(* came, whatever gap a failed frame has left and over every wrap of the   *)
(* counter.  The code compares no counters: a frame that the ACK of        *)
(* another request has confirmed is in foreign, and may be lost.           *)
ConfirmedOnBus ==
    \A n \in 1..Len(result) : result[n] = "ok" => OnBus(n) \/ n \in foreign

(* The gateway puts the frames on the bus in the order of the calls.  A    *)
(* repetition never gets through twice on one channel; only the third try  *)
(* after a reconnect may repeat a frame that the old channel had accepted. *)
BusInOrder ==
    \A i, j \in 1..Len(bus) : i < j =>
        \/ bus[i].cemi < bus[j].cemi
        \/ bus[i].cemi = bus[j].cemi /\ bus[i].channel < bus[j].channel

(* Every call of send_cemi returns or raises once the faults are over.     *)
SendEnds == \A n \in 1..MaxFrames : (current = n) ~> (Len(result) >= n)

=============================================================================
