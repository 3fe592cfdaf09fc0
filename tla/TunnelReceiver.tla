--------------------------- MODULE TunnelReceiver ---------------------------
(***************************************************************************)
(* UDPTunnel._tunnelling_request_received: how frames of the gateway are   *)
(* taken over from datagrams that are lost, duplicated, delayed and        *)
(* reordered, and how a gap in the sequence counters tears the tunnel down *)
(* (tunnel.py:497-510 and 606-695).                                        *)
(*                                                                         *)
(* The counters in the frames are bytes and wrap around.  For the          *)
(* properties each frame also carries its index in the tunnel, which the   *)
(* code does not see.  A datagram is a member of a set that stays there    *)
(* while it lives: it may arrive never, once, or often, in any order.      *)
(***************************************************************************)
EXTENDS Integers

CONSTANTS
    Modulus,    \* sequence counters count modulo this; 256 in the code
    Lifetime,   \* a datagram dies when the gateway is this many frames ahead
    Window,     \* frames the gateway may go on without a confirmation
    MaxIndex,   \* bound: frames the gateway sends in a tunnel
    MaxTunnels  \* bound: tunnels opened

ASSUME ConstantsAssumption ==
    /\ Modulus \in Nat
    /\ Lifetime \in Nat
    /\ Window \in Nat \ {0}
    /\ MaxIndex \in Nat \ {0}
    /\ MaxTunnels \in Nat \ {0}

(* What one byte can tell apart: the oldest datagram that is still under   *)
(* way and the newest one are less than Modulus frames apart.              *)
ASSUME ModulusAssumption == Lifetime + 1 < Modulus /\ Window + 1 < Modulus

Counters == 0..(Modulus - 1)
Frames   == [index : 1..MaxIndex, seq : Counters]

VARIABLES
    phase,      \* "up"; or the reconnect task closes the old tunnel
                \* ("closing"), opens a socket ("opening") or waits for the
                \* ConnectResponse ("requesting")
    reconnecting, \* _reconnect_task is not None
    expected,   \* expected_sequence_number
    schedule,   \* _invalid_sequence_number_reconnect_task is pending
    gateway,    \* the frame the gateway is about to send or has sent, and
                \* whether it has the channel open
    requests,   \* TUNNELLING_REQUESTs that may still arrive
    acks,       \* TUNNELLING_ACKs that may still arrive
    last,       \* history: index of the last frame handed to
                \* cemi_received_callback in this tunnel; 0 is none
    tunnels     \* tunnels opened so far

vars == <<phase, reconnecting, expected, schedule, gateway, requests, acks, last, tunnels>>

Init ==
    /\ phase = "opening"
    /\ reconnecting = FALSE
    /\ expected = 0
    /\ schedule = FALSE
    /\ gateway = [open |-> FALSE, index |-> 1, seq |-> 0]
    /\ requests = {}
    /\ acks = {}
    /\ last = 0
    /\ tunnels = 0

-----------------------------------------------------------------------------
(* x + 1 & 0xFF and x - 1 & 0xFF                                           *)
Up(c)   == IF c = Modulus - 1 THEN 0 ELSE c + 1
Down(c) == IF c = 0 THEN Modulus - 1 ELSE c - 1

(* _send_tunnelling_ack                                                    *)
SendAck(f) == acks' = acks \cup {f}

(* The expected counter: the frame is confirmed and handed over.           *)
Accept(f) ==
    /\ f.seq = expected
    /\ expected' = Up(expected)
    /\ schedule' = FALSE
    /\ SendAck(f)
    /\ last' = f.index
    /\ UNCHANGED <<phase, reconnecting, gateway, requests, tunnels>>

(* One less: a repetition, confirmed again and discarded.                  *)
Repeated(f) ==
    /\ f.seq # expected
    /\ f.seq = Down(expected)
    /\ SendAck(f)
    /\ UNCHANGED <<phase, reconnecting, expected, schedule, gateway, requests, last, tunnels>>

(* Fault: an unexpected frame is confirmed as well.                        *)
UnexpectedAcked(f) ==
    /\ f.seq \notin {expected, Down(expected)}
    /\ schedule' = (schedule \/ ~reconnecting)
    /\ SendAck(f)
    /\ UNCHANGED <<phase, reconnecting, expected, gateway, requests, last, tunnels>>

(* Any other: discarded; the tunnel is given up after two seconds unless   *)
(* the expected frame comes or a reconnect is in progress.                 *)
Unexpected(f) ==
    /\ f.seq \notin {expected, Down(expected)}
    /\ schedule' = (schedule \/ ~reconnecting)
    /\ UNCHANGED <<phase, reconnecting, expected, gateway, requests, acks, last, tunnels>>

TunnellingRequestReceived ==
    /\ phase # "opening"
    /\ \E f \in requests : Accept(f) \/ Repeated(f) \/ Unexpected(f)

-----------------------------------------------------------------------------
(* The tunnel is lost and opened again.                                    *)

(* Fault: the pending schedule is not cancelled.                           *)
LostScheduled ==
    /\ reconnecting' = TRUE
    /\ phase' = "closing"
    /\ UNCHANGED <<expected, schedule, gateway, requests, acks, last, tunnels>>

(* _reconnect up to its first await.  The transport still listens.         *)
Lost ==
    /\ reconnecting' = TRUE
    /\ phase' = "closing"
    /\ schedule' = FALSE
    /\ UNCHANGED <<expected, gateway, requests, acks, last, tunnels>>

(* _schedule_tunnel_lost.  A Connect request is over within one second, so *)
(* the two seconds end when the tunnel is up or a first connect() failed.  *)
ScheduleFires ==
    /\ schedule
    /\ \/ phase = "up" /\ Lost
       \/ /\ phase = "opening"
          /\ reconnecting' = TRUE
          /\ schedule' = FALSE
          /\ UNCHANGED <<phase, expected, gateway, requests, acks, last, tunnels>>

(* Another reason: the heartbeat, a DISCONNECT_REQUEST, a failed send.     *)
TunnelLost ==
    /\ phase = "up"
    /\ Lost

(* The socket is closed: what is under way is lost with it.                *)
SocketClosed ==
    /\ phase' = "opening"
    /\ requests' = {}
    /\ acks' = {}
    /\ gateway' = [gateway EXCEPT !.open = FALSE]

ReconnectClosed ==
    /\ phase = "closing"
    /\ SocketClosed
    /\ UNCHANGED <<reconnecting, expected, schedule, last, tunnels>>

(* Fault: setup_tunnel() does not reset the counter.                       *)
SetupTunnelKeeps ==
    /\ phase = "opening"
    /\ tunnels < MaxTunnels
    /\ tunnels' = tunnels + 1
    /\ phase' = "requesting"
    /\ last' = 0
    /\ UNCHANGED <<reconnecting, expected, schedule, gateway, requests, acks>>

(* The socket is open; setup_tunnel() starts counting from 0 before the    *)
(* ConnectRequest is sent.                                                 *)
SetupTunnel ==
    /\ phase = "opening"
    /\ tunnels < MaxTunnels
    /\ tunnels' = tunnels + 1
    /\ phase' = "requesting"
    /\ expected' = 0
    /\ last' = 0
    /\ UNCHANGED <<reconnecting, schedule, gateway, requests, acks>>

(* connect() returns, perhaps after the first frames of the new tunnel.    *)
Connected ==
    /\ phase = "requesting"
    /\ gateway.open
    /\ phase' = "up"
    /\ reconnecting' = FALSE
    /\ UNCHANGED <<expected, schedule, gateway, requests, acks, last, tunnels>>

ConnectFails ==
    /\ phase = "requesting"
    /\ SocketClosed
    /\ UNCHANGED <<reconnecting, expected, schedule, last, tunnels>>

-----------------------------------------------------------------------------
(* The gateway, which numbers its frames in each tunnel from 0.            *)

GatewayOpens ==
    /\ phase = "requesting"
    /\ ~gateway.open
    /\ gateway' = [open |-> TRUE, index |-> 1, seq |-> 0]
    /\ UNCHANGED <<phase, reconnecting, expected, schedule, requests, acks, last, tunnels>>

(* A frame is sent, for the first time or again.                           *)
GatewaySends ==
    /\ gateway.open
    /\ requests' = requests \cup {[index |-> gateway.index, seq |-> gateway.seq]}
    /\ UNCHANGED <<phase, reconnecting, expected, schedule, gateway, acks, last, tunnels>>

Alive(f) == f.index + Lifetime >= gateway.index + 1

GatewayAdvances ==
    /\ gateway.open
    /\ gateway.index < MaxIndex
    /\ gateway' = [gateway EXCEPT !.index = @ + 1, !.seq = Up(@)]
    /\ requests' = {f \in requests : Alive(f)}
    /\ acks' = {a \in acks : Alive(a)}
    /\ UNCHANGED <<phase, reconnecting, expected, schedule, last, tunnels>>

(* A TUNNELLING_ACK with the counter of the frame confirms it.             *)
GatewayConfirmed ==
    /\ \E a \in acks : a.seq = gateway.seq
    /\ GatewayAdvances

(* "Some interfaces don't initiate a disconnect here" (tunnel.py:681) but  *)
(* go on with the next frame after two tries.                              *)
GatewaySkips ==
    /\ gateway.index < last + Window
    /\ GatewayAdvances

-----------------------------------------------------------------------------

Next ==
    \/ TunnellingRequestReceived
    \/ ScheduleFires \/ TunnelLost
    \/ ReconnectClosed \/ SetupTunnel \/ Connected \/ ConnectFails
    \/ GatewayOpens \/ GatewaySends \/ GatewayConfirmed \/ GatewaySkips

Spec == Init /\ [][Next]_vars

-----------------------------------------------------------------------------
(* Properties.                                                             *)

TypeOK ==
    /\ phase \in {"up", "closing", "opening", "requesting"}
    /\ reconnecting \in BOOLEAN
    /\ expected \in Counters
    /\ schedule \in BOOLEAN
    /\ gateway \in [open : BOOLEAN, index : 1..MaxIndex, seq : Counters]
    /\ requests \subseteq Frames
    /\ acks \subseteq Frames
    /\ last \in 0..MaxIndex
    /\ tunnels \in 0..MaxTunnels

(* Frames are handed over in order, each once and none left out, over the  *)
(* wraparound of the counter and over reconnects, although the code sees   *)
(* one byte of the index.                                                  *)
InOrder == [][last' # last => last' = last + 1 \/ phase = "opening"]_vars

(* What is confirmed was handed over: a frame that is discarded as a       *)
(* repetition is one.                                                      *)
AckedDelivered == \A a \in acks : a.index <= last

(* The timer that a gap started belongs to the tunnel with the gap: it is  *)
(* not pending during a reconnect and cannot tear down the next tunnel.    *)
NoStaleTimer == reconnecting => ~schedule

=============================================================================
