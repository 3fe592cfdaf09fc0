------------------------------ MODULE Routing -------------------------------
(***************************************************************************)
(* KNXnet/IP routing (xknx/io/routing.py): Routing.send_cemi under the     *)
(* flow control of _RoutingFlowControl.  A ROUTING_BUSY frame pauses all   *)
(* senders; a timer task lifts the pause, and counts the received frames   *)
(* down again.                                                             *)
(*                                                                         *)
(* Times are kept relative: how long ago something happened, up to the     *)
(* largest value that is told apart, and how much of a delay is left.  A   *)
(* callback that is due may run late, as in a busy event loop.             *)
(***************************************************************************)
EXTENDS Naturals, Integers, FiniteSetsExt

CONSTANTS
    Senders,        \* tasks that call send_cemi
    MaxSend,        \* bound: frames of each sender
    MaxBusy,        \* bound: ROUTING_BUSY frames
    WaitTimes,      \* the wait_time values they carry
    ROUTING_INDICATION_WAIT_TIME, BUSY_INCREMENT_COOLDOWN, BUSY_DECREMENT_TIME,
    BUSY_RANDOM_TIME_FACTOR, BUSY_SLOWDURATION_TIME_FACTOR

ASSUME RoutingAssumption ==
    /\ MaxSend \in Nat /\ MaxBusy \in Nat /\ WaitTimes \subseteq Nat
    /\ ROUTING_INDICATION_WAIT_TIME \in Nat /\ BUSY_INCREMENT_COOLDOWN \in Nat
    /\ BUSY_DECREMENT_TIME \in Nat /\ BUSY_RANDOM_TIME_FACTOR \in Nat
    /\ BUSY_SLOWDURATION_TIME_FACTOR \in Nat

VARIABLES
    conn,           \* "new", "connecting", "connected", "failed" or "stopped"
    transport,      \* is the multicast socket open?
    pc,             \* of a sender: "idle", "sleep", "wait" (for _ready), "woken"
    left,           \* what is left of a sender's sleep
    sends,          \* frames a sender has handed to the transport
    ready,          \* _ready
    sinceSent,      \* time since _last_sent_routing_indication_time
    sinceBusy,      \* time since _last_busy_frame_time
    pausing,        \* _wait_start_time is not None
    remaining,      \* _wait_time_ms less what has elapsed since
    received,       \* _received_busy_frames
    timer,          \* _timer_task: [phase, left, slow]
    busy,           \* ROUTING_BUSY frames so far
    \* Observers.
    owed,           \* how long the bus has asked everybody to be silent
    overtaken,      \* senders that were woken before the last ROUTING_BUSY
    own             \* time since a sender's own last frame

flow == <<ready, sinceBusy, pausing, remaining, received, timer>>
observed == <<owed, overtaken, own>>
flowVars == <<conn, transport, pc, left, sends, sinceSent, busy, flow, observed>>

NoTimer == [phase |-> "none", left |-> 0, slow |-> 0]

FlowInit ==
    /\ conn = "new" /\ transport = FALSE
    /\ pc = [s \in Senders |-> "idle"] /\ left = [s \in Senders |-> 0]
    /\ sends = [s \in Senders |-> 0]
    /\ ready = TRUE
    /\ sinceSent = ROUTING_INDICATION_WAIT_TIME
    /\ sinceBusy = BUSY_INCREMENT_COOLDOWN + 1
    /\ pausing = FALSE /\ remaining = -1 /\ received = 0 /\ timer = NoTimer
    /\ busy = 0
    /\ owed = 0 /\ overtaken = {}
    /\ own = [s \in Senders |-> ROUTING_INDICATION_WAIT_TIME]

---------------------------------------------------------------------------
(* Time.                                                                    *)

Less(n) == IF n > 0 THEN n - 1 ELSE 0
Older(n, most) == IF n < most THEN n + 1 ELSE n

FlowTick ==
    /\ sinceSent' = Older(sinceSent, ROUTING_INDICATION_WAIT_TIME)
    /\ sinceBusy' = Older(sinceBusy, BUSY_INCREMENT_COOLDOWN + 1)
    /\ left' = [s \in Senders |-> Less(left[s])]
    /\ remaining' = IF remaining > -1 THEN remaining - 1 ELSE remaining
    /\ timer' = [timer EXCEPT !.left = Less(@)]
    /\ owed' = Less(owed)
    /\ own' = [s \in Senders |-> Older(own[s], ROUTING_INDICATION_WAIT_TIME)]
    /\ UNCHANGED <<conn, transport, pc, sends, ready, pausing, received, busy, overtaken>>

---------------------------------------------------------------------------
(* Connecting.                                                              *)

unsent == <<pc, left, sends, sinceSent, busy>>

\* connect: the socket is created while the event loop runs on.
RoutingConnect ==
    /\ conn = "new"
    /\ conn' = "connecting"
    /\ UNCHANGED <<transport, unsent, flow, observed>>
Connected ==
    /\ conn = "connecting"
    /\ conn' = "connected" /\ transport' = TRUE
    /\ UNCHANGED <<unsent, flow, observed>>
\* OSError: the state goes back to DISCONNECTED and the transport is stopped.
ConnectFails ==
    /\ conn = "connecting"
    /\ conn' = "failed" /\ transport' = FALSE
    /\ UNCHANGED <<unsent, flow, observed>>

\* disconnect: _flow_control.cancel() ends the timer, whatever it would still do.
RoutingDisconnect ==
    /\ conn = "connected"
    /\ conn' = "stopped" /\ transport' = FALSE
    /\ timer' = NoTimer
    /\ UNCHANGED <<unsent, ready, sinceBusy, pausing, remaining, received, observed>>

---------------------------------------------------------------------------
(* Sending.                                                                 *)

\* The body of `async with throttle()` and what follows it: the transport of a
\* stopped interface raises CommunicationError.  L_DATA_CON is created locally.
Transmit(s) ==
    /\ pc' = [pc EXCEPT ![s] = "idle"]
    /\ IF transport
       THEN /\ sends' = [sends EXCEPT ![s] = @ + 1]
            /\ sinceSent' = 0
            /\ own' = [own EXCEPT ![s] = 0]
       ELSE UNCHANGED <<sends, sinceSent, own>>
    /\ overtaken' = overtaken \ {s}
    /\ UNCHANGED left

\* await self._ready.wait(): it does not even suspend when the event is set.
AwaitReady(s) ==
    IF ready THEN Transmit(s)
    ELSE /\ pc' = [pc EXCEPT ![s] = "wait"]
         /\ UNCHANGED <<left, sends, sinceSent, own, overtaken>>

\* Mutant: the pause after the last frame is left out while the bus is busy.
ThrottleReady(s) ==
    IF ready /\ sinceSent < ROUTING_INDICATION_WAIT_TIME
    THEN /\ pc' = [pc EXCEPT ![s] = "sleep"]
         /\ left' = [left EXCEPT ![s] = ROUTING_INDICATION_WAIT_TIME - sinceSent]
         /\ UNCHANGED <<sends, sinceSent, own, overtaken>>
    ELSE AwaitReady(s)
Throttle(s) ==
    IF sinceSent < ROUTING_INDICATION_WAIT_TIME
    THEN /\ pc' = [pc EXCEPT ![s] = "sleep"]
         /\ left' = [left EXCEPT ![s] = ROUTING_INDICATION_WAIT_TIME - sinceSent]
         /\ UNCHANGED <<sends, sinceSent, own, overtaken>>
    ELSE AwaitReady(s)

\* send_cemi; it is called once the interface is connected.
SendCemi(s) ==
    /\ conn \in {"connected", "stopped"} /\ pc[s] = "idle" /\ sends[s] < MaxSend
    /\ Throttle(s)
    /\ UNCHANGED <<conn, transport, busy, flow, owed>>
Slept(s) ==
    /\ pc[s] = "sleep" /\ left[s] = 0
    /\ AwaitReady(s)
    /\ UNCHANGED <<conn, transport, busy, flow, owed>>
\* A waiter that Event.set() has woken runs in the next iteration of the loop,
\* even if the event was cleared meanwhile.
Woken(s) ==
    /\ pc[s] = "woken"
    /\ Transmit(s)
    /\ UNCHANGED <<conn, transport, busy, flow, owed>>

---------------------------------------------------------------------------
(* Flow control.                                                            *)

\* A new timer task; the random extension is drawn when it starts.
StartTimer(w, n) ==
    \E extension \in 0..(n * BUSY_RANDOM_TIME_FACTOR) :
        timer' = [phase |-> "pause", left |-> w + extension,
                  slow |-> n * BUSY_SLOWDURATION_TIME_FACTOR]

\* The part of handle_routing_busy that every frame reaches.
CountBusyFrame(w) ==
    /\ conn = "connected" /\ busy < MaxBusy
    /\ busy' = busy + 1
    /\ ready' = FALSE /\ sinceBusy' = 0
    /\ received' = IF pausing /\ sinceBusy > BUSY_INCREMENT_COOLDOWN
                   THEN received + 1 ELSE received
    /\ owed' = Max({owed, w})
    /\ overtaken' = {s \in Senders : pc[s] = "woken"}
    /\ UNCHANGED <<conn, transport, pc, left, sends, sinceSent, own>>
KeepPause == UNCHANGED <<pausing, remaining, timer>>
NewPause(w) == pausing' = TRUE /\ remaining' = w /\ StartTimer(w, received')

\* Mutants: a longer pause does not replace the running one; the timer is
\* cancelled before the frame is discarded.
HandleRoutingBusyFirst(w) ==
    CountBusyFrame(w) /\ IF pausing THEN KeepPause ELSE NewPause(w)
HandleRoutingBusyCancelled(w) ==
    /\ CountBusyFrame(w)
    /\ IF pausing /\ remaining >= w
       THEN timer' = NoTimer /\ UNCHANGED <<pausing, remaining>>
       ELSE NewPause(w)
HandleRoutingBusy(w) ==
    CountBusyFrame(w) /\ IF pausing /\ remaining >= w THEN KeepPause ELSE NewPause(w)

\* _resume_sending after its first sleep: the event wakes every waiter.
ResumeSending ==
    /\ timer.phase = "pause" /\ timer.left = 0
    /\ ready' = TRUE /\ pausing' = FALSE
    /\ pc' = [s \in Senders |-> IF pc[s] = "wait" THEN "woken" ELSE pc[s]]
    /\ timer' = [timer EXCEPT !.phase = "slow", !.left = timer.slow]
    /\ UNCHANGED <<conn, transport, left, sends, sinceSent, sinceBusy, remaining, received, busy, observed>>

NextDecrement(n) ==
    IF n > 0 THEN [phase |-> "count", left |-> BUSY_DECREMENT_TIME, slow |-> 0] ELSE NoTimer

SlowdurationOver ==
    /\ timer.phase = "slow" /\ timer.left = 0
    /\ timer' = NextDecrement(received)
    /\ UNCHANGED <<conn, transport, unsent, ready, sinceBusy, pausing, remaining, received, observed>>
\* Mutant: one step instead of a loop.
DecrementOnce ==
    /\ timer.phase = "count" /\ timer.left = 0
    /\ received' = received - 1
    /\ timer' = NoTimer
    /\ UNCHANGED <<conn, transport, unsent, ready, sinceBusy, pausing, remaining, observed>>
Decrement ==
    /\ timer.phase = "count" /\ timer.left = 0
    /\ received' = received - 1
    /\ timer' = NextDecrement(received - 1)
    /\ UNCHANGED <<conn, transport, unsent, ready, sinceBusy, pausing, remaining, observed>>

---------------------------------------------------------------------------
FlowNext ==
    \/ FlowTick
    \/ RoutingConnect \/ Connected \/ ConnectFails \/ RoutingDisconnect
    \/ \E s \in Senders : SendCemi(s) \/ Slept(s) \/ Woken(s)
    \/ \E w \in WaitTimes : HandleRoutingBusy(w)
    \/ ResumeSending \/ SlowdurationOver \/ Decrement

\* Time passes and the event loop runs what is due.
FlowSpec ==
    /\ FlowInit /\ [][FlowNext]_flowVars
    /\ WF_flowVars(FlowTick)
    /\ WF_flowVars(ResumeSending) /\ WF_flowVars(SlowdurationOver) /\ WF_flowVars(Decrement)
    /\ \A s \in Senders : WF_flowVars(Slept(s) \/ Woken(s))

---------------------------------------------------------------------------
(* Properties.                                                              *)

TypeOK ==
    /\ conn \in {"new", "connecting", "connected", "failed", "stopped"}
    /\ transport \in BOOLEAN /\ ready \in BOOLEAN /\ pausing \in BOOLEAN
    /\ pc \in [Senders -> {"idle", "sleep", "wait", "woken"}]
    /\ left \in [Senders -> 0..ROUTING_INDICATION_WAIT_TIME]
    /\ sends \in [Senders -> 0..MaxSend]
    /\ own \in [Senders -> 0..ROUTING_INDICATION_WAIT_TIME]
    /\ sinceSent \in 0..ROUTING_INDICATION_WAIT_TIME
    /\ sinceBusy \in 0..(BUSY_INCREMENT_COOLDOWN + 1)
    /\ remaining \in Int /\ owed \in Nat /\ overtaken \subseteq Senders
    /\ received \in Nat /\ busy \in 0..MaxBusy /\ received <= busy
    /\ timer.phase \in {"none", "pause", "slow", "count"}
    /\ timer.left \in Nat /\ timer.slow \in Nat

\* No sender is let through before the wait time of every ROUTING_BUSY frame is
\* over, however the frames overlap; only a sender that had been woken before
\* the last one arrived still sends its frame.
BusyRespected ==
    ready \/ (\E s \in Senders : pc[s] = "woken" /\ s \notin overtaken) => owed = 0

\* The frames of one sender keep their distance, whatever it waited for and
\* however often the other sender was faster.
OwnRate ==
    [][\A s \in Senders : sends'[s] > sends[s] => own[s] = ROUTING_INDICATION_WAIT_TIME]_flowVars

\* A sender that waits for the end of a pause is woken: every pause has a timer
\* that ends it, unless disconnect() has cancelled it.
WaitersResume ==
    \A s \in Senders : pc[s] = "wait" ~> (pc[s] # "wait" \/ conn = "stopped")

\* The counter that lengthens the pauses goes back to zero once the bus is not
\* busy any more.
CounterDrains == []<>(received = 0 \/ conn = "stopped")
=============================================================================
