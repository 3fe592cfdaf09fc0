---------------------------- MODULE SecureGroup -----------------------------
(***************************************************************************)
(* The timer of a secure multicast group (xknx/io/ip_secure.py,            *)
(* SecureGroup and SecureSequenceTimer).  Every member of the group runs   *)
(* this code; the timers are kept together by TimerNotify frames and by    *)
(* the timer value that every SecureWrapper carries.                       *)
(*                                                                         *)
(* A member's timer is the clock of its host plus _clock_difference.  The  *)
(* random delays of the notify timer and the timeout of synchronize() are  *)
(* abstracted: an armed timer may fire at any time, and timekeeper, which   *)
(* only chooses between two delays, is left out.  Frames of the network    *)
(* may be lost, delayed, duplicated and reordered, and some belong to      *)
(* another group that shares the multicast address.                        *)
(***************************************************************************)
EXTENDS Integers, FiniteSetsExt

CONSTANTS
    Members,
    HostClock,      \* what each host's clock reads when the model starts
    Latency,        \* latency_tolerance_ms
    SyncLatency,    \* sync_latency_tolerance_ms
    MaxTime,        \* bound: clock ticks
    MaxStarts,      \* bound: connections of each member
    MaxWrappers,    \* bound: secure frames they send
    MaxFaults,      \* bound: frames lost and connects cancelled
    InFlight        \* bound: frames under way to a member

ASSUME SecureGroupAssumption ==
    /\ HostClock \in [Members -> Nat]
    /\ SyncLatency \in Nat /\ Latency \in Nat /\ SyncLatency < Latency
    /\ MaxStarts \in [Members -> Nat]
    /\ {MaxTime, MaxWrappers, MaxFaults, InFlight} \subseteq Nat

VARIABLES
    now,            \* ticks so far
    phase,          \* of Routing.connect: "down", "sync" or "connected"
    open,           \* is the member's socket open?
    diff,           \* _clock_difference
    auth,           \* timer_authenticated
    notify,         \* _notify_timer_handle with sched_update and its message tag
    waiter,         \* the future of _expected_notify_handler: [st, value]
    net,            \* frames under way
    starts,         \* connections so far
    tag,            \* the tag of _expected_notify_handler, new for each of them
    wrappers, faults,
    \* Observers.
    interrupted,    \* connect() was cancelled by its caller
    first,          \* when a member first accepted a wrapper (-1: never)
    spread          \* longest time after which it accepted one again

member == <<phase, open, auth, interrupted>>
counters == <<starts, tag, wrappers, faults>>
vars == <<now, diff, notify, waiter, net, member, counters, first, spread>>

NoHandle == <<"none">>
Periodic == <<"periodic">>
NoTag == <<>>             \* any random tag but those of synchronize()
Ids == 1..MaxWrappers
NoId == 0

MonotonicMs(m) == HostClock[m] + now
CurrentTimerValue(m) == MonotonicMs(m) + diff[m]
SchedUpdate(m) == notify[m] \notin {NoHandle, Periodic}
NoWaiter == [st |-> "none", value |-> 0]

Init ==
    /\ now = 0
    /\ phase = [m \in Members |-> "down"] /\ open = [m \in Members |-> FALSE]
    /\ diff = [m \in Members |-> 0]
    /\ auth = [m \in Members |-> FALSE]
    /\ notify = [m \in Members |-> NoHandle]
    /\ waiter = [m \in Members |-> NoWaiter]
    /\ net = {}
    /\ starts = [m \in Members |-> 0] /\ tag = [m \in Members |-> NoTag]
    /\ wrappers = 0 /\ faults = 0
    /\ interrupted = [m \in Members |-> FALSE]
    /\ first = [m \in Members |-> [w \in Ids |-> -1]]
    /\ spread = [m \in Members |-> 0]

Tick ==
    /\ now < MaxTime /\ now' = now + 1
    /\ UNCHANGED <<diff, notify, waiter, net, member, counters, first, spread>>

---------------------------------------------------------------------------
(* Frames.  A member does not see its own: the echo is discarded.          *)

Frame(to, kind, value, t, id) ==
    [to |-> to, kind |-> kind, ours |-> TRUE, value |-> value, tag |-> t, id |-> id]
Room == \A m \in Members : Cardinality({f \in net' : f.to = m}) <= InFlight
Multicast(m, kind, t, id) ==
    /\ net' = net \cup {Frame(n, kind, CurrentTimerValue(m), t, id) : n \in Members \ {m}}
    /\ Room
SendTimerNotify(m, t) == Multicast(m, "notify", t, NoId)

Reschedule(m) == notify' = [notify EXCEPT ![m] = Periodic]
RescheduleUpdate(m, t) == notify' = [notify EXCEPT ![m] = <<"update", t>>]

---------------------------------------------------------------------------
(* The connection.                                                          *)

\* Routing.connect with a new SecureGroup: the socket is opened, synchronize()
\* sends a TimerNotify and waits for the answer that carries its tag.
Connect(m) ==
    /\ phase[m] # "sync" /\ ~open[m] /\ starts[m] < MaxStarts[m]
    /\ starts' = [starts EXCEPT ![m] = @ + 1]
    /\ tag' = [tag EXCEPT ![m] = <<m, starts'[m]>>]
    /\ phase' = [phase EXCEPT ![m] = "sync"] /\ open' = [open EXCEPT ![m] = TRUE]
    /\ diff' = [diff EXCEPT ![m] = 0]
    /\ auth' = [auth EXCEPT ![m] = FALSE]
    /\ notify' = [notify EXCEPT ![m] = NoHandle]
    /\ waiter' = [waiter EXCEPT ![m] = [st |-> "pending", value |-> 0]]
    /\ net' = net \cup {Frame(n, "notify", MonotonicMs(m), tag'[m], NoId)
                        : n \in Members \ {m}}
    /\ Room
    /\ interrupted' = [interrupted EXCEPT ![m] = FALSE]
    /\ first' = [first EXCEPT ![m] = [w \in Ids |-> -1]]
    /\ UNCHANGED <<now, wrappers, faults, spread>>

\* The timeout may fire after the answer but before synchronize() runs on.
SyncTimeout(m) ==
    /\ phase[m] = "sync" /\ waiter[m].st \in {"pending", "answered"}
    /\ waiter' = [waiter EXCEPT ![m] = [st |-> "timeout", value |-> 0]]
    /\ UNCHANGED <<now, diff, notify, net, member, counters, first, spread>>

\* The caller cancels connect(), as asyncio.wait_for does.
CancelConnect(m) ==
    /\ phase[m] = "sync" /\ waiter[m].st # "cancelled"
    /\ faults < MaxFaults /\ faults' = faults + 1
    /\ waiter' = [waiter EXCEPT ![m] = [st |-> "cancelled", value |-> 0]]
    /\ interrupted' = [interrupted EXCEPT ![m] = TRUE]
    /\ UNCHANGED <<now, diff, notify, net, phase, open, auth, starts, tag, wrappers, first, spread>>

Update(m, value) == diff' = [diff EXCEPT ![m] = value - MonotonicMs(m)]

\* The rest of synchronize(), and of Routing.connect, which reports CONNECTED:
\* a cancellation is swallowed.
Synchronized(m) ==
    /\ phase[m] = "sync" /\ waiter[m].st # "pending"
    /\ phase' = [phase EXCEPT ![m] = "connected"]
    /\ waiter' = [waiter EXCEPT ![m] = NoWaiter]
    /\ \/ /\ waiter[m].st = "answered"
          /\ Update(m, waiter[m].value)
       \/ /\ waiter[m].st \in {"timeout", "cancelled"}
          /\ UNCHANGED diff
    /\ IF waiter[m].st = "cancelled"
       THEN UNCHANGED <<auth, notify>>
       ELSE auth' = [auth EXCEPT ![m] = TRUE] /\ Reschedule(m)
    /\ UNCHANGED <<now, open, net, interrupted, counters, first, spread>>

\* Routing.disconnect, after which the interface is dropped.  A pending
\* synchronize() is cancelled, an answered one is not.
Disconnect(m) ==
    /\ open[m]
    /\ open' = [open EXCEPT ![m] = FALSE]
    /\ notify' = [notify EXCEPT ![m] = NoHandle]
    /\ \/ /\ phase[m] = "connected"
          /\ phase' = [phase EXCEPT ![m] = "down"]
          /\ diff' = [diff EXCEPT ![m] = 0] /\ auth' = [auth EXCEPT ![m] = FALSE]
          /\ interrupted' = [interrupted EXCEPT ![m] = FALSE]
          /\ first' = [first EXCEPT ![m] = [w \in Ids |-> -1]]
          /\ UNCHANGED waiter
       \/ /\ phase[m] = "sync"
          /\ waiter' = IF waiter[m].st = "pending"
                       THEN [waiter EXCEPT ![m] = [st |-> "cancelled", value |-> 0]] ELSE waiter
          /\ UNCHANGED <<phase, diff, auth, interrupted, first>>
    /\ UNCHANGED <<now, net, counters, spread>>

---------------------------------------------------------------------------
(* Sending.                                                                 *)

\* Mutant: the notify timer is not started again.
NotifyTimerExpiredOnce(m) ==
    /\ notify[m] # NoHandle
    /\ IF open[m]
       THEN /\ SendTimerNotify(m, IF SchedUpdate(m) THEN notify[m][2] ELSE NoTag)
            /\ notify' = [notify EXCEPT ![m] = NoHandle]
       ELSE notify' = [notify EXCEPT ![m] = NoHandle] /\ UNCHANGED net
    /\ UNCHANGED <<now, diff, waiter, phase, open, auth, interrupted, counters, first, spread>>
\* _notify_timer_expired; on a closed socket send() raises CommunicationError.
NotifyTimerExpired(m) ==
    /\ notify[m] # NoHandle
    /\ IF open[m]
       THEN /\ SendTimerNotify(m, IF SchedUpdate(m) THEN notify[m][2] ELSE NoTag)
            /\ Reschedule(m)
       ELSE notify' = [notify EXCEPT ![m] = NoHandle] /\ UNCHANGED net
    /\ UNCHANGED <<now, diff, waiter, phase, open, auth, interrupted, counters, first, spread>>

\* send: the sequence information is the timer value.  Event E9.
Send(m) ==
    /\ phase[m] = "connected" /\ open[m] /\ wrappers < MaxWrappers
    /\ wrappers' = wrappers + 1
    /\ Multicast(m, "wrapper", NoTag, wrappers')
    /\ IF SchedUpdate(m) THEN UNCHANGED notify ELSE Reschedule(m)
    /\ UNCHANGED <<now, diff, waiter, member, starts, tag, faults, first, spread>>

---------------------------------------------------------------------------
(* Receiving.                                                               *)

Raise(m, value) == diff' = [diff EXCEPT ![m] = @ + (value - CurrentTimerValue(m))]

\* Mutants: a late wrapper is compared with half the strictness; a frame is
\* taken whatever its MAC.
ValidLate(m, value) == value > CurrentTimerValue(m) - 2 * Latency
VerifiedAny(f) == f.ours \in BOOLEAN

\* validate_secure_wrapper: would it return TRUE?
Valid(m, value) == value > CurrentTimerValue(m) - Latency

\* verify_timer_notify_mac and decrypt_frame: only the group's key verifies.
Verified(f) == f.ours

\* Mutant: a timer that is only a little behind is left alone.
FollowTolerant(m, value) ==
    IF value > CurrentTimerValue(m) + Latency THEN Raise(m, value) ELSE UNCHANGED diff
Follow(m, value) ==
    IF value > CurrentTimerValue(m) THEN Raise(m, value) ELSE UNCHANGED diff

\* Events E1 to E4, and E11.  An answer that comes twice raises
\* InvalidStateError in the callback.
HandleTimerNotify(m, f) ==
    /\ UNCHANGED <<auth, first, spread>>
    /\ IF waiter[m].st # "none" /\ f.tag = tag[m]
       THEN /\ waiter' = IF waiter[m].st = "pending"
                         THEN [waiter EXCEPT ![m] = [st |-> "answered", value |-> f.value]]
                         ELSE waiter
            /\ UNCHANGED <<diff, notify>>
       ELSE /\ UNCHANGED waiter
            /\ \/ /\ f.value > CurrentTimerValue(m) - SyncLatency
                  /\ Follow(m, f.value)
                  /\ Reschedule(m)
               \/ /\ f.value <= CurrentTimerValue(m) - SyncLatency
                  /\ IF f.value > CurrentTimerValue(m) - Latency \/ SchedUpdate(m)
                     THEN UNCHANGED notify
                     ELSE RescheduleUpdate(m, f.tag)
                  /\ UNCHANGED diff

\* Events E5 to E8: an accepted frame goes to the callbacks.
HandleSecureWrapper(m, f) ==
    /\ auth[m]
    /\ Follow(m, f.value)
    /\ notify' = CASE SchedUpdate(m) -> notify
                   [] ~SchedUpdate(m) /\ f.value > CurrentTimerValue(m) - SyncLatency ->
                        [notify EXCEPT ![m] = Periodic]
                   [] ~SchedUpdate(m) /\ f.value <= CurrentTimerValue(m) - Latency ->
                        [notify EXCEPT ![m] = <<"update", f.tag>>]
                   [] OTHER -> notify
    /\ IF Valid(m, f.value)
       THEN /\ first' = [first EXCEPT ![m][f.id] = IF @ = -1 THEN now ELSE @]
            /\ spread' = [spread EXCEPT ![m] = Max({@, now - first'[m][f.id]})]
       ELSE UNCHANGED <<first, spread>>
    /\ UNCHANGED <<waiter, auth>>

Discard == UNCHANGED <<diff, notify, waiter, auth, first, spread>>

Handle(m, f) ==
    IF open[m] /\ Verified(f) /\ (f.kind = "wrapper" => auth[m])
    THEN IF f.kind = "notify" THEN HandleTimerNotify(m, f) ELSE HandleSecureWrapper(m, f)
    ELSE Discard

\* data_received_callback of a member.  The network may deliver a frame again.
Receive(m) ==
    /\ \E f \in net :
        /\ f.to = m
        /\ Handle(m, f)
        /\ net' = net \ {f}
    /\ UNCHANGED <<now, phase, open, interrupted, counters>>
ReceiveDuplicate(m) ==
    /\ \E f \in net : f.to = m /\ Handle(m, f)
    /\ UNCHANGED <<now, net, phase, open, interrupted, counters>>

Lose ==
    /\ faults < MaxFaults /\ faults' = faults + 1
    /\ \E f \in net : net' = net \ {f}
    /\ UNCHANGED <<now, diff, notify, waiter, member, starts, tag, wrappers, first, spread>>

\* A TimerNotify or SecureWrapper of a group with another backbone key.
ReceiveForeign(m, kind) ==
    /\ \E f \in {[Frame(m, kind, CurrentTimerValue(m) + Latency, NoTag, 1) EXCEPT !.ours = FALSE]} :
        Handle(m, f)
    /\ UNCHANGED <<now, net, phase, open, interrupted, counters>>

---------------------------------------------------------------------------
Next ==
    \/ Tick \/ Lose
    \/ \E m \in Members :
        \/ Connect(m) \/ SyncTimeout(m) \/ CancelConnect(m) \/ Synchronized(m) \/ Disconnect(m)
        \/ NotifyTimerExpired(m) \/ Send(m)
        \/ Receive(m) \/ ReceiveDuplicate(m)
        \/ ReceiveForeign(m, "notify") \/ ReceiveForeign(m, "wrapper")

\* Armed timers fire, the network delivers what it does not lose, and the event
\* loop runs on.  A frame that postpones a notify timer carries the timer value
\* itself, so that its delivery does what the notify would have done.
Spec ==
    /\ Init /\ [][Next]_vars
    /\ \A m \in Members :
        /\ WF_vars(NotifyTimerExpired(m)) /\ WF_vars(SyncTimeout(m))
        /\ WF_vars(Synchronized(m)) /\ WF_vars(Receive(m))

---------------------------------------------------------------------------
(* Properties.                                                              *)

\* A wrapper that a member has accepted is accepted again at most for the
\* latency tolerance: its timer has reached the value of the wrapper and never
\* goes back while it is connected, whatever frames it receives.
ReplayWindow == \A m \in Members : spread[m] < Latency

\* No timer is ahead of the fastest clock in the group: every value that moves
\* a timer was read from a clock of the group, and grows old under way.
TimersGenuine ==
    \A m \in Members : \E n \in Members : CurrentTimerValue(m) <= MonotonicMs(n)

\* Once connect() has returned, the member accepts wrappers and takes its part
\* in keeping the timers together.  Not so when the caller has cancelled it.
Listening ==
    \A m \in Members :
        phase[m] = "connected" /\ open[m] /\ ~interrupted[m]
            => auth[m] /\ notify[m] # NoHandle

\* After restarts and losses the timers of the members come together again.
Converges ==
    <>[](\A m, n \in Members :
            auth[m] /\ open[m] /\ auth[n] /\ open[n]
                => CurrentTimerValue(m) - CurrentTimerValue(n) <= SyncLatency)
=============================================================================
